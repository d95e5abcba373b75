------------------------------- MODULE MCLogins -------------------------------
(* Instances, for TLC, of whose figures are fetched and with which secret: the    *)
(* providers whose logins other programs renew (CodexRefresh, ClaudeRefresh) and  *)
(* the accounts named with a key (AccountLifecycle). They share no state, so a    *)
(* behaviour is one of a component: part says which.                              *)
EXTENDS CodexRefresh, TLC
CONSTANTS ClaudeLogins, Unresolved, Probes, Names, Ids, Base, Salts, Tasks, None, MaxCommands,
          MaxFailures, MaxLaunches

\* Two names that differ only in case share the hashed suffix.
MCNames == {"Work", "work"}
MCIds == {"base", "salt"}
MCBase == [n \in MCNames |-> "base"]
MCSalts == <<"salt">>
MCSymmetry == Permutations(Accounts)

VARIABLES part,
          place, store, identity, owner, number, redeemable, cache, probe, card, fetch, active,
          lastGood, limited, snapshot, since, raced,
          rows, graveyard, keys, disk, cards, entries, mem, cmd, cred, commit, outdated, task,
          bounds, owners, contested
claudeVars == <<place, store, identity, owner, number, redeemable, cache, probe, card, fetch,
                active, lastGood, limited, snapshot, since, raced>>
keyVars == <<rows, graveyard, keys, disk, cards, entries, mem, cmd, cred, commit, outdated, task,
             bounds, owners, contested>>
C == INSTANCE ClaudeRefresh WITH
       MaxLogins <- ClaudeLogins, account <- owner, issued <- number, run <- fetch,
       shown <- snapshot
K == INSTANCE AccountLifecycle WITH raced <- contested

ASSUME ClaudeAssumption == ClaudeLogins \in Nat \ {0} /\ Unresolved \notin Accounts
ASSUME KeysAssumption == None \notin Names /\ None \notin Tasks

MCInit ==
  /\ part \in {"claude", "codex", "accounts"}
  /\ Init /\ C!Init /\ K!Init
  /\ account[1] = identity
  /\ part # "claude" => place = "file" /\ card = identity
  /\ part # "codex" => file[1] # NoLogin
Claude(A) == part = "claude" /\ A /\ UNCHANGED <<part, vars, keyVars>>
Codex(A) == part = "codex" /\ A /\ UNCHANGED <<part, claudeVars, keyVars>>
Keys(A) == part = "accounts" /\ A /\ UNCHANGED <<part, vars, claudeVars>>

MCNext ==
  \/ Claude(C!Others) \/ Claude(C!Reading) \/ Claude(C!Refreshing) \/ Claude(C!Renewing)
  \/ \E p \in Paths : \/ Codex(UserLogsOut(p)) \/ Codex(CliRedeems(p)) \/ Codex(Ages(p))
                      \/ \E a \in Accounts : Codex(UserLogsIn(p, a))
  \/ Codex(CliStores) \/ Codex(Begin) \/ Codex(Load) \/ Codex(Pick) \/ Codex(Reload)
  \/ Codex(Redeem) \/ Codex(RedeemRefused) \/ Codex(RequestFails) \/ Codex(Guard)
  \/ Codex(Write) \/ Codex(WriteFails) \/ Codex(Fetch) \/ Codex(FetchRefused)
  \/ Codex(Check)
  \/ \E t \in Tasks : \/ Keys(K!Add(t)) \/ Keys(K!Remove(t)) \/ Keys(K!ChangeKey(t))
                       \/ Keys(K!Reset(t)) \/ Keys(K!Detect(t))
                       \/ \E first \in K!FirstRows : Keys(K!Relaunch(t, first))
MCSpec == MCInit /\ [][MCNext]_<<part, vars, claudeVars, keyVars>>

\* The properties of ClaudeRefresh: figures are of the card's account, and the next read sees a
\* login that was written (ensure_account_identity_current, write_generic_password).
FiguresBelongToCard == part = "claude" => C!FiguresBelongToCard
OwnWriteIsSeen == part = "claude" => C!OwnWriteIsSeen
\* The properties of AccountLifecycle: cards agree with the settings and the service, keys with
\* their accounts, and a probe that is out of date is discarded (commands/provider.rs).
CardsAgree == K!CardsAgree
KeysAreOwned == K!KeysAreOwned
StaleProbeDiscarded == K!StaleProbeDiscarded
===============================================================================
