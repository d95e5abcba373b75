---------------------------- MODULE ClaudeRefresh ----------------------------
(* One fetch of the Claude provider after another (providers/claude/mod.rs,    *)
(* auth.rs), the read cache of the credential store under it, and the others   *)
(* that use the same login: Claude Code, the user who signs in and out, and    *)
(* probes of this program that read the same entry.                            *)
(* A login is the serial number of a pair of tokens that the server issued.    *)
EXTENDS Naturals, FiniteSets

CONSTANTS Accounts,   \* the user's accounts with the provider
          Unresolved, \* the card has no account of its own; not in Accounts
          Probes,     \* other reads of the entry (has_local_credentials, another card)
          MaxLogins   \* bound: logins ever issued

VARIABLES place,     \* where the login is kept: a file, the store, or a store item that
                     \* only its owner may write ("foreign", is_foreign_keychain_item)
          store,     \* what is kept there
          identity,  \* the account that Claude Code's own settings name
          account,   \* account[v]: whose login v is
          issued,    \* logins issued
          redeemable,\* logins whose refresh token the server accepts
          cache,     \* CREDENTIAL_CACHE entry of the login
          probe,     \* probe[p]: a read by another task, between two locks
          card,      \* account_identity of the provider
          run,       \* the fetch
          active, lastGood, limited,   \* cached_credential_fingerprint, last_good,
                                       \* rate_limited_until of the provider
          shown,     \* history: the snapshot that the last fetch returned
          since,     \* history: what the store has held since this program last wrote it
          raced      \* history: reads that overlapped an invalidation of the entry

keeping == <<place, store, identity, account, issued, redeemable>>
provider == <<active, lastGood, limited>>
vars == <<place, store, identity, account, issued, redeemable, cache, probe, card, run,
          active, lastGood, limited, shown, since, raced>>

NoLogin == 0
Failed == MaxLogins + 1          \* the store could not be read
Logins == 1..MaxLogins
Contents == 0..MaxLogins
Reads == Contents \cup {Failed}
NoEntry == MaxLogins + 2         \* nothing cached
Nothing == [figures |-> NoLogin, of |-> NoLogin, switches |-> 0]
Idle == [pc |-> "idle", goal |-> "load", got |-> NoLogin, held |-> NoLogin, expected |-> NoLogin,
         minted |-> NoLogin, saved |-> "yes", retried |-> FALSE, reloaded |-> FALSE,
         status |-> "none", figures |-> NoLogin, switches |-> 0]

Labels == {"idle", "identity", "read", "fill", "insert", "compare", "activate", "clear_good",
           "clear_limit", "use", "redeem", "guard", "write", "stored", "replace", "cooldown",
           "fetch", "check", "limit", "build", "build_limit", "leave"}
TypeOK ==
  /\ place \in {"file", "store", "foreign"}
  /\ store \in Contents /\ identity \in Accounts /\ issued \in Contents
  /\ account \in [Logins -> Accounts]
  /\ redeemable \subseteq 1..issued
  /\ cache \in Reads \cup {NoEntry}
  /\ probe \in [Probes -> [pc : {"idle", "fill", "insert"}, got : Reads]]
  /\ card \in Accounts \cup {Unresolved}
  /\ run \in [pc : Labels, goal : {"load", "guard", "check"}, got : Reads, held : Contents,
              expected : Contents, minted : Contents, saved : {"yes", "no", "unread"},
              retried : BOOLEAN, reloaded : BOOLEAN,
              status : {"none", "ok", "unauthorized", "limited"}, figures : Contents,
              switches : 0..2]
  /\ active \in Contents /\ lastGood \in Contents /\ limited \in BOOLEAN
  /\ shown \in [figures : Contents, of : Contents, switches : 0..2]
  /\ since \subseteq Contents /\ raced \in BOOLEAN

Init ==
  /\ place \in {"file", "store", "foreign"}
  /\ identity \in Accounts
  /\ account = [v \in Logins |-> identity]
  /\ store = 1 /\ issued = 1 /\ redeemable = {1}
  /\ cache = NoEntry
  /\ probe = [p \in Probes |-> [pc |-> "idle", got |-> NoLogin]]
  /\ card \in {identity, Unresolved}
  /\ run = Idle
  /\ active = NoLogin /\ lastGood = NoLogin /\ limited = FALSE
  /\ shown = Nothing /\ since = {1} /\ raced = FALSE
-----------------------------------------------------------------------------
(* The login's other users *)

StoreHolds(v) == store' = v /\ since' = since \cup {v}
\* What the properties want to know of a fetch: accounts that came and went under it.
Noticed(a) ==
  run' = [run EXCEPT !.switches = IF a # identity /\ @ < 2 THEN @ + 1 ELSE @]

UserLogsIn(a) ==
  /\ issued < MaxLogins
  /\ issued' = issued + 1
  /\ account' = [account EXCEPT ![issued'] = a]
  /\ redeemable' = redeemable \cup {issued'}
  /\ StoreHolds(issued') /\ identity' = a /\ Noticed(a)
  /\ UNCHANGED <<place, cache, probe, card, provider, shown, raced>>

UserLogsOut ==
  /\ store # NoLogin /\ StoreHolds(NoLogin) /\ Noticed(identity)
  /\ UNCHANGED <<place, identity, account, issued, redeemable, cache, probe, card,
                 provider, shown, raced>>

\* Claude Code renews the login that is kept.
CliRotates ==
  /\ store \in redeemable /\ issued < MaxLogins
  /\ issued' = issued + 1
  /\ account' = [account EXCEPT ![issued'] = account[store]]
  /\ redeemable' = (redeemable \ {store}) \cup {issued'}
  /\ StoreHolds(issued') /\ Noticed(identity)
  /\ UNCHANGED <<place, identity, cache, probe, card, provider, shown, raced>>

\* A read of another task that has its value and not yet the lock.
InFlight == \E p \in Probes : probe[p].pc = "insert"

\* The cooldown after a 429 ends; CACHE_TTL ends.
LimitEnds ==
  /\ limited /\ limited' = FALSE
  /\ UNCHANGED <<keeping, cache, probe, card, run, active, lastGood, shown, since, raced>>
CacheExpires ==
  /\ cache # NoEntry /\ cache' = NoEntry
  /\ UNCHANGED <<keeping, probe, card, run, provider, shown, since, raced>>
-----------------------------------------------------------------------------
(* read_cached_password: lookup under the lock, the read without it, the insertion under it *)

FromStore == {store, Failed}

ProbeMisses(p) ==
  /\ place # "file" /\ probe[p].pc = "idle" /\ cache = NoEntry
  /\ probe' = [probe EXCEPT ![p].pc = "fill"]
  /\ UNCHANGED <<keeping, cache, card, run, provider, shown, since, raced>>
ProbeReads(p) ==
  /\ probe[p].pc = "fill"
  /\ \E v \in FromStore : probe' = [probe EXCEPT ![p] = [pc |-> "insert", got |-> v]]
  /\ raced' = (raced \/ run.pc = "stored")
  /\ UNCHANGED <<keeping, cache, card, run, provider, shown, since>>
ProbeInserts(p) ==
  /\ probe[p].pc = "insert"
  /\ cache' = probe[p].got
  /\ probe' = [probe EXCEPT ![p] = [pc |-> "idle", got |-> NoLogin]]
  /\ UNCHANGED <<keeping, card, run, provider, shown, since, raced>>

At(label) == run.pc = label
To(label) == run' = [run EXCEPT !.pc = label]
Around == <<keeping, probe, card, shown, since>>   \* a step of the fetch leaves these alone

\* A login that is not of the account that Claude Code names: the cache, or a renewal that
\* overtook the user's sign-in, has kept it.
SwitchesSeen(v) ==
  IF run.goal = "load" /\ v \in Logins /\ account[v] # identity THEN 2 ELSE run.switches

\* A file is read directly, an entry of the store through the cache.
ReadFile ==
  /\ At("read") /\ place = "file"
  /\ run' = [run EXCEPT !.pc = "compare", !.got = store, !.switches = SwitchesSeen(store)]
  /\ UNCHANGED <<Around, cache, provider, raced>>
CacheHit ==
  /\ At("read") /\ place # "file" /\ cache # NoEntry
  /\ run' = [run EXCEPT !.pc = "compare", !.got = cache, !.switches = SwitchesSeen(cache)]
  /\ UNCHANGED <<Around, cache, provider, raced>>
CacheMiss ==
  /\ At("read") /\ place # "file" /\ cache = NoEntry /\ To("fill")
  /\ UNCHANGED <<Around, cache, provider, raced>>
ReadStore ==
  /\ At("fill")
  /\ \E v \in FromStore :
       run' = [run EXCEPT !.pc = "insert", !.got = v, !.switches = SwitchesSeen(v)]
  /\ UNCHANGED <<Around, cache, provider, raced>>
InsertRead ==
  /\ At("insert") /\ cache' = run.got /\ To("compare")
  /\ UNCHANGED <<Around, provider, raced>>
-----------------------------------------------------------------------------
(* refresh_inner_with_config and refresh_inner_once *)

Begin ==
  /\ At("idle")
  /\ run' = [Idle EXCEPT !.pc = "identity"] /\ shown' = Nothing
  /\ UNCHANGED <<keeping, cache, probe, card, provider, since, raced>>

Fails == run' = Idle
\* CredentialsChanged: the login is loaded anew, once.
Reload == run' = IF run.reloaded THEN Idle ELSE [Idle EXCEPT !.pc = "identity", !.reloaded = TRUE,
                                                             !.switches = run.switches]

EnsureIdentity ==
  /\ At("identity")
  /\ IF card \in {identity, Unresolved} THEN run' = [run EXCEPT !.pc = "read", !.goal = "load"] ELSE Fails
  /\ UNCHANGED <<Around, cache, provider, raced>>

\* load_candidates has answered.
Loaded ==
  /\ At("compare") /\ run.goal = "load"
  /\ IF run.got \in Logins
     THEN run' = [run EXCEPT !.pc = "activate", !.got = NoLogin,
                                !.held = run.got, !.expected = run.got]
     ELSE Fails
  /\ UNCHANGED <<Around, cache, provider, raced>>

\* activate_live_usage_cache: three locks, one after the other.
Activate ==
  /\ At("activate")
  /\ active' = run.held
  /\ To(IF active = run.held THEN "use" ELSE "clear_good")
  /\ UNCHANGED <<Around, cache, lastGood, limited, raced>>
ClearGood ==
  /\ At("clear_good") /\ lastGood' = NoLogin /\ To("clear_limit")
  /\ UNCHANGED <<Around, cache, active, limited, raced>>
ClearLimit ==
  /\ At("clear_limit") /\ limited' = FALSE /\ To("use")
  /\ UNCHANGED <<Around, cache, active, lastGood, raced>>

\* A snapshot with the last good figures: deferred_refresh_snapshot, or a rate limit.
ShowLastGood == run' = [run EXCEPT !.pc = "leave", !.figures = lastGood]

\* needs_refresh: the access token runs out when it does.
Use ==
  /\ At("use")
  /\ \/ To("cooldown")
     \/ place = "foreign" /\ ShowLastGood
     \/ place # "foreign" /\ To("redeem")
  /\ UNCHANGED <<Around, cache, provider, raced>>

Cooldown ==
  /\ At("cooldown")
  /\ IF limited THEN ShowLastGood ELSE To("fetch")
  /\ UNCHANGED <<Around, cache, provider, raced>>

Fetch ==
  /\ At("fetch")
  /\ \/ Fails
     \/ \E answer \in {"ok", "limited", "unauthorized"} :
          run' = CASE answer = "unauthorized" /\ place = "foreign" ->
                        [run EXCEPT !.pc = "leave", !.figures = lastGood]
                   [] answer = "unauthorized" /\ ~run.retried /\ place # "foreign" ->
                        [run EXCEPT !.pc = "redeem", !.retried = TRUE]
                   [] OTHER -> [run EXCEPT !.pc = "check", !.status = answer]
  /\ UNCHANGED <<Around, cache, provider, raced>>
-----------------------------------------------------------------------------
(* refresh_credential and update_and_save *)

\* The server takes the refresh token; its answer may be lost.
Redeem ==
  /\ At("redeem") /\ run.held \in redeemable /\ issued < MaxLogins
  /\ issued' = issued + 1
  /\ account' = [account EXCEPT ![issued'] = account[run.held]]
  /\ redeemable' = (redeemable \ {run.held}) \cup {issued'}
  /\ \/ run' = [run EXCEPT !.pc = "guard", !.minted = issued']
     \/ Fails
  /\ UNCHANGED <<place, store, identity, cache, probe, card, provider, shown, since, raced>>
RedeemRefused ==
  /\ At("redeem") /\ Fails
  /\ UNCHANGED <<Around, cache, provider, raced>>

\* credential_generation: the cache is emptied, and the login read once more.
ReadAnew(label, goal) ==
  /\ At(label)
  /\ cache' = NoEntry /\ raced' = InFlight
  /\ run' = [run EXCEPT !.pc = "read", !.goal = goal]
  /\ UNCHANGED <<Around, provider>>

\* A login that cannot be read is not "changed": the refresh goes on as if only the saving failed.
Guarded ==
  /\ At("compare") /\ run.goal = "guard"
  /\ IF run.got = Failed THEN run' = [run EXCEPT !.pc = "replace", !.saved = "unread"]
     ELSE IF run.got # run.expected THEN Reload
     ELSE run' = [run EXCEPT !.pc = "write", !.got = NoLogin]
  /\ UNCHANGED <<Around, cache, provider, raced>>

Saves ==
  /\ store' = run.minted /\ since' = {run.minted}
  /\ run' = [run EXCEPT !.pc = "replace", !.saved = "yes", !.expected = run.minted]
SaveFails == run' = [run EXCEPT !.pc = "replace", !.saved = "no"] /\ UNCHANGED <<store, since>>

\* write_private_file_atomic
WriteFile ==
  /\ At("write") /\ place = "file"
  /\ Saves \/ SaveFails
  /\ UNCHANGED <<place, identity, account, issued, redeemable, cache, probe, card, provider,
                 shown, raced>>
\* Faulty variant of DropEntry: the write leaves the cached read.
DropNothing ==
  /\ At("write") /\ place = "store" /\ To("stored")
  /\ UNCHANGED <<Around, cache, provider, raced>>
\* write_generic_password drops the cached read, then writes; it never creates an entry.
DropEntry ==
  /\ At("write") /\ place = "store"
  /\ cache' = NoEntry /\ raced' = (raced \/ InFlight) /\ To("stored")
  /\ UNCHANGED <<Around, provider>>
WriteStore ==
  /\ At("stored")
  /\ (store # NoLogin /\ Saves) \/ SaveFails
  /\ UNCHANGED <<place, identity, account, issued, redeemable, cache, probe, card, provider,
                 shown, raced>>

\* replace_live_usage_fingerprint, with the login that update_and_save has left in credential.
Replace ==
  /\ At("replace")
  /\ LET held == IF run.saved = "unread" THEN run.held ELSE run.minted IN
       /\ active' = IF active = run.held THEN held ELSE active
       /\ run' = [run EXCEPT !.held = held, !.pc = IF run.retried THEN "fetch" ELSE "cooldown"]
  /\ UNCHANGED <<Around, cache, lastGood, limited, raced>>
-----------------------------------------------------------------------------
(* After the answer *)

Checked ==
  /\ At("compare") /\ run.goal = "check"
  /\ IF run.got = Failed THEN Fails
     ELSE IF run.got # run.expected THEN Reload
     ELSE CASE run.status = "ok" -> To("build")
            [] run.status = "limited" -> To("limit")
            [] OTHER -> Fails
  /\ UNCHANGED <<Around, cache, provider, raced>>

Limit ==
  /\ At("limit") /\ limited' = TRUE /\ ShowLastGood
  /\ UNCHANGED <<Around, cache, active, lastGood, raced>>

\* build_snapshot, or an answer that cannot be mapped
Build ==
  /\ At("build")
  /\ \/ lastGood' = run.held /\ run' = [run EXCEPT !.pc = "build_limit", !.figures = run.held]
     \/ UNCHANGED lastGood /\ Fails
  /\ UNCHANGED <<Around, cache, active, limited, raced>>
BuildEnds ==
  /\ At("build_limit") /\ limited' = FALSE /\ To("leave")
  /\ UNCHANGED <<Around, cache, active, lastGood, raced>>

\* Faulty variant of Leave: the card's account is not compared again.
LeaveUnchecked ==
  /\ At("leave") /\ run' = Idle
  /\ shown' = [figures |-> run.figures, of |-> run.held, switches |-> run.switches]
  /\ UNCHANGED <<keeping, cache, probe, card, provider, since, raced>>
\* ensure_account_identity_current, before a snapshot is returned
Leave ==
  /\ At("leave") /\ run' = Idle
  /\ shown' = IF card \in {identity, Unresolved}
              THEN [figures |-> run.figures, of |-> run.held, switches |-> run.switches]
              ELSE shown
  /\ UNCHANGED <<keeping, cache, probe, card, provider, since, raced>>

Others ==
  \/ UserLogsOut \/ CliRotates \/ LimitEnds \/ CacheExpires
  \/ \E a \in Accounts : UserLogsIn(a)
  \/ \E p \in Probes : ProbeMisses(p) \/ ProbeReads(p) \/ ProbeInserts(p)
Reading == ReadFile \/ CacheHit \/ CacheMiss \/ ReadStore \/ InsertRead
Refreshing ==
  \/ Begin \/ EnsureIdentity \/ Loaded \/ Activate \/ ClearGood \/ ClearLimit
  \/ Use \/ Cooldown \/ Fetch \/ Checked \/ Limit \/ Build \/ BuildEnds \/ Leave
Renewing ==
  \/ Redeem \/ RedeemRefused \/ ReadAnew("guard", "guard") \/ ReadAnew("check", "check")
  \/ Guarded \/ WriteFile \/ DropEntry \/ WriteStore \/ Replace

Next == Others \/ Reading \/ Refreshing \/ Renewing
Spec == Init /\ [][Next]_vars
-----------------------------------------------------------------------------
\* The figures on a card are those of its account (AccountChanged, CredentialsChanged), unless
\* the user changed the account twice while they were fetched, or the login that the fetch
\* loaded was not of the account Claude Code named at that time: the cache still answered with
\* the one before, or a renewal, written after the user had signed in anew, replaced the user's
\* login. Kept figures are shown only for the account whose login the fetch used
\* (activate_live_usage_cache).
FiguresBelongToCard ==
  shown.figures # NoLogin =>
    /\ card # Unresolved /\ shown.switches < 2 => account[shown.figures] = card
    /\ account[shown.figures] = account[shown.of]

\* After this program has written a login, no read is served an older one from the cache
\* ("the next read observes the store"), unless a read overlapped the write.
OwnWriteIsSeen == cache \in since \cup {Failed, NoEntry} \/ raced
=============================================================================
