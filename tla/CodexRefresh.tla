----------------------------- MODULE CodexRefresh -----------------------------
(* A fetch of the Codex provider: providers/codex/mod.rs, auth.rs, client.rs.     *)
(* The login files are tried in their order. One whose tokens are due is read     *)
(* anew, redeemed at the server and written back, if the file is as it was; the   *)
(* figures count if the file still holds the account they were fetched for. The   *)
(* user signs in and out, and the Codex CLI renews a login, at any time.          *)
(* A login, that is an access and a refresh token of an account, is its number.   *)
EXTENDS Integers

CONSTANTS Accounts, Files, MaxLogins, MaxFaults
Paths == 1..Files                \* auth_paths
Logins == 1..MaxLogins
NoLogin == 0

VARIABLES
  file,      \* file[p]: the login in it
  account,   \* account[v]: whose login v is
  issued,    \* logins issued
  alive,     \* logins whose refresh token the server takes
  token,     \* token[v]: the access token is "fresh", "due" (it says that it expires in a few
             \* minutes or has expired), or "revoked"
  cli,       \* the CLI's renewal: [path, from, to]; from is NoLogin if there is none
  run,       \* the fetch
  faults,    \* lost answers and failed writes
  lost,      \* history: logins that were redeemed for another that reached no file
  shown      \* history: the last snapshot: the login it was fetched with, its identity and file
users == <<file, account, issued, alive, token, cli>>
vars == <<file, account, issued, alive, token, cli, run, faults, lost, shown>>

NoRenewal == [path |-> 1, from |-> NoLogin, to |-> NoLogin]
Idle == [pc |-> "idle", at |-> 1, loaded |-> [p \in Paths |-> NoLogin], held |-> NoLogin,
         minted |-> NoLogin, retried |-> FALSE]
Holder(v) == account[v]

Init ==
  /\ \E a \in Accounts : account = [v \in Logins |-> a]
  /\ \E p \in Paths : file = [q \in Paths |-> IF q = p THEN 1 ELSE NoLogin]
  /\ issued = 1 /\ alive = {1}
  /\ token = [v \in Logins |-> "fresh"] /\ cli = NoRenewal
  /\ run = Idle /\ faults = 0 /\ lost = {}
  /\ shown = [figures |-> NoLogin, of |-> account[1], path |-> 1]

-----------------------------------------------------------------------------
(* The user, the CLI and the server.                                                 *)
Issues(v, a) ==
  /\ issued < MaxLogins /\ v = issued + 1
  /\ issued' = v /\ account' = [account EXCEPT ![v] = a]

UserLogsIn(p, a) ==
  \E v \in Logins :
    /\ Issues(v, a)
    /\ file' = [file EXCEPT ![p] = v]
    /\ alive' = alive \cup {v}
    /\ UNCHANGED <<token, cli, run, faults, lost, shown>>

UserLogsOut(p) ==
  /\ file[p] # NoLogin
  /\ file' = [file EXCEPT ![p] = NoLogin]
  /\ alive' = alive \ {file[p]}
  /\ UNCHANGED <<account, issued, token, cli, run, faults, lost, shown>>

CliRedeems(p) ==
  /\ cli = NoRenewal /\ file[p] \in alive
  /\ \E v \in Logins :
       /\ Issues(v, Holder(file[p]))
       /\ alive' = (alive \ {file[p]}) \cup {v}
       /\ cli' = [path |-> p, from |-> file[p], to |-> v]
  /\ UNCHANGED <<file, token, run, faults, lost, shown>>

CliStores ==
  /\ cli # NoRenewal
  /\ file' = IF file[cli.path] = cli.from THEN [file EXCEPT ![cli.path] = cli.to] ELSE file
  /\ cli' = NoRenewal
  /\ UNCHANGED <<account, issued, alive, token, run, faults, lost, shown>>

Ages(p) ==
  /\ file[p] # NoLogin /\ token[file[p]] = "fresh"
  /\ \E t \in {"due", "revoked"} : token' = [token EXCEPT ![file[p]] = t]
  /\ UNCHANGED <<file, account, issued, alive, cli, run, faults, lost, shown>>

-----------------------------------------------------------------------------
(* The fetch.                                                                        *)
NextCandidate == run' = [run EXCEPT !.pc = "pick", !.at = @ + 1]
Fails == run' = Idle
Fault == faults < MaxFaults /\ faults' = faults + 1

Begin ==
  /\ run.pc = "idle"
  /\ run' = [run EXCEPT !.pc = "load"]
  /\ UNCHANGED <<users, faults, lost, shown>>

\* load_candidates, a file at a time
Load ==
  /\ run.pc = "load"
  /\ run' = [run EXCEPT !.loaded[run.at] = file[run.at],
                        !.pc = IF run.at = Files THEN "pick" ELSE "load",
                        !.at = IF run.at = Files THEN 1 ELSE @ + 1]
  /\ UNCHANGED <<users, faults, lost, shown>>

\* refresh_with_identity takes the next candidate; needs_refresh looks at its token.
Pick ==
  /\ run.pc = "pick"
  /\ LET left == {p \in Paths : p >= run.at /\ run.loaded[p] # NoLogin}
         p == CHOOSE q \in left : \A r \in left : q <= r
     IN IF left = {} THEN Fails
        ELSE run' = [run EXCEPT !.at = p, !.held = run.loaded[p], !.retried = FALSE,
                                !.pc = IF token[run.loaded[p]] = "due" THEN "reload" ELSE "fetch"]
  /\ UNCHANGED <<users, faults, lost, shown>>
Expected == Holder(run.loaded[run.at])

\* Faulty variant of Reload: whoever is signed in now.
ReloadUnchecked ==
  /\ run.pc = "reload"
  /\ LET live == file[run.at]
         held == IF live = NoLogin THEN run.held ELSE live
     IN run' = [run EXCEPT !.held = held, !.pc = IF token[held] = "due" THEN "redeem" ELSE "fetch"]
  /\ UNCHANGED <<users, faults, lost, shown>>

\* The file is read anew, as the CLI may have renewed the login.
Reload ==
  /\ run.pc = "reload"
  /\ LET live == file[run.at]
         held == IF live = NoLogin THEN run.held ELSE live
     IN IF Holder(held) # Expected THEN Fails
        ELSE run' = [run EXCEPT !.held = held, !.pc = IF token[held] = "due" THEN "redeem" ELSE "fetch"]
  /\ UNCHANGED <<users, faults, lost, shown>>

\* refresh_token: the server exchanges the login; or the answer is lost.
Redeem ==
  /\ run.pc = "redeem" /\ run.held \in alive
  /\ \E v \in Logins :
       /\ Issues(v, Holder(run.held))
       /\ alive' = (alive \ {run.held}) \cup {v}
       /\ \/ run' = [run EXCEPT !.pc = "guard", !.minted = v] /\ UNCHANGED <<faults, lost>>
          \/ Fails /\ Fault /\ lost' = lost \cup {run.held}
  /\ UNCHANGED <<file, token, cli, shown>>

\* It was redeemed before, has expired or was revoked: the next candidate.
RedeemRefused ==
  /\ run.pc = "redeem" /\ run.held \notin alive
  /\ NextCandidate
  /\ UNCHANGED <<users, faults, lost, shown>>

\* No connection, or another status, before the exchange or instead of the figures.
RequestFails ==
  /\ run.pc \in {"redeem", "fetch"}
  /\ Fails /\ Fault
  /\ UNCHANGED <<users, lost, shown>>

\* Faulty variant of Guard: the document is compared after it was updated.
GuardUpdated ==
  /\ run.pc = "guard"
  /\ IF file[run.at] = run.minted THEN run' = [run EXCEPT !.pc = "write"] ELSE Fails
  /\ UNCHANGED <<users, faults, lost, shown>>

\* update_and_save_if_current: the file has to be as it was read.
Guard ==
  /\ run.pc = "guard"
  /\ IF file[run.at] = run.held THEN run' = [run EXCEPT !.pc = "write"] ELSE Fails
  /\ UNCHANGED <<users, faults, lost, shown>>

Renewed == [run EXCEPT !.pc = "fetch", !.held = run.minted, !.minted = NoLogin]
Write ==
  /\ run.pc = "write"
  /\ file' = [file EXCEPT ![run.at] = run.minted]
  /\ run' = Renewed
  /\ UNCHANGED <<account, issued, alive, token, cli, faults, lost, shown>>

\* The login serves this fetch only.
WriteFails ==
  /\ run.pc = "write"
  /\ Fault
  /\ run' = Renewed /\ lost' = lost \cup {run.held}
  /\ UNCHANGED <<users, shown>>

Fetch ==
  /\ run.pc = "fetch" /\ token[run.held] # "revoked"
  /\ run' = [run EXCEPT !.pc = "check"]
  /\ UNCHANGED <<users, faults, lost, shown>>

\* 401, 403: the tokens are renewed once; the second time it is the next candidate's turn.
FetchRefused ==
  /\ run.pc = "fetch" /\ token[run.held] # "fresh"
  /\ IF run.retried THEN NextCandidate
     ELSE run' = [run EXCEPT !.pc = "redeem", !.retried = TRUE]
  /\ UNCHANGED <<users, faults, lost, shown>>

\* Faulty variant of Check: the file is not read again.
CheckNothing ==
  /\ run.pc = "check"
  /\ run' = Idle
  /\ shown' = [figures |-> run.held, of |-> Expected, path |-> run.at]
  /\ UNCHANGED <<users, faults, lost>>

\* ensure_candidate_source_current, and the snapshot under the candidate's identity
Check ==
  /\ run.pc = "check"
  /\ run' = Idle
  /\ shown' = IF file[run.at] # NoLogin /\ Holder(file[run.at]) = Expected
              THEN [figures |-> run.held, of |-> Expected, path |-> run.at] ELSE shown
  /\ UNCHANGED <<users, faults, lost>>

Next ==
  \/ \E p \in Paths : \/ UserLogsOut(p) \/ CliRedeems(p) \/ Ages(p)
                      \/ \E a \in Accounts : UserLogsIn(p, a)
  \/ CliStores \/ Begin \/ Load \/ Pick \/ Reload \/ Redeem \/ RedeemRefused \/ RequestFails
  \/ Guard \/ Write \/ WriteFails \/ Fetch \/ FetchRefused \/ Check
Spec == Init /\ [][Next]_vars

-----------------------------------------------------------------------------
\* A snapshot is filed under the account its figures were fetched for, and its file holds a
\* login of that account when it is handed over, whoever signed in meanwhile
\* (ensure_candidate_identity, ensure_candidate_source_current).
SnapshotFitsLogin ==
  [][shown' # shown => /\ Holder(shown'.figures) = shown'.of
                       /\ file[shown'.path] # NoLogin /\ Holder(file[shown'.path]) = shown'.of]_vars

\* A login that was signed in or renewed stays usable: unless an answer was lost, a write failed
\* or a renewal is on its way to the file, what a file holds can be redeemed
\* (refresh_access_token, update_and_save_if_current).
LoginsStayUsable ==
  \A p \in Paths :
    file[p] # NoLogin /\ file[p] \notin lost =>
      \/ file[p] \in alive
      \/ cli.path = p /\ cli.from = file[p]
      \/ run.pc \in {"guard", "write"} /\ run.at = p /\ run.held = file[p]
=============================================================================
