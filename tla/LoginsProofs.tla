----------------------------- MODULE LoginsProofs -----------------------------
(* Whose figures are shown and with which secret: renewing loses no login, figures *)
(* are of the card's account, and cards, settings and saved keys agree, for any    *)
(* accounts, files, probes, names and commands, and any number of logins.          *)
EXTENDS MCLogins, WellFoundedInduction, TLAPS

-----------------------------------------------------------------------------
(* Codex (CodexRefresh): logins in files, which the CLI renews too.                  *)

\* What the theorems assume of the bounds: there are files and logins.
Bounds == Files \in Nat \ {0} /\ MaxLogins \in Nat \ {0}

Fields == {"pc", "at", "loaded", "held", "minted", "retried"}
Renewing == {"guard", "write"}                                \* a login was redeemed
Holding == Renewing \cup {"reload", "redeem", "fetch", "check"}  \* a candidate was picked

Known == 0..issued
CodexTypes ==
  /\ 1 \in Paths /\ MaxLogins \in Nat
  /\ issued \in 1..MaxLogins
  /\ account \in [Logins -> Accounts]
  /\ NoLogin \notin alive
  /\ file \in [Paths -> Known]
  /\ cli \in [path : Paths, from : Known, to : Known]
  /\ DOMAIN run = Fields
  /\ run.at \in Nat /\ run.loaded \in [Paths -> Known]
  /\ run.held \in Known /\ run.minted \in Known
  /\ run.pc = "load" => run.at \in Paths
  /\ run.pc = "idle" => run.at = 1

\* No login is in two files.
FilesDiffer == \A p, q \in Paths : file[p] = file[q] /\ file[p] # NoLogin => p = q

\* A candidate's login is still in its file or nowhere.
LoadedFits == \A p, q \in Paths : run.loaded[p] = file[q] /\ run.loaded[p] # NoLogin => p = q

\* So is the login at hand, and it is one of the candidate's account.
HeldFits ==
  run.pc \in Holding =>
    /\ run.at \in Paths /\ run.held # NoLogin /\ run.loaded[run.at] # NoLogin
    /\ Holder(run.held) = Holder(run.loaded[run.at])
    /\ \A p \in Paths : file[p] = run.held => p = run.at

\* A new login of this program can be redeemed and is known to nobody else yet.
MintedFits ==
  run.pc \in Renewing =>
    /\ run.minted # NoLogin /\ run.minted \in alive
    /\ run.minted # run.held /\ Holder(run.minted) = Holder(run.held)
    /\ \A p \in Paths : file[p] # run.minted /\ run.loaded[p] # run.minted
    /\ cli.from # run.minted

\* Nor is one of the CLI's, whose file is the only one with the login that it replaces.
CliFits ==
  /\ cli = NoRenewal => cli.from = NoLogin
  /\ cli # NoRenewal =>
       /\ cli.from # NoLogin /\ cli.to # NoLogin /\ cli.to \in alive /\ cli.to # cli.from
       /\ \A p \in Paths : /\ file[p] # cli.to /\ run.loaded[p] # cli.to
                           /\ file[p] = cli.from => p = cli.path
       /\ run.pc \in Holding => run.held # cli.to
       /\ run.pc \in Renewing => run.minted # cli.to

CodexInv ==
  CodexTypes /\ FilesDiffer /\ LoadedFits /\ HeldFits /\ MintedFits /\ CliFits /\ LoginsStayUsable

-----------------------------------------------------------------------------
LEMMA CodexInitially == ASSUME Bounds, Init PROVE CodexInv
<1>1. run = Idle /\ cli = NoRenewal /\ issued = 1 /\ alive = {1}
  BY DEF Init
<1>2. 1 \in Paths /\ 1 \in Logins
  BY DEF Bounds, Paths, Logins
<1>3. PICK p \in Paths : file = [q \in Paths |-> IF q = p THEN 1 ELSE NoLogin]
  BY DEF Init
<1>4. \A q \in Paths : file[q] = IF q = p THEN 1 ELSE 0
  BY <1>3 DEF NoLogin
<1>5. run.pc = "idle" /\ run.at = 1 /\ run.held = 0 /\ run.minted = 0 /\ DOMAIN run = Fields
      /\ run.loaded = [q \in Paths |-> 0]
  BY <1>1 DEF Idle, Fields, NoLogin
<1>6. CodexTypes
  <2>1. account \in [Logins -> Accounts]
    BY DEF Init
  <2>2. cli \in [path : Paths, from : Known, to : Known]
    BY <1>1, <1>2 DEF NoRenewal, NoLogin, Known
  <2>3. file \in [Paths -> Known]
    BY <1>1, <1>3 DEF Known, NoLogin
  <2>4. issued \in 1..MaxLogins
    BY <1>1 DEF Bounds
  <2>5. run.loaded \in [Paths -> Known] /\ run.held \in Known /\ run.minted \in Known
    BY <1>1, <1>5 DEF Known
  <2>6. NoLogin \notin alive
    BY <1>1 DEF NoLogin
  <2>7. QED
    BY <1>2, <1>5, <2>1, <2>2, <2>3, <2>4, <2>5, <2>6 DEF CodexTypes, Bounds
<1>7. FilesDiffer
  BY <1>4 DEF FilesDiffer, NoLogin
<1>8. LoadedFits /\ HeldFits /\ MintedFits
  BY <1>5 DEF LoadedFits, HeldFits, MintedFits, Holding, Renewing, NoLogin
<1>9. CliFits
  BY <1>1 DEF CliFits, NoRenewal
<1>10. LoginsStayUsable
  BY <1>1, <1>4 DEF LoginsStayUsable, NoLogin
<1>11. QED
  BY <1>6, <1>7, <1>8, <1>9, <1>10 DEF CodexInv

-----------------------------------------------------------------------------
(* The user and the CLI.                                                             *)

\* A login that is issued is a new one, and nobody's account changes.
LEMMA NewLogin ==
  ASSUME CodexInv, NEW v, NEW a \in Accounts, v \in Logins, Issues(v, a)
  PROVE  /\ issued' \in 1..MaxLogins /\ account' \in [Logins -> Accounts]
         /\ v = issued' /\ v \in Known' /\ v # NoLogin /\ v \notin Known
         /\ \A w \in Known : w \in Known'
         /\ account'[v] = a /\ \A w \in Known : w # NoLogin => account'[w] = account[w]
  BY DEF CodexInv, CodexTypes, Issues, Known, NoLogin, Logins

\* What a step of somebody else, who issues at most new logins, keeps of the fetch.
LEMMA OthersKeepTypes ==
  ASSUME CodexInv, run' = run, issued' \in 1..MaxLogins, \A w \in Known : w \in Known'
  PROVE  /\ DOMAIN run' = Fields /\ run'.at \in Nat /\ run'.loaded \in [Paths -> Known']
         /\ run'.held \in Known' /\ run'.minted \in Known'
         /\ (run'.pc = "load" => run'.at \in Paths) /\ (run'.pc = "idle" => run'.at = 1)
  BY DEF CodexInv, CodexTypes

LEMMA LogsInKeeps ==
  ASSUME CodexInv, NEW p \in Paths, NEW a \in Accounts, UserLogsIn(p, a)
  PROVE  CodexInv'
<1>1. PICK v \in Logins : /\ Issues(v, a) /\ file' = [file EXCEPT ![p] = v]
                          /\ alive' = alive \cup {v}
                          /\ UNCHANGED <<token, cli, run, faults, lost, shown>>
  BY DEF UserLogsIn
<1>2. /\ issued' \in 1..MaxLogins /\ account' \in [Logins -> Accounts]
      /\ v = issued' /\ v \in Known' /\ v # NoLogin /\ v \notin Known
      /\ \A w \in Known : w \in Known'
      /\ \A w \in Known : w # NoLogin => account'[w] = account[w]
  BY <1>1, NewLogin
<1>3. \A q \in Paths : file'[q] = IF q = p THEN v ELSE file[q]
  BY <1>1 DEF CodexInv, CodexTypes
<1>4. /\ \A q \in Paths : file[q] \in Known /\ run.loaded[q] \in Known
      /\ run.held \in Known /\ run.minted \in Known /\ cli.from \in Known /\ cli.to \in Known
  BY DEF CodexInv, CodexTypes
<1>5. CodexTypes'
  <2>1. file' \in [Paths -> Known']
    BY <1>1, <1>2, <1>4 DEF CodexInv, CodexTypes
  <2>2. cli' \in [path : Paths, from : Known', to : Known']
    BY <1>1, <1>2 DEF CodexInv, CodexTypes
  <2>3. NoLogin \notin alive'
    BY <1>1, <1>2 DEF CodexInv, CodexTypes
  <2>4. QED
    BY <1>1, <1>2, <2>1, <2>2, <2>3, OthersKeepTypes DEF CodexInv, CodexTypes
<1>6. FilesDiffer' /\ LoadedFits'
  BY <1>1, <1>2, <1>3, <1>4 DEF CodexInv, FilesDiffer, LoadedFits
<1>7. HeldFits' /\ MintedFits'
  BY <1>1, <1>2, <1>3, <1>4 DEF CodexInv, HeldFits, MintedFits, Holder, Holding
<1>8. CliFits'
  BY <1>1, <1>2, <1>3, <1>4 DEF CodexInv, CliFits
<1>9. LoginsStayUsable'
  BY <1>1, <1>2, <1>3, <1>4 DEF CodexInv, LoginsStayUsable
<1>10. QED
  BY <1>5, <1>6, <1>7, <1>8, <1>9 DEF CodexInv

LEMMA LogsOutKeeps == ASSUME CodexInv, NEW p \in Paths, UserLogsOut(p) PROVE CodexInv'
<1>1. /\ file[p] # NoLogin /\ file' = [file EXCEPT ![p] = NoLogin] /\ alive' = alive \ {file[p]}
      /\ UNCHANGED <<account, issued, token, cli, run, faults, lost, shown>>
  BY DEF UserLogsOut
<1>2. \A q \in Paths : file'[q] = IF q = p THEN NoLogin ELSE file[q]
  BY <1>1 DEF CodexInv, CodexTypes
<1>3. CodexTypes'
  BY <1>1 DEF CodexInv, CodexTypes, Known, NoLogin
<1>4. FilesDiffer' /\ LoadedFits'
  BY <1>1, <1>2 DEF CodexInv, FilesDiffer, LoadedFits
<1>5. HeldFits' /\ MintedFits'
  BY <1>1, <1>2 DEF CodexInv, HeldFits, MintedFits, Holder, Holding
<1>6. CliFits'
  BY <1>1, <1>2 DEF CodexInv, CliFits
<1>7. LoginsStayUsable'
  BY <1>1, <1>2 DEF CodexInv, LoginsStayUsable, FilesDiffer
<1>8. QED
  BY <1>3, <1>4, <1>5, <1>6, <1>7 DEF CodexInv

LEMMA CliRedeemsKeeps == ASSUME CodexInv, NEW p \in Paths, CliRedeems(p) PROVE CodexInv'
<1>1. cli = NoRenewal /\ file[p] \in alive /\ UNCHANGED <<file, token, run, faults, lost, shown>>
  BY DEF CliRedeems
<1>2. PICK v \in Logins : /\ Issues(v, Holder(file[p])) /\ alive' = (alive \ {file[p]}) \cup {v}
                          /\ cli' = [path |-> p, from |-> file[p], to |-> v]
  BY DEF CliRedeems
<1>3. /\ \A q \in Paths : file[q] \in Known /\ run.loaded[q] \in Known
      /\ run.held \in Known /\ run.minted \in Known
      /\ file[p] # NoLogin /\ cli.from = NoLogin
  BY <1>1 DEF CodexInv, CodexTypes, CliFits
<1>4. Holder(file[p]) \in Accounts
  BY <1>3 DEF CodexInv, CodexTypes, Holder, Known, Logins, NoLogin
<1>5. /\ issued' \in 1..MaxLogins /\ account' \in [Logins -> Accounts]
      /\ v = issued' /\ v \in Known' /\ v # NoLogin /\ v \notin Known
      /\ \A w \in Known : w \in Known'
      /\ \A w \in Known : w # NoLogin => account'[w] = account[w]
  BY <1>2, <1>4, NewLogin
<1>6. cli'.path = p /\ cli'.from = file[p] /\ cli'.to = v /\ cli' # NoRenewal
  BY <1>2, <1>3 DEF NoRenewal
<1>7. CodexTypes'
  <2>1. file' \in [Paths -> Known']
    BY <1>1, <1>5 DEF CodexInv, CodexTypes
  <2>2. cli' \in [path : Paths, from : Known', to : Known']
    BY <1>2, <1>3, <1>5
  <2>3. NoLogin \notin alive'
    BY <1>2, <1>5 DEF CodexInv, CodexTypes
  <2>4. QED
    BY <1>1, <1>5, <2>1, <2>2, <2>3, OthersKeepTypes DEF CodexInv, CodexTypes
<1>8. FilesDiffer' /\ LoadedFits'
  BY <1>1 DEF CodexInv, FilesDiffer, LoadedFits
<1>9. HeldFits' /\ MintedFits'
  BY <1>1, <1>2, <1>3, <1>5, <1>6 DEF CodexInv, HeldFits, MintedFits, Holder, Holding
<1>10. CliFits'
  BY <1>1, <1>2, <1>3, <1>5, <1>6 DEF CodexInv, CliFits, FilesDiffer
<1>11. LoginsStayUsable'
  BY <1>1, <1>2, <1>3, <1>6 DEF CodexInv, LoginsStayUsable, FilesDiffer
<1>12. QED
  BY <1>7, <1>8, <1>9, <1>10, <1>11 DEF CodexInv

LEMMA CliStoresKeeps == ASSUME CodexInv, CliStores PROVE CodexInv'
<1>1. cli # NoRenewal /\ cli' = NoRenewal
      /\ UNCHANGED <<account, issued, alive, token, run, faults, lost, shown>>
  BY DEF CliStores
<1>2. cli.path \in Paths /\ cli.from \in Known /\ cli.to \in Known
  BY DEF CodexInv, CodexTypes
<1>3. \A q \in Paths :
         file'[q] = IF q = cli.path /\ file[q] = cli.from THEN cli.to ELSE file[q]
  BY <1>2 DEF CliStores, CodexInv, CodexTypes
<1>4. cli'.path = 1 /\ cli'.from = NoLogin /\ cli'.to = NoLogin
  BY <1>1 DEF NoRenewal
<1>5. CodexTypes'
  <2>1. file' \in [Paths -> Known']
    BY <1>1, <1>2 DEF CliStores, CodexInv, CodexTypes, Known
  <2>2. cli' \in [path : Paths, from : Known', to : Known']
    BY <1>1 DEF NoRenewal, NoLogin, Known, CodexInv, CodexTypes
  <2>3. QED
    BY <1>1, <2>1, <2>2 DEF CodexInv, CodexTypes, Known
<1>6. FilesDiffer' /\ LoadedFits'
  BY <1>1, <1>2, <1>3 DEF CodexInv, FilesDiffer, LoadedFits, CliFits
<1>7. HeldFits' /\ MintedFits'
  BY <1>1, <1>2, <1>3, <1>4 DEF CodexInv, HeldFits, MintedFits, CliFits, Holder, Holding
<1>8. CliFits'
  BY <1>1, <1>4 DEF CliFits
<1>9. LoginsStayUsable'
  BY <1>1, <1>2, <1>3, <1>4 DEF CodexInv, LoginsStayUsable, CliFits
<1>10. QED
  BY <1>5, <1>6, <1>7, <1>8, <1>9 DEF CodexInv

-----------------------------------------------------------------------------
(* The fetch.                                                                        *)

\* A step of the fetch that writes nothing and redeems nothing keeps the invariant if the fetch
\* still fits the files, and does not give up a login that it has redeemed.
LEMMA ReadingKeeps ==
  ASSUME CodexInv, UNCHANGED <<file, account, issued, alive, cli, lost>>,
         DOMAIN run' = Fields, run'.at \in Nat, run'.loaded \in [Paths -> Known],
         run'.held \in Known, run'.minted \in Known,
         run'.pc = "load" => run'.at \in Paths, run'.pc = "idle" => run'.at = 1,
         \A p \in Paths : run'.loaded[p] \in {run.loaded[p], file[p], NoLogin},
         HeldFits', run'.pc \in Holding => run'.held # cli.to \/ cli = NoRenewal,
         run'.pc \in Renewing => /\ run.pc \in Renewing /\ run'.minted = run.minted
                                 /\ run'.held = run.held /\ run'.loaded = run.loaded,
         run.pc \in Renewing => \/ run'.pc \in Renewing /\ run'.at = run.at /\ run'.held = run.held
                                \/ run.at \in Paths /\ file[run.at] # run.held
  PROVE  CodexInv'
<1>1. CodexTypes'
  BY DEF CodexInv, CodexTypes, Known
<1>2. FilesDiffer'
  BY DEF CodexInv, FilesDiffer
<1>3. LoadedFits'
  BY DEF CodexInv, FilesDiffer, LoadedFits
<1>4. MintedFits'
  BY DEF CodexInv, MintedFits, Holder
<1>5. CliFits'
  BY DEF CodexInv, CliFits, MintedFits
<1>6. LoginsStayUsable'
  BY DEF CodexInv, LoginsStayUsable, HeldFits, Holding, Renewing
<1>7. QED
  BY <1>1, <1>2, <1>3, <1>4, <1>5, <1>6 DEF CodexInv

\* The candidate at hand stays what it is while a step changes neither it nor the files.
LEMMA SameCandidate ==
  ASSUME CodexInv, run.pc \in Holding, UNCHANGED <<file, account>>,
         run'.at = run.at, run'.loaded = run.loaded, run'.held = run.held
  PROVE  HeldFits'
  BY DEF CodexInv, HeldFits, Holder

\* A fetch that ends.
LEMMA FailingKeeps ==
  ASSUME CodexInv, Fails, UNCHANGED <<file, account, issued, alive, cli, lost>>,
         run.pc \in Renewing => file[run.at] # run.held
  PROVE  CodexInv'
<1>1. /\ DOMAIN run' = Fields /\ run'.at = 1 /\ run'.pc = "idle" /\ run'.held = NoLogin
      /\ run'.minted = NoLogin /\ run'.loaded = [p \in Paths |-> NoLogin]
  BY DEF Fails, Idle, Fields
<1>2. NoLogin \in Known /\ run'.loaded \in [Paths -> Known]
  BY <1>1 DEF NoLogin, Known, CodexInv, CodexTypes
<1>3. run.pc \in Renewing => run.at \in Paths
  BY DEF CodexInv, HeldFits, Holding
<1>4. run'.pc \notin Holding /\ run'.pc \notin Renewing /\ HeldFits'
  BY <1>1 DEF HeldFits, Holding, Renewing
<1>5. \A p \in Paths : run'.loaded[p] \in {run.loaded[p], file[p], NoLogin}
  BY <1>1
<1>6. QED
  BY <1>1, <1>2, <1>3, <1>4, <1>5, ReadingKeeps

\* The next candidate's turn.
LEMMA NextKeeps ==
  ASSUME CodexInv, NextCandidate, run.pc \in Holding \ Renewing,
         UNCHANGED <<file, account, issued, alive, cli, lost>>
  PROVE  CodexInv'
<1>1. /\ DOMAIN run' = Fields /\ run'.pc = "pick" /\ run'.at = run.at + 1
      /\ run'.loaded = run.loaded /\ run'.held = run.held /\ run'.minted = run.minted
  BY DEF NextCandidate, Fields, CodexInv, CodexTypes
<1>2. run'.pc \notin Holding /\ run'.pc \notin Renewing /\ HeldFits'
  BY <1>1 DEF HeldFits, Holding, Renewing
<1>3. QED
  BY <1>1, <1>2, ReadingKeeps DEF CodexInv, CodexTypes

LEMMA LoadingKeeps == ASSUME Bounds, CodexInv, Begin \/ Load PROVE CodexInv'
<1>1. UNCHANGED <<file, account, issued, alive, cli, lost>>
  BY DEF Begin, Load, users
<1>2. CASE Begin
  <2>1. /\ run.pc = "idle" /\ DOMAIN run' = Fields /\ run'.pc = "load" /\ run'.at = run.at
        /\ run'.loaded = run.loaded /\ run'.held = run.held /\ run'.minted = run.minted
    BY <1>2 DEF Begin, Fields, CodexInv, CodexTypes
  <2>2. run'.pc \notin Holding /\ run'.pc \notin Renewing /\ run.pc \notin Renewing /\ HeldFits'
    BY <2>1 DEF HeldFits, Holding, Renewing
  <2>3. QED
    BY <1>1, <2>1, <2>2, ReadingKeeps DEF CodexInv, CodexTypes
<1>3. CASE Load
  <2>1. run.pc = "load" /\ run.at \in Paths /\ DOMAIN run = Fields /\ file[run.at] \in Known
    BY <1>3 DEF Load, CodexInv, CodexTypes
  <2>2. /\ DOMAIN run' = Fields /\ run'.held = run.held /\ run'.minted = run.minted
        /\ run'.loaded = [run.loaded EXCEPT ![run.at] = file[run.at]]
        /\ run'.pc = IF run.at = Files THEN "pick" ELSE "load"
        /\ run'.at = IF run.at = Files THEN 1 ELSE run.at + 1
    BY <1>3, <2>1 DEF Load, Fields
  <2>3. run'.loaded \in [Paths -> Known]
        /\ \A p \in Paths : run'.loaded[p] \in {run.loaded[p], file[p], NoLogin}
    BY <2>1, <2>2 DEF CodexInv, CodexTypes
  <2>4. run'.at \in Nat /\ (run'.pc = "load" => run'.at \in Paths) /\ run'.pc # "idle"
    BY <2>1, <2>2 DEF Paths, Bounds
  <2>5. run'.pc \notin Holding /\ run'.pc \notin Renewing /\ run.pc \notin Renewing /\ HeldFits'
    BY <2>1, <2>2 DEF HeldFits, Holding, Renewing
  <2>6. QED
    BY <1>1, <2>2, <2>3, <2>4, <2>5, ReadingKeeps DEF CodexInv, CodexTypes
<1>4. QED
  BY <1>2, <1>3

\* There is a first candidate if there is one.
LEMMA FirstExists ==
  ASSUME NEW S, S \subseteq Nat, S # {}
  PROVE  \E q \in S : \A r \in S : q <= r
<1> DEFINE R == {ss \in Nat \X Nat : ss[1] < ss[2]}
<1>1. IsWellFoundedOn(R, Nat)
  BY NatLessThanWellFounded DEF OpToRel
<1>2. \A x, y \in Nat : x < y => <<x, y>> \in R
  OBVIOUS
<1> HIDE DEF R
<1>3. PICK q \in S : \A r \in S : ~ (<<r, q>> \in R)
  BY <1>1, WFMin
<1>4. \A r \in S : ~ (r < q)
  BY <1>2, <1>3
<1>5. QED
  BY <1>4

LEMMA PickKeeps == ASSUME CodexInv, Pick PROVE CodexInv'
<1> DEFINE left == {p \in Paths : p >= run.at /\ run.loaded[p] # NoLogin}
           p == CHOOSE q \in left : \A r \in left : q <= r
<1>1. run.pc = "pick" /\ UNCHANGED <<file, account, issued, alive, cli, lost>>
  BY DEF Pick, users
<1>2. run.pc \notin Renewing /\ run.pc \notin Holding /\ DOMAIN run = Fields
  BY <1>1 DEF Renewing, Holding, CodexInv, CodexTypes
<1>3. CASE left = {}
  <2>1. Fails
    BY <1>3 DEF Pick
  <2>2. QED
    BY <1>1, <1>2, <2>1, FailingKeeps
<1>4. CASE left # {}
  <2>1. left \subseteq Nat
    BY DEF Paths
  <2>2. p \in left
    <3>1. \E q \in left : \A r \in left : q <= r
      BY <1>4, <2>1, FirstExists
    <3>2. QED
      BY <3>1
  <2>3. p \in Paths /\ p \in Nat /\ run.loaded[p] # NoLogin
    BY <2>1, <2>2
  <2>4. run' = [run EXCEPT !.at = p, !.held = run.loaded[p], !.retried = FALSE,
                           !.pc = IF token[run.loaded[p]] = "due" THEN "reload" ELSE "fetch"]
    BY <1>4 DEF Pick
  <2> HIDE DEF p, left
  <2>5. /\ DOMAIN run' = Fields /\ run'.at = p /\ run'.held = run.loaded[p]
        /\ run'.loaded = run.loaded /\ run'.minted = run.minted /\ run'.pc \in {"reload", "fetch"}
    BY <1>2, <2>4 DEF Fields
  <2>6. run'.pc \notin Renewing /\ run'.pc # "load" /\ run'.pc # "idle"
    BY <2>5 DEF Renewing
  <2>7. HeldFits'
    BY <1>1, <2>3, <2>5 DEF HeldFits, Holder, CodexInv, LoadedFits
  <2>8. run'.held # cli.to \/ cli = NoRenewal
    BY <2>3, <2>5 DEF CodexInv, CliFits
  <2>9. run'.at \in Nat /\ run'.held \in Known
    BY <2>3, <2>5 DEF CodexInv, CodexTypes
  <2>10. QED
    BY <1>1, <1>2, <2>5, <2>6, <2>7, <2>8, <2>9, ReadingKeeps DEF CodexInv, CodexTypes
<1>5. QED
  BY <1>3, <1>4

LEMMA ReloadKeeps == ASSUME CodexInv, Reload PROVE CodexInv'
<1> DEFINE live == file[run.at]
           held == IF live = NoLogin THEN run.held ELSE live
<1>1. run.pc = "reload" /\ UNCHANGED <<file, account, issued, alive, cli, lost>>
  BY DEF Reload, users
<1>2. run.pc \notin Renewing /\ run.pc \in Holding /\ DOMAIN run = Fields /\ run.at \in Paths
      /\ run.at \in Nat /\ run.held # NoLogin
  BY <1>1 DEF Renewing, Holding, CodexInv, CodexTypes, HeldFits
<1>3. CASE Holder(held) # Expected
  <2>1. Fails
    BY <1>3 DEF Reload
  <2>2. QED
    BY <1>1, <1>2, <2>1, FailingKeeps
<1>4. CASE Holder(held) = Expected
  <2>1. run' = [run EXCEPT !.held = held, !.pc = IF token[held] = "due" THEN "redeem" ELSE "fetch"]
    BY <1>4 DEF Reload
  <2>2. held \in Known /\ held # NoLogin /\ (held = run.held \/ held = file[run.at])
    BY <1>2 DEF CodexInv, CodexTypes
  <2> HIDE DEF held
  <2>3. /\ DOMAIN run' = Fields /\ run'.at = run.at /\ run'.held = held
        /\ run'.loaded = run.loaded /\ run'.minted = run.minted /\ run'.pc \in {"redeem", "fetch"}
    BY <1>2, <2>1 DEF Fields
  <2>4. run'.pc \notin Renewing /\ run'.pc # "load" /\ run'.pc # "idle"
    BY <2>3 DEF Renewing
  <2>5. HeldFits'
    BY <1>1, <1>2, <1>4, <2>2, <2>3 DEF HeldFits, Holder, Expected, CodexInv, FilesDiffer
  <2>6. run'.held # cli.to \/ cli = NoRenewal
    BY <1>2, <2>2, <2>3 DEF CodexInv, CliFits
  <2>7. QED
    BY <1>1, <1>2, <2>2, <2>3, <2>4, <2>5, <2>6, ReadingKeeps DEF CodexInv, CodexTypes
<1>5. QED
  BY <1>3, <1>4

\* Steps that only move on with the candidate at hand.
LEMMA MovingKeeps ==
  ASSUME CodexInv, run.pc \in Holding \ Renewing,
         NEW pc \in Holding \ Renewing, NEW retried,
         run' = [run EXCEPT !.pc = pc, !.retried = retried],
         UNCHANGED <<file, account, issued, alive, cli, lost>>
  PROVE  CodexInv'
<1>1. /\ DOMAIN run' = Fields /\ run'.at = run.at /\ run'.held = run.held
      /\ run'.loaded = run.loaded /\ run'.minted = run.minted /\ run'.pc = pc
  BY DEF CodexInv, CodexTypes, Fields
<1>2. HeldFits'
  BY <1>1, SameCandidate
<1>3. run'.pc # "load" /\ run'.pc # "idle" /\ run'.pc \notin Renewing
  BY <1>1 DEF Holding, Renewing
<1>4. run'.held # cli.to \/ cli = NoRenewal
  BY <1>1 DEF CodexInv, CliFits
<1>5. QED
  BY <1>1, <1>2, <1>3, <1>4, ReadingKeeps DEF CodexInv, CodexTypes

LEMMA FetchingKeeps ==
  ASSUME CodexInv, RedeemRefused \/ RequestFails \/ Fetch \/ FetchRefused \/ Check
  PROVE  CodexInv'
<1>1. UNCHANGED <<file, account, issued, alive, cli, lost>>
  BY DEF RedeemRefused, RequestFails, Fetch, FetchRefused, Check, users
<1>2. run.pc \in Holding \ Renewing /\ DOMAIN run = Fields
  BY DEF RedeemRefused, RequestFails, Fetch, FetchRefused, Check, Holding, Renewing, CodexInv, CodexTypes
<1>3. CASE Fails
  BY <1>1, <1>2, <1>3, FailingKeeps
<1>4. CASE NextCandidate
  BY <1>1, <1>2, <1>4, NextKeeps
<1>5. CASE Fetch
  <2>1. run' = [run EXCEPT !.pc = "check"]
    BY <1>5 DEF Fetch
  <2>2. run' = [run EXCEPT !.pc = "check", !.retried = run.retried]
    BY <1>2, <2>1 DEF Fields
  <2>3. QED
    BY <1>1, <1>2, <2>2, MovingKeeps DEF Holding, Renewing
<1>6. CASE run' = [run EXCEPT !.pc = "redeem", !.retried = TRUE]
  BY <1>1, <1>2, <1>6, MovingKeeps DEF Holding, Renewing
<1>7. QED
  BY <1>3, <1>4, <1>5, <1>6 DEF RedeemRefused, RequestFails, FetchRefused, Check, Fails

LEMMA GuardKeeps == ASSUME CodexInv, Guard PROVE CodexInv'
<1>1. run.pc = "guard" /\ UNCHANGED <<file, account, issued, alive, cli, lost>>
  BY DEF Guard, users
<1>2. CASE file[run.at] # run.held
  BY <1>1, <1>2, FailingKeeps DEF Guard
<1>3. CASE file[run.at] = run.held
  <2>1. /\ DOMAIN run' = Fields /\ run'.pc = "write" /\ run'.at = run.at
        /\ run'.held = run.held /\ run'.loaded = run.loaded /\ run'.minted = run.minted
    BY <1>3 DEF Guard, CodexInv, CodexTypes, Fields
  <2>2. run.pc \in Holding /\ run.pc \in Renewing /\ run'.pc \in Renewing
    BY <1>1, <2>1 DEF Holding, Renewing
  <2>3. HeldFits'
    BY <1>1, <2>1, <2>2, SameCandidate
  <2>4. run'.held # cli.to \/ cli = NoRenewal
    BY <2>1, <2>2 DEF CodexInv, CliFits
  <2>5. QED
    BY <1>1, <2>1, <2>2, <2>3, <2>4, ReadingKeeps DEF CodexInv, CodexTypes
<1>4. QED
  BY <1>2, <1>3

\* The server takes the login back and issues another, which the fetch keeps or loses.
LEMMA RedeemKeeps == ASSUME CodexInv, Redeem PROVE CodexInv'
<1>1. PICK v \in Logins :
        /\ Issues(v, Holder(run.held)) /\ alive' = (alive \ {run.held}) \cup {v}
        /\ \/ run' = [run EXCEPT !.pc = "guard", !.minted = v] /\ UNCHANGED <<faults, lost>>
           \/ Fails /\ lost' = lost \cup {run.held}
  BY DEF Redeem
<1>2. run.pc = "redeem" /\ run.held \in alive /\ UNCHANGED <<file, token, cli, shown>>
  BY DEF Redeem
<1>3. /\ run.pc \in Holding /\ run.pc \notin Renewing /\ DOMAIN run = Fields
      /\ \A p \in Paths : file[p] \in Known /\ run.loaded[p] \in Known
      /\ run.held \in Known /\ run.minted \in Known /\ cli.from \in Known /\ cli.to \in Known
      /\ run.held # NoLogin /\ run.at \in Paths /\ run.loaded[run.at] # NoLogin
      /\ run.at \in Nat /\ run.loaded \in [Paths -> Known]
  BY <1>2 DEF CodexInv, CodexTypes, HeldFits, Holding, Renewing
<1>4. Holder(run.held) \in Accounts
  BY <1>3 DEF CodexInv, CodexTypes, Holder, Known, Logins, NoLogin
<1>5. /\ issued' \in 1..MaxLogins /\ account' \in [Logins -> Accounts]
      /\ v = issued' /\ v \in Known' /\ v # NoLogin /\ v \notin Known
      /\ \A w \in Known : w \in Known'
      /\ account'[v] = Holder(run.held)
      /\ \A w \in Known : w # NoLogin => account'[w] = account[w]
  BY <1>1, <1>4, NewLogin
<1>6. file' \in [Paths -> Known'] /\ cli' \in [path : Paths, from : Known', to : Known']
      /\ NoLogin \notin alive' /\ 1 \in Paths /\ MaxLogins \in Nat
  BY <1>1, <1>2, <1>5 DEF CodexInv, CodexTypes
<1>7. FilesDiffer'
  BY <1>2 DEF CodexInv, FilesDiffer
<1>8. CASE run' = [run EXCEPT !.pc = "guard", !.minted = v] /\ lost' = lost
  <2>1. /\ DOMAIN run' = Fields /\ run'.pc = "guard" /\ run'.at = run.at
        /\ run'.held = run.held /\ run'.loaded = run.loaded /\ run'.minted = v
    BY <1>3, <1>8 DEF Fields
  <2>2. run'.loaded \in [Paths -> Known'] /\ run'.held \in Known' /\ run'.minted \in Known'
    BY <1>3, <1>5, <2>1
  <2>3. CodexTypes'
    BY <1>3, <1>5, <1>6, <2>1, <2>2 DEF CodexTypes
  <2>4. LoadedFits'
    BY <1>2, <2>1 DEF CodexInv, LoadedFits
  <2>5. HeldFits' /\ MintedFits'
    BY <1>1, <1>2, <1>3, <1>5, <2>1 DEF CodexInv, HeldFits, MintedFits, Holder, Holding, Renewing
  <2>6. CliFits'
    BY <1>1, <1>2, <1>3, <1>5, <2>1 DEF CodexInv, CliFits
  <2>7. LoginsStayUsable'
    BY <1>1, <1>2, <1>3, <1>8, <2>1 DEF CodexInv, LoginsStayUsable, HeldFits, Renewing
  <2>8. QED
    BY <1>7, <2>3, <2>4, <2>5, <2>6, <2>7 DEF CodexInv
<1>9. CASE Fails /\ lost' = lost \cup {run.held}
  <2>1. /\ DOMAIN run' = Fields /\ run'.pc = "idle" /\ run'.at = 1 /\ run'.held = NoLogin
        /\ run'.minted = NoLogin /\ run'.loaded = [p \in Paths |-> NoLogin]
    BY <1>9 DEF Fails, Idle, Fields
  <2>2. NoLogin \in Known' /\ run'.loaded \in [Paths -> Known']
    BY <1>5, <2>1 DEF NoLogin, Known
  <2>3. CodexTypes'
    BY <1>5, <1>6, <2>1, <2>2 DEF CodexTypes
  <2>4. LoadedFits' /\ HeldFits' /\ MintedFits'
    BY <2>1 DEF LoadedFits, HeldFits, MintedFits, Holding, Renewing
  <2>5. CliFits'
    BY <1>1, <1>2, <1>3, <1>5, <2>1 DEF CodexInv, CliFits, Holding, Renewing
  <2>6. LoginsStayUsable'
    BY <1>1, <1>2, <1>3, <1>9, <2>1 DEF CodexInv, LoginsStayUsable, Renewing
  <2>7. QED
    BY <1>7, <2>3, <2>4, <2>5, <2>6 DEF CodexInv
<1>10. QED
  BY <1>1, <1>8, <1>9

\* The renewed login goes to its file, or serves this fetch only.
LEMMA WriteKeeps == ASSUME CodexInv, Write \/ WriteFails PROVE CodexInv'
<1>1. run.pc = "write" /\ run' = Renewed /\ UNCHANGED <<account, issued, alive, cli>>
  BY DEF Write, WriteFails, users
<1>2. run.pc \in Holding /\ run.pc \in Renewing /\ DOMAIN run = Fields
  BY <1>1 DEF Holding, Renewing, CodexInv, CodexTypes
<1>3. /\ run.at \in Paths /\ run.at \in Nat /\ run.loaded[run.at] # NoLogin
      /\ run.minted # NoLogin /\ run.minted \in alive /\ run.minted \in Known
      /\ Holder(run.minted) = Holder(run.loaded[run.at]) /\ cli.from # run.minted
      /\ \A p \in Paths : file[p] # run.minted /\ run.loaded[p] # run.minted
      /\ run.minted # cli.to \/ cli = NoRenewal
  BY <1>2 DEF CodexInv, CodexTypes, HeldFits, MintedFits, CliFits
<1>4. /\ DOMAIN run' = Fields /\ run'.pc = "fetch" /\ run'.at = run.at
      /\ run'.held = run.minted /\ run'.loaded = run.loaded /\ run'.minted = NoLogin
  BY <1>1, <1>2 DEF Renewed, Fields
<1>5. run'.pc \notin Renewing /\ run'.pc \in Holding
  BY <1>4 DEF Holding, Renewing
<1>6. \/ \A p \in Paths : file'[p] = IF p = run.at THEN run.minted ELSE file[p]
      \/ file' = file /\ lost' = lost \cup {run.held}
  BY <1>3 DEF Write, WriteFails, users, CodexInv, CodexTypes
<1>7. CodexTypes'
  <2>1. file' \in [Paths -> Known']
    BY <1>1, <1>3 DEF Write, WriteFails, users, CodexInv, CodexTypes, Known
  <2>2. NoLogin \in Known'
    BY <1>1 DEF NoLogin, Known, CodexInv, CodexTypes
  <2>3. QED
    BY <1>1, <1>3, <1>4, <2>1, <2>2 DEF CodexInv, CodexTypes, Known
<1>8. FilesDiffer' /\ LoadedFits'
  BY <1>3, <1>4, <1>6 DEF CodexInv, FilesDiffer, LoadedFits
<1>9. HeldFits' /\ MintedFits'
  BY <1>1, <1>3, <1>4, <1>5, <1>6 DEF HeldFits, MintedFits, Holder
<1>10. CliFits'
  BY <1>1, <1>3, <1>4, <1>5, <1>6 DEF CodexInv, CliFits
<1>11. LoginsStayUsable'
  <2>1. CASE \A p \in Paths : file'[p] = IF p = run.at THEN run.minted ELSE file[p]
    <3>1. lost' = lost \/ lost' = lost \cup {run.held}
      BY DEF Write, WriteFails
    <3>2. QED
      BY <1>1, <1>3, <2>1, <3>1 DEF CodexInv, LoginsStayUsable
  <2>2. CASE file' = file /\ lost' = lost \cup {run.held}
    BY <1>1, <2>2 DEF CodexInv, LoginsStayUsable
  <2>3. QED
    BY <1>6, <2>1, <2>2
<1>12. QED
  BY <1>7, <1>8, <1>9, <1>10, <1>11 DEF CodexInv

-----------------------------------------------------------------------------
LEMMA CodexStep == ASSUME Bounds, CodexInv, [Next]_vars PROVE CodexInv'
<1>1. CASE \E p \in Paths, a \in Accounts : UserLogsIn(p, a)
  BY <1>1, LogsInKeeps
<1>2. CASE \E p \in Paths : UserLogsOut(p)
  BY <1>2, LogsOutKeeps
<1>3. CASE \E p \in Paths : CliRedeems(p)
  BY <1>3, CliRedeemsKeeps
<1>4. CASE (\E p \in Paths : Ages(p)) \/ UNCHANGED vars
  <2>1. UNCHANGED <<file, account, issued, alive, cli, run, lost>>
    BY <1>4 DEF Ages, vars
  <2>2. CodexTypes' /\ FilesDiffer' /\ LoadedFits'
    BY <2>1 DEF CodexInv, CodexTypes, Known, FilesDiffer, LoadedFits
  <2>3. HeldFits' /\ MintedFits' /\ CliFits' /\ LoginsStayUsable'
    BY <2>1 DEF CodexInv, HeldFits, MintedFits, CliFits, LoginsStayUsable, Holder
  <2>4. QED
    BY <2>2, <2>3 DEF CodexInv
<1>5. CASE CliStores
  BY <1>5, CliStoresKeeps
<1>6. CASE Begin \/ Load
  BY <1>6, LoadingKeeps
<1>7. CASE Pick \/ Reload
  BY <1>7, PickKeeps, ReloadKeeps
<1>8. CASE Guard \/ Redeem
  BY <1>8, GuardKeeps, RedeemKeeps
<1>9. CASE Write \/ WriteFails
  BY <1>9, WriteKeeps
<1>10. CASE RedeemRefused \/ RequestFails \/ Fetch \/ FetchRefused \/ Check
  BY <1>10, FetchingKeeps
<1>11. QED
  BY <1>1, <1>2, <1>3, <1>4, <1>5, <1>6, <1>7, <1>8, <1>9, <1>10 DEF Next

LEMMA CodexInvariant == ASSUME Bounds PROVE Spec => []CodexInv
<1>1. Init => CodexInv
  BY CodexInitially
<1>2. CodexInv /\ [Next]_vars => CodexInv'
  BY CodexStep
<1>3. QED
  BY <1>1, <1>2, PTL DEF Spec

\* What a file holds can be redeemed, unless its renewal is under way, was lost or could not be
\* written, for any accounts, files and number of logins, whoever renews or signs in between any
\* two steps of a fetch (refresh_access_token, update_and_save_if_current).
THEOREM RenewingLosesNoLogin == ASSUME Bounds PROVE Spec => []LoginsStayUsable
<1>1. CodexInv => LoginsStayUsable
  BY DEF CodexInv
<1>2. QED
  BY CodexInvariant, <1>1, PTL

\* A snapshot is filed under the account its figures were fetched for, and its file holds a login
\* of that account when it is handed over (ensure_candidate_source_current).
THEOREM SnapshotsAreFiledRight == ASSUME Bounds PROVE Spec => SnapshotFitsLogin
<1> DEFINE Right == shown' # shown => /\ Holder(shown'.figures) = shown'.of
                                     /\ file[shown'.path] # NoLogin
                                     /\ Holder(file[shown'.path]) = shown'.of
<1>1. CodexInv /\ [Next]_vars => [Right]_vars
  <2> SUFFICES ASSUME CodexInv, [Next]_vars, shown' # shown PROVE Right
    BY DEF vars
  <2>1. Check
    BY DEF Next, vars, UserLogsOut, CliRedeems, Ages, UserLogsIn, CliStores, Begin, Load, Pick,
           Reload, Redeem, RedeemRefused, RequestFails, Guard, Write, WriteFails, Fetch, FetchRefused
  <2>2. run.pc \in Holding
    BY <2>1 DEF Check, Holding
  <2>3. /\ shown' = [figures |-> run.held, of |-> Expected, path |-> run.at]
        /\ file[run.at] # NoLogin /\ Holder(file[run.at]) = Expected
    BY <2>1 DEF Check
  <2>4. Holder(run.held) = Expected
    BY <2>2 DEF CodexInv, HeldFits, Expected
  <2>5. QED
    BY <2>3, <2>4
<1>2. QED
  BY CodexInvariant, <1>1, PTL DEF Spec, SnapshotFitsLogin

-----------------------------------------------------------------------------
(* Claude's logins: what is read from the store, and whose figures are shown.        *)

Used == 0..number                \* no login, or one that was issued
Seen == Used \cup {C!Failed}
FetchFields == {"pc", "goal", "got", "held", "expected", "minted", "saved", "retried", "reloaded",
                "status", "figures", "switches"}
FetchTypes ==
  /\ DOMAIN fetch = FetchFields
  /\ fetch.got \in Seen /\ fetch.held \in Used /\ fetch.minted \in Used
  /\ fetch.figures \in Used /\ fetch.switches \in 0..2
ClaudeTypes ==
  /\ number \in 1..ClaudeLogins /\ owner \in [C!Logins -> Accounts] /\ identity \in Accounts
  /\ C!NoLogin \notin redeemable /\ store \in Used /\ cache \in Seen \cup {C!NoEntry}
  /\ probe \in [Probes -> [pc : {"idle", "fill", "insert"}, got : Seen]]
  /\ active \in Used /\ lastGood \in Used
  /\ snapshot.figures \in Used /\ snapshot.of \in Used /\ snapshot.switches \in 0..2
  /\ FetchTypes

\* A login in a file is read directly, with no entry of the read cache.
InFile ==
  place = "file" => /\ cache = C!NoEntry /\ fetch.pc \notin {"fill", "insert", "stored"}
                    /\ \A p \in Probes : probe[p].pc = "idle"
\* Every read under way has found what the store has held since this program's last write.
Fresh(v) == v \in since \cup {C!Failed}
Observing ==
  /\ store \in since
  /\ ~raced =>
       /\ Fresh(cache) \/ cache = C!NoEntry
       /\ fetch.pc = "insert" => Fresh(fetch.got)
       /\ \A p \in Probes : probe[p].pc = "insert" => Fresh(probe[p].got)
       /\ fetch.pc = "stored" =>
            cache = C!NoEntry /\ \A p \in Probes : probe[p].pc # "insert"

ReadSteps == {"read", "fill", "insert", "compare"}
\* The fetch has not loaded its login yet; it has a renewed one and may write it.
Loading == fetch.pc \in {"idle", "identity"} \/ (fetch.pc \in ReadSteps /\ fetch.goal = "load")
Writing ==
  \/ fetch.pc \in {"guard", "write", "stored", "replace"}
  \/ fetch.pc \in ReadSteps /\ fetch.goal = "guard"
Held ==
  /\ Loading => fetch.held = C!NoLogin /\ fetch.minted = C!NoLogin
  /\ ~Loading => fetch.held # C!NoLogin
  /\ Writing => fetch.minted # C!NoLogin
  /\ fetch.minted # C!NoLogin => owner[fetch.minted] = owner[fetch.held]
  /\ ~Loading /\ fetch.pc # "activate" => active = fetch.held
\* Until the user has changed the account, it is the card's; and a login that was read while it
\* was, and is in use while it is again, is of the card's account.
Started == fetch.pc \notin {"idle", "identity"} /\ card # Unresolved
Gotten == fetch.goal = "load" /\ fetch.pc \in {"insert", "compare"} /\ fetch.got \in C!Logins
Switched ==
  /\ Started /\ fetch.switches = 0 => identity = card
  /\ Started /\ fetch.switches < 2 /\ identity = card =>
       /\ fetch.held # C!NoLogin => owner[fetch.held] = card
       /\ Gotten => owner[fetch.got] = card
\* The kept figures are of the account in use, except while they are being given up.
LastGood ==
  lastGood # C!NoLogin /\ fetch.pc # "clear_good" =>
    active # C!NoLogin /\ owner[lastGood] = owner[active]
Figured ==
  fetch.pc \in {"build_limit", "leave"} /\ fetch.figures # C!NoLogin =>
    owner[fetch.figures] = owner[fetch.held]
ShownIsOwn ==
  snapshot.figures # C!NoLogin =>
    /\ snapshot.of # C!NoLogin
    /\ card # Unresolved /\ snapshot.switches < 2 => owner[snapshot.figures] = card
    /\ owner[snapshot.figures] = owner[snapshot.of]

ReadInv == InFile /\ Observing
OwnInv == Held /\ Switched /\ LastGood /\ Figured /\ ShownIsOwn
ClaudeInv == ClaudeTypes /\ ReadInv /\ OwnInv

-----------------------------------------------------------------------------
LEMMA Sorts ==
  ASSUME ClaudeTypes
  PROVE  /\ ClaudeLogins \in Nat /\ number \in Nat /\ C!NoLogin \in Used
         /\ C!NoEntry \notin Seen
         /\ \A v \in Seen : v \in C!Logins => v \in Used /\ v # C!NoLogin
         /\ \A v \in Used : v # C!NoLogin => v \in C!Logins
         /\ \A v \in Used : v \in Seen
BY ClaudeAssumption DEF ClaudeTypes, Used, Seen, C!NoLogin, C!Failed, C!NoEntry, C!Logins

\* A fetch that is over, or begins.
LEMMA Starts ==
  /\ DOMAIN C!Idle = FetchFields /\ C!Idle.pc = "idle" /\ C!Idle.goal = "load"
  /\ C!Idle.got = C!NoLogin /\ C!Idle.held = C!NoLogin /\ C!Idle.minted = C!NoLogin
  /\ C!Idle.figures = C!NoLogin /\ C!Idle.switches = 0
BY DEF C!Idle, FetchFields

LEMMA ClaudeInitially == ASSUME C!Init PROVE ClaudeInv
<1>1. /\ number = 1 /\ store = 1 /\ redeemable = {1} /\ since = {1}
      /\ cache = C!NoEntry /\ fetch = C!Idle
      /\ active = C!NoLogin /\ lastGood = C!NoLogin /\ snapshot = C!Nothing /\ identity \in Accounts
      /\ owner = [v \in C!Logins |-> identity] /\ raced = FALSE
      /\ probe = [p \in Probes |-> [pc |-> "idle", got |-> C!NoLogin]]
  BY DEF C!Init
<1>2. /\ fetch.pc = "idle" /\ fetch.got = C!NoLogin /\ fetch.held = C!NoLogin
      /\ fetch.minted = C!NoLogin /\ fetch.figures = C!NoLogin /\ fetch.switches = 0
      /\ DOMAIN fetch = FetchFields
  BY <1>1, Starts
<1>3. snapshot.figures = C!NoLogin /\ snapshot.of = C!NoLogin /\ snapshot.switches = 0
  BY <1>1 DEF C!Nothing
<1>4. number \in 1..ClaudeLogins /\ C!NoLogin \in Used /\ C!NoLogin \in Seen /\ store \in Used
  BY <1>1, ClaudeAssumption DEF C!NoLogin, Used, Seen
<1>5. probe \in [Probes -> [pc : {"idle", "fill", "insert"}, got : Seen]]
  BY <1>1, <1>4
<1>6. ClaudeTypes
  BY <1>1, <1>2, <1>3, <1>4, <1>5 DEF ClaudeTypes, FetchTypes, C!NoLogin
<1>7. ReadInv
  BY <1>1, <1>2 DEF ReadInv, InFile, Observing
<1>8. OwnInv
  BY <1>1, <1>2, <1>3 DEF OwnInv, Held, Loading, Writing, ReadSteps, Switched, Started, LastGood,
       Figured, ShownIsOwn
<1>9. QED
  BY <1>6, <1>7, <1>8 DEF ClaudeInv

-----------------------------------------------------------------------------
(* The others.                                                                       *)

\* A login that is issued is a new one, and no other changes its account.
LEMMA NextLogin ==
  ASSUME ClaudeTypes, number < ClaudeLogins, NEW a \in Accounts, number' = number + 1,
         owner' = [owner EXCEPT ![number'] = a]
  PROVE  /\ number' \in 1..ClaudeLogins /\ owner' \in [C!Logins -> Accounts]
         /\ number' \in Used' /\ number' # C!NoLogin /\ owner'[number'] = a
         /\ \A v \in Used : v \in Used' /\ (v # C!NoLogin => owner'[v] = owner[v])
BY ClaudeAssumption DEF ClaudeTypes, Used, C!Logins, C!NoLogin

\* What the invariant asks of a fetch, besides its history.
Like(f, g) ==
  /\ f.pc = g.pc /\ f.goal = g.goal /\ f.got = g.got /\ f.held = g.held /\ f.minted = g.minted
  /\ f.figures = g.figures
LEMMA Notices ==
  ASSUME ClaudeTypes, NEW a, C!Noticed(a)
  PROVE  /\ DOMAIN fetch' = FetchFields /\ Like(fetch', fetch)
         /\ fetch'.switches = IF a # identity /\ fetch.switches < 2 THEN fetch.switches + 1
                                                                    ELSE fetch.switches
         /\ fetch'.switches \in 0..2
<1>1. DOMAIN fetch = FetchFields /\ fetch.switches \in 0..2
  BY DEF ClaudeTypes, FetchTypes
<1>2. fetch' = [fetch EXCEPT !.switches = IF a # identity /\ @ < 2 THEN @ + 1 ELSE @]
  BY DEF C!Noticed
<1>3. QED
  BY <1>1, <1>2 DEF FetchFields, Like

\* A login comes or goes in the store while the fetch is where it is.
LEMMA StoreChanges ==
  ASSUME ClaudeInv, NEW v, NEW a \in Accounts, C!StoreHolds(v), C!Noticed(a), identity' = a,
         C!NoLogin \notin redeemable', v \in Used', number' \in 1..ClaudeLogins,
         owner' \in [C!Logins -> Accounts],
         \A w \in Used : w \in Used' /\ (w # C!NoLogin => owner'[w] = owner[w]),
         UNCHANGED <<place, cache, probe, card, active, lastGood, snapshot, raced>>
  PROVE  ClaudeInv'
<1>1. ClaudeTypes
  BY DEF ClaudeInv
<1>2. /\ DOMAIN fetch' = FetchFields /\ Like(fetch', fetch)
      /\ fetch'.switches = IF a # identity /\ fetch.switches < 2 THEN fetch.switches + 1
                                                                 ELSE fetch.switches
      /\ fetch'.switches \in 0..2
  BY <1>1, Notices
<1>3. store' = v /\ since' = since \cup {v}
  BY DEF C!StoreHolds
<1>4. \A w \in Seen : w \in Seen'
  BY DEF Seen
<1>5. ClaudeTypes'
  <2>1. probe' \in [Probes -> [pc : {"idle", "fill", "insert"}, got : Seen']]
    BY <1>1, <1>4 DEF ClaudeTypes
  <2>2. FetchTypes'
    BY <1>1, <1>2, <1>4 DEF ClaudeTypes, FetchTypes, Like
  <2>3. cache' \in Seen' \cup {C!NoEntry}
    BY <1>1, <1>4 DEF ClaudeTypes
  <2>4. QED
    BY <1>1, <1>3, <2>1, <2>2, <2>3 DEF ClaudeTypes
<1>6. ReadInv'
  BY <1>2, <1>3 DEF ClaudeInv, ReadInv, InFile, Observing, Fresh, Like
<1>7. /\ fetch.got \in C!Logins => fetch.got \in Used /\ fetch.got # C!NoLogin
      /\ fetch.held \in Used /\ fetch.minted \in Used /\ fetch.figures \in Used
      /\ active \in Used /\ lastGood \in Used /\ snapshot.figures \in Used
      /\ snapshot.of \in Used /\ fetch.switches \in 0..2
  BY <1>1, Sorts DEF ClaudeTypes, FetchTypes
<1>8. (Loading' <=> Loading) /\ (Writing' <=> Writing) /\ (Started' <=> Started)
      /\ (Gotten' <=> Gotten)
  BY <1>2 DEF Loading, Writing, Started, Gotten, ReadSteps, Like
<1>9. Held'
  BY <1>2, <1>7, <1>8 DEF ClaudeInv, OwnInv, Held, Like
<1>10. Switched'
  BY <1>2, <1>7, <1>8 DEF ClaudeInv, OwnInv, Switched, Gotten, Like
<1>11. LastGood' /\ Figured'
  BY <1>2, <1>7, <1>8 DEF ClaudeInv, OwnInv, LastGood, Figured, Held, Loading, ReadSteps, Like
<1>12. ShownIsOwn'
  BY <1>7 DEF ClaudeInv, OwnInv, ShownIsOwn
<1>13. QED
  BY <1>5, <1>6, <1>9, <1>10, <1>11, <1>12 DEF ClaudeInv, OwnInv

LEMMA UsersKeep ==
  ASSUME ClaudeInv,
         C!UserLogsOut \/ C!CliRotates \/ \E a \in Accounts : C!UserLogsIn(a)
  PROVE  ClaudeInv'
<1>1. ClaudeTypes /\ identity \in Accounts
  BY DEF ClaudeInv, ClaudeTypes
<1>2. CASE C!UserLogsOut
  <2>1. /\ C!StoreHolds(C!NoLogin) /\ C!Noticed(identity)
        /\ UNCHANGED <<place, identity, owner, number, redeemable, cache, probe, card, active, lastGood,
                       snapshot, raced>>
    BY <1>2 DEF C!UserLogsOut, C!provider
  <2>2. C!NoLogin \notin redeemable' /\ C!NoLogin \in Used'
        /\ number' \in 1..ClaudeLogins /\ owner' \in [C!Logins -> Accounts]
        /\ \A w \in Used : w \in Used' /\ (w # C!NoLogin => owner'[w] = owner[w])
    BY <1>1, <2>1, Sorts DEF ClaudeTypes, Used
  <2>3. QED
    BY <1>1, <2>1, <2>2, StoreChanges
<1>3. ASSUME NEW a \in Accounts, C!UserLogsIn(a) PROVE ClaudeInv'
  <2>1. /\ number < ClaudeLogins /\ number' = number + 1 /\ owner' = [owner EXCEPT ![number'] = a]
        /\ C!StoreHolds(number') /\ C!Noticed(a) /\ identity' = a
        /\ redeemable' = redeemable \cup {number'}
        /\ UNCHANGED <<place, cache, probe, card, active, lastGood, snapshot, raced>>
    BY <1>3 DEF C!UserLogsIn, C!provider
  <2>2. /\ number' \in 1..ClaudeLogins /\ owner' \in [C!Logins -> Accounts] /\ number' \in Used'
        /\ number' # C!NoLogin
        /\ \A v \in Used : v \in Used' /\ (v # C!NoLogin => owner'[v] = owner[v])
    BY <1>1, <2>1, NextLogin
  <2>3. C!NoLogin \notin redeemable'
    BY <1>1, <2>1, <2>2 DEF ClaudeTypes
  <2>4. QED
    BY <2>1, <2>2, <2>3, StoreChanges
<1>4. CASE C!CliRotates
  <2>1. /\ number < ClaudeLogins /\ number' = number + 1
        /\ owner' = [owner EXCEPT ![number'] = owner[store]]
        /\ C!StoreHolds(number') /\ C!Noticed(identity)
        /\ redeemable' = (redeemable \ {store}) \cup {number'} /\ store \in redeemable
        /\ UNCHANGED <<place, identity, cache, probe, card, active, lastGood, snapshot, raced>>
    BY <1>4 DEF C!CliRotates, C!provider
  <2>2. owner[store] \in Accounts
    BY <1>1, <2>1, Sorts DEF ClaudeTypes
  <2>3. /\ number' \in 1..ClaudeLogins /\ owner' \in [C!Logins -> Accounts] /\ number' \in Used'
        /\ number' # C!NoLogin
        /\ \A v \in Used : v \in Used' /\ (v # C!NoLogin => owner'[v] = owner[v])
    BY <1>1, <2>1, <2>2, NextLogin
  <2>4. C!NoLogin \notin redeemable'
    BY <1>1, <2>1, <2>3 DEF ClaudeTypes
  <2>5. QED
    BY <1>1, <2>1, <2>3, <2>4, StoreChanges
<1>5. QED
  BY <1>2, <1>3, <1>4

-----------------------------------------------------------------------------
(* The read cache, and reads by others.                                              *)

LEMMA OwnStays ==
  ASSUME OwnInv, UNCHANGED <<owner, identity, card, active, lastGood, snapshot, fetch>>
  PROVE  OwnInv'
<1>1. Held' /\ Switched'
  BY DEF OwnInv, Held, Switched, Loading, Writing, ReadSteps, Started, Gotten
<1>2. LastGood' /\ Figured' /\ ShownIsOwn'
  BY DEF OwnInv, LastGood, Figured, ShownIsOwn
<1>3. QED
  BY <1>1, <1>2 DEF OwnInv

LEMMA ProbesKeep ==
  ASSUME ClaudeInv,
         \/ C!LimitEnds \/ C!CacheExpires
         \/ \E p \in Probes : C!ProbeMisses(p) \/ C!ProbeReads(p) \/ C!ProbeInserts(p)
  PROVE  ClaudeInv'
<1>1. UNCHANGED <<place, owner, number, redeemable, store, identity, card, active, lastGood,
                  snapshot, fetch, since>>
  BY DEF C!LimitEnds, C!CacheExpires, C!ProbeMisses, C!ProbeReads, C!ProbeInserts, C!keeping,
         C!provider
<1>2. ClaudeTypes /\ ReadInv /\ OwnInv'
  BY <1>1, OwnStays DEF ClaudeInv
<1>3. FetchTypes'
  BY <1>1, <1>2 DEF ClaudeTypes, FetchTypes, Seen, Used
<1>4. ASSUME cache' \in Seen \cup {C!NoEntry},
             probe' \in [Probes -> [pc : {"idle", "fill", "insert"}, got : Seen]], ReadInv'
      PROVE  ClaudeInv'
  BY <1>1, <1>2, <1>3, <1>4 DEF ClaudeInv, ClaudeTypes, Seen, Used
<1>5. CASE C!LimitEnds \/ C!CacheExpires
  <2>1. probe' = probe /\ raced' = raced /\ (cache' = cache \/ cache' = C!NoEntry)
    BY <1>5 DEF C!LimitEnds, C!CacheExpires
  <2>2. ReadInv'
    BY <1>1, <1>2, <2>1 DEF ReadInv, InFile, Observing, Fresh
  <2>3. QED
    BY <1>2, <1>4, <2>1, <2>2 DEF ClaudeTypes
<1>6. ASSUME NEW p \in Probes, C!ProbeMisses(p) PROVE ClaudeInv'
  <2>1. /\ place # "file" /\ cache' = cache /\ raced' = raced
        /\ probe' = [probe EXCEPT ![p].pc = "fill"]
    BY <1>6 DEF C!ProbeMisses
  <2>2. /\ probe' \in [Probes -> [pc : {"idle", "fill", "insert"}, got : Seen]]
        /\ \A q \in Probes : probe'[q].pc = "insert" => probe'[q] = probe[q]
    BY <1>2, <2>1 DEF ClaudeTypes
  <2>3. ReadInv'
    BY <1>1, <1>2, <2>1, <2>2 DEF ReadInv, InFile, Observing, Fresh
  <2>4. QED
    BY <1>2, <1>4, <2>1, <2>2, <2>3 DEF ClaudeTypes
<1>7. ASSUME NEW p \in Probes, C!ProbeReads(p) PROVE ClaudeInv'
  <2>1. PICK v \in C!FromStore : probe' = [probe EXCEPT ![p] = [pc |-> "insert", got |-> v]]
    BY <1>7 DEF C!ProbeReads
  <2>2. /\ probe[p].pc = "fill" /\ cache' = cache /\ raced' = (raced \/ fetch.pc = "stored")
    BY <1>7 DEF C!ProbeReads
  <2>3. v \in Seen /\ (v = store \/ v = C!Failed)
    BY <1>2 DEF C!FromStore, ClaudeTypes, Seen
  <2>4. /\ probe' \in [Probes -> [pc : {"idle", "fill", "insert"}, got : Seen]]
        /\ probe'[p].got = v /\ \A q \in Probes : q # p => probe'[q] = probe[q]
    BY <1>2, <2>1, <2>3 DEF ClaudeTypes
  <2>5. InFile' /\ place # "file"
    BY <1>1, <1>2, <2>2 DEF ReadInv, InFile
  <2>6. Observing'
    BY <1>1, <1>2, <2>2, <2>3, <2>4 DEF ReadInv, Observing, Fresh
  <2>7. QED
    BY <1>2, <1>4, <2>2, <2>4, <2>5, <2>6 DEF ClaudeTypes, ReadInv
<1>8. ASSUME NEW p \in Probes, C!ProbeInserts(p) PROVE ClaudeInv'
  <2>1. /\ probe[p].pc = "insert" /\ cache' = probe[p].got /\ raced' = raced
        /\ probe' = [probe EXCEPT ![p] = [pc |-> "idle", got |-> C!NoLogin]]
    BY <1>8 DEF C!ProbeInserts
  <2>2. C!NoLogin \in Seen
    BY <1>2, Sorts
  <2>3. /\ probe' \in [Probes -> [pc : {"idle", "fill", "insert"}, got : Seen]]
        /\ probe'[p].pc = "idle" /\ \A q \in Probes : q # p => probe'[q] = probe[q]
    BY <1>2, <2>1, <2>2 DEF ClaudeTypes
  <2>4. InFile' /\ place # "file"
    BY <1>1, <1>2, <2>1 DEF ReadInv, InFile
  <2>5. Observing'
    BY <1>1, <1>2, <2>1, <2>3 DEF ReadInv, Observing, Fresh
  <2>6. probe[p].got \in Seen
    BY <1>2 DEF ClaudeTypes
  <2>7. QED
    BY <1>4, <2>1, <2>3, <2>4, <2>5, <2>6 DEF ReadInv
<1>9. QED
  BY <1>5, <1>6, <1>7, <1>8

-----------------------------------------------------------------------------
(* What a step of the fetch has to keep.                                             *)

Kept == fetch'.held = fetch.held /\ fetch'.minted = fetch.minted /\ fetch'.switches = fetch.switches

\* A step that reads and writes nothing in the store.
LEMMA Quiet ==
  ASSUME ClaudeInv, FetchTypes', active' \in Used, lastGood' \in Used,
         snapshot'.figures \in Used, snapshot'.of \in Used, snapshot'.switches \in 0..2,
         UNCHANGED <<place, owner, number, redeemable, store, identity, cache, probe, since, raced>>,
         fetch'.pc \notin {"fill", "insert", "stored"}
  PROVE  ClaudeTypes' /\ ReadInv'
<1>1. ClaudeTypes'
  BY DEF ClaudeInv, ClaudeTypes, Seen, Used
<1>2. ReadInv'
  BY DEF ClaudeInv, ReadInv, InFile, Observing, Fresh
<1>3. QED
  BY <1>1, <1>2

\* A fetch that has its login goes on, and shows its figures or the kept ones.
LEMMA GoesOn ==
  ASSUME ClaudeInv, UNCHANGED <<owner, identity, card, active, snapshot>>, Kept,
         ~Loading, ~Loading', Writing' => Writing,
         fetch.pc \notin {"activate", "clear_good"}, fetch'.pc \notin {"activate", "clear_good"},
         lastGood' \in {lastGood, fetch.held},
         fetch'.pc \in {"build_limit", "leave"} =>
           \/ fetch'.figures \in {lastGood, fetch.held}
           \/ fetch'.figures = fetch.figures /\ fetch.pc \in {"build_limit", "leave"}
  PROVE  OwnInv'
<1>1. fetch.held # C!NoLogin /\ active = fetch.held
  BY DEF ClaudeInv, OwnInv, Held
<1>2. Held'
  BY DEF ClaudeInv, OwnInv, Held, Kept
<1>3. ~Gotten' /\ (Started' <=> Started)
  BY DEF Gotten, Started, Loading, ReadSteps
<1>4. Switched'
  BY <1>3 DEF ClaudeInv, OwnInv, Switched, Kept
<1>5. lastGood # C!NoLogin => owner[lastGood] = owner[fetch.held]
  BY <1>1 DEF ClaudeInv, OwnInv, LastGood
<1>6. LastGood'
  BY <1>1, <1>5 DEF LastGood
<1>7. Figured'
  BY <1>5 DEF ClaudeInv, OwnInv, Figured, Kept
<1>8. ShownIsOwn'
  BY DEF ClaudeInv, OwnInv, ShownIsOwn
<1>9. QED
  BY <1>2, <1>4, <1>6, <1>7, <1>8 DEF OwnInv

\* A fetch that has not begins, ends or is over.
LEMMA StartsOver ==
  ASSUME ClaudeInv, UNCHANGED <<card, active, lastGood>>,
         \A v \in Used : v # C!NoLogin => owner'[v] = owner[v],
         fetch'.pc \in {"idle", "identity"}, fetch'.held = C!NoLogin, fetch'.minted = C!NoLogin,
         fetch.pc # "clear_good", snapshot' = snapshot \/ snapshot'.figures = C!NoLogin
  PROVE  OwnInv'
<1>1. Loading' /\ ~Writing' /\ ~Started'
  BY DEF Loading, Writing, Started, ReadSteps
<1>2. Held' /\ Switched' /\ Figured'
  BY <1>1 DEF Held, Switched, Figured
<1>3. active \in Used /\ lastGood \in Used /\ snapshot.figures \in Used /\ snapshot.of \in Used
  BY DEF ClaudeInv, ClaudeTypes
<1>4. LastGood'
  BY <1>3 DEF ClaudeInv, OwnInv, LastGood
<1>5. ShownIsOwn'
  BY <1>3 DEF ClaudeInv, OwnInv, ShownIsOwn
<1>6. QED
  BY <1>2, <1>4, <1>5 DEF OwnInv

\* A fetch reads its login.
LEMMA LoadsOn ==
  ASSUME ClaudeInv, UNCHANGED <<owner, identity, card, active, lastGood, snapshot>>,
         Loading, Loading', fetch.pc \in ReadSteps, fetch'.pc \in ReadSteps,
         fetch'.held = fetch.held, fetch'.minted = fetch.minted,
         fetch'.switches \in {fetch.switches, 2},
         Gotten' => \/ owner[fetch'.got] = identity \/ fetch'.switches = 2
                    \/ Gotten /\ fetch'.got = fetch.got
  PROVE  OwnInv'
<1>1. ~Writing' /\ (Started' <=> Started) /\ fetch.held = C!NoLogin
  BY DEF Loading, Writing, Started, ReadSteps, ClaudeInv, OwnInv, Held
<1>2. Held'
  BY <1>1 DEF ClaudeInv, OwnInv, Held
<1>3. fetch.switches \in 0..2
  BY DEF ClaudeInv, ClaudeTypes, FetchTypes
<1>4. Switched'
  BY <1>1, <1>3 DEF ClaudeInv, OwnInv, Switched
<1>5. LastGood' /\ Figured' /\ ShownIsOwn'
  BY DEF ClaudeInv, OwnInv, LastGood, Figured, ShownIsOwn, ReadSteps
<1>6. QED
  BY <1>2, <1>4, <1>5 DEF OwnInv

-----------------------------------------------------------------------------
(* The reads of a fetch.                                                             *)

LEMMA MovesTo ==
  ASSUME ClaudeTypes, NEW l, C!To(l)
  PROVE  /\ DOMAIN fetch' = FetchFields /\ fetch'.pc = l /\ Kept
         /\ fetch'.goal = fetch.goal /\ fetch'.got = fetch.got /\ fetch'.figures = fetch.figures
BY DEF ClaudeTypes, FetchTypes, FetchFields, C!To, Kept

LEMMA OwnReads ==
  ASSUME ClaudeInv, UNCHANGED <<owner, identity, card, active, lastGood, snapshot>>,
         fetch.pc \in ReadSteps, fetch'.pc \in ReadSteps, fetch'.goal = fetch.goal,
         fetch'.held = fetch.held, fetch'.minted = fetch.minted,
         \/ fetch'.switches = C!SwitchesSeen(fetch'.got)
         \/ /\ fetch'.switches = fetch.switches /\ fetch'.got = fetch.got
            /\ fetch'.pc = "fill" \/ fetch.pc = "insert"
  PROVE  OwnInv'
<1>1. CASE fetch.goal = "load"
  <2>1. Loading /\ Loading'
    BY <1>1 DEF Loading
  <2>2. fetch'.switches \in {fetch.switches, 2}
    BY DEF C!SwitchesSeen
  <2>3. Gotten' => \/ owner[fetch'.got] = identity \/ fetch'.switches = 2
                   \/ Gotten /\ fetch'.got = fetch.got
    BY <1>1 DEF C!SwitchesSeen, Gotten
  <2>4. QED
    BY <2>1, <2>2, <2>3, LoadsOn
<1>2. CASE fetch.goal # "load"
  <2>1. ~Loading /\ ~Loading' /\ (Writing' => Writing)
    BY <1>2 DEF Loading, Writing, ReadSteps
  <2>2. Kept
    BY <1>2 DEF C!SwitchesSeen, Kept
  <2>3. fetch.pc \notin {"activate", "clear_good"}
        /\ fetch'.pc \notin {"activate", "clear_good", "build_limit", "leave"}
    BY DEF ReadSteps
  <2>4. QED
    BY <2>1, <2>2, <2>3, GoesOn
<1>3. QED
  BY <1>1, <1>2

LEMMA ReadsKeep == ASSUME ClaudeInv, C!Reading PROVE ClaudeInv'
<1>1. /\ UNCHANGED <<place, store, identity, owner, number, redeemable, probe, card, snapshot,
                     since, active, lastGood, raced>>
      /\ fetch.pc \in ReadSteps
  BY DEF C!Reading, C!ReadFile, C!CacheHit, C!CacheMiss, C!ReadStore, C!InsertRead, C!Around,
         C!keeping, C!provider, C!At, ReadSteps
<1>2. ClaudeTypes /\ ReadInv /\ DOMAIN fetch = FetchFields /\ store \in Seen /\ fetch.got \in Seen
      /\ fetch.switches \in 0..2
  BY Sorts DEF ClaudeInv, ClaudeTypes, FetchTypes
<1>3. \A v : C!SwitchesSeen(v) \in 0..2
  BY <1>2 DEF C!SwitchesSeen
<1>4. ASSUME NEW v \in Seen, NEW l \in {"insert", "compare"},
             fetch' = [fetch EXCEPT !.pc = l, !.got = v, !.switches = C!SwitchesSeen(v)]
      PROVE  /\ FetchTypes' /\ OwnInv' /\ fetch'.pc = l /\ fetch'.got = v
  <2>1. /\ DOMAIN fetch' = FetchFields /\ fetch'.pc = l /\ fetch'.got = v
        /\ fetch'.goal = fetch.goal /\ fetch'.held = fetch.held /\ fetch'.minted = fetch.minted
        /\ fetch'.figures = fetch.figures /\ fetch'.switches = C!SwitchesSeen(v)
    BY <1>2, <1>4 DEF FetchFields
  <2>2. FetchTypes'
    BY <1>1, <1>2, <1>3, <2>1 DEF ClaudeTypes, FetchTypes, Seen, Used
  <2>3. fetch'.pc \in ReadSteps
    BY <2>1 DEF ReadSteps
  <2>4. OwnInv'
    BY <1>1, <2>1, <2>3, OwnReads
  <2>5. QED
    BY <2>1, <2>2, <2>4
<1>5. ASSUME NEW l \in ReadSteps, C!To(l), l = "fill" \/ fetch.pc = "insert"
      PROVE  /\ FetchTypes' /\ OwnInv' /\ fetch'.pc = l /\ fetch'.got = fetch.got
  <2>1. /\ DOMAIN fetch' = FetchFields /\ fetch'.pc = l /\ Kept
        /\ fetch'.goal = fetch.goal /\ fetch'.got = fetch.got /\ fetch'.figures = fetch.figures
    BY <1>2, <1>5, MovesTo
  <2>2. FetchTypes'
    BY <1>1, <1>2, <2>1 DEF ClaudeTypes, FetchTypes, Seen, Used, Kept
  <2>3. OwnInv'
    BY <1>1, <1>5, <2>1, OwnReads DEF Kept
  <2>4. QED
    BY <2>1, <2>2, <2>3
<1>6. ASSUME FetchTypes', OwnInv', ReadInv', cache' \in Seen \cup {C!NoEntry} PROVE ClaudeInv'
  BY <1>1, <1>2, <1>6 DEF ClaudeInv, ClaudeTypes, Seen, Used
<1>7. CASE C!ReadFile
  <2>1. fetch' = [fetch EXCEPT !.pc = "compare", !.got = store, !.switches = C!SwitchesSeen(store)]
        /\ cache' = cache
    BY <1>7 DEF C!ReadFile
  <2>2. FetchTypes' /\ OwnInv' /\ fetch'.pc = "compare"
    BY <1>2, <1>4, <2>1
  <2>3. ReadInv'
    BY <1>1, <1>2, <2>1, <2>2 DEF ReadInv, InFile, Observing, Fresh
  <2>4. QED
    BY <1>2, <1>6, <2>1, <2>2, <2>3 DEF ClaudeTypes
<1>8. CASE C!CacheHit
  <2>1. fetch' = [fetch EXCEPT !.pc = "compare", !.got = cache, !.switches = C!SwitchesSeen(cache)]
        /\ cache' = cache /\ cache # C!NoEntry
    BY <1>8 DEF C!CacheHit
  <2>2. cache \in Seen
    BY <1>2, <2>1 DEF ClaudeTypes
  <2>3. FetchTypes' /\ OwnInv' /\ fetch'.pc = "compare"
    BY <1>4, <2>1, <2>2
  <2>4. ReadInv'
    BY <1>1, <1>2, <2>1, <2>3 DEF ReadInv, InFile, Observing, Fresh
  <2>5. QED
    BY <1>2, <1>6, <2>1, <2>3, <2>4 DEF ClaudeTypes
<1>9. CASE C!CacheMiss
  <2>1. place # "file" /\ cache' = cache /\ C!To("fill")
    BY <1>9 DEF C!CacheMiss
  <2>2. FetchTypes' /\ OwnInv' /\ fetch'.pc = "fill"
    BY <1>5, <2>1 DEF ReadSteps
  <2>3. ReadInv'
    BY <1>1, <1>2, <2>1, <2>2 DEF ReadInv, InFile, Observing, Fresh
  <2>4. QED
    BY <1>2, <1>6, <2>1, <2>2, <2>3 DEF ClaudeTypes
<1>10. CASE C!ReadStore
  <2>1. PICK v \in C!FromStore :
          fetch' = [fetch EXCEPT !.pc = "insert", !.got = v, !.switches = C!SwitchesSeen(v)]
    BY <1>10 DEF C!ReadStore
  <2>2. cache' = cache /\ fetch.pc = "fill"
    BY <1>10 DEF C!ReadStore, C!At
  <2>3. v \in Seen /\ (v = store \/ v = C!Failed)
    BY <1>2 DEF C!FromStore, Seen
  <2>4. FetchTypes' /\ OwnInv' /\ fetch'.pc = "insert" /\ fetch'.got = v
    BY <1>4, <2>1, <2>3
  <2>5. ReadInv'
    BY <1>1, <1>2, <2>2, <2>3, <2>4 DEF ReadInv, InFile, Observing, Fresh
  <2>6. QED
    BY <1>2, <1>6, <2>2, <2>4, <2>5 DEF ClaudeTypes
<1>11. CASE C!InsertRead
  <2>1. fetch.pc = "insert" /\ cache' = fetch.got /\ C!To("compare")
    BY <1>11 DEF C!InsertRead, C!At
  <2>2. FetchTypes' /\ OwnInv' /\ fetch'.pc = "compare"
    BY <1>5, <2>1 DEF ReadSteps
  <2>3. ReadInv'
    BY <1>1, <1>2, <2>1, <2>2 DEF ReadInv, InFile, Observing, Fresh
  <2>4. QED
    BY <1>2, <1>6, <2>1, <2>2, <2>3
<1>12. QED
  BY <1>7, <1>8, <1>9, <1>10, <1>11 DEF C!Reading

-----------------------------------------------------------------------------
(* The steps of a fetch that only decide and show.                                   *)

Unmoved ==
  UNCHANGED <<place, owner, number, redeemable, store, identity, cache, probe, since, raced, card>>
Passes(l) ==
  /\ DOMAIN fetch' = FetchFields /\ fetch'.pc = l /\ Kept
  /\ fetch'.goal = fetch.goal /\ fetch'.got = fetch.got /\ fetch'.figures = fetch.figures
Later == {"redeem", "cooldown", "fetch", "check", "limit", "build"}

LEMMA PassesKeep ==
  ASSUME ClaudeInv, Unmoved, UNCHANGED <<active, lastGood, snapshot>>, NEW l \in Later, Passes(l),
         ~Loading, fetch.pc \notin {"activate", "clear_good"}
  PROVE  ClaudeInv'
<1>1. ~Loading' /\ ~Writing'
  BY DEF Passes, Later, Loading, Writing, ReadSteps
<1>2. l \notin {"fill", "insert", "stored", "activate", "clear_good", "build_limit", "leave"}
  BY DEF Later
<1>3. OwnInv'
  BY <1>1, <1>2, GoesOn DEF Unmoved, Passes
<1>4. FetchTypes'
  BY DEF Unmoved, Passes, Kept, ClaudeInv, ClaudeTypes, FetchTypes, Seen, Used
<1>5. ClaudeTypes' /\ ReadInv'
  BY <1>2, <1>4, Quiet DEF Unmoved, Passes, ClaudeInv, ClaudeTypes
<1>6. QED
  BY <1>3, <1>5 DEF ClaudeInv

\* A step that ends the fetch, or has it load its login again.
LEMMA EndsKeep ==
  ASSUME ClaudeInv, Unmoved, UNCHANGED <<active, lastGood, snapshot>>, C!Fails \/ C!Reload,
         fetch.pc # "clear_good"
  PROVE  ClaudeInv'
<1>1. DOMAIN fetch = FetchFields /\ fetch.switches \in 0..2 /\ C!NoLogin \in Used
      /\ C!NoLogin \in Seen /\ fetch'.switches \in {C!Idle.switches, fetch.switches}
  BY Sorts, Starts DEF ClaudeInv, ClaudeTypes, FetchTypes, C!Fails, C!Reload, FetchFields
<1>2. /\ DOMAIN fetch' = FetchFields /\ fetch'.pc \in {"idle", "identity"}
      /\ fetch'.got = C!NoLogin /\ fetch'.held = C!NoLogin /\ fetch'.minted = C!NoLogin
      /\ fetch'.figures = C!NoLogin
  BY Starts DEF C!Fails, C!Reload, FetchFields
<1>3. FetchTypes'
  BY <1>1, <1>2, Starts DEF Unmoved, FetchTypes, Seen, Used
<1>4. OwnInv'
  BY <1>2, StartsOver DEF Unmoved
<1>5. ClaudeTypes' /\ ReadInv'
  BY <1>2, <1>3, Quiet DEF Unmoved, ClaudeInv, ClaudeTypes
<1>6. QED
  BY <1>4, <1>5 DEF ClaudeInv

\* A step that shows figures: those kept, or the new ones.
LEMMA ShowsKeep ==
  ASSUME ClaudeInv, Unmoved, UNCHANGED <<active, snapshot>>, Kept,
         DOMAIN fetch' = FetchFields, fetch'.pc \in {"build_limit", "leave"},
         fetch'.goal = fetch.goal, fetch'.got = fetch.got, ~Loading,
         fetch.pc \notin {"activate", "clear_good"}, lastGood' \in {lastGood, fetch.held},
         \/ fetch'.figures \in {lastGood, fetch.held}
         \/ fetch'.figures = fetch.figures /\ fetch.pc \in {"build_limit", "leave"}
  PROVE  ClaudeInv'
<1>1. ~Loading' /\ ~Writing'
  BY DEF Loading, Writing, ReadSteps
<1>2. OwnInv'
  BY <1>1, GoesOn DEF Unmoved
<1>3. lastGood' \in Used /\ fetch'.figures \in Used
  BY DEF ClaudeInv, ClaudeTypes, FetchTypes
<1>4. FetchTypes'
  BY <1>3 DEF Unmoved, Kept, ClaudeInv, ClaudeTypes, FetchTypes, Seen, Used
<1>5. ClaudeTypes' /\ ReadInv'
  BY <1>3, <1>4, Quiet DEF Unmoved, ClaudeInv, ClaudeTypes
<1>6. QED
  BY <1>2, <1>5 DEF ClaudeInv

LEMMA KeptShown ==
  ASSUME ClaudeInv, Unmoved, UNCHANGED <<active, lastGood, snapshot>>, C!ShowLastGood, ~Loading,
         fetch.pc \notin {"activate", "clear_good"}
  PROVE  ClaudeInv'
<1>1. DOMAIN fetch = FetchFields
  BY DEF ClaudeInv, ClaudeTypes, FetchTypes
<1>2. /\ DOMAIN fetch' = FetchFields /\ fetch'.pc = "leave" /\ Kept /\ fetch'.goal = fetch.goal
      /\ fetch'.got = fetch.got /\ fetch'.figures = lastGood
  BY <1>1 DEF C!ShowLastGood, FetchFields, Kept
<1>3. QED
  BY <1>2, ShowsKeep

LEMMA DecidesKeep ==
  ASSUME ClaudeInv,
         C!Use \/ C!Cooldown \/ C!Fetch \/ C!Checked \/ C!Limit \/ C!Build \/ C!BuildEnds
  PROVE  ClaudeInv'
<1>1. Unmoved /\ UNCHANGED <<active, snapshot>>
  BY DEF C!Use, C!Cooldown, C!Fetch, C!Checked, C!Limit, C!Build, C!BuildEnds, C!Around, C!keeping,
         C!provider, Unmoved
<1>2. ClaudeTypes /\ DOMAIN fetch = FetchFields
  BY DEF ClaudeInv, ClaudeTypes, FetchTypes
<1>3. ~Loading /\ fetch.pc \notin {"activate", "clear_good"}
  BY DEF C!Use, C!Cooldown, C!Fetch, C!Checked, C!Limit, C!Build, C!BuildEnds, C!At, Loading,
         ReadSteps
<1>4. ASSUME NEW l \in Later, C!To(l), lastGood' = lastGood PROVE ClaudeInv'
  BY <1>1, <1>2, <1>3, <1>4, MovesTo, PassesKeep DEF Passes
<1>5. CASE C!Use
  <2>1. lastGood' = lastGood
    BY <1>5 DEF C!Use, C!provider
  <2>2. QED
    BY <1>1, <1>3, <1>4, <1>5, <2>1, KeptShown DEF C!Use, Later
<1>6. CASE C!Cooldown
  <2>1. lastGood' = lastGood
    BY <1>6 DEF C!Cooldown, C!provider
  <2>2. QED
    BY <1>1, <1>3, <1>4, <1>6, <2>1, KeptShown DEF C!Cooldown, Later
<1>7. CASE C!Fetch
  <2>1. lastGood' = lastGood
    BY <1>7 DEF C!Fetch, C!provider
  <2>2. \/ C!Fails \/ C!ShowLastGood \/ fetch' = [fetch EXCEPT !.pc = "redeem", !.retried = TRUE]
        \/ \E answer \in {"ok", "limited", "unauthorized"} :
             fetch' = [fetch EXCEPT !.pc = "check", !.status = answer]
    BY <1>7 DEF C!Fetch, C!ShowLastGood
  <2>3. CASE fetch' = [fetch EXCEPT !.pc = "redeem", !.retried = TRUE]
    <3>1. Passes("redeem") /\ "redeem" \in Later
      BY <1>2, <2>3 DEF Passes, Kept, FetchFields, Later
    <3>2. QED
      BY <1>1, <1>3, <2>1, <3>1, PassesKeep
  <2>4. ASSUME NEW answer, fetch' = [fetch EXCEPT !.pc = "check", !.status = answer]
        PROVE  ClaudeInv'
    <3>1. Passes("check") /\ "check" \in Later
      BY <1>2, <2>4 DEF Passes, Kept, FetchFields, Later
    <3>2. QED
      BY <1>1, <1>3, <2>1, <3>1, PassesKeep
  <2>5. QED
    BY <1>1, <1>3, <2>1, <2>2, <2>3, <2>4, EndsKeep, KeptShown
<1>8. CASE C!Checked
  <2>1. lastGood' = lastGood
    BY <1>8 DEF C!Checked, C!provider
  <2>2. C!Fails \/ C!Reload \/ C!To("build") \/ C!To("limit")
    BY <1>8 DEF C!Checked
  <2>3. QED
    BY <1>1, <1>3, <1>4, <2>1, <2>2, EndsKeep DEF Later
<1>9. CASE C!Limit
  <2>1. lastGood' = lastGood /\ C!ShowLastGood
    BY <1>9 DEF C!Limit
  <2>2. QED
    BY <1>1, <1>3, <2>1, KeptShown
<1>10. CASE C!Build
  <2>1. CASE C!Fails /\ lastGood' = lastGood
    BY <1>1, <1>3, <2>1, EndsKeep
  <2>2. CASE /\ lastGood' = fetch.held
             /\ fetch' = [fetch EXCEPT !.pc = "build_limit", !.figures = fetch.held]
    <3>1. /\ DOMAIN fetch' = FetchFields /\ fetch'.pc = "build_limit" /\ Kept
          /\ fetch'.goal = fetch.goal /\ fetch'.got = fetch.got /\ fetch'.figures = fetch.held
      BY <1>2, <2>2 DEF FetchFields, Kept
    <3>2. QED
      BY <1>1, <1>3, <2>2, <3>1, ShowsKeep
  <2>3. QED
    BY <1>10, <2>1, <2>2 DEF C!Build
<1>11. CASE C!BuildEnds
  <2>1. lastGood' = lastGood /\ fetch.pc = "build_limit" /\ C!To("leave")
    BY <1>11 DEF C!BuildEnds, C!At
  <2>2. /\ DOMAIN fetch' = FetchFields /\ fetch'.pc = "leave" /\ Kept
        /\ fetch'.goal = fetch.goal /\ fetch'.got = fetch.got /\ fetch'.figures = fetch.figures
    BY <1>2, <2>1, MovesTo
  <2>3. QED
    BY <1>1, <1>3, <2>1, <2>2, ShowsKeep
<1>12. QED
  BY <1>5, <1>6, <1>7, <1>8, <1>9, <1>10, <1>11

-----------------------------------------------------------------------------
(* A fetch begins, takes its login into use, and hands over its figures.             *)

LEMMA BeginKeeps == ASSUME ClaudeInv, C!Begin PROVE ClaudeInv'
<1>1. Unmoved /\ UNCHANGED <<active, lastGood>> /\ fetch.pc = "idle"
      /\ fetch' = [C!Idle EXCEPT !.pc = "identity"] /\ snapshot' = C!Nothing
  BY DEF C!Begin, C!At, C!keeping, C!provider, Unmoved
<1>2. /\ DOMAIN fetch' = FetchFields /\ fetch'.pc = "identity" /\ fetch'.got = C!NoLogin
      /\ fetch'.held = C!NoLogin /\ fetch'.minted = C!NoLogin /\ fetch'.figures = C!NoLogin
      /\ fetch'.switches = 0
  BY <1>1, Starts DEF FetchFields
<1>3. C!NoLogin \in Used /\ C!NoLogin \in Seen
  BY Sorts DEF ClaudeInv
<1>4. snapshot'.figures = C!NoLogin /\ snapshot'.of = C!NoLogin /\ snapshot'.switches = 0
  BY <1>1 DEF C!Nothing
<1>5. FetchTypes'
  BY <1>1, <1>2, <1>3 DEF Unmoved, FetchTypes, Seen, Used
<1>6. OwnInv'
  BY <1>1, <1>2, <1>4, StartsOver DEF Unmoved
<1>7. ClaudeTypes' /\ ReadInv'
  BY <1>1, <1>2, <1>3, <1>4, <1>5, Quiet DEF Unmoved, ClaudeInv, ClaudeTypes
<1>8. QED
  BY <1>6, <1>7 DEF ClaudeInv

LEMMA EnsureIdentityKeeps == ASSUME ClaudeInv, C!EnsureIdentity PROVE ClaudeInv'
<1>1. Unmoved /\ UNCHANGED <<active, lastGood, snapshot>> /\ fetch.pc = "identity"
  BY DEF C!EnsureIdentity, C!At, C!Around, C!keeping, C!provider, Unmoved
<1>2. CASE card \notin {identity, Unresolved}
  BY <1>1, <1>2, EndsKeep DEF C!EnsureIdentity
<1>3. CASE card \in {identity, Unresolved}
  <2>1. DOMAIN fetch = FetchFields /\ fetch' = [fetch EXCEPT !.pc = "read", !.goal = "load"]
    BY <1>3 DEF C!EnsureIdentity, ClaudeInv, ClaudeTypes, FetchTypes
  <2>2. /\ DOMAIN fetch' = FetchFields /\ fetch'.pc = "read" /\ fetch'.goal = "load" /\ Kept
        /\ fetch'.got = fetch.got /\ fetch'.figures = fetch.figures
    BY <2>1 DEF FetchFields, Kept
  <2>3. FetchTypes'
    BY <1>1, <2>2 DEF Unmoved, Kept, ClaudeInv, ClaudeTypes, FetchTypes, Seen, Used
  <2>4. ClaudeTypes' /\ ReadInv'
    BY <1>1, <2>2, <2>3, Quiet DEF Unmoved, ClaudeInv, ClaudeTypes
  <2>5. Loading /\ Loading' /\ ~Writing' /\ ~Gotten'
    BY <1>1, <2>2 DEF Loading, Writing, ReadSteps, Gotten
  <2>6. Held' /\ fetch.held = C!NoLogin
    BY <1>1, <2>2, <2>5 DEF Kept, Unmoved, ClaudeInv, OwnInv, Held
  <2>7. Switched'
    BY <1>1, <1>3, <2>2, <2>5, <2>6 DEF Kept, Unmoved, Switched, Started
  <2>8. LastGood' /\ Figured' /\ ShownIsOwn'
    BY <1>1, <2>2 DEF Unmoved, ClaudeInv, OwnInv, LastGood, Figured, ShownIsOwn
  <2>9. QED
    BY <2>4, <2>6, <2>7, <2>8 DEF ClaudeInv, OwnInv
<1>4. QED
  BY <1>2, <1>3

LEMMA LoadedKeeps == ASSUME ClaudeInv, C!Loaded PROVE ClaudeInv'
<1>1. Unmoved /\ UNCHANGED <<active, lastGood, snapshot>>
      /\ fetch.pc = "compare" /\ fetch.goal = "load"
  BY DEF C!Loaded, C!At, C!Around, C!keeping, C!provider, Unmoved
<1>2. CASE fetch.got \notin C!Logins
  BY <1>1, <1>2, EndsKeep DEF C!Loaded
<1>3. CASE fetch.got \in C!Logins
  <2>1. DOMAIN fetch = FetchFields
        /\ fetch' = [fetch EXCEPT !.pc = "activate", !.got = C!NoLogin,
                                  !.held = fetch.got, !.expected = fetch.got]
    BY <1>3 DEF C!Loaded, ClaudeInv, ClaudeTypes, FetchTypes
  <2>2. /\ DOMAIN fetch' = FetchFields /\ fetch'.pc = "activate" /\ fetch'.held = fetch.got
        /\ fetch'.got = C!NoLogin /\ fetch'.minted = fetch.minted
        /\ fetch'.switches = fetch.switches /\ fetch'.figures = fetch.figures
    BY <2>1 DEF FetchFields
  <2>3. fetch.got \in Used /\ fetch.got # C!NoLogin /\ C!NoLogin \in Seen
    BY <1>3, Sorts DEF ClaudeInv, ClaudeTypes, FetchTypes
  <2>4. FetchTypes'
    BY <1>1, <2>2, <2>3 DEF Unmoved, ClaudeInv, ClaudeTypes, FetchTypes, Seen, Used
  <2>5. ClaudeTypes' /\ ReadInv'
    BY <1>1, <2>2, <2>4, Quiet DEF Unmoved, ClaudeInv, ClaudeTypes
  <2>6. Loading /\ ~Loading' /\ ~Writing' /\ ~Gotten' /\ (Started' <=> Started)
    BY <1>1, <2>2 DEF Unmoved, Loading, Writing, ReadSteps, Gotten, Started
  <2>7. Held'
    BY <1>1, <2>2, <2>3, <2>6 DEF ClaudeInv, OwnInv, Held
  <2>8. Switched'
    BY <1>1, <1>3, <2>2, <2>6 DEF Unmoved, ClaudeInv, OwnInv, Switched, Gotten
  <2>9. LastGood' /\ Figured' /\ ShownIsOwn'
    BY <1>1, <2>2 DEF Unmoved, ClaudeInv, OwnInv, LastGood, Figured, ShownIsOwn
  <2>10. QED
    BY <2>5, <2>7, <2>8, <2>9 DEF ClaudeInv, OwnInv
<1>4. QED
  BY <1>2, <1>3

\* The kept figures are given up when another login comes into use, in three steps.
LEMMA ActivatesKeep == ASSUME ClaudeInv, C!Activate \/ C!ClearGood \/ C!ClearLimit PROVE ClaudeInv'
<1>1. PICK l \in {"use", "clear_good", "clear_limit"} : C!To(l)
  BY DEF C!Activate, C!ClearGood, C!ClearLimit
<1>2. Unmoved /\ snapshot' = snapshot /\ fetch.pc \in {"activate", "clear_good", "clear_limit"}
  BY DEF C!Activate, C!ClearGood, C!ClearLimit, C!At, C!Around, C!keeping, Unmoved
<1>3. /\ DOMAIN fetch' = FetchFields /\ fetch'.pc = l /\ Kept
      /\ fetch'.goal = fetch.goal /\ fetch'.got = fetch.got /\ fetch'.figures = fetch.figures
  BY <1>1, MovesTo DEF ClaudeInv
<1>4. ~Loading /\ ~Loading' /\ ~Writing' /\ ~Gotten' /\ (Started' <=> Started)
  BY <1>2, <1>3 DEF Unmoved, Loading, Writing, ReadSteps, Gotten, Started
<1>5. FetchTypes'
  BY <1>2, <1>3 DEF Unmoved, Kept, ClaudeInv, ClaudeTypes, FetchTypes, Seen, Used
<1>6. /\ active' = fetch.held
      /\ l # "clear_good" /\ lastGood' # C!NoLogin =>
           /\ fetch.pc # "clear_good" /\ lastGood' = lastGood /\ active' = active
      /\ lastGood' \in {lastGood, C!NoLogin}
  <2>1. CASE C!Activate
    BY <1>3, <2>1 DEF C!Activate, C!To, C!At, ClaudeInv, ClaudeTypes, FetchTypes, FetchFields
  <2>2. CASE C!ClearGood \/ C!ClearLimit
    <3>1. fetch.pc # "activate" /\ active' = active /\ lastGood' \in {lastGood, C!NoLogin}
          /\ (lastGood' # C!NoLogin => lastGood' = lastGood /\ fetch.pc # "clear_good")
      BY <2>2 DEF C!ClearGood, C!ClearLimit, C!At
    <3>2. QED
      BY <1>4, <3>1 DEF ClaudeInv, OwnInv, Held
  <2>3. QED
    BY <2>1, <2>2
<1>7. active' \in Used /\ lastGood' \in Used
  BY <1>6, Sorts DEF ClaudeInv, ClaudeTypes, FetchTypes
<1>8. ClaudeTypes' /\ ReadInv'
  BY <1>2, <1>3, <1>5, <1>7, Quiet DEF Unmoved, ClaudeInv, ClaudeTypes
<1>9. Held'
  BY <1>2, <1>3, <1>4, <1>6 DEF Unmoved, Kept, ClaudeInv, OwnInv, Held
<1>10. Switched'
  BY <1>2, <1>3, <1>4 DEF Unmoved, Kept, ClaudeInv, OwnInv, Switched
<1>11. LastGood'
  BY <1>2, <1>3, <1>6 DEF Unmoved, ClaudeInv, OwnInv, LastGood
<1>12. Figured' /\ ShownIsOwn'
  BY <1>2, <1>3 DEF Unmoved, ClaudeInv, OwnInv, Figured, ShownIsOwn
<1>13. QED
  BY <1>8, <1>9, <1>10, <1>11, <1>12 DEF ClaudeInv, OwnInv

LEMMA LeaveKeeps == ASSUME ClaudeInv, C!Leave PROVE ClaudeInv'
<1>1. Unmoved /\ UNCHANGED <<active, lastGood>> /\ fetch.pc = "leave" /\ fetch' = C!Idle
  BY DEF C!Leave, C!At, C!keeping, C!provider, Unmoved
<1>2. /\ DOMAIN fetch' = FetchFields /\ fetch'.pc = "idle" /\ fetch'.got = C!NoLogin
      /\ fetch'.held = C!NoLogin /\ fetch'.minted = C!NoLogin /\ fetch'.figures = C!NoLogin
      /\ fetch'.switches = 0
  BY <1>1, Starts
<1>3. C!NoLogin \in Used /\ C!NoLogin \in Seen
  BY Sorts DEF ClaudeInv
<1>4. FetchTypes'
  BY <1>1, <1>2, <1>3 DEF Unmoved, FetchTypes, Seen, Used
<1>5. \/ snapshot' = snapshot
      \/ /\ card \in {identity, Unresolved} /\ snapshot'.figures = fetch.figures
         /\ snapshot'.of = fetch.held /\ snapshot'.switches = fetch.switches
  BY DEF C!Leave
<1>6. snapshot'.figures \in Used /\ snapshot'.of \in Used /\ snapshot'.switches \in 0..2
  BY <1>5 DEF ClaudeInv, ClaudeTypes, FetchTypes
<1>7. ClaudeTypes' /\ ReadInv'
  BY <1>1, <1>2, <1>4, <1>6, Quiet DEF Unmoved, ClaudeInv, ClaudeTypes
<1>8. Loading' /\ ~Writing' /\ ~Started' /\ ~Loading /\ fetch.held # C!NoLogin
  BY <1>1, <1>2 DEF Loading, Writing, Started, ReadSteps, ClaudeInv, OwnInv, Held
<1>9. Held' /\ Switched' /\ Figured'
  BY <1>2, <1>8 DEF Held, Switched, Figured
<1>10. LastGood'
  BY <1>1 DEF Unmoved, ClaudeInv, OwnInv, LastGood
<1>11. fetch.figures # C!NoLogin => owner[fetch.figures] = owner[fetch.held]
  BY <1>1 DEF ClaudeInv, OwnInv, Figured
<1>12. card = identity /\ card # Unresolved /\ fetch.switches < 2 => owner[fetch.held] = card
  BY <1>1, <1>8 DEF ClaudeInv, OwnInv, Switched, Started
<1>13. ShownIsOwn'
  BY <1>1, <1>5, <1>8, <1>11, <1>12 DEF Unmoved, ClaudeInv, OwnInv, ShownIsOwn
<1>14. QED
  BY <1>7, <1>9, <1>10, <1>13 DEF ClaudeInv, OwnInv

-----------------------------------------------------------------------------
(* The renewal.                                                                      *)

LEMMA RedeemsKeep == ASSUME ClaudeInv, C!Redeem PROVE ClaudeInv'
<1>1. /\ fetch.pc = "redeem" /\ fetch.held \in redeemable /\ number < ClaudeLogins
      /\ number' = number + 1 /\ owner' = [owner EXCEPT ![number'] = owner[fetch.held]]
      /\ redeemable' = (redeemable \ {fetch.held}) \cup {number'}
      /\ UNCHANGED <<place, store, identity, cache, probe, card, active, lastGood, snapshot, since,
                     raced>>
  BY DEF C!Redeem, C!At, C!provider
<1>2. ClaudeTypes /\ fetch.held \in Used /\ fetch.held # C!NoLogin /\ DOMAIN fetch = FetchFields
  BY <1>1 DEF ClaudeInv, ClaudeTypes, FetchTypes
<1>3. owner[fetch.held] \in Accounts
  BY <1>2, Sorts DEF ClaudeTypes
<1>4. /\ number' \in 1..ClaudeLogins /\ owner' \in [C!Logins -> Accounts] /\ number' \in Used'
      /\ number' # C!NoLogin /\ owner'[number'] = owner[fetch.held]
      /\ \A v \in Used : v \in Used' /\ (v # C!NoLogin => owner'[v] = owner[v])
  BY <1>1, <1>2, <1>3, NextLogin
<1>5. \A v \in Seen : v \in Seen'
  BY <1>4 DEF Seen
<1>6. C!NoLogin \notin redeemable'
  BY <1>1, <1>2, <1>4 DEF ClaudeTypes
<1>7. probe' \in [Probes -> [pc : {"idle", "fill", "insert"}, got : Seen']]
  BY <1>1, <1>2, <1>5 DEF ClaudeTypes
<1>8. ASSUME FetchTypes' PROVE ClaudeTypes'
  BY <1>1, <1>2, <1>4, <1>5, <1>6, <1>7, <1>8 DEF ClaudeTypes
<1>9. ~Loading
  BY <1>1 DEF Loading, ReadSteps
<1>10. /\ fetch.figures \in Used /\ active \in Used /\ lastGood \in Used
       /\ snapshot.figures \in Used /\ snapshot.of \in Used /\ fetch.got \in Seen
       /\ fetch.switches \in 0..2
  BY <1>2 DEF ClaudeTypes, FetchTypes
<1>11. CASE fetch' = [fetch EXCEPT !.pc = "guard", !.minted = number']
  <2>1. /\ DOMAIN fetch' = FetchFields /\ fetch'.pc = "guard" /\ fetch'.minted = number'
        /\ fetch'.goal = fetch.goal /\ fetch'.got = fetch.got /\ fetch'.held = fetch.held
        /\ fetch'.figures = fetch.figures /\ fetch'.switches = fetch.switches
    BY <1>2, <1>11 DEF FetchFields
  <2>2. FetchTypes'
    BY <1>2, <1>4, <1>5, <1>10, <2>1 DEF FetchTypes
  <2>3. ReadInv'
    BY <1>1, <2>1 DEF ClaudeInv, ReadInv, InFile, Observing, Fresh
  <2>4. ~Loading' /\ ~Gotten' /\ (Started' <=> Started)
    BY <1>1, <2>1 DEF Loading, ReadSteps, Gotten, Started
  <2>5. Held'
    BY <1>1, <1>2, <1>4, <1>9, <2>1, <2>4 DEF ClaudeInv, OwnInv, Held
  <2>6. Switched'
    BY <1>1, <1>2, <1>4, <2>1, <2>4 DEF ClaudeInv, OwnInv, Switched
  <2>7. LastGood' /\ Figured' /\ ShownIsOwn'
    BY <1>1, <1>4, <1>10, <2>1 DEF ClaudeInv, OwnInv, LastGood, Figured, ShownIsOwn
  <2>8. QED
    BY <1>8, <2>2, <2>3, <2>5, <2>6, <2>7 DEF ClaudeInv, OwnInv
<1>12. CASE C!Fails
  <2>1. /\ DOMAIN fetch' = FetchFields /\ fetch'.pc = "idle" /\ fetch'.got = C!NoLogin
        /\ fetch'.held = C!NoLogin /\ fetch'.minted = C!NoLogin /\ fetch'.figures = C!NoLogin
        /\ fetch'.switches = 0
    BY <1>12, Starts DEF C!Fails
  <2>2. C!NoLogin \in Used' /\ C!NoLogin \in Seen'
    BY <1>2, <1>4, <1>5, Sorts
  <2>3. FetchTypes'
    BY <2>1, <2>2 DEF FetchTypes
  <2>4. ReadInv'
    BY <1>1, <2>1 DEF ClaudeInv, ReadInv, InFile, Observing, Fresh
  <2>5. OwnInv'
    BY <1>1, <1>4, <2>1, StartsOver
  <2>6. QED
    BY <1>8, <2>3, <2>4, <2>5 DEF ClaudeInv
<1>13. QED
  BY <1>11, <1>12 DEF C!Redeem

\* A step of the renewal that issues nothing: what it keeps of whose figures are whose.
LEMMA RenewsOn ==
  ASSUME ClaudeInv,
         UNCHANGED <<place, owner, number, redeemable, identity, probe, card, active, lastGood,
                     snapshot>>,
         ~Loading, ~Loading', Writing' => Writing, Kept, DOMAIN fetch' = FetchFields,
         fetch'.got \in {fetch.got, C!NoLogin}, fetch'.figures = fetch.figures,
         fetch.pc # "activate", fetch.pc # "clear_good",
         fetch'.pc \notin {"activate", "clear_good", "build_limit", "leave"},
         store' \in Used, cache' \in {cache, C!NoEntry}, ReadInv'
  PROVE  ClaudeInv'
<1>1. OwnInv'
  BY GoesOn
<1>2. FetchTypes'
  BY Sorts DEF Kept, ClaudeInv, ClaudeTypes, FetchTypes, Seen, Used
<1>3. ClaudeTypes'
  BY <1>2 DEF ClaudeInv, ClaudeTypes, Seen, Used
<1>4. QED
  BY <1>1, <1>3 DEF ClaudeInv

\* The login is read once more, past the cache: before the write, and before figures are shown.
LEMMA ReadsAnewKeep ==
  ASSUME ClaudeInv, C!ReadAnew("guard", "guard") \/ C!ReadAnew("check", "check")
  PROVE  ClaudeInv'
<1>1. PICK l \in {"guard", "check"} :
        /\ fetch.pc = l /\ cache' = C!NoEntry /\ raced' = C!InFlight
        /\ fetch' = [fetch EXCEPT !.pc = "read", !.goal = l]
        /\ UNCHANGED <<place, store, owner, number, redeemable, identity, probe, card, active,
                       lastGood, snapshot, since>>
  BY DEF C!ReadAnew, C!At, C!Around, C!keeping, C!provider
<1>2. /\ DOMAIN fetch' = FetchFields /\ fetch'.pc = "read" /\ fetch'.goal = l /\ Kept
      /\ fetch'.got = fetch.got /\ fetch'.figures = fetch.figures
  BY <1>1 DEF FetchFields, Kept, ClaudeInv, ClaudeTypes, FetchTypes
<1>3. ReadInv'
  BY <1>1, <1>2 DEF ClaudeInv, ReadInv, InFile, Observing, Fresh, C!InFlight
<1>4. ~Loading /\ ~Loading' /\ (Writing' => Writing)
  BY <1>1, <1>2 DEF Loading, Writing, ReadSteps
<1>5. store \in Used
  BY DEF ClaudeInv, ClaudeTypes
<1>6. QED
  BY <1>1, <1>2, <1>3, <1>4, <1>5, RenewsOn

LEMMA GuardedKeeps == ASSUME ClaudeInv, C!Guarded PROVE ClaudeInv'
<1>1. Unmoved /\ UNCHANGED <<active, lastGood, snapshot>>
      /\ fetch.pc = "compare" /\ fetch.goal = "guard" /\ DOMAIN fetch = FetchFields
  BY DEF C!Guarded, C!At, C!Around, C!keeping, C!provider, Unmoved, ClaudeInv, ClaudeTypes, FetchTypes
<1>2. CASE C!Reload
  BY <1>1, <1>2, EndsKeep
<1>3. CASE \/ fetch' = [fetch EXCEPT !.pc = "replace", !.saved = "unread"]
           \/ fetch' = [fetch EXCEPT !.pc = "write", !.got = C!NoLogin]
  <2>1. /\ DOMAIN fetch' = FetchFields /\ fetch'.pc \in {"replace", "write"} /\ Kept
        /\ fetch'.got \in {fetch.got, C!NoLogin} /\ fetch'.figures = fetch.figures
    BY <1>1, <1>3 DEF FetchFields, Kept
  <2>2. ReadInv'
    BY <1>1, <2>1 DEF Unmoved, ClaudeInv, ReadInv, InFile, Observing, Fresh
  <2>3. ~Loading /\ ~Loading' /\ (Writing' => Writing)
    BY <1>1, <2>1 DEF Loading, Writing, ReadSteps
  <2>4. store \in Used
    BY DEF ClaudeInv, ClaudeTypes
  <2>5. QED
    BY <1>1, <2>1, <2>2, <2>3, <2>4, RenewsOn DEF Unmoved
<1>4. QED
  BY <1>2, <1>3 DEF C!Guarded

LEMMA WritesKeep == ASSUME ClaudeInv, C!WriteFile \/ C!DropEntry \/ C!WriteStore PROVE ClaudeInv'
<1>1. /\ UNCHANGED <<place, owner, number, redeemable, identity, probe, card, active, lastGood,
                     snapshot>>
      /\ fetch.pc \in {"write", "stored"}
  BY DEF C!WriteFile, C!DropEntry, C!WriteStore, C!At, C!Around, C!keeping, C!provider
<1>2. /\ DOMAIN fetch = FetchFields /\ store \in Used /\ fetch.minted \in Used
      /\ Writing /\ ~Loading
  BY <1>1 DEF ClaudeInv, ClaudeTypes, FetchTypes, Writing, Loading, ReadSteps
<1>3. /\ DOMAIN fetch' = FetchFields /\ fetch'.pc \in {"replace", "stored"} /\ Kept
      /\ fetch'.got = fetch.got /\ fetch'.figures = fetch.figures
  BY <1>2 DEF C!WriteFile, C!DropEntry, C!WriteStore, C!Saves, C!SaveFails, C!To, FetchFields, Kept
<1>4. ~Loading' /\ store' \in Used /\ cache' \in {cache, C!NoEntry}
  BY <1>2, <1>3 DEF C!WriteFile, C!DropEntry, C!WriteStore, C!Saves, C!SaveFails, C!Around,
       C!keeping, Loading, ReadSteps
<1>5. ReadInv'
  <2>1. CASE C!DropEntry
    <3>1. /\ place = "store" /\ cache' = C!NoEntry /\ raced' = (raced \/ C!InFlight)
          /\ UNCHANGED <<store, since>>
      BY <2>1 DEF C!DropEntry, C!Around, C!keeping
    <3>2. InFile'
      BY <1>1, <3>1 DEF InFile
    <3>3. Observing'
      BY <1>1, <1>3, <3>1 DEF ClaudeInv, ReadInv, Observing, Fresh, C!InFlight
    <3>4. QED
      BY <3>2, <3>3 DEF ReadInv
  <2>2. CASE C!WriteFile \/ C!WriteStore
    <3>1. /\ fetch'.pc = "replace" /\ cache' = cache /\ raced' = raced
          /\ \/ UNCHANGED <<store, since>>
             \/ store' = fetch.minted /\ since' = {fetch.minted}
      BY <1>2, <2>2 DEF C!WriteFile, C!WriteStore, C!Saves, C!SaveFails, FetchFields
    <3>2. ~raced => cache = C!NoEntry /\ \A p \in Probes : probe[p].pc # "insert"
      BY <2>2 DEF C!WriteFile, C!WriteStore, C!At, ClaudeInv, ReadInv, InFile, Observing
    <3>3. QED
      BY <1>1, <3>1, <3>2 DEF ClaudeInv, ReadInv, InFile, Observing, Fresh
  <2>3. QED
    BY <2>1, <2>2
<1>6. QED
  BY <1>1, <1>2, <1>3, <1>4, <1>5, RenewsOn

LEMMA ReplaceKeeps == ASSUME ClaudeInv, C!Replace PROVE ClaudeInv'
<1> DEFINE held == IF fetch.saved = "unread" THEN fetch.held ELSE fetch.minted
           l == IF fetch.retried THEN "fetch" ELSE "cooldown"
<1>1. Unmoved /\ UNCHANGED <<lastGood, snapshot>> /\ fetch.pc = "replace"
      /\ active' = (IF active = fetch.held THEN held ELSE active)
      /\ fetch' = [fetch EXCEPT !.held = held, !.pc = l]
  BY DEF C!Replace, C!At, C!Around, C!keeping, Unmoved
<1>2. ~Loading /\ Writing
  BY <1>1 DEF Loading, Writing, ReadSteps
<1>3. /\ active = fetch.held /\ fetch.held # C!NoLogin /\ fetch.minted # C!NoLogin
      /\ owner[fetch.minted] = owner[fetch.held] /\ DOMAIN fetch = FetchFields
      /\ fetch.minted \in Used /\ fetch.held \in Used
  BY <1>1, <1>2 DEF ClaudeInv, ClaudeTypes, FetchTypes, OwnInv, Held
<1>4. /\ held \in Used /\ held # C!NoLogin /\ owner[held] = owner[fetch.held]
      /\ l \in {"fetch", "cooldown"}
  BY <1>3
<1> HIDE DEF held, l
<1>5. /\ DOMAIN fetch' = FetchFields /\ fetch'.pc = l /\ fetch'.held = held
      /\ fetch'.goal = fetch.goal /\ fetch'.got = fetch.got /\ fetch'.minted = fetch.minted
      /\ fetch'.switches = fetch.switches /\ fetch'.figures = fetch.figures /\ active' = held
  BY <1>1, <1>3 DEF FetchFields
<1>6. FetchTypes'
  BY <1>1, <1>4, <1>5 DEF Unmoved, ClaudeInv, ClaudeTypes, FetchTypes, Seen, Used
<1>7. ClaudeTypes' /\ ReadInv'
  BY <1>1, <1>4, <1>5, <1>6, Quiet DEF Unmoved, ClaudeInv, ClaudeTypes
<1>8. ~Loading' /\ ~Writing' /\ ~Gotten' /\ (Started' <=> Started)
  BY <1>1, <1>4, <1>5 DEF Unmoved, Loading, Writing, ReadSteps, Gotten, Started
<1>9. Held'
  BY <1>1, <1>3, <1>4, <1>5, <1>8 DEF Unmoved, Held
<1>10. Switched'
  BY <1>1, <1>3, <1>4, <1>5, <1>8 DEF Unmoved, ClaudeInv, OwnInv, Switched
<1>11. LastGood' /\ Figured' /\ ShownIsOwn'
  BY <1>1, <1>3, <1>4, <1>5 DEF Unmoved, ClaudeInv, OwnInv, LastGood, Figured, ShownIsOwn
<1>12. QED
  BY <1>7, <1>9, <1>10, <1>11 DEF ClaudeInv, OwnInv

-----------------------------------------------------------------------------
LEMMA ClaudeStep ==
  ASSUME ClaudeInv, C!Others \/ C!Reading \/ C!Refreshing \/ C!Renewing PROVE ClaudeInv'
<1>1. CASE C!Others
  BY <1>1, UsersKeep, ProbesKeep DEF C!Others
<1>2. CASE C!Reading
  BY <1>2, ReadsKeep
<1>3. CASE C!Refreshing
  BY <1>3, BeginKeeps, EnsureIdentityKeeps, LoadedKeeps, ActivatesKeep, DecidesKeep, LeaveKeeps
  DEF C!Refreshing
<1>4. CASE C!Renewing
  <2>1. CASE C!RedeemRefused
    <3>1. Unmoved /\ UNCHANGED <<active, lastGood, snapshot>> /\ C!Fails /\ fetch.pc = "redeem"
      BY <2>1 DEF C!RedeemRefused, C!At, C!Around, C!keeping, C!provider, Unmoved
    <3>2. QED
      BY <3>1, EndsKeep
  <2>2. QED
    BY <1>4, <2>1, RedeemsKeep, ReadsAnewKeep, GuardedKeeps, WritesKeep, ReplaceKeeps DEF C!Renewing
<1>5. QED
  BY <1>1, <1>2, <1>3, <1>4

LEMMA ClaudeUnmoved == ASSUME ClaudeInv, UNCHANGED claudeVars PROVE ClaudeInv'
<1>1. UNCHANGED <<place, store, identity, owner, number, redeemable, cache, probe, card, fetch,
                  active, lastGood, limited, snapshot, since, raced>>
  BY DEF claudeVars
<1>2. ClaudeTypes'
  BY <1>1 DEF ClaudeInv, ClaudeTypes, FetchTypes, Seen, Used
<1>3. ReadInv' /\ OwnInv'
  BY <1>1, OwnStays DEF ClaudeInv, ReadInv, InFile, Observing, Fresh
<1>4. QED
  BY <1>2, <1>3 DEF ClaudeInv

LEMMA ClaudeInvariant == MCSpec => []ClaudeInv
<1>1. MCInit => ClaudeInv
  BY ClaudeInitially DEF MCInit
<1>2. ClaudeInv /\ [MCNext]_<<part, vars, claudeVars, keyVars>> => ClaudeInv'
  BY ClaudeStep, ClaudeUnmoved DEF MCNext, Claude, Codex, Keys
<1>3. QED
  BY <1>1, <1>2, PTL DEF MCSpec

\* The figures on a card are those of its account, or the user has changed the account twice
\* while they were fetched, or the login that was loaded was not of the account that Claude Code
\* named; and kept figures are shown only for the account they were fetched for: for any accounts,
\* probes and number of logins, wherever the login is kept (ensure_account_identity_current,
\* credential_generation, activate_live_usage_cache).
THEOREM FiguresAreTheCards == MCSpec => []FiguresBelongToCard
<1>1. ClaudeInv => FiguresBelongToCard
  BY DEF ClaudeInv, OwnInv, ShownIsOwn, FiguresBelongToCard, C!FiguresBelongToCard
<1>2. QED
  BY ClaudeInvariant, <1>1, PTL

\* After this program has written a login, no read is answered from the cache with an older one,
\* unless a read overlapped the write: for any number of probes that read between the lock of the
\* lookup and the lock of the insertion (read_cached_password, write_generic_password).
THEOREM OwnWritesAreSeen == MCSpec => []OwnWriteIsSeen
<1>1. ClaudeInv => OwnWriteIsSeen
  BY DEF ClaudeInv, ReadInv, Observing, Fresh, OwnWriteIsSeen, C!OwnWriteIsSeen
<1>2. QED
  BY ClaudeInvariant, <1>1, PTL
-----------------------------------------------------------------------------
(* Accounts named with a key: cards, settings, keys and probes.                      *)

KeyTypes ==
  /\ rows \subseteq K!Rows /\ mem \in K!Layouts /\ disk \in K!Layouts
  /\ keys \in [Ids -> Names \cup {None}] /\ cards \in [Ids -> Names \cup {None}]
  /\ task \in [Tasks -> K!TaskStates]

\* The command lock is held in the steps that change cards and settings.
Commanding == {"entry", "added", "removed", "rename"}
CommandHeld == \A t \in Tasks : task[t].at \in Commanding <=> cmd = t
\* The service has state for the cards, but for the one that is being added.
EntriesFit ==
  /\ \A t \in Tasks : /\ task[t].at = "entry" =>
                           entries = K!Cards \ {task[t].id} /\ task[t].id \in K!Cards
                      /\ task[t].at = "removed" => task[t].id \notin K!Cards
  /\ (\A t \in Tasks : task[t].at # "entry") => entries = K!Cards
\* The layouts are those of the cards, but for the one that is being added or was removed.
LayoutsFit ==
  /\ \A i \in K!Cards \ mem.layouts :
       \E t \in Tasks : task[t].at \in {"entry", "added"} /\ task[t].id = i
  /\ \A i \in mem.layouts :
       \/ i \in K!Recorded \/ K!Leaving(i)
       \/ i \in K!Cards /\ ~ \E t \in Tasks : task[t].at \in {"entry", "added"} /\ task[t].id = i
       \/ \E t \in Tasks : task[t].at = "removed" /\ task[t].id = i
CardsInv == CommandHeld /\ EntriesFit /\ LayoutsFit

\* The key of an account whose record is about to be deleted is gone.
KeysInv ==
  /\ K!KeysAreOwned
  /\ \A t \in Tasks : task[t].at = "bury" => task[t].id \in contested \/ keys[task[t].id] = None

\* While a key is being changed, no plan counts that was made before; and what such a plan has
\* not found is not there.
ProbesInv ==
  /\ \A t \in Tasks : task[t].at \in {"write", "noted"} => cred = t
  /\ \A t \in Tasks : task[t].at \in {"probe", "apply"} /\ ~task[t].busy /\ cred # None =>
       t \in outdated
  /\ \A t \in Tasks : task[t].at = "apply" /\ ~task[t].busy /\ t \notin outdated =>
       \A i \in task[t].absent : keys[i] = None
AccountsInv == KeyTypes /\ CardsInv /\ KeysInv /\ ProbesInv

-----------------------------------------------------------------------------
AddStates == [at : {"card", "entry", "added", "forget", "bury", "drop", "removed"},
              name : Names, id : Ids]
KeyStates == [at : {"key", "write", "noted"}, name : Names, id : Ids, saves : BOOLEAN]
\* A command at a step has what the commands at that step have read.
LEMMA States ==
  ASSUME KeyTypes, NEW t \in Tasks
  PROVE  /\ task[t].at \in {"card", "entry", "added", "forget", "bury", "drop", "removed"} =>
              task[t] \in AddStates
         /\ task[t].at \in {"key", "write", "noted"} => task[t] \in KeyStates
         /\ task[t].at = "rename" => task[t] \in [at : {"rename"}, seen : SUBSET K!Rows]
         /\ task[t].at = "probe" =>
              task[t] \in [at : {"probe"}, ids : SUBSET Ids, busy : BOOLEAN]
         /\ task[t].at = "apply" =>
              task[t] \in [at : {"apply"}, found : SUBSET Ids, absent : SUBSET Ids, busy : BOOLEAN]
BY DEF KeyTypes, K!TaskStates, K!Idle, AddStates, KeyStates

LEMMA Advances ==
  ASSUME NEW s, NEW l,
         \/ s \in AddStates /\ l \in {"card", "entry", "added", "forget", "bury", "drop", "removed"}
         \/ s \in KeyStates /\ l \in {"key", "write", "noted"}
  PROVE  /\ [s EXCEPT !.at = l] \in K!TaskStates
         /\ [s EXCEPT !.at = l].at = l /\ [s EXCEPT !.at = l].name = s.name
         /\ [s EXCEPT !.at = l].id = s.id
BY DEF K!TaskStates, AddStates, KeyStates

LEMMA Rests == K!Idle \in K!TaskStates /\ K!Idle.at = "idle"
BY DEF K!TaskStates, K!Idle

\* A step of one command leaves the others where they are.
LEMMA OneGoes ==
  ASSUME KeyTypes, NEW t \in Tasks, NEW s, K!Goes(t, s)
  PROVE  task'[t] = s /\ \A u \in Tasks : u # t => task'[u] = task[u]
BY DEF KeyTypes, K!Goes

LEMMA TypesKeep ==
  ASSUME KeyTypes, NEW t \in Tasks, NEW s \in K!TaskStates, K!Goes(t, s),
         rows' \subseteq K!Rows, mem' \in K!Layouts, disk' \in K!Layouts,
         keys' \in [Ids -> Names \cup {None}], cards' \in [Ids -> Names \cup {None}]
  PROVE  KeyTypes'
BY DEF KeyTypes, K!Goes

\* Steps that leave cards and settings alone.
LEMMA CardsStay ==
  ASSUME KeyTypes, CardsInv, NEW t \in Tasks, NEW s, K!Goes(t, s),
         task[t].at \notin Commanding \cup {"drop"}, s.at \notin Commanding,
         UNCHANGED <<cards, entries, cmd>>, mem'.layouts = mem.layouts,
         \A i \in K!Recorded : i \in K!Recorded' \/ K!Leaving(i)'
  PROVE  CardsInv'
<1>1. task'[t] = s /\ \A u \in Tasks : u # t => task'[u] = task[u]
  BY OneGoes
<1>2. CommandHeld'
  BY <1>1 DEF CardsInv, CommandHeld
<1>3. K!Cards' = K!Cards
  BY DEF K!Cards
<1>4. \A u \in Tasks : /\ task'[u].at \in Commanding => task'[u] = task[u]
                       /\ task[u].at \in Commanding => task'[u] = task[u]
  BY <1>1
<1>5. EntriesFit'
  BY <1>3, <1>4 DEF CardsInv, EntriesFit, Commanding
<1>6. \A i : K!Leaving(i) => K!Leaving(i)'
  BY <1>1 DEF K!Leaving
<1>7. LayoutsFit'
  BY <1>3, <1>4, <1>6 DEF CardsInv, LayoutsFit, Commanding
<1>8. QED
  BY <1>2, <1>5, <1>7 DEF CardsInv

\* Steps after which no account is being added or removed.
LEMMA Settles ==
  ASSUME CommandHeld', \A t \in Tasks : task'[t].at \notin {"entry", "added", "removed"},
         entries' = K!Cards', \A i \in K!Cards' : i \in mem'.layouts,
         \A i \in mem'.layouts : i \in K!Cards' \/ i \in K!Recorded' \/ K!Leaving(i)'
  PROVE  CardsInv'
BY DEF CardsInv, EntriesFit, LayoutsFit

\* Whoever holds the lock gives it back; while nobody does, nobody is in such a step.
LEMMA Releases ==
  ASSUME KeyTypes, CardsInv, NEW t \in Tasks, NEW s, K!Goes(t, s),
         s.at \notin Commanding, cmd = t \/ cmd = None, cmd' = None
  PROVE  /\ CommandHeld'
         /\ \A u \in Tasks : task'[u].at \notin {"entry", "added", "removed"}
         /\ \A i : K!Leaving(i) /\ task[t].at # "drop" => K!Leaving(i)'
<1>1. task'[t] = s /\ \A u \in Tasks : u # t => task'[u] = task[u]
  BY OneGoes
<1>2. \A u \in Tasks : task'[u].at \notin Commanding
  BY <1>1, KeysAssumption DEF CardsInv, CommandHeld
<1>3. CommandHeld'
  BY <1>2, KeysAssumption DEF CommandHeld
<1>4. \A u \in Tasks : task'[u].at \notin {"entry", "added", "removed"}
  BY <1>2 DEF Commanding
<1>5. \A i : K!Leaving(i) /\ task[t].at # "drop" => K!Leaving(i)'
  BY <1>1 DEF K!Leaving
<1>6. QED
  BY <1>3, <1>4, <1>5

\* While nobody adds or removes an account, the cards agree.
LEMMA Settled ==
  ASSUME CardsInv, \A t \in Tasks : task[t].at \notin {"entry", "added", "removed"}
  PROVE  /\ entries = K!Cards /\ \A i \in K!Cards : i \in mem.layouts
         /\ \A i \in mem.layouts : i \in K!Cards \/ i \in K!Recorded \/ K!Leaving(i)
BY DEF CardsInv, EntriesFit, LayoutsFit

\* Steps that leave the saved keys alone, and lose no record.
LEMMA KeysStay ==
  ASSUME KeyTypes, KeysInv, NEW t \in Tasks, NEW s, K!Goes(t, s), s.at # "bury", keys' = keys,
         contested \subseteq contested',
         \A n, i : K!Row(n, i) # {} => K!Row(n, i)' # {}
  PROVE  KeysInv'
<1>1. task'[t] = s /\ \A u \in Tasks : u # t => task'[u] = task[u]
  BY OneGoes
<1>2. K!KeysAreOwned'
  BY DEF KeysInv, K!KeysAreOwned
<1>3. \A u \in Tasks : task'[u].at = "bury" => task[u].at = "bury" /\ task'[u].id = task[u].id
  BY <1>1
<1>4. QED
  BY <1>2, <1>3 DEF KeysInv

\* Steps of commands that neither change a key nor plan a probe.
LEMMA ProbesStay ==
  ASSUME KeyTypes, ProbesInv, NEW t \in Tasks, NEW s, K!Goes(t, s),
         s.at \notin {"write", "noted", "probe", "apply"},
         \A i \in Ids : keys[i] = None => keys'[i] = None,
         cred' = cred \/ (cred' = None /\ cred = t), outdated \subseteq outdated'
  PROVE  ProbesInv'
<1>1. task'[t] = s /\ \A u \in Tasks : u # t => task'[u] = task[u]
  BY OneGoes
<1>2. \A u \in Tasks : task'[u].at \in {"write", "noted", "probe", "apply"} =>
        u # t /\ task'[u] = task[u]
  BY <1>1
<1>3. \A u \in Tasks : task'[u].at \in {"write", "noted"} => cred' = u
  BY <1>2 DEF ProbesInv
<1>4. \A u \in Tasks : task'[u].at \in {"probe", "apply"} /\ ~task'[u].busy /\ cred' # None =>
        u \in outdated'
  BY <1>2 DEF ProbesInv
<1>5. ASSUME NEW u \in Tasks, task'[u].at = "apply", ~task'[u].busy, u \notin outdated',
             NEW i \in task'[u].absent
      PROVE  keys'[i] = None
  <2>1. task'[u] = task[u] /\ u \notin outdated
    BY <1>2, <1>5
  <2>2. keys[i] = None /\ i \in Ids
    BY <1>5, <2>1, States DEF ProbesInv
  <2>3. QED
    BY <2>2
<1>6. QED
  BY <1>3, <1>4, <1>5 DEF ProbesInv

-----------------------------------------------------------------------------
LEMMA Normalizes ==
  ASSUME KeyTypes, NEW s \in K!Layouts
  PROVE  /\ K!Normalized(s) \in K!Layouts
         /\ \A i \in K!Cards : i \in K!Normalized(s).layouts
         /\ \A i \in K!Normalized(s).layouts : i \in K!Cards \/ i \in K!Recorded
<1>1. K!Cards \subseteq Ids /\ K!Recorded \subseteq Ids
  BY DEF KeyTypes, K!Cards, K!Recorded, K!Rows
<1>2. QED
  BY <1>1 DEF K!Normalized, K!Layouts

\* Records that are made lose none.
LEMMA RowsGrow ==
  ASSUME rows \subseteq rows'
  PROVE  /\ \A n, i : K!Row(n, i) # {} => K!Row(n, i)' # {}
         /\ \A i \in K!Recorded : i \in K!Recorded'
BY DEF K!Row, K!Recorded

LEMMA AllocatesKeep ==
  ASSUME AccountsInv, NEW t \in Tasks, NEW n \in Names, NEW i \in Ids, K!AddAllocate(t, n, i)
  PROVE  AccountsInv'
<1> DEFINE s == [at |-> "card", name |-> n, id |-> i]
<1>1. /\ task[t] = K!Idle /\ K!Goes(t, s)
      /\ UNCHANGED <<keys, disk, cards, entries, mem, cmd, cred, outdated, contested>>
      /\ rows' = rows \/ rows' = rows \cup {[name |-> n, id |-> i, named |-> TRUE]}
  BY DEF K!AddAllocate, K!Begins, K!live
<1>2. s \in K!TaskStates /\ s.at = "card"
  BY DEF K!TaskStates
<1> HIDE DEF s
<1>3. rows \subseteq rows' /\ rows' \subseteq K!Rows
  <2>1. [name |-> n, id |-> i, named |-> TRUE] \in K!Rows
    BY DEF K!Rows
  <2>2. rows \subseteq K!Rows
    BY DEF AccountsInv, KeyTypes
  <2>3. QED
    BY <1>1, <2>1, <2>2
<1>4. task[t].at = "idle"
  BY <1>1, Rests
<1>5. KeyTypes'
  BY <1>1, <1>2, <1>3, TypesKeep DEF AccountsInv, KeyTypes
<1>6. CardsInv'
  BY <1>1, <1>2, <1>3, <1>4, RowsGrow, CardsStay DEF AccountsInv, Commanding
<1>7. KeysInv'
  BY <1>1, <1>2, <1>3, RowsGrow, KeysStay DEF AccountsInv
<1>8. ProbesInv'
  BY <1>1, <1>2, ProbesStay DEF AccountsInv
<1>9. QED
  BY <1>5, <1>6, <1>7, <1>8 DEF AccountsInv

\* What the steps of adding and removing keep of the keys and the probes, and of the types.
LEMMA OthersStay ==
  ASSUME AccountsInv, NEW t \in Tasks, NEW s \in K!TaskStates, K!Goes(t, s),
         s.at \notin {"bury", "write", "noted", "probe", "apply"},
         UNCHANGED <<rows, keys, cred>>, contested \subseteq contested', outdated \subseteq outdated',
         mem' \in K!Layouts, disk' \in K!Layouts, cards' \in [Ids -> Names \cup {None}]
  PROVE  KeyTypes' /\ KeysInv' /\ ProbesInv'
<1>1. KeyTypes'
  BY TypesKeep DEF AccountsInv, KeyTypes
<1>2. \A n, i : K!Row(n, i) # {} => K!Row(n, i)' # {}
  BY DEF K!Row
<1>3. KeysInv'
  BY <1>2, KeysStay DEF AccountsInv
<1>4. ProbesInv'
  BY ProbesStay DEF AccountsInv
<1>5. QED
  BY <1>1, <1>3, <1>4

LEMMA AddCardKeeps == ASSUME AccountsInv, NEW t \in Tasks, K!AddCard(t) PROVE AccountsInv'
<1> DEFINE i == task[t].id
           s == [task[t] EXCEPT !.at = "entry"]
<1>1. /\ task[t].at = "card" /\ cmd = None
      /\ UNCHANGED <<rows, keys, disk, entries, mem, cred, outdated>>
  BY DEF K!AddCard, K!store
<1>2. task[t] \in AddStates /\ i \in Ids /\ task[t].name \in Names
  BY <1>1, States DEF AccountsInv, AddStates
<1>3. mem \in K!Layouts /\ disk \in K!Layouts /\ cards \in [Ids -> Names \cup {None}]
  BY DEF AccountsInv, KeyTypes
<1>4. CASE K!Goes(t, K!Idle) /\ UNCHANGED <<cards, cmd, contested>>
  <2>1. KeyTypes' /\ KeysInv' /\ ProbesInv'
    BY <1>1, <1>3, <1>4, Rests, OthersStay
  <2>2. CardsInv'
    BY <1>1, <1>4, Rests, CardsStay DEF AccountsInv, Commanding, K!Recorded
  <2>3. QED
    BY <2>1, <2>2 DEF AccountsInv
<1>5. CASE /\ i \notin K!Cards /\ cards' = [cards EXCEPT ![i] = task[t].name] /\ cmd' = t
           /\ K!Goes(t, s) /\ contested \subseteq contested'
  <2>1. s \in K!TaskStates /\ s.at = "entry" /\ s.id = i
    BY <1>2, Advances
  <2>2. cards' \in [Ids -> Names \cup {None}] /\ K!Cards' = K!Cards \cup {i}
    BY <1>2, <1>3, <1>5, KeysAssumption DEF K!Cards
  <2> HIDE DEF s
  <2>3. KeyTypes' /\ KeysInv' /\ ProbesInv'
    BY <1>1, <1>3, <1>5, <2>1, <2>2, OthersStay
  <2>4. task'[t] = s /\ \A u \in Tasks : u # t => task'[u] = task[u]
    BY <1>5, OneGoes DEF AccountsInv
  <2>5. \A u \in Tasks : task[u].at \notin Commanding
    BY <1>1, KeysAssumption DEF AccountsInv, CardsInv, CommandHeld
  <2>6. \A u \in Tasks : task[u].at \notin {"entry", "added", "removed"}
    BY <2>5 DEF Commanding
  <2>7. /\ entries = K!Cards /\ \A j \in K!Cards : j \in mem.layouts
        /\ \A j \in mem.layouts : j \in K!Cards \/ j \in K!Recorded \/ K!Leaving(j)
    BY <2>6, Settled DEF AccountsInv
  <2>8. CommandHeld'
    BY <1>5, <2>1, <2>4, <2>5 DEF CommandHeld, Commanding
  <2>9. EntriesFit'
    BY <1>1, <1>5, <2>1, <2>2, <2>4, <2>6, <2>7 DEF EntriesFit
  <2>10. \A j : K!Leaving(j) => K!Leaving(j)'
    BY <1>1, <2>4 DEF K!Leaving
  <2>11. K!Recorded' = K!Recorded
    BY <1>1 DEF K!Recorded
  <2>12. \A u \in Tasks : task'[u].at \in {"entry", "added", "removed"} => u = t /\ task'[u] = s
    BY <2>4, <2>6
  <2>13. \A j \in K!Cards' \ mem'.layouts :
           \E u \in Tasks : task'[u].at \in {"entry", "added"} /\ task'[u].id = j
    BY <1>1, <2>1, <2>2, <2>4, <2>7
  <2>14. \A j \in mem'.layouts :
           \/ j \in K!Recorded' \/ K!Leaving(j)'
           \/ j \in K!Cards' /\ ~ \E u \in Tasks : task'[u].at \in {"entry", "added"} /\ task'[u].id = j
    BY <1>1, <1>5, <2>1, <2>2, <2>7, <2>10, <2>11, <2>12
  <2>15. LayoutsFit'
    BY <2>13, <2>14 DEF LayoutsFit
  <2>16. QED
    BY <2>3, <2>8, <2>9, <2>15 DEF AccountsInv, CardsInv
<1>6. CASE /\ i \notin K!Cards /\ cards' = [cards EXCEPT ![i] = task[t].name] /\ cmd' = t
           /\ K!Goes(t, s) /\ ~(contested \subseteq contested')
  BY <1>6 DEF K!AddCard
<1>7. QED
  BY <1>4, <1>5, <1>6 DEF K!AddCard

LEMMA AddEntryKeeps == ASSUME AccountsInv, NEW t \in Tasks, K!AddEntry(t) PROVE AccountsInv'
<1> DEFINE s == [task[t] EXCEPT !.at = "added"]
<1>1. /\ task[t].at = "entry" /\ entries' = entries \cup {task[t].id} /\ K!Goes(t, s)
      /\ UNCHANGED <<rows, keys, disk, cards, mem, cmd, cred, outdated, contested>>
  BY DEF K!AddEntry, K!store
<1>2. s \in K!TaskStates /\ s.at = "added" /\ s.id = task[t].id
  BY <1>1, States, Advances DEF AccountsInv
<1> HIDE DEF s
<1>3. KeyTypes' /\ KeysInv' /\ ProbesInv'
  BY <1>1, <1>2, OthersStay DEF AccountsInv, KeyTypes
<1>4. task'[t] = s /\ \A u \in Tasks : u # t => task'[u] = task[u]
  BY <1>1, OneGoes DEF AccountsInv
<1>5. CommandHeld' /\ cmd = t
  BY <1>1, <1>2, <1>4 DEF AccountsInv, CardsInv, CommandHeld, Commanding
<1>6. \A u \in Tasks : u # t => task[u].at \notin {"entry", "added", "removed"}
  BY <1>5 DEF AccountsInv, CardsInv, CommandHeld, Commanding
<1>7. K!Cards' = K!Cards /\ K!Recorded' = K!Recorded
  BY <1>1 DEF K!Cards, K!Recorded
<1>8. EntriesFit'
  BY <1>1, <1>2, <1>4, <1>6, <1>7 DEF AccountsInv, CardsInv, EntriesFit
<1>9. \A j : K!Leaving(j) => K!Leaving(j)'
  BY <1>1, <1>4 DEF K!Leaving
<1>10. \A j : (\E u \in Tasks : task'[u].at \in {"entry", "added"} /\ task'[u].id = j)
             <=> (\E u \in Tasks : task[u].at \in {"entry", "added"} /\ task[u].id = j)
  BY <1>1, <1>2, <1>4
<1>11. \A u \in Tasks : task[u].at # "removed"
  BY <1>1, <1>6
<1>12. LayoutsFit'
  BY <1>1, <1>7, <1>9, <1>10, <1>11 DEF AccountsInv, CardsInv, LayoutsFit
<1>13. QED
  BY <1>3, <1>5, <1>8, <1>12 DEF AccountsInv, CardsInv

\* The settings are reconciled with the registry: whoever added or removed an account is done.
LEMMA ReconcilesKeep ==
  ASSUME AccountsInv, NEW t \in Tasks, K!AddReconcile(t) \/ K!RemoveReconcile(t)
  PROVE  AccountsInv'
<1>1. /\ task[t].at \in {"added", "removed"} /\ K!Goes(t, K!Idle) /\ cmd' = None
      /\ mem' = K!Normalized(mem) /\ disk' \in {disk, mem'}
      /\ UNCHANGED <<rows, keys, cards, entries, cred, outdated, contested>>
  BY DEF K!AddReconcile, K!RemoveReconcile, K!Reconciled
<1>2. /\ mem' \in K!Layouts /\ disk' \in K!Layouts
      /\ \A i \in K!Cards : i \in mem'.layouts
      /\ \A i \in mem'.layouts : i \in K!Cards \/ i \in K!Recorded
  BY <1>1, Normalizes DEF AccountsInv, KeyTypes
<1>3. KeyTypes' /\ KeysInv' /\ ProbesInv'
  BY <1>1, <1>2, Rests, OthersStay DEF AccountsInv, KeyTypes
<1>4. cmd = t
  BY <1>1 DEF AccountsInv, CardsInv, CommandHeld, Commanding
<1>5. CommandHeld' /\ \A u \in Tasks : task'[u].at \notin {"entry", "added", "removed"}
  BY <1>1, <1>4, Rests, Releases DEF AccountsInv, Commanding
<1>6. K!Cards' = K!Cards /\ K!Recorded' = K!Recorded
  BY <1>1 DEF K!Cards, K!Recorded
<1>7. entries = K!Cards
  <2>1. \A u \in Tasks : task[u].at # "entry"
    BY <1>1, <1>4 DEF AccountsInv, CardsInv, CommandHeld, Commanding
  <2>2. QED
    BY <2>1 DEF AccountsInv, CardsInv, EntriesFit
<1>8. CardsInv'
  BY <1>1, <1>2, <1>5, <1>6, <1>7, Settles
<1>9. QED
  BY <1>3, <1>8 DEF AccountsInv

\* The rollback: no card, no entry and no layout is left of the account.
LEMMA AddFailsKeeps == ASSUME AccountsInv, NEW t \in Tasks, K!AddFails(t) PROVE AccountsInv'
<1> DEFINE i == task[t].id
<1>1. /\ task[t].at \in {"entry", "added"} /\ K!Goes(t, K!Idle) /\ cmd' = None
      /\ entries' = entries \ {i} /\ cards' = [cards EXCEPT ![i] = None]
      /\ UNCHANGED <<rows, keys, disk, mem, cred, outdated, contested>>
  BY DEF K!AddFails, K!store
<1>2. i \in Ids /\ cards \in [Ids -> Names \cup {None}]
  BY <1>1, States DEF AccountsInv, KeyTypes, AddStates
<1>3. cards' \in [Ids -> Names \cup {None}] /\ K!Cards' = K!Cards \ {i}
  BY <1>1, <1>2 DEF K!Cards
<1> HIDE DEF i
<1>4. KeyTypes' /\ KeysInv' /\ ProbesInv'
  BY <1>1, <1>3, Rests, OthersStay DEF AccountsInv, KeyTypes
<1>5. cmd = t /\ \A u \in Tasks : u # t => task[u].at \notin {"entry", "added", "removed"}
  BY <1>1 DEF AccountsInv, CardsInv, CommandHeld, Commanding
<1>6. /\ CommandHeld' /\ \A u \in Tasks : task'[u].at \notin {"entry", "added", "removed"}
      /\ \A j : K!Leaving(j) => K!Leaving(j)'
  BY <1>1, <1>5, Rests, Releases DEF AccountsInv, Commanding
<1>7. entries' = K!Cards'
  <2>1. entries \ {i} = K!Cards \ {i}
    BY <1>1, <1>5 DEF AccountsInv, CardsInv, EntriesFit, i
  <2>2. QED
    BY <1>1, <1>3, <2>1
<1>8. K!Recorded' = K!Recorded
  BY <1>1 DEF K!Recorded
<1>9. \A j \in K!Cards' : j \in mem'.layouts
  BY <1>1, <1>3, <1>5 DEF AccountsInv, CardsInv, LayoutsFit, i
<1>10. \A j \in mem'.layouts : j \in K!Cards' \/ j \in K!Recorded' \/ K!Leaving(j)'
  <2>1. \A j \in mem.layouts : j \in K!Recorded \/ K!Leaving(j) \/ (j \in K!Cards /\ j # i)
    BY <1>1, <1>5 DEF AccountsInv, CardsInv, LayoutsFit, i
  <2>2. QED
    BY <1>1, <1>3, <1>6, <1>8, <2>1
<1>11. CardsInv'
  BY <1>6, <1>7, <1>9, <1>10, Settles
<1>12. QED
  BY <1>4, <1>11 DEF AccountsInv

LEMMA RemoveFindKeeps ==
  ASSUME AccountsInv, NEW t \in Tasks, NEW r \in rows, K!RemoveFind(t, r) PROVE AccountsInv'
<1> DEFINE s == [at |-> "forget", name |-> r.name, id |-> r.id]
<1>1. /\ task[t] = K!Idle /\ K!Goes(t, s)
      /\ UNCHANGED <<rows, keys, disk, cards, entries, mem, cmd, cred, outdated, contested>>
  BY DEF K!RemoveFind, K!Begins, K!live, K!store
<1>2. r.name \in Names /\ r.id \in Ids
  BY DEF AccountsInv, KeyTypes, K!Rows
<1>3. s \in K!TaskStates /\ s.at = "forget"
  BY <1>2 DEF K!TaskStates
<1> HIDE DEF s
<1>4. KeyTypes' /\ KeysInv' /\ ProbesInv'
  BY <1>1, <1>3, OthersStay DEF AccountsInv, KeyTypes
<1>5. task[t].at = "idle" /\ K!Recorded' = K!Recorded
  BY <1>1, Rests DEF K!Recorded
<1>6. CardsInv'
  BY <1>1, <1>3, <1>5, CardsStay DEF AccountsInv, Commanding
<1>7. QED
  BY <1>4, <1>6 DEF AccountsInv

LEMMA RemoveFailsKeeps == ASSUME AccountsInv, NEW t \in Tasks, K!RemoveFails(t) PROVE AccountsInv'
<1>1. /\ task[t].at \in {"forget", "bury"} /\ K!Goes(t, K!Idle)
      /\ UNCHANGED <<rows, keys, disk, cards, entries, mem, cmd, cred, outdated, contested>>
  BY DEF K!RemoveFails, K!live, K!store
<1>2. KeyTypes' /\ KeysInv' /\ ProbesInv'
  BY <1>1, Rests, OthersStay DEF AccountsInv, KeyTypes
<1>3. K!Recorded' = K!Recorded
  BY <1>1 DEF K!Recorded
<1>4. CardsInv'
  BY <1>1, <1>3, Rests, CardsStay DEF AccountsInv, Commanding
<1>5. QED
  BY <1>2, <1>4 DEF AccountsInv

\* The key is deleted before the record.
LEMMA RemoveKeyKeeps == ASSUME AccountsInv, NEW t \in Tasks, K!RemoveKey(t) PROVE AccountsInv'
<1> DEFINE s == [task[t] EXCEPT !.at = "bury"]
<1>1. /\ task[t].at = "forget" /\ K!Goes(t, s) /\ keys' = [keys EXCEPT ![task[t].id] = None]
      /\ UNCHANGED <<rows, disk, cards, entries, mem, cmd, cred, outdated, contested>>
  BY DEF K!RemoveKey, K!live
<1>2. s \in K!TaskStates /\ s.at = "bury" /\ s.id = task[t].id /\ task[t].id \in Ids
  BY <1>1, States, Advances DEF AccountsInv, AddStates
<1> HIDE DEF s
<1>3. /\ keys' \in [Ids -> Names \cup {None}] /\ keys'[task[t].id] = None
      /\ \A i \in Ids : keys'[i] = keys[i] \/ keys'[i] = None
  BY <1>1, <1>2 DEF AccountsInv, KeyTypes
<1>4. KeyTypes'
  BY <1>1, <1>2, <1>3, TypesKeep DEF AccountsInv, KeyTypes
<1>5. K!Recorded' = K!Recorded
  BY <1>1 DEF K!Recorded
<1>6. CardsInv'
  BY <1>1, <1>2, <1>5, CardsStay DEF AccountsInv, Commanding
<1>7. ProbesInv'
  BY <1>1, <1>2, <1>3, ProbesStay DEF AccountsInv
<1>8. task'[t] = s /\ \A u \in Tasks : u # t => task'[u] = task[u]
  BY <1>1, OneGoes DEF AccountsInv
<1>9. \A u \in Tasks : task[u].at = "bury" => task[u].id \in Ids
  BY States DEF AccountsInv, AddStates
<1>10. K!KeysAreOwned'
  BY <1>1, <1>3 DEF AccountsInv, KeysInv, K!KeysAreOwned, K!Row
<1>11. \A u \in Tasks : task'[u].at = "bury" =>
         task'[u].id \in contested' \/ keys'[task'[u].id] = None
  BY <1>1, <1>2, <1>3, <1>8, <1>9 DEF AccountsInv, KeysInv
<1>12. KeysInv'
  BY <1>10, <1>11 DEF KeysInv
<1>13. QED
  BY <1>4, <1>6, <1>7, <1>12 DEF AccountsInv

LEMMA RemoveRowKeeps == ASSUME AccountsInv, NEW t \in Tasks, K!RemoveRow(t) PROVE AccountsInv'
<1> DEFINE i == task[t].id
           s == [task[t] EXCEPT !.at = "drop"]
<1>1. /\ task[t].at = "bury" /\ K!Goes(t, s) /\ rows' = rows \ K!Row(task[t].name, i)
      /\ UNCHANGED <<keys, disk, cards, entries, mem, cmd, cred, outdated, contested>>
  BY DEF K!RemoveRow, K!live
<1>2. s \in K!TaskStates /\ s.at = "drop" /\ s.id = i
  BY <1>1, States, Advances DEF AccountsInv
<1>3. i \in contested \/ keys[i] = None
  BY <1>1 DEF AccountsInv, KeysInv
<1> HIDE DEF s
<1>4. task'[t] = s /\ \A u \in Tasks : u # t => task'[u] = task[u]
  BY <1>1, OneGoes DEF AccountsInv
<1>5. \A j \in K!Recorded : j \in K!Recorded' \/ K!Leaving(j)'
  <2>1. \A j : j = i => K!Leaving(j)'
    BY <1>2, <1>4 DEF K!Leaving
  <2>2. \A j \in K!Recorded : j # i => j \in K!Recorded'
    BY <1>1 DEF K!Recorded, K!Row
  <2>3. QED
    BY <2>1, <2>2
<1>6. KeyTypes'
  BY <1>1, <1>2, TypesKeep DEF AccountsInv, KeyTypes
<1>7. CardsInv'
  BY <1>1, <1>2, <1>5, CardsStay DEF AccountsInv, Commanding
<1>8. ProbesInv'
  BY <1>1, <1>2, ProbesStay DEF AccountsInv
<1>9. K!KeysAreOwned'
  <2>1. \A n, j : j # i /\ K!Row(n, j) # {} => K!Row(n, j)' # {}
    BY <1>1 DEF K!Row
  <2>2. QED
    BY <1>1, <1>3, <2>1 DEF AccountsInv, KeysInv, K!KeysAreOwned
<1>10. KeysInv'
  BY <1>1, <1>2, <1>4, <1>9 DEF AccountsInv, KeysInv
<1>11. QED
  BY <1>6, <1>7, <1>8, <1>10 DEF AccountsInv

LEMMA RemoveCardKeeps == ASSUME AccountsInv, NEW t \in Tasks, K!RemoveCard(t) PROVE AccountsInv'
<1> DEFINE i == task[t].id
           s == [task[t] EXCEPT !.at = "removed"]
<1>1. /\ task[t].at = "drop" /\ cmd = None /\ cmd' = t /\ K!Goes(t, s)
      /\ cards' = [cards EXCEPT ![i] = None] /\ entries' = entries \ {i}
      /\ UNCHANGED <<rows, keys, disk, mem, cred, outdated, contested>>
  BY DEF K!RemoveCard, K!store
<1>2. s \in K!TaskStates /\ s.at = "removed" /\ s.id = i /\ i \in Ids
  BY <1>1, States, Advances DEF AccountsInv, AddStates
<1>3. cards' \in [Ids -> Names \cup {None}] /\ K!Cards' = K!Cards \ {i}
  BY <1>1, <1>2 DEF AccountsInv, KeyTypes, K!Cards
<1> HIDE DEF s
<1>4. KeyTypes' /\ KeysInv' /\ ProbesInv'
  BY <1>1, <1>2, <1>3, OthersStay DEF AccountsInv, KeyTypes
<1>5. task'[t] = s /\ \A u \in Tasks : u # t => task'[u] = task[u]
  BY <1>1, OneGoes DEF AccountsInv
<1>6. \A u \in Tasks : task[u].at \notin Commanding
  BY <1>1, KeysAssumption DEF AccountsInv, CardsInv, CommandHeld
<1>7. \A u \in Tasks : task[u].at \notin {"entry", "added", "removed"}
  BY <1>6 DEF Commanding
<1>8. /\ entries = K!Cards /\ \A j \in K!Cards : j \in mem.layouts
      /\ \A j \in mem.layouts : j \in K!Cards \/ j \in K!Recorded \/ K!Leaving(j)
  BY <1>7, Settled DEF AccountsInv
<1>9. CommandHeld'
  BY <1>1, <1>2, <1>5, <1>6 DEF CommandHeld, Commanding
<1>10. EntriesFit'
  BY <1>1, <1>2, <1>3, <1>5, <1>7, <1>8 DEF EntriesFit
<1>11. \A j : K!Leaving(j) => K!Leaving(j)' \/ j = i
  BY <1>5 DEF K!Leaving
<1>12. K!Recorded' = K!Recorded
  BY <1>1 DEF K!Recorded
<1>13. \A u \in Tasks : task'[u].at \notin {"entry", "added"}
  BY <1>2, <1>5, <1>7
<1>14. task'[t].at = "removed" /\ task'[t].id = i
  BY <1>2, <1>5
<1>15. \A j \in K!Cards' : j \in mem'.layouts
  BY <1>1, <1>3, <1>8
<1>16. \A j \in mem'.layouts : j \in K!Recorded' \/ K!Leaving(j)' \/ j \in K!Cards' \/ j = i
  BY <1>1, <1>3, <1>8, <1>11, <1>12
<1> HIDE DEF i
<1>17. LayoutsFit'
  BY <1>13, <1>14, <1>15, <1>16 DEF LayoutsFit
<1>18. QED
  BY <1>4, <1>9, <1>10, <1>17 DEF AccountsInv, CardsInv

\* The settings could not be saved: the layout of the account is gone all the same.
LEMMA RemoveUnsavedKeeps ==
  ASSUME AccountsInv, NEW t \in Tasks, K!RemoveUnsaved(t) PROVE AccountsInv'
<1>1. /\ task[t].at = "removed" /\ K!Goes(t, K!Idle) /\ cmd' = None
      /\ mem' = [layouts |-> mem.layouts \ {task[t].id}, detected |-> mem.detected \ {task[t].id}]
      /\ UNCHANGED <<rows, keys, disk, cards, entries, cred, outdated, contested>>
  BY DEF K!RemoveUnsaved, K!store
<1>2. mem' \in K!Layouts /\ mem'.layouts = mem.layouts \ {task[t].id}
  BY <1>1 DEF AccountsInv, KeyTypes, K!Layouts
<1>3. KeyTypes' /\ KeysInv' /\ ProbesInv'
  BY <1>1, <1>2, Rests, OthersStay DEF AccountsInv, KeyTypes
<1>4. cmd = t /\ \A u \in Tasks : u # t => task[u].at \notin {"entry", "added", "removed"}
  BY <1>1 DEF AccountsInv, CardsInv, CommandHeld, Commanding
<1>5. /\ CommandHeld' /\ \A u \in Tasks : task'[u].at \notin {"entry", "added", "removed"}
      /\ \A j : K!Leaving(j) => K!Leaving(j)'
  BY <1>1, <1>4, Rests, Releases DEF AccountsInv, Commanding
<1>6. K!Cards' = K!Cards /\ K!Recorded' = K!Recorded
  BY <1>1 DEF K!Cards, K!Recorded
<1>7. \A u \in Tasks : task[u].at \notin {"entry", "added"}
  BY <1>1, <1>4
<1>8. entries = K!Cards /\ task[t].id \notin K!Cards
  BY <1>1, <1>7 DEF AccountsInv, CardsInv, EntriesFit
<1>9. \A j \in K!Cards' : j \in mem'.layouts
  BY <1>2, <1>6, <1>7, <1>8 DEF AccountsInv, CardsInv, LayoutsFit
<1>10. \A j \in mem'.layouts : j \in K!Cards' \/ j \in K!Recorded' \/ K!Leaving(j)'
  BY <1>1, <1>2, <1>4, <1>5, <1>6 DEF AccountsInv, CardsInv, LayoutsFit
<1>11. CardsInv'
  BY <1>1, <1>5, <1>6, <1>8, <1>9, <1>10, Settles
<1>12. QED
  BY <1>3, <1>11 DEF AccountsInv

-----------------------------------------------------------------------------
(* Saving and deleting a key.                                                        *)

LEMMA KeyAskKeeps ==
  ASSUME AccountsInv, NEW t \in Tasks, NEW i \in Ids, NEW saves \in BOOLEAN, K!KeyAsk(t, i, saves)
  PROVE  AccountsInv'
<1> DEFINE s == [at |-> "key", name |-> cards[i], id |-> i, saves |-> saves]
<1>1. /\ task[t] = K!Idle /\ i \in K!Cards /\ K!Goes(t, s)
      /\ UNCHANGED <<rows, keys, disk, cards, entries, mem, cmd, cred, outdated, contested>>
  BY DEF K!KeyAsk, K!Begins, K!live, K!store
<1>2. cards[i] \in Names
  BY <1>1 DEF AccountsInv, KeyTypes, K!Cards
<1>3. s \in K!TaskStates /\ s.at = "key"
  BY <1>2 DEF K!TaskStates
<1> HIDE DEF s
<1>4. KeyTypes' /\ KeysInv' /\ ProbesInv'
  BY <1>1, <1>3, OthersStay DEF AccountsInv, KeyTypes
<1>5. task[t].at = "idle" /\ K!Recorded' = K!Recorded
  BY <1>1, Rests DEF K!Recorded
<1>6. CardsInv'
  BY <1>1, <1>3, <1>5, CardsStay DEF AccountsInv, Commanding
<1>7. QED
  BY <1>4, <1>6 DEF AccountsInv

\* From here on no probe counts that was planned before.
LEMMA KeyBeginKeeps == ASSUME AccountsInv, NEW t \in Tasks, K!KeyBegin(t) PROVE AccountsInv'
<1> DEFINE s == [task[t] EXCEPT !.at = "write"]
<1>1. /\ task[t].at = "key" /\ cred = None /\ cred' = t /\ outdated' = Tasks /\ K!Goes(t, s)
      /\ UNCHANGED <<rows, keys, disk, cards, entries, mem, cmd, contested>>
  BY DEF K!KeyBegin, K!live, K!store
<1>2. s \in K!TaskStates /\ s.at = "write"
  BY <1>1, States, Advances DEF AccountsInv
<1> HIDE DEF s
<1>3. KeyTypes'
  BY <1>1, <1>2, TypesKeep DEF AccountsInv, KeyTypes
<1>4. K!Recorded' = K!Recorded /\ \A n, i : K!Row(n, i) # {} => K!Row(n, i)' # {}
  BY <1>1 DEF K!Recorded, K!Row
<1>5. CardsInv'
  BY <1>1, <1>2, <1>4, CardsStay DEF AccountsInv, Commanding
<1>6. KeysInv'
  BY <1>1, <1>2, <1>4, KeysStay DEF AccountsInv
<1>7. task'[t] = s /\ \A u \in Tasks : u # t => task'[u] = task[u]
  BY <1>1, OneGoes DEF AccountsInv
<1>8. \A u \in Tasks : task[u].at \notin {"write", "noted"}
  BY <1>1, KeysAssumption DEF AccountsInv, ProbesInv
<1>9. ProbesInv'
  BY <1>1, <1>2, <1>7, <1>8 DEF ProbesInv
<1>10. QED
  BY <1>3, <1>5, <1>6, <1>9 DEF AccountsInv

LEMMA KeyWriteKeeps == ASSUME AccountsInv, NEW t \in Tasks, K!KeyWrite(t) PROVE AccountsInv'
<1> DEFINE s == [task[t] EXCEPT !.at = "noted"]
           leaving == \E u \in Tasks : task[u].at = "bury" /\ task[u].id = task[t].id
<1>1. /\ task[t].at = "write" /\ K!Goes(t, s)
      /\ keys' = [keys EXCEPT ![task[t].id] = IF task[t].saves THEN task[t].name ELSE None]
      /\ contested' = IF task[t].saves /\ (leaving \/ K!Row(task[t].name, task[t].id) = {})
                      THEN contested \cup {task[t].id} ELSE contested
      /\ UNCHANGED <<rows, disk, cards, entries, mem, cmd, cred, outdated>>
  BY DEF K!KeyWrite, K!live
<1>2. s \in K!TaskStates /\ s.at = "noted" /\ task[t] \in KeyStates
  BY <1>1, States, Advances DEF AccountsInv
<1>3. PICK i \in Ids : i = task[t].id
  BY <1>2 DEF KeyStates
<1>4. PICK n \in Names : n = task[t].name
  BY <1>2 DEF KeyStates
<1> HIDE DEF s, leaving
<1>5. /\ keys' \in [Ids -> Names \cup {None}]
      /\ keys'[i] = (IF task[t].saves THEN n ELSE None)
      /\ \A j \in Ids : j # i => keys'[j] = keys[j]
  BY <1>1, <1>3, <1>4 DEF AccountsInv, KeyTypes
<1>6. KeyTypes'
  BY <1>1, <1>2, <1>5, TypesKeep DEF AccountsInv, KeyTypes
<1>7. K!Recorded' = K!Recorded /\ \A m, j : K!Row(m, j)' = K!Row(m, j)
  BY <1>1 DEF K!Recorded, K!Row
<1>8. CardsInv'
  BY <1>1, <1>2, <1>7, CardsStay DEF AccountsInv, Commanding
<1>9. task'[t] = s /\ \A u \in Tasks : u # t => task'[u] = task[u]
  BY <1>1, OneGoes DEF AccountsInv
<1>10. cred = t /\ cred # None
  BY <1>1, KeysAssumption DEF AccountsInv, ProbesInv
<1>11. ProbesInv'
  BY <1>1, <1>2, <1>9, <1>10 DEF AccountsInv, ProbesInv
<1>12. i \notin contested' => keys'[i] = None \/ (K!Row(n, i) # {} /\ ~leaving)
  BY <1>1, <1>3, <1>4, <1>5
<1>13. contested \subseteq contested'
  BY <1>1
<1>14. K!KeysAreOwned'
  <2>1. ASSUME NEW j \in Ids \ contested', keys'[j] # None PROVE K!Row(keys[j], j)' # {}
    <3>1. CASE j = i
      <4>1. keys'[j] = n /\ K!Row(n, i) # {}
        BY <1>5, <1>12, <2>1, <3>1
      <4>2. QED
        BY <1>7, <3>1, <4>1
    <3>2. CASE j # i
      <4>1. keys'[j] = keys[j] /\ j \notin contested
        BY <1>5, <1>13, <2>1, <3>2
      <4>2. K!Row(keys[j], j) # {}
        BY <2>1, <4>1 DEF AccountsInv, KeysInv, K!KeysAreOwned
      <4>3. QED
        BY <1>7, <4>1, <4>2
    <3>3. QED
      BY <3>1, <3>2
  <2>2. QED
    BY <2>1 DEF K!KeysAreOwned
<1>15. ASSUME NEW u \in Tasks, task'[u].at = "bury"
       PROVE  task'[u].id \in contested' \/ keys'[task'[u].id] = None
  <2>1. task'[u] = task[u] /\ task[u].id \in Ids
    BY <1>2, <1>9, <1>15, States DEF AccountsInv, AddStates
  <2>2. task[u].id \in contested \/ keys[task[u].id] = None
    BY <1>15, <2>1 DEF AccountsInv, KeysInv
  <2>3. task[u].id = i => leaving
    BY <1>3, <1>15, <2>1 DEF leaving
  <2>4. QED
    BY <1>5, <1>12, <1>13, <2>1, <2>2, <2>3
<1>16. KeysInv'
  BY <1>14, <1>15 DEF KeysInv
<1>17. QED
  BY <1>6, <1>8, <1>11, <1>16 DEF AccountsInv

LEMMA KeyEndsKeep ==
  ASSUME AccountsInv, NEW t \in Tasks, K!KeyFails(t) \/ K!KeyReconcile(t) PROVE AccountsInv'
<1>1. /\ task[t].at \in {"write", "noted"} /\ K!Goes(t, K!Idle) /\ cred' = None
      /\ UNCHANGED <<rows, keys, cards, entries, cmd, outdated, contested>>
  BY DEF K!KeyFails, K!KeyReconcile, K!live, K!store
<1>2. mem' \in K!Layouts /\ mem'.layouts = mem.layouts /\ disk' \in K!Layouts
  <2>1. mem \in K!Layouts /\ disk \in K!Layouts /\ task[t].id \in Ids
    BY <1>1, States DEF AccountsInv, KeyTypes, KeyStates
  <2>2. \/ mem' = mem /\ disk' = disk
        \/ /\ disk' = mem'
           /\ mem' = [mem EXCEPT !.detected = IF task[t].saves THEN @ \cup {task[t].id}
                                                               ELSE @ \ {task[t].id}]
    BY DEF K!KeyFails, K!KeyReconcile, K!live, K!store
  <2>3. QED
    BY <2>1, <2>2 DEF K!Layouts
<1>3. KeyTypes'
  BY <1>1, <1>2, Rests, TypesKeep DEF AccountsInv, KeyTypes
<1>4. K!Recorded' = K!Recorded /\ \A m, j : K!Row(m, j) # {} => K!Row(m, j)' # {}
  BY <1>1 DEF K!Recorded, K!Row
<1>5. CardsInv'
  BY <1>1, <1>2, <1>4, Rests, CardsStay DEF AccountsInv, Commanding
<1>6. KeysInv'
  BY <1>1, <1>4, Rests, KeysStay DEF AccountsInv
<1>7. cred = t
  BY <1>1 DEF AccountsInv, ProbesInv
<1>8. ProbesInv'
  BY <1>1, <1>7, Rests, ProbesStay DEF AccountsInv
<1>9. QED
  BY <1>3, <1>5, <1>6, <1>8 DEF AccountsInv

-----------------------------------------------------------------------------
(* Resets, detection and launches.                                                   *)

LEMMA PlansKeep ==
  ASSUME KeyTypes, ProbesInv, NEW t \in Tasks, K!Planned(t), UNCHANGED <<keys, cred>>
  PROVE  ProbesInv'
<1> DEFINE s == [at |-> "probe", ids |-> K!Cards, busy |-> cred # None]
<1>1. K!Goes(t, s) /\ outdated' = outdated \ {t}
  BY DEF K!Planned
<1>2. task'[t] = s /\ \A u \in Tasks : u # t => task'[u] = task[u]
  BY <1>1, OneGoes
<1>3. task'[t].at = "probe" /\ (task'[t].busy <=> cred # None)
  <2>1. s.at = "probe" /\ s.busy = (cred # None)
    BY Zenon
  <2>2. QED
    BY <1>2, <2>1
<1>4. QED
  BY <1>1, <1>2, <1>3 DEF ProbesInv

LEMMA PlanStates ==
  ASSUME KeyTypes
  PROVE  /\ [at |-> "probe", ids |-> K!Cards, busy |-> cred # None] \in K!TaskStates
         /\ [at |-> "probe", ids |-> K!Cards, busy |-> cred # None].at = "probe"
BY DEF K!TaskStates, K!Cards

LEMMA ResetsLayouts ==
  ASSUME KeyTypes, K!ResetLayouts
  PROVE  mem' \in K!Layouts /\ disk' \in K!Layouts /\ mem'.layouts = K!Cards
BY DEF KeyTypes, K!ResetLayouts, K!Layouts, K!Cards

LEMMA ResetCustomizationKeeps ==
  ASSUME AccountsInv, NEW t \in Tasks, K!ResetCustomization(t) PROVE AccountsInv'
<1> DEFINE s == [at |-> "probe", ids |-> K!Cards, busy |-> cred # None]
<1>1. /\ task[t] = K!Idle /\ cmd = None /\ K!ResetLayouts /\ K!Planned(t) /\ K!Goes(t, s)
      /\ UNCHANGED <<rows, keys, cards, entries, cmd, cred, contested>>
  BY DEF K!ResetCustomization, K!Begins, K!Planned
<1>2. s \in K!TaskStates /\ s.at = "probe"
  BY PlanStates DEF AccountsInv
<1> HIDE DEF s
<1>3. mem' \in K!Layouts /\ disk' \in K!Layouts /\ mem'.layouts = K!Cards
  BY <1>1, ResetsLayouts DEF AccountsInv
<1>4. KeyTypes'
  BY <1>1, <1>2, <1>3, TypesKeep DEF AccountsInv, KeyTypes
<1>5. K!Recorded' = K!Recorded /\ K!Cards' = K!Cards /\ \A m, j : K!Row(m, j) # {} => K!Row(m, j)' # {}
  BY <1>1 DEF K!Recorded, K!Cards, K!Row
<1>6. KeysInv'
  BY <1>1, <1>2, <1>5, KeysStay DEF AccountsInv
<1>7. ProbesInv'
  BY <1>1, PlansKeep DEF AccountsInv
<1>8. CommandHeld' /\ \A u \in Tasks : task'[u].at \notin {"entry", "added", "removed"}
  BY <1>1, <1>2, Releases DEF AccountsInv, Commanding
<1>9. entries = K!Cards
  <2>1. \A u \in Tasks : task[u].at \notin Commanding
    BY <1>1, KeysAssumption DEF AccountsInv, CardsInv, CommandHeld
  <2>2. QED
    BY <2>1 DEF AccountsInv, CardsInv, EntriesFit, Commanding
<1>10. CardsInv'
  BY <1>1, <1>3, <1>5, <1>8, <1>9, Settles
<1>11. QED
  BY <1>4, <1>6, <1>7, <1>10 DEF AccountsInv

LEMMA ResetLoadKeeps == ASSUME AccountsInv, NEW t \in Tasks, K!ResetLoad(t) PROVE AccountsInv'
<1> DEFINE s == [at |-> "rename", seen |-> rows]
<1>1. /\ task[t] = K!Idle /\ cmd = None /\ cmd' = t /\ K!Goes(t, s)
      /\ UNCHANGED <<rows, keys, disk, cards, entries, mem, cred, outdated, contested>>
  BY DEF K!ResetLoad, K!Begins, K!live, K!store
<1>2. s \in K!TaskStates /\ s.at = "rename"
  BY DEF K!TaskStates, AccountsInv, KeyTypes
<1> HIDE DEF s
<1>3. KeyTypes' /\ KeysInv' /\ ProbesInv'
  BY <1>1, <1>2, OthersStay DEF AccountsInv, KeyTypes
<1>4. task'[t] = s /\ \A u \in Tasks : u # t => task'[u] = task[u]
  BY <1>1, OneGoes DEF AccountsInv
<1>5. \A u \in Tasks : task[u].at \notin Commanding
  BY <1>1, KeysAssumption DEF AccountsInv, CardsInv, CommandHeld
<1>6. \A u \in Tasks : task[u].at \notin {"entry", "added", "removed"}
  BY <1>5 DEF Commanding
<1>7. /\ entries = K!Cards /\ \A i \in K!Cards : i \in mem.layouts
      /\ \A i \in mem.layouts : i \in K!Cards \/ i \in K!Recorded \/ K!Leaving(i)
  BY <1>6, Settled DEF AccountsInv
<1>8. CommandHeld' /\ \A u \in Tasks : task'[u].at \notin {"entry", "added", "removed"}
  BY <1>1, <1>2, <1>4, <1>5, <1>6 DEF CommandHeld, Commanding
<1>9. task[t].at = "idle"
  BY <1>1, Rests
<1>10. \A i : K!Leaving(i) => K!Leaving(i)'
  BY <1>4, <1>9 DEF K!Leaving
<1>11. K!Recorded' = K!Recorded /\ K!Cards' = K!Cards
  BY <1>1 DEF K!Recorded, K!Cards
<1>12. CardsInv'
  BY <1>1, <1>7, <1>8, <1>10, <1>11, Settles
<1>13. QED
  BY <1>3, <1>12 DEF AccountsInv

\* Every record is written back, those that were deleted in between too.
LEMMA ResetSaveKeeps == ASSUME AccountsInv, NEW t \in Tasks, K!ResetSave(t) PROVE AccountsInv'
<1> DEFINE s == [at |-> "probe", ids |-> K!Cards, busy |-> cred # None]
           seen == {<<r.name, r.id>> : r \in task[t].seen}
<1>1. /\ task[t].at = "rename" /\ cmd' = None /\ K!ResetLayouts /\ K!Planned(t) /\ K!Goes(t, s)
      /\ rows' = {r \in rows : <<r.name, r.id>> \notin seen}
                   \cup {[r EXCEPT !.named = FALSE] : r \in task[t].seen}
      /\ contested \subseteq contested'
      /\ UNCHANGED <<keys, cards, entries, cred>>
  BY DEF K!ResetSave, K!Planned
<1>2. s \in K!TaskStates /\ s.at = "probe"
  BY PlanStates DEF AccountsInv
<1>3. task[t].seen \subseteq K!Rows /\ rows \subseteq K!Rows
  BY <1>1, States DEF AccountsInv, KeyTypes
<1>4. \A r \in task[t].seen : /\ [r EXCEPT !.named = FALSE] \in K!Rows
                              /\ [r EXCEPT !.named = FALSE].name = r.name
                              /\ [r EXCEPT !.named = FALSE].id = r.id
  BY <1>3 DEF K!Rows
<1>5. rows' \subseteq K!Rows
  BY <1>1, <1>3, <1>4
<1>6. \A r \in rows : \E q \in rows' : q.name = r.name /\ q.id = r.id
  <2>1. ASSUME NEW r \in rows PROVE \E q \in rows' : q.name = r.name /\ q.id = r.id
    <3>1. CASE <<r.name, r.id>> \notin seen
      BY <1>1, <3>1
    <3>2. CASE <<r.name, r.id>> \in seen
      <4>1. PICK q \in task[t].seen : q.name = r.name /\ q.id = r.id
        BY <3>2
      <4>2. [q EXCEPT !.named = FALSE] \in rows'
        BY <1>1
      <4>3. QED
        BY <1>4, <4>1, <4>2
    <3>3. QED
      BY <3>1, <3>2
  <2>2. QED
    BY <2>1
<1> HIDE DEF s, seen
<1>7. \A n, i : K!Row(n, i) # {} => K!Row(n, i)' # {}
  BY <1>6 DEF K!Row
<1>8. \A i \in K!Recorded : i \in K!Recorded'
  BY <1>6 DEF K!Recorded
<1>9. mem' \in K!Layouts /\ disk' \in K!Layouts /\ mem'.layouts = K!Cards
  BY <1>1, ResetsLayouts DEF AccountsInv
<1>10. KeyTypes'
  BY <1>1, <1>2, <1>5, <1>9, TypesKeep DEF AccountsInv, KeyTypes
<1>11. KeysInv'
  BY <1>1, <1>2, <1>7, KeysStay DEF AccountsInv
<1>12. ProbesInv'
  BY <1>1, PlansKeep DEF AccountsInv
<1>13. cmd = t /\ \A u \in Tasks : task[u].at # "entry"
  BY <1>1 DEF AccountsInv, CardsInv, CommandHeld, Commanding
<1>14. CommandHeld' /\ \A u \in Tasks : task'[u].at \notin {"entry", "added", "removed"}
  BY <1>1, <1>2, <1>13, Releases DEF AccountsInv, Commanding
<1>15. entries' = K!Cards' /\ K!Cards' = K!Cards
  BY <1>1, <1>13 DEF AccountsInv, CardsInv, EntriesFit, K!Cards
<1>16. CardsInv'
  BY <1>9, <1>14, <1>15, Settles
<1>17. QED
  BY <1>10, <1>11, <1>12, <1>16 DEF AccountsInv

LEMMA ResetFailsKeeps == ASSUME AccountsInv, NEW t \in Tasks, K!ResetFails(t) PROVE AccountsInv'
<1>1. /\ task[t].at = "rename" /\ cmd' = None /\ K!Goes(t, K!Idle)
      /\ UNCHANGED <<rows, keys, disk, cards, entries, mem, cred, outdated, contested>>
  BY DEF K!ResetFails, K!live, K!store
<1>2. KeyTypes' /\ KeysInv' /\ ProbesInv'
  BY <1>1, Rests, OthersStay DEF AccountsInv, KeyTypes
<1>3. cmd = t /\ \A u \in Tasks : task[u].at \notin {"entry", "added", "removed"}
  BY <1>1 DEF AccountsInv, CardsInv, CommandHeld, Commanding
<1>4. /\ entries = K!Cards /\ \A i \in K!Cards : i \in mem.layouts
      /\ \A i \in mem.layouts : i \in K!Cards \/ i \in K!Recorded \/ K!Leaving(i)
  BY <1>3, Settled DEF AccountsInv
<1>5. /\ CommandHeld' /\ \A u \in Tasks : task'[u].at \notin {"entry", "added", "removed"}
      /\ \A i : K!Leaving(i) => K!Leaving(i)'
  BY <1>1, <1>3, Rests, Releases DEF AccountsInv, Commanding
<1>6. K!Recorded' = K!Recorded /\ K!Cards' = K!Cards
  BY <1>1 DEF K!Recorded, K!Cards
<1>7. CardsInv'
  BY <1>1, <1>4, <1>5, <1>6, Settles
<1>8. QED
  BY <1>2, <1>7 DEF AccountsInv

LEMMA DetectProbeKeeps ==
  ASSUME AccountsInv, NEW t \in Tasks, NEW unknown \in SUBSET Ids, K!DetectProbe(t, unknown)
  PROVE  AccountsInv'
<1> DEFINE probed == (task[t].ids \cap K!Cards) \ unknown
           s == [at |-> "apply", busy |-> task[t].busy,
                 found |-> {i \in probed : keys[i] # None},
                 absent |-> {i \in probed : keys[i] = None}]
<1>1. /\ task[t].at = "probe" /\ K!Goes(t, s)
      /\ UNCHANGED <<rows, keys, disk, cards, entries, mem, cmd, cred, outdated, contested>>
  BY DEF K!DetectProbe, K!live, K!store
<1>2. task[t].busy \in BOOLEAN /\ probed \subseteq Ids
  BY <1>1, States DEF AccountsInv, K!Cards
<1>3. s \in K!TaskStates /\ s.at = "apply"
  BY <1>2 DEF K!TaskStates
<1>4. s.busy = task[t].busy /\ \A i \in s.absent : keys[i] = None
  BY Zenon
<1> HIDE DEF s, probed
<1>5. KeyTypes'
  BY <1>1, <1>3, TypesKeep DEF AccountsInv, KeyTypes
<1>6. K!Recorded' = K!Recorded /\ \A n, i : K!Row(n, i) # {} => K!Row(n, i)' # {}
  BY <1>1 DEF K!Recorded, K!Row
<1>7. CardsInv'
  BY <1>1, <1>3, <1>6, CardsStay DEF AccountsInv, Commanding
<1>8. KeysInv'
  BY <1>1, <1>3, <1>6, KeysStay DEF AccountsInv
<1>9. task'[t] = s /\ \A u \in Tasks : u # t => task'[u] = task[u]
  BY <1>1, OneGoes DEF AccountsInv
<1>10. ProbesInv'
  BY <1>1, <1>3, <1>4, <1>9 DEF AccountsInv, ProbesInv
<1>11. QED
  BY <1>5, <1>7, <1>8, <1>10 DEF AccountsInv

LEMMA DetectEndsKeep ==
  ASSUME AccountsInv, NEW t \in Tasks, K!DetectApply(t) \/ K!DetectUnsaved(t) PROVE AccountsInv'
<1>1. /\ task[t].at = "apply" /\ cmd = None /\ K!Goes(t, K!Idle)
      /\ UNCHANGED <<rows, keys, cards, entries, cmd, cred, contested>>
  BY DEF K!DetectApply, K!DetectUnsaved, K!live, K!store
<1>2. outdated \subseteq outdated' \/ outdated' = Tasks
  BY DEF K!DetectApply, K!DetectUnsaved
<1>3. \A u \in Tasks : task[u].at \notin {"entry", "added", "removed"}
  BY <1>1, KeysAssumption DEF AccountsInv, CardsInv, CommandHeld, Commanding
<1>4. /\ entries = K!Cards /\ \A i \in K!Cards : i \in mem.layouts
      /\ \A i \in mem.layouts : i \in K!Cards \/ i \in K!Recorded \/ K!Leaving(i)
  BY <1>3, Settled DEF AccountsInv
<1>5. /\ mem' \in K!Layouts /\ disk' \in K!Layouts
      /\ \A i \in K!Cards : i \in mem'.layouts
      /\ \A i \in mem'.layouts : i \in K!Cards \/ i \in K!Recorded \/ K!Leaving(i)
  <2>1. mem \in K!Layouts /\ disk \in K!Layouts
    BY DEF AccountsInv, KeyTypes
  <2>2. CASE mem' = mem /\ disk' = disk
    BY <1>4, <2>1, <2>2
  <2>3. CASE mem' = K!Normalized(K!WithProbes(t)) /\ disk' \in {disk, mem'}
    <3>1. task[t].found \subseteq Ids
      BY <1>1, States DEF AccountsInv
    <3>2. K!WithProbes(t) \in K!Layouts
      BY <2>1, <3>1 DEF K!WithProbes, K!Layouts
    <3>3. QED
      BY <2>1, <2>3, <3>2, Normalizes DEF AccountsInv
  <2>4. QED
    BY <2>2, <2>3 DEF K!DetectApply, K!DetectUnsaved, K!live, K!store
<1>6. KeyTypes'
  BY <1>1, <1>5, Rests, TypesKeep DEF AccountsInv, KeyTypes
<1>7. /\ K!Recorded' = K!Recorded /\ K!Cards' = K!Cards
      /\ \A n, i : K!Row(n, i) # {} => K!Row(n, i)' # {}
  BY <1>1 DEF K!Recorded, K!Cards, K!Row
<1>8. KeysInv'
  BY <1>1, <1>7, Rests, KeysStay DEF AccountsInv
<1>9. ProbesInv'
  <2>1. task'[t] = K!Idle /\ \A u \in Tasks : u # t => task'[u] = task[u]
    BY <1>1, OneGoes DEF AccountsInv
  <2>2. QED
    BY <1>1, <1>2, <2>1, Rests DEF AccountsInv, ProbesInv
<1>10. /\ CommandHeld' /\ \A u \in Tasks : task'[u].at \notin {"entry", "added", "removed"}
       /\ \A i : K!Leaving(i) => K!Leaving(i)'
  BY <1>1, Rests, Releases DEF AccountsInv, Commanding
<1>11. CardsInv'
  BY <1>1, <1>4, <1>5, <1>7, <1>10, Settles
<1>12. QED
  BY <1>6, <1>8, <1>9, <1>11 DEF AccountsInv

\* A launch starts from what is saved.
LEMMA RelaunchKeeps ==
  ASSUME AccountsInv, NEW t \in Tasks, NEW first, K!Relaunch(t, first) PROVE AccountsInv'
<1> DEFINE registered == {i \in K!Recorded : first[i].named}
           named == [i \in registered |-> first[i]]
           s == [at |-> "probe", ids |-> registered, busy |-> FALSE]
<1>1. /\ first \in K!FirstRows /\ cards' = K!Launched(named) /\ entries' = registered
      /\ mem' = [layouts |-> (disk.layouts \cap K!Recorded) \cup registered,
                 detected |-> disk.detected \cap registered]
      /\ disk' = mem' /\ cmd' = None /\ cred' = None
      /\ task' = [u \in Tasks |-> IF u = t THEN s ELSE K!Idle]
      /\ UNCHANGED <<rows, keys, contested>>
  BY DEF K!Relaunch
<1>2. K!Recorded \subseteq Ids /\ \A i \in registered : first[i] \in rows /\ first[i].name \in Names
  BY <1>1 DEF AccountsInv, KeyTypes, K!Recorded, K!Rows, K!FirstRows
<1>3. registered \subseteq Ids /\ registered \subseteq K!Recorded
  BY <1>2
<1>4. s \in K!TaskStates /\ s.at = "probe" /\ s.busy = FALSE
  BY <1>3 DEF K!TaskStates
<1>5. \A i \in Ids : cards'[i] = IF i \in registered THEN first[i].name ELSE None
  BY <1>1 DEF K!Launched
<1>6. cards' \in [Ids -> Names \cup {None}]
  <2>1. cards' = [i \in Ids |-> IF i \in registered THEN named[i].name ELSE None]
    BY <1>1 DEF K!Launched
  <2>2. \A i \in registered : named[i].name \in Names
    BY <1>2
  <2> HIDE DEF named, registered
  <2>3. QED
    BY <2>1, <2>2
<1> HIDE DEF named, s, registered
<1>7. K!Cards' = registered
  BY <1>2, <1>3, <1>5, KeysAssumption DEF K!Cards
<1>8. /\ mem' \in K!Layouts /\ disk' \in K!Layouts
      /\ \A i \in registered : i \in mem'.layouts
      /\ \A i \in mem'.layouts : i \in K!Recorded
  BY <1>1, <1>3 DEF AccountsInv, KeyTypes, K!Layouts
<1>9. K!Recorded' = K!Recorded
  BY <1>1 DEF K!Recorded
<1>10. \A u \in Tasks : task'[u] = IF u = t THEN s ELSE K!Idle
  BY <1>1
<1>11. \A u \in Tasks : task'[u].at \in {"probe", "idle"}
  BY <1>4, <1>10, Rests
<1>12. KeyTypes'
  <2>1. task' \in [Tasks -> K!TaskStates]
    BY <1>1, <1>4, Rests
  <2>2. QED
    BY <1>1, <1>6, <1>8, <2>1 DEF AccountsInv, KeyTypes
<1>13. CommandHeld' /\ \A u \in Tasks : task'[u].at \notin {"entry", "added", "removed"}
  BY <1>1, <1>11, KeysAssumption DEF CommandHeld, Commanding
<1>14. CardsInv'
  BY <1>1, <1>7, <1>8, <1>9, <1>13, Settles
<1>15. KeysInv'
  BY <1>1, <1>11 DEF AccountsInv, KeysInv, K!KeysAreOwned, K!Row
<1>16. ProbesInv'
  BY <1>1, <1>11 DEF ProbesInv
<1>17. QED
  BY <1>12, <1>14, <1>15, <1>16 DEF AccountsInv

-----------------------------------------------------------------------------
LEMMA AccountsInitially == ASSUME K!Init PROVE AccountsInv
<1>1. /\ rows = {} /\ keys = [i \in Ids |-> None] /\ cards = [i \in Ids |-> None]
      /\ disk = [layouts |-> {}, detected |-> {}] /\ mem = disk /\ entries = {}
      /\ cmd = None /\ cred = None /\ task = [t \in Tasks |-> K!Idle]
  BY DEF K!Init
<1>2. \A t \in Tasks : task[t].at = "idle"
  BY <1>1, Rests
<1>3. disk \in K!Layouts /\ mem \in K!Layouts /\ mem.layouts = {}
  BY <1>1 DEF K!Layouts
<1>4. KeyTypes
  BY <1>1, <1>3, Rests DEF KeyTypes
<1>5. CommandHeld
  BY <1>1, <1>2, KeysAssumption DEF CommandHeld, Commanding
<1>6. K!Cards = {}
  BY <1>1 DEF K!Cards
<1>7. CardsInv
  BY <1>1, <1>2, <1>3, <1>5, <1>6 DEF CardsInv, EntriesFit, LayoutsFit
<1>8. KeysInv /\ ProbesInv
  BY <1>1, <1>2 DEF KeysInv, ProbesInv, K!KeysAreOwned
<1>9. QED
  BY <1>4, <1>7, <1>8 DEF AccountsInv

LEMMA AccountsStep ==
  ASSUME AccountsInv, NEW t \in Tasks,
         \/ K!Add(t) \/ K!Remove(t) \/ K!ChangeKey(t) \/ K!Reset(t) \/ K!Detect(t)
         \/ \E first \in K!FirstRows : K!Relaunch(t, first)
  PROVE  AccountsInv'
<1>1. CASE K!Add(t)
  BY <1>1, AllocatesKeep, AddCardKeeps, AddEntryKeeps, ReconcilesKeep, AddFailsKeeps DEF K!Add
<1>2. CASE K!Remove(t)
  BY <1>2, RemoveFindKeeps, RemoveFailsKeeps, RemoveKeyKeeps, RemoveRowKeeps, RemoveCardKeeps,
     ReconcilesKeep, RemoveUnsavedKeeps DEF K!Remove
<1>3. CASE K!ChangeKey(t)
  BY <1>3, KeyAskKeeps, KeyBeginKeeps, KeyWriteKeeps, KeyEndsKeep DEF K!ChangeKey
<1>4. CASE K!Reset(t)
  BY <1>4, ResetCustomizationKeeps, ResetLoadKeeps, ResetSaveKeeps, ResetFailsKeeps DEF K!Reset
<1>5. CASE K!Detect(t)
  BY <1>5, DetectProbeKeeps, DetectEndsKeep DEF K!Detect
<1>6. CASE \E first \in K!FirstRows : K!Relaunch(t, first)
  BY <1>6, RelaunchKeeps
<1>7. QED
  BY <1>1, <1>2, <1>3, <1>4, <1>5, <1>6

LEMMA AccountsUnmoved == ASSUME AccountsInv, UNCHANGED keyVars PROVE AccountsInv'
<1>1. UNCHANGED <<rows, keys, disk, cards, entries, mem, cmd, cred, outdated, task, contested>>
  BY DEF keyVars
<1>2. KeyTypes'
  BY <1>1 DEF AccountsInv, KeyTypes
<1>3. /\ K!Cards' = K!Cards /\ K!Recorded' = K!Recorded
      /\ \A n, i : K!Row(n, i)' = K!Row(n, i)
      /\ \A i : K!Leaving(i)' <=> K!Leaving(i)
  BY <1>1 DEF K!Cards, K!Recorded, K!Row, K!Leaving
<1>4. CardsInv'
  BY <1>1, <1>3 DEF AccountsInv, CardsInv, CommandHeld, EntriesFit, LayoutsFit
<1>5. K!KeysAreOwned'
  BY <1>1, <1>3 DEF AccountsInv, KeysInv, K!KeysAreOwned
<1>6. KeysInv' /\ ProbesInv'
  BY <1>1, <1>5 DEF AccountsInv, KeysInv, ProbesInv
<1>7. QED
  BY <1>2, <1>4, <1>6 DEF AccountsInv

LEMMA AccountsInvariant == MCSpec => []AccountsInv
<1>1. MCInit => AccountsInv
  BY AccountsInitially DEF MCInit
<1>2. AccountsInv /\ [MCNext]_<<part, vars, claudeVars, keyVars>> => AccountsInv'
  BY AccountsStep, AccountsUnmoved DEF MCNext, Claude, Codex, Keys
<1>3. QED
  BY <1>1, <1>2, PTL DEF MCSpec

\* While no command holds the lock, the registry, the refresh service and the settings agree on
\* the accounts, for any names, ids, number of commands at a time, failures and launches
\* (add_api_key_account and its rollback, remove_api_key_account, reconcile_registry_change).
THEOREM CardsAndSettingsAgree == MCSpec => []CardsAgree
<1>1. AccountsInv => CardsAgree
  <2> SUFFICES ASSUME AccountsInv, cmd = None
               PROVE  /\ entries = K!Cards /\ K!Cards \subseteq mem.layouts
                      /\ mem.layouts \subseteq K!Cards \cup K!Recorded \cup {i \in Ids : K!Leaving(i)}
    BY DEF CardsAgree, K!CardsAgree
  <2>1. \A t \in Tasks : task[t].at \notin {"entry", "added", "removed"}
    BY KeysAssumption DEF AccountsInv, CardsInv, CommandHeld, Commanding
  <2>2. /\ entries = K!Cards /\ \A i \in K!Cards : i \in mem.layouts
        /\ \A i \in mem.layouts : i \in K!Cards \/ i \in K!Recorded \/ K!Leaving(i)
    BY <2>1, Settled DEF AccountsInv
  <2>3. mem.layouts \subseteq Ids
    BY DEF AccountsInv, KeyTypes, K!Layouts
  <2>4. QED
    BY <2>2, <2>3
<1>2. QED
  BY AccountsInvariant, <1>1, PTL

\* A saved key belongs to the account that is recorded for its id, whatever fails or is
\* interrupted, unless it was saved while the account was being removed or had lost its record
\* (remove_api_key_account, save_provider_api_key).
THEOREM SavedKeysAreOwned == MCSpec => []KeysAreOwned
<1>1. AccountsInv => KeysAreOwned
  BY DEF AccountsInv, KeysInv, KeysAreOwned
<1>2. QED
  BY AccountsInvariant, <1>1, PTL

\* A probe that is out of date never marks a card keyless whose key is saved, for any number of
\* commands and detections at a time (credential_revision, apply_credential_detection).
THEOREM StaleProbesAreDiscarded == MCSpec => StaleProbeDiscarded
<1> DEFINE Discards ==
             \A t \in Tasks : K!DetectApply(t) /\ ~task[t].busy =>
               \A i \in mem.detected \ mem'.detected : keys[i] = None \/ i \notin K!Cards
<1>1. AccountsInv => Discards
  <2> SUFFICES ASSUME AccountsInv, NEW t \in Tasks, K!DetectApply(t), ~task[t].busy,
                      NEW i \in mem.detected, i \notin mem'.detected, i \in K!Cards
               PROVE  keys[i] = None
    OBVIOUS
  <2>1. task[t].at = "apply" /\ mem'.detected = K!WithProbes(t).detected \cap K!Cards
    BY DEF K!DetectApply, K!Normalized
  <2>2. i \notin K!WithProbes(t).detected
    BY <2>1
  <2>3. t \notin outdated
    BY <2>2 DEF K!WithProbes
  <2>4. K!WithProbes(t).detected = (mem.detected \cup task[t].found) \ task[t].absent
    BY <2>3 DEF K!WithProbes, AccountsInv, KeyTypes, K!Layouts
  <2>5. i \in task[t].absent
    BY <2>2, <2>4
  <2>6. QED
    BY <2>1, <2>3, <2>5 DEF AccountsInv, ProbesInv
<1>2. AccountsInv => [Discards]_(K!vars)
  BY <1>1
<1>3. MCSpec => [][Discards]_(K!vars)
  BY AccountsInvariant, <1>2, PTL DEF MCSpec
<1>4. QED
  BY <1>3 DEF StaleProbeDiscarded, K!StaleProbeDiscarded
=============================================================================
