------------------------------ MODULE LiveProofs ------------------------------
(***************************************************************************)
(* Proofs about the components of MCLive: the cadence of the refresh loop  *)
(* and the age of the figures, for every interval, backoff and longest     *)
(* batch; and the version an update installs, for any number of releases.  *)
(***************************************************************************)
EXTENDS MCLive, TLAPS

Inv == TypeOK /\ Anchored /\ CadenceKept /\ YoungSince

\* The bounds the arithmetic below needs.
LEMMA Bounds ==
  /\ RefreshInterval \in Nat /\ RefreshInterval > 0
  /\ RetryBackoff \in Nat /\ MaxBatch \in Nat
  /\ Horizon \in Nat
  /\ 2 * RefreshInterval = RefreshInterval + RefreshInterval
BY IntervalAssumption, BackoffAssumption, BatchAssumption DEF Horizon

\* The initial state: the loop is at its head and no figures are calm.
LEMMA LoopInit == Init => Inv
<1> SUFFICES ASSUME Init PROVE Inv
  OBVIOUS
<1>1. TypeOK
  <2>1. slept \in BOOLEAN /\ calm \in BOOLEAN BY Zenon DEF Init
  <2> QED BY Bounds, <2>1 DEF Init, TypeOK
<1>2. Anchored /\ CadenceKept BY Bounds DEF Init, Anchored, CadenceKept, Gap
<1>3. ~calm BY DEF Init
<1> QED BY <1>1, <1>2, <1>3 DEF Inv, YoungSince

\* Every step keeps the ranges and the two strengthenings.
LEMMA LoopStep == Inv /\ [Next]_vars => Inv'
<1> SUFFICES ASSUME TypeOK, Anchored, CadenceKept, YoungSince, [Next]_vars PROVE Inv'
  BY DEF Inv
<1> USE Bounds
<1>0. /\ liveAge \in Nat /\ failAge \in Nat /\ shown \in Nat /\ spent \in Nat /\ left \in Int
      /\ since.gap \in Nat /\ since.batch \in Nat
      /\ since = [gap |-> since.gap, batch |-> since.batch]
      /\ pc \in {"head", "fetch", "batch", "sleep"}
  BY DEF TypeOK
<1>1. CASE StartBatch
  <2>1. TypeOK' BY <1>1 DEF TypeOK, StartBatch, marks
  <2>2. Anchored' /\ CadenceKept' BY <1>0, <1>1 DEF Anchored, CadenceKept, StartBatch
  <2>3. YoungSince' BY <1>0, <1>1 DEF YoungSince, StartBatch, Fetches, marks
  <2> QED BY <2>1, <2>2, <2>3 DEF Inv
<1>2. CASE FetchSucceeds
  <2>1. TypeOK' BY <1>2 DEF TypeOK, FetchSucceeds, Live
  <2>2. Anchored' /\ CadenceKept' BY <1>2 DEF Anchored, CadenceKept, FetchSucceeds
  <2>3. YoungSince' BY <1>0, <1>2 DEF YoungSince, FetchSucceeds, Live
  <2> QED BY <2>1, <2>2, <2>3 DEF Inv
<1>3. CASE FetchFails
  <2>0. calm' \in BOOLEAN BY <1>3, Zenon DEF FetchFails
  <2>1. TypeOK' BY <1>3, <2>0 DEF TypeOK, FetchFails
  <2>2. Anchored' /\ CadenceKept' BY <1>3 DEF Anchored, CadenceKept, FetchFails
  <2>3. ~calm' BY <1>3 DEF FetchFails
  <2> QED BY <2>1, <2>2, <2>3 DEF Inv, YoungSince
<1>4. CASE PlanWait
  <2>0. slept' \in BOOLEAN BY <1>4, Zenon DEF PlanWait
  <2>1. TypeOK' BY <1>4, <2>0 DEF TypeOK, PlanWait, marks
  <2>2. since'.gap = since.gap /\ since'.batch = spent BY <1>0, <1>4 DEF PlanWait
  <2>3. Anchored' /\ CadenceKept' BY <1>0, <1>4, <2>2 DEF Anchored, CadenceKept, PlanWait, Gap
  <2>4. YoungSince' BY <1>0, <1>4, <2>2 DEF YoungSince, PlanWait, marks
  <2> QED BY <2>1, <2>3, <2>4 DEF Inv
<1>5. CASE WaitEnds
  <2>1. TypeOK' BY <1>5 DEF TypeOK, WaitEnds, marks
  <2>2. Anchored' /\ CadenceKept' BY <1>0, <1>5 DEF Anchored, CadenceKept, WaitEnds, Gap
  <2>3. since.gap <= RefreshInterval + MaxBatch
    BY <1>0, <1>5 DEF TypeOK, Anchored, WaitEnds, Gap
  <2>4. YoungSince' BY <1>0, <1>5, <2>3 DEF YoungSince, WaitEnds, marks
  <2> QED BY <2>1, <2>2, <2>4 DEF Inv
<1>6. CASE Tick
  <2>1. since'.gap = since.gap + 1 /\ since'.batch = since.batch BY <1>0, <1>6 DEF Tick
  <2>2. TypeOK' BY <1>0, <1>6 DEF TypeOK, Tick, Older, BackoffAge
  <2>3. Anchored' /\ CadenceKept' BY <1>0, <1>6, <2>1 DEF Anchored, CadenceKept, Tick, Gap
  <2>4. YoungSince'
    BY <1>0, <1>6, <2>1 DEF TypeOK, YoungSince, Tick, Older, BackoffAge, Horizon
  <2> QED BY <2>2, <2>3, <2>4 DEF Inv
<1>7. CASE Suspend
  BY <1>7 DEF Inv, TypeOK, Anchored, CadenceKept, YoungSince, Suspend, marks
<1>8. CASE RefreshElsewhere
  <2>1. TypeOK' BY <1>8 DEF TypeOK, RefreshElsewhere, Live
  <2>2. Anchored' /\ CadenceKept' BY <1>8 DEF Anchored, CadenceKept, RefreshElsewhere
  <2>3. YoungSince' BY <1>0, <1>8 DEF YoungSince, RefreshElsewhere, Live
  <2> QED BY <2>1, <2>2, <2>3 DEF Inv
<1>9. CASE Toggle
  <2>0. calm' \in BOOLEAN BY <1>9, Zenon DEF Toggle
  <2>1. TypeOK' BY <1>9, <2>0 DEF TypeOK, Toggle, marks
  <2>2. Anchored' /\ CadenceKept' BY <1>9 DEF Anchored, CadenceKept, Toggle
  <2>3. ~calm' BY <1>9 DEF Toggle
  <2> QED BY <2>1, <2>2, <2>3 DEF Inv, YoungSince
<1>11. CASE RefreshFailsElsewhere
  <2>0. calm' \in BOOLEAN BY <1>11, Zenon DEF RefreshFailsElsewhere
  <2>1. TypeOK' BY <1>11, <2>0 DEF TypeOK, RefreshFailsElsewhere
  <2>2. Anchored' /\ CadenceKept' BY <1>11 DEF Anchored, CadenceKept, RefreshFailsElsewhere
  <2>3. ~calm' BY <1>11 DEF RefreshFailsElsewhere
  <2> QED BY <2>1, <2>2, <2>3 DEF Inv, YoungSince
<1>10. CASE UNCHANGED vars
  BY <1>10 DEF Inv, TypeOK, Anchored, CadenceKept, YoungSince, vars
<1> QED
  BY <1>1, <1>2, <1>3, <1>4, <1>5, <1>6, <1>7, <1>8, <1>9, <1>10, <1>11 DEF Next, Loop

\* The loop's state keeps its ranges, whatever the interval.
THEOREM LoopTypeCorrect == Spec => []TypeOK
<1>1. Inv => TypeOK BY DEF Inv
<1> QED BY <1>1, LoopInit, LoopStep, PTL DEF Spec

\* Passes are an interval apart, plus the duration of a batch that overran it:
\* the deadline is anchored and does not drift.
THEOREM CadenceHolds == Spec => []CadenceKept
<1>1. Inv => CadenceKept BY DEF Inv
<1> QED BY <1>1, LoopInit, LoopStep, PTL DEF Spec

\* An enabled provider whose fetches succeed is passed over by at most one batch
\* in a row: its figures are never older than two intervals and two batches.
THEOREM FiguresStayYoung == Spec => []FiguresKeptYoung
<1>1. Inv => FiguresKeptYoung
  BY Bounds DEF Inv, TypeOK, Anchored, YoungSince, FiguresKeptYoung, Gap
<1> QED BY <1>1, LoopInit, LoopStep, PTL DEF Spec

-----------------------------------------------------------------------------
(* Updates: the banner and the coordinator agree on one version. *)

\* What the banner shows is what the coordinator would install, unless an install has failed.
Agreed == ui.status # 0 => ui.status = pending \/ failed
\* At rest no answer is on its way, and the web view of before a reload is owed none.
AtRest ==
  ui.doing = "nothing" =>
    /\ answer = U!NoAnswer /\ Agreed
    /\ op.pc # "free" => ~op.heard /\ ui.status = 0
\* A check the controller waits for runs, or its answer is on its way.
AwaitsCheck ==
  ui.doing = "check" =>
    \/ op.pc = "check" /\ op.heard /\ answer = U!NoAnswer /\ Agreed
    \/ /\ op.pc = "free" /\ answer.of = "check"
       /\ answer.ok => answer.found = pending
       /\ ~answer.ok => Agreed
\* So with an install, whose answer is a failure: a success restarts the program.
AwaitsInstall ==
  ui.doing = "install" =>
    \/ op.pc \notin {"free", "check"} /\ op.heard /\ answer = U!NoAnswer
    \/ op.pc = "free" /\ answer.of = "install" /\ ~answer.ok /\ failed
\* What the coordinator works on was offered, but for a retry after a failure.
WorksOnOffer ==
  /\ op.pc = "free" => op = U!Free
  /\ op.pc = "requery" => failed
  /\ op.pc \in {"download", "pause", "again"} => op.update = offered \/ failed
\* What a check or an install answers.
Answers == [of : {"nothing", "check", "install"}, found : U!Versions, ok : BOOLEAN]
UInv == U!TypeOK /\ AtRest /\ AwaitsCheck /\ AwaitsInstall /\ WorksOnOffer

LEMMA UpdatesInit == U!Init => UInv
<1> SUFFICES ASSUME U!Init PROVE UInv
  OBVIOUS
<1>1. 0 \in U!Versions /\ 1 \in U!Versions BY VersionAssumption DEF U!Versions
<1>2. U!TypeOK BY <1>1 DEF U!Init, U!TypeOK, U!Free, U!Fresh, U!NoAnswer
<1>3. op = U!Free /\ ui = U!Fresh /\ answer = U!NoAnswer BY DEF U!Init
<1>4. AtRest /\ AwaitsCheck /\ AwaitsInstall /\ WorksOnOffer
  BY <1>3 DEF AtRest, AwaitsCheck, AwaitsInstall, WorksOnOffer, Agreed, U!Free, U!Fresh
<1> QED BY <1>2, <1>4 DEF UInv

LEMMA UpdatesStep == UInv /\ [U!Next]_updateVars => UInv'
<1> SUFFICES ASSUME UInv, [U!Next]_updateVars PROVE UInv'
  OBVIOUS
<1> USE DEF UInv
<1>a. ui = [doing |-> ui.doing, status |-> ui.status] /\ ui.status \in U!Versions
  BY DEF U!TypeOK
<1>b. /\ op = [pc |-> op.pc, update |-> op.update, heard |-> op.heard] /\ op.update \in U!Versions
      /\ op.pc \in {"free", "check", "requery", "download", "pause", "again"}
  BY DEF U!TypeOK
<1>c. answer.found \in U!Versions /\ U!NoAnswer.of = "nothing" /\ 0 \in U!Versions
  BY VersionAssumption DEF U!TypeOK, U!NoAnswer, U!Versions
<1>1. CASE U!Check
  <2>1. /\ op' = [pc |-> "check", update |-> 0, heard |-> TRUE]
        /\ ui' = [doing |-> "check", status |-> ui.status] /\ ui.doing = "nothing"
        /\ UNCHANGED <<released, version, pending, answer, dismissed, offered, failed>>
    BY <1>1, <1>a DEF U!Check, U!Free
  <2>2. U!TypeOK' BY <2>1, <1>a, <1>c DEF U!TypeOK
  <2>3. AwaitsCheck' BY <2>1 DEF AtRest, AwaitsCheck, Agreed
  <2> QED BY <2>1, <2>2, <2>3 DEF AtRest, AwaitsInstall, WorksOnOffer
<1>2. CASE U!Dismiss
  BY <1>2, <1>a
  DEF U!Dismiss, U!TypeOK, AtRest, AwaitsCheck, AwaitsInstall, WorksOnOffer, Agreed
<1>3. CASE U!Install
  <2>1. /\ op' = [pc |-> IF pending = 0 THEN "requery" ELSE "download", update |-> pending,
                  heard |-> TRUE]
        /\ ui' = [doing |-> "install", status |-> ui.status]
        /\ offered' = ui.status /\ pending' = 0 /\ ui.doing = "nothing" /\ ui.status # 0
        /\ UNCHANGED <<released, version, answer, dismissed, failed>>
    BY <1>3, <1>a DEF U!Install, U!Begins, U!Offers
  <2>2. U!TypeOK' BY <2>1, <1>a, <1>c DEF U!TypeOK
  <2>3. pending = 0 => failed BY <2>1 DEF AtRest, Agreed
  <2>4. pending # 0 => pending = offered' \/ failed BY <2>1 DEF AtRest, Agreed
  <2>5. AwaitsInstall' BY <2>1 DEF AtRest, AwaitsInstall
  <2>6. WorksOnOffer' BY <2>1, <2>3, <2>4 DEF WorksOnOffer
  <2> QED BY <2>1, <2>2, <2>5, <2>6 DEF AtRest, AwaitsCheck
<1>4. CASE U!AnswerArrives
  <2>1. /\ ui' = [doing |-> IF answer.of = ui.doing THEN "nothing" ELSE ui.doing,
                  status |-> IF answer.ok THEN answer.found ELSE ui.status]
        /\ answer.of # "nothing" /\ answer' = U!NoAnswer
        /\ UNCHANGED <<released, version, pending, op, dismissed, offered, failed>>
    BY <1>4 DEF U!AnswerArrives
  <2>2. U!TypeOK' BY <2>1, <1>a, <1>c DEF U!TypeOK, U!NoAnswer
  <2>3. ui.doing = "check" => op.pc = "free" /\ answer.of = "check" /\ Agreed'
    BY <2>1, <1>c DEF AwaitsCheck, Agreed
  <2>4. ui.doing = "install" => op.pc = "free" /\ answer.of = "install" /\ Agreed'
    BY <2>1, <1>c DEF AwaitsInstall, Agreed
  <2>5. ui.doing # "nothing" BY <2>1, <1>c DEF AtRest
  <2>6. ui'.doing = "nothing" /\ op.pc = "free" /\ Agreed' /\ op' = op
    BY <2>1, <2>3, <2>4, <2>5 DEF U!TypeOK
  <2> QED BY <2>1, <2>2, <2>6 DEF AtRest, AwaitsCheck, AwaitsInstall, WorksOnOffer
<1>5. CASE U!Reload
  <2>1. /\ op' = [pc |-> op.pc, update |-> op.update, heard |-> FALSE]
        /\ ui' = U!Fresh /\ answer' = U!NoAnswer
        /\ UNCHANGED <<released, version, pending, dismissed, offered, failed>>
    BY <1>5, <1>b DEF U!Reload
  <2>2. U!TypeOK' BY <2>1, <1>b, <1>c DEF U!TypeOK, U!Fresh, U!NoAnswer
  <2>3. WorksOnOffer'
    <3>1. CASE op = U!Free BY <3>1, <2>1 DEF WorksOnOffer, U!Free
    <3>2. CASE op # U!Free BY <3>2, <2>1 DEF WorksOnOffer
    <3> QED BY <3>1, <3>2
  <2> QED BY <2>1, <2>2, <2>3 DEF U!Fresh, AtRest, AwaitsCheck, AwaitsInstall, Agreed
<1>6. ASSUME NEW new \in U!Versions, U!Relaunched(new) PROVE UInv'
  <2>1. /\ op' = U!Free /\ ui' = U!Fresh /\ answer' = U!NoAnswer /\ version' = new
        /\ pending' = 0 /\ failed' = FALSE /\ UNCHANGED <<released, dismissed, offered>>
    BY <1>6 DEF U!Relaunched
  <2>2. U!TypeOK' BY <2>1, <1>6, <1>c DEF U!TypeOK, U!Free, U!Fresh, U!NoAnswer
  <2> QED
    BY <2>1, <2>2
    DEF U!Free, U!Fresh, AtRest, AwaitsCheck, AwaitsInstall, WorksOnOffer, Agreed
<1>7. CASE U!CheckAnswered
  <2>1. /\ op' = U!Free /\ pending' = U!Found /\ failed' = FALSE /\ op.pc = "check"
        /\ op.heard => answer' = [of |-> "check", found |-> U!Found, ok |-> TRUE]
        /\ ~op.heard => answer' = answer
        /\ UNCHANGED <<released, version, ui, dismissed, offered>>
    BY <1>7 DEF U!CheckAnswered, U!Ends
  <2>2. U!Found \in U!Versions BY <1>c DEF U!Found, U!TypeOK
  <2>3. U!TypeOK'
    <3>1. [of |-> "check", found |-> U!Found, ok |-> TRUE] \in Answers BY <2>2 DEF Answers
    <3>2. answer' \in Answers BY <2>1, <3>1 DEF U!TypeOK, Answers
    <3> QED BY <2>1, <2>2, <3>2, <1>c DEF U!TypeOK, U!Free, Answers
  <2>4. AtRest' BY <2>1 DEF AtRest, Agreed, U!Free
  <2>5. AwaitsCheck' BY <2>1 DEF AwaitsCheck, U!Free
  <2>6. ui.doing # "install" BY <2>1, <1>c DEF AwaitsInstall
  <2> QED BY <2>1, <2>3, <2>4, <2>5, <2>6 DEF AwaitsInstall, WorksOnOffer, U!Free
<1>8. CASE U!CheckFails
  <2>1. /\ op' = U!Free /\ op.pc = "check"
        /\ op.heard => answer' = [of |-> "check", found |-> 0, ok |-> FALSE]
        /\ ~op.heard => answer' = answer
        /\ UNCHANGED <<released, version, pending, ui, dismissed, offered, failed>>
    BY <1>8 DEF U!CheckFails, U!Ends
  <2>3. U!TypeOK'
    <3>1. [of |-> "check", found |-> 0, ok |-> FALSE] \in Answers BY <1>c DEF Answers
    <3>2. answer' \in Answers BY <2>1, <3>1 DEF U!TypeOK, Answers
    <3> QED BY <2>1, <3>2, <1>c DEF U!TypeOK, U!Free, Answers
  <2>4. AtRest' BY <2>1 DEF AtRest, Agreed, U!Free
  <2>5. AwaitsCheck' BY <2>1 DEF AwaitsCheck, U!Free, Agreed
  <2>6. ui.doing # "install" BY <2>1, <1>c DEF AwaitsInstall
  <2> QED BY <2>1, <2>3, <2>4, <2>5, <2>6 DEF AwaitsInstall, WorksOnOffer, U!Free
<1>9. CASE U!Requeried
  BY <1>9
  DEF U!Requeried, U!Found, U!TypeOK, AtRest, AwaitsCheck, AwaitsInstall, WorksOnOffer, Agreed
<1>10. CASE U!InstallFails /\ op.pc # "free" /\ op.pc # "check"
  <2>1. /\ op' = U!Free /\ failed' = TRUE
        /\ op.heard => answer' = [of |-> "install", found |-> 0, ok |-> FALSE]
        /\ ~op.heard => answer' = answer
        /\ UNCHANGED <<released, version, pending, ui, dismissed, offered>>
    BY <1>10 DEF U!InstallFails, U!Ends
  <2>3. U!TypeOK'
    <3>1. [of |-> "install", found |-> 0, ok |-> FALSE] \in Answers BY <1>c DEF Answers
    <3>2. answer' \in Answers BY <2>1, <3>1 DEF U!TypeOK, Answers
    <3> QED BY <2>1, <3>2, <1>c DEF U!TypeOK, U!Free, Answers
  <2>4. AtRest' BY <2>1, <1>10 DEF AtRest, Agreed, U!Free
  <2>5. AwaitsInstall' BY <2>1, <1>10 DEF AwaitsInstall, U!Free
  <2>6. ui.doing # "check" BY <2>1, <1>10 DEF AwaitsCheck
  <2> QED BY <2>1, <2>3, <2>4, <2>5, <2>6 DEF AwaitsCheck, WorksOnOffer, U!Free
<1>11. CASE U!DownloadRetries
  BY <1>11
  DEF U!DownloadRetries, U!TypeOK, U!Free, AtRest, AwaitsCheck, AwaitsInstall, WorksOnOffer,
      Agreed
<1>12. CASE U!PauseEnds
  BY <1>12
  DEF U!PauseEnds, U!TypeOK, U!Free, AtRest, AwaitsCheck, AwaitsInstall, WorksOnOffer, Agreed
<1>13. CASE U!Releases
  BY <1>13, VersionAssumption
  DEF U!Releases, U!Versions, U!TypeOK, U!Free, AtRest, AwaitsCheck, AwaitsInstall, WorksOnOffer,
      Agreed
<1>14. CASE UNCHANGED updateVars
  BY <1>14 DEF updateVars, U!TypeOK, AtRest, AwaitsCheck, AwaitsInstall, WorksOnOffer, Agreed
<1> QED
  BY <1>1, <1>2, <1>3, <1>4, <1>5, <1>6, <1>7, <1>8, <1>9, <1>10, <1>11, <1>12, <1>13, <1>14
  DEF U!Next, U!User, U!Server, U!Installing, U!Relaunch, U!Downloaded, U!DownloadFails,
      U!RequeryFails, U!TypeOK

\* A new version runs only when the download of one that was offered ends.
LEMMA UpdatesInstall ==
  UInv /\ [U!Next]_updateVars => (version' # version => version' = offered \/ failed)
<1> SUFFICES ASSUME UInv, [U!Next]_updateVars, version' # version
             PROVE version' = offered \/ failed
  OBVIOUS
<1>1. U!Downloaded
  BY DEF updateVars, U!Next, U!User, U!Server, U!Installing, U!Check, U!Dismiss, U!Install,
     U!Begins, U!Reload, U!Relaunch, U!Relaunched, U!Releases, U!CheckAnswered, U!CheckFails,
     U!Requeried, U!RequeryFails, U!InstallFails, U!DownloadRetries, U!DownloadFails,
     U!PauseEnds, U!AnswerArrives
<1> QED BY <1>1 DEF UInv, WorksOnOffer, U!Downloaded, U!Relaunched

\* The program only becomes a version that the banner offered when the user asked to install,
\* unless an install has failed since the last answered check: for every number of releases.
THEOREM OfferedHolds == MCSpec => OfferedIsInstalled
<1>1. MCInit => UInv BY UpdatesInit DEF MCInit
<1>2. [MCNext]_all => [U!Next]_updateVars
  BY DEF MCNext, all, Looping, Serving, Updating, U!Next
<1>3. UInv /\ [MCNext]_all => UInv' BY <1>2, UpdatesStep
<1>4. UInv /\ [MCNext]_all => [version' # version => version' = offered \/ failed]_U!vars
  BY <1>2, UpdatesInstall
<1> QED BY <1>1, <1>3, <1>4, PTL DEF MCSpec, OfferedIsInstalled, U!OfferedIsInstalled
=============================================================================
