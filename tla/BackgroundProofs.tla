--------------------------- MODULE BackgroundProofs ---------------------------
(* Proofs about what the application does without being asked. The kickstart: the  *)
(* timer entry, the single prompt and the circuit breaker, for any number of       *)
(* overlapping tasks. The launch: the keys, the schema, and that it implements the *)
(* atomic adoption of DataAdoption, for any accounts, files and earlier schemas.   *)
EXTENDS MCBackground, TLAPS


\* The kicks and what may lead to one.
KickPC == {"attempt", "charge", "prompting"}
Kicks == OnePrompt /\ ChargeIsCovered /\ BreakerHolds
Inv == TypeOK /\ ArmedTimerIsLive /\ Kicks

-----------------------------------------------------------------------------
\* The constant records the steps assign.
LEMMA Records ==
  /\ Stale \in Seen
  /\ Free \in TaskState
  /\ Free.pc = "free" /\ Free.aborted = FALSE
  /\ \A pc \in TaskPC : [Free EXCEPT !.pc = pc] \in TaskState
BY DEF Stale, Seen, Free, TaskState, TaskPC, Settings, Evaluating

\* Dropping the timer's entry frees a sleeping timer and flags one that is polled.
LEMMA Dropping ==
  ASSUME TypeOK
  PROVE  /\ TimerDropped \in [Tasks -> TaskState]
         /\ \A u \in Tasks : \/ TimerDropped[u] = task[u]
                             \/ TimerDropped[u] = Free
                             \/ TimerDropped[u].pc = task[u].pc
<1>1. CASE armed = NoTimer
  BY <1>1 DEF TypeOK, TimerDropped
<1>2. CASE armed # NoTimer
  <2>1. armed \in Tasks /\ task[armed] \in TaskState BY <1>2 DEF TypeOK
  <2>2. [task[armed] EXCEPT !.aborted = TRUE] \in TaskState BY <2>1 DEF TaskState
  <2>3. [task[armed] EXCEPT !.aborted = TRUE].pc = task[armed].pc BY <2>1 DEF TaskState
  <2>4. CASE task[armed].pc = "asleep"
    <3>1. TimerDropped = [task EXCEPT ![armed] = Free]
      BY <1>2, <2>4 DEF TimerDropped, AfterAbort
    <3> QED BY <2>1, <3>1, Records DEF TypeOK
  <2>5. CASE task[armed].pc # "asleep"
    <3>1. TimerDropped = [task EXCEPT ![armed] = [task[armed] EXCEPT !.aborted = TRUE]]
      BY <1>2, <2>1, <2>5 DEF TimerDropped, AfterAbort, TypeOK, TaskState
    <3> QED BY <2>1, <2>2, <2>3, <3>1 DEF TypeOK
  <2> QED BY <2>4, <2>5
<1> QED BY <1>1, <1>2

\* A step that lets nobody newly pass the breaker and charges nothing keeps what
\* is known about the kicks.
LEMMA QuietStep ==
  ASSUME TypeOK, Kicks,
         \A u \in Tasks : task'[u].pc \in KickPC => task'[u].pc = task[u].pc,
         cooling' = cooling, failures' \in Nat, failures' <= failures
  PROVE  Kicks'
BY LimitAssumption DEF TypeOK, Kicks, KickPC, OnePrompt, Kicking, ChargeIsCovered, BreakerHolds, At

\* The step of one task that moves it to a state that kicks nothing.
LEMMA TaskMoves ==
  ASSUME TypeOK, NEW t \in Tasks, NEW state \in TaskState, task' = [task EXCEPT ![t] = state]
  PROVE  /\ task' \in [Tasks -> TaskState]
         /\ \A u \in Tasks : task'[u] = IF u = t THEN state ELSE task[u]
BY DEF TypeOK

\* A step of task t that changes nothing but t, which neither kicks afterwards nor
\* was a timer with an entry, unless it is the timer that wakes up.
LEMMA LocalStep ==
  ASSUME Inv, NEW t \in Tasks, NEW state \in TaskState, task' = [task EXCEPT ![t] = state],
         UNCHANGED <<world, bookkeeping>>, state.pc \notin KickPC,
         \/ task[t].pc \notin {"asleep", "woken"}
         \/ state.pc \in {"asleep", "woken"} /\ state.aborted = task[t].aborted
  PROVE  Inv'
<1>1. TypeOK' BY TaskMoves DEF Inv, TypeOK, world, bookkeeping
<1>2. \A u \in Tasks : task'[u] = IF u = t THEN state ELSE task[u] BY TaskMoves DEF Inv
<1>3. Kicks' BY <1>2, QuietStep DEF Inv, TypeOK, bookkeeping
<1>4. ArmedTimerIsLive' BY <1>2 DEF Inv, TypeOK, ArmedTimerIsLive, bookkeeping
<1> QED BY <1>1, <1>3, <1>4 DEF Inv

\* `evaluate` takes a task through states that are no timer's.
LEMMA EvaluatePCs == Evaluating \cap {"asleep", "woken", "free"} = {} /\ Evaluating \subseteq TaskPC
BY DEF Evaluating, TaskPC

\* The steps that move one task and nothing else.
LEMMA LocalActions ==
  ASSUME Inv, NEW t \in Tasks,
         \/ Batch(t) \/ RefreshEnds(t) \/ Dropped(t) \/ ReadSettings(t) \/ LookAtTarget(t)
         \/ PromptFails(t) \/ PromptSucceeds(t) \/ Wakes(t) \/ CheckOptedIn(t)
  PROVE  Inv'
<1> USE Records DEF Inv
<1>1. task[t] \in TaskState /\ view \in Seen /\ setting \in Settings BY DEF TypeOK
<1>2. \A pc \in TaskPC : [task[t] EXCEPT !.pc = pc] \in TaskState BY <1>1 DEF TaskState
<1>3. \A pc : Goes(t, pc) => task' = [task EXCEPT ![t] = [task[t] EXCEPT !.pc = pc]]
  BY DEF Goes, TypeOK
<1>4. Ends(t) => task' = [task EXCEPT ![t] = Free] BY DEF Ends
<1>5. CASE Batch(t)
  <2> DEFINE state == [task[t] EXCEPT !.pc = "refreshing"]
  <2>1. state \in TaskState /\ state.pc = "refreshing" BY <1>1 DEF TaskState, TaskPC
  <2>2. task' = [task EXCEPT ![t] = state] BY <1>3, <1>5 DEF Batch
  <2>3. task[t].pc = "free" BY <1>5 DEF Batch, At
  <2> HIDE DEF state
  <2> QED BY <1>5, <2>1, <2>2, <2>3, LocalStep DEF Batch, KickPC
<1>6. CASE RefreshEnds(t)
  <2> DEFINE state == [task[t] EXCEPT !.pc = "tail", !.seen = view]
  <2>1. state \in TaskState /\ state.pc = "tail" BY <1>1 DEF TaskState, TaskPC
  <2>2. task' = [task EXCEPT ![t] = state] BY <1>6 DEF RefreshEnds, TypeOK, TaskState
  <2>3. task[t].pc = "refreshing" BY <1>6 DEF RefreshEnds, At
  <2> HIDE DEF state
  <2> QED BY <1>6, <2>1, <2>2, <2>3, LocalStep DEF RefreshEnds, KickPC
<1>7. CASE Dropped(t)
  BY <1>4, <1>7, LocalStep DEF Dropped, At, KickPC
<1>8. CASE ReadSettings(t)
  <2>1. task[t].pc = "tail" BY <1>8 DEF ReadSettings, At
  <2>2. CASE Ends(t)
    BY <1>4, <1>8, <2>1, <2>2, LocalStep DEF ReadSettings, KickPC
  <2>3. CASE ~Ends(t)
    <3> DEFINE state == [task[t] EXCEPT !.pc = "retain", !.says = setting]
    <3>1. state \in TaskState /\ state.pc = "retain" BY <1>1 DEF TaskState, TaskPC, Evaluating
    <3>2. task' = [task EXCEPT ![t] = state] BY <1>8, <2>3 DEF ReadSettings, TypeOK, TaskState
    <3> HIDE DEF state
    <3> QED BY <1>8, <2>1, <3>1, <3>2, LocalStep DEF ReadSettings, KickPC
  <2> QED BY <2>2, <2>3
<1>9. CASE LookAtTarget(t)
  <2>1. task[t].pc = "orphans" BY <1>9 DEF LookAtTarget, At
  <2>2. CASE Ends(t)
    BY <1>4, <1>9, <2>1, <2>2, LocalStep DEF LookAtTarget, KickPC
  <2>3. CASE ~Ends(t)
    <3>1. PICK pc \in {"observe", "cancel"} :
             task' = [task EXCEPT ![t] = [Free EXCEPT !.pc = pc, !.seen = task[t].seen]]
      BY <1>9, <2>3 DEF LookAtTarget
    <3> DEFINE state == [Free EXCEPT !.pc = pc, !.seen = task[t].seen]
    <3>2. state \in TaskState /\ state.pc = pc BY <1>1 DEF TaskState, TaskPC, Evaluating
    <3>3. task' = [task EXCEPT ![t] = state] BY <3>1
    <3> HIDE DEF state
    <3> QED BY <1>9, <2>1, <3>2, <3>3, LocalStep DEF LookAtTarget, KickPC
  <2> QED BY <2>2, <2>3
<1>10. CASE PromptFails(t)
  <2>1. task[t].pc = "prompting" BY <1>10 DEF PromptFails, At
  <2> QED BY <1>4, <1>10, <2>1, LocalStep DEF PromptFails, KickPC
<1>11. CASE PromptSucceeds(t)
  <2> DEFINE state == [Free EXCEPT !.pc = "refreshing"]
  <2>1. state \in TaskState /\ state.pc = "refreshing" BY DEF TaskState, TaskPC
  <2>2. task[t].pc = "prompting" /\ task' = [task EXCEPT ![t] = state] BY <1>11 DEF PromptSucceeds, At
  <2> HIDE DEF state
  <2> QED BY <1>11, <2>1, <2>2, LocalStep DEF PromptSucceeds, KickPC
<1>12. CASE Wakes(t)
  <2> DEFINE state == [task[t] EXCEPT !.pc = "woken"]
  <2>1. state \in TaskState /\ state.pc = "woken" /\ state.aborted = task[t].aborted
    BY <1>1 DEF TaskState, TaskPC
  <2>2. task' = [task EXCEPT ![t] = state] BY <1>3, <1>12 DEF Wakes
  <2> HIDE DEF state
  <2> QED BY <1>12, <2>1, <2>2, LocalStep DEF Wakes, KickPC
<1>13. CASE CheckOptedIn(t)
  <2>1. task[t].pc = "check" BY <1>13 DEF CheckOptedIn, At
  <2>2. CASE Ends(t)
    BY <1>4, <1>13, <2>1, <2>2, LocalStep DEF CheckOptedIn, KickPC
  <2>3. CASE ~Ends(t)
    <3> DEFINE state == [task[t] EXCEPT !.pc = "refreshing"]
    <3>1. state \in TaskState /\ state.pc = "refreshing" BY <1>1 DEF TaskState, TaskPC
    <3>2. task' = [task EXCEPT ![t] = state] BY <1>3, <1>13, <2>3 DEF CheckOptedIn
    <3> HIDE DEF state
    <3> QED BY <1>13, <2>1, <3>1, <3>2, LocalStep DEF CheckOptedIn, KickPC
  <2> QED BY <2>2, <2>3
<1> QED BY <1>5, <1>6, <1>7, <1>8, <1>9, <1>10, <1>11, <1>12, <1>13

\* The evaluation's steps that forgive charges: a target left, a window is alive.
LEMMA ForgivingActions ==
  ASSUME Inv, NEW t \in Tasks, Retain(t) \/ ObserveAlive(t)
  PROVE  Inv'
<1> USE DEF Inv
<1> DEFINE pc == IF Retain(t) THEN "orphans" ELSE "arm"
<1> DEFINE state == [task[t] EXCEPT !.pc = pc]
<1>1. task[t].pc \in {"retain", "observe"} /\ pc \in {"orphans", "arm"}
  BY DEF Retain, ObserveAlive, At
<1>2. UNCHANGED <<world, armed, cooling>> /\ failures' \in Nat /\ failures' <= failures
  BY DEF Retain, ObserveAlive, TypeOK
<1>3. task' = [task EXCEPT ![t] = state]
  BY <1>1 DEF Retain, ObserveAlive, Goes, At, TypeOK
<1>4. state \in TaskState /\ state.pc = pc BY <1>1 DEF TypeOK, TaskState, TaskPC, Evaluating
<1> HIDE DEF state, pc
<1>5. task' \in [Tasks -> TaskState] /\ \A u \in Tasks : task'[u] = IF u = t THEN state ELSE task[u]
  BY <1>3, <1>4, TaskMoves
<1>6. TypeOK' BY <1>2, <1>5 DEF TypeOK, world
<1>7. Kicks' BY <1>1, <1>2, <1>4, <1>5, QuietStep DEF KickPC
<1>8. ArmedTimerIsLive' BY <1>1, <1>2, <1>5 DEF TypeOK, ArmedTimerIsLive
<1> QED BY <1>6, <1>7, <1>8

\* The steps that drop the provider's entry and arm nothing.
LEMMA DroppingActions ==
  ASSUME Inv, NEW t \in Tasks, CancelOrphan(t) \/ CancelScheduled(t) \/ RemovesEntry(t)
  PROVE  Inv'
<1> USE DEF Inv
<1>1. UNCHANGED <<world, cooling, failures>> /\ armed' = NoTimer
  BY DEF CancelOrphan, CancelScheduled, RemovesEntry
<1>2. /\ task' \in [Tasks -> TaskState]
      /\ \A u \in Tasks : task'[u].pc \in KickPC => task'[u].pc = task[u].pc
  <2>1. CASE CancelOrphan(t)
    <3>1. task' = [TimerDropped EXCEPT ![t] = Free] BY <2>1 DEF CancelOrphan, TimerDropped
    <3> QED BY <3>1, Dropping, Records DEF KickPC
  <2>2. CASE CancelScheduled(t)
    <3>1. task' = [TimerDropped EXCEPT ![t].pc = "refuse"] BY <2>2 DEF CancelScheduled, TimerDropped
    <3>2. \A u \in Tasks : u # t => task'[u] = TimerDropped[u] BY <3>1, Dropping
    <3>3. task'[t] = [TimerDropped[t] EXCEPT !.pc = "refuse"] /\ TimerDropped[t] \in TaskState
      BY <3>1, Dropping
    <3>4. task'[t] \in TaskState /\ task'[t].pc = "refuse"
      BY <3>3 DEF TaskState, TaskPC, Evaluating
    <3>5. task' \in [Tasks -> TaskState] BY <3>1, <3>2, <3>4, Dropping
    <3> QED BY <3>2, <3>4, <3>5, Dropping, Records DEF KickPC
  <2>3. CASE RemovesEntry(t)
    <3> DEFINE state == [task[t] EXCEPT !.pc = "check", !.target = NoReset]
    <3>1. task' = [task EXCEPT ![t] = state] BY <2>3 DEF RemovesEntry, TypeOK, TaskState
    <3>2. state \in TaskState /\ state.pc = "check" BY DEF TypeOK, TaskState, TaskPC
    <3> HIDE DEF state
    <3> QED BY <3>1, <3>2, TaskMoves DEF KickPC
  <2> QED BY <2>1, <2>2, <2>3
<1>3. TypeOK' BY <1>1, <1>2 DEF TypeOK, world
<1>4. Kicks' BY <1>1, <1>2, QuietStep DEF TypeOK
<1>5. ArmedTimerIsLive' BY <1>1 DEF ArmedTimerIsLive
<1> QED BY <1>3, <1>4, <1>5

\* Arming: the timer that had the entry is aborted, the new one is asleep.
LEMMA ArmingAction ==
  ASSUME Inv, NEW t \in Tasks, ScheduleAtReset(t)
  PROVE  Inv'
<1> USE DEF Inv
<1>1. task[t].pc = "arm" /\ UNCHANGED <<world, cooling, failures>> BY DEF ScheduleAtReset, At
<1>2. CASE Ends(t) /\ UNCHANGED armed
  <2>1. task' = [task EXCEPT ![t] = Free] /\ UNCHANGED <<world, bookkeeping>>
    BY <1>1, <1>2 DEF Ends, bookkeeping
  <2> QED BY <1>1, <2>1, Records, LocalStep DEF KickPC
<1>3. CASE ~(Ends(t) /\ UNCHANGED armed)
  <2> DEFINE timer == [Free EXCEPT !.pc = "asleep", !.target = task[t].seen.reset]
  <2>1. armed' = t /\ task' = [TimerDropped EXCEPT ![t] = timer]
    BY <1>3 DEF ScheduleAtReset, TimerDropped
  <2>2. timer \in TaskState /\ timer.pc = "asleep" /\ timer.aborted = Free.aborted
    BY Records DEF TypeOK, TaskState, TaskPC, Seen
  <2> HIDE DEF timer
  <2>3. task'[t] = timer /\ task' \in [Tasks -> TaskState] BY <2>1, <2>2, Dropping
  <2>4. \A u \in Tasks : u # t => task'[u] = TimerDropped[u] BY <2>1, Dropping
  <2>5. \A u \in Tasks : task'[u].pc \in KickPC => task'[u].pc = task[u].pc
    BY <2>2, <2>3, <2>4, Dropping, Records DEF KickPC
  <2>6. TypeOK' BY <1>1, <2>1, <2>3 DEF TypeOK, world
  <2>7. Kicks' BY <1>1, <2>5, QuietStep DEF TypeOK
  <2>8. ArmedTimerIsLive' BY <2>1, <2>2, <2>3, Records DEF ArmedTimerIsLive
  <2> QED BY <2>6, <2>7, <2>8
<1> QED BY <1>2, <1>3

\* The breaker's check, the cooldown's, and the charge.
LEMMA KickActions ==
  ASSUME Inv, NEW t \in Tasks, Refuses(t) \/ RecordAttempt(t) \/ Charge(t)
  PROVE  Inv'
<1> USE DEF Inv
<1>1. task[t] \in TaskState /\ failures \in Nat BY DEF TypeOK
<1>2. task[t].pc \in {"refuse", "attempt", "charge"} /\ UNCHANGED <<world, armed>>
  BY DEF Refuses, RecordAttempt, Charge, At, bookkeeping
<1>3. PICK state \in TaskState :
         /\ task' = [task EXCEPT ![t] = state]
         /\ \/ /\ task[t].pc = "refuse" /\ UNCHANGED <<cooling, failures>>
               /\ state.pc = "attempt" /\ failures < IneffectiveKickLimit
            \/ /\ task[t].pc = "attempt" /\ ~cooling /\ cooling' /\ cooling' \in BOOLEAN
               /\ UNCHANGED failures
               /\ state.pc = "charge"
            \/ /\ task[t].pc = "charge" /\ UNCHANGED cooling /\ failures' = failures + 1
               /\ state.pc = "prompting"
            \/ /\ task[t].pc \in {"refuse", "attempt"} /\ UNCHANGED <<cooling, failures>>
               /\ state.pc = "free"
  <2>1. CASE Refuses(t)
    <3> DEFINE state == [task[t] EXCEPT !.pc = "attempt"]
    <3>1. state \in TaskState /\ state.pc = "attempt" BY <1>1 DEF TaskState, TaskPC, Evaluating
    <3>2. task[t].pc = "refuse" /\ UNCHANGED <<cooling, failures>>
      BY <2>1 DEF Refuses, At, bookkeeping
    <3>3. CASE failures >= IneffectiveKickLimit
      <4>1. task' = [task EXCEPT ![t] = Free] BY <2>1, <3>3 DEF Refuses, Ends
      <4> QED BY <3>2, <4>1, Records
    <3>4. CASE ~(failures >= IneffectiveKickLimit)
      <4>1. task' = [task EXCEPT ![t] = state] BY <2>1, <3>4 DEF Refuses, Goes, TypeOK
      <4>2. failures < IneffectiveKickLimit BY <1>1, <3>4, LimitAssumption
      <4> HIDE DEF state
      <4> QED BY <3>1, <3>2, <4>1, <4>2
    <3> QED BY <3>3, <3>4
  <2>2. CASE RecordAttempt(t)
    <3> DEFINE state == [task[t] EXCEPT !.pc = "charge"]
    <3>1. state \in TaskState /\ state.pc = "charge" BY <1>1 DEF TaskState, TaskPC, Evaluating
    <3>2. task[t].pc = "attempt" /\ cooling' = TRUE /\ UNCHANGED failures
      BY <2>2 DEF RecordAttempt, At
    <3>3. CASE cooling
      <4>1. task' = [task EXCEPT ![t] = Free] BY <2>2, <3>3 DEF RecordAttempt, Ends
      <4>2. cooling' = cooling BY <3>2, <3>3 DEF TypeOK
      <4> QED BY <3>2, <4>1, <4>2, Records
    <3>4. CASE ~cooling
      <4>1. task' = [task EXCEPT ![t] = state] BY <2>2, <3>4 DEF RecordAttempt, Goes, TypeOK
      <4> HIDE DEF state
      <4> QED BY <3>1, <3>2, <3>4, <4>1
    <3> QED BY <3>3, <3>4
  <2>3. CASE Charge(t)
    <3> DEFINE state == [Free EXCEPT !.pc = "prompting", !.seen = task[t].seen]
    <3>1. state \in TaskState /\ state.pc = "prompting"
      BY <1>1, Records DEF TaskState, TaskPC
    <3>2. /\ task[t].pc = "charge" /\ UNCHANGED cooling /\ failures' = failures + 1
          /\ task' = [task EXCEPT ![t] = state]
      BY <2>3 DEF Charge, At
    <3> HIDE DEF state
    <3> QED BY <3>1, <3>2
  <2> QED BY <2>1, <2>2, <2>3
<1>4. task' \in [Tasks -> TaskState] /\ \A u \in Tasks : task'[u] = IF u = t THEN state ELSE task[u]
  BY <1>3, TaskMoves
<1>5. TypeOK'
  <2>1. cooling' \in BOOLEAN /\ failures' \in Nat BY <1>1, <1>3 DEF TypeOK
  <2> QED BY <1>2, <1>4, <2>1 DEF TypeOK, world
<1>6. ArmedTimerIsLive' BY <1>2, <1>4 DEF TypeOK, ArmedTimerIsLive
<1>7. OnePrompt' BY <1>3, <1>4 DEF Kicks, OnePrompt, Kicking
<1>8. ChargeIsCovered' /\ BreakerHolds'
  <2>1. failures <= IneffectiveKickLimit /\ IneffectiveKickLimit \in Nat
    BY LimitAssumption DEF Kicks, BreakerHolds
  <2>2. CASE task[t].pc = "charge"
    <3>1. failures < IneffectiveKickLimit BY <2>2 DEF Kicks, ChargeIsCovered, At
    <3>2. cooling /\ \A u \in Tasks : task[u].pc = "charge" => u = t
      BY <2>2 DEF Kicks, OnePrompt, Kicking
    <3> QED BY <1>1, <1>3, <1>4, <2>1, <2>2, <3>1, <3>2 DEF ChargeIsCovered, BreakerHolds, At
  <2>3. CASE task[t].pc # "charge"
    BY <1>1, <1>3, <1>4, <2>1, <2>3 DEF Kicks, ChargeIsCovered, BreakerHolds, At
  <2> QED BY <2>2, <2>3
<1> QED BY <1>5, <1>6, <1>7, <1>8 DEF Kicks

\* Time, the backend, the card, the settings, and the end of the cooldown.
LEMMA WorldActions == ASSUME Inv, WorldStep PROVE Inv'
<1> USE DEF Inv
<1>1. CASE CooldownLapses
  <2>1. UNCHANGED <<world, task, armed, failures>> /\ cooling' = FALSE BY <1>1 DEF CooldownLapses
  <2>2. \A t \in Tasks : task[t].pc \notin Evaluating \cup {"prompting"} BY <1>1 DEF CooldownLapses
  <2>3. \A t \in Tasks : task'[t].pc \notin KickPC BY <2>1, <2>2 DEF Evaluating, KickPC
  <2>4. cooling' \in BOOLEAN BY <2>1, Zenon
  <2>5. TypeOK' BY <2>1, <2>4 DEF TypeOK, world
  <2>6. ArmedTimerIsLive' BY <2>1 DEF ArmedTimerIsLive
  <2>7. Kicks' BY <2>1, <2>3 DEF Kicks, KickPC, OnePrompt, Kicking, ChargeIsCovered, BreakerHolds, At
  <2> QED BY <2>5, <2>6, <2>7
<1>2. CASE TimePasses \/ WindowMoves \/ FetchBegins \/ FetchEnds \/ SettingsChange
  <2>1. UNCHANGED <<task, bookkeeping>>
    BY <1>2 DEF TimePasses, WindowMoves, FetchBegins, FetchEnds, SettingsChange
  <2>2. TypeOK'
    <3>1. view' \in Seen
      <4>1. \A r \in Resets \cup {NoReset} : Fresh(r) \in Seen BY DEF Fresh, Seen
      <4> QED BY <1>2, <4>1, Records
              DEF TypeOK, TimePasses, WindowMoves, FetchBegins, FetchEnds, SettingsChange
    <3>2. due' \subseteq Resets /\ reset' \in Resets \cup {NoReset} /\ setting' \in Settings
      BY <1>2 DEF TypeOK, TimePasses, WindowMoves, FetchBegins, FetchEnds, SettingsChange
    <3> QED BY <2>1, <3>1, <3>2 DEF TypeOK, bookkeeping
  <2>3. ArmedTimerIsLive' BY <2>1 DEF ArmedTimerIsLive, bookkeeping
  <2>4. Kicks' BY <2>1 DEF Kicks, OnePrompt, Kicking, ChargeIsCovered, BreakerHolds, At, bookkeeping
  <2> QED BY <2>2, <2>3, <2>4
<1> QED BY <1>1, <1>2 DEF WorldStep

-----------------------------------------------------------------------------
\* Nothing is armed, charged or under way at the start.
LEMMA KickstartInit == Init => Inv
<1> SUFFICES ASSUME Init PROVE Inv
  OBVIOUS
<1>1. cooling \in BOOLEAN BY Zenon DEF Init
<1>2. TypeOK BY <1>1, Records DEF Init, TypeOK
<1>3. ArmedTimerIsLive BY DEF Init, ArmedTimerIsLive
<1>4. \A t \in Tasks : task[t].pc = "free" BY Records DEF Init
<1>5. Kicks
  BY <1>4, LimitAssumption DEF Init, Kicks, OnePrompt, Kicking, ChargeIsCovered, BreakerHolds, At
<1> QED BY <1>2, <1>3, <1>5 DEF Inv

\* Every step of every task keeps the invariant.
LEMMA KickstartStep == Inv /\ [Next]_vars => Inv'
<1> SUFFICES ASSUME Inv, [Next]_vars PROVE Inv'
  OBVIOUS
<1>1. CASE WorldStep BY <1>1, WorldActions
<1>2. ASSUME NEW t \in Tasks, Batch(t) \/ TaskStep(t) PROVE Inv'
  BY <1>2, LocalActions, ForgivingActions, DroppingActions, ArmingAction, KickActions
     DEF TaskStep, EvaluateStep
<1>3. CASE UNCHANGED vars
  BY <1>3 DEF vars, Inv, TypeOK, ArmedTimerIsLive, Kicks, OnePrompt, Kicking, ChargeIsCovered,
              BreakerHolds, At
<1> QED BY <1>1, <1>2, <1>3 DEF Next

\* The tasks and the static maps keep their ranges.
THEOREM KickstartTypeCorrect == Spec => []TypeOK
<1>1. Inv => TypeOK BY DEF Inv
<1> QED BY <1>1, KickstartInit, KickstartStep, PTL DEF Spec

\* The SCHEDULED entry always means a timer that will still remove it, and that no
\* one has aborted.
THEOREM ArmedTimerStaysLive == Spec => []ArmedTimerIsLive
<1>1. Inv => ArmedTimerIsLive BY DEF Inv
<1> QED BY <1>1, KickstartInit, KickstartStep, PTL DEF Spec

\* However many evaluations overlap, one prompt is under way, inside the cooldown.
THEOREM PromptsNeverOverlap == Spec => []OnePrompt
<1>1. Inv => OnePrompt BY DEF Inv, Kicks
<1> QED BY <1>1, KickstartInit, KickstartStep, PTL DEF Spec

\* However many evaluations overlap, the breaker is not charged past its limit.
THEOREM BreakerIsNeverOvercharged == Spec => []BreakerHolds
<1>1. Inv => BreakerHolds BY DEF Inv, Kicks
<1> QED BY <1>1, KickstartInit, KickstartStep, PTL DEF Spec
-----------------------------------------------------------------------------
(* The launch: types. *)

Store == [D!Places -> [D!Kinds -> D!File \cup {D!NoFile}]]
Labels == {"off", "rename", "wal", "shm", "db", "rollback", "copy", "copy_wal", "copy_shm",
           "tree", "keys", "key", "cleanup", "open", "aside_wal", "aside_shm", "fresh",
           "create", "rebuild", "recreate", "add", "running"}

(* The keys. *)
KeysTyped ==
  /\ keys \in [D!Services -> [Accounts -> D!KeyValues]]
  /\ claim \in [Accounts -> D!KeyValues]
  /\ marker \in BOOLEAN /\ unmarked \in BOOLEAN /\ asked \in 0..2
\* The pass begins with the marker, or with the knowledge that it could not be written.
BeforeKeys == {"off", "rename", "wal", "shm", "db", "rollback", "copy", "copy_wal", "copy_shm",
               "tree", "keys"}
PassIsMarked == ~marker /\ ~unmarked => step \in BeforeKeys /\ asked = 0
AskedOnce == unmarked \/ asked <= 1
\* What is deleted has its replacement in place.
Replaced ==
  step = "cleanup" =>
    \E s \in {"legacy", "prior"}, a \in Accounts :
      /\ source = <<s, a>>
      /\ keys["UsageDeck"][a] = keys[s][a] /\ keys[s][a] # D!NoKey
      /\ s = "prior" => keys["legacy"][a] = D!NoKey
Kept ==
  \A a \in Accounts :
    claim[a] # D!NoKey => \E s \in D!Services : keys[s][a] = claim[a]
\* An earlier service holds its own keys or none.
OwnKeys ==
  \A a \in Accounts : /\ keys["legacy"][a] \in {"legacy", D!NoKey}
                       /\ keys["prior"][a] \in {"prior", D!NoKey}
\* Until the pass is over, the key that the user last had is one the pass can find: where an
\* earlier program left a key, the user has one.
InPass == ~unmarked /\ (~marker \/ step \in {"key", "cleanup"})
Findable ==
  InPass => \A a \in Accounts :
    keys["UsageDeck"][a] = D!NoKey =>
      /\ claim[a] \in {keys["legacy"][a], keys["prior"][a]}
      /\ claim[a] = D!NoKey => keys["legacy"][a] = D!NoKey /\ keys["prior"][a] = D!NoKey
NotRevived ==
  ~unmarked => \A a \in Accounts : keys["UsageDeck"][a] \in D!GivenFor(claim[a])
KeyInv ==
  /\ KeysTyped /\ PassIsMarked /\ AskedOnce /\ Replaced /\ Kept /\ OwnKeys /\ Findable
  /\ NotRevived
-----------------------------------------------------------------------------
(* The keys: proofs. *)

LEMMA KeysInit == MCInit => KeyInv
<1> SUFFICES ASSUME MCInit PROVE KeyInv OBVIOUS
<1>1. D!Init BY DEF MCInit
<1>2. /\ step = "off" /\ ~marker /\ ~unmarked /\ asked = 0
      /\ claim \in [Accounts -> D!KeyValues]
      /\ \A a \in Accounts : claim[a] \in D!HadLast(keys, a)
  BY <1>1 DEF D!Init
<1>3. PICK with \in SUBSET (D!Services \X Accounts) :
        keys = [s \in D!Services |-> [a \in Accounts |-> IF <<s, a>> \in with THEN s ELSE D!NoKey]]
  BY <1>1 DEF D!Init
<1>4. keys \in [D!Services -> [Accounts -> D!KeyValues]]
  BY <1>3 DEF D!KeyValues
<1>5. OwnKeys BY <1>3 DEF OwnKeys, D!Services
<1>6. D!Services = {"UsageDeck", "legacy", "prior"} BY DEF D!Services
<1>7. \A a \in Accounts :
        /\ keys["UsageDeck"][a] # D!NoKey => claim[a] = keys["UsageDeck"][a]
        /\ keys["UsageDeck"][a] = D!NoKey =>
             /\ claim[a] \in {keys["legacy"][a], keys["prior"][a]}
             /\ claim[a] = D!NoKey => keys["legacy"][a] = D!NoKey /\ keys["prior"][a] = D!NoKey
  BY <1>2, <1>6 DEF D!HadLast
<1>8. marker \in BOOLEAN /\ unmarked \in BOOLEAN BY <1>1 DEF D!Init
<1>9. KeysTyped BY <1>2, <1>4, <1>8 DEF KeysTyped
<1>10. Kept BY <1>7, <1>6 DEF Kept
<1>11. NotRevived BY <1>7 DEF NotRevived, D!GivenFor
<1>12. PassIsMarked /\ AskedOnce /\ Replaced /\ Findable
  BY <1>2, <1>7 DEF PassIsMarked, AskedOnce, Replaced, Findable, BeforeKeys
<1> QED BY <1>5, <1>9, <1>10, <1>11, <1>12 DEF KeyInv

\* A step outside the pass over the keys.
LEMMA KeysRest ==
  ASSUME KeyInv, UNCHANGED <<keys, marker, claim, unmarked, asked>>,
         step' \notin {"key", "cleanup"},
         step \in BeforeKeys => step' \in BeforeKeys
  PROVE  KeyInv'
<1>1. KeysTyped' /\ AskedOnce' BY DEF KeyInv, KeysTyped, AskedOnce
<1>2. PassIsMarked' BY DEF KeyInv, PassIsMarked
<1>3. Replaced' BY DEF Replaced
<1>4. Kept' BY DEF KeyInv, Kept
<1>5. Findable' BY DEF KeyInv, Findable, InPass
<1>6. NotRevived' /\ OwnKeys' BY DEF KeyInv, NotRevived, OwnKeys
<1> QED BY <1>1, <1>2, <1>3, <1>4, <1>5, <1>6 DEF KeyInv

FileSteps ==
  D!Launch \/ D!Rename \/ D!Copy \/ D!Open \/ D!Commit \/ D!Close \/ D!Crash \/ D!Damage

LEMMA FilesKeepKeys ==
  ASSUME KeyInv, FileSteps PROVE KeyInv'
<1>1. UNCHANGED <<keys, marker, claim, unmarked, asked>>
  BY DEF FileSteps, D!Launch, D!Rename, D!Copy, D!Open, D!Commit, D!Close, D!Crash, D!Damage,
         D!NothingToRename, D!RenameBegins, D!MoveDatabase, D!MoveFails, D!RollBack, D!RolledBack,
         D!SkipSidecar, D!MoveSidecar, D!CopyDatabase, D!CopySidecar, D!CopyTree, D!OpenEmpty,
         D!OpenDatabase, D!OpenCorrupt, D!OpenFails, D!AsideSidecar, D!CreateTables, D!DropLogs,
         D!RecreateLogs, D!AddColumn, D!Opened, D!secrets
<1>2. step' \notin {"key", "cleanup"} /\ (step \in BeforeKeys => step' \in BeforeKeys)
  <2>1. CASE D!Launch \/ D!Crash \/ D!Damage
    BY <2>1 DEF D!Launch, D!Crash, D!Damage, D!Goto, BeforeKeys
  <2>2. CASE D!Rename
    BY <2>2 DEF D!Rename, D!NothingToRename, D!RenameBegins, D!MoveDatabase, D!MoveFails, D!RollBack,
            D!RolledBack, D!SkipSidecar, D!MoveSidecar, D!Goto, D!After, D!Sidecars, BeforeKeys
  <2>3. CASE D!Copy
    BY <2>3 DEF D!Copy, D!CopyDatabase, D!CopySidecar, D!CopyTree, D!Goto, D!Sidecars, BeforeKeys
  <2>4. CASE D!Open
    BY <2>4 DEF D!Open, D!OpenEmpty, D!OpenDatabase, D!OpenCorrupt, D!OpenFails, D!AsideSidecar,
            D!CreateTables, D!DropLogs, D!RecreateLogs, D!AddColumn, D!Opened, D!Goto, D!Served,
            D!Sidecars, BeforeKeys
  <2>5. CASE D!Commit \/ D!Close
    BY <2>5 DEF D!Commit, D!Close, D!Goto, BeforeKeys
  <2> QED BY <2>1, <2>2, <2>3, <2>4, <2>5 DEF FileSteps
<1> QED BY <1>1, <1>2, KeysRest

\* One account's key, in one service.
LEMMA KeyPut ==
  ASSUME KeysTyped, NEW s \in D!Services, NEW a \in Accounts, NEW v \in D!KeyValues,
         keys' = [keys EXCEPT ![s][a] = v]
  PROVE  /\ keys' \in [D!Services -> [Accounts -> D!KeyValues]]
         /\ \A q \in D!Services, b \in Accounts :
              keys'[q][b] = IF q = s /\ b = a THEN v ELSE keys[q][b]
BY DEF KeysTyped

LEMMA PassBegins ==
  ASSUME KeyInv, D!KeysBegin PROVE KeyInv'
<1>1. step = "keys" /\ UNCHANGED <<keys, claim>> BY DEF D!KeysBegin
<1>2. CASE marker
  <2>1. step' = "open" /\ UNCHANGED <<marker, unmarked, asked>>
    BY <1>2 DEF D!KeysBegin, D!Goto
  <2>2. KeysTyped' /\ AskedOnce' BY <1>1, <2>1 DEF KeyInv, KeysTyped, AskedOnce
  <2>3. PassIsMarked' /\ Replaced' /\ Findable'
    BY <1>2, <2>1 DEF PassIsMarked, Replaced, Findable, InPass
  <2>4. Kept' /\ NotRevived' /\ OwnKeys' BY <1>1, <2>1 DEF KeyInv, Kept, NotRevived, OwnKeys
  <2> QED BY <2>2, <2>3, <2>4 DEF KeyInv
<1>3. CASE ~marker
  <2>10. \/ marker' /\ unmarked' = unmarked
         \/ unmarked' /\ marker' = marker
    BY <1>3 DEF D!KeysBegin
  <2>12. \/ step' = "open" /\ asked' = asked
         \/ step' = "key" /\ asked' = IF D!Asks /\ asked < 2 THEN asked + 1 ELSE asked
    BY <1>3, Zenon DEF D!KeysBegin, D!Goto
  <2>11. step' \in {"open", "key"} /\ (asked' = asked \/ (asked < 2 /\ asked' = asked + 1))
    BY <2>12
  <2>1. /\ step' \in {"open", "key"}
        /\ \/ marker' /\ unmarked' = unmarked
           \/ unmarked' /\ marker' = marker
        /\ asked' = asked \/ (asked < 2 /\ asked' = asked + 1)
    BY <2>10, <2>11
  <2>2. marker' \in BOOLEAN /\ unmarked' \in BOOLEAN
    BY <1>3 DEF D!KeysBegin, KeyInv, KeysTyped
  <2>3. KeysTyped' BY <1>1, <2>1, <2>2 DEF KeyInv, KeysTyped
  <2>4. PassIsMarked' /\ Replaced' BY <2>1 DEF PassIsMarked, Replaced
  <2>5. AskedOnce' BY <1>3, <2>1 DEF KeyInv, KeysTyped, AskedOnce, PassIsMarked
  <2>6. Kept' /\ OwnKeys' BY <1>1 DEF KeyInv, Kept, OwnKeys
  <2>7. ~unmarked' => ~unmarked BY <2>1
  <2>8. Findable' BY <1>1, <1>3, <2>7 DEF KeyInv, Findable, InPass
  <2>9. NotRevived' BY <1>1, <2>7 DEF KeyInv, NotRevived
  <2> QED BY <2>3, <2>4, <2>5, <2>6, <2>8, <2>9 DEF KeyInv
<1> QED BY <1>2, <1>3

LEMMA PassWrites ==
  ASSUME KeyInv, NEW a \in Accounts, D!KeyWritten(a) PROVE KeyInv'
<1>1. /\ step = "key" /\ step' = "cleanup" /\ keys["UsageDeck"][a] = D!NoKey
      /\ UNCHANGED <<marker, claim, unmarked, asked>>
  BY DEF D!KeyWritten, D!Goto
<1>2. PICK s \in {"legacy", "prior"} :
        /\ keys[s][a] # D!NoKey /\ (s = "prior" => keys["legacy"][a] = D!NoKey)
        /\ keys' = [keys EXCEPT !["UsageDeck"][a] = keys[s][a]]
        /\ source' = <<s, a>>
  BY DEF D!KeyWritten, D!LegacyKeys
<1>3. "UsageDeck" \in D!Services /\ s \in D!Services /\ s # "UsageDeck"
      /\ "legacy" \in D!Services /\ "prior" \in D!Services
  BY DEF D!Services
<1>4. keys[s][a] \in D!KeyValues BY <1>3 DEF KeyInv, KeysTyped
<1>5. /\ keys' \in [D!Services -> [Accounts -> D!KeyValues]]
      /\ \A q \in D!Services, b \in Accounts :
           keys'[q][b] = IF q = "UsageDeck" /\ b = a THEN keys[s][a] ELSE keys[q][b]
  BY <1>2, <1>3, <1>4, KeyPut DEF KeyInv
<1>6. KeysTyped' /\ AskedOnce' BY <1>1, <1>5 DEF KeyInv, KeysTyped, AskedOnce
<1>7. marker \/ unmarked BY <1>1 DEF KeyInv, PassIsMarked, BeforeKeys
<1>8. PassIsMarked' BY <1>1, <1>7 DEF PassIsMarked
<1>9. Replaced' BY <1>2, <1>3, <1>5 DEF Replaced
<1>10. OwnKeys' BY <1>3, <1>5 DEF KeyInv, OwnKeys
<1>11. Findable' BY <1>1, <1>2, <1>3, <1>5 DEF KeyInv, Findable, InPass
<1>12. NotRevived'
  <2> SUFFICES ASSUME ~unmarked, NEW b \in Accounts
               PROVE  keys'["UsageDeck"][b] \in D!GivenFor(claim[b])
    BY <1>1 DEF NotRevived
  <2>1. CASE b = a
    <3>1. /\ claim[a] \in {keys["legacy"][a], keys["prior"][a]}
          /\ claim[a] # D!NoKey
      BY <1>1, <1>2, <1>3 DEF KeyInv, Findable, InPass
    <3>2. claim[a] = keys[s][a] \/ (claim[a] = "prior" /\ keys[s][a] = "legacy")
      BY <1>2, <3>1 DEF KeyInv, OwnKeys
    <3> QED BY <1>3, <1>5, <2>1, <3>2 DEF D!GivenFor
  <2>2. CASE b # a BY <1>3, <1>5, <2>2 DEF KeyInv, NotRevived
  <2> QED BY <2>1, <2>2
<1>13. Kept'
  <2> SUFFICES ASSUME NEW b \in Accounts, claim[b] # D!NoKey
               PROVE  \E q \in D!Services : keys'[q][b] = claim[b]
    BY <1>1 DEF Kept
  <2>1. PICK q \in D!Services : keys[q][b] = claim[b] BY DEF KeyInv, Kept
  <2>2. q # "UsageDeck" \/ b # a BY <1>1, <2>1
  <2> QED BY <1>5, <2>1, <2>2
<1> QED BY <1>6, <1>8, <1>9, <1>10, <1>11, <1>12, <1>13 DEF KeyInv

LEMMA PassCleansUp ==
  ASSUME KeyInv, D!KeyCleanedUp PROVE KeyInv'
<1>1. /\ step = "cleanup" /\ step' = "key"
      /\ UNCHANGED <<marker, claim, unmarked, asked>>
      /\ keys' \in {keys, [keys EXCEPT ![source[1]][source[2]] = D!NoKey]}
  BY DEF D!KeyCleanedUp, D!Goto
<1>2. PICK s \in {"legacy", "prior"}, a \in Accounts :
        /\ source = <<s, a>>
        /\ keys["UsageDeck"][a] = keys[s][a] /\ keys[s][a] # D!NoKey
        /\ s = "prior" => keys["legacy"][a] = D!NoKey
  BY <1>1 DEF KeyInv, Replaced
<1>3. source[1] = s /\ source[2] = a BY <1>2
<1>4. "UsageDeck" \in D!Services /\ s \in D!Services /\ s # "UsageDeck"
      /\ D!NoKey \in D!KeyValues /\ "legacy" \in D!Services /\ "prior" \in D!Services
  BY DEF D!Services, D!KeyValues
<1>5. CASE keys' = keys
  <2>1. KeysTyped' /\ AskedOnce' BY <1>1, <1>5 DEF KeyInv, KeysTyped, AskedOnce
  <2>2. PassIsMarked' /\ Replaced' BY <1>1 DEF KeyInv, PassIsMarked, Replaced, BeforeKeys
  <2>3. Findable' BY <1>1, <1>5 DEF KeyInv, Findable, InPass
  <2>4. Kept' /\ NotRevived' /\ OwnKeys' BY <1>1, <1>5 DEF KeyInv, Kept, NotRevived, OwnKeys
  <2> QED BY <2>1, <2>2, <2>3, <2>4 DEF KeyInv
<1>6. CASE keys' = [keys EXCEPT ![s][a] = D!NoKey]
  <2>1. /\ keys' \in [D!Services -> [Accounts -> D!KeyValues]]
        /\ \A q \in D!Services, b \in Accounts :
             keys'[q][b] = IF q = s /\ b = a THEN D!NoKey ELSE keys[q][b]
    BY <1>4, <1>6, KeyPut DEF KeyInv
  <2>2. KeysTyped' /\ AskedOnce' BY <1>1, <2>1 DEF KeyInv, KeysTyped, AskedOnce
  <2>3. PassIsMarked' /\ Replaced' BY <1>1 DEF KeyInv, PassIsMarked, Replaced, BeforeKeys
  <2>4. \A b \in Accounts : keys'["UsageDeck"][b] = keys["UsageDeck"][b] BY <1>4, <2>1
  <2>5. OwnKeys' BY <1>4, <2>1 DEF KeyInv, OwnKeys
  <2>6. Findable' BY <1>1, <1>2, <1>4, <2>1, <2>4 DEF KeyInv, Findable, InPass
  <2>7. NotRevived' BY <1>1, <2>4 DEF KeyInv, NotRevived
  <2>8. Kept'
    <3> SUFFICES ASSUME NEW b \in Accounts, claim[b] # D!NoKey
                 PROVE  \E q \in D!Services : keys'[q][b] = claim[b]
      BY <1>1 DEF Kept
    <3>1. PICK q \in D!Services : keys[q][b] = claim[b] BY DEF KeyInv, Kept
    <3>2. CASE q = s /\ b = a BY <1>2, <1>4, <2>4, <3>1, <3>2
    <3>3. CASE ~(q = s /\ b = a) BY <2>1, <3>1, <3>3
    <3> QED BY <3>2, <3>3
  <2> QED BY <2>2, <2>3, <2>5, <2>6, <2>7, <2>8 DEF KeyInv
<1> QED BY <1>1, <1>3, <1>5, <1>6

\* An account left alone, and the end of the pass.
LEMMA PassGoesOn ==
  ASSUME KeyInv, UNCHANGED <<keys, marker, claim, unmarked, asked>>,
         step = "key", step' \in {"key", "open"}
  PROVE  KeyInv'
<1>1. KeysTyped' /\ AskedOnce' BY DEF KeyInv, KeysTyped, AskedOnce
<1>2. PassIsMarked' /\ Replaced' BY DEF KeyInv, PassIsMarked, Replaced, BeforeKeys
<1>3. Findable' BY DEF KeyInv, Findable, InPass
<1>4. Kept' /\ NotRevived' /\ OwnKeys' BY DEF KeyInv, Kept, NotRevived, OwnKeys
<1> QED BY <1>1, <1>2, <1>3, <1>4 DEF KeyInv

LEMMA UserSets ==
  ASSUME KeyInv, NEW a \in Accounts, D!UserSetsKey(a) PROVE KeyInv'
<1>1. step = "running" /\ UNCHANGED <<step, marker, unmarked, asked>> BY DEF D!UserSetsKey
<1>2. PICK v \in {"typed", D!NoKey} : /\ keys' = [keys EXCEPT !["UsageDeck"][a] = v]
                                      /\ claim' = [claim EXCEPT ![a] = v]
  BY DEF D!UserSetsKey
<1>3. /\ "UsageDeck" \in D!Services /\ v \in D!KeyValues
      /\ "legacy" \in D!Services /\ "prior" \in D!Services
  BY DEF D!Services, D!KeyValues
<1>4. /\ keys' \in [D!Services -> [Accounts -> D!KeyValues]]
      /\ \A q \in D!Services, b \in Accounts :
           keys'[q][b] = IF q = "UsageDeck" /\ b = a THEN v ELSE keys[q][b]
  BY <1>2, <1>3, KeyPut DEF KeyInv
<1>5. /\ claim' \in [Accounts -> D!KeyValues]
      /\ \A b \in Accounts : claim'[b] = IF b = a THEN v ELSE claim[b]
  BY <1>2, <1>3 DEF KeyInv, KeysTyped
<1>6. KeysTyped' /\ AskedOnce' BY <1>1, <1>4, <1>5 DEF KeyInv, KeysTyped, AskedOnce
<1>7. PassIsMarked' /\ Replaced' /\ Findable'
  BY <1>1 DEF KeyInv, PassIsMarked, Replaced, Findable, InPass, BeforeKeys
<1>8. Kept'
  <2> SUFFICES ASSUME NEW b \in Accounts, claim'[b] # D!NoKey
               PROVE  \E q \in D!Services : keys'[q][b] = claim'[b]
    BY DEF Kept
  <2>1. CASE b = a BY <1>3, <1>4, <1>5, <2>1
  <2>2. CASE b # a
    <3>1. PICK q \in D!Services : keys[q][b] = claim[b] BY <1>5, <2>2 DEF KeyInv, Kept
    <3> QED BY <1>4, <1>5, <2>2, <3>1
  <2> QED BY <2>1, <2>2
<1>9. NotRevived' BY <1>1, <1>3, <1>4, <1>5 DEF KeyInv, NotRevived, D!GivenFor
<1>10. OwnKeys' BY <1>3, <1>4 DEF KeyInv, OwnKeys
<1> QED BY <1>6, <1>7, <1>8, <1>9, <1>10 DEF KeyInv

LEMMA KeyStep ==
  KeyInv /\ [MCNext]_<<part, vars, launchVars>> => KeyInv'
<1> SUFFICES ASSUME KeyInv, [MCNext]_<<part, vars, launchVars>> PROVE KeyInv' OBVIOUS
<1>1. CASE UNCHANGED launchVars
  BY <1>1 DEF launchVars, KeyInv, KeysTyped, PassIsMarked, AskedOnce, Replaced, Kept, OwnKeys,
              Findable, InPass, NotRevived
<1>2. CASE FileSteps BY <1>2, FilesKeepKeys
<1>3. CASE D!MigrateKeys
  <2>1. CASE D!KeysBegin BY <2>1, PassBegins
  <2>2. CASE D!KeyCleanedUp BY <2>2, PassCleansUp
  <2>3. CASE D!KeysEnd
    <3>1. UNCHANGED <<keys, marker, claim, unmarked, asked>> /\ step = "key" /\ step' = "open"
      BY <2>3 DEF D!KeysEnd, D!secrets, D!Goto
    <3> QED BY <3>1, PassGoesOn
  <2>4. ASSUME NEW a \in Accounts, D!KeyStays(a) PROVE KeyInv'
    <3>1. UNCHANGED <<keys, marker, claim, unmarked, asked>> /\ step = "key" /\ step' = "key"
      BY <2>4 DEF D!KeyStays
    <3> QED BY <3>1, PassGoesOn
  <2>5. ASSUME NEW a \in Accounts, D!KeyWritten(a) PROVE KeyInv' BY <2>5, PassWrites
  <2> QED BY <1>3, <2>1, <2>2, <2>3, <2>4, <2>5 DEF D!MigrateKeys
<1>4. ASSUME NEW a \in Accounts, D!UserSetsKey(a) PROVE KeyInv' BY <1>4, UserSets
<1> QED BY <1>1, <1>2, <1>3, <1>4 DEF MCNext, Kickstarting, Launching, launchVars, D!Work, FileSteps

\* The key the user last had, in whichever program, is never lost on its way between the
\* services and replaced by no other (but by OpenQuota's, where both earlier programs left one),
\* one that was deleted does not come back, and one launch at most asks for the entries of an
\* earlier program, for any accounts and wherever launches are stopped (migration.rs:15, 342).
THEOREM KeysFollowTheUser == MCSpec => []KeyFollowsUser
<1>1. KeyInv => KeyFollowsUser
  BY DEF KeyInv, AskedOnce, Kept, NotRevived, KeyFollowsUser, D!KeyFollowsUser
<1> QED BY <1>1, KeysInit, KeyStep, PTL DEF MCSpec
-----------------------------------------------------------------------------
(* The files and their columns. *)

Db(p) == fs[p]["db"]
Wal(p) == fs[p]["wal"]

Opening == {"create", "rebuild", "recreate", "add", "running"}
\* The database is there and fits its log from the first schema statement on.
Served == step \in Opening => D!Has("new", "db") /\ D!Readable(fs["new"])
\* Each schema statement finds what the ones before it have made.
Upgraded ==
  /\ step = "rebuild" => {"tables", "logs"} \subseteq D!Cols
  /\ step = "recreate" => "tables" \in D!Cols
  /\ step = "add" => {"tables", "logs", "nanos"} \subseteq D!Cols
  /\ step = "running" => D!Cols = D!Columns

Owned(p, o) == \A k \in {"db", "wal"} : fs[p][k] # D!NoFile => fs[p][k].of = o
\* A log without a database is what quarantine left, or has been moved ahead of its database.
StrayLog ==
  ~D!Has("new", "db") =>
    \/ Wal("new") = D!NoFile \/ Wal("new").of = "half"
    \/ Wal("new").of = "old" /\ D!Has("old", "db") /\ ~D!Has("old", "wal")
LogFits ==
  D!Has("new", "db") /\ D!Has("new", "wal") => Wal("new").of \in {Db("new").of, "half"}
EmptyHasNoLog == Db("new") = D!Empty => Wal("new").of # "empty"
Renaming ==
  /\ step \in {"wal", "shm", "db", "rollback"} => D!Has("old", "db") /\ ~D!Has("new", "db")
  /\ step \in {"rename", "wal"} => moved = {}
  /\ step \in {"shm", "db"} => ~D!Has("old", "wal")
  /\ step \in {"shm", "db", "rollback"} /\ "wal" \in moved =>
       Wal("new").of = "old" /\ ~D!Has("old", "wal")
  /\ step = "copy" /\ ~D!Has("new", "db") => ~D!Has("old", "db")
Copying ==
  step \in {"copy_wal", "copy_shm"} =>
    /\ ~D!Has("old", "db") /\ D!Has("foreign", "db") /\ Db("new") = Db("foreign")
    /\ step = "copy_wal" => ~D!Has("new", "wal") \/ Wal("new").of = "half"
    /\ step = "copy_shm" =>
         /\ Wal("new").of = "foreign" => Wal("new").txns \subseteq Wal("foreign").txns
         /\ torn \/ Wal("new").of = "half" \/ Wal("new") = Wal("foreign")
AfterCopy ==
  step \in {"tree", "keys", "key", "cleanup", "open"} /\ ~D!Has("new", "db") =>
    ~D!Has("old", "db") /\ (~D!Has("foreign", "db") \/ torn)
SetAside ==
  step \in {"aside_wal", "aside_shm", "fresh"} =>
    ~D!Has("new", "db") /\ (~D!Has("new", "wal") \/ Wal("new").of = "half")
FilesTyped ==
  /\ fs \in Store /\ step \in Labels /\ moved \subseteq D!Sidecars /\ torn \in BOOLEAN
Slots == Owned("old", "old") /\ Owned("foreign", "foreign") /\ StrayLog /\ LogFits /\ EmptyHasNoLog
Phases == Served /\ Upgraded /\ Renaming /\ Copying /\ AfterCopy /\ SetAside
FileInv == FilesTyped /\ Slots /\ Phases

ForeignDatabase == IF D!Has("foreign", "db") THEN D!Visible(fs["foreign"]) ELSE None
Aside == step \in {"aside_wal", "aside_shm", "fresh"}
InCopy == step \in {"copy_wal", "copy_shm"}
\* A step of the atomic adoption, or none.
Adopts == [D!Adoption!Next]_(D!Adoption!vars)
-----------------------------------------------------------------------------
(* The files: proofs. *)

LEMMA FileKinds ==
  /\ D!NoFile \notin D!File /\ D!NoFile.of = "none" /\ D!NoFile.txns = {}
  /\ D!Empty \in D!File /\ D!Empty.of = "empty" /\ D!Empty.txns = {} /\ D!Empty.cols = {}
  /\ D!Half \in D!File /\ D!Half.of = "half" /\ D!Half.txns = {}
  /\ \A f \in D!File : f.of # "none"
BY DEF D!NoFile, D!Empty, D!Half, D!File, D!Origins

\* What an earlier program leaves: whole, closed, or nothing.
LEMMA LeftoversAre ==
  ASSUME NEW o \in {"foreign", "old", "new"}, NEW f \in D!Leftovers(o)
  PROVE  /\ f \in [D!Kinds -> D!File \cup {D!NoFile}]
         /\ f["db"] = D!NoFile \/ f["db"].of = o
         /\ f["wal"] = D!NoFile \/ f["wal"].of = o
         /\ f["db"] = D!NoFile => f["wal"] = D!NoFile
<1>1. CASE f = D!Absent
  BY <1>1 DEF D!Absent, D!Kinds, D!Sidecars
<1>2. ASSUME NEW cols \in Schemas,
             f = D!Left(o, cols) \/ f = [D!Left(o, cols) EXCEPT !["wal"] = D!NoFile, !["shm"] = D!NoFile]
      PROVE  /\ f \in [D!Kinds -> D!File \cup {D!NoFile}]
             /\ f["db"].of = o
             /\ f["wal"] = D!NoFile \/ f["wal"].of = o
             /\ f["db"] # D!NoFile
  <2>1. \A k \in D!Kinds :
          D!Left(o, cols)[k].of = o /\ D!Left(o, cols)[k] \in D!File
    BY SchemaAssumption
       DEF D!Left, D!Kinds, D!Sidecars, D!File, D!Origins, D!Txns, D!Columns
  <2>2. D!Left(o, cols) \in [D!Kinds -> D!File]
    BY <2>1 DEF D!Left
  <2> QED BY <1>2, <2>1, <2>2, FileKinds DEF D!Kinds, D!Sidecars
<1> QED BY <1>1, <1>2 DEF D!Leftovers

LEMMA FileInit == MCInit => FileInv
<1> SUFFICES ASSUME MCInit PROVE FileInv OBVIOUS
<1>1. D!Init BY DEF MCInit
<1>2. step = "off" /\ moved = {} /\ torn \in BOOLEAN BY <1>1 DEF D!Init
<1>3. PICK f \in D!Leftovers("foreign"), o \in D!Leftovers("old"), n \in D!Leftovers("new") :
        fs = [p \in D!Places |-> CASE p = "foreign" -> f [] p = "old" -> o [] p = "new" -> n]
  BY <1>1 DEF D!Init
<1>4. fs["foreign"] = f /\ fs["old"] = o /\ fs["new"] = n BY <1>3 DEF D!Places
<1>5. /\ f \in [D!Kinds -> D!File \cup {D!NoFile}]
      /\ f["db"] = D!NoFile \/ f["db"].of = "foreign"
      /\ f["wal"] = D!NoFile \/ f["wal"].of = "foreign"
  BY LeftoversAre
<1>6. /\ o \in [D!Kinds -> D!File \cup {D!NoFile}]
      /\ o["db"] = D!NoFile \/ o["db"].of = "old"
      /\ o["wal"] = D!NoFile \/ o["wal"].of = "old"
  BY LeftoversAre
<1>7. /\ n \in [D!Kinds -> D!File \cup {D!NoFile}]
      /\ n["db"] = D!NoFile \/ n["db"].of = "new"
      /\ n["wal"] = D!NoFile \/ n["wal"].of = "new"
      /\ n["db"] = D!NoFile => n["wal"] = D!NoFile
  BY LeftoversAre
<1>8. fs \in Store BY <1>3, <1>5, <1>6, <1>7 DEF Store, D!Places
<1>9. FilesTyped BY <1>2, <1>8 DEF FilesTyped, Labels, D!Sidecars
<1>10. Owned("old", "old") /\ Owned("foreign", "foreign") BY <1>4, <1>5, <1>6 DEF Owned
<1>11. StrayLog /\ LogFits /\ EmptyHasNoLog
  BY <1>4, <1>7, FileKinds DEF StrayLog, LogFits, EmptyHasNoLog, Db, Wal, D!Has
<1>12. Served /\ Upgraded /\ Renaming /\ Copying /\ AfterCopy /\ SetAside
  BY <1>2 DEF Served, Upgraded, Renaming, Copying, AfterCopy, SetAside, Opening
<1> QED BY <1>9, <1>10, <1>11, <1>12 DEF FileInv, Slots, Phases

\* What the adoption sees, from the four files it looks at.
LEMMA Observed ==
  ASSUME FileInv
  PROVE  /\ \A p \in D!Places, k \in D!Kinds : /\ fs[p][k] \in D!File \cup {D!NoFile}
                                               /\ fs[p][k].txns \subseteq D!Txns
                                               /\ fs[p][k].of = "none" <=> fs[p][k] = D!NoFile
         /\ \A p \in D!Places : D!Visible(fs[p]) \in SUBSET D!Txns
         /\ None # Garbage /\ \A v \in SUBSET D!Txns : v # None /\ v # Garbage
         /\ "db" \in D!Kinds /\ "wal" \in D!Kinds /\ "shm" \in D!Kinds
         /\ "old" \in D!Places /\ "new" \in D!Places /\ "foreign" \in D!Places
<1>1. /\ "db" \in D!Kinds /\ "wal" \in D!Kinds /\ "shm" \in D!Kinds
      /\ "old" \in D!Places /\ "new" \in D!Places /\ "foreign" \in D!Places
  BY DEF D!Kinds, D!Sidecars, D!Places
<1>2. \A p \in D!Places, k \in D!Kinds : /\ fs[p][k] \in D!File \cup {D!NoFile}
                                         /\ fs[p][k].txns \subseteq D!Txns
                                         /\ fs[p][k].of = "none" <=> fs[p][k] = D!NoFile
  BY FileKinds DEF FileInv, FilesTyped, Store, D!File
<1>3. \A p \in D!Places : D!Visible(fs[p]) \in SUBSET D!Txns
  BY <1>1, <1>2 DEF D!Visible
<1>4. None # Garbage /\ \A v \in SUBSET D!Txns : v # None /\ v # Garbage BY OutcomeAssumption
<1> QED BY <1>1, <1>2, <1>3, <1>4, Zenon

LEMMA FilePut ==
  ASSUME FileInv, NEW p \in D!Places, NEW k \in D!Kinds, NEW f \in D!File \cup {D!NoFile},
         fs' = [fs EXCEPT ![p][k] = f]
  PROVE  /\ fs' \in Store
         /\ \A q \in D!Places, j \in D!Kinds :
              fs'[q][j] = IF q = p /\ j = k THEN f ELSE fs[q][j]
BY DEF FileInv, FilesTyped, Store

LEMMA FileMoved ==
  ASSUME FileInv, NEW p \in D!Places, NEW to \in D!Places, NEW k \in D!Kinds, p # to,
         fs' = D!Moved(p, to, k)
  PROVE  /\ fs' \in Store
         /\ \A q \in D!Places, j \in D!Kinds :
              fs'[q][j] = IF j = k /\ q = p THEN D!NoFile
                          ELSE IF j = k /\ q = to THEN fs[p][k] ELSE fs[q][j]
BY DEF FileInv, FilesTyped, Store, D!Moved

\* Outside the phases nothing more is asked.
LEMMA OffIsIdle == step' = "off" => Phases'
BY DEF Phases, Served, Upgraded, Renaming, Copying, AfterCopy, SetAside, Opening

\* A step that leaves databases and logs alone.
LEMMA SlotsKept ==
  ASSUME FileInv, fs' \in Store, torn' = torn, step' \in Labels, moved' \subseteq D!Sidecars,
         \A p \in D!Places : fs'[p]["db"] = fs[p]["db"] /\ fs'[p]["wal"] = fs[p]["wal"]
  PROVE  /\ FilesTyped' /\ Slots'
         /\ Aside' = Aside /\ InCopy' = InCopy => Adopts
<1>1. FilesTyped' BY DEF FileInv, FilesTyped
<1>2. /\ "old" \in D!Places /\ "new" \in D!Places /\ "foreign" \in D!Places BY DEF D!Places
<1>3. Slots'
  BY <1>2 DEF FileInv, Slots, Owned, StrayLog, LogFits, EmptyHasNoLog, Db, Wal, D!Has
<1>4. ASSUME Aside' = Aside, InCopy' = InCopy PROVE Adopts
  <2>1. D!AdoptionOld' = D!AdoptionOld
    BY <1>2 DEF D!AdoptionOld, D!Has, D!Visible, D!Fits
  <2>2. D!AdoptionCurrent' = D!AdoptionCurrent
    BY <1>2, <1>4 DEF D!AdoptionCurrent, D!Has, D!Visible, D!Readable, D!Fits, Aside, InCopy
  <2>3. D!AdoptionStale' = D!AdoptionStale BY <1>2, <2>2 DEF D!AdoptionStale
  <2>4. ForeignDatabase' = ForeignDatabase
    BY <1>2 DEF ForeignDatabase, D!Has, D!Visible
  <2> QED BY <2>1, <2>2, <2>3, <2>4 DEF Adopts, D!Adoption!vars, ForeignDatabase
<1> QED BY <1>1, <1>3, <1>4

LEMMA StepOnly ==
  ASSUME FileInv, UNCHANGED <<fs, torn>>, step' \in Labels, moved' \subseteq D!Sidecars
  PROVE  /\ FilesTyped' /\ Slots'
         /\ Aside' = Aside /\ InCopy' = InCopy => Adopts
BY SlotsKept DEF FileInv, FilesTyped

\* The steps that only look.
LEMMA LaunchStep == FileInv /\ D!Launch => FileInv' /\ Adopts
<1> SUFFICES ASSUME FileInv, D!Launch PROVE FileInv' /\ Adopts OBVIOUS
<1>1. step = "off" /\ step' = "rename" /\ moved' = {} /\ UNCHANGED <<fs, torn>>
  BY DEF D!Launch, D!Goto
<1>2. FilesTyped' /\ Slots' /\ Adopts
  BY <1>1, StepOnly DEF Labels, Aside, InCopy
<1>3. Phases' BY <1>1 DEF Phases, Served, Upgraded, Renaming, Copying, AfterCopy, SetAside, Opening
<1> QED BY <1>2, <1>3 DEF FileInv

LEMMA RenameLooks ==
  ASSUME FileInv,
         \/ D!NothingToRename \/ D!RenameBegins \/ D!MoveFails \/ D!RolledBack
         \/ \E kind \in D!Sidecars : D!SkipSidecar(kind)
  PROVE  FileInv' /\ Adopts
<1>1. UNCHANGED <<fs, torn, moved>>
  BY DEF D!NothingToRename, D!RenameBegins, D!MoveFails, D!RolledBack, D!SkipSidecar, D!files
<1>2. /\ step \in {"rename", "wal", "shm", "db", "rollback"}
      /\ step' \in {"copy", "wal", "shm", "db", "rollback", "off"}
      /\ step' = "copy" => D!Has("new", "db") \/ ~D!Has("old", "db")
      /\ step' = "wal" => step = "rename" /\ D!Has("old", "db") /\ ~D!Has("new", "db")
      /\ step' = "shm" => step = "wal" /\ ~D!Has("old", "wal")
      /\ step' = "db" => step = "shm"
      /\ step' = "rollback" => step \in {"wal", "shm", "db"}
  BY DEF D!NothingToRename, D!RenameBegins, D!MoveFails, D!RolledBack, D!SkipSidecar, D!After,
         D!Goto, D!Sidecars, D!Kinds
<1>3. step' \in Labels /\ moved' \subseteq D!Sidecars /\ Aside' = Aside /\ InCopy' = InCopy
  BY <1>1, <1>2 DEF FileInv, FilesTyped, Labels, Aside, InCopy
<1>4. FilesTyped' /\ Slots' /\ Adopts BY <1>1, <1>3, StepOnly
<1>5. Renaming'
  BY <1>1, <1>2 DEF FileInv, Phases, Renaming, Db, Wal, D!Has
<1>6. Served' /\ Upgraded' /\ Copying' /\ AfterCopy' /\ SetAside'
  BY <1>2 DEF Served, Upgraded, Copying, AfterCopy, SetAside, Opening
<1> QED BY <1>4, <1>5, <1>6 DEF FileInv, Phases

\* The rename: a log moved ahead of its database still counts for the old name.
LEMMA SidecarMoves ==
  ASSUME FileInv, NEW kind \in D!Sidecars, D!MoveSidecar(kind)
  PROVE  FileInv' /\ Adopts
<1>1. /\ step = kind /\ D!Has("old", kind) /\ fs' = D!Moved("old", "new", kind)
      /\ moved' = moved \cup {kind} /\ step' = D!After(kind) /\ torn' = torn
  BY DEF D!MoveSidecar, D!Goto
<1>2. kind \in D!Kinds BY DEF D!Kinds
<1>3. /\ fs' \in Store
      /\ \A q \in D!Places, j \in D!Kinds :
           fs'[q][j] = IF j = kind /\ q = "old" THEN D!NoFile
                       ELSE IF j = kind /\ q = "new" THEN fs["old"][kind] ELSE fs[q][j]
  BY <1>1, <1>2, FileMoved, Observed
<1>4. step' \in Labels /\ moved' \subseteq D!Sidecars
  BY <1>1 DEF FileInv, FilesTyped, D!After, D!Sidecars, Labels
<1>5. D!Has("old", "db") /\ ~D!Has("new", "db")
  BY <1>1 DEF FileInv, Phases, Renaming, D!Sidecars
<1>6. CASE kind = "shm"
  <2>1. \A p \in D!Places : fs'[p]["db"] = fs[p]["db"] /\ fs'[p]["wal"] = fs[p]["wal"]
    BY <1>3, <1>6, Observed
  <2>2. step = "shm" /\ step' = "db" BY <1>1, <1>6 DEF D!After
  <2>3. FilesTyped' /\ Slots' /\ Adopts
    BY <1>1, <1>3, <1>4, <2>1, <2>2, SlotsKept DEF Aside, InCopy
  <2>4. Renaming'
    BY <1>1, <1>6, <2>1, <2>2, Observed DEF FileInv, Phases, Renaming, D!Has, Wal
  <2>5. Served' /\ Upgraded' /\ Copying' /\ AfterCopy' /\ SetAside'
    BY <2>2 DEF Served, Upgraded, Copying, AfterCopy, SetAside, Opening
  <2> QED BY <2>3, <2>4, <2>5 DEF FileInv, Phases
<1>7. CASE kind = "wal"
  <2>1. step = "wal" /\ step' = "shm" BY <1>1, <1>7 DEF D!After
  <2>2. /\ fs'["new"]["wal"] = fs["old"]["wal"] /\ fs'["old"]["wal"] = D!NoFile
        /\ \A p \in D!Places : fs'[p]["db"] = fs[p]["db"]
        /\ fs'["foreign"]["wal"] = fs["foreign"]["wal"]
    BY <1>3, <1>7, Observed
  <2>3. FilesTyped' BY <1>1, <1>3, <1>4 DEF FileInv, FilesTyped
  <2>4. fs["old"]["wal"].of = "old" /\ fs["old"]["db"].of = "old"
    BY <1>1, <1>5, <1>7 DEF FileInv, Slots, Owned, D!Has
  <2>5. Slots'
    BY <1>5, <2>2, <2>4, Observed, FileKinds
       DEF FileInv, Slots, Owned, StrayLog, LogFits, EmptyHasNoLog, Db, Wal, D!Has
  <2>6. Renaming'
    BY <1>1, <1>5, <2>1, <2>2, <2>4, Observed DEF Renaming, D!Has, Wal
  <2>7. Served' /\ Upgraded' /\ Copying' /\ AfterCopy' /\ SetAside'
    BY <2>1 DEF Served, Upgraded, Copying, AfterCopy, SetAside, Opening
  <2>8. FileInv' BY <2>3, <2>5, <2>6, <2>7 DEF FileInv, Phases
  <2>9. fs["new"]["wal"] = D!NoFile \/ fs["new"]["wal"].of = "half"
    BY <1>1, <1>5, <1>7 DEF FileInv, Slots, StrayLog, Wal
  <2>10. D!AdoptionOld' = D!AdoptionOld
    BY <1>5, <2>2, <2>4, <2>9, FileKinds, Observed DEF D!AdoptionOld, D!Has, D!Visible, D!Fits
  <2>11. D!AdoptionCurrent = None /\ D!AdoptionCurrent' = None
    BY <1>5, <2>1, <2>2, Observed DEF D!AdoptionCurrent, D!Has
  <2>12. ForeignDatabase' = ForeignDatabase
    BY <2>2, Observed DEF ForeignDatabase, D!Has, D!Visible
  <2>13. D!AdoptionStale' = FALSE BY <2>2, <2>4 DEF D!AdoptionStale
  <2>14. CASE D!AdoptionStale
    BY <1>1, <2>8, <2>10, <2>11, <2>12, <2>13, <2>14
       DEF Adopts, D!Adoption!Next, D!Adoption!StaleGone, ForeignDatabase
  <2>15. CASE ~D!AdoptionStale
    <3>1. D!AdoptionStale' = D!AdoptionStale BY <2>13, <2>15 DEF D!AdoptionStale
    <3> QED BY <1>1, <2>8, <2>10, <2>11, <2>12, <3>1 DEF Adopts, D!Adoption!vars, ForeignDatabase
  <2> QED BY <2>8, <2>14, <2>15
<1> QED BY <1>6, <1>7 DEF D!Sidecars

\* The last move makes the old database the current one, in one step.
LEMMA DatabaseMoves == FileInv /\ D!MoveDatabase => FileInv' /\ Adopts
<1> SUFFICES ASSUME FileInv, D!MoveDatabase PROVE FileInv' /\ Adopts OBVIOUS
<1>1. /\ step = "db" /\ step' = "copy" /\ fs' = D!Moved("old", "new", "db")
      /\ moved' = moved /\ torn' = torn
  BY DEF D!MoveDatabase, D!Goto
<1>2. /\ fs' \in Store
      /\ \A q \in D!Places, j \in D!Kinds :
           fs'[q][j] = IF j = "db" /\ q = "old" THEN D!NoFile
                       ELSE IF j = "db" /\ q = "new" THEN fs["old"]["db"] ELSE fs[q][j]
  BY <1>1, FileMoved, Observed
<1>3. /\ fs'["old"]["db"] = D!NoFile /\ fs'["new"]["db"] = fs["old"]["db"]
      /\ fs'["foreign"]["db"] = fs["foreign"]["db"]
      /\ \A p \in D!Places : fs'[p]["wal"] = fs[p]["wal"]
  BY <1>2, Observed
<1>4. /\ D!Has("old", "db") /\ ~D!Has("new", "db") /\ ~D!Has("old", "wal")
  BY <1>1 DEF FileInv, Phases, Renaming
<1>5. /\ fs["old"]["db"].of = "old" /\ fs["old"]["db"] # D!NoFile
      /\ \/ fs["new"]["wal"] = D!NoFile
         \/ fs["new"]["wal"] # D!NoFile /\ fs["new"]["wal"].of \in {"half", "old"}
  BY <1>4, Observed DEF FileInv, Slots, Owned, StrayLog, Wal, D!Has
<1>6. FilesTyped' BY <1>1, <1>2 DEF FileInv, FilesTyped, Labels
<1>7. Slots'
  BY <1>3, <1>4, <1>5, Observed, FileKinds
     DEF FileInv, Slots, Owned, StrayLog, LogFits, EmptyHasNoLog, Db, Wal, D!Has
<1>8. Phases'
  BY <1>1, <1>3, <1>5 DEF Phases, Served, Upgraded, Renaming, Copying, AfterCopy, SetAside, Opening, D!Has
<1>9. D!AdoptionOld # None /\ D!AdoptionOld' = None /\ D!AdoptionCurrent = None
  <2>1. D!AdoptionOld \in SUBSET D!Txns
    BY <1>4, Observed DEF D!AdoptionOld
  <2> QED BY <1>1, <1>3, <1>4, <2>1, Observed DEF D!AdoptionOld, D!AdoptionCurrent, D!Has
<1>10. D!AdoptionCurrent' = IF D!AdoptionStale THEN Garbage ELSE D!AdoptionOld
  <2>1. CASE fs["new"]["wal"].of = "half"
    <3>1. D!AdoptionStale BY <1>9, <2>1 DEF D!AdoptionStale
    <3>2. D!AdoptionCurrent' = Garbage
      BY <1>1, <1>3, <1>5, <2>1, Observed, FileKinds DEF D!AdoptionCurrent, D!Has, D!Readable, D!Fits
    <3> QED BY <3>1, <3>2
  <2>2. CASE fs["new"]["wal"].of # "half"
    <3>1. ~D!AdoptionStale BY <2>2 DEF D!AdoptionStale
    <3>2. D!AdoptionCurrent' = fs["old"]["db"].txns \cup fs["new"]["wal"].txns
      BY <1>1, <1>3, <1>5, <2>2, Observed, FileKinds
         DEF D!AdoptionCurrent, D!Has, D!Readable, D!Fits, D!Visible
    <3>3. D!AdoptionOld = fs["old"]["db"].txns \cup fs["new"]["wal"].txns
      BY <1>4, <1>5, <2>2, Observed, FileKinds DEF D!AdoptionOld, D!Has, D!Fits, D!Visible
    <3> QED BY <3>1, <3>2, <3>3
  <2> QED BY <2>1, <2>2
<1>11. D!AdoptionStale' = FALSE
  <2>1. D!AdoptionCurrent' # None BY <1>9, <1>10, Observed
  <2> QED BY <2>1 DEF D!AdoptionStale
<1>12. ForeignDatabase' = ForeignDatabase
  BY <1>3, Observed DEF ForeignDatabase, D!Has, D!Visible
<1>13. D!Adoption!Promote
  BY <1>1, <1>9, <1>10, <1>11, <1>12 DEF D!Adoption!Promote, ForeignDatabase
<1> QED BY <1>6, <1>7, <1>8, <1>13 DEF FileInv, Adopts, D!Adoption!Next

\* A move taken back gives the log to the old name again.
LEMMA MovesBack == FileInv /\ D!RollBack => FileInv' /\ Adopts
<1> SUFFICES ASSUME FileInv, D!RollBack PROVE FileInv' /\ Adopts OBVIOUS
<1>1. PICK kind \in D!Sidecars :
        /\ kind \in moved /\ moved' = moved \ {kind}
        /\ fs' \in {fs, D!Moved("new", "old", kind)}
  BY DEF D!RollBack, D!Sidecars, FileInv, FilesTyped
<1>2. step = "rollback" /\ step' = "rollback" /\ torn' = torn
  BY DEF D!RollBack
<1>3. step' \in Labels /\ moved' \subseteq D!Sidecars /\ Aside' = Aside /\ InCopy' = InCopy
  BY <1>1, <1>2 DEF FileInv, FilesTyped, Labels, Aside, InCopy
<1>4. Served' /\ Upgraded' /\ Copying' /\ AfterCopy' /\ SetAside'
  BY <1>2 DEF Served, Upgraded, Copying, AfterCopy, SetAside, Opening
<1>5. ASSUME fs' \in Store,
             \A p \in D!Places : fs'[p]["db"] = fs[p]["db"] /\ fs'[p]["wal"] = fs[p]["wal"]
      PROVE  FileInv' /\ Adopts
  <2>1. FilesTyped' /\ Slots' /\ Adopts BY <1>2, <1>3, <1>5, SlotsKept
  <2>2. Renaming' BY <1>1, <1>2, <1>5, Observed DEF FileInv, Phases, Renaming, D!Has, Wal
  <2> QED BY <1>4, <2>1, <2>2 DEF FileInv, Phases
<1>6. CASE fs' = fs BY <1>5, <1>6 DEF FileInv, FilesTyped
<1>7. CASE fs' = D!Moved("new", "old", kind)
  <2>1. kind \in D!Kinds BY DEF D!Kinds
  <2>2. /\ fs' \in Store
        /\ \A q \in D!Places, j \in D!Kinds :
             fs'[q][j] = IF j = kind /\ q = "new" THEN D!NoFile
                         ELSE IF j = kind /\ q = "old" THEN fs["new"][kind] ELSE fs[q][j]
    BY <1>7, <2>1, FileMoved, Observed
  <2>3. CASE kind = "shm" BY <1>5, <2>2, <2>3, Observed
  <2>4. CASE kind = "wal"
    <3>1. /\ fs'["old"]["wal"] = fs["new"]["wal"] /\ fs'["new"]["wal"] = D!NoFile
          /\ \A p \in D!Places : fs'[p]["db"] = fs[p]["db"]
          /\ fs'["foreign"]["wal"] = fs["foreign"]["wal"]
      BY <2>2, <2>4, Observed
    <3>2. /\ D!Has("old", "db") /\ ~D!Has("new", "db")
          /\ fs["new"]["wal"].of = "old" /\ ~D!Has("old", "wal")
      BY <1>1, <1>2, <2>4 DEF FileInv, Phases, Renaming, Wal
    <3>3. FilesTyped' BY <1>2, <1>3, <2>2 DEF FileInv, FilesTyped
    <3>4. Slots'
      BY <3>1, <3>2, Observed, FileKinds
         DEF FileInv, Slots, Owned, StrayLog, LogFits, EmptyHasNoLog, Db, Wal, D!Has
    <3>5. Renaming' BY <1>1, <1>2, <2>4, <3>1, <3>2, Observed DEF Renaming, D!Has
    <3>6. fs["old"]["db"].of = "old" BY <3>2 DEF FileInv, Slots, Owned, D!Has
    <3>7. D!AdoptionOld' = D!AdoptionOld
      BY <3>1, <3>2, <3>6, FileKinds, Observed DEF D!AdoptionOld, D!Has, D!Visible, D!Fits
    <3>8. D!AdoptionCurrent = None /\ D!AdoptionCurrent' = None
      BY <1>2, <3>1, <3>2, Observed DEF D!AdoptionCurrent, D!Has
    <3>9. D!AdoptionStale' = D!AdoptionStale
      BY <3>1, <3>2, FileKinds DEF D!AdoptionStale
    <3>10. ForeignDatabase' = ForeignDatabase
      BY <3>1, Observed DEF ForeignDatabase, D!Has, D!Visible
    <3>11. Adopts
      BY <1>2, <3>7, <3>8, <3>9, <3>10 DEF Adopts, D!Adoption!vars, ForeignDatabase
    <3> QED BY <1>4, <3>3, <3>4, <3>5, <3>11 DEF FileInv, Phases
  <2> QED BY <2>3, <2>4 DEF D!Sidecars
<1> QED BY <1>1, <1>6, <1>7

\* The copy: whole, or known to be cut short.
LEMMA DatabaseCopied == FileInv /\ D!CopyDatabase => FileInv' /\ Adopts
<1> SUFFICES ASSUME FileInv, D!CopyDatabase PROVE FileInv' /\ Adopts OBVIOUS
<1>1. step = "copy" /\ moved' = moved BY DEF D!CopyDatabase
<1>2. ~D!Has("new", "db") => ~D!Has("old", "db")
  BY <1>1 DEF FileInv, Phases, Renaming
<1>3. CASE ~(D!Has("foreign", "db") /\ ~D!Has("new", "db"))
  <2>1. step' = "tree" /\ UNCHANGED <<fs, torn>> BY <1>3 DEF D!CopyDatabase, D!Goto
  <2>2. FilesTyped' /\ Slots' /\ Adopts
    BY <1>1, <2>1, StepOnly DEF FileInv, FilesTyped, Labels, Aside, InCopy
  <2>3. Phases'
    BY <1>2, <1>3, <2>1
       DEF Phases, Served, Upgraded, Renaming, Copying, AfterCopy, SetAside, Opening, D!Has
  <2> QED BY <2>2, <2>3 DEF FileInv
<1>4. CASE D!Has("foreign", "db") /\ ~D!Has("new", "db")
  <2>1. /\ ~D!Has("old", "db") /\ fs["old"]["db"] = D!NoFile /\ fs["new"]["db"] = D!NoFile
        /\ fs["foreign"]["db"] # D!NoFile /\ fs["foreign"]["db"].of = "foreign"
        /\ fs["new"]["wal"] = D!NoFile \/ fs["new"]["wal"].of = "half"
    BY <1>2, <1>4 DEF FileInv, Slots, Owned, StrayLog, D!Has, Wal
  <2>2. ASSUME NEW f \in D!File \cup {D!NoFile}, fs' = [fs EXCEPT !["new"]["db"] = f]
        PROVE  /\ fs' \in Store /\ fs'["new"]["db"] = f
               /\ fs'["old"]["db"] = fs["old"]["db"] /\ fs'["foreign"]["db"] = fs["foreign"]["db"]
               /\ \A p \in D!Places : fs'[p]["wal"] = fs[p]["wal"]
    <3>1. /\ fs' \in Store
          /\ \A q \in D!Places, j \in D!Kinds :
               fs'[q][j] = IF q = "new" /\ j = "db" THEN f ELSE fs[q][j]
      <4>1. "new" \in D!Places /\ "db" \in D!Kinds BY Observed
      <4> QED BY <2>2, <4>1, FilePut, Zenon
    <3> QED BY <3>1, Observed
  <2>3. ASSUME \A p \in D!Places : fs'[p]["wal"] = fs[p]["wal"],
               fs'["old"]["db"] = fs["old"]["db"], fs'["foreign"]["db"] = fs["foreign"]["db"]
        PROVE  /\ D!AdoptionOld = None /\ D!AdoptionOld' = None /\ D!AdoptionCurrent = None
               /\ ForeignDatabase = D!Visible(fs["foreign"]) /\ ForeignDatabase' = ForeignDatabase
               /\ ForeignDatabase # None
               /\ Owned("old", "old")' /\ Owned("foreign", "foreign")'
    <3>1. D!AdoptionOld = None /\ D!AdoptionOld' = None
      BY <2>1, <2>3, Observed DEF D!AdoptionOld, D!Has
    <3>2. D!AdoptionCurrent = None BY <1>1, <2>1 DEF D!AdoptionCurrent, D!Has
    <3>3. ForeignDatabase = D!Visible(fs["foreign"]) /\ ForeignDatabase' = ForeignDatabase
      BY <1>4, <2>3, Observed DEF ForeignDatabase, D!Has, D!Visible
    <3>4. Owned("old", "old")' /\ Owned("foreign", "foreign")'
      BY <2>3, Observed DEF FileInv, Slots, Owned
    <3> QED BY <3>1, <3>2, <3>3, <3>4, Observed
  <2>4. CASE /\ fs' = [fs EXCEPT !["new"]["db"] = fs["foreign"]["db"]]
             /\ step' = "copy_wal" /\ torn' = torn
    <3>1. /\ fs' \in Store /\ fs'["new"]["db"] = fs["foreign"]["db"]
          /\ fs'["old"]["db"] = fs["old"]["db"] /\ fs'["foreign"]["db"] = fs["foreign"]["db"]
          /\ \A p \in D!Places : fs'[p]["wal"] = fs[p]["wal"]
      BY <2>2, <2>4, Observed
    <3>2. FilesTyped' BY <1>1, <2>4, <3>1 DEF FileInv, FilesTyped, Labels
    <3>3. Slots'
      BY <2>1, <2>3, <3>1, Observed, FileKinds
         DEF Slots, StrayLog, LogFits, EmptyHasNoLog, Db, Wal, D!Has
    <3>4. Phases'
      BY <2>1, <2>4, <3>1, Observed
         DEF Phases, Served, Upgraded, Renaming, Copying, AfterCopy, SetAside, Opening, D!Has, Db, Wal
    <3>5. D!AdoptionCurrent' = None BY <2>4 DEF D!AdoptionCurrent
    <3>6. D!AdoptionStale' = D!AdoptionStale
      BY <2>3, <3>1, <3>5, Observed DEF D!AdoptionStale
    <3>7. Adopts BY <2>3, <2>4, <3>1, <3>5, <3>6 DEF Adopts, D!Adoption!vars, ForeignDatabase
    <3> QED BY <3>2, <3>3, <3>4, <3>7 DEF FileInv
  <2>5. ASSUME NEW rest \in {D!NoFile, D!Empty, D!Half}, fs' = [fs EXCEPT !["new"]["db"] = rest],
               step' = "tree", torn' = TRUE
        PROVE  FileInv' /\ Adopts
    <3>1. /\ fs' \in Store /\ fs'["new"]["db"] = rest
          /\ fs'["old"]["db"] = fs["old"]["db"] /\ fs'["foreign"]["db"] = fs["foreign"]["db"]
          /\ \A p \in D!Places : fs'[p]["wal"] = fs[p]["wal"]
      BY <2>2, <2>5, FileKinds
    <3>2. FilesTyped' BY <1>1, <2>5, <3>1 DEF FileInv, FilesTyped, Labels
    <3>3. Slots'
      BY <2>1, <2>3, <3>1, Observed, FileKinds
         DEF Slots, StrayLog, LogFits, EmptyHasNoLog, Db, Wal, D!Has
    <3>4. Phases'
      BY <2>1, <2>5, <3>1, Observed
         DEF Phases, Served, Upgraded, Renaming, Copying, AfterCopy, SetAside, Opening, D!Has, Db, Wal
    <3>5. CASE rest = D!NoFile
      <4>1. D!AdoptionCurrent' = None BY <2>5, <3>1, <3>5 DEF D!AdoptionCurrent, D!Has
      <4>2. D!AdoptionStale' = D!AdoptionStale
        BY <2>3, <3>1, <4>1, Observed DEF D!AdoptionStale
      <4>3. D!Adoption!CopyFails
        BY <2>3, <2>5, <3>1, <4>1, <4>2 DEF D!Adoption!CopyFails, ForeignDatabase
      <4> QED BY <3>2, <3>3, <3>4, <4>3 DEF FileInv, Adopts, D!Adoption!Next
    <3>6. CASE rest \in {D!Empty, D!Half}
      <4>1. D!AdoptionCurrent' \in {{}, Garbage}
        BY <2>1, <2>5, <3>1, <3>6, FileKinds, Observed
           DEF D!AdoptionCurrent, D!Has, D!Readable, D!Visible, D!Fits
      <4>2. D!AdoptionStale' = FALSE BY <4>1, Observed DEF D!AdoptionStale
      <4>3. torn' \in (IF torn THEN {TRUE} ELSE BOOLEAN) BY <2>5
      <4>4. D!AdoptionCurrent' \in {Garbage} \cup SUBSET ForeignDatabase BY <4>1
      <4>5. D!Adoption!Adopt
        BY <2>3, <2>5, <3>1, <4>2, <4>3, <4>4 DEF D!Adoption!Adopt, ForeignDatabase
      <4> QED BY <3>2, <3>3, <3>4, <4>5 DEF FileInv, Adopts, D!Adoption!Next
    <3> QED BY <3>5, <3>6
  <2> QED BY <1>4, <2>4, <2>5 DEF D!CopyDatabase, D!Goto
<1> QED BY <1>3, <1>4

\* The copy of the log, before the adoption takes place.
LEMMA LogCopied == FileInv /\ D!CopySidecar("wal") => FileInv' /\ Adopts
<1> SUFFICES ASSUME FileInv, D!CopySidecar("wal") PROVE FileInv' /\ Adopts OBVIOUS
<1>1. step = "copy_wal" /\ step' = "copy_shm" /\ moved' = moved
  BY DEF D!CopySidecar, D!Goto
<1>2. /\ ~D!Has("old", "db") /\ D!Has("foreign", "db") /\ D!Has("new", "db")
      /\ fs["new"]["db"] = fs["foreign"]["db"] /\ fs["new"]["db"].of = "foreign"
      /\ fs["new"]["wal"] = D!NoFile \/ fs["new"]["wal"].of = "half"
      /\ fs["foreign"]["wal"] = D!NoFile \/ fs["foreign"]["wal"].of = "foreign"
  BY <1>1 DEF FileInv, Phases, Slots, Copying, Owned, D!Has, Db, Wal
<1>3. D!AdoptionOld = None /\ D!AdoptionCurrent = None /\ ForeignDatabase # None
  BY <1>1, <1>2, Observed DEF D!AdoptionOld, D!AdoptionCurrent, ForeignDatabase
<1>4. ASSUME NEW w \in D!File \cup {D!NoFile}, fs' = [fs EXCEPT !["new"]["wal"] = w],
             torn' \in BOOLEAN, torn => torn', torn' = torn \/ torn' = TRUE,
             \/ w = fs["new"]["wal"] /\ (torn' \/ w.of = "half" \/ w = fs["foreign"]["wal"])
             \/ /\ fs["new"]["wal"] = D!NoFile
                /\ \/ w = fs["foreign"]["wal"]
                   \/ w.of = "foreign" /\ w.txns = {} /\ torn'
      PROVE  FileInv' /\ Adopts
  <2>1. /\ fs' \in Store /\ fs'["new"]["wal"] = w
        /\ \A p \in D!Places : fs'[p]["db"] = fs[p]["db"]
        /\ fs'["old"]["wal"] = fs["old"]["wal"] /\ fs'["foreign"]["wal"] = fs["foreign"]["wal"]
    <3>1. /\ fs' \in Store
          /\ \A q \in D!Places, j \in D!Kinds :
               fs'[q][j] = IF q = "new" /\ j = "wal" THEN w ELSE fs[q][j]
      <4>1. "new" \in D!Places /\ "wal" \in D!Kinds BY Observed
      <4> QED BY <1>4, <4>1, FilePut, Zenon
    <3> QED BY <3>1, Observed
  <2>2. FilesTyped' BY <1>1, <1>4, <2>1 DEF FileInv, FilesTyped, Labels
  <2>3. w = D!NoFile \/ w.of \in {"half", "foreign"} BY <1>2, <1>4
  <2>4. Slots'
    BY <1>2, <2>1, <2>3, Observed, FileKinds
       DEF FileInv, Slots, Owned, StrayLog, LogFits, EmptyHasNoLog, Db, Wal, D!Has
  <2>5. /\ w.of = "foreign" => w.txns \subseteq fs["foreign"]["wal"].txns
        /\ torn' \/ w.of = "half" \/ w = fs["foreign"]["wal"]
    BY <1>2, <1>4, FileKinds
  <2>6. Phases'
    BY <1>1, <1>2, <2>1, <2>5, Observed
       DEF Phases, Served, Upgraded, Renaming, Copying, AfterCopy, SetAside, Opening, D!Has, Db, Wal
  <2>7. D!AdoptionOld' = None /\ D!AdoptionCurrent' = None
    BY <1>1, <1>2, <2>1, Observed DEF D!AdoptionOld, D!AdoptionCurrent, D!Has
  <2>8. ForeignDatabase' = ForeignDatabase
    BY <2>1, Observed DEF ForeignDatabase, D!Has, D!Visible
  <2>9. w.of = "half" <=> fs["new"]["wal"].of = "half"
    BY <1>2, <1>4, FileKinds
  <2>10. D!AdoptionStale' = D!AdoptionStale BY <1>3, <2>1, <2>7, <2>9 DEF D!AdoptionStale
  <2>11. CASE torn' = torn
    BY <1>3, <2>2, <2>4, <2>6, <2>7, <2>8, <2>10, <2>11
       DEF FileInv, Adopts, D!Adoption!vars, ForeignDatabase
  <2>12. CASE torn' = TRUE
    <3>1. D!Adoption!CopyFails
      BY <1>3, <2>7, <2>8, <2>10, <2>12 DEF D!Adoption!CopyFails, ForeignDatabase
    <3> QED BY <2>2, <2>4, <2>6, <3>1 DEF FileInv, Adopts, D!Adoption!Next
  <2> QED BY <1>4, <2>11, <2>12
<1>5. torn \in BOOLEAN /\ fs = [fs EXCEPT !["new"]["wal"] = fs["new"]["wal"]]
  BY DEF FileInv, FilesTyped, Store
<1>6. CASE D!Has("foreign", "wal") /\ ~D!Has("new", "wal")
  <2>1. fs["new"]["wal"] = D!NoFile /\ fs["foreign"]["wal"].of = "foreign"
        /\ fs["foreign"]["wal"] \in D!File
    BY <1>2, <1>6, Observed DEF D!Has
  <2>2. \/ fs' = [fs EXCEPT !["new"]["wal"] = fs["foreign"]["wal"]] /\ torn' = torn
        \/ fs' = fs /\ torn' = TRUE
        \/ fs' = [fs EXCEPT !["new"]["wal"] = [fs["foreign"]["wal"] EXCEPT !.txns = {}]] /\ torn' = TRUE
    BY <1>6 DEF D!CopySidecar, D!Partly
  <2>3. CASE fs' = [fs EXCEPT !["new"]["wal"] = fs["foreign"]["wal"]] /\ torn' = torn
    BY <1>4, <1>5, <2>1, <2>3
  <2>4. CASE fs' = fs /\ torn' = TRUE
    BY <1>4, <1>5, <2>1, <2>4
  <2>5. CASE /\ fs' = [fs EXCEPT !["new"]["wal"] = [fs["foreign"]["wal"] EXCEPT !.txns = {}]]
             /\ torn' = TRUE
    <3>1. /\ [fs["foreign"]["wal"] EXCEPT !.txns = {}] \in D!File
          /\ [fs["foreign"]["wal"] EXCEPT !.txns = {}].of = "foreign"
          /\ [fs["foreign"]["wal"] EXCEPT !.txns = {}].txns = {}
      BY <2>1 DEF D!File
    <3> QED BY <1>4, <1>5, <2>1, <2>5, <3>1
  <2> QED BY <2>2, <2>3, <2>4, <2>5
<1>7. CASE ~(D!Has("foreign", "wal") /\ ~D!Has("new", "wal"))
  <2>1. UNCHANGED <<fs, torn>> BY <1>7 DEF D!CopySidecar
  <2>2. fs["new"]["wal"].of = "half" \/ fs["new"]["wal"] = fs["foreign"]["wal"]
    BY <1>2, <1>7 DEF D!Has
  <2>3. fs["new"]["wal"] \in D!File \cup {D!NoFile} BY Observed
  <2> QED BY <1>4, <1>5, <2>1, <2>2, <2>3
<1> QED BY <1>6, <1>7

\* The copy is over, or given up: from here on its result is what the program works with.
LEMMA CopyEnds ==
  ASSUME FileInv, InCopy, ~InCopy', ~Aside', fs' \in Store, step' \in Labels,
         moved' \subseteq D!Sidecars, torn' \in BOOLEAN, torn => torn',
         \A p \in D!Places : fs'[p]["db"] = fs[p]["db"],
         fs'["old"]["wal"] = fs["old"]["wal"], fs'["foreign"]["wal"] = fs["foreign"]["wal"],
         NEW w \in D!File \cup {D!NoFile}, fs'["new"]["wal"] = w,
         w = D!NoFile \/ w.of \in {"half", "foreign"},
         w.of = "foreign" => w.txns \subseteq fs["foreign"]["wal"].txns,
         torn' \/ w = fs["new"]["wal"],
         torn' \/ w.of = "half" \/ w = fs["foreign"]["wal"]
  PROVE  FilesTyped' /\ Slots' /\ Adopts
<1>1. /\ ~D!Has("old", "db") /\ D!Has("foreign", "db") /\ D!Has("new", "db")
      /\ fs["new"]["db"] = fs["foreign"]["db"] /\ fs["new"]["db"].of = "foreign"
  BY DEF InCopy, FileInv, Phases, Slots, Copying, Owned, D!Has, Db, Wal
<1>2. FilesTyped' BY DEF FilesTyped
<1>3. Slots'
  BY <1>1, Observed, FileKinds
     DEF FileInv, Slots, Owned, StrayLog, LogFits, EmptyHasNoLog, Db, Wal, D!Has
<1>4. D!AdoptionOld = None /\ D!AdoptionOld' = None
  BY <1>1, Observed DEF D!AdoptionOld, D!Has
<1>5. D!AdoptionCurrent = None BY DEF D!AdoptionCurrent, InCopy, Aside
<1>6. /\ ForeignDatabase # None /\ ForeignDatabase' = ForeignDatabase
      /\ ForeignDatabase = fs["foreign"]["db"].txns \cup fs["foreign"]["wal"].txns
  BY <1>1, Observed DEF ForeignDatabase, D!Visible, D!Has
<1>7. D!AdoptionCurrent' = IF w = D!NoFile \/ w.of = "foreign"
                           THEN fs["foreign"]["db"].txns \cup w.txns ELSE Garbage
  BY <1>1, FileKinds, Observed
     DEF D!AdoptionCurrent, D!Has, D!Readable, D!Fits, D!Visible, InCopy, Aside
<1>8. D!AdoptionCurrent' # None /\ D!AdoptionCurrent' \in {Garbage} \cup SUBSET ForeignDatabase
  <2>1. CASE w = D!NoFile \/ w.of = "foreign"
    <3>1. D!AdoptionCurrent' \subseteq ForeignDatabase BY <1>6, <1>7, <2>1, FileKinds
    <3>2. ForeignDatabase \subseteq D!Txns BY <1>6, Observed
    <3>3. D!AdoptionCurrent' # None BY <3>1, <3>2, Observed
    <3> QED BY <3>1, <3>3
  <2>2. CASE ~(w = D!NoFile \/ w.of = "foreign") BY <1>7, <2>2, Observed
  <2> QED BY <2>1, <2>2
<1>9. D!AdoptionStale' = FALSE BY <1>8 DEF D!AdoptionStale
<1>10. torn' \in (IF torn THEN {TRUE} ELSE BOOLEAN) OBVIOUS
<1>11. CASE torn'
  BY <1>4, <1>5, <1>6, <1>8, <1>9, <1>10, <1>11, <1>2, <1>3
     DEF Adopts, D!Adoption!Next, D!Adoption!Adopt, ForeignDatabase
<1>12. CASE w.of = "half"
  <2>1. fs["new"]["wal"].of = "half" => D!AdoptionStale BY <1>5 DEF D!AdoptionStale
  <2>2. CASE torn' BY <1>11, <2>2
  <2>3. CASE ~torn'
    <3>1. D!AdoptionStale BY <1>12, <2>1, <2>3
    <3> QED
      BY <1>4, <1>5, <1>6, <1>8, <1>9, <1>10, <1>2, <1>3, <3>1
         DEF Adopts, D!Adoption!Next, D!Adoption!Adopt, ForeignDatabase
  <2> QED BY <2>2, <2>3
<1>13. CASE ~torn' /\ w.of # "half"
  <2>1. w = fs["foreign"]["wal"] BY <1>13
  <2>2. w = D!NoFile \/ w.of = "foreign" BY <1>13
  <2>3. D!AdoptionCurrent' = ForeignDatabase BY <1>6, <1>7, <2>1, <2>2
  <2>4. D!AdoptionCurrent' \in {ForeignDatabase} BY <2>3
  <2> QED
    BY <1>4, <1>5, <1>6, <1>8, <1>9, <1>10, <1>2, <1>3, <2>4
       DEF Adopts, D!Adoption!Next, D!Adoption!Adopt, ForeignDatabase
<1> QED BY <1>11, <1>12, <1>13

LEMMA CopyIsOver == FileInv /\ D!CopySidecar("shm") => FileInv' /\ Adopts
<1> SUFFICES ASSUME FileInv, D!CopySidecar("shm") PROVE FileInv' /\ Adopts OBVIOUS
<1>1. step = "copy_shm" /\ step' = "tree" /\ moved' = moved
  BY DEF D!CopySidecar, D!Goto
<1>2. /\ ~D!Has("old", "db") /\ D!Has("foreign", "db") /\ D!Has("new", "db")
      /\ Wal("new").of = "foreign" => Wal("new").txns \subseteq Wal("foreign").txns
      /\ torn \/ Wal("new").of = "half" \/ Wal("new") = Wal("foreign")
      /\ Db("new").of = "foreign"
  BY <1>1 DEF FileInv, Phases, Slots, Copying, Owned, D!Has, Db
<1>3. /\ fs' \in Store /\ torn' \in BOOLEAN /\ (torn => torn')
      /\ \A p \in D!Places : fs'[p]["db"] = fs[p]["db"] /\ fs'[p]["wal"] = fs[p]["wal"]
  <2>1. ASSUME NEW f \in D!File \cup {D!NoFile}, fs' = [fs EXCEPT !["new"]["shm"] = f]
        PROVE  /\ fs' \in Store
               /\ \A p \in D!Places : fs'[p]["db"] = fs[p]["db"] /\ fs'[p]["wal"] = fs[p]["wal"]
    <3>1. "new" \in D!Places /\ "shm" \in D!Kinds BY Observed
    <3>2. /\ fs' \in Store
          /\ \A q \in D!Places, j \in D!Kinds :
               fs'[q][j] = IF q = "new" /\ j = "shm" THEN f ELSE fs[q][j]
      BY <2>1, <3>1, FilePut, Zenon
    <3> QED BY <3>2, Observed
  <2>2. torn \in BOOLEAN /\ fs \in Store BY DEF FileInv, FilesTyped
  <2>3. CASE D!Has("foreign", "shm") /\ ~D!Has("new", "shm")
    <3>1. /\ fs["foreign"]["shm"] \in D!File
          /\ [fs["foreign"]["shm"] EXCEPT !.txns = {}] \in D!File
      BY <2>3, Observed DEF D!Has, D!File
    <3>2. \/ fs' = [fs EXCEPT !["new"]["shm"] = fs["foreign"]["shm"]] /\ torn' = torn
          \/ fs' = fs /\ torn' = TRUE
          \/ fs' = [fs EXCEPT !["new"]["shm"] = [fs["foreign"]["shm"] EXCEPT !.txns = {}]] /\ torn' = TRUE
      BY <2>3 DEF D!CopySidecar, D!Partly
    <3> QED BY <2>1, <2>2, <3>1, <3>2
  <2>4. CASE ~(D!Has("foreign", "shm") /\ ~D!Has("new", "shm"))
    <3>1. UNCHANGED <<fs, torn>> BY <2>4 DEF D!CopySidecar
    <3> QED BY <2>2, <3>1
  <2> QED BY <2>3, <2>4
<1>4. /\ fs["new"]["wal"] \in D!File \cup {D!NoFile}
      /\ fs["new"]["wal"] = D!NoFile \/ fs["new"]["wal"].of \in {"half", "foreign"}
  BY <1>2, Observed DEF FileInv, Slots, LogFits, Db, Wal, D!Has
<1>5. FilesTyped' /\ Slots' /\ Adopts
  <2>1. InCopy /\ ~InCopy' /\ ~Aside' /\ step' \in Labels /\ moved' \subseteq D!Sidecars
    BY <1>1 DEF InCopy, Aside, FileInv, FilesTyped, Labels
  <2>2. /\ fs["new"]["wal"].of = "foreign" =>
             fs["new"]["wal"].txns \subseteq fs["foreign"]["wal"].txns
        /\ torn' \/ fs["new"]["wal"].of = "half" \/ fs["new"]["wal"] = fs["foreign"]["wal"]
        /\ fs'["new"]["wal"] = fs["new"]["wal"]
        /\ fs'["old"]["wal"] = fs["old"]["wal"] /\ fs'["foreign"]["wal"] = fs["foreign"]["wal"]
        /\ \A p \in D!Places : fs'[p]["db"] = fs[p]["db"]
    BY <1>2, <1>3, Observed DEF Wal
  <2> QED BY <1>3, <1>4, <2>1, <2>2, CopyEnds
<1>6. Phases'
  BY <1>1, <1>2, <1>3, Observed
     DEF Phases, Served, Upgraded, Renaming, Copying, AfterCopy, SetAside, Opening, D!Has
<1> QED BY <1>5, <1>6 DEF FileInv

\* The steps between the copy and the database.
LEMMA KeysLeaveFiles ==
  ASSUME FileInv, UNCHANGED <<fs, torn, moved>>,
         step \in {"tree", "keys", "key", "cleanup", "running"},
         step' \in {"keys", "key", "cleanup", "open"} \/ step' = step,
         step = "running" => step' = step
  PROVE  FileInv' /\ Adopts
<1>1. FilesTyped' /\ Slots' /\ Adopts
  BY StepOnly DEF FileInv, FilesTyped, Labels, Aside, InCopy
<1>2. step \in {"tree", "keys", "key", "cleanup"} => AfterCopy'
  BY DEF FileInv, Phases, AfterCopy, D!Has
<1>3. step = "running" => Phases'
  BY DEF FileInv, Phases, Served, Upgraded, Renaming, Copying, AfterCopy, SetAside, Opening,
         D!Has, D!Readable, D!Fits, D!Cols
<1>4. CASE step # "running"
  BY <1>1, <1>2, <1>4 DEF FileInv, Phases, Served, Upgraded, Renaming, Copying, AfterCopy, SetAside, Opening
<1>5. CASE step = "running" BY <1>1, <1>3, <1>5 DEF FileInv
<1> QED BY <1>4, <1>5

(* Storage::open and the program at work. *)

\* The database that is served, whole and with a log of its own.
LEMMA Renewed ==
  ASSUME FileInv, NEW d \in [D!Kinds -> D!File \cup {D!NoFile}], fs' = [fs EXCEPT !["new"] = d]
  PROVE  /\ fs' \in Store /\ fs'["new"] = d
         /\ fs'["old"] = fs["old"] /\ fs'["foreign"] = fs["foreign"]
BY DEF FileInv, FilesTyped, Store, D!Places

LEMMA OpensEmpty == FileInv /\ D!OpenEmpty => FileInv' /\ Adopts
<1> SUFFICES ASSUME FileInv, D!OpenEmpty PROVE FileInv' /\ Adopts OBVIOUS
<1>1. /\ step \in {"open", "fresh"} /\ step' = "create" /\ moved' = moved /\ torn' = torn
      /\ fs["new"]["db"] \in {D!NoFile, D!Empty}
      /\ fs' = [fs EXCEPT !["new"] = [D!Absent EXCEPT !["db"] = D!Empty]]
  BY DEF D!OpenEmpty, D!Served
<1>2. [D!Absent EXCEPT !["db"] = D!Empty] \in [D!Kinds -> D!File \cup {D!NoFile}]
  BY FileKinds DEF D!Absent
<1>3. /\ [D!Absent EXCEPT !["db"] = D!Empty]["db"] = D!Empty
      /\ [D!Absent EXCEPT !["db"] = D!Empty]["wal"] = D!NoFile
  BY DEF D!Absent, D!Kinds, D!Sidecars
<1>4. /\ fs' \in Store /\ fs'["new"]["db"] = D!Empty /\ fs'["new"]["wal"] = D!NoFile
      /\ fs'["old"] = fs["old"] /\ fs'["foreign"] = fs["foreign"]
  BY <1>1, <1>2, <1>3, Renewed
<1>5. FilesTyped' BY <1>1, <1>4 DEF FileInv, FilesTyped, Labels
<1>6. Slots'
  BY <1>4, FileKinds DEF FileInv, Slots, Owned, StrayLog, LogFits, EmptyHasNoLog, Db, Wal, D!Has
<1>7. Phases'
  BY <1>1, <1>4, FileKinds
     DEF Phases, Served, Upgraded, Renaming, Copying, AfterCopy, SetAside, Opening, D!Has, D!Readable
<1>8. D!AdoptionCurrent' = {}
  BY <1>1, <1>4, FileKinds DEF D!AdoptionCurrent, D!Has, D!Readable, D!Visible
<1>9. D!AdoptionStale' = FALSE BY <1>8, Observed DEF D!AdoptionStale
<1>10. ForeignDatabase' = ForeignDatabase BY <1>4 DEF ForeignDatabase, D!Has, D!Visible
<1>11. fs["new"]["db"] = D!NoFile => D!AdoptionOld' = D!AdoptionOld
  <2>1. CASE step = "open"
    BY <1>1, <1>4, <2>1, FileKinds DEF FileInv, Phases, AfterCopy, D!AdoptionOld, D!Has
  <2>2. CASE step = "fresh"
    <3>1. fs["new"]["wal"] = D!NoFile \/ fs["new"]["wal"].of = "half"
      BY <2>2 DEF FileInv, Phases, SetAside, D!Has, Wal
    <3>2. D!Has("old", "db") => fs["old"]["db"].of = "old"
      BY DEF FileInv, Slots, Owned, D!Has
    <3> QED BY <1>4, <3>1, <3>2, FileKinds, Observed DEF D!AdoptionOld, D!Has, D!Visible, D!Fits
  <2> QED BY <1>1, <2>1, <2>2
<1>12. fs["new"]["db"] = D!Empty => D!AdoptionOld' = D!AdoptionOld
  BY <1>4, FileKinds DEF D!AdoptionOld, D!Has, D!Visible, D!Fits
<1>13. Adopts
  <2>1. CASE step = "fresh"
    <3>1. D!AdoptionCurrent = Garbage BY <2>1 DEF D!AdoptionCurrent
    <3> QED BY <1>1, <1>8, <1>9, <1>10, <1>11, <1>12, <3>1
            DEF Adopts, D!Adoption!Next, D!Adoption!Replace, ForeignDatabase
  <2>2. CASE step = "open" /\ fs["new"]["db"] = D!NoFile
    <3>1. D!AdoptionCurrent = None BY <2>2 DEF D!AdoptionCurrent, D!Has
    <3>2. D!AdoptionOld = None /\ (ForeignDatabase = None \/ torn)
      BY <2>2 DEF FileInv, Phases, AfterCopy, D!Has, D!AdoptionOld, ForeignDatabase
    <3> QED BY <1>1, <1>8, <1>9, <1>10, <1>11, <2>2, <3>1, <3>2
            DEF Adopts, D!Adoption!Next, D!Adoption!StartEmpty, ForeignDatabase
  <2>3. CASE step = "open" /\ fs["new"]["db"] = D!Empty
    <3>1. fs["new"]["wal"] = D!NoFile \/ fs["new"]["wal"].of = "half"
      BY <2>3, FileKinds DEF FileInv, Slots, LogFits, EmptyHasNoLog, D!Has, Db, Wal
    <3>2. D!AdoptionCurrent \in {{}, Garbage}
      BY <2>3, <3>1, FileKinds DEF D!AdoptionCurrent, D!Has, D!Readable, D!Visible, D!Fits
    <3>3. D!AdoptionStale = FALSE BY <3>2, Observed DEF D!AdoptionStale
    <3>4. CASE D!AdoptionCurrent = {}
      BY <1>1, <1>8, <1>9, <1>10, <1>12, <2>3, <3>3, <3>4
         DEF Adopts, D!Adoption!vars, ForeignDatabase
    <3>5. CASE D!AdoptionCurrent = Garbage
      BY <1>1, <1>8, <1>9, <1>10, <1>12, <2>3, <3>5
         DEF Adopts, D!Adoption!Next, D!Adoption!Replace, ForeignDatabase
    <3> QED BY <3>2, <3>4, <3>5
  <2> QED BY <1>1, <2>1, <2>2, <2>3
<1> QED BY <1>5, <1>6, <1>7, <1>13 DEF FileInv

LEMMA OpensDatabase == FileInv /\ D!OpenDatabase => FileInv' /\ Adopts
<1> SUFFICES ASSUME FileInv, D!OpenDatabase PROVE FileInv' /\ Adopts OBVIOUS
<1>1. /\ step = "open" /\ step' = "create" /\ moved' = moved /\ torn' = torn
      /\ fs["new"]["db"] # D!NoFile /\ D!Readable(fs["new"])
      /\ fs' = [fs EXCEPT !["new"] = fs["new"]]
  BY DEF D!OpenDatabase, D!Served
<1>2. fs' = fs BY <1>1 DEF FileInv, FilesTyped, Store
<1>3. FilesTyped' /\ Slots' /\ Adopts
  BY <1>1, <1>2, StepOnly DEF FileInv, FilesTyped, Labels, Aside, InCopy
<1>4. Phases'
  BY <1>1, <1>2
     DEF Phases, Served, Upgraded, Renaming, Copying, AfterCopy, SetAside, Opening, D!Has, D!Readable, D!Fits
<1> QED BY <1>3, <1>4 DEF FileInv

LEMMA OpensCorrupt == FileInv /\ D!OpenCorrupt => FileInv' /\ Adopts
<1> SUFFICES ASSUME FileInv, D!OpenCorrupt PROVE FileInv' /\ Adopts OBVIOUS
<1>1. /\ step = "open" /\ moved' = moved /\ torn' = torn
      /\ fs["new"]["db"] # D!NoFile /\ ~D!Readable(fs["new"])
      /\ \/ fs' = [fs EXCEPT !["new"]["db"] = D!NoFile] /\ step' = "aside_wal"
         \/ fs' = fs /\ step' = "off"
  BY DEF D!OpenCorrupt, D!Goto
<1>2. CASE fs' = fs /\ step' = "off"
  <2>1. FilesTyped' /\ Slots' /\ Adopts
    BY <1>1, <1>2, StepOnly DEF FileInv, FilesTyped, Labels, Aside, InCopy
  <2> QED BY <1>2, <2>1, OffIsIdle DEF FileInv
<1>3. CASE fs' = [fs EXCEPT !["new"]["db"] = D!NoFile] /\ step' = "aside_wal"
  <2>1. "new" \in D!Places /\ "db" \in D!Kinds BY Observed
  <2>2. /\ fs' \in Store
        /\ \A q \in D!Places, j \in D!Kinds :
             fs'[q][j] = IF q = "new" /\ j = "db" THEN D!NoFile ELSE fs[q][j]
    <3>1. D!NoFile \in D!File \cup {D!NoFile} OBVIOUS
    <3> QED BY <1>3, <2>1, <3>1, FilePut, Zenon
  <2>3. /\ fs'["new"]["db"] = D!NoFile
        /\ fs'["old"]["db"] = fs["old"]["db"] /\ fs'["foreign"]["db"] = fs["foreign"]["db"]
        /\ \A p \in D!Places : fs'[p]["wal"] = fs[p]["wal"]
    BY <2>2, Observed
  <2>4. fs["new"]["wal"] = D!NoFile \/ fs["new"]["wal"].of = "half"
    BY <1>1, FileKinds DEF FileInv, Slots, LogFits, D!Has, Db, Wal, D!Readable, D!Fits
  <2>5. FilesTyped' BY <1>1, <1>3, <2>2 DEF FileInv, FilesTyped, Labels
  <2>6. Slots'
    BY <2>3, <2>4, Observed, FileKinds
       DEF FileInv, Slots, Owned, StrayLog, LogFits, EmptyHasNoLog, Db, Wal, D!Has
  <2>7. Phases'
    BY <1>3, <2>3, <2>4, Observed
       DEF Phases, Served, Upgraded, Renaming, Copying, AfterCopy, SetAside, Opening, D!Has, Wal
  <2>8. D!AdoptionCurrent = Garbage BY <1>1 DEF D!AdoptionCurrent, D!Has
  <2>9. D!AdoptionCurrent' = Garbage BY <1>3 DEF D!AdoptionCurrent
  <2>10. D!AdoptionStale' = D!AdoptionStale BY <2>8, <2>9, Observed DEF D!AdoptionStale
  <2>11. ForeignDatabase' = ForeignDatabase
    BY <2>3, Observed DEF ForeignDatabase, D!Has, D!Visible
  <2>12. D!Has("old", "db") => fs["old"]["db"].of = "old" BY DEF FileInv, Slots, Owned, D!Has
  <2>13. D!AdoptionOld' = D!AdoptionOld
    BY <1>1, <2>3, <2>4, <2>12, FileKinds, Observed DEF D!AdoptionOld, D!Has, D!Visible, D!Fits
  <2>14. Adopts BY <1>1, <2>8, <2>9, <2>10, <2>11, <2>13 DEF Adopts, D!Adoption!vars, ForeignDatabase
  <2> QED BY <2>5, <2>6, <2>7, <2>14 DEF FileInv
<1> QED BY <1>1, <1>2, <1>3

\* A launch that ends, or is stopped, with the files as they are.
LEMMA LaunchEnds ==
  ASSUME FileInv, UNCHANGED <<fs, torn>>, ~InCopy, step' = "off", moved' \subseteq D!Sidecars
  PROVE  FileInv' /\ Adopts
<1>1. FilesTyped' /\ Slots' /\ (Aside' = Aside /\ InCopy' = InCopy => Adopts)
  BY StepOnly DEF Labels
<1>2. CASE ~Aside
  <2>1. Aside' = Aside /\ InCopy' = InCopy BY <1>2 DEF Aside, InCopy
  <2> QED BY <1>1, <2>1, OffIsIdle DEF FileInv
<1>3. CASE Aside
  <2>1. D!AdoptionCurrent = Garbage /\ D!AdoptionCurrent' = None
    BY <1>3 DEF Aside, FileInv, Phases, SetAside, D!AdoptionCurrent, D!Has
  <2>2. D!AdoptionOld' = D!AdoptionOld BY DEF D!AdoptionOld, D!Has, D!Visible, D!Fits
  <2>3. ForeignDatabase' = ForeignDatabase BY DEF ForeignDatabase, D!Has, D!Visible
  <2>4. D!AdoptionStale' \in BOOLEAN BY DEF D!AdoptionStale
  <2>5. Adopts
    BY <2>1, <2>2, <2>3, <2>4 DEF Adopts, D!Adoption!Next, D!Adoption!Replace, ForeignDatabase
  <2> QED BY <1>1, <2>5, OffIsIdle DEF FileInv
<1> QED BY <1>2, <1>3

LEMMA OpenGivesUp == FileInv /\ D!OpenFails => FileInv' /\ Adopts
<1> SUFFICES ASSUME FileInv, D!OpenFails PROVE FileInv' /\ Adopts OBVIOUS
<1>1. /\ UNCHANGED <<fs, torn, moved>> /\ step' = "off"
      /\ step \in {"open", "fresh", "create", "rebuild", "recreate", "add"}
  BY DEF D!OpenFails, D!Goto, D!files
<1>2. ~InCopy /\ moved' \subseteq D!Sidecars BY <1>1 DEF InCopy, FileInv, FilesTyped
<1> QED BY <1>1, <1>2, LaunchEnds

LEMMA SidecarAside ==
  ASSUME FileInv, NEW kind \in D!Sidecars, D!AsideSidecar(kind) PROVE FileInv' /\ Adopts
<1>1. /\ step = (IF kind = "wal" THEN "aside_wal" ELSE "aside_shm")
      /\ step' = (IF kind = "wal" THEN "aside_shm" ELSE "fresh")
      /\ moved' = moved /\ torn' = torn
      /\ fs' = fs \/ fs' = [fs EXCEPT !["new"][kind] = D!NoFile]
  BY DEF D!AsideSidecar, D!Goto
<1>2. /\ ~D!Has("new", "db")
      /\ fs["new"]["wal"] = D!NoFile \/ fs["new"]["wal"].of = "half"
  BY <1>1 DEF FileInv, Phases, SetAside, D!Has, Wal
<1>3. /\ fs' \in Store
      /\ \A p \in D!Places : fs'[p]["db"] = fs[p]["db"]
      /\ fs'["old"]["wal"] = fs["old"]["wal"] /\ fs'["foreign"]["wal"] = fs["foreign"]["wal"]
      /\ fs'["new"]["wal"] = fs["new"]["wal"] \/ fs'["new"]["wal"] = D!NoFile
  <2>1. CASE fs' = fs BY <2>1 DEF FileInv, FilesTyped
  <2>2. CASE fs' = [fs EXCEPT !["new"][kind] = D!NoFile]
    <3>1. "new" \in D!Places /\ kind \in D!Kinds /\ D!NoFile \in D!File \cup {D!NoFile}
      BY Observed DEF D!Kinds
    <3>2. /\ fs' \in Store
          /\ \A q \in D!Places, j \in D!Kinds :
               fs'[q][j] = IF q = "new" /\ j = kind THEN D!NoFile ELSE fs[q][j]
      BY <2>2, <3>1, FilePut, Zenon
    <3> QED BY <3>2, Observed DEF D!Sidecars
  <2> QED BY <1>1, <2>1, <2>2
<1>4. FilesTyped' BY <1>1, <1>3 DEF FileInv, FilesTyped, Labels
<1>5. Slots'
  BY <1>2, <1>3, Observed, FileKinds
     DEF FileInv, Slots, Owned, StrayLog, LogFits, EmptyHasNoLog, Db, Wal, D!Has
<1>6. Phases'
  BY <1>1, <1>2, <1>3, Observed
     DEF Phases, Served, Upgraded, Renaming, Copying, AfterCopy, SetAside, Opening, D!Has, Wal
<1>7. D!AdoptionCurrent = Garbage /\ D!AdoptionCurrent' = Garbage
  BY <1>1 DEF D!AdoptionCurrent
<1>8. D!AdoptionStale' = D!AdoptionStale BY <1>7, Observed DEF D!AdoptionStale
<1>9. ForeignDatabase' = ForeignDatabase
  BY <1>3, Observed DEF ForeignDatabase, D!Has, D!Visible
<1>10. D!Has("old", "db") => fs["old"]["db"].of = "old" BY DEF FileInv, Slots, Owned, D!Has
<1>11. D!AdoptionOld' = D!AdoptionOld
  BY <1>2, <1>3, <1>10, FileKinds, Observed DEF D!AdoptionOld, D!Has, D!Visible, D!Fits
<1>12. Adopts BY <1>1, <1>7, <1>8, <1>9, <1>11 DEF Adopts, D!Adoption!vars, ForeignDatabase
<1> QED BY <1>4, <1>5, <1>6, <1>12 DEF FileInv

\* A schema statement: the columns change, and nothing else of the files.
LEMMA ColumnsSet ==
  ASSUME FileInv, step \in {"create", "rebuild", "recreate", "add"},
         step' \in {"rebuild", "recreate", "add"},
         NEW c \in SUBSET D!Columns, c # {}, D!SetCols(c), moved' = moved, torn' = torn
  PROVE  FilesTyped' /\ Slots' /\ Served' /\ D!Cols' = c /\ Adopts
<1>1. /\ D!Has("new", "db") /\ D!Readable(fs["new"])
      /\ fs["new"]["db"] \in D!File
  BY Observed DEF FileInv, Phases, Served, Opening, D!Has
<1> DEFINE db == [fs["new"]["db"] EXCEPT !.cols = c]
<1>2. /\ db \in D!File /\ db.of = fs["new"]["db"].of /\ db.txns = fs["new"]["db"].txns
      /\ db.cols = c
  BY <1>1 DEF D!File
<1>3. fs' = [fs EXCEPT !["new"]["db"] = db]
  BY DEF D!SetCols
<1>4. /\ fs' \in Store
      /\ \A q \in D!Places, j \in D!Kinds :
           fs'[q][j] = IF q = "new" /\ j = "db" THEN db ELSE fs[q][j]
  <2>1. "new" \in D!Places /\ "db" \in D!Kinds /\ db \in D!File \cup {D!NoFile} BY <1>2, Observed
  <2> HIDE DEF db
  <2> QED BY <1>3, <2>1, FilePut, Zenon
<1>5. /\ fs'["new"]["db"] = db
      /\ fs'["old"]["db"] = fs["old"]["db"] /\ fs'["foreign"]["db"] = fs["foreign"]["db"]
      /\ \A p \in D!Places : fs'[p]["wal"] = fs[p]["wal"]
  BY <1>4, Observed
<1>6. db # D!NoFile /\ db # D!Empty BY <1>2, FileKinds
<1> HIDE DEF db
<1>7. FilesTyped' BY <1>4 DEF FileInv, FilesTyped, Labels
<1>8. Slots'
  BY <1>1, <1>2, <1>5, <1>6, Observed
     DEF FileInv, Slots, Owned, StrayLog, LogFits, EmptyHasNoLog, Db, Wal, D!Has
<1>9. D!Has("new", "db")' /\ D!Readable(fs'["new"])
  BY <1>1, <1>2, <1>5, <1>6, Observed DEF D!Has, D!Readable, D!Fits
<1>10. Served' BY <1>9 DEF Served
<1>11. D!Cols' = c BY <1>2, <1>5 DEF D!Cols
<1>12. D!AdoptionCurrent' = D!AdoptionCurrent
  <2>1. D!AdoptionCurrent = D!Visible(fs["new"]) BY <1>1 DEF D!AdoptionCurrent
  <2>2. D!AdoptionCurrent' = D!Visible(fs'["new"]) BY <1>9 DEF D!AdoptionCurrent
  <2>3. D!Visible(fs'["new"]) = D!Visible(fs["new"]) BY <1>2, <1>5, Observed DEF D!Visible
  <2> QED BY <2>1, <2>2, <2>3
<1>13. D!AdoptionCurrent # None BY <1>1, Observed DEF D!AdoptionCurrent
<1>14. D!AdoptionStale' = D!AdoptionStale BY <1>12, <1>13 DEF D!AdoptionStale
<1>15. D!AdoptionOld' = D!AdoptionOld
  BY <1>1, <1>5, <1>9, Observed DEF D!AdoptionOld, D!Has, D!Visible
<1>16. ForeignDatabase' = ForeignDatabase
  BY <1>5, Observed DEF ForeignDatabase, D!Has, D!Visible
<1>17. Adopts
  BY <1>12, <1>14, <1>15, <1>16 DEF Adopts, D!Adoption!vars, ForeignDatabase
<1> QED BY <1>7, <1>8, <1>10, <1>11, <1>17

SchemaSteps ==
  D!CreateTables \/ D!DropLogs \/ D!RecreateLogs \/ D!AddColumn \/ D!Opened

LEMMA SchemaSet == FileInv /\ SchemaSteps => FileInv' /\ Adopts
<1> SUFFICES ASSUME FileInv, SchemaSteps PROVE FileInv' /\ Adopts OBVIOUS
<1>1. D!Cols \subseteq D!Columns \/ ~D!Has("new", "db")
  <2>1. "new" \in D!Places /\ "db" \in D!Kinds BY Observed
  <2>2. fs["new"]["db"] \in D!File \/ ~D!Has("new", "db") BY <2>1, Observed DEF D!Has
  <2> QED BY <2>2 DEF D!File, D!Cols
<1>2. step \in Opening => D!Cols \subseteq D!Columns BY <1>1 DEF FileInv, Phases, Served
<1>3. step' \in Opening => Renaming' /\ Copying' /\ AfterCopy' /\ SetAside'
  BY DEF Renaming, Copying, AfterCopy, SetAside, Opening
<1>4. CASE D!CreateTables
  <2>1. step = "create" /\ step' = "rebuild" /\ moved' = moved /\ torn' = torn
    BY <1>4 DEF D!CreateTables, D!Goto
  <2>2. PICK c \in SUBSET D!Columns : D!SetCols(c) /\ {"tables", "logs"} \subseteq c
    <3>1. D!Cols \subseteq D!Columns BY <1>2, <2>1 DEF Opening
    <3>2. D!SetCols(D!Cols \cup {"tables", "logs"}
             \cup (IF "tables" \in D!Cols THEN {} ELSE {"identity"})
             \cup (IF "logs" \in D!Cols THEN {} ELSE {"nanos"}))
      BY <1>4 DEF D!CreateTables
    <3>3. (D!Cols \cup {"tables", "logs"}
             \cup (IF "tables" \in D!Cols THEN {} ELSE {"identity"})
             \cup (IF "logs" \in D!Cols THEN {} ELSE {"nanos"})) \subseteq D!Columns
      BY <3>1 DEF D!Columns
    <3> QED BY <3>2, <3>3
  <2>3. FilesTyped' /\ Slots' /\ Served' /\ D!Cols' = c /\ Adopts BY <2>1, <2>2, ColumnsSet
  <2>4. Upgraded' BY <2>1, <2>2, <2>3 DEF Upgraded
  <2> QED BY <1>3, <2>1, <2>3, <2>4 DEF FileInv, Phases, Opening
<1>5. CASE D!DropLogs
  <2>1. step = "rebuild" /\ moved' = moved /\ torn' = torn /\ {"tables", "logs"} \subseteq D!Cols
    BY <1>5 DEF D!DropLogs, FileInv, Phases, Upgraded
  <2>2. CASE "nanos" \in D!Cols
    <3>1. step' = "add" /\ fs' = fs BY <1>5, <2>2 DEF D!DropLogs, D!Goto
    <3>2. FilesTyped' /\ Slots' /\ Adopts
      BY <2>1, <3>1, StepOnly DEF FileInv, FilesTyped, Labels, Aside, InCopy
    <3>3. Served' /\ Upgraded'
      BY <2>1, <2>2, <3>1
         DEF FileInv, Phases, Served, Upgraded, Opening, D!Has, D!Readable, D!Fits, D!Cols
    <3> QED BY <1>3, <3>1, <3>2, <3>3 DEF FileInv, Phases, Opening
  <2>3. CASE "nanos" \notin D!Cols
    <3>1. step' = "recreate" /\ D!SetCols(D!Cols \ {"logs"})
      BY <1>5, <2>3 DEF D!DropLogs, D!Goto
    <3>2. D!Cols \ {"logs"} \in SUBSET D!Columns /\ "tables" \in D!Cols \ {"logs"}
      BY <1>2, <2>1 DEF Opening
    <3>3. FilesTyped' /\ Slots' /\ Served' /\ D!Cols' = D!Cols \ {"logs"} /\ Adopts
      BY <2>1, <3>1, <3>2, ColumnsSet
    <3>4. Upgraded' BY <3>1, <3>2, <3>3 DEF Upgraded
    <3> QED BY <1>3, <3>1, <3>3, <3>4 DEF FileInv, Phases, Opening
  <2> QED BY <2>2, <2>3
<1>6. CASE D!RecreateLogs
  <2>1. /\ step = "recreate" /\ step' = "add" /\ moved' = moved /\ torn' = torn
        /\ D!SetCols(D!Cols \cup {"logs", "nanos"}) /\ "tables" \in D!Cols
    BY <1>6 DEF D!RecreateLogs, D!Goto, FileInv, Phases, Upgraded
  <2>2. D!Cols \cup {"logs", "nanos"} \in SUBSET D!Columns
    BY <1>2, <2>1 DEF Opening, D!Columns
  <2>3. FilesTyped' /\ Slots' /\ Served' /\ D!Cols' = D!Cols \cup {"logs", "nanos"} /\ Adopts
    BY <2>1, <2>2, ColumnsSet
  <2>4. Upgraded' BY <2>1, <2>3 DEF Upgraded
  <2> QED BY <1>3, <2>1, <2>3, <2>4 DEF FileInv, Phases, Opening
<1>7. CASE D!AddColumn
  <2>1. /\ step = "add" /\ step' = "add" /\ moved' = moved /\ torn' = torn
        /\ {"tables", "logs", "nanos"} \subseteq D!Cols
    BY <1>7 DEF D!AddColumn, FileInv, Phases, Upgraded
  <2>2. PICK a \in D!Columns : D!SetCols(D!Cols \cup {a})
    BY <1>7 DEF D!AddColumn, D!Added, D!Columns
  <2>3. D!Cols \cup {a} \in SUBSET D!Columns BY <1>2, <2>1 DEF Opening
  <2>4. FilesTyped' /\ Slots' /\ Served' /\ D!Cols' = D!Cols \cup {a} /\ Adopts
    BY <2>1, <2>2, <2>3, ColumnsSet
  <2>5. Upgraded' BY <2>1, <2>4 DEF Upgraded
  <2> QED BY <1>3, <2>1, <2>4, <2>5 DEF FileInv, Phases, Opening
<1>8. CASE D!Opened
  <2>1. /\ step = "add" /\ step' = "running" /\ UNCHANGED <<fs, moved, torn>>
        /\ {"tables", "logs", "nanos"} \subseteq D!Cols
        /\ {"identity", "width", "mode"} \subseteq D!Cols
    BY <1>8 DEF D!Opened, D!Goto, D!files, FileInv, Phases, Upgraded
  <2>2. FilesTyped' /\ Slots' /\ Adopts
    BY <2>1, StepOnly DEF FileInv, FilesTyped, Labels, Aside, InCopy
  <2>3. D!Cols = D!Columns BY <1>2, <2>1 DEF Opening, D!Columns
  <2>4. Upgraded' BY <2>1, <2>3 DEF Upgraded, D!Cols
  <2>5. Served'
    BY <2>1 DEF FileInv, Phases, Served, Opening, D!Has, D!Readable, D!Fits
  <2> QED BY <1>3, <2>1, <2>2, <2>4, <2>5 DEF FileInv, Phases, Opening
<1> QED BY <1>4, <1>5, <1>6, <1>7, <1>8 DEF SchemaSteps

\* A commit goes to the log of the database that is open.
LEMMA Commits == FileInv /\ D!Commit => FileInv' /\ Adopts
<1> SUFFICES ASSUME FileInv, D!Commit PROVE FileInv' /\ Adopts OBVIOUS
<1>1. step = "running" /\ step' = step /\ moved' = moved /\ torn' = torn BY DEF D!Commit
<1>2. /\ D!Has("new", "db") /\ D!Readable(fs["new"]) /\ D!Cols = D!Columns
      /\ fs["new"]["db"] \in D!File /\ fs["new"]["db"].of \in D!Origins
  BY <1>1, Observed DEF FileInv, Phases, Served, Upgraded, Opening, D!Has, D!File
<1> DEFINE before == IF fs["new"]["wal"] = D!NoFile THEN {} ELSE fs["new"]["wal"].txns
           w == [of |-> fs["new"]["db"].of, txns |-> before \cup {"later"}, cols |-> {}]
           m == [of |-> fs["new"]["db"].of, txns |-> {}, cols |-> {}]
<1>3. /\ w \in D!File /\ m \in D!File
      /\ w.of = fs["new"]["db"].of /\ w.txns = fs["new"]["wal"].txns \cup {"later"}
  <2>1. before = fs["new"]["wal"].txns BY FileKinds
  <2>2. before \cup {"later"} \subseteq D!Txns BY <2>1, Observed DEF D!Txns
  <2> HIDE DEF before
  <2> QED BY <1>2, <2>1, <2>2 DEF D!File
<1>4. fs' = [fs EXCEPT !["new"]["wal"] = w, !["new"]["shm"] = m]
  BY DEF D!Commit
<1> HIDE DEF w, m
<1>5. /\ fs' \in Store
      /\ fs'["new"]["wal"] = w
      /\ fs'["old"] = fs["old"] /\ fs'["foreign"] = fs["foreign"]
      /\ fs'["new"]["db"] = fs["new"]["db"]
  BY <1>3, <1>4 DEF FileInv, FilesTyped, Store, D!Places, D!Kinds, D!Sidecars
<1>6. FilesTyped' BY <1>1, <1>5 DEF FileInv, FilesTyped
<1>7. fs["new"]["db"] # D!Empty
  BY <1>2, FileKinds DEF D!Cols, D!Columns
<1>8. Slots'
  BY <1>2, <1>3, <1>5, <1>7, FileKinds
     DEF FileInv, Slots, Owned, StrayLog, LogFits, EmptyHasNoLog, Db, Wal, D!Has
<1>9. D!Has("new", "db")' /\ D!Readable(fs'["new"]) /\ D!Cols' = D!Columns
  BY <1>2, <1>3, <1>5 DEF D!Has, D!Readable, D!Fits, D!Cols
<1>10. Phases'
  BY <1>1, <1>9 DEF Phases, Served, Upgraded, Renaming, Copying, AfterCopy, SetAside, Opening
<1>11. D!AdoptionCurrent = D!Visible(fs["new"]) BY <1>1, <1>2 DEF D!AdoptionCurrent
<1>12. D!AdoptionCurrent' = D!Visible(fs["new"]) \cup {"later"}
  <2>1. D!AdoptionCurrent' = D!Visible(fs'["new"]) BY <1>1, <1>9 DEF D!AdoptionCurrent
  <2> QED BY <1>3, <1>5, <2>1 DEF D!Visible
<1>13. D!AdoptionCurrent' \in SUBSET D!Txns BY <1>12, Observed DEF D!Txns
<1>14. D!AdoptionStale' = D!AdoptionStale
  BY <1>11, <1>13, Observed DEF D!AdoptionStale
<1>15. D!AdoptionOld' = D!AdoptionOld
  BY <1>2, <1>5, <1>9 DEF D!AdoptionOld, D!Has, D!Visible
<1>16. ForeignDatabase' = ForeignDatabase BY <1>5 DEF ForeignDatabase, D!Has, D!Visible
<1>17. D!Adoption!Commit("later")
  BY <1>1, <1>11, <1>12, <1>14, <1>15, <1>16, Observed DEF D!Adoption!Commit, ForeignDatabase
<1>18. Adopts BY <1>17 DEF Adopts, D!Adoption!Next, D!Txns
<1> QED BY <1>6, <1>8, <1>10, <1>18 DEF FileInv

\* A clean close keeps what the database and its log hold together.
LEMMA Closes == FileInv /\ D!Close => FileInv' /\ Adopts
<1> SUFFICES ASSUME FileInv, D!Close PROVE FileInv' /\ Adopts OBVIOUS
<1> DEFINE db == [fs["new"]["db"] EXCEPT !.txns = D!Visible(fs["new"])]
           d == [D!Absent EXCEPT !["db"] = db]
<1>1. /\ step = "running" /\ step' = "off" /\ moved' = moved /\ torn' = torn
      /\ fs' = [fs EXCEPT !["new"] = d]
  BY DEF D!Close, D!Goto
<1>2. /\ D!Has("new", "db") /\ D!Readable(fs["new"]) /\ fs["new"]["db"] \in D!File
      /\ fs["new"]["db"].of # "half"
  BY <1>1, Observed DEF FileInv, Phases, Served, Opening, D!Has, D!Readable
<1>3. db \in D!File /\ db.of = fs["new"]["db"].of /\ db.txns = D!Visible(fs["new"])
  BY <1>2, Observed DEF D!File
<1> HIDE DEF db
<1>4. /\ d \in [D!Kinds -> D!File \cup {D!NoFile}] /\ d["db"] = db /\ d["wal"] = D!NoFile
  BY <1>3 DEF D!Absent, D!Kinds, D!Sidecars
<1> HIDE DEF d
<1>5. /\ fs' \in Store /\ fs'["new"]["db"] = db /\ fs'["new"]["wal"] = D!NoFile
      /\ fs'["old"] = fs["old"] /\ fs'["foreign"] = fs["foreign"]
  BY <1>1, <1>4, Renewed
<1>6. FilesTyped' BY <1>1, <1>5 DEF FileInv, FilesTyped, Labels
<1>7. db # D!NoFile BY <1>3, FileKinds
<1>8. Slots'
  BY <1>5, <1>7, FileKinds DEF FileInv, Slots, Owned, StrayLog, LogFits, EmptyHasNoLog, Db, Wal, D!Has
<1>9. D!AdoptionCurrent = D!Visible(fs["new"]) BY <1>1, <1>2 DEF D!AdoptionCurrent
<1>10. D!AdoptionCurrent' = D!Visible(fs["new"])
  BY <1>1, <1>2, <1>3, <1>5, <1>7, FileKinds DEF D!AdoptionCurrent, D!Has, D!Readable, D!Visible
<1>11. D!AdoptionStale' = D!AdoptionStale BY <1>9, <1>10, Observed DEF D!AdoptionStale
<1>12. D!AdoptionOld' = D!AdoptionOld
  BY <1>2, <1>5, <1>7 DEF D!AdoptionOld, D!Has, D!Visible
<1>13. ForeignDatabase' = ForeignDatabase BY <1>5 DEF ForeignDatabase, D!Has, D!Visible
<1>14. Adopts
  BY <1>1, <1>9, <1>10, <1>11, <1>12, <1>13 DEF Adopts, D!Adoption!vars, ForeignDatabase
<1> QED BY <1>1, <1>6, <1>8, <1>14, OffIsIdle DEF FileInv

LEMMA Damages == FileInv /\ D!Damage => FileInv' /\ Adopts
<1> SUFFICES ASSUME FileInv, D!Damage PROVE FileInv' /\ Adopts OBVIOUS
<1> DEFINE w == IF fs["new"]["wal"] = D!NoFile THEN fs["new"]["wal"]
                ELSE [fs["new"]["wal"] EXCEPT !.of = "half"]
<1>1. /\ step = "off" /\ step' = "off" /\ moved' = moved /\ torn' = torn
      /\ D!Has("new", "db") /\ fs["new"]["db"] # D!NoFile
  BY DEF D!Damage, D!Has
<1>2. fs' = [fs EXCEPT !["new"]["db"] = D!Half, !["new"]["wal"] = w]
  BY DEF D!Damage, FileInv, FilesTyped, Store, D!Places, D!Kinds, D!Sidecars
<1>3. w \in D!File \cup {D!NoFile} /\ (w = D!NoFile \/ w.of = "half")
  <2>1. CASE fs["new"]["wal"] = D!NoFile BY <2>1
  <2>2. CASE fs["new"]["wal"] # D!NoFile
    <3>1. fs["new"]["wal"] \in D!File BY <2>2, Observed
    <3> QED BY <2>2, <3>1 DEF D!File, D!Origins
  <2> QED BY <2>1, <2>2
<1> HIDE DEF w
<1>4. /\ fs' \in Store /\ fs'["new"]["db"] = D!Half /\ fs'["new"]["wal"] = w
      /\ fs'["old"] = fs["old"] /\ fs'["foreign"] = fs["foreign"]
  BY <1>2, <1>3, FileKinds DEF FileInv, FilesTyped, Store, D!Places, D!Kinds, D!Sidecars
<1>5. FilesTyped' BY <1>1, <1>4 DEF FileInv, FilesTyped
<1>6. D!Half # D!NoFile /\ D!Half # D!Empty BY FileKinds
<1>7. Slots'
  BY <1>3, <1>4, <1>6, FileKinds
     DEF FileInv, Slots, Owned, StrayLog, LogFits, EmptyHasNoLog, Db, Wal, D!Has
<1>8. D!AdoptionCurrent # None
  BY <1>1, Observed DEF D!AdoptionCurrent
<1>9. D!AdoptionCurrent' = Garbage
  BY <1>1, <1>4, <1>6, FileKinds DEF D!AdoptionCurrent, D!Has, D!Readable
<1>10. D!AdoptionStale' = D!AdoptionStale BY <1>8, <1>9, Observed DEF D!AdoptionStale
<1>11. D!AdoptionOld' = D!AdoptionOld
  BY <1>1, <1>4, <1>6 DEF D!AdoptionOld, D!Has, D!Visible
<1>12. ForeignDatabase' = ForeignDatabase BY <1>4 DEF ForeignDatabase, D!Has, D!Visible
<1>13. D!Adoption!Damage
  BY <1>1, <1>8, <1>9, <1>10, <1>11, <1>12 DEF D!Adoption!Damage, ForeignDatabase
<1> QED BY <1>1, <1>5, <1>7, <1>13, OffIsIdle DEF FileInv, Adopts, D!Adoption!Next

\* Stopped while it copies, the launch leaves a part of the copy, or nothing.
LEMMA CopyCut ==
  ASSUME FileInv, step = "copy", D!Has("foreign", "db"), ~D!Has("new", "db"),
         NEW rest \in {D!Empty, D!Half}, fs' = [fs EXCEPT !["new"]["db"] = rest], torn' = TRUE,
         step' = "off", moved' = {}
  PROVE  FileInv' /\ Adopts
<1>1. /\ ~D!Has("old", "db") /\ fs["old"]["db"] = D!NoFile /\ fs["foreign"]["db"] # D!NoFile
      /\ fs["new"]["wal"] = D!NoFile \/ fs["new"]["wal"].of = "half"
  BY DEF FileInv, Phases, Renaming, Slots, StrayLog, D!Has, Wal
<1>2. /\ fs' \in Store
      /\ \A q \in D!Places, j \in D!Kinds :
           fs'[q][j] = IF q = "new" /\ j = "db" THEN rest ELSE fs[q][j]
  <2>1. "new" \in D!Places /\ "db" \in D!Kinds /\ rest \in D!File \cup {D!NoFile}
    BY Observed, FileKinds
  <2> QED BY <2>1, FilePut, Zenon
<1>3. /\ fs'["new"]["db"] = rest
      /\ fs'["old"]["db"] = fs["old"]["db"] /\ fs'["foreign"]["db"] = fs["foreign"]["db"]
      /\ \A p \in D!Places : fs'[p]["wal"] = fs[p]["wal"]
  BY <1>2, Observed
<1>4. FilesTyped' BY <1>2 DEF FileInv, FilesTyped, Labels
<1>5. Slots'
  BY <1>1, <1>3, Observed, FileKinds
     DEF FileInv, Slots, Owned, StrayLog, LogFits, EmptyHasNoLog, Db, Wal, D!Has
<1>6. D!AdoptionOld = None /\ D!AdoptionOld' = None /\ D!AdoptionCurrent = None
  BY <1>1, <1>3, Observed DEF D!AdoptionOld, D!AdoptionCurrent, D!Has
<1>7. D!AdoptionCurrent' \in {{}, Garbage}
  BY <1>1, <1>3, FileKinds, Observed DEF D!AdoptionCurrent, D!Has, D!Readable, D!Visible, D!Fits
<1>8. D!AdoptionStale' = FALSE BY <1>7, Observed DEF D!AdoptionStale
<1>9. ForeignDatabase # None /\ ForeignDatabase' = ForeignDatabase
  BY <1>3, Observed DEF ForeignDatabase, D!Has, D!Visible
<1>10. D!AdoptionCurrent' \in {Garbage} \cup SUBSET ForeignDatabase BY <1>7
<1>11. torn' \in (IF torn THEN {TRUE} ELSE BOOLEAN) OBVIOUS
<1>12. D!Adoption!Adopt
  BY <1>6, <1>8, <1>9, <1>10, <1>11 DEF D!Adoption!Adopt, ForeignDatabase
<1> QED BY <1>4, <1>5, <1>12, OffIsIdle DEF FileInv, Adopts, D!Adoption!Next

LEMMA LogPut ==
  ASSUME FileInv, NEW w \in D!File \cup {D!NoFile}, fs' = [fs EXCEPT !["new"]["wal"] = w]
  PROVE  /\ fs' \in Store
         /\ \A q \in D!Places, j \in D!Kinds :
              fs'[q][j] = IF q = "new" /\ j = "wal" THEN w ELSE fs[q][j]
<1>1. "new" \in D!Places /\ "wal" \in D!Kinds BY Observed
<1> QED BY <1>1, FilePut, Zenon

\* Stopped between the database and its sidecars.
LEMMA SidecarCut ==
  ASSUME FileInv, InCopy, step' = "off", moved' = {}, torn' \in BOOLEAN, torn => torn',
         step = "copy_wal" => torn',
         \/ fs' = fs
         \/ /\ fs' = D!Partly("wal") /\ torn'
            /\ D!Has("foreign", "wal") /\ ~D!Has("new", "wal")
  PROVE  FileInv' /\ Adopts
<1>1. ~InCopy' /\ ~Aside' /\ step' \in Labels /\ moved' \subseteq D!Sidecars
  BY DEF InCopy, Aside, Labels
<1>2. /\ D!Has("new", "db") /\ Db("new").of = "foreign"
      /\ step = "copy_shm" =>
           /\ Wal("new").of = "foreign" => Wal("new").txns \subseteq Wal("foreign").txns
           /\ torn \/ Wal("new").of = "half" \/ Wal("new") = Wal("foreign")
      /\ step = "copy_wal" => fs["new"]["wal"] = D!NoFile \/ fs["new"]["wal"].of = "half"
  BY DEF InCopy, FileInv, Phases, Slots, Copying, Owned, D!Has, Db, Wal
<1>3. CASE fs' = fs
  <2>1. /\ fs["new"]["wal"] \in D!File \cup {D!NoFile}
        /\ fs["new"]["wal"] = D!NoFile \/ fs["new"]["wal"].of \in {"half", "foreign"}
    BY <1>2, Observed DEF FileInv, Slots, LogFits, Db, Wal, D!Has
  <2>2. /\ fs["new"]["wal"].of = "foreign" =>
             fs["new"]["wal"].txns \subseteq fs["foreign"]["wal"].txns
        /\ torn' \/ fs["new"]["wal"].of = "half" \/ fs["new"]["wal"] = fs["foreign"]["wal"]
    BY <1>2, FileKinds DEF InCopy, Wal
  <2>3. /\ fs' \in Store /\ fs'["new"]["wal"] = fs["new"]["wal"]
        /\ fs'["old"]["wal"] = fs["old"]["wal"] /\ fs'["foreign"]["wal"] = fs["foreign"]["wal"]
        /\ \A p \in D!Places : fs'[p]["db"] = fs[p]["db"]
    BY <1>3 DEF FileInv, FilesTyped
  <2>4. FilesTyped' /\ Slots' /\ Adopts BY <1>1, <2>1, <2>2, <2>3, CopyEnds
  <2> QED BY <2>4, OffIsIdle DEF FileInv
<1>4. CASE fs' = D!Partly("wal") /\ torn' /\ D!Has("foreign", "wal") /\ ~D!Has("new", "wal")
  <2> DEFINE w == [fs["foreign"]["wal"] EXCEPT !.txns = {}]
  <2>1. fs["foreign"]["wal"] \in D!File /\ fs["foreign"]["wal"].of = "foreign"
    BY <1>4, Observed DEF FileInv, Slots, Owned, D!Has
  <2>2. w \in D!File \cup {D!NoFile} /\ w.of = "foreign" /\ w.txns = {} BY <2>1 DEF D!File
  <2>3. fs' = [fs EXCEPT !["new"]["wal"] = w] BY <1>4 DEF D!Partly
  <2> HIDE DEF w
  <2>4. /\ fs' \in Store
        /\ \A q \in D!Places, j \in D!Kinds :
             fs'[q][j] = IF q = "new" /\ j = "wal" THEN w ELSE fs[q][j]
    BY <2>2, <2>3, LogPut
  <2>5. /\ fs'["new"]["wal"] = w
        /\ fs'["old"]["wal"] = fs["old"]["wal"] /\ fs'["foreign"]["wal"] = fs["foreign"]["wal"]
        /\ \A p \in D!Places : fs'[p]["db"] = fs[p]["db"]
    BY <2>4, Observed
  <2>6. w.of = "foreign" => w.txns \subseteq fs["foreign"]["wal"].txns BY <2>2
  <2>7. w = D!NoFile \/ w.of \in {"half", "foreign"} BY <2>2
  <2>8. FilesTyped' /\ Slots' /\ Adopts BY <1>1, <1>4, <2>2, <2>4, <2>5, <2>6, <2>7, CopyEnds
  <2> QED BY <2>8, OffIsIdle DEF FileInv
<1> QED BY <1>3, <1>4

LEMMA Crashes == FileInv /\ D!Crash => FileInv' /\ Adopts
<1> SUFFICES ASSUME FileInv, D!Crash PROVE FileInv' /\ Adopts OBVIOUS
<1>1. step' = "off" /\ moved' = {} /\ moved' \subseteq D!Sidecars BY DEF D!Crash, D!Goto
<1>2. CASE step = "copy" /\ D!Has("foreign", "db") /\ ~D!Has("new", "db")
  <2>1. \/ UNCHANGED <<fs, torn>>
        \/ \E rest \in {D!Empty, D!Half} : fs' = [fs EXCEPT !["new"]["db"] = rest] /\ torn' = TRUE
    BY <1>2 DEF D!Crash
  <2>2. CASE UNCHANGED <<fs, torn>> BY <1>1, <1>2, <2>2, LaunchEnds DEF InCopy
  <2>3. ASSUME NEW rest \in {D!Empty, D!Half}, fs' = [fs EXCEPT !["new"]["db"] = rest], torn' = TRUE
        PROVE  FileInv' /\ Adopts
    BY <1>1, <1>2, <2>3, CopyCut
  <2> QED BY <2>1, <2>2, <2>3
<1>3. CASE step = "copy_wal"
  <2>1. torn' = TRUE /\ (\/ fs' = fs
                         \/ /\ fs' = D!Partly("wal")
                            /\ D!Has("foreign", "wal") /\ ~D!Has("new", "wal"))
    BY <1>3 DEF D!Crash
  <2>2. InCopy /\ torn' \in BOOLEAN BY <1>3, <2>1 DEF InCopy
  <2> QED BY <1>1, <2>1, <2>2, SidecarCut
<1>4. CASE step # "copy_wal" /\ ~(step = "copy" /\ D!Has("foreign", "db") /\ ~D!Has("new", "db"))
  <2>1. UNCHANGED <<fs, torn>> BY <1>4 DEF D!Crash
  <2>2. CASE InCopy
    <3>1. torn' \in BOOLEAN /\ (torn => torn') BY <2>1 DEF FileInv, FilesTyped
    <3> QED BY <1>1, <1>4, <2>1, <2>2, <3>1, SidecarCut
  <2>3. CASE ~InCopy BY <1>1, <2>1, <2>3, LaunchEnds
  <2> QED BY <2>2, <2>3
<1> QED BY <1>2, <1>3, <1>4

LEMMA TreeCopied == FileInv /\ D!CopyTree => FileInv' /\ Adopts
<1> SUFFICES ASSUME FileInv, D!CopyTree PROVE FileInv' /\ Adopts OBVIOUS
<1>1. step = "tree" /\ step' = "keys" /\ UNCHANGED <<fs, torn, moved>>
  BY DEF D!CopyTree, D!Goto
<1> QED BY <1>1, KeysLeaveFiles

LEMMA KeySteps == FileInv /\ (D!MigrateKeys \/ \E a \in Accounts : D!UserSetsKey(a)) => FileInv' /\ Adopts
<1> SUFFICES ASSUME FileInv, D!MigrateKeys \/ \E a \in Accounts : D!UserSetsKey(a)
             PROVE FileInv' /\ Adopts
  OBVIOUS
<1>1. /\ UNCHANGED <<fs, torn, moved>>
      /\ step \in {"tree", "keys", "key", "cleanup", "running"}
      /\ step' \in {"keys", "key", "cleanup", "open"} \/ step' = step
      /\ step = "running" => step' = step
  BY DEF D!MigrateKeys, D!KeysBegin, D!KeyCleanedUp, D!KeysEnd, D!KeyStays, D!KeyWritten,
         D!UserSetsKey, D!files, D!Goto
<1> QED BY <1>1, KeysLeaveFiles

LEMMA FileStep ==
  FileInv /\ [MCNext]_<<part, vars, launchVars>> => FileInv' /\ Adopts
<1> SUFFICES ASSUME FileInv, [MCNext]_<<part, vars, launchVars>> PROVE FileInv' /\ Adopts OBVIOUS
<1>1. CASE UNCHANGED launchVars
  <2>1. UNCHANGED <<fs, torn, step, moved>> BY <1>1 DEF launchVars
  <2>2. FilesTyped' /\ Slots' /\ Adopts
    BY <2>1, StepOnly DEF FileInv, FilesTyped, Aside, InCopy
  <2>3. Phases'
    BY <2>1 DEF FileInv, Phases, Served, Upgraded, Renaming, Copying, AfterCopy, SetAside, Opening,
                D!Has, D!Readable, D!Fits, D!Cols, Db, Wal
  <2> QED BY <2>2, <2>3 DEF FileInv
<1>2. CASE D!Rename
  BY <1>2, RenameLooks, DatabaseMoves, MovesBack, SidecarMoves DEF D!Rename
<1>3. CASE D!Copy
  BY <1>3, DatabaseCopied, TreeCopied, LogCopied, CopyIsOver DEF D!Copy, D!Sidecars
<1>4. CASE D!Open
  BY <1>4, OpensEmpty, OpensDatabase, OpensCorrupt, OpenGivesUp, SidecarAside, SchemaSet
     DEF D!Open, SchemaSteps
<1>5. CASE D!Work BY <1>5, Commits, Closes, KeySteps DEF D!Work
<1> QED
  BY <1>1, <1>2, <1>3, <1>4, <1>5, LaunchStep, KeySteps, Crashes, Damages
     DEF MCNext, Kickstarting, Launching, launchVars

\* Whenever the program works, its database has every table and column, wherever an earlier
\* upgrade was cut off, from any earlier schema (storage.rs:147-231).
THEOREM SchemaIsComplete == MCSpec => []SchemaComplete
<1>1. FileInv => SchemaComplete
  BY DEF FileInv, Phases, Upgraded, SchemaComplete, D!SchemaComplete
<1>2. FileInv /\ [MCNext]_<<part, vars, launchVars>> => FileInv' BY FileStep
<1> QED BY <1>1, <1>2, FileInit, PTL DEF MCSpec

LEMMA AdoptionBegins == MCInit => D!Adoption!Init
<1> SUFFICES ASSUME MCInit PROVE D!Adoption!Init OBVIOUS
<1>1. FileInv BY FileInit
<1>2. D!Init BY DEF MCInit
<1>3. step = "off" /\ torn = FALSE BY <1>2 DEF D!Init
<1>4. PICK f \in D!Leftovers("foreign"), o \in D!Leftovers("old"), n \in D!Leftovers("new") :
        fs = [p \in D!Places |-> CASE p = "foreign" -> f [] p = "old" -> o [] p = "new" -> n]
  BY <1>2 DEF D!Init
<1>5. fs["new"] = n BY <1>4 DEF D!Places
<1>6. fs["new"]["wal"].of # "half"
  <2>1. n["wal"] = D!NoFile \/ n["wal"].of = "new" BY LeftoversAre
  <2> QED BY <1>5, <2>1, FileKinds
<1>7. D!AdoptionStale = FALSE BY <1>6 DEF D!AdoptionStale
<1>8. D!AdoptionOld \in {None} \cup SUBSET D!Txns
  BY <1>1, Observed DEF D!AdoptionOld
<1>9. D!AdoptionCurrent \in {None} \cup SUBSET D!Txns
  <2>1. D!Has("new", "db") => D!Readable(fs["new"])
    <3>1. /\ n["db"] = D!NoFile \/ n["db"].of = "new"
          /\ n["wal"] = D!NoFile \/ n["wal"].of = "new"
      BY LeftoversAre
    <3> QED BY <1>5, <3>1 DEF D!Has, D!Readable, D!Fits
  <2> QED BY <1>1, <1>3, <2>1, Observed DEF D!AdoptionCurrent
<1>10. ForeignDatabase \in {None} \cup SUBSET D!Txns
  BY <1>1, Observed DEF ForeignDatabase
<1> QED
  BY <1>3, <1>7, <1>8, <1>9, <1>10 DEF D!Adoption!Init, D!Adoption!Databases, ForeignDatabase

\* The launch implements the atomic adoption of DataAdoption, for any number of accounts and
\* files and any earlier schema: wherever it is stopped and whatever fails, no transaction of
\* the user's own database is lost or seen in part (migration.rs:182-228, lib.rs:303).
THEOREM LaunchAdoptsAtomically == MCSpec => AdoptsAtomically
<1>1. FileInv /\ [MCNext]_<<part, vars, launchVars>>
        => FileInv' /\ [D!Adoption!Next]_(D!Adoption!vars)
  BY FileStep DEF Adopts
<1>2. MCSpec => D!Adoption!Spec
  BY <1>1, FileInit, AdoptionBegins, PTL DEF MCSpec, D!Adoption!Spec
<1> QED BY <1>2 DEF AdoptsAtomically, D!AdoptsAtomically
===============================================================================
