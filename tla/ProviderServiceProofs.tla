----------------------- MODULE ProviderServiceProofs -----------------------
(***************************************************************************)
(* Type correctness of ProviderService, for every set of calls and         *)
(* flights, and the facts about its steps the other proofs build on.       *)
(***************************************************************************)
EXTENDS ProviderService, TLAPS
USE DEF FreshCall, FreshRun, CallAt, CallGoes, Return, RunAt, RunGoes, RunEnds, NextAttempt

\* The program starts with every variable in its range.
LEMMA TypeInit == Init => TypeOK
<1> SUFFICES ASSUME Init PROVE TypeOK OBVIOUS
<1>1. PICK f \in Flights : /\ flightOf = IF registered THEN f ELSE NoFlight
                           /\ used = IF registered THEN {f} ELSE {}
  BY DEF Init
<1>2. registered \in BOOLEAN /\ tracked \in BOOLEAN /\ cached \in Nat /\ loaded \in Nat
  BY DEF Init
<1>3. flightOf \in Flights \cup {NoFlight} /\ used \subseteq Flights
  BY <1>1, <1>2
<1>4. view \in View
  BY DEF Init, View, ViewOfCache, DefaultView
<1>5. admin \in AdminPC /\ freshMark \in BOOLEAN /\ failMark \in BOOLEAN
  <2>1. admin = "live" \/ admin = "absent" BY DEF Init
  <2> QED BY <2>1 DEF Init, AdminPC
<1>6. flight \in [Flights -> FlightState] /\ published \in [Flights -> Nat]
  BY DEF Init, NewFlight, FlightState
<1>7. call \in [Callers -> CallState] 
  BY DEF Init, CallState, CallerPC
<1>7a. \A c \in Callers : call[c].pc \notin {"join", "waiting"}
  BY DEF Init
<1>8. run \in [Callers -> RunState]
  BY DEF Init, RunState, RunnerPC, OwnerPC
<1>8a. \A r \in Callers : run[r].pc \notin {"publishLast"} \cup OwnerPC
  BY DEF Init, OwnerPC
<1>9. begun \in Nat /\ merged \subseteq Flights \X Nat \X Nat /\ waived \subseteq Flights \X Nat
  BY DEF Init
<1> QED BY <1>2, <1>3, <1>4, <1>5, <1>6, <1>7, <1>7a, <1>8, <1>8a, <1>9 DEF TypeOK

\* The lock sections keep the flight's state well formed.
LEMMA FlightOps ==
  ASSUME NEW s \in FlightState, NEW g \in Nat
  PROVE  /\ Max2(s.requested, g) \in Nat
         /\ Started(s) \in FlightState
         /\ FollowUpQueued(s) \in FlightState
         /\ Settled(s, g) \in FlightState
         /\ [Settled(s, g) EXCEPT !.abandons = 0] \in FlightState
         /\ SettledLate(s, g) \in FlightState
         /\ GivenUp(s, g) \in FlightState
         /\ [GivenUp(s, g) EXCEPT !.requested = g, !.abandons = @ + 1] \in FlightState
<1>1. /\ s.requested \in Nat /\ s.attempt \in Nat /\ s.completed \in Nat /\ s.abandons \in Nat
      /\ s.active \in BOOLEAN
  BY DEF FlightState
<1>2. s.completed + 1 \in Nat /\ s.attempt + 1 \in Nat /\ s.abandons + 1 \in Nat /\ g + 1 \in Nat
  BY <1>1
<1>3. \A m, n \in Nat : Max2(m, n) \in Nat BY DEF Max2
<1>4. Started(s) \in FlightState BY <1>2 DEF Started, FlightState
<1>5. FollowUpQueued(s) \in FlightState BY <1>1, <1>2, <1>3 DEF FollowUpQueued, FlightState
<1>6. \A n \in Nat : [s EXCEPT !.completed = g, !.attempt = n] \in FlightState
  BY DEF FlightState
<1>7. Settled(s, g) \in FlightState BY <1>2, <1>6 DEF Settled, FlightState
<1>8. [Settled(s, g) EXCEPT !.abandons = 0] \in FlightState BY <1>7 DEF FlightState
<1>9. SettledLate(s, g) \in FlightState BY DEF SettledLate, FlightState
<1>10. GivenUp(s, g) \in FlightState BY DEF GivenUp, FlightState
<1>11. [GivenUp(s, g) EXCEPT !.requested = g, !.abandons = @ + 1] \in FlightState
  <2>1. GivenUp(s, g).abandons + 1 \in Nat BY <1>10 DEF FlightState
  <2> QED BY <1>10, <2>1 DEF FlightState
<1> QED BY <1>1, <1>3, <1>4, <1>5, <1>7, <1>8, <1>9, <1>10, <1>11

\* The service's own state does not enter the coordination: a step that leaves
\* the coordination alone need only keep the service's types.
ServiceTypeOK ==
    /\ registered \in BOOLEAN /\ tracked \in BOOLEAN
    /\ flightOf \in Flights \cup {NoFlight} /\ used \subseteq Flights
    /\ view \in View
    /\ freshMark \in BOOLEAN /\ failMark \in BOOLEAN
    /\ cached \in Nat /\ loaded \in Nat
    /\ admin \in AdminPC

CallTypeOK ==
    /\ call \in [Callers -> CallState]
    /\ \A c \in Callers : call[c].pc \in {"join", "waiting"} => call[c].flight \in Flights

RunTypeOK ==
    /\ run \in [Callers -> RunState]
    /\ \A r \in Callers : run[r].pc \in {"publishLast"} \cup OwnerPC => run[r].flight \in Flights

FlightTypeOK ==
    /\ flight \in [Flights -> FlightState]
    /\ published \in [Flights -> Nat]

HistoryTypeOK ==
    /\ begun \in Nat
    /\ merged \subseteq Flights \X Nat \X Nat
    /\ waived \subseteq Flights \X Nat

\* TypeOK, part by part: a step usually disturbs one part only.
LEMMA TypeParts ==
  TypeOK <=> ServiceTypeOK /\ CallTypeOK /\ RunTypeOK /\ FlightTypeOK /\ HistoryTypeOK
BY DEF TypeOK, ServiceTypeOK, CallTypeOK, RunTypeOK, FlightTypeOK, HistoryTypeOK

\* The parts after a step make TypeOK after it.
LEMMA TypeNext ==
  ASSUME ServiceTypeOK', CallTypeOK', RunTypeOK', FlightTypeOK', HistoryTypeOK'
  PROVE  TypeOK'
BY DEF TypeOK, ServiceTypeOK, CallTypeOK, RunTypeOK, FlightTypeOK, HistoryTypeOK

\* Steps that leave a part alone keep its types: the service,
LEMMA ServiceKept == ASSUME ServiceTypeOK, UNCHANGED service PROVE ServiceTypeOK'
BY DEF ServiceTypeOK, service, membership, bookkeeping
\* the calls,
LEMMA CallKept == ASSUME CallTypeOK, UNCHANGED call PROVE CallTypeOK'
BY DEF CallTypeOK
\* the runners,
LEMMA RunKept == ASSUME RunTypeOK, UNCHANGED run PROVE RunTypeOK'
BY DEF RunTypeOK
\* the flights,
LEMMA FlightKept == ASSUME FlightTypeOK, UNCHANGED <<flight, published>> PROVE FlightTypeOK'
BY DEF FlightTypeOK
\* and the history.
LEMMA HistoryKept == ASSUME HistoryTypeOK, UNCHANGED history PROVE HistoryTypeOK'
BY DEF HistoryTypeOK, history

\* A call may be given any well-formed locals that hold a flight when it waits.
LEMMA SetCallType ==
  ASSUME CallTypeOK, NEW c \in Callers, NEW state \in CallState, SetCall(c, state),
         state.pc \in {"join", "waiting"} => state.flight \in Flights
  PROVE  CallTypeOK'
BY DEF CallTypeOK, SetCall

\* A runner may be given any well-formed locals that hold a flight while it runs.
LEMMA SetRunType ==
  ASSUME RunTypeOK, NEW r \in Callers, NEW state \in RunState, SetRun(r, state),
         state.pc \in {"publishLast"} \cup OwnerPC => state.flight \in Flights
  PROVE  RunTypeOK'
BY DEF RunTypeOK, SetRun

\* A flight may be given any well-formed state, and publish any generation.
LEMMA SetFlightType ==
  ASSUME FlightTypeOK, NEW f \in Flights, NEW state \in FlightState, SetFlight(f, state),
         UNCHANGED published \/ \E g \in Nat : PublishTo(f, g)
  PROVE  FlightTypeOK'
BY DEF FlightTypeOK, SetFlight, PublishTo

\* The locals a call or a runner begins and ends with are well formed.
LEMMA FreshRecords ==
  /\ \A pc \in CallerPC : FreshCall(pc) \in CallState
  /\ \A pc \in RunnerPC, f \in Flights \cup {NoFlight} : FreshRun(pc, f) \in RunState
BY DEF CallState, RunState

\* Every step of refresh() keeps the types.
LEMMA TypeCaller ==
  ASSUME TypeOK, NEW c \in Callers, Call(c) \/ CallerStep(c)
  PROVE  TypeOK'
<1>1. ServiceTypeOK /\ CallTypeOK /\ RunTypeOK /\ FlightTypeOK /\ HistoryTypeOK
  BY TypeParts
<1>2. call[c] \in CallState BY <1>1 DEF CallTypeOK
<1>3. Return(c) => CallTypeOK'
  BY <1>1, SetCallType, FreshRecords DEF CallerPC
<1>4. \A pc \in CallerPC \ {"join", "waiting"} : CallGoes(c, pc) => CallTypeOK'
  <2>1. \A pc \in CallerPC : [call[c] EXCEPT !.pc = pc] \in CallState
    BY <1>2 DEF CallState
  <2>2. \A pc \in CallerPC : [call[c] EXCEPT !.pc = pc].pc = pc
    BY <1>2 DEF CallState
  <2> QED BY <1>1, <2>1, <2>2, SetCallType
<1>5. CASE Call(c)
  <2>1. PICK force \in BOOLEAN :
          IF registered
          THEN SetCall(c, [call[c] EXCEPT !.pc = IF force THEN "lookup" ELSE "fresh",
                                          !.forced = force])
          ELSE Return(c)
    BY <1>5 DEF Call
  <2>2. CallTypeOK'
    <3> DEFINE pc == IF force THEN "lookup" ELSE "fresh"
    <3>1. pc \in CallerPC /\ pc \notin {"join", "waiting"} BY DEF CallerPC
    <3> HIDE DEF pc
    <3> DEFINE state == [call[c] EXCEPT !.pc = pc, !.forced = force]
    <3>2. state \in CallState /\ state.pc = pc BY <1>2, <3>1 DEF CallState
    <3>3. SetCall(c, state) \/ Return(c) BY <1>1, <2>1 DEF pc
    <3> HIDE DEF state
    <3> QED BY <1>1, <1>3, <3>1, <3>2, <3>3, SetCallType
  <2> QED BY <1>1, <1>5, <2>2, ServiceKept, RunKept, FlightKept, HistoryKept, TypeNext DEF Call
<1>6. CASE CheckFresh(c) \/ CheckBackoff(c) \/ Wake(c)
  <2>1. Return(c) \/ CallGoes(c, "backoff") \/ CallGoes(c, "lookup")
    BY <1>6 DEF CheckFresh, CheckBackoff, Wake
  <2>2. CallTypeOK' BY <1>3, <1>4, <2>1 DEF CallerPC
  <2> QED BY <1>1, <1>6, <2>2, ServiceKept, RunKept, FlightKept, HistoryKept, TypeNext
          DEF CheckFresh, CheckBackoff, Wake
<1>7. CASE Lookup(c)
  <2> DEFINE state == [call[c] EXCEPT !.pc = "join", !.flight = flightOf]
  <2>1. Return(c) \/ (SetCall(c, state) /\ flightOf # NoFlight) BY <1>7 DEF Lookup
  <2>2. flightOf # NoFlight => flightOf \in Flights BY <1>1 DEF ServiceTypeOK
  <2>3. flightOf \in Flights => state \in CallState /\ state.flight = flightOf
    BY <1>2 DEF CallState, CallerPC
  <2> HIDE DEF state
  <2>4. CallTypeOK' BY <1>1, <1>3, <2>1, <2>2, <2>3, SetCallType
  <2> QED BY <1>1, <1>7, <2>4, ServiceKept, RunKept, FlightKept, HistoryKept, TypeNext DEF Lookup
<1>8. CASE Join(c)
  <2> DEFINE f == call[c].flight
  <2>0. f \in Flights BY <1>1, <1>8 DEF Join, CallTypeOK
  <2>1. /\ flight[f] \in FlightState
        /\ \A g \in Nat : WaitFor(c, g) => CallTypeOK'
    <3>1. flight[f] \in FlightState BY <1>1, <2>0 DEF FlightTypeOK
    <3>2. ASSUME NEW g \in Nat, WaitFor(c, g) PROVE CallTypeOK'
      <4> DEFINE state == [call[c] EXCEPT !.pc = "waiting", !.target = g, !.joinedAt = begun]
      <4>1. begun \in Nat BY <1>1 DEF HistoryTypeOK
      <4>2. state \in CallState /\ state.flight = f BY <1>2, <4>1 DEF CallState, CallerPC
      <4>3. SetCall(c, state) BY <3>2 DEF WaitFor
      <4> HIDE DEF state
      <4> QED BY <1>1, <2>0, <4>2, <4>3, SetCallType
    <3> QED BY <3>1, <3>2
  <2> HIDE DEF f
  <2>a. UNCHANGED <<service, published, history>> BY <1>8 DEF Join
  <2>2. /\ flight[f].completed \in Nat /\ flight[f].attempt \in Nat
        /\ FollowUpQueued(flight[f]) \in FlightState /\ Started(flight[f]) \in FlightState
    BY <2>1, FlightOps DEF FlightState
  <2>3. CASE StartRunner(c, f)
    <3>1. FreshRun("spawned", f) \in RunState
      BY <2>0, FreshRecords DEF RunnerPC, OwnerPC
    <3>2. RunTypeOK'
      <4> DEFINE state == FreshRun("spawned", f)
      <4>1. state.flight = f /\ state \in RunState /\ SetRun(c, state) BY <2>3, <3>1 DEF StartRunner
      <4> HIDE DEF state
      <4> QED BY <1>1, <2>0, <4>1, SetRunType
    <3>3. CallTypeOK' BY <2>1, <2>2, <2>3 DEF StartRunner
    <3>4. FlightTypeOK' BY <1>1, <2>0, <2>2, <2>3, <2>a, SetFlightType DEF StartRunner
    <3> QED BY <1>1, <2>a, <3>2, <3>3, <3>4, ServiceKept, HistoryKept, TypeNext
  <2>4. CASE ReturnWhileDraining(c, f)
    BY <1>1, <1>3, <2>4, <2>a, ServiceKept, HistoryKept, RunKept, FlightKept, TypeNext
       DEF ReturnWhileDraining
  <2>5. CASE QueueFollowUp(c, f)
    <3>1. FollowUpQueued(flight[f]).requested \in Nat BY <2>2 DEF FlightState
    <3>2. CallTypeOK' /\ UNCHANGED run /\ SetFlight(f, FollowUpQueued(flight[f]))
      BY <2>1, <2>5, <3>1 DEF QueueFollowUp
    <3>3. FlightTypeOK' BY <1>1, <2>0, <2>2, <2>a, <3>2, SetFlightType
    <3> QED BY <1>1, <2>a, <3>2, <3>3, ServiceKept, HistoryKept, RunKept, TypeNext
  <2>6. CASE ShareAttempt(c, f)
    BY <1>1, <2>1, <2>2, <2>6, <2>a, ServiceKept, HistoryKept, RunKept, FlightKept, TypeNext
       DEF ShareAttempt
  <2> QED BY <1>8, <2>3, <2>4, <2>5, <2>6 DEF Join, f
<1> QED BY <1>5, <1>6, <1>7, <1>8 DEF CallerStep

\* A runner that owns its flight moves on within its attempt.
LEMMA RunGoesType ==
  ASSUME RunTypeOK, NEW r \in Callers, run[r].pc \in OwnerPC,
         NEW pc \in OwnerPC \cup {"publishLast"}, RunGoes(r, pc)
  PROVE  RunTypeOK'
<1> DEFINE state == [run[r] EXCEPT !.pc = pc]
<1>1. run[r] \in RunState /\ run[r].flight \in Flights /\ pc \in RunnerPC
  BY DEF RunTypeOK, RunnerPC
<1>2. state \in RunState /\ state.flight \in Flights /\ SetRun(r, state)
  BY <1>1 DEF RunState
<1> HIDE DEF state
<1> QED BY <1>2, SetRunType

\* A runner that ends, or goes on with the next attempt, keeps the types.
LEMMA RunEndsType ==
  ASSUME RunTypeOK, NEW r \in Callers,
         RunEnds(r) \/ (NextAttempt(r) /\ run[r].pc \in OwnerPC)
  PROVE  RunTypeOK'
<1>1. CASE RunEnds(r)
  <2> DEFINE state == FreshRun("ended", NoFlight)
  <2>1. state \in RunState /\ state.pc \notin {"publishLast"} \cup OwnerPC /\ SetRun(r, state)
    BY <1>1, FreshRecords DEF RunnerPC, OwnerPC
  <2> HIDE DEF state
  <2> QED BY <2>1, SetRunType
<1>2. CASE NextAttempt(r) /\ run[r].pc \in OwnerPC
  <2> DEFINE state == FreshRun("begin", run[r].flight)
  <2>1. run[r].flight \in Flights BY <1>2 DEF RunTypeOK
  <2>2. state \in RunState /\ state.flight \in Flights /\ SetRun(r, state)
    BY <1>2, <2>1, FreshRecords DEF RunnerPC, OwnerPC
  <2> HIDE DEF state
  <2> QED BY <2>2, SetRunType
<1> QED BY <1>1, <1>2

\* Every step of run_refresh_flight keeps the types.
LEMMA TypeRunner ==
  ASSUME TypeOK, NEW r \in Callers, RunnerStep(r) \/ WorkerStep(r)
  PROVE  TypeOK'
<1>1. ServiceTypeOK /\ CallTypeOK /\ RunTypeOK /\ FlightTypeOK /\ HistoryTypeOK
  BY TypeParts
<1> DEFINE f == run[r].flight
<1>2. run[r] \in RunState /\ run[r].gen \in Nat /\ run[r].serial \in Nat
  BY <1>1 DEF RunTypeOK, RunState
<1>3. run[r].pc \in OwnerPC \cup {"publishLast"} => f \in Flights
  BY <1>1 DEF RunTypeOK
<1>4. f \in Flights => /\ flight[f] \in FlightState
                       /\ flight[f].requested \in Nat /\ flight[f].completed \in Nat
                       /\ flight[f].attempt \in Nat
  BY <1>1 DEF FlightTypeOK, FlightState
<1> HIDE DEF f
<1>5. CASE FindRuntime(r)
  <2>1. RunTypeOK' BY <1>1, <1>5, RunGoesType DEF FindRuntime, OwnerPC
  <2> QED BY <1>1, <1>5, <2>1, ServiceKept, CallKept, FlightKept, HistoryKept, TypeNext
          DEF FindRuntime
<1>6. CASE SettleWithoutRuntime(r)
  <2> DEFINE all == Max2(flight[f].requested, flight[f].completed)
  <2>1. f \in Flights BY <1>3, <1>6 DEF SettleWithoutRuntime, OwnerPC
  <2>2. all \in Nat /\ GivenUp(flight[f], all) \in FlightState
    BY <1>4, <2>1, FlightOps
  <2>3. /\ SetFlight(f, GivenUp(flight[f], all)) /\ PublishTo(f, all) /\ RunEnds(r)
        /\ waived' = waived \cup {<<f, g>> : g \in (flight[f].completed + 1)..all}
        /\ UNCHANGED <<service, call, begun, merged>>
    BY <1>6 DEF SettleWithoutRuntime, f
  <2> HIDE DEF all
  <2>4. FlightTypeOK' BY <1>1, <2>1, <2>2, <2>3, SetFlightType
  <2>5. RunTypeOK' BY <1>1, <2>3, RunEndsType
  <2>6. HistoryTypeOK'
    <3>1. \A g \in (flight[f].completed + 1)..all : g \in Nat BY <1>4, <2>1, <2>2
    <3> QED BY <1>1, <2>1, <2>3, <3>1 DEF HistoryTypeOK
  <2> QED BY <1>1, <2>3, <2>4, <2>5, <2>6, ServiceKept, CallKept, TypeNext
<1>7. CASE BeginAttempt(r)
  <2> DEFINE state == [run[r] EXCEPT !.pc = "working", !.serial = begun + 1,
                                     !.gen = flight[f].attempt]
  <2>1. f \in Flights BY <1>3, <1>7 DEF BeginAttempt, OwnerPC
  <2>2. begun + 1 \in Nat /\ "working" \in RunnerPC BY <1>1 DEF HistoryTypeOK, RunnerPC, OwnerPC
  <2>3. state \in RunState /\ state.flight = f
    BY <1>2, <1>4, <2>1, <2>2 DEF RunState, f
  <2>4. SetRun(r, state) BY <1>7 DEF BeginAttempt, f
  <2> HIDE DEF state
  <2>5. RunTypeOK' BY <1>1, <2>1, <2>3, <2>4, SetRunType
  <2>6. view' \in View
    <3>1. [view EXCEPT !.refreshing = TRUE, !.error = FALSE] \in View
      BY <1>1 DEF ServiceTypeOK, View
    <3>2. view' = [view EXCEPT !.refreshing = TRUE, !.error = FALSE] \/ view' = view
      BY <1>1, <1>7 DEF BeginAttempt, UpdateState, ServiceTypeOK
    <3> QED BY <1>1, <3>1, <3>2 DEF ServiceTypeOK
  <2>7. UNCHANGED <<membership, bookkeeping, cached, flight, published, call, merged, waived>>
    BY <1>7 DEF BeginAttempt
  <2>8. ServiceTypeOK' BY <1>1, <2>6, <2>7 DEF ServiceTypeOK, membership, bookkeeping
  <2>9. HistoryTypeOK' BY <1>1, <1>7, <2>2, <2>7 DEF HistoryTypeOK, BeginAttempt
  <2> QED BY <1>1, <2>5, <2>7, <2>8, <2>9, CallKept, FlightKept, TypeNext
<1>8. CASE WorkerReturns(r)
  <2> DEFINE state == [run[r] EXCEPT !.pc = "apply", !.result = "fail"]
  <2>1. f \in Flights /\ run[r].pc \in OwnerPC BY <1>3, <1>8 DEF WorkerReturns, OwnerPC
  <2>2. state \in RunState /\ state.flight = f
    BY <1>2 DEF RunState, RunnerPC, OwnerPC, f
  <2>3. RunGoes(r, "save") \/ SetRun(r, state) BY <1>8 DEF WorkerReturns
  <2> HIDE DEF state
  <2>4. RunTypeOK'
    <3>1. CASE RunGoes(r, "save") BY <1>1, <2>1, <3>1, RunGoesType DEF OwnerPC
    <3>2. CASE SetRun(r, state) BY <1>1, <2>1, <2>2, <3>2, SetRunType
    <3> QED BY <2>3, <3>1, <3>2
  <2> QED BY <1>1, <1>8, <2>4, ServiceKept, CallKept, FlightKept, HistoryKept, TypeNext
          DEF WorkerReturns
<1>9. CASE TimeOut(r)
  <2> DEFINE state == [run[r] EXCEPT !.pc = "apply", !.result = "fail", !.late = TRUE]
  <2>1. f \in Flights BY <1>3, <1>9 DEF TimeOut, OwnerPC
  <2>2. state \in RunState /\ state.flight = f
    BY <1>2 DEF RunState, RunnerPC, OwnerPC, f
  <2>3. SetRun(r, state) BY <1>9 DEF TimeOut
  <2> HIDE DEF state
  <2>4. RunTypeOK' BY <1>1, <2>1, <2>2, <2>3, SetRunType
  <2> QED BY <1>1, <1>9, <2>4, ServiceKept, CallKept, FlightKept, HistoryKept, TypeNext
          DEF TimeOut
<1>10. CASE SaveSnapshot(r)
  <2>1. PICK result \in {"ok", "uncached", "fail"} :
          /\ SetRun(r, [run[r] EXCEPT !.pc = "apply", !.result = result])
          /\ cached' = IF result = "ok" THEN run[r].serial ELSE cached
    BY <1>10 DEF SaveSnapshot
  <2> DEFINE state == [run[r] EXCEPT !.pc = "apply", !.result = result]
  <2>2. f \in Flights BY <1>3, <1>10 DEF SaveSnapshot, OwnerPC
  <2>3. state \in RunState /\ state.flight = f
    BY <1>2 DEF RunState, RunnerPC, OwnerPC, f
  <2>4. SetRun(r, state) BY <2>1
  <2> HIDE DEF state
  <2>5. RunTypeOK' BY <1>1, <2>2, <2>3, <2>4, SetRunType
  <2>6. UNCHANGED <<membership, view, bookkeeping, flight, published, call, history>>
    BY <1>10 DEF SaveSnapshot
  <2>7. ServiceTypeOK'
    BY <1>1, <1>2, <2>1, <2>6 DEF ServiceTypeOK, membership, bookkeeping
  <2> QED BY <1>1, <2>5, <2>6, <2>7, CallKept, FlightKept, HistoryKept, TypeNext
<1>11. CASE ApplyResult(r)
  <2>1. f \in Flights /\ run[r].pc \in OwnerPC BY <1>3, <1>11 DEF ApplyResult, OwnerPC
  <2>2. RunTypeOK' BY <1>1, <1>11, <2>1, RunGoesType DEF ApplyResult, OwnerPC
  <2>3. view' \in View
    <3>1. MergeRefreshResult(run[r].result, run[r].serial) \in View
      BY <1>1, <1>2 DEF MergeRefreshResult, ServiceTypeOK, View
    <3>2. view' = MergeRefreshResult(run[r].result, run[r].serial) \/ view' = view
      BY <1>1, <1>11 DEF ApplyResult, UpdateState, ServiceTypeOK
    <3> QED BY <1>1, <3>1, <3>2 DEF ServiceTypeOK
  <2>4. UNCHANGED <<membership, bookkeeping, cached, flight, published, call, begun, waived>>
    BY <1>11 DEF ApplyResult
  <2>5. ServiceTypeOK' BY <1>1, <2>3, <2>4 DEF ServiceTypeOK, membership, bookkeeping
  <2>6. HistoryTypeOK' BY <1>1, <1>2, <1>11, <2>1, <2>4 DEF HistoryTypeOK, ApplyResult, f
  <2> QED BY <1>1, <2>2, <2>4, <2>5, <2>6, CallKept, FlightKept, TypeNext
<1>12. CASE ReadBack(r)
  <2> DEFINE res == IF view.error THEN "fail" ELSE "ok"
  <2> DEFINE state == [run[r] EXCEPT !.pc = "track", !.result = res]
  <2>1. f \in Flights /\ res \in {"ok", "fail"} BY <1>3, <1>12 DEF ReadBack, OwnerPC
  <2> HIDE DEF res
  <2>2. state \in RunState /\ state.flight = f
    BY <1>2, <2>1 DEF RunState, RunnerPC, OwnerPC, f
  <2>3. SetRun(r, state) BY <1>12 DEF ReadBack, res
  <2> HIDE DEF state
  <2>4. RunTypeOK' BY <1>1, <2>1, <2>2, <2>3, SetRunType
  <2> QED BY <1>1, <1>12, <2>4, ServiceKept, CallKept, FlightKept, HistoryKept, TypeNext
          DEF ReadBack
<1>13. CASE CheckTracked(r)
  <2> DEFINE pc == IF ~tracked THEN "settle"
                   ELSE IF run[r].result = "ok" THEN "markLive" ELSE "markFailed"
  <2>1. pc \in OwnerPC BY DEF OwnerPC
  <2>2. RunGoes(r, pc) /\ run[r].pc \in OwnerPC BY <1>13 DEF CheckTracked, OwnerPC
  <2> HIDE DEF pc
  <2>3. RunTypeOK' BY <1>1, <2>1, <2>2, RunGoesType
  <2> QED BY <1>1, <1>13, <2>3, ServiceKept, CallKept, FlightKept, HistoryKept, TypeNext
          DEF CheckTracked
<1>14. CASE MarkLive(r) \/ ClearFailed(r) \/ MarkFailed(r)
  <2>1. /\ run[r].pc \in OwnerPC
        /\ RunGoes(r, "clearFailed") \/ RunGoes(r, "settle")
    BY <1>14 DEF MarkLive, ClearFailed, MarkFailed, OwnerPC
  <2>2. RunTypeOK' BY <1>1, <2>1, RunGoesType DEF OwnerPC
  <2>3. /\ UNCHANGED <<membership, view, cached, flight, published, call, history>>
        /\ freshMark' \in BOOLEAN /\ failMark' \in BOOLEAN
    BY <1>1, <1>14 DEF MarkLive, ClearFailed, MarkFailed, ServiceTypeOK
  <2>4. ServiceTypeOK' BY <1>1, <2>3 DEF ServiceTypeOK, membership
  <2> QED BY <1>1, <2>2, <2>3, <2>4, CallKept, FlightKept, HistoryKept, TypeNext
<1>15. CASE SettleInTime(r)
  <2>1. f \in Flights /\ run[r].pc \in OwnerPC BY <1>3, <1>15 DEF SettleInTime, OwnerPC
  <2>2. SetFlight(f, Settled(flight[f], run[r].gen)) /\ UNCHANGED published
    BY <1>15 DEF SettleInTime, f
  <2>3. FlightTypeOK' BY <1>1, <1>2, <1>4, <2>1, <2>2, FlightOps, SetFlightType
  <2>4. RunGoes(r, "publishMore") \/ RunGoes(r, "publishLast")
    BY <1>15 DEF SettleInTime
  <2>5. RunTypeOK' BY <1>1, <2>1, <2>4, RunGoesType DEF OwnerPC
  <2> QED BY <1>1, <1>15, <2>3, <2>5, ServiceKept, CallKept, HistoryKept, TypeNext
          DEF SettleInTime
<1>16. CASE Publish(r)
  <2>1. f \in Flights BY <1>3, <1>16 DEF Publish, OwnerPC
  <2>2. FlightTypeOK' BY <1>1, <1>2, <1>16, <2>1 DEF Publish, PublishTo, FlightTypeOK, f
  <2>3. RunEnds(r) \/ (NextAttempt(r) /\ run[r].pc \in OwnerPC) BY <1>16 DEF Publish, OwnerPC
  <2>4. RunTypeOK' BY <1>1, <2>3, RunEndsType
  <2> QED BY <1>1, <1>16, <2>2, <2>4, ServiceKept, CallKept, HistoryKept, TypeNext DEF Publish
<1>17. CASE SettleLate(r)
  <2>1. f \in Flights /\ run[r].pc \in OwnerPC BY <1>3, <1>17 DEF SettleLate, OwnerPC
  <2>2. SetFlight(f, SettledLate(flight[f], run[r].gen)) /\ UNCHANGED published
    BY <1>17 DEF SettleLate, f
  <2>3. FlightTypeOK' BY <1>1, <1>2, <1>4, <2>1, <2>2, FlightOps, SetFlightType
  <2>4. RunTypeOK' BY <1>1, <1>17, <2>1, RunGoesType DEF SettleLate, OwnerPC
  <2> QED BY <1>1, <1>17, <2>3, <2>4, ServiceKept, CallKept, HistoryKept, TypeNext
          DEF SettleLate
<1>18. CASE PublishLate(r)
  <2>1. f \in Flights /\ run[r].pc \in OwnerPC BY <1>3, <1>18 DEF PublishLate, OwnerPC
  <2>2. FlightTypeOK' BY <1>1, <1>2, <1>18, <2>1 DEF PublishLate, PublishTo, FlightTypeOK, f
  <2>3. RunTypeOK' BY <1>1, <1>18, <2>1, RunGoesType DEF PublishLate, OwnerPC
  <2> QED BY <1>1, <1>18, <2>2, <2>3, ServiceKept, CallKept, HistoryKept, TypeNext
          DEF PublishLate
<1>19. CASE Abandon(r)
  <2> DEFINE all == Max2(flight[f].requested, run[r].gen)
  <2>1. f \in Flights BY <1>3, <1>19 DEF Abandon, OwnerPC
  <2> DEFINE state == [GivenUp(flight[f], all) EXCEPT !.requested = all, !.abandons = @ + 1]
  <2>2. all \in Nat /\ state \in FlightState
    BY <1>2, <1>4, <2>1, FlightOps
  <2>3. /\ SetFlight(f, state) /\ PublishTo(f, all) /\ RunEnds(r)
        /\ waived' = waived \cup {<<f, g>> : g \in (run[r].gen + 1)..all}
        /\ UNCHANGED <<service, call, begun, merged>>
    BY <1>19 DEF Abandon, f
  <2> HIDE DEF all, state
  <2>4. FlightTypeOK' BY <1>1, <2>1, <2>2, <2>3, SetFlightType
  <2>5. RunTypeOK' BY <1>1, <2>3, RunEndsType
  <2>6. HistoryTypeOK'
    <3>1. \A g \in (run[r].gen + 1)..all : g \in Nat BY <1>2, <2>2
    <3> QED BY <1>1, <2>1, <2>3, <3>1 DEF HistoryTypeOK
  <2> QED BY <1>1, <2>3, <2>4, <2>5, <2>6, ServiceKept, CallKept, TypeNext
<1>20. CASE Drained(r)
  <2>1. f \in Flights BY <1>3, <1>20 DEF Drained, OwnerPC
  <2>2. /\ SetFlight(f, [Settled(flight[f], run[r].gen) EXCEPT !.abandons = 0])
        /\ UNCHANGED published
    BY <1>20 DEF Drained, f
  <2>3. FlightTypeOK' BY <1>1, <1>2, <1>4, <2>1, <2>2, FlightOps, SetFlightType
  <2>4. RunEnds(r) \/ (NextAttempt(r) /\ run[r].pc \in OwnerPC) BY <1>20 DEF Drained, OwnerPC
  <2>5. RunTypeOK' BY <1>1, <2>4, RunEndsType
  <2> QED BY <1>1, <1>20, <2>3, <2>5, ServiceKept, CallKept, HistoryKept, TypeNext DEF Drained
<1> QED BY <1>5, <1>6, <1>7, <1>8, <1>9, <1>10, <1>11, <1>12, <1>13, <1>14, <1>15, <1>16,
           <1>17, <1>18, <1>19, <1>20 DEF RunnerStep, WorkerStep

\* The add and remove commands and the passing of time change the service only.
LEMMA ServiceOnly ==
  ASSUME AdminStep \/ FreshExpires \/ BackoffExpires
  PROVE  UNCHANGED <<flight, published, call, run, history>>
BY DEF AdminStep, AdminGoes, FreshExpires, BackoffExpires, RegistryAdd, LoadCached, InsertState,
       InsertFlight, Reconcile, RegistryRemove, DropState, DropFlight, DropFresh, DropFailed,
       Deregister

\* Adding and removing an account, and the passing of time, keep the types.
LEMMA TypeService ==
  ASSUME TypeOK, AdminStep \/ FreshExpires \/ BackoffExpires
  PROVE  TypeOK'
<1>1. ServiceTypeOK /\ CallTypeOK /\ RunTypeOK /\ FlightTypeOK /\ HistoryTypeOK
  BY TypeParts
<1>2. UNCHANGED <<flight, published, call, run, history>> BY ServiceOnly
<1>3. ServiceTypeOK'
  <2> USE <1>1 DEF ServiceTypeOK, bookkeeping, membership, AdminGoes, AdminPC
  <2>1. CASE RegistryAdd BY <2>1 DEF RegistryAdd
  <2>2. CASE LoadCached BY <2>2 DEF LoadCached
  <2>3. CASE InsertState
    <3>1. ViewOfCache(loaded) \in View BY DEF ViewOfCache, DefaultView, View
    <3> QED BY <2>3, <3>1 DEF InsertState
  <2>4. CASE InsertFlight BY <2>4 DEF InsertFlight
  <2>5. CASE Reconcile BY <2>5 DEF Reconcile
  <2>6. CASE RegistryRemove BY <2>6 DEF RegistryRemove
  <2>7. CASE DropState
    <3>1. DefaultView \in View BY DEF DefaultView, View
    <3> QED BY <2>7, <3>1 DEF DropState
  <2>8. CASE DropFlight BY <2>8 DEF DropFlight
  <2>9. CASE DropFresh BY <2>9 DEF DropFresh
  <2>10. CASE DropFailed BY <2>10 DEF DropFailed
  <2>11. CASE Deregister BY <2>11 DEF Deregister
  <2>12. CASE FreshExpires BY <2>12 DEF FreshExpires
  <2>13. CASE BackoffExpires BY <2>13 DEF BackoffExpires
  <2> QED BY <2>1, <2>2, <2>3, <2>4, <2>5, <2>6, <2>7, <2>8, <2>9, <2>10, <2>11, <2>12, <2>13
          DEF AdminStep
<1> QED BY <1>1, <1>2, <1>3, CallKept, RunKept, FlightKept, HistoryKept, TypeNext

\* Every step keeps the types.
LEMMA TypeStep == TypeOK /\ [Next]_vars => TypeOK'
<1> SUFFICES ASSUME TypeOK, [Next]_vars PROVE TypeOK' OBVIOUS
<1>1. CASE UNCHANGED vars
  BY <1>1 DEF vars, TypeOK
<1>2. CASE Next
  BY <1>2, TypeCaller, TypeRunner, TypeService DEF Next
<1> QED BY <1>1, <1>2

\* ProviderService never leaves its types, and whoever joins or runs holds a flight.
THEOREM TypeCorrect == Spec => []TypeOK
BY TypeInit, TypeStep, PTL DEF Spec
============================================================================
