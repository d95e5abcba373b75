----------------------- MODULE ProviderServiceSafety -----------------------
(***************************************************************************)
(* The coordination of calls and runners, for every set of calls and       *)
(* flights: one runner per flight, no generation skipped or repeated,      *)
(* forced calls coalesce and every call is served by the right attempt.    *)
(* Then the card: what it shows against what is saved and the backoff.     *)
(***************************************************************************)
EXTENDS ProviderServiceProofs

USE DEF FreshCall, FreshRun, CallAt, CallGoes, Return, RunAt, RunGoes, RunEnds, NextAttempt

\* The parts of the invariant a step must restore.
Parts == SingleRunner /\ FlightShape /\ RunnerShape /\ HistoryShape
           /\ GenerationMergedOnce /\ CallShape

\* Nothing has started yet, so there is nothing to coordinate.
LEMMA CoordinatedInit == Init => Coordinated
<1> SUFFICES ASSUME Init PROVE Coordinated OBVIOUS
<1>1. TypeOK BY TypeInit
<1>2. \A r \in Callers : run[r].pc = "none" /\ call[r].pc = "idle" BY DEF Init
<1>3. \A f \in Flights : /\ published[f] = 0 /\ flight[f].completed = 0 
                         /\ flight[f].active = FALSE /\ flight[f].attempt = 0
  BY DEF Init, NewFlight
<1>4. merged = {} /\ waived = {} BY DEF Init
<1>5. SingleRunner BY <1>2 DEF SingleRunner, Owns, OwnerPC
<1>6. FlightShape BY <1>3 DEF FlightShape, FlightInStep
<1>7. RunnerShape BY <1>2 DEF RunnerShape, RunnerInStep, OwnerPC, MergingPC, MergedPC, DrainPC
<1>8. HistoryShape BY <1>3, <1>4 DEF HistoryShape
<1>9. GenerationMergedOnce BY <1>4 DEF GenerationMergedOnce
<1>10. CallShape BY <1>2 DEF CallShape
<1> QED BY <1>1, <1>5, <1>6, <1>7, <1>8, <1>9, <1>10 DEF Coordinated

\* A call that does not come to wait disturbs nothing.
LEMMA CallMoves ==
  ASSUME Coordinated, NEW c \in Callers, NEW state, SetCall(c, state),
         state.pc # "waiting",
         call[c].pc \in {"waiting", "returned"} => state.pc = "returned",
         UNCHANGED <<flight, published, run, history>>
  PROVE  Parts'
<1>1. \A d \in Callers : call'[d] = IF d = c THEN state ELSE call[d]
  BY DEF Coordinated, TypeOK, SetCall
<1>2. CallShape'
  <2>1. UNCHANGED <<run, begun, merged>> BY DEF history
  <2>2. \A d \in Callers : call'[d].pc = "waiting" => call'[d] = call[d]
    BY <1>1
  <2> QED BY <2>1, <2>2 DEF Coordinated, CallShape, MergingPC
<1>3. SingleRunner' BY DEF Coordinated, SingleRunner, Owns
<1>4. FlightShape' /\ RunnerShape' BY <1>1 DEF Coordinated, FlightShape, FlightInStep, RunnerShape, RunnerInStep, history
<1>5. HistoryShape' /\ GenerationMergedOnce'
  BY DEF Coordinated, HistoryShape, GenerationMergedOnce, history
<1> QED BY <1>2, <1>3, <1>4, <1>5 DEF Parts

\* A non-forced call joins the running attempt.
LEMMA ShareMoves ==
  ASSUME Coordinated, NEW c \in Callers, NEW f \in Flights, ShareAttempt(c, f), call[c].flight = f,
         UNCHANGED <<published, history>>
  PROVE  Parts'
<1> DEFINE state == [call[c] EXCEPT !.pc = "waiting", !.target = flight[f].attempt, !.joinedAt = begun]
<1>0. call[c] \in CallState /\ flight[f].attempt \in Nat /\ begun \in Nat
  BY DEF Coordinated, TypeOK, FlightState
<1>1. /\ state.target = flight[f].attempt /\ state.joinedAt = begun /\ ~state.forced /\ state.flight = f
      /\ state.pc = "waiting"
  BY <1>0 DEF ShareAttempt, CallState
<1>1a. SetCall(c, state) /\ flight[f].attempt # 0 /\ UNCHANGED <<flight, run>>
  BY DEF ShareAttempt, WaitFor
<1> HIDE DEF state
<1>2. \A d \in Callers : call'[d] = IF d = c THEN state ELSE call[d]
  BY <1>1a DEF Coordinated, TypeOK, SetCall
<1>3. CallShape'
  <2>1. UNCHANGED <<run, begun, merged>> BY <1>1a DEF history
  <2>2. \A d \in Callers \ {c} : call'[d] = call[d]
    BY <1>2
  <2>3. call'[c] = state BY <1>2
  <2> QED BY <1>0, <1>1, <1>1a, <2>1, <2>2, <2>3 DEF Coordinated, CallShape, MergingPC
<1>4. SingleRunner' BY <1>1a DEF Coordinated, SingleRunner, Owns
<1>5. FlightShape' /\ RunnerShape'
  BY <1>1, <1>1a, <1>2 DEF Coordinated, FlightShape, FlightInStep, RunnerShape, RunnerInStep, history
<1>6. HistoryShape' /\ GenerationMergedOnce'
  BY <1>1a DEF Coordinated, HistoryShape, GenerationMergedOnce, history
<1> QED BY <1>3, <1>4, <1>5, <1>6 DEF Parts

\* A forced call queues the follow-up: nothing merged, and nothing about to be,
\* has that generation yet.
LEMMA FollowUpMoves ==
  ASSUME Coordinated, NEW c \in Callers, NEW f \in Flights, QueueFollowUp(c, f), call[c].flight = f,
         UNCHANGED <<published, history>>
  PROVE  Parts'
<1> DEFINE new == FollowUpQueued(flight[f])
<1> DEFINE state == [call[c] EXCEPT !.pc = "waiting", !.target = new.requested, !.joinedAt = begun]
<1>1. /\ call[c] \in CallState /\ begun \in Nat /\ flight[f] \in FlightState
      /\ flight[f].attempt \in Nat /\ flight[f].requested \in Nat /\ flight[f].completed \in Nat
  BY DEF Coordinated, TypeOK, FlightState
<1>2. /\ flight[f].active /\ flight[f].attempt # 0
      /\ SetFlight(f, new) /\ SetCall(c, state) /\ UNCHANGED run
  BY DEF QueueFollowUp, WaitFor
<1>3. /\ flight[f].attempt = flight[f].completed + 1
      /\ flight[f].requested <= flight[f].completed + 2
  BY <1>1, <1>2 DEF Coordinated, FlightShape, FlightInStep
<1>4. /\ new.active = flight[f].active /\ new.attempt = flight[f].attempt
      /\ new.completed = flight[f].completed
      /\ new.requested = flight[f].completed + 2
  BY <1>1, <1>3 DEF FollowUpQueued, FlightState, Max2
<1>5. /\ state.target = flight[f].completed + 2 /\ state.joinedAt = begun /\ state.flight = f
      /\ state.pc = "waiting"
  BY <1>1, <1>4 DEF CallState
<1> HIDE DEF new, state
<1>6. \A d \in Callers : call'[d] = IF d = c THEN state ELSE call[d]
  BY <1>2 DEF Coordinated, TypeOK, SetCall
<1>7. \A g \in Flights : flight'[g] = IF g = f THEN new ELSE flight[g]
  BY <1>2 DEF Coordinated, TypeOK, SetFlight
<1>8. UNCHANGED <<run, published, begun, merged, waived>> BY <1>2 DEF history
<1>9. SingleRunner' BY <1>8 DEF Coordinated, SingleRunner, Owns
<1>10. FlightShape'
  <2>1. FlightShape BY DEF Coordinated
  <2>2. \A g \in Flights \ {f} : flight'[g] = flight[g] /\ published'[g] = published[g]
    BY <1>7, <1>8
  <2>3. /\ flight'[f] = new /\ published'[f] = published[f] /\ new.active
        /\ new.attempt = new.completed + 1 /\ new.attempt # 0
        /\ new.requested <= new.completed + 2
        /\ published'[f] <= new.completed
    BY <1>1, <1>2, <1>3, <1>4, <1>7, <1>8, <2>1 DEF FlightShape, FlightInStep
  <2>4. \A g \in Flights \ {f} : FlightInStep(g)'
    BY <2>1, <2>2 DEF FlightShape, FlightInStep
  <2>5. FlightInStep(f)' BY <2>3 DEF FlightInStep
  <2> QED BY <2>4, <2>5 DEF FlightShape
<1>11. RunnerShape'
  <2>1. \A r \in Callers : run[r].pc \in OwnerPC \cup {"publishLast"} => run[r].flight \in Flights
    BY DEF Coordinated, TypeOK
  <2> QED BY <1>4, <1>5, <1>6, <1>7, <1>8, <2>1
          DEF Coordinated, RunnerShape, RunnerInStep, OwnerPC, MergingPC, MergedPC, DrainPC
<1>12. HistoryShape' /\ GenerationMergedOnce'
  <2>1. \A g \in Flights : flight'[g].completed = flight[g].completed BY <1>4, <1>7
  <2>2. /\ \A w \in waived : w[1] \in Flights
        /\ \A m \in merged : m[1] \in Flights
    BY DEF Coordinated, TypeOK
  <2> QED BY <1>8, <2>1, <2>2 DEF Coordinated, HistoryShape, GenerationMergedOnce
<1>13. CallShape'
  <2>1. \A d \in Callers \ {c} : call'[d] = call[d] BY <1>6
  <2>2. call'[c] = state BY <1>6
  <2>3. \A r \in Callers : run[r].pc \in MergingPC \cup MergedPC /\ run[r].flight = f
                              => run[r].gen # flight[f].completed + 2
    <3>1. \A r \in Callers : run[r].pc \in MergingPC \cup MergedPC => run[r].gen = flight[run[r].flight].attempt
      BY DEF Coordinated, RunnerShape, RunnerInStep
    <3>2. flight[f].attempt # flight[f].completed + 2 BY <1>1, <1>3
    <3> QED BY <3>1, <3>2
  <2>4. \A m \in merged : m[1] = f => m[2] # flight[f].completed + 2
    <3> TAKE m \in merged
    <3>1. m[2] \in Nat BY DEF Coordinated, TypeOK
    <3>2. CASE m[2] <= flight[m[1]].completed BY <1>1, <3>1, <3>2
    <3>3. CASE \E r \in Callers : /\ run[r].pc \in MergedPC
                                  /\ m = <<run[r].flight, run[r].gen, run[r].serial>>
      BY <2>3, <3>3
    <3> QED BY <3>2, <3>3 DEF Coordinated, HistoryShape
  <2>5. /\ state.target > 0 /\ state.joinedAt <= begun
        /\ \A m \in merged : m[1] = f => m[2] # state.target
        /\ \A r \in Callers : run[r].pc \in MergingPC /\ run[r].flight = f
                                 => run[r].gen # state.target
    BY <1>1, <1>5, <2>3, <2>4
  <2> QED BY <1>5, <1>8, <2>1, <2>2, <2>5 DEF Coordinated, CallShape
<1> QED BY <1>9, <1>10, <1>11, <1>12, <1>13 DEF Parts

\* A call that finds no runner starts one: the flight had no owner, and its
\* next generation is new.
LEMMA StartMoves ==
  ASSUME Coordinated, NEW c \in Callers, NEW f \in Flights, StartRunner(c, f), call[c].flight = f,
         call[c].pc = "join",
         UNCHANGED <<published, history>>
  PROVE  Parts'
<1> DEFINE new == Started(flight[f])
<1> DEFINE next == flight[f].completed + 1
<1> DEFINE state == [call[c] EXCEPT !.pc = "waiting", !.target = next, !.joinedAt = begun]
<1> DEFINE runner == FreshRun("spawned", f)
<1>1. /\ call[c] \in CallState /\ begun \in Nat /\ flight[f] \in FlightState
      /\ flight[f].completed \in Nat /\ next \in Nat
  BY DEF Coordinated, TypeOK, FlightState
<1>2. /\ ~flight[f].active
      /\ SetFlight(f, new) /\ SetCall(c, state) /\ SetRun(c, runner)
  BY DEF StartRunner, WaitFor
<1>4. /\ new.active /\ new.attempt = next
      /\ new.completed = flight[f].completed /\ new.requested = next
  BY <1>1 DEF Started, FlightState
<1>5. /\ state.target = next /\ state.joinedAt = begun /\ state.flight = f /\ state.pc = "waiting"
  BY <1>1 DEF CallState
<1>5a. runner.pc = "spawned" /\ runner.flight = f OBVIOUS
<1> HIDE DEF new, state, runner
<1>6. \A d \in Callers : /\ call'[d] = IF d = c THEN state ELSE call[d]
                         /\ run'[d] = IF d = c THEN runner ELSE run[d]
  BY <1>2 DEF Coordinated, TypeOK, SetCall, SetRun
<1>7. \A g \in Flights : flight'[g] = IF g = f THEN new ELSE flight[g]
  BY <1>2 DEF Coordinated, TypeOK, SetFlight
<1>8. UNCHANGED <<published, begun, merged, waived>> BY DEF history
<1>8a. \A r \in Callers : run[r].pc \in OwnerPC => run[r].flight \in Flights \ {f}
  BY <1>2 DEF Coordinated, TypeOK, RunnerShape, RunnerInStep
<1>8b. \A r \in Callers \ {c} : run'[r] = run[r] BY <1>6
<1>8c. run'[c] = runner BY <1>6
<1>8d. \A m \in merged : m[1] = f => m[2] <= flight[f].completed
  <2> SUFFICES ASSUME NEW m \in merged, m[1] = f PROVE m[2] <= flight[f].completed OBVIOUS
  <2>1. CASE \E r \in Callers : /\ run[r].pc \in MergedPC
                                /\ m = <<run[r].flight, run[r].gen, run[r].serial>>
    <3>1. PICK r \in Callers : run[r].pc \in MergedPC /\ m[1] = run[r].flight BY <2>1
    <3> QED BY <1>8a, <3>1 DEF MergedPC, OwnerPC
  <2> QED BY <2>1 DEF Coordinated, HistoryShape
<1>9. SingleRunner'
  BY <1>8a, <1>8b, <1>8c, <1>5a DEF Coordinated, SingleRunner, Owns
<1>10. FlightShape' BY <1>1, <1>4, <1>7, <1>8 DEF Coordinated, FlightShape, FlightInStep
<1>11. RunnerShape'
  <2>1. \A r \in Callers : run[r].pc \in OwnerPC \cup {"publishLast"} => run[r].flight \in Flights
    BY DEF Coordinated, TypeOK
  <2>2. \A r \in Callers \ {c} : RunnerInStep(r)'
    BY <1>4, <1>6, <1>7, <1>8, <1>8a, <1>8b, <2>1
       DEF Coordinated, RunnerShape, RunnerInStep, OwnerPC, MergingPC, MergedPC, DrainPC
  <2>3. /\ flight'[f].active /\ flight'[f].attempt = flight'[f].completed + 1 
    BY <1>1, <1>4, <1>7
  <2>4. call'[c].pc = "waiting" BY <1>5, <1>6
  <2>5. RunnerInStep(c)'
    BY <1>5a, <1>8c, <2>3, <2>4 DEF RunnerInStep, OwnerPC, MergingPC, MergedPC, DrainPC
  <2> QED BY <2>2, <2>5 DEF RunnerShape
<1>12. HistoryShape' /\ GenerationMergedOnce'
  <2>1. \A g \in Flights : flight'[g].completed = flight[g].completed BY <1>4, <1>7
  <2>2. /\ \A w \in waived : w[1] \in Flights
        /\ \A m \in merged : m[1] \in Flights
    BY DEF Coordinated, TypeOK
  <2>3. ASSUME NEW m \in merged 
        PROVE  \/ m[2] <= flight'[m[1]].completed
               \/ \E r \in Callers : /\ run'[r].pc \in MergedPC
                                     /\ m = <<run'[r].flight, run'[r].gen, run'[r].serial>>
    <3>1. CASE m[1] = f BY <1>8d, <2>1, <3>1
    <3>2. CASE m[1] # f /\ m[2] <= flight[m[1]].completed BY <2>1, <2>2, <3>2
    <3>3. CASE m[1] # f /\ ~(m[2] <= flight[m[1]].completed)
      <4>1. PICK r \in Callers : /\ run[r].pc \in MergedPC
                                 /\ m = <<run[r].flight, run[r].gen, run[r].serial>>
        BY <3>3 DEF Coordinated, HistoryShape
      <4>2. run'[r] = run[r]
        <5>1. run[c].pc = "none" BY DEF Coordinated, RunnerShape, RunnerInStep
        <5> QED BY <1>8b, <4>1, <5>1 DEF MergedPC
      <4> QED BY <4>1, <4>2
    <3> QED BY <3>1, <3>2, <3>3
  <2> QED BY <1>8, <2>1, <2>2, <2>3 DEF Coordinated, HistoryShape, GenerationMergedOnce
<1>13. CallShape'
  <2>1. \A d \in Callers \ {c} : call'[d] = call[d] BY <1>6
  <2>2. call'[c] = state BY <1>6
  <2>5. /\ state.target > 0 /\ state.joinedAt <= begun
        /\ \A m \in merged : m[1] = f => m[2] # state.target
        /\ \A r \in Callers : run'[r].pc \in MergingPC => run'[r].flight # f
    BY <1>1, <1>5, <1>5a, <1>8a, <1>8b, <1>8c, <1>8d DEF MergingPC, OwnerPC
  <2>6. \A r \in Callers : run'[r].pc \in MergingPC => run'[r] = run[r]
    BY <1>5a, <1>8b, <1>8c DEF MergingPC
  <2> QED BY <1>5, <1>8, <2>1, <2>2, <2>5, <2>6 DEF Coordinated, CallShape
<1> QED BY <1>9, <1>10, <1>11, <1>12, <1>13 DEF Parts

\* Nobody else owns a runner's flight, so the only merged generation of it that
\* is not completed yet is the runner's own.
LEMMA SoleOwner ==
  ASSUME Coordinated, NEW r \in Callers, run[r].pc \in OwnerPC
  PROVE  /\ run[r].flight \in Flights
         /\ \A s \in Callers \ {r} :
               run[s].pc \in OwnerPC => run[s].flight \in Flights \ {run[r].flight}
         /\ \A m \in merged : m[1] = run[r].flight =>
               \/ m[2] <= flight[run[r].flight].completed
               \/ /\ run[r].pc \in MergedPC
                  /\ m = <<run[r].flight, run[r].gen, run[r].serial>>
<1>1. \A s \in Callers : run[s].pc \in OwnerPC => run[s].flight \in Flights
  BY DEF Coordinated, TypeOK
<1>2. \A s \in Callers \ {r} : run[s].pc \in OwnerPC => run[s].flight # run[r].flight
  BY <1>1 DEF Coordinated, SingleRunner, Owns
<1>3. ASSUME NEW m \in merged, m[1] = run[r].flight, ~(m[2] <= flight[run[r].flight].completed)
      PROVE  run[r].pc \in MergedPC /\ m = <<run[r].flight, run[r].gen, run[r].serial>>
  <2>1. PICK s \in Callers : /\ run[s].pc \in MergedPC
                             /\ m = <<run[s].flight, run[s].gen, run[s].serial>>
    BY <1>3 DEF Coordinated, HistoryShape
  <2>2. run[s].pc \in OwnerPC /\ run[s].flight = run[r].flight
    BY <1>3, <2>1 DEF MergedPC, OwnerPC
  <2>3. s = r BY <1>2, <2>2
  <2> QED BY <2>1, <2>3
<1> QED BY <1>1, <1>2, <1>3

\* What a step of the owner may do to its flight without disturbing the shape
\* of the flights and of the other runners.
LEMMA OwnerMoves ==
  ASSUME Coordinated, NEW r \in Callers, run[r].pc \in OwnerPC,
         NEW f, f = run[r].flight, NEW new, NEW state,
         \A s \in Callers : run'[s] = IF s = r THEN state ELSE run[s],
         \A g \in Flights : flight'[g] = IF g = f THEN new ELSE flight[g],
         \A g \in Flights \ {f} : published'[g] = published[g],
         UNCHANGED call, merged \subseteq merged',
         new.completed \in Nat, flight[f].completed <= new.completed,
         FlightInStep(f)', RunnerInStep(r)',
         state.pc \in OwnerPC => state.flight = f
  PROVE  SingleRunner' /\ FlightShape' /\ RunnerShape'
<1>0. /\ f \in Flights
      /\ \A s \in Callers \ {r} : run[s].pc \in OwnerPC => run[s].flight \in Flights \ {f}
  BY SoleOwner
<1>1. \A s \in Callers \ {r} : run'[s] = run[s] OBVIOUS
<1>2. run'[r] = state OBVIOUS
<1>3. SingleRunner' BY <1>0, <1>1, <1>2 DEF Coordinated, SingleRunner, Owns
<1>4. FlightShape'
  <2>1. \A g \in Flights \ {f} : flight'[g] = flight[g] /\ published'[g] = published[g]
    OBVIOUS
  <2>2. \A g \in Flights \ {f} : FlightInStep(g)'
    BY <2>1 DEF Coordinated, FlightShape, FlightInStep
  <2> QED BY <2>2 DEF FlightShape
<1>5. RunnerShape'
  <2> SUFFICES ASSUME NEW s \in Callers \ {r} PROVE RunnerInStep(s)'
    BY DEF RunnerShape
  <2> DEFINE h == run[s].flight
  <2>0. RunnerInStep(s) /\ run'[s] = run[s] BY <1>1 DEF Coordinated, RunnerShape
  <2>1. CASE run[s].pc \in OwnerPC
    <3>1. h \in Flights \ {f} BY <1>0, <2>1
    <3>2. flight'[h] = flight[h] BY <3>1
    <3> QED BY <2>0, <3>2 DEF RunnerInStep
  <2>2. CASE run[s].pc = "publishLast"
    <3>1. h \in Flights /\ run[s].gen \in Nat /\ flight[h].completed \in Nat /\ flight[f].completed \in Nat
      BY <1>0, <2>2 DEF Coordinated, TypeOK, RunState, FlightState
    <3>2. run[s].gen <= flight[h].completed BY <2>0, <2>2 DEF RunnerInStep
    <3>3. flight'[h].completed = new.completed \/ flight'[h].completed = flight[h].completed
      BY <3>1
    <3>4. run[s].gen <= flight'[h].completed
      <4>1. CASE h = f BY <1>0, <3>1, <3>2, <4>1
      <4>2. CASE h # f BY <3>1, <3>2, <4>2
      <4> QED BY <4>1, <4>2
    <3> QED BY <2>0, <2>2, <3>4 DEF RunnerInStep, OwnerPC, MergingPC, MergedPC, DrainPC
  <2>3. CASE run[s].pc \notin OwnerPC \cup {"publishLast"}
    <3>1. run[s].pc \notin MergingPC \cup MergedPC \cup DrainPC \cup {"publishMore", "publishLast"}
      BY <2>3 DEF OwnerPC, MergingPC, MergedPC, DrainPC
    <3> QED BY <2>0, <2>3, <3>1 DEF RunnerInStep
  <2> QED BY <2>1, <2>2, <2>3
<1> QED BY <1>3, <1>4, <1>5

\* How runner r's step, which leaves flight f as new and r as state, accounts for
\* the generations it completes: r merged the one there is, there is none, or the
\* step waives them.
Accounts(r, f, new, state) ==
    \/ /\ UNCHANGED waived
       /\ \/ /\ run[r].pc \in MergedPC
             /\ new.completed = flight[f].completed + 1
          \/ /\ new.completed = flight[f].completed
             /\ run[r].pc \in MergedPC =>
                   /\ state.pc \in MergedPC /\ state.flight = f
                   /\ state.gen = run[r].gen /\ state.serial = run[r].serial
    \/ /\ run[r].pc \notin MergedPC
       /\ \A w : w \in waived' <=> w \in waived \/ \E g \in (flight[f].completed + 1)..new.completed : w = <<f, g>>

\* A step that merges nothing: the generations it completes are the owner's own
\* merged one, or are waived by the step.
LEMMA HistoryMoves ==
  ASSUME Coordinated, NEW r \in Callers, run[r].pc \in OwnerPC,
         NEW f, f = run[r].flight, NEW new, NEW state,
         \A s \in Callers : run'[s] = IF s = r THEN state ELSE run[s],
         \A g \in Flights : flight'[g] = IF g = f THEN new ELSE flight[g],
         UNCHANGED merged,
         new.completed \in Nat, flight[f].completed <= new.completed,
         Accounts(r, f, new, state)
  PROVE  HistoryShape' /\ GenerationMergedOnce'
<1> USE DEF Accounts
<1>0. /\ f \in Flights
      /\ \A s \in Callers \ {r} : run[s].pc \in OwnerPC => run[s].flight \in Flights \ {f}
      /\ \A m \in merged : m[1] = f =>
               \/ m[2] <= flight[f].completed
               \/ run[r].pc \in MergedPC /\ m = <<f, run[r].gen, run[r].serial>>
  BY SoleOwner
<1>1. /\ flight[f].completed \in Nat
      /\ \A g \in Flights : flight[g].completed \in Nat
      /\ \A w \in waived : w[1] \in Flights /\ w[2] \in Nat /\ w = <<w[1], w[2]>>
      /\ \A m \in merged : m[1] \in Flights /\ m[2] \in Nat
  BY <1>0 DEF Coordinated, TypeOK, FlightState
<1>2. GenerationMergedOnce' BY DEF Coordinated, GenerationMergedOnce
<1>3. run[r].pc \in MergedPC =>
         /\ run[r].gen = flight[f].completed + 1
         /\ <<f, run[r].gen, run[r].serial>> \in merged
  BY DEF Coordinated, RunnerShape, RunnerInStep, MergedPC, OwnerPC, DrainPC
<1>4. ASSUME NEW g \in Flights, NEW n \in 1..flight'[g].completed
      PROVE  <<g, n>> \in waived' \/ \E m \in merged' : m[1] = g /\ m[2] = n
  <2>1. CASE n <= flight[g].completed
    <3>1. n \in 1..flight[g].completed BY <1>1, <2>1
    <3>2. <<g, n>> \in waived \/ \E m \in merged : m[1] = g /\ m[2] = n
      BY <3>1 DEF Coordinated, HistoryShape
    <3> QED BY <3>2
  <2>2. CASE ~(n <= flight[g].completed)
    <3>1. g = f BY <1>4, <2>2
    <3>2. flight'[g].completed = new.completed BY <3>1
    <3>3. n \in (flight[f].completed + 1)..new.completed BY <1>1, <2>2, <3>1, <3>2
    <3>4. CASE UNCHANGED waived
      <4>1. (n = flight[f].completed + 1 /\ run[r].pc \in MergedPC) \/ <<f, n>> \in waived'
        BY <1>1, <3>3, <3>4
      <4> QED BY <1>3, <3>1, <4>1
    <3>5. CASE \A w : w \in waived' <=> w \in waived \/ \E h \in (flight[f].completed + 1)..new.completed : w = <<f, h>>
      BY <3>1, <3>3, <3>5
    <3> QED BY <3>4, <3>5
  <2> QED BY <2>1, <2>2
<1>5. ASSUME NEW w \in waived' PROVE w[2] <= flight'[w[1]].completed
  <2>1. CASE w \in waived
    <3>1. w[2] <= flight[w[1]].completed BY <2>1 DEF Coordinated, HistoryShape
    <3>2. CASE w[1] = f BY <1>0, <1>1, <2>1, <3>1, <3>2
    <3>3. CASE w[1] # f BY <1>1, <2>1, <3>1, <3>3
    <3> QED BY <3>2, <3>3
  <2>2. CASE w \notin waived
    <3>1. PICK n \in (flight[f].completed + 1)..new.completed : w = <<f, n>> BY <1>5, <2>2
    <3> QED BY <1>0, <1>1, <3>1
  <2> QED BY <2>1, <2>2
<1>6. ASSUME NEW m \in merged'
      PROVE  /\ <<m[1], m[2]>> \notin waived'
             /\ \/ m[2] <= flight'[m[1]].completed
                \/ \E s \in Callers : /\ run'[s].pc \in MergedPC
                                      /\ m = <<run'[s].flight, run'[s].gen, run'[s].serial>>
  <2>0. m \in merged /\ m[1] \in Flights /\ m[2] \in Nat BY <1>1
  <2>1. <<m[1], m[2]>> \notin waived'
    <3>1. <<m[1], m[2]>> \notin waived BY <2>0 DEF Coordinated, HistoryShape
    <3>2. CASE UNCHANGED waived BY <3>1, <3>2
    <3>3. CASE /\ run[r].pc \notin MergedPC
               /\ \A w : w \in waived' <=> w \in waived \/ \E g \in (flight[f].completed + 1)..new.completed : w = <<f, g>>
      <4>1. m[1] = f => m[2] <= flight[f].completed BY <1>0, <2>0, <3>3
      <4>2. \A n \in (flight[f].completed + 1)..new.completed : <<m[1], m[2]>> # <<f, n>>
        BY <1>1, <2>0, <4>1
      <4> QED BY <3>1, <3>3, <4>2
    <3> QED BY <3>2, <3>3
  <2>2. CASE m[1] = f
    <3>1. flight'[m[1]].completed = new.completed BY <1>0, <2>2
    <3>2. CASE m[2] <= flight[f].completed BY <1>1, <2>0, <2>1, <3>1, <3>2
    <3>3. CASE ~(m[2] <= flight[f].completed)
      <4>1. run[r].pc \in MergedPC /\ m = <<f, run[r].gen, run[r].serial>>
        BY <1>0, <2>0, <2>2, <3>3
      <4>2. m[2] = flight[f].completed + 1 BY <1>3, <4>1
      <4>3. CASE new.completed = flight[f].completed + 1
        BY <1>1, <2>1, <3>1, <4>2, <4>3
      <4>4. CASE /\ state.pc \in MergedPC /\ state.flight = f
                 /\ state.gen = run[r].gen /\ state.serial = run[r].serial
        BY <2>1, <4>1, <4>4
      <4> QED BY <4>1, <4>3, <4>4
    <3> QED BY <3>2, <3>3
  <2>3. CASE m[1] # f
    <3>1. flight'[m[1]] = flight[m[1]] BY <2>0, <2>3
    <3>2. CASE m[2] <= flight[m[1]].completed BY <2>1, <3>1, <3>2
    <3>3. CASE \E s \in Callers : /\ run[s].pc \in MergedPC
                                  /\ m = <<run[s].flight, run[s].gen, run[s].serial>>
      <4>1. PICK s \in Callers : /\ run[s].pc \in MergedPC
                                 /\ m = <<run[s].flight, run[s].gen, run[s].serial>>
        BY <3>3
      <4>2. s # r BY <2>3, <4>1
      <4>3. run'[s] = run[s] BY <4>2
      <4> QED BY <2>1, <4>1, <4>3
    <3> QED BY <2>0, <3>2, <3>3 DEF Coordinated, HistoryShape
  <2> QED BY <2>2, <2>3
<1> QED BY <1>2, <1>4, <1>5, <1>6 DEF HistoryShape

\* Waiting calls are untouched by a runner that merges nothing, provided an
\* attempt that begins now is numbered after every call that waits.
LEMMA WaitingKept ==
  ASSUME Coordinated, NEW r \in Callers, NEW state,
         \A s \in Callers : run'[s] = IF s = r THEN state ELSE run[s],
         UNCHANGED <<call, merged>>,
         begun' \in Nat, begun <= begun',
         state.pc \in MergingPC =>
            \/ /\ run[r].pc \in MergingPC /\ state.flight = run[r].flight
               /\ state.gen = run[r].gen /\ state.serial = run[r].serial
            \/ state.serial \in Nat /\ state.serial > begun
  PROVE  CallShape'
<1>1. begun \in Nat /\ \A c \in Callers : call[c].joinedAt \in Nat
  BY DEF Coordinated, TypeOK, CallState
<1> SUFFICES ASSUME NEW c \in Callers, call[c].pc = "waiting"
             PROVE  /\ call[c].target > 0
                    /\ call[c].joinedAt <= begun'
                    /\ call[c].forced =>
                         /\ \A m \in merged : m[1] = call[c].flight /\ m[2] = call[c].target =>
                                              m[3] > call[c].joinedAt
                         /\ \A s \in Callers :
                              run'[s].pc \in MergingPC /\ run'[s].flight = call[c].flight
                                                       /\ run'[s].gen = call[c].target =>
                                 run'[s].serial > call[c].joinedAt
  BY DEF CallShape
<1>2. /\ call[c].target > 0 /\ call[c].joinedAt <= begun
      /\ call[c].forced =>
            /\ \A m \in merged : m[1] = call[c].flight /\ m[2] = call[c].target =>
                                 m[3] > call[c].joinedAt
            /\ \A s \in Callers :
                 run[s].pc \in MergingPC /\ run[s].flight = call[c].flight
                                         /\ run[s].gen = call[c].target =>
                    run[s].serial > call[c].joinedAt
  BY DEF Coordinated, CallShape
<1>3. call[c].joinedAt <= begun' BY <1>1, <1>2
<1>4. ASSUME call[c].forced, NEW s \in Callers,
             run'[s].pc \in MergingPC, run'[s].flight = call[c].flight, run'[s].gen = call[c].target
      PROVE  run'[s].serial > call[c].joinedAt
  <2>1. CASE s # r BY <1>2, <1>4, <2>1
  <2>2. CASE s = r
    <3>1. run'[r] = state BY <2>2
    <3>2. CASE state.serial \in Nat /\ state.serial > begun BY <1>1, <1>2, <2>2, <3>1, <3>2
    <3>3. CASE /\ run[r].pc \in MergingPC /\ state.flight = run[r].flight
               /\ state.gen = run[r].gen /\ state.serial = run[r].serial
      BY <1>2, <1>4, <2>2, <3>1, <3>3
    <3> QED BY <1>4, <2>2, <3>1, <3>2, <3>3
  <2> QED BY <2>1, <2>2
<1> QED BY <1>2, <1>3, <1>4

\* The runner moves on within its attempt: its flight and its generation stay.
LEMMA QuietMoves ==
  ASSUME Coordinated, NEW r \in Callers, run[r].pc \in OwnerPC, NEW state, SetRun(r, state),
         state.flight = run[r].flight, state.gen = run[r].gen, state.serial = run[r].serial,
         \/ run[r].pc = "spawned" /\ state.pc = "begin"
         \/ run[r].pc \in MergingPC /\ state.pc \in MergingPC
         \/ run[r].pc \in MergedPC /\ state.pc \in MergedPC
         \/ run[r].pc = "publishLate" /\ state.pc = "draining",
         UNCHANGED <<flight, call, history>>,
         \/ UNCHANGED published
         \/ PublishTo(run[r].flight, run[r].gen) /\ run[r].pc = "publishLate"
  PROVE  Parts'
<1>f. PICK f \in Flights : f = run[r].flight BY SoleOwner
<1> USE <1>f
<1>1. /\ f = run[r].flight /\ flight[f].completed \in Nat
      /\ flight[f] \in FlightState /\ run[r].gen \in Nat
  BY <1>f DEF Coordinated, TypeOK, FlightState, RunState
<1>2. \A s \in Callers : run'[s] = IF s = r THEN state ELSE run[s]
  BY DEF Coordinated, TypeOK, SetRun
<1>3. \A g \in Flights : flight'[g] = IF g = f THEN flight[f] ELSE flight[g]
  OBVIOUS
<1>4. UNCHANGED <<begun, merged, waived>> BY DEF history
<1>5. \A g \in Flights \ {f} : published'[g] = published[g]
  BY DEF Coordinated, TypeOK, PublishTo
<1>6. RunnerInStep(r) /\ FlightInStep(f)
  BY <1>1 DEF Coordinated, RunnerShape, FlightShape
<1>7. /\ state.pc \in OwnerPC
      /\ state.pc \in DrainPC <=> run[r].pc \in DrainPC
      /\ state.pc \in MergingPC <=> run[r].pc \in MergingPC
      /\ state.pc \in MergedPC <=> run[r].pc \in MergedPC
      /\ state.pc \notin {"publishMore", "publishLast"}
      /\ run[r].pc # "none"
  BY DEF OwnerPC, MergingPC, MergedPC, DrainPC
<1>8. FlightInStep(f)'
  <2>1. published'[f] = published[f] \/ (published'[f] = run[r].gen /\ run[r].pc = "publishLate")
    BY <1>1 DEF Coordinated, TypeOK, PublishTo
  <2>2. run[r].pc = "publishLate" => run[r].gen = flight[f].completed
    BY <1>6 DEF RunnerInStep, DrainPC
  <2>3. published'[f] <= flight'[f].completed BY <1>1, <1>3, <1>6, <2>1, <2>2 DEF FlightInStep
  <2> QED BY <1>1, <1>3, <1>6, <2>3 DEF FlightInStep
<1>9. RunnerInStep(r)'
  <2>1. run'[r] = state /\ flight' = flight /\ call' = call /\ merged' = merged BY <1>2, <1>4
  <2> QED BY <1>6, <1>7, <2>1 DEF RunnerInStep
<1>10. flight[f].completed <= flight[f].completed BY <1>1
<1>11. SingleRunner' /\ FlightShape' /\ RunnerShape'
  BY <1>1, <1>2, <1>3, <1>4, <1>5, <1>8, <1>9, <1>10, OwnerMoves
<1>12. HistoryShape' /\ GenerationMergedOnce'
  <2>1. UNCHANGED waived /\ state.flight = f /\ state.gen = run[r].gen /\ state.serial = run[r].serial
    BY <1>1, <1>4
  <2>2. Accounts(r, f, flight[f], state) BY <1>7, <2>1 DEF Accounts
  <2> QED BY <1>1, <1>2, <1>3, <1>4, <1>7, <1>10, <2>2, HistoryMoves
<1>13. CallShape'
  <2>1. begun' \in Nat /\ begun <= begun' BY <1>4 DEF Coordinated, TypeOK
  <2> QED BY <1>2, <1>4, <1>7, <2>1, WaitingKept
<1> QED BY <1>11, <1>12, <1>13 DEF Parts

\* An attempt begins: it takes the generation the flight names and a serial
\* greater than every waiting call's.
LEMMA BeginMoves ==
  ASSUME Coordinated, NEW r \in Callers, BeginAttempt(r)
  PROVE  Parts'
<1>0. run[r].pc = "begin" /\ run[r].pc \in OwnerPC BY DEF BeginAttempt, OwnerPC
<1>f. PICK f \in Flights : f = run[r].flight BY <1>0, SoleOwner
<1> USE <1>f
<1> DEFINE state == [run[r] EXCEPT !.pc = "working", !.serial = begun + 1, !.gen = flight[f].attempt]
<1>1. /\ f = run[r].flight /\ flight[f].completed \in Nat /\ begun \in Nat /\ begun + 1 \in Nat
      /\ flight[f] \in FlightState /\ run[r] \in RunState
  BY <1>f DEF Coordinated, TypeOK, FlightState
<1>2. SetRun(r, state) /\ UNCHANGED <<flight, published, call, merged, waived>> /\ begun' = begun + 1
  BY DEF BeginAttempt
<1>3. /\ state.pc = "working" /\ state.serial = begun + 1 /\ state.gen = flight[f].attempt
      /\ state.flight = f
  BY <1>1 DEF RunState
<1> HIDE DEF state
<1>4. \A s \in Callers : run'[s] = IF s = r THEN state ELSE run[s]
  BY <1>2 DEF Coordinated, TypeOK, SetRun
<1>5. \A g \in Flights : flight'[g] = IF g = f THEN flight[f] ELSE flight[g]
  BY <1>2
<1>6. RunnerInStep(r) /\ FlightInStep(f)
  BY <1>1 DEF Coordinated, RunnerShape, FlightShape
<1>7. FlightInStep(f)' BY <1>2, <1>6 DEF FlightInStep
<1>8. RunnerInStep(r)'
  <2>1. run'[r] = state BY <1>4
  <2> QED BY <1>0, <1>2, <1>3, <1>6, <2>1 DEF RunnerInStep, OwnerPC, MergingPC, MergedPC, DrainPC
<1>9. flight[f].completed <= flight[f].completed BY <1>1
<1>10. SingleRunner' /\ FlightShape' /\ RunnerShape'
  BY <1>0, <1>1, <1>2, <1>3, <1>4, <1>5, <1>7, <1>8, <1>9, OwnerMoves
<1>11. HistoryShape' /\ GenerationMergedOnce'
  <2>1. \A s \in Callers : run[s].pc \in MergedPC => run'[s] = run[s]
    BY <1>0, <1>4 DEF MergedPC
  <2> QED BY <1>2, <2>1 DEF Coordinated, HistoryShape, GenerationMergedOnce
<1>12. CallShape'
  <2>1. begun' \in Nat /\ begun <= begun' /\ state.serial \in Nat /\ state.serial > begun
    BY <1>1, <1>2, <1>3
  <2> QED BY <1>2, <1>4, <2>1, WaitingKept
<1> QED BY <1>10, <1>11, <1>12 DEF Parts

\* An attempt that was merged settles its generation, which is the next one.
LEMMA SettleMoves ==
  ASSUME Coordinated, NEW r \in Callers, SettleInTime(r) \/ SettleLate(r)
  PROVE  Parts'
<1>0. run[r].pc = "settle" /\ run[r].pc \in OwnerPC /\ run[r].pc \in MergedPC
  BY DEF SettleInTime, SettleLate, OwnerPC, MergedPC
<1>f. PICK f \in Flights : f = run[r].flight BY <1>0, SoleOwner
<1> USE <1>f
<1> DEFINE gen == run[r].gen
<1> DEFINE more == flight[f].requested > gen
<1> DEFINE new == IF run[r].late THEN SettledLate(flight[f], gen) ELSE Settled(flight[f], gen)
<1> DEFINE pc == IF run[r].late THEN "publishLate" ELSE IF more THEN "publishMore" ELSE "publishLast"
<1> DEFINE state == [run[r] EXCEPT !.pc = pc]
<1>1. /\ f = run[r].flight /\ flight[f].completed \in Nat /\ flight[f].requested \in Nat
      /\ gen \in Nat /\ run[r].late \in BOOLEAN /\ published[f] \in Nat
      /\ flight[f].active \in BOOLEAN
      /\ flight[f] \in FlightState /\ run[r] \in RunState
  BY <1>f DEF Coordinated, TypeOK, FlightState, RunState
<1>2. /\ SetRun(r, state) /\ SetFlight(f, new)
      /\ UNCHANGED <<published, call, begun, merged, waived>>
  <2>1. CASE SettleInTime(r) BY <1>1, <2>1 DEF SettleInTime, history
  <2>2. CASE SettleLate(r) BY <1>1, <2>2 DEF SettleLate, history
  <2> QED BY <2>1, <2>2
<1>3. RunnerInStep(r) /\ FlightInStep(f)
  BY <1>1 DEF Coordinated, RunnerShape, FlightShape
<1>4. /\ flight[f].active /\ gen = flight[f].completed + 1 /\ flight[f].attempt = gen
      /\ flight[f].requested <= gen + 1 /\ published[f] <= gen
  <2>1. /\ flight[f].active /\ gen = flight[f].attempt /\ flight[f].attempt = flight[f].completed + 1
    BY <1>0, <1>3 DEF RunnerInStep, DrainPC
  <2>2. flight[f].requested <= flight[f].completed + 2 /\ published[f] <= flight[f].completed
    BY <1>1, <1>3, <2>1 DEF FlightInStep
  <2> QED BY <1>1, <2>1, <2>2
<1>5. /\ new.completed = gen
      /\ run[r].late => new.active /\ new.attempt = 0 /\ new.requested = flight[f].requested
      /\ ~run[r].late /\ more => new.active /\ new.attempt = gen + 1 /\ new.requested = flight[f].requested
      /\ ~run[r].late /\ ~more => ~new.active /\ new.attempt = 0
  <2> HIDE DEF more
  <2>1. CASE run[r].late BY <1>1, <1>4, <2>1 DEF SettledLate, FlightState
  <2>2. CASE ~run[r].late /\ more BY <1>1, <1>4, <2>2 DEF Settled, FlightState, more
  <2>3. CASE ~run[r].late /\ ~more BY <1>1, <1>4, <2>3 DEF Settled, FlightState, more
  <2> QED BY <1>1, <2>1, <2>2, <2>3
<1>6. state.pc = pc /\ state.flight = f /\ state.gen = gen /\ state.serial = run[r].serial
  BY <1>1 DEF RunState
<1> HIDE DEF state, new
<1>7. \A s \in Callers : run'[s] = IF s = r THEN state ELSE run[s]
  BY <1>2 DEF Coordinated, TypeOK, SetRun
<1>8. \A g \in Flights : flight'[g] = IF g = f THEN new ELSE flight[g]
  BY <1>2 DEF Coordinated, TypeOK, SetFlight
<1>9. run'[r] = state /\ flight'[f] = new /\ published'[f] = published[f] BY <1>1, <1>2, <1>7, <1>8
<1>10. FlightInStep(f)'
  <2> HIDE DEF more
  <2>1. CASE run[r].late BY <1>1, <1>4, <1>5, <1>9, <2>1 DEF FlightInStep
  <2>2. CASE ~run[r].late /\ more
    <3>1. gen + 1 # 0 BY <1>1
    <3> QED BY <1>1, <1>4, <1>5, <1>9, <2>2, <3>1 DEF FlightInStep
  <2>3. CASE ~run[r].late /\ ~more BY <1>1, <1>4, <1>5, <1>9, <2>3 DEF FlightInStep
  <2> QED BY <1>1, <2>1, <2>2, <2>3
<1>11. RunnerInStep(r)'
  <2> HIDE DEF more
  <2>0. call'[r].pc \in {"waiting", "returned"} BY <1>0, <1>2, <1>3 DEF RunnerInStep
  <2>1. CASE run[r].late
    <3>1. state.pc = "publishLate" BY <1>6, <2>1
    <3> QED BY <1>5, <1>6, <1>9, <2>0, <2>1, <3>1
            DEF RunnerInStep, OwnerPC, MergingPC, MergedPC, DrainPC
  <2>2. CASE ~run[r].late /\ more
    <3>1. state.pc = "publishMore" BY <1>6, <2>2
    <3>2. gen <= new.completed BY <1>1, <1>5
    <3> QED BY <1>5, <1>6, <1>9, <2>0, <2>2, <3>1, <3>2
            DEF RunnerInStep, OwnerPC, MergingPC, MergedPC, DrainPC
  <2>3. CASE ~run[r].late /\ ~more
    <3>1. state.pc = "publishLast" BY <1>6, <2>3
    <3>2. gen <= new.completed BY <1>1, <1>5
    <3> QED BY <1>5, <1>6, <1>9, <2>0, <2>3, <3>1, <3>2
            DEF RunnerInStep, OwnerPC, MergingPC, MergedPC, DrainPC
  <2> QED BY <1>1, <2>1, <2>2, <2>3
<1>12. state.pc \notin MergingPC
  <2> HIDE DEF more
  <2> QED BY <1>6 DEF MergingPC
<1> HIDE DEF gen, more, pc
<1>13. /\ new.completed \in Nat /\ flight[f].completed <= new.completed
       /\ new.completed = flight[f].completed + 1
  BY <1>1, <1>4, <1>5
<1>14. SingleRunner' /\ FlightShape' /\ RunnerShape'
  BY <1>0, <1>1, <1>2, <1>6, <1>7, <1>8, <1>10, <1>11, <1>13, OwnerMoves
<1>15. HistoryShape' /\ GenerationMergedOnce'
  <2>1. Accounts(r, f, new, state) BY <1>0, <1>1, <1>2, <1>8, <1>13 DEF Accounts
  <2> QED BY <1>0, <1>1, <1>2, <1>7, <1>8, <1>13, <2>1, HistoryMoves
<1>16. CallShape'
  <2>1. begun' \in Nat /\ begun <= begun' BY <1>2 DEF Coordinated, TypeOK
  <2> QED BY <1>2, <1>7, <1>12, <2>1, WaitingKept
<1> QED BY <1>14, <1>15, <1>16 DEF Parts

\* A result is merged: its generation is not completed yet, nobody else could
\* have merged it, and whoever waits for it joined before the attempt began.
LEMMA ApplyMoves ==
  ASSUME Coordinated, NEW r \in Callers, ApplyResult(r)
  PROVE  Parts'
<1>0. run[r].pc = "apply" /\ run[r].pc \in OwnerPC /\ run[r].pc \in MergingPC
  BY DEF ApplyResult, OwnerPC, MergingPC
<1>f. PICK f \in Flights : f = run[r].flight BY <1>0, SoleOwner
<1> USE <1>f
<1> DEFINE gen == run[r].gen
<1> DEFINE new == <<f, gen, run[r].serial>>
<1> DEFINE state == [run[r] EXCEPT !.pc = "observe"]
<1>1. /\ flight[f].completed \in Nat /\ gen \in Nat /\ run[r].serial \in Nat
      /\ flight[f] \in FlightState /\ run[r] \in RunState
  BY DEF Coordinated, TypeOK, FlightState, RunState
<1>2. /\ SetRun(r, state) /\ UNCHANGED <<flight, published, call, begun, waived>>
      /\ merged' = merged \cup {new}
  BY DEF ApplyResult
<1>3. /\ state.pc = "observe" /\ state.serial = run[r].serial /\ state.gen = gen /\ state.flight = f
  BY <1>1 DEF RunState
<1> HIDE DEF state
<1>4. \A s \in Callers : run'[s] = IF s = r THEN state ELSE run[s]
  BY <1>2 DEF Coordinated, TypeOK, SetRun
<1>5. \A g \in Flights : flight'[g] = IF g = f THEN flight[f] ELSE flight[g]
  BY <1>2
<1>6. RunnerInStep(r) /\ FlightInStep(f)
  BY DEF Coordinated, RunnerShape, FlightShape
<1>7. gen = flight[f].completed + 1
  BY <1>0, <1>6 DEF RunnerInStep, OwnerPC, MergingPC, DrainPC
<1>8. FlightInStep(f)' BY <1>2, <1>6 DEF FlightInStep
<1>9. RunnerInStep(r)'
  <2>1. run'[r] = state BY <1>4
  <2> QED BY <1>0, <1>2, <1>3, <1>6, <2>1 DEF RunnerInStep, OwnerPC, MergingPC, MergedPC, DrainPC
<1>10. flight[f].completed <= flight[f].completed BY <1>1
<1>11. SingleRunner' /\ FlightShape' /\ RunnerShape'
  <2>1. merged \subseteq merged' /\ UNCHANGED call /\ UNCHANGED published BY <1>2
  <2> QED BY <1>0, <1>1, <1>3, <1>4, <1>5, <1>8, <1>9, <1>10, <2>1, OwnerMoves
<1>12. \A m \in merged : m[1] = f => m[2] <= flight[f].completed
  <2>1. run[r].pc \notin MergedPC BY <1>0 DEF MergedPC
  <2> QED BY <1>0, <2>1, SoleOwner
<1>13. \A m \in merged : m[1] \in Flights /\ m[2] \in Nat BY DEF Coordinated, TypeOK
<1>14. \A m \in merged : m[1] = f => m[2] # gen BY <1>1, <1>7, <1>12, <1>13
<1>15. GenerationMergedOnce'
  <2> SUFFICES ASSUME NEW m \in merged', NEW n \in merged', m[1] = n[1], m[2] = n[2]
               PROVE  m = n
    BY DEF GenerationMergedOnce
  <2>1. new[1] = f /\ new[2] = gen OBVIOUS
  <2> HIDE DEF new
  <2>2. (m \in merged \/ m = new) /\ (n \in merged \/ n = new) BY <1>2
  <2>3. CASE m \in merged /\ n \in merged BY <2>3 DEF Coordinated, GenerationMergedOnce
  <2>4. CASE m = new /\ n \in merged BY <1>14, <2>1, <2>4
  <2>5. CASE n = new /\ m \in merged BY <1>14, <2>1, <2>5
  <2> QED BY <2>2, <2>3, <2>4, <2>5
<1>16. HistoryShape'
  <2>1. ASSUME NEW g \in Flights, NEW n \in 1..flight'[g].completed
        PROVE  <<g, n>> \in waived' \/ \E m \in merged' : m[1] = g /\ m[2] = n
    <3>1. <<g, n>> \in waived \/ \E m \in merged : m[1] = g /\ m[2] = n
      BY <1>2, <2>1 DEF Coordinated, HistoryShape
    <3> HIDE DEF new
    <3> QED BY <1>2, <3>1
  <2>2. \A w \in waived' : w[2] <= flight'[w[1]].completed
    BY <1>2 DEF Coordinated, HistoryShape
  <2>3. ASSUME NEW m \in merged'
        PROVE  /\ <<m[1], m[2]>> \notin waived'
               /\ \/ m[2] <= flight'[m[1]].completed
                  \/ \E s \in Callers : /\ run'[s].pc \in MergedPC
                                        /\ m = <<run'[s].flight, run'[s].gen, run'[s].serial>>
    <3>1. CASE m \in merged
      <4>1. <<m[1], m[2]>> \notin waived' BY <1>2, <3>1 DEF Coordinated, HistoryShape
      <4>2. CASE m[2] <= flight[m[1]].completed BY <1>2, <4>1, <4>2
      <4>3. CASE \E s \in Callers : /\ run[s].pc \in MergedPC
                                    /\ m = <<run[s].flight, run[s].gen, run[s].serial>>
        <5>1. PICK s \in Callers : /\ run[s].pc \in MergedPC
                                   /\ m = <<run[s].flight, run[s].gen, run[s].serial>>
          BY <4>3
        <5>2. s # r BY <1>0, <5>1 DEF MergedPC
        <5>3. run'[s] = run[s] BY <1>4, <5>2
        <5> QED BY <4>1, <5>1, <5>3
      <4> QED BY <3>1, <4>2, <4>3 DEF Coordinated, HistoryShape
    <3>2. CASE m = new
      <4>1. <<f, gen>> \notin waived
        <5>1. <<f, gen>> \in waived => gen <= flight[f].completed
          BY DEF Coordinated, HistoryShape
        <5> QED BY <1>1, <1>7, <5>1
      <4>2. run'[r] = state BY <1>4
      <4>3. state.pc \in MergedPC BY <1>3 DEF MergedPC
      <4> QED BY <1>2, <1>3, <3>2, <4>1, <4>2, <4>3
    <3> HIDE DEF new
    <3> QED BY <1>2, <2>3, <3>1, <3>2
  <2> QED BY <2>1, <2>2, <2>3 DEF HistoryShape
<1>17. CallShape'
  <2> SUFFICES ASSUME NEW c \in Callers, call[c].pc = "waiting"
               PROVE  /\ call[c].target > 0
                      /\ call[c].joinedAt <= begun
                      /\ call[c].forced =>
                           /\ \A m \in merged' : m[1] = call[c].flight /\ m[2] = call[c].target =>
                                                 m[3] > call[c].joinedAt
                           /\ \A s \in Callers :
                                run'[s].pc \in MergingPC /\ run'[s].flight = call[c].flight
                                                         /\ run'[s].gen = call[c].target =>
                                   run'[s].serial > call[c].joinedAt
    BY <1>2 DEF CallShape
  <2>1. /\ call[c].target > 0 /\ call[c].joinedAt <= begun
        /\ call[c].forced =>
              /\ \A m \in merged : m[1] = call[c].flight /\ m[2] = call[c].target =>
                                   m[3] > call[c].joinedAt
              /\ \A s \in Callers :
                   run[s].pc \in MergingPC /\ run[s].flight = call[c].flight
                                           /\ run[s].gen = call[c].target =>
                      run[s].serial > call[c].joinedAt
    BY DEF Coordinated, CallShape
  <2>2. ASSUME call[c].forced, NEW s \in Callers,
               run'[s].pc \in MergingPC, run'[s].flight = call[c].flight, run'[s].gen = call[c].target
        PROVE  run'[s].serial > call[c].joinedAt
    <3>1. s # r BY <1>3, <1>4, <2>2 DEF MergingPC
    <3> QED BY <1>4, <2>1, <2>2, <3>1
  <2>3. ASSUME call[c].forced, NEW m \in merged',
               m[1] = call[c].flight, m[2] = call[c].target
        PROVE  m[3] > call[c].joinedAt
    <3>1. CASE m \in merged BY <2>1, <2>3, <3>1
    <3>2. CASE m = new
      <4>1. run[r].flight = call[c].flight /\ run[r].gen = call[c].target /\ m[3] = run[r].serial
        BY <2>3, <3>2
      <4> QED BY <1>0, <2>1, <2>3, <4>1
    <3> HIDE DEF new
    <3> QED BY <1>2, <2>3, <3>1, <3>2
  <2> QED BY <2>1, <2>2, <2>3
<1> QED BY <1>11, <1>15, <1>16, <1>17 DEF Parts

\* A settled generation is published; the runner goes on with the next one, or
\* ends without its flight, which may have a new owner by now.
LEMMA PublishMoves ==
  ASSUME Coordinated, NEW r \in Callers, Publish(r)
  PROVE  Parts'
<1>0. run[r].pc \in {"publishMore", "publishLast"} BY DEF Publish
<1>f. PICK f \in Flights : f = run[r].flight
  BY <1>0 DEF Coordinated, TypeOK, OwnerPC
<1> USE <1>f
<1> DEFINE state == IF run[r].pc = "publishMore" THEN FreshRun("begin", f) ELSE FreshRun("ended", NoFlight)
<1>1. /\ flight[f].completed \in Nat /\ run[r].gen \in Nat /\ flight[f] \in FlightState
  BY DEF Coordinated, TypeOK, FlightState, RunState
<1>2. /\ SetRun(r, state) /\ PublishTo(f, run[r].gen)
      /\ UNCHANGED <<flight, call, begun, merged, waived>>
  BY DEF Publish, history
<1>3. /\ run[r].pc = "publishMore" => state.pc = "begin" /\ state.flight = f
      /\ run[r].pc = "publishLast" => state.pc = "ended"
  OBVIOUS
<1> HIDE DEF state
<1>4. \A s \in Callers : run'[s] = IF s = r THEN state ELSE run[s]
  BY <1>2 DEF Coordinated, TypeOK, SetRun
<1>5. \A g \in Flights : published'[g] = IF g = f THEN run[r].gen ELSE published[g]
  BY <1>2 DEF Coordinated, TypeOK, PublishTo
<1>6. RunnerInStep(r) /\ FlightInStep(f)
  BY DEF Coordinated, RunnerShape, FlightShape
<1>7. run[r].gen <= flight[f].completed BY <1>0, <1>6 DEF RunnerInStep
<1>8. FlightShape'
  <2>1. FlightInStep(f)' BY <1>2, <1>5, <1>6, <1>7 DEF FlightInStep
  <2>2. \A g \in Flights \ {f} : FlightInStep(g)'
    BY <1>2, <1>5 DEF Coordinated, FlightShape, FlightInStep
  <2> QED BY <2>1, <2>2 DEF FlightShape
<1>9. RunnerShape'
  <2>1. \A s \in Callers \ {r} : RunnerInStep(s)'
    BY <1>2, <1>4 DEF Coordinated, RunnerShape, RunnerInStep
  <2>2. RunnerInStep(r)'
    <3>1. run'[r] = state BY <1>4
    <3>2. CASE run[r].pc = "publishMore"
      BY <1>2, <1>3, <1>6, <3>1, <3>2 DEF RunnerInStep, OwnerPC, MergingPC, MergedPC, DrainPC
    <3>3. CASE run[r].pc = "publishLast"
      BY <1>2, <1>3, <1>6, <3>1, <3>3 DEF RunnerInStep, OwnerPC, MergingPC, MergedPC, DrainPC
    <3> QED BY <1>0, <3>2, <3>3
  <2> QED BY <2>1, <2>2 DEF RunnerShape
<1>10. SingleRunner'
  <2>1. \A s \in Callers, g \in Flights : Owns(s, g)' => Owns(s, g)
    <3> TAKE s \in Callers, g \in Flights
    <3>1. CASE s = r BY <1>0, <1>3, <1>4, <3>1 DEF Owns, OwnerPC
    <3>2. CASE s # r BY <1>4, <3>2 DEF Owns
    <3> QED BY <3>1, <3>2
  <2> QED BY <2>1 DEF Coordinated, SingleRunner
<1>11. HistoryShape' /\ GenerationMergedOnce'
  <2>1. \A s \in Callers : run[s].pc \in MergedPC => run'[s] = run[s]
    BY <1>0, <1>4 DEF MergedPC
  <2> QED BY <1>2, <2>1 DEF Coordinated, HistoryShape, GenerationMergedOnce
<1>12. CallShape'
  <2>1. state.pc \notin MergingPC BY <1>0, <1>3 DEF MergingPC
  <2>2. begun' \in Nat /\ begun <= begun' BY <1>2 DEF Coordinated, TypeOK
  <2> QED BY <1>2, <1>4, <2>1, <2>2, WaitingKept
<1> QED BY <1>8, <1>9, <1>10, <1>11, <1>12 DEF Parts

\* The owner gives the flight up: every generation asked for is completed by
\* the step, and none of them was merged.
LEMMA GiveUpMoves ==
  ASSUME Coordinated, NEW r \in Callers, Abandon(r) \/ SettleWithoutRuntime(r)
  PROVE  Parts'
<1>0. run[r].pc \in {"draining", "spawned"} /\ run[r].pc \in OwnerPC /\ run[r].pc \notin MergedPC
  BY DEF Abandon, SettleWithoutRuntime, OwnerPC, MergedPC
<1>f. PICK f \in Flights : f = run[r].flight BY <1>0, SoleOwner
<1> USE <1>f
<1> DEFINE all == Max2(flight[f].requested, flight[f].completed)
<1> DEFINE state == FreshRun("ended", NoFlight)
<1>1. /\ flight[f].completed \in Nat /\ flight[f].requested \in Nat /\ flight[f] \in FlightState
      /\ published[f] \in Nat /\ run[r].gen \in Nat
  BY DEF Coordinated, TypeOK, FlightState, RunState
<1>2. RunnerInStep(r) /\ FlightInStep(f)
  BY DEF Coordinated, RunnerShape, FlightShape
<1>3. all \in Nat /\ flight[f].completed <= all BY <1>1 DEF Max2
<1>4. run[r].pc = "draining" => run[r].gen = flight[f].completed
  BY <1>2 DEF RunnerInStep, DrainPC
<1> HIDE DEF all
<1>5. PICK new : /\ SetFlight(f, new)
                 /\ new.completed = all /\ new.attempt = 0 /\ ~new.active
  <2> DEFINE given == GivenUp(flight[f], all)
  <2> DEFINE left == [given EXCEPT !.requested = all, !.abandons = @ + 1]
  <2>1. /\ given \in FlightState
        /\ given.completed = all /\ given.attempt = 0 /\ ~given.active
    BY <1>1, <1>3 DEF GivenUp, FlightState
  <2>2. left.completed = all /\ left.attempt = 0 /\ ~left.active
    <3> HIDE DEF given
    <3> QED BY <2>1 DEF FlightState
  <2>3. CASE Abandon(r)
    <3>1. run[r].gen = flight[f].completed BY <1>4, <2>3 DEF Abandon
    <3>2. SetFlight(f, left) BY <2>3, <3>1 DEF Abandon, all
    <3> HIDE DEF left
    <3> QED BY <2>2, <3>2
  <2>4. CASE SettleWithoutRuntime(r)
    <3>1. SetFlight(f, given) BY <2>4 DEF SettleWithoutRuntime, all
    <3> HIDE DEF given
    <3> QED BY <2>1, <3>1
  <2> QED BY <2>3, <2>4
<1>6. /\ PublishTo(f, all) /\ SetRun(r, state) /\ UNCHANGED <<call, begun, merged>>
      /\ waived' = waived \cup {<<f, g>> : g \in (flight[f].completed + 1)..all}
  <2>1. CASE Abandon(r)
    <3>1. run[r].gen = flight[f].completed BY <1>4, <2>1 DEF Abandon
    <3> QED BY <2>1, <3>1 DEF Abandon, all
  <2>2. CASE SettleWithoutRuntime(r)
    BY <2>2 DEF SettleWithoutRuntime, all
  <2> QED BY <2>1, <2>2
<1>7. state.pc = "ended" OBVIOUS
<1> HIDE DEF state
<1>8. \A s \in Callers : run'[s] = IF s = r THEN state ELSE run[s]
  BY <1>6 DEF Coordinated, TypeOK, SetRun
<1>9. \A g \in Flights : /\ flight'[g] = IF g = f THEN new ELSE flight[g]
                         /\ published'[g] = IF g = f THEN all ELSE published[g]
  BY <1>5, <1>6 DEF Coordinated, TypeOK, SetFlight, PublishTo
<1>10. FlightInStep(f)' BY <1>3, <1>5, <1>9 DEF FlightInStep
<1>11. RunnerInStep(r)'
  <2>1. run'[r] = state BY <1>8
  <2> QED BY <1>0, <1>2, <1>6, <1>7, <2>1 DEF RunnerInStep, OwnerPC, MergingPC, MergedPC, DrainPC
<1>12. new.completed \in Nat /\ flight[f].completed <= new.completed BY <1>3, <1>5
<1>13. SingleRunner' /\ FlightShape' /\ RunnerShape'
  <2>1. state.pc \notin OwnerPC BY <1>7 DEF OwnerPC
  <2>2. merged \subseteq merged' /\ UNCHANGED call BY <1>6
  <2> QED BY <1>0, <1>8, <1>9, <1>10, <1>11, <1>12, <2>1, <2>2, OwnerMoves
<1>14. HistoryShape' /\ GenerationMergedOnce'
  <2>1. \A w : w \in waived' <=> w \in waived \/ \E g \in (flight[f].completed + 1)..new.completed : w = <<f, g>>
    BY <1>5, <1>6
  <2>2. UNCHANGED merged BY <1>6
  <2>3. Accounts(r, f, new, state)
    BY <1>0, <2>1 DEF Accounts
  <2>4. \A g \in Flights : flight'[g] = IF g = f THEN new ELSE flight[g] BY <1>9
  <2> QED BY <1>0, <1>8, <1>12, <2>2, <2>3, <2>4, HistoryMoves
<1>15. CallShape'
  <2>1. begun' \in Nat /\ begun <= begun' BY <1>6 DEF Coordinated, TypeOK
  <2>2. state.pc \notin MergingPC BY <1>7 DEF MergingPC
  <2> QED BY <1>6, <1>8, <2>1, <2>2, WaitingKept
<1> QED BY <1>13, <1>14, <1>15 DEF Parts

\* The worker drained: its generation was completed before, so the flight is
\* taken over by the next attempt or rests.
LEMMA DrainMoves ==
  ASSUME Coordinated, NEW r \in Callers, Drained(r)
  PROVE  Parts'
<1>0. run[r].pc = "draining" /\ run[r].pc \in OwnerPC /\ run[r].pc \notin MergedPC
  BY DEF Drained, OwnerPC, MergedPC
<1>f. PICK f \in Flights : f = run[r].flight BY <1>0, SoleOwner
<1> USE <1>f
<1> DEFINE gen == run[r].gen
<1> DEFINE more == flight[f].requested > gen
<1> DEFINE settled == Settled(flight[f], gen)
<1> DEFINE new == [settled EXCEPT !.abandons = 0]
<1> DEFINE state == IF more THEN FreshRun("begin", f) ELSE FreshRun("ended", NoFlight)
<1>1. /\ flight[f].completed \in Nat /\ flight[f].requested \in Nat /\ flight[f] \in FlightState
      /\ published[f] \in Nat /\ gen \in Nat /\ flight[f].active \in BOOLEAN
  BY DEF Coordinated, TypeOK, FlightState, RunState
<1>2. RunnerInStep(r) /\ FlightInStep(f)
  BY DEF Coordinated, RunnerShape, FlightShape
<1>3. gen = flight[f].completed /\ flight[f].active /\ flight[f].attempt = 0
  BY <1>0, <1>2 DEF RunnerInStep, DrainPC
<1>4. flight[f].requested <= gen + 1 /\ published[f] <= gen
  BY <1>1, <1>2, <1>3 DEF FlightInStep
<1>5. /\ SetFlight(f, new) /\ SetRun(r, state)
      /\ UNCHANGED <<published, call, begun, merged, waived>>
  BY DEF Drained, history
<1> HIDE DEF more
<1>6. /\ settled \in FlightState /\ settled.completed = gen
      /\ more => settled.active /\ settled.attempt = gen + 1 /\ settled.requested = flight[f].requested
      /\ ~more => ~settled.active /\ settled.attempt = 0
  <2>0. settled \in FlightState BY <1>1, FlightOps
  <2>1. CASE more BY <1>1, <1>3, <2>0, <2>1 DEF Settled, FlightState, more
  <2>2. CASE ~more BY <1>1, <1>3, <2>0, <2>2 DEF Settled, FlightState, more
  <2> QED BY <2>1, <2>2
<1> HIDE DEF settled
<1>7. /\ new.completed = gen
      /\ more => new.active /\ new.attempt = gen + 1 /\ new.requested = flight[f].requested
      /\ ~more => ~new.active /\ new.attempt = 0
  BY <1>6 DEF FlightState
<1>8. /\ more => state.pc = "begin" /\ state.flight = f
      /\ ~more => state.pc = "ended"
  OBVIOUS
<1> HIDE DEF new, state
<1>9. \A s \in Callers : run'[s] = IF s = r THEN state ELSE run[s]
  BY <1>5 DEF Coordinated, TypeOK, SetRun
<1>10. \A g \in Flights : flight'[g] = IF g = f THEN new ELSE flight[g]
  BY <1>5 DEF Coordinated, TypeOK, SetFlight
<1>11. run'[r] = state /\ flight'[f] = new /\ published'[f] = published[f]
  BY <1>5, <1>9, <1>10
<1>12. FlightInStep(f)'
  <2>1. CASE more
    <3>1. gen + 1 # 0 BY <1>1
    <3> QED BY <1>1, <1>4, <1>7, <1>11, <2>1, <3>1 DEF FlightInStep
  <2>2. CASE ~more BY <1>1, <1>4, <1>7, <1>11, <2>2 DEF FlightInStep
  <2> QED BY <2>1, <2>2
<1>13. RunnerInStep(r)'
  <2>0. call'[r].pc \in {"waiting", "returned"} BY <1>0, <1>2, <1>5 DEF RunnerInStep
  <2>1. CASE more
    BY <1>7, <1>8, <1>11, <2>0, <2>1 DEF RunnerInStep, OwnerPC, MergingPC, MergedPC, DrainPC
  <2>2. CASE ~more
    BY <1>7, <1>8, <1>11, <2>0, <2>2 DEF RunnerInStep, OwnerPC, MergingPC, MergedPC, DrainPC
  <2> QED BY <2>1, <2>2
<1>14. /\ new.completed \in Nat /\ new.completed = flight[f].completed
       /\ flight[f].completed <= new.completed
  BY <1>1, <1>3, <1>7
<1>15. SingleRunner' /\ FlightShape' /\ RunnerShape'
  <2>1. state.pc \in OwnerPC => state.flight = f BY <1>8 DEF OwnerPC
  <2>2. merged \subseteq merged' /\ UNCHANGED call /\ UNCHANGED published BY <1>5
  <2> QED BY <1>0, <1>9, <1>10, <1>12, <1>13, <1>14, <2>1, <2>2, OwnerMoves
<1>16. HistoryShape' /\ GenerationMergedOnce'
  <2>1. UNCHANGED merged /\ UNCHANGED waived BY <1>5
  <2>2. Accounts(r, f, new, state)
    BY <1>0, <1>14, <2>1 DEF Accounts
  <2> QED BY <1>0, <1>9, <1>10, <1>14, <2>1, <2>2, HistoryMoves
<1>17. CallShape'
  <2>1. begun' \in Nat /\ begun <= begun' BY <1>5 DEF Coordinated, TypeOK
  <2>2. state.pc \notin MergingPC BY <1>8 DEF MergingPC
  <2> QED BY <1>5, <1>9, <2>1, <2>2, WaitingKept
<1> QED BY <1>15, <1>16, <1>17 DEF Parts

\* Every step of a call, a runner or a command keeps the coordination.
LEMMA CoordinatedStep == Coordinated /\ [Next]_vars => Coordinated'
<1> SUFFICES ASSUME Coordinated, [Next]_vars PROVE Coordinated' OBVIOUS
<1>0. TypeOK' BY TypeStep DEF Coordinated
<1>1. Parts /\ (\A c \in Callers : call[c] \in CallState /\ run[c] \in RunState)
  BY DEF Coordinated, Parts, TypeOK
<1>2. ASSUME UNCHANGED <<flight, published, call, run, history>> PROVE Parts'
  BY <1>1, <1>2 DEF Parts, SingleRunner, Owns, FlightShape, FlightInStep, RunnerShape, RunnerInStep,
                    HistoryShape, GenerationMergedOnce, CallShape, history
<1>3. ASSUME NEW c \in Callers, Call(c) \/ CallerStep(c) PROVE Parts'
  <2>1. \A pc \in CallerPC : [call[c] EXCEPT !.pc = pc].pc = pc BY <1>1 DEF CallState
  <2>2. CASE Call(c) \/ CheckFresh(c) \/ CheckBackoff(c) \/ Lookup(c) \/ Wake(c)
    <3>1. PICK state : /\ SetCall(c, state) /\ state.pc # "waiting"
                       /\ call[c].pc \in {"waiting", "returned"} => state.pc = "returned"
      <4> DEFINE back == FreshCall("returned")
      <4>1. back.pc = "returned" OBVIOUS
      <4> HIDE DEF back
      <4>2. CASE SetCall(c, back) BY <4>1, <4>2
      <4>3. CASE Call(c) /\ ~SetCall(c, back)
        <5>1. PICK force \in BOOLEAN :
                SetCall(c, [call[c] EXCEPT !.pc = IF force THEN "lookup" ELSE "fresh", !.forced = force])
          BY <4>3 DEF Call, back
        <5> DEFINE state == [call[c] EXCEPT !.pc = IF force THEN "lookup" ELSE "fresh", !.forced = force]
        <5>2. state.pc \in {"lookup", "fresh"} BY <1>1 DEF CallState
        <5>3. call[c].pc = "idle" BY <4>3 DEF Call
        <5>4. SetCall(c, state) BY <5>1
        <5> HIDE DEF state
        <5> QED BY <5>2, <5>3, <5>4
      <4>4. CASE CheckFresh(c) /\ ~SetCall(c, back)
        <5> DEFINE state == [call[c] EXCEPT !.pc = "backoff"]
        <5>1. state.pc = "backoff" /\ SetCall(c, state) /\ call[c].pc = "fresh"
          BY <1>1, <4>4 DEF CheckFresh, CallState, back
        <5> HIDE DEF state
        <5> QED BY <5>1
      <4>5. CASE CheckBackoff(c) /\ ~SetCall(c, back)
        <5> DEFINE state == [call[c] EXCEPT !.pc = "lookup"]
        <5>1. state.pc = "lookup" /\ SetCall(c, state) /\ call[c].pc = "backoff"
          BY <1>1, <4>5 DEF CheckBackoff, CallState, back
        <5> HIDE DEF state
        <5> QED BY <5>1
      <4>6. CASE Lookup(c) /\ ~SetCall(c, back)
        <5> DEFINE state == [call[c] EXCEPT !.pc = "join", !.flight = flightOf]
        <5>1. state.pc = "join" /\ SetCall(c, state) /\ call[c].pc = "lookup"
          BY <1>1, <4>6 DEF Lookup, CallState, back
        <5> HIDE DEF state
        <5> QED BY <5>1
      <4>7. CASE Wake(c) BY <4>2, <4>7 DEF Wake, back
      <4> QED BY <2>2, <4>2, <4>3, <4>4, <4>5, <4>6, <4>7
    <3>2. UNCHANGED <<flight, published, run, history>>
      BY <2>2 DEF Call, CheckFresh, CheckBackoff, Lookup, Wake
    <3> QED BY <3>1, <3>2, CallMoves
  <2>3. CASE Join(c)
    <3>f. PICK f \in Flights : f = call[c].flight
      BY <2>3 DEF Coordinated, TypeOK, Join
    <3>1. call[c].pc = "join" /\ UNCHANGED <<published, history>> BY <2>3 DEF Join
    <3>2. CASE StartRunner(c, f) BY <3>f, <3>1, <3>2, StartMoves
    <3>3. CASE QueueFollowUp(c, f) BY <3>f, <3>1, <3>3, FollowUpMoves
    <3>4. CASE ShareAttempt(c, f) BY <3>f, <3>1, <3>4, ShareMoves
    <3>5. CASE ReturnWhileDraining(c, f)
      <4> DEFINE back == FreshCall("returned")
      <4>1. back.pc = "returned" /\ SetCall(c, back) /\ UNCHANGED <<flight, run>>
        BY <3>5 DEF ReturnWhileDraining
      <4> HIDE DEF back
      <4> QED BY <3>1, <4>1, CallMoves
    <3> QED BY <2>3, <3>f, <3>2, <3>3, <3>4, <3>5 DEF Join
  <2> QED BY <1>3, <2>2, <2>3 DEF CallerStep
<1>4. ASSUME NEW r \in Callers, RunnerStep(r) \/ WorkerStep(r) PROVE Parts'
  <2>1. run[r] \in RunState BY <1>1
  <2>2. CASE FindRuntime(r) \/ WorkerReturns(r) \/ TimeOut(r) \/ SaveSnapshot(r) \/ ReadBack(r)
             \/ CheckTracked(r) \/ MarkLive(r) \/ ClearFailed(r) \/ MarkFailed(r) \/ PublishLate(r)
    <3> DEFINE Within(pc) ==
          \/ run[r].pc = "spawned" /\ pc = "begin"
          \/ run[r].pc \in MergingPC /\ pc \in MergingPC
          \/ run[r].pc \in MergedPC /\ pc \in MergedPC
          \/ run[r].pc = "publishLate" /\ pc = "draining"
    <3> DEFINE Moved(state) ==
          /\ SetRun(r, state) /\ Within(state.pc)
          /\ state.flight = run[r].flight /\ state.gen = run[r].gen /\ state.serial = run[r].serial
    <3>1. PICK state : Moved(state)
      <4>1. ASSUME NEW pc, Within(pc), RunGoes(r, pc) PROVE \E state : Moved(state)
        <5> DEFINE state == [run[r] EXCEPT !.pc = pc]
        <5>1. state.pc = pc /\ state.flight = run[r].flight /\ state.gen = run[r].gen
              /\ state.serial = run[r].serial /\ SetRun(r, state)
          BY <2>1, <4>1 DEF RunState
        <5> HIDE DEF state
        <5> QED BY <4>1, <5>1
      <4>2. ASSUME NEW pc, Within(pc), NEW result, SetRun(r, [run[r] EXCEPT !.pc = pc, !.result = result])
            PROVE  \E state : Moved(state)
        <5> DEFINE state == [run[r] EXCEPT !.pc = pc, !.result = result]
        <5>1. state.pc = pc /\ state.flight = run[r].flight /\ state.gen = run[r].gen
              /\ state.serial = run[r].serial /\ SetRun(r, state)
          BY <2>1, <4>2 DEF RunState
        <5> HIDE DEF state
        <5> QED BY <4>2, <5>1
      <4>3. CASE FindRuntime(r)
        <5>1. Within("begin") /\ RunGoes(r, "begin") BY <4>3 DEF FindRuntime
        <5> QED BY <4>1, <5>1
      <4>4. CASE WorkerReturns(r)
        <5>1. run[r].pc = "working" BY <4>4 DEF WorkerReturns
        <5>2. Within("save") /\ Within("apply") BY <5>1 DEF MergingPC
        <5> HIDE DEF Within, Moved
        <5>3. CASE RunGoes(r, "save") BY <4>1, <5>2, <5>3
        <5>4. CASE SetRun(r, [run[r] EXCEPT !.pc = "apply", !.result = "fail"]) BY <4>2, <5>2, <5>4
        <5> QED BY <4>4, <5>3, <5>4 DEF WorkerReturns
      <4>5. CASE TimeOut(r)
        <5> DEFINE state == [run[r] EXCEPT !.pc = "apply", !.result = "fail", !.late = TRUE]
        <5>1. state.pc = "apply" /\ state.flight = run[r].flight /\ state.gen = run[r].gen
              /\ state.serial = run[r].serial /\ SetRun(r, state) /\ run[r].pc = "working"
          BY <2>1, <4>5 DEF RunState, TimeOut
        <5> HIDE DEF state
        <5> QED BY <5>1 DEF MergingPC
      <4>6. CASE SaveSnapshot(r)
        <5>1. Within("apply") BY <4>6 DEF SaveSnapshot, MergingPC
        <5>2. PICK result : SetRun(r, [run[r] EXCEPT !.pc = "apply", !.result = result])
          BY <4>6 DEF SaveSnapshot
        <5> HIDE DEF Within, Moved
        <5> QED BY <4>2, <5>1, <5>2
      <4>7. CASE ReadBack(r)
        <5>1. Within("track") BY <4>7 DEF ReadBack, MergedPC
        <5>2. SetRun(r, [run[r] EXCEPT !.pc = "track", !.result = IF view.error THEN "fail" ELSE "ok"])
          BY <4>7 DEF ReadBack
        <5> HIDE DEF Within, Moved
        <5> QED BY <4>2, <5>1, <5>2
      <4>8. CASE CheckTracked(r)
        <5> DEFINE pc == IF ~tracked THEN "settle"
                         ELSE IF run[r].result = "ok" THEN "markLive" ELSE "markFailed"
        <5>1. Within(pc) /\ RunGoes(r, pc) BY <4>8 DEF CheckTracked, MergedPC
        <5> HIDE DEF Within, Moved, pc
        <5> QED BY <4>1, <5>1
      <4>9. CASE MarkLive(r) \/ ClearFailed(r) \/ MarkFailed(r)
        <5>1. /\ Within("clearFailed") /\ Within("settle")
              /\ RunGoes(r, "clearFailed") \/ RunGoes(r, "settle")
          BY <4>9 DEF MarkLive, ClearFailed, MarkFailed, MergedPC
        <5> HIDE DEF Within, Moved
        <5> QED BY <4>1, <5>1
      <4>10. CASE PublishLate(r)
        <5>1. Within("draining") /\ RunGoes(r, "draining") BY <4>10 DEF PublishLate
        <5> HIDE DEF Within, Moved
        <5> QED BY <4>1, <5>1
      <4> QED BY <2>2, <4>3, <4>4, <4>5, <4>6, <4>7, <4>8, <4>9, <4>10
    <3>3. run[r].pc \in OwnerPC BY <3>1 DEF OwnerPC, MergingPC, MergedPC
    <3>4. /\ UNCHANGED <<flight, call, history>>
          /\ \/ UNCHANGED published
             \/ PublishTo(run[r].flight, run[r].gen) /\ run[r].pc = "publishLate"
      BY <2>2 DEF FindRuntime, WorkerReturns, TimeOut, SaveSnapshot, ReadBack, CheckTracked,
                  MarkLive, ClearFailed, MarkFailed, PublishLate
    <3> QED BY <3>1, <3>3, <3>4, QuietMoves
  <2> QED BY <1>4, <2>2, BeginMoves, ApplyMoves, SettleMoves, PublishMoves, GiveUpMoves, DrainMoves
          DEF RunnerStep, WorkerStep
<1>5. ASSUME UNCHANGED vars PROVE Parts' BY <1>2, <1>5 DEF vars, history
<1>6. ASSUME Next PROVE Parts'
  <2>1. ASSUME AdminStep \/ FreshExpires \/ BackoffExpires PROVE Parts'
    BY <1>2, <2>1, ServiceOnly
  <2> QED BY <1>3, <1>4, <1>6, <2>1 DEF Next
<1>7. Parts' BY <1>5, <1>6
<1> QED BY <1>0, <1>7 DEF Coordinated, Parts

\* The coordination invariant holds of the whole specification.
THEOREM CoordinationHolds == Spec => []Coordinated
BY CoordinatedInit, CoordinatedStep, PTL DEF Spec

\* Two runners never own one flight.
THEOREM OneRunnerPerFlight == Spec => []SingleRunner
<1>1. Coordinated => SingleRunner BY DEF Coordinated
<1> QED BY <1>1, CoordinationHolds, PTL

\* No generation is merged twice.
THEOREM MergedAtMostOnce == Spec => []GenerationMergedOnce
<1>1. Coordinated => GenerationMergedOnce BY DEF Coordinated
<1> QED BY <1>1, CoordinationHolds, PTL

\* No more than one follow-up attempt is queued behind a running one.
THEOREM FollowUpsCoalesce == Spec => []OneFollowUpQueued
<1>1. Coordinated => OneFollowUpQueued
  <2> SUFFICES ASSUME Coordinated, NEW f \in Flights, flight[f].active
               PROVE  flight[f].requested <=
                        (IF flight[f].attempt = 0 THEN flight[f].completed ELSE flight[f].attempt) + 1
    BY DEF OneFollowUpQueued
  <2>1. FlightInStep(f) /\ flight[f].completed \in Nat /\ flight[f].requested \in Nat
    BY DEF Coordinated, FlightShape, TypeOK, FlightState
  <2>2. CASE flight[f].attempt = 0 BY <2>1, <2>2 DEF FlightInStep
  <2>3. CASE flight[f].attempt # 0 BY <2>1, <2>3 DEF FlightInStep
  <2> QED BY <2>2, <2>3
<1> QED BY <1>1, CoordinationHolds, PTL

\* Every completed generation was merged or given up, never both.
THEOREM GenerationsAccounted == Spec => []EveryGenerationAccounted
<1>1. Coordinated => EveryGenerationAccounted
  <2> SUFFICES ASSUME Coordinated, NEW f \in Flights, NEW g \in 1..flight[f].completed
               PROVE  (\E m \in merged : m[1] = f /\ m[2] = g) # (<<f, g>> \in waived)
    BY DEF EveryGenerationAccounted
  <2>1. <<f, g>> \in waived \/ \E m \in merged : m[1] = f /\ m[2] = g
    BY DEF Coordinated, HistoryShape
  <2>2. \A m \in merged : m[1] = f /\ m[2] = g => <<f, g>> \notin waived
    BY DEF Coordinated, HistoryShape
  <2> QED BY <2>1, <2>2
<1> QED BY <1>1, CoordinationHolds, PTL

\* A call is let go only by the attempt it waited for, or when that was given up.
THEOREM CallsGetTheirAttempt == Spec => []CallsAreServed
<1>1. Coordinated => CallsAreServed
  <2> SUFFICES ASSUME Coordinated, NEW c \in Callers, call[c].pc = "waiting",
                      published[call[c].flight] >= call[c].target,
                      <<call[c].flight, call[c].target>> \notin waived
               PROVE  \E m \in merged : /\ m[1] = call[c].flight /\ m[2] = call[c].target
                                        /\ call[c].forced => m[3] > call[c].joinedAt
    BY DEF CallsAreServed
  <2>1. /\ call[c].flight \in Flights /\ call[c].target \in Nat /\ call[c].target > 0
    BY DEF Coordinated, TypeOK, CallState, CallShape
  <2>f. PICK f \in Flights : f = call[c].flight BY <2>1
  <2>2. /\ published[f] \in Nat /\ flight[f].completed \in Nat /\ published[f] <= flight[f].completed
    BY DEF Coordinated, TypeOK, FlightState, FlightShape, FlightInStep
  <2>3. call[c].target \in 1..flight[f].completed BY <2>f, <2>1, <2>2
  <2>4. PICK m \in merged : m[1] = f /\ m[2] = call[c].target
    BY <2>f, <2>3 DEF Coordinated, HistoryShape
  <2>5. call[c].forced => m[3] > call[c].joinedAt
    BY <2>f, <2>4 DEF Coordinated, CallShape
  <2> QED BY <2>f, <2>4, <2>5
<1> QED BY <1>1, CoordinationHolds, PTL

-----------------------------------------------------------------------------
(***************************************************************************)
(* The card and the service.                                               *)
(***************************************************************************)
FetchPC == {"working", "save", "apply"}

\* A runner here has begun an attempt whose result it has not yet noted in the backoff marks.
AttemptPC == FetchPC \cup {"observe", "track", "markLive", "clearFailed"}

\* While the id has a flight its account is in place or about to leave; a removed card is blank.
MembershipFits ==
    /\ flightOf # NoFlight =>
          flightOf \in used /\ admin \in {"reconcile", "live", "dropState", "dropFlight"}
    /\ ~tracked => view = DefaultView

\* Whoever joins or runs does so on a flight that was handed out.
FlightsUsed ==
    /\ \A c \in Callers : CallAt(c, "join") => call[c].flight \in used
    /\ \A r \in Callers : run[r].pc \in OwnerPC => run[r].flight \in used

\* Before the first flight nothing was fetched.
NothingFetched == used = {} => view.source # "Live" /\ ~failMark

\* Snapshots come from attempts that have begun.
SerialsFit ==
    /\ view.snap <= begun /\ cached <= begun /\ loaded <= begun
    /\ \A r \in Callers : run[r].pc \in FetchPC => run[r].serial <= begun

\* In the first life of the id only the one runner of its flight writes card and storage.
RunnerFits(r) ==
    /\ run[r].pc \in FetchPC => view.snap <= run[r].serial /\ (tracked => view.refreshing)
    /\ RunAt(r, "apply") /\ run[r].result = "ok" => cached = run[r].serial
    /\ RunAt(r, "track") /\ tracked /\ run[r].result # "ok" => view.error
    /\ RunAt(r, "markFailed") /\ tracked => view.error

CardFits ==
    /\ view.source = "Live" /\ ~view.error /\ ~view.refreshing => view.snap = cached
    /\ tracked /\ failMark /\ (\A r \in Callers : run[r].pc \notin AttemptPC) => view.error

CardInv ==
    /\ MembershipFits /\ FlightsUsed /\ NothingFetched /\ SerialsFit /\ RefreshingHasRunner
    /\ FirstLife => CardFits /\ \A r \in Callers : RunnerFits(r)

\* A step that leaves the card, the storage and the runners alone.
LEMMA CardStays ==
  ASSUME CardInv, UNCHANGED <<flightOf, used, tracked, view, cached, loaded, begun, run>>,
         failMark' \in {failMark, FALSE},
         flightOf = NoFlight \/ admin' \in {"reconcile", "live", "dropState", "dropFlight"},
         \A c \in Callers : call'[c].pc = "join" => call'[c].flight \in used
  PROVE  CardInv'
<1>0. failMark' => failMark
  OBVIOUS
<1>1. /\ MembershipFits' /\ FlightsUsed' /\ NothingFetched' /\ SerialsFit'
      /\ RefreshingHasRunner'
  <2>1. MembershipFits'
    BY DEF CardInv, MembershipFits
  <2>2. FlightsUsed'
    BY DEF CardInv, FlightsUsed
  <2>3. NothingFetched'
    BY <1>0 DEF CardInv, NothingFetched
  <2>4. SerialsFit' /\ RefreshingHasRunner'
    BY DEF CardInv, SerialsFit, RefreshingHasRunner
  <2>5. QED
    BY <2>1, <2>2, <2>3, <2>4
<1>2. FirstLife' => FirstLife
  BY DEF FirstLife
<1>3. FirstLife => CardFits'
  BY <1>0 DEF CardInv, CardFits
<1>4. FirstLife => \A r \in Callers : RunnerFits(r)'
  BY DEF CardInv, RunnerFits
<1>5. QED
  BY <1>1, <1>2, <1>3, <1>4 DEF CardInv

\* A step of a runner that leaves the card, the storage and the marks alone.
LEMMA RunnerMoves ==
  ASSUME Coordinated, CardInv, NEW r \in Callers, NEW state, SetRun(r, state),
         UNCHANGED <<flightOf, used, tracked, view, failMark, cached, loaded, admin, begun>>,
         \A c \in Callers : call'[c].pc = "join" => call'[c].flight \in used,
         state.pc \in OwnerPC => state.flight \in used,
         state.pc \in FetchPC => run[r].pc \in FetchPC /\ state.serial = run[r].serial,
         run[r].pc \in FetchPC => state.pc \in FetchPC,
         state.pc = "apply" => state.result # "ok",
         FirstLife /\ state.pc = "track" /\ tracked /\ state.result # "ok" => view.error,
         FirstLife /\ state.pc = "markFailed" /\ tracked => view.error,
         FirstLife /\ run[r].pc \in AttemptPC /\ state.pc \notin AttemptPC /\ tracked /\ failMark =>
           view.error
  PROVE  CardInv'
<1>1. \A s \in Callers : run'[s] = IF s = r THEN state ELSE run[s]
  BY DEF Coordinated, TypeOK, SetRun
<1>2. MembershipFits' /\ FlightsUsed' /\ NothingFetched'
  BY <1>1 DEF CardInv, MembershipFits, FlightsUsed, NothingFetched
<1>3. SerialsFit' /\ RefreshingHasRunner'
  BY <1>1 DEF CardInv, SerialsFit, RefreshingHasRunner, FetchPC
<1>4. FirstLife' => FirstLife
  BY DEF FirstLife
<1>5. FirstLife => CardFits'
  <2> SUFFICES ASSUME FirstLife, tracked, failMark, \A s \in Callers : run'[s].pc \notin AttemptPC
               PROVE  view.error
    BY DEF CardInv, CardFits
  <2>1. \A s \in Callers \ {r} : run[s].pc \notin AttemptPC
    BY <1>1
  <2>2. state.pc \notin AttemptPC
    BY <1>1
  <2>3. QED
    BY <2>1, <2>2 DEF CardInv, CardFits
<1>6. FirstLife => \A s \in Callers : RunnerFits(s)'
  <2> SUFFICES ASSUME FirstLife, NEW s \in Callers PROVE RunnerFits(s)'
    OBVIOUS
  <2>1. RunnerFits(s)
    BY DEF CardInv
  <2>2. CASE s = r
    <3>1. run'[s] = state
      BY <1>1, <2>2
    <3>2. QED
      BY <2>1, <2>2, <3>1 DEF RunnerFits
  <2>3. CASE s # r
    <3>1. run'[s] = run[s]
      BY <1>1, <2>3
    <3>2. QED
      BY <2>1, <3>1 DEF RunnerFits
  <2>4. QED
    BY <2>2, <2>3
<1>7. QED
  BY <1>2, <1>3, <1>4, <1>5, <1>6 DEF CardInv

\* In the first life of the id at most one runner owns a flight.
LEMMA SoleRunner ==
  ASSUME Coordinated, FlightsUsed, FirstLife, NEW r \in Callers, NEW s \in Callers,
         run[r].pc \in OwnerPC, run[s].pc \in OwnerPC
  PROVE  r = s
<1>1. run[r].flight = flightOf /\ run[s].flight = flightOf
  BY DEF FlightsUsed, FirstLife
<1>2. flightOf \in Flights
  BY DEF FirstLife, Coordinated, TypeOK
<1>3. QED
  BY <1>1, <1>2 DEF Coordinated, SingleRunner, Owns

\* Every step of refresh() but the start of a runner leaves the card alone.
LEMMA CardCaller ==
  ASSUME Coordinated, CardInv, NEW c \in Callers, Call(c) \/ CallerStep(c)
  PROVE  CardInv'
<1>1. UNCHANGED service /\ UNCHANGED begun /\ call \in [Callers -> CallState]
  BY DEF Call, CallerStep, CheckFresh, CheckBackoff, Lookup, Join, Wake, history, Coordinated,
         TypeOK
<1>2. UNCHANGED <<flightOf, used, tracked, view, failMark, cached, loaded, admin, begun>>
  BY <1>1 DEF service, membership, bookkeeping
<1>3. flightOf = NoFlight \/ admin' \in {"reconcile", "live", "dropState", "dropFlight"}
  BY <1>2 DEF CardInv, MembershipFits
<1>4. CASE ~Lookup(c) /\ ~Join(c)
  <2>1. PICK state : SetCall(c, state) /\ state.pc # "join"
    <3>1. \/ SetCall(c, FreshCall("returned"))
          \/ \E pc \in {"lookup", "fresh"}, force \in BOOLEAN :
                SetCall(c, [call[c] EXCEPT !.pc = pc, !.forced = force])
          \/ \E pc \in {"lookup", "backoff"} : SetCall(c, [call[c] EXCEPT !.pc = pc])
      BY <1>4 DEF Call, CallerStep, CheckFresh, CheckBackoff, Wake
    <3>2. \A pc \in {"lookup", "fresh", "backoff"}, force \in BOOLEAN :
             /\ [call[c] EXCEPT !.pc = pc, !.forced = force].pc = pc
             /\ [call[c] EXCEPT !.pc = pc].pc = pc
      BY <1>1 DEF CallState
    <3>3. FreshCall("returned").pc = "returned"
      OBVIOUS
    <3>4. QED
      BY <3>1, <3>2, <3>3
  <2>2. UNCHANGED run
    BY <1>4 DEF Call, CallerStep, CheckFresh, CheckBackoff, Wake
  <2>3. \A d \in Callers : call'[d].pc = "join" => call'[d].flight \in used
    BY <1>1, <2>1 DEF SetCall, CardInv, FlightsUsed
  <2>4. QED
    BY <1>2, <1>3, <2>2, <2>3, CardStays
<1>5. CASE Lookup(c)
  <2>1. UNCHANGED run
    BY <1>5 DEF Lookup
  <2>2. PICK state : SetCall(c, state) /\ (state.pc = "join" => state.flight \in used)
    <3>1. CASE flightOf = NoFlight
      BY <1>5, <3>1 DEF Lookup
    <3>2. CASE flightOf # NoFlight
      <4> DEFINE state == [call[c] EXCEPT !.pc = "join", !.flight = flightOf]
      <4>1. SetCall(c, state)
        BY <1>5, <3>2 DEF Lookup
      <4>2. state.flight = flightOf
        BY <1>1 DEF CallState
      <4>3. QED
        BY <3>2, <4>1, <4>2 DEF CardInv, MembershipFits
    <3>3. QED
      BY <3>1, <3>2
  <2>3. \A d \in Callers : call'[d].pc = "join" => call'[d].flight \in used
    BY <1>1, <2>2 DEF SetCall, CardInv, FlightsUsed
  <2>4. QED
    BY <1>2, <1>3, <2>1, <2>3, CardStays
<1>6. CASE Join(c)
  <2> DEFINE f == call[c].flight
  <2>1. f \in used /\ call[c].pc = "join"
    BY <1>6 DEF Join, CardInv, FlightsUsed
  <2>2. PICK state : SetCall(c, state) /\ state.pc # "join"
    <3>1. SetCall(c, FreshCall("returned")) \/ \E g : WaitFor(c, g)
      BY <1>6 DEF Join, StartRunner, ReturnWhileDraining, QueueFollowUp, ShareAttempt
    <3>2. CASE SetCall(c, FreshCall("returned"))
      BY <3>2
    <3>3. CASE \E g : WaitFor(c, g)
      <4>1. PICK g : SetCall(c, [call[c] EXCEPT !.pc = "waiting", !.target = g, !.joinedAt = begun])
        BY <3>3 DEF WaitFor
      <4>2. [call[c] EXCEPT !.pc = "waiting", !.target = g, !.joinedAt = begun].pc = "waiting"
        BY <1>1 DEF CallState
      <4>3. QED
        BY <4>1, <4>2
    <3>4. QED
      BY <3>1, <3>2, <3>3
  <2>3. \A d \in Callers : call'[d].pc = "join" => call'[d].flight \in used
    BY <1>1, <2>2 DEF SetCall, CardInv, FlightsUsed
  <2>4. CASE UNCHANGED run
    BY <1>2, <1>3, <2>3, <2>4, CardStays
  <2>5. CASE StartRunner(c, f)
    <3> DEFINE new == FreshRun("spawned", f)
    <3>1. SetRun(c, new) /\ new.pc = "spawned" /\ new.flight = f
      BY <2>5 DEF StartRunner
    <3>2. run[c].pc = "none"
      BY <2>1 DEF Coordinated, RunnerShape, RunnerInStep
    <3> HIDE DEF new
    <3>3. QED
      BY <1>2, <2>1, <2>3, <3>1, <3>2, RunnerMoves DEF FetchPC, AttemptPC
  <2>6. QED
    BY <1>6, <2>4, <2>5 DEF Join, ReturnWhileDraining, QueueFollowUp, ShareAttempt
<1>7. QED
  BY <1>4, <1>5, <1>6

\* What a runner's step finds and leaves.
LEMMA CardRunnerFacts ==
  ASSUME Coordinated, CardInv, NEW r \in Callers
  PROVE  /\ run \in [Callers -> RunState] /\ run[r] \in RunState
         /\ run[r].pc \in OwnerPC => run[r].flight \in used
         /\ \A c \in Callers : call[c].pc = "join" => call[c].flight \in used
         /\ FirstLife => RunnerFits(r)
  BY DEF Coordinated, TypeOK, CardInv, FlightsUsed

\* A runner that goes on keeps what else it holds.
LEMMA CardRunGoes ==
  ASSUME NEW s \in RunState, NEW pc
  PROVE  /\ [s EXCEPT !.pc = pc].pc = pc /\ [s EXCEPT !.pc = pc].flight = s.flight
         /\ [s EXCEPT !.pc = pc].serial = s.serial /\ [s EXCEPT !.pc = pc].result = s.result
  BY DEF RunState

\* The steps that only move a runner on.
LEMMA CardQuiet ==
  ASSUME Coordinated, CardInv, NEW r \in Callers,
         FindRuntime(r) \/ SettleWithoutRuntime(r) \/ SettleInTime(r) \/ Publish(r)
           \/ SettleLate(r) \/ PublishLate(r) \/ Drained(r) \/ Abandon(r)
  PROVE  CardInv'
<1>1. /\ UNCHANGED <<flightOf, used, tracked, view, failMark, cached, loaded, admin, begun, call>>
      /\ run[r].pc \notin AttemptPC
  BY DEF FindRuntime, SettleWithoutRuntime, SettleInTime, Publish, SettleLate, PublishLate,
         Drained, Abandon, service, membership, bookkeeping, history, AttemptPC, FetchPC
<1>2. PICK state : /\ SetRun(r, state)
                   /\ state.pc \in {"begin", "publishMore", "publishLast", "publishLate",
                                    "draining", "ended"}
                   /\ state.pc \in OwnerPC => run[r].pc \in OwnerPC /\ state.flight = run[r].flight
  <2>0. run[r] \in RunState
    BY CardRunnerFacts
  <2>1. CASE FindRuntime(r)
    BY <2>0, <2>1, CardRunGoes DEF FindRuntime, OwnerPC
  <2>2. CASE SettleWithoutRuntime(r)
    BY <2>2 DEF SettleWithoutRuntime, OwnerPC
  <2>3. CASE SettleInTime(r)
    BY <2>0, <2>3, CardRunGoes DEF SettleInTime, OwnerPC
  <2>4. CASE Publish(r)
    BY <2>4 DEF Publish, OwnerPC
  <2>5. CASE SettleLate(r)
    BY <2>0, <2>5, CardRunGoes DEF SettleLate, OwnerPC
  <2>6. CASE PublishLate(r)
    <3> DEFINE state == [run[r] EXCEPT !.pc = "draining"]
    <3>1. SetRun(r, state) /\ run[r].pc = "publishLate"
      BY <2>6 DEF PublishLate
    <3>2. state.pc = "draining" /\ state.flight = run[r].flight
      BY <2>0, CardRunGoes
    <3> HIDE DEF state
    <3>3. QED
      BY <3>1, <3>2 DEF OwnerPC
  <2>7. CASE Drained(r)
    BY <2>7 DEF Drained, OwnerPC
  <2>8. CASE Abandon(r)
    BY <2>8 DEF Abandon, OwnerPC
  <2>9. QED
    BY <2>1, <2>2, <2>3, <2>4, <2>5, <2>6, <2>7, <2>8
<1>3. state.pc \notin AttemptPC \cup {"markFailed"} /\ state.pc \notin FetchPC
  BY <1>2 DEF AttemptPC, FetchPC
<1>4. run[r].pc \notin FetchPC /\ state.pc # "apply" /\ state.pc # "track"
  BY <1>1, <1>3 DEF AttemptPC, FetchPC
<1>5. QED
  BY <1>1, <1>2, <1>3, <1>4, CardRunnerFacts, RunnerMoves

\* The worker ends, in time or not; what it brought is not applied yet.
LEMMA CardFetched ==
  ASSUME Coordinated, CardInv, NEW r \in Callers, WorkerReturns(r) \/ TimeOut(r)
  PROVE  CardInv'
<1>1. /\ UNCHANGED <<flightOf, used, tracked, view, failMark, cached, loaded, admin, begun, call>>
      /\ run[r].pc = "working"
  BY DEF WorkerReturns, TimeOut, service, membership, bookkeeping, history
<1>2. run[r] \in RunState
  BY CardRunnerFacts
<1>3. PICK state : /\ SetRun(r, state) /\ state.pc \in {"save", "apply"}
                   /\ state.pc = "apply" => state.result # "ok"
                   /\ state.flight = run[r].flight /\ state.serial = run[r].serial
  <2>1. \/ SetRun(r, [run[r] EXCEPT !.pc = "save"])
        \/ SetRun(r, [run[r] EXCEPT !.pc = "apply", !.result = "fail"])
        \/ SetRun(r, [run[r] EXCEPT !.pc = "apply", !.result = "fail", !.late = TRUE])
    BY DEF WorkerReturns, TimeOut
  <2>2. CASE SetRun(r, [run[r] EXCEPT !.pc = "save"])
    <3> DEFINE state == [run[r] EXCEPT !.pc = "save"]
    <3>1. state.pc = "save" /\ state.flight = run[r].flight /\ state.serial = run[r].serial
      BY <1>2, CardRunGoes
    <3>2. QED
      BY <2>2, <3>1
  <2>3. CASE SetRun(r, [run[r] EXCEPT !.pc = "apply", !.result = "fail"])
    <3> DEFINE state == [run[r] EXCEPT !.pc = "apply", !.result = "fail"]
    <3>1. state.pc = "apply" /\ state.result = "fail" /\ state.flight = run[r].flight
          /\ state.serial = run[r].serial
      BY <1>2 DEF RunState
    <3>2. QED
      BY <2>3, <3>1
  <2>4. CASE SetRun(r, [run[r] EXCEPT !.pc = "apply", !.result = "fail", !.late = TRUE])
    <3> DEFINE state == [run[r] EXCEPT !.pc = "apply", !.result = "fail", !.late = TRUE]
    <3>1. state.pc = "apply" /\ state.result = "fail" /\ state.flight = run[r].flight
          /\ state.serial = run[r].serial
      BY <1>2 DEF RunState
    <3>2. QED
      BY <2>4, <3>1
  <2>5. QED
    BY <2>1, <2>2, <2>3, <2>4
<1>4. state.pc \in FetchPC /\ run[r].pc \in FetchPC /\ state.pc \in AttemptPC
      /\ run[r].pc \in OwnerPC
  BY <1>1, <1>3 DEF FetchPC, AttemptPC, OwnerPC
<1>5. state.pc # "track" /\ state.pc # "markFailed" /\ state.flight \in used
  BY <1>3, <1>4, CardRunnerFacts
<1>6. QED
  BY <1>1, <1>3, <1>4, <1>5, CardRunnerFacts, RunnerMoves

\* The result is read back from the card, and decides which mark is set.
LEMMA CardNoted ==
  ASSUME Coordinated, CardInv, NEW r \in Callers, ReadBack(r) \/ CheckTracked(r) \/ MarkLive(r)
  PROVE  CardInv'
<1>1. /\ UNCHANGED <<flightOf, used, tracked, view, failMark, cached, loaded, admin, begun, call>>
      /\ run[r].pc \in {"observe", "track", "markLive"}
  BY DEF ReadBack, CheckTracked, MarkLive, service, membership, bookkeeping, history
<1>2. run[r] \in RunState /\ run[r].flight \in used /\ run[r].pc \notin FetchPC
  BY <1>1, CardRunnerFacts DEF OwnerPC, FetchPC
<1>3. CASE ReadBack(r)
  <2> DEFINE result == IF view.error THEN "fail" ELSE "ok"
             state == [run[r] EXCEPT !.pc = "track", !.result = result]
  <2>1. SetRun(r, state)
    BY <1>3 DEF ReadBack
  <2>2. /\ state.pc = "track" /\ state.flight = run[r].flight
        /\ state.result # "ok" => view.error
    BY <1>2 DEF RunState
  <2> HIDE DEF state
  <2>3. state.pc \notin FetchPC /\ state.pc \in AttemptPC
    BY <2>2 DEF FetchPC, AttemptPC
  <2>4. QED
    BY <1>1, <1>2, <2>1, <2>2, <2>3, CardRunnerFacts, RunnerMoves
<1>4. CASE CheckTracked(r)
  <2> DEFINE pc == IF ~tracked THEN "settle"
                   ELSE IF run[r].result = "ok" THEN "markLive" ELSE "markFailed"
             state == [run[r] EXCEPT !.pc = pc]
  <2>1. SetRun(r, state) /\ run[r].pc = "track"
    BY <1>4 DEF CheckTracked
  <2>2. state.pc = pc /\ state.flight = run[r].flight
    BY <1>2, CardRunGoes
  <2> HIDE DEF state
  <2>3. state.pc \notin FetchPC /\ state.pc # "track" /\ state.pc # "apply"
    BY <2>2 DEF FetchPC
  <2>4. FirstLife /\ tracked /\ state.pc # "markLive" => view.error
    BY <2>1, <2>2, CardRunnerFacts DEF RunnerFits
  <2>5. FirstLife /\ state.pc \notin AttemptPC /\ tracked => view.error
    BY <2>4 DEF AttemptPC
  <2>6. FirstLife /\ state.pc = "markFailed" /\ tracked => view.error
    BY <2>4
  <2>7. QED
    BY <1>1, <1>2, <2>1, <2>2, <2>3, <2>5, <2>6, CardRunnerFacts, RunnerMoves
<1>5. CASE MarkLive(r)
  <2> DEFINE state == [run[r] EXCEPT !.pc = "clearFailed"]
  <2>1. SetRun(r, state)
    BY <1>5 DEF MarkLive
  <2>2. state.pc = "clearFailed" /\ state.flight = run[r].flight
    BY <1>2, CardRunGoes
  <2> HIDE DEF state
  <2>3. state.pc \notin FetchPC /\ state.pc \in AttemptPC
    BY <2>2 DEF FetchPC, AttemptPC
  <2>4. QED
    BY <1>1, <1>2, <2>1, <2>2, <2>3, CardRunnerFacts, RunnerMoves
<1>6. QED
  BY <1>3, <1>4, <1>5

\* The other runners, in the first life of the id, while r works.
LEMMA OthersIdle ==
  ASSUME Coordinated, CardInv, NEW r \in Callers, NEW s \in Callers, s # r, FirstLife,
         run[r].pc \in OwnerPC
  PROVE  run[s].pc \notin OwnerPC
  BY SoleRunner DEF CardInv

\* What is left of the invariant when a step of the runner r writes card, storage or marks.
LEMMA RunnerWrites ==
  ASSUME Coordinated, CardInv, NEW r \in Callers, NEW state, SetRun(r, state),
         UNCHANGED <<flightOf, used, tracked, loaded, admin, call>>,
         run[r].pc \in OwnerPC, state.pc \in OwnerPC, state.flight = run[r].flight,
         ~tracked => view' = view,
         SerialsFit', RefreshingHasRunner',
         FirstLife => CardFits' /\ RunnerFits(r)'
  PROVE  CardInv'
<1>1. \A s \in Callers : run'[s] = IF s = r THEN state ELSE run[s]
  BY DEF Coordinated, TypeOK, SetRun
<1>2. MembershipFits' /\ FlightsUsed'
  BY <1>1 DEF CardInv, MembershipFits, FlightsUsed
<1>3. NothingFetched'
  BY DEF CardInv, FlightsUsed, NothingFetched
<1>4. FirstLife' => FirstLife
  BY DEF FirstLife
<1>5. FirstLife => \A s \in Callers : RunnerFits(s)'
  <2> SUFFICES ASSUME FirstLife, NEW s \in Callers, s # r PROVE RunnerFits(s)'
    OBVIOUS
  <2>1. run'[s] = run[s] /\ run[s].pc \notin OwnerPC
    BY <1>1, OthersIdle
  <2>2. QED
    BY <2>1 DEF RunnerFits, OwnerPC, FetchPC
<1>6. QED
  BY <1>2, <1>3, <1>4, <1>5 DEF CardInv

\* An attempt begins: the card says so, and its serial number is the newest.
LEMMA CardBegin == ASSUME Coordinated, CardInv, NEW r \in Callers, BeginAttempt(r) PROVE CardInv'
<1> DEFINE gen == flight[run[r].flight].attempt
           state == [run[r] EXCEPT !.pc = "working", !.serial = begun + 1, !.gen = gen]
<1>1. /\ UNCHANGED <<flightOf, used, tracked, loaded, admin, call, failMark, cached>>
      /\ SetRun(r, state) /\ run[r].pc = "begin" /\ begun' = begun + 1
      /\ view' = IF tracked THEN [view EXCEPT !.refreshing = TRUE, !.error = FALSE] ELSE view
  BY DEF BeginAttempt, UpdateState, membership, bookkeeping
<1>2. run[r] \in RunState /\ view \in View /\ begun \in Nat /\ cached \in Nat /\ loaded \in Nat
      /\ run \in [Callers -> RunState]
  BY DEF Coordinated, TypeOK
<1>3. state.pc = "working" /\ state.serial = begun + 1 /\ state.flight = run[r].flight
  BY <1>2 DEF RunState
<1> HIDE DEF state
<1>4. \A s \in Callers : run'[s] = IF s = r THEN state ELSE run[s]
  BY <1>1, <1>2 DEF SetRun
<1>5. view'.snap = view.snap /\ (tracked => view'.refreshing) /\ view.snap \in Nat
  BY <1>1, <1>2 DEF View
<1>6. \A s \in Callers : run[s].serial \in Nat
  BY <1>2 DEF RunState
<1>7. SerialsFit'
  BY <1>1, <1>2, <1>3, <1>4, <1>5, <1>6 DEF CardInv, SerialsFit
<1>8. RefreshingHasRunner'
  BY <1>3, <1>4 DEF RefreshingHasRunner
<1>9. CardFits'
  <2>1. run'[r].pc \in AttemptPC
    BY <1>3, <1>4 DEF AttemptPC, FetchPC
  <2>2. ~tracked => view'.source # "Live"
    BY <1>1 DEF CardInv, MembershipFits, DefaultView
  <2>3. QED
    BY <1>1, <1>5, <2>1, <2>2 DEF CardFits
<1>10. RunnerFits(r)'
  BY <1>1, <1>2, <1>3, <1>4, <1>5 DEF CardInv, SerialsFit, RunnerFits
<1>11. run[r].pc \in OwnerPC /\ state.pc \in OwnerPC
  BY <1>1, <1>3 DEF OwnerPC
<1>12. QED
  BY <1>1, <1>3, <1>7, <1>8, <1>9, <1>10, <1>11, RunnerWrites

\* The snapshot is saved while the card still says that it is refreshing.
LEMMA CardSave == ASSUME Coordinated, CardInv, NEW r \in Callers, SaveSnapshot(r) PROVE CardInv'
<1>1. PICK result \in {"ok", "uncached", "fail"} :
           /\ SetRun(r, [run[r] EXCEPT !.pc = "apply", !.result = result])
           /\ cached' = IF result = "ok" THEN run[r].serial ELSE cached
  BY DEF SaveSnapshot
<1> DEFINE state == [run[r] EXCEPT !.pc = "apply", !.result = result]
<1>2. /\ UNCHANGED <<flightOf, used, tracked, view, failMark, loaded, admin, begun, call>>
      /\ run[r].pc = "save" /\ SetRun(r, state)
  BY <1>1 DEF SaveSnapshot, membership, bookkeeping, history
<1>3. run[r] \in RunState /\ run \in [Callers -> RunState]
  BY DEF Coordinated, TypeOK
<1>4. state.pc = "apply" /\ state.serial = run[r].serial /\ state.flight = run[r].flight
      /\ state.result = result
  BY <1>3 DEF RunState
<1> HIDE DEF state
<1>5. \A s \in Callers : run'[s] = IF s = r THEN state ELSE run[s]
  BY <1>2, <1>3 DEF SetRun
<1>6. SerialsFit'
  BY <1>1, <1>2, <1>4, <1>5 DEF CardInv, SerialsFit, FetchPC
<1>7. RefreshingHasRunner'
  BY <1>4, <1>5 DEF RefreshingHasRunner
<1>8. run[r].pc \in FetchPC /\ state.pc \in FetchPC
  BY <1>2, <1>4 DEF FetchPC
<1>9. FirstLife => CardFits'
  <2>1. run'[r].pc \in AttemptPC
    BY <1>4, <1>5 DEF AttemptPC, FetchPC
  <2>2. ~tracked => view.source # "Live"
    BY DEF CardInv, MembershipFits, DefaultView
  <2>3. FirstLife => (tracked => view.refreshing)
    BY <1>8 DEF CardInv, RunnerFits
  <2>4. QED
    BY <1>2, <2>1, <2>2, <2>3 DEF CardFits
<1>10. FirstLife => RunnerFits(r)'
  BY <1>1, <1>2, <1>4, <1>5, <1>8 DEF CardInv, RunnerFits
<1>11. run[r].pc \in OwnerPC /\ state.pc \in OwnerPC
  BY <1>2, <1>4 DEF OwnerPC
<1>12. QED
  BY <1>2, <1>4, <1>6, <1>7, <1>9, <1>10, <1>11, RunnerWrites

\* What the card shows when a result is merged.
LEMMA MergedView ==
  ASSUME Coordinated, NEW r \in Callers, NEW v,
         v = MergeRefreshResult(run[r].result, run[r].serial)
  PROVE  /\ ~v.refreshing /\ v.snap \in {view.snap, run[r].serial}
         /\ (run[r].result = "ok" \/ v.error)
         /\ (run[r].result = "ok" => v.snap = run[r].serial)
<1>1. view \in View
  BY DEF Coordinated, TypeOK
<1>2. CASE run[r].result \in {"ok", "uncached"}
  BY <1>2 DEF MergeRefreshResult
<1>3. CASE run[r].result \notin {"ok", "uncached"}
  BY <1>1, <1>3 DEF MergeRefreshResult, View
<1>4. QED
  BY <1>2, <1>3

\* The result is merged: a snapshot is shown that is saved, or there is an error.
LEMMA CardApply == ASSUME Coordinated, CardInv, NEW r \in Callers, ApplyResult(r) PROVE CardInv'
<1> DEFINE state == [run[r] EXCEPT !.pc = "observe"]
<1>1. /\ UNCHANGED <<flightOf, used, tracked, cached, failMark, loaded, admin, begun, call>>
      /\ run[r].pc = "apply" /\ SetRun(r, state)
  BY DEF ApplyResult, membership, bookkeeping
<1>2. PICK v : /\ v = MergeRefreshResult(run[r].result, run[r].serial)
               /\ view' = IF tracked THEN v ELSE view
  BY DEF ApplyResult, UpdateState
<1>3. /\ run[r] \in RunState /\ run \in [Callers -> RunState] /\ view.snap \in Nat
      /\ run[r].serial \in Nat
  BY DEF Coordinated, TypeOK, View, RunState
<1>4. state.pc = "observe" /\ state.flight = run[r].flight
  BY <1>3, CardRunGoes
<1> HIDE DEF state
<1>5. \A s \in Callers : run'[s] = IF s = r THEN state ELSE run[s]
  BY <1>1, <1>3 DEF SetRun
<1>6. /\ ~v.refreshing /\ v.snap \in {view.snap, run[r].serial}
      /\ (run[r].result = "ok" \/ v.error)
      /\ (run[r].result = "ok" => v.snap = run[r].serial)
  BY <1>2, MergedView
<1>7. ~tracked => view' = view /\ view.source # "Live" /\ ~view.refreshing
  BY <1>2 DEF CardInv, MembershipFits, DefaultView
<1>8. SerialsFit'
  <2>1. view.snap <= begun /\ run[r].serial <= begun
    BY <1>1 DEF CardInv, SerialsFit, FetchPC
  <2>2. view'.snap <= begun
    BY <1>2, <1>6, <2>1
  <2>3. QED
    BY <1>1, <1>4, <1>5, <2>2 DEF CardInv, SerialsFit, FetchPC
<1>9. RefreshingHasRunner'
  BY <1>2, <1>6, <1>7 DEF RefreshingHasRunner
<1>10. FirstLife => CardFits'
  <2>1. run'[r].pc \in AttemptPC
    BY <1>4, <1>5 DEF AttemptPC, FetchPC
  <2>2. FirstLife /\ run[r].result = "ok" => cached = run[r].serial
    BY <1>1 DEF CardInv, RunnerFits
  <2>3. QED
    BY <1>1, <1>2, <1>6, <1>7, <2>1, <2>2 DEF CardFits
<1>11. RunnerFits(r)'
  BY <1>4, <1>5 DEF RunnerFits, FetchPC
<1>12. run[r].pc \in OwnerPC /\ state.pc \in OwnerPC
  BY <1>1, <1>4 DEF OwnerPC
<1>13. QED
  BY <1>1, <1>4, <1>7, <1>8, <1>9, <1>10, <1>11, <1>12, RunnerWrites

\* The marks: a success lifts the backoff, a failure sets it when the card shows an error.
LEMMA CardMarks ==
  ASSUME Coordinated, CardInv, NEW r \in Callers, ClearFailed(r) \/ MarkFailed(r)
  PROVE  CardInv'
<1> DEFINE state == [run[r] EXCEPT !.pc = "settle"]
<1>1. /\ UNCHANGED <<flightOf, used, tracked, view, cached, loaded, admin, begun, call>>
      /\ run[r].pc \in {"clearFailed", "markFailed"} /\ SetRun(r, state)
      /\ failMark' = (run[r].pc = "markFailed")
  BY DEF ClearFailed, MarkFailed, membership, history
<1>2. run[r] \in RunState /\ run \in [Callers -> RunState]
  BY DEF Coordinated, TypeOK
<1>3. state.pc = "settle" /\ state.flight = run[r].flight
  BY <1>2, CardRunGoes
<1> HIDE DEF state
<1>4. \A s \in Callers : run'[s] = IF s = r THEN state ELSE run[s]
  BY <1>1, <1>2 DEF SetRun
<1>5. SerialsFit' /\ RefreshingHasRunner'
  BY <1>1, <1>3, <1>4 DEF CardInv, SerialsFit, RefreshingHasRunner, FetchPC
<1>6. FirstLife => CardFits'
  <2>1. FirstLife /\ tracked /\ run[r].pc = "markFailed" => view.error
    BY DEF CardInv, RunnerFits
  <2>2. FirstLife /\ tracked /\ failMark' => view.error
    BY <1>1, <2>1
  <2>3. QED
    BY <1>1, <2>2 DEF CardInv, CardFits
<1>7. RunnerFits(r)'
  BY <1>3, <1>4 DEF RunnerFits, FetchPC
<1>8. run[r].pc \in OwnerPC /\ state.pc \in OwnerPC
  BY <1>1, <1>3 DEF OwnerPC
<1>9. QED
  BY <1>1, <1>3, <1>5, <1>6, <1>7, <1>8, RunnerWrites

\* Adding and removing the account: the card is blank before and after, and the first flight is
\* handed out when nobody has run.
LEMMA CardAdmin == ASSUME Coordinated, CardInv, AdminStep PROVE CardInv'
<1>1. UNCHANGED <<run, call, cached, begun>>
  BY DEF AdminStep, RegistryAdd, LoadCached, InsertState, InsertFlight, Reconcile, RegistryRemove,
         DropState, DropFlight, DropFresh, DropFailed, Deregister, AdminGoes, history
<1>2. \A c \in Callers : call'[c].pc = "join" => call'[c].flight \in used
  BY <1>1 DEF CardInv, FlightsUsed
<1>3. flightOf # NoFlight => admin \in {"reconcile", "live", "dropState", "dropFlight"}
  BY DEF CardInv, MembershipFits
<1>4. FirstLife => flightOf # NoFlight
  BY NoFlightAssumption DEF FirstLife, Coordinated, TypeOK
<1>5. view \in View /\ cached \in Nat /\ begun \in Nat /\ loaded \in Nat /\ used \subseteq Flights
  BY DEF Coordinated, TypeOK
<1>6. CASE RegistryAdd \/ Reconcile \/ RegistryRemove \/ DropFresh \/ DropFailed \/ Deregister
  <2>1. UNCHANGED <<flightOf, used, tracked, view, loaded>> /\ failMark' \in {failMark, FALSE}
    BY <1>6 DEF RegistryAdd, Reconcile, RegistryRemove, DropFresh, DropFailed, Deregister,
                bookkeeping
  <2>2. flightOf = NoFlight \/ admin' \in {"reconcile", "live", "dropState", "dropFlight"}
    BY <1>3, <1>6 DEF RegistryAdd, Reconcile, RegistryRemove, DropFresh, DropFailed, Deregister,
                      AdminGoes
  <2>3. QED
    BY <1>1, <1>2, <2>1, <2>2, CardStays
<1>7. CASE LoadCached
  <2>1. UNCHANGED <<flightOf, used, tracked, view, failMark>> /\ loaded' \in {cached, 0}
        /\ flightOf = NoFlight
    BY <1>3, <1>7 DEF LoadCached, AdminGoes, bookkeeping
  <2>2. MembershipFits' /\ FlightsUsed' /\ RefreshingHasRunner'
    BY <1>1, <2>1 DEF CardInv, MembershipFits, FlightsUsed, RefreshingHasRunner
  <2>3. SerialsFit' /\ NothingFetched'
    BY <1>1, <1>5, <2>1 DEF CardInv, SerialsFit, NothingFetched
  <2>4. ~FirstLife'
    BY <1>4, <2>1 DEF FirstLife
  <2>5. QED
    BY <2>2, <2>3, <2>4 DEF CardInv
<1>8. CASE InsertState
  <2>1. UNCHANGED <<flightOf, used, loaded, failMark>> /\ flightOf = NoFlight /\ tracked'
        /\ view' = ViewOfCache(loaded)
    BY <1>3, <1>8 DEF InsertState, AdminGoes, bookkeeping
  <2>2. view'.source # "Live" /\ ~view'.refreshing /\ view'.snap = loaded
    BY <2>1 DEF ViewOfCache, DefaultView
  <2>3. MembershipFits' /\ FlightsUsed' /\ RefreshingHasRunner'
    BY <1>1, <2>1, <2>2 DEF CardInv, MembershipFits, FlightsUsed, RefreshingHasRunner
  <2>4. SerialsFit' /\ NothingFetched'
    BY <1>1, <2>1, <2>2 DEF CardInv, SerialsFit, NothingFetched
  <2>5. ~FirstLife'
    BY <1>4, <2>1 DEF FirstLife
  <2>6. QED
    BY <2>3, <2>4, <2>5 DEF CardInv
<1>9. CASE InsertFlight
  <2>1. PICK f \in Flights \ used : flightOf' = f /\ used' = used \cup {f}
    BY <1>9 DEF InsertFlight
  <2>2. UNCHANGED <<tracked, view, failMark, loaded>> /\ admin' = "reconcile"
    BY <1>9 DEF InsertFlight, AdminGoes, bookkeeping
  <2>3. MembershipFits' /\ FlightsUsed'
    BY <1>1, <2>1, <2>2 DEF CardInv, MembershipFits, FlightsUsed
  <2>4. SerialsFit' /\ NothingFetched' /\ RefreshingHasRunner'
    BY <1>1, <2>1, <2>2 DEF CardInv, SerialsFit, NothingFetched, RefreshingHasRunner
  <2>5. FirstLife' => used = {}
    BY <2>1 DEF FirstLife
  <2>6. ASSUME used = {} PROVE CardFits' /\ \A r \in Callers : RunnerFits(r)'
    <3>1. view'.source # "Live" /\ ~failMark'
      BY <2>2, <2>6 DEF CardInv, NothingFetched
    <3>2. \A r \in Callers : run'[r].pc \notin OwnerPC
      BY <1>1, <2>6 DEF CardInv, FlightsUsed
    <3>3. QED
      BY <3>1, <3>2 DEF CardFits, RunnerFits, OwnerPC, FetchPC
  <2>7. QED
    BY <2>3, <2>4, <2>5, <2>6 DEF CardInv
<1>10. CASE DropState
  <2>1. UNCHANGED <<flightOf, used, failMark, loaded>> /\ admin' = "dropFlight" /\ ~tracked'
        /\ view' = DefaultView
    BY <1>10 DEF DropState, AdminGoes, bookkeeping
  <2>2. view'.source # "Live" /\ ~view'.refreshing /\ view'.snap = 0
    BY <2>1 DEF DefaultView
  <2>3. MembershipFits' /\ FlightsUsed' /\ RefreshingHasRunner'
    BY <1>1, <2>1, <2>2 DEF CardInv, MembershipFits, FlightsUsed, RefreshingHasRunner
  <2>4. SerialsFit' /\ NothingFetched'
    BY <1>1, <1>5, <2>1, <2>2 DEF CardInv, SerialsFit, NothingFetched
  <2>5. FirstLife' => FirstLife
    BY <2>1 DEF FirstLife
  <2>6. CardFits'
    BY <2>1, <2>2 DEF CardFits
  <2>7. FirstLife => \A r \in Callers : RunnerFits(r)'
    <3>1. \A r \in Callers : run[r].serial \in Nat
      BY DEF Coordinated, TypeOK, RunState
    <3>2. QED
      BY <1>1, <2>1, <2>2, <3>1 DEF CardInv, RunnerFits
  <2>8. QED
    BY <2>3, <2>4, <2>5, <2>6, <2>7 DEF CardInv
<1>11. CASE DropFlight
  <2>1. UNCHANGED <<tracked, view, used, failMark, loaded>> /\ flightOf' = NoFlight
    BY <1>11 DEF DropFlight, AdminGoes, bookkeeping
  <2>2. MembershipFits' /\ FlightsUsed' /\ RefreshingHasRunner'
    BY <1>1, <2>1 DEF CardInv, MembershipFits, FlightsUsed, RefreshingHasRunner
  <2>3. SerialsFit' /\ NothingFetched'
    BY <1>1, <2>1 DEF CardInv, SerialsFit, NothingFetched
  <2>4. ~FirstLife'
    BY <1>5, <2>1, NoFlightAssumption DEF FirstLife
  <2>5. QED
    BY <2>2, <2>3, <2>4 DEF CardInv
<1>12. QED
  BY <1>6, <1>7, <1>8, <1>9, <1>10, <1>11 DEF AdminStep

\* Every step keeps what card and service have in common.
LEMMA CardStep == Coordinated /\ CardInv /\ [Next]_vars => CardInv'
<1> SUFFICES ASSUME Coordinated, CardInv, [Next]_vars PROVE CardInv'
  OBVIOUS
<1>1. ASSUME NEW c \in Callers, Call(c) \/ CallerStep(c) PROVE CardInv'
  BY <1>1, CardCaller
<1>2. ASSUME NEW r \in Callers, RunnerStep(r) \/ WorkerStep(r) PROVE CardInv'
  BY <1>2, CardQuiet, CardFetched, CardNoted, CardBegin, CardSave, CardApply, CardMarks
     DEF RunnerStep, WorkerStep
<1>3. CASE AdminStep
  BY <1>3, CardAdmin
<1>4. CASE FreshExpires \/ BackoffExpires \/ UNCHANGED vars
  <2>1. UNCHANGED <<flightOf, used, tracked, view, cached, loaded, begun, run, call, admin>>
        /\ failMark' \in {failMark, FALSE}
    BY <1>4 DEF FreshExpires, BackoffExpires, vars, membership, history
  <2>2. flightOf = NoFlight \/ admin' \in {"reconcile", "live", "dropState", "dropFlight"}
    BY <2>1 DEF CardInv, MembershipFits
  <2>3. \A c \in Callers : call'[c].pc = "join" => call'[c].flight \in used
    BY <2>1 DEF CardInv, FlightsUsed
  <2>4. QED
    BY <2>1, <2>2, <2>3, CardStays
<1>5. QED
  BY <1>1, <1>2, <1>3, <1>4 DEF Next

\* At the start the card shows what is saved, or nothing.
LEMMA CardInitially == Init => CardInv
<1> SUFFICES ASSUME Init PROVE CardInv
  OBVIOUS
<1>1. PICK f \in Flights : /\ flightOf = IF registered THEN f ELSE NoFlight
                           /\ used = IF registered THEN {f} ELSE {}
  BY DEF Init
<1>2. \A c \in Callers : call[c].pc = "idle" /\ run[c].pc = "none"
  BY DEF Init
<1>3. /\ cached \in {0, 1} /\ begun = 1 /\ loaded = 0 /\ failMark = FALSE
      /\ tracked = registered /\ admin = IF registered THEN "live" ELSE "absent"
      /\ view = IF registered THEN ViewOfCache(cached) ELSE DefaultView
      /\ registered \in BOOLEAN
  BY DEF Init
<1>4. view.source # "Live" /\ ~view.refreshing /\ view.snap \in {0, 1}
  BY <1>3 DEF ViewOfCache, DefaultView
<1>5. MembershipFits
  BY <1>1, <1>3 DEF MembershipFits
<1>6. FlightsUsed /\ RefreshingHasRunner
  BY <1>2, <1>4 DEF FlightsUsed, RefreshingHasRunner, OwnerPC
<1>7. NothingFetched
  BY <1>3, <1>4 DEF NothingFetched
<1>8. SerialsFit
  BY <1>2, <1>3, <1>4 DEF SerialsFit, FetchPC
<1>9. CardFits
  BY <1>3, <1>4 DEF CardFits
<1>10. \A r \in Callers : RunnerFits(r)
  BY <1>2 DEF RunnerFits, FetchPC
<1>11. QED
  BY <1>5, <1>6, <1>7, <1>8, <1>9, <1>10 DEF CardInv

\* In the first life of the id a card is never given an older snapshot.
LEMMA CardGrows ==
  ASSUME Coordinated, CardInv, [Next]_vars, FirstLife, tracked, tracked'
  PROVE  view'.snap >= view.snap
<1>1. view.snap \in Nat
  BY DEF Coordinated, TypeOK, View
<1>2. CASE UNCHANGED view
  BY <1>1, <1>2
<1>3. ASSUME NEW r \in Callers, BeginAttempt(r) PROVE view'.snap >= view.snap
  BY <1>1, <1>3 DEF BeginAttempt, UpdateState, Coordinated, TypeOK, View
<1>4. ASSUME NEW r \in Callers, ApplyResult(r) PROVE view'.snap >= view.snap
  <2>1. PICK v : v = MergeRefreshResult(run[r].result, run[r].serial) /\ view' = v
    BY <1>4 DEF ApplyResult, UpdateState
  <2>2. v.snap \in {view.snap, run[r].serial}
    BY <2>1, MergedView
  <2>3. view.snap <= run[r].serial
    BY <1>4 DEF ApplyResult, CardInv, RunnerFits, FetchPC
  <2>4. QED
    BY <1>1, <2>1, <2>2, <2>3 DEF Coordinated, TypeOK, RunState
<1>5. CASE InsertState
  <2>1. flightOf = NoFlight
    BY <1>5 DEF InsertState, AdminGoes, CardInv, MembershipFits
  <2>2. QED
    BY <2>1, NoFlightAssumption DEF FirstLife, Coordinated, TypeOK
<1>6. CASE DropState
  BY <1>6 DEF DropState
<1>7. \/ UNCHANGED view \/ InsertState \/ DropState
      \/ \E r \in Callers : BeginAttempt(r) \/ ApplyResult(r)
  <2>1. ASSUME NEW c \in Callers, Call(c) \/ CallerStep(c) PROVE UNCHANGED view
    BY <2>1 DEF Call, CallerStep, CheckFresh, CheckBackoff, Lookup, Join, Wake, service
  <2>2. ASSUME NEW r \in Callers, RunnerStep(r) \/ WorkerStep(r)
        PROVE  UNCHANGED view \/ BeginAttempt(r) \/ ApplyResult(r)
    BY <2>2 DEF RunnerStep, WorkerStep, FindRuntime, SettleWithoutRuntime, TimeOut, SaveSnapshot,
       ReadBack, CheckTracked, MarkLive, ClearFailed, MarkFailed, SettleInTime, Publish, SettleLate,
       PublishLate, Abandon, WorkerReturns, Drained, service
  <2>3. CASE AdminStep
    BY <2>3 DEF AdminStep, RegistryAdd, LoadCached, InsertFlight, Reconcile, RegistryRemove,
       DropFlight, DropFresh, DropFailed, Deregister
  <2>4. CASE FreshExpires \/ BackoffExpires \/ UNCHANGED vars
    BY <2>4 DEF FreshExpires, BackoffExpires, vars
  <2>5. QED
    BY <2>1, <2>2, <2>3, <2>4 DEF Next
<1>8. QED
  BY <1>2, <1>3, <1>4, <1>5, <1>6, <1>7

\* The card and the service agree, whatever calls, runners, edits and failures overlap: a card
\* that refreshes has a runner that will merge a result; and, while the id has its first flight,
\* what it shows without an error is what is saved, a backoff has an error to show, and no
\* snapshot gives way to an older one (mark_refreshing, merge_refresh_result, the freshness maps).
THEOREM CardAndServiceAgree == Spec => CardAgreesWithService
<1>1. Coordinated /\ CardInv => RefreshingHasRunner /\ LiveWithoutErrorIsCached /\ BackoffHasError
  <2> SUFFICES ASSUME CardInv
               PROVE  RefreshingHasRunner /\ LiveWithoutErrorIsCached /\ BackoffHasError
    OBVIOUS
  <2>1. RefreshingHasRunner
    BY DEF CardInv
  <2>2. LiveWithoutErrorIsCached
    BY DEF CardInv, CardFits, LiveWithoutErrorIsCached
  <2>3. AttemptPC \subseteq OwnerPC
    BY DEF AttemptPC, FetchPC, OwnerPC
  <2>4. BackoffHasError
    BY <2>3 DEF CardInv, CardFits, BackoffHasError
  <2>5. QED
    BY <2>1, <2>2, <2>4
<1>2. Coordinated /\ CardInv /\ [Next]_vars => [SnapshotNotOlder]_vars
  BY CardGrows DEF SnapshotNotOlder
<1>3. Spec => []CardInv
  BY CardInitially, CardStep, CoordinationHolds, PTL DEF Spec
<1>4. QED
  BY <1>1, <1>2, <1>3, CoordinationHolds, PTL DEF Spec, CardAgreesWithService
=============================================================================
