--------------------------- MODULE ProviderService ---------------------------
(***************************************************************************)
(* The refresh coordination of one provider card:                          *)
(* src-tauri/src/service.rs, `ProviderService`.                            *)
(*                                                                         *)
(* Callers are calls of `refresh`; a call that finds no runner spawns one, *)
(* which keeps running attempts until nobody waits for a further one.  A   *)
(* runner is named after the call that spawned it.  A RefreshFlight is the *)
(* coordination object the two sides share; removing and re-adding the     *)
(* provider replaces it while old runners and callers keep their handle.   *)
(* Every lock section and every await-to-await stretch is one action.      *)
(*                                                                         *)
(* Abstracted: a snapshot is the serial number of the attempt that fetched *)
(* it, an error is a flag, the two backoff windows are marks that expire   *)
(* at any time, and the 120 s and drain-grace timers may fire at any time. *)
(***************************************************************************)
EXTENDS Integers, FiniteSets

CONSTANTS
    Callers,    \* calls of refresh(); each happens at most once
    Flights,    \* RefreshFlight objects; each add of the provider uses one
    NoFlight,   \* no entry in `refresh_flights`
    Removable   \* a named API-key account; FALSE: a built-in provider

ASSUME NoFlightAssumption == NoFlight \notin Flights
ASSUME RemovableAssumption == Removable \in BOOLEAN

VARIABLES
    registered, \* the registry holds a runtime for the id
    flightOf,   \* `refresh_flights` entry of the id
    used,       \* flights created so far
    tracked,    \* `states` has an entry for the id
    view,       \* that entry (DefaultView when there is none)
    freshMark,  \* `last_live_refresh` entry younger than REFRESH_INTERVAL
    failMark,   \* `last_failed_refresh` entry younger than FAILURE_RETRY_BACKOFF
    cached,     \* snapshot in storage (0: none)
    admin,      \* the add / remove command, serialised by `command_guard`
    loaded,     \* the snapshot `register_provider` read from storage
    flight,     \* RefreshFlightState of every flight
    published,  \* the value of its watch channel
    call,       \* the locals of every call
    run,        \* the locals of the runner it spawned
    begun,      \* history: attempts begun, which numbers them
    merged,     \* history: <<flight, generation, serial>> merged into the view
    waived      \* history: <<flight, generation>> completed without an attempt

vars == <<registered, flightOf, used, tracked, view, freshMark, failMark, cached, admin,
          loaded, flight, published, call, run, begun, merged, waived>>

history == <<begun, merged, waived>>
bookkeeping == <<freshMark, failMark>>
membership == <<registered, flightOf, used, tracked, admin, loaded>>
service == <<membership, view, bookkeeping, cached>>

-----------------------------------------------------------------------------
(***************************************************************************)
(* The view: ProviderViewState and the ways it is written.                 *)
(***************************************************************************)
DefaultView == [snap |-> 0, source |-> "None", refreshing |-> FALSE, error |-> FALSE]

\* from_cache, or the default when storage has nothing or cannot be read
ViewOfCache(snap) ==
    IF snap = 0 THEN DefaultView
    ELSE [snap |-> snap, source |-> "Cache", refreshing |-> FALSE, error |-> FALSE]

\* update_state only mutates an existing entry
UpdateState(v) == view' = IF tracked THEN v ELSE view

\* Faulty variant of MergeRefreshResult: a snapshot that could not be cached is no error.
CacheErrorIgnored(result, snap) ==
    IF result \in {"ok", "uncached"}
    THEN [snap |-> snap, source |-> "Live", refreshing |-> FALSE, error |-> FALSE]
    ELSE [view EXCEPT !.refreshing = FALSE, !.error = TRUE]

\* merge_refresh_result, then the cache error apply_refresh_result adds
MergeRefreshResult(result, snap) ==
    IF result \in {"ok", "uncached"}
    THEN [snap |-> snap, source |-> "Live", refreshing |-> FALSE, error |-> result = "uncached"]
    ELSE [view EXCEPT !.refreshing = FALSE, !.error = TRUE]

(***************************************************************************)
(* RefreshFlightState and the lock sections that change it.  Generation 0  *)
(* of `attempt` stands for None.                                           *)
(***************************************************************************)
NewFlight == [active |-> FALSE, attempt |-> 0, requested |-> 0, completed |-> 0, abandons |-> 0]

Max2(m, n) == IF m > n THEN m ELSE n

\* refresh(): nobody runs, so the caller starts generation completed + 1
Started(s) == [s EXCEPT !.active = TRUE, !.attempt = s.completed + 1, !.requested = s.completed + 1]

\* Faulty variant of FollowUpQueued: a forced call joins the running attempt.
FollowUpShares(s) == [s EXCEPT !.requested = Max2(s.requested, s.attempt)]

\* refresh(force): ask for an attempt after the running one
FollowUpQueued(s) == [s EXCEPT !.requested = Max2(s.requested, s.attempt + 1)]

\* Faulty variant of Settled: it completes what was only requested.
SettledTooFar(s, g) ==
    [s EXCEPT !.completed = s.requested, !.attempt = 0, !.active = FALSE]

\* settle_completed_generation
Settled(s, g) ==
    IF s.requested > g THEN [s EXCEPT !.completed = g, !.attempt = g + 1]
    ELSE [s EXCEPT !.completed = g, !.attempt = 0, !.active = FALSE]

\* Faulty variant of SettledLate: the flight is released before the worker drained.
SettledLateReleases(s, g) == [s EXCEPT !.completed = g, !.attempt = 0, !.active = FALSE]

\* a timed-out attempt releases its waiters and keeps the flight
SettledLate(s, g) == [s EXCEPT !.completed = g, !.attempt = 0]

\* Faulty variant of GivenUp: the flight stays taken.
GivenUpStillActive(s, all) == [s EXCEPT !.completed = all, !.attempt = 0]

\* the runner gives the flight up with everything that was asked for
GivenUp(s, all) == [s EXCEPT !.completed = all, !.attempt = 0, !.active = FALSE]

-----------------------------------------------------------------------------

\* A call's locals, a runner's: fresh ones, and what is left when they ended.
FreshCall(pc) == [pc |-> pc, forced |-> FALSE, flight |-> NoFlight, target |-> 0, joinedAt |-> 0]
FreshRun(pc, f) == [pc |-> pc, flight |-> f, gen |-> 0, serial |-> 0, result |-> "ok", late |-> FALSE]

\* The program starts with the card registered (an earlier session may have
\* stored snapshot 1), or with an account that is yet to be added.
Init ==
    /\ registered \in BOOLEAN /\ (~Removable => registered)
    /\ cached \in {0, 1}
    /\ \E f \in Flights :
          /\ flightOf = IF registered THEN f ELSE NoFlight
          /\ used = IF registered THEN {f} ELSE {}
    /\ tracked = registered
    /\ view = IF registered THEN ViewOfCache(cached) ELSE DefaultView
    /\ admin = IF registered THEN "live" ELSE "absent"
    /\ loaded = 0
    /\ freshMark = FALSE /\ failMark = FALSE
    /\ flight = [f \in Flights |-> NewFlight]
    /\ published = [f \in Flights |-> 0]
    /\ call = [c \in Callers |-> FreshCall("idle")]
    /\ run = [c \in Callers |-> FreshRun("none", NoFlight)]
    /\ begun = 1
    /\ merged = {}
    /\ waived = {}

-----------------------------------------------------------------------------
(***************************************************************************)
(* `refresh(provider_id, force)`                                           *)
(***************************************************************************)
SetFlight(f, state) == flight' = [flight EXCEPT ![f] = state]
PublishTo(f, g) == published' = [published EXCEPT ![f] = g]
SetRun(r, state) == run' = [run EXCEPT ![r] = state]
CallAt(c, pc) == call[c].pc = pc
SetCall(c, state) == call' = [call EXCEPT ![c] = state]
CallGoes(c, pc) == SetCall(c, [call[c] EXCEPT !.pc = pc])
Return(c) == SetCall(c, FreshCall("returned"))

\* The call starts; an id without a runtime is an error.
Call(c) ==
    /\ CallAt(c, "idle")
    /\ \E force \in BOOLEAN :
          IF registered
          THEN SetCall(c, [call[c] EXCEPT !.pc = IF force THEN "lookup" ELSE "fresh",
                                          !.forced = force])
          ELSE Return(c)
    /\ UNCHANGED <<service, flight, published, run, history>>

CheckFresh(c) ==
    /\ CallAt(c, "fresh")
    /\ IF freshMark THEN Return(c) ELSE CallGoes(c, "backoff")
    /\ UNCHANGED <<service, flight, published, run, history>>

CheckBackoff(c) ==
    /\ CallAt(c, "backoff")
    /\ IF failMark THEN Return(c) ELSE CallGoes(c, "lookup")
    /\ UNCHANGED <<service, flight, published, run, history>>

\* A registered provider whose flight entry is missing returns its state.
Lookup(c) ==
    /\ CallAt(c, "lookup")
    /\ IF flightOf = NoFlight THEN Return(c)
       ELSE SetCall(c, [call[c] EXCEPT !.pc = "join", !.flight = flightOf])
    /\ UNCHANGED <<service, flight, published, run, history>>

WaitFor(c, g) ==
    SetCall(c, [call[c] EXCEPT !.pc = "waiting", !.target = g, !.joinedAt = begun])

\* The flight's lock section, and the spawn that follows it.
StartRunner(c, f) ==
    /\ ~flight[f].active
    /\ SetFlight(f, Started(flight[f]))
    /\ WaitFor(c, flight[f].completed + 1)
    /\ SetRun(c, FreshRun("spawned", f))

ReturnWhileDraining(c, f) ==
    /\ flight[f].active /\ flight[f].attempt = 0
    /\ Return(c)
    /\ UNCHANGED <<flight, run>>

QueueFollowUp(c, f) ==
    /\ flight[f].active /\ flight[f].attempt # 0 /\ call[c].forced
    /\ SetFlight(f, FollowUpQueued(flight[f]))
    /\ WaitFor(c, FollowUpQueued(flight[f]).requested)
    /\ UNCHANGED run

ShareAttempt(c, f) ==
    /\ flight[f].active /\ flight[f].attempt # 0 /\ ~call[c].forced
    /\ WaitFor(c, flight[f].attempt)
    /\ UNCHANGED <<flight, run>>

Join(c) ==
    /\ CallAt(c, "join")
    /\ \/ StartRunner(c, call[c].flight)
       \/ ReturnWhileDraining(c, call[c].flight)
       \/ QueueFollowUp(c, call[c].flight)
       \/ ShareAttempt(c, call[c].flight)
    /\ UNCHANGED <<service, published, history>>

\* The call sees the watch value it waits for.
Wake(c) ==
    /\ CallAt(c, "waiting")
    /\ published[call[c].flight] >= call[c].target
    /\ Return(c)
    /\ UNCHANGED <<service, flight, published, run, history>>

-----------------------------------------------------------------------------
(***************************************************************************)
(* `run_refresh_flight`: the runner spawned by call r.                     *)
(***************************************************************************)
RunAt(r, pc) == run[r].pc = pc
RunGoes(r, pc) == SetRun(r, [run[r] EXCEPT !.pc = pc])
RunEnds(r) == SetRun(r, FreshRun("ended", NoFlight))
NextAttempt(r) == SetRun(r, FreshRun("begin", run[r].flight))

\* The runtime is looked up once; a runner keeps it for all its attempts.
FindRuntime(r) ==
    /\ RunAt(r, "spawned") /\ registered
    /\ RunGoes(r, "begin")
    /\ UNCHANGED <<service, flight, published, call, history>>

\* Faulty variant of SettleWithoutRuntime: the early return settles nothing.
EndWithoutRuntime(r) ==
    /\ RunAt(r, "spawned") /\ ~registered
    /\ RunEnds(r)
    /\ UNCHANGED <<service, flight, published, call, history>>

\* No runtime any more: settle everything that was asked for.
SettleWithoutRuntime(r) ==
    LET f == run[r].flight
        all == Max2(flight[f].requested, flight[f].completed)
    IN  /\ RunAt(r, "spawned") /\ ~registered
        /\ SetFlight(f, GivenUp(flight[f], all))
        /\ PublishTo(f, all)
        /\ waived' = waived \cup {<<f, g>> : g \in (flight[f].completed + 1)..all}
        /\ RunEnds(r)
        /\ UNCHANGED <<service, call, begun, merged>>

\* The head of the loop: read the generation, mark the card refreshing, spawn the worker.
BeginAttempt(r) ==
    /\ RunAt(r, "begin")
    /\ UpdateState([view EXCEPT !.refreshing = TRUE, !.error = FALSE])
    /\ begun' = begun + 1
    /\ SetRun(r, [run[r] EXCEPT !.pc = "working", !.serial = begun + 1,
                                !.gen = flight[run[r].flight].attempt])
    /\ UNCHANGED <<membership, bookkeeping, cached, flight, published, call, merged, waived>>

\* The worker returns in time; a snapshot of an id the registry no longer
\* defines breaks its contract, like one that does not match its metrics.
WorkerReturns(r) ==
    /\ RunAt(r, "working")
    /\ \/ registered /\ RunGoes(r, "save")
       \/ SetRun(r, [run[r] EXCEPT !.pc = "apply", !.result = "fail"])
    /\ UNCHANGED <<service, flight, published, call, history>>

\* PROVIDER_REFRESH_TIMEOUT passes first: the attempt fails, its worker lives on.
TimeOut(r) ==
    /\ RunAt(r, "working")
    /\ SetRun(r, [run[r] EXCEPT !.pc = "apply", !.result = "fail", !.late = TRUE])
    /\ UNCHANGED <<service, flight, published, call, history>>

\* Activating the account may fail ("fail"), then saving the snapshot ("uncached").
SaveSnapshot(r) ==
    /\ RunAt(r, "save")
    /\ \E result \in {"ok", "uncached", "fail"} :
          /\ SetRun(r, [run[r] EXCEPT !.pc = "apply", !.result = result])
          /\ cached' = IF result = "ok" THEN run[r].serial ELSE cached
    /\ UNCHANGED <<membership, view, bookkeeping, flight, published, call, history>>

ApplyResult(r) ==
    /\ RunAt(r, "apply")
    /\ UpdateState(MergeRefreshResult(run[r].result, run[r].serial))
    /\ merged' = merged \cup {<<run[r].flight, run[r].gen, run[r].serial>>}
    /\ RunGoes(r, "observe")
    /\ UNCHANGED <<membership, bookkeeping, cached, flight, published, call, begun, waived>>

\* What apply_refresh_result returns is read back, not what was merged.
ReadBack(r) ==
    /\ RunAt(r, "observe")
    /\ SetRun(r, [run[r] EXCEPT !.pc = "track", !.result = IF view.error THEN "fail" ELSE "ok"])
    /\ UNCHANGED <<service, flight, published, call, history>>

CheckTracked(r) ==
    /\ RunAt(r, "track")
    /\ RunGoes(r, IF ~tracked THEN "settle"
                  ELSE IF run[r].result = "ok" THEN "markLive" ELSE "markFailed")
    /\ UNCHANGED <<service, flight, published, call, history>>

MarkLive(r) ==
    /\ RunAt(r, "markLive")
    /\ freshMark' = TRUE
    /\ RunGoes(r, "clearFailed")
    /\ UNCHANGED <<membership, view, failMark, cached, flight, published, call, history>>

\* Faulty variant of ClearFailed: a success does not lift the backoff.
KeepFailed(r) ==
    /\ RunAt(r, "clearFailed")
    /\ RunGoes(r, "settle")
    /\ UNCHANGED <<service, flight, published, call, history>>

ClearFailed(r) ==
    /\ RunAt(r, "clearFailed")
    /\ failMark' = FALSE
    /\ RunGoes(r, "settle")
    /\ UNCHANGED <<membership, view, freshMark, cached, flight, published, call, history>>

MarkFailed(r) ==
    /\ RunAt(r, "markFailed")
    /\ failMark' = TRUE
    /\ RunGoes(r, "settle")
    /\ UNCHANGED <<membership, view, freshMark, cached, flight, published, call, history>>

\* An attempt that ended in time settles under the lock and publishes after it.
SettleInTime(r) ==
    LET f == run[r].flight IN
    /\ RunAt(r, "settle") /\ ~run[r].late
    /\ SetFlight(f, Settled(flight[f], run[r].gen))
    /\ RunGoes(r, IF flight[f].requested > run[r].gen THEN "publishMore" ELSE "publishLast")
    /\ UNCHANGED <<service, published, call, history>>

Publish(r) ==
    /\ RunAt(r, "publishMore") \/ RunAt(r, "publishLast")
    /\ PublishTo(run[r].flight, run[r].gen)
    /\ IF RunAt(r, "publishMore") THEN NextAttempt(r) ELSE RunEnds(r)
    /\ UNCHANGED <<service, flight, call, history>>

\* A timed-out attempt releases its waiters before its worker has drained.
SettleLate(r) ==
    /\ RunAt(r, "settle") /\ run[r].late
    /\ SetFlight(run[r].flight, SettledLate(flight[run[r].flight], run[r].gen))
    /\ RunGoes(r, "publishLate")
    /\ UNCHANGED <<service, published, call, history>>

PublishLate(r) ==
    /\ RunAt(r, "publishLate")
    /\ PublishTo(run[r].flight, run[r].gen)
    /\ RunGoes(r, "draining")
    /\ UNCHANGED <<service, flight, call, history>>

\* The worker ends within its grace: its result is dropped.
Drained(r) ==
    LET f == run[r].flight IN
    /\ RunAt(r, "draining")
    /\ SetFlight(f, [Settled(flight[f], run[r].gen) EXCEPT !.abandons = 0])
    /\ IF flight[f].requested > run[r].gen THEN NextAttempt(r) ELSE RunEnds(r)
    /\ UNCHANGED <<service, published, call, history>>

\* The grace passes: leave the worker behind and release everybody.
Abandon(r) ==
    LET f == run[r].flight
        all == Max2(flight[f].requested, run[r].gen)
    IN  /\ RunAt(r, "draining")
        /\ SetFlight(f, [GivenUp(flight[f], all) EXCEPT !.requested = all, !.abandons = @ + 1])
        /\ PublishTo(f, all)
        /\ waived' = waived \cup {<<f, g>> : g \in (run[r].gen + 1)..all}
        /\ RunEnds(r)
        /\ UNCHANGED <<service, call, begun, merged>>

-----------------------------------------------------------------------------
(***************************************************************************)
(* add_api_key_account and remove_api_key_account, one at a time: the      *)
(* registry is changed first, then the service.  An add whose settings     *)
(* reconciliation fails takes the provider out again, service first, and   *)
(* may be retried with the same id; a removed id is never allocated again. *)
(***************************************************************************)
AdminGoes(from, to) ==
    /\ admin = from /\ admin' = to
    /\ UNCHANGED <<cached, flight, published, call, run, history>>

RegistryAdd ==
    /\ AdminGoes("absent", "load") /\ used # Flights
    /\ registered' = TRUE
    /\ UNCHANGED <<flightOf, used, tracked, view, bookkeeping, loaded>>

LoadCached ==
    /\ AdminGoes("load", "insertState")
    /\ loaded' \in {cached, 0}
    /\ UNCHANGED <<registered, flightOf, used, tracked, view, bookkeeping>>

InsertState ==
    /\ AdminGoes("insertState", "insertFlight")
    /\ tracked' = TRUE
    /\ view' = ViewOfCache(loaded)
    /\ UNCHANGED <<registered, flightOf, used, bookkeeping, loaded>>

InsertFlight ==
    /\ AdminGoes("insertFlight", "reconcile")
    /\ \E f \in Flights \ used : flightOf' = f /\ used' = used \cup {f}
    /\ UNCHANGED <<registered, tracked, view, bookkeeping, loaded>>

Reconcile ==
    /\ \E to \in {"live", "dropState"} : AdminGoes("reconcile", to)
    /\ UNCHANGED <<registered, flightOf, used, tracked, view, bookkeeping, loaded>>

RegistryRemove ==
    /\ AdminGoes("live", "dropState") /\ Removable
    /\ registered' = FALSE
    /\ UNCHANGED <<flightOf, used, tracked, view, bookkeeping, loaded>>

DropState ==
    /\ AdminGoes("dropState", "dropFlight")
    /\ tracked' = FALSE
    /\ view' = DefaultView
    /\ UNCHANGED <<registered, flightOf, used, bookkeeping, loaded>>

DropFlight ==
    /\ AdminGoes("dropFlight", "dropFresh")
    /\ flightOf' = NoFlight
    /\ UNCHANGED <<registered, used, tracked, view, bookkeeping, loaded>>

DropFresh ==
    /\ AdminGoes("dropFresh", "dropFailed")
    /\ freshMark' = FALSE
    /\ UNCHANGED <<registered, flightOf, used, tracked, view, failMark, loaded>>

DropFailed ==
    /\ AdminGoes("dropFailed", IF registered THEN "deregister" ELSE "removed")
    /\ failMark' = FALSE
    /\ UNCHANGED <<registered, flightOf, used, tracked, view, freshMark, loaded>>

Deregister ==
    /\ AdminGoes("deregister", "absent")
    /\ registered' = FALSE
    /\ UNCHANGED <<flightOf, used, tracked, view, bookkeeping, loaded>>

\* REFRESH_INTERVAL and FAILURE_RETRY_BACKOFF pass.
FreshExpires ==
    /\ freshMark /\ freshMark' = FALSE
    /\ UNCHANGED <<membership, view, failMark, cached, flight, published, call, run, history>>

BackoffExpires ==
    /\ failMark /\ failMark' = FALSE
    /\ UNCHANGED <<membership, view, freshMark, cached, flight, published, call, run, history>>

-----------------------------------------------------------------------------

CallerStep(c) == CheckFresh(c) \/ CheckBackoff(c) \/ Lookup(c) \/ Join(c) \/ Wake(c)

\* Everything a runner does but the worker's own return, which may never come.
RunnerStep(r) ==
    \/ FindRuntime(r) \/ SettleWithoutRuntime(r) \/ BeginAttempt(r) \/ TimeOut(r)
    \/ SaveSnapshot(r) \/ ApplyResult(r) \/ ReadBack(r) \/ CheckTracked(r)
    \/ MarkLive(r) \/ ClearFailed(r) \/ MarkFailed(r)
    \/ SettleInTime(r) \/ Publish(r) \/ SettleLate(r) \/ PublishLate(r) \/ Abandon(r)

WorkerStep(r) == WorkerReturns(r) \/ Drained(r)

AdminStep ==
    \/ RegistryAdd \/ LoadCached \/ InsertState \/ InsertFlight \/ Reconcile
    \/ RegistryRemove \/ DropState \/ DropFlight \/ DropFresh \/ DropFailed \/ Deregister

Next ==
    \/ \E c \in Callers : Call(c) \/ CallerStep(c) \/ RunnerStep(c) \/ WorkerStep(c)
    \/ AdminStep \/ FreshExpires \/ BackoffExpires

Spec == Init /\ [][Next]_vars

\* The async runtime polls every ready task and fires every timer; nothing
\* makes a worker return, a call happen or an account be edited.
FairSpec == Spec /\ \A c \in Callers : WF_vars(CallerStep(c)) /\ WF_vars(RunnerStep(c))

-----------------------------------------------------------------------------
(***************************************************************************)
(* Properties                                                              *)
(***************************************************************************)
CallerPC == {"idle", "fresh", "backoff", "lookup", "join", "waiting", "returned"}

\* From here a runner owns its flight: `runner_active` is its own.
OwnerPC == {"spawned", "begin", "working", "save", "apply", "observe", "track", "markLive",
            "clearFailed", "markFailed", "settle", "publishMore", "publishLate", "draining"}
RunnerPC == {"none", "publishLast", "ended"} \cup OwnerPC
AdminPC == {"absent", "load", "insertState", "insertFlight", "reconcile", "live",
            "dropState", "dropFlight", "dropFresh", "dropFailed", "deregister", "removed"}

View == [snap : Nat, source : {"None", "Cache", "Live"}, refreshing : BOOLEAN, error : BOOLEAN]
FlightState == [active : BOOLEAN, attempt : Nat, requested : Nat, completed : Nat, abandons : Nat]
CallState == [pc : CallerPC, forced : BOOLEAN, flight : Flights \cup {NoFlight}, target : Nat,
              joinedAt : Nat]
RunState == [pc : RunnerPC, flight : Flights \cup {NoFlight}, gen : Nat, serial : Nat,
             result : {"ok", "uncached", "fail"}, late : BOOLEAN]

\* The ranges of the service's, the flights', the calls' and the runners' state;
\* a call that joins and a runner that runs hold a flight.
TypeOK ==
    /\ registered \in BOOLEAN /\ tracked \in BOOLEAN
    /\ flightOf \in Flights \cup {NoFlight} /\ used \subseteq Flights
    /\ view \in View
    /\ freshMark \in BOOLEAN /\ failMark \in BOOLEAN
    /\ cached \in Nat /\ loaded \in Nat
    /\ admin \in AdminPC
    /\ flight \in [Flights -> FlightState]
    /\ published \in [Flights -> Nat]
    /\ call \in [Callers -> CallState]
    /\ run \in [Callers -> RunState]
    /\ begun \in Nat
    /\ merged \subseteq Flights \X Nat \X Nat
    /\ waived \subseteq Flights \X Nat
    /\ \A c \in Callers : call[c].pc \in {"join", "waiting"} => call[c].flight \in Flights
    /\ \A r \in Callers : run[r].pc \in {"publishLast"} \cup OwnerPC => run[r].flight \in Flights

Owns(r, f) == run[r].pc \in OwnerPC /\ run[r].flight = f

\* Two runners never own the same flight, however calls, follow-ups, timeouts
\* and abandonments interleave: through one flight the provider is fetched by
\* one un-abandoned worker at a time (service.rs `runner_active`).
SingleRunner ==
    \A f \in Flights : \A r, s \in Callers : Owns(r, f) /\ Owns(s, f) => r = s

\* Every completed generation of a flight was either attempted and merged, or
\* given up by an abandonment or a missing runtime: never both, never skipped.
EveryGenerationAccounted ==
    \A f \in Flights : \A g \in 1..flight[f].completed :
        (\E m \in merged : m[1] = f /\ m[2] = g) # (<<f, g>> \in waived)

\* No generation of a flight is attempted twice.
GenerationMergedOnce ==
    \A m, n \in merged : m[1] = n[1] /\ m[2] = n[2] => m = n

\* A waiting call is let go only after the generation it joined was merged; a
\* forced one only after an attempt that began after it joined (so a key saved
\* before the call was used), unless that generation was given up.
CallsAreServed ==
    \A c \in Callers :
        CallAt(c, "waiting") /\ published[call[c].flight] >= call[c].target =>
            \/ <<call[c].flight, call[c].target>> \in waived
            \/ \E m \in merged : /\ m[1] = call[c].flight /\ m[2] = call[c].target
                                 /\ call[c].forced => m[3] > call[c].joinedAt

\* Forced calls coalesce: at most one follow-up is ever queued.
OneFollowUpQueued ==
    \A f \in Flights : flight[f].active =>
        flight[f].requested <=
            (IF flight[f].attempt = 0 THEN flight[f].completed ELSE flight[f].attempt) + 1

(***************************************************************************)
(* The strengthening that makes the properties above inductive: where *)
(* a runner is determines what its flight says, merged generations are the *)
(* completed ones and the running one, and whoever waits joined in time.   *)
(***************************************************************************)
MergingPC == {"working", "save", "apply"}
MergedPC == {"observe", "track", "markLive", "clearFailed", "markFailed", "settle"}
DrainPC == {"publishLate", "draining"}

FlightInStep(f) ==
    /\ published[f] <= flight[f].completed
    /\ flight[f].active =>
          /\ flight[f].attempt \in {0, flight[f].completed + 1}
          /\ flight[f].requested <= flight[f].completed + (IF flight[f].attempt = 0 THEN 1 ELSE 2)
    /\ ~flight[f].active => flight[f].attempt = 0

FlightShape == \A f \in Flights : FlightInStep(f)

RunnerInStep(r) ==
    LET f == run[r].flight IN
    /\ run[r].pc # "none" => call[r].pc \in {"waiting", "returned"}
    /\ run[r].pc \in OwnerPC =>
          /\ flight[f].active
          /\ flight[f].attempt = IF run[r].pc \in DrainPC THEN 0 ELSE flight[f].completed + 1
    /\ run[r].pc \in MergingPC \cup MergedPC => run[r].gen = flight[f].attempt
    /\ run[r].pc \in MergedPC => <<f, run[r].gen, run[r].serial>> \in merged
    /\ run[r].pc \in DrainPC => run[r].gen = flight[f].completed
    /\ run[r].pc \in {"publishMore", "publishLast"} => run[r].gen <= flight[f].completed

RunnerShape == \A r \in Callers : RunnerInStep(r)

HistoryShape ==
    /\ \A f \in Flights : \A g \in 1..flight[f].completed :
          <<f, g>> \in waived \/ \E m \in merged : m[1] = f /\ m[2] = g
    /\ \A w \in waived : w[2] <= flight[w[1]].completed
    /\ \A m \in merged :
          /\ <<m[1], m[2]>> \notin waived
          /\ \/ m[2] <= flight[m[1]].completed
             \/ \E r \in Callers : /\ run[r].pc \in MergedPC
                                  /\ m = <<run[r].flight, run[r].gen, run[r].serial>>

CallShape ==
    \A c \in Callers : CallAt(c, "waiting") =>
        /\ call[c].target > 0
        /\ call[c].joinedAt <= begun
        /\ call[c].forced =>
              /\ \A m \in merged : m[1] = call[c].flight /\ m[2] = call[c].target =>
                                    m[3] > call[c].joinedAt
              /\ \A r \in Callers :
                    run[r].pc \in MergingPC /\ run[r].flight = call[c].flight
                                            /\ run[r].gen = call[c].target =>
                        run[r].serial > call[c].joinedAt

\* What every step of the coordination preserves (service.rs RefreshFlightState
\* against the runner's and the calls' locals).
Coordinated ==
    TypeOK /\ SingleRunner /\ FlightShape /\ RunnerShape /\ HistoryShape
           /\ GenerationMergedOnce /\ CallShape

\* The card shows "refreshing" only while some runner will still merge a result.
RefreshingHasRunner ==
    view.refreshing => \E r \in Callers : run[r].pc \in {"working", "save", "apply"}

\* The provider was registered once and is still: no runner of an earlier flight of the id
\* can write the card.
FirstLife == used = {flightOf}

\* A settled live card without an error shows the snapshot a restart would load, unless the
\* account was added again while a refresh of its earlier life was under way.
LiveWithoutErrorIsCached ==
    FirstLife /\ view.source = "Live" /\ ~view.error /\ ~view.refreshing => view.snap = cached

\* With no refresh under way, a provider in failure backoff is one whose card shows an
\* error: a success always lifts the backoff of an earlier failure (same exception).
BackoffHasError ==
    FirstLife /\ tracked /\ failMark /\ (\A r \in Callers : run[r].pc \notin OwnerPC) => view.error

\* A tracked card never goes back to an older snapshot (same exception).
SnapshotNotOlder == tracked /\ tracked' /\ FirstLife => view'.snap >= view.snap

\* The card and the service agree, whatever calls, runners, edits and failures overlap: the
\* four statements above, of merge_refresh_result, mark_refreshing and the freshness maps.
CardAgreesWithService ==
    /\ [](RefreshingHasRunner /\ LiveWithoutErrorIsCached /\ BackoffHasError)
    /\ [][SnapshotNotOlder]_vars

\* A flight is eventually released with everything that was asked of it settled, whatever the
\* worker does and even when the provider is removed before the runner finds it: a call waits
\* for no generation that never completes, and the provider can be refreshed again.
FlightsComeToRest ==
    \A f \in Flights :
        flight[f].active ~> ~flight[f].active /\ flight[f].completed = flight[f].requested

(***************************************************************************)
(* What the source says and the code does not do.                          *)
(***************************************************************************)

\* A waiting call returns (service.rs: "so waiters release instead of blocking
\* forever on a generation that can no longer complete").
WaitersReturn == \A c \in Callers : CallAt(c, "waiting") ~> CallAt(c, "returned")
=============================================================================
