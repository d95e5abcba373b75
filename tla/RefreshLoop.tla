----------------------------- MODULE RefreshLoop -----------------------------
(***************************************************************************)
(* The periodic refresh: src-tauri/src/refresh_loop.rs, and what the       *)
(* freshness and backoff windows of service.rs let through of its batches, *)
(* for one provider.                                                       *)
(*                                                                         *)
(* Time is the monotonic clock in ticks, kept as ages and remaining times; *)
(* it stands still while the machine sleeps.  Polling and lock sections    *)
(* take no time.  A batch waits for its slowest provider.                  *)
(***************************************************************************)
EXTENDS Integers

CONSTANTS
    RefreshInterval, \* REFRESH_INTERVAL
    RetryBackoff,    \* FAILURE_RETRY_BACKOFF
    MaxBatch         \* the longest a batch takes

ASSUME IntervalAssumption == RefreshInterval \in Nat \ {0}
ASSUME BackoffAssumption == RetryBackoff \in Nat
ASSUME BatchAssumption == MaxBatch \in Nat

VARIABLES
    pc,       \* "head", "fetch" and "batch" (the batch runs; in "fetch" it is
              \* fetching the provider), "sleep"
    left,     \* next_refresh - now
    enabled,  \* the settings enable it
    liveAge,  \* age of the last_live_refresh entry, up to RefreshInterval
    failAge,  \* age of the last_failed_refresh entry, up to RetryBackoff
    spent,    \* duration of the batch
    slept,    \* the machine slept during this wait
    shown,    \* age of the figures on the card, up to Horizon
    since,    \* history: time since the previous pass, and what its batch took
    calm      \* history: no failure and no change of the settings since the last success

vars == <<pc, left, enabled, liveAge, failAge, spent, slept, shown, since, calm>>
marks == <<liveAge, failAge>>

\* Ages beyond this are told apart by no property.
Horizon == 3 * RefreshInterval + 2 * MaxBatch

Older(age, limit) == IF age < limit THEN age + 1 ELSE age

Init ==
    /\ pc = "head" /\ left = 0
    /\ enabled \in BOOLEAN
    /\ liveAge = RefreshInterval /\ failAge = RetryBackoff
    /\ spent = 0 /\ slept = FALSE
    /\ shown = Horizon
    /\ since = [gap |-> RefreshInterval, batch |-> 0]
    /\ calm = FALSE

-----------------------------------------------------------------------------
\* refresh(force = false): a provider that is fresh or in backoff is not fetched.
Fetches == enabled /\ liveAge = RefreshInterval /\ failAge = RetryBackoff

\* The head of the loop, and the start of its batch (of all enabled providers).
StartBatch ==
    /\ pc = "head"
    /\ left' = left + RefreshInterval
    /\ spent' = 0
    /\ since' = [gap |-> 0, batch |-> 0]
    /\ pc' = IF Fetches THEN "fetch" ELSE "batch"
    /\ UNCHANGED <<enabled, marks, slept, shown, calm>>

Live == liveAge' = 0 /\ failAge' = RetryBackoff /\ shown' = 0 /\ calm' = TRUE

\* The provider's own refresh ends, and leaves its mark.
FetchSucceeds ==
    /\ pc = "fetch" /\ pc' = "batch"
    /\ Live
    /\ UNCHANGED <<left, enabled, spent, slept, since>>

FetchFails ==
    /\ pc = "fetch" /\ pc' = "batch"
    /\ failAge' = 0
    /\ calm' = FALSE
    /\ UNCHANGED <<left, enabled, liveAge, spent, slept, shown, since>>

\* Faulty variant of PlanWait: the wait starts when the batch has ended.
WaitAfterBatch ==
    /\ pc = "batch"
    /\ left' = RefreshInterval
    /\ since' = [since EXCEPT !.batch = spent]
    /\ slept' = FALSE
    /\ pc' = "sleep"
    /\ UNCHANGED <<enabled, marks, spent, shown, calm>>

\* Faulty variant of PlanWait: the end of a batch marks every enabled provider fresh.
PlanMarking ==
    /\ pc = "batch"
    /\ left' = IF left <= 0 THEN RefreshInterval ELSE left
    /\ liveAge' = IF enabled THEN 0 ELSE liveAge
    /\ since' = [since EXCEPT !.batch = spent]
    /\ slept' = FALSE
    /\ pc' = "sleep"
    /\ UNCHANGED <<enabled, failAge, spent, shown, calm>>

\* The batch has ended: an overrun deadline is moved a full interval on.
PlanWait ==
    /\ pc = "batch"
    /\ left' = IF left <= 0 THEN RefreshInterval ELSE left
    /\ since' = [since EXCEPT !.batch = spent]
    /\ slept' = FALSE
    /\ pc' = "sleep"
    /\ UNCHANGED <<enabled, marks, spent, shown, calm>>

\* sleep_until(next_refresh) returns; a wall clock that ran past the wait makes
\* next_refresh = now, which it is.
WaitEnds ==
    /\ pc = "sleep" /\ left = 0
    /\ left' = IF slept THEN 0 ELSE left
    /\ pc' = "head"
    /\ UNCHANGED <<enabled, marks, spent, slept, shown, since, calm>>

\* Faulty variant of BackoffAge: the failure mark does not age.
BackoffStays(age) == age

\* A tick later the failure mark is a tick older, until the backoff is over.
BackoffAge(age) == Older(age, RetryBackoff)

\* A tick of the monotonic clock, while the batch runs or the loop waits.
Tick ==
    /\ \/ pc \in {"fetch", "batch"} /\ spent < MaxBatch /\ spent' = spent + 1
       \/ pc = "sleep" /\ left > 0 /\ spent' = spent
    /\ left' = left - 1
    /\ liveAge' = Older(liveAge, RefreshInterval)
    /\ failAge' = BackoffAge(failAge)
    /\ shown' = Older(shown, Horizon)
    /\ since' = [since EXCEPT !.gap = @ + 1]
    /\ UNCHANGED <<pc, enabled, slept, calm>>

\* The machine sleeps and wakes up: only the wall clock moves.
Suspend ==
    /\ pc = "sleep" /\ slept' = TRUE
    /\ UNCHANGED <<pc, left, enabled, marks, spent, shown, since, calm>>

\* Another entry point (the refresh command, a timer) refreshed the provider.
RefreshElsewhere ==
    /\ pc \in {"batch", "sleep"}
    /\ Live
    /\ UNCHANGED <<pc, left, enabled, spent, slept, since>>

\* A forced refresh asks in spite of the backoff; when it fails, the backoff starts again.
RefreshFailsElsewhere ==
    /\ pc \in {"batch", "sleep"}
    /\ failAge' = 0
    /\ calm' = FALSE
    /\ UNCHANGED <<pc, left, enabled, liveAge, spent, slept, shown, since>>

Toggle ==
    /\ enabled' = ~enabled
    /\ calm' = FALSE
    /\ UNCHANGED <<pc, left, marks, spent, slept, shown, since>>

Loop == StartBatch \/ FetchSucceeds \/ FetchFails \/ PlanWait \/ WaitEnds
Next == Loop \/ Tick \/ Suspend \/ RefreshElsewhere \/ RefreshFailsElsewhere \/ Toggle

Spec == Init /\ [][Next]_vars

\* The loop runs on, time passes, and a fetch ends (PROVIDER_REFRESH_TIMEOUT).
FairSpec == Spec /\ WF_vars(Loop) /\ WF_vars(Tick)

-----------------------------------------------------------------------------
(***************************************************************************)
(* Properties                                                              *)
(***************************************************************************)
\* The ranges of the loop's deadline, the marks' ages and the histories.
TypeOK ==
    /\ pc \in {"head", "fetch", "batch", "sleep"}
    /\ left \in Int /\ spent \in 0..MaxBatch
    /\ enabled \in BOOLEAN /\ slept \in BOOLEAN
    /\ liveAge \in 0..RefreshInterval /\ failAge \in 0..RetryBackoff
    /\ shown \in 0..Horizon
    /\ since \in [gap : Nat, batch : 0..MaxBatch]
    /\ calm \in BOOLEAN

\* The gap to the pass after one whose batch took so long.
Gap(batch) == IF batch < RefreshInterval THEN RefreshInterval ELSE batch + RefreshInterval

\* The deadline is anchored: passes are a full interval apart whatever their
\* batches took, and only a batch that overran it lengthens the gap, by its own
\* duration.
CadenceKept == pc = "head" => since.gap = Gap(since.batch)

\* What keeps it: the deadline and the time already gone make up the gap.
Anchored ==
    /\ pc = "head" => left = 0
    /\ pc \in {"fetch", "batch"} => since.gap = spent /\ left = RefreshInterval - spent
    /\ pc = "sleep" => left >= 0 /\ left + since.gap = Gap(since.batch)

\* However the passes, overruns and refreshes from elsewhere fall, the figures of
\* an enabled provider whose fetches succeed are never older than two intervals
\* and two batches: at most one batch passes it over.
FiguresKeptYoung == calm /\ enabled => shown <= 2 * RefreshInterval + 2 * MaxBatch

\* What keeps them so: the age of the mark is that of the figures, and whoever was
\* passed over was younger than an interval then.
YoungSince ==
    calm /\ enabled =>
        /\ failAge = RetryBackoff
        /\ liveAge = IF shown < RefreshInterval THEN shown ELSE RefreshInterval
        /\ pc = "head" => shown < 2 * RefreshInterval + MaxBatch
        /\ pc = "fetch" => shown < 2 * RefreshInterval + MaxBatch + spent
        /\ pc \in {"batch", "sleep"} => shown < RefreshInterval + since.gap

\* A provider that failed is tried again, forever: no mark outlives its window. Only a failed
\* refresh from elsewhere, which is a try itself, sets the mark anew and can hold off the pass
\* that follows it; the loop goes without trying for good only while such failures keep coming.
FailuresAreRetried ==
    \/ []<>(pc = "fetch" \/ ~enabled \/ liveAge = 0)
    \/ []<><<RefreshFailsElsewhere>>_vars
=============================================================================
