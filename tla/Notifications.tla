---------------------------- MODULE Notifications ----------------------------
(***************************************************************************)
(* Pace alerts of one quota metric: NotificationEvaluator and transition   *)
(* of src-tauri/src/pacing.rs, driven by finish_refresh of                 *)
(* src-tauri/src/notifications.rs.                                         *)
(*                                                                         *)
(* Every refresh ends in a tail that evaluates the card and delivers what  *)
(* the evaluation raised; the evaluator's two maps have locks of their     *)
(* own, each taken and released several times by one tail.                 *)
(*                                                                         *)
(* Abstracted: the projection of a burn rate is a severity of the window,  *)
(* reset times are small numbers, the failure count saturates at the       *)
(* threshold it is compared with, and a window that reports no reset is    *)
(* one that nothing was used of.                                           *)
(***************************************************************************)
EXTENDS Integers, FiniteSets

CONSTANTS
    Tails,                     \* refresh tails that may overlap
    MaxTime,                   \* bound: the last instant
    MaxReadings,               \* bound: the readings of a behaviour
    Preferences,               \* sets of milestones the user may want
    Levels,                    \* what a window may show: severities, and whether under a tenth is left
    DeliveryFailureThreshold,  \* DELIVERY_FAILURE_THRESHOLD
    DeliverySkipCycles         \* DELIVERY_SKIP_CYCLES

Milestones == {"AlmostOut", "CuttingItClose", "WillRunOut"}

\* PaceSeverity in its order.  No previous severity (None) acts as Untracked.
Untracked == 0
Healthy == 1
Close == 2
RunningOut == 3
Spent == 4
Severities == Untracked..Spent

NoReset == 0

VARIABLES
    now,       \* the wall clock
    window,    \* the quota window the card shows
    prefs,     \* the saved settings: is the metric enabled, which alerts are on
    state,     \* NotificationEvaluator.states of the metric
    delivery,  \* NotificationEvaluator.delivery of the metric
    tail,      \* the refresh tails and their locals
    readings,  \* the readings begun, see MaxReadings
    told,      \* history: milestones delivered in this window, not recovered from
    owed,      \* history: milestones raised, not delivered, that still apply
    buried,    \* history: those of owed over which an outdated rollback has written
    bygone,    \* history: what each tail holds of a window or a crossing that has ended since
    term       \* history: the latest reset that was evaluated

vars == <<now, window, prefs, state, delivery, tail, readings, told, owed, buried, bygone, term>>
world == <<now, window, prefs>>
evaluator == <<state, delivery>>
history == <<told, owed, buried, bygone, term>>

-----------------------------------------------------------------------------
Settings == {[on |-> FALSE, wanted |-> {}]} \cup [on : {TRUE}, wanted : Preferences]

Window(reset, level) == [reset |-> reset, severity |-> level[1], under |-> level[2]]
Unstarted == Window(NoReset, <<Untracked, FALSE>>)

\* project, and the merge of Spent into RunningOut: a window whose reset has passed
\* has no projection.
Projected(w) ==
    IF w.severity = Spent THEN RunningOut
    ELSE IF w.reset <= now THEN Untracked ELSE w.severity

\* An entry that was pruned or never made is made blank by or_default.
Blank == [resets |-> NoReset, fired |-> {}, previous |-> Untracked, under |-> FALSE,
          primed |-> FALSE]
Idle == [pc |-> "idle", seen |-> Unstarted, wanted |-> {},
         ready |-> {}, failed |-> {}, deferred |-> {}]

\* Faulty variant of ResetAdvanced: any movement is a fresh window.
ResetMoved(current, previous) == current > previous

ResetAdvanced(current, previous) == current > previous /\ previous <= now

\* What a reading raises, and what it arms again.
Raised(s, severity, under, wanted) ==
    {m \in wanted \ s.fired :
        \/ m = "CuttingItClose" /\ severity = Close /\ s.previous < Close
        \/ m = "WillRunOut" /\ severity = RunningOut /\ s.previous < RunningOut
        \/ m = "AlmostOut" /\ under /\ ~s.under}
Rearmed(s, severity, under) ==
    {m \in Milestones :
        \/ m = "CuttingItClose" /\ severity = Healthy /\ severity < s.previous
        \/ m = "WillRunOut" /\ severity \in {Healthy, Close} /\ severity < s.previous
        \/ m = "AlmostOut" /\ ~under}

\* transition: a fresh window forgets, the first reading primes, later ones raise.
InWindow(s, reset) ==
    LET kept == IF ResetAdvanced(reset, s.resets)
                THEN [s EXCEPT !.fired = {}, !.previous = Untracked, !.under = FALSE] ELSE s
    IN  [kept EXCEPT !.resets = IF reset = NoReset THEN @ ELSE reset]
Transition(s, severity, under, raised) ==
    IF ~s.primed THEN [s EXCEPT !.primed = TRUE, !.previous = severity, !.under = under]
    ELSE [s EXCEPT
            !.fired = (@ \ Rearmed(s, severity, under)) \cup raised,
            !.previous = IF \/ severity # Untracked /\ severity <= s.previous
                            \/ raised \cap {"CuttingItClose", "WillRunOut"} # {}
                         THEN severity ELSE @,
            !.under = IF ~under \/ "AlmostOut" \in raised THEN under ELSE @]

Init ==
    /\ now = 0
    /\ window \in {Unstarted} \cup {Window(r, l) : r \in 1..MaxTime, l \in Levels}
    /\ prefs \in Settings
    /\ state = Blank
    /\ delivery = [failures |-> 0, skip |-> 0]
    /\ tail = [t \in Tails |-> Idle] /\ readings = 0
    /\ told = {} /\ owed = {} /\ buried = {}
    /\ bygone = [t \in Tails |-> {}] /\ term = NoReset

-----------------------------------------------------------------------------
(***************************************************************************)
(* The world: time, the provider's window, the settings.                   *)
(***************************************************************************)
TimePasses ==
    /\ now < MaxTime /\ now' = now + 1
    /\ UNCHANGED <<window, prefs, evaluator, tail, readings, history>>

\* Usage moves the severity of a running window either way; a rolling window
\* nudges its reset forward.
WindowMoves ==
    /\ window.reset > now
    /\ \/ \E l \in Levels : window' = Window(window.reset, l)
       \/ \E r \in window.reset..MaxTime : window' = [window EXCEPT !.reset = r]
    /\ UNCHANGED <<now, prefs, evaluator, tail, readings, history>>

\* It is over, and the next one is reported: unstarted or under way.
WindowRolls ==
    /\ window.reset <= now
    /\ window' \in {Unstarted} \cup {Window(r, l) : r \in (now + 1)..MaxTime, l \in Levels}
    /\ UNCHANGED <<now, prefs, evaluator, tail, readings, history>>

PreferencesChange ==
    /\ prefs' \in Settings \ {prefs}
    /\ UNCHANGED <<now, window, evaluator, tail, readings, history>>

-----------------------------------------------------------------------------
(***************************************************************************)
(* finish_refresh                                                          *)
(***************************************************************************)
At(t, pc) == tail[t].pc = pc

\* It has the state of the cards, reads the settings and goes on to prune.
Begin(t) ==
    /\ At(t, "idle") /\ readings < MaxReadings /\ readings' = readings + 1
    /\ tail' = [tail EXCEPT ![t] = [Idle EXCEPT !.pc = IF prefs.on THEN "evaluate" ELSE "prune",
                                                !.seen = window, !.wanted = prefs.wanted]]
    /\ UNCHANGED <<world, evaluator, history>>

\* The milestones among alerts; what a tail holds.
Of(alerts) == {a.milestone : a \in alerts}
Held(t) == Of(tail[t].ready \cup tail[t].failed \cup tail[t].deferred)

\* prune: a metric that is not enabled loses its entry, and is not evaluated.
Prune(t) ==
    /\ At(t, "prune")
    /\ state' = Blank /\ tail' = [tail EXCEPT ![t] = Idle]
    /\ told' = {} /\ owed' = {} /\ buried' = {} /\ term' = NoReset
    /\ bygone' = [u \in Tails |-> Held(u)]
    /\ UNCHANGED <<world, readings, delivery>>

\* The crossings a reading ends: a milestone is over when the window recovers from it.
Over(severity, under) ==
    {m \in Milestones :
        \/ m = "CuttingItClose" /\ severity = Healthy
        \/ m = "WillRunOut" /\ severity \in {Healthy, Close}
        \/ m = "AlmostOut" /\ ~under}
Applies(m, severity, under) ==
    \/ m = "CuttingItClose" /\ severity = Close
    \/ m = "WillRunOut" /\ severity = RunningOut
    \/ m = "AlmostOut" /\ under

\* The reading is of a window that began after the last one evaluated was over; or it seems to
\* be, since a tail with an older reading has set the reset of the entry back.
Began(reset) == reset > term /\ term <= now
SeemsBegun(reset) ==
    NoReset < state.resets /\ state.resets < term /\ reset > state.resets /\ state.resets <= now

\* The alerts keep what they found before the reading, for a rollback (and, as a history,
\* whether the reading was the first of a window).
Evaluate(t) ==
    LET seen == tail[t].seen
        severity == Projected(seen)
        s == InWindow(state, seen.reset)
        raised == IF s.primed THEN Raised(s, severity, seen.under, tail[t].wanted) ELSE {}
        first == Began(seen.reset) \/ SeemsBegun(seen.reset)
        over == IF first THEN Milestones ELSE Over(severity, seen.under)
        apply == {m \in owed \ over : Applies(m, severity, seen.under)}
    IN  /\ At(t, "evaluate")
        /\ state' = Transition(s, severity, seen.under, raised)
        /\ tail' = IF raised = {} THEN [tail EXCEPT ![t] = Idle]
                   ELSE [tail EXCEPT ![t] = [Idle EXCEPT !.pc = "partition",
                            !.ready = {[milestone |-> m, previous |-> state.previous,
                                        under |-> state.under, first |-> first] : m \in raised}]]
        /\ told' = told \ over
        /\ owed' = apply \cup raised /\ buried' = (buried \cap apply) \ raised
        /\ bygone' = [u \in Tails |-> bygone[u] \cup (Held(u) \cap over)]
        /\ term' = IF seen.reset > term THEN seen.reset ELSE term
        /\ UNCHANGED <<world, readings, delivery>>

\* How many of n alerts sit this cycle out.
SitOut(n) == IF delivery.skip < n THEN delivery.skip ELSE n

\* partition_delivery: each alert of a metric that sits out uses up one cycle, in
\* the order they were raised.
Partition(t) ==
    /\ At(t, "partition")
    /\ \E deferred \in SUBSET tail[t].ready :
          /\ Cardinality(deferred) = SitOut(Cardinality(tail[t].ready))
          /\ \A a \in deferred : a.milestone = "AlmostOut" => deferred = tail[t].ready
          /\ delivery' = [delivery EXCEPT !.skip = @ - Cardinality(deferred)]
          /\ tail' = [tail EXCEPT ![t].pc = "deliver", ![t].deferred = deferred,
                                  ![t].ready = @ \ deferred]
    /\ UNCHANGED <<world, readings, state, history>>

\* `deliver`: any of them may fail. What follows does nothing for a list that is empty, so such a
\* step is left out (but for the last one).
Deliver(t) ==
    /\ At(t, "deliver")
    /\ \E failed \in SUBSET tail[t].ready :
        LET delivered == Of(tail[t].ready \ failed) \ bygone[t] IN
        /\ tail' = [tail EXCEPT ![t].pc = IF failed = {} THEN "successes" ELSE "failures",
                                ![t].failed = failed, ![t].ready = @ \ failed]
        /\ told' = told \cup delivered
        /\ owed' = owed \ delivered /\ buried' = buried \ delivered
    /\ UNCHANGED <<world, readings, evaluator, bygone, term>>

\* record_delivery_failure
RecordFailures(t) ==
    LET counted == delivery.failures + Cardinality(tail[t].failed)
        failures == IF counted < DeliveryFailureThreshold THEN counted
                    ELSE DeliveryFailureThreshold
    IN  /\ At(t, "failures")
        /\ delivery' = IF tail[t].failed = {} THEN delivery ELSE
              [failures |-> failures,
               skip |-> IF failures = DeliveryFailureThreshold THEN DeliverySkipCycles
                        ELSE delivery.skip]
        /\ tail' = [tail EXCEPT ![t].pc = IF tail[t].ready = {} THEN "rollback" ELSE "successes"]
        /\ UNCHANGED <<world, readings, state, history>>

\* record_delivery_success; ready holds what was delivered.
RecordSuccesses(t) ==
    /\ At(t, "successes")
    /\ delivery' = IF tail[t].ready = {} THEN delivery ELSE [failures |-> 0, skip |-> 0]
    /\ tail' = [tail EXCEPT ![t].pc = IF tail[t].failed = {} THEN "rollbackDeferred" ELSE "rollback",
                                ![t].ready = {}]
    /\ UNCHANGED <<world, readings, state, history>>

\* Faulty variant of RolledBack: the milestone stays fired.
RolledBackFired(alerts) ==
    IF alerts = {} \/ ~state.primed THEN state ELSE
    LET found == CHOOSE a \in alerts : TRUE
        ms == {a.milestone : a \in alerts}
    IN  [state EXCEPT !.under = IF "AlmostOut" \in ms THEN found.under ELSE @,
                      !.previous = IF ms \ {"AlmostOut"} # {} THEN found.previous ELSE @]

\* `rollback` of the alerts of one evaluation, which all found the same; an entry
\* pruned meanwhile is left alone.
RolledBack(alerts) ==
    IF alerts = {} \/ ~state.primed THEN state ELSE
    LET found == CHOOSE a \in alerts : TRUE
        ms == {a.milestone : a \in alerts}
    IN  [state EXCEPT !.fired = @ \ ms,
                      !.under = IF "AlmostOut" \in ms THEN found.under ELSE @,
                      !.previous = IF ms \ {"AlmostOut"} # {} THEN found.previous ELSE @]

\* What a rollback does to the histories. The alert of a crossing that is over arms its milestone
\* for the crossing under way too, and what it found, as what the first reading of a window
\* found, is put back over what later readings have found: of the milestone AlmostOut, or of
\* the other two.
Unsaid(t, alerts) ==
    LET past == Of(alerts) \cap bygone[t]
        outdated == past \cup Of({a \in alerts : a.first})
    IN  /\ told' = told \ past
        /\ buried' = buried
             \cup {m \in owed : \E k \in outdated : m = "AlmostOut" <=> k = "AlmostOut"}
        /\ bygone' = [u \in Tails |-> IF u = t THEN bygone[t] \cap Of(tail[t].deferred \ alerts)
                                      ELSE bygone[u] \cup (Held(u) \cap past)]
        /\ UNCHANGED <<owed, term>>

RollbackFailed(t) ==
    /\ At(t, "rollback")
    /\ state' = RolledBack(tail[t].failed) /\ Unsaid(t, tail[t].failed)
    /\ tail' = [tail EXCEPT ![t] = IF @.deferred = {} THEN Idle
                                  ELSE [@ EXCEPT !.pc = "rollbackDeferred", !.failed = {}]]
    /\ UNCHANGED <<world, readings, delivery>>

RollbackDeferred(t) ==
    /\ At(t, "rollbackDeferred")
    /\ state' = RolledBack(tail[t].deferred) /\ Unsaid(t, tail[t].deferred)
    /\ tail' = [tail EXCEPT ![t] = Idle]
    /\ UNCHANGED <<world, readings, delivery>>

-----------------------------------------------------------------------------
Finish(t) ==
    \/ Prune(t) \/ Evaluate(t) \/ Partition(t) \/ Deliver(t) \/ RecordFailures(t)
    \/ RecordSuccesses(t) \/ RollbackFailed(t) \/ RollbackDeferred(t)

World == TimePasses \/ WindowMoves \/ WindowRolls \/ PreferencesChange

Next == World \/ \E t \in Tails : Begin(t) \/ Finish(t)

Spec == Init /\ [][Next]_vars

-----------------------------------------------------------------------------
(***************************************************************************)
(* Properties                                                              *)
(***************************************************************************)
\* An alert, with what it found before its reading.
Alert == [milestone : Milestones, previous : Untracked..RunningOut, under : BOOLEAN, first : BOOLEAN]

\* The ranges of the window, the entry of the metric, its delivery bookkeeping (a
\* metric never sits out more cycles than it owes), the tails and the histories.
TypeOK ==
    /\ now \in 0..MaxTime
    /\ window \in [reset : 0..MaxTime, severity : Severities, under : BOOLEAN]
    /\ prefs \in Settings
    /\ state \in [resets : 0..MaxTime, fired : SUBSET Milestones,
                  previous : Untracked..RunningOut, under : BOOLEAN, primed : BOOLEAN]
    /\ delivery \in [failures : 0..DeliveryFailureThreshold, skip : 0..DeliverySkipCycles]
    /\ tail \in [Tails -> [pc : {"idle", "prune", "evaluate", "partition", "deliver", "failures",
                                 "successes", "rollback", "rollbackDeferred"},
                           seen : [reset : 0..MaxTime, severity : Severities, under : BOOLEAN],
                           wanted : SUBSET Milestones, ready : SUBSET Alert, failed : SUBSET Alert,
                           deferred : SUBSET Alert]]
    /\ told \subseteq Milestones /\ owed \subseteq Milestones /\ buried \subseteq owed
    /\ bygone \in [Tails -> SUBSET Milestones] /\ term \in 0..MaxTime

\* A milestone is delivered once per window, until the metric is seen to recover, however the
\* tails overlap: no nudged reset, failed or deferred delivery, or change of the settings
\* repeats one that was shown. Not counted: an alert that is shown after its crossing is over;
\* a milestone that the rollback of such an alert has armed again (pacing.rs:267); and a window
\* that counts anew since a tail with an older reading has set its reset back (SeemsBegun).
ToldOnce ==
    [][\A t \in Tails : At(t, "deliver") /\ tail'[t].pc # "deliver"
          => \A a \in tail'[t].ready : a.milestone \in bygone[t] \/ a.milestone \notin told]_vars

\* No tail is under way; and some reading the milestone applies to raises it now.
AtRest == \A t \in Tails : tail[t].pc = "idle"
Pending(m) ==
    \E severity \in Untracked..RunningOut, under \in BOOLEAN :
        Applies(m, severity, under) /\ m \in Raised(state, severity, under, {m})

\* Once the tails are done, whatever they interleave, an alert that was raised and not delivered
\* is raised again by the next evaluation that sees the same: failing and deferring lose nothing
\* ("stay pending", pacing.rs:208), unless an outdated rollback has written over what the entry
\* held (see Unsaid).
StaysPending == AtRest => \A m \in owed \ buried : Pending(m)
=============================================================================
