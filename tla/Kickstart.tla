------------------------------ MODULE Kickstart ------------------------------
(***************************************************************************)
(* Session Kickstart for one provider: src-tauri/src/kickstart.rs.         *)
(*                                                                         *)
(* A task is anything of the async runtime that ends in the refresh tail:  *)
(* a refresh batch, an armed reset timer, a prompt with its own refresh.   *)
(* The tail calls `evaluate`, which takes its locks one after the other,   *)
(* so the evaluations of several tasks interleave between them.            *)
(*                                                                         *)
(* Abstracted: a reset time is a value that is `due` or not yet; the order *)
(* in which reset times fall due is open.  The cooldown is a mark that     *)
(* lapses after ATTEMPT_COOLDOWN (30 min), which outlasts a prompt (180 s) *)
(* and the lock sections of one evaluation.  A scope that names several    *)
(* windows is reduced to the reset next_scoped_reset picks.                *)
(***************************************************************************)
EXTENDS Integers, FiniteSets

CONSTANTS
    Tasks,                \* slots for tasks that exist at the same time
    Resets,               \* reset times
    NoReset,              \* the provider reports no window
    NoTimer,              \* no entry in SCHEDULED
    IneffectiveKickLimit  \* INEFFECTIVE_KICK_LIMIT

ASSUME NoResetAssumption == NoReset \notin Resets
ASSUME NoTimerAssumption == NoTimer \notin Tasks
ASSUME LimitAssumption == IneffectiveKickLimit \in Nat \ {0}

VARIABLES
    due,      \* reset times that have passed
    reset,    \* the provider's window, as its backend has it
    view,     \* the card, as fresh_snapshot sees it: the reset it shows and whether
              \* that was still to come when it was fetched
    setting,  \* what the saved settings say of this provider
    task,     \* the tasks and their locals
    armed,    \* SCHEDULED entry of the provider
    cooling,  \* LAST_ATTEMPTS entry younger than ATTEMPT_COOLDOWN
    failures  \* KICK_OUTCOMES.failures of the provider

vars == <<due, reset, view, setting, task, armed, cooling, failures>>

world == <<due, reset, view, setting>>
bookkeeping == <<armed, cooling, failures>>

-----------------------------------------------------------------------------
(***************************************************************************)
(* "target": enabled, listed in kickstart_provider_ids, with a command and *)
(* a scope it rolls; "unrunnable": the same without one of the last two;   *)
(* "out": disabled or not listed, while the list is not empty;             *)
(* "emptyList": nobody is listed.                                          *)
(***************************************************************************)
Settings == {"target", "unrunnable", "out", "emptyList"}
IsTarget(s) == s \in {"target", "unrunnable"}

\* fresh_snapshot gives nothing while the card is refreshing, after an error, and
\* for cached figures; otherwise the snapshot.
Stale == [fresh |-> FALSE, reset |-> NoReset]
Fresh(r) == [fresh |-> TRUE, reset |-> r]

Free == [pc |-> "free", target |-> NoReset, seen |-> Stale, says |-> "out", aborted |-> FALSE]

At(t, pc) == task[t].pc = pc
Goes(t, pc) == task' = [task EXCEPT ![t].pc = pc]
Ends(t) == task' = [task EXCEPT ![t] = Free]

\* The tasks once t's abort was requested: a sleeping task is gone, one that is
\* being polled goes on until it waits.
AfterAbort(t) ==
    IF task[t].pc = "asleep" THEN [task EXCEPT ![t] = Free]
    ELSE [task EXCEPT ![t].aborted = TRUE]

\* ... and of the SCHEDULED entry, if there is one
TimerDropped == IF armed = NoTimer THEN task ELSE AfterAbort(armed)

Init ==
    /\ due = {} /\ reset = NoReset /\ view = Stale
    /\ setting \in Settings
    /\ task = [t \in Tasks |-> Free]
    /\ armed = NoTimer /\ cooling = FALSE /\ failures = 0

-----------------------------------------------------------------------------
(***************************************************************************)
(* The world: time, the provider's backend, the card and the settings.     *)
(***************************************************************************)
TimePasses ==
    /\ \E r \in Resets \ due : due' = due \cup {r}
    /\ UNCHANGED <<reset, view, setting, task, bookkeeping>>

\* A message opens a window, or the backend moves the reset of the open one.
WindowMoves ==
    /\ reset' \in Resets \ due
    /\ UNCHANGED <<due, view, setting, task, bookkeeping>>

\* A refresh of the card begins; it may end with an error.
FetchBegins ==
    /\ view' = Stale
    /\ UNCHANGED <<due, reset, setting, task, bookkeeping>>

\* It succeeds: a window that is over is reported by its old reset, or not at all.
FetchEnds ==
    /\ ~view.fresh
    /\ \/ view' = Fresh(reset)
       \/ reset \in due /\ view' = Fresh(NoReset)
    /\ UNCHANGED <<due, reset, setting, task, bookkeeping>>

SettingsChange ==
    /\ setting' \in Settings \ {setting}
    /\ UNCHANGED <<due, reset, view, task, bookkeeping>>

\* Thirty minutes after the attempt its prompt has ended, and so has every
\* evaluation that was under way.
Evaluating == {"retain", "orphans", "observe", "arm", "cancel", "refuse", "attempt", "charge"}
CooldownLapses ==
    /\ cooling /\ \A t \in Tasks : task[t].pc \notin Evaluating \cup {"prompting"}
    /\ cooling' = FALSE
    /\ UNCHANGED <<world, task, armed, failures>>

-----------------------------------------------------------------------------
(***************************************************************************)
(* refresh_with_events, up to its call of evaluate.                        *)
(***************************************************************************)
\* A batch of this provider, of others, or of a provider that is still fresh.
Batch(t) ==
    /\ At(t, "free") /\ Goes(t, "refreshing")
    /\ UNCHANGED <<world, bookkeeping>>

\* It ends with the state of all cards; it has suspended or returned at once.
RefreshEnds(t) ==
    /\ At(t, "refreshing")
    /\ task' = [task EXCEPT ![t].pc = "tail", ![t].seen = view]
    /\ UNCHANGED <<world, bookkeeping>>

\* An aborted task is dropped where it waits.
Dropped(t) ==
    /\ At(t, "refreshing") /\ task[t].aborted
    /\ Ends(t)
    /\ UNCHANGED <<world, bookkeeping>>

-----------------------------------------------------------------------------
(***************************************************************************)
(* `evaluate`                                                              *)
(***************************************************************************)
\* The settings are read once; an empty list returns.
ReadSettings(t) ==
    /\ At(t, "tail")
    /\ IF setting = "emptyList" THEN Ends(t)
       ELSE task' = [task EXCEPT ![t].pc = "retain", ![t].says = setting]
    /\ UNCHANGED <<world, bookkeeping>>

Retain(t) ==
    /\ At(t, "retain")
    /\ failures' = IF IsTarget(task[t].says) THEN failures ELSE 0
    /\ Goes(t, "orphans")
    /\ UNCHANGED <<world, armed, cooling>>

\* A provider that left the target set loses its timer, and is not looked at.
CancelOrphan(t) ==
    /\ At(t, "orphans") /\ ~IsTarget(task[t].says)
    /\ armed' = NoTimer
    /\ task' = [TimerDropped EXCEPT ![t] = Free]
    /\ UNCHANGED <<world, cooling, failures>>

\* A target needs a command, a fresh snapshot and a scope; next_scoped_reset asks
\* for a reset that is still to come now.
LookAtTarget(t) ==
    LET seen == task[t].seen IN
    /\ At(t, "orphans") /\ IsTarget(task[t].says)
    /\ IF task[t].says = "target" /\ seen.fresh
       THEN task' = [task EXCEPT ![t] =
               [Free EXCEPT !.pc = IF seen.reset \in Resets \ due THEN "observe" ELSE "cancel",
                            !.seen = seen]]
       ELSE Ends(t)
    /\ UNCHANGED <<world, bookkeeping>>

ObserveAlive(t) ==
    /\ At(t, "observe")
    /\ failures' = 0
    /\ Goes(t, "arm")
    /\ UNCHANGED <<world, armed, cooling>>

\* schedule_at_reset, one lock section.  The evaluation is over for this
\* provider; the timer it spawns takes its slot.
ScheduleAtReset(t) ==
    /\ At(t, "arm")
    /\ IF armed # NoTimer /\ task[armed].target = task[t].seen.reset
       THEN Ends(t) /\ UNCHANGED armed
       ELSE /\ armed' = t
            /\ task' = [TimerDropped EXCEPT
                          ![t] = [Free EXCEPT !.pc = "asleep", !.target = task[t].seen.reset]]
    /\ UNCHANGED <<world, cooling, failures>>

CancelScheduled(t) ==
    /\ At(t, "cancel")
    /\ armed' = NoTimer
    /\ task' = [TimerDropped EXCEPT ![t].pc = "refuse"]
    /\ UNCHANGED <<world, cooling, failures>>

\* Faulty variant of Refuses: off by one.
RefusesLate(t) ==
    /\ At(t, "refuse")
    /\ IF failures > IneffectiveKickLimit THEN Ends(t) ELSE Goes(t, "attempt")
    /\ UNCHANGED <<world, bookkeeping>>

Refuses(t) ==
    /\ At(t, "refuse")
    /\ IF failures >= IneffectiveKickLimit THEN Ends(t) ELSE Goes(t, "attempt")
    /\ UNCHANGED <<world, bookkeeping>>

\* Faulty variant of RecordAttempt: check and mark are not one step.
AttemptUnchecked(t) ==
    /\ At(t, "attempt")
    /\ cooling' = TRUE
    /\ Goes(t, "charge")
    /\ UNCHANGED <<world, armed, failures>>

RecordAttempt(t) ==
    /\ At(t, "attempt")
    /\ IF cooling THEN Ends(t) ELSE Goes(t, "charge")
    /\ cooling' = TRUE
    /\ UNCHANGED <<world, armed, failures>>

\* record_kick, then spawn_prompt: the prompt takes the evaluation's slot.
Charge(t) ==
    /\ At(t, "charge")
    /\ failures' = failures + 1
    /\ task' = [task EXCEPT ![t] = [Free EXCEPT !.pc = "prompting", !.seen = task[t].seen]]
    /\ UNCHANGED <<world, armed, cooling>>

\* send_prompt: a failure ends the task, a success refreshes the card.
PromptFails(t) ==
    /\ At(t, "prompting") /\ Ends(t)
    /\ UNCHANGED <<world, bookkeeping>>

PromptSucceeds(t) ==
    /\ At(t, "prompting")
    /\ task' = [task EXCEPT ![t] = [Free EXCEPT !.pc = "refreshing"]]
    /\ UNCHANGED <<world, bookkeeping>>

-----------------------------------------------------------------------------
(***************************************************************************)
(* The timer task of schedule_at_reset, then run_scheduled_kick.           *)
(***************************************************************************)
\* The sleep ends at its target or (the machine slept, the clock was set) later.
Wakes(t) ==
    /\ At(t, "asleep") /\ task[t].target \in due
    /\ Goes(t, "woken")
    /\ UNCHANGED <<world, bookkeeping>>

\* Faulty variant of RemovesEntry: the fired timer leaves its entry.
LeavesEntry(t) ==
    /\ At(t, "woken")
    /\ Goes(t, "check")
    /\ UNCHANGED <<world, bookkeeping>>

\* It removes the provider's entry, whosever it is by now.
RemovesEntry(t) ==
    /\ At(t, "woken")
    /\ armed' = NoTimer
    /\ task' = [task EXCEPT ![t].pc = "check", ![t].target = NoReset]
    /\ UNCHANGED <<world, cooling, failures>>

CheckOptedIn(t) ==
    /\ At(t, "check")
    /\ IF IsTarget(setting) THEN Goes(t, "refreshing") ELSE Ends(t)
    /\ UNCHANGED <<world, bookkeeping>>

-----------------------------------------------------------------------------

EvaluateStep(t) ==
    \/ ReadSettings(t) \/ Retain(t) \/ CancelOrphan(t) \/ LookAtTarget(t)
    \/ ObserveAlive(t) \/ ScheduleAtReset(t) \/ CancelScheduled(t) \/ Refuses(t)
    \/ RecordAttempt(t) \/ Charge(t)

TaskStep(t) ==
    \/ RefreshEnds(t) \/ Dropped(t) \/ EvaluateStep(t) \/ PromptFails(t) \/ PromptSucceeds(t)
    \/ Wakes(t) \/ RemovesEntry(t) \/ CheckOptedIn(t)

WorldStep ==
    TimePasses \/ WindowMoves \/ FetchBegins \/ FetchEnds \/ SettingsChange \/ CooldownLapses

Next == WorldStep \/ \E t \in Tasks : Batch(t) \/ TaskStep(t)

Spec == Init /\ [][Next]_vars

-----------------------------------------------------------------------------
(***************************************************************************)
(* Properties                                                              *)
(***************************************************************************)
TaskPC == {"free", "refreshing", "tail", "prompting", "asleep", "woken", "check"} \cup Evaluating
Seen == [fresh : BOOLEAN, reset : Resets \cup {NoReset}]
TaskState == [pc : TaskPC, target : Resets \cup {NoReset}, seen : Seen, says : Settings,
              aborted : BOOLEAN]

\* The ranges of the world, the tasks and the three static maps.
TypeOK ==
    /\ due \subseteq Resets /\ reset \in Resets \cup {NoReset}
    /\ view \in Seen /\ setting \in Settings
    /\ task \in [Tasks -> TaskState]
    /\ armed \in Tasks \cup {NoTimer}
    /\ cooling \in BOOLEAN /\ failures \in Nat

\* The SCHEDULED entry is the handle of a timer that is still to remove it: a
\* reschedule or a cancellation aborts the timer it means, never a finished task
\* and never one that was aborted before.
ArmedTimerIsLive ==
    armed # NoTimer => task[armed].pc \in {"asleep", "woken"} /\ ~task[armed].aborted

\* From its cooldown on, an evaluation and the prompt it becomes.
Kicking(t) == task[t].pc \in {"charge", "prompting"}

\* Evaluations that overlap send one prompt between them, although the check of
\* the breaker and the cooldown are taken under different locks; and while it
\* runs the cooldown holds.
OnePrompt ==
    \A t \in Tasks : Kicking(t) => cooling /\ \A u \in Tasks : Kicking(u) => u = t

\* The breaker is never charged past its limit: after INEFFECTIVE_KICK_LIMIT kicks
\* that no live window answered nothing is sent, whatever overlaps.
BreakerHolds == failures <= IneffectiveKickLimit

\* What each evaluation knows: one that passed the breaker can be charged, unless
\* another one's attempt has started the cooldown.
ChargeIsCovered ==
    \A t \in Tasks :
        /\ At(t, "attempt") => cooling \/ failures < IneffectiveKickLimit
        /\ At(t, "charge") => failures < IneffectiveKickLimit
=============================================================================
