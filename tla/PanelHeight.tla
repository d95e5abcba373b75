------------------------------ MODULE PanelHeight ------------------------------
(* The panel's height: PanelResizeSession of src-tauri/src/window.rs, the commands *)
(* of commands/window.rs, the reset of commands/settings.rs, and the frontend's    *)
(* src/lib/panelResizeController.svelte.ts.                                        *)
(* The height follows the content (automatic) or is the user's (manual). While a   *)
(* drag is active every height of the window is handed to a thread that saves the  *)
(* last one after a pause. Commands run beside it on other threads; the lock       *)
(* persistence makes each decision one step. The frontend shows the mode.          *)
EXTENDS Integers, Sequences

CONSTANTS MaxHeight, MaxGestures, MaxResizes, MaxFaults
Heights == 1..MaxHeight
None == 0

VARIABLES
  stored,      \* panel_state: [height, mode]; height None if there is no row
  automatic, active, generation,
  channel,     \* heights sent and not yet received: [generation, height]
  held,        \* the height the thread holds, or NoPending
  height,      \* the window's
  decided,     \* history: what the last decision stored
  recorded,    \* history: the heights sent since
  gestures, resizes, faults
session == <<stored, automatic, active, generation, channel, held, height, decided, recorded>>

VARIABLES
  shown,       \* heightMode
  request,     \* #heightModeRequest
  mutations,   \* #heightModeMutation, the command that runs first: [mode, request, pc, height]
  gets,        \* get_panel_height_mode under way: [request, answer]
  drag,        \* #panelResizeOperation: pc, and the mutations it waits for
  reset,       \* reset_all_settings: pc, its PanelResetToken, and the mode before it (history)
  overtaken    \* history: a refresh was sent while a mutation was under way
frontend == <<shown, request, mutations, gets, drag, reset, overtaken>>
vars == <<session, gestures, resizes, faults, frontend>>

NoPending == [generation |-> -1, height |-> None]
NoDrag == [pc |-> "none", waits |-> 0]
NoReset == [pc |-> "none", height |-> None, generation |-> -1, from |-> "automatic"]
Mode == IF automatic THEN "automatic" ELSE "manual"

\* A launch (new): whatever was stored before.
Init ==
  /\ stored \in [height : {None}, mode : {"automatic"}]
                \cup [height : {1}, mode : {"automatic", "manual"}]
  /\ automatic = (stored.mode # "manual")
  /\ active = FALSE /\ generation = 0 /\ channel = <<>> /\ held = NoPending
  /\ height = 1 /\ decided = stored /\ recorded = {}
  /\ gestures = 0 /\ resizes = 0 /\ faults = 0
  /\ shown = Mode /\ request = 0 /\ mutations = <<>> /\ gets = {}
  /\ drag = NoDrag /\ reset = NoReset /\ overtaken = FALSE

Fault == faults < MaxFaults /\ faults' = faults + 1
Gesture == gestures < MaxGestures /\ gestures' = gestures + 1
Decides(state) == stored' = state /\ decided' = state /\ recorded' = {}

-----------------------------------------------------------------------------
(* The session.                                                                      *)
\* set_manual and mark_panel_height_automatic once the lock is held; without a row there is
\* nothing to mark.
SetManual(h) ==
  /\ Decides([height |-> h, mode |-> "manual"])
  /\ generation' = generation + 1 /\ automatic' = FALSE
Marked == [stored EXCEPT !.mode = "automatic"]
SetAutomatic ==
  /\ Decides(Marked)
  /\ generation' = generation + 1 /\ automatic' = TRUE /\ active' = FALSE

\* begin, the window's events and get_panel_height_mode run on the main thread, one at a time.
MainIsFree == drag.pc # "beginning"

\* Resized, record
Resized(h) ==
  /\ MainIsFree
  /\ resizes < MaxResizes /\ resizes' = resizes + 1
  /\ height' = h
  /\ IF active
     THEN /\ channel' = Append(channel, [generation |-> generation, height |-> h])
          /\ recorded' = recorded \cup {h}
     ELSE UNCHANGED <<channel, recorded>>
  /\ UNCHANGED <<stored, automatic, active, generation, held, decided, gestures, faults, frontend>>

\* The thread of new takes what comes in within the pause.
WorkerReceives ==
  /\ channel # <<>>
  /\ held' = Head(channel) /\ channel' = Tail(channel)
  /\ UNCHANGED <<stored, automatic, active, generation, height, decided, recorded, gestures,
                 resizes, faults, frontend>>

\* Faulty variant of WorkerSaves: it does not ask whether the drag is over.
WorkerSavesAny ==
  /\ held # NoPending
  /\ stored' = IF ~automatic THEN [height |-> held.height, mode |-> "manual"] ELSE stored
  /\ held' = NoPending
  /\ UNCHANGED <<automatic, active, generation, channel, height, decided, recorded, gestures,
                 resizes, faults, frontend>>

WorkerSaves ==
  /\ held # NoPending
  /\ stored' = IF held.generation = generation /\ ~automatic
               THEN [height |-> held.height, mode |-> "manual"] ELSE stored
  /\ held' = NoPending
  /\ UNCHANGED <<automatic, active, generation, channel, height, decided, recorded, gestures,
                 resizes, faults, frontend>>

\* finish, when the window is hidden or closed or the program ends. The save may fail.
Finish ==
  /\ MainIsFree
  /\ active /\ active' = FALSE
  /\ generation' = generation + 1
  /\ \/ ~automatic /\ Decides([height |-> height, mode |-> "manual"]) /\ UNCHANGED faults
     \/ ~automatic /\ Fault /\ UNCHANGED <<stored, decided, recorded>>
     \/ automatic /\ UNCHANGED <<stored, decided, recorded, faults>>
  /\ UNCHANGED <<automatic, channel, held, height, gestures, resizes, frontend>>

-----------------------------------------------------------------------------
(* The frontend.                                                                     *)
Asks == /\ request' = request + 1
        /\ gets' = gets \cup {[request |-> request', answer |-> "none"]}

\* refreshHeightMode, when the window gets the focus
Focus ==
  /\ Gesture /\ Asks
  /\ overtaken' = (overtaken \/ mutations # <<>>)
  /\ UNCHANGED <<session, resizes, faults, shown, mutations, drag, reset>>

GetAnswered(g) ==
  /\ MainIsFree
  /\ g.answer = "none"
  /\ gets' = (gets \ {g}) \cup {[g EXCEPT !.answer = Mode]}
  /\ UNCHANGED <<session, gestures, resizes, faults, shown, request, mutations, drag, reset,
                 overtaken>>

\* Faulty variant of GetArrives: any answer is taken.
GetTaken(g) ==
  /\ g.answer # "none"
  /\ gets' = gets \ {g}
  /\ shown' = g.answer
  /\ UNCHANGED <<session, gestures, resizes, faults, request, mutations, drag, reset, overtaken>>

\* An answer counts if nothing was asked or changed since.
GetArrives(g) ==
  /\ g.answer # "none"
  /\ gets' = gets \ {g}
  /\ shown' = IF g.request = request THEN g.answer ELSE shown
  /\ UNCHANGED <<session, gestures, resizes, faults, request, mutations, drag, reset, overtaken>>

\* changeHeightMode; a second press on the grip does it when the drag's operation has ended.
ChangeMode(mode) ==
  /\ Gesture
  /\ request' = request + 1
  /\ mutations' = Append(mutations, [mode |-> mode, request |-> request', pc |-> "queued",
                                     height |-> None])
  /\ UNCHANGED <<session, resizes, faults, shown, gets, drag, reset, overtaken>>

First == mutations[1]
SetFirst(pc) == mutations' = [mutations EXCEPT ![1].pc = pc]
\* set_panel_height_manual reads the window's height before it moves to another thread.
Invoke ==
  /\ mutations # <<>> /\ First.pc = "queued"
  /\ mutations' = [mutations EXCEPT ![1].pc = "running", ![1].height = height]
  /\ UNCHANGED <<session, gestures, resizes, faults, shown, request, gets, drag, reset, overtaken>>

Execute ==
  /\ mutations # <<>> /\ First.pc = "running"
  /\ SetFirst("done")
  /\ \/ First.mode = "manual" /\ SetManual(First.height) /\ UNCHANGED <<active, faults>>
     \/ First.mode = "automatic" /\ SetAutomatic /\ UNCHANGED faults
     \/ Fault /\ UNCHANGED <<stored, decided, recorded, generation, automatic, active>>
  /\ UNCHANGED <<channel, held, height, gestures, resizes, shown, request, gets, drag, reset,
                 overtaken>>

\* Whether it succeeded or failed, the mode is asked for if nothing was asked since.
Settle ==
  /\ mutations # <<>> /\ First.pc = "done"
  /\ mutations' = Tail(mutations)
  /\ IF First.request = request THEN Asks ELSE UNCHANGED <<request, gets>>
  /\ drag' = [drag EXCEPT !.waits = IF @ = 0 THEN 0 ELSE @ - 1]
  /\ UNCHANGED <<session, gestures, resizes, faults, shown, reset, overtaken>>

\* handleHeightPointerDown: the mutations of now are waited for.
PressGrip ==
  /\ Gesture
  /\ drag = NoDrag
  /\ drag' = [pc |-> "waiting", waits |-> Len(mutations)]
  /\ UNCHANGED <<session, resizes, faults, shown, request, mutations, gets, reset, overtaken>>

\* begin: the flag first, the height then, under the lock; if that fails, the flag is taken back.
BeginActive ==
  /\ drag.pc = "waiting" /\ drag.waits = 0
  /\ active' = TRUE
  /\ drag' = [drag EXCEPT !.pc = "beginning"]
  /\ UNCHANGED <<stored, automatic, generation, channel, held, height, decided, recorded, gestures,
                 resizes, faults, shown, request, mutations, gets, reset, overtaken>>
BeginManual ==
  /\ drag.pc = "beginning"
  /\ \/ SetManual(height) /\ drag' = [drag EXCEPT !.pc = "begun"] /\ UNCHANGED <<active, faults>>
     \/ /\ Fault /\ active' = FALSE
        /\ drag' = [drag EXCEPT !.pc = "ends"]
        /\ UNCHANGED <<stored, decided, recorded, generation, automatic>>
  /\ UNCHANGED <<channel, held, height, gestures, resizes, shown, request, mutations, gets, reset,
                 overtaken>>

\* #acceptHeightMode
AcceptManual ==
  /\ drag.pc = "begun"
  /\ request' = request + 1 /\ shown' = "manual"
  /\ drag' = [drag EXCEPT !.pc = "ends"]
  /\ UNCHANGED <<session, gestures, resizes, faults, mutations, gets, reset, overtaken>>

DragEnds ==
  /\ drag.pc = "ends"
  /\ drag' = NoDrag
  /\ Asks
  /\ overtaken' = (overtaken \/ mutations # <<>>)
  /\ UNCHANGED <<session, gestures, resizes, faults, shown, mutations, reset>>

-----------------------------------------------------------------------------
(* reset_all_settings                                                                *)
ConfirmReset ==
  /\ Gesture
  /\ reset = NoReset /\ mutations = <<>>
  /\ reset' = [reset EXCEPT !.pc = "begin"]
  /\ UNCHANGED <<session, resizes, faults, shown, request, mutations, gets, drag, overtaken>>

\* begin_automatic_reset; the token keeps the stored height.
BeginReset ==
  /\ reset.pc = "begin"
  /\ SetAutomatic
  /\ reset' = [pc |-> "saving", height |-> stored.height, generation |-> generation',
               from |-> Mode]
  /\ UNCHANGED <<channel, held, height, gestures, resizes, faults, shown, request, mutations, gets,
                 drag, overtaken>>

ResetSaved ==
  /\ reset.pc = "saving"
  /\ reset' = [reset EXCEPT !.pc = "saved"]
  /\ UNCHANGED <<session, gestures, resizes, faults, shown, request, mutations, gets, drag,
                 overtaken>>

\* The settings could not be saved: rollback_automatic_reset, if the panel is as it was left.
Rollback ==
  /\ reset.pc = "saving"
  /\ Fault
  /\ reset' = [reset EXCEPT !.pc = "saved"]
  /\ IF generation # reset.generation \/ ~automatic
     THEN UNCHANGED <<stored, decided, recorded, generation, automatic>>
     ELSE IF reset.height # None THEN SetManual(reset.height)
     ELSE Decides(Marked) /\ generation' = generation + 1 /\ automatic' = TRUE
  /\ UNCHANGED <<active, channel, held, height, gestures, resizes, shown, request, mutations, gets,
                 drag, overtaken>>

\* Either way the frontend asks for the mode.
ResetSettles ==
  /\ reset.pc = "saved"
  /\ reset' = NoReset
  /\ Asks
  /\ overtaken' = (overtaken \/ mutations # <<>>)
  /\ UNCHANGED <<session, gestures, resizes, faults, shown, mutations, drag>>

Next ==
  \/ \E h \in Heights : Resized(h)
  \/ WorkerReceives \/ WorkerSaves \/ Finish
  \/ Focus \/ \E g \in gets : GetAnswered(g) \/ GetArrives(g)
  \/ \E mode \in {"automatic", "manual"} : ChangeMode(mode)
  \/ Invoke \/ Execute \/ Settle
  \/ PressGrip \/ BeginActive \/ BeginManual \/ AcceptManual \/ DragEnds
  \/ ConfirmReset \/ BeginReset \/ ResetSaved \/ Rollback \/ ResetSettles
Spec == Init /\ [][Next]_vars

-----------------------------------------------------------------------------
\* What is stored is what was decided last, or a height the window has had since in the same
\* drag: a height that is still queued when the drag ends or automatic is chosen changes nothing,
\* and the mode of the next launch is the mode of now (the thread of new, finish).
LastDecisionKept ==
  /\ stored.mode = decided.mode
  /\ stored.height \in {decided.height} \cup recorded
  /\ automatic <=> stored.mode # "manual"

\* When nothing is under way the frontend shows the session's mode, however drags, changes and a
\* reset came after each other; a refresh sent while a change is under way takes the change's own
\* refresh away and may leave the old mode (refreshHeightMode, changeHeightMode).
ModeIsShown ==
  mutations = <<>> /\ gets = {} /\ drag = NoDrag /\ reset = NoReset /\ ~overtaken => shown = Mode

\* "a stored (or width-only placeholder) height never pins the panel to manual mode on its own"
\* (new, window.rs): the mode becomes manual when the user drags, chooses it, or gets back what was
\* chosen before a reset that failed.
StoredHeightPinsNothing ==
  [][automatic /\ ~automatic' => \/ drag.pc = "beginning" \/ mutations # mutations'
                                 \/ reset.from = "manual"]_vars
=============================================================================
