----------------------------- MODULE SettingsSync -----------------------------
(***************************************************************************)
(* The settings on both sides of the bridge: SettingsController of         *)
(* src/lib/settingsController.svelte.ts with its callers in App.svelte,    *)
(* and the commit path of src-tauri/src/settings.rs with the commands of   *)
(* commands/settings.rs.                                                   *)
(*                                                                         *)
(* The settings document is split by author: mine is the last of the       *)
(* user's edits, theirs the changes that do not come from the edited       *)
(* document (a provider that was detected and enabled, the update-check    *)
(* stamp).  A step of the frontend runs up to its next await, microtasks   *)
(* included.                                                               *)
(***************************************************************************)
EXTENDS Integers, Sequences, SequencesExt

CONSTANTS
    MaxEdits,   \* user edits
    MaxChanges, \* changes of the backend, stamps included
    MaxReads,   \* times the window gains focus
    MaxFaults   \* side effects and commits that fail

VARIABLES
    saved,      \* SettingsService.settings
    revision,   \* settings_revision
    other,      \* a backend change: "idle", "written" (commit lock held), "emit"
    events,     \* settings-state events under way
    ui,         \* the controller's state, see Controller
    queue,      \* the mutation queue, its head under way
    call,       \* the head's call, see Call
    sequence, generation, \* mutationSequence, mutationGeneration
    reads,      \* answers to refreshIfIdle, awaited or under way
    left,       \* what the bounds leave of focus changes and faults
    made,       \* history: edits and changes made
    wanted,     \* history: the edit the user last asked to save
    refused,    \* history: edits whose mutation failed or was cancelled
    restored    \* history: a cancelled drag put back what is not the server's state

vars == <<saved, revision, other, events, ui, queue, call, sequence, generation,
          reads, left, made, wanted, refused, restored>>
backend == <<saved, revision, other>>
tasks == <<queue, call, sequence, generation>>
history == <<made, wanted, refused, restored>>

Document(mine, theirs) == [mine |-> mine, theirs |-> theirs]
View(document, rev) == [document |-> document, rev |-> rev]
NoView == View(Document(0, {}), -1)

\* settings_view_state: revision is loaded while the document is read-locked.
Current == View(saved, revision)

NoCall == [phase |-> "none", expected |-> 0, view |-> NoView, latest |-> 0]
Call(rev) == [NoCall EXCEPT !.phase = "sent", !.expected = rev]
Running == queue[1]

Init ==
    /\ saved = Document(0, {}) /\ revision = 0 /\ other = "idle" /\ events = {}
    /\ ui = [shown |-> Current, server |-> Current, parked |-> NoView,
             refresh |-> FALSE, draft |-> FALSE, moved |-> FALSE,
             start |-> NoView, external |-> NoView]
    /\ queue = <<>> /\ call = NoCall /\ sequence = 0 /\ generation = 0
    /\ reads = {} /\ left = [reads |-> MaxReads, faults |-> MaxFaults]
    /\ made = [edits |-> 0, changes |-> 0]
    /\ wanted = 0 /\ refused = {} /\ restored = FALSE

-----------------------------------------------------------------------------
(***************************************************************************)
(* The controller's state: operators from state to state.                  *)
(***************************************************************************)
DoesNotPrecede(candidate, current) == candidate.rev >= current.rev
StrictlyFollows(candidate, current) == candidate.rev > current.rev

RecordServerState(u, v) ==
    IF DoesNotPrecede(v, u.server) THEN [u EXCEPT !.server = v] ELSE u
Show(u, v) == IF DoesNotPrecede(v, u.shown) THEN [u EXCEPT !.shown = v] ELSE u
SetState(u, v, idle) ==
    IF ~DoesNotPrecede(v, u.shown) THEN u
    ELSE IF idle THEN RecordServerState(Show(u, v), v) ELSE Show(u, v)

\* Faulty variant of AcceptExternalState: an event during a mutation is dropped.
DropExternalState(u, v, idle) ==
    IF u.draft THEN [u EXCEPT !.external = v]
    ELSE IF idle THEN SetState(u, v, TRUE) ELSE u

AcceptExternalState(u, v, idle) ==
    IF u.draft
    THEN IF DoesNotPrecede(v, u.external) THEN [u EXCEPT !.external = v] ELSE u
    ELSE IF idle THEN SetState(u, v, TRUE)
    ELSE [u EXCEPT !.parked = IF DoesNotPrecede(v, @) THEN v ELSE @, !.refresh = TRUE]

\* The finally block of the last mutation.
Drained(u) ==
    LET calm == [u EXCEPT !.refresh = FALSE, !.parked = NoView]
    IN  IF u.refresh /\ StrictlyFollows(u.parked, u.server)
        THEN SetState(calm, u.parked, TRUE) ELSE IF u.refresh THEN calm ELSE u

Awaited(seq) == [seq |-> seq, view |-> NoView]

\* Faulty variant of Uncancelled: of the tasks that wait, only the newest is sent.
NewestTask(rest, gen) == SelectSeq(rest, LAMBDA task : task = Last(rest))

\* Tasks of an older generation throw CancelledSettingsMutation; they are in front.
Uncancelled(rest, gen) ==
    LET older == CHOOSE n \in 0..Len(rest) :
                     \A i \in 1..Len(rest) : rest[i].gen = gen <=> i > n
    IN  SubSeq(rest, older + 1, Len(rest))

\* The head is done: the next task that is not cancelled starts, or the queue is drained.
Proceed(u) ==
    LET rest == Uncancelled(Tail(queue), generation)
    IN  /\ queue' = rest
        /\ call' = IF rest = <<>> THEN NoCall ELSE Call(u.server.rev)
        /\ ui' = IF rest = <<>> THEN Drained(u) ELSE u
        /\ reads' = IF rest = <<>> /\ u.refresh /\ ~u.draft
                    THEN reads \cup {Awaited(sequence)} ELSE reads
        /\ UNCHANGED <<sequence, generation>>

\* enqueueMutation; a task that finds the queue empty starts at once.
Enqueue(kind, document) ==
    /\ sequence' = sequence + 1
    /\ queue' = Append(queue, [kind |-> kind, document |-> document, seq |-> sequence',
                               gen |-> generation, alone |-> queue = <<>>])
    /\ call' = IF queue = <<>> THEN Call(ui.server.rev) ELSE call
    /\ UNCHANGED generation

-----------------------------------------------------------------------------
(***************************************************************************)
(* The user and the window.                                                *)
(***************************************************************************)
NewEdit == made.edits + 1
CountEdit == made.edits < MaxEdits /\ made' = [made EXCEPT !.edits = NewEdit]

\* The next document is built on the one shown, which it replaces at once.
Save ==
    /\ ~ui.draft /\ CountEdit
    /\ LET next == Document(NewEdit, ui.shown.document.theirs)
       IN  ui' = [ui EXCEPT !.shown.document = next] /\ Enqueue("save", next)
    /\ wanted' = NewEdit
    /\ UNCHANGED <<backend, events, reads, left, refused, restored>>

\* The resets of the customization; the backend makes the document.
Reset ==
    /\ ~ui.draft /\ CountEdit
    /\ Enqueue("reset", Document(NewEdit, {}))
    /\ wanted' = NewEdit
    /\ UNCHANGED <<backend, events, ui, reads, left, refused, restored>>

\* checkForUpdates records its time.
Stamp ==
    /\ made.changes < MaxChanges
    /\ made' = [made EXCEPT !.changes = @ + 1]
    /\ Enqueue("stamp", Document(0, {made.changes + 1}))
    /\ UNCHANGED <<backend, events, ui, reads, left, wanted, refused, restored>>

BeginGesture ==
    /\ ~ui.draft
    /\ ui' = [ui EXCEPT !.draft = TRUE, !.start = ui.shown]
    /\ UNCHANGED <<backend, events, tasks, reads, left, history>>

Drag ==
    /\ ui.draft /\ CountEdit
    /\ ui' = [ui EXCEPT !.shown.document.mine = NewEdit, !.moved = TRUE]
    /\ UNCHANGED <<backend, events, tasks, reads, left, wanted, refused, restored>>

\* endDraft: what came during the gesture is accepted now.
EndDraft(u, idle) ==
    LET calm == [u EXCEPT !.draft = FALSE, !.moved = FALSE, !.external = NoView,
                             !.start = NoView]
    IN  IF u.external = NoView THEN calm ELSE AcceptExternalState(calm, u.external, idle)

\* A finished gesture saves what is shown, and the draft ends behind that save.
DropGesture ==
    /\ ui.draft /\ ui.moved
    /\ ui' = EndDraft(ui, FALSE)
    /\ Enqueue("save", ui.shown.document)
    /\ wanted' = ui.shown.document.mine
    /\ UNCHANGED <<backend, events, reads, left, made, refused, restored>>

\* A cancelled one puts back the document it began with, under the revision shown now.
CancelGesture ==
    /\ ui.draft
    /\ LET back == IF ui.moved THEN ui.start.document ELSE ui.shown.document
       IN  /\ ui' = EndDraft([ui EXCEPT !.shown.document = back], queue = <<>>)
           /\ restored' = (restored \/ (queue = <<>> /\ back # ui.server.document))
    /\ UNCHANGED <<backend, events, tasks, reads, left, made, wanted, refused>>

\* refreshIfIdle, when the window gains focus.
Focus ==
    /\ left.reads > 0 /\ left' = [left EXCEPT !.reads = @ - 1]
    /\ queue = <<>> /\ ~ui.draft
    /\ reads' = reads \cup {Awaited(sequence)}
    /\ UNCHANGED <<backend, events, ui, tasks, history>>

-----------------------------------------------------------------------------
(***************************************************************************)
(* The backend.  The command lock is held from the check to the event by   *)
(* saves, resets and changes, the commit lock from the check to the new    *)
(* revision by everyone.                                                   *)
(***************************************************************************)
At(phase) == queue # <<>> /\ call.phase = phase
Committing == other = "written"
CommandHeld == At("written") \/ (At("emit") /\ Running.kind # "stamp")

\* Faulty variant of Refused: the revision is not compared.
RefusedNever == FALSE

\* update_internal refuses a document built on another revision.
Refused == Running.kind # "stamp" /\ call.expected # revision

Committed ==
    CASE Running.kind = "save" -> Running.document
      [] Running.kind = "reset" -> [saved EXCEPT !.mine = Running.document.mine]
      [] Running.kind = "stamp" -> [saved EXCEPT !.theirs = @ \cup Running.document.theirs]

Commit ==
    /\ At("sent") /\ ~Committing /\ (Running.kind # "stamp" => other = "idle")
    /\ ~Refused
    /\ saved' = Committed
    /\ call' = [call EXCEPT !.phase = "written"]
    /\ UNCHANGED <<revision, other, events, ui, queue, sequence, generation, reads, left, history>>

\* A side effect or the store may fail as well; then the side effects are rolled back.
CommitFails ==
    /\ At("sent") /\ ~Committing /\ (Running.kind # "stamp" => other = "idle")
    /\ \/ Refused /\ UNCHANGED left
       \/ ~Refused /\ left.faults > 0 /\ left' = [left EXCEPT !.faults = @ - 1]
    /\ call' = [call EXCEPT !.phase = "failed"]
    /\ UNCHANGED <<backend, events, ui, queue, sequence, generation, reads, history>>

NextRevision ==
    /\ At("written")
    /\ revision' = revision + 1
    /\ call' = [call EXCEPT !.phase = "emit"]
    /\ UNCHANGED <<saved, other, events, ui, queue, sequence, generation, reads, left, history>>

\* A save reads its answer only after the refresh of what it enabled.
Emit ==
    /\ At("emit")
    /\ events' = events \cup {Current}
    /\ call' = IF Running.kind = "save" THEN [call EXCEPT !.phase = "refresh"]
               ELSE [call EXCEPT !.phase = "answered", !.view = Current]
    /\ UNCHANGED <<backend, ui, queue, sequence, generation, reads, left, history>>

AnswerSave ==
    /\ At("refresh")
    /\ call' = [call EXCEPT !.phase = "answered", !.view = Current]
    /\ UNCHANGED <<backend, events, ui, queue, sequence, generation, reads, left, history>>

\* apply_credential_detection, reconcile_provider_credential_state: read, change and
\* write back under the commit lock.
Change ==
    /\ other = "idle" /\ made.changes < MaxChanges
    /\ ~CommandHeld
    /\ saved' = [saved EXCEPT !.theirs = @ \cup {made.changes + 1}]
    /\ made' = [made EXCEPT !.changes = @ + 1]
    /\ other' = "written"
    /\ UNCHANGED <<revision, events, ui, tasks, reads, left, wanted, refused, restored>>

ChangeRevision ==
    /\ other = "written" /\ other' = "emit"
    /\ revision' = revision + 1
    /\ UNCHANGED <<saved, events, ui, tasks, reads, left, history>>

ChangeEmitted ==
    /\ other = "emit" /\ other' = "idle"
    /\ events' = events \cup {Current}
    /\ UNCHANGED <<saved, revision, ui, tasks, reads, left, history>>

\* get_app_settings, for refreshIfIdle and for the reload; it does not fail.
ReadSettings ==
    /\ \/ /\ \E r \in reads : r.view = NoView
                /\ reads' = (reads \ {r}) \cup {[r EXCEPT !.view = Current]}
          /\ UNCHANGED call
       \/ /\ At("reload")
          /\ call' = [call EXCEPT !.phase = "reloaded", !.view = Current]
          /\ UNCHANGED reads
    /\ UNCHANGED <<backend, events, ui, queue, sequence, generation, left, history>>

-----------------------------------------------------------------------------
(***************************************************************************)
(* What comes back to the frontend, in any order.                          *)
(***************************************************************************)
SettingsEvent ==
    /\ \E v \in events :
          /\ events' = events \ {v}
          /\ ui' = AcceptExternalState(ui, v, queue = <<>>)
    /\ UNCHANGED <<backend, tasks, reads, left, history>>

FocusAnswer ==
    /\ \E r \in reads :
          /\ r.view # NoView
          /\ reads' = reads \ {r}
          /\ ui' = IF queue = <<>> /\ r.seq = sequence THEN SetState(ui, r.view, TRUE)
                   ELSE [ui EXCEPT !.refresh = TRUE]
    /\ UNCHANGED <<backend, events, tasks, left, history>>

\* The answer is shown unless a later mutation is queued behind it.
Answer ==
    /\ At("answered")
    /\ LET known == RecordServerState(ui, call.view)
       IN  Proceed(IF DoesNotPrecede(call.view, ui.server) /\ Running.seq = sequence
                   THEN Show(known, call.view) ELSE known)
    /\ UNCHANGED <<backend, events, left, history>>

\* The tasks behind a failure are cancelled, and the state is loaded again.
Failure ==
    /\ At("failed")
    /\ generation' = generation + 1
    /\ call' = [call EXCEPT !.phase = "reload", !.latest = sequence]
    /\ refused' = refused \cup {task.document.mine : task \in ToSet(queue)}
    /\ UNCHANGED <<backend, events, ui, queue, sequence, reads, left, made, wanted, restored>>

\* Faulty variant of Reloaded: a reload that a newer mutation has overtaken returns early.
ReloadedUnlessOvertaken ==
    /\ At("reloaded") /\ call.latest = sequence
    /\ Proceed(Show(RecordServerState(ui, call.view), call.view))
    /\ UNCHANGED <<backend, events, left, history>>

Reloaded ==
    /\ At("reloaded")
    /\ LET known == RecordServerState(ui, call.view)
       IN  Proceed(IF DoesNotPrecede(call.view, ui.server) /\ call.latest = sequence
                   THEN Show(known, call.view) ELSE known)
    /\ UNCHANGED <<backend, events, left, history>>

-----------------------------------------------------------------------------
UserNext == Save \/ Reset \/ Stamp \/ BeginGesture \/ Drag \/ DropGesture \/ CancelGesture \/ Focus
CommandNext == Commit \/ CommitFails \/ NextRevision \/ Emit \/ AnswerSave
ChangeNext == Change \/ ChangeRevision \/ ChangeEmitted
FrontendNext == SettingsEvent \/ FocusAnswer \/ Answer \/ Failure \/ Reloaded
Next == UserNext \/ CommandNext \/ ChangeNext \/ ReadSettings \/ FrontendNext

Spec == Init /\ [][Next]_vars

\* Commands and changes under way end, and the event loop delivers what reaches it.
FairSpec ==
    /\ Spec
    /\ WF_vars(CommandNext) /\ WF_vars(ChangeRevision \/ ChangeEmitted)
    /\ WF_vars(ReadSettings) /\ WF_vars(FrontendNext)

-----------------------------------------------------------------------------
Documents == [mine : 0..MaxEdits, theirs : SUBSET (1..MaxChanges)]
Views == [document : Documents, rev : -1..(MaxEdits + MaxChanges)]

\* Types; and the call under way belongs to the head of the queue, one generation
\* per failure (enqueueMutation).
TypeOK ==
    /\ saved \in Documents /\ revision \in 0..(MaxEdits + MaxChanges)
    /\ other \in {"idle", "written", "emit"} /\ events \subseteq Views
    /\ ui \in [shown : Views, server : Views, parked : Views, refresh : BOOLEAN,
               draft : BOOLEAN, moved : BOOLEAN, start : Views, external : Views]
    /\ (queue = <<>>) <=> (call = NoCall)
    /\ queue # <<>> => Last(queue).seq = sequence
    /\ \A i \in 1..Len(queue) : queue[i].gen <= generation
    /\ reads \subseteq [seq : 0..sequence, view : Views]

\* Once everything has settled the frontend shows what is saved, whatever events,
\* answers and reloads crossed each other (settingsController.svelte.ts:55-92, 128-161).
AtRest == queue = <<>> /\ reads = {} /\ events = {} /\ other = "idle" /\ ~ui.draft
Converged == AtRest /\ ~restored => ui.shown = Current

\* A save that found the queue empty overwrites no change of the backend: it is built
\* on the state whose revision it sends (settings.rs:415-421).
LoneSaveKeepsChanges ==
    [][saved.theirs \subseteq saved'.theirs \/ ~Running.alone \/ restored]_vars

\* The edit the user asked for last is the one that is saved, unless its mutation
\* failed or was cancelled behind a failure (settingsController.svelte.ts:119-143).
LastEditKept == AtRest => saved.mine = wanted \/ wanted \in refused

\* The mutation queue drains: no failure or cancellation leaves it stuck
\* (settingsController.svelte.ts:146-161).
QueueDrains == queue # <<>> ~> queue = <<>>

\* "Settings changed before they could be saved": no document that lacks a change is
\* saved over it (settings.rs:415-421, test at 2029).
NothingOverwritten == [][saved.theirs \subseteq saved'.theirs]_vars
=============================================================================
