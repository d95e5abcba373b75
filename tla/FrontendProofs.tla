----------------------------- MODULE FrontendProofs -----------------------------
(* What the frontend and the session keep in step, for any numbers of heights,      *)
(* edits, changes, reads and failures. The panel: the last decision on its height   *)
(* stays stored, and the mode that is shown is the session's. The settings: an idle *)
(* frontend shows what the backend holds, and what the user chose last is saved     *)
(* unless a failure behind it threw it away.                                        *)
EXTENDS MCFrontend, SequenceTheorems, TLAPS

Pending == [generation : Int, height : Int]
States == [height : Int, mode : {"automatic", "manual"}]
Mutations == [mode : {"automatic", "manual"}, request : Int,
              pc : {"queued", "running", "done"}, height : Int]

\* Types of what the session's steps read.
HeightTypes ==
  /\ stored \in States /\ decided \in States
  /\ generation \in Nat /\ height \in Int /\ recorded \subseteq Int
  /\ channel \in Seq(Pending) /\ held \in Pending
  /\ mutations \in Seq(Mutations) /\ request \in Int
  /\ reset.height \in Int

\* A height that waits for the thread belongs to an earlier generation, or to the drag of now.
OfTheDrag(q) == q.generation <= generation /\ (q.generation = generation => q.height \in recorded)
PendingFits == OfTheDrag(held) /\ \A i \in 1..Len(channel) : OfTheDrag(channel[i])

HeightInv == HeightTypes /\ PendingFits /\ LastDecisionKept

-----------------------------------------------------------------------------
\* A first state has a stored height and mode, and nothing is waiting.
LEMMA HeightInitially == Init => HeightInv
<1> SUFFICES ASSUME Init PROVE HeightInv
  OBVIOUS
<1>1. stored \in States /\ decided = stored /\ recorded = {}
  BY DEF Init, States, None
<1>2. channel = <<>> /\ mutations = <<>> /\ held = NoPending /\ reset = NoReset
      /\ generation = 0 /\ height = 1 /\ request = 0
  BY DEF Init
<1>3. HeightTypes
  BY <1>1, <1>2, EmptySeq DEF HeightTypes, NoPending, NoReset, None, Pending
<1>4. PendingFits
  BY <1>2, EmptySeq DEF PendingFits, OfTheDrag, NoPending
<1>5. automatic <=> stored.mode # "manual"
  BY DEF Init
<1>6. QED
  BY <1>1, <1>3, <1>4, <1>5 DEF HeightInv, LastDecisionKept, States

\* A decision (set_manual, mark_panel_height_automatic) begins a new generation: what waits is
\* older.
LEMMA DecisionKeeps ==
  ASSUME HeightInv, NEW state \in States, Decides(state), generation' = generation + 1,
         automatic' <=> state.mode # "manual",
         channel' = channel, held' = held, height' = height,
         mutations' \in Seq(Mutations), request' \in Int, reset'.height \in Int
  PROVE  HeightInv'
<1>1. HeightTypes'
  BY DEF HeightInv, HeightTypes, Decides
<1>2. PendingFits'
  <2>1. ASSUME NEW q \in Pending, OfTheDrag(q)
        PROVE  q.generation <= generation' /\ q.generation # generation'
    BY <2>1 DEF OfTheDrag, HeightInv, HeightTypes, Pending
  <2>2. held'.generation <= generation' /\ held'.generation # generation'
    BY <2>1 DEF HeightInv, HeightTypes, PendingFits
  <2>3. \A i \in 1..Len(channel') :
           channel'[i].generation <= generation' /\ channel'[i].generation # generation'
    <3>1. \A i \in 1..Len(channel) : channel[i] \in Pending
      BY DEF HeightInv, HeightTypes
    <3>2. QED
      BY <2>1, <3>1 DEF HeightInv, PendingFits
  <2>4. QED
    BY <2>2, <2>3 DEF PendingFits, OfTheDrag
<1>3. LastDecisionKept'
  BY DEF LastDecisionKept, Decides, States
<1>4. QED
  BY <1>1, <1>2, <1>3 DEF HeightInv

\* A step of the frontend leaves the session alone.
LEMMA FrontendKeeps ==
  ASSUME HeightInv, UNCHANGED session,
         mutations' \in Seq(Mutations), request' \in Int, reset'.height \in Int
  PROVE  HeightInv'
  BY DEF HeightInv, HeightTypes, PendingFits, OfTheDrag, LastDecisionKept, session

\* record: the height of a drag is handed to the thread.
LEMMA ResizedKeeps == ASSUME HeightInv, NEW h \in Heights, Resized(h) PROVE HeightInv'
<1> DEFINE new == [generation |-> generation, height |-> h]
<1>1. h \in Int /\ new \in Pending
  BY DEF Heights, Pending, HeightInv, HeightTypes
<1>2. CASE active
  <2>1. channel' = Append(channel, new) /\ recorded' = recorded \cup {h}
    BY <1>2 DEF Resized
  <2>2. HeightTypes'
    BY <1>1, <2>1 DEF Resized, HeightInv, HeightTypes, frontend
  <2>3. PendingFits'
    <3>1. Len(channel') = Len(channel) + 1 /\ channel'[Len(channel) + 1] = new
          /\ \A i \in 1..Len(channel) : channel'[i] = channel[i]
      BY <1>1, <2>1, AppendProperties DEF HeightInv, HeightTypes
    <3>2. generation' = generation /\ new.generation = generation /\ new.height \in recorded'
      BY <2>1 DEF Resized
    <3>3. \A q \in Pending : OfTheDrag(q) => q.generation <= generation'
                              /\ (q.generation = generation' => q.height \in recorded')
      BY <2>1 DEF OfTheDrag, Resized
    <3>4. OfTheDrag(held)'
      BY <3>3 DEF Resized, HeightInv, HeightTypes, PendingFits, OfTheDrag
    <3>5. ASSUME NEW i \in 1..Len(channel') PROVE OfTheDrag(channel[i])'
      <4>1. CASE i = Len(channel) + 1
        BY <3>1, <3>2, <4>1 DEF OfTheDrag, HeightInv, HeightTypes
      <4>2. CASE i \in 1..Len(channel)
        BY <3>1, <3>3, <4>2 DEF OfTheDrag, HeightInv, HeightTypes, PendingFits
      <4>3. QED
        BY <3>1, <4>1, <4>2 DEF HeightInv, HeightTypes
    <3>6. QED
      BY <3>4, <3>5 DEF PendingFits
  <2>4. LastDecisionKept'
    BY <2>1 DEF Resized, HeightInv, LastDecisionKept
  <2>5. QED
    BY <2>2, <2>3, <2>4 DEF HeightInv
<1>3. CASE ~active
  <2>1. UNCHANGED <<stored, automatic, generation, channel, held, decided, recorded, frontend>>
        /\ height' = h
    BY <1>3 DEF Resized
  <2>2. HeightTypes'
    BY <1>1, <2>1 DEF HeightInv, HeightTypes, frontend
  <2>3. PendingFits' /\ LastDecisionKept'
    BY <2>1 DEF HeightInv, PendingFits, OfTheDrag, LastDecisionKept
  <2>4. QED
    BY <2>2, <2>3 DEF HeightInv
<1>4. QED
  BY <1>2, <1>3

\* The thread takes a height, and saves it if it belongs to the drag of now.
LEMMA ReceiveKeeps == ASSUME HeightInv, WorkerReceives PROVE HeightInv'
<1>1. held' = channel[1] /\ held' \in Pending /\ channel' \in Seq(Pending) /\ 1 \in 1..Len(channel)
  BY HeadTailProperties DEF WorkerReceives, HeightInv, HeightTypes
<1>2. Len(channel') = Len(channel) - 1 /\ \A i \in 1..Len(channel') : channel'[i] = channel[i + 1]
  BY HeadTailProperties DEF WorkerReceives, HeightInv, HeightTypes
<1>3. HeightTypes'
  BY <1>1 DEF WorkerReceives, HeightInv, HeightTypes, frontend
<1>4. PendingFits'
  <2>1. \A i \in 1..Len(channel') : i + 1 \in 1..Len(channel)
    BY <1>2 DEF HeightInv, HeightTypes
  <2>2. QED
    BY <1>1, <1>2, <2>1 DEF WorkerReceives, HeightInv, PendingFits, OfTheDrag
<1>5. LastDecisionKept'
  BY DEF WorkerReceives, HeightInv, LastDecisionKept
<1>6. QED
  BY <1>3, <1>4, <1>5 DEF HeightInv

LEMMA SaveKeeps == ASSUME HeightInv, WorkerSaves PROVE HeightInv'
<1>1. HeightTypes'
  BY DEF WorkerSaves, HeightInv, HeightTypes, States, Pending, NoPending, None, frontend
<1>2. PendingFits'
  BY DEF WorkerSaves, HeightInv, HeightTypes, PendingFits, OfTheDrag, NoPending
<1>3. LastDecisionKept'
  <2>1. CASE held.generation = generation /\ ~automatic
    <3>1. stored'.mode = "manual" /\ stored'.height = held.height
      BY <2>1 DEF WorkerSaves
    <3>2. held.height \in recorded /\ stored.mode = "manual"
      BY <2>1 DEF HeightInv, PendingFits, OfTheDrag, LastDecisionKept
    <3>3. QED
      BY <2>1, <3>1, <3>2 DEF WorkerSaves, HeightInv, LastDecisionKept
  <2>2. CASE ~(held.generation = generation /\ ~automatic)
    BY <2>2 DEF WorkerSaves, HeightInv, LastDecisionKept
  <2>3. QED
    BY <2>1, <2>2
<1>4. QED
  BY <1>1, <1>2, <1>3 DEF HeightInv

\* The decisions: their lock sections are steps of DecisionKeeps.
LEMMA ManualKeeps ==
  ASSUME HeightInv, NEW h \in Int, SetManual(h),
         channel' = channel, held' = held, height' = height,
         mutations' \in Seq(Mutations), request' \in Int, reset'.height \in Int
  PROVE  HeightInv'
<1> DEFINE state == [height |-> h, mode |-> "manual"]
<1>1. state \in States /\ state.mode = "manual" /\ Decides(state) /\ generation' = generation + 1
  BY DEF States, SetManual
<1>2. automatic' <=> state.mode # "manual"
  BY DEF SetManual
<1> HIDE DEF state
<1>3. QED
  BY <1>1, <1>2, DecisionKeeps

LEMMA MarkKeeps ==
  ASSUME HeightInv, Decides(Marked), generation' = generation + 1, automatic',
         channel' = channel, held' = held, height' = height,
         mutations' \in Seq(Mutations), request' \in Int, reset'.height \in Int
  PROVE  HeightInv'
<1>1. Marked \in States /\ Marked.mode = "automatic"
  BY DEF Marked, States, HeightInv, HeightTypes
<1>2. automatic' <=> Marked.mode # "manual"
  BY <1>1
<1>3. QED
  BY <1>1, <1>2, DecisionKeeps

\* A drag that ends without a decision begins a new generation too.
LEMMA FinishKeeps == ASSUME HeightInv, Finish PROVE HeightInv'
<1>1. generation' = generation + 1 /\ UNCHANGED <<automatic, channel, held, height, frontend>>
  BY DEF Finish
<1>2. mutations' \in Seq(Mutations) /\ request' \in Int /\ reset'.height \in Int
  BY <1>1 DEF frontend, HeightInv, HeightTypes
<1>3. CASE ~automatic /\ Decides([height |-> height, mode |-> "manual"])
  <2>1. SetManual(height)
    BY <1>1, <1>3 DEF SetManual
  <2>2. QED
    BY <1>1, <1>2, <2>1, ManualKeeps DEF HeightInv, HeightTypes
<1>4. CASE UNCHANGED <<stored, decided, recorded>>
  <2>1. HeightTypes'
    BY <1>1, <1>2, <1>4 DEF HeightInv, HeightTypes
  <2>2. PendingFits'
    <3>1. \A q \in Pending : OfTheDrag(q) => q.generation <= generation' /\ q.generation # generation'
      BY <1>1 DEF OfTheDrag, HeightInv, HeightTypes, Pending
    <3>2. \A i \in 1..Len(channel) : channel[i] \in Pending
      BY DEF HeightInv, HeightTypes
    <3>3. QED
      BY <1>1, <3>1, <3>2 DEF PendingFits, OfTheDrag, HeightInv, HeightTypes
  <2>3. LastDecisionKept'
    BY <1>1, <1>4 DEF HeightInv, LastDecisionKept
  <2>4. QED
    BY <2>1, <2>2, <2>3 DEF HeightInv
<1>5. QED
  BY <1>3, <1>4 DEF Finish

-----------------------------------------------------------------------------
\* The mutations keep their types: a change is queued at the end, moves on and is taken off.
LEMMA FirstIsMutation ==
  ASSUME HeightInv, mutations # <<>>
  PROVE  First \in Mutations /\ Tail(mutations) \in Seq(Mutations)
  BY HeadTailProperties DEF First, HeightInv, HeightTypes

LEMMA SetFirstTyped ==
  ASSUME HeightInv, mutations # <<>>, NEW pc \in {"queued", "running", "done"}, SetFirst(pc)
  PROVE  mutations' \in Seq(Mutations)
<1>1. First \in Mutations /\ 1 \in DOMAIN mutations /\ mutations \in Seq(Mutations)
  BY FirstIsMutation DEF HeightInv, HeightTypes
<1>2. [First EXCEPT !.pc = pc] \in Mutations
  BY <1>1 DEF Mutations
<1>3. mutations' = [mutations EXCEPT ![1] = [First EXCEPT !.pc = pc]]
  BY DEF SetFirst, First
<1>4. QED
  BY <1>1, <1>2, <1>3

\* changeHeightMode and the commands of its queue.
LEMMA ChangeKeeps ==
  ASSUME HeightInv, NEW mode \in {"automatic", "manual"}, ChangeMode(mode)
  PROVE  HeightInv'
<1> DEFINE new == [mode |-> mode, request |-> request', pc |-> "queued", height |-> None]
<1>1. request' \in Int
  BY DEF ChangeMode, HeightInv, HeightTypes
<1>2. new \in Mutations
  BY <1>1 DEF Mutations, None
<1>3. mutations' = Append(mutations, new)
  BY DEF ChangeMode
<1> HIDE DEF new
<1>4. mutations' \in Seq(Mutations)
  BY <1>2, <1>3, AppendProperties DEF HeightInv, HeightTypes
<1>5. QED
  BY <1>1, <1>4, FrontendKeeps DEF ChangeMode, HeightInv, HeightTypes

LEMMA InvokeKeeps == ASSUME HeightInv, Invoke PROVE HeightInv'
<1>1. First \in Mutations /\ 1 \in DOMAIN mutations /\ mutations \in Seq(Mutations)
  BY FirstIsMutation DEF HeightInv, HeightTypes, Invoke
<1>2. [First EXCEPT !.pc = "running", !.height = height] \in Mutations
  BY <1>1 DEF Mutations, HeightInv, HeightTypes
<1>3. mutations' = [mutations EXCEPT ![1] = [First EXCEPT !.pc = "running", !.height = height]]
  BY <1>1 DEF Invoke, First
<1>4. mutations' \in Seq(Mutations)
  BY <1>1, <1>2, <1>3
<1>5. QED
  BY <1>4, FrontendKeeps DEF Invoke, HeightInv, HeightTypes

LEMMA ExecuteKeeps == ASSUME HeightInv, Execute PROVE HeightInv'
<1>1. mutations # <<>> /\ First.height \in Int
  BY FirstIsMutation DEF Execute, Mutations
<1>2. mutations' \in Seq(Mutations)
  BY <1>1, SetFirstTyped DEF Execute
<1>3. UNCHANGED <<channel, held, height, request, reset>>
  BY DEF Execute
<1>4. request' \in Int /\ reset'.height \in Int
  BY <1>3 DEF HeightInv, HeightTypes
<1>5. CASE SetManual(First.height)
  BY <1>1, <1>2, <1>3, <1>4, <1>5, ManualKeeps
<1>6. CASE SetAutomatic
  <2>1. Decides(Marked) /\ generation' = generation + 1 /\ automatic'
    BY <1>6 DEF SetAutomatic
  <2>2. QED
    BY <1>2, <1>3, <1>4, <2>1, MarkKeeps
<1>7. CASE UNCHANGED <<stored, decided, recorded, generation, automatic, active>>
  BY <1>2, <1>3, <1>4, <1>7, FrontendKeeps DEF session
<1>8. QED
  BY <1>5, <1>6, <1>7 DEF Execute

LEMMA SettleKeeps == ASSUME HeightInv, Settle PROVE HeightInv'
<1>1. mutations' \in Seq(Mutations)
  BY FirstIsMutation DEF Settle
<1>2. request' \in Int
  BY DEF Settle, Asks, HeightInv, HeightTypes
<1>3. QED
  BY <1>1, <1>2, FrontendKeeps DEF Settle, HeightInv, HeightTypes

\* The other steps of the frontend.
LEMMA DragKeeps ==
  ASSUME HeightInv,
         \/ Focus \/ (\E g \in gets : GetAnswered(g) \/ GetArrives(g))
         \/ PressGrip \/ AcceptManual \/ DragEnds
  PROVE  HeightInv'
<1>1. UNCHANGED <<session, mutations, reset>>
  BY DEF Focus, GetAnswered, GetArrives, PressGrip, AcceptManual, DragEnds
<1>2. request' \in Int
  BY DEF Focus, GetAnswered, GetArrives, PressGrip, AcceptManual, DragEnds, Asks, HeightInv, HeightTypes
<1>3. QED
  BY <1>1, <1>2, FrontendKeeps DEF HeightInv, HeightTypes

\* begin sets the flag, then the height under the lock.
LEMMA BeginKeeps == ASSUME HeightInv, BeginActive \/ BeginManual PROVE HeightInv'
<1>1. UNCHANGED <<channel, held, height, request, mutations, reset>>
  BY DEF BeginActive, BeginManual
<1>2. mutations' \in Seq(Mutations) /\ request' \in Int /\ reset'.height \in Int
  BY <1>1 DEF HeightInv, HeightTypes
<1>3. CASE SetManual(height)
  BY <1>1, <1>2, <1>3, ManualKeeps DEF HeightInv, HeightTypes
<1>4. CASE UNCHANGED <<stored, decided, recorded, generation, automatic>>
  BY <1>1, <1>2, <1>4 DEF HeightInv, HeightTypes, PendingFits, OfTheDrag, LastDecisionKept
<1>5. QED
  BY <1>3, <1>4 DEF BeginActive, BeginManual

\* reset_all_settings: the panel becomes automatic, and a rollback decides anew.
LEMMA ResetKeeps ==
  ASSUME HeightInv, ConfirmReset \/ BeginReset \/ ResetSaved \/ Rollback \/ ResetSettles
  PROVE  HeightInv'
<1>1. mutations' \in Seq(Mutations) /\ request' \in Int
  BY DEF ConfirmReset, BeginReset, ResetSaved, Rollback, ResetSettles, Asks, HeightInv, HeightTypes
<1>2. reset'.height \in Int
  <2>1. CASE BeginReset
    BY <2>1 DEF BeginReset, HeightInv, HeightTypes, States
  <2>2. CASE ResetSettles
    BY <2>2 DEF ResetSettles, NoReset, None
  <2>3. CASE ConfirmReset \/ ResetSaved \/ Rollback
    <3>1. PICK pc : reset' = [reset EXCEPT !.pc = pc]
      BY <2>3 DEF ConfirmReset, ResetSaved, Rollback
    <3>2. QED
      BY <3>1 DEF HeightInv, HeightTypes
  <2>4. QED
    BY <2>1, <2>2, <2>3
<1>3. CASE UNCHANGED session
  BY <1>1, <1>2, <1>3, FrontendKeeps
<1>4. CASE BeginReset
  BY <1>1, <1>2, <1>4, MarkKeeps DEF BeginReset, SetAutomatic
<1>5. CASE Rollback
  <2>1. UNCHANGED <<active, channel, held, height>>
    BY <1>5 DEF Rollback
  <2>2. CASE UNCHANGED <<stored, decided, recorded, generation, automatic>>
    BY <1>1, <1>2, <2>1, <2>2, FrontendKeeps DEF session
  <2>3. CASE SetManual(reset.height)
    BY <1>1, <1>2, <2>1, <2>3, ManualKeeps DEF HeightInv, HeightTypes
  <2>4. CASE Decides(Marked) /\ generation' = generation + 1 /\ automatic' = TRUE
    BY <1>1, <1>2, <2>1, <2>4, MarkKeeps
  <2>5. QED
    BY <1>5, <2>2, <2>3, <2>4 DEF Rollback
<1>6. QED
  BY <1>3, <1>4, <1>5 DEF ConfirmReset, ResetSaved, ResetSettles

-----------------------------------------------------------------------------
LEMMA HeightStep == HeightInv /\ [Next]_vars => HeightInv'
<1> SUFFICES ASSUME HeightInv, [Next]_vars PROVE HeightInv'
  OBVIOUS
<1>1. CASE \E h \in Heights : Resized(h)
  BY <1>1, ResizedKeeps
<1>2. CASE WorkerReceives \/ WorkerSaves \/ Finish
  BY <1>2, ReceiveKeeps, SaveKeeps, FinishKeeps
<1>3. CASE \/ Focus \/ (\E g \in gets : GetAnswered(g) \/ GetArrives(g))
           \/ PressGrip \/ AcceptManual \/ DragEnds
  BY <1>3, DragKeeps
<1>4. CASE \E mode \in {"automatic", "manual"} : ChangeMode(mode)
  BY <1>4, ChangeKeeps
<1>5. CASE Invoke \/ Execute \/ Settle
  BY <1>5, InvokeKeeps, ExecuteKeeps, SettleKeeps
<1>6. CASE BeginActive \/ BeginManual
  BY <1>6, BeginKeeps
<1>7. CASE ConfirmReset \/ BeginReset \/ ResetSaved \/ Rollback \/ ResetSettles
  BY <1>7, ResetKeeps
<1>8. CASE UNCHANGED vars
  BY <1>8, FrontendKeeps DEF vars, frontend, HeightInv, HeightTypes
<1>9. QED
  BY <1>1, <1>2, <1>3, <1>4, <1>5, <1>6, <1>7, <1>8 DEF Next

\* What is stored is what was decided last, or a height of the same drag, and its mode is the
\* panel's, for any heights and any number of gestures, resizes and failures: no height that is
\* still queued when a drag ends or the mode changes is saved over the decision (new, finish).
THEOREM DecisionsStayStored == Spec => []LastDecisionKept
<1>1. HeightInv => LastDecisionKept
  BY DEF HeightInv
<1>2. QED
  BY HeightInitially, HeightStep, <1>1, PTL DEF Spec

-----------------------------------------------------------------------------
(* The mode the frontend shows.                                                      *)

\* Something is under way that ends by asking for the mode.
Asking ==
  mutations # <<>> \/ drag.pc \in {"beginning", "begun", "ends"} \/ reset.pc \in {"saving", "saved"}

\* The mode of now is shown, or the answer that counts has it.
Following ==
  /\ \A g \in gets : g.request = request => g.answer \in {"none", Mode}
  /\ shown = Mode \/ \E g \in gets : g.request = request

\* The last change asks when it has settled, unless the end of a drag does.
ChangesAsk ==
  /\ \A i \in 1..Len(mutations) : mutations[i].request <= request
  /\ \A i \in 1..Len(mutations) : i < Len(mutations) => mutations[i].request < request
  /\ mutations # <<>> /\ ~overtaken =>
       mutations[Len(mutations)].request = request \/ drag.pc = "ends"

GetsFit ==
  /\ gets \subseteq [request : Int, answer : {"none", "automatic", "manual"}]
  /\ \A g \in gets : g.request <= request

Resets == [pc : {"none", "begin", "saving", "saved"}, height : Int, generation : Int,
           from : {"automatic", "manual"}]

ModeInv ==
  reset \in Resets /\ GetsFit /\ ChangesAsk /\ overtaken \in BOOLEAN /\ (overtaken \/ Asking \/ Following)

\* Whoever asks has the answer that counts under way.
LEMMA AsksFollows ==
  ASSUME GetsFit, Asks, request \in Int
  PROVE  GetsFit' /\ Following' /\ request' = request + 1
<1> DEFINE g == [request |-> request + 1, answer |-> "none"]
<1>1. request' = request + 1 /\ gets' = gets \cup {g}
  BY DEF Asks
<1>2. g \in [request : Int, answer : {"none", "automatic", "manual"}]
      /\ g.request = request + 1 /\ g.answer = "none"
  OBVIOUS
<1> HIDE DEF g
<1>3. \A x \in gets : x.request \in Int /\ x.request <= request
  BY DEF GetsFit
<1>4. GetsFit'
  BY <1>1, <1>2, <1>3 DEF GetsFit
<1>5. Following'
  BY <1>1, <1>2, <1>3 DEF Following
<1>6. QED
  BY <1>1, <1>4, <1>5

LEMMA MutationFacts ==
  ASSUME HeightTypes
  PROVE  /\ request \in Int /\ mutations \in Seq(Mutations) /\ Len(mutations) \in Nat
         /\ \A i \in 1..Len(mutations) : mutations[i] \in Mutations /\ mutations[i].request \in Int
<1>1. request \in Int /\ mutations \in Seq(Mutations)
  BY DEF HeightTypes
<1>2. \A i \in 1..Len(mutations) : mutations[i] \in Mutations
  BY <1>1
<1>3. QED
  BY <1>1, <1>2 DEF Mutations

\* The queued changes stay as they are, whatever becomes of their commands.
LEMMA ChangesStay ==
  ASSUME HeightTypes, ChangesAsk, Len(mutations') = Len(mutations), request' \in Int,
         \A i \in 1..Len(mutations) : mutations'[i].request = mutations[i].request,
         mutations' # <<>> <=> mutations # <<>>, request' >= request, overtaken \in BOOLEAN,
         overtaken => overtaken', overtaken' \in BOOLEAN,
         mutations # <<>> /\ ~overtaken' =>
           \/ drag'.pc = "ends" \/ (request' = request /\ drag.pc # "ends")
  PROVE  ChangesAsk'
<1>1. Len(mutations) \in Nat /\ request \in Int
      /\ \A i \in 1..Len(mutations) : mutations[i].request \in Int
  BY MutationFacts
<1>2. mutations # <<>> => Len(mutations) \in 1..Len(mutations)
  BY <1>1 DEF HeightTypes
<1>3. \A i \in 1..Len(mutations') : mutations'[i].request <= request'
  BY <1>1 DEF ChangesAsk
<1>4. \A i \in 1..Len(mutations') : i < Len(mutations') => mutations'[i].request < request'
  BY <1>1 DEF ChangesAsk
<1>5. mutations' # <<>> /\ ~overtaken' =>
        mutations'[Len(mutations')].request = request' \/ drag'.pc = "ends"
  BY <1>1, <1>2 DEF ChangesAsk
<1>6. QED
  BY <1>3, <1>4, <1>5 DEF ChangesAsk

\* A step that neither asks nor changes what is shown.
LEMMA NothingAsked ==
  ASSUME HeightTypes, ModeInv, UNCHANGED <<request, gets, shown, overtaken>>,
         Len(mutations') = Len(mutations), mutations' # <<>> <=> mutations # <<>>,
         \A i \in 1..Len(mutations) : mutations'[i].request = mutations[i].request,
         drag.pc # "ends" \/ drag'.pc = "ends",
         reset' \in Resets, Asking' \/ (~Asking /\ automatic' = automatic)
  PROVE  ModeInv'
<1>1. request \in Int /\ overtaken \in BOOLEAN
  BY DEF HeightTypes, ModeInv
<1>2. ChangesAsk'
  BY <1>1, ChangesStay DEF ModeInv, HeightTypes
<1>3. GetsFit'
  BY DEF ModeInv, GetsFit
<1>4. CASE Asking'
  BY <1>1, <1>2, <1>3, <1>4 DEF ModeInv
<1>5. CASE ~Asking /\ automatic' = automatic
  BY <1>1, <1>2, <1>3, <1>5 DEF ModeInv, Following, Mode
<1>6. QED
  BY <1>4, <1>5

\* A refresh: nothing is under way that could change the mode, or it was overtaken.
LEMMA AskStep ==
  ASSUME HeightTypes, ModeInv, Asks, mutations' = mutations,
         overtaken' = (overtaken \/ mutations # <<>>), reset' \in Resets
  PROVE  ModeInv'
<1>1. request \in Int /\ GetsFit
  BY DEF HeightTypes, ModeInv
<1>2. GetsFit' /\ Following' /\ request' = request + 1
  BY <1>1, AsksFollows
<1>3. overtaken' \in BOOLEAN /\ (overtaken => overtaken')
      /\ (mutations # <<>> => overtaken')
  BY DEF ModeInv
<1>4. ChangesAsk'
  BY <1>1, <1>2, <1>3, ChangesStay DEF ModeInv
<1>5. QED
  BY <1>2, <1>3, <1>4 DEF ModeInv

\* The session's own steps leave the mode alone.
LEMMA SessionFollows ==
  ASSUME HeightTypes, ModeInv,
         (\E h \in Heights : Resized(h)) \/ WorkerReceives \/ WorkerSaves \/ Finish
           \/ UNCHANGED vars
  PROVE  ModeInv'
<1>1. UNCHANGED <<automatic, shown, request, mutations, gets, drag, reset, overtaken>>
  BY DEF Resized, WorkerReceives, WorkerSaves, Finish, frontend, vars, session
<1>2. Asking' <=> Asking
  BY <1>1 DEF Asking
<1>3. QED
  BY <1>1, <1>2, NothingAsked DEF ModeInv

\* An answer comes in, or is given.
LEMMA GetsFollow ==
  ASSUME HeightTypes, ModeInv, NEW g \in gets, GetAnswered(g) \/ GetArrives(g)
  PROVE  ModeInv'
<1>1. UNCHANGED <<automatic, request, mutations, drag, reset, overtaken>>
  BY DEF GetAnswered, GetArrives, session
<1>2. Asking' <=> Asking
  BY <1>1 DEF Asking
<1>3. ChangesAsk'
  BY <1>1, ChangesStay DEF ModeInv, HeightTypes
<1>4. g \in [request : Int, answer : {"none", "automatic", "manual"}] /\ g.request <= request
  BY DEF ModeInv, GetsFit
<1>5. CASE GetAnswered(g)
  <2> DEFINE a == [g EXCEPT !.answer = Mode]
  <2>1. gets' = (gets \ {g}) \cup {a} /\ shown' = shown
    BY <1>5 DEF GetAnswered
  <2>2. a \in [request : Int, answer : {"none", "automatic", "manual"}]
        /\ a.request = g.request /\ a.answer = Mode
    BY <1>4 DEF Mode
  <2> HIDE DEF a
  <2>3. GetsFit'
    BY <1>1, <1>4, <2>1, <2>2 DEF ModeInv, GetsFit
  <2>4. Mode' = Mode
    BY <1>1 DEF Mode
  <2>5. Following => Following'
    BY <1>1, <2>1, <2>2, <2>4 DEF Following
  <2>6. QED
    BY <1>1, <1>2, <1>3, <2>3, <2>5 DEF ModeInv
<1>6. CASE GetArrives(g)
  <2>1. /\ gets' = gets \ {g} /\ g.answer # "none"
        /\ shown' = IF g.request = request THEN g.answer ELSE shown
    BY <1>6 DEF GetArrives
  <2>2. GetsFit'
    BY <1>1, <2>1 DEF ModeInv, GetsFit
  <2>3. Mode' = Mode
    BY <1>1 DEF Mode
  <2>4. Following => Following'
    BY <1>1, <2>1, <2>3 DEF Following
  <2>5. QED
    BY <1>1, <1>2, <1>3, <2>2, <2>4 DEF ModeInv
<1>7. QED
  BY <1>5, <1>6

\* A change is queued; its request is the newest.
LEMMA ChangeFollows ==
  ASSUME HeightTypes, ModeInv, NEW mode \in {"automatic", "manual"}, ChangeMode(mode)
  PROVE  ModeInv'
<1> DEFINE new == [mode |-> mode, request |-> request', pc |-> "queued", height |-> None]
<1>1. request' = request + 1 /\ mutations' = Append(mutations, new)
      /\ UNCHANGED <<gets, overtaken, shown, reset>>
  BY DEF ChangeMode
<1>2. request \in Int /\ mutations \in Seq(Mutations) /\ Len(mutations) \in Nat
      /\ \A i \in 1..Len(mutations) : mutations[i].request \in Int
                                      /\ mutations[i].request <= request
  BY MutationFacts DEF ModeInv, ChangesAsk
<1>3. new.request = request + 1
  BY <1>1
<1>4. new \in Mutations
  BY <1>1, <1>2 DEF Mutations, None
<1> HIDE DEF new
<1>5. Len(mutations') = Len(mutations) + 1 /\ mutations'[Len(mutations) + 1] = new
      /\ (\A i \in 1..Len(mutations) : mutations'[i] = mutations[i]) /\ mutations' # <<>>
  BY <1>1, <1>2, <1>4, AppendProperties
<1>6. ChangesAsk'
  <2>1. \A i \in 1..Len(mutations') :
           i = Len(mutations) + 1 \/ (i \in 1..Len(mutations) /\ mutations'[i] = mutations[i])
    BY <1>2, <1>5
  <2>2. \A i \in 1..Len(mutations') :
           /\ mutations'[i].request <= request'
           /\ i < Len(mutations') => mutations'[i].request < request'
    BY <1>1, <1>2, <1>3, <1>5, <2>1
  <2>3. mutations'[Len(mutations')].request = request'
    BY <1>1, <1>3, <1>5
  <2>4. QED
    BY <2>2, <2>3 DEF ChangesAsk
<1>7. GetsFit'
  BY <1>1, <1>2 DEF ModeInv, GetsFit
<1>8. Asking'
  BY <1>5 DEF Asking
<1>9. QED
  BY <1>1, <1>6, <1>7, <1>8 DEF ModeInv

\* A command of a change runs: the change is still queued.
LEMMA CommandFollows ==
  ASSUME HeightTypes, ModeInv, Invoke \/ Execute
  PROVE  ModeInv'
<1>1. UNCHANGED <<request, gets, shown, overtaken, drag, reset>> /\ mutations # <<>>
  BY DEF Invoke, Execute
<1>2. mutations \in Seq(Mutations) /\ 1 \in 1..Len(mutations)
  BY <1>1 DEF HeightTypes
<1>3. PICK pc, h : mutations' = [mutations EXCEPT ![1] = [First EXCEPT !.pc = pc, !.height = h]]
  <2>1. CASE Invoke
    BY <2>1 DEF Invoke, First
  <2>2. CASE Execute
    <3>1. mutations' = [mutations EXCEPT ![1].pc = "done"]
      BY <2>2 DEF Execute, SetFirst
    <3>2. First \in Mutations
      BY <1>2 DEF First
    <3>3. [First EXCEPT !.pc = "done", !.height = First.height] = [First EXCEPT !.pc = "done"]
      BY <3>2 DEF Mutations
    <3>4. QED
      BY <3>1, <3>3 DEF First
  <2>3. QED
    BY <2>1, <2>2
<1>4. First \in Mutations /\ [First EXCEPT !.pc = pc, !.height = h].request = First.request
  <2>1. First \in Mutations
    BY <1>2 DEF First
  <2>2. QED
    BY <2>1 DEF Mutations
<1>5. Len(mutations') = Len(mutations) /\ mutations' # <<>>
      /\ \A i \in 1..Len(mutations) : mutations'[i].request = mutations[i].request
  BY <1>2, <1>3, <1>4 DEF First
<1>6. Asking'
  BY <1>5 DEF Asking
<1>7. QED
  BY <1>1, <1>5, <1>6, NothingAsked DEF ModeInv

\* A change settles: the last one asks, unless a drag does when it ends.
LEMMA SettleFollows == ASSUME HeightTypes, ModeInv, Settle PROVE ModeInv'
<1>1. /\ mutations # <<>> /\ mutations' = Tail(mutations)
      /\ UNCHANGED <<shown, overtaken>> /\ reset' \in Resets /\ drag'.pc = drag.pc
      /\ IF First.request = request THEN Asks ELSE UNCHANGED <<request, gets>>
  BY DEF Settle, ModeInv
<1>2. /\ Len(mutations) \in Nat \ {0} /\ Len(mutations') = Len(mutations) - 1
      /\ mutations' \in Seq(Mutations)
      /\ \A i \in 1..Len(mutations') : mutations'[i] = mutations[i + 1] /\ i + 1 \in 1..Len(mutations)
  BY <1>1, HeadTailProperties DEF HeightTypes
<1>3. request \in Int /\ overtaken' \in BOOLEAN /\ GetsFit
      /\ \A i \in 1..Len(mutations) :
            /\ mutations[i].request \in Int /\ mutations[i].request <= request
            /\ i < Len(mutations) => mutations[i].request < request
  BY <1>1, MutationFacts DEF ModeInv, ChangesAsk
<1>4. CASE Len(mutations) = 1 /\ First.request = request
  <2>1. mutations' = <<>> /\ Len(mutations') = 0
    BY <1>2, <1>4
  <2>2. GetsFit' /\ Following'
    BY <1>1, <1>3, <1>4, AsksFollows
  <2>3. ChangesAsk'
    BY <2>1 DEF ChangesAsk
  <2>4. QED
    BY <1>1, <1>3, <2>2, <2>3 DEF ModeInv
<1>5. CASE Len(mutations) = 1 /\ First.request # request
  <2>1. mutations' = <<>> /\ Len(mutations') = 0
    BY <1>2, <1>5
  <2>2. overtaken \/ drag.pc = "ends"
    BY <1>1, <1>5 DEF ModeInv, ChangesAsk, First
  <2>3. GetsFit' /\ (overtaken' \/ Asking')
    BY <1>1, <1>3, <1>5, <2>2 DEF GetsFit, Asking
  <2>4. ChangesAsk'
    BY <2>1 DEF ChangesAsk
  <2>5. QED
    BY <1>1, <1>3, <2>3, <2>4 DEF ModeInv
<1>6. CASE Len(mutations) # 1
  <2>1. First.request # request /\ mutations' # <<>>
    BY <1>2, <1>3, <1>6 DEF First
  <2>2. UNCHANGED <<request, gets>>
    BY <1>1, <2>1
  <2>3. \A i \in 1..Len(mutations') :
           /\ mutations'[i].request <= request'
           /\ i < Len(mutations') => mutations'[i].request < request'
    <3> TAKE i \in 1..Len(mutations')
    <3>1. mutations'[i] = mutations[i + 1] /\ i + 1 \in 1..Len(mutations)
      BY <1>2
    <3>2. i \in Int /\ (i < Len(mutations') => i + 1 < Len(mutations))
      BY <1>2
    <3>3. mutations[i + 1].request \in Int /\ mutations[i + 1].request <= request
          /\ (i + 1 < Len(mutations) => mutations[i + 1].request < request)
      BY <1>3, <3>1
    <3>4. QED
      BY <1>3, <2>2, <3>1, <3>2, <3>3
  <2>4. mutations'[Len(mutations')] = mutations[Len(mutations)]
    <3>1. Len(mutations') \in 1..Len(mutations') /\ Len(mutations') + 1 = Len(mutations)
      BY <1>2, <1>6
    <3>2. QED
      BY <1>2, <3>1
  <2>5. ~overtaken' => mutations'[Len(mutations')].request = request' \/ drag'.pc = "ends"
    BY <1>1, <2>2, <2>4 DEF ModeInv, ChangesAsk
  <2>6. ChangesAsk' /\ Asking'
    BY <2>1, <2>3, <2>5 DEF ChangesAsk, Asking
  <2>7. QED
    <3>1. GetsFit'
      BY <1>3, <2>2 DEF GetsFit
    <3>2. QED
      BY <1>1, <1>3, <2>6, <3>1 DEF ModeInv
<1>7. QED
  BY <1>4, <1>5, <1>6

\* The drag: from its beginning to its end something asks.
LEMMA DragFollows ==
  ASSUME HeightTypes, ModeInv,
         Focus \/ PressGrip \/ BeginActive \/ BeginManual \/ AcceptManual \/ DragEnds
  PROVE  ModeInv'
<1>1. CASE Focus \/ DragEnds
  BY <1>1, AskStep DEF Focus, DragEnds, ModeInv
<1>2. CASE PressGrip
  <2>1. UNCHANGED <<request, gets, shown, overtaken, mutations, automatic, reset>>
        /\ drag.pc = "none" /\ drag'.pc = "waiting"
    BY <1>2 DEF PressGrip, session, NoDrag
  <2>2. Asking' <=> Asking
    BY <2>1 DEF Asking
  <2>3. QED
    BY <2>1, <2>2, NothingAsked DEF ModeInv
<1>3. CASE BeginActive \/ BeginManual
  <2>1. UNCHANGED <<request, gets, shown, overtaken, mutations, reset>> /\ drag.pc # "ends"
    BY <1>3 DEF BeginActive, BeginManual
  <2>2. \E pc \in {"beginning", "begun", "ends"} : drag' = [drag EXCEPT !.pc = pc]
    BY <1>3 DEF BeginActive, BeginManual
  <2>3. Asking'
    BY <1>3, <2>2 DEF BeginActive, BeginManual, Asking
  <2>4. QED
    BY <2>1, <2>3, NothingAsked DEF ModeInv
<1>4. CASE AcceptManual
  <2>1. /\ request' = request + 1 /\ UNCHANGED <<gets, mutations, overtaken, reset>>
        /\ drag' = [drag EXCEPT !.pc = "ends"]
    BY <1>4 DEF AcceptManual
  <2>2. drag'.pc = "ends"
    BY <1>4, <2>1 DEF AcceptManual
  <2>3. request \in Int /\ request' \in Int /\ request' >= request
    BY <2>1 DEF HeightTypes
  <2>4. ChangesAsk'
    BY <2>1, <2>2, <2>3, ChangesStay DEF ModeInv
  <2>5. GetsFit' /\ Asking'
    BY <2>1, <2>2, <2>3 DEF ModeInv, GetsFit, Asking
  <2>6. QED
    BY <2>1, <2>4, <2>5 DEF ModeInv
<1>5. QED
  BY <1>1, <1>2, <1>3, <1>4

\* The reset: from the moment it changes the mode to its end it will ask.
LEMMA ResetFollows ==
  ASSUME HeightTypes, ModeInv,
         ConfirmReset \/ BeginReset \/ ResetSaved \/ Rollback \/ ResetSettles
  PROVE  ModeInv'
<1>0. reset' \in Resets /\ (BeginReset \/ ResetSaved \/ Rollback => reset'.pc \in {"saving", "saved"})
  <2>1. reset \in Resets /\ stored.height \in Int /\ generation \in Nat
    BY DEF ModeInv, HeightTypes, States
  <2>2. CASE BeginReset
    <3>1. generation' \in Int /\ Mode \in {"automatic", "manual"}
      BY <2>1, <2>2 DEF BeginReset, SetAutomatic, Mode
    <3>2. reset' = [pc |-> "saving", height |-> stored.height, generation |-> generation',
                    from |-> Mode]
      BY <2>2 DEF BeginReset
    <3>3. QED
      BY <2>1, <3>1, <3>2 DEF Resets
  <2>3. CASE ResetSettles
    <3>1. reset' = NoReset
      BY <2>3 DEF ResetSettles
    <3>2. QED
      BY <2>3, <3>1 DEF ResetSettles, BeginReset, ResetSaved, Rollback, NoReset, None, Resets
  <2>4. CASE ConfirmReset
    <3>1. reset' = [NoReset EXCEPT !.pc = "begin"]
      BY <2>4 DEF ConfirmReset
    <3>2. QED
      BY <2>4, <3>1 DEF ConfirmReset, BeginReset, ResetSaved, Rollback, NoReset, None, Resets
  <2>5. CASE ResetSaved \/ Rollback
    <3>1. reset' = [reset EXCEPT !.pc = "saved"]
      BY <2>5 DEF ResetSaved, Rollback
    <3>2. QED
      BY <2>1, <3>1 DEF Resets, BeginReset
  <2>6. QED
    BY <2>2, <2>3, <2>4, <2>5
<1>1. CASE ResetSettles
  BY <1>0, <1>1, AskStep DEF ResetSettles
<1>2. CASE ConfirmReset
  <2>1. UNCHANGED <<request, gets, shown, overtaken, mutations, automatic, drag>>
        /\ reset.pc = "none" /\ reset'.pc = "begin"
    BY <1>2 DEF ConfirmReset, session, NoReset, ModeInv, Resets
  <2>2. Asking' <=> Asking
    BY <2>1 DEF Asking
  <2>3. QED
    BY <1>0, <2>1, <2>2, NothingAsked
<1>3. CASE BeginReset \/ ResetSaved \/ Rollback
  <2>1. UNCHANGED <<request, gets, shown, overtaken, mutations, drag>>
    BY <1>3 DEF BeginReset, ResetSaved, Rollback
  <2>2. reset'.pc \in {"saving", "saved"}
    BY <1>0, <1>3
  <2>3. Asking'
    BY <2>2 DEF Asking
  <2>4. QED
    BY <1>0, <2>1, <2>3, NothingAsked
<1>4. QED
  BY <1>1, <1>2, <1>3

LEMMA ModeStep == HeightInv /\ ModeInv /\ [Next]_vars => ModeInv'
<1> SUFFICES ASSUME HeightInv, ModeInv, [Next]_vars PROVE ModeInv'
  OBVIOUS
<1>1. HeightTypes
  BY DEF HeightInv
<1>2. CASE \/ \E h \in Heights : Resized(h)
           \/ WorkerReceives \/ WorkerSaves \/ Finish \/ UNCHANGED vars
  BY <1>1, <1>2, SessionFollows
<1>3. CASE \E g \in gets : GetAnswered(g) \/ GetArrives(g)
  BY <1>1, <1>3, GetsFollow
<1>4. CASE \E mode \in {"automatic", "manual"} : ChangeMode(mode)
  BY <1>1, <1>4, ChangeFollows
<1>5. CASE Invoke \/ Execute \/ Settle
  BY <1>1, <1>5, CommandFollows, SettleFollows
<1>6. CASE Focus \/ PressGrip \/ BeginActive \/ BeginManual \/ AcceptManual \/ DragEnds
  BY <1>1, <1>6, DragFollows
<1>7. CASE ConfirmReset \/ BeginReset \/ ResetSaved \/ Rollback \/ ResetSettles
  BY <1>1, <1>7, ResetFollows
<1>8. QED
  BY <1>2, <1>3, <1>4, <1>5, <1>6, <1>7 DEF Next

LEMMA ModeInitially == Init => ModeInv
<1> SUFFICES ASSUME Init PROVE ModeInv
  OBVIOUS
<1>1. mutations = <<>> /\ gets = {} /\ reset = NoReset /\ shown = Mode /\ overtaken = FALSE
  BY DEF Init
<1>2. Len(mutations) = 0
  BY <1>1
<1>3. reset \in Resets
  BY <1>1 DEF NoReset, None, Resets
<1>4. GetsFit /\ ChangesAsk /\ Following
  BY <1>1, <1>2 DEF GetsFit, ChangesAsk, Following
<1>5. QED
  BY <1>1, <1>3, <1>4 DEF ModeInv

\* When nothing is under way the frontend shows the session's mode, for any number of drags,
\* changes, resets, failures and refreshes that come after each other in any order, unless a
\* refresh was sent while a change was under way (refreshHeightMode, changeHeightMode).
THEOREM ModeIsFollowed == Spec => []ModeIsShown
<1>1. HeightInv /\ ModeInv => ModeIsShown
  BY DEF ModeInv, ModeIsShown, Asking, Following, NoDrag, NoReset
<1>2. Init => HeightInv /\ ModeInv
  BY HeightInitially, ModeInitially
<1>3. HeightInv /\ ModeInv /\ [Next]_vars => HeightInv' /\ ModeInv'
  BY HeightStep, ModeStep
<1>4. QED
  BY <1>1, <1>2, <1>3, PTL DEF Spec

-----------------------------------------------------------------------------
(* The settings (SettingsSync).                                                      *)
Docs == [mine : Nat, theirs : SUBSET Nat]
DocViews == [document : Docs, rev : Int]
Controllers == [shown : DocViews, server : DocViews, parked : DocViews, refresh : BOOLEAN,
                draft : BOOLEAN, moved : BOOLEAN, start : DocViews, external : DocViews]
Kinds == {"save", "reset", "stamp"}
Tasks == [kind : Kinds, document : Docs, seq : Nat, gen : Nat, alone : BOOLEAN]
Phases == {"none", "sent", "written", "emit", "refresh", "answered", "failed", "reload",
           "reloaded"}
Calls == [phase : Phases, expected : Int, view : DocViews, latest : Nat]

SyncTypes ==
  /\ saved \in Docs /\ revision \in Nat /\ other \in {"idle", "written", "emit"}
  /\ events \subseteq DocViews /\ ui \in Controllers
  /\ queue \in Seq(Tasks) /\ call \in Calls
  /\ sequence \in Nat /\ mutationGeneration \in Nat
  /\ reads \subseteq [seq : Nat, view : DocViews]
  /\ made \in [edits : Nat, changes : Nat] /\ wanted \in Nat /\ restored \in BOOLEAN

\* One writer at a time: between the new document and its revision nobody else writes.
Writing == other = "written" \/ S!At("written")
CallFits ==
  /\ queue = <<>> <=> call.phase = "none"
  /\ ~(other = "written" /\ S!At("written"))

\* The queue: numbered in order; only a task that found it empty is alone; all are of the
\* generation of now, but behind a failure those queued before it.
Failed == call.phase \in {"reload", "reloaded"}
QueueFits ==
  /\ \A i \in 1..Len(queue) :
       /\ queue[i].seq = sequence - Len(queue) + i
       /\ i # 1 => ~queue[i].alone
       /\ ~Failed => queue[i].gen = mutationGeneration
       /\ Failed => queue[i].gen <= mutationGeneration
                    /\ (queue[i].gen = mutationGeneration <=> queue[i].seq > call.latest)
  /\ Failed => queue[1].seq <= call.latest /\ call.latest <= sequence

\* A state that is under way or kept: what is saved, or an older one.
Genuine(v) == v.rev <= revision /\ (v.rev = revision /\ ~Writing => v.document = saved)
Sound(u) ==
  /\ Genuine(u.server) /\ Genuine(u.parked) /\ Genuine(u.external)
  /\ u.shown.rev <= u.server.rev
ViewsFit ==
  /\ \A v \in events : Genuine(v)
  /\ \A r \in reads : Genuine(r.view)
  /\ Sound(ui) /\ Genuine(call.view)
  /\ call.phase \in {"answered", "reloaded"} => ui.server.rev <= call.view.rev

\* Without a mutation the frontend shows the state it knows, but for a gesture under way.
Agrees(u, lax) ==
  /\ u.shown.rev = u.server.rev
  /\ ~lax => /\ u.shown.document.theirs = u.server.document.theirs
             /\ ~(u.draft /\ u.moved) => u.shown.document = u.server.document
IdleFits == queue = <<>> => Agrees(ui, restored)

\* The last revision has reached the frontend or is on its way.
Knows(u, idle) ==
  \/ u.server.rev = revision
  \/ ~idle /\ u.refresh /\ u.parked.rev = revision
  \/ u.draft /\ u.external.rev = revision
Reaches ==
  other = "emit" \/ S!At("emit") \/ (\E v \in events : v.rev = revision) \/ Knows(ui, queue = <<>>)

\* A save that waits for nobody holds the changes of the state whose revision it sends.
AloneFits ==
  queue # <<>> /\ call.phase = "sent" =>
    /\ call.expected = ui.server.rev
    /\ queue[1].kind = "save" /\ queue[1].alone /\ ~restored =>
         queue[1].document.theirs = ui.server.document.theirs

\* The edit wanted is the last of those that are not saved yet, or the one saved.
Ahead(i) ==
  /\ queue[i].kind # "stamp" /\ queue[i].gen = mutationGeneration
  /\ i = 1 => call.phase \in {"sent", "failed"}
EditFits ==
  \/ wanted \in refused
  \/ saved.mine = wanted /\ \A i \in 1..Len(queue) : ~Ahead(i)
  \/ \E i \in 1..Len(queue) :
       /\ Ahead(i) /\ queue[i].document.mine = wanted
       /\ \A j \in 1..Len(queue) : Ahead(j) => j <= i

SyncInv ==
  SyncTypes /\ CallFits /\ QueueFits /\ ViewsFit /\ IdleFits /\ Reaches /\ AloneFits /\ EditFits
-----------------------------------------------------------------------------
\* The controller's operators: what they make of its state.
Same(u, w) == w.draft = u.draft /\ w.moved = u.moved /\ w.start = u.start

\* What setState does to the controller, field by field.
LEMMA SetStateIs ==
  ASSUME NEW u \in Controllers, NEW v \in DocViews
  PROVE  /\ S!SetState(u, v, TRUE) \in Controllers
         /\ ~(v.rev >= u.shown.rev) => S!SetState(u, v, TRUE) = u
         /\ v.rev >= u.shown.rev =>
              S!SetState(u, v, TRUE) =
                [u EXCEPT !.shown = v, !.server = IF v.rev >= u.server.rev THEN v ELSE @]
<1>1. CASE ~(v.rev >= u.shown.rev)
  BY <1>1 DEF S!SetState, S!DoesNotPrecede
<1>2. CASE v.rev >= u.shown.rev
  <2>1. S!SetState(u, v, TRUE) = S!RecordServerState(S!Show(u, v), v)
    BY <1>2 DEF S!SetState, S!DoesNotPrecede
  <2>2. S!Show(u, v) = [u EXCEPT !.shown = v]
    BY <1>2 DEF S!Show, S!DoesNotPrecede
  <2>3. S!SetState(u, v, TRUE) =
          [u EXCEPT !.shown = v, !.server = IF v.rev >= u.server.rev THEN v ELSE @]
    BY <2>1, <2>2 DEF S!RecordServerState, S!DoesNotPrecede, Controllers
  <2>4. [u EXCEPT !.shown = v, !.server = IF v.rev >= u.server.rev THEN v ELSE @] \in Controllers
    BY DEF Controllers
  <2>5. QED
    BY <1>2, <2>3, <2>4
<1>3. QED
  BY <1>1, <1>2

Takes(u, v, w) ==
  /\ w \in Controllers
  /\ w.shown = IF v.rev >= u.shown.rev THEN v ELSE u.shown
  /\ w.server = IF v.rev >= u.shown.rev /\ v.rev >= u.server.rev THEN v ELSE u.server
  /\ Same(u, w) /\ w.refresh = u.refresh /\ w.parked = u.parked /\ w.external = u.external

\* So its fields, whether it takes the state or not.
LEMMA SetStateFields ==
  ASSUME NEW u \in Controllers, NEW v \in DocViews, NEW w \in Controllers,
         ~(v.rev >= u.shown.rev) => w = u,
         v.rev >= u.shown.rev =>
           w = [u EXCEPT !.shown = v, !.server = IF v.rev >= u.server.rev THEN v ELSE @]
  PROVE  Takes(u, v, w)
<1>1. CASE ~(v.rev >= u.shown.rev)
  BY <1>1 DEF Takes, Same
<1>2. CASE v.rev >= u.shown.rev /\ v.rev >= u.server.rev
  BY <1>2 DEF Takes, Same, Controllers
<1>3. CASE v.rev >= u.shown.rev /\ ~(v.rev >= u.server.rev)
  BY <1>3 DEF Takes, Same, Controllers
<1>4. QED
  BY <1>1, <1>2, <1>3

\* setState shows a state unless it is older than the one shown.
LEMMA SetStateTakes ==
  ASSUME NEW u \in Controllers, NEW v \in DocViews
  PROVE  Takes(u, v, S!SetState(u, v, TRUE))
  BY SetStateIs, SetStateFields, Zenon

\* An idle controller takes a state that is not older than its own.
LEMMA TakesKeeps ==
  ASSUME NEW u \in Controllers, NEW v \in DocViews, NEW lax \in BOOLEAN, NEW w, Takes(u, v, w),
         Sound(u), Agrees(u, lax), Genuine(v)
  PROVE  /\ Sound(w) /\ Agrees(w, lax)
         /\ u.server.rev <= w.server.rev /\ v.rev <= w.server.rev
<1>1. u.shown.rev = u.server.rev /\ u.shown.rev \in Int /\ v.rev \in Int
  BY DEF Agrees, Controllers, DocViews
<1>2. Same(u, w) /\ w.refresh = u.refresh /\ w.parked = u.parked /\ w.external = u.external
  BY DEF Takes
<1>3. CASE ~(v.rev >= u.shown.rev)
  <2>1. w.shown = u.shown /\ w.server = u.server
    BY <1>3 DEF Takes
  <2>2. QED
    BY <1>1, <1>2, <1>3, <2>1 DEF Same, Sound, Agrees
<1>4. CASE v.rev >= u.shown.rev
  <2>1. w.shown = v /\ w.server = v
    BY <1>1, <1>4 DEF Takes
  <2>2. QED
    BY <1>1, <1>2, <1>4, <2>1 DEF Sound, Agrees
<1>5. QED
  BY <1>3, <1>4

\* What acceptExternalState does with a state: a gesture keeps it, a mutation parks it.
LEMMA AcceptKeeps ==
  ASSUME NEW u \in Controllers, NEW v \in DocViews, NEW idle \in BOOLEAN, NEW lax \in BOOLEAN,
         NEW w, w = S!AcceptExternalState(u, v, idle),
         Sound(u), Genuine(v), idle => Agrees(u, lax), revision \in Nat
  PROVE  /\ w \in Controllers /\ Sound(w) /\ (idle => Agrees(w, lax))
         /\ Same(u, w) /\ (~idle => w.server = u.server)
         /\ Knows(u, idle) \/ v.rev = revision => Knows(w, idle)
<1>1. u.server.rev \in Int /\ u.parked.rev \in Int /\ u.external.rev \in Int /\ v.rev \in Int
      /\ u.server.rev <= revision /\ u.parked.rev <= revision /\ u.external.rev <= revision
      /\ v.rev <= revision
  BY DEF Controllers, DocViews, Sound, Genuine
<1>2. CASE u.draft
  <2>1. w = IF v.rev >= u.external.rev THEN [u EXCEPT !.external = v] ELSE u
    BY <1>2 DEF S!AcceptExternalState, S!DoesNotPrecede
  <2>2. w \in Controllers /\ w.shown = u.shown /\ w.server = u.server /\ w.parked = u.parked
        /\ w.refresh = u.refresh /\ Same(u, w)
        /\ w.external = IF v.rev >= u.external.rev THEN v ELSE u.external
    BY <2>1 DEF Controllers, Same
  <2>3. Sound(w) /\ (Agrees(u, lax) => Agrees(w, lax))
    BY <2>2 DEF Sound, Agrees, Same
  <2>4. Knows(u, idle) \/ v.rev = revision => Knows(w, idle)
    BY <1>1, <1>2, <2>2 DEF Knows, Same
  <2>5. QED
    BY <2>2, <2>3, <2>4
<1>3. CASE ~u.draft /\ idle
  <2>1. w = S!SetState(u, v, TRUE)
    BY <1>3 DEF S!AcceptExternalState
  <2>2. /\ Takes(u, v, w) /\ w \in Controllers /\ Same(u, w)
    <3>1. Takes(u, v, w)
      BY <2>1, SetStateTakes, Zenon
    <3>2. QED
      BY <3>1 DEF Takes
  <2>6. /\ Sound(w) /\ Agrees(w, lax) /\ u.server.rev <= w.server.rev /\ v.rev <= w.server.rev
    BY <1>3, <2>2, TakesKeeps
  <2>3. w.server.rev \in Int /\ w.server.rev <= revision
    BY <2>2, <2>6 DEF Controllers, DocViews, Sound, Genuine
  <2>4. Knows(u, idle) \/ v.rev = revision => Knows(w, idle)
    <3>1. v.rev = revision => w.server.rev = revision
      BY <1>1, <2>3, <2>6
    <3>2. u.server.rev = revision => w.server.rev = revision
      BY <1>1, <2>3, <2>6
    <3>3. QED
      BY <1>3, <3>1, <3>2 DEF Knows
  <2>5. QED
    BY <1>3, <2>2, <2>4, <2>6
<1>4. CASE ~u.draft /\ ~idle
  <2>1. w = [u EXCEPT !.parked = IF v.rev >= u.parked.rev THEN v ELSE u.parked, !.refresh = TRUE]
    BY <1>4 DEF S!AcceptExternalState, S!DoesNotPrecede, Controllers
  <2>2. w \in Controllers /\ w.shown = u.shown /\ w.server = u.server /\ w.refresh = TRUE
        /\ w.external = u.external /\ Same(u, w)
        /\ w.parked = IF v.rev >= u.parked.rev THEN v ELSE u.parked
    BY <2>1 DEF Controllers, Same
  <2>3. Sound(w)
    BY <2>2 DEF Sound
  <2>4. Knows(u, idle) \/ v.rev = revision => Knows(w, idle)
    BY <1>1, <1>4, <2>2 DEF Knows, Same
  <2>5. QED
    BY <1>4, <2>2, <2>3, <2>4
<1>5. QED
  BY <1>2, <1>3, <1>4

\* No view is older than every view.
LEMMA NoViewIs == S!NoView \in DocViews /\ S!NoView.rev = -1
  BY DEF S!NoView, S!View, S!Document, DocViews, Docs

\* No view shows what was never saved.
LEMMA NoViewGenuine == ASSUME revision \in Nat PROVE Genuine(S!NoView)
  BY NoViewIs DEF Genuine

\* When the queue is drained the controller is idle: it takes what was parked.
LEMMA DrainedKeeps ==
  ASSUME NEW u \in Controllers, NEW lax \in BOOLEAN, NEW w, w = S!Drained(u),
         Sound(u), Agrees(u, lax), revision \in Nat
  PROVE  /\ w \in Controllers /\ Sound(w) /\ Agrees(w, lax)
         /\ Knows(u, FALSE) => Knows(w, TRUE)
<1> DEFINE calm == [u EXCEPT !.refresh = FALSE, !.parked = S!NoView]
<1>1. /\ calm \in Controllers /\ calm.shown = u.shown /\ calm.server = u.server /\ Same(u, calm)
      /\ calm.external = u.external /\ calm.parked = S!NoView
  BY NoViewIs DEF Controllers, Same
<1> HIDE DEF calm
<1>2. Sound(calm) /\ Agrees(calm, lax)
  BY <1>1, NoViewGenuine DEF Sound, Agrees, Same
<1>3. u.server.rev \in Int /\ u.parked.rev \in Int /\ u.server.rev <= revision
      /\ u.parked.rev <= revision /\ u.parked \in DocViews
  BY DEF Controllers, DocViews, Sound, Genuine
<1>4. CASE u.refresh /\ u.parked.rev > u.server.rev
  <2>1. w = S!SetState(calm, u.parked, TRUE)
    BY <1>4 DEF S!Drained, S!StrictlyFollows, calm
  <2>2. Takes(calm, u.parked, w)
    BY <1>1, <1>3, <2>1, SetStateTakes, Zenon
  <2>3. /\ Sound(w) /\ Agrees(w, lax)
        /\ calm.server.rev <= w.server.rev /\ u.parked.rev <= w.server.rev
    <3>1. Genuine(u.parked)
      BY DEF Sound
    <3>2. QED
      BY <1>1, <1>2, <1>3, <2>2, <3>1, TakesKeeps
  <2>4. w \in Controllers /\ w.external = u.external /\ w.draft = u.draft
    BY <1>1, <2>2 DEF Takes, Same
  <2>5. w.server.rev \in Int /\ w.server.rev <= revision
    BY <2>3, <2>4 DEF Controllers, DocViews, Sound, Genuine
  <2>6. u.server.rev = revision \/ u.parked.rev = revision => w.server.rev = revision
    BY <1>1, <1>3, <2>3, <2>5
  <2>7. Knows(u, FALSE) => Knows(w, TRUE)
    BY <2>4, <2>6 DEF Knows
  <2>8. QED
    BY <2>3, <2>4, <2>7
<1>5. CASE u.refresh /\ ~(u.parked.rev > u.server.rev)
  <2>1. w = calm
    BY <1>5 DEF S!Drained, S!StrictlyFollows, calm
  <2>2. Knows(u, FALSE) => Knows(calm, TRUE)
    BY <1>1, <1>3, <1>5 DEF Knows, Same
  <2>3. QED
    BY <1>1, <1>2, <2>1, <2>2
<1>6. CASE ~u.refresh
  <2>1. w = u
    BY <1>6 DEF S!Drained
  <2>2. Knows(u, FALSE) => Knows(u, TRUE)
    BY <1>6 DEF Knows
  <2>3. QED
    BY <2>1, <2>2
<1>7. QED
  BY <1>4, <1>5, <1>6

\* The end of a gesture: the controller takes the state that came during it.
LEMMA EndDraftKeeps ==
  ASSUME NEW u \in Controllers, NEW idle \in BOOLEAN, NEW lax \in BOOLEAN,
         NEW w, w = S!EndDraft(u, idle), Sound(u), revision \in Nat,
         idle => u.shown.rev = u.server.rev /\ (~lax => u.shown.document = u.server.document)
  PROVE  /\ w \in Controllers /\ Sound(w) /\ (idle => Agrees(w, lax))
         /\ (~idle => w.server = u.server)
         /\ Knows(u, idle) => Knows(w, idle)
<1> DEFINE calm == [u EXCEPT !.draft = FALSE, !.moved = FALSE, !.external = S!NoView,
                             !.start = S!NoView]
<1>1. /\ calm \in Controllers /\ calm.shown = u.shown /\ calm.server = u.server
      /\ calm.external = S!NoView /\ calm.parked = u.parked
  BY NoViewIs DEF Controllers
<1>2. calm.refresh = u.refresh
  BY DEF Controllers
<1> HIDE DEF calm
<1>3. Sound(calm) /\ (idle => Agrees(calm, lax))
  BY <1>1, NoViewGenuine DEF Sound, Agrees
<1>4. Knows(u, idle) => Knows(calm, idle) \/ u.external.rev = revision
  BY <1>1, <1>2 DEF Knows
<1>5. CASE u.external = S!NoView
  <2>1. w = calm
    BY <1>5 DEF S!EndDraft, calm
  <2>2. u.external.rev # revision
    BY <1>5, NoViewIs
  <2>3. QED
    BY <1>1, <1>3, <1>4, <2>1, <2>2
<1>6. CASE u.external # S!NoView
  <2>1. w = S!AcceptExternalState(calm, u.external, idle)
    BY <1>6 DEF S!EndDraft, calm
  <2>2. u.external \in DocViews /\ Genuine(u.external)
    BY DEF Controllers, Sound
  <2>3. /\ w \in Controllers /\ Sound(w) /\ (idle => Agrees(w, lax))
        /\ (~idle => w.server = calm.server)
        /\ Knows(calm, idle) \/ u.external.rev = revision => Knows(w, idle)
    BY <1>1, <1>3, <2>1, <2>2, AcceptKeeps
  <2>4. QED
    BY <1>1, <1>4, <2>3
<1>7. QED
  BY <1>5, <1>6

-----------------------------------------------------------------------------
\* What a step leaves alone, part by part.
LEMMA EditsStay ==
  ASSUME EditFits, UNCHANGED <<queue, mutationGeneration, wanted>>, refused \subseteq refused',
         saved'.mine = saved.mine,
         call'.phase \in {"sent", "failed"} <=> call.phase \in {"sent", "failed"}
  PROVE  EditFits'
<1>1. \A i : Ahead(i)' <=> Ahead(i)
  BY DEF Ahead
<1>2. CASE wanted \in refused
  BY <1>2 DEF EditFits
<1>3. CASE saved.mine = wanted /\ \A i \in 1..Len(queue) : ~Ahead(i)
  BY <1>1, <1>3 DEF EditFits
<1>4. CASE \E i \in 1..Len(queue) :
             /\ Ahead(i) /\ queue[i].document.mine = wanted
             /\ \A j \in 1..Len(queue) : Ahead(j) => j <= i
  BY <1>1, <1>4 DEF EditFits
<1>5. QED
  BY <1>2, <1>3, <1>4 DEF EditFits

\* The queue and what is known of it stay as they are.
LEMMA QueueStays ==
  ASSUME QueueFits, UNCHANGED <<queue, sequence, mutationGeneration>>, Failed' <=> Failed,
         call'.latest = call.latest
  PROVE  QueueFits'
  BY DEF QueueFits

\* A step of the frontend that only moves the controller, events and reads.
LEMMA ControllerStep ==
  ASSUME SyncInv,
         UNCHANGED <<saved, revision, other, queue, call, sequence, mutationGeneration, wanted,
                     refused>>,
         ui' \in Controllers, Sound(ui'), queue = <<>> => Agrees(ui', restored'),
         queue # <<>> => ui'.server = ui.server,
         restored' \in BOOLEAN, restored => restored', made' \in [edits : Nat, changes : Nat],
         events' \subseteq events, reads' \subseteq [seq : Nat, view : DocViews],
         \A r \in reads' : Genuine(r.view),
         (\E v \in events : v.rev = revision) \/ Knows(ui, queue = <<>>) =>
           (\E v \in events' : v.rev = revision) \/ Knows(ui', queue = <<>>)
  PROVE  SyncInv'
<1>1. SyncTypes'
  BY DEF SyncInv, SyncTypes
<1>2. CallFits' /\ QueueFits' /\ (Writing' <=> Writing) /\ (Failed' <=> Failed)
  BY DEF SyncInv, CallFits, QueueFits, Failed, Writing, S!At
<1>3. ViewsFit'
  <2>1. \A v \in events' : Genuine(v)'
    BY <1>2 DEF SyncInv, ViewsFit, Genuine
  <2>2. \A r \in reads' : Genuine(r.view)'
    BY <1>2 DEF Genuine
  <2>3. Sound(ui)'
    BY <1>2 DEF Sound, Genuine
  <2>4. Genuine(call.view)'
    BY <1>2 DEF SyncInv, ViewsFit, Genuine
  <2>5. call.phase \in {"answered", "reloaded"} => ui'.server.rev <= call.view.rev
    BY DEF SyncInv, CallFits, ViewsFit
  <2>6. QED
    BY <2>1, <2>2, <2>3, <2>4, <2>5 DEF ViewsFit
<1>4. IdleFits'
  BY DEF IdleFits
<1>5. Reaches'
  <2>1. Knows(ui', queue = <<>>) => Knows(ui, queue = <<>>)'
    BY DEF Knows
  <2>2. QED
    BY <2>1 DEF SyncInv, Reaches, S!At
<1>6. AloneFits'
  BY DEF SyncInv, AloneFits
<1>7. EditFits'
  BY EditsStay DEF SyncInv
<1>8. QED
  BY <1>1, <1>2, <1>3, <1>4, <1>5, <1>6, <1>7 DEF SyncInv

\* The controller and the views of a state that keeps the invariant.
LEMMA ControllerFacts ==
  ASSUME SyncInv
  PROVE  /\ ui \in Controllers /\ Sound(ui) /\ revision \in Nat /\ restored \in BOOLEAN
         /\ queue = <<>> => Agrees(ui, restored)
         /\ (queue = <<>>) \in BOOLEAN
         /\ \A v \in events : v \in DocViews /\ Genuine(v)
         /\ \A r \in reads : r.view \in DocViews /\ Genuine(r.view)
         /\ made \in [edits : Nat, changes : Nat] /\ reads \subseteq [seq : Nat, view : DocViews]
  BY DEF SyncInv, SyncTypes, ViewsFit, IdleFits

\* The event of a state reaches the frontend.
LEMMA SettingsEventKeeps == ASSUME SyncInv, S!SettingsEvent PROVE SyncInv'
<1>1. PICK v \in events :
           events' = events \ {v} /\ ui' = S!AcceptExternalState(ui, v, queue = <<>>)
  BY DEF S!SettingsEvent
<1>2. /\ UNCHANGED <<saved, revision, other, queue, call, sequence, mutationGeneration, wanted>>
      /\ UNCHANGED <<refused, reads, made, restored>>
  BY DEF S!SettingsEvent, S!backend, S!tasks, S!history
<1>3. /\ ui' \in Controllers /\ Sound(ui') /\ (queue = <<>> => Agrees(ui', restored))
      /\ (queue # <<>> => ui'.server = ui.server)
      /\ Knows(ui, queue = <<>>) \/ v.rev = revision => Knows(ui', queue = <<>>)
  <2> DEFINE idle == queue = <<>>
  <2>1. idle \in BOOLEAN /\ v \in DocViews /\ Genuine(v) /\ (idle => Agrees(ui, restored))
        /\ ui \in Controllers /\ restored \in BOOLEAN /\ revision \in Nat /\ Sound(ui)
    BY <1>1, ControllerFacts
  <2>2. ui' = S!AcceptExternalState(ui, v, idle)
    BY <1>1
  <2> HIDE DEF idle
  <2>3. /\ ui' \in Controllers /\ Sound(ui') /\ (idle => Agrees(ui', restored))
        /\ (~idle => ui'.server = ui.server)
        /\ Knows(ui, idle) \/ v.rev = revision => Knows(ui', idle)
    BY <2>1, <2>2, AcceptKeeps
  <2>4. QED
    BY <2>3 DEF idle
<1>4. (\E x \in events : x.rev = revision) =>
        (\E x \in events' : x.rev = revision) \/ v.rev = revision
  BY <1>1
<1>5. QED
  BY <1>1, <1>2, <1>3, <1>4, ControllerFacts, ControllerStep

\* The answer to a focus, taken only by an idle queue.
LEMMA FocusAnswerKeeps == ASSUME SyncInv, S!FocusAnswer PROVE SyncInv'
<1>1. PICK r \in reads :
           /\ reads' = reads \ {r}
           /\ ui' = IF queue = <<>> /\ r.seq = sequence THEN S!SetState(ui, r.view, TRUE)
                    ELSE [ui EXCEPT !.refresh = TRUE]
  BY DEF S!FocusAnswer
<1>2. /\ UNCHANGED <<saved, revision, other, queue, call, sequence, mutationGeneration, wanted>>
      /\ UNCHANGED <<refused, events, made, restored>>
  BY DEF S!FocusAnswer, S!backend, S!tasks, S!history
<1>3. CASE queue = <<>> /\ r.seq = sequence
  <2>1. Takes(ui, r.view, ui')
    BY <1>1, <1>3, ControllerFacts, SetStateTakes, Zenon
  <2>2. /\ Sound(ui') /\ Agrees(ui', restored) /\ ui.server.rev <= ui'.server.rev
    BY <1>3, <2>1, ControllerFacts, TakesKeeps
  <2>3. ui' \in Controllers /\ ui'.external = ui.external /\ ui'.draft = ui.draft
    BY <2>1 DEF Takes, Same
  <2>4. ui'.server.rev \in Int /\ ui'.server.rev <= revision /\ ui.server.rev \in Int
    BY <2>2, <2>3, ControllerFacts DEF Controllers, DocViews, Sound, Genuine
  <2>5. Knows(ui, queue = <<>>) => Knows(ui', queue = <<>>)
    <3>1. ui.server.rev = revision => ui'.server.rev = revision
      BY <2>2, <2>4, ControllerFacts
    <3>2. QED
      BY <1>3, <2>3, <3>1 DEF Knows
  <2>6. QED
    BY <1>1, <1>2, <1>3, <2>2, <2>3, <2>5, ControllerFacts, ControllerStep
<1>4. CASE ~(queue = <<>> /\ r.seq = sequence)
  <2>1. ui' = [ui EXCEPT !.refresh = TRUE]
    BY <1>1, <1>4
  <2>2. /\ ui' \in Controllers /\ ui'.shown = ui.shown /\ ui'.server = ui.server
        /\ ui'.parked = ui.parked /\ ui'.external = ui.external /\ Same(ui, ui')
        /\ ui'.refresh = TRUE
    BY <2>1, ControllerFacts DEF Controllers, Same
  <2>3. Sound(ui') /\ (Agrees(ui, restored) => Agrees(ui', restored))
    BY <2>2, ControllerFacts DEF Sound, Agrees, Same
  <2>4. Knows(ui, queue = <<>>) => Knows(ui', queue = <<>>)
    BY <2>2 DEF Knows, Same
  <2>5. QED
    BY <1>1, <1>2, <2>2, <2>3, <2>4, ControllerFacts, ControllerStep
<1>5. QED
  BY <1>3, <1>4

\* A gesture begins and moves: the changes of the backend it shows stay those of the server.
LEMMA GestureKeeps == ASSUME SyncInv, S!BeginGesture \/ S!Drag PROVE SyncInv'
<1>1. /\ UNCHANGED <<saved, revision, other, queue, call, sequence, mutationGeneration, wanted>>
      /\ UNCHANGED <<refused, events, reads, restored>>
  BY DEF S!BeginGesture, S!Drag, S!backend, S!tasks, S!history
<1>2. made' \in [edits : Nat, changes : Nat]
  <2>1. CASE S!BeginGesture
    BY <2>1, ControllerFacts DEF S!BeginGesture, S!history
  <2>2. CASE S!Drag
    BY <2>2, ControllerFacts DEF S!Drag, S!CountEdit, S!NewEdit
  <2>3. QED
    BY <2>1, <2>2
<1>3. /\ ui' \in Controllers /\ ui'.server = ui.server /\ ui'.parked = ui.parked
      /\ ui'.external = ui.external /\ ui'.refresh = ui.refresh /\ ui'.draft = TRUE
      /\ ui'.shown.rev = ui.shown.rev
      /\ ui'.shown.document.theirs = ui.shown.document.theirs
      /\ (ui'.draft /\ ui'.moved) \/ (~ui.draft /\ ui'.moved = ui.moved /\ ui'.shown = ui.shown)
  <2>1. CASE S!BeginGesture
    <3>1. ui' = [ui EXCEPT !.draft = TRUE, !.start = ui.shown] /\ ~ui.draft
      BY <2>1 DEF S!BeginGesture
    <3>2. ui \in Controllers
      BY ControllerFacts
    <3>3. /\ ui' \in Controllers /\ ui'.server = ui.server /\ ui'.parked = ui.parked
          /\ ui'.external = ui.external /\ ui'.draft = TRUE /\ ui'.shown = ui.shown
      BY <3>1, <3>2 DEF Controllers
    <3>4. ui'.refresh = ui.refresh /\ ui'.moved = ui.moved
      BY <3>1, <3>2 DEF Controllers
    <3>5. QED
      BY <3>1, <3>3, <3>4
  <2>2. CASE S!Drag
    <3> DEFINE doc == [ui.shown.document EXCEPT !.mine = made.edits + 1]
               view == [ui.shown EXCEPT !.document = doc]
    <3>1. ui' = [ui EXCEPT !.shown = view, !.moved = TRUE] /\ ui.draft
      BY <2>2 DEF S!Drag, S!NewEdit
    <3>2. ui \in Controllers /\ ui.shown \in DocViews /\ ui.shown.document \in Docs
          /\ made.edits + 1 \in Nat
      BY ControllerFacts DEF Controllers, DocViews
    <3>3. doc \in Docs /\ doc.theirs = ui.shown.document.theirs
      BY <3>2 DEF Docs
    <3> HIDE DEF doc
    <3>4. view \in DocViews /\ view.rev = ui.shown.rev /\ view.document = doc
      BY <3>2, <3>3 DEF DocViews
    <3> HIDE DEF view
    <3>5. /\ ui' \in Controllers /\ ui'.server = ui.server /\ ui'.parked = ui.parked
          /\ ui'.external = ui.external /\ ui'.shown = view /\ ui'.moved = TRUE
      BY <3>1, <3>2, <3>4 DEF Controllers
    <3>6. ui'.refresh = ui.refresh /\ ui'.draft = ui.draft
      BY <3>1, <3>2 DEF Controllers
    <3>7. ui.draft = TRUE
      BY <3>1, <3>2 DEF Controllers
    <3>8. QED
      BY <3>3, <3>4, <3>5, <3>6, <3>7
  <2>3. QED
    BY <2>1, <2>2
<1>4. Sound(ui')
  BY <1>3, ControllerFacts DEF Sound
<1>5. queue = <<>> => Agrees(ui', restored')
  BY <1>1, <1>3, ControllerFacts DEF Agrees
<1>6. Knows(ui, queue = <<>>) => Knows(ui', queue = <<>>)
  BY <1>3 DEF Knows
<1>7. QED
  BY <1>1, <1>2, <1>3, <1>4, <1>5, <1>6, ControllerFacts, ControllerStep

\* A cancelled one puts back what it began with; unless that was not the server's state the two
\* agree again.
LEMMA CancelKeeps == ASSUME SyncInv, S!CancelGesture PROVE SyncInv'
<1> DEFINE back == IF ui.moved THEN ui.start.document ELSE ui.shown.document
           view == [ui.shown EXCEPT !.document = back]
           u == [ui EXCEPT !.shown = view]
           idle == queue = <<>>
<1>1. /\ UNCHANGED <<saved, revision, other, queue, call, sequence, mutationGeneration, wanted>>
      /\ UNCHANGED <<refused, events, reads, made>>
  BY DEF S!CancelGesture, S!backend, S!tasks
<1>2. ui' = S!EndDraft(u, idle) /\ restored' = (restored \/ (idle /\ back # ui.server.document))
  BY DEF S!CancelGesture
<1>3. ui \in Controllers /\ ui.shown \in DocViews /\ back \in Docs
  BY ControllerFacts DEF Controllers, DocViews
<1> HIDE DEF back
<1>4. view \in DocViews /\ view.rev = ui.shown.rev /\ view.document = back
  BY <1>3 DEF DocViews
<1> HIDE DEF view
<1>5. /\ u \in Controllers /\ u.server = ui.server /\ u.parked = ui.parked
      /\ u.external = ui.external /\ u.shown = view
  BY <1>3, <1>4 DEF Controllers
<1>6. u.refresh = ui.refresh /\ u.draft = ui.draft
  BY <1>3 DEF Controllers
<1> HIDE DEF u
<1>7. Sound(u) /\ (Knows(ui, idle) => Knows(u, idle))
  BY <1>4, <1>5, <1>6, ControllerFacts DEF Sound, Knows
<1>8. restored' \in BOOLEAN /\ (restored => restored') /\ idle \in BOOLEAN
  BY <1>2, ControllerFacts
<1>9. idle => u.shown.rev = u.server.rev /\ (~restored' => u.shown.document = u.server.document)
  BY <1>2, <1>4, <1>5, ControllerFacts DEF Agrees
<1>10. /\ ui' \in Controllers /\ Sound(ui') /\ (idle => Agrees(ui', restored'))
       /\ (~idle => ui'.server = u.server)
       /\ Knows(u, idle) => Knows(ui', idle)
  <2>1. revision \in Nat /\ u \in Controllers
    BY <1>5, ControllerFacts
  <2>2. ui' = S!EndDraft(u, idle)
    BY <1>2
  <2> HIDE DEF idle
  <2>3. QED
    BY <1>7, <1>8, <1>9, <2>1, <2>2, EndDraftKeeps
<1>11. QED
  BY <1>1, <1>5, <1>7, <1>8, <1>10, ControllerFacts, ControllerStep

\* refreshIfIdle asks, and the backend answers with the state of now.
LEMMA AwaitedIs ==
  ASSUME NEW n \in Nat, revision \in Nat
  PROVE  S!Awaited(n) \in [seq : Nat, view : DocViews] /\ Genuine(S!Awaited(n).view)
  BY NoViewIs, NoViewGenuine DEF S!Awaited

\* The state of now is genuine.
LEMMA CurrentIs ==
  ASSUME SyncInv
  PROVE  S!Current \in DocViews /\ Genuine(S!Current) /\ S!Current.rev = revision
  BY DEF SyncInv, SyncTypes, S!Current, S!View, DocViews, Genuine

LEMMA FocusKeeps == ASSUME SyncInv, S!Focus PROVE SyncInv'
<1>1. /\ UNCHANGED <<saved, revision, other, queue, call, sequence, mutationGeneration, wanted>>
      /\ UNCHANGED <<refused, events, ui, made, restored>>
      /\ reads' = reads \cup {S!Awaited(sequence)}
  BY DEF S!Focus, S!backend, S!tasks, S!history
<1>2. sequence \in Nat
  BY DEF SyncInv, SyncTypes
<1>3. reads' \subseteq [seq : Nat, view : DocViews] /\ \A r \in reads' : Genuine(r.view)
  BY <1>1, <1>2, AwaitedIs, ControllerFacts
<1>4. QED
  BY <1>1, <1>3, ControllerFacts, ControllerStep

\* A read is answered with the state of now.
LEMMA ReadsAnswered ==
  ASSUME SyncInv, NEW r \in reads,
         reads' = (reads \ {r}) \cup {[r EXCEPT !.view = S!Current]},
         UNCHANGED <<saved, revision, other, events, ui, queue, call, sequence,
                     mutationGeneration, made, wanted, refused, restored>>
  PROVE  SyncInv'
<1>1. r \in [seq : Nat, view : DocViews]
  BY ControllerFacts
<1>2. [r EXCEPT !.view = S!Current] \in [seq : Nat, view : DocViews]
      /\ [r EXCEPT !.view = S!Current].view = S!Current
  BY <1>1, CurrentIs
<1>3. reads' \subseteq [seq : Nat, view : DocViews] /\ \A x \in reads' : Genuine(x.view)
  BY <1>2, CurrentIs, ControllerFacts
<1>4. QED
  BY <1>3, ControllerFacts, ControllerStep

-----------------------------------------------------------------------------
\* enqueueMutation: the queue grows at its end.
LEMMA CallIs ==
  ASSUME NEW rev \in Int
  PROVE  S!Call(rev) \in Calls /\ S!Call(rev).phase = "sent" /\ S!Call(rev).expected = rev
         /\ S!Call(rev).view = S!NoView
  BY NoViewIs DEF S!Call, S!NoCall, Calls, Phases

\* The queue with one more task.
LEMMA Enqueued ==
  ASSUME SyncInv, NEW kind \in Kinds, NEW doc \in Docs, S!Enqueue(kind, doc)
  PROVE  /\ sequence' = sequence + 1 /\ mutationGeneration' = mutationGeneration
         /\ queue' \in Seq(Tasks) /\ Len(queue') = Len(queue) + 1 /\ Len(queue) \in Nat
         /\ queue' # <<>>
         /\ \A i \in 1..Len(queue) : queue'[i] = queue[i]
         /\ queue'[Len(queue) + 1].kind = kind /\ queue'[Len(queue) + 1].document = doc
         /\ queue'[Len(queue) + 1].seq = sequence + 1
         /\ queue'[Len(queue) + 1].gen = mutationGeneration
         /\ queue # <<>> => ~queue'[Len(queue) + 1].alone
<1> DEFINE task == [kind |-> kind, document |-> doc, seq |-> sequence + 1,
                    gen |-> mutationGeneration, alone |-> queue = <<>>]
<1>1. sequence' = sequence + 1 /\ mutationGeneration' = mutationGeneration
      /\ queue' = Append(queue, task)
  BY DEF S!Enqueue
<1>2. sequence \in Nat /\ mutationGeneration \in Nat /\ queue \in Seq(Tasks)
  BY DEF SyncInv, SyncTypes
<1>3. task.kind = kind /\ task.document = doc /\ task.seq = sequence + 1
      /\ task.gen = mutationGeneration
  OBVIOUS
<1>4. queue # <<>> => ~task.alone
  OBVIOUS
<1>5. task \in Tasks
  BY <1>2 DEF Tasks
<1> HIDE DEF task
<1>6. /\ queue' \in Seq(Tasks) /\ Len(queue') = Len(queue) + 1 /\ queue' # <<>>
      /\ queue'[Len(queue) + 1] = task /\ \A i \in 1..Len(queue) : queue'[i] = queue[i]
      /\ Len(queue) \in Nat
  BY <1>1, <1>2, <1>5, AppendProperties
<1>7. QED
  BY <1>1, <1>3, <1>4, <1>6

\* A task that finds the queue empty is sent at once.
LEMMA EnqueuedCall ==
  ASSUME SyncInv, NEW kind, NEW doc, S!Enqueue(kind, doc)
  PROVE  /\ call' \in Calls
         /\ queue = <<>> => call'.phase = "sent" /\ call'.expected = ui.server.rev
                            /\ call'.view = S!NoView
         /\ queue # <<>> => call' = call
<1>1. call' = IF queue = <<>> THEN S!Call(ui.server.rev) ELSE call
  BY DEF S!Enqueue
<1>2. call \in Calls /\ ui.server.rev \in Int
  BY DEF SyncInv, SyncTypes, Controllers, DocViews
<1>3. QED
  BY <1>1, <1>2, CallIs

\* What enqueueMutation leaves of the invariant for each kind of task.
LEMMA EnqueueStep ==
  ASSUME SyncInv, NEW kind \in Kinds, NEW doc \in Docs, S!Enqueue(kind, doc),
         UNCHANGED <<saved, revision, other, events, reads, refused, restored>>,
         ui' \in Controllers, Sound(ui'), ui'.server = ui.server,
         Knows(ui, queue = <<>>) => Knows(ui', FALSE),
         made' \in [edits : Nat, changes : Nat],
         wanted' = IF kind = "stamp" THEN wanted ELSE doc.mine,
         kind = "save" /\ queue = <<>> /\ ~restored => doc.theirs = ui.server.document.theirs
  PROVE  SyncInv'
<1>0. PICK n : n = Len(queue) + 1
  OBVIOUS
<1>1. /\ sequence' = sequence + 1 /\ mutationGeneration' = mutationGeneration
      /\ queue' \in Seq(Tasks) /\ Len(queue') = n /\ Len(queue) \in Nat /\ queue' # <<>>
      /\ \A i \in 1..Len(queue) : queue'[i] = queue[i]
      /\ queue'[n].kind = kind /\ queue'[n].document = doc /\ queue'[n].seq = sequence + 1
      /\ queue'[n].gen = mutationGeneration /\ (queue # <<>> => ~queue'[n].alone)
  BY <1>0, Enqueued
<1>2. /\ call' \in Calls
      /\ queue = <<>> => call'.phase = "sent" /\ call'.expected = ui.server.rev
                         /\ call'.view = S!NoView
      /\ queue # <<>> => call' = call
  BY EnqueuedCall
<1>3. SyncTypes'
  BY <1>1, <1>2 DEF SyncInv, SyncTypes, Docs
<1>4. (queue = <<>> <=> call.phase = "none") /\ (queue = <<>> => n = 1) /\ queue \in Seq(Tasks)
      /\ (queue # <<>> => Len(queue) > 0)
  BY <1>0, <1>1 DEF SyncInv, SyncTypes, CallFits
<1>5. CallFits' /\ (Writing' <=> Writing) /\ (Failed' <=> Failed)
  BY <1>1, <1>2, <1>4 DEF SyncInv, CallFits, Writing, Failed, S!At
<1>6. QueueFits'
  <2>1. sequence \in Nat /\ (Failed' <=> Failed)
    BY <1>5 DEF SyncInv, SyncTypes
  <2>2. Failed => queue # <<>> /\ call' = call /\ queue'[1] = queue[1]
    BY <1>1, <1>2, <1>4 DEF Failed
  <2>3. Failed => call.latest \in Nat /\ call.latest <= sequence /\ queue[1].seq <= call.latest
    BY DEF SyncInv, SyncTypes, QueueFits, Calls
  <2>4. ASSUME NEW i \in 1..Len(queue')
        PROVE  /\ queue'[i].seq = sequence' - Len(queue') + i
               /\ i # 1 => ~queue'[i].alone
               /\ ~Failed' => queue'[i].gen = mutationGeneration'
               /\ Failed' => queue'[i].gen <= mutationGeneration'
                             /\ (queue'[i].gen = mutationGeneration' <=>
                                   queue'[i].seq > call'.latest)
    <3>1. CASE i = n
      BY <1>1, <1>4, <1>5, <2>1, <2>2, <2>3, <3>1 DEF SyncInv, SyncTypes
    <3>2. CASE i \in 1..Len(queue)
      <4>1. queue'[i] = queue[i] /\ sequence' - Len(queue') = sequence - Len(queue)
        BY <1>0, <1>1, <2>1, <3>2
      <4>2. queue[i].seq = sequence - Len(queue) + i /\ (i # 1 => ~queue[i].alone)
        BY <3>2 DEF SyncInv, QueueFits
      <4>3. CASE Failed
        BY <1>1, <2>1, <2>2, <3>2, <4>1, <4>2, <4>3 DEF SyncInv, QueueFits
      <4>4. CASE ~Failed
        BY <1>1, <2>1, <3>2, <4>1, <4>2, <4>4 DEF SyncInv, QueueFits
      <4>5. QED
        BY <4>3, <4>4
    <3>3. QED
      BY <1>0, <1>1, <3>1, <3>2
  <2>5. Failed' => queue'[1].seq <= call'.latest /\ call'.latest <= sequence'
    BY <1>1, <1>5, <2>1, <2>2, <2>3
  <2>6. QED
    BY <2>4, <2>5 DEF QueueFits
<1>7. ViewsFit'
  <2>1. \A v \in events' : Genuine(v)'
    BY <1>5 DEF SyncInv, ViewsFit, Genuine
  <2>2. \A r \in reads' : Genuine(r.view)'
    BY <1>5 DEF SyncInv, ViewsFit, Genuine
  <2>3. Sound(ui)'
    BY <1>5 DEF Sound, Genuine
  <2>4. Genuine(call.view)'
    <3>1. CASE queue = <<>>
      BY <1>2, <3>1, NoViewIs DEF SyncInv, SyncTypes, Genuine
    <3>2. CASE queue # <<>>
      BY <1>2, <1>5, <3>2 DEF SyncInv, ViewsFit, Genuine
    <3>3. QED
      BY <3>1, <3>2
  <2>5. call'.phase \in {"answered", "reloaded"} => ui'.server.rev <= call'.view.rev
    BY <1>2 DEF SyncInv, ViewsFit
  <2>6. QED
    BY <2>1, <2>2, <2>3, <2>4, <2>5 DEF ViewsFit
<1>8. IdleFits'
  BY <1>1 DEF IdleFits
<1>9. Reaches'
  <2>1. Knows(ui', FALSE) => Knows(ui, queue = <<>>)'
    BY <1>1 DEF Knows
  <2>2. S!At("emit") => S!At("emit")'
    BY <1>1, <1>2 DEF S!At
  <2>3. QED
    BY <2>1, <2>2 DEF SyncInv, Reaches
<1>10. AloneFits'
  <2>1. CASE queue = <<>>
    BY <1>1, <1>2, <1>4, <2>1 DEF AloneFits
  <2>2. CASE queue # <<>>
    <3>1. queue'[1] = queue[1] /\ call' = call
      BY <1>1, <1>2, <1>4, <2>2
    <3>2. QED
      BY <2>2, <3>1 DEF SyncInv, AloneFits
  <2>3. QED
    BY <2>1, <2>2
<1>11. EditFits'
  <2>1. \A i \in 1..Len(queue) : Ahead(i)' <=> Ahead(i)
    BY <1>1, <1>2, <1>4 DEF Ahead
  <2>2. Ahead(n)' <=> kind # "stamp"
    BY <1>0, <1>1, <1>2, <1>4 DEF Ahead
  <2>3. \A i \in 1..Len(queue') : i \in 1..Len(queue) \/ i = n
    BY <1>0, <1>1
  <2>4. CASE kind = "stamp"
    <3>1. wanted' = wanted /\ refused' = refused /\ saved' = saved
      BY <2>4
    <3>2. CASE wanted \in refused
      BY <3>1, <3>2 DEF EditFits
    <3>3. CASE saved.mine = wanted /\ \A i \in 1..Len(queue) : ~Ahead(i)
      BY <2>1, <2>2, <2>3, <2>4, <3>1, <3>3 DEF EditFits
    <3>4. ASSUME NEW i \in 1..Len(queue), Ahead(i), queue[i].document.mine = wanted,
                 \A j \in 1..Len(queue) : Ahead(j) => j <= i
          PROVE  EditFits'
      <4>1. Ahead(i)' /\ queue'[i].document.mine = wanted' /\ i \in 1..Len(queue')
        BY <1>0, <1>1, <2>1, <3>1, <3>4
      <4>2. \A j \in 1..Len(queue') : Ahead(j)' => j <= i
        BY <2>1, <2>2, <2>3, <2>4, <3>4
      <4>3. QED
        BY <4>1, <4>2 DEF EditFits
    <3>5. QED
      BY <3>2, <3>3, <3>4 DEF SyncInv, EditFits
  <2>5. CASE kind # "stamp"
    <3>1. Ahead(n)' /\ queue'[n].document.mine = wanted' /\ n \in 1..Len(queue')
      BY <1>0, <1>1, <2>2, <2>5
    <3>2. \A j \in 1..Len(queue') : j <= n
      BY <1>0, <1>1
    <3>3. QED
      BY <3>1, <3>2 DEF EditFits
  <2>6. QED
    BY <2>4, <2>5
<1>12. QED
  BY <1>3, <1>5, <1>6, <1>7, <1>8, <1>9, <1>10, <1>11 DEF SyncInv

\* The user's mutations.  What a save is built on: the state shown, which is the server's if
\* nothing is queued.
LEMMA SaveTaskKeeps == ASSUME SyncInv, S!Save PROVE SyncInv'
<1> DEFINE doc == S!Document(made.edits + 1, ui.shown.document.theirs)
           view == [ui.shown EXCEPT !.document = doc]
<1>1. /\ UNCHANGED <<saved, revision, other, events, reads, refused, restored>>
      /\ S!Enqueue("save", doc) /\ wanted' = made.edits + 1
      /\ ui' = [ui EXCEPT !.shown = view]
      /\ made' = [made EXCEPT !.edits = made.edits + 1]
  BY DEF S!Save, S!backend, S!CountEdit, S!NewEdit
<1>2. ui \in Controllers /\ ui.shown \in DocViews /\ ui.shown.document \in Docs
      /\ made \in [edits : Nat, changes : Nat]
  BY ControllerFacts DEF Controllers, DocViews
<1>3. doc \in Docs /\ doc.mine = made.edits + 1 /\ doc.theirs = ui.shown.document.theirs
  BY <1>2 DEF Docs, S!Document
<1> HIDE DEF doc
<1>4. view \in DocViews /\ view.rev = ui.shown.rev
  BY <1>2, <1>3 DEF DocViews
<1> HIDE DEF view
<1>5. /\ ui' \in Controllers /\ ui'.server = ui.server /\ ui'.parked = ui.parked
      /\ ui'.external = ui.external /\ ui'.shown = view
  BY <1>1, <1>2, <1>4 DEF Controllers
<1>6. ui'.refresh = ui.refresh /\ ui'.draft = ui.draft
  BY <1>1, <1>2 DEF Controllers
<1>7. Sound(ui') /\ (Knows(ui, queue = <<>>) => Knows(ui', FALSE))
  BY <1>4, <1>5, <1>6, ControllerFacts DEF Sound, Knows
<1>8. queue = <<>> /\ ~restored => doc.theirs = ui.server.document.theirs
  BY <1>3, ControllerFacts DEF Agrees
<1>9. made' \in [edits : Nat, changes : Nat] /\ "save" \in Kinds
  BY <1>1, <1>2 DEF Kinds
<1>10. QED
  BY <1>1, <1>3, <1>5, <1>7, <1>8, <1>9, EnqueueStep

LEMMA ResetTaskKeeps == ASSUME SyncInv, S!Reset PROVE SyncInv'
<1> DEFINE doc == S!Document(made.edits + 1, {})
<1>1. /\ UNCHANGED <<saved, revision, other, events, reads, refused, restored, ui>>
      /\ S!Enqueue("reset", doc) /\ wanted' = made.edits + 1
      /\ made' = [made EXCEPT !.edits = made.edits + 1]
  BY DEF S!Reset, S!backend, S!CountEdit, S!NewEdit
<1>2. doc \in Docs /\ doc.mine = made.edits + 1 /\ made' \in [edits : Nat, changes : Nat]
  BY <1>1, ControllerFacts DEF Docs, S!Document
<1> HIDE DEF doc
<1>3. Knows(ui, queue = <<>>) => Knows(ui, FALSE)
  BY DEF Knows
<1>4. QED
  BY <1>1, <1>2, <1>3, ControllerFacts, EnqueueStep DEF Kinds

\* A stamp, and a reset, are queued like a save.
LEMMA StampKeeps == ASSUME SyncInv, S!Stamp PROVE SyncInv'
<1> DEFINE doc == S!Document(0, {made.changes + 1})
<1>1. /\ UNCHANGED <<saved, revision, other, events, reads, refused, restored, ui, wanted>>
      /\ S!Enqueue("stamp", doc)
      /\ made' = [made EXCEPT !.changes = made.changes + 1]
  BY DEF S!Stamp, S!backend
<1>2. doc \in Docs /\ made' \in [edits : Nat, changes : Nat]
  BY <1>1, ControllerFacts DEF Docs, S!Document
<1> HIDE DEF doc
<1>3. Knows(ui, queue = <<>>) => Knows(ui, FALSE)
  BY DEF Knows
<1>4. QED
  BY <1>1, <1>2, <1>3, ControllerFacts, EnqueueStep DEF Kinds

\* A finished gesture ends behind its own save.
LEMMA DropKeeps == ASSUME SyncInv, S!DropGesture PROVE SyncInv'
<1> DEFINE doc == ui.shown.document
<1>1. /\ UNCHANGED <<saved, revision, other, events, reads, refused, restored, made>>
      /\ S!Enqueue("save", doc) /\ wanted' = doc.mine
      /\ ui' = S!EndDraft(ui, FALSE)
  BY DEF S!DropGesture, S!backend
<1>2. doc \in Docs
  BY ControllerFacts DEF Controllers, DocViews
<1>3. /\ ui' \in Controllers /\ Sound(ui') /\ ui'.server = ui.server
      /\ Knows(ui, FALSE) => Knows(ui', FALSE)
  <2>1. \A idle \in BOOLEAN : idle = FALSE =>
           /\ ui' \in Controllers /\ Sound(ui') /\ (~idle => ui'.server = ui.server)
           /\ Knows(ui, idle) => Knows(ui', idle)
    BY <1>1, ControllerFacts, EndDraftKeeps
  <2>2. QED
    BY <2>1
<1>4. Knows(ui, queue = <<>>) => Knows(ui, FALSE)
  BY DEF Knows
<1>5. queue = <<>> /\ ~restored => doc.theirs = ui.server.document.theirs
  BY ControllerFacts DEF Agrees
<1>6. QED
  BY <1>1, <1>2, <1>3, <1>4, <1>5, ControllerFacts, EnqueueStep DEF Kinds

-----------------------------------------------------------------------------
\* The backend.  A state that is older than the new revision, or of the revision that is being
\* written, is genuine still.
LEMMA BackendStep ==
  ASSUME SyncInv, UNCHANGED <<ui, queue, sequence, wanted, restored>>,
         saved' \in Docs, revision' \in Nat, other' \in {"idle", "written", "emit"},
         made' \in [edits : Nat, changes : Nat], mutationGeneration' \in Nat,
         revision' >= revision, revision' = revision /\ ~Writing' => ~Writing /\ saved' = saved,
         \A v \in events' : v \in events \/ (v \in DocViews /\ Genuine(v)'),
         reads' = reads, call' \in Calls, call'.view = call.view \/ Genuine(call.view)',
         call'.phase \in {"answered", "reloaded"} => ui.server.rev <= call'.view.rev,
         call'.phase = "sent" => call' = call,
         CallFits', QueueFits', Reaches', EditFits'
  PROVE  SyncInv'
<1>1. SyncTypes'
  BY DEF SyncInv, SyncTypes
<1>2. \A v \in DocViews : Genuine(v) => Genuine(v)'
  BY DEF SyncInv, SyncTypes, Genuine, DocViews
<1>3. ViewsFit'
  <2>1. \A v \in events' : Genuine(v)'
    BY <1>2, ControllerFacts
  <2>2. \A r \in reads' : Genuine(r.view)'
    BY <1>2, ControllerFacts
  <2>3. Sound(ui)'
    <3>1. ui.server \in DocViews /\ ui.parked \in DocViews /\ ui.external \in DocViews
          /\ ui' = ui
      BY ControllerFacts DEF Controllers
    <3>2. Genuine(ui.server)' /\ Genuine(ui.parked)' /\ Genuine(ui.external)'
      BY <3>1, ControllerFacts
         DEF SyncInv, SyncTypes, Sound, Genuine, DocViews
    <3>3. QED
      BY <3>1, <3>2, ControllerFacts DEF Sound
  <2>4. Genuine(call.view)'
    <3>1. CASE call'.view = call.view
      <4>1. call.view \in DocViews /\ Genuine(call.view)
        BY DEF SyncInv, SyncTypes, Calls, ViewsFit
      <4>2. QED
        BY <3>1, <4>1 DEF SyncInv, SyncTypes, Genuine, DocViews
    <3>2. QED
      BY <3>1
  <2>5. QED
    BY <2>1, <2>2, <2>3, <2>4 DEF ViewsFit
<1>4. IdleFits'
  BY DEF SyncInv, IdleFits
<1>5. AloneFits'
  BY DEF SyncInv, AloneFits
<1>6. QED
  BY <1>1, <1>3, <1>4, <1>5 DEF SyncInv

\* Calls move from phase to phase, and take views.
LEMMA PhaseIs ==
  ASSUME NEW c \in Calls, NEW p \in Phases, NEW d, d = [c EXCEPT !.phase = p]
  PROVE  /\ d \in Calls /\ d.phase = p /\ d.expected = c.expected /\ d.view = c.view
         /\ d.latest = c.latest
  BY DEF Calls

\* A view of what is saved.
LEMMA ViewIs ==
  ASSUME NEW c \in Calls, NEW p \in Phases, NEW v \in DocViews, NEW d,
         d = [c EXCEPT !.phase = p, !.view = v]
  PROVE  d \in Calls /\ d.phase = p /\ d.view = v /\ d.latest = c.latest
  BY DEF Calls

\* What is known of a call under way.
LEMMA CallFacts ==
  ASSUME SyncInv
  PROVE  /\ call \in Calls /\ saved \in Docs /\ other \in {"idle", "written", "emit"}
         /\ mutationGeneration \in Nat /\ sequence \in Nat /\ revision \in Nat
         /\ queue \in Seq(Tasks) /\ (queue # <<>> => queue[1] \in Tasks /\ 1 \in 1..Len(queue))
         /\ made \in [edits : Nat, changes : Nat]
         /\ CallFits /\ QueueFits /\ Reaches /\ EditFits /\ AloneFits
  BY DEF SyncInv, SyncTypes

\* The commit of a save: a new document under the revision to come.
LEMMA CommitKeeps == ASSUME SyncInv, S!Commit PROVE SyncInv'
<1>1. /\ UNCHANGED <<ui, queue, sequence, wanted, restored, revision, other, events>>
      /\ UNCHANGED <<mutationGeneration, reads, made, refused>>
      /\ queue # <<>> /\ call.phase = "sent" /\ other # "written"
      /\ saved' = S!Committed /\ call' = [call EXCEPT !.phase = "written"]
  BY DEF S!Commit, S!history, S!At, S!Committing
<1>2. call' \in Calls /\ call'.phase = "written" /\ call'.view = call.view
      /\ call'.latest = call.latest
  BY <1>1, CallFacts, PhaseIs DEF Phases
<1>3. /\ saved' \in Docs
      /\ saved'.mine = IF queue[1].kind = "stamp" THEN saved.mine ELSE queue[1].document.mine
  <2>1. queue[1].kind \in {"save", "reset", "stamp"} /\ queue[1].document \in Docs /\ saved \in Docs
    BY <1>1, CallFacts DEF Tasks, Kinds
  <2>2. CASE queue[1].kind = "save"
    BY <1>1, <2>1, <2>2 DEF S!Committed, S!Running
  <2>3. CASE queue[1].kind = "reset"
    BY <1>1, <2>1, <2>3 DEF S!Committed, S!Running, Docs
  <2>4. CASE queue[1].kind = "stamp"
    BY <1>1, <2>1, <2>4 DEF S!Committed, S!Running, Docs
  <2>5. QED
    BY <2>1, <2>2, <2>3, <2>4
<1>4. CallFits' /\ Writing'
  BY <1>1, <1>2 DEF CallFits, Writing, S!At
<1>5. QueueFits'
  BY <1>1, <1>2, CallFacts, QueueStays DEF Failed
<1>6. Reaches'
  BY <1>1, <1>2, CallFacts DEF Reaches, S!At, Knows
<1>7. EditFits'
  <2>1. \A i \in 1..Len(queue) : i # 1 => (Ahead(i)' <=> Ahead(i))
    BY <1>1 DEF Ahead
  <2>2. \A i \in 1..Len(queue) : i = 1 => ~Ahead(i)' /\ (Ahead(i) <=> queue[1].kind # "stamp")
    <3>1. queue[1].gen = mutationGeneration
      BY <1>1, CallFacts DEF QueueFits, Failed
    <3>2. QED
      BY <1>1, <1>2, <3>1 DEF Ahead
  <2>3. CASE wanted \in refused
    BY <1>1, <2>3 DEF EditFits
  <2>4. CASE saved.mine = wanted /\ \A i \in 1..Len(queue) : ~Ahead(i)
    <3>1. queue[1].kind = "stamp"
      BY <1>1, <2>2, <2>4, CallFacts
    <3>2. QED
      BY <1>1, <1>3, <2>1, <2>2, <2>4, <3>1 DEF EditFits
  <2>5. ASSUME NEW i \in 1..Len(queue), Ahead(i), queue[i].document.mine = wanted,
               \A j \in 1..Len(queue) : Ahead(j) => j <= i
        PROVE  EditFits'
    <3>1. CASE i = 1
      <4>1. \A j \in 1..Len(queue) : j # 1 => ~Ahead(j)
        BY <2>5, <3>1, CallFacts
      <4>2. saved'.mine = wanted
        BY <1>3, <2>2, <2>5, <3>1
      <4>3. QED
        BY <1>1, <2>1, <2>2, <4>1, <4>2 DEF EditFits
    <3>2. CASE i # 1
      <4>1. Ahead(i)'
        BY <2>1, <2>5, <3>2
      <4>2. \A j \in 1..Len(queue) : Ahead(j)' => j <= i
        BY <2>1, <2>2, <2>5
      <4>3. QED
        BY <1>1, <2>5, <4>1, <4>2 DEF EditFits
    <3>3. QED
      BY <3>1, <3>2
  <2>6. QED
    BY <2>3, <2>4, <2>5, CallFacts DEF EditFits
<1>8. QED
  BY <1>1, <1>2, <1>3, <1>4, <1>5, <1>6, <1>7, CallFacts, BackendStep

\* A commit that fails leaves everything as it was.
LEMMA CommitFailsKeeps == ASSUME SyncInv, S!CommitFails PROVE SyncInv'
<1>1. /\ UNCHANGED <<ui, queue, sequence, wanted, restored, saved, revision, other, events>>
      /\ UNCHANGED <<mutationGeneration, reads, made, refused>>
      /\ queue # <<>> /\ call.phase = "sent"
      /\ call' = [call EXCEPT !.phase = "failed"]
  BY DEF S!CommitFails, S!history, S!backend, S!At
<1>2. call' \in Calls /\ call'.phase = "failed" /\ call'.view = call.view
      /\ call'.latest = call.latest
  BY <1>1, CallFacts, PhaseIs DEF Phases
<1>3. CallFits' /\ (Writing' <=> Writing)
  BY <1>1, <1>2, CallFacts DEF CallFits, Writing, S!At
<1>4. QueueFits'
  BY <1>1, <1>2, CallFacts, QueueStays DEF Failed
<1>5. Reaches'
  BY <1>1, <1>2, CallFacts DEF Reaches, S!At, Knows
<1>6. EditFits'
  BY <1>1, <1>2, CallFacts, EditsStay
<1>7. QED
  BY <1>1, <1>2, <1>3, <1>4, <1>5, <1>6, CallFacts, BackendStep

\* The revision of a document that was written.
LEMMA NextRevisionKeeps == ASSUME SyncInv, S!NextRevision PROVE SyncInv'
<1>1. /\ UNCHANGED <<ui, queue, sequence, wanted, restored, saved, other, events>>
      /\ UNCHANGED <<mutationGeneration, reads, made, refused>>
      /\ queue # <<>> /\ call.phase = "written" /\ revision' = revision + 1
      /\ call' = [call EXCEPT !.phase = "emit"]
  BY DEF S!NextRevision, S!history, S!At
<1>2. call' \in Calls /\ call'.phase = "emit" /\ call'.view = call.view
      /\ call'.latest = call.latest
  BY <1>1, CallFacts, PhaseIs DEF Phases
<1>3. CallFits'
  BY <1>1, <1>2, CallFacts DEF CallFits, S!At
<1>4. QueueFits'
  BY <1>1, <1>2, CallFacts, QueueStays DEF Failed
<1>5. Reaches'
  BY <1>1, <1>2 DEF Reaches, S!At
<1>6. EditFits'
  BY <1>1, <1>2, CallFacts, EditsStay
<1>7. QED
  BY <1>1, <1>2, <1>3, <1>4, <1>5, <1>6, CallFacts, BackendStep

\* The answer of a command is the state of now, at least as new as the one the frontend knows.
LEMMA AnswerFits ==
  ASSUME SyncInv, call' = [call EXCEPT !.phase = "answered", !.view = S!Current],
         UNCHANGED <<saved, revision, other, queue>>, call.phase \in {"emit", "refresh"}
  PROVE  /\ call' \in Calls /\ call'.phase = "answered" /\ call'.latest = call.latest
         /\ Genuine(call.view)' /\ ui.server.rev <= call'.view.rev
         /\ CallFits' /\ (Writing' <=> Writing)
<1>1. S!Current \in DocViews /\ Genuine(S!Current) /\ S!Current.rev = revision
  BY CurrentIs
<1>2. call' \in Calls /\ call'.phase = "answered" /\ call'.view = S!Current
      /\ call'.latest = call.latest
  <2>1. call \in Calls /\ "answered" \in Phases
    BY CallFacts DEF Phases
  <2>2. PICK v \in DocViews : v = S!Current
    BY <1>1
  <2>3. call' = [call EXCEPT !.phase = "answered", !.view = v]
    BY <2>2
  <2>4. QED
    BY <2>1, <2>2, <2>3 DEF Calls
<1>3. CallFits' /\ (Writing' <=> Writing)
  BY <1>2, CallFacts DEF CallFits, Writing, S!At
<1>4. Genuine(call.view)'
  BY <1>1, <1>2, <1>3 DEF Genuine
<1>5. ui.server.rev <= revision
  BY ControllerFacts DEF Sound, Genuine
<1>6. QED
  BY <1>1, <1>2, <1>3, <1>4, <1>5

\* The event of a commit, and of a change from elsewhere.
LEMMA EmitKeeps == ASSUME SyncInv, S!Emit PROVE SyncInv'
<1>1. /\ UNCHANGED <<ui, queue, sequence, wanted, restored, saved, revision, other>>
      /\ UNCHANGED <<mutationGeneration, reads, made, refused>>
      /\ queue # <<>> /\ call.phase = "emit" /\ events' = events \cup {S!Current}
      /\ \/ call' = [call EXCEPT !.phase = "refresh"]
         \/ call' = [call EXCEPT !.phase = "answered", !.view = S!Current]
  BY DEF S!Emit, S!history, S!backend, S!At
<1>2. /\ call' \in Calls /\ call'.phase \in {"refresh", "answered"} /\ call'.latest = call.latest
      /\ call'.view = call.view \/ Genuine(call.view)'
      /\ call'.phase = "answered" => ui.server.rev <= call'.view.rev
      /\ CallFits' /\ (Writing' <=> Writing)
  <2>1. CASE call' = [call EXCEPT !.phase = "refresh"]
    <3>1. call' \in Calls /\ call'.phase = "refresh" /\ call'.view = call.view
          /\ call'.latest = call.latest
      BY <2>1, CallFacts, PhaseIs DEF Phases
    <3>2. CallFits' /\ (Writing' <=> Writing)
      BY <1>1, <3>1, CallFacts DEF CallFits, Writing, S!At
    <3>3. QED
      BY <3>1, <3>2
  <2>2. CASE call' = [call EXCEPT !.phase = "answered", !.view = S!Current]
    BY <1>1, <2>2, AnswerFits
  <2>3. QED
    BY <1>1, <2>1, <2>2
<1>3. S!Current \in DocViews /\ S!Current.rev = revision /\ Genuine(S!Current)
  BY CurrentIs
<1>4. \A v \in events' : v \in events \/ (v \in DocViews /\ Genuine(v)')
  BY <1>1, <1>2, <1>3 DEF Genuine
<1>5. Reaches'
  BY <1>1, <1>3 DEF Reaches
<1>6. QueueFits'
  BY <1>1, <1>2, CallFacts, QueueStays DEF Failed
<1>7. EditFits'
  BY <1>1, <1>2, CallFacts, EditsStay
<1>8. QED
  BY <1>1, <1>2, <1>4, <1>5, <1>6, <1>7, CallFacts, BackendStep

\* The answer of a command.
LEMMA AnswerSaveKeeps == ASSUME SyncInv, S!AnswerSave PROVE SyncInv'
<1>1. /\ UNCHANGED <<ui, queue, sequence, wanted, restored, saved, revision, other, events>>
      /\ UNCHANGED <<mutationGeneration, reads, made, refused>>
      /\ queue # <<>> /\ call.phase = "refresh"
      /\ call' = [call EXCEPT !.phase = "answered", !.view = S!Current]
  BY DEF S!AnswerSave, S!history, S!backend, S!At
<1>2. /\ call' \in Calls /\ call'.phase = "answered" /\ call'.latest = call.latest
      /\ Genuine(call.view)' /\ ui.server.rev <= call'.view.rev
      /\ CallFits' /\ (Writing' <=> Writing)
  BY <1>1, AnswerFits
<1>3. Reaches'
  BY <1>1, <1>2, CallFacts DEF Reaches, S!At, Knows
<1>4. QueueFits'
  BY <1>1, <1>2, CallFacts, QueueStays DEF Failed
<1>5. EditFits'
  BY <1>1, <1>2, CallFacts, EditsStay
<1>6. QED
  BY <1>1, <1>2, <1>3, <1>4, <1>5, CallFacts, BackendStep

\* A change that comes from elsewhere; it leaves the edited part alone.
LEMMA ChangesKeep ==
  ASSUME SyncInv, S!Change \/ S!ChangeRevision \/ S!ChangeEmitted
  PROVE  SyncInv'
<1>1. UNCHANGED <<ui, queue, call, sequence, wanted, restored, mutationGeneration, reads, refused>>
  BY DEF S!Change, S!ChangeRevision, S!ChangeEmitted, S!history, S!tasks
<1>2. QueueFits'
  BY <1>1, CallFacts, QueueStays DEF Failed
<1>3. CASE S!Change
  <2>1. /\ revision' = revision /\ events' = events /\ other = "idle" /\ other' = "written"
        /\ ~S!At("written")
        /\ made' = [made EXCEPT !.changes = @ + 1]
        /\ saved' = [saved EXCEPT !.theirs = @ \cup {made.changes + 1}]
    BY <1>3 DEF S!Change, S!CommandHeld
  <2>2. made' \in [edits : Nat, changes : Nat] /\ saved' \in Docs /\ saved'.mine = saved.mine
    BY <2>1, CallFacts DEF Docs
  <2>3. CallFits' /\ Writing'
    BY <1>1, <2>1, CallFacts DEF CallFits, Writing, S!At
  <2>4. Reaches'
    BY <1>1, <2>1, CallFacts DEF Reaches, S!At, Knows
  <2>5. EditFits'
    BY <1>1, <2>2, CallFacts, EditsStay
  <2>6. QED
    BY <1>1, <1>2, <2>1, <2>2, <2>3, <2>4, <2>5, CallFacts, BackendStep DEF SyncInv, ViewsFit, CallFits
<1>4. CASE S!ChangeRevision
  <2>1. /\ revision' = revision + 1 /\ events' = events /\ other = "written" /\ other' = "emit"
        /\ made' = made /\ saved' = saved
    BY <1>4 DEF S!ChangeRevision, S!history
  <2>2. CallFits' /\ Reaches'
    BY <1>1, <2>1, CallFacts DEF CallFits, Reaches, S!At
  <2>3. EditFits'
    BY <1>1, <2>1, CallFacts, EditsStay
  <2>4. QED
    BY <1>1, <1>2, <2>1, <2>2, <2>3, CallFacts, BackendStep DEF SyncInv, ViewsFit, CallFits
<1>5. CASE S!ChangeEmitted
  <2>1. /\ revision' = revision /\ events' = events \cup {S!Current} /\ other = "emit"
        /\ other' = "idle" /\ made' = made /\ saved' = saved
    BY <1>5 DEF S!ChangeEmitted, S!history
  <2>2. S!Current \in DocViews /\ S!Current.rev = revision /\ Genuine(S!Current)
    BY CurrentIs
  <2>3. CallFits' /\ (Writing' <=> Writing)
    BY <1>1, <2>1, CallFacts DEF CallFits, Writing, S!At
  <2>4. \A v \in events' : v \in events \/ (v \in DocViews /\ Genuine(v)')
    BY <2>1, <2>2, <2>3 DEF Genuine
  <2>5. Reaches'
    BY <2>1, <2>2 DEF Reaches
  <2>6. EditFits'
    BY <1>1, <2>1, CallFacts, EditsStay
  <2>7. QED
    BY <1>1, <1>2, <2>1, <2>3, <2>4, <2>5, <2>6, CallFacts, BackendStep DEF SyncInv, ViewsFit, CallFits
<1>6. QED
  BY <1>3, <1>4, <1>5

\* The state is read, for a focus or for the reload.
LEMMA ReadKeeps == ASSUME SyncInv, S!ReadSettings PROVE SyncInv'
<1>1. /\ UNCHANGED <<ui, queue, sequence, wanted, restored, saved, revision, other, events>>
      /\ UNCHANGED <<mutationGeneration, made, refused>>
  BY DEF S!ReadSettings, S!history, S!backend
<1>2. CASE call' = call /\ \E r \in reads : reads' = (reads \ {r}) \cup {[r EXCEPT !.view = S!Current]}
  BY <1>1, <1>2, ReadsAnswered
<1>3. CASE /\ queue # <<>> /\ call.phase = "reload" /\ reads' = reads
           /\ call' = [call EXCEPT !.phase = "reloaded", !.view = S!Current]
  <2>1. S!Current \in DocViews /\ Genuine(S!Current) /\ S!Current.rev = revision
    BY CurrentIs
  <2>2. call' \in Calls /\ call'.phase = "reloaded" /\ call'.view = S!Current
        /\ call'.latest = call.latest
    <3>1. call \in Calls /\ "reloaded" \in Phases
      BY CallFacts DEF Phases
    <3>2. PICK v \in DocViews : v = S!Current
      BY <2>1
    <3>3. call' = [call EXCEPT !.phase = "reloaded", !.view = v]
      BY <1>3, <3>2
    <3>4. QED
      BY <3>1, <3>2, <3>3 DEF Calls
  <2>3. CallFits' /\ (Writing' <=> Writing)
    BY <1>1, <1>3, <2>2, CallFacts DEF CallFits, Writing, S!At
  <2>4. Genuine(call.view)' /\ ui.server.rev <= call'.view.rev
    BY <1>1, <2>1, <2>2, <2>3, ControllerFacts DEF Sound, Genuine
  <2>5. Reaches'
    BY <1>1, <1>3, <2>2, CallFacts DEF Reaches, S!At, Knows
  <2>6. QueueFits'
    BY <1>1, <1>3, <2>2, CallFacts, QueueStays DEF Failed
  <2>7. EditFits'
    BY <1>1, <1>3, <2>2, CallFacts, EditsStay
  <2>8. QED
    BY <1>1, <1>3, <2>2, <2>3, <2>4, <2>5, <2>6, <2>7, CallFacts, BackendStep
<1>4. QED
  BY <1>2, <1>3 DEF S!ReadSettings, S!At

\* A failure: everything queued is of an earlier generation now, and refused.
LEMMA FailureKeeps == ASSUME SyncInv, S!Failure PROVE SyncInv'
<1>1. /\ UNCHANGED <<ui, queue, sequence, wanted, restored, saved, revision, other, events>>
      /\ UNCHANGED <<reads, made>>
      /\ queue # <<>> /\ call.phase = "failed" /\ mutationGeneration' = mutationGeneration + 1
      /\ call' = [call EXCEPT !.phase = "reload", !.latest = sequence]
      /\ refused' = refused \cup {queue[i].document.mine : i \in 1..Len(queue)}
  BY CallFacts DEF S!Failure, S!backend, S!At, S!ToSet
<1>2. call' \in Calls /\ call'.phase = "reload" /\ call'.view = call.view /\ call'.latest = sequence
  BY <1>1, CallFacts DEF Calls, Phases
<1>3. CallFits' /\ (Writing' <=> Writing)
  BY <1>1, <1>2, CallFacts DEF CallFits, Writing, S!At
<1>4. \A i \in 1..Len(queue) : queue[i].gen = mutationGeneration /\ queue[i] \in Tasks
                               /\ queue[i].seq = sequence - Len(queue) + i
  BY <1>1, CallFacts DEF QueueFits, Failed
<1>5. QueueFits'
  <2>1. \A i \in 1..Len(queue) : queue[i].seq <= sequence /\ queue[i].seq \in Nat
    BY <1>4, CallFacts DEF Tasks
  <2>2. \A i \in 1..Len(queue) : i # 1 => ~queue[i].alone
    BY CallFacts DEF QueueFits
  <2>3. \A i \in 1..Len(queue) :
           /\ queue[i].gen <= mutationGeneration'
           /\ queue[i].gen # mutationGeneration' /\ ~(queue[i].seq > sequence)
    BY <1>1, <1>4, <2>1, CallFacts
  <2>4. Failed'
    BY <1>2 DEF Failed
  <2>5. QED
    BY <1>1, <1>2, <1>4, <2>1, <2>2, <2>3, <2>4, CallFacts DEF QueueFits
<1>6. Reaches'
  BY <1>1, <1>2, CallFacts DEF Reaches, S!At, Knows
<1>7. EditFits'
  <2>1. \A i \in 1..Len(queue) : ~Ahead(i)'
    BY <1>1, <1>4, CallFacts DEF Ahead
  <2>2. \A i \in 1..Len(queue) : queue[i].document.mine \in refused'
    BY <1>1
  <2>3. QED
    BY <1>1, <2>1, <2>2, CallFacts DEF EditFits
<1>8. QED
  BY <1>1, <1>2, <1>3, <1>5, <1>6, <1>7, CallFacts, BackendStep

-----------------------------------------------------------------------------
\* What comes back: the head is done, and what is left of the queue goes on.

\* The tasks dropped are the head and those behind a failure; they are the first.
LEMMA RestIs ==
  ASSUME SyncInv, queue # <<>>, call.phase \in {"answered", "reloaded"}, NEW rest,
         rest = S!Uncancelled(Tail(queue), mutationGeneration)
  PROVE  \E k \in 1..Len(queue) :
           /\ rest \in Seq(Tasks) /\ Len(rest) = Len(queue) - k
           /\ \A i \in 1..Len(rest) : rest[i] = queue[i + k]
           /\ \A i \in 1..Len(queue) : i > k <=> i # 1 /\ queue[i].gen = mutationGeneration
<1>1. PICK t \in Seq(Tasks) : t = Tail(queue)
  BY CallFacts, HeadTailProperties
<1>2. Len(queue) \in Nat \ {0} /\ Len(t) = Len(queue) - 1
      /\ \A i \in 1..Len(t) : t[i] = queue[i + 1]
  BY <1>1, CallFacts, HeadTailProperties
<1> DEFINE P(n) == \A i \in 1..Len(t) : t[i].gen = mutationGeneration <=> i > n
           older == CHOOSE n \in 0..Len(t) : P(n)
<1>3. \E n \in 0..Len(t) : P(n)
  <2>1. \A i \in 1..Len(t) : i + 1 \in 1..Len(queue)
    BY <1>2
  <2>2. CASE call.phase = "answered"
    <3>1. P(0)
      BY <1>2, <2>1, <2>2, CallFacts DEF QueueFits, Failed
    <3>2. 0 \in 0..Len(t)
      BY <1>2
    <3>3. QED
      BY <3>1, <3>2
  <2>3. CASE call.phase = "reloaded"
    <3>1. /\ \A i \in 1..Len(queue) : queue[i].seq = sequence - Len(queue) + i
             /\ (queue[i].gen = mutationGeneration <=> queue[i].seq > call.latest)
          /\ queue[1].seq <= call.latest /\ call.latest <= sequence
      BY <2>3, CallFacts DEF QueueFits, Failed
    <3>2. call.latest \in Nat /\ sequence \in Nat
      BY CallFacts DEF Calls
    <3>3. PICK n \in Int : n = call.latest - sequence + Len(queue) - 1
      BY <1>2, <3>2
    <3>4. n \in 0..Len(t)
      <4>1. queue[1].seq = sequence - Len(queue) + 1
        BY <1>2, <3>1
      <4>2. QED
        BY <1>2, <3>1, <3>2, <3>3, <4>1
    <3>5. ASSUME NEW i \in 1..Len(t) PROVE t[i].gen = mutationGeneration <=> i > n
      <4>1. t[i] = queue[i + 1] /\ i + 1 \in 1..Len(queue)
        BY <1>2, <2>1
      <4>2. queue[i + 1].seq = sequence - Len(queue) + (i + 1)
            /\ (queue[i + 1].gen = mutationGeneration <=> queue[i + 1].seq > call.latest)
        BY <3>1, <4>1
      <4>3. QED
        BY <1>2, <3>2, <3>3, <4>1, <4>2
    <3>6. QED
      BY <3>4, <3>5
  <2>4. QED
    BY <2>2, <2>3
<1>4. older \in 0..Len(t) /\ P(older)
  BY <1>3
<1>5. rest = SubSeq(t, older + 1, Len(t))
  BY <1>1 DEF S!Uncancelled
<1> HIDE DEF older
<1>6. /\ older + 1 \in Int /\ Len(t) \in Int
      /\ \A i \in older + 1..Len(t) : t[i] \in Tasks
  BY <1>1, <1>2, <1>4
<1>7. /\ rest \in Seq(Tasks) /\ Len(rest) = Len(t) - (older + 1) + 1
      /\ \A i \in 1..Len(t) - (older + 1) + 1 : rest[i] = t[(older + 1) + i - 1]
  <2>1. /\ SubSeq(t, older + 1, Len(t)) \in Seq(Tasks)
        /\ Len(SubSeq(t, older + 1, Len(t))) =
             IF older + 1 <= Len(t) THEN Len(t) - (older + 1) + 1 ELSE 0
        /\ \A i \in 1..Len(t) - (older + 1) + 1 :
              SubSeq(t, older + 1, Len(t))[i] = t[(older + 1) + i - 1]
    BY <1>6, SubSeqProperties
  <2>2. ~(older + 1 <= Len(t)) => Len(t) - (older + 1) + 1 = 0
    BY <1>2, <1>4
  <2>3. QED
    BY <1>5, <2>1, <2>2
<1>8. older + 1 \in 1..Len(queue) /\ Len(rest) = Len(queue) - (older + 1)
  BY <1>2, <1>4, <1>7
<1>9. ASSUME NEW i \in 1..Len(rest) PROVE rest[i] = queue[i + (older + 1)]
  <2>1. rest[i] = t[(older + 1) + i - 1] /\ (older + 1) + i - 1 \in 1..Len(t)
    BY <1>2, <1>4, <1>7
  <2>2. (older + 1) + i - 1 + 1 = i + (older + 1)
    BY <1>4
  <2>3. QED
    BY <1>2, <2>1, <2>2
<1>10. ASSUME NEW i \in 1..Len(queue)
       PROVE  i > older + 1 <=> i # 1 /\ queue[i].gen = mutationGeneration
  <2>1. CASE i = 1
    BY <1>4, <2>1
  <2>2. CASE i # 1
    <3>1. i - 1 \in 1..Len(t) /\ (i - 1) + 1 = i
      BY <1>2, <2>2
    <3>2. t[i - 1] = queue[i]
      BY <1>2, <3>1
    <3>3. QED
      BY <1>4, <2>2, <3>1, <3>2
  <2>3. QED
    BY <2>1, <2>2
<1>11. QED
  BY <1>7, <1>8, <1>9, <1>10

\* The controller once the answer is taken, before the queue goes on.
LEMMA ProceedStep ==
  ASSUME SyncInv, queue # <<>>, call.phase \in {"answered", "reloaded"},
         NEW u \in Controllers, S!Proceed(u), Sound(u),
         queue' = <<>> => Agrees(u, restored), Knows(ui, FALSE) => Knows(u, FALSE),
         UNCHANGED <<saved, revision, other, events, made, wanted, refused, restored>>
  PROVE  SyncInv'
<1> DEFINE rest == S!Uncancelled(Tail(queue), mutationGeneration)
<1>1. /\ queue' = rest /\ UNCHANGED <<sequence, mutationGeneration>>
      /\ call' = IF rest = <<>> THEN S!NoCall ELSE S!Call(u.server.rev)
      /\ ui' = IF rest = <<>> THEN S!Drained(u) ELSE u
      /\ reads' \subseteq reads \cup {S!Awaited(sequence)}
  BY DEF S!Proceed
<1>2. PICK k \in 1..Len(queue) :
        /\ queue' \in Seq(Tasks) /\ Len(queue') = Len(queue) - k
        /\ \A i \in 1..Len(queue') : queue'[i] = queue[i + k]
        /\ \A i \in 1..Len(queue) : i > k <=> i # 1 /\ queue[i].gen = mutationGeneration
  BY <1>1, RestIs
<1> HIDE DEF rest
<1>3. Len(queue) \in Nat /\ Len(queue') \in Nat /\ k \in Nat
      /\ \A i \in 1..Len(queue') : i + k \in 1..Len(queue) /\ i + k > k
  BY <1>2, CallFacts
<1>4. \A i \in 1..Len(queue') : i + k # 1 /\ queue[i + k].gen = mutationGeneration
  BY <1>2, <1>3
<1>5. call' \in Calls /\ call'.phase = (IF queue' = <<>> THEN "none" ELSE "sent")
      /\ call'.view = S!NoView /\ (queue' # <<>> => call'.expected = u.server.rev)
  <2>1. u.server.rev \in Int
    BY DEF Controllers, DocViews
  <2>2. S!NoCall \in Calls /\ S!NoCall.phase = "none" /\ S!NoCall.view = S!NoView
    BY NoViewIs DEF S!NoCall, Calls, Phases
  <2>3. S!Call(u.server.rev) \in Calls /\ S!Call(u.server.rev).phase = "sent"
        /\ S!Call(u.server.rev).expected = u.server.rev /\ S!Call(u.server.rev).view = S!NoView
    BY <2>1, CallIs
  <2>4. QED
    BY <1>1, <2>2, <2>3
<1>6. /\ ui' \in Controllers /\ Sound(ui')
      /\ queue' = <<>> => Agrees(ui', restored) /\ (Knows(u, FALSE) => Knows(ui', TRUE))
      /\ queue' # <<>> => ui' = u
  <2>1. CASE queue' = <<>>
    <3>1. ui' = S!Drained(u) /\ Agrees(u, restored)
      BY <1>1, <2>1
    <3>2. revision \in Nat /\ restored \in BOOLEAN
      BY ControllerFacts
    <3>3. QED
      BY <2>1, <3>1, <3>2, DrainedKeeps
  <2>2. CASE queue' # <<>>
    BY <1>1, <2>2
  <2>3. QED
    BY <2>1, <2>2
<1>7. reads' \subseteq [seq : Nat, view : DocViews] /\ \A r \in reads' : Genuine(r.view)
  <2>1. sequence \in Nat /\ revision \in Nat
    BY CallFacts
  <2>2. S!Awaited(sequence) \in [seq : Nat, view : DocViews] /\ Genuine(S!Awaited(sequence).view)
    BY <2>1, AwaitedIs
  <2>3. QED
    BY <1>1, <2>2, ControllerFacts
<1>8. SyncTypes'
  BY <1>1, <1>2, <1>5, <1>6, <1>7 DEF SyncInv, SyncTypes
<1>9. CallFits' /\ (Writing' <=> Writing) /\ ~Failed'
  BY <1>5 DEF CallFits, Writing, Failed, S!At
<1>10. QueueFits'
  <2>1. ASSUME NEW i \in 1..Len(queue')
        PROVE  /\ queue'[i].seq = sequence' - Len(queue') + i
               /\ ~queue'[i].alone
               /\ queue'[i].gen = mutationGeneration'
    <3>1. queue[i + k].seq = sequence - Len(queue) + (i + k) /\ ~queue[i + k].alone
      BY <1>3, <1>4, CallFacts DEF QueueFits
    <3>2. sequence - Len(queue) + (i + k) = sequence' - Len(queue') + i
      BY <1>1, <1>2, <1>3, CallFacts
    <3>3. queue'[i] = queue[i + k] /\ queue[i + k].gen = mutationGeneration'
      BY <1>1, <1>2, <1>4
    <3>4. QED
      BY <3>1, <3>2, <3>3
  <2>2. QED
    BY <1>9, <2>1 DEF QueueFits
<1>11. ViewsFit'
  <2>1. \A v \in events' : Genuine(v)'
    BY <1>9 DEF SyncInv, ViewsFit, Genuine
  <2>2. \A r \in reads' : Genuine(r.view)'
    BY <1>7, <1>9 DEF Genuine
  <2>3. Sound(ui)'
    BY <1>6, <1>9 DEF Sound, Genuine
  <2>4. Genuine(call.view)'
    BY <1>5, NoViewIs, CallFacts DEF Genuine
  <2>5. QED
    BY <1>5, <2>1, <2>2, <2>3, <2>4 DEF ViewsFit
<1>12. IdleFits'
  BY <1>6 DEF IdleFits
<1>13. Reaches'
  <2>1. CASE other = "emit" \/ \E v \in events : v.rev = revision
    BY <2>1 DEF Reaches
  <2>2. CASE Knows(ui, queue = <<>>)
    <3>1. Knows(u, FALSE)
      BY <2>2 DEF Knows
    <3>2. Knows(ui, queue = <<>>)'
      BY <1>6, <3>1 DEF Knows
    <3>3. QED
      BY <3>2 DEF Reaches
  <2>3. QED
    BY <2>1, <2>2, CallFacts DEF Reaches, S!At
<1>14. AloneFits'
  <2>1. queue' # <<>> => ~queue'[1].alone
    <3>1. queue' # <<>> => 1 \in 1..Len(queue')
      BY <1>2
    <3>2. \A i \in 1..Len(queue') : ~queue[i + k].alone
      BY <1>3, <1>4, CallFacts DEF QueueFits
    <3>3. QED
      BY <1>2, <3>1, <3>2
  <2>2. QED
    BY <1>5, <1>6, <2>1 DEF AloneFits
<1>15. EditFits'
  <2>1. \A i \in 1..Len(queue') : Ahead(i)' <=> Ahead(i + k)
    <3>1. ASSUME NEW i \in 1..Len(queue') PROVE Ahead(i)' <=> Ahead(i + k)
      <4>1. queue'[i] = queue[i + k] /\ i + k # 1 /\ queue[i + k].gen = mutationGeneration
            /\ queue' # <<>>
        BY <1>2, <1>4
      <4>2. call'.phase = "sent"
        BY <1>5, <4>1
      <4>3. QED
        BY <1>1, <4>1, <4>2 DEF Ahead
    <3>2. QED
      BY <3>1
  <2>2. \A i \in 1..Len(queue) : Ahead(i) => i > k
    BY <1>2 DEF Ahead
  <2>3. CASE wanted \in refused
    BY <2>3 DEF EditFits
  <2>4. CASE saved.mine = wanted /\ \A i \in 1..Len(queue) : ~Ahead(i)
    BY <1>3, <2>1, <2>4 DEF EditFits
  <2>5. ASSUME NEW j \in 1..Len(queue), Ahead(j), queue[j].document.mine = wanted,
               \A i \in 1..Len(queue) : Ahead(i) => i <= j
        PROVE  EditFits'
    <3>1. PICK i \in 1..Len(queue') : i + k = j
      <4>1. j - k \in 1..Len(queue') /\ (j - k) + k = j
        BY <1>2, <1>3, <2>2, <2>5
      <4>2. QED
        BY <4>1
    <3>2. Ahead(i)' /\ queue'[i].document.mine = wanted'
      BY <1>2, <2>1, <2>5, <3>1
    <3>3. \A l \in 1..Len(queue') : Ahead(l)' => l <= i
      BY <1>3, <2>1, <2>5, <3>1
    <3>4. QED
      BY <3>2, <3>3 DEF EditFits
  <2>6. QED
    BY <2>3, <2>4, <2>5, CallFacts DEF EditFits
<1>16. QED
  BY <1>8, <1>9, <1>10, <1>11, <1>12, <1>13, <1>14, <1>15 DEF SyncInv

\* The state of an answer is not older than the one known; it is shown unless something is
\* queued behind.
LEMMA AnswerTaken ==
  ASSUME SyncInv, queue # <<>>, call.phase \in {"answered", "reloaded"}, NEW last \in BOOLEAN,
         NEW u, u = IF S!DoesNotPrecede(call.view, ui.server) /\ last
                    THEN S!Show(S!RecordServerState(ui, call.view), call.view)
                    ELSE S!RecordServerState(ui, call.view)
  PROVE  /\ u \in Controllers /\ Sound(u) /\ (last => Agrees(u, restored))
         /\ Knows(ui, FALSE) => Knows(u, FALSE)
<1> DEFINE known == [ui EXCEPT !.server = call.view]
<1>1. /\ ui \in Controllers /\ call.view \in DocViews /\ Genuine(call.view) /\ Sound(ui)
      /\ ui.server.rev <= call.view.rev /\ revision \in Nat
  BY ControllerFacts, CallFacts DEF SyncInv, ViewsFit, Calls
<1>2. ui.server.rev \in Int /\ call.view.rev \in Int /\ ui.shown.rev \in Int
      /\ ui.shown.rev <= call.view.rev /\ call.view.rev <= revision
  BY <1>1 DEF Controllers, DocViews, Sound, Genuine
<1>3. S!DoesNotPrecede(call.view, ui.server) /\ S!RecordServerState(ui, call.view) = known
  BY <1>1, <1>2 DEF S!DoesNotPrecede, S!RecordServerState
<1>4. /\ known \in Controllers /\ known.server = call.view /\ known.shown = ui.shown
      /\ known.parked = ui.parked /\ known.external = ui.external
  BY <1>1 DEF Controllers
<1>5. known.refresh = ui.refresh /\ known.draft = ui.draft
  BY <1>1 DEF Controllers
<1> HIDE DEF known
<1>6. CASE last
  <2>1. u = [known EXCEPT !.shown = call.view]
    BY <1>2, <1>3, <1>4, <1>6 DEF S!Show, S!DoesNotPrecede
  <2>2. /\ u \in Controllers /\ u.server = call.view /\ u.shown = call.view
        /\ u.parked = ui.parked /\ u.external = ui.external
    BY <1>1, <1>4, <2>1 DEF Controllers
  <2>3. u.refresh = ui.refresh /\ u.draft = ui.draft
    BY <1>4, <1>5, <2>1 DEF Controllers
  <2>4. Sound(u) /\ Agrees(u, restored)
    BY <1>1, <1>2, <2>2 DEF Sound, Agrees
  <2>5. Knows(ui, FALSE) => Knows(u, FALSE)
    BY <1>1, <1>2, <2>2, <2>3 DEF Knows
  <2>6. QED
    BY <2>2, <2>4, <2>5
<1>7. CASE ~last
  <2>1. u = known
    BY <1>3, <1>7
  <2>2. Sound(known)
    BY <1>1, <1>2, <1>4 DEF Sound
  <2>3. Knows(ui, FALSE) => Knows(known, FALSE)
    BY <1>1, <1>2, <1>4, <1>5 DEF Knows
  <2>4. QED
    BY <1>4, <1>7, <2>1, <2>2, <2>3
<1>8. QED
  BY <1>6, <1>7

\* If the queue is drained nothing was queued behind the head, or behind the failure.
LEMMA DrainedIsLast ==
  ASSUME SyncInv, queue # <<>>, call.phase \in {"answered", "reloaded"}, queue' = <<>>,
         queue' = S!Uncancelled(Tail(queue), mutationGeneration)
  PROVE  /\ call.phase = "answered" => queue[1].seq = sequence
         /\ call.phase = "reloaded" => call.latest = sequence
<1>1. PICK k \in 1..Len(queue) :
        /\ queue' \in Seq(Tasks) /\ Len(queue') = Len(queue) - k
        /\ \A i \in 1..Len(queue) : i > k <=> i # 1 /\ queue[i].gen = mutationGeneration
  BY RestIs
<1>2. k = Len(queue) /\ Len(queue) \in 1..Len(queue) /\ Len(queue) \in Nat
  BY <1>1, CallFacts
<1>3. Len(queue) = 1 \/ queue[Len(queue)].gen # mutationGeneration
  BY <1>1, <1>2
<1>4. queue[Len(queue)].seq = sequence
  BY <1>2, CallFacts DEF QueueFits
<1>5. CASE call.phase = "answered"
  <2>1. Len(queue) = 1
    BY <1>2, <1>3, <1>5, CallFacts DEF QueueFits, Failed
  <2>2. QED
    BY <1>4, <1>5, <2>1
<1>6. CASE call.phase = "reloaded"
  <2>1. /\ queue[1].seq <= call.latest /\ call.latest <= sequence /\ call.latest \in Nat
        /\ (queue[Len(queue)].gen = mutationGeneration <=> queue[Len(queue)].seq > call.latest)
    BY <1>2, <1>6, CallFacts DEF QueueFits, Failed, Calls
  <2>2. QED
    BY <1>3, <1>4, <1>6, <2>1, CallFacts
<1>7. QED
  BY <1>5, <1>6

\* The answer is taken by the queue.
LEMMA AnswerKeeps == ASSUME SyncInv, S!Answer PROVE SyncInv'
<1> DEFINE last == queue[1].seq = sequence
           known == S!RecordServerState(ui, call.view)
           u == IF S!DoesNotPrecede(call.view, ui.server) /\ last
                THEN S!Show(known, call.view) ELSE known
<1>1. /\ queue # <<>> /\ call.phase = "answered" /\ S!Proceed(u)
      /\ UNCHANGED <<saved, revision, other, events, made, wanted, refused, restored>>
  BY DEF S!Answer, S!backend, S!history, S!At, S!Running
<1>2. last \in BOOLEAN
  OBVIOUS
<1>3. /\ u \in Controllers /\ Sound(u) /\ (last => Agrees(u, restored))
      /\ Knows(ui, FALSE) => Knows(u, FALSE)
  BY <1>1, <1>2, AnswerTaken
<1>4. queue' = <<>> => last
  BY <1>1, DrainedIsLast DEF S!Proceed
<1> HIDE DEF u
<1>5. QED
  BY <1>1, <1>3, <1>4, ProceedStep

\* The reload behind a failure.
LEMMA ReloadedKeeps == ASSUME SyncInv, S!Reloaded PROVE SyncInv'
<1> DEFINE last == call.latest = sequence
           known == S!RecordServerState(ui, call.view)
           u == IF S!DoesNotPrecede(call.view, ui.server) /\ last
                THEN S!Show(known, call.view) ELSE known
<1>1. /\ queue # <<>> /\ call.phase = "reloaded" /\ S!Proceed(u)
      /\ UNCHANGED <<saved, revision, other, events, made, wanted, refused, restored>>
  BY DEF S!Reloaded, S!backend, S!history, S!At
<1>2. last \in BOOLEAN
  OBVIOUS
<1>3. /\ u \in Controllers /\ Sound(u) /\ (last => Agrees(u, restored))
      /\ Knows(ui, FALSE) => Knows(u, FALSE)
  BY <1>1, <1>2, AnswerTaken
<1>4. queue' = <<>> => last
  BY <1>1, DrainedIsLast DEF S!Proceed
<1> HIDE DEF u
<1>5. QED
  BY <1>1, <1>3, <1>4, ProceedStep

-----------------------------------------------------------------------------
\* At the launch.
LEMMA SyncInitially == MCInit => SyncInv
<1> SUFFICES ASSUME MCInit PROVE SyncInv
  OBVIOUS
<1> DEFINE none == [mine |-> 0, theirs |-> {}]
           first == [document |-> none, rev |-> 0]
<1>1. /\ saved = none /\ revision = 0 /\ other = "idle" /\ events = {}
      /\ ui = [shown |-> first, server |-> first, parked |-> S!NoView, refresh |-> FALSE,
               draft |-> FALSE, moved |-> FALSE, start |-> S!NoView, external |-> S!NoView]
      /\ queue = <<>> /\ call = S!NoCall /\ sequence = 0 /\ mutationGeneration = 0
      /\ reads = {} /\ made = [edits |-> 0, changes |-> 0]
      /\ wanted = 0 /\ refused = {} /\ restored = FALSE
  BY DEF MCInit, S!Init, S!Current, S!View, S!Document
<1>2. none \in Docs /\ none.mine = 0 /\ first \in DocViews /\ first.rev = 0 /\ first.document = none
  BY DEF Docs, DocViews
<1> HIDE DEF none, first
<1>3. /\ ui.shown = first /\ ui.server = first /\ ui.parked = S!NoView
      /\ ui.external = S!NoView /\ ui \in Controllers
  BY <1>1, <1>2, NoViewIs DEF Controllers
<1>4. S!NoCall \in Calls /\ S!NoCall.phase = "none" /\ S!NoCall.view = S!NoView
  BY NoViewIs DEF S!NoCall, Calls, Phases
<1>5. SyncTypes
  <2>1. queue \in Seq(Tasks) /\ events \subseteq DocViews
        /\ reads \subseteq [seq : Nat, view : DocViews]
    BY <1>1
  <2>2. saved \in Docs /\ other \in {"idle", "written", "emit"} /\ call \in Calls
        /\ made \in [edits : Nat, changes : Nat]
    BY <1>1, <1>2, <1>4
  <2>3. revision \in Nat /\ sequence \in Nat /\ mutationGeneration \in Nat /\ wanted \in Nat
        /\ restored \in BOOLEAN
    BY <1>1
  <2>4. QED
    BY <1>3, <2>1, <2>2, <2>3 DEF SyncTypes
<1>6. Len(queue) = 0
  BY <1>1
<1>7. CallFits /\ QueueFits /\ EditFits /\ AloneFits
  BY <1>1, <1>2, <1>4, <1>6 DEF CallFits, QueueFits, Failed, EditFits, AloneFits, S!At
<1>8. Genuine(S!NoView) /\ Genuine(first)
  BY <1>1, <1>2, NoViewGenuine DEF Genuine
<1>9. ViewsFit
  BY <1>1, <1>2, <1>3, <1>4, <1>8 DEF ViewsFit, Sound
<1>10. IdleFits
  BY <1>3, <1>2 DEF IdleFits, Agrees
<1>11. Reaches
  BY <1>1, <1>2, <1>3 DEF Reaches, Knows
<1>12. QED
  BY <1>5, <1>7, <1>9, <1>10, <1>11 DEF SyncInv

\* Every action keeps the invariant.
LEMMA SyncActions == ASSUME SyncInv, S!Next PROVE SyncInv'
<1>1. CASE S!UserNext
  BY <1>1, SaveTaskKeeps, ResetTaskKeeps, StampKeeps, GestureKeeps, DropKeeps, CancelKeeps, FocusKeeps
     DEF S!UserNext
<1>2. CASE S!CommandNext
  BY <1>2, CommitKeeps, CommitFailsKeeps, NextRevisionKeeps, EmitKeeps, AnswerSaveKeeps
     DEF S!CommandNext
<1>3. CASE S!ChangeNext
  BY <1>3, ChangesKeep DEF S!ChangeNext
<1>4. CASE S!ReadSettings
  BY <1>4, ReadKeeps
<1>5. CASE S!FrontendNext
  BY <1>5, SettingsEventKeeps, FocusAnswerKeeps, AnswerKeeps, FailureKeeps, ReloadedKeeps
     DEF S!FrontendNext
<1>6. QED
  BY <1>1, <1>2, <1>3, <1>4, <1>5 DEF S!Next

\* A step of the instance is a step of the settings, or leaves them alone.
LEMMA SettingsStep == [MCNext]_MCVars => [S!Next]_settingsVars
  BY DEF MCNext, Settings, Panel, MCVars, settingsVars, S!Next

\* Every step of the instance does.
LEMMA SyncStep == SyncInv /\ [MCNext]_MCVars => SyncInv'
<1> SUFFICES ASSUME SyncInv, [MCNext]_MCVars PROVE SyncInv'
  OBVIOUS
<1>1. CASE S!Next
  BY <1>1, SyncActions
<1>2. CASE UNCHANGED settingsVars
  BY <1>2, ControllerFacts, ControllerStep DEF settingsVars
<1>3. QED
  BY <1>1, <1>2, SettingsStep

\* When everything has settled the frontend shows what is saved, for any number of edits, changes,
\* focus changes and failures, in whatever order events, answers and reloads came
\* (settingsController.svelte.ts:55-92, 128-161).
THEOREM FrontendConverges == MCSpec => []Converged
<1>1. SyncInv => Converged
  <2> SUFFICES ASSUME SyncInv, S!AtRest, ~restored PROVE ui.shown = S!Current
    BY DEF Converged, S!Converged
  <2>1. queue = <<>> /\ events = {} /\ other = "idle" /\ ~ui.draft
    BY DEF S!AtRest
  <2>2. Agrees(ui, restored) /\ ui \in Controllers /\ Genuine(ui.server)
    BY <2>1, ControllerFacts DEF Sound
  <2>3. ui.server.rev = revision
    BY <2>1 DEF SyncInv, Reaches, Knows, S!At
  <2>4. ~Writing
    BY <2>1 DEF Writing, S!At
  <2>5. ui.server.document = saved
    BY <2>2, <2>3, <2>4 DEF Genuine
  <2>6. ui.shown.rev = revision /\ ui.shown.document = saved
    BY <2>1, <2>2, <2>3, <2>5 DEF Agrees
  <2>7. QED
    BY <2>2, <2>6 DEF Controllers, DocViews, S!Current, S!View
<1>2. QED
  BY SyncInitially, SyncStep, <1>1, PTL DEF MCSpec

\* The edit the user asked for last is the one that is saved, or its mutation failed or was
\* cancelled behind a failure, for any queue (settingsController.svelte.ts:119-143).
THEOREM LastEditIsSaved == MCSpec => []LastEditKept
<1>1. SyncInv => LastEditKept
  <2> SUFFICES ASSUME SyncInv, S!AtRest PROVE saved.mine = wanted \/ wanted \in refused
    BY DEF LastEditKept, S!LastEditKept
  <2>1. Len(queue) = 0
    BY DEF S!AtRest
  <2>2. QED
    BY <2>1 DEF SyncInv, EditFits
<1>2. QED
  BY SyncInitially, SyncStep, <1>1, PTL DEF MCSpec

\* A save that found the queue empty takes nothing from the backend's changes: the revision it is
\* checked against is that of the changes it holds (settings.rs:415-421).
THEOREM LoneSavesLoseNothing == MCSpec => LoneSaveKeepsChanges
<1>1. SyncInv /\ [MCNext]_MCVars =>
        [saved.theirs \subseteq saved'.theirs \/ ~S!Running.alone \/ restored]_(S!vars)
  <2> SUFFICES ASSUME SyncInv, [S!Next]_settingsVars, ~(UNCHANGED settingsVars)
               PROVE  saved.theirs \subseteq saved'.theirs \/ ~S!Running.alone \/ restored
    BY SettingsStep DEF settingsVars, S!vars
  <2>1. CASE saved' = saved
    BY <2>1
  <2>2. CASE S!Change
    BY <2>2, CallFacts DEF S!Change, Docs
  <2>3. CASE S!Commit
    <3>1. /\ queue # <<>> /\ call.phase = "sent" /\ other # "written" /\ saved' = S!Committed
          /\ queue[1].kind # "stamp" => call.expected = revision
      BY <2>3 DEF S!Commit, S!At, S!Committing, S!Refused, S!Running
    <3>2. queue[1].kind \in {"save", "reset", "stamp"} /\ queue[1].document \in Docs
          /\ saved \in Docs
      BY <3>1, CallFacts DEF Tasks, Kinds
    <3>3. CASE queue[1].kind = "save"
      <4>1. SUFFICES ASSUME queue[1].alone, ~restored PROVE saved.theirs \subseteq saved'.theirs
        BY DEF S!Running
      <4>2. call.expected = ui.server.rev /\ queue[1].document.theirs = ui.server.document.theirs
        BY <3>1, <3>3, <4>1, CallFacts DEF AloneFits
      <4>3. ui.server.document = saved
        BY <3>1, <3>3, <4>2, ControllerFacts DEF Sound, Genuine, Writing, S!At
      <4>4. QED
        BY <3>1, <3>3, <4>2, <4>3 DEF S!Committed, S!Running
    <3>4. CASE queue[1].kind = "reset"
      BY <3>1, <3>2, <3>4 DEF S!Committed, S!Running, Docs
    <3>5. CASE queue[1].kind = "stamp"
      BY <3>1, <3>2, <3>5 DEF S!Committed, S!Running, Docs
    <3>6. QED
      BY <3>2, <3>3, <3>4, <3>5
  <2>4. S!Next => saved' = saved \/ S!Change \/ S!Commit
    BY DEF S!Next, S!UserNext, S!CommandNext, S!ChangeNext, S!FrontendNext, S!Save, S!Reset,
       S!Stamp, S!BeginGesture, S!Drag, S!DropGesture, S!CancelGesture, S!Focus, S!CommitFails,
       S!NextRevision, S!Emit, S!AnswerSave, S!ChangeRevision, S!ChangeEmitted, S!ReadSettings,
       S!SettingsEvent, S!FocusAnswer, S!Answer, S!Failure, S!Reloaded, S!backend
  <2>5. QED
    BY <2>1, <2>2, <2>3, <2>4
<1>2. QED
  BY SyncInitially, SyncStep, <1>1, PTL DEF MCSpec, LoneSaveKeepsChanges, S!LoneSaveKeepsChanges
================================================================================
