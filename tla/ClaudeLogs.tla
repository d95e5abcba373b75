------------------------------- MODULE ClaudeLogs -------------------------------
(* The deduplication of Claude's log events: deduplicate of                         *)
(* src-tauri/src/providers/claude/local_usage.rs, one event per step.               *)
(* A message is logged again as it grows, and by the sessions that continue it or   *)
(* run it as a side chain; files come in the order of their paths, so its events    *)
(* come in any order.                                                               *)
EXTENDS Integers, SequencesExt

CONSTANTS Messages, Requests, MaxTokens, MaxEvents

VARIABLES
  output,     \* the events that are kept
  exact,      \* the index of a message's request; a partial function
  byMessage,  \* the indices of a message's events, in order
  fed         \* history: the events so far
vars == <<output, exact, byMessage, fed>>

\* An event without message id is kept as it is and left out here.
Events == [message : Messages, request : Requests, sidechain : BOOLEAN, tokens : 1..MaxTokens]

Init == output = <<>> /\ exact = <<>> /\ byMessage = [m \in Messages |-> <<>>] /\ fed = <<>>

Key(e) == <<e.message, e.request>>

\* Faulty variant of Collision: two sessions' main events of a message are one.
CollidesByMessage(e) ==
  IF Key(e) \in DOMAIN exact THEN exact[Key(e)]
  ELSE IF byMessage[e.message] = <<>> THEN 0 ELSE byMessage[e.message][1]

\* The index of the event that e collides with, or 0.
Collision(e) ==
  IF Key(e) \in DOMAIN exact THEN exact[Key(e)]
  ELSE LET known == byMessage[e.message]
           first == SelectInSeq(known, LAMBDA i : e.sidechain \/ output[i].sidechain)
       IN IF first = 0 THEN 0 ELSE known[first]

Replaces(e, old) ==
  \/ old.sidechain /\ ~e.sidechain
  \/ old.sidechain = e.sidechain /\ e.tokens > old.tokens

Feed(e) ==
  LET old == Collision(e)
      at == IF old = 0 THEN Len(output) + 1 ELSE old
      Entered(map) == [k \in DOMAIN map \cup {Key(e)} |-> IF k = Key(e) THEN at ELSE map[k]]
  IN /\ Len(fed) < MaxEvents
     /\ fed' = Append(fed, e)
     /\ \/ /\ old = 0
           /\ output' = Append(output, e)
           /\ exact' = Entered(exact)
           /\ byMessage' = [byMessage EXCEPT ![e.message] = Append(@, at)]
        \/ /\ old # 0 /\ Replaces(e, output[old])
           /\ output' = [output EXCEPT ![old] = e]
           /\ exact' = Entered([k \in DOMAIN exact \ {Key(output[old])} |-> exact[k]])
           /\ UNCHANGED byMessage
        \/ /\ old # 0 /\ ~Replaces(e, output[old])
           /\ UNCHANGED <<output, exact, byMessage>>

Next == \E e \in Events : Feed(e)
Spec == Init /\ [][Next]_vars

-----------------------------------------------------------------------------
\* What counts of a message's events, whatever their order: per request the largest main event;
\* the largest of all only if all are side chains'.
Largest(tokens) == CHOOSE n \in tokens : \A k \in tokens : k <= n
Reference(m) ==
  LET events == {e \in ToSet(fed) : e.message = m}
      main == {e \in events : ~e.sidechain}
      Of(r) == {e.tokens : e \in {f \in main : f.request = r}}
      Side == {e.tokens : e \in events}
  IN IF events = {} THEN 0
     ELSE IF main = {} THEN Largest(Side)
     ELSE SumFunction([r \in {e.request : e \in main} |-> Largest(Of(r))])
Counted(m) ==
  SumFunction([i \in {j \in 1..Len(output) : output[j].message = m} |-> output[i].tokens])

\* The tokens that count do not depend on the order in which files and lines come (deduplicate).
OrderDoesNotCount == \A m \in Messages : Counted(m) = Reference(m)
=================================================================================
