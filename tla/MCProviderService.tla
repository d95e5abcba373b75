-------------------------- MODULE MCProviderService --------------------------
(***************************************************************************)
(* Instances of ProviderService for TLC.                                   *)
(***************************************************************************)
EXTENDS ProviderService, TLC

\* Calls are interchangeable, and so are flight objects.
CallAndFlightSymmetry == Permutations(Callers) \cup Permutations(Flights)

\* All calls overlap while the account of the start is in place; around an add or a removal,
\* two of them do (loaded is set by an add that found a cached snapshot).
FewCallsAroundEdits ==
    \/ admin = "live" /\ Cardinality(used) = 1 /\ loaded = 0
    \/ Cardinality({c \in Callers : call[c].pc # "idle"}) <= 2
=============================================================================
