------------------------- MODULE MCAccountLifecycle -------------------------
(* An instance of AccountLifecycle for TLC: two names whose ids differ at first   *)
(* and share the later attempts.                                                 *)
EXTENDS AccountLifecycle, TLC
CONSTANTS t1, t2

MCTasks == {t1, t2}
MCTaskSymmetry == Permutations(MCTasks)
TwoNames == {"Work", "Home"}
TwoIds == {"work", "home", "salt"}
TwoBase == [n \in TwoNames |-> IF n = "Work" THEN "work" ELSE "home"]
OneSalt == <<"salt">>
=============================================================================
