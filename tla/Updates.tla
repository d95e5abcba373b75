------------------------------- MODULE Updates -------------------------------
(* The update of the program: UpdateCoordinator with its commands (updates.rs)    *)
(* and the frontend's UpdateController, which offers in a banner what the last    *)
(* check found. A version is a number; 0 is none. Builds that cannot update       *)
(* themselves offer the release page instead and are not modelled.                *)
EXTENDS Naturals

CONSTANT MaxVersion \* bound: the newest release there ever is

VARIABLES released,  \* the newest release
          version,   \* of the program that runs
          pending,   \* UpdateCoordinator.pending
          op,        \* the operation that holds UpdateCoordinator.operation
          ui,        \* UpdateController: what it waits for, and its status
          answer,    \* the answer on its way to the frontend
          dismissed, \* dismissedUpdateVersion of the settings
          offered,   \* history: the version in the banner when the user asked to install
          failed     \* history: an install has failed since the last check that was answered

vars == <<released, version, pending, op, ui, answer, dismissed, offered, failed>>
Versions == 0..MaxVersion
Free == [pc |-> "free", update |-> 0, heard |-> FALSE]
Fresh == [doing |-> "nothing", status |-> 0]
NoAnswer == [of |-> "nothing", found |-> 0, ok |-> FALSE]
Found == IF released > version THEN released ELSE 0

TypeOK ==
  /\ released \in Versions /\ version \in Versions /\ pending \in Versions
  /\ op \in [pc : {"free", "check", "requery", "download", "pause", "again"},
             update : Versions, heard : BOOLEAN]
  /\ ui \in [doing : {"nothing", "check", "install"}, status : Versions]
  /\ answer \in [of : {"nothing", "check", "install"}, found : Versions, ok : BOOLEAN]
  /\ dismissed \in Versions /\ offered \in Versions /\ failed \in BOOLEAN

Init ==
  /\ released \in {0, 1} /\ version = 0 /\ pending = 0 /\ dismissed = 0
  /\ op = Free /\ ui = Fresh /\ answer = NoAnswer
  /\ offered = 0 /\ failed = FALSE

Releases ==
  /\ released < MaxVersion /\ released' = released + 1
  /\ UNCHANGED <<version, pending, op, ui, answer, dismissed, offered, failed>>

-----------------------------------------------------------------------------
(* The frontend. An operation that the frontend of before a reload has begun makes   *)
(* a command fail as "busy", which changes nothing.                                 *)

\* The timer of the automatic check, or the user.
Check ==
  /\ ui.doing = "nothing" /\ op = Free
  /\ ui' = [ui EXCEPT !.doing = "check"]
  /\ op' = [Free EXCEPT !.pc = "check", !.heard = TRUE]
  /\ UNCHANGED <<released, version, pending, answer, dismissed, offered, failed>>

Offers == ui.status # 0 /\ ui.status # dismissed
Dismiss ==
  /\ Offers /\ dismissed' = ui.status
  /\ UNCHANGED <<released, version, pending, op, ui, answer, offered, failed>>

Begins ==
  /\ Offers /\ op = Free
  /\ ui' = [ui EXCEPT !.doing = "install"]
  /\ offered' = ui.status /\ pending' = 0
  /\ op' = [pc |-> IF pending = 0 THEN "requery" ELSE "download", update |-> pending,
            heard |-> TRUE]
  /\ UNCHANGED <<released, version, answer, dismissed, failed>>
\* Faulty variant of Install: it does not wait for the answer of a check.
InstallDuringCheck == ui.doing # "install" /\ Begins
\* The button in the banner. The coordinator takes what the last check has found.
Install == ui.doing = "nothing" /\ Begins

AnswerArrives ==
  /\ answer.of # "nothing" /\ answer' = NoAnswer
  /\ ui' = [doing |-> IF answer.of = ui.doing THEN "nothing" ELSE ui.doing,
            status |-> IF answer.ok THEN answer.found ELSE ui.status]
  /\ UNCHANGED <<released, version, pending, op, dismissed, offered, failed>>

\* The web view is loaded anew (its process ended, or the user asked for it).
Reload ==
  /\ ui' = Fresh /\ answer' = NoAnswer /\ op' = [op EXCEPT !.heard = FALSE]
  /\ UNCHANGED <<released, version, pending, dismissed, offered, failed>>

Relaunched(new) ==
  /\ version' = new /\ pending' = 0 /\ op' = Free /\ ui' = Fresh /\ answer' = NoAnswer
  /\ failed' = FALSE
  /\ UNCHANGED <<released, dismissed, offered>>
Relaunch == Relaunched(version)

-----------------------------------------------------------------------------
(* The commands. A request that stalls is never answered: the updater has no time    *)
(* limit of its own.                                                                *)
Ends(of, found, ok) ==
  /\ op' = Free
  /\ answer' = IF op.heard THEN [of |-> of, found |-> found, ok |-> ok] ELSE answer

\* check_for_updates.
CheckAnswered ==
  /\ op.pc = "check" /\ pending' = Found /\ failed' = FALSE
  /\ Ends("check", Found, TRUE)
  /\ UNCHANGED <<released, version, ui, dismissed, offered>>
CheckFails ==
  /\ op.pc = "check" /\ Ends("check", 0, FALSE)
  /\ UNCHANGED <<released, version, pending, ui, dismissed, offered, failed>>

\* install_update without a pending update: it checks anew.
Requeried ==
  /\ op.pc = "requery" /\ Found # 0
  /\ op' = [op EXCEPT !.pc = "download", !.update = Found]
  /\ UNCHANGED <<released, version, pending, ui, answer, dismissed, offered, failed>>
InstallFails ==
  /\ failed' = TRUE /\ Ends("install", 0, FALSE)
  /\ UNCHANGED <<released, version, pending, ui, dismissed, offered>>
RequeryFails == op.pc = "requery" /\ InstallFails

\* download_with_watchdog, once and once more; a time limit ends an attempt that stalls.
Downloaded == op.pc \in {"download", "again"} /\ Relaunched(op.update)
DownloadRetries ==
  /\ op.pc = "download" /\ op' = [op EXCEPT !.pc = "pause"]
  /\ UNCHANGED <<released, version, pending, ui, answer, dismissed, offered, failed>>
DownloadFails == op.pc \in {"download", "again"} /\ InstallFails
PauseEnds ==
  /\ op.pc = "pause" /\ op' = [op EXCEPT !.pc = "again"]
  /\ UNCHANGED <<released, version, pending, ui, answer, dismissed, offered, failed>>

User == Check \/ Dismiss \/ Install \/ Reload \/ Relaunch \/ Releases
Server == CheckAnswered \/ CheckFails \/ Requeried \/ RequeryFails
Installing == Downloaded \/ DownloadRetries \/ DownloadFails \/ PauseEnds
Next == User \/ Server \/ Installing \/ AnswerArrives
Spec == Init /\ [][Next]_vars
\* Downloads have a time limit, the pause is a timer, and answers are delivered.
FairSpec == Spec /\ WF_vars(Installing) /\ WF_vars(AnswerArrives)

-----------------------------------------------------------------------------
\* What is installed is what the banner offered when the user asked for it, whatever was released,
\* checked or reloaded meanwhile; only after a failed install the next one may fetch another
\* version (pending, install_update).
OfferedIsInstalled ==
  [][version' # version => version' = offered \/ failed]_vars

\* "a connection stalled without RST would otherwise hold the update banner in "Downloading..."
\* forever": an install that has begun ends (download_with_watchdog, install).
BannerIsReleased == ui.doing = "install" ~> ui.doing # "install"
=============================================================================
