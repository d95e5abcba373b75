--------------------------- MODULE DesktopEffects ---------------------------
(* What a save of the settings does outside the database, and the window it      *)
(* does it to: the global shortcut, launch at login and the window's mode are    *)
(* changed one after the other before the settings are saved, and taken back     *)
(* when a later step fails (commands/settings.rs). Meanwhile the main thread     *)
(* serves the tray, the shortcut and the delayed dismissal of a popup that lost  *)
(* the focus (window.rs, popup.rs), and on Linux the tray may disappear.         *)
EXTENDS Naturals, FiniteSets

CONSTANTS Shortcuts,   \* shortcuts the user may choose
          NoShortcut,  \* none is chosen; not in Shortcuts
          MaxSaves,    \* bound on saves
          MaxFaults,   \* bound on calls to the desktop that fail
          MaxOutside,  \* bound on changes of launch at login by other programs, and on launches
          MaxPending   \* bound on dismissals that wait

VARIABLES saved,      \* the saved settings
          registered, \* global shortcuts registered with the desktop
          login,      \* the desktop starts the program at login
          tray,       \* DesktopIntegration.tray_available
          window,     \* the main window, see Windows
          job,        \* the save under way; command_mutation lets one run at a time
          astray,     \* history: what a failed rollback, a shortcut that could not be given up, a
                      \* crash, another program or the loss of the tray in the middle of a change
                      \* has left apart from the settings
          left        \* what is left of the bounds

vars == <<saved, registered, login, tray, window, job, astray, left>>

Modes == {"Popup", "Floating"}
Settings == [shortcut : Shortcuts \cup {NoShortcut}, login : BOOLEAN, mode : Modes]
Parts == {"shortcut", "login", "mode", "show"}

\* pending, late: dismissals that wait and whose token is still the guard's generation, taken from
\* a popup or from a window that had become standalone; the others do nothing. handling: the main
\* thread has found a popup without the focus and not taken the token yet. chrome: taskbar entry,
\* always on top. hidden: who hid the window last, a late dismissal being "raced".
Windows == [floating : BOOLEAN, chrome : Modes \cup {"mixed"}, visible : BOOLEAN, focused : BOOLEAN,
            pending : 0..MaxPending, late : 0..MaxPending, handling : BOOLEAN,
            hidden : {"nobody", "user", "dismissal", "raced"}]
Idle == [pc |-> "idle"]
Jobs == [pc : {"login", "mode", "chrome", "flag", "cancel", "show", "persist", "undo"},
         was : Settings, next : Settings, applied : SUBSET {"login", "mode"}, undoing : BOOLEAN,
         floating : BOOLEAN, before : BOOLEAN]
TypeOK ==
  /\ saved \in Settings /\ registered \subseteq Shortcuts /\ login \in BOOLEAN /\ tray \in BOOLEAN
  /\ window \in Windows /\ job \in Jobs \cup {Idle} /\ astray \subseteq Parts
  /\ left \in [saves : 0..MaxSaves, faults : 0..MaxFaults, outside : 0..MaxOutside]

Spend(n) == n <= left.faults /\ left' = [left EXCEPT !.faults = @ - n]
Keys(shortcut) == {shortcut} \ {NoShortcut}
Standalone(available, mode) == ~available \/ mode = "Floating"
Chrome(floating) == IF floating THEN "Floating" ELSE "Popup"
Hide(w, who) == [w EXCEPT !.visible = FALSE, !.focused = FALSE, !.hidden = who]
Cancel(w) == [w EXCEPT !.pending = 0, !.late = 0]
\* set_focus is a request: the desktop may refuse it.
Shown(w) == {[w EXCEPT !.visible = TRUE, !.focused = f, !.hidden = "nobody"] : f \in BOOLEAN}

-----------------------------------------------------------------------------
(* The start, and the end at any moment. The window is created hidden, with a     *)
(* popup's chrome. An install of the tray that fails makes the program standalone *)
(* after the window's mode has been applied.                                      *)
Launched(settings, available, installed) ==
  LET floating == Standalone(available, settings.mode)
  IN  [floating |-> floating \/ ~installed, chrome |-> Chrome(floating), visible |-> floating,
       focused |-> floating, pending |-> 0, late |-> 0, handling |-> FALSE, hidden |-> "nobody"]

Init ==
  /\ saved \in Settings /\ registered = Keys(saved.shortcut) /\ login = saved.login
  /\ tray \in BOOLEAN /\ window = Launched(saved, tray, TRUE)
  /\ job = Idle /\ astray = {}
  /\ left = [saves |-> MaxSaves, faults |-> MaxFaults, outside |-> MaxOutside]

Relaunch ==
  /\ left.outside > 0
  /\ \E available, installed, bound \in BOOLEAN :
       LET faults == (IF installed THEN 0 ELSE 1) + (IF bound THEN 0 ELSE 1) IN
       /\ installed \/ available
       /\ bound \/ saved.shortcut # NoShortcut
       /\ faults <= left.faults
       /\ left' = [left EXCEPT !.outside = @ - 1, !.faults = @ - faults]
       /\ tray' = (available /\ installed)
       /\ window' = Launched(saved, available, installed)
       /\ registered' = IF bound THEN Keys(saved.shortcut) ELSE {}
       /\ astray' = (IF "login" \in astray \/ job # Idle THEN {"login"} ELSE {})
                      \cup (IF bound THEN {} ELSE {"shortcut"})
                      \cup (IF installed THEN {} ELSE {"mode"})
  /\ job' = Idle /\ UNCHANGED <<saved, login>>

\* The desktop's own settings, or a tool, add or remove the entry that starts the program.
LoginChangedOutside ==
  /\ left.outside > 0 /\ left' = [left EXCEPT !.outside = @ - 1]
  /\ login' = ~login /\ astray' = astray \cup {"login"}
  /\ UNCHANGED <<saved, registered, tray, window, job>>

-----------------------------------------------------------------------------
(* save_app_settings_inner, under command_mutation.                              *)

\* apply_shortcut_change: the old shortcut is given up first, kept when that fails (which is
\* ignored), and taken back if the new one cannot be had (a shortcut that is registered cannot be
\* registered again). Its possible results; exact: the shortcut registered is the one asked for,
\* or the old one after a failure.
ShortcutChanges(previous, next) ==
  LET bare(kept) == IF kept THEN registered ELSE registered \ {previous}
      faults(kept) == IF kept THEN 1 ELSE 0
      changed(kept) == [ok |-> TRUE, keys |-> bare(kept) \cup Keys(next), faults |-> faults(kept),
                        exact |-> ~kept]
      refused(kept) == faults(kept) + (IF next \in bare(kept) THEN 0 ELSE 1)
      back(kept) == {[ok |-> FALSE, keys |-> bare(kept) \cup Keys(previous), faults |-> refused(kept),
                      exact |-> TRUE]}
      lost == [ok |-> FALSE, keys |-> bare(FALSE), faults |-> refused(FALSE) + 1,
               exact |-> previous = NoShortcut]
      results(kept) == (IF next \in bare(kept) THEN {} ELSE {changed(kept)})
                         \cup (IF next = NoShortcut THEN {} ELSE back(kept))
  IN  IF previous = next
      THEN {[ok |-> TRUE, keys |-> registered, faults |-> 0, exact |-> TRUE]}
      ELSE results(FALSE) \cup (IF next = NoShortcut THEN {} ELSE {lost})
                          \cup (IF previous \in registered THEN results(TRUE) ELSE {})

Save(next) ==
  /\ job = Idle /\ left.saves > 0
  /\ \E c \in ShortcutChanges(saved.shortcut, next.shortcut) :
       /\ c.faults <= left.faults
       /\ left' = [left EXCEPT !.saves = @ - 1, !.faults = @ - c.faults]
       /\ registered' = c.keys
       /\ job' = IF c.ok
                 THEN [pc |-> "login", was |-> saved, next |-> next, applied |-> {},
                       undoing |-> FALSE, floating |-> FALSE, before |-> FALSE]
                 ELSE Idle
       /\ astray' = IF c.exact THEN astray ELSE astray \cup {"shortcut"}
  /\ UNCHANGED <<saved, login, tray, window>>

\* set_autostart, when the saved value changes.
SetLogin ==
  /\ job.pc = "login"
  /\ \/ /\ job.was.login = job.next.login
        /\ job' = [job EXCEPT !.pc = "mode"] /\ UNCHANGED <<login, left>>
     \/ /\ job.was.login # job.next.login /\ login' = job.next.login
        /\ job' = [job EXCEPT !.pc = "mode", !.applied = {"login"}]
        /\ UNCHANGED left
     \/ /\ job.was.login # job.next.login /\ Spend(1)
        /\ job' = [job EXCEPT !.pc = "undo"] /\ UNCHANGED login
  /\ UNCHANGED <<saved, registered, tray, window, astray>>

\* apply_window_mode, for the save and again for its rollback. The command's thread and the main
\* thread take turns at every call to the desktop.
Target == IF job.undoing THEN job.was.mode ELSE job.next.mode
BeginMode ==
  /\ job.pc = "mode"
  /\ IF job.undoing \/ job.was.mode # job.next.mode
     THEN /\ window' = Cancel(window)
          /\ job' = [job EXCEPT !.pc = "chrome", !.floating = Standalone(tray, Target),
                                !.before = window.floating]
     ELSE job' = [job EXCEPT !.pc = "persist"] /\ UNCHANGED window
  /\ UNCHANGED <<saved, registered, login, tray, astray, left>>

ModeFails(restored, parts) ==
  /\ Spend(IF restored THEN 1 ELSE 2)
  /\ job' = IF job.undoing THEN Idle ELSE [job EXCEPT !.pc = "undo"]
  /\ astray' = astray \cup parts \cup (IF job.undoing \/ ~restored THEN {"mode"} ELSE {})

SetChrome ==
  /\ job.pc = "chrome"
  /\ \/ /\ window' = [window EXCEPT !.chrome = Chrome(job.floating)]
        /\ job' = [job EXCEPT !.pc = "flag"] /\ UNCHANGED <<astray, left>>
     \/ \E restored \in BOOLEAN :
          /\ ModeFails(restored, {})
          /\ window' = [window EXCEPT !.chrome = IF restored THEN Chrome(job.before) ELSE "mixed"]
  /\ UNCHANGED <<saved, registered, login, tray>>

SetFlag ==
  /\ job.pc = "flag"
  /\ window' = [window EXCEPT !.floating = Standalone(tray, Target)]
  /\ job' = [job EXCEPT !.pc = "cancel"]
  /\ UNCHANGED <<saved, registered, login, tray, astray, left>>

\* Faulty variant of CancelAgain: the dismissal stays current.
CancelOnce ==
  /\ job.pc = "cancel"
  /\ job' = [job EXCEPT !.pc = "show"]
  /\ UNCHANGED <<saved, registered, login, tray, window, astray, left>>

\* A focus that was lost before the flag was set has scheduled a dismissal.
CancelAgain ==
  /\ job.pc = "cancel"
  /\ window' = Cancel(window) /\ job' = [job EXCEPT !.pc = "show"]
  /\ UNCHANGED <<saved, registered, login, tray, astray, left>>

\* show and set_focus; either may fail.
ShowInMode ==
  /\ job.pc = "show"
  /\ \/ /\ window' \in Shown(window)
        /\ job' = IF job.undoing THEN Idle
                  ELSE [job EXCEPT !.pc = "persist", !.applied = @ \cup {"mode"}]
        /\ UNCHANGED <<astray, left>>
     \/ \E restored \in BOOLEAN, w \in Shown(window) \cup {window} :
          /\ ModeFails(restored, {"show"})
          /\ window' = [w EXCEPT !.floating = job.before,
                                 !.chrome = IF restored THEN Chrome(job.before) ELSE "mixed"]
  /\ UNCHANGED <<saved, registered, login, tray>>

\* The commit, which also fails when another revision has been saved.
Persist ==
  /\ job.pc = "persist"
  /\ \/ saved' = job.next /\ job' = Idle
     \/ saved' = saved /\ job' = [job EXCEPT !.pc = "undo"]
  /\ UNCHANGED <<registered, login, tray, window, astray, left>>

\* Faulty variant of Undo: what was done after the shortcut is not taken back.
UndoShortcut ==
  /\ job.pc = "undo"
  /\ \E c \in ShortcutChanges(job.next.shortcut, job.was.shortcut) :
       /\ Spend(c.faults)
       /\ registered' = c.keys
       /\ astray' = IF c.ok /\ c.exact THEN astray ELSE astray \cup {"shortcut"}
  /\ job' = Idle
  /\ UNCHANGED <<saved, login, tray, window>>

\* rollback_settings_side_effects up to the window's mode.
Undo ==
  /\ job.pc = "undo"
  /\ \E c \in ShortcutChanges(job.next.shortcut, job.was.shortcut), kept \in BOOLEAN :
       /\ kept => "login" \in job.applied
       /\ Spend(c.faults + IF kept THEN 1 ELSE 0)
       /\ login' = IF "login" \in job.applied /\ ~kept THEN job.was.login ELSE login
       /\ registered' = c.keys
       /\ astray' = astray \cup (IF c.ok /\ c.exact THEN {} ELSE {"shortcut"})
                           \cup (IF kept THEN {"login"} ELSE {})
  /\ job' = IF "mode" \in job.applied THEN [job EXCEPT !.pc = "mode", !.undoing = TRUE] ELSE Idle
  /\ UNCHANGED <<saved, tray, window>>

-----------------------------------------------------------------------------
(* The main thread runs one handler at a time, the command's thread beside it.    *)
OnWindow == UNCHANGED <<saved, registered, login, tray, job, astray, left>>
Free == ~window.handling

\* Another window gets the focus, or the user comes back to this one.
FocusMoves == window.visible /\ window' = [window EXCEPT !.focused = ~@] /\ OnWindow

\* Focused(false) arrives, late or out of place, and is_floating is asked.
FocusLost ==
  /\ Free /\ ~window.floating /\ window.pending + window.late < MaxPending
  /\ window' = [window EXCEPT !.handling = TRUE] /\ OnWindow

\* schedule_outside_click_dismiss reads the token, of a window that may be standalone by now.
Schedule ==
  /\ window.handling
  /\ window' = IF window.floating THEN [window EXCEPT !.handling = FALSE, !.late = @ + 1]
               ELSE [window EXCEPT !.handling = FALSE, !.pending = @ + 1]
  /\ OnWindow

\* 100 ms later, with a token that is still current.
Dismissed(w, how) == IF window.visible /\ ~window.focused THEN Hide(w, how) ELSE w
Dismiss ==
  /\ Free
  /\ \/ window.pending > 0 /\ window' = Dismissed([window EXCEPT !.pending = @ - 1], "dismissal")
     \/ window.late > 0 /\ window' = Dismissed([window EXCEPT !.late = @ - 1], "raced")
  /\ OnWindow

\* A click on the tray icon or the shortcut (toggle_main_window).
Toggle ==
  /\ Free /\ (tray \/ registered # {})
  /\ IF window.visible THEN window' = Hide(Cancel(window), "user")
     ELSE window' \in Shown(Cancel(window))
  /\ OnWindow

\* The tray's menu, a notification, a second launch.
Open == Free /\ window' \in Shown(Cancel(window)) /\ OnWindow

\* CloseRequested and dismiss_main_window; without a tray they end the program, see Relaunch.
Close ==
  /\ Free /\ window.visible /\ ~(window.floating /\ ~tray)
  /\ window' \in {Hide(Cancel(window), "user"), Hide(window, "user")} /\ OnWindow

\* apply_linux_tray_fallback: the saved mode is applied anew, in one step of the main thread, or
\* show_standalone_window_fallback does its best.
TrayLost ==
  /\ Free /\ tray /\ tray' = FALSE
  /\ \/ /\ window' \in {[w EXCEPT !.floating = TRUE, !.chrome = "Floating"] : w \in Shown(Cancel(window))}
        /\ astray' = IF job.pc \in {"chrome", "flag", "cancel", "show"}
                     THEN astray \cup {"mode"} ELSE astray
        /\ UNCHANGED left
     \/ /\ Spend(1)
        /\ window' \in {[w EXCEPT !.floating = TRUE, !.chrome = "mixed"] : w \in Shown(Cancel(window))}
        /\ astray' = astray \cup {"mode"}
  /\ UNCHANGED <<saved, registered, login, job>>

Command ==
  \/ SetLogin \/ BeginMode \/ SetChrome \/ SetFlag \/ CancelAgain \/ ShowInMode \/ Persist \/ Undo
MainThread ==
  FocusMoves \/ FocusLost \/ Schedule \/ Dismiss \/ Toggle \/ Open \/ Close \/ TrayLost
Next ==
  \/ \E next \in Settings : Save(next)
  \/ Command \/ MainThread \/ Relaunch \/ LoginChangedOutside
Spec == Init /\ [][Next]_vars

-----------------------------------------------------------------------------
\* Between saves the desktop is as the saved settings say, however many steps of a save failed and
\* were taken back, unless taking back failed too, the old shortcut could not be given up (which
\* the save ignores, lib.rs:528, so that both stay registered), the program ended in the middle,
\* another program interfered, or the tray went away while the mode was being changed
\* (save_app_settings_inner).
DesktopFollowsSettings ==
  job = Idle =>
    /\ "shortcut" \in astray \/ registered = Keys(saved.shortcut)
    /\ "login" \in astray \/ login = saved.login
    /\ "mode" \in astray \/ /\ window.floating = Standalone(tray, saved.mode)
                            /\ window.chrome = Chrome(window.floating)

\* Losing the focus hides a popup only: a dismissal that a popup has scheduled never leaves the
\* window hidden once it is standalone (apply_window_mode, schedule_outside_click_dismiss), unless
\* it became so again because it could not be shown as a popup, which cancels nothing. A window
\* that becomes standalone after is_floating was asked (window.rs:905) and before the token is
\* read (window.rs:852) is not covered: its dismissal is current, and hides it ("raced").
DismissedIsPopup ==
  job = Idle /\ ~window.visible /\ window.hidden = "dismissal" =>
    ~window.floating \/ "show" \in astray
=============================================================================
