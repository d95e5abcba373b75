------------------------------- MODULE MCAlerts -------------------------------
(* Instances, for TLC, of what reaches the user's desktop: ResetReminders,       *)
(* ResetClaims, Notifications and DesktopEffects. Reminders and claims share the *)
(* clock and the card's credits, the others nothing, so a behaviour is one of a  *)
(* component: part says of which.                                                *)
(* Two credits expire together, one later; the first login found is another      *)
(* account's; two refresh tails that overlap evaluate the pace.                  *)
EXTENDS ResetReminders, Sequences, TLC
CONSTANTS c1, c2, c3, mine, other,
          Claims, NoClaim, MaxRequests, CacheLimit, ClaimExpiry, OwnerOf, Logins, ClaimHorizon,
          Tails, MaxTime, MaxReadings, Preferences, Levels,
          DeliveryFailureThreshold, DeliverySkipCycles,
          Shortcuts, NoShortcut, MaxSaves, MaxFaults, MaxOutside, MaxPending
ASSUME ClaimAssumption ==
  /\ MaxRequests \in Nat /\ 0 \notin Credits /\ NoClaim \notin Claims
  /\ ClaimHorizon \in Nat /\ ClaimExpiry \in [Credits -> 1..ClaimHorizon]
ASSUME PendingAssumption == MaxPending \in Nat

MCCredits == {c1, c2, c3}
MCExpiryOf == (c1 :> 3) @@ (c2 :> 3) @@ (c3 :> 8)
MCClaimExpiry == (c1 :> 1) @@ (c2 :> 1) @@ (c3 :> 2)
MCOwnerOf == [c \in MCCredits |-> mine]
MCLogins == <<other, mine>>
AlertSymmetry == Permutations(Tails) \cup Permutations(Shortcuts)

VARIABLES part,
          redeemed, requests, dialog, claim, matched, settled,
          clock, window, prefs, state, recent, tail, readings, told, owed, buried, bygone,
          term, saved, registered, login, tray, panel, job, astray, left
claimVars == <<redeemed, requests, dialog, claim, matched, settled>>
paceVars ==
  <<clock, window, prefs, state, recent, tail, readings, told, owed, buried, bygone, term>>
desktopVars == <<saved, registered, login, tray, panel, job, astray, left>>

C == INSTANCE ResetClaims WITH
       ExpiryOf <- ClaimExpiry, Horizon <- ClaimHorizon
N == INSTANCE Notifications WITH now <- clock, delivery <- recent
ASSUME PaceAssumption ==
  /\ MaxTime \in Nat /\ Preferences \subseteq SUBSET N!Milestones
  /\ Levels \subseteq N!Severities \X BOOLEAN
\* Enough is left (Healthy), it will be close (Close), all is spent (Spent).
MCLevels == {<<1, FALSE>>, <<2, FALSE>>, <<4, TRUE>>}
D == INSTANCE DesktopEffects WITH window <- panel

MCInit ==
  /\ part \in {"reminders", "claims", "pace", "desktop"}
  /\ Init /\ C!Init /\ N!Init /\ D!Init
  /\ part # "reminders" => lead = CHOOSE hours \in LeadTimes : TRUE
  /\ part # "pace" => prefs.wanted = {} /\ window = N!Unstarted
  /\ part # "desktop" =>
       tray /\ saved = [shortcut |-> NoShortcut, login |-> FALSE, mode |-> "Popup"]
Reminding(A) == part = "reminders" /\ A /\ UNCHANGED <<part, claimVars, paceVars, desktopVars>>
Claiming(A) == part = "claims" /\ A /\ UNCHANGED <<part, lead, round, delivery, paceVars, desktopVars>>
Pacing(A) == part = "pace" /\ A /\ UNCHANGED <<part, vars, claimVars, desktopVars>>
Desktop(A) == part = "desktop" /\ A /\ UNCHANGED <<part, vars, claimVars, paceVars>>

MCNext ==
  \/ Reminding(TimePasses) \/ Reminding(Notify) \/ Reminding(Evaluate) \/ Reminding(Save)
  \/ Reminding(NotifyEnds) \/ Reminding(Restart)
  \/ \E hours \in LeadTimes : Reminding(LeadChanges(hours))
  \/ \E credits \in SUBSET card : Reminding(CardRefreshed(credits))
  \/ Claiming(C!TimePasses) \/ Claiming(C!Restart) \/ Claiming(C!CardRefreshed)
  \/ Claiming(C!CancelClaim) \/ Claiming(C!CloseDialog)
  \/ \E e \in C!Expiries : Claiming(C!BeginClaim(e))
  \/ \E k \in Claims : \/ Claiming(C!ConfirmClaim(k)) \/ Claiming(C!ListFails(k))
                       \/ Claiming(C!List(k)) \/ Claiming(C!ConsumeRefused(k))
                       \/ Claiming(C!Consume(k)) \/ Claiming(C!Answer(k))
  \/ Pacing(N!TimePasses) \/ Pacing(N!WindowMoves) \/ Pacing(N!WindowRolls)
  \/ Pacing(N!PreferencesChange)
  \/ \E t \in Tails : \/ Pacing(N!Begin(t)) \/ Pacing(N!Prune(t)) \/ Pacing(N!Evaluate(t))
                      \/ Pacing(N!Partition(t)) \/ Pacing(N!Deliver(t))
                      \/ Pacing(N!RecordFailures(t)) \/ Pacing(N!RecordSuccesses(t))
                      \/ Pacing(N!RollbackFailed(t)) \/ Pacing(N!RollbackDeferred(t))
  \/ \E next \in D!Settings : Desktop(D!Save(next))
  \/ Desktop(D!Command) \/ Desktop(D!MainThread) \/ Desktop(D!Relaunch)
  \/ Desktop(D!LoginChangedOutside)
MCSpec == MCInit /\ [][MCNext]_<<part, vars, claimVars, paceVars, desktopVars>>

\* The invariant of ResetClaims: no use of a credit slips away (confirmClaim, reset_claim.rs).
UseIsKnown == part = "claims" => C!UseIsKnown
\* The properties of Notifications: failing and deferring lose no alert, and a milestone is
\* delivered once per window, with the exceptions stated there (pacing.rs, notifications.rs).
StaysPending == N!StaysPending
ToldOnce == N!ToldOnce
\* The invariants of DesktopEffects: the desktop follows the saved settings, and losing the focus
\* hides a popup only (commands/settings.rs, window.rs).
DesktopFollowsSettings == D!DesktopFollowsSettings
DismissedIsPopup == D!DismissedIsPopup
=============================================================================
