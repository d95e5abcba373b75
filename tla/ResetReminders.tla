--------------------------- MODULE ResetReminders ---------------------------
(* Reminders of reset credits that are about to expire (reset_expiry.rs), and   *)
(* the receipts in the database that make a reminder survive a restart.         *)
(* An expiry stands for the credits that expire then: they share a reminder.    *)
EXTENDS Naturals, FiniteSets, FiniteSetsExt

CONSTANTS Credits,     \* the credits of the account
          ExpiryOf,    \* ExpiryOf[c]: when it expires
          LeadTimes,   \* values of the setting reset_expiry_hours
          RetrySoon,   \* the wait after a failed delivery (5 minutes)
          RetryLate,   \* the wait after the third (an hour)
          Horizon      \* bound on time
ASSUME CreditsExpire == ExpiryOf \in [Credits -> 1..Horizon]
ASSUME WaitsGrow == RetrySoon \in Nat \ {0} /\ RetryLate \in Nat /\ RetrySoon <= RetryLate

VARIABLES now,      \* the time
          card,     \* the credits on the last good snapshot
          lead,     \* reset_expiry_hours
          round,    \* notify, under the lock of DeliveryState
          sent,     \* DeliveryState.sent
          failed,   \* DeliveryState.failed: attempts (up to 3) and the time of the next one
          receipts, \* the table reset_expiry_notifications
          shown     \* history: shown[e], how often the reminder was shown

delivery == <<sent, failed, receipts, shown>>
vars == <<now, card, lead, round, delivery>>

Expiries == {ExpiryOf[c] : c \in Credits}
NoFailure == [attempts |-> 0, retry |-> 0]
NoRound == [pc |-> "idle", at |-> 0, due |-> {}, left |-> {}, unread |-> {}]

TypeOK ==
  /\ now \in 0..Horizon /\ card \subseteq Credits
  /\ lead \in LeadTimes
  /\ round \in [pc : {"idle", "next", "save"}, at : 0..Horizon, due : SUBSET Expiries,
                left : SUBSET Expiries, unread : SUBSET Expiries]
  /\ sent \subseteq Expiries /\ receipts \subseteq Expiries
  /\ failed \in [Expiries -> [attempts : 0..3, retry : 0..(Horizon + RetryLate)]]
  /\ shown \in [Expiries -> {"never", "once", "again", "twice"}]

Init ==
  /\ now = 0 /\ card = Credits
  /\ lead \in LeadTimes
  /\ round = NoRound
  /\ sent = {} /\ receipts = {}
  /\ failed = [e \in Expiries |-> NoFailure]
  /\ shown = [e \in Expiries |-> "never"]

\* expiring_groups: credits that have expired since the card was fetched come off its count,
\* and of the others as many as are left, the soonest first, if they are within the lead time.
ExpiringGroups(credits, count, hours, t) ==
  LET expired == Cardinality({c \in credits : ExpiryOf[c] <= t})
      available == IF count < expired THEN 0 ELSE count - expired
      earlier(e) == Cardinality({c \in credits : t < ExpiryOf[c] /\ ExpiryOf[c] < e}) IN
    {e \in {ExpiryOf[c] : c \in credits} :
       t < e /\ e <= t + hours /\ earlier(e) < available}

TimePasses ==
  /\ now < Horizon /\ now' = now + 1
  /\ UNCHANGED <<card, lead, round, delivery>>
\* Credits of the account are used, or the provider lists fewer.
CardRefreshed(credits) ==
  /\ credits # card /\ card' = credits
  /\ UNCHANGED <<now, lead, round, delivery>>
LeadChanges(hours) ==
  /\ lead' = hours /\ hours # lead
  /\ UNCHANGED <<now, card, round, sent, failed, receipts, shown>>

\* The tail of a refresh evaluates the card; what has expired is forgotten first. The server
\* may count fewer credits than it lists. The pruning of the receipts may fail.
Notify ==
  /\ round.pc = "idle"
  /\ \E count \in {Cardinality(card), Cardinality(card) - 1} \cap Nat :
       LET due == ExpiringGroups(card, count, lead, now) IN
         /\ due # {}
         /\ round' = [NoRound EXCEPT !.pc = "next", !.at = now, !.due = due, !.left = due]
  /\ sent' = {e \in sent : e > now}
  /\ failed' = [e \in Expiries |-> IF e > now THEN failed[e] ELSE NoFailure]
  /\ receipts' \in {receipts, {e \in receipts : e >= now}}
  /\ UNCHANGED <<now, card, lead, shown>>

PassesOver(e) == round' = [round EXCEPT !.left = @ \ {e}]
Waits(e) == e \in sent \/ failed[e].retry > round.at

Skip(e) ==
  /\ Waits(e) \/ e \in receipts
  /\ PassesOver(e)
  /\ UNCHANGED <<sent, failed, receipts, shown>>
\* reset_expiry_notified fails
ReceiptUnread(e) ==
  /\ ~Waits(e)
  /\ round' = [round EXCEPT !.left = @ \ {e}, !.unread = @ \cup {e}]
  /\ UNCHANGED <<sent, failed, receipts, shown>>

\* Faulty variant of Failure: a reminder that failed three times is given up.
FailureGivesUp(e) ==
  IF failed[e].attempts >= 2 THEN [attempts |-> 3, retry |-> Horizon + RetryLate]
  ELSE [attempts |-> failed[e].attempts + 1, retry |-> round.at + RetrySoon]
Failure(e) ==
  [attempts |-> IF failed[e].attempts < 3 THEN failed[e].attempts + 1 ELSE 3,
   retry |-> round.at + IF failed[e].attempts >= 2 THEN RetryLate ELSE RetrySoon]
Seen(e) == [shown EXCEPT ![e] = IF @ \in {"never", "again"} THEN "once" ELSE "twice"]

\* show_notification; on macOS it may report that it failed and show the reminder all the same.
DeliveryFails(e) ==
  /\ ~Waits(e) /\ e \notin receipts
  /\ failed' = [failed EXCEPT ![e] = Failure(e)] /\ PassesOver(e)
  /\ \/ UNCHANGED shown
     \/ shown' = [shown EXCEPT ![e] = IF Seen(e)[e] = "once" THEN "again" ELSE "twice"]
  /\ UNCHANGED <<sent, receipts>>
\* Faulty variant of Delivered: only the receipt remembers the reminder.
DeliveredUnsent(e) ==
  /\ ~Waits(e) /\ e \notin receipts
  /\ failed' = [failed EXCEPT ![e] = NoFailure]
  /\ round' = [round EXCEPT !.pc = "save"]
  /\ shown' = Seen(e) /\ UNCHANGED <<sent, receipts>>
Delivered(e) ==
  /\ ~Waits(e) /\ e \notin receipts
  /\ failed' = [failed EXCEPT ![e] = NoFailure]
  /\ sent' = sent \cup {e}
  /\ round' = [round EXCEPT !.pc = "save"]
  /\ shown' = Seen(e) /\ UNCHANGED receipts

Evaluate ==
  /\ round.pc = "next" /\ round.left # {}
  /\ LET e == Min(round.left) IN Skip(e) \/ ReceiptUnread(e) \/ DeliveryFails(e) \/ Delivered(e)
  /\ UNCHANGED <<now, card, lead>>
\* save_reset_expiry_notification may fail: then only DeliveryState knows.
Save ==
  /\ round.pc = "save"
  /\ round' = [round EXCEPT !.pc = "next", !.left = @ \ {Min(@)}]
  /\ receipts' \in {receipts, receipts \cup {Min(round.left)}}
  /\ UNCHANGED <<now, card, lead, sent, failed, shown>>
NotifyEnds ==
  /\ round.pc = "next" /\ round.left = {}
  /\ round' = NoRound
  /\ UNCHANGED <<now, card, lead, sent, failed, receipts, shown>>

\* The program ends and is started again: the receipts are all that is left.
Restart ==
  /\ round' = NoRound /\ sent' = {} /\ failed' = [e \in Expiries |-> NoFailure]
  /\ shown' = [e \in Expiries |-> IF shown[e] = "once" /\ e \notin receipts THEN "again" ELSE shown[e]]
  /\ UNCHANGED <<now, card, lead, receipts>>

Next ==
  \/ TimePasses \/ Notify \/ Evaluate \/ Save \/ NotifyEnds \/ Restart
  \/ \E hours \in LeadTimes : LeadChanges(hours)
  \/ \E credits \in SUBSET card : CardRefreshed(credits)
Spec == Init /\ [][Next]_vars
-----------------------------------------------------------------------------
\* A reminder is shown once, over restarts and changes of the lead time, unless its delivery was
\* reported as failed, or its receipt was not saved before a restart.
RemindedOnce == \A e \in Expiries : shown[e] # "twice"

\* A round leaves no due reminder behind: it was shown, or it will be tried again within
\* RetryLate, unless its receipt could not be read.
StaysDue ==
  [][NotifyEnds => \A e \in round.due \ round.unread :
       \/ shown[e] # "never"
       \/ 0 < failed[e].attempts /\ failed[e].retry <= round.at + RetryLate]_vars
=============================================================================
