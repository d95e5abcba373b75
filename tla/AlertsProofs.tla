----------------------------- MODULE AlertsProofs -----------------------------
(***************************************************************************)
(* Proofs about the components of MCAlerts: the reset reminders, the       *)
(* claims, the pace alerts and the desktop effects, one section each.      *)
(***************************************************************************)
EXTENDS MCAlerts, WellFoundedInduction, TLAPS

\* The horizon is a bound of the runs only.
Days == Horizon \in Nat

Rounds == [pc : {"idle", "next", "save"}, at : Nat, due : SUBSET Expiries,
           left : SUBSET Expiries, unread : SUBSET Expiries]
Failures == [attempts : 0..3, retry : Nat]
ReminderTypes ==
  /\ now \in Nat /\ round \in Rounds /\ card \subseteq Credits
  /\ sent \subseteq Expiries /\ receipts \subseteq Expiries
  /\ failed \in [Expiries -> Failures]
  /\ shown \in [Expiries -> {"never", "once", "again", "twice"}]

\* What waits for its receipt is in sent.
RoundFits ==
  /\ round.at <= now
  /\ round.pc = "idle" => round.left = {}
  /\ round.pc = "save" => round.left # {} /\ Min(round.left) \in sent

\* A reminder that was shown and must not be again is in sent or has its receipt, until its
\* credits have expired and no round will come to it.
Remembered ==
  \A e \in Expiries :
    /\ shown[e] = "once" => e \in sent \/ e \in receipts \/ (e <= now /\ e \notin round.left)
    /\ e \in sent \/ e \in receipts => shown[e] # "never"

\* No wait is longer than RetryLate from the round that began it.
Began == IF round.pc = "idle" THEN now ELSE round.at
WaitsFit ==
  \A e \in Expiries : /\ failed[e].retry <= Began + RetryLate
                      /\ failed[e].retry > 0 => failed[e].attempts > 0

\* What the round has passed over was shown or waits.
Handled(e) == shown[e] # "never" \/ (0 < failed[e].attempts /\ failed[e].retry <= round.at + RetryLate)
Accounted ==
  round.pc # "idle" => \A e \in (round.due \ round.left) \ round.unread : Handled(e)

ReminderInv == ReminderTypes /\ RoundFits /\ Remembered /\ RemindedOnce /\ WaitsFit /\ Accounted

-----------------------------------------------------------------------------
LEMMA MinIsMember ==
  ASSUME Days, NEW S, S \subseteq Expiries, S # {} PROVE Min(S) \in S /\ Min(S) \in Nat
<1>1. S \subseteq Nat
  BY CreditsExpire DEF Days, Expiries
<1> DEFINE R == {ss \in Nat \X Nat : ss[1] < ss[2]}
<1>2. IsWellFoundedOn(R, Nat)
  BY NatLessThanWellFounded DEF OpToRel
<1>3. \A n, m \in Nat : n < m => <<n, m>> \in R
  OBVIOUS
<1> HIDE DEF R
<1>4. PICK m \in S : \A n \in S : ~ (<<n, m>> \in R)
  BY <1>1, <1>2, WFMin
<1>5. \A n \in S : ~ (n < m)
  BY <1>1, <1>3, <1>4
<1>6. \A n \in S : m <= n
  <2>1. m \in Nat /\ \A n \in S : n \in Nat
    BY <1>1
  <2>2. QED
    BY <2>1, <1>5
<1>7. QED
  BY <1>1, <1>6 DEF Min

LEMMA ExpiriesAreNat == ASSUME Days PROVE Expiries \subseteq Nat
  BY CreditsExpire DEF Days, Expiries

LEMMA RemindersInitially == ASSUME Days, Init PROVE ReminderInv
<1>1. /\ now = 0 /\ round = NoRound /\ sent = {} /\ receipts = {}
      /\ failed = [e \in Expiries |-> NoFailure] /\ shown = [e \in Expiries |-> "never"]
  BY DEF Init
<1>2. RetryLate \in Nat
  BY WaitsGrow
<1>3. NoRound \in Rounds /\ NoFailure \in Failures
  BY DEF NoRound, Rounds, NoFailure, Failures
<1>4. ReminderTypes
  BY <1>1, <1>3 DEF ReminderTypes, Init
<1>5. RoundFits /\ Accounted
  BY <1>1 DEF NoRound, RoundFits, Accounted
<1>6. Remembered /\ RemindedOnce
  BY <1>1 DEF Remembered, RemindedOnce
<1>7. WaitsFit
  BY <1>1, <1>2 DEF WaitsFit, NoFailure, NoRound, Began
<1>8. QED
  BY <1>4, <1>5, <1>6, <1>7 DEF ReminderInv

\* Time, the card and the lead time.
LEMMA WorldKeeps ==
  ASSUME Days, ReminderInv, now' \in {now, now + 1}, card' \subseteq card,
         UNCHANGED <<round, sent, failed, receipts, shown>>
  PROVE  ReminderInv'
<1>1. now \in Nat /\ now' \in Nat /\ now <= now' /\ RetryLate \in Nat /\ round.at \in Nat
  BY WaitsGrow DEF ReminderInv, ReminderTypes, Rounds
<1>2. ReminderTypes'
  BY <1>1 DEF ReminderInv, ReminderTypes
<1>3. RoundFits'
  BY <1>1 DEF ReminderInv, RoundFits
<1>4. Remembered' /\ RemindedOnce'
  BY <1>1, ExpiriesAreNat DEF ReminderInv, Remembered, RemindedOnce
<1>5. WaitsFit'
  BY <1>1 DEF ReminderInv, WaitsFit, Began, ReminderTypes, Failures
<1>6. Accounted'
  BY DEF ReminderInv, Accounted, Handled
<1>7. QED
  BY <1>2, <1>3, <1>4, <1>5, <1>6 DEF ReminderInv

\* A round begins with what has not expired; only the expired is forgotten.
LEMMA NotifyKeeps == ASSUME Days, ReminderInv, Notify PROVE ReminderInv'
<1>1. PICK due \in SUBSET Expiries :
        /\ \A e \in due : now < e
        /\ round' = [NoRound EXCEPT !.pc = "next", !.at = now, !.due = due, !.left = due]
  <2>1. PICK count : round' = [NoRound EXCEPT !.pc = "next", !.at = now,
                                 !.due = ExpiringGroups(card, count, lead, now),
                                 !.left = ExpiringGroups(card, count, lead, now)]
    BY DEF Notify
  <2>2. \A e \in ExpiringGroups(card, count, lead, now) : now < e /\ e \in {ExpiryOf[c] : c \in card}
    BY DEF ExpiringGroups
  <2>3. ExpiringGroups(card, count, lead, now) \subseteq Expiries
    BY <2>2 DEF Expiries, ReminderInv, ReminderTypes
  <2>4. QED
    BY <2>1, <2>2, <2>3
<1>2. /\ round.pc = "idle" /\ now' = now /\ card' = card /\ shown' = shown
      /\ sent' = {e \in sent : e > now}
      /\ failed' = [e \in Expiries |-> IF e > now THEN failed[e] ELSE NoFailure]
      /\ receipts' \in {receipts, {e \in receipts : e >= now}}
  BY DEF Notify
<1>3. /\ round'.pc = "next" /\ round'.at = now /\ round'.due = due /\ round'.left = due
      /\ round'.unread = {} /\ round' \in Rounds
  BY <1>1 DEF NoRound, Rounds, ReminderInv, ReminderTypes
<1>4. now \in Nat /\ RetryLate \in Nat
  BY WaitsGrow DEF ReminderInv, ReminderTypes
<1>5. ReminderTypes'
  <2>1. failed' \in [Expiries -> Failures]
    BY <1>2 DEF ReminderInv, ReminderTypes, Failures, NoFailure
  <2>2. QED
    BY <1>2, <1>3, <2>1 DEF ReminderInv, ReminderTypes
<1>6. RoundFits' /\ Accounted'
  BY <1>2, <1>3, <1>4 DEF RoundFits, Accounted
<1>7. Remembered' /\ RemindedOnce'
  <2>1. ASSUME NEW e \in Expiries, shown[e] = "once"
        PROVE  e \in sent' \/ e \in receipts' \/ (e <= now /\ e \notin due)
    <3>1. e \in Nat
      BY ExpiriesAreNat
    <3>2. CASE e > now
      <4>1. e \in sent \/ e \in receipts
        BY <1>4, <2>1, <3>1, <3>2 DEF ReminderInv, Remembered
      <4>2. QED
        BY <1>2, <1>4, <3>1, <3>2, <4>1
    <3>3. CASE e <= now
      BY <1>1, <1>4, <3>1, <3>3
    <3>4. QED
      BY <1>4, <3>1, <3>2, <3>3
  <2>2. \A e \in Expiries : e \in sent' \/ e \in receipts' => shown[e] # "never"
    BY <1>2 DEF ReminderInv, Remembered
  <2>3. QED
    BY <1>2, <1>3, <2>1, <2>2 DEF ReminderInv, Remembered, RemindedOnce
<1>8. WaitsFit'
  <2>1. \A e \in Expiries : failed'[e] = failed[e] \/ failed'[e] = NoFailure
    BY <1>2
  <2>2. Began' = now /\ Began = now
    BY <1>2, <1>3 DEF Began
  <2>3. QED
    BY <1>4, <2>1, <2>2 DEF ReminderInv, WaitsFit, NoFailure
<1>9. QED
  BY <1>5, <1>6, <1>7, <1>8 DEF ReminderInv

\* What all outcomes of one evaluation have in common.
LEMMA NextReminder ==
  ASSUME Days, ReminderInv, Evaluate
  PROVE  LET e == Min(round.left)
         IN /\ round.pc = "next" /\ e \in round.left /\ e \in Expiries /\ e \in Nat
            /\ UNCHANGED <<now, card, lead>>
            /\ Skip(e) \/ ReceiptUnread(e) \/ DeliveryFails(e) \/ Delivered(e)
  BY MinIsMember, ExpiriesAreNat DEF Evaluate, ReminderInv, ReminderTypes, Rounds

\* What is passed over because of sent, its wait or its receipt was shown or waits.
LEMMA SkipKeeps ==
  ASSUME Days, ReminderInv, NEW e \in round.left, round.pc = "next", Skip(e), UNCHANGED <<now, card>>
  PROVE  ReminderInv'
<1>1. /\ round' = [round EXCEPT !.left = @ \ {e}] /\ UNCHANGED <<sent, failed, receipts, shown>>
      /\ Waits(e) \/ e \in receipts
  BY DEF Skip, PassesOver
<1>2. /\ round \in Rounds /\ e \in Expiries /\ now \in Nat /\ RetryLate \in Nat
      /\ round.at \in Nat /\ failed[e] \in Failures
  BY WaitsGrow DEF ReminderInv, ReminderTypes, Rounds
<1>3. /\ round'.pc = "next" /\ round'.at = round.at /\ round'.due = round.due
      /\ round'.left = round.left \ {e} /\ round'.unread = round.unread /\ round' \in Rounds
  BY <1>1, <1>2 DEF Rounds
<1>4. Handled(e)
  <2>1. CASE e \in sent \/ e \in receipts
    BY <1>2, <2>1 DEF ReminderInv, Remembered, Handled
  <2>2. CASE failed[e].retry > round.at
    <3>1. failed[e].retry > 0 /\ failed[e].retry <= round.at + RetryLate
      BY <1>2, <2>2 DEF ReminderInv, WaitsFit, Began, Failures
    <3>2. failed[e].attempts > 0
      BY <1>2, <3>1 DEF ReminderInv, WaitsFit
    <3>3. QED
      BY <1>2, <3>1, <3>2 DEF Handled, Failures
  <2>3. QED
    BY <1>1, <2>1, <2>2 DEF Waits
<1>5. ReminderTypes' /\ RoundFits'
  BY <1>1, <1>3 DEF ReminderInv, ReminderTypes, RoundFits
<1>6. Remembered' /\ RemindedOnce'
  BY <1>1, <1>3 DEF ReminderInv, Remembered, RemindedOnce
<1>7. WaitsFit'
  BY <1>1, <1>3 DEF ReminderInv, WaitsFit, Began
<1>8. Accounted'
  BY <1>1, <1>3, <1>4 DEF ReminderInv, Accounted, Handled
<1>9. QED
  BY <1>5, <1>6, <1>7, <1>8 DEF ReminderInv

LEMMA UnreadKeeps ==
  ASSUME Days, ReminderInv, NEW e \in round.left, round.pc = "next", ReceiptUnread(e),
         UNCHANGED <<now, card>>
  PROVE  ReminderInv'
<1>1. /\ round' = [round EXCEPT !.left = @ \ {e}, !.unread = @ \cup {e}]
      /\ UNCHANGED <<sent, failed, receipts, shown>>
  BY DEF ReceiptUnread
<1>2. round \in Rounds /\ e \in Expiries
  BY DEF ReminderInv, ReminderTypes, Rounds
<1>3. /\ round'.pc = "next" /\ round'.at = round.at /\ round'.due = round.due
      /\ round'.left = round.left \ {e} /\ round'.unread = round.unread \cup {e}
      /\ round' \in Rounds
  BY <1>1, <1>2 DEF Rounds
<1>4. ReminderTypes' /\ RoundFits'
  BY <1>1, <1>3 DEF ReminderInv, ReminderTypes, RoundFits
<1>5. Remembered' /\ RemindedOnce'
  BY <1>1, <1>3 DEF ReminderInv, Remembered, RemindedOnce
<1>6. WaitsFit'
  BY <1>1, <1>3 DEF ReminderInv, WaitsFit, Began
<1>7. Accounted'
  BY <1>1, <1>3 DEF ReminderInv, Accounted, Handled
<1>8. QED
  BY <1>4, <1>5, <1>6, <1>7 DEF ReminderInv

\* What is tried was not shown before, or its failure was reported or its receipt lost.
LEMMA TriedIsNew ==
  ASSUME ReminderInv, NEW e \in round.left, ~Waits(e), e \notin receipts
  PROVE  /\ e \in Expiries /\ shown[e] \in {"never", "again"}
         /\ Seen(e) = [shown EXCEPT ![e] = "once"]
<1>1. e \in Expiries /\ shown[e] \in {"never", "once", "again", "twice"}
  BY DEF ReminderInv, ReminderTypes, Rounds
<1>2. shown[e] # "once" /\ shown[e] # "twice"
  BY <1>1 DEF ReminderInv, Remembered, RemindedOnce, Waits
<1>3. QED
  BY <1>1, <1>2 DEF Seen

LEMMA FailsKeeps ==
  ASSUME Days, ReminderInv, NEW e \in round.left, round.pc = "next", DeliveryFails(e),
         UNCHANGED <<now, card>>
  PROVE  ReminderInv'
<1>1. /\ ~Waits(e) /\ e \notin receipts
      /\ failed' = [failed EXCEPT ![e] = Failure(e)] /\ round' = [round EXCEPT !.left = @ \ {e}]
      /\ UNCHANGED <<sent, receipts>>
  BY DEF DeliveryFails, PassesOver
<1>2. /\ e \in Expiries /\ shown[e] \in {"never", "again"}
      /\ shown \in [Expiries -> {"never", "once", "again", "twice"}]
  BY <1>1, TriedIsNew DEF ReminderInv, ReminderTypes
<1>3. shown' = shown \/ shown' = [shown EXCEPT ![e] = "again"]
  <2>1. Seen(e)[e] = "once"
    BY <1>1, <1>2, TriedIsNew
  <2>2. QED
    BY <2>1 DEF DeliveryFails
<1>4. /\ round \in Rounds /\ now \in Nat /\ round.at \in Nat /\ failed[e] \in Failures
      /\ RetryLate \in Nat /\ RetrySoon \in Nat /\ RetrySoon <= RetryLate
      /\ failed \in [Expiries -> Failures]
  BY <1>2, WaitsGrow DEF ReminderInv, ReminderTypes, Rounds
<1>5. /\ round'.pc = "next" /\ round'.at = round.at /\ round'.due = round.due
      /\ round'.left = round.left \ {e} /\ round'.unread = round.unread /\ round' \in Rounds
  BY <1>1, <1>4, round.pc = "next" DEF Rounds
<1>6. /\ Failure(e) \in Failures /\ Failure(e).attempts > 0
      /\ Failure(e).retry <= round.at + RetryLate
  BY <1>4 DEF Failure, Failures
<1>7. /\ failed'[e] = Failure(e) /\ \A d \in Expiries \ {e} : failed'[d] = failed[d]
      /\ failed' \in [Expiries -> Failures]
  BY <1>1, <1>2, <1>4, <1>6
<1>8. /\ \A d \in Expiries : shown'[d] = shown[d] \/ (d = e /\ shown'[d] = "again")
      /\ shown' \in [Expiries -> {"never", "once", "again", "twice"}]
  BY <1>2, <1>3
<1>9. ReminderTypes'
  BY <1>1, <1>5, <1>7, <1>8 DEF ReminderInv, ReminderTypes
<1>10. RoundFits'
  BY <1>5 DEF ReminderInv, RoundFits
<1>11. Remembered' /\ RemindedOnce'
  BY <1>1, <1>5, <1>8 DEF ReminderInv, Remembered, RemindedOnce
<1>12. WaitsFit'
  <2>1. Began' = round.at /\ Began = round.at
    BY <1>5, round.pc = "next" DEF Began
  <2>2. QED
    BY <1>2, <1>6, <1>7, <2>1 DEF ReminderInv, WaitsFit
<1>13. Accounted'
  <2>1. ASSUME NEW d \in (round'.due \ round'.left) \ round'.unread PROVE Handled(d)'
    <3>1. CASE d = e
      BY <1>5, <1>6, <1>7, <3>1 DEF Handled
    <3>2. CASE d # e
      <4>1. d \in Expiries /\ Handled(d)
        BY <1>4, <1>5, <2>1, <3>2, round.pc = "next" DEF ReminderInv, Accounted, Rounds
      <4>2. QED
        BY <1>5, <1>7, <1>8, <3>2, <4>1 DEF Handled
    <3>3. QED
      BY <3>1, <3>2
  <2>2. QED
    BY <2>1 DEF Accounted
<1>14. QED
  BY <1>9, <1>10, <1>11, <1>12, <1>13 DEF ReminderInv

\* A delivered reminder is in sent before anything else happens.
LEMMA DeliveredKeeps ==
  ASSUME Days, ReminderInv, round.pc = "next", round.left # {}, Delivered(Min(round.left)),
         UNCHANGED <<now, card>>
  PROVE  ReminderInv'
<1> DEFINE e == Min(round.left)
<1>1. e \in round.left
  BY MinIsMember DEF ReminderInv, ReminderTypes, Rounds
<1>2. /\ ~Waits(e) /\ e \notin receipts /\ failed' = [failed EXCEPT ![e] = NoFailure]
      /\ sent' = sent \cup {e} /\ round' = [round EXCEPT !.pc = "save"]
      /\ shown' = Seen(e) /\ receipts' = receipts
  BY DEF Delivered
<1>3. round.left # {} /\ Min(round.left) = e
  OBVIOUS
<1> HIDE DEF e
<1>4. /\ e \in Expiries /\ shown' = [shown EXCEPT ![e] = "once"]
      /\ shown \in [Expiries -> {"never", "once", "again", "twice"}]
  BY <1>1, <1>2, TriedIsNew DEF ReminderInv, ReminderTypes
<1>5. /\ round \in Rounds /\ now \in Nat /\ round.at \in Nat /\ RetryLate \in Nat
      /\ failed \in [Expiries -> Failures] /\ NoFailure \in Failures
  BY WaitsGrow DEF ReminderInv, ReminderTypes, Rounds, NoFailure, Failures
<1>6. /\ round'.pc = "save" /\ round'.at = round.at /\ round'.due = round.due
      /\ round'.left = round.left /\ round'.unread = round.unread /\ round' \in Rounds
  BY <1>2, <1>5 DEF Rounds
<1>7. /\ failed'[e] = NoFailure /\ \A d \in Expiries \ {e} : failed'[d] = failed[d]
      /\ failed' \in [Expiries -> Failures]
  BY <1>2, <1>4, <1>5
<1>8. /\ shown'[e] = "once" /\ \A d \in Expiries \ {e} : shown'[d] = shown[d]
      /\ shown' \in [Expiries -> {"never", "once", "again", "twice"}]
  BY <1>4
<1>9. ReminderTypes'
  BY <1>2, <1>4, <1>6, <1>7, <1>8 DEF ReminderInv, ReminderTypes
<1>10. RoundFits'
  <2>1. Min(round'.left) = e
    BY <1>3, <1>6
  <2>2. QED
    BY <1>1, <1>2, <1>6, <2>1 DEF ReminderInv, RoundFits
<1>11. Remembered'
  BY <1>2, <1>6, <1>8 DEF ReminderInv, Remembered
<1>12. RemindedOnce'
  BY <1>8 DEF ReminderInv, RemindedOnce
<1>13. WaitsFit'
  <2>1. Began' = round.at /\ Began = round.at
    BY <1>6, round.pc = "next" DEF Began
  <2>2. QED
    BY <1>5, <1>7, <2>1 DEF ReminderInv, WaitsFit, NoFailure
<1>14. Accounted'
  <2>1. ASSUME NEW d \in (round'.due \ round'.left) \ round'.unread PROVE Handled(d)'
    <3>1. d # e /\ d \in Expiries /\ Handled(d)
      BY <1>1, <1>5, <1>6, <2>1, round.pc = "next" DEF ReminderInv, Accounted, Rounds
    <3>2. QED
      BY <1>6, <1>7, <1>8, <3>1 DEF Handled
  <2>2. QED
    BY <2>1 DEF Accounted
<1>15. QED
  BY <1>9, <1>10, <1>11, <1>12, <1>13, <1>14 DEF ReminderInv

LEMMA SaveKeeps == ASSUME Days, ReminderInv, Save PROVE ReminderInv'
<1> DEFINE e == Min(round.left)
<1>1. /\ round.pc = "save" /\ e \in sent /\ receipts' \in {receipts, receipts \cup {e}}
      /\ round' = [round EXCEPT !.pc = "next", !.left = @ \ {Min(@)}]
      /\ UNCHANGED <<now, card, lead, sent, failed, shown>>
  BY DEF Save, ReminderInv, RoundFits
<1>2. round \in Rounds /\ e \in Expiries
  BY <1>1 DEF ReminderInv, ReminderTypes
<1>3. /\ round'.pc = "next" /\ round'.at = round.at /\ round'.due = round.due
      /\ round'.left = round.left \ {e} /\ round'.unread = round.unread /\ round' \in Rounds
  BY <1>1, <1>2 DEF Rounds
<1> HIDE DEF e
<1>4. shown[e] # "never"
  BY <1>1, <1>2 DEF ReminderInv, Remembered
<1>5. ReminderTypes' /\ RoundFits'
  BY <1>1, <1>2, <1>3 DEF ReminderInv, ReminderTypes, RoundFits
<1>6. Remembered' /\ RemindedOnce'
  BY <1>1, <1>3, <1>4 DEF ReminderInv, Remembered, RemindedOnce
<1>7. WaitsFit'
  BY <1>1, <1>3 DEF ReminderInv, WaitsFit, Began
<1>8. Accounted'
  BY <1>1, <1>3, <1>4 DEF ReminderInv, Accounted, Handled
<1>9. QED
  BY <1>5, <1>6, <1>7, <1>8 DEF ReminderInv

LEMMA EndsKeeps == ASSUME ReminderInv, NotifyEnds PROVE ReminderInv'
<1>1. /\ round.pc = "next" /\ round' = NoRound
      /\ UNCHANGED <<now, card, lead, sent, failed, receipts, shown>>
  BY DEF NotifyEnds
<1>2. /\ round'.pc = "idle" /\ round'.at = 0 /\ round'.left = {} /\ round' \in Rounds
  BY <1>1 DEF NoRound, Rounds
<1>3. /\ now \in Nat /\ round.at \in Nat /\ round.at <= now /\ RetryLate \in Nat
      /\ failed \in [Expiries -> Failures]
  BY WaitsGrow DEF ReminderInv, ReminderTypes, Rounds, RoundFits
<1>4. ReminderTypes' /\ RoundFits' /\ Accounted'
  BY <1>1, <1>2, <1>3 DEF ReminderInv, ReminderTypes, RoundFits, Accounted
<1>5. Remembered' /\ RemindedOnce'
  BY <1>1, <1>2 DEF ReminderInv, Remembered, RemindedOnce
<1>6. WaitsFit'
  BY <1>1, <1>2, <1>3 DEF ReminderInv, WaitsFit, Began, Failures
<1>7. QED
  BY <1>4, <1>5, <1>6 DEF ReminderInv

\* A launch knows of the receipts alone.
LEMMA RestartKeeps == ASSUME ReminderInv, Restart PROVE ReminderInv'
<1>1. /\ round' = NoRound /\ sent' = {} /\ failed' = [e \in Expiries |-> NoFailure]
      /\ shown' = [e \in Expiries |-> IF shown[e] = "once" /\ e \notin receipts THEN "again"
                                      ELSE shown[e]]
      /\ UNCHANGED <<now, card, lead, receipts>>
  BY DEF Restart
<1>2. /\ round'.pc = "idle" /\ round'.at = 0 /\ round'.left = {} /\ round' \in Rounds
  BY <1>1 DEF NoRound, Rounds
<1>3. now \in Nat /\ RetryLate \in Nat /\ NoFailure \in Failures
  BY WaitsGrow DEF ReminderInv, ReminderTypes, NoFailure, Failures
<1>4. \A e \in Expiries :
        /\ failed'[e] = NoFailure
        /\ (shown'[e] = shown[e] /\ (shown[e] = "once" => e \in receipts)) \/ shown'[e] = "again"
  BY <1>1
<1>5. ReminderTypes'
  <2>1. shown' \in [Expiries -> {"never", "once", "again", "twice"}]
    BY <1>1 DEF ReminderInv, ReminderTypes
  <2>2. QED
    BY <1>1, <1>2, <1>3, <2>1 DEF ReminderInv, ReminderTypes
<1>6. RoundFits' /\ Accounted'
  BY <1>1, <1>2, <1>3 DEF RoundFits, Accounted
<1>7. Remembered' /\ RemindedOnce'
  BY <1>1, <1>2, <1>4 DEF ReminderInv, Remembered, RemindedOnce
<1>8. WaitsFit'
  BY <1>1, <1>2, <1>3, <1>4 DEF WaitsFit, Began, NoFailure
<1>9. QED
  BY <1>5, <1>6, <1>7, <1>8 DEF ReminderInv

-----------------------------------------------------------------------------
LEMMA ReminderStep == ASSUME Days, ReminderInv, [Next]_vars PROVE ReminderInv'
<1>1. CASE Notify
  BY <1>1, NotifyKeeps
<1>2. CASE Evaluate
  <2> DEFINE e == Min(round.left)
  <2>1. /\ round.pc = "next" /\ e \in round.left /\ round.left # {}
        /\ UNCHANGED <<now, card>>
        /\ Skip(e) \/ ReceiptUnread(e) \/ DeliveryFails(e) \/ Delivered(e)
    BY <1>2, NextReminder
  <2>2. CASE Delivered(e)
    BY <2>1, <2>2, DeliveredKeeps
  <2>3. CASE Skip(e) \/ ReceiptUnread(e) \/ DeliveryFails(e)
    <3> HIDE DEF e
    <3>1. QED
      BY <2>1, <2>3, SkipKeeps, UnreadKeeps, FailsKeeps
  <2>4. QED
    BY <2>1, <2>2, <2>3
<1>3. CASE Save
  BY <1>3, SaveKeeps
<1>4. CASE NotifyEnds
  BY <1>4, EndsKeeps
<1>5. CASE Restart
  BY <1>5, RestartKeeps
<1>6. CASE TimePasses \/ (\E hours \in LeadTimes : LeadChanges(hours))
           \/ (\E credits \in SUBSET card : CardRefreshed(credits)) \/ UNCHANGED vars
  <2>1. now' \in {now, now + 1} /\ card' \subseteq card
        /\ UNCHANGED <<round, sent, failed, receipts, shown>>
    BY <1>6 DEF TimePasses, LeadChanges, CardRefreshed, vars, delivery
  <2>2. QED
    BY <2>1, WorldKeeps
<1>7. QED
  BY <1>1, <1>2, <1>3, <1>4, <1>5, <1>6 DEF Next

THEOREM RemindersHold == ASSUME Days PROVE Spec => []ReminderInv
<1>1. Init => ReminderInv
  BY RemindersInitially
<1>2. ReminderInv /\ [Next]_vars => ReminderInv'
  BY ReminderStep
<1>3. QED
  BY <1>1, <1>2, PTL DEF Spec

\* A reminder is shown once, unless its delivery was reported as failed or its receipt was lost
\* with the process (notify, DeliveryState.sent, reset_expiry_notified).
THEOREM NoReminderTwice == ASSUME Days PROVE Spec => []RemindedOnce
<1>1. ReminderInv => RemindedOnce
  BY DEF ReminderInv
<1>2. QED
  BY <1>1, RemindersHold, PTL

\* A round leaves no due reminder behind that was not shown and will not be tried again within
\* RetryLate (notify).
THEOREM DueIsTriedAgain == ASSUME Days PROVE Spec => StaysDue
<1>1. ReminderInv /\ [Next]_vars
        => [NotifyEnds => \A e \in round.due \ round.unread :
              \/ shown[e] # "never"
              \/ 0 < failed[e].attempts /\ failed[e].retry <= round.at + RetryLate]_vars
  BY DEF ReminderInv, Accounted, Handled, NotifyEnds
<1>2. QED
  BY <1>1, RemindersHold, PTL DEF Spec, StaysDue

-----------------------------------------------------------------------------
(*****************************************************************************)
(* ResetClaims: no use of a credit slips away.  An id the dialog shows is of one *)
(* expiry, a claim works on what its id is matched with, and a used credit is *)
(* the one its request was matched with.                                     *)
(*****************************************************************************)
Ids == {0} \cup 1..requests
ClaimRecords == [pc : {"idle", "list", "consume", "answer"}, id : Ids, expiry : {0} \cup C!Expiries,
                 credit : {0} \cup Credits, first : Nat, left : SUBSET Nat, outcome : C!Outcomes]
\* No id is used that was not made, and nothing is known of a request before it is made.
ClaimTypes ==
  /\ requests \in 0..MaxRequests
  /\ redeemed \in [Credits -> Ids]
  /\ dialog \in [ids : [C!Expiries -> Ids], asking : {0} \cup C!Expiries,
                 pending : Claims \cup {NoClaim}]
  /\ claim \in [Claims -> ClaimRecords]
  /\ matched \in [C!Requests -> {0} \cup Credits]
  /\ \A r \in C!Requests : matched[r] # 0 => r <= requests
  /\ settled \subseteq 1..requests

\* An entry of the dialog has an id of its own, which is matched with a credit of its expiry.
DialogFits ==
  /\ dialog.asking # 0 => dialog.ids[dialog.asking] # 0
  /\ \A e, f \in C!Expiries : dialog.ids[e] = dialog.ids[f] /\ dialog.ids[e] # 0 => e = f
  /\ \A e \in C!Expiries :
       dialog.ids[e] # 0 /\ dialog.ids[e] \notin settled /\ matched[dialog.ids[e]] # 0 =>
         ClaimExpiry[matched[dialog.ids[e]]] = e

Uncertain(k) == claim[k].id \notin settled
\* A claim whose outcome somebody has to learn is the one the dialog waits for.
Awaited(k) ==
  /\ dialog.pending = k =>
       /\ claim[k].pc # "idle" /\ claim[k].expiry \in C!Expiries
       /\ dialog.ids[claim[k].expiry] = claim[k].id
  /\ claim[k].pc # "idle" => /\ claim[k].id \in 1..requests
                             /\ Uncertain(k) => dialog.pending = k
\* It asks for the list only before the request is matched, uses the credit it is matched with,
\* and answers that nothing was used only if nothing was.
WorksOnMatch(k) ==
  /\ claim[k].pc = "list" /\ Uncertain(k) => matched[claim[k].id] = 0
  /\ claim[k].pc = "consume" => /\ claim[k].credit \in Credits
                                /\ Uncertain(k) => matched[claim[k].id] = claim[k].credit
  /\ claim[k].pc = "answer" /\ claim[k].outcome \notin {"failed", "success"} /\ Uncertain(k) =>
       \A c \in Credits : redeemed[c] # claim[k].id
UsedIsMatched ==
  \A c \in Credits : redeemed[c] # 0 /\ redeemed[c] \notin settled => matched[redeemed[c]] = c
claimAll == <<now, redeemed, card, requests, dialog, claim, matched, settled>>
ClaimInv ==
  /\ ClaimTypes /\ DialogFits /\ \A k \in Claims : Awaited(k) /\ WorksOnMatch(k)
  /\ UsedIsMatched /\ C!UseIsKnown

LEMMA ClaimFacts ==
  /\ MaxRequests \in Nat /\ 0 \notin Credits /\ NoClaim \notin Claims
  /\ C!Expiries \subseteq Nat \ {0}
  /\ \A c \in Credits : ClaimExpiry[c] \in C!Expiries
  /\ C!Requests = 1..MaxRequests
BY ClaimAssumption DEF C!Expiries, C!Requests

LEMMA ClaimsStart == C!Init => ClaimInv
<1> SUFFICES ASSUME C!Init PROVE ClaimInv
  OBVIOUS
<1> USE ClaimFacts DEF C!Init, C!None, C!Closed, C!Rest
<1>1. ClaimTypes BY DEF ClaimTypes, Ids, ClaimRecords, C!Outcomes
<1>2. DialogFits BY DEF DialogFits
<1>3. \A k \in Claims : Awaited(k) /\ WorksOnMatch(k) BY DEF Awaited, WorksOnMatch
<1>4. UsedIsMatched /\ C!UseIsKnown BY DEF UsedIsMatched, C!UseIsKnown
<1> QED BY <1>1, <1>2, <1>3, <1>4 DEF ClaimInv

LEMMA BeginClaimKeeps == ASSUME NEW e \in C!Expiries, ClaimInv, C!BeginClaim(e) PROVE ClaimInv'
<1> USE ClaimFacts DEF ClaimInv, C!None
<1>1. UNCHANGED <<redeemed, claim, matched, settled>> /\ dialog.pending = NoClaim
  BY DEF C!BeginClaim
<1>2. CASE dialog.ids[e] # 0
  <2>1. dialog' = [dialog EXCEPT !.asking = e] /\ requests' = requests BY <1>2 DEF C!BeginClaim
  <2>2. dialog'.ids = dialog.ids /\ dialog'.pending = dialog.pending /\ dialog'.asking = e
    BY <2>1 DEF ClaimTypes
  <2>3. ClaimTypes' BY <1>1, <2>1 DEF ClaimTypes, Ids, ClaimRecords
  <2>4. DialogFits' BY <1>1, <1>2, <2>2 DEF DialogFits
  <2>5. \A k \in Claims : Awaited(k)' /\ WorksOnMatch(k)'
    BY <1>1, <2>1, <2>2 DEF Awaited, WorksOnMatch, Uncertain
  <2>6. UsedIsMatched' /\ C!UseIsKnown' BY <1>1, <2>2 DEF UsedIsMatched, C!UseIsKnown
  <2> QED BY <2>3, <2>4, <2>5, <2>6
<1>3. CASE dialog.ids[e] = 0
  <2>1. /\ requests < MaxRequests /\ requests' = requests + 1
        /\ dialog' = [dialog EXCEPT !.asking = e, !.ids[e] = requests']
    BY <1>3 DEF C!BeginClaim
  <2>2. /\ dialog'.ids = [dialog.ids EXCEPT ![e] = requests + 1] /\ dialog'.pending = NoClaim
        /\ dialog'.asking = e
    BY <1>1, <2>1 DEF ClaimTypes
  <2>3. Ids \subseteq Ids' /\ requests \in Nat /\ requests + 1 \in Ids' /\ requests + 1 \notin Ids
    BY <2>1 DEF ClaimTypes, Ids
  <2>4. ClaimTypes'
    <3>1. dialog'.ids \in [C!Expiries -> Ids'] BY <2>2, <2>3 DEF ClaimTypes
    <3>2. ClaimRecords \subseteq ClaimRecords' BY <2>3 DEF ClaimRecords
    <3>3. dialog' \in [ids : [C!Expiries -> Ids'], asking : {0} \cup C!Expiries,
                       pending : Claims \cup {NoClaim}]
      BY <3>1, <2>1, <2>2 DEF ClaimTypes
    <3>4. redeemed \in [Credits -> Ids'] /\ claim \in [Claims -> ClaimRecords']
      BY <2>3, <3>2 DEF ClaimTypes
    <3>5. requests' \in 0..MaxRequests /\ settled' \subseteq 1..requests'
      BY <1>1, <2>1, <2>3 DEF ClaimTypes
    <3>6. \A r \in C!Requests : matched'[r] # 0 => r <= requests'
      BY <1>1, <2>1, <2>3 DEF ClaimTypes
    <3> QED BY <1>1, <3>3, <3>4, <3>5, <3>6 DEF ClaimTypes
  <2>5. DialogFits'
    <3>1. \A f \in C!Expiries : /\ dialog.ids[f] \in Ids
                               /\ dialog'.ids[f] = IF f = e THEN requests + 1 ELSE dialog.ids[f]
      BY <2>2 DEF ClaimTypes
    <3>2. requests + 1 \in C!Requests /\ matched[requests + 1] = 0
      BY <2>1, <2>3 DEF ClaimTypes
    <3> QED BY <1>1, <2>2, <2>3, <3>1, <3>2 DEF DialogFits
  <2>6. \A k \in Claims : Awaited(k)' /\ WorksOnMatch(k)'
    BY <1>1, <2>1, <2>2, <2>3 DEF Awaited, WorksOnMatch, Uncertain
  <2>7. UsedIsMatched' /\ C!UseIsKnown'
    BY <1>1, <1>3, <2>2 DEF UsedIsMatched, C!UseIsKnown, ClaimTypes
  <2> QED BY <2>4, <2>5, <2>6, <2>7
<1> QED BY <1>2, <1>3

LEMMA ConfirmClaimKeeps == ASSUME NEW k \in Claims, ClaimInv, C!ConfirmClaim(k) PROVE ClaimInv'
<1> USE ClaimFacts DEF ClaimInv, C!None
<1> DEFINE id == dialog.ids[dialog.asking]
<1>1. /\ dialog.asking \in C!Expiries /\ dialog.pending = NoClaim /\ claim[k].pc = "idle"
      /\ dialog' = [dialog EXCEPT !.pending = k]
      /\ UNCHANGED <<redeemed, requests, matched, settled>>
  BY DEF C!ConfirmClaim, ClaimTypes
<1>2. id \in 1..requests /\ id \in C!Requests
  BY <1>1 DEF ClaimTypes, DialogFits, Ids
<1>3. PICK c \in ClaimRecords :
        /\ claim' = [claim EXCEPT ![k] = c] /\ c.id = id /\ c.expiry = dialog.asking
        /\ \/ c.pc = "answer" /\ c.outcome = "failed"
           \/ c.pc = "list" /\ matched[id] = 0
           \/ c.pc = "consume" /\ matched[id] # 0 /\ c.credit = matched[id]
  <2> DEFINE new == [C!Rest EXCEPT !.id = id, !.expiry = dialog.asking]
             use == [new EXCEPT !.pc = "consume", !.credit = matched[id], !.left = 1..Len(Logins)]
  <2>1. matched[id] \in {0} \cup Credits /\ 1..Len(Logins) \in SUBSET Nat
    BY <1>2 DEF ClaimTypes
  <2>2. new \in ClaimRecords /\ new.id = id /\ new.expiry = dialog.asking /\ new.outcome = "failed"
    BY <1>1, <1>2 DEF C!Rest, ClaimRecords, Ids, C!Outcomes
  <2> HIDE DEF new
  <2>3. \A p \in {"answer", "list"} :
          LET c == [new EXCEPT !.pc = p] IN
          /\ c \in ClaimRecords /\ c.pc = p /\ c.id = id /\ c.expiry = dialog.asking
          /\ c.outcome = "failed"
    BY <2>2 DEF ClaimRecords
  <2>4. /\ use \in ClaimRecords /\ use.pc = "consume" /\ use.id = id /\ use.expiry = dialog.asking
        /\ use.credit = matched[id]
    BY <2>1, <2>2 DEF ClaimRecords
  <2>5. PICK c \in {[new EXCEPT !.pc = "answer"],
                    IF matched[id] = 0 THEN [new EXCEPT !.pc = "list"] ELSE use} :
          claim' = [claim EXCEPT ![k] = c]
    BY DEF C!ConfirmClaim, new
  <2> HIDE DEF use
  <2>6. CASE c = [new EXCEPT !.pc = "answer"] BY <2>3, <2>5, <2>6
  <2>7. CASE matched[id] = 0 /\ c = [new EXCEPT !.pc = "list"] BY <2>3, <2>5, <2>7
  <2>8. CASE matched[id] # 0 /\ c = use BY <2>4, <2>5, <2>8
  <2> QED BY <2>5, <2>6, <2>7, <2>8
<1>4. /\ dialog'.ids = dialog.ids /\ dialog'.asking = dialog.asking /\ dialog'.pending = k
  BY <1>1 DEF ClaimTypes
<1>5. \A j \in Claims : claim'[j] = IF j = k THEN c ELSE claim[j] BY <1>3 DEF ClaimTypes
<1>6. ClaimTypes'
  <2>1. claim' \in [Claims -> ClaimRecords] BY <1>3 DEF ClaimTypes
  <2> QED BY <1>1, <2>1 DEF ClaimTypes, Ids, ClaimRecords
<1>7. DialogFits' BY <1>1, <1>4 DEF DialogFits
<1>8. ASSUME NEW j \in Claims PROVE Awaited(j)' /\ WorksOnMatch(j)'
  <2>1. CASE j = k
    <3>1. claim'[j] = c BY <2>1, <1>5
    <3>2. Awaited(j)' BY <3>1, <2>1, <1>1, <1>2, <1>3, <1>4 DEF Awaited
    <3>3. matched[id] \in {0} \cup Credits BY <1>2 DEF ClaimTypes
    <3> QED BY <3>1, <3>2, <3>3, <1>1, <1>3 DEF WorksOnMatch, Uncertain
  <2>2. CASE j # k
    <3>1. claim'[j] = claim[j] BY <2>2, <1>5
    <3> QED BY <3>1, <2>2, <1>1, <1>4 DEF Awaited, WorksOnMatch, Uncertain
  <2> QED BY <2>1, <2>2
<1>9. UsedIsMatched' /\ C!UseIsKnown' BY <1>1, <1>4 DEF UsedIsMatched, C!UseIsKnown
<1> QED BY <1>6, <1>7, <1>8, <1>9

LEMMA CancelClaimKeeps == ASSUME ClaimInv, C!CancelClaim PROVE ClaimInv'
<1> USE ClaimFacts DEF ClaimInv, C!None
<1>1. /\ dialog' = [dialog EXCEPT !.asking = 0]
      /\ UNCHANGED <<redeemed, requests, claim, matched, settled>>
  BY DEF C!CancelClaim
<1>2. dialog'.ids = dialog.ids /\ dialog'.asking = 0 /\ dialog'.pending = dialog.pending
  BY <1>1 DEF ClaimTypes
<1>3. ClaimTypes' BY <1>1 DEF ClaimTypes, Ids, ClaimRecords
<1>4. DialogFits' BY <1>1, <1>2 DEF DialogFits
<1>5. \A k \in Claims : Awaited(k)' /\ WorksOnMatch(k)'
  BY <1>1, <1>2 DEF Awaited, WorksOnMatch, Uncertain
<1>6. UsedIsMatched' /\ C!UseIsKnown' BY <1>1, <1>2 DEF UsedIsMatched, C!UseIsKnown
<1> QED BY <1>3, <1>4, <1>5, <1>6

\* A dialog that is closed settles what it held the ids of.
LEMMA CloseDialogKeeps == ASSUME ClaimInv, C!CloseDialog PROVE ClaimInv'
<1> USE ClaimFacts DEF ClaimInv, C!None
<1>1. /\ dialog' = C!Closed /\ UNCHANGED <<redeemed, requests, claim, matched>>
      /\ settled' = settled \cup ({dialog.ids[e] : e \in C!Expiries} \ {0})
  BY DEF C!CloseDialog
<1>2. /\ dialog'.ids = [e \in C!Expiries |-> 0] /\ dialog'.asking = 0 /\ dialog'.pending = NoClaim
  BY <1>1 DEF C!Closed
<1>3. settled' \subseteq 1..requests /\ \A e \in C!Expiries : dialog.ids[e] \in settled' \cup {0}
  <2>1. \A e \in C!Expiries : dialog.ids[e] \in {0} \cup 1..requests BY DEF ClaimTypes, Ids
  <2>2. settled \subseteq 1..requests BY DEF ClaimTypes
  <2> QED BY <2>1, <2>2, <1>1
<1>4. ClaimTypes'
  <2>1. dialog' \in [ids : [C!Expiries -> Ids], asking : {0} \cup C!Expiries,
                     pending : Claims \cup {NoClaim}]
    BY <1>1 DEF C!Closed, Ids
  <2> QED BY <2>1, <1>1, <1>3 DEF ClaimTypes, Ids, ClaimRecords
<1>5. DialogFits' BY <1>2 DEF DialogFits
<1>6. ASSUME NEW k \in Claims PROVE Awaited(k)' /\ WorksOnMatch(k)'
  <2>1. claim[k].pc # "idle" => claim[k].id \in settled'
    BY <1>1, <1>3 DEF Awaited, Uncertain
  <2>2. Awaited(k)' BY <2>1, <1>1, <1>2 DEF Awaited, Uncertain
  <2> QED BY <2>1, <2>2, <1>1 DEF WorksOnMatch, Uncertain
<1>7. UsedIsMatched' BY <1>1 DEF UsedIsMatched
<1>8. C!UseIsKnown' BY <1>1, <1>3 DEF C!UseIsKnown
<1> QED BY <1>4, <1>5, <1>6, <1>7, <1>8

\* The end of a claim: its answer is on its way to the dialog.
LEMMA ClaimEnds ==
  ASSUME NEW k \in Claims, ClaimTypes, NEW outcome \in C!Outcomes, C!Ends(k, outcome)
  PROVE  /\ claim' \in [Claims -> ClaimRecords]
         /\ \A j \in Claims \ {k} : claim'[j] = claim[j]
         /\ claim'[k].pc = "answer" /\ claim'[k].id = claim[k].id
         /\ claim'[k].expiry = claim[k].expiry /\ claim'[k].outcome = outcome
<1> DEFINE c == [C!Rest EXCEPT !.pc = "answer", !.id = claim[k].id, !.expiry = claim[k].expiry,
                               !.outcome = outcome]
<1>1. claim[k] \in ClaimRecords BY DEF ClaimTypes
<1>2. /\ c \in ClaimRecords /\ c.pc = "answer" /\ c.id = claim[k].id
      /\ c.expiry = claim[k].expiry /\ c.outcome = outcome
  BY <1>1, ClaimFacts DEF C!Rest, C!None, ClaimRecords
<1> HIDE DEF c
<1>3. claim' = [claim EXCEPT ![k] = c] BY DEF C!Ends, c
<1> QED BY <1>2, <1>3 DEF ClaimTypes

\* An answer is as it should be if it does not deny a use that somebody has to learn of.
LEMMA AnswerFits ==
  ASSUME NEW k \in Claims, ClaimInv, NEW outcome \in C!Outcomes, C!Ends(k, outcome),
         claim[k].pc # "idle",
         UNCHANGED <<redeemed, requests, dialog, matched, settled>>,
         outcome \notin {"failed", "success"} /\ Uncertain(k) =>
           \A c \in Credits : redeemed[c] # claim[k].id
  PROVE  ClaimInv'
<1> USE DEF ClaimInv
<1>1. /\ claim' \in [Claims -> ClaimRecords]
      /\ \A j \in Claims \ {k} : claim'[j] = claim[j]
      /\ claim'[k].pc = "answer" /\ claim'[k].id = claim[k].id
      /\ claim'[k].expiry = claim[k].expiry /\ claim'[k].outcome = outcome
  BY ClaimEnds
<1>2. ClaimTypes' BY <1>1 DEF ClaimTypes, Ids, ClaimRecords
<1>3. DialogFits' BY DEF DialogFits
<1>4. ASSUME NEW j \in Claims PROVE Awaited(j)' /\ WorksOnMatch(j)'
  <2>1. CASE j = k BY <2>1, <1>1 DEF Awaited, WorksOnMatch, Uncertain
  <2>2. CASE j # k BY <2>2, <1>1 DEF Awaited, WorksOnMatch, Uncertain
  <2> QED BY <2>1, <2>2
<1>5. UsedIsMatched' /\ C!UseIsKnown' BY DEF UsedIsMatched, C!UseIsKnown
<1> QED BY <1>2, <1>3, <1>4, <1>5

LEMMA ListFailsKeeps == ASSUME NEW k \in Claims, ClaimInv, C!ListFails(k) PROVE ClaimInv'
<1>1. /\ claim[k].pc = "list" /\ UNCHANGED <<redeemed, requests, dialog, matched, settled>>
      /\ C!Ends(k, "failed") \/ C!Ends(k, "noCredit")
  BY DEF C!ListFails
<1>2. ASSUME NEW c \in Credits, redeemed[c] = claim[k].id PROVE ~Uncertain(k)
  BY <1>1, <1>2, ClaimFacts
  DEF ClaimInv, Awaited, WorksOnMatch, UsedIsMatched, Uncertain
<1>3. "failed" \in C!Outcomes /\ "noCredit" \in C!Outcomes BY DEF C!Outcomes
<1>4. claim[k].pc # "idle" BY <1>1
<1> QED BY <1>1, <1>2, <1>3, <1>4, AnswerFits

LEMMA ListKeeps == ASSUME NEW k \in Claims, ClaimInv, C!List(k) PROVE ClaimInv'
<1> USE ClaimFacts DEF ClaimInv, C!None
<1> DEFINE id == claim[k].id
           Known == {r \in C!Requests : matched[r] # 0}
<1>1. PICK i \in 1..Len(Logins), c \in Credits :
        /\ c \in C!Matching(k, i)
        /\ claim' = [claim EXCEPT ![k].pc = "consume", ![k].credit = c, ![k].first = i,
                                  ![k].left = 1..Len(Logins)]
        /\ \/ matched' = [matched EXCEPT ![id] = c] /\ settled' = settled
           \/ /\ matched' = [[r \in C!Requests |-> 0] EXCEPT ![id] = c]
              /\ settled' = settled \cup Known
  BY DEF C!List, C!Matching, C!Available
<1>2. claim[k].pc = "list" /\ UNCHANGED <<redeemed, requests, dialog>> BY DEF C!List
<1>3. c \in Credits /\ ClaimExpiry[c] = claim[k].expiry BY <1>1 DEF C!Matching
<1>4. /\ claim[k] \in ClaimRecords /\ id \in 1..requests /\ id \in C!Requests
      /\ Uncertain(k) => matched[id] = 0 /\ dialog.pending = k
  BY <1>2 DEF ClaimTypes, Awaited, WorksOnMatch
<1>5. /\ claim' \in [Claims -> ClaimRecords] /\ \A j \in Claims \ {k} : claim'[j] = claim[j]
      /\ claim'[k].pc = "consume" /\ claim'[k].credit = c /\ claim'[k].id = id
      /\ claim'[k].expiry = claim[k].expiry
  <2>1. i \in Nat /\ 1..Len(Logins) \in SUBSET Nat OBVIOUS
  <2> QED BY <2>1, <1>1, <1>3, <1>4 DEF ClaimTypes, ClaimRecords
<1>6. /\ matched' \in [C!Requests -> {0} \cup Credits] /\ matched'[id] = c
      /\ settled \subseteq settled' /\ settled' \subseteq 1..requests
      /\ \A r \in C!Requests \ {id} : \/ matched'[r] = matched[r]
                                      \/ matched[r] # 0 /\ matched'[r] = 0 /\ r \in settled'
  <2>1. Known \subseteq 1..requests BY DEF ClaimTypes
  <2>2. CASE matched' = [matched EXCEPT ![id] = c] /\ settled' = settled
    BY <2>2, <1>3, <1>4 DEF ClaimTypes
  <2>3. CASE /\ matched' = [[r \in C!Requests |-> 0] EXCEPT ![id] = c]
             /\ settled' = settled \cup Known
    BY <2>1, <2>3, <1>3, <1>4 DEF ClaimTypes
  <2> QED BY <2>2, <2>3, <1>1
<1> HIDE DEF id, Known
<1>7. ClaimTypes'
  <2>1. \A r \in C!Requests : matched'[r] # 0 => r <= requests
    <3>1. id <= requests BY <1>4 DEF ClaimTypes
    <3> QED BY <3>1, <1>6 DEF ClaimTypes
  <2> QED BY <2>1, <1>2, <1>5, <1>6 DEF ClaimTypes, Ids, ClaimRecords
<1>8. DialogFits'
  <2>1. SUFFICES ASSUME NEW e \in C!Expiries, dialog.ids[e] # 0, dialog.ids[e] \notin settled',
                        matched'[dialog.ids[e]] # 0
                 PROVE  ClaimExpiry[matched'[dialog.ids[e]]] = e
    BY <1>2 DEF DialogFits
  <2>2. dialog.ids[e] \in C!Requests BY <2>1 DEF ClaimTypes, Ids
  <2>3. CASE dialog.ids[e] = id
    <3>1. dialog.pending = k BY <2>1, <2>3, <1>4, <1>6 DEF Uncertain, id
    <3>2. claim[k].expiry = e BY <3>1, <2>1, <2>3 DEF Awaited, DialogFits, id
    <3> QED BY <3>2, <2>3, <1>3, <1>6
  <2>4. CASE dialog.ids[e] # id BY <2>1, <2>2, <2>4, <1>6 DEF DialogFits
  <2> QED BY <2>3, <2>4
<1>9. ASSUME NEW j \in Claims PROVE Awaited(j)' /\ WorksOnMatch(j)'
  <2>1. CASE j = k
    BY <2>1, <1>2, <1>3, <1>5, <1>6 DEF Awaited, WorksOnMatch, Uncertain, id
  <2>2. CASE j # k
    <3>1. claim'[j] = claim[j] BY <2>2, <1>5
    <3>2. Awaited(j)' BY <3>1, <1>2, <1>6 DEF Awaited, Uncertain
    <3>3. claim[j].pc # "idle" /\ claim[j].id \notin settled' =>
            claim[j].id # id /\ claim[j].id \in C!Requests
      BY <2>2, <1>4, <1>6 DEF Awaited, Uncertain, ClaimTypes, id
    <3>4. WorksOnMatch(j)' BY <3>1, <3>3, <1>2, <1>6 DEF WorksOnMatch, Uncertain
    <3> QED BY <3>2, <3>4
  <2> QED BY <2>1, <2>2
<1>10. UsedIsMatched'
  <2>1. SUFFICES ASSUME NEW d \in Credits, redeemed[d] # 0, redeemed[d] \notin settled'
                 PROVE  matched'[redeemed[d]] = d
    BY <1>2 DEF UsedIsMatched
  <2>2. redeemed[d] \in C!Requests /\ matched[redeemed[d]] = d
    BY <2>1, <1>6 DEF ClaimTypes, Ids, UsedIsMatched
  <2>3. redeemed[d] # id BY <2>1, <2>2, <1>4, <1>6 DEF Uncertain, id
  <2> QED BY <2>1, <2>2, <2>3, <1>6
<1>11. C!UseIsKnown' BY <1>2, <1>6 DEF C!UseIsKnown
<1> QED BY <1>7, <1>8, <1>9, <1>10, <1>11

LEMMA ConsumeRefusedKeeps == ASSUME NEW k \in Claims, ClaimInv, C!ConsumeRefused(k) PROVE ClaimInv'
<1>1. claim[k].pc = "consume" /\ UNCHANGED <<redeemed, requests, dialog, matched, settled>>
  BY DEF C!ConsumeRefused
<1>2. CASE C!Ends(k, "failed")
  BY <1>1, <1>2, AnswerFits DEF C!Outcomes
<1>3. CASE \E rest : claim' = [claim EXCEPT ![k].left = rest] /\ rest \subseteq claim[k].left
  <2>1. PICK rest : claim' = [claim EXCEPT ![k].left = rest] /\ rest \subseteq claim[k].left
    BY <1>3
  <2>2. claim' \in [Claims -> ClaimRecords]
    BY <2>1 DEF ClaimInv, ClaimTypes, ClaimRecords
  <2>3. \A j \in Claims : /\ claim'[j].pc = claim[j].pc /\ claim'[j].id = claim[j].id
                          /\ claim'[j].expiry = claim[j].expiry /\ claim'[j].credit = claim[j].credit
                          /\ claim'[j].outcome = claim[j].outcome
    BY <2>1 DEF ClaimInv, ClaimTypes, ClaimRecords
  <2>4. ClaimTypes' BY <2>2, <1>1 DEF ClaimInv, ClaimTypes, Ids, ClaimRecords
  <2>5. DialogFits' BY <1>1 DEF ClaimInv, DialogFits
  <2>6. \A j \in Claims : Awaited(j)' /\ WorksOnMatch(j)'
    BY <2>3, <1>1 DEF ClaimInv, Awaited, WorksOnMatch, Uncertain
  <2>7. UsedIsMatched' /\ C!UseIsKnown' BY <1>1 DEF ClaimInv, UsedIsMatched, C!UseIsKnown
  <2> QED BY <2>4, <2>5, <2>6, <2>7 DEF ClaimInv
<1>4. C!Ends(k, "failed") \/ claim' = [claim EXCEPT ![k].left = claim[k].left \ {C!Tried(k)}]
  BY DEF C!ConsumeRefused
<1> QED BY <1>2, <1>3, <1>4

\* The server tells a request that has used its credit so again.
LEMMA ConsumeKeeps == ASSUME NEW k \in Claims, ClaimInv, C!Consume(k) PROVE ClaimInv'
<1> USE ClaimFacts DEF ClaimInv, C!None
<1> DEFINE c == claim[k].credit
           r == claim[k].id
           account == Logins[C!Tried(k)]
           Unused == \A d \in Credits : redeemed[d] # r
<1>1. claim[k].pc = "consume" /\ UNCHANGED <<requests, dialog, matched>> BY DEF C!Consume
<1>2. PICK served \in C!Served(c, r, account), lost \in BOOLEAN :
        /\ C!Ends(k, IF lost THEN "failed" ELSE served)
        /\ redeemed' = IF served = "success" /\ Unused THEN [redeemed EXCEPT ![c] = r] ELSE redeemed
        /\ settled' = IF OwnerOf[c] # account THEN settled \cup {r} ELSE settled
  BY DEF C!Consume
<1>3. /\ c \in Credits /\ r \in 1..requests /\ r \in C!Requests
      /\ r \notin settled => matched[r] = c /\ dialog.pending = k
  BY <1>1 DEF WorksOnMatch, Awaited, Uncertain, ClaimTypes
<1>4. r \notin settled => dialog.ids[ClaimExpiry[c]] = r
  BY <1>3 DEF Awaited, DialogFits
<1>5. served \in C!Outcomes /\ (OwnerOf[c] # account => served # "success")
  BY DEF C!Served, C!Outcomes
<1>6. r \notin settled' /\ ~Unused => served = "success"
  <2>1. SUFFICES ASSUME r \notin settled', NEW d \in Credits, redeemed[d] = r
                 PROVE  served = "success"
    OBVIOUS
  <2>2. OwnerOf[c] = account /\ r \notin settled BY <2>1, <1>2
  <2>3. d = c BY <2>1, <2>2, <1>3 DEF UsedIsMatched
  <2>4. r \in {redeemed[x] : x \in {x \in Credits : OwnerOf[x] = account}}
    BY <2>1, <2>2, <2>3
  <2> QED BY <2>2, <2>4 DEF C!Served
<1> DEFINE outcome == IF lost THEN "failed" ELSE served
<1>7. outcome \in C!Outcomes /\ (outcome \notin {"failed", "success"} => outcome = served)
  BY <1>5 DEF C!Outcomes
<1> HIDE DEF c, r, account, outcome
<1>8. /\ claim' \in [Claims -> ClaimRecords]
      /\ \A j \in Claims \ {k} : claim'[j] = claim[j]
      /\ claim'[k].pc = "answer" /\ claim'[k].id = r
      /\ claim'[k].expiry = claim[k].expiry /\ claim'[k].outcome = outcome
  BY <1>2, <1>7, ClaimEnds DEF outcome, r
<1>9. /\ settled \subseteq settled' /\ settled' \subseteq 1..requests
      /\ redeemed' \in [Credits -> Ids]
      /\ \A d \in Credits : redeemed'[d] = redeemed[d] \/ (d = c /\ redeemed'[d] = r)
      /\ (\E d \in Credits : redeemed'[d] = r) /\ ~Unused => redeemed' = redeemed
  BY <1>2, <1>3 DEF ClaimTypes, Ids
<1>10. ClaimTypes' BY <1>1, <1>8, <1>9 DEF ClaimTypes, Ids, ClaimRecords
<1>11. DialogFits' BY <1>1, <1>9 DEF DialogFits
<1>12. ASSUME NEW j \in Claims PROVE Awaited(j)' /\ WorksOnMatch(j)'
  <2>1. CASE j = k
    <3>1. Awaited(j)' BY <2>1, <1>1, <1>3, <1>8, <1>9 DEF Awaited, Uncertain, r
    <3>2. outcome \notin {"failed", "success"} /\ r \notin settled' =>
            \A d \in Credits : redeemed'[d] # r
      <4>1. SUFFICES ASSUME outcome \notin {"failed", "success"}, r \notin settled'
                     PROVE  \A d \in Credits : redeemed'[d] # r
        OBVIOUS
      <4>2. served # "success" /\ Unused BY <4>1, <1>6, <1>7
      <4> QED BY <4>2, <1>2
    <3> QED BY <2>1, <3>1, <3>2, <1>8 DEF WorksOnMatch, Uncertain
  <2>2. CASE j # k
    <3>1. claim'[j] = claim[j] BY <2>2, <1>8
    <3>2. Awaited(j)' BY <3>1, <1>1, <1>9 DEF Awaited, Uncertain
    <3>3. claim[j].pc # "idle" /\ claim[j].id \notin settled' => claim[j].id # r
      BY <2>2, <1>3, <1>9 DEF Awaited, Uncertain
    <3>4. WorksOnMatch(j)' BY <3>1, <3>3, <1>1, <1>9 DEF WorksOnMatch, Uncertain
    <3> QED BY <3>2, <3>4
  <2> QED BY <2>1, <2>2
<1>13. UsedIsMatched' BY <1>1, <1>3, <1>9 DEF UsedIsMatched
<1>14. C!UseIsKnown' BY <1>1, <1>3, <1>4, <1>9 DEF C!UseIsKnown
<1> QED BY <1>10, <1>11, <1>12, <1>13, <1>14

LEMMA ClaimAtRest ==
  ASSUME NEW k \in Claims, ClaimTypes, claim' = [claim EXCEPT ![k] = C!Rest]
  PROVE  /\ claim' \in [Claims -> ClaimRecords] /\ claim'[k].pc = "idle"
         /\ \A j \in Claims \ {k} : claim'[j] = claim[j]
BY DEF ClaimTypes, ClaimRecords, C!Rest, C!None, Ids, C!Outcomes

LEMMA AnswerKeeps == ASSUME NEW k \in Claims, ClaimInv, C!Answer(k) PROVE ClaimInv'
<1> USE ClaimFacts DEF ClaimInv, C!None
<1> DEFINE e == claim[k].expiry
           id == claim[k].id
<1>1. /\ claim[k].pc = "answer" /\ UNCHANGED <<redeemed, requests, matched>>
      /\ claim' = [claim EXCEPT ![k] = C!Rest]
  BY DEF C!Answer
<1>2. /\ claim' \in [Claims -> ClaimRecords] /\ claim'[k].pc = "idle"
      /\ \A j \in Claims \ {k} : claim'[j] = claim[j]
  BY <1>1, ClaimAtRest
<1>3. CASE dialog.pending # k
  <2>1. UNCHANGED <<dialog, settled>> BY <1>3 DEF C!Answer
  <2>2. ClaimTypes' BY <1>1, <1>2, <2>1 DEF ClaimTypes, Ids, ClaimRecords
  <2>3. DialogFits' BY <1>1, <2>1 DEF DialogFits
  <2>4. ASSUME NEW j \in Claims PROVE Awaited(j)' /\ WorksOnMatch(j)'
    <3>1. CASE j = k BY <3>1, <1>2, <1>3, <2>1 DEF Awaited, WorksOnMatch
    <3>2. CASE j # k BY <3>2, <1>1, <1>2, <2>1 DEF Awaited, WorksOnMatch, Uncertain
    <3> QED BY <3>1, <3>2
  <2>5. UsedIsMatched' /\ C!UseIsKnown' BY <1>1, <2>1 DEF UsedIsMatched, C!UseIsKnown
  <2> QED BY <2>2, <2>3, <2>4, <2>5
<1>4. CASE dialog.pending = k
  <2>1. /\ e \in C!Expiries /\ dialog.ids[e] = id /\ id \in 1..requests
        /\ claim[k].outcome \notin {"failed", "success"} /\ id \notin settled =>
             \A c \in Credits : redeemed[c] # id
    BY <1>1, <1>4 DEF Awaited, WorksOnMatch, Uncertain
  <2>2. /\ dialog' = [dialog EXCEPT !.pending = NoClaim, !.asking = 0,
                        !.ids[e] = IF claim[k].outcome = "failed" THEN @ ELSE 0]
        /\ settled' = IF claim[k].outcome = "success" THEN settled \cup {id} ELSE settled
    BY <1>4 DEF C!Answer
  <2> HIDE DEF e, id
  <2>3. /\ dialog'.pending = NoClaim /\ dialog'.asking = 0
        /\ dialog'.ids = [dialog.ids EXCEPT ![e] = IF claim[k].outcome = "failed" THEN @ ELSE 0]
        /\ dialog' \in [ids : [C!Expiries -> Ids], asking : {0} \cup C!Expiries,
                        pending : Claims \cup {NoClaim}]
    BY <2>1, <2>2 DEF ClaimTypes, Ids
  <2>4. /\ settled \subseteq settled' /\ settled' \subseteq 1..requests
        /\ \A f \in C!Expiries : \/ dialog'.ids[f] = dialog.ids[f]
                                 \/ f = e /\ dialog'.ids[f] = 0 /\ claim[k].outcome # "failed"
    BY <2>1, <2>2, <2>3 DEF ClaimTypes
  <2>5. ClaimTypes' BY <1>1, <1>2, <2>3, <2>4 DEF ClaimTypes, Ids, ClaimRecords
  <2>6. DialogFits' BY <1>1, <2>3, <2>4 DEF DialogFits
  <2>7. ASSUME NEW j \in Claims PROVE Awaited(j)' /\ WorksOnMatch(j)'
    <3>1. CASE j = k BY <3>1, <1>2, <2>3 DEF Awaited, WorksOnMatch
    <3>2. CASE j # k
      <4>1. claim'[j] = claim[j] BY <3>2, <1>2
      <4>2. claim[j].pc # "idle" => claim[j].id \in settled
        BY <3>2, <1>4 DEF Awaited, Uncertain
      <4> QED BY <4>1, <4>2, <1>1, <2>3, <2>4 DEF Awaited, WorksOnMatch, Uncertain
    <3> QED BY <3>1, <3>2
  <2>8. UsedIsMatched' BY <1>1, <2>4 DEF UsedIsMatched
  <2>9. C!UseIsKnown'
    <3>1. SUFFICES ASSUME NEW c \in Credits, redeemed[c] # 0, redeemed[c] \notin settled'
                   PROVE  dialog'.ids[ClaimExpiry[c]] = redeemed[c]
      BY <1>1 DEF C!UseIsKnown
    <3>2. dialog.ids[ClaimExpiry[c]] = redeemed[c] BY <3>1, <2>4 DEF C!UseIsKnown
    <3>3. CASE ClaimExpiry[c] = e /\ claim[k].outcome # "failed"
      <4>1. redeemed[c] = id BY <3>2, <3>3, <2>1
      <4> QED BY <4>1, <3>1, <3>3, <2>1, <2>2
    <3> QED BY <3>2, <3>3, <2>4
  <2> QED BY <2>5, <2>6, <2>7, <2>8, <2>9
<1> QED BY <1>3, <1>4

LEMMA ClaimRestartKeeps == ASSUME ClaimInv, C!Restart PROVE ClaimInv'
<1> USE ClaimFacts DEF ClaimInv, C!None
<1>1. /\ dialog' = C!Closed /\ claim' = [k \in Claims |-> C!Rest]
      /\ matched' = [r \in C!Requests |-> 0] /\ settled' = 1..requests
      /\ UNCHANGED <<redeemed, requests>>
  BY DEF C!Restart
<1>2. ClaimTypes'
  BY <1>1 DEF ClaimTypes, Ids, ClaimRecords, C!Rest, C!Closed, C!Outcomes
<1>3. DialogFits' BY <1>1 DEF DialogFits, C!Closed
<1>4. \A k \in Claims : Awaited(k)' /\ WorksOnMatch(k)'
  BY <1>1 DEF Awaited, WorksOnMatch, C!Rest, C!Closed
<1>5. UsedIsMatched' /\ C!UseIsKnown'
  <2>1. \A c \in Credits : redeemed[c] \in {0} \cup settled' BY <1>1 DEF ClaimTypes, Ids
  <2> QED BY <2>1, <1>1 DEF UsedIsMatched, C!UseIsKnown
<1> QED BY <1>2, <1>3, <1>4, <1>5

LEMMA ClaimStep == ClaimInv /\ [C!Next]_claimAll => ClaimInv'
<1> SUFFICES ASSUME ClaimInv, [C!Next]_claimAll PROVE ClaimInv'
  OBVIOUS
<1>1. CASE UNCHANGED <<redeemed, requests, dialog, claim, matched, settled>>
  BY <1>1 DEF ClaimInv, ClaimTypes, Ids, ClaimRecords, DialogFits, Awaited, WorksOnMatch,
     Uncertain, UsedIsMatched, C!UseIsKnown
<1>2. CASE C!TimePasses \/ C!CardRefreshed \/ UNCHANGED claimAll
  BY <1>1, <1>2 DEF C!TimePasses, C!CardRefreshed, claimAll
<1>3. CASE C!Ask
  BY <1>3, CancelClaimKeeps, CloseDialogKeeps, BeginClaimKeeps DEF C!Ask
<1>4. ASSUME NEW k \in Claims, C!Work(k) PROVE ClaimInv'
  BY <1>4, ConfirmClaimKeeps, ListFailsKeeps, ListKeeps, ConsumeRefusedKeeps, ConsumeKeeps,
     AnswerKeeps
  DEF C!Work
<1> QED BY <1>2, <1>3, <1>4, ClaimRestartKeeps DEF C!Next

\* The reminders share the clock and the card with the claims, of which ClaimInv says nothing.
LEMMA ClaimsHold == MCSpec => []ClaimInv
<1>1. MCInit => ClaimInv BY ClaimsStart DEF MCInit
<1>2. [MCNext]_<<part, vars, claimVars, paceVars, desktopVars>> =>
        [C!Next]_claimAll \/ UNCHANGED claimVars
  BY DEF MCNext, Reminding, Claiming, Pacing, Desktop, C!Next, C!Ask, C!Work
<1>3. ClaimInv /\ UNCHANGED claimVars => ClaimInv'
  BY DEF claimVars, ClaimInv, ClaimTypes, Ids, ClaimRecords, DialogFits, Awaited, WorksOnMatch,
     Uncertain, UsedIsMatched, C!UseIsKnown
<1>4. ClaimInv /\ [MCNext]_<<part, vars, claimVars, paceVars, desktopVars>> => ClaimInv'
  BY <1>2, <1>3, ClaimStep
<1> QED BY <1>1, <1>4, PTL DEF MCSpec

\* No use of a credit slips away, however many answers are lost.
THEOREM UsesAreKnown == MCSpec => []UseIsKnown
<1>1. ClaimInv => UseIsKnown BY DEF ClaimInv, UseIsKnown
<1> QED BY <1>1, ClaimsHold, PTL

-----------------------------------------------------------------------------
(*****************************************************************************)
(* Notifications, with any number of refresh tails: an alert of a crossing   *)
(* that is not over is in one tail, has fired and was not told; all that is  *)
(* owed otherwise, and not written over, can be raised.                      *)
(*****************************************************************************)
WindowTypes == [reset : 0..MaxTime, severity : N!Severities, under : BOOLEAN]
EntryTypes == [resets : 0..MaxTime, fired : SUBSET N!Milestones, previous : 0..3,
               under : BOOLEAN, primed : BOOLEAN]
TailTypes == [pc : {"idle", "prune", "evaluate", "partition", "deliver", "failures", "successes",
                    "rollback", "rollbackDeferred"},
              seen : WindowTypes, wanted : SUBSET N!Milestones, ready : SUBSET N!Alert,
              failed : SUBSET N!Alert, deferred : SUBSET N!Alert]
PaceTypes ==
  /\ clock \in 0..MaxTime /\ window \in WindowTypes /\ prefs \in N!Settings
  /\ state \in EntryTypes /\ tail \in [Tails -> TailTypes]
  /\ told \subseteq N!Milestones /\ owed \subseteq N!Milestones /\ buried \subseteq owed
  /\ bygone \in [Tails -> SUBSET N!Milestones] /\ term \in 0..MaxTime

\* What is not delivered, and may still be taken back; of a tail, the milestones of crossings
\* that are not over.
Undelivered(b) ==
  (IF b.pc \in {"partition", "deliver"} THEN b.ready ELSE b.failed) \cup b.deferred
Open(t) == N!Of(Undelivered(tail[t])) \ bygone[t]
\* A reading may raise m: it has not fired, and what was found before is below it.
Below(m, previous, under) ==
  /\ m = "CuttingItClose" => previous < 2
  /\ m = "WillRunOut" => previous < 3
  /\ m = "AlmostOut" => ~under
Loose(m) == m \notin state.fired /\ Below(m, state.previous, state.under)

\* The entry has the latest reset, or an older one that a late tail has put back.
ResetsFit == state.resets <= term /\ (state.resets = 0 => term = 0)
\* An entry that was never primed has raised nothing.
NothingYet == ~state.primed => told = {} /\ owed = {} /\ state.fired = {}
\* The alerts of a tail are in one list each, and found the same.
InFlight(b) ==
  /\ b.pc \in {"idle", "prune", "evaluate"} => b.ready = {} /\ b.failed = {} /\ b.deferred = {}
  /\ b.pc = "partition" => b.failed = {} /\ b.deferred = {}
  /\ b.pc = "deliver" => b.failed = {}
  /\ b.pc = "rollbackDeferred" => b.failed = {}
  /\ b.ready \cap b.failed = {} /\ b.ready \cap b.deferred = {} /\ b.failed \cap b.deferred = {}
  /\ \A a, d \in b.ready \cup b.failed \cup b.deferred :
       a.previous = d.previous /\ a.under = d.under /\ a.first = d.first
\* A tail that has evaluated nothing holds nothing of the past.
Fresh(t) == tail[t].pc \in {"idle", "prune", "evaluate"} => bygone[t] = {}
\* Taking an alert back leaves its milestone below, or it was of the first reading of a window.
Found(t) ==
  \A a \in Undelivered(tail[t]) :
    a.milestone \notin bygone[t] /\ ~a.first => Below(a.milestone, a.previous, a.under)
\* What is open has fired and is not told; the two severities exclude each other.
OpenFits(t) ==
  /\ Open(t) \subseteq state.fired \ told
  /\ "WillRunOut" \in Open(t) => "CuttingItClose" \notin owed
Fine(t) == InFlight(tail[t]) /\ Fresh(t) /\ Found(t) /\ OpenFits(t)
\* One tail has it.
Apart == \A t, u \in Tails : t # u => Open(t) \cap Open(u) = {}
\* Whatever is owed and not written over is on its way or can be raised.
Kept == \A m \in owed \ buried : Loose(m) \/ \E t \in Tails : m \in Open(t)
PaceInv ==
  /\ PaceTypes /\ ResetsFit /\ NothingYet /\ told \subseteq state.fired /\ Apart /\ Kept
  /\ \A t \in Tails : Fine(t)

LEMMA WindowFacts ==
  /\ N!Unstarted \in WindowTypes
  /\ \A r \in 0..MaxTime, l \in Levels : N!Window(r, l) \in WindowTypes
  /\ N!Idle \in TailTypes /\ N!Blank \in EntryTypes
<1> USE PaceAssumption DEF N!Severities, N!Untracked, N!Healthy, N!Spent
<1>1. \A r \in 0..MaxTime, l \in N!Severities \X BOOLEAN : N!Window(r, l) \in WindowTypes
  BY DEF N!Window, WindowTypes
<1>2. N!Unstarted \in WindowTypes BY DEF N!Unstarted, N!Window, WindowTypes, N!NoReset
<1>3. N!Idle \in TailTypes BY <1>2 DEF TailTypes, N!Idle
<1>4. N!Blank \in EntryTypes BY DEF EntryTypes, N!Blank, N!NoReset
<1> QED BY <1>1, <1>2, <1>3, <1>4

\* The world's own steps leave the entry, the tails and the histories alone.
LEMMA PaceWorldKeeps == ASSUME PaceInv, N!World PROVE PaceInv'
<1>1. UNCHANGED <<state, tail, told, owed, buried, bygone, term>>
  BY DEF N!World, N!TimePasses, N!WindowMoves, N!WindowRolls, N!PreferencesChange, N!evaluator,
     N!history
<1>2. PaceTypes'
  <2>1. clock' \in 0..MaxTime
    BY PaceAssumption DEF N!World, N!TimePasses, N!WindowMoves, N!WindowRolls,
       N!PreferencesChange, PaceInv, PaceTypes
  <2>2. prefs' \in N!Settings
    BY DEF N!World, N!TimePasses, N!WindowMoves, N!WindowRolls, N!PreferencesChange,
       PaceInv, PaceTypes
  <2>3. window' \in WindowTypes
    <3>1. CASE N!TimePasses \/ N!PreferencesChange
      BY <3>1 DEF N!TimePasses, N!PreferencesChange, PaceInv, PaceTypes
    <3>2. CASE N!WindowMoves
      <4>1. /\ window.reset \in 0..MaxTime
            /\ \A r \in window.reset..MaxTime : [window EXCEPT !.reset = r] \in WindowTypes
        BY PaceAssumption DEF PaceInv, PaceTypes, WindowTypes
      <4> QED BY <3>2, <4>1, WindowFacts DEF N!WindowMoves, PaceInv
    <3>3. CASE N!WindowRolls
      <4>1. \A r \in (clock + 1)..MaxTime : r \in 0..MaxTime
        BY PaceAssumption DEF PaceInv, PaceTypes
      <4> QED BY <3>3, <4>1, WindowFacts DEF N!WindowRolls, PaceInv
    <3> QED BY <3>1, <3>2, <3>3 DEF N!World
  <2> QED BY <1>1, <2>1, <2>2, <2>3 DEF PaceInv, PaceTypes
<1> QED
  BY <1>1, <1>2
  DEF PaceInv, ResetsFit, NothingYet, Apart, Kept, Fine, InFlight, Fresh, Found, OpenFits, Open,
      Loose

\* A step of a tail that leaves the entry alone: it moves alerts between the lists, and tells
\* of `delivered`.
LEMMA TailMoves ==
  ASSUME NEW t \in Tails, PaceInv, NEW b \in TailTypes, tail' = [tail EXCEPT ![t] = b],
         UNCHANGED <<clock, window, prefs, state, bygone, term>>,
         InFlight(b), b.pc \in {"idle", "prune", "evaluate"} => bygone[t] = {},
         Undelivered(b) \subseteq Undelivered(tail[t]),
         NEW delivered \in SUBSET Open(t),
         N!Of(Undelivered(b)) \ bygone[t] = Open(t) \ delivered,
         told' = told \cup delivered, owed' = owed \ delivered, buried' = buried \ delivered
  PROVE  PaceInv'
<1>1. /\ tail'[t] = b /\ tail' \in [Tails -> TailTypes]
      /\ \A u \in Tails \ {t} : tail'[u] = tail[u]
  BY DEF PaceInv, PaceTypes
<1>2. Open(t)' = Open(t) \ delivered /\ \A u \in Tails \ {t} : Open(u)' = Open(u)
  BY <1>1 DEF Open
<1>3. delivered \subseteq state.fired /\ Open(t) \subseteq state.fired \ told
  BY DEF PaceInv, Fine, OpenFits
<1>4. PaceTypes'
  <2>1. told' \subseteq N!Milestones BY <1>3 DEF PaceInv, PaceTypes, EntryTypes
  <2> QED BY <1>1, <2>1 DEF PaceInv, PaceTypes
<1>5. ResetsFit' /\ NothingYet' /\ told' \subseteq state'.fired
  BY <1>3 DEF PaceInv, ResetsFit, NothingYet
<1>6. Apart' BY <1>2 DEF PaceInv, Apart
<1>7. Kept'
  <2> SUFFICES ASSUME NEW m \in owed', m \notin buried' PROVE Loose(m)' \/ \E u \in Tails : m \in Open(u)'
    BY DEF Kept
  <2>1. m \in owed /\ m \notin buried /\ m \notin delivered OBVIOUS
  <2>2. Loose(m) \/ \E u \in Tails : m \in Open(u) BY <2>1 DEF PaceInv, Kept
  <2> QED BY <1>2, <2>1, <2>2 DEF Loose
<1>8. ASSUME NEW u \in Tails PROVE Fine(u)'
  <2>1. CASE u # t
    <3>1. UNCHANGED <<tail[u], bygone[u], state, Open(u)>> BY <1>1, <1>2, <2>1
    <3>2. Open(u) \cap delivered = {} BY <2>1 DEF PaceInv, Apart
    <3>3. OpenFits(u)' BY <3>1, <3>2 DEF PaceInv, Fine, OpenFits
    <3> QED BY <3>1, <3>3 DEF PaceInv, Fine, InFlight, Fresh, Found
  <2>2. CASE u = t
    <3>1. InFlight(tail[t])' BY <1>1 DEF InFlight
    <3>2. Fresh(t)' BY <1>1 DEF Fresh
    <3>3. Found(t)' BY <1>1 DEF PaceInv, Fine, Found
    <3>4. OpenFits(t)' BY <1>2 DEF PaceInv, Fine, OpenFits
    <3> QED BY <2>2, <3>1, <3>2, <3>3, <3>4 DEF Fine
  <2> QED BY <2>1, <2>2
<1> QED BY <1>4, <1>5, <1>6, <1>7, <1>8 DEF PaceInv

LEMMA BeginKeeps == ASSUME NEW t \in Tails, PaceInv, N!Begin(t) PROVE PaceInv'
<1>1. /\ UNCHANGED <<clock, window, prefs, state, told, owed, buried, bygone, term>>
      /\ tail[t] \in TailTypes /\ tail[t].pc = "idle"
  BY DEF N!Begin, N!At, N!world, N!evaluator, N!history, PaceInv, PaceTypes
<1>2. prefs.wanted \in SUBSET N!Milestones
  <2>1. \/ prefs = [on |-> FALSE, wanted |-> {}] \/ prefs \in [on : {TRUE}, wanted : Preferences]
    BY DEF PaceInv, PaceTypes, N!Settings
  <2>2. [on |-> FALSE, wanted |-> {}].wanted = {} OBVIOUS
  <2>3. prefs \in [on : {TRUE}, wanted : Preferences] => prefs.wanted \in Preferences OBVIOUS
  <2>4. {} \subseteq N!Milestones /\ Preferences \subseteq SUBSET N!Milestones BY PaceAssumption
  <2> QED BY <2>1, <2>2, <2>3, <2>4
<1>3. PICK b \in TailTypes :
        /\ tail' = [tail EXCEPT ![t] = b]
        /\ b.pc \in {"evaluate", "prune"} /\ b.ready = {} /\ b.failed = {} /\ b.deferred = {}
  <2> DEFINE pc == IF prefs.on THEN "evaluate" ELSE "prune"
             b == [N!Idle EXCEPT !.pc = pc, !.seen = window, !.wanted = prefs.wanted]
  <2>1. pc \in {"evaluate", "prune"} OBVIOUS
  <2>2. tail' = [tail EXCEPT ![t] = b] BY DEF N!Begin
  <2> HIDE DEF pc
  <2>3. b \in TailTypes /\ b.pc = pc /\ b.ready = {} /\ b.failed = {} /\ b.deferred = {}
    BY <1>2, <2>1 DEF N!Idle, TailTypes, PaceInv, PaceTypes
  <2> QED BY <2>1, <2>2, <2>3
<1>4. Undelivered(tail[t]) = {} /\ Undelivered(b) = {} /\ bygone[t] = {}
  BY <1>1, <1>3 DEF Undelivered, InFlight, Fresh, Fine, PaceInv
<1>5. InFlight(b) BY <1>3 DEF InFlight
<1>6. /\ {} \in SUBSET Open(t) /\ N!Of(Undelivered(b)) \ bygone[t] = Open(t) \ {}
      /\ told' = told \cup {} /\ owed' = owed \ {} /\ buried' = buried \ {}
  BY <1>1, <1>4 DEF Open, N!Of
<1> QED BY ONLY <1>1, <1>3, <1>4, <1>5, <1>6, PaceInv, TailMoves, Zenon

\* A metric that is not enabled has no entry, and no window that anything is of.
LEMMA PruneKeeps == ASSUME NEW t \in Tails, PaceInv, N!Prune(t) PROVE PaceInv'
<1>1. /\ UNCHANGED <<clock, window, prefs>> /\ state' = N!Blank /\ told' = {} /\ owed' = {}
      /\ buried' = {} /\ term' = 0 /\ tail' = [tail EXCEPT ![t] = N!Idle]
      /\ bygone' = [u \in Tails |-> N!Held(u)] /\ tail[t].pc = "prune"
  BY DEF N!Prune, N!world, N!NoReset, N!At
<1>2. /\ N!Blank.resets = 0 /\ N!Blank.fired = {} /\ N!Idle.pc = "idle" /\ N!Idle.ready = {}
      /\ N!Idle.failed = {} /\ N!Idle.deferred = {} /\ Undelivered(N!Idle) = {}
  BY DEF N!Blank, N!Idle, Undelivered, N!NoReset
<1>3. \A u \in Tails : N!Held(u) \subseteq N!Milestones
  BY DEF N!Held, N!Of, N!Alert, PaceInv, PaceTypes, TailTypes
<1>4. PaceTypes'
  BY PaceAssumption, <1>1, <1>3, WindowFacts DEF PaceInv, PaceTypes
<1>5. /\ tail'[t] = N!Idle /\ \A u \in Tails \ {t} : tail'[u] = tail[u]
      /\ \A u \in Tails : bygone'[u] = N!Held(u)
  BY <1>1 DEF PaceInv, PaceTypes
<1>6. \A u \in Tails : Open(u)' = {}
  BY <1>2, <1>5 DEF Open, Undelivered, N!Of, N!Held
<1>7. ASSUME NEW u \in Tails PROVE Fine(u)'
  <2>1. InFlight(tail[u])' BY <1>2, <1>5 DEF PaceInv, Fine, InFlight
  <2>2. Fresh(u)'
    <3>1. tail'[u].pc \in {"idle", "prune", "evaluate"} => tail[u].pc \in {"idle", "prune", "evaluate"}
      BY <1>1, <1>5
    <3>2. tail[u].pc \in {"idle", "prune", "evaluate"} => N!Held(u) = {}
      BY DEF PaceInv, Fine, InFlight, N!Held, N!Of
    <3> QED BY <1>5, <3>1, <3>2 DEF Fresh
  <2>3. \A a \in Undelivered(tail'[u]) : a.milestone \in bygone'[u] BY <1>6 DEF Open, N!Of
  <2>4. Found(u)' BY <2>3 DEF Found
  <2>5. OpenFits(u)' BY <1>6 DEF OpenFits
  <2> QED BY <2>1, <2>2, <2>4, <2>5 DEF Fine
<1>8. ResetsFit' /\ NothingYet' /\ told' \subseteq state'.fired /\ Apart' /\ Kept'
  BY <1>1, <1>2, <1>6 DEF ResetsFit, NothingYet, Apart, Kept
<1> QED BY <1>4, <1>7, <1>8 DEF PaceInv

\* Of the two ways to find a window fresh, the entry's and the histories'.
LEMMA FreshAgree ==
  ASSUME PaceTypes, ResetsFit, NEW reset \in 0..MaxTime
  PROVE  reset > state.resets /\ state.resets <= clock <=> N!Began(reset) \/ N!SeemsBegun(reset)
<1>1. state.resets \in 0..MaxTime /\ term \in 0..MaxTime /\ clock \in 0..MaxTime
  BY DEF PaceTypes, EntryTypes
<1> QED BY <1>1, PaceAssumption DEF ResetsFit, N!Began, N!SeemsBegun, N!NoReset

\* What a reading finds of the entry in its window.
LEMMA InWindowFacts ==
  ASSUME state \in EntryTypes, NEW reset \in 0..MaxTime,
         NEW fresh, fresh = (reset > state.resets /\ state.resets <= clock),
         NEW s, s = N!InWindow(state, reset)
  PROVE  /\ s \in EntryTypes /\ (s.primed <=> state.primed)
         /\ s.resets = IF reset = 0 THEN state.resets ELSE reset
         /\ fresh => s.fired = {} /\ s.previous = 0 /\ ~s.under
         /\ ~fresh =>
           /\ s.fired = state.fired /\ s.previous = state.previous /\ (s.under <=> state.under)
<1> DEFINE forgot == [state EXCEPT !.fired = {}, !.previous = N!Untracked, !.under = FALSE]
           kept == IF fresh THEN forgot ELSE state
<1>0. /\ forgot \in EntryTypes /\ (forgot.primed <=> state.primed) /\ forgot.resets = state.resets
      /\ forgot.fired = {} /\ forgot.previous = 0 /\ ~forgot.under
  <2>1. N!Untracked \in 0..3 /\ N!Untracked = 0 BY DEF N!Untracked
  <2>2. forgot \in EntryTypes BY <2>1 DEF EntryTypes
  <2>3. (forgot.primed <=> state.primed) /\ forgot.resets = state.resets BY DEF EntryTypes
  <2>4. forgot.fired = {} /\ forgot.previous = N!Untracked BY DEF EntryTypes
  <2>5. ~forgot.under BY DEF EntryTypes
  <2> QED BY <2>1, <2>2, <2>3, <2>4, <2>5
<1> HIDE DEF forgot
<1>1. /\ kept \in EntryTypes /\ (kept.primed <=> state.primed) /\ kept.resets = state.resets
      /\ fresh => kept.fired = {} /\ kept.previous = 0 /\ ~kept.under
      /\ ~fresh =>
        /\ kept.fired = state.fired /\ kept.previous = state.previous
        /\ (kept.under <=> state.under)
  BY <1>0
<1>2. s = [kept EXCEPT !.resets = IF reset = 0 THEN @ ELSE reset]
  BY DEF N!InWindow, N!ResetAdvanced, N!NoReset, forgot
<1> HIDE DEF kept
<1> QED BY <1>1, <1>2 DEF EntryTypes

\* A reading raises what applies to it, has not fired and is above what was found.
LEMMA RaisedFacts ==
  ASSUME NEW s \in EntryTypes, NEW severity \in 0..3, NEW under \in BOOLEAN, NEW wanted,
         NEW m \in N!Raised(s, severity, under, wanted)
  PROVE  /\ m \in N!Milestones /\ m \notin s.fired /\ N!Applies(m, severity, under)
         /\ Below(m, s.previous, s.under)
BY DEF N!Raised, N!Applies, Below, N!Milestones, N!Close, N!RunningOut, EntryTypes

\* What the reading leaves of the entry.
LEMMA TransitionFacts ==
  ASSUME NEW s \in EntryTypes, NEW severity \in 0..3, NEW under \in BOOLEAN,
         NEW raised \in SUBSET N!Milestones
  PROVE  LET r == N!Transition(s, severity, under, raised) IN
         /\ r \in EntryTypes /\ r.primed /\ r.resets = s.resets
         /\ ~s.primed => r.fired = s.fired
         /\ s.primed =>
              /\ r.fired = (s.fired \ N!Rearmed(s, severity, under)) \cup raised
              /\ r.previous = s.previous \/ r.previous = severity
              /\ r.previous # s.previous =>
                   severity < s.previous \/ raised \cap {"CuttingItClose", "WillRunOut"} # {}
              /\ r.under => s.under \/ "AlmostOut" \in raised
<1> DEFINE r == N!Transition(s, severity, under, raised)
<1>1. CASE ~s.primed
  BY <1>1 DEF N!Transition, EntryTypes
<1>2. CASE s.primed
  <2> DEFINE previous == IF \/ severity # 0 /\ severity <= s.previous
                            \/ raised \cap {"CuttingItClose", "WillRunOut"} # {}
                         THEN severity ELSE s.previous
             u == IF ~under \/ "AlmostOut" \in raised THEN under ELSE s.under
             fired == (s.fired \ N!Rearmed(s, severity, under)) \cup raised
  <2>1. r = [s EXCEPT !.fired = fired, !.previous = previous, !.under = u]
    BY <1>2 DEF N!Transition, N!Untracked
  <2>2. fired \in SUBSET N!Milestones /\ previous \in 0..3 /\ u \in BOOLEAN BY DEF EntryTypes
  <2>3. /\ previous = s.previous \/ previous = severity
        /\ previous # s.previous =>
             severity < s.previous \/ raised \cap {"CuttingItClose", "WillRunOut"} # {}
    BY DEF EntryTypes
  <2>4. u => s.under \/ "AlmostOut" \in raised OBVIOUS
  <2>5. /\ r \in EntryTypes /\ r.primed /\ r.resets = s.resets
        /\ r.fired = fired /\ r.previous = previous /\ r.under = u
    <3> HIDE DEF fired, previous, u
    <3> QED BY <1>2, <2>1, <2>2 DEF EntryTypes
  <2> HIDE DEF previous, u
  <2> QED BY <1>2, <2>3, <2>4, <2>5
<1> QED BY <1>1, <1>2

\* A loose milestone that the reading applies to and does not raise stays loose.
LEMMA LooseStays ==
  ASSUME NEW s \in EntryTypes, NEW severity \in 0..3, NEW under \in BOOLEAN,
         NEW raised \in SUBSET N!Milestones, s.primed,
         \A m \in raised : N!Applies(m, severity, under),
         NEW m \in N!Milestones, m \notin raised, N!Applies(m, severity, under),
         m \notin s.fired, Below(m, s.previous, s.under)
  PROVE  LET r == N!Transition(s, severity, under, raised) IN
         m \notin r.fired /\ Below(m, r.previous, r.under)
<1> DEFINE r == N!Transition(s, severity, under, raised)
<1>1. /\ r \in EntryTypes
      /\ r.fired = (s.fired \ N!Rearmed(s, severity, under)) \cup raised
      /\ r.previous # s.previous =>
           severity < s.previous \/ raised \cap {"CuttingItClose", "WillRunOut"} # {}
      /\ r.under => s.under \/ "AlmostOut" \in raised
  <2> HIDE DEF r
  <2>1. s.primed OBVIOUS
  <2> QED BY ONLY <2>1, s \in EntryTypes, severity \in 0..3, under \in BOOLEAN,
             raised \in SUBSET N!Milestones, TransitionFacts DEF r
<1> HIDE DEF r
<1>2. m \notin r.fired BY <1>1
<1>3. CASE m = "CuttingItClose"
  <2>1. severity = 2 /\ s.previous < 2 BY <1>3 DEF N!Applies, Below, N!Close
  <2>2. "WillRunOut" \notin raised BY <2>1 DEF N!Applies, N!RunningOut
  <2>3. r.previous = s.previous BY <1>1, <1>3, <2>1, <2>2 DEF EntryTypes
  <2> QED BY <1>2, <1>3, <2>1, <2>3 DEF Below, r
<1>4. CASE m = "WillRunOut"
  <2>1. severity = 3 /\ s.previous < 3 BY <1>4 DEF N!Applies, Below, N!RunningOut
  <2>2. "CuttingItClose" \notin raised BY <2>1 DEF N!Applies, N!Close
  <2>3. r.previous = s.previous BY <1>1, <1>4, <2>1, <2>2 DEF EntryTypes
  <2> QED BY <1>2, <1>4, <2>1, <2>3 DEF Below, r
<1>5. CASE m = "AlmostOut"
  <2>1. ~r.under BY <1>1, <1>5 DEF Below
  <2> QED BY <1>2, <1>5, <2>1 DEF Below, r
<1> QED BY <1>3, <1>4, <1>5 DEF N!Milestones

\* A reading ends the crossings it does not raise again: all of the last window, or those that
\* the window has recovered from.
LEMMA EvaluateKeeps == ASSUME NEW t \in Tails, PaceInv, N!Evaluate(t) PROVE PaceInv'
<1> DEFINE seen == tail[t].seen
           severity == N!Projected(seen)
           fresh == seen.reset > state.resets /\ state.resets <= clock
           first == N!Began(seen.reset) \/ N!SeemsBegun(seen.reset)
           s == N!InWindow(state, seen.reset)
           raised == IF s.primed THEN N!Raised(s, severity, seen.under, tail[t].wanted) ELSE {}
           r == N!Transition(s, severity, seen.under, raised)
           over == IF first THEN N!Milestones ELSE N!Over(severity, seen.under)
           apply == {m \in owed \ over : N!Applies(m, severity, seen.under)}
           alerts == {[milestone |-> m, previous |-> state.previous, under |-> state.under,
                       first |-> first] : m \in raised}
<1>1. /\ tail[t] \in TailTypes /\ tail[t].pc = "evaluate" /\ UNCHANGED <<clock, window, prefs>>
      /\ state \in EntryTypes /\ seen \in WindowTypes /\ seen.reset \in 0..MaxTime
      /\ seen.under \in BOOLEAN /\ first \in BOOLEAN
  BY DEF N!Evaluate, N!At, N!world, PaceInv, PaceTypes, TailTypes, WindowTypes
<1>2. severity \in 0..3
  BY <1>1 DEF N!Projected, WindowTypes, N!Severities, N!Untracked, N!Spent, N!RunningOut
<1>3. /\ s \in EntryTypes /\ (s.primed <=> state.primed)
      /\ s.resets = IF seen.reset = 0 THEN state.resets ELSE seen.reset
      /\ first => s.fired = {} /\ s.previous = 0 /\ ~s.under
      /\ ~first => s.fired = state.fired /\ s.previous = state.previous /\ (s.under <=> state.under)
  <2>1. fresh <=> first BY <1>1, FreshAgree DEF PaceInv
  <2> QED BY <1>1, <2>1, InWindowFacts
<1>4. /\ state' = r /\ told' = told \ over /\ owed' = apply \cup raised
      /\ buried' = (buried \cap apply) \ raised
      /\ bygone' = [u \in Tails |-> bygone[u] \cup (N!Held(u) \cap over)]
      /\ term' = IF seen.reset > term THEN seen.reset ELSE term
      /\ raised = {} => tail' = [tail EXCEPT ![t] = N!Idle]
      /\ raised # {} =>
        tail' = [tail EXCEPT ![t] = [N!Idle EXCEPT !.pc = "partition", !.ready = alerts]]
  BY DEF N!Evaluate
<1>5. /\ over \subseteq N!Milestones
      /\ first => over = N!Milestones
      /\ N!Rearmed(s, severity, seen.under) \subseteq over
      /\ severity = 2 => "WillRunOut" \in over
  BY DEF N!Over, N!Rearmed, N!Milestones, N!Close
<1>6. /\ apply \subseteq owed \ over /\ \A m \in apply : N!Applies(m, severity, seen.under)
  OBVIOUS
<1> HIDE DEF s, severity, r, first, over, apply
<1>7. \A m \in raised : /\ m \in N!Milestones /\ m \notin s.fired
                        /\ N!Applies(m, severity, seen.under) /\ Below(m, s.previous, s.under)
  BY <1>1, <1>2, <1>3, RaisedFacts
<1>8. raised # {} => state.primed BY <1>3
<1> HIDE DEF raised, seen
<1>9. /\ r \in EntryTypes /\ r.primed /\ r.resets = s.resets
      /\ ~s.primed => r.fired = s.fired
      /\ s.primed => r.fired = (s.fired \ N!Rearmed(s, severity, seen.under)) \cup raised
  <2>1. raised \in SUBSET N!Milestones BY <1>7
  <2> QED BY <2>1, <1>1, <1>2, <1>3, TransitionFacts DEF r
<1>10. PICK b \in TailTypes :
        /\ tail' = [tail EXCEPT ![t] = b] /\ b.pc \in {"idle", "partition"}
        /\ b.failed = {} /\ b.deferred = {}
        /\ b.pc = "idle" => raised = {} /\ b.ready = {}
        /\ b.ready = alerts
  <2>1. N!Idle \in TailTypes BY WindowFacts
  <2>2. CASE raised = {}
    BY <2>1, <2>2, <1>4 DEF N!Idle
  <2>3. CASE raised # {}
    <3>1. alerts \in SUBSET N!Alert
      BY <1>1, <1>7 DEF N!Alert, EntryTypes, N!Untracked, N!RunningOut
    <3> HIDE DEF alerts
    <3> DEFINE b == [N!Idle EXCEPT !.pc = "partition", !.ready = alerts]
    <3>2. /\ b \in TailTypes /\ b.pc = "partition" /\ b.failed = {} /\ b.deferred = {}
          /\ b.ready = alerts
      BY <2>1, <3>1 DEF TailTypes, N!Idle
    <3> QED BY <2>3, <3>2, <1>4
  <2> QED BY <2>2, <2>3
<1>11. /\ tail'[t] = b /\ tail' \in [Tails -> TailTypes] /\ Undelivered(b) = alerts
       /\ \A u \in Tails \ {t} : tail'[u] = tail[u]
       /\ \A u \in Tails : bygone'[u] = bygone[u] \cup (N!Held(u) \cap over)
  BY <1>4, <1>10 DEF Undelivered, PaceInv, PaceTypes
<1>12. N!Of(alerts) = raised
  <2>1. \A m \in raised : [milestone |-> m, previous |-> state.previous, under |-> state.under,
                           first |-> first].milestone = m
    OBVIOUS
  <2>2. \A a \in alerts : a.milestone \in raised OBVIOUS
  <2>3. \A m \in raised : \E a \in alerts : a.milestone = m BY <2>1
  <2> HIDE DEF alerts
  <2> QED BY <2>2, <2>3 DEF N!Of
<1>13. \A a \in alerts : /\ a.milestone \in raised /\ a.previous = state.previous
                         /\ a.under = state.under /\ a.first = first
  OBVIOUS
<1> HIDE DEF alerts
<1>14. N!Held(t) = {} /\ bygone[t] = {} /\ Open(t) = {} /\ bygone'[t] = {}
  <2>1. N!Held(t) = {} /\ bygone[t] = {}
    BY <1>1 DEF N!Held, N!Of, PaceInv, Fine, Fresh, InFlight
  <2>2. Open(t) = {} BY <1>1 DEF Open, Undelivered, N!Of, PaceInv, Fine, InFlight
  <2> QED BY <1>11, <2>1, <2>2
<1>15. /\ Open(t)' = raised
       /\ \A u \in Tails \ {t} : Open(u)' = Open(u) \ over
  <2>1. Open(t)' = raised BY <1>11, <1>12, <1>14 DEF Open
  <2>2. \A u \in Tails : Open(u) \subseteq N!Held(u) BY DEF Open, Undelivered, N!Held, N!Of
  <2>3. ASSUME NEW u \in Tails \ {t} PROVE Open(u)' = Open(u) \ over
    <3>1. Open(u)' = N!Of(Undelivered(tail[u])) \ (bygone[u] \cup (N!Held(u) \cap over))
      BY <1>11 DEF Open
    <3> QED BY <2>2, <3>1 DEF Open
  <2> QED BY <2>1, <2>3
<1>16. /\ told' \subseteq r.fired \ raised /\ raised \subseteq r.fired
       /\ \A u \in Tails \ {t} : Open(u)' \subseteq r.fired /\ Open(u)' \cap raised = {}
  <2>1. told \subseteq state.fired /\ \A u \in Tails : Open(u) \subseteq state.fired
    BY DEF PaceInv, Fine, OpenFits
  <2>2. told \subseteq N!Milestones /\ \A u \in Tails : Open(u) \subseteq N!Milestones
    BY <2>1, <1>1 DEF EntryTypes
  <2>3. CASE first
    <3>1. told' = {} /\ \A u \in Tails \ {t} : Open(u)' = {}
      <4>1. over = N!Milestones BY <2>3, <1>5
      <4> QED BY <2>2, <4>1, <1>4, <1>15
    <3> QED BY <3>1, <1>3, <1>8, <1>9
  <2>4. CASE ~first /\ state.primed
    BY <2>1, <2>4, <1>3, <1>4, <1>5, <1>7, <1>9, <1>15
  <2>5. CASE ~first /\ ~state.primed
    <3>1. state.fired = {} /\ raised = {} BY <2>5, <1>8 DEF PaceInv, NothingYet
    <3> QED BY <2>1, <3>1, <1>4, <1>15
  <2> QED BY <2>3, <2>4, <2>5
<1>17. PaceTypes'
  <2>1. term' \in 0..MaxTime BY <1>1, <1>4 DEF PaceInv, PaceTypes
  <2>2. owed' \subseteq N!Milestones /\ buried' \subseteq owed' /\ told' \subseteq N!Milestones
    BY <1>4, <1>6, <1>7 DEF PaceInv, PaceTypes
  <2>3. bygone' \in [Tails -> SUBSET N!Milestones]
    <3>1. \A u \in Tails : bygone[u] \cup (N!Held(u) \cap over) \in SUBSET N!Milestones
      BY <1>5 DEF PaceInv, PaceTypes
    <3> QED BY <3>1, <1>4
  <2> QED BY <2>1, <2>2, <2>3, <1>1, <1>4, <1>9, <1>11 DEF PaceInv, PaceTypes
<1>18. ResetsFit' /\ NothingYet' /\ told' \subseteq state'.fired
  <2>1. state'.resets = IF seen.reset = 0 THEN state.resets ELSE seen.reset BY <1>3, <1>4, <1>9
  <2>2. state.resets \in 0..MaxTime /\ term \in 0..MaxTime
    BY DEF PaceInv, PaceTypes, EntryTypes
  <2>3. ResetsFit' BY <2>1, <2>2, <1>1, <1>4, PaceAssumption DEF PaceInv, ResetsFit
  <2> QED BY <2>3, <1>4, <1>9, <1>16 DEF NothingYet
<1>19. Apart' BY <1>15, <1>16 DEF PaceInv, Apart
<1>20. Kept'
  <2> SUFFICES ASSUME NEW m \in owed', m \notin buried', m \notin raised
               PROVE  Loose(m)' \/ \E u \in Tails : m \in Open(u)'
    BY <1>15 DEF Kept
  <2>1. /\ m \in owed /\ m \notin over /\ m \notin buried /\ m \in N!Milestones
        /\ N!Applies(m, severity, seen.under) /\ ~first
    <3>1. m \in apply /\ m \notin buried BY <1>4
    <3>2. m \in owed \ over /\ N!Applies(m, severity, seen.under) BY <3>1, <1>6
    <3>3. m \in N!Milestones BY <3>2 DEF PaceInv, PaceTypes
    <3> QED BY <3>1, <3>2, <3>3, <1>5
  <2>2. CASE \E u \in Tails : m \in Open(u)
    BY <2>1, <2>2, <1>14, <1>15
  <2>3. CASE Loose(m)
    <3>1. m \notin s.fired /\ Below(m, s.previous, s.under)
      BY <2>1, <2>3, <1>3 DEF Loose, Below
    <3>2. s.primed BY <2>1, <1>3 DEF PaceInv, NothingYet
    <3>3. raised \in SUBSET N!Milestones /\ \A k \in raised : N!Applies(k, severity, seen.under)
      BY <1>7
    <3>4. m \notin r.fired /\ Below(m, r.previous, r.under)
      BY <2>1, <3>1, <3>2, <3>3, <1>1, <1>2, <1>3, LooseStays DEF r
    <3> QED BY <3>4, <1>4 DEF Loose
  <2> QED BY <2>1, <2>2, <2>3 DEF PaceInv, Kept
<1>21. ASSUME NEW u \in Tails PROVE "WillRunOut" \in Open(u)' => "CuttingItClose" \notin owed'
  <2>1. ASSUME "CuttingItClose" \in owed' PROVE severity = 2
    BY <2>1, <1>4, <1>6, <1>7 DEF N!Applies, N!Close
  <2>2. severity = 2 => "WillRunOut" \notin raised BY <1>7 DEF N!Applies, N!RunningOut
  <2> QED BY <2>1, <2>2, <1>5, <1>15
<1>22. ASSUME NEW u \in Tails PROVE Fine(u)'
  <2>1. CASE u # t
    <3>1. tail'[u] = tail[u] /\ bygone[u] \subseteq bygone'[u] BY <2>1, <1>11
    <3>2. Fresh(u)'
      <4>1. tail[u].pc \in {"idle", "prune", "evaluate"} => N!Held(u) = {} /\ bygone[u] = {}
        BY DEF PaceInv, Fine, Fresh, InFlight, N!Held, N!Of
      <4> QED BY <3>1, <4>1, <1>11 DEF Fresh
    <3>3. OpenFits(u)'
      <4>1. Open(u)' \cap told' = {} BY <2>1, <1>4, <1>15 DEF PaceInv, Fine, OpenFits
      <4> QED BY <2>1, <4>1, <1>4, <1>16, <1>21 DEF OpenFits
    <3> QED BY <3>1, <3>2, <3>3 DEF PaceInv, Fine, InFlight, Found
  <2>2. CASE u = t
    <3>1. InFlight(tail[t])' BY <1>10, <1>11, <1>13 DEF InFlight
    <3>2. Fresh(t)' BY <1>14 DEF Fresh
    <3>3. Found(t)' BY <1>3, <1>7, <1>11, <1>13 DEF Found, Below
    <3>4. OpenFits(t)' BY <1>4, <1>15, <1>16, <1>21 DEF OpenFits
    <3> QED BY <2>2, <3>1, <3>2, <3>3, <3>4 DEF Fine
  <2> QED BY <2>1, <2>2
<1> QED BY <1>17, <1>18, <1>19, <1>20, <1>22 DEF PaceInv

LEMMA PartitionKeeps == ASSUME NEW t \in Tails, PaceInv, N!Partition(t) PROVE PaceInv'
<1>1. /\ tail[t] \in TailTypes /\ tail[t].pc = "partition" /\ InFlight(tail[t])
      /\ UNCHANGED <<clock, window, prefs, state, told, owed, buried, bygone, term>>
  BY DEF N!Partition, N!At, N!world, N!history, PaceInv, PaceTypes, Fine
<1>2. PICK deferred \in SUBSET tail[t].ready :
        tail' = [tail EXCEPT ![t].pc = "deliver", ![t].deferred = deferred,
                        ![t].ready = @ \ deferred]
  BY DEF N!Partition
<1>3. PICK b \in TailTypes :
        /\ tail' = [tail EXCEPT ![t] = b] /\ b.pc = "deliver" /\ b.deferred = deferred
        /\ b.ready = tail[t].ready \ deferred /\ b.failed = {}
  <2> DEFINE b == [tail[t] EXCEPT !.pc = "deliver", !.deferred = deferred, !.ready = @ \ deferred]
  <2>1. /\ b \in TailTypes /\ b.pc = "deliver" /\ b.deferred = deferred
        /\ b.ready = tail[t].ready \ deferred /\ b.failed = {}
    BY <1>1 DEF TailTypes, InFlight
  <2>2. tail' = [tail EXCEPT ![t] = b] BY <1>2 DEF PaceInv, PaceTypes
  <2> QED BY <2>1, <2>2
<1>4. Undelivered(b) = Undelivered(tail[t]) /\ Undelivered(b) = tail[t].ready
  BY <1>1, <1>3 DEF Undelivered, InFlight
<1>5. InFlight(b) /\ b.pc \notin {"idle", "prune", "evaluate"} BY <1>1, <1>3, <1>4 DEF InFlight
<1>6. /\ {} \in SUBSET Open(t) /\ N!Of(Undelivered(b)) \ bygone[t] = Open(t) \ {}
      /\ told' = told \cup {} /\ owed' = owed \ {} /\ buried' = buried \ {}
      /\ Undelivered(b) \subseteq Undelivered(tail[t])
  BY <1>1, <1>4 DEF Open
<1> QED BY ONLY t \in Tails, PaceInv, <1>1, <1>3, <1>5, <1>6, TailMoves, Zenon

LEMMA DeliverKeeps ==
  ASSUME NEW t \in Tails, PaceInv, N!Deliver(t)
  PROVE  PaceInv' /\ \A a \in tail'[t].ready : a.milestone \in bygone[t] \/ a.milestone \notin told
<1>1. /\ tail[t] \in TailTypes /\ tail[t].pc = "deliver" /\ InFlight(tail[t])
      /\ UNCHANGED <<clock, window, prefs, state, bygone, term>>
  BY DEF N!Deliver, N!At, N!world, N!evaluator, PaceInv, PaceTypes, Fine
<1>2. PICK lost \in SUBSET tail[t].ready :
        LET delivered == N!Of(tail[t].ready \ lost) \ bygone[t] IN
        /\ tail' = [tail EXCEPT ![t].pc = IF lost = {} THEN "successes" ELSE "failures",
                                ![t].failed = lost, ![t].ready = @ \ lost]
        /\ told' = told \cup delivered /\ owed' = owed \ delivered
        /\ buried' = buried \ delivered
  BY DEF N!Deliver
<1>3. PICK b \in TailTypes :
        /\ tail' = [tail EXCEPT ![t] = b] /\ b.pc \in {"failures", "successes"}
        /\ b.deferred = tail[t].deferred
        /\ b.ready = tail[t].ready \ lost /\ b.failed = lost
  <2> DEFINE pc == IF lost = {} THEN "successes" ELSE "failures"
             b == [tail[t] EXCEPT !.pc = pc, !.failed = lost, !.ready = @ \ lost]
  <2>1. /\ b \in TailTypes /\ b.pc \in {"failures", "successes"} /\ b.deferred = tail[t].deferred
        /\ b.ready = tail[t].ready \ lost /\ b.failed = lost
    BY <1>1 DEF TailTypes, InFlight
  <2>2. tail' = [tail EXCEPT ![t] = b] BY <1>2 DEF PaceInv, PaceTypes
  <2> QED BY <2>1, <2>2
<1> DEFINE delivered == N!Of(tail[t].ready \ lost) \ bygone[t]
<1>4. /\ Undelivered(tail[t]) = tail[t].ready \cup tail[t].deferred
      /\ Undelivered(b) = lost \cup tail[t].deferred
  BY <1>1, <1>3 DEF Undelivered
<1>5. \A a, d \in Undelivered(tail[t]) : a.milestone = d.milestone => a = d
  <2>1. tail[t].ready \subseteq N!Alert /\ tail[t].deferred \subseteq N!Alert BY <1>1 DEF TailTypes
  <2>2. \A a, d \in Undelivered(tail[t]) :
          a.previous = d.previous /\ a.under = d.under /\ a.first = d.first
    BY <1>1, <1>4 DEF InFlight
  <2> QED BY <1>4, <2>1, <2>2 DEF N!Alert
<1>6. delivered \subseteq Open(t) /\ N!Of(Undelivered(b)) \ bygone[t] = Open(t) \ delivered
  <2>1. tail[t].ready \cap tail[t].deferred = {} BY <1>1 DEF InFlight
  <2> QED BY <1>4, <1>5, <2>1 DEF N!Of, Open
<1>7. InFlight(b) BY <1>1, <1>3, <1>4 DEF InFlight
<1>8. PaceInv'
  <2>1. /\ Undelivered(b) \subseteq Undelivered(tail[t])
        /\ b.pc \notin {"idle", "prune", "evaluate"}
    BY <1>3, <1>4
  <2>2. told' = told \cup delivered /\ owed' = owed \ delivered /\ buried' = buried \ delivered
    BY <1>2
  <2>3. delivered \in SUBSET Open(t) BY <1>6
  <2> HIDE DEF delivered
  <2> QED BY ONLY t \in Tails, PaceInv, <1>1, <1>3, <1>6, <1>7, <2>1, <2>2, <2>3, TailMoves, Zenon
<1>9. \A a \in tail'[t].ready : a.milestone \in bygone[t] \/ a.milestone \notin told
  <2>1. tail'[t].ready \subseteq tail[t].ready BY <1>3 DEF PaceInv, PaceTypes
  <2>2. Open(t) \cap told = {} BY DEF PaceInv, Fine, OpenFits
  <2> QED BY <1>4, <2>1, <2>2 DEF N!Of, Open
<1> QED BY <1>8, <1>9

LEMMA RecordsKeep ==
  ASSUME NEW t \in Tails, PaceInv, N!RecordFailures(t) \/ N!RecordSuccesses(t)
  PROVE  PaceInv'
<1>1. /\ tail[t] \in TailTypes /\ tail[t].pc \in {"failures", "successes"} /\ InFlight(tail[t])
      /\ UNCHANGED <<clock, window, prefs, state, told, owed, buried, bygone, term>>
  BY DEF N!RecordFailures, N!RecordSuccesses, N!At, N!world, N!history, PaceInv, PaceTypes, Fine
<1>2. PICK b \in TailTypes :
        /\ tail' = [tail EXCEPT ![t] = b] /\ b.pc \in {"successes", "rollback", "rollbackDeferred"}
        /\ b.pc = "rollbackDeferred" => b.failed = {}
        /\ b.deferred = tail[t].deferred /\ b.failed = tail[t].failed
        /\ b.ready \subseteq tail[t].ready
  <2>1. CASE N!RecordFailures(t)
    <3> DEFINE pc == IF tail[t].ready = {} THEN "rollback" ELSE "successes"
               b == [tail[t] EXCEPT !.pc = pc]
    <3>1. /\ b \in TailTypes /\ b.pc \in {"successes", "rollback"} /\ b.deferred = tail[t].deferred
          /\ b.ready = tail[t].ready /\ b.failed = tail[t].failed
      BY <1>1 DEF TailTypes
    <3>2. tail' = [tail EXCEPT ![t] = b] BY <2>1 DEF N!RecordFailures, PaceInv, PaceTypes
    <3> QED BY <3>1, <3>2
  <2>2. CASE N!RecordSuccesses(t)
    <3> DEFINE pc == IF tail[t].failed = {} THEN "rollbackDeferred" ELSE "rollback"
               b == [tail[t] EXCEPT !.pc = pc, !.ready = {}]
    <3>1. /\ b \in TailTypes /\ b.pc \in {"rollback", "rollbackDeferred"}
          /\ b.pc = "rollbackDeferred" => tail[t].failed = {}
          /\ b.deferred = tail[t].deferred
          /\ b.ready = {} /\ b.failed = tail[t].failed
      BY <1>1 DEF TailTypes
    <3>2. tail' = [tail EXCEPT ![t] = b] BY <2>2 DEF N!RecordSuccesses, PaceInv, PaceTypes
    <3> QED BY <3>1, <3>2
  <2> QED BY <2>1, <2>2
<1>3. Undelivered(b) = Undelivered(tail[t]) BY <1>1, <1>2 DEF Undelivered
<1>4. InFlight(b) /\ b.pc \notin {"idle", "prune", "evaluate"} BY <1>1, <1>2, <1>3 DEF InFlight
<1>5. /\ {} \in SUBSET Open(t) /\ N!Of(Undelivered(b)) \ bygone[t] = Open(t) \ {}
      /\ told' = told \cup {} /\ owed' = owed \ {} /\ buried' = buried \ {}
      /\ Undelivered(b) \subseteq Undelivered(tail[t])
  BY <1>1, <1>3 DEF Open
<1> QED BY ONLY t \in Tails, PaceInv, <1>1, <1>2, <1>4, <1>5, TailMoves, Zenon

\* Taking some alerts back leaves what is owed, and not written over, on its way or loose.
LEMMA RollbackKeeps ==
  ASSUME NEW t \in Tails, PaceInv, NEW b \in TailTypes, tail' = [tail EXCEPT ![t] = b],
         UNCHANGED <<clock, window, prefs>>, NEW alerts \in SUBSET N!Alert,
         InFlight(b), b.pc = "idle" => tail[t].deferred \subseteq alerts,
         b.pc \in {"idle", "rollbackDeferred"},
         Undelivered(tail[t]) = alerts \cup Undelivered(b), Undelivered(b) = tail[t].deferred \ alerts,
         state' = N!RolledBack(alerts), N!Unsaid(t, alerts)
  PROVE  PaceInv'
<1> DEFINE past == N!Of(alerts) \cap bygone[t]
           outdated == past \cup N!Of({a \in alerts : a.first})
<1>1. /\ tail'[t] = b /\ tail' \in [Tails -> TailTypes] /\ state \in EntryTypes
      /\ \A u \in Tails \ {t} : tail'[u] = tail[u]
      /\ tail[t] \in TailTypes
  BY DEF PaceInv, PaceTypes
<1>2. /\ told' = told \ past /\ owed' = owed /\ term' = term
      /\ buried' =
           buried \cup {m \in owed : \E k \in outdated : m = "AlmostOut" <=> k = "AlmostOut"}
      /\ bygone'[t] = bygone[t] \cap N!Of(Undelivered(b))
      /\ \A u \in Tails \ {t} : bygone'[u] = bygone[u] \cup (N!Held(u) \cap past)
      /\ bygone' \in [Tails -> SUBSET N!Milestones]
  <2>1. past \subseteq N!Milestones BY DEF PaceInv, PaceTypes
  <2> HIDE DEF past
  <2>2. bygone' = [u \in Tails |-> IF u = t THEN bygone[t] \cap N!Of(tail[t].deferred \ alerts)
                                   ELSE bygone[u] \cup (N!Held(u) \cap past)]
    BY DEF N!Unsaid, past
  <2>3. bygone[t] \subseteq N!Milestones /\ \A u \in Tails : bygone[u] \subseteq N!Milestones
    BY DEF PaceInv, PaceTypes
  <2>4. bygone' \in [Tails -> SUBSET N!Milestones] BY <2>1, <2>2, <2>3
  <2> QED BY <2>2, <2>4 DEF N!Unsaid, past
<1>3. \A a, d \in Undelivered(tail[t]) :
        /\ a.previous = d.previous /\ (a.under <=> d.under) /\ (a.first <=> d.first)
        /\ a.milestone = d.milestone => a = d
  <2>1. \A a, d \in Undelivered(tail[t]) :
          a.previous = d.previous /\ a.under = d.under /\ a.first = d.first
    BY DEF PaceInv, Fine, InFlight, Undelivered
  <2>2. Undelivered(tail[t]) \subseteq N!Alert BY <1>1 DEF Undelivered, TailTypes
  <2> QED BY <2>1, <2>2 DEF N!Alert
<1>4. N!Of(alerts) \cap N!Of(Undelivered(b)) = {} BY <1>3 DEF N!Of
<1>5. /\ N!Of(Undelivered(tail[t])) = N!Of(alerts) \cup N!Of(Undelivered(b))
      /\ N!Of(alerts) \ past \subseteq Open(t)
  BY DEF N!Of, Open
<1>6. /\ Open(t)' = Open(t) \ N!Of(alerts)
      /\ \A u \in Tails \ {t} : Open(u)' = Open(u) \ past
  <2>1. Open(t)' = N!Of(Undelivered(b)) \ bygone[t] BY <1>1, <1>2 DEF Open
  <2>2. Open(t)' = Open(t) \ N!Of(alerts) BY <2>1, <1>4, <1>5 DEF Open
  <2>3. \A u \in Tails : Open(u) \subseteq N!Held(u) BY DEF Open, Undelivered, N!Held, N!Of
  <2>4. ASSUME NEW u \in Tails \ {t} PROVE Open(u)' = Open(u) \ past
    <3>1. Open(u)' = N!Of(Undelivered(tail[u])) \ (bygone[u] \cup (N!Held(u) \cap past))
      BY <1>1, <1>2 DEF Open
    <3> HIDE DEF past
    <3> QED BY <2>3, <3>1 DEF Open
  <2> QED BY <2>2, <2>4
<1> HIDE DEF past
<1>7. /\ state' \in EntryTypes /\ state'.resets = state.resets /\ (state'.primed <=> state.primed)
      /\ ~state.primed => state' = state
      /\ state.primed =>
           /\ state'.fired = state.fired \ N!Of(alerts)
           /\ "AlmostOut" \notin N!Of(alerts) => (state'.under <=> state.under)
           /\ N!Of(alerts) \subseteq {"AlmostOut"} => state'.previous = state.previous
           /\ \A a \in alerts :
                IF a.milestone = "AlmostOut" THEN state'.under <=> a.under
                                             ELSE state'.previous = a.previous
  <2>1. CASE alerts = {} \/ ~state.primed
    <3>1. state' = state BY <2>1 DEF N!RolledBack
    <3> QED BY <2>1, <3>1, <1>1 DEF N!Of
  <2>2. CASE alerts # {} /\ state.primed
    <3>1. PICK found \in alerts :
            state' = [state EXCEPT
              !.fired = @ \ N!Of(alerts),
              !.under = IF "AlmostOut" \in N!Of(alerts) THEN found.under ELSE @,
              !.previous = IF N!Of(alerts) \ {"AlmostOut"} # {} THEN found.previous ELSE @]
      <4> DEFINE found == CHOOSE a \in alerts : TRUE
      <4>1. found \in alerts BY <2>2
      <4>2. state' = [state EXCEPT
              !.fired = @ \ N!Of(alerts),
              !.under = IF "AlmostOut" \in N!Of(alerts) THEN found.under ELSE @,
              !.previous = IF N!Of(alerts) \ {"AlmostOut"} # {} THEN found.previous ELSE @]
        BY <2>2 DEF N!RolledBack, N!Of
      <4> HIDE DEF found
      <4> QED BY <4>1, <4>2
    <3>2. found.previous \in 0..3 /\ found.under \in BOOLEAN
      BY DEF N!Alert, N!Untracked, N!RunningOut
    <3> DEFINE u == IF "AlmostOut" \in N!Of(alerts) THEN found.under ELSE state.under
               p == IF N!Of(alerts) \ {"AlmostOut"} # {} THEN found.previous ELSE state.previous
    <3>3. u \in BOOLEAN /\ p \in 0..3 BY <1>1, <3>2 DEF EntryTypes
    <3>4. state' = [state EXCEPT !.fired = @ \ N!Of(alerts), !.under = u, !.previous = p]
      BY <3>1
    <3>5. state.fired \ N!Of(alerts) \in SUBSET N!Milestones BY <1>1 DEF EntryTypes
    <3> HIDE DEF u, p
    <3>6. /\ state' \in EntryTypes /\ state'.primed /\ state'.fired = state.fired \ N!Of(alerts)
          /\ state'.under = u /\ state'.previous = p /\ state'.resets = state.resets
      BY <1>1, <2>2, <3>3, <3>4, <3>5 DEF EntryTypes
    <3>7. "AlmostOut" \notin N!Of(alerts) => (u <=> state.under) BY DEF u
    <3>8. N!Of(alerts) \subseteq {"AlmostOut"} => p = state.previous BY DEF p
    <3>9. ASSUME NEW a \in alerts
          PROVE  IF a.milestone = "AlmostOut" THEN u <=> a.under ELSE p = a.previous
      <4>1. a.milestone \in N!Of(alerts) BY DEF N!Of
      <4>2. a.previous = found.previous /\ (a.under <=> found.under) BY <1>3
      <4> QED BY <4>1, <4>2 DEF u, p
    <3> QED BY <2>2, <3>6, <3>7, <3>8, <3>9
  <2> QED BY <2>1, <2>2
<1>8. /\ told' \subseteq state'.fired
      /\ Open(t)' \subseteq state'.fired \ told'
      /\ \A u \in Tails \ {t} : Open(u)' \subseteq state'.fired \ told'
  <2>1. told \subseteq state.fired /\ \A u \in Tails : Open(u) \subseteq state.fired \ told
    BY DEF PaceInv, Fine, OpenFits
  <2>2. CASE ~state.primed
    <3>1. state'.fired = {} /\ told = {} BY <2>2, <1>7 DEF PaceInv, NothingYet
    <3>2. state.fired = {} BY <2>2 DEF PaceInv, NothingYet
    <3> QED BY <2>1, <3>1, <3>2, <1>2, <1>6
  <2>3. CASE state.primed
    <3>1. state'.fired = state.fired \ N!Of(alerts) BY <2>3, <1>7
    <3>2. told' \cap N!Of(alerts) = {} BY <2>1, <1>2, <1>5
    <3>3. \A u \in Tails \ {t} : Open(u)' \cap N!Of(alerts) = {}
      BY <1>5, <1>6 DEF PaceInv, Apart
    <3> QED BY <2>1, <3>1, <3>2, <3>3, <1>2, <1>6
  <2> QED BY <2>2, <2>3
<1>9. PaceTypes'
  <2>1. told' \subseteq N!Milestones /\ buried' \subseteq owed' BY <1>2 DEF PaceInv, PaceTypes
  <2> QED BY <1>1, <1>2, <1>7, <2>1 DEF PaceInv, PaceTypes
<1>10. ResetsFit' /\ NothingYet' /\ Apart'
  <2>1. ResetsFit' BY <1>2, <1>7 DEF PaceInv, ResetsFit
  <2>2. NothingYet' BY <1>2, <1>7 DEF PaceInv, NothingYet
  <2>3. Apart' BY <1>6 DEF PaceInv, Apart
  <2> QED BY <2>1, <2>2, <2>3
<1>11. Kept'
  <2> SUFFICES ASSUME NEW m \in owed, m \notin buried,
                      \A k \in outdated : ~(m = "AlmostOut" <=> k = "AlmostOut"),
                      \A u \in Tails : m \notin Open(u)'
               PROVE  Loose(m)'
    BY <1>2 DEF Kept
  <2>1. m \in N!Milestones /\ state.primed BY DEF PaceInv, PaceTypes, NothingYet
  <2>2. m \notin outdated OBVIOUS
  <2>3. \A a \in alerts : a.milestone \notin outdated =>
          ~a.first /\ a.milestone \in Open(t) /\ Below(a.milestone, a.previous, a.under)
    <3>1. \A a \in alerts : a.milestone \notin outdated =>
            ~a.first /\ a.milestone \notin bygone[t] /\ a.milestone \in Open(t)
      BY <1>5 DEF past, N!Of
    <3> QED BY <3>1 DEF PaceInv, Fine, Found
  <2>4. CASE m \in N!Of(alerts)
    <3>1. PICK a \in alerts : a.milestone = m BY <2>4 DEF N!Of
    <3>2. Below(m, a.previous, a.under) BY <2>2, <2>3, <3>1
    <3>3. IF m = "AlmostOut" THEN state'.under <=> a.under ELSE state'.previous = a.previous
      BY <2>1, <3>1, <1>7
    <3>4. Below(m, state'.previous, state'.under) BY <3>2, <3>3 DEF Below
    <3> QED BY <2>1, <2>4, <3>4, <1>7 DEF Loose
  <2>5. CASE m \notin N!Of(alerts)
    <3>1. Loose(m)
      <4>1. \A u \in Tails : m \notin Open(u) BY <2>2, <2>5, <1>6
      <4> QED BY <4>1 DEF PaceInv, Kept
    <3>2. m = "AlmostOut" => (state'.under <=> state.under) BY <2>1, <2>5, <1>7
    <3>3. CASE m = "AlmostOut" BY <2>1, <3>1, <3>2, <3>3, <1>7 DEF Loose, Below
    <3>4. CASE m # "AlmostOut" /\ N!Of(alerts) \subseteq {"AlmostOut"}
      BY <2>1, <3>1, <3>4, <1>7 DEF Loose, Below
    <3>5. CASE m # "AlmostOut" /\ ~(N!Of(alerts) \subseteq {"AlmostOut"})
      <4>1. PICK a \in alerts : a.milestone # "AlmostOut" BY <3>5 DEF N!Of
      <4>2. a.milestone \in N!Milestones /\ a.milestone # m /\ a.milestone \notin outdated
        BY <2>5, <3>5, <4>1 DEF N!Of, N!Alert
      <4>3. a.milestone \in Open(t) /\ Below(a.milestone, a.previous, a.under) BY <2>3, <4>2
      <4>4. ~(m = "CuttingItClose" /\ a.milestone = "WillRunOut")
        BY <4>3 DEF PaceInv, Fine, OpenFits
      <4>5. m = "WillRunOut" /\ a.milestone = "CuttingItClose"
        BY <2>1, <3>5, <4>1, <4>2, <4>4 DEF N!Milestones
      <4>6. state'.previous = a.previous /\ a.previous < 2 BY <2>1, <4>3, <4>5, <1>7 DEF Below
      <4>7. a.previous \in 0..3 BY DEF N!Alert, N!Untracked, N!RunningOut
      <4>8. Below(m, state'.previous, state'.under) BY <4>5, <4>6, <4>7 DEF Below
      <4> QED BY <2>1, <2>5, <3>1, <4>8, <1>7 DEF Loose
    <3> QED BY <3>3, <3>4, <3>5
  <2> QED BY <2>4, <2>5
<1>12. ASSUME NEW u \in Tails PROVE Fine(u)'
  <2>1. CASE u # t
    <3>1. tail'[u] = tail[u] /\ bygone[u] \subseteq bygone'[u] BY <2>1, <1>1, <1>2
    <3>2. Fresh(u)'
      <4>1. tail[u].pc \in {"idle", "prune", "evaluate"} => N!Held(u) = {} /\ bygone[u] = {}
        BY DEF PaceInv, Fine, Fresh, InFlight, N!Held, N!Of
      <4> QED BY <2>1, <3>1, <4>1, <1>2 DEF Fresh
    <3>3. OpenFits(u)' BY <2>1, <1>2, <1>6, <1>8 DEF PaceInv, Fine, OpenFits
    <3> QED BY <3>1, <3>2, <3>3 DEF PaceInv, Fine, InFlight, Found
  <2>2. CASE u = t
    <3>1. InFlight(tail[t])' BY <1>1 DEF InFlight
    <3>2. Fresh(t)'
      <4>1. b.pc = "idle" => Undelivered(b) = {} OBVIOUS
      <4>2. N!Of({}) = {} BY DEF N!Of
      <4> QED BY <4>1, <4>2, <1>1, <1>2 DEF Fresh
    <3>3. Found(t)'
      <4>1. \A a \in Undelivered(b) : a.milestone \in N!Of(Undelivered(b)) BY DEF N!Of
      <4> QED BY <4>1, <1>1, <1>2 DEF PaceInv, Fine, Found
    <3>4. OpenFits(t)' BY <1>2, <1>6, <1>8 DEF PaceInv, Fine, OpenFits
    <3> QED BY <2>2, <3>1, <3>2, <3>3, <3>4 DEF Fine
  <2> QED BY <2>1, <2>2
<1> QED BY <1>8, <1>9, <1>10, <1>11, <1>12 DEF PaceInv

LEMMA RollbacksKeep ==
  ASSUME NEW t \in Tails, PaceInv, N!RollbackFailed(t) \/ N!RollbackDeferred(t)
  PROVE  PaceInv'
<1>1. /\ tail[t] \in TailTypes /\ InFlight(tail[t]) /\ UNCHANGED <<clock, window, prefs>>
  BY DEF N!RollbackFailed, N!RollbackDeferred, N!world, PaceInv, PaceTypes, Fine
<1>2. CASE N!RollbackFailed(t)
  <2>1. /\ tail[t].pc = "rollback" /\ state' = N!RolledBack(tail[t].failed)
        /\ N!Unsaid(t, tail[t].failed) /\ tail[t].failed \in SUBSET N!Alert
    BY <1>1, <1>2 DEF N!RollbackFailed, N!At, TailTypes
  <2> DEFINE b == [tail[t] EXCEPT !.pc = "rollbackDeferred", !.failed = {}]
  <2>2. PICK c \in TailTypes :
          /\ tail' = [tail EXCEPT ![t] = c]
          /\ \/ c.pc = "idle" /\ c.ready = {} /\ tail[t].deferred = {}
             \/ c.pc = "rollbackDeferred" /\ c.ready = tail[t].ready
          /\ c.failed = {} /\ c.deferred = tail[t].deferred
    <3>1. /\ b \in TailTypes /\ b.pc = "rollbackDeferred" /\ b.deferred = tail[t].deferred
          /\ b.ready = tail[t].ready /\ b.failed = {}
      BY <1>1 DEF TailTypes
    <3>2. /\ N!Idle \in TailTypes /\ N!Idle.pc = "idle" /\ N!Idle.ready = {}
          /\ N!Idle.failed = {} /\ N!Idle.deferred = {}
      BY WindowFacts DEF N!Idle
    <3>3. tail' = [tail EXCEPT ![t] = IF tail[t].deferred = {} THEN N!Idle ELSE b]
      BY <1>2 DEF N!RollbackFailed, PaceInv, PaceTypes
    <3> HIDE DEF b
    <3> QED BY <3>1, <3>2, <3>3
  <2>3. /\ Undelivered(tail[t]) = tail[t].failed \cup Undelivered(c)
        /\ Undelivered(c) = tail[t].deferred \ tail[t].failed
    BY <1>1, <2>1, <2>2 DEF Undelivered, InFlight
  <2>4. InFlight(c) BY <1>1, <2>2 DEF InFlight
  <2>5. /\ c.pc = "idle" => tail[t].deferred \subseteq tail[t].failed
        /\ c.pc \in {"idle", "rollbackDeferred"}
    BY <2>2
  <2> QED BY ONLY t \in Tails, PaceInv, <1>1, <2>1, <2>2, <2>3, <2>4, <2>5, RollbackKeeps, Zenon
<1>3. CASE N!RollbackDeferred(t)
  <2>1. /\ tail[t].pc = "rollbackDeferred" /\ state' = N!RolledBack(tail[t].deferred)
        /\ N!Unsaid(t, tail[t].deferred) /\ tail' = [tail EXCEPT ![t] = N!Idle]
        /\ tail[t].deferred \in SUBSET N!Alert
    BY <1>1, <1>3 DEF N!RollbackDeferred, N!At, TailTypes
  <2>2. PICK c \in TailTypes :
          /\ tail' = [tail EXCEPT ![t] = c] /\ c.pc = "idle"
          /\ c.ready = {} /\ c.failed = {} /\ c.deferred = {}
    BY <2>1, WindowFacts DEF N!Idle
  <2>3. /\ Undelivered(tail[t]) = tail[t].deferred \cup Undelivered(c)
        /\ Undelivered(c) = tail[t].deferred \ tail[t].deferred
    BY <1>1, <2>1, <2>2 DEF Undelivered, InFlight
  <2>4. InFlight(c) BY <2>2 DEF InFlight
  <2>5. /\ c.pc = "idle" => tail[t].deferred \subseteq tail[t].deferred
        /\ c.pc \in {"idle", "rollbackDeferred"}
    BY <2>2
  <2> QED BY ONLY t \in Tails, PaceInv, <1>1, <2>1, <2>2, <2>3, <2>4, <2>5, RollbackKeeps, Zenon
<1> QED BY <1>2, <1>3

LEMMA PaceStarts == N!Init => PaceInv
<1> SUFFICES ASSUME N!Init PROVE PaceInv
  OBVIOUS
<1>1. /\ clock = 0 /\ prefs \in N!Settings /\ state = N!Blank /\ told = {} /\ owed = {}
      /\ buried = {} /\ term = 0 /\ tail = [t \in Tails |-> N!Idle]
      /\ bygone = [t \in Tails |-> {}]
  BY DEF N!Init, N!NoReset
<1>2. /\ N!Blank.fired = {} /\ N!Blank.resets = 0 /\ N!Idle.pc = "idle" /\ N!Idle.ready = {}
      /\ N!Idle.failed = {} /\ N!Idle.deferred = {} /\ Undelivered(N!Idle) = {}
  BY DEF N!Blank, N!Idle, Undelivered, N!NoReset
<1>3. PaceTypes
  <2>1. window \in WindowTypes BY PaceAssumption, WindowFacts DEF N!Init
  <2> QED BY PaceAssumption, <1>1, <2>1, WindowFacts DEF PaceTypes
<1>4. \A t \in Tails : tail[t] = N!Idle /\ bygone[t] = {} /\ Open(t) = {}
  BY <1>1, <1>2 DEF Open, N!Of
<1>5. ResetsFit /\ NothingYet /\ told \subseteq state.fired /\ Apart /\ Kept
  BY <1>1, <1>2, <1>4 DEF ResetsFit, NothingYet, Apart, Kept
<1>6. \A t \in Tails : Fine(t)
  BY <1>2, <1>4 DEF Fine, InFlight, Fresh, Found, OpenFits
<1> QED BY <1>3, <1>5, <1>6 DEF PaceInv

\* A step of the metric.
LEMMA PaceStep == ASSUME PaceInv, [N!Next]_paceVars PROVE PaceInv'
<1>1. CASE N!World BY <1>1, PaceWorldKeeps
<1>2. ASSUME NEW t \in Tails, N!Begin(t) \/ N!Finish(t) PROVE PaceInv'
  BY <1>2, BeginKeeps, PruneKeeps, EvaluateKeeps, PartitionKeeps, DeliverKeeps, RecordsKeep,
     RollbacksKeep
  DEF N!Finish
<1>3. CASE UNCHANGED paceVars
  BY <1>3
  DEF paceVars, PaceInv, PaceTypes, ResetsFit, NothingYet, Apart, Kept, Fine, InFlight, Fresh,
      Found, OpenFits, Open, Loose
<1> QED BY <1>1, <1>2, <1>3 DEF N!Next

LEMMA PaceMoves ==
  [MCNext]_<<part, vars, claimVars, paceVars, desktopVars>> => [N!Next]_paceVars
BY DEF MCNext, Reminding, Claiming, Pacing, Desktop, N!Next, N!World, N!Finish

LEMMA PaceHolds == MCSpec => []PaceInv
<1>1. MCInit => PaceInv BY PaceStarts DEF MCInit
<1>2. PaceInv /\ [MCNext]_<<part, vars, claimVars, paceVars, desktopVars>> => PaceInv'
  BY PaceMoves, PaceStep
<1> QED BY <1>1, <1>2, PTL DEF MCSpec

\* However many tails there are and however their steps interleave, an alert that was raised and
\* not delivered is raised again once they are done, unless an outdated rollback has written over
\* what the entry held.
THEOREM NoAlertLost == MCSpec => []StaysPending
<1>1. PaceInv => StaysPending
  <2> SUFFICES ASSUME PaceInv, N!AtRest, NEW m \in owed \ buried PROVE N!Pending(m)
    BY DEF StaysPending, N!StaysPending
  <2>1. \A t \in Tails : Open(t) = {}
    BY DEF N!AtRest, PaceInv, Fine, InFlight, Open, Undelivered, N!Of
  <2>2. Loose(m) /\ m \in N!Milestones BY <2>1 DEF PaceInv, Kept, PaceTypes
  <2>3. PICK severity \in 0..3 : \A u \in {TRUE} :
         N!Applies(m, severity, u) /\ m \in N!Raised(state, severity, u, {m})
    <3> USE DEF N!Applies, N!Raised, Loose, Below, N!Close, N!RunningOut
    <3>1. CASE m = "CuttingItClose" BY <2>2, <3>1
    <3>2. CASE m = "WillRunOut" BY <2>2, <3>2
    <3>3. CASE m = "AlmostOut" BY <2>2, <3>3
    <3> QED BY <2>2, <3>1, <3>2, <3>3 DEF N!Milestones
  <2>4. TRUE \in BOOLEAN /\ severity \in N!Untracked..N!RunningOut BY DEF N!Untracked, N!RunningOut
  <2> QED BY <2>3, <2>4 DEF N!Pending
<1> QED BY <1>1, PaceHolds, PTL

\* However many tails there are, a milestone is shown once per window until the metric recovers,
\* but for the alert of a crossing that is over (and what ToldOnce says no longer counts).
THEOREM NoMilestoneTwice == MCSpec => ToldOnce
<1> DEFINE Once == \A t \in Tails : N!At(t, "deliver") /\ tail'[t].pc # "deliver"
             => \A a \in tail'[t].ready : a.milestone \in bygone[t] \/ a.milestone \notin told
<1>1. PaceInv /\ [N!Next]_paceVars => [Once]_N!vars
  <2> SUFFICES ASSUME PaceInv, N!Next, NEW t \in Tails, tail[t].pc = "deliver",
                      tail'[t].pc # "deliver", NEW a \in tail'[t].ready
               PROVE  a.milestone \in bygone[t] \/ a.milestone \notin told
    BY DEF N!At, N!vars, paceVars
  <2>1. ~N!World
    BY DEF N!World, N!TimePasses, N!WindowMoves, N!WindowRolls, N!PreferencesChange
  <2>2. PICK u \in Tails : N!Begin(u) \/ N!Finish(u) BY <2>1 DEF N!Next
  <2>3. \E b : tail' = [tail EXCEPT ![u] = b]
    <3>1. CASE N!Begin(u) BY <3>1 DEF N!Begin
    <3>2. CASE N!Prune(u) BY <3>2 DEF N!Prune
    <3>3. CASE N!Evaluate(u) BY <3>3 DEF N!Evaluate
    <3>4. CASE N!Partition(u)
      BY <3>4 DEF N!Partition, PaceInv, PaceTypes
    <3>5. CASE N!Deliver(u)
      BY <3>5 DEF N!Deliver, PaceInv, PaceTypes
    <3>6. CASE N!RecordFailures(u)
      BY <3>6 DEF N!RecordFailures, PaceInv, PaceTypes
    <3>7. CASE N!RecordSuccesses(u)
      BY <3>7 DEF N!RecordSuccesses, PaceInv, PaceTypes
    <3>8. CASE N!RollbackFailed(u)
      BY <3>8 DEF N!RollbackFailed, PaceInv, PaceTypes
    <3>9. CASE N!RollbackDeferred(u)
      BY <3>9 DEF N!RollbackDeferred
    <3> QED BY <2>2, <3>1, <3>2, <3>3, <3>4, <3>5, <3>6, <3>7, <3>8, <3>9 DEF N!Finish
  <2>4. u = t BY <2>3 DEF PaceInv, PaceTypes
  <2>5. N!Deliver(t)
    BY <2>2, <2>4 DEF N!Finish, N!At, N!Begin, N!Prune, N!Evaluate, N!Partition,
       N!RecordFailures, N!RecordSuccesses, N!RollbackFailed, N!RollbackDeferred
  <2> QED BY <2>5, DeliverKeeps
<1>2. PaceInv /\ [MCNext]_<<part, vars, claimVars, paceVars, desktopVars>> => [Once]_N!vars
  BY <1>1, PaceMoves
<1>3. MCSpec => []PaceInv BY PaceHolds
<1>4. MCSpec => [][Once]_N!vars BY <1>2, <1>3, PTL DEF MCSpec
<1> QED BY <1>4, PTL DEF ToldOnce, N!ToldOnce

-----------------------------------------------------------------------------
(*****************************************************************************)
(* DesktopEffects: what the job in flight has yet to do explains every       *)
(* difference between the desktop and the saved settings.                    *)
(*****************************************************************************)
\* The phases of a save, of which the middle ones run on the main thread.
Between == {"chrome", "flag", "cancel", "show"}
Pcs == {"login", "mode", "persist", "undo"} \cup Between
\* The dismissals that wait and the one being scheduled are within the bound of the runs.
Fits(w) ==
  /\ w \in D!Windows
  /\ w.pending + w.late + (IF w.handling THEN 1 ELSE 0) <= MaxPending
Typed ==
  /\ saved \in D!Settings /\ registered \subseteq Shortcuts /\ login \in BOOLEAN /\ tray \in BOOLEAN
  /\ Fits(panel) /\ job \in D!Jobs \cup {D!Idle}
\* The panel is fully in mode m.
ModeIs(m) == panel.floating = D!Standalone(tray, m) /\ panel.chrome = D!Chrome(panel.floating)
\* A save remembers the settings it replaces and has applied what its phase is past.
JobFits == job # D!Idle =>
  /\ job.was = saved
  /\ job.undoing => job.pc \in Between \cup {"mode"}
  /\ ~job.undoing /\ job.pc \in Between \cup {"login", "mode"} => "mode" \notin job.applied
  /\ job.pc = "login" => job.applied = {}
  /\ job.pc = "persist" /\ "mode" \notin job.applied => job.was.mode = job.next.mode
  /\ ~job.undoing /\ job.pc \notin {"login", "undo"} /\ "login" \notin job.applied
       => job.was.login = job.next.login
\* The save under way has set its launch at login.
LoginSet ==
  /\ job # D!Idle /\ ~job.undoing /\ job.pc # "login"
  /\ job.pc = "undo" => "login" \in job.applied
\* The shortcuts and the launch at login are those of the save, or those saved.
ShortcutFollows == "shortcut" \notin astray =>
  registered = D!Keys(IF job = D!Idle \/ job.undoing THEN saved.shortcut ELSE job.next.shortcut)
LoginFollows == "login" \notin astray => login = IF LoginSet THEN job.next.login ELSE saved.login
\* The save has not begun to change the mode; the mode the window comes from.
Untouched == \/ job = D!Idle \/ job.pc = "login" \/ (job.pc = "mode" /\ ~job.undoing)
             \/ (job.pc = "undo" /\ "mode" \notin job.applied)
Other == IF job.undoing THEN job.next.mode ELSE job.was.mode
\* The window is in the saved mode, in the save's, or on the way its phase says.
ModeFollows == "mode" \notin astray =>
  IF Untouched THEN ModeIs(saved.mode)
  ELSE IF job.pc \in {"mode", "persist", "undo"} THEN ModeIs(job.next.mode)
  ELSE /\ job.floating = D!Standalone(tray, D!Target) /\ job.before = D!Standalone(tray, Other)
       /\ panel.floating = IF job.pc \in {"chrome", "flag"} THEN job.before ELSE job.floating
       /\ panel.chrome = D!Chrome(IF job.pc = "chrome" THEN job.before ELSE job.floating)
\* A window whose dismissal waits or has hidden it is a popup, or is about to be shown.
Dismissing == "show" \notin astray =>
  /\ job.pc = "cancel" \/ panel.pending = 0 \/ ~panel.floating
  /\ \/ job.pc \in {"cancel", "show"} \/ panel.visible \/ panel.hidden # "dismissal"
     \/ ~panel.floating
DInv == Typed /\ JobFits /\ ShortcutFollows /\ LoginFollows /\ ModeFollows /\ Dismissing

\* The fields of a save, and a save of which the phase changes.
LEMMA JobTyped ==
  ASSUME NEW j \in D!Jobs
  PROVE  /\ j # D!Idle /\ j.pc \in Pcs /\ j.was \in D!Settings /\ j.next \in D!Settings
         /\ j.applied \subseteq {"login", "mode"} /\ j.undoing \in BOOLEAN
         /\ j.floating \in BOOLEAN /\ j.before \in BOOLEAN
         /\ \A p \in Pcs : /\ [j EXCEPT !.pc = p] \in D!Jobs
                            /\ [j EXCEPT !.pc = p].pc = p
                            /\ [j EXCEPT !.pc = p].was = j.was
                            /\ [j EXCEPT !.pc = p].next = j.next
                            /\ [j EXCEPT !.pc = p].applied = j.applied
                            /\ [j EXCEPT !.pc = p].undoing = j.undoing
                            /\ [j EXCEPT !.pc = p].floating = j.floating
                            /\ [j EXCEPT !.pc = p].before = j.before
<1>1. j # D!Idle /\ j.pc \in Pcs BY DEF D!Jobs, D!Idle, Pcs, Between
<1> QED BY <1>1 DEF D!Jobs, Pcs, Between

LEMMA CancelFits ==
  ASSUME NEW w, Fits(w)
  PROVE  /\ Fits(D!Cancel(w)) /\ D!Cancel(w).pending = 0 /\ D!Cancel(w).floating = w.floating
         /\ D!Cancel(w).chrome = w.chrome /\ D!Cancel(w).visible = w.visible
         /\ D!Cancel(w).hidden = w.hidden
<1>1. 0 \in 0..MaxPending BY PendingAssumption
<1>2. D!Cancel(w) \in D!Windows BY <1>1 DEF Fits, D!Windows, D!Cancel
<1>3. /\ D!Cancel(w).pending = 0 /\ D!Cancel(w).late = 0 /\ D!Cancel(w).handling = w.handling
      /\ D!Cancel(w).floating = w.floating /\ D!Cancel(w).chrome = w.chrome
      /\ D!Cancel(w).visible = w.visible /\ D!Cancel(w).hidden = w.hidden
  BY DEF Fits, D!Windows, D!Cancel
<1>4. 0 + 0 + (IF w.handling THEN 1 ELSE 0) <= MaxPending
  <2>1. /\ w.pending \in Nat /\ w.late \in Nat
        /\ w.pending + w.late + (IF w.handling THEN 1 ELSE 0) <= MaxPending
    BY PendingAssumption DEF Fits, D!Windows
  <2> QED BY <2>1, PendingAssumption
<1> QED BY <1>2, <1>3, <1>4 DEF Fits

LEMMA PanelTyped ==
  ASSUME NEW w, Fits(w), NEW f \in BOOLEAN, NEW c \in D!Modes \cup {"mixed"}
  PROVE  /\ w.floating \in BOOLEAN /\ w.visible \in BOOLEAN /\ w.focused \in BOOLEAN
         /\ w.chrome \in D!Modes \cup {"mixed"} /\ w.pending \in 0..MaxPending
         /\ Fits([w EXCEPT !.chrome = c])
         /\ Fits([w EXCEPT !.floating = f])
         /\ Fits([w EXCEPT !.floating = f, !.chrome = c])
         /\ Fits(D!Cancel(w))
         /\ \A v \in D!Shown(w) : Fits(v)
         /\ D!Chrome(f) \in D!Modes
<1>1. D!Chrome(f) \in D!Modes BY DEF D!Chrome, D!Modes
<1>2. Fits(D!Cancel(w)) BY CancelFits
<1>3. \A v \in D!Shown(w) : Fits(v)
  <2>1. ASSUME NEW g \in BOOLEAN
        PROVE  Fits([w EXCEPT !.visible = TRUE, !.focused = g, !.hidden = "nobody"])
    BY <2>1 DEF Fits, D!Windows
  <2> QED BY <2>1 DEF D!Shown
<1>4. Fits([w EXCEPT !.chrome = c]) BY DEF Fits, D!Windows
<1>5. Fits([w EXCEPT !.floating = f]) BY DEF Fits, D!Windows
<1>6. Fits([w EXCEPT !.floating = f, !.chrome = c]) BY DEF Fits, D!Windows
<1> QED BY <1>1, <1>2, <1>3, <1>4, <1>5, <1>6 DEF Fits, D!Windows

LEMMA DesktopSetLogin == DInv /\ D!SetLogin => DInv'
<1> SUFFICES ASSUME DInv, D!SetLogin PROVE DInv'
  OBVIOUS
<1> USE DEF DInv
<1>1. job \in D!Jobs /\ job.pc = "login" /\ UNCHANGED <<saved, registered, tray, panel, astray>>
  BY DEF D!SetLogin, Typed, D!Idle
<1>2. /\ job.was = saved /\ job.applied = {} /\ ~job.undoing /\ job # D!Idle
      /\ "mode" \in Pcs /\ "undo" \in Pcs
  BY <1>1, JobTyped DEF JobFits, Pcs, Between
<1>3. /\ job' \in D!Jobs /\ job' # D!Idle /\ job'.was = job.was /\ job'.next = job.next
      /\ ~job'.undoing /\ job'.pc \in {"mode", "undo"} /\ "mode" \notin job'.applied
      /\ job'.pc = "undo" => login' = login /\ "login" \notin job'.applied
      /\ job'.pc = "mode" =>
           login' = IF job.was.login = job.next.login THEN login ELSE job.next.login
      /\ job'.pc = "mode" /\ "login" \notin job'.applied => job.was.login = job.next.login
  <2>1. CASE job.was.login = job.next.login /\ job' = [job EXCEPT !.pc = "mode"]
             /\ UNCHANGED <<login, left>>
    BY <2>1, <1>1, <1>2, JobTyped
  <2>2. CASE job.was.login # job.next.login /\ login' = job.next.login
             /\ job' = [job EXCEPT !.pc = "mode", !.applied = {"login"}] /\ UNCHANGED left
    BY <2>2, <1>1, <1>2 DEF D!Jobs, D!Idle
  <2>3. CASE job.was.login # job.next.login /\ D!Spend(1) /\ job' = [job EXCEPT !.pc = "undo"]
             /\ UNCHANGED login
    BY <2>3, <1>1, <1>2, JobTyped
  <2> QED BY <2>1, <2>2, <2>3 DEF D!SetLogin
<1>4. Typed'
  <2>1. job.next.login \in BOOLEAN BY <1>1 DEF D!Jobs, D!Settings
  <2> QED BY <1>1, <1>3, <2>1 DEF Typed
<1>5. JobFits' BY <1>1, <1>2, <1>3 DEF JobFits, Between
<1>6. ShortcutFollows' BY <1>1, <1>2, <1>3 DEF ShortcutFollows
<1>7. LoginFollows' BY <1>1, <1>2, <1>3 DEF LoginFollows, LoginSet
<1>8. ModeFollows' BY <1>1, <1>2, <1>3 DEF ModeFollows, Untouched, ModeIs
<1>9. Dismissing' BY <1>1, <1>3 DEF Dismissing
<1> QED BY <1>4, <1>5, <1>6, <1>7, <1>8, <1>9

LEMMA DesktopBeginMode == DInv /\ D!BeginMode => DInv'
<1> SUFFICES ASSUME DInv, D!BeginMode PROVE DInv'
  OBVIOUS
<1> USE DEF DInv
<1>1. /\ job \in D!Jobs /\ job.pc = "mode" /\ job # D!Idle /\ job.was = saved
      /\ UNCHANGED <<saved, registered, login, tray, astray>>
  BY DEF D!BeginMode, Typed, D!Idle, JobFits
<1>2. /\ "chrome" \in Pcs /\ "persist" \in Pcs /\ job.undoing \in BOOLEAN
      /\ job.was \in D!Settings /\ job.next \in D!Settings
      /\ ~job.undoing => "mode" \notin job.applied
  BY <1>1, JobTyped DEF Pcs, Between, JobFits
<1>3. CASE ~job.undoing /\ job.was.mode = job.next.mode
  <2>1. /\ job' = [job EXCEPT !.pc = "persist"] /\ panel' = panel
    BY <1>1, <1>3 DEF D!BeginMode
  <2>2. /\ job' \in D!Jobs /\ job' # D!Idle /\ job'.pc = "persist" /\ job'.was = job.was
        /\ job'.next = job.next /\ job'.undoing = job.undoing /\ job'.applied = job.applied
    BY <2>1, <1>1, <1>2, JobTyped
  <2>3. Typed' BY <2>1, <2>2, <1>1 DEF Typed
  <2>4. JobFits' BY <2>2, <1>1, <1>3 DEF JobFits, Between
  <2>5. ShortcutFollows' BY <2>2, <1>1 DEF ShortcutFollows
  <2>6. LoginFollows' BY <2>2, <1>1 DEF LoginFollows, LoginSet
  <2>7. ModeFollows' BY <2>1, <2>2, <1>1, <1>3 DEF ModeFollows, Untouched, ModeIs
  <2>8. Dismissing' BY <2>1, <2>2, <1>1 DEF Dismissing
  <2> QED BY <2>3, <2>4, <2>5, <2>6, <2>7, <2>8
<1>4. CASE job.undoing \/ job.was.mode # job.next.mode
  <2> DEFINE target == D!Standalone(tray, D!Target)
  <2>1. /\ job' = [job EXCEPT !.pc = "chrome", !.floating = target, !.before = panel.floating]
        /\ panel' = D!Cancel(panel)
    BY <1>1, <1>4 DEF D!BeginMode
  <2>2. target \in BOOLEAN /\ panel.floating \in BOOLEAN BY DEF D!Standalone, Typed, Fits, D!Windows
  <2>3. /\ job' \in D!Jobs /\ job' # D!Idle /\ job'.pc = "chrome" /\ job'.was = job.was
        /\ job'.next = job.next /\ job'.undoing = job.undoing /\ job'.applied = job.applied
        /\ job'.floating = target /\ job'.before = panel.floating
    <3> HIDE DEF target
    <3> QED BY <2>1, <2>2, <1>1, <1>2 DEF D!Jobs, D!Idle
  <2>4. /\ Fits(panel') /\ panel'.floating = panel.floating /\ panel'.chrome = panel.chrome
        /\ panel'.visible = panel.visible /\ panel'.hidden = panel.hidden /\ panel'.pending = 0
    BY <2>1, CancelFits DEF Typed
  <2>5. target' = target BY <2>3, <1>1 DEF D!Standalone, D!Target
  <2>6. Typed' BY <2>3, <2>4, <1>1 DEF Typed
  <2>7. JobFits' BY <2>3, <1>1, <1>2 DEF JobFits, Between
  <2>8. ShortcutFollows' BY <2>3, <1>1 DEF ShortcutFollows
  <2>9. LoginFollows' BY <2>3, <1>1 DEF LoginFollows, LoginSet
  <2>10. ModeFollows'
    <3>1. "mode" \notin astray => panel.chrome = D!Chrome(panel.floating)
                                  /\ panel.floating = D!Standalone(tray, Other)
      BY <1>1 DEF ModeFollows, Untouched, ModeIs, Other
    <3>2. Other' = Other BY <2>3 DEF Other
    <3>3. (D!Standalone(tray, Other))' = D!Standalone(tray, Other)
      BY <3>2, <1>1 DEF D!Standalone
    <3> QED BY <3>1, <3>3, <2>3, <2>4, <2>5, <1>1 DEF ModeFollows, Untouched
  <2>11. Dismissing' BY <2>3, <2>4, <1>1 DEF Dismissing
  <2> QED BY <2>6, <2>7, <2>8, <2>9, <2>10, <2>11
<1> QED BY <1>2, <1>3, <1>4

LEMMA DesktopSetChrome == DInv /\ D!SetChrome => DInv'
<1> SUFFICES ASSUME DInv, D!SetChrome PROVE DInv'
  OBVIOUS
<1> USE DEF DInv
<1>1. /\ job \in D!Jobs /\ job.pc = "chrome" /\ job # D!Idle /\ job.was = saved
      /\ Fits(panel) /\ UNCHANGED <<saved, registered, login, tray>>
  BY DEF D!SetChrome, Typed, D!Idle, JobFits
<1>2. /\ "flag" \in Pcs /\ "undo" \in Pcs /\ job.undoing \in BOOLEAN
      /\ job.floating \in BOOLEAN /\ job.before \in BOOLEAN
      /\ job.was \in D!Settings /\ job.next \in D!Settings
      /\ ~job.undoing => "mode" \notin job.applied
  BY <1>1, JobTyped DEF Pcs, Between, JobFits
<1>3. CASE /\ panel' = [panel EXCEPT !.chrome = D!Chrome(job.floating)]
           /\ job' = [job EXCEPT !.pc = "flag"] /\ UNCHANGED <<astray, left>>
  <2>1. /\ job' \in D!Jobs /\ job' # D!Idle /\ job'.pc = "flag" /\ job'.was = job.was
        /\ job'.next = job.next /\ job'.undoing = job.undoing /\ job'.applied = job.applied
        /\ job'.floating = job.floating /\ job'.before = job.before
    BY <1>3, <1>1, <1>2, JobTyped
  <2>2. /\ Fits(panel') /\ panel'.floating = panel.floating
        /\ panel'.chrome = D!Chrome(job.floating) /\ panel'.visible = panel.visible
        /\ panel'.hidden = panel.hidden /\ panel'.pending = panel.pending
    <3>1. D!Chrome(job.floating) \in D!Modes BY DEF D!Chrome, D!Modes
    <3> QED BY <3>1, <1>1, <1>3 DEF Fits, D!Windows
  <2>3. Typed' BY <2>1, <2>2, <1>1 DEF Typed
  <2>4. JobFits' BY <2>1, <1>1, <1>2 DEF JobFits, Between
  <2>5. ShortcutFollows' BY <2>1, <1>1, <1>3 DEF ShortcutFollows
  <2>6. LoginFollows' BY <2>1, <1>1, <1>3 DEF LoginFollows, LoginSet
  <2>7. ModeFollows'
    BY <2>1, <2>2, <1>1, <1>3 DEF ModeFollows, Untouched, D!Target, Other, D!Standalone
  <2>8. Dismissing' BY <2>1, <2>2, <1>1, <1>3 DEF Dismissing
  <2> QED BY <2>3, <2>4, <2>5, <2>6, <2>7, <2>8
<1>4. ASSUME NEW restored \in BOOLEAN, D!ModeFails(restored, {}),
             panel' = [panel EXCEPT !.chrome = IF restored THEN D!Chrome(job.before) ELSE "mixed"]
      PROVE  DInv'
  <2>1. /\ Fits(panel') /\ panel'.floating = panel.floating
        /\ panel'.chrome = IF restored THEN D!Chrome(job.before) ELSE "mixed"
        /\ panel'.visible = panel.visible
        /\ panel'.hidden = panel.hidden /\ panel'.pending = panel.pending
    <3>1. D!Chrome(job.before) \in D!Modes BY DEF D!Chrome, D!Modes
    <3> QED BY <3>1, <1>1, <1>4 DEF Fits, D!Windows
  <2>2. astray \subseteq astray' /\ (job.undoing \/ ~restored => "mode" \in astray')
        /\ ("show" \in astray' => "show" \in astray) /\ ("login" \in astray' => "login" \in astray)
        /\ ("shortcut" \in astray' => "shortcut" \in astray)
    BY <1>4 DEF D!ModeFails
  <2>3. CASE job.undoing
    <3>1. job' = D!Idle BY <2>3, <1>4 DEF D!ModeFails
    <3>2. Typed' BY <3>1, <2>1, <1>1 DEF Typed
    <3>3. JobFits' BY <3>1 DEF JobFits
    <3>4. ShortcutFollows' BY <3>1, <2>2, <2>3, <1>1 DEF ShortcutFollows
    <3>5. LoginFollows' BY <3>1, <2>2, <2>3, <1>1 DEF LoginFollows, LoginSet
    <3>6. ModeFollows' BY <2>2, <2>3 DEF ModeFollows
    <3>7. Dismissing' BY <2>1, <2>2, <3>1, <1>1 DEF Dismissing
    <3> QED BY <3>2, <3>3, <3>4, <3>5, <3>6, <3>7
  <2>4. CASE ~job.undoing
    <3>0. job' = [job EXCEPT !.pc = "undo"] BY <2>4, <1>4 DEF D!ModeFails
    <3>1. /\ job' \in D!Jobs /\ job' # D!Idle /\ job'.pc = "undo" /\ job'.was = job.was
          /\ job'.next = job.next /\ ~job'.undoing /\ job'.applied = job.applied
      BY <3>0, <2>4, <1>1, <1>2, JobTyped
    <3>2. Typed' BY <3>1, <2>1, <1>1 DEF Typed
    <3>3. JobFits' BY <3>1, <1>1, <1>2, <2>4 DEF JobFits, Between
    <3>4. ShortcutFollows' BY <3>1, <2>2, <2>4, <1>1 DEF ShortcutFollows
    <3>5. LoginFollows' BY <3>1, <2>2, <2>4, <1>1 DEF LoginFollows, LoginSet, JobFits
    <3>6. ModeFollows'
      BY <2>1, <2>2, <2>4, <3>1, <1>1, <1>2 DEF ModeFollows, Untouched, ModeIs, Other, D!Standalone
    <3>7. Dismissing' BY <2>1, <2>2, <3>1, <1>1 DEF Dismissing
    <3> QED BY <3>2, <3>3, <3>4, <3>5, <3>6, <3>7
  <2> QED BY <2>3, <2>4
<1> QED BY <1>3, <1>4 DEF D!SetChrome

LEMMA DesktopSetFlag == DInv /\ D!SetFlag => DInv'
<1> SUFFICES ASSUME DInv, D!SetFlag PROVE DInv'
  OBVIOUS
<1> USE DEF DInv
<1>1. /\ job \in D!Jobs /\ job.pc = "flag" /\ job # D!Idle /\ job.was = saved
      /\ Fits(panel) /\ UNCHANGED <<saved, registered, login, tray, astray>>
      /\ job' = [job EXCEPT !.pc = "cancel"]
      /\ panel' = [panel EXCEPT !.floating = D!Standalone(tray, D!Target)]
  BY DEF D!SetFlag, Typed, D!Idle, JobFits
<1>2. /\ job' \in D!Jobs /\ job' # D!Idle /\ job'.pc = "cancel" /\ job'.was = job.was
      /\ job'.next = job.next /\ job'.undoing = job.undoing /\ job'.applied = job.applied
      /\ job'.floating = job.floating /\ job'.before = job.before
  BY <1>1, JobTyped DEF Pcs, Between
<1>3. /\ Fits(panel') /\ panel'.floating = D!Standalone(tray, D!Target)
      /\ panel'.chrome = panel.chrome
  <2>1. D!Standalone(tray, D!Target) \in BOOLEAN BY DEF D!Standalone
  <2> QED BY <2>1, <1>1 DEF Fits, D!Windows
<1>4. Typed' BY <1>1, <1>2, <1>3 DEF Typed
<1>5. JobFits' BY <1>1, <1>2 DEF JobFits, Between
<1>6. ShortcutFollows' BY <1>1, <1>2 DEF ShortcutFollows
<1>7. LoginFollows' BY <1>1, <1>2 DEF LoginFollows, LoginSet
<1>8. ModeFollows'
  BY <1>1, <1>2, <1>3 DEF ModeFollows, Untouched, D!Target, Other, D!Standalone
<1>9. Dismissing' BY <1>2 DEF Dismissing
<1> QED BY <1>4, <1>5, <1>6, <1>7, <1>8, <1>9

LEMMA DesktopCancelAgain == DInv /\ D!CancelAgain => DInv'
<1> SUFFICES ASSUME DInv, D!CancelAgain PROVE DInv'
  OBVIOUS
<1> USE DEF DInv
<1>1. /\ job \in D!Jobs /\ job.pc = "cancel" /\ job # D!Idle /\ job.was = saved
      /\ Fits(panel) /\ UNCHANGED <<saved, registered, login, tray, astray>>
      /\ job' = [job EXCEPT !.pc = "show"] /\ panel' = D!Cancel(panel)
  BY DEF D!CancelAgain, Typed, D!Idle, JobFits
<1>2. /\ job' \in D!Jobs /\ job' # D!Idle /\ job'.pc = "show" /\ job'.was = job.was
      /\ job'.next = job.next /\ job'.undoing = job.undoing /\ job'.applied = job.applied
      /\ job'.floating = job.floating /\ job'.before = job.before
  BY <1>1, JobTyped DEF Pcs, Between
<1>3. /\ Fits(panel') /\ panel'.floating = panel.floating
      /\ panel'.chrome = panel.chrome /\ panel'.pending = 0
  BY <1>1, CancelFits
<1>4. Typed' BY <1>1, <1>2, <1>3 DEF Typed
<1>5. JobFits' BY <1>1, <1>2 DEF JobFits, Between
<1>6. ShortcutFollows' BY <1>1, <1>2 DEF ShortcutFollows
<1>7. LoginFollows' BY <1>1, <1>2 DEF LoginFollows, LoginSet
<1>8. ModeFollows'
  BY <1>1, <1>2, <1>3 DEF ModeFollows, Untouched, D!Target, Other, D!Standalone
<1>9. Dismissing' BY <1>2, <1>3 DEF Dismissing
<1> QED BY <1>4, <1>5, <1>6, <1>7, <1>8, <1>9

LEMMA DesktopShowInMode == DInv /\ D!ShowInMode => DInv'
<1> SUFFICES ASSUME DInv, D!ShowInMode PROVE DInv'
  OBVIOUS
<1> USE DEF DInv
<1>1. /\ job \in D!Jobs /\ job.pc = "show" /\ job # D!Idle /\ job.was = saved
      /\ Fits(panel) /\ UNCHANGED <<saved, registered, login, tray>>
  <2>1. job.pc = "show" /\ UNCHANGED <<saved, registered, login, tray>> BY DEF D!ShowInMode
  <2> QED BY <2>1 DEF Typed, D!Idle, JobFits
<1>2. /\ "undo" \in Pcs /\ "persist" \in Pcs /\ job.undoing \in BOOLEAN
      /\ job.floating \in BOOLEAN /\ job.before \in BOOLEAN
      /\ job.was \in D!Settings /\ job.next \in D!Settings
      /\ ~job.undoing => "mode" \notin job.applied
  BY <1>1, JobTyped DEF Pcs, Between, JobFits
<1>3. ASSUME panel' \in D!Shown(panel), astray' = astray,
             job' = IF job.undoing THEN D!Idle
                    ELSE [job EXCEPT !.pc = "persist", !.applied = @ \cup {"mode"}]
      PROVE  DInv'
  <2>1. /\ Fits(panel') /\ panel'.floating = panel.floating
        /\ panel'.chrome = panel.chrome /\ panel'.visible /\ panel'.pending = panel.pending
    <3>1. PICK f \in BOOLEAN :
            panel' = [panel EXCEPT !.visible = TRUE, !.focused = f, !.hidden = "nobody"]
      BY <1>3 DEF D!Shown
    <3> QED BY <3>1, <1>1 DEF Fits, D!Windows
  <2>2. "mode" \notin astray => panel.floating = D!Standalone(tray, D!Target)
                                /\ panel.chrome = D!Chrome(panel.floating)
    BY <1>1 DEF ModeFollows, Untouched, Between
  <2>3. CASE job.undoing
    <3>1. job' = D!Idle BY <2>3, <1>3
    <3>2. Typed' BY <3>1, <2>1, <1>1 DEF Typed
    <3>3. JobFits' BY <3>1 DEF JobFits
    <3>4. ShortcutFollows' BY <3>1, <2>3, <1>3, <1>1 DEF ShortcutFollows
    <3>5. LoginFollows' BY <3>1, <2>3, <1>3, <1>1 DEF LoginFollows, LoginSet
    <3>6. ModeFollows'
      BY <3>1, <2>1, <2>2, <2>3, <1>1, <1>3
      DEF ModeFollows, Untouched, ModeIs, D!Target, D!Standalone
    <3>7. Dismissing' BY <2>1, <3>1, <1>1, <1>3 DEF Dismissing, D!Idle
    <3> QED BY <3>2, <3>3, <3>4, <3>5, <3>6, <3>7
  <2>4. CASE ~job.undoing
    <3>0. job' = [job EXCEPT !.pc = "persist", !.applied = @ \cup {"mode"}] BY <2>4, <1>3
    <3>1. /\ job' \in D!Jobs /\ job' # D!Idle /\ job'.pc = "persist" /\ job'.was = job.was
          /\ job'.next = job.next /\ ~job'.undoing /\ job'.applied = job.applied \cup {"mode"}
      BY <3>0, <2>4, <1>1 DEF D!Jobs, D!Idle
    <3>2. Typed' BY <3>1, <2>1, <1>1 DEF Typed
    <3>3. JobFits' BY <3>1, <1>1, <1>2, <2>4 DEF JobFits, Between
    <3>4. ShortcutFollows' BY <3>1, <2>4, <1>3, <1>1 DEF ShortcutFollows
    <3>5. LoginFollows' BY <3>1, <2>4, <1>3, <1>1 DEF LoginFollows, LoginSet
    <3>6. ModeFollows'
      BY <3>1, <2>1, <2>2, <2>4, <1>1, <1>3
      DEF ModeFollows, Untouched, ModeIs, D!Target, D!Standalone
    <3>7. Dismissing' BY <2>1, <3>1, <1>1, <1>3 DEF Dismissing
    <3> QED BY <3>2, <3>3, <3>4, <3>5, <3>6, <3>7
  <2> QED BY <2>3, <2>4, <1>2
<1>4. ASSUME NEW restored \in BOOLEAN, NEW w \in D!Shown(panel) \cup {panel},
             D!ModeFails(restored, {"show"}),
             panel' = [w EXCEPT !.floating = job.before,
                                !.chrome = IF restored THEN D!Chrome(job.before) ELSE "mixed"]
      PROVE  DInv'
  <2>1. /\ Fits(panel') /\ panel'.floating = job.before
        /\ panel'.chrome = IF restored THEN D!Chrome(job.before) ELSE "mixed"
    <3>1. Fits(w) BY <1>1, PanelTyped
    <3>2. D!Chrome(job.before) \in D!Modes BY DEF D!Chrome, D!Modes
    <3> QED BY <3>1, <3>2, <1>2, <1>4 DEF Fits, D!Windows
  <2>2. /\ astray \subseteq astray' /\ (job.undoing \/ ~restored => "mode" \in astray')
        /\ "show" \in astray' /\ ("login" \in astray' => "login" \in astray)
        /\ ("shortcut" \in astray' => "shortcut" \in astray)
    BY <1>4 DEF D!ModeFails
  <2>3. CASE job.undoing
    <3>1. job' = D!Idle BY <2>3, <1>4 DEF D!ModeFails
    <3>2. Typed' BY <3>1, <2>1, <1>1 DEF Typed
    <3>3. JobFits' BY <3>1 DEF JobFits
    <3>4. ShortcutFollows' BY <3>1, <2>2, <2>3, <1>1 DEF ShortcutFollows
    <3>5. LoginFollows' BY <3>1, <2>2, <2>3, <1>1 DEF LoginFollows, LoginSet
    <3>6. ModeFollows' BY <2>2, <2>3 DEF ModeFollows
    <3>7. Dismissing' BY <2>2 DEF Dismissing
    <3> QED BY <3>2, <3>3, <3>4, <3>5, <3>6, <3>7
  <2>4. CASE ~job.undoing
    <3>0. job' = [job EXCEPT !.pc = "undo"] BY <2>4, <1>4 DEF D!ModeFails
    <3>1. /\ job' \in D!Jobs /\ job' # D!Idle /\ job'.pc = "undo" /\ job'.was = job.was
          /\ job'.next = job.next /\ ~job'.undoing /\ job'.applied = job.applied
      BY <3>0, <2>4, <1>1, <1>2, JobTyped
    <3>2. Typed' BY <3>1, <2>1, <1>1 DEF Typed
    <3>3. JobFits' BY <3>1, <1>1, <1>2, <2>4 DEF JobFits, Between
    <3>4. ShortcutFollows' BY <3>1, <2>2, <2>4, <1>1 DEF ShortcutFollows
    <3>5. LoginFollows' BY <3>1, <2>2, <2>4, <1>1 DEF LoginFollows, LoginSet, JobFits
    <3>6. ModeFollows'
      BY <2>1, <2>2, <2>4, <3>1, <1>1, <1>2 DEF ModeFollows, Untouched, ModeIs, Other, D!Standalone
    <3>7. Dismissing' BY <2>2 DEF Dismissing
    <3> QED BY <3>2, <3>3, <3>4, <3>5, <3>6, <3>7
  <2> QED BY <2>3, <2>4, <1>2
<1> QED BY <1>3, <1>4 DEF D!ShowInMode

LEMMA DesktopPersist == DInv /\ D!Persist => DInv'
<1> SUFFICES ASSUME DInv, D!Persist PROVE DInv'
  OBVIOUS
<1> USE DEF DInv
<1>1. /\ job \in D!Jobs /\ job.pc = "persist" /\ job # D!Idle /\ job.was = saved
      /\ ~job.undoing /\ UNCHANGED <<registered, login, tray, panel, astray>>
      /\ job.next \in D!Settings
  BY JobTyped DEF D!Persist, Typed, D!Idle, JobFits, Between
<1>2. CASE saved' = job.next /\ job' = D!Idle
  <2>1. Typed' BY <1>1, <1>2 DEF Typed
  <2>2. JobFits' BY <1>2 DEF JobFits
  <2>3. ShortcutFollows' BY <1>1, <1>2 DEF ShortcutFollows
  <2>4. LoginFollows' BY <1>1, <1>2 DEF LoginFollows, LoginSet
  <2>5. ModeFollows' BY <1>1, <1>2 DEF ModeFollows, Untouched, ModeIs
  <2>6. Dismissing' BY <1>1, <1>2 DEF Dismissing, D!Idle
  <2> QED BY <2>1, <2>2, <2>3, <2>4, <2>5, <2>6
<1>3. CASE saved' = saved /\ job' = [job EXCEPT !.pc = "undo"]
  <2>1. /\ job' \in D!Jobs /\ job' # D!Idle /\ job'.pc = "undo" /\ job'.was = job.was
        /\ job'.next = job.next /\ ~job'.undoing /\ job'.applied = job.applied
    BY <1>1, <1>3, JobTyped DEF Pcs
  <2>2. Typed' BY <2>1, <1>1, <1>3 DEF Typed
  <2>3. JobFits' BY <2>1, <1>1, <1>3 DEF JobFits, Between
  <2>4. ShortcutFollows' BY <2>1, <1>1, <1>3 DEF ShortcutFollows
  <2>5. LoginFollows' BY <2>1, <1>1, <1>3 DEF LoginFollows, LoginSet, JobFits
  <2>6. ModeFollows' BY <2>1, <1>1, <1>3 DEF ModeFollows, Untouched, ModeIs, JobFits, D!Standalone
  <2>7. Dismissing' BY <2>1, <1>1, <1>3 DEF Dismissing
  <2> QED BY <2>2, <2>3, <2>4, <2>5, <2>6, <2>7
<1> QED BY <1>2, <1>3 DEF D!Persist

LEMMA ShortcutReplaced ==
  ASSUME NEW previous \in Shortcuts \cup {NoShortcut}, NEW next \in Shortcuts \cup {NoShortcut},
         registered \subseteq Shortcuts, NEW c \in D!ShortcutChanges(previous, next)
  PROVE  /\ c.keys \subseteq Shortcuts
         /\ registered = D!Keys(previous) /\ c.exact =>
              c.keys = D!Keys(IF c.ok THEN next ELSE previous)
<1>1. \/ previous = next /\ c.ok /\ c.keys = registered
      \/ /\ previous # next /\ c.ok /\ c.exact
         /\ c.keys = (registered \ {previous}) \cup D!Keys(next)
      \/ c.ok /\ ~c.exact /\ c.keys = registered \cup D!Keys(next)
      \/ ~c.ok /\ c.keys = (registered \ {previous}) \cup D!Keys(previous)
      \/ ~c.ok /\ c.keys = registered \cup D!Keys(previous)
      \/ ~c.ok /\ c.keys = registered \ {previous} /\ c.exact = (previous = NoShortcut)
  <2>1. CASE previous = next BY <2>1 DEF D!ShortcutChanges
  <2>2. CASE previous # next
    <3> DEFINE bare(kept) == IF kept THEN registered ELSE registered \ {previous}
               faults(kept) == IF kept THEN 1 ELSE 0
               changed(kept) == [ok |-> TRUE, keys |-> bare(kept) \cup D!Keys(next),
                                 faults |-> faults(kept), exact |-> ~kept]
               refused(kept) == faults(kept) + (IF next \in bare(kept) THEN 0 ELSE 1)
               back(kept) == {[ok |-> FALSE, keys |-> bare(kept) \cup D!Keys(previous),
                               faults |-> refused(kept), exact |-> TRUE]}
               lost == [ok |-> FALSE, keys |-> bare(FALSE), faults |-> refused(FALSE) + 1,
                        exact |-> previous = NoShortcut]
    <3>1. \/ \E kept \in BOOLEAN : c = changed(kept) \/ c \in back(kept)
          \/ c = lost
      <4> HIDE DEF changed, back, lost
      <4> QED BY <2>2 DEF D!ShortcutChanges, changed, back, lost
    <3>2. ASSUME NEW kept \in BOOLEAN, c = changed(kept)
          PROVE  c.ok /\ c.exact = ~kept /\ c.keys = bare(kept) \cup D!Keys(next)
      BY <3>2
    <3>3. ASSUME NEW kept \in BOOLEAN, c \in back(kept)
          PROVE  ~c.ok /\ c.keys = bare(kept) \cup D!Keys(previous)
      BY <3>3
    <3>4. CASE c = lost BY <3>4
    <3> HIDE DEF changed, back, lost
    <3> QED BY <3>1, <3>2, <3>3, <3>4, <2>2
  <2> QED BY <2>1, <2>2
<1> QED BY <1>1 DEF D!Keys

LEMMA DesktopUndo == DInv /\ D!Undo => DInv'
<1> SUFFICES ASSUME DInv, D!Undo PROVE DInv'
  OBVIOUS
<1> USE DEF DInv
<1>1. /\ job \in D!Jobs /\ job.pc = "undo" /\ job # D!Idle /\ job.was = saved
      /\ ~job.undoing /\ UNCHANGED <<saved, tray, panel>>
      /\ job.next \in D!Settings /\ "mode" \in Pcs /\ saved \in D!Settings
  <2>1. job.pc = "undo" /\ UNCHANGED <<saved, tray, panel>> BY DEF D!Undo
  <2>2. job \in D!Jobs /\ saved \in D!Settings BY <2>1 DEF Typed, D!Idle
  <2>3. job # D!Idle /\ job.next \in D!Settings /\ job.undoing \in BOOLEAN BY <2>2, JobTyped
  <2> QED BY <2>1, <2>2, <2>3 DEF JobFits, Between, Pcs
<1>2. PICK c \in D!ShortcutChanges(job.next.shortcut, job.was.shortcut), kept \in BOOLEAN :
        /\ kept => "login" \in job.applied
        /\ login' = IF "login" \in job.applied /\ ~kept THEN job.was.login ELSE login
        /\ registered' = c.keys
        /\ astray' = astray \cup (IF c.ok /\ c.exact THEN {} ELSE {"shortcut"})
                            \cup (IF kept THEN {"login"} ELSE {})
  BY DEF D!Undo
<1>3. job' = IF "mode" \in job.applied THEN [job EXCEPT !.pc = "mode", !.undoing = TRUE] ELSE D!Idle
  BY DEF D!Undo
<1>4. /\ astray \subseteq astray' /\ ((c.ok /\ c.exact) \/ "shortcut" \in astray')
      /\ (kept => "login" \in astray')
      /\ ("mode" \in astray' => "mode" \in astray) /\ ("show" \in astray' => "show" \in astray)
  BY <1>2
<1>5. /\ registered' \subseteq Shortcuts
      /\ "shortcut" \notin astray' => registered' = D!Keys(saved.shortcut)
  <2>1. /\ job.next.shortcut \in Shortcuts \cup {NoShortcut}
        /\ saved.shortcut \in Shortcuts \cup {NoShortcut}
    BY <1>1 DEF D!Settings
  <2>2. "shortcut" \notin astray => registered = D!Keys(job.next.shortcut)
    BY <1>1 DEF ShortcutFollows
  <2> QED BY <2>1, <2>2, <1>1, <1>2, <1>4, ShortcutReplaced DEF Typed
<1>6. login' \in BOOLEAN /\ ("login" \notin astray' => login' = saved.login)
  <2>1. saved.login \in BOOLEAN BY <1>1 DEF D!Settings
  <2>2. "login" \in job.applied \/ "login" \in astray \/ login = saved.login
    BY <1>1 DEF LoginFollows, LoginSet
  <2>3. CASE "login" \in job.applied /\ ~kept BY <2>1, <2>3, <1>1, <1>2
  <2>4. CASE "login" \in job.applied /\ kept BY <2>4, <1>2, <1>4 DEF Typed
  <2>5. CASE "login" \notin job.applied BY <2>2, <2>5, <1>2, <1>4 DEF Typed
  <2> QED BY <2>3, <2>4, <2>5
<1>7. CASE "mode" \in job.applied
  <2>1. /\ job' \in D!Jobs /\ job' # D!Idle /\ job'.pc = "mode" /\ job'.was = job.was
        /\ job'.next = job.next /\ job'.undoing
    BY <1>1, <1>3, <1>7 DEF D!Jobs, D!Idle
  <2>2. Typed' BY <2>1, <1>1, <1>5, <1>6 DEF Typed
  <2>3. JobFits' BY <2>1, <1>1 DEF JobFits
  <2>4. ShortcutFollows' BY <2>1, <1>1, <1>5 DEF ShortcutFollows
  <2>5. LoginFollows' BY <2>1, <1>1, <1>6 DEF LoginFollows, LoginSet
  <2>6. ModeFollows' BY <2>1, <1>1, <1>4, <1>7 DEF ModeFollows, Untouched, ModeIs, D!Standalone
  <2>7. Dismissing' BY <2>1, <1>1, <1>4 DEF Dismissing
  <2> QED BY <2>2, <2>3, <2>4, <2>5, <2>6, <2>7
<1>8. CASE "mode" \notin job.applied
  <2>1. job' = D!Idle BY <1>3, <1>8
  <2>2. Typed' BY <2>1, <1>1, <1>5, <1>6 DEF Typed
  <2>3. JobFits' BY <2>1 DEF JobFits
  <2>4. ShortcutFollows' BY <2>1, <1>1, <1>5 DEF ShortcutFollows
  <2>5. LoginFollows' BY <2>1, <1>1, <1>6 DEF LoginFollows, LoginSet
  <2>6. ModeFollows' BY <2>1, <1>1, <1>4, <1>8 DEF ModeFollows, Untouched, ModeIs, D!Standalone
  <2>7. Dismissing' BY <2>1, <1>1, <1>4 DEF Dismissing, D!Idle
  <2> QED BY <2>2, <2>3, <2>4, <2>5, <2>6, <2>7
<1> QED BY <1>7, <1>8

LEMMA DesktopSave == ASSUME NEW next \in D!Settings, DInv, D!Save(next) PROVE DInv'
<1> USE DEF DInv
<1>1. job = D!Idle /\ UNCHANGED <<saved, login, tray, panel>> /\ saved \in D!Settings
  BY DEF D!Save, Typed
<1>2. PICK c \in D!ShortcutChanges(saved.shortcut, next.shortcut) :
        /\ registered' = c.keys
        /\ job' = IF c.ok
                  THEN [pc |-> "login", was |-> saved, next |-> next, applied |-> {},
                        undoing |-> FALSE, floating |-> FALSE, before |-> FALSE]
                  ELSE D!Idle
        /\ astray' = IF c.exact THEN astray ELSE astray \cup {"shortcut"}
  BY DEF D!Save
<1>3. /\ astray \subseteq astray'
      /\ \A p \in {"mode", "show", "login"} : p \in astray' => p \in astray
  BY <1>2
<1>4. /\ registered' \subseteq Shortcuts
      /\ "shortcut" \notin astray' =>
           registered' = D!Keys(IF c.ok THEN next.shortcut ELSE saved.shortcut)
  <2>1. /\ next.shortcut \in Shortcuts \cup {NoShortcut}
        /\ saved.shortcut \in Shortcuts \cup {NoShortcut}
    BY <1>1 DEF D!Settings
  <2>2. "shortcut" \notin astray => registered = D!Keys(saved.shortcut)
    BY <1>1 DEF ShortcutFollows
  <2> QED BY <2>1, <2>2, <1>1, <1>2, ShortcutReplaced DEF Typed
<1>5. CASE c.ok
  <2>1. /\ job' \in D!Jobs /\ job' # D!Idle /\ job'.pc = "login" /\ job'.was = saved
        /\ job'.next = next /\ ~job'.undoing /\ job'.applied = {}
    BY <1>1, <1>2, <1>5 DEF D!Jobs, D!Idle
  <2>2. Typed' BY <2>1, <1>1, <1>4 DEF Typed
  <2>3. JobFits' BY <2>1, <1>1 DEF JobFits
  <2>4. ShortcutFollows' BY <2>1, <1>1, <1>4, <1>5 DEF ShortcutFollows
  <2>5. LoginFollows' BY <2>1, <1>1, <1>3 DEF LoginFollows, LoginSet
  <2>6. ModeFollows' BY <2>1, <1>1, <1>3 DEF ModeFollows, Untouched, ModeIs
  <2>7. Dismissing' BY <2>1, <1>1, <1>3 DEF Dismissing, D!Idle
  <2> QED BY <2>2, <2>3, <2>4, <2>5, <2>6, <2>7
<1>6. CASE ~c.ok
  <2>1. job' = D!Idle BY <1>2, <1>6
  <2>2. Typed' BY <2>1, <1>1, <1>4 DEF Typed
  <2>3. JobFits' BY <2>1 DEF JobFits
  <2>4. ShortcutFollows' BY <2>1, <1>1, <1>4, <1>6 DEF ShortcutFollows
  <2>5. LoginFollows' BY <2>1, <1>1, <1>3 DEF LoginFollows, LoginSet
  <2>6. ModeFollows' BY <2>1, <1>1, <1>3 DEF ModeFollows, Untouched, ModeIs
  <2>7. Dismissing' BY <2>1, <1>1, <1>3 DEF Dismissing
  <2> QED BY <2>2, <2>3, <2>4, <2>5, <2>6, <2>7
<1> QED BY <1>5, <1>6

\* The handlers of the main thread leave the mode alone, and only a dismissal hides for itself.
LEMMA DesktopMainThread ==
  DInv /\ (D!FocusMoves \/ D!FocusLost \/ D!Schedule \/ D!Dismiss \/ D!Toggle \/ D!Open \/ D!Close)
    => DInv'
<1> SUFFICES ASSUME DInv,
                    D!FocusMoves \/ D!FocusLost \/ D!Schedule \/ D!Dismiss \/ D!Toggle \/ D!Open
                      \/ D!Close
             PROVE  DInv'
  OBVIOUS
<1> USE DEF DInv
<1>1. UNCHANGED <<saved, registered, login, tray, job, astray, left>>
  BY DEF D!FocusMoves, D!FocusLost, D!Schedule, D!Dismiss, D!Toggle, D!Open, D!Close, D!OnWindow
<1>2. Fits(panel) /\ Fits(D!Cancel(panel)) /\ panel.pending \in Nat
  BY CancelFits, PendingAssumption DEF Typed, Fits, D!Windows
<1>3. /\ Fits(panel') /\ panel'.floating = panel.floating /\ panel'.chrome = panel.chrome
      /\ panel'.pending = 0 \/ panel'.pending = panel.pending
         \/ ~panel.floating \/ panel.pending > 0
      /\ ~panel'.visible /\ panel'.hidden = "dismissal" =>
           (~panel.visible /\ panel.hidden = "dismissal") \/ panel.pending > 0
  <2>1. ASSUME NEW w, Fits(w), NEW v \in D!Shown(w),
               w.floating = panel.floating, w.chrome = panel.chrome, w.pending = 0
        PROVE  /\ Fits(v) /\ v.floating = panel.floating /\ v.chrome = panel.chrome
               /\ v.pending = 0 /\ v.visible
    <3>1. PICK f \in BOOLEAN : v = [w EXCEPT !.visible = TRUE, !.focused = f, !.hidden = "nobody"]
      BY <2>1 DEF D!Shown
    <3> QED BY <3>1, <2>1 DEF Fits, D!Windows
  <2>2. /\ D!Cancel(panel).floating = panel.floating /\ D!Cancel(panel).chrome = panel.chrome
        /\ D!Cancel(panel).pending = 0
    BY <1>2, CancelFits
  <2>3. CASE D!FocusMoves
    <3>1. panel.visible /\ panel' = [panel EXCEPT !.focused = ~@] BY <2>3 DEF D!FocusMoves
    <3> QED BY <3>1, <1>2 DEF Fits, D!Windows
  <2>4. CASE D!FocusLost
    <3>1. /\ ~panel.handling /\ panel.pending + panel.late < MaxPending
          /\ panel' = [panel EXCEPT !.handling = TRUE]
      BY <2>4 DEF D!FocusLost, D!Free
    <3>2. /\ panel' \in D!Windows /\ panel'.handling /\ panel'.late = panel.late
          /\ panel'.pending = panel.pending /\ panel'.floating = panel.floating
          /\ panel'.chrome = panel.chrome /\ panel'.visible = panel.visible
          /\ panel'.hidden = panel.hidden
      BY <3>1, <1>2 DEF Fits, D!Windows
    <3>3. panel.pending \in Nat /\ panel.late \in Nat BY <1>2, PendingAssumption DEF Fits, D!Windows
    <3>4. panel.pending + panel.late + 1 <= MaxPending BY <3>1, <3>3, PendingAssumption
    <3> QED BY <3>2, <3>4 DEF Fits
  <2>10. CASE D!Schedule
    <3>1. CASE panel.floating
      <4>1. panel.handling /\ panel' = [panel EXCEPT !.handling = FALSE, !.late = @ + 1]
        BY <3>1, <2>10 DEF D!Schedule
      <4>2. /\ panel.pending \in Nat /\ panel.late \in Nat
            /\ panel.pending + panel.late + 1 <= MaxPending
        BY <4>1, <1>2, PendingAssumption DEF Fits, D!Windows
      <4>3. panel.late + 1 \in 0..MaxPending BY <4>2, PendingAssumption
      <4>4. /\ panel' \in D!Windows /\ ~panel'.handling /\ panel'.late = panel.late + 1
            /\ panel'.pending = panel.pending /\ panel'.floating = panel.floating
            /\ panel'.chrome = panel.chrome /\ panel'.visible = panel.visible
            /\ panel'.hidden = panel.hidden
        BY <4>1, <4>3, <1>2 DEF Fits, D!Windows
      <4>5. panel'.pending + panel'.late + 0 <= MaxPending BY <4>2, <4>4, PendingAssumption
      <4>6. Fits(panel') BY <4>4, <4>5 DEF Fits
      <4> QED BY <3>1, <4>4, <4>6
    <3>2. CASE ~panel.floating
      <4>1. panel.handling /\ panel' = [panel EXCEPT !.handling = FALSE, !.pending = @ + 1]
        BY <3>2, <2>10 DEF D!Schedule
      <4>2. /\ panel.pending \in Nat /\ panel.late \in Nat
            /\ panel.pending + panel.late + 1 <= MaxPending
        BY <4>1, <1>2, PendingAssumption DEF Fits, D!Windows
      <4>3. panel.pending + 1 \in 0..MaxPending BY <4>2, PendingAssumption
      <4>4. /\ panel' \in D!Windows /\ ~panel'.handling /\ panel'.pending = panel.pending + 1
            /\ panel'.late = panel.late /\ panel'.floating = panel.floating
            /\ panel'.chrome = panel.chrome /\ panel'.visible = panel.visible
            /\ panel'.hidden = panel.hidden
        BY <4>1, <4>3, <1>2 DEF Fits, D!Windows
      <4>5. panel'.pending + panel'.late + 0 <= MaxPending BY <4>2, <4>4, PendingAssumption
      <4>6. Fits(panel') BY <4>4, <4>5 DEF Fits
      <4> QED BY <3>2, <4>4, <4>6
    <3> QED BY <3>1, <3>2
  <2>5. CASE D!Dismiss
    <3>1. PICK w \in {[panel EXCEPT !.pending = @ - 1], [panel EXCEPT !.late = @ - 1]},
               how \in {"dismissal", "raced"} :
            /\ panel' = IF w.visible /\ ~w.focused THEN D!Hide(w, how) ELSE w
            /\ \/ panel.pending > 0 /\ w = [panel EXCEPT !.pending = @ - 1] /\ how = "dismissal"
               \/ panel.late > 0 /\ w = [panel EXCEPT !.late = @ - 1] /\ how = "raced"
      BY <2>5 DEF D!Dismiss, D!Dismissed
    <3>2. /\ Fits(w) /\ w.floating = panel.floating /\ w.chrome = panel.chrome
          /\ w.pending = panel.pending \/ panel.pending > 0
          /\ w.visible = panel.visible /\ w.hidden = panel.hidden
          /\ how = "dismissal" => panel.pending > 0
      <4>1. CASE panel.pending > 0 /\ w = [panel EXCEPT !.pending = @ - 1] /\ how = "dismissal"
        BY <4>1, <1>2, PendingAssumption DEF Fits, D!Windows
      <4>2. CASE panel.late > 0 /\ w = [panel EXCEPT !.late = @ - 1] /\ how = "raced"
        BY <4>2, <1>2, PendingAssumption DEF Fits, D!Windows
      <4> QED BY <3>1, <4>1, <4>2
    <3>3. /\ Fits(D!Hide(w, how))
          /\ D!Hide(w, how).floating = panel.floating
          /\ D!Hide(w, how).chrome = panel.chrome
          /\ D!Hide(w, how).pending = w.pending
          /\ D!Hide(w, how).hidden = how
      BY <3>2 DEF D!Hide, Fits, D!Windows
    <3> QED BY <3>1, <3>2, <3>3
  <2>6. ASSUME NEW w, Fits(w), w.floating = panel.floating, w.chrome = panel.chrome,
               w.pending = 0 \/ w.pending = panel.pending, panel' = D!Hide(w, "user")
        PROVE  /\ Fits(panel') /\ panel'.floating = panel.floating
               /\ panel'.chrome = panel.chrome /\ panel'.hidden = "user"
               /\ panel'.pending = 0 \/ panel'.pending = panel.pending
    BY <2>6 DEF Fits, D!Hide, D!Windows
  <2>7. CASE D!Toggle
    <3>1. CASE panel' = D!Hide(D!Cancel(panel), "user") BY <3>1, <1>2, <2>2, <2>6
    <3>2. CASE panel' \in D!Shown(D!Cancel(panel)) BY <3>2, <1>2, <2>1, <2>2
    <3> QED BY <3>1, <3>2, <2>7 DEF D!Toggle
  <2>8. CASE D!Open BY <2>8, <1>2, <2>1, <2>2 DEF D!Open
  <2>9. CASE D!Close BY <2>9, <1>2, <2>2, <2>6 DEF D!Close
  <2> QED BY <2>3, <2>4, <2>5, <2>7, <2>8, <2>9, <2>10
<1>4. Typed' BY <1>1, <1>3 DEF Typed
<1>5. JobFits' BY <1>1 DEF JobFits
<1>6. ShortcutFollows' BY <1>1 DEF ShortcutFollows
<1>7. LoginFollows' BY <1>1 DEF LoginFollows, LoginSet
<1>8. ModeFollows'
  BY <1>1, <1>3 DEF ModeFollows, Untouched, ModeIs, D!Target, Other, D!Standalone
<1>9. Dismissing' BY <1>1, <1>2, <1>3 DEF Dismissing
<1> QED BY <1>4, <1>5, <1>6, <1>7, <1>8, <1>9

LEMMA DesktopTrayLost == DInv /\ D!TrayLost => DInv'
<1> SUFFICES ASSUME DInv, D!TrayLost PROVE DInv'
  OBVIOUS
<1> USE DEF DInv
<1>1. UNCHANGED <<saved, registered, login, job>> /\ tray' = FALSE BY DEF D!TrayLost
<1>2. PICK w \in D!Shown(D!Cancel(panel)), c \in {"Floating", "mixed"} :
        /\ panel' = [w EXCEPT !.floating = TRUE, !.chrome = c]
        /\ astray' = astray \/ astray' = astray \cup {"mode"}
        /\ c = "mixed" => "mode" \in astray'
        /\ job.pc \in Between => "mode" \in astray'
  <2>1. CASE /\ panel' \in {[w EXCEPT !.floating = TRUE, !.chrome = "Floating"] :
                              w \in D!Shown(D!Cancel(panel))}
             /\ astray' = IF job.pc \in Between THEN astray \cup {"mode"} ELSE astray
    BY <2>1
  <2>2. CASE /\ panel' \in {[w EXCEPT !.floating = TRUE, !.chrome = "mixed"] :
                              w \in D!Shown(D!Cancel(panel))}
             /\ astray' = astray \cup {"mode"}
    BY <2>2
  <2> QED BY <2>1, <2>2 DEF D!TrayLost, Between
<1>3. /\ Fits(panel') /\ panel'.floating = TRUE /\ panel'.chrome = c /\ panel'.pending = 0
      /\ panel'.visible
  <2>1. Fits(panel) BY DEF Typed
  <2>2. PICK f \in BOOLEAN :
          w = [D!Cancel(panel) EXCEPT !.visible = TRUE, !.focused = f, !.hidden = "nobody"]
    BY DEF D!Shown
  <2>3. Fits(D!Cancel(panel)) /\ D!Cancel(panel).pending = 0
    BY <2>1, CancelFits
  <2>4. Fits(w) /\ w.pending = 0 /\ w.visible BY <2>2, <2>3 DEF Fits, D!Windows
  <2> QED BY <2>4, <1>2 DEF Fits, D!Windows, D!Modes
<1>4. Typed' BY <1>1, <1>3 DEF Typed
<1>5. JobFits' BY <1>1 DEF JobFits
<1>6. ShortcutFollows' BY <1>1, <1>2 DEF ShortcutFollows
<1>7. LoginFollows' BY <1>1, <1>2 DEF LoginFollows, LoginSet
<1>8. ModeFollows'
  <2>1. SUFFICES ASSUME "mode" \notin astray' PROVE ModeFollows'
    BY DEF ModeFollows
  <2>2. c = "Floating" /\ job.pc \notin Between BY <2>1, <1>2
  <2>3. \A m : ModeIs(m)' BY <1>1, <1>3, <2>2 DEF ModeIs, D!Standalone, D!Chrome
  <2>4. job = D!Idle \/ job.pc \in {"login", "mode", "persist", "undo"}
    BY <2>2, JobTyped DEF Typed, Pcs
  <2> QED BY <2>3, <2>4, <1>1 DEF ModeFollows, Untouched
<1>9. Dismissing' BY <1>1, <1>3 DEF Dismissing
<1> QED BY <1>4, <1>5, <1>6, <1>7, <1>8, <1>9

LEMMA LaunchedWindow ==
  ASSUME NEW settings \in D!Settings, NEW available \in BOOLEAN, NEW installed \in BOOLEAN
  PROVE  LET w == D!Launched(settings, available, installed)
             floating == D!Standalone(available, settings.mode)
         IN  /\ Fits(w) /\ w.pending = 0 /\ w.hidden = "nobody"
             /\ w.floating = (floating \/ ~installed) /\ w.chrome = D!Chrome(floating)
<1> DEFINE floating == D!Standalone(available, settings.mode)
<1>1. floating \in BOOLEAN /\ (floating \/ ~installed) \in BOOLEAN BY DEF D!Standalone
<1>2. D!Chrome(floating) \in D!Modes BY DEF D!Chrome, D!Modes
<1> HIDE DEF floating
<1>3. D!Launched(settings, available, installed) =
        [floating |-> floating \/ ~installed, chrome |-> D!Chrome(floating), visible |-> floating,
         focused |-> floating, pending |-> 0, late |-> 0, handling |-> FALSE, hidden |-> "nobody"]
  BY DEF D!Launched, floating
<1>4. Fits(D!Launched(settings, available, installed))
  BY <1>1, <1>2, <1>3, PendingAssumption DEF Fits, D!Windows
<1> QED BY <1>3, <1>4 DEF floating

LEMMA DesktopRelaunch == DInv /\ D!Relaunch => DInv'
<1> SUFFICES ASSUME DInv, D!Relaunch PROVE DInv'
  OBVIOUS
<1> USE DEF DInv
<1>1. job' = D!Idle /\ UNCHANGED <<saved, login>> /\ saved \in D!Settings BY DEF D!Relaunch, Typed
<1>2. PICK available \in BOOLEAN, installed \in BOOLEAN, bound \in BOOLEAN :
        /\ tray' = (available /\ installed)
        /\ panel' = D!Launched(saved, available, installed)
        /\ registered' = IF bound THEN D!Keys(saved.shortcut) ELSE {}
        /\ astray' = (IF "login" \in astray \/ job # D!Idle THEN {"login"} ELSE {})
                       \cup (IF bound THEN {} ELSE {"shortcut"})
                       \cup (IF installed THEN {} ELSE {"mode"})
  BY DEF D!Relaunch
<1>3. Typed'
  <2>1. tray' \in BOOLEAN BY <1>2, Zenon
  <2>2. D!Keys(saved.shortcut) \subseteq Shortcuts BY <1>1 DEF D!Keys, D!Settings
  <2>3. Fits(panel') BY <1>1, <1>2, LaunchedWindow
  <2> QED BY <2>1, <2>2, <2>3, <1>1, <1>2 DEF Typed
<1>4. JobFits' BY <1>1 DEF JobFits
<1>5. ShortcutFollows' BY <1>1, <1>2 DEF ShortcutFollows
<1>6. LoginFollows' BY <1>1, <1>2 DEF LoginFollows, LoginSet
<1>7. ModeFollows'
  <2>1. SUFFICES ASSUME "mode" \notin astray' PROVE ModeIs(saved.mode)'
    BY <1>1 DEF ModeFollows, Untouched
  <2>2. installed /\ tray' = available
    <3>1. installed BY <2>1, <1>2
    <3>2. tray' = (available /\ installed) BY <1>2
    <3>3. (available /\ installed) = available BY <3>1
    <3> QED BY <3>1, <3>2, <3>3
  <2>3. /\ panel'.floating = D!Standalone(available, saved.mode)
        /\ panel'.chrome = D!Chrome(D!Standalone(available, saved.mode))
    BY <2>2, <1>1, <1>2, LaunchedWindow DEF D!Standalone
  <2> QED BY <2>2, <2>3, <1>1 DEF ModeIs, D!Standalone
<1>8. Dismissing'
  <2>1. panel'.pending = 0 /\ panel'.hidden = "nobody" BY <1>1, <1>2, LaunchedWindow
  <2> QED BY <2>1 DEF Dismissing
<1> QED BY <1>3, <1>4, <1>5, <1>6, <1>7, <1>8

LEMMA DesktopOutside == DInv /\ D!LoginChangedOutside => DInv'
<1> SUFFICES ASSUME DInv, D!LoginChangedOutside PROVE DInv'
  OBVIOUS
<1> USE DEF DInv
<1>1. /\ UNCHANGED <<saved, registered, tray, panel, job>> /\ login' \in BOOLEAN
      /\ astray' = astray \cup {"login"}
  BY DEF D!LoginChangedOutside
<1>2. Typed' BY <1>1 DEF Typed
<1>3. JobFits' BY <1>1 DEF JobFits
<1>4. ShortcutFollows' BY <1>1 DEF ShortcutFollows
<1>5. LoginFollows' BY <1>1 DEF LoginFollows
<1>6. ModeFollows'
  BY <1>1 DEF ModeFollows, Untouched, ModeIs, D!Target, Other, D!Standalone
<1>7. Dismissing' BY <1>1 DEF Dismissing
<1> QED BY <1>2, <1>3, <1>4, <1>5, <1>6, <1>7

LEMMA DesktopStarts == D!Init => DInv
<1> SUFFICES ASSUME D!Init PROVE DInv
  OBVIOUS
<1>1. /\ saved \in D!Settings /\ registered = D!Keys(saved.shortcut) /\ login = saved.login
      /\ tray \in BOOLEAN /\ panel = D!Launched(saved, tray, TRUE) /\ job = D!Idle
  BY DEF D!Init
<1>2. /\ Fits(panel) /\ panel.pending = 0 /\ panel.hidden = "nobody"
      /\ panel.floating = D!Standalone(tray, saved.mode)
      /\ panel.chrome = D!Chrome(D!Standalone(tray, saved.mode))
  BY <1>1, LaunchedWindow DEF D!Standalone
<1>3. Typed BY <1>1, <1>2 DEF Typed, D!Keys, D!Settings
<1>4. ModeFollows BY <1>1, <1>2 DEF ModeFollows, Untouched, ModeIs
<1> QED
  BY <1>1, <1>2, <1>3, <1>4 DEF DInv, JobFits, ShortcutFollows, LoginFollows, LoginSet, Dismissing

LEMMA DesktopStep == DInv /\ [D!Next]_desktopVars => DInv'
<1> SUFFICES ASSUME DInv, [D!Next]_desktopVars PROVE DInv'
  OBVIOUS
<1>1. CASE UNCHANGED desktopVars
  BY <1>1
  DEF desktopVars, DInv, Typed, JobFits, ShortcutFollows, LoginFollows, LoginSet, ModeFollows,
      Untouched, ModeIs, D!Target, Other, D!Standalone, Dismissing
<1>2. CASE D!Command
  BY <1>2, DesktopSetLogin, DesktopBeginMode, DesktopSetChrome, DesktopSetFlag,
     DesktopCancelAgain, DesktopShowInMode, DesktopPersist, DesktopUndo
  DEF D!Command
<1>3. CASE D!MainThread BY <1>3, DesktopMainThread, DesktopTrayLost DEF D!MainThread
<1>4. ASSUME NEW next \in D!Settings, D!Save(next) PROVE DInv' BY <1>4, DesktopSave
<1> QED
  BY <1>1, <1>2, <1>3, <1>4, DesktopRelaunch, DesktopOutside DEF D!Next

LEMMA DesktopInvariant == MCSpec => []DInv
<1>1. MCInit => DInv BY DesktopStarts DEF MCInit
<1>2. [MCNext]_<<part, vars, claimVars, paceVars, desktopVars>> => [D!Next]_desktopVars
  BY DEF MCNext, Reminding, Claiming, Pacing, Desktop, D!Next
<1>3. DInv /\ [MCNext]_<<part, vars, claimVars, paceVars, desktopVars>> => DInv'
  BY <1>2, DesktopStep
<1> QED BY <1>1, <1>3, PTL DEF MCSpec

\* Between saves the desktop is as the saved settings say.
THEOREM DesktopFollows == MCSpec => []DesktopFollowsSettings
<1>1. DInv => DesktopFollowsSettings
  BY DEF DInv, ShortcutFollows, LoginFollows, LoginSet, ModeFollows, Untouched, ModeIs,
     DesktopFollowsSettings, D!DesktopFollowsSettings
<1> QED BY <1>1, DesktopInvariant, PTL

\* No dismissal scheduled for a popup leaves the window hidden once it is standalone.
THEOREM OnlyPopupsAreDismissed == MCSpec => []DismissedIsPopup
<1>1. DInv => DismissedIsPopup
  BY DEF DInv, Typed, Dismissing, D!Idle, DismissedIsPopup, D!DismissedIsPopup
<1> QED BY <1>1, DesktopInvariant, PTL
===============================================================================
