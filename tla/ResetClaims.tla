---------------------------- MODULE ResetClaims ----------------------------
(* Using a reset credit: the dialog that asks (ResetCreditsDetail.svelte), the *)
(* command and the claim (reset_claim.rs), the logins it tries one after the   *)
(* other, and the server, whose answers may be lost.                           *)
EXTENDS Naturals, Sequences, FiniteSets, FiniteSetsExt, TLC

CONSTANTS Credits,      \* the credits that the server has granted
          ExpiryOf,     \* ExpiryOf[c]: when it expires, in 1..Horizon
          OwnerOf,      \* OwnerOf[c]: the account it belongs to
          Logins,       \* the logins that load_candidates may find, as a sequence of accounts
          Claims,       \* claims that may run at once
          NoClaim,      \* no claim is pending; not in Claims
          MaxRequests,  \* bound: request ids ever made
          CacheLimit,   \* matched credits kept (256 in the code)
          Horizon       \* bound on time

VARIABLES now,       \* the time
          redeemed,  \* redeemed[c]: the request that has used credit c
          card,      \* the last good snapshot: the credits it shows
          requests,  \* request ids made
          dialog,    \* the open dialog
          claim,     \* claim[k]
          matched,   \* matched_credit_ids: request -> credit
          settled    \* history: requests that the dialog has told the user were carried out,
                     \* that the program has forgotten, or that another account's login made

vars == <<now, redeemed, card, requests, dialog, claim, matched, settled>>

None == 0
Requests == 1..MaxRequests
Expiries == {ExpiryOf[c] : c \in Credits}
Outcomes == {"success", "nothingToReset", "noCredit", "failed"}
\* SvelteMap requestIds, confirmingExpiry, and the claim behind pendingExpiry
Closed == [ids |-> [e \in Expiries |-> None], asking |-> None, pending |-> NoClaim]
Rest == [pc |-> "idle", id |-> None, expiry |-> None, credit |-> None, first |-> 1,
         left |-> {}, outcome |-> "failed"]

TypeOK ==
  /\ now \in 0..Horizon
  /\ redeemed \in [Credits -> {None} \cup Requests]
  /\ card \subseteq Credits
  /\ requests \in 0..MaxRequests
  /\ dialog \in [ids : [Expiries -> {None} \cup Requests], asking : {None} \cup Expiries,
                 pending : Claims \cup {NoClaim}]
  /\ claim \in [Claims -> [pc : {"idle", "list", "consume", "answer"},
                           id : {None} \cup Requests, expiry : {None} \cup Expiries,
                           credit : {None} \cup Credits, first : 1..Len(Logins),
                           left : SUBSET (1..Len(Logins)), outcome : Outcomes]]
  /\ matched \in [Requests -> {None} \cup Credits]
  /\ settled \subseteq Requests

Init ==
  /\ now = 0
  /\ redeemed = [c \in Credits |-> None]
  /\ card = Credits
  /\ requests = 0 /\ dialog = Closed
  /\ claim = [k \in Claims |-> Rest]
  /\ matched = [r \in Requests |-> None]
  /\ settled = {}

Available == {c \in Credits : redeemed[c] = None /\ ExpiryOf[c] > now}
-----------------------------------------------------------------------------
(* The dialog *)

\* An entry is shown for a credit of the card that has not expired.
Entry(e) == e > now /\ \E c \in card : ExpiryOf[c] = e

BeginClaim(e) ==
  /\ Entry(e) /\ dialog.pending = NoClaim /\ dialog.asking # e
  /\ IF dialog.ids[e] # None
     THEN dialog' = [dialog EXCEPT !.asking = e] /\ UNCHANGED requests
     ELSE /\ requests < MaxRequests /\ requests' = requests + 1
          /\ dialog' = [dialog EXCEPT !.asking = e, !.ids[e] = requests']
  /\ UNCHANGED <<now, redeemed, card, claim, matched, settled>>

CancelClaim ==
  /\ dialog.asking # None /\ dialog.pending = NoClaim
  /\ dialog' = [dialog EXCEPT !.asking = None]
  /\ UNCHANGED <<now, redeemed, card, requests, claim, matched, settled>>

\* The command and the start of the claim: load_candidates may find no login (or Codex not
\* enabled), and a retry finds the credit that it was matched with.
ConfirmClaim(k) ==
  /\ dialog.asking # None /\ Entry(dialog.asking) /\ dialog.pending = NoClaim
  /\ claim[k].pc = "idle"
  /\ dialog' = [dialog EXCEPT !.pending = k]
  /\ LET id == dialog.ids[dialog.asking]
         new == [Rest EXCEPT !.id = id, !.expiry = dialog.asking] IN
       claim' \in {[claim EXCEPT ![k] = c] :
         c \in {[new EXCEPT !.pc = "answer"],
                IF matched[id] = None THEN [new EXCEPT !.pc = "list"]
                ELSE [new EXCEPT !.pc = "consume", !.credit = matched[id], !.left = 1..Len(Logins)]}}
  /\ UNCHANGED <<now, redeemed, card, requests, matched, settled>>

\* The dialog goes away with its ids, a claim that it has sent goes on.
CloseDialog ==
  /\ dialog # Closed /\ dialog' = Closed
  /\ settled' = settled \cup ({dialog.ids[e] : e \in Expiries} \ {None})
  /\ UNCHANGED <<now, redeemed, card, requests, claim, matched>>
-----------------------------------------------------------------------------
(* CodexResetClaimService::claim *)

Matching(k, i) ==
  {c \in Available : OwnerOf[c] = Logins[i] /\ ExpiryOf[c] = claim[k].expiry}
Ends(k, outcome) ==
  claim' = [claim EXCEPT ![k] = [Rest EXCEPT !.pc = "answer", !.id = claim[k].id,
                                             !.expiry = claim[k].expiry, !.outcome = outcome]]

\* The logins are asked in their order for their credits; one that is refused (401, 403) is
\* passed over, and any other failure ends the claim. The match is remembered.
ListFails(k) ==
  /\ claim[k].pc = "list"
  /\ \/ Ends(k, "failed")
     \/ Ends(k, "noCredit") /\ \E i \in 1..Len(Logins) : Matching(k, i) = {}
  /\ UNCHANGED <<now, redeemed, card, requests, dialog, matched, settled>>
List(k) ==
  /\ claim[k].pc = "list"
  /\ \E i \in 1..Len(Logins) : \E c \in Matching(k, i) :
       /\ claim' = [claim EXCEPT ![k].pc = "consume", ![k].credit = c, ![k].first = i,
                                 ![k].left = 1..Len(Logins)]
       /\ LET full == Cardinality({r \in Requests : matched[r] # None}) >= CacheLimit
              kept == IF full THEN [r \in Requests |-> None] ELSE matched IN
            /\ matched' = [kept EXCEPT ![claim[k].id] = c]
            /\ settled' = IF full THEN settled \cup {r \in Requests : matched[r] # None} ELSE settled
  /\ UNCHANGED <<now, redeemed, card, requests, dialog>>

\* The login that consume_reset_credit is tried with next.
Tried(k) == IF claim[k].first \in claim[k].left THEN claim[k].first ELSE Min(claim[k].left)

ConsumeRefused(k) ==
  /\ claim[k].pc = "consume"
  /\ LET left == claim[k].left \ {Tried(k)} IN
       \/ Ends(k, "failed")
       \/ left # {} /\ claim' = [claim EXCEPT ![k].left = left]
  /\ UNCHANGED <<now, redeemed, card, requests, dialog, matched, settled>>

\* The server: a request that has used a credit is told so again.
Served(c, r, account) ==
  IF OwnerOf[c] # account THEN {"noCredit"}
  ELSE IF r \in {redeemed[d] : d \in {d \in Credits : OwnerOf[d] = account}} THEN {"success"}
  ELSE IF c \in Available THEN {"success", "nothingToReset"}
  ELSE {"noCredit"}

Consume(k) ==
  /\ claim[k].pc = "consume"
  /\ LET c == claim[k].credit
         r == claim[k].id
         account == Logins[Tried(k)] IN
       \E served \in Served(c, r, account), lost \in BOOLEAN :
         /\ Ends(k, IF lost THEN "failed" ELSE served)
         /\ redeemed' = IF served = "success" /\ \A d \in Credits : redeemed[d] # r
                        THEN [redeemed EXCEPT ![c] = r] ELSE redeemed
         /\ settled' = IF OwnerOf[c] # account THEN settled \cup {r} ELSE settled
  /\ UNCHANGED <<now, card, requests, dialog, matched>>

\* The card is refreshed now and then, and by the command unless the claim has failed.
CardRefreshed ==
  /\ card # Available /\ card' = Available
  /\ UNCHANGED <<now, redeemed, requests, dialog, claim, matched, settled>>

\* Faulty variant of Answer: the id is dropped whatever the outcome.
AnswerDropsId(k) ==
  /\ claim[k].pc = "answer"
  /\ claim' = [claim EXCEPT ![k] = Rest]
  /\ card' \in IF claim[k].outcome = "failed" THEN {card} ELSE {card, Available}
  /\ IF dialog.pending = k
     THEN /\ dialog' = [dialog EXCEPT !.pending = NoClaim, !.asking = None, !.ids[claim[k].expiry] = None]
          /\ settled' = IF claim[k].outcome = "success" THEN settled \cup {claim[k].id} ELSE settled
     ELSE UNCHANGED <<dialog, settled>>
  /\ UNCHANGED <<now, redeemed, requests, matched>>
\* The command answers, and confirmClaim goes on; a closed dialog hears nothing.
Answer(k) ==
  /\ claim[k].pc = "answer"
  /\ claim' = [claim EXCEPT ![k] = Rest]
  /\ card' \in IF claim[k].outcome = "failed" THEN {card} ELSE {card, Available}
  /\ IF dialog.pending = k
     THEN /\ dialog' = [dialog EXCEPT !.pending = NoClaim, !.asking = None,
                          !.ids[claim[k].expiry] = IF claim[k].outcome = "failed" THEN @ ELSE None]
          /\ settled' = IF claim[k].outcome = "success" THEN settled \cup {claim[k].id} ELSE settled
     ELSE UNCHANGED <<dialog, settled>>
  /\ UNCHANGED <<now, redeemed, requests, matched>>

TimePasses ==
  /\ now < Horizon /\ now' = now + 1
  /\ UNCHANGED <<redeemed, card, requests, dialog, claim, matched, settled>>
\* The program ends with the dialog and every claim; the credits are the server's.
Restart ==
  /\ dialog' = Closed /\ claim' = [k \in Claims |-> Rest]
  /\ matched' = [r \in Requests |-> None]
  /\ settled' = 1..requests
  /\ UNCHANGED <<now, redeemed, card, requests>>

Ask == CancelClaim \/ CloseDialog \/ \E e \in Expiries : BeginClaim(e)
Work(k) ==
  \/ ConfirmClaim(k) \/ ListFails(k) \/ List(k) \/ ConsumeRefused(k) \/ Consume(k) \/ Answer(k)
Next == TimePasses \/ Restart \/ CardRefreshed \/ Ask \/ \E k \in Claims : Work(k)
Spec == Init /\ [][Next]_vars
-----------------------------------------------------------------------------
\* No use of a credit slips away: the dialog has told it, or it still holds the id under which
\* a retry finds it used (unless the dialog was closed or the match was dropped), however many
\* answers are lost. A retry that starts with a login of another account is the exception.
UseIsKnown ==
  \A c \in Credits : LET r == redeemed[c] IN
    r # None => r \in settled \/ dialog.ids[ExpiryOf[c]] = r
=============================================================================
