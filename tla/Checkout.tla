------------------------------ MODULE Checkout ------------------------------
(***************************************************************************)
(* The API's own record of a checkout: one person, some purchases, and for *)
(* each purchase the rows of the purchase database from the quote to the   *)
(* terminal receipt (purchase_admission.py, payment_purchase_store.py,     *)
(* inventory_payment_hold_store.py, inventory_extension_store.py,          *)
(* checkout_terminal_store.py, base_inventory_hold_store.py and their      *)
(* callers).                                                               *)
(*                                                                         *)
(* Every row is written by a BEGIN IMMEDIATE transaction that checks the   *)
(* rows it read before; between two of them a request awaits nodes,        *)
(* validators and providers, and another request, the worker or a restart  *)
(* may come in.  An action of the API is one such transaction, and what a  *)
(* request learnt before it is a condition that, once true, stays true: a  *)
(* coin that was created or spent, a receipt that was issued, a payment    *)
(* that was seen.  So requests of any age and number are there, with no    *)
(* program counter.  Leases and back-off decide only who works and when.   *)
(*                                                                         *)
(* The deed of a purchase is bought by nobody else here: that contest, and *)
(* what the validators sign, is InventoryAuthority.                        *)
(*                                                                         *)
(* A definition named Operator_Variant is Operator with a mistake in it;   *)
(* nothing uses it.                                                        *)
(***************************************************************************)
EXTENDS Integers

CONSTANTS
  Purchases,
  Rail,       \* Rail[p]: "stripe" or "base"
  SamePerson, \* pairs of purchases made by one person
  None,
  MaxTerm     \* bound: renewals of a reservation; the code allows 128

ASSUME CheckoutAssumption ==
  /\ Rail \in [Purchases -> {"stripe", "base"}]
  /\ SamePerson \subseteq Purchases \X Purchases
  /\ \A p, q \in Purchases : <<p, q>> \in SamePerson => <<q, p>> \in SamePerson
  /\ None \notin [kind : STRING, term : Nat, deposit : STRING] /\ MaxTerm \in Nat

VARIABLES
  adm,      \* payment_purchase_admission.state
  inv,      \* payment_purchases.inventory_state
  hold,     \* payment_checkout_holds or payment_base_inventory_holds .state
  start,    \* payment_start_candidates, then payment_start_observations
  renewals, \* confirmed rows of payment_inventory_extensions, and receipts
  pending,  \* its one unconfirmed row
  timeout,  \* payment_inventory_timeouts.state
  claim,    \* payment_checkout_returns or payment_base_terminal_attempts
  quorum,   \* the purchases whose claim has its quorum_json,
  message,  \* whose external_message_json is there: a Base deposit,
  receipt,  \* whose hold the validators have issued a receipt of,
  told,     \* whose buyer has read that the checkout is armed
  coin,     \* the deed: "available", "reserved", "returned" or "sold"
  term,     \* renewals of its reservation on the chain
  over,     \* terms of the reservation that are over for the chain
  late,     \* quote: its fifteen minutes, term: its reservation, at the API
  pay       \* the payment at the provider

admission == <<adm>>
journal   == <<inv, hold, start, renewals, pending, timeout, claim, quorum, message>>
outside   == <<receipt, told, coin, term, over, late, pay>>
vars      == <<admission, journal, outside>>

Deposit(p) == IF p \in message THEN "bound" ELSE "none"
Claim(kind, p) == [kind |-> kind, term |-> renewals[p], deposit |-> Deposit(p)]
Kinds  == {"abort", "release", "RETURNED", "DELIVERED"}
Claims == [kind : Kinds, term : 0 .. MaxTerm, deposit : {"bound", "none"}]

-----------------------------------------------------------------------------
(* What the rows and the chain say.                                        *)

SoftQuote(p) == adm[p] = "QUOTING" /\ "quote" \notin late[p]
Active(p)    == adm[p] = "SIGNING" \/ SoftQuote(p)
Others(p)    == {q \in Purchases : q # p /\ <<p, q>> \in SamePerson}

NoCheckoutHold(p) == hold[p] = "none"
NoExtension(p)    == renewals[p] = 0 /\ pending[p] = "none"
Unreleased        == {"PREPARED", "SUBMITTED", "CONFIRMED"}

\* The coin that the retained history leads to has met its end.
Returned(p)  == coin[p] = "returned" /\ term[p] = renewals[p]
Delivered(p) == coin[p] = "sold" /\ term[p] = renewals[p]

\* expiry of the authorization before it was used
Unused(p) == coin[p] = "available" /\ over[p] > 0

Paid(p)  == pay[p] \in {"processing", "succeeded"}
Ended(p) ==
  \/ pay[p] \in {"canceled", "refunded"}
  \/ Rail[p] = "base" /\ pay[p] = "open" /\ over[p] > 0

Write(row, p, value) == [row EXCEPT ![p] = value]

-----------------------------------------------------------------------------
(* Admission and reservation.                                              *)

AdmitPurchase(p) ==
  /\ adm[p] = "none"
  /\ \A q \in Others(p) : ~Active(q)
  /\ adm' = Write(adm, p, "QUOTING")
  /\ UNCHANGED <<journal, outside>>

BeginReservation_Unexpired(p) ==
  /\ inv[p] = "UNRESERVED" /\ adm[p] \in {"QUOTING", "SIGNING"}
  /\ adm' = Write(adm, p, "SIGNING")
  /\ UNCHANGED <<journal, outside>>
BeginReservation(p) ==
  /\ inv[p] = "UNRESERVED" /\ (SoftQuote(p) \/ adm[p] = "SIGNING")
  /\ adm' = Write(adm, p, "SIGNING")
  /\ UNCHANGED <<journal, outside>>

Inventory(p, from, to) ==
  /\ inv[p] \in from
  /\ inv' = Write(inv, p, to)
  /\ UNCHANGED <<adm, hold, start, renewals, pending, timeout, claim, quorum, message,
                 outside>>

\* The signatures were collected after BeginReservation, and may be old.
ReservationPrepared(p) ==
  adm[p] = "SIGNING" /\ Inventory(p, {"UNRESERVED"}, "PREPARED")

\* Pushed in time, or found in the mempool.
ReservationSubmitted(p) == Inventory(p, {"PREPARED", "SUBMITTED"}, "SUBMITTED")

ReservationConfirmed(p) ==
  coin[p] # "available" /\ Inventory(p, {"SUBMITTED", "CONFIRMED"}, "CONFIRMED")

\* The inventory has a terminal state: the slot of the person is free.
Close(p, state) ==
  /\ inv' = Write(inv, p, state)
  /\ adm' = Write(adm, p, "CLOSED")

AuthorizationExpired(p) ==
  /\ NoCheckoutHold(p) /\ inv[p] \in {"PREPARED", "SUBMITTED"} /\ p \notin message
  /\ Unused(p)
  /\ Close(p, "AUTHORIZATION_EXPIRED")
  /\ UNCHANGED <<hold, start, renewals, pending, timeout, claim, quorum, message, outside>>

\* The service's own timeout of a reservation nobody pays for.
Timeout(p, from, to) ==
  /\ timeout[p] = from
  /\ timeout' = Write(timeout, p, to)
  /\ UNCHANGED <<adm, inv, hold, start, renewals, pending, claim, quorum, message, outside>>

ClaimTimeout(p) ==
  /\ inv[p] \in Unreleased /\ NoCheckoutHold(p) /\ NoExtension(p)
  /\ coin[p] # "available" /\ over[p] > 0
  /\ Timeout(p, "none", "CLAIMED")

PreserveTimeout(p) == Timeout(p, "CLAIMED", "PREPARED")

InventoryReleased_Held(p) ==
  /\ inv[p] \in Unreleased /\ NoExtension(p) /\ Returned(p)
  /\ Close(p, "RELEASED")
  /\ timeout' = Write(timeout, p, IF timeout[p] = "none" THEN "none" ELSE "CONFIRMED")
  /\ UNCHANGED <<hold, start, renewals, pending, claim, quorum, message, outside>>
InventoryReleased(p) ==
  /\ inv[p] \in Unreleased /\ NoCheckoutHold(p) /\ NoExtension(p)
  /\ Returned(p)
  /\ Close(p, "RELEASED")
  /\ timeout' = Write(timeout, p, IF timeout[p] = "none" THEN "none" ELSE "CONFIRMED")
  /\ UNCHANGED <<hold, start, renewals, pending, claim, quorum, message, outside>>

-----------------------------------------------------------------------------
(* The payment hold: claimed before the validators are asked, armed with   *)
(* their receipt before the buyer is.                                      *)

Hold(p, from, to) ==
  /\ hold[p] \in from
  /\ hold' = Write(hold, p, to)
  /\ UNCHANGED <<adm, inv, start, renewals, pending, timeout, claim, quorum, message, outside>>

ClaimHold_TimedOut(p) ==
  /\ adm[p] = "SIGNING" /\ inv[p] = "CONFIRMED" /\ "term" \notin late[p] /\ p \notin message
  /\ NoExtension(p)
  /\ Hold(p, {"none"}, "ARMING")
ClaimHold(p) ==
  /\ adm[p] = "SIGNING" /\ inv[p] = "CONFIRMED" /\ "term" \notin late[p] /\ p \notin message
  /\ timeout[p] = "none" /\ NoExtension(p)
  /\ Hold(p, {"none"}, "ARMING")

PreserveArm(p) ==
  /\ p \in receipt
  /\ Rail[p] = "stripe" => inv[p] = "CONFIRMED" /\ "term" \notin late[p]
  /\ Hold(p, {"ARMING"}, "ARMED")

\* A request asks nothing of the chain before it pins the row; the worker
\* first sees the reservation timed out.
ClaimAbort(p) ==
  /\ Rail[p] = "stripe" /\ NoExtension(p)
  /\ Hold(p, {"ARMING", "ARMED", "ABORTING"}, "ABORTING")

WorkerAborts_Partial(p) == hold[p] = "ABORTING" /\ Returned(p) /\ ClaimAbort(p)
WorkerAborts(p) == hold[p] = "ARMING" /\ Returned(p) /\ ClaimAbort(p)

\* Validators abort only what was canceled unpaid and timed out unrenewed.
PreserveAbort(p) ==
  /\ pay[p] = "canceled" /\ coin[p] = "returned" /\ term[p] = 0
  /\ Hold(p, {"ABORTING"}, "ABORTED")

-----------------------------------------------------------------------------
(* The renewal lane.                                                       *)

RetainCandidate(p) ==
  /\ Rail[p] = "stripe" /\ hold[p] = "ARMED" /\ start[p] = "none"
  /\ start' = Write(start, p, "candidate")
  /\ UNCHANGED <<adm, inv, hold, renewals, pending, timeout, claim, quorum, message, outside>>

\* A hold must be complete; a card purchase that has none is let through.
HeldOrUnheld(p) == hold[p] \in IF Rail[p] = "stripe" THEN {"none", "ARMED"} ELSE {"ARMED"}

\* On a receipt of the validators, who ask the provider themselves.
RetainPaymentStart(p) ==
  /\ HeldOrUnheld(p) /\ inv[p] = "CONFIRMED"
  /\ Rail[p] = "base" => p \in message
  /\ Paid(p)
  /\ start' = Write(start, p, "observed")
  /\ UNCHANGED <<adm, inv, hold, renewals, pending, timeout, claim, quorum, message, outside>>

Extension(p, from, to) ==
  /\ pending[p] = from
  /\ pending' = Write(pending, p, to)
  /\ UNCHANGED <<adm, inv, hold, start, timeout, claim, quorum, message, outside>>

ClaimExtension(p) ==
  /\ inv[p] = "CONFIRMED" /\ HeldOrUnheld(p) /\ timeout[p] = "none"
  /\ renewals[p] < MaxTerm /\ start[p] = "observed"
  /\ Extension(p, "none", "CLAIMED")
  /\ UNCHANGED renewals

\* The signatures first, then the bytes that may be pushed; each time the
\* validators must see the payment alive.
PreserveExtension(p) ==
  /\ Paid(p)
  /\ Extension(p, "CLAIMED", "SIGNED") \/ Extension(p, "SIGNED", "PREPARED")
  /\ UNCHANGED renewals

ConfirmExtension(p) ==
  /\ inv[p] = "CONFIRMED" /\ term[p] > renewals[p]
  /\ Extension(p, "PREPARED", "none")
  /\ renewals' = Write(renewals, p, renewals[p] + 1)

-----------------------------------------------------------------------------
(* The terminal lane, Stripe.                                              *)

Retain(p, c, state) ==
  /\ claim[p] = None
  /\ claim' = Write(claim, p, c)
  /\ hold' = Write(hold, p, state)
  /\ UNCHANGED <<adm, inv, start, renewals, pending, timeout, quorum, message, outside>>

ReturnKind(p) == IF hold[p] = "ABORTED" THEN "abort" ELSE "release"

\* "An early status/recovery request must not pin a live checkout"
ClaimReturn_Early(p) ==
  /\ Rail[p] = "stripe" /\ inv[p] = "CONFIRMED" /\ hold[p] \in {"ARMED", "ABORTED"}
  /\ Retain(p, Claim(ReturnKind(p), p), "RETURNING")
ClaimReturn(p) ==
  /\ Rail[p] = "stripe" /\ inv[p] = "CONFIRMED" /\ hold[p] \in {"ARMED", "ABORTED"}
  /\ Returned(p)
  /\ Retain(p, Claim(ReturnKind(p), p), "RETURNING")

\* The receipt of an abort is on the hold already; for a release validators
\* must see the payment canceled or refunded.
PreserveQuorum(p) ==
  /\ claim[p] # None /\ p \notin quorum /\ hold[p] \in {"RETURNING", "TERMINATING"}
  /\ claim[p].kind = "release" => pay[p] \in {"canceled", "refunded"}
  /\ quorum' = quorum \cup {p}
  /\ UNCHANGED <<adm, inv, hold, start, renewals, pending, timeout, claim, message, outside>>

RecordReturned(p) ==
  /\ Rail[p] = "stripe" /\ hold[p] = "RETURNING" /\ inv[p] = "CONFIRMED"
  /\ p \in quorum /\ Returned(p)
  /\ hold' = Write(hold, p, "RETURNED") /\ Close(p, "RELEASED")
  /\ UNCHANGED <<start, renewals, pending, timeout, claim, quorum, message, outside>>

RecordDelivered(p) ==
  /\ Rail[p] = "stripe" /\ hold[p] = "ARMED" /\ inv[p] = "CONFIRMED"
  /\ claim[p] = None /\ Delivered(p)
  /\ hold' = Write(hold, p, "DELIVERED") /\ Close(p, "CONFIRMED")
  /\ UNCHANGED <<start, renewals, pending, timeout, claim, quorum, message, outside>>

-----------------------------------------------------------------------------
(* The terminal lane, Base.                                                *)

\* check_base_deposit_binding: a hold, where there is one, is complete.
BindMessage(p) ==
  /\ Rail[p] = "base" /\ pay[p] # "open" /\ p \notin message
  /\ hold[p] \in {"none", "ARMED"}
  /\ message' = message \cup {p}
  /\ UNCHANGED <<adm, inv, hold, start, renewals, pending, timeout, claim, quorum, outside>>

\* Unfunded and over, or the settlement of the bound deposit.
BaseOutcome(p, kind) ==
  \/ /\ kind = "RETURNED" /\ Returned(p)
     /\ IF p \in message THEN pay[p] = "refunded" ELSE pay[p] = "open" /\ over[p] > 0
  \/ kind = "DELIVERED" /\ Delivered(p) /\ p \in message /\ pay[p] = "succeeded"

ClaimBaseTerminal(p, kind) ==
  /\ Rail[p] = "base" /\ inv[p] = "CONFIRMED"
  /\ hold[p] \in {"ARMING", "ARMED", "TERMINATING"}
  /\ BaseOutcome(p, kind)
  /\ Retain(p, Claim(kind, p), "TERMINATING")

RecordBaseTerminal(p) ==
  /\ Rail[p] = "base" /\ hold[p] = "TERMINATING" /\ inv[p] = "CONFIRMED"
  /\ p \in quorum /\ claim[p].deposit = Deposit(p)
  /\ hold' = Write(hold, p, claim[p].kind)
  /\ Close(p, IF claim[p].kind = "RETURNED" THEN "RELEASED" ELSE "CONFIRMED")
  /\ UNCHANGED <<start, renewals, pending, timeout, claim, quorum, message, outside>>

-----------------------------------------------------------------------------
(* The validators, the chain, the buyer and the clocks.                    *)

Coin(p, state, k) ==
  /\ coin' = Write(coin, p, state) /\ term' = Write(term, p, k)
  /\ UNCHANGED <<admission, journal, receipt, told, over, late, pay>>

IssueReceipt(p) ==
  /\ hold[p] # "none" /\ coin[p] = "reserved" /\ term[p] = 0 /\ pay[p] = "open"
  /\ receipt' = receipt \cup {p}
  /\ UNCHANGED <<admission, journal, told, coin, term, over, late, pay>>

\* confirmationAllowed, read while it is true; the page may stay open.
TellBuyer(p) ==
  /\ hold[p] = "ARMED" /\ (Rail[p] = "stripe" => "term" \notin late[p])
  /\ told' = told \cup {p}
  /\ UNCHANGED <<admission, journal, receipt, coin, term, over, late, pay>>

\* The retained bundle is pushed, once or more, and holds until its time.
ChainReserves(p) ==
  /\ inv[p] # "UNRESERVED" /\ coin[p] = "available" /\ over[p] = 0
  /\ Coin(p, "reserved", 0)

ChainRenews(p) ==
  /\ pending[p] = "PREPARED" /\ coin[p] = "reserved"
  /\ term[p] = renewals[p] /\ over[p] <= term[p]
  /\ Coin(p, "reserved", term[p] + 1)

\* Anybody may spend a reserved coin whose term is over.
ChainTimesOut(p) ==
  /\ coin[p] = "reserved" /\ over[p] > term[p]
  /\ Coin(p, "returned", term[p])

ChainDelivers(p) ==
  /\ coin[p] = "reserved" /\ pay[p] = "succeeded"
  /\ Coin(p, "sold", term[p])

Moves(p) ==
  IF Rail[p] = "stripe"
  THEN {<<"open", "processing">>, <<"processing", "succeeded">>, <<"processing", "open">>,
        <<"open", "canceled">>, <<"succeeded", "refunded">>}
  ELSE {<<"open", "succeeded">>, <<"succeeded", "refunded">>}

\* A buyer who was told pays; the escrow refuses a deposit that is late; a
\* seller who delivered does not refund.
PaymentMoves(p, to) ==
  /\ <<pay[p], to>> \in Moves(p)
  /\ to \in {"processing", "succeeded"} => p \in told
  /\ Rail[p] = "base" /\ to = "succeeded" => over[p] = 0
  /\ to = "refunded" => coin[p] # "sold"
  /\ pay' = Write(pay, p, to)
  /\ UNCHANGED <<admission, journal, receipt, told, coin, term, over, late>>

\* The clock of the chain and that of the API run apart.
ChainClock(p) ==
  /\ adm[p] # "none" /\ over[p] <= term[p]
  /\ over' = Write(over, p, over[p] + 1)
  /\ UNCHANGED <<admission, journal, receipt, told, coin, term, late, pay>>

ApiClock(p, what) ==
  /\ adm[p] # "none" /\ what \notin late[p]
  /\ late' = Write(late, p, late[p] \cup {what})
  /\ UNCHANGED <<admission, journal, receipt, told, coin, term, over, pay>>

-----------------------------------------------------------------------------
All(value) == [p \in Purchases |-> value]

Init ==
  /\ adm = All("none") /\ inv = All("UNRESERVED") /\ hold = All("none")
  /\ start = All("none") /\ renewals = All(0) /\ pending = All("none")
  /\ timeout = All("none") /\ claim = All(None) /\ quorum = {}
  /\ message = {} /\ receipt = {} /\ told = {}
  /\ coin = All("available") /\ term = All(0) /\ over = All(0)
  /\ late = All({}) /\ pay = All("open")

Reservation(p) ==
  \/ AdmitPurchase(p) \/ BeginReservation(p)
  \/ ReservationPrepared(p) \/ ReservationSubmitted(p) \/ ReservationConfirmed(p)
  \/ AuthorizationExpired(p) \/ ClaimTimeout(p) \/ PreserveTimeout(p)
  \/ InventoryReleased(p)

Protection(p) ==
  \/ ClaimHold(p) \/ PreserveArm(p) \/ ClaimAbort(p) \/ BindMessage(p)
  \/ RetainCandidate(p) \/ RetainPaymentStart(p)
  \/ ClaimExtension(p) \/ PreserveExtension(p)

\* What the worker of the checkout lifecycle drives to its end.
Recovery(p) ==
  \/ PreserveAbort(p) \/ ConfirmExtension(p)
  \/ ClaimReturn(p) \/ PreserveQuorum(p) \/ RecordReturned(p) \/ RecordDelivered(p)
  \/ (\E kind \in Kinds : ClaimBaseTerminal(p, kind)) \/ RecordBaseTerminal(p)

World(p) ==
  \/ IssueReceipt(p) \/ TellBuyer(p)
  \/ ChainReserves(p) \/ ChainRenews(p) \/ ChainTimesOut(p) \/ ChainDelivers(p)
  \/ \E to \in {"open", "processing", "succeeded", "canceled", "refunded"} :
       PaymentMoves(p, to)
  \/ ChainClock(p)
  \/ \E what \in {"quote", "term"} : ApiClock(p, what)

Next == \E p \in Purchases : Reservation(p) \/ Protection(p) \/ Recovery(p) \/ World(p)

Spec == Init /\ [][Next]_vars

\* Both lanes of the worker come back to an unfinished checkout within five
\* minutes, whatever happened to the last attempt, restarts included.
Fairness ==
  \A p \in Purchases : WF_vars(Recovery(p)) /\ WF_vars(WorkerAborts(p))

LiveSpec == Spec /\ Fairness

-----------------------------------------------------------------------------
TypeOK ==
  /\ adm \in [Purchases -> {"none", "QUOTING", "SIGNING", "CLOSED"}]
  /\ inv \in [Purchases -> {"UNRESERVED", "RELEASED", "AUTHORIZATION_EXPIRED"}
                             \cup Unreleased]
  /\ hold \in [Purchases -> {"none", "ARMING", "ARMED", "ABORTING", "ABORTED",
                "RETURNING", "TERMINATING", "RETURNED", "DELIVERED"}]
  /\ start \in [Purchases -> {"none", "candidate", "observed"}]
  /\ renewals \in [Purchases -> 0 .. MaxTerm]
  /\ pending \in [Purchases -> {"none", "CLAIMED", "SIGNED", "PREPARED"}]
  /\ timeout \in [Purchases -> {"none", "CLAIMED", "PREPARED", "CONFIRMED"}]
  /\ claim \in [Purchases -> Claims \cup {None}]
  /\ quorum \subseteq Purchases /\ message \subseteq Purchases
  /\ receipt \subseteq Purchases /\ told \subseteq Purchases
  /\ coin \in [Purchases -> {"available", "reserved", "returned", "sold"}]
  /\ term \in [Purchases -> 0 .. MaxTerm] /\ over \in [Purchases -> 0 .. MaxTerm + 1]
  /\ late \in [Purchases -> SUBSET {"quote", "term"}]
  /\ pay \in [Purchases -> {"open", "processing", "succeeded", "canceled", "refunded"}]

\* A person's slot is free again only when the checkout is truly over: the
\* deed was delivered; or it is back on sale, and a buyer who was told to pay
\* can no longer do so or has the money back; or it was never reserved and
\* never will be.  Closing is done in five transactions of four modules.
Finished(p) ==
  \/ coin[p] = "sold"
  \/ coin[p] = "returned" /\ (p \in told => Ended(p))
  \/ Unused(p)
SlotFreedWhenOver == \A p \in Purchases : adm[p] = "CLOSED" => Finished(p)

\* A person never has two deeds reserved on the chain at once: a quote whose
\* fifteen minutes passed can not come back to life beside its successor.
OneDeedEach ==
  \A p, q \in Purchases : p # q /\ <<p, q>> \in SamePerson =>
    ~(coin[p] = "reserved" /\ coin[q] = "reserved")

\* A retained terminal claim is never one that events overtook: it names the
\* coin that was last, that coin did meet the end the claim names, and it
\* speaks of the deposit exactly when one is bound.  A claim can not be
\* replaced, so one pinned too early would hold the deed for ever.
ClaimsAreTrue ==
  \A p \in Purchases : claim[p] # None =>
    /\ claim[p].term = term[p] /\ claim[p].deposit = Deposit(p)
    /\ coin[p] = (IF claim[p].kind = "DELIVERED" THEN "sold" ELSE "returned")

\* The service never has an operation of its own to time out a reservation
\* for which it holds, or prepares to hold, a payment; the two clocks of the
\* two sides do not matter.
TimeoutExcludesHold ==
  \A p \in Purchases : timeout[p] # "none" => hold[p] = "none"

\* Every checkout whose payment was held comes to its end: when the deed is
\* delivered, or back on sale with the payment ended, the worker closes the
\* row, from any state a crash or an unanswered request left it in.  One thing
\* can stop it: a request to abort pinned the row, and then the payment was
\* not canceled after all.
ChainIsDone(p) ==
  /\ hold[p] # "none"
  /\ coin[p] = "sold" \/ (coin[p] = "returned" /\ Ended(p))
  /\ Rail[p] = "base" /\ pay[p] # "open" => p \in message
PinnedByHand(p) == hold[p] = "ABORTING" /\ pay[p] # "canceled"
CheckoutsSettle ==
  \A p \in Purchases : ChainIsDone(p) ~> adm[p] = "CLOSED" \/ PinnedByHand(p)
=============================================================================
