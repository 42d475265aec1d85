-------------------------- MODULE Checkout_proofs --------------------------
(***************************************************************************)
(* Proofs about Checkout.  The safety properties are not inductive alone:  *)
(* that a freed slot is really free needs, at every step before, how far   *)
(* the hold, the inventory row and the chain can be apart.  Each part of   *)
(* Row below says one such thing; with the type they are inductive.  A     *)
(* step of one purchase leaves every row of the others alone (Elsewhere),  *)
(* so each action is looked at for its own purchase only.                  *)
(***************************************************************************)
EXTENDS Checkout, TLAPS

\* Nothing is reserved before its bundle is retained; nothing is confirmed
\* before it is reserved.
RowFollowsChain(p) ==
  /\ inv[p] = "UNRESERVED" => coin[p] = "available"
  /\ inv[p] = "CONFIRMED" => coin[p] # "available"
  /\ inv[p] # "UNRESERVED" => adm[p] \in {"SIGNING", "CLOSED"}

\* A hold is on a confirmed reservation, it precedes the invitation, and the
\* slot is not freed under it.
HoldIsReserved(p) ==
  /\ hold[p] # "none" => inv[p] \in {"CONFIRMED", "RELEASED"}
  /\ p \in told => hold[p] # "none"
  /\ adm[p] = "CLOSED" => hold[p] \in {"none", "RETURNED", "DELIVERED"}

\* A renewal is on its way only while one is allowed.
Bounded(p) == pending[p] # "none" => renewals[p] < MaxTerm

\* What a quorum has said of a payment stays true.
ReturnsAreEnded(p) ==
  /\ hold[p] = "ABORTED" => pay[p] = "canceled"
  /\ claim[p] # None =>
       /\ hold[p] \in {"RETURNING", "TERMINATING", "RETURNED", "DELIVERED"}
       /\ claim[p].kind = "abort" => pay[p] = "canceled"
       /\ claim[p].kind = "RETURNED" => Ended(p)
       /\ claim[p].kind \in {"release", "abort"} => Rail[p] = "stripe"
       /\ claim[p].kind \in {"RETURNED", "DELIVERED"} => Rail[p] = "base"
  /\ p \in quorum /\ Rail[p] = "stripe" => pay[p] \in {"canceled", "refunded"}
  /\ p \in quorum => claim[p] # None
  /\ Rail[p] = "stripe" => p \notin message

\* The properties of the runs, for one purchase.
SlotIsFree(p) == adm[p] = "CLOSED" => Finished(p)
ClaimIsTrue(p) ==
  claim[p] # None =>
    /\ claim[p].term = term[p] /\ claim[p].deposit = Deposit(p)
    /\ coin[p] = (IF claim[p].kind = "DELIVERED" THEN "sold" ELSE "returned")
OneSide(p) == timeout[p] # "none" => hold[p] = "none"

Row(p) ==
  /\ RowFollowsChain(p) /\ HoldIsReserved(p) /\ ReturnsAreEnded(p) /\ Bounded(p)
  /\ SlotIsFree(p) /\ ClaimIsTrue(p) /\ OneSide(p)

\* At most one purchase of a person is being signed or may still be.
OneActive ==
  \A p, q \in Purchases : p # q /\ <<p, q>> \in SamePerson => ~(Active(p) /\ Active(q))

IInv == TypeOK /\ (\A p \in Purchases : Row(p)) /\ OneActive

\* No row of q is written.
Untouched(q) ==
  /\ adm'[q] = adm[q] /\ inv'[q] = inv[q] /\ hold'[q] = hold[q] /\ start'[q] = start[q]
  /\ renewals'[q] = renewals[q] /\ pending'[q] = pending[q] /\ timeout'[q] = timeout[q]
  /\ claim'[q] = claim[q] /\ (q \in quorum' <=> q \in quorum) /\ (q \in message' <=> q \in message)
  /\ (q \in receipt' <=> q \in receipt) /\ (q \in told' <=> q \in told) /\ coin'[q] = coin[q]
  /\ term'[q] = term[q] /\ over'[q] = over[q] /\ late'[q] = late[q] /\ pay'[q] = pay[q]

USE DEF admission, journal, outside, vars, Write

-----------------------------------------------------------------------------
(* A step of p writes the rows of p only.                                  *)

LEMMA ElsewhereReservation ==
  ASSUME TypeOK, NEW p \in Purchases, NEW q \in Purchases, p # q, Reservation(p)
  PROVE  Untouched(q)
BY DEF Untouched, TypeOK, Reservation, AdmitPurchase, BeginReservation, Inventory,
       ReservationPrepared, ReservationSubmitted, ReservationConfirmed, Close,
       AuthorizationExpired, Timeout, ClaimTimeout, PreserveTimeout, InventoryReleased

LEMMA ElsewhereProtection ==
  ASSUME TypeOK, NEW p \in Purchases, NEW q \in Purchases, p # q, Protection(p)
  PROVE  Untouched(q)
BY DEF Untouched, TypeOK, Protection, Hold, ClaimHold, PreserveArm, ClaimAbort, BindMessage,
       RetainCandidate, RetainPaymentStart, HeldOrUnheld, Extension, ClaimExtension, PreserveExtension

LEMMA ElsewhereRecovery ==
  ASSUME TypeOK, NEW p \in Purchases, NEW q \in Purchases, p # q, Recovery(p)
  PROVE  Untouched(q)
<1>1. CASE PreserveAbort(p) \/ ConfirmExtension(p)
  BY <1>1 DEF Untouched, TypeOK, PreserveAbort, Hold, ConfirmExtension, Extension
<1>2. CASE ClaimReturn(p) \/ PreserveQuorum(p)
  BY <1>2 DEF Untouched, TypeOK, ClaimReturn, Retain, PreserveQuorum
<1>3. CASE RecordReturned(p) \/ RecordDelivered(p) \/ RecordBaseTerminal(p)
  BY <1>3 DEF Untouched, TypeOK, RecordReturned, RecordDelivered, RecordBaseTerminal, Close
<1>4. ASSUME NEW kind \in Kinds, ClaimBaseTerminal(p, kind)
      PROVE  Untouched(q)
  BY <1>4 DEF Untouched, TypeOK, ClaimBaseTerminal, Retain
<1> QED BY <1>1, <1>2, <1>3, <1>4 DEF Recovery

LEMMA ElsewhereWorld ==
  ASSUME TypeOK, NEW p \in Purchases, NEW q \in Purchases, p # q, World(p)
  PROVE  Untouched(q)
BY DEF Untouched, TypeOK, World, IssueReceipt, TellBuyer, Coin, ChainReserves, ChainRenews,
       ChainTimesOut, ChainDelivers, PaymentMoves, ChainClock, ApiClock

LEMMA UntouchedRow ==
  ASSUME NEW q \in Purchases, Row(q), Untouched(q)
  PROVE  Row(q)'
BY DEF Untouched, Row, RowFollowsChain, HoldIsReserved, ReturnsAreEnded, SlotIsFree, Bounded,
       Deposit, ClaimIsTrue, OneSide, Finished, Unused, Ended

-----------------------------------------------------------------------------
(* The type is preserved.                                                  *)

LEMMA TypeReservation ==
  ASSUME TypeOK, NEW p \in Purchases, Reservation(p)
  PROVE  TypeOK'
BY DEF TypeOK, Unreleased, Reservation, AdmitPurchase, BeginReservation, Inventory,
       ReservationPrepared, ReservationSubmitted, ReservationConfirmed, Close,
       AuthorizationExpired, Timeout, ClaimTimeout, PreserveTimeout, InventoryReleased

LEMMA TypeProtection ==
  ASSUME TypeOK, NEW p \in Purchases, Protection(p)
  PROVE  TypeOK'
<1>1. CASE ClaimHold(p) \/ PreserveArm(p) \/ ClaimAbort(p)
  BY <1>1 DEF TypeOK, Unreleased, Claims, Hold, ClaimHold, PreserveArm, ClaimAbort
<1>2. CASE BindMessage(p) \/ RetainCandidate(p) \/ RetainPaymentStart(p)
  BY <1>2 DEF TypeOK, Unreleased, BindMessage, RetainCandidate, RetainPaymentStart, HeldOrUnheld
<1>3. CASE ClaimExtension(p) \/ PreserveExtension(p)
  BY <1>3 DEF TypeOK, Unreleased, Extension, HeldOrUnheld, ClaimExtension, PreserveExtension
<1> QED BY <1>1, <1>2, <1>3 DEF Protection

LEMMA TypeRecovery ==
  ASSUME TypeOK, NEW p \in Purchases, Row(p), Recovery(p)
  PROVE  TypeOK'
<1>0. renewals[p] \in 0 .. MaxTerm
  BY DEF TypeOK
<1>1. CASE PreserveAbort(p)
  BY <1>1 DEF TypeOK, Unreleased, PreserveAbort, Hold
<1>2. CASE ConfirmExtension(p)
  <2>1. renewals[p] + 1 \in 0 .. MaxTerm
    BY <1>0, <1>2, CheckoutAssumption DEF ConfirmExtension, TypeOK
  <2> QED BY <1>2, <2>1 DEF TypeOK, Unreleased, ConfirmExtension, Extension
<1>3. CASE ClaimReturn(p)
  <2>1. Claim(ReturnKind(p), p) \in Claims
    BY <1>0 DEF Claim, Claims, Deposit, Kinds, ReturnKind
  <2> QED BY <1>3, <2>1 DEF TypeOK, Unreleased, ClaimReturn, Retain
<1>4. ASSUME NEW kind \in Kinds, ClaimBaseTerminal(p, kind)
      PROVE  TypeOK'
  <2>1. Claim(kind, p) \in Claims
    BY <1>0 DEF Claim, Claims, Deposit
  <2> QED BY <1>4, <2>1 DEF TypeOK, Unreleased, ClaimBaseTerminal, Retain
<1>5. CASE PreserveQuorum(p)
  BY <1>5 DEF TypeOK, Unreleased, PreserveQuorum
<1>6. CASE RecordReturned(p) \/ RecordDelivered(p)
  BY <1>6 DEF TypeOK, Unreleased, RecordReturned, RecordDelivered, Close
<1>7. CASE RecordBaseTerminal(p)
  <2>1. claim[p].kind \in {"RETURNED", "DELIVERED"}
    BY <1>7, CheckoutAssumption
       DEF TypeOK, RecordBaseTerminal, Row, ReturnsAreEnded, Claims, Kinds
  <2> QED BY <1>7, <2>1 DEF TypeOK, Unreleased, RecordBaseTerminal, Close
<1> QED BY <1>1, <1>2, <1>3, <1>4, <1>5, <1>6, <1>7 DEF Recovery

LEMMA TypeWorld ==
  ASSUME TypeOK, NEW p \in Purchases, Row(p), World(p)
  PROVE  TypeOK'
<1>0. /\ term[p] \in 0 .. MaxTerm /\ renewals[p] \in 0 .. MaxTerm
      /\ over[p] \in 0 .. MaxTerm + 1 /\ MaxTerm \in Nat
  BY CheckoutAssumption DEF TypeOK
<1>1. CASE IssueReceipt(p) \/ TellBuyer(p)
  BY <1>1 DEF TypeOK, IssueReceipt, TellBuyer
<1>2. CASE ChainReserves(p) \/ ChainTimesOut(p) \/ ChainDelivers(p)
  BY <1>0, <1>2 DEF TypeOK, Coin, ChainReserves, ChainTimesOut, ChainDelivers
<1>3. CASE ChainRenews(p)
  <2>1. term[p] + 1 \in 0 .. MaxTerm
    BY <1>0, <1>3 DEF ChainRenews, Row, Bounded
  <2> QED BY <1>3, <2>1 DEF TypeOK, Coin, ChainRenews
<1>4. ASSUME NEW to \in {"open", "processing", "succeeded", "canceled", "refunded"},
             PaymentMoves(p, to)
      PROVE  TypeOK'
  BY <1>4 DEF TypeOK, PaymentMoves
<1>5. CASE ChainClock(p)
  <2>1. over[p] + 1 \in 0 .. MaxTerm + 1
    BY <1>0, <1>5 DEF ChainClock
  <2> QED BY <1>5, <2>1 DEF TypeOK, ChainClock
<1>6. ASSUME NEW what \in {"quote", "term"}, ApiClock(p, what)
      PROVE  TypeOK'
  BY <1>6 DEF TypeOK, ApiClock
<1> QED BY <1>1, <1>2, <1>3, <1>4, <1>5, <1>6 DEF World

-----------------------------------------------------------------------------
(* A step of p keeps the row of p.                                         *)

LEMMA RowReservation ==
  ASSUME TypeOK, NEW p \in Purchases, Row(p), Reservation(p)
  PROVE  Row(p)'
<1> USE DEF TypeOK, Row, RowFollowsChain, HoldIsReserved, ReturnsAreEnded, Bounded,
            SlotIsFree, ClaimIsTrue, OneSide, Finished, Unused, Ended, Deposit
<1>1. CASE AdmitPurchase(p) \/ BeginReservation(p)
  BY <1>1 DEF AdmitPurchase, BeginReservation
<1>2. CASE ReservationPrepared(p) \/ ReservationSubmitted(p) \/ ReservationConfirmed(p)
  BY <1>2 DEF Inventory, ReservationPrepared, ReservationSubmitted, ReservationConfirmed
<1>3. CASE AuthorizationExpired(p)
  BY <1>3 DEF AuthorizationExpired, NoCheckoutHold, Close
<1>4. CASE ClaimTimeout(p) \/ PreserveTimeout(p)
  BY <1>4 DEF ClaimTimeout, PreserveTimeout, Timeout, NoCheckoutHold
<1>5. CASE InventoryReleased(p)
  BY <1>5 DEF InventoryReleased, Unreleased, NoCheckoutHold, Returned, Close
<1> QED BY <1>1, <1>2, <1>3, <1>4, <1>5 DEF Reservation

LEMMA RowProtection ==
  ASSUME TypeOK, NEW p \in Purchases, Row(p), Protection(p)
  PROVE  Row(p)'
<1> USE DEF TypeOK, Row, RowFollowsChain, HoldIsReserved, ReturnsAreEnded, Bounded,
            SlotIsFree, ClaimIsTrue, OneSide, Finished, Unused, Ended, Deposit
<1>1. CASE ClaimHold(p)
  BY <1>1 DEF ClaimHold, Hold
<1>2. CASE PreserveArm(p) \/ ClaimAbort(p)
  BY <1>2 DEF PreserveArm, ClaimAbort, Hold
<1>3. CASE BindMessage(p)
  BY <1>3 DEF BindMessage
<1>4. CASE RetainCandidate(p) \/ RetainPaymentStart(p)
  BY <1>4 DEF RetainCandidate, RetainPaymentStart, HeldOrUnheld
<1>5. CASE ClaimExtension(p) \/ PreserveExtension(p)
  BY <1>5 DEF ClaimExtension, HeldOrUnheld, PreserveExtension, Extension
<1> QED BY <1>1, <1>2, <1>3, <1>4, <1>5 DEF Protection

LEMMA RowRecovery ==
  ASSUME TypeOK, NEW p \in Purchases, Row(p), Recovery(p)
  PROVE  Row(p)'
<1> USE CheckoutAssumption
    DEF TypeOK, Row, RowFollowsChain, HoldIsReserved, ReturnsAreEnded, Bounded,
        SlotIsFree, ClaimIsTrue, OneSide, Finished, Unused, Ended, Deposit
<1>1. CASE PreserveAbort(p)
  BY <1>1 DEF PreserveAbort, Hold
<1>2. CASE ConfirmExtension(p)
  BY <1>2 DEF ConfirmExtension, Extension
<1>3. CASE ClaimReturn(p)
  BY <1>3 DEF ClaimReturn, Retain, Returned, Claim, ReturnKind
<1>4. CASE PreserveQuorum(p)
  BY <1>4 DEF PreserveQuorum, Claims, Kinds
<1>5. CASE RecordReturned(p)
  BY <1>5 DEF RecordReturned, Returned, Close
<1>6. CASE RecordDelivered(p)
  BY <1>6 DEF RecordDelivered, Delivered, Close
<1>7. ASSUME NEW kind \in Kinds, ClaimBaseTerminal(p, kind)
      PROVE  Row(p)'
  BY <1>7 DEF ClaimBaseTerminal, BaseOutcome, Retain, Returned, Delivered, Claim
<1>8. CASE RecordBaseTerminal(p)
  BY <1>8 DEF RecordBaseTerminal, Close, Claims, Kinds
<1> QED BY <1>1, <1>2, <1>3, <1>4, <1>5, <1>6, <1>7, <1>8 DEF Recovery

LEMMA RowWorld ==
  ASSUME TypeOK, NEW p \in Purchases, Row(p), World(p)
  PROVE  Row(p)'
<1> USE DEF TypeOK, Row, RowFollowsChain, HoldIsReserved, ReturnsAreEnded, Bounded,
            SlotIsFree, ClaimIsTrue, OneSide, Finished, Unused, Ended, Deposit
<1>1. CASE IssueReceipt(p) \/ TellBuyer(p)
  BY <1>1 DEF IssueReceipt, TellBuyer
<1>2. CASE ChainReserves(p) \/ ChainRenews(p)
  BY <1>2 DEF ChainReserves, ChainRenews, Coin
<1>3. CASE ChainTimesOut(p) \/ ChainDelivers(p)
  BY <1>3 DEF ChainTimesOut, ChainDelivers, Coin
<1>4. ASSUME NEW to \in {"open", "processing", "succeeded", "canceled", "refunded"},
             PaymentMoves(p, to)
      PROVE  Row(p)'
  BY <1>4, CheckoutAssumption DEF PaymentMoves, Moves
<1>5. CASE ChainClock(p)
  BY <1>5 DEF ChainClock
<1>6. ASSUME NEW what \in {"quote", "term"}, ApiClock(p, what)
      PROVE  Row(p)'
  BY <1>6 DEF ApiClock
<1> QED BY <1>1, <1>2, <1>3, <1>4, <1>5, <1>6 DEF World

-----------------------------------------------------------------------------
(* One purchase of a person is active.                                     *)

LEMMA OnlyAdmissionActivates ==
  ASSUME TypeOK, NEW p \in Purchases, NEW q \in Purchases,
         Reservation(p) \/ Protection(p) \/ Recovery(p) \/ World(p),
         ~AdmitPurchase(p), Active(q)'
  PROVE  Active(q)
<1> USE DEF Active, SoftQuote, TypeOK
<1>1. CASE p # q
  <2>1. Untouched(q)
    BY <1>1, ElsewhereReservation, ElsewhereProtection, ElsewhereRecovery, ElsewhereWorld
  <2> QED BY <2>1 DEF Untouched
<1>2. CASE p = q /\ Reservation(p)
  BY <1>2 DEF Reservation, BeginReservation, Inventory, ReservationPrepared,
              ReservationSubmitted, ReservationConfirmed, Close, AuthorizationExpired,
              Timeout, ClaimTimeout, PreserveTimeout, InventoryReleased
<1>3. CASE p = q /\ Protection(p)
  BY <1>3 DEF Protection, Hold, ClaimHold, PreserveArm, ClaimAbort, BindMessage,
              RetainCandidate, RetainPaymentStart, HeldOrUnheld, Extension, ClaimExtension,
              PreserveExtension
<1>4. CASE p = q /\ Recovery(p)
  <2>1. adm'[p] = adm[p] \/ adm'[p] = "CLOSED"
    BY <1>4 DEF Recovery, PreserveAbort, Hold, ConfirmExtension, Extension, ClaimReturn,
                Retain, PreserveQuorum, RecordReturned, RecordDelivered, Close,
                ClaimBaseTerminal, RecordBaseTerminal
  <2>2. late' = late
    BY <1>4 DEF Recovery, PreserveAbort, Hold, ConfirmExtension, Extension, ClaimReturn,
                Retain, PreserveQuorum, RecordReturned, RecordDelivered, Close,
                ClaimBaseTerminal, RecordBaseTerminal
  <2> QED BY <1>4, <2>1, <2>2
<1>5. CASE p = q /\ World(p)
  BY <1>5 DEF World, IssueReceipt, TellBuyer, Coin, ChainReserves, ChainRenews,
              ChainTimesOut, ChainDelivers, PaymentMoves, ChainClock, ApiClock
<1> QED BY <1>1, <1>2, <1>3, <1>4, <1>5

LEMMA OneActiveStep ==
  ASSUME TypeOK, OneActive, NEW p \in Purchases,
         Reservation(p) \/ Protection(p) \/ Recovery(p) \/ World(p)
  PROVE  OneActive'
<1>1. CASE AdmitPurchase(p)
  <2> SUFFICES ASSUME NEW a \in Purchases, NEW b \in Purchases, a # b,
                      <<a, b>> \in SamePerson, Active(a)', Active(b)'
               PROVE  FALSE
    BY DEF OneActive
  <2>1. \A q \in Purchases : q # p /\ Active(q)' => Active(q)
    BY <1>1 DEF AdmitPurchase, Active, SoftQuote, TypeOK
  <2>2. \A q \in Purchases : q # p /\ <<p, q>> \in SamePerson => ~Active(q)
    BY <1>1 DEF AdmitPurchase, Others
  <2>3. <<b, a>> \in SamePerson
    BY CheckoutAssumption
  <2> QED BY <2>1, <2>2, <2>3 DEF OneActive
<1>2. CASE ~AdmitPurchase(p)
  BY <1>2, OnlyAdmissionActivates DEF OneActive
<1> QED BY <1>1, <1>2

-----------------------------------------------------------------------------
LEMMA InitInv == Init => IInv
<1> SUFFICES ASSUME Init PROVE IInv OBVIOUS
<1>1. TypeOK
  BY CheckoutAssumption DEF Init, All, TypeOK, Unreleased
<1>2. \A p \in Purchases : Row(p)
  BY DEF Init, All, Row, RowFollowsChain, HoldIsReserved, ReturnsAreEnded, Bounded,
         SlotIsFree, ClaimIsTrue, OneSide
<1>3. OneActive
  BY DEF Init, All, OneActive, Active, SoftQuote
<1> QED BY <1>1, <1>2, <1>3 DEF IInv

LEMMA StepInv == IInv /\ [Next]_vars => IInv'
<1>1. ASSUME IInv, NEW p \in Purchases,
             Reservation(p) \/ Protection(p) \/ Recovery(p) \/ World(p)
      PROVE  IInv'
  <2>1. TypeOK /\ Row(p)
    BY <1>1 DEF IInv
  <2>2. TypeOK'
    BY <1>1, <2>1, TypeReservation, TypeProtection, TypeRecovery, TypeWorld
  <2>3. Row(p)'
    BY <1>1, <2>1, RowReservation, RowProtection, RowRecovery, RowWorld
  <2>4. ASSUME NEW q \in Purchases, q # p PROVE Row(q)'
    <3>1. Untouched(q)
      BY <1>1, <2>1, <2>4, ElsewhereReservation, ElsewhereProtection, ElsewhereRecovery,
         ElsewhereWorld
    <3>2. Row(q)
      BY <1>1 DEF IInv
    <3> QED BY <3>1, <3>2, UntouchedRow
  <2>5. OneActive'
    BY <1>1, OneActiveStep DEF IInv
  <2> QED BY <2>2, <2>3, <2>4, <2>5 DEF IInv
<1>2. ASSUME IInv, UNCHANGED vars
      PROVE  IInv'
  <2>1. TypeOK'
    BY <1>2 DEF IInv, TypeOK
  <2>2. ASSUME NEW q \in Purchases PROVE Row(q)'
    <3>1. Untouched(q)
      BY <1>2 DEF Untouched
    <3>2. Row(q)
      BY <1>2 DEF IInv
    <3> QED BY <3>1, <3>2, UntouchedRow
  <2>3. OneActive'
    BY <1>2 DEF IInv, OneActive, Active, SoftQuote
  <2> QED BY <2>1, <2>2, <2>3 DEF IInv
<1> QED BY <1>1, <1>2 DEF Next

\* The invariant holds in every reachable state, for any purchases, persons
\* and number of renewals.
THEOREM InvariantHolds == Spec => []IInv
BY InitInv, StepInv, PTL DEF Spec

\* Every row keeps the states its table allows.
THEOREM TypeSafety == Spec => []TypeOK
<1>1. IInv => TypeOK BY DEF IInv
<1> QED BY <1>1, InvariantHolds, PTL

\* A person's slot is free only after the checkout is over on the chain and at
\* the payment provider.
THEOREM SlotFreedTheorem == Spec => []SlotFreedWhenOver
<1>1. IInv => SlotFreedWhenOver
  BY DEF IInv, Row, SlotIsFree, SlotFreedWhenOver
<1> QED BY <1>1, InvariantHolds, PTL

\* A person has at most one deed reserved on the chain.  A reserved coin has a
\* retained bundle, so its admission is SIGNING, or CLOSED; closed it is not,
\* as a freed slot is finished; and two can not be SIGNING.
THEOREM OneDeedTheorem == Spec => []OneDeedEach
<1>1. ASSUME IInv, NEW p \in Purchases, coin[p] = "reserved"
      PROVE  adm[p] = "SIGNING"
  <2>1. Row(p) BY <1>1 DEF IInv
  <2> QED BY <1>1, <2>1
          DEF Row, RowFollowsChain, SlotIsFree, Finished, Unused
<1>2. IInv => OneDeedEach
  BY <1>1 DEF IInv, OneActive, Active, OneDeedEach
<1> QED BY <1>2, InvariantHolds, PTL

\* A retained terminal claim names the coin that was last, its true end, and
\* the deposit that is bound.
THEOREM ClaimsTheorem == Spec => []ClaimsAreTrue
<1>1. IInv => ClaimsAreTrue
  BY DEF IInv, Row, ClaimIsTrue, ClaimsAreTrue
<1> QED BY <1>1, InvariantHolds, PTL

\* The service never times out a reservation for which it holds a payment.
THEOREM TimeoutTheorem == Spec => []TimeoutExcludesHold
<1>1. IInv => TimeoutExcludesHold
  BY DEF IInv, Row, OneSide, TimeoutExcludesHold
<1> QED BY <1>1, InvariantHolds, PTL
=============================================================================
