------------------------- MODULE InventoryAuthority -------------------------
(***************************************************************************)
(* What keeps one SmartDeed sold to one buyer: three validators, each with *)
(* its own sign-once ledger (solslot_api/validator_ledger.py and its       *)
(* mixins), whose signatures in pairs reserve the deed on Chia, hold it    *)
(* before money is asked for, renew it while the money settles, deliver    *)
(* it, and give it back when the money has ended.                          *)
(*                                                                         *)
(* A validator first collects evidence from its own nodes, awaiting each   *)
(* answer, and then writes its ledger in one BEGIN IMMEDIATE transaction   *)
(* under one lock.  An action Sign... is that transaction.  Its evidence   *)
(* may be stale by then: it is a condition on the HISTORY of the chain and *)
(* of the provider (a coin that was created, a payment that was seen to    *)
(* succeed), never on their present state, so that every delay between     *)
(* reading and writing, and every number of requests in flight, is there.  *)
(* Only what the transaction itself reads (its tables, its clock) is       *)
(* current.  Requests may come from anybody, in any order, any number of   *)
(* times.                                                                  *)
(*                                                                         *)
(* A definition named Operator_Variant is Operator with a mistake in it;   *)
(* nothing uses it.                                                        *)
(***************************************************************************)
EXTENDS Sequences, Integers, FiniteSets

CONSTANTS
  Signers,    \* the validators of the signed roster
  Quorums,    \* sets of signers whose signatures together make a spend valid
  Purchases,  \* the buyers of this deed
  Rail,       \* Rail[p]: "stripe", "base" or "offer"
  None,
  MaxCoins,   \* bound: coins of the deed's lineage
  MaxTerm,    \* bound: renewals of one reservation
  MaxLag      \* bound: coins by which signed evidence may be out of date

ASSUME QuorumAssumption ==
  /\ Quorums \subseteq SUBSET Signers
  /\ \A Q, R \in Quorums : Q \cap R # {}
ASSUME PurchaseAssumption ==
  /\ Rail \in [Purchases -> {"stripe", "base", "offer"}]
  /\ None \notin Purchases
ASSUME BoundAssumption == MaxCoins \in Nat \ {0} /\ MaxTerm \in Nat /\ MaxLag \in Nat

VARIABLES
  lineage,    \* the coins of the deed, oldest first; a coin is its index
  sold,       \* the buyer to whom the last coin was delivered, or None
  late,       \* <<p, k>>: the k-th term of p's reservation is over
  pay,        \* pay[p]: the buyer's payment at the provider
  armed,      \* buyers whom the API has told, on a quorum's receipt, to pay
  active,     \* active[s][c]: inventory_reservation_active
  history,    \* history[s]: inventory_reservation_history, <<p, c>> in order
  hold,       \* hold[s][p]: the payment hold, tombstone or terminal of p
  extension,  \* extension[s][c]: inventory_extension_signatures
  delivery    \* delivery[s][c]: the paid delivery signed for coin c

chain  == <<lineage, sold, late>>
ledger == <<active, history, hold, extension, delivery>>
vars   == <<chain, pay, armed, ledger>>

Coins    == 1 .. MaxCoins
Terms    == 0 .. MaxTerm
Nobody   == [c \in Coins |-> None]
Payments == {"open", "processing", "succeeded", "refunded", "canceled"}
Holds    == {"none", "ARMED", "RELEASED", "ABORTED",           \* Stripe
             "HELD", "STARTED", "OBSERVED", "TERMINAL"}        \* Base

\* A coin of the deed.  seen is what a provider query made after the coin
\* existed could have answered so far.
Coin(p, k, seen) == [buyer |-> p, term |-> k, seen |-> seen]
CoinType == [buyer : Purchases \cup {None}, term : Terms, seen : SUBSET Payments]

Known   == 1 .. Len(lineage)
Current == lineage[Len(lineage)]
Recent(c)      == Len(lineage) - c <= MaxLag
OnSale(c)      == c \in Known /\ lineage[c].buyer = None
Reserved(p, c) == c \in Known /\ lineage[c].buyer = p
TimedOut(p, c) == Reserved(p, c) /\ OnSale(c + 1)

Held(h)    == h \in {"ARMED", "HELD", "STARTED", "OBSERVED"}
HeldBy(p)  == {s \in Signers : Held(hold[s][p])}
Reservers(p, c) ==
  {s \in Signers : \E i \in 1 .. Len(history[s]) : history[s][i] = <<p, c>>}
Renewers(p, c)   == {s \in Signers : extension[s][c] = p}
Deliverers(p, c) == {s \in Signers : delivery[s][c] = p}
IsQuorum(S) == \E Q \in Quorums : Q \subseteq S

\* The buyer can no longer pay, or has the money back.
Ended(p) ==
  \/ pay[p] \in {"canceled", "refunded"}
  \/ Rail[p] = "base" /\ pay[p] = "open" /\ <<p, 0>> \in late

-----------------------------------------------------------------------------
(* The refusals of the ledger.                                             *)

Signed(s, p, c) ==
  \E d \in Coins : \/ extension[s][d] = p \/ delivery[s][d] = p
                   \/ d = c /\ (extension[s][d] # None \/ delivery[s][d] # None)

NoPaymentAuthorization_Late(s, p, c) == TRUE
NoPaymentAuthorization(s, p, c) == ~Signed(s, p, c)

\* "expiry is not payment release authority"
NoPaymentHold_Expiring(s) ==
  \A p \in Purchases : Held(hold[s][p]) => <<p, 0>> \in late
NoPaymentHold(s) == \A p \in Purchases : ~Held(hold[s][p])

Superseded(s, p) ==
  history[s] # <<>> /\ history[s][Len(history[s])][1] # p

PaymentHoldIdentity(s, p) ==
  CASE Rail[p] = "stripe" -> hold[s][p] \in {"none", "ARMED"}
    [] Rail[p] = "base"   -> hold[s][p] \in {"none", "OBSERVED"}
    [] OTHER              -> TRUE

NoRenewalOutstanding(s) ==
  \A c \in Coins : extension[s][c] # None =>
    hold[s][extension[s][c]] \in {"RELEASED", "TERMINAL"}

NoExtensionSignature(s, c) == extension[s][c] = None

NoTerminalSignature_Dropped(s, c) == TRUE
NoTerminalSignature(s, c) == delivery[s][c] = None

\* The claim of an unspent authorization whose time is over gives way.
Retirable_Unproven(s, c) == TRUE
Retirable(s, c) ==
  active[s][c] = None \/ (active[s][c] # None /\ <<active[s][c], 0>> \in late)

Reserves(s, p) == \E i \in 1 .. Len(history[s]) : history[s][i][1] = p

-----------------------------------------------------------------------------
(* What a validator proves to itself before it signs.                      *)

ReservationEvidence(p, c) == Recent(c) /\ OnSale(c) /\ <<p, 0>> \notin late

\* The provider was asked before the chain was read, while nothing was paid.
HoldEvidence(p, c) ==
  Rail[p] # "offer" /\ Recent(c) /\ Reserved(p, c) /\ lineage[c].term = 0

PaymentEnded(p) == pay[p] \in {"canceled", "refunded"}

ReturnEvidence(p, c) == PaymentEnded(p) /\ TimedOut(p, c)

DepositEvidence(p) == pay[p] \in {"succeeded", "refunded"}

UnfundedTimeout_Assumed(p) == <<p, 0>> \in late
UnfundedTimeout(p) == pay[p] = "open" /\ <<p, 0>> \in late

TerminalEvidence(p, c) ==
  \/ (UnfundedTimeout(p) \/ pay[p] = "refunded") /\ TimedOut(p, c)
  \/ pay[p] = "succeeded" /\ sold = p /\ Reserved(p, c)

ProviderHold(p, c) == lineage[c].seen \cap {"processing", "succeeded"} # {}

RenewalEvidence(p, c) ==
  /\ Rail[p] # "offer" /\ Recent(c) /\ Reserved(p, c)
  /\ ProviderHold(p, c) /\ <<p, lineage[c].term>> \notin late

OfferEvidence(p, c) == Recent(c) /\ Reserved(p, c) /\ <<p, 0>> \notin late

SettlementEvidence(p, c) ==
  Recent(c) /\ Reserved(p, c) /\ "succeeded" \in lineage[c].seen

-----------------------------------------------------------------------------
(* The transactions of one validator.                                      *)

\* A recovered signature changes nothing: it is a stutter.
SignReservation(s, p, c) ==
  /\ ReservationEvidence(p, c)
  /\ hold[s][p] # "TERMINAL"
  /\ NoPaymentHold(s)
  /\ NoRenewalOutstanding(s)
  /\ ~Reserves(s, p)
  /\ Retirable(s, c)
  /\ history' = [history EXCEPT ![s] = Append(@, <<p, c>>)]
  /\ active'  = [active  EXCEPT ![s][c] = p]
  /\ UNCHANGED <<chain, pay, armed, hold, extension, delivery>>

Hold(s, p, h) ==
  /\ hold' = [hold EXCEPT ![s][p] = h]
  /\ UNCHANGED <<chain, pay, armed, active, history, extension, delivery>>

SignHold(s, p, c) ==
  /\ HoldEvidence(p, c)
  /\ hold[s][p] = "none"
  /\ NoPaymentHold(s)
  /\ <<p, 0>> \notin late
  /\ ~Superseded(s, p)
  /\ NoPaymentAuthorization(s, p, c)
  /\ Hold(s, p, IF Rail[p] = "base" THEN "HELD" ELSE "ARMED")

SignRelease_Unsettled(s, p, c) ==
  /\ hold[s][p] = "ARMED"
  /\ TimedOut(p, c)
  /\ Hold(s, p, "RELEASED")
SignRelease(s, p, c) ==
  /\ hold[s][p] = "ARMED"
  /\ ReturnEvidence(p, c)
  /\ Hold(s, p, "RELEASED")

SignAbort(s, p, c) ==
  /\ Rail[p] = "stripe" /\ hold[s][p] \in {"none", "ARMED"}
  /\ pay[p] = "canceled" /\ ReturnEvidence(p, c) /\ lineage[c].term = 0
  /\ NoPaymentAuthorization(s, p, c)
  /\ Hold(s, p, "ABORTED")

\* Two transactions: the identity of the deposit, then the observation.
RetainPaymentStart(s, p) ==
  /\ hold[s][p] = "HELD"
  /\ DepositEvidence(p)
  /\ Hold(s, p, "STARTED")

ObservePayment(s, p) ==
  /\ hold[s][p] = "STARTED"
  /\ Hold(s, p, "OBSERVED")

Funded(s, p) == hold[s][p] \in {"STARTED", "OBSERVED"}

SignBaseTerminal(s, p, c) ==
  /\ Rail[p] = "base" /\ hold[s][p] # "TERMINAL"
  /\ TerminalEvidence(p, c)
  /\ UnfundedTimeout(p) => ~Funded(s, p)
  /\ Hold(s, p, "TERMINAL")

SignExtension(s, p, c) ==
  /\ RenewalEvidence(p, c)
  /\ IF Rail[p] = "base" THEN hold[s][p] = "OBSERVED" ELSE PaymentHoldIdentity(s, p)
  /\ NoExtensionSignature(s, c)
  /\ NoTerminalSignature(s, c)
  /\ extension' = [extension EXCEPT ![s][c] = p]
  /\ UNCHANGED <<chain, pay, armed, active, history, hold, delivery>>

SignDelivery(s, p, c) ==
  /\ IF Rail[p] = "offer" THEN OfferEvidence(p, c) ELSE SettlementEvidence(p, c)
  /\ PaymentHoldIdentity(s, p)
  /\ NoExtensionSignature(s, c)
  /\ NoTerminalSignature(s, c)
  /\ \A d \in Coins : delivery[s][d] # p
  /\ delivery' = [delivery EXCEPT ![s][c] = p]
  /\ UNCHANGED <<chain, pay, armed, active, history, hold, extension>>

-----------------------------------------------------------------------------
(* The API, with signatures of a quorum in hand.                           *)

\* It collects signatures of two of three, then tells the buyer to pay.
Arm(p) ==
  /\ p \notin armed /\ IsQuorum(HeldBy(p))
  /\ armed' = armed \cup {p}
  /\ UNCHANGED <<chain, pay, ledger>>

Spend(coin) ==
  /\ Len(lineage) < MaxCoins
  /\ lineage' = Append(lineage, coin)
  /\ UNCHANGED <<sold, late, pay, armed, ledger>>

Seen(p) == {pay[p]} \cap {"processing", "succeeded"}

Reserve(p) ==
  /\ sold = None /\ Current.buyer = None /\ <<p, 0>> \notin late
  /\ IsQuorum(Reservers(p, Len(lineage)))
  /\ Spend(Coin(p, 0, Seen(p)))

Renew(p) ==
  /\ sold = None /\ Current.buyer = p /\ Current.term < MaxTerm
  /\ IsQuorum(Renewers(p, Len(lineage)))
  /\ Spend(Coin(p, Current.term + 1, Seen(p)))

Deliver(p) ==
  /\ sold = None /\ Current.buyer = p
  /\ IsQuorum(Deliverers(p, Len(lineage)))
  /\ sold' = p
  /\ UNCHANGED <<lineage, late, pay, armed, ledger>>

\* Anybody may spend a reserved coin whose term is over.
Timeout(p) ==
  /\ sold = None /\ Current.buyer = p /\ <<p, Current.term>> \in late
  /\ Spend(Coin(None, 0, {}))

-----------------------------------------------------------------------------
(* The clock and the payment provider.                                     *)

Expire(p, k) ==
  /\ <<p, k>> \notin late
  /\ \/ k = 0
     \/ /\ <<p, k - 1>> \in late
        /\ \E c \in Known : Reserved(p, c) /\ lineage[c].term = k
  /\ late' = late \cup {<<p, k>>}
  /\ UNCHANGED <<lineage, sold, pay, armed, ledger>>

Moves(p) ==
  IF Rail[p] = "stripe"
  THEN {<<"open", "processing">>, <<"processing", "succeeded">>,
        <<"processing", "open">>, <<"succeeded", "refunded">>,
        <<"open", "canceled">>}
  ELSE {<<"open", "succeeded">>, <<"succeeded", "refunded">>}

\* The escrow on Base refuses a deposit whose quote is over.
PaymentMoves(p, to) ==
  /\ Rail[p] # "offer" /\ <<pay[p], to>> \in Moves(p)
  /\ Rail[p] = "base" /\ to = "succeeded" => <<p, 0>> \notin late
  /\ pay' = [pay EXCEPT ![p] = to]
  /\ lineage' = [c \in Known |->
       IF lineage[c].buyer = p /\ to \in {"processing", "succeeded"}
       THEN [lineage[c] EXCEPT !.seen = @ \cup {to}] ELSE lineage[c]]
  /\ UNCHANGED <<sold, late, armed, ledger>>

-----------------------------------------------------------------------------
Init ==
  /\ lineage = <<Coin(None, 0, {})>> /\ sold = None /\ late = {}
  /\ pay = [p \in Purchases |-> "open"] /\ armed = {}
  /\ active    = [s \in Signers |-> Nobody]
  /\ history   = [s \in Signers |-> <<>>]
  /\ hold      = [s \in Signers |-> [p \in Purchases |-> "none"]]
  /\ extension = [s \in Signers |-> Nobody]
  /\ delivery  = [s \in Signers |-> Nobody]

Sign(s, p) ==
  \/ RetainPaymentStart(s, p) \/ ObservePayment(s, p)
  \/ \E c \in Coins : \/ SignReservation(s, p, c) \/ SignHold(s, p, c)
                      \/ SignRelease(s, p, c) \/ SignAbort(s, p, c)
                      \/ SignBaseTerminal(s, p, c)
                      \/ SignExtension(s, p, c) \/ SignDelivery(s, p, c)

Next ==
  \E p \in Purchases :
    \/ \E s \in Signers : Sign(s, p)
    \/ Arm(p) \/ Reserve(p) \/ Renew(p) \/ Deliver(p) \/ Timeout(p)
    \/ \E k \in Terms : Expire(p, k)
    \/ \E to \in Payments : PaymentMoves(p, to)

Spec == Init /\ [][Next]_vars

-----------------------------------------------------------------------------
TypeOK ==
  /\ lineage \in Seq(CoinType) /\ Len(lineage) \in Coins
  /\ sold \in Purchases \cup {None} /\ late \subseteq Purchases \X Terms
  /\ pay \in [Purchases -> Payments] /\ armed \subseteq Purchases
  /\ active    \in [Signers -> [Coins -> Purchases \cup {None}]]
  /\ history   \in [Signers -> Seq(Purchases \X Coins)]
  /\ hold      \in [Signers -> [Purchases -> Holds]]
  /\ extension \in [Signers -> [Coins -> Purchases \cup {None}]]
  /\ delivery  \in [Signers -> [Coins -> Purchases \cup {None}]]

\* Two buyers are never both invited to pay for the deed: when a second one
\* is, the first can no longer pay or has the money back.
OneBuyerMayPay ==
  \A p, q \in armed : p # q => Ended(p) \/ Ended(q)

\* A buyer who was invited to pay, and whose money is with the seller or on
\* its way, never sees the deed reserved for or delivered to another buyer,
\* even when every renewal came too late and the reservation timed out.
PaidBuyerKeepsDeed ==
  \A p \in armed : pay[p] \in {"processing", "succeeded"} =>
    Current.buyer \in {p, None} /\ sold \in {p, None}

\* A reserved coin never has signatures enough both to be renewed and to be
\* delivered: of a crash between the two, one outcome remains.
OneFuture ==
  \A p, q \in Purchases, c \in Coins :
    ~(IsQuorum(Renewers(p, c)) /\ IsQuorum(Deliverers(q, c)))

\* The coin on sale never has signatures enough for two buyers in time.
OneLiveReservation ==
  \A p, q \in Purchases : p # q /\ Current.buyer = None =>
    \/ <<p, 0>> \in late \/ <<q, 0>> \in late
    \/ ~IsQuorum(Reservers(p, Len(lineage)))
    \/ ~IsQuorum(Reservers(q, Len(lineage)))

\* A checkout given up by a quorum can never be renewed or delivered by one,
\* whatever was verified before and signed late.
AbortIsFinal ==
  \A p \in Purchases :
    IsQuorum({s \in Signers : hold[s][p] = "ABORTED"}) =>
      \A c \in Coins : ~IsQuorum(Renewers(p, c)) /\ ~IsQuorum(Deliverers(p, c))

\* A validator closes a Base purchase for ever only when its money is no
\* longer with the seller's escrow, or the deed is the buyer's: a deposit can
\* not race the proof that there was none.
ClosedIsSettled ==
  \A s \in Signers, p \in Purchases :
    hold[s][p] = "TERMINAL" => Ended(p) \/ sold = p
=============================================================================
