---------------------- MODULE InventoryAuthority_proofs ----------------------
(***************************************************************************)
(* Proofs about InventoryAuthority, for any set of validators, any buyers  *)
(* and any quorums of which every two meet.                                *)
(***************************************************************************)
EXTENDS InventoryAuthority, SequenceTheorems, TLAPS

-----------------------------------------------------------------------------
(* The inductive invariant.                                                *)

\* Which kind of row a rail writes.
HoldRail ==
  \A s \in Signers, p \in Purchases :
    /\ hold[s][p] \in {"ARMED", "RELEASED", "ABORTED"} => Rail[p] = "stripe"
    /\ hold[s][p] \in {"HELD", "STARTED", "OBSERVED", "TERMINAL"} => Rail[p] = "base"

\* The first term of a reservation ends first.
FirstTermFirst == \A p \in Purchases, k \in Terms : <<p, k>> \in late => <<p, 0>> \in late

\* A reservation in time stays the active one of its coin.
LiveIsActive ==
  \A s \in Signers : \A i \in 1 .. Len(history[s]) :
    <<history[s][i][1], 0>> \in late
      \/ active[s][history[s][i][2]] = history[s][i][1]

\* Reservations are signed for coins that were on sale.
ReservedWasOnSale ==
  \A s \in Signers : \A i \in 1 .. Len(history[s]) : OnSale(history[s][i][2])

\* Until its first term is over a reserved deed stays with its buyer.
InTimeStays ==
  \A p \in Purchases, c \in Known :
    lineage[c].buyer = p /\ <<p, 0>> \notin late =>
      (\A d \in c .. Len(lineage) : lineage[d].buyer = p) /\ sold \in {p, None}

\* A validator that holds the deed for p has signed for no other buyer since.
HeldIsLast ==
  \A s \in Signers, p \in Purchases : Held(hold[s][p]) =>
    \E c \in Known : \A i \in 1 .. Len(history[s]) :
      history[s][i][1] = p \/ history[s][i][2] < c

OneHeld ==
  \A s \in Signers, p, q \in Purchases :
    Held(hold[s][p]) /\ Held(hold[s][q]) => p = q

QuorumExcludes ==
  \A p \in Purchases : IsQuorum(HeldBy(p)) =>
    Current.buyer \in {p, None} /\ sold \in {p, None}

ArmedIsHeld ==
  \A p \in armed : Ended(p) \/ IsQuorum(HeldBy(p)) \/ sold = p

SoldIsCurrent == sold # None => Current.buyer = sold

OneSide ==
  \A s \in Signers, c \in Coins : extension[s][c] = None \/ delivery[s][c] = None

AbortedIsUnsigned ==
  \A s \in Signers, p \in Purchases : hold[s][p] = "ABORTED" =>
    \A c \in Coins : extension[s][c] # p /\ delivery[s][c] # p

IInv ==
  /\ ClosedIsSettled
  /\ TypeOK /\ HoldRail /\ FirstTermFirst /\ LiveIsActive /\ ReservedWasOnSale
  /\ InTimeStays /\ HeldIsLast /\ OneHeld /\ QuorumExcludes /\ ArmedIsHeld
  /\ SoldIsCurrent /\ OneSide /\ AbortedIsUnsigned

-----------------------------------------------------------------------------
(* The shape of a step.                                                    *)

\* What a transaction of one validator leaves alone.
LEMMA SignFrame ==
  ASSUME NEW s \in Signers, NEW p \in Purchases, Sign(s, p)
  PROVE  UNCHANGED <<chain, pay, armed>>
BY DEF Sign, SignReservation, Hold, SignHold, SignRelease, SignAbort,
   RetainPaymentStart, ObservePayment, SignBaseTerminal, SignExtension, SignDelivery

\* What no validator's transaction does leaves the ledgers alone.
LEMMA WorldFrame ==
  ASSUME NEW p \in Purchases,
         \/ Arm(p) \/ Reserve(p) \/ Renew(p) \/ Deliver(p) \/ Timeout(p)
         \/ \E k \in Terms : Expire(p, k)
         \/ \E to \in Payments : PaymentMoves(p, to)
  PROVE  UNCHANGED ledger
BY DEF Arm, Reserve, Renew, Deliver, Timeout, Expire, PaymentMoves, Spend

\* TypeOK holds at first.
LEMMA TypeInit == Init => TypeOK
<1> SUFFICES ASSUME Init PROVE TypeOK
    OBVIOUS
<1>1. lineage \in Seq(CoinType) /\ Len(lineage) \in Coins
  BY BoundAssumption DEF Init, Coin, CoinType, Terms, Coins
<1>2. sold \in Purchases \cup {None} /\ late \subseteq Purchases \X Terms
      /\ pay \in [Purchases -> Payments] /\ armed \subseteq Purchases
  BY DEF Init, Payments
<1>3. Nobody \in [Coins -> Purchases \cup {None}]
  BY DEF Nobody
<1>4. history \in [Signers -> Seq(Purchases \X Coins)]
  BY DEF Init
<1>5. hold \in [Signers -> [Purchases -> Holds]]
  BY DEF Init, Holds
<1> QED
  BY <1>1, <1>2, <1>3, <1>4, <1>5 DEF TypeOK, Init

LEMMA TypeSign ==
  ASSUME TypeOK, NEW s \in Signers, NEW p \in Purchases, Sign(s, p)
  PROVE  TypeOK'
<1>1. UNCHANGED <<chain, pay, armed>>
  BY SignFrame
<1>2. CASE \E h \in Holds : Hold(s, p, h)
  <2>1. hold' \in [Signers -> [Purchases -> Holds]]
    BY <1>2 DEF Hold, TypeOK
  <2> QED
    BY <1>1, <1>2, <2>1 DEF Hold, TypeOK, chain
<1>3. CASE \E c \in Coins : SignReservation(s, p, c)
  <2> PICK c \in Coins : SignReservation(s, p, c)
    BY <1>3
  <2>1. Append(history[s], <<p, c>>) \in Seq(Purchases \X Coins)
    BY DEF TypeOK
  <2>2. history' \in [Signers -> Seq(Purchases \X Coins)]
    BY <2>1 DEF SignReservation, TypeOK
  <2>3. active' \in [Signers -> [Coins -> Purchases \cup {None}]]
    BY DEF SignReservation, TypeOK
  <2> QED
    BY <1>1, <2>2, <2>3 DEF SignReservation, TypeOK, chain
<1>4. CASE \E c \in Coins : SignExtension(s, p, c)
  BY <1>1, <1>4 DEF SignExtension, TypeOK, chain
<1>5. CASE \E c \in Coins : SignDelivery(s, p, c)
  BY <1>1, <1>5 DEF SignDelivery, TypeOK, chain
<1> QED
  BY <1>2, <1>3, <1>4, <1>5 DEF Sign, SignHold, SignRelease, SignAbort,
     RetainPaymentStart, ObservePayment, SignBaseTerminal, Holds

LEMMA SpendType ==
  ASSUME TypeOK, NEW coin \in CoinType, Spend(coin)
  PROVE  /\ TypeOK'
         /\ Len(lineage') = Len(lineage) + 1
         /\ lineage'[Len(lineage) + 1] = coin
         /\ \A c \in Known : lineage'[c] = lineage[c]
<1>1. lineage' \in Seq(CoinType) /\ Len(lineage') = Len(lineage) + 1
      /\ lineage'[Len(lineage) + 1] = coin
      /\ \A c \in Known : lineage'[c] = lineage[c]
  BY DEF TypeOK, Spend, Known
<1>2. Len(lineage') \in Coins
  BY <1>1, BoundAssumption DEF TypeOK, Spend, Coins
<1> QED
  BY <1>1, <1>2 DEF TypeOK, Spend, ledger

LEMMA SeenType ==
  ASSUME TypeOK, NEW p \in Purchases
  PROVE  Seen(p) \subseteq Payments
BY DEF TypeOK, Seen

\* What a payment's move does to the lineage.
LEMMA PaymentMovesLineage ==
  ASSUME TypeOK, NEW p \in Purchases, NEW to \in Payments, PaymentMoves(p, to)
  PROVE  /\ TypeOK'
         /\ Len(lineage') = Len(lineage)
         /\ \A c \in Known : /\ lineage'[c].buyer = lineage[c].buyer
                             /\ lineage'[c].term = lineage[c].term
<1> DEFINE f(c) == IF lineage[c].buyer = p /\ to \in {"processing", "succeeded"}
                   THEN [lineage[c] EXCEPT !.seen = @ \cup {to}] ELSE lineage[c]
<1>1. lineage' = [c \in Known |-> f(c)]
  BY DEF PaymentMoves
<1>2. \A c \in Known : lineage[c] \in CoinType
  BY DEF TypeOK, Known
<1>3. \A c \in Known : f(c) \in CoinType /\ f(c).buyer = lineage[c].buyer
                      /\ f(c).term = lineage[c].term
  BY <1>2 DEF CoinType
<1> HIDE DEF f
<1>4. Len(lineage) \in Nat
  BY DEF TypeOK
<1>5. lineage' \in Seq(CoinType) /\ Len(lineage') = Len(lineage)
  BY <1>1, <1>3, <1>4, IsASeq, LenProperties DEF Known
<1>6. pay' \in [Purchases -> Payments]
  BY DEF PaymentMoves, TypeOK
<1> QED
  BY <1>1, <1>3, <1>5, <1>6 DEF TypeOK, PaymentMoves, ledger

\* TypeOK is preserved, terms never restart and coins keep their buyers.
LEMMA StepKeeps ==
  ASSUME TypeOK, [Next]_vars
  PROVE  /\ TypeOK'
         /\ late \subseteq late'
         /\ Len(lineage) <= Len(lineage')
         /\ \A c \in Known : lineage'[c].buyer = lineage[c].buyer
<1>1. CASE UNCHANGED vars
  BY <1>1 DEF vars, chain, ledger, TypeOK, Known
<1>2. CASE \E p \in Purchases, s \in Signers : Sign(s, p)
  BY <1>2, SignFrame, TypeSign DEF chain, TypeOK
<1>3. ASSUME NEW p \in Purchases, Arm(p)
      PROVE  /\ TypeOK' /\ UNCHANGED chain
  BY <1>3 DEF Arm, TypeOK, chain, ledger
<1>4. ASSUME NEW p \in Purchases, Reserve(p) \/ Renew(p) \/ Timeout(p)
      PROVE  /\ TypeOK' /\ UNCHANGED late /\ Len(lineage') = Len(lineage) + 1
             /\ \A c \in Known : lineage'[c] = lineage[c]
  <2>1. Current \in CoinType
    BY DEF TypeOK, Current, Coins
  <2>2. PICK coin \in CoinType : Spend(coin)
    BY <1>4, <2>1, SeenType, BoundAssumption
       DEF Reserve, Renew, Timeout, Coin, CoinType, Terms
  <2> QED
    BY <2>2, SpendType DEF Spend
<1>5. ASSUME NEW p \in Purchases, Deliver(p)
      PROVE  /\ TypeOK' /\ UNCHANGED <<lineage, late>>
  BY <1>5 DEF Deliver, TypeOK, ledger
<1>6. ASSUME NEW p \in Purchases, NEW k \in Terms, Expire(p, k)
      PROVE  /\ TypeOK' /\ UNCHANGED lineage /\ late \subseteq late'
  BY <1>6 DEF Expire, TypeOK, ledger
<1>7. ASSUME NEW p \in Purchases, NEW to \in Payments, PaymentMoves(p, to)
      PROVE  /\ TypeOK' /\ UNCHANGED late /\ Len(lineage') = Len(lineage)
             /\ \A c \in Known : lineage'[c].buyer = lineage[c].buyer
  BY <1>7, PaymentMovesLineage DEF PaymentMoves
<1>8. Len(lineage) \in Nat
  BY DEF TypeOK
<1> QED
  BY <1>1, <1>2, <1>3, <1>4, <1>5, <1>6, <1>7, <1>8 DEF Next, chain

-----------------------------------------------------------------------------
(* Each part of the invariant.                                             *)

LEMMA HoldRailStep == TypeOK /\ HoldRail /\ [Next]_vars => HoldRail'
<1> SUFFICES ASSUME TypeOK, HoldRail, [Next]_vars PROVE HoldRail'
    OBVIOUS
<1>1. ASSUME NEW s \in Signers, NEW p \in Purchases, NEW h \in Holds, Hold(s, p, h),
             \/ h \in {"ARMED", "RELEASED", "ABORTED"} /\ Rail[p] = "stripe"
             \/ h \in {"HELD", "STARTED", "OBSERVED", "TERMINAL"} /\ Rail[p] = "base"
      PROVE  HoldRail'
  BY <1>1 DEF HoldRail, Hold, TypeOK
<1>2. ASSUME NEW s \in Signers, NEW p \in Purchases, Sign(s, p)
      PROVE  HoldRail'
  <2>1. CASE UNCHANGED hold
    BY <2>1 DEF HoldRail
  <2>2. CASE RetainPaymentStart(s, p) \/ ObservePayment(s, p)
    BY <1>1, <2>2 DEF RetainPaymentStart, ObservePayment, HoldRail, Holds
  <2>3. ASSUME NEW c \in Coins, SignHold(s, p, c)
        PROVE  HoldRail'
    <3>1. Rail[p] \in {"stripe", "base"}
      BY <2>3, PurchaseAssumption DEF SignHold, HoldEvidence
    <3> QED
      BY <1>1, <2>3, <3>1 DEF SignHold, Holds
  <2>4. ASSUME NEW c \in Coins, SignRelease(s, p, c) \/ SignAbort(s, p, c)
        PROVE  HoldRail'
    BY <1>1, <2>4 DEF SignRelease, SignAbort, HoldRail, Holds
  <2>5. ASSUME NEW c \in Coins, SignBaseTerminal(s, p, c)
        PROVE  HoldRail'
    BY <1>1, <2>5 DEF SignBaseTerminal, Holds
  <2> QED
    BY <1>2, <2>1, <2>2, <2>3, <2>4, <2>5
       DEF Sign, SignReservation, SignExtension, SignDelivery
<1> QED
  BY <1>2, WorldFrame DEF Next, HoldRail, vars, ledger

LEMMA FirstTermStep == TypeOK /\ FirstTermFirst /\ [Next]_vars => FirstTermFirst'
<1> SUFFICES ASSUME TypeOK, FirstTermFirst, [Next]_vars PROVE FirstTermFirst'
    OBVIOUS
<1>1. ASSUME NEW p \in Purchases, NEW k \in Terms, Expire(p, k)
      PROVE  FirstTermFirst'
  <2>1. k # 0 => <<p, 0>> \in late
    BY <1>1, BoundAssumption DEF Expire, FirstTermFirst, Terms
  <2> QED
    BY <1>1, <2>1 DEF Expire, FirstTermFirst
<1>2. CASE UNCHANGED late
  BY <1>2 DEF FirstTermFirst
<1> QED
  BY <1>1, <1>2, SignFrame
     DEF Next, vars, chain, Arm, Reserve, Renew, Timeout, Deliver, Spend, PaymentMoves

\* A reservation is the only step that touches the reservation tables.
LEMMA ReservationOnly ==
  ASSUME [Next]_vars
  PROVE  \/ UNCHANGED <<active, history>>
         \/ \E s \in Signers, p \in Purchases, c \in Coins : SignReservation(s, p, c)
<1>1. ASSUME NEW s \in Signers, NEW p \in Purchases, Sign(s, p)
      PROVE  \/ UNCHANGED <<active, history>>
             \/ \E c \in Coins : SignReservation(s, p, c)
  BY <1>1 DEF Sign, Hold, SignHold, SignRelease, SignAbort,
     RetainPaymentStart, ObservePayment, SignBaseTerminal, SignExtension, SignDelivery
<1>2. UNCHANGED ledger => UNCHANGED <<active, history>>
  BY DEF ledger
<1>3. UNCHANGED vars => UNCHANGED ledger
  BY DEF vars
<1> QED
  BY <1>1, <1>2, <1>3, WorldFrame DEF Next

\* The rows of a validator after a reservation.
LEMMA ReservationRows ==
  ASSUME TypeOK, NEW s \in Signers, NEW p \in Purchases, NEW c \in Coins,
         SignReservation(s, p, c)
  PROVE  /\ Len(history'[s]) = Len(history[s]) + 1
         /\ history'[s][Len(history[s]) + 1] = <<p, c>>
         /\ \A i \in 1 .. Len(history[s]) : history'[s][i] = history[s][i]
         /\ \A t \in Signers \ {s} : history'[t] = history[t]
<1>1. history[s] \in Seq(Purchases \X Coins)
  BY DEF TypeOK
<1>2. history'[s] = Append(history[s], <<p, c>>)
  BY DEF SignReservation, TypeOK
<1>3. \A t \in Signers \ {s} : history'[t] = history[t]
  BY DEF SignReservation, TypeOK
<1> QED
  BY <1>1, <1>2, <1>3

LEMMA LiveIsActiveStep ==
  TypeOK /\ LiveIsActive /\ [Next]_vars => LiveIsActive'
<1> SUFFICES ASSUME TypeOK, LiveIsActive, [Next]_vars PROVE LiveIsActive'
    OBVIOUS
<1>1. late \subseteq late'
  BY StepKeeps
<1>2. CASE UNCHANGED <<active, history>>
  BY <1>1, <1>2 DEF LiveIsActive
<1>3. ASSUME NEW s \in Signers, NEW p \in Purchases, NEW c \in Coins,
             SignReservation(s, p, c)
      PROVE  LiveIsActive'
  <2>1. active[s][c] = None \/ <<active[s][c], 0>> \in late
    BY <1>3 DEF SignReservation, Retirable
  <2>2. /\ active'[s][c] = p
        /\ \A d \in Coins \ {c} : active'[s][d] = active[s][d]
        /\ \A t \in Signers \ {s} : active'[t] = active[t]
    BY <1>3 DEF SignReservation, TypeOK
  <2>3. ASSUME NEW i \in 1 .. Len(history[s])
        PROVE  \/ <<history'[s][i][1], 0>> \in late'
               \/ active'[s][history'[s][i][2]] = history'[s][i][1]
    <3>1. history'[s][i] = history[s][i] /\ history[s][i] \in Purchases \X Coins
      BY <1>3, ReservationRows DEF TypeOK
    <3>2. \/ <<history[s][i][1], 0>> \in late
          \/ active[s][history[s][i][2]] = history[s][i][1]
      BY DEF LiveIsActive
    <3>3. CASE history[s][i][2] = c
      BY <1>1, <2>1, <3>1, <3>2, <3>3, PurchaseAssumption
    <3>4. CASE history[s][i][2] # c
      BY <1>1, <2>2, <3>1, <3>2, <3>4
    <3> QED
      BY <3>3, <3>4
  <2>4. Len(history[s]) \in Nat
    BY DEF TypeOK
  <2>5. ASSUME NEW i \in 1 .. Len(history'[s])
        PROVE  \/ <<history'[s][i][1], 0>> \in late'
               \/ active'[s][history'[s][i][2]] = history'[s][i][1]
    <3>1. CASE i \in 1 .. Len(history[s])
      BY <2>3, <3>1
    <3>2. CASE i = Len(history[s]) + 1
      BY <1>3, <2>2, <3>2, ReservationRows
    <3> QED
      BY <1>3, <2>4, <3>1, <3>2, ReservationRows
  <2>6. ASSUME NEW t \in Signers, t # s, NEW i \in 1 .. Len(history'[t])
        PROVE  \/ <<history'[t][i][1], 0>> \in late'
               \/ active'[t][history'[t][i][2]] = history'[t][i][1]
    BY <1>1, <1>3, <2>2, <2>6, ReservationRows DEF LiveIsActive
  <2> QED
    BY <2>5, <2>6 DEF LiveIsActive
<1> QED
  BY <1>2, <1>3, ReservationOnly

LEMMA OnSaleKeeps ==
  ASSUME TypeOK, [Next]_vars, NEW c, OnSale(c)
  PROVE  OnSale(c)'
BY StepKeeps DEF OnSale, Known, TypeOK

LEMMA ReservedWasOnSaleStep ==
  TypeOK /\ ReservedWasOnSale /\ [Next]_vars => ReservedWasOnSale'
<1> SUFFICES ASSUME TypeOK, ReservedWasOnSale, [Next]_vars
             PROVE  ReservedWasOnSale'
    OBVIOUS
<1>1. CASE UNCHANGED <<active, history>>
  BY <1>1, OnSaleKeeps DEF ReservedWasOnSale
<1>2. ASSUME NEW s \in Signers, NEW p \in Purchases, NEW c \in Coins,
             SignReservation(s, p, c)
      PROVE  ReservedWasOnSale'
  <2>1. OnSale(c)'
    BY <1>2, OnSaleKeeps DEF SignReservation, ReservationEvidence
  <2>2. Len(history[s]) \in Nat
    BY DEF TypeOK
  <2>3. ASSUME NEW i \in 1 .. Len(history'[s])
        PROVE  OnSale(history[s][i][2])'
    <3>1. CASE i \in 1 .. Len(history[s])
      BY <1>2, <3>1, OnSaleKeeps, ReservationRows DEF ReservedWasOnSale
    <3>2. CASE i = Len(history[s]) + 1
      BY <1>2, <2>1, <3>2, ReservationRows
    <3> QED
      BY <1>2, <2>2, <3>1, <3>2, ReservationRows
  <2>4. ASSUME NEW t \in Signers, t # s, NEW i \in 1 .. Len(history'[t])
        PROVE  OnSale(history[t][i][2])'
    BY <1>2, <2>4, OnSaleKeeps, ReservationRows DEF ReservedWasOnSale
  <2> QED
    BY <2>3, <2>4 DEF ReservedWasOnSale
<1> QED
  BY <1>1, <1>2, ReservationOnly

LEMMA InTimeStaysStep ==
  TypeOK /\ FirstTermFirst /\ InTimeStays /\ SoldIsCurrent /\ [Next]_vars => InTimeStays'
<1> SUFFICES ASSUME TypeOK, FirstTermFirst, InTimeStays, SoldIsCurrent, [Next]_vars
             PROVE  InTimeStays'
    OBVIOUS
<1> USE DEF Known
<1>0. Len(lineage) \in Nat \ {0} /\ None \notin Purchases
  BY PurchaseAssumption, BoundAssumption DEF TypeOK, Coins
<1>1. CASE Len(lineage') = Len(lineage) /\ UNCHANGED sold
  BY <1>0, <1>1, StepKeeps DEF InTimeStays
<1>2. ASSUME NEW p \in Purchases, Reserve(p) \/ Renew(p) \/ Timeout(p)
      PROVE  InTimeStays'
  <2>1. Current \in CoinType
    BY <1>0 DEF TypeOK, Current, Coins
  <2>2. PICK coin \in CoinType :
          /\ Spend(coin) /\ coin.buyer \in {p, None}
          /\ Current.buyer # None => coin.buyer = None \/ coin.buyer = Current.buyer
          /\ Current.buyer # None => coin.buyer = Current.buyer \/ <<p, 0>> \in late
          /\ Current.buyer \in {p, None}
    <3>1. CASE Reserve(p)
      BY <3>1, SeenType, BoundAssumption DEF Reserve, Coin, CoinType, Terms
    <3>2. CASE Renew(p)
      BY <2>1, <3>2, SeenType, BoundAssumption DEF Renew, Coin, CoinType, Terms
    <3>3. CASE Timeout(p)
      BY <2>1, <3>3, BoundAssumption DEF Timeout, Coin, CoinType, Terms, FirstTermFirst
    <3> QED
      BY <1>2, <3>1, <3>2, <3>3
  <2>3. /\ Len(lineage') = Len(lineage) + 1 /\ lineage'[Len(lineage) + 1] = coin
        /\ \A c \in 1 .. Len(lineage) : lineage'[c] = lineage[c]
        /\ UNCHANGED <<late, sold>> /\ sold = None
    BY <1>2, <2>2, SpendType DEF Spend, Reserve, Renew, Timeout
  <2>4. ASSUME NEW q \in Purchases, NEW c \in 1 .. Len(lineage'),
               lineage'[c].buyer = q, <<q, 0>> \notin late,
               NEW d \in c .. Len(lineage')
        PROVE  lineage'[d].buyer = q
    <3>1. CASE c = Len(lineage) + 1
      BY <1>0, <2>3, <2>4, <3>1
    <3>2. CASE c \in 1 .. Len(lineage)
      <4>1. \A e \in c .. Len(lineage) : lineage[e].buyer = q
        BY <2>3, <2>4, <3>2 DEF InTimeStays
      <4>2. Current.buyer = q
        BY <1>0, <3>2, <4>1 DEF Current
      <4>3. coin.buyer = q
        BY <1>0, <2>2, <2>4, <4>2
      <4> QED
        BY <1>0, <2>3, <2>4, <3>2, <4>1, <4>3
    <3> QED
      BY <1>0, <2>3, <3>1, <3>2
  <2> QED
    BY <2>3, <2>4 DEF InTimeStays
<1>3. ASSUME NEW p \in Purchases, Deliver(p)
      PROVE  InTimeStays'
  BY <1>0, <1>3 DEF Deliver, InTimeStays, Current
<1>4. ASSUME NEW p \in Purchases, NEW to \in Payments, PaymentMoves(p, to)
      PROVE  InTimeStays'
  BY <1>1, <1>4, PaymentMovesLineage DEF PaymentMoves
<1> QED
  BY <1>1, <1>2, <1>3, <1>4, SignFrame DEF Next, vars, chain, Arm, Expire

LEMMA SoldIsCurrentStep == TypeOK /\ SoldIsCurrent /\ [Next]_vars => SoldIsCurrent'
<1> SUFFICES ASSUME TypeOK, SoldIsCurrent, [Next]_vars PROVE SoldIsCurrent'
    OBVIOUS
<1>1. CASE UNCHANGED <<lineage, sold>>
  BY <1>1 DEF SoldIsCurrent, Current
<1>2. ASSUME NEW p \in Purchases, NEW to \in Payments, PaymentMoves(p, to)
      PROVE  SoldIsCurrent'
  BY <1>2, PaymentMovesLineage, BoundAssumption
     DEF PaymentMoves, SoldIsCurrent, Current, Known, TypeOK, Coins
<1>3. ASSUME NEW p \in Purchases, Reserve(p) \/ Renew(p) \/ Timeout(p)
      PROVE  SoldIsCurrent'
  BY <1>3 DEF Reserve, Renew, Timeout, Spend, SoldIsCurrent
<1>4. ASSUME NEW p \in Purchases, Deliver(p)
      PROVE  SoldIsCurrent'
  BY <1>4 DEF Deliver, SoldIsCurrent, Current
<1> QED
  BY <1>1, <1>2, <1>3, <1>4, SignFrame DEF Next, vars, chain, Arm, Expire

-----------------------------------------------------------------------------
(* How holds change.                                                       *)

\* A hold begins, lasts, or ends when its buyer's money has ended or when
\* the deed is the buyer's.
LEMMA HoldChanges ==
  ASSUME TypeOK, [Next]_vars
  PROVE  \/ UNCHANGED hold
         \/ \E s \in Signers, p \in Purchases :
              /\ UNCHANGED <<chain, pay, armed, history, extension, delivery>>
              /\ \E h \in Holds : Hold(s, p, h)
              /\ \/ \E c \in Coins : SignHold(s, p, c)
                 \/ Held(hold[s][p]) /\ Held(hold'[s][p])
                 \/ ~Held(hold'[s][p]) /\ (Ended(p) \/ sold = p)
<1>1. ASSUME NEW s \in Signers, NEW p \in Purchases, Sign(s, p)
      PROVE  \/ UNCHANGED hold
             \/ /\ \E h \in Holds : Hold(s, p, h)
                /\ \/ \E c \in Coins : SignHold(s, p, c)
                   \/ Held(hold[s][p]) /\ Held(hold'[s][p])
                   \/ ~Held(hold'[s][p]) /\ (Ended(p) \/ sold = p)
  <2>0. ASSUME NEW h \in Holds, Hold(s, p, h) PROVE hold'[s][p] = h
    BY <2>0 DEF Hold, TypeOK
  <2>1. CASE RetainPaymentStart(s, p) \/ ObservePayment(s, p)
    BY <2>0, <2>1 DEF RetainPaymentStart, ObservePayment, Holds, Held
  <2>2. ASSUME NEW c \in Coins, SignHold(s, p, c)
        PROVE  \E h \in Holds : Hold(s, p, h)
    BY <2>2 DEF SignHold, Holds
  <2>3. ASSUME NEW c \in Coins,
               SignRelease(s, p, c) \/ SignAbort(s, p, c) \/ SignBaseTerminal(s, p, c)
        PROVE  /\ \E h \in Holds : Hold(s, p, h)
               /\ ~Held(hold'[s][p]) /\ (Ended(p) \/ sold = p)
    <3>1. CASE SignRelease(s, p, c)
      BY <2>0, <3>1 DEF SignRelease, ReturnEvidence, PaymentEnded, Holds, Held, Ended
    <3>2. CASE SignAbort(s, p, c)
      BY <2>0, <3>2 DEF SignAbort, Holds, Held, Ended
    <3>3. CASE SignBaseTerminal(s, p, c)
      BY <2>0, <3>3 DEF SignBaseTerminal, TerminalEvidence, UnfundedTimeout,
         Holds, Held, Ended
    <3> QED
      BY <2>3, <3>1, <3>2, <3>3
  <2> QED
    BY <1>1, <2>1, <2>2, <2>3 DEF Sign, SignReservation, SignExtension, SignDelivery
<1>2. ASSUME NEW s \in Signers, NEW p \in Purchases, NEW h \in Holds, Hold(s, p, h)
      PROVE  UNCHANGED <<chain, pay, armed, history, extension, delivery>>
  BY <1>2 DEF Hold
<1> QED
  BY <1>1, <1>2, WorldFrame DEF Next, vars, ledger

LEMMA OneHeldStep == TypeOK /\ OneHeld /\ [Next]_vars => OneHeld'
<1> SUFFICES ASSUME TypeOK, OneHeld, [Next]_vars PROVE OneHeld'
    OBVIOUS
<1>1. CASE UNCHANGED hold
  BY <1>1 DEF OneHeld
<1>2. ASSUME NEW s \in Signers, NEW p \in Purchases, NEW h \in Holds, Hold(s, p, h),
             \/ \E c \in Coins : SignHold(s, p, c)
             \/ Held(hold[s][p]) /\ Held(hold'[s][p])
             \/ ~Held(hold'[s][p])
      PROVE  OneHeld'
  <2>1. \A t \in Signers, q \in Purchases :
          t # s \/ q # p => hold'[t][q] = hold[t][q]
    BY <1>2 DEF Hold, TypeOK
  <2>2. CASE \E c \in Coins : SignHold(s, p, c)
    BY <2>1, <2>2 DEF SignHold, NoPaymentHold, OneHeld
  <2>3. CASE Held(hold[s][p]) /\ Held(hold'[s][p])
    BY <2>1, <2>3 DEF OneHeld
  <2>4. CASE ~Held(hold'[s][p])
    BY <2>1, <2>4 DEF OneHeld
  <2> QED
    BY <1>2, <2>2, <2>3, <2>4
<1> QED
  BY <1>1, <1>2, HoldChanges

LEMMA HeldIsLastStep ==
  TypeOK /\ InTimeStays /\ ReservedWasOnSale /\ HeldIsLast /\ [Next]_vars => HeldIsLast'
<1> SUFFICES ASSUME TypeOK, InTimeStays, ReservedWasOnSale, HeldIsLast, [Next]_vars
             PROVE  HeldIsLast'
    OBVIOUS
<1> DEFINE Last(t, q) == \E c \in Known : \A i \in 1 .. Len(history[t]) :
                           history[t][i][1] = q \/ history[t][i][2] < c
<1>0. Known \subseteq Known'
  BY StepKeeps DEF Known, TypeOK
<1>1. ASSUME UNCHANGED history, NEW t \in Signers, NEW q \in Purchases, Last(t, q)
      PROVE  Last(t, q)'
  BY <1>0, <1>1
<1>2. CASE UNCHANGED <<hold, history>>
  BY <1>1, <1>2 DEF HeldIsLast
<1>3. ASSUME NEW s \in Signers, NEW p \in Purchases, NEW h \in Holds, Hold(s, p, h),
             UNCHANGED <<chain, history>>,
             \/ \E c \in Coins : SignHold(s, p, c)
             \/ Held(hold[s][p]) /\ Held(hold'[s][p])
             \/ ~Held(hold'[s][p])
      PROVE  HeldIsLast'
  <2>1. \A t \in Signers, q \in Purchases :
          t # s \/ q # p => hold'[t][q] = hold[t][q]
    BY <1>3 DEF Hold, TypeOK
  <2>2. ASSUME NEW c \in Coins, SignHold(s, p, c)
        PROVE  Last(s, p)
    <3>1. c \in Known /\ lineage[c].buyer = p /\ <<p, 0>> \notin late
      BY <2>2 DEF SignHold, HoldEvidence, Reserved
    <3>2. \A d \in c .. Len(lineage) : lineage[d].buyer = p
      BY <3>1 DEF InTimeStays
    <3>3. \A i \in 1 .. Len(history[s]) :
            history[s][i][2] \in Known /\ lineage[history[s][i][2]].buyer = None
      BY DEF ReservedWasOnSale, OnSale
    <3>4. ASSUME NEW d \in Known, lineage[d].buyer = None
          PROVE  d < c
      BY <3>1, <3>2, <3>4, PurchaseAssumption DEF Known, TypeOK
    <3> QED
      BY <3>1, <3>3, <3>4
  <2> QED
    BY <1>1, <1>3, <2>1, <2>2 DEF HeldIsLast
<1>4. ASSUME NEW s \in Signers, NEW p \in Purchases, NEW c \in Coins,
             SignReservation(s, p, c)
      PROVE  HeldIsLast'
  <2>1. \A t \in Signers \ {s} : history'[t] = history[t]
    BY <1>4, ReservationRows
  <2>2. UNCHANGED hold /\ \A q \in Purchases : ~Held(hold[s][q])
    BY <1>4 DEF SignReservation, NoPaymentHold
  <2> QED
    BY <1>0, <2>1, <2>2 DEF HeldIsLast
<1> QED
  BY <1>2, <1>3, <1>4, HoldChanges, ReservationOnly

\* A validator that holds the deed for p cannot be of a quorum that reserves
\* the deed for another buyer.
LEMMA HeldReserves ==
  ASSUME TypeOK, HeldIsLast, NEW p \in Purchases, NEW q \in Purchases,
         IsQuorum(HeldBy(p)), IsQuorum(Reservers(q, Len(lineage)))
  PROVE  p = q
<1>1. PICK Q \in Quorums : Q \subseteq HeldBy(p)
  BY DEF IsQuorum
<1>2. PICK R \in Quorums : R \subseteq Reservers(q, Len(lineage))
  BY DEF IsQuorum
<1>3. PICK s \in Signers : Held(hold[s][p]) /\ s \in Reservers(q, Len(lineage))
  BY <1>1, <1>2, QuorumAssumption DEF HeldBy
<1>4. PICK i \in 1 .. Len(history[s]) : history[s][i] = <<q, Len(lineage)>>
  BY <1>3 DEF Reservers
<1>5. PICK c \in Known : history[s][i][1] = p \/ history[s][i][2] < c
  BY <1>3 DEF HeldIsLast
<1> QED
  BY <1>4, <1>5 DEF TypeOK, Known

LEMMA QuorumExcludesStep ==
  TypeOK /\ InTimeStays /\ HeldIsLast /\ SoldIsCurrent /\ QuorumExcludes /\ [Next]_vars
    => QuorumExcludes'
<1> SUFFICES ASSUME TypeOK, InTimeStays, HeldIsLast, SoldIsCurrent, QuorumExcludes,
                    [Next]_vars
             PROVE  QuorumExcludes'
    OBVIOUS
<1>0. Len(lineage) \in Nat \ {0}
  BY BoundAssumption DEF TypeOK, Coins
<1>1. CASE UNCHANGED <<hold, lineage, sold>>
  BY <1>1 DEF QuorumExcludes, HeldBy, Current
<1>2. ASSUME NEW s \in Signers, NEW p \in Purchases, NEW h \in Holds, Hold(s, p, h),
             UNCHANGED chain,
             \/ \E c \in Coins : SignHold(s, p, c)
             \/ Held(hold[s][p]) /\ Held(hold'[s][p])
             \/ ~Held(hold'[s][p])
      PROVE  QuorumExcludes'
  <2>1. \A t \in Signers, q \in Purchases :
          t # s \/ q # p => hold'[t][q] = hold[t][q]
    BY <1>2 DEF Hold, TypeOK
  <2>2. CASE \E c \in Coins : SignHold(s, p, c)
    <3>1. PICK c \in Coins : SignHold(s, p, c)
      BY <2>2
    <3>2. c \in Known /\ lineage[c].buyer = p /\ <<p, 0>> \notin late
      BY <3>1 DEF SignHold, HoldEvidence, Reserved
    <3>3. Current.buyer = p /\ sold \in {p, None}
      BY <1>0, <3>2 DEF InTimeStays, Known, Current
    <3>4. \A q \in Purchases \ {p} : HeldBy(q)' = HeldBy(q)
      BY <2>1 DEF HeldBy
    <3> QED
      BY <1>2, <3>3, <3>4 DEF QuorumExcludes, chain, Current, IsQuorum
  <2>3. CASE (Held(hold[s][p]) /\ Held(hold'[s][p])) \/ ~Held(hold'[s][p])
    <3>1. \A q \in Purchases : HeldBy(q)' \subseteq HeldBy(q)
      BY <2>1, <2>3 DEF HeldBy
    <3> QED
      BY <1>2, <3>1 DEF QuorumExcludes, chain, Current, IsQuorum
  <2> QED
    BY <1>2, <2>2, <2>3
<1>3. ASSUME NEW q \in Purchases, Reserve(q)
      PROVE  QuorumExcludes'
  <2>1. UNCHANGED <<hold, sold>> /\ sold = None /\ IsQuorum(Reservers(q, Len(lineage)))
    BY <1>3 DEF Reserve, Spend, ledger
  <2>2. Current'.buyer = q
    BY <1>0, <1>3 DEF Reserve, Spend, Current, Coin, TypeOK
  <2> QED
    BY <2>1, <2>2, HeldReserves DEF QuorumExcludes, HeldBy
<1>4. ASSUME NEW q \in Purchases, Renew(q) \/ Timeout(q)
      PROVE  QuorumExcludes'
  <2>1. UNCHANGED <<hold, sold>> /\ Current.buyer = q
    BY <1>4 DEF Renew, Timeout, Spend, ledger
  <2>2. Current'.buyer \in {q, None}
    BY <1>0, <1>4 DEF Renew, Timeout, Spend, Current, Coin, TypeOK
  <2> QED
    BY <2>1, <2>2 DEF QuorumExcludes, HeldBy
<1>5. ASSUME NEW q \in Purchases, Deliver(q)
      PROVE  QuorumExcludes'
  BY <1>5, PurchaseAssumption DEF Deliver, QuorumExcludes, HeldBy, Current, ledger
<1>6. ASSUME NEW q \in Purchases, NEW to \in Payments, PaymentMoves(q, to)
      PROVE  QuorumExcludes'
  <2>1. UNCHANGED <<hold, sold>> /\ Current'.buyer = Current.buyer
    BY <1>0, <1>6, PaymentMovesLineage DEF PaymentMoves, ledger, Current, Known
  <2> QED
    BY <2>1 DEF QuorumExcludes, HeldBy
<1>7. ASSUME NEW s \in Signers, NEW p \in Purchases, Sign(s, p)
      PROVE  QuorumExcludes'
  BY <1>1, <1>2, <1>7, SignFrame, HoldChanges DEF chain
<1> QED
  BY <1>1, <1>3, <1>4, <1>5, <1>6, <1>7 DEF Next, vars, chain, ledger, Arm, Expire

\* A payment that has ended stays ended.
LEMMA EndedStays ==
  ASSUME TypeOK, [Next]_vars, NEW p \in Purchases, Ended(p)
  PROVE  Ended(p)'
<1>1. CASE UNCHANGED pay
  BY <1>1, StepKeeps DEF Ended
<1>2. ASSUME NEW q \in Purchases, NEW to \in Payments, PaymentMoves(q, to)
      PROVE  Ended(p)'
  BY <1>2 DEF PaymentMoves, Moves, Ended, TypeOK
<1> QED
  BY <1>1, <1>2, SignFrame
     DEF Next, vars, chain, Arm, Reserve, Renew, Timeout, Deliver, Spend, Expire

LEMMA ArmedIsHeldStep == TypeOK /\ ArmedIsHeld /\ [Next]_vars => ArmedIsHeld'
<1> SUFFICES ASSUME TypeOK, ArmedIsHeld, [Next]_vars, NEW p \in armed'
             PROVE  (Ended(p) \/ IsQuorum(HeldBy(p)) \/ sold = p)'
    BY DEF ArmedIsHeld
<1>0. p \in Purchases
  BY StepKeeps DEF TypeOK
<1>1. Ended(p) \/ IsQuorum(HeldBy(p)) \/ sold = p
  <2>1. CASE p \in armed
    BY <2>1 DEF ArmedIsHeld
  <2>2. ASSUME NEW q \in Purchases, Arm(q)
        PROVE  p \in armed \/ IsQuorum(HeldBy(p))
    BY <2>2 DEF Arm
  <2>3. (\E q \in Purchases : Arm(q)) \/ UNCHANGED armed
    BY SignFrame DEF Next, vars, Reserve, Renew, Timeout, Deliver, Spend, Expire,
       PaymentMoves
  <2> QED
    BY <2>1, <2>2, <2>3
<1>2. CASE Ended(p)
  BY <1>0, <1>2, EndedStays
<1>3. CASE sold = p
  <2>1. sold # None
    BY <1>0, <1>3, PurchaseAssumption
  <2>2. UNCHANGED sold
    BY <2>1, SignFrame DEF Next, vars, chain, Arm, Reserve, Renew, Timeout, Deliver,
       Spend, Expire, PaymentMoves
  <2> QED
    BY <1>3, <2>2
<1>4. CASE IsQuorum(HeldBy(p)) /\ UNCHANGED hold
  BY <1>4 DEF HeldBy
<1>5. ASSUME IsQuorum(HeldBy(p)), ~Ended(p), sold # p,
             NEW s \in Signers, NEW q \in Purchases, NEW h \in Holds, Hold(s, q, h),
             \/ \E c \in Coins : SignHold(s, q, c)
             \/ Held(hold[s][q]) /\ Held(hold'[s][q])
             \/ ~Held(hold'[s][q]) /\ (Ended(q) \/ sold = q)
      PROVE  IsQuorum(HeldBy(p))'
  <2>1. \A t \in Signers, r \in Purchases :
          t # s \/ r # q => hold'[t][r] = hold[t][r]
    BY <1>5 DEF Hold, TypeOK
  <2>2. CASE p # q
    BY <1>0, <1>5, <2>1, <2>2 DEF HeldBy
  <2>3. CASE p = q
    <3>1. \/ hold[s][q] = "none" \/ Held(hold'[s][q])
      BY <1>5, <2>3 DEF SignHold
    <3>2. HeldBy(p) \subseteq HeldBy(p)'
      BY <1>0, <2>1, <2>3, <3>1 DEF HeldBy, Held
    <3> QED
      BY <1>5, <3>2 DEF IsQuorum
  <2> QED
    BY <2>2, <2>3
<1> QED
  BY <1>1, <1>2, <1>3, <1>4, <1>5, HoldChanges

\* What a step does to the two kinds of signatures for a coin.
LEMMA OneSideStep == TypeOK /\ OneSide /\ [Next]_vars => OneSide'
<1> SUFFICES ASSUME TypeOK, OneSide, [Next]_vars PROVE OneSide'
    OBVIOUS
<1>1. CASE UNCHANGED <<extension, delivery>>
  BY <1>1 DEF OneSide
<1>2. ASSUME NEW s \in Signers, NEW p \in Purchases, NEW c \in Coins,
             SignExtension(s, p, c)
      PROVE  OneSide'
  BY <1>2 DEF SignExtension, NoTerminalSignature, OneSide, TypeOK
<1>3. ASSUME NEW s \in Signers, NEW p \in Purchases, NEW c \in Coins,
             SignDelivery(s, p, c)
      PROVE  OneSide'
  BY <1>3 DEF SignDelivery, NoExtensionSignature, OneSide, TypeOK
<1>4. ASSUME NEW s \in Signers, NEW p \in Purchases, Sign(s, p)
      PROVE  OneSide'
  BY <1>1, <1>2, <1>3, <1>4 DEF Sign, SignReservation, Hold, SignHold, SignRelease,
     SignAbort, RetainPaymentStart, ObservePayment, SignBaseTerminal
<1> QED
  BY <1>1, <1>4, WorldFrame DEF Next, vars, ledger

LEMMA AbortedStep ==
  TypeOK /\ HoldRail /\ AbortedIsUnsigned /\ [Next]_vars => AbortedIsUnsigned'
<1> SUFFICES ASSUME TypeOK, HoldRail, AbortedIsUnsigned, [Next]_vars
             PROVE  AbortedIsUnsigned'
    OBVIOUS
<1>1. CASE UNCHANGED <<hold, extension, delivery>>
  BY <1>1 DEF AbortedIsUnsigned
<1>2. ASSUME NEW s \in Signers, NEW p \in Purchases, NEW h \in Holds, Hold(s, p, h),
             h # "ABORTED"
      PROVE  AbortedIsUnsigned'
  BY <1>2 DEF Hold, AbortedIsUnsigned, TypeOK
<1>3. ASSUME NEW s \in Signers, NEW p \in Purchases, NEW c \in Coins, SignAbort(s, p, c)
      PROVE  AbortedIsUnsigned'
  BY <1>3 DEF SignAbort, NoPaymentAuthorization, Signed, Hold, AbortedIsUnsigned, TypeOK
<1>4. ASSUME NEW s \in Signers, NEW p \in Purchases, PaymentHoldIdentity(s, p)
      PROVE  hold[s][p] # "ABORTED"
  BY <1>4 DEF PaymentHoldIdentity, HoldRail
<1>5. ASSUME NEW s \in Signers, NEW p \in Purchases, NEW c \in Coins,
             SignExtension(s, p, c)
      PROVE  AbortedIsUnsigned'
  <2>1. hold[s][p] # "ABORTED"
    BY <1>4, <1>5 DEF SignExtension
  <2> QED
    BY <1>5, <2>1 DEF SignExtension, AbortedIsUnsigned, TypeOK
<1>6. ASSUME NEW s \in Signers, NEW p \in Purchases, NEW c \in Coins,
             SignDelivery(s, p, c)
      PROVE  AbortedIsUnsigned'
  <2>1. hold[s][p] # "ABORTED"
    BY <1>4, <1>6 DEF SignDelivery
  <2> QED
    BY <1>6, <2>1 DEF SignDelivery, AbortedIsUnsigned, TypeOK
<1>7. ASSUME NEW s \in Signers, NEW p \in Purchases, Sign(s, p)
      PROVE  AbortedIsUnsigned'
  <2>1. CASE RetainPaymentStart(s, p) \/ ObservePayment(s, p)
    BY <1>2, <2>1 DEF RetainPaymentStart, ObservePayment, Holds
  <2>2. ASSUME NEW c \in Coins, SignHold(s, p, c) \/ SignRelease(s, p, c)
                                \/ SignBaseTerminal(s, p, c)
        PROVE  AbortedIsUnsigned'
    BY <1>2, <2>2 DEF SignHold, SignRelease, SignBaseTerminal, Holds
  <2>3. ASSUME NEW c \in Coins, SignReservation(s, p, c)
        PROVE  AbortedIsUnsigned'
    BY <1>1, <2>3 DEF SignReservation
  <2> QED
    BY <1>3, <1>5, <1>6, <1>7, <2>1, <2>2, <2>3 DEF Sign
<1> QED
  BY <1>1, <1>7, WorldFrame DEF Next, vars, ledger

\* A terminal is written after the money has ended, and no step undoes that.
LEMMA ClosedStep == TypeOK /\ ClosedIsSettled /\ [Next]_vars => ClosedIsSettled'
<1> SUFFICES ASSUME TypeOK, ClosedIsSettled, [Next]_vars,
                    NEW s \in Signers, NEW p \in Purchases, hold'[s][p] = "TERMINAL"
             PROVE  (Ended(p) \/ sold = p)'
    BY DEF ClosedIsSettled
<1>1. Ended(p) \/ sold = p
  <2>1. CASE UNCHANGED hold
    BY <2>1 DEF ClosedIsSettled
  <2>2. ASSUME NEW t \in Signers, NEW q \in Purchases, NEW h \in Holds, Hold(t, q, h),
               \/ \E c \in Coins : SignHold(t, q, c)
               \/ Held(hold'[t][q])
               \/ Ended(q) \/ sold = q
        PROVE  Ended(p) \/ sold = p
    <3>1. CASE t = s /\ q = p
      <4>1. hold'[s][p] = h /\ ~Held(hold'[s][p])
        BY <2>2, <3>1 DEF Hold, Held, TypeOK
      <4>2. ASSUME NEW c \in Coins, SignHold(s, p, c) PROVE FALSE
        BY <4>1, <4>2 DEF SignHold, Hold, TypeOK
      <4> QED
        BY <2>2, <3>1, <4>1, <4>2
    <3>2. CASE ~(t = s /\ q = p)
      BY <2>2, <3>2 DEF Hold, TypeOK, ClosedIsSettled
    <3> QED
      BY <3>1, <3>2
  <2> QED
    BY <2>1, <2>2, HoldChanges
<1>2. CASE Ended(p)
  BY <1>2, EndedStays
<1>3. CASE sold = p
  <2>1. sold # None
    BY <1>3, PurchaseAssumption
  <2>2. UNCHANGED sold
    BY <2>1, SignFrame DEF Next, vars, chain, Arm, Reserve, Renew, Timeout, Deliver,
       Spend, Expire, PaymentMoves
  <2> QED
    BY <1>3, <2>2
<1> QED
  BY <1>1, <1>2, <1>3

-----------------------------------------------------------------------------
(* The invariant and what follows from it.                                 *)

LEMMA IInvInit == Init => IInv
<1> SUFFICES ASSUME Init PROVE IInv
    OBVIOUS
<1>1. TypeOK
  BY TypeInit
<1>2. HoldRail /\ OneHeld /\ HeldIsLast /\ AbortedIsUnsigned /\ ClosedIsSettled
  BY DEF Init, HoldRail, OneHeld, HeldIsLast, AbortedIsUnsigned, ClosedIsSettled, Held
<1>3. FirstTermFirst /\ LiveIsActive /\ ReservedWasOnSale
  BY DEF Init, FirstTermFirst, LiveIsActive, ReservedWasOnSale
<1>4. InTimeStays /\ SoldIsCurrent /\ ArmedIsHeld
  BY PurchaseAssumption DEF Init, InTimeStays, SoldIsCurrent, ArmedIsHeld, Known, Coin
<1>5. QuorumExcludes
  BY DEF Init, QuorumExcludes, Current, Coin
<1>6. OneSide
  BY DEF Init, OneSide, Nobody
<1> QED
  BY <1>1, <1>2, <1>3, <1>4, <1>5, <1>6 DEF IInv

\* The inductive invariant holds in every state.
THEOREM InvariantHolds == Spec => []IInv
<1>1. IInv /\ [Next]_vars => IInv'
  BY StepKeeps, HoldRailStep, FirstTermStep, LiveIsActiveStep, ReservedWasOnSaleStep,
     InTimeStaysStep, HeldIsLastStep, OneHeldStep, QuorumExcludesStep, ArmedIsHeldStep,
     SoldIsCurrentStep, OneSideStep, AbortedStep, ClosedStep DEF IInv
<1> QED
  BY <1>1, IInvInit, PTL DEF Spec

\* Every table, coin and payment keeps its type.
THEOREM TypeSafety == Spec => []TypeOK
<1>1. IInv => TypeOK
  BY DEF IInv
<1> QED
  BY <1>1, InvariantHolds, PTL

\* Two buyers invited by quorums of the validators cannot both still pay.
THEOREM OneBuyerTheorem == Spec => []OneBuyerMayPay
<1>1. IInv => OneBuyerMayPay
  <2> SUFFICES ASSUME IInv, NEW p \in armed, NEW q \in armed, p # q,
                      ~Ended(p), ~Ended(q)
               PROVE  FALSE
      BY DEF OneBuyerMayPay
  <2>0. p \in Purchases /\ q \in Purchases
    BY DEF IInv, TypeOK
  <2>1. /\ IsQuorum(HeldBy(p)) \/ sold = p
        /\ IsQuorum(HeldBy(q)) \/ sold = q
    BY DEF IInv, ArmedIsHeld
  <2>2. CASE IsQuorum(HeldBy(p)) /\ IsQuorum(HeldBy(q))
    <3>1. \E s \in Signers : Held(hold[s][p]) /\ Held(hold[s][q])
      BY <2>2, QuorumAssumption DEF IsQuorum, HeldBy
    <3> QED
      BY <2>0, <3>1 DEF IInv, OneHeld
  <2>3. CASE sold \in {p, q}
    BY <2>0, <2>1, <2>3, PurchaseAssumption DEF IInv, QuorumExcludes
  <2> QED
    BY <2>1, <2>2, <2>3
<1> QED
  BY <1>1, InvariantHolds, PTL

\* A buyer who was invited to pay and whose money is not back keeps the deed.
THEOREM PaidBuyerTheorem == Spec => []PaidBuyerKeepsDeed
<1>1. IInv => PaidBuyerKeepsDeed
  <2> SUFFICES ASSUME IInv, NEW p \in armed, pay[p] \in {"processing", "succeeded"}
               PROVE  Current.buyer \in {p, None} /\ sold \in {p, None}
      BY DEF PaidBuyerKeepsDeed
  <2>0. p \in Purchases /\ ~Ended(p)
    BY DEF IInv, TypeOK, Ended
  <2>1. CASE IsQuorum(HeldBy(p))
    BY <2>0, <2>1 DEF IInv, QuorumExcludes
  <2>2. CASE sold = p
    BY <2>0, <2>2, PurchaseAssumption DEF IInv, SoldIsCurrent
  <2> QED
    BY <2>0, <2>1, <2>2 DEF IInv, ArmedIsHeld
<1> QED
  BY <1>1, InvariantHolds, PTL

\* A Base purchase is closed only when its money has ended or it is delivered.
THEOREM ClosedIsSettledTheorem == Spec => []ClosedIsSettled
<1>1. IInv => ClosedIsSettled
  BY DEF IInv
<1> QED
  BY <1>1, InvariantHolds, PTL

\* No coin gathers both a quorum that renews it and one that delivers it.
THEOREM OneFutureTheorem == Spec => []OneFuture
<1>1. IInv => OneFuture
  BY PurchaseAssumption, QuorumAssumption
     DEF IInv, OneSide, OneFuture, IsQuorum, Renewers, Deliverers
<1> QED
  BY <1>1, InvariantHolds, PTL

\* The coin on sale never gathers quorums for two buyers in time.
THEOREM OneLiveReservationTheorem == Spec => []OneLiveReservation
<1>1. IInv => OneLiveReservation
  <2> SUFFICES ASSUME IInv, NEW p \in Purchases, NEW q \in Purchases,
                      <<p, 0>> \notin late, <<q, 0>> \notin late,
                      IsQuorum(Reservers(p, Len(lineage))),
                      IsQuorum(Reservers(q, Len(lineage)))
               PROVE  p = q
      BY DEF OneLiveReservation
  <2>1. PICK s \in Signers :
          s \in Reservers(p, Len(lineage)) /\ s \in Reservers(q, Len(lineage))
    BY QuorumAssumption DEF IsQuorum
  <2> DEFINE c == Len(lineage)
  <2>2. c \in Coins /\ history[s] \in Seq(Purchases \X Coins)
    BY <2>1 DEF Reservers, IInv, TypeOK
  <2>3. ASSUME NEW r \in Purchases, <<r, 0>> \notin late, s \in Reservers(r, c)
        PROVE  active[s][c] = r
    <3>1. PICK i \in 1 .. Len(history[s]) : history[s][i] = <<r, c>>
      BY <2>3 DEF Reservers
    <3> QED
      BY <2>1, <2>2, <2>3, <3>1 DEF IInv, LiveIsActive, Reservers
  <2> QED
    BY <2>1, <2>3
<1> QED
  BY <1>1, InvariantHolds, PTL

\* What a quorum gave up, no quorum renews or delivers.
THEOREM AbortIsFinalTheorem == Spec => []AbortIsFinal
<1>1. IInv => AbortIsFinal
  BY QuorumAssumption
     DEF IInv, AbortedIsUnsigned, AbortIsFinal, IsQuorum, Renewers, Deliverers
<1> QED
  BY <1>1, InvariantHolds, PTL
=============================================================================
