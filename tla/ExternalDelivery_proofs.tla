----------------------- MODULE ExternalDelivery_proofs -----------------------
(***************************************************************************)
(* Safety of external delivery for every number of workers, purchases,     *)
(* coins and quorums, with crashes, stalls and status reads unbounded:     *)
(* what the table promises whoever calls it (part one); that what is       *)
(* dispatched was sealed and money on Base is captured only for an asset   *)
(* already delivered (part two); and types, leases, fee coins, what a      *)
(* finished purchase shows, and the abstract promise (part three).         *)
(*                                                                         *)
(* Part two rests on IInv: a row's exact bundle is its own (RowsOwn), a    *)
(* worker's snapshot never disagrees with the row on an exact bundle, what *)
(* a worker is about to seal is for its purchase, what it is about to      *)
(* dispatch is sealed (Advance), and a row waits for settlement only after *)
(* its delivery was mined (PendingIsDelivered).  It says nothing of leases,*)
(* so a worker that lost its lease is covered.  Part three adds what a     *)
(* worker holds at each await (Equipped), how its lease and its deadline   *)
(* go together (LeasesHeld), what confirms a row (Confirmations), which    *)
(* fee coins are held (FeesApart) and that the mempool has no conflicts    *)
(* (Whole).                                                                *)
(***************************************************************************)
EXTENDS ExternalDelivery, WellFoundedInduction, TLAPS

(***************************************************************************)
(* PART ONE: the table, whoever calls it.                                  *)
(*                                                                         *)
(* Every write but Queue and the lease calls goes through _transition, so  *)
(* the proofs look at its change records once: each is well typed, leads   *)
(* from a stage to a later one, and binds what the later stage needs       *)
(* (LEMMA Changes).                                                        *)
(***************************************************************************)

(* What the change records of the store have in common. *)
Sound(p, change) ==
  /\ change.from \subseteq States
  /\ change.to \in States
  /\ DOMAIN change.values \subseteq Columns
  /\ \A c \in DOMAIN change.values : change.values[c] \in ColumnType[c]
  /\ \A s \in change.from :
       /\ Rank[s] <= Rank[change.to]
       /\ s = "FINALIZED" => change.to = "FINALIZED"
       /\ StageColumns[change.to] \subseteq StageColumns[s] \cup DOMAIN change.values
  /\ change.to = "FINALIZED" /\ Rail[p] = "base_usdc" => "evidence" \in DOMAIN change.values

-----------------------------------------------------------------------------
(* The columns, spelled out once.                                           *)

LEMMA ColumnsDef ==
  Columns = {"externalPayment", "receiptInput", "receiptExact", "receiptBundleId",
             "receiptObservedAt", "deliverySigners", "deliveryExact",
             "deliveryBundleId", "observedAt", "confirmedBy", "authorization",
             "evidence"}
BY DEF Columns, ColumnType

LEMMA ColumnTypes ==
  /\ ColumnType["externalPayment"] = Payments
  /\ ColumnType["receiptInput"] = Coins
  /\ ColumnType["receiptExact"] = ReceiptBundles
  /\ ColumnType["receiptBundleId"] = ReceiptBundles
  /\ ColumnType["receiptObservedAt"] = Stamps
  /\ ColumnType["deliverySigners"] = Quorums
  /\ ColumnType["deliveryExact"] = DeliveryBundles
  /\ ColumnType["deliveryBundleId"] = DeliveryBundles
  /\ ColumnType["observedAt"] = Stamps
  /\ ColumnType["confirmedBy"] = DeliveryBundles
  /\ ColumnType["authorization"] = Purchases
  /\ ColumnType["evidence"] = Purchases
BY DEF ColumnType

\* No type of a column holds NULL.
LEMMA NoneIsNoValue ==
  \A c \in Columns : None \notin ColumnType[c]
<1> USE NoneAssumption, NullAssumption
<1>1. None \notin ReceiptBundles /\ None \notin DeliveryBundles
  BY DEF ExactBundles
<1> QED BY <1>1, ColumnsDef, ColumnTypes

-----------------------------------------------------------------------------
(* Every change record of the store is sound.                               *)

\* Whatever Transitions does to a row is the transition of a sound change.
LEMMA Changes ==
  ASSUME NEW p \in Purchases, Transitions(p)
  PROVE  \E change : Sound(p, change) /\ Transition(p, change)
<1> USE ColumnsDef, ColumnTypes DEF Sound, Change, Seal, States, Pending, Terminal, Rank, StageColumns, Funded, Prepared
<1>1. ASSUME NEW c \in Coins
      PROVE  Sound(p, RecordReceiptPrepared(c))
  BY DEF RecordReceiptPrepared
<1>2. ASSUME NEW b \in ReceiptBundles
      PROVE  Sound(p, BindReceiptExactBundle(b))
  BY DEF BindReceiptExactBundle
<1>3. ASSUME NEW b \in ReceiptBundles, NEW at \in Stamps
      PROVE  Sound(p, RecordReceiptFunding(b, at))
  BY DEF RecordReceiptFunding
<1>4. Sound(p, RecordReceiptConfirmed)
  BY DEF RecordReceiptConfirmed, NoColumns
<1>5. ASSUME NEW q \in Quorums
      PROVE  Sound(p, RecordDeliveryPrepared(q))
  BY DEF RecordDeliveryPrepared
<1>6. ASSUME NEW b \in DeliveryBundles
      PROVE  Sound(p, BindDeliveryExactBundle(b))
  BY DEF BindDeliveryExactBundle
<1>7. ASSUME NEW b \in DeliveryBundles, NEW at \in Stamps
      PROVE  Sound(p, RecordDeliverySubmission(b, at))
  BY DEF RecordDeliverySubmission
<1>8. ASSUME NEW b \in DeliveryBundles
      PROVE  Sound(p, RecordDeliveryConfirmed(p, b))
  BY DEF RecordDeliveryConfirmed, RecordFinalized
<1>9. Sound(p, RecordExternalSettlementAuthorization(p))
  BY DEF RecordExternalSettlementAuthorization
<1>10. Sound(p, RecordExternalSettlementFinalized(p))
  BY DEF RecordExternalSettlementFinalized
<1> QED
  BY SMTT(30), <1>1, <1>2, <1>3, <1>4, <1>5, <1>6, <1>7, <1>8, <1>9, <1>10 DEF Transitions

-----------------------------------------------------------------------------
(* The kinds of step the table can take.                                    *)

\* Every step of the specification is one of these; the cases of each proof
\* below are these cases.
LEMMA StepCases ==
  ASSUME [StoreNext]_storeVars
  PROVE  \/ \E p \in Purchases, x \in Payments : Queue(p, x)
         \/ \E p \in Purchases, o \in Owners : ClaimNext(p, o)
         \/ \E p \in Purchases, o \in Owners : Claim(p, o)
         \/ \E p \in Purchases, e \in Retryable : RecordError(p, e)
         \/ \E p \in Purchases, e \in Reviews : RecordManualReview(p, e)
         \/ \E p \in Purchases : ReleaseLease(p)
         \/ \E p \in Purchases : \E change : Sound(p, change) /\ Transition(p, change)
         \/ LeaseTick /\ UNCHANGED <<state, column, lastError, older>>
         \/ UNCHANGED storeVars
<1>1. ASSUME NEW p \in Purchases, Transitions(p)
      PROVE  \E change : Sound(p, change) /\ Transition(p, change)
  BY <1>1, Changes
<1> QED
  BY <1>1, Zenon DEF StoreNext

\* Touch only relates purchases to purchases.
LEMMA TouchType ==
  ASSUME NEW p \in Purchases, older \subseteq Purchases \X Purchases, Touch(p)
  PROVE  older' \subseteq Purchases \X Purchases
BY DEF Touch

\* What one _transition does to its row and to the others.
LEMMA TransitionRow ==
  ASSUME StoreTypeOK, NEW p \in Purchases, NEW change,
         Sound(p, change), Transition(p, change)
  PROVE  /\ state' = [state EXCEPT ![p] = change.to]
         /\ DOMAIN column' = Purchases
         /\ \A q \in Purchases \ {p} : column'[q] = column[q]
         /\ DOMAIN column'[p] = Columns
         /\ \A c \in Columns :
              column'[p][c] = IF c \in DOMAIN change.values THEN change.values[c]
                                                            ELSE column[p][c]
BY DEF StoreTypeOK, Transition

-----------------------------------------------------------------------------
(* Type correctness.                                                        *)

\* No call leaves the table ill typed.
LEMMA StoreTypedStep == StoreTypeOK /\ [StoreNext]_storeVars => StoreTypeOK'
<1> SUFFICES ASSUME StoreTypeOK, [StoreNext]_storeVars
             PROVE  StoreTypeOK'
  OBVIOUS
<1> USE LeaseAssumption
<1>1. ASSUME NEW p \in Purchases, NEW x \in Payments, Queue(p, x)
      PROVE  StoreTypeOK'
  <2>1. older' \subseteq Purchases \X Purchases
    BY <1>1, TouchType DEF Queue, StoreTypeOK
  <2>2. DOMAIN column' = Purchases /\ \A q \in Purchases : DOMAIN column'[q] = Columns
    BY <1>1 DEF Queue, StoreTypeOK
  <2>3. \A q \in Purchases, c \in Columns : column'[q][c] \in ColumnType[c] \cup {None}
    BY <1>1, ColumnsDef, ColumnTypes DEF Queue, StoreTypeOK
  <2> QED BY <1>1, <2>1, <2>2, <2>3 DEF Queue, StoreTypeOK, States, Pending
<1>2. ASSUME NEW p \in Purchases, NEW o \in Owners, TakeLease(p, o)
      PROVE  StoreTypeOK'
  <2>1. older' \subseteq Purchases \X Purchases
    BY <1>2, TouchType DEF TakeLease, StoreTypeOK
  <2>2. lease' \in [Purchases -> Leases \cup {NoLease}]
    BY <1>2 DEF TakeLease, StoreTypeOK, Leases
  <2> QED BY <1>2, <2>1, <2>2 DEF TakeLease, StoreTypeOK
<1>3. ASSUME NEW p \in Purchases, NEW e \in Retryable, RecordError(p, e)
      PROVE  StoreTypeOK'
  <2>1. older' \subseteq Purchases \X Purchases
    BY <1>3, TouchType DEF RecordError, StoreTypeOK
  <2> QED BY <1>3, <2>1 DEF RecordError, StoreTypeOK
<1>4. ASSUME NEW p \in Purchases, NEW e \in Reviews, RecordManualReview(p, e)
      PROVE  StoreTypeOK'
  <2>1. older' \subseteq Purchases \X Purchases
    BY <1>4, TouchType DEF RecordManualReview, StoreTypeOK
  <2> QED BY <1>4, <2>1 DEF RecordManualReview, StoreTypeOK, States, Terminal
<1>5. ASSUME NEW p \in Purchases, ReleaseLease(p)
      PROVE  StoreTypeOK'
  <2>1. older' \subseteq Purchases \X Purchases
    BY <1>5, TouchType DEF ReleaseLease, StoreTypeOK
  <2> QED BY <1>5, <2>1 DEF ReleaseLease, StoreTypeOK
<1>6. ASSUME NEW p \in Purchases, NEW change, Sound(p, change), Transition(p, change)
      PROVE  StoreTypeOK'
  <2>1. older' \subseteq Purchases \X Purchases
    BY <1>6, TouchType DEF Transition, StoreTypeOK
  <2>2. \A q \in Purchases : DOMAIN column'[q] = Columns
    BY <1>6, TransitionRow DEF StoreTypeOK
  <2>3. \A q \in Purchases, c \in Columns : column'[q][c] \in ColumnType[c] \cup {None}
    BY SMTT(30), <1>6, TransitionRow DEF StoreTypeOK, Sound
  <2>4. state' \in [Purchases -> States \cup {"ABSENT"}]
    BY <1>6, TransitionRow DEF StoreTypeOK, Sound
  <2>5. lease' \in [Purchases -> Leases \cup {NoLease}]
    BY <1>6 DEF Transition, StoreTypeOK
  <2>6. lastError' \in [Purchases -> Retryable \cup Reviews \cup {None}]
    BY <1>6 DEF Transition, StoreTypeOK
  <2> QED BY <1>6, <2>1, <2>2, <2>3, <2>4, <2>5, <2>6, TransitionRow DEF StoreTypeOK
<1>7. ASSUME LeaseTick, UNCHANGED <<state, column, lastError, older>>
      PROVE  StoreTypeOK'
  <2>1. ASSUME NEW p \in Purchases
        PROVE  lease'[p] \in Leases \cup {NoLease}
    <3>1. lease'[p] = [lease[p] EXCEPT !.left = IF @ < 0 THEN @ ELSE @ - 1]
      BY <1>7 DEF LeaseTick
    <3>2. CASE lease[p] = NoLease
      BY <3>1, <3>2 DEF NoLease
    <3>3. CASE lease[p] \in Leases
      BY <3>1, <3>3 DEF Leases
    <3> QED BY <3>2, <3>3 DEF StoreTypeOK
  <2>2. lease' \in [Purchases -> Leases \cup {NoLease}]
    BY <1>7, <2>1 DEF LeaseTick
  <2> QED BY <1>7, <2>2 DEF StoreTypeOK
<1>8. CASE UNCHANGED storeVars
  BY <1>8 DEF StoreTypeOK, storeVars
<1> QED
  BY <1>1, <1>2, <1>3, <1>4, <1>5, <1>6, <1>7, <1>8, StepCases DEF ClaimNext, Claim

\* Every reachable table is well typed, however many rows, coins, bundles and
\* callers there are.
THEOREM StoreTyped == StoreSpec => []StoreTypeOK
<1>1. StoreInit => StoreTypeOK
  BY DEF StoreInit, StoreTypeOK
<1>2. StoreTypeOK /\ [StoreNext]_storeVars => StoreTypeOK'
  BY StoreTypedStep
<1> QED
  BY <1>1, <1>2, PTL DEF StoreSpec

-----------------------------------------------------------------------------
(* The inductive strengthening: a row that does not exist holds nothing, so  *)
(* queueing a purchase overwrites no column.                                *)

AbsentIsEmpty ==
  \A p \in Purchases : state[p] = "ABSENT" => \A c \in Columns : column[p][c] = None

\* A sound change starts from an existing row and ends in one.
LEMMA TransitionExists ==
  ASSUME StoreTypeOK, NEW p \in Purchases, NEW change,
         Sound(p, change), Transition(p, change)
  PROVE  state[p] \in change.from /\ state'[p] = change.to /\ state[p] # "ABSENT"
BY TransitionRow DEF StoreTypeOK, Sound, Transition, Accepts, States, Pending, Terminal

\* The calls that touch neither a state nor a column.
LEMMA LeaseCalls ==
  ASSUME NEW p \in Purchases,
         \/ \E o \in Owners : ClaimNext(p, o) \/ Claim(p, o)
         \/ \E e \in Retryable : RecordError(p, e)
         \/ ReleaseLease(p)
  PROVE  UNCHANGED <<state, column>>
BY DEF ClaimNext, Claim, TakeLease, RecordError, ReleaseLease

\* No call fills a row that does not exist.
LEMMA StoreEmptyStep == StoreTypeOK /\ AbsentIsEmpty /\ [StoreNext]_storeVars => AbsentIsEmpty'
<1> SUFFICES ASSUME StoreTypeOK, AbsentIsEmpty, [StoreNext]_storeVars
             PROVE  AbsentIsEmpty'
  OBVIOUS
<1>1. ASSUME NEW p \in Purchases, NEW x \in Payments, Queue(p, x)
      PROVE  AbsentIsEmpty'
  BY <1>1 DEF Queue, StoreTypeOK, AbsentIsEmpty
<1>2. ASSUME NEW p \in Purchases, NEW e \in Reviews, RecordManualReview(p, e)
      PROVE  AbsentIsEmpty'
  BY <1>2 DEF RecordManualReview, StoreTypeOK, AbsentIsEmpty
<1>3. ASSUME NEW p \in Purchases, NEW change, Sound(p, change), Transition(p, change)
      PROVE  AbsentIsEmpty'
  <2>1. state'[p] # "ABSENT"
    BY <1>3, TransitionExists DEF Sound, States, Pending, Terminal
  <2>2. \A q \in Purchases \ {p} : state'[q] = state[q] /\ column'[q] = column[q]
    BY <1>3, TransitionRow DEF StoreTypeOK
  <2> QED BY <2>1, <2>2 DEF AbsentIsEmpty
<1>4. ASSUME UNCHANGED <<state, column>>
      PROVE  AbsentIsEmpty'
  BY <1>4 DEF AbsentIsEmpty
<1> QED
  BY <1>1, <1>2, <1>3, <1>4, StepCases, LeaseCalls DEF storeVars

\* No call leaves a value in a row that does not exist.
THEOREM StoreEmpty == StoreSpec => []AbsentIsEmpty
<1>1. StoreInit => AbsentIsEmpty
  BY DEF StoreInit, AbsentIsEmpty
<1>2. StoreTypeOK /\ AbsentIsEmpty /\ [StoreNext]_storeVars => AbsentIsEmpty'
  BY StoreEmptyStep
<1> QED
  BY <1>1, <1>2, StoreTyped, PTL DEF StoreSpec

-----------------------------------------------------------------------------
(* Action properties.                                                       *)

Kept == \A p \in Purchases, c \in Columns :
          column[p][c] # None => column'[p][c] = column[p][c]

\* No call replaces what a row has bound.
LEMMA KeptStep ==
  StoreTypeOK /\ AbsentIsEmpty /\ [StoreNext]_storeVars => Kept
<1> SUFFICES ASSUME StoreTypeOK, AbsentIsEmpty, [StoreNext]_storeVars
             PROVE  Kept
  OBVIOUS
<1> USE DEF Kept
<1>1. ASSUME NEW p \in Purchases, NEW x \in Payments, Queue(p, x)
      PROVE  Kept
  <2> SUFFICES ASSUME NEW q \in Purchases, NEW c \in Columns, column[q][c] # None
               PROVE  column'[q][c] = column[q][c]
    OBVIOUS
  <2> QED BY <1>1 DEF Queue, StoreTypeOK, AbsentIsEmpty
<1>2. ASSUME NEW p \in Purchases, NEW change, Sound(p, change), Transition(p, change)
      PROVE  Kept
  BY <1>2, TransitionRow DEF Transition, Accepts, Binds
<1>3. ASSUME UNCHANGED column
      PROVE  Kept
  BY <1>3
<1> QED
  BY <1>1, <1>2, <1>3, StepCases, LeaseCalls DEF RecordManualReview, storeVars

\* A bound column keeps its value for ever, whoever calls what: the exact
\* bundle a retry reads is the bundle the first attempt sealed.
THEOREM ColumnsAreWriteOnce == StoreSpec => WriteOnce
<1>1. StoreTypeOK /\ AbsentIsEmpty /\ [StoreNext]_storeVars => [Kept]_storeVars
  BY KeptStep
<1> QED
  BY <1>1, StoreTyped, StoreEmpty, PTL DEF StoreSpec, WriteOnce, Kept

Forward ==
  \A p \in Purchases : /\ Rank[state'[p]] >= Rank[state[p]]
                       /\ state[p] = "FINALIZED" => state'[p] = "FINALIZED"

\* No call takes a row back.
LEMMA ForwardStep ==
  StoreTypeOK /\ [StoreNext]_storeVars => Forward
<1> SUFFICES ASSUME StoreTypeOK, [StoreNext]_storeVars
             PROVE  Forward
  OBVIOUS
<1> USE DEF Forward, Rank, States, Pending, Terminal
<1>0. \A p \in Purchases : Rank[state[p]] \in Nat
  BY DEF StoreTypeOK
<1>1. ASSUME NEW p \in Purchases, NEW x \in Payments, Queue(p, x)
      PROVE  Forward
  BY <1>1, <1>0 DEF Queue, StoreTypeOK
<1>2. ASSUME NEW p \in Purchases, NEW e \in Reviews, RecordManualReview(p, e)
      PROVE  Forward
  BY <1>2, <1>0 DEF RecordManualReview, AcceptsReview, StoreTypeOK
<1>3. ASSUME NEW p \in Purchases, NEW change, Sound(p, change), Transition(p, change)
      PROVE  Forward
  <2>1. Rank[state'[p]] >= Rank[state[p]]
    BY <1>3, <1>0, TransitionExists DEF Sound
  <2>2. state[p] = "FINALIZED" => state'[p] = "FINALIZED"
    BY <1>3, TransitionExists DEF Sound
  <2>3. \A q \in Purchases \ {p} : state'[q] = state[q]
    BY <1>3, TransitionRow DEF StoreTypeOK
  <2> QED BY <2>1, <2>2, <2>3, <1>0
<1>4. ASSUME UNCHANGED state
      PROVE  Forward
  BY <1>4, <1>0
<1> HIDE DEF Forward
<1> QED
  BY <1>1, <1>2, <1>3, <1>4, StepCases, LeaseCalls DEF storeVars

\* No order of calls takes a purchase to an earlier stage, or out of its final
\* state.
THEOREM StagesOnlyAdvance == StoreSpec => NeverBackward
<1>1. StoreTypeOK /\ [StoreNext]_storeVars => [Forward]_storeVars
  BY ForwardStep
<1> QED
  BY <1>1, StoreTyped, PTL DEF StoreSpec, NeverBackward, Forward

\* A live lease passes to another owner only after it was given up: claim and
\* claim_next never take a row from a worker that holds it.
THEOREM LeasesAreExclusive == StoreSpec => LeaseIsExclusive
<1> DEFINE Held == \A p \in Purchases : lease[p].left >= 0 =>
                     lease'[p].owner \in {lease[p].owner, None}
<1>1. StoreTypeOK /\ [StoreNext]_storeVars => Held
  <2> SUFFICES ASSUME StoreTypeOK, [StoreNext]_storeVars
               PROVE  Held
    OBVIOUS
  <2>0. \A p \in Purchases : lease[p].left >= 0 => ~ (lease[p].left < 0)
    <3> SUFFICES ASSUME NEW p \in Purchases PROVE lease[p].left \in Int
      OBVIOUS
    <3> QED BY LeaseAssumption DEF StoreTypeOK, Leases, NoLease
  <2>1. ASSUME NEW p \in Purchases, NEW o \in Owners, ClaimNext(p, o)
        PROVE  Held
    BY <2>1, <2>0 DEF ClaimNext, Claimable, Lapsed, TakeLease, StoreTypeOK
  <2>2. ASSUME NEW p \in Purchases, NEW o \in Owners, Claim(p, o)
        PROVE  Held
    BY <2>2, <2>0 DEF Claim, Lapsed, TakeLease, StoreTypeOK
  <2>3. ASSUME NEW p \in Purchases, NEW e \in Retryable, RecordError(p, e)
        PROVE  Held
    BY <2>3 DEF RecordError, NoLease, StoreTypeOK
  <2>4. ASSUME NEW p \in Purchases, NEW e \in Reviews, RecordManualReview(p, e)
        PROVE  Held
    BY <2>4 DEF RecordManualReview, NoLease, StoreTypeOK
  <2>5. ASSUME NEW p \in Purchases, ReleaseLease(p)
        PROVE  Held
    BY <2>5 DEF ReleaseLease, NoLease, StoreTypeOK
  <2>6. ASSUME NEW p \in Purchases, NEW change, Transition(p, change)
        PROVE  Held
    BY <2>6 DEF Transition, NoLease, StoreTypeOK
  <2>7. ASSUME LeaseTick
        PROVE  Held
    BY <2>7 DEF LeaseTick, StoreTypeOK, Leases, NoLease
  <2>8. ASSUME UNCHANGED lease
        PROVE  Held
    BY <2>8
  <2> HIDE DEF Held
  <2>9. ASSUME NEW p \in Purchases, NEW x \in Payments, Queue(p, x)
        PROVE  UNCHANGED lease
    BY <2>9 DEF Queue
  <2> QED
    BY <2>1, <2>2, <2>3, <2>4, <2>5, <2>6, <2>7, <2>8, <2>9, StepCases DEF storeVars
<1>2. StoreTypeOK /\ [StoreNext]_storeVars => [Held]_storeVars
  BY <1>1
<1> QED
  BY <1>2, StoreTyped, PTL DEF StoreSpec, LeaseIsExclusive

-----------------------------------------------------------------------------
(* Invariants over rows.                                                    *)

\* No call gives a second purchase what one already holds.
LEMMA HolderStep ==
  StoreTypeOK /\ AbsentIsEmpty /\ OneHolder /\ [StoreNext]_storeVars => OneHolder'
<1> SUFFICES ASSUME StoreTypeOK, AbsentIsEmpty, OneHolder, [StoreNext]_storeVars
             PROVE  OneHolder'
  OBVIOUS
<1> USE DEF OneHolder
<1>0. UniqueColumns \subseteq Columns
  BY ColumnsDef DEF UniqueColumns
<1>1. ASSUME NEW p \in Purchases, NEW x \in Payments, Queue(p, x)
      PROVE  OneHolder'
  <2>1. \A q \in Purchases \ {p} : column'[q] = column[q]
    BY <1>1 DEF Queue, StoreTypeOK
  <2>2. \A c \in Columns : column'[p][c] = IF c = "externalPayment" THEN x ELSE None
    BY <1>1 DEF Queue, StoreTypeOK, AbsentIsEmpty
  <2>3. \A q \in Purchases : column[q]["externalPayment"] # x
    BY <1>1 DEF Queue
  <2> QED BY <1>0, <2>1, <2>2, <2>3
<1>2. ASSUME NEW p \in Purchases, NEW change, Sound(p, change), Transition(p, change)
      PROVE  OneHolder'
  <2>1. \A q \in Purchases \ {p} : column'[q] = column[q]
    BY <1>2, TransitionRow
  <2>2. \A c \in UniqueColumns :
          \/ column'[p][c] = column[p][c]
          \/ \A q \in Purchases : column[q][c] # column'[p][c]
    BY <1>0, <1>2, TransitionRow DEF Transition, Accepts, Binds
  <2> QED BY <2>1, <2>2
<1>3. ASSUME UNCHANGED column
      PROVE  OneHolder'
  BY <1>3
<1> HIDE DEF OneHolder
<1> QED
  BY <1>1, <1>2, <1>3, StepCases, LeaseCalls DEF RecordManualReview, storeVars

\* No two purchases ever hold the same payment, receipt input, bundle id or
\* settlement authorization.
THEOREM HoldersAreUnique == StoreSpec => []OneHolder
<1>0. UniqueColumns \subseteq Columns
  BY ColumnsDef DEF UniqueColumns
<1>1. StoreInit => OneHolder
  BY <1>0 DEF StoreInit, OneHolder
<1>2. StoreTypeOK /\ AbsentIsEmpty /\ OneHolder /\ [StoreNext]_storeVars => OneHolder'
  BY HolderStep
<1> QED
  BY <1>1, <1>2, StoreTyped, StoreEmpty, PTL DEF StoreSpec

LEMMA StageColumnsAreColumns ==
  \A s \in States \cup {"ABSENT"} : StageColumns[s] \subseteq Columns
BY ColumnsDef DEF States, Pending, Terminal, StageColumns, Funded, Prepared

\* No call moves a row to a stage before its commitments are recorded.
LEMMA EvidenceStep ==
  StoreTypeOK /\ AbsentIsEmpty /\ StageEvidence /\ [StoreNext]_storeVars
    => StageEvidence'
<1> SUFFICES ASSUME StoreTypeOK, AbsentIsEmpty, StageEvidence, [StoreNext]_storeVars
             PROVE  StageEvidence'
  OBVIOUS
<1>1. ASSUME NEW p \in Purchases, NEW x \in Payments, Queue(p, x)
      PROVE  StageEvidence'
  <2>1. \A q \in Purchases \ {p} : state'[q] = state[q] /\ column'[q] = column[q]
    BY <1>1 DEF Queue, StoreTypeOK
  <2>2. state'[p] = "PAYMENT_VERIFIED" /\ column'[p]["externalPayment"] = x
    BY <1>1, ColumnsDef DEF Queue, StoreTypeOK
  <2>3. StageColumns["PAYMENT_VERIFIED"] = {"externalPayment"}
    BY DEF StageColumns
  <2>4. x # None
    BY NullAssumption
  <2> QED BY <2>1, <2>2, <2>3, <2>4 DEF StageEvidence
<1>2. ASSUME NEW p \in Purchases, NEW e \in Reviews, RecordManualReview(p, e)
      PROVE  StageEvidence'
  BY <1>2 DEF RecordManualReview, StoreTypeOK, StageEvidence, StageColumns
<1>3. ASSUME NEW p \in Purchases, NEW change, Sound(p, change), Transition(p, change)
      PROVE  StageEvidence'
  <2>1. \A q \in Purchases \ {p} : state'[q] = state[q] /\ column'[q] = column[q]
    BY <1>3, TransitionRow DEF StoreTypeOK
  <2>2. \A c \in DOMAIN change.values : column'[p][c] # None
    BY <1>3, TransitionRow, NoneIsNoValue DEF Sound
  <2>3. ASSUME NEW c \in StageColumns[change.to]
        PROVE  column'[p][c] # None
    <3>1. c \in Columns
      BY <1>3, StageColumnsAreColumns DEF Sound
    <3>2. CASE c \in DOMAIN change.values
      BY <3>2, <2>2
    <3>3. CASE c \notin DOMAIN change.values
      <4>1. c \in StageColumns[state[p]]
        BY <1>3, <3>3, TransitionExists DEF Sound
      <4>2. column'[p][c] = column[p][c]
        BY <1>3, <3>1, <3>3, TransitionRow
      <4> QED BY <4>1, <4>2 DEF StageEvidence
    <3> QED BY <3>2, <3>3
  <2>4. state'[p] = "FINALIZED" /\ Rail[p] = "base_usdc" => column'[p]["evidence"] # None
    BY <1>3, <2>2, TransitionExists DEF Sound
  <2>5. state'[p] = change.to
    BY <1>3, TransitionExists
  <2> QED BY <2>1, <2>3, <2>4, <2>5 DEF StageEvidence
<1>4. ASSUME UNCHANGED <<state, column>>
      PROVE  StageEvidence'
  BY <1>4 DEF StageEvidence
<1> QED
  BY <1>1, <1>2, <1>3, <1>4, StepCases, LeaseCalls DEF storeVars

\* A row is never in a stage whose commitments it does not hold, and a Base
\* purchase is never finalized without the evidence of its settlement.
THEOREM StagesHaveEvidence == StoreSpec => []StageEvidence
<1>1. StoreInit => StageEvidence
  BY DEF StoreInit, StageEvidence, StageColumns
<1>2. StoreTypeOK /\ AbsentIsEmpty /\ StageEvidence /\ [StoreNext]_storeVars
        => StageEvidence'
  BY EvidenceStep
<1> QED
  BY <1>1, <1>2, StoreTyped, StoreEmpty, PTL DEF StoreSpec

(***************************************************************************)
(* PART TWO: the workers, the chain and the services around them.          *)
(***************************************************************************)

JobFields == {"pc", "op", "row", "held", "left"}
ExactColumns == {"receiptExact", "deliveryExact"}
Committing == {"rfp_seal", "rfp_dispatch", "dp_seal", "dp_dispatch"}

JobShaped ==
  /\ DOMAIN job = Workers
  /\ \A w \in Workers : DOMAIN job[w] = JobFields

Shaped ==
  /\ DOMAIN state = Purchases
  /\ DOMAIN column = Purchases
  /\ \A p \in Purchases : DOMAIN column[p] = Columns

\* An exact bundle in a row is a bundle of that purchase and that column.
RowsOwn ==
  \A p \in Purchases, c \in ExactColumns : column[p][c] \in ExactBundles =>
    column[p][c].purchase = p /\ ExactColumn(column[p][c]) = c

IsSealed(b) == column[b.purchase][ExactColumn(b)] = b

Advance(w) ==
  /\ Running(w) =>
       /\ job[w].op \in Purchases
       /\ \A c \in ExactColumns : job[w].row.column[c] # None =>
            column[job[w].op][c] = job[w].row.column[c]
  /\ job[w].pc \in Committing /\ job[w].held \in ExactBundles =>
       /\ job[w].pc = "rfp_seal" =>
            job[w].held.purchase = job[w].op /\ ExactColumn(job[w].held) = "receiptExact"
       /\ job[w].pc = "dp_seal" =>
            job[w].held.purchase = job[w].op /\ ExactColumn(job[w].held) = "deliveryExact"
       /\ job[w].pc \in {"rfp_dispatch", "dp_dispatch"} => IsSealed(job[w].held)

PendingIsDelivered ==
  \A p \in Purchases : state[p] = "EXTERNAL_SETTLEMENT_PENDING" => Delivered(p)

IInv ==
  /\ JobShaped /\ Shaped
  /\ RowsOwn
  /\ \A w \in Workers : Advance(w)
  /\ DispatchedIsSealed
  /\ PendingIsDelivered
  /\ CaptureAfterDelivery

-----------------------------------------------------------------------------
(* What the writes of a worker do to its job.                               *)

LEMMA GotoShape ==
  ASSUME JobShaped, NEW w \in Workers, NEW pc, Goto(w, pc)
  PROVE  /\ JobShaped'
         /\ \A v \in Workers \ {w} : job'[v] = job[v]
         /\ job'[w].pc = pc
         /\ job'[w].op = job[w].op
         /\ job'[w].row = job[w].row
         /\ job'[w].held = job[w].held
BY DEF Goto, JobShaped, JobFields

LEMMA HoldShape ==
  ASSUME JobShaped, NEW w \in Workers, NEW pc, NEW what, Hold(w, pc, what)
  PROVE  /\ JobShaped'
         /\ \A v \in Workers \ {w} : job'[v] = job[v]
         /\ job'[w].pc = pc
         /\ job'[w].op = job[w].op
         /\ job'[w].row = job[w].row
         /\ job'[w].held = what
BY DEF Hold, JobShaped, JobFields

LEMMA FinishShape ==
  ASSUME JobShaped, NEW w \in Workers, Finish(w)
  PROVE  /\ JobShaped'
         /\ \A v \in Workers \ {w} : job'[v] = job[v]
         /\ job'[w].pc = "idle"
BY DEF Finish, JobShaped, JobFields, Idle

-----------------------------------------------------------------------------
(* Steps that touch no exact bundle.                                        *)

\* The table keeps its shape and its exact bundles, and a row starts waiting
\* for settlement only if its delivery is in a block.
Quiet ==
  /\ Shaped'
  /\ \A p \in Purchases, c \in ExactColumns : column'[p][c] = column[p][c]
  /\ \A p \in Purchases : state'[p] = "EXTERNAL_SETTLEMENT_PENDING" =>
       state[p] = "EXTERNAL_SETTLEMENT_PENDING" \/ Delivered(p)

\* A change of p that binds no exact bundle and leads to the settlement only from
\* there, or after the delivery.
Plain(p, change) ==
  /\ DOMAIN change.values \cap ExactColumns = {}
  /\ change.to = "EXTERNAL_SETTLEMENT_PENDING" =>
       change.from = {"EXTERNAL_SETTLEMENT_PENDING"} \/ Delivered(p)

LEMMA QuietTransition ==
  ASSUME Shaped, NEW p \in Purchases, NEW change, Plain(p, change), Transition(p, change)
  PROVE  Quiet
<1>1. ExactColumns \subseteq Columns
  BY DEF ExactColumns, Columns, ColumnType
<1>2. state' = [state EXCEPT ![p] = change.to] /\ state[p] \in change.from
  BY DEF Transition, Accepts
<1>3. column' = [column EXCEPT ![p] =
        [c \in Columns |-> IF c \in DOMAIN change.values THEN change.values[c]
                                                         ELSE column[p][c]]]
  BY DEF Transition
<1>4. Shaped'
  BY <1>2, <1>3 DEF Shaped
<1> QED
  BY <1>1, <1>2, <1>3, <1>4 DEF Shaped, Quiet, Plain

LEMMA QuietCalls ==
  ASSUME Shaped, NEW p \in Purchases
  PROVE  /\ UNCHANGED storeVars => Quiet
         /\ ReleaseLease(p) => Quiet
         /\ \A o : TakeLease(p, o) => Quiet
         /\ \A e : RecordError(p, e) => Quiet
         /\ \A e : RecordManualReview(p, e) => Quiet
         /\ \A x : Queue(p, x) => Quiet
<1>1. ASSUME UNCHANGED <<state, column>>
      PROVE  Quiet
  BY <1>1 DEF Shaped, Quiet
<1>2. ASSUME NEW e, RecordManualReview(p, e)
      PROVE  Quiet
  BY <1>2 DEF Shaped, Quiet, RecordManualReview
<1>3. ASSUME NEW x, Queue(p, x)
      PROVE  Quiet
  <2>1. "externalPayment" \notin ExactColumns
    BY DEF ExactColumns
  <2>2. /\ state' = [state EXCEPT ![p] = "PAYMENT_VERIFIED"]
        /\ column' = [column EXCEPT ![p]["externalPayment"] = x]
    BY <1>3 DEF Queue
  <2> QED
    BY <2>1, <2>2 DEF Shaped, Quiet
<1> QED
  BY <1>1, <1>2, <1>3 DEF storeVars, ReleaseLease, TakeLease, RecordError

\* What is in flight, mined and captured is as before.
Still == UNCHANGED <<executor, mempool, mined, settled>>

\* A step of w that commits nothing: it ends, or goes on to an await at which
\* no bundle is in its hands.
Harmless(w) ==
  /\ Quiet /\ Still /\ JobShaped'
  /\ \A v \in Workers \ {w} : job'[v] = job[v]
  /\ \/ job'[w].pc \in Resting
     \/ /\ job'[w].pc \notin Resting \cup Committing
        /\ Running(w)
        /\ job'[w].op = job[w].op
        /\ job'[w].row = job[w].row

LEMMA ExactInColumns ==
  /\ ExactColumns \subseteq Columns
  /\ \A b \in ExactBundles : b.purchase \in Purchases /\ ExactColumn(b) \in ExactColumns
BY DEF ExactColumns, Columns, ColumnType, ExactBundles, ReceiptBundles, DeliveryBundles, ExactColumn

\* What a quiet step leaves of the invariant, whatever the jobs do.
LEMMA QuietKeeps ==
  ASSUME IInv, Quiet,
         mined \subseteq mined',
         ExactBundles \cap (executor' \cup mempool' \cup mined')
           \subseteq executor \cup mempool \cup mined,
         \A p \in settled' : p \in settled \/ Delivered(p)
  PROVE  /\ Shaped' /\ RowsOwn' /\ DispatchedIsSealed'
         /\ PendingIsDelivered' /\ CaptureAfterDelivery'
<1>1. \A p \in Purchases, c \in ExactColumns : column'[p][c] = column[p][c]
  BY DEF Quiet
<1>2. Shaped'
  BY DEF Quiet
<1>3. RowsOwn'
  BY <1>1 DEF IInv, RowsOwn
<1>4. DispatchedIsSealed'
  BY <1>1, ExactInColumns DEF IInv, DispatchedIsSealed
<1>5. \A p : Delivered(p) => Delivered(p)'
  BY DEF Delivered
<1>6. PendingIsDelivered' /\ CaptureAfterDelivery'
  BY <1>5 DEF IInv, Quiet, PendingIsDelivered, CaptureAfterDelivery
<1> QED
  BY <1>2, <1>3, <1>4, <1>6

\* A worker whose job a quiet step does not touch is where it was.
LEMMA QuietOthers ==
  ASSUME Quiet, NEW v \in Workers, Advance(v), job'[v] = job[v]
  PROVE  Advance(v)'
<1>1. \A p \in Purchases, c \in ExactColumns : column'[p][c] = column[p][c]
  BY DEF Quiet
<1>2. \A b \in ExactBundles : IsSealed(b) => IsSealed(b)'
  BY <1>1, ExactInColumns DEF IsSealed
<1> QED
  BY <1>1, <1>2 DEF Advance, Running

\* A quiet step of w keeps the invariant if it leaves w where it may be.
LEMMA StillKeeps ==
  ASSUME IInv, NEW w \in Workers, Quiet, Still, JobShaped', Advance(w)',
         \A v \in Workers \ {w} : job'[v] = job[v]
  PROVE  IInv'
<1>1. /\ Shaped' /\ RowsOwn' /\ DispatchedIsSealed'
      /\ PendingIsDelivered' /\ CaptureAfterDelivery'
  BY QuietKeeps DEF Still
<1>2. ASSUME NEW v \in Workers \ {w}
      PROVE  Advance(v)'
  BY QuietOthers DEF IInv
<1> QED
  BY <1>1, <1>2 DEF IInv

LEMMA HarmlessKeeps ==
  ASSUME IInv, NEW w \in Workers, Harmless(w)
  PROVE  IInv'
<1>1. \A p \in Purchases, c \in ExactColumns : column'[p][c] = column[p][c]
  BY DEF Harmless, Quiet
<1>2. job'[w].pc \notin Committing
  BY DEF Harmless, Resting, Committing
<1>3. Running(w)' => /\ Running(w)
                     /\ job'[w].op = job[w].op
                     /\ job'[w].row = job[w].row
  BY DEF Harmless, Running
<1>4. Advance(w)
  BY DEF IInv
<1>5. Advance(w)'
  BY <1>1, <1>2, <1>3, <1>4 DEF Advance, Committing
<1> QED
  BY <1>5, StillKeeps DEF Harmless

-----------------------------------------------------------------------------
(* The ways an advance ends or goes on, each harmless.                      *)

LEMMA Ends ==
  ASSUME IInv, NEW w \in Workers, Running(w), UNCHANGED settled
  PROVE  /\ Release(w) => Harmless(w)
         /\ Fail(w) => Harmless(w)
         /\ ManualReview(w) => Harmless(w)
         /\ \A change : Plain(job[w].op, change) /\ Record(w, change) => Harmless(w)
<1>1. job[w].op \in Purchases /\ Shaped /\ JobShaped
  BY DEF IInv, Advance
<1>2. ASSUME Quiet, Finish(w), UNCHANGED <<indexVars, chainVars>>
      PROVE  Harmless(w)
  <2>1. /\ JobShaped'
        /\ \A v \in Workers \ {w} : job'[v] = job[v]
        /\ job'[w].pc = "idle"
    BY <1>1, <1>2, FinishShape
  <2> QED
    BY <1>2, <2>1 DEF Harmless, Still, chainVars, Resting
<1>3. Release(w) => Harmless(w)
  BY <1>1, <1>2, QuietCalls DEF Release
<1>4. Fail(w) => Harmless(w)
  BY <1>1, <1>2, QuietCalls DEF Fail
<1>5. ManualReview(w) => Harmless(w)
  BY <1>1, <1>2, QuietCalls DEF ManualReview
<1>6. ASSUME NEW change, Plain(job[w].op, change), Record(w, change)
      PROVE  Harmless(w)
  BY <1>1, <1>2, <1>4, <1>6, QuietTransition DEF Record
<1> QED
  BY <1>3, <1>4, <1>5, <1>6

LEMMA GoesOn ==
  ASSUME IInv, NEW w \in Workers, Running(w), UNCHANGED settled, Quiet,
         UNCHANGED chainVars, NEW pc, pc \notin Resting \cup Committing
  PROVE  /\ Goto(w, pc) => Harmless(w)
         /\ \A x : Hold(w, pc, x) => Harmless(w)
<1>1. JobShaped
  BY DEF IInv
<1>2. ASSUME Goto(w, pc)
      PROVE  Harmless(w)
  <2>1. /\ JobShaped'
        /\ \A v \in Workers \ {w} : job'[v] = job[v]
        /\ job'[w].pc = pc /\ job'[w].op = job[w].op /\ job'[w].row = job[w].row
    BY <1>1, <1>2, GotoShape
  <2> QED
    BY <2>1 DEF Harmless, Still, chainVars
<1>3. ASSUME NEW x, Hold(w, pc, x)
      PROVE  Harmless(w)
  <2>1. /\ JobShaped'
        /\ \A v \in Workers \ {w} : job'[v] = job[v]
        /\ job'[w].pc = pc /\ job'[w].op = job[w].op /\ job'[w].row = job[w].row
    BY <1>1, <1>3, HoldShape
  <2> QED
    BY <2>1 DEF Harmless, Still, chainVars
<1> QED
  BY <1>2, <1>3

LEMMA Observes ==
  ASSUME IInv, NEW w \in Workers, Running(w), UNCHANGED settled,
         NEW pc, pc \notin Resting \cup Committing
  PROVE  /\ Observe(w, pc) => Harmless(w)
         /\ \A x : ObserveHold(w, pc, x) => Harmless(w)
<1>1. UNCHANGED storeVars => Quiet
  <2>1. ASSUME UNCHANGED <<state, column>>
        PROVE  Quiet
    BY <2>1 DEF IInv, Shaped, Quiet
  <2> QED
    BY <2>1 DEF storeVars
<1> QED
  BY <1>1, GoesOn DEF Observe, ObserveHold

LEMMA SealsPlain ==
  ASSUME IInv, NEW w \in Workers, Running(w), UNCHANGED settled,
         NEW pc, pc \notin Resting \cup Committing,
         NEW change, SealExact(w, change, pc), Plain(job[w].op, change)
  PROVE  Harmless(w)
<1>1. job[w].op \in Purchases /\ Shaped
  BY DEF IInv, Advance
<1>2. CASE Transition(job[w].op, change) /\ Goto(w, pc) /\ UNCHANGED <<indexVars, chainVars>>
  BY <1>1, <1>2, QuietTransition, GoesOn
<1>3. CASE Fail(w)
  BY <1>3, Ends
<1> QED
  BY <1>2, <1>3 DEF SealExact

-----------------------------------------------------------------------------
(* The steps that commit.                                                   *)

\* A bundle taken from the snapshot to be dispatched again is sealed.
LEMMA TakesUp ==
  ASSUME IInv, NEW w \in Workers, Running(w), UNCHANGED settled,
         NEW pc \in {"rfp_dispatch", "dp_dispatch"}, NEW c \in ExactColumns,
         Col(w, c) # None, ObserveHold(w, pc, Col(w, c))
  PROVE  IInv'
<1>1. /\ job[w].op \in Purchases
      /\ column[job[w].op][c] = Col(w, c)
  BY DEF IInv, Advance, Col
<1>2. Col(w, c) \in ExactBundles => IsSealed(Col(w, c))
  BY <1>1 DEF IInv, RowsOwn, IsSealed
<1>3. Quiet /\ Still /\ UNCHANGED column
  <2>1. ASSUME UNCHANGED <<state, column>>
        PROVE  Quiet
    BY <2>1 DEF IInv, Shaped, Quiet
  <2> QED
    BY <2>1 DEF ObserveHold, Still, storeVars, chainVars
<1>4. /\ JobShaped'
      /\ \A v \in Workers \ {w} : job'[v] = job[v]
      /\ job'[w].pc = pc /\ job'[w].op = job[w].op
      /\ job'[w].row = job[w].row /\ job'[w].held = Col(w, c)
  BY HoldShape DEF IInv, ObserveHold
<1>5. Advance(w)'
  <2>1. Advance(w)
    BY DEF IInv
  <2>2. \A b : IsSealed(b) => IsSealed(b)'
    BY <1>3 DEF IsSealed
  <2> QED
    BY <1>2, <1>3, <1>4, <2>1, <2>2 DEF Advance, Running, Resting
<1> QED
  BY <1>3, <1>4, <1>5, StillKeeps

\* A funded bundle is for the purchase it was funded for.
LEMMA Funds ==
  ASSUME IInv, NEW w \in Workers, Running(w), UNCHANGED settled,
         NEW b, b.purchase = job[w].op,
         NEW pc, \/ pc = "rfp_seal" /\ ExactColumn(b) = "receiptExact"
                 \/ pc = "dp_seal"  /\ ExactColumn(b) = "deliveryExact",
         ObserveHold(w, pc, b)
  PROVE  IInv'
<1>1. Quiet /\ Still /\ UNCHANGED column
  <2>1. ASSUME UNCHANGED <<state, column>>
        PROVE  Quiet
    BY <2>1 DEF IInv, Shaped, Quiet
  <2> QED
    BY <2>1 DEF ObserveHold, Still, storeVars, chainVars
<1>2. /\ JobShaped'
      /\ \A v \in Workers \ {w} : job'[v] = job[v]
      /\ job'[w].pc = pc /\ job'[w].op = job[w].op
      /\ job'[w].row = job[w].row /\ job'[w].held = b
  BY HoldShape DEF IInv, ObserveHold
<1>3. Advance(w)'
  <2>1. Advance(w)
    BY DEF IInv
  <2> QED
    BY <1>1, <1>2, <2>1 DEF Advance, Running, Resting, ExactColumn
<1> QED
  BY <1>1, <1>2, <1>3, StillKeeps

\* Sealing puts the bundle in its own column, where nothing else was.
LEMMA Seals ==
  ASSUME IInv, NEW w \in Workers, Running(w), UNCHANGED settled,
         NEW pc \in {"rfp_dispatch", "dp_dispatch"}, NEW c \in ExactColumns,
         NEW change, DOMAIN change.values = {c}, change.values[c] = job[w].held,
         change.to # "EXTERNAL_SETTLEMENT_PENDING",
         job[w].held \in ExactBundles =>
           job[w].held.purchase = job[w].op /\ ExactColumn(job[w].held) = c,
         SealExact(w, change, pc)
  PROVE  IInv'
<1> DEFINE p == job[w].op
<1>1. p \in Purchases /\ Shaped
  BY DEF IInv, Advance
<1>2. CASE Fail(w)
  BY <1>2, Ends, HarmlessKeeps
<1>3. CASE Transition(p, change) /\ Goto(w, pc) /\ UNCHANGED <<indexVars, chainVars>>
  <2>1. /\ state' = [state EXCEPT ![p] = change.to]
        /\ column' = [column EXCEPT ![p] =
             [d \in Columns |-> IF d \in DOMAIN change.values THEN change.values[d]
                                                              ELSE column[p][d]]]
    BY <1>3 DEF Transition
  <2>2. \A d \in Columns : column[p][d] # None => column'[p][d] = column[p][d]
    BY <1>1, <1>3, <2>1 DEF Shaped, Transition, Accepts, Binds
  <2>3. \A q \in Purchases \ {p} : column'[q] = column[q]
    BY <2>1, <1>1 DEF Shaped
  <2>4. Shaped'
    BY <1>1, <2>1 DEF Shaped
  <2>5. column'[p][c] = job[w].held
    BY <1>1, <2>1, ExactInColumns DEF Shaped
  <2>6. \A d \in ExactColumns \ {c} : column'[p][d] = column[p][d]
    BY <1>1, <2>1, ExactInColumns DEF Shaped
  <2>7. RowsOwn'
    BY <2>3, <2>5, <2>6 DEF IInv, RowsOwn
  <2>8. \A b \in ExactBundles : IsSealed(b) => IsSealed(b)'
    BY <2>2, <2>3, ExactInColumns, NullAssumption DEF IsSealed
  <2>9. UNCHANGED <<executor, mempool, mined>>
    BY <1>3 DEF chainVars
  <2>10. DispatchedIsSealed'
    BY <2>8, <2>9 DEF IInv, DispatchedIsSealed, IsSealed
  <2>11. PendingIsDelivered' /\ CaptureAfterDelivery'
    BY <1>1, <2>1, <2>9 DEF IInv, Shaped, PendingIsDelivered, CaptureAfterDelivery, Delivered
  <2>12. /\ JobShaped'
         /\ \A v \in Workers \ {w} : job'[v] = job[v]
         /\ job'[w].pc = pc /\ job'[w].op = p
         /\ job'[w].row = job[w].row /\ job'[w].held = job[w].held
    BY <1>3, GotoShape DEF IInv
  <2>13. ASSUME NEW v \in Workers
         PROVE  /\ Running(v) =>
                     \A d \in ExactColumns : job[v].row.column[d] # None =>
                       column'[job[v].op][d] = job[v].row.column[d]
                /\ Advance(v)
    BY <2>2, <2>3, ExactInColumns DEF IInv, Advance
  <2>14. ASSUME NEW v \in Workers \ {w}
         PROVE  Advance(v)'
    BY <2>8, <2>12, <2>13 DEF Advance, Running
  <2>15. job'[w].held \in ExactBundles => IsSealed(job[w].held)'
    BY <2>5, <2>12 DEF IsSealed
  <2>16. Advance(w)'
    BY <1>1, <2>12, <2>13, <2>15 DEF Advance, Running, Resting, IsSealed
  <2> QED
    BY <2>4, <2>7, <2>10, <2>11, <2>12, <2>14, <2>16 DEF IInv
<1> QED
  BY <1>2, <1>3 DEF SealExact

\* What is dispatched is sealed.
LEMMA Dispatches ==
  ASSUME IInv, NEW w \in Workers, job[w].pc \in {"rfp_dispatch", "dp_dispatch"},
         UNCHANGED settled, NEW pc, pc \notin Resting \cup Committing, Dispatch(w, pc)
  PROVE  IInv'
<1>1. Running(w) /\ Advance(w)
  BY DEF IInv, Running, Resting
<1>2. /\ executor' = executor \cup {job[w].held}
      /\ UNCHANGED <<state, column, mempool, mined>>
  BY DEF Dispatch, storeVars
<1>3. /\ Shaped' /\ RowsOwn' /\ PendingIsDelivered' /\ CaptureAfterDelivery'
  BY <1>2 DEF IInv, Shaped, RowsOwn, PendingIsDelivered, CaptureAfterDelivery, Delivered
<1>4. DispatchedIsSealed'
  BY <1>1, <1>2 DEF IInv, DispatchedIsSealed, Advance, IsSealed, Committing
<1>5. /\ JobShaped'
      /\ \A v \in Workers \ {w} : job'[v] = job[v]
      /\ job'[w].pc = pc /\ job'[w].op = job[w].op
      /\ job'[w].row = job[w].row /\ job'[w].held = job[w].held
  BY GotoShape DEF IInv, Dispatch
<1>6. \A v \in Workers : Advance(v)'
  BY <1>1, <1>2, <1>5 DEF IInv, Advance, Running, IsSealed, Committing
<1> QED
  BY <1>3, <1>4, <1>5, <1>6 DEF IInv

-----------------------------------------------------------------------------
(* Every step of a worker.                                                  *)

LEMMA PlainChanges ==
  ASSUME NEW p
  PROVE  /\ \A i : Plain(p, RecordReceiptPrepared(i))
         /\ \A b, at : /\ Plain(p, RecordReceiptFunding(b, at))
                       /\ Plain(p, RecordDeliverySubmission(b, at))
         /\ Plain(p, RecordReceiptConfirmed)
         /\ \A q : Plain(p, RecordDeliveryPrepared(q))
         /\ \A b : Delivered(p) => Plain(p, RecordDeliveryConfirmed(p, b))
         /\ Plain(p, RecordExternalSettlementAuthorization(p))
         /\ Plain(p, RecordExternalSettlementFinalized(p))
<1> USE DEF Plain, ExactColumns, Change
<1>1. \A i : Plain(p, RecordReceiptPrepared(i))
  BY DEF RecordReceiptPrepared
<1>2. \A b, at : /\ Plain(p, RecordReceiptFunding(b, at))
                /\ Plain(p, RecordDeliverySubmission(b, at))
  BY DEF RecordReceiptFunding, RecordDeliverySubmission
<1>3. Plain(p, RecordReceiptConfirmed)
  BY DEF RecordReceiptConfirmed, NoColumns
<1>4. \A q : Plain(p, RecordDeliveryPrepared(q))
  BY DEF RecordDeliveryPrepared
<1>5. \A b : Delivered(p) => Plain(p, RecordDeliveryConfirmed(p, b))
  BY DEF RecordDeliveryConfirmed, RecordFinalized
<1>6. /\ Plain(p, RecordExternalSettlementAuthorization(p))
      /\ Plain(p, RecordExternalSettlementFinalized(p))
  BY DEF RecordExternalSettlementAuthorization, RecordExternalSettlementFinalized
<1> QED
  BY <1>1, <1>2, <1>3, <1>4, <1>5, <1>6

\* The receipt half of an advance.
LEMMA ReceiptSteps ==
  ASSUME IInv, NEW w \in Workers, UNCHANGED settled,
         \/ ReadTill(w)          \/ PickReceiptInput(w)
         \/ ReadReceiptOutput(w) \/ ReadReceiptInput(w) \/ ReadReceiptMempool(w)
         \/ FundReceipt(w)       \/ SealReceipt(w)
         \/ DispatchReceipt(w)   \/ ReceiptAccepted(w)
         \/ ConfirmReceipt(w)    \/ ReadReceipt(w)
  PROVE  IInv'
<1> USE DEF At, Running, Resting, Committing, Op
<1>1. CASE ReadTill(w)
  BY <1>1, Observes, HarmlessKeeps DEF ReadTill
<1>2. CASE PickReceiptInput(w)
  BY <1>2, Ends, PlainChanges, HarmlessKeeps DEF PickReceiptInput
<1>3. CASE ReadReceiptOutput(w)
  BY <1>3, Ends, Observes, PlainChanges, HarmlessKeeps DEF ReadReceiptOutput
<1>4. CASE ReadReceiptInput(w)
  BY <1>4, Observes, HarmlessKeeps DEF ReadReceiptInput
<1>5. CASE ReadReceiptMempool(w)
  <2> DEFINE exact == Col(w, "receiptExact")
  <2>1. CASE exact = None /\ Observe(w, "rfp_fund")
    BY <1>5, <2>1, Observes, HarmlessKeeps DEF ReadReceiptMempool
  <2>2. CASE exact # None /\ ObserveHold(w, "rfp_dispatch", exact)
    BY <1>5, <2>2, TakesUp DEF ReadReceiptMempool, ExactColumns
  <2>3. CASE Record(w, RecordReceiptFunding(exact, w)) \/ ManualReview(w)
    BY <1>5, <2>3, Ends, PlainChanges, HarmlessKeeps DEF ReadReceiptMempool
  <2> QED
    BY <1>5, <2>1, <2>2, <2>3 DEF ReadReceiptMempool
<1>6. CASE FundReceipt(w)
  <2>1. CASE Fail(w)
    BY <1>6, <2>1, Ends, HarmlessKeeps DEF FundReceipt
  <2>2. ASSUME NEW fee, ObserveHold(w, "rfp_seal", ReceiptBundle(Op(w), Col(w, "receiptInput"), fee))
        PROVE  IInv'
    BY <1>6, <2>2, Funds DEF FundReceipt, ReceiptBundle, ExactColumn
  <2> QED
    BY <1>6, <2>1, <2>2 DEF FundReceipt
<1>7. CASE SealReceipt(w)
  <2>1. Advance(w) /\ Running(w)
    BY <1>7 DEF IInv, SealReceipt
  <2> QED
    BY <1>7, <2>1, Seals
    DEF SealReceipt, Advance, BindReceiptExactBundle, Seal, ExactColumns
<1>8. CASE DispatchReceipt(w)
  BY <1>8, Dispatches DEF DispatchReceipt
<1>9. CASE ReceiptAccepted(w)
  BY <1>9, Ends, PlainChanges, HarmlessKeeps DEF ReceiptAccepted
<1>10. CASE ConfirmReceipt(w)
  BY <1>10, Ends, PlainChanges, HarmlessKeeps DEF ConfirmReceipt
<1>11. CASE ReadReceipt(w)
  BY <1>11, Ends, Observes, HarmlessKeeps DEF ReadReceipt
<1> QED
  BY <1>1, <1>2, <1>3, <1>4, <1>5, <1>6, <1>7, <1>8, <1>9, <1>10, <1>11

\* The delivery half.
LEMMA DeliverySteps ==
  ASSUME IInv, NEW w \in Workers, UNCHANGED settled,
         \/ PrepareDelivery(w)     \/ RecordPrepared(w)
         \/ ReadDeliveryOutputs(w) \/ ReadDeliveryMempool(w) \/ ReadDeliveryInputs(w)
         \/ FundDelivery(w)        \/ SealDelivery(w)
         \/ DispatchDelivery(w)    \/ DeliveryAccepted(w)    \/ RecordSubmission(w)
         \/ ConfirmDelivery(w)
  PROVE  IInv'
<1> USE DEF At, Running, Resting, Committing, Op
<1>0. UNCHANGED storeVars => Quiet
  <2>1. ASSUME UNCHANGED <<state, column>>
        PROVE  Quiet
    BY <2>1 DEF IInv, Shaped, Quiet
  <2> QED
    BY <2>1 DEF storeVars
<1>1. CASE PrepareDelivery(w)
  BY <1>1, <1>0, Ends, GoesOn, HarmlessKeeps DEF PrepareDelivery
<1>2. CASE RecordPrepared(w)
  BY <1>2, Ends, PlainChanges, HarmlessKeeps DEF RecordPrepared
<1>3. ASSUME Running(w), BeginConfirmation(w)
      PROVE  IInv'
  BY <1>3, Ends, Observes, HarmlessKeeps DEF BeginConfirmation
<1>4. ASSUME Running(w), NEW b, BindGovernedSubmission(w, b)
      PROVE  IInv'
  BY <1>4, <1>0, Ends, GoesOn, HarmlessKeeps DEF BindGovernedSubmission
<1>5. CASE ReadDeliveryOutputs(w)
  BY <1>5, <1>3, Observes, HarmlessKeeps DEF ReadDeliveryOutputs
<1>6. CASE ReadDeliveryMempool(w)
  BY <1>6, <1>4, Ends, Observes, HarmlessKeeps DEF ReadDeliveryMempool
<1>7. CASE ReadDeliveryInputs(w)
  <2> DEFINE exact == Col(w, "deliveryExact")
  <2>1. CASE ManualReview(w)
    BY <1>7, <2>1, Ends, HarmlessKeeps DEF ReadDeliveryInputs
  <2>2. CASE exact = None /\ Observe(w, "dp_fund")
    BY <1>7, <2>2, Observes, HarmlessKeeps DEF ReadDeliveryInputs
  <2>3. CASE exact # None /\ ObserveHold(w, "dp_dispatch", exact)
    BY <1>7, <2>3, TakesUp DEF ReadDeliveryInputs, ExactColumns
  <2> QED
    BY <1>7, <2>1, <2>2, <2>3 DEF ReadDeliveryInputs
<1>8. CASE FundDelivery(w)
  <2>1. CASE Fail(w)
    BY <1>8, <2>1, Ends, HarmlessKeeps DEF FundDelivery
  <2>2. ASSUME NEW fee, ObserveHold(w, "dp_seal", DeliveryBundle(Op(w), Col(w, "deliverySigners"), fee))
        PROVE  IInv'
    BY <1>8, <2>2, Funds DEF FundDelivery, DeliveryBundle, ExactColumn
  <2> QED
    BY <1>8, <2>1, <2>2 DEF FundDelivery
<1>9. CASE SealDelivery(w)
  <2>1. Advance(w) /\ Running(w)
    BY <1>9 DEF IInv, SealDelivery
  <2> QED
    BY <1>9, <2>1, Seals
    DEF SealDelivery, Advance, BindDeliveryExactBundle, Seal, ExactColumns
<1>10. CASE DispatchDelivery(w)
  BY <1>10, Dispatches DEF DispatchDelivery
<1>11. CASE DeliveryAccepted(w)
  BY <1>11, <1>4 DEF DeliveryAccepted
<1>12. CASE RecordSubmission(w)
  BY <1>12, Ends, PlainChanges, HarmlessKeeps DEF RecordSubmission
<1>13. CASE ConfirmDelivery(w)
  BY <1>13, <1>3, Ends, HarmlessKeeps DEF ConfirmDelivery
<1> QED
  BY <1>1, <1>2, <1>5, <1>6, <1>7, <1>8, <1>9, <1>10, <1>11, <1>12, <1>13

\* Confirmation and settlement.
LEMMA SettlementSteps ==
  ASSUME IInv, NEW w \in Workers, UNCHANGED settled,
         \/ ConfirmIndex(w)     \/ RecordConfirmation(w) \/ AuthorizeSettlement(w)
         \/ ResumeSettlement(w) \/ ReleaseDisabled(w)
  PROVE  IInv'
<1> USE DEF At, Running, Resting, Committing, Op
<1>0. UNCHANGED storeVars => Quiet
  <2>1. ASSUME UNCHANGED <<state, column>>
        PROVE  Quiet
    BY <2>1 DEF IInv, Shaped, Quiet
  <2> QED
    BY <2>1 DEF storeVars
<1>1. CASE ConfirmIndex(w)
  BY <1>1, <1>0, Ends, GoesOn, HarmlessKeeps DEF ConfirmIndex
<1>2. CASE RecordConfirmation(w)
  <2>1. PICK b \in mined : /\ b.kind = "delivery" /\ b.purchase = Op(w)
                          /\ \/ Record(w, RecordDeliveryConfirmed(Op(w), b))
                             \/ SealExact(w, RecordDeliveryConfirmed(Op(w), b), "dc_authorize")
    BY <1>2 DEF RecordConfirmation
  <2>2. Plain(Op(w), RecordDeliveryConfirmed(Op(w), b))
    BY <2>1, PlainChanges DEF Delivered
  <2> QED
    BY <1>2, <2>1, <2>2, Ends, SealsPlain, HarmlessKeeps DEF RecordConfirmation
<1>3. ASSUME Running(w), NEW bundleId, Authorize(w, bundleId)
      PROVE  IInv'
  BY <1>3, Ends, PlainChanges, HarmlessKeeps DEF Authorize
<1>4. CASE AuthorizeSettlement(w)
  BY <1>4, <1>3 DEF AuthorizeSettlement
<1>5. CASE ResumeSettlement(w)
  BY <1>5, <1>3, Ends, HarmlessKeeps DEF ResumeSettlement
<1>6. CASE ReleaseDisabled(w)
  BY <1>6, Ends, HarmlessKeeps DEF ReleaseDisabled
<1> QED
  BY <1>1, <1>2, <1>4, <1>5, <1>6

-----------------------------------------------------------------------------
(* Claims, faults and the services around the workers.                      *)

\* A claim takes its snapshot of the row as it is.
LEMMA Claims ==
  ASSUME IInv, NEW w \in Workers, PollNext(w) \/ ReconcileOne(w)
  PROVE  IInv'
<1>1. PICK p \in Purchases : Start(w, p) /\ TakeLease(p, w) /\ state[p] \in Pending
  BY DEF PollNext, ReconcileOne, ClaimNext, Claim, Claimable
<1>2. UNCHANGED <<state, column, executor, mempool, mined, settled>>
  BY <1>1 DEF TakeLease, Start, chainVars, Env
<1>3. Quiet /\ Still
  BY <1>2 DEF IInv, Shaped, Quiet, Still
<1>4. \A s \in Pending : Entry[s] \notin Committing
  BY DEF Pending, Entry, Committing
<1>5. \E pc : /\ pc \notin Committing
             /\ job' = [job EXCEPT ![w] =
                  [pc |-> pc, op |-> p, row |-> Row(p), held |-> None, left |-> AdvanceTimeout]]
  BY <1>1, <1>4 DEF Start, Committing
<1>6. /\ JobShaped'
      /\ \A v \in Workers \ {w} : job'[v] = job[v]
      /\ job'[w].op = p /\ job'[w].row = Row(p)
      /\ job'[w].pc \notin Committing
  BY <1>5 DEF IInv, JobShaped, JobFields
<1>7. Advance(w)'
  BY <1>2, <1>6 DEF Advance, Committing, Row
<1> QED
  BY <1>3, <1>6, <1>7, StillKeeps

LEMMA Faults ==
  ASSUME IInv, NEW w \in Workers, Interrupt(w) \/ Crash(w) \/ Restart(w)
  PROVE  IInv'
<1>1. CASE Interrupt(w)
  BY <1>1, Ends, HarmlessKeeps DEF Interrupt, Awaiting
<1>2. CASE Crash(w)
  <2>1. Quiet /\ Still
    BY <1>2 DEF Crash, IInv, Shaped, Quiet, Still, chainVars
  <2>2. /\ JobShaped'
        /\ \A v \in Workers \ {w} : job'[v] = job[v]
        /\ job'[w].pc = "down"
    BY <1>2, GotoShape DEF Crash, IInv
  <2>3. Harmless(w)
    BY <2>1, <2>2 DEF Harmless, Resting
  <2> QED
    BY <2>3, HarmlessKeeps
<1>3. CASE Restart(w)
  <2>1. Quiet /\ Still
    BY <1>3 DEF Restart, IInv, Shaped, Quiet, Still, chainVars, storeVars, Env
  <2>2. /\ JobShaped'
        /\ \A v \in Workers \ {w} : job'[v] = job[v]
        /\ job'[w].pc = "idle"
    BY <1>3, FinishShape DEF Restart, IInv
  <2>3. Harmless(w)
    BY <2>1, <2>2 DEF Harmless, Resting
  <2> QED
    BY <2>3, HarmlessKeeps
<1> QED
  BY <1>1, <1>2, <1>3

\* A step that is no worker's.
LEMMA Outside ==
  ASSUME IInv, Quiet, UNCHANGED job,
         mined \subseteq mined',
         ExactBundles \cap (executor' \cup mempool' \cup mined')
           \subseteq executor \cup mempool \cup mined,
         \A p \in settled' : p \in settled \/ Delivered(p)
  PROVE  IInv'
<1>1. /\ Shaped' /\ RowsOwn' /\ DispatchedIsSealed'
      /\ PendingIsDelivered' /\ CaptureAfterDelivery'
  BY QuietKeeps
<1>2. \A v \in Workers : Advance(v)'
  BY QuietOthers DEF IInv
<1>3. JobShaped'
  BY DEF IInv, JobShaped
<1> QED
  BY <1>1, <1>2, <1>3 DEF IInv

LEMMA ChainSteps ==
  ASSUME ChainNext
  PROVE  /\ mined \subseteq mined'
         /\ ExactBundles \cap (executor' \cup mempool' \cup mined')
              \subseteq executor \cup mempool \cup mined
<1>1. ForeignBundles \cap ExactBundles = {}
  BY DEF ForeignBundles, ExactBundles, ReceiptBundles, DeliveryBundles
<1>2. CASE Resubmit
  BY <1>2 DEF Resubmit, EnterMempool
<1>3. CASE ForeignSpend
  BY <1>1, <1>3 DEF ForeignSpend, EnterMempool
<1>4. ASSUME NEW b \in mempool, Drop(b) \/ Include(b)
      PROVE  /\ mined \subseteq mined'
             /\ ExactBundles \cap (executor' \cup mempool' \cup mined')
                  \subseteq executor \cup mempool \cup mined
  BY <1>4 DEF Drop, Include
<1> QED
  BY <1>2, <1>3, <1>4 DEF ChainNext

LEMMA ServiceSteps ==
  ASSUME IInv,
         \/ \E p \in Purchases : \/ RelaySettlement(p) \/ AcknowledgeSettlement(p)
                               \/ ReadStatusOutputs(p)
         \/ ReadStatusInputs \/ QueuePurchase \/ CloseGate \/ OpenGate \/ Chain
         \/ UNCHANGED vars
  PROVE  IInv'
<1> USE DEF storeVars, chainVars, Env, vars
<1>0. ASSUME UNCHANGED <<state, column>>
      PROVE  Quiet
  BY <1>0 DEF IInv, Shaped, Quiet
<1>1. ASSUME NEW p \in Purchases, RelaySettlement(p)
      PROVE  IInv'
  <2>1. Delivered(p)
    BY <1>1 DEF RelaySettlement, IInv, PendingIsDelivered
  <2> QED
    BY <1>0, <1>1, <2>1, Outside DEF RelaySettlement
<1>2. ASSUME NEW p \in Purchases, AcknowledgeSettlement(p)
      PROVE  IInv'
  <2>1. Quiet
    BY <1>2, QuietTransition, PlainChanges DEF IInv, AcknowledgeSettlement
  <2> QED
    BY <1>2, <2>1, Outside DEF AcknowledgeSettlement
<1>3. ASSUME NEW p \in Purchases, ReadStatusOutputs(p)
      PROVE  IInv'
  BY <1>0, <1>3, Outside DEF ReadStatusOutputs
<1>4. CASE ReadStatusInputs
  BY <1>0, <1>4, Outside DEF ReadStatusInputs
<1>5. CASE QueuePurchase
  BY <1>5, QuietCalls, Outside DEF IInv, QueuePurchase
<1>6. CASE CloseGate \/ OpenGate
  BY <1>0, <1>6, Outside DEF CloseGate, OpenGate
<1>7. CASE Chain
  BY <1>0, <1>7, ChainSteps, Outside DEF Chain
<1>8. CASE UNCHANGED vars
  BY <1>0, <1>8, Outside
<1> QED
  BY <1>1, <1>2, <1>3, <1>4, <1>5, <1>6, <1>7, <1>8

\* Time changes nothing but the seconds left.
LEMMA TimeStep ==
  ASSUME IInv, Tick
  PROVE  IInv'
<1>1. UNCHANGED <<state, column, executor, mempool, mined, settled>>
  BY DEF Tick, chainVars, Env
<1>2. Quiet /\ Still
  BY <1>1 DEF IInv, Shaped, Quiet, Still
<1>3. /\ JobShaped'
      /\ \A w \in Workers : /\ job'[w].pc = job[w].pc
                            /\ job'[w].op = job[w].op
                            /\ job'[w].row = job[w].row
                            /\ job'[w].held = job[w].held
  BY DEF Tick, IInv, JobShaped, JobFields
<1>4. \A w \in Workers : Advance(w)'
  BY <1>1, <1>3 DEF IInv, Advance, Running, IsSealed
<1> QED
  BY <1>2, <1>3, <1>4, QuietKeeps DEF IInv, Still

-----------------------------------------------------------------------------
(* The invariant and what it gives.                                         *)

LEMMA InitIInv == Init => IInv
<1> SUFFICES ASSUME Init PROVE IInv
  OBVIOUS
<1> USE DEF Init, StoreInit, ChainInit
<1>1. JobShaped /\ \A w \in Workers : Advance(w)
  BY NullAssumption DEF JobShaped, JobFields, Advance, Idle, Running, Resting
<1>2. Shaped
  BY DEF Shaped
<1>3. RowsOwn
  BY ExactInColumns, NullAssumption DEF RowsOwn
<1>4. DispatchedIsSealed /\ PendingIsDelivered /\ CaptureAfterDelivery
  BY DEF DispatchedIsSealed, PendingIsDelivered, CaptureAfterDelivery
<1> QED
  BY <1>1, <1>2, <1>3, <1>4 DEF IInv

LEMMA NextIInv == IInv /\ [Next]_vars => IInv'
<1> SUFFICES ASSUME IInv, [Next]_vars PROVE IInv'
  OBVIOUS
<1>1. ASSUME NEW w \in Workers, Work(w)
      PROVE  IInv'
  <2>1. UNCHANGED settled /\ Step(w)
    BY <1>1 DEF Work, Env
  <2> QED
    BY <2>1, ReceiptSteps, DeliverySteps, SettlementSteps DEF Step
<1>2. ASSUME NEW w \in Workers, PollNext(w) \/ ReconcileOne(w)
      PROVE  IInv'
  BY <1>2, Claims
<1>3. ASSUME NEW w \in Workers, Interrupt(w) \/ Crash(w) \/ Restart(w)
      PROVE  IInv'
  BY <1>3, Faults
<1>4. CASE Tick
  BY <1>4, TimeStep
<1> QED
  BY <1>1, <1>2, <1>3, <1>4, ServiceSteps DEF Next

\* Whatever crashes, stalls, loses its lease or is retried, only sealed bundles
\* reach the executor, the mempool or a block.
THEOREM DispatchedAreSealed == Spec => []DispatchedIsSealed
<1>1. IInv => DispatchedIsSealed
  BY DEF IInv
<1> QED
  BY <1>1, InitIInv, NextIInv, PTL DEF Spec

\* Money on Base is captured only after the delivery was mined.
THEOREM CapturesFollowDelivery == Spec => []CaptureAfterDelivery
<1>1. IInv => CaptureAfterDelivery
  BY DEF IInv
<1> QED
  BY <1>1, InitIInv, NextIInv, PTL DEF Spec

(***************************************************************************)
(* PART THREE: types, leases, confirmations, fee coins and conflicts.      *)
(*                                                                         *)
(* Every step of a running worker is shown to be Proper: on the table it   *)
(* is one of the table's own calls on the worker's row, it leaves the      *)
(* worker idle or better equipped, and it moves a row to its settlement    *)
(* only with all the evidence.  Proper steps keep the whole invariant, so  *)
(* each action is looked at once for all of its parts.                     *)
(***************************************************************************)

Settling == {"EXTERNAL_SETTLEMENT_PENDING", "FINALIZED"}
Sealing  == {"rfp_seal", "dp_seal"}

\* Where a worker holds no lease, or need not.
Unleased == {"dc_authorize", "esp"}
Leasing(pc) == pc \notin Resting \cup Unleased \cup {"disabled"}

\* The row a claim returned: pending, typed, with what its stage requires.
Snapshot(row) ==
  /\ row.state \in Pending
  /\ \A c \in Columns : row.column[c] \in ColumnType[c] \cup {None}
  /\ \A c \in StageColumns[row.state] : row.column[c] # None

\* What a worker at pc works with.
Fits(op, row, pc, what) ==
  /\ pc = "pv_pick" => what \subseteq Coins
  /\ pc \in {"rfp_output", "rfp_input", "rfp_mempool", "rfp_fund"} =>
       row.state = "RECEIPT_FUNDING_PREPARED"
  /\ pc \in {"rfp_seal", "rfp_dispatch", "rfp_accepted"} => what \in ReceiptBundles
  /\ pc = "rc_record" => what \in Quorums
  /\ pc \in {"dp_outputs", "dp_mempool", "dp_inputs", "dp_fund"} =>
       row.state = "DELIVERY_PREPARED"
  /\ pc \in {"dp_seal", "dp_dispatch", "dp_accepted", "dp_record"} =>
       what \in DeliveryBundles
  /\ pc = "disabled" <=> Rail[op] \notin EnabledRails

Equipped(w) ==
  /\ job[w].left \in 0 .. AdvanceTimeout
  /\ job[w].op \in Purchases \cup {None}
  /\ Running(w) =>
       /\ job[w].op \in Purchases
       /\ Snapshot(job[w].row)
       /\ Fits(job[w].op, job[w].row, job[w].pc, job[w].held)

Table == StoreTypeOK /\ AbsentIsEmpty /\ StageEvidence

Books ==
  /\ index \in [Purchases -> IndexRows]
  /\ executor \subseteq ExactBundles
  /\ mempool \subseteq ExactBundles \cup ForeignBundles
  /\ mined \subseteq ExactBundles \cup ForeignBundles

Switches ==
  /\ poll = None \/ poll.op \in Purchases
  /\ gate \in BOOLEAN
  /\ settled \subseteq Purchases
  /\ faults \in 0 .. MaxFaults

\* A row waits for its settlement, or is done, with its delivery confirmed by
\* the chain and by the index.
Confirmed(p) ==
  /\ column[p]["confirmedBy"] \in mined
  /\ column[p]["confirmedBy"] = column[p]["deliveryExact"]
  /\ index[p].state = "CONFIRMED"
  /\ Rail[p] \in EnabledRails

Confirmations ==
  /\ \A p \in Purchases : state[p] \in Settling => Confirmed(p)
  /\ \A p \in Purchases : state[p] = "FINALIZED" /\ Rail[p] = "base_usdc" => p \in settled
  /\ \A w \in Workers : job[w].pc = "dc_record" => index[job[w].op].state = "CONFIRMED"

\* The lease outlives the deadline, and the leased row is as it was claimed;
\* past the lease the row is settling or with the reviewers.
Leased(w) ==
  Running(w) =>
    \/ /\ job[w].pc \in Unleased
       /\ Rank[state[job[w].op]] >= 7
    \/ /\ job[w].pc \notin Unleased
       /\ lease[job[w].op].owner = w
       /\ lease[job[w].op].left > job[w].left
       /\ job[w].pc # "disabled" =>
            /\ state[job[w].op] = job[w].row.state
            /\ job[w].row.state # "EXTERNAL_SETTLEMENT_PENDING"

LeasesHeld == ~Stalls => \A w \in Workers : Leased(w)

OneWorker == \A v, w \in Workers : v = w

\* With one worker nothing is sealed between the choice of a fee coin and the
\* sealing of its bundle.
FeesApart ==
  OneWorker =>
    /\ FeeCoinsDisjoint
    /\ \A w \in Workers : job[w].pc \in Sealing =>
         job[w].held.fee \notin PendingExactFeeCoinIds

\* The mempool holds no two bundles that spend one coin, and none that spends
\* a spent coin.
NoConflicts ==
  /\ \A b \in mempool, d \in mined : ~Conflicts(b, d)
  /\ \A b, d \in mempool : b # d => ~Conflicts(b, d)

Whole ==
  /\ IInv
  /\ Table /\ Books /\ Switches
  /\ \A w \in Workers : Equipped(w)
  /\ Confirmations
  /\ LeasesHeld
  /\ FeesApart
  /\ NoConflicts

-----------------------------------------------------------------------------
(* What a proper step of a running worker is.                               *)

\* A row that comes to be settled or done comes with all its evidence.
Arrives ==
  \A p \in Purchases : state'[p] \in Settling =>
    \/ state'[p] = state[p]
    \/ /\ Confirmed(p)'
       /\ state'[p] = "FINALIZED" /\ Rail[p] = "base_usdc" => p \in settled'

\* A worker that goes on keeps its purchase, and its lease or the right to do
\* without one.
GoesOnLeased(w) ==
  LET p == job[w].op
  IN  Running(w)' =>
        /\ job'[w].op = p
        /\ job'[w].row = job[w].row
        /\ job'[w].left = job[w].left
        /\ \/ /\ Leasing(job[w].pc) /\ Leasing(job'[w].pc)
              /\ state'[p] = state[p] /\ lease'[p] = lease[p]
           \/ job'[w].pc = "dc_authorize" /\ Rank[state'[p]] >= 7

\* Exact bundles stay, or the one the worker holds is sealed.
Pays(w) ==
  \/ /\ \A p \in Purchases, c \in ExactColumns : column'[p][c] = column[p][c]
     /\ job'[w].pc \in Sealing => job'[w].held.fee \notin PendingExactFeeCoinIds
  \/ /\ job[w].pc \in Sealing /\ job'[w].pc \notin Sealing
     /\ \A p \in Purchases, c \in ExactColumns :
          \/ column'[p][c] = column[p][c]
          \/ p = job[w].op /\ column'[p][c] = job[w].held

IndexAdvances ==
  /\ index' \in [Purchases -> IndexRows]
  /\ \A p \in Purchases : index[p].state = "CONFIRMED" => index'[p].state = "CONFIRMED"

Around == UNCHANGED <<poll, gate, settled>> /\ faults' \in 0 .. MaxFaults

\* Nothing changes in the rows but in p's.
Only(p) == \A q \in Purchases \ {p} : state'[q] = state[q] /\ lease'[q] = lease[q]

Proper(w) ==
  /\ [StoreNext]_storeVars /\ Only(job[w].op)
  /\ \A v \in Workers \ {w} : job'[v] = job[v]
  /\ IndexAdvances
  /\ executor' \subseteq ExactBundles /\ UNCHANGED <<mempool, mined>>
  /\ Around
  /\ Equipped(w)'
  /\ job'[w].pc = "dc_record" => index'[job'[w].op].state = "CONFIRMED"
  /\ Arrives /\ GoesOnLeased(w) /\ Pays(w)

-----------------------------------------------------------------------------
(* Proper steps keep the invariant.                                         *)

LEMMA RankIsNat ==
  \A s \in States \cup {"ABSENT"} :
    /\ Rank[s] \in Nat
    /\ Rank[s] >= 7 <=>
         s \in {"EXTERNAL_SETTLEMENT_PENDING", "FINALIZED", "MANUAL_REVIEW"}
BY DEF States, Pending, Terminal, Rank

\* The table's own steps keep the table.
LEMMA TableKeeps ==
  ASSUME Table, [StoreNext]_storeVars
  PROVE  Table' /\ Kept /\ Forward
BY StoreTypedStep, StoreEmptyStep, EvidenceStep, KeptStep, ForwardStep DEF Table

LEMMA NoneIsNoBundle ==
  /\ None \notin ExactBundles \cup ForeignBundles
  /\ None \notin ReceiptBundles \cup DeliveryBundles
BY NullAssumption, ForeignAssumption DEF ExactBundles

LEMMA EvidenceColumns ==
  {"confirmedBy", "deliveryExact", "receiptExact"} \subseteq Columns
BY ColumnsDef

\* What confirms a delivery is never taken back.
LEMMA ConfirmedStays ==
  ASSUME Books, Kept, IndexAdvances, mined \subseteq mined',
         NEW p \in Purchases, Confirmed(p)
  PROVE  Confirmed(p)'
<1>1. column[p]["confirmedBy"] # None /\ column[p]["deliveryExact"] # None
  BY NoneIsNoBundle DEF Books, Confirmed
<1>2. /\ column'[p]["confirmedBy"] = column[p]["confirmedBy"]
      /\ column'[p]["deliveryExact"] = column[p]["deliveryExact"]
  BY <1>1, EvidenceColumns DEF Kept
<1> QED
  BY <1>2 DEF Confirmed, IndexAdvances

LEMMA ConfirmationsStay ==
  ASSUME Whole, [StoreNext]_storeVars, IndexAdvances, Arrives,
         mined \subseteq mined', settled \subseteq settled',
         NEW p \in Purchases, state'[p] \in Settling
  PROVE  Confirmed(p)' /\ (state'[p] = "FINALIZED" /\ Rail[p] = "base_usdc" => p \in settled')
<1>1. Kept
  BY TableKeeps DEF Whole
<1>2. CASE state'[p] = state[p]
  <2>1. /\ Confirmed(p)
        /\ state[p] = "FINALIZED" /\ Rail[p] = "base_usdc" => p \in settled
    BY <1>2 DEF Whole, Confirmations
  <2>2. Confirmed(p)'
    BY <1>1, <2>1, ConfirmedStays DEF Whole
  <2> QED
    BY <1>2, <2>1, <2>2
<1>3. CASE state'[p] # state[p]
  BY <1>3 DEF Arrives
<1> QED
  BY <1>2, <1>3

LEMMA ProperConfirmations ==
  ASSUME Whole, NEW w \in Workers, Running(w), Proper(w)
  PROVE  Confirmations'
<1>3. UNCHANGED <<mined, settled>> /\ IndexAdvances /\ Arrives
  BY DEF Proper, Around
<1>5. ASSUME NEW p \in Purchases, state'[p] \in Settling
      PROVE  Confirmed(p)' /\ (state'[p] = "FINALIZED" /\ Rail[p] = "base_usdc" => p \in settled')
  BY <1>3, <1>5, ConfirmationsStay DEF Proper
<1>6. ASSUME NEW v \in Workers, job'[v].pc = "dc_record"
      PROVE  index'[job'[v].op].state = "CONFIRMED"
  <2>1. CASE v = w
    BY <1>6, <2>1 DEF Proper
  <2>2. CASE v # w
    <3>1. job'[v] = job[v]
      BY <2>2 DEF Proper
    <3>2. index[job[v].op].state = "CONFIRMED"
      BY <1>6, <3>1 DEF Whole, Confirmations
    <3>3. job[v].op \in Purchases
      BY <1>6, <3>1 DEF Whole, Equipped, Running, Resting
    <3> QED
      BY <1>3, <3>1, <3>2, <3>3 DEF IndexAdvances
  <2> QED
    BY <2>1, <2>2
<1> QED
  BY <1>5, <1>6 DEF Confirmations, Settling

\* Two workers never work on one row, unless neither relies on a lease.
LEMMA LeasesApart ==
  ASSUME Whole, ~Stalls, NEW v \in Workers, NEW w \in Workers, v # w,
         Running(v), Running(w), job[v].pc \notin Unleased
  PROVE  job[v].op # job[w].op
<1> SUFFICES ASSUME job[v].op = job[w].op PROVE FALSE
  OBVIOUS
<1> DEFINE p == job[v].op
<1>1. Leased(v) /\ Leased(w) /\ Equipped(v) /\ Equipped(w) /\ StoreTypeOK
  BY DEF Whole, LeasesHeld, Table
<1>2. lease[p].owner = v
  BY <1>1 DEF Leased
<1>3. job[w].pc \in Unleased /\ Rank[state[p]] >= 7
  BY <1>1, <1>2 DEF Leased
<1>4. Rail[p] \in EnabledRails
  BY <1>1, <1>3 DEF Equipped, Fits, Unleased
<1>5. job[v].pc # "disabled"
  BY <1>1, <1>4 DEF Equipped, Fits
<1>6. /\ state[p] = job[v].row.state /\ job[v].row.state \in Pending
      /\ state[p] # "EXTERNAL_SETTLEMENT_PENDING" /\ p \in Purchases
  BY <1>1, <1>5 DEF Leased, Equipped, Snapshot
<1> QED
  BY <1>1, <1>3, <1>6, RankIsNat DEF Pending, StoreTypeOK

LEMMA ProperLeases ==
  ASSUME Whole, NEW w \in Workers, Running(w), Proper(w)
  PROVE  LeasesHeld'
<1> SUFFICES ASSUME ~Stalls, NEW v \in Workers, Running(v)'
             PROVE  Leased(v)'
  BY DEF LeasesHeld, Leased
<1>1. Table' /\ Forward
  BY TableKeeps DEF Whole, Proper
<1>2. Leased(v) /\ Leased(w) /\ Equipped(v) /\ StoreTypeOK /\ StoreTypeOK'
  BY <1>1 DEF Whole, LeasesHeld, Table
<1>3. CASE v = w
  BY <1>2, <1>3 DEF Proper, GoesOnLeased, Leased, Leasing, Unleased
<1>4. CASE v # w
  <2>1. job'[v] = job[v] /\ Running(v)
    BY <1>4 DEF Proper, Running
  <2>2. CASE job[v].pc \in Unleased
    <3> DEFINE p == job[v].op
    <3>1. Rank[state'[p]] >= Rank[state[p]] /\ Rank[state[p]] >= 7 /\ p \in Purchases
      BY <1>1, <1>2, <2>1, <2>2 DEF Forward, Leased, Equipped
    <3>2. Rank[state[p]] \in Nat /\ Rank[state'[p]] \in Nat
      BY <1>2, <3>1, RankIsNat DEF StoreTypeOK
    <3>3. Rank[state'[p]] >= 7
      BY <3>1, <3>2
    <3> QED
      BY <2>1, <2>2, <3>3 DEF Leased
  <2>3. CASE job[v].pc \notin Unleased
    <3>1. job[v].op # job[w].op /\ job[v].op \in Purchases
      BY <1>2, <1>4, <2>1, <2>3, LeasesApart DEF Equipped
    <3>2. state'[job[v].op] = state[job[v].op] /\ lease'[job[v].op] = lease[job[v].op]
      BY <3>1 DEF Proper, Only
    <3> QED
      BY <1>2, <2>1, <2>3, <3>2 DEF Leased
  <2> QED
    BY <2>2, <2>3
<1> QED
  BY <1>3, <1>4

\* The fee coins that unfinished purchases hold.
HeldFee(p, fee) == state[p] # "FINALIZED" /\ \E b \in SealedBundles(p) : fee = b.fee

FeesByHolder ==
  /\ \A fee : fee \in PendingExactFeeCoinIds <=> \E p \in Purchases : HeldFee(p, fee)
  /\ FeeCoinsDisjoint <=>
       \A p, q \in Purchases : p # q => ~ \E fee : HeldFee(p, fee) /\ HeldFee(q, fee)

LEMMA FeesHeldNow == FeesByHolder
<1>1. \A fee : fee \in PendingExactFeeCoinIds <=> \E p \in Purchases : HeldFee(p, fee)
  BY DEF PendingExactFeeCoinIds, HeldFee
<1>2. ASSUME FeeCoinsDisjoint, NEW p \in Purchases, NEW q \in Purchases, p # q,
             NEW fee, HeldFee(p, fee), HeldFee(q, fee)
      PROVE  FALSE
  <2>1. fee \in {b.fee : b \in SealedBundles(p)} /\ fee \in {b.fee : b \in SealedBundles(q)}
    BY <1>2 DEF HeldFee
  <2> QED
    BY <1>2, <2>1 DEF FeeCoinsDisjoint, HeldFee
<1>3. ASSUME \A p, q \in Purchases : p # q => ~ \E fee : HeldFee(p, fee) /\ HeldFee(q, fee)
      PROVE  FeeCoinsDisjoint
  <2> SUFFICES ASSUME NEW p \in Purchases, NEW q \in Purchases, p # q,
                      state[p] # "FINALIZED", state[q] # "FINALIZED",
                      NEW fee \in {b.fee : b \in SealedBundles(p)},
                      fee \in {b.fee : b \in SealedBundles(q)}
               PROVE  FALSE
    BY DEF FeeCoinsDisjoint
  <2>1. HeldFee(p, fee) /\ HeldFee(q, fee)
    BY DEF HeldFee
  <2> QED
    BY <1>3, <2>1
<1> QED
  BY <1>1, <1>2, <1>3 DEF FeesByHolder

LEMMA FeesHeld == FeesByHolder /\ FeesByHolder'
BY FeesHeldNow, PTL

\* A step that seals nothing adds no fee coin.
LEMMA NoNewFees ==
  ASSUME Forward, NEW p \in Purchases, NEW fee,
         \A c \in ExactColumns : column'[p][c] = column[p][c],
         HeldFee(p, fee)'
  PROVE  HeldFee(p, fee)
BY DEF Forward, HeldFee, SealedBundles, ExactColumns

\* A seal adds the fee coin of the bundle that is sealed, to its purchase.
LEMMA OneNewFee ==
  ASSUME Forward, NEW p \in Purchases, NEW fee, NEW bundle,
         \A c \in ExactColumns : column'[p][c] \in {column[p][c], bundle},
         HeldFee(p, fee)'
  PROVE  HeldFee(p, fee) \/ fee = bundle.fee
BY DEF Forward, HeldFee, SealedBundles, ExactColumns

LEMMA ProperFees ==
  ASSUME Whole, NEW w \in Workers, Running(w), Proper(w)
  PROVE  FeesApart'
<1> SUFFICES ASSUME OneWorker
             PROVE  /\ FeeCoinsDisjoint'
                    /\ job'[w].pc \in Sealing => job'[w].held.fee \notin PendingExactFeeCoinIds'
  BY DEF FeesApart, OneWorker
<1>1. Forward
  BY TableKeeps DEF Whole, Proper
<1>2. /\ FeeCoinsDisjoint
      /\ job[w].pc \in Sealing => job[w].held.fee \notin PendingExactFeeCoinIds
  BY DEF Whole, FeesApart
<1>3. /\ \A fee : fee \in PendingExactFeeCoinIds' <=> \E p \in Purchases : HeldFee(p, fee)'
      /\ (\A p, q \in Purchases : p # q => ~ \E fee : HeldFee(p, fee)' /\ HeldFee(q, fee)')
           => FeeCoinsDisjoint'
  BY FeesHeld DEF FeesByHolder
<1>4. CASE /\ \A p \in Purchases, c \in ExactColumns : column'[p][c] = column[p][c]
           /\ job'[w].pc \in Sealing => job'[w].held.fee \notin PendingExactFeeCoinIds
  <2>1. ASSUME NEW p \in Purchases, NEW fee, HeldFee(p, fee)'
        PROVE  HeldFee(p, fee)
    BY <1>1, <1>4, <2>1, NoNewFees
  <2>2. FeeCoinsDisjoint'
    BY <1>2, <1>3, <2>1, FeesHeld DEF FeesByHolder
  <2> QED
    BY <1>3, <1>4, <2>1, <2>2, FeesHeld DEF FeesByHolder
<1>5. CASE /\ job[w].pc \in Sealing /\ job'[w].pc \notin Sealing
           /\ \A p \in Purchases, c \in ExactColumns :
                \/ column'[p][c] = column[p][c]
                \/ p = job[w].op /\ column'[p][c] = job[w].held
  <2>1. ASSUME NEW p \in Purchases, NEW fee, HeldFee(p, fee)'
        PROVE  HeldFee(p, fee) \/ (p = job[w].op /\ fee = job[w].held.fee)
    <3>1. CASE p = job[w].op
      BY <1>1, <1>5, <2>1, <3>1, OneNewFee
    <3>2. CASE p # job[w].op
      BY <1>1, <1>5, <2>1, <3>2, NoNewFees
    <3> QED
      BY <3>1, <3>2
  <2>2. \A p \in Purchases : ~HeldFee(p, job[w].held.fee)
    BY <1>2, <1>5, FeesHeld DEF FeesByHolder
  <2>3. FeeCoinsDisjoint'
    BY <1>2, <1>3, <2>1, <2>2, FeesHeld DEF FeesByHolder
  <2> QED
    BY <1>5, <2>3
<1> QED
  BY <1>4, <1>5 DEF Proper, Pays

LEMMA ProperKeeps ==
  ASSUME Whole, IInv', NEW w \in Workers, Running(w), Proper(w)
  PROVE  Whole'
<1>1. Table'
  BY TableKeeps DEF Whole, Proper
<1>2. Books' /\ Switches' /\ NoConflicts'
  BY DEF Whole, Proper, Books, Switches, Around, NoConflicts, IndexAdvances
<1>3. ASSUME NEW v \in Workers
      PROVE  Equipped(v)'
  <2>1. Equipped(v)
    BY DEF Whole
  <2> QED
    BY <2>1 DEF Proper, Equipped, Running
<1> QED
  BY <1>1, <1>2, <1>3, ProperConfirmations, ProperLeases, ProperFees DEF Whole

-----------------------------------------------------------------------------
(* The writes of a worker, as calls of the table.                           *)

\* No row comes to be settled or done.
NoArrival == \A p \in Purchases : state'[p] \in Settling => state'[p] = state[p]

LEMMA CallsOfTheTable ==
  ASSUME StoreTypeOK, NEW p \in Purchases
  PROVE  /\ ReleaseLease(p) => StoreNext /\ Only(p) /\ NoArrival
         /\ RecordError(p, "retry") => StoreNext /\ Only(p) /\ NoArrival
         /\ RecordManualReview(p, "conflict") => StoreNext /\ Only(p) /\ NoArrival
<1>1. ASSUME ReleaseLease(p)
      PROVE  StoreNext /\ Only(p) /\ NoArrival
  <2>1. StoreNext
    BY <1>1, Zenon DEF StoreNext
  <2> QED
    BY <1>1, <2>1 DEF ReleaseLease, StoreTypeOK, Only, NoArrival
<1>2. ASSUME RecordError(p, "retry")
      PROVE  StoreNext /\ Only(p) /\ NoArrival
  <2>1. "retry" \in Retryable
    BY WorkerAssumption
  <2>2. StoreNext
    BY <1>2, <2>1, Zenon DEF StoreNext
  <2> QED
    BY <1>2, <2>2 DEF RecordError, StoreTypeOK, Only, NoArrival
<1>3. ASSUME RecordManualReview(p, "conflict")
      PROVE  StoreNext /\ Only(p) /\ NoArrival
  <2>1. "conflict" \in Reviews
    BY WorkerAssumption
  <2>2. StoreNext
    BY <1>3, <2>1, Zenon DEF StoreNext
  <2>3. "MANUAL_REVIEW" \notin Settling
    BY DEF Settling
  <2> QED
    BY <1>3, <2>2, <2>3 DEF RecordManualReview, StoreTypeOK, Only, NoArrival
<1> QED
  BY <1>1, <1>2, <1>3

LEMMA TransitionsOfTheTable ==
  ASSUME StoreTypeOK, NEW p \in Purchases, NEW change,
         Transition(p, change), Transitions(p)
  PROVE  /\ StoreNext /\ Only(p)
         /\ state' = [state EXCEPT ![p] = change.to] /\ state[p] \in change.from
         /\ change.to \notin Settling => NoArrival
         /\ ~change.release => UNCHANGED lease
<1>1. StoreNext
  BY Zenon DEF StoreNext
<1>2. state' = [state EXCEPT ![p] = change.to] /\ state[p] \in change.from
  BY DEF Transition, Accepts
<1>3. ~change.release => UNCHANGED lease
  BY DEF Transition
<1>4. \A q \in Purchases \ {p} : lease'[q] = lease[q]
  BY DEF Transition, StoreTypeOK
<1>5. Only(p)
  BY <1>2, <1>4 DEF Only, StoreTypeOK
<1>6. change.to \notin Settling => NoArrival
  BY <1>2 DEF NoArrival, StoreTypeOK
<1> QED
  BY <1>1, <1>2, <1>3, <1>5, <1>6

-----------------------------------------------------------------------------
(* The ways an advance ends or goes on, each proper.                        *)

LEMMA FinishProper ==
  ASSUME Whole, NEW w \in Workers, Running(w), Around,
         [StoreNext]_storeVars, Only(job[w].op), Arrives, Quiet,
         Finish(w), UNCHANGED <<indexVars, chainVars>>
  PROVE  Proper(w)
<1>1. JobShaped /\ Books
  BY DEF Whole, IInv
<1>2. job' = [job EXCEPT ![w] = Idle]
  BY DEF Finish
<1>3. job'[w] = Idle /\ \A v \in Workers \ {w} : job'[v] = job[v]
  BY <1>1, <1>2 DEF JobShaped
<1>4. job'[w].pc = "idle" /\ job'[w].op = None /\ job'[w].left = 0
  BY <1>3 DEF Idle
<1>5. Equipped(w)'
  BY <1>4, TimeoutAssumption DEF Equipped, Running, Resting
<1>6. IndexAdvances /\ executor' \subseteq ExactBundles /\ UNCHANGED <<mempool, mined>>
  BY <1>1 DEF Books, IndexAdvances, indexVars, chainVars
<1>7. GoesOnLeased(w)
  BY <1>4 DEF GoesOnLeased, Running, Resting
<1>8. Pays(w)
  BY <1>4 DEF Pays, Quiet, Sealing
<1> QED
  BY <1>3, <1>4, <1>5, <1>6, <1>7, <1>8 DEF Proper

LEMMA NoArrivalArrives ==
  ASSUME NoArrival
  PROVE  Arrives
BY DEF NoArrival, Arrives

LEMMA EndsProper ==
  ASSUME Whole, NEW w \in Workers, Running(w), Around
  PROVE  /\ Release(w) => Proper(w)
         /\ Fail(w) => Proper(w)
         /\ ManualReview(w) => Proper(w)
<1>1. job[w].op \in Purchases /\ Shaped /\ StoreTypeOK
  BY DEF Whole, Equipped, Table, IInv
<1>2. ASSUME Release(w)
      PROVE  Proper(w)
  BY <1>1, <1>2, CallsOfTheTable, NoArrivalArrives, QuietCalls, FinishProper DEF Release
<1>3. ASSUME Fail(w)
      PROVE  Proper(w)
  BY <1>1, <1>3, CallsOfTheTable, NoArrivalArrives, QuietCalls, FinishProper DEF Fail
<1>4. ASSUME ManualReview(w)
      PROVE  Proper(w)
  <2>1. CASE RecordManualReview(job[w].op, "conflict")
    BY <1>1, <1>4, <2>1, CallsOfTheTable, NoArrivalArrives, QuietCalls, FinishProper
    DEF ManualReview
  <2>2. CASE UNCHANGED storeVars
    <3>1. Only(job[w].op) /\ NoArrival /\ Quiet
      BY <1>1, <2>2, QuietCalls DEF storeVars, Only, NoArrival
    <3> QED
      BY <1>4, <2>2, <3>1, NoArrivalArrives, FinishProper DEF ManualReview
  <2> QED
    BY <1>4, <2>1, <2>2 DEF ManualReview
<1> QED
  BY <1>2, <1>3, <1>4

\* The write an advance ends with.
LEMMA RecordProper ==
  ASSUME Whole, NEW w \in Workers, Running(w), Around,
         NEW change, Record(w, change), Plain(job[w].op, change),
         Transition(job[w].op, change) =>
           Transitions(job[w].op) /\ (change.to \in Settling => Arrives)
  PROVE  Proper(w)
<1>1. job[w].op \in Purchases /\ Shaped /\ StoreTypeOK
  BY DEF Whole, Equipped, Table, IInv
<1>2. CASE Fail(w)
  BY <1>2, EndsProper
<1>3. CASE Transition(job[w].op, change) /\ Finish(w) /\ UNCHANGED <<indexVars, chainVars>>
  <2>1. StoreNext /\ Only(job[w].op) /\ Arrives
    BY <1>1, <1>3, TransitionsOfTheTable, NoArrivalArrives
  <2>2. Quiet
    BY <1>1, <1>3, QuietTransition
  <2> QED
    BY <1>3, <2>1, <2>2, FinishProper
<1> QED
  BY <1>2, <1>3 DEF Record

\* A worker that goes on to an await, with what it needs there.
LEMMA MovesOn ==
  ASSUME Whole, NEW w \in Workers, Running(w), Around,
         Leasing(job[w].pc), NEW pc, Leasing(pc), NEW what,
         \/ Goto(w, pc) /\ what = job[w].held
         \/ Hold(w, pc, what),
         Fits(job[w].op, job[w].row, pc, what)
  PROVE  /\ Equipped(w)'
         /\ \A v \in Workers \ {w} : job'[v] = job[v]
         /\ job'[w].pc = pc /\ job'[w].held = what /\ job'[w].op = job[w].op
         /\ job'[w].row = job[w].row /\ job'[w].left = job[w].left
<1>1. JobShaped /\ Equipped(w)
  BY DEF Whole, IInv
<1>2. /\ \A v \in Workers \ {w} : job'[v] = job[v]
      /\ job'[w].pc = pc /\ job'[w].held = what /\ job'[w].op = job[w].op
      /\ job'[w].row = job[w].row
  BY <1>1, GotoShape, HoldShape
<1>3. job'[w].left = job[w].left
  BY <1>1 DEF JobShaped, JobFields, Goto, Hold
<1> QED
  BY <1>1, <1>2, <1>3 DEF Equipped, Running, Leasing

LEMMA ContinuesProper ==
  ASSUME Whole, NEW w \in Workers, Running(w), Around,
         UNCHANGED storeVars, UNCHANGED <<mempool, mined>>,
         IndexAdvances, executor' \subseteq ExactBundles,
         Leasing(job[w].pc), NEW pc, Leasing(pc), NEW what,
         \/ Goto(w, pc) /\ what = job[w].held
         \/ Hold(w, pc, what),
         Fits(job[w].op, job[w].row, pc, what),
         pc \in Sealing => what.fee \notin PendingExactFeeCoinIds,
         pc = "dc_record" => index'[job[w].op].state = "CONFIRMED"
  PROVE  Proper(w)
<1>1. /\ Equipped(w)'
      /\ \A v \in Workers \ {w} : job'[v] = job[v]
      /\ job'[w].pc = pc /\ job'[w].held = what /\ job'[w].op = job[w].op
      /\ job'[w].row = job[w].row /\ job'[w].left = job[w].left
  BY MovesOn
<1>2. [StoreNext]_storeVars /\ UNCHANGED <<state, column, lease>>
  BY DEF storeVars
<1>3. Only(job[w].op) /\ Arrives
  BY <1>2 DEF Only, Arrives
<1>4. GoesOnLeased(w)
  BY <1>1, <1>2 DEF GoesOnLeased
<1>5. Pays(w)
  BY <1>1, <1>2 DEF Pays
<1> QED
  BY <1>1, <1>2, <1>3, <1>4, <1>5 DEF Proper

\* The next await, with nothing written.
LEMMA ChainAndIndexStill ==
  ASSUME Whole, UNCHANGED <<indexVars, chainVars>>
  PROVE  /\ IndexAdvances /\ executor' \subseteq ExactBundles
         /\ UNCHANGED <<mempool, mined, index>>
BY DEF Whole, indexVars, chainVars, Books, IndexAdvances

LEMMA ObserveProper ==
  ASSUME Whole, NEW w \in Workers, Running(w), Around,
         Leasing(job[w].pc), NEW pc, Leasing(pc), Observe(w, pc), pc \notin Sealing,
         Fits(job[w].op, job[w].row, pc, job[w].held),
         pc = "dc_record" => index[job[w].op].state = "CONFIRMED"
  PROVE  Proper(w)
BY ChainAndIndexStill, ContinuesProper DEF Observe

LEMMA ObserveHoldProper ==
  ASSUME Whole, NEW w \in Workers, Running(w), Around,
         Leasing(job[w].pc), NEW pc, Leasing(pc), pc # "dc_record",
         NEW what, ObserveHold(w, pc, what),
         Fits(job[w].op, job[w].row, pc, what),
         pc \in Sealing => what.fee \notin PendingExactFeeCoinIds
  PROVE  Proper(w)
BY ChainAndIndexStill, ContinuesProper DEF ObserveHold

\* Sealing the bundle in the worker's hands.
LEMMA SealProper ==
  ASSUME Whole, NEW w \in Workers, Running(w), Around,
         job[w].pc \in Sealing, NEW pc, Leasing(pc), pc \notin Sealing, pc # "dc_record",
         NEW c \in ExactColumns, NEW change, SealExact(w, change, pc),
         DOMAIN change.values = {c}, change.values[c] = job[w].held,
         change.from = {change.to}, change.to \notin Settling, ~change.release,
         Fits(job[w].op, job[w].row, pc, job[w].held),
         Transition(job[w].op, change) => Transitions(job[w].op)
  PROVE  Proper(w)
<1> DEFINE p == job[w].op
<1>1. p \in Purchases /\ Shaped /\ StoreTypeOK /\ Books
  BY DEF Whole, Equipped, Table, IInv
<1>2. CASE Fail(w)
  BY <1>2, EndsProper
<1>3. CASE Transition(p, change) /\ Goto(w, pc) /\ UNCHANGED <<indexVars, chainVars>>
  <2>1. /\ StoreNext /\ Only(p) /\ Arrives /\ UNCHANGED lease
        /\ state' = [state EXCEPT ![p] = change.to] /\ state[p] \in change.from
    BY <1>1, <1>3, TransitionsOfTheTable, NoArrivalArrives
  <2>2. state'[p] = state[p]
    BY <1>1, <2>1 DEF StoreTypeOK
  <2>3. Leasing(job[w].pc)
    BY DEF Leasing, Sealing, Resting, Unleased
  <2>4. /\ Equipped(w)'
        /\ \A v \in Workers \ {w} : job'[v] = job[v]
        /\ job'[w].pc = pc /\ job'[w].op = p
        /\ job'[w].row = job[w].row /\ job'[w].left = job[w].left
    BY <1>3, <2>3, MovesOn
  <2>5. GoesOnLeased(w)
    BY <2>1, <2>2, <2>3, <2>4 DEF GoesOnLeased
  <2>6. \A q \in Purchases, d \in ExactColumns :
          column'[q][d] = column[q][d] \/ (q = p /\ column'[q][d] = job[w].held)
    <3>1. column' = [column EXCEPT ![p] =
            [d \in Columns |-> IF d \in DOMAIN change.values THEN change.values[d]
                                                             ELSE column[p][d]]]
      BY <1>3 DEF Transition
    <3>2. \A d \in Columns : column'[p][d] = IF d = c THEN job[w].held ELSE column[p][d]
      BY <1>1, <3>1 DEF Shaped
    <3>3. \A q \in Purchases \ {p} : column'[q] = column[q]
      BY <1>1, <3>1 DEF Shaped
    <3> QED
      BY <3>2, <3>3, ExactInColumns
  <2>7. Pays(w)
    BY <2>4, <2>6 DEF Pays
  <2>8. IndexAdvances /\ executor' \subseteq ExactBundles /\ UNCHANGED <<mempool, mined>>
    BY <1>1, <1>3 DEF Books, IndexAdvances, indexVars, chainVars
  <2> QED
    BY <2>1, <2>4, <2>5, <2>7, <2>8 DEF Proper
<1> QED
  BY <1>2, <1>3 DEF SealExact

-----------------------------------------------------------------------------
(* Each step of a running worker is proper.                                 *)

\* The changes a worker asks for are the table's.
LEMMA ChangesOfTheTable ==
  ASSUME NEW p \in Purchases
  PROVE  /\ \A c \in Coins : Transition(p, RecordReceiptPrepared(c)) => Transitions(p)
         /\ \A b \in ReceiptBundles :
              /\ Transition(p, BindReceiptExactBundle(b)) => Transitions(p)
              /\ \A at \in Stamps : Transition(p, RecordReceiptFunding(b, at)) => Transitions(p)
         /\ Transition(p, RecordReceiptConfirmed) => Transitions(p)
         /\ \A q \in Quorums : Transition(p, RecordDeliveryPrepared(q)) => Transitions(p)
         /\ \A b \in DeliveryBundles :
              /\ Transition(p, BindDeliveryExactBundle(b)) => Transitions(p)
              /\ \A at \in Stamps : Transition(p, RecordDeliverySubmission(b, at)) => Transitions(p)
              /\ Transition(p, RecordDeliveryConfirmed(p, b)) => Transitions(p)
         /\ Transition(p, RecordExternalSettlementAuthorization(p)) => Transitions(p)
         /\ Transition(p, RecordExternalSettlementFinalized(p)) => Transitions(p)
BY Zenon DEF Transitions

\* Those that lead no row to its settlement.
LEMMA StagesBefore ==
  /\ \A c : RecordReceiptPrepared(c).to \notin Settling
  /\ \A b, at : RecordReceiptFunding(b, at).to \notin Settling
  /\ RecordReceiptConfirmed.to \notin Settling
  /\ \A q : RecordDeliveryPrepared(q).to \notin Settling
  /\ \A b, at : RecordDeliverySubmission(b, at).to \notin Settling
BY DEF RecordReceiptPrepared, RecordReceiptFunding, RecordReceiptConfirmed,
       RecordDeliveryPrepared, RecordDeliverySubmission, Change, Settling

\* A nonempty set of coins has a smallest.
LEMMA SmallestIsThere ==
  ASSUME NEW coins, coins \subseteq Coins, coins # {}
  PROVE  Smallest(coins) \in coins
<1> DEFINE less == OpToRel(<, Nat)
<1>1. \A d, c \in Nat : d < c => <<d, c>> \in less
  BY DEF OpToRel
<1>2. IsWellFoundedOn(less, Nat)
  BY NatLessThanWellFounded
<1> HIDE DEF less
<1>3. coins \subseteq Nat
  BY CoinAssumption
<1>4. PICK c \in coins : \A d \in coins : <<d, c>> \notin less
  BY <1>2, <1>3, WFMin
<1>5. ASSUME NEW d \in coins
      PROVE  c <= d
  <2>1. c \in Nat /\ d \in Nat
    BY <1>3
  <2>2. ~ (d < c)
    BY <1>1, <1>4, <2>1
  <2> QED
    BY <2>1, <2>2
<1> QED
  BY <1>5 DEF Smallest

LEMMA FeeCoinIsFree ==
  ASSUME NEW w, NEW coins, coins \subseteq FeeCoins(w), coins # {}
  PROVE  /\ Smallest(coins) \in Coins
         /\ Smallest(coins) \notin PendingExactFeeCoinIds
<1>1. coins \subseteq Coins
  BY DEF FeeCoins, UnspentCoins
<1> QED
  BY <1>1, SmallestIsThere DEF FeeCoins

\* What the snapshot says of a column.
LEMMA SnapshotColumn ==
  ASSUME Whole, NEW w \in Workers, Running(w)
  PROVE  /\ job[w].op \in Purchases
         /\ Snapshot(job[w].row)
         /\ Fits(job[w].op, job[w].row, job[w].pc, job[w].held)
         /\ Col(w, "receiptInput") \in Coins \cup {None}
         /\ Col(w, "receiptExact") \in ReceiptBundles \cup {None}
         /\ Col(w, "deliverySigners") \in Quorums \cup {None}
         /\ Col(w, "deliveryExact") \in DeliveryBundles \cup {None}
         /\ job[w].row.state = "RECEIPT_FUNDING_PREPARED" => Col(w, "receiptInput") # None
         /\ job[w].row.state = "DELIVERY_PREPARED" => Col(w, "deliverySigners") # None
<1>1. Equipped(w)
  BY DEF Whole
<1>2. Snapshot(job[w].row)
  BY <1>1 DEF Equipped
<1>3. /\ "receiptInput" \in StageColumns["RECEIPT_FUNDING_PREPARED"]
      /\ "deliverySigners" \in StageColumns["DELIVERY_PREPARED"]
  BY DEF StageColumns, Funded, Prepared
<1> QED
  BY <1>1, <1>2, <1>3, ColumnsDef, ColumnTypes DEF Snapshot, Col, Equipped

LEMMA ReceiptReads ==
  ASSUME Whole, NEW w \in Workers, Around,
         \/ ReadTill(w)          \/ PickReceiptInput(w)
         \/ ReadReceiptOutput(w) \/ ReadReceiptInput(w)
         \/ ConfirmReceipt(w)    \/ ReadReceipt(w)
  PROVE  Running(w) /\ Proper(w)
<1> DEFINE p == job[w].op
<1> USE DEF At, Leasing, Resting, Unleased
<1>1. CASE ReadTill(w)
  <2>1. job[w].pc = "pv_read" /\ ObserveHold(w, "pv_pick", UnspentCoins)
    BY <1>1 DEF ReadTill
  <2>2. Running(w)
    BY <2>1 DEF Running
  <2>3. Fits(p, job[w].row, "pv_pick", UnspentCoins)
    BY <2>1, <2>2, SnapshotColumn DEF Fits, UnspentCoins
  <2> QED
    BY <2>1, <2>2, <2>3, ObserveHoldProper DEF Sealing
<1>2. CASE PickReceiptInput(w)
  <2>1. Running(w) /\ job[w].pc = "pv_pick"
    BY <1>2 DEF PickReceiptInput, Running
  <2>2. job[w].held \subseteq Coins
    BY <2>1, SnapshotColumn DEF Fits
  <2> DEFINE eligible == job[w].held \ PendingCoins
  <2>3. CASE Fail(w)
    BY <2>1, <2>3, EndsProper
  <2>4. CASE eligible # {} /\ Record(w, RecordReceiptPrepared(Smallest(eligible)))
    <3>1. Smallest(eligible) \in Coins
      BY <2>2, <2>4, SmallestIsThere
    <3> QED
      BY <2>1, <2>4, <3>1, SnapshotColumn, ChangesOfTheTable, StagesBefore, PlainChanges, RecordProper
  <2> QED
    BY <1>2, <2>1, <2>3, <2>4 DEF PickReceiptInput
<1>3. ASSUME Running(w), Record(w, RecordReceiptConfirmed)
      PROVE  Proper(w)
  BY <1>3, SnapshotColumn, ChangesOfTheTable, StagesBefore, PlainChanges, RecordProper
<1>4. CASE ReadReceiptOutput(w)
  <2>1. Running(w) /\ job[w].pc = "rfp_output"
    BY <1>4 DEF ReadReceiptOutput, Running
  <2>2. CASE Observe(w, "rfp_input")
    <3>1. Fits(p, job[w].row, "rfp_input", job[w].held)
      BY <2>1, SnapshotColumn DEF Fits
    <3> QED
      BY <2>1, <2>2, <3>1, ObserveProper DEF Sealing
  <2> QED
    BY <1>3, <1>4, <2>1, <2>2 DEF ReadReceiptOutput
<1>5. CASE ReadReceiptInput(w)
  <2> DEFINE coin == UnspentCoins \cap {Col(w, "receiptInput")}
  <2>1. /\ Running(w) /\ job[w].pc = "rfp_input"
        /\ ObserveHold(w, "rfp_mempool", coin)
    BY <1>5 DEF ReadReceiptInput, Running
  <2>2. Fits(p, job[w].row, "rfp_mempool", coin)
    BY <2>1, SnapshotColumn DEF Fits
  <2> QED
    BY <2>1, <2>2, ObserveHoldProper DEF Sealing
<1>6. CASE ConfirmReceipt(w)
  <2>1. Running(w)
    BY <1>6 DEF ConfirmReceipt, Running
  <2> QED
    BY <1>3, <1>6, <2>1, EndsProper DEF ConfirmReceipt
<1>7. CASE ReadReceipt(w)
  <2>1. Running(w) /\ job[w].pc = "rc_receipt"
    BY <1>7 DEF ReadReceipt, Running
  <2>2. CASE Observe(w, "rc_quorum")
    <3>1. Fits(p, job[w].row, "rc_quorum", job[w].held)
      BY <2>1, SnapshotColumn DEF Fits
    <3> QED
      BY <2>1, <2>2, <3>1, ObserveProper DEF Sealing
  <2> QED
    BY <1>7, <2>1, <2>2, EndsProper DEF ReadReceipt
<1> QED
  BY <1>1, <1>2, <1>4, <1>5, <1>6, <1>7

LEMMA ReceiptWrites ==
  ASSUME Whole, NEW w \in Workers, Around,
         \/ ReadReceiptMempool(w) \/ FundReceipt(w) \/ SealReceipt(w)
         \/ DispatchReceipt(w)    \/ ReceiptAccepted(w)
  PROVE  Running(w) /\ Proper(w)
<1> DEFINE p == job[w].op
<1> USE DEF At, Leasing, Resting, Unleased
<1>0. w \in Stamps
  BY WorkerAssumption
<1>1. ASSUME Running(w), NEW b \in ReceiptBundles, Record(w, RecordReceiptFunding(b, w))
      PROVE  Proper(w)
  BY <1>0, <1>1, SnapshotColumn, ChangesOfTheTable, StagesBefore, PlainChanges, RecordProper
<1>2. CASE ReadReceiptMempool(w)
  <2> DEFINE exact == Col(w, "receiptExact")
  <2> DEFINE pending == {b \in mempool : Col(w, "receiptInput") \in TillInputs(b)}
  <2>1. Running(w) /\ job[w].pc = "rfp_mempool"
    BY <1>2 DEF ReadReceiptMempool, Running
  <2>2. CASE exact \in pending /\ Record(w, RecordReceiptFunding(exact, w))
    <3>1. exact \in ReceiptBundles
      BY <2>1, <2>2, SnapshotColumn, NoneIsNoBundle DEF Whole, Books
    <3> QED
      BY <1>1, <2>1, <2>2, <3>1
  <2>3. CASE ManualReview(w)
    BY <2>1, <2>3, EndsProper
  <2>4. CASE exact = None /\ Observe(w, "rfp_fund")
    <3>1. Fits(p, job[w].row, "rfp_fund", job[w].held)
      BY <2>1, SnapshotColumn DEF Fits
    <3> QED
      BY <2>1, <2>4, <3>1, ObserveProper DEF Sealing
  <2>5. CASE exact # None /\ ObserveHold(w, "rfp_dispatch", exact)
    <3>1. Fits(p, job[w].row, "rfp_dispatch", exact)
      BY <2>1, <2>5, SnapshotColumn DEF Fits
    <3> QED
      BY <2>1, <2>5, <3>1, ObserveHoldProper DEF Sealing
  <2> QED
    BY <1>2, <2>1, <2>2, <2>3, <2>4, <2>5 DEF ReadReceiptMempool
<1>3. CASE FundReceipt(w)
  <2> DEFINE coins == FeeCoins(w) \ {Col(w, "receiptInput")}
  <2> DEFINE b == ReceiptBundle(p, Col(w, "receiptInput"), Smallest(coins))
  <2>1. Running(w) /\ job[w].pc = "rfp_fund"
    BY <1>3 DEF FundReceipt, Running
  <2>2. CASE Fail(w)
    BY <2>1, <2>2, EndsProper
  <2>3. CASE coins # {} /\ ObserveHold(w, "rfp_seal", b)
    <3>1. Smallest(coins) \in Coins /\ Smallest(coins) \notin PendingExactFeeCoinIds
      BY <2>3, FeeCoinIsFree
    <3>2. Col(w, "receiptInput") \in Coins /\ p \in Purchases
      BY <2>1, SnapshotColumn DEF Fits
    <3>3. b \in ReceiptBundles /\ b.fee \notin PendingExactFeeCoinIds
      BY <3>1, <3>2 DEF ReceiptBundle, ReceiptBundles
    <3>4. Fits(p, job[w].row, "rfp_seal", b)
      BY <2>1, <3>3, SnapshotColumn DEF Fits
    <3> QED
      BY <2>1, <2>3, <3>3, <3>4, ObserveHoldProper
  <2> QED
    BY <1>3, <2>1, <2>2, <2>3 DEF FundReceipt, Op
<1>4. CASE SealReceipt(w)
  <2> DEFINE change == BindReceiptExactBundle(job[w].held)
  <2>1. /\ Running(w) /\ job[w].pc = "rfp_seal"
        /\ SealExact(w, change, "rfp_dispatch")
    BY <1>4 DEF SealReceipt, Running
  <2>2. job[w].held \in ReceiptBundles /\ p \in Purchases
    BY <2>1, SnapshotColumn DEF Fits
  <2>3. /\ DOMAIN change.values = {"receiptExact"}
        /\ change.values["receiptExact"] = job[w].held
        /\ change.from = {change.to} /\ change.to \notin Settling /\ ~change.release
    BY DEF BindReceiptExactBundle, Seal, Settling
  <2>4. Fits(p, job[w].row, "rfp_dispatch", job[w].held)
    BY <2>1, <2>2, SnapshotColumn DEF Fits
  <2>5. Transition(p, change) => Transitions(p)
    BY <2>2, ChangesOfTheTable
  <2> HIDE DEF change
  <2> QED
    BY <2>1, <2>3, <2>4, <2>5, SealProper DEF Sealing, ExactColumns
<1>5. CASE DispatchReceipt(w)
  <2>1. Running(w) /\ job[w].pc = "rfp_dispatch" /\ Dispatch(w, "rfp_accepted")
    BY <1>5 DEF DispatchReceipt, Running
  <2>2. job[w].held \in ReceiptBundles
    BY <2>1, SnapshotColumn DEF Fits
  <2>3. Fits(p, job[w].row, "rfp_accepted", job[w].held)
    BY <2>1, <2>2, SnapshotColumn DEF Fits
  <2>4. /\ IndexAdvances /\ executor' \subseteq ExactBundles
        /\ UNCHANGED storeVars /\ UNCHANGED <<mempool, mined>>
        /\ Goto(w, "rfp_accepted")
    BY <2>1, <2>2 DEF Whole, Books, Dispatch, IndexAdvances, indexVars, ExactBundles
  <2> QED
    BY <2>1, <2>3, <2>4, ContinuesProper DEF Sealing
<1>6. CASE ReceiptAccepted(w)
  <2>1. /\ Running(w) /\ job[w].pc = "rfp_accepted"
        /\ Record(w, RecordReceiptFunding(job[w].held, w))
    BY <1>6 DEF ReceiptAccepted, Running
  <2>2. job[w].held \in ReceiptBundles
    BY <2>1, SnapshotColumn DEF Fits
  <2> QED
    BY <1>1, <2>1, <2>2
<1> QED
  BY <1>2, <1>3, <1>4, <1>5, <1>6

\* The writes of the index keep its rows typed and its confirmations.
LEMMA IndexCalls ==
  ASSUME index \in [Purchases -> IndexRows], NEW p \in Purchases
  PROVE  /\ UNCHANGED index => IndexAdvances
         /\ \A q \in Quorums : Prepare(p, q) => IndexAdvances
         /\ \A b \in DeliveryBundles : BindSubmission(p, b) => IndexAdvances
         /\ RecordConfirmed(p) => IndexAdvances /\ index'[p].state = "CONFIRMED"
         /\ RecordBlocked(p) => IndexAdvances
<1> USE DEF IndexAdvances, IndexRows, IndexStates
<1>1. UNCHANGED index => IndexAdvances
  OBVIOUS
<1>2. ASSUME NEW q \in Quorums, Prepare(p, q)
      PROVE  IndexAdvances
  BY <1>2 DEF Prepare
<1>3. ASSUME NEW b \in DeliveryBundles, BindSubmission(p, b)
      PROVE  IndexAdvances
  <2> DEFINE row == [index[p] EXCEPT !.bundle = b,
                                     !.state = IF @ = "CONFIRMED" THEN @ ELSE "MEMPOOL"]
  <2>1. row \in IndexRows /\ (index[p].state = "CONFIRMED" => row.state = "CONFIRMED")
    OBVIOUS
  <2>2. index' = [index EXCEPT ![p] = row]
    BY <1>3 DEF BindSubmission
  <2> HIDE DEF row
  <2> QED
    BY <2>1, <2>2
<1>4. ASSUME RecordConfirmed(p)
      PROVE  IndexAdvances /\ index'[p].state = "CONFIRMED"
  BY <1>4 DEF RecordConfirmed
<1>5. ASSUME RecordBlocked(p)
      PROVE  IndexAdvances
  BY <1>5 DEF RecordBlocked
<1> QED
  BY <1>1, <1>2, <1>3, <1>4, <1>5

\* A mined delivery is an exact bundle.
LEMMA MinedDeliveries ==
  ASSUME Books, NEW b \in mempool \cup mined, b.kind = "delivery"
  PROVE  b \in DeliveryBundles
BY DEF Books, ExactBundles, ReceiptBundles, DeliveryBundles, ForeignBundles

LEMMA BindsProper ==
  ASSUME Whole, NEW w \in Workers, Running(w), Around, Leasing(job[w].pc),
         NEW b \in DeliveryBundles, BindGovernedSubmission(w, b)
  PROVE  Proper(w)
<1>1. CASE ManualReview(w)
  BY <1>1, EndsProper
<1>2. CASE /\ BindSubmission(job[w].op, b)
           /\ Hold(w, "dp_record", b)
           /\ UNCHANGED <<storeVars, chainVars>>
  <2>1. IndexAdvances
    BY <1>2, IndexCalls, SnapshotColumn DEF Whole, Books
  <2>2. Leasing("dp_record") /\ "dp_record" \notin Sealing
    BY DEF Leasing, Resting, Unleased, Sealing
  <2>3. Fits(job[w].op, job[w].row, "dp_record", b)
    BY SnapshotColumn DEF Fits, Leasing
  <2>4. executor' \subseteq ExactBundles /\ UNCHANGED storeVars /\ UNCHANGED <<mempool, mined>>
    BY <1>2 DEF Whole, Books, chainVars
  <2> QED
    BY <1>2, <2>1, <2>2, <2>3, <2>4, ContinuesProper
<1> QED
  BY <1>1, <1>2 DEF BindGovernedSubmission, Op

LEMMA BeginsProper ==
  ASSUME Whole, NEW w \in Workers, Running(w), Around, Leasing(job[w].pc),
         BeginConfirmation(w)
  PROVE  Proper(w)
<1> USE DEF Leasing, Resting, Unleased, Op
<1>1. CASE ManualReview(w)
  BY <1>1, EndsProper
<1>2. CASE index[Op(w)].state = "CONFIRMED" /\ Observe(w, "dc_record")
  <2>1. Fits(job[w].op, job[w].row, "dc_record", job[w].held)
    BY SnapshotColumn DEF Fits
  <2> QED
    BY <1>2, <2>1, ObserveProper DEF Sealing
<1>3. CASE Observe(w, "dc_index")
  <2>1. Fits(job[w].op, job[w].row, "dc_index", job[w].held)
    BY SnapshotColumn DEF Fits
  <2> QED
    BY <1>3, <2>1, ObserveProper DEF Sealing
<1> QED
  BY <1>1, <1>2, <1>3 DEF BeginConfirmation

LEMMA DeliveryReads ==
  ASSUME Whole, NEW w \in Workers, Around,
         \/ PrepareDelivery(w)     \/ RecordPrepared(w)
         \/ ReadDeliveryOutputs(w) \/ ReadDeliveryMempool(w)
         \/ ReadDeliveryInputs(w)  \/ ConfirmDelivery(w)
  PROVE  Running(w) /\ Proper(w)
<1> DEFINE p == job[w].op
<1> USE DEF At, Leasing, Resting, Unleased
<1>1. CASE PrepareDelivery(w)
  <2>1. Running(w) /\ job[w].pc = "rc_quorum"
    BY <1>1 DEF PrepareDelivery, Running
  <2>2. CASE Fail(w) \/ ManualReview(w)
    BY <2>1, <2>2, EndsProper
  <2>3. ASSUME NEW q \in Quorums, Prepare(p, q), Hold(w, "rc_record", q),
               UNCHANGED <<storeVars, chainVars>>
        PROVE  Proper(w)
    <3>1. IndexAdvances
      BY <2>1, <2>3, IndexCalls, SnapshotColumn DEF Whole, Books
    <3>2. Fits(p, job[w].row, "rc_record", q)
      BY <2>1, <2>3, SnapshotColumn DEF Fits
    <3>3. executor' \subseteq ExactBundles /\ UNCHANGED storeVars /\ UNCHANGED <<mempool, mined>>
      BY <2>3 DEF Whole, Books, chainVars
    <3>4. Leasing(job[w].pc) /\ Leasing("rc_record") /\ "rc_record" \notin Sealing
      BY <2>1 DEF Sealing
    <3> QED
      BY SMTT(30), <2>1, <2>3, <3>1, <3>2, <3>3, <3>4, ContinuesProper
  <2> QED
    BY <1>1, <2>1, <2>2, <2>3 DEF PrepareDelivery, Op
<1>2. CASE RecordPrepared(w)
  <2>1. /\ Running(w) /\ job[w].pc = "rc_record"
        /\ Record(w, RecordDeliveryPrepared(job[w].held))
    BY <1>2 DEF RecordPrepared, Running
  <2>2. job[w].held \in Quorums
    BY <2>1, SnapshotColumn DEF Fits
  <2> QED
    BY <2>1, <2>2, SnapshotColumn, ChangesOfTheTable, StagesBefore, PlainChanges, RecordProper
<1>3. CASE ReadDeliveryOutputs(w)
  <2>1. Running(w) /\ job[w].pc = "dp_outputs"
    BY <1>3 DEF ReadDeliveryOutputs, Running
  <2>2. CASE BeginConfirmation(w)
    BY <2>1, <2>2, BeginsProper
  <2>3. CASE Observe(w, "dp_mempool")
    <3>1. Fits(p, job[w].row, "dp_mempool", job[w].held)
      BY <2>1, SnapshotColumn DEF Fits
    <3> QED
      BY <2>1, <2>3, <3>1, ObserveProper DEF Sealing
  <2> QED
    BY <1>3, <2>1, <2>2, <2>3 DEF ReadDeliveryOutputs
<1>4. CASE ReadDeliveryMempool(w)
  <2> DEFINE exact == Col(w, "deliveryExact")
  <2> DEFINE pending == {b \in mempool : Op(w) \in DeedInputs(b)}
  <2>1. Running(w) /\ job[w].pc = "dp_mempool"
    BY <1>4 DEF ReadDeliveryMempool, Running
  <2>2. CASE exact \in pending /\ BindGovernedSubmission(w, exact)
    <3>1. exact \in DeliveryBundles
      BY <2>1, <2>2, SnapshotColumn, NoneIsNoBundle DEF Whole, Books
    <3> QED
      BY <2>1, <2>2, <3>1, BindsProper
  <2>3. CASE ManualReview(w)
    BY <2>1, <2>3, EndsProper
  <2>4. CASE Observe(w, "dp_inputs")
    <3>1. Fits(p, job[w].row, "dp_inputs", job[w].held)
      BY <2>1, SnapshotColumn DEF Fits
    <3> QED
      BY <2>1, <2>4, <3>1, ObserveProper DEF Sealing
  <2> QED
    BY <1>4, <2>1, <2>2, <2>3, <2>4 DEF ReadDeliveryMempool
<1>5. CASE ReadDeliveryInputs(w)
  <2> DEFINE exact == Col(w, "deliveryExact")
  <2>1. Running(w) /\ job[w].pc = "dp_inputs"
    BY <1>5 DEF ReadDeliveryInputs, Running
  <2>2. CASE ManualReview(w)
    BY <2>1, <2>2, EndsProper
  <2>3. CASE exact = None /\ Observe(w, "dp_fund")
    <3>1. Fits(p, job[w].row, "dp_fund", job[w].held)
      BY <2>1, SnapshotColumn DEF Fits
    <3> QED
      BY <2>1, <2>3, <3>1, ObserveProper DEF Sealing
  <2>4. CASE exact # None /\ ObserveHold(w, "dp_dispatch", exact)
    <3>1. Fits(p, job[w].row, "dp_dispatch", exact)
      BY <2>1, <2>4, SnapshotColumn DEF Fits
    <3> QED
      BY <2>1, <2>4, <3>1, ObserveHoldProper DEF Sealing
  <2> QED
    BY <1>5, <2>1, <2>2, <2>3, <2>4 DEF ReadDeliveryInputs
<1>6. CASE ConfirmDelivery(w)
  <2>1. Running(w) /\ job[w].pc = "ds_outputs"
    BY <1>6 DEF ConfirmDelivery, Running
  <2> QED
    BY <1>6, <2>1, BeginsProper, EndsProper DEF ConfirmDelivery
<1> QED
  BY <1>1, <1>2, <1>3, <1>4, <1>5, <1>6

LEMMA DeliveryWrites ==
  ASSUME Whole, NEW w \in Workers, Around,
         \/ FundDelivery(w)     \/ SealDelivery(w)  \/ DispatchDelivery(w)
         \/ DeliveryAccepted(w) \/ RecordSubmission(w)
  PROVE  Running(w) /\ Proper(w)
<1> DEFINE p == job[w].op
<1> USE DEF At, Leasing, Resting, Unleased
<1>0. w \in Stamps
  BY WorkerAssumption
<1>1. CASE FundDelivery(w)
  <2> DEFINE coins == FeeCoins(w)
  <2> DEFINE b == DeliveryBundle(p, Col(w, "deliverySigners"), Smallest(coins))
  <2>1. Running(w) /\ job[w].pc = "dp_fund"
    BY <1>1 DEF FundDelivery, Running
  <2>2. CASE Fail(w)
    BY <2>1, <2>2, EndsProper
  <2>3. CASE coins # {} /\ ObserveHold(w, "dp_seal", b)
    <3>1. Smallest(coins) \in Coins /\ Smallest(coins) \notin PendingExactFeeCoinIds
      BY <2>3, FeeCoinIsFree
    <3>2. Col(w, "deliverySigners") \in Quorums /\ p \in Purchases
      BY <2>1, SnapshotColumn DEF Fits
    <3>3. b \in DeliveryBundles /\ b.fee \notin PendingExactFeeCoinIds
      BY <3>1, <3>2 DEF DeliveryBundle, DeliveryBundles
    <3>4. Fits(p, job[w].row, "dp_seal", b)
      BY <2>1, <3>3, SnapshotColumn DEF Fits
    <3> QED
      BY <2>1, <2>3, <3>3, <3>4, ObserveHoldProper
  <2> QED
    BY <1>1, <2>1, <2>2, <2>3 DEF FundDelivery, Op
<1>2. CASE SealDelivery(w)
  <2> DEFINE change == BindDeliveryExactBundle(job[w].held)
  <2>1. /\ Running(w) /\ job[w].pc = "dp_seal"
        /\ SealExact(w, change, "dp_dispatch")
    BY <1>2 DEF SealDelivery, Running
  <2>2. job[w].held \in DeliveryBundles /\ p \in Purchases
    BY <2>1, SnapshotColumn DEF Fits
  <2>3. /\ DOMAIN change.values = {"deliveryExact"}
        /\ change.values["deliveryExact"] = job[w].held
        /\ change.from = {change.to} /\ change.to \notin Settling /\ ~change.release
    BY DEF BindDeliveryExactBundle, Seal, Settling
  <2>4. Fits(p, job[w].row, "dp_dispatch", job[w].held)
    BY <2>1, <2>2, SnapshotColumn DEF Fits
  <2>5. Transition(p, change) => Transitions(p)
    BY <2>2, ChangesOfTheTable
  <2> HIDE DEF change
  <2> QED
    BY <2>1, <2>3, <2>4, <2>5, SealProper DEF Sealing, ExactColumns
<1>3. CASE DispatchDelivery(w)
  <2>1. Running(w) /\ job[w].pc = "dp_dispatch" /\ Dispatch(w, "dp_accepted")
    BY <1>3 DEF DispatchDelivery, Running
  <2>2. job[w].held \in DeliveryBundles
    BY <2>1, SnapshotColumn DEF Fits
  <2>3. Fits(p, job[w].row, "dp_accepted", job[w].held)
    BY <2>1, <2>2, SnapshotColumn DEF Fits
  <2>4. /\ IndexAdvances /\ executor' \subseteq ExactBundles
        /\ UNCHANGED storeVars /\ UNCHANGED <<mempool, mined>>
        /\ Goto(w, "dp_accepted")
    BY <2>1, <2>2 DEF Whole, Books, Dispatch, IndexAdvances, indexVars, ExactBundles
  <2> QED
    BY <2>1, <2>3, <2>4, ContinuesProper DEF Sealing
<1>4. CASE DeliveryAccepted(w)
  <2>1. /\ Running(w) /\ job[w].pc = "dp_accepted"
        /\ BindGovernedSubmission(w, job[w].held)
    BY <1>4 DEF DeliveryAccepted, Running
  <2>2. job[w].held \in DeliveryBundles
    BY <2>1, SnapshotColumn DEF Fits
  <2> QED
    BY <2>1, <2>2, BindsProper
<1>5. CASE RecordSubmission(w)
  <2>1. /\ Running(w) /\ job[w].pc = "dp_record"
        /\ Record(w, RecordDeliverySubmission(job[w].held, w))
    BY <1>5 DEF RecordSubmission, Running
  <2>2. job[w].held \in DeliveryBundles
    BY <2>1, SnapshotColumn DEF Fits
  <2> QED
    BY <1>0, <2>1, <2>2, SnapshotColumn, ChangesOfTheTable, StagesBefore, PlainChanges, RecordProper
<1> QED
  BY <1>1, <1>2, <1>3, <1>4, <1>5

\* The write that confirms a delivery brings all its evidence.
LEMMA ConfirmationArrives ==
  ASSUME Whole, NEW w \in Workers, Running(w), job[w].pc = "dc_record",
         NEW b \in mined, b.kind = "delivery", b.purchase = job[w].op,
         Transition(job[w].op, RecordDeliveryConfirmed(job[w].op, b)),
         UNCHANGED <<indexVars, chainVars>>
  PROVE  /\ Transitions(job[w].op) /\ Arrives
         /\ Plain(job[w].op, RecordDeliveryConfirmed(job[w].op, b))
         /\ Rail[job[w].op] = "base_usdc" =>
              state'[job[w].op] = "EXTERNAL_SETTLEMENT_PENDING"
<1> DEFINE p == job[w].op
<1> DEFINE change == RecordDeliveryConfirmed(p, b)
<1>1. /\ StoreTypeOK /\ Shaped /\ p \in Purchases
      /\ Rail[p] \in EnabledRails /\ index[p].state = "CONFIRMED"
  BY SnapshotColumn DEF Whole, Table, IInv, Fits, Confirmations
<1>2. b \in DeliveryBundles
  BY MinedDeliveries DEF Whole
<1>3. Transitions(p)
  BY <1>1, <1>2, ChangesOfTheTable
<1>4. column[p]["deliveryExact"] = b
  BY <1>2 DEF Whole, IInv, DispatchedIsSealed, ExactBundles, DeliveryBundles, ExactColumn
<1>5. Plain(p, change)
  BY PlainChanges DEF Delivered
<1>6. /\ DOMAIN change.values = {"confirmedBy"} /\ change.values["confirmedBy"] = b
      /\ change.to = IF Rail[p] = "stripe" THEN "FINALIZED"
                     ELSE "EXTERNAL_SETTLEMENT_PENDING"
  BY DEF RecordDeliveryConfirmed, RecordFinalized, Change
<1> HIDE DEF change
<1>7. state' = [state EXCEPT ![p] = change.to]
  BY <1>1, <1>3, TransitionsOfTheTable DEF change
<1>8. column' = [column EXCEPT ![p] =
        [c \in Columns |-> IF c \in DOMAIN change.values THEN change.values[c]
                                                         ELSE column[p][c]]]
  BY DEF Transition, change
<1>9. column'[p]["confirmedBy"] = b /\ column'[p]["deliveryExact"] = b
  BY <1>1, <1>4, <1>6, <1>8, EvidenceColumns DEF Shaped
<1>10. state'[p] = change.to /\ \A q \in Purchases \ {p} : state'[q] = state[q]
  BY <1>1, <1>7 DEF StoreTypeOK
<1>11. b \in mined' /\ index'[p].state = "CONFIRMED"
  BY <1>1 DEF indexVars, chainVars
<1>12. ASSUME NEW q \in Purchases, q = p
       PROVE  Confirmed(q)'
  BY <1>1, <1>9, <1>11, <1>12 DEF Confirmed
<1>13. Arrives
  BY <1>6, <1>10, <1>12 DEF Arrives
<1> QED
  BY <1>3, <1>5, <1>6, <1>10, <1>13 DEF change

LEMMA SettlementProper ==
  ASSUME Whole, NEW w \in Workers, Around,
         \/ ConfirmIndex(w)     \/ RecordConfirmation(w) \/ AuthorizeSettlement(w)
         \/ ResumeSettlement(w) \/ ReleaseDisabled(w)
  PROVE  Running(w) /\ Proper(w)
<1> DEFINE p == job[w].op
<1> USE DEF At
<1>1. CASE ConfirmIndex(w)
  <2>1. Running(w) /\ job[w].pc = "dc_index"
    BY <1>1 DEF ConfirmIndex, Running, Resting
  <2>2. CASE Fail(w)
    BY <2>1, <2>2, EndsProper
  <2>3. CASE RecordConfirmed(p) /\ Goto(w, "dc_record") /\ UNCHANGED <<storeVars, chainVars>>
    <3>1. IndexAdvances /\ index'[p].state = "CONFIRMED"
      BY <2>1, <2>3, IndexCalls, SnapshotColumn DEF Whole, Books
    <3>2. Fits(p, job[w].row, "dc_record", job[w].held)
      BY <2>1, SnapshotColumn DEF Fits
    <3>3. executor' \subseteq ExactBundles /\ UNCHANGED storeVars /\ UNCHANGED <<mempool, mined>>
      BY <2>3 DEF Whole, Books, chainVars
    <3>4. Leasing(job[w].pc) /\ Leasing("dc_record") /\ "dc_record" \notin Sealing
      BY <2>1 DEF Sealing, Leasing, Resting, Unleased
    <3>5. Proper(w)
      BY <2>1, <2>3, <3>1, <3>2, <3>3, <3>4, ContinuesProper
    <3> QED
      BY <2>1, <3>5
  <2> QED
    BY <1>1, <2>1, <2>2, <2>3 DEF ConfirmIndex, Op
<1>2. CASE RecordConfirmation(w)
  <2>1. Running(w) /\ job[w].pc = "dc_record"
    BY <1>2 DEF RecordConfirmation, Running, Resting
  <2>2. PICK b \in mined : /\ b.kind = "delivery" /\ b.purchase = p
                          /\ \/ Record(w, RecordDeliveryConfirmed(p, b))
                             \/ /\ Rail[p] = "base_usdc"
                                /\ SealExact(w, RecordDeliveryConfirmed(p, b), "dc_authorize")
    BY <1>2 DEF RecordConfirmation, Op
  <2> DEFINE change == RecordDeliveryConfirmed(p, b)
  <2>3. CASE Fail(w)
    BY <2>1, <2>3, EndsProper
  <2>4. CASE Transition(p, change) /\ Finish(w) /\ UNCHANGED <<indexVars, chainVars>>
    <3>1. Transitions(p) /\ Arrives /\ Plain(p, change)
      BY <2>1, <2>2, <2>4, ConfirmationArrives
    <3>2. Record(w, change)
      BY <2>4 DEF Record, Op
    <3> HIDE DEF change
    <3> QED
      BY <2>1, <3>1, <3>2, RecordProper
  <2>5. CASE /\ Rail[p] = "base_usdc"
             /\ Transition(p, change) /\ Goto(w, "dc_authorize")
             /\ UNCHANGED <<indexVars, chainVars>>
    <3>1. /\ Transitions(p) /\ Arrives /\ Plain(p, change)
          /\ state'[p] = "EXTERNAL_SETTLEMENT_PENDING"
      BY <2>1, <2>2, <2>5, ConfirmationArrives
    <3> HIDE DEF change
    <3>2. /\ StoreTypeOK /\ Shaped /\ p \in Purchases /\ Equipped(w) /\ JobShaped
      BY <2>1, SnapshotColumn DEF Whole, Table, IInv
    <3>3. StoreNext /\ Only(p)
      BY <2>5, <3>1, <3>2, TransitionsOfTheTable
    <3>4. Quiet
      BY <2>5, <3>1, <3>2, QuietTransition
    <3>5. /\ \A v \in Workers \ {w} : job'[v] = job[v]
          /\ job'[w].pc = "dc_authorize" /\ job'[w].op = p /\ job'[w].row = job[w].row
      BY <2>5, <3>2, GotoShape
    <3>6. job'[w].left = job[w].left
      BY <2>5, <3>2 DEF JobShaped, JobFields, Goto
    <3>7. Equipped(w)'
      BY <2>1, <3>2, <3>5, <3>6 DEF Equipped, Fits, Running, Resting
    <3>8. GoesOnLeased(w)
      BY <3>1, <3>5, <3>6 DEF GoesOnLeased, Rank
    <3>9. Pays(w)
      BY <3>4, <3>5 DEF Pays, Quiet, Sealing
    <3>10. IndexAdvances /\ executor' \subseteq ExactBundles /\ UNCHANGED <<mempool, mined>>
      BY <2>5, ChainAndIndexStill
    <3>11. Proper(w)
      BY <3>1, <3>3, <3>5, <3>7, <3>8, <3>9, <3>10 DEF Proper
    <3> QED
      BY <2>1, <3>11
  <2> QED
    BY <2>1, <2>2, <2>3, <2>4, <2>5 DEF Record, SealExact, Op
<1>3. ASSUME Running(w), NEW bundleId, Authorize(w, bundleId)
      PROVE  Proper(w)
  <2> DEFINE change == RecordExternalSettlementAuthorization(p)
  <2>1. p \in Purchases /\ StoreTypeOK
    BY <1>3, SnapshotColumn DEF Whole, Table
  <2>2. Transition(p, change) => Transitions(p)
    BY <2>1, ChangesOfTheTable
  <2>3. change.from = {"EXTERNAL_SETTLEMENT_PENDING"} /\ change.to = "EXTERNAL_SETTLEMENT_PENDING"
    BY DEF RecordExternalSettlementAuthorization, Change
  <2>4. Plain(p, change)
    BY PlainChanges
  <2>5. Fail(w) \/ Record(w, change)
    BY <1>3 DEF Authorize, Op
  <2> HIDE DEF change
  <2>6. ASSUME Transition(p, change)
        PROVE  Arrives
    <3>1. state' = [state EXCEPT ![p] = change.to] /\ state[p] \in change.from
      BY <2>1, <2>2, <2>6, TransitionsOfTheTable
    <3> QED
      BY <2>1, <2>3, <3>1 DEF StoreTypeOK, Arrives
  <2> QED
    BY <1>3, <2>2, <2>4, <2>5, <2>6, EndsProper, RecordProper
<1>4. CASE AuthorizeSettlement(w)
  BY <1>3, <1>4 DEF AuthorizeSettlement, Running, Resting
<1>5. CASE ResumeSettlement(w)
  BY <1>3, <1>5, EndsProper DEF ResumeSettlement, Running, Resting
<1>6. CASE ReleaseDisabled(w)
  BY <1>6, EndsProper DEF ReleaseDisabled, Running, Resting
<1> QED
  BY <1>1, <1>2, <1>4, <1>5, <1>6

\* The rows change by calls of the table alone; only the end of a process
\* touches leases otherwise.
TableMoves == [StoreNext]_storeVars \/ UNCHANGED <<state, column, lastError, older>>

\* The steps of a running worker, interruptions included.
LEMMA WorkKeeps ==
  ASSUME Whole, IInv', NEW w \in Workers, Work(w) \/ Interrupt(w)
  PROVE  Whole' /\ TableMoves /\ UNCHANGED <<mined, settled>>
<1>1. CASE Work(w)
  <2>1. Around /\ Step(w)
    BY <1>1 DEF Work, Env, Around, Whole, Switches
  <2>2. Running(w) /\ Proper(w)
    BY <2>1, ReceiptReads, ReceiptWrites, DeliveryReads, DeliveryWrites, SettlementProper DEF Step
  <2> QED
    BY <2>2, ProperKeeps DEF Proper, TableMoves, Around
<1>2. CASE Interrupt(w)
  <2>1. Around
    BY <1>2, FaultAssumption DEF Interrupt, Fault, Around, Whole, Switches
  <2>2. Running(w) /\ Fail(w)
    BY <1>2 DEF Interrupt, Awaiting
  <2> QED
    BY <2>1, <2>2, EndsProper, ProperKeeps DEF Proper, TableMoves, Around
<1> QED
  BY <1>1, <1>2

-----------------------------------------------------------------------------
(* The other steps.                                                         *)

\* No bundle is in other hands than before, and none is sealed.
LEMMA FeesStay ==
  ASSUME Whole, [StoreNext]_storeVars \/ UNCHANGED <<state, column>>, Quiet,
         \A w \in Workers : job'[w].pc \in Sealing =>
           job[w].pc \in Sealing /\ job'[w].held = job[w].held
  PROVE  FeesApart'
<1> SUFFICES ASSUME OneWorker
             PROVE  /\ FeeCoinsDisjoint'
                    /\ \A w \in Workers : job'[w].pc \in Sealing =>
                         job'[w].held.fee \notin PendingExactFeeCoinIds'
  BY DEF FeesApart, OneWorker
<1>1. Forward
  <2>1. CASE [StoreNext]_storeVars
    BY <2>1, TableKeeps DEF Whole
  <2>2. CASE UNCHANGED <<state, column>>
    BY <2>2, RankIsNat DEF Forward, Whole, Table, StoreTypeOK
  <2> QED
    BY <2>1, <2>2
<1>2. ASSUME NEW p \in Purchases, NEW fee, HeldFee(p, fee)'
      PROVE  HeldFee(p, fee)
  BY <1>1, <1>2, NoNewFees DEF Quiet
<1>3. /\ FeeCoinsDisjoint
      /\ \A w \in Workers : job[w].pc \in Sealing => job[w].held.fee \notin PendingExactFeeCoinIds
  BY DEF Whole, FeesApart
<1>4. FeeCoinsDisjoint'
  BY <1>2, <1>3, FeesHeld DEF FeesByHolder
<1>5. \A fee : fee \in PendingExactFeeCoinIds' => fee \in PendingExactFeeCoinIds
  BY <1>2, FeesHeld DEF FeesByHolder
<1> QED
  BY <1>3, <1>4, <1>5

\* A step that is no worker's: it lets the leased rows alone.
LEMMA ElsewhereKeeps ==
  ASSUME Whole, IInv', UNCHANGED job, [StoreNext]_storeVars, Quiet,
         IndexAdvances, Arrives, mined \subseteq mined', settled \subseteq settled',
         Books', Switches', NoConflicts',
         ~Stalls => \A w \in Workers : Running(w) /\ job[w].pc \notin Unleased =>
           /\ lease'[job[w].op] = lease[job[w].op]
           /\ job[w].pc # "disabled" => state'[job[w].op] = state[job[w].op]
  PROVE  Whole' /\ TableMoves
<1>1. Table' /\ Forward
  BY TableKeeps DEF Whole
<1>2. \A w \in Workers : Equipped(w)'
  BY DEF Whole, Equipped, Running
<1>3. Confirmations'
  <2>1. ASSUME NEW p \in Purchases, state'[p] \in Settling
        PROVE  Confirmed(p)' /\ (state'[p] = "FINALIZED" /\ Rail[p] = "base_usdc" => p \in settled')
    BY <2>1, ConfirmationsStay
  <2>2. ASSUME NEW w \in Workers, job'[w].pc = "dc_record"
        PROVE  index'[job'[w].op].state = "CONFIRMED"
    <3>1. job[w].pc = "dc_record"
      BY <2>2
    <3>2. index[job[w].op].state = "CONFIRMED" /\ job[w].op \in Purchases
      BY <3>1 DEF Whole, Confirmations, Equipped, Running, Resting
    <3> QED
      BY <3>2 DEF IndexAdvances
  <2> QED
    BY <2>1, <2>2 DEF Confirmations, Settling
<1>4. LeasesHeld'
  <2> SUFFICES ASSUME ~Stalls, NEW w \in Workers, Running(w)
               PROVE  Leased(w)'
    BY DEF LeasesHeld, Leased, Running
  <2>1. Leased(w) /\ job[w].op \in Purchases /\ StoreTypeOK /\ StoreTypeOK'
    BY <1>1 DEF Whole, LeasesHeld, Equipped, Table
  <2>2. CASE job[w].pc \in Unleased
    <3>1. Rank[state'[job[w].op]] >= Rank[state[job[w].op]] /\ Rank[state[job[w].op]] >= 7
      BY <1>1, <2>1, <2>2 DEF Forward, Leased
    <3>2. Rank[state[job[w].op]] \in Nat /\ Rank[state'[job[w].op]] \in Nat
      BY <2>1, RankIsNat DEF StoreTypeOK
    <3>3. Rank[state'[job[w].op]] >= 7
      BY <3>1, <3>2
    <3> QED
      BY <2>2, <3>3 DEF Leased
  <2>3. CASE job[w].pc \notin Unleased
    BY <2>1, <2>3 DEF Leased
  <2> QED
    BY <2>2, <2>3
<1>5. FeesApart'
  BY FeesStay
<1> QED
  BY <1>1, <1>2, <1>3, <1>4, <1>5 DEF Whole, TableMoves

\* Steps that do not touch the table, or the index.
LEMMA TableStill ==
  ASSUME Whole, UNCHANGED storeVars
  PROVE  [StoreNext]_storeVars /\ Quiet /\ Arrives /\ UNCHANGED lease /\ UNCHANGED state
BY DEF Whole, IInv, Shaped, Quiet, Arrives, storeVars

LEMMA IndexStill ==
  ASSUME Whole, UNCHANGED index
  PROVE  IndexAdvances
BY DEF Whole, Books, IndexAdvances

\* The executor, the node and other services of the coordinator.
LEMMA ChainKeepsBooks ==
  ASSUME Books, NoConflicts, ChainNext, UNCHANGED index
  PROVE  Books' /\ NoConflicts' /\ mined \subseteq mined'
<1>1. ASSUME NEW b \in ExactBundles \cup ForeignBundles, EnterMempool(b)
      PROVE  Books' /\ NoConflicts' /\ mined \subseteq mined'
  <2>1. \A d : Conflicts(b, d) <=> Conflicts(d, b)
    BY DEF Conflicts
  <2>2. \A d \in mempool \cup mined : ~Conflicts(b, d)
    BY <1>1 DEF EnterMempool, Spendable
  <2>3. mempool' = mempool \cup {b} /\ UNCHANGED <<executor, mined>>
    BY <1>1 DEF EnterMempool
  <2> QED
    BY <2>1, <2>2, <2>3 DEF Books, NoConflicts
<1>2. ASSUME NEW b \in mempool, Drop(b)
      PROVE  Books' /\ NoConflicts' /\ mined \subseteq mined'
  BY <1>2 DEF Drop, Books, NoConflicts
<1>3. ASSUME NEW b \in mempool, Include(b)
      PROVE  Books' /\ NoConflicts' /\ mined \subseteq mined'
  BY <1>3 DEF Include, Books, NoConflicts
<1>4. CASE Resubmit
  BY <1>1, <1>4 DEF Resubmit, Books
<1>5. CASE ForeignSpend
  BY <1>1, <1>5 DEF ForeignSpend
<1> QED
  BY <1>2, <1>3, <1>4, <1>5 DEF ChainNext

LEMMA ChainKeeps ==
  ASSUME Whole, IInv', Chain
  PROVE  Whole' /\ TableMoves
<1>1. UNCHANGED <<storeVars, index, job, poll, gate, settled, faults>>
  BY DEF Chain, indexVars, Env
<1>2. Books' /\ NoConflicts' /\ mined \subseteq mined'
  BY <1>1, ChainKeepsBooks DEF Chain, Whole
<1>3. Switches'
  BY <1>1 DEF Whole, Switches
<1> QED
  BY <1>1, <1>2, <1>3, TableStill, IndexStill, ElsewhereKeeps

\* The status route, the gate, and a step in which nothing happens.
LEMMA ReadsKeep ==
  ASSUME Whole, IInv',
         \/ \E p \in Purchases : RelaySettlement(p) \/ ReadStatusOutputs(p)
         \/ ReadStatusInputs \/ CloseGate \/ OpenGate
         \/ UNCHANGED vars
  PROVE  Whole' /\ TableMoves
<1>1. UNCHANGED <<storeVars, chainVars, job>>
  BY DEF RelaySettlement, ReadStatusOutputs, ReadStatusInputs, CloseGate, OpenGate, vars
<1>2. IndexAdvances
  <2>1. CASE ReadStatusInputs
    <3>1. poll.op \in Purchases
      BY <2>1 DEF ReadStatusInputs, Whole, Switches
    <3> QED
      BY <2>1, <3>1, IndexCalls DEF ReadStatusInputs, Whole, Books
  <2>2. CASE ~ReadStatusInputs
    <3>1. UNCHANGED index
      BY <2>2 DEF RelaySettlement, ReadStatusOutputs, CloseGate, OpenGate, vars, indexVars
    <3> QED
      BY <3>1, IndexStill
  <2> QED
    BY <2>1, <2>2
<1>3. Switches' /\ settled \subseteq settled'
  <2> USE DEF Whole, Switches
  <2>1. ASSUME NEW p \in Purchases, RelaySettlement(p)
        PROVE  Switches' /\ settled \subseteq settled'
    BY <2>1 DEF RelaySettlement
  <2>2. ASSUME NEW p \in Purchases, ReadStatusOutputs(p)
        PROVE  Switches' /\ settled \subseteq settled'
    BY <2>2 DEF ReadStatusOutputs
  <2>3. CASE ReadStatusInputs \/ UNCHANGED vars
    BY <2>3 DEF ReadStatusInputs, vars
  <2>4. CASE CloseGate \/ OpenGate
    <3>1. gate' \in BOOLEAN
      BY <2>4, Zenon DEF CloseGate, OpenGate
    <3>2. UNCHANGED <<poll, settled>> /\ (faults' = faults \/ Fault)
      BY <2>4, Zenon DEF CloseGate, OpenGate
    <3>3. faults' \in 0 .. MaxFaults
      BY <3>2, FaultAssumption DEF Fault
    <3> QED
      BY <3>1, <3>2, <3>3
  <2> QED
    BY <2>1, <2>2, <2>3, <2>4
<1>4. Books' /\ NoConflicts' /\ mined \subseteq mined'
  BY <1>1, <1>2 DEF Whole, Books, NoConflicts, chainVars, IndexAdvances
<1> QED
  BY <1>1, <1>2, <1>3, <1>4, TableStill, ElsewhereKeeps

\* A new row is leased by nobody.
LEMMA QueueKeeps ==
  ASSUME Whole, IInv', QueuePurchase
  PROVE  Whole' /\ TableMoves
<1>1. PICK p \in Purchases : Queue(p, p)
  BY DEF QueuePurchase
<1>2. UNCHANGED <<index, chainVars, job, poll, gate, settled, faults>>
  BY DEF QueuePurchase, indexVars, Env
<1>3. [StoreNext]_storeVars
  <2>1. p \in Payments
    BY WorkerAssumption
  <2> QED
    BY <1>1, <2>1, Zenon DEF StoreNext
<1>4. Quiet
  BY <1>1, QuietCalls DEF Whole, IInv
<1>5. /\ state[p] = "ABSENT" /\ state' = [state EXCEPT ![p] = "PAYMENT_VERIFIED"]
      /\ UNCHANGED lease
  BY <1>1 DEF Queue
<1>6. Arrives
  BY <1>5 DEF Arrives, Settling, Whole, Table, StoreTypeOK
<1>7. ASSUME NEW w \in Workers, ~Stalls, Running(w), job[w].pc \notin Unleased \cup {"disabled"}
      PROVE  state'[job[w].op] = state[job[w].op]
  <2>1. state[job[w].op] \in Pending /\ job[w].op \in Purchases
    BY <1>7 DEF Whole, LeasesHeld, Leased, Equipped, Snapshot
  <2> QED
    BY <1>5, <2>1 DEF Pending, Whole, Table, StoreTypeOK
<1>8. Books' /\ Switches' /\ NoConflicts' /\ mined \subseteq mined' /\ settled \subseteq settled'
  BY <1>2 DEF Whole, Books, Switches, NoConflicts, chainVars
<1> QED
  BY <1>2, <1>3, <1>4, <1>5, <1>6, <1>7, <1>8, IndexStill, ElsewhereKeeps

\* What is acknowledged was confirmed, and no worker has a lease on it.
LEMMA AcknowledgeKeeps ==
  ASSUME Whole, IInv', NEW p \in Purchases, AcknowledgeSettlement(p)
  PROVE  Whole' /\ TableMoves
<1> DEFINE change == RecordExternalSettlementFinalized(p)
<1>1. /\ UNCHANGED <<index, chainVars, job, poll, gate, settled, faults>>
      /\ p \in settled /\ Transition(p, change)
  BY DEF AcknowledgeSettlement, indexVars, Env
<1>2. StoreTypeOK /\ Shaped
  BY DEF Whole, Table, IInv
<1>3. Transitions(p)
  BY <1>1, Zenon DEF Transitions
<1>4. Quiet
  BY <1>1, <1>2, QuietTransition, PlainChanges
<1>5. change.to = "FINALIZED" /\ change.from = Settling
  BY DEF RecordExternalSettlementFinalized, Change, Settling
<1> HIDE DEF change
<1>6. /\ StoreNext /\ Only(p) /\ state[p] \in Settling
      /\ state' = [state EXCEPT ![p] = "FINALIZED"]
  BY <1>1, <1>2, <1>3, <1>5, TransitionsOfTheTable
<1>7. Kept /\ IndexAdvances
  BY <1>1, <1>6, TableKeeps, IndexStill DEF Whole
<1>8. Confirmed(p) /\ Confirmed(p)'
  BY <1>1, <1>6, <1>7, ConfirmedStays DEF Whole, Confirmations, chainVars
<1>9. ASSUME NEW q \in Purchases, q = p
      PROVE  Confirmed(q)'
  BY <1>8, <1>9
<1>10. Arrives
  BY <1>1, <1>2, <1>6, <1>9 DEF Arrives, StoreTypeOK
<1>11. ASSUME NEW w \in Workers, ~Stalls, Running(w), job[w].pc \notin Unleased
       PROVE  /\ lease'[job[w].op] = lease[job[w].op]
              /\ state'[job[w].op] = state[job[w].op]
  <2>1. Leased(w) /\ Equipped(w)
    BY <1>11 DEF Whole, LeasesHeld
  <2>2. job[w].op # p
    BY <1>6, <1>8, <1>11, <2>1 DEF Leased, Equipped, Snapshot, Fits, Confirmed, Settling, Pending
  <2> QED
    BY <1>6, <1>11, <2>1, <2>2 DEF Only, Equipped
<1>12. Books' /\ Switches' /\ NoConflicts' /\ mined \subseteq mined' /\ settled \subseteq settled'
  BY <1>1 DEF Whole, Books, Switches, NoConflicts, chainVars
<1> QED
  BY <1>1, <1>4, <1>6, <1>7, <1>10, <1>11, <1>12, ElsewhereKeeps

-----------------------------------------------------------------------------
(* Claims, the end of a process, and time.                                  *)

\* Where a claim takes a row up.
LEMMA Entries ==
  ASSUME NEW s \in Pending
  PROVE  /\ Entry[s] \notin Resting \cup Sealing \cup {"disabled", "dc_record"}
         /\ Entry[s] \in Unleased <=> s = "EXTERNAL_SETTLEMENT_PENDING"
         /\ \A op, row : row.state = s /\ Rail[op] \in EnabledRails =>
              Fits(op, row, Entry[s], None)
BY DEF Pending, Entry, Resting, Sealing, Unleased, Fits

\* Steps that leave rows, index, chain and switches as they are keep their part.
LEMMA RestKeeps ==
  ASSUME Whole, UNCHANGED <<state, column, index, chainVars, poll, gate, settled>>,
         faults' \in 0 .. MaxFaults,
         \A w \in Workers : job'[w].pc = "dc_record" =>
           job[w].pc = "dc_record" /\ job'[w].op = job[w].op,
         \A w \in Workers : job'[w].pc \in Sealing =>
           job[w].pc \in Sealing /\ job'[w].held = job[w].held
  PROVE  Books' /\ Switches' /\ Confirmations' /\ FeesApart' /\ NoConflicts'
<1>1. Quiet
  BY DEF Whole, IInv, Shaped, Quiet
<1>2. FeesApart'
  BY <1>1, FeesStay
<1>3. Books' /\ Switches' /\ NoConflicts'
  BY DEF Whole, Books, Switches, NoConflicts, chainVars
<1>4. \A p \in Purchases : Confirmed(p)' <=> Confirmed(p)
  BY DEF Confirmed, chainVars
<1>5. Confirmations'
  BY <1>4 DEF Whole, Confirmations
<1> QED
  BY <1>2, <1>3, <1>5

LEMMA ClaimsKeep ==
  ASSUME Whole, IInv', NEW w \in Workers, PollNext(w) \/ ReconcileOne(w)
  PROVE  Whole' /\ TableMoves
<1>1. PICK p \in Purchases :
        /\ Start(w, p) /\ TakeLease(p, w) /\ state[p] \in Pending
        /\ Lapsed(p) \/ lease[p].owner = w
        /\ ClaimNext(p, w) \/ Claim(p, w)
  BY DEF PollNext, ReconcileOne, ClaimNext, Claim, Claimable
<1>2. StoreNext
  <2>1. w \in Owners
    BY WorkerAssumption
  <2> QED
    BY <1>1, <2>1, Zenon DEF StoreNext
<1>3. /\ UNCHANGED <<state, column, index, chainVars, poll, gate, settled, faults>>
      /\ lease' = [lease EXCEPT ![p] = [owner |-> w, left |-> LeaseSeconds]]
  BY <1>1 DEF Start, TakeLease, indexVars, Env
<1>4. Table /\ Table'
  BY <1>2, TableKeeps DEF Whole
<1> DEFINE pc == IF Rail[p] \in EnabledRails THEN Entry[state[p]] ELSE "disabled"
<1>5. /\ \A v \in Workers \ {w} : job'[v] = job[v]
      /\ job'[w].pc = pc /\ job'[w].op = p /\ job'[w].row = Row(p)
      /\ job'[w].held = None /\ job'[w].left = AdvanceTimeout
  BY <1>1 DEF Start, Whole, IInv, JobShaped
<1>6. /\ pc \notin Resting \cup Sealing \cup {"dc_record"}
      /\ pc \in Unleased => state[p] = "EXTERNAL_SETTLEMENT_PENDING"
      /\ pc \notin Unleased \cup {"disabled"} => state[p] # "EXTERNAL_SETTLEMENT_PENDING"
  BY <1>1, Entries DEF Resting, Sealing, Unleased
<1>7. Fits(p, Row(p), pc, None)
  <2>1. Row(p).state = state[p]
    BY DEF Row
  <2>2. CASE Rail[p] \in EnabledRails
    BY <1>1, <2>1, <2>2, Entries
  <2>3. CASE Rail[p] \notin EnabledRails
    BY <2>3 DEF Fits
  <2> QED
    BY <2>2, <2>3
<1>8. Snapshot(Row(p))
  BY <1>1, <1>4 DEF Snapshot, Row, Table, StoreTypeOK, StageEvidence
<1> HIDE DEF pc
<1>9. Books' /\ Switches' /\ Confirmations' /\ FeesApart' /\ NoConflicts'
  <2>1. \A v \in Workers : job'[v].pc \in Sealing \cup {"dc_record"} => job'[v] = job[v]
    BY <1>5, <1>6
  <2>2. faults' \in 0 .. MaxFaults
    BY <1>3 DEF Whole, Switches
  <2> QED
    BY <1>3, <2>1, <2>2, RestKeeps
<1>10. ASSUME NEW v \in Workers
       PROVE  Equipped(v)'
  <2>1. CASE v = w
    BY <1>5, <1>7, <1>8, <2>1, TimeoutAssumption DEF Equipped
  <2>2. CASE v # w
    <3>1. Equipped(v) /\ job'[v] = job[v]
      BY <1>5, <2>2 DEF Whole
    <3> QED
      BY <3>1 DEF Equipped, Running
  <2> QED
    BY <2>1, <2>2
<1>11. LeasesHeld'
  <2> SUFFICES ASSUME ~Stalls, NEW v \in Workers, Running(v)'
               PROVE  Leased(v)'
    BY DEF LeasesHeld, Leased
  <2>1. CASE v = w
    <3>1. lease'[p].owner = w /\ lease'[p].left = LeaseSeconds
      BY <1>3, <1>4 DEF Table, StoreTypeOK
    <3>2. LeaseSeconds > AdvanceTimeout
      BY LeaseAssumption, TimeoutAssumption
    <3>3. CASE pc \in Unleased
      <4>1. Rank[state'[p]] >= 7
        BY <1>3, <1>6, <3>3 DEF Rank
      <4> QED
        BY <1>5, <2>1, <3>3, <4>1 DEF Leased
    <3>4. CASE pc \notin Unleased
      <4>1. pc # "disabled" => /\ state'[p] = Row(p).state
                               /\ Row(p).state # "EXTERNAL_SETTLEMENT_PENDING"
        BY <1>3, <1>6, <3>4 DEF Row
      <4> QED
        BY <1>5, <2>1, <3>1, <3>2, <3>4, <4>1 DEF Leased
    <3> QED
      BY <3>3, <3>4
  <2>2. CASE v # w
    <3>1. job'[v] = job[v] /\ Running(v) /\ Leased(v) /\ Equipped(v)
      BY <1>5, <2>2 DEF Whole, LeasesHeld, Running
    <3>2. CASE job[v].pc \in Unleased
      BY <1>3, <3>1, <3>2 DEF Leased
    <3>3. CASE job[v].pc \notin Unleased
      <4>1. lease[job[v].op].owner = v /\ lease[job[v].op].left > job[v].left
        BY <3>1, <3>3 DEF Leased
      <4>2. job[v].op \in Purchases /\ job[v].left \in Nat
        BY <3>1, TimeoutAssumption DEF Equipped
      <4>3. lease[job[v].op].left \in Int
        BY <1>4, <4>2, LeaseAssumption DEF Table, StoreTypeOK, Leases, NoLease
      <4>4. job[v].op # p
        BY <1>1, <2>2, <4>1, <4>2, <4>3 DEF Lapsed
      <4>5. lease'[job[v].op] = lease[job[v].op]
        BY <1>3, <1>4, <4>2, <4>4 DEF Table, StoreTypeOK
      <4> QED
        BY <1>3, <3>1, <3>3, <4>5 DEF Leased
    <3> QED
      BY <3>2, <3>3
  <2> QED
    BY <2>1, <2>2
<1> QED
  BY <1>2, <1>4, <1>9, <1>10, <1>11 DEF Whole, TableMoves

\* The leases of a dead process go to no living one.
LEMMA CrashKeeps ==
  ASSUME Whole, IInv', NEW w \in Workers, Crash(w)
  PROVE  Whole' /\ TableMoves
<1>1. /\ UNCHANGED <<state, column, lastError, older, index, chainVars, poll, gate, settled>>
      /\ lease' = [p \in Purchases |->
                     IF lease[p].owner = w THEN [lease[p] EXCEPT !.owner = Departed]
                                           ELSE lease[p]]
  BY DEF Crash, indexVars
<1>2. /\ \A v \in Workers \ {w} : job'[v] = job[v]
      /\ job'[w].pc = "down"
      /\ job'[w].op = job[w].op /\ job'[w].left = job[w].left
  BY DEF Crash, Goto, Whole, IInv, JobShaped, JobFields
<1>3. Table'
  <2>1. ASSUME NEW p \in Purchases
        PROVE  lease'[p] \in Leases \cup {NoLease}
    <3>1. lease[p] \in Leases \cup {NoLease}
      BY DEF Whole, Table, StoreTypeOK
    <3>2. CASE lease[p].owner = w
      <4>1. lease[p] \in Leases
        BY <3>1, <3>2, NullAssumption, WorkerAssumption DEF NoLease
      <4> QED
        BY <1>1, <3>2, <4>1, WorkerAssumption DEF Leases
    <3>3. CASE lease[p].owner # w
      BY <1>1, <3>1, <3>3
    <3> QED
      BY <3>2, <3>3
  <2>2. lease' \in [Purchases -> Leases \cup {NoLease}]
    BY <1>1, <2>1
  <2> QED
    BY <1>1, <2>2 DEF Whole, Table, StoreTypeOK, AbsentIsEmpty, StageEvidence
<1>4. Books' /\ Switches' /\ Confirmations' /\ FeesApart' /\ NoConflicts'
  <2>1. \A v \in Workers : job'[v].pc \in Sealing \cup {"dc_record"} => job'[v] = job[v]
    BY <1>2 DEF Sealing
  <2>2. faults' \in 0 .. MaxFaults
    BY FaultAssumption DEF Crash, Fault, Whole, Switches
  <2> QED
    BY <1>1, <2>1, <2>2, RestKeeps
<1>5. ASSUME NEW v \in Workers
      PROVE  Equipped(v)'
  <2>1. Equipped(v)
    BY DEF Whole
  <2> QED
    BY <1>2, <2>1 DEF Equipped, Running, Resting
<1>6. LeasesHeld'
  <2> SUFFICES ASSUME ~Stalls, NEW v \in Workers, Running(v)'
               PROVE  Leased(v)'
    BY DEF LeasesHeld, Leased
  <2>1. job'[v] = job[v] /\ v # w
    BY <1>2 DEF Running, Resting
  <2>2. Leased(v) /\ Equipped(v) /\ Running(v)
    BY <2>1 DEF Whole, LeasesHeld, Running
  <2>3. lease[job[v].op].owner = v => lease'[job[v].op] = lease[job[v].op]
    BY <1>1, <2>1, <2>2 DEF Equipped
  <2> QED
    BY <1>1, <2>1, <2>2, <2>3 DEF Leased
<1> QED
  BY <1>1, <1>3, <1>4, <1>5, <1>6 DEF Whole, TableMoves, storeVars

LEMMA RestartKeeps ==
  ASSUME Whole, IInv', NEW w \in Workers, Restart(w)
  PROVE  Whole' /\ TableMoves
<1>1. UNCHANGED <<storeVars, index, chainVars, poll, gate, settled, faults>>
  BY DEF Restart, indexVars, Env
<1>2. /\ \A v \in Workers \ {w} : job'[v] = job[v]
      /\ job'[w] = Idle
  BY DEF Restart, Finish, Whole, IInv, JobShaped
<1>3. Table'
  BY <1>1, TableKeeps DEF Whole
<1>4. Books' /\ Switches' /\ Confirmations' /\ FeesApart' /\ NoConflicts'
  <2>1. \A v \in Workers : job'[v].pc \in Sealing \cup {"dc_record"} => job'[v] = job[v]
    BY <1>2 DEF Sealing, Idle
  <2>2. faults' \in 0 .. MaxFaults
    BY <1>1 DEF Whole, Switches
  <2> QED
    BY <1>1, <2>1, <2>2, RestKeeps DEF storeVars
<1>5. ASSUME NEW v \in Workers
      PROVE  Equipped(v)'
  <2>1. Equipped(v)
    BY DEF Whole
  <2> QED
    BY <1>2, <2>1, TimeoutAssumption DEF Equipped, Running, Resting, Idle
<1>6. LeasesHeld'
  <2> SUFFICES ASSUME ~Stalls, NEW v \in Workers, Running(v)'
               PROVE  Leased(v)'
    BY DEF LeasesHeld, Leased
  <2>1. job'[v] = job[v]
    BY <1>2 DEF Running, Resting, Idle
  <2>2. Leased(v) /\ Running(v)
    BY <2>1 DEF Whole, LeasesHeld, Running
  <2> QED
    BY <1>1, <2>1, <2>2 DEF Leased, storeVars
<1> QED
  BY <1>1, <1>3, <1>4, <1>5, <1>6 DEF Whole, TableMoves, storeVars

\* A running worker and its lease grow older together.
LEMMA TickKeeps ==
  ASSUME Whole, IInv', Tick
  PROVE  Whole' /\ TableMoves
<1>1. UNCHANGED <<state, column, lastError, older, index, chainVars, poll, gate, settled, faults>>
  BY DEF Tick, indexVars, Env
<1>2. \A w \in Workers :
        /\ job'[w].pc = job[w].pc /\ job'[w].op = job[w].op
        /\ job'[w].row = job[w].row /\ job'[w].held = job[w].held
        /\ job'[w].left = IF job[w].left > 0 THEN job[w].left - 1 ELSE 0
  BY DEF Tick, Whole, IInv, JobShaped, JobFields
<1>3. LeaseTick /\ [StoreNext]_storeVars
  BY <1>1 DEF Tick, StoreNext
<1>4. Table'
  BY <1>3, TableKeeps DEF Whole
<1>5. Books' /\ Switches' /\ Confirmations' /\ FeesApart' /\ NoConflicts'
  <2>1. faults' \in 0 .. MaxFaults
    BY <1>1 DEF Whole, Switches
  <2> QED
    BY <1>1, <1>2, <2>1, RestKeeps
<1>6. ASSUME NEW w \in Workers
      PROVE  Equipped(w)'
  <2>1. Equipped(w)
    BY DEF Whole
  <2>2. job'[w].left \in 0 .. AdvanceTimeout
    BY <1>2, <2>1, TimeoutAssumption DEF Equipped
  <2> QED
    BY <1>2, <2>1, <2>2 DEF Equipped, Running
<1>7. LeasesHeld'
  <2> SUFFICES ASSUME ~Stalls, NEW w \in Workers, Running(w)'
               PROVE  Leased(w)'
    BY DEF LeasesHeld, Leased
  <2>1. Running(w) /\ Leased(w) /\ Equipped(w)
    BY <1>2 DEF Whole, LeasesHeld, Running
  <2>2. CASE job[w].pc \in Unleased
    BY <1>1, <1>2, <2>1, <2>2 DEF Leased
  <2>3. CASE job[w].pc \notin Unleased
    <3> DEFINE p == job[w].op
    <3>1. /\ lease[p].owner = w /\ lease[p].left > job[w].left
          /\ job[w].left > 0 /\ p \in Purchases
      BY <2>1, <2>3 DEF Leased, Equipped, Tick
    <3>2. lease[p].left \in Int /\ job[w].left \in Nat /\ lease[p] \in Leases \cup {NoLease}
      BY <2>1, <3>1, TimeoutAssumption, LeaseAssumption
      DEF Equipped, Whole, Table, StoreTypeOK, Leases, NoLease
    <3>3. lease'[p] = [lease[p] EXCEPT !.left = lease[p].left - 1]
      BY <1>3, <3>1, <3>2 DEF LeaseTick
    <3>4. lease'[p].owner = w /\ lease'[p].left = lease[p].left - 1
      BY <3>1, <3>2, <3>3 DEF Leases, NoLease
    <3>5. lease'[p].left > job'[w].left
      BY <1>2, <3>1, <3>2, <3>4
    <3> QED
      BY <1>1, <1>2, <2>1, <2>3, <3>4, <3>5 DEF Leased
  <2> QED
    BY <2>2, <2>3
<1> QED
  BY <1>1, <1>4, <1>5, <1>6, <1>7 DEF Whole, TableMoves

-----------------------------------------------------------------------------
(* The whole invariant.                                                     *)

LEMMA InitWhole == Init => Whole
<1> SUFFICES ASSUME Init PROVE Whole
  OBVIOUS
<1>1. /\ state = [p \in Purchases |-> "ABSENT"]
      /\ column = [p \in Purchases |-> [c \in Columns |-> None]]
      /\ job = [w \in Workers |-> Idle]
  BY DEF Init, StoreInit
<1>2. Table
  BY DEF Init, StoreInit, Table, StoreTypeOK, AbsentIsEmpty, StageEvidence, StageColumns
<1>3. Books
  BY DEF Init, IndexInit, ChainInit, Books, IndexRows, IndexStates
<1>4. Switches
  BY FaultAssumption DEF Init, Switches
<1>5. \A w \in Workers : Equipped(w)
  BY <1>1, TimeoutAssumption DEF Equipped, Idle, Running, Resting
<1>6. Confirmations /\ LeasesHeld
  BY <1>1 DEF Confirmations, Settling, LeasesHeld, Leased, Idle, Running, Resting
<1>7. \A p \in Purchases : SealedBundles(p) = {}
  BY <1>1, EvidenceColumns DEF SealedBundles
<1>8. FeeCoinsDisjoint
  BY <1>7, FeesHeldNow DEF FeesByHolder, HeldFee
<1>9. FeesApart
  BY <1>1, <1>8 DEF FeesApart, Sealing, Idle
<1>10. NoConflicts
  BY DEF Init, ChainInit, NoConflicts
<1> QED
  BY <1>2, <1>3, <1>4, <1>5, <1>6, <1>9, <1>10, InitIInv DEF Whole

\* Blocks and captures change by the chain's and the relay's steps alone.
Outward == \/ UNCHANGED <<mined, settled>> \/ Chain
           \/ \E p \in Purchases : RelaySettlement(p)

LEMMA NextWhole == Whole /\ [Next]_vars => Whole' /\ TableMoves /\ Outward
<1> SUFFICES ASSUME Whole, [Next]_vars PROVE Whole' /\ TableMoves /\ Outward
  OBVIOUS
<1> USE DEF Outward
<1>1. IInv'
  BY NextIInv DEF Whole
<1>2. ASSUME NEW w \in Workers, PollNext(w) \/ ReconcileOne(w)
      PROVE  Whole' /\ TableMoves /\ Outward
  BY <1>1, <1>2, ClaimsKeep DEF PollNext, ReconcileOne, Start, chainVars, Env
<1>3. ASSUME NEW w \in Workers, Work(w) \/ Interrupt(w)
      PROVE  Whole' /\ TableMoves /\ Outward
  BY <1>1, <1>3, WorkKeeps
<1>4. ASSUME NEW w \in Workers, Crash(w) \/ Restart(w)
      PROVE  Whole' /\ TableMoves /\ Outward
  BY <1>1, <1>4, CrashKeeps, RestartKeeps DEF Crash, Restart, chainVars, Env
<1>5. ASSUME NEW p \in Purchases, AcknowledgeSettlement(p)
      PROVE  Whole' /\ TableMoves /\ Outward
  BY <1>1, <1>5, AcknowledgeKeeps DEF AcknowledgeSettlement, chainVars, Env
<1>6. CASE \/ \E p \in Purchases : RelaySettlement(p) \/ ReadStatusOutputs(p)
           \/ ReadStatusInputs \/ CloseGate \/ OpenGate
           \/ UNCHANGED vars
  <2>1. Outward
    BY <1>6 DEF ReadStatusOutputs, ReadStatusInputs, CloseGate, OpenGate, chainVars, vars
  <2> QED
    BY <1>1, <1>6, <2>1, ReadsKeep
<1>7. CASE QueuePurchase \/ Tick \/ Chain
  BY <1>1, <1>7, QueueKeeps, TickKeeps, ChainKeeps DEF QueuePurchase, Tick, chainVars, Env
<1> QED
  BY <1>2, <1>3, <1>4, <1>5, <1>6, <1>7 DEF Next

\* Rows, index, chain and jobs are well typed under every crash, stall and read.
THEOREM TypesHold == Spec => []TypeOK
<1>1. Whole => TypeOK
  BY DEF Whole, TypeOK, Table, Books, Switches, Equipped, Snapshot
<1> QED
  BY <1>1, InitWhole, NextWhole, PTL DEF Spec

\* The rows the workers advance hold what their stage requires.
THEOREM WorkersKeepEvidence == Spec => []StageEvidence
<1>1. Whole => StageEvidence
  BY DEF Whole, Table
<1> QED
  BY <1>1, InitWhole, NextWhole, PTL DEF Spec

\* A finished purchase was delivered by the bundle its row sealed, the governed
\* index says so too, and on Base its payment was captured.
THEOREM FinishedIsDelivered == Spec => []FinalizedIsDelivered
<1>1. Whole => FinalizedIsDelivered
  BY DEF Whole, Confirmations, Confirmed, Settling, FinalizedIsDelivered
<1> QED
  BY <1>1, InitWhole, NextWhole, PTL DEF Spec

\* Where no event loop stalls past its deadline, a worker that advances a
\* purchase holds a live lease on it.
THEOREM AdvancesAreLeased == ASSUME ~Stalls PROVE Spec => []AdvanceIsLeased
<1>1. Whole => AdvanceIsLeased
  <2> SUFFICES ASSUME Whole, NEW w \in Workers, Running(w), job[w].pc \notin Unleased
               PROVE  lease[Op(w)].owner = w /\ ~Lapsed(Op(w))
    BY DEF AdvanceIsLeased, Unleased
  <2>1. Leased(w) /\ Equipped(w) /\ StoreTypeOK
    BY DEF Whole, LeasesHeld, Table
  <2>2. lease[Op(w)].owner = w /\ lease[Op(w)].left > job[w].left
    BY <2>1 DEF Leased, Op
  <2>3. job[w].left \in Nat /\ lease[Op(w)].left \in Int
    BY <2>1, TimeoutAssumption, LeaseAssumption
    DEF Equipped, StoreTypeOK, Leases, NoLease, Op
  <2> QED
    BY <2>2, <2>3 DEF Lapsed
<1> QED
  BY <1>1, InitWhole, NextWhole, PTL DEF Spec

\* With one coordinator process no two unfinished purchases hold one fee coin.
THEOREM FeeCoinsApart == ASSUME OneWorker PROVE Spec => []FeeCoinsDisjoint
<1>1. Whole => FeeCoinsDisjoint
  BY DEF Whole, FeesApart
<1> QED
  BY <1>1, InitWhole, NextWhole, PTL DEF Spec

\* What the table promises whoever calls it, the workers do not lose: a crash
\* renames leases and nothing else.
THEOREM WorkersKeepRows == Spec => []OneHolder /\ [][Kept /\ Forward]_storeVars
<1>1. Init => OneHolder
  BY ColumnsDef DEF Init, StoreInit, OneHolder, UniqueColumns
<1>2. Whole /\ OneHolder /\ [Next]_vars => OneHolder' /\ [Kept /\ Forward]_storeVars
  <2> SUFFICES ASSUME Whole, OneHolder, [Next]_vars
               PROVE  OneHolder' /\ Kept /\ Forward
    OBVIOUS
  <2>1. Table /\ TableMoves
    BY NextWhole DEF Whole
  <2>2. CASE [StoreNext]_storeVars
    BY <2>1, <2>2, TableKeeps, HolderStep DEF Table
  <2>3. CASE UNCHANGED <<state, column, lastError, older>>
    BY <2>1, <2>3, RankIsNat DEF OneHolder, Kept, Forward, Table, StoreTypeOK
  <2> QED
    BY <2>1, <2>2, <2>3 DEF TableMoves
<1> QED
  BY <1>1, <1>2, InitWhole, NextWhole, PTL DEF Spec

-----------------------------------------------------------------------------
(* The refinement: the workers keep the promise of DeliveryPromise.         *)

WordOf  == [p \in Purchases |-> Word(p)]
AssetOf == [p \in Purchases |-> Asset(p)]
MoneyOf == [p \in Purchases |-> IF Rail[p] = "stripe" \/ p \in settled
                                  THEN "captured" ELSE "held"]

\* A call of the table moves one row, and begins a row only by queueing it.
LEMMA OneRowMoves ==
  ASSUME Table, TableMoves
  PROVE  /\ \A p \in Purchases : state[p] = "ABSENT" =>
              state'[p] \in {"ABSENT", "PAYMENT_VERIFIED"}
         /\ \/ UNCHANGED state
            \/ \E p \in Purchases : \A q \in Purchases \ {p} : state'[q] = state[q]
<1> DEFINE Goal == /\ \A p \in Purchases : state[p] = "ABSENT" =>
                        state'[p] \in {"ABSENT", "PAYMENT_VERIFIED"}
                   /\ \/ UNCHANGED state
                      \/ \E p \in Purchases : \A q \in Purchases \ {p} : state'[q] = state[q]
<1>0. StoreTypeOK
  BY DEF Table
<1>1. ASSUME NEW p \in Purchases, NEW x \in Payments, Queue(p, x)
      PROVE  Goal
  BY <1>0, <1>1 DEF Queue, StoreTypeOK
<1>2. ASSUME NEW p \in Purchases, NEW e \in Reviews, RecordManualReview(p, e)
      PROVE  Goal
  BY <1>0, <1>2 DEF RecordManualReview, AcceptsReview, StoreTypeOK, Pending
<1>3. ASSUME NEW p \in Purchases, NEW change, Sound(p, change), Transition(p, change)
      PROVE  Goal
  <2>1. state[p] # "ABSENT" /\ \A q \in Purchases \ {p} : state'[q] = state[q]
    BY <1>0, <1>3, TransitionRow, TransitionExists DEF StoreTypeOK
  <2> QED
    BY <2>1
<1>4. ASSUME UNCHANGED state
      PROVE  Goal
  BY <1>4
<1> HIDE DEF Goal
<1>5. Goal
  BY <1>0, <1>1, <1>2, <1>3, <1>4, StepCases, LeaseCalls DEF storeVars, TableMoves
<1> QED
  BY <1>5 DEF Goal

\* What is confirmed was delivered by the bundle of the row.
ConfirmedAreDelivered ==
  \A p \in Purchases : Confirmed(p) => Delivered(p) /\ p \in SpentDeeds

LEMMA DeliveredNow == Whole => ConfirmedAreDelivered
<1> SUFFICES ASSUME Whole, NEW p \in Purchases, Confirmed(p)
             PROVE  Delivered(p) /\ p \in SpentDeeds
  BY DEF ConfirmedAreDelivered
<1> DEFINE b == column[p]["confirmedBy"]
<1>1. b \in mined /\ b = column[p]["deliveryExact"]
  BY DEF Confirmed
<1>2. b \in ColumnType["deliveryExact"] \cup {None}
  BY <1>1, EvidenceColumns DEF Whole, Table, StoreTypeOK
<1>3. b \in DeliveryBundles
  BY <1>1, <1>2, ColumnTypes, NoneIsNoBundle DEF Whole, Books
<1>4. b.purchase = p
  BY <1>1, <1>3 DEF Whole, IInv, RowsOwn, ExactColumns, ExactBundles
<1>5. b.kind = "delivery"
  BY <1>3 DEF DeliveryBundles
<1> QED
  BY <1>1, <1>4, <1>5 DEF Delivered, SpentDeeds, DeedInputs

LEMMA DeliveredNext == Whole' => ConfirmedAreDelivered'
BY DeliveredNow, PTL

Promised == [Promise!PromiseNext]_(Promise!promiseVars)

\* A step of the table alone: one row is accepted, handed to review, or done.
LEMMA RowPromised ==
  ASSUME Whole, Whole', TableMoves, UNCHANGED <<mined, settled>>
  PROVE  Promised
<1>1. AssetOf' = AssetOf /\ MoneyOf' = MoneyOf
  BY DEF AssetOf, MoneyOf, Asset, Delivered, SpentDeeds
<1>2. Table /\ Table' /\ Forward
  <2>1. CASE [StoreNext]_storeVars
    BY <2>1, TableKeeps DEF Whole
  <2>2. CASE UNCHANGED <<state, column, lastError, older>>
    BY <2>2, RankIsNat DEF Forward, Whole, Table, StoreTypeOK
  <2> QED
    BY <2>1, <2>2 DEF TableMoves, Whole
<1>3. CASE UNCHANGED state
  <2>1. WordOf' = WordOf
    BY <1>3 DEF WordOf, Word
  <2> QED
    BY <1>1, <2>1 DEF Promised, Promise!promiseVars, WordOf, AssetOf, MoneyOf
<1>4. ASSUME NEW p \in Purchases, \A q \in Purchases \ {p} : state'[q] = state[q]
      PROVE  Promised
  <2>1. \A word : Word(p)' = word => WordOf' = [WordOf EXCEPT ![p] = word]
    BY <1>4 DEF WordOf, Word
  <2>2. CASE Word(p)' = Word(p)
    <3>1. WordOf' = WordOf
      BY <2>1, <2>2 DEF WordOf
    <3> QED
      BY <1>1, <3>1 DEF Promised, Promise!promiseVars, WordOf, AssetOf, MoneyOf
  <2>3. CASE Word(p)' # Word(p)
    <3>1. /\ state[p] \in States \cup {"ABSENT"} /\ state'[p] \in States \cup {"ABSENT"}
          /\ Rank[state'[p]] >= Rank[state[p]]
          /\ state[p] = "FINALIZED" => state'[p] = "FINALIZED"
          /\ state[p] = "ABSENT" => state'[p] \in {"ABSENT", "PAYMENT_VERIFIED"}
      BY <1>2, OneRowMoves DEF Forward, Table, StoreTypeOK
    <3>2. \/ Word(p) = "none" /\ Word(p)' = "owed"
          \/ Word(p) = "owed" /\ Word(p)' = "review"
          \/ Word(p) = "owed" /\ Word(p)' = "done" /\ state'[p] = "FINALIZED"
      BY <2>3, <3>1 DEF Word, States, Pending, Terminal, Rank
    <3>3. CASE Word(p) = "none" /\ Word(p)' = "owed"
      <4>1. Promise!Accept(p)
        BY <1>1, <2>1, <3>3 DEF Promise!Accept, WordOf, AssetOf, MoneyOf
      <4> QED
        BY <4>1 DEF Promised, Promise!PromiseNext
    <3>4. CASE Word(p) = "owed" /\ Word(p)' = "review"
      <4>1. Promise!Escalate(p)
        BY <1>1, <2>1, <3>4 DEF Promise!Escalate, WordOf, AssetOf, MoneyOf
      <4> QED
        BY <4>1 DEF Promised, Promise!PromiseNext
    <3>5. CASE Word(p) = "owed" /\ Word(p)' = "done" /\ state'[p] = "FINALIZED"
      <4>1. Confirmed(p)' /\ (Rail[p] = "base_usdc" => p \in settled')
        BY <3>5 DEF Whole, Confirmations, Settling
      <4>2. Delivered(p) /\ p \in SpentDeeds
        <5>1. Delivered(p)' /\ (p \in SpentDeeds)'
          BY <4>1, DeliveredNext DEF ConfirmedAreDelivered
        <5> QED
          BY <5>1 DEF Delivered, SpentDeeds
      <4>3. AssetOf[p] = "delivered" /\ MoneyOf[p] = "captured"
        BY <4>1, <4>2, RailAssumption DEF AssetOf, Asset, MoneyOf, Rails
      <4>4. Promise!Complete(p)
        BY <1>1, <2>1, <3>5, <4>3 DEF Promise!Complete, WordOf, AssetOf, MoneyOf
      <4> QED
        BY <4>4 DEF Promised, Promise!PromiseNext
    <3> QED
      BY <3>2, <3>3, <3>4, <3>5
  <2> QED
    BY <2>2, <2>3
<1> QED
  BY <1>2, <1>3, <1>4, OneRowMoves

\* A capture: only of what was delivered, and only once.
LEMMA CapturePromised ==
  ASSUME Whole, NEW p \in Purchases, RelaySettlement(p)
  PROVE  Promised
<1>1. UNCHANGED <<state, column, mined>> /\ settled' = settled \cup {p} /\ p \notin settled
  BY DEF RelaySettlement, storeVars, chainVars
<1>2. WordOf' = WordOf /\ AssetOf' = AssetOf
  BY <1>1 DEF WordOf, Word, AssetOf, Asset, Delivered, SpentDeeds
<1>3. CASE Rail[p] = "stripe"
  <2>1. MoneyOf' = MoneyOf
    BY <1>1, <1>3 DEF MoneyOf
  <2> QED
    BY <1>2, <2>1 DEF Promised, Promise!promiseVars, WordOf, AssetOf, MoneyOf
<1>4. CASE Rail[p] # "stripe"
  <2>1. state[p] = "EXTERNAL_SETTLEMENT_PENDING"
    BY DEF RelaySettlement
  <2>2. Delivered(p) /\ p \in SpentDeeds
    BY <2>1, DeliveredNow DEF ConfirmedAreDelivered, Whole, Confirmations, Settling
  <2>3. WordOf[p] = "owed" /\ AssetOf[p] = "delivered" /\ MoneyOf[p] = "held"
    BY <1>1, <1>4, <2>1, <2>2 DEF WordOf, Word, AssetOf, Asset, MoneyOf
  <2>4. MoneyOf' = [MoneyOf EXCEPT ![p] = "captured"]
    BY <1>1, <1>4 DEF MoneyOf
  <2>5. Promise!Capture(p)
    BY <1>2, <2>3, <2>4 DEF Promise!Capture, WordOf, AssetOf, MoneyOf
  <2> QED
    BY <2>5 DEF Promised, Promise!PromiseNext
<1> QED
  BY <1>3, <1>4

\* What a bundle in the mempool will deliver or reclaim is still reserved.
LEMMA PendingDeeds ==
  ASSUME Whole, NEW b \in mempool, NEW p \in DeedInputs(b)
  PROVE  p \notin SpentDeeds
BY DEF Whole, NoConflicts, Conflicts, SpentDeeds

\* A delivery in a block spends its deed.
LEMMA DeliveriesSpend ==
  \A p : Delivered(p) => p \in SpentDeeds
BY DEF Delivered, SpentDeeds, DeedInputs

\* A block: it delivers or reclaims what was reserved, or touches no deed.
LEMMA BlockPromised ==
  ASSUME Whole, Chain
  PROVE  Promised
<1>1. UNCHANGED <<state, column, settled>> /\ ChainNext
  BY DEF Chain, storeVars, Env
<1>2. WordOf' = WordOf /\ MoneyOf' = MoneyOf
  BY <1>1 DEF WordOf, Word, MoneyOf
<1>3. CASE UNCHANGED mined
  <2>1. AssetOf' = AssetOf
    BY <1>3 DEF AssetOf, Asset, Delivered, SpentDeeds
  <2> QED
    BY <1>2, <2>1 DEF Promised, Promise!promiseVars, WordOf, AssetOf, MoneyOf
<1>4. ASSUME NEW b \in mempool, mined' = mined \cup {b}
      PROVE  Promised
  <2>1. b \in ReceiptBundles \cup DeliveryBundles \cup ForeignBundles
    BY DEF Whole, Books, ExactBundles
  <2>2. SpentDeeds' = SpentDeeds \cup DeedInputs(b)
    BY <1>4 DEF SpentDeeds
  <2>3. CASE b \in ReceiptBundles \/ b.kind = "foreign"
    <3>1. b.kind \notin {"delivery", "reclaim"}
      BY <2>3 DEF ReceiptBundles
    <3>2. AssetOf' = AssetOf
      BY <1>4, <2>2, <3>1 DEF AssetOf, Asset, Delivered, DeedInputs
    <3> QED
      BY <1>2, <3>2 DEF Promised, Promise!promiseVars, WordOf, AssetOf, MoneyOf
  <2>4. CASE b \in DeliveryBundles
    <3> DEFINE p == b.purchase
    <3>1. p \in Purchases /\ b.kind = "delivery" /\ DeedInputs(b) = {p}
      BY <2>4 DEF DeliveryBundles, DeedInputs
    <3>2. p \notin SpentDeeds
      BY <3>1, PendingDeeds
    <3>3. AssetOf[p] = "reserved"
      BY <3>1, <3>2, DeliveriesSpend DEF AssetOf, Asset
    <3>4. AssetOf' = [AssetOf EXCEPT ![p] = "delivered"]
      <4>1. /\ \A q \in Purchases : (q \in SpentDeeds)' <=> q \in SpentDeeds \/ q = p
            /\ \A q \in Purchases : Delivered(q)' <=> Delivered(q) \/ q = p
        BY <1>4, <2>2, <3>1 DEF Delivered
      <4>2. ASSUME NEW q \in Purchases
            PROVE  Asset(q)' = IF q = p THEN "delivered" ELSE Asset(q)
        <5>1. CASE q = p
          BY <4>1, <5>1 DEF Asset
        <5>2. CASE q # p
          BY <4>1, <5>2, DeliveriesSpend DEF Asset
        <5> QED
          BY <5>1, <5>2
      <4> QED
        BY <4>2 DEF AssetOf
    <3>5. column[p]["deliveryExact"] = b
      BY <2>4, <3>1 DEF Whole, IInv, DispatchedIsSealed, ExactBundles, ExactColumn
    <3>6. state[p] # "ABSENT"
      BY <2>4, <3>1, <3>5, EvidenceColumns, NoneIsNoBundle DEF Whole, Table, AbsentIsEmpty
    <3>7. state[p] # "FINALIZED"
      <4>1. Confirmed(p) => p \in SpentDeeds
        BY <3>1, DeliveredNow DEF ConfirmedAreDelivered
      <4> QED
        BY <3>1, <3>2, <4>1 DEF Whole, Confirmations, Settling
    <3>8. WordOf[p] \in {"owed", "review"}
      BY <3>1, <3>6, <3>7 DEF WordOf, Word
    <3>9. Promise!Deliver(p)
      BY <1>2, <3>3, <3>4, <3>8 DEF Promise!Deliver, WordOf, AssetOf, MoneyOf
    <3> QED
      BY <3>1, <3>9 DEF Promised, Promise!PromiseNext
  <2>5. CASE b.kind = "reclaim"
    <3> DEFINE p == b.purchase
    <3>1. p \in Purchases /\ p \in Reclaimable /\ DeedInputs(b) = {p}
      BY <2>1, <2>5, ForeignAssumption
      DEF ReceiptBundles, DeliveryBundles, ForeignBundles, DeedInputs
    <3>2. p \notin SpentDeeds
      BY <3>1, PendingDeeds
    <3>3. AssetOf[p] = "reserved" /\ ~Delivered(p)
      BY <3>1, <3>2 DEF AssetOf, Asset, Delivered, SpentDeeds, DeedInputs
    <3>4. AssetOf' = [AssetOf EXCEPT ![p] = "reclaimed"]
      BY <1>4, <2>2, <2>5, <3>1, <3>3 DEF AssetOf, Asset, Delivered
    <3>5. Promise!Reclaim(p)
      BY <1>2, <3>1, <3>3, <3>4 DEF Promise!Reclaim, WordOf, AssetOf, MoneyOf
    <3> QED
      BY <3>1, <3>5 DEF Promised, Promise!PromiseNext
  <2> QED
    BY <2>1, <2>3, <2>4, <2>5 DEF ForeignBundles
<1>5. ASSUME NEW b, EnterMempool(b)
      PROVE  UNCHANGED mined
  BY <1>5 DEF EnterMempool
<1> QED
  BY <1>1, <1>3, <1>4, <1>5 DEF ChainNext, Resubmit, ForeignSpend, Drop, Include

\* The workers, the tables and the chain together keep the abstract promise: an
\* asset moves once, money on Base follows it, and done means both.
THEOREM DeliveryIsKept == Spec => KeepsPromise
<1>1. Init => Promise!PromiseInit
  <2> SUFFICES ASSUME Init PROVE Promise!PromiseInit
    OBVIOUS
  <2>1. \A p \in Purchases : /\ state[p] = "ABSENT" /\ p \notin settled
                             /\ p \notin SpentDeeds /\ ~Delivered(p)
    BY DEF Init, StoreInit, ChainInit, SpentDeeds, Delivered
  <2> QED
    BY <2>1 DEF Promise!PromiseInit, Word, Asset
<1>2. Whole /\ Whole' /\ [Next]_vars => Promised
  BY NextWhole, RowPromised, CapturePromised, BlockPromised DEF Outward
<1> QED
  BY <1>1, <1>2, InitWhole, NextWhole, PTL
  DEF Spec, KeepsPromise, Promise!PromiseSpec, Promised
=============================================================================
