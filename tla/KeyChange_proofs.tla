-------------------------- MODULE KeyChange_proofs --------------------------
(***************************************************************************)
(* EndedAgrees holds for any set of changes.  Nothing on record names the  *)
(* intent of the transition that ended a pending change; the version of    *)
(* the preparation does.  Told is what a preparation seen at version v     *)
(* tells of the change for ever after, and every receipt, and every answer *)
(* a request in flight carries, is true of the chain in that sense.        *)
(*                                                                         *)
(* RosterIsInForce holds for any set of changes too.  The coordinator      *)
(* numbers the changes and has one in flight, so the key Base has in force *)
(* is the newest converged one (Numbers, BaseKeys); Chia's is never older  *)
(* (ChiaKeys); and while writes are open no change is half done.           *)
(***************************************************************************)
EXTENDS KeyChange, FiniteSetTheorems, TLAPS

CaseStates == {"none", "AWAITING_APPROVALS", "READY", "SUBMITTED", "PARTIAL"}
              \union Terminal
EvmStates  == {"none", "prepared", "vetoed", "executed", "converged", "rolledBack"}
ChiaStates == {"none", "pending", "completed", "cancelled"}
Receipts   == {"CHIA_PREPARE", "CHIA_COMPLETE", "CHIA_CANCEL",
               "EVM_EXECUTE", "EVM_CANCEL", "EVM_ROLLBACK", "EVM_COMPLETE"}

Shape ==
    /\ case \in [Change -> CaseStates]
    /\ evm \in [Change -> EvmStates]
    /\ chia \in [Change -> ChiaStates]
    /\ receipts \in [Change -> SUBSET Receipts]
    /\ seenAt \in [Change -> Nat]
    /\ version \in Nat
    /\ pool \subseteq [c : Change, phase : Phases, version : Nat]
    /\ strayed \subseteq Change

Result(phase) == IF phase = "COMPLETE" THEN "completed" ELSE "cancelled"

OnePending == \A c, d \in Change : chia[c] = "pending" /\ chia[d] = "pending" => c = d

Told(c, v) ==
    /\ chia[c] # "none" /\ v <= version
    /\ chia[c] = "pending" => version = v
    /\ chia[c] # "pending" => /\ v + 1 <= version
                              /\ version = v + 1 => chia[c] = Result(last)

(* A bundle of the current version can be mined as it was meant.           *)
Fits(c, phase) == IF phase = "PREPARE" THEN ~Pending ELSE chia[c] = "pending"
PoolFits == \A b \in pool : b.version = version /\ Fits(b.c, b.phase)

Faithful(r) ==
    /\ r.c \in Change /\ r.version \in Nat /\ r.receipts \subseteq receipts[r.c]
    /\ r.op \in Phases => r.version <= version
    /\ r.op \in Phases /\ r.version = version => Fits(r.c, r.op)
    /\ r.op = "chia" /\ r.c \notin strayed =>
         IF r.chia.pending THEN Told(r.c, r.version)
                           ELSE chia[r.c] = Result(r.chia.last)
RequestIsTrue == req # None => Faithful(req)

ReceiptsAreTrue ==
    \A c \in Change :
      /\ "EVM_CANCEL" \in receipts[c] => evm[c] = "vetoed"
      /\ "EVM_ROLLBACK" \in receipts[c] => evm[c] = "rolledBack"
      /\ c \notin strayed =>
           /\ "CHIA_PREPARE" \in receipts[c] => Told(c, seenAt[c])
           /\ "CHIA_COMPLETE" \in receipts[c] => chia[c] = "completed"
           /\ "CHIA_CANCEL" \in receipts[c] => chia[c] = "cancelled"

IInv == Shape /\ OnePending /\ PoolFits /\ RequestIsTrue /\ ReceiptsAreTrue /\ EndedAgrees

---------------------------------------------------------------------------
(* At the start no chain has changed and no case exists.                   *)
LEMMA InitHolds == Init => IInv
  BY ChangeAssumption
     DEF Init, IInv, Shape, CaseStates, EvmStates, ChiaStates, Receipts, OnePending,
         PoolFits, RequestIsTrue, ReceiptsAreTrue, EndedAgrees

(* The coordinator never takes back a veto, a convergence or a rollback.   *)
LastingEvm ==
    /\ evm' \in [Change -> EvmStates]
    /\ \A c \in Change : evm[c] \in {"vetoed", "converged", "rolledBack"} => evm'[c] = evm[c]

LEMMA BaseLasts ==
    ASSUME Shape, NEW c \in Change,
           \/ PrepareEvm(c) \/ Approve(c) \/ Veto(c) \/ ExecuteEvm(c)
           \/ Converge(c) \/ ApproveRollback(c) \/ ExecuteRollback(c) \/ Tick(c)
    PROVE  LastingEvm /\ UNCHANGED <<chain, store, req, strayed>>
  <1>1. CASE PrepareEvm(c) BY <1>1 DEF PrepareEvm, Shape, LastingEvm, EvmStates
  <1>2. CASE Approve(c) BY <1>2 DEF Approve, Shape, LastingEvm, EvmStates
  <1>3. CASE Veto(c) BY <1>3 DEF Veto, Shape, LastingEvm, EvmStates
  <1>4. CASE ExecuteEvm(c) BY <1>4 DEF ExecuteEvm, Shape, LastingEvm, EvmStates
  <1>5. CASE Converge(c) BY <1>5 DEF Converge, Shape, LastingEvm, EvmStates
  <1>6. CASE ApproveRollback(c) BY <1>6 DEF ApproveRollback, Shape, LastingEvm, EvmStates
  <1>7. CASE ExecuteRollback(c) BY <1>7 DEF ExecuteRollback, Shape, LastingEvm, EvmStates
  <1>8. CASE Tick(c) BY <1>8 DEF Tick, Shape, LastingEvm, EvmStates
  <1> QED BY <1>1, <1>2, <1>3, <1>4, <1>5, <1>6, <1>7, <1>8

(* A step that leaves Chia, the cases' states, the receipts and the pool   *)
(* alone keeps what is known; a request may end on the way.                *)
LEMMA KeepsKnown ==
    ASSUME IInv, LastingEvm, req' \in {req, None}, pool' \in {pool, {}},
           UNCHANGED <<chia, version, last, case, receipts, seenAt, strayed>>
    PROVE  IInv'
  <1>1. Shape' /\ OnePending' BY DEF IInv, Shape, OnePending, LastingEvm
  <1>2. PoolFits' BY DEF IInv, PoolFits, Fits, Pending
  <1>3. RequestIsTrue'
    BY DEF IInv, RequestIsTrue, Faithful, Fits, Pending, Told, Result
  <1>4. ReceiptsAreTrue'
    BY DEF IInv, ReceiptsAreTrue, Told, Result, LastingEvm
  <1>5. EndedAgrees' BY DEF IInv, EndedAgrees, LastingEvm
  <1> QED BY <1>1, <1>2, <1>3, <1>4, <1>5 DEF IInv

(* Mining a bundle ends the one pending change or starts one; what was     *)
(* known of the others is only a version older.                            *)
LEMMA MineKeeps ==
    ASSUME IInv, NEW b \in pool, Mine(b)
    PROVE  IInv'
  <1> DEFINE d == b.c
  <1>1. /\ d \in Change /\ b.phase \in Phases /\ version \in Nat
        /\ version' = version + 1 /\ last' = b.phase
        /\ \A c \in Change : c # d => chia'[c] = chia[c]
        /\ chia'[d] = IF b.phase = "PREPARE" THEN "pending" ELSE Result(b.phase)
        /\ chia' \in [Change -> ChiaStates]
        /\ pool' = {} /\ Fits(d, b.phase)
        /\ UNCHANGED <<case, evm, receipts, seenAt, req>>
    BY DEF IInv, Shape, PoolFits, Mine, base, store, Phases, Result, ChiaStates
  <1>2. strayed \subseteq strayed' /\ strayed' \subseteq Change
    BY <1>1 DEF Mine, IInv, Shape
  <1>3. d \notin strayed' => IF b.phase = "PREPARE" THEN chia[d] = "none"
                                                    ELSE chia[d] = "pending"
    BY <1>1 DEF Mine, Fits
  <1>4. \A c \in Change : c # d => chia[c] # "pending"
    BY <1>1 DEF IInv, OnePending, Fits, Pending
  <1> HIDE DEF d
  <1>5. \A c \in Change, v \in Nat : c \notin strayed' /\ Told(c, v) => Told(c, v)'
    <2> SUFFICES ASSUME NEW c \in Change, NEW v \in Nat, c \notin strayed', Told(c, v)
                 PROVE  Told(c, v)'
      OBVIOUS
    <2>1. CASE c = d BY <2>1, <1>1, <1>3 DEF Told, Result, Phases
    <2>2. CASE c # d BY <2>2, <1>1, <1>4 DEF Told
    <2> QED BY <2>1, <2>2
  <1>6. \A c \in Change \ strayed' :
          chia[c] \in {"completed", "cancelled"} => chia'[c] = chia[c]
    BY <1>1, <1>3
  <1>7. Shape' /\ PoolFits' BY <1>1, <1>2 DEF IInv, Shape, PoolFits
  <1>8. OnePending' BY <1>1, <1>4 DEF OnePending, Result
  <1>9. RequestIsTrue'
    <2>1. ASSUME NEW r, Faithful(r) PROVE Faithful(r)'
      <3>1. r.op \in Phases => r.version < version' BY <2>1, <1>1 DEF Faithful
      <3>2. ASSUME r.op = "chia", r.c \notin strayed', r.chia.pending
            PROVE  Told(r.c, r.version)'
        BY <3>2, <2>1, <1>2, <1>5 DEF Faithful
      <3>3. ASSUME r.op = "chia", r.c \notin strayed', ~r.chia.pending
            PROVE  chia'[r.c] = Result(r.chia.last)
        <4>1. chia[r.c] = Result(r.chia.last) /\ r.c \in Change
          BY <3>3, <2>1, <1>2 DEF Faithful
        <4> QED BY <4>1, <3>3, <1>6 DEF Result
      <3> QED BY <2>1, <3>1, <3>2, <3>3, <1>1 DEF Faithful
    <2> QED BY <2>1, <1>1 DEF IInv, RequestIsTrue
  <1>10. ReceiptsAreTrue'
    <2> SUFFICES ASSUME NEW c \in Change, c \notin strayed'
                 PROVE  /\ "CHIA_PREPARE" \in receipts[c] => Told(c, seenAt[c])'
                        /\ "CHIA_COMPLETE" \in receipts[c] => chia'[c] = "completed"
                        /\ "CHIA_CANCEL" \in receipts[c] => chia'[c] = "cancelled"
      BY <1>1 DEF IInv, ReceiptsAreTrue
    <2>1. seenAt[c] \in Nat BY DEF IInv, Shape
    <2>2. "CHIA_PREPARE" \in receipts[c] => Told(c, seenAt[c])
      BY <1>2 DEF IInv, ReceiptsAreTrue
    <2>3. "CHIA_PREPARE" \in receipts[c] => Told(c, seenAt[c])'
      BY <2>1, <2>2, <1>5, <1>1
    <2> QED BY <2>3, <1>2, <1>6 DEF IInv, ReceiptsAreTrue
  <1>11. EndedAgrees' BY <1>1, <1>2, <1>6 DEF IInv, EndedAgrees
  <1> QED BY <1>7, <1>8, <1>9, <1>10, <1>11 DEF IInv

(* What a request reads and is admitted with is true when it is read.      *)
LEMMA ReadIsFaithful ==
    ASSUME IInv, NEW c \in Change, NEW op \in Ops, Admitted(op, c)
    PROVE  Faithful(Snapshot(op, c))
  <1> DEFINE r == Snapshot(op, c)
  <1>1. /\ r.c = c /\ r.op = op /\ r.receipts \subseteq receipts[c]
        /\ r.version \in Nat
        /\ op \notin {"view", "evm"} => r.version = version
        /\ op = "chia" => /\ r.chia.last = last
                          /\ IF chia[c] = "pending" THEN r.chia.pending
                                                    ELSE ~r.chia.pending
    BY DEF Snapshot, IInv, Shape
  <1> HIDE DEF r
  <1>2. op \in Phases => r.version = version /\ Fits(c, op)
    BY <1>1 DEF Admitted, Fits, Phases, Ops
  <1>3. op = "chia" /\ chia[c] = "pending" => Told(c, r.version)
    BY <1>1 DEF Told, IInv, Shape
  <1>4. ASSUME op = "chia", chia[c] # "pending", c \notin strayed
        PROVE  chia[c] = Result(last)
    <2>1. "CHIA_PREPARE" \in receipts[c] /\ version = seenAt[c] + 1
      BY <1>4 DEF Admitted, Ops, Phases
    <2>2. Told(c, seenAt[c]) BY <2>1, <1>4 DEF IInv, ReceiptsAreTrue
    <2> QED BY <2>1, <2>2, <1>4 DEF Told
  <1>5. version \in Nat BY DEF IInv, Shape
  <1>6. Faithful(r) BY <1>1, <1>2, <1>3, <1>4, <1>5 DEF Faithful
  <1> QED BY <1>6 DEF r

---------------------------------------------------------------------------
(* A request's writes.                                                     *)

LEMMA Writes ==
    ASSUME Shape, NEW c \in Change, NEW state \in CaseStates, Write(c, state)
    PROVE  /\ case' \in [Change -> CaseStates]
           /\ \A d \in Change \ {c} : case'[d] = case[d]
           /\ case'[c] \in {case[c], state}
           /\ case[c] \in Terminal => case'[c] = case[c]
  BY DEF Write, Shape

(* Longer receipts and more strayed changes leave requests true.           *)
LEMMA Grows ==
    ASSUME IInv, UNCHANGED <<chia, version, last>>, req' \in {req, None},
           \A c \in Change : receipts[c] \subseteq receipts'[c],
           strayed \subseteq strayed'
    PROVE  OnePending' /\ RequestIsTrue'
  <1>1. OnePending' BY DEF IInv, OnePending
  <1>2. ASSUME NEW r, Faithful(r) PROVE Faithful(r)'
    <2>1. \A v : Told(r.c, v)' <=> Told(r.c, v) BY DEF Told, Result
    <2>2. \A p : Fits(r.c, p)' <=> Fits(r.c, p) BY DEF Fits, Pending
    <2> QED BY <1>2, <2>1, <2>2 DEF Faithful, Result
  <1> QED BY <1>1, <1>2 DEF IInv, RequestIsTrue

(* No receipt, and no case completed or canceled.                          *)
LEMMA QuietKeeps ==
    ASSUME IInv, req' \in {req, None},
           UNCHANGED <<evm, chia, version, last, receipts, seenAt, strayed>>,
           case' \in [Change -> CaseStates],
           \A d \in Change : case'[d] \in {"COMPLETED", "CANCELLED"} => case'[d] = case[d],
           pool' \subseteq [c : Change, phase : Phases, version : Nat],
           \A b \in pool' : b.version = version /\ Fits(b.c, b.phase)
    PROVE  IInv'
  <1>1. OnePending' /\ RequestIsTrue' BY Grows
  <1>2. Shape' BY DEF IInv, Shape
  <1>3. PoolFits' BY DEF PoolFits, Fits, Pending
  <1>4. ReceiptsAreTrue' BY DEF IInv, ReceiptsAreTrue, Told, Result
  <1>5. EndedAgrees' BY DEF IInv, EndedAgrees
  <1> QED BY <1>1, <1>2, <1>3, <1>4, <1>5 DEF IInv

(* What a new receipt has to say truly.                                    *)
Truly(c, receipt, v) ==
    /\ receipt = "EVM_CANCEL" => evm[c] = "vetoed"
    /\ receipt = "EVM_ROLLBACK" => evm[c] = "rolledBack"
    /\ c \notin strayed => /\ receipt = "CHIA_PREPARE" => Told(c, v)
                           /\ receipt = "CHIA_COMPLETE" => chia[c] = "completed"
                           /\ receipt = "CHIA_CANCEL" => chia[c] = "cancelled"

LEMMA ReceiptKeeps ==
    ASSUME IInv, req' \in {req, None}, NEW c \in Change, NEW receipt \in Receipts,
           receipts' = [receipts EXCEPT ![c] = @ \union {receipt}],
           seenAt' \in [Change -> Nat],
           \A d \in Change : d # c \/ "CHIA_PREPARE" \in receipts[d] => seenAt'[d] = seenAt[d],
           UNCHANGED <<evm, chia, version, last, pool>>,
           strayed \subseteq strayed', strayed' \subseteq Change,
           Truly(c, receipt, seenAt'[c]),
           case' \in [Change -> CaseStates], EndedAgrees'
    PROVE  IInv'
  <1>0. /\ receipts' \in [Change -> SUBSET Receipts]
        /\ \A d \in Change : receipts'[d] = IF d = c THEN receipts[d] \union {receipt}
                                                     ELSE receipts[d]
    BY DEF IInv, Shape
  <1>1. OnePending' /\ RequestIsTrue' BY <1>0, Grows
  <1>2. Shape' BY <1>0 DEF IInv, Shape
  <1>3. PoolFits' BY DEF IInv, PoolFits, Fits, Pending
  <1>4. ReceiptsAreTrue'
    <2> SUFFICES ASSUME NEW d \in Change
                 PROVE  /\ "EVM_CANCEL" \in receipts'[d] => evm[d] = "vetoed"
                        /\ "EVM_ROLLBACK" \in receipts'[d] => evm[d] = "rolledBack"
                        /\ d \notin strayed' =>
                             /\ "CHIA_PREPARE" \in receipts'[d] => Told(d, seenAt'[d])
                             /\ "CHIA_COMPLETE" \in receipts'[d] => chia[d] = "completed"
                             /\ "CHIA_CANCEL" \in receipts'[d] => chia[d] = "cancelled"
      BY DEF ReceiptsAreTrue, Told, Result
    <2>1. CASE d # c BY <2>1, <1>0 DEF IInv, ReceiptsAreTrue
    <2>2. CASE d = c BY <2>2, <1>0 DEF IInv, ReceiptsAreTrue, Truly
    <2> QED BY <2>1, <2>2
  <1> QED BY <1>1, <1>2, <1>3, <1>4 DEF IInv

LEMMA RefreshedStates ==
    ASSUME NEW c, NEW state, NEW progress
    PROVE  Refreshed(c, state, progress) # state =>
             Refreshed(c, state, progress) \in
               {"FAILED", "READY", "SUBMITTED", "AWAITING_APPROVALS"}
  BY DEF Refreshed

(* Views, approvals and pushed bundles.                                    *)
LEMMA ViewKeeps ==
    ASSUME IInv, NEW r, Faithful(r), View(r), UNCHANGED <<base, chain>>, req' \in {req, None}
    PROVE  IInv'
  <1> DEFINE state == Refreshed(r.c, r.row.state, r.row.progress)
  <1>1. state \in {"FAILED", "READY", "SUBMITTED", "AWAITING_APPROVALS"}
    BY RefreshedStates DEF View
  <1>2. /\ r.c \in Change /\ Shape /\ Write(r.c, state)
        /\ UNCHANGED <<evm, chia, version, last, pool, receipts, seenAt, strayed>>
    BY DEF View, Faithful, IInv, base, chain
  <1> HIDE DEF state
  <1>3. /\ case' \in [Change -> CaseStates]
        /\ \A d \in Change : case'[d] \in {"COMPLETED", "CANCELLED"} => case'[d] = case[d]
    BY <1>1, <1>2, Writes DEF CaseStates, Terminal
  <1> QED BY <1>2, <1>3, QuietKeeps DEF IInv, Shape, PoolFits

LEMMA ApprovalKeeps ==
    ASSUME IInv, NEW r, Faithful(r), ObserveApproval(r), UNCHANGED <<base, chain>>,
           req' \in {req, None}
    PROVE  IInv'
  <1>1. PICK state : /\ Write(r.c, state)
                     /\ \E progress : state = Refreshed(r.c, case[r.c], progress)
    BY DEF ObserveApproval
  <1>2. /\ r.c \in Change /\ Shape /\ case[r.c] \notin Terminal
        /\ UNCHANGED <<evm, chia, version, last, pool, receipts, seenAt, strayed>>
    BY DEF ObserveApproval, Faithful, IInv, base, chain, Active
  <1>3. state = case[r.c]
        \/ state \in {"FAILED", "READY", "SUBMITTED", "AWAITING_APPROVALS"}
    BY <1>1, RefreshedStates
  <1>4. state \in CaseStates BY <1>2, <1>3 DEF Shape, CaseStates, Terminal
  <1>5. /\ case' \in [Change -> CaseStates]
        /\ \A d \in Change : case'[d] \in {"COMPLETED", "CANCELLED"} => case'[d] = case[d]
    BY <1>1, <1>2, <1>3, <1>4, Writes DEF Terminal
  <1> QED BY <1>2, <1>5, QuietKeeps DEF IInv, Shape, PoolFits

LEMMA SubmitKeeps ==
    ASSUME IInv, NEW r, Faithful(r), SubmitChia(r), UNCHANGED base, req' \in {req, None}
    PROVE  IInv'
  <1>1. /\ r.c \in Change /\ Shape /\ r.op \in Phases /\ r.version = version
        /\ pool' = pool \union {[c |-> r.c, phase |-> r.op, version |-> version]}
        /\ Write(r.c, "SUBMITTED") \/ UNCHANGED case
        /\ UNCHANGED <<evm, chia, version, last, receipts, seenAt, strayed>>
    BY DEF SubmitChia, Faithful, IInv, base
  <1>2. Fits(r.c, r.op) BY <1>1 DEF Faithful
  <1>3. /\ pool' \subseteq [c : Change, phase : Phases, version : Nat]
        /\ \A b \in pool' : b.version = version /\ Fits(b.c, b.phase)
    BY <1>1, <1>2 DEF Shape, IInv, PoolFits
  <1>4. /\ case' \in [Change -> CaseStates]
        /\ \A d \in Change : case'[d] \in {"COMPLETED", "CANCELLED"} => case'[d] = case[d]
    <2>1. CASE UNCHANGED case BY <2>1, <1>1 DEF Shape
    <2>2. CASE Write(r.c, "SUBMITTED") BY <2>2, <1>1, Writes DEF CaseStates, Terminal
    <2> QED BY <1>1, <2>1, <2>2
  <1> QED BY <1>1, <1>3, <1>4, QuietKeeps

(* An event of the coordinator: a case is canceled on a veto or a rollback *)
(* with the Chia cancellation on record, or it strays.                     *)
LEMMA ObserveEvmKeeps ==
    ASSUME IInv, NEW r, Faithful(r), ObserveEvm(r), UNCHANGED <<base, chain>>,
           req' \in {req, None}
    PROVE  IInv'
  <1> DEFINE c == r.c
  <1>1. PICK event \in EvmEvent(c) :
          /\ event = "EVM_COMPLETE" => "CHIA_COMPLETE" \in r.receipts
          /\ RecordReceipt(r, event)
          /\ \/ /\ Write(c, EvmState(event, WithReceipt(r, event)))
                /\ strayed' = IF /\ case'[c] # case[c]
                                 /\ EvmState(event, WithReceipt(r, event)) = "CANCELLED"
                                 /\ "CHIA_PREPARE" \notin WithReceipt(r, event)
                              THEN strayed \union {c} ELSE strayed
             \/ UNCHANGED <<case, strayed>>
    BY DEF ObserveEvm
  <1> DEFINE known == WithReceipt(r, event)
             state == EvmState(event, known)
  <1>2. /\ c \in Change /\ Shape /\ EndedAgrees /\ ReceiptsAreTrue
        /\ r.receipts \subseteq receipts[c]
        /\ UNCHANGED <<evm, chia, version, last, pool, seenAt>>
    BY DEF IInv, Faithful, ObserveEvm, base, chain
  <1>3. /\ event \in {"EVM_EXECUTE", "EVM_CANCEL", "EVM_ROLLBACK", "EVM_COMPLETE"}
        /\ event = "EVM_CANCEL" => evm[c] = "vetoed"
        /\ event = "EVM_ROLLBACK" => evm[c] = "rolledBack"
        /\ event = "EVM_COMPLETE" => evm[c] = "converged"
    BY DEF EvmEvent
  <1>4. known \subseteq receipts[c] \union {event} BY <1>2 DEF WithReceipt
  <1>5. /\ state \in {"PARTIAL", "COMPLETED", "CANCELLED"}
        /\ state = "COMPLETED" => event = "EVM_COMPLETE"
        /\ state = "CANCELLED" => /\ event \in {"EVM_CANCEL", "EVM_ROLLBACK"}
                                  /\ "CHIA_PREPARE" \notin known \/ "CHIA_CANCEL" \in known
        /\ event = "EVM_ROLLBACK" /\ state = "CANCELLED" => "CHIA_CANCEL" \in known
    BY <1>3 DEF EvmState
  <1>6. receipts' = [receipts EXCEPT ![c] = @ \union {event}]
    BY <1>1 DEF RecordReceipt
  <1>7. strayed \subseteq strayed' /\ strayed' \subseteq Change
    BY <1>1, <1>2 DEF Shape
  <1> HIDE DEF known, state, c
  <1>8. case' \in [Change -> CaseStates] /\ EndedAgrees'
    <2>1. CASE UNCHANGED <<case, strayed>> BY <2>1, <1>2 DEF Shape, EndedAgrees
    <2>2. CASE /\ Write(c, state)
               /\ strayed' = IF /\ case'[c] # case[c] /\ state = "CANCELLED"
                                /\ "CHIA_PREPARE" \notin known
                             THEN strayed \union {c} ELSE strayed
      <3>1. /\ case' \in [Change -> CaseStates]
            /\ \A d \in Change \ {c} : case'[d] = case[d]
            /\ case'[c] \in {case[c], state}
        BY <2>2, <1>2, <1>5, Writes DEF CaseStates, Terminal
      <3>2. ASSUME case'[c] = state, case'[c] # case[c], state = "COMPLETED", c \notin strayed'
            PROVE  evm[c] = "converged" /\ chia[c] = "completed"
        BY <3>2, <1>1, <1>2, <1>3, <1>5, <1>7 DEF ReceiptsAreTrue, c
      <3>3. ASSUME case'[c] = state, case'[c] # case[c], state = "CANCELLED", c \notin strayed'
            PROVE  evm[c] \in {"vetoed", "rolledBack"} /\ chia[c] = "cancelled"
        <4>1. "CHIA_CANCEL" \in known BY <3>3, <2>2, <1>2, <1>5 DEF Shape
        <4>2. "CHIA_CANCEL" \in receipts[c] BY <4>1, <1>3, <1>4
        <4> QED BY <4>2, <3>3, <1>2, <1>3, <1>5, <1>7 DEF ReceiptsAreTrue
      <3> QED BY <3>1, <3>2, <3>3, <1>2, <1>7 DEF EndedAgrees
    <2> QED BY <1>1, <2>1, <2>2 DEF known, state
  <1>9. Truly(c, event, seenAt'[c]) BY <1>2, <1>3 DEF Truly
  <1>10. event \in Receipts BY <1>3 DEF Receipts
  <1> QED BY <1>2, <1>6, <1>7, <1>8, <1>9, <1>10, ReceiptKeeps DEF Shape

(* Chia shows the change pending: the receipt keeps the version for good.  *)
LEMMA ChiaPendingKeeps ==
    ASSUME IInv, NEW r, Faithful(r), ObserveChiaPending(r), UNCHANGED <<base, chain>>,
           req' \in {req, None}
    PROVE  IInv'
  <1>1. /\ r.c \in Change /\ Shape /\ r.op = "chia" /\ r.chia.pending
        /\ r.version \in Nat
        /\ receipts' = [receipts EXCEPT ![r.c] = @ \union {"CHIA_PREPARE"}]
        /\ seenAt' = [seenAt EXCEPT ![r.c] = r.version]
        /\ "CHIA_PREPARE" \in receipts[r.c] => seenAt[r.c] = r.version
        /\ UNCHANGED <<evm, chia, version, last, pool, strayed>>
    BY DEF ObserveChiaPending, RecordReceipt, Faithful, IInv, base, chain
  <1>2. PICK state :
          /\ Write(r.c, state) \/ UNCHANGED case
          /\ \E progress : state = Refreshed(r.c, "SUBMITTED", progress)
    BY DEF ObserveChiaPending
  <1>3. state \in {"FAILED", "READY", "SUBMITTED", "AWAITING_APPROVALS"}
    BY <1>2, RefreshedStates
  <1>4. /\ case' \in [Change -> CaseStates]
        /\ \A d \in Change : case'[d] \in {"COMPLETED", "CANCELLED"} => case'[d] = case[d]
    <2>1. CASE UNCHANGED case BY <2>1, <1>1 DEF Shape
    <2>2. CASE Write(r.c, state)
      BY <2>2, <1>1, <1>3, Writes DEF CaseStates, Terminal
    <2> QED BY <1>2, <2>1, <2>2
  <1>5. EndedAgrees' BY <1>1, <1>4 DEF IInv, EndedAgrees
  <1>6. /\ seenAt' \in [Change -> Nat] /\ seenAt'[r.c] = r.version
        /\ \A d \in Change : d # r.c \/ "CHIA_PREPARE" \in receipts[d] => seenAt'[d] = seenAt[d]
    BY <1>1 DEF Shape
  <1>7. Truly(r.c, "CHIA_PREPARE", seenAt'[r.c])
    BY <1>1, <1>6 DEF Truly, Faithful
  <1>8. strayed' \subseteq Change BY <1>1 DEF Shape
  <1> QED BY <1>1, <1>4, <1>5, <1>6, <1>7, <1>8, ReceiptKeeps DEF Receipts

(* Chia shows the change ended: canceled when Base has, too.               *)
LEMMA ChiaEndKeeps ==
    ASSUME IInv, NEW r, Faithful(r), ObserveChiaEnd(r), UNCHANGED <<base, chain>>,
           req' \in {req, None}
    PROVE  IInv'
  <1> DEFINE c       == r.c
             receipt == IF r.chia.last = "COMPLETE" THEN "CHIA_COMPLETE" ELSE "CHIA_CANCEL"
             known   == WithReceipt(r, receipt)
             state   == IF /\ receipt = "CHIA_CANCEL"
                           /\ {"EVM_CANCEL", "EVM_ROLLBACK"} \intersect known # {}
                        THEN "CANCELLED" ELSE "PARTIAL"
  <1>1. /\ c \in Change /\ Shape /\ r.op = "chia" /\ ~r.chia.pending
        /\ r.receipts \subseteq receipts[c]
        /\ receipts' = [receipts EXCEPT ![c] = @ \union {receipt}]
        /\ Write(c, state) \/ UNCHANGED case
        /\ UNCHANGED <<evm, chia, version, last, pool, seenAt, strayed>>
    BY DEF ObserveChiaEnd, RecordReceipt, Faithful, IInv, base, chain
  <1>2. c \notin strayed => chia[c] = Result(r.chia.last)
    BY <1>1 DEF Faithful
  <1>3. /\ receipt \in {"CHIA_COMPLETE", "CHIA_CANCEL"}
        /\ c \notin strayed /\ receipt = "CHIA_COMPLETE" => chia[c] = "completed"
        /\ c \notin strayed /\ receipt = "CHIA_CANCEL" => chia[c] = "cancelled"
    BY <1>2 DEF Result
  <1>4. known \subseteq receipts[c] \union {receipt} BY <1>1 DEF WithReceipt
  <1> HIDE DEF c, receipt, known
  <1>5. /\ state \in {"PARTIAL", "CANCELLED"}
        /\ state = "CANCELLED" => /\ receipt = "CHIA_CANCEL"
                                  /\ evm[c] \in {"vetoed", "rolledBack"}
    BY <1>1, <1>3, <1>4 DEF IInv, ReceiptsAreTrue
  <1> HIDE DEF state
  <1>6. case' \in [Change -> CaseStates] /\ EndedAgrees'
    <2>1. CASE UNCHANGED case BY <2>1, <1>1 DEF Shape, IInv, EndedAgrees
    <2>2. CASE Write(c, state)
      <3>1. /\ case' \in [Change -> CaseStates]
            /\ \A d \in Change \ {c} : case'[d] = case[d]
            /\ case'[c] \in {case[c], state}
        BY <2>2, <1>1, <1>5, Writes DEF CaseStates, Terminal
      <3> QED BY <3>1, <1>1, <1>3, <1>5 DEF IInv, EndedAgrees
    <2> QED BY <1>1, <2>1, <2>2
  <1>7. Truly(c, receipt, seenAt'[c]) BY <1>3 DEF Truly
  <1>8. strayed' \subseteq Change /\ receipt \in Receipts BY <1>1, <1>3 DEF Shape, Receipts
  <1> QED BY <1>1, <1>6, <1>7, <1>8, ReceiptKeeps DEF Shape

LEMMA HandleKeeps ==
    ASSUME IInv, NEW r, Faithful(r), Handle(r), UNCHANGED base, req' \in {req, None}
    PROVE  IInv'
  BY ViewKeeps, ApprovalKeeps, ObserveEvmKeeps, ChiaPendingKeeps, ChiaEndKeeps,
     SubmitKeeps DEF Handle

(* Recording a prepared change opens a case, a drill a kit candidate.      *)
LEMMA OpeningKeeps ==
    ASSUME IInv, NEW c \in Change, Drill(c) \/ RecordPrepared(c)
    PROVE  IInv'
  <1>1. /\ UNCHANGED <<base, chain, receipts, seenAt, req, strayed>>
        /\ case' \in [Change -> CaseStates]
        /\ \A d \in Change : case'[d] \in {"COMPLETED", "CANCELLED"} => case'[d] = case[d]
    BY DEF Drill, RecordPrepared, IInv, Shape, CaseStates
  <1> QED BY <1>1, QuietKeeps DEF base, chain, IInv, Shape, PoolFits

---------------------------------------------------------------------------
LEMMA NextKeeps == IInv /\ [Next]_vars => IInv'
  <1> SUFFICES ASSUME IInv, [Next]_vars PROVE IInv'
    OBVIOUS
  <1>0. evm \in [Change -> EvmStates] BY DEF IInv, Shape
  <1>1. ASSUME NEW c \in Change,
               \/ PrepareEvm(c) \/ Approve(c) \/ Veto(c) \/ ExecuteEvm(c)
               \/ Converge(c) \/ ApproveRollback(c) \/ ExecuteRollback(c) \/ Tick(c)
        PROVE  IInv'
    <2>1. LastingEvm /\ UNCHANGED <<chain, store, req, strayed>>
      BY <1>1, BaseLasts DEF IInv
    <2> QED BY <2>1, KeepsKnown DEF chain, store
  <1>2. ASSUME NEW c \in Change, Drill(c) \/ RecordPrepared(c) PROVE IInv'
    BY <1>2, OpeningKeeps
  <1>3. ASSUME NEW c \in Change, Serve(c) PROVE IInv'
    BY <1>3, ReadIsFaithful, HandleKeeps DEF Serve
  <1>4. ASSUME NEW c \in Change, Read(c) PROVE IInv'
    <2>1. PICK op \in Ops : Admitted(op, c) /\ req' = Snapshot(op, c) BY <1>4 DEF Read
    <2>2. Faithful(req') BY <2>1, ReadIsFaithful
    <2>3. UNCHANGED <<base, chain, store, strayed>> BY <1>4 DEF Read
    <2>4. Shape' /\ OnePending' /\ PoolFits' /\ ReceiptsAreTrue' /\ EndedAgrees'
      BY <2>3 DEF base, chain, store, IInv, Shape, OnePending, PoolFits, Fits, Pending,
                  ReceiptsAreTrue, Told, Result, EndedAgrees
    <2>5. RequestIsTrue'
      BY <2>2, <2>3 DEF RequestIsTrue, Faithful, Fits, Pending, Told, Result, base, chain,
                        store
    <2> QED BY <2>4, <2>5 DEF IInv
  <1>5. ASSUME NEW b \in pool, Mine(b) PROVE IInv'
    BY <1>5, MineKeeps
  <1>6. CASE Resume
    <2>1. Faithful(req) /\ Handle(req) /\ UNCHANGED base /\ req' = None
      BY <1>6 DEF Resume, IInv, RequestIsTrue
    <2> QED BY <2>1, HandleKeeps
  <1>7. CASE Abandon
    BY <1>7, <1>0, KeepsKnown DEF Abandon, base, chain, store, LastingEvm
  <1>8. CASE Evict
    BY <1>8, <1>0, KeepsKnown DEF Evict, base, store, LastingEvm
  <1>9. CASE UNCHANGED vars
    BY <1>9, <1>0, KeepsKnown DEF vars, base, chain, store, LastingEvm
  <1> QED BY <1>1, <1>2, <1>3, <1>4, <1>5, <1>6, <1>7, <1>8, <1>9 DEF Next

(* A change whose case ended COMPLETED is installed on both chains and one *)
(* whose case was CANCELLED on neither, whatever requests overlap, stop    *)
(* halfway or answer late, and however many changes there are; the changes *)
(* the API lost sight of on Chia excepted.                                 *)
THEOREM EndedChangesAgree == Spec => []EndedAgrees
  <1>1. IInv => EndedAgrees BY DEF IInv
  <1> QED BY InitHolds, NextKeeps, <1>1, PTL DEF Spec

---------------------------------------------------------------------------
(* The administrators in force.  The coordinator takes one change at a     *)
(* time and numbers them: the key it has in force is that of the newest    *)
(* converged change, but while one is executed, whose old key is.  Chia's  *)
(* key, of a change that did not stray, is never one that a newer          *)
(* completed change was to replace.                                        *)

InFlight(c)  == evm[c] = "executed" \/ (evm[c] = "prepared" /\ time[c] < 2)
Numbered     == {c \in Change : nonce[c] # 0}
Converged(k) == {c \in Change : Of[c] = k /\ evm[c] = "converged"}
Newest(x, k) ==
    IF Converged(k) = {} THEN x = None
    ELSE x \in Converged(k) /\ \A d \in Converged(k) : nonce[d] <= nonce[x]

Keys ==
    /\ nonce \in [Change -> Nat] /\ time \in [Change -> Nat]
    /\ old \in [Change -> Change \union {None}]
    /\ evmKey \in [Key -> Change \union {None}]
    /\ chiaKey \in [Key -> Change \union {None}]

(* The coordinator's numbers tell the changes apart, and a change in       *)
(* flight has the highest.                                                 *)
Numbers ==
    /\ IsFiniteSet(Numbered)
    /\ \A c \in Change :
         /\ nonce[c] = 0 <=> evm[c] = "none"
         /\ nonce[c] <= Cardinality(Numbered)
         /\ \A d \in Change : nonce[c] = nonce[d] /\ nonce[c] # 0 => c = d
         /\ \A d \in Change : InFlight(c) => nonce[d] <= nonce[c]

(* What Base has in force, and what an execution under way replaces.       *)
BaseKeys ==
    /\ \A c \in Change : evm[c] = "prepared" /\ time[c] < 2 => old[c] = evmKey[Of[c]]
    /\ \A c \in Change : evm[c] = "executed" => /\ evmKey[Of[c]] = c
                                                /\ Newest(old[c], Of[c])
    /\ \A k \in Key :
         (\A c \in Change : Of[c] = k => evm[c] # "executed") => Newest(evmKey[k], k)

(* Nothing is recorded, pushed or mined of a change Base does not know.    *)
Begun ==
    /\ \A c \in Change : case[c] # "none" \/ chia[c] # "none" => nonce[c] # 0
    /\ \A b \in pool : nonce[b.c] # 0
    /\ req # None => nonce[req.c] # 0

(* What Chia has in force.                                                 *)
ChiaKeys ==
    /\ \A c \in Change \ strayed : evm[c] = "converged" => chia[c] = "completed"
    /\ \A k \in Key : chiaKey[k] # None =>
         /\ Of[chiaKey[k]] = k
         /\ chia[chiaKey[k]] = "completed" \/ chiaKey[k] \in strayed
    /\ \A c \in Change : chia[c] = "completed" => chiaKey[Of[c]] # None
    /\ \A c, d \in Change \ strayed :
         Of[c] = Of[d] /\ evm[c] = "converged" /\ chia[d] = "completed" /\ nonce[c] < nonce[d]
           => chiaKey[Of[c]] # c

RInv == IInv /\ Keys /\ Numbers /\ BaseKeys /\ Begun /\ ChiaKeys

LEMMA InitRoster == Init => RInv
  <1> SUFFICES ASSUME Init PROVE RInv
    OBVIOUS
  <1>1. Numbered = {} BY DEF Init, Numbered
  <1>2. IsFiniteSet(Numbered) /\ Cardinality(Numbered) = 0 BY <1>1, FS_EmptySet
  <1>3. Keys BY DEF Init, Keys
  <1>4. Numbers BY <1>2 DEF Init, Numbers, InFlight
  <1>5. BaseKeys BY ChangeAssumption DEF Init, BaseKeys, Newest, Converged
  <1>6. Begun BY DEF Init, Begun
  <1>7. ChiaKeys BY ChangeAssumption DEF Init, ChiaKeys
  <1> QED BY <1>3, <1>4, <1>5, <1>6, <1>7, InitHolds DEF RInv

(* The coordinator takes one change at a time.                             *)
LEMMA OneInFlight ==
    ASSUME Keys, Numbers, NEW c \in Change, NEW d \in Change, InFlight(c), InFlight(d)
    PROVE  c = d
  <1>1. nonce[c] <= nonce[d] /\ nonce[d] <= nonce[c] /\ nonce[c] \in Nat /\ nonce[d] \in Nat
    BY DEF Keys, Numbers
  <1>2. nonce[c] = nonce[d] /\ nonce[c] # 0 BY <1>1 DEF Numbers, InFlight
  <1> QED BY <1>2 DEF Numbers

---------------------------------------------------------------------------
(* A change is prepared: no other is in flight, and its number is new.     *)
LEMMA PrepareKeeps ==
    ASSUME RInv, NEW c \in Change, PrepareEvm(c)
    PROVE  Keys' /\ Numbers' /\ BaseKeys' /\ Begun' /\ ChiaKeys'
  <1> DEFINE n == Cardinality(Numbered)
  <1>1. /\ Shape /\ Keys /\ Numbers /\ BaseKeys /\ Begun /\ ChiaKeys
        /\ evm[c] = "none" /\ nonce[c] = 0 /\ \A d \in Change : ~InFlight(d)
        /\ evm' = [evm EXCEPT ![c] = "prepared"]
        /\ nonce' = [nonce EXCEPT ![c] = n + 1]
        /\ old' = [old EXCEPT ![c] = evmKey[Of[c]]]
        /\ UNCHANGED <<evmKey, time, chia, chiaKey, pool, case, req, strayed>>
    BY DEF RInv, IInv, PrepareEvm, Numbers, ChangeActive, InFlight, ChangeNonce, Numbered,
           chain, store
  <1>2. /\ n \in Nat /\ nonce'[c] = n + 1 /\ evm'[c] = "prepared" /\ old'[c] = evmKey[Of[c]]
        /\ \A d \in Change : d # c => /\ nonce'[d] = nonce[d] /\ evm'[d] = evm[d]
                                      /\ old'[d] = old[d]
    <2>1. n \in Nat BY <1>1, FS_CardinalityType DEF Numbers
    <2> QED BY <2>1, <1>1 DEF Keys, Shape
  <1> HIDE DEF n
  <1>3. Numbered' = Numbered \union {c} /\ c \notin Numbered
    <2>1. n + 1 # 0 BY <1>2
    <2>2. \A d \in Change : nonce'[d] # 0 <=> nonce[d] # 0 \/ d = c BY <2>1, <1>1, <1>2
    <2> QED BY <2>2, <1>1 DEF Numbered
  <1>4. IsFiniteSet(Numbered') /\ Cardinality(Numbered') = n + 1
    BY <1>1, <1>3, FS_AddElement DEF Numbers, n
  <1>5. Keys'
    <2>1. Of[c] \in Key BY ChangeAssumption
    <2>2. evmKey[Of[c]] \in Change \union {None} BY <2>1, <1>1 DEF Keys
    <2>3. old' \in [Change -> Change \union {None}] BY <2>2, <1>1 DEF Keys
    <2>4. n + 1 \in Nat BY <1>2
    <2>5. nonce' \in [Change -> Nat] BY <2>4, <1>1 DEF Keys
    <2> QED BY <2>3, <2>5, <1>1 DEF Keys
  <1>6. \A d \in Change : /\ nonce[d] \in Nat /\ nonce[d] <= n
                          /\ nonce[d] = 0 <=> evm[d] = "none"
    BY <1>1 DEF Keys, Numbers, n
  <1>7. \A d \in Change : nonce'[d] \in Nat /\ nonce'[d] <= n + 1 /\ (d # c => nonce'[d] <= n)
    BY <1>2, <1>6
  <1>8. Numbers'
    <2>1. \A d \in Change : d # c => ~InFlight(d)' BY <1>1, <1>2 DEF InFlight
    <2>2. \A d \in Change : nonce'[d] = 0 <=> evm'[d] = "none" BY <1>2, <1>6
    <2>3. \A d, e \in Change : nonce'[d] = nonce'[e] /\ nonce'[d] # 0 => d = e
      <3> SUFFICES ASSUME NEW d \in Change, NEW e \in Change, nonce'[d] = nonce'[e],
                          nonce'[d] # 0
                   PROVE  d = e
        OBVIOUS
      <3>1. CASE d = c \/ e = c BY <3>1, <1>2, <1>7
      <3>2. CASE d # c /\ e # c BY <3>2, <1>1, <1>2 DEF Numbers
      <3> QED BY <3>1, <3>2
    <2> QED BY <2>1, <2>2, <2>3, <1>2, <1>4, <1>7 DEF Numbers
  <1>9. \A k \in Key : \A x : Newest(x, k) => Newest(x, k)'
    <2>1. \A k \in Key : Converged(k)' = Converged(k) BY <1>1, <1>2 DEF Converged
    <2>2. \A k \in Key : \A d \in Converged(k) : nonce'[d] = nonce[d]
      BY <1>1, <1>2 DEF Converged
    <2> QED BY <2>1, <2>2 DEF Newest
  <1>10. BaseKeys'
    <2>1. \A d \in Change : evm'[d] = "prepared" /\ time[d] < 2 => old'[d] = evmKey[Of[d]]
      BY <1>1, <1>2 DEF InFlight
    <2>2. \A d \in Change : evm'[d] # "executed" BY <1>1, <1>2 DEF InFlight
    <2>3. \A k \in Key : Newest(evmKey[k], k) BY <1>1 DEF BaseKeys, InFlight
    <2> QED BY <2>1, <2>2, <2>3, <1>1, <1>9 DEF BaseKeys
  <1>11. Begun'
    <2>1. \A d \in Change : nonce[d] # 0 => nonce'[d] # 0 BY <1>1, <1>2
    <2>2. (\A b \in pool : b.c \in Change) /\ (req # None => req.c \in Change)
      BY DEF RInv, IInv, Shape, RequestIsTrue, Faithful
    <2> QED BY <2>1, <2>2, <1>1 DEF Begun
  <1>12. ChiaKeys'
    <2>1. chia[c] # "completed" BY <1>1 DEF Begun
    <2> QED BY <2>1, <1>1, <1>2 DEF ChiaKeys
  <1> QED BY <1>5, <1>8, <1>10, <1>11, <1>12

(* Every other step of the coordinator keeps the numbers, and starts none. *)
Onward ==
    /\ UNCHANGED <<nonce, old, chain, store, req, strayed>>
    /\ time' \in [Change -> Nat] /\ evmKey' \in [Key -> Change \union {None}]
    /\ \A c \in Change : /\ evm'[c] = "none" <=> evm[c] = "none"
                         /\ InFlight(c)' => InFlight(c)

LEMMA OnwardKeeps ==
    ASSUME RInv, Onward
    PROVE  /\ Keys' /\ Numbers' /\ Begun'
           /\ \A k \in Key : Converged(k)' = Converged(k) =>
                               \A x : Newest(x, k)' <=> Newest(x, k)
  <1>1. /\ Keys /\ Numbers /\ Begun
        /\ UNCHANGED <<nonce, old, chia, chiaKey, pool, case, req, strayed>>
    BY DEF RInv, Onward, chain, store
  <1>2. Keys' BY <1>1 DEF Keys, Onward
  <1>3. Numbered' = Numbered BY <1>1 DEF Numbered
  <1>4. Numbers' BY <1>1, <1>3 DEF Numbers, Onward
  <1>5. Begun' BY <1>1 DEF Begun
  <1> QED BY <1>1, <1>2, <1>4, <1>5 DEF Newest

(* Approvals, vetoes and time touch no key.                                *)
LEMMA WaitingKeeps ==
    ASSUME RInv, NEW c \in Change,
           Approve(c) \/ Veto(c) \/ ApproveRollback(c) \/ Tick(c)
    PROVE  Keys' /\ Numbers' /\ BaseKeys' /\ Begun' /\ ChiaKeys'
  <1>1. /\ Shape /\ Keys /\ Numbers /\ BaseKeys /\ Begun /\ ChiaKeys
        /\ UNCHANGED <<nonce, old, evmKey, chain, store, req, strayed>>
    BY DEF RInv, IInv, Approve, Veto, ApproveRollback, Tick
  <1>2. /\ time' \in [Change -> Nat]
        /\ \A d \in Change :
             /\ evm'[d] = "none" <=> evm[d] = "none"
             /\ evm'[d] = "executed" <=> evm[d] = "executed"
             /\ evm'[d] = "converged" <=> evm[d] = "converged"
             /\ evm'[d] = "prepared" /\ time'[d] < 2 => evm[d] = "prepared" /\ time[d] < 2
    <2>1. CASE Approve(c) \/ ApproveRollback(c)
      BY <2>1, <1>1 DEF Approve, ApproveRollback, Keys
    <2>2. CASE Veto(c) BY <2>2, <1>1 DEF Veto, Keys, Shape
    <2>3. CASE Tick(c)
      <3>1. time[c] + 1 \in Nat BY <1>1 DEF Keys
      <3>2. time' = [time EXCEPT ![c] = time[c] + 1] /\ UNCHANGED evm BY <2>3 DEF Tick
      <3>3. time' \in [Change -> Nat] BY <3>1, <3>2, <1>1 DEF Keys
      <3>4. \A d \in Change : time[d] \in Nat /\ time'[d] \in {time[d], time[d] + 1}
        BY <3>2, <1>1 DEF Keys
      <3>5. \A d \in Change : time'[d] < 2 => time[d] < 2 BY <3>4
      <3> QED BY <3>2, <3>3, <3>5
    <2> QED BY <2>1, <2>2, <2>3
  <1>3. Onward BY <1>1, <1>2 DEF Onward, InFlight, Keys
  <1>4. Keys' /\ Numbers' /\ Begun' BY <1>3, OnwardKeeps
  <1>5. \A k \in Key : Converged(k)' = Converged(k) BY <1>2 DEF Converged
  <1>6. \A k \in Key : \A x : Newest(x, k)' <=> Newest(x, k) BY <1>3, <1>5, OnwardKeeps
  <1>7. BaseKeys'
    <2>1. \A d \in Change : Of[d] \in Key BY ChangeAssumption
    <2> QED BY <2>1, <1>1, <1>2, <1>6 DEF BaseKeys
  <1>8. ChiaKeys' BY <1>1, <1>2 DEF ChiaKeys, chain
  <1> QED BY <1>4, <1>7, <1>8

(* An execution replaces the key its intent was prepared on.               *)
LEMMA ExecuteKeeps ==
    ASSUME RInv, NEW c \in Change, ExecuteEvm(c)
    PROVE  Keys' /\ Numbers' /\ BaseKeys' /\ Begun' /\ ChiaKeys'
  <1>1. /\ Shape /\ Keys /\ Numbers /\ BaseKeys /\ Begun /\ ChiaKeys
        /\ evm[c] = "prepared" /\ time[c] = 1 /\ InFlight(c)
        /\ evm' = [evm EXCEPT ![c] = "executed"]
        /\ evmKey' = [evmKey EXCEPT ![Of[c]] = c]
        /\ UNCHANGED <<nonce, old, time, chain, store, req, strayed>>
    BY DEF RInv, IInv, ExecuteEvm, InFlight
  <1>2. /\ Of[c] \in Key /\ evmKey'[Of[c]] = c
        /\ \A k \in Key : k # Of[c] => evmKey'[k] = evmKey[k]
        /\ \A d \in Change : d # c => evm'[d] = evm[d]
        /\ evm'[c] = "executed"
        /\ evmKey' \in [Key -> Change \union {None}]
    BY <1>1, ChangeAssumption DEF Keys, Shape
  <1>3. \A d \in Change : d # c => evm[d] # "executed" /\ ~(evm[d] = "prepared" /\ time[d] < 2)
    BY <1>1, OneInFlight DEF InFlight
  <1>4. Onward BY <1>1, <1>2 DEF Onward, InFlight, Keys
  <1>5. Keys' /\ Numbers' /\ Begun' BY <1>4, OnwardKeeps
  <1>6. \A k \in Key : Converged(k)' = Converged(k) BY <1>1, <1>2 DEF Converged
  <1>7. Newest(old[c], Of[c])
    <2>1. Newest(evmKey[Of[c]], Of[c]) BY <1>1, <1>2, <1>3 DEF BaseKeys
    <2>2. old[c] = evmKey[Of[c]] BY <1>1 DEF BaseKeys
    <2> QED BY <2>1, <2>2
  <1>8. BaseKeys'
    <2>1. \A d \in Change : ~(evm'[d] = "prepared" /\ time[d] < 2) BY <1>2, <1>3
    <2>2. \A d \in Change : evm'[d] = "executed" => d = c BY <1>2, <1>3
    <2>3. ASSUME NEW k \in Key, \A d \in Change : Of[d] = k => evm'[d] # "executed"
          PROVE  Newest(evmKey[k], k)'
      <3>1. k # Of[c] BY <2>3, <1>2
      <3>2. \A d \in Change : Of[d] = k => evm[d] # "executed" BY <3>1, <1>2, <1>3
      <3>3. Newest(evmKey[k], k) BY <3>2, <1>1 DEF BaseKeys
      <3> QED BY <3>1, <3>3, <1>1, <1>2, <1>6 DEF Newest
    <2>4. Newest(old[c], Of[c])' BY <1>1, <1>6, <1>7, <1>2 DEF Newest
    <2> QED BY <2>1, <2>2, <2>3, <2>4, <1>1, <1>2 DEF BaseKeys
  <1>9. ChiaKeys' BY <1>1, <1>2 DEF ChiaKeys, chain
  <1> QED BY <1>5, <1>8, <1>9

(* A rollback puts back the key the executed change replaced.              *)
LEMMA RollbackKeeps ==
    ASSUME RInv, NEW c \in Change, ExecuteRollback(c)
    PROVE  Keys' /\ Numbers' /\ BaseKeys' /\ Begun' /\ ChiaKeys'
  <1>1. /\ Shape /\ Keys /\ Numbers /\ BaseKeys /\ Begun /\ ChiaKeys
        /\ evm[c] = "executed" /\ InFlight(c)
        /\ evm' = [evm EXCEPT ![c] = "rolledBack"]
        /\ evmKey' = [evmKey EXCEPT ![Of[c]] = old[c]]
        /\ UNCHANGED <<nonce, old, time, chain, store, req, strayed>>
    BY DEF RInv, IInv, ExecuteRollback, InFlight
  <1>2. /\ Of[c] \in Key /\ evmKey'[Of[c]] = old[c]
        /\ \A k \in Key : k # Of[c] => evmKey'[k] = evmKey[k]
        /\ \A d \in Change : d # c => evm'[d] = evm[d]
        /\ evm'[c] = "rolledBack"
    BY <1>1, ChangeAssumption DEF Keys, Shape
  <1>3. evmKey' \in [Key -> Change \union {None}]
    <2>1. old[c] \in Change \union {None} BY <1>1 DEF Keys
    <2> QED BY <2>1, <1>1 DEF Keys
  <1>4. \A d \in Change : d # c => evm[d] # "executed" /\ ~(evm[d] = "prepared" /\ time[d] < 2)
    BY <1>1, OneInFlight DEF InFlight
  <1>5. Onward BY <1>1, <1>2, <1>3 DEF Onward, InFlight, Keys
  <1>6. Keys' /\ Numbers' /\ Begun' BY <1>5, OnwardKeeps
  <1>7. \A k \in Key : Converged(k)' = Converged(k) BY <1>1, <1>2 DEF Converged
  <1>8. BaseKeys'
    <2>1. \A d \in Change : /\ ~(evm'[d] = "prepared" /\ time[d] < 2)
                            /\ evm'[d] # "executed"
      BY <1>2, <1>4
    <2>2. Newest(evmKey[Of[c]], Of[c])' BY <1>1, <1>2, <1>7 DEF BaseKeys, Newest
    <2>3. ASSUME NEW k \in Key, k # Of[c] PROVE Newest(evmKey[k], k)'
      <3>1. \A d \in Change : Of[d] = k => evm[d] # "executed" BY <2>3, <1>4
      <3>2. Newest(evmKey[k], k) BY <3>1, <1>1 DEF BaseKeys
      <3> QED BY <2>3, <3>2, <1>1, <1>2, <1>7 DEF Newest
    <2> QED BY <2>1, <2>2, <2>3, <1>1, <1>2 DEF BaseKeys
  <1>9. ChiaKeys' BY <1>1, <1>2 DEF ChiaKeys, chain
  <1> QED BY <1>6, <1>8, <1>9

(* A convergence makes the executed change the newest of its key, and its  *)
(* receipts say that Chia has installed it.                                *)
LEMMA ConvergeKeeps ==
    ASSUME RInv, NEW c \in Change, Converge(c)
    PROVE  Keys' /\ Numbers' /\ BaseKeys' /\ Begun' /\ ChiaKeys'
  <1>1. /\ Shape /\ Keys /\ Numbers /\ BaseKeys /\ Begun /\ ChiaKeys /\ ReceiptsAreTrue
        /\ evm[c] = "executed" /\ InFlight(c) /\ "CHIA_COMPLETE" \in receipts[c]
        /\ evm' = [evm EXCEPT ![c] = "converged"]
        /\ UNCHANGED <<nonce, old, time, evmKey, chain, store, req, strayed>>
    BY DEF RInv, IInv, Converge, InFlight
  <1>2. /\ \A d \in Change : d # c => evm'[d] = evm[d]
        /\ evm'[c] = "converged"
    BY <1>1 DEF Shape
  <1>3. \A d \in Change : d # c => evm[d] # "executed" /\ ~(evm[d] = "prepared" /\ time[d] < 2)
    BY <1>1, OneInFlight DEF InFlight
  <1>4. Onward BY <1>1, <1>2 DEF Onward, InFlight, Keys
  <1>5. Keys' /\ Numbers' /\ Begun' BY <1>4, OnwardKeeps
  <1>6. \A d \in Change : nonce[d] <= nonce[c] BY <1>1 DEF Numbers
  <1>7. BaseKeys'
    <2>1. \A d \in Change : /\ ~(evm'[d] = "prepared" /\ time[d] < 2)
                            /\ evm'[d] # "executed"
      BY <1>2, <1>3
    <2>2. Newest(evmKey[Of[c]], Of[c])'
      <3>1. evmKey[Of[c]] = c BY <1>1 DEF BaseKeys
      <3>2. c \in Converged(Of[c])' /\ Converged(Of[c])' \subseteq Change
        BY <1>2 DEF Converged
      <3> QED BY <3>1, <3>2, <1>1, <1>6 DEF Newest
    <2>3. ASSUME NEW k \in Key, k # Of[c] PROVE Newest(evmKey[k], k)'
      <3>1. \A d \in Change : Of[d] = k => evm[d] # "executed" BY <2>3, <1>3
      <3>2. Newest(evmKey[k], k) BY <3>1, <1>1 DEF BaseKeys
      <3>3. Converged(k)' = Converged(k) BY <2>3, <1>1, <1>2 DEF Converged
      <3> QED BY <3>2, <3>3, <1>1 DEF Newest
    <2> QED BY <2>1, <2>2, <2>3, <1>1 DEF BaseKeys
  <1>8. ChiaKeys'
    <2>1. c \notin strayed => chia[c] = "completed" BY <1>1 DEF ReceiptsAreTrue
    <2>2. \A d \in Change : nonce[c] \in Nat /\ nonce[d] \in Nat BY <1>1 DEF Keys
    <2>3. \A d \in Change : ~(nonce[c] < nonce[d]) BY <2>2, <1>6
    <2> QED BY <2>1, <2>3, <1>1, <1>2 DEF ChiaKeys, chain
  <1> QED BY <1>5, <1>7, <1>8

LEMMA BaseStepKeeps ==
    ASSUME RInv, NEW c \in Change,
           \/ PrepareEvm(c) \/ Approve(c) \/ Veto(c) \/ ExecuteEvm(c)
           \/ Converge(c) \/ ApproveRollback(c) \/ ExecuteRollback(c) \/ Tick(c)
    PROVE  Keys' /\ Numbers' /\ BaseKeys' /\ Begun' /\ ChiaKeys'
  BY PrepareKeeps, WaitingKeeps, ExecuteKeeps, ConvergeKeeps, RollbackKeeps

---------------------------------------------------------------------------
(* What Chia's steps and the API's leave of the coordinator.               *)
LEMMA BaseStays ==
    ASSUME RInv, UNCHANGED base, chiaKey' \in [Key -> Change \union {None}]
    PROVE  Keys' /\ Numbers' /\ BaseKeys'
  <1>1. /\ Keys /\ Numbers /\ BaseKeys
        /\ UNCHANGED <<evm, nonce, old, evmKey, time>>
    BY DEF RInv, base
  <1>2. Keys' BY <1>1 DEF Keys
  <1>3. Numbered' = Numbered BY <1>1 DEF Numbered
  <1>4. Numbers' BY <1>1, <1>3 DEF Numbers, InFlight
  <1>5. BaseKeys' BY <1>1 DEF BaseKeys, Newest, Converged
  <1> QED BY <1>2, <1>4, <1>5

(* A change the API lost sight of only widens the exceptions.              *)
LEMMA ChiaStays ==
    ASSUME RInv, UNCHANGED <<base, chia, chiaKey>>, strayed \subseteq strayed'
    PROVE  Keys' /\ Numbers' /\ BaseKeys' /\ ChiaKeys'
  <1>1. Keys /\ ChiaKeys /\ UNCHANGED <<evm, nonce, chia, chiaKey>> BY DEF RInv, base
  <1>2. Keys' /\ Numbers' /\ BaseKeys' BY <1>1, BaseStays DEF Keys
  <1>3. ChiaKeys' BY <1>1 DEF ChiaKeys
  <1> QED BY <1>2, <1>3

(* A request writes to its own case and pushes bundles of its own change.  *)
LEMMA HandleOwn ==
    ASSUME IInv, NEW r, Faithful(r), Handle(r)
    PROVE  /\ \A d \in Change : d # r.c => case'[d] = case[d]
           /\ \A b \in pool' : b \in pool \/ b.c = r.c
           /\ UNCHANGED <<chia, chiaKey>> /\ strayed \subseteq strayed'
  <1>1. r.c \in Change /\ Shape BY DEF Faithful, IInv
  <1>2. \A state : Write(r.c, state) => \A d \in Change : d # r.c => case'[d] = case[d]
    BY <1>1 DEF Write, Shape
  <1>3. CASE View(r) /\ UNCHANGED chain
    BY <1>3, <1>2 DEF View, chain
  <1>4. CASE ObserveApproval(r) /\ UNCHANGED chain
    BY <1>4, <1>2 DEF ObserveApproval, chain
  <1>5. CASE ObserveEvm(r) /\ UNCHANGED chain
    BY <1>5, <1>2 DEF ObserveEvm, chain
  <1>6. CASE ObserveChiaPending(r) /\ UNCHANGED chain
    BY <1>6, <1>2 DEF ObserveChiaPending, chain
  <1>7. CASE ObserveChiaEnd(r) /\ UNCHANGED chain
    BY <1>7, <1>2 DEF ObserveChiaEnd, chain
  <1>8. CASE SubmitChia(r)
    BY <1>8, <1>2 DEF SubmitChia
  <1> QED BY <1>3, <1>4, <1>5, <1>6, <1>7, <1>8 DEF Handle

LEMMA HandleKeepsRoster ==
    ASSUME RInv, NEW r, Faithful(r), nonce[r.c] # 0, Handle(r), UNCHANGED base,
           req' \in {req, None}
    PROVE  Keys' /\ Numbers' /\ BaseKeys' /\ Begun' /\ ChiaKeys'
  <1>1. /\ \A d \in Change : d # r.c => case'[d] = case[d]
        /\ \A b \in pool' : b \in pool \/ b.c = r.c
        /\ UNCHANGED <<chia, chiaKey>> /\ strayed \subseteq strayed'
    BY HandleOwn DEF RInv
  <1>2. Keys' /\ Numbers' /\ BaseKeys' /\ ChiaKeys' BY <1>1, ChiaStays
  <1>3. Begun' BY <1>1 DEF RInv, Begun, base
  <1> QED BY <1>2, <1>3

(* Chia installs the key of the one pending change: a change that replaces *)
(* it is completed there before Base converges, and the other way round    *)
(* nothing completed is ever pending again, unless it strays.              *)
LEMMA MineKeepsRoster ==
    ASSUME RInv, NEW b \in pool, Mine(b)
    PROVE  Keys' /\ Numbers' /\ BaseKeys' /\ Begun' /\ ChiaKeys'
  <1> DEFINE x == b.c
  <1>1. /\ x \in Change /\ b.phase \in Phases /\ Of[x] \in Key
        /\ Shape /\ Keys /\ Begun /\ ChiaKeys /\ Fits(x, b.phase)
        /\ nonce[x] # 0
        /\ UNCHANGED <<base, case, req>> /\ pool' = {}
    BY ChangeAssumption
       DEF RInv, IInv, Shape, PoolFits, Mine, store, Begun
  <1>2. /\ \A d \in Change : d # x => chia'[d] = chia[d]
        /\ b.phase = "PREPARE" => chia'[x] = "pending"
        /\ b.phase = "COMPLETE" => chia'[x] = "completed" /\ chia[x] = "pending"
        /\ b.phase = "CANCEL" => chia'[x] = "cancelled" /\ chia[x] = "pending"
    BY <1>1 DEF Mine, Shape, Fits
  <1>3. /\ b.phase = "COMPLETE" => chiaKey' = [chiaKey EXCEPT ![Of[x]] = x]
        /\ b.phase # "COMPLETE" => chiaKey' = chiaKey
        /\ strayed \subseteq strayed'
        /\ b.phase = "PREPARE" /\ chia[x] # "none" => x \in strayed'
    BY DEF Mine
  <1> HIDE DEF x
  <1>4. chiaKey' \in [Key -> Change \union {None}] BY <1>1, <1>3 DEF Keys
  <1>5. Keys' /\ Numbers' /\ BaseKeys' BY <1>1, <1>4, BaseStays
  <1>6. Begun' BY <1>1, <1>2 DEF Begun, base
  <1>7. UNCHANGED <<evm, nonce>> BY <1>1 DEF base
  <1>8. ASSUME NEW c \in Change \ strayed', evm[c] = "converged"
        PROVE  chia[c] = "completed" /\ chia'[c] = "completed" /\ c # x
    <2>1. chia[c] = "completed" BY <1>8, <1>1, <1>3 DEF ChiaKeys
    <2>2. c # x BY <2>1, <1>8, <1>1, <1>2, <1>3 DEF Phases
    <2> QED BY <2>1, <2>2, <1>2
  <1>9. CASE b.phase = "COMPLETE"
    <2>1. /\ chiaKey'[Of[x]] = x /\ \A k \in Key : k # Of[x] => chiaKey'[k] = chiaKey[k]
          /\ x # None
      BY <1>9, <1>1, <1>3, ChangeAssumption DEF Keys
    <2>2. ASSUME NEW k \in Key, chiaKey'[k] # None
          PROVE  /\ Of[chiaKey'[k]] = k
                 /\ chia'[chiaKey'[k]] = "completed" \/ chiaKey'[k] \in strayed'
      <3>1. CASE k = Of[x] BY <3>1, <2>1, <1>2, <1>9
      <3>2. CASE k # Of[x]
        <4>1. chiaKey[k] \in Change /\ chiaKey[k] # x BY <3>2, <2>1, <2>2, <1>1 DEF Keys, ChiaKeys
        <4> QED BY <4>1, <3>2, <2>1, <2>2, <1>1, <1>2, <1>3 DEF ChiaKeys
      <3> QED BY <3>1, <3>2
    <2>3. \A c \in Change : chia'[c] = "completed" => chiaKey'[Of[c]] # None
      <3>1. \A c \in Change : Of[c] \in Key BY ChangeAssumption
      <3> QED BY <3>1, <2>1, <1>1, <1>2 DEF ChiaKeys
    <2>4. ASSUME NEW c \in Change \ strayed', NEW d \in Change \ strayed', Of[c] = Of[d],
                 evm[c] = "converged", chia'[d] = "completed", nonce[c] < nonce[d]
          PROVE  chiaKey'[Of[c]] # c
      <3>1. c # x /\ Of[c] \in Key BY <2>4, <1>8, ChangeAssumption
      <3>2. CASE d = x BY <3>1, <3>2, <2>1, <2>4
      <3>3. CASE d # x
        <4>1. chia[d] = "completed" BY <3>3, <2>4, <1>2
        <4>2. chiaKey[Of[c]] # c BY <4>1, <2>4, <1>1, <1>3 DEF ChiaKeys
        <4> QED BY <4>2, <3>1, <2>1
      <3> QED BY <3>2, <3>3
    <2>5. \A c \in Change \ strayed' : evm'[c] = "converged" => chia'[c] = "completed"
      BY <1>7, <1>8
    <2>6. \A c, d \in Change \ strayed' :
            Of[c] = Of[d] /\ evm'[c] = "converged" /\ chia'[d] = "completed"
              /\ nonce'[c] < nonce'[d] => chiaKey'[Of[c]] # c
      BY <2>4, <1>7
    <2> QED BY <1>5, <1>6, <2>2, <2>3, <2>5, <2>6 DEF ChiaKeys
  <1>10. CASE b.phase # "COMPLETE"
    <2>1. chia'[x] # "completed" /\ chiaKey' = chiaKey
      BY <1>10, <1>1, <1>2, <1>3 DEF Phases
    <2>2. chia[x] = "completed" => x \in strayed' BY <1>10, <1>1, <1>2, <1>3 DEF Phases
    <2>3. ASSUME NEW k \in Key, chiaKey[k] # None
          PROVE  /\ Of[chiaKey[k]] = k
                 /\ chia'[chiaKey[k]] = "completed" \/ chiaKey[k] \in strayed'
      <3>1. chiaKey[k] \in Change BY <2>3, <1>1 DEF Keys
      <3> QED BY <3>1, <2>2, <2>3, <1>1, <1>2, <1>3 DEF ChiaKeys
    <2>4. \A c \in Change : chia'[c] = "completed" => c # x /\ chia[c] = "completed"
      BY <2>1, <1>2
    <2>5. \A c \in Change : chia'[c] = "completed" => chiaKey[Of[c]] # None
      BY <2>4, <1>1 DEF ChiaKeys
    <2>6. ASSUME NEW c \in Change \ strayed', NEW d \in Change \ strayed', Of[c] = Of[d],
                 evm[c] = "converged", chia'[d] = "completed", nonce[c] < nonce[d]
          PROVE  chiaKey[Of[c]] # c
      BY <2>4, <2>6, <1>1, <1>3 DEF ChiaKeys
    <2>7. \A c \in Change \ strayed' : evm'[c] = "converged" => chia'[c] = "completed"
      BY <1>7, <1>8
    <2>8. \A c, d \in Change \ strayed' :
            Of[c] = Of[d] /\ evm'[c] = "converged" /\ chia'[d] = "completed"
              /\ nonce'[c] < nonce'[d] => chiaKey'[Of[c]] # c
      BY <2>1, <2>6, <1>7
    <2> QED BY <1>5, <1>6, <2>1, <2>3, <2>5, <2>7, <2>8 DEF ChiaKeys
  <1> QED BY <1>5, <1>6, <1>9, <1>10

---------------------------------------------------------------------------
LEMMA NextKeepsRoster == RInv /\ [Next]_vars => RInv'
  <1> SUFFICES ASSUME RInv, [Next]_vars
               PROVE  Keys' /\ Numbers' /\ BaseKeys' /\ Begun' /\ ChiaKeys'
    BY NextKeeps DEF RInv
  <1>1. ASSUME NEW c \in Change,
               \/ PrepareEvm(c) \/ Approve(c) \/ Veto(c) \/ ExecuteEvm(c)
               \/ Converge(c) \/ ApproveRollback(c) \/ ExecuteRollback(c) \/ Tick(c)
        PROVE  Keys' /\ Numbers' /\ BaseKeys' /\ Begun' /\ ChiaKeys'
    BY <1>1, BaseStepKeeps
  <1>2. ASSUME NEW c \in Change, Drill(c)
        PROVE  Keys' /\ Numbers' /\ BaseKeys' /\ Begun' /\ ChiaKeys'
    <2>1. UNCHANGED <<base, chia, chiaKey, pool, case, req, strayed>>
      BY <1>2 DEF Drill, chain
    <2> QED BY <2>1, ChiaStays DEF RInv, Begun, base
  <1>3. ASSUME NEW c \in Change, RecordPrepared(c)
        PROVE  Keys' /\ Numbers' /\ BaseKeys' /\ Begun' /\ ChiaKeys'
    <2>1. /\ UNCHANGED <<base, chia, chiaKey, pool, req, strayed>>
          /\ \A d \in Change : d # c => case'[d] = case[d]
      BY <1>3 DEF RecordPrepared, chain, RInv, IInv, Shape
    <2>2. nonce[c] # 0 BY <1>3 DEF RecordPrepared, RInv, Numbers
    <2> QED BY <2>1, <2>2, ChiaStays DEF RInv, Begun, base
  <1>4. ASSUME NEW c \in Change, Serve(c)
        PROVE  Keys' /\ Numbers' /\ BaseKeys' /\ Begun' /\ ChiaKeys'
    <2>1. PICK op \in Ops : Admitted(op, c) /\ Handle(Snapshot(op, c))
      BY <1>4 DEF Serve
    <2>2. Faithful(Snapshot(op, c)) BY <2>1, ReadIsFaithful DEF RInv
    <2>3. Snapshot(op, c).c = c BY DEF Snapshot
    <2>4. nonce[c] # 0 BY <1>4 DEF Serve, Active, RInv, Begun
    <2>5. UNCHANGED base /\ req' = req BY <1>4 DEF Serve
    <2> QED BY <2>1, <2>2, <2>3, <2>4, <2>5, HandleKeepsRoster
  <1>5. ASSUME NEW c \in Change, Read(c)
        PROVE  Keys' /\ Numbers' /\ BaseKeys' /\ Begun' /\ ChiaKeys'
    <2>1. /\ UNCHANGED <<base, chia, chiaKey, pool, case, strayed>>
          /\ req'.c = c /\ nonce[c] # 0
      BY <1>5 DEF Read, chain, store, Snapshot, Active, RInv, Begun
    <2> QED BY <2>1, ChiaStays DEF RInv, Begun, base
  <1>6. ASSUME NEW b \in pool, Mine(b)
        PROVE  Keys' /\ Numbers' /\ BaseKeys' /\ Begun' /\ ChiaKeys'
    BY <1>6, MineKeepsRoster
  <1>7. CASE Resume
    <2>1. /\ Faithful(req) /\ Handle(req) /\ UNCHANGED base /\ req' = None
          /\ nonce[req.c] # 0
      BY <1>7 DEF Resume, RInv, IInv, RequestIsTrue, Begun
    <2> QED BY <2>1, HandleKeepsRoster
  <1>8. CASE Abandon \/ Evict \/ UNCHANGED vars
    <2>1. /\ UNCHANGED <<base, chia, chiaKey, case, strayed>>
          /\ pool' \in {pool, {}} /\ req' \in {req, None}
      BY <1>8 DEF Abandon, Evict, vars, chain, store
    <2> QED BY <2>1, ChiaStays DEF RInv, Begun, base
  <1> QED BY <1>1, <1>2, <1>3, <1>4, <1>5, <1>6, <1>7, <1>8 DEF Next

(* With no case active and no change loose, the completed cases are the    *)
(* converged changes and those Chia completed; the newest of them is the   *)
(* key in force wherever one looks.                                        *)
LEMMA InForce == RInv => RosterIsInForce
  <1> SUFFICES ASSUME RInv, ~Frozen, \A c \in Change : ~Loose(c), NEW k \in Key
               PROVE  Roster(k) = evmKey[k] /\ Roster(k) = chiaKey[k]
    BY DEF RosterIsInForce
  <1>1. Shape /\ EndedAgrees /\ Keys /\ Numbers /\ BaseKeys /\ ChiaKeys
    BY DEF RInv, IInv
  <1>2. \A c \in Change : c \notin strayed BY DEF Loose
  <1>3. ASSUME NEW c \in Change
        PROVE  /\ evm[c] # "executed"
               /\ case[c] = "COMPLETED" <=> evm[c] = "converged"
               /\ case[c] = "COMPLETED" <=> chia[c] = "completed"
    <2>1. case[c] \in {"none", "FAILED", "COMPLETED", "CANCELLED"}
      BY DEF Frozen, Active, Terminal
    <2>2. CASE case[c] \in {"none", "FAILED"} BY <2>2 DEF Loose
    <2>3. CASE case[c] = "COMPLETED" BY <2>3, <1>1, <1>2 DEF EndedAgrees
    <2>4. CASE case[c] = "CANCELLED" BY <2>4, <1>1, <1>2 DEF EndedAgrees
    <2> QED BY <2>1, <2>2, <2>3, <2>4
  <1>4. Completed(k) = Converged(k) BY <1>3 DEF Completed, Converged
  <1>5. Newest(evmKey[k], k) BY <1>1, <1>3 DEF BaseKeys
  <1>6. CASE Completed(k) = {}
    <2>1. Roster(k) = None /\ evmKey[k] = None BY <1>6, <1>4, <1>5 DEF Roster, Newest
    <2>2. chiaKey[k] = None
      <3> SUFFICES ASSUME chiaKey[k] # None PROVE FALSE
        OBVIOUS
      <3>1. chiaKey[k] \in Completed(k)
        BY <1>1, <1>2, <1>3 DEF Keys, ChiaKeys, Completed
      <3> QED BY <3>1, <1>6
    <2> QED BY <2>1, <2>2
  <1>7. CASE Completed(k) # {}
    <2> DEFINE top == evmKey[k]
    <2>1. top \in Completed(k) /\ \A d \in Completed(k) : nonce[d] <= nonce[top]
      BY <1>7, <1>4, <1>5 DEF Newest
    <2>2. /\ Completed(k) \subseteq Change
          /\ \A d \in Completed(k) : /\ nonce[d] \in Nat /\ nonce[d] # 0
                                     /\ evm[d] = "converged" /\ chia[d] = "completed"
                                     /\ Of[d] = k
      BY <1>1, <1>3 DEF Completed, Keys, Numbers
    <2>3. \A d \in Completed(k) : nonce[d] = nonce[top] => d = top
      BY <2>1, <2>2, <1>1 DEF Numbers
    <2> HIDE DEF top
    <2>4. Roster(k) = top
      <3>1. \A c \in Completed(k) : (\A d \in Completed(k) : nonce[d] <= nonce[c]) => c = top
        BY <2>1, <2>2, <2>3
      <3> QED BY <3>1, <2>1, <1>7 DEF Roster
    <2>5. chiaKey[k] \in Completed(k)
      <3>1. chiaKey[k] # None BY <2>1, <2>2, <1>1 DEF ChiaKeys
      <3> QED BY <3>1, <1>1, <1>2, <1>3 DEF Keys, ChiaKeys, Completed
    <2>6. ~(nonce[chiaKey[k]] < nonce[top])
      BY <2>1, <2>2, <2>5, <1>1, <1>2 DEF ChiaKeys
    <2>7. chiaKey[k] = top
      BY <2>1, <2>2, <2>3, <2>5, <2>6
    <2> QED BY <2>4, <2>7 DEF top
  <1> QED BY <1>6, <1>7

(* While privileged writes are not frozen, the administrators derived from *)
(* the completed cases are those of Base and of Chia, for any changes of   *)
(* any keys, however their requests, approvals and bundles interleave.     *)
THEOREM RostersAreInForce == Spec => []RosterIsInForce
  BY InitRoster, NextKeepsRoster, InForce, PTL DEF Spec
=============================================================================
