----------------------------- MODULE KeyChange -----------------------------
(***************************************************************************)
(* Replacing an administrator's key (admin_key_changes.py,                 *)
(* genesis_store.py).  The same change is made on two chains: the recovery *)
(* coordinator on Base and the Authority V3 singleton on Chia.  Neither    *)
(* chain sees the other; the API keeps one case per change, records        *)
(* receipts of what it observes, freezes privileged writes while a case is *)
(* active, and derives the administrators in force from its completed      *)
(* cases.  A request reads the case, waits for the two chains, and writes: *)
(* `req` is one such request between its read and its writes.              *)
(***************************************************************************)
EXTENDS Naturals, FiniteSets

CONSTANTS
    Change,     \* the intents administrators may sign
    Key,        \* what an intent replaces: a slot's daily key or recovery kit
    Of,         \* [Change -> Key]
    Kind,       \* [Change -> {"ROUTINE", "LOST", "RECOVERY_KIT"}]
    MaxVersion, \* bound: the Authority V3 version
    MaxSlips,   \* bound: requests that wait or stop halfway
    None

ASSUME ChangeAssumption ==
    /\ Of \in [Change -> Key]
    /\ Kind \in [Change -> {"ROUTINE", "LOST", "RECOVERY_KIT"}]
    /\ None \notin Change
    /\ MaxVersion \in Nat /\ MaxSlips \in Nat

VARIABLES
    \* the coordinator on Base
    evm, nonce, old, given, evmKey, time,
    \* Authority V3 on Chia, and the bundles pushed to it
    chia, version, last, chiaKey, pool,
    \* the case table with its receipts and approvals, the kit candidates
    case, receipts, seenAt, approvals, tx, candidate,
    \* a request between its read and its writes
    req, slips,
    \* history: changes the API lost sight of on Chia
    strayed

base  == <<evm, nonce, old, given, evmKey, time>>
chain == <<chia, version, last, chiaKey, pool>>
store == <<case, receipts, seenAt, approvals, tx, candidate>>
vars  == <<base, chain, store, req, slips, strayed>>

Terminal == {"COMPLETED", "CANCELLED", "FAILED"}
Active(c) == case[c] \notin Terminal \union {"none"}

Needed(c) == IF Kind[c] = "LOST" THEN {"PEER1", "PEER2", "REPLACEMENT"}
                                 ELSE {"AUTHORITY", "REPLACEMENT"}
Phases == {"PREPARE", "COMPLETE", "CANCEL"}

(* The key in force is named by the change that installed it; None is the  *)
(* key of the genesis artifact.                                            *)
\* Mutant: every ended case counts.
Completed_Ended(k) == {c \in Change : Of[c] = k /\ case[c] \in Terminal}
Completed(k) == {c \in Change : Of[c] = k /\ case[c] = "COMPLETED"}
Roster(k) ==
    IF Completed(k) = {} THEN None
    ELSE CHOOSE c \in Completed(k) : \A d \in Completed(k) : nonce[d] <= nonce[c]

(* Privileged writes are answered 423 while a case is active.              *)
Frozen == \E c \in Change : Active(c)

---------------------------------------------------------------------------
(* Reading a case and the two chains.                                      *)

Pending == \E c \in Change : chia[c] = "pending"

(* What a row says of its progress: everything an execution needs is on    *)
(* record, or the change has reached Chia.                                 *)
Progress(c, rcpts, apprs, hasTx) ==
    [ready |-> "CHIA_PREPARE" \in rcpts /\ Needed(c) \subseteq apprs,
     begun |-> "CHIA_PREPARE" \in rcpts \/ hasTx]

(* _refresh_case_state: the state the case read should be in now.          *)
Refreshed(c, state, progress) ==
    IF state \in Terminal \union {"PARTIAL"} THEN state
    ELSE IF time[c] = 2 THEN "FAILED"
    ELSE IF progress.ready /\ time[c] = 1 THEN "READY"
    ELSE IF progress.begun THEN "SUBMITTED"
    ELSE "AWAITING_APPROVALS"

(* What a request checks of what it reads: the view of a PARTIAL case is   *)
(* the case itself; Chia shows this change pending, or exactly one         *)
(* transition past the preparation on record, whichever change made it; a  *)
(* bundle is built when the intent's old keys are the roster's and the     *)
(* roster's are those of the chain.                                        *)
Builds(c) == old[c] = Roster(Of[c]) /\ \A k \in Key : chiaKey[k] = Roster(k)
Admitted(op, c) ==
    CASE op = "view"     -> case[c] # "PARTIAL"
      [] op = "evm"      -> TRUE
      [] op = "chia"     -> \/ chia[c] = "pending"
                            \/ /\ ~Pending /\ "CHIA_PREPARE" \in receipts[c]
                               /\ version = seenAt[c] + 1
      [] op = "PREPARE"  -> Builds(c) /\ ~Pending
      [] op = "CANCEL"   -> Builds(c) /\ chia[c] = "pending"
      [] op = "COMPLETE" -> Builds(c) /\ chia[c] = "pending" /\ time[c] # 0
Ops == {"view", "evm", "chia"} \union Phases

(* What a request keeps of what it read: the case, the two chains.         *)
Snapshot(op, c) ==
    [op |-> op, c |-> c,
     receipts |-> IF op \in {"evm", "chia"} THEN receipts[c] ELSE {},
     row  |-> IF op = "view"
              THEN [state |-> case[c],
                    progress |-> Progress(c, receipts[c], approvals[c], tx[c])]
              ELSE None,
     chia |-> IF op = "chia"
              THEN [pending |-> chia[c] = "pending", last |-> last]
              ELSE None,
     version |-> IF op \in {"view", "evm"} THEN 0 ELSE version]

(* update_recovery_case: a terminal case is never rewritten.               *)
Write(c, state) ==
    case' = IF case[c] \in Terminal THEN case ELSE [case EXCEPT ![c] = state]

(* A request that waits, or stops between two transactions.                *)
Slip == slips < MaxSlips /\ slips' = slips + 1

(* A change's end takes the slot's pending kit candidate along, unless the *)
(* process stops between the two.                                          *)
PendingKit(c) == {d \in Change : Of[d] = Of[c] /\ candidate[d] = "PENDING"}
MoveKit(kits, state) ==
    candidate' = [d \in Change |-> IF d \in kits THEN state ELSE candidate[d]]
Follow(c, state) ==
    LET kits == CASE Kind[c] # "RECOVERY_KIT" \/ case[c] \in Terminal \ {state} -> {}
                  [] state \in {"FAILED", "CANCELLED"} -> PendingKit(c)
                  [] state = "COMPLETED" -> PendingKit(c) \intersect {c}
                  [] OTHER -> {}
    IN  \/ /\ MoveKit(kits, IF state = "COMPLETED" THEN "ACTIVATED" ELSE "CANCELLED")
           /\ UNCHANGED slips
        \/ kits # {} /\ Slip /\ UNCHANGED candidate

---------------------------------------------------------------------------
Init ==
    /\ evm = [c \in Change |-> "none"] /\ nonce = [c \in Change |-> 0]
    /\ old = [c \in Change |-> None] /\ given = [c \in Change |-> {}]
    /\ evmKey = [k \in Key |-> None]
    /\ time = [c \in Change |-> 0]
    /\ chia = [c \in Change |-> "none"] /\ version = 0
    /\ last = None /\ chiaKey = [k \in Key |-> None] /\ pool = {}
    /\ case = [c \in Change |-> "none"]
    /\ receipts = [c \in Change |-> {}] /\ seenAt = [c \in Change |-> 0]
    /\ approvals = [c \in Change |-> {}] /\ tx = [c \in Change |-> FALSE]
    /\ candidate = [c \in Change |-> "none"]
    /\ req = None /\ slips = 0 /\ strayed = {}

---------------------------------------------------------------------------
(* Base: what the coordinator does, as the API's observations rely on it.  *)

ChangeActive ==
    \E c \in Change : evm[c] = "executed" \/ (evm[c] = "prepared" /\ time[c] < 2)

ChangeNonce == Cardinality({c \in Change : nonce[c] # 0})

(* The intent is built from the roster and signed; the coordinator accepts *)
(* it when no other change is active and the old key is the one in force.  *)
PrepareEvm(c) ==
    /\ evm[c] = "none" /\ ~ChangeActive
    /\ Roster(Of[c]) = evmKey[Of[c]]
    /\ Kind[c] = "RECOVERY_KIT" => candidate[c] = "PENDING"
    /\ evm' = [evm EXCEPT ![c] = "prepared"]
    /\ nonce' = [nonce EXCEPT ![c] = ChangeNonce + 1]
    /\ old' = [old EXCEPT ![c] = evmKey[Of[c]]]
    /\ UNCHANGED <<given, evmKey, time, chain, store, req, slips, strayed>>

(* The last approval the coordinator waits for: fewer enable nothing.      *)
Approve(c) ==
    /\ evm[c] = "prepared" /\ given[c] = {}
    /\ given' = [given EXCEPT ![c] = Needed(c)]
    /\ UNCHANGED <<evm, nonce, old, evmKey, time, chain, store, req, slips, strayed>>

Veto(c) ==
    /\ evm[c] = "prepared"
    /\ evm' = [evm EXCEPT ![c] = "vetoed"]
    /\ UNCHANGED <<nonce, old, given, evmKey, time, chain, store, req, slips, strayed>>

(* executeEvmKeyChange is permissionless after the delay.                  *)
ExecuteEvm(c) ==
    /\ evm[c] = "prepared" /\ time[c] = 1 /\ given[c] = Needed(c)
    /\ evm' = [evm EXCEPT ![c] = "executed"]
    /\ evmKey' = [evmKey EXCEPT ![Of[c]] = c]
    /\ UNCHANGED <<nonce, old, given, time, chain, store, req, slips, strayed>>

(* The root Safe signs the convergence the API packaged for it, and the    *)
(* rollback bound to the Chia cancellation.                                *)
Converge(c) ==
    /\ evm[c] = "executed" /\ Active(c)
    /\ {"CHIA_COMPLETE", "EVM_EXECUTE"} \subseteq receipts[c]
    /\ evm' = [evm EXCEPT ![c] = "converged"]
    /\ UNCHANGED <<nonce, old, given, evmKey, time, chain, store, req, slips, strayed>>

ApproveRollback(c) ==
    /\ evm[c] = "executed" /\ Active(c)
    /\ {"CHIA_CANCEL", "EVM_EXECUTE"} \subseteq receipts[c]
    /\ given' = [given EXCEPT ![c] = @ \union {"ROLLBACK"}]
    /\ UNCHANGED <<evm, nonce, old, evmKey, time, chain, store, req, slips, strayed>>

ExecuteRollback(c) ==
    /\ evm[c] = "executed" /\ "ROLLBACK" \in given[c]
    /\ evm' = [evm EXCEPT ![c] = "rolledBack"]
    /\ evmKey' = [evmKey EXCEPT ![Of[c]] = old[c]]
    /\ UNCHANGED <<nonce, old, given, time, chain, store, req, slips, strayed>>

(* The delay ends, then the execution window; time stops being read at the *)
(* change's end.                                                           *)
Tick(c) ==
    /\ evm[c] # "none" /\ time[c] < 2
    /\ evm[c] = "prepared" \/ Active(c)
    /\ time' = [time EXCEPT ![c] = @ + 1]
    /\ UNCHANGED <<evm, nonce, old, given, evmKey, chain, store, req, slips, strayed>>

(* Chia: a pushed bundle spends the authority coin of its version.         *)
Mine(b) ==
    /\ b \in pool /\ b.version = version /\ version < MaxVersion
    /\ chia' = [chia EXCEPT ![b.c] = CASE b.phase = "PREPARE"  -> "pending"
                                       [] b.phase = "COMPLETE" -> "completed"
                                       [] b.phase = "CANCEL"   -> "cancelled"]
    /\ chiaKey' = IF b.phase = "COMPLETE"
                  THEN [chiaKey EXCEPT ![Of[b.c]] = b.c] ELSE chiaKey
    /\ version' = version + 1 /\ last' = b.phase
    /\ pool' = {}
    /\ strayed' = IF b.phase = "PREPARE" /\ chia[b.c] # "none"
                  THEN strayed \union {b.c} ELSE strayed
    /\ UNCHANGED <<base, store, req, slips>>

---------------------------------------------------------------------------
(* The API.                                                                *)

(* complete_recovery_drill for a slot that already has a kit.              *)
Drill(c) ==
    /\ Kind[c] = "RECOVERY_KIT" /\ candidate[c] = "none"
    /\ \A d \in Change : Of[d] = Of[c] => candidate[d] # "PENDING"
    /\ candidate' = [candidate EXCEPT ![c] = "PENDING"]
    /\ UNCHANGED <<base, chain, case, receipts, seenAt, approvals, tx, req, slips, strayed>>

(* POST /submit: _record_prepared_case.                                    *)
RecordPrepared(c) ==
    /\ evm[c] # "none" /\ nonce[c] = ChangeNonce
    /\ Roster(Of[c]) = old[c]
    /\ Kind[c] = "RECOVERY_KIT" => candidate[c] = "PENDING"
    /\ ~Frozen /\ case[c] = "none"
    /\ case' = [case EXCEPT ![c] = "AWAITING_APPROVALS"]
    /\ UNCHANGED <<base, chain, receipts, seenAt, approvals, tx, candidate, req, slips,
                   strayed>>

(* GET /{case_id}: the view writes the refreshed state of the case it read *)
(* before it asked the chains.                                             *)
View(r) ==
    LET state == Refreshed(r.c, r.row.state, r.row.progress)
    IN  /\ r.op = "view" /\ state # r.row.state
        /\ case[r.c] \in Terminal => case[r.c] = state
        /\ Write(r.c, state)
        /\ Follow(r.c, state)
        /\ UNCHANGED <<receipts, seenAt, approvals, tx, strayed>>

(* POST /evm/observe, an approval of the change or of its rollback.        *)
ObserveApproval(r) ==
    /\ r.op = "evm" /\ Active(r.c)
    /\ \E new \in {Needed(r.c), {"ROLLBACK"}} :
         LET apprs == approvals[r.c] \union new
             state == Refreshed(r.c, case[r.c], Progress(r.c, receipts[r.c], apprs, tx[r.c]))
         IN  /\ new \subseteq given[r.c] \ approvals[r.c]
             /\ "ROLLBACK" \in new => "CHIA_CANCEL" \in r.receipts
             /\ approvals' = [approvals EXCEPT ![r.c] = apprs]
             /\ Write(r.c, state)
             /\ Follow(r.c, state)
    /\ UNCHANGED <<receipts, seenAt, tx, strayed>>

(* _record_receipt_once: the case read decides whether the receipt is new, *)
(* the table whether a new one can be added; the receipts the rest of the  *)
(* request works with are the table's if it was added.                     *)
Recordable(r, receipt) == receipt \in r.receipts \/ receipt \notin receipts[r.c]
WithReceipt(r, receipt) ==
    IF receipt \in r.receipts THEN r.receipts ELSE receipts[r.c] \union {receipt}
RecordReceipt(r, receipt) == receipts' = [receipts EXCEPT ![r.c] = @ \union {receipt}]

(* POST /evm/observe, an event of the coordinator: its receipt, then in a  *)
(* second transaction the state, unless the process stops between.         *)
EvmEvent(c) ==
    (IF evm[c] \in {"executed", "converged", "rolledBack"} THEN {"EVM_EXECUTE"} ELSE {})
    \union (IF evm[c] = "vetoed" THEN {"EVM_CANCEL"} ELSE {})
    \union (IF evm[c] = "rolledBack" THEN {"EVM_ROLLBACK"} ELSE {})
    \union (IF evm[c] = "converged" THEN {"EVM_COMPLETE"} ELSE {})

\* Mutant: a veto on Base alone cancels.
EvmState_VetoCancels(event, rcpts) ==
    CASE event = "EVM_EXECUTE"  -> "PARTIAL"
      [] event = "EVM_COMPLETE" -> "COMPLETED"
      [] OTHER                  -> "CANCELLED"
EvmState(event, rcpts) ==
    CASE event = "EVM_EXECUTE"  -> "PARTIAL"
      [] event = "EVM_COMPLETE" -> "COMPLETED"
      [] event = "EVM_CANCEL"   ->
            IF "CHIA_PREPARE" \notin rcpts \/ "CHIA_CANCEL" \in rcpts
            THEN "CANCELLED" ELSE "PARTIAL"
      [] event = "EVM_ROLLBACK" ->
            IF "CHIA_CANCEL" \in rcpts THEN "CANCELLED" ELSE "PARTIAL"

ObserveEvm(r) ==
    /\ r.op = "evm"
    /\ \E event \in EvmEvent(r.c) :
         LET state == EvmState(event, WithReceipt(r, event))
         IN  /\ Recordable(r, event)
             /\ event = "EVM_COMPLETE" => "CHIA_COMPLETE" \in r.receipts
             /\ RecordReceipt(r, event)
             /\ \/ /\ Write(r.c, state)
                   /\ Follow(r.c, state)
                   /\ strayed' = IF /\ case'[r.c] # case[r.c]
                                    /\ state = "CANCELLED"
                                    /\ "CHIA_PREPARE" \notin WithReceipt(r, event)
                                 THEN strayed \union {r.c} ELSE strayed
                \/ Slip /\ UNCHANGED <<case, candidate, strayed>>
    /\ UNCHANGED <<seenAt, approvals, tx>>

(* POST /chia/observe while Authority V3 is pending.                       *)
ObserveChiaPending(r) ==
    LET rcpts == WithReceipt(r, "CHIA_PREPARE")
        state == Refreshed(r.c, "SUBMITTED", Progress(r.c, rcpts, approvals[r.c], TRUE))
    IN  /\ r.op = "chia" /\ r.chia.pending
        /\ Recordable(r, "CHIA_PREPARE")
        /\ "CHIA_PREPARE" \in receipts[r.c] => seenAt[r.c] = r.version
        /\ RecordReceipt(r, "CHIA_PREPARE")
        /\ seenAt' = [seenAt EXCEPT ![r.c] = r.version]
        /\ \/ /\ Write(r.c, state)
              /\ tx' = [tx EXCEPT ![r.c] = case[r.c] \notin Terminal \/ @]
              /\ Follow(r.c, state)
           \/ Slip /\ UNCHANGED <<case, tx, candidate>>
        /\ UNCHANGED <<approvals, strayed>>

(* POST /chia/observe after the pending state.                             *)
ObserveChiaEnd(r) ==
    LET receipt == IF r.chia.last = "COMPLETE" THEN "CHIA_COMPLETE" ELSE "CHIA_CANCEL"
        rcpts   == WithReceipt(r, receipt)
        state   == IF /\ receipt = "CHIA_CANCEL"
                      /\ {"EVM_CANCEL", "EVM_ROLLBACK"} \intersect rcpts # {}
                   THEN "CANCELLED" ELSE "PARTIAL"
    IN  /\ r.op = "chia" /\ ~r.chia.pending
        /\ Recordable(r, receipt)
        /\ RecordReceipt(r, receipt)
        /\ \/ /\ Write(r.c, state)
              /\ tx' = [tx EXCEPT ![r.c] = case[r.c] \notin Terminal \/ @]
              /\ Follow(r.c, state)
           \/ Slip /\ UNCHANGED <<case, tx, candidate>>
        /\ UNCHANGED <<seenAt, approvals, strayed>>

(* POST /chia/submit: the bundle is built for the authority coin the       *)
(* snapshot showed, pushed, and the case becomes SUBMITTED.                *)
SubmitChia(r) ==
    /\ r.op \in Phases /\ r.version = version
    /\ \A b \in pool : b.version # version
    /\ pool' = pool \union {[c |-> r.c, phase |-> r.op, version |-> version]}
    /\ \/ /\ Write(r.c, "SUBMITTED") /\ UNCHANGED slips
          /\ tx' = [tx EXCEPT ![r.c] = case[r.c] \notin Terminal \/ @]
       \/ Slip /\ UNCHANGED <<case, tx>>
    /\ UNCHANGED <<chia, version, last, chiaKey, receipts, seenAt, approvals,
                   candidate, strayed>>

Handle(r) ==
    \/ /\ View(r) \/ ObserveApproval(r) \/ ObserveEvm(r)
          \/ ObserveChiaPending(r) \/ ObserveChiaEnd(r)
       /\ UNCHANGED chain
    \/ SubmitChia(r)

(* A request for an ended case writes nothing.  Any other is served without *)
(* interleaving, or reads now and resumes later.                           *)
Serve(c) ==
    /\ Active(c)
    /\ \E op \in Ops : Admitted(op, c) /\ Handle(Snapshot(op, c))
    /\ UNCHANGED <<base, req>>

Read(c) ==
    /\ Active(c) /\ req = None /\ Slip
    /\ \E op \in Ops : Admitted(op, c) /\ req' = Snapshot(op, c)
    /\ UNCHANGED <<base, chain, store, strayed>>

Resume ==
    /\ req # None /\ req' = None
    /\ Handle(req)
    /\ UNCHANGED base

(* The request ends without writing: an answer it refuses, or a restart.   *)
Abandon ==
    /\ req # None /\ req' = None
    /\ UNCHANGED <<base, chain, store, slips, strayed>>

(* A pushed bundle may leave the mempool unmined.                          *)
Evict ==
    /\ pool # {} /\ pool' = {}
    /\ UNCHANGED <<base, chia, version, last, chiaKey, store, req, slips, strayed>>

Next ==
    \/ \E c \in Change :
         \/ PrepareEvm(c) \/ Approve(c) \/ Veto(c) \/ ExecuteEvm(c)
         \/ Converge(c) \/ ApproveRollback(c) \/ ExecuteRollback(c) \/ Tick(c)
         \/ Drill(c) \/ RecordPrepared(c) \/ Serve(c) \/ Read(c)
    \/ \E b \in pool : Mine(b)
    \/ Resume \/ Abandon \/ Evict

Spec == Init /\ [][Next]_vars

---------------------------------------------------------------------------
(* The two chains and the cases.                                           *)

(* An ended change ended the same way on both chains: a COMPLETED case's   *)
(* key is installed on Base and on Chia, a CANCELLED one's on neither.     *)
(* The observation after the pending state (_observe_chia_case) identifies *)
(* the change by one version step alone, never by its intent.  Left out:   *)
(* the changes canceled before their Chia preparation was on record, or    *)
(* prepared again on Chia (README, section 7).                             *)
EndedAgrees ==
    \A c \in Change \ strayed :
      /\ case[c] = "COMPLETED" => evm[c] = "converged" /\ chia[c] = "completed"
      /\ case[c] = "CANCELLED" => /\ evm[c] \in {"vetoed", "rolledBack"}
                                  /\ chia[c] = "cancelled"

(* What a change did to a chain without a case that answers for it.        *)
Loose(c) ==
    \/ c \in strayed
    \/ /\ case[c] \in {"none", "FAILED"}
       /\ evm[c] \in {"executed", "converged"} \/ chia[c] \in {"pending", "completed"}

(* While privileged writes are not frozen, the administrators the API      *)
(* derives from its completed cases (current_artifact_admins,              *)
(* _current_recovery_identities) are those both chains have in force.      *)
RosterIsInForce ==
    ~Frozen /\ (\A c \in Change : ~Loose(c)) =>
      \A k \in Key : Roster(k) = evmKey[k] /\ Roster(k) = chiaKey[k]

=============================================================================
