------------------------------ MODULE Genesis ------------------------------
(***************************************************************************)
(* The genesis ceremony: the SQLite ledger of genesis_store.py and the     *)
(* requests of genesis.py and launch_control.py that move it.  Three       *)
(* administrators enroll; one transaction fans the ceremony's nine coins   *)
(* out; a plan is built, signed by the owner and a coadministrator, and    *)
(* its one bundle is broadcast inside a signed time window; the chain      *)
(* confirms it; the artifact is signed and published with a bootstrap      *)
(* lock.  Then the payment rehearsal (launch_rehearsal.py) must succeed    *)
(* before an operational window opens.                                     *)
(*                                                                         *)
(* Nothing keeps two ceremonies from being under way.  A request waits for *)
(* the node, a worker process or the submitter's lock between its reads    *)
(* and its writes; the process may stop at any of those points.            *)
(***************************************************************************)
EXTENDS Integers, FiniteSets

CONSTANTS
    Ceremonies,
    Coadmins,       \* slots 2 and 3; slot 1 is the owner's
    Handlers,       \* requests that can be under way together
    Till,           \* coins of the fee till
    Jobs,           \* payment rehearsals the coordinator can run
    PlanTTL,        \* genesis_plan_ttl_seconds
    Window,         \* launch_gate_max_seconds
    MaxTime,        \* bound on the clock
    MaxPlans,       \* bound on the plans of one ceremony, renewals included
    Confirmations,  \* genesis_chia_confirmations
    MaxPeak,        \* bound on the blocks from the first genesis on
    NoCeremony, NoCoin, NoJob

ASSUME GenesisAssumption ==
    /\ Coadmins \subseteq {2, 3}
    /\ {PlanTTL, Window, Confirmations} \subseteq Nat \ {0}
    /\ {MaxTime, MaxPlans, MaxPeak} \subseteq Nat
    /\ NoCeremony \notin Ceremonies /\ NoCoin \notin Till /\ NoJob \notin Jobs

VARIABLES
    now,            \* seconds
    ceremonies,     \* table ceremonies, with the plan and artifact signatures
    seats,          \* invitations, by ceremony and slot
    gates,          \* launch_gates, row ceremonyBroadcast, with its approvals
    funding,        \* genesis_funding_receipts
    journal,        \* the till coin protocol_funding.py sealed for each bundle
    singleton,      \* genesis_finalization_reservation
    files,          \* the public artifact and the bootstrap lock
    handlers,       \* the requests under way
    mempool,        \* bundles the node holds
    mined,          \* bundles in a block
    height,         \* the block a ceremony's genesis is in, 0 when it is in none
    peak,           \* the last block; counted from the first that held a genesis
    operational,    \* the state of an operational gate: purchases, presale, ...
    rehearsal,      \* launch_settlement_rehearsals
    evidence,       \* the job whose evidence file was written
    remote          \* what the rehearsal coordinator says of each job

launch == <<operational, rehearsal, evidence, remote>>
chain == <<mempool, mined, height, peak>>
ledger == <<ceremonies, seats, gates, funding, journal, singleton, files>>
vars == <<now, ledger, handlers, chain, launch>>

Owner == 1
Slots == {Owner} \cup Coadmins

\* owner_plus_one_approved
OwnerPlusOne(slots) == Owner \in slots /\ slots \cap Coadmins # {}

\* A spend bundle: what it spends of the ceremony, and the till coin that
\* pays its fee.  The funded bytes are the same whenever both are.
Bundle(kind, c, coin) == [kind |-> kind, c |-> c, coin |-> coin]
Conflict(b, d) == b # d /\ (b.coin = d.coin \/ (b.kind = d.kind /\ b.c = d.c))

Kinds == {"fund", "genesis"}
Idle == [at |-> "idle"]
\* The publication and the public file are told apart by the signatures they
\* carry, the lock file by the ceremony it names.
Unbound == {}               \* publication_json IS NULL
NoFile == {}
NoLock == NoCeremony

Init ==
    /\ now = 1
    /\ ceremonies = [c \in Ceremonies |-> [state |-> "none", plan |-> 0, expires |-> 0, signed |-> {},
                       reservation |-> "none", coin |-> NoCoin, planned |-> 0, block |-> 0, artifact |-> {}]]
    /\ seats = [c \in Ceremonies |-> [s \in Slots |-> "open"]]
    /\ gates = [c \in Ceremonies |-> [state |-> "none", opens |-> 0, closes |-> 0, signed |-> {}, snapshot |-> {}]]
    /\ funding = [c \in Ceremonies |-> [state |-> "none", coin |-> NoCoin, signed |-> {}]]
    /\ journal = [c \in Ceremonies |-> [k \in Kinds |-> NoCoin]]
    /\ singleton = [owner |-> NoCeremony, publication |-> Unbound]
    /\ files = [public |-> NoFile, lock |-> NoLock]
    /\ handlers = [h \in Handlers |-> Idle]
    /\ mempool = {} /\ mined = {} /\ height = [c \in Ceremonies |-> 0] /\ peak = 0
    /\ operational = "none"
    /\ rehearsal = [job |-> NoJob, state |-> "NONE"]
    /\ evidence = NoJob
    /\ remote = [j \in Jobs |-> "NONE"]

-----------------------------------------------------------------------------
(* Who may act.                                                            *)

Terminal == {"locked", "abandoned"}

\* current_launch_authority: the enrolled wallets act until a publication or
\* a lock exists; from then on the signed artifact names the administrators
\* of one ceremony, and while it is being published nobody acts.
Finalizing(c) ==
    /\ ceremonies[c].state = "artifact_signed"
    /\ singleton.owner = c /\ singleton.publication # Unbound
Authority(c) == singleton.owner \in {NoCeremony, c} /\ ~Finalizing(c)
MayAct(c, s) == Authority(c) /\ seats[c][s] = "enrolled"

-----------------------------------------------------------------------------
(* Drafts and the roster.                                                  *)

\* create_draft of the operator; claim_or_create_draft makes one only when
\* no other ceremony is active.
CreateDraft(c) ==
    /\ ceremonies[c].state = "none"
    /\ ceremonies' = [ceremonies EXCEPT ![c].state = "draft"]
    /\ UNCHANGED <<now, seats, gates, funding, journal, singleton, files, handlers, chain, launch>>

\* issue_invitation: a slot that is enrolled gets no other link.
Invite(c, s) ==
    /\ ceremonies[c].state \in {"draft", "roster_open"}
    /\ seats[c][s] = "open"
    /\ seats' = [seats EXCEPT ![c][s] = "invited"]
    /\ ceremonies' = [ceremonies EXCEPT ![c].state = "roster_open"]
    /\ UNCHANGED <<now, gates, funding, journal, singleton, files, handlers, chain, launch>>

\* consume_invitation, by a wallet that holds no other slot.
Enroll(c, s) ==
    /\ ceremonies[c].state \in {"draft", "roster_open"}
    /\ seats[c][s] = "invited"
    /\ seats' = [seats EXCEPT ![c][s] = "enrolled"]
    /\ UNCHANGED <<now, ceremonies, gates, funding, journal, singleton, files, handlers, chain, launch>>

FreezeRoster(c) ==
    /\ ceremonies[c].state = "roster_open"
    /\ \A s \in Slots : seats[c][s] = "enrolled"
    /\ ceremonies' = [ceremonies EXCEPT ![c].state = "roster_frozen"]
    /\ UNCHANGED <<now, seats, gates, funding, journal, singleton, files, handlers, chain, launch>>

\* abandon, of the operator or after an approved intent.
Abandon(c) ==
    /\ ceremonies[c].state \in {"draft", "roster_open", "roster_frozen", "planned", "plan_approved"}
    /\ ceremonies' = [ceremonies EXCEPT ![c].state = "abandoned"]
    /\ UNCHANGED <<now, seats, gates, funding, journal, singleton, files, handlers, chain, launch>>

-----------------------------------------------------------------------------
(* The plan.                                                               *)

\* set_plan, of build_guided_plan: the receipt of the fan-out is confirmed.
BuildPlan(c) ==
    /\ ceremonies[c].state = "roster_frozen"
    /\ funding[c].state = "confirmed"
    /\ ceremonies[c].plan < MaxPlans
    /\ ceremonies' = [ceremonies EXCEPT ![c].state = "planned", ![c].plan = @ + 1,
                                        ![c].expires = now + PlanTTL]
    /\ UNCHANGED <<now, seats, gates, funding, journal, singleton, files, handlers, chain, launch>>

\* renew_expired_plan: another expiry and hash; the signatures are deleted.
RenewPlan(c) ==
    /\ ceremonies[c].state \in {"planned", "plan_approved"}
    /\ ceremonies[c].expires <= now
    /\ ceremonies[c].plan < MaxPlans
    /\ ceremonies' = [ceremonies EXCEPT ![c].state = "planned", ![c].plan = @ + 1,
                                        ![c].expires = now + PlanTTL, ![c].signed = {}]
    /\ UNCHANGED <<now, seats, gates, funding, journal, singleton, files, handlers, chain, launch>>

\* add_plan_signature
SignPlan(c, s) ==
    /\ ceremonies[c].state \in {"planned", "plan_approved"}
    /\ now < ceremonies[c].expires
    /\ s \notin ceremonies[c].signed
    /\ LET signed == ceremonies[c].signed \cup {s} IN
       ceremonies' = [ceremonies EXCEPT ![c].signed = signed,
                        ![c].state = IF OwnerPlusOne(signed) THEN "plan_approved" ELSE "planned"]
    /\ UNCHANGED <<now, seats, gates, funding, journal, singleton, files, handlers, chain, launch>>

\* _require_live_plan
LivePlan(c, plan) ==
    /\ ceremonies[c].state = "plan_approved"
    /\ ceremonies[c].plan = plan
    /\ now < ceremonies[c].expires

-----------------------------------------------------------------------------
(* The broadcast gate.                                                     *)

\* propose_gate: any administrator replaces the row, an open one included.
\* The hash covers the window, so that approvals of the same window count.
ProposeGate(c, s) ==
    /\ MayAct(c, s)
    /\ ceremonies[c].state \notin Terminal
    /\ \E closes \in now + 1 .. now + Window :
        gates' = [gates EXCEPT ![c] =
            [state |-> "pending", opens |-> now, closes |-> closes, snapshot |-> {},
             signed |-> IF @.opens = now /\ @.closes = closes THEN @.signed ELSE {}]]
    /\ UNCHANGED <<now, ceremonies, seats, funding, journal, singleton, files, handlers, chain, launch>>

\* approve_launch_action and add_action_approval, of the window on show.  An
\* approval lapses after ten minutes, which takes nothing but a chance away.
ApproveGate(c, s) ==
    /\ MayAct(c, s)
    /\ gates[c].state # "none"
    /\ s \notin gates[c].signed
    /\ gates' = [gates EXCEPT ![c].signed = @ \cup {s}]
    /\ UNCHANGED <<now, ceremonies, seats, funding, journal, singleton, files, handlers, chain, launch>>

\* activate_gate by the owner; upsert_gate keeps who approved.
ActivateGate(c) ==
    /\ MayAct(c, Owner)
    /\ gates[c].state \in {"pending", "open"}
    /\ OwnerPlusOne(gates[c].signed)
    /\ gates' = [gates EXCEPT ![c].state = "open", ![c].snapshot = gates[c].signed]
    /\ UNCHANGED <<now, ceremonies, seats, funding, journal, singleton, files, handlers, chain, launch>>

GateOpen(c) == gates[c].state = "open" /\ gates[c].opens <= now /\ now < gates[c].closes

\* authorized_gate
AuthorizedGate(c) == GateOpen(c) /\ Authority(c) /\ OwnerPlusOne(gates[c].snapshot)

-----------------------------------------------------------------------------
(* The submitter (protocol_submission.py): one lock over everything from   *)
(* the choice of a till coin to the sight of the bundle in the mempool.    *)

HoldsLock == {"sealed", "push"}
LockFree == \A h \in Handlers : handlers[h].at \notin HoldsLock

\* Till coins sealed in the journal or in a reservation that may be replayed
\* (pending_exact_fee_coin_ids).
Taken ==
    {journal[c][k] : c \in Ceremonies, k \in Kinds}
    \cup {ceremonies[c].coin : c \in {d \in Ceremonies : ceremonies[d].state = "broadcast"}}
Unspent(coin) == \A b \in mined \cup mempool : b.coin # coin

Step(h, next) == handlers' = [handlers EXCEPT ![h] = next]
StepOrDrop(h, may, next) == Step(h, IF may THEN next ELSE Idle)

\* submit up to before_push: the saved bundle, or a new one sealed in the
\* journal with a till coin nothing else holds.
Seal(h) ==
    LET x == handlers[h] IN
    /\ x.at = "submit" /\ LockFree
    /\ \/ /\ journal[x.c][x.kind] # NoCoin
          /\ Step(h, [x EXCEPT !.at = "sealed", !.coin = journal[x.c][x.kind]])
          /\ UNCHANGED journal
       \/ /\ journal[x.c][x.kind] = NoCoin
          /\ \E coin \in Till \ Taken :
              /\ Unspent(coin)
              /\ journal' = [journal EXCEPT ![x.c][x.kind] = coin]
              /\ Step(h, [x EXCEPT !.at = "sealed", !.coin = coin])
    /\ UNCHANGED <<now, ceremonies, seats, gates, funding, singleton, files, chain, launch>>

Spendable(b) ==
    /\ b \notin mined /\ \A d \in mined : ~Conflict(b, d)
    /\ b.kind = "genesis" => \E d \in mined : d.kind = "fund" /\ d.c = b.c

\* push_tx_confirmed_in_primary_mempool: the node shows the bundle, or an
\* error leaves open whether it has it.  A saved bundle the chain already
\* confirmed is only observed; a replay pushes it again, and is refused.
Push(h) ==
    LET x == handlers[h]
        b == Bundle(x.kind, x.c, x.coin)
        accepted == {d \in mempool : ~Conflict(b, d)} \cup {b} IN
    /\ x.at = "push"
    /\ \/ b \in mined /\ ~x.replay /\ UNCHANGED mempool /\ Step(h, [x EXCEPT !.at = "record"])
       \/ /\ Spendable(b) /\ (\A d \in mempool : ~Conflict(b, d))
          /\ mempool' = accepted
          /\ Step(h, [x EXCEPT !.at = "record"]) \/ Step(h, Idle)
       \/ Step(h, Idle) /\ UNCHANGED mempool
    /\ UNCHANGED <<now, ledger, mined, height, peak, launch>>

-----------------------------------------------------------------------------
(* The fan-out of the nine funding coins.                                  *)

FundMined(c) == \E b \in mined : b.kind = "fund" /\ b.c = c
GenesisMined(c) == \E b \in mined : b.kind = "genesis" /\ b.c = c

\* prepare_fixed_funding.  While its source coin is unspent a receipt can be
\* prepared again, and falls back to "prepared".
PrepareFunding(c, s) ==
    /\ MayAct(c, s)
    /\ ~FundMined(c)
    /\ funding' = [funding EXCEPT ![c].state = "prepared"]
    /\ UNCHANGED <<now, ceremonies, seats, gates, journal, singleton, files, handlers, chain, launch>>

ApproveFunding(c, s) ==
    /\ MayAct(c, s)
    /\ funding[c].state # "none"
    /\ funding' = [funding EXCEPT ![c].signed = @ \cup {s}]
    /\ UNCHANGED <<now, ceremonies, seats, gates, journal, singleton, files, handlers, chain, launch>>

\* execute_fixed_funding up to the submitter
ExecuteFunding(h, c) ==
    /\ handlers[h] = Idle
    /\ MayAct(c, Owner)
    /\ OwnerPlusOne(funding[c].signed)
    /\ journal[c]["fund"] = NoCoin => ~FundMined(c)
    /\ Step(h, [at |-> "submit", kind |-> "fund", c |-> c, coin |-> NoCoin, replay |-> FALSE,
                known |-> funding[c].coin])
    /\ UNCHANGED <<now, ledger, chain, launch>>

\* Mutant: the receipt is only written after the push.
PreserveFunding_Late(h) ==
    LET x == handlers[h] IN
    /\ x.at = "sealed" /\ x.kind = "fund"
    /\ Step(h, [x EXCEPT !.at = "push"])
    /\ UNCHANGED <<now, ledger, chain, launch>>

\* preserve_before_push
PreserveFunding(h) ==
    LET x == handlers[h]
        kept == x.known \in {NoCoin, x.coin} IN
    /\ x.at = "sealed" /\ x.kind = "fund"
    /\ funding' = IF kept THEN [funding EXCEPT ![x.c].state = "ambiguous", ![x.c].coin = x.coin] ELSE funding
    /\ StepOrDrop(h, kept, [x EXCEPT !.at = "push"])
    /\ UNCHANGED <<now, ceremonies, seats, gates, journal, singleton, files, chain, launch>>

\* The receipt after the push has no guard: a late answer of the node takes
\* a confirmed receipt back to "broadcast".
RecordFunding(h) ==
    LET x == handlers[h] IN
    /\ x.at = "record" /\ x.kind = "fund"
    /\ funding' = [funding EXCEPT ![x.c].state = "broadcast", ![x.c].coin = x.coin]
    /\ Step(h, Idle)
    /\ UNCHANGED <<now, ceremonies, seats, gates, journal, singleton, files, chain, launch>>

\* confirm_fixed_funding: the nine coins are in a block, however young, and
\* unspent.
ConfirmFunding(c, s) ==
    /\ MayAct(c, s)
    /\ funding[c].state # "none"
    /\ FundMined(c) /\ ~GenesisMined(c)
    /\ funding' = [funding EXCEPT ![c].state = "confirmed"]
    /\ UNCHANGED <<now, ceremonies, seats, gates, journal, singleton, files, handlers, chain, launch>>

-----------------------------------------------------------------------------
(* The broadcast.                                                          *)

NoFiles == files.public = NoFile /\ files.lock = NoLock

\* broadcast of an approved plan, up to the submitter: the plan's hash and
\* the gate's window are what the reservation will be held against.
StartBroadcast(h, c) ==
    /\ handlers[h] = Idle
    /\ LivePlan(c, ceremonies[c].plan)
    /\ AuthorizedGate(c)
    /\ NoFiles
    /\ FundMined(c) /\ ~GenesisMined(c)
    /\ Step(h, [at |-> "submit", kind |-> "genesis", c |-> c, coin |-> NoCoin, replay |-> FALSE,
                plan |-> ceremonies[c].plan, opens |-> gates[c].opens, closes |-> gates[c].closes])
    /\ UNCHANGED <<now, ledger, chain, launch>>

SameGate(x) == GateOpen(x.c) /\ gates[x.c].opens = x.opens /\ gates[x.c].closes = x.closes

\* reserve_broadcast, the guards apart: the row and the one-shot slot are
\* written together, or the request ends.
ReserveIf(h, may) ==
    LET x == handlers[h] IN
    /\ x.at = "sealed" /\ x.kind = "genesis"
    /\ ceremonies' = IF may THEN [ceremonies EXCEPT ![x.c].state = "broadcast", ![x.c].reservation = "RESERVED",
                                     ![x.c].coin = x.coin, ![x.c].planned = x.plan]
                     ELSE ceremonies
    /\ singleton' = IF may THEN [singleton EXCEPT !.owner = x.c] ELSE singleton
    /\ StepOrDrop(h, may, [x EXCEPT !.at = "push"])
    /\ UNCHANGED <<now, seats, gates, funding, journal, files, chain, launch>>

\* Mutant: any ceremony takes the one-shot slot.
Reserve_AnyOwner(h) ==
    LET x == handlers[h] IN
    x.at = "sealed" /\ x.kind = "genesis" /\ ReserveIf(h, NoFiles /\ LivePlan(x.c, x.plan) /\ SameGate(x))

\* Mutant: the plan was checked before the request waited for the lock.
Reserve_OldPlan(h) ==
    LET x == handlers[h] IN
    /\ x.at = "sealed" /\ x.kind = "genesis"
    /\ ReserveIf(h, /\ ceremonies[x.c].state \in {"planned", "plan_approved"}
                    /\ SameGate(x) /\ singleton.owner \in {NoCeremony, x.c})

\* reserve_prepared and reserve_broadcast: plan, window and slot are checked
\* again where the row is written.
Reserve(h) ==
    LET x == handlers[h] IN
    /\ x.at = "sealed" /\ x.kind = "genesis"
    /\ ReserveIf(h, /\ NoFiles /\ LivePlan(x.c, x.plan)
                    /\ SameGate(x) /\ singleton.owner \in {NoCeremony, x.c})

\* mark_broadcast
RecordBroadcast(h) ==
    LET x == handlers[h]
        may == ceremonies[x.c].state = "broadcast" IN
    /\ x.at = "record" /\ x.kind = "genesis"
    /\ ceremonies' = IF may THEN [ceremonies EXCEPT ![x.c].reservation = "FINALIZED"] ELSE ceremonies
    /\ Step(h, Idle)
    /\ UNCHANGED <<now, seats, gates, funding, journal, singleton, files, chain, launch>>

\* broadcast again: the reserved bundle, under a window signed for it.
StartReplay(h, c) ==
    /\ handlers[h] = Idle
    /\ ceremonies[c].state = "broadcast" /\ ceremonies[c].reservation = "RESERVED"
    /\ AuthorizedGate(c)
    /\ NoFiles
    /\ Step(h, [at |-> "replay", kind |-> "genesis", c |-> c, coin |-> ceremonies[c].coin, replay |-> TRUE,
                opens |-> gates[c].opens, closes |-> gates[c].closes])
    /\ UNCHANGED <<now, ledger, chain, launch>>

\* reconcile_reserved and authorize_broadcast_reconciliation
Replay(h) ==
    LET x == handlers[h]
        may == /\ ceremonies[x.c].state = "broadcast" /\ ceremonies[x.c].reservation = "RESERVED"
               /\ NoFiles /\ SameGate(x) IN
    /\ x.at = "replay" /\ LockFree
    /\ StepOrDrop(h, may, [x EXCEPT !.at = "push"])
    /\ UNCHANGED <<now, ledger, chain, launch>>

-----------------------------------------------------------------------------
(* Confirmation, artifact, publication.                                    *)

\* What a request sees of the chain while it reads, one coin after the other:
\* the exact reserved spends, and the outputs, in the block of this height.
InBlock(c, block) ==
    Bundle("genesis", c, ceremonies[c].coin) \in mined /\ height[c] = block

\* The chain does not take such a block back.
Final(c) == height[c] > 0 /\ peak - height[c] + 1 >= Confirmations

\* confirm: the row is read, then the spend of every input; all are in one
\* block.
ReadInputs(h, c) ==
    /\ handlers[h] = Idle
    /\ ceremonies[c].state = "broadcast"
    /\ InBlock(c, height[c])
    /\ Step(h, [at |-> "outputs", c |-> c, reservation |-> ceremonies[c].reservation, block |-> height[c]])
    /\ UNCHANGED <<now, ledger, chain, launch>>

\* Every output was created in that block.
ReadOutputs(h) ==
    LET x == handlers[h] IN
    /\ x.at = "outputs"
    /\ StepOrDrop(h, InBlock(x.c, x.block), [x EXCEPT !.at = "peak"])
    /\ UNCHANGED <<now, ledger, chain, launch>>

\* Mutant: one block too many is counted.
ReadPeak_Young(h) ==
    LET x == handlers[h] IN
    /\ x.at = "peak"
    /\ StepOrDrop(h, peak - x.block + 2 >= Confirmations, [x EXCEPT !.at = "confirm"])
    /\ UNCHANGED <<now, ledger, chain, launch>>

\* The peak is read last.  It says how deep the block of that height is, and
\* not that the block is still the one whose coins were read.
ReadPeak(h) ==
    LET x == handlers[h] IN
    /\ x.at = "peak"
    /\ StepOrDrop(h, peak - x.block + 1 >= Confirmations, [x EXCEPT !.at = "confirm"])
    /\ UNCHANGED <<now, ledger, chain, launch>>

\* mark_confirmed, or mark_chain_reconciled_confirmed when the record read
\* before the wait was only RESERVED: the row must still be as it was.
Confirm(h) ==
    LET x == handlers[h]
        may == ceremonies[x.c].state = "broadcast" /\ ceremonies[x.c].reservation = x.reservation IN
    /\ x.at = "confirm"
    /\ ceremonies' = IF may THEN [ceremonies EXCEPT ![x.c].state = "confirmed",
                                       ![x.c].reservation = "FINALIZED", ![x.c].block = x.block]
                     ELSE ceremonies
    /\ Step(h, Idle)
    /\ UNCHANGED <<now, seats, gates, funding, journal, singleton, files, chain, launch>>

\* create_artifact and set_artifact
CreateArtifact(c) ==
    /\ ceremonies[c].state = "confirmed"
    /\ ceremonies' = [ceremonies EXCEPT ![c].state = "artifact_pending"]
    /\ UNCHANGED <<now, seats, gates, funding, journal, singleton, files, handlers, chain, launch>>

\* Mutant: signatures are taken after the publication was bound.
SignArtifact_Late(c, s) ==
    /\ ceremonies[c].state \in {"artifact_pending", "artifact_signed"}
    /\ s \notin ceremonies[c].artifact
    /\ LET signed == ceremonies[c].artifact \cup {s} IN
       ceremonies' = [ceremonies EXCEPT ![c].artifact = signed,
                        ![c].state = IF OwnerPlusOne(signed) THEN "artifact_signed" ELSE "artifact_pending"]
    /\ UNCHANGED <<now, seats, gates, funding, journal, singleton, files, handlers, chain, launch>>

\* add_artifact_signature
SignArtifact(c, s) ==
    /\ ceremonies[c].state \in {"artifact_pending", "artifact_signed"}
    /\ singleton.publication = Unbound
    /\ s \notin ceremonies[c].artifact
    /\ LET signed == ceremonies[c].artifact \cup {s} IN
       ceremonies' = [ceremonies EXCEPT ![c].artifact = signed,
                        ![c].state = IF OwnerPlusOne(signed) THEN "artifact_signed" ELSE "artifact_pending"]
    /\ UNCHANGED <<now, seats, gates, funding, journal, singleton, files, handlers, chain, launch>>

\* finalize: the signatures are read, then a worker process verifies them.
StartFinalize(h, c) ==
    /\ handlers[h] = Idle
    /\ ceremonies[c].state \in {"artifact_signed", "locked"}
    /\ Step(h, [at |-> "verify", c |-> c, signed |-> ceremonies[c].artifact])
    /\ UNCHANGED <<now, ledger, chain, launch>>

\* _exclusive_finalization_lock turns another publication away.
Publishing == {"public", "lock", "locked"}
NobodyPublishes == \A h \in Handlers : handlers[h].at \notin Publishing

\* reserve_finalization: bound once, to the signatures the ledger holds.
BindPublication(h) ==
    LET x == handlers[h]
        may == /\ NobodyPublishes
               /\ x.signed = ceremonies[x.c].artifact
               /\ singleton.owner \in {NoCeremony, x.c}
               /\ singleton.publication \in {Unbound, x.signed} IN
    /\ x.at = "verify"
    /\ singleton' = IF may THEN [owner |-> x.c, publication |-> x.signed] ELSE singleton
    /\ StepOrDrop(h, may, [x EXCEPT !.at = "public"])
    /\ UNCHANGED <<now, ceremonies, seats, gates, funding, journal, files, chain, launch>>

\* _write_exact_evidence: a file is written once and compared afterwards.
WritePublic(h) ==
    LET x == handlers[h]
        may == files.public \in {NoFile, x.signed} IN
    /\ x.at = "public"
    /\ files' = IF may THEN [files EXCEPT !.public = x.signed] ELSE files
    /\ StepOrDrop(h, may, [x EXCEPT !.at = "lock"])
    /\ UNCHANGED <<now, ceremonies, seats, gates, funding, journal, singleton, chain, launch>>

WriteLock(h) ==
    LET x == handlers[h]
        may == files.lock \in {NoLock, x.c} IN
    /\ x.at = "lock"
    /\ files' = IF may THEN [files EXCEPT !.lock = x.c] ELSE files
    /\ StepOrDrop(h, may, [x EXCEPT !.at = "locked"])
    /\ UNCHANGED <<now, ceremonies, seats, gates, funding, journal, singleton, chain, launch>>

\* mark_locked
MarkLocked(h) ==
    LET x == handlers[h] IN
    /\ x.at = "locked"
    /\ ceremonies' = [ceremonies EXCEPT ![x.c].state = "locked"]
    /\ Step(h, Idle)
    /\ UNCHANGED <<now, seats, gates, funding, journal, singleton, files, chain, launch>>

-----------------------------------------------------------------------------
(* The payment rehearsal and the operational windows.                      *)

Running == {"PREPARED", "PAID"}     \* PAID: a wallet or validators are awaited
Order == [PREPARED |-> 0, PAID |-> 1, SUCCEEDED |-> 2, FAILED |-> 2]

\* guided_start_settlement_rehearsal: the coordinator prepares a job.
StartRehearsal(h, c) ==
    /\ handlers[h] = Idle
    /\ ceremonies[c].state = "locked"
    /\ rehearsal.state \in {"NONE", "FAILED"}
    /\ \E j \in Jobs :
        /\ remote[j] = "NONE"
        /\ remote' = [remote EXCEPT ![j] = "PREPARED"]
        /\ Step(h, [at |-> "store", job |-> j, state |-> "PREPARED"])
    /\ UNCHANGED <<now, ledger, chain, operational, rehearsal, evidence>>

\* guided_settlement_rehearsal_status: the coordinator is asked; its answer
\* is stored when it arrives.
PollRehearsal(h) ==
    /\ handlers[h] = Idle
    /\ rehearsal.state \in Running
    /\ Step(h, [at |-> "store", job |-> rehearsal.job, state |-> remote[rehearsal.job]])
    /\ UNCHANGED <<now, ledger, chain, launch>>

\* Mutant: the last answer to arrive is stored.
Admits_Any(job, state) == TRUE

\* set_settlement_rehearsal: another job only replaces a failed one, a
\* completed job stays, a running one does not move back.
Admits(job, state) ==
    IF rehearsal.job # job
    THEN rehearsal.state \in {"NONE", "FAILED"} /\ (rehearsal.state = "FAILED" => state = "PREPARED")
    ELSE /\ rehearsal.state \in {"SUCCEEDED", "FAILED"} => state = rehearsal.state
         /\ state = "FAILED" \/ Order[state] >= Order[rehearsal.state]

\* _store_rehearsal_status: the evidence of a success is on disk, written
\* once, before the row says so.
StoreRehearsal(h) ==
    LET x == handlers[h]
        proved == x.state = "SUCCEEDED" => evidence \in {NoJob, x.job} IN
    /\ x.at = "store"
    /\ evidence' = IF x.state = "SUCCEEDED" /\ proved THEN x.job ELSE evidence
    /\ rehearsal' = IF proved /\ Admits(x.job, x.state) THEN [job |-> x.job, state |-> x.state] ELSE rehearsal
    /\ Step(h, Idle)
    /\ UNCHANGED <<now, ledger, chain, operational, remote>>

\* The coordinator.
RemoteMoves(j) ==
    /\ remote[j] \in Running
    /\ remote' \in {[remote EXCEPT ![j] = s] : s \in {t \in {"PAID", "SUCCEEDED", "FAILED"} : t # remote[j]}}
    /\ UNCHANGED <<now, ledger, handlers, chain, operational, rehearsal, evidence>>

\* activate_gate of purchases, presale or vouchers, require_completed_rehearsal
OpenOperational(c) ==
    /\ MayAct(c, Owner)
    /\ ceremonies[c].state = "locked"
    /\ rehearsal.state = "SUCCEEDED" /\ evidence = rehearsal.job
    /\ operational' = "open"
    /\ UNCHANGED <<now, ledger, handlers, chain, rehearsal, evidence, remote>>

-----------------------------------------------------------------------------
(* The chain, the process and the clock.                                   *)

\* Blocks are counted once one has held a genesis.
Mine(b) ==
    /\ b \in mempool /\ Spendable(b)
    /\ mined' = mined \cup {b}
    /\ mempool' = {d \in mempool : d # b /\ ~Conflict(b, d)}
    /\ \/ b.kind = "fund" /\ UNCHANGED <<height, peak>>
       \/ /\ b.kind = "genesis" /\ peak < MaxPeak
          /\ peak' = peak + 1 /\ height' = [height EXCEPT ![b.c] = peak + 1]
    /\ UNCHANGED <<now, ledger, handlers, launch>>

NextBlock ==
    /\ 0 < peak /\ peak < MaxPeak
    /\ peak' = peak + 1
    /\ UNCHANGED <<now, ledger, handlers, mempool, mined, height, launch>>

\* A reorganisation replaces the last blocks by as many others, fewer than
\* Confirmations of them: what the block of b spent is unspent again.
Reorg(b) ==
    LET gone == {d \in mined : d.c = b.c /\ (d = b \/ (b.kind = "fund" /\ d.kind = "genesis"))} IN
    /\ b \in mined /\ ~Final(b.c)
    /\ mined' = mined \ gone
    /\ mempool' = {d \in mempool : d.kind = "genesis" => d.c # b.c} \cup {b}
    /\ height' = [height EXCEPT ![b.c] = 0]
    /\ UNCHANGED <<now, ledger, handlers, peak, launch>>

Evict(b) ==
    /\ b \in mempool
    /\ mempool' = mempool \ {b}
    /\ UNCHANGED <<now, ledger, handlers, mined, height, peak, launch>>

Crash ==
    /\ \E h \in Handlers : handlers[h] # Idle
    /\ handlers' = [h \in Handlers |-> Idle]
    /\ UNCHANGED <<now, ledger, chain, launch>>

Tick ==
    /\ now < MaxTime
    /\ now' = now + 1
    /\ UNCHANGED <<ledger, handlers, chain, launch>>

-----------------------------------------------------------------------------
Roster == \E c \in Ceremonies :
    \/ CreateDraft(c) \/ FreezeRoster(c) \/ Abandon(c)
    \/ \E s \in Slots : Invite(c, s) \/ Enroll(c, s)
Plan == \E c \in Ceremonies : BuildPlan(c) \/ RenewPlan(c) \/ \E s \in Slots : SignPlan(c, s)
Gate == \E c \in Ceremonies :
    \/ ActivateGate(c)
    \/ \E s \in Slots : ProposeGate(c, s) \/ ApproveGate(c, s)
Fund == \E c \in Ceremonies :
    \/ \E s \in Slots : PrepareFunding(c, s) \/ ApproveFunding(c, s) \/ ConfirmFunding(c, s)
    \/ \E h \in Handlers : ExecuteFunding(h, c)
Publish == \E c \in Ceremonies :
    \/ CreateArtifact(c)
    \/ \E s \in Slots : SignArtifact(c, s)
    \/ \E h \in Handlers : StartFinalize(h, c)
Broadcast == \E h \in Handlers, c \in Ceremonies :
    StartBroadcast(h, c) \/ StartReplay(h, c) \/ ReadInputs(h, c)
Request == \E h \in Handlers :
    \/ Seal(h) \/ PreserveFunding(h) \/ Reserve(h) \/ Replay(h) \/ Push(h)
    \/ RecordFunding(h) \/ RecordBroadcast(h)
    \/ ReadOutputs(h) \/ ReadPeak(h) \/ Confirm(h)
    \/ BindPublication(h) \/ WritePublic(h) \/ WriteLock(h) \/ MarkLocked(h)
Rehearse ==
    \/ \E h \in Handlers : PollRehearsal(h) \/ StoreRehearsal(h) \/ \E c \in Ceremonies : StartRehearsal(h, c)
    \/ \E j \in Jobs : RemoteMoves(j)
    \/ \E c \in Ceremonies : OpenOperational(c)
Chain ==
    \/ \E b \in mempool : Mine(b) \/ Evict(b)
    \/ \E b \in mined : Reorg(b)
    \/ NextBlock

Next == Roster \/ Plan \/ Gate \/ Fund \/ Publish \/ Broadcast \/ Request \/ Rehearse \/ Chain \/ Crash \/ Tick
Spec == Init /\ [][Next]_vars

-----------------------------------------------------------------------------
(* Properties.                                                             *)

Reserved == {"broadcast", "confirmed", "artifact_pending", "artifact_signed", "locked"}

\* One genesis for ever: whatever is retried, replayed, crashed or reorganised,
\* the network only ever sees the one bundle of the one ceremony that took the
\* slot (reserve_broadcast, reconcile_reserved).
OneGenesis ==
    \A b \in mempool \cup mined :
        b.kind = "genesis" => b.c = singleton.owner /\ b = Bundle("genesis", b.c, ceremonies[b.c].coin)

\* What was broadcast is the plan that owner and coadministrator signed: no
\* renewal between the request's read and its reservation gets another one out
\* under old signatures (reserve_broadcast, renew_expired_plan).
BroadcastIsSigned ==
    \A c \in Ceremonies : ceremonies[c].state \in Reserved =>
        ceremonies[c].planned = ceremonies[c].plan /\ OwnerPlusOne(ceremonies[c].signed)

\* The receipt names the funded fan-out before the network can see it, so that
\* a crash never leaves nine coins the ledger does not know
\* (preserve_before_push).
FanOutIsKnown ==
    \A b \in mempool \cup mined : b.kind = "fund" => funding[b.c].coin = b.coin

\* The block a confirmation was read from is not the one that holds the
\* genesis: a reorganisation came between the read of the outputs and the read
\* of the peak (confirm).
Overtaken(c) == height[c] # ceremonies[c].block

\* A confirmed ceremony is on the chain for good, in the very block on record,
\* unless a reorganisation overtook the request that confirmed it (confirm).
ConfirmedIsFinal ==
    \A c \in Ceremonies : ceremonies[c].state \in Reserved \ {"broadcast"} /\ ~Overtaken(c) =>
        Final(c) /\ InBlock(c, ceremonies[c].block)

\* What create_artifact says of every ceremony it lets through, "ceremony must
\* have three Chia confirmations".  The request that confirms can be overtaken.
ArtifactIsFinal ==
    \A c \in Ceremonies :
        ceremonies[c].state \in {"artifact_pending", "artifact_signed", "locked"} => Final(c)

\* The lock is written last: with it on disk the public artifact is too, and
\* both are what the ledger bound, under signatures the ledger still holds
\* (_commit_finalization).
LockSealsArtifact ==
    /\ files.lock # NoLock =>
        /\ files.lock = singleton.owner
        /\ files.public = singleton.publication
        /\ files.public = ceremonies[files.lock].artifact
        /\ OwnerPlusOne(files.public)
    /\ \A c \in Ceremonies : ceremonies[c].state = "locked" => files.lock = c

\* Customers only pay on a rehearsal that succeeded and stays: once a window
\* has opened, the job in the ledger is the one whose evidence was written
\* (require_completed_rehearsal, set_settlement_rehearsal).
RehearsalStands ==
    operational = "open" => rehearsal.state = "SUCCEEDED" /\ evidence = rehearsal.job
=============================================================================
