---------------------------- MODULE MintSubmission ----------------------------
(***************************************************************************)
(* Publication and execution of MINT proposals: the endpoints of           *)
(* solslot_api/mint_endpoints.py, which have ProtocolBundleSubmitter.submit *)
(* sponsor and push one exact transaction and then record it in the        *)
(* proposal and collection databases, and the recovery worker of           *)
(* mint_recovery.py, which records what a lost answer or a crash left      *)
(* unrecorded.                                                             *)
(*                                                                         *)
(* A request is a coroutine of the one API process: the code from one of   *)
(* its awaits to the next is one action, unless it commits to two          *)
(* databases, between which the process may die.                           *)
(***************************************************************************)
EXTENDS FundingJournal

CONSTANTS
  Requests,  \* requests the API serves at the same time
  Caller,    \* Caller[r]: the administrator whose session sends request r
  Owner,     \* Owner[m]: the administrator who proposed m and may publish it
  MaxFaults  \* bound on crashes, lost calls, evictions and foreign till spends

ASSUME OwnerAssumption ==
  Owner \in [Proposals -> Admins] /\ Caller \in [Requests -> Admins]
ASSUME FaultAssumption == MaxFaults \in Nat

Recovery == "recovery"  \* the MintRecoveryWorker of the process
Hands    == Requests \cup {Recovery}

VARIABLES
  row,         \* row[m] of mint_proposals: state and the two recorded bundles
  collection,  \* collection[m]: the bundles mirrored in the deed of m
  job,         \* job[h]: what a request, or the recovery worker, is doing
  page,        \* completions the recovery pass has still to visit
  mempool,     \* MINT bundles in the mempool of the node
  mined,       \* MINT bundles confirmed in a block
  tracker,     \* generation of the governance tracker, proposal open in it
  spentTill,   \* till coins spent by other services
  accepted,    \* history: bundles that were in the mempool at some time
  faults       \* faults so far

nodeVars == <<mempool, mined, tracker, spentTill, accepted>>
vars     == <<journalVars, row, collection, job, page, nodeVars, faults>>

Idle == [pc |-> "idle", original |-> None, bundle |-> None]

Init ==
  /\ JournalInit
  /\ row = [m \in Proposals |-> [state |-> "DRAFT", published |-> None, executed |-> None]]
  /\ collection = [m \in Proposals |-> [published |-> None, executed |-> None]]
  /\ job = [h \in Hands |-> Idle]
  /\ page = {} /\ mempool = {} /\ mined = {} /\ accepted = {} /\ spentTill = {}
  /\ tracker = [tip |-> 0, open |-> None]
  /\ faults = 0

-----------------------------------------------------------------------------
(* The node.                                                                *)

SpentInputs   == UNION {Inputs(b) : b \in mined} \cup {<<"till", c>> : c \in spentTill}
PendingInputs == UNION {Inputs(b) : b \in mempool}

\* The node takes b: its inputs are there, and the tracker is in the state
\* that the bundle was built on.
Spendable(b) ==
  /\ Inputs(b) \cap SpentInputs = {}
  /\ tracker = [tip  |-> b.original.tip,
                open |-> IF b.original.phase = "publish" THEN None ELSE b.original.proposal]

Clear(b) == Spendable(b) /\ Inputs(b) \cap PendingInputs = {}

EnterMempool(b) ==
  /\ mempool'  = mempool \cup {b}
  /\ accepted' = accepted \cup {b}
  /\ UNCHANGED <<mined, tracker, spentTill>>

Include ==
  \E b \in mempool :
    /\ mempool' = mempool \ {b}
    /\ mined'   = mined \cup {b}
    /\ tracker' = [tip  |-> tracker.tip + 1,
                   open |-> IF b.original.phase = "publish" THEN b.original.proposal ELSE None]
    /\ UNCHANGED <<journalVars, row, collection, job, page, spentTill, accepted, faults>>

\* Votes and expiry move the tracker without a sponsored transaction.
Govern ==
  /\ tracker.tip < MaxTip /\ mempool = {}
  /\ \E open \in {tracker.open, None} : tracker' = [tip |-> tracker.tip + 1, open |-> open]
  /\ UNCHANGED <<journalVars, row, collection, job, page, mempool, mined, spentTill, accepted, faults>>

Fault == faults < MaxFaults /\ faults' = faults + 1

\* The mempool forgets a bundle, or another service spends a coin of the till.
Drop ==
  /\ Fault
  /\ \E b \in mempool : mempool' = mempool \ {b}
  /\ UNCHANGED <<journalVars, row, collection, job, page, mined, tracker, spentTill, accepted>>

ForeignSpend ==
  /\ Fault
  /\ \E c \in Till :
       /\ <<"till", c>> \notin SpentInputs \cup PendingInputs
       /\ spentTill' = spentTill \cup {c}
  /\ UNCHANGED <<journalVars, row, collection, job, page, mempool, mined, tracker, accepted>>

-----------------------------------------------------------------------------
(* A request up to the lock of the submitter.                               *)

Databases == <<row, collection>>

Goto(h, pc)    == job' = [job EXCEPT ![h].pc = pc]
Take(h, pc, b) == job' = [job EXCEPT ![h].pc = pc, ![h].bundle = b]
Finish(h)      == job' = [job EXCEPT ![h] = Idle]

\* A step that writes nothing but the job.
Quiet == UNCHANGED <<journalVars, Databases, page, nodeVars, faults>>

Begin(r, o) ==
  /\ job[r].pc = "idle"
  /\ job' = [job EXCEPT ![r] = [pc |-> "waiting", original |-> o, bundle |-> None]]
  /\ Quiet

\* The package is checked against the idle tracker and clear inputs.
BeginPublish(r, m) ==
  /\ Caller[r] = Owner[m] /\ row[m].state = "DRAFT"
  /\ tracker.open = None /\ tracker.tip < MaxTip /\ mempool = {}
  /\ \E s \in Stakes :
       /\ <<"stake", s>> \notin SpentInputs
       /\ Begin(r, [phase |-> "publish", proposal |-> m, tip |-> tracker.tip, stake |-> s])

BeginExecute(r, m) ==
  /\ row[m].state = "PROPOSED"
  /\ tracker.open = m /\ tracker.tip < MaxTip
  /\ Begin(r, [phase |-> "execute", proposal |-> m, tip |-> tracker.tip])

-----------------------------------------------------------------------------
(* ProtocolBundleSubmitter.submit, under its lock.                          *)

Locked == {"funding", "quoted", "reserved", "observing", "pushing", "polling"}

\* The lock is taken and the journal asked for an earlier attempt; if there is
\* one its instructions are confirmed before anything is sent.
Acquire(r) ==
  /\ job[r].pc = "waiting"
  /\ \A c \in Requests : job[c].pc \notin Locked
  /\ \/ Saved(job[r].original) = {} /\ Goto(r, "funding") /\ Quiet
     \/ \E b \in Saved(job[r].original) :
          \/ /\ SaveCompletion(b, Caller[r])
             /\ Take(r, "observing", b)
             /\ UNCHANGED <<Databases, page, nodeVars, faults>>
          \/ ~Instructable(b, Caller[r]) /\ Finish(r) /\ Quiet

FreeTill == {c \in Till : <<"till", c>> \notin SpentInputs \cup PendingInputs} \ ReservedTill

\* Which coin is the smallest that covers the fee depends on the quote.
Fund(r) ==
  /\ job[r].pc = "funding"
  /\ \/ \E c \in FreeTill : Take(r, "quoted", [original |-> job[r].original, fee |-> c])
     \/ FreeTill = {} /\ Finish(r)
  /\ Quiet

SaveFunding(r) ==
  /\ job[r].pc = "quoted"
  /\ \/ /\ Reserve(job[r].bundle)
        /\ Goto(r, "reserved")
        /\ UNCHANGED <<Databases, page, nodeVars, faults>>
     \/ ~Reservable(job[r].bundle) /\ Finish(r) /\ Quiet

\* before_push: the completion is saved before any call that can send.
Instruct(r) ==
  /\ job[r].pc = "reserved"
  /\ SaveCompletion(job[r].bundle, Caller[r])
  /\ Goto(r, "pushing")
  /\ UNCHANGED <<Databases, page, nodeVars, faults>>

OnChain(b) == b \in mempool \cup mined

\* observe_exact_protocol_bundle: accepted, untouched, or spent otherwise.
ObserveSaved(r) ==
  /\ job[r].pc = "observing"
  /\ \/ OnChain(job[r].bundle) /\ Goto(r, "accepted")
     \/ Clear(job[r].bundle) /\ Goto(r, "pushing")
     \/ ~OnChain(job[r].bundle) /\ ~Clear(job[r].bundle) /\ Finish(r)
  /\ Quiet

\* push_tx_confirmed_in_primary_mempool: send, then look for the exact bundle.
Push(r) ==
  /\ job[r].pc = "pushing"
  /\ \/ /\ Clear(job[r].bundle) \/ job[r].bundle \in mempool
        /\ EnterMempool(job[r].bundle)
        /\ Goto(r, "polling")
        /\ UNCHANGED <<journalVars, Databases, page, faults>>
     \/ ~Clear(job[r].bundle) /\ job[r].bundle \notin mempool /\ Finish(r) /\ Quiet

\* The call fails and nobody can tell whether it was delivered.
PushUnanswered(r) ==
  /\ job[r].pc = "pushing" /\ Fault
  /\ Goto(r, "polling")
  /\ \/ Clear(job[r].bundle) /\ EnterMempool(job[r].bundle)
     \/ UNCHANGED nodeVars
  /\ UNCHANGED <<journalVars, Databases, page>>

Poll(r) ==
  /\ job[r].pc = "polling"
  /\ \/ job[r].bundle \in mempool /\ Goto(r, "accepted")
     \/ job[r].bundle \notin mempool /\ Finish(r)
  /\ Quiet

PushAgain(r) ==
  /\ job[r].pc = "polling" /\ Clear(job[r].bundle)
  /\ EnterMempool(job[r].bundle)
  /\ UNCHANGED <<journalVars, Databases, job, page, faults>>

-----------------------------------------------------------------------------
(* Recording, by the request itself or by the recovery worker.              *)

Phase(b) == b.original.phase
Of(b)    == b.original.proposal

Recorded(b) ==
  b = IF Phase(b) = "publish" THEN row[Of(b)].published ELSE row[Of(b)].executed

Recordable(b) ==
  row[Of(b)].state = IF Phase(b) = "publish" THEN "DRAFT" ELSE "PROPOSED"

\* set_published and set_chain_executed.
SetRow(b) ==
  row' = [row EXCEPT ![Of(b)] =
            IF Phase(b) = "publish"
              THEN [state |-> "PROPOSED", published |-> b, executed |-> @.executed]
              ELSE [state |-> "EXECUTED", published |-> @.published, executed |-> b]]

RecordRow_Last(h) ==
  LET b == job[h].bundle IN
  /\ job[h].pc = "accepted" /\ Recordable(b) /\ SetRow(b)
  /\ Goto(h, "mirrored")
  /\ UNCHANGED <<journalVars, collection, page, nodeVars, faults>>

RecordRow_Unmatched(h) ==
  LET b == job[h].bundle IN
  /\ job[h].pc = "accepted" /\ Goto(h, "recorded")
  /\ \/ Recordable(b) /\ SetRow(b)
     \/ ~Recordable(b) /\ UNCHANGED row
  /\ UNCHANGED <<journalVars, collection, page, nodeVars, faults>>

\* A proposal that already holds another transaction is left alone.
RecordRow(h) ==
  LET b == job[h].bundle IN
  /\ job[h].pc = "accepted"
  /\ \/ /\ Recordable(b) /\ SetRow(b)
        /\ Goto(h, "recorded")
        /\ UNCHANGED <<journalVars, collection, page, nodeVars, faults>>
     \/ ~Recordable(b) /\ Recorded(b) /\ Goto(h, "recorded") /\ Quiet
     \/ ~Recordable(b) /\ ~Recorded(b) /\ Finish(h) /\ Quiet

\* record_proposal_publication, record_proposal_execution: the latter finds the
\* deed by the proposal the former has written there, and without one is done.
Mirror(b) ==
  LET deed == collection[Of(b)] IN
  \/ /\ Phase(b) = "publish" /\ deed.published = None
     /\ collection' = [collection EXCEPT ![Of(b)].published = b]
  \/ /\ Phase(b) = "execute" /\ deed.published # None /\ deed.executed = None
     /\ collection' = [collection EXCEPT ![Of(b)].executed = b]
  \/ /\ \/ Phase(b) = "publish" /\ deed.published = b
        \/ Phase(b) = "execute" /\ deed.published = None
        \/ Phase(b) = "execute" /\ deed.executed = b
     /\ UNCHANGED collection

MirrorConflicts(b) ==
  LET deed == collection[Of(b)] IN
  IF Phase(b) = "publish" THEN deed.published \notin {None, b}
                          ELSE deed.published # None /\ deed.executed \notin {None, b}

RecordCollection(h) ==
  LET b == job[h].bundle IN
  /\ job[h].pc = "recorded"
  /\ IF MirrorConflicts(b)
       THEN Finish(h) /\ Quiet
       ELSE /\ Mirror(b) /\ Goto(h, "mirrored")
            /\ UNCHANGED <<journalVars, row, page, nodeVars, faults>>

\* _mark_mint_recorded, and the end of MintRecoveryWorker.reconcile.
MarkRecorded(h) ==
  /\ job[h].pc = "mirrored"
  /\ Complete(job[h].bundle)
  /\ Finish(h)
  /\ UNCHANGED <<Databases, page, nodeVars, faults>>

StartPass_First ==
  /\ job[Recovery].pc = "idle" /\ page = {} /\ PendingCompletions # {}
  /\ page' = {CHOOSE b \in PendingCompletions : TRUE}
  /\ UNCHANGED <<journalVars, Databases, job, nodeVars, faults>>

\* once: a pass visits every completion that was pending when it was read.
StartPass ==
  /\ job[Recovery].pc = "idle" /\ page = {}
  /\ page' = PendingCompletions
  /\ UNCHANGED <<journalVars, Databases, job, nodeVars, faults>>

Visit_Unobserved ==
  /\ job[Recovery].pc = "idle"
  /\ \E b \in page : page' = page \ {b} /\ Take(Recovery, "accepted", b)
  /\ UNCHANGED <<journalVars, Databases, nodeVars, faults>>

Visit ==
  /\ job[Recovery].pc = "idle"
  /\ \E b \in page :
       /\ page' = page \ {b}
       /\ IF OnChain(b) THEN Take(Recovery, "accepted", b) ELSE UNCHANGED job
  /\ UNCHANGED <<journalVars, Databases, nodeVars, faults>>

\* POST /admin/mint/{id}/cancel.
Cancel(m) ==
  /\ row[m].state = "DRAFT"
  /\ row' = [row EXCEPT ![m].state = "CANCELED"]
  /\ UNCHANGED <<journalVars, collection, job, page, nodeVars, faults>>

\* An exception ends a request, or the visit of one completion.
Interrupt(h) ==
  /\ Fault
  /\ job[h].pc # "idle" /\ Finish(h)
  /\ UNCHANGED <<journalVars, Databases, page, nodeVars>>

Crash ==
  /\ Fault
  /\ job' = [h \in Hands |-> Idle] /\ page' = {}
  /\ UNCHANGED <<journalVars, Databases, nodeVars>>

-----------------------------------------------------------------------------
Request(r) ==
  \/ \E m \in Proposals : BeginPublish(r, m) \/ BeginExecute(r, m)
  \/ Acquire(r)      \/ Fund(r) \/ SaveFunding(r)    \/ Instruct(r)
  \/ ObserveSaved(r) \/ Push(r) \/ PushUnanswered(r) \/ Poll(r) \/ PushAgain(r)

Record(h) == RecordRow(h) \/ RecordCollection(h) \/ MarkRecorded(h)

Recover == StartPass \/ Visit

\* Points with no await behind them: nothing else of the process runs there.
Synchronous == {"reserved", "accepted", "recorded", "mirrored"}
LoopIsFree  == \A h \in Hands : job[h].pc \notin Synchronous
Runs(h)     == LoopIsFree \/ job[h].pc \in Synchronous

Node == Include \/ Govern \/ Drop \/ ForeignSpend

Next ==
  \/ \E r \in Requests : Runs(r) /\ Request(r)
  \/ \E h \in Hands : Runs(h) /\ (Record(h) \/ Interrupt(h))
  \/ LoopIsFree /\ (Recover \/ \E m \in Proposals : Cancel(m))
  \/ Crash \/ Node

Spec == Init /\ [][Next]_vars

\* The event loop runs a stretch to its next await, and comes round to the
\* recovery worker, a task of the process.
FairSpec ==
  /\ Spec
  /\ WF_vars(\E r \in Requests : Instruct(r))
  /\ WF_vars(\E h \in Hands : Record(h))
  /\ SF_vars(LoopIsFree /\ Recover)

-----------------------------------------------------------------------------
(* Properties.                                                              *)

Stages == {"idle", "waiting", "accepted", "recorded", "mirrored"} \cup Locked

(* The journal, the databases, the jobs and the node hold values of their  *)
(* kinds, and one at a time is inside the submitter's lock, or between awaits.  *)
TypeOK ==
  /\ funded \subseteq Bundles /\ completed \subseteq funded
  /\ instructions \subseteq [bundle : funded, admin : Admins]
  /\ row \in [Proposals -> [state : {"DRAFT", "PROPOSED", "EXECUTED", "CANCELED"},
                            published : funded \cup {None}, executed : funded \cup {None}]]
  /\ collection \in [Proposals -> [published : funded \cup {None}, executed : funded \cup {None}]]
  /\ \A h \in Hands : job[h] \in
       [pc : Stages, original : Originals \cup {None}, bundle : Bundles \cup {None}]
  /\ \A q, r \in Requests : job[q].pc \in Locked /\ job[r].pc \in Locked => q = r
  /\ \A g, h \in Hands : job[g].pc \in Synchronous /\ job[h].pc \in Synchronous => g = h
  /\ page \subseteq funded
  /\ tracker \in [tip : 0 .. MaxTip, open : Proposals \cup {None}]
  /\ spentTill \subseteq Till /\ faults \in 0 .. MaxFaults

(* Whatever the node was ever given can be recorded without the request    *)
(* that sent it: its bundle and its instructions were saved first          *)
(* (before_push in ProtocolBundleSubmitter.submit).                        *)
SentIsInstructed == \A b \in accepted \cup mempool \cup mined : b \in funded /\ Instructed(b)

(* A proposal is recorded as published or executed only by a transaction   *)
(* the node took (mint_recovery.reconcile, _publish_mint_bundle).          *)
RecordedWasAccepted ==
  \A m \in Proposals : {row[m].published, row[m].executed} \subseteq accepted \cup {None}

(* A completion is closed only when nothing is left to do for it, although *)
(* the three databases are written one after the other: the proposal holds *)
(* that very transaction, and so does the deed of a publication.           *)
CompletedIsRecorded ==
  \A b \in completed :
    Recorded(b) /\ (Phase(b) = "publish" => collection[Of(b)].published = b)

(* The collection never tells of a transaction its proposal does not hold. *)
MirrorAgrees ==
  \A m \in Proposals :
    /\ collection[m].published \in {None, row[m].published}
    /\ collection[m].executed \in {None, row[m].executed}

Rank == [DRAFT |-> 0, CANCELED |-> 1, PROPOSED |-> 1, EXECUTED |-> 2]

(* "Backwards moves are forbidden", and a recorded transaction is never    *)
(* replaced, however requests, retries and recovery passes interleave.     *)
RowsAreFinal ==
  [][\A m \in Proposals :
       /\ row'[m] # row[m] => Rank[row'[m].state] > Rank[row[m].state]
       /\ row[m].published # None => row'[m].published = row[m].published
       /\ row[m].executed # None => row'[m].executed = row[m].executed]_vars

MinedFor(m, phase) == \E b \in mined : Phase(b) = phase /\ Of(b) = m

(* A transaction that was mined is recorded in the end, with the deed of a *)
(* publication, unless its draft was canceled meanwhile: requests may die, *)
(* the recovery worker goes on.                                            *)
MinedIsRecorded ==
  \A m \in Proposals :
    /\ MinedFor(m, "publish") ~> row[m].state # "DRAFT"
    /\ row[m].published \in mined ~> collection[m].published # None
    /\ MinedFor(m, "execute") ~> row[m].state = "EXECUTED"
=============================================================================
