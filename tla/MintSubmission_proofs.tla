------------------------ MODULE MintSubmission_proofs ------------------------
(***************************************************************************)
(* Safety of MINT submission for every number of requests, proposals,      *)
(* administrators, coins and faults.                                       *)
(*                                                                         *)
(* The properties rest on three layers, each inductive on top of the one   *)
(* before it: Typed; Journaled, that what a hand is about to send, or to   *)
(* record, is in the journal with its instructions; and Recording, that    *)
(* the three databases are written in the order row, deed, completion,     *)
(* whoever writes them.                                                    *)
(***************************************************************************)
EXTENDS MintSubmission, TLAPS

States == {"DRAFT", "PROPOSED", "EXECUTED", "CANCELED"}

JobTyped ==
  /\ job \in [Hands -> [pc : Stages, original : Originals \cup {None},
                        bundle : Bundles \cup {None}]]
  /\ \A h \in Hands : job[h].pc \in {"waiting", "funding"} => job[h].original \in Originals
  /\ \A h \in Hands : job[h].pc \notin {"idle", "waiting", "funding"} => job[h].bundle \in Bundles

RowTyped ==
  row \in [Proposals -> [state : States, published : Bundles \cup {None},
                         executed : Bundles \cup {None}]]

DeedTyped ==
  collection \in [Proposals -> [published : Bundles \cup {None}, executed : Bundles \cup {None}]]

TrackerTyped == tracker.tip \in Nat

Typed ==
  /\ funded \subseteq Bundles /\ page \subseteq funded
  /\ JobTyped /\ RowTyped /\ DeedTyped /\ TrackerTyped

Sending   == {"observing", "pushing", "polling"}
Accepting == {"accepted", "recorded", "mirrored"}

\* What a hand holds from the moment it is saved, and from the answer on.
HandJournaled(h) ==
  /\ job[h].pc = "reserved" => job[h].bundle \in funded
  /\ job[h].pc \in Sending => job[h].bundle \in funded /\ Instructed(job[h].bundle)
  /\ job[h].pc \in Accepting => job[h].bundle \in accepted

NodeJournaled ==
  /\ accepted \subseteq funded
  /\ mempool \subseteq accepted /\ mined \subseteq accepted
  /\ \A b \in accepted : Instructed(b)

Journaled == NodeJournaled /\ \A h \in Hands : HandJournaled(h)

\* A draft has no transaction, a publication is recorded before an execution.
RowShape ==
  \A m \in Proposals :
    /\ row[m].state \in {"DRAFT", "CANCELED"} => row[m].published = None
    /\ row[m].state # "EXECUTED" => row[m].executed = None

Mirrored(b) == Phase(b) = "publish" => collection[Of(b)].published = b

HandRecording(h) ==
  /\ job[h].pc \in {"recorded", "mirrored"} => Recorded(job[h].bundle)
  /\ job[h].pc = "mirrored" => Mirrored(job[h].bundle)

Recording ==
  /\ RowShape /\ RecordedWasAccepted /\ MirrorAgrees
  /\ completed \subseteq accepted /\ CompletedIsRecorded
  /\ \A h \in Hands : HandRecording(h)

IInv == Typed /\ Journaled /\ Recording

-----------------------------------------------------------------------------
USE DEF journalVars, nodeVars, Databases

-----------------------------------------------------------------------------
(* Typing.                                                                  *)

LEMMA TypedInit == Init => Typed
  BY DEF Init, JournalInit, Typed, JobTyped, RowTyped, DeedTyped, TrackerTyped,
     Idle, States, Stages, Locked, Hands

\* The three ways a job changes.
LEMMA GotoTyped ==
  ASSUME JobTyped, NEW h \in Hands, NEW pc \in Stages, Goto(h, pc),
         pc \in {"waiting", "funding"} => job[h].original \in Originals,
         pc \notin {"idle", "waiting", "funding"} => job[h].bundle \in Bundles
  PROVE  JobTyped'
<1>1. job' = [job EXCEPT ![h] = [job[h] EXCEPT !.pc = pc]]
  BY DEF Goto
<1>2. [job[h] EXCEPT !.pc = pc] \in
        [pc : Stages, original : Originals \cup {None}, bundle : Bundles \cup {None}]
  BY DEF JobTyped
<1> QED
  BY <1>1, <1>2 DEF JobTyped

LEMMA TakeTyped ==
  ASSUME JobTyped, NEW h \in Hands, NEW pc \in Stages \ {"waiting", "funding"},
         NEW b \in Bundles, Take(h, pc, b)
  PROVE  JobTyped'
<1>1. job' = [job EXCEPT ![h] = [job[h] EXCEPT !.pc = pc, !.bundle = b]]
  BY DEF Take
<1>2. [job[h] EXCEPT !.pc = pc, !.bundle = b] \in
        [pc : Stages, original : Originals \cup {None}, bundle : Bundles \cup {None}]
  BY DEF JobTyped
<1> QED
  BY <1>1, <1>2 DEF JobTyped

LEMMA FinishTyped ==
  ASSUME JobTyped, NEW h \in Hands, Finish(h)
  PROVE  JobTyped'
  BY DEF JobTyped, Finish, Idle, Stages

LEMMA BeginTyped ==
  ASSUME JobTyped, NEW r \in Requests, NEW o \in Originals, Begin(r, o)
  PROVE  JobTyped'
  BY DEF JobTyped, Begin, Hands, Stages

LEMMA StageNames ==
  Stages = {"idle", "waiting", "accepted", "recorded", "mirrored", "funding", "quoted",
            "reserved", "observing", "pushing", "polling"}
  BY DEF Stages, Locked

LEMMA RequestTyped ==
  ASSUME Typed, NEW r \in Requests, Request(r)
  PROVE  Typed'
<1> USE StageNames DEF Typed, Quiet, Hands
<1>1. ASSUME NEW m \in Proposals, BeginPublish(r, m) \/ BeginExecute(r, m)
      PROVE  Typed'
  <2>1. tracker.tip \in 0 .. MaxTip - 1
    BY <1>1, TipAssumption DEF BeginPublish, BeginExecute, TrackerTyped
  <2>2. PICK o \in Originals : Begin(r, o)
    BY <1>1, <2>1 DEF BeginPublish, BeginExecute, Originals
  <2> QED
    BY <2>2, BeginTyped DEF Begin, RowTyped, DeedTyped, TrackerTyped
<1>2. ASSUME Acquire(r)
      PROVE  Typed'
  <2>1. JobTyped'
    <3>1. CASE Goto(r, "funding")
      BY <1>2, <3>1, GotoTyped DEF Acquire, JobTyped
    <3>2. ASSUME NEW b \in Saved(job[r].original), Take(r, "observing", b)
          PROVE  JobTyped'
      BY <3>2, TakeTyped DEF Saved
    <3> QED
      BY <1>2, <3>1, <3>2, FinishTyped DEF Acquire
  <2> QED
    BY <1>2, <2>1 DEF Acquire, SaveCompletion, RowTyped, DeedTyped, TrackerTyped
<1>3. ASSUME Fund(r)
      PROVE  Typed'
  <2>1. ASSUME NEW c \in FreeTill, Take(r, "quoted", [original |-> job[r].original, fee |-> c])
        PROVE  JobTyped'
    <3>1. [original |-> job[r].original, fee |-> c] \in Bundles
      BY <1>3 DEF Fund, JobTyped, FreeTill, Bundles
    <3> QED
      BY <2>1, <3>1, TakeTyped
  <2> QED
    BY <1>3, <2>1, FinishTyped DEF Fund, RowTyped, DeedTyped, TrackerTyped
<1>4. ASSUME SaveFunding(r)
      PROVE  Typed'
  <2>1. job[r].bundle \in Bundles
    BY <1>4 DEF SaveFunding, JobTyped
  <2>2. JobTyped'
    BY <1>4, <2>1, GotoTyped, FinishTyped DEF SaveFunding
  <2> QED
    BY <1>4, <2>1, <2>2 DEF SaveFunding, Reserve, RowTyped, DeedTyped, TrackerTyped
<1>5. ASSUME Instruct(r) \/ ObserveSaved(r) \/ Push(r) \/ PushUnanswered(r) \/ Poll(r)
      PROVE  Typed'
  <2>1. job[r].bundle \in Bundles
    BY <1>5 DEF Instruct, ObserveSaved, Push, PushUnanswered, Poll, JobTyped
  <2>2. JobTyped'
    BY <1>5, <2>1, GotoTyped, FinishTyped DEF Instruct, ObserveSaved, Push, PushUnanswered, Poll
  <2> QED
    BY <1>5, <2>2 DEF Instruct, SaveCompletion, ObserveSaved, Push, PushUnanswered, EnterMempool,
       Fault, Poll, RowTyped, DeedTyped, TrackerTyped
<1>6. ASSUME PushAgain(r)
      PROVE  Typed'
  BY <1>6 DEF PushAgain, EnterMempool, JobTyped, RowTyped, DeedTyped, TrackerTyped
<1> QED
  BY <1>1, <1>2, <1>3, <1>4, <1>5, <1>6 DEF Request

LEMMA RecordTyped ==
  ASSUME Typed, NEW h \in Hands, Record(h) \/ Interrupt(h)
  PROVE  Typed'
<1> USE StageNames DEF Typed, Quiet
<1>1. ASSUME RecordRow(h)
      PROVE  Typed'
  <2>1. job[h].bundle \in Bundles
    BY <1>1 DEF RecordRow, JobTyped
  <2>2. JobTyped'
    BY <1>1, <2>1, GotoTyped, FinishTyped DEF RecordRow
  <2>3. RowTyped'
    BY <1>1, <2>1 DEF RecordRow, SetRow, RowTyped, States
  <2> QED
    BY <1>1, <2>2, <2>3 DEF RecordRow, DeedTyped, TrackerTyped
<1>2. ASSUME RecordCollection(h)
      PROVE  Typed'
  <2>1. job[h].bundle \in Bundles
    BY <1>2 DEF RecordCollection, JobTyped
  <2>2. JobTyped'
    BY <1>2, <2>1, GotoTyped, FinishTyped DEF RecordCollection
  <2>3. DeedTyped'
    BY <1>2, <2>1 DEF RecordCollection, Mirror, DeedTyped
  <2> QED
    BY <1>2, <2>2, <2>3 DEF RecordCollection, RowTyped, TrackerTyped
<1>3. ASSUME MarkRecorded(h) \/ Interrupt(h)
      PROVE  Typed'
  <2>1. JobTyped'
    BY <1>3, FinishTyped DEF MarkRecorded, Interrupt
  <2> QED
    BY <1>3, <2>1 DEF MarkRecorded, Complete, Interrupt, Fault, RowTyped, DeedTyped, TrackerTyped
<1> QED
  BY <1>1, <1>2, <1>3 DEF Record

LEMMA OtherTyped ==
  ASSUME Typed,
         Recover \/ (\E m \in Proposals : Cancel(m)) \/ Crash \/ Node \/ UNCHANGED vars
  PROVE  Typed'
<1> USE StageNames DEF Typed
<1>1. ASSUME Recover
      PROVE  Typed'
  <2>1. JobTyped'
    <3>1. ASSUME NEW b \in page, Take(Recovery, "accepted", b)
          PROVE  JobTyped'
      BY <3>1, TakeTyped DEF Hands
    <3> QED
      BY <1>1, <3>1 DEF Recover, StartPass, Visit, JobTyped
  <2> QED
    BY <1>1, <2>1 DEF Recover, StartPass, PendingCompletions, Visit, RowTyped, DeedTyped, TrackerTyped
<1>2. ASSUME NEW m \in Proposals, Cancel(m)
      PROVE  Typed'
  <2>1. RowTyped'
    BY <1>2 DEF Cancel, RowTyped, States
  <2> QED
    BY <1>2, <2>1 DEF Cancel, JobTyped, DeedTyped, TrackerTyped
<1>3. ASSUME Crash
      PROVE  Typed'
  BY <1>3 DEF Crash, Fault, Idle, JobTyped, RowTyped, DeedTyped, TrackerTyped
<1>4. ASSUME Node
      PROVE  Typed'
  <2>1. TrackerTyped'
    BY <1>4, TipAssumption DEF Node, Include, Govern, Drop, ForeignSpend, TrackerTyped
  <2> QED
    BY <1>4, <2>1 DEF Node, Include, Govern, Drop, ForeignSpend, Fault, JobTyped, RowTyped, DeedTyped
<1>5. ASSUME UNCHANGED vars
      PROVE  Typed'
  BY <1>5 DEF vars, JobTyped, RowTyped, DeedTyped, TrackerTyped
<1> QED
  BY <1>1, <1>2, <1>3, <1>4, <1>5

LEMMA TypedInductive ==
  ASSUME Typed, [Next]_vars
  PROVE  Typed'
  BY RequestTyped, RecordTyped, OtherTyped DEF Next

LEMMA AlwaysTyped == Spec => []Typed
  BY TypedInit, TypedInductive, PTL DEF Spec

-----------------------------------------------------------------------------
(* What is sent is in the journal.                                          *)

LEMMA GotoHand ==
  ASSUME JobTyped, NEW h \in Hands, NEW pc, Goto(h, pc)
  PROVE  /\ job'[h].pc = pc /\ job'[h].bundle = job[h].bundle
         /\ \A g \in Hands : g # h => job'[g] = job[g]
  BY DEF JobTyped, Goto

LEMMA TakeHand ==
  ASSUME JobTyped, NEW h \in Hands, NEW pc, NEW b, Take(h, pc, b)
  PROVE  /\ job'[h].pc = pc /\ job'[h].bundle = b
         /\ \A g \in Hands : g # h => job'[g] = job[g]
  BY DEF JobTyped, Take

LEMMA FinishHand ==
  ASSUME JobTyped, NEW h \in Hands, Finish(h)
  PROVE  /\ job'[h].pc = "idle"
         /\ \A g \in Hands : g # h => job'[g] = job[g]
  BY DEF JobTyped, Finish, Idle

LEMMA BeginHand ==
  ASSUME JobTyped, NEW r \in Requests, NEW o, Begin(r, o)
  PROVE  /\ job'[r].pc = "waiting"
         /\ \A g \in Hands : g # r => job'[g] = job[g]
  BY DEF JobTyped, Begin, Hands

\* The journal only grows, and so does what was accepted.
Grows == funded \subseteq funded' /\ instructions \subseteq instructions' /\ accepted \subseteq accepted'

LEMMA HandKept ==
  ASSUME Grows, NEW g, HandJournaled(g), job'[g] = job[g]
  PROVE  HandJournaled(g)'
  BY DEF Grows, HandJournaled, Instructed

LEMMA NodeKept ==
  ASSUME NodeJournaled, Grows, accepted' = accepted, mempool' \subseteq accepted, mined' \subseteq accepted
  PROVE  NodeJournaled'
  BY DEF Grows, NodeJournaled, Instructed

LEMMA NodeTakes ==
  ASSUME NodeJournaled, Grows, NEW b \in funded, Instructed(b), EnterMempool(b)
  PROVE  NodeJournaled'
  BY DEF Grows, NodeJournaled, EnterMempool, Instructed

LEMMA CompletionSaved ==
  ASSUME NEW b, NEW a, SaveCompletion(b, a)
  PROVE  b \in funded' /\ \E i \in instructions' : i.bundle = b
<1>1. [bundle |-> b, admin |-> a] \in instructions' /\ [bundle |-> b, admin |-> a].bundle = b
  BY DEF SaveCompletion
<1> QED
  BY <1>1 DEF SaveCompletion, Instructable

LEMMA RequestJournaled ==
  ASSUME Typed, Journaled, NEW r \in Requests, Request(r)
  PROVE  Journaled'
<1> r \in Hands
  BY DEF Hands
<1> USE DEF Typed, Quiet, Grows, Journaled
<1> DEFINE Moved == HandJournaled(r)' /\ \A g \in Hands : g # r => job'[g] = job[g]
<1>0. ASSUME Grows, Moved, NodeJournaled'
      PROVE  Journaled'
  BY <1>0, HandKept
<1>1. ASSUME NEW m \in Proposals, BeginPublish(r, m) \/ BeginExecute(r, m)
      PROVE  Journaled'
  <2>1. PICK o : Begin(r, o)
    BY <1>1 DEF BeginPublish, BeginExecute
  <2>2. Moved
    BY <2>1, BeginHand DEF HandJournaled, Sending, Accepting
  <2> QED
    BY <1>0, <2>1, <2>2, NodeKept DEF Begin, NodeJournaled
<1>2. ASSUME Acquire(r)
      PROVE  Journaled'
  <2>1. CASE (Goto(r, "funding") \/ Finish(r)) /\ Quiet
    <3>1. job'[r].pc \in {"funding", "idle"} /\ \A g \in Hands : g # r => job'[g] = job[g]
      BY <2>1, GotoHand, FinishHand
    <3>2. Moved
      BY <3>1 DEF HandJournaled, Sending, Accepting
    <3> QED
      BY <1>0, <2>1, <3>2, NodeKept DEF NodeJournaled
  <2>2. ASSUME NEW b \in Saved(job[r].original), SaveCompletion(b, Caller[r]), Take(r, "observing", b),
               UNCHANGED <<Databases, page, nodeVars, faults>>
        PROVE  Journaled'
    <3>1. b \in funded' /\ \E i \in instructions' : i.bundle = b
      BY <2>2, CompletionSaved
    <3>2. /\ job'[r].pc = "observing" /\ job'[r].bundle = b
          /\ \A g \in Hands : g # r => job'[g] = job[g]
      BY <2>2, TakeHand
    <3>3. Moved
      BY <3>1, <3>2 DEF HandJournaled, Sending, Accepting, Instructed
    <3> QED
      BY <1>0, <2>2, <3>3, NodeKept DEF SaveCompletion, NodeJournaled
  <2> QED
    BY <1>2, <2>1, <2>2 DEF Acquire
<1>3. ASSUME Fund(r)
      PROVE  Journaled'
  <2>1. job'[r].pc \in {"quoted", "idle"} /\ \A g \in Hands : g # r => job'[g] = job[g]
    <3>1. ASSUME NEW c \in FreeTill, Take(r, "quoted", [original |-> job[r].original, fee |-> c])
          PROVE  job'[r].pc = "quoted" /\ \A g \in Hands : g # r => job'[g] = job[g]
      BY <3>1, TakeHand
    <3> QED
      BY <1>3, <3>1, FinishHand DEF Fund
  <2>2. Moved
    BY <2>1 DEF HandJournaled, Sending, Accepting
  <2> QED
    BY <1>0, <1>3, <2>2, NodeKept DEF Fund, NodeJournaled
<1>4. ASSUME SaveFunding(r)
      PROVE  Journaled'
  <2>1. Moved
    BY <1>4, GotoHand, FinishHand DEF SaveFunding, Reserve, HandJournaled, Sending, Accepting
  <2> QED
    BY <1>0, <1>4, <2>1, NodeKept DEF SaveFunding, Reserve, NodeJournaled
<1>5. ASSUME Instruct(r)
      PROVE  Journaled'
  <2>1. job[r].bundle \in funded' /\ \E i \in instructions' : i.bundle = job[r].bundle
    BY <1>5, CompletionSaved DEF Instruct
  <2>2. /\ job'[r].pc = "pushing" /\ job'[r].bundle = job[r].bundle
        /\ \A g \in Hands : g # r => job'[g] = job[g]
    BY <1>5, GotoHand DEF Instruct
  <2>3. Moved
    BY <2>1, <2>2 DEF HandJournaled, Sending, Accepting, Instructed
  <2> QED
    BY <1>0, <1>5, <2>3, NodeKept DEF Instruct, SaveCompletion, NodeJournaled
<1>6. ASSUME ObserveSaved(r) \/ Poll(r)
      PROVE  Journaled'
  <2>1. OnChain(job[r].bundle) => job[r].bundle \in accepted
    BY DEF OnChain, NodeJournaled
  <2>2. Moved
    BY <1>6, <2>1, GotoHand, FinishHand
       DEF ObserveSaved, Poll, OnChain, HandJournaled, Sending, Accepting, Instructed
  <2> QED
    BY <1>0, <1>6, <2>2, NodeKept DEF ObserveSaved, Poll, NodeJournaled
<1>7. ASSUME Push(r) \/ PushUnanswered(r)
      PROVE  Journaled'
  <2>1. job[r].bundle \in funded /\ Instructed(job[r].bundle)
    BY <1>7 DEF Push, PushUnanswered, HandJournaled, Sending
  <2>2. Grows
    BY <1>7 DEF Push, PushUnanswered, EnterMempool, Fault
  <2>3. Moved
    BY <1>7, <2>1, <2>2, GotoHand, FinishHand
       DEF Push, PushUnanswered, HandJournaled, Sending, Accepting, Instructed
  <2>4. NodeJournaled'
    BY <1>7, <2>1, <2>2, NodeTakes, NodeKept DEF Push, PushUnanswered, NodeJournaled
  <2> QED
    BY <1>0, <2>2, <2>3, <2>4
<1>8. ASSUME PushAgain(r)
      PROVE  Journaled'
  <2>1. job[r].bundle \in funded /\ Instructed(job[r].bundle)
    BY <1>8 DEF PushAgain, HandJournaled, Sending
  <2>2. Grows /\ \A g \in Hands : job'[g] = job[g]
    BY <1>8 DEF PushAgain, EnterMempool
  <2>3. NodeJournaled'
    BY <1>8, <2>1, <2>2, NodeTakes DEF PushAgain
  <2> QED
    BY <2>2, <2>3, HandKept
<1> QED
  BY <1>1, <1>2, <1>3, <1>4, <1>5, <1>6, <1>7, <1>8 DEF Request

LEMMA OtherJournaled ==
  ASSUME Typed, Journaled,
         \/ \E h \in Hands : Record(h) \/ Interrupt(h)
         \/ Recover \/ (\E m \in Proposals : Cancel(m)) \/ Crash \/ Node \/ UNCHANGED vars
  PROVE  Journaled'
<1> USE DEF Typed, Quiet, Grows, Journaled
<1>1. ASSUME NEW h \in Hands, Record(h) \/ Interrupt(h)
      PROVE  Journaled'
  <2>1. Grows /\ NodeJournaled'
    BY <1>1, NodeKept DEF Record, RecordRow, RecordCollection, MarkRecorded, Complete, Interrupt,
       Fault, NodeJournaled
  <2>2. /\ job'[h].pc = "idle" \/ (job'[h].bundle = job[h].bundle /\ job'[h].pc \in Accepting)
        /\ \A g \in Hands : g # h => job'[g] = job[g]
    <3>1. Goto(h, "recorded") \/ Goto(h, "mirrored") \/ Finish(h)
      BY <1>1 DEF Record, RecordRow, RecordCollection, MarkRecorded, Interrupt
    <3> QED
      BY <3>1, GotoHand, FinishHand DEF Accepting
  <2>3. job'[h].pc = "idle" \/ job[h].pc \in Accepting
    BY <1>1, FinishHand DEF Record, RecordRow, RecordCollection, MarkRecorded, Interrupt, Accepting
  <2>4. HandJournaled(h)'
    BY <2>1, <2>2, <2>3 DEF HandJournaled, Accepting, Sending
  <2> QED
    BY <2>1, <2>2, <2>4, HandKept
<1>2. ASSUME Recover
      PROVE  Journaled'
  <2>1. Grows /\ NodeJournaled'
    BY <1>2, NodeKept DEF Recover, StartPass, Visit, NodeJournaled
  <2>2. CASE job' = job
    BY <2>1, <2>2, HandKept
  <2>3. ASSUME NEW b, OnChain(b), Take(Recovery, "accepted", b)
        PROVE  Journaled'
    <3>1. /\ job'[Recovery].pc = "accepted" /\ job'[Recovery].bundle = b
          /\ \A g \in Hands : g # Recovery => job'[g] = job[g]
      BY <2>3, TakeHand DEF Hands
    <3>2. b \in accepted'
      BY <2>1, <2>3 DEF OnChain, NodeJournaled
    <3>3. HandJournaled(Recovery)'
      BY <3>1, <3>2 DEF HandJournaled, Sending, Accepting
    <3> QED
      BY <2>1, <3>1, <3>3, HandKept
  <2> QED
    BY <1>2, <2>2, <2>3 DEF Recover, StartPass, Visit
<1>3. ASSUME Crash
      PROVE  Journaled'
  BY <1>3, NodeKept DEF Crash, Fault, Idle, HandJournaled, Sending, Accepting, NodeJournaled
<1>4. ASSUME (\E m \in Proposals : Cancel(m)) \/ Node \/ UNCHANGED vars
      PROVE  Journaled'
  <2>1. Grows /\ NodeJournaled'
    BY <1>4, NodeKept DEF Cancel, Node, Include, Govern, Drop, ForeignSpend, vars, NodeJournaled
  <2>2. job' = job
    BY <1>4 DEF Cancel, Node, Include, Govern, Drop, ForeignSpend, vars
  <2> QED
    BY <2>1, <2>2, HandKept
<1> QED
  BY <1>1, <1>2, <1>3, <1>4

LEMMA JournaledInductive ==
  ASSUME Typed, Journaled, [Next]_vars
  PROVE  Journaled'
  BY RequestJournaled, OtherJournaled DEF Next

LEMMA AlwaysJournaled == Spec => [](Typed /\ Journaled)
<1>1. Init => Journaled
  BY DEF Init, JournalInit, Journaled, NodeJournaled, HandJournaled, Idle, Sending, Accepting
<1> QED
  BY <1>1, TypedInit, TypedInductive, JournaledInductive, PTL DEF Spec

(* before_push saves the instructions before any call that can send, so    *)
(* whatever the node was given can be recorded without its request.        *)
THEOREM SentAreInstructed == Spec => []SentIsInstructed
<1>1. Journaled => SentIsInstructed
  BY DEF Journaled, NodeJournaled, SentIsInstructed
<1> QED
  BY <1>1, AlwaysJournaled, PTL

-----------------------------------------------------------------------------
(* Row, deed, completion, in this order.                                    *)

\* What a step does to rows and deeds that hold something.
RowsStay ==
  \A m \in Proposals :
    /\ row[m].published # None => row'[m].published = row[m].published
    /\ row[m].executed # None => row'[m].executed = row[m].executed

DeedsStay ==
  \A m \in Proposals :
    collection[m].published # None => collection'[m].published = collection[m].published

LEMMA BundleParts ==
  ASSUME NEW b \in Bundles
  PROVE  b # None /\ Of(b) \in Proposals /\ Phase(b) \in {"publish", "execute"}
<1>1. b.original \in Originals
  BY DEF Bundles
<1> QED
  BY <1>1, BundleAssumption DEF Originals, Of, Phase

LEMMA RecordedStays ==
  ASSUME RowsStay, NEW b \in Bundles, Recorded(b)
  PROVE  b = IF Phase(b) = "publish" THEN row'[Of(b)].published ELSE row'[Of(b)].executed
  BY BundleParts DEF RowsStay, Recorded

LEMMA MirroredStays ==
  ASSUME DeedsStay, NEW b \in Bundles, Mirrored(b)
  PROVE  Phase(b) = "publish" => collection'[Of(b)].published = b
  BY BundleParts DEF DeedsStay, Mirrored

LEMMA HandStays ==
  ASSUME Typed, RowsStay, DeedsStay, NEW h \in Hands, HandRecording(h), job'[h] = job[h]
  PROVE  HandRecording(h)'
<1>1. CASE job[h].pc \notin {"recorded", "mirrored"}
  BY <1>1 DEF HandRecording
<1>2. CASE job[h].pc \in {"recorded", "mirrored"}
  <2>1. job[h].bundle \in Bundles
    BY <1>2 DEF Typed, JobTyped
  <2>2. Recorded(job[h].bundle)'
    BY <1>2, <2>1, RecordedStays DEF HandRecording, Recorded
  <2>3. job[h].pc = "mirrored" => Mirrored(job[h].bundle)'
    BY <2>1, MirroredStays DEF HandRecording, Mirrored
  <2> QED
    BY <2>2, <2>3 DEF HandRecording
<1> QED
  BY <1>1, <1>2

LEMMA CompletedStays ==
  ASSUME Typed, Journaled, Recording, RowsStay, DeedsStay, completed' = completed
  PROVE  CompletedIsRecorded'
<1> SUFFICES ASSUME NEW b \in completed
             PROVE  Recorded(b)' /\ (Phase(b) = "publish" => collection'[Of(b)].published = b)
  BY DEF CompletedIsRecorded, Phase, Of
<1>1. b \in Bundles
  BY DEF Recording, Journaled, NodeJournaled, Typed
<1>2. Recorded(b) /\ Mirrored(b)
  BY DEF Recording, CompletedIsRecorded, Mirrored
<1> QED
  BY <1>1, <1>2, RecordedStays, MirroredStays DEF Recorded

\* A step that writes neither row, deed nor completion, and takes no hand to the
\* points between two of them.
LEMMA RecordingKept ==
  ASSUME Typed, Journaled, Recording, UNCHANGED <<row, collection, completed>>,
         accepted \subseteq accepted',
         \A h \in Hands : job'[h] = job[h] \/ job'[h].pc \notin {"recorded", "mirrored"}
  PROVE  Recording'
<1>1. RowsStay /\ DeedsStay
  BY DEF RowsStay, DeedsStay
<1>2. \A h \in Hands : HandRecording(h)'
  BY <1>1, HandStays DEF Recording, HandRecording
<1>3. CompletedIsRecorded'
  BY <1>1, CompletedStays
<1> QED
  BY <1>2, <1>3 DEF Recording, RowShape, RecordedWasAccepted, MirrorAgrees

LEMMA RequestRecording ==
  ASSUME Typed, Journaled, Recording, NEW r \in Requests, Request(r)
  PROVE  Recording'
<1> r \in Hands /\ JobTyped
  BY DEF Hands, Typed
<1>1. UNCHANGED <<row, collection, completed>> /\ accepted \subseteq accepted'
  BY DEF Request, BeginPublish, BeginExecute, Begin, Acquire, SaveCompletion, Fund, SaveFunding,
     Reserve, Instruct, ObserveSaved, Push, PushUnanswered, EnterMempool, Fault, Poll, PushAgain, Quiet
<1> DEFINE Turns == \A h \in Hands : job'[h] = job[h] \/ job'[h].pc \notin {"recorded", "mirrored"}
<1>2. ASSUME NEW o, Begin(r, o)
      PROVE  Turns
  BY <1>2, BeginHand
<1>3. ASSUME NEW b, Take(r, "observing", b) \/ Take(r, "quoted", b)
      PROVE  Turns
  BY <1>3, TakeHand
<1>4. ASSUME NEW pc, Goto(r, pc), pc \notin {"recorded", "mirrored"}
      PROVE  Turns
  BY <1>4, GotoHand
<1>5. ASSUME Finish(r) \/ UNCHANGED job
      PROVE  Turns
  BY <1>5, FinishHand
<1>6. \/ \E o : Begin(r, o)
      \/ \E b : Take(r, "observing", b) \/ Take(r, "quoted", b)
      \/ \E pc : Goto(r, pc) /\ pc \notin {"recorded", "mirrored"}
      \/ Finish(r) \/ UNCHANGED job
  <2>1. ASSUME NEW pc \in {"funding", "reserved", "pushing", "accepted", "polling"}, Goto(r, pc)
        PROVE  \E x : Goto(r, x) /\ x \notin {"recorded", "mirrored"}
    BY <2>1
  <2> QED
    BY <2>1 DEF Request, BeginPublish, BeginExecute, Acquire, Fund, SaveFunding, Instruct,
       ObserveSaved, Push, PushUnanswered, Poll, PushAgain
<1>7. Turns
  BY <1>2, <1>3, <1>4, <1>5, <1>6
<1> QED
  BY <1>1, <1>7, RecordingKept

\* A recorded transaction takes the place of none, and no deed holds another.
LEMMA RowSet ==
  ASSUME Typed, Journaled, Recording, NEW b \in accepted, Recordable(b), SetRow(b),
         UNCHANGED <<collection, accepted>>
  PROVE  RowsStay /\ Recorded(b)' /\ RowShape' /\ RecordedWasAccepted' /\ MirrorAgrees'
<1> DEFINE m == Of(b)
<1>1. b \in Bundles /\ m \in Proposals /\ b # None /\ Phase(b) \in {"publish", "execute"}
  BY BundleParts DEF Journaled, NodeJournaled, Typed
<1>2. \A p \in Proposals : p # m => row'[p] = row[p]
  BY <1>1 DEF SetRow, Typed, RowTyped
<1>3. ASSUME Phase(b) = "publish"
      PROVE  /\ row[m].published = None /\ row[m].executed = None
             /\ row'[m] = [state |-> "PROPOSED", published |-> b, executed |-> row[m].executed]
  BY <1>1, <1>3 DEF SetRow, Recordable, Recording, RowShape, Typed, RowTyped
<1>4. ASSUME Phase(b) = "execute"
      PROVE  /\ row[m].executed = None
             /\ row'[m] = [state |-> "EXECUTED", published |-> row[m].published, executed |-> b]
  BY <1>1, <1>4 DEF SetRow, Recordable, Recording, RowShape, Typed, RowTyped
<1>5. RowsStay
  BY <1>1, <1>2, <1>3, <1>4 DEF RowsStay
<1>6. Recorded(b)'
  BY <1>1, <1>3, <1>4 DEF Recorded, Phase, Of
<1>7. RowShape'
  BY <1>1, <1>2, <1>3, <1>4 DEF Recording, RowShape
<1>8. RecordedWasAccepted'
  BY <1>1, <1>2, <1>3, <1>4 DEF Recording, RecordedWasAccepted
<1>9. MirrorAgrees'
  BY <1>1, <1>2, <1>3, <1>4 DEF Recording, MirrorAgrees
<1> QED
  BY <1>5, <1>6, <1>7, <1>8, <1>9

LEMMA RecordRowRecording ==
  ASSUME Typed, Journaled, Recording, NEW h \in Hands, RecordRow(h)
  PROVE  Recording'
<1> USE DEF Typed
<1> SUFFICES ASSUME NEW b, b = job[h].bundle
             PROVE  Recording'
  OBVIOUS
<1>1. b \in Bundles /\ b \in accepted
  BY DEF RecordRow, JobTyped, Journaled, HandJournaled, Accepting
<1>2. CASE Finish(h) /\ Quiet
  BY <1>2, FinishHand, RecordingKept DEF Quiet
<1>3. ASSUME Goto(h, "recorded"), UNCHANGED <<journalVars, collection, accepted>>, RowsStay,
             Recorded(b)', RowShape', RecordedWasAccepted', MirrorAgrees'
      PROVE  Recording'
  <2>1. DeedsStay
    BY <1>3 DEF DeedsStay
  <2>2. /\ job'[h].pc = "recorded" /\ job'[h].bundle = b
        /\ \A g \in Hands : g # h => job'[g] = job[g]
    BY <1>3, GotoHand
  <2>3. HandRecording(h)'
    BY <1>3, <2>2 DEF HandRecording, Recorded, Phase, Of
  <2>4. \A g \in Hands : HandRecording(g)'
    BY <1>3, <2>1, <2>2, <2>3, HandStays DEF Recording
  <2>5. CompletedIsRecorded'
    BY <1>3, <2>1, CompletedStays
  <2> QED
    BY <1>3, <2>4, <2>5 DEF Recording
<1>4. CASE Recordable(b) /\ SetRow(b) /\ Goto(h, "recorded")
  <2>1. UNCHANGED <<journalVars, collection, accepted>>
    BY <1>4, GotoHand, FinishHand DEF RecordRow, Quiet
  <2> QED
    BY <1>1, <1>3, <1>4, <2>1, RowSet
<1>5. CASE Recorded(b) /\ Goto(h, "recorded") /\ Quiet
  BY <1>3, <1>5 DEF Quiet, RowsStay, Recording, Recorded, Phase, Of, RowShape, RecordedWasAccepted, MirrorAgrees
<1> QED
  BY <1>2, <1>4, <1>5 DEF RecordRow

LEMMA RecordCollectionRecording ==
  ASSUME Typed, Journaled, Recording, NEW h \in Hands, RecordCollection(h)
  PROVE  Recording'
<1> USE DEF Typed
<1> SUFFICES ASSUME NEW b, b = job[h].bundle
             PROVE  Recording'
  OBVIOUS
<1> DEFINE m == Of(b)
<1>1. b \in Bundles /\ m \in Proposals /\ b # None /\ Phase(b) \in {"publish", "execute"} /\ Recorded(b)
  BY BundleParts DEF RecordCollection, JobTyped, Recording, HandRecording
<1>2. CASE Finish(h) /\ Quiet
  BY <1>2, FinishHand, RecordingKept DEF Quiet
<1>3. ASSUME ~MirrorConflicts(b), Mirror(b), Goto(h, "mirrored"),
             UNCHANGED <<journalVars, row, page, nodeVars, faults>>
      PROVE  Recording'
  <2>1. RowsStay
    BY <1>3 DEF RowsStay
  <2>2. \A p \in Proposals : p # m => collection'[p] = collection[p]
    BY <1>1, <1>3 DEF Mirror, DeedTyped
  <2>3. Phase(b) = "publish" =>
          /\ collection'[m].published = b /\ collection[m].published \in {None, b}
          /\ collection'[m].executed = collection[m].executed
    BY <1>1, <1>3 DEF Mirror, DeedTyped
  <2>4. Phase(b) = "execute" =>
          /\ collection'[m].published = collection[m].published
          /\ collection'[m].executed \in {collection[m].executed, b}
    BY <1>1, <1>3 DEF Mirror, DeedTyped
  <2>5. DeedsStay
    BY <1>1, <2>2, <2>3, <2>4 DEF DeedsStay
  <2>6. MirrorAgrees'
    BY <1>1, <1>3, <2>2, <2>3, <2>4 DEF Recording, MirrorAgrees, Recorded
  <2>7. /\ job'[h].pc = "mirrored" /\ job'[h].bundle = b
        /\ \A g \in Hands : g # h => job'[g] = job[g]
    BY <1>3, GotoHand
  <2>8. HandRecording(h)'
    BY <1>1, <1>3, <2>3, <2>7 DEF HandRecording, Recorded, Mirrored, Phase, Of
  <2>9. \A g \in Hands : HandRecording(g)'
    BY <2>1, <2>5, <2>7, <2>8, HandStays DEF Recording
  <2>10. CompletedIsRecorded'
    BY <1>3, <2>1, <2>5, CompletedStays
  <2> QED
    BY <1>3, <2>6, <2>9, <2>10 DEF Recording, RowShape, RecordedWasAccepted
<1> QED
  BY <1>2, <1>3 DEF RecordCollection

LEMMA MarkRecordedRecording ==
  ASSUME Typed, Journaled, Recording, NEW h \in Hands, MarkRecorded(h)
  PROVE  Recording'
<1> USE DEF Typed
<1> SUFFICES ASSUME NEW b, b = job[h].bundle
             PROVE  Recording'
  OBVIOUS
<1>1. b \in accepted /\ Recorded(b) /\ Mirrored(b)
  BY DEF MarkRecorded, Journaled, HandJournaled, Accepting, Recording, HandRecording
<1>2. completed' \subseteq completed \cup {b}
  BY DEF MarkRecorded, Complete
<1>3. UNCHANGED <<row, collection, accepted>>
  BY DEF MarkRecorded
<1>4. RowsStay /\ DeedsStay
  BY <1>3 DEF RowsStay, DeedsStay
<1>5. \A g \in Hands : HandRecording(g)'
  BY <1>4, FinishHand, HandStays DEF MarkRecorded, Recording, HandRecording
<1>6. CompletedIsRecorded'
  BY <1>1, <1>2, <1>3 DEF Recording, CompletedIsRecorded, Recorded, Mirrored
<1> QED
  BY <1>1, <1>2, <1>3, <1>5, <1>6 DEF Recording, RowShape, RecordedWasAccepted, MirrorAgrees

LEMMA CancelRecording ==
  ASSUME Typed, Journaled, Recording, NEW m \in Proposals, Cancel(m)
  PROVE  Recording' /\ RowsStay
<1>1. \A p \in Proposals :
        /\ row'[p].published = row[p].published /\ row'[p].executed = row[p].executed
        /\ row'[p].state = row[p].state \/ (row[p].state = "DRAFT" /\ row'[p].state = "CANCELED")
  BY DEF Cancel, Typed, RowTyped
<1>2. RowsStay /\ DeedsStay
  BY <1>1 DEF RowsStay, DeedsStay, Cancel
<1>3. \A h \in Hands : HandRecording(h)'
  BY <1>2, HandStays DEF Cancel, Recording
<1>4. CompletedIsRecorded'
  BY <1>2, CompletedStays DEF Cancel
<1>5. RowShape' /\ RecordedWasAccepted' /\ MirrorAgrees' /\ (completed \subseteq accepted)'
  BY <1>1 DEF Cancel, Recording, RowShape, RecordedWasAccepted, MirrorAgrees
<1> QED
  BY <1>2, <1>3, <1>4, <1>5 DEF Recording

LEMMA OtherRecording ==
  ASSUME Typed, Journaled, Recording,
         \/ \E h \in Hands : Interrupt(h)
         \/ Recover \/ Crash \/ Node \/ UNCHANGED vars
  PROVE  Recording'
<1>1. UNCHANGED <<row, collection, completed, accepted>>
  BY DEF Interrupt, Fault, Recover, StartPass, Visit, Crash, Node, Include, Govern, Drop,
     ForeignSpend, vars
<1>2. \A h \in Hands : job'[h] = job[h] \/ job'[h].pc \notin {"recorded", "mirrored"}
  <2>1. ASSUME NEW g \in Hands, Interrupt(g)
        PROVE  \A h \in Hands : job'[h] = job[h] \/ job'[h].pc \notin {"recorded", "mirrored"}
    BY <2>1, FinishHand DEF Interrupt, Typed
  <2>2. ASSUME NEW b, Take(Recovery, "accepted", b)
        PROVE  \A h \in Hands : job'[h] = job[h] \/ job'[h].pc \notin {"recorded", "mirrored"}
    BY <2>2, TakeHand DEF Hands, Typed
  <2>3. CASE Crash
    BY <2>3 DEF Crash, Idle
  <2> QED
    BY <2>1, <2>2, <2>3 DEF Recover, StartPass, Visit, Node, Include, Govern, Drop, ForeignSpend, vars
<1> QED
  BY <1>1, <1>2, RecordingKept

LEMMA RecordingInductive ==
  ASSUME Typed, Journaled, Recording, [Next]_vars
  PROVE  Recording'
  BY RequestRecording, RecordRowRecording, RecordCollectionRecording, MarkRecordedRecording,
     CancelRecording, OtherRecording DEF Next, Record

LEMMA AlwaysIInv == Spec => []IInv
<1>1. Init => Journaled /\ Recording
  BY DEF Init, JournalInit, Journaled, NodeJournaled, HandJournaled, Idle, Sending, Accepting,
     Recording, RowShape, RecordedWasAccepted, MirrorAgrees, CompletedIsRecorded, HandRecording
<1>2. Init => IInv
  BY <1>1, TypedInit DEF IInv
<1>3. IInv /\ [Next]_vars => IInv'
  BY TypedInductive, JournaledInductive, RecordingInductive DEF IInv
<1> QED
  BY <1>2, <1>3, PTL DEF Spec

(* _publish_mint_bundle and mint_recovery.reconcile record only what the   *)
(* node was observed to have taken.                                        *)
THEOREM OnlyAcceptedIsRecorded == Spec => []RecordedWasAccepted
<1>1. IInv => RecordedWasAccepted
  BY DEF IInv, Recording
<1> QED
  BY <1>1, AlwaysIInv, PTL

(* A completion is closed after the proposal and the deed hold its         *)
(* transaction, wherever a crash, a fault or a rival request fell between. *)
THEOREM ClosedIsRecorded == Spec => []CompletedIsRecorded
<1>1. IInv => CompletedIsRecorded
  BY DEF IInv, Recording
<1> QED
  BY <1>1, AlwaysIInv, PTL

(* The collection database, written after the proposal database and apart  *)
(* from it, holds no transaction that the proposal does not hold.          *)
THEOREM CollectionAgrees == Spec => []MirrorAgrees
<1>1. IInv => MirrorAgrees
  BY DEF IInv, Recording
<1> QED
  BY <1>1, AlwaysIInv, PTL

-----------------------------------------------------------------------------
(* Rows only move on.                                                       *)

Advances(m) ==
  /\ row'[m] # row[m] => Rank[row'[m].state] > Rank[row[m].state]
  /\ row[m].published # None => row'[m].published = row[m].published
  /\ row[m].executed # None => row'[m].executed = row[m].executed

LEMMA RowMoves ==
  ASSUME IInv, [Next]_vars
  PROVE  \A m \in Proposals : Advances(m)
<1> SUFFICES ASSUME NEW m \in Proposals
             PROVE  Advances(m)
  OBVIOUS
<1>0. Typed /\ Journaled /\ Recording
  BY DEF IInv
<1>1. CASE row' = row
  BY <1>1 DEF Advances
<1>2. ASSUME NEW h \in Hands, RecordRow(h), row' # row
      PROVE  Advances(m)
  <2>1. PICK b \in accepted : Recordable(b) /\ SetRow(b) /\ UNCHANGED <<collection, accepted>>
    BY <1>0, <1>2 DEF RecordRow, Quiet, Journaled, HandJournaled, Accepting
  <2>2. RowsStay
    BY <1>0, <2>1, RowSet
  <2>3. b \in Bundles
    BY <1>0 DEF Journaled, NodeJournaled, Typed
  <2>4. row'[m] # row[m] => \/ row[m].state = "DRAFT" /\ row'[m].state = "PROPOSED"
                            \/ row[m].state = "PROPOSED" /\ row'[m].state = "EXECUTED"
    BY <1>0, <2>1, <2>3, BundleParts DEF SetRow, Recordable, Typed, RowTyped
  <2> QED
    BY <2>2, <2>4 DEF RowsStay, Rank, Advances
<1>3. ASSUME NEW p \in Proposals, Cancel(p)
      PROVE  Advances(m)
  <2>1. row'[m] # row[m] => row[m].state = "DRAFT" /\ row'[m].state = "CANCELED"
    BY <1>0, <1>3 DEF Cancel, Typed, RowTyped
  <2> QED
    BY <1>0, <1>3, <2>1, CancelRecording DEF RowsStay, Rank, Advances
<1>4. \/ row' = row
      \/ \E h \in Hands : RecordRow(h)
      \/ \E p \in Proposals : Cancel(p)
  <2>1. ASSUME NEW r \in Requests, Request(r)
        PROVE  row' = row
    BY <2>1 DEF Request, BeginPublish, BeginExecute, Begin, Acquire, Fund, SaveFunding,
       Instruct, ObserveSaved, Push, PushUnanswered, Poll, PushAgain, Quiet
  <2>2. ASSUME NEW h \in Hands, RecordCollection(h) \/ MarkRecorded(h) \/ Interrupt(h)
        PROVE  row' = row
    BY <2>2 DEF RecordCollection, MarkRecorded, Interrupt, Quiet
  <2>3. ASSUME Recover \/ Crash \/ Node \/ UNCHANGED vars
        PROVE  row' = row
    BY <2>3 DEF Recover, StartPass, Visit, Crash, Node, Include, Govern, Drop, ForeignSpend, vars
  <2> QED
    BY <2>1, <2>2, <2>3 DEF Next, Record
<1> QED
  BY <1>1, <1>2, <1>3, <1>4

(* "Backwards moves are forbidden": whatever requests, retries, recovery   *)
(* passes and cancellations do to a row, its state only advances, and a    *)
(* recorded transaction stays.                                             *)
THEOREM RowsOnlyAdvance == Spec => RowsAreFinal
<1>1. IInv /\ [Next]_vars =>
        [\A m \in Proposals : Advances(m)]_vars
  BY RowMoves
<1> QED
  BY <1>1, AlwaysIInv, PTL DEF Spec, RowsAreFinal, Advances
=============================================================================
