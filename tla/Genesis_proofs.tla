--------------------------- MODULE Genesis_proofs ---------------------------
(***************************************************************************)
(* Safety of the genesis ceremony for every number of ceremonies, requests,*)
(* till coins, rehearsals, plans and windows: the instance of MCGenesis    *)
(* leaves most of the states of a second ceremony aside, and these proofs  *)
(* do not.                                                                 *)
(*                                                                         *)
(* No property of the ledger is inductive, because a request acts on what  *)
(* it read before it waited.  IInv says what each request may still rely   *)
(* on at each step (HandlerOK), and the step lemma Holding says that       *)
(* nothing it relies on is ever taken back (Stable): the slot, the sealed  *)
(* coins, a bound publication, a written file.  What a confirmation read   *)
(* of the chain may be taken back; Depths says how much of it still counts.*)
(***************************************************************************)
EXTENDS Genesis, TLAPS

-----------------------------------------------------------------------------
(* Types.                                                                  *)

Coins0 == Till \cup {NoCoin}
CeremonyStates ==
    {"none", "draft", "roster_open", "roster_frozen", "planned", "plan_approved"}
    \cup Reserved \cup {"abandoned"}
Reservations == {"none", "RESERVED", "FINALIZED"}
RemoteStates == {"NONE", "PREPARED", "PAID", "SUCCEEDED", "FAILED"}

CeremonyRows ==
    [state : CeremonyStates, plan : Nat, expires : Nat, signed : SUBSET Slots,
     reservation : Reservations, coin : Coins0, planned : Nat,
     block : Nat, artifact : SUBSET Slots]
GateRows ==
    [state : {"none", "pending", "open"}, opens : Nat, closes : Nat,
     signed : SUBSET Slots, snapshot : SUBSET Slots]
FundingRows ==
    [state : {"none", "prepared", "ambiguous", "broadcast", "confirmed"},
     coin : Coins0, signed : SUBSET Slots]

Submitting == {"submit", "sealed", "push", "record"}
FundRequests ==
    [at : Submitting, kind : {"fund"}, c : Ceremonies, coin : Coins0,
     replay : {FALSE}, known : Coins0]
BroadcastRequests ==
    [at : Submitting, kind : {"genesis"}, c : Ceremonies, coin : Coins0,
     replay : {FALSE}, plan : Nat, opens : Nat, closes : Nat]
ReplayRequests ==
    [at : {"replay", "push", "record"}, kind : {"genesis"}, c : Ceremonies,
     coin : Coins0, replay : {TRUE}, opens : Nat, closes : Nat]
Confirming == {"outputs", "peak", "confirm"}
ConfirmRequests == [at : Confirming, c : Ceremonies, reservation : Reservations, block : Nat]
PublishRequests == [at : {"verify"} \cup Publishing, c : Ceremonies, signed : SUBSET Slots]
RehearsalRequests == [at : {"store"}, job : Jobs, state : RemoteStates]
Requests ==
    {Idle} \cup FundRequests \cup BroadcastRequests \cup ReplayRequests
    \cup ConfirmRequests \cup PublishRequests \cup RehearsalRequests

Bundles == [kind : Kinds, c : Ceremonies, coin : Coins0]

TypeOK ==
    /\ now \in Nat
    /\ ceremonies \in [Ceremonies -> CeremonyRows]
    /\ seats \in [Ceremonies -> [Slots -> {"open", "invited", "enrolled"}]]
    /\ gates \in [Ceremonies -> GateRows]
    /\ funding \in [Ceremonies -> FundingRows]
    /\ journal \in [Ceremonies -> [Kinds -> Coins0]]
    /\ singleton \in [owner : Ceremonies \cup {NoCeremony}, publication : SUBSET Slots]
    /\ files \in [public : SUBSET Slots, lock : Ceremonies \cup {NoCeremony}]
    /\ handlers \in [Handlers -> Requests]
    /\ mempool \subseteq Bundles /\ mined \subseteq Bundles
    /\ height \in [Ceremonies -> Nat] /\ peak \in Nat
    /\ operational \in {"none", "open"}
    /\ rehearsal \in [job : Jobs \cup {NoJob}, state : RemoteStates]
    /\ rehearsal.state # "NONE" => rehearsal.job \in Jobs
    /\ evidence \in Jobs \cup {NoJob}
    /\ remote \in [Jobs -> RemoteStates]

-----------------------------------------------------------------------------
(* The inductive invariant.                                                *)

\* What a request that waits may still rely on.
HandlerOK(h) ==
    LET x == handlers[h] IN
    /\ x.at \in {"sealed", "push", "record"} /\ x.kind = "fund" =>
        x.coin # NoCoin /\ x.coin = journal[x.c]["fund"]
    /\ x.at \in {"push", "record"} /\ x.kind = "fund" => funding[x.c].coin = x.coin
    /\ x.at \in {"replay", "push", "record"} /\ x.kind = "genesis" =>
        singleton.owner = x.c /\ ceremonies[x.c].coin = x.coin
    /\ x.at \in {"verify"} \cup Publishing => ceremonies[x.c].state \in {"artifact_signed", "locked"}
    /\ x.at \in Publishing =>
        singleton.owner = x.c /\ singleton.publication = x.signed /\ x.signed # Unbound
    /\ x.at \in {"lock", "locked"} => files.public = x.signed
    /\ x.at = "locked" => files.lock = x.c

\* The ceremony that took the slot is the one past its broadcast.
SlotTaken == \A c \in Ceremonies : ceremonies[c].state \in Reserved <=> singleton.owner = c

\* Approved rows are approved by those who signed them.
Approved ==
    /\ \A c \in Ceremonies : ceremonies[c].state = "plan_approved" => OwnerPlusOne(ceremonies[c].signed)
    /\ \A c \in Ceremonies : gates[c].state = "open" => OwnerPlusOne(gates[c].snapshot)
    /\ \A c \in Ceremonies :
        ceremonies[c].state \in {"artifact_signed", "locked"} => OwnerPlusOne(ceremonies[c].artifact)

\* The receipt of the fan-out names the coin the journal sealed, or none.
ReceiptIsSealed ==
    \A c \in Ceremonies : funding[c].coin # NoCoin => funding[c].coin = journal[c]["fund"]

\* What is bound, what is written and who is locked agree.
Published ==
    /\ singleton.publication # Unbound =>
        /\ singleton.owner # NoCeremony
        /\ singleton.publication = ceremonies[singleton.owner].artifact
        /\ OwnerPlusOne(singleton.publication)
    /\ files.public # NoFile => files.public = singleton.publication
    /\ files.lock # NoLock => files.lock = singleton.owner /\ files.public # NoFile
    /\ \A c \in Ceremonies : ceremonies[c].state = "locked" => files.lock = c

\* A fan-out on the network pays its fee from a coin of the till, the one its
\* receipt names.
FanOutIsPaid ==
    FanOutIsKnown /\ \A b \in mempool \cup mined : b.kind = "fund" => b.coin # NoCoin

\* A rehearsal that succeeded has its evidence, and only one opens a window.
Rehearsed ==
    /\ rehearsal.state = "SUCCEEDED" => evidence = rehearsal.job
    /\ operational = "open" => rehearsal.state = "SUCCEEDED"

LedgerOK == SlotTaken /\ Approved /\ BroadcastIsSigned /\ ReceiptIsSealed /\ Published

Requested == \A h \in Handlers : HandlerOK(h)

Facts == LedgerOK /\ OneGenesis /\ FanOutIsPaid /\ Rehearsed /\ Requested

IInv == TypeOK /\ Facts

\* Nothing a request relies on is taken back.
Stable ==
    /\ \A c \in Ceremonies : singleton.owner = c =>
        singleton'.owner = c /\ ceremonies'[c].coin = ceremonies[c].coin
    /\ \A c \in Ceremonies : journal[c]["fund"] # NoCoin => journal'[c]["fund"] = journal[c]["fund"]
    /\ \A c \in Ceremonies : funding[c].coin # NoCoin => funding'[c].coin = funding[c].coin
    /\ \A c \in Ceremonies : ceremonies[c].state \in {"artifact_signed", "locked"} =>
        ceremonies'[c].state \in {"artifact_signed", "locked"}
    /\ singleton.publication # Unbound => singleton'.publication = singleton.publication
    /\ files.public # NoFile => files'.public = files.public
    /\ files.lock # NoLock => files'.lock = files.lock

-----------------------------------------------------------------------------
(* Requests.                                                               *)

\* What a request is, read off where it stands.
LEMMA RequestKind ==
    ASSUME NEW x \in Requests
    PROVE  /\ x.at = "submit" => x \in FundRequests \cup BroadcastRequests
           /\ x.at = "sealed" /\ x.kind = "fund" => x \in FundRequests
           /\ x.at = "sealed" /\ x.kind = "genesis" => x \in BroadcastRequests
           /\ x.at \in {"push", "record"} =>
                x \in FundRequests \cup BroadcastRequests \cup ReplayRequests
           /\ x.at \in {"push", "record"} /\ x.kind = "fund" => x \in FundRequests
           /\ x.at = "replay" => x \in ReplayRequests
           /\ x.at \in Confirming => x \in ConfirmRequests
           /\ x.at \in {"verify"} \cup Publishing => x \in PublishRequests
           /\ x.at = "store" => x \in RehearsalRequests
<1>1. x = Idle => x.at = "idle"
    BY DEF Idle
<1>2. x \in FundRequests => x.at \in Submitting /\ x.kind = "fund"
    BY DEF FundRequests
<1>3. x \in BroadcastRequests => x.at \in Submitting /\ x.kind = "genesis"
    BY DEF BroadcastRequests
<1>4. x \in ReplayRequests => x.at \in {"replay", "push", "record"} /\ x.kind = "genesis"
    BY DEF ReplayRequests
<1>5. x \in ConfirmRequests => x.at \in Confirming
    BY DEF ConfirmRequests
<1>6. x \in PublishRequests => x.at \in {"verify"} \cup Publishing
    BY DEF PublishRequests
<1>7. x \in RehearsalRequests => x.at = "store"
    BY DEF RehearsalRequests
<1> QED
    BY <1>1, <1>2, <1>3, <1>4, <1>5, <1>6, <1>7 DEF Requests, Submitting, Confirming, Publishing

\* A request that moves on keeps everything but its place.
LEMMA Moves ==
    ASSUME NEW x
    PROVE  /\ x \in FundRequests => \A a \in Submitting : [x EXCEPT !.at = a] \in FundRequests
           /\ x \in BroadcastRequests => \A a \in Submitting : [x EXCEPT !.at = a] \in BroadcastRequests
           /\ x \in ReplayRequests =>
                \A a \in {"replay", "push", "record"} : [x EXCEPT !.at = a] \in ReplayRequests
           /\ x \in ConfirmRequests => \A a \in Confirming : [x EXCEPT !.at = a] \in ConfirmRequests
           /\ x \in PublishRequests => \A a \in Publishing : [x EXCEPT !.at = a] \in PublishRequests
           /\ x \in FundRequests =>
                \A coin \in Coins0 : [x EXCEPT !.at = "sealed", !.coin = coin] \in FundRequests
           /\ x \in BroadcastRequests =>
                \A coin \in Coins0 : [x EXCEPT !.at = "sealed", !.coin = coin] \in BroadcastRequests
<1>1. ASSUME x \in FundRequests, NEW a \in Submitting
      PROVE  [x EXCEPT !.at = a] \in FundRequests
    BY <1>1 DEF FundRequests
<1>2. ASSUME x \in BroadcastRequests, NEW a \in Submitting
      PROVE  [x EXCEPT !.at = a] \in BroadcastRequests
    BY <1>2 DEF BroadcastRequests
<1>3. ASSUME x \in ReplayRequests, NEW a \in {"replay", "push", "record"}
      PROVE  [x EXCEPT !.at = a] \in ReplayRequests
    BY <1>3 DEF ReplayRequests
<1>4. ASSUME x \in PublishRequests, NEW a \in Publishing
      PROVE  [x EXCEPT !.at = a] \in PublishRequests
    BY <1>4 DEF PublishRequests
<1>5. ASSUME x \in FundRequests, NEW coin \in Coins0
      PROVE  [x EXCEPT !.at = "sealed", !.coin = coin] \in FundRequests
    BY <1>5 DEF FundRequests, Submitting
<1>6. ASSUME x \in BroadcastRequests, NEW coin \in Coins0
      PROVE  [x EXCEPT !.at = "sealed", !.coin = coin] \in BroadcastRequests
    BY <1>6 DEF BroadcastRequests, Submitting
<1>7. ASSUME x \in ConfirmRequests, NEW a \in Confirming
      PROVE  [x EXCEPT !.at = a] \in ConfirmRequests
    BY <1>7 DEF ConfirmRequests
<1> QED
    BY <1>1, <1>2, <1>3, <1>4, <1>5, <1>6, <1>7

LEMMA StepTyped ==
    ASSUME TypeOK, NEW h \in Handlers, NEW next \in Requests, NEW may
    PROVE  /\ Step(h, next) => handlers' \in [Handlers -> Requests]
           /\ StepOrDrop(h, may, next) => handlers' \in [Handlers -> Requests]
<1>1. Idle \in Requests /\ handlers \in [Handlers -> Requests]
    BY DEF Requests, TypeOK
<1> QED
    BY <1>1 DEF Step, StepOrDrop

-----------------------------------------------------------------------------
(* Type correctness.                                                       *)

\* Rows stay rows when the columns that are written hold values of their kind.
LEMMA CeremonyEdits ==
    ASSUME NEW r \in CeremonyRows
    PROVE  /\ \A st \in CeremonyStates : [r EXCEPT !.state = st] \in CeremonyRows
           /\ \A st \in CeremonyStates, n, m \in Nat :
                [r EXCEPT !.state = st, !.plan = n, !.expires = m] \in CeremonyRows
           /\ \A st \in CeremonyStates, n, m \in Nat, signed \in SUBSET Slots :
                [r EXCEPT !.state = st, !.plan = n, !.expires = m, !.signed = signed] \in CeremonyRows
           /\ \A st \in CeremonyStates, signed \in SUBSET Slots :
                /\ [r EXCEPT !.signed = signed, !.state = st] \in CeremonyRows
                /\ [r EXCEPT !.artifact = signed, !.state = st] \in CeremonyRows
           /\ \A kept \in Reservations : [r EXCEPT !.reservation = kept] \in CeremonyRows
           /\ \A st \in CeremonyStates, kept \in Reservations, n \in Nat :
                [r EXCEPT !.state = st, !.reservation = kept, !.block = n] \in CeremonyRows
           /\ \A st \in CeremonyStates, kept \in Reservations, coin \in Coins0, n \in Nat :
                [r EXCEPT !.state = st, !.reservation = kept, !.coin = coin, !.planned = n] \in CeremonyRows
BY DEF CeremonyRows

LEMMA GateEdits ==
    ASSUME NEW r \in GateRows, NEW signed \in SUBSET Slots
    PROVE  /\ [r EXCEPT !.signed = signed] \in GateRows
           /\ [r EXCEPT !.state = "open", !.snapshot = signed] \in GateRows
BY DEF GateRows

LEMMA FundingEdits ==
    ASSUME NEW r \in FundingRows
    PROVE  /\ \A st \in {"prepared", "confirmed"} : [r EXCEPT !.state = st] \in FundingRows
           /\ \A st \in {"ambiguous", "broadcast"}, coin \in Coins0 :
                [r EXCEPT !.state = st, !.coin = coin] \in FundingRows
           /\ \A signed \in SUBSET Slots : [r EXCEPT !.signed = signed] \in FundingRows
BY DEF FundingRows

LEMMA TypedRoster ==
    ASSUME TypeOK, Roster
    PROVE  TypeOK'
<1> USE DEF TypeOK, chain, launch
<1>1. PICK c \in Ceremonies : \/ CreateDraft(c) \/ FreezeRoster(c) \/ Abandon(c)
                             \/ \E s \in Slots : Invite(c, s) \/ Enroll(c, s)
    BY DEF Roster
<1>2. {"draft", "roster_open", "roster_frozen", "abandoned"} \subseteq CeremonyStates
    BY DEF CeremonyStates
<1>3. ASSUME NEW s \in Slots, NEW seat \in {"invited", "enrolled"}
      PROVE  [seats EXCEPT ![c][s] = seat] \in [Ceremonies -> [Slots -> {"open", "invited", "enrolled"}]]
    OBVIOUS
<1>4. ASSUME NEW s \in Slots, Invite(c, s)
      PROVE  TypeOK'
    BY <1>2, <1>3, <1>4, CeremonyEdits DEF Invite
<1>5. ASSUME NEW s \in Slots, Enroll(c, s)
      PROVE  TypeOK'
    BY <1>3, <1>5 DEF Enroll
<1>6. CASE CreateDraft(c)
    BY <1>2, <1>6, CeremonyEdits DEF CreateDraft
<1>7. CASE FreezeRoster(c)
    BY <1>2, <1>7, CeremonyEdits DEF FreezeRoster
<1>8. CASE Abandon(c)
    BY <1>2, <1>8, CeremonyEdits DEF Abandon
<1> QED
    BY <1>1, <1>4, <1>5, <1>6, <1>7, <1>8

LEMMA TypedPlan ==
    ASSUME TypeOK, Plan
    PROVE  TypeOK'
<1> USE DEF TypeOK, chain, launch
<1>1. PICK c \in Ceremonies : BuildPlan(c) \/ RenewPlan(c) \/ \E s \in Slots : SignPlan(c, s)
    BY DEF Plan
<1>2. ceremonies[c] \in CeremonyRows /\ ceremonies[c].plan + 1 \in Nat /\ now + PlanTTL \in Nat
    BY GenesisAssumption DEF CeremonyRows
<1>3. ASSUME NEW s \in Slots
      PROVE  ceremonies[c].signed \cup {s} \in SUBSET Slots
    BY DEF CeremonyRows
<1>4. {"planned", "plan_approved"} \subseteq CeremonyStates
    BY DEF CeremonyStates
<1>5. CASE BuildPlan(c)
    BY <1>2, <1>4, <1>5, CeremonyEdits DEF BuildPlan
<1>6. CASE RenewPlan(c)
    BY <1>2, <1>4, <1>6, CeremonyEdits DEF RenewPlan
<1>7. ASSUME NEW s \in Slots, SignPlan(c, s)
      PROVE  TypeOK'
    BY <1>2, <1>3, <1>4, <1>7, CeremonyEdits DEF SignPlan
<1> QED
    BY <1>1, <1>5, <1>6, <1>7

LEMMA TypedGate ==
    ASSUME TypeOK, Gate
    PROVE  TypeOK'
<1> USE DEF TypeOK, chain, launch
<1>1. ASSUME NEW c \in Ceremonies, NEW s \in Slots, ProposeGate(c, s)
      PROVE  TypeOK'
    BY <1>1, GenesisAssumption DEF ProposeGate, GateRows
<1>2. ASSUME NEW c \in Ceremonies, NEW s \in Slots, ApproveGate(c, s)
      PROVE  TypeOK'
    <2>1. gates[c] \in GateRows /\ gates[c].signed \cup {s} \in SUBSET Slots
        BY DEF GateRows
    <2> QED
        BY <1>2, <2>1, GateEdits DEF ApproveGate
<1>3. ASSUME NEW c \in Ceremonies, ActivateGate(c)
      PROVE  TypeOK'
    <2>1. gates[c] \in GateRows /\ gates[c].signed \in SUBSET Slots
        BY DEF GateRows
    <2> QED
        BY <1>3, <2>1, GateEdits DEF ActivateGate
<1> QED
    BY <1>1, <1>2, <1>3 DEF Gate

LEMMA TypedFund ==
    ASSUME TypeOK, Fund
    PROVE  TypeOK'
<1> USE DEF TypeOK, chain, launch
<1>1. ASSUME NEW c \in Ceremonies, NEW s \in Slots, PrepareFunding(c, s)
      PROVE  TypeOK'
    BY <1>1, FundingEdits DEF PrepareFunding
<1>3. ASSUME NEW c \in Ceremonies, NEW s \in Slots, ApproveFunding(c, s)
      PROVE  TypeOK'
    <2>1. funding[c] \in FundingRows /\ funding[c].signed \cup {s} \in SUBSET Slots
        BY DEF FundingRows
    <2> QED
        BY <1>3, <2>1, FundingEdits DEF ApproveFunding
<1>4. ASSUME NEW c \in Ceremonies, NEW s \in Slots, ConfirmFunding(c, s)
      PROVE  TypeOK'
    BY <1>4, FundingEdits DEF ConfirmFunding
<1>2. ASSUME NEW c \in Ceremonies, NEW h \in Handlers, ExecuteFunding(h, c)
      PROVE  TypeOK'
    <2>1. [at |-> "submit", kind |-> "fund", c |-> c, coin |-> NoCoin, replay |-> FALSE,
           known |-> funding[c].coin] \in Requests
        BY DEF Requests, FundRequests, Submitting, Coins0, FundingRows
    <2> QED
        BY <1>2, <2>1, StepTyped DEF ExecuteFunding, ledger
<1> QED
    BY <1>1, <1>2, <1>3, <1>4 DEF Fund

LEMMA TypedPublish ==
    ASSUME TypeOK, Publish
    PROVE  TypeOK'
<1> USE DEF TypeOK, chain, launch
<1>1. ASSUME NEW c \in Ceremonies, CreateArtifact(c)
      PROVE  TypeOK'
    BY <1>1, CeremonyEdits DEF CreateArtifact, CeremonyStates, Reserved
<1>2. ASSUME NEW c \in Ceremonies, NEW s \in Slots, SignArtifact(c, s)
      PROVE  TypeOK'
    <2>1. ceremonies[c] \in CeremonyRows /\ ceremonies[c].artifact \cup {s} \in SUBSET Slots
        BY DEF CeremonyRows
    <2> QED
        BY <1>2, <2>1, CeremonyEdits DEF SignArtifact, CeremonyStates, Reserved
<1>3. ASSUME NEW c \in Ceremonies, NEW h \in Handlers, StartFinalize(h, c)
      PROVE  TypeOK'
    <2>1. [at |-> "verify", c |-> c, signed |-> ceremonies[c].artifact] \in Requests
        BY DEF Requests, PublishRequests, CeremonyRows
    <2> QED
        BY <1>3, <2>1, StepTyped DEF StartFinalize, ledger
<1> QED
    BY <1>1, <1>2, <1>3 DEF Publish

LEMMA TypedBroadcast ==
    ASSUME TypeOK, Broadcast
    PROVE  TypeOK'
<1> USE DEF TypeOK, chain, launch, ledger
<1>0. PICK h \in Handlers, c \in Ceremonies :
        StartBroadcast(h, c) \/ StartReplay(h, c) \/ ReadInputs(h, c)
    BY DEF Broadcast
<1>1. CASE StartBroadcast(h, c)
    <2>1. [at |-> "submit", kind |-> "genesis", c |-> c, coin |-> NoCoin, replay |-> FALSE,
           plan |-> ceremonies[c].plan, opens |-> gates[c].opens, closes |-> gates[c].closes] \in Requests
        BY DEF Requests, BroadcastRequests, Submitting, Coins0, CeremonyRows, GateRows
    <2> QED
        BY <1>1, <2>1, StepTyped DEF StartBroadcast
<1>2. CASE StartReplay(h, c)
    <2>1. [at |-> "replay", kind |-> "genesis", c |-> c, coin |-> ceremonies[c].coin, replay |-> TRUE,
           opens |-> gates[c].opens, closes |-> gates[c].closes] \in Requests
        BY DEF Requests, ReplayRequests, CeremonyRows, GateRows
    <2> QED
        BY <1>2, <2>1, StepTyped DEF StartReplay
<1>3. CASE ReadInputs(h, c)
    <2>1. [at |-> "outputs", c |-> c, reservation |-> ceremonies[c].reservation, block |-> height[c]] \in Requests
        BY DEF Requests, ConfirmRequests, Confirming, CeremonyRows
    <2> QED
        BY <1>3, <2>1, StepTyped DEF ReadInputs
<1> QED
    BY <1>0, <1>1, <1>2, <1>3

\* The steps of a request under way.
LEMMA TypedSubmitter ==
    ASSUME TypeOK, NEW h \in Handlers, Seal(h) \/ Push(h)
    PROVE  TypeOK'
<1> USE DEF TypeOK, launch, ledger
<1> DEFINE x == handlers[h]
<1>0. x \in Requests /\ Idle \in Requests
    BY DEF Requests
<1>1. CASE Seal(h)
    <2>1. x \in FundRequests \cup BroadcastRequests /\ x.c \in Ceremonies /\ x.kind \in Kinds
        BY <1>0, <1>1, RequestKind DEF Seal, FundRequests, BroadcastRequests, Kinds
    <2>2. ASSUME NEW coin \in Coins0
          PROVE  [x EXCEPT !.at = "sealed", !.coin = coin] \in Requests
        BY <2>1, Moves DEF Requests
    <2>3. CASE /\ Step(h, [x EXCEPT !.at = "sealed", !.coin = journal[x.c][x.kind]])
               /\ UNCHANGED journal
        <3>1. journal[x.c][x.kind] \in Coins0
            BY <2>1
        <3>2. handlers' \in [Handlers -> Requests]
            BY <2>2, <2>3, <3>1, StepTyped
        <3> QED
            BY <1>1, <2>3, <3>2 DEF Seal, chain
    <2>4. ASSUME NEW coin \in Till,
                 journal' = [journal EXCEPT ![x.c][x.kind] = coin],
                 Step(h, [x EXCEPT !.at = "sealed", !.coin = coin])
          PROVE  TypeOK'
        <3>1. coin \in Coins0
            BY DEF Coins0
        <3>2. handlers' \in [Handlers -> Requests]
            BY <2>2, <2>4, <3>1, StepTyped
        <3>3. journal' \in [Ceremonies -> [Kinds -> Coins0]]
            BY <2>4, <3>1
        <3> QED
            BY <1>1, <3>2, <3>3 DEF Seal, chain
    <2> QED
        BY <1>1, <2>3, <2>4 DEF Seal
<1>2. CASE Push(h)
    <2>1. x \in FundRequests \cup BroadcastRequests \cup ReplayRequests
        BY <1>0, <1>2, RequestKind DEF Push
    <2>2. Bundle(x.kind, x.c, x.coin) \in Bundles
        BY <2>1 DEF Bundle, Bundles, Kinds, FundRequests, BroadcastRequests, ReplayRequests
    <2>3. [x EXCEPT !.at = "record"] \in Requests
        BY <2>1, Moves DEF Requests, Submitting
    <2>4. handlers' \in [Handlers -> Requests]
        BY <1>0, <1>2, <2>3, StepTyped DEF Push
    <2>5. mempool' \subseteq Bundles
        BY <1>2, <2>2 DEF Push
    <2> QED
        BY <1>2, <2>4, <2>5 DEF Push
<1> QED
    BY <1>1, <1>2

LEMMA TypedFunding ==
    ASSUME TypeOK, NEW h \in Handlers, PreserveFunding(h) \/ RecordFunding(h)
    PROVE  TypeOK'
<1> USE DEF TypeOK, launch, chain
<1> DEFINE x == handlers[h]
<1>1. x \in FundRequests /\ Idle \in Requests
    BY RequestKind DEF Requests, PreserveFunding, RecordFunding
<1>2. x.c \in Ceremonies /\ x.coin \in Coins0 /\ [x EXCEPT !.at = "push"] \in Requests
    BY <1>1, Moves DEF FundRequests, Requests, Submitting
<1>3. CASE PreserveFunding(h)
    <2>1. handlers' \in [Handlers -> Requests]
        BY <1>2, <1>3, StepTyped DEF PreserveFunding
    <2>2. funding' \in [Ceremonies -> FundingRows]
        BY <1>2, <1>3, FundingEdits DEF PreserveFunding
    <2> QED
        BY <1>3, <2>1, <2>2 DEF PreserveFunding
<1>4. CASE RecordFunding(h)
    <2>1. handlers' \in [Handlers -> Requests]
        BY <1>1, <1>4, StepTyped DEF RecordFunding
    <2>2. funding' \in [Ceremonies -> FundingRows]
        BY <1>2, <1>4, FundingEdits DEF RecordFunding
    <2> QED
        BY <1>4, <2>1, <2>2 DEF RecordFunding
<1> QED
    BY <1>3, <1>4

LEMMA TypedReservation ==
    ASSUME TypeOK, NEW h \in Handlers,
           \/ Reserve(h) \/ RecordBroadcast(h) \/ Replay(h)
           \/ ReadOutputs(h) \/ ReadPeak(h) \/ Confirm(h)
    PROVE  TypeOK'
<1> USE DEF TypeOK, launch, chain
<1> DEFINE x == handlers[h]
<1>0. x \in Requests /\ Idle \in Requests
    BY DEF Requests
<1>1. Reserved \subseteq CeremonyStates /\ {"RESERVED", "FINALIZED"} \subseteq Reservations
    BY DEF CeremonyStates, Reservations
<1>2. ASSUME NEW may, ReserveIf(h, may)
      PROVE  TypeOK'
    <2>1. x \in BroadcastRequests
        BY <1>0, <1>2, RequestKind DEF ReserveIf
    <2>2. /\ x.c \in Ceremonies /\ x.coin \in Coins0 /\ x.plan \in Nat
          /\ [x EXCEPT !.at = "push"] \in Requests
        BY <2>1, Moves DEF BroadcastRequests, Requests, Submitting
    <2>3. handlers' \in [Handlers -> Requests]
        BY <1>2, <2>2, StepTyped DEF ReserveIf
    <2>4. ceremonies' \in [Ceremonies -> CeremonyRows]
        BY <1>1, <1>2, <2>2, CeremonyEdits DEF ReserveIf, Reserved
    <2>5. singleton' \in [owner : Ceremonies \cup {NoCeremony}, publication : SUBSET Slots]
        BY <1>2, <2>2 DEF ReserveIf
    <2> QED
        BY <1>2, <2>3, <2>4, <2>5 DEF ReserveIf
<1>3. CASE RecordBroadcast(h)
    <2>1. x \in BroadcastRequests \cup ReplayRequests
        BY <1>0, <1>3, RequestKind DEF RecordBroadcast, FundRequests
    <2>2. x.c \in Ceremonies
        BY <2>1 DEF BroadcastRequests, ReplayRequests
    <2>3. ceremonies' \in [Ceremonies -> CeremonyRows]
        BY <1>1, <1>3, <2>2, CeremonyEdits DEF RecordBroadcast
    <2> QED
        BY <1>0, <1>3, <2>3, StepTyped DEF RecordBroadcast
<1>4. CASE Replay(h)
    <2>1. [x EXCEPT !.at = "push"] \in Requests
        BY <1>0, <1>4, RequestKind, Moves DEF Replay, Requests
    <2> QED
        BY <1>4, <2>1, StepTyped DEF Replay, ledger
<1>5. CASE Confirm(h)
    <2>1. x.c \in Ceremonies /\ x.block \in Nat
        BY <1>0, <1>5, RequestKind DEF Confirm, ConfirmRequests, Confirming
    <2>2. ceremonies' \in [Ceremonies -> CeremonyRows]
        BY <1>1, <1>5, <2>1, CeremonyEdits DEF Confirm, Reserved
    <2> QED
        BY <1>0, <1>5, <2>2, StepTyped DEF Confirm
<1>6. CASE ReadOutputs(h) \/ ReadPeak(h)
    <2>0. x \in ConfirmRequests
        BY <1>0, <1>6, RequestKind DEF ReadOutputs, ReadPeak, Confirming
    <2>1. ASSUME NEW a \in Confirming
          PROVE  [x EXCEPT !.at = a] \in Requests
        <3>1. [x EXCEPT !.at = a] \in ConfirmRequests
            BY <2>0 DEF ConfirmRequests
        <3> QED
            BY <3>1 DEF Requests
    <2>2. "peak" \in Confirming /\ "confirm" \in Confirming
        BY DEF Confirming
    <2> QED
        BY <1>6, <2>1, <2>2, StepTyped DEF ReadOutputs, ReadPeak, ledger
<1> QED
    BY <1>2, <1>3, <1>4, <1>5, <1>6 DEF Reserve

LEMMA TypedPublication ==
    ASSUME TypeOK, NEW h \in Handlers,
           BindPublication(h) \/ WritePublic(h) \/ WriteLock(h) \/ MarkLocked(h)
    PROVE  TypeOK'
<1> USE DEF TypeOK, launch, chain
<1> DEFINE x == handlers[h]
<1>0. x.at \in {"verify"} \cup Publishing
    BY DEF Publishing, BindPublication, WritePublic, WriteLock, MarkLocked
<1>1. /\ x \in PublishRequests /\ Idle \in Requests
      /\ x.c \in Ceremonies /\ x.signed \in SUBSET Slots
    <2>1. x \in Requests /\ Idle \in Requests
        BY DEF Requests
    <2>2. x \in PublishRequests
        BY <1>0, <2>1, RequestKind
    <2> QED
        BY <2>1, <2>2 DEF PublishRequests
<1>2. ASSUME NEW a \in Publishing
      PROVE  [x EXCEPT !.at = a] \in Requests
    BY <1>1, Moves DEF Requests
<1>3. CASE BindPublication(h)
    <2>1. handlers' \in [Handlers -> Requests]
        BY <1>2, <1>3, StepTyped DEF BindPublication, Publishing
    <2>2. singleton' \in [owner : Ceremonies \cup {NoCeremony}, publication : SUBSET Slots]
        BY <1>1, <1>3 DEF BindPublication
    <2> QED
        BY <1>3, <2>1, <2>2 DEF BindPublication
<1>4. CASE WritePublic(h)
    <2>1. handlers' \in [Handlers -> Requests]
        BY <1>2, <1>4, StepTyped DEF WritePublic, Publishing
    <2>2. files' \in [public : SUBSET Slots, lock : Ceremonies \cup {NoCeremony}]
        BY <1>1, <1>4 DEF WritePublic
    <2> QED
        BY <1>4, <2>1, <2>2 DEF WritePublic
<1>5. CASE WriteLock(h)
    <2>1. handlers' \in [Handlers -> Requests]
        BY <1>2, <1>5, StepTyped DEF WriteLock, Publishing
    <2>2. files' \in [public : SUBSET Slots, lock : Ceremonies \cup {NoCeremony}]
        BY <1>1, <1>5 DEF WriteLock
    <2> QED
        BY <1>5, <2>1, <2>2 DEF WriteLock
<1>6. CASE MarkLocked(h)
    <2>1. ceremonies' \in [Ceremonies -> CeremonyRows]
        BY <1>1, <1>6, CeremonyEdits DEF MarkLocked, CeremonyStates, Reserved
    <2> QED
        BY <1>1, <1>6, <2>1, StepTyped DEF MarkLocked
<1> QED
    BY <1>3, <1>4, <1>5, <1>6

LEMMA TypedRehearsal ==
    ASSUME TypeOK, Rehearse
    PROVE  TypeOK'
<1> USE DEF TypeOK, ledger, chain
<1>0. Idle \in Requests
    BY DEF Requests
<1>1. ASSUME NEW h \in Handlers, PollRehearsal(h)
      PROVE  TypeOK'
    <2>1. rehearsal.job \in Jobs /\ remote[rehearsal.job] \in RemoteStates
        BY <1>1 DEF PollRehearsal, Running
    <2>2. [at |-> "store", job |-> rehearsal.job, state |-> remote[rehearsal.job]] \in Requests
        BY <2>1 DEF Requests, RehearsalRequests
    <2> QED
        BY <1>1, <2>2, StepTyped DEF PollRehearsal, launch
<1>2. ASSUME NEW h \in Handlers, StoreRehearsal(h)
      PROVE  TypeOK'
    <2>1. handlers[h].job \in Jobs /\ handlers[h].state \in RemoteStates
        BY <1>2, RequestKind DEF StoreRehearsal, RehearsalRequests
    <2>2. handlers' \in [Handlers -> Requests]
        BY <1>0, <1>2, StepTyped DEF StoreRehearsal
    <2> QED
        BY <1>2, <2>1, <2>2 DEF StoreRehearsal
<1>3. ASSUME NEW h \in Handlers, NEW c \in Ceremonies, StartRehearsal(h, c)
      PROVE  TypeOK'
    <2>1. PICK j \in Jobs : /\ remote' = [remote EXCEPT ![j] = "PREPARED"]
                            /\ Step(h, [at |-> "store", job |-> j, state |-> "PREPARED"])
        BY <1>3 DEF StartRehearsal
    <2>2. [at |-> "store", job |-> j, state |-> "PREPARED"] \in Requests
        BY DEF Requests, RehearsalRequests, RemoteStates
    <2>3. remote' \in [Jobs -> RemoteStates]
        BY <2>1 DEF RemoteStates
    <2> QED
        BY <1>3, <2>1, <2>2, <2>3, StepTyped DEF StartRehearsal
<1>4. ASSUME NEW j \in Jobs, RemoteMoves(j)
      PROVE  TypeOK'
    <2>1. PICK s \in {"PAID", "SUCCEEDED", "FAILED"} : remote' = [remote EXCEPT ![j] = s]
        BY <1>4 DEF RemoteMoves
    <2>2. s \in RemoteStates
        BY DEF RemoteStates
    <2> QED
        BY <1>4, <2>1, <2>2 DEF RemoteMoves
<1>5. ASSUME NEW c \in Ceremonies, OpenOperational(c)
      PROVE  TypeOK'
    BY <1>5 DEF OpenOperational
<1> QED
    BY <1>1, <1>2, <1>3, <1>4, <1>5 DEF Rehearse

LEMMA TypedWorld ==
    ASSUME TypeOK, Chain \/ Crash \/ Tick \/ UNCHANGED vars
    PROVE  TypeOK'
<1> USE DEF TypeOK, ledger, launch
<1>1. CASE Chain
    <2>1. ASSUME NEW b \in mempool, Mine(b)
          PROVE  TypeOK'
        BY <2>1 DEF Mine
    <2>2. ASSUME NEW b \in mempool, Evict(b)
          PROVE  TypeOK'
        BY <2>2 DEF Evict
    <2>3. ASSUME NEW b \in mined, Reorg(b)
          PROVE  TypeOK'
        BY <2>3 DEF Reorg
    <2>4. CASE NextBlock
        BY <2>4 DEF NextBlock
    <2> QED
        BY <1>1, <2>1, <2>2, <2>3, <2>4 DEF Chain
<1>2. CASE Crash
    BY <1>2 DEF Crash, Requests, chain
<1>3. CASE Tick
    BY <1>3 DEF Tick, chain
<1>4. CASE UNCHANGED vars
    BY <1>4 DEF vars, chain
<1> QED
    BY <1>1, <1>2, <1>3, <1>4

LEMMA Typing == TypeOK /\ [Next]_vars => TypeOK'
<1>1. ASSUME TypeOK, Request
      PROVE  TypeOK'
    BY <1>1, TypedSubmitter, TypedFunding, TypedReservation, TypedPublication DEF Request
<1> QED
    BY <1>1, TypedRoster, TypedPlan, TypedGate, TypedFund, TypedPublish, TypedBroadcast,
       TypedRehearsal, TypedWorld DEF Next

-----------------------------------------------------------------------------
(* What a request relies on holds while others act.                        *)

LEMMA Holding ==
    ASSUME TypeOK, Stable, NEW h \in Handlers, HandlerOK(h), handlers'[h] = handlers[h]
    PROVE  HandlerOK(h)'
<1> DEFINE x == handlers[h]
<1>0. x \in Requests
    BY DEF TypeOK
<1>1. ASSUME x.at \in {"sealed", "push", "record"}, x.kind = "fund"
      PROVE  /\ (x.coin # NoCoin /\ x.coin = journal[x.c]["fund"])'
             /\ x.at \in {"push", "record"} => (funding[x.c].coin = x.coin)'
    <2>1. x.c \in Ceremonies
        BY <1>0, <1>1, RequestKind DEF FundRequests
    <2> QED
        BY <1>1, <2>1 DEF HandlerOK, Stable
<1>2. ASSUME x.at \in {"replay", "push", "record"}, x.kind = "genesis"
      PROVE  (singleton.owner = x.c /\ ceremonies[x.c].coin = x.coin)'
    <2>1. x.c \in Ceremonies
        BY <1>0, <1>2, RequestKind DEF FundRequests, BroadcastRequests, ReplayRequests
    <2> QED
        BY <1>2, <2>1 DEF HandlerOK, Stable
<1>4. ASSUME x.at \in {"verify"} \cup Publishing
      PROVE  /\ (ceremonies[x.c].state \in {"artifact_signed", "locked"})'
             /\ x.at \in Publishing =>
                  (singleton.owner = x.c /\ singleton.publication = x.signed /\ x.signed # Unbound)'
             /\ x.at \in {"lock", "locked"} => (files.public = x.signed)'
             /\ x.at = "locked" => (files.lock = x.c)'
    <2>1. x.c \in Ceremonies
        BY <1>0, <1>4, RequestKind DEF PublishRequests
    <2>2. x.at \in {"lock", "locked"} => x.at \in Publishing
        BY DEF Publishing
    <2>3. x.c # NoLock
        BY <2>1, GenesisAssumption DEF NoLock
    <2>4. (ceremonies[x.c].state \in {"artifact_signed", "locked"})'
        BY <1>4, <2>1 DEF HandlerOK, Stable
    <2>5. x.at \in Publishing =>
            (singleton.owner = x.c /\ singleton.publication = x.signed /\ x.signed # Unbound)'
        BY <1>4, <2>1 DEF HandlerOK, Stable
    <2>6. x.at \in {"lock", "locked"} => (files.public = x.signed)'
        BY <1>4, <2>2 DEF HandlerOK, Stable, Unbound, NoFile
    <2>7. x.at = "locked" => (files.lock = x.c)'
        BY <1>4, <2>3 DEF HandlerOK, Stable
    <2> QED
        BY <2>4, <2>5, <2>6, <2>7
<1>5. x.at \in {"lock", "locked"} => x.at \in {"verify"} \cup Publishing
    BY DEF Publishing
<1> QED
    BY <1>1, <1>2, <1>4, <1>5 DEF HandlerOK

LEMMA HoldingAll ==
    ASSUME TypeOK, Stable, Requested
    PROVE  /\ UNCHANGED handlers => Requested'
           /\ \A h \in Handlers : \A next : Step(h, next) /\ HandlerOK(h)' => Requested'
<1>1. UNCHANGED handlers => Requested'
    BY Holding DEF Requested
<1>2. ASSUME NEW h \in Handlers, NEW next, Step(h, next), HandlerOK(h)'
      PROVE  Requested'
    <2>1. ASSUME NEW g \in Handlers, g # h
          PROVE  HandlerOK(g)'
        <3>1. handlers'[g] = handlers[g]
            BY <1>2, <2>1 DEF Step, TypeOK
        <3> QED
            BY <3>1, Holding DEF Requested
    <2> QED
        BY <1>2, <2>1 DEF Requested
<1> QED
    BY <1>1, <1>2

\* A request that ends relies on nothing.
LEMMA Ending ==
    ASSUME TypeOK, NEW h \in Handlers, Step(h, Idle)
    PROVE  HandlerOK(h)'
<1>1. handlers'[h].at = "idle"
    BY DEF Step, TypeOK, Idle
<1> QED
    BY <1>1 DEF HandlerOK, Publishing

-----------------------------------------------------------------------------
(* Before the broadcast: drafts, the roster, the plan.                     *)

\* A row that is not past its broadcast, and is not taken past it.
Early(c) ==
    /\ c \in Ceremonies
    /\ \A d \in Ceremonies \ {c} : ceremonies'[d] = ceremonies[d]
    /\ ceremonies[c].state \notin Reserved /\ ceremonies'[c].state \notin Reserved
    /\ ceremonies'[c].coin = ceremonies[c].coin /\ ceremonies'[c].artifact = ceremonies[c].artifact
    /\ ceremonies'[c].state = "plan_approved" => OwnerPlusOne(ceremonies'[c].signed)
    /\ UNCHANGED <<gates, funding, journal, singleton, files, handlers, chain, launch>>

LEMMA EarlyKeeps ==
    ASSUME IInv, NEW c, Early(c)
    PROVE  Facts' /\ Stable
<1> USE DEF IInv, Facts, chain, launch
<1>1. \A d \in Ceremonies : /\ ceremonies'[d].coin = ceremonies[d].coin
                            /\ ceremonies'[d].artifact = ceremonies[d].artifact
    BY DEF Early
<1>2. \A d \in Ceremonies : ceremonies'[d].state \in Reserved => ceremonies'[d] = ceremonies[d]
    BY DEF Early
<1>3. {"broadcast", "confirmed", "artifact_pending", "artifact_signed", "locked"} \subseteq Reserved
    BY DEF Reserved
<1>4. SlotTaken'
    BY DEF LedgerOK, SlotTaken, Early
<1>5. Approved'
    <2>1. \A d \in Ceremonies : ceremonies'[d].state = "plan_approved" => OwnerPlusOne(ceremonies'[d].signed)
        BY DEF LedgerOK, Approved, Early
    <2>2. UNCHANGED gates
        BY DEF Early
    <2>3. \A d \in Ceremonies : ceremonies'[d].state \in {"artifact_signed", "locked"} =>
            OwnerPlusOne(ceremonies'[d].artifact)
        BY <1>2, <1>3 DEF LedgerOK, Approved
    <2> QED
        BY <2>1, <2>2, <2>3 DEF LedgerOK, Approved
<1>6. BroadcastIsSigned'
    BY <1>2 DEF LedgerOK, BroadcastIsSigned
<1>7. ReceiptIsSealed'
    BY DEF LedgerOK, ReceiptIsSealed, Early
<1>9. Published'
    <2>1. singleton.owner \in Ceremonies \cup {NoCeremony}
        BY DEF TypeOK
    <2>2. UNCHANGED <<singleton, files>>
        BY DEF Early
    <2>3. \A d \in Ceremonies : ceremonies'[d].state = "locked" => files.lock = d
        BY <1>2, <1>3 DEF LedgerOK, Published
    <2> QED
        BY <1>1, <2>1, <2>2, <2>3 DEF LedgerOK, Published
<1>10. OneGenesis'
    <2>1. \A b \in mempool \cup mined : b.c \in Ceremonies
        BY DEF TypeOK, Bundles
    <2> QED
        BY <1>1, <2>1 DEF OneGenesis, Early
<1>11. FanOutIsPaid'
    BY DEF FanOutIsPaid, FanOutIsKnown, Early
<1>12. Rehearsed'
    BY DEF Rehearsed, Early
<1>13. Stable
    BY <1>1, <1>3 DEF Stable, Early
<1>14. Requested'
    BY <1>13, HoldingAll DEF Early
<1> QED
    BY <1>4, <1>5, <1>6, <1>7, <1>9, <1>10, <1>11, <1>12, <1>13, <1>14 DEF LedgerOK

LEMMA RosterIsEarly ==
    ASSUME IInv, Roster
    PROVE  \E c : Early(c)
<1> USE DEF IInv
<1>1. PICK c \in Ceremonies : \/ CreateDraft(c) \/ FreezeRoster(c) \/ Abandon(c)
                             \/ \E s \in Slots : Invite(c, s) \/ Enroll(c, s)
    BY DEF Roster
<1>2. CASE CreateDraft(c) \/ FreezeRoster(c) \/ Abandon(c)
    <2>1. Early(c)
        BY <1>2 DEF CreateDraft, FreezeRoster, Abandon, Early, TypeOK, CeremonyRows, Reserved
    <2> QED
        BY <2>1
<1>3. ASSUME NEW s \in Slots, Invite(c, s)
      PROVE  Early(c)
    BY <1>3 DEF Invite, Early, TypeOK, CeremonyRows, Reserved
<1>4. ASSUME NEW s \in Slots, Enroll(c, s)
      PROVE  Early(c)
    BY <1>4 DEF Enroll, Early, TypeOK, CeremonyRows, Reserved
<1> QED
    BY <1>1, <1>2, <1>3, <1>4

LEMMA PlanIsEarly ==
    ASSUME IInv, Plan
    PROVE  \E c : Early(c)
<1> USE DEF IInv
<1>1. PICK c \in Ceremonies : BuildPlan(c) \/ RenewPlan(c) \/ \E s \in Slots : SignPlan(c, s)
    BY DEF Plan
<1>2. CASE BuildPlan(c)
    <2>1. Early(c)
        BY <1>2 DEF BuildPlan, Early, TypeOK, CeremonyRows, Reserved
    <2> QED
        BY <2>1
<1>3. CASE RenewPlan(c)
    <2>1. /\ ceremonies'[c].state = "planned"
          /\ ceremonies'[c].coin = ceremonies[c].coin
          /\ ceremonies'[c].artifact = ceremonies[c].artifact
          /\ \A d \in Ceremonies \ {c} : ceremonies'[d] = ceremonies[d]
        BY <1>3 DEF RenewPlan, TypeOK, CeremonyRows
    <2>2. ceremonies[c].state \notin Reserved /\ "planned" \notin Reserved
        BY <1>3 DEF RenewPlan, Reserved
    <2>3. Early(c)
        BY <1>3, <2>1, <2>2 DEF RenewPlan, Early
    <2> QED
        BY <2>3
<1>4. ASSUME NEW s \in Slots, SignPlan(c, s)
      PROVE  Early(c)
    <2> DEFINE signed == ceremonies[c].signed \cup {s}
    <2>1. /\ ceremonies'[c].signed = signed /\ ceremonies'[c].coin = ceremonies[c].coin
          /\ ceremonies'[c].artifact = ceremonies[c].artifact
          /\ ceremonies'[c].state = IF OwnerPlusOne(signed) THEN "plan_approved" ELSE "planned"
          /\ \A d \in Ceremonies \ {c} : ceremonies'[d] = ceremonies[d]
        BY <1>4 DEF SignPlan, TypeOK, CeremonyRows
    <2>2. ceremonies[c].state \notin Reserved /\ {"planned", "plan_approved"} \cap Reserved = {}
        BY <1>4 DEF SignPlan, Reserved
    <2>3. ceremonies'[c].state \notin Reserved
        BY <2>1, <2>2
    <2>4. ceremonies'[c].state = "plan_approved" => OwnerPlusOne(signed)
        BY <2>1
    <2> QED
        BY <1>4, <2>1, <2>2, <2>3, <2>4 DEF SignPlan, Early
<1> QED
    BY <1>1, <1>2, <1>3, <1>4

-----------------------------------------------------------------------------
(* Steps beside the ceremony's row: gates, approvals, requests that start. *)

\* Windows are opened by those who signed them; the coins stay.
Aside ==
    /\ \A c \in Ceremonies : gates'[c].state = "open" => OwnerPlusOne(gates'[c].snapshot)
    /\ \A c \in Ceremonies : funding'[c].coin = funding[c].coin
    /\ Rehearsed'
    /\ UNCHANGED <<ceremonies, journal, singleton, files, chain>>

LEMMA AsideKeeps ==
    ASSUME IInv, Aside
    PROVE  LedgerOK' /\ OneGenesis' /\ FanOutIsPaid' /\ Rehearsed' /\ Stable
<1> USE DEF IInv, Facts, Aside, chain
<1>1. SlotTaken' /\ Approved' /\ BroadcastIsSigned' /\ ReceiptIsSealed'
    BY DEF LedgerOK, SlotTaken, Approved, BroadcastIsSigned, ReceiptIsSealed
<1>2. Published'
    BY DEF LedgerOK, Published
<1>3. OneGenesis'
    BY DEF OneGenesis
<1>4. FanOutIsPaid'
    <2>1. \A b \in mempool \cup mined : b.c \in Ceremonies
        BY DEF TypeOK, Bundles
    <2> QED
        BY <2>1 DEF FanOutIsPaid, FanOutIsKnown
<1>5. Stable
    BY DEF Stable
<1> QED
    BY <1>1, <1>2, <1>3, <1>4, <1>5 DEF LedgerOK

LEMMA GateKeeps ==
    ASSUME IInv, Gate
    PROVE  Facts' /\ Stable
<1> USE DEF IInv, Facts, chain, launch
<1>0. \A c \in Ceremonies : gates[c].state = "open" => OwnerPlusOne(gates[c].snapshot)
    BY DEF LedgerOK, Approved
<1>1. ASSUME NEW c \in Ceremonies, NEW s \in Slots, ProposeGate(c, s)
      PROVE  Aside
    BY <1>0, <1>1 DEF ProposeGate, Aside, Rehearsed, TypeOK
<1>2. ASSUME NEW c \in Ceremonies, NEW s \in Slots, ApproveGate(c, s)
      PROVE  Aside
    BY <1>0, <1>2 DEF ApproveGate, Aside, Rehearsed, TypeOK, GateRows
<1>3. ASSUME NEW c \in Ceremonies, ActivateGate(c)
      PROVE  Aside
    BY <1>0, <1>3 DEF ActivateGate, Aside, Rehearsed, TypeOK, GateRows
<1>4. UNCHANGED handlers
    BY DEF Gate, ProposeGate, ApproveGate, ActivateGate
<1> QED
    BY <1>1, <1>2, <1>3, <1>4, AsideKeeps, HoldingAll DEF Gate

\* A request that starts and what it read is still so.
LEMMA Starting ==
    ASSUME IInv, NEW h \in Handlers, NEW next, Step(h, next),
           UNCHANGED <<now, ledger, chain, launch>>, HandlerOK(h)'
    PROVE  Facts' /\ Stable
<1>1. Aside
    BY DEF Aside, IInv, Facts, LedgerOK, Approved, Rehearsed, ledger, launch
<1> QED
    BY <1>1, AsideKeeps, HoldingAll DEF IInv, Facts

LEMMA FundKeeps ==
    ASSUME IInv, Fund
    PROVE  Facts' /\ Stable
<1> USE DEF IInv, Facts, chain, launch
<1>0. \A c \in Ceremonies : gates[c].state = "open" => OwnerPlusOne(gates[c].snapshot)
    BY DEF LedgerOK, Approved
<1>1. ASSUME NEW c \in Ceremonies, NEW s \in Slots,
             PrepareFunding(c, s) \/ ApproveFunding(c, s) \/ ConfirmFunding(c, s)
      PROVE  Facts' /\ Stable
    <2>1. \A d \in Ceremonies : funding'[d].coin = funding[d].coin
        <3> USE DEF TypeOK, FundingRows
        <3>1. CASE PrepareFunding(c, s)
            BY <3>1 DEF PrepareFunding
        <3>2. CASE ApproveFunding(c, s)
            BY <3>2 DEF ApproveFunding
        <3>3. CASE ConfirmFunding(c, s)
            BY <3>3 DEF ConfirmFunding
        <3> QED
            BY <1>1, <3>1, <3>2, <3>3
    <2>2. UNCHANGED <<ceremonies, gates, journal, singleton, files, handlers, chain, launch>>
        BY <1>1 DEF PrepareFunding, ApproveFunding, ConfirmFunding
    <2>3. Aside
        BY <1>0, <2>1, <2>2 DEF Aside, Rehearsed
    <2> QED
        BY <2>2, <2>3, AsideKeeps, HoldingAll
<1>2. ASSUME NEW c \in Ceremonies, NEW h \in Handlers, ExecuteFunding(h, c)
      PROVE  Facts' /\ Stable
    <2>1. handlers'[h].at = "submit"
        BY <1>2 DEF ExecuteFunding, Step, TypeOK
    <2>2. HandlerOK(h)'
        BY <2>1 DEF HandlerOK, Publishing
    <2> QED
        BY <1>2, <2>2, Starting DEF ExecuteFunding
<1> QED
    BY <1>1, <1>2 DEF Fund

LEMMA BroadcastKeeps ==
    ASSUME IInv, Broadcast
    PROVE  Facts' /\ Stable
<1> USE DEF IInv, Facts
<1>0. PICK h \in Handlers, c \in Ceremonies :
        StartBroadcast(h, c) \/ StartReplay(h, c) \/ ReadInputs(h, c)
    BY DEF Broadcast
<1>1. ceremonies[c].state = "broadcast" => singleton.owner = c
    BY DEF LedgerOK, SlotTaken, Reserved
<1>2. CASE StartBroadcast(h, c)
    <2>1. handlers'[h].at = "submit"
        BY <1>2 DEF StartBroadcast, Step, TypeOK
    <2>2. HandlerOK(h)'
        BY <2>1 DEF HandlerOK, Publishing
    <2> QED
        BY <1>2, <2>2, Starting DEF StartBroadcast
<1>3. CASE StartReplay(h, c)
    <2>1. /\ handlers'[h].at = "replay" /\ handlers'[h].kind = "genesis"
          /\ handlers'[h].c = c /\ handlers'[h].coin = ceremonies[c].coin
        BY <1>3 DEF StartReplay, Step, TypeOK
    <2>2. HandlerOK(h)'
        BY <1>1, <1>3, <2>1 DEF HandlerOK, Publishing, StartReplay, ledger
    <2> QED
        BY <1>3, <2>2, Starting DEF StartReplay
<1>4. CASE ReadInputs(h, c)
    <2>1. handlers'[h].at = "outputs"
        BY <1>4 DEF ReadInputs, Step, TypeOK
    <2>2. HandlerOK(h)'
        BY <2>1 DEF HandlerOK, Publishing
    <2> QED
        BY <1>4, <2>2, Starting DEF ReadInputs
<1> QED
    BY <1>0, <1>2, <1>3, <1>4

-----------------------------------------------------------------------------
(* The rehearsal, the chain and the clock.                                 *)

LEMMA StoreKeeps ==
    ASSUME IInv, NEW h \in Handlers, StoreRehearsal(h)
    PROVE  Rehearsed'
<1> USE DEF IInv, Facts, Rehearsed
<1> DEFINE x == handlers[h]
           proved == x.state = "SUCCEEDED" => evidence \in {NoJob, x.job}
<1>1. /\ evidence' = IF x.state = "SUCCEEDED" /\ proved THEN x.job ELSE evidence
      /\ rehearsal' = IF proved /\ Admits(x.job, x.state)
                      THEN [job |-> x.job, state |-> x.state] ELSE rehearsal
      /\ UNCHANGED operational
    BY DEF StoreRehearsal
<1>2. CASE rehearsal.state = "SUCCEEDED"
    <2>1. evidence = rehearsal.job /\ evidence # NoJob
        BY <1>2, GenesisAssumption DEF TypeOK
    <2>2. Admits(x.job, x.state) => x.job = rehearsal.job /\ x.state = "SUCCEEDED"
        BY <1>2 DEF Admits
    <2>3. rehearsal'.state = "SUCCEEDED" /\ rehearsal'.job = rehearsal.job
        BY <1>1, <1>2, <2>2
    <2>4. evidence' = evidence
        BY <1>1, <2>1
    <2> QED
        BY <2>1, <2>3, <2>4
<1>3. CASE rehearsal.state # "SUCCEEDED"
    <2>1. operational' # "open"
        BY <1>1, <1>3
    <2>2. rehearsal'.state = "SUCCEEDED" => x.state = "SUCCEEDED" /\ proved /\ rehearsal'.job = x.job
        BY <1>1, <1>3
    <2> QED
        BY <1>1, <2>1, <2>2
<1> QED
    BY <1>2, <1>3

LEMMA RehearseKeeps ==
    ASSUME IInv, Rehearse
    PROVE  Facts' /\ Stable
<1> USE DEF IInv, Facts, ledger, launch
<1>0. ASSUME UNCHANGED <<ledger, chain>>, Rehearsed'
      PROVE  Aside
    BY <1>0 DEF Aside, LedgerOK, Approved
<1>1. ASSUME NEW h \in Handlers, NEW next, UNCHANGED <<ledger, chain>>, Rehearsed',
             Step(h, next), next = Idle \/ next.at = "store"
      PROVE  Facts' /\ Stable
    <2>1. handlers'[h].at \in {"idle", "store"}
        BY <1>1 DEF Step, TypeOK, Idle
    <2>2. HandlerOK(h)'
        BY <2>1 DEF HandlerOK, Publishing
    <2> QED
        BY <1>0, <1>1, <2>2, AsideKeeps, HoldingAll
<1>2. ASSUME NEW h \in Handlers, PollRehearsal(h)
      PROVE  Facts' /\ Stable
    BY <1>1, <1>2 DEF PollRehearsal, Rehearsed
<1>3. ASSUME NEW h \in Handlers, StoreRehearsal(h)
      PROVE  Facts' /\ Stable
    BY <1>1, <1>3, StoreKeeps DEF StoreRehearsal
<1>4. ASSUME NEW h \in Handlers, NEW c \in Ceremonies, StartRehearsal(h, c)
      PROVE  Facts' /\ Stable
    BY <1>1, <1>4 DEF StartRehearsal, Rehearsed
<1>5. ASSUME NEW j \in Jobs, RemoteMoves(j)
      PROVE  Facts' /\ Stable
    BY <1>0, <1>5, AsideKeeps, HoldingAll DEF RemoteMoves, Rehearsed
<1>6. ASSUME NEW c \in Ceremonies, OpenOperational(c)
      PROVE  Facts' /\ Stable
    BY <1>0, <1>6, AsideKeeps, HoldingAll DEF OpenOperational, Rehearsed
<1> QED
    BY <1>2, <1>3, <1>4, <1>5, <1>6 DEF Rehearse

\* Blocks come and go; what a block or the mempool shows was shown before.
LEMMA Chained ==
    ASSUME Chain
    PROVE  /\ mempool' \cup mined' \subseteq mempool \cup mined
           /\ UNCHANGED <<now, ledger, handlers, launch>>
<1>1. ASSUME NEW b \in mempool, Mine(b) \/ Evict(b)
      PROVE  /\ mempool' \cup mined' \subseteq mempool \cup mined
             /\ UNCHANGED <<now, ledger, handlers, launch>>
    BY <1>1 DEF Mine, Evict
<1>2. ASSUME NEW b \in mined, Reorg(b)
      PROVE  /\ mempool' \cup mined' \subseteq mempool \cup mined
             /\ UNCHANGED <<now, ledger, handlers, launch>>
    BY <1>2 DEF Reorg
<1>3. CASE NextBlock
    BY <1>3 DEF NextBlock
<1> QED
    BY <1>1, <1>2, <1>3 DEF Chain

LEMMA ChainKeeps ==
    ASSUME IInv, Chain
    PROVE  Facts' /\ Stable
<1> USE DEF IInv, Facts, ledger, launch
<1>1. SlotTaken' /\ Approved' /\ BroadcastIsSigned' /\ ReceiptIsSealed' /\ Published'
    BY Chained DEF LedgerOK, SlotTaken, Approved, BroadcastIsSigned, ReceiptIsSealed, Published
<1>3. OneGenesis' /\ FanOutIsPaid' /\ Rehearsed'
    BY Chained DEF OneGenesis, FanOutIsPaid, FanOutIsKnown, Rehearsed
<1>4. Stable /\ UNCHANGED handlers
    BY Chained DEF Stable
<1> QED
    BY <1>1, <1>3, <1>4, HoldingAll DEF LedgerOK

LEMMA OtherwiseKeeps ==
    ASSUME IInv, Crash \/ Tick \/ UNCHANGED vars
    PROVE  Facts' /\ Stable
<1> USE DEF IInv, Facts
<1>1. UNCHANGED <<ledger, chain, launch>>
    BY DEF Crash, Tick, vars
<1>2. Aside
    BY <1>1 DEF Aside, LedgerOK, Approved, Rehearsed, ledger, launch
<1>3. CASE Crash
    <2>1. ASSUME NEW h \in Handlers
          PROVE  HandlerOK(h)'
        BY <1>3 DEF Crash, HandlerOK, Idle, Publishing
    <2> QED
        BY <1>2, <2>1, AsideKeeps DEF Requested
<1>4. CASE Tick \/ UNCHANGED vars
    BY <1>2, <1>4, AsideKeeps, HoldingAll DEF Tick, vars
<1> QED
    BY <1>3, <1>4

-----------------------------------------------------------------------------
(* The submitter and the fan-out.                                          *)

LEMMA SealKeeps ==
    ASSUME IInv, NEW h \in Handlers, Seal(h)
    PROVE  Facts' /\ Stable
<1> USE DEF IInv, Facts, chain, launch
<1> DEFINE x == handlers[h]
<1>0. x \in FundRequests \cup BroadcastRequests
    BY RequestKind DEF Seal, TypeOK
<1>1. x.c \in Ceremonies /\ x.kind \in Kinds
    BY <1>0 DEF FundRequests, BroadcastRequests, Kinds
<1>2. PICK coin : /\ Step(h, [x EXCEPT !.at = "sealed", !.coin = coin])
                  /\ coin # NoCoin
                  /\ journal'[x.c][x.kind] = coin
                  /\ \A c \in Ceremonies, k \in Kinds :
                        journal[c][k] # NoCoin => journal'[c][k] = journal[c][k]
    <2>1. CASE /\ journal[x.c][x.kind] # NoCoin
               /\ Step(h, [x EXCEPT !.at = "sealed", !.coin = journal[x.c][x.kind]])
               /\ UNCHANGED journal
        BY <2>1
    <2>2. ASSUME NEW coin \in Till, journal[x.c][x.kind] = NoCoin,
                 journal' = [journal EXCEPT ![x.c][x.kind] = coin],
                 Step(h, [x EXCEPT !.at = "sealed", !.coin = coin])
          PROVE  /\ coin # NoCoin
                 /\ journal'[x.c][x.kind] = coin
                 /\ \A c \in Ceremonies, k \in Kinds :
                        journal[c][k] # NoCoin => journal'[c][k] = journal[c][k]
        <3>1. coin # NoCoin
            BY GenesisAssumption
        <3>2. journal'[x.c][x.kind] = coin
            BY <1>1, <2>2 DEF TypeOK
        <3>3. \A c \in Ceremonies, k \in Kinds : c # x.c \/ k # x.kind => journal'[c][k] = journal[c][k]
            BY <1>1, <2>2 DEF TypeOK
        <3> QED
            BY <2>2, <3>1, <3>2, <3>3
    <2> QED
        BY <2>1, <2>2 DEF Seal
<1>3. /\ \A c \in Ceremonies : journal[c]["fund"] # NoCoin => journal'[c]["fund"] = journal[c]["fund"]
      /\ UNCHANGED <<now, ceremonies, seats, gates, funding, singleton, files, chain, launch>>
    BY <1>2 DEF Kinds, Seal
<1>4. handlers'[h].at = "sealed" /\ handlers'[h].kind = x.kind
      /\ handlers'[h].c = x.c /\ handlers'[h].coin = coin
    BY <1>0, <1>2 DEF Step, TypeOK, FundRequests, BroadcastRequests
<1>5. HandlerOK(h)'
    BY <1>2, <1>4 DEF HandlerOK, Publishing
<1>6. Stable
    BY <1>3 DEF Stable
<1>7. LedgerOK'
    BY <1>3 DEF LedgerOK, SlotTaken, Approved, BroadcastIsSigned, ReceiptIsSealed, Published
<1>8. OneGenesis' /\ FanOutIsPaid' /\ Rehearsed'
    BY <1>3 DEF OneGenesis, FanOutIsPaid, FanOutIsKnown, Rehearsed
<1> QED
    BY <1>2, <1>5, <1>6, <1>7, <1>8, HoldingAll

\* The receipt is given the coin the journal sealed, which it names already
\* if it names one.
LEMMA ReceiptKeeps ==
    ASSUME IInv, NEW h \in Handlers, PreserveFunding(h) \/ RecordFunding(h)
    PROVE  Facts' /\ Stable
<1> USE DEF IInv, Facts, chain, launch
<1> DEFINE x == handlers[h]
<1>0. x \in FundRequests
    BY RequestKind DEF PreserveFunding, RecordFunding, TypeOK
<1>1. x.c \in Ceremonies /\ x.kind = "fund"
    BY <1>0 DEF FundRequests
<1>2. x.coin # NoCoin /\ x.coin = journal[x.c]["fund"]
    BY <1>1 DEF PreserveFunding, RecordFunding, HandlerOK, Requested
<1>3. funding[x.c].coin \in {NoCoin, x.coin}
    BY <1>1, <1>2 DEF LedgerOK, ReceiptIsSealed
<1>4. /\ \A c \in Ceremonies \ {x.c} : funding'[c].coin = funding[c].coin
      /\ funding'[x.c].coin \in {funding[x.c].coin, x.coin}
    <2> USE DEF TypeOK, FundingRows
    <2>1. CASE PreserveFunding(h)
        BY <1>1, <2>1 DEF PreserveFunding
    <2>2. CASE RecordFunding(h)
        BY <1>1, <2>2 DEF RecordFunding
    <2> QED
        BY <2>1, <2>2
<1>5. \A c \in Ceremonies : /\ funding[c].coin # NoCoin => funding'[c].coin = funding[c].coin
                            /\ funding'[c].coin # NoCoin => funding'[c].coin = journal[c]["fund"]
    BY <1>2, <1>3, <1>4 DEF LedgerOK, ReceiptIsSealed
<1>12. UNCHANGED <<ceremonies, gates, journal, singleton, files, mempool, mined, launch>>
    BY DEF PreserveFunding, RecordFunding
<1>6. Stable
    BY <1>5, <1>12 DEF Stable
<1>7. LedgerOK'
    BY <1>5, <1>12 DEF LedgerOK, SlotTaken, Approved, BroadcastIsSigned, ReceiptIsSealed, Published
<1>8. FanOutIsPaid'
    <2>1. \A b \in mempool \cup mined : b.c \in Ceremonies
        BY DEF TypeOK, Bundles
    <2> QED
        BY <1>5, <1>12, <2>1 DEF FanOutIsPaid, FanOutIsKnown
<1>9. OneGenesis' /\ Rehearsed'
    BY <1>12 DEF OneGenesis, Rehearsed
<1>10. CASE PreserveFunding(h)
    <2> DEFINE kept == x.known \in {NoCoin, x.coin}
               next == IF kept THEN [x EXCEPT !.at = "push"] ELSE Idle
    <2>1. Step(h, next)
        BY <1>10 DEF PreserveFunding, StepOrDrop
    <2>2. CASE kept
        <3>1. handlers'[h] = [x EXCEPT !.at = "push"]
            BY <2>1, <2>2 DEF Step, TypeOK
        <3>2. /\ handlers'[h].at = "push" /\ handlers'[h].kind = "fund"
              /\ handlers'[h].c = x.c /\ handlers'[h].coin = x.coin
            BY <1>0, <1>1, <3>1 DEF FundRequests
        <3>3. funding'[x.c].coin = x.coin
            BY <1>1, <1>10, <2>2 DEF PreserveFunding, TypeOK, FundingRows
        <3>4. HandlerOK(h)'
            BY <1>2, <1>12, <3>2, <3>3 DEF HandlerOK, Publishing
        <3> QED
            BY <1>6, <1>7, <1>8, <1>9, <2>1, <3>4, HoldingAll
    <2>3. CASE ~kept
        BY <1>6, <1>7, <1>8, <1>9, <2>1, <2>3, Ending, HoldingAll
    <2> QED
        BY <2>2, <2>3
<1>11. CASE RecordFunding(h)
    BY <1>6, <1>7, <1>8, <1>9, <1>11, Ending, HoldingAll DEF RecordFunding
<1> QED
    BY <1>10, <1>11

\* A bundle is only pushed with the coin its reservation or receipt names.
LEMMA PushKeeps ==
    ASSUME IInv, NEW h \in Handlers, Push(h)
    PROVE  Facts' /\ Stable
<1> USE DEF IInv, Facts, launch, ledger
<1> DEFINE x == handlers[h]
           b == Bundle(x.kind, x.c, x.coin)
<1>0. x \in FundRequests \cup BroadcastRequests \cup ReplayRequests /\ x.at = "push"
    BY RequestKind DEF Push, TypeOK
<1>1. /\ x.c \in Ceremonies /\ x.kind \in Kinds /\ HandlerOK(h)
      /\ b.kind = x.kind /\ b.c = x.c /\ b.coin = x.coin
    BY <1>0 DEF FundRequests, BroadcastRequests, ReplayRequests, Kinds, Requested, Bundle
<1>2. UNCHANGED <<ledger, mined, launch>> /\ mempool' \subseteq mempool \cup {b}
    BY DEF Push
<1>3. Stable
    BY <1>2 DEF Stable
<1>4. LedgerOK' /\ Rehearsed'
    BY <1>2 DEF LedgerOK, SlotTaken, Approved, BroadcastIsSigned, ReceiptIsSealed, Published, Rehearsed
<1>5. x.kind = "genesis" => x.c = singleton.owner /\ b = Bundle("genesis", x.c, ceremonies[x.c].coin)
    BY <1>0, <1>1 DEF HandlerOK
<1>6. x.kind = "fund" => funding[x.c].coin = x.coin /\ x.coin # NoCoin
    BY <1>0, <1>1 DEF HandlerOK
<1>7. OneGenesis'
    BY <1>1, <1>2, <1>5 DEF OneGenesis
<1>8. FanOutIsPaid'
    BY <1>1, <1>2, <1>6 DEF FanOutIsPaid, FanOutIsKnown
<1>9. CASE Step(h, Idle)
    BY <1>3, <1>4, <1>7, <1>8, <1>9, Ending, HoldingAll
<1>10. CASE Step(h, [x EXCEPT !.at = "record"])
    <2>1. /\ handlers'[h].at = "record" /\ handlers'[h].kind = x.kind
          /\ handlers'[h].c = x.c /\ handlers'[h].coin = x.coin
        BY <1>0, <1>10 DEF Step, TypeOK, FundRequests, BroadcastRequests, ReplayRequests
    <2>2. HandlerOK(h)'
        BY <1>0, <1>1, <1>2, <2>1 DEF HandlerOK, Publishing
    <2> QED
        BY <1>3, <1>4, <1>7, <1>8, <1>10, <2>2, HoldingAll
<1> QED
    BY <1>9, <1>10 DEF Push

-----------------------------------------------------------------------------
(* The broadcast.                                                          *)

\* The slot is taken once, by a ceremony whose live plan is approved, inside
\* the window that is open.
Takes(x) ==
    /\ singleton.owner = NoCeremony
    /\ ceremonies[x.c].state = "plan_approved" /\ ceremonies[x.c].plan = x.plan
    /\ GateOpen(x.c) /\ NoFiles
    /\ singleton' = [singleton EXCEPT !.owner = x.c]
    /\ ceremonies' = [ceremonies EXCEPT ![x.c].state = "broadcast", ![x.c].reservation = "RESERVED",
                                        ![x.c].coin = x.coin, ![x.c].planned = x.plan]

LEMMA Reserving ==
    ASSUME IInv, NEW h \in Handlers, Reserve(h)
    PROVE  /\ handlers[h] \in BroadcastRequests /\ handlers[h].c \in Ceremonies
           /\ \/ Step(h, Idle) /\ UNCHANGED <<ceremonies, singleton>>
              \/ Step(h, [handlers[h] EXCEPT !.at = "push"]) /\ Takes(handlers[h])
<1> DEFINE x == handlers[h]
           may == /\ NoFiles /\ LivePlan(x.c, x.plan)
                  /\ SameGate(x) /\ singleton.owner \in {NoCeremony, x.c}
<1>1. x \in BroadcastRequests
    <2>1. x \in Requests /\ x.at = "sealed" /\ x.kind = "genesis"
        BY DEF Reserve, IInv, TypeOK
    <2> QED
        BY <2>1, RequestKind
<1>2. x.c \in Ceremonies
    BY <1>1 DEF BroadcastRequests
<1>3. ReserveIf(h, may)
    BY DEF Reserve
<1>4. CASE ~may
    BY <1>1, <1>2, <1>3, <1>4 DEF ReserveIf, StepOrDrop
<1>5. CASE may
    <2>1. singleton.owner # x.c
        BY <1>2, <1>5 DEF LivePlan, IInv, Facts, LedgerOK, SlotTaken, Reserved
    <2>2. Takes(x)
        BY <1>3, <1>5, <2>1 DEF Takes, ReserveIf, LivePlan, SameGate
    <2>3. Step(h, [x EXCEPT !.at = "push"])
        BY <1>3, <1>5 DEF ReserveIf, StepOrDrop
    <2> QED
        BY <1>1, <1>2, <2>2, <2>3
<1> QED
    BY <1>4, <1>5

LEMMA ReserveKeeps ==
    ASSUME IInv, NEW h \in Handlers, Reserve(h)
    PROVE  Facts' /\ Stable
<1> USE DEF IInv, Facts, chain, launch
<1> DEFINE x == handlers[h]
<1>0. UNCHANGED <<now, seats, gates, funding, journal, files, chain, launch>>
    BY DEF Reserve, ReserveIf
<1>1. CASE Step(h, Idle) /\ UNCHANGED <<ceremonies, singleton>>
    <2>1. Aside
        BY <1>0, <1>1 DEF Aside, LedgerOK, Approved, Rehearsed
    <2> QED
        BY <1>1, <2>1, AsideKeeps, Ending, HoldingAll
<1>2. CASE Step(h, [x EXCEPT !.at = "push"]) /\ Takes(x)
    <2> DEFINE c == x.c
    <2>0. x \in BroadcastRequests
        BY Reserving
    <2>1. /\ c \in Ceremonies /\ singleton.owner = NoCeremony /\ singleton'.owner = c
          /\ singleton'.publication = singleton.publication
          /\ ceremonies[c].state = "plan_approved" /\ ceremonies[c].plan = x.plan
          /\ files.public = NoFile /\ files.lock = NoLock
          /\ NoCeremony \notin Ceremonies
        BY <1>2, Reserving, GenesisAssumption DEF Takes, TypeOK, NoFiles
    <2>2. /\ ceremonies'[c].state = "broadcast" /\ ceremonies'[c].coin = x.coin
          /\ ceremonies'[c].planned = ceremonies'[c].plan /\ ceremonies'[c].signed = ceremonies[c].signed
          /\ \A d \in Ceremonies \ {c} : ceremonies'[d] = ceremonies[d]
        <3>1. ceremonies' = [ceremonies EXCEPT ![c].state = "broadcast", ![c].reservation = "RESERVED",
                                               ![c].coin = x.coin, ![c].planned = x.plan]
            BY <1>2 DEF Takes
        <3>2. ceremonies[c] \in CeremonyRows /\ ceremonies \in [Ceremonies -> CeremonyRows]
            BY <2>1 DEF TypeOK
        <3> QED
            BY <2>1, <3>1, <3>2 DEF CeremonyRows
    <2>3. singleton.publication = Unbound
        BY <2>1 DEF LedgerOK, Published
    <2>4. \A d \in Ceremonies : ceremonies[d].state \notin Reserved
        BY <2>1 DEF LedgerOK, SlotTaken
    <2>5. \A d \in Ceremonies : d # c => ceremonies'[d].state \notin Reserved
        BY <2>2, <2>4
    <2>6. SlotTaken'
        BY <2>1, <2>2, <2>5 DEF SlotTaken, Reserved
    <2>7. BroadcastIsSigned'
        BY <2>1, <2>2, <2>5 DEF LedgerOK, Approved, BroadcastIsSigned
    <2>8. Approved'
        BY <1>0, <2>2 DEF LedgerOK, Approved
    <2>9. ReceiptIsSealed'
        BY <1>0 DEF LedgerOK, ReceiptIsSealed
    <2>11. Published'
        BY <1>0, <2>1, <2>2, <2>3 DEF LedgerOK, Published
    <2>12. OneGenesis'
        <3>1. \A b \in mempool \cup mined : b.kind # "genesis"
            BY <2>1 DEF TypeOK, Bundles, OneGenesis
        <3> QED
            BY <1>0, <3>1 DEF OneGenesis
    <2>13. FanOutIsPaid' /\ Rehearsed'
        BY <1>0 DEF FanOutIsPaid, FanOutIsKnown, Rehearsed
    <2>14. Stable
        BY <1>0, <2>1, <2>2, <2>3, <2>4 DEF Stable, Reserved
    <2>15. HandlerOK(h)'
        <3>1. /\ handlers'[h].at = "push" /\ handlers'[h].kind = "genesis"
              /\ handlers'[h].c = c /\ handlers'[h].coin = x.coin
            BY <1>2, <2>0 DEF Step, TypeOK, BroadcastRequests
        <3> QED
            BY <2>1, <2>2, <3>1 DEF HandlerOK, Publishing
    <2> QED
        BY <1>2, <2>6, <2>7, <2>8, <2>9, <2>11, <2>12, <2>13, <2>14, <2>15, HoldingAll
           DEF LedgerOK
<1> QED
    BY <1>1, <1>2, Reserving

LEMMA ReplayKeeps ==
    ASSUME IInv, NEW h \in Handlers, Replay(h)
    PROVE  Facts' /\ Stable
<1> USE DEF IInv, Facts
<1> DEFINE x == handlers[h]
<1>0. UNCHANGED <<now, ledger, chain, launch>> /\ x.at = "replay"
    BY DEF Replay
<1>1. x \in ReplayRequests
    BY <1>0, RequestKind DEF TypeOK
<1>2. CASE Step(h, Idle)
    BY <1>0, <1>2, Ending, Starting
<1>3. CASE Step(h, [x EXCEPT !.at = "push"])
    <2>1. /\ handlers'[h].at = "push" /\ handlers'[h].kind = "genesis"
          /\ handlers'[h].c = x.c /\ handlers'[h].coin = x.coin /\ x.kind = "genesis"
        BY <1>1, <1>3 DEF Step, TypeOK, ReplayRequests
    <2>2. HandlerOK(h)'
        BY <1>0, <2>1 DEF HandlerOK, Publishing, Requested, ledger
    <2> QED
        BY <1>0, <1>3, <2>2, Starting
<1> QED
    BY <1>2, <1>3 DEF Replay, StepOrDrop

\* A request that reads the chain relies on nothing of the ledger.
LEMMA ReadKeeps ==
    ASSUME IInv, NEW h \in Handlers, ReadOutputs(h) \/ ReadPeak(h)
    PROVE  Facts' /\ Stable
<1> USE DEF IInv, Facts
<1> DEFINE x == handlers[h]
<1>0. UNCHANGED <<now, ledger, chain, launch>> /\ x.at \in Confirming
    BY DEF ReadOutputs, ReadPeak, Confirming
<1>1. x \in ConfirmRequests
    BY <1>0, RequestKind DEF TypeOK
<1>2. CASE Step(h, Idle)
    BY <1>0, <1>2, Ending, Starting
<1>3. ASSUME NEW a \in Confirming, Step(h, [x EXCEPT !.at = a])
      PROVE  Facts' /\ Stable
    <2>1. handlers'[h].at = a
        BY <1>1, <1>3 DEF Step, TypeOK, ConfirmRequests
    <2>2. HandlerOK(h)'
        BY <2>1 DEF HandlerOK, Confirming, Publishing
    <2> QED
        BY <1>0, <1>3, <2>2, Starting
<1> QED
    BY <1>2, <1>3 DEF ReadOutputs, ReadPeak, StepOrDrop, Confirming

-----------------------------------------------------------------------------
(* Past the broadcast: the record, the confirmation, the artifact.         *)

\* A row past its broadcast stays past it, with the plan and coin it has.
Onward(c) ==
    /\ c \in Ceremonies
    /\ \A d \in Ceremonies \ {c} : ceremonies'[d] = ceremonies[d]
    /\ ceremonies[c].state \in Reserved /\ ceremonies'[c].state \in Reserved
    /\ ceremonies'[c].coin = ceremonies[c].coin /\ ceremonies'[c].planned = ceremonies[c].planned
    /\ ceremonies'[c].plan = ceremonies[c].plan /\ ceremonies'[c].signed = ceremonies[c].signed
    /\ ceremonies[c].state \in {"artifact_signed", "locked"} =>
        ceremonies'[c].state \in {"artifact_signed", "locked"}
    /\ UNCHANGED <<gates, funding, journal, singleton, files, chain, launch>>

LEMMA OnwardKeeps ==
    ASSUME IInv, NEW c, Onward(c)
    PROVE  /\ SlotTaken' /\ BroadcastIsSigned' /\ ReceiptIsSealed'
           /\ OneGenesis' /\ FanOutIsPaid' /\ Rehearsed' /\ Stable
           /\ \A d \in Ceremonies : ceremonies'[d].coin = ceremonies[d].coin
<1> USE DEF IInv, Facts, chain, launch
<1>0. UNCHANGED <<gates, funding, journal, singleton, files, mempool, mined, launch>>
    BY DEF Onward
<1>1. \A d \in Ceremonies : /\ ceremonies'[d].coin = ceremonies[d].coin
                            /\ ceremonies'[d].state \in Reserved <=> ceremonies[d].state \in Reserved
                            /\ ceremonies[d].state \in {"artifact_signed", "locked"} =>
                                 ceremonies'[d].state \in {"artifact_signed", "locked"}
    BY DEF Onward
<1>2. SlotTaken' /\ ReceiptIsSealed' /\ Stable
    BY <1>0, <1>1 DEF LedgerOK, SlotTaken, ReceiptIsSealed, Stable
<1>3. BroadcastIsSigned'
    BY DEF LedgerOK, BroadcastIsSigned, Onward
<1>4. OneGenesis'
    <2>1. \A b \in mempool \cup mined : b.c \in Ceremonies
        BY DEF TypeOK, Bundles
    <2> QED
        BY <1>0, <1>1, <2>1 DEF OneGenesis
<1>5. FanOutIsPaid' /\ Rehearsed'
    BY <1>0 DEF FanOutIsPaid, FanOutIsKnown, Rehearsed
<1> QED
    BY <1>1, <1>2, <1>3, <1>4, <1>5

\* The row of a reserved bundle: recorded, then confirmed as it was read.
LEMMA RecordKeeps ==
    ASSUME IInv, NEW h \in Handlers, RecordBroadcast(h) \/ Confirm(h)
    PROVE  Facts' /\ Stable
<1> USE DEF IInv, Facts, chain, launch
<1> DEFINE x == handlers[h]
<1>0. /\ UNCHANGED <<now, seats, gates, funding, journal, singleton, files, chain, launch>>
      /\ Step(h, Idle)
    BY DEF RecordBroadcast, Confirm
<1>1. x.c \in Ceremonies
    <2>1. x \in Requests
        BY DEF TypeOK
    <2>2. CASE RecordBroadcast(h)
        <3>1. x.at = "record"
            BY <2>2 DEF RecordBroadcast
        <3> QED
            BY <2>1, <3>1, RequestKind DEF FundRequests, BroadcastRequests, ReplayRequests
    <2>3. CASE Confirm(h)
        <3>1. x.at = "confirm"
            BY <2>3 DEF Confirm
        <3> QED
            BY <2>1, <3>1, RequestKind DEF ConfirmRequests, Confirming
    <2> QED
        BY <2>2, <2>3
<1>2. CASE UNCHANGED ceremonies
    <2>1. UNCHANGED <<now, ledger, chain, launch>>
        BY <1>0, <1>2 DEF ledger
    <2> QED
        BY <1>0, <2>1, Ending, Starting
<1>3. CASE ceremonies' # ceremonies
    <2> DEFINE c == x.c
    <2>1. /\ ceremonies[c].state = "broadcast"
          /\ \A d \in Ceremonies \ {c} : ceremonies'[d] = ceremonies[d]
          /\ ceremonies'[c].coin = ceremonies[c].coin /\ ceremonies'[c].planned = ceremonies[c].planned
          /\ ceremonies'[c].plan = ceremonies[c].plan /\ ceremonies'[c].signed = ceremonies[c].signed
          /\ ceremonies'[c].artifact = ceremonies[c].artifact
          /\ \/ ceremonies'[c].state = "broadcast"
             \/ ceremonies'[c].state = "confirmed" /\ x.at = "confirm"
        <3>0. ceremonies[c] \in CeremonyRows /\ ceremonies \in [Ceremonies -> CeremonyRows]
            BY <1>1 DEF TypeOK
        <3>1. CASE RecordBroadcast(h)
            BY <1>1, <1>3, <3>0, <3>1 DEF RecordBroadcast, CeremonyRows
        <3>2. CASE Confirm(h)
            BY <1>1, <1>3, <3>0, <3>2 DEF Confirm, CeremonyRows
        <3> QED
            BY <3>1, <3>2
    <2>2. Onward(c)
        BY <1>0, <1>1, <2>1 DEF Onward, Reserved
    <2>3. Approved'
        BY <1>0, <2>1 DEF LedgerOK, Approved
    <2>4. Published'
        <3>1. \A d \in Ceremonies : ceremonies'[d].artifact = ceremonies[d].artifact
            BY <2>1
        <3>2. \A d \in Ceremonies : ceremonies'[d].state = "locked" => ceremonies[d].state = "locked"
            BY <2>1
        <3>3. UNCHANGED <<singleton, files>> /\ singleton.owner \in Ceremonies \cup {NoCeremony}
            BY <1>0 DEF TypeOK
        <3> QED
            BY <3>1, <3>2, <3>3 DEF LedgerOK, Published
    <2> QED
        BY <1>0, <2>2, <2>3, <2>4, OnwardKeeps, Ending, HoldingAll DEF LedgerOK
<1> QED
    BY <1>2, <1>3

LEMMA PublishKeeps ==
    ASSUME IInv, Publish
    PROVE  Facts' /\ Stable
<1> USE DEF IInv, Facts, chain, launch
<1>1. ASSUME NEW c \in Ceremonies, CreateArtifact(c)
      PROVE  Facts' /\ Stable
    <2>0. /\ UNCHANGED <<gates, funding, journal, singleton, files, handlers, chain, launch>>
          /\ ceremonies[c].state = "confirmed"
        BY <1>1 DEF CreateArtifact
    <2>1. /\ \A d \in Ceremonies \ {c} : ceremonies'[d] = ceremonies[d]
          /\ ceremonies'[c] = [ceremonies[c] EXCEPT !.state = "artifact_pending"]
          /\ ceremonies[c] \in CeremonyRows
        BY <1>1 DEF CreateArtifact, TypeOK
    <2>2. /\ ceremonies'[c].state = "artifact_pending"
          /\ ceremonies'[c].coin = ceremonies[c].coin /\ ceremonies'[c].planned = ceremonies[c].planned
          /\ ceremonies'[c].plan = ceremonies[c].plan /\ ceremonies'[c].signed = ceremonies[c].signed
          /\ ceremonies'[c].artifact = ceremonies[c].artifact
          /\ ceremonies'[c].reservation = ceremonies[c].reservation
        BY <2>1 DEF CeremonyRows
    <2>3. Onward(c)
        BY <2>0, <2>1, <2>2 DEF Onward, Reserved
    <2>4. Approved'
        BY <2>0, <2>1, <2>2 DEF LedgerOK, Approved
    <2>5. Published'
        <3>1. \A d \in Ceremonies : ceremonies'[d].artifact = ceremonies[d].artifact
            BY <2>1, <2>2
        <3>2. \A d \in Ceremonies : ceremonies'[d].state = "locked" => ceremonies[d].state = "locked"
            BY <2>1, <2>2
        <3>3. UNCHANGED <<singleton, files>> /\ singleton.owner \in Ceremonies \cup {NoCeremony}
            BY <2>0 DEF TypeOK
        <3> QED
            BY <3>1, <3>2, <3>3 DEF LedgerOK, Published
    <2> QED
        BY <2>0, <2>3, <2>4, <2>5, OnwardKeeps, HoldingAll DEF LedgerOK
<1>2. ASSUME NEW c \in Ceremonies, NEW s \in Slots, SignArtifact(c, s)
      PROVE  Facts' /\ Stable
    <2> DEFINE signed == ceremonies[c].artifact \cup {s}
    <2>0. /\ UNCHANGED <<gates, funding, journal, singleton, files, handlers, chain, launch>>
          /\ ceremonies[c].state \in {"artifact_pending", "artifact_signed"}
          /\ singleton.publication = Unbound
        BY <1>2 DEF SignArtifact
    <2>1. /\ \A d \in Ceremonies \ {c} : ceremonies'[d] = ceremonies[d]
          /\ ceremonies'[c] = [ceremonies[c] EXCEPT !.artifact = signed,
                !.state = IF OwnerPlusOne(signed) THEN "artifact_signed" ELSE "artifact_pending"]
          /\ ceremonies[c] \in CeremonyRows
        BY <1>2 DEF SignArtifact, TypeOK
    <2>2. /\ ceremonies'[c].state = IF OwnerPlusOne(signed) THEN "artifact_signed" ELSE "artifact_pending"
          /\ ceremonies'[c].coin = ceremonies[c].coin /\ ceremonies'[c].planned = ceremonies[c].planned
          /\ ceremonies'[c].plan = ceremonies[c].plan /\ ceremonies'[c].signed = ceremonies[c].signed
          /\ ceremonies'[c].artifact = signed
          /\ ceremonies'[c].reservation = ceremonies[c].reservation
        BY <2>1 DEF CeremonyRows
    <2>3. /\ ceremonies'[c].state \in {"artifact_pending", "artifact_signed"}
          /\ ceremonies'[c].state = "artifact_signed" => OwnerPlusOne(signed)
          /\ ceremonies[c].state = "artifact_signed" => ceremonies'[c].state = "artifact_signed"
        <3>1. OwnerPlusOne(ceremonies[c].artifact) => OwnerPlusOne(signed)
            BY DEF OwnerPlusOne
        <3> QED
            BY <2>0, <2>2, <3>1 DEF LedgerOK, Approved
    <2>4. Onward(c)
        BY <2>0, <2>1, <2>2, <2>3 DEF Onward, Reserved
    <2>5. Approved'
        BY <2>0, <2>1, <2>2, <2>3 DEF LedgerOK, Approved
    <2>6. Published'
        <3>1. \A d \in Ceremonies : ceremonies'[d].state = "locked" => ceremonies[d].state = "locked"
            BY <2>1, <2>3
        <3>2. files.lock = NoLock /\ files.public = NoFile
            BY <2>0 DEF LedgerOK, Published, Unbound, NoFile
        <3> QED
            BY <2>0, <3>1, <3>2 DEF LedgerOK, Published
    <2> QED
        BY <2>0, <2>4, <2>5, <2>6, OnwardKeeps, HoldingAll DEF LedgerOK
<1>3. ASSUME NEW c \in Ceremonies, NEW h \in Handlers, StartFinalize(h, c)
      PROVE  Facts' /\ Stable
    <2>1. handlers'[h].at = "verify" /\ handlers'[h].c = c
        BY <1>3 DEF StartFinalize, Step, TypeOK
    <2>2. HandlerOK(h)'
        BY <1>3, <2>1 DEF HandlerOK, Publishing, StartFinalize, ledger
    <2> QED
        BY <1>3, <2>2, Starting DEF StartFinalize
<1> QED
    BY <1>1, <1>2, <1>3 DEF Publish

-----------------------------------------------------------------------------
(* Publication: bound, written, locked.                                    *)

LEMMA BindKeeps ==
    ASSUME IInv, NEW h \in Handlers, BindPublication(h)
    PROVE  Facts' /\ Stable
<1> USE DEF IInv, Facts, chain, launch
<1> DEFINE x == handlers[h]
           c == x.c
<1>0. /\ UNCHANGED <<now, ceremonies, seats, gates, funding, journal, files, chain, launch>>
      /\ x.at = "verify"
    BY DEF BindPublication
<1>1. x \in PublishRequests /\ c \in Ceremonies
    BY <1>0, RequestKind DEF TypeOK, PublishRequests
<1>2. /\ ceremonies[c].state \in {"artifact_signed", "locked"} /\ singleton.owner = c
      /\ OwnerPlusOne(ceremonies[c].artifact)
    BY <1>0, <1>1 DEF Requested, HandlerOK, LedgerOK, SlotTaken, Reserved, Approved
<1>3. CASE UNCHANGED singleton /\ Step(h, Idle)
    BY <1>0, <1>3, Ending, Starting DEF ledger
<1>4. CASE /\ singleton' = [owner |-> c, publication |-> x.signed]
           /\ Step(h, [x EXCEPT !.at = "public"])
           /\ x.signed = ceremonies[c].artifact
           /\ singleton.publication \in {Unbound, x.signed}
    <2>1. /\ singleton'.owner = c /\ singleton'.publication = x.signed
          /\ x.signed # Unbound /\ OwnerPlusOne(x.signed) /\ c # NoCeremony
        BY <1>1, <1>2, <1>4, GenesisAssumption DEF Unbound, OwnerPlusOne
    <2>2. SlotTaken' /\ Approved' /\ BroadcastIsSigned' /\ ReceiptIsSealed'
        BY <1>0, <1>2, <2>1 DEF LedgerOK, SlotTaken, Approved, BroadcastIsSigned, ReceiptIsSealed
    <2>3. Published'
        <3>1. files.public # NoFile => files.public = x.signed
            BY <1>4 DEF LedgerOK, Published, Unbound, NoFile
        <3>2. files.lock # NoLock => files.lock = c /\ files.public # NoFile
            BY <1>2 DEF LedgerOK, Published
        <3>3. \A d \in Ceremonies : ceremonies[d].state = "locked" => files.lock = d
            BY DEF LedgerOK, Published
        <3> QED
            BY <1>0, <1>4, <2>1, <3>1, <3>2, <3>3 DEF Published
    <2>4. OneGenesis' /\ FanOutIsPaid' /\ Rehearsed'
        BY <1>0, <1>2, <2>1 DEF OneGenesis, FanOutIsPaid, FanOutIsKnown, Rehearsed
    <2>5. Stable
        BY <1>0, <1>2, <1>4, <2>1 DEF Stable
    <2>6. HandlerOK(h)'
        <3>1. handlers'[h].at = "public" /\ handlers'[h].c = c /\ handlers'[h].signed = x.signed
            BY <1>1, <1>4 DEF Step, TypeOK, PublishRequests
        <3> QED
            BY <1>0, <1>2, <2>1, <3>1 DEF HandlerOK, Publishing
    <2> QED
        BY <1>4, <2>2, <2>3, <2>4, <2>5, <2>6, HoldingAll DEF LedgerOK
<1> QED
    BY <1>3, <1>4 DEF BindPublication, StepOrDrop

LEMMA WriteKeeps ==
    ASSUME IInv, NEW h \in Handlers, WritePublic(h) \/ WriteLock(h)
    PROVE  Facts' /\ Stable
<1> USE DEF IInv, Facts, chain, launch
<1> DEFINE x == handlers[h]
           c == x.c
<1>0. /\ UNCHANGED <<now, ceremonies, seats, gates, funding, journal, singleton, chain, launch>>
      /\ x.at \in {"public", "lock"}
    BY DEF WritePublic, WriteLock
<1>1. x \in PublishRequests /\ c \in Ceremonies /\ c # NoCeremony
    BY <1>0, RequestKind, GenesisAssumption DEF TypeOK, PublishRequests, Publishing
<1>2. /\ ceremonies[c].state \in {"artifact_signed", "locked"}
      /\ singleton.owner = c /\ singleton.publication = x.signed /\ x.signed # NoFile
      /\ x.at = "lock" => files.public = x.signed
    BY <1>0 DEF Requested, HandlerOK, Publishing, Unbound, NoFile
<1>3. CASE UNCHANGED files /\ Step(h, Idle)
    BY <1>0, <1>3, Ending, Starting DEF ledger
<1>4. ASSUME Step(h, [x EXCEPT !.at = IF x.at = "public" THEN "lock" ELSE "locked"]),
             files'.public = x.signed, files.public \in {NoFile, x.signed},
             files'.lock \in {files.lock, c}, files.lock \in {NoLock, c} \/ x.at = "public",
             x.at = "lock" => files'.lock = c,
             files.lock # NoLock => files'.lock = files.lock
      PROVE  Facts' /\ Stable
    <2>1. SlotTaken' /\ Approved' /\ BroadcastIsSigned' /\ ReceiptIsSealed'
        BY <1>0 DEF LedgerOK, SlotTaken, Approved, BroadcastIsSigned, ReceiptIsSealed
    <2>2. Published'
        <3>1. files'.lock # NoLock => files'.lock = c
            BY <1>2, <1>4 DEF LedgerOK, Published
        <3>2. \A d \in Ceremonies : ceremonies[d].state = "locked" => files'.lock = d
            <4>1. \A d \in Ceremonies : ceremonies[d].state = "locked" => files.lock = d /\ d # NoLock
                BY GenesisAssumption DEF LedgerOK, Published, NoLock
            <4> QED
                BY <1>4, <4>1
        <3> QED
            BY <1>0, <1>2, <1>4, <3>1, <3>2 DEF LedgerOK, Published
    <2>3. OneGenesis' /\ FanOutIsPaid' /\ Rehearsed'
        BY <1>0 DEF OneGenesis, FanOutIsPaid, FanOutIsKnown, Rehearsed
    <2>4. Stable
        BY <1>0, <1>4 DEF Stable
    <2>5. HandlerOK(h)'
        <3>1. /\ handlers'[h].at = IF x.at = "public" THEN "lock" ELSE "locked"
              /\ handlers'[h].c = c /\ handlers'[h].signed = x.signed
            BY <1>1, <1>4 DEF Step, TypeOK, PublishRequests
        <3>2. handlers'[h].at \in {"lock", "locked"} /\ (handlers'[h].at = "locked" => x.at = "lock")
            BY <1>0, <3>1
        <3> QED
            BY <1>0, <1>2, <1>4, <3>1, <3>2 DEF HandlerOK, Publishing, Unbound, NoFile
    <2> QED
        BY <1>4, <2>1, <2>2, <2>3, <2>4, <2>5, HoldingAll DEF LedgerOK
<1>5. CASE WritePublic(h)
    <2>1. CASE files.public \in {NoFile, x.signed}
        <3>1. Step(h, [x EXCEPT !.at = "lock"]) /\ files' = [files EXCEPT !.public = x.signed]
            BY <1>5, <2>1 DEF WritePublic, StepOrDrop
        <3>2. files'.public = x.signed /\ files'.lock = files.lock
            BY <3>1 DEF TypeOK
        <3>3. x.at = "public"
            BY <1>5 DEF WritePublic
        <3> QED
            BY <1>4, <2>1, <3>1, <3>2, <3>3
    <2>2. CASE files.public \notin {NoFile, x.signed}
        BY <1>3, <1>5, <2>2 DEF WritePublic, StepOrDrop
    <2> QED
        BY <2>1, <2>2
<1>6. CASE WriteLock(h)
    <2>1. CASE files.lock \in {NoLock, c}
        <3>1. Step(h, [x EXCEPT !.at = "locked"]) /\ files' = [files EXCEPT !.lock = c]
            BY <1>6, <2>1 DEF WriteLock, StepOrDrop
        <3>2. files'.public = files.public /\ files'.lock = c
            BY <3>1 DEF TypeOK
        <3>3. x.at = "lock"
            BY <1>6 DEF WriteLock
        <3> QED
            BY <1>2, <1>4, <2>1, <3>1, <3>2, <3>3
    <2>2. CASE files.lock \notin {NoLock, c}
        BY <1>3, <1>6, <2>2 DEF WriteLock, StepOrDrop
    <2> QED
        BY <2>1, <2>2
<1> QED
    BY <1>5, <1>6

LEMMA LockKeeps ==
    ASSUME IInv, NEW h \in Handlers, MarkLocked(h)
    PROVE  Facts' /\ Stable
<1> USE DEF IInv, Facts, chain, launch
<1> DEFINE x == handlers[h]
           c == x.c
<1>0. /\ UNCHANGED <<now, seats, gates, funding, journal, singleton, files, chain, launch>>
      /\ x.at = "locked" /\ Step(h, Idle)
      /\ ceremonies' = [ceremonies EXCEPT ![c].state = "locked"]
    BY DEF MarkLocked
<1>1. c \in Ceremonies
    BY <1>0, RequestKind DEF TypeOK, PublishRequests, Publishing
<1>2. ceremonies[c].state \in {"artifact_signed", "locked"} /\ files.lock = c
    BY <1>0 DEF Requested, HandlerOK, Publishing
<1>3. /\ \A d \in Ceremonies \ {c} : ceremonies'[d] = ceremonies[d]
      /\ ceremonies'[c].state = "locked"
      /\ ceremonies'[c].coin = ceremonies[c].coin /\ ceremonies'[c].planned = ceremonies[c].planned
      /\ ceremonies'[c].plan = ceremonies[c].plan /\ ceremonies'[c].signed = ceremonies[c].signed
      /\ ceremonies'[c].artifact = ceremonies[c].artifact
      /\ ceremonies'[c].reservation = ceremonies[c].reservation
    <2>1. ceremonies[c] \in CeremonyRows /\ ceremonies \in [Ceremonies -> CeremonyRows]
        BY <1>1 DEF TypeOK
    <2> QED
        BY <1>0, <1>1, <2>1 DEF CeremonyRows
<1>4. Onward(c)
    BY <1>0, <1>1, <1>2, <1>3 DEF Onward, Reserved
<1>5. Approved'
    BY <1>0, <1>2, <1>3 DEF LedgerOK, Approved
<1>7. Published'
    <2>1. \A d \in Ceremonies : ceremonies'[d].artifact = ceremonies[d].artifact
        BY <1>3
    <2>2. \A d \in Ceremonies : ceremonies'[d].state = "locked" => files.lock = d
        BY <1>2, <1>3 DEF LedgerOK, Published
    <2>3. UNCHANGED <<singleton, files>> /\ singleton.owner \in Ceremonies \cup {NoCeremony}
        BY <1>0 DEF TypeOK
    <2> QED
        BY <2>1, <2>2, <2>3 DEF LedgerOK, Published
<1> QED
    BY <1>0, <1>4, <1>5, <1>7, OnwardKeeps, Ending, HoldingAll DEF LedgerOK

-----------------------------------------------------------------------------
(* The theorems.                                                           *)

LEMMA Starts == Init => IInv
<1> SUFFICES ASSUME Init
             PROVE  IInv
    OBVIOUS
<1>1. TypeOK
    <2>1. {"none"} \subseteq CeremonyStates /\ {"none"} \subseteq Reservations
        BY DEF CeremonyStates, Reservations
    <2>2. \A c \in Ceremonies : ceremonies[c] \in CeremonyRows
        BY <2>1 DEF Init, CeremonyRows, Coins0
    <2>3. \A c \in Ceremonies : gates[c] \in GateRows /\ funding[c] \in FundingRows
        BY DEF Init, GateRows, FundingRows, Coins0
    <2> QED
        BY <2>2, <2>3 DEF Init, TypeOK, Coins0, Requests, RemoteStates, Unbound, NoFile, NoLock
<1>2. SlotTaken /\ Approved /\ BroadcastIsSigned
    BY GenesisAssumption DEF Init, SlotTaken, Approved, BroadcastIsSigned, Reserved
<1>3. ReceiptIsSealed /\ Published /\ OneGenesis /\ FanOutIsPaid /\ Rehearsed
    BY DEF Init, ReceiptIsSealed, Published, OneGenesis, FanOutIsPaid, FanOutIsKnown, Rehearsed,
           Unbound, NoFile, NoLock
<1>4. Requested
    BY DEF Init, Requested, HandlerOK, Idle, Publishing
<1> QED
    BY <1>1, <1>2, <1>3, <1>4 DEF IInv, Facts, LedgerOK

LEMMA RequestKeeps ==
    ASSUME IInv, Request
    PROVE  Facts' /\ Stable
BY SealKeeps, ReceiptKeeps, ReserveKeeps, ReplayKeeps, PushKeeps, ReadKeeps, RecordKeeps, BindKeeps,
   WriteKeeps, LockKeeps DEF Request

LEMMA Steps == IInv /\ [Next]_vars => IInv' /\ Stable
<1> SUFFICES ASSUME IInv, [Next]_vars
             PROVE  Facts' /\ Stable
    BY Typing DEF IInv
<1>1. CASE Roster \/ Plan
    BY <1>1, RosterIsEarly, PlanIsEarly, EarlyKeeps
<1> QED
    BY <1>1, GateKeeps, FundKeeps, PublishKeeps, BroadcastKeeps, RequestKeeps, RehearseKeeps, ChainKeeps,
       OtherwiseKeeps DEF Next

\* Every state of the ceremony satisfies the inductive invariant: types, the
\* ledger's own consistency, and what each request under way relies on.
THEOREM Safety == Spec => []IInv
BY Starts, Steps, PTL DEF Spec

\* The network only ever sees one genesis bundle, the one of the ceremony that
\* took the slot (reserve_broadcast, reconcile_reserved).
THEOREM OneGenesisForEver == Spec => []OneGenesis
<1>1. IInv => OneGenesis
    BY DEF IInv, Facts
<1> QED
    BY <1>1, Safety, PTL

\* What was broadcast is the plan that owner and coadministrator signed
\* (reserve_broadcast, renew_expired_plan).
THEOREM SignedBroadcast == Spec => []BroadcastIsSigned
<1>1. IInv => BroadcastIsSigned
    BY DEF IInv, Facts, LedgerOK
<1> QED
    BY <1>1, Safety, PTL

\* The receipt names the fan-out before the network can see it
\* (preserve_before_push).
THEOREM KnownFanOut == Spec => []FanOutIsKnown
<1>1. IInv => FanOutIsKnown
    BY DEF IInv, Facts, FanOutIsPaid
<1> QED
    BY <1>1, Safety, PTL

\* The lock is on disk only with the artifact the ledger bound, under the
\* signatures the ledger still holds (_commit_finalization).
THEOREM SealedArtifact == Spec => []LockSealsArtifact
<1>1. IInv => LockSealsArtifact
    BY DEF IInv, Facts, LedgerOK, Published, LockSealsArtifact, Unbound, NoFile
<1> QED
    BY <1>1, Safety, PTL

\* Once a window has opened the rehearsal behind it stays the one whose
\* evidence was written (require_completed_rehearsal).
THEOREM StandingRehearsal == Spec => []RehearsalStands
<1>1. IInv => RehearsalStands
    BY DEF IInv, Facts, Rehearsed, RehearsalStands
<1> QED
    BY <1>1, Safety, PTL

\* Nothing a request relies on is taken back, by any step: the slot, the coin
\* a broadcast was reserved with, the till coin sealed for the fan-out, the
\* receipt that names it, a bound publication, a written file.
THEOREM NothingTakenBack == Spec => [][Stable]_vars
BY Safety, Steps, PTL DEF Spec

-----------------------------------------------------------------------------
(* What is confirmed, and what the chain can still take back.              *)

Past == Reserved \ {"broadcast"}
Deep(block) == block > 0 /\ peak - block + 1 >= Confirmations

\* The block of a genesis is on record exactly while it is in one.
BlocksOK ==
    /\ \A c \in Ceremonies : height[c] > 0 => Bundle("genesis", c, ceremonies[c].coin) \in mined
    /\ \A b \in mined : b.kind = "genesis" => height[b.c] > 0

\* The depth was read of a block that held the genesis when it was read, and
\* is not less by now.
ReadsOK ==
    \A h \in Handlers : handlers[h].at \in Confirming =>
        handlers[h].block > 0 /\ (handlers[h].at = "confirm" => Deep(handlers[h].block))
RowsOK == \A c \in Ceremonies : ceremonies[c].state \in Past => Deep(ceremonies[c].block)

Depths == BlocksOK /\ ReadsOK /\ RowsOK

LEMMA Placed ==
    ASSUME NEW x \in Requests, NEW a
    PROVE  /\ [x EXCEPT !.at = a].at = a
           /\ x \in FundRequests \cup BroadcastRequests =>
                \A coin : [x EXCEPT !.at = a, !.coin = coin].at = a
           /\ x \in ConfirmRequests => [x EXCEPT !.at = a].block = x.block
<1>1. x \in FundRequests => /\ [x EXCEPT !.at = a].at = a
                            /\ \A coin : [x EXCEPT !.at = a, !.coin = coin].at = a
    BY DEF FundRequests
<1>2. x \in BroadcastRequests => /\ [x EXCEPT !.at = a].at = a
                                 /\ \A coin : [x EXCEPT !.at = a, !.coin = coin].at = a
    BY DEF BroadcastRequests
<1>3. x \in ReplayRequests => [x EXCEPT !.at = a].at = a
    BY DEF ReplayRequests
<1>4. x \in ConfirmRequests => [x EXCEPT !.at = a].at = a /\ [x EXCEPT !.at = a].block = x.block
    BY DEF ConfirmRequests
<1>5. x \in PublishRequests => [x EXCEPT !.at = a].at = a
    BY DEF PublishRequests
<1>6. x \in RehearsalRequests => [x EXCEPT !.at = a].at = a
    BY DEF RehearsalRequests
<1>7. x = Idle => [x EXCEPT !.at = a].at = a
    BY DEF Idle
<1> QED
    BY <1>1, <1>2, <1>3, <1>4, <1>5, <1>6, <1>7 DEF Requests

\* A step of one request to another place than these starts no confirmation.
LEMMA Elsewhere ==
    ASSUME TypeOK, NEW g \in Handlers, NEW next, Step(g, next), next.at \notin Confirming,
           NEW h \in Handlers, handlers'[h].at \in Confirming
    PROVE  handlers'[h] = handlers[h]
BY DEF Step, TypeOK

LEMMA OnlyReads ==
    ASSUME IInv, [Next]_vars, NEW h \in Handlers, handlers'[h].at \in Confirming
    PROVE  \/ handlers'[h] = handlers[h]
           \/ \E c \in Ceremonies : ReadInputs(h, c)
           \/ ReadOutputs(h) \/ ReadPeak(h)
<1> USE DEF IInv
<1>0. Idle.at \notin Confirming /\ handlers \in [Handlers -> Requests]
    BY DEF Idle, Confirming, TypeOK
<1>1. ASSUME NEW g \in Handlers, NEW next, Step(g, next), next.at \notin Confirming
      PROVE  handlers'[h] = handlers[h]
    BY <1>1, Elsewhere
<1>2. CASE UNCHANGED handlers
    BY <1>2
<1>3. CASE Roster \/ Plan
    BY <1>3, RosterIsEarly, PlanIsEarly DEF Early
<1>4. CASE Gate \/ Publish \/ Chain \/ Tick \/ UNCHANGED vars
    <2>1. Gate => UNCHANGED handlers
        BY DEF Gate, ActivateGate, ProposeGate, ApproveGate
    <2>2. ASSUME NEW c \in Ceremonies, NEW g \in Handlers, StartFinalize(g, c)
          PROVE  handlers'[h] = handlers[h]
        BY <1>1, <2>2 DEF StartFinalize, Confirming
    <2>3. ASSUME NEW c \in Ceremonies, CreateArtifact(c) \/ \E s \in Slots : SignArtifact(c, s)
          PROVE  UNCHANGED handlers
        BY <2>3 DEF CreateArtifact, SignArtifact
    <2>4. Publish => handlers'[h] = handlers[h]
        BY <2>2, <2>3 DEF Publish
    <2> QED
        BY <1>4, <2>1, <2>4, Chained DEF Tick, vars
<1>5. CASE Fund
    <2>1. ASSUME NEW c \in Ceremonies, NEW g \in Handlers, ExecuteFunding(g, c)
          PROVE  handlers'[h] = handlers[h]
        BY <1>1, <2>1 DEF ExecuteFunding, Confirming
    <2>2. ASSUME NEW c \in Ceremonies, NEW s \in Slots,
                 PrepareFunding(c, s) \/ ApproveFunding(c, s) \/ ConfirmFunding(c, s)
          PROVE  UNCHANGED handlers
        BY <2>2 DEF PrepareFunding, ApproveFunding, ConfirmFunding
    <2> QED
        BY <1>5, <2>1, <2>2 DEF Fund
<1>6. CASE Broadcast
    <2>1. PICK g \in Handlers, c \in Ceremonies :
            StartBroadcast(g, c) \/ StartReplay(g, c) \/ ReadInputs(g, c)
        BY <1>6 DEF Broadcast
    <2>2. CASE StartBroadcast(g, c)
        BY <1>1, <2>2 DEF StartBroadcast, Confirming
    <2>3. CASE StartReplay(g, c)
        BY <1>1, <2>3 DEF StartReplay, Confirming
    <2>4. CASE ReadInputs(g, c)
        BY <1>0, <2>4 DEF ReadInputs, Step
    <2> QED
        BY <2>1, <2>2, <2>3, <2>4
<1>7. CASE Rehearse
    <2>1. ASSUME NEW g \in Handlers, StoreRehearsal(g)
          PROVE  handlers'[h] = handlers[h]
        BY <1>0, <1>1, <2>1 DEF StoreRehearsal
    <2>2. ASSUME NEW g \in Handlers, PollRehearsal(g)
          PROVE  handlers'[h] = handlers[h]
        BY <1>1, <2>2 DEF PollRehearsal, Confirming
    <2>3. ASSUME NEW g \in Handlers, NEW c \in Ceremonies, StartRehearsal(g, c)
          PROVE  handlers'[h] = handlers[h]
        BY <1>1, <2>3 DEF StartRehearsal, Confirming
    <2>4. ASSUME \/ \E j \in Jobs : RemoteMoves(j)
                 \/ \E c \in Ceremonies : OpenOperational(c)
          PROVE  UNCHANGED handlers
        BY <2>4 DEF RemoteMoves, OpenOperational
    <2> QED
        BY <1>7, <2>1, <2>2, <2>3, <2>4 DEF Rehearse
<1>8. CASE Request
    <2>1. PICK g \in Handlers :
            \/ Seal(g) \/ PreserveFunding(g) \/ Reserve(g) \/ Replay(g) \/ Push(g)
            \/ RecordFunding(g) \/ RecordBroadcast(g)
            \/ ReadOutputs(g) \/ ReadPeak(g) \/ Confirm(g)
            \/ BindPublication(g) \/ WritePublic(g) \/ WriteLock(g) \/ MarkLocked(g)
        BY <1>8 DEF Request
    <2>2. handlers[g] \in Requests
        BY <1>0
    <2>3. ASSUME NEW a \in {"push", "record", "public", "lock", "locked"},
                 Step(g, [handlers[g] EXCEPT !.at = a])
          PROVE  handlers'[h] = handlers[h]
        <3>1. [handlers[g] EXCEPT !.at = a].at \notin Confirming
            BY <2>2, Placed DEF Confirming
        <3> QED
            BY <1>1, <2>3, <3>1
    <2>4. ASSUME Step(g, Idle)
          PROVE  handlers'[h] = handlers[h]
        BY <1>0, <1>1, <2>4
    <2>5. CASE Seal(g)
        <3>1. handlers[g] \in FundRequests \cup BroadcastRequests
            BY <2>2, <2>5, RequestKind DEF Seal
        <3>2. PICK coin : Step(g, [handlers[g] EXCEPT !.at = "sealed", !.coin = coin])
            BY <2>5 DEF Seal
        <3>3. [handlers[g] EXCEPT !.at = "sealed", !.coin = coin].at \notin Confirming
            BY <2>2, <3>1, Placed DEF Confirming
        <3> QED
            BY <1>1, <3>2, <3>3
    <2>6. CASE PreserveFunding(g) \/ Reserve(g) \/ Replay(g)
        BY <2>3, <2>4, <2>6 DEF PreserveFunding, Reserve, ReserveIf, Replay, StepOrDrop
    <2>7. CASE Push(g)
        BY <2>3, <2>4, <2>7 DEF Push
    <2>8. CASE RecordFunding(g) \/ RecordBroadcast(g) \/ Confirm(g) \/ MarkLocked(g)
        BY <2>4, <2>8 DEF RecordFunding, RecordBroadcast, Confirm, MarkLocked
    <2>9. CASE BindPublication(g) \/ WritePublic(g) \/ WriteLock(g)
        BY <2>3, <2>4, <2>9 DEF BindPublication, WritePublic, WriteLock, StepOrDrop
    <2>10. CASE ReadOutputs(g) \/ ReadPeak(g)
        <3>1. g # h => handlers'[h] = handlers[h]
            BY <1>0, <2>10 DEF ReadOutputs, ReadPeak, StepOrDrop, Step
        <3> QED
            BY <2>10, <3>1
    <2> QED
        BY <2>1, <2>5, <2>6, <2>7, <2>8, <2>9, <2>10
<1>9. CASE Crash
    BY <1>0, <1>9 DEF Crash
<1> QED
    BY <1>3, <1>4, <1>5, <1>6, <1>7, <1>8, <1>9 DEF Next

\* Only Confirm takes a row past its broadcast, with the block it read.
LEMMA OnlyConfirms ==
    ASSUME IInv, [Next]_vars, NEW c \in Ceremonies
    PROVE  /\ ceremonies[c].state \in Past =>
                ceremonies'[c].state \in Past /\ ceremonies'[c].block = ceremonies[c].block
           /\ ceremonies[c].state \notin Past /\ ceremonies'[c].state \in Past =>
                \E h \in Handlers : handlers[h].at = "confirm" /\ ceremonies'[c].block = handlers[h].block
<1> USE DEF IInv
<1> DEFINE Moved == /\ ceremonies[c].state \in Past =>
                         ceremonies'[c].state \in Past /\ ceremonies'[c].block = ceremonies[c].block
                    /\ ceremonies[c].state \notin Past /\ ceremonies'[c].state \in Past =>
                         \E h \in Handlers : handlers[h].at = "confirm" /\ ceremonies'[c].block = handlers[h].block
<1>0. ceremonies \in [Ceremonies -> CeremonyRows]
    BY DEF TypeOK
<1>1. CASE Roster \/ Plan
    <2>1. PICK d : Early(d)
        BY <1>1, RosterIsEarly, PlanIsEarly
    <2> QED
        BY <2>1 DEF Early, Past
<1>2. CASE Gate \/ Fund \/ Broadcast \/ Rehearse
    <2>1. UNCHANGED ceremonies
        <3>1. Gate => UNCHANGED ceremonies
            BY DEF Gate, ActivateGate, ProposeGate, ApproveGate
        <3>2. Fund => UNCHANGED ceremonies
            BY DEF Fund, PrepareFunding, ApproveFunding, ConfirmFunding, ExecuteFunding, ledger
        <3>3. Broadcast => UNCHANGED ceremonies
            BY DEF Broadcast, StartBroadcast, StartReplay, ReadInputs, ledger
        <3>4. Rehearse => UNCHANGED ceremonies
            BY DEF Rehearse, PollRehearsal, StoreRehearsal, StartRehearsal, RemoteMoves, OpenOperational, ledger
        <3> QED
            BY <1>2, <3>1, <3>2, <3>3, <3>4
    <2> QED
        BY <2>1
<1>3. CASE Publish
    <2>1. ASSUME NEW d \in Ceremonies, CreateArtifact(d)
          PROVE  Moved
        BY <1>0, <2>1 DEF CreateArtifact, CeremonyRows, Past, Reserved
    <2>2. ASSUME NEW d \in Ceremonies, NEW s \in Slots, SignArtifact(d, s)
          PROVE  Moved
        <3>1. /\ ceremonies'[d].state \in {"artifact_pending", "artifact_signed"}
              /\ ceremonies[d].state \in {"artifact_pending", "artifact_signed"}
              /\ ceremonies'[d].block = ceremonies[d].block
              /\ d # c => ceremonies'[c] = ceremonies[c]
            BY <1>0, <2>2 DEF SignArtifact, CeremonyRows
        <3> QED
            BY <3>1 DEF Past, Reserved
    <2>3. ASSUME NEW d \in Ceremonies, NEW h \in Handlers, StartFinalize(h, d)
          PROVE  Moved
        BY <2>3 DEF StartFinalize, ledger
    <2> QED
        BY <1>3, <2>1, <2>2, <2>3 DEF Publish
<1>4. CASE Request
    <2>1. PICK h \in Handlers :
            \/ Seal(h) \/ PreserveFunding(h) \/ Reserve(h) \/ Replay(h) \/ Push(h)
            \/ RecordFunding(h) \/ RecordBroadcast(h)
            \/ ReadOutputs(h) \/ ReadPeak(h) \/ Confirm(h)
            \/ BindPublication(h) \/ WritePublic(h) \/ WriteLock(h) \/ MarkLocked(h)
        BY <1>4 DEF Request
    <2>2. CASE Reserve(h)
        <3>1. CASE UNCHANGED ceremonies
            BY <3>1
        <3>2. CASE Takes(handlers[h])
            <4>1. handlers[h].c \in Ceremonies /\ ceremonies[handlers[h].c].state = "plan_approved"
                BY <2>2, <3>2, Reserving DEF Takes
            <4>2. /\ ceremonies'[handlers[h].c].state = "broadcast"
                  /\ handlers[h].c # c => ceremonies'[c] = ceremonies[c]
                BY <1>0, <3>2, <4>1 DEF Takes, CeremonyRows
            <4> QED
                BY <4>1, <4>2 DEF Past, Reserved
        <3> QED
            BY <2>2, <3>1, <3>2, Reserving
    <2>3. CASE RecordBroadcast(h)
        BY <1>0, <2>3 DEF RecordBroadcast, CeremonyRows
    <2>4. CASE Confirm(h)
        <3>1. CASE UNCHANGED ceremonies
            BY <3>1
        <3>2. ASSUME ceremonies[handlers[h].c].state = "broadcast",
                     ceremonies' = [ceremonies EXCEPT ![handlers[h].c].state = "confirmed",
                         ![handlers[h].c].reservation = "FINALIZED", ![handlers[h].c].block = handlers[h].block]
              PROVE  Moved
            <4>1. /\ handlers[h].c # c => ceremonies'[c] = ceremonies[c]
                  /\ handlers[h].c = c => ceremonies'[c].block = handlers[h].block
                BY <1>0, <3>2 DEF CeremonyRows
            <4> QED
                BY <2>4, <3>2, <4>1 DEF Confirm, Past
        <3> QED
            BY <2>4, <3>1, <3>2 DEF Confirm
    <2>5. CASE MarkLocked(h)
        <3>1. /\ handlers[h].c \in Ceremonies
              /\ ceremonies[handlers[h].c].state \in {"artifact_signed", "locked"}
            BY <2>5, RequestKind DEF MarkLocked, Facts, Requested, HandlerOK, Publishing, PublishRequests, TypeOK
        <3>2. /\ handlers[h].c # c => ceremonies'[c] = ceremonies[c]
              /\ handlers[h].c = c =>
                    ceremonies'[c].state = "locked" /\ ceremonies'[c].block = ceremonies[c].block
            BY <1>0, <2>5 DEF MarkLocked, CeremonyRows
        <3> QED
            BY <3>1, <3>2 DEF Past, Reserved
    <2>6. CASE Seal(h) \/ PreserveFunding(h) \/ Replay(h) \/ Push(h) \/ RecordFunding(h)
        BY <2>6 DEF Seal, PreserveFunding, Replay, Push, RecordFunding, ledger
    <2>7. CASE BindPublication(h) \/ WritePublic(h) \/ WriteLock(h)
        BY <2>7 DEF BindPublication, WritePublic, WriteLock
    <2>8. CASE ReadOutputs(h) \/ ReadPeak(h)
        BY <2>8 DEF ReadOutputs, ReadPeak, ledger
    <2> QED
        BY <2>1, <2>2, <2>3, <2>4, <2>5, <2>6, <2>7, <2>8
<1>5. CASE Chain \/ Crash \/ Tick \/ UNCHANGED vars
    BY <1>5, Chained DEF Crash, Tick, vars, ledger
<1> QED
    BY <1>1, <1>2, <1>3, <1>4, <1>5 DEF Next

\* Only the node moves blocks.
LEMMA OnlyBlocks ==
    ASSUME IInv, [Next]_vars, ~Chain
    PROVE  UNCHANGED <<mined, height, peak>>
<1> USE DEF chain
<1>1. Roster \/ Plan => UNCHANGED <<mined, height, peak>>
    BY RosterIsEarly, PlanIsEarly DEF Early
<1>2. Gate => UNCHANGED <<mined, height, peak>>
    BY DEF Gate, ActivateGate, ProposeGate, ApproveGate
<1>3. Fund => UNCHANGED <<mined, height, peak>>
    BY DEF Fund, PrepareFunding, ApproveFunding, ConfirmFunding, ExecuteFunding
<1>4. Publish => UNCHANGED <<mined, height, peak>>
    BY DEF Publish, CreateArtifact, SignArtifact, StartFinalize
<1>5. Broadcast => UNCHANGED <<mined, height, peak>>
    BY DEF Broadcast, StartBroadcast, StartReplay, ReadInputs
<1>6. Rehearse => UNCHANGED <<mined, height, peak>>
    BY DEF Rehearse, PollRehearsal, StoreRehearsal, StartRehearsal, RemoteMoves, OpenOperational
<1>7. Request => UNCHANGED <<mined, height, peak>>
    BY DEF Request, Seal, PreserveFunding, Reserve, ReserveIf, Replay, Push, RecordFunding, RecordBroadcast,
           ReadOutputs, ReadPeak, Confirm, BindPublication, WritePublic, WriteLock, MarkLocked
<1> QED
    BY <1>1, <1>2, <1>3, <1>4, <1>5, <1>6, <1>7 DEF Next, Crash, Tick, vars

LEMMA GenesisIsOne ==
    ASSUME IInv, NEW b \in mempool \cup mined, b.kind = "genesis"
    PROVE  b.c \in Ceremonies /\ b.c = singleton.owner /\ b = Bundle("genesis", b.c, ceremonies[b.c].coin)
BY DEF IInv, Facts, OneGenesis, TypeOK, Bundles

LEMMA BlocksStay ==
    ASSUME IInv, BlocksOK, [Next]_vars
    PROVE  BlocksOK' /\ peak <= peak'
<1>0. Stable /\ peak \in Nat /\ height \in [Ceremonies -> Nat]
    BY Steps DEF IInv, TypeOK
<1>1. CASE UNCHANGED <<mined, height, peak>>
    <2>1. ASSUME NEW c \in Ceremonies, height[c] > 0
          PROVE  ceremonies'[c].coin = ceremonies[c].coin
        <3>1. Bundle("genesis", c, ceremonies[c].coin) \in mined
            BY <2>1 DEF BlocksOK
        <3>2. c = singleton.owner
            BY <3>1, GenesisIsOne DEF Bundle
        <3> QED
            BY <1>0, <3>2 DEF Stable
    <2> QED
        BY <1>0, <1>1, <2>1 DEF BlocksOK
<1>2. CASE Chain
    <2>0. UNCHANGED ceremonies
        BY <1>2, Chained DEF ledger
    <2>1. ASSUME NEW b \in mempool, Mine(b)
          PROVE  BlocksOK' /\ peak <= peak'
        <3>1. mined' = mined \cup {b}
            BY <2>1 DEF Mine
        <3>2. CASE b.kind = "fund" /\ UNCHANGED <<height, peak>>
            BY <1>0, <2>0, <3>1, <3>2 DEF BlocksOK
        <3>3. CASE b.kind = "genesis" /\ peak' = peak + 1 /\ height' = [height EXCEPT ![b.c] = peak + 1]
            <4>1. b.c \in Ceremonies /\ b = Bundle("genesis", b.c, ceremonies[b.c].coin)
                BY <3>3, GenesisIsOne
            <4>2. \A c \in Ceremonies : height'[c] = IF c = b.c THEN peak + 1 ELSE height[c]
                BY <1>0, <3>3
            <4>3. \A c \in Ceremonies : height'[c] > 0 =>
                    Bundle("genesis", c, ceremonies[c].coin) \in mined'
                BY <3>1, <4>1, <4>2 DEF BlocksOK
            <4>4. \A d \in mined : d.kind = "genesis" => d.c \in Ceremonies
                BY GenesisIsOne
            <4>5. \A d \in mined' : d.kind = "genesis" => height'[d.c] > 0
                BY <1>0, <3>1, <4>1, <4>2, <4>4 DEF BlocksOK
            <4> QED
                BY <1>0, <2>0, <3>3, <4>3, <4>5 DEF BlocksOK
        <3> QED
            BY <2>1, <3>2, <3>3 DEF Mine
    <2>2. ASSUME NEW b \in mempool, Evict(b)
          PROVE  BlocksOK' /\ peak <= peak'
        BY <1>0, <2>0, <2>2 DEF BlocksOK, Evict
    <2>3. CASE NextBlock
        BY <1>0, <2>0, <2>3 DEF BlocksOK, NextBlock
    <2>4. ASSUME NEW b \in mined, Reorg(b)
          PROVE  BlocksOK' /\ peak <= peak'
        <3> DEFINE gone == {d \in mined : d.c = b.c /\ (d = b \/ (b.kind = "fund" /\ d.kind = "genesis"))}
        <3>1. mined' = mined \ gone /\ height' = [height EXCEPT ![b.c] = 0] /\ peak' = peak
            BY <2>4 DEF Reorg
        <3>2. b.kind \in {"fund", "genesis"} /\ b.c \in Ceremonies
            BY DEF IInv, TypeOK, Bundles, Kinds
        <3>3. \A c \in Ceremonies : height'[c] = IF c = b.c THEN 0 ELSE height[c]
            BY <1>0, <3>1
        <3>4. ASSUME NEW c \in Ceremonies, height'[c] > 0
              PROVE  Bundle("genesis", c, ceremonies[c].coin) \in mined'
            <4>1. c # b.c /\ height[c] > 0
                BY <3>3, <3>4
            <4>2. Bundle("genesis", c, ceremonies[c].coin) \in mined
                BY <4>1 DEF BlocksOK
            <4>3. Bundle("genesis", c, ceremonies[c].coin).c = c
                BY DEF Bundle
            <4> QED
                BY <3>1, <4>1, <4>2, <4>3
        <3>5. ASSUME NEW d \in mined', d.kind = "genesis"
              PROVE  height'[d.c] > 0
            <4>1. d \in mined /\ d \notin gone
                BY <3>1
            <4>2. d.c \in Ceremonies /\ d = Bundle("genesis", d.c, ceremonies[d.c].coin)
                BY <3>5, <4>1, GenesisIsOne
            <4>3. d.c # b.c
                <5>1. CASE b.kind = "fund"
                    BY <3>5, <4>1, <5>1
                <5>2. CASE b.kind = "genesis"
                    <6>1. b = Bundle("genesis", b.c, ceremonies[b.c].coin)
                        BY <5>2, GenesisIsOne
                    <6>2. d.c = b.c => d = b
                        BY <4>2, <6>1
                    <6> QED
                        BY <4>1, <6>2
                <5> QED
                    BY <3>2, <5>1, <5>2
            <4> QED
                BY <3>3, <3>5, <4>1, <4>2, <4>3 DEF BlocksOK
        <3> QED
            BY <1>0, <2>0, <3>1, <3>4, <3>5 DEF BlocksOK
    <2> QED
        BY <1>2, <2>1, <2>2, <2>3, <2>4 DEF Chain
<1> QED
    BY <1>1, <1>2, OnlyBlocks

LEMMA DepthsStay ==
    ASSUME IInv, Depths, [Next]_vars
    PROVE  Depths'
<1>0. peak \in Nat /\ peak' \in Nat /\ Confirmations \in Nat
    BY Typing, GenesisAssumption DEF IInv, TypeOK
<1>1. BlocksOK' /\ peak <= peak'
    BY BlocksStay DEF Depths
<1>2. ASSUME NEW n \in Nat, Deep(n)
      PROVE  Deep(n)'
    <2>1. n \in Nat /\ n > 0 /\ peak - n + 1 >= Confirmations /\ peak <= peak'
        BY <1>1, <1>2 DEF Deep
    <2>2. \A p, q \in Nat : p - n + 1 >= Confirmations /\ p <= q => q - n + 1 >= Confirmations
        BY <1>0, <2>1
    <2> QED
        BY <1>0, <2>1, <2>2 DEF Deep
<1>3. ASSUME NEW h \in Handlers, handlers[h].at \in Confirming
      PROVE  handlers[h] \in ConfirmRequests /\ handlers[h].block \in Nat
    BY <1>3, RequestKind DEF IInv, TypeOK, ConfirmRequests
<1>4. ASSUME NEW h \in Handlers, handlers'[h].at \in Confirming
      PROVE  (handlers[h].block > 0 /\ (handlers[h].at = "confirm" => Deep(handlers[h].block)))'
    <2> DEFINE x == handlers[h]
    <2>1. CASE handlers'[h] = handlers[h]
        BY <1>2, <1>3, <1>4, <2>1 DEF Depths, ReadsOK
    <2>2. ASSUME NEW c \in Ceremonies, ReadInputs(h, c)
          PROVE  (handlers[h].block > 0 /\ (handlers[h].at = "confirm" => Deep(handlers[h].block)))'
        <3>1. handlers'[h].at = "outputs" /\ handlers'[h].block = height[c]
            BY <2>2 DEF ReadInputs, Step, IInv, TypeOK
        <3>2. Bundle("genesis", c, ceremonies[c].coin) \in mined
            BY <2>2 DEF ReadInputs, InBlock
        <3>3. height[c] > 0
            BY <3>2 DEF Depths, BlocksOK, Bundle
        <3> QED
            BY <3>1, <3>3
    <2>3. CASE ReadOutputs(h)
        <3>1. x \in Requests /\ x.at = "outputs" /\ x.at \in Confirming
            BY <2>3 DEF ReadOutputs, IInv, TypeOK, Confirming
        <3>2. handlers'[h] \in {[x EXCEPT !.at = "peak"], Idle}
            BY <2>3 DEF ReadOutputs, StepOrDrop, Step, IInv, TypeOK
        <3>3. handlers'[h] = [x EXCEPT !.at = "peak"]
            BY <1>4, <3>2 DEF Idle, Confirming
        <3>4. x \in ConfirmRequests
            BY <1>3, <3>1
        <3>5. handlers'[h].at = "peak" /\ handlers'[h].block = x.block
            BY <3>3, <3>4 DEF ConfirmRequests
        <3> QED
            BY <3>1, <3>5 DEF Depths, ReadsOK
    <2>4. CASE ReadPeak(h)
        <3>1. x \in Requests /\ x.at = "peak" /\ x.at \in Confirming
            BY <2>4 DEF ReadPeak, IInv, TypeOK, Confirming
        <3>2. handlers'[h] = IF peak - x.block + 1 >= Confirmations THEN [x EXCEPT !.at = "confirm"] ELSE Idle
            BY <2>4 DEF ReadPeak, StepOrDrop, Step, IInv, TypeOK
        <3>3. /\ handlers'[h].at = "confirm" /\ handlers'[h].block = x.block
              /\ peak - x.block + 1 >= Confirmations
            BY <1>3, <1>4, <3>1, <3>2, Placed DEF Idle, Confirming
        <3>4. Deep(x.block)
            BY <3>1, <3>3 DEF Deep, Depths, ReadsOK
        <3>5. Deep(x.block)'
            <4>1. x.block \in Nat
                BY <1>3, <3>1
            <4>2. x.block > 0 /\ peak' - x.block + 1 >= Confirmations
                BY <1>0, <1>1, <3>4, <4>1 DEF Deep
            <4> QED
                BY <3>3, <4>2 DEF Deep
        <3> QED
            BY <3>3, <3>4, <3>5 DEF Deep
    <2> QED
        BY <1>4, <2>1, <2>2, <2>3, <2>4, OnlyReads
<1>5. ASSUME NEW c \in Ceremonies, ceremonies'[c].state \in Past
      PROVE  Deep(ceremonies[c].block)'
    <2>1. CASE ceremonies[c].state \in Past
        <3>1. ceremonies'[c].block = ceremonies[c].block /\ ceremonies[c].block \in Nat
            BY <2>1, OnlyConfirms DEF IInv, TypeOK, CeremonyRows
        <3>2. Deep(ceremonies[c].block)
            BY <2>1 DEF Depths, RowsOK
        <3> QED
            BY <1>0, <1>1, <3>1, <3>2 DEF Deep
    <2>2. CASE ceremonies[c].state \notin Past
        <3>1. PICK h \in Handlers : handlers[h].at = "confirm" /\ ceremonies'[c].block = handlers[h].block
            BY <1>5, <2>2, OnlyConfirms
        <3>2. handlers[h].block \in Nat /\ Deep(handlers[h].block)
            BY <1>3, <3>1 DEF Depths, ReadsOK, Confirming
        <3> QED
            BY <1>0, <1>1, <3>1, <3>2 DEF Deep
    <2> QED
        BY <2>1, <2>2
<1>6. ReadsOK'
    BY <1>4 DEF ReadsOK
<1>7. RowsOK'
    BY <1>5 DEF RowsOK, Past
<1> QED
    BY <1>1, <1>6, <1>7 DEF Depths

LEMMA DeepIsFinal ==
    ASSUME IInv, Depths, NEW c \in Ceremonies, ceremonies[c].state \in Past, ~Overtaken(c)
    PROVE  Final(c) /\ InBlock(c, ceremonies[c].block)
<1>1. Deep(ceremonies[c].block) /\ height[c] = ceremonies[c].block
    BY DEF Depths, RowsOK, Overtaken
<1> QED
    BY <1>1 DEF Deep, Final, InBlock, Depths, BlocksOK

LEMMA DepthsHold == Spec => [](IInv /\ Depths)
<1>1. Init => Depths
    BY DEF Init, Depths, BlocksOK, ReadsOK, RowsOK, Idle, Confirming, Past, Reserved
<1>2. IInv /\ Depths /\ [Next]_vars => Depths'
    BY DepthsStay
<1> QED
    BY <1>1, <1>2, Safety, PTL DEF Spec

\* A confirmed ceremony is on the chain for good, in the block on record,
\* unless a reorganisation overtook the request that confirmed it (confirm).
THEOREM FinalConfirmation == Spec => []ConfirmedIsFinal
<1>1. IInv /\ Depths => ConfirmedIsFinal
    BY DeepIsFinal DEF ConfirmedIsFinal, Past
<1> QED
    BY <1>1, DepthsHold, PTL

\* Only that request can be overtaken: a confirmation that found its block in
\* place is never taken back afterwards, by any step of the chain (confirm).
THEOREM ConfirmationStands ==
    Spec => [][\A c \in Ceremonies : ceremonies[c].state \in Past /\ ~Overtaken(c) => ~Overtaken(c)']_vars
<1>1. ASSUME IInv, Depths, [Next]_vars, NEW c \in Ceremonies, ceremonies[c].state \in Past, ~Overtaken(c)
      PROVE  ~Overtaken(c)'
    <2>1. Final(c) /\ InBlock(c, ceremonies[c].block) /\ height \in [Ceremonies -> Nat]
        BY <1>1, DeepIsFinal DEF IInv, TypeOK
    <2>2. ceremonies'[c].block = ceremonies[c].block
        BY <1>1, OnlyConfirms
    <2>3. height'[c] = height[c]
        <3>1. ASSUME NEW b \in mempool, Mine(b), b.kind = "genesis"
              PROVE  b.c # c
            <4>1. Bundle("genesis", c, ceremonies[c].coin) \in mined
                BY <2>1 DEF InBlock
            <4>2. b \notin mined /\ \A d \in mined : ~Conflict(b, d)
                BY <3>1 DEF Mine, Spendable
            <4> QED
                BY <3>1, <4>1, <4>2 DEF Conflict, Bundle
        <3>2. ASSUME NEW b \in mined, Reorg(b)
              PROVE  b.c # c
            BY <2>1, <3>2 DEF Reorg
        <3>3. ASSUME NEW b \in mempool, Mine(b)
              PROVE  height'[c] = height[c]
            BY <2>1, <3>1, <3>3 DEF Mine
        <3>4. ASSUME NEW b \in mined, Reorg(b)
              PROVE  height'[c] = height[c]
            BY <2>1, <3>2, <3>4 DEF Reorg
        <3>5. Chain => height'[c] = height[c]
            BY <3>3, <3>4 DEF Chain, Evict, NextBlock
        <3> QED
            BY <1>1, <3>5, OnlyBlocks
    <2> QED
        BY <1>1, <2>2, <2>3 DEF Overtaken
<1>2. IInv /\ Depths /\ [Next]_vars =>
        [\A c \in Ceremonies : ceremonies[c].state \in Past /\ ~Overtaken(c) => ~Overtaken(c)']_vars
    BY <1>1
<1> QED
    BY <1>2, DepthsHold, PTL DEF Spec
=============================================================================
