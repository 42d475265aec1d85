------------------------- MODULE Governance_proofs --------------------------
(***************************************************************************)
(* PublishedOnce and FundedOnce hold for any queue.  A publication pays    *)
(* off at most once because the bundles of a row all carry its one         *)
(* deadline and name a tracker coin: the tracker must be idle for another  *)
(* one, and lets go of the bill only when that deadline has passed, after  *)
(* which none is built.  A redemption is funded at most once because every *)
(* bundle that may reach the node carries the coin of the first intent.    *)
(* QueueFollowsChain, that a closed row agrees with the tracker, holds     *)
(* because what a reconciliation has read of an ended bill lasts.          *)
(***************************************************************************)
EXTENDS Governance, FiniteSetTheorems, TLAPS

States == {"none", "DRAFT", "READY", "ACTIVE", "EXECUTED", "FAILED", "CANCELED"}
Sales  == {"none", "AVAILABLE", "TAKEN", "RETURNED"}

Rows == [state : States, revision : Nat, creator : Slots, coadmin : Slots, deadline : Nat,
         coin : Nat, execution : FundingCoins \cup {NoCoin} \cup Nat, sale : Sales]

Publications == [op : {"publish"}, p : Proposals, deadline : Nat, tracker : Nat, reserve : Nat,
                 signers : SUBSET (Slots \X Nat)]
Votes        == [op : {"vote"}, p : Proposals, voter : Voters, tracker : Nat]
Executions   == [op : {"execute"}, p : Proposals, tracker : Nat, reserve : Nat,
                 coin : FundingCoins \cup {NoCoin}]
Fundings     == [op : {"fund"}, p : Proposals, coin : FundingCoins]

Jobs == {Idle}
  \cup [op : {"publish"}, step : {"push", "record"}, p : Proposals, revision : Nat, bundle : Publications]
  \cup [op : {"execute"}, step : {"push", "record"}, p : Proposals, revision : Nat, bundle : Executions]
  \cup [op : {"fund"}, step : {"intend", "push", "record"}, p : Proposals, bundle : Fundings]
  \cup [op : {"reconcile"}, step : {"sale", "end"}, p : Proposals, revision : Nat,
        target : {"EXECUTED", "FAILED"}, sale : Sales]
  \cup [op : {"refresh"}, step : {"sale"}, p : Proposals, sale : Sales]

StoreShape ==
    /\ rows \in [Proposals -> Rows]
    /\ fundings \in [Proposals -> [status : {"none", "SUBMITTING", "SUBMITTED", "CONFIRMED"},
                                   coin : FundingCoins \cup {NoCoin}]]
    /\ \A p \in Proposals : fundings[p].coin = NoCoin => fundings[p] = NoFunding
    /\ handlers \in [Handlers -> Jobs]
    /\ mempool \subseteq Publications \cup Votes \cup Executions \cup Fundings

ChainShape ==
    /\ now \in Nat
    /\ tracker \in [holder : Proposals \cup {NoProposal, Other}, coin : Nat, tally : Nat, deadline : Nat]
    /\ reserve \in [coin : Nat, locked : BOOLEAN, until : Nat, amount : Int]
    /\ identities \in [Slots -> Nat]
    /\ coins \in [FundingCoins -> [state : {"none", "unspent", "spent"}, for : Proposals \cup {NoProposal}]]
    /\ entries \in [Proposals -> Nat]
    /\ ended \in [Proposals -> {"none", "EXECUTED", "FAILED"}]
    /\ sales \in [Proposals -> Sales]

Shape == StoreShape /\ ChainShape

(* A publication that is, or may still be, before the node.                *)
Published(b) ==
    \/ b \in mempool
    \/ \E h \in Handlers : handlers[h].op = "publish" /\ handlers[h].bundle = b

(* A funding bundle that is, or may still be, before the node.             *)
Funded(b) ==
    \/ b \in mempool
    \/ \E h \in Handlers : handlers[h].op = "fund" /\ handlers[h].step # "intend" /\ handlers[h].bundle = b

PublicationsFit ==
    \A b \in Publications : Published(b) =>
      /\ b.deadline # 0 /\ b.deadline = rows[b.p].deadline
      /\ b.tracker <= tracker.coin
      /\ b.tracker = tracker.coin => tracker.holder = NoProposal /\ entries[b.p] = 0

EntriesEnd ==
    \A p \in Proposals :
      /\ entries[p] <= 1
      /\ entries[p] # 0 => /\ rows[p].deadline # 0
                           /\ \/ tracker.holder = p /\ tracker.deadline = rows[p].deadline
                              \/ rows[p].deadline <= now

FundingsFit ==
    /\ \A b \in Fundings : Funded(b) => fundings[b.p].coin = b.coin
    /\ \A b \in Fundings : coins[b.coin].for = b.p \/ b \notin mempool
    /\ \A h \in Handlers : handlers[h].op = "fund" => /\ coins[handlers[h].bundle.coin].for = handlers[h].p
                                                    /\ handlers[h].bundle.p = handlers[h].p
    /\ \A p \in Proposals : fundings[p].coin # NoCoin => coins[fundings[p].coin].for = p
    /\ \A c \in FundingCoins : coins[c].state # "none" =>
         coins[c].for \in Proposals /\ fundings[coins[c].for].coin = c

PInv == Shape /\ PublicationsFit /\ EntriesEnd
FInv == Shape /\ FundingsFit

-----------------------------------------------------------------------------
(* The queue starts empty.                                                 *)
LEMMA InitHolds == Init => PInv /\ FInv
<1> SUFFICES ASSUME Init PROVE PInv /\ FInv
  OBVIOUS
<1>1. Shape
  BY GovernanceAssumption DEF Init, Shape, StoreShape, ChainShape, Rows, States, Sales, NoFunding, NoSale, Jobs, Idle,
     Slots, Owner
<1>2. PublicationsFit /\ EntriesEnd
  BY DEF Init, PublicationsFit, Published, EntriesEnd, Idle
<1>3. FundingsFit
  BY GovernanceAssumption DEF Init, FundingsFit, Funded, Idle, NoFunding
<1> QED BY <1>1, <1>2, <1>3 DEF PInv, FInv



-----------------------------------------------------------------------------
(* Bundles and jobs of each kind are jobs.                                 *)
USE GovernanceAssumption

LEMMA JobKinds ==
    ASSUME Shape, NEW h \in Handlers
    PROVE  /\ handlers[h] \in Jobs
           /\ handlers[h].op = "publish" => /\ handlers[h].bundle \in Publications
                                            /\ handlers[h].p \in Proposals
           /\ handlers[h].op = "fund" => /\ handlers[h].bundle \in Fundings
                                         /\ handlers[h].p \in Proposals
           /\ handlers[h].op = "execute" => /\ handlers[h].bundle \in Executions
                                            /\ handlers[h].p \in Proposals
           /\ handlers[h].op \in {"reconcile", "refresh"} =>
                handlers[h].p \in Proposals /\ handlers[h].sale \in Sales
           /\ handlers[h].op = "reconcile" =>
                handlers[h].revision \in Nat /\ handlers[h].target \in {"EXECUTED", "FAILED"}
  BY DEF Shape, StoreShape, Jobs, Idle

(* A row that is published, or whose sale is looked at, is a row.          *)
LEMMA RowChanges ==
    ASSUME NEW r \in Rows, NEW k \in Nat, NEW f \in Sales
    PROVE  /\ [r EXCEPT !.state = "ACTIVE", !.revision = @ + 1, !.coin = k + 1] \in Rows
           /\ [r EXCEPT !.sale = f, !.revision = @ + 1] \in Rows
<1> r.revision + 1 \in Nat /\ k + 1 \in Nat
  BY DEF Rows
<1> QED BY DEF Rows, States

(* Rows and requests keep their shape in every request.                    *)
LEMMA StoreShapeStep == ASSUME Shape, Next PROVE StoreShape'
<1> USE DEF Shape, StoreShape
<1>1. ASSUME NEW p \in Proposals, Queue(p) PROVE StoreShape'
  <2>1. CASE \E a \in Slots : Create(p, a)
    <3> PICK a \in Slots : Create(p, a)
      BY <2>1
    <3>1. rows[p] \in Rows
      OBVIOUS
    <3>2. [rows[p] EXCEPT !.state = "DRAFT", !.revision = 1, !.creator = a] \in Rows
      BY <3>1 DEF Rows, States
    <3> QED BY <3>2 DEF Create
  <2>2. CASE \E a \in Slots, target \in {"READY", "CANCELED"} : Decide(p, a, target)
    BY <2>2 DEF Decide, chain, Rows, States, ChainShape
  <2>3. CASE \E c \in Coadmins : Package(p, c)
    BY <2>3 DEF Package, chain, Rows, States, ChainShape
  <2>4. CASE \E s \in Slots : Approve(p, s)
    BY <2>4 DEF Approve, chain
  <2>5. CASE \E v \in Voters : Vote(p, v)
    BY <2>5 DEF Vote, VoteOf, store, Votes, ChainShape
  <2>6. CASE ReconcileLook(p)
    BY <2>6 DEF ReconcileLook, Seen, NoFunding
  <2> QED BY <1>1, <2>1, <2>2, <2>3, <2>4, <2>5, <2>6 DEF Queue
<1>2. ASSUME NEW h \in Handlers, Request(h) PROVE StoreShape'
  <2> USE JobKinds
  <2>1. ASSUME NEW p \in Proposals, PublishBuild(h, p) PROVE StoreShape'
    <3>1. PublicationOf(p) \in Publications
      <4>1. rows[p].coadmin \in Slots /\ rows[p].deadline \in Nat
        BY DEF Rows
      <4>2. Signers(p) \subseteq Slots
        BY <4>1 DEF Signers, Slots
      <4>3. {<<s, identities[s]>> : s \in Signers(p)} \in SUBSET (Slots \X Nat)
        BY <4>2 DEF ChainShape
      <4>4. tracker.coin \in Nat /\ reserve.coin \in Nat
        BY DEF ChainShape
      <4> QED BY <4>1, <4>3, <4>4 DEF PublicationOf, Publications
    <3> QED BY <2>1, <3>1 DEF PublishBuild, store, Jobs, Rows
  <2>2. ASSUME NEW p \in Proposals, FundRecover(h, p) PROVE StoreShape'
    BY <2>2 DEF FundRecover, Seen, NoFunding, Jobs, Fundings
  <2>3. ASSUME NEW p \in Proposals, ExecuteBuild(h, p) PROVE StoreShape'
    BY <2>3 DEF ExecuteBuild, ExecutionOf, ReserveStays, Treasury, Seen, Jobs, Executions, ChainShape, Rows, NoFunding
  <2>4. ASSUME NEW p \in Proposals, ReconcileRead(h, p) PROVE StoreShape'
    BY <2>4 DEF ReconcileRead, SaleStatus, ChainShape, Jobs, Rows, store
  <2>5. ASSUME NEW p \in Proposals, RefreshRead(h, p) PROVE StoreShape'
    BY <2>5 DEF RefreshRead, SaleStatus, ChainShape, Jobs, store
  <2>6. ASSUME NEW p \in Proposals, NEW c \in FundingCoins, FundBuild(h, p, c) PROVE StoreShape'
    BY <2>6 DEF FundBuild, store, Jobs, Fundings
  <2>7. CASE Push(h)
    BY <2>7 DEF Push, store, Jobs, Idle
  <2>8. CASE PublishRecord(h)
    <3> DEFINE job == handlers[h]
    <3>1. job.p \in Proposals /\ job.bundle.tracker \in Nat
      BY <2>8 DEF PublishRecord, Publications
    <3>0. rows[job.p] \in Rows
      BY <3>1
    <3>2. [rows[job.p] EXCEPT !.state = "ACTIVE", !.revision = @ + 1, !.coin = job.bundle.tracker + 1] \in Rows
      <4> DEFINE r == rows[job.p]
                 k == job.bundle.tracker
      <4>1. r \in Rows /\ k \in Nat
        BY <3>0, <3>1
      <4>2. "none" \in Sales
        BY DEF Sales
      <4> HIDE DEF r, k
      <4>3. [r EXCEPT !.state = "ACTIVE", !.revision = @ + 1, !.coin = k + 1] \in Rows
        BY <4>1, <4>2, RowChanges
      <4> QED BY <4>3 DEF r, k
    <3>3. rows' \in [Proposals -> Rows]
      BY <2>8, <3>1, <3>2 DEF PublishRecord
    <3> QED BY <2>8, <3>3 DEF PublishRecord, Jobs
  <2>9. CASE FundIntend(h)
    <3> DEFINE job == handlers[h]
    <3>1. /\ job.op = "fund" /\ job \in Jobs /\ job.p \in Proposals
          /\ job.bundle \in Fundings /\ job.bundle.coin \in FundingCoins
      BY <2>9 DEF FundIntend, Fundings
    <3>2. [job EXCEPT !.step = "push"] \in Jobs /\ Idle \in Jobs
      BY <3>1 DEF Jobs, Idle
    <3>3. handlers' \in [Handlers -> Jobs]
      BY <2>9, <3>2 DEF FundIntend
    <3>4. fundings' \in [Proposals -> [status : {"none", "SUBMITTING", "SUBMITTED", "CONFIRMED"},
                                      coin : FundingCoins \cup {NoCoin}]]
      BY <2>9, <3>1 DEF FundIntend
    <3>5. \A p \in Proposals : fundings'[p].coin = NoCoin => fundings'[p] = NoFunding
      BY <2>9, <3>1 DEF FundIntend
    <3> QED BY <2>9, <3>3, <3>4, <3>5 DEF FundIntend
  <2>10. CASE FundRecord(h)
    BY <2>10 DEF FundRecord, Jobs, NoFunding
  <2>11. CASE ExecuteRecord(h)
    <3> DEFINE job == handlers[h]
    <3>1. job.p \in Proposals /\ rows[job.p] \in Rows /\ job.op = "execute"
      BY <2>11 DEF ExecuteRecord
    <3>2. Parent(job.bundle) \in FundingCoins \cup {NoCoin} \cup Nat
      BY <3>1 DEF Parent, Executions
    <3>3. [rows[job.p] EXCEPT !.execution = Parent(job.bundle), !.revision = @ + 1] \in Rows
      <4> DEFINE r == rows[job.p]
                 k == Parent(job.bundle)
      <4>1. r \in Rows /\ k \in FundingCoins \cup {NoCoin} \cup Nat
        BY <3>1, <3>2
      <4> HIDE DEF r, k
      <4>2. r.revision + 1 \in Nat
        BY <4>1 DEF Rows
      <4>3. [r EXCEPT !.execution = k, !.revision = @ + 1] \in Rows
        BY <4>1, <4>2 DEF Rows
      <4> QED BY <4>3 DEF r, k
    <3>4. rows' \in [Proposals -> Rows]
      BY <2>11, <3>1, <3>3 DEF ExecuteRecord
    <3> QED BY <2>11, <3>4 DEF ExecuteRecord, Jobs
  <2>12. CASE SaleRecord(h)
    <3> DEFINE job == handlers[h]
               after == IF rows[job.p].sale = job.sale THEN rows[job.p]
                        ELSE [rows[job.p] EXCEPT !.sale = job.sale, !.revision = @ + 1]
    <3>1. job \in Jobs /\ job.p \in Proposals /\ job.sale \in Sales
      BY <2>12 DEF SaleRecord
    <3>0. rows[job.p] \in Rows
      BY <3>1
    <3>2. after \in Rows
      <4> HIDE DEF job
      <4> QED BY <3>0, <3>1, RowChanges DEF after
    <3>3. rows' = [rows EXCEPT ![job.p] = after]
      BY <2>12 DEF SaleRecord
    <3>6. after.revision \in Nat
      BY <3>2 DEF Rows
    <3>4. job.op = "reconcile" => [job EXCEPT !.step = "end", !.revision = after.revision] \in Jobs
      <4> HIDE DEF after
      <4> QED BY <3>1, <3>6 DEF Jobs, Idle
    <3>5. handlers' \in [Handlers -> Jobs]
      BY <2>12, <3>4 DEF SaleRecord, Jobs
    <3> QED BY <2>12, <3>1, <3>2, <3>3, <3>5 DEF SaleRecord
  <2>13. CASE ReconcileEnd(h)
    BY <2>13 DEF ReconcileEnd, Rows, States, Jobs
  <2> QED BY <1>2, <2>1, <2>2, <2>3, <2>4, <2>5, <2>6, <2>7, <2>8, <2>9, <2>10, <2>11, <2>12, <2>13 DEF Request
<1>3. ASSUME Outside PROVE StoreShape'
  <2>1. ASSUME NEW b \in mempool, Mine(b) PROVE StoreShape'
    BY <2>1 DEF Mine, store
  <2>2. ASSUME NEW b \in mempool, Evict(b) PROVE StoreShape'
    BY <2>2 DEF Evict, store
  <2>3. CASE \E p \in Proposals : OutsiderExecutes(p) \/ OutsiderExpires(p) \/ SaleSettles(p)
    BY <2>3 DEF OutsiderExecutes, OutsiderExpires, SaleSettles, store
  <2>4. CASE OutsiderReleases \/ OtherProposal \/ Tick
    BY <2>4 DEF OutsiderReleases, OtherProposal, Tick, store
  <2>5. CASE Crash
    BY <2>5 DEF Crash, store, Jobs
  <2> QED BY <1>3, <2>1, <2>2, <2>3, <2>4, <2>5 DEF Outside
<1> QED BY <1>1, <1>2, <1>3 DEF Next

(* What a bundle spends is there when it is mined.                         *)
LEMMA InputsAreUnspent ==
    ASSUME Shape, NEW b \in mempool, Valid(b)
    PROVE  /\ b.op = "publish" => b \in Publications /\ b.tracker = tracker.coin
           /\ b.op = "vote" => b \in Votes /\ b.tracker = tracker.coin
           /\ b.op = "execute" => /\ b \in Executions /\ b.tracker = tracker.coin
                                  /\ tracker.deadline <= now
                                  /\ b.coin # NoCoin => b.coin \in FundingCoins /\ coins[b.coin].state = "unspent"
           /\ b.op = "fund" => b \in Fundings /\ coins[b.coin].state = "none"
<1>1. b \in Publications \cup Votes \cup Executions \cup Fundings
  BY DEF Shape, StoreShape
<1>2. Inputs(b) \subseteq Unspent
  BY DEF Valid
<1>3. \A k : <<"tracker", k>> \in Unspent => k = tracker.coin
  BY DEF Unspent
<1>4. \A c : <<"treasury", c>> \in Unspent => c \in FundingCoins /\ coins[c].state = "unspent"
  BY DEF Unspent
<1>5. \A c : <<"wallet", c>> \in Unspent => c \in FundingCoins /\ coins[c].state = "none"
  BY DEF Unspent
<1>6. CASE b.op = "publish"
  <2>1. b \in Publications
    BY <1>1, <1>6 DEF Publications, Votes, Executions, Fundings
  <2>2. <<"tracker", b.tracker>> \in Inputs(b)
    BY <1>6 DEF Inputs
  <2> QED BY <1>2, <1>3, <1>6, <2>1, <2>2
<1>7. CASE b.op = "vote"
  <2>1. b \in Votes
    BY <1>1, <1>7 DEF Publications, Votes, Executions, Fundings
  <2>2. <<"tracker", b.tracker>> \in Inputs(b)
    BY <1>7 DEF Inputs
  <2> QED BY <1>2, <1>3, <1>7, <2>1, <2>2
<1>8. CASE b.op = "execute"
  <2>1. b \in Executions
    BY <1>1, <1>8 DEF Publications, Votes, Executions, Fundings
  <2>2. <<"tracker", b.tracker>> \in Inputs(b)
    BY <1>8 DEF Inputs
  <2>3. b.coin # NoCoin => <<"treasury", b.coin>> \in Inputs(b)
    BY <1>8 DEF Inputs
  <2>4. tracker.deadline <= now
    BY <1>8 DEF Valid, Shape, ChainShape
  <2> QED BY <1>2, <1>3, <1>4, <1>8, <2>1, <2>2, <2>3, <2>4
<1>9. CASE b.op = "fund"
  <2>1. b \in Fundings
    BY <1>1, <1>9 DEF Publications, Votes, Executions, Fundings
  <2>2. <<"wallet", b.coin>> \in Inputs(b)
    BY <1>9 DEF Inputs
  <2> QED BY <1>2, <1>5, <1>9, <2>1, <2>2
<1> QED BY <1>6, <1>7, <1>8, <1>9

(* The clock, the tracker, the reserve and the coins keep their shape.     *)
LEMMA ReserveChanges ==
    ASSUME NEW r \in [coin : Nat, locked : BOOLEAN, until : Nat, amount : Int], NEW n \in Nat, NEW k \in Nat
    PROVE  /\ [r EXCEPT !.coin = @ + 1, !.locked = TRUE, !.until = n]
                \in [coin : Nat, locked : BOOLEAN, until : Nat, amount : Int]
           /\ [r EXCEPT !.coin = @ + 1, !.locked = FALSE, !.until = 0]
                \in [coin : Nat, locked : BOOLEAN, until : Nat, amount : Int]
           /\ [r EXCEPT !.coin = @ + 1, !.locked = FALSE, !.until = 0, !.amount = @ - k]
                \in [coin : Nat, locked : BOOLEAN, until : Nat, amount : Int]
<1> r.coin + 1 \in Nat /\ r.amount - k \in Int
  OBVIOUS
<1> QED OBVIOUS

LEMMA ExecutesShape ==
    ASSUME Shape, NEW p \in Proposals, NEW c \in FundingCoins \cup {NoCoin}, Executes(p, c), now' = now
    PROVE  ChainShape'
<1> USE DEF Shape, ChainShape
<1>1. tracker'.coin \in Nat /\ tracker' \in [holder : Proposals \cup {NoProposal, Other}, coin : Nat, tally : Nat, deadline : Nat]
  BY DEF Executes, IdleTracker
<1>2. reserve' \in [coin : Nat, locked : BOOLEAN, until : Nat, amount : Int]
  <2> DEFINE k == IF Kind[p] = "REDEMPTION" THEN 0 ELSE Amount[p]
  <2>1. k \in Nat
    OBVIOUS
  <2>2. reserve' \in {reserve, [reserve EXCEPT !.coin = @ + 1, !.locked = FALSE, !.until = 0, !.amount = @ - k]}
    BY DEF Executes
  <2>3. [reserve EXCEPT !.coin = @ + 1, !.locked = FALSE, !.until = 0, !.amount = @ - k]
          \in [coin : Nat, locked : BOOLEAN, until : Nat, amount : Int]
    <3> HIDE DEF k
    <3> QED BY <2>1, ReserveChanges
  <2> HIDE DEF k
  <2> QED BY <2>2, <2>3
<1>3. coins' \in [FundingCoins -> [state : {"none", "unspent", "spent"}, for : Proposals \cup {NoProposal}]]
  BY DEF Executes
<1>4. ended' \in [Proposals -> {"none", "EXECUTED", "FAILED"}] /\ sales' \in [Proposals -> Sales]
  BY DEF Executes, Sales
<1> QED BY <1>1, <1>2, <1>3, <1>4 DEF Executes

LEMMA ChainShapeStep == ASSUME Shape, Next PROVE ChainShape'
<1> USE DEF Shape, ChainShape
<1>1. ASSUME UNCHANGED <<now, chain>> PROVE ChainShape'
  BY <1>1 DEF chain
<1>2. ASSUME NEW p \in Proposals, Queue(p) PROVE ChainShape'
  BY <1>1, <1>2 DEF Queue, Create, Decide, Package, Approve, Vote, ReconcileLook
<1>3. ASSUME NEW h \in Handlers, Request(h) PROVE ChainShape'
  <2>1. ASSUME NEW p \in Proposals, NEW c \in FundingCoins, FundBuild(h, p, c) PROVE ChainShape'
    BY <2>1 DEF FundBuild
  <2>2. CASE UNCHANGED <<now, chain>>
    BY <1>1, <2>2
  <2> QED BY <1>3, <2>1, <2>2 DEF Request, PublishBuild, FundRecover, ExecuteBuild, ReconcileRead, RefreshRead, Push,
           PublishRecord, FundIntend, FundRecord, ExecuteRecord, SaleRecord, ReconcileEnd
<1>4. ASSUME NEW b \in mempool, Mine(b) PROVE ChainShape'
  <2> Valid(b) /\ now' = now
    BY <1>4 DEF Mine
  <2>1. CASE MinePublication(b)
    <3>1. b \in Publications
      BY <2>1, InputsAreUnspent DEF MinePublication
    <3>2. identities' \in [Slots -> Nat]
      BY <2>1 DEF MinePublication
    <3>3. tracker' \in [holder : Proposals \cup {NoProposal, Other}, coin : Nat, tally : Nat, deadline : Nat]
      BY <2>1, <3>1 DEF MinePublication, Publications
    <3>4. reserve' \in [coin : Nat, locked : BOOLEAN, until : Nat, amount : Int]
      <4> DEFINE k == b.deadline
      <4>1. k \in Nat
        BY <3>1 DEF Publications
      <4>2. reserve' = [reserve EXCEPT !.coin = @ + 1, !.locked = TRUE, !.until = k]
        BY <2>1 DEF MinePublication
      <4> HIDE DEF k
      <4> QED BY <4>1, <4>2, ReserveChanges
    <3>5. entries' \in [Proposals -> Nat]
      BY <2>1, <3>1 DEF MinePublication, Publications
    <3> QED BY <2>1, <3>2, <3>3, <3>4, <3>5 DEF MinePublication
  <2>2. CASE MineVote(b)
    <3>1. tracker' = [tracker EXCEPT !.coin = @ + 1, !.tally = @ + 1]
      BY <2>2 DEF MineVote
    <3>2. tracker.coin + 1 \in Nat /\ tracker.tally + 1 \in Nat
      OBVIOUS
    <3>3. tracker' \in [holder : Proposals \cup {NoProposal, Other}, coin : Nat, tally : Nat, deadline : Nat]
      BY <3>1, <3>2
    <3> QED BY <2>2, <3>3 DEF MineVote
  <2>3. CASE MineFunding(b)
    <3>1. b.coin \in FundingCoins
      BY <2>3, InputsAreUnspent DEF MineFunding, Fundings
    <3> QED BY <2>3, <3>1 DEF MineFunding
  <2>4. CASE MineExecution(b)
    <3>1. b.p \in Proposals /\ b.coin \in FundingCoins \cup {NoCoin}
      BY <2>4, InputsAreUnspent DEF MineExecution, Executions
    <3> QED BY <2>4, <3>1, ExecutesShape DEF MineExecution
  <2> QED BY <1>4, <2>1, <2>2, <2>3, <2>4 DEF Mine
<1>5. ASSUME NEW p \in Proposals, OutsiderExecutes(p) PROVE ChainShape'
  <2>1. Treasury(p) \in FundingCoins \cup {NoCoin}
    BY DEF Treasury, StoreShape
  <2>2. CASE Executes(p, Treasury(p))
    BY <1>5, <2>1, <2>2, ExecutesShape DEF OutsiderExecutes
  <2>3. CASE ~Executes(p, Treasury(p))
    BY <1>5, <2>3 DEF OutsiderExecutes, IdleTracker
  <2> QED BY <2>2, <2>3
<1>6. ASSUME NEW p \in Proposals, OutsiderExpires(p) \/ SaleSettles(p) PROVE ChainShape'
  BY <1>6 DEF OutsiderExpires, SaleSettles, IdleTracker, Sales
<1>7. CASE OutsiderReleases \/ OtherProposal \/ Tick
  <2>1. CASE OutsiderReleases
    BY <2>1, ReserveChanges DEF OutsiderReleases
  <2>2. CASE OtherProposal
    BY <2>2 DEF OtherProposal, IdleTracker
  <2>3. CASE Tick
    BY <2>3 DEF Tick, chain
  <2> QED BY <1>7, <2>1, <2>2, <2>3
<1>8. CASE Crash \/ \E b \in mempool : Evict(b)
  BY <1>1, <1>8 DEF Crash, Evict
<1> QED BY <1>2, <1>3, <1>4, <1>5, <1>6, <1>7, <1>8 DEF Next, Outside

LEMMA ShapeStep == ASSUME Shape, Next PROVE Shape'
  BY StoreShapeStep, ChainShapeStep DEF Shape

-----------------------------------------------------------------------------
(* A bill enters the tracker once.                                         *)

(* A row keeps the deadline of its first package.                          *)
LEMMA DeadlinesStay ==
    ASSUME Shape, Next, NEW p \in Proposals, rows[p].deadline # 0
    PROVE  rows'[p].deadline = rows[p].deadline
<1> USE DEF Shape, StoreShape
<1>1. ASSUME NEW q \in Proposals, Queue(q) PROVE rows'[p].deadline = rows[p].deadline
  <2>1. ASSUME NEW a \in Slots, Create(q, a) PROVE rows'[p].deadline = rows[p].deadline
    BY <2>1 DEF Create, Rows
  <2>2. ASSUME NEW a \in Slots, NEW target \in {"READY", "CANCELED"}, Decide(q, a, target)
        PROVE  rows'[p].deadline = rows[p].deadline
    BY <2>2 DEF Decide, Rows
  <2>3. ASSUME NEW c \in Coadmins, Package(q, c) PROVE rows'[p].deadline = rows[p].deadline
    BY <2>3 DEF Package, Rows
  <2> QED BY <1>1, <2>1, <2>2, <2>3 DEF Queue, Approve, Vote, ReconcileLook, store
<1>2. ASSUME NEW h \in Handlers, Request(h) PROVE rows'[p].deadline = rows[p].deadline
  <2>1. CASE PublishRecord(h)
    <3>1. handlers[h].p \in Proposals
      BY <2>1, JobKinds DEF PublishRecord
    <3>2. rows[handlers[h].p] \in Rows /\ rows[p] \in Rows
      BY <3>1
    <3> QED BY <2>1, <3>1, <3>2 DEF PublishRecord, Rows
  <2>2. CASE ExecuteRecord(h)
    BY <2>2, JobKinds DEF ExecuteRecord, Rows
  <2>3. CASE SaleRecord(h)
    BY <2>3, JobKinds DEF SaleRecord, Rows
  <2>4. CASE ReconcileEnd(h)
    BY <2>4, JobKinds DEF ReconcileEnd, Rows
  <2> QED BY <1>2, <2>1, <2>2, <2>3, <2>4 DEF Request, PublishBuild, FundRecover, ExecuteBuild, ReconcileRead, RefreshRead,
           FundBuild, Push, FundIntend, FundRecord, store
<1>3. CASE Outside
  BY <1>3 DEF Outside, Mine, Evict, OutsiderExecutes, OutsiderExpires, SaleSettles, OutsiderReleases, OtherProposal,
     Crash, Tick, store
<1> QED BY <1>1, <1>2, <1>3 DEF Next

(* The clock does not run back.                                            *)
LEMMA ClockRuns == ASSUME Shape, Next PROVE now <= now'
<1>1. ASSUME NEW p \in Proposals, Queue(p) PROVE now' = now
  BY <1>1 DEF Queue, Create, Decide, Package, Approve, Vote, ReconcileLook
<1>2. ASSUME NEW h \in Handlers, Request(h) PROVE now' = now
  <2>1. ASSUME NEW p \in Proposals, PublishBuild(h, p) \/ FundRecover(h, p) \/ ExecuteBuild(h, p) \/ ReconcileRead(h, p)
                                    \/ RefreshRead(h, p)
        PROVE  now' = now
    BY <2>1 DEF PublishBuild, FundRecover, ExecuteBuild, ReconcileRead, RefreshRead
  <2>2. ASSUME NEW p \in Proposals, NEW c \in FundingCoins, FundBuild(h, p, c) PROVE now' = now
    BY <2>2 DEF FundBuild
  <2>3. CASE Push(h) \/ PublishRecord(h) \/ FundIntend(h) \/ FundRecord(h)
    BY <2>3 DEF Push, PublishRecord, FundIntend, FundRecord
  <2>4. CASE ExecuteRecord(h) \/ SaleRecord(h) \/ ReconcileEnd(h)
    BY <2>4 DEF ExecuteRecord, SaleRecord, ReconcileEnd
  <2> QED BY <1>2, <2>1, <2>2, <2>3, <2>4 DEF Request
<1>3. CASE Outside
  BY <1>3 DEF Outside, Mine, Evict, OutsiderExecutes, OutsiderExpires, SaleSettles, OutsiderReleases, OtherProposal,
     Crash, Tick, Shape, ChainShape
<1> QED BY <1>1, <1>2, <1>3 DEF Next, Shape, ChainShape

(* How the tracker moves: a publication that is valid enters, or the coin  *)
(* is replaced, and the holder is let go only past its deadline.           *)
Replaced ==
    /\ entries' = entries
    /\ tracker'.coin = tracker.coin + 1
    /\ \/ tracker'.holder = tracker.holder /\ tracker'.deadline = tracker.deadline
       \/ tracker.holder \notin Proposals
       \/ tracker.deadline <= now

LEMMA TrackerMoves ==
    ASSUME Shape, Next
    PROVE  \/ UNCHANGED <<tracker, entries>>
           \/ \E b \in mempool : Valid(b) /\ MinePublication(b)
           \/ Replaced
<1> USE DEF Shape, ChainShape
<1>1. ASSUME NEW p \in Proposals, Queue(p) PROVE UNCHANGED <<tracker, entries>>
  BY <1>1 DEF Queue, Create, Decide, Package, Approve, Vote, ReconcileLook, chain
<1>2. ASSUME NEW h \in Handlers, Request(h) PROVE UNCHANGED <<tracker, entries>>
  BY <1>2 DEF Request, PublishBuild, FundRecover, ExecuteBuild, ReconcileRead, RefreshRead, FundBuild, Push,
     PublishRecord, FundIntend, FundRecord, ExecuteRecord, SaleRecord, ReconcileEnd, chain
<1>3. ASSUME NEW b \in mempool, Mine(b), ~MinePublication(b) PROVE UNCHANGED <<tracker, entries>> \/ Replaced
  <2>1. CASE MineVote(b)
    BY <2>1 DEF MineVote, Replaced
  <2>2. CASE MineFunding(b)
    BY <2>2 DEF MineFunding
  <2>3. CASE MineExecution(b)
    <3>1. tracker.deadline <= now
      BY <1>3, <2>3, InputsAreUnspent DEF Mine, MineExecution
    <3> QED BY <2>3, <3>1 DEF MineExecution, Executes, IdleTracker, Replaced
  <2> QED BY <1>3, <2>1, <2>2, <2>3 DEF Mine
<1>4. ASSUME NEW p \in Proposals, OutsiderExecutes(p) \/ OutsiderExpires(p) PROVE Replaced
  BY <1>4 DEF OutsiderExecutes, OutsiderExpires, AtEnd, Executes, IdleTracker, Replaced
<1>5. CASE OtherProposal
  BY <1>5 DEF OtherProposal, AtEnd, IdleTracker, Replaced
<1>6. ASSUME NEW p \in Proposals, SaleSettles(p) \/ OutsiderReleases \/ Crash \/ Tick \/ \E b \in mempool : Evict(b)
      PROVE  UNCHANGED <<tracker, entries>>
  BY <1>6 DEF SaleSettles, OutsiderReleases, Crash, Tick, Evict, chain
<1>7. CASE OutsiderReleases \/ Crash \/ Tick \/ \E b \in mempool : Evict(b)
  BY <1>7 DEF OutsiderReleases, Crash, Tick, Evict, chain
<1> QED BY <1>1, <1>2, <1>3, <1>4, <1>5, <1>6, <1>7 DEF Next, Outside, Mine

(* A publication that comes to be is built over the idle tracker, before   *)
(* the deadline of its row.                                                *)
Built(b) ==
    /\ b.tracker = tracker.coin
    /\ tracker.holder = NoProposal
    /\ b.deadline = rows[b.p].deadline
    /\ Open(b.p)

LEMMA PublishedGrow ==
    ASSUME Shape, Next, NEW b \in Publications, Published(b)'
    PROVE  Published(b) \/ Built(b)
<1> USE DEF Shape, StoreShape
<1>0. b.op = "publish"
  BY DEF Publications
<1>1. ASSUME NEW p \in Proposals, Queue(p) PROVE Published(b)
  <2>1. ASSUME NEW v \in Voters, Vote(p, v) PROVE Published(b)
    <3>1. PICK c : mempool' = mempool \cup {c} /\ c.op = "vote" /\ handlers' = handlers
      BY <2>1 DEF Vote, VoteOf, store
    <3> QED BY <1>0, <3>1 DEF Published
  <2>2. CASE UNCHANGED <<handlers, mempool>>
    BY <2>2 DEF Published
  <2> QED BY <1>1, <2>1, <2>2 DEF Queue, Create, Decide, Package, Approve, ReconcileLook
<1>2. ASSUME NEW h \in Handlers, Request(h) PROVE Published(b) \/ Built(b)
  <2> USE JobKinds
  <2>1. ASSUME NEW p \in Proposals, PublishBuild(h, p) PROVE Published(b) \/ Built(b)
    BY <2>1 DEF PublishBuild, PublicationOf, Publishable, TrackerFree, Published, Built
  <2>2. CASE Push(h)
    <3> DEFINE job == handlers[h]
    <3>1. job.op # "publish" => job.bundle # b
      BY <1>0, <2>2 DEF Push, Executions, Fundings
    <3>2. mempool' \subseteq mempool \cup {job.bundle}
      BY <2>2 DEF Push
    <3>3. \A g \in Handlers : handlers'[g].op = "publish" => handlers[g].op = "publish" /\ handlers'[g].bundle = handlers[g].bundle
      BY SMTT(30), <2>2 DEF Push, Idle, Jobs
    <3> QED BY <3>1, <3>2, <3>3 DEF Published
  <2>3. ASSUME NEW p \in Proposals, FundRecover(h, p) \/ ExecuteBuild(h, p) \/ ReconcileRead(h, p) \/ RefreshRead(h, p)
        PROVE  Published(b)
    BY <2>3 DEF FundRecover, ExecuteBuild, ReconcileRead, RefreshRead, Published
  <2>4. ASSUME NEW p \in Proposals, NEW c \in FundingCoins, FundBuild(h, p, c) PROVE Published(b)
    BY <2>4 DEF FundBuild, Published
  <2>5. CASE PublishRecord(h)
    BY <2>5 DEF PublishRecord, Published, Idle
  <2>6. CASE FundIntend(h)
    BY <2>6 DEF FundIntend, Published, Idle
  <2>7. CASE FundRecord(h) \/ ExecuteRecord(h) \/ ReconcileEnd(h)
    BY <2>7 DEF FundRecord, ExecuteRecord, ReconcileEnd, Published, Idle
  <2>8. CASE SaleRecord(h)
    BY <2>8 DEF SaleRecord, Published, Idle
  <2> QED BY <1>2, <2>1, <2>2, <2>3, <2>4, <2>5, <2>6, <2>7, <2>8 DEF Request
<1>3. CASE Outside
  BY <1>3 DEF Outside, Mine, Evict, OutsiderExecutes, OutsiderExpires, SaleSettles, OutsiderReleases, OtherProposal,
     Crash, Tick, Published, Idle
<1> QED BY <1>1, <1>2, <1>3 DEF Next

LEMMA PublicationStep == ASSUME PInv, Next PROVE PInv'
<1> USE DEF PInv
<1>0. Shape'
  BY ShapeStep
<1>n. now \in Nat /\ now' \in Nat /\ now <= now' /\ tracker.coin \in Nat /\ tracker.deadline \in Nat
  BY <1>0, ClockRuns DEF Shape, ChainShape
<1>e. entries \in [Proposals -> Nat] /\ \A p \in Proposals : rows[p].deadline \in Nat /\ rows'[p].deadline \in Nat
  BY <1>0 DEF Shape, ChainShape, StoreShape, Rows
<1>b. \A b \in Publications : b.p \in Proposals /\ b.tracker \in Nat /\ b.deadline \in Nat
  BY DEF Publications
<1>1. ASSUME NEW b \in Publications, Published(b)' PROVE
        /\ b.deadline # 0 /\ b.deadline = rows[b.p].deadline
        /\ b.tracker <= tracker.coin
        /\ b.tracker = tracker.coin => tracker.holder = NoProposal /\ entries[b.p] = 0
  <2>1. CASE Published(b)
    BY <2>1 DEF PublicationsFit
  <2>2. CASE Built(b)
    BY <1>n, <1>e, <1>b, <2>2 DEF Built, Open, EntriesEnd
  <2> QED BY <1>1, <2>1, <2>2, PublishedGrow
<1>2. \A p \in Proposals : rows[p].deadline # 0 => rows'[p].deadline = rows[p].deadline
  BY DeadlinesStay
<1>3. CASE UNCHANGED <<tracker, entries>>
  <2>1. PublicationsFit'
    BY <1>1, <1>2, <1>3, <1>b DEF PublicationsFit
  <2>2. EntriesEnd'
    BY <1>2, <1>3, <1>n, <1>e DEF EntriesEnd
  <2> QED BY <1>0, <2>1, <2>2
<1>4. ASSUME NEW m \in mempool, Valid(m), MinePublication(m) PROVE PInv'
  <2>1. m \in Publications /\ m.tracker = tracker.coin /\ Published(m)
    BY <1>4, InputsAreUnspent DEF MinePublication, Published
  <2>2. /\ m.deadline # 0 /\ m.deadline = rows[m.p].deadline
        /\ tracker.holder = NoProposal /\ entries[m.p] = 0
    BY <2>1 DEF PublicationsFit
  <2>3. /\ tracker' = [holder |-> m.p, coin |-> tracker.coin + 1, tally |-> ReserveVotes, deadline |-> m.deadline]
        /\ entries' = [entries EXCEPT ![m.p] = @ + 1]
    BY <1>4, <2>1 DEF MinePublication
  <2>4. PublicationsFit'
    BY <1>1, <1>2, <1>b, <1>n, <2>3 DEF PublicationsFit
  <2>5. EntriesEnd'
    BY <1>2, <1>b, <1>n, <1>e, <2>1, <2>2, <2>3 DEF EntriesEnd
  <2> QED BY <1>0, <2>4, <2>5
<1>5. CASE Replaced
  <2>1. PublicationsFit'
    BY <1>1, <1>2, <1>5, <1>b, <1>n DEF PublicationsFit, Replaced
  <2>2. EntriesEnd'
    BY <1>2, <1>5, <1>n, <1>e DEF EntriesEnd, Replaced
  <2> QED BY <1>0, <2>1, <2>2
<1> QED BY <1>3, <1>4, <1>5, TrackerMoves

(* What did not change keeps both invariants.                              *)
LEMMA Stutters == ASSUME UNCHANGED vars PROVE (PInv => PInv') /\ (FInv => FInv')
<1> USE DEF vars, store, chain
<1>1. Shape => Shape'
  BY DEF Shape, StoreShape, ChainShape
<1>2. PublicationsFit /\ EntriesEnd => PublicationsFit' /\ EntriesEnd'
  BY DEF PublicationsFit, Published, EntriesEnd
<1>3. FundingsFit => FundingsFit'
  BY DEF FundingsFit, Funded
<1> QED BY <1>1, <1>2, <1>3 DEF PInv, FInv

(* A bill enters the tracker at most once, whatever stops between the push *)
(* of its publication (submit_publication) and the record of it.           *)
THEOREM PublishedSafe == Spec => []PublishedOnce
<1>1. Init => PInv
  BY InitHolds
<1>2. PInv /\ [Next]_vars => PInv'
  BY PublicationStep, Stutters
<1>3. PInv => PublishedOnce
  BY DEF PInv, EntriesEnd, PublishedOnce
<1> QED BY <1>1, <1>2, <1>3, PTL DEF Spec

-----------------------------------------------------------------------------
(* A redemption is funded once.                                            *)

(* A funding row keeps the coin of its first intent.                       *)
LEMMA IntentsStay ==
    ASSUME Shape, Next, NEW p \in Proposals, fundings[p].coin # NoCoin
    PROVE  fundings'[p].coin = fundings[p].coin
<1> USE DEF Shape, StoreShape
<1>1. ASSUME NEW q \in Proposals, Queue(q) PROVE fundings'[p].coin = fundings[p].coin
  <2>1. CASE ReconcileLook(q)
    BY <2>1 DEF ReconcileLook, Seen
  <2> QED BY <1>1, <2>1 DEF Queue, Create, Decide, Package, Approve, Vote, store
<1>2. ASSUME NEW h \in Handlers, Request(h) PROVE fundings'[p].coin = fundings[p].coin
  <2>1. CASE FundIntend(h)
    BY <2>1, JobKinds DEF FundIntend, NoFunding
  <2>2. CASE FundRecord(h)
    BY <2>2, JobKinds DEF FundRecord
  <2>3. ASSUME NEW q \in Proposals, FundRecover(h, q) \/ ExecuteBuild(h, q) PROVE fundings'[p].coin = fundings[p].coin
    BY SMTT(30), <2>3 DEF FundRecover, ExecuteBuild, Seen
  <2> QED BY <1>2, <2>1, <2>2, <2>3 DEF Request, PublishBuild, ReconcileRead, RefreshRead, FundBuild, Push, PublishRecord,
           ExecuteRecord, SaleRecord, ReconcileEnd, store
<1>3. CASE Outside
  BY <1>3 DEF Outside, Mine, Evict, OutsiderExecutes, OutsiderExpires, SaleSettles, OutsiderReleases, OtherProposal,
     Crash, Tick, store
<1> QED BY <1>1, <1>2, <1>3 DEF Next

(* A push leaves the bundles and the steps before it alone.                *)
LEMMA PushKeeps ==
    ASSUME NEW h \in Handlers, handlers \in [Handlers -> Jobs], Push(h), NEW b, Funded(b)', b \notin mempool'
    PROVE  Funded(b)
<1>1. PICK g \in Handlers : handlers'[g].op = "fund" /\ handlers'[g].step # "intend" /\ handlers'[g].bundle = b
  BY DEF Funded
<1>2. handlers[g].op = "fund" /\ handlers[g].step # "intend" /\ handlers[g].bundle = b
  <2>1. CASE g # h
    BY <1>1, <2>1 DEF Push
  <2>2. CASE g = h
    <3>1. handlers'[h] = [handlers[h] EXCEPT !.step = "record"] \/ handlers'[h] = Idle
      BY DEF Push
    <3> QED BY <1>1, <2>2, <3>1 DEF Push, Idle, Jobs
  <2> QED BY <2>1, <2>2
<1> QED BY <1>2 DEF Funded

(* A funding bundle reaches a push only with the coin of the stored intent.*)
LEMMA FundedGrow ==
    ASSUME FInv, Next, NEW b \in Fundings, Funded(b)'
    PROVE  /\ fundings'[b.p].coin = b.coin
           /\ b \in mempool' => b \in mempool \/ \E h \in Handlers : handlers[h].op = "fund" /\ handlers[h].bundle = b
<1> USE DEF FInv, Shape, StoreShape
<1>0. b.op = "fund" /\ b.p \in Proposals /\ b.coin \in FundingCoins /\ b.coin # NoCoin
  BY DEF Fundings
<1>1. Funded(b) => fundings'[b.p].coin = b.coin
  BY <1>0, IntentsStay DEF FundingsFit
<1>2. ASSUME NEW p \in Proposals, Queue(p) PROVE Funded(b) /\ (b \in mempool' => b \in mempool)
  <2>1. ASSUME NEW v \in Voters, Vote(p, v) PROVE Funded(b) /\ (b \in mempool' => b \in mempool)
    <3>1. PICK c : mempool' = mempool \cup {c} /\ c.op = "vote" /\ handlers' = handlers
      BY <2>1 DEF Vote, VoteOf, store
    <3> QED BY <1>0, <3>1 DEF Funded
  <2>2. CASE UNCHANGED <<handlers, mempool>>
    BY <2>2 DEF Funded
  <2> QED BY <1>2, <2>1, <2>2 DEF Queue, Create, Decide, Package, Approve, ReconcileLook
<1>3. ASSUME NEW h \in Handlers, Request(h), mempool' = mempool PROVE Funded(b) \/ fundings'[b.p].coin = b.coin
  <2> USE JobKinds
  <2>1. ASSUME NEW p \in Proposals, PublishBuild(h, p) \/ ExecuteBuild(h, p) \/ ReconcileRead(h, p) \/ RefreshRead(h, p)
        PROVE  Funded(b)
    <3>1. handlers[h] = Idle /\ mempool' = mempool
      BY <2>1 DEF PublishBuild, ExecuteBuild, ReconcileRead, RefreshRead
    <3>2. handlers'[h].op # "fund" /\ \A g \in Handlers \ {h} : handlers'[g] = handlers[g]
      BY <2>1 DEF PublishBuild, ExecuteBuild, ReconcileRead, RefreshRead
    <3> QED BY <3>1, <3>2 DEF Funded
  <2>2. ASSUME NEW p \in Proposals, FundRecover(h, p) PROVE Funded(b) \/ fundings'[b.p].coin = b.coin
    <3>1. fundings'[p].coin = fundings[p].coin
      BY <2>2 DEF FundRecover, Seen
    <3> QED BY <2>2, <3>1 DEF FundRecover, Funded
  <2>3. ASSUME NEW p \in Proposals, NEW c \in FundingCoins, FundBuild(h, p, c) PROVE Funded(b)
    BY <2>3 DEF FundBuild, Funded
  <2>4. CASE FundIntend(h)
    <3>1. handlers[h].bundle = b /\ fundings[handlers[h].p] = NoFunding => fundings'[b.p].coin = b.coin
      BY <2>4 DEF FundIntend, FundingsFit
    <3>2. Funded(b) \/ (handlers[h].bundle = b /\ fundings[handlers[h].p] = NoFunding)
      BY <2>4 DEF FundIntend, Funded, Idle
    <3> QED BY <3>1, <3>2
  <2>5. CASE PublishRecord(h) \/ FundRecord(h) \/ ExecuteRecord(h) \/ ReconcileEnd(h)
    BY <2>5 DEF PublishRecord, FundRecord, ExecuteRecord, ReconcileEnd, Funded, Idle
  <2>6. CASE SaleRecord(h)
    BY <2>6 DEF SaleRecord, Funded, Idle
  <2>7. CASE Push(h)
    <3>1. CASE b \in mempool'
      BY <1>3, <3>1 DEF Funded
    <3>2. CASE b \notin mempool'
      BY <2>7, <3>2, PushKeeps
    <3> QED BY <3>1, <3>2
  <2> QED BY <1>3, <2>1, <2>2, <2>3, <2>4, <2>5, <2>6, <2>7 DEF Request
<1>4. ASSUME NEW h \in Handlers, Push(h), mempool' # mempool
      PROVE  Funded(b) /\ (b \in mempool' => b \in mempool \/ \E g \in Handlers : handlers[g].op = "fund" /\ handlers[g].bundle = b)
  <2> DEFINE job == handlers[h]
  <2>1. mempool' = mempool \cup {job.bundle} /\ job.step = "push"
    BY <1>4 DEF Push
  <2>2. job.op # "fund" => job.bundle # b
    BY <1>0, <1>4, JobKinds DEF Push, Executions, Publications
  <2>4. CASE b \in mempool'
    <3>1. b \in mempool \/ (b = job.bundle /\ job.op = "fund" /\ job.step # "intend")
      BY <2>1, <2>2, <2>4
    <3> QED BY <3>1 DEF Funded
  <2>5. CASE b \notin mempool'
    BY <1>4, <2>5, PushKeeps
  <2> QED BY <2>4, <2>5
<1>5. CASE Outside
  <2>1. mempool' \subseteq mempool
    BY <1>5 DEF Outside, Mine, Evict, OutsiderExecutes, OutsiderExpires, SaleSettles, OutsiderReleases, OtherProposal, Crash, Tick
  <2>2. handlers' = handlers \/ handlers' = [h \in Handlers |-> Idle]
    BY <1>5 DEF Outside, Mine, Evict, OutsiderExecutes, OutsiderExpires, SaleSettles, OutsiderReleases, OtherProposal, Crash, Tick
  <2>3. Funded(b)
    BY <2>1, <2>2 DEF Funded, Idle
  <2> QED BY <1>1, <2>1, <2>3
<1>6. ASSUME NEW h \in Handlers, Request(h), ~Push(h) PROVE mempool' = mempool
  BY <1>6 DEF Request, PublishBuild, FundRecover, ExecuteBuild, ReconcileRead, RefreshRead, FundBuild, PublishRecord,
     FundIntend, FundRecord, ExecuteRecord, SaleRecord, ReconcileEnd, store
<1> QED BY <1>1, <1>2, <1>3, <1>4, <1>5, <1>6 DEF Next

(* An output stays meant for its proposal, and exists only through a       *)
(* funding bundle that was mined.                                          *)
LEMMA CoinsKeep ==
    ASSUME Shape, Next, NEW c \in FundingCoins
    PROVE  /\ coins[c].for # NoProposal => coins'[c].for = coins[c].for
           /\ coins'[c].state # "none" => coins[c].state # "none" \/ \E b \in mempool \cap Fundings : b.coin = c
<1> USE DEF Shape, ChainShape
<1>1. ASSUME NEW p \in Proposals, NEW d \in FundingCoins \cup {NoCoin}, Executes(p, d),
             d # NoCoin => coins[d].state = "unspent"
      PROVE  coins'[c].for = coins[c].for /\ (coins'[c].state # "none" => coins[c].state # "none")
  BY <1>1 DEF Executes
<1>2. ASSUME NEW p \in Proposals, Queue(p) PROVE coins' = coins
  BY <1>2 DEF Queue, Create, Decide, Package, Approve, Vote, ReconcileLook, chain
<1>3. ASSUME NEW h \in Handlers, NEW p \in Proposals, NEW d \in FundingCoins, FundBuild(h, p, d)
      PROVE  (coins[c].for # NoProposal => coins'[c].for = coins[c].for) /\ coins'[c].state = coins[c].state
  BY <1>3 DEF FundBuild
<1>4. ASSUME NEW h \in Handlers, Request(h), \A p \in Proposals, d \in FundingCoins : ~FundBuild(h, p, d)
      PROVE  coins' = coins
  BY <1>4 DEF Request, PublishBuild, FundRecover, ExecuteBuild, ReconcileRead, RefreshRead, Push, PublishRecord,
     FundIntend, FundRecord, ExecuteRecord, SaleRecord, ReconcileEnd, chain
<1>5. ASSUME NEW b \in mempool, Mine(b)
      PROVE  /\ coins'[c].for = coins[c].for
             /\ coins'[c].state # "none" => coins[c].state # "none" \/ \E m \in mempool \cap Fundings : m.coin = c
  <2>1. CASE MineFunding(b)
    <3>1. b \in Fundings
      BY <1>5, <2>1, InputsAreUnspent DEF Mine, MineFunding
    <3> QED BY <2>1, <3>1 DEF MineFunding, Fundings
  <2>2. CASE MineExecution(b)
    <3>1. b \in Executions /\ (b.coin # NoCoin => coins[b.coin].state = "unspent")
      BY <1>5, <2>2, InputsAreUnspent DEF Mine, MineExecution
    <3> QED BY <1>1, <2>2, <3>1 DEF MineExecution, Executions
  <2>3. CASE MinePublication(b) \/ MineVote(b)
    BY <2>3 DEF MinePublication, MineVote
  <2> QED BY <1>5, <2>1, <2>2, <2>3 DEF Mine
<1>6. ASSUME NEW p \in Proposals, OutsiderExecutes(p)
      PROVE  coins'[c].for = coins[c].for /\ (coins'[c].state # "none" => coins[c].state # "none")
  <2>1. CASE /\ Kind[p] = "REDEMPTION" => Treasury(p) # NoCoin /\ coins[Treasury(p)].state = "unspent"
             /\ Executes(p, Treasury(p))
    <3>1. Treasury(p) \in FundingCoins \cup {NoCoin}
      BY DEF Treasury, StoreShape
    <3>2. Treasury(p) # NoCoin => coins[Treasury(p)].state = "unspent"
      BY <2>1 DEF Treasury
    <3> QED BY <1>1, <2>1, <3>1, <3>2
  <2>2. CASE UNCHANGED coins
    BY <2>2
  <2> QED BY <1>6, <2>1, <2>2 DEF OutsiderExecutes
<1>7. CASE \E p \in Proposals : OutsiderExpires(p) \/ SaleSettles(p)
  BY <1>7 DEF OutsiderExpires, SaleSettles
<1>8. CASE OutsiderReleases \/ OtherProposal \/ Crash \/ Tick \/ \E b \in mempool : Evict(b)
  BY <1>8 DEF OutsiderReleases, OtherProposal, Crash, Tick, Evict, chain
<1> QED BY <1>2, <1>3, <1>4, <1>5, <1>6, <1>7, <1>8 DEF Next, Outside

(* An intent is the one a funding request brought.                         *)
LEMMA IntentComes ==
    ASSUME Shape, Next, NEW p \in Proposals, fundings'[p].coin # fundings[p].coin
    PROVE  \E h \in Handlers : /\ handlers[h].op = "fund" /\ handlers[h].p = p
                               /\ handlers[h].bundle.coin = fundings'[p].coin
<1> USE DEF Shape, StoreShape
<1>1. ASSUME NEW q \in Proposals, Queue(q) PROVE fundings'[p].coin = fundings[p].coin
  <2>1. CASE ReconcileLook(q)
    BY <2>1 DEF ReconcileLook, Seen
  <2> QED BY <1>1, <2>1 DEF Queue, Create, Decide, Package, Approve, Vote, store
<1>2. ASSUME NEW h \in Handlers, Request(h), ~FundIntend(h) PROVE fundings'[p].coin = fundings[p].coin
  <2>2. CASE FundRecord(h)
    BY <2>2, JobKinds DEF FundRecord
  <2>3. ASSUME NEW q \in Proposals, FundRecover(h, q) \/ ExecuteBuild(h, q) PROVE fundings'[p].coin = fundings[p].coin
    <3>1. Seen(q).coin = fundings[q].coin
      BY DEF Seen
    <3>2. fundings' = [fundings EXCEPT ![q] = Seen(q)]
      BY <2>3 DEF FundRecover, ExecuteBuild
    <3> QED BY <3>1, <3>2
  <2> QED BY <1>2, <2>2, <2>3 DEF Request, PublishBuild, ReconcileRead, RefreshRead, FundBuild, Push, PublishRecord,
           ExecuteRecord, SaleRecord, ReconcileEnd, store
<1>3. ASSUME NEW h \in Handlers, FundIntend(h)
      PROVE  handlers[h].op = "fund" /\ handlers[h].p = p /\ handlers[h].bundle.coin = fundings'[p].coin
  BY <1>3, JobKinds DEF FundIntend
<1>4. CASE Outside
  BY <1>4 DEF Outside, Mine, Evict, OutsiderExecutes, OutsiderExpires, SaleSettles, OutsiderReleases, OtherProposal,
     Crash, Tick, store
<1> QED BY <1>1, <1>2, <1>3, <1>4 DEF Next

(* A funding request under way is an old one, a new one for an output      *)
(* reserved with it, or the retry of a stored intent.                      *)
LEMMA JobComes ==
    ASSUME Shape, Next, NEW h \in Handlers, handlers'[h].op = "fund"
    PROVE  \/ /\ handlers[h].op = "fund" /\ handlers'[h].p = handlers[h].p
              /\ handlers'[h].bundle = handlers[h].bundle
           \/ /\ handlers'[h].bundle.p = handlers'[h].p
              /\ handlers'[h].bundle.coin \in FundingCoins
              /\ \/ coins'[handlers'[h].bundle.coin].for = handlers'[h].p
                 \/ fundings[handlers'[h].p].coin = handlers'[h].bundle.coin
<1> USE DEF Shape, StoreShape
<1>1. CASE handlers'[h] = handlers[h]
  BY <1>1
<1>2. ASSUME NEW g \in Handlers, Request(g), handlers'[h] # handlers[h] PROVE g = h
  <2> SUFFICES ASSUME g # h PROVE FALSE
    OBVIOUS
  <2>1. ASSUME NEW p \in Proposals, PublishBuild(g, p) \/ FundRecover(g, p) \/ ExecuteBuild(g, p) \/ ReconcileRead(g, p)
                                    \/ RefreshRead(g, p)
        PROVE  FALSE
    BY <1>2, <2>1 DEF PublishBuild, FundRecover, ExecuteBuild, ReconcileRead, RefreshRead
  <2>2. ASSUME NEW p \in Proposals, NEW c \in FundingCoins, FundBuild(g, p, c) PROVE FALSE
    BY <1>2, <2>2 DEF FundBuild
  <2>3. CASE Push(g) \/ PublishRecord(g) \/ FundIntend(g) \/ FundRecord(g)
    BY <1>2, <2>3 DEF Push, PublishRecord, FundIntend, FundRecord
  <2>4. CASE ExecuteRecord(g) \/ SaleRecord(g) \/ ReconcileEnd(g)
    BY <1>2, <2>4 DEF ExecuteRecord, SaleRecord, ReconcileEnd
  <2> QED BY <1>2, <2>1, <2>2, <2>3, <2>4 DEF Request
<1>3. ASSUME NEW p \in Proposals, FundRecover(h, p)
      PROVE  \/ handlers' = handlers
             \/ /\ handlers'[h].bundle.p = handlers'[h].p
                /\ handlers'[h].bundle.coin \in FundingCoins
                /\ fundings[handlers'[h].p].coin = handlers'[h].bundle.coin
  BY <1>3 DEF FundRecover
<1>4. ASSUME NEW p \in Proposals, NEW c \in FundingCoins, FundBuild(h, p, c)
      PROVE  /\ handlers'[h].bundle.p = handlers'[h].p
             /\ handlers'[h].bundle.coin \in FundingCoins
             /\ coins'[handlers'[h].bundle.coin].for = handlers'[h].p
  BY <1>4 DEF FundBuild, ChainShape
<1>5. CASE Push(h)
  <2>1. handlers'[h] = [handlers[h] EXCEPT !.step = "record"] \/ handlers'[h] = Idle
    BY <1>5 DEF Push
  <2>2. handlers[h] \in Jobs
    OBVIOUS
  <2> QED BY <2>1, <2>2 DEF Jobs, Idle
<1>6. CASE FundIntend(h)
  <2>1. handlers'[h] = [handlers[h] EXCEPT !.step = "push"] \/ handlers'[h] = Idle
    BY <1>6 DEF FundIntend
  <2>2. handlers[h] \in Jobs
    OBVIOUS
  <2> QED BY <2>1, <2>2 DEF Jobs, Idle
<1>7. CASE Request(h)
  <2>1. ASSUME NEW p \in Proposals, PublishBuild(h, p) \/ ExecuteBuild(h, p) \/ ReconcileRead(h, p) \/ RefreshRead(h, p)
        PROVE  FALSE
    BY <2>1 DEF PublishBuild, ExecuteBuild, ReconcileRead, RefreshRead
  <2>2. CASE PublishRecord(h) \/ FundRecord(h) \/ ExecuteRecord(h) \/ ReconcileEnd(h)
    BY <2>2 DEF PublishRecord, FundRecord, ExecuteRecord, ReconcileEnd, Idle
  <2>3. CASE SaleRecord(h)
    <3>1. handlers[h].op \in {"reconcile", "refresh"} /\ handlers[h] \in Jobs
      BY <2>3 DEF SaleRecord
    <3>2. CASE handlers[h].op = "refresh"
      BY <2>3, <3>2 DEF SaleRecord, Idle
    <3>3. CASE handlers[h].op = "reconcile"
      <4>1. PICK k : handlers'[h] = [handlers[h] EXCEPT !.step = "end", !.revision = k]
        BY <2>3, <3>3 DEF SaleRecord
      <4>2. handlers'[h].op = "reconcile"
        BY <3>1, <3>3, <4>1 DEF Jobs, Idle
      <4> QED BY <4>2
    <3> QED BY <3>1, <3>2, <3>3
  <2> QED BY <1>1, <1>3, <1>4, <1>5, <1>6, <1>7, <2>1, <2>2, <2>3 DEF Request
<1>8. CASE (\E p \in Proposals : Queue(p)) \/ Outside
  <2>1. ASSUME NEW p \in Proposals, Queue(p) PROVE handlers' = handlers
    BY <2>1 DEF Queue, Create, Decide, Package, Approve, Vote, ReconcileLook, store
  <2>2. CASE Outside
    BY <2>2 DEF Outside, Mine, Evict, OutsiderExecutes, OutsiderExpires, SaleSettles, OutsiderReleases, OtherProposal,
       Crash, Tick, Idle
  <2> QED BY <1>1, <1>8, <2>1, <2>2
<1> QED BY <1>1, <1>2, <1>7, <1>8 DEF Next

LEMMA FundingStep == ASSUME FInv, Next PROVE FInv'
<1> USE DEF FInv
<1>0. Shape'
  BY ShapeStep
<1>n. NoProposal \notin Proposals /\ NoCoin \notin FundingCoins
  OBVIOUS
<1>f. /\ \A b \in Fundings : b.p \in Proposals /\ b.coin \in FundingCoins
      /\ \A h \in Handlers : handlers[h].op = "fund" => handlers[h].bundle \in Fundings /\ handlers[h].p \in Proposals
      /\ \A p \in Proposals : fundings[p].coin \in FundingCoins \cup {NoCoin}
      /\ \A p \in Proposals : fundings'[p].coin \in FundingCoins \cup {NoCoin}
  BY <1>0, JobKinds DEF Fundings, Shape, StoreShape
<1>k. \A c \in FundingCoins : coins[c].for # NoProposal => coins'[c].for = coins[c].for
  BY CoinsKeep
<1>1. \A b \in Fundings : Funded(b)' => fundings'[b.p].coin = b.coin
  BY FundedGrow
<1>2. ASSUME NEW b \in Fundings, b \in mempool' PROVE coins'[b.coin].for = b.p
  <2>1. coins[b.coin].for = b.p
    <3>1. CASE b \in mempool
      BY <3>1 DEF FundingsFit
    <3>2. CASE b \notin mempool
      <4>1. Funded(b)'
        BY <1>2 DEF Funded
      <4>2. PICK h \in Handlers : handlers[h].op = "fund" /\ handlers[h].bundle = b
        BY <1>2, <3>2, <4>1, FundedGrow
      <4> QED BY <4>2 DEF FundingsFit
    <3> QED BY <3>1, <3>2
  <2> QED BY <2>1, <1>k, <1>f, <1>n
<1>3. ASSUME NEW h \in Handlers, handlers'[h].op = "fund"
      PROVE  coins'[handlers'[h].bundle.coin].for = handlers'[h].p /\ handlers'[h].bundle.p = handlers'[h].p
  <2>1. CASE /\ handlers[h].op = "fund" /\ handlers'[h].p = handlers[h].p
             /\ handlers'[h].bundle = handlers[h].bundle
    BY <2>1, <1>k, <1>f, <1>n DEF FundingsFit
  <2>2. CASE /\ handlers'[h].bundle.p = handlers'[h].p
             /\ handlers'[h].bundle.coin \in FundingCoins
             /\ \/ coins'[handlers'[h].bundle.coin].for = handlers'[h].p
                \/ fundings[handlers'[h].p].coin = handlers'[h].bundle.coin
    <3>1. handlers'[h].p \in Proposals
      <4>1. handlers'[h] \in Jobs
        BY <1>0 DEF Shape, StoreShape
      <4> QED BY <1>3, <4>1 DEF Jobs, Idle
    <3> QED BY <2>2, <3>1, <1>k, <1>n DEF FundingsFit
  <2> QED BY <1>3, <2>1, <2>2, JobComes
<1>4. ASSUME NEW p \in Proposals, fundings'[p].coin # NoCoin PROVE coins'[fundings'[p].coin].for = p
  <2>1. coins[fundings'[p].coin].for = p
    <3>1. CASE fundings'[p].coin = fundings[p].coin
      BY <1>4, <3>1 DEF FundingsFit
    <3>2. CASE fundings'[p].coin # fundings[p].coin
      BY <3>2, IntentComes DEF FundingsFit
    <3> QED BY <3>1, <3>2
  <2> QED BY <1>4, <2>1, <1>k, <1>f, <1>n
<1>5. ASSUME NEW c \in FundingCoins, coins'[c].state # "none"
      PROVE  coins'[c].for \in Proposals /\ fundings'[coins'[c].for].coin = c
  <2>1. coins[c].for \in Proposals /\ fundings[coins[c].for].coin = c
    <3>1. CASE coins[c].state # "none"
      BY <3>1 DEF FundingsFit
    <3>2. CASE coins[c].state = "none"
      <4>1. PICK b \in mempool \cap Fundings : b.coin = c
        BY <1>5, <3>2, CoinsKeep
      <4>2. Funded(b)
        BY <4>1 DEF Funded
      <4> QED BY <4>1, <4>2, <1>f DEF FundingsFit
    <3> QED BY <3>1, <3>2
  <2> QED BY <2>1, <1>k, <1>n, IntentsStay
<1> QED BY <1>0, <1>1, <1>2, <1>3, <1>4, <1>5 DEF FundingsFit

(* Of the outputs a wallet was asked to create for a redemption at most    *)
(* one ever exists (prepare_funding_submission keeps the first intent).    *)
THEOREM FundedSafe == Spec => []FundedOnce
<1>1. Init => FInv
  BY InitHolds
<1>2. FInv /\ [Next]_vars => FInv'
  BY FundingStep, Stutters
<1>3. FInv => FundedOnce
  <2> SUFFICES ASSUME FInv, NEW p \in Proposals
               PROVE  Cardinality({c \in FundingCoins : coins[c].for = p /\ coins[c].state # "none"}) <= 1
    BY DEF FundedOnce
  <2> DEFINE made == {c \in FundingCoins : coins[c].for = p /\ coins[c].state # "none"}
  <2>1. made \subseteq {fundings[p].coin}
    BY DEF FInv, FundingsFit
  <2>2. IsFiniteSet({fundings[p].coin}) /\ Cardinality({fundings[p].coin}) = 1
    BY FS_Singleton
  <2> QED BY <2>1, <2>2, FS_Subset
<1> QED BY <1>1, <1>2, <1>3, PTL DEF Spec

-----------------------------------------------------------------------------
(* A closed row follows the chain.                                         *)

(* How the tracker ends a bill is said once: a bill that entered and has   *)
(* not ended is the tracker's, and a sale is up once its execution is.     *)
Endings ==
    /\ entered \in [Proposals -> Nat]
    /\ outputs \in [Proposals -> FundingCoins \cup {NoCoin} \cup Nat]
    /\ \A p \in Proposals :
         /\ entered[p] # 0 <=> entries[p] # 0
         /\ tracker.holder = p => entries[p] # 0 /\ ended[p] = "none"
         /\ entries[p] # 0 /\ ended[p] = "none" => tracker.holder = p
         /\ ended[p] # "none" => entries[p] # 0
         /\ sales[p] # "none" => ended[p] = "EXECUTED"
         /\ outputs[p] # NoCoin => ended[p] = "EXECUTED"
         /\ outputs[p] # NoCoin /\ Kind[p] = "SALE" => sales[p] # "none"

(* An execution that is, or may still be, before the node.                 *)
Executing(b) ==
    \/ b \in mempool
    \/ \E h \in Handlers : handlers[h].op = "execute" /\ handlers[h].bundle = b

ExecutionsFit ==
    \A b \in Executions : Executing(b) =>
      /\ b.tracker <= tracker.coin
      /\ b.tracker = tracker.coin => tracker.holder = b.p

(* What a reconciliation under way has seen stays so.                      *)
JobTrue(job) ==
    /\ job.op \in {"reconcile", "refresh"} =>
         /\ job.sale \in {"TAKEN", "RETURNED"} => sales[job.p] = job.sale
         /\ job.step = "sale" => job.sale # NoSale
    /\ job.op = "reconcile" =>
         /\ ended[job.p] = job.target
         /\ job.target = "EXECUTED" => /\ rows[job.p].execution # NoCoin
                                       /\ rows[job.p].execution = outputs[job.p]
         /\ job.target = "EXECUTED" /\ job.step = "end" /\ Kind[job.p] = "SALE" =>
              rows[job.p].sale # NoSale
JobsTrue == \A h \in Handlers : JobTrue(handlers[h])

RowTrue(p) ==
    /\ rows[p].state = "EXECUTED" => /\ ended[p] = "EXECUTED" /\ rows[p].execution = outputs[p]
                                     /\ rows[p].execution # NoCoin
                                     /\ Kind[p] = "SALE" => rows[p].sale # NoSale
    /\ rows[p].state = "FAILED" => ended[p] = "FAILED"
    /\ rows[p].sale \in {"TAKEN", "RETURNED"} => sales[p] = rows[p].sale
RowsTrue == \A p \in Proposals : RowTrue(p)

QInv == PInv /\ Endings /\ ExecutionsFit /\ JobsTrue /\ RowsTrue

LEMMA InitFollows == Init => QInv
<1> SUFFICES ASSUME Init PROVE QInv
  OBVIOUS
<1>1. PInv
  BY InitHolds
<1>2. Endings /\ ExecutionsFit
  BY DEF Init, Endings, ExecutionsFit, Executing, Idle, NoSale
<1>3. JobsTrue /\ RowsTrue
  BY DEF Init, JobsTrue, JobTrue, RowsTrue, RowTrue, Idle, NoSale
<1> QED BY <1>1, <1>2, <1>3 DEF QInv

-----------------------------------------------------------------------------
(* The chain.                                                              *)

(* The tracker lets go of a bill and says how; the outputs, and the sale,  *)
(* come with its execution or never.                                       *)
Ends(p) ==
    /\ tracker.holder = p
    /\ tracker'.holder = NoProposal /\ tracker'.coin = tracker.coin + 1
    /\ UNCHANGED <<entered, entries>>
    /\ \E e \in {"EXECUTED", "FAILED"} : ended' = [ended EXCEPT ![p] = e]
    /\ \/ UNCHANGED <<outputs, sales>>
       \/ /\ ended'[p] = "EXECUTED"
          /\ \E c \in FundingCoins \cup {NoCoin} \cup Nat : outputs' = [outputs EXCEPT ![p] = c]
          /\ sales' = IF Kind[p] = "SALE" THEN [sales EXCEPT ![p] = "AVAILABLE"] ELSE sales

Ended == <<entered, entries, ended, outputs, sales>>

LEMMA ExecutesEnds ==
    ASSUME Shape, NEW p \in Proposals, NEW c \in FundingCoins \cup {NoCoin}, Executes(p, c),
           tracker.holder = p
    PROVE  Ends(p)
<1>1. reserve.coin \in Nat /\ ended \in [Proposals -> {"none", "EXECUTED", "FAILED"}]
  BY DEF Shape, ChainShape
<1> QED BY <1>1 DEF Executes, IdleTracker, Ends

LEMMA ChainMoves ==
    ASSUME Shape, ExecutionsFit, Next
    PROVE  \/ UNCHANGED <<tracker, Ended>>
           \/ \E b \in mempool : Valid(b) /\ MinePublication(b)
           \/ tracker'.holder = tracker.holder /\ UNCHANGED Ended
           \/ \E p \in Proposals : Ends(p)
           \/ tracker.holder \notin Proposals /\ tracker'.holder \notin Proposals /\ UNCHANGED Ended
           \/ UNCHANGED tracker /\ \E p \in Proposals : SaleSettles(p)
<1> USE DEF Ended
<1>1. ASSUME NEW p \in Proposals, Queue(p) PROVE UNCHANGED <<tracker, Ended>>
  BY <1>1 DEF Queue, Create, Decide, Package, Approve, Vote, ReconcileLook, chain
<1>2. ASSUME NEW h \in Handlers, Request(h) PROVE UNCHANGED <<tracker, Ended>>
  BY <1>2 DEF Request, PublishBuild, FundRecover, ExecuteBuild, ReconcileRead, RefreshRead, FundBuild, Push,
     PublishRecord, FundIntend, FundRecord, ExecuteRecord, SaleRecord, ReconcileEnd, chain
<1>3. ASSUME NEW b \in mempool, Mine(b)
      PROVE  \/ UNCHANGED <<tracker, Ended>>
             \/ \E m \in mempool : Valid(m) /\ MinePublication(m)
             \/ tracker'.holder = tracker.holder /\ UNCHANGED Ended
             \/ \E p \in Proposals : Ends(p)
  <2>1. CASE MinePublication(b)
    BY <2>1, <1>3 DEF Mine
  <2>2. CASE MineVote(b)
    BY <2>2 DEF MineVote, Shape, ChainShape
  <2>3. CASE MineFunding(b)
    BY <2>3 DEF MineFunding
  <2>4. CASE MineExecution(b)
    <3>1. b \in Executions /\ b.tracker = tracker.coin
      BY <1>3, <2>4, InputsAreUnspent DEF Mine, MineExecution
    <3>2. tracker.holder = b.p /\ b.p \in Proposals /\ b.coin \in FundingCoins \cup {NoCoin}
      BY <3>1 DEF ExecutionsFit, Executing, Executions
    <3> QED BY <2>4, <3>2, ExecutesEnds DEF MineExecution
  <2> QED BY <1>3, <2>1, <2>2, <2>3, <2>4 DEF Mine
<1>4. ASSUME NEW p \in Proposals, OutsiderExecutes(p) PROVE Ends(p)
  <2>1. CASE Executes(p, Treasury(p))
    <3>1. Treasury(p) \in FundingCoins \cup {NoCoin}
      BY DEF Treasury, Shape, StoreShape
    <3> QED BY <1>4, <2>1, <3>1, ExecutesEnds DEF OutsiderExecutes, AtEnd
  <2>2. CASE /\ tracker' = IdleTracker
             /\ ended' = [ended EXCEPT ![p] = "EXECUTED"]
             /\ UNCHANGED <<reserve, identities, ballots, coins, entered, entries, outputs, sales>>
    BY <1>4, <2>2 DEF OutsiderExecutes, AtEnd, IdleTracker, Ends
  <2> QED BY <1>4, <2>1, <2>2 DEF OutsiderExecutes
<1>5. ASSUME NEW p \in Proposals, OutsiderExpires(p) PROVE Ends(p)
  BY <1>5 DEF OutsiderExpires, AtEnd, IdleTracker, Ends
<1>6. CASE OtherProposal
  BY <1>6 DEF OtherProposal, AtEnd, IdleTracker
<1>7. ASSUME NEW p \in Proposals, SaleSettles(p) PROVE UNCHANGED tracker
  BY <1>7 DEF SaleSettles
<1>8. CASE OutsiderReleases \/ Crash \/ Tick \/ \E b \in mempool : Evict(b)
  BY <1>8 DEF OutsiderReleases, Crash, Tick, Evict, chain
<1> QED BY <1>1, <1>2, <1>3, <1>4, <1>5, <1>6, <1>7, <1>8 DEF Next, Outside

(* What the chain says of an ended bill, and of a settled sale, lasts.     *)
Lasting ==
    \A p \in Proposals :
      /\ ended[p] # "none" => ended'[p] = ended[p] /\ outputs'[p] = outputs[p]
      /\ sales[p] \in {"TAKEN", "RETURNED"} => sales'[p] = sales[p]

LEMMA EndingsStep == ASSUME PInv, Endings, ExecutionsFit, Next PROVE Endings' /\ Lasting
<1>0. /\ Shape /\ PublicationsFit /\ tracker.coin \in Nat
      /\ entries \in [Proposals -> Nat] /\ sales \in [Proposals -> Sales]
      /\ ended \in [Proposals -> {"none", "EXECUTED", "FAILED"}]
  BY DEF PInv, Shape, ChainShape
<1>1. CASE UNCHANGED <<tracker, Ended>>
  BY <1>1 DEF Ended, Endings, Lasting
<1>2. ASSUME NEW b \in mempool, Valid(b), MinePublication(b) PROVE Endings' /\ Lasting
  <2>1. b \in Publications /\ b.tracker = tracker.coin /\ b.p \in Proposals
    BY <1>2, <1>0, InputsAreUnspent DEF MinePublication, Publications
  <2>2. tracker.holder = NoProposal /\ entries[b.p] = 0
    BY <2>1, <1>0 DEF PublicationsFit, Published
  <2>3. /\ tracker'.holder = b.p
        /\ entered' = [entered EXCEPT ![b.p] = tracker.coin + 1] /\ tracker.coin + 1 \in Nat \ {0}
        /\ entries' = [entries EXCEPT ![b.p] = @ + 1]
        /\ UNCHANGED <<ended, outputs, sales>>
    BY <1>2, <1>0, <2>1 DEF MinePublication
  <2>4. entries'[b.p] # 0 /\ entered'[b.p] # 0 /\ entered' \in [Proposals -> Nat]
    BY <2>1, <2>2, <2>3, <1>0 DEF Endings
  <2>5. \A p \in Proposals : p # b.p => entries'[p] = entries[p] /\ entered'[p] = entered[p]
    BY <2>3, <1>0 DEF Endings
  <2> QED BY <2>1, <2>2, <2>3, <2>4, <2>5, <1>0 DEF Endings, Lasting
<1>3. CASE tracker'.holder = tracker.holder /\ UNCHANGED Ended
  BY <1>3 DEF Ended, Endings, Lasting
<1>4. ASSUME NEW p \in Proposals, Ends(p) PROVE Endings' /\ Lasting
  <2>1. /\ ended[p] = "none" /\ ended'[p] \in {"EXECUTED", "FAILED"} /\ entries[p] # 0
        /\ sales[p] = "none" /\ outputs[p] = NoCoin
        /\ \A q \in Proposals : q # p => ended'[q] = ended[q]
        /\ UNCHANGED <<entered, entries>> /\ tracker'.holder = NoProposal
    BY <1>4, <1>0 DEF Ends, Endings
  <2>2. CASE UNCHANGED <<outputs, sales>>
    BY <2>1, <2>2, <1>4 DEF Endings, Lasting, Ends
  <2>3. CASE /\ ended'[p] = "EXECUTED"
             /\ \E c \in FundingCoins \cup {NoCoin} \cup Nat : outputs' = [outputs EXCEPT ![p] = c]
             /\ sales' = IF Kind[p] = "SALE" THEN [sales EXCEPT ![p] = "AVAILABLE"] ELSE sales
    <3>1. /\ outputs' \in [Proposals -> FundingCoins \cup {NoCoin} \cup Nat]
          /\ \A q \in Proposals : q # p => outputs'[q] = outputs[q] /\ sales'[q] = sales[q]
          /\ Kind[p] = "SALE" => sales'[p] # "none"
      <4>0. outputs \in [Proposals -> FundingCoins \cup {NoCoin} \cup Nat]
        BY <1>0 DEF Endings
      <4>1. PICK c \in FundingCoins \cup {NoCoin} \cup Nat : outputs' = [outputs EXCEPT ![p] = c]
        BY <2>3
      <4>2. outputs' \in [Proposals -> FundingCoins \cup {NoCoin} \cup Nat]
        BY <4>0, <4>1, <1>4
      <4>3. \A q \in Proposals : q # p => outputs'[q] = outputs[q]
        BY <4>0, <4>1
      <4>4. DOMAIN sales = Proposals
        BY <1>0
      <4>5. sales' = IF Kind[p] = "SALE" THEN [sales EXCEPT ![p] = "AVAILABLE"] ELSE sales
        BY <2>3
      <4>6. \A q \in Proposals : q # p => sales'[q] = sales[q]
        BY <4>4, <4>5
      <4>7. Kind[p] = "SALE" => sales'[p] # "none"
        BY <4>4, <4>5, <1>4
      <4> QED BY <4>2, <4>3, <4>6, <4>7
    <3> QED BY <2>1, <2>3, <3>1, <1>4 DEF Endings, Lasting, Ends
  <2> QED BY <1>4, <2>2, <2>3 DEF Ends
<1>5. CASE tracker.holder \notin Proposals /\ tracker'.holder \notin Proposals /\ UNCHANGED Ended
  BY <1>5 DEF Ended, Endings, Lasting
<1>6. ASSUME NEW p \in Proposals, SaleSettles(p) PROVE Endings' /\ Lasting
  <2>1. /\ sales[p] = "AVAILABLE" /\ sales'[p] \in {"TAKEN", "RETURNED"}
        /\ \A q \in Proposals : q # p => sales'[q] = sales[q]
        /\ UNCHANGED <<tracker, entered, entries, ended, outputs>>
    BY <1>6, <1>0 DEF SaleSettles
  <2> QED BY <2>1 DEF Endings, Lasting
<1> QED BY <1>0, <1>1, <1>2, <1>3, <1>4, <1>5, <1>6, ChainMoves

(* An execution that comes to be is built over the tracker coin of a bill  *)
(* that has not ended; it can be mined for that bill or not at all.        *)
LEMMA ExecutingGrow ==
    ASSUME Shape, Endings, Next, NEW b \in Executions, Executing(b)'
    PROVE  Executing(b) \/ (b.tracker = tracker.coin /\ tracker.holder = b.p)
<1> USE DEF Shape, StoreShape
<1>0. b.op = "execute"
  BY DEF Executions
<1>1. ASSUME NEW p \in Proposals, Queue(p) PROVE Executing(b)
  <2>1. ASSUME NEW v \in Voters, Vote(p, v) PROVE Executing(b)
    <3>1. PICK c : mempool' = mempool \cup {c} /\ c.op = "vote" /\ handlers' = handlers
      BY <2>1 DEF Vote, VoteOf, store
    <3> QED BY <1>0, <3>1 DEF Executing
  <2>2. CASE UNCHANGED <<handlers, mempool>>
    BY <2>2 DEF Executing
  <2> QED BY <1>1, <2>1, <2>2 DEF Queue, Create, Decide, Package, Approve, ReconcileLook
<1>2. ASSUME NEW h \in Handlers, Request(h)
      PROVE  Executing(b) \/ (b.tracker = tracker.coin /\ tracker.holder = b.p)
  <2> USE JobKinds
  <2>1. ASSUME NEW p \in Proposals, ExecuteBuild(h, p)
        PROVE  Executing(b) \/ (b.tracker = tracker.coin /\ tracker.holder = b.p)
    <3>1. tracker.holder = p
      <4>1. Traced(p) = "AWAITING_EXECUTE"
        BY <2>1 DEF ExecuteBuild, Executable
      <4>2. entered[p] # 0 /\ ended[p] = "none"
        BY <4>1 DEF Traced, ChainShape
      <4> QED BY <4>2 DEF Endings
    <3>2. ExecutionOf(p).tracker = tracker.coin /\ ExecutionOf(p).p = p
      BY DEF ExecutionOf
    <3>3. /\ handlers'[h].bundle = ExecutionOf(p) /\ mempool' = mempool
          /\ \A g \in Handlers : g # h => handlers'[g] = handlers[g]
      BY <2>1 DEF ExecuteBuild
    <3> QED BY <3>1, <3>2, <3>3 DEF Executing
  <2>2. CASE Push(h)
    <3> DEFINE job == handlers[h]
    <3>1. job.op # "execute" => job.bundle # b
      BY <1>0, <2>2 DEF Push, Publications, Fundings
    <3>2. mempool' \subseteq mempool \cup {job.bundle}
      BY <2>2 DEF Push
    <3>3. \A g \in Handlers : handlers'[g].op = "execute" => handlers[g].op = "execute" /\ handlers'[g].bundle = handlers[g].bundle
      BY SMTT(30), <2>2 DEF Push, Idle, Jobs
    <3> QED BY <3>1, <3>2, <3>3 DEF Executing
  <2>3. ASSUME NEW p \in Proposals, FundRecover(h, p) \/ PublishBuild(h, p) \/ ReconcileRead(h, p) \/ RefreshRead(h, p)
        PROVE  Executing(b)
    BY <2>3 DEF FundRecover, PublishBuild, ReconcileRead, RefreshRead, Executing
  <2>4. ASSUME NEW p \in Proposals, NEW c \in FundingCoins, FundBuild(h, p, c) PROVE Executing(b)
    BY <2>4 DEF FundBuild, Executing
  <2>5. CASE PublishRecord(h)
    BY <2>5 DEF PublishRecord, Executing, Idle
  <2>6. CASE FundIntend(h)
    BY <2>6 DEF FundIntend, Executing, Idle
  <2>7. CASE FundRecord(h) \/ ExecuteRecord(h) \/ ReconcileEnd(h)
    BY <2>7 DEF FundRecord, ExecuteRecord, ReconcileEnd, Executing, Idle
  <2>8. CASE SaleRecord(h)
    BY <2>8 DEF SaleRecord, Executing, Idle
  <2> QED BY <1>2, <2>1, <2>2, <2>3, <2>4, <2>5, <2>6, <2>7, <2>8 DEF Request
<1>3. CASE Outside
  BY <1>3 DEF Outside, Mine, Evict, OutsiderExecutes, OutsiderExpires, SaleSettles, OutsiderReleases, OtherProposal,
     Crash, Tick, Executing, Idle
<1> QED BY <1>1, <1>2, <1>3 DEF Next

LEMMA ExecutionsStep == ASSUME Shape, Endings, ExecutionsFit, Next PROVE ExecutionsFit'
<1>1. tracker.coin \in Nat /\ \A b \in Executions : b.tracker \in Nat
  BY DEF Shape, ChainShape, Executions
<1>2. \A b \in Executions : Executing(b)' => /\ b.tracker <= tracker.coin
                                             /\ b.tracker = tracker.coin => tracker.holder = b.p
  BY <1>1, ExecutingGrow DEF ExecutionsFit
<1>3. UNCHANGED tracker \/ tracker'.coin = tracker.coin + 1
  <2>1. ASSUME NEW b \in mempool, Valid(b), MinePublication(b) PROVE tracker'.coin = tracker.coin + 1
    BY <2>1, InputsAreUnspent DEF MinePublication
  <2> QED BY <2>1, TrackerMoves DEF Replaced
<1>4. ASSUME NEW b \in Executions, Executing(b)'
      PROVE  b.tracker <= tracker'.coin /\ (b.tracker = tracker'.coin => tracker'.holder = b.p)
  <2>1. b.tracker <= tracker.coin /\ (b.tracker = tracker.coin => tracker.holder = b.p)
    BY <1>2, <1>4
  <2> QED BY <1>1, <1>3, <2>1
<1> QED BY <1>4 DEF ExecutionsFit

-----------------------------------------------------------------------------
(* Rows and requests.                                                      *)

(* What a step may do to a row's end, evidence and sale.                   *)
RowsMove ==
    \A p \in Proposals :
      /\ rows[p].execution # NoCoin => rows'[p].execution = rows[p].execution
      /\ \/ rows'[p].sale = rows[p].sale
         \/ \E h \in Handlers : /\ handlers[h].op \in {"reconcile", "refresh"} /\ handlers[h].step = "sale"
                                /\ handlers[h].p = p /\ rows'[p].sale = handlers[h].sale
      /\ \/ rows'[p].state \notin {"EXECUTED", "FAILED"}
         \/ rows'[p].state = rows[p].state
         \/ \E h \in Handlers : /\ handlers[h].op = "reconcile" /\ handlers[h].step = "end"
                                /\ handlers[h].p = p /\ rows'[p].state = handlers[h].target

LEMMA RowsMoveStep == ASSUME Shape, Next PROVE RowsMove
<1> USE DEF Shape, StoreShape
<1>0. \A p \in Proposals : rows[p] \in Rows
  OBVIOUS
<1>1. ASSUME NEW q \in Proposals, Queue(q) PROVE RowsMove
  <2>1. ASSUME NEW a \in Slots, Create(q, a) PROVE RowsMove
    BY <2>1, <1>0 DEF Create, Rows, RowsMove
  <2>2. ASSUME NEW a \in Slots, NEW target \in {"READY", "CANCELED"}, Decide(q, a, target) PROVE RowsMove
    BY <2>2, <1>0 DEF Decide, Rows, RowsMove
  <2>3. ASSUME NEW c \in Coadmins, Package(q, c) PROVE RowsMove
    BY <2>3, <1>0 DEF Package, Rows, RowsMove
  <2>4. CASE UNCHANGED rows
    BY <2>4 DEF RowsMove
  <2> QED BY <1>1, <2>1, <2>2, <2>3, <2>4 DEF Queue, Approve, Vote, ReconcileLook, store
<1>2. ASSUME NEW h \in Handlers, Request(h) PROVE RowsMove
  <2> DEFINE job == handlers[h]
  <2>1. CASE PublishRecord(h)
    <3>1. job.p \in Proposals
      BY <2>1, JobKinds DEF PublishRecord
    <3>2. \A p \in Proposals : /\ rows'[p].execution = rows[p].execution /\ rows'[p].sale = rows[p].sale
                               /\ rows'[p].state \in {rows[p].state, "ACTIVE"}
      BY <2>1, <3>1, <1>0 DEF PublishRecord, Rows
    <3> QED BY <3>2 DEF RowsMove
  <2>2. CASE ExecuteRecord(h)
    <3>1. job.p \in Proposals
      BY <2>2, JobKinds DEF ExecuteRecord
    <3>2. \A p \in Proposals : /\ rows[p].execution # NoCoin => rows'[p].execution = rows[p].execution
                               /\ rows'[p].sale = rows[p].sale /\ rows'[p].state = rows[p].state
      BY <2>2, <3>1, <1>0 DEF ExecuteRecord, Rows
    <3> QED BY <3>2 DEF RowsMove
  <2>3. CASE SaleRecord(h)
    <3>1. job.p \in Proposals /\ job.op \in {"reconcile", "refresh"} /\ job.step = "sale"
      BY <2>3, JobKinds DEF SaleRecord
    <3>2. \A p \in Proposals : /\ rows'[p].execution = rows[p].execution
                               /\ rows'[p].sale = rows[p].sale \/ (p = job.p /\ rows'[p].sale = job.sale)
                               /\ rows'[p].state = rows[p].state
      <4>1. rows' = [rows EXCEPT ![job.p] = IF rows[job.p].sale = job.sale THEN rows[job.p]
                        ELSE [rows[job.p] EXCEPT !.sale = job.sale, !.revision = @ + 1]]
        BY <2>3 DEF SaleRecord
      <4> HIDE DEF job
      <4> QED BY <4>1, <3>1, <1>0 DEF Rows
    <3> HIDE DEF job
    <3> QED BY <3>1, <3>2 DEF RowsMove, job
  <2>4. CASE ReconcileEnd(h)
    <3>1. job.p \in Proposals /\ job.op = "reconcile" /\ job.step = "end"
      BY <2>4, JobKinds DEF ReconcileEnd
    <3>2. \A p \in Proposals : /\ rows'[p].execution = rows[p].execution /\ rows'[p].sale = rows[p].sale
                               /\ rows'[p].state = rows[p].state \/ (p = job.p /\ rows'[p].state = job.target)
      BY <2>4, <3>1, <1>0 DEF ReconcileEnd, Rows
    <3> HIDE DEF job
    <3> QED BY <3>1, <3>2 DEF RowsMove, job
  <2>5. CASE UNCHANGED rows
    BY <2>5 DEF RowsMove
  <2> QED BY <1>2, <2>1, <2>2, <2>3, <2>4, <2>5 DEF Request, PublishBuild, FundRecover, ExecuteBuild,
           ReconcileRead, RefreshRead, FundBuild, Push, FundIntend, FundRecord, store
<1>3. CASE Outside
  <2>1. UNCHANGED rows
    BY <1>3 DEF Outside, Mine, Evict, OutsiderExecutes, OutsiderExpires, SaleSettles, OutsiderReleases,
       OtherProposal, Crash, Tick, store
  <2> QED BY <2>1 DEF RowsMove
<1> QED BY <1>1, <1>2, <1>3 DEF Next

LEMMA RowsStep ==
    ASSUME Shape, JobsTrue, RowsTrue, Lasting, RowsMove
    PROVE  RowsTrue'
<1> SUFFICES ASSUME NEW p \in Proposals PROVE RowTrue(p)'
  BY DEF RowsTrue
<1>1. RowTrue(p) /\ \A h \in Handlers : JobTrue(handlers[h])
  BY DEF RowsTrue, JobsTrue
<1>2. rows'[p].sale = rows[p].sale \/ rows'[p].sale # NoSale
  BY <1>1 DEF RowsMove, JobTrue
<1>3. ASSUME rows'[p].sale \in {"TAKEN", "RETURNED"} PROVE sales'[p] = rows'[p].sale
  <2>1. sales[p] = rows'[p].sale
    BY <1>1, <1>3 DEF RowsMove, JobTrue, RowTrue
  <2> QED BY <1>3, <2>1 DEF Lasting
<1>4. ASSUME rows'[p].state = "FAILED" PROVE ended'[p] = "FAILED"
  <2>1. ended[p] = "FAILED"
    BY <1>1, <1>4 DEF RowsMove, JobTrue, RowTrue
  <2> QED BY <2>1 DEF Lasting
<1>5. ASSUME rows'[p].state = "EXECUTED"
      PROVE  /\ ended'[p] = "EXECUTED" /\ rows'[p].execution = outputs'[p] /\ rows'[p].execution # NoCoin
             /\ Kind[p] = "SALE" => rows'[p].sale # NoSale
  <2>1. /\ ended[p] = "EXECUTED" /\ rows[p].execution = outputs[p] /\ rows[p].execution # NoCoin
        /\ Kind[p] = "SALE" => rows[p].sale # NoSale
    BY <1>1, <1>5 DEF RowsMove, JobTrue, RowTrue
  <2> QED BY <2>1, <1>2 DEF Lasting, RowsMove
<1> QED BY <1>3, <1>4, <1>5 DEF RowTrue

(* Where a request under way comes from.                                   *)
LEMMA JobsMove ==
    ASSUME Shape, Next, NEW g \in Handlers
    PROVE  \/ handlers'[g] = handlers[g]
           \/ handlers'[g].op \notin {"reconcile", "refresh"}
           \/ \E p \in Proposals : ReconcileRead(g, p) \/ RefreshRead(g, p)
           \/ SaleRecord(g)
<1> USE DEF Shape, StoreShape
<1>1. ASSUME NEW p \in Proposals, Queue(p) PROVE handlers'[g] = handlers[g]
  BY <1>1 DEF Queue, Create, Decide, Package, Approve, Vote, ReconcileLook, store
<1>2. ASSUME NEW h \in Handlers, Request(h), handlers'[g] # handlers[g]
      PROVE  \/ handlers'[g].op \notin {"reconcile", "refresh"}
             \/ \E p \in Proposals : ReconcileRead(g, p) \/ RefreshRead(g, p)
             \/ SaleRecord(g)
  <2>1. ASSUME NEW p \in Proposals, PublishBuild(h, p) \/ FundRecover(h, p) \/ ExecuteBuild(h, p)
        PROVE  handlers'[g].op \notin {"reconcile", "refresh"}
    BY <1>2, <2>1 DEF PublishBuild, FundRecover, ExecuteBuild
  <2>2. ASSUME NEW p \in Proposals, ReconcileRead(h, p) \/ RefreshRead(h, p)
        PROVE  g = h
    BY <1>2, <2>2 DEF ReconcileRead, RefreshRead
  <2>3. ASSUME NEW p \in Proposals, NEW c \in FundingCoins, FundBuild(h, p, c)
        PROVE  handlers'[g].op \notin {"reconcile", "refresh"}
    BY <1>2, <2>3 DEF FundBuild
  <2>4. CASE Push(h)
    <3>1. handlers[h] \in Jobs /\ handlers[h].op \in {"publish", "fund", "execute"}
      BY <2>4 DEF Push
    <3>2. handlers'[h] = Idle \/ handlers'[h].op = handlers[h].op
      BY <2>4, <3>1 DEF Push, Jobs, Idle
    <3> QED BY <1>2, <2>4, <3>1, <3>2 DEF Push, Idle
  <2>5. CASE FundIntend(h)
    <3>1. handlers[h] \in Jobs /\ handlers[h].op = "fund"
      BY <2>5 DEF FundIntend
    <3>2. handlers'[h] = Idle \/ handlers'[h].op = handlers[h].op
      BY <2>5, <3>1 DEF FundIntend, Jobs, Idle
    <3> QED BY <1>2, <2>5, <3>1, <3>2 DEF FundIntend, Idle
  <2>6. CASE PublishRecord(h) \/ FundRecord(h) \/ ExecuteRecord(h) \/ ReconcileEnd(h)
    BY <1>2, <2>6 DEF PublishRecord, FundRecord, ExecuteRecord, ReconcileEnd, Idle
  <2>7. CASE SaleRecord(h)
    <3>1. g = h
      BY <1>2, <2>7 DEF SaleRecord
    <3> QED BY <2>7, <3>1
  <2> QED BY <1>2, <2>1, <2>2, <2>3, <2>4, <2>5, <2>6, <2>7 DEF Request
<1>3. ASSUME Outside PROVE handlers'[g] = handlers[g] \/ handlers'[g] = Idle
  BY <1>3 DEF Outside, Mine, Evict, OutsiderExecutes, OutsiderExpires, SaleSettles, OutsiderReleases, OtherProposal,
     Crash, Tick
<1> QED BY <1>1, <1>2, <1>3 DEF Next, Idle

(* A reconciliation reads an end of the bill that is on record and, of a   *)
(* sale, that its coin was created: it takes that to its last write.       *)
LEMMA JobsStep ==
    ASSUME QInv, Next, Lasting, RowsMove
    PROVE  JobsTrue'
<1>0. /\ Shape /\ Endings /\ RowsTrue
      /\ handlers \in [Handlers -> Jobs] /\ rows \in [Proposals -> Rows]
      /\ \A h \in Handlers : JobTrue(handlers[h])
  BY DEF QInv, PInv, Shape, StoreShape, JobsTrue
<1>1. \A p \in Proposals : rows'[p].sale = rows[p].sale \/ rows'[p].sale # NoSale
  BY <1>0 DEF RowsMove, JobTrue
<1>2. ASSUME NEW job \in Jobs, JobTrue(job) PROVE JobTrue(job)'
  <2>1. job.op \in {"reconcile", "refresh"} => job.p \in Proposals
    BY DEF Jobs, Idle
  <2>2. job.op = "reconcile" => job.target \in {"EXECUTED", "FAILED"}
    BY DEF Jobs, Idle
  <2> QED BY <1>1, <1>2, <2>1, <2>2 DEF JobTrue, Lasting, RowsMove
<1>3. \A job : job.op \notin {"reconcile", "refresh"} => JobTrue(job)'
  BY DEF JobTrue
<1>4. ASSUME NEW h \in Handlers, NEW p \in Proposals, NEW job, ReconcileRead(h, p), job = handlers'[h]
      PROVE  JobTrue(job)'
  <2>1. /\ job.op = "reconcile" /\ job.p = p /\ job.target = Traced(p) /\ job.sale = sales[p]
        /\ Traced(p) \in {"EXECUTED", "FAILED"} /\ UNCHANGED <<rows, ended, outputs, sales>>
        /\ Traced(p) = "EXECUTED" => rows[p].execution # NoCoin /\ rows[p].execution = outputs[p]
        /\ job.step = IF Traced(p) = "EXECUTED" /\ Kind[p] = "SALE" THEN "sale" ELSE "end"
    BY <1>4, <1>0 DEF ReconcileRead, SaleStatus, store, chain
  <2>2. ended[p] = Traced(p)
    BY <2>1 DEF Traced
  <2>3. job.step = "sale" => sales[p] # NoSale
    BY <2>1, <1>0 DEF Endings, NoSale
  <2> QED BY <2>1, <2>2, <2>3 DEF JobTrue
<1>5. ASSUME NEW h \in Handlers, NEW p \in Proposals, NEW job, RefreshRead(h, p), job = handlers'[h]
      PROVE  JobTrue(job)'
  <2>1. /\ job.op = "refresh" /\ job.p = p /\ job.sale = sales[p] /\ UNCHANGED sales
        /\ rows[p].state = "EXECUTED" /\ Kind[p] = "SALE"
    BY <1>5, <1>0 DEF RefreshRead, SaleStatus, chain
  <2>2. sales[p] # NoSale
    BY <2>1, <1>0 DEF Endings, RowsTrue, RowTrue, NoSale
  <2> QED BY <2>1, <2>2 DEF JobTrue
<1>6. ASSUME NEW h \in Handlers, NEW job, SaleRecord(h), job = handlers'[h]
      PROVE  JobTrue(job)'
  <2> DEFINE was == handlers[h]
  <2>1. was.op \in {"reconcile", "refresh"} /\ was.step = "sale" /\ was \in Jobs /\ was.p \in Proposals
    BY <1>6, <1>0, JobKinds DEF SaleRecord
  <2>2. CASE was.op = "refresh"
    BY <1>0, <1>3, <1>6, <2>2 DEF SaleRecord, Idle
  <2>3. CASE was.op = "reconcile"
    <3>1. /\ job.op = "reconcile" /\ job.p = was.p /\ job.sale = was.sale /\ job.target = was.target
          /\ job.step = "end"
      BY <1>0, <1>6, <2>1, <2>3 DEF SaleRecord, Jobs, Idle
    <3>2. rows'[was.p].sale = was.sale /\ was.sale # NoSale
      <4>1. rows' = [rows EXCEPT ![was.p] = IF rows[was.p].sale = was.sale THEN rows[was.p]
                        ELSE [rows[was.p] EXCEPT !.sale = was.sale, !.revision = @ + 1]]
        BY <1>6 DEF SaleRecord
      <4>2. rows[was.p] \in Rows
        BY <1>0, <2>1
      <4>3. was.sale # NoSale
        BY <1>0, <2>1 DEF JobTrue
      <4> HIDE DEF was
      <4> QED BY <1>0, <2>1, <4>1, <4>2, <4>3 DEF Rows
    <3>3. /\ was.target \in {"EXECUTED", "FAILED"} /\ ended[was.p] = was.target
          /\ was.target = "EXECUTED" => /\ rows[was.p].execution # NoCoin
                                        /\ rows[was.p].execution = outputs[was.p]
          /\ was.sale \in {"TAKEN", "RETURNED"} => sales[was.p] = was.sale
      BY <1>0, <2>1, <2>3, JobKinds DEF JobTrue
    <3> HIDE DEF was
    <3>4. /\ ended'[was.p] = was.target
          /\ was.target = "EXECUTED" => /\ rows'[was.p].execution # NoCoin
                                        /\ rows'[was.p].execution = outputs'[was.p]
          /\ was.sale \in {"TAKEN", "RETURNED"} => sales'[was.p] = was.sale
      BY <2>1, <3>3 DEF Lasting, RowsMove
    <3> QED BY <3>1, <3>2, <3>4 DEF JobTrue
  <2> QED BY <2>1, <2>2, <2>3
<1>7. ASSUME NEW h \in Handlers, NEW job, job = handlers'[h] PROVE JobTrue(job)'
  <2>1. CASE handlers'[h] = handlers[h]
    BY <1>0, <1>2, <1>7, <2>1
  <2> QED BY <1>0, <1>3, <1>4, <1>5, <1>6, <1>7, <2>1, JobsMove
<1> QED BY <1>7 DEF JobsTrue

LEMMA FollowStep == ASSUME QInv, Next PROVE QInv'
<1>1. PInv /\ Shape /\ Endings /\ ExecutionsFit /\ JobsTrue /\ RowsTrue
  BY DEF QInv, PInv
<1>2. PInv'
  BY <1>1, PublicationStep
<1>3. Endings' /\ Lasting
  BY <1>1, EndingsStep
<1>4. ExecutionsFit'
  BY <1>1, ExecutionsStep
<1>5. RowsMove
  BY <1>1, RowsMoveStep
<1>6. JobsTrue'
  BY <1>3, <1>5, JobsStep
<1>7. RowsTrue'
  BY <1>1, <1>3, <1>5, RowsStep
<1> QED BY <1>2, <1>3, <1>4, <1>6, <1>7 DEF QInv

LEMMA FollowStutter == ASSUME QInv, UNCHANGED vars PROVE QInv'
<1>1. PInv'
  BY Stutters DEF QInv
<1>2. Endings' /\ ExecutionsFit'
  BY DEF QInv, vars, store, chain, Endings, ExecutionsFit, Executing
<1>3. JobsTrue' /\ RowsTrue'
  BY DEF QInv, vars, store, chain, JobsTrue, JobTrue, RowsTrue, RowTrue
<1> QED BY <1>1, <1>2, <1>3 DEF QInv

(* A row is closed EXECUTED or FAILED only as the tracker ended that bill, *)
(* with the outputs its evidence names, and a sale shown settled is        *)
(* settled: reconcile_publication writes what it read of the chain before, *)
(* whatever other requests and outsiders did in between.                   *)
THEOREM QueueSafe == Spec => []QueueFollowsChain
<1>1. Init => QInv
  BY InitFollows
<1>2. QInv /\ [Next]_vars => QInv'
  BY FollowStep, FollowStutter
<1>3. QInv => QueueFollowsChain
  BY DEF QInv, RowsTrue, RowTrue, QueueFollowsChain
<1> QED BY <1>1, <1>2, <1>3, PTL DEF Spec
=============================================================================
