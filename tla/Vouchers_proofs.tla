-------------------------- MODULE Vouchers_proofs --------------------------
(***************************************************************************)
(* Proofs about Vouchers.  That one spend of the series is outstanding at  *)
(* a time, and that the books follow the chain, hold each other up: the    *)
(* store moves its coin by one because the spend it confirms is the only   *)
(* one that can have been mined, and it is the only one because every      *)
(* table that retains a spend was found empty under the lease.             *)
(***************************************************************************)
EXTENDS Vouchers, TLAPS

\* The four tables that may retain a spend exclude each other, and the lease
\* belongs to the only voucher with anything retained.
Exclusive ==
  /\ \A v, w \in Voucher : Busy(v) /\ Busy(w) => v = w
  /\ campaign # None => \A v \in Voucher : ~Busy(v)
  /\ lease # None => campaign = None /\ \A w \in Voucher : Busy(w) => w = lease.v

\* What is retained spends the current coin.
Bound ==
  /\ \A v \in Voucher : Pinned(v) => bundle[v].coin = current /\ bundle[v].spend.v = v
  /\ campaign # None => campaign.coin = current

\* A bundle that can still be mined is one that is retained.
PoolIsRetained ==
  /\ \A b \in pool :
       /\ b.coin <= Tip
       /\ b.coin = Tip => \/ \E v \in Voucher : Pinned(v) /\ b = bundle[v]
                          \/ campaign # None /\ b = Phase(campaign)
  /\ campaign # None /\ campaign.lapsed => Phase(campaign) \notin pool

\* The store is one spend behind the chain at most.
OneBehind ==
  /\ current \in {Tip, Tip - 1}
  /\ current # Tip => Awaited

\* A voucher that is paid for, or has a spend retained, is under way.
UnderWay ==
  \A v \in Voucher :
    /\ v \in checked => state[v] = "NONE" /\ Rail[v] = "STRIPE"
    /\ Pinned(v) => state[v] \notin Over \cup {"NONE"}

SeriesFollows ==
  /\ series = "LIVE" <=> Before(current, {"LAUNCH"}, NoVoucher)
  /\ series = "CANCELED" <=> Before(current, {"CANCEL"}, NoVoucher)

VouchersFollow ==
  \A v \in Voucher :
    /\ state[v] = "REDEEMED" <=> Before(current, {"REDEEM"}, v)
    /\ state[v] = "REFUNDED" <=> Before(current, Refunds, v)
    /\ auth[v] = "DELIVERED" => state[v] = "REDEEMED"
    /\ auth[v] = "REFUND" => state[v] = "REFUNDED"
    /\ Rail[v] = "BASE" /\ state[v] \in Over => auth[v] # "none"

IInv ==
  /\ TypeOK /\ Exclusive /\ Bound /\ PoolIsRetained /\ OneBehind
  /\ UnderWay /\ SeriesFollows /\ VouchersFollow


\* The mark a step sets leaves the spend of the operation alone.
LEMMA PhaseStays ==
  ASSUME TypeOK, campaign # None,
         \/ campaign' = [campaign EXCEPT !.signed = TRUE]
         \/ campaign' = [campaign EXCEPT !.lapsed = TRUE]
  PROVE  /\ campaign' # None /\ campaign'.coin = campaign.coin
         /\ Phase(campaign') = Phase(campaign) /\ Phase(campaign) \in Bundle
         /\ Phase(campaign).coin = campaign.coin
<1>1. campaign \in Campaign /\ campaign' \in Campaign
  BY DEF TypeOK, Campaign
<1> QED
  BY <1>1, NoneAssumption DEF TypeOK, Campaign, Phase, Bundle, Spend

LEMMA DispatchPool ==
  ASSUME TypeOK, PoolIsRetained, Bound, NEW v \in Voucher, NEW kind \in {"ISSUE"} \cup Terminals,
         Dispatch(v, kind) \/ Seal(v, kind)
  PROVE  PoolIsRetained'
<1> DEFINE b == [spend |-> [kind |-> kind, v |-> v], coin |-> current]
<1>1. b \in Bundle /\ b.coin = current
  BY DEF TypeOK, Bundle, Spend
<1>2. Tip' = Tip /\ current = Tip /\ campaign = None /\ campaign' = None
  BY DEF Dispatch, Seal, Tip, seriesVars
<1>3. bundle'[v] = b /\ b # None
  BY <1>1, NoneAssumption DEF Dispatch, Seal, TypeOK
<1>4. \A w \in Voucher : Pinned(w) => bundle'[w] = bundle[w]
  BY DEF Dispatch, Seal, Pinned, TypeOK
<1>5. pool' \subseteq pool \cup {b}
  BY DEF Dispatch, Seal
<1>6. \A a \in pool : a.coin <= Tip /\ (a.coin = Tip => \E w \in Voucher : Pinned(w) /\ a = bundle[w])
  BY <1>2 DEF PoolIsRetained
<1> HIDE DEF b
<1>7. \A a \in pool' : a.coin <= Tip' /\ (a.coin = Tip' => (\E w \in Voucher : Pinned(w) /\ a = bundle[w])')
  BY <1>1, <1>2, <1>3, <1>4, <1>5, <1>6 DEF Pinned, TypeOK, Tip
<1> QED
  BY <1>2, <1>7 DEF PoolIsRetained

\* The coin of the store moves on by one spend.
LEMMA BeforeGrows ==
  ASSUME current \in Nat, UNCHANGED chain, current' = current + 1
  PROVE  \A K, w : Before(current, K, w)' <=>
           Before(current, K, w) \/ (chain[current + 1].kind \in K /\ chain[current + 1].v = w)
<1>1. 1..(current + 1) = 1..current \cup {current + 1}
  OBVIOUS
<1> QED
  BY <1>1 DEF Before

LEMMA BeforeStays ==
  ASSUME UNCHANGED current, \A i \in 1..current : chain'[i] = chain[i]
  PROVE  \A K, w : Before(current, K, w)' <=> Before(current, K, w)
  BY DEF Before


\* A terminal is confirmed: the rows of the voucher move with the chain, and
\* no row of another voucher does.
LEMMA ConfirmFollows ==
  ASSUME TypeOK, Bound, VouchersFollow, NEW v \in Voucher, NEW from, NEW to,
         Pinned(v), bundle[v].spend.kind \in Terminals, Mined(bundle[v]),
         from \subseteq {"ESCROWED", "REDEEMING", "REFUNDING"}, Confirmed(v, from, to), UNCHANGED chain,
         to = IF bundle[v].spend.kind \in Refunds THEN "REFUNDED" ELSE "REDEEMED",
         \/ UNCHANGED auth /\ Rail[v] # "BASE"
         \/ Authorize(v, IF to = "REDEEMED" THEN "DELIVERED" ELSE "REFUND")
  PROVE  VouchersFollow'
<1>1. bundle[v].coin = current /\ bundle[v].spend.v = v /\ current \in Nat
  BY DEF Bound, TypeOK
<1>2. chain[current + 1] = bundle[v].spend /\ current' = current + 1
  BY <1>1 DEF Mined, Confirmed
<1>3. \A K, w : Before(current, K, w)' <=>
           Before(current, K, w) \/ (bundle[v].spend.kind \in K /\ v = w)
  BY <1>1, <1>2, BeforeGrows
<1>4. state[v] \notin Over /\ auth[v] \notin {"DELIVERED", "REFUND"}
  BY DEF Confirmed, Over, VouchersFollow
<1>5. /\ state'[v] = to
      /\ \A w \in Voucher \ {v} : state'[w] = state[w] /\ auth'[w] = auth[w]
  BY DEF TypeOK, Confirmed, Authorize
<1>6. /\ auth'[v] = "DELIVERED" => to = "REDEEMED"
      /\ auth'[v] = "REFUND" => to = "REFUNDED"
      /\ Rail[v] = "BASE" => auth'[v] # "none"
  BY <1>4 DEF TypeOK, Authorize
<1>7. ASSUME NEW w \in Voucher \ {v}
      PROVE  /\ state'[w] = "REDEEMED" <=> Before(current, {"REDEEM"}, w)'
             /\ state'[w] = "REFUNDED" <=> Before(current, Refunds, w)'
             /\ auth'[w] = "DELIVERED" => state'[w] = "REDEEMED"
             /\ auth'[w] = "REFUND" => state'[w] = "REFUNDED"
             /\ Rail[w] = "BASE" /\ state'[w] \in Over => auth'[w] # "none"
  BY <1>3, <1>5 DEF VouchersFollow
<1>8. /\ state'[v] = "REDEEMED" <=> Before(current, {"REDEEM"}, v)'
      /\ state'[v] = "REFUNDED" <=> Before(current, Refunds, v)'
  BY <1>3, <1>4, <1>5 DEF VouchersFollow, Terminals, Refunds, Over
<1> QED
  BY <1>5, <1>6, <1>7, <1>8 DEF VouchersFollow


LEMMA IssueFollows ==
  ASSUME TypeOK, Bound, VouchersFollow, NEW v \in Voucher,
         Pinned(v), bundle[v].spend.kind = "ISSUE", Mined(bundle[v]),
         RecordIssued(v), UNCHANGED chain
  PROVE  VouchersFollow'
<1>1. bundle[v].coin = current /\ bundle[v].spend.v = v /\ current \in Nat
  BY DEF Bound, TypeOK
<1>2. chain[current + 1] = bundle[v].spend /\ current' = current + 1
  BY <1>1 DEF Mined, RecordIssued, Confirmed
<1>3. \A K, w : Before(current, K, w)' <=> Before(current, K, w) \/ ("ISSUE" \in K /\ v = w)
  BY <1>1, <1>2, BeforeGrows
<1>4. /\ \A w \in Voucher \ {v} : state'[w] = state[w]
      /\ state[v] \notin Over /\ state'[v] \notin Over /\ UNCHANGED auth
  BY DEF TypeOK, RecordIssued, Confirmed, Over
<1>5. ASSUME NEW w \in Voucher
      PROVE  /\ state'[w] = "REDEEMED" <=> Before(current, {"REDEEM"}, w)'
             /\ state'[w] = "REFUNDED" <=> Before(current, Refunds, w)'
             /\ auth'[w] = "DELIVERED" => state'[w] = "REDEEMED"
             /\ auth'[w] = "REFUND" => state'[w] = "REFUNDED"
             /\ Rail[w] = "BASE" /\ state'[w] \in Over => auth'[w] # "none"
  <2>1. \A s \in {"REDEEMED", "REFUNDED"} : state'[w] = s <=> state[w] = s
    BY <1>4 DEF Over
  <2>2. /\ state'[w] = "REDEEMED" <=> Before(current, {"REDEEM"}, w)'
        /\ state'[w] = "REFUNDED" <=> Before(current, Refunds, w)'
    BY <1>3, <2>1 DEF VouchersFollow, Refunds
  <2>3. auth'[w] = auth[w] /\ (state'[w] \in Over => state[w] \in Over)
    BY <1>4, <2>1 DEF Over
  <2> QED
    BY <2>1, <2>2, <2>3 DEF VouchersFollow
<1> QED
  BY <1>5 DEF VouchersFollow

\* What a voucher's spend does is not a change of phase.
LEMMA ConfirmSeries ==
  ASSUME TypeOK, Bound, SeriesFollows, NEW v \in Voucher, NEW from, NEW to,
         Pinned(v), Mined(bundle[v]), Confirmed(v, from, to), UNCHANGED <<chain, series>>
  PROVE  SeriesFollows'
<1>1. bundle[v].coin = current /\ bundle[v].spend.v # NoVoucher /\ current \in Nat
  BY VoucherAssumption DEF Bound, TypeOK
<1>2. chain[current + 1] = bundle[v].spend /\ current' = current + 1
  BY <1>1 DEF Mined, Confirmed
<1>3. \A K : Before(current, K, NoVoucher)' <=> Before(current, K, NoVoucher)
  BY <1>1, <1>2, BeforeGrows
<1> QED
  BY <1>3 DEF SeriesFollows

\* Retaining, binding and sending leaves the finished vouchers alone.
LEMMA RowsStay ==
  ASSUME VouchersFollow, UNCHANGED <<chain, current, auth>>,
         \A w \in Voucher : state[w] \in Over \/ state'[w] \in Over => state'[w] = state[w]
  PROVE  VouchersFollow'
<1>1. \A K, w : Before(current, K, w)' <=> Before(current, K, w)
  BY BeforeStays
<1> QED
  BY <1>1 DEF VouchersFollow, Over

LEMMA DispatchRows ==
  ASSUME TypeOK, VouchersFollow, NEW v \in Voucher, state[v] \notin Over,
         NEW kind \in {"ISSUE"} \cup Terminals, Dispatch(v, kind) \/ Seal(v, kind)
  PROVE  VouchersFollow'
<1>1. UNCHANGED <<chain, current, auth>>
  BY DEF Dispatch, Seal, seriesVars
<1>2. BoundState(v, kind) \notin Over
  BY DEF BoundState, Over, Refunds, Terminals
<1>3. \A w \in Voucher : state[w] \in Over \/ state'[w] \in Over => state'[w] = state[w]
  BY <1>2 DEF Dispatch, Seal, TypeOK
<1> QED
  BY <1>1, <1>3, RowsStay

LEMMA DispatchType ==
  ASSUME TypeOK, NEW v \in Voucher, NEW kind \in {"ISSUE"} \cup Terminals,
         Dispatch(v, kind) \/ Seal(v, kind)
  PROVE  TypeOK'
<1> DEFINE b == [spend |-> [kind |-> kind, v |-> v], coin |-> current]
<1>1. b \in Bundle
  BY DEF TypeOK, Bundle, Spend
<1>2. bundle' = [bundle EXCEPT ![v] = b] /\ pool' \subseteq pool \cup {b}
  BY DEF Dispatch, Seal
<1>3. BoundState(v, kind) \in Pending \cup Over \cup {"NONE", "ESCROWED", "REDEEMING", "REFUNDING"}
  BY DEF BoundState, TypeOK, Pending
<1>4. state' \in [Voucher -> Pending \cup Over \cup {"NONE", "ESCROWED", "REDEEMING", "REFUNDING"}]
  BY <1>3 DEF Dispatch, Seal, TypeOK
<1>5. raw' \in [Voucher -> Retained \cup {"none", "sealed"}] /\ lease' \in Lease \cup {None}
  BY DEF Dispatch, Seal, TypeOK, Retained, Done
<1>6. UNCHANGED <<chain, clock, series, current, campaign, launches, funding, auth, relayed, lastKey, checked>>
  BY DEF Dispatch, Seal, seriesVars, payVars
<1> HIDE DEF b
<1> QED
  BY <1>1, <1>2, <1>4, <1>5, <1>6 DEF TypeOK


LEMMA TypeStep ==
  ASSUME TypeOK, Next PROVE TypeOK'
<1> USE VoucherAssumption DEF TypeOK, Spend, Bundle, Terminals, Refunds, Retained, Pending, Over, chainVars, seriesVars, voucherVars, payVars, vars
<1>1. ASSUME NEW v \in Voucher, IngestBase(v) PROVE TypeOK'
  BY <1>1 DEF IngestBase
<1>2. ASSUME NEW v \in Voucher, CheckStripe(v) PROVE TypeOK'
  BY <1>2 DEF CheckStripe
<1>3. ASSUME NEW v \in Voucher, IngestStripe(v) PROVE TypeOK'
  BY <1>3 DEF IngestStripe
<1>4. ASSUME NEW v \in Voucher, Claim(v) PROVE TypeOK'
  BY <1>4 DEF Claim, Lease, Raw, Lane, Busy, Pinned
<1>5. ASSUME NEW v \in Voucher, FundLauncher(v) PROVE TypeOK'
  BY <1>5 DEF FundLauncher, Working, Done
<1>6. ASSUME NEW v \in Voucher, ConfirmFunding(v) PROVE TypeOK'
  BY <1>6 DEF ConfirmFunding, Working, Done
<1>7. ASSUME NEW v \in Voucher, ResumeFunding(v) PROVE TypeOK'
  BY <1>7 DEF ResumeFunding, Working, Done
<1>8. ASSUME NEW v \in Voucher, SubmitIssuance(v) PROVE TypeOK'
  <2> HIDE DEF TypeOK
  <2> QED
    BY <1>8, DispatchType DEF SubmitIssuance, RefundAction, Refunds, Terminals
<1>9. ASSUME NEW v \in Voucher, SubmitNativeRedemption(v) PROVE TypeOK'
  <2> HIDE DEF TypeOK
  <2> QED
    BY <1>9, DispatchType DEF SubmitNativeRedemption, RefundAction, Refunds, Terminals
<1>10. ASSUME NEW v \in Voucher, SubmitBaseRedemption(v) PROVE TypeOK'
  <2> HIDE DEF TypeOK
  <2> QED
    BY <1>10, DispatchType DEF SubmitBaseRedemption, RefundAction, Refunds, Terminals
<1>11. ASSUME NEW v \in Voucher, SubmitStripeRedemption(v) PROVE TypeOK'
  <2> HIDE DEF TypeOK
  <2> QED
    BY <1>11, DispatchType DEF SubmitStripeRedemption, RefundAction, Refunds, Terminals
<1>12. ASSUME NEW v \in Voucher, SubmitNativeExpiredRefund(v) PROVE TypeOK'
  <2> HIDE DEF TypeOK
  <2> QED
    BY <1>12, DispatchType DEF SubmitNativeExpiredRefund, RefundAction, Refunds, Terminals
<1>13. ASSUME NEW v \in Voucher, SubmitBaseExpiredRefund(v) PROVE TypeOK'
  <2> HIDE DEF TypeOK
  <2> QED
    BY <1>13, DispatchType DEF SubmitBaseExpiredRefund, RefundAction, Refunds, Terminals
<1>14. ASSUME NEW v \in Voucher, SubmitStripeExpiredRefund(v) PROVE TypeOK'
  <2> HIDE DEF TypeOK
  <2> QED
    BY <1>14, DispatchType DEF SubmitStripeExpiredRefund, RefundAction, Refunds, Terminals
<1>15. ASSUME NEW v \in Voucher, OwnerRefund(v) PROVE TypeOK'
  <2> HIDE DEF TypeOK
  <2> QED
    BY <1>15, DispatchType DEF OwnerRefund, RefundAction, Refunds, Terminals
<1>16. ASSUME NEW v \in Voucher, Resume(v) PROVE TypeOK'
  <2>1. bundle[v] \in Bundle
    BY <1>16 DEF Resume, Pinned
  <2>2. pool' \in SUBSET Bundle
    BY <1>16, <2>1 DEF Resume
  <2>3. raw' \in [Voucher -> Retained \cup {"none", "sealed"}]
    BY <1>16 DEF Resume
  <2>4. state' \in [Voucher -> Pending \cup Over \cup {"NONE", "ESCROWED", "REDEEMING", "REFUNDING"}]
    BY <1>16 DEF Resume, BoundState
  <2> QED
    BY <1>16, <2>2, <2>3, <2>4 DEF Resume, Done
<1>17. ASSUME NEW v \in Voucher, ResumeStripe(v) PROVE TypeOK'
  <2>1. bundle[v] \in Bundle
    BY <1>17 DEF ResumeStripe, Pinned
  <2>2. pool' \in SUBSET Bundle
    BY <1>17, <2>1 DEF ResumeStripe
  <2>3. raw' \in [Voucher -> Retained \cup {"none", "sealed"}]
    BY <1>17 DEF ResumeStripe
  <2>4. state' \in [Voucher -> Pending \cup Over \cup {"NONE", "ESCROWED", "REDEEMING", "REFUNDING"}]
    BY <1>17 DEF ResumeStripe, BoundState
  <2> QED
    BY <1>17, <2>2, <2>3, <2>4 DEF ResumeStripe, Done
<1>18. ASSUME NEW v \in Voucher, ConfirmIssuance(v) PROVE TypeOK'
  <2>1. bundle' \in [Voucher -> Bundle \cup {None}]
    BY <1>18 DEF ConfirmIssuance, RecordIssued, Confirmed
  <2>2. raw' \in [Voucher -> Retained \cup {"none", "sealed"}]
    BY <1>18 DEF ConfirmIssuance, RecordIssued, Observed, Closing, Raw
  <2>3. state' \in [Voucher -> Pending \cup Over \cup {"NONE", "ESCROWED", "REDEEMING", "REFUNDING"}]
    BY <1>18 DEF ConfirmIssuance, RecordIssued, Confirmed
  <2>4. auth' \in [Voucher -> {"none", "DELIVERED", "REFUND"}]
    BY <1>18 DEF ConfirmIssuance, RecordIssued, Authorize
  <2> QED
    BY <1>18, <2>1, <2>2, <2>3, <2>4 DEF ConfirmIssuance, RecordIssued, Observed, Confirmed, Done
<1>19. ASSUME NEW v \in Voucher, ConfirmRedemption(v) PROVE TypeOK'
  <2>1. bundle' \in [Voucher -> Bundle \cup {None}]
    BY <1>19 DEF ConfirmRedemption, RecordRedeemed, Confirmed
  <2>2. raw' \in [Voucher -> Retained \cup {"none", "sealed"}]
    BY <1>19 DEF ConfirmRedemption, RecordRedeemed, Observed, Closing, Raw
  <2>3. state' \in [Voucher -> Pending \cup Over \cup {"NONE", "ESCROWED", "REDEEMING", "REFUNDING"}]
    BY <1>19 DEF ConfirmRedemption, RecordRedeemed, Confirmed
  <2>4. auth' \in [Voucher -> {"none", "DELIVERED", "REFUND"}]
    BY <1>19 DEF ConfirmRedemption, RecordRedeemed, Authorize
  <2> QED
    BY <1>19, <2>1, <2>2, <2>3, <2>4 DEF ConfirmRedemption, RecordRedeemed, Observed, Confirmed, Done
<1>20. ASSUME NEW v \in Voucher, ConfirmNativeRefund(v) PROVE TypeOK'
  <2>1. bundle' \in [Voucher -> Bundle \cup {None}]
    BY <1>20 DEF ConfirmNativeRefund, RecordNativeRefund, Confirmed
  <2>2. raw' \in [Voucher -> Retained \cup {"none", "sealed"}]
    BY <1>20 DEF ConfirmNativeRefund, RecordNativeRefund, Observed, Closing, Raw
  <2>3. state' \in [Voucher -> Pending \cup Over \cup {"NONE", "ESCROWED", "REDEEMING", "REFUNDING"}]
    BY <1>20 DEF ConfirmNativeRefund, RecordNativeRefund, Confirmed
  <2>4. auth' \in [Voucher -> {"none", "DELIVERED", "REFUND"}]
    BY <1>20 DEF ConfirmNativeRefund, RecordNativeRefund, Authorize
  <2> QED
    BY <1>20, <2>1, <2>2, <2>3, <2>4 DEF ConfirmNativeRefund, RecordNativeRefund, Observed, Confirmed, Done
<1>21. ASSUME NEW v \in Voucher, ConfirmBaseRefund(v) PROVE TypeOK'
  <2>1. bundle' \in [Voucher -> Bundle \cup {None}]
    BY <1>21 DEF ConfirmBaseRefund, RecordBaseRefund, Confirmed
  <2>2. raw' \in [Voucher -> Retained \cup {"none", "sealed"}]
    BY <1>21 DEF ConfirmBaseRefund, RecordBaseRefund, Observed, Closing, Raw
  <2>3. state' \in [Voucher -> Pending \cup Over \cup {"NONE", "ESCROWED", "REDEEMING", "REFUNDING"}]
    BY <1>21 DEF ConfirmBaseRefund, RecordBaseRefund, Confirmed
  <2>4. auth' \in [Voucher -> {"none", "DELIVERED", "REFUND"}]
    BY <1>21 DEF ConfirmBaseRefund, RecordBaseRefund, Authorize
  <2> QED
    BY <1>21, <2>1, <2>2, <2>3, <2>4 DEF ConfirmBaseRefund, RecordBaseRefund, Observed, Confirmed, Done
<1>22. ASSUME NEW v \in Voucher, ConfirmStripeRefund(v) PROVE TypeOK'
  <2>1. bundle' \in [Voucher -> Bundle \cup {None}]
    BY <1>22 DEF ConfirmStripeRefund, RecordStripeRefund, Confirmed
  <2>2. raw' \in [Voucher -> Retained \cup {"none", "sealed"}]
    BY <1>22 DEF ConfirmStripeRefund, RecordStripeRefund, Observed, Closing, Raw
  <2>3. state' \in [Voucher -> Pending \cup Over \cup {"NONE", "ESCROWED", "REDEEMING", "REFUNDING"}]
    BY <1>22 DEF ConfirmStripeRefund, RecordStripeRefund, Confirmed
  <2>4. auth' \in [Voucher -> {"none", "DELIVERED", "REFUND"}]
    BY <1>22 DEF ConfirmStripeRefund, RecordStripeRefund, Authorize
  <2> QED
    BY <1>22, <2>1, <2>2, <2>3, <2>4 DEF ConfirmStripeRefund, RecordStripeRefund, Observed, Confirmed, Done
<1>23. ASSUME NEW v \in Voucher, CloseExecution(v) PROVE TypeOK'
  BY <1>23 DEF CloseExecution, Working, Done, Pinned, Raw
<1>24. ASSUME NEW v \in Voucher, ClaimDirect(v) PROVE TypeOK'
  BY <1>24 DEF ClaimDirect, Lease, Busy, Raw, Pinned, Pending
<1>25. ASSUME NEW v \in Voucher, Acknowledge(v) PROVE TypeOK'
  BY <1>25 DEF Acknowledge
<1>26. ASSUME NEW v \in Voucher, MineFunding(v) PROVE TypeOK'
  BY <1>26 DEF MineFunding
<1>27. ASSUME NEW target \in {"LIVE", "CANCELED"}, RetainPhase(target) PROVE TypeOK'
  BY <1>27 DEF RetainPhase, Campaign, Busy, Pinned, Raw, Pending, Tip
<1>28. ASSUME SignPhase PROVE TypeOK'
  <2>1. campaign \in Campaign
    BY <1>28 DEF SignPhase
  <2>2. campaign' \in Campaign
    BY <1>28, <2>1 DEF SignPhase, Campaign
  <2>3. Phase(campaign) \in Bundle
    BY <2>1 DEF Phase, Campaign
  <2> QED
    BY <1>28, <2>2, <2>3 DEF SignPhase
<1>29. ASSUME PushPhase PROVE TypeOK'
  BY <1>29 DEF PushPhase, Campaign, Phase, Mined, Tip
<1>30. ASSUME ConfirmPhase PROVE TypeOK'
  BY <1>30 DEF ConfirmPhase, Campaign, Phase, Mined, Tip
<1>31. ASSUME ArchivePhase PROVE TypeOK'
  BY <1>31 DEF ArchivePhase, Tip
<1>32. ASSUME Lapse PROVE TypeOK'
  BY <1>32 DEF Lapse
<1>33. ASSUME Tick PROVE TypeOK'
  BY <1>33 DEF Tick
<1>34. ASSUME LaunchLapses PROVE TypeOK'
  BY <1>34 DEF LaunchLapses, Campaign, Phase
<1>35. ASSUME NEW b \in pool, Mine(b) PROVE TypeOK'
  BY <1>35 DEF Mine, Tip, Admitted
<1> HIDE DEF TypeOK, Spend, Bundle, Terminals, Refunds, Retained, Pending, Over, chainVars, seriesVars, voucherVars, payVars, vars
<1> QED
  BY <1>1, <1>2, <1>3, <1>4, <1>5, <1>6, <1>7, <1>8, <1>9, <1>10, <1>11, <1>12, <1>13, <1>14, <1>15, <1>16, <1>17, <1>18, <1>19, <1>20, <1>21, <1>22, <1>23, <1>24, <1>25, <1>26, <1>27, <1>28, <1>29, <1>30, <1>31, <1>32, <1>33, <1>34, <1>35 DEF Next, Work, SubmitRedemption, SubmitExpiredRefund

LEMMA ExclusiveStep ==
  ASSUME TypeOK, Exclusive, Next PROVE Exclusive'
<1> USE NoneAssumption DEF TypeOK, Lease, Campaign, Exclusive, Busy, Pinned, Raw, Retained, chainVars, seriesVars, voucherVars, payVars, vars
<1>1. ASSUME NEW v \in Voucher, IngestBase(v) PROVE Exclusive'
  BY <1>1 DEF IngestBase
<1>2. ASSUME NEW v \in Voucher, CheckStripe(v) PROVE Exclusive'
  BY <1>2 DEF CheckStripe
<1>3. ASSUME NEW v \in Voucher, IngestStripe(v) PROVE Exclusive'
  BY <1>3 DEF IngestStripe
<1>4. ASSUME NEW v \in Voucher, Claim(v) PROVE Exclusive'
  BY <1>4 DEF Claim, Lease, Raw, Lane, Busy, Pinned
<1>5. ASSUME NEW v \in Voucher, FundLauncher(v) PROVE Exclusive'
  BY <1>5 DEF FundLauncher, Working, Done
<1>6. ASSUME NEW v \in Voucher, ConfirmFunding(v) PROVE Exclusive'
  BY <1>6 DEF ConfirmFunding, Working, Done
<1>7. ASSUME NEW v \in Voucher, ResumeFunding(v) PROVE Exclusive'
  BY <1>7 DEF ResumeFunding, Working, Done
<1>8. ASSUME NEW v \in Voucher, SubmitIssuance(v) PROVE Exclusive'
  BY <1>8 DEF SubmitIssuance, Dispatch, BoundState, Done, Working
<1>9. ASSUME NEW v \in Voucher, SubmitNativeRedemption(v) PROVE Exclusive'
  BY <1>9 DEF SubmitNativeRedemption, Deliverable, Dispatch, BoundState, Done, Working
<1>10. ASSUME NEW v \in Voucher, SubmitBaseRedemption(v) PROVE Exclusive'
  BY <1>10 DEF SubmitBaseRedemption, Deliverable, Dispatch, BoundState, Done, Working
<1>11. ASSUME NEW v \in Voucher, SubmitStripeRedemption(v) PROVE Exclusive'
  BY <1>11 DEF SubmitStripeRedemption, Deliverable, Seal, Done, Working
<1>12. ASSUME NEW v \in Voucher, SubmitNativeExpiredRefund(v) PROVE Exclusive'
  BY <1>12 DEF SubmitNativeExpiredRefund, Expired, Dispatch, BoundState, Done, Working
<1>13. ASSUME NEW v \in Voucher, SubmitBaseExpiredRefund(v) PROVE Exclusive'
  BY <1>13 DEF SubmitBaseExpiredRefund, Expired, Dispatch, BoundState, Done, Working
<1>14. ASSUME NEW v \in Voucher, SubmitStripeExpiredRefund(v) PROVE Exclusive'
  BY <1>14 DEF SubmitStripeExpiredRefund, Expired, Seal, Done, Working
<1>15. ASSUME NEW v \in Voucher, OwnerRefund(v) PROVE Exclusive'
  BY <1>15 DEF OwnerRefund, Refundable, Seal, RefundAction, Dispatch, BoundState, Done, Working
<1>16. ASSUME NEW v \in Voucher, Resume(v) PROVE Exclusive'
  BY <1>16 DEF Resume, Working, Done, Raw, Pinned, BoundState
<1>17. ASSUME NEW v \in Voucher, ResumeStripe(v) PROVE Exclusive'
  BY <1>17 DEF ResumeStripe, Working, Done, Raw, Pinned, BoundState
<1>18. ASSUME NEW v \in Voucher, ConfirmIssuance(v) PROVE Exclusive'
  BY <1>18 DEF ConfirmIssuance, RecordIssued, Observed, Confirmed, Closing, Working, Done, Raw, Pinned, Mined, Tip
<1>19. ASSUME NEW v \in Voucher, ConfirmRedemption(v) PROVE Exclusive'
  BY <1>19 DEF ConfirmRedemption, RecordRedeemed, Authorize, Observed, Confirmed, Closing, Working, Done, Raw, Pinned, Mined, Tip
<1>20. ASSUME NEW v \in Voucher, ConfirmNativeRefund(v) PROVE Exclusive'
  BY <1>20 DEF ConfirmNativeRefund, RecordNativeRefund, Observed, Confirmed, Closing, Working, Done, Raw, Pinned, Mined, Tip
<1>21. ASSUME NEW v \in Voucher, ConfirmBaseRefund(v) PROVE Exclusive'
  BY <1>21 DEF ConfirmBaseRefund, RecordBaseRefund, Authorize, Observed, Confirmed, Closing, Working, Done, Raw, Pinned, Mined, Tip
<1>22. ASSUME NEW v \in Voucher, ConfirmStripeRefund(v) PROVE Exclusive'
  BY <1>22 DEF ConfirmStripeRefund, RecordStripeRefund, Authorize, Observed, Confirmed, Closing, Working, Done, Raw, Pinned, Mined, Tip
<1>23. ASSUME NEW v \in Voucher, CloseExecution(v) PROVE Exclusive'
  BY <1>23 DEF CloseExecution, Working, Done, Pinned, Raw
<1>24. ASSUME NEW v \in Voucher, ClaimDirect(v) PROVE Exclusive'
  BY <1>24 DEF ClaimDirect, Lease, Busy, Raw, Pinned, Pending
<1>25. ASSUME NEW v \in Voucher, Acknowledge(v) PROVE Exclusive'
  BY <1>25 DEF Acknowledge
<1>26. ASSUME NEW v \in Voucher, MineFunding(v) PROVE Exclusive'
  BY <1>26 DEF MineFunding
<1>27. ASSUME NEW target \in {"LIVE", "CANCELED"}, RetainPhase(target) PROVE Exclusive'
  BY <1>27 DEF RetainPhase, Campaign, Busy, Pinned, Raw, Pending, Tip
<1>28. ASSUME SignPhase PROVE Exclusive'
  BY <1>28 DEF SignPhase, Phase
<1>29. ASSUME PushPhase PROVE Exclusive'
  BY <1>29 DEF PushPhase, Campaign, Phase, Mined, Tip
<1>30. ASSUME ConfirmPhase PROVE Exclusive'
  BY <1>30 DEF ConfirmPhase, Campaign, Phase, Mined, Tip
<1>31. ASSUME ArchivePhase PROVE Exclusive'
  BY <1>31 DEF ArchivePhase, Tip
<1>32. ASSUME Lapse PROVE Exclusive'
  BY <1>32 DEF Lapse
<1>33. ASSUME Tick PROVE Exclusive'
  BY <1>33 DEF Tick
<1>34. ASSUME LaunchLapses PROVE Exclusive'
  BY <1>34 DEF LaunchLapses, Campaign, Phase
<1>35. ASSUME NEW b \in pool, Mine(b) PROVE Exclusive'
  BY <1>35 DEF Mine, Tip, Admitted
<1> HIDE DEF TypeOK, Lease, Campaign, Exclusive, Busy, Pinned, Raw, Retained, chainVars, seriesVars, voucherVars, payVars, vars
<1> QED
  BY <1>1, <1>2, <1>3, <1>4, <1>5, <1>6, <1>7, <1>8, <1>9, <1>10, <1>11, <1>12, <1>13, <1>14, <1>15, <1>16, <1>17, <1>18, <1>19, <1>20, <1>21, <1>22, <1>23, <1>24, <1>25, <1>26, <1>27, <1>28, <1>29, <1>30, <1>31, <1>32, <1>33, <1>34, <1>35 DEF Next, Work, SubmitRedemption, SubmitExpiredRefund

LEMMA BoundStep ==
  ASSUME TypeOK, Exclusive, Bound, Next PROVE Bound'
<1> USE NoneAssumption DEF TypeOK, Lease, Campaign, Bundle, Exclusive, Bound, Busy, Pinned, Raw, Retained, chainVars, seriesVars, voucherVars, payVars, vars
<1>1. ASSUME NEW v \in Voucher, IngestBase(v) PROVE Bound'
  BY <1>1 DEF IngestBase
<1>2. ASSUME NEW v \in Voucher, CheckStripe(v) PROVE Bound'
  BY <1>2 DEF CheckStripe
<1>3. ASSUME NEW v \in Voucher, IngestStripe(v) PROVE Bound'
  BY <1>3 DEF IngestStripe
<1>4. ASSUME NEW v \in Voucher, Claim(v) PROVE Bound'
  BY <1>4 DEF Claim, Lease, Raw, Lane, Busy, Pinned
<1>5. ASSUME NEW v \in Voucher, FundLauncher(v) PROVE Bound'
  BY <1>5 DEF FundLauncher, Working, Done
<1>6. ASSUME NEW v \in Voucher, ConfirmFunding(v) PROVE Bound'
  BY <1>6 DEF ConfirmFunding, Working, Done
<1>7. ASSUME NEW v \in Voucher, ResumeFunding(v) PROVE Bound'
  BY <1>7 DEF ResumeFunding, Working, Done
<1>8. ASSUME NEW v \in Voucher, SubmitIssuance(v) PROVE Bound'
  BY <1>8 DEF SubmitIssuance, Dispatch, BoundState, Done, Working
<1>9. ASSUME NEW v \in Voucher, SubmitNativeRedemption(v) PROVE Bound'
  BY <1>9 DEF SubmitNativeRedemption, Deliverable, Dispatch, BoundState, Done, Working
<1>10. ASSUME NEW v \in Voucher, SubmitBaseRedemption(v) PROVE Bound'
  BY <1>10 DEF SubmitBaseRedemption, Deliverable, Dispatch, BoundState, Done, Working
<1>11. ASSUME NEW v \in Voucher, SubmitStripeRedemption(v) PROVE Bound'
  BY <1>11 DEF SubmitStripeRedemption, Deliverable, Seal, Done, Working
<1>12. ASSUME NEW v \in Voucher, SubmitNativeExpiredRefund(v) PROVE Bound'
  BY <1>12 DEF SubmitNativeExpiredRefund, Expired, Dispatch, BoundState, Done, Working
<1>13. ASSUME NEW v \in Voucher, SubmitBaseExpiredRefund(v) PROVE Bound'
  BY <1>13 DEF SubmitBaseExpiredRefund, Expired, Dispatch, BoundState, Done, Working
<1>14. ASSUME NEW v \in Voucher, SubmitStripeExpiredRefund(v) PROVE Bound'
  BY <1>14 DEF SubmitStripeExpiredRefund, Expired, Seal, Done, Working
<1>15. ASSUME NEW v \in Voucher, OwnerRefund(v) PROVE Bound'
  BY <1>15 DEF OwnerRefund, Refundable, Seal, RefundAction, Dispatch, BoundState, Done, Working
<1>16. ASSUME NEW v \in Voucher, Resume(v) PROVE Bound'
  BY <1>16 DEF Resume, Working, Done, Raw, Pinned, BoundState
<1>17. ASSUME NEW v \in Voucher, ResumeStripe(v) PROVE Bound'
  BY <1>17 DEF ResumeStripe, Working, Done, Raw, Pinned, BoundState
<1>18. ASSUME NEW v \in Voucher, ConfirmIssuance(v) PROVE Bound'
  BY <1>18 DEF ConfirmIssuance, RecordIssued, Observed, Confirmed, Closing, Working, Done, Raw, Pinned, Mined, Tip
<1>19. ASSUME NEW v \in Voucher, ConfirmRedemption(v) PROVE Bound'
  BY <1>19 DEF ConfirmRedemption, RecordRedeemed, Authorize, Observed, Confirmed, Closing, Working, Done, Raw, Pinned, Mined, Tip
<1>20. ASSUME NEW v \in Voucher, ConfirmNativeRefund(v) PROVE Bound'
  BY <1>20 DEF ConfirmNativeRefund, RecordNativeRefund, Observed, Confirmed, Closing, Working, Done, Raw, Pinned, Mined, Tip
<1>21. ASSUME NEW v \in Voucher, ConfirmBaseRefund(v) PROVE Bound'
  BY <1>21 DEF ConfirmBaseRefund, RecordBaseRefund, Authorize, Observed, Confirmed, Closing, Working, Done, Raw, Pinned, Mined, Tip
<1>22. ASSUME NEW v \in Voucher, ConfirmStripeRefund(v) PROVE Bound'
  BY <1>22 DEF ConfirmStripeRefund, RecordStripeRefund, Authorize, Observed, Confirmed, Closing, Working, Done, Raw, Pinned, Mined, Tip
<1>23. ASSUME NEW v \in Voucher, CloseExecution(v) PROVE Bound'
  BY <1>23 DEF CloseExecution, Working, Done, Pinned, Raw
<1>24. ASSUME NEW v \in Voucher, ClaimDirect(v) PROVE Bound'
  BY <1>24 DEF ClaimDirect, Lease, Busy, Raw, Pinned, Pending
<1>25. ASSUME NEW v \in Voucher, Acknowledge(v) PROVE Bound'
  BY <1>25 DEF Acknowledge
<1>26. ASSUME NEW v \in Voucher, MineFunding(v) PROVE Bound'
  BY <1>26 DEF MineFunding
<1>27. ASSUME NEW target \in {"LIVE", "CANCELED"}, RetainPhase(target) PROVE Bound'
  BY <1>27 DEF RetainPhase, Campaign, Busy, Pinned, Raw, Pending, Tip
<1>28. ASSUME SignPhase PROVE Bound'
  BY <1>28 DEF SignPhase, Phase
<1>29. ASSUME PushPhase PROVE Bound'
  BY <1>29 DEF PushPhase, Campaign, Phase, Mined, Tip
<1>30. ASSUME ConfirmPhase PROVE Bound'
  BY <1>30 DEF ConfirmPhase, Campaign, Phase, Mined, Tip
<1>31. ASSUME ArchivePhase PROVE Bound'
  BY <1>31 DEF ArchivePhase, Tip
<1>32. ASSUME Lapse PROVE Bound'
  BY <1>32 DEF Lapse
<1>33. ASSUME Tick PROVE Bound'
  BY <1>33 DEF Tick
<1>34. ASSUME LaunchLapses PROVE Bound'
  BY <1>34 DEF LaunchLapses, Campaign, Phase
<1>35. ASSUME NEW b \in pool, Mine(b) PROVE Bound'
  BY <1>35 DEF Mine, Tip, Admitted
<1> HIDE DEF TypeOK, Lease, Campaign, Bundle, Exclusive, Bound, Busy, Pinned, Raw, Retained, chainVars, seriesVars, voucherVars, payVars, vars
<1> QED
  BY <1>1, <1>2, <1>3, <1>4, <1>5, <1>6, <1>7, <1>8, <1>9, <1>10, <1>11, <1>12, <1>13, <1>14, <1>15, <1>16, <1>17, <1>18, <1>19, <1>20, <1>21, <1>22, <1>23, <1>24, <1>25, <1>26, <1>27, <1>28, <1>29, <1>30, <1>31, <1>32, <1>33, <1>34, <1>35 DEF Next, Work, SubmitRedemption, SubmitExpiredRefund

LEMMA UnderWayStep ==
  ASSUME TypeOK, Exclusive, UnderWay, Next PROVE UnderWay'
<1> USE NoneAssumption DEF TypeOK, Lease, Campaign, Exclusive, UnderWay, Busy, Pinned, Raw, Retained, Over, Pending, chainVars, seriesVars, voucherVars, payVars, vars
<1>1. ASSUME NEW v \in Voucher, IngestBase(v) PROVE UnderWay'
  BY <1>1 DEF IngestBase
<1>2. ASSUME NEW v \in Voucher, CheckStripe(v) PROVE UnderWay'
  BY <1>2 DEF CheckStripe
<1>3. ASSUME NEW v \in Voucher, IngestStripe(v) PROVE UnderWay'
  BY <1>3 DEF IngestStripe
<1>4. ASSUME NEW v \in Voucher, Claim(v) PROVE UnderWay'
  BY <1>4 DEF Claim, Lease, Raw, Lane, Busy, Pinned
<1>5. ASSUME NEW v \in Voucher, FundLauncher(v) PROVE UnderWay'
  BY <1>5 DEF FundLauncher, Working, Done
<1>6. ASSUME NEW v \in Voucher, ConfirmFunding(v) PROVE UnderWay'
  BY <1>6 DEF ConfirmFunding, Working, Done
<1>7. ASSUME NEW v \in Voucher, ResumeFunding(v) PROVE UnderWay'
  BY <1>7 DEF ResumeFunding, Working, Done
<1>8. ASSUME NEW v \in Voucher, SubmitIssuance(v) PROVE UnderWay'
  BY <1>8 DEF SubmitIssuance, Dispatch, BoundState, Done, Working
<1>9. ASSUME NEW v \in Voucher, SubmitNativeRedemption(v) PROVE UnderWay'
  BY <1>9 DEF SubmitNativeRedemption, Deliverable, Dispatch, BoundState, Done, Working
<1>10. ASSUME NEW v \in Voucher, SubmitBaseRedemption(v) PROVE UnderWay'
  BY <1>10 DEF SubmitBaseRedemption, Deliverable, Dispatch, BoundState, Done, Working
<1>11. ASSUME NEW v \in Voucher, SubmitStripeRedemption(v) PROVE UnderWay'
  BY <1>11 DEF SubmitStripeRedemption, Deliverable, Seal, Done, Working
<1>12. ASSUME NEW v \in Voucher, SubmitNativeExpiredRefund(v) PROVE UnderWay'
  BY <1>12 DEF SubmitNativeExpiredRefund, Expired, Dispatch, BoundState, Done, Working
<1>13. ASSUME NEW v \in Voucher, SubmitBaseExpiredRefund(v) PROVE UnderWay'
  BY <1>13 DEF SubmitBaseExpiredRefund, Expired, Dispatch, BoundState, Done, Working
<1>14. ASSUME NEW v \in Voucher, SubmitStripeExpiredRefund(v) PROVE UnderWay'
  BY <1>14 DEF SubmitStripeExpiredRefund, Expired, Seal, Done, Working
<1>15. ASSUME NEW v \in Voucher, OwnerRefund(v) PROVE UnderWay'
  BY <1>15 DEF OwnerRefund, Refundable, Seal, RefundAction, Dispatch, BoundState, Done, Working
<1>16. ASSUME NEW v \in Voucher, Resume(v) PROVE UnderWay'
  BY <1>16 DEF Resume, Working, Done, Raw, Pinned, BoundState
<1>17. ASSUME NEW v \in Voucher, ResumeStripe(v) PROVE UnderWay'
  BY <1>17 DEF ResumeStripe, Working, Done, Raw, Pinned, BoundState
<1>18. ASSUME NEW v \in Voucher, ConfirmIssuance(v) PROVE UnderWay'
  BY <1>18 DEF ConfirmIssuance, RecordIssued, Observed, Confirmed, Closing, Working, Done, Raw, Pinned, Mined, Tip
<1>19. ASSUME NEW v \in Voucher, ConfirmRedemption(v) PROVE UnderWay'
  BY <1>19 DEF ConfirmRedemption, RecordRedeemed, Authorize, Observed, Confirmed, Closing, Working, Done, Raw, Pinned, Mined, Tip
<1>20. ASSUME NEW v \in Voucher, ConfirmNativeRefund(v) PROVE UnderWay'
  BY <1>20 DEF ConfirmNativeRefund, RecordNativeRefund, Observed, Confirmed, Closing, Working, Done, Raw, Pinned, Mined, Tip
<1>21. ASSUME NEW v \in Voucher, ConfirmBaseRefund(v) PROVE UnderWay'
  BY <1>21 DEF ConfirmBaseRefund, RecordBaseRefund, Authorize, Observed, Confirmed, Closing, Working, Done, Raw, Pinned, Mined, Tip
<1>22. ASSUME NEW v \in Voucher, ConfirmStripeRefund(v) PROVE UnderWay'
  BY <1>22 DEF ConfirmStripeRefund, RecordStripeRefund, Authorize, Observed, Confirmed, Closing, Working, Done, Raw, Pinned, Mined, Tip
<1>23. ASSUME NEW v \in Voucher, CloseExecution(v) PROVE UnderWay'
  BY <1>23 DEF CloseExecution, Working, Done, Pinned, Raw
<1>24. ASSUME NEW v \in Voucher, ClaimDirect(v) PROVE UnderWay'
  BY <1>24 DEF ClaimDirect, Lease, Busy, Raw, Pinned, Pending
<1>25. ASSUME NEW v \in Voucher, Acknowledge(v) PROVE UnderWay'
  BY <1>25 DEF Acknowledge
<1>26. ASSUME NEW v \in Voucher, MineFunding(v) PROVE UnderWay'
  BY <1>26 DEF MineFunding
<1>27. ASSUME NEW target \in {"LIVE", "CANCELED"}, RetainPhase(target) PROVE UnderWay'
  BY <1>27 DEF RetainPhase, Campaign, Busy, Pinned, Raw, Pending, Tip
<1>28. ASSUME SignPhase PROVE UnderWay'
  BY <1>28 DEF SignPhase, Phase
<1>29. ASSUME PushPhase PROVE UnderWay'
  BY <1>29 DEF PushPhase, Campaign, Phase, Mined, Tip
<1>30. ASSUME ConfirmPhase PROVE UnderWay'
  BY <1>30 DEF ConfirmPhase, Campaign, Phase, Mined, Tip
<1>31. ASSUME ArchivePhase PROVE UnderWay'
  BY <1>31 DEF ArchivePhase, Tip
<1>32. ASSUME Lapse PROVE UnderWay'
  BY <1>32 DEF Lapse
<1>33. ASSUME Tick PROVE UnderWay'
  BY <1>33 DEF Tick
<1>34. ASSUME LaunchLapses PROVE UnderWay'
  BY <1>34 DEF LaunchLapses, Campaign, Phase
<1>35. ASSUME NEW b \in pool, Mine(b) PROVE UnderWay'
  BY <1>35 DEF Mine, Tip, Admitted
<1> HIDE DEF TypeOK, Lease, Campaign, Exclusive, UnderWay, Busy, Pinned, Raw, Retained, Over, Pending, chainVars, seriesVars, voucherVars, payVars, vars
<1> QED
  BY <1>1, <1>2, <1>3, <1>4, <1>5, <1>6, <1>7, <1>8, <1>9, <1>10, <1>11, <1>12, <1>13, <1>14, <1>15, <1>16, <1>17, <1>18, <1>19, <1>20, <1>21, <1>22, <1>23, <1>24, <1>25, <1>26, <1>27, <1>28, <1>29, <1>30, <1>31, <1>32, <1>33, <1>34, <1>35 DEF Next, Work, SubmitRedemption, SubmitExpiredRefund

LEMMA PoolStep ==
  ASSUME TypeOK, Exclusive, Bound, PoolIsRetained, OneBehind, Next PROVE PoolIsRetained'
<1> USE NoneAssumption, VoucherAssumption DEF TypeOK, OneBehind, Lease, Campaign, Spend, Bundle, Exclusive, Bound, PoolIsRetained, Busy, Pinned, Raw, Retained, Phase, Mined, Tip, chainVars, seriesVars, voucherVars, payVars, vars
<1>1. ASSUME NEW v \in Voucher, IngestBase(v) PROVE PoolIsRetained'
  BY <1>1 DEF IngestBase
<1>2. ASSUME NEW v \in Voucher, CheckStripe(v) PROVE PoolIsRetained'
  BY <1>2 DEF CheckStripe
<1>3. ASSUME NEW v \in Voucher, IngestStripe(v) PROVE PoolIsRetained'
  BY <1>3 DEF IngestStripe
<1>4. ASSUME NEW v \in Voucher, Claim(v) PROVE PoolIsRetained'
  BY <1>4 DEF Claim, Lease, Raw, Lane, Busy, Pinned
<1>5. ASSUME NEW v \in Voucher, FundLauncher(v) PROVE PoolIsRetained'
  BY <1>5 DEF FundLauncher, Working, Done
<1>6. ASSUME NEW v \in Voucher, ConfirmFunding(v) PROVE PoolIsRetained'
  BY <1>6 DEF ConfirmFunding, Working, Done
<1>7. ASSUME NEW v \in Voucher, ResumeFunding(v) PROVE PoolIsRetained'
  BY <1>7 DEF ResumeFunding, Working, Done
<1>8. ASSUME NEW v \in Voucher, SubmitIssuance(v) PROVE PoolIsRetained'
  BY <1>8, DispatchPool DEF SubmitIssuance, Terminals, Refunds, RefundAction
<1>9. ASSUME NEW v \in Voucher, SubmitNativeRedemption(v) PROVE PoolIsRetained'
  BY <1>9, DispatchPool DEF SubmitNativeRedemption, Terminals, Refunds, RefundAction
<1>10. ASSUME NEW v \in Voucher, SubmitBaseRedemption(v) PROVE PoolIsRetained'
  BY <1>10, DispatchPool DEF SubmitBaseRedemption, Terminals, Refunds, RefundAction
<1>11. ASSUME NEW v \in Voucher, SubmitStripeRedemption(v) PROVE PoolIsRetained'
  BY <1>11, DispatchPool DEF SubmitStripeRedemption, Terminals, Refunds, RefundAction
<1>12. ASSUME NEW v \in Voucher, SubmitNativeExpiredRefund(v) PROVE PoolIsRetained'
  BY <1>12, DispatchPool DEF SubmitNativeExpiredRefund, Terminals, Refunds, RefundAction
<1>13. ASSUME NEW v \in Voucher, SubmitBaseExpiredRefund(v) PROVE PoolIsRetained'
  BY <1>13, DispatchPool DEF SubmitBaseExpiredRefund, Terminals, Refunds, RefundAction
<1>14. ASSUME NEW v \in Voucher, SubmitStripeExpiredRefund(v) PROVE PoolIsRetained'
  BY <1>14, DispatchPool DEF SubmitStripeExpiredRefund, Terminals, Refunds, RefundAction
<1>15. ASSUME NEW v \in Voucher, OwnerRefund(v) PROVE PoolIsRetained'
  BY <1>15, DispatchPool DEF OwnerRefund, Terminals, Refunds, RefundAction
<1>16. ASSUME NEW v \in Voucher, Resume(v) PROVE PoolIsRetained'
  <2>1. bundle[v] \in Bundle /\ bundle[v].coin = current /\ current <= Tip
    BY <1>16 DEF Resume
  <2>2. pool' = pool \cup {bundle[v]} /\ Tip' = Tip /\ UNCHANGED <<bundle, campaign>>
    BY <1>16 DEF Resume
  <2> HIDE DEF TypeOK, Mined, Phase
  <2> QED
    BY <2>1, <2>2
<1>17. ASSUME NEW v \in Voucher, ResumeStripe(v) PROVE PoolIsRetained'
  <2>1. bundle[v] \in Bundle /\ bundle[v].coin = current /\ current <= Tip
    BY <1>17 DEF ResumeStripe
  <2>2. pool' = pool \cup {bundle[v]} /\ Tip' = Tip /\ UNCHANGED <<bundle, campaign>>
    BY <1>17 DEF ResumeStripe
  <2> HIDE DEF TypeOK, Mined, Phase
  <2> QED
    BY <2>1, <2>2
<1>18. ASSUME NEW v \in Voucher, ConfirmIssuance(v) PROVE PoolIsRetained'
  BY <1>18 DEF ConfirmIssuance, RecordIssued, Observed, Confirmed, Closing, Working, Done, Raw, Pinned, Mined, Tip
<1>19. ASSUME NEW v \in Voucher, ConfirmRedemption(v) PROVE PoolIsRetained'
  BY <1>19 DEF ConfirmRedemption, RecordRedeemed, Authorize, Observed, Confirmed, Closing, Working, Done, Raw, Pinned, Mined, Tip
<1>20. ASSUME NEW v \in Voucher, ConfirmNativeRefund(v) PROVE PoolIsRetained'
  BY <1>20 DEF ConfirmNativeRefund, RecordNativeRefund, Observed, Confirmed, Closing, Working, Done, Raw, Pinned, Mined, Tip
<1>21. ASSUME NEW v \in Voucher, ConfirmBaseRefund(v) PROVE PoolIsRetained'
  BY <1>21 DEF ConfirmBaseRefund, RecordBaseRefund, Authorize, Observed, Confirmed, Closing, Working, Done, Raw, Pinned, Mined, Tip
<1>22. ASSUME NEW v \in Voucher, ConfirmStripeRefund(v) PROVE PoolIsRetained'
  BY <1>22 DEF ConfirmStripeRefund, RecordStripeRefund, Authorize, Observed, Confirmed, Closing, Working, Done, Raw, Pinned, Mined, Tip
<1>23. ASSUME NEW v \in Voucher, CloseExecution(v) PROVE PoolIsRetained'
  BY <1>23 DEF CloseExecution, Working, Done, Pinned, Raw
<1>24. ASSUME NEW v \in Voucher, ClaimDirect(v) PROVE PoolIsRetained'
  BY <1>24 DEF ClaimDirect, Lease, Busy, Raw, Pinned, Pending
<1>25. ASSUME NEW v \in Voucher, Acknowledge(v) PROVE PoolIsRetained'
  BY <1>25 DEF Acknowledge
<1>26. ASSUME NEW v \in Voucher, MineFunding(v) PROVE PoolIsRetained'
  BY <1>26 DEF MineFunding
<1>27. ASSUME NEW target \in {"LIVE", "CANCELED"}, RetainPhase(target) PROVE PoolIsRetained'
  BY <1>27 DEF RetainPhase, Campaign, Busy, Pinned, Raw, Pending, Tip
<1>28. ASSUME SignPhase PROVE PoolIsRetained'
  <2>1. campaign # None /\ ~campaign.lapsed /\ pool' \subseteq pool \cup {Phase(campaign)}
    BY <1>28 DEF SignPhase
  <2>2. campaign' # None /\ Phase(campaign') = Phase(campaign) /\ Phase(campaign).coin = current
    BY <1>28, <2>1, PhaseStays DEF SignPhase
  <2>3. ~campaign'.lapsed
    BY <1>28, <2>1 DEF SignPhase
  <2>4. Tip' = Tip /\ UNCHANGED bundle /\ current <= Tip
    BY <1>28 DEF SignPhase
  <2> QED
    BY <2>1, <2>2, <2>3, <2>4 DEF PoolIsRetained
<1>29. ASSUME PushPhase PROVE PoolIsRetained'
  <2>1. campaign # None /\ ~campaign.lapsed /\ pool' \subseteq pool \cup {Phase(campaign)}
    BY <1>29 DEF PushPhase
  <2>2. UNCHANGED <<campaign, bundle>> /\ Tip' = Tip /\ Phase(campaign).coin <= Tip
    BY <1>29, <2>1 DEF PushPhase
  <2> QED
    BY <2>1, <2>2 DEF PoolIsRetained
<1>30. ASSUME ConfirmPhase PROVE PoolIsRetained'
  <2>0. campaign \in Campaign /\ Phase(campaign).coin = current /\ campaign # None
    BY <1>30 DEF ConfirmPhase, Phase, Bound
  <2>1. ~\E w \in Voucher : Pinned(w)
    BY <1>30 DEF ConfirmPhase, Exclusive, Busy
  <2>2. \A b \in pool : b.coin <= Tip /\ b.coin # Tip
    BY <1>30, <2>0, <2>1 DEF Mined, PoolIsRetained, ConfirmPhase
  <2>3. campaign' = None /\ UNCHANGED <<chain, pool, bundle>>
    BY <1>30 DEF ConfirmPhase
  <2> QED
    BY <2>2, <2>3 DEF Tip
<1>31. ASSUME ArchivePhase PROVE PoolIsRetained'
  <2>1. ~\E w \in Voucher : Pinned(w)
    BY <1>31 DEF ArchivePhase, Exclusive, Busy
  <2>2. \A b \in pool : b.coin <= Tip /\ b.coin # Tip
    BY <1>31, <2>1 DEF ArchivePhase
  <2>3. campaign' = None /\ UNCHANGED <<chain, pool, bundle>>
    BY <1>31 DEF ArchivePhase
  <2> QED
    BY <2>2, <2>3 DEF Tip
<1>32. ASSUME Lapse PROVE PoolIsRetained'
  BY <1>32 DEF Lapse
<1>33. ASSUME Tick PROVE PoolIsRetained'
  BY <1>33 DEF Tick
<1>34. ASSUME LaunchLapses PROVE PoolIsRetained'
  BY <1>34 DEF LaunchLapses, Campaign, Phase
<1>35. ASSUME NEW b \in pool, Mine(b) PROVE PoolIsRetained'
  BY <1>35 DEF Mine, Tip, Admitted
<1> HIDE DEF TypeOK, OneBehind, Lease, Campaign, Spend, Bundle, Exclusive, Bound, PoolIsRetained, Busy, Pinned, Raw, Retained, Phase, Mined, Tip, chainVars, seriesVars, voucherVars, payVars, vars
<1> QED
  BY <1>1, <1>2, <1>3, <1>4, <1>5, <1>6, <1>7, <1>8, <1>9, <1>10, <1>11, <1>12, <1>13, <1>14, <1>15, <1>16, <1>17, <1>18, <1>19, <1>20, <1>21, <1>22, <1>23, <1>24, <1>25, <1>26, <1>27, <1>28, <1>29, <1>30, <1>31, <1>32, <1>33, <1>34, <1>35 DEF Next, Work, SubmitRedemption, SubmitExpiredRefund

LEMMA OneBehindStep ==
  ASSUME TypeOK, Exclusive, Bound, PoolIsRetained, OneBehind, Next PROVE OneBehind'
<1> USE NoneAssumption, VoucherAssumption DEF TypeOK, Lease, Campaign, Spend, Bundle, Exclusive, Bound, PoolIsRetained, OneBehind, Awaited, Busy, Pinned, Raw, Retained, Phase, Mined, Tip, chainVars, seriesVars, voucherVars, payVars, vars
<1>1. ASSUME NEW v \in Voucher, IngestBase(v) PROVE OneBehind'
  BY <1>1 DEF IngestBase
<1>2. ASSUME NEW v \in Voucher, CheckStripe(v) PROVE OneBehind'
  BY <1>2 DEF CheckStripe
<1>3. ASSUME NEW v \in Voucher, IngestStripe(v) PROVE OneBehind'
  BY <1>3 DEF IngestStripe
<1>4. ASSUME NEW v \in Voucher, Claim(v) PROVE OneBehind'
  BY <1>4 DEF Claim, Lease, Raw, Lane, Busy, Pinned
<1>5. ASSUME NEW v \in Voucher, FundLauncher(v) PROVE OneBehind'
  BY <1>5 DEF FundLauncher, Working, Done
<1>6. ASSUME NEW v \in Voucher, ConfirmFunding(v) PROVE OneBehind'
  BY <1>6 DEF ConfirmFunding, Working, Done
<1>7. ASSUME NEW v \in Voucher, ResumeFunding(v) PROVE OneBehind'
  BY <1>7 DEF ResumeFunding, Working, Done
<1>8. ASSUME NEW v \in Voucher, SubmitIssuance(v) PROVE OneBehind'
  BY <1>8 DEF SubmitIssuance, Dispatch, BoundState, Done, Working
<1>9. ASSUME NEW v \in Voucher, SubmitNativeRedemption(v) PROVE OneBehind'
  BY <1>9 DEF SubmitNativeRedemption, Deliverable, Dispatch, BoundState, Done, Working
<1>10. ASSUME NEW v \in Voucher, SubmitBaseRedemption(v) PROVE OneBehind'
  BY <1>10 DEF SubmitBaseRedemption, Deliverable, Dispatch, BoundState, Done, Working
<1>11. ASSUME NEW v \in Voucher, SubmitStripeRedemption(v) PROVE OneBehind'
  BY <1>11 DEF SubmitStripeRedemption, Deliverable, Seal, Done, Working
<1>12. ASSUME NEW v \in Voucher, SubmitNativeExpiredRefund(v) PROVE OneBehind'
  BY <1>12 DEF SubmitNativeExpiredRefund, Expired, Dispatch, BoundState, Done, Working
<1>13. ASSUME NEW v \in Voucher, SubmitBaseExpiredRefund(v) PROVE OneBehind'
  BY <1>13 DEF SubmitBaseExpiredRefund, Expired, Dispatch, BoundState, Done, Working
<1>14. ASSUME NEW v \in Voucher, SubmitStripeExpiredRefund(v) PROVE OneBehind'
  BY <1>14 DEF SubmitStripeExpiredRefund, Expired, Seal, Done, Working
<1>15. ASSUME NEW v \in Voucher, OwnerRefund(v) PROVE OneBehind'
  BY <1>15 DEF OwnerRefund, Refundable, Seal, RefundAction, Dispatch, BoundState, Done, Working
<1>16. ASSUME NEW v \in Voucher, Resume(v) PROVE OneBehind'
  BY <1>16 DEF Resume, Working, Done, Raw, Pinned, BoundState
<1>17. ASSUME NEW v \in Voucher, ResumeStripe(v) PROVE OneBehind'
  BY <1>17 DEF ResumeStripe, Working, Done, Raw, Pinned, BoundState
<1>18. ASSUME NEW v \in Voucher, ConfirmIssuance(v) PROVE OneBehind'
  BY <1>18 DEF ConfirmIssuance, RecordIssued, Observed, Confirmed, Closing, Working, Done, Raw, Pinned, Mined, Tip
<1>19. ASSUME NEW v \in Voucher, ConfirmRedemption(v) PROVE OneBehind'
  BY <1>19 DEF ConfirmRedemption, RecordRedeemed, Authorize, Observed, Confirmed, Closing, Working, Done, Raw, Pinned, Mined, Tip
<1>20. ASSUME NEW v \in Voucher, ConfirmNativeRefund(v) PROVE OneBehind'
  BY <1>20 DEF ConfirmNativeRefund, RecordNativeRefund, Observed, Confirmed, Closing, Working, Done, Raw, Pinned, Mined, Tip
<1>21. ASSUME NEW v \in Voucher, ConfirmBaseRefund(v) PROVE OneBehind'
  BY <1>21 DEF ConfirmBaseRefund, RecordBaseRefund, Authorize, Observed, Confirmed, Closing, Working, Done, Raw, Pinned, Mined, Tip
<1>22. ASSUME NEW v \in Voucher, ConfirmStripeRefund(v) PROVE OneBehind'
  BY <1>22 DEF ConfirmStripeRefund, RecordStripeRefund, Authorize, Observed, Confirmed, Closing, Working, Done, Raw, Pinned, Mined, Tip
<1>23. ASSUME NEW v \in Voucher, CloseExecution(v) PROVE OneBehind'
  BY <1>23 DEF CloseExecution, Working, Done, Pinned, Raw
<1>24. ASSUME NEW v \in Voucher, ClaimDirect(v) PROVE OneBehind'
  BY <1>24 DEF ClaimDirect, Lease, Busy, Raw, Pinned, Pending
<1>25. ASSUME NEW v \in Voucher, Acknowledge(v) PROVE OneBehind'
  BY <1>25 DEF Acknowledge
<1>26. ASSUME NEW v \in Voucher, MineFunding(v) PROVE OneBehind'
  BY <1>26 DEF MineFunding
<1>27. ASSUME NEW target \in {"LIVE", "CANCELED"}, RetainPhase(target) PROVE OneBehind'
  BY <1>27 DEF RetainPhase, Campaign, Busy, Pinned, Raw, Pending, Tip
<1>28. ASSUME SignPhase PROVE OneBehind'
  <2>1. campaign # None /\ campaign' # None /\ Phase(campaign') = Phase(campaign)
    BY <1>28, PhaseStays DEF SignPhase
  <2>2. UNCHANGED <<chain, current, bundle>>
    BY <1>28 DEF SignPhase
  <2> QED
    BY <2>1, <2>2 DEF OneBehind, Awaited
<1>29. ASSUME PushPhase PROVE OneBehind'
  BY <1>29 DEF PushPhase, Campaign, Phase, Mined, Tip
<1>30. ASSUME ConfirmPhase PROVE OneBehind'
  BY <1>30 DEF ConfirmPhase, Campaign, Phase, Mined, Tip
<1>31. ASSUME ArchivePhase PROVE OneBehind'
  BY <1>31 DEF ArchivePhase, Tip
<1>32. ASSUME Lapse PROVE OneBehind'
  BY <1>32 DEF Lapse
<1>33. ASSUME Tick PROVE OneBehind'
  BY <1>33 DEF Tick
<1>34. ASSUME LaunchLapses PROVE OneBehind'
  <2>1. campaign # None /\ campaign' # None /\ Phase(campaign') = Phase(campaign)
    BY <1>34, PhaseStays DEF LaunchLapses
  <2>2. UNCHANGED <<chain, current, bundle>>
    BY <1>34 DEF LaunchLapses
  <2> QED
    BY <2>1, <2>2 DEF OneBehind, Awaited
<1>35. ASSUME NEW b \in pool, Mine(b) PROVE OneBehind'
  <2>1. b.coin = Tip /\ b \in Bundle
    BY <1>35 DEF Mine
  <2>2. Tip' = Tip + 1 /\ Tip \in Nat /\ UNCHANGED <<current, bundle, campaign>>
    BY <1>35 DEF Mine
  <2>3. b.coin < Tip' /\ chain'[b.coin + 1] = b.spend
    BY <1>35, <2>1, <2>2 DEF Mine
  <2>4. Mined(b)'
    BY <2>1, <2>3 DEF Mined
  <2>5. \/ \E v \in Voucher : Pinned(v) /\ b = bundle[v]
        \/ campaign # None /\ b = Phase(campaign)
    BY <2>1 DEF PoolIsRetained
  <2>6. current = Tip
    BY <2>1, <2>5 DEF Bound, Phase
  <2> HIDE DEF Mined, Phase, Tip, TypeOK, PoolIsRetained
  <2>7. Awaited'
    BY <2>2, <2>4, <2>5 DEF Awaited, Pinned
  <2> QED
    BY <2>2, <2>6, <2>7 DEF OneBehind
<1> HIDE DEF TypeOK, Lease, Campaign, Spend, Bundle, Exclusive, Bound, PoolIsRetained, OneBehind, Awaited, Busy, Pinned, Raw, Retained, Phase, Mined, Tip, chainVars, seriesVars, voucherVars, payVars, vars
<1> QED
  BY <1>1, <1>2, <1>3, <1>4, <1>5, <1>6, <1>7, <1>8, <1>9, <1>10, <1>11, <1>12, <1>13, <1>14, <1>15, <1>16, <1>17, <1>18, <1>19, <1>20, <1>21, <1>22, <1>23, <1>24, <1>25, <1>26, <1>27, <1>28, <1>29, <1>30, <1>31, <1>32, <1>33, <1>34, <1>35 DEF Next, Work, SubmitRedemption, SubmitExpiredRefund

LEMMA SeriesStep ==
  ASSUME TypeOK, Exclusive, Bound, OneBehind, SeriesFollows, Next PROVE SeriesFollows'
<1> USE NoneAssumption, VoucherAssumption DEF TypeOK, Lease, Campaign, Spend, Bundle, Terminals, Refunds, Exclusive, Bound, OneBehind, SeriesFollows, Before, Busy, Pinned, Raw, Retained, Phase, Mined, Tip, chainVars, seriesVars, voucherVars, payVars, vars
<1>1. ASSUME NEW v \in Voucher, IngestBase(v) PROVE SeriesFollows'
  BY <1>1 DEF IngestBase
<1>2. ASSUME NEW v \in Voucher, CheckStripe(v) PROVE SeriesFollows'
  BY <1>2 DEF CheckStripe
<1>3. ASSUME NEW v \in Voucher, IngestStripe(v) PROVE SeriesFollows'
  BY <1>3 DEF IngestStripe
<1>4. ASSUME NEW v \in Voucher, Claim(v) PROVE SeriesFollows'
  BY <1>4 DEF Claim, Lease, Raw, Lane, Busy, Pinned
<1>5. ASSUME NEW v \in Voucher, FundLauncher(v) PROVE SeriesFollows'
  BY <1>5 DEF FundLauncher, Working, Done
<1>6. ASSUME NEW v \in Voucher, ConfirmFunding(v) PROVE SeriesFollows'
  BY <1>6 DEF ConfirmFunding, Working, Done
<1>7. ASSUME NEW v \in Voucher, ResumeFunding(v) PROVE SeriesFollows'
  BY <1>7 DEF ResumeFunding, Working, Done
<1>8. ASSUME NEW v \in Voucher, SubmitIssuance(v) PROVE SeriesFollows'
  BY <1>8 DEF SubmitIssuance, Dispatch, BoundState, Done, Working
<1>9. ASSUME NEW v \in Voucher, SubmitNativeRedemption(v) PROVE SeriesFollows'
  BY <1>9 DEF SubmitNativeRedemption, Deliverable, Dispatch, BoundState, Done, Working
<1>10. ASSUME NEW v \in Voucher, SubmitBaseRedemption(v) PROVE SeriesFollows'
  BY <1>10 DEF SubmitBaseRedemption, Deliverable, Dispatch, BoundState, Done, Working
<1>11. ASSUME NEW v \in Voucher, SubmitStripeRedemption(v) PROVE SeriesFollows'
  BY <1>11 DEF SubmitStripeRedemption, Deliverable, Seal, Done, Working
<1>12. ASSUME NEW v \in Voucher, SubmitNativeExpiredRefund(v) PROVE SeriesFollows'
  BY <1>12 DEF SubmitNativeExpiredRefund, Expired, Dispatch, BoundState, Done, Working
<1>13. ASSUME NEW v \in Voucher, SubmitBaseExpiredRefund(v) PROVE SeriesFollows'
  BY <1>13 DEF SubmitBaseExpiredRefund, Expired, Dispatch, BoundState, Done, Working
<1>14. ASSUME NEW v \in Voucher, SubmitStripeExpiredRefund(v) PROVE SeriesFollows'
  BY <1>14 DEF SubmitStripeExpiredRefund, Expired, Seal, Done, Working
<1>15. ASSUME NEW v \in Voucher, OwnerRefund(v) PROVE SeriesFollows'
  BY <1>15 DEF OwnerRefund, Refundable, Seal, RefundAction, Dispatch, BoundState, Done, Working
<1>16. ASSUME NEW v \in Voucher, Resume(v) PROVE SeriesFollows'
  BY <1>16 DEF Resume, Working, Done, Raw, Pinned, BoundState
<1>17. ASSUME NEW v \in Voucher, ResumeStripe(v) PROVE SeriesFollows'
  BY <1>17 DEF ResumeStripe, Working, Done, Raw, Pinned, BoundState
<1>18. ASSUME NEW v \in Voucher, ConfirmIssuance(v) PROVE SeriesFollows'
  <2>1. Pinned(v) /\ Mined(bundle[v]) /\ UNCHANGED <<chain, series>>
    BY <1>18 DEF ConfirmIssuance, RecordIssued, Observed
  <2> HIDE DEF TypeOK, Bound, SeriesFollows, Pinned, Mined
  <2> QED
    BY <1>18, <2>1, ConfirmSeries DEF ConfirmIssuance, RecordIssued
<1>19. ASSUME NEW v \in Voucher, ConfirmRedemption(v) PROVE SeriesFollows'
  <2>1. Pinned(v) /\ Mined(bundle[v]) /\ UNCHANGED <<chain, series>>
    BY <1>19 DEF ConfirmRedemption, RecordRedeemed, Observed
  <2> HIDE DEF TypeOK, Bound, SeriesFollows, Pinned, Mined
  <2> QED
    BY <1>19, <2>1, ConfirmSeries DEF ConfirmRedemption, RecordRedeemed
<1>20. ASSUME NEW v \in Voucher, ConfirmNativeRefund(v) PROVE SeriesFollows'
  <2>1. Pinned(v) /\ Mined(bundle[v]) /\ UNCHANGED <<chain, series>>
    BY <1>20 DEF ConfirmNativeRefund, RecordNativeRefund, Observed
  <2> HIDE DEF TypeOK, Bound, SeriesFollows, Pinned, Mined
  <2> QED
    BY <1>20, <2>1, ConfirmSeries DEF ConfirmNativeRefund, RecordNativeRefund
<1>21. ASSUME NEW v \in Voucher, ConfirmBaseRefund(v) PROVE SeriesFollows'
  <2>1. Pinned(v) /\ Mined(bundle[v]) /\ UNCHANGED <<chain, series>>
    BY <1>21 DEF ConfirmBaseRefund, RecordBaseRefund, Observed
  <2> HIDE DEF TypeOK, Bound, SeriesFollows, Pinned, Mined
  <2> QED
    BY <1>21, <2>1, ConfirmSeries DEF ConfirmBaseRefund, RecordBaseRefund
<1>22. ASSUME NEW v \in Voucher, ConfirmStripeRefund(v) PROVE SeriesFollows'
  <2>1. Pinned(v) /\ Mined(bundle[v]) /\ UNCHANGED <<chain, series>>
    BY <1>22 DEF ConfirmStripeRefund, RecordStripeRefund, Observed
  <2> HIDE DEF TypeOK, Bound, SeriesFollows, Pinned, Mined
  <2> QED
    BY <1>22, <2>1, ConfirmSeries DEF ConfirmStripeRefund, RecordStripeRefund
<1>23. ASSUME NEW v \in Voucher, CloseExecution(v) PROVE SeriesFollows'
  BY <1>23 DEF CloseExecution, Working, Done, Pinned, Raw
<1>24. ASSUME NEW v \in Voucher, ClaimDirect(v) PROVE SeriesFollows'
  BY <1>24 DEF ClaimDirect, Lease, Busy, Raw, Pinned, Pending
<1>25. ASSUME NEW v \in Voucher, Acknowledge(v) PROVE SeriesFollows'
  BY <1>25 DEF Acknowledge
<1>26. ASSUME NEW v \in Voucher, MineFunding(v) PROVE SeriesFollows'
  BY <1>26 DEF MineFunding
<1>27. ASSUME NEW target \in {"LIVE", "CANCELED"}, RetainPhase(target) PROVE SeriesFollows'
  BY <1>27 DEF RetainPhase, Campaign, Busy, Pinned, Raw, Pending, Tip
<1>28. ASSUME SignPhase PROVE SeriesFollows'
  BY <1>28 DEF SignPhase, Phase
<1>29. ASSUME PushPhase PROVE SeriesFollows'
  BY <1>29 DEF PushPhase, Campaign, Phase, Mined, Tip
<1>30. ASSUME ConfirmPhase PROVE SeriesFollows'
  <2>1. campaign \in Campaign /\ campaign.coin = current
    BY <1>30 DEF ConfirmPhase
  <2>2. chain[current + 1] = [kind |-> IF campaign.target = "LIVE" THEN "LAUNCH" ELSE "CANCEL", v |-> NoVoucher]
    BY <1>30, <2>1 DEF ConfirmPhase
  <2>3. \A K, w : Before(current, K, w)' <=>
           Before(current, K, w) \/ (chain[current + 1].kind \in K /\ chain[current + 1].v = w)
    BY <1>30, BeforeGrows DEF ConfirmPhase
  <2>4. ~Before(current, {"LAUNCH"}, NoVoucher) /\ ~Before(current, {"CANCEL"}, NoVoucher)
    BY <1>30 DEF ConfirmPhase
  <2>6. series' = campaign.target /\ campaign.target \in {"LIVE", "CANCELED"}
    BY <1>30, <2>1 DEF ConfirmPhase
  <2> HIDE DEF Before
  <2> QED
    BY <2>2, <2>3, <2>4, <2>6 DEF SeriesFollows
<1>31. ASSUME ArchivePhase PROVE SeriesFollows'
  BY <1>31 DEF ArchivePhase, Tip
<1>32. ASSUME Lapse PROVE SeriesFollows'
  BY <1>32 DEF Lapse
<1>33. ASSUME Tick PROVE SeriesFollows'
  BY <1>33 DEF Tick
<1>34. ASSUME LaunchLapses PROVE SeriesFollows'
  BY <1>34 DEF LaunchLapses, Campaign, Phase
<1>35. ASSUME NEW b \in pool, Mine(b) PROVE SeriesFollows'
  BY <1>35 DEF Mine, Tip, Admitted
<1> HIDE DEF TypeOK, Lease, Campaign, Spend, Bundle, Terminals, Refunds, Exclusive, Bound, OneBehind, SeriesFollows, Before, Busy, Pinned, Raw, Retained, Phase, Mined, Tip, chainVars, seriesVars, voucherVars, payVars, vars
<1> QED
  BY <1>1, <1>2, <1>3, <1>4, <1>5, <1>6, <1>7, <1>8, <1>9, <1>10, <1>11, <1>12, <1>13, <1>14, <1>15, <1>16, <1>17, <1>18, <1>19, <1>20, <1>21, <1>22, <1>23, <1>24, <1>25, <1>26, <1>27, <1>28, <1>29, <1>30, <1>31, <1>32, <1>33, <1>34, <1>35 DEF Next, Work, SubmitRedemption, SubmitExpiredRefund

LEMMA VouchersStep ==
  ASSUME TypeOK, Exclusive, Bound, OneBehind, UnderWay, VouchersFollow, Next PROVE VouchersFollow'
<1> USE NoneAssumption, VoucherAssumption DEF TypeOK, Lease, Campaign, Spend, Bundle, Terminals, Refunds, Exclusive, Bound, OneBehind, UnderWay, VouchersFollow, Before, Busy, Pinned, Raw, Retained, Phase, Mined, Tip, Pending, Over, chainVars, seriesVars, voucherVars, payVars, vars
<1>1. ASSUME NEW v \in Voucher, IngestBase(v) PROVE VouchersFollow'
  BY <1>1 DEF IngestBase
<1>2. ASSUME NEW v \in Voucher, CheckStripe(v) PROVE VouchersFollow'
  BY <1>2 DEF CheckStripe
<1>3. ASSUME NEW v \in Voucher, IngestStripe(v) PROVE VouchersFollow'
  BY <1>3 DEF IngestStripe
<1>4. ASSUME NEW v \in Voucher, Claim(v) PROVE VouchersFollow'
  BY <1>4 DEF Claim, Lease, Raw, Lane, Busy, Pinned
<1>5. ASSUME NEW v \in Voucher, FundLauncher(v) PROVE VouchersFollow'
  BY <1>5 DEF FundLauncher, Working, Done
<1>6. ASSUME NEW v \in Voucher, ConfirmFunding(v) PROVE VouchersFollow'
  BY <1>6 DEF ConfirmFunding, Working, Done
<1>7. ASSUME NEW v \in Voucher, ResumeFunding(v) PROVE VouchersFollow'
  BY <1>7 DEF ResumeFunding, Working, Done
<1>8. ASSUME NEW v \in Voucher, SubmitIssuance(v) PROVE VouchersFollow'
  <2>1. state[v] \notin Over
    BY <1>8 DEF SubmitIssuance, Refundable, Deliverable, Expired
  <2> HIDE DEF TypeOK, VouchersFollow
  <2> QED
    BY <1>8, <2>1, DispatchRows DEF SubmitIssuance, RefundAction, Refunds, Terminals
<1>9. ASSUME NEW v \in Voucher, SubmitNativeRedemption(v) PROVE VouchersFollow'
  <2>1. state[v] \notin Over
    BY <1>9 DEF SubmitNativeRedemption, Refundable, Deliverable, Expired
  <2> HIDE DEF TypeOK, VouchersFollow
  <2> QED
    BY <1>9, <2>1, DispatchRows DEF SubmitNativeRedemption, RefundAction, Refunds, Terminals
<1>10. ASSUME NEW v \in Voucher, SubmitBaseRedemption(v) PROVE VouchersFollow'
  <2>1. state[v] \notin Over
    BY <1>10 DEF SubmitBaseRedemption, Refundable, Deliverable, Expired
  <2> HIDE DEF TypeOK, VouchersFollow
  <2> QED
    BY <1>10, <2>1, DispatchRows DEF SubmitBaseRedemption, RefundAction, Refunds, Terminals
<1>11. ASSUME NEW v \in Voucher, SubmitStripeRedemption(v) PROVE VouchersFollow'
  <2>1. state[v] \notin Over
    BY <1>11 DEF SubmitStripeRedemption, Refundable, Deliverable, Expired
  <2> HIDE DEF TypeOK, VouchersFollow
  <2> QED
    BY <1>11, <2>1, DispatchRows DEF SubmitStripeRedemption, RefundAction, Refunds, Terminals
<1>12. ASSUME NEW v \in Voucher, SubmitNativeExpiredRefund(v) PROVE VouchersFollow'
  <2>1. state[v] \notin Over
    BY <1>12 DEF SubmitNativeExpiredRefund, Refundable, Deliverable, Expired
  <2> HIDE DEF TypeOK, VouchersFollow
  <2> QED
    BY <1>12, <2>1, DispatchRows DEF SubmitNativeExpiredRefund, RefundAction, Refunds, Terminals
<1>13. ASSUME NEW v \in Voucher, SubmitBaseExpiredRefund(v) PROVE VouchersFollow'
  <2>1. state[v] \notin Over
    BY <1>13 DEF SubmitBaseExpiredRefund, Refundable, Deliverable, Expired
  <2> HIDE DEF TypeOK, VouchersFollow
  <2> QED
    BY <1>13, <2>1, DispatchRows DEF SubmitBaseExpiredRefund, RefundAction, Refunds, Terminals
<1>14. ASSUME NEW v \in Voucher, SubmitStripeExpiredRefund(v) PROVE VouchersFollow'
  <2>1. state[v] \notin Over
    BY <1>14 DEF SubmitStripeExpiredRefund, Refundable, Deliverable, Expired
  <2> HIDE DEF TypeOK, VouchersFollow
  <2> QED
    BY <1>14, <2>1, DispatchRows DEF SubmitStripeExpiredRefund, RefundAction, Refunds, Terminals
<1>15. ASSUME NEW v \in Voucher, OwnerRefund(v) PROVE VouchersFollow'
  <2>1. state[v] \notin Over
    BY <1>15 DEF OwnerRefund, Refundable, Deliverable, Expired
  <2> HIDE DEF TypeOK, VouchersFollow
  <2> QED
    BY <1>15, <2>1, DispatchRows DEF OwnerRefund, RefundAction, Refunds, Terminals
<1>16. ASSUME NEW v \in Voucher, Resume(v) PROVE VouchersFollow'
  <2>1. UNCHANGED <<chain, current, auth>>
    BY <1>16 DEF Resume
  <2>2. state[v] \notin Over /\ BoundState(v, bundle[v].spend.kind) \notin Over
    BY <1>16 DEF Resume, BoundState
  <2>3. \A w \in Voucher : state[w] \in Over \/ state'[w] \in Over => state'[w] = state[w]
    BY <1>16, <2>2 DEF Resume
  <2> HIDE DEF TypeOK, VouchersFollow, Over
  <2> QED
    BY <2>1, <2>3, RowsStay
<1>17. ASSUME NEW v \in Voucher, ResumeStripe(v) PROVE VouchersFollow'
  <2>1. UNCHANGED <<chain, current, auth>>
    BY <1>17 DEF ResumeStripe
  <2>2. state[v] \notin Over /\ BoundState(v, bundle[v].spend.kind) \notin Over
    BY <1>17 DEF ResumeStripe, BoundState
  <2>3. \A w \in Voucher : state[w] \in Over \/ state'[w] \in Over => state'[w] = state[w]
    BY <1>17, <2>2 DEF ResumeStripe
  <2> HIDE DEF TypeOK, VouchersFollow, Over
  <2> QED
    BY <2>1, <2>3, RowsStay
<1>18. ASSUME NEW v \in Voucher, ConfirmIssuance(v) PROVE VouchersFollow'
  <2>1. Pinned(v) /\ Mined(bundle[v]) /\ bundle[v].spend.kind = "ISSUE" /\ UNCHANGED chain
    BY <1>18 DEF ConfirmIssuance, Observed
  <2> HIDE DEF TypeOK, Bound, VouchersFollow, Pinned, Mined
  <2> QED
    BY <1>18, <2>1, IssueFollows DEF ConfirmIssuance
<1>19. ASSUME NEW v \in Voucher, ConfirmRedemption(v) PROVE VouchersFollow'
  <2>1. /\ Pinned(v) /\ Mined(bundle[v]) /\ bundle[v].spend.kind \in Terminals /\ UNCHANGED chain
    BY <1>19 DEF ConfirmRedemption, RecordRedeemed, Authorize, Observed
  <2> HIDE DEF TypeOK, Bound, VouchersFollow, Pinned, Mined
  <2> QED
    BY <1>19, <2>1, ConfirmFollows DEF ConfirmRedemption, RecordRedeemed, Authorize, Observed
<1>20. ASSUME NEW v \in Voucher, ConfirmNativeRefund(v) PROVE VouchersFollow'
  <2>1. /\ Pinned(v) /\ Mined(bundle[v]) /\ bundle[v].spend.kind \in Terminals /\ UNCHANGED chain
    BY <1>20 DEF ConfirmNativeRefund, RecordNativeRefund, Observed
  <2> HIDE DEF TypeOK, Bound, VouchersFollow, Pinned, Mined
  <2> QED
    BY <1>20, <2>1, ConfirmFollows DEF ConfirmNativeRefund, RecordNativeRefund, Observed
<1>21. ASSUME NEW v \in Voucher, ConfirmBaseRefund(v) PROVE VouchersFollow'
  <2>1. /\ Pinned(v) /\ Mined(bundle[v]) /\ bundle[v].spend.kind \in Terminals /\ UNCHANGED chain
    BY <1>21 DEF ConfirmBaseRefund, RecordBaseRefund, Authorize, Observed
  <2> HIDE DEF TypeOK, Bound, VouchersFollow, Pinned, Mined
  <2> QED
    BY <1>21, <2>1, ConfirmFollows DEF ConfirmBaseRefund, RecordBaseRefund, Authorize, Observed
<1>22. ASSUME NEW v \in Voucher, ConfirmStripeRefund(v) PROVE VouchersFollow'
  <2>1. /\ Pinned(v) /\ Mined(bundle[v]) /\ bundle[v].spend.kind \in Terminals /\ UNCHANGED chain
    BY <1>22 DEF ConfirmStripeRefund, RecordStripeRefund, Authorize, Observed
  <2> HIDE DEF TypeOK, Bound, VouchersFollow, Pinned, Mined
  <2> QED
    BY <1>22, <2>1, ConfirmFollows DEF ConfirmStripeRefund, RecordStripeRefund, Authorize, Observed
<1>23. ASSUME NEW v \in Voucher, CloseExecution(v) PROVE VouchersFollow'
  BY <1>23 DEF CloseExecution, Working, Done, Pinned, Raw
<1>24. ASSUME NEW v \in Voucher, ClaimDirect(v) PROVE VouchersFollow'
  BY <1>24 DEF ClaimDirect, Lease, Busy, Raw, Pinned, Pending
<1>25. ASSUME NEW v \in Voucher, Acknowledge(v) PROVE VouchersFollow'
  BY <1>25 DEF Acknowledge
<1>26. ASSUME NEW v \in Voucher, MineFunding(v) PROVE VouchersFollow'
  BY <1>26 DEF MineFunding
<1>27. ASSUME NEW target \in {"LIVE", "CANCELED"}, RetainPhase(target) PROVE VouchersFollow'
  BY <1>27 DEF RetainPhase, Campaign, Busy, Pinned, Raw, Pending, Tip
<1>28. ASSUME SignPhase PROVE VouchersFollow'
  BY <1>28 DEF SignPhase
<1>29. ASSUME PushPhase PROVE VouchersFollow'
  BY <1>29 DEF PushPhase, Campaign, Phase, Mined, Tip
<1>30. ASSUME ConfirmPhase PROVE VouchersFollow'
  BY <1>30 DEF ConfirmPhase, Campaign, Phase, Mined, Tip
<1>31. ASSUME ArchivePhase PROVE VouchersFollow'
  BY <1>31 DEF ArchivePhase, Tip
<1>32. ASSUME Lapse PROVE VouchersFollow'
  BY <1>32 DEF Lapse
<1>33. ASSUME Tick PROVE VouchersFollow'
  BY <1>33 DEF Tick
<1>34. ASSUME LaunchLapses PROVE VouchersFollow'
  BY <1>34 DEF LaunchLapses, Campaign, Phase
<1>35. ASSUME NEW b \in pool, Mine(b) PROVE VouchersFollow'
  <2>1. \A i \in 1..current : chain'[i] = chain[i]
    BY <1>35 DEF Mine
  <2>2. UNCHANGED <<current, state, auth>>
    BY <1>35 DEF Mine
  <2>3. \A K, w : Before(current, K, w)' <=> Before(current, K, w)
    BY <2>1, <2>2, BeforeStays
  <2> HIDE DEF Before, TypeOK
  <2> QED
    BY <2>2, <2>3 DEF VouchersFollow
<1> HIDE DEF TypeOK, Lease, Campaign, Spend, Bundle, Terminals, Refunds, Exclusive, Bound, OneBehind, UnderWay, VouchersFollow, Before, Busy, Pinned, Raw, Retained, Phase, Mined, Tip, Pending, Over, chainVars, seriesVars, voucherVars, payVars, vars
<1> QED
  BY <1>1, <1>2, <1>3, <1>4, <1>5, <1>6, <1>7, <1>8, <1>9, <1>10, <1>11, <1>12, <1>13, <1>14, <1>15, <1>16, <1>17, <1>18, <1>19, <1>20, <1>21, <1>22, <1>23, <1>24, <1>25, <1>26, <1>27, <1>28, <1>29, <1>30, <1>31, <1>32, <1>33, <1>34, <1>35 DEF Next, Work, SubmitRedemption, SubmitExpiredRefund

LEMMA Initially == Init => IInv
<1> SUFFICES ASSUME Init PROVE IInv
  OBVIOUS
<1> USE VoucherAssumption DEF Init
<1>1. TypeOK
  BY DEF TypeOK, Pending, Over, Retained
<1>2. Exclusive /\ Bound /\ UnderWay
  BY DEF Exclusive, Bound, UnderWay, Busy, Pinned, Raw, Retained, Over
<1>3. PoolIsRetained /\ OneBehind
  BY DEF PoolIsRetained, OneBehind, Tip
<1>4. SeriesFollows /\ VouchersFollow
  BY DEF SeriesFollows, VouchersFollow, Before, Over
<1> QED
  BY <1>1, <1>2, <1>3, <1>4 DEF IInv

LEMMA Inductive == IInv /\ [Next]_vars => IInv'
<1> SUFFICES ASSUME IInv, [Next]_vars PROVE IInv'
  OBVIOUS
<1>1. CASE Next
  BY <1>1, TypeStep, ExclusiveStep, BoundStep, UnderWayStep, PoolStep, OneBehindStep,
     SeriesStep, VouchersStep DEF IInv
<1>2. CASE UNCHANGED vars
  <2> USE <1>2 DEF vars, chainVars, seriesVars, voucherVars, payVars
  <2>1. TypeOK' /\ Exclusive' /\ Bound' /\ UnderWay'
    BY DEF IInv, TypeOK, Exclusive, Bound, UnderWay, Busy, Pinned, Raw
  <2>2. PoolIsRetained' /\ OneBehind'
    BY DEF IInv, PoolIsRetained, OneBehind, Awaited, Pinned, Mined, Tip
  <2>3. SeriesFollows' /\ VouchersFollow'
    BY DEF IInv, SeriesFollows, VouchersFollow, Before
  <2> QED
    BY <2>1, <2>2, <2>3 DEF IInv
<1> QED
  BY <1>1, <1>2

\* The invariant holds of every behavior.
THEOREM InvariantHolds == Spec => []IInv
  BY Initially, Inductive, PTL DEF Spec

\* Every table and the chain keep their types, for any vouchers on any rails.
THEOREM TypeSafety == Spec => []TypeOK
<1>1. IInv => TypeOK
  BY DEF IInv
<1> QED
  BY <1>1, InvariantHolds, PTL

\* The lease, the retained executions, the pinned submissions and the campaign
\* operation never let two spends of the series' coin be outstanding.
THEOREM OneSpendTheorem == Spec => []OneSpendPerCoin
<1>1. IInv => OneSpendPerCoin
  BY DEF IInv, OneSpendPerCoin, Exclusive, Bound, Busy
<1> QED
  BY <1>1, InvariantHolds, PTL

\* Vouchers, series and authorizations say what the chain did, and lag by at
\* most the one spend that is retained.
THEOREM BooksTheorem == Spec => []BooksFollowChain
<1>1. IInv => BooksFollowChain
  BY DEF IInv, BooksFollowChain, OneBehind, SeriesFollows, VouchersFollow
<1> QED
  BY <1>1, InvariantHolds, PTL
=============================================================================
