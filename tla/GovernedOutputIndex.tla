------------------------- MODULE GovernedOutputIndex -------------------------
(***************************************************************************)
(* The read model of governed deliveries, solslot_api/                     *)
(* governed_output_index.py: what a purchase will deliver is written       *)
(* before it is submitted, and marked CONFIRMED or BLOCKED from the chain. *)
(* It lives in the payment-purchase database, not in the delivery one, so  *)
(* no transaction spans the two.                                           *)
(***************************************************************************)
EXTENDS DeliveryTerms

VARIABLE index   \* index[p]: the row of p

indexVars == <<index>>

IndexStates == {"ABSENT", "PREPARED", "MEMPOOL", "CONFIRMED", "BLOCKED"}

\* prepared stands for the manifest a prepare commits (inputs, outputs,
\* protocol bundle), bundle for spend_bundle_id with its exact inputs.
IndexRows == [state    : IndexStates,
              prepared : Quorums \cup {None},
              bundle   : DeliveryBundles \cup {None}]

IndexInit ==
  index = [p \in Purchases |-> [state |-> "ABSENT", prepared |-> None, bundle |-> None]]

\* prepare is idempotent for the manifest already there; once a submission is
\* bound the inputs on the row are the exact ones and no manifest matches.
PrepareMatches(p, signers) ==
  index[p].prepared = signers /\ index[p].bundle = None

Prepare(p, signers) ==
  \/ /\ index[p].state = "ABSENT"
     /\ index' = [index EXCEPT ![p] =
                    [state |-> "PREPARED", prepared |-> signers, bundle |-> None]]
  \/ PrepareMatches(p, signers) /\ UNCHANGED index

PrepareConflicts(p, signers) ==
  index[p].state # "ABSENT" /\ ~PrepareMatches(p, signers)

\* bind_submission: never on a blocked row, never a second bundle, and the
\* bundle spends every prepared input.
BindAccepts(p, b) ==
  /\ index[p].state \notin {"ABSENT", "BLOCKED"}
  /\ index[p].prepared = b.signers
  /\ index[p].bundle \in {None, b}

BindSubmission(p, b) ==
  /\ BindAccepts(p, b)
  /\ index' = [index EXCEPT ![p].bundle = b,
                            ![p].state  = IF @ = "CONFIRMED" THEN @ ELSE "MEMPOOL"]

\* record_confirmed and record_blocked: a blocked row takes no confirmation, a
\* confirmed row takes no block; the call that is refused raises.
RecordConfirmed(p) ==
  /\ index[p].state # "BLOCKED"
  /\ index' = [index EXCEPT ![p].state = "CONFIRMED"]

RecordBlocked(p) ==
  /\ index[p].state # "CONFIRMED"
  /\ index' = [index EXCEPT ![p].state = "BLOCKED"]

\* reconcile_governed_delivery returns a settled row without reading the chain.
Settled(p) == index[p].state \in {"CONFIRMED", "BLOCKED"}
=============================================================================
