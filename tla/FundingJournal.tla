---------------------------- MODULE FundingJournal ----------------------------
(***************************************************************************)
(* The write-once journal of sponsored transactions                        *)
(* (solslot_api/protocol_funding_store.py) and the MINT transactions it is *)
(* used for.  An original is the signed protocol bundle a request brings;  *)
(* a funded bundle is an original with a fee coin of the till attached.    *)
(***************************************************************************)
EXTENDS Integers, FiniteSets

CONSTANTS
  Proposals,  \* mint proposals
  Admins,     \* administrators who call the endpoints
  Stakes,     \* SGT coins an owner can lock behind a publication
  Till,       \* coins of the fee till
  MaxTip,     \* bound on the generations of the governance tracker coin
  None        \* SQL NULL

ASSUME TipAssumption == MaxTip \in Nat
ASSUME NullAssumption == None \notin Proposals /\ None \notin Admins

\* A publication spends the idle tracker and the owner's stake; an execution
\* spends the tracker in the generation its authors saw.
Originals ==
  [phase : {"publish"}, proposal : Proposals, tip : 0 .. MaxTip - 1, stake : Stakes]
    \cup [phase : {"execute"}, proposal : Proposals, tip : 0 .. MaxTip - 1]
Bundles == [original : Originals, fee : Till]

ProtocolInputs(o) ==
  {<<"tracker", o.tip>>} \cup
    (IF o.phase = "publish" THEN {<<"stake", o.stake>>} ELSE {<<"proposal", o.proposal>>})
Inputs(b) == ProtocolInputs(b.original) \cup {<<"till", b.fee>>}
Overlap(b, d) == Inputs(b) \cap Inputs(d) # {}

ASSUME BundleAssumption == None \notin Bundles

VARIABLES
  funded,        \* funded_protocol_bundles, with its inputs
  instructions,  \* funded_protocol_completions: a bundle and who asked for it
  completed      \* bundles whose completion has been recorded

journalVars == <<funded, instructions, completed>>

JournalInit == funded = {} /\ instructions = {} /\ completed = {}

\* lookup, by the original's name.
Saved(o) == {b \in funded : b.original = o}

\* reserved_coin_ids, as far as the till is concerned.
ReservedTill == {b.fee : b \in funded}

\* reserve: the bundle and every input of it, or nothing.
Reservable(b) == \A d \in funded : ~Overlap(b, d)

Reserve(b) ==
  /\ Reservable(b)
  /\ funded' = funded \cup {b}
  /\ UNCHANGED <<instructions, completed>>

Instructed(b) == \E i \in instructions : i.bundle = b

\* save_completion: only for a saved bundle, and never changed.
Instructable(b, a) ==
  b \in funded /\ \A i \in instructions : i.bundle = b => i.admin = a

SaveCompletion(b, a) ==
  /\ Instructable(b, a)
  /\ instructions' = instructions \cup {[bundle |-> b, admin |-> a]}
  /\ UNCHANGED <<funded, completed>>

PendingCompletions == {b \in funded : Instructed(b)} \ completed

\* complete: an UPDATE, which changes nothing where no instructions were saved.
Complete(b) ==
  /\ completed' = completed \cup {d \in {b} : Instructed(d)}
  /\ UNCHANGED <<funded, instructions>>
=============================================================================
