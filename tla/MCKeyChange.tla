---------------------------- MODULE MCKeyChange ----------------------------
EXTENDS KeyChange, TLC

CONSTANT kk

vOf   == [c \in Change |-> kk]
vKind == [c \in Change |-> "RECOVERY_KIT"]
Symmetry == Permutations(Change)

(* What can still be read.  No request for an ended case writes its row's  *)
(* other columns or receipts or decides by them, but the one under way;    *)
(* the coordinator is done with a change that is vetoed, converged or      *)
(* rolled back.                                                            *)
Closed(c) == case[c] \in Terminal /\ (req = None \/ req.c # c)
Done(c)   == Closed(c) /\ evm[c] \in {"vetoed", "converged", "rolledBack"}
OfOpen(f, blank) == [c \in Change |-> IF Closed(c) THEN blank ELSE f[c]]
OfUndecided(f, blank) ==
    [c \in Change |-> IF Closed(c) /\ evm[c] # "prepared" THEN blank ELSE f[c]]
OfLive(f, blank) == [c \in Change |-> IF Done(c) THEN blank ELSE f[c]]
Readable ==
    <<evm, nonce, old, evmKey, OfLive(given, {}), OfUndecided(time, 0), chain,
      case, candidate, OfOpen(receipts, {}), OfOpen(seenAt, 0),
      OfOpen(approvals, {}), OfOpen(tx, FALSE), req, slips, strayed>>
=============================================================================
