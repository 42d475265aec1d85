----------------------------- MODULE MCGenesis -----------------------------
(* The genesis ceremony on small instances: g1 is the first draft made, and *)
(* till coins are chosen in the order of their numbers.                     *)
EXTENDS Genesis, TLC

CONSTANTS g1, g2

Symmetry == Permutations(Handlers)

CoinsSeen ==
    {journal[c][k] : c \in Ceremonies, k \in Kinds} \cup {funding[c].coin : c \in Ceremonies}
    \cup {ceremonies[c].coin : c \in Ceremonies} \cup {b.coin : b \in mempool \cup mined}

\* What the search leaves aside: two ceremonies prepared at the same time (g2
\* begins once the fan-out of g1 is mined, and its own is not reorganised after
\* its plan; its gate stands beside one of g1 that is not pending), seats taken
\* out of order, slot 3 before the artifact, where it does what slot 2 does,
\* funding before the roster stands and again after the plan does, gates before
\* a renewed plan, drafts abandoned without a plan or after the other ceremony
\* began, a confirmed ceremony beside one that was funded, windows proposed
\* once a genesis was in a block, two confirmations read side by side, the
\* signatures of an artifact whose block was taken back, publication again
\* beside a rehearsal.
Preparing == {"draft", "roster_open", "roster_frozen", "planned"}
Early == {"none"} \cup Preparing \cup {"plan_approved", "broadcast"}
Confirming == {"outputs", "peak", "confirm"}
Bounded ==
    /\ ceremonies[g1].state = "none" => ceremonies[g2].state = "none"
    /\ ceremonies[g2].state # "none" => ceremonies[g1].state \notin Preparing
    /\ ceremonies[g2].state # "none" => FundMined(g1)
    /\ ceremonies[g2].plan > 0 => FundMined(g2)
    /\ gates[g2].state # "none" => gates[g1].state # "pending"
    /\ \A coin \in CoinsSeen \ {NoCoin} : \A i \in 1 .. coin : i \in CoinsSeen
    /\ \A c \in Ceremonies :
        /\ \A s \in Coadmins : seats[c][s] # "open" => seats[c][s - 1] = "enrolled"
        /\ 3 \notin ceremonies[c].signed \cup gates[c].signed \cup funding[c].signed
        /\ funding[c].state # "none" => ceremonies[c].state \notin {"draft", "roster_open"}
        /\ gates[c].state # "none" =>
            gates[c].closes <= MaxTime + 1 /\ (ceremonies[c].state \in Preparing => ceremonies[c].plan > 1)
        /\ ceremonies[c].state = "abandoned" => c = g1 /\ ceremonies[c].plan > 0 /\ ceremonies[g2].state = "none"
        /\ \A h \in Handlers :
            handlers[h].at \in {"submit", "sealed", "push", "record"} /\ handlers[h].kind = "fund" =>
                ceremonies[handlers[h].c].state = "roster_frozen"
        /\ ceremonies[c].state \notin Early \cup {"abandoned"} =>
            \A d \in Ceremonies \ {c} : journal[d]["fund"] = NoCoin
    /\ \A h, i \in Handlers : {handlers[h].at, handlers[i].at} \subseteq Confirming => h = i
    /\ \A c \in Ceremonies :
        /\ peak > 0 => gates[c].state # "pending"
        /\ ceremonies[c].artifact # {} => ~Overtaken(c)
    /\ rehearsal.state # "NONE" => \A h \in Handlers : handlers[h].at \notin {"verify"} \cup Publishing

\* What can no longer matter is not told apart: the rows of a ceremony that
\* another one has shut out, gates and clock once a push is on record; of a
\* block, anything but its depth and whether the genesis is still in it.  No
\* state of the search comes near MaxPeak.
Windowed(c) == ceremonies[c].state \in Early /\ ceremonies[c].reservation # "FINALIZED"
Row(c) ==
    IF singleton.owner \notin {NoCeremony, c} THEN <<funding[c].coin>>
    ELSE <<IF ceremonies[c].state = "abandoned" THEN "abandoned"
           ELSE [ceremonies[c] EXCEPT !.block = height[c] = @],
           seats[c], funding[c].coin, funding[c].signed,
           IF ceremonies[c].plan = 0 THEN funding[c].state ELSE "some",
           IF Windowed(c) THEN gates[c] ELSE "any">>
Clock == IF \E c \in Ceremonies : ceremonies[c].state # "abandoned" /\ ~Windowed(c) THEN 0 ELSE now
Depth(block) ==
    IF block = 0 THEN 0 ELSE IF peak - block + 1 < Confirmations THEN peak - block + 1 ELSE Confirmations
Seen(x) == IF x.at \in Confirming THEN [x EXCEPT !.block = <<Depth(@), @ = height[x.c]>>] ELSE x
View == <<Clock, [c \in Ceremonies |-> Row(c)], journal, singleton, files,
          [h \in Handlers |-> Seen(handlers[h])], mempool, mined,
          [c \in Ceremonies |-> Depth(height[c])], peak > 0, launch>>
=============================================================================
