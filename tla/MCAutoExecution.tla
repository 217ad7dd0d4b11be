--------------------------- MODULE MCAutoExecution ---------------------------
(***************************************************************************)
(* Instances of AutoExecution small enough for TLC.  s1 and s2 are two     *)
(* actions, ap an approval and rv a revocation; a and b are the two poll   *)
(* loops of the arbitrageur, a alone the loop of the liquidator.           *)
(***************************************************************************)
EXTENDS AutoExecution

CONSTANTS a, b, s1, s2, ap, rv

OneEngine  == {a}
TwoEngines == {a, b}

OneAction     == {s1}
TwoActions    == {s1, s2}
WithApproval  == {s1, ap}
WithRevoke    == {s1, rv}

MCKind == [s \in Subjects |-> IF s = ap THEN "approval"
                              ELSE IF s = rv THEN "revoke" ELSE "action"]

\* Which of the loops is the arbitrage engine.
OnlyA  == {a}
OnlyB  == {b}
Nobody == {}

\* Engine a drives everything, or all but s1 is left to engine b.
OwnedByOne == [s \in Subjects |-> a]
OwnedByTwo == [s \in Subjects |-> IF s = s1 THEN a ELSE b]

MCTxIds  == 1..MaxTx
\* Each engine remembers at most two stamps of a row.
MCStamps == 1..5
==============================================================================
