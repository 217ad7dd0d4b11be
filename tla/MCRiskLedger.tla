----------------------------- MODULE MCRiskLedger -----------------------------
(***************************************************************************)
(* Instances of RiskLedger small enough for TLC.  The liquidation engine   *)
(* liq repays in usdc and pays a fee in wbtc; the arbitrage engine arb     *)
(* pays in wbtc only, and its refresh reads wbtc only.  The signer can     *)
(* not afford all of them.                                                 *)
(***************************************************************************)
EXTENDS RiskLedger

CONSTANTS liq, arb, l1, l2, r1, wbtc, usdc

TwoEngines == {liq, arb}
TwoTokens  == {wbtc, usdc}
OneToken   == {wbtc}
ThreeActions == {l1, l2, r1}
OneOfEach    == {l1, r1}

MCEngineOf == [x \in Actions |-> IF x \in {l1, l2} THEN liq ELSE arb]
MCCost == [x \in Actions |->
             [acc \in Accounts |->
                IF acc = wbtc THEN 1 ELSE IF EngineOf[x] = liq THEN 1 ELSE 0]]
MCCovers == [e \in Engines |-> IF e = liq THEN Accounts ELSE {wbtc}]
TwoAndOne == [acc \in Accounts |-> IF acc = wbtc THEN 2 ELSE 1]
OneEach   == [acc \in Accounts |-> 1]

MCBackstop == [e \in Engines |-> IF e = liq THEN "abandoned" ELSE "unresolved"]
OnlyArb == {arb}
Both    == {liq, arb}
=============================================================================
