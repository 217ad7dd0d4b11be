------------------------- MODULE MCLiquidationRouter -------------------------
(***************************************************************************)
(* Instances of LiquidationRouter: one borrower owes a token the pool      *)
(* sells, the other owes WBTC itself.                                      *)
(***************************************************************************)
EXTENDS LiquidationRouter

TwoDebts == [ann |-> [token |-> "usd", amount |-> 2],
             bob |-> [token |-> "wbtc", amount |-> 3]]
TwoPositions == {"ann", "bob"}
Proceeds == [ann |-> 8, bob |-> 7]
OneSwap == <<[token |-> "usd", venue |-> "v4"]>>
AaveLoan == [type |-> "AaveV3", venue |-> "aave"]

\* The market the rest differ from; dearer; a payment that shrank, grew or
\* is none; a venue that calls nobody back.
Calm == [rate |-> 1, pay |-> 1, drift |-> 0, silent |-> None]
SixMarkets == {Calm, [Calm EXCEPT !.rate = 3], [Calm EXCEPT !.drift = -1],
               [Calm EXCEPT !.drift = 1], [Calm EXCEPT !.pay = 0],
               [Calm EXCEPT !.silent = "morpho"]}

\* The owner borrows the debt token itself, buys it back, and leaves out
\* the loan of WBTC, or not.
Borrowing(flash) == [borrower |-> "ann", floor |-> 0, flash |-> flash,
                     swaps |-> <<[token |-> "usd", amount |-> 2]>>,
                     expected |-> None, fresh |-> FALSE]
MorphoLoan(token) == [type |-> "Morpho", venue |-> "morpho", token |-> token]
TwoByHand == {Borrowing(<<MorphoLoan("usd")>>),
              Borrowing(<<MorphoLoan("usd"), MorphoLoan("wbtc")>>)}
=============================================================================
