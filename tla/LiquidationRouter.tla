-------------------------- MODULE LiquidationRouter --------------------------
(***************************************************************************)
(* Liquidations paid by flash liquidity.  LiquidationRouter.liquidate      *)
(* borrows what a liquidation pays from one venue after another, each of   *)
(* which hands control back through a callback, liquidates in the          *)
(* innermost frame, and repays the venues as the frames return.  Calls may *)
(* be batched in one transaction, a call that fails leaving the others.    *)
(*                                                                         *)
(* FlashFunding probes each candidate first: the same call, made to revert *)
(* with the router's balance and debts, from which it takes the profit     *)
(* floor of the call it sends.  Between probe and call the market moves    *)
(* and anyone may give the router WBTC; during a transaction nothing does. *)
(*                                                                         *)
(* evm is the state a revert rolls back: the router's and the venues'      *)
(* storage, transient storage included, and the balances they move.        *)
(* External: the adapter, the lens, the tokens, the pool manager, the      *)
(* venues' side of a loan and the market.  The forwarded iteration, headed *)
(* and encoded, comes back as it left; amounts stay below MaxUint.         *)
(***************************************************************************)
EXTENDS Integers, FiniteSets, Sequences, SequencesExt

CONSTANTS
    None,
    Wbtc, Adapter,
    Borrowers,
    Debt,         \* the token and the amount a borrower owes
    Seized,       \* the WBTC a borrower's collateral brings
    Fee,          \* exitBtcFee
    FlashSwaps,   \* registry.flashSwaps: a token and its UniswapV4 venue each
    LoanVenue,    \* registry.wbtcFlashLoan
    Premium,      \* what Aave v3 asks for a loan
    Markets,      \* bound: the states of the market
    SlippageBps,  \* maxSlippageBps, of 10000
    MinProfit,    \* RISK_MIN_PROFIT
    HandMade,     \* calls the owner composes without the bot
    MaxGift,      \* bound: WBTC given to the router
    MaxUint       \* type(uint256).max

Tokens  == {Wbtc} \cup {Debt[b].token : b \in Borrowers}
VenueTypes == {"AaveV3", "Morpho", "UniswapV4FlashSwap", "UniswapV4FlashLoan"}
SwapVenues == {FlashSwaps[n].venue : n \in DOMAIN FlashSwaps}
Venues  == SwapVenues \cup {LoanVenue.venue}
              \cup UNION {{c.flash[n].venue : n \in DOMAIN c.flash} : c \in HandMade}
Spenders == {Adapter} \cup Venues

FlashData == [type : VenueTypes, venue : Venues, token : Tokens]
VenueDebt == [token : Tokens, venue : Venues, amount : Nat]
\* One dex-aggregator call: buy amount of token with WBTC.
SwapData  == [token : Tokens, amount : Nat]
\* expected and fresh are history: what the probe quoted, and whether the
\* market is still the one it saw.  Both are None for a call made by hand.
Call == [borrower : Borrowers, floor : Nat, flash : Seq(FlashData),
         swaps : Seq(SwapData), expected : Nat \cup {None}, fresh : BOOLEAN]
MIN_PROFIT_REVERT_TAG == MaxUint

Market == [rate   : Nat \ {0},   \* WBTC a unit of a debt token costs
           pay    : Nat,         \* the fairness payment, as estimated
           drift  : {-1, 0, 1},  \* what the adapter then asks beyond it
           silent : Venues \cup {None}]   \* the venue that calls nobody back

\* assertRegistryValid: one venue a token (I2), and none of them for WBTC (I1).
RegistryValid ==
    /\ IsInjective([n \in DOMAIN FlashSwaps |-> FlashSwaps[n].token])
    /\ \A n \in DOMAIN FlashSwaps : FlashSwaps[n].token # Wbtc

ASSUME LiquidationAssumption ==
    /\ None \notin Venues /\ None \notin Int
    /\ Adapter \notin Venues
    /\ IsFiniteSet(Borrowers)
    /\ \A b \in Borrowers : Debt[b].amount \in Nat \ {0}
    /\ Seized \in [Borrowers -> Nat] /\ Fee \in Nat /\ Premium \in Nat
    /\ FlashSwaps \in Seq([token : Tokens, venue : Venues]) /\ RegistryValid
    /\ LoanVenue \in [type : {"AaveV3", "Morpho"}, venue : Venues]
    /\ Markets \subseteq Market
    /\ SlippageBps \in 0..10000 /\ MinProfit \in Nat /\ MaxGift \in Nat
    /\ MaxUint \in Nat
    /\ \A c \in HandMade : /\ c \in Call
                           /\ c.floor < MIN_PROFIT_REVERT_TAG
                           /\ c.expected = None /\ ~c.fresh

VARIABLES
    evm,      \* what a revert rolls back
    run,      \* the transaction or simulation under way
    market,
    given,    \* WBTC given to the router so far
    bot       \* FlashFunding.vet: its baseline and what it may send

vars == <<evm, run, market, given, bot>>

\* The single pending callback of a contract: its selector and its caller.
Expectation == [callback : {"onSetUpCallback", "onMorphoFlashLoan",
                            "executeOperation", "onSwapVenueFlashSwap"},
                from : Venues]

\* gain is what the owner received.  sold, which is history, are the
\* borrowers liquidated by calls of the bot.
Evm == [open     : SUBSET Borrowers,
        bal      : [Tokens -> Nat],
        gain     : [Tokens -> Nat],
        allow    : [Spenders -> [Tokens -> Nat]],
        expected : Expectation \cup {None},
        waiting  : SUBSET Venues,
        unlocked : BOOLEAN,
        debts    : Seq(VenueDebt),
        sold     : SUBSET Borrowers]

\* What the preview estimated, and the cursor of the state machine.
Estimate == [debtToken : Tokens, debtToCover : Nat, wbtcPayment : Nat,
             exitBtcFee : Nat]
\* A venue's call that has called back and waits for it to return.
Frame == [kind : {"setup", "loan"}, venue : Venues, token : Tokens, amount : Nat]
Result == [call : Call, ok : BOOLEAN, profit : Int]
Run == [requireSuccess : BOOLEAN,
        rest   : Seq(Call),          \* calls still to run
        start  : Evm,                \* as the transaction found it
        entry  : Evm,                \* as the call found it
        call   : Call \cup {None},
        wbtcBefore : Nat,
        est    : Estimate \cup {None},
        phase  : {"Setup", "FlashLoan", "LiquidationAndSwap"},
        i      : Nat,
        at     : {"next", "step", "called", "swap", "return"},
        k      : Nat,                \* swaps made
        stack  : Seq(Frame),
        last   : Result \cup {None}]
ASSUME NoneAssumption == None \notin Expectation /\ None \notin Run

\* A floor is a word.
InWord(c) == c # None => c.floor <= MaxUint

TypeOK ==
    /\ evm \in Evm
    /\ run \in Run \cup {None}
    /\ market \in Markets
    /\ given \in 0..MaxGift
    /\ bot \in [baseline : Nat \cup {None},
                todo     : SUBSET Borrowers,
                quotes   : [Borrowers -> Call \cup {None}]]
    /\ \A b \in Borrowers : InWord(bot.quotes[b])
    /\ run # None => InWord(run.call) /\ \A n \in DOMAIN run.rest : InWord(run.rest[n])

Zero == [t \in Tokens |-> 0]

Init ==
    /\ evm = [open |-> Borrowers, bal |-> Zero, gain |-> Zero,
              allow |-> [s \in Spenders |-> Zero], expected |-> None,
              waiting |-> {}, unlocked |-> FALSE, debts |-> <<>>, sold |-> {}]
    /\ run = None
    /\ market \in Markets
    /\ given = 0
    /\ bot = [baseline |-> None, todo |-> {}, quotes |-> [b \in Borrowers |-> None]]

-----------------------------------------------------------------------------
(* A call that reverts.  In a multicall that need not succeed it rolls     *)
(* back alone; otherwise the transaction does.                             *)

Fail(r) ==
    /\ evm' = IF r.requireSuccess THEN r.start ELSE r.entry
    /\ run' = [r EXCEPT !.at = "next",
                        !.rest = IF r.requireSuccess THEN <<>> ELSE @,
                        !.last = [call |-> r.call, ok |-> FALSE, profit |-> 0]]

Require(cond, Do) == IF cond THEN Do ELSE Fail(run)

Running(at) == run # None /\ run.at = at
World == <<market, given, bot>>

(* ExpectCallback: one slot, armed before a venue is called, consumed by   *)
(* its callback and required to be clear once the call returns.            *)
Expectable(e) == e.expected = None
Expect(e, callback, from) ==
    [e EXCEPT !.expected = [callback |-> callback, from |-> from]]
Consumable(e, callback, from) ==
    e.expected = [callback |-> callback, from |-> from]
Consume(e) == [e EXCEPT !.expected = None]
Complete(e) == e.expected = None

AddVenueDebt(e, venue, token, amount) ==
    [e EXCEPT !.debts = Append(@, [token |-> token, venue |-> venue, amount |-> amount])]
AllDebts(e) == e.debts
ClearVenueDebts(e) == [e EXCEPT !.debts = <<>>]

Receive(e, token, amount) == [e EXCEPT !.bal[token] = @ + amount]
\* transferFrom: spender takes amount of token out of the router.
CanPull(e, spender, token, amount) ==
    e.allow[spender][token] >= amount /\ e.bal[token] >= amount
Pull(e, spender, token, amount) ==
    [e EXCEPT !.allow[spender][token] = @ - amount, !.bal[token] = @ - amount]

-----------------------------------------------------------------------------
(* The state machine of a liquidation *)

PaymentIn(est, token) ==
      (IF token = est.debtToken THEN est.debtToCover ELSE 0)
    + (IF token = Wbtc THEN est.wbtcPayment ELSE 0)

ToNext(r) ==
    LET last == r.i = Len(r.call.flash)
    IN  [r EXCEPT !.at = "step",
                  !.i = IF last THEN 1 ELSE @ + 1,
                  !.phase = IF ~last THEN @
                            ELSE IF @ = "Setup" THEN "FlashLoan"
                            ELSE "LiquidationAndSwap"]

\* The venue asks the pool manager.
IsUnlocked(e) == e.unlocked
VenueRequiresSetup(e, f) ==
    f.type \in {"UniswapV4FlashSwap", "UniswapV4FlashLoan"} /\ ~IsUnlocked(e)

EstLiquidationPayment(b) ==
    [debtToken |-> Debt[b].token, debtToCover |-> Debt[b].amount,
     wbtcPayment |-> market.pay, exitBtcFee |-> Fee]

\* liquidate, up to its first iteration.  The lens gives no estimate for a
\* position that is no longer liquidatable.
Liquidate ==
    /\ Running("next")
    /\ run.rest # <<>>
    /\ LET call == Head(run.rest)
           r == [run EXCEPT !.rest = Tail(@), !.call = call, !.entry = evm]
       IN  IF call.flash # <<>> /\ call.borrower \in evm.open
           THEN /\ run' = [r EXCEPT !.at = "step",
                                    !.wbtcBefore = evm.bal[Wbtc],
                                    !.est = EstLiquidationPayment(call.borrower),
                                    !.phase = "Setup",
                                    !.i = 1,
                                    !.k = 0,
                                    !.stack = <<>>]
                /\ UNCHANGED evm
           ELSE Fail(r)
    /\ UNCHANGED World

Stepping(phase) == Running("step") /\ run.phase = phase
Flash == run.call.flash[run.i]
Payment == PaymentIn(run.est, Flash.token)
NeedsSetup == Payment # 0 /\ VenueRequiresSetup(evm, Flash)

SkipSetup ==
    /\ Stepping("Setup")
    /\ ~NeedsSetup
    /\ run' = ToNext(run)
    /\ UNCHANGED <<evm, World>>

\* The wrapper unlocks the pool manager, waiting for its callback in turn.
SetUp ==
    /\ Stepping("Setup")
    /\ NeedsSetup
    /\ Require(/\ Expectable(evm)
               /\ Flash.venue \notin evm.waiting,
               /\ evm' = [Expect(evm, "onSetUpCallback", Flash.venue) EXCEPT
                              !.waiting = @ \cup {Flash.venue}, !.unlocked = TRUE]
               /\ run' = [run EXCEPT !.at = "called"])
    /\ UNCHANGED World

SkipLoan ==
    /\ Stepping("FlashLoan")
    /\ Payment = 0
    /\ run' = ToNext(run)
    /\ UNCHANGED <<evm, World>>

Callback(type) == CASE type = "Morpho" -> "onMorphoFlashLoan"
                    [] type = "AaveV3" -> "executeOperation"
                    [] OTHER -> "onSwapVenueFlashSwap"

\* The venue hands over the tokens before it calls back.
FlashLoan ==
    /\ Stepping("FlashLoan")
    /\ Payment # 0
    /\ Require(/\ Flash.type # "UniswapV4FlashLoan"
               /\ Flash.type = "UniswapV4FlashSwap" => IsUnlocked(evm)
               /\ Expectable(evm),
               /\ evm' = Receive(Expect(evm, Callback(Flash.type), Flash.venue),
                                 Flash.token, Payment)
               /\ run' = [run EXCEPT !.at = "called"])
    /\ UNCHANGED World

\* The pool manager calls the wrapper, and the wrapper the router.
OnSetUpCallback ==
    /\ Running("called")
    /\ run.phase = "Setup"
    /\ market.silent # Flash.venue
    /\ Require(/\ Consumable(evm, "onSetUpCallback", Flash.venue)
               /\ Flash.venue \in evm.waiting,
               /\ evm' = [Consume(evm) EXCEPT !.waiting = @ \ {Flash.venue}]
               /\ run' = [ToNext(run) EXCEPT
                              !.stack = Append(@, [kind |-> "setup", venue |-> Flash.venue,
                                                   token |-> Flash.token, amount |-> 0])])
    /\ UNCHANGED World

\* A loan is owed in the token borrowed, with Aave's premium; a flash swap
\* in the pool's other token, WBTC.
OwedFor(f, amount) ==
    CASE f.type = "Morpho" -> [token |-> f.token, amount |-> amount]
      [] f.type = "AaveV3" -> [token |-> f.token, amount |-> amount + Premium]
      [] OTHER -> [token |-> Wbtc, amount |-> amount * market.rate]

OnFlashLoan ==
    /\ Running("called")
    /\ run.phase = "FlashLoan"
    /\ market.silent # Flash.venue
    /\ Require(Consumable(evm, Callback(Flash.type), Flash.venue),
               LET owed == OwedFor(Flash, Payment)
               IN  /\ evm' = AddVenueDebt(Consume(evm), Flash.venue, owed.token, owed.amount)
                   /\ run' = [ToNext(run) EXCEPT
                                  !.stack = Append(@, [kind |-> "loan", venue |-> Flash.venue,
                                                       token |-> owed.token,
                                                       amount |-> owed.amount])])
    /\ UNCHANGED World

\* A venue that returns without calling back.
Silent ==
    /\ Running("called")
    /\ market.silent = Flash.venue
    /\ Require(Complete(evm),
               run' = [run EXCEPT !.at = "return"] /\ UNCHANGED evm)
    /\ UNCHANGED World

-----------------------------------------------------------------------------
(* The innermost frame *)

ApproveForAdapter(e, est) ==
    LET wbtcAllowance == est.wbtcPayment + est.exitBtcFee
        allowed == e.allow[Adapter]
    IN  [e EXCEPT !.allow[Adapter] =
            IF est.debtToken = Wbtc
            THEN [allowed EXCEPT ![Wbtc] = est.debtToCover + wbtcAllowance]
            ELSE [allowed EXCEPT ![est.debtToken] = est.debtToCover,
                                 ![Wbtc] = IF wbtcAllowance > 0 THEN wbtcAllowance
                                           ELSE allowed[Wbtc]]]

\* Mutant: only the debt token's allowance is withdrawn.
RevokeMutant(e, debtToken) == [e EXCEPT !.allow[Adapter][debtToken] = 0]

RevokeApprovalForAdapter(e, debtToken) ==
    [e EXCEPT !.allow[Adapter] = [@ EXCEPT ![debtToken] = 0, ![Wbtc] = 0]]

\* What the adapter asks for fairness in this frame.
Asked(est) == IF est.wbtcPayment + market.drift >= 0
              THEN est.wbtcPayment + market.drift ELSE 0

\* liquidateWithLLP takes the debt and the payment, pays out the collateral
\* and takes its fee.
PaidDebt(e, est) == Pull(e, Adapter, est.debtToken, est.debtToCover)
PaidFairly(e, est) == Pull(PaidDebt(e, est), Adapter, Wbtc, Asked(est))
PaidOut(e, est, b) ==
    [Receive(PaidFairly(e, est), Wbtc, Seized[b]) EXCEPT !.open = @ \ {b}]
Liquidatable(e, est, b) ==
    /\ b \in e.open
    /\ Asked(est) <= est.wbtcPayment
    /\ CanPull(e, Adapter, est.debtToken, est.debtToCover)
    /\ CanPull(PaidDebt(e, est), Adapter, Wbtc, Asked(est))
    /\ CanPull(PaidOut(e, est, b), Adapter, Wbtc, est.exitBtcFee)
LiquidateWithLLP(e, est, b) == Pull(PaidOut(e, est, b), Adapter, Wbtc, est.exitBtcFee)

ExecuteLiquidation ==
    /\ Stepping("LiquidationAndSwap")
    /\ LET e == ApproveForAdapter(evm, run.est)
           b == run.call.borrower
       IN  Require(Liquidatable(e, run.est, b),
                   /\ evm' = RevokeApprovalForAdapter(
                                LiquidateWithLLP(e, run.est, b), run.est.debtToken)
                   /\ run' = [run EXCEPT !.at = "swap"])
    /\ UNCHANGED World

\* The dex router's allowance is granted and withdrawn within the step.
Swap ==
    /\ Running("swap")
    /\ run.call.floor # MIN_PROFIT_REVERT_TAG
    /\ run.k < Len(run.call.swaps)
    /\ LET s == run.call.swaps[run.k + 1]
           cost == s.amount * market.rate
       IN  Require(evm.bal[Wbtc] >= cost,
                   /\ evm' = Receive([evm EXCEPT !.bal[Wbtc] = @ - cost], s.token, s.amount)
                   /\ run' = [run EXCEPT !.k = @ + 1])
    /\ UNCHANGED World

Swapped ==
    /\ Running("swap")
    /\ run.call.floor # MIN_PROFIT_REVERT_TAG
    /\ run.k = Len(run.call.swaps)
    /\ run' = [run EXCEPT !.at = "return"]
    /\ UNCHANGED <<evm, World>>

-----------------------------------------------------------------------------
(* The frames return *)

Unwinding == Running("return") /\ run.stack # <<>>
Top == Last(run.stack)
Popped == [run EXCEPT !.stack = Front(@)]

\* The end of a flash callback approves the venue, which then takes its due.
Repay ==
    /\ Unwinding
    /\ Top.kind = "loan"
    /\ LET e == [evm EXCEPT !.allow[Top.venue][Top.token] = @ + Top.amount]
       IN  Require(CanPull(e, Top.venue, Top.token, Top.amount) /\ Complete(e),
                   /\ evm' = Pull(e, Top.venue, Top.token, Top.amount)
                   /\ run' = Popped)
    /\ UNCHANGED World

Lock ==
    /\ Unwinding
    /\ Top.kind = "setup"
    /\ Require(Complete(evm) /\ Top.venue \notin evm.waiting,
               /\ evm' = [evm EXCEPT !.unlocked = FALSE]
               /\ run' = Popped)
    /\ UNCHANGED World

\* Mutant: the floor is put to the closing balance.
ProfitableMutant(e, r) == e.bal[Wbtc] >= r.call.floor

Profitable(e, r) ==
    /\ r.call.floor <= MaxUint - r.wbtcBefore
    /\ e.bal[Wbtc] >= r.wbtcBefore + r.call.floor

TransferAllReservesOut(e) ==
    [e EXCEPT !.gain = [t \in Tokens |-> @[t] + e.bal[t]], !.bal = Zero]

\* liquidate, from the return of its first iteration.
Settle ==
    /\ Running("return")
    /\ run.stack = <<>>
    /\ LET e == ClearVenueDebts(evm)
           call == run.call
       IN  Require(Profitable(e, run),
                   /\ evm' = [TransferAllReservesOut(e) EXCEPT
                                 !.sold = IF call.expected = None THEN @
                                          ELSE @ \cup {call.borrower}]
                   /\ run' = [run EXCEPT
                                 !.at = "next",
                                 !.last = [call |-> call, ok |-> TRUE,
                                           profit |-> e.bal[Wbtc] - run.wbtcBefore]])
    /\ UNCHANGED World

-----------------------------------------------------------------------------
(* FlashFunding *)

\* WBTC comes last, and with it the fairness payment.
AllFundableTokens == [n \in DOMAIN FlashSwaps |-> FlashSwaps[n].token] \o <<Wbtc>>

\* A flash swap funds a token, and the loan WBTC; what is owed is then WBTC.
BuildFlashDatas(owed) ==
    [n \in DOMAIN owed |->
        IF owed[n] = Wbtc
        THEN [type |-> LoanVenue.type, venue |-> LoanVenue.venue, token |-> Wbtc]
        ELSE LET v == CHOOSE m \in DOMAIN FlashSwaps : FlashSwaps[m].token = owed[n]
             IN  [type |-> "UniswapV4FlashSwap", venue |-> FlashSwaps[v].venue,
                  token |-> owed[n]]]

Idle == run = None

\* vet: the baseline every probe of the pass is quoted against.
Vet ==
    /\ Idle
    /\ bot' = [baseline |-> evm.bal[Wbtc], todo |-> evm.open,
               quotes |-> [b \in Borrowers |-> None]]
    /\ UNCHANGED <<evm, run, market, given>>

Submit(calls, requireSuccess) ==
    run' = [requireSuccess |-> requireSuccess, rest |-> calls,
            start |-> evm, entry |-> evm, call |-> None, wbtcBefore |-> 0,
            est |-> None, phase |-> "Setup", i |-> 1, at |-> "next", k |-> 0,
            stack |-> <<>>, last |-> None]

\* Whether the baseline is the router's balance is history.
ProbeArgs(b) ==
    [borrower |-> b, floor |-> MIN_PROFIT_REVERT_TAG,
     flash |-> BuildFlashDatas(AllFundableTokens), swaps |-> <<>>, expected |-> None,
     fresh |-> bot.baseline = evm.bal[Wbtc]]

\* The simulation of one candidate.
Probe(b) ==
    /\ Idle
    /\ b \in bot.todo
    /\ Submit(<<ProbeArgs(b)>>, TRUE)
    /\ bot' = [bot EXCEPT !.todo = @ \ {b}]
    /\ UNCHANGED <<evm, market, given>>

SumOfDebts(debts) == FoldSeq(LAMBDA d, sum : d.amount + sum, 0, debts)
\* Mutant: the router's own balance is taken for profit.
QuoteProfitMutant(net, debts) == net - SumOfDebts(debts)

QuoteProfit(net, debts) == (net - bot.baseline) - SumOfDebts(debts)

MinWbtcProfitFloor(expected) ==
    LET afterSlippage == (expected * (10000 - SlippageBps)) \div 10000
    IN  IF MinProfit > afterSlippage THEN MinProfit ELSE afterSlippage

\* A candidate is viable if its debts are WBTC and its quote clears zero;
\* the gate takes no action below MinProfit.
Viable(expected, debts) ==
    /\ \A n \in DOMAIN debts : debts[n].token = Wbtc
    /\ expected > 0
    /\ expected >= MinProfit

Funded(call, expected) ==
    [call EXCEPT !.floor = MinWbtcProfitFloor(expected), !.expected = expected]

\* The probe's liquidation is done, and reverts with the router's balance
\* and debts.
BelovedError ==
    /\ Running("swap")
    /\ run.call.floor = MIN_PROFIT_REVERT_TAG
    /\ LET expected == QuoteProfit(evm.bal[Wbtc], AllDebts(evm))
       IN  bot' = IF Viable(expected, AllDebts(evm))
                  THEN [bot EXCEPT !.quotes[run.call.borrower] = Funded(run.call, expected)]
                  ELSE bot
    /\ evm' = run.start
    /\ run' = None
    /\ UNCHANGED <<market, given>>

Quoted == {b \in Borrowers : bot.quotes[b] # None}
Offered == {bot.quotes[b] : b \in Quoted} \cup HandMade
\* A transaction of one call, or a multicall of two, is included.
Transactions == {<<c>> : c \in Offered}
                   \cup {p \in Offered \X Offered : p[1] # p[2]}

Include ==
    /\ Idle
    /\ bot.todo = {}
    /\ \E calls \in Transactions, requireSuccess \in BOOLEAN :
          /\ Len(calls) = 1 => requireSuccess
          /\ Submit(calls, requireSuccess)
          /\ bot' = [bot EXCEPT !.quotes =
                       [b \in Borrowers |-> IF \E n \in DOMAIN calls : calls[n] = @[b]
                                            THEN None ELSE @[b]]]
    /\ UNCHANGED <<evm, market, given>>

\* The transaction is over, and with it what its transient storage held.
End ==
    /\ Running("next")
    /\ run.rest = <<>>
    /\ evm' = [evm EXCEPT !.expected = None, !.waiting = {}, !.debts = <<>>]
    /\ run' = None
    /\ UNCHANGED World

Move ==
    /\ Idle
    /\ market' \in Markets \ {market}
    /\ bot' = [bot EXCEPT !.quotes = [b \in Borrowers |->
                   IF @[b] = None THEN None ELSE [@[b] EXCEPT !.fresh = FALSE]]]
    /\ UNCHANGED <<evm, run, given>>

Give ==
    /\ Idle
    /\ given < MaxGift
    /\ given' = given + 1
    /\ evm' = Receive(evm, Wbtc, 1)
    /\ UNCHANGED <<run, market, bot>>

Next ==
    \/ Liquidate \/ SkipSetup \/ SetUp \/ SkipLoan \/ FlashLoan
    \/ OnSetUpCallback \/ OnFlashLoan \/ Silent
    \/ ExecuteLiquidation \/ Swap \/ Swapped \/ BelovedError
    \/ Repay \/ Lock \/ Settle \/ End
    \/ Vet \/ Include \/ Move \/ Give
    \/ \E b \in Borrowers : Probe(b)

Spec == Init /\ [][Next]_vars

-----------------------------------------------------------------------------

\* Between the calls of a transaction nothing of a call is left behind: no
\* allowance, no debt on the list, no callback awaited, no unlocked pool
\* manager; and a call that succeeded has liquidated its borrower and left
\* the router no token.  (_clearVenueDebts, _revokeApprovalForAdapter,
\* _requireCompleteCallback, _transferAllReservesOut.)
CallsEndWhole ==
    Running("next") =>
        /\ evm.allow = [s \in Spenders |-> Zero]
        /\ evm.debts = <<>> /\ evm.expected = None
        /\ evm.waiting = {} /\ ~evm.unlocked
        /\ run.last # None /\ run.last.ok =>
              run.last.call.borrower \notin evm.open /\ evm.bal = Zero

\* What the owner received and the router holds beyond the WBTC it was
\* given is at least RISK_MIN_PROFIT for every liquidation of the bot,
\* whatever moved, or was given, between its baseline, its probe and its
\* call.  (The floor of liquidate is a difference, flash.ts carries
\* minProfit to the chain.)
EveryLiquidationPays ==
    Idle => evm.gain[Wbtc] + evm.bal[Wbtc] >= given + MinProfit * Cardinality(evm.sold)

\* A call whose borrower is still there, in the market its probe saw and
\* quoted against the balance its probe saw, succeeds and earns exactly the
\* quote: neither WBTC given since nor another call of the batch changes it.
FreshQuoteStands ==
    Running("next") /\ run.last # None =>
        LET call == run.last.call
        IN  call.expected # None /\ call.fresh /\ call.borrower \in run.entry.open
            => run.last.ok /\ run.last.profit = call.expected
=============================================================================
