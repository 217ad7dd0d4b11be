----------------------- MODULE LiquidationRouter_proofs -----------------------
(***************************************************************************)
(* Proofs about LiquidationRouter, for any borrowers, registry, market,    *)
(* calls made by hand and lists of flash loans.                            *)
(*                                                                         *)
(* Five invariants, each resting on the ones before it.  BaseInv: a probe  *)
(* has a baseline to be quoted against.  WholeInv: what is awaited and     *)
(* unlocked is at every step what the cursor and the frames say, so that   *)
(* the last frame leaves nothing.  PayInv: every call of the bot asks for  *)
(* RISK_MIN_PROFIT beyond the balance it found.  FitInv: what the router   *)
(* holds beyond that is on its list of debts, or brought by the            *)
(* liquidation, so a quote is a word if the collateral is.  ExactInv: what *)
(* a call of the bot has lent, owes and keeps is at every step a sum over  *)
(* its loans, the same in the probe and in the call.                       *)
(*                                                                         *)
(* A step of a call is used through its effect: it reverts to the state    *)
(* the call or its transaction found, or it changes the fields its effect  *)
(* lemma names.                                                            *)
(***************************************************************************)
EXTENDS LiquidationRouter, SumTheorems, SequenceTheorems, FiniteSetTheorems, TLAPS

\* What the rest needs of the constants that are amounts.
LEMMA Amounts ==
  /\ Premium \in Nat /\ Fee \in Nat
  /\ MaxGift \in Nat /\ MaxUint \in Nat /\ MinProfit \in Nat
  /\ SlippageBps \in 0..10000
<1>1. Premium \in Nat /\ Fee \in Nat
  BY LiquidationAssumption
<1>2. MaxGift \in Nat /\ MaxUint \in Nat /\ MinProfit \in Nat
  BY LiquidationAssumption
<1>3. SlippageBps \in 0..10000
  BY LiquidationAssumption
<1> QED
  BY <1>1, <1>2, <1>3

LEMMA NoneIsNoAmount == None \notin Nat
<1>1. None \notin Int
  BY LiquidationAssumption
<1> QED
  BY <1>1

-----------------------------------------------------------------------------
(* The debts of the router *)

AmountOf(debts) == [n \in DOMAIN debts |-> debts[n].amount]

LEMMA AmountsSum ==
  ASSUME NEW T, \A d \in T : d.amount \in Nat, NEW debts \in Seq(T)
  PROVE  /\ Weights(AmountOf(debts), DOMAIN debts)
         /\ SumOfDebts(debts) = Sum(AmountOf(debts), DOMAIN debts)
         /\ SumOfDebts(debts) \in Nat
<1> DEFINE w == AmountOf(debts)
           D == DOMAIN debts
<1>1. D = 1..Len(debts) /\ Len(debts) \in Nat
  BY LenProperties
<1>2. IsFiniteSet(D)
  BY <1>1, FS_Interval
<1>3. \A n \in D : debts[n].amount \in Nat
  <2>1. \A n \in D : debts[n] \in T
    BY <1>1, ElementOfSeq
  <2> QED
    BY <2>1
<1>4. Weights(w, D)
  BY <1>2, <1>3 DEF Weights, AmountOf
<1> DEFINE Fold(f) == f = [s \in SUBSET D |-> IF s = {} THEN 0
                             ELSE debts[Pick(s)].amount + f[s \ {Pick(s)}]]
<1>5. SumOfDebts(debts) = (CHOOSE f : Fold(f))[D]
  BY DEF SumOfDebts, FoldSeq, FoldFunction, FoldFunctionOnSet, MapThenFoldSet, Pick
<1>6. \A f : Fold(f) <=> Sums(f, D, w)
  <2> SUFFICES ASSUME NEW f PROVE Fold(f) <=> Sums(f, D, w)
    OBVIOUS
  <2>1. \A s \in SUBSET D : s # {} => w[Pick(s)] = debts[Pick(s)].amount
    BY Picked DEF AmountOf
  <2>2. \A s \in SUBSET D : Step(f, s, w) = IF s = {} THEN 0
                             ELSE debts[Pick(s)].amount + f[s \ {Pick(s)}]
    BY <2>1 DEF Step
  <2> QED
    BY <2>2 DEF Sums
<1>7. Sums(CHOOSE f : Fold(f), D, w)
  <2>1. \E f : Fold(f)
    BY <1>2, <1>6, SumExists
  <2> HIDE DEF Fold
  <2> QED
    BY <1>6, <2>1
<1> DEFINE g == CHOOSE f : Fold(f)
<1> HIDE DEF g, D, w
<1>8. g[D] = Sum(w, D)
  BY <1>2, <1>7, SumByRecursion DEF g
<1>10. SumOfDebts(debts) = Sum(w, D)
  BY <1>5, <1>8 DEF g
<1>11. Sum(w, D) \in Nat
  BY <1>4, SumIsNat
<1> QED
  BY <1>4, <1>10, <1>11 DEF w, D

\* One debt more.
LEMMA AmountsGrow ==
  ASSUME NEW T, \A d \in T : d.amount \in Nat, NEW debts \in Seq(T), NEW d \in T
  PROVE  SumOfDebts(Append(debts, d)) = SumOfDebts(debts) + d.amount
<1> DEFINE more == Append(debts, d)
           n == Len(debts)
<1>1. /\ more \in Seq(T) /\ Len(more) = n + 1 /\ n \in Nat
      /\ \A m \in 1..n : more[m] = debts[m]
      /\ more[n + 1] = d
  BY AppendProperties, LenProperties
<1>2. DOMAIN more = 1..(n + 1) /\ DOMAIN debts = 1..n
  BY <1>1, LenProperties
<1> HIDE DEF more, n
<1> DEFINE w == AmountOf(more)
           v == AmountOf(debts)
<1>3. /\ Weights(w, 1..(n + 1)) /\ SumOfDebts(more) = Sum(w, 1..(n + 1))
      /\ SumOfDebts(debts) = Sum(v, 1..n) /\ SumOfDebts(debts) \in Nat
  BY <1>1, <1>2, AmountsSum
<1>4. /\ w[n + 1] = d.amount /\ \A m \in 1..n : w[m] = v[m]
      /\ (1..(n + 1)) \ {n + 1} = 1..n
  BY <1>1, <1>2 DEF AmountOf
<1>5. d.amount \in Nat
  OBVIOUS
<1> HIDE DEF w, v
<1>6. Sum(w, 1..(n + 1)) = w[n + 1] + Sum(w, (1..(n + 1)) \ {n + 1})
  <2>1. n + 1 \in 1..(n + 1) /\ 1..(n + 1) \in SUBSET (1..(n + 1))
    BY <1>1
  <2> QED
    BY <1>3, <2>1, SumRemove
<1>7. Sum(w, 1..n) = Sum(v, 1..n)
  <2> DEFINE S == 1..n
  <2>1. \A m \in S : w[m] = v[m]
    BY <1>4
  <2>2. 1 \in Int /\ n \in Int
    BY <1>1
  <2>3. IsFiniteSet(S)
    BY <2>2, FS_Interval
  <2> HIDE DEF S
  <2>4. Sum(w, S) = Sum(v, S)
    BY <2>1, <2>3, SumSame
  <2> QED
    BY <2>4 DEF S
<1>8. SumOfDebts(more) = d.amount + SumOfDebts(debts)
  BY <1>3, <1>4, <1>6, <1>7
<1> QED
  BY <1>3, <1>5, <1>8 DEF more

\* The router's debts have amounts, and so have its frames.
LEMMA DebtsSum ==
  ASSUME NEW debts \in Seq(VenueDebt)
  PROVE  /\ Weights(AmountOf(debts), DOMAIN debts)
         /\ SumOfDebts(debts) = Sum(AmountOf(debts), DOMAIN debts)
         /\ SumOfDebts(debts) \in Nat
<1>1. \A d \in VenueDebt : d.amount \in Nat
  BY DEF VenueDebt
<1> HIDE DEF VenueDebt
<1> QED
  BY <1>1, AmountsSum

LEMMA DebtsGrow ==
  ASSUME NEW debts \in Seq(VenueDebt), NEW d \in VenueDebt
  PROVE  SumOfDebts(Append(debts, d)) = SumOfDebts(debts) + d.amount
<1>1. \A c \in VenueDebt : c.amount \in Nat
  BY DEF VenueDebt
<1> HIDE DEF VenueDebt
<1> QED
  BY <1>1, AmountsGrow

LEMMA FramesSum ==
  ASSUME NEW stack \in Seq(Frame)
  PROVE  /\ SumOfDebts(stack) \in Nat
         /\ \A f \in Frame : SumOfDebts(Append(stack, f)) = SumOfDebts(stack) + f.amount
<1>1. \A f \in Frame : f.amount \in Nat
  BY DEF Frame
<1> HIDE DEF Frame
<1> QED
  BY <1>1, AmountsSum, AmountsGrow

LEMMA NoDebts == SumOfDebts(<<>>) = 0
<1>1. <<>> \in Seq(VenueDebt) /\ DOMAIN <<>> = {}
  OBVIOUS
<1>2. {} \in SUBSET {}
  OBVIOUS
<1>3. Weights(AmountOf(<<>>), {}) /\ SumOfDebts(<<>>) = Sum(AmountOf(<<>>), {})
  BY <1>1, DebtsSum
<1> QED
  BY <1>2, <1>3, SumStep

-----------------------------------------------------------------------------
(* Types.  That a floor is a word is left to the end: nothing else depends *)
(* on it.                                                                  *)

AnyBot == [baseline : Nat \cup {None}, todo : SUBSET Borrowers,
           quotes : [Borrowers -> Call \cup {None}]]

\* A call under way has been read, and its cursor is on its list.
Under(r) == r.at # "next" =>
    /\ r.call \in Call
    /\ r.est \in Estimate
    /\ r.phase # "LiquidationAndSwap" => r.i \in 1..Len(r.call.flash)
    /\ r.at = "called" => r.phase # "LiquidationAndSwap"

Typed ==
    /\ evm \in Evm
    /\ run \in Run \cup {None}
    /\ market \in Markets
    /\ given \in 0..MaxGift
    /\ bot \in AnyBot
    /\ run # None => Under(run)

\* The tokens that are paid and owed are tokens.
LEMMA TokenTypes ==
  /\ Wbtc \in Tokens /\ Adapter \in Spenders /\ \A v \in Venues : v \in Spenders
  /\ Zero \in [Tokens -> Nat]
  /\ LoanVenue.venue \in Venues
  /\ \A n \in DOMAIN FlashSwaps :
        FlashSwaps[n].token \in Tokens /\ FlashSwaps[n].venue \in Venues
  /\ \A b \in Borrowers : Debt[b].token \in Tokens
<1>1. Wbtc \in Tokens /\ \A b \in Borrowers : Debt[b].token \in Tokens
  BY DEF Tokens
<1>2. /\ Adapter \in Spenders /\ \A v \in Venues : v \in Spenders
      /\ Zero \in [Tokens -> Nat]
  BY DEF Spenders, Zero
<1>3. LoanVenue.venue \in Venues
  BY LiquidationAssumption
<1>4. \A n \in DOMAIN FlashSwaps : FlashSwaps[n] \in [token : Tokens, venue : Venues]
  <2> DEFINE Swaps == [token : Tokens, venue : Venues]
  <2>1. FlashSwaps \in Seq(Swaps)
    BY LiquidationAssumption
  <2> HIDE DEF Swaps
  <2>2. \A n \in DOMAIN FlashSwaps : FlashSwaps[n] \in Swaps
    BY <2>1, LenProperties, ElementOfSeq
  <2> QED
    BY <2>2 DEF Swaps
<1> QED
  BY <1>1, <1>2, <1>3, <1>4

LEMMA TypesInit == Init => Typed
<1> SUFFICES ASSUME Init PROVE Typed
  OBVIOUS
<1>1. evm \in Evm
  <2>0. /\ Borrowers \in SUBSET Borrowers /\ {} \in SUBSET Borrowers
        /\ {} \in SUBSET Venues /\ <<>> \in Seq(VenueDebt)
    OBVIOUS
  <2>1. [s \in Spenders |-> Zero] \in [Spenders -> [Tokens -> Nat]]
    BY TokenTypes
  <2> QED
    BY <2>0, <2>1, TokenTypes DEF Init, Evm
<1>2. 0 \in 0..MaxGift
  BY LiquidationAssumption
<1> QED
  BY <1>1, <1>2 DEF Init, Typed, AnyBot

LEMMA FailTypes ==
  ASSUME Typed, NEW r \in Run, r.call \in Call, r.start \in Evm, r.entry \in Evm, Fail(r)
  PROVE  /\ evm' \in Evm
         /\ run' \in Run
         /\ run'.at = "next"
         /\ run'.last = [call |-> r.call, ok |-> FALSE, profit |-> 0]
<1>1. <<>> \in Seq(Call) /\ 0 \in Int
  OBVIOUS
<1>2. [call |-> r.call, ok |-> FALSE, profit |-> 0] \in Result
  BY <1>1 DEF Result
<1> HIDE DEF Call
<1>3. run' \in Run /\ run'.at = "next"
      /\ run'.last = [call |-> r.call, ok |-> FALSE, profit |-> 0]
  BY <1>1, <1>2 DEF Fail, Run
<1> QED
  BY <1>3 DEF Fail

LEMMA ToNextTypes ==
  ASSUME NEW r \in Run, r.call \in Call, r.est \in Estimate, r.i \in 1..Len(r.call.flash),
         r.phase # "LiquidationAndSwap"
  PROVE  ToNext(r) \in Run /\ Under(ToNext(r))
         /\ ToNext(r).call = r.call /\ ToNext(r).at = "step"
<1>1. Len(r.call.flash) \in Nat
  BY DEF Call
<1>2. PICK phase \in {"Setup", "FlashLoan", "LiquidationAndSwap"}, n \in Nat :
         /\ ToNext(r) = [r EXCEPT !.at = "step", !.i = n, !.phase = phase]
         /\ phase # "LiquidationAndSwap" => n \in 1..Len(r.call.flash)
  <2> DEFINE last == r.i = Len(r.call.flash)
             phase == IF ~last THEN r.phase ELSE IF r.phase = "Setup" THEN "FlashLoan"
                      ELSE "LiquidationAndSwap"
             n == IF last THEN 1 ELSE r.i + 1
  <2>1. ToNext(r) = [r EXCEPT !.at = "step", !.i = n, !.phase = phase]
    BY DEF ToNext, Run
  <2>2. phase \in {"Setup", "FlashLoan", "LiquidationAndSwap"}
    BY DEF Run
  <2>3. n \in 1..Len(r.call.flash) /\ n \in Nat
    BY <1>1
  <2> HIDE DEF phase, n
  <2> QED
    BY <2>1, <2>2, <2>3
<1> HIDE DEF Call
<1>3. /\ ToNext(r) \in Run
      /\ ToNext(r).call = r.call /\ ToNext(r).at = "step" /\ ToNext(r).est = r.est
      /\ ToNext(r).phase = phase /\ ToNext(r).i = n
  BY <1>2 DEF Run
<1> QED
  BY <1>2, <1>3 DEF Under

LEMMA ReceiveTypes ==
  ASSUME NEW e \in Evm, NEW token \in Tokens, NEW amount \in Nat
  PROVE  Receive(e, token, amount) \in Evm
<1>1. e.bal \in [Tokens -> Nat]
  BY DEF Evm
<1>2. [e.bal EXCEPT ![token] = e.bal[token] + amount] \in [Tokens -> Nat]
  BY <1>1
<1>3. Receive(e, token, amount) = [e EXCEPT !.bal = [e.bal EXCEPT ![token] = e.bal[token] + amount]]
  BY DEF Receive, Evm
<1> QED
  BY <1>2, <1>3 DEF Evm

LEMMA PullTypes ==
  ASSUME NEW e \in Evm, NEW spender \in Spenders, NEW token \in Tokens, NEW amount \in Nat,
         CanPull(e, spender, token, amount)
  PROVE  Pull(e, spender, token, amount) \in Evm
<1>1. /\ e.bal \in [Tokens -> Nat] /\ e.allow \in [Spenders -> [Tokens -> Nat]]
      /\ e.allow[spender] \in [Tokens -> Nat]
  BY DEF Evm
<1> DEFINE bal == [e.bal EXCEPT ![token] = e.bal[token] - amount]
           mine == [e.allow[spender] EXCEPT ![token] = e.allow[spender][token] - amount]
           allow == [e.allow EXCEPT ![spender] = mine]
<1>2. e.bal[token] - amount \in Nat /\ e.allow[spender][token] - amount \in Nat
  BY <1>1 DEF CanPull
<1>3. bal \in [Tokens -> Nat] /\ mine \in [Tokens -> Nat]
  BY <1>1, <1>2
<1> HIDE DEF mine
<1>4. allow \in [Spenders -> [Tokens -> Nat]]
  BY <1>1, <1>3
<1>5. Pull(e, spender, token, amount) = [e EXCEPT !.allow = allow, !.bal = bal]
  BY DEF Pull, Evm, mine
<1> HIDE DEF bal, allow
<1> QED
  BY <1>3, <1>4, <1>5 DEF Evm

LEMMA ApproveTypes ==
  ASSUME NEW e \in Evm, NEW spender \in Spenders, NEW f \in [Tokens -> Nat]
  PROVE  [e EXCEPT !.allow[spender] = f] \in Evm
<1>1. e.allow \in [Spenders -> [Tokens -> Nat]]
  BY DEF Evm
<1>2. [e.allow EXCEPT ![spender] = f] \in [Spenders -> [Tokens -> Nat]]
  BY <1>1
<1>3. [e EXCEPT !.allow[spender] = f] = [e EXCEPT !.allow = [e.allow EXCEPT ![spender] = f]]
  BY DEF Evm
<1> QED
  BY <1>2, <1>3 DEF Evm

\* What a running step may do: revert, or move state and cursor and nothing else.
Moved == evm' \in Evm /\ run' \in Run /\ Under(run') /\ UNCHANGED World

LEMMA MovedTypes ==
  ASSUME Typed, Moved
  PROVE  Typed'
<1> QED
  BY DEF Typed, Moved, World

LEMMA FailMoves ==
  ASSUME Typed, run # None, run.at # "next", Fail(run), UNCHANGED World
  PROVE  Moved
<1>1. run \in Run /\ run.call \in Call
  BY DEF Typed, Under
<1>2. run.start \in Evm /\ run.entry \in Evm
  BY <1>1 DEF Run
<1> QED
  BY <1>1, <1>2, FailTypes DEF Moved, Under

\* The flash loan a step is about, and what it is asked for.
LEMMA FlashTypes ==
  ASSUME Typed, run # None, run.at # "next", run.phase # "LiquidationAndSwap"
  PROVE  /\ run \in Run /\ run.call \in Call /\ run.est \in Estimate
         /\ run.i \in 1..Len(run.call.flash) /\ Flash \in FlashData
         /\ Payment \in Nat /\ evm \in Evm
<1>1. /\ run \in Run /\ run.call \in Call /\ run.est \in Estimate
      /\ run.i \in 1..Len(run.call.flash)
  BY DEF Typed, Under
<1>2. run.call.flash \in Seq(FlashData)
  BY <1>1 DEF Call
<1>3. Flash \in FlashData
  BY <1>1, <1>2, ElementOfSeq DEF Flash
<1>4. Payment \in Nat
  BY <1>1 DEF Payment, PaymentIn, Estimate
<1> QED
  BY <1>1, <1>3, <1>4 DEF Typed

LEMMA LiquidateTypes == Typed /\ Liquidate => Moved
<1> SUFFICES ASSUME Typed, Liquidate PROVE Moved
  OBVIOUS
<1> DEFINE call == Head(run.rest)
           r == [run EXCEPT !.rest = Tail(@), !.call = call, !.entry = evm]
<1>1. run \in Run /\ run.rest # <<>> /\ evm \in Evm /\ run # None /\ UNCHANGED World
  BY DEF Liquidate, Running, Typed
<1>2. call \in Call /\ Tail(run.rest) \in Seq(Call)
  <2>1. run.rest \in Seq(Call)
    BY <1>1 DEF Run
  <2> HIDE DEF Call
  <2> QED
    BY <1>1, <2>1, HeadTailProperties
<1>3. \/ Fail(r)
      \/ /\ call.flash # <<>> /\ call.borrower \in evm.open
         /\ run' = [r EXCEPT !.at = "step", !.wbtcBefore = evm.bal[Wbtc],
                            !.est = EstLiquidationPayment(call.borrower),
                            !.phase = "Setup", !.i = 1, !.k = 0, !.stack = <<>>]
         /\ UNCHANGED evm
  BY DEF Liquidate
<1> HIDE DEF call
<1>4. r \in Run /\ r.call = call /\ r.start \in Evm /\ r.entry = evm
  <2> HIDE DEF Call
  <2> QED
    BY <1>1, <1>2 DEF Run
<1>5. CASE Fail(r)
  <2> HIDE DEF r
  <2>1. evm' \in Evm /\ run' \in Run /\ run'.at = "next"
    BY <1>1, <1>2, <1>4, <1>5, FailTypes
  <2> QED
    BY <1>1, <2>1, MovedTypes DEF Moved, Under
<1>6. CASE ~Fail(r)
  <2>1. /\ evm.bal[Wbtc] \in Nat /\ <<>> \in Seq(Frame)
        /\ EstLiquidationPayment(call.borrower) \in Estimate
    <3>1. market.pay \in Nat
      BY LiquidationAssumption DEF Typed, Market
    <3>2. call.borrower \in Borrowers
      BY <1>2 DEF Call
    <3>3. evm.bal[Wbtc] \in Nat
      BY <1>1, TokenTypes DEF Evm
    <3>4. /\ Debt[call.borrower].token \in Tokens /\ Debt[call.borrower].amount \in Nat
          /\ Fee \in Nat
      BY <3>2, TokenTypes, LiquidationAssumption
    <3> QED
      BY <3>1, <3>3, <3>4 DEF EstLiquidationPayment, Estimate
  <2>2. 1 \in 1..Len(call.flash)
    <3>1. call.flash \in Seq(FlashData) /\ call.flash # <<>>
      BY <1>2, <1>3, <1>6 DEF Call
    <3> QED
      BY <3>1, EmptySeq
  <2> DEFINE est == EstLiquidationPayment(call.borrower)
             before == evm.bal[Wbtc]
  <2> HIDE DEF est, before
  <2>3. /\ run' \in Run /\ run'.call = call /\ run'.est = est /\ run'.phase = "Setup"
        /\ run'.i = 1 /\ run'.at = "step"
    <3>1. est \in Estimate /\ before \in Nat /\ <<>> \in Seq(Frame)
      BY <2>1 DEF est, before
    <3>2. run' = [r EXCEPT !.at = "step", !.wbtcBefore = before, !.est = est,
                           !.phase = "Setup", !.i = 1, !.k = 0, !.stack = <<>>]
      BY <1>3, <1>6 DEF est, before
    <3> HIDE DEF r, Call
    <3> QED
      BY <1>4, <3>1, <3>2 DEF Run
  <2>4. Under(run') /\ evm' \in Evm
    BY <1>1, <1>2, <1>3, <1>6, <2>1, <2>2, <2>3 DEF Under, est
  <2> QED
    BY <1>1, <2>3, <2>4, MovedTypes DEF Moved
<1> QED
  BY <1>5, <1>6

LEMMA SkipTypes == Typed /\ (SkipSetup \/ SkipLoan) => Moved
<1> SUFFICES ASSUME Typed, SkipSetup \/ SkipLoan PROVE Moved
  OBVIOUS
<1>1. /\ run # None /\ run.at = "step" /\ run.phase # "LiquidationAndSwap"
      /\ run' = ToNext(run) /\ UNCHANGED <<evm, World>>
  BY DEF SkipSetup, SkipLoan, Stepping, Running
<1>2. evm' \in Evm
  BY <1>1 DEF Typed
<1> QED
  BY <1>1, <1>2, FlashTypes, ToNextTypes, MovedTypes DEF Moved

\* The slot is armed for a callback.
LEMMA ExpectTypes ==
  ASSUME NEW e \in Evm, NEW callback \in {"onSetUpCallback", "onMorphoFlashLoan",
                            "executeOperation", "onSwapVenueFlashSwap"},
         NEW from \in Venues
  PROVE  Expect(e, callback, from) \in Evm /\ Consume(e) \in Evm
<1> QED
  BY DEF Expect, Consume, Expectation, Evm

LEMMA SetUpTypes == Typed /\ SetUp => Moved
<1> SUFFICES ASSUME Typed, SetUp PROVE Moved
  OBVIOUS
<1>1. run # None /\ run.at = "step" /\ run.phase = "Setup" /\ NeedsSetup /\ UNCHANGED World
  BY DEF SetUp, Stepping, Running
<1>2. CASE Fail(run)
  BY <1>1, <1>2, FailMoves, MovedTypes
<1>3. CASE ~Fail(run)
  <2>1. /\ evm' = [Expect(evm, "onSetUpCallback", Flash.venue) EXCEPT
                       !.waiting = @ \cup {Flash.venue}, !.unlocked = TRUE]
        /\ run' = [run EXCEPT !.at = "called"]
    BY <1>3 DEF SetUp, Require
  <2>2. run' \in Run /\ Under(run')
    BY <1>1, <2>1, FlashTypes DEF Run, Under
  <2>3. Flash.venue \in Venues
    BY <1>1, FlashTypes DEF FlashData
  <2> DEFINE e == Expect(evm, "onSetUpCallback", Flash.venue)
  <2>4. e \in Evm
    BY <1>1, <2>3, FlashTypes, ExpectTypes
  <2> HIDE DEF e
  <2>5. evm' = [e EXCEPT !.waiting = e.waiting \cup {Flash.venue}, !.unlocked = TRUE]
    BY <2>1 DEF e
  <2>6. evm' \in Evm
    BY <2>3, <2>4, <2>5 DEF Evm
  <2> QED
    BY <1>1, <2>2, <2>6, MovedTypes DEF Moved
<1> QED
  BY <1>2, <1>3

LEMMA CallbackType == \A f \in FlashData : Callback(f.type) \in {"onSetUpCallback",
      "onMorphoFlashLoan", "executeOperation", "onSwapVenueFlashSwap"}
<1> QED
  BY DEF Callback, FlashData, VenueTypes

LEMMA LoanTypes == Typed /\ FlashLoan => Moved
<1> SUFFICES ASSUME Typed, FlashLoan PROVE Moved
  OBVIOUS
<1>1. run # None /\ run.at = "step" /\ run.phase = "FlashLoan" /\ UNCHANGED World
  BY DEF FlashLoan, Stepping, Running
<1>2. CASE Fail(run)
  BY <1>1, <1>2, FailMoves, MovedTypes
<1>3. CASE ~Fail(run)
  <2>1. /\ evm' = Receive(Expect(evm, Callback(Flash.type), Flash.venue),
                          Flash.token, Payment)
        /\ run' = [run EXCEPT !.at = "called"]
    BY <1>3 DEF FlashLoan, Require
  <2>2. run' \in Run /\ Under(run')
    BY <1>1, <2>1, FlashTypes DEF Run, Under
  <2>3. Flash.venue \in Venues /\ Flash.token \in Tokens /\ Payment \in Nat /\ evm \in Evm
    BY <1>1, FlashTypes DEF FlashData
  <2>4. Expect(evm, Callback(Flash.type), Flash.venue) \in Evm
    BY <1>1, <2>3, FlashTypes, CallbackType, ExpectTypes
  <2>5. evm' \in Evm
    BY <2>1, <2>3, <2>4, ReceiveTypes
  <2> QED
    BY <1>1, <2>2, <2>5, MovedTypes DEF Moved
<1> QED
  BY <1>2, <1>3

\* A callback opens a frame and goes on to the next iteration.
LEMMA FrameTypes ==
  ASSUME Typed, run # None, run.at = "called", NEW f \in Frame,
         run' = [ToNext(run) EXCEPT !.stack = Append(@, f)]
  PROVE  run' \in Run /\ Under(run')
<1>1. /\ run \in Run /\ run.call \in Call /\ run.est \in Estimate
      /\ run.i \in 1..Len(run.call.flash) /\ run.phase # "LiquidationAndSwap"
  BY DEF Typed, Under
<1>2. ToNext(run) \in Run /\ Under(ToNext(run)) /\ ToNext(run).at = "step"
  BY <1>1, ToNextTypes
<1>3. Append(ToNext(run).stack, f) \in Seq(Frame)
  BY <1>2 DEF Run
<1> HIDE DEF Frame
<1> QED
  BY <1>2, <1>3 DEF Run, Under

LEMMA OnSetUpTypes == Typed /\ OnSetUpCallback => Moved
<1> SUFFICES ASSUME Typed, OnSetUpCallback PROVE Moved
  OBVIOUS
<1>1. run # None /\ run.at = "called" /\ run.phase = "Setup" /\ UNCHANGED World
  BY DEF OnSetUpCallback, Running
<1>2. CASE Fail(run)
  BY <1>1, <1>2, FailMoves, MovedTypes
<1>3. CASE ~Fail(run)
  <2> DEFINE f == [kind |-> "setup", venue |-> Flash.venue, token |-> Flash.token, amount |-> 0]
  <2>1. /\ evm' = [Consume(evm) EXCEPT !.waiting = @ \ {Flash.venue}]
        /\ run' = [ToNext(run) EXCEPT !.stack = Append(@, f)]
    BY <1>3 DEF OnSetUpCallback, Require
  <2>2. f \in Frame /\ evm \in Evm
    BY <1>1, FlashTypes DEF FlashData, Frame
  <2>3. evm' \in Evm
    BY <2>1, <2>2 DEF Consume, Evm
  <2> QED
    BY <1>1, <2>1, <2>2, <2>3, FrameTypes, MovedTypes DEF Moved
<1> QED
  BY <1>2, <1>3

LEMMA OwedTypes ==
  ASSUME market \in Market, NEW f \in FlashData, NEW amount \in Nat
  PROVE  OwedFor(f, amount) \in [token : Tokens, amount : Nat]
<1>1. market.rate \in Nat /\ Premium \in Nat /\ f.token \in Tokens /\ Wbtc \in Tokens
  BY Amounts, TokenTypes DEF Market, FlashData
<1>2. amount * market.rate \in Nat /\ amount + Premium \in Nat
  BY <1>1
<1> QED
  BY <1>1, <1>2 DEF OwedFor

LEMMA OnLoanTypes == Typed /\ OnFlashLoan => Moved
<1> SUFFICES ASSUME Typed, OnFlashLoan PROVE Moved
  OBVIOUS
<1>1. run # None /\ run.at = "called" /\ run.phase = "FlashLoan" /\ UNCHANGED World
  BY DEF OnFlashLoan, Running
<1>2. CASE Fail(run)
  BY <1>1, <1>2, FailMoves, MovedTypes
<1>3. CASE ~Fail(run)
  <2> DEFINE owed == OwedFor(Flash, Payment)
             f == [kind |-> "loan", venue |-> Flash.venue, token |-> owed.token,
                   amount |-> owed.amount]
             d == [token |-> owed.token, venue |-> Flash.venue, amount |-> owed.amount]
  <2>1. /\ evm' = AddVenueDebt(Consume(evm), Flash.venue, owed.token, owed.amount)
        /\ run' = [ToNext(run) EXCEPT !.stack = Append(@, f)]
    BY <1>3 DEF OnFlashLoan, Require
  <2>2. market \in Market
    BY LiquidationAssumption DEF Typed
  <2>3. owed \in [token : Tokens, amount : Nat] /\ Flash.venue \in Venues /\ evm \in Evm
    BY <1>1, <2>2, FlashTypes, OwedTypes DEF FlashData
  <2> HIDE DEF owed
  <2>4. f \in Frame /\ d \in VenueDebt
    BY <2>3 DEF Frame, VenueDebt
  <2>5. evm' \in Evm
    <3>1. evm' = [Consume(evm) EXCEPT !.debts = Append(evm.debts, d)]
      BY <2>1, <2>3 DEF AddVenueDebt, Consume, Evm
    <3>2. Append(evm.debts, d) \in Seq(VenueDebt)
      BY <2>3, <2>4 DEF Evm
    <3> HIDE DEF d, VenueDebt
    <3> QED
      BY <2>3, <3>1, <3>2 DEF Consume, Evm
  <2> HIDE DEF f
  <2> QED
    BY <1>1, <2>1, <2>4, <2>5, FrameTypes, MovedTypes DEF Moved
<1> QED
  BY <1>2, <1>3

LEMMA SilentTypes == Typed /\ Silent => Moved
<1> SUFFICES ASSUME Typed, Silent PROVE Moved
  OBVIOUS
<1>1. run # None /\ run.at = "called" /\ UNCHANGED World
  BY DEF Silent, Running
<1>2. CASE Fail(run)
  BY <1>1, <1>2, FailMoves, MovedTypes
<1>3. CASE ~Fail(run)
  <2>1. run' = [run EXCEPT !.at = "return"] /\ evm' = evm
    BY <1>3 DEF Silent, Require
  <2>2. run \in Run /\ Under(run) /\ evm \in Evm
    BY <1>1 DEF Typed
  <2> HIDE DEF Call
  <2>3. run' \in Run /\ Under(run')
    BY <1>1, <2>1, <2>2 DEF Run, Under
  <2> QED
    BY <1>1, <2>1, <2>2, <2>3, MovedTypes DEF Moved
<1> QED
  BY <1>2, <1>3

\* What the adapter is granted and takes.
LEMMA LiquidationTypes ==
  ASSUME NEW e \in Evm, NEW est \in Estimate, NEW b \in Borrowers, market \in Market,
         Liquidatable(e, est, b)
  PROVE  LiquidateWithLLP(e, est, b) \in Evm
<1>1. /\ est.debtToken \in Tokens /\ est.debtToCover \in Nat /\ est.exitBtcFee \in Nat
      /\ Asked(est) \in Nat /\ Seized[b] \in Nat
  BY LiquidationAssumption DEF Estimate, Asked, Market
<1>2. PaidDebt(e, est) \in Evm
  BY <1>1, TokenTypes, PullTypes DEF Liquidatable, PaidDebt
<1>3. PaidFairly(e, est) \in Evm
  BY <1>1, <1>2, TokenTypes, PullTypes DEF Liquidatable, PaidFairly
<1>4. PaidOut(e, est, b) \in Evm
  <2>1. Receive(PaidFairly(e, est), Wbtc, Seized[b]) \in Evm
    BY <1>1, <1>3, TokenTypes, ReceiveTypes
  <2> QED
    BY <2>1 DEF PaidOut, Evm
<1> QED
  BY <1>1, <1>4, TokenTypes, PullTypes DEF Liquidatable, LiquidateWithLLP

LEMMA AllowanceTypes ==
  ASSUME NEW e \in Evm, NEW est \in Estimate
  PROVE  /\ ApproveForAdapter(e, est) \in Evm
         /\ RevokeApprovalForAdapter(e, est.debtToken) \in Evm
<1>1. /\ est.debtToken \in Tokens /\ est.debtToCover \in Nat /\ est.exitBtcFee \in Nat
      /\ est.wbtcPayment \in Nat
  BY DEF Estimate
<1>2. e.allow[Adapter] \in [Tokens -> Nat]
  BY TokenTypes DEF Evm
<1> DEFINE revoked == [e.allow[Adapter] EXCEPT ![est.debtToken] = 0, ![Wbtc] = 0]
           sum == est.wbtcPayment + est.exitBtcFee
           granted == IF est.debtToken = Wbtc
                      THEN [e.allow[Adapter] EXCEPT ![Wbtc] = est.debtToCover + sum]
                      ELSE [e.allow[Adapter] EXCEPT ![est.debtToken] = est.debtToCover,
                              ![Wbtc] = IF sum > 0 THEN sum ELSE e.allow[Adapter][Wbtc]]
<1>3. revoked \in [Tokens -> Nat] /\ granted \in [Tokens -> Nat]
  BY <1>1, <1>2, TokenTypes
<1>4. RevokeApprovalForAdapter(e, est.debtToken) = [e EXCEPT !.allow[Adapter] = revoked]
  BY DEF RevokeApprovalForAdapter, Evm
<1>5. ApproveForAdapter(e, est) = [e EXCEPT !.allow[Adapter] = granted]
  BY DEF ApproveForAdapter
<1> HIDE DEF revoked, granted
<1>6. Adapter \in Spenders
  BY TokenTypes
<1> QED
  BY <1>3, <1>4, <1>5, <1>6, ApproveTypes

LEMMA ExecuteTypes == Typed /\ ExecuteLiquidation => Moved
<1> SUFFICES ASSUME Typed, ExecuteLiquidation PROVE Moved
  OBVIOUS
<1>1. run # None /\ run.at = "step" /\ run.phase = "LiquidationAndSwap" /\ UNCHANGED World
  BY DEF ExecuteLiquidation, Stepping, Running
<1>2. CASE Fail(run)
  BY <1>1, <1>2, FailMoves, MovedTypes
<1>3. CASE ~Fail(run)
  <2> DEFINE e == ApproveForAdapter(evm, run.est)
             b == run.call.borrower
             done == LiquidateWithLLP(e, run.est, b)
  <2>1. /\ Liquidatable(e, run.est, b)
        /\ evm' = RevokeApprovalForAdapter(done, run.est.debtToken)
        /\ run' = [run EXCEPT !.at = "swap"]
    BY <1>3 DEF ExecuteLiquidation, Require
  <2>2. /\ run \in Run /\ Under(run) /\ evm \in Evm /\ run.est \in Estimate
        /\ run.call \in Call
    BY <1>1 DEF Typed, Under
  <2>3. b \in Borrowers
    BY <2>2 DEF Call
  <2> HIDE DEF b
  <2>4. e \in Evm
    BY <2>2, AllowanceTypes
  <2> HIDE DEF e
  <2>5. market \in Market
    BY LiquidationAssumption DEF Typed
  <2>6. done \in Evm
    BY <2>1, <2>2, <2>3, <2>4, <2>5, LiquidationTypes
  <2> HIDE DEF done
  <2>7. evm' \in Evm
    BY <2>1, <2>2, <2>6, AllowanceTypes
  <2> HIDE DEF Call
  <2>8. run' \in Run /\ Under(run')
    BY <1>1, <2>1, <2>2 DEF Run, Under
  <2> QED
    BY <1>1, <2>7, <2>8, MovedTypes DEF Moved
<1> QED
  BY <1>2, <1>3

LEMMA SwapTypes == Typed /\ (Swap \/ Swapped) => Moved
<1> SUFFICES ASSUME Typed, Swap \/ Swapped PROVE Moved
  OBVIOUS
<1>1. run # None /\ run.at = "swap" /\ UNCHANGED World
  BY DEF Swap, Swapped, Running
<1>2. CASE Fail(run)
  BY <1>1, <1>2, FailMoves, MovedTypes
<1>3. /\ run \in Run /\ Under(run) /\ evm \in Evm /\ run.call \in Call
  BY <1>1 DEF Typed, Under
<1>4. CASE Swap /\ ~Fail(run)
  <2> DEFINE s == run.call.swaps[run.k + 1]
             cost == s.amount * market.rate
             e == [evm EXCEPT !.bal[Wbtc] = @ - cost]
  <2>1. /\ run.k < Len(run.call.swaps) /\ evm.bal[Wbtc] >= cost
        /\ evm' = Receive(e, s.token, s.amount) /\ run' = [run EXCEPT !.k = @ + 1]
    BY <1>4 DEF Swap, Require
  <2>2. s \in SwapData
    <3>1. run.call.swaps \in Seq(SwapData) /\ run.k \in Nat
      BY <1>3 DEF Call, Run
    <3>2. Len(run.call.swaps) \in Nat
      BY <3>1
    <3>3. run.k + 1 \in 1..Len(run.call.swaps)
      BY <2>1, <3>1, <3>2
    <3> HIDE DEF SwapData
    <3> QED
      BY <3>1, <3>3, ElementOfSeq
  <2>3. cost \in Nat
    <3>1. market.rate \in Nat
      BY LiquidationAssumption DEF Typed, Market
    <3> QED
      BY <2>2, <3>1 DEF SwapData
  <2>4. e \in Evm
    <3>1. evm.bal \in [Tokens -> Nat] /\ evm.bal[Wbtc] - cost \in Nat
      BY <1>3, <2>1, <2>3, TokenTypes DEF Evm
    <3> HIDE DEF cost
    <3>2. [evm.bal EXCEPT ![Wbtc] = evm.bal[Wbtc] - cost] \in [Tokens -> Nat]
      BY <3>1
    <3>3. e = [evm EXCEPT !.bal = [evm.bal EXCEPT ![Wbtc] = evm.bal[Wbtc] - cost]]
      BY <1>3 DEF Evm
    <3> QED
      BY <1>3, <3>2, <3>3 DEF Evm
  <2> HIDE DEF e, s
  <2>5. evm' \in Evm
    BY <2>1, <2>2, <2>4, ReceiveTypes DEF SwapData
  <2> HIDE DEF Call, Evm, Estimate, Frame, Result
  <2>6. run' \in Run /\ Under(run')
    <3>1. run.k \in Nat
      BY <1>3 DEF Run
    <3>2. run.k + 1 \in Nat
      BY <3>1
    <3>3. run' \in Run
      BY <1>3, <2>1, <3>2 DEF Run
    <3>4. /\ run'.at = run.at /\ run'.call = run.call /\ run'.est = run.est
          /\ run'.phase = run.phase /\ run'.i = run.i
      BY <1>3, <2>1 DEF Run
    <3> QED
      BY <1>3, <3>3, <3>4 DEF Under
  <2> QED
    BY <1>1, <2>5, <2>6, MovedTypes DEF Moved
<1>5. CASE Swapped
  <2>1. run' = [run EXCEPT !.at = "return"] /\ evm' = evm
    BY <1>5 DEF Swapped
  <2> HIDE DEF Call
  <2>2. run' \in Run /\ Under(run')
    BY <1>1, <1>3, <2>1 DEF Run, Under
  <2> QED
    BY <1>1, <1>3, <2>1, <2>2, MovedTypes DEF Moved
<1> QED
  BY <1>2, <1>4, <1>5

\* The frame on top, and the stack without it.
LEMMA TopTypes ==
  ASSUME Typed, run # None, run.at = "return", run.stack # <<>>
  PROVE  /\ Top \in Frame /\ Len(run.stack) \in Nat \ {0} /\ Front(run.stack) \in Seq(Frame)
         /\ Top = run.stack[Len(run.stack)]
         /\ Len(Front(run.stack)) = Len(run.stack) - 1
         /\ \A n \in 1..(Len(run.stack) - 1) : Front(run.stack)[n] = run.stack[n]
         /\ Popped \in Run /\ Under(Popped)
<1>1. run \in Run /\ run.stack \in Seq(Frame) /\ Under(run)
  BY DEF Typed, Run
<1>2. Len(run.stack) \in Nat \ {0}
  BY <1>1, EmptySeq
<1>3. Top = run.stack[Len(run.stack)] /\ Top \in Frame
  <2>1. Len(run.stack) \in 1..Len(run.stack)
    BY <1>2
  <2> HIDE DEF Frame
  <2> QED
    BY <1>1, <2>1, ElementOfSeq DEF Top, Last
<1>4. /\ Front(run.stack) \in Seq(Frame) /\ Len(Front(run.stack)) = Len(run.stack) - 1
      /\ \A n \in 1..(Len(run.stack) - 1) : Front(run.stack)[n] = run.stack[n]
  <2> HIDE DEF Frame
  <2> QED
    BY <1>1, <1>2, SubSeqProperties DEF Front
<1>5. Popped \in Run /\ Under(Popped)
  <2> HIDE DEF Frame, Call
  <2> QED
    BY <1>1, <1>4 DEF Popped, Run, Under
<1> QED
  BY <1>2, <1>3, <1>4, <1>5

LEMMA RepayTypes == Typed /\ Repay => Moved
<1> SUFFICES ASSUME Typed, Repay PROVE Moved
  OBVIOUS
<1>1. run # None /\ run.at = "return" /\ run.stack # <<>> /\ UNCHANGED World /\ evm \in Evm
  BY DEF Repay, Unwinding, Running, Typed
<1>2. CASE Fail(run)
  BY <1>1, <1>2, FailMoves, MovedTypes
<1>3. CASE ~Fail(run)
  <2> DEFINE e == [evm EXCEPT !.allow[Top.venue][Top.token] = @ + Top.amount]
  <2>1. /\ CanPull(e, Top.venue, Top.token, Top.amount)
        /\ evm' = Pull(e, Top.venue, Top.token, Top.amount) /\ run' = Popped
    BY <1>3 DEF Repay, Require
  <2>2. /\ Top.venue \in Spenders /\ Top.token \in Tokens /\ Top.amount \in Nat
    BY <1>1, TopTypes, TokenTypes DEF Frame
  <2>3. e \in Evm
    <3> DEFINE f == [evm.allow[Top.venue] EXCEPT ![Top.token] = @ + Top.amount]
    <3>1. f \in [Tokens -> Nat]
      BY <1>1, <2>2 DEF Evm
    <3>2. e = [evm EXCEPT !.allow[Top.venue] = f]
      BY <1>1, <2>2 DEF Evm
    <3> HIDE DEF f
    <3> QED
      BY <1>1, <2>2, <3>1, <3>2, ApproveTypes
  <2> HIDE DEF e
  <2>4. evm' \in Evm
    BY <2>1, <2>2, <2>3, PullTypes
  <2> QED
    BY <1>1, <2>1, <2>4, TopTypes, MovedTypes DEF Moved
<1> QED
  BY <1>2, <1>3

LEMMA LockTypes == Typed /\ Lock => Moved
<1> SUFFICES ASSUME Typed, Lock PROVE Moved
  OBVIOUS
<1>1. run # None /\ run.at = "return" /\ run.stack # <<>> /\ UNCHANGED World /\ evm \in Evm
  BY DEF Lock, Unwinding, Running, Typed
<1>2. CASE Fail(run)
  BY <1>1, <1>2, FailMoves, MovedTypes
<1>3. CASE ~Fail(run)
  <2>1. evm' = [evm EXCEPT !.unlocked = FALSE] /\ run' = Popped
    BY <1>3 DEF Lock, Require
  <2>2. evm' \in Evm
    BY <1>1, <2>1 DEF Evm
  <2> QED
    BY <1>1, <2>1, <2>2, TopTypes, MovedTypes DEF Moved
<1> QED
  BY <1>2, <1>3

LEMMA SettleTypes == Typed /\ Settle => Moved
<1> SUFFICES ASSUME Typed, Settle PROVE Moved
  OBVIOUS
<1>1. run # None /\ run.at = "return" /\ UNCHANGED World /\ evm \in Evm
  BY DEF Settle, Running, Typed
<1>2. CASE Fail(run)
  BY <1>1, <1>2, FailMoves, MovedTypes
<1>3. CASE ~Fail(run)
  <2>1. /\ run \in Run /\ run.call \in Call /\ run.wbtcBefore \in Nat
    BY <1>1 DEF Typed, Under, Run
  <2> DEFINE e == ClearVenueDebts(evm)
             sold == IF run.call.expected = None THEN evm.sold
                     ELSE evm.sold \cup {run.call.borrower}
             gain == [t \in Tokens |-> evm.gain[t] + evm.bal[t]]
             last == [call |-> run.call, ok |-> TRUE, profit |-> evm.bal[Wbtc] - run.wbtcBefore]
  <2>2. /\ evm' = [[e EXCEPT !.gain = gain, !.bal = Zero] EXCEPT !.sold = sold]
        /\ run' = [run EXCEPT !.at = "next", !.last = last]
    BY <1>1, <1>3 DEF Settle, Require, ClearVenueDebts, TransferAllReservesOut, Evm
  <2>3. /\ evm.bal \in [Tokens -> Nat] /\ evm.gain \in [Tokens -> Nat]
        /\ evm.sold \in SUBSET Borrowers
    BY <1>1 DEF Evm
  <2>4. gain \in [Tokens -> Nat] /\ evm.bal[Wbtc] - run.wbtcBefore \in Int
    BY <2>1, <2>3, TokenTypes
  <2>5. sold \in SUBSET Borrowers
    BY <2>1, <2>3 DEF Call
  <2> HIDE DEF gain, sold
  <2>6. e \in Evm
    <3>1. <<>> \in Seq(VenueDebt)
      OBVIOUS
    <3> QED
      BY <1>1, <3>1 DEF ClearVenueDebts, Evm
  <2> HIDE DEF e
  <2>7. evm' \in Evm
    BY <2>2, <2>4, <2>5, <2>6, TokenTypes DEF Evm
  <2> HIDE DEF Call
  <2>8. last \in Result
    BY <2>1, <2>4 DEF Result
  <2> HIDE DEF last
  <2>9. run' \in Run /\ Under(run')
    BY <2>1, <2>2, <2>8 DEF Run, Under
  <2> QED
    BY <1>1, <2>7, <2>9, MovedTypes DEF Moved
<1> QED
  BY <1>2, <1>3

LEMMA EndTypes == Typed /\ End => Typed'
<1> SUFFICES ASSUME Typed, End PROVE Typed'
  OBVIOUS
<1>1. <<>> \in Seq(VenueDebt) /\ {} \in SUBSET Venues
  OBVIOUS
<1>2. evm' \in Evm
  BY <1>1 DEF End, Evm, Typed
<1> QED
  BY <1>2 DEF End, Typed, World

-----------------------------------------------------------------------------
(* The bot and the world. *)

\* A transaction or a simulation starts.
LEMMA SubmitTypes ==
  ASSUME Typed, NEW calls \in Seq(Call), NEW all \in BOOLEAN, Submit(calls, all)
  PROVE  /\ run' \in Run /\ Under(run')
         /\ run'.rest = calls /\ run'.start = evm /\ run'.at = "next" /\ run'.last = None
<1>1. <<>> \in Seq(Frame) /\ evm \in Evm
  BY DEF Typed
<1> HIDE DEF Call
<1> QED
  BY <1>1 DEF Submit, Run, Under

\* Every token the registry sells has a venue.
LEMMA FlashTypesBuilt ==
  /\ AllFundableTokens \in Seq(Tokens)
  /\ Len(AllFundableTokens) = Len(FlashSwaps) + 1 /\ Len(FlashSwaps) \in Nat
  /\ \A n \in 1..Len(FlashSwaps) : AllFundableTokens[n] = FlashSwaps[n].token
  /\ AllFundableTokens[Len(FlashSwaps) + 1] = Wbtc
  /\ BuildFlashDatas(AllFundableTokens) \in Seq(FlashData)
  /\ Len(BuildFlashDatas(AllFundableTokens)) = Len(FlashSwaps) + 1
<1> DEFINE N == Len(FlashSwaps)
           swapped == [n \in DOMAIN FlashSwaps |-> FlashSwaps[n].token]
<1>1. N \in Nat /\ DOMAIN FlashSwaps = 1..N
  <2> DEFINE Swaps == [token : Tokens, venue : Venues]
  <2>1. FlashSwaps \in Seq(Swaps)
    BY LiquidationAssumption
  <2> HIDE DEF Swaps
  <2> QED
    BY <2>1, LenProperties
<1>2. swapped \in Seq(Tokens) /\ Len(swapped) = N
  <2>1. swapped \in [1..N -> Tokens]
    BY <1>1, TokenTypes
  <2> HIDE DEF swapped
  <2> QED
    BY <1>1, <2>1, IsASeq
<1>3. <<Wbtc>> \in Seq(Tokens) /\ Len(<<Wbtc>>) = 1 /\ <<Wbtc>>[1] = Wbtc
  BY TokenTypes
<1> DEFINE owed == AllFundableTokens
<1>4. /\ owed \in Seq(Tokens) /\ Len(owed) = N + 1
      /\ \A n \in 1..N : owed[n] = FlashSwaps[n].token
      /\ owed[N + 1] = Wbtc
  <2>1. owed = swapped \o <<Wbtc>>
    BY DEF AllFundableTokens
  <2>2. \A n \in 1..N : swapped[n] = FlashSwaps[n].token
    BY <1>1
  <2> HIDE DEF swapped
  <2>3. /\ owed \in Seq(Tokens) /\ Len(owed) = N + 1
        /\ \A n \in 1..(N + 1) : owed[n] = IF n <= N THEN swapped[n] ELSE <<Wbtc>>[n - N]
    BY <1>1, <1>2, <1>3, <2>1, ConcatProperties
  <2>4. N + 1 \in 1..(N + 1) /\ ~(N + 1 <= N) /\ (N + 1) - N = 1
    BY <1>1
  <2>5. owed[N + 1] = <<Wbtc>>[(N + 1) - N]
    BY <2>3, <2>4
  <2> QED
    BY <1>1, <1>3, <2>2, <2>3, <2>4, <2>5
<1>5. BuildFlashDatas(owed) \in Seq(FlashData) /\ Len(BuildFlashDatas(owed)) = N + 1
  <2>1. DOMAIN owed = 1..(N + 1)
    BY <1>4, LenProperties
  <2>2. \A n \in 1..(N + 1) : BuildFlashDatas(owed)[n] \in FlashData
    <3> SUFFICES ASSUME NEW n \in 1..(N + 1) PROVE BuildFlashDatas(owed)[n] \in FlashData
      OBVIOUS
    <3>1. CASE owed[n] = Wbtc
      <4>1. BuildFlashDatas(owed)[n] = [type |-> LoanVenue.type, venue |-> LoanVenue.venue,
                                        token |-> Wbtc]
        BY <2>1, <3>1 DEF BuildFlashDatas
      <4>2. LoanVenue.type \in VenueTypes
        BY LiquidationAssumption DEF VenueTypes
      <4> QED
        BY <4>1, <4>2, TokenTypes DEF FlashData
    <3>2. CASE owed[n] # Wbtc
      <4> DEFINE v == CHOOSE m \in DOMAIN FlashSwaps : FlashSwaps[m].token = owed[n]
      <4>1. n \in DOMAIN FlashSwaps /\ FlashSwaps[n].token = owed[n]
        BY <1>1, <1>4, <3>2
      <4>2. v \in DOMAIN FlashSwaps
        BY <4>1
      <4>3. BuildFlashDatas(owed)[n] = [type |-> "UniswapV4FlashSwap",
                                        venue |-> FlashSwaps[v].venue, token |-> owed[n]]
        BY <2>1, <3>2 DEF BuildFlashDatas
      <4> HIDE DEF v
      <4>4. owed[n] \in Tokens /\ FlashSwaps[v].venue \in Venues
        BY <4>1, <4>2, TokenTypes
      <4> HIDE DEF owed
      <4> QED
        BY <4>3, <4>4 DEF FlashData, VenueTypes
    <3> QED
      BY <3>1, <3>2
  <2>3. BuildFlashDatas(owed) \in [1..(N + 1) -> FlashData]
    BY <2>1, <2>2 DEF BuildFlashDatas
  <2> QED
    BY <1>1, <2>3, IsASeq
<1> QED
  BY <1>1, <1>4, <1>5

LEMMA ProbeArgsTypes ==
  ASSUME NEW b \in Borrowers
  PROVE  ProbeArgs(b) \in Call /\ <<ProbeArgs(b)>> \in Seq(Call)
<1>1. ProbeArgs(b) \in Call
  <2>1. MIN_PROFIT_REVERT_TAG \in Nat /\ <<>> \in Seq(SwapData)
    BY LiquidationAssumption DEF MIN_PROFIT_REVERT_TAG
  <2>2. (bot.baseline = evm.bal[Wbtc]) \in BOOLEAN
    OBVIOUS
  <2>3. BuildFlashDatas(AllFundableTokens) \in Seq(FlashData)
    BY FlashTypesBuilt
  <2> QED
    BY <2>1, <2>2, <2>3 DEF ProbeArgs, Call
<1>2. <<ProbeArgs(b)>> \in Seq(Call)
  <2> HIDE DEF Call
  <2> QED
    BY <1>1
<1> QED
  BY <1>1, <1>2

LEMMA ProbeTypes ==
  ASSUME Typed, NEW b \in Borrowers, Probe(b)
  PROVE  Typed'
<1>1. run' \in Run /\ Under(run')
  BY ProbeArgsTypes, SubmitTypes DEF Probe
<1>2. bot' \in AnyBot
  <2>1. bot \in AnyBot /\ bot.todo \ {b} \in SUBSET Borrowers
    BY DEF Typed, AnyBot
  <2> QED
    BY <2>1 DEF Probe, AnyBot
<1> QED
  BY <1>1, <1>2 DEF Probe, Typed

\* The calls of a transaction are calls on offer.
LEMMA OfferedCalls ==
  ASSUME NEW calls \in Transactions
  PROVE  \A n \in DOMAIN calls : calls[n] \in Offered
<1>1. CASE calls \in {<<c>> : c \in Offered}
  <2>1. PICK c \in Offered : calls = <<c>>
    BY <1>1
  <2> QED
    BY <2>1
<1>2. CASE calls \in Offered \X Offered
  <2>1. PICK c \in Offered, d \in Offered : calls = <<c, d>>
    BY <1>2
  <2> QED
    BY <2>1
<1> QED
  BY <1>1, <1>2 DEF Transactions

LEMMA SubmittedTypes ==
  ASSUME Typed, NEW calls \in Transactions
  PROVE  calls \in Seq(Call)
<1>1. Offered \subseteq Call
  <2>1. HandMade \subseteq Call
    <3>1. \A c \in HandMade : c \in Call
      BY LiquidationAssumption
    <3> QED
      BY <3>1
  <2>2. \A b \in Quoted : bot.quotes[b] \in Call
    BY DEF Quoted, Typed, AnyBot
  <2> QED
    BY <2>1, <2>2 DEF Offered
<1>2. calls \in Seq(Call)
  <2> HIDE DEF Call
  <2>1. CASE calls \in {<<c>> : c \in Offered}
    <3>1. PICK c \in Offered : calls = <<c>>
      BY <2>1
    <3>2. c \in Call
      BY <1>1
    <3> QED
      BY <3>1, <3>2
  <2>2. CASE calls \in Offered \X Offered
    <3>1. PICK c \in Offered, d \in Offered : calls = <<c, d>>
      BY <2>2
    <3>2. c \in Call /\ d \in Call
      BY <1>1
    <3> QED
      BY <3>1, <3>2
  <2> QED
    BY <2>1, <2>2 DEF Transactions
<1> QED
  BY <1>2

LEMMA IncludeTypes == Typed /\ Include => Typed'
<1> SUFFICES ASSUME Typed, Include PROVE Typed'
  OBVIOUS
<1>1. PICK calls \in Transactions, all \in BOOLEAN :
         /\ Submit(calls, all)
         /\ bot' = [bot EXCEPT !.quotes =
                       [b \in Borrowers |-> IF \E n \in DOMAIN calls : calls[n] = @[b]
                                            THEN None ELSE @[b]]]
  BY DEF Include
<1>2. run' \in Run /\ Under(run')
  BY <1>1, SubmittedTypes, SubmitTypes
<1>3. bot' \in AnyBot
  <2>1. bot \in AnyBot
    BY DEF Typed
  <2> HIDE DEF Call
  <2> QED
    BY <1>1, <2>1 DEF AnyBot
<1> QED
  BY <1>2, <1>3 DEF Include, Typed

LEMMA FloorTypes ==
  ASSUME NEW expected \in Nat
  PROVE  /\ MinWbtcProfitFloor(expected) \in Nat
         /\ MinWbtcProfitFloor(expected) >= MinProfit
<1>1. MinProfit \in Nat /\ SlippageBps \in Nat /\ 10000 - SlippageBps \in Nat
  BY LiquidationAssumption
<1>2. expected * (10000 - SlippageBps) \in Nat
  BY <1>1
<1>3. (expected * (10000 - SlippageBps)) \div 10000 \in Nat
  BY <1>2
<1> QED
  BY <1>1, <1>3 DEF MinWbtcProfitFloor

LEMMA WorldTypes == Typed /\ (Vet \/ Move \/ Give) => Typed'
<1> SUFFICES ASSUME Typed, Vet \/ Move \/ Give PROVE Typed'
  OBVIOUS
<1>1. bot \in AnyBot /\ evm \in Evm
  BY DEF Typed
<1>2. CASE Vet
  <2>1. evm.bal[Wbtc] \in Nat /\ evm.open \in SUBSET Borrowers
    BY <1>1, TokenTypes DEF Evm
  <2>2. bot' \in AnyBot
    BY <1>2, <2>1 DEF Vet, AnyBot
  <2> QED
    BY <1>2, <2>2 DEF Vet, Typed
<1>3. CASE Move
  <2> DEFINE quotes == [b \in Borrowers |-> IF bot.quotes[b] = None THEN None
                                            ELSE [bot.quotes[b] EXCEPT !.fresh = FALSE]]
  <2>1. quotes \in [Borrowers -> Call \cup {None}]
    <3>1. \A c \in Call : [c EXCEPT !.fresh = FALSE] \in Call
      BY DEF Call
    <3> HIDE DEF Call
    <3>2. \A b \in Borrowers : bot.quotes[b] \in Call \cup {None}
      BY <1>1 DEF AnyBot
    <3> QED
      BY <3>1, <3>2
  <2>2. bot' = [bot EXCEPT !.quotes = quotes]
    BY <1>3 DEF Move
  <2> HIDE DEF quotes
  <2>3. bot' \in AnyBot
    BY <1>1, <2>1, <2>2 DEF AnyBot
  <2> QED
    BY <1>3, <2>3 DEF Move, Typed
<1>4. CASE Give
  <2>1. evm' \in Evm
    BY <1>1, <1>4, TokenTypes, ReceiveTypes DEF Give
  <2>2. given' \in 0..MaxGift
    BY <1>4, LiquidationAssumption DEF Give, Typed
  <2> QED
    BY <1>4, <2>1, <2>2 DEF Give, Typed
<1> QED
  BY <1>2, <1>3, <1>4

-----------------------------------------------------------------------------
(* What every step of a call keeps: the call, where it came from and what  *)
(* the transaction has yet to run, unless it reverts.                      *)

Kept == /\ run'.rest = run.rest \/ run'.rest = <<>>
        /\ run'.call = run.call
        /\ run'.start = run.start /\ run'.entry = run.entry
        /\ run'.requireSuccess = run.requireSuccess
        /\ run'.wbtcBefore = run.wbtcBefore
        /\ run'.last = run.last \/ run'.last.call = run.call

Running1 == \/ SkipSetup \/ SetUp \/ SkipLoan \/ FlashLoan
            \/ OnSetUpCallback \/ OnFlashLoan \/ Silent
            \/ ExecuteLiquidation \/ Swap \/ Swapped
            \/ Repay \/ Lock \/ Settle

LEMMA StepKeeps ==
  ASSUME Typed, Running1
  PROVE  run # None /\ run.at # "next" /\ UNCHANGED World /\ Kept
<1>1. run # None /\ run.at # "next" /\ UNCHANGED World
  BY DEF Running1, SkipSetup, SetUp, SkipLoan, FlashLoan, OnSetUpCallback, OnFlashLoan,
         Silent, ExecuteLiquidation, Swap, Swapped, Repay, Lock, Settle, Stepping, Unwinding,
         Running
<1> SUFFICES Kept
  BY <1>1
<1>2. run \in Run
  BY <1>1 DEF Typed
<1> HIDE DEF Call, Evm, Frame, Estimate
<1>3. CASE Fail(run)
  BY <1>2, <1>3 DEF Fail, Run, Kept
<1>4. /\ ToNext(run).rest = run.rest /\ ToNext(run).call = run.call
      /\ ToNext(run).start = run.start /\ ToNext(run).entry = run.entry
      /\ ToNext(run).requireSuccess = run.requireSuccess
      /\ ToNext(run).wbtcBefore = run.wbtcBefore /\ ToNext(run).last = run.last
      /\ \A stack : LET r == [ToNext(run) EXCEPT !.stack = stack]
                    IN  /\ r.rest = run.rest /\ r.call = run.call
                        /\ r.start = run.start /\ r.entry = run.entry
                        /\ r.requireSuccess = run.requireSuccess
                        /\ r.wbtcBefore = run.wbtcBefore /\ r.last = run.last
  <2>1. PICK i, phase : ToNext(run) = [run EXCEPT !.at = "step", !.i = i, !.phase = phase]
    BY <1>2 DEF ToNext, Run
  <2> QED
    BY <1>2, <2>1 DEF Run
<1>5. CASE SkipSetup \/ SkipLoan
  BY <1>4, <1>5 DEF SkipSetup, SkipLoan, Kept
<1>6. CASE (SetUp \/ FlashLoan \/ Silent \/ ExecuteLiquidation \/ Swapped) /\ ~Fail(run)
  <2>1. \E at : run' = [run EXCEPT !.at = at]
    BY <1>6 DEF SetUp, FlashLoan, Silent, ExecuteLiquidation, Swapped, Require
  <2> QED
    BY <1>2, <2>1 DEF Run, Kept
<1>7. CASE (OnSetUpCallback \/ OnFlashLoan) /\ ~Fail(run)
  <2>1. \E stack : run' = [ToNext(run) EXCEPT !.stack = stack]
    <3>1. CASE OnSetUpCallback
      BY <1>7, <3>1 DEF OnSetUpCallback, Require
    <3>2. CASE OnFlashLoan
      BY <1>7, <3>2 DEF OnFlashLoan, Require
    <3> QED
      BY <1>7, <3>1, <3>2
  <2> QED
    BY <1>4, <2>1 DEF Kept
<1>8. CASE Swap /\ ~Fail(run)
  <2>1. run' = [run EXCEPT !.k = @ + 1]
    BY <1>8 DEF Swap, Require
  <2> QED
    BY <1>2, <2>1 DEF Run, Kept
<1>9. CASE (Repay \/ Lock) /\ ~Fail(run)
  <2>1. run' = [run EXCEPT !.stack = Front(@)]
    BY <1>9 DEF Repay, Lock, Popped, Require
  <2> QED
    BY <1>2, <2>1 DEF Run, Kept
<1>10. CASE Settle /\ ~Fail(run)
  <2> DEFINE last == [call |-> run.call, ok |-> TRUE,
                      profit |-> ClearVenueDebts(evm).bal[Wbtc] - run.wbtcBefore]
  <2>1. run' = [run EXCEPT !.at = "next", !.last = last] /\ last.call = run.call
    BY <1>10 DEF Settle, Require
  <2> HIDE DEF last
  <2> QED
    BY <1>2, <2>1 DEF Run, Kept
<1> QED
  BY <1>1, <1>3, <1>5, <1>6, <1>7, <1>8, <1>9, <1>10 DEF Running1

-----------------------------------------------------------------------------
(* Until its first pass the bot has nothing, and every call is made by     *)
(* hand: so a probe, whose floor is the tag, has a baseline to be quoted   *)
(* against.                                                                *)

Handed(r) ==
    /\ \A n \in DOMAIN r.rest : r.rest[n] \in HandMade
    /\ r.at # "next" => r.call \in HandMade
BaseInv == bot.baseline = None =>
    /\ bot.todo = {}
    /\ \A b \in Borrowers : bot.quotes[b] = None
    /\ run # None => Handed(run)

LEMMA BaseOfStep ==
  ASSUME Typed, BaseInv, Running1
  PROVE  BaseInv'
<1>1. run # None /\ run.at # "next" /\ bot' = bot /\ Kept
  BY StepKeeps DEF World
<1>2. DOMAIN <<>> = {}
  OBVIOUS
<1>3. Handed(run) => Handed(run')
  BY <1>1, <1>2 DEF Handed, Kept
<1> QED
  BY <1>1, <1>3 DEF BaseInv

LEMMA BaseOfLiquidate ==
  ASSUME Typed, BaseInv, Liquidate
  PROVE  BaseInv'
<1>1. run \in Run /\ run.rest # <<>> /\ run # None /\ bot' = bot
  BY DEF Liquidate, Running, Typed, World
<1>2. run.rest \in Seq(Call)
  BY <1>1 DEF Run
<1> HIDE DEF Call, Evm, Frame, Estimate
<1> DEFINE call == Head(run.rest)
           tail == Tail(run.rest)
<1>3. /\ call = run.rest[1] /\ 1 \in DOMAIN run.rest
      /\ \A n \in DOMAIN tail : n + 1 \in DOMAIN run.rest /\ tail[n] = run.rest[n + 1]
      /\ DOMAIN <<>> = {}
  <2>1. /\ Len(run.rest) \in Nat \ {0} /\ DOMAIN run.rest = 1..Len(run.rest)
        /\ call = run.rest[1]
        /\ Len(tail) = Len(run.rest) - 1 /\ DOMAIN tail = 1..Len(tail)
        /\ \A n \in 1..Len(tail) : tail[n] = run.rest[n + 1]
    BY <1>1, <1>2, EmptySeq, LenProperties, HeadTailProperties
  <2> QED
    BY <2>1
<1> HIDE DEF call, tail
<1>4. /\ run'.rest = tail \/ run'.rest = <<>>
      /\ run'.at # "next" => run'.call = call
  <2> DEFINE r == [run EXCEPT !.rest = tail, !.call = call, !.entry = evm]
  <2>1. \/ Fail(r)
        \/ run' = [r EXCEPT !.at = "step", !.wbtcBefore = evm.bal[Wbtc],
                            !.est = EstLiquidationPayment(call.borrower),
                            !.phase = "Setup", !.i = 1, !.k = 0, !.stack = <<>>]
    BY DEF Liquidate, call, tail
  <2>2. /\ DOMAIN r = {"requireSuccess", "rest", "start", "entry", "call", "wbtcBefore",
                       "est", "phase", "i", "at", "k", "stack", "last"}
        /\ r.rest = tail /\ r.call = call
    BY <1>1 DEF Run
  <2> HIDE DEF r
  <2>3. CASE Fail(r)
    BY <2>2, <2>3 DEF Fail
  <2>4. CASE ~Fail(r)
    BY <2>1, <2>2, <2>4
  <2> QED
    BY <2>3, <2>4
<1>5. Handed(run) => Handed(run')
  BY <1>3, <1>4 DEF Handed
<1> QED
  BY <1>1, <1>5 DEF BaseInv

\* What the simulation of a call hands back is a quote against a baseline.
LEMMA Quoting ==
  ASSUME Typed, BaseInv, BelovedError
  PROVE  /\ run \in Run /\ run.call \in Call /\ run.start \in Evm /\ evm \in Evm
         /\ evm' = run.start /\ run' = None /\ UNCHANGED <<market, given>>
         /\ bot.baseline \in Nat /\ bot \in AnyBot
         /\ \/ bot' = bot
            \/ \E expected \in Nat :
                  /\ expected = QuoteProfit(evm.bal[Wbtc], evm.debts)
                  /\ Viable(expected, evm.debts)
                  /\ bot' = [bot EXCEPT !.quotes[run.call.borrower]
                                           = Funded(run.call, expected)]
<1>1. /\ run # None /\ run.at = "swap" /\ run.call.floor = MIN_PROFIT_REVERT_TAG
      /\ evm' = run.start /\ run' = None /\ UNCHANGED <<market, given>>
  BY DEF BelovedError, Running
<1>2. run \in Run /\ run.call \in Call /\ evm \in Evm /\ bot \in AnyBot
  BY <1>1 DEF Typed, Under
<1>3. run.start \in Evm
  BY <1>2 DEF Run
<1>4. run.call \notin HandMade
  BY <1>1, LiquidationAssumption DEF MIN_PROFIT_REVERT_TAG
<1>5. bot.baseline \in Nat
  BY <1>1, <1>2, <1>4 DEF BaseInv, Handed, AnyBot
<1> DEFINE expected == QuoteProfit(evm.bal[Wbtc], evm.debts)
<1>6. expected \in Int
  <2>1. SumOfDebts(evm.debts) \in Nat /\ evm.bal[Wbtc] \in Nat
    BY <1>2, DebtsSum, TokenTypes DEF Evm
  <2> QED
    BY <1>5, <2>1 DEF QuoteProfit
<1>7. bot' = IF Viable(expected, evm.debts)
             THEN [bot EXCEPT !.quotes[run.call.borrower] = Funded(run.call, expected)]
             ELSE bot
  BY DEF BelovedError, AllDebts
<1> HIDE DEF expected
<1>8. Viable(expected, evm.debts) => expected \in Nat
  BY <1>6 DEF Viable
<1> QED
  BY <1>1, <1>2, <1>3, <1>5, <1>7, <1>8 DEF expected

\* The call the bot offers for a quote.
LEMMA FundedTypes ==
  ASSUME NEW c \in Call, NEW expected \in Nat
  PROVE  /\ Funded(c, expected) \in Call
         /\ Funded(c, expected).expected = expected
         /\ Funded(c, expected).floor = MinWbtcProfitFloor(expected)
         /\ Funded(c, expected).borrower = c.borrower
         /\ Funded(c, expected).flash = c.flash /\ Funded(c, expected).swaps = c.swaps
         /\ Funded(c, expected).fresh = c.fresh
<1>1. MinWbtcProfitFloor(expected) \in Nat
  BY FloorTypes
<1> HIDE DEF MinWbtcProfitFloor
<1> QED
  BY <1>1 DEF Funded, Call

LEMMA BelovedTypes == Typed /\ BaseInv /\ BelovedError => Typed'
<1> SUFFICES ASSUME Typed, BaseInv, BelovedError PROVE Typed'
  OBVIOUS
<1>1. bot' \in AnyBot
  <2>1. CASE bot' = bot
    BY <2>1, Quoting
  <2>2. CASE bot' # bot
    <3>1. PICK expected \in Nat :
             bot' = [bot EXCEPT !.quotes[run.call.borrower] = Funded(run.call, expected)]
      BY <2>2, Quoting
    <3>2. Funded(run.call, expected) \in Call /\ bot \in AnyBot /\ run.call \in Call
      BY Quoting, FundedTypes
    <3> DEFINE f == Funded(run.call, expected)
               quotes == [bot.quotes EXCEPT ![run.call.borrower] = f]
    <3> HIDE DEF f
    <3>3. quotes \in [Borrowers -> Call \cup {None}]
      <4> HIDE DEF Call
      <4> QED
        BY <3>2 DEF AnyBot, f
    <3>4. bot' = [bot EXCEPT !.quotes = quotes]
      BY <3>1, <3>2 DEF AnyBot, f
    <3> HIDE DEF quotes, Call
    <3> QED
      BY <3>2, <3>3, <3>4 DEF AnyBot
  <2> QED
    BY <2>1, <2>2
<1> QED
  BY <1>1, Quoting DEF Typed

LEMMA BaseNext == Typed /\ BaseInv /\ [Next]_vars => BaseInv'
<1> SUFFICES ASSUME Typed, BaseInv, [Next]_vars PROVE BaseInv'
  OBVIOUS
<1>1. CASE Running1
  BY <1>1, BaseOfStep
<1>2. CASE Liquidate
  BY <1>2, BaseOfLiquidate
<1>3. CASE BelovedError
  <2>1. bot.baseline # None
    BY <1>3, Quoting, NoneIsNoAmount
  <2>2. bot'.baseline = bot.baseline
    BY <1>3, Quoting DEF AnyBot
  <2> QED
    BY <2>1, <2>2 DEF BaseInv
<1>4. CASE End
  BY <1>4 DEF End, World, BaseInv
<1>5. CASE Vet
  <2>1. evm.bal[Wbtc] \in Nat
    BY TokenTypes DEF Typed, Evm
  <2>2. bot'.baseline # None
    BY <1>5, <2>1, LiquidationAssumption DEF Vet
  <2> QED
    BY <2>2 DEF BaseInv
<1>6. CASE Include
  <2> SUFFICES ASSUME bot'.baseline = None
               PROVE  /\ bot'.todo = {} /\ \A b \in Borrowers : bot'.quotes[b] = None
                      /\ Handed(run')
    BY DEF BaseInv
  <2>1. PICK calls \in Transactions, all \in BOOLEAN :
           /\ Submit(calls, all)
           /\ bot' = [bot EXCEPT !.quotes =
                         [b \in Borrowers |-> IF \E n \in DOMAIN calls : calls[n] = @[b]
                                              THEN None ELSE @[b]]]
    BY <1>6 DEF Include
  <2>2. /\ bot'.baseline = bot.baseline /\ bot'.todo = bot.todo
        /\ \A b \in Borrowers : bot'.quotes[b] = None \/ bot'.quotes[b] = bot.quotes[b]
    BY <2>1 DEF Typed, AnyBot
  <2>3. bot.todo = {} /\ \A b \in Borrowers : bot.quotes[b] = None
    BY <2>2 DEF BaseInv
  <2>4. Offered = HandMade
    BY <2>3 DEF Offered, Quoted
  <2>5. \A n \in DOMAIN calls : calls[n] \in HandMade
    BY <2>4, OfferedCalls
  <2>6. run'.rest = calls /\ run'.at = "next" /\ run' \in Run
    <3>1. calls \in Seq(Call)
      BY <2>1, SubmittedTypes
    <3> QED
      BY <2>1, <3>1, SubmitTypes
  <2> QED
    BY <2>2, <2>3, <2>5, <2>6 DEF Handed
<1>7. CASE Move
  <2>1. /\ bot'.baseline = bot.baseline /\ bot'.todo = bot.todo /\ run' = run
        /\ \A b \in Borrowers : bot.quotes[b] = None => bot'.quotes[b] = None
    BY <1>7 DEF Move, Typed, AnyBot
  <2> QED
    BY <2>1 DEF BaseInv
<1>8. CASE Give \/ UNCHANGED vars
  BY <1>8 DEF Give, vars, BaseInv
<1>9. ASSUME NEW b \in Borrowers, Probe(b) PROVE BaseInv'
  <2>1. bot.todo # {} /\ bot'.baseline = bot.baseline
    BY <1>9 DEF Probe, Typed, AnyBot
  <2> QED
    BY <2>1 DEF BaseInv
<1> QED
  BY <1>1, <1>2, <1>3, <1>4, <1>5, <1>6, <1>7, <1>8, <1>9 DEF Next, Running1

LEMMA TypesNext == Typed /\ BaseInv /\ [Next]_vars => Typed'
<1> SUFFICES ASSUME Typed, BaseInv, [Next]_vars PROVE Typed'
  OBVIOUS
<1>1. CASE UNCHANGED vars
  BY <1>1 DEF vars, Typed, Under
<1>2. CASE Next
  BY <1>2, LiquidateTypes, SkipTypes, SetUpTypes, LoanTypes, OnSetUpTypes, OnLoanTypes,
     SilentTypes, ExecuteTypes, SwapTypes, RepayTypes, LockTypes, SettleTypes, EndTypes,
     ProbeTypes, IncludeTypes, WorldTypes, BelovedTypes, MovedTypes DEF Next
<1> QED
  BY <1>1, <1>2

-----------------------------------------------------------------------------
(* What each step of a call that does not revert does to the fields of evm *)
(* and of run.                                                             *)

FlashOf(r) == r.call.flash[r.i]
PaymentOf(r) == PaymentIn(r.est, FlashOf(r).token)
\* The venue that was called has not called back, to unlock or to lend.
Calling(r, phase) == r.at = "called" /\ r.phase = phase
SetUps(r) == {n \in 1..Len(r.stack) : r.stack[n].kind = "setup"}

\* What the adapter, the venues and the market leave as it was.
SameSlots(e, f) == /\ e.expected = f.expected /\ e.waiting = f.waiting
                   /\ e.unlocked = f.unlocked /\ e.debts = f.debts
SameGains(e, f) == e.gain = f.gain /\ e.sold = f.sold

\* A balance grows by amount, or shrinks by as much as it is negative.
Got(f, e, token, amount) ==
    /\ SameSlots(f, e) /\ SameGains(f, e) /\ f.open = e.open
    /\ f.bal[token] = e.bal[token] + amount
    /\ \A u \in Tokens : u # token => f.bal[u] = e.bal[u]

LEMMA ReceiveFields ==
  ASSUME NEW e \in Evm, NEW token \in Tokens, NEW amount \in Nat
  PROVE  /\ Got(Receive(e, token, amount), e, token, amount)
         /\ Receive(e, token, amount).allow = e.allow
<1> DEFINE f == Receive(e, token, amount)
           bal == [e.bal EXCEPT ![token] = e.bal[token] + amount]
<1>1. e.bal \in [Tokens -> Nat]
  BY DEF Evm
<1>2. f = [e EXCEPT !.bal = bal]
  BY DEF Receive, Evm
<1>3. bal[token] = e.bal[token] + amount /\ \A u \in Tokens : u # token => bal[u] = e.bal[u]
  BY <1>1
<1> HIDE DEF f, bal
<1>4. /\ SameSlots(f, e) /\ SameGains(f, e) /\ f.open = e.open /\ f.allow = e.allow
      /\ f.bal = bal
  BY <1>2 DEF Evm, SameSlots, SameGains
<1> QED
  BY <1>3, <1>4 DEF Got, f

LEMMA PullFields ==
  ASSUME NEW e \in Evm, NEW spender \in Spenders, NEW token \in Tokens, NEW amount \in Nat
  PROVE  /\ Got(Pull(e, spender, token, amount), e, token, -amount)
         /\ Pull(e, spender, token, amount).allow
               = [e.allow EXCEPT ![spender] = [e.allow[spender] EXCEPT
                                    ![token] = e.allow[spender][token] - amount]]
<1> DEFINE f == Pull(e, spender, token, amount)
           bal == [e.bal EXCEPT ![token] = e.bal[token] - amount]
           allow == [e.allow EXCEPT ![spender] = [e.allow[spender] EXCEPT
                              ![token] = e.allow[spender][token] - amount]]
<1>1. e.bal \in [Tokens -> Nat]
  BY DEF Evm
<1>2. f = [e EXCEPT !.allow = allow, !.bal = bal]
  BY DEF Pull, Evm
<1>3. /\ bal[token] = e.bal[token] + (-amount)
      /\ \A u \in Tokens : u # token => bal[u] = e.bal[u]
  BY <1>1
<1> HIDE DEF f, bal, allow
<1>4. /\ SameSlots(f, e) /\ SameGains(f, e) /\ f.open = e.open /\ f.allow = allow
      /\ f.bal = bal
  BY <1>2 DEF Evm, SameSlots, SameGains
<1> QED
  BY <1>3, <1>4 DEF Got, f, allow

\* Only the adapter may take, and only what the position owes in, or WBTC.
OnlyAdapter(e, token) == \A s \in Spenders, u \in Tokens :
    s # Adapter \/ u \notin {token, Wbtc} => e.allow[s][u] = 0

LEMMA AdapterPulls ==
  ASSUME NEW e \in Evm, NEW debtToken \in Tokens, OnlyAdapter(e, debtToken),
         NEW token \in {debtToken, Wbtc}, NEW amount \in Nat
  PROVE  OnlyAdapter(Pull(e, Adapter, token, amount), debtToken)
<1>1. /\ e.allow \in [Spenders -> [Tokens -> Nat]] /\ Adapter \in Spenders
      /\ token \in Tokens
  BY TokenTypes DEF Evm
<1>2. Pull(e, Adapter, token, amount).allow
         = [e.allow EXCEPT ![Adapter] = [e.allow[Adapter] EXCEPT
                              ![token] = e.allow[Adapter][token] - amount]]
  BY <1>1, PullFields
<1> DEFINE f == Pull(e, Adapter, token, amount)
<1> HIDE DEF f
<1>3. \A s \in Spenders, u \in Tokens :
         s # Adapter \/ u # token => f.allow[s][u] = e.allow[s][u]
  BY <1>1, <1>2 DEF f
<1> QED
  BY <1>3 DEF OnlyAdapter, f

\* The adapter is granted allowances and takes what it is paid; afterwards
\* nothing may be taken, the borrower is gone, and WBTC came from nowhere
\* but the collateral.
LEMMA LiquidationFields ==
  ASSUME NEW e \in Evm, NEW est \in Estimate, NEW b \in Borrowers, NEW f, market \in Market,
         e.allow = [s \in Spenders |-> Zero],
         Liquidatable(ApproveForAdapter(e, est), est, b),
         f = RevokeApprovalForAdapter(
                LiquidateWithLLP(ApproveForAdapter(e, est), est, b), est.debtToken)
  PROVE  /\ SameSlots(f, e) /\ SameGains(f, e)
         /\ f.allow = [s \in Spenders |-> Zero]
         /\ f.open = e.open \ {b}
         /\ b \in e.open /\ Asked(est) <= est.wbtcPayment /\ Asked(est) \in Nat
         /\ e.bal[est.debtToken] >= est.debtToCover
         /\ f.bal[Wbtc] = e.bal[Wbtc]
               - (IF est.debtToken = Wbtc THEN est.debtToCover ELSE 0)
               - Asked(est) + Seized[b] - est.exitBtcFee
         /\ f.bal[Wbtc] <= e.bal[Wbtc] + Seized[b]
<1> DEFINE a == ApproveForAdapter(e, est)
           p == PaidDebt(a, est)
           q == PaidFairly(a, est)
           r == Receive(q, Wbtc, Seized[b])
           o == PaidOut(a, est, b)
           l == LiquidateWithLLP(a, est, b)
           token == est.debtToken
<1>1. /\ token \in Tokens /\ est.debtToCover \in Nat /\ est.exitBtcFee \in Nat
      /\ Asked(est) \in Nat /\ Seized[b] \in Nat /\ Wbtc \in Tokens /\ Adapter \in Spenders
      /\ Zero \in [Tokens -> Nat] /\ \A t \in Tokens : Zero[t] = 0
  <2>1. Seized[b] \in Nat
    BY LiquidationAssumption
  <2>2. /\ token \in Tokens /\ est.debtToCover \in Nat /\ est.exitBtcFee \in Nat
        /\ est.wbtcPayment \in Nat
    BY DEF Estimate
  <2>3. Asked(est) \in Nat
    BY <2>2 DEF Asked, Market
  <2>4. Zero \in [Tokens -> Nat] /\ \A t \in Tokens : Zero[t] = 0
    BY TokenTypes DEF Zero
  <2> HIDE DEF token
  <2> QED
    BY <2>1, <2>2, <2>3, <2>4, TokenTypes
<1>2. a \in Evm /\ l \in Evm
  BY AllowanceTypes, LiquidationTypes
<1>3. /\ SameSlots(a, e) /\ SameGains(a, e) /\ a.bal = e.bal /\ a.open = e.open
      /\ OnlyAdapter(a, token)
  <2>1. PICK m \in [Tokens -> Nat] :
           /\ a = [e EXCEPT !.allow[Adapter] = m]
           /\ \A u \in Tokens : u \notin {token, Wbtc} => m[u] = 0
    <3> DEFINE sum == est.wbtcPayment + est.exitBtcFee
               m == IF est.debtToken = Wbtc
                    THEN [e.allow[Adapter] EXCEPT ![Wbtc] = est.debtToCover + sum]
                    ELSE [e.allow[Adapter] EXCEPT ![est.debtToken] = est.debtToCover,
                              ![Wbtc] = IF sum > 0 THEN sum ELSE e.allow[Adapter][Wbtc]]
    <3>1. sum \in Nat /\ e.allow[Adapter] = Zero
      BY <1>1 DEF Estimate
    <3> HIDE DEF sum
    <3>2. a = [e EXCEPT !.allow[Adapter] = m]
      BY DEF ApproveForAdapter, sum
    <3>3. m \in [Tokens -> Nat] /\ \A u \in Tokens : u \notin {token, Wbtc} => m[u] = 0
      BY <1>1, <3>1
    <3> HIDE DEF m
    <3> QED
      BY <3>2, <3>3
  <2>2. a.allow = [e.allow EXCEPT ![Adapter] = m]
    BY <2>1 DEF Evm
  <2>3. \A s \in Spenders, u \in Tokens :
           a.allow[s][u] = IF s = Adapter THEN m[u] ELSE 0
    BY <1>1, <2>2
  <2>4. SameSlots(a, e) /\ SameGains(a, e) /\ a.bal = e.bal /\ a.open = e.open
    BY <2>1 DEF Evm, SameSlots, SameGains
  <2> HIDE DEF a
  <2> QED
    BY <2>1, <2>3, <2>4 DEF OnlyAdapter
<1> HIDE DEF a
<1>4. /\ CanPull(a, Adapter, token, est.debtToCover)
      /\ CanPull(p, Adapter, Wbtc, Asked(est))
      /\ CanPull(o, Adapter, Wbtc, est.exitBtcFee)
  BY DEF Liquidatable, a
<1>5. /\ p \in Evm /\ SameSlots(p, a) /\ SameGains(p, a) /\ p.open = a.open
      /\ OnlyAdapter(p, token)
      /\ p.bal[Wbtc] = a.bal[Wbtc] - IF token = Wbtc THEN est.debtToCover ELSE 0
  <2>1. p = Pull(a, Adapter, token, est.debtToCover)
    BY DEF PaidDebt
  <2> HIDE DEF p
  <2>2. p \in Evm /\ OnlyAdapter(p, token)
    BY <1>1, <1>2, <1>3, <1>4, <2>1, PullTypes, AdapterPulls
  <2>3. Got(p, a, token, -est.debtToCover)
    BY <1>1, <1>2, <2>1, PullFields
  <2>4. a.bal[Wbtc] \in Nat
    BY <1>1, <1>2 DEF Evm
  <2> QED
    BY <1>1, <2>2, <2>3, <2>4 DEF Got
<1>6. /\ q \in Evm /\ SameSlots(q, p) /\ SameGains(q, p) /\ q.open = p.open
      /\ OnlyAdapter(q, token) /\ q.bal[Wbtc] = p.bal[Wbtc] - Asked(est)
  <2>1. q = Pull(p, Adapter, Wbtc, Asked(est))
    BY DEF PaidFairly
  <2> HIDE DEF p, q
  <2>2. q \in Evm /\ OnlyAdapter(q, token)
    BY <1>1, <1>4, <1>5, <2>1, PullTypes, AdapterPulls
  <2>3. Got(q, p, Wbtc, -Asked(est))
    BY <1>1, <1>5, <2>1, PullFields
  <2>4. p.bal[Wbtc] \in Nat
    BY <1>1, <1>5 DEF Evm
  <2> QED
    BY <1>1, <2>2, <2>3, <2>4 DEF Got
<1>7. /\ o \in Evm /\ SameSlots(o, q) /\ SameGains(o, q) /\ o.open = q.open \ {b}
      /\ OnlyAdapter(o, token) /\ o.bal[Wbtc] = q.bal[Wbtc] + Seized[b]
  <2>1. o = [r EXCEPT !.open = r.open \ {b}]
    BY DEF PaidOut
  <2> HIDE DEF q
  <2>2. r \in Evm /\ r.allow = q.allow /\ Got(r, q, Wbtc, Seized[b])
    BY <1>1, <1>6, ReceiveTypes, ReceiveFields
  <2> HIDE DEF r, o
  <2>3. /\ o \in Evm /\ SameSlots(o, r) /\ SameGains(o, r) /\ o.allow = r.allow
        /\ o.open = r.open \ {b} /\ o.bal = r.bal
    BY <2>1, <2>2 DEF Evm, SameSlots, SameGains
  <2> QED
    BY <1>6, <2>2, <2>3 DEF Got, SameSlots, SameGains, OnlyAdapter
<1>8. /\ SameSlots(l, o) /\ SameGains(l, o) /\ l.open = o.open
      /\ OnlyAdapter(l, token) /\ l.bal[Wbtc] = o.bal[Wbtc] - est.exitBtcFee
  <2>1. l = Pull(o, Adapter, Wbtc, est.exitBtcFee)
    BY DEF LiquidateWithLLP
  <2> HIDE DEF o, l
  <2>2. OnlyAdapter(l, token)
    BY <1>1, <1>4, <1>7, <2>1, AdapterPulls
  <2>3. Got(l, o, Wbtc, -est.exitBtcFee)
    BY <1>1, <1>7, <2>1, PullFields
  <2>4. o.bal[Wbtc] \in Nat
    BY <1>1, <1>7 DEF Evm
  <2> QED
    BY <1>1, <2>2, <2>3, <2>4 DEF Got
<1> HIDE DEF p, q, r, o, l
<1>9. /\ SameSlots(f, l) /\ SameGains(f, l) /\ f.open = l.open /\ f.bal = l.bal
      /\ f.allow = [s \in Spenders |-> Zero]
  <2> DEFINE m == [l.allow[Adapter] EXCEPT ![token] = 0, ![Wbtc] = 0]
  <2>1. l.allow \in [Spenders -> [Tokens -> Nat]]
    BY <1>2 DEF Evm, l
  <2>2. f = [l EXCEPT !.allow = [l.allow EXCEPT ![Adapter] = m]]
    BY <1>2 DEF RevokeApprovalForAdapter, Evm, l, a
  <2>3. m = Zero
    <3>1. m \in [Tokens -> Nat] /\ \A u \in Tokens : m[u] = 0
      BY <1>1, <1>8, <2>1 DEF OnlyAdapter
    <3> QED
      BY <3>1 DEF Zero
  <2> HIDE DEF m
  <2>4. [l.allow EXCEPT ![Adapter] = m] = [s \in Spenders |-> Zero]
    <3>1. \A s \in Spenders : s # Adapter => l.allow[s] = Zero
      <4> SUFFICES ASSUME NEW s \in Spenders, s # Adapter PROVE l.allow[s] = Zero
        OBVIOUS
      <4>1. l.allow[s] \in [Tokens -> Nat] /\ \A u \in Tokens : l.allow[s][u] = 0
        BY <1>8, <2>1 DEF OnlyAdapter
      <4> QED
        BY <4>1 DEF Zero
    <3> QED
      BY <1>1, <2>1, <2>3, <3>1
  <2> QED
    BY <1>2, <2>2, <2>4 DEF Evm, SameSlots, SameGains, l
<1>10. /\ e.bal[Wbtc] \in Nat /\ p.bal[Wbtc] \in Nat /\ q.bal[Wbtc] \in Nat
       /\ o.bal[Wbtc] \in Nat /\ l.bal[Wbtc] \in Nat
  BY <1>1, <1>2, <1>5, <1>6, <1>7 DEF Evm
<1>11. /\ f.bal[Wbtc] = e.bal[Wbtc] - (IF token = Wbtc THEN est.debtToCover ELSE 0)
                             - Asked(est) + Seized[b] - est.exitBtcFee
       /\ f.bal[Wbtc] <= e.bal[Wbtc] + Seized[b]
  BY <1>1, <1>3, <1>5, <1>6, <1>7, <1>8, <1>9, <1>10
<1>13. /\ b \in e.open /\ Asked(est) <= est.wbtcPayment
       /\ e.bal[token] >= est.debtToCover
  <2>1. b \in a.open /\ Asked(est) <= est.wbtcPayment
    BY DEF Liquidatable, a
  <2> QED
    BY <1>3, <1>4, <2>1 DEF CanPull
<1>12. SameSlots(f, e) /\ SameGains(f, e) /\ f.open = e.open \ {b}
  BY <1>3, <1>5, <1>6, <1>7, <1>8, <1>9 DEF SameSlots, SameGains
<1> QED
  BY <1>1, <1>9, <1>11, <1>12, <1>13 DEF a, l

LEMMA SkipEffect ==
  ASSUME Typed, SkipSetup \/ SkipLoan
  PROVE  /\ evm' = evm /\ run # None /\ run.at = "step"
         /\ run'.at = "step" /\ run'.stack = run.stack
<1>1. /\ run # None /\ run.at = "step" /\ run \in Run /\ run' = ToNext(run) /\ evm' = evm
  BY DEF SkipSetup, SkipLoan, Stepping, Running, Typed
<1> HIDE DEF Call, Evm, Frame, Estimate
<1> QED
  BY <1>1 DEF ToNext, Run

LEMMA SetUpEffect ==
  ASSUME Typed, SetUp, ~Fail(run)
  PROVE  /\ run.at = "step" /\ run.phase = "Setup"
         /\ evm.expected = None /\ ~evm.unlocked
         /\ Calling(run', "Setup") /\ FlashOf(run') = FlashOf(run) /\ run'.stack = run.stack
         /\ run'.i = run.i /\ run'.est = run.est /\ PaymentOf(run) # 0
         /\ evm'.expected = [callback |-> "onSetUpCallback", from |-> FlashOf(run).venue]
         /\ evm'.waiting = evm.waiting \cup {FlashOf(run).venue} /\ evm'.unlocked
         /\ evm'.debts = evm.debts /\ evm'.allow = evm.allow /\ evm'.bal = evm.bal
         /\ evm'.open = evm.open /\ SameGains(evm', evm)
<1>1. /\ run # None /\ run.at = "step" /\ run.phase = "Setup" /\ NeedsSetup
      /\ Expectable(evm)
      /\ evm' = [Expect(evm, "onSetUpCallback", Flash.venue) EXCEPT
                       !.waiting = @ \cup {Flash.venue}, !.unlocked = TRUE]
      /\ run' = [run EXCEPT !.at = "called"]
  BY DEF SetUp, Stepping, Running, Require
<1>2. run \in Run /\ evm \in Evm
  BY <1>1 DEF Typed
<1>3. evm.expected = None /\ ~evm.unlocked /\ Payment # 0
  BY <1>1 DEF Expectable, NeedsSetup, VenueRequiresSetup, IsUnlocked
<1>4. Flash = FlashOf(run) /\ Payment = PaymentOf(run)
  BY DEF Flash, FlashOf, Payment, PaymentOf
<1> DEFINE v == Flash.venue
<1>5. /\ evm'.expected = [callback |-> "onSetUpCallback", from |-> v]
      /\ evm'.waiting = evm.waiting \cup {v} /\ evm'.unlocked
      /\ evm'.debts = evm.debts /\ evm'.allow = evm.allow /\ evm'.bal = evm.bal
      /\ evm'.open = evm.open /\ SameGains(evm', evm)
  <2>1. evm' = [Expect(evm, "onSetUpCallback", v) EXCEPT
                       !.waiting = @ \cup {v}, !.unlocked = TRUE]
    BY <1>1
  <2> HIDE DEF v
  <2> QED
    BY <1>2, <2>1 DEF Expect, Evm, SameGains
<1> HIDE DEF Call, Evm, Frame, Estimate
<1>6. /\ Calling(run', "Setup") /\ run'.call = run.call /\ run'.i = run.i
      /\ run'.stack = run.stack /\ run'.est = run.est
  BY <1>1, <1>2 DEF Run, Calling
<1> QED
  BY <1>1, <1>3, <1>4, <1>5, <1>6 DEF FlashOf

LEMMA LoanEffect ==
  ASSUME Typed, FlashLoan, ~Fail(run)
  PROVE  /\ run.at = "step" /\ run.phase = "FlashLoan" /\ evm.expected = None
         /\ Calling(run', "FlashLoan") /\ FlashOf(run') = FlashOf(run)
         /\ PaymentOf(run') = PaymentOf(run) /\ PaymentOf(run) \in Nat \ {0}
         /\ run'.stack = run.stack /\ run'.i = run.i /\ run'.est = run.est
         /\ \A t \in Tokens : evm'.bal[t] = evm.bal[t]
               + IF FlashOf(run).token = t THEN PaymentOf(run) ELSE 0
         /\ evm'.expected = [callback |-> Callback(FlashOf(run).type),
                             from |-> FlashOf(run).venue]
         /\ evm'.waiting = evm.waiting /\ evm'.unlocked = evm.unlocked
         /\ evm'.debts = evm.debts /\ evm'.allow = evm.allow /\ evm'.open = evm.open
         /\ SameGains(evm', evm)
         /\ evm'.bal[Wbtc] = evm.bal[Wbtc]
               + IF FlashOf(run).token = Wbtc THEN PaymentOf(run) ELSE 0
<1>1. /\ run # None /\ run.at = "step" /\ run.phase = "FlashLoan" /\ Expectable(evm)
      /\ evm' = Receive(Expect(evm, Callback(Flash.type), Flash.venue), Flash.token, Payment)
      /\ run' = [run EXCEPT !.at = "called"]
  BY DEF FlashLoan, Stepping, Running, Require
<1>2. run \in Run /\ evm \in Evm
  BY <1>1 DEF Typed
<1>3. Flash = FlashOf(run) /\ Payment = PaymentOf(run) /\ evm.expected = None
  BY <1>1 DEF Flash, FlashOf, Payment, PaymentOf, Expectable
<1>4. /\ Flash.venue \in Venues /\ Flash.token \in Tokens /\ Payment \in Nat \ {0}
      /\ Flash \in FlashData
  <2>1. Payment # 0
    BY DEF FlashLoan
  <2> QED
    BY <1>1, <2>1, FlashTypes DEF FlashData
<1> DEFINE c == Callback(Flash.type)
           v == Flash.venue
           e == Expect(evm, c, v)
<1>5. e \in Evm
  BY <1>2, <1>4, CallbackType, ExpectTypes
<1> HIDE DEF c, v
<1>6. /\ e.expected = [callback |-> c, from |-> v] /\ e.waiting = evm.waiting
      /\ e.unlocked = evm.unlocked /\ e.debts = evm.debts /\ e.allow = evm.allow
      /\ e.open = evm.open /\ e.bal = evm.bal /\ SameGains(e, evm)
  BY <1>2 DEF Expect, Evm, SameGains
<1>7. evm' = Receive(e, Flash.token, Payment)
  BY <1>1 DEF c, v
<1> HIDE DEF e
<1>8. Got(evm', e, Flash.token, Payment) /\ evm'.allow = e.allow
  BY <1>4, <1>5, <1>7, ReceiveFields
<1>9. /\ SameSlots(evm', e) /\ SameGains(evm', evm) /\ evm'.open = evm.open
      /\ \A t \in Tokens : evm'.bal[t] = evm.bal[t]
                             + IF Flash.token = t THEN Payment ELSE 0
  <2>1. \A t \in Tokens : evm.bal[t] \in Nat
    BY <1>2 DEF Evm
  <2> QED
    BY <1>4, <1>6, <1>8, <2>1 DEF Got, SameGains
<1> HIDE DEF Call, Evm, Frame, Estimate
<1>10. /\ Calling(run', "FlashLoan") /\ run'.call = run.call /\ run'.i = run.i
       /\ run'.stack = run.stack /\ run'.est = run.est
  BY <1>1, <1>2 DEF Run, Calling
<1>11. FlashOf(run') = FlashOf(run) /\ PaymentOf(run') = PaymentOf(run)
  BY <1>10 DEF FlashOf, PaymentOf
<1>12. /\ evm'.expected = [callback |-> Callback(FlashOf(run).type),
                           from |-> FlashOf(run).venue]
       /\ evm'.waiting = evm.waiting /\ evm'.unlocked = evm.unlocked
       /\ evm'.debts = evm.debts /\ evm'.allow = evm.allow
  BY <1>3, <1>6, <1>8, <1>9 DEF SameSlots, c, v
<1>13. \A t \in Tokens : evm'.bal[t] = evm.bal[t]
               + IF FlashOf(run).token = t THEN PaymentOf(run) ELSE 0
  BY <1>3, <1>9
<1>14. evm'.bal[Wbtc] = evm.bal[Wbtc]
               + IF FlashOf(run).token = Wbtc THEN PaymentOf(run) ELSE 0
  BY <1>13, TokenTypes
<1> QED
  BY <1>1, <1>3, <1>4, <1>9, <1>10, <1>11, <1>12, <1>13, <1>14

LEMMA FrameEffect ==
  ASSUME Typed, run # None, NEW f, run' = [ToNext(run) EXCEPT !.stack = Append(@, f)]
  PROVE  /\ run'.at = "step" /\ run'.stack = Append(run.stack, f) /\ run'.est = run.est
         /\ run'.i = ToNext(run).i /\ run'.phase = ToNext(run).phase
<1>1. run \in Run
  BY DEF Typed
<1> HIDE DEF Call, Evm, Frame, Estimate
<1>2. PICK i, phase : ToNext(run) = [run EXCEPT !.at = "step", !.i = i, !.phase = phase]
  BY <1>1 DEF ToNext, Run
<1> QED
  BY <1>1, <1>2 DEF Run

LEMMA OnSetUpEffect ==
  ASSUME Typed, OnSetUpCallback, ~Fail(run)
  PROVE  /\ Calling(run, "Setup") /\ run'.at = "step"
         /\ run'.i = ToNext(run).i /\ run'.phase = ToNext(run).phase
         /\ run'.est = run.est
         /\ \E f \in Frame : /\ f.kind = "setup" /\ f.amount = 0
                              /\ run'.stack = Append(run.stack, f)
         /\ evm'.expected = None /\ evm'.waiting = evm.waiting \ {FlashOf(run).venue}
         /\ evm'.unlocked = evm.unlocked /\ evm'.debts = evm.debts
         /\ evm'.allow = evm.allow /\ evm'.open = evm.open /\ evm'.bal = evm.bal
         /\ SameGains(evm', evm)
<1> DEFINE f == [kind |-> "setup", venue |-> Flash.venue, token |-> Flash.token, amount |-> 0]
           v == Flash.venue
<1>1. /\ run # None /\ run.at = "called" /\ run.phase = "Setup"
      /\ evm' = [Consume(evm) EXCEPT !.waiting = @ \ {v}]
      /\ run' = [ToNext(run) EXCEPT !.stack = Append(@, f)]
  BY DEF OnSetUpCallback, Running, Require
<1>2. f \in Frame /\ f.kind = "setup" /\ f.amount = 0 /\ evm \in Evm
  BY <1>1, FlashTypes DEF FlashData, Frame
<1>3. v = FlashOf(run).venue
  BY DEF Flash, FlashOf
<1> HIDE DEF f, v
<1>4. /\ run'.at = "step" /\ run'.stack = Append(run.stack, f) /\ run'.est = run.est
      /\ run'.i = ToNext(run).i /\ run'.phase = ToNext(run).phase
  BY <1>1, FrameEffect
<1>5. /\ evm'.expected = None /\ evm'.waiting = evm.waiting \ {v}
      /\ evm'.unlocked = evm.unlocked /\ evm'.debts = evm.debts
      /\ evm'.allow = evm.allow /\ evm'.open = evm.open /\ evm'.bal = evm.bal
      /\ SameGains(evm', evm)
  BY <1>1, <1>2 DEF Consume, Evm, SameGains
<1> QED
  BY <1>1, <1>2, <1>3, <1>4, <1>5 DEF Calling

LEMMA OnLoanEffect ==
  ASSUME Typed, OnFlashLoan, ~Fail(run)
  PROVE  /\ Calling(run, "FlashLoan") /\ run'.at = "step"
         /\ run'.i = ToNext(run).i /\ run'.phase = ToNext(run).phase
         /\ run'.est = run.est /\ market.silent # FlashOf(run).venue
         /\ \E f \in Frame :
               /\ f.kind = "loan" /\ run'.stack = Append(run.stack, f)
               /\ f.token = OwedFor(FlashOf(run), PaymentOf(run)).token
               /\ f.amount = OwedFor(FlashOf(run), PaymentOf(run)).amount
         /\ evm'.expected = None /\ evm'.waiting = evm.waiting
         /\ evm'.unlocked = evm.unlocked
         /\ evm'.allow = evm.allow /\ evm'.open = evm.open /\ evm'.bal = evm.bal
         /\ SameGains(evm', evm)
         /\ PaymentOf(run) \in Nat
         /\ \E d \in VenueDebt :
               /\ evm'.debts = Append(evm.debts, d)
               /\ d.amount = OwedFor(FlashOf(run), PaymentOf(run)).amount
               /\ FlashOf(run).token = Wbtc => d.amount >= PaymentOf(run)
<1> DEFINE owed == OwedFor(Flash, Payment)
           f == [kind |-> "loan", venue |-> Flash.venue, token |-> owed.token,
                 amount |-> owed.amount]
           d == [token |-> owed.token, venue |-> Flash.venue, amount |-> owed.amount]
<1>1. /\ run # None /\ run.at = "called" /\ run.phase = "FlashLoan"
      /\ evm' = AddVenueDebt(Consume(evm), Flash.venue, owed.token, owed.amount)
      /\ run' = [ToNext(run) EXCEPT !.stack = Append(@, f)]
  BY DEF OnFlashLoan, Running, Require
<1>0. market.silent # Flash.venue
  BY DEF OnFlashLoan
<1>2. market \in Market
  BY LiquidationAssumption DEF Typed
<1>3. /\ owed \in [token : Tokens, amount : Nat] /\ Flash.venue \in Venues /\ evm \in Evm
      /\ Payment \in Nat /\ Flash \in FlashData
  BY <1>1, <1>2, FlashTypes, OwedTypes DEF FlashData
<1>4. owed.amount >= Payment
  <2>1. market.rate \in Nat /\ market.rate >= 1 /\ Premium \in Nat
    BY <1>2, LiquidationAssumption DEF Market
  <2>2. Payment * market.rate >= Payment
    BY <1>3, <2>1
  <2> QED
    BY <1>3, <2>1, <2>2 DEF OwedFor
<1> HIDE DEF owed
<1>5. /\ f \in Frame /\ f.kind = "loan" /\ d \in VenueDebt /\ d.amount >= Payment
      /\ f.token = owed.token /\ f.amount = owed.amount /\ d.amount = owed.amount
  BY <1>3, <1>4 DEF Frame, VenueDebt
<1>6. evm' = [Consume(evm) EXCEPT !.debts = Append(evm.debts, d)]
  BY <1>1, <1>3 DEF AddVenueDebt, Consume, Evm
<1> HIDE DEF f, d
<1>7. /\ run'.at = "step" /\ run'.stack = Append(run.stack, f) /\ run'.est = run.est
      /\ run'.i = ToNext(run).i /\ run'.phase = ToNext(run).phase
  BY <1>1, FrameEffect
<1>8. /\ evm'.expected = None /\ evm'.waiting = evm.waiting
      /\ evm'.unlocked = evm.unlocked /\ evm'.debts = Append(evm.debts, d)
      /\ evm'.allow = evm.allow /\ evm'.open = evm.open /\ evm'.bal = evm.bal
      /\ SameGains(evm', evm)
  BY <1>3, <1>6 DEF Consume, Evm, SameGains
<1>9. /\ Payment = PaymentOf(run) /\ Flash = FlashOf(run)
      /\ owed = OwedFor(FlashOf(run), PaymentOf(run))
  BY DEF Flash, FlashOf, Payment, PaymentOf, owed
<1> QED
  BY <1>0, <1>1, <1>3, <1>5, <1>7, <1>8, <1>9 DEF Calling

LEMMA ExecuteEffect ==
  ASSUME Typed, ExecuteLiquidation, ~Fail(run), evm.allow = [s \in Spenders |-> Zero]
  PROVE  /\ run.at = "step" /\ run'.at = "swap" /\ run'.stack = run.stack
         /\ SameSlots(evm', evm) /\ SameGains(evm', evm) /\ evm'.allow = evm.allow
         /\ evm'.open = evm.open \ {run.call.borrower}
         /\ run.call.borrower \in Borrowers /\ run.phase = "LiquidationAndSwap"
         /\ Asked(run.est) <= run.est.wbtcPayment /\ Asked(run.est) \in Nat
         /\ evm.bal[run.est.debtToken] >= run.est.debtToCover
         /\ evm'.bal[Wbtc] = evm.bal[Wbtc]
               - (IF run.est.debtToken = Wbtc THEN run.est.debtToCover ELSE 0)
               - Asked(run.est) + Seized[run.call.borrower] - run.est.exitBtcFee
         /\ evm'.bal[Wbtc] <= evm.bal[Wbtc] + Seized[run.call.borrower]
<1> DEFINE e == ApproveForAdapter(evm, run.est)
           b == run.call.borrower
<1>1. /\ run # None /\ run.at = "step" /\ run.phase = "LiquidationAndSwap"
      /\ Liquidatable(e, run.est, b)
      /\ evm' = RevokeApprovalForAdapter(LiquidateWithLLP(e, run.est, b), run.est.debtToken)
      /\ run' = [run EXCEPT !.at = "swap"]
  BY DEF ExecuteLiquidation, Stepping, Running, Require
<1>2. /\ run \in Run /\ evm \in Evm /\ run.est \in Estimate /\ run.call \in Call
      /\ market \in Market
  BY <1>1, LiquidationAssumption DEF Typed, Under
<1>3. b \in Borrowers
  BY <1>2 DEF Call
<1>4. /\ SameSlots(evm', evm) /\ SameGains(evm', evm)
      /\ evm'.allow = [s \in Spenders |-> Zero]
      /\ evm'.open = evm.open \ {b}
      /\ Asked(run.est) <= run.est.wbtcPayment /\ Asked(run.est) \in Nat
      /\ evm.bal[run.est.debtToken] >= run.est.debtToCover
      /\ evm'.bal[Wbtc] = evm.bal[Wbtc]
               - (IF run.est.debtToken = Wbtc THEN run.est.debtToCover ELSE 0)
               - Asked(run.est) + Seized[b] - run.est.exitBtcFee
      /\ evm'.bal[Wbtc] <= evm.bal[Wbtc] + Seized[b]
  <2> HIDE DEF b
  <2> QED
    BY <1>1, <1>2, <1>3, LiquidationFields
<1> HIDE DEF Call, Evm, Frame, Estimate
<1>5. run'.at = "swap" /\ run'.stack = run.stack
  BY <1>1, <1>2 DEF Run
<1> QED
  BY <1>1, <1>3, <1>4, <1>5

LEMMA SwapEffect ==
  ASSUME Typed, Swap \/ Swapped, ~Fail(run)
  PROVE  /\ run.at = "swap" /\ run'.at \in {"swap", "return"} /\ run'.stack = run.stack
         /\ SameSlots(evm', evm) /\ SameGains(evm', evm) /\ evm'.allow = evm.allow
         /\ evm'.open = evm.open /\ evm'.bal[Wbtc] <= evm.bal[Wbtc]
<1>1. run # None /\ run.at = "swap"
  BY DEF Swap, Swapped, Running
<1>2. /\ run \in Run /\ evm \in Evm /\ run.call \in Call /\ evm.bal[Wbtc] \in Nat
  BY <1>1, TokenTypes DEF Typed, Under, Evm
<1>3. CASE Swap
  <2> DEFINE s == run.call.swaps[run.k + 1]
             cost == s.amount * market.rate
             e == [evm EXCEPT !.bal[Wbtc] = @ - cost]
  <2>1. /\ run.k < Len(run.call.swaps) /\ evm.bal[Wbtc] >= cost
        /\ evm' = Receive(e, s.token, s.amount) /\ run' = [run EXCEPT !.k = @ + 1]
    BY <1>3 DEF Swap, Require
  <2>2. s \in SwapData
    <3>1. run.call.swaps \in Seq(SwapData) /\ run.k \in Nat
      BY <1>2 DEF Call, Run
    <3>2. Len(run.call.swaps) \in Nat
      BY <3>1
    <3>3. run.k + 1 \in 1..Len(run.call.swaps)
      BY <2>1, <3>1, <3>2
    <3> HIDE DEF SwapData
    <3> QED
      BY <3>1, <3>3, ElementOfSeq
  <2>3. cost \in Nat /\ cost >= s.amount /\ s.amount \in Nat /\ s.token \in Tokens
    <3>1. market.rate \in Nat /\ market.rate >= 1
      BY LiquidationAssumption DEF Typed, Market
    <3>2. s.amount \in Nat /\ s.token \in Tokens
      BY <2>2 DEF SwapData
    <3> QED
      BY <3>1, <3>2
  <2> HIDE DEF cost, s
  <2> DEFINE bal == [evm.bal EXCEPT ![Wbtc] = evm.bal[Wbtc] - cost]
  <2>4. evm.bal \in [Tokens -> Nat] /\ Wbtc \in Tokens
    BY <1>2, TokenTypes DEF Evm
  <2>5. bal \in [Tokens -> Nat] /\ bal[Wbtc] = evm.bal[Wbtc] - cost
    BY <2>1, <2>3, <2>4
  <2>6. e = [evm EXCEPT !.bal = bal]
    BY <1>2 DEF Evm
  <2> HIDE DEF bal, e
  <2>7. /\ e \in Evm /\ SameSlots(e, evm) /\ SameGains(e, evm) /\ e.allow = evm.allow
        /\ e.open = evm.open /\ e.bal = bal
    BY <1>2, <2>5, <2>6 DEF Evm, SameSlots, SameGains
  <2>8. Got(evm', e, s.token, s.amount) /\ evm'.allow = e.allow
    BY <2>1, <2>3, <2>7, ReceiveFields
  <2>9. evm'.bal[Wbtc] <= evm.bal[Wbtc]
    BY <1>2, <2>3, <2>4, <2>5, <2>7, <2>8 DEF Got
  <2>10. /\ SameSlots(evm', evm) /\ SameGains(evm', evm) /\ evm'.allow = evm.allow
         /\ evm'.open = evm.open
    BY <2>7, <2>8 DEF Got, SameSlots, SameGains
  <2> HIDE DEF Call, Evm, Frame, Estimate
  <2>11. run'.at = "swap" /\ run'.stack = run.stack
    BY <1>1, <1>2, <2>1 DEF Run
  <2> QED
    BY <1>1, <2>9, <2>10, <2>11
<1>4. CASE Swapped
  <2>1. evm' = evm /\ run' = [run EXCEPT !.at = "return"]
    BY <1>4 DEF Swapped
  <2> HIDE DEF Call, Evm, Frame, Estimate
  <2>2. run'.at = "return" /\ run'.stack = run.stack
    BY <1>1, <1>2, <2>1 DEF Run
  <2> QED
    BY <1>1, <1>2, <2>1, <2>2 DEF SameSlots, SameGains
<1> QED
  BY <1>3, <1>4

LEMMA RepayEffect ==
  ASSUME Typed, Repay, ~Fail(run)
  PROVE  /\ run.at = "return" /\ run'.at = "return" /\ run.stack # <<>>
         /\ Top.kind = "loan" /\ run'.stack = Front(run.stack) /\ evm.expected = None
         /\ SameSlots(evm', evm) /\ SameGains(evm', evm) /\ evm'.allow = evm.allow
         /\ evm'.open = evm.open /\ evm'.bal[Wbtc] <= evm.bal[Wbtc]
         /\ Top.token = Wbtc => evm'.bal[Wbtc] = evm.bal[Wbtc] - Top.amount
<1> DEFINE s == Top.venue
           t == Top.token
           n == Top.amount
           f == [evm.allow[s] EXCEPT ![t] = evm.allow[s][t] + n]
           e == [evm EXCEPT !.allow[s][t] = @ + n]
<1>1. /\ run # None /\ run.at = "return" /\ run.stack # <<>> /\ Top.kind = "loan"
      /\ CanPull(e, s, t, n) /\ Complete(e) /\ evm' = Pull(e, s, t, n) /\ run' = Popped
  BY DEF Repay, Unwinding, Running, Require
<1>2. run \in Run /\ evm \in Evm /\ s \in Spenders /\ t \in Tokens /\ n \in Nat
      /\ Wbtc \in Tokens
  BY <1>1, TopTypes, TokenTypes DEF Typed, Frame
<1>0. s = Top.venue /\ t = Top.token /\ n = Top.amount
  OBVIOUS
<1> HIDE DEF s, t, n
<1>3. f \in [Tokens -> Nat] /\ f[t] - n = evm.allow[s][t]
  BY <1>2 DEF Evm
<1>4. e = [evm EXCEPT !.allow = [evm.allow EXCEPT ![s] = f]]
  BY <1>2 DEF Evm
<1>5. [[evm.allow EXCEPT ![s] = f] EXCEPT ![s] = [f EXCEPT ![t] = f[t] - n]] = evm.allow
  <2>1. evm.allow \in [Spenders -> [Tokens -> Nat]] /\ evm.allow[s] \in [Tokens -> Nat]
    BY <1>2 DEF Evm
  <2>2. [f EXCEPT ![t] = f[t] - n] = evm.allow[s]
    BY <1>2, <1>3, <2>1
  <2> HIDE DEF f
  <2> QED
    BY <1>2, <2>1, <2>2
<1> HIDE DEF f, e
<1>6. /\ e \in Evm /\ SameSlots(e, evm) /\ SameGains(e, evm) /\ e.bal = evm.bal
      /\ e.open = evm.open /\ e.allow = [evm.allow EXCEPT ![s] = f] /\ e.allow[s] = f
  <2>1. [evm.allow EXCEPT ![s] = f] \in [Spenders -> [Tokens -> Nat]]
        /\ [evm.allow EXCEPT ![s] = f][s] = f
    BY <1>2, <1>3 DEF Evm
  <2> DEFINE allow == [evm.allow EXCEPT ![s] = f]
  <2> HIDE DEF allow
  <2> QED
    BY <1>2, <1>4, <2>1 DEF Evm, SameSlots, SameGains, allow
<1>7. Got(evm', e, t, -n)
  BY <1>1, <1>2, <1>6, PullFields
<1>8. evm'.allow = evm.allow
  <2>1. evm'.allow = [e.allow EXCEPT ![s] = [e.allow[s] EXCEPT ![t] = e.allow[s][t] - n]]
    BY <1>1, <1>2, <1>6, PullFields
  <2> QED
    BY <1>5, <1>6, <2>1
<1>9. /\ evm'.bal[Wbtc] <= evm.bal[Wbtc]
      /\ t = Wbtc => evm'.bal[Wbtc] = evm.bal[Wbtc] - n
  <2>1. evm.bal[Wbtc] \in Nat /\ evm.bal[t] \in Nat
    BY <1>2 DEF Evm
  <2> QED
    BY <1>2, <1>6, <1>7, <2>1 DEF Got
<1>10. SameSlots(evm', evm) /\ SameGains(evm', evm) /\ evm'.open = evm.open
  BY <1>6, <1>7 DEF Got, SameSlots, SameGains
<1>11. evm.expected = None
  BY <1>1, <1>6 DEF Complete, SameSlots
<1> HIDE DEF Call, Evm, Frame, Estimate
<1>12. run'.at = "return" /\ run'.stack = Front(run.stack)
  BY <1>1, <1>2 DEF Run, Popped
<1> QED
  BY <1>0, <1>1, <1>8, <1>9, <1>10, <1>11, <1>12

LEMMA LockEffect ==
  ASSUME Typed, Lock, ~Fail(run)
  PROVE  /\ run.at = "return" /\ run'.at = "return" /\ run.stack # <<>>
         /\ Top.kind = "setup" /\ run'.stack = Front(run.stack) /\ ~evm'.unlocked
         /\ evm'.expected = evm.expected /\ evm'.waiting = evm.waiting
         /\ evm'.debts = evm.debts /\ evm'.allow = evm.allow /\ evm'.open = evm.open
         /\ evm'.bal = evm.bal /\ SameGains(evm', evm)
<1>1. /\ run # None /\ run.at = "return" /\ run.stack # <<>> /\ Top.kind = "setup"
      /\ evm' = [evm EXCEPT !.unlocked = FALSE] /\ run' = Popped
  BY DEF Lock, Unwinding, Running, Require
<1>2. run \in Run /\ evm \in Evm
  BY <1>1 DEF Typed
<1>3. /\ ~evm'.unlocked
      /\ evm'.expected = evm.expected /\ evm'.waiting = evm.waiting
      /\ evm'.debts = evm.debts /\ evm'.allow = evm.allow /\ evm'.open = evm.open
      /\ evm'.bal = evm.bal /\ SameGains(evm', evm)
  BY <1>1, <1>2 DEF Evm, SameGains
<1> HIDE DEF Call, Evm, Frame, Estimate
<1>4. run'.at = "return" /\ run'.stack = Front(run.stack)
  BY <1>1, <1>2 DEF Run, Popped
<1> QED
  BY <1>1, <1>3, <1>4

LEMMA SettleEffect ==
  ASSUME Typed, Settle, ~Fail(run)
  PROVE  /\ run.at = "return" /\ run.stack = <<>> /\ run'.at = "next"
         /\ run'.last.ok /\ run'.last.call = run.call
         /\ run'.last.profit = evm.bal[Wbtc] - run.wbtcBefore
         /\ evm'.debts = <<>> /\ evm'.bal = Zero
         /\ evm'.expected = evm.expected /\ evm'.waiting = evm.waiting
         /\ evm'.unlocked = evm.unlocked /\ evm'.allow = evm.allow /\ evm'.open = evm.open
         /\ evm'.gain[Wbtc] = evm.gain[Wbtc] + evm.bal[Wbtc]
         /\ evm'.sold = IF run.call.expected = None THEN evm.sold
                        ELSE evm.sold \cup {run.call.borrower}
         /\ evm.bal[Wbtc] >= run.wbtcBefore + run.call.floor
<1> DEFINE e == ClearVenueDebts(evm)
           sold == IF run.call.expected = None THEN evm.sold
                   ELSE evm.sold \cup {run.call.borrower}
           gain == [t \in Tokens |-> evm.gain[t] + evm.bal[t]]
           last == [call |-> run.call, ok |-> TRUE, profit |-> evm.bal[Wbtc] - run.wbtcBefore]
<1>1. run # None /\ run.at = "return" /\ run.stack = <<>> /\ evm \in Evm /\ run \in Run
  BY DEF Settle, Running, Typed
<1>2. /\ evm' = [[e EXCEPT !.gain = gain, !.bal = Zero] EXCEPT !.sold = sold]
      /\ run' = [run EXCEPT !.at = "next", !.last = last] /\ Profitable(e, run)
  BY <1>1 DEF Settle, Require, ClearVenueDebts, TransferAllReservesOut, Evm
<1>3. gain[Wbtc] = evm.gain[Wbtc] + evm.bal[Wbtc]
  BY TokenTypes
<1>4. /\ last.ok /\ last.call = run.call
      /\ last.profit = evm.bal[Wbtc] - run.wbtcBefore
  OBVIOUS
<1> HIDE DEF gain, sold, last
<1>5. e.bal = evm.bal
  BY <1>1 DEF ClearVenueDebts, Evm
<1>6. /\ evm'.debts = <<>> /\ evm'.bal = Zero
      /\ evm'.expected = evm.expected /\ evm'.waiting = evm.waiting
      /\ evm'.unlocked = evm.unlocked /\ evm'.allow = evm.allow /\ evm'.open = evm.open
      /\ evm'.gain = gain /\ evm'.sold = sold
  BY <1>1, <1>2 DEF ClearVenueDebts, Evm
<1>7. evm.bal[Wbtc] >= run.wbtcBefore + run.call.floor
  BY <1>2, <1>5 DEF Profitable
<1> HIDE DEF Call, Evm, Frame, Estimate, e
<1>8. run'.at = "next" /\ run'.last = last
  BY <1>1, <1>2 DEF Run
<1> QED
  BY <1>1, <1>3, <1>4, <1>6, <1>7, <1>8 DEF sold

\* A call that reverts leaves the state it, or its transaction, began with.
LEMMA FailEffect ==
  ASSUME NEW r \in Run, r.requireSuccess \in BOOLEAN, Fail(r)
  PROVE  /\ evm' = r.start \/ evm' = r.entry
         /\ run'.at = "next" /\ ~run'.last.ok /\ run'.last.call = r.call
         /\ run'.start = r.start /\ run'.call = r.call /\ run'.entry = r.entry
         /\ run'.rest = r.rest \/ run'.rest = <<>>
<1> HIDE DEF Call, Evm, Frame, Estimate
<1> QED
  BY DEF Fail, Run

\* A silent venue reverts the call: the slot it left is awaited.
LEMMA SilentFails ==
  ASSUME Typed, Silent, evm.expected # None
  PROVE  Fail(run)
<1> QED
  BY DEF Silent, Require, Complete

\* The calls still to run when one starts.
LEMMA LiquidateEffect ==
  ASSUME Typed, Liquidate
  PROVE  /\ run # None /\ run.at = "next" /\ run \in Run
         /\ run'.start = run.start
         /\ 1 \in DOMAIN run.rest /\ run'.call = run.rest[1]
         /\ \A m \in DOMAIN run'.rest :
               \E n \in DOMAIN run.rest : n # 1 /\ run'.rest[m] = run.rest[n]
         /\ run'.entry = evm
         /\ \/ /\ evm' = run.start \/ evm' = evm
               /\ run'.at = "next" /\ ~run'.last.ok /\ run'.last.call = run'.call
               /\ run'.call.flash = <<>> \/ run'.call.borrower \notin evm.open
            \/ /\ evm' = evm /\ run'.at = "step" /\ run'.stack = <<>>
               /\ run'.last = run.last
               /\ run'.wbtcBefore = evm.bal[Wbtc]
               /\ run'.est = EstLiquidationPayment(run'.call.borrower)
               /\ run'.phase = "Setup" /\ run'.i = 1
<1>1. run \in Run /\ run.rest # <<>> /\ run # None /\ run.at = "next"
  BY DEF Liquidate, Running, Typed
<1>2. run.rest \in Seq(Call) /\ evm \in Evm /\ run.start \in Evm
  BY <1>1 DEF Run, Typed
<1> HIDE DEF Call, Evm, Frame, Estimate
<1> DEFINE call == Head(run.rest)
           tail == Tail(run.rest)
           r == [run EXCEPT !.rest = tail, !.call = call, !.entry = evm]
<1>3. /\ call = run.rest[1] /\ 1 \in DOMAIN run.rest /\ call \in Call
      /\ tail \in Seq(Call)
      /\ \A n \in DOMAIN tail : /\ n + 1 \in DOMAIN run.rest /\ n + 1 # 1
                                /\ tail[n] = run.rest[n + 1]
      /\ DOMAIN <<>> = {}
  <2>1. /\ Len(run.rest) \in Nat \ {0} /\ DOMAIN run.rest = 1..Len(run.rest)
        /\ call = run.rest[1] /\ call \in Call /\ tail \in Seq(Call)
        /\ Len(tail) = Len(run.rest) - 1 /\ DOMAIN tail = 1..Len(tail)
        /\ \A n \in 1..Len(tail) : tail[n] = run.rest[n + 1]
    BY <1>1, <1>2, EmptySeq, LenProperties, HeadTailProperties
  <2> QED
    BY <2>1
<1>4. \/ Fail(r) /\ (call.flash = <<>> \/ call.borrower \notin evm.open)
      \/ /\ run' = [r EXCEPT !.at = "step", !.wbtcBefore = evm.bal[Wbtc],
                            !.est = EstLiquidationPayment(call.borrower),
                            !.phase = "Setup", !.i = 1, !.k = 0, !.stack = <<>>]
         /\ evm' = evm
  BY DEF Liquidate
<1> HIDE DEF call, tail
<1>5. /\ r \in Run /\ r.rest = tail /\ r.call = call /\ r.start = run.start
      /\ r.entry = evm /\ r.last = run.last /\ r.requireSuccess \in BOOLEAN
  BY <1>1, <1>2, <1>3 DEF Run
<1> HIDE DEF r
<1>6. CASE Fail(r) /\ (call.flash = <<>> \/ call.borrower \notin evm.open)
  <2>1. /\ evm' = r.start \/ evm' = r.entry
        /\ run'.at = "next" /\ ~run'.last.ok /\ run'.last.call = r.call
        /\ run'.start = r.start /\ run'.call = r.call /\ run'.entry = r.entry
        /\ run'.rest = r.rest \/ run'.rest = <<>>
    BY <1>5, <1>6, FailEffect
  <2> QED
    BY <1>1, <1>3, <1>5, <1>6, <2>1
<1>7. CASE ~(Fail(r) /\ (call.flash = <<>> \/ call.borrower \notin evm.open))
  <2>1. /\ run'.at = "step" /\ run'.wbtcBefore = evm.bal[Wbtc] /\ run'.stack = <<>>
        /\ run'.rest = tail /\ run'.call = call /\ run'.start = run.start
        /\ run'.entry = evm /\ run'.last = run.last /\ evm' = evm
        /\ run'.est = EstLiquidationPayment(call.borrower)
        /\ run'.phase = "Setup" /\ run'.i = 1
    BY <1>4, <1>5, <1>7 DEF Run
  <2> QED
    BY <1>1, <1>3, <2>1
<1> QED
  BY <1>6, <1>7

-----------------------------------------------------------------------------
(* A call leaves nothing behind: what is awaited and unlocked is at every  *)
(* step what the cursor and the frames say, and nothing may ever be taken. *)

NoAllowance == [s \in Spenders |-> Zero]
Whole(e) == /\ e.allow = NoAllowance
            /\ e.debts = <<>> /\ e.expected = None
            /\ e.waiting = {} /\ ~e.unlocked

Awaited(e, r) ==
    /\ r.at # "called" => e.expected = None
    /\ Calling(r, "Setup") =>
          e.expected = [callback |-> "onSetUpCallback", from |-> FlashOf(r).venue]
    /\ Calling(r, "FlashLoan") =>
          e.expected = [callback |-> Callback(FlashOf(r).type), from |-> FlashOf(r).venue]
    /\ Calling(r, "Setup") => e.waiting = {FlashOf(r).venue}
    /\ ~Calling(r, "Setup") => e.waiting = {}
Unlocking(e, r) ==
    /\ e.unlocked <=> Calling(r, "Setup") \/ SetUps(r) # {}
    /\ Calling(r, "Setup") => SetUps(r) = {}
    /\ \A m, n \in SetUps(r) : m = n
Done(e, r) ==
    r.last # None /\ r.last.ok => r.last.call.borrower \notin e.open /\ e.bal = Zero
Inside(e, r) ==
    /\ Awaited(e, r) /\ Unlocking(e, r)
    /\ r.at \in {"swap", "return"} => r.call.borrower \notin e.open

WholeInv ==
    /\ evm.allow = NoAllowance
    /\ run = None => Whole(evm)
    /\ run # None =>
          /\ Whole(run.start)
          /\ run.at = "next" => Whole(evm) /\ Done(evm, run)
          /\ run.at # "next" => Whole(run.entry) /\ Inside(evm, run)

\* A frame opens, or the one on top returns.
LEMMA SetUpsPushed ==
  ASSUME NEW r, NEW s, NEW f \in Frame, r.stack \in Seq(Frame), s.stack = Append(r.stack, f)
  PROVE  /\ f.kind = "loan" => SetUps(s) = SetUps(r)
         /\ f.kind = "setup" /\ SetUps(r) = {} => SetUps(s) = {Len(r.stack) + 1}
<1> HIDE DEF Frame
<1> DEFINE n == Len(r.stack)
           p == r.stack
           q == s.stack
<1>1. n \in Nat
  BY LenProperties
<1>2. /\ Len(q) = n + 1 /\ q[n + 1] = f
      /\ \A m \in 1..n : q[m] = p[m]
  BY AppendProperties, LenProperties
<1>3. SetUps(s) = {m \in 1..(n + 1) : q[m].kind = "setup"}
      /\ SetUps(r) = {m \in 1..n : p[m].kind = "setup"}
  BY <1>2 DEF SetUps
<1> HIDE DEF p, q
<1>4. CASE f.kind = "loan"
  <2>1. q[n + 1].kind # "setup"
    BY <1>2, <1>4
  <2>2. \A m \in 1..(n + 1) : m \in 1..n \/ m = n + 1
    BY <1>1
  <2> HIDE DEF n
  <2>3. \A m \in 1..n : m \in 1..(n + 1) /\ q[m].kind = p[m].kind
    BY <1>1, <1>2
  <2>4. SetUps(s) = SetUps(r)
    BY <1>3, <2>1, <2>2, <2>3
  <2> QED
    BY <1>4, <2>4
<1>5. CASE f.kind = "setup" /\ SetUps(r) = {}
  <2>1. q[n + 1].kind = "setup" /\ n + 1 \in 1..(n + 1)
    BY <1>1, <1>2, <1>5
  <2>2. \A m \in 1..(n + 1) : m \in 1..n \/ m = n + 1
    BY <1>1
  <2> HIDE DEF n
  <2>3. \A m \in 1..n : q[m].kind # "setup"
    BY <1>2, <1>3, <1>5
  <2>4. SetUps(s) = {n + 1}
    BY <1>3, <2>1, <2>2, <2>3
  <2> QED
    BY <1>5, <2>4 DEF n
<1> QED
  BY <1>4, <1>5

LEMMA SetUpsPopped ==
  ASSUME Typed, NEW s, run # None, run.at = "return", run.stack # <<>>,
         s.stack = Front(run.stack)
  PROVE  /\ Top.kind = "loan" => SetUps(s) = SetUps(run)
         /\ Top.kind = "setup" /\ (\A m, n \in SetUps(run) : m = n) => SetUps(s) = {}
         /\ Top.kind = "setup" => SetUps(run) # {}
<1> DEFINE l == Len(run.stack)
           p == run.stack
           q == s.stack
<1>1. /\ l \in Nat \ {0} /\ p[l] = Top /\ Len(q) = l - 1
      /\ \A m \in 1..(l - 1) : q[m] = p[m]
  BY TopTypes
<1>2. SetUps(s) = {m \in 1..(l - 1) : q[m].kind = "setup"}
      /\ SetUps(run) = {m \in 1..l : p[m].kind = "setup"}
  BY <1>1 DEF SetUps
<1> HIDE DEF l, p, q
<1>3. CASE Top.kind = "loan"
  BY <1>1, <1>2, <1>3
<1>4. CASE Top.kind = "setup"
  <2>1. l \in SetUps(run)
    BY <1>1, <1>2, <1>4
  <2>2. \A m \in SetUps(s) : m \in SetUps(run) /\ m # l
    BY <1>1, <1>2
  <2> QED
    BY <1>4, <2>1, <2>2
<1> QED
  BY <1>3, <1>4

\* A step of a call that goes on.
LEMMA StepStaysInside ==
  ASSUME Typed, WholeInv, Running1, evm'.allow = NoAllowance,
         run' # None, run'.at # "next", Inside(evm', run')
  PROVE  WholeInv'
<1>1. run # None /\ run.at # "next" /\ Kept
  BY StepKeeps
<1>2. Whole(run'.start) /\ Whole(run'.entry)
  BY <1>1 DEF WholeInv, Kept
<1> QED
  BY <1>2 DEF WholeInv

\* A step that reverts.
LEMMA FailIsWhole ==
  ASSUME Typed, WholeInv, run # None, run.at # "next", Fail(run)
  PROVE  WholeInv'
<1>1. run \in Run /\ run.requireSuccess \in BOOLEAN
  <2> HIDE DEF Call, Evm, Frame, Estimate
  <2> QED
    BY DEF Typed, Run
<1>2. Whole(run.start) /\ Whole(run.entry)
  BY DEF WholeInv
<1>3. /\ evm' = run.start \/ evm' = run.entry
      /\ run'.at = "next" /\ ~run'.last.ok /\ run'.start = run.start
  BY <1>1, FailEffect
<1>4. Whole(evm') /\ Whole(run'.start)
  BY <1>2, <1>3
<1> QED
  BY <1>3, <1>4 DEF WholeInv, Done, Whole

\* Every step of a call leaves one under way, or what it reported.
LEMMA StepMoves ==
  ASSUME Typed, Running1
  PROVE  Moved /\ run' # None
<1>1. Moved
  BY SkipTypes, SetUpTypes, LoanTypes, OnSetUpTypes, OnLoanTypes, SilentTypes, ExecuteTypes,
     SwapTypes, RepayTypes, LockTypes, SettleTypes DEF Running1
<1> QED
  BY <1>1, NoneAssumption DEF Moved

\* A venue that calls nobody back reverts the call: its callback is awaited.
LEMMA WholeSilent ==
  ASSUME Typed, WholeInv, Silent
  PROVE  Fail(run)
<1>1. run # None /\ run.at = "called"
  BY DEF Silent, Running
<1>2. Inside(evm, run)
  BY <1>1 DEF WholeInv
<1>3. /\ run.phase \in {"Setup", "FlashLoan"} /\ run.i \in 1..Len(run.call.flash)
      /\ FlashOf(run) \in FlashData
  <2>1. run \in Run /\ Under(run)
    BY <1>1 DEF Typed
  <2>2. run.phase # "LiquidationAndSwap"
    BY <1>1, <2>1 DEF Under
  <2>3. run.phase \in {"Setup", "FlashLoan", "LiquidationAndSwap"}
    BY <2>1 DEF Run
  <2> QED
    BY <1>1, <2>2, <2>3, FlashTypes DEF FlashOf, Flash
<1>4. evm.expected \in Expectation
  <2>1. /\ Callback(FlashOf(run).type) \in {"onSetUpCallback", "onMorphoFlashLoan",
                                "executeOperation", "onSwapVenueFlashSwap"}
        /\ FlashOf(run).venue \in Venues
    BY <1>3, CallbackType DEF FlashData
  <2> QED
    BY <1>1, <1>2, <1>3, <2>1 DEF Inside, Awaited, Calling, Expectation
<1>5. evm.expected # None
  BY <1>4, NoneAssumption
<1> QED
  BY <1>5, SilentFails

LEMMA WholeOfStep ==
  ASSUME Typed, WholeInv, Running1
  PROVE  WholeInv'
<1>1. run # None /\ run.at # "next" /\ Kept /\ run' # None
  BY StepKeeps, StepMoves
<1>2. /\ evm.allow = NoAllowance /\ Inside(evm, run) /\ Whole(run.entry) /\ Whole(run.start)
  BY <1>1 DEF WholeInv
<1>3. CASE Fail(run)
  BY <1>1, <1>3, FailIsWhole
<1>4. CASE SkipSetup \/ SkipLoan
  <2>1. /\ evm' = evm /\ run.at = "step" /\ run'.at = "step" /\ run'.stack = run.stack
    BY <1>4, SkipEffect
  <2>2. Inside(evm', run')
    BY <1>2, <2>1 DEF Inside, Awaited, Unlocking, Calling, SetUps
  <2> QED
    BY <1>1, <1>2, <2>1, <2>2, StepStaysInside
<1>5. CASE SetUp /\ ~Fail(run)
  <2>1. /\ run.at = "step" /\ run.phase = "Setup" /\ ~evm.unlocked
        /\ Calling(run', "Setup") /\ FlashOf(run') = FlashOf(run) /\ run'.stack = run.stack
        /\ evm'.expected = [callback |-> "onSetUpCallback", from |-> FlashOf(run).venue]
        /\ evm'.waiting = evm.waiting \cup {FlashOf(run).venue} /\ evm'.unlocked
        /\ evm'.allow = evm.allow
    BY <1>5, SetUpEffect
  <2>2. evm.waiting = {} /\ SetUps(run) = {} /\ SetUps(run') = SetUps(run)
    BY <1>2, <2>1 DEF Inside, Awaited, Unlocking, Calling, SetUps
  <2>3. run'.at = "called" /\ run'.phase = "Setup"
    BY <2>1 DEF Calling
  <2>4. Awaited(evm', run')
    BY <2>1, <2>2, <2>3 DEF Awaited, Calling
  <2>5. Unlocking(evm', run')
    BY <2>1, <2>2 DEF Unlocking
  <2> QED
    BY <1>1, <1>2, <2>1, <2>3, <2>4, <2>5, StepStaysInside DEF Inside
<1>6. CASE FlashLoan /\ ~Fail(run)
  <2>1. /\ run.at = "step" /\ run.phase = "FlashLoan"
        /\ Calling(run', "FlashLoan") /\ FlashOf(run') = FlashOf(run)
        /\ run'.stack = run.stack
        /\ evm'.expected = [callback |-> Callback(FlashOf(run).type),
                            from |-> FlashOf(run).venue]
        /\ evm'.waiting = evm.waiting /\ evm'.unlocked = evm.unlocked
        /\ evm'.allow = evm.allow
    BY <1>6, LoanEffect
  <2>2. evm.waiting = {} /\ SetUps(run') = SetUps(run)
    BY <1>2, <2>1 DEF Inside, Awaited, Calling, SetUps
  <2>3. run'.at = "called" /\ run'.phase = "FlashLoan"
    BY <2>1 DEF Calling
  <2>4. Awaited(evm', run')
    BY <2>1, <2>2, <2>3 DEF Awaited, Calling
  <2>5. Unlocking(evm', run')
    BY <1>2, <2>1, <2>2, <2>3 DEF Inside, Unlocking, Calling
  <2> QED
    BY <1>1, <1>2, <2>1, <2>3, <2>4, <2>5, StepStaysInside DEF Inside
<1>7. CASE OnSetUpCallback /\ ~Fail(run)
  <2>1. /\ Calling(run, "Setup") /\ run'.at = "step"
        /\ \E f \in Frame : f.kind = "setup" /\ run'.stack = Append(run.stack, f)
        /\ evm'.expected = None /\ evm'.waiting = evm.waiting \ {FlashOf(run).venue}
        /\ evm'.unlocked = evm.unlocked /\ evm'.allow = evm.allow
    BY <1>7, OnSetUpEffect
  <2>2. evm.waiting = {FlashOf(run).venue} /\ SetUps(run) = {} /\ evm.unlocked
    BY <1>2, <2>1 DEF Inside, Awaited, Unlocking
  <2>3. SetUps(run') = {Len(run.stack) + 1}
    <3>1. run.stack \in Seq(Frame)
      BY <1>1 DEF Typed, Run
    <3> QED
      BY <2>1, <2>2, <3>1, SetUpsPushed
  <2>4. Awaited(evm', run')
    BY <2>1, <2>2 DEF Awaited, Calling
  <2>5. Unlocking(evm', run')
    BY <2>1, <2>2, <2>3 DEF Unlocking, Calling
  <2> QED
    BY <1>1, <1>2, <2>1, <2>4, <2>5, StepStaysInside DEF Inside
<1>8. CASE OnFlashLoan /\ ~Fail(run)
  <2>1. /\ Calling(run, "FlashLoan") /\ run'.at = "step"
        /\ \E f \in Frame : f.kind = "loan" /\ run'.stack = Append(run.stack, f)
        /\ evm'.expected = None /\ evm'.waiting = evm.waiting
        /\ evm'.unlocked = evm.unlocked /\ evm'.allow = evm.allow
    BY <1>8, OnLoanEffect
  <2>2. evm.waiting = {}
    BY <1>2, <2>1 DEF Inside, Awaited, Calling
  <2>3. SetUps(run') = SetUps(run)
    <3>1. run.stack \in Seq(Frame)
      BY <1>1 DEF Typed, Run
    <3> QED
      BY <2>1, <3>1, SetUpsPushed
  <2>4. Awaited(evm', run')
    BY <2>1, <2>2 DEF Awaited, Calling
  <2>5. Unlocking(evm', run')
    BY <1>2, <2>1, <2>3 DEF Inside, Unlocking, Calling
  <2> QED
    BY <1>1, <1>2, <2>1, <2>4, <2>5, StepStaysInside DEF Inside
<1>9. CASE Silent
  BY <1>1, <1>3, <1>9, WholeSilent
<1>10. CASE ExecuteLiquidation /\ ~Fail(run)
  <2>1. /\ run.at = "step" /\ run'.at = "swap" /\ run'.stack = run.stack
        /\ SameSlots(evm', evm) /\ evm'.allow = evm.allow
        /\ evm'.open = evm.open \ {run.call.borrower}
    BY <1>2, <1>10, ExecuteEffect DEF NoAllowance
  <2>2. Awaited(evm', run') /\ Unlocking(evm', run')
    BY <1>2, <2>1 DEF Inside, Awaited, Unlocking, Calling, SetUps, SameSlots
  <2>3. run'.call = run.call
    BY <1>1 DEF Kept
  <2> QED
    BY <1>1, <1>2, <2>1, <2>2, <2>3, StepStaysInside DEF Inside
<1>11. CASE (Swap \/ Swapped) /\ ~Fail(run)
  <2>1. /\ run.at = "swap" /\ run'.at \in {"swap", "return"} /\ run'.stack = run.stack
        /\ SameSlots(evm', evm) /\ evm'.allow = evm.allow /\ evm'.open = evm.open
    BY <1>11, SwapEffect
  <2>2. Awaited(evm', run') /\ Unlocking(evm', run')
    BY <1>2, <2>1 DEF Inside, Awaited, Unlocking, Calling, SetUps, SameSlots
  <2>3. run'.call = run.call
    BY <1>1 DEF Kept
  <2> QED
    BY <1>1, <1>2, <2>1, <2>2, <2>3, StepStaysInside DEF Inside
<1>12. CASE Repay /\ ~Fail(run)
  <2>1. /\ run.at = "return" /\ run'.at = "return" /\ run.stack # <<>>
        /\ Top.kind = "loan" /\ run'.stack = Front(run.stack)
        /\ SameSlots(evm', evm) /\ evm'.allow = evm.allow /\ evm'.open = evm.open
    BY <1>12, RepayEffect
  <2>2. SetUps(run') = SetUps(run)
    BY <1>1, <2>1, SetUpsPopped
  <2>3. Awaited(evm', run') /\ Unlocking(evm', run')
    BY <1>2, <2>1, <2>2 DEF Inside, Awaited, Unlocking, Calling, SameSlots
  <2>4. run'.call = run.call
    BY <1>1 DEF Kept
  <2> QED
    BY <1>1, <1>2, <2>1, <2>3, <2>4, StepStaysInside DEF Inside
<1>13. CASE Lock /\ ~Fail(run)
  <2>1. /\ run.at = "return" /\ run'.at = "return" /\ run.stack # <<>>
        /\ Top.kind = "setup" /\ run'.stack = Front(run.stack) /\ ~evm'.unlocked
        /\ evm'.expected = evm.expected /\ evm'.waiting = evm.waiting
        /\ evm'.allow = evm.allow /\ evm'.open = evm.open
    BY <1>13, LockEffect
  <2>2. \A m, n \in SetUps(run) : m = n
    BY <1>2 DEF Inside, Unlocking
  <2>3. SetUps(run') = {}
    BY <1>1, <2>1, <2>2, SetUpsPopped
  <2>4. Awaited(evm', run') /\ Unlocking(evm', run')
    BY <1>2, <2>1, <2>3 DEF Inside, Awaited, Unlocking, Calling
  <2>5. run'.call = run.call
    BY <1>1 DEF Kept
  <2> QED
    BY <1>1, <1>2, <2>1, <2>4, <2>5, StepStaysInside DEF Inside
<1>14. CASE Settle /\ ~Fail(run)
  <2>1. /\ run.at = "return" /\ run.stack = <<>> /\ run'.at = "next"
        /\ run'.last.call = run.call
        /\ evm'.debts = <<>> /\ evm'.bal = Zero
        /\ evm'.expected = evm.expected /\ evm'.waiting = evm.waiting
        /\ evm'.unlocked = evm.unlocked /\ evm'.allow = evm.allow /\ evm'.open = evm.open
    BY <1>14, SettleEffect
  <2>2. SetUps(run) = {}
    BY <2>1 DEF SetUps
  <2>3. Whole(evm')
    BY <1>2, <2>1, <2>2 DEF Inside, Awaited, Unlocking, Calling, Whole
  <2>4. Done(evm', run')
    BY <1>2, <2>1 DEF Inside, Done
  <2>5. Whole(run'.start)
    BY <1>1, <1>2 DEF Kept
  <2> QED
    BY <1>1, <2>1, <2>3, <2>4, <2>5 DEF WholeInv, Whole
<1> QED
  BY <1>3, <1>4, <1>5, <1>6, <1>7, <1>8, <1>9, <1>10, <1>11, <1>12, <1>13, <1>14 DEF Running1

LEMMA WholeOfLiquidate ==
  ASSUME Typed, WholeInv, Liquidate
  PROVE  WholeInv'
<1>1. Moved /\ run' # None
  BY LiquidateTypes, NoneAssumption DEF Moved
<1>2. /\ run # None /\ run.at = "next" /\ run'.start = run.start
      /\ \/ /\ evm' = run.start \/ evm' = evm
            /\ run'.at = "next" /\ ~run'.last.ok
         \/ /\ evm' = evm /\ run'.at = "step" /\ run'.entry = evm /\ run'.stack = <<>>
  BY LiquidateEffect
<1>3. Whole(evm) /\ Whole(run.start)
  BY <1>2 DEF WholeInv
<1>4. CASE run'.at = "next"
  BY <1>1, <1>2, <1>3, <1>4 DEF WholeInv, Done, Whole
<1>5. CASE run'.at # "next"
  <2>1. SetUps(run') = {}
    BY <1>2, <1>5 DEF SetUps
  <2>2. Inside(evm', run')
    BY <1>2, <1>3, <1>5, <2>1 DEF Inside, Awaited, Unlocking, Calling, Whole
  <2> QED
    BY <1>1, <1>2, <1>3, <1>5, <2>2 DEF WholeInv, Whole
<1> QED
  BY <1>4, <1>5

\* A transaction, or a simulation, starts from a state that is whole.
LEMMA WholeOfSubmit ==
  ASSUME Typed, WholeInv, Idle, NEW calls \in Seq(Call), NEW all \in BOOLEAN,
         Submit(calls, all), evm' = evm
  PROVE  WholeInv'
<1>1. /\ run' \in Run /\ run'.start = evm /\ run'.at = "next" /\ run'.last = None
  BY SubmitTypes
<1>2. Whole(evm)
  BY DEF WholeInv, Idle
<1>3. run' # None
  BY <1>1, NoneAssumption
<1> QED
  BY <1>1, <1>2, <1>3 DEF WholeInv, Done, Whole

LEMMA WholeNext == Typed /\ BaseInv /\ WholeInv /\ [Next]_vars => WholeInv'
<1> SUFFICES ASSUME Typed, BaseInv, WholeInv, [Next]_vars PROVE WholeInv'
  OBVIOUS
<1>1. CASE Running1
  BY <1>1, WholeOfStep
<1>2. CASE Liquidate
  BY <1>2, WholeOfLiquidate
<1>3. CASE BelovedError
  <2>1. evm' = run.start /\ run' = None /\ run # None
    BY <1>3, Quoting DEF BelovedError, Running
  <2>2. Whole(evm')
    BY <2>1 DEF WholeInv
  <2> QED
    BY <2>1, <2>2 DEF WholeInv, Whole
<1>4. CASE End
  <2>1. run # None /\ run.at = "next" /\ run' = None /\ evm \in Evm
        /\ evm' = [evm EXCEPT !.expected = None, !.waiting = {}, !.debts = <<>>]
    BY <1>4 DEF End, Running, Typed
  <2>2. Whole(evm)
    BY <2>1 DEF WholeInv
  <2>3. Whole(evm')
    BY <2>1, <2>2 DEF Whole, Evm
  <2> QED
    BY <2>1, <2>3 DEF WholeInv, Whole
<1>5. CASE Include
  <2>1. PICK calls \in Transactions, all \in BOOLEAN : Submit(calls, all)
    BY <1>5 DEF Include
  <2>2. Idle /\ evm' = evm
    BY <1>5 DEF Include
  <2> QED
    BY <2>1, <2>2, SubmittedTypes, WholeOfSubmit
<1>6. CASE Vet \/ Move \/ UNCHANGED vars
  BY <1>6 DEF Vet, Move, vars, WholeInv
<1>7. CASE Give
  <2>1. Idle /\ run' = run /\ evm \in Evm /\ evm' = Receive(evm, Wbtc, 1)
    BY <1>7 DEF Give, Typed
  <2>2. Got(evm', evm, Wbtc, 1) /\ evm'.allow = evm.allow
    BY <2>1, TokenTypes, ReceiveFields
  <2>3. Whole(evm')
    BY <2>1, <2>2 DEF WholeInv, Idle, Whole, Got, SameSlots
  <2> QED
    BY <2>1, <2>3 DEF WholeInv, Idle, Whole
<1>8. ASSUME NEW b \in Borrowers, Probe(b) PROVE WholeInv'
  <2>1. Idle /\ evm' = evm /\ Submit(<<ProbeArgs(b)>>, TRUE)
    BY <1>8 DEF Probe
  <2>2. <<ProbeArgs(b)>> \in Seq(Call)
    BY ProbeArgsTypes
  <2> QED
    BY <2>1, <2>2, WholeOfSubmit
<1> QED
  BY <1>1, <1>2, <1>3, <1>4, <1>5, <1>6, <1>7, <1>8 DEF Next, Running1

-----------------------------------------------------------------------------
(* Every liquidation of the bot pays.  The calls it has on offer or under  *)
(* way ask for RISK_MIN_PROFIT, and what a call found is what its floor is *)
(* a difference to.                                                        *)

Pays(e) == e.gain[Wbtc] + e.bal[Wbtc] >= given + MinProfit * Cardinality(e.sold)
Floored(c) == c.expected # None => c.floor >= MinProfit

PayInv ==
    /\ \A b \in Quoted : Floored(bot.quotes[b])
    /\ run = None => Pays(evm)
    /\ run # None =>
          /\ Pays(run.start)
          /\ \A n \in DOMAIN run.rest : Floored(run.rest[n])
          /\ run.at = "next" => Pays(evm)
          /\ run.at # "next" =>
                /\ Pays(run.entry) /\ Floored(run.call)
                /\ SameGains(evm, run.entry)
                /\ run.wbtcBefore = run.entry.bal[Wbtc]

\* One liquidation more, which brought its floor.
LEMMA SettlePays ==
  ASSUME Typed, PayInv, Settle, ~Fail(run), given' = given
  PROVE  Pays(evm)'
<1>1. /\ run # None /\ run.at # "next" /\ run \in Run /\ run.call \in Call /\ evm \in Evm
  BY DEF Settle, Running, Typed, Under
<1>2. /\ Pays(run.entry) /\ Floored(run.call) /\ SameGains(evm, run.entry)
      /\ run.wbtcBefore = run.entry.bal[Wbtc]
  BY <1>1 DEF PayInv
<1>3. /\ evm'.bal = Zero
      /\ evm'.gain[Wbtc] = evm.gain[Wbtc] + evm.bal[Wbtc]
      /\ evm'.sold = IF run.call.expected = None THEN evm.sold
                     ELSE evm.sold \cup {run.call.borrower}
      /\ evm.bal[Wbtc] >= run.wbtcBefore + run.call.floor
  BY SettleEffect
<1>4. /\ evm.gain[Wbtc] \in Nat /\ evm.bal[Wbtc] \in Nat /\ run.entry.bal[Wbtc] \in Nat
      /\ run.call.floor \in Nat /\ evm'.bal[Wbtc] = 0 /\ run.entry.gain[Wbtc] \in Nat
      /\ evm.sold \in SUBSET Borrowers /\ MinProfit \in Nat /\ given \in Nat
  <2>1. run.entry \in Evm
    BY <1>1 DEF Run
  <2>2. MinProfit \in Nat /\ given \in Nat
    BY LiquidationAssumption DEF Typed
  <2>3. run.call.floor \in Nat
    BY <1>1 DEF Call
  <2>4. Zero[Wbtc] = 0
    BY TokenTypes DEF Zero
  <2> QED
    BY <1>1, <1>3, <2>1, <2>2, <2>3, <2>4, TokenTypes DEF Evm
<1> DEFINE n == Cardinality(evm.sold)
           m == Cardinality(evm'.sold)
<1>5. /\ n \in Nat /\ m \in Nat
      /\ run.call.expected = None => m = n
      /\ m = n \/ m = n + 1
  <2>1. IsFiniteSet(Borrowers)
    BY LiquidationAssumption
  <2>2. IsFiniteSet(evm.sold)
    BY <1>4, <2>1, FS_Subset
  <2>3. n \in Nat
    BY <2>2, FS_CardinalityType
  <2>4. Cardinality(evm.sold \cup {run.call.borrower})
           = IF run.call.borrower \in evm.sold THEN n ELSE n + 1
    BY <2>2, FS_AddElement
  <2> QED
    BY <1>3, <2>3, <2>4
<1>6. run.entry.gain[Wbtc] + run.entry.bal[Wbtc] >= given + MinProfit * n
      /\ evm.gain[Wbtc] = run.entry.gain[Wbtc]
  BY <1>2 DEF Pays, SameGains
<1> HIDE DEF n, m
<1>7. MinProfit * (n + 1) = MinProfit * n + MinProfit /\ MinProfit * n \in Nat
  BY <1>4, <1>5
<1>8. evm'.gain[Wbtc] + evm'.bal[Wbtc] >= given + MinProfit * m
  <2>1. CASE run.call.expected = None
    BY <1>2, <1>3, <1>4, <1>5, <1>6, <1>7, <2>1
  <2>2. CASE run.call.expected # None
    <3>1. run.call.floor >= MinProfit
      BY <1>2, <2>2 DEF Floored
    <3>2. MinProfit * m <= MinProfit * n + MinProfit /\ MinProfit * m \in Nat
      BY <1>4, <1>5, <1>7
    <3> QED
      BY <1>2, <1>3, <1>4, <1>6, <1>7, <3>1, <3>2
  <2> QED
    BY <2>1, <2>2
<1> QED
  BY <1>8 DEF Pays, m

LEMMA PayOfStep ==
  ASSUME Typed, WholeInv, PayInv, Running1
  PROVE  PayInv'
<1>1. run # None /\ run.at # "next" /\ Kept /\ run' # None /\ run \in Run
      /\ bot' = bot /\ given' = given
  BY StepKeeps, StepMoves DEF World, Typed
<1>2. /\ Pays(run.entry) /\ Floored(run.call) /\ Pays(run.start)
      /\ SameGains(evm, run.entry) /\ run.wbtcBefore = run.entry.bal[Wbtc]
      /\ \A n \in DOMAIN run.rest : Floored(run.rest[n])
      /\ evm.allow = NoAllowance
  BY <1>1 DEF PayInv, WholeInv
<1>3. (\A b \in Quoted : Floored(bot.quotes[b]))'
  BY <1>1 DEF PayInv, Quoted
<1>4. /\ \A n \in DOMAIN run'.rest : Floored(run'.rest[n])
      /\ run'.start = run.start /\ run'.entry = run.entry
      /\ run'.call = run.call /\ run'.wbtcBefore = run.wbtcBefore
  <2>1. DOMAIN <<>> = {}
    OBVIOUS
  <2> QED
    BY <1>1, <1>2, <2>1 DEF Kept
<1>5. Pays(run.start)' /\ Pays(run.entry)'
  <2>1. Pays(run.start)' = Pays(run.start) /\ Pays(run.entry)' = Pays(run.entry)
    BY <1>1, <1>4 DEF Pays
  <2> QED
    BY <1>2, <2>1
<1>6. CASE Fail(run)
  <2>1. run.requireSuccess \in BOOLEAN
    <3> HIDE DEF Call, Evm, Frame, Estimate, Result
    <3> QED
      BY <1>1 DEF Run
  <2>2. (evm' = run.start \/ evm' = run.entry) /\ run'.at = "next"
    BY <1>1, <1>6, <2>1, FailEffect
  <2>3. Pays(evm)'
    BY <1>4, <1>5, <2>2 DEF Pays
  <2> QED
    BY <1>1, <1>3, <1>4, <1>5, <2>2, <2>3 DEF PayInv
<1>7. CASE Settle /\ ~Fail(run)
  <2>1. run'.at = "next"
    BY <1>7, SettleEffect
  <2>2. Pays(evm)'
    BY <1>1, <1>7, SettlePays
  <2> QED
    BY <1>1, <1>3, <1>4, <1>5, <2>1, <2>2 DEF PayInv
<1>8. CASE ~Settle /\ ~Fail(run)
  <2>1. SameGains(evm', evm) /\ run'.at # "next"
    <3>1. CASE SkipSetup \/ SkipLoan
      BY <3>1, SkipEffect DEF SameGains
    <3>2. CASE SetUp
      BY <1>8, <3>2, SetUpEffect DEF Calling
    <3>3. CASE FlashLoan
      BY <1>8, <3>3, LoanEffect DEF Calling
    <3>4. CASE OnSetUpCallback
      BY <1>8, <3>4, OnSetUpEffect
    <3>5. CASE OnFlashLoan
      BY <1>8, <3>5, OnLoanEffect
    <3>6. CASE Silent
      BY <1>8, <3>6, WholeSilent
    <3>7. CASE ExecuteLiquidation
      BY <1>2, <1>8, <3>7, ExecuteEffect DEF NoAllowance
    <3>8. CASE Swap \/ Swapped
      BY <1>8, <3>8, SwapEffect
    <3>9. CASE Repay
      BY <1>8, <3>9, RepayEffect
    <3>10. CASE Lock
      BY <1>8, <3>10, LockEffect
    <3> QED
      BY <1>8, <3>1, <3>2, <3>3, <3>4, <3>5, <3>6, <3>7, <3>8, <3>9, <3>10 DEF Running1
  <2>2. SameGains(evm', run.entry)
    BY <1>2, <2>1 DEF SameGains
  <2>3. SameGains(evm, run.entry)' /\ (run.wbtcBefore = run.entry.bal[Wbtc])'
        /\ Floored(run.call)'
    BY <1>2, <1>4, <2>2 DEF SameGains, Floored
  <2> QED
    BY <1>1, <1>3, <1>4, <1>5, <2>1, <2>3 DEF PayInv
<1> QED
  BY <1>6, <1>7, <1>8

LEMMA PayOfLiquidate ==
  ASSUME Typed, PayInv, Liquidate
  PROVE  PayInv'
<1>1. run' # None /\ bot' = bot /\ given' = given
  BY LiquidateTypes, NoneAssumption DEF Moved, World
<1>2. /\ run # None /\ run.at = "next" /\ run'.start = run.start
      /\ 1 \in DOMAIN run.rest /\ run'.call = run.rest[1]
      /\ \A m \in DOMAIN run'.rest : \E n \in DOMAIN run.rest : run'.rest[m] = run.rest[n]
      /\ \/ /\ evm' = run.start \/ evm' = evm
            /\ run'.at = "next"
         \/ /\ evm' = evm /\ run'.at = "step" /\ run'.entry = evm
            /\ run'.wbtcBefore = evm.bal[Wbtc]
  BY LiquidateEffect
<1>3. /\ Pays(run.start) /\ Pays(evm) /\ \A n \in DOMAIN run.rest : Floored(run.rest[n])
  BY <1>2 DEF PayInv
<1>4. (\A b \in Quoted : Floored(bot.quotes[b]))'
  BY <1>1 DEF PayInv, Quoted
<1>5. /\ \A n \in DOMAIN run'.rest : Floored(run'.rest[n])
      /\ Floored(run'.call)
  BY <1>2, <1>3
<1>6. Pays(run.start)' /\ Pays(evm)'
  BY <1>1, <1>2, <1>3 DEF Pays
<1>7. run'.at # "next" => Pays(run.entry)' /\ SameGains(evm', run'.entry)
                          /\ run'.wbtcBefore = run'.entry.bal[Wbtc]
  BY <1>1, <1>2, <1>6 DEF Pays, SameGains
<1> QED
  BY <1>1, <1>4, <1>5, <1>6, <1>7 DEF PayInv

LEMMA PayOfSubmit ==
  ASSUME Typed, PayInv, Idle, NEW calls \in Seq(Call), NEW all \in BOOLEAN,
         Submit(calls, all), evm' = evm, given' = given,
         \A n \in DOMAIN calls : Floored(calls[n]),
         \A b \in Borrowers : bot'.quotes[b] \in {None, bot.quotes[b]}
  PROVE  PayInv'
<1>1. /\ run' \in Run /\ run'.start = evm /\ run'.at = "next" /\ run'.rest = calls
  BY SubmitTypes
<1>2. Pays(evm) /\ \A b \in Quoted : Floored(bot.quotes[b])
  BY DEF PayInv, Idle
<1>3. (\A b \in Quoted : Floored(bot.quotes[b]))'
  BY <1>2 DEF Quoted
<1>4. Pays(evm)' /\ Pays(run.start)'
  BY <1>1, <1>2 DEF Pays
<1>5. run' # None
  BY <1>1, NoneAssumption
<1> QED
  BY <1>1, <1>3, <1>4, <1>5 DEF PayInv

LEMMA PayNext == Typed /\ BaseInv /\ WholeInv /\ PayInv /\ [Next]_vars => PayInv'
<1> SUFFICES ASSUME Typed, BaseInv, WholeInv, PayInv, [Next]_vars PROVE PayInv'
  OBVIOUS
<1>1. CASE Running1
  BY <1>1, PayOfStep
<1>2. CASE Liquidate
  BY <1>2, PayOfLiquidate
<1>3. CASE BelovedError
  <2>1. /\ run # None /\ evm' = run.start /\ run' = None /\ given' = given
        /\ run.call \in Call
        /\ bot \in AnyBot
        /\ \/ bot' = bot
           \/ \E expected \in Nat :
                 bot' = [bot EXCEPT !.quotes[run.call.borrower] = Funded(run.call, expected)]
    BY <1>3, Quoting DEF BelovedError, Running
  <2>2. Pays(evm)'
    BY <2>1 DEF PayInv, Pays
  <2>3. (\A b \in Quoted : Floored(bot.quotes[b]))'
    <3>1. CASE bot' = bot
      BY <3>1 DEF PayInv, Quoted
    <3>2. CASE bot' # bot
      <4>1. PICK expected \in Nat :
              bot' = [bot EXCEPT !.quotes[run.call.borrower] = Funded(run.call, expected)]
        BY <2>1, <3>2
      <4> DEFINE f == Funded(run.call, expected)
      <4>2. f.floor >= MinProfit
        BY <2>1, FundedTypes, FloorTypes
      <4>3. \A b \in Borrowers : bot'.quotes[b] = f \/ bot'.quotes[b] = bot.quotes[b]
        <5> HIDE DEF f, Call
        <5>1. bot' = [bot EXCEPT !.quotes[run.call.borrower] = f]
          BY <4>1 DEF f
        <5> QED
          BY <2>1, <5>1 DEF AnyBot
      <4> HIDE DEF f
      <4>4. Floored(f)
        BY <4>2 DEF Floored
      <4> QED
        BY <4>3, <4>4 DEF PayInv, Quoted
    <3> QED
      BY <3>1, <3>2
  <2> QED
    BY <2>1, <2>2, <2>3 DEF PayInv
<1>4. CASE End
  <2>1. /\ run # None /\ run.at = "next" /\ run' = None /\ evm \in Evm
        /\ evm' = [evm EXCEPT !.expected = None, !.waiting = {}, !.debts = <<>>]
        /\ bot' = bot /\ given' = given
    BY <1>4 DEF End, Running, Typed, World
  <2>2. evm'.gain = evm.gain /\ evm'.bal = evm.bal /\ evm'.sold = evm.sold
    BY <2>1 DEF Evm
  <2>3. Pays(evm)'
    BY <2>1, <2>2 DEF PayInv, Pays
  <2> QED
    BY <2>1, <2>3 DEF PayInv, Quoted
<1>5. CASE Include
  <2>1. PICK calls \in Transactions, all \in BOOLEAN :
           /\ Submit(calls, all)
           /\ bot' = [bot EXCEPT !.quotes =
                         [b \in Borrowers |-> IF \E n \in DOMAIN calls : calls[n] = @[b]
                                              THEN None ELSE @[b]]]
    BY <1>5 DEF Include
  <2>2. Idle /\ evm' = evm /\ given' = given
    BY <1>5 DEF Include
  <2>3. \A b \in Borrowers : bot'.quotes[b] \in {None, bot.quotes[b]}
    BY <2>1 DEF Typed, AnyBot
  <2>4. \A c \in Offered : Floored(c)
    <3>1. \A c \in HandMade : c.expected = None
      BY LiquidationAssumption
    <3>2. \A c \in HandMade : Floored(c)
      BY <3>1 DEF Floored
    <3>3. \A b \in Quoted : Floored(bot.quotes[b])
      BY DEF PayInv
    <3> QED
      BY <3>2, <3>3 DEF Offered
  <2>5. \A n \in DOMAIN calls : Floored(calls[n])
    BY <2>4, OfferedCalls
  <2> QED
    BY <2>1, <2>2, <2>3, <2>5, SubmittedTypes, PayOfSubmit
<1>6. CASE Vet \/ Move \/ UNCHANGED vars
  <2>1. run' = run /\ evm' = evm /\ given' = given
    BY <1>6 DEF Vet, Move, vars
  <2>2. \A e : Pays(e)' = Pays(e)
    BY <2>1 DEF Pays
  <2>3. (\A b \in Quoted : Floored(bot.quotes[b]))'
    <3>1. CASE Vet
      BY <3>1 DEF Vet, Quoted
    <3>2. CASE Move
      <4>1. \A b \in Borrowers : bot'.quotes[b] = IF bot.quotes[b] = None THEN None
                                     ELSE [bot.quotes[b] EXCEPT !.fresh = FALSE]
        BY <3>2 DEF Move, Typed, AnyBot
      <4>2. \A c \in Call : Floored(c) => Floored([c EXCEPT !.fresh = FALSE])
        BY DEF Floored, Call
      <4>3. \A b \in Borrowers : bot.quotes[b] \in Call \cup {None}
        <5> HIDE DEF Call
        <5> QED
          BY DEF Typed, AnyBot
      <4> QED
        BY <4>1, <4>2, <4>3 DEF PayInv, Quoted
    <3>3. CASE UNCHANGED vars
      BY <3>3 DEF vars, PayInv, Quoted
    <3> QED
      BY <1>6, <3>1, <3>2, <3>3
  <2> QED
    BY <2>1, <2>3 DEF PayInv, Pays
<1>7. CASE Give
  <2>1. /\ Idle /\ run' = run /\ evm \in Evm /\ evm' = Receive(evm, Wbtc, 1)
        /\ given' = given + 1 /\ bot' = bot /\ given \in Nat
    BY <1>7, Amounts DEF Give, Typed
  <2>2. Got(evm', evm, Wbtc, 1)
    BY <2>1, TokenTypes, ReceiveFields
  <2>3. /\ evm'.gain = evm.gain /\ evm'.sold = evm.sold
        /\ evm'.bal[Wbtc] = evm.bal[Wbtc] + 1
    BY <2>2 DEF Got, SameGains
  <2>4. /\ evm.gain[Wbtc] \in Nat /\ evm.bal[Wbtc] \in Nat
        /\ MinProfit * Cardinality(evm.sold) \in Nat
    <3>1. IsFiniteSet(evm.sold)
      BY <2>1, LiquidationAssumption, FS_Subset DEF Evm
    <3>2. Cardinality(evm.sold) \in Nat /\ MinProfit \in Nat
      BY <3>1, FS_CardinalityType, LiquidationAssumption
    <3>3. MinProfit * Cardinality(evm.sold) \in Nat
      BY <3>2
    <3> QED
      BY <2>1, <3>3, TokenTypes DEF Evm
  <2>5. Pays(evm)'
    BY <2>1, <2>3, <2>4 DEF PayInv, Idle, Pays
  <2> QED
    BY <2>1, <2>5 DEF PayInv, Idle, Quoted
<1>8. ASSUME NEW b \in Borrowers, Probe(b) PROVE PayInv'
  <2>1. /\ Idle /\ evm' = evm /\ given' = given /\ Submit(<<ProbeArgs(b)>>, TRUE)
        /\ bot'.quotes = bot.quotes
    BY <1>8 DEF Probe, Typed, AnyBot
  <2>2. <<ProbeArgs(b)>> \in Seq(Call)
    BY ProbeArgsTypes
  <2>3. Floored(ProbeArgs(b))
    BY DEF Floored, ProbeArgs
  <2>4. \A n \in DOMAIN <<ProbeArgs(b)>> : Floored(<<ProbeArgs(b)>>[n])
    BY <2>3
  <2> QED
    BY <2>1, <2>2, <2>4, PayOfSubmit
<1> QED
  BY <1>1, <1>2, <1>3, <1>4, <1>5, <1>6, <1>7, <1>8 DEF Next, Running1

-----------------------------------------------------------------------------
(* Nothing overflows: what the router holds beyond what a call found is    *)
(* borrowed, and on the list of debts, or brought by the liquidation; so   *)
(* a quote is at most the collateral and what was given since.             *)

Brought(r) == IF r.at \in {"swap", "return"} THEN Seized[r.call.borrower] ELSE 0
Handing(r) == IF Calling(r, "FlashLoan") /\ FlashOf(r).token = Wbtc THEN PaymentOf(r) ELSE 0
Bounded(e, r) ==
    e.bal[Wbtc] <= r.entry.bal[Wbtc] + SumOfDebts(e.debts) + Handing(r) + Brought(r)
Given(e) == e.bal[Wbtc] <= given

FitInv ==
    /\ \A b \in Borrowers : InWord(bot.quotes[b])
    /\ run = None => Given(evm)
    /\ run # None =>
          /\ Given(run.start)
          /\ \A n \in DOMAIN run.rest : InWord(run.rest[n])
          /\ InWord(run.call)
          /\ run.at = "next" => Given(evm)
          /\ run.at # "next" => Given(run.entry) /\ Bounded(evm, run)

\* The amounts the router may meet are words.
Fits == /\ MinProfit <= MaxUint
        /\ \A b \in Borrowers : MaxGift + Seized[b] < MaxUint

\* The terms of the bound are numbers.
LEMMA FitTypes ==
  ASSUME Typed, run # None, run.at # "next"
  PROVE  /\ evm.bal[Wbtc] \in Nat /\ run.entry.bal[Wbtc] \in Nat
         /\ SumOfDebts(evm.debts) \in Nat /\ evm.debts \in Seq(VenueDebt)
         /\ run.call.borrower \in Borrowers /\ Seized[run.call.borrower] \in Nat
         /\ given \in Nat
<1>1. run \in Run /\ run.call \in Call /\ evm \in Evm
  BY DEF Typed, Under
<1>2. run.entry \in Evm /\ run.call.borrower \in Borrowers
  BY <1>1 DEF Run, Call
<1>3. SumOfDebts(evm.debts) \in Nat /\ evm.debts \in Seq(VenueDebt)
  BY <1>1, DebtsSum DEF Evm
<1>4. Seized[run.call.borrower] \in Nat
  BY <1>2, LiquidationAssumption
<1>5. given \in Nat
  BY LiquidationAssumption DEF Typed
<1>6. evm.bal[Wbtc] \in Nat /\ run.entry.bal[Wbtc] \in Nat
  BY <1>1, <1>2, TokenTypes DEF Evm
<1> QED
  BY <1>2, <1>3, <1>4, <1>5, <1>6

\* What a step keeps of the invariant whatever it does to balance and debts.
LEMMA FitKept ==
  ASSUME Typed, FitInv, Running1,
         IF run'.at = "next" THEN evm'.bal[Wbtc] <= given ELSE Bounded(evm', run')
  PROVE  FitInv'
<1>1. /\ run # None /\ run.at # "next" /\ Kept /\ run' # None
      /\ bot' = bot /\ given' = given
  BY StepKeeps, StepMoves DEF World
<1>2. /\ Given(run.entry) /\ Given(run.start) /\ InWord(run.call)
      /\ \A n \in DOMAIN run.rest : InWord(run.rest[n])
  BY <1>1 DEF FitInv
<1>3. (\A b \in Borrowers : InWord(bot.quotes[b]))'
  BY <1>1 DEF FitInv
<1>4. /\ \A n \in DOMAIN run'.rest : InWord(run'.rest[n])
      /\ run'.start = run.start /\ run'.entry = run.entry
      /\ run'.call = run.call
  <2>1. DOMAIN <<>> = {}
    OBVIOUS
  <2> QED
    BY <1>1, <1>2, <2>1 DEF Kept
<1>5. Given(run.start)' /\ Given(run.entry)' /\ InWord(run.call)'
  BY <1>1, <1>2, <1>4 DEF Given
<1>6. /\ run'.at = "next" => Given(evm)'
      /\ run'.at # "next" => Bounded(evm, run)'
  BY <1>1 DEF Given, Bounded
<1> QED
  BY <1>1, <1>3, <1>4, <1>5, <1>6 DEF FitInv

LEMMA FitOfStep ==
  ASSUME Typed, WholeInv, FitInv, Running1
  PROVE  FitInv'
<1>1. run # None /\ run.at # "next" /\ Kept /\ run \in Run
  BY StepKeeps DEF Typed
<1>2. /\ Given(run.entry) /\ Given(run.start) /\ evm.allow = NoAllowance
      /\ evm.bal[Wbtc] <= run.entry.bal[Wbtc] + SumOfDebts(evm.debts)
                            + Handing(run) + Brought(run)
  BY <1>1 DEF FitInv, WholeInv, Bounded
<1>3. run'.entry = run.entry /\ run'.call = run.call
  BY <1>1 DEF Kept
<1>4. /\ evm.bal[Wbtc] \in Nat /\ run.entry.bal[Wbtc] \in Nat
      /\ SumOfDebts(evm.debts) \in Nat /\ evm.debts \in Seq(VenueDebt)
      /\ Seized[run.call.borrower] \in Nat /\ given \in Nat
  BY <1>1, FitTypes
<1> SUFFICES IF run'.at = "next" THEN evm'.bal[Wbtc] <= given ELSE Bounded(evm', run')
  BY FitKept
<1>5. CASE Fail(run)
  <2>1. run.requireSuccess \in BOOLEAN
    <3> HIDE DEF Call, Evm, Frame, Estimate, Result
    <3> QED
      BY <1>1 DEF Run
  <2>2. (evm' = run.start \/ evm' = run.entry) /\ run'.at = "next"
    BY <1>1, <1>5, <2>1, FailEffect
  <2> QED
    BY <1>2, <2>2 DEF Given
<1>6. CASE SkipSetup \/ SkipLoan
  <2>1. evm' = evm /\ run.at = "step" /\ run'.at = "step"
    BY <1>6, SkipEffect
  <2> QED
    BY <1>2, <1>3, <1>4, <2>1 DEF Bounded, Handing, Brought, Calling
<1>7. CASE SetUp /\ ~Fail(run)
  <2>1. /\ run.at = "step" /\ run'.at = "called" /\ run'.phase = "Setup"
        /\ evm'.debts = evm.debts /\ evm'.bal = evm.bal
    BY <1>7, SetUpEffect DEF Calling
  <2> QED
    BY <1>2, <1>3, <1>4, <2>1 DEF Bounded, Handing, Brought, Calling
<1>8. CASE FlashLoan /\ ~Fail(run)
  <2>1. /\ run.at = "step" /\ run'.at = "called" /\ Calling(run', "FlashLoan")
        /\ FlashOf(run') = FlashOf(run) /\ PaymentOf(run') = PaymentOf(run)
        /\ PaymentOf(run) \in Nat /\ evm'.debts = evm.debts
        /\ evm'.bal[Wbtc] = evm.bal[Wbtc]
              + IF FlashOf(run).token = Wbtc THEN PaymentOf(run) ELSE 0
    BY <1>8, LoanEffect DEF Calling
  <2>2. /\ Handing(run) = 0 /\ Brought(run) = 0 /\ Brought(run') = 0
        /\ Handing(run') = IF FlashOf(run).token = Wbtc THEN PaymentOf(run) ELSE 0
    BY <2>1 DEF Handing, Brought, Calling
  <2> QED
    BY <1>2, <1>3, <1>4, <2>1, <2>2 DEF Bounded
<1>9. CASE OnSetUpCallback /\ ~Fail(run)
  <2>1. /\ run.at = "called" /\ run.phase = "Setup" /\ run'.at = "step"
        /\ evm'.debts = evm.debts /\ evm'.bal = evm.bal
    BY <1>9, OnSetUpEffect DEF Calling
  <2> QED
    BY <1>2, <1>3, <1>4, <2>1 DEF Bounded, Handing, Brought, Calling
<1>10. CASE OnFlashLoan /\ ~Fail(run)
  <2>1. /\ run.at = "called" /\ Calling(run, "FlashLoan") /\ run'.at = "step"
        /\ evm'.bal = evm.bal /\ PaymentOf(run) \in Nat
    BY <1>10, OnLoanEffect DEF Calling
  <2>2. PICK d \in VenueDebt : /\ evm'.debts = Append(evm.debts, d)
                               /\ FlashOf(run).token = Wbtc => d.amount >= PaymentOf(run)
    BY <1>10, OnLoanEffect
  <2>3. SumOfDebts(evm'.debts) = SumOfDebts(evm.debts) + d.amount /\ d.amount \in Nat
    BY <1>4, <2>2, DebtsGrow DEF VenueDebt
  <2>4. /\ Handing(run) <= d.amount /\ Handing(run) \in Nat
        /\ Brought(run) = 0 /\ Brought(run') = 0 /\ Handing(run') = 0
    BY <2>1, <2>2, <2>3 DEF Handing, Brought, Calling
  <2>5. evm.bal[Wbtc] <= run.entry.bal[Wbtc] + (SumOfDebts(evm.debts) + d.amount) + 0 + 0
    <3>1. evm.bal[Wbtc] <= run.entry.bal[Wbtc] + SumOfDebts(evm.debts)
                              + Handing(run) + Brought(run)
      BY <1>2
    <3>2. /\ evm.bal[Wbtc] \in Nat /\ run.entry.bal[Wbtc] \in Nat
          /\ SumOfDebts(evm.debts) \in Nat
      BY <1>4
    <3> HIDE DEF Handing, Brought, SumOfDebts
    <3> QED
      BY <2>3, <2>4, <3>1, <3>2
  <2> QED
    BY <1>3, <2>1, <2>3, <2>4, <2>5 DEF Bounded
<1>11. CASE Silent
  BY <1>5, <1>11, WholeSilent
<1>12. CASE ExecuteLiquidation /\ ~Fail(run)
  <2>1. /\ run.at = "step" /\ run'.at = "swap" /\ evm'.debts = evm.debts
        /\ evm'.bal[Wbtc] <= evm.bal[Wbtc] + Seized[run.call.borrower]
    BY <1>2, <1>12, ExecuteEffect DEF NoAllowance, SameSlots
  <2>2. /\ Handing(run) = 0 /\ Brought(run) = 0 /\ Handing(run') = 0
        /\ Brought(run') = Seized[run.call.borrower]
    BY <1>3, <2>1 DEF Handing, Brought, Calling
  <2>3. evm'.bal[Wbtc] \in Nat
    BY StepMoves, TokenTypes DEF Moved, Evm
  <2> QED
    BY <1>2, <1>3, <1>4, <2>1, <2>2, <2>3 DEF Bounded
<1>13. CASE (Swap \/ Swapped \/ Repay \/ Lock) /\ ~Fail(run)
  <2>1. /\ run.at \in {"swap", "return"} /\ run'.at \in {"swap", "return"}
        /\ evm'.debts = evm.debts /\ evm'.bal[Wbtc] <= evm.bal[Wbtc]
    <3>1. CASE Swap \/ Swapped
      BY <1>13, <3>1, SwapEffect DEF SameSlots
    <3>2. CASE Repay
      BY <1>13, <3>2, RepayEffect DEF SameSlots
    <3>3. CASE Lock
      BY <1>4, <1>13, <3>3, LockEffect
    <3> QED
      BY <1>13, <3>1, <3>2, <3>3
  <2>2. /\ Handing(run) = 0 /\ Handing(run') = 0 /\ Brought(run') = Brought(run)
        /\ Brought(run) \in Nat
    BY <1>3, <1>4, <2>1 DEF Handing, Brought, Calling
  <2>3. evm'.bal[Wbtc] \in Nat
    BY StepMoves, TokenTypes DEF Moved, Evm
  <2> QED
    BY <1>2, <1>3, <1>4, <2>1, <2>2, <2>3 DEF Bounded
<1>14. CASE Settle /\ ~Fail(run)
  <2>1. run'.at = "next" /\ evm'.bal = Zero
    BY <1>14, SettleEffect
  <2> QED
    BY <1>4, <2>1, TokenTypes DEF Zero
<1> QED
  BY <1>5, <1>6, <1>7, <1>8, <1>9, <1>10, <1>11, <1>12, <1>13, <1>14 DEF Running1

LEMMA FitOfLiquidate ==
  ASSUME Typed, WholeInv, FitInv, Liquidate
  PROVE  FitInv'
<1>1. run' # None /\ bot' = bot /\ given' = given /\ evm \in Evm
  BY LiquidateTypes, NoneAssumption DEF Moved, World, Typed
<1>2. /\ run # None /\ run.at = "next" /\ run'.start = run.start
      /\ 1 \in DOMAIN run.rest /\ run'.call = run.rest[1]
      /\ \A m \in DOMAIN run'.rest : \E n \in DOMAIN run.rest : run'.rest[m] = run.rest[n]
      /\ \/ /\ evm' = run.start \/ evm' = evm
            /\ run'.at = "next"
         \/ /\ evm' = evm /\ run'.at = "step" /\ run'.entry = evm
  BY LiquidateEffect
<1>3. /\ Given(run.start) /\ Given(evm) /\ \A n \in DOMAIN run.rest : InWord(run.rest[n])
      /\ evm.debts = <<>>
  BY <1>2 DEF FitInv, WholeInv, Whole
<1>4. (\A b \in Borrowers : InWord(bot.quotes[b]))'
  BY <1>1 DEF FitInv
<1>5. (\A n \in DOMAIN run'.rest : InWord(run'.rest[n])) /\ InWord(run'.call)
  BY <1>2, <1>3
<1>6. Given(run.start)' /\ Given(evm)'
  BY <1>1, <1>2, <1>3 DEF Given
<1>7. run'.at # "next" => Given(run.entry)' /\ Bounded(evm, run)'
  <2> SUFFICES ASSUME run'.at # "next" PROVE Given(run.entry)' /\ Bounded(evm', run')
    OBVIOUS
  <2>1. evm' = evm /\ run'.at = "step" /\ run'.entry = evm
    BY <1>2
  <2>2. SumOfDebts(evm.debts) = 0 /\ evm.bal[Wbtc] \in Nat
    BY <1>1, <1>3, NoDebts, TokenTypes DEF Evm
  <2>3. Handing(run') = 0 /\ Brought(run') = 0
    BY <2>1 DEF Handing, Brought, Calling
  <2>4. Bounded(evm', run')
    BY <2>1, <2>2, <2>3 DEF Bounded
  <2> QED
    BY <1>1, <1>3, <2>1, <2>4 DEF Given
<1> QED
  BY <1>1, <1>4, <1>5, <1>6, <1>7 DEF FitInv

LEMMA FitOfSubmit ==
  ASSUME Typed, FitInv, Idle, NEW calls \in Seq(Call), NEW all \in BOOLEAN,
         Submit(calls, all), evm' = evm, given' = given,
         \A n \in DOMAIN calls : InWord(calls[n]),
         \A b \in Borrowers : bot'.quotes[b] \in {None, bot.quotes[b]}
  PROVE  FitInv'
<1>1. /\ run' \in Run /\ run'.start = evm /\ run'.at = "next" /\ run'.rest = calls
      /\ run'.call = None
  <2>1. /\ run' \in Run /\ run'.start = evm /\ run'.at = "next" /\ run'.rest = calls
    BY SubmitTypes
  <2> QED
    BY <2>1 DEF Submit
<1>2. Given(evm) /\ \A b \in Borrowers : InWord(bot.quotes[b])
  BY DEF FitInv, Idle
<1>3. InWord(None)
  BY DEF InWord
<1>4. \A b \in Borrowers : InWord(bot'.quotes[b])
  BY <1>2, <1>3
<1>5. Given(evm)' /\ Given(run.start)'
  BY <1>1, <1>2 DEF Given
<1>6. run' # None
  BY <1>1, NoneAssumption
<1> QED
  BY <1>1, <1>3, <1>4, <1>5, <1>6 DEF FitInv

\* A quote is no more than the collateral and what was given since its pass.
LEMMA QuoteFits ==
  ASSUME Fits, Typed, BaseInv, FitInv, BelovedError,
         NEW expected \in Nat, expected = QuoteProfit(evm.bal[Wbtc], evm.debts)
  PROVE  MinWbtcProfitFloor(expected) <= MaxUint
<1>1. run # None /\ run.at = "swap"
  BY DEF BelovedError, Running
<1>2. /\ evm.bal[Wbtc] \in Nat /\ run.entry.bal[Wbtc] \in Nat
      /\ SumOfDebts(evm.debts) \in Nat /\ given \in Nat
      /\ run.call.borrower \in Borrowers /\ Seized[run.call.borrower] \in Nat
  BY <1>1, FitTypes
<1>3. /\ evm.bal[Wbtc] <= run.entry.bal[Wbtc] + SumOfDebts(evm.debts)
                             + Handing(run) + Brought(run)
      /\ run.entry.bal[Wbtc] <= given /\ given <= MaxGift
      /\ Handing(run) = 0 /\ Brought(run) = Seized[run.call.borrower]
  BY <1>1 DEF FitInv, Bounded, Given, Handing, Brought, Calling, Typed
<1>4. /\ bot.baseline \in Nat
      /\ MaxGift \in Nat /\ MaxUint \in Nat /\ MinProfit \in Nat /\ SlippageBps \in 0..10000
  <2>1. bot.baseline \in Nat
    BY Quoting
  <2>2. /\ MaxGift \in Nat /\ MaxUint \in Nat /\ MinProfit \in Nat
        /\ SlippageBps \in 0..10000
    BY Amounts
  <2> QED
    BY <2>1, <2>2
<1>5. expected <= MaxGift + Seized[run.call.borrower]
  BY <1>2, <1>3, <1>4 DEF QuoteProfit
<1>6. expected <= MaxUint /\ MinProfit <= MaxUint
  BY <1>2, <1>4, <1>5 DEF Fits
<1>7. (expected * (10000 - SlippageBps)) \div 10000 <= expected
      /\ (expected * (10000 - SlippageBps)) \div 10000 \in Nat
  <2>1. expected * SlippageBps \in Nat /\ 10000 - SlippageBps \in Nat
        /\ expected * (10000 - SlippageBps) = expected * 10000 - expected * SlippageBps
    BY <1>4
  <2>2. expected * (10000 - SlippageBps) <= expected * 10000
        /\ expected * (10000 - SlippageBps) \in Nat
    BY <2>1
  <2> QED
    BY <2>2
<1> QED
  BY <1>4, <1>6, <1>7 DEF MinWbtcProfitFloor

LEMMA FitNext ==
  ASSUME Fits, Typed, BaseInv, WholeInv, FitInv, [Next]_vars
  PROVE  FitInv'
<1>1. CASE Running1
  BY <1>1, FitOfStep
<1>2. CASE Liquidate
  BY <1>2, FitOfLiquidate
<1>3. CASE BelovedError
  <2>1. /\ run # None /\ evm' = run.start /\ run' = None /\ given' = given
        /\ run.call \in Call
        /\ bot \in AnyBot
        /\ \/ bot' = bot
           \/ \E expected \in Nat :
                 /\ expected = QuoteProfit(evm.bal[Wbtc], evm.debts)
                 /\ bot' = [bot EXCEPT !.quotes[run.call.borrower]
                                          = Funded(run.call, expected)]
    BY <1>3, Quoting DEF BelovedError, Running
  <2>2. Given(evm)'
    BY <2>1 DEF FitInv, Given
  <2>3. (\A b \in Borrowers : InWord(bot.quotes[b]))'
    <3>1. CASE bot' = bot
      BY <3>1 DEF FitInv
    <3>2. CASE bot' # bot
      <4>1. PICK expected \in Nat :
              /\ expected = QuoteProfit(evm.bal[Wbtc], evm.debts)
              /\ bot' = [bot EXCEPT !.quotes[run.call.borrower] = Funded(run.call, expected)]
        BY <2>1, <3>2
      <4> DEFINE f == Funded(run.call, expected)
      <4>2. f.floor <= MaxUint
        BY <1>3, <2>1, <4>1, FundedTypes, QuoteFits
      <4>3. \A b \in Borrowers : bot'.quotes[b] = f \/ bot'.quotes[b] = bot.quotes[b]
        <5> HIDE DEF f, Call
        <5>1. bot' = [bot EXCEPT !.quotes[run.call.borrower] = f]
          BY <4>1 DEF f
        <5> QED
          BY <2>1, <5>1 DEF AnyBot
      <4> HIDE DEF f
      <4>4. InWord(f)
        BY <4>2 DEF InWord
      <4> QED
        BY <4>3, <4>4 DEF FitInv
    <3> QED
      BY <3>1, <3>2
  <2> QED
    BY <2>1, <2>2, <2>3 DEF FitInv
<1>4. CASE End
  <2>1. /\ run # None /\ run.at = "next" /\ run' = None /\ evm \in Evm
        /\ evm' = [evm EXCEPT !.expected = None, !.waiting = {}, !.debts = <<>>]
        /\ bot' = bot /\ given' = given
    BY <1>4 DEF End, Running, Typed, World
  <2>2. evm'.bal = evm.bal
    BY <2>1 DEF Evm
  <2>3. Given(evm)'
    BY <2>1, <2>2 DEF FitInv, Given
  <2> QED
    BY <2>1, <2>3 DEF FitInv
<1>5. CASE Include
  <2>1. PICK calls \in Transactions, all \in BOOLEAN :
           /\ Submit(calls, all)
           /\ bot' = [bot EXCEPT !.quotes =
                         [b \in Borrowers |-> IF \E n \in DOMAIN calls : calls[n] = @[b]
                                              THEN None ELSE @[b]]]
    BY <1>5 DEF Include
  <2>2. Idle /\ evm' = evm /\ given' = given
    BY <1>5 DEF Include
  <2>3. \A b \in Borrowers : bot'.quotes[b] \in {None, bot.quotes[b]}
    BY <2>1 DEF Typed, AnyBot
  <2>4. \A c \in Offered : InWord(c)
    <3>1. \A c \in HandMade : c.floor \in Nat /\ c.floor < MaxUint
      BY LiquidationAssumption DEF Call, MIN_PROFIT_REVERT_TAG
    <3>2. MaxUint \in Nat
      BY LiquidationAssumption
    <3> QED
      BY <3>1, <3>2 DEF Offered, Quoted, FitInv, InWord
  <2>5. \A n \in DOMAIN calls : InWord(calls[n])
    BY <2>4, OfferedCalls
  <2> QED
    BY <2>1, <2>2, <2>3, <2>5, SubmittedTypes, FitOfSubmit
<1>6. CASE Vet \/ Move \/ UNCHANGED vars
  <2>1. run' = run /\ evm' = evm /\ given' = given
    BY <1>6 DEF Vet, Move, vars
  <2>2. (\A b \in Borrowers : InWord(bot.quotes[b]))'
    <3>1. CASE Vet
      BY <3>1 DEF Vet, InWord
    <3>2. CASE Move
      <4>1. \A b \in Borrowers : bot'.quotes[b] = IF bot.quotes[b] = None THEN None
                                     ELSE [bot.quotes[b] EXCEPT !.fresh = FALSE]
        BY <3>2 DEF Move, Typed, AnyBot
      <4>2. \A c \in Call : [c EXCEPT !.fresh = FALSE].floor = c.floor
        BY DEF Call
      <4>3. \A b \in Borrowers : bot.quotes[b] \in Call \cup {None}
        <5> HIDE DEF Call
        <5> QED
          BY DEF Typed, AnyBot
      <4>4. \A b \in Borrowers : InWord(bot.quotes[b])
        BY DEF FitInv
      <4>5. ASSUME NEW b \in Borrowers
            PROVE  InWord(bot'.quotes[b])
        <5> HIDE DEF Call
        <5>1. CASE bot.quotes[b] = None
          BY <4>1, <5>1 DEF InWord
        <5>2. CASE bot.quotes[b] # None
          <6>1. bot'.quotes[b].floor = bot.quotes[b].floor
            BY <4>1, <4>2, <4>3, <5>2
          <6> QED
            BY <4>4, <5>2, <6>1 DEF InWord
        <5> QED
          BY <5>1, <5>2
      <4> QED
        BY <4>5
    <3>3. CASE UNCHANGED vars
      BY <3>3 DEF vars, FitInv
    <3> QED
      BY <1>6, <3>1, <3>2, <3>3
  <2> QED
    BY <2>1, <2>2 DEF FitInv, Given
<1>7. CASE Give
  <2>1. /\ Idle /\ run' = run /\ evm \in Evm /\ evm' = Receive(evm, Wbtc, 1)
        /\ given' = given + 1 /\ bot' = bot /\ given \in Nat
    BY <1>7, Amounts DEF Give, Typed
  <2>2. Got(evm', evm, Wbtc, 1) /\ evm.bal[Wbtc] \in Nat
    BY <2>1, TokenTypes, ReceiveFields DEF Evm
  <2>3. Given(evm)'
    BY <2>1, <2>2 DEF FitInv, Idle, Given, Got
  <2> QED
    BY <2>1, <2>3 DEF FitInv, Idle
<1>8. ASSUME NEW b \in Borrowers, Probe(b) PROVE FitInv'
  <2>1. /\ Idle /\ evm' = evm /\ given' = given /\ Submit(<<ProbeArgs(b)>>, TRUE)
        /\ bot'.quotes = bot.quotes
    BY <1>8 DEF Probe, Typed, AnyBot
  <2>2. <<ProbeArgs(b)>> \in Seq(Call)
    BY ProbeArgsTypes
  <2>3. InWord(ProbeArgs(b))
    BY LiquidationAssumption DEF InWord, ProbeArgs, MIN_PROFIT_REVERT_TAG
  <2>4. \A n \in DOMAIN <<ProbeArgs(b)>> : InWord(<<ProbeArgs(b)>>[n])
    BY <2>3
  <2> QED
    BY <2>1, <2>2, <2>4, FitOfSubmit
<1> QED
  BY <1>1, <1>2, <1>3, <1>4, <1>5, <1>6, <1>7, <1>8 DEF Next, Running1

-----------------------------------------------------------------------------
(* The quote of a fresh call.  The bot asks every liquidation for the same *)
(* loans, so what is lent and owed at each step is a sum over them.        *)

Flashes == BuildFlashDatas(AllFundableTokens)
Size == Len(FlashSwaps) + 1
Standard(c) == c.flash = Flashes /\ c.swaps = <<>>

LEMMA Loans ==
  /\ Size \in Nat \ {0} /\ Len(Flashes) = Size /\ Flashes \in Seq(FlashData)
  /\ \A n \in 1..Size : Flashes[n].token = AllFundableTokens[n]
  /\ \A n \in 1..Size : \/ Flashes[n].type = "UniswapV4FlashSwap"
                        \/ Flashes[n].type \in {"AaveV3", "Morpho"} /\ Flashes[n].token = Wbtc
  /\ \A m, n \in 1..Size : Flashes[m].token = Flashes[n].token => m = n
  /\ Flashes[Size].token = Wbtc
<1> DEFINE N == Len(FlashSwaps)
           owed == AllFundableTokens
           swapped == [n \in DOMAIN FlashSwaps |-> FlashSwaps[n].token]
<1>1. /\ owed \in Seq(Tokens) /\ Len(owed) = N + 1 /\ N \in Nat
      /\ \A n \in 1..N : owed[n] = FlashSwaps[n].token
      /\ owed[N + 1] = Wbtc
      /\ Flashes \in Seq(FlashData) /\ Len(Flashes) = N + 1
  BY FlashTypesBuilt DEF Flashes
<1>2. DOMAIN owed = 1..(N + 1)
  BY <1>1, LenProperties
<1>3. DOMAIN FlashSwaps = 1..N
  <2> DEFINE Swaps == [token : Tokens, venue : Venues]
  <2>1. FlashSwaps \in Seq(Swaps)
    BY LiquidationAssumption
  <2> HIDE DEF Swaps
  <2> QED
    BY <2>1, LenProperties
<1>4. \A m, n \in 1..N : owed[m] = owed[n] => m = n
  <2>1. IsInjective(swapped)
    BY LiquidationAssumption DEF RegistryValid
  <2>2. \A m, n \in DOMAIN swapped : swapped[m] = swapped[n] => m = n
    BY <2>1 DEF IsInjective
  <2>3. \A n \in 1..N : n \in DOMAIN swapped /\ swapped[n] = owed[n]
    BY <1>1, <1>3
  <2> HIDE DEF swapped, owed
  <2> QED
    BY <2>2, <2>3
<1>5. \A n \in 1..N : owed[n] # Wbtc
  <2>1. RegistryValid
    BY LiquidationAssumption
  <2>2. \A n \in DOMAIN FlashSwaps : FlashSwaps[n].token # Wbtc
    BY <2>1 DEF RegistryValid
  <2> HIDE DEF owed
  <2> QED
    BY <1>1, <1>3, <2>2
<1>6. \A m, n \in 1..(N + 1) : owed[m] = owed[n] => m = n
  <2>1. \A n \in 1..(N + 1) : n \in 1..N \/ n = N + 1
    BY <1>1
  <2> HIDE DEF owed, N
  <2> QED
    BY <1>1, <1>4, <1>5, <2>1
<1>7. \A n \in 1..(N + 1) : Flashes[n].token = owed[n]
  BY <1>2 DEF Flashes, BuildFlashDatas
<1>8. \A n \in 1..(N + 1) : \/ Flashes[n].type = "UniswapV4FlashSwap"
                            \/ Flashes[n].type \in {"AaveV3", "Morpho"} /\ owed[n] = Wbtc
  <2>1. LoanVenue.type \in {"AaveV3", "Morpho"}
    BY LiquidationAssumption
  <2> QED
    BY <1>2, <2>1 DEF Flashes, BuildFlashDatas
<1>9. N + 1 \in 1..(N + 1)
  BY <1>1
<1>10. Size = N + 1
  BY DEF Size
<1> HIDE DEF N
<1> QED
  BY <1>1, <1>6, <1>7, <1>8, <1>9, <1>10

\* What the market m asks of a liquidation of b, and each loan of it.
Est(m, b) == [debtToken |-> Debt[b].token, debtToCover |-> Debt[b].amount,
              wbtcPayment |-> m.pay, exitBtcFee |-> Fee]
Fair(m) == IF m.pay + m.drift >= 0 THEN m.pay + m.drift ELSE 0
Owes(m, f, amount) == CASE f.type = "Morpho" -> amount
                        [] f.type = "AaveV3" -> amount + Premium
                        [] OTHER -> amount * m.rate
Pay(m, b, n) == PaymentIn(Est(m, b), Flashes[n].token)
Due(m, b) == [n \in 1..Size |-> IF Pay(m, b, n) = 0 THEN 0
                                ELSE Owes(m, Flashes[n], Pay(m, b, n))]
\* What the first n loans lend of a token.
Lent(m, b, t, n) == IF \E k \in 1..n : Flashes[k].token = t
                    THEN PaymentIn(Est(m, b), t) ELSE 0

LEMMA MarketAsks ==
  /\ \A b \in Borrowers : EstLiquidationPayment(b) = Est(market, b)
  /\ \A b \in Borrowers : Asked(Est(market, b)) = Fair(market)
  /\ \A f \in FlashData, amount \in Nat : OwedFor(f, amount).amount = Owes(market, f, amount)
<1>1. \A b \in Borrowers : EstLiquidationPayment(b) = Est(market, b)
  BY DEF EstLiquidationPayment, Est
<1>2. \A b \in Borrowers : Asked(Est(market, b)) = Fair(market)
  BY DEF Asked, Est, Fair
<1>3. \A f \in FlashData, amount \in Nat : OwedFor(f, amount).amount = Owes(market, f, amount)
  BY DEF OwedFor, Owes
<1> QED
  BY <1>1, <1>2, <1>3

\* A loan is owed in WBTC, whichever it is.
LEMMA Owing ==
  ASSUME NEW m \in Market, NEW b \in Borrowers
  PROVE  /\ Est(m, b) \in Estimate
         /\ Est(m, b).debtToken = Debt[b].token /\ Est(m, b).debtToCover = Debt[b].amount
         /\ Est(m, b).wbtcPayment = m.pay /\ Est(m, b).exitBtcFee = Fee
         /\ \A t \in Tokens : PaymentIn(Est(m, b), t) \in Nat
         /\ \A n \in 1..Size : Pay(m, b, n) \in Nat /\ Flashes[n] \in FlashData
         /\ \A n \in 1..Size, amount \in Nat : OwedFor(Flashes[n], amount).token = Wbtc
         /\ Weights(Due(m, b), 1..Size)
<1>1. Est(m, b) \in Estimate
  <2>1. m.pay \in Nat /\ Debt[b].amount \in Nat /\ Fee \in Nat /\ Debt[b].token \in Tokens
    BY LiquidationAssumption, TokenTypes DEF Market
  <2> QED
    BY <2>1 DEF Est, Estimate
<1>2. /\ Est(m, b).debtToken = Debt[b].token /\ Est(m, b).debtToCover = Debt[b].amount
      /\ Est(m, b).wbtcPayment = m.pay /\ Est(m, b).exitBtcFee = Fee
  BY DEF Est
<1> HIDE DEF Est
<1>3. \A t \in Tokens : PaymentIn(Est(m, b), t) \in Nat
  BY <1>1 DEF PaymentIn, Estimate
<1>4. \A n \in 1..Size : Flashes[n] \in FlashData
  BY Loans, ElementOfSeq
<1>5. \A n \in 1..Size : Pay(m, b, n) \in Nat
  <2>1. \A n \in 1..Size : Flashes[n].token \in Tokens
    BY <1>4 DEF FlashData
  <2> QED
    BY <1>3, <2>1 DEF Pay
<1>6. \A n \in 1..Size, amount \in Nat : OwedFor(Flashes[n], amount).token = Wbtc
  BY Loans DEF OwedFor
<1>7. Weights(Due(m, b), 1..Size)
  <2>1. \A n \in 1..Size : Owes(m, Flashes[n], Pay(m, b, n)) \in Nat
    <3>1. m.rate \in Nat /\ Premium \in Nat
      BY Amounts DEF Market
    <3>2. \A amount \in Nat : amount * m.rate \in Nat
      BY <3>1
    <3> QED
      BY <1>5, <3>1, <3>2 DEF Owes
  <2>2. IsFiniteSet(1..Size)
    BY Loans, FS_Interval
  <2> DEFINE D == 1..Size
  <2>3. Due(m, b) \in [D -> Nat]
    BY <2>1 DEF Due
  <2> QED
    BY <2>2, <2>3 DEF Weights
<1> QED
  BY <1>1, <1>2, <1>3, <1>4, <1>5, <1>6, <1>7

\* What one loan more adds to what is lent, and to what is owed.
LEMMA OneMore ==
  ASSUME NEW m \in Market, NEW b \in Borrowers, NEW i \in 1..Size
  PROVE  /\ Sum(Due(m, b), 1..i) = Sum(Due(m, b), 1..(i - 1)) + Due(m, b)[i]
         /\ Sum(Due(m, b), 1..(i - 1)) \in Nat /\ Due(m, b)[i] \in Nat
         /\ \A t \in Tokens : Lent(m, b, t, i) = Lent(m, b, t, i - 1)
                                + IF Flashes[i].token = t THEN Pay(m, b, i) ELSE 0
         /\ \A t \in Tokens : Lent(m, b, t, i - 1) \in Nat
<1>1. Weights(Due(m, b), 1..Size) /\ \A t \in Tokens : PaymentIn(Est(m, b), t) \in Nat
  BY Owing
<1>2. /\ i \in 1..i /\ (1..i) \ {i} = 1..(i - 1) /\ Size \in Nat
      /\ 1..i \in SUBSET (1..Size) /\ 1..(i - 1) \in SUBSET (1..Size)
  BY Loans
<1>3. Sum(Due(m, b), 1..i) = Due(m, b)[i] + Sum(Due(m, b), 1..(i - 1))
  <2>1. Sum(Due(m, b), 1..i) = Due(m, b)[i] + Sum(Due(m, b), (1..i) \ {i})
    BY <1>1, <1>2, SumRemove
  <2>2. (1..i) \ {i} = 1..(i - 1)
    BY <1>2
  <2> QED
    BY <2>1, <2>2, Zenon
<1>4. Sum(Due(m, b), 1..(i - 1)) \in Nat
  BY <1>1, <1>2, SumIsNat
<1>5. Due(m, b)[i] \in Nat
  BY <1>1 DEF Weights
<1>6. \A t \in Tokens : Lent(m, b, t, i - 1) \in Nat
  BY <1>1 DEF Lent
<1>7. ASSUME NEW t \in Tokens
      PROVE  Lent(m, b, t, i) = Lent(m, b, t, i - 1)
                                  + IF Flashes[i].token = t THEN Pay(m, b, i) ELSE 0
  <2>1. CASE Flashes[i].token = t
    <3>1. \A n \in 1..(i - 1) : n \in 1..Size /\ n # i
      BY <1>2
    <3>2. ~\E n \in 1..(i - 1) : Flashes[n].token = t
      BY <2>1, <3>1, Loans
    <3>3. Lent(m, b, t, i - 1) = 0 /\ Lent(m, b, t, i) = PaymentIn(Est(m, b), t)
      BY <1>2, <2>1, <3>2 DEF Lent
    <3>4. Pay(m, b, i) = PaymentIn(Est(m, b), t)
      BY <2>1 DEF Pay
    <3> QED
      BY <1>1, <2>1, <3>3, <3>4
  <2>2. CASE Flashes[i].token # t
    <3>1. \A n : n \in 1..i <=> n \in 1..(i - 1) \/ n = i
      BY <1>2
    <3>2. Lent(m, b, t, i) = Lent(m, b, t, i - 1)
      BY <2>2, <3>1 DEF Lent
    <3> QED
      BY <1>6, <2>2, <3>2
  <2> QED
    BY <2>1, <2>2
<1>8. Sum(Due(m, b), 1..i) = Sum(Due(m, b), 1..(i - 1)) + Due(m, b)[i]
  BY <1>3, <1>4, <1>5
<1> QED
  BY <1>4, <1>5, <1>6, <1>7, <1>8

Owed(m, b, n) == Sum(Due(m, b), 1..n)

LEMMA Totals ==
  ASSUME NEW m \in Market, NEW b \in Borrowers
  PROVE  /\ \A n \in 0..Size : Owed(m, b, n) \in Nat
         /\ Owed(m, b, 0) = 0
         /\ \A t \in Tokens : Lent(m, b, t, 0) = 0
         /\ \A t \in Tokens, n \in 0..Size : Lent(m, b, t, n) \in Nat
         /\ Lent(m, b, Wbtc, Size) = PaymentIn(Est(m, b), Wbtc)
<1>1. /\ Weights(Due(m, b), 1..Size) /\ Size \in Nat \ {0}
      /\ \A t \in Tokens : PaymentIn(Est(m, b), t) \in Nat
  BY Owing, Loans
<1>2. ASSUME NEW n \in 0..Size PROVE Owed(m, b, n) \in Nat
  <2>1. 1..n \in SUBSET (1..Size)
    BY <1>1
  <2> QED
    BY <1>1, <2>1, SumIsNat DEF Owed
<1>3. 1..0 = {} /\ 1..0 \in SUBSET (1..Size)
  OBVIOUS
<1>4. Owed(m, b, 0) = 0
  BY <1>1, <1>3, SumStep DEF Owed
<1>5. \A t \in Tokens : Lent(m, b, t, 0) = 0
  BY <1>3 DEF Lent
<1>6. \A t \in Tokens, n \in 0..Size : Lent(m, b, t, n) \in Nat
  BY <1>1 DEF Lent
<1>7. Lent(m, b, Wbtc, Size) = PaymentIn(Est(m, b), Wbtc)
  <2>1. Size \in 1..Size /\ Flashes[Size].token = Wbtc
    BY <1>1, Loans
  <2> QED
    BY <2>1 DEF Lent
<1> QED
  BY <1>2, <1>4, <1>5, <1>6, <1>7

\* What a liquidation of b brings, and what is left of it for the router.
Earned(m, b) == (((m.pay - Fair(m)) + Seized[b]) - Fee) - Owed(m, b, Size)
\* The liquidation is done in market m if its calls are as the bot makes them.
Sound(m, b) ==
    /\ \E n \in 1..Size : Flashes[n].token = Debt[b].token
    /\ Fair(m) <= m.pay
    /\ \A n \in 1..Size : Pay(m, b, n) # 0 => m.silent # Flashes[n].venue

\* How many loans have called back, and how many have been handed over.
Past(r) == CASE r.phase = "Setup"     -> 0
             [] r.phase = "FlashLoan" -> r.i - 1
             [] OTHER                 -> Size
HandedTo(r) == IF Calling(r, "FlashLoan") THEN r.i ELSE Past(r)

Holding(m, e, r, past, handed) ==
    /\ e.open = r.entry.open
    /\ \A t \in Tokens : e.bal[t] = r.entry.bal[t] + Lent(m, r.call.borrower, t, handed)
    /\ SumOfDebts(e.debts) = Owed(m, r.call.borrower, past)
    /\ SumOfDebts(r.stack) = Owed(m, r.call.borrower, past)
    /\ \A n \in 1..past : Pay(m, r.call.borrower, n) # 0 => m.silent # Flashes[n].venue
\* The loans set up find the pool manager unlocked.
Ready(m, e, r) == \A n \in 1..Size :
    /\ r.phase = "Setup" => n < r.i
    /\ Pay(m, r.call.borrower, n) # 0 /\ Flashes[n].type = "UniswapV4FlashSwap"
    => e.unlocked
\* A loan's frame owes WBTC, and any other owes nothing.
InWbtc(r) == \A n \in 1..Len(r.stack) :
    IF r.stack[n].kind = "loan" THEN r.stack[n].token = Wbtc ELSE r.stack[n].amount = 0

Lending(m, e, r) ==
    /\ Holding(m, e, r, Past(r), HandedTo(r)) /\ Ready(m, e, r)
    /\ r.est = Est(m, r.call.borrower)
    /\ r.at = "called" => Pay(m, r.call.borrower, r.i) # 0
Returning(m, e, r) ==
    /\ Sound(m, r.call.borrower)
    /\ e.bal[Wbtc] = (r.entry.bal[Wbtc] + Earned(m, r.call.borrower)) + SumOfDebts(r.stack)
    /\ r.at = "swap" => SumOfDebts(e.debts) = SumOfDebts(r.stack)
Track(m, e, r) ==
    /\ InWbtc(r)
    /\ IF r.at \in {"step", "called"} THEN Lending(m, e, r) ELSE Returning(m, e, r)

LEMMA TrackTypes ==
  ASSUME Typed, run # None, run.at # "next", Standard(run.call)
  PROVE  /\ run \in Run /\ run.call \in Call /\ evm \in Evm /\ market \in Market
         /\ run.call.borrower \in Borrowers /\ run.stack \in Seq(Frame)
         /\ SumOfDebts(run.stack) \in Nat /\ SumOfDebts(evm.debts) \in Nat
         /\ evm.debts \in Seq(VenueDebt)
         /\ \A t \in Tokens : evm.bal[t] \in Nat /\ run.entry.bal[t] \in Nat
         /\ Past(run) \in 0..Size
         /\ run.phase # "LiquidationAndSwap" => /\ run.i \in 1..Size
                                                /\ FlashOf(run) = Flashes[run.i]
         /\ run.at = "called" => run.phase \in {"Setup", "FlashLoan"}
<1>1. /\ run \in Run /\ run.call \in Call /\ evm \in Evm /\ market \in Market
      /\ run.phase # "LiquidationAndSwap" => run.i \in 1..Len(run.call.flash)
      /\ run.at = "called" => run.phase # "LiquidationAndSwap"
  BY LiquidationAssumption DEF Typed, Under
<1>2. run.call.flash = Flashes /\ Len(Flashes) = Size /\ Size \in Nat
  BY Loans DEF Standard
<1>3. /\ run.call.borrower \in Borrowers
      /\ run.phase \in {"Setup", "FlashLoan", "LiquidationAndSwap"}
      /\ run.entry \in Evm /\ run.stack \in Seq(Frame)
  <2> HIDE DEF Frame, Evm
  <2> QED
    BY <1>1 DEF Run, Call
<1>4. /\ evm.debts \in Seq(VenueDebt)
      /\ \A t \in Tokens : evm.bal[t] \in Nat /\ run.entry.bal[t] \in Nat
  <2> HIDE DEF VenueDebt
  <2> QED
    BY <1>1, <1>3 DEF Evm
<1>5. SumOfDebts(run.stack) \in Nat /\ SumOfDebts(evm.debts) \in Nat
  BY <1>3, <1>4, FramesSum, DebtsSum
<1>6. /\ run.phase # "LiquidationAndSwap" => /\ run.i \in 1..Size
                                             /\ FlashOf(run) = Flashes[run.i]
      /\ Past(run) \in 0..Size
  BY <1>1, <1>2, <1>3 DEF FlashOf, Past
<1> QED
  BY <1>1, <1>3, <1>4, <1>5, <1>6

\* The cursor goes from a loan to the next.
LEMMA Cursor ==
  ASSUME NEW r \in Run, Standard(r.call), r.i \in 1..Size, NEW s, s.at = "step",
         s.i = ToNext(r).i, s.phase = ToNext(r).phase
  PROVE  /\ r.phase = "Setup" =>
               /\ Past(r) = 0 /\ Past(s) = 0 /\ HandedTo(s) = 0
               /\ \A n \in 1..Size : (s.phase = "Setup" => n < s.i) => n < r.i \/ n = r.i
         /\ r.phase = "FlashLoan" =>
               /\ Past(r) = r.i - 1 /\ Past(s) = r.i /\ HandedTo(s) = r.i
               /\ s.phase # "Setup"
<1>1. r.call.flash = Flashes /\ Len(Flashes) = Size /\ Size \in Nat
  BY Loans DEF Standard
<1> HIDE DEF Call, Evm, Frame, Estimate
<1> DEFINE last == r.i = Size
<1>2. /\ s.i = IF last THEN 1 ELSE r.i + 1
      /\ s.phase = IF ~last THEN r.phase ELSE IF r.phase = "Setup" THEN "FlashLoan"
                   ELSE "LiquidationAndSwap"
  BY <1>1 DEF ToNext, Run
<1>3. HandedTo(s) = Past(s)
  BY DEF HandedTo, Calling
<1>4. CASE r.phase = "Setup"
  BY <1>1, <1>2, <1>3, <1>4 DEF Past
<1>5. CASE r.phase = "FlashLoan"
  BY <1>1, <1>2, <1>3, <1>5 DEF Past
<1> QED
  BY <1>4, <1>5

LEMMA NextFields ==
  ASSUME NEW r \in Run
  PROVE  /\ ToNext(r).at = "step" /\ ToNext(r).est = r.est /\ ToNext(r).stack = r.stack
         /\ ToNext(r).call = r.call /\ ToNext(r).entry = r.entry
<1> HIDE DEF Call, Evm, Frame, Estimate
<1> DEFINE last == r.i = Len(r.call.flash)
           i == IF last THEN 1 ELSE r.i + 1
           phase == IF ~last THEN r.phase ELSE IF r.phase = "Setup" THEN "FlashLoan"
                    ELSE "LiquidationAndSwap"
<1>1. ToNext(r) = [r EXCEPT !.at = "step", !.i = i, !.phase = phase]
  BY DEF ToNext, Run
<1> HIDE DEF i, phase
<1> QED
  BY <1>1 DEF Run

\* What the estimate of a call on its way asks of the loan it has come to.
LEMMA Asking ==
  ASSUME Typed, run # None, run.at # "next", run.phase # "LiquidationAndSwap",
         Standard(run.call), Lending(market, evm, run)
  PROVE  /\ run.i \in 1..Size
         /\ Flash = Flashes[run.i] /\ FlashOf(run) = Flashes[run.i]
         /\ Payment = Pay(market, run.call.borrower, run.i)
         /\ PaymentOf(run) = Pay(market, run.call.borrower, run.i)
<1>1. run.i \in 1..Size /\ FlashOf(run) = Flashes[run.i]
  BY TrackTypes
<1>2. Flash = FlashOf(run) /\ Payment = PaymentOf(run)
  BY DEF Flash, FlashOf, Payment, PaymentOf
<1>3. PaymentOf(run) = Pay(market, run.call.borrower, run.i)
  BY <1>1 DEF PaymentOf, Pay, Lending
<1> QED
  BY <1>1, <1>2, <1>3

\* A loan of nothing lends and owes nothing.
LEMMA NothingMore ==
  ASSUME NEW m \in Market, NEW e, NEW r, r.call.borrower \in Borrowers,
         NEW i \in 1..Size, Pay(m, r.call.borrower, i) = 0, Holding(m, e, r, i - 1, i - 1)
  PROVE  Holding(m, e, r, i, i)
<1> DEFINE b == r.call.borrower
<1>1. Due(m, b)[i] = 0
  BY DEF Due
<1>2. /\ Owed(m, b, i) = Owed(m, b, i - 1) + Due(m, b)[i]
      /\ Owed(m, b, i - 1) \in Nat
      /\ \A t \in Tokens : /\ Lent(m, b, t, i) = Lent(m, b, t, i - 1)
                                + IF Flashes[i].token = t THEN Pay(m, b, i) ELSE 0
                           /\ Lent(m, b, t, i - 1) \in Nat
  BY OneMore DEF Owed
<1>3. /\ Owed(m, b, i) = Owed(m, b, i - 1)
      /\ \A t \in Tokens : Lent(m, b, t, i) = Lent(m, b, t, i - 1)
  BY <1>1, <1>2
<1>4. \A n \in 1..i : n \in 1..(i - 1) \/ n = i
  BY Loans
<1> QED
  BY <1>3, <1>4 DEF Holding

LEMMA TrackOfSkip ==
  ASSUME Typed, Standard(run.call), run # None, Track(market, evm, run),
         SkipSetup \/ SkipLoan
  PROVE  Track(market, evm', run')
<1> DEFINE b == run.call.borrower
           i == run.i
<1>1. /\ run.at = "step" /\ run' = ToNext(run) /\ evm' = evm
      /\ run.phase \in {"Setup", "FlashLoan"}
      /\ Lending(market, evm, run) /\ InWbtc(run)
  BY DEF SkipSetup, SkipLoan, Stepping, Running, Track
<1>2. /\ run \in Run /\ market \in Market /\ b \in Borrowers /\ i \in 1..Size
  BY <1>1, TrackTypes
<1>3. /\ run'.at = "step" /\ run'.est = run.est /\ run'.stack = run.stack
      /\ run'.call = run.call /\ run'.entry = run.entry
      /\ run'.i = ToNext(run).i /\ run'.phase = ToNext(run).phase
  BY <1>1, <1>2, NextFields
<1>4. /\ Flash = Flashes[i] /\ Payment = Pay(market, b, i)
  BY <1>1, Asking
<1>5. InWbtc(run') /\ run'.est = Est(market, b)
  BY <1>1, <1>3 DEF InWbtc, Lending
<1>6. CASE run.phase = "Setup"
  <2>1. /\ Past(run) = 0 /\ HandedTo(run) = 0 /\ Past(run') = 0 /\ HandedTo(run') = 0
        /\ \A n \in 1..Size : (run'.phase = "Setup" => n < run'.i) => n < i \/ n = i
    BY <1>1, <1>2, <1>3, <1>6, Cursor DEF HandedTo, Calling
  <2>2. Pay(market, b, i) = 0 \/ Flashes[i].type # "UniswapV4FlashSwap" \/ evm.unlocked
    BY <1>1, <1>4, <1>6 DEF SkipSetup, SkipLoan, Stepping, NeedsSetup, VenueRequiresSetup,
                             IsUnlocked
  <2>3. Ready(market, evm, run')
    BY <1>1, <1>3, <1>6, <2>1, <2>2 DEF Ready, Lending
  <2>4. Holding(market, evm, run', 0, 0)
    BY <1>1, <1>3, <2>1 DEF Lending, Holding
  <2> QED
    BY <1>1, <1>3, <1>5, <2>1, <2>3, <2>4 DEF Track, Lending
<1>7. CASE run.phase = "FlashLoan"
  <2>1. /\ Past(run) = i - 1 /\ HandedTo(run) = i - 1 /\ Past(run') = i /\ HandedTo(run') = i
        /\ run'.phase # "Setup"
    BY <1>1, <1>2, <1>3, <1>7, Cursor DEF HandedTo, Calling
  <2>2. Pay(market, b, i) = 0
    BY <1>1, <1>4, <1>7 DEF SkipSetup, SkipLoan, Stepping
  <2>3. Ready(market, evm, run')
    BY <1>1, <1>3, <1>7 DEF Ready, Lending
  <2>4. Holding(market, evm, run, i, i)
    BY <1>1, <1>2, <2>1, <2>2, NothingMore DEF Lending
  <2>5. Holding(market, evm, run', i, i)
    BY <1>3, <2>4 DEF Holding
  <2> QED
    BY <1>1, <1>3, <1>5, <2>1, <2>3, <2>5 DEF Track, Lending
<1> QED
  BY <1>1, <1>6, <1>7

LEMMA TrackOfSetUp ==
  ASSUME Typed, WholeInv, Standard(run.call), run # None, Track(market, evm, run),
         SetUp, ~Fail(run)
  PROVE  Track(market, evm', run')
<1>1. /\ run.at = "step" /\ run.phase = "Setup" /\ Calling(run', "Setup")
      /\ run'.stack = run.stack /\ run'.i = run.i /\ run'.est = run.est /\ PaymentOf(run) # 0
      /\ evm'.unlocked /\ evm'.debts = evm.debts /\ evm'.bal = evm.bal /\ evm'.open = evm.open
  BY SetUpEffect
<1>2. run'.call = run.call /\ run'.entry = run.entry
  BY StepKeeps DEF Running1, Kept
<1>3. Lending(market, evm, run) /\ InWbtc(run)
  BY <1>1 DEF Track
<1>4. Pay(market, run.call.borrower, run.i) # 0
  BY <1>1, <1>3, Asking
<1>5. /\ Past(run) = 0 /\ HandedTo(run) = 0 /\ Past(run') = 0 /\ HandedTo(run') = 0
      /\ run'.at = "called"
  BY <1>1 DEF Past, HandedTo, Calling
<1>6. Holding(market, evm', run', 0, 0)
  BY <1>1, <1>2, <1>3, <1>5 DEF Lending, Holding
<1>7. Ready(market, evm', run')
  BY <1>1 DEF Ready
<1>8. InWbtc(run')
  BY <1>1, <1>3 DEF InWbtc
<1> QED
  BY <1>1, <1>2, <1>3, <1>4, <1>5, <1>6, <1>7, <1>8 DEF Track, Lending

LEMMA TrackOfLoan ==
  ASSUME Typed, WholeInv, Standard(run.call), run # None, Track(market, evm, run),
         FlashLoan, ~Fail(run)
  PROVE  Track(market, evm', run')
<1> DEFINE b == run.call.borrower
           i == run.i
<1>1. /\ run.at = "step" /\ run.phase = "FlashLoan" /\ Calling(run', "FlashLoan")
      /\ PaymentOf(run) \in Nat \ {0}
      /\ run'.stack = run.stack /\ run'.i = run.i /\ run'.est = run.est
      /\ \A t \in Tokens : evm'.bal[t] = evm.bal[t]
               + IF FlashOf(run).token = t THEN PaymentOf(run) ELSE 0
      /\ evm'.unlocked = evm.unlocked /\ evm'.debts = evm.debts /\ evm'.open = evm.open
  BY LoanEffect
<1>2. run'.call = run.call /\ run'.entry = run.entry
  BY StepKeeps DEF Running1, Kept
<1>3. Lending(market, evm, run) /\ InWbtc(run)
  BY <1>1 DEF Track
<1>4. /\ i \in 1..Size /\ FlashOf(run) = Flashes[i] /\ PaymentOf(run) = Pay(market, b, i)
  BY <1>1, <1>3, Asking
<1>5. /\ Past(run) = i - 1 /\ HandedTo(run) = i - 1 /\ Past(run') = i - 1 /\ HandedTo(run') = i
      /\ run'.at = "called"
  BY <1>1 DEF Past, HandedTo, Calling
<1>6. /\ b \in Borrowers /\ market \in Market
      /\ \A t \in Tokens : evm.bal[t] \in Nat /\ run.entry.bal[t] \in Nat
  BY <1>1, TrackTypes
<1>7. \A t \in Tokens : evm'.bal[t] = run.entry.bal[t] + Lent(market, b, t, i)
  <2>1. \A t \in Tokens : /\ Lent(market, b, t, i) = Lent(market, b, t, i - 1)
                                + IF Flashes[i].token = t THEN Pay(market, b, i) ELSE 0
                          /\ Lent(market, b, t, i - 1) \in Nat
    BY <1>4, <1>6, OneMore
  <2>2. \A t \in Tokens : evm.bal[t] = run.entry.bal[t] + Lent(market, b, t, i - 1)
    BY <1>3, <1>5 DEF Lending, Holding
  <2>3. PaymentOf(run) \in Nat
    BY <1>1
  <2> QED
    BY <1>1, <1>4, <1>6, <2>1, <2>2, <2>3
<1>8. Holding(market, evm', run', i - 1, i)
  BY <1>1, <1>2, <1>3, <1>5, <1>7 DEF Lending, Holding
<1>9. Ready(market, evm', run')
  BY <1>1, <1>2, <1>3 DEF Lending, Ready, Calling
<1>10. InWbtc(run')
  BY <1>1, <1>3 DEF InWbtc
<1>11. Pay(market, b, i) # 0
  BY <1>1, <1>4
<1> QED
  BY <1>1, <1>2, <1>3, <1>5, <1>8, <1>9, <1>10, <1>11 DEF Track, Lending

\* A frame more.
LEMMA FramePushed ==
  ASSUME Typed, run # None, NEW f \in Frame, InWbtc(run), run'.stack = Append(run.stack, f),
         IF f.kind = "loan" THEN f.token = Wbtc ELSE f.amount = 0
  PROVE  InWbtc(run') /\ SumOfDebts(run'.stack) = SumOfDebts(run.stack) + f.amount
<1>1. run.stack \in Seq(Frame)
  <2> HIDE DEF Frame
  <2> QED
    BY DEF Typed, Run
<1>2. /\ Len(run'.stack) = Len(run.stack) + 1 /\ Len(run.stack) \in Nat
      /\ \A n \in 1..Len(run.stack) : run'.stack[n] = run.stack[n]
      /\ run'.stack[Len(run.stack) + 1] = f
  <2> HIDE DEF Frame
  <2> QED
    BY <1>1, AppendProperties, LenProperties
<1>3. \A n \in 1..Len(run'.stack) : n \in 1..Len(run.stack) \/ n = Len(run.stack) + 1
  BY <1>2
<1>4. InWbtc(run')
  BY <1>2, <1>3 DEF InWbtc
<1> QED
  BY <1>1, <1>4, FramesSum

LEMMA TrackOfOnSetUp ==
  ASSUME Typed, WholeInv, Standard(run.call), run # None, Track(market, evm, run),
         OnSetUpCallback, ~Fail(run)
  PROVE  Track(market, evm', run')
<1> DEFINE b == run.call.borrower
           i == run.i
<1>1. /\ Calling(run, "Setup") /\ run'.at = "step"
      /\ run'.i = ToNext(run).i /\ run'.phase = ToNext(run).phase /\ run'.est = run.est
      /\ evm'.unlocked = evm.unlocked /\ evm'.debts = evm.debts
      /\ evm'.open = evm.open /\ evm'.bal = evm.bal
  BY OnSetUpEffect
<1>2. PICK f \in Frame : f.kind = "setup" /\ f.amount = 0 /\ run'.stack = Append(run.stack, f)
  BY OnSetUpEffect
<1>3. run'.call = run.call /\ run'.entry = run.entry
  BY StepKeeps DEF Running1, Kept
<1>4. run.at = "called" /\ run.phase = "Setup" /\ Lending(market, evm, run) /\ InWbtc(run)
  BY <1>1 DEF Track, Calling
<1>5. run \in Run /\ i \in 1..Size /\ SumOfDebts(run.stack) \in Nat
  BY <1>4, TrackTypes
<1>6. /\ Past(run) = 0 /\ HandedTo(run) = 0 /\ Past(run') = 0 /\ HandedTo(run') = 0
  BY <1>1, <1>4, <1>5, Cursor DEF HandedTo, Calling
<1>7. InWbtc(run') /\ SumOfDebts(run'.stack) = SumOfDebts(run.stack)
  BY <1>2, <1>4, <1>5, FramePushed
<1>8. Holding(market, evm', run', 0, 0)
  BY <1>1, <1>3, <1>4, <1>6, <1>7 DEF Lending, Holding
<1>9. evm'.unlocked
  BY <1>1, <1>4 DEF WholeInv, Inside, Unlocking
<1>10. Ready(market, evm', run')
  BY <1>9 DEF Ready
<1> QED
  BY <1>1, <1>3, <1>4, <1>6, <1>7, <1>8, <1>10 DEF Track, Lending

LEMMA TrackOfOnLoan ==
  ASSUME Typed, WholeInv, Standard(run.call), run # None, Track(market, evm, run),
         OnFlashLoan, ~Fail(run)
  PROVE  Track(market, evm', run')
<1> DEFINE b == run.call.borrower
           i == run.i
           owed == Owes(market, Flashes[i], Pay(market, b, i))
<1>1. /\ Calling(run, "FlashLoan") /\ run'.at = "step"
      /\ run'.i = ToNext(run).i /\ run'.phase = ToNext(run).phase /\ run'.est = run.est
      /\ market.silent # FlashOf(run).venue
      /\ evm'.unlocked = evm.unlocked /\ evm'.open = evm.open /\ evm'.bal = evm.bal
  BY OnLoanEffect
<1>2. run'.call = run.call /\ run'.entry = run.entry
  BY StepKeeps DEF Running1, Kept
<1>3. run.at = "called" /\ run.phase = "FlashLoan" /\ Lending(market, evm, run) /\ InWbtc(run)
  BY <1>1 DEF Track, Calling
<1>4. /\ run \in Run /\ market \in Market /\ b \in Borrowers
      /\ evm.debts \in Seq(VenueDebt)
      /\ SumOfDebts(run.stack) \in Nat /\ SumOfDebts(evm.debts) \in Nat
  BY <1>3, TrackTypes
<1>5. /\ i \in 1..Size /\ FlashOf(run) = Flashes[i] /\ PaymentOf(run) = Pay(market, b, i)
      /\ Pay(market, b, i) # 0
  BY <1>3, Asking DEF Lending
<1>6. /\ OwedFor(Flashes[i], Pay(market, b, i)).token = Wbtc
      /\ OwedFor(Flashes[i], Pay(market, b, i)).amount = owed
      /\ owed = Due(market, b)[i]
  <2>1. Pay(market, b, i) \in Nat /\ Flashes[i] \in FlashData
    BY <1>4, <1>5, Owing
  <2> QED
    BY <1>4, <1>5, <2>1, Owing, MarketAsks DEF Due
<1> HIDE DEF owed
<1>7. PICK f \in Frame : /\ f.kind = "loan" /\ run'.stack = Append(run.stack, f)
                         /\ f.token = Wbtc /\ f.amount = owed
  BY <1>5, <1>6, OnLoanEffect
<1>8. PICK d \in VenueDebt : evm'.debts = Append(evm.debts, d) /\ d.amount = owed
  BY <1>5, <1>6, OnLoanEffect
<1>9. /\ Past(run) = i - 1 /\ HandedTo(run) = i /\ Past(run') = i /\ HandedTo(run') = i
      /\ run'.phase # "Setup"
  BY <1>1, <1>3, <1>4, <1>5, Cursor DEF HandedTo, Calling
<1>10. InWbtc(run') /\ SumOfDebts(run'.stack) = SumOfDebts(run.stack) + owed
  BY <1>3, <1>7, FramePushed
<1>11. SumOfDebts(evm'.debts) = SumOfDebts(evm.debts) + owed
  BY <1>4, <1>8, DebtsGrow
<1>12. Owed(market, b, i) = Owed(market, b, i - 1) + owed
  BY <1>4, <1>5, <1>6, OneMore DEF Owed
<1>13. \A n \in 1..i : n \in 1..(i - 1) \/ n = i
  BY <1>5, Loans
<1>14. Holding(market, evm, run, i - 1, i)
  BY <1>3, <1>9 DEF Lending
<1>15. Holding(market, evm', run', i, i)
  BY <1>1, <1>2, <1>5, <1>10, <1>11, <1>12, <1>13, <1>14 DEF Holding
<1>16. Ready(market, evm', run')
  BY <1>1, <1>2, <1>3 DEF Lending, Ready
<1> QED
  BY <1>1, <1>2, <1>3, <1>9, <1>10, <1>15, <1>16 DEF Track, Lending

Clean(e) == \A t \in Tokens : t # Wbtc => e.bal[t] = 0

\* The liquidation takes what was lent and leaves what is owed and earned.
LEMMA TrackOfExecute ==
  ASSUME Typed, WholeInv, Standard(run.call), run # None, Track(market, evm, run),
         Clean(run.entry), ExecuteLiquidation, ~Fail(run)
  PROVE  Track(market, evm', run')
<1> DEFINE b == run.call.borrower
           est == Est(market, b)
<1>1. /\ run.at = "step" /\ run.phase = "LiquidationAndSwap" /\ run'.at = "swap"
      /\ run'.stack = run.stack /\ evm'.debts = evm.debts
      /\ Asked(run.est) <= run.est.wbtcPayment /\ Asked(run.est) \in Nat
      /\ evm.bal[run.est.debtToken] >= run.est.debtToCover
      /\ evm'.bal[Wbtc] = evm.bal[Wbtc]
               - (IF run.est.debtToken = Wbtc THEN run.est.debtToCover ELSE 0)
               - Asked(run.est) + Seized[b] - run.est.exitBtcFee
  BY ExecuteEffect DEF WholeInv, NoAllowance, SameSlots
<1>2. run'.call = run.call /\ run'.entry = run.entry
  BY StepKeeps DEF Running1, Kept
<1>3. Lending(market, evm, run) /\ InWbtc(run)
  BY <1>1 DEF Track
<1>4. /\ market \in Market /\ b \in Borrowers
      /\ \A t \in Tokens : evm.bal[t] \in Nat /\ run.entry.bal[t] \in Nat
      /\ Debt[b].token \in Tokens /\ Debt[b].amount \in Nat \ {0} /\ Seized[b] \in Nat
      /\ Fee \in Nat /\ Wbtc \in Tokens /\ Size \in Nat \ {0}
  <2>1. Debt[b].amount \in Nat \ {0} /\ Seized[b] \in Nat /\ Fee \in Nat
    <3>1. b \in Borrowers
      BY <1>1, TrackTypes
    <3> QED
      BY <3>1, LiquidationAssumption
  <2>2. /\ market \in Market /\ b \in Borrowers
        /\ \A t \in Tokens : evm.bal[t] \in Nat /\ run.entry.bal[t] \in Nat
    BY <1>1, TrackTypes
  <2> QED
    BY <2>1, <2>2, TokenTypes, Loans
<1>5. Past(run) = Size /\ HandedTo(run) = Size
  BY <1>1 DEF Past, HandedTo, Calling
<1>6. Holding(market, evm, run, Size, Size) /\ run.est = est
  BY <1>3, <1>5 DEF Lending
<1>7. /\ est.debtToken = Debt[b].token /\ est.debtToCover = Debt[b].amount
      /\ est.wbtcPayment = market.pay /\ est.exitBtcFee = Fee /\ Asked(est) = Fair(market)
      /\ market.pay \in Nat
  BY <1>4, Owing, MarketAsks DEF Market
<1>8. /\ \A t \in Tokens : evm.bal[t] = run.entry.bal[t] + Lent(market, b, t, Size)
      /\ SumOfDebts(evm.debts) = Owed(market, b, Size)
      /\ SumOfDebts(run.stack) = Owed(market, b, Size)
      /\ \A n \in 1..Size : Pay(market, b, n) # 0 => market.silent # Flashes[n].venue
  BY <1>6 DEF Holding
<1> HIDE DEF est
<1>9. \E n \in 1..Size : Flashes[n].token = Debt[b].token
  <2>1. CASE Debt[b].token = Wbtc
    BY <1>4, <2>1, Loans
  <2>2. CASE Debt[b].token # Wbtc
    <3>1. run.entry.bal[Debt[b].token] = 0
      BY <1>4, <2>2 DEF Clean
    <3>2. evm.bal[Debt[b].token] >= Debt[b].amount
      BY <1>1, <1>6, <1>7
    <3>3. evm.bal[Debt[b].token] = 0 + Lent(market, b, Debt[b].token, Size)
      BY <1>4, <1>8, <3>1
    <3>4. Lent(market, b, Debt[b].token, Size) # 0
      BY <1>4, <3>2, <3>3
    <3> QED
      BY <3>4 DEF Lent
  <2> QED
    BY <2>1, <2>2
<1>10. Sound(market, b)
  BY <1>1, <1>6, <1>7, <1>8, <1>9 DEF Sound
<1>11. Lent(market, b, Wbtc, Size)
          = (IF Debt[b].token = Wbtc THEN Debt[b].amount ELSE 0) + market.pay
  <2>1. Lent(market, b, Wbtc, Size) = PaymentIn(est, Wbtc)
    BY <1>4, Totals DEF est
  <2> QED
    BY <1>4, <1>7, <2>1 DEF PaymentIn
<1>12. evm'.bal[Wbtc] = (run.entry.bal[Wbtc] + Earned(market, b)) + SumOfDebts(run.stack)
  <2>1. Owed(market, b, Size) \in Nat
    BY <1>4, Totals
  <2>2. evm.bal[Wbtc] = run.entry.bal[Wbtc] + Lent(market, b, Wbtc, Size)
    BY <1>4, <1>8
  <2>3. Fair(market) \in Nat /\ run.entry.bal[Wbtc] \in Nat
    BY <1>1, <1>4, <1>6, <1>7
  <2> QED
    BY <1>1, <1>4, <1>6, <1>7, <1>8, <1>11, <2>1, <2>2, <2>3 DEF Earned
<1>13. InWbtc(run')
  BY <1>1, <1>3 DEF InWbtc
<1> QED
  BY <1>1, <1>2, <1>8, <1>10, <1>12, <1>13 DEF Track, Returning

LEMMA TrackOfSwap ==
  ASSUME Typed, WholeInv, Standard(run.call), run # None, Track(market, evm, run),
         Swap \/ Swapped
  PROVE  Swapped /\ ~Fail(run) /\ Track(market, evm', run')
<1>1. run.at = "swap" /\ run \in Run /\ run.call.swaps = <<>> /\ Len(<<>>) = 0
  BY DEF Swap, Swapped, Running, Typed, Standard
<1>2. run.k \in Nat
  <2> HIDE DEF Call, Evm, Frame, Estimate
  <2> QED
    BY <1>1 DEF Run
<1>3. Swapped
  <2>1. Len(run.call.swaps) = 0
    BY <1>1
  <2>2. ~(run.k < Len(run.call.swaps))
    BY <1>2, <2>1
  <2> QED
    BY <2>2 DEF Swap
<1>4. run' = [run EXCEPT !.at = "return"] /\ evm' = evm
  BY <1>3 DEF Swapped
<1> HIDE DEF Call, Evm, Frame, Estimate
<1>5. /\ run'.at = "return" /\ run'.stack = run.stack /\ run'.call = run.call
      /\ run'.entry = run.entry
  BY <1>1, <1>4 DEF Run
<1>6. ~Fail(run)
  <2>1. Fail(run) => run'.at = "next"
    BY <1>1 DEF Fail, Run
  <2> QED
    BY <1>5, <2>1
<1>7. Track(market, evm', run')
  BY <1>1, <1>4, <1>5 DEF Track, Returning, InWbtc
<1> QED
  BY <1>3, <1>6, <1>7

\* The frame on top and what the others owe.
LEMMA FramePopped ==
  ASSUME Typed, run # None, run.at = "return", run.stack # <<>>, InWbtc(run)
  PROVE  /\ run'.stack = Front(run.stack) => InWbtc(run')
         /\ Top \in Frame
         /\ SumOfDebts(run.stack) = SumOfDebts(Front(run.stack)) + Top.amount
         /\ SumOfDebts(Front(run.stack)) \in Nat /\ Top.amount \in Nat
         /\ IF Top.kind = "loan" THEN Top.token = Wbtc ELSE Top.amount = 0
<1> DEFINE stack == run.stack
           front == Front(run.stack)
           n == Len(run.stack)
<1>1. /\ Top \in Frame /\ n \in Nat \ {0} /\ front \in Seq(Frame) /\ Top = stack[n]
      /\ Len(front) = n - 1
      /\ \A k \in 1..(n - 1) : front[k] = stack[k]
  BY TopTypes
<1>2. stack \in Seq(Frame)
  <2> HIDE DEF Frame
  <2> QED
    BY DEF Typed, Run
<1>3. stack = Append(front, Top)
  <2> DEFINE more == Append(front, Top)
  <2>1. /\ more \in Seq(Frame) /\ Len(more) = (n - 1) + 1
        /\ \A k \in 1..(n - 1) : more[k] = front[k]
        /\ more[(n - 1) + 1] = Top
    <3> HIDE DEF Frame, front
    <3> QED
      BY <1>1, AppendProperties
  <2>2. \A k \in 1..n : k \in 1..(n - 1) \/ k = n
    BY <1>1
  <2>3. Len(more) = n /\ \A k \in 1..n : more[k] = stack[k]
    BY <1>1, <2>1, <2>2
  <2> HIDE DEF Frame, more, front
  <2>4. stack = more
    BY <1>2, <2>1, <2>3, SeqEqual
  <2> QED
    BY <2>4 DEF more, front
<1>4. SumOfDebts(stack) = SumOfDebts(front) + Top.amount /\ SumOfDebts(front) \in Nat
  BY <1>1, <1>3, FramesSum
<1>5. n \in 1..n /\ \A k \in 1..(n - 1) : k \in 1..n
  BY <1>1
<1>6. run'.stack = front => InWbtc(run')
  BY <1>1, <1>5 DEF InWbtc
<1>7. IF Top.kind = "loan" THEN Top.token = Wbtc ELSE Top.amount = 0
  BY <1>1, <1>5 DEF InWbtc
<1>8. Top.amount \in Nat
  BY <1>1 DEF Frame
<1> QED
  BY <1>1, <1>4, <1>6, <1>7, <1>8

LEMMA TrackOfReturn ==
  ASSUME Typed, WholeInv, Standard(run.call), run # None, Track(market, evm, run),
         Repay \/ Lock, ~Fail(run)
  PROVE  Track(market, evm', run')
<1>1. run.at = "return" /\ run.stack # <<>> /\ run.entry.bal[Wbtc] \in Nat
      /\ evm.bal[Wbtc] \in Nat
  <2>1. run.at = "return" /\ run.stack # <<>>
    BY DEF Repay, Lock, Unwinding, Running
  <2> QED
    BY <2>1, TrackTypes, TokenTypes
<1>2. InWbtc(run) /\ Returning(market, evm, run)
  BY <1>1 DEF Track
<1>3. run'.call = run.call /\ run'.entry = run.entry
  BY StepKeeps DEF Running1, Kept
<1>4. /\ run'.at = "return" /\ run'.stack = Front(run.stack)
      /\ IF Top.kind = "loan"
         THEN Top.token = Wbtc => evm'.bal[Wbtc] = evm.bal[Wbtc] - Top.amount
         ELSE evm'.bal[Wbtc] = evm.bal[Wbtc]
  <2>1. CASE Repay
    BY <2>1, RepayEffect
  <2>2. CASE Lock
    BY <2>2, LockEffect
  <2> QED
    BY <2>1, <2>2
<1>5. /\ InWbtc(run')
      /\ SumOfDebts(run.stack) = SumOfDebts(run'.stack) + Top.amount
      /\ SumOfDebts(run'.stack) \in Nat /\ Top.amount \in Nat
      /\ IF Top.kind = "loan" THEN Top.token = Wbtc ELSE Top.amount = 0
  <2>1. /\ SumOfDebts(run.stack) = SumOfDebts(Front(run.stack)) + Top.amount
        /\ SumOfDebts(Front(run.stack)) \in Nat /\ Top.amount \in Nat
        /\ run'.stack = Front(run.stack) => InWbtc(run')
        /\ IF Top.kind = "loan" THEN Top.token = Wbtc ELSE Top.amount = 0
    BY <1>1, <1>2, FramePopped
  <2> HIDE DEF SumOfDebts, Front, InWbtc
  <2> QED
    BY <1>4, <2>1
<1>6. evm'.bal[Wbtc] = evm.bal[Wbtc] - Top.amount
  <2>1. CASE Top.kind = "loan"
    BY <1>4, <1>5, <2>1
  <2>2. CASE Top.kind # "loan"
    <3>1. evm'.bal[Wbtc] = evm.bal[Wbtc] /\ Top.amount = 0
      BY <1>4, <1>5, <2>2
    <3> QED
      BY <1>1, <3>1
  <2> QED
    BY <2>1, <2>2
<1> DEFINE earned == Earned(market, run.call.borrower)
<1>7. evm.bal[Wbtc] = (run.entry.bal[Wbtc] + earned) + SumOfDebts(run.stack)
  BY <1>2 DEF Returning
<1>8. earned \in Int
  <2>1. /\ market.pay \in Nat /\ Fair(market) \in Int /\ Seized[run.call.borrower] \in Nat
        /\ Fee \in Nat /\ Owed(market, run.call.borrower, Size) \in Nat
    <3>1. market \in Market /\ run.call.borrower \in Borrowers
      BY <1>1, TrackTypes
    <3>2. Size \in 0..Size
      BY Loans
    <3> QED
      BY <3>1, <3>2, Totals, LiquidationAssumption DEF Market, Fair
  <2> QED
    BY <2>1 DEF Earned
<1> HIDE DEF earned
<1>9. evm'.bal[Wbtc] = (run.entry.bal[Wbtc] + earned) + SumOfDebts(run'.stack)
  <2> DEFINE all == SumOfDebts(run.stack)
             rest == SumOfDebts(run'.stack)
             bal == evm.bal[Wbtc]
             top == Top.amount
             entry == run.entry.bal[Wbtc]
  <2>1. all = rest + top /\ bal = (entry + earned) + all
        /\ rest \in Nat /\ top \in Nat /\ bal \in Nat /\ entry \in Nat
    BY <1>1, <1>5, <1>7
  <2> HIDE DEF all, rest, bal, top, entry
  <2>2. bal - top = (entry + earned) + rest
    BY <1>8, <2>1
  <2> QED
    BY <1>6, <2>2 DEF rest, bal, top, entry
<1>10. Returning(market, evm', run')
  BY <1>2, <1>3, <1>4, <1>9 DEF Returning, earned
<1> QED
  BY <1>4, <1>5, <1>10 DEF Track

\* A step of a call that goes on.
LEMMA TrackOfStep ==
  ASSUME Typed, WholeInv, Standard(run.call), run # None, Track(market, evm, run),
         Clean(run.entry), Running1, ~Fail(run), run'.at # "next"
  PROVE  Track(market, evm', run')
<1>1. ~Silent
  BY WholeSilent
<1>2. ~Settle
  BY SettleEffect
<1> QED
  BY <1>1, <1>2, TrackOfSkip, TrackOfSetUp, TrackOfLoan, TrackOfOnSetUp, TrackOfOnLoan,
     TrackOfExecute, TrackOfSwap, TrackOfReturn DEF Running1

\* What a spender may still take.
LEMMA PullAllows ==
  ASSUME NEW e \in Evm, NEW spender \in Spenders, NEW token \in Tokens, NEW amount \in Nat
  PROVE  \A u \in Tokens : Pull(e, spender, token, amount).allow[spender][u]
            = e.allow[spender][u] - IF u = token THEN amount ELSE 0
<1> DEFINE f == Pull(e, spender, token, amount)
<1>1. e.allow \in [Spenders -> [Tokens -> Nat]] /\ e.allow[spender] \in [Tokens -> Nat]
  BY DEF Evm
<1>2. f.allow = [e.allow EXCEPT ![spender] = [e.allow[spender] EXCEPT
                                    ![token] = e.allow[spender][token] - amount]]
  BY PullFields
<1> HIDE DEF f
<1>3. f.allow[spender] = [e.allow[spender] EXCEPT ![token] = e.allow[spender][token] - amount]
  BY <1>1, <1>2
<1>4. \A u \in Tokens : f.allow[spender][u]
            = e.allow[spender][u] - IF u = token THEN amount ELSE 0
  BY <1>1, <1>3
<1> QED
  BY <1>4 DEF f

\* What a liquidation needs to be done.
LEMMA Affordable ==
  ASSUME NEW e \in Evm, NEW est \in Estimate, NEW b \in Borrowers, market \in Market,
         e.allow = [s \in Spenders |-> Zero], b \in e.open, Asked(est) <= est.wbtcPayment,
         NEW cover \in Nat, cover = (IF est.debtToken = Wbtc THEN est.debtToCover ELSE 0),
         e.bal[est.debtToken] >= est.debtToCover,
         e.bal[Wbtc] >= cover + Asked(est),
         e.bal[Wbtc] + Seized[b] >= cover + Asked(est) + est.exitBtcFee
  PROVE  Liquidatable(ApproveForAdapter(e, est), est, b)
<1> DEFINE a == ApproveForAdapter(e, est)
           p == PaidDebt(a, est)
           q == PaidFairly(a, est)
           r == Receive(q, Wbtc, Seized[b])
           o == PaidOut(a, est, b)
           token == est.debtToken
           asked == Asked(est)
           fee == est.exitBtcFee
<1>1. /\ token \in Tokens /\ est.debtToCover \in Nat /\ fee \in Nat /\ est.wbtcPayment \in Nat
      /\ asked \in Nat /\ Seized[b] \in Nat /\ Wbtc \in Tokens /\ Adapter \in Spenders
      /\ Zero \in [Tokens -> Nat] /\ \A t \in Tokens : Zero[t] = 0
      /\ \A t \in Tokens : e.bal[t] \in Nat
  <2>1. Seized[b] \in Nat
    BY LiquidationAssumption
  <2>2. token \in Tokens /\ est.debtToCover \in Nat /\ fee \in Nat /\ est.wbtcPayment \in Nat
    BY DEF Estimate
  <2>3. asked \in Nat
    BY <2>2 DEF Asked, Market
  <2>4. Zero \in [Tokens -> Nat] /\ \A t \in Tokens : Zero[t] = 0
    BY TokenTypes DEF Zero
  <2>5. \A t \in Tokens : e.bal[t] \in Nat
    BY DEF Evm
  <2> HIDE DEF fee, asked, token
  <2> QED
    BY <2>1, <2>2, <2>3, <2>4, <2>5, TokenTypes
<1>2. a \in Evm
  BY AllowanceTypes
<1> HIDE DEF asked, fee
<1>3. /\ a.bal = e.bal /\ a.open = e.open
      /\ a.allow[Adapter][token] >= est.debtToCover
      /\ a.allow[Adapter][Wbtc] = cover + est.wbtcPayment + fee
  <2> DEFINE sum == est.wbtcPayment + est.exitBtcFee
             m == IF est.debtToken = Wbtc
                  THEN [e.allow[Adapter] EXCEPT ![Wbtc] = est.debtToCover + sum]
                  ELSE [e.allow[Adapter] EXCEPT ![est.debtToken] = est.debtToCover,
                            ![Wbtc] = IF sum > 0 THEN sum ELSE e.allow[Adapter][Wbtc]]
  <2>1. sum \in Nat /\ e.allow[Adapter] = Zero /\ sum = est.wbtcPayment + fee
    BY <1>1 DEF fee
  <2> HIDE DEF sum
  <2>2. a = [e EXCEPT !.allow[Adapter] = m]
    BY DEF ApproveForAdapter, sum
  <2>3. /\ m[token] >= est.debtToCover /\ m[Wbtc] = cover + sum
    BY <1>1, <2>1
  <2> HIDE DEF m
  <2>4. a.allow[Adapter] = m /\ a.bal = e.bal /\ a.open = e.open
    BY <1>1, <2>2 DEF Evm
  <2> HIDE DEF a
  <2> QED
    BY <1>1, <2>1, <2>3, <2>4
<1> HIDE DEF a
<1>4. CanPull(a, Adapter, token, est.debtToCover)
  BY <1>1, <1>3 DEF CanPull
<1>5. /\ p \in Evm /\ p.open = a.open
      /\ p.bal[Wbtc] = e.bal[Wbtc] - cover
      /\ p.allow[Adapter][Wbtc] = est.wbtcPayment + fee
  <2>1. p = Pull(a, Adapter, token, est.debtToCover)
    BY DEF PaidDebt
  <2> HIDE DEF p
  <2>2. p \in Evm
    BY <1>1, <1>2, <1>4, <2>1, PullTypes
  <2>3. /\ Got(p, a, token, -est.debtToCover)
        /\ p.allow[Adapter][Wbtc]
              = a.allow[Adapter][Wbtc] - IF Wbtc = token THEN est.debtToCover ELSE 0
    <3> DEFINE n == est.debtToCover
    <3> HIDE DEF n, token
    <3>1. n \in Nat /\ token \in Tokens /\ Adapter \in Spenders
      BY <1>1 DEF n
    <3>2. Got(Pull(a, Adapter, token, n), a, token, -n)
      BY <1>2, <3>1, PullFields
    <3>3. \A u \in Tokens : Pull(a, Adapter, token, n).allow[Adapter][u]
             = a.allow[Adapter][u] - IF u = token THEN n ELSE 0
      BY <1>2, <3>1, PullAllows
    <3>4. p = Pull(a, Adapter, token, n)
      BY <2>1 DEF n
    <3> QED
      BY <1>1, <3>2, <3>3, <3>4 DEF n
  <2>4. a.allow[Adapter][Wbtc] \in Nat
    BY <1>1, <1>2 DEF Evm
  <2>5. p.allow[Adapter][Wbtc] = a.allow[Adapter][Wbtc] - cover
    BY <1>1, <2>3, <2>4
  <2>6. p.bal[Wbtc] = e.bal[Wbtc] - cover
    BY <1>1, <1>3, <2>3 DEF Got
  <2> QED
    BY <1>1, <1>3, <2>2, <2>3, <2>5, <2>6 DEF Got
<1>6. CanPull(p, Adapter, Wbtc, asked)
  BY <1>1, <1>5 DEF CanPull, asked
<1>7. /\ q \in Evm /\ q.open = p.open
      /\ q.bal[Wbtc] = (e.bal[Wbtc] - cover) - asked
      /\ q.allow[Adapter][Wbtc] = (est.wbtcPayment + fee) - asked
  <2>1. q = Pull(p, Adapter, Wbtc, asked)
    BY DEF PaidFairly, asked
  <2> HIDE DEF p, q
  <2>2. q \in Evm
    BY <1>1, <1>5, <1>6, <2>1, PullTypes
  <2>3. /\ Got(q, p, Wbtc, -asked)
        /\ q.allow[Adapter][Wbtc] = p.allow[Adapter][Wbtc] - asked
    <3> DEFINE w == Wbtc
    <3> HIDE DEF w
    <3>1. asked \in Nat /\ w \in Tokens /\ Adapter \in Spenders /\ p \in Evm
      BY <1>1, <1>5 DEF w
    <3>2. Got(Pull(p, Adapter, w, asked), p, w, -asked)
      BY <3>1, PullFields
    <3>3. Pull(p, Adapter, w, asked).allow[Adapter][w] = p.allow[Adapter][w] - asked
      BY <3>1, PullAllows
    <3>4. q = Pull(p, Adapter, w, asked)
      BY <2>1 DEF w
    <3> QED
      BY <3>2, <3>3, <3>4 DEF w
  <2>4. q.bal[Wbtc] = (e.bal[Wbtc] - cover) - asked
    BY <1>1, <1>5, <2>3 DEF Got
  <2> QED
    BY <1>5, <2>2, <2>3, <2>4 DEF Got
<1>8. /\ o.bal[Wbtc] = q.bal[Wbtc] + Seized[b]
      /\ o.allow = q.allow
  <2>1. o = [r EXCEPT !.open = r.open \ {b}]
    BY DEF PaidOut
  <2> HIDE DEF q
  <2>2. r \in Evm /\ r.allow = q.allow /\ Got(r, q, Wbtc, Seized[b])
    BY <1>1, <1>7, ReceiveTypes, ReceiveFields
  <2> HIDE DEF r, o
  <2>3. o.allow = r.allow /\ o.bal = r.bal
    BY <2>1, <2>2 DEF Evm
  <2> QED
    BY <2>2, <2>3 DEF Got
<1> HIDE DEF p, q, r, o
<1>9. CanPull(o, Adapter, Wbtc, fee)
  <2>1. o.allow[Adapter][Wbtc] >= fee
    BY <1>1, <1>7, <1>8 DEF asked
  <2>2. o.bal[Wbtc] >= fee
    BY <1>1, <1>7, <1>8 DEF asked, fee
  <2> QED
    BY <2>1, <2>2 DEF CanPull
<1> QED
  BY <1>3, <1>4, <1>6, <1>9 DEF Liquidatable, a, p, o, asked, fee

-----------------------------------------------------------------------------
(* A fresh call of the bot that finds its borrower goes through.           *)

\* A quote of the market m: the call's flash loans are the bot's, it is worth
\* the quote, and asks for no more.
Stands(m, c) == c.expected # None /\ c.fresh =>
    /\ Standard(c) /\ Sound(m, c.borrower)
    /\ c.expected = Earned(m, c.borrower) /\ c.expected \in Nat \ {0}
    /\ c.floor <= c.expected /\ MaxGift + c.expected < MaxUint

\* A call under way of which the quote is fresh and its borrower found.
Promised == /\ run # None /\ run.at # "next"
            /\ run.call.expected # None /\ run.call.fresh
            /\ run.call.borrower \in run.entry.open
            /\ Stands(market, run.call) /\ Track(market, evm, run)
            /\ Standard(run.call)

\* A step that does what it does when its conditions hold has not reverted.
LEMMA NotReverted ==
  ASSUME Typed, run # None, run'.at # "next" \/ run'.last.ok
  PROVE  ~Fail(run)
<1>1. run \in Run
  BY DEF Typed
<1>2. run.requireSuccess \in BOOLEAN
  <2> HIDE DEF Call, Evm, Frame, Estimate
  <2> QED
    BY <1>1 DEF Run
<1> QED
  BY <1>1, <1>2, FailEffect

LEMMA SkipGoesOn ==
  ASSUME Typed, Promised, SkipSetup \/ SkipLoan
  PROVE  ~Fail(run)
<1>1. run' = ToNext(run) /\ run # None /\ run \in Run
  BY DEF SkipSetup, SkipLoan, Promised, Typed
<1>2. run'.at = "step"
  BY <1>1, NextFields
<1> QED
  BY <1>1, <1>2, NotReverted

\* A loan the cursor has come to.
LEMMA AskedFor ==
  ASSUME Typed, WholeInv, Promised, run.at \in {"step", "called"},
         run.phase # "LiquidationAndSwap"
  PROVE  /\ run \in Run /\ run.i \in 1..Size /\ Inside(evm, run)
         /\ Flash = Flashes[run.i] /\ FlashOf(run) = Flashes[run.i]
         /\ Payment = Pay(market, run.call.borrower, run.i)
         /\ Lending(market, evm, run)
<1>1. Lending(market, evm, run)
  BY DEF Promised, Track
<1>2. run \in Run /\ Inside(evm, run)
  BY DEF Typed, WholeInv, Promised
<1> QED
  BY <1>1, <1>2, Asking DEF Promised

LEMMA SetUpGoesOn ==
  ASSUME Typed, WholeInv, Promised, SetUp
  PROVE  ~Fail(run)
<1>1. run.at = "step" /\ run.phase = "Setup" /\ run # None
  BY DEF SetUp, Stepping, Running
<1>2. run \in Run /\ Inside(evm, run)
  BY <1>1, AskedFor
<1>3. Expectable(evm) /\ Flash.venue \notin evm.waiting
  BY <1>1, <1>2 DEF Inside, Awaited, Calling, Expectable
<1>4. run' = [run EXCEPT !.at = "called"]
  BY <1>3 DEF SetUp, Require
<1> HIDE DEF Call, Evm, Frame, Estimate
<1>5. run'.at = "called"
  BY <1>2, <1>4 DEF Run
<1> QED
  BY <1>1, <1>5, NotReverted

LEMMA LoanGoesOn ==
  ASSUME Typed, WholeInv, Promised, FlashLoan
  PROVE  ~Fail(run)
<1>1. run.at = "step" /\ run.phase = "FlashLoan" /\ run # None /\ Payment # 0
  BY DEF FlashLoan, Stepping, Running
<1>2. /\ run \in Run /\ Inside(evm, run) /\ run.i \in 1..Size /\ Flash = Flashes[run.i]
      /\ Payment = Pay(market, run.call.borrower, run.i) /\ Ready(market, evm, run)
  BY <1>1, AskedFor DEF Lending
<1>3. Expectable(evm)
  BY <1>1, <1>2 DEF Inside, Awaited, Expectable
<1>4. Flash.type # "UniswapV4FlashLoan"
  BY <1>2, Loans
<1>5. Flash.type = "UniswapV4FlashSwap" => IsUnlocked(evm)
  BY <1>1, <1>2 DEF Ready, IsUnlocked
<1>6. run' = [run EXCEPT !.at = "called"]
  BY <1>3, <1>4, <1>5 DEF FlashLoan, Require
<1> HIDE DEF Call, Evm, Frame, Estimate
<1>7. run'.at = "called"
  BY <1>2, <1>6 DEF Run
<1> QED
  BY <1>1, <1>7, NotReverted

\* A callback is the one the slot awaits.
LEMMA CallbackGoesOn ==
  ASSUME Typed, WholeInv, Promised, OnSetUpCallback \/ OnFlashLoan
  PROVE  ~Fail(run)
<1>1. run.at = "called" /\ run.phase # "LiquidationAndSwap" /\ run # None
  BY DEF OnSetUpCallback, OnFlashLoan, Running
<1>2. /\ run \in Run /\ Inside(evm, run) /\ Flash = FlashOf(run)
  BY <1>1, AskedFor
<1>3. \E f : run' = [ToNext(run) EXCEPT !.stack = Append(@, f)]
  <2>1. CASE OnSetUpCallback
    <3>1. Consumable(evm, "onSetUpCallback", Flash.venue) /\ Flash.venue \in evm.waiting
      BY <1>1, <1>2, <2>1 DEF Inside, Awaited, Calling, Consumable, OnSetUpCallback
    <3> QED
      BY <2>1, <3>1 DEF OnSetUpCallback, Require
  <2>2. CASE OnFlashLoan
    <3>1. Consumable(evm, Callback(Flash.type), Flash.venue)
      BY <1>1, <1>2, <2>2 DEF Inside, Awaited, Calling, Consumable, OnFlashLoan
    <3> QED
      BY <2>2, <3>1 DEF OnFlashLoan, Require
  <2> QED
    BY <2>1, <2>2
<1>4. run'.at = "step"
  BY <1>1, <1>3, FrameEffect
<1> QED
  BY <1>1, <1>4, NotReverted

\* The quote was made with every venue calling back.
LEMMA NoneSilent ==
  ASSUME Typed, WholeInv, Promised
  PROVE  ~Silent
<1> SUFFICES ASSUME Silent PROVE FALSE
  OBVIOUS
<1>1. run.at = "called" /\ run # None /\ market.silent = Flash.venue
  BY DEF Silent, Running
<1>2. run.phase # "LiquidationAndSwap"
  BY <1>1, TrackTypes DEF Promised
<1>3. /\ run.i \in 1..Size /\ Flash = Flashes[run.i]
      /\ Pay(market, run.call.borrower, run.i) # 0
  BY <1>1, <1>2, AskedFor DEF Lending
<1>4. Sound(market, run.call.borrower)
  BY DEF Promised, Stands
<1> QED
  BY <1>1, <1>3, <1>4 DEF Sound

\* The amounts of a fresh call.
LEMMA PromisedTypes ==
  ASSUME Typed, Promised
  PROVE  /\ run \in Run /\ run.call \in Call /\ evm \in Evm /\ market \in Market
         /\ run.call.borrower \in Borrowers
         /\ market.pay \in Nat /\ Fair(market) \in Nat /\ Fair(market) <= market.pay
         /\ Seized[run.call.borrower] \in Nat /\ Fee \in Nat
         /\ Debt[run.call.borrower].amount \in Nat \ {0}
         /\ Debt[run.call.borrower].token \in Tokens
         /\ Owed(market, run.call.borrower, Size) \in Nat
         /\ Earned(market, run.call.borrower) \in Nat \ {0}
         /\ run.call.expected = Earned(market, run.call.borrower)
         /\ \A t \in Tokens : evm.bal[t] \in Nat /\ run.entry.bal[t] \in Nat
<1> DEFINE b == run.call.borrower
<1>1. /\ run \in Run /\ run.call \in Call /\ evm \in Evm /\ market \in Market
      /\ b \in Borrowers
      /\ \A t \in Tokens : evm.bal[t] \in Nat /\ run.entry.bal[t] \in Nat
  BY TrackTypes DEF Promised
<1>2. /\ Earned(market, b) \in Nat \ {0} /\ run.call.expected = Earned(market, b)
      /\ Sound(market, b)
  BY DEF Promised, Stands
<1>3. market.pay \in Nat /\ Fair(market) \in Nat /\ Fair(market) <= market.pay
  BY <1>1, <1>2 DEF Sound, Fair, Market
<1>4. Seized[b] \in Nat /\ Fee \in Nat /\ Debt[b].amount \in Nat \ {0}
  BY <1>1, LiquidationAssumption
<1>5. Debt[b].token \in Tokens
  BY <1>1, TokenTypes
<1>6. Owed(market, b, Size) \in Nat
  BY <1>1, Totals, Loans
<1> QED
  BY <1>1, <1>2, <1>3, <1>4, <1>5, <1>6

LEMMA ExecuteGoesOn ==
  ASSUME Typed, WholeInv, Promised, ExecuteLiquidation
  PROVE  ~Fail(run)
<1> DEFINE b == run.call.borrower
           est == Est(market, b)
           cover == IF Debt[b].token = Wbtc THEN Debt[b].amount ELSE 0
<1>1. run.at = "step" /\ run.phase = "LiquidationAndSwap" /\ run # None
  BY DEF ExecuteLiquidation, Stepping, Running
<1>2. Past(run) = Size /\ HandedTo(run) = Size
  BY <1>1 DEF Past, HandedTo, Calling
<1>3. Holding(market, evm, run, Size, Size) /\ run.est = est
  BY <1>1, <1>2 DEF Promised, Track, Lending
<1>4. /\ run \in Run /\ evm \in Evm /\ market \in Market /\ b \in Borrowers
      /\ market.pay \in Nat /\ Fair(market) \in Nat /\ Fair(market) <= market.pay
      /\ Seized[b] \in Nat /\ Fee \in Nat
      /\ Debt[b].amount \in Nat /\ Debt[b].token \in Tokens
      /\ Owed(market, b, Size) \in Nat /\ Earned(market, b) \in Nat
      /\ \A t \in Tokens : evm.bal[t] \in Nat /\ run.entry.bal[t] \in Nat
  BY PromisedTypes
<1>5. /\ est \in Estimate
      /\ est.debtToken = Debt[b].token /\ est.debtToCover = Debt[b].amount
      /\ est.wbtcPayment = market.pay /\ est.exitBtcFee = Fee /\ Asked(est) = Fair(market)
  BY <1>4, Owing, MarketAsks
<1>6. \A t \in Tokens : evm.bal[t] = run.entry.bal[t] + Lent(market, b, t, Size)
  BY <1>3 DEF Holding
<1>7. /\ b \in evm.open /\ evm.allow = [s \in Spenders |-> Zero]
      /\ \E n \in 1..Size : Flashes[n].token = Debt[b].token
  BY <1>3 DEF Promised, Stands, Sound, Holding, WholeInv, NoAllowance
<1> HIDE DEF est
<1>8. Lent(market, b, Wbtc, Size) = cover + market.pay
  <2>1. Lent(market, b, Wbtc, Size) = PaymentIn(est, Wbtc)
    BY <1>4, Totals DEF est
  <2> QED
    BY <1>4, <1>5, <2>1 DEF PaymentIn
<1>9. Lent(market, b, Debt[b].token, Size) >= Debt[b].amount
  <2>1. Lent(market, b, Debt[b].token, Size) = PaymentIn(est, Debt[b].token)
    BY <1>7 DEF Lent, est
  <2> QED
    BY <1>4, <1>5, <2>1 DEF PaymentIn
<1>10. /\ evm.bal[Debt[b].token] >= Debt[b].amount
       /\ evm.bal[Wbtc] >= cover + Fair(market)
       /\ evm.bal[Wbtc] + Seized[b] >= cover + Fair(market) + Fee
  <2> DEFINE token == Debt[b].token
             lent == Lent(market, b, token, Size)
             lentWbtc == Lent(market, b, Wbtc, Size)
  <2>1. /\ evm.bal[token] = run.entry.bal[token] + lent
        /\ evm.bal[Wbtc] = run.entry.bal[Wbtc] + lentWbtc
        /\ run.entry.bal[token] \in Nat /\ run.entry.bal[Wbtc] \in Nat
    BY <1>4, <1>6, TokenTypes
  <2>2. lent \in Nat
    BY <1>4, Totals, Loans
  <2>3. (market.pay - Fair(market)) + Seized[b] >= Fee
    BY <1>4 DEF Earned
  <2>4. lent >= Debt[b].amount /\ lentWbtc = cover + market.pay /\ cover \in Nat
    BY <1>4, <1>8, <1>9
  <2> HIDE DEF lent, lentWbtc, cover
  <2> QED
    BY <1>4, <2>1, <2>2, <2>3, <2>4
<1>11. cover \in Nat
  BY <1>4
<1>12. Liquidatable(ApproveForAdapter(evm, est), est, b)
  <2>1. Asked(est) <= est.wbtcPayment
    BY <1>4, <1>5
  <2>2. cover = IF est.debtToken = Wbtc THEN est.debtToCover ELSE 0
    BY <1>5
  <2>3. evm.bal[est.debtToken] >= est.debtToCover
    BY <1>5, <1>10
  <2>4. evm.bal[Wbtc] >= cover + Asked(est)
    BY <1>5, <1>10
  <2>5. evm.bal[Wbtc] + Seized[b] >= cover + Asked(est) + est.exitBtcFee
    BY <1>5, <1>10
  <2> HIDE DEF cover, b
  <2> QED
    BY <1>4, <1>5, <1>7, <1>11, <2>1, <2>2, <2>3, <2>4, <2>5, Affordable
<1>13. run' = [run EXCEPT !.at = "swap"]
  BY <1>3, <1>12 DEF ExecuteLiquidation, Require
<1> HIDE DEF Call, Evm, Frame, Estimate
<1>14. run'.at = "swap"
  BY <1>4, <1>13 DEF Run
<1> QED
  BY <1>1, <1>14, NotReverted

\* The venues find their due, and the pool manager nobody waiting.
LEMMA ReturnGoesOn ==
  ASSUME Typed, WholeInv, Promised, Repay \/ Lock
  PROVE  ~Fail(run)
<1>1. run.at = "return" /\ run.stack # <<>> /\ run # None
  BY DEF Repay, Lock, Unwinding, Running
<1>2. InWbtc(run) /\ Returning(market, evm, run)
  BY <1>1 DEF Promised, Track
<1>3. /\ evm \in Evm /\ evm.bal[Wbtc] \in Nat /\ run.entry.bal[Wbtc] \in Nat
      /\ Earned(market, run.call.borrower) \in Nat
  BY PromisedTypes, TokenTypes
<1>4. /\ Top \in Frame /\ Top.amount \in Nat /\ SumOfDebts(Front(run.stack)) \in Nat
      /\ SumOfDebts(run.stack) = SumOfDebts(Front(run.stack)) + Top.amount
      /\ Top.kind = "loan" => Top.token = Wbtc
      /\ Popped \in Run
  BY <1>1, <1>2, FramePopped, TopTypes
<1>5. evm.expected = None /\ evm.waiting = {} /\ evm.allow = NoAllowance
  BY <1>1 DEF WholeInv, Inside, Awaited, Calling
<1>6. evm.bal[Wbtc] >= Top.amount
  <2> DEFINE all == SumOfDebts(run.stack)
             rest == SumOfDebts(Front(run.stack))
             earned == Earned(market, run.call.borrower)
  <2>1. evm.bal[Wbtc] = (run.entry.bal[Wbtc] + earned) + all
    BY <1>2 DEF Returning
  <2>2. all = rest + Top.amount /\ rest \in Nat /\ earned \in Nat
    BY <1>3, <1>4
  <2> HIDE DEF all, rest, earned
  <2> QED
    BY <1>3, <1>4, <2>1, <2>2
<1>7. run' = Popped
  <2>1. CASE Repay
    <3> DEFINE v == Top.venue
               n == Top.amount
               e == [evm EXCEPT !.allow[Top.venue][Top.token] = @ + Top.amount]
    <3>1. Top.kind = "loan" /\ Top.token = Wbtc /\ v \in Spenders /\ Wbtc \in Tokens
      BY <1>4, <2>1, TokenTypes DEF Repay, Frame
    <3>2. /\ e.allow[v][Wbtc] = evm.allow[v][Wbtc] + n /\ e.bal = evm.bal
          /\ e.expected = evm.expected
      BY <1>3, <3>1 DEF Evm
    <3>3. evm.allow[v][Wbtc] = 0
      BY <1>5, <3>1 DEF NoAllowance, Zero
    <3> HIDE DEF e
    <3>4. CanPull(e, v, Wbtc, n) /\ Complete(e)
      BY <1>4, <1>5, <1>6, <3>2, <3>3 DEF CanPull, Complete
    <3> QED
      BY <2>1, <3>1, <3>4 DEF Repay, Require, e
  <2>2. CASE Lock
    BY <1>5, <2>2 DEF Lock, Require, Complete
  <2> QED
    BY <2>1, <2>2
<1>8. Popped.at = "return"
  <2> HIDE DEF Call, Evm, Frame, Estimate
  <2>1. run \in Run
    BY <1>1 DEF Typed
  <2> QED
    BY <1>1, <2>1 DEF Popped, Run
<1> QED
  BY <1>1, <1>7, <1>8, NotReverted

\* The balance is up by the quote, which is no less than the floor.
LEMMA SettleGoesOn ==
  ASSUME Typed, WholeInv, PayInv, FitInv, Promised, Settle
  PROVE  ~Fail(run) /\ run'.last.ok /\ run'.last.profit = run.call.expected
<1> DEFINE b == run.call.borrower
           entry == run.entry.bal[Wbtc]
           e == ClearVenueDebts(evm)
<1>1. run.at = "return" /\ run.stack = <<>> /\ run # None
  BY DEF Settle, Running
<1>2. Returning(market, evm, run)
  BY <1>1 DEF Promised, Track
<1>3. /\ evm \in Evm /\ run \in Run /\ run.call \in Call /\ entry \in Nat
      /\ Earned(market, b) \in Nat \ {0} /\ run.call.expected = Earned(market, b)
  BY PromisedTypes, TokenTypes
<1>4. evm.bal[Wbtc] = entry + run.call.expected
  <2>1. SumOfDebts(run.stack) = 0
    BY <1>1, NoDebts
  <2>2. evm.bal[Wbtc] = (entry + Earned(market, b)) + 0
    BY <1>2, <2>1 DEF Returning
  <2> QED
    BY <1>3, <2>2
<1>5. run.wbtcBefore = entry
  BY <1>1 DEF PayInv
<1>6. entry <= MaxGift /\ MaxGift \in Nat /\ MaxUint \in Nat
  <2>1. entry <= given /\ given \in 0..MaxGift
    BY <1>1 DEF FitInv, Given, Typed
  <2>2. MaxGift \in Nat /\ MaxUint \in Nat
    BY Amounts
  <2> QED
    BY <1>3, <2>1, <2>2
<1>7. /\ run.call.floor <= run.call.expected /\ MaxGift + run.call.expected < MaxUint
      /\ run.call.floor \in Nat
  <2>1. run.call.floor \in Nat
    BY <1>3 DEF Call
  <2> QED
    BY <2>1 DEF Promised, Stands
<1>8. e.bal = evm.bal
  BY <1>3 DEF ClearVenueDebts, Evm
<1> HIDE DEF e, entry
<1>9. Profitable(e, run)
  BY <1>3, <1>4, <1>5, <1>6, <1>7, <1>8 DEF Profitable
<1>10. run' = [run EXCEPT !.at = "next",
                          !.last = [call |-> run.call, ok |-> TRUE,
                                    profit |-> e.bal[Wbtc] - run.wbtcBefore]]
  BY <1>9 DEF Settle, Require, e
<1>11. run'.last = [call |-> run.call, ok |-> TRUE, profit |-> e.bal[Wbtc] - run.wbtcBefore]
  <2> HIDE DEF Call, Evm, Frame, Estimate
  <2> QED
    BY <1>3, <1>10 DEF Run
<1>12. run'.last.profit = run.call.expected
  BY <1>3, <1>4, <1>5, <1>8, <1>11
<1> QED
  BY <1>1, <1>11, <1>12, NotReverted

LEMMA GoesOn ==
  ASSUME Typed, WholeInv, PayInv, FitInv, Promised, Running1
  PROVE  ~Fail(run)
<1> QED
  BY NoneSilent, SkipGoesOn, SetUpGoesOn, LoanGoesOn, CallbackGoesOn, ExecuteGoesOn,
     TrackOfSwap, ReturnGoesOn, SettleGoesOn DEF Running1, Promised

-----------------------------------------------------------------------------
(* Quotes stand: those on offer are of this market, a probe finds the      *)
(* balance its pass began with, and what a call has lent, owes and keeps   *)
(* is what its quote was reckoned from.                                    *)

\* A probe, of a router that holds what its pass found.
Asks(c) == c.expected = None /\ c.fresh
Probes(c, e, baseline) == Asks(c) => Standard(c) /\ e.bal[Wbtc] = baseline
\* The body of FreshQuoteStands.
Reports(r) == r.last # None =>
    LET call == r.last.call
    IN  call.expected # None /\ call.fresh /\ call.borrower \in r.entry.open
        => r.last.ok /\ r.last.profit = call.expected

ExactInv ==
    /\ \A b \in Borrowers : bot.quotes[b] # None =>
          Stands(market, bot.quotes[b]) /\ bot.quotes[b].expected # None
    /\ run = None => Clean(evm)
    /\ run # None =>
          /\ Clean(run.start)
          /\ \A n \in DOMAIN run.rest :
                /\ Stands(market, run.rest[n]) /\ Probes(run.rest[n], evm, bot.baseline)
                /\ Asks(run.rest[n]) => n = 1 /\ run.at = "next"
          /\ run.at = "next" => Clean(evm) /\ Reports(run)
          /\ run.at # "next" =>
                /\ Clean(run.entry) /\ Stands(market, run.call)
                /\ Probes(run.call, run.entry, bot.baseline)
                /\ Standard(run.call) => Track(market, evm, run)

\* A call that goes on is not over before it settles.
LEMMA NotOver ==
  ASSUME Typed, WholeInv, Running1, ~Fail(run), ~Settle
  PROVE  run'.at # "next"
<1>1. ~Silent
  BY WholeSilent
<1>2. CASE SkipSetup \/ SkipLoan
  <2>1. run \in Run /\ run' = ToNext(run)
    BY <1>2, StepKeeps DEF SkipSetup, SkipLoan, Typed, Running1
  <2> QED
    BY <2>1, NextFields
<1>3. CASE SetUp \/ FlashLoan
  BY <1>3, SetUpEffect, LoanEffect DEF Calling
<1>4. CASE OnSetUpCallback \/ OnFlashLoan
  BY <1>4, OnSetUpEffect, OnLoanEffect
<1>5. CASE ExecuteLiquidation
  BY <1>5, ExecuteEffect DEF WholeInv, NoAllowance
<1>6. CASE Swap \/ Swapped \/ Repay \/ Lock
  BY <1>6, SwapEffect, RepayEffect, LockEffect
<1> QED
  BY <1>1, <1>2, <1>3, <1>4, <1>5, <1>6 DEF Running1

LEMMA ExactOfStep ==
  ASSUME Typed, WholeInv, PayInv, FitInv, ExactInv, Running1
  PROVE  ExactInv'
<1>1. /\ run # None /\ run.at # "next" /\ Kept /\ run' # None /\ run \in Run
      /\ bot' = bot /\ market' = market
  BY StepKeeps, StepMoves DEF World, Typed
<1>2. /\ Clean(run.start) /\ Clean(run.entry) /\ Stands(market, run.call)
      /\ Probes(run.call, run.entry, bot.baseline)
      /\ Standard(run.call) => Track(market, evm, run)
      /\ \A n \in DOMAIN run.rest : Stands(market, run.rest[n]) /\ ~Asks(run.rest[n])
  BY <1>1 DEF ExactInv
<1>3. /\ run'.call = run.call /\ run'.start = run.start /\ run'.entry = run.entry
      /\ \A n \in DOMAIN run'.rest : Stands(market, run'.rest[n]) /\ ~Asks(run'.rest[n])
  <2>1. DOMAIN <<>> = {}
    OBVIOUS
  <2> QED
    BY <1>1, <1>2, <2>1 DEF Kept
<1>4. (\A b \in Borrowers : bot.quotes[b] # None =>
          Stands(market, bot.quotes[b]) /\ bot.quotes[b].expected # None)'
  BY <1>1 DEF ExactInv
<1>5. run'.at = "next" => Clean(evm') /\ Reports(run')
  <2> SUFFICES ASSUME run'.at = "next" PROVE Clean(evm') /\ Reports(run')
    OBVIOUS
  <2>1. /\ run.call.expected # None /\ run.call.fresh /\ run.call.borrower \in run.entry.open
        => Promised
    BY <1>1, <1>2 DEF Promised, Stands
  <2>2. CASE Fail(run)
    <3>1. run.requireSuccess \in BOOLEAN
      <4> HIDE DEF Call, Evm, Frame, Estimate
      <4> QED
        BY <1>1 DEF Run
    <3>2. /\ evm' = run.start \/ evm' = run.entry
          /\ run'.last.call = run.call
      BY <1>1, <2>2, <3>1, FailEffect
    <3>3. ~Promised
      BY <2>2, GoesOn
    <3> QED
      BY <1>2, <1>3, <2>1, <3>2, <3>3 DEF Reports
  <2>3. CASE ~Fail(run)
    <3>1. Settle
      BY <2>3, NotOver
    <3>2. run'.last.call = run.call /\ evm'.bal = Zero
      BY <2>3, <3>1, SettleEffect
    <3>3. Promised => run'.last.ok /\ run'.last.profit = run.call.expected
      BY <3>1, SettleGoesOn
    <3> QED
      BY <1>3, <2>1, <3>2, <3>3 DEF Reports, Clean, Zero
  <2> QED
    BY <2>2, <2>3
<1>6. run'.at # "next" /\ Standard(run.call) => Track(market, evm', run')
  <2> SUFFICES ASSUME run'.at # "next", Standard(run.call) PROVE Track(market, evm', run')
    OBVIOUS
  <2>1. run.requireSuccess \in BOOLEAN
    <3> HIDE DEF Call, Evm, Frame, Estimate
    <3> QED
      BY <1>1 DEF Run
  <2>2. ~Fail(run)
    BY <1>1, <2>1, FailEffect
  <2> QED
    BY <1>1, <1>2, <2>2, TrackOfStep
<1>7. Probes(run'.call, run'.entry, bot'.baseline)
  BY <1>1, <1>2, <1>3 DEF Probes
<1>8. \A n \in DOMAIN run'.rest : Probes(run'.rest[n], evm', bot'.baseline)
  BY <1>3 DEF Probes
<1> QED
  BY <1>1, <1>2, <1>3, <1>4, <1>5, <1>6, <1>7, <1>8 DEF ExactInv

\* A call begins: nothing is lent or owed yet.
LEMMA ExactOfLiquidate ==
  ASSUME Typed, WholeInv, ExactInv, Liquidate
  PROVE  ExactInv'
<1>1. /\ run' # None /\ run' \in Run /\ bot' = bot /\ market' = market /\ evm \in Evm
      /\ market \in Market
  BY LiquidateTypes, NoneAssumption, LiquidationAssumption DEF Moved, World, Typed
<1>2. /\ run # None /\ run.at = "next" /\ run'.start = run.start
      /\ 1 \in DOMAIN run.rest /\ run'.call = run.rest[1]
      /\ \A m \in DOMAIN run'.rest :
            \E n \in DOMAIN run.rest : n # 1 /\ run'.rest[m] = run.rest[n]
      /\ run'.entry = evm
      /\ \/ /\ evm' = run.start \/ evm' = evm
            /\ run'.at = "next" /\ ~run'.last.ok /\ run'.last.call = run'.call
            /\ run'.call.flash = <<>> \/ run'.call.borrower \notin evm.open
         \/ /\ evm' = evm /\ run'.at = "step" /\ run'.stack = <<>>
            /\ run'.est = EstLiquidationPayment(run'.call.borrower)
            /\ run'.phase = "Setup" /\ run'.i = 1
  BY LiquidateEffect
<1>3. /\ Clean(run.start) /\ Clean(evm)
      /\ \A n \in DOMAIN run.rest : /\ Stands(market, run.rest[n])
                                    /\ Probes(run.rest[n], evm, bot.baseline)
                                    /\ Asks(run.rest[n]) => n = 1
  BY <1>2 DEF ExactInv
<1>4. (\A b \in Borrowers : bot.quotes[b] # None =>
          Stands(market, bot.quotes[b]) /\ bot.quotes[b].expected # None)'
  BY <1>1 DEF ExactInv
<1>5. Stands(market, run'.call) /\ Probes(run'.call, run'.entry, bot.baseline)
  BY <1>2, <1>3
<1>6. \A m \in DOMAIN run'.rest : Stands(market, run'.rest[m]) /\ ~Asks(run'.rest[m])
  BY <1>2, <1>3
<1>7. \A m \in DOMAIN run'.rest : Probes(run'.rest[m], evm', bot.baseline)
  BY <1>6 DEF Probes
<1>8. run'.at = "next" => Reports(run')
  <2>1. Flashes # <<>>
    BY Loans
  <2> QED
    BY <1>2, <1>5, <2>1 DEF Reports, Stands, Standard
<1>9. run'.at # "next" /\ Standard(run'.call) => Track(market, evm', run')
  <2> SUFFICES ASSUME run'.at # "next" PROVE Track(market, evm', run')
    OBVIOUS
  <2> DEFINE b == run'.call.borrower
  <2>1. /\ evm' = evm /\ run'.at = "step" /\ run'.stack = <<>> /\ run'.phase = "Setup"
        /\ run'.i = 1 /\ run'.est = EstLiquidationPayment(b) /\ run'.entry = evm
    BY <1>2
  <2>2. b \in Borrowers
    <3>1. run'.call \in Call
      BY <2>1, LiquidateTypes DEF Moved, Under
    <3> QED
      BY <3>1 DEF Call
  <2>3. evm.debts = <<>>
    BY <1>2 DEF WholeInv, Whole
  <2>4. /\ Past(run') = 0 /\ HandedTo(run') = 0
    BY <2>1 DEF Past, HandedTo, Calling
  <2>5. \A t \in Tokens : evm.bal[t] = evm.bal[t] + Lent(market, b, t, 0)
    <3>1. \A t \in Tokens : evm.bal[t] \in Nat
      BY <1>1 DEF Evm
    <3>2. \A t \in Tokens : Lent(market, b, t, 0) = 0
      BY <1>1, <2>2, Totals
    <3> QED
      BY <3>1, <3>2
  <2>6. SumOfDebts(<<>>) = Owed(market, b, 0)
    BY <1>1, <2>2, Totals, NoDebts
  <2>7. Holding(market, evm', run', 0, 0)
    BY <2>1, <2>3, <2>5, <2>6 DEF Holding
  <2>8. Ready(market, evm', run') /\ InWbtc(run')
    BY <2>1 DEF Ready, InWbtc
  <2>9. run'.est = Est(market, b)
    BY <2>1, <2>2, MarketAsks
  <2> QED
    BY <2>1, <2>4, <2>7, <2>8, <2>9 DEF Track, Lending
<1> QED
  BY <1>1, <1>2, <1>3, <1>4, <1>5, <1>6, <1>7, <1>8, <1>9 DEF ExactInv

\* The quote of a probe is what the call it is for will earn.
LEMMA QuoteStands ==
  ASSUME Fits, Typed, BaseInv, FitInv, ExactInv, BelovedError,
         NEW expected \in Nat, expected = QuoteProfit(evm.bal[Wbtc], evm.debts),
         Viable(expected, evm.debts)
  PROVE  Stands(market, Funded(run.call, expected))
<1> DEFINE f == Funded(run.call, expected)
           b == run.call.borrower
<1>1. /\ run # None /\ run.at = "swap" /\ run.call.floor = MaxUint /\ run.call \in Call
  BY Quoting DEF BelovedError, Running, MIN_PROFIT_REVERT_TAG
<1>2. /\ f.borrower = b /\ f.floor = MinWbtcProfitFloor(expected) /\ f.expected = expected
      /\ f.flash = run.call.flash /\ f.swaps = run.call.swaps /\ f.fresh = run.call.fresh
  BY <1>1, FundedTypes
<1> HIDE DEF f
<1> SUFFICES ASSUME run.call.fresh PROVE Stands(market, f)
  BY <1>2 DEF Stands, f
<1>3. /\ MaxGift \in Nat /\ MaxUint \in Nat /\ MinProfit \in Nat /\ SlippageBps \in 0..10000
      /\ bot.baseline \in Nat
  BY Quoting, Amounts
<1>4. Asks(run.call)
  <2> SUFFICES ASSUME run.call.expected # None PROVE FALSE
    BY DEF Asks
  <2>1. Stands(market, run.call)
    BY <1>1 DEF ExactInv
  <2>2. /\ run.call.expected \in Nat /\ run.call.floor <= run.call.expected
        /\ MaxGift + run.call.expected < MaxUint
    BY <2>1 DEF Stands
  <2> QED
    BY <1>1, <1>3, <2>2
<1>5. Standard(run.call) /\ run.entry.bal[Wbtc] = bot.baseline
  BY <1>1, <1>4 DEF ExactInv, Probes
<1>6. Returning(market, evm, run)
  BY <1>1, <1>5 DEF ExactInv, Track
<1>7. /\ evm.bal[Wbtc] \in Nat /\ SumOfDebts(evm.debts) \in Nat /\ b \in Borrowers
      /\ Seized[b] \in Nat
  BY <1>1, FitTypes
<1>8. Earned(market, b) \in Int
  <2>1. /\ market.pay \in Nat /\ Fair(market) \in Int
        /\ Fee \in Nat /\ Owed(market, b, Size) \in Nat
    <3>1. market \in Market
      BY <1>1, <1>5, TrackTypes
    <3>2. Size \in 0..Size
      BY Loans
    <3>3. market.pay \in Nat /\ Fair(market) \in Int
      BY <3>1 DEF Market, Fair
    <3> QED
      BY <1>7, <3>1, <3>2, <3>3, Totals, Amounts
  <2> QED
    BY <1>7, <2>1 DEF Earned
<1>9. expected = Earned(market, b)
  <2> DEFINE earned == Earned(market, b)
             sum == SumOfDebts(evm.debts)
  <2>1. evm.bal[Wbtc] = (bot.baseline + earned) + sum
    BY <1>1, <1>5, <1>6 DEF Returning
  <2>2. expected = (evm.bal[Wbtc] - bot.baseline) - sum
    BY DEF QuoteProfit
  <2> HIDE DEF earned, sum
  <2>3. expected = earned
    BY <1>3, <1>7, <1>8, <2>1, <2>2 DEF sum, earned
  <2> QED
    BY <2>3 DEF earned
<1>10. expected > 0 /\ expected >= MinProfit
  BY DEF Viable
<1>11. MinWbtcProfitFloor(expected) <= expected
  <2>1. expected * SlippageBps \in Nat /\ 10000 - SlippageBps \in Nat
        /\ expected * (10000 - SlippageBps) = expected * 10000 - expected * SlippageBps
    BY <1>3
  <2>2. expected * (10000 - SlippageBps) <= expected * 10000
        /\ expected * (10000 - SlippageBps) \in Nat
    BY <2>1
  <2>3. (expected * (10000 - SlippageBps)) \div 10000 <= expected
    BY <2>2
  <2> QED
    BY <1>3, <1>10, <2>3 DEF MinWbtcProfitFloor
<1>12. MaxGift + expected < MaxUint
  <2>1. evm.bal[Wbtc] <= bot.baseline + SumOfDebts(evm.debts) + 0 + Seized[b]
    BY <1>1, <1>5 DEF FitInv, Bounded, Handing, Brought, Calling
  <2>2. expected = (evm.bal[Wbtc] - bot.baseline) - SumOfDebts(evm.debts)
    BY DEF QuoteProfit
  <2>3. expected <= Seized[b]
    BY <1>3, <1>7, <2>1, <2>2
  <2> QED
    BY <1>3, <1>7, <2>3 DEF Fits
<1>13. Standard(f) /\ Sound(market, b)
  BY <1>2, <1>5, <1>6 DEF Standard, Returning
<1> QED
  BY <1>2, <1>9, <1>10, <1>11, <1>12, <1>13 DEF Stands

LEMMA ExactOfSubmit ==
  ASSUME Typed, ExactInv, Idle, NEW calls \in Seq(Call), NEW all \in BOOLEAN,
         Submit(calls, all), evm' = evm, market' = market,
         \A n \in DOMAIN calls : /\ Stands(market, calls[n])
                                 /\ Probes(calls[n], evm, bot'.baseline)
                                 /\ Asks(calls[n]) => n = 1,
         \A b \in Borrowers : bot'.quotes[b] \in {None, bot.quotes[b]}
  PROVE  ExactInv'
<1>1. /\ run' \in Run /\ run'.start = evm /\ run'.at = "next" /\ run'.rest = calls
      /\ run'.last = None
  BY SubmitTypes
<1>2. /\ Clean(evm)
      /\ \A b \in Borrowers : bot.quotes[b] # None =>
            Stands(market, bot.quotes[b]) /\ bot.quotes[b].expected # None
  BY DEF ExactInv, Idle
<1>3. \A b \in Borrowers : bot'.quotes[b] # None =>
            Stands(market, bot'.quotes[b]) /\ bot'.quotes[b].expected # None
  BY <1>2
<1>4. Reports(run')
  BY <1>1 DEF Reports
<1>5. run' # None
  BY <1>1, NoneAssumption
<1> QED
  BY <1>1, <1>2, <1>3, <1>4, <1>5 DEF ExactInv

LEMMA ExactNext ==
  ASSUME Fits, Typed, BaseInv, WholeInv, PayInv, FitInv, ExactInv, [Next]_vars
  PROVE  ExactInv'
<1>1. CASE Running1
  BY <1>1, ExactOfStep
<1>2. CASE Liquidate
  BY <1>2, ExactOfLiquidate
<1>3. CASE BelovedError
  <2>1. /\ run # None /\ evm' = run.start /\ run' = None /\ market' = market
        /\ run.call \in Call /\ bot \in AnyBot
        /\ \/ bot' = bot
           \/ \E expected \in Nat :
                 /\ expected = QuoteProfit(evm.bal[Wbtc], evm.debts)
                 /\ Viable(expected, evm.debts)
                 /\ bot' = [bot EXCEPT !.quotes[run.call.borrower]
                                          = Funded(run.call, expected)]
    BY <1>3, Quoting DEF BelovedError, Running
  <2>2. Clean(evm')
    BY <2>1 DEF ExactInv
  <2>3. \A b \in Borrowers : bot'.quotes[b] # None =>
            Stands(market, bot'.quotes[b]) /\ bot'.quotes[b].expected # None
    <3>1. CASE bot' = bot
      BY <3>1 DEF ExactInv
    <3>2. CASE bot' # bot
      <4>1. PICK expected \in Nat :
              /\ expected = QuoteProfit(evm.bal[Wbtc], evm.debts)
              /\ Viable(expected, evm.debts)
              /\ bot' = [bot EXCEPT !.quotes[run.call.borrower] = Funded(run.call, expected)]
        BY <2>1, <3>2
      <4> DEFINE f == Funded(run.call, expected)
      <4>2. Stands(market, f)
        BY <1>3, <4>1, QuoteStands
      <4>3. f.expected # None
        BY <2>1, <4>1, FundedTypes, NoneIsNoAmount
      <4>4. \A b \in Borrowers : bot'.quotes[b] = f \/ bot'.quotes[b] = bot.quotes[b]
        <5> HIDE DEF f, Call
        <5>1. bot' = [bot EXCEPT !.quotes[run.call.borrower] = f]
          BY <4>1 DEF f
        <5> QED
          BY <2>1, <5>1 DEF AnyBot
      <4> HIDE DEF f
      <4> QED
        BY <4>2, <4>3, <4>4 DEF ExactInv
    <3> QED
      BY <3>1, <3>2
  <2> QED
    BY <2>1, <2>2, <2>3 DEF ExactInv
<1>4. CASE End
  <2>1. /\ run # None /\ run.at = "next" /\ run' = None /\ evm \in Evm
        /\ evm' = [evm EXCEPT !.expected = None, !.waiting = {}, !.debts = <<>>]
        /\ bot' = bot /\ market' = market
    BY <1>4 DEF End, Running, Typed, World
  <2>2. evm'.bal = evm.bal
    BY <2>1 DEF Evm
  <2> QED
    BY <2>1, <2>2 DEF ExactInv, Clean
<1>5. CASE Include
  <2>1. PICK calls \in Transactions, all \in BOOLEAN :
           /\ Submit(calls, all)
           /\ bot' = [bot EXCEPT !.quotes =
                         [b \in Borrowers |-> IF \E n \in DOMAIN calls : calls[n] = @[b]
                                              THEN None ELSE @[b]]]
    BY <1>5 DEF Include
  <2>2. Idle /\ evm' = evm /\ market' = market
    BY <1>5 DEF Include
  <2>3. \A b \in Borrowers : bot'.quotes[b] \in {None, bot.quotes[b]}
    BY <2>1 DEF Typed, AnyBot
  <2>4. \A c \in Offered : Stands(market, c) /\ ~Asks(c)
    <3>1. \A c \in HandMade : c.expected = None /\ ~c.fresh
      BY LiquidationAssumption
    <3>2. \A c \in HandMade : Stands(market, c) /\ ~Asks(c)
      BY <3>1 DEF Stands, Asks
    <3>3. \A b \in Quoted : Stands(market, bot.quotes[b]) /\ ~Asks(bot.quotes[b])
      BY DEF ExactInv, Quoted, Asks
    <3> QED
      BY <3>2, <3>3 DEF Offered
  <2>5. \A n \in DOMAIN calls : Stands(market, calls[n]) /\ ~Asks(calls[n])
    BY <2>4, OfferedCalls
  <2>6. \A n \in DOMAIN calls : Probes(calls[n], evm, bot'.baseline)
    BY <2>5 DEF Probes
  <2> QED
    BY <2>1, <2>2, <2>3, <2>5, <2>6, SubmittedTypes, ExactOfSubmit
<1>6. CASE Vet \/ UNCHANGED vars
  <2>1. CASE Vet
    <3>1. run = None /\ run' = None /\ evm' = evm
          /\ \A b \in Borrowers : bot'.quotes[b] = None
      BY <2>1 DEF Vet, Idle
    <3> QED
      BY <3>1 DEF ExactInv
  <2>2. CASE UNCHANGED vars
    BY <2>2 DEF vars, ExactInv
  <2> QED
    BY <1>6, <2>1, <2>2
<1>7. CASE Move
  <2>1. /\ run = None /\ run' = None /\ evm' = evm
        /\ \A b \in Borrowers : bot'.quotes[b] = IF bot.quotes[b] = None THEN None
                                   ELSE [bot.quotes[b] EXCEPT !.fresh = FALSE]
    BY <1>7 DEF Move, Idle, Typed, AnyBot
  <2>2. \A c \in Call : /\ ~[c EXCEPT !.fresh = FALSE].fresh
                        /\ [c EXCEPT !.fresh = FALSE].expected = c.expected
    BY DEF Call
  <2>3. \A b \in Borrowers : bot.quotes[b] \in Call \cup {None}
    <3> HIDE DEF Call
    <3> QED
      BY DEF Typed, AnyBot
  <2>4. \A b \in Borrowers : bot'.quotes[b] # None =>
            ~bot'.quotes[b].fresh /\ bot'.quotes[b].expected # None
    <3> HIDE DEF Call
    <3> QED
      BY <2>1, <2>2, <2>3 DEF ExactInv
  <2>5. \A b \in Borrowers : bot'.quotes[b] # None => Stands(market', bot'.quotes[b])
    BY <2>4 DEF Stands
  <2> QED
    BY <2>1, <2>4, <2>5 DEF ExactInv
<1>8. CASE Give
  <2>1. /\ run = None /\ run' = None /\ evm \in Evm /\ evm' = Receive(evm, Wbtc, 1)
        /\ bot' = bot /\ market' = market
    BY <1>8 DEF Give, Idle, Typed
  <2>2. Got(evm', evm, Wbtc, 1)
    BY <2>1, TokenTypes, ReceiveFields
  <2>3. Clean(evm')
    BY <2>1, <2>2 DEF ExactInv, Got, Clean
  <2> QED
    BY <2>1, <2>3 DEF ExactInv
<1>9. ASSUME NEW b \in Borrowers, Probe(b) PROVE ExactInv'
  <2> DEFINE p == ProbeArgs(b)
  <2>1. /\ Idle /\ evm' = evm /\ market' = market /\ Submit(<<p>>, TRUE)
        /\ bot'.quotes = bot.quotes /\ bot'.baseline = bot.baseline
    BY <1>9 DEF Probe, Typed, AnyBot
  <2>2. <<p>> \in Seq(Call)
    BY ProbeArgsTypes
  <2>3. p.expected = None /\ Standard(p) /\ (p.fresh <=> bot.baseline = evm.bal[Wbtc])
    BY DEF ProbeArgs, Standard, Flashes
  <2> HIDE DEF p
  <2>4. Stands(market, p) /\ Probes(p, evm, bot'.baseline)
    BY <2>1, <2>3 DEF Stands, Probes, Asks
  <2>5. \A n \in DOMAIN <<p>> : n = 1 /\ <<p>>[n] = p
    OBVIOUS
  <2>6. \A n \in DOMAIN <<p>> : /\ Stands(market, <<p>>[n])
                                /\ Probes(<<p>>[n], evm, bot'.baseline)
                                /\ Asks(<<p>>[n]) => n = 1
    BY <2>4, <2>5
  <2>7. \A c \in Borrowers : bot'.quotes[c] \in {None, bot.quotes[c]}
    BY <2>1
  <2> QED
    BY <2>1, <2>2, <2>6, <2>7, ExactOfSubmit
<1> QED
  BY <1>1, <1>2, <1>3, <1>4, <1>5, <1>6, <1>7, <1>8, <1>9 DEF Next, Running1

-----------------------------------------------------------------------------

RouterInv == Typed /\ BaseInv /\ WholeInv /\ PayInv

LEMMA RouterInit ==
  ASSUME Init
  PROVE  RouterInv /\ FitInv
<1>1. /\ run = None /\ given = 0 /\ evm.bal = Zero /\ evm.gain = Zero /\ evm.sold = {}
      /\ Whole(evm) /\ bot.todo = {}
      /\ \A b \in Borrowers : bot.quotes[b] = None
  BY DEF Init, Whole, NoAllowance
<1>2. BaseInv /\ WholeInv
  BY <1>1 DEF BaseInv, WholeInv, Whole
<1>3. Zero[Wbtc] = 0 /\ Cardinality({}) = 0 /\ MinProfit \in Nat
  BY TokenTypes, FS_EmptySet, Amounts DEF Zero
<1>4. Pays(evm) /\ Given(evm)
  BY <1>1, <1>3 DEF Pays, Given
<1> QED
  BY <1>1, <1>2, <1>4, TypesInit DEF RouterInv, PayInv, FitInv, Quoted, InWord

LEMMA RouterSafe == Spec => []RouterInv
<1>1. Init => RouterInv
  BY RouterInit
<1>2. RouterInv /\ [Next]_vars => RouterInv'
  BY TypesNext, BaseNext, WholeNext, PayNext DEF RouterInv
<1> QED
  BY <1>1, <1>2, PTL DEF Spec

\* A call leaves nothing behind: no allowance, no debt, nothing awaited and
\* no unlocked pool manager; one that succeeded has liquidated its borrower.
\* (LiquidationRouter.liquidate, whatever the venues and the frames were.)
THEOREM WholeHolds == Spec => []CallsEndWhole
<1>1. RouterInv => CallsEndWhole
  BY DEF RouterInv, WholeInv, Whole, Done, NoAllowance, CallsEndWhole, Running
<1> QED
  BY <1>1, RouterSafe, PTL

\* Every liquidation of the bot leaves the owner RISK_MIN_PROFIT the richer,
\* beyond all WBTC given to the router.  (LiquidationRouter.liquidate's floor
\* and flash.ts's minWbtcProfitFloor.)
THEOREM PaysHolds == Spec => []EveryLiquidationPays
<1>1. RouterInv => EveryLiquidationPays
  BY DEF RouterInv, PayInv, Pays, EveryLiquidationPays, Idle
<1> QED
  BY <1>1, RouterSafe, PTL

\* The state is what its declaration says, and a floor is a word, when the
\* collateral, what is given and RISK_MIN_PROFIT are.  (flash.ts's quotes.)
THEOREM TypesHold == ASSUME Fits PROVE Spec => []TypeOK
<1>1. Init => FitInv
  BY RouterInit
<1>2. RouterInv /\ FitInv /\ [Next]_vars => FitInv'
  BY FitNext DEF RouterInv
<1>3. RouterInv /\ FitInv => TypeOK
  <2> HIDE DEF Call, Evm, Run
  <2> QED
    BY DEF RouterInv, Typed, AnyBot, FitInv, TypeOK
<1> QED
  BY <1>1, <1>2, <1>3, RouterSafe, PTL DEF Spec

\* A call whose borrower is there, in the market its probe saw and quoted
\* against the balance its probe saw, succeeds and earns exactly the quote,
\* when the collateral and what is given are short of the revert tag.
\* (flash.ts's quotes and LiquidationRouter.liquidate.)
THEOREM QuotesStand == ASSUME Fits PROVE Spec => []FreshQuoteStands
<1>1. Init => FitInv /\ ExactInv
  <2> SUFFICES ASSUME Init PROVE FitInv /\ ExactInv
    OBVIOUS
  <2>1. FitInv
    BY RouterInit
  <2>2. /\ run = None /\ evm.bal = Zero
        /\ \A b \in Borrowers : bot.quotes[b] = None
    BY DEF Init
  <2>3. Clean(evm)
    BY <2>2 DEF Clean, Zero
  <2> QED
    BY <2>1, <2>2, <2>3 DEF ExactInv
<1>2. RouterInv /\ FitInv /\ ExactInv /\ [Next]_vars => FitInv' /\ ExactInv'
  BY FitNext, ExactNext DEF RouterInv
<1>3. ExactInv => FreshQuoteStands
  BY DEF ExactInv, Reports, FreshQuoteStands, Running
<1> QED
  BY <1>1, <1>2, <1>3, RouterSafe, PTL DEF Spec
=============================================================================
