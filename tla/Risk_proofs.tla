------------------------------ MODULE Risk_proofs ------------------------------
(***************************************************************************)
(* Proofs about the risk gate's two halves, RiskGate and RiskLedger, for   *)
(* any slots, pinned contracts, overlapping passes and thresholds, and for *)
(* any engines, actions, accounts and costs.                               *)
(*                                                                         *)
(* RiskGate.  The inductive invariant is the type invariant, the count of  *)
(* open slots, the streak of the breaker and GuardInv.  Types need the     *)
(* count: release subtracts from inFlight, which stays a natural number    *)
(* only because a slot that releases is one of those counted.  The three   *)
(* others are about disjoint parts of the state, so each is preserved by   *)
(* itself.                                                                 *)
(*                                                                         *)
(* RiskLedger.  What the ledger is for, that no money is committed twice,  *)
(* is a sum over transactions.  It rests on a fact per transaction and     *)
(* account: a spend that may happen or has happened is counted until a     *)
(* published figure excludes it.  That fact needs what a refresh knows: a  *)
(* hold it found settled belongs to a final transaction mined no later     *)
(* than the height it reads at, a hold it has yet to judge may still be    *)
(* mined only if its row was in flight, and a hold's height is that of its *)
(* transaction.  The sum is then the books: a published or read balance is *)
(* the chain's plus all that was mined since its height, and what is       *)
(* admitted fits in what the open slots and the holds leave of it.  The    *)
(* lemmas about sums over a finite set of actions come between the two.    *)
(***************************************************************************)
EXTENDS RiskGate, RiskLedger, SumTheorems, FiniteSetTheorems, TLAPS

-----------------------------------------------------------------------------
(* RiskGate.                                                               *)

GateInv == GateTypeOK /\ ExposureBounded /\ BreakerTrips /\ GuardInv

(***************************************************************************)
(* Opening a slot adds one to the number of open slots; a slot that leaves *)
(* "open" takes one away, and one that was not open takes none.            *)
(***************************************************************************)
LEMMA OpenIsFinite == IsFiniteSet(Open) /\ Cardinality(Open) \in Nat
<1>1. Open \subseteq Slots
  BY DEF Open
<1> QED
  BY <1>1, SlotsAssumption, FS_Subset, FS_CardinalityType

\* Opening a slot adds one to them.
LEMMA OpenAdds ==
  ASSUME slotState \in [Slots -> {"none", "open", "settled"}],
         NEW s \in Slots, slotState[s] # "open",
         slotState' = [slotState EXCEPT ![s] = "open"]
  PROVE  Cardinality(Open') = Cardinality(Open) + 1
<1>1. Open' = Open \cup {s} /\ s \notin Open
  BY DEF Open
<1> QED
  BY <1>1, OpenIsFinite, FS_AddElement

\* Closing an open slot takes one away.
LEMMA CloseRemoves ==
  ASSUME slotState \in [Slots -> {"none", "open", "settled"}],
         NEW s \in Slots, NEW to \in {"none", "settled"},
         slotState' = [slotState EXCEPT ![s] = to]
  PROVE  /\ slotState[s] = "open" => Cardinality(Open') = Cardinality(Open) - 1
                                /\ Cardinality(Open) > 0
         /\ slotState[s] # "open" => Cardinality(Open') = Cardinality(Open)
<1>1. CASE slotState[s] = "open"
  <2>1. Open' = Open \ {s} /\ s \in Open
    BY <1>1 DEF Open
  <2>2. Cardinality(Open') = Cardinality(Open) - 1
    BY <2>1, OpenIsFinite, FS_RemoveElement
  <2>3. Cardinality(Open) # 0
    BY <2>1, OpenIsFinite, FS_EmptySet
  <2> QED
    BY <1>1, <2>2, <2>3, OpenIsFinite
<1>2. CASE slotState[s] # "open"
  <2>1. Open' = Open
    BY <1>2 DEF Open
  <2> QED
    BY <1>2, <2>1
<1> QED
  BY <1>1, <1>2

-----------------------------------------------------------------------------
(* The slots: types of their variables, the count and the streak.          *)

SlotInv ==
    /\ state \in {"RUNNING", "HALTED"}
    /\ failures \in Nat
    /\ inFlight \in Nat
    /\ slotState \in [Slots -> {"none", "open", "settled"}]
    /\ ExposureBounded
    /\ BreakerTrips

\* The gate boots with no slot.
LEMMA SlotInvInit == GateInit => SlotInv
<1> SUFFICES ASSUME GateInit PROVE SlotInv
  OBVIOUS
<1>1. Open = {}
  BY DEF GateInit, Open
<1> QED
  BY <1>1, CapAssumption, FS_EmptySet
     DEF GateInit, SlotInv, ExposureBounded, BreakerTrips

(* Settling a slot, by its own exit path or by the backstop.               *)
LEMMA SettleKeepsSlotInv ==
  ASSUME SlotInv,
         NEW s \in Slots, NEW outcome \in GateOutcomes,
         NEW to \in {"none", "settled"},
         SettleEffect(s, outcome),
         slotState' = [slotState EXCEPT ![s] = to]
  PROVE  SlotInv'
<1> USE DEF SlotInv, ExposureBounded, BreakerTrips
<1>1. slotState' \in [Slots -> {"none", "open", "settled"}]
  OBVIOUS
<1>2. CASE slotState[s] = "open"
  <2>1. Release(outcome)
    BY <1>2 DEF SettleEffect
  <2>2. /\ Cardinality(Open') = Cardinality(Open) - 1
        /\ Cardinality(Open) > 0
    BY <1>2, CloseRemoves
  <2>3. inFlight' \in Nat /\ inFlight' = Cardinality(Open') /\ inFlight' <= MaxInFlight
    BY <2>1, <2>2, CapAssumption DEF Release
  <2>4. failures' = CASE outcome = "ok" -> 0
                      [] outcome = "failed" -> failures + 1
                      [] OTHER -> failures
    BY <2>1 DEF Release
  <2>5. state' = IF outcome = "failed" /\ failures' >= MaxFailures
                 THEN "HALTED" ELSE state
    BY <2>1 DEF Release
  <2>6. CASE outcome = "ok"
    BY <2>4, <2>5, <2>6, CapAssumption, <1>1, <2>3
  <2>7. CASE outcome = "failed"
    BY <2>4, <2>5, <2>7, CapAssumption, <1>1, <2>3
  <2>8. CASE outcome # "ok" /\ outcome # "failed"
    BY <2>4, <2>5, <2>8, CapAssumption, <1>1, <2>3
  <2> QED
    BY <2>6, <2>7, <2>8
<1>3. CASE slotState[s] # "open"
  <2>1. UNCHANGED <<inFlight, failures, state>>
    BY <1>3 DEF SettleEffect
  <2>2. Cardinality(Open') = Cardinality(Open)
    BY <1>3, CloseRemoves
  <2> QED
    BY <1>1, <2>1, <2>2
<1> QED
  BY <1>2, <1>3

\* So does every step.
LEMMA SlotInvNext == SlotInv /\ [GateNext]_gateVars => SlotInv'
<1> SUFFICES ASSUME SlotInv, [GateNext]_gateVars PROVE SlotInv'
  OBVIOUS
<1>0. /\ slotState \in [Slots -> {"none", "open", "settled"}]
      /\ inFlight \in Nat /\ failures \in Nat
  BY DEF SlotInv
<1>1. ASSUME UNCHANGED <<failures, inFlight, slotState>>,
             \/ UNCHANGED state
             \/ state' = "HALTED"
      PROVE  SlotInv'
  BY <1>1 DEF SlotInv, ExposureBounded, BreakerTrips, Open
<1>2. ASSUME NEW s \in Slots, GateOpenSlot(s) PROVE SlotInv'
  <2>1. Cardinality(Open') = Cardinality(Open) + 1
    BY <1>0, <1>2, OpenAdds DEF GateOpenSlot
  <2> QED
    BY <1>2, <2>1, CapAssumption
       DEF GateOpenSlot, Evaluate, SlotInv, ExposureBounded, BreakerTrips
<1>3. ASSUME NEW s \in Slots, NEW outcome \in GateOutcomes, GateSettle(s, outcome)
      PROVE  SlotInv'
  BY <1>3, SettleKeepsSlotInv DEF GateSettle
<1>4. ASSUME NEW s \in Slots, NEW outcome \in GateOutcomes, GateBackstop(s, outcome)
      PROVE  SlotInv'
  BY <1>4, SettleKeepsSlotInv DEF GateBackstop
<1>5. CASE Halt
  BY <1>1, <1>5 DEF Halt
<1>6. CASE Resume
  BY <1>6, CapAssumption
     DEF Resume, Resumed, SlotInv, ExposureBounded, BreakerTrips, Open
<1>7. ASSUME NEW p \in Passes, BeginPass(p) PROVE SlotInv'
  BY <1>1, <1>7 DEF BeginPass, switchVars
<1>8. ASSUME NEW p \in Passes, NEW a \in Pinned, Read(p, a) PROVE SlotInv'
  BY <1>1, <1>8 DEF Read, switchVars
<1>9. ASSUME NEW p \in Passes, NEW a \in Pinned, FailedRead(p, a) PROVE SlotInv'
  BY <1>1, <1>9 DEF FailedRead, switchVars
<1>10. ASSUME NEW p \in Passes, Conclude(p) PROVE SlotInv'
  BY <1>1, <1>10
     DEF Conclude, ConcludeMismatch, ConcludeFailed, ConcludeClean, HaltForCode
<1>11. ASSUME NEW a \in Pinned, Upgrade(a) \/ Restore(a) PROVE SlotInv'
  BY <1>1, <1>11 DEF Upgrade, Restore, switchVars
<1>12. CASE UNCHANGED gateVars
  BY <1>1, <1>12 DEF gateVars, switchVars
<1> QED
  BY <1>2, <1>3, <1>4, <1>5, <1>6, <1>7, <1>8, <1>9, <1>10, <1>11, <1>12
     DEF GateNext, SlotNext, PassNext, WorldNext

-----------------------------------------------------------------------------
(* The guard: types of its variables and GuardInv.                         *)

PassTypes ==
    /\ codeHashHalt \in BOOLEAN
    /\ everVerified \in BOOLEAN
    /\ booted \in BOOLEAN
    /\ reading \in SUBSET Passes
    /\ got \in [Passes -> [Pinned -> Readings]]
    /\ overtaken \in SUBSET Passes
    /\ sound \in [Pinned -> BOOLEAN]
    /\ trouble \in 0..MaxTrouble
    /\ caught \in SUBSET Pinned

\* A gate that boots has caught nothing and verified nothing.
LEMMA GuardInit == GateInit => PassTypes /\ GuardInv
<1> SUFFICES ASSUME GateInit PROVE PassTypes /\ GuardInv
  OBVIOUS
<1>1. booted \in BOOLEAN /\ (Pinned # {} => ~booted)
  BY Zenon DEF GateInit
<1>2. PassTypes
  <2>1. got \in [Passes -> [Pinned -> Readings]] /\ trouble \in 0..MaxTrouble
    BY TroubleAssumption DEF GateInit, Readings
  <2>2. codeHashHalt \in BOOLEAN /\ everVerified \in BOOLEAN
    BY Zenon DEF GateInit
  <2>3. reading \in SUBSET Passes /\ overtaken \in SUBSET Passes
        /\ caught \in SUBSET Pinned
    BY DEF GateInit
  <2>4. sound \in [Pinned -> BOOLEAN]
    BY Zenon DEF GateInit
  <2> QED
    BY <1>1, <2>1, <2>2, <2>3, <2>4, Zenon DEF PassTypes
<1>3. GuardInv
  BY <1>1
     DEF GateInit, GuardInv, CodeHaltHalts, CaughtIsChanged, CaughtHoldsHalt,
         FreshPassesSee, UnverifiedHolds
<1> QED
  BY <1>2, <1>3

\* Every step keeps the types of the passes.
LEMMA PassTypesNext == PassTypes /\ [GateNext]_gateVars => PassTypes'
<1> SUFFICES ASSUME PassTypes, [GateNext]_gateVars PROVE PassTypes'
  OBVIOUS
<1> USE DEF PassTypes
<1>1. ASSUME UNCHANGED <<codeHashHalt, everVerified, passVars, worldVars>>
      PROVE  PassTypes'
  BY <1>1 DEF passVars, worldVars
<1>2. ASSUME NEW s \in Slots, GateOpenSlot(s) PROVE PassTypes'
  BY <1>1, <1>2 DEF GateOpenSlot
<1>3. ASSUME NEW s \in Slots, NEW outcome \in GateOutcomes,
             GateSettle(s, outcome) \/ GateBackstop(s, outcome)
      PROVE  PassTypes'
  BY <1>1, <1>3 DEF GateSettle, GateBackstop
<1>4. CASE Halt \/ Resume
  BY <1>1, <1>4 DEF Halt, Resume
<1>5. ASSUME NEW p \in Passes, BeginPass(p) PROVE PassTypes'
  BY <1>5 DEF BeginPass, CaughtUp, Readings, switchVars, worldVars
<1>6. ASSUME NEW p \in Passes, NEW a \in Pinned, Read(p, a) PROVE PassTypes'
  BY <1>6 DEF Read, Readings, switchVars, worldVars
<1>7. ASSUME NEW p \in Passes, NEW a \in Pinned, FailedRead(p, a)
      PROVE  PassTypes'
  <2>1. trouble' \in 0..MaxTrouble
    BY <1>7, TroubleAssumption DEF FailedRead
  <2>2. got' \in [Passes -> [Pinned -> Readings]]
    BY <1>7 DEF FailedRead, Readings
  <2> QED
    BY <1>7, <2>1, <2>2 DEF FailedRead, switchVars
<1>8. ASSUME NEW p \in Passes, Conclude(p) PROVE PassTypes'
  <2>1. /\ codeHashHalt' \in BOOLEAN
        /\ everVerified' \in BOOLEAN
        /\ overtaken' \in SUBSET Passes
        /\ caught' \in SUBSET Pinned
    BY <1>8
       DEF Conclude, ConcludeMismatch, ConcludeFailed, ConcludeClean, HaltForCode
  <2> QED
    BY <1>8, <2>1 DEF Conclude
<1>9. ASSUME NEW a \in Pinned, Upgrade(a) PROVE PassTypes'
  <2>1. trouble' \in 0..MaxTrouble
    BY <1>9, TroubleAssumption DEF Upgrade
  <2> QED
    BY <1>9, <2>1 DEF Upgrade, switchVars, passVars
<1>10. ASSUME NEW a \in Pinned, Restore(a) PROVE PassTypes'
  BY <1>10 DEF Restore, switchVars, passVars
<1>11. CASE UNCHANGED gateVars
  BY <1>1, <1>11 DEF gateVars, switchVars
<1> QED
  BY <1>2, <1>3, <1>4, <1>5, <1>6, <1>7, <1>8, <1>9, <1>10, <1>11
     DEF GateNext, SlotNext, PassNext, WorldNext

(* The conclusion of a pass, by what it read.                              *)
LEMMA ConcludeKeepsGuardInv ==
  ASSUME PassTypes, GuardInv, NEW p \in Passes, Conclude(p)
  PROVE  GuardInv'
<1> USE DEF PassTypes, GuardInv, CodeHaltHalts, CaughtIsChanged, CaughtHoldsHalt,
            FreshPassesSee, UnverifiedHolds
<1>1. /\ p \in reading
      /\ reading' = reading \ {p}
      /\ booted' = TRUE
      /\ UNCHANGED <<got, sound>>
  BY DEF Conclude
<1>2. CASE ConcludeMismatch(p)
  \* Whatever still reads has now been overtaken.
  BY <1>1, <1>2 DEF ConcludeMismatch, HaltForCode
<1>3. CASE ConcludeFailed(p)
  BY <1>1, <1>3 DEF ConcludeFailed, HaltForCode, NeverVerified
<1>4. CASE ConcludeClean(p)
  \* A pass that may clear the halt has seen no caught contract.
  <2>1. \A a \in Pinned : got[p][a] = "match"
    BY <1>4 DEF ConcludeClean
  <2>2. p \notin overtaken => caught = {}
    BY <1>1, <2>1
  <2>3. /\ codeHashHalt' = (codeHashHalt /\ ~(p \notin overtaken))
        /\ everVerified' = TRUE
        /\ UNCHANGED <<state, overtaken, caught>>
    BY <1>4 DEF ConcludeClean, MayClear
  <2> QED
    BY <1>1, <2>2, <2>3
<1> QED
  BY <1>2, <1>3, <1>4 DEF Conclude

\* So does every step.
LEMMA GuardInvNext == PassTypes /\ GuardInv /\ [GateNext]_gateVars => GuardInv'
<1> SUFFICES ASSUME PassTypes, GuardInv, [GateNext]_gateVars PROVE GuardInv'
  OBVIOUS
<1> USE DEF PassTypes, GuardInv, CodeHaltHalts, CaughtIsChanged, CaughtHoldsHalt,
            FreshPassesSee, UnverifiedHolds
<1>1. ASSUME UNCHANGED <<codeHashHalt, everVerified, passVars, worldVars>>,
             UNCHANGED state \/ state' = "HALTED" \/ ~codeHashHalt
      PROVE  GuardInv'
  BY <1>1 DEF passVars, worldVars
<1>2. ASSUME NEW s \in Slots, GateOpenSlot(s) PROVE GuardInv'
  BY <1>1, <1>2 DEF GateOpenSlot
<1>3. ASSUME NEW s \in Slots, NEW outcome \in GateOutcomes,
             GateSettle(s, outcome) \/ GateBackstop(s, outcome)
      PROVE  GuardInv'
  <2>1. UNCHANGED state \/ state' = "HALTED"
    BY <1>3 DEF GateSettle, GateBackstop, SettleEffect, Release
  <2> QED
    BY <1>1, <1>3, <2>1 DEF GateSettle, GateBackstop
<1>4. CASE Halt \/ Resume
  BY <1>1, <1>4 DEF Halt, Resume
<1>5. ASSUME NEW p \in Passes, BeginPass(p) PROVE GuardInv'
  \* A new pass has read nothing yet.
  <2>1. \A a \in Pinned : got'[p][a] = "unread"
    BY <1>5 DEF BeginPass
  <2>2. \A q \in Passes \ {p} : got'[q] = got[q]
    BY <1>5 DEF BeginPass
  <2>3. FreshPassesSee'
    BY <1>5, <2>1, <2>2 DEF BeginPass, CaughtUp, worldVars
  <2> QED
    BY <1>5, <2>3 DEF BeginPass, switchVars, worldVars
<1>6. ASSUME NEW p \in Passes, NEW a \in Pinned, Read(p, a) PROVE GuardInv'
  \* A caught contract is changed, so it is read as a mismatch.
  <2>1. a \in caught => got'[p][a] = "mismatch"
    BY <1>6 DEF Read
  <2>2. \A q \in Passes, b \in Pinned :
           q # p \/ b # a => got'[q][b] = got[q][b]
    BY <1>6 DEF Read
  <2>3. FreshPassesSee'
    BY <1>6, <2>1, <2>2 DEF Read, worldVars
  <2> QED
    BY <1>6, <2>3 DEF Read, switchVars, worldVars
<1>7. ASSUME NEW p \in Passes, NEW a \in Pinned, FailedRead(p, a)
      PROVE  GuardInv'
  <2>1. got'[p][a] = "failed"
    BY <1>7 DEF FailedRead
  <2>2. \A q \in Passes, b \in Pinned :
           q # p \/ b # a => got'[q][b] = got[q][b]
    BY <1>7 DEF FailedRead
  <2>3. FreshPassesSee'
    BY <1>7, <2>1, <2>2 DEF FailedRead
  <2> QED
    BY <1>7, <2>3 DEF FailedRead, switchVars
<1>8. ASSUME NEW p \in Passes, Conclude(p) PROVE GuardInv'
  BY <1>8, ConcludeKeepsGuardInv
<1>9. ASSUME NEW a \in Pinned, Upgrade(a) PROVE GuardInv'
  BY <1>9 DEF Upgrade, switchVars, passVars
<1>10. ASSUME NEW a \in Pinned, Restore(a) PROVE GuardInv'
  BY <1>10 DEF Restore, switchVars, passVars
<1>11. CASE UNCHANGED gateVars
  BY <1>1, <1>11 DEF gateVars, switchVars
<1> QED
  BY <1>2, <1>3, <1>4, <1>5, <1>6, <1>7, <1>8, <1>9, <1>10, <1>11
     DEF GateNext, SlotNext, PassNext, WorldNext

-----------------------------------------------------------------------------
(* Every behaviour of the gate keeps the whole invariant: the counter and  *)
(* the streak of the slots, the types of the passes and GuardInv.          *)
THEOREM GateInvHolds == GateSpec => []GateInv
<1>1. GateInit => SlotInv /\ PassTypes /\ GuardInv
  BY SlotInvInit, GuardInit
<1>2. SlotInv /\ PassTypes /\ GuardInv /\ [GateNext]_gateVars
        => (SlotInv /\ PassTypes /\ GuardInv)'
  BY SlotInvNext, PassTypesNext, GuardInvNext
<1>3. SlotInv /\ PassTypes /\ GuardInv => GateInv
  BY DEF SlotInv, PassTypes, GateInv, GateTypeOK
<1> QED
  BY <1>1, <1>2, <1>3, PTL DEF GateSpec

(* Every variable of the gate keeps its type; in particular the exposure   *)
(* counter never goes below zero (gate.ts release).                        *)
THEOREM GateTypeCorrect == GateSpec => []GateTypeOK
BY GateInvHolds, PTL DEF GateInv

(* The exposure counter is the number of open slots and stays within       *)
(* maxInFlight (gate.ts openSlot, settle, resume).                         *)
THEOREM ExposureIsBounded == GateSpec => []ExposureBounded
BY GateInvHolds, PTL DEF GateInv

(* A gate that runs has failures to spare (gate.ts release, resume).       *)
THEOREM BreakerDoesTrip == GateSpec => []BreakerTrips
BY GateInvHolds, PTL DEF GateInv

(* A contract found changed keeps the gate halted until it is put back,    *)
(* whatever passes overlap and whatever the operator posts (gate.ts        *)
(* verifyCode, resume).                                                    *)
THEOREM CaughtMeansHalted == GateSpec => []CaughtStaysHalted
<1>1. GuardInv => CaughtStaysHalted
  BY DEF GuardInv, CaughtHoldsHalt, CodeHaltHalts, CaughtStaysHalted
<1> QED
  BY <1>1, GateInvHolds, PTL DEF GateInv

(* With contracts pinned the gate runs only after a clean pass (gate.ts    *)
(* verifyCode, guard.ts).                                                  *)
THEOREM VerifiedBeforeTrading == GateSpec => []NeverVerifiedNeverTrades
<1>1. GateTypeOK /\ GuardInv => NeverVerifiedNeverTrades
  BY DEF GateTypeOK, GuardInv, UnverifiedHolds, CodeHaltHalts,
         NeverVerifiedNeverTrades
<1> QED
  BY <1>1, GateInvHolds, PTL DEF GateInv

-----------------------------------------------------------------------------
(* RiskLedger: types.  Balances read are balances, so capacities are never *)
(* negative figures.                                                       *)

ReadOk == read \in [Engines -> [Accounts -> Nat]]
Typed == TypeOK /\ ReadOk

\* Settling a slot leaves a well-formed ledger.
LEMMA SettleTypes ==
  ASSUME TypeOK, NEW S \in SUBSET Actions, NEW outcome \in Outcomes,
         NEW height \in Height, Settle(S, outcome, height)
  PROVE  /\ slot' \in [Actions -> {"none", "open"} \cup Outcomes]
         /\ owed' \in [Actions -> SUBSET Accounts]
         /\ minedAt' \in [Actions -> Height]
         /\ \A x \in Actions : minedAt'[x] # None => owed'[x] # {}
         /\ UNCHANGED <<available, snapshot>>
<1> QED
  BY DEF TypeOK, Settle, Debts

\* A ledger that boots is well-formed.
LEMMA TypesInit == Init => Typed
<1> QED
  BY LedgerAssumption
     DEF Init, Typed, TypeOK, ReadOk, Height, Labels

\* A refresh leaves it so.
LEMMA RefreshingTypes ==
  ASSUME Typed, NEW e \in Engines, Refreshing(e)
  PROVE  Typed'
<1> USE DEF Typed
<1>1. CASE ReadBalances(e)
  BY <1>1 DEF ReadBalances, TypeOK, ReadOk, Labels, Goto, gate, chain
<1>2. CASE ListOutflows(e)
  BY <1>2 DEF ListOutflows, TypeOK, ReadOk, Labels, Goto, gate, chain, Holds
<1>3. CASE Apply(e)
  <2> DEFINE fresh == {acc \in Covers[e] : Newer(block[e], acc)}
  <2>1. /\ owed' = [x \in Actions |-> Retired(e, x)]
        /\ minedAt' = [x \in Actions |-> HeightLeft(x, owed'[x])]
        /\ available' = [acc \in Accounts |->
                           IF acc \in fresh THEN read[e][acc] ELSE available[acc]]
        /\ snapshot' = [acc \in Accounts |->
                          IF acc \in fresh THEN block[e] ELSE snapshot[acc]]
        /\ settled' = [settled EXCEPT ![e] = {}]
        /\ flying' = [flying EXCEPT ![e] = {}]
        /\ block' = [block EXCEPT ![e] = 0]
        /\ read' = [read EXCEPT ![e] = Funds]
        /\ pc' = [pc EXCEPT ![e] = "send"]
        /\ pc[e] = "receipts"
        /\ UNCHANGED <<slot, cur, sent, todo, chain, faults>>
    BY <1>3 DEF Apply, Goto
  <2>2. owed' \in [Actions -> SUBSET Accounts]
    BY <2>1 DEF TypeOK, Retired
  <2>3. /\ minedAt' \in [Actions -> Height]
        /\ \A x \in Actions : minedAt'[x] # None => owed'[x] # {}
    BY <2>1 DEF TypeOK, HeightLeft, Height
  <2>4. /\ available' \in [Accounts -> Nat \cup {None}]
        /\ snapshot' \in [Accounts -> Height]
    BY <2>1 DEF TypeOK, ReadOk, Height
  <2>5. read' \in [Engines -> [Accounts -> Nat]]
    BY <2>1, LedgerAssumption DEF ReadOk
  <2> HIDE DEF fresh
  <2>6. /\ pc' \in [Engines -> Labels]
        /\ \A x \in Engines :
              cur'[x] \in IF pc'[x] = "commit" THEN Actions ELSE {None}
        /\ settled' \in [Engines -> SUBSET Actions]
        /\ flying' \in [Engines -> SUBSET Actions]
        /\ block' \in [Engines -> Nat]
    BY <2>1 DEF TypeOK, Labels
  <2> QED
    BY <2>1, <2>2, <2>3, <2>4, <2>5, <2>6 DEF TypeOK, ReadOk, chain
<1>4. ASSUME NEW x \in Actions, JudgeReceipt(e, x) \/ FailReceipt(e, x)
      PROVE  Typed'
  <2>1. /\ todo' \in [Engines -> SUBSET Actions]
        /\ settled' \in [Engines -> SUBSET Actions]
        /\ faults' \in 0..MaxFaults
    <3>1. /\ todo' = [todo EXCEPT ![e] = todo[e] \ {x}]
          /\ todo[e] \subseteq Actions /\ settled[e] \subseteq Actions
      BY <1>4 DEF JudgeReceipt, FailReceipt, Judged, TypeOK
    <3>2. \/ settled' = settled
          \/ settled' = [settled EXCEPT ![e] = settled[e] \cup {x}]
      BY <1>4 DEF JudgeReceipt, FailReceipt, TypeOK
    <3>3. settled[e] \cup {x} \in SUBSET Actions /\ todo[e] \ {x} \in SUBSET Actions
      BY <3>1
    <3>4. faults' \in 0..MaxFaults
      BY <1>4, LedgerAssumption DEF JudgeReceipt, FailReceipt, TypeOK
    <3>5. todo' \in [Engines -> SUBSET Actions]
      BY <3>1, <3>3 DEF TypeOK
    <3>6. settled \in [Engines -> SUBSET Actions]
      BY DEF TypeOK
    <3>7. settled' \in [Engines -> SUBSET Actions]
      BY ONLY <3>2, <3>3, <3>6
    <3> QED
      BY <3>4, <3>5, <3>7
  <2>2. UNCHANGED <<gate, slot, pc, cur, sent, block, read, flying, chain>>
    BY <1>4 DEF JudgeReceipt, FailReceipt
  <2> QED
    BY <2>1, <2>2 DEF TypeOK, ReadOk, gate, chain
<1> QED
  BY <1>1, <1>2, <1>3, <1>4 DEF Refreshing

\* commit has answered: the engine is about no action any more.
LEMMA AnsweredTypes ==
  ASSUME TypeOK, NEW e \in Engines,
         cur' = [cur EXCEPT ![e] = None],
         \/ pc' = [pc EXCEPT ![e] = "send"]
         \/ pc' = [pc EXCEPT ![e] = "wait"]
  PROVE  /\ pc' \in [Engines -> Labels]
         /\ cur' \in [Engines -> Actions \cup {None}]
         /\ \A y \in Engines :
               cur'[y] \in IF pc'[y] = "commit" THEN Actions ELSE {None}
<1>1. /\ pc \in [Engines -> Labels] /\ cur \in [Engines -> Actions \cup {None}]
      /\ \A y \in Engines :
            cur[y] \in IF pc[y] = "commit" THEN Actions ELSE {None}
  BY DEF TypeOK
<1>2. "send" \in Labels /\ "wait" \in Labels
  BY DEF Labels
<1> QED
  BY ONLY <1>1, <1>2, cur' = [cur EXCEPT ![e] = None],
          pc' = [pc EXCEPT ![e] = "send"] \/ pc' = [pc EXCEPT ![e] = "wait"]

\* So does sending.
LEMMA SendingTypes ==
  ASSUME Typed, NEW e \in Engines, Sending(e)
  PROVE  Typed'
<1> USE DEF Typed
<1>1. ASSUME NEW x \in Actions, OpenSlot(e, x)
      PROVE  Typed'
  <2>1. /\ slot' = [slot EXCEPT ![x] = "open"]
        /\ cur' = [cur EXCEPT ![e] = x]
        /\ pc' = [pc EXCEPT ![e] = "commit"]
        /\ UNCHANGED <<gate, sent, refresh, chain, faults>>
    BY <1>1 DEF OpenSlot, Goto
  <2>2. /\ slot' \in [Actions -> {"none", "open"} \cup Outcomes]
        /\ cur' \in [Engines -> Actions \cup {None}]
        /\ pc' \in [Engines -> Labels]
    BY <2>1 DEF TypeOK, Labels
  <2>3. \A y \in Engines :
           cur'[y] \in IF pc'[y] = "commit" THEN Actions ELSE {None}
    BY <2>1 DEF TypeOK
  <2> QED
    BY <2>1, <2>2, <2>3 DEF TypeOK, ReadOk, gate, refresh, chain
<1>2. ASSUME NEW x \in Actions, Receipt(e, x)
      PROVE  Typed'
  <2>1. \E outcome \in Outcomes, height \in Height :
           Settle({x}, outcome, height)
    BY <1>2 DEF Receipt, Outcomes, TypeOK, Height
  <2>2. /\ slot' \in [Actions -> {"none", "open"} \cup Outcomes]
        /\ owed' \in [Actions -> SUBSET Accounts]
        /\ minedAt' \in [Actions -> Height]
        /\ \A y \in Actions : minedAt'[y] # None => owed'[y] # {}
        /\ UNCHANGED <<available, snapshot>>
    BY <2>1, SettleTypes
  <2> QED
    BY <1>2, <2>2 DEF Receipt, TypeOK, ReadOk, refresh, chain
<1>3. CASE CommitBroadcast(e)
  <2>1. /\ pc[e] = "commit" /\ cur[e] \in Actions
        /\ tx' = [tx EXCEPT ![cur[e]] = "pool"]
        /\ live' = live \cup {cur[e]}
        /\ sent' = [sent EXCEPT ![e] = sent[e] \cup {cur[e]}]
        /\ pc' = [pc EXCEPT ![e] = "send"]
        /\ cur' = [cur EXCEPT ![e] = None]
        /\ UNCHANGED <<gate, slot, refresh, balance, head, txBlock, faults>>
    BY <1>3 DEF CommitBroadcast, TypeOK, Goto, Record
  <2>2. /\ pc' \in [Engines -> Labels]
        /\ cur' \in [Engines -> Actions \cup {None}]
        /\ \A y \in Engines :
              cur'[y] \in IF pc'[y] = "commit" THEN Actions ELSE {None}
    BY <2>1, AnsweredTypes
  <2>3. sent[e] \cup {cur[e]} \in SUBSET Actions /\ live' \subseteq Actions
    BY <2>1 DEF TypeOK
  <2>4. sent' \in [Engines -> SUBSET Actions]
    BY <2>1, <2>3 DEF TypeOK
  <2>5. tx' \in [Actions -> {"none", "pool", "success", "reverted", "gone"}]
    BY <2>1 DEF TypeOK
  <2> QED
    BY <2>1, <2>2, <2>3, <2>4, <2>5 DEF TypeOK, ReadOk, gate, refresh
<1>4. CASE CommitAmbiguous(e)
  <2>1. /\ cur[e] \in Actions /\ pc[e] = "commit"
        /\ live' = live \cup {cur[e]}
        /\ pc' = [pc EXCEPT ![e] = "wait"]
        /\ cur' = [cur EXCEPT ![e] = None]
        /\ Settle({cur[e]}, "unresolved", None)
        /\ UNCHANGED <<sent, refresh, balance, head, txBlock, faults>>
    BY <1>4 DEF CommitAmbiguous, Aborted, Record, Goto, TypeOK
  <2>2. \E fate \in {"pool", "gone"} : tx' = [tx EXCEPT ![cur[e]] = fate]
    BY <1>4 DEF CommitAmbiguous
  <2>3. /\ slot' \in [Actions -> {"none", "open"} \cup Outcomes]
        /\ owed' \in [Actions -> SUBSET Accounts]
        /\ minedAt' \in [Actions -> Height]
        /\ \A y \in Actions : minedAt'[y] # None => owed'[y] # {}
        /\ UNCHANGED <<available, snapshot>>
    BY <2>1, SettleTypes DEF Outcomes, Height
  <2>4. /\ pc' \in [Engines -> Labels]
        /\ cur' \in [Engines -> Actions \cup {None}]
        /\ \A y \in Engines :
              cur'[y] \in IF pc'[y] = "commit" THEN Actions ELSE {None}
    BY <2>1, AnsweredTypes
  <2>5. tx' \in [Actions -> {"none", "pool", "success", "reverted", "gone"}]
    BY <2>1, <2>2 DEF TypeOK
  <2>6. live' \subseteq Actions
    BY <2>1 DEF TypeOK
  <2> QED
    BY <2>1, <2>3, <2>4, <2>5, <2>6 DEF TypeOK, ReadOk, refresh
<1>5. CASE CommitNothing(e)
  <2>1. cur[e] \in Actions /\ pc[e] = "commit"
    BY <1>5 DEF CommitNothing, TypeOK
  <2>2. Settle({cur[e]}, "abandoned", None)
    BY <1>5 DEF CommitNothing, Aborted
  <2>3. /\ slot' \in [Actions -> {"none", "open"} \cup Outcomes]
        /\ owed' \in [Actions -> SUBSET Accounts]
        /\ minedAt' \in [Actions -> Height]
        /\ \A y \in Actions : minedAt'[y] # None => owed'[y] # {}
        /\ UNCHANGED <<available, snapshot>>
    BY <2>1, <2>2, SettleTypes DEF Outcomes, Height
  <2> QED
    BY <1>5, <2>1, <2>3
       DEF CommitNothing, TypeOK, ReadOk, Labels, Goto, refresh, chain
<1>6. CASE ClaimThrows(e)
  <2>1. cur[e] \in Actions /\ pc[e] = "commit"
    BY <1>6 DEF ClaimThrows, TypeOK
  <2>2. \E S \in SUBSET Actions, outcome \in Outcomes : Settle(S, outcome, None)
    BY <1>6, <2>1 DEF ClaimThrows, Outcomes, TypeOK
  <2>3. /\ slot' \in [Actions -> {"none", "open"} \cup Outcomes]
        /\ owed' \in [Actions -> SUBSET Accounts]
        /\ minedAt' \in [Actions -> Height]
        /\ \A y \in Actions : minedAt'[y] # None => owed'[y] # {}
        /\ UNCHANGED <<available, snapshot>>
    BY <2>2, SettleTypes DEF Height
  <2> QED
    BY <1>6, <2>1, <2>3
       DEF ClaimThrows, TypeOK, ReadOk, Labels, Goto, refresh, chain
<1>7. CASE EndSend(e) \/ EndCycle(e)
  BY <1>7 DEF EndSend, EndCycle, TypeOK, ReadOk, Labels, Goto, gate, refresh,
              chain
<1> QED
  BY <1>1, <1>2, <1>3, <1>4, <1>5, <1>6, <1>7 DEF Sending

\* So does the chain.
LEMMA ChainTypes ==
  ASSUME Typed, NEW x \in Actions,
         \/ \E result \in {"success", "reverted"} : MineTx(x, result)
         \/ Drop(x) \/ Resolve(x)
  PROVE  Typed'
<1> USE DEF Typed
<1>1. ASSUME NEW result \in {"success", "reverted"}, MineTx(x, result)
      PROVE  Typed'
  <2>1. balance' \in [Accounts -> Nat]
    <3>1. Cost[x] \in [Accounts -> Nat] /\ balance \in [Accounts -> Nat]
      BY LedgerAssumption DEF TypeOK
    <3>2. CASE result = "success"
      <4>1. /\ \A acc \in Accounts : Cost[x][acc] <= balance[acc]
            /\ balance' = [acc \in Accounts |-> balance[acc] - Cost[x][acc]]
        BY <1>1, <3>2 DEF MineTx
      <4>2. \A acc \in Accounts : balance[acc] - Cost[x][acc] \in Nat
        BY <3>1, <4>1
      <4> QED
        BY <4>1, <4>2
    <3>3. CASE result # "success"
      BY <1>1, <3>1, <3>3 DEF MineTx
    <3> QED
      BY <3>2, <3>3
  <2> QED
    BY <1>1, <2>1 DEF MineTx, TypeOK, ReadOk, Height, gate, refresh
<1>2. CASE Drop(x) \/ Resolve(x)
  BY <1>2 DEF Drop, Resolve, TypeOK, ReadOk, gate, refresh
<1> QED
  BY <1>1, <1>2

\* Every behaviour keeps the types.
LEMMA TypedHolds == Spec => []Typed
<1>1. Typed /\ [Next]_vars => Typed'
  <2> SUFFICES ASSUME Typed, [Next]_vars PROVE Typed'
    OBVIOUS
  <2>1. CASE UNCHANGED vars
    BY <2>1 DEF vars, gate, refresh, chain, Typed, TypeOK, ReadOk
  <2> QED
    BY <2>1, RefreshingTypes, SendingTypes, ChainTypes DEF Next, Chain
<1> QED
  BY <1>1, TypesInit, PTL DEF Spec

(* Every variable of the ledger keeps its type, an engine commits one      *)
(* action at a time, and a height on record always belongs to a hold       *)
(* (gate.ts settle, applySnapshot).                                        *)
THEOREM TypeCorrect == Spec => []TypeOK
<1>1. Typed => TypeOK
  BY DEF Typed
<1> QED
  BY <1>1, TypedHolds, PTL

-----------------------------------------------------------------------------
(* The ledger.  A claim that throws may settle broadcast actions as        *)
(* abandoned where sendAll's finally does so; nothing below holds then, as *)
(* the run LedgerThrow shows, so the store is taken not to fail there.     *)

Orderly == \A e \in StoreFails : Backstop[e] = "unresolved"

Final == {"success", "reverted", "gone"}

\* The action an engine commits is open and not sent, and it is its own.
CommitInv == \A e \in Engines : pc[e] = "commit" =>
    /\ slot[cur[e]] = "open"
    /\ tx[cur[e]] = "none"
    /\ EngineOf[cur[e]] = e

\* What an engine awaits was sent, and a row may be mined only while in flight.
SentInv == /\ \A e \in Engines : \A x \in sent[e] : tx[x] # "none"
           /\ \A x \in Actions : tx[x] = "pool" => x \in live

\* A hold is a transaction's; its height is the transaction's.
HoldInv == \A x \in Actions :
    /\ owed[x] # {} => tx[x] # "none"
    /\ tx[x] = "success" => txBlock[x] \in Nat
    /\ minedAt[x] # None => tx[x] = "success" /\ minedAt[x] = txBlock[x]

\* A refresh finds settled only what is final by its height, and what it has
\* yet to judge and is not in flight is final already.
PassInv == \A e \in Engines :
    /\ pc[e] # "receipts" => todo[e] = {} /\ settled[e] = {}
    /\ \A x \in settled[e] : /\ tx[x] \in Final
                             /\ tx[x] = "success" => txBlock[x] <= block[e]
    /\ \A x \in todo[e] : x \in flying[e] \/ tx[x] \in Final

Counted(x, acc) ==
    Cost[x][acc] > 0 /\ tx[x] \in {"pool", "success"} =>
        \/ slot[x] = "open"
        \/ acc \in owed[x]
        \/ /\ tx[x] = "success"
           /\ snapshot[acc] # None
           /\ snapshot[acc] >= txBlock[x]

Inv == /\ CommitInv /\ SentInv /\ HoldInv /\ PassInv
       /\ SpendIsCounted
       /\ AbandonedMeansUnsent

\* A ledger that boots counts nothing and has nothing to count.
LEMMA InvInit == Init => Inv
<1> QED
  BY LedgerAssumption
     DEF Init, Inv, CommitInv, SentInv, HoldInv, PassInv, SpendIsCounted,
         AbandonedMeansUnsent

-----------------------------------------------------------------------------
(* A refresh.                                                              *)

\* The balances are read, and the height they are read at.
LEMMA ReadKeeps ==
  ASSUME TypeOK, Inv, NEW e \in Engines, ReadBalances(e)
  PROVE  Inv'
<1> USE DEF ReadBalances, Goto, gate, chain
<1>1. CommitInv' /\ SentInv' /\ HoldInv'
  BY DEF Inv, CommitInv, SentInv, HoldInv, TypeOK
<1>2. PassInv'
  BY DEF Inv, PassInv, TypeOK
<1>3. SpendIsCounted' /\ AbandonedMeansUnsent'
  BY DEF Inv, SpendIsCounted, AbandonedMeansUnsent
<1> QED
  BY <1>1, <1>2, <1>3 DEF Inv

\* The rows are read before any receipt, so a hold without a row is final.
LEMMA ListKeeps ==
  ASSUME TypeOK, Inv, NEW e \in Engines, ListOutflows(e)
  PROVE  Inv'
<1> USE DEF ListOutflows, Goto, gate, chain
<1>1. CommitInv' /\ SentInv' /\ HoldInv'
  BY DEF Inv, CommitInv, SentInv, HoldInv, TypeOK
<1>2. PassInv'
  <2> SUFFICES ASSUME NEW y \in Engines
               PROVE  /\ pc'[y] # "receipts" => todo'[y] = {} /\ settled'[y] = {}
                      /\ \A x \in settled'[y] :
                            /\ tx'[x] \in Final
                            /\ tx'[x] = "success" => txBlock'[x] <= block'[y]
                      /\ \A x \in todo'[y] : x \in flying'[y] \/ tx'[x] \in Final
    BY DEF PassInv
  <2>1. CASE y = e
    <3>1. /\ pc'[e] = "receipts"
          /\ todo'[e] = {x \in Holds : minedAt[x] = None}
          /\ settled'[e] = {x \in Holds : Reported(x, block[e])}
          /\ flying'[e] = live
      BY DEF TypeOK
    <3>2. \A x \in settled'[e] : /\ tx[x] \in Final
                                 /\ tx[x] = "success" => txBlock[x] <= block[e]
      BY <3>1 DEF Inv, HoldInv, Holds, Reported, Final
    <3>3. \A x \in todo'[e] : x \in live \/ tx[x] \in Final
      BY <3>1 DEF Inv, HoldInv, SentInv, Holds, Final, TypeOK
    <3> QED
      BY <2>1, <3>1, <3>2, <3>3
  <2>2. CASE y # e
    BY <2>2 DEF Inv, PassInv, TypeOK
  <2> QED
    BY <2>1, <2>2
<1>3. SpendIsCounted' /\ AbandonedMeansUnsent'
  BY DEF Inv, SpendIsCounted, AbandonedMeansUnsent
<1> QED
  BY <1>1, <1>2, <1>3 DEF Inv

\* A receipt is judged, or its read fails.
LEMMA JudgeKeeps ==
  ASSUME TypeOK, Inv, NEW e \in Engines, NEW x \in Actions,
         JudgeReceipt(e, x) \/ FailReceipt(e, x)
  PROVE  Inv'
<1>1. /\ UNCHANGED <<gate, slot, pc, cur, sent, block, read, flying, chain>>
      /\ pc[e] = "receipts" /\ x \in todo[e]
      /\ todo' = [todo EXCEPT ![e] = @ \ {x}]
      /\ \/ settled' = settled
         \/ SettledBy(e, x) /\ settled' = [settled EXCEPT ![e] = @ \cup {x}]
  BY DEF JudgeReceipt, FailReceipt, Judged, TypeOK
<1> USE <1>1 DEF gate, chain
<1>2. CommitInv' /\ SentInv' /\ HoldInv'
  BY DEF Inv, CommitInv, SentInv, HoldInv, TypeOK
<1>3. PassInv'
  <2>1. SettledBy(e, x) => /\ tx[x] \in Final
                           /\ tx[x] = "success" => txBlock[x] <= block[e]
    BY DEF Inv, PassInv, SettledBy, NotComing, Mine, Final
  <2>2. \A y \in Engines : y # e => settled'[y] = settled[y] /\ todo'[y] = todo[y]
    BY DEF TypeOK
  <2>3. /\ todo'[e] \subseteq todo[e]
        /\ \/ settled'[e] = settled[e]
           \/ SettledBy(e, x) /\ settled'[e] = settled[e] \cup {x}
    BY DEF TypeOK
  <2>4. \A y \in Engines :
           /\ pc[y] # "receipts" => todo'[y] = {} /\ settled'[y] = {}
           /\ \A z \in settled'[y] : /\ tx[z] \in Final
                                     /\ tx[z] = "success" => txBlock[z] <= block[y]
           /\ \A z \in todo'[y] : z \in flying[y] \/ tx[z] \in Final
    BY <2>1, <2>2, <2>3 DEF Inv, PassInv
  <2> QED
    BY <2>4 DEF PassInv
<1>4. SpendIsCounted' /\ AbandonedMeansUnsent'
  BY DEF Inv, SpendIsCounted, AbandonedMeansUnsent
<1> QED
  BY <1>2, <1>3, <1>4 DEF Inv

\* A hold retired for an account leaves that account's published figure at the
\* height of this read or a later one, which excludes the spend.
LEMMA ApplyKeeps ==
  ASSUME TypeOK, Inv, NEW e \in Engines, Apply(e)
  PROVE  Inv'
<1> DEFINE fresh == {acc \in Covers[e] : Newer(block[e], acc)}
<1>1. /\ owed' = [x \in Actions |-> Retired(e, x)]
      /\ minedAt' = [x \in Actions |-> HeightLeft(x, owed'[x])]
      /\ snapshot' = [acc \in Accounts |->
                        IF acc \in fresh THEN block[e] ELSE snapshot[acc]]
      /\ settled' = [settled EXCEPT ![e] = {}]
      /\ flying' = [flying EXCEPT ![e] = {}]
      /\ block' = [block EXCEPT ![e] = 0]
      /\ pc' = [pc EXCEPT ![e] = "send"]
      /\ pc[e] = "receipts" /\ todo[e] = {}
      /\ UNCHANGED <<slot, cur, sent, todo, tx, txBlock, live>>
  BY DEF Apply, Goto, chain
<1>2. CommitInv' /\ SentInv'
  BY <1>1 DEF Inv, CommitInv, SentInv, TypeOK
<1>3. HoldInv'
  <2>1. \A x \in Actions : /\ owed'[x] \subseteq owed[x]
                           /\ minedAt'[x] # None => minedAt'[x] = minedAt[x]
    BY <1>1 DEF Retired, HeightLeft
  <2> QED
    BY <1>1, <2>1 DEF Inv, HoldInv
<1>4. PassInv'
  BY <1>1 DEF Inv, PassInv, TypeOK
<1>5. SpendIsCounted'
  <2> SUFFICES ASSUME NEW x \in Actions, NEW acc \in Accounts,
                      Cost[x][acc] > 0, tx[x] \in {"pool", "success"},
                      slot[x] # "open", acc \notin owed'[x]
               PROVE  /\ tx[x] = "success"
                      /\ snapshot'[acc] # None
                      /\ snapshot'[acc] >= txBlock[x]
    BY <1>1 DEF SpendIsCounted
  <2>1. Counted(x, acc)
    BY DEF Inv, SpendIsCounted, Counted
  <2>2. /\ snapshot'[acc] = IF acc \in fresh THEN block[e] ELSE snapshot[acc]
        /\ block[e] \in Nat /\ None \notin Int
        /\ snapshot[acc] \in Nat \cup {None}
        /\ tx[x] = "success" => txBlock[x] \in Nat
    BY <1>1, LedgerAssumption DEF TypeOK, Height, Inv, HoldInv
  <2>3. CASE acc \in owed[x]
    <3>1. x \in settled[e] /\ acc \in Covers[e]
      BY <1>1, <2>3 DEF Retired
    <3>2. tx[x] = "success" /\ txBlock[x] <= block[e]
      BY <3>1 DEF Inv, PassInv, Final
    <3>3. acc \in fresh \/ (snapshot[acc] # None /\ snapshot[acc] > block[e])
      BY <2>2, <3>1 DEF Newer
    <3> QED
      BY <2>2, <3>2, <3>3
  <2>4. CASE acc \notin owed[x]
    <3>1. tx[x] = "success" /\ snapshot[acc] # None /\ snapshot[acc] >= txBlock[x]
      BY <2>1, <2>4 DEF Counted
    <3>2. acc \in fresh => block[e] >= snapshot[acc]
      BY <3>1 DEF Newer
    <3> QED
      BY <2>2, <3>1, <3>2
  <2> QED
    BY <2>3, <2>4
<1>6. AbandonedMeansUnsent'
  BY <1>1 DEF Inv, AbandonedMeansUnsent
<1> QED
  BY <1>2, <1>3, <1>4, <1>5, <1>6 DEF Inv

-----------------------------------------------------------------------------
(* A send.                                                                 *)

\* What is final stays final and keeps its height; the passes rest.
LEMMA PassRests ==
  ASSUME PassInv,
         UNCHANGED <<block, todo, flying, settled>>,
         \A y \in Engines : (pc'[y] = "receipts") <=> (pc[y] = "receipts"),
         \A x : tx[x] \in Final => tx'[x] = tx[x] /\ txBlock'[x] = txBlock[x]
  PROVE  PassInv'
<1> QED
  BY DEF PassInv, Final

\* A settled slot that was not broadcast, or whose spend is held, leaves every
\* spend counted.
LEMMA SettleKeeps ==
  ASSUME TypeOK, Inv, NEW x \in Actions, NEW outcome \in Outcomes,
         NEW height \in Height, Settle({x}, outcome, height),
         UNCHANGED txBlock,
         \A y \in Actions : y # x => tx'[y] = tx[y],
         Spent(outcome) => tx'[x] # "none",
         ~Spent(outcome) => tx'[x] \notin {"pool", "success"},
         outcome = "abandoned" => tx'[x] = "none",
         slot[x] # "open" => tx'[x] = tx[x],
         tx[x] = "success" => tx'[x] = "success",
         tx[x] # "success" => tx'[x] # "success",
         tx[x] # "none" => tx'[x] # "none",
         height # None => tx'[x] = "success" /\ height = txBlock[x]
  PROVE  HoldInv' /\ SpendIsCounted' /\ AbandonedMeansUnsent'
<1>1. /\ \A y \in Actions : y # x => /\ slot'[y] = slot[y]
                                     /\ owed'[y] = owed[y]
                                     /\ minedAt'[y] = minedAt[y]
      /\ UNCHANGED snapshot
  BY DEF Settle, TypeOK
<1>2. slot[x] # "open" => /\ slot'[x] = slot[x]
                          /\ owed'[x] = owed[x]
                          /\ minedAt'[x] = minedAt[x]
  BY DEF Settle, TypeOK
<1>3. slot[x] = "open" =>
         /\ slot'[x] = outcome
         /\ \/ ~Spent(outcome) /\ owed'[x] = owed[x] /\ minedAt'[x] = minedAt[x]
            \/ /\ Spent(outcome) /\ Debts(x) = {}
               /\ owed'[x] = owed[x] /\ minedAt'[x] = minedAt[x]
            \/ Spent(outcome) /\ owed'[x] = Debts(x) /\ minedAt'[x] = height
  BY DEF Settle, TypeOK
<1>4. HoldInv'
  <2> SUFFICES ASSUME NEW y \in Actions
               PROVE  /\ owed'[y] # {} => tx'[y] # "none"
                      /\ tx'[y] = "success" => txBlock'[y] \in Nat
                      /\ minedAt'[y] # None =>
                            tx'[y] = "success" /\ minedAt'[y] = txBlock'[y]
    BY DEF HoldInv
  <2>1. CASE y # x
    BY <2>1, <1>1 DEF Inv, HoldInv
  <2>2. CASE y = x
    <3>1. /\ owed[x] # {} => tx[x] # "none"
          /\ tx[x] = "success" => txBlock[x] \in Nat
          /\ minedAt[x] # None => tx[x] = "success" /\ minedAt[x] = txBlock[x]
      BY DEF Inv, HoldInv
    <3> QED
      BY <2>2, <3>1, <1>2, <1>3
  <2> QED
    BY <2>1, <2>2
<1>5. SpendIsCounted'
  <2> SUFFICES ASSUME NEW y \in Actions, NEW acc \in Accounts,
                      Cost[y][acc] > 0, tx'[y] \in {"pool", "success"},
                      slot'[y] # "open", acc \notin owed'[y]
               PROVE  /\ tx'[y] = "success"
                      /\ snapshot'[acc] # None
                      /\ snapshot'[acc] >= txBlock'[y]
    BY DEF SpendIsCounted
  <2>1. Counted(y, acc)
    BY DEF Inv, SpendIsCounted, Counted
  <2>2. CASE y # x
    BY <2>1, <2>2, <1>1 DEF Counted
  <2>3. CASE y = x /\ slot[x] # "open"
    BY <2>1, <2>3, <1>1, <1>2 DEF Counted
  <2>4. CASE y = x /\ slot[x] = "open"
    BY <2>4, <1>3 DEF Debts
  <2> QED
    BY <2>2, <2>3, <2>4
<1>6. AbandonedMeansUnsent'
  <2> SUFFICES ASSUME NEW y \in Actions, slot'[y] = "abandoned"
               PROVE  tx'[y] = "none"
    BY DEF AbandonedMeansUnsent
  <2>1. CASE y # x
    BY <2>1, <1>1 DEF Inv, AbandonedMeansUnsent
  <2>2. CASE y = x
    BY <2>2, <1>2, <1>3 DEF Inv, AbandonedMeansUnsent
  <2> QED
    BY <2>1, <2>2
<1> QED
  BY <1>4, <1>5, <1>6

\* A slot is opened for a transaction nobody has signed.
LEMMA OpenKeeps ==
  ASSUME TypeOK, Inv, NEW e \in Engines, NEW x \in Actions, OpenSlot(e, x)
  PROVE  Inv'
<1>1. /\ slot' = [slot EXCEPT ![x] = "open"]
      /\ cur' = [cur EXCEPT ![e] = x]
      /\ pc' = [pc EXCEPT ![e] = "commit"]
      /\ pc[e] = "send" /\ EngineOf[x] = e /\ tx[x] = "none"
      /\ UNCHANGED <<gate, sent, refresh, chain, faults>>
  BY DEF OpenSlot, Goto
<1> USE DEF gate, refresh, chain
<1>2. CommitInv'
  BY <1>1 DEF Inv, CommitInv, TypeOK
<1>3. SentInv' /\ HoldInv'
  BY <1>1 DEF Inv, SentInv, HoldInv
<1>4. PassInv'
  BY <1>1 DEF Inv, PassInv, TypeOK
<1>5. SpendIsCounted' /\ AbandonedMeansUnsent'
  BY <1>1 DEF Inv, SpendIsCounted, AbandonedMeansUnsent, TypeOK
<1> QED
  BY <1>2, <1>3, <1>4, <1>5 DEF Inv

\* An engine awaits only what was sent, so no action it commits.
LEMMA ReceiptKeeps ==
  ASSUME TypeOK, Inv, NEW e \in Engines, NEW x \in Actions, Receipt(e, x)
  PROVE  Inv'
<1>1. /\ pc[e] = "wait" /\ x \in sent[e] /\ tx[x] # "none"
      /\ sent' = [sent EXCEPT ![e] = @ \ {x}]
      /\ UNCHANGED <<pc, cur, block, todo, flying, settled, tx, txBlock, live>>
  BY DEF Receipt, Inv, SentInv, refresh, chain
<1>2. PICK outcome \in Outcomes, height \in Height :
         /\ Settle({x}, outcome, height)
         /\ outcome # "abandoned"
         /\ ~Spent(outcome) => tx[x] = "reverted"
         /\ height # None => tx[x] = "success" /\ height = txBlock[x]
  BY DEF Receipt, Outcomes, Spent, TypeOK, Height
<1>3. HoldInv' /\ SpendIsCounted' /\ AbandonedMeansUnsent'
  BY <1>1, <1>2, SettleKeeps
<1>4. CommitInv'
  <2>1. \A y \in Actions : y # x => slot'[y] = slot[y]
    BY <1>2 DEF Settle, TypeOK
  <2> QED
    BY <1>1, <2>1 DEF Inv, CommitInv, TypeOK
<1>5. SentInv'
  BY <1>1 DEF Inv, SentInv, TypeOK
<1>6. PassInv'
  BY <1>1, PassRests DEF Inv
<1> QED
  BY <1>3, <1>4, <1>5, <1>6 DEF Inv

\* Another engine commits another action.
LEMMA OwnAction ==
  ASSUME TypeOK, Inv, NEW e \in Engines, pc[e] = "commit",
         NEW y \in Engines, pc[y] = "commit", y # e
  PROVE  cur[y] # cur[e]
<1> QED
  BY DEF Inv, CommitInv

\* A transaction goes out under its slot.
LEMMA BroadcastKeeps ==
  ASSUME TypeOK, Inv, NEW e \in Engines, CommitBroadcast(e)
  PROVE  Inv'
<1> DEFINE x == cur[e]
<1>1. /\ x \in Actions /\ slot[x] = "open" /\ tx[x] = "none"
      /\ pc[e] = "commit"
  BY DEF CommitBroadcast, TypeOK, Inv, CommitInv
<1>2. /\ tx' = [tx EXCEPT ![x] = "pool"]
      /\ live' = live \cup {x}
      /\ sent' = [sent EXCEPT ![e] = @ \cup {x}]
      /\ pc' = [pc EXCEPT ![e] = "send"]
      /\ cur' = [cur EXCEPT ![e] = None]
      /\ UNCHANGED <<available, snapshot, owed, minedAt, slot, block, todo,
                     flying, settled, txBlock>>
  BY DEF CommitBroadcast, Goto, Record, gate, refresh
<1>3. CommitInv'
  <2>1. \A y \in Engines : pc'[y] = "commit" =>
           y # e /\ pc[y] = "commit" /\ cur'[y] = cur[y] /\ cur[y] # x
    BY <1>1, <1>2, OwnAction DEF TypeOK
  <2> QED
    BY <1>2, <2>1 DEF Inv, CommitInv, TypeOK
<1>4. SentInv' /\ HoldInv'
  BY <1>1, <1>2 DEF Inv, SentInv, HoldInv, TypeOK
<1>5. PassInv'
  <2>1. \A y \in Actions : tx[y] \in Final => tx'[y] = tx[y]
    BY <1>1, <1>2 DEF TypeOK, Final
  <2> QED
    BY <1>1, <1>2, <2>1 DEF Inv, PassInv, TypeOK
<1>6. SpendIsCounted' /\ AbandonedMeansUnsent'
  BY <1>1, <1>2 DEF Inv, SpendIsCounted, AbandonedMeansUnsent, TypeOK
<1> QED
  BY <1>3, <1>4, <1>5, <1>6 DEF Inv

\* A broadcast whose answer was lost.
LEMMA AmbiguousKeeps ==
  ASSUME TypeOK, Inv, NEW e \in Engines, CommitAmbiguous(e)
  PROVE  Inv'
<1> DEFINE x == cur[e]
<1>1. /\ x \in Actions /\ slot[x] = "open" /\ tx[x] = "none"
      /\ pc[e] = "commit"
  BY DEF CommitAmbiguous, TypeOK, Inv, CommitInv
<1>2. PICK fate \in {"pool", "gone"} : tx' = [tx EXCEPT ![x] = fate]
  BY DEF CommitAmbiguous
<1>3. /\ live' = live \cup {x}
      /\ Settle({x}, "unresolved", None)
      /\ pc' = [pc EXCEPT ![e] = "wait"]
      /\ cur' = [cur EXCEPT ![e] = None]
      /\ UNCHANGED <<sent, block, todo, flying, settled, txBlock>>
  BY DEF CommitAmbiguous, Goto, Record, refresh, Aborted
<1>4. /\ \A y \in Actions : y # x => tx'[y] = tx[y]
      /\ tx'[x] \in {"pool", "gone"}
  BY <1>1, <1>2 DEF TypeOK
<1>5. HoldInv' /\ SpendIsCounted' /\ AbandonedMeansUnsent'
  <2>1. "unresolved" \in Outcomes /\ None \in Height /\ Spent("unresolved")
    BY DEF Outcomes, Height, Spent
  <2> HIDE DEF x
  <2> QED
    BY <1>1, <1>3, <1>4, <2>1, SettleKeeps
<1>6. CommitInv'
  <2>1. \A y \in Engines : pc'[y] = "commit" =>
           y # e /\ pc[y] = "commit" /\ cur'[y] = cur[y] /\ cur[y] # x
    BY <1>1, <1>3, OwnAction DEF TypeOK
  <2>2. \A y \in Actions : y # x => slot'[y] = slot[y]
    BY <1>3 DEF Settle, TypeOK
  <2> QED
    BY <1>4, <2>1, <2>2 DEF Inv, CommitInv, TypeOK
<1>7. SentInv'
  BY <1>1, <1>3, <1>4 DEF Inv, SentInv, TypeOK
<1>8. PassInv'
  <2>1. \A y \in Actions : tx[y] \in Final => tx'[y] = tx[y]
    BY <1>1, <1>4 DEF Final
  <2> QED
    BY <1>1, <1>3, <2>1 DEF Inv, PassInv, TypeOK
<1> QED
  BY <1>5, <1>6, <1>7, <1>8 DEF Inv

\* Nothing was sent and the slot of the action being committed is given back.
LEMMA GivenBackKeeps ==
  ASSUME TypeOK, Inv, NEW e \in Engines, pc[e] = "commit",
         NEW outcome \in {"abandoned", "failed"},
         Settle({cur[e]}, outcome, None),
         NEW label \in {"send", "wait"}, Goto(e, label),
         cur' = [cur EXCEPT ![e] = None],
         UNCHANGED <<sent, refresh, chain>>
  PROVE  Inv'
<1> DEFINE x == cur[e]
<1>1. x \in Actions /\ slot[x] = "open" /\ tx[x] = "none"
  BY DEF TypeOK, Inv, CommitInv
<1>2. /\ UNCHANGED <<sent, block, todo, flying, settled, tx, txBlock, live>>
      /\ pc' = [pc EXCEPT ![e] = label]
  BY DEF refresh, chain, Goto
<1>3. HoldInv' /\ SpendIsCounted' /\ AbandonedMeansUnsent'
  <2>1. outcome \in Outcomes /\ None \in Height /\ ~Spent(outcome)
    BY DEF Outcomes, Height, Spent
  <2>2. Settle({x}, outcome, None)
    OBVIOUS
  <2> HIDE DEF x
  <2> QED
    BY <1>1, <1>2, <2>1, <2>2, SettleKeeps
<1>4. CommitInv'
  <2>1. \A y \in Engines : pc'[y] = "commit" =>
           y # e /\ pc[y] = "commit" /\ cur'[y] = cur[y] /\ cur[y] # x
    BY <1>2, OwnAction DEF TypeOK
  <2>2. \A y \in Actions : y # x => slot'[y] = slot[y]
    BY DEF Settle, TypeOK
  <2> QED
    BY <1>2, <2>1, <2>2 DEF Inv, CommitInv, TypeOK
<1>5. SentInv'
  BY <1>2 DEF Inv, SentInv
<1>6. PassInv'
  BY <1>2 DEF Inv, PassInv, TypeOK
<1> QED
  BY <1>3, <1>4, <1>5, <1>6 DEF Inv

\* A send that came to nothing.
LEMMA NothingKeeps ==
  ASSUME TypeOK, Inv, NEW e \in Engines, CommitNothing(e)
  PROVE  Inv'
<1>1. /\ pc[e] = "commit"
      /\ Settle({cur[e]}, "abandoned", None)
      /\ Goto(e, "send") \/ Goto(e, "wait")
      /\ cur' = [cur EXCEPT ![e] = None]
      /\ UNCHANGED <<sent, refresh, chain>>
  BY DEF CommitNothing, Aborted
<1>2. "abandoned" \in {"abandoned", "failed"}
  OBVIOUS
<1> QED
  BY <1>1, <1>2, GivenBackKeeps

\* A claim that throws settles its slot, and with Orderly no broadcast one.
LEMMA ThrowsKeeps ==
  ASSUME Orderly, TypeOK, Inv, NEW e \in Engines, ClaimThrows(e)
  PROVE  Inv'
<1>1. /\ pc[e] = "commit"
      /\ Settle({cur[e]}, "failed", None)
      /\ Goto(e, "send")
      /\ cur' = [cur EXCEPT ![e] = None]
      /\ UNCHANGED <<sent, refresh, chain>>
  BY DEF ClaimThrows, Orderly
<1>2. "failed" \in {"abandoned", "failed"}
  OBVIOUS
<1> QED
  BY <1>1, <1>2, GivenBackKeeps

\* The sending ends, or the cycle: no slot changes.
LEMMA EndKeeps ==
  ASSUME TypeOK, Inv, NEW e \in Engines, EndSend(e) \/ EndCycle(e)
  PROVE  Inv'
<1>1. /\ pc[e] \in {"send", "wait"}
      /\ \/ pc' = [pc EXCEPT ![e] = "wait"]
         \/ pc' = [pc EXCEPT ![e] = "idle"]
      /\ UNCHANGED <<gate, slot, cur, sent, refresh, chain, faults>>
  BY DEF EndSend, EndCycle, Goto
<1> USE DEF gate, refresh, chain
<1>2. CommitInv' /\ SentInv' /\ HoldInv' /\ PassInv'
  BY <1>1 DEF Inv, CommitInv, SentInv, HoldInv, PassInv, TypeOK
<1>3. SpendIsCounted' /\ AbandonedMeansUnsent'
  BY <1>1 DEF Inv, SpendIsCounted, AbandonedMeansUnsent
<1> QED
  BY <1>2, <1>3 DEF Inv

-----------------------------------------------------------------------------
(* The chain, and the invariant.                                           *)

\* A transaction becomes final at a height of its own.
LEMMA MineKeeps ==
  ASSUME TypeOK, Inv, NEW x \in Actions,
         (\E result \in {"success", "reverted"} : MineTx(x, result)) \/ Drop(x)
  PROVE  Inv'
<1>1. /\ tx[x] = "pool"
      /\ \A y \in Actions : y # x => tx'[y] = tx[y] /\ txBlock'[y] = txBlock[y]
      /\ tx'[x] \in Final
      /\ tx'[x] = "success" => txBlock'[x] \in Nat
      /\ UNCHANGED <<gate, slot, pc, cur, sent, refresh, live>>
  BY DEF MineTx, Drop, TypeOK, Final
<1> USE DEF gate, refresh
<1>2. CommitInv'
  BY <1>1 DEF Inv, CommitInv, TypeOK
<1>3. SentInv' /\ HoldInv'
  BY <1>1 DEF Inv, SentInv, HoldInv, Final, TypeOK
<1>4. PassInv'
  <2>1. \A y \in Actions : tx[y] \in Final =>
                              tx'[y] = tx[y] /\ txBlock'[y] = txBlock[y]
    BY <1>1 DEF Final
  <2> QED
    BY <1>1, <2>1 DEF Inv, PassInv, TypeOK
<1>5. SpendIsCounted' /\ AbandonedMeansUnsent'
  BY <1>1 DEF Inv, SpendIsCounted, AbandonedMeansUnsent
<1> QED
  BY <1>2, <1>3, <1>4, <1>5 DEF Inv

\* The store resolves a row whose transaction is no longer pending.
LEMMA ResolveKeeps ==
  ASSUME TypeOK, Inv, NEW x \in Actions, Resolve(x)
  PROVE  Inv'
<1> USE DEF Resolve, gate, refresh
<1>1. CommitInv' /\ SentInv' /\ HoldInv' /\ PassInv'
  BY DEF Inv, CommitInv, SentInv, HoldInv, PassInv
<1>2. SpendIsCounted' /\ AbandonedMeansUnsent'
  BY DEF Inv, SpendIsCounted, AbandonedMeansUnsent
<1> QED
  BY <1>1, <1>2 DEF Inv

\* Every step keeps the invariant.
LEMMA InvNext ==
  ASSUME Orderly
  PROVE  TypeOK /\ Inv /\ [Next]_vars => Inv'
<1> SUFFICES ASSUME TypeOK, Inv, [Next]_vars PROVE Inv'
  OBVIOUS
<1>1. ASSUME NEW e \in Engines, Refreshing(e) PROVE Inv'
  BY <1>1, ReadKeeps, ListKeeps, JudgeKeeps, ApplyKeeps DEF Refreshing
<1>2. ASSUME NEW e \in Engines, Sending(e) PROVE Inv'
  BY <1>2, OpenKeeps, ReceiptKeeps, BroadcastKeeps, AmbiguousKeeps,
     NothingKeeps, ThrowsKeeps, EndKeeps
     DEF Sending
<1>3. CASE Chain
  BY <1>3, MineKeeps, ResolveKeeps DEF Chain
<1>4. CASE UNCHANGED vars
  <2> USE <1>4 DEF vars, gate, refresh, chain
  <2>1. CommitInv' /\ SentInv' /\ HoldInv' /\ PassInv'
    BY DEF Inv, CommitInv, SentInv, HoldInv, PassInv
  <2>2. SpendIsCounted' /\ AbandonedMeansUnsent'
    BY DEF Inv, SpendIsCounted, AbandonedMeansUnsent
  <2> QED
    BY <2>1, <2>2 DEF Inv
<1> QED
  BY <1>1, <1>2, <1>3, <1>4 DEF Next

(* The inductive invariant of the ledger, where no claim throws into a     *)
(* backstop that abandons what was broadcast.                              *)
THEOREM InvHolds ==
  ASSUME Orderly
  PROVE  Spec => []Inv
<1>1. TypeOK /\ Inv /\ [Next]_vars => Inv'
  BY InvNext
<1> QED
  BY <1>1, InvInit, TypeCorrect, PTL DEF Spec

(* A spend that may happen or has happened is counted, in its slot or its  *)
(* hold, until a published balance excludes it: through any order of       *)
(* refreshes of any engines that read any of the accounts, late receipts   *)
(* and dropped transactions (gate.ts settle, applySnapshot).               *)
THEOREM SpendsAreCounted ==
  ASSUME Orderly
  PROVE  Spec => []SpendIsCounted
<1>1. Inv => SpendIsCounted
  BY DEF Inv
<1> QED
  BY <1>1, InvHolds, PTL

(* A slot settled as abandoned never has a transaction (types.ts).         *)
THEOREM AbandonedIsUnsent ==
  ASSUME Orderly
  PROVE  Spec => []AbandonedMeansUnsent
<1>1. Inv => AbandonedMeansUnsent
  BY DEF Inv
<1> QED
  BY <1>1, InvHolds, PTL

-----------------------------------------------------------------------------
(* Sums of costs. *)

CostOf(acc) == [x \in Actions |-> Cost[x][acc]]

\* Costs are weights.
LEMMA CostWeighs ==
  ASSUME NEW acc \in Accounts
  PROVE  Weights(CostOf(acc), Actions)
<1>1. IsFiniteSet(Actions) /\ \A x \in Actions : Cost[x][acc] \in Nat
  BY LedgerAssumption
<1> QED
  BY <1>1 DEF Weights, CostOf

\* The total of a set of actions is a sum over it.
LEMMA TotalIsSum ==
  ASSUME NEW S \in SUBSET Actions, NEW acc
  PROVE  Total(S, acc) = Sum(CostOf(acc), S)
<1> DEFINE w == CostOf(acc)
           Fold(f) == f = [s \in SUBSET S |-> IF s = {} THEN 0
                             ELSE Cost[Pick(s)][acc] + f[s \ {Pick(s)}]]
<1>1. Total(S, acc) = (CHOOSE f : Fold(f))[S]
  BY DEF Total, MapThenSumSet, MapThenFoldSet, Pick
<1>2. IsFiniteSet(S)
  BY LedgerAssumption, FS_Subset
<1>3. \A f : Fold(f) <=> Sums(f, S, w)
  <2> SUFFICES ASSUME NEW f PROVE Fold(f) <=> Sums(f, S, w)
    OBVIOUS
  <2>1. \A s \in SUBSET S : s # {} => w[Pick(s)] = Cost[Pick(s)][acc]
    BY Picked DEF CostOf
  <2>2. \A s \in SUBSET S : Step(f, s, w) = IF s = {} THEN 0
                             ELSE Cost[Pick(s)][acc] + f[s \ {Pick(s)}]
    BY <2>1 DEF Step
  <2> QED
    BY <2>2 DEF Sums
<1>4. \E f : Fold(f)
  BY <1>2, <1>3, SumExists
<1> DEFINE g == CHOOSE f : Fold(f)
<1> HIDE DEF Fold
<1>5. Sums(g, S, w)
  BY <1>3, <1>4
<1> HIDE DEF g, w
<1>6. g[S] = Sum(w, S)
  BY <1>2, <1>5, SumByRecursion
<1> QED
  BY <1>1, <1>6 DEF g, w

\* A total is a number.
LEMMA TotalIsNat ==
  ASSUME NEW S \in SUBSET Actions, NEW acc \in Accounts
  PROVE  Total(S, acc) \in Nat
<1> QED
  BY CostWeighs, TotalIsSum, SumIsNat

\* Nothing costs nothing.
LEMMA TotalNone ==
  ASSUME NEW acc \in Accounts
  PROVE  Total({}, acc) = 0
<1>1. {} \in SUBSET Actions
  OBVIOUS
<1>2. Total({}, acc) = Sum(CostOf(acc), {})
  BY <1>1, TotalIsSum
<1>3. Sum(CostOf(acc), {}) = 0
  BY <1>1, CostWeighs, SumStep
<1> QED
  BY <1>2, <1>3

\* One action less.
LEMMA TotalRemove ==
  ASSUME NEW S \in SUBSET Actions, NEW acc \in Accounts, NEW x \in S
  PROVE  Total(S, acc) = Cost[x][acc] + Total(S \ {x}, acc)
<1>1. Total(S, acc) = Sum(CostOf(acc), S)
      /\ Total(S \ {x}, acc) = Sum(CostOf(acc), S \ {x})
  BY TotalIsSum
<1>2. Sum(CostOf(acc), S) = CostOf(acc)[x] + Sum(CostOf(acc), S \ {x})
  BY CostWeighs, SumRemove
<1>3. CostOf(acc)[x] = Cost[x][acc]
  BY DEF CostOf
<1> QED
  BY <1>1, <1>2, <1>3

\* One action more.
LEMMA TotalAdd ==
  ASSUME NEW S \in SUBSET Actions, NEW acc \in Accounts, NEW x \in Actions \ S
  PROVE  Total(S \cup {x}, acc) = Cost[x][acc] + Total(S, acc)
<1>1. Total(S, acc) = Sum(CostOf(acc), S)
      /\ Total(S \cup {x}, acc) = Sum(CostOf(acc), S \cup {x})
  BY TotalIsSum
<1>2. Sum(CostOf(acc), S \cup {x}) = CostOf(acc)[x] + Sum(CostOf(acc), S)
  BY CostWeighs, SumAdd
<1>3. CostOf(acc)[x] = Cost[x][acc]
  BY DEF CostOf
<1> QED
  BY <1>1, <1>2, <1>3

\* What costs nothing does not count, and less sums to less.
LEMMA TotalCovers ==
  ASSUME NEW S \in SUBSET Actions, NEW T \in SUBSET Actions, NEW acc \in Accounts,
         \A x \in S : x \in T \/ Cost[x][acc] = 0
  PROVE  Total(S, acc) <= Total(T, acc)
<1> DEFINE w == CostOf(acc)
<1>1. Total(S, acc) = Sum(w, S) /\ Total(T, acc) = Sum(w, T)
  BY TotalIsSum
<1>2. Weights(w, Actions)
  BY CostWeighs
<1>3. \A x \in S : w[x] \in Nat /\ (x \in T \/ w[x] = 0)
  BY <1>2 DEF CostOf, Weights
<1> HIDE DEF w
<1>4. \A x \in S : (x \in T /\ w[x] <= w[x]) \/ w[x] = 0
  BY <1>3
<1>5. Sum(w, S) <= Sum(w, T)
  BY <1>2, <1>4, SumCovers
<1> QED
  BY <1>1, <1>5

\* A union sums to no more than its parts, and to them when they are disjoint.
LEMMA TotalUnion ==
  ASSUME NEW S \in SUBSET Actions, NEW T \in SUBSET Actions, NEW acc \in Accounts
  PROVE  /\ Total(S \cup T, acc) <= Total(S, acc) + Total(T, acc)
         /\ S \cap T = {} => Total(S \cup T, acc) = Total(S, acc) + Total(T, acc)
<1>1. /\ Total(S, acc) = Sum(CostOf(acc), S) /\ Total(T, acc) = Sum(CostOf(acc), T)
      /\ Total(S \cup T, acc) = Sum(CostOf(acc), S \cup T)
  BY TotalIsSum
<1> QED
  BY <1>1, CostWeighs, SumUnion

-----------------------------------------------------------------------------
(* The books.  What is in the pool, or was admitted and may get there, is  *)
(* pledged.  A published balance is the balance less nothing that was      *)
(* mined since; so what the slots and the holds leave of it is not         *)
(* pledged.                                                                *)

Pledged == {x \in Actions : tx[x] = "pool" \/ (tx[x] = "none" /\ slot[x] = "open")}
Beyond(height) == {x \in Actions : tx[x] = "success" /\ txBlock[x] > height}

HeadInv == /\ \A e \in Engines : block[e] <= head
           /\ \A acc \in Accounts : snapshot[acc] # None => snapshot[acc] <= head
           /\ \A x \in Actions : tx[x] = "success" => txBlock[x] <= head

\* A published balance is the one at its height.
BookInv == \A acc \in Accounts :
    /\ snapshot[acc] = None <=> available[acc] = None
    /\ snapshot[acc] # None =>
          available[acc] = balance[acc] + Total(Beyond(snapshot[acc]), acc)

\* So is one an engine has read.
ReadInv == \A e \in Engines : pc[e] \in {"outflows", "receipts"} =>
    \A acc \in Accounts :
        read[e][acc] = balance[acc] + Total(Beyond(block[e]), acc)

PledgeInv == \A acc \in Accounts : Total(Pledged, acc) <= balance[acc]

FundInv == HeadInv /\ BookInv /\ ReadInv /\ PledgeInv

\* Fewer pledges need no more money.
LEMMA PledgesShrink ==
  ASSUME Typed, PledgeInv, UNCHANGED balance, Pledged' \subseteq Pledged
  PROVE  PledgeInv'
<1> SUFFICES ASSUME NEW acc \in Accounts PROVE Total(Pledged', acc) <= balance[acc]
  BY DEF PledgeInv
<1>1. Pledged' \in SUBSET Actions /\ Pledged \in SUBSET Actions
  BY DEF Pledged
<1>2. Total(Pledged', acc) <= Total(Pledged, acc)
  BY <1>1, TotalCovers
<1>3. Total(Pledged, acc) <= balance[acc]
  BY DEF PledgeInv
<1>4. /\ balance[acc] \in Nat /\ Total(Pledged', acc) \in Nat
      /\ Total(Pledged, acc) \in Nat
  BY <1>1, TotalIsNat DEF Typed, TypeOK
<1> QED
  BY <1>2, <1>3, <1>4

\* Steps that leave the chain's past, the figures and the pledges alone, or
\* withdraw some.
LEMMA FundsRest ==
  ASSUME Typed, Typed', FundInv,
         UNCHANGED <<balance, head, txBlock, available, snapshot, block, read>>,
         \A x \in Actions : (tx'[x] = "success") <=> (tx[x] = "success"),
         Pledged' \subseteq Pledged,
         \A e \in Engines : pc'[e] \in {"outflows", "receipts"} =>
            pc[e] \in {"outflows", "receipts"}
  PROVE  FundInv'
<1>1. HeadInv'
  BY DEF FundInv, HeadInv
<1>2. \A height : Beyond(height)' = Beyond(height)
  BY DEF Beyond
<1>3. BookInv' /\ ReadInv'
  BY <1>2 DEF FundInv, BookInv, ReadInv
<1>4. PledgeInv'
  BY PledgesShrink DEF FundInv
<1> QED
  BY <1>1, <1>3, <1>4 DEF FundInv

\* A balance read at the head lacks nothing.
LEMMA ReadIsFunded ==
  ASSUME Typed, Typed', Inv, FundInv, NEW e \in Engines, ReadBalances(e)
  PROVE  FundInv'
<1>1. /\ block' = [block EXCEPT ![e] = head] /\ read' = [read EXCEPT ![e] = balance]
      /\ pc' = [pc EXCEPT ![e] = "outflows"]
      /\ UNCHANGED <<available, snapshot, slot, balance, head, tx, txBlock>>
  BY DEF ReadBalances, Goto, gate, chain
<1>2. /\ \A h : Beyond(h)' = Beyond(h)
      /\ Pledged' = Pledged
  BY <1>1 DEF Beyond, Pledged
<1>3. HeadInv'
  <2>1. block \in [Engines -> Nat] /\ head \in Nat
    BY DEF Typed, TypeOK
  <2>2. \A f \in Engines : block'[f] <= head
    <3>1. \A f \in Engines : block[f] <= head
      BY DEF FundInv, HeadInv
    <3> QED
      BY ONLY <1>1, <2>1, <3>1
  <2> QED
    BY <1>1, <2>2 DEF FundInv, HeadInv
<1>4. BookInv' /\ PledgeInv'
  <2>1. BookInv'
    <3> SUFFICES ASSUME NEW acc \in Accounts
                 PROVE  /\ snapshot[acc] = None <=> available[acc] = None
                        /\ snapshot[acc] # None =>
                              available[acc] = balance[acc] + Total(Beyond(snapshot[acc]), acc)
      BY <1>1, <1>2 DEF BookInv
    <3> QED
      BY DEF FundInv, BookInv
  <2>2. PledgeInv'
    BY <1>1, <1>2 DEF FundInv, PledgeInv
  <2> QED
    BY <2>1, <2>2
<1>5. Beyond(head) = {}
  <2>1. /\ head \in Nat
        /\ \A x \in Actions : tx[x] = "success" => txBlock[x] \in Nat /\ txBlock[x] <= head
    BY DEF FundInv, HeadInv, Typed, TypeOK, Inv, HoldInv
  <2>2. \A x \in Actions : tx[x] = "success" => ~(txBlock[x] > head)
    BY <2>1
  <2> QED
    BY <2>2 DEF Beyond
<1>6. \A acc \in Accounts : Total(Beyond(head), acc) = 0
  BY <1>5, TotalNone
<1>7. ReadInv'
  <2> SUFFICES ASSUME NEW f \in Engines, pc'[f] \in {"outflows", "receipts"},
                      NEW acc \in Accounts
               PROVE  read'[f][acc] = balance[acc] + Total(Beyond(block'[f]), acc)
    BY <1>1, <1>2 DEF ReadInv
  <2>1. CASE f = e
    BY <1>1, <1>6, <2>1 DEF Typed, TypeOK
  <2>2. CASE f # e
    BY <1>1, <2>2 DEF FundInv, ReadInv, Typed, TypeOK
  <2> QED
    BY <2>1, <2>2
<1> QED
  BY <1>3, <1>4, <1>7 DEF FundInv

\* What is published is what was read, at its height.
LEMMA ApplyIsFunded ==
  ASSUME Typed, Typed', FundInv, NEW e \in Engines, Apply(e)
  PROVE  FundInv'
<1> DEFINE fresh == {acc \in Covers[e] : Newer(block[e], acc)}
<1>1. /\ available' = [acc \in Accounts |->
                         IF acc \in fresh THEN read[e][acc] ELSE available[acc]]
      /\ snapshot' = [acc \in Accounts |->
                        IF acc \in fresh THEN block[e] ELSE snapshot[acc]]
      /\ block' = [block EXCEPT ![e] = 0] /\ read' = [read EXCEPT ![e] = Funds]
      /\ pc' = [pc EXCEPT ![e] = "send"] /\ pc[e] = "receipts"
      /\ UNCHANGED <<slot, balance, head, tx, txBlock>>
  BY DEF Apply, Goto, chain
<1> HIDE DEF fresh
<1>2. /\ \A h : Beyond(h)' = Beyond(h)
      /\ Pledged' = Pledged
  BY <1>1 DEF Beyond, Pledged
<1>3. HeadInv'
  BY <1>1 DEF FundInv, HeadInv, Typed, TypeOK
<1>4. PledgeInv'
  BY <1>1, <1>2 DEF FundInv, PledgeInv
<1>5. BookInv'
  <2> SUFFICES ASSUME NEW acc \in Accounts
               PROVE  /\ snapshot'[acc] = None <=> available'[acc] = None
                      /\ snapshot'[acc] # None =>
                            available'[acc] = balance[acc] + Total(Beyond(snapshot'[acc]), acc)
    BY <1>1, <1>2 DEF BookInv
  <2>1. CASE acc \in fresh
    <3>1. /\ available'[acc] = read[e][acc] /\ snapshot'[acc] = block[e]
          /\ read[e][acc] \in Nat /\ block[e] \in Nat
      BY <1>1, <2>1 DEF Typed, TypeOK, ReadOk
    <3> QED
      BY <1>1, <3>1, LedgerAssumption DEF FundInv, ReadInv
  <2>2. CASE acc \notin fresh
    BY <1>1, <2>2 DEF FundInv, BookInv
  <2> QED
    BY <2>1, <2>2
<1>6. ReadInv'
  <2> SUFFICES ASSUME NEW f \in Engines, pc'[f] \in {"outflows", "receipts"},
                      NEW acc \in Accounts
               PROVE  read'[f][acc] = balance[acc] + Total(Beyond(block'[f]), acc)
    BY <1>1, <1>2 DEF ReadInv
  <2>1. f # e
    BY <1>1 DEF Typed, TypeOK
  <2> QED
    BY <1>1, <2>1 DEF FundInv, ReadInv, Typed, TypeOK
<1> QED
  BY <1>3, <1>4, <1>5, <1>6 DEF FundInv

\* What is admitted is covered: everything pledged, and everything mined since
\* the balance was read, is in an open slot or held for the account.
LEMMA OpenIsFunded ==
  ASSUME Typed, Typed', Inv, FundInv, NEW e \in Engines, NEW x \in Actions, OpenSlot(e, x)
  PROVE  FundInv'
<1>1. /\ slot' = [slot EXCEPT ![x] = "open"] /\ tx[x] = "none" /\ Affordable(x)
      /\ pc' = [pc EXCEPT ![e] = "commit"]
      /\ UNCHANGED <<available, snapshot, block, read, balance, head, tx, txBlock>>
  BY DEF OpenSlot, Goto, gate, refresh, chain
<1>2. /\ \A h : Beyond(h)' = Beyond(h)
      /\ Pledged' = Pledged \cup {x}
  BY <1>1 DEF Beyond, Pledged, Typed, TypeOK
<1>3. HeadInv' /\ BookInv' /\ ReadInv'
  BY <1>1, <1>2 DEF FundInv, HeadInv, BookInv, ReadInv, Typed, TypeOK
<1>4. PledgeInv'
  <2> SUFFICES ASSUME NEW acc \in Accounts
               PROVE  Total(Pledged \cup {x}, acc) <= balance[acc]
    BY <1>1, <1>2 DEF PledgeInv
  <2>1. /\ Pledged \in SUBSET Actions /\ Pledged \cup {x} \in SUBSET Actions
        /\ {x} \in SUBSET Actions
    BY DEF Pledged
  <2>2. /\ Total(Pledged, acc) \in Nat /\ Total(Pledged \cup {x}, acc) \in Nat
        /\ balance[acc] \in Nat /\ Cost[x][acc] \in Nat
        /\ Total(Pledged, acc) <= balance[acc]
    <3>1. Total(Pledged, acc) \in Nat /\ Total(Pledged \cup {x}, acc) \in Nat
      BY <2>1, TotalIsNat
    <3>2. balance[acc] \in Nat
      BY DEF Typed, TypeOK
    <3>3. Cost[x][acc] \in Nat
      BY LedgerAssumption
    <3>4. Total(Pledged, acc) <= balance[acc]
      BY DEF FundInv, PledgeInv
    <3> QED
      BY <3>1, <3>2, <3>3, <3>4
  <2>3. Total(Pledged \cup {x}, acc) <= Total(Pledged, acc) + Cost[x][acc]
    <3>1. CASE x \in Pledged
      <4>1. Pledged \cup {x} = Pledged
        BY <3>1
      <4>2. Total(Pledged \cup {x}, acc) = Total(Pledged, acc)
        BY <4>1, Zenon
      <4> QED
        BY <2>2, <4>2
    <3>2. CASE x \notin Pledged
      <4>1. Total(Pledged \cup {x}, acc) = Cost[x][acc] + Total(Pledged, acc)
        BY <2>1, <3>2, TotalAdd
      <4> QED
        BY <2>2, <4>1
    <3> QED
      BY <3>1, <3>2
  <2>4. CASE Cost[x][acc] = 0
    BY <2>2, <2>3, <2>4
  <2>5. CASE Cost[x][acc] > 0
    <3> DEFINE opened == {y \in Actions : slot[y] = "open"}
               held == {y \in Actions : acc \in owed[y]}
               since == Beyond(snapshot[acc])
    <3>1. /\ available[acc] # None
          /\ Cost[x][acc] <= available[acc] - Total(held, acc) - Total(opened, acc)
      BY <1>1, <2>5 DEF Affordable, Capacity, HeldFor, Reserved
    <3>2. snapshot[acc] \in Nat
          /\ available[acc] = balance[acc] + Total(since, acc)
      BY <3>1 DEF FundInv, BookInv, Typed, TypeOK, Height
    <3>3. \A y \in Pledged \cup since : y \in opened \cup held \/ Cost[y][acc] = 0
      <4> SUFFICES ASSUME NEW y \in Pledged \cup since, Cost[y][acc] # 0
                   PROVE  slot[y] = "open" \/ acc \in owed[y]
        BY DEF Pledged, Beyond
      <4>1. y \in Actions /\ Cost[y][acc] > 0
        BY LedgerAssumption DEF Pledged, Beyond
      <4>2. CASE y \in Pledged
        BY <4>1, <4>2 DEF Pledged, Inv, SpendIsCounted
      <4>3. CASE y \in since
        <5>1. txBlock[y] \in Nat /\ tx[y] = "success" /\ txBlock[y] > snapshot[acc]
          BY <4>1, <4>3 DEF Beyond, Inv, HoldInv
        <5> QED
          BY <3>2, <4>1, <5>1 DEF Inv, SpendIsCounted
      <4> QED
        BY <4>2, <4>3
    <3>4. Pledged \cap since = {}
      BY DEF Pledged, Beyond
    <3>5. /\ opened \in SUBSET Actions /\ held \in SUBSET Actions /\ since \in SUBSET Actions
          /\ opened \cup held \in SUBSET Actions /\ Pledged \cup since \in SUBSET Actions
      BY DEF Pledged, Beyond
    <3> HIDE DEF opened, held, since
    <3>6. /\ Total(opened, acc) \in Nat /\ Total(held, acc) \in Nat
          /\ Total(since, acc) \in Nat
          /\ Total(opened \cup held, acc) \in Nat /\ Total(Pledged \cup since, acc) \in Nat
      BY <3>5, TotalIsNat
    <3>7. Total(Pledged \cup since, acc) = Total(Pledged, acc) + Total(since, acc)
      BY <2>1, <3>4, <3>5, TotalUnion
    <3>8. Total(opened \cup held, acc) <= Total(opened, acc) + Total(held, acc)
      BY <3>5, TotalUnion
    <3>9. Total(Pledged \cup since, acc) <= Total(opened \cup held, acc)
      BY <3>3, <3>5, TotalCovers
    <3> QED
      BY <2>2, <2>3, <3>1, <3>2, <3>6, <3>7, <3>8, <3>9
  <2> QED
    BY <2>2, <2>4, <2>5
<1> QED
  BY <1>3, <1>4 DEF FundInv

\* What is mined is no longer pledged, nor in any balance read before.
LEMMA MineIsFunded ==
  ASSUME Typed, Typed', Inv, FundInv, NEW x \in Actions, MineTx(x, "success")
  PROVE  FundInv'
<1>1. /\ tx[x] = "pool" /\ tx' = [tx EXCEPT ![x] = "success"]
      /\ head' = head + 1 /\ txBlock' = [txBlock EXCEPT ![x] = head']
      /\ balance' = [acc \in Accounts |-> balance[acc] - Cost[x][acc]]
      /\ UNCHANGED <<available, snapshot, slot, pc, block, read>>
  BY DEF MineTx, gate, refresh
<1>2. /\ head \in Nat /\ \A f \in Engines : block[f] \in Nat
      /\ \A acc \in Accounts : snapshot[acc] \in Nat \cup {None}
      /\ \A y \in Actions : txBlock[y] \in Nat \cup {None}
      /\ tx \in [Actions -> {"none", "pool", "success", "reverted", "gone"}]
      /\ txBlock \in [Actions -> Nat \cup {None}]
  BY DEF Typed, TypeOK, Height
<1>3. HeadInv'
  <2>1. /\ \A f \in Engines : block[f] <= head
        /\ \A acc \in Accounts : snapshot[acc] # None => snapshot[acc] <= head
        /\ \A y \in Actions : tx[y] = "success" => txBlock[y] <= head
    BY DEF FundInv, HeadInv
  <2>2. \A n \in Nat : n <= head => n <= head'
    BY <1>1, <1>2
  <2>3. /\ \A f \in Engines : block'[f] <= head'
        /\ \A acc \in Accounts : snapshot'[acc] # None => snapshot'[acc] <= head'
    BY <1>1, <1>2, <2>1, <2>2
  <2>4. \A y \in Actions : tx'[y] = "success" => txBlock'[y] <= head'
    <3> SUFFICES ASSUME NEW y \in Actions, tx'[y] = "success"
                 PROVE  txBlock'[y] <= head'
      OBVIOUS
    <3>1. CASE y = x
      BY <1>1, <1>2, <3>1
    <3>2. CASE y # x
      <4>1. tx[y] = "success" /\ txBlock'[y] = txBlock[y] /\ txBlock[y] <= head
        BY <1>1, <1>2, <2>1, <3>2
      <4>2. txBlock[y] \in Nat
        BY <4>1 DEF Inv, HoldInv
      <4> QED
        BY <2>2, <4>1, <4>2
    <3> QED
      BY <3>1, <3>2
  <2> QED
    BY <2>3, <2>4 DEF HeadInv
<1>4. ASSUME NEW height \in Nat, height <= head
      PROVE  /\ Beyond(height)' = Beyond(height) \cup {x}
             /\ x \notin Beyond(height) /\ Beyond(height) \in SUBSET Actions
  BY <1>1, <1>2, <1>4 DEF Beyond
<1>5. ASSUME NEW height \in Nat, height <= head, NEW acc \in Accounts
      PROVE  balance'[acc] + Total(Beyond(height)', acc)
               = balance[acc] + Total(Beyond(height), acc)
  <2>1. Total(Beyond(height)', acc) = Cost[x][acc] + Total(Beyond(height), acc)
    BY <1>4, <1>5, TotalAdd
  <2>2. /\ Total(Beyond(height), acc) \in Nat /\ Cost[x][acc] \in Nat
        /\ balance[acc] \in Nat
    BY <1>4, <1>5, TotalIsNat, LedgerAssumption DEF Typed, TypeOK
  <2> QED
    BY <1>1, <2>1, <2>2
<1>6. BookInv'
  BY <1>1, <1>2, <1>5 DEF FundInv, BookInv, HeadInv
<1>7. ReadInv'
  BY <1>1, <1>2, <1>5 DEF FundInv, ReadInv, HeadInv
<1>8. PledgeInv'
  <2> SUFFICES ASSUME NEW acc \in Accounts PROVE Total(Pledged', acc) <= balance'[acc]
    BY DEF PledgeInv
  <2>1. Pledged' = Pledged \ {x} /\ x \in Pledged /\ Pledged \in SUBSET Actions
    BY <1>1, <1>2 DEF Pledged
  <2>2. Total(Pledged, acc) = Cost[x][acc] + Total(Pledged', acc)
    BY <2>1, TotalRemove
  <2>3. /\ Total(Pledged, acc) <= balance[acc] /\ balance[acc] \in Nat
        /\ Pledged' \in SUBSET Actions /\ Cost[x][acc] \in Nat
    BY <2>1, LedgerAssumption DEF FundInv, PledgeInv, Typed, TypeOK
  <2>4. Total(Pledged', acc) \in Nat
    BY <2>3, TotalIsNat
  <2> QED
    BY <1>1, <2>2, <2>3, <2>4
<1> QED
  BY <1>3, <1>6, <1>7, <1>8 DEF FundInv

\* Nothing is published and nothing is pledged.
LEMMA FundInit == Init => FundInv
<1> SUFFICES ASSUME Init PROVE FundInv
  OBVIOUS
<1>1. /\ head = 0 /\ balance = Funds
      /\ \A e \in Engines : block[e] = 0 /\ pc[e] = "idle"
      /\ \A acc \in Accounts : snapshot[acc] = None /\ available[acc] = None
      /\ \A x \in Actions : tx[x] = "none" /\ slot[x] = "none"
  BY DEF Init
<1>2. HeadInv
  BY <1>1 DEF HeadInv
<1>3. BookInv /\ ReadInv
  BY <1>1 DEF BookInv, ReadInv
<1>4. PledgeInv
  <2>1. Pledged = {}
    BY <1>1 DEF Pledged
  <2>2. \A acc \in Accounts : Total(Pledged, acc) = 0 /\ Funds[acc] \in Nat
    BY <2>1, TotalNone, LedgerAssumption
  <2> QED
    BY <1>1, <2>2 DEF PledgeInv
<1> QED
  BY <1>2, <1>3, <1>4 DEF FundInv

\* A slot that settles is pledged no more unless its transaction is out.
LEMMA SettleWithdraws ==
  ASSUME TypeOK, NEW S \in SUBSET Actions, NEW outcome \in Outcomes,
         NEW height, Settle(S, outcome, height),
         \A x \in Actions : tx'[x] = tx[x] \/ (slot[x] = "open" /\ tx[x] = "none"),
         \A x \in Actions : tx'[x] = "none" => tx[x] = "none"
  PROVE  Pledged' \subseteq Pledged
<1>1. \A x \in Actions : slot'[x] = "open" => slot[x] = "open"
  BY DEF Settle, Outcomes
<1> QED
  BY <1>1 DEF Pledged

\* Every other step only withdraws pledges.
LEMMA FundRefreshing ==
  ASSUME Typed, Typed', Inv, FundInv, NEW e \in Engines, Refreshing(e)
  PROVE  FundInv'
<1>1. ASSUME ListOutflows(e) \/ \E x \in Actions : JudgeReceipt(e, x) \/ FailReceipt(e, x)
      PROVE  FundInv'
  <2>1. /\ UNCHANGED <<available, snapshot, slot, balance, head, tx, txBlock, block, read>>
        /\ \A f \in Engines : pc'[f] \in {"outflows", "receipts"} =>
              pc[f] \in {"outflows", "receipts"}
    BY <1>1 DEF ListOutflows, JudgeReceipt, FailReceipt, Goto, gate, chain, Typed, TypeOK
  <2>2. Pledged' = Pledged
    BY <2>1 DEF Pledged
  <2> QED
    BY <2>1, <2>2, FundsRest
<1> QED
  BY <1>1, ReadIsFunded, ApplyIsFunded DEF Refreshing

\* Sending keeps the books.
LEMMA FundSending ==
  ASSUME Typed, Typed', Inv, FundInv, NEW e \in Engines, Sending(e)
  PROVE  FundInv'
<1> SUFFICES ASSUME ~ \E x \in Actions : OpenSlot(e, x) PROVE FundInv'
  BY OpenIsFunded
<1>1. /\ UNCHANGED <<available, snapshot, balance, head, txBlock, block, read>>
      /\ \E label \in {"idle", "send", "wait"} : pc' = [pc EXCEPT ![e] = label] \/ pc' = pc
  BY DEF Sending, Receipt, CommitBroadcast, CommitAmbiguous, CommitNothing, ClaimThrows,
         EndSend, EndCycle, Settle, Goto, gate, refresh, chain
<1>2. \A f \in Engines : pc'[f] \in {"outflows", "receipts"} =>
         pc[f] \in {"outflows", "receipts"}
  BY <1>1 DEF Typed, TypeOK
<1>3. pc[e] = "commit" => cur[e] \in Actions /\ slot[cur[e]] = "open" /\ tx[cur[e]] = "none"
  BY DEF Inv, CommitInv, Typed, TypeOK
<1>4. /\ \A x \in Actions : tx'[x] = tx[x] \/ (slot[x] = "open" /\ tx[x] = "none")
      /\ \A x \in Actions : tx'[x] = "none" => tx[x] = "none"
      /\ \A x \in Actions : (tx'[x] = "success") <=> (tx[x] = "success")
  <2>1. CASE CommitBroadcast(e) \/ CommitAmbiguous(e)
    <3>1. /\ pc[e] = "commit"
          /\ \E fate \in {"pool", "gone"} : tx' = [tx EXCEPT ![cur[e]] = fate]
      BY <2>1 DEF CommitBroadcast, CommitAmbiguous
    <3> QED
      BY <1>3, <3>1 DEF Typed, TypeOK
  <2>2. CASE ~(CommitBroadcast(e) \/ CommitAmbiguous(e))
    <3>1. tx' = tx
      BY <2>2 DEF Sending, Receipt, CommitNothing, ClaimThrows, EndSend, EndCycle, chain
    <3> QED
      BY <3>1
  <2> QED
    BY <2>1, <2>2
<1>5. Pledged' \subseteq Pledged
  <2>1. \/ slot' = slot
        \/ \E S \in SUBSET Actions, outcome \in Outcomes, height \in Height :
              Settle(S, outcome, height)
    <3>1. ASSUME NEW x \in Actions, Receipt(e, x)
          PROVE  \E S \in SUBSET Actions, outcome \in Outcomes, height \in Height :
                    Settle(S, outcome, height)
      <4>1. \E outcome \in Outcomes, height \in Height : Settle({x}, outcome, height)
        BY <3>1 DEF Receipt, Outcomes, Typed, TypeOK, Height
      <4> QED
        BY <4>1
    <3>2. ASSUME CommitAmbiguous(e) \/ CommitNothing(e) \/ ClaimThrows(e)
          PROVE  \E S \in SUBSET Actions, outcome \in Outcomes, height \in Height :
                    Settle(S, outcome, height)
      <4>1. pc[e] = "commit" /\ sent[e] \subseteq Actions
        BY <3>2 DEF CommitAmbiguous, CommitNothing, ClaimThrows, Typed, TypeOK
      <4>2. {cur[e]} \in SUBSET Actions /\ sent[e] \cup {cur[e]} \in SUBSET Actions
        BY <1>3, <4>1
      <4> QED
        BY <3>2, <4>2 DEF CommitAmbiguous, CommitNothing, ClaimThrows, Aborted, Outcomes, Height
    <3> QED
      BY <3>1, <3>2 DEF Sending, CommitBroadcast, EndSend, EndCycle
  <2>2. CASE slot' = slot
    BY <1>4, <2>2 DEF Pledged
  <2> QED
    BY <1>4, <2>1, <2>2, SettleWithdraws DEF Typed
<1> QED
  BY <1>1, <1>2, <1>4, <1>5, FundsRest

\* So does the chain.
LEMMA FundChain ==
  ASSUME Typed, Typed', Inv, FundInv, Chain
  PROVE  FundInv'
<1>1. ASSUME NEW x \in Actions, MineTx(x, "reverted")
      PROVE  FundInv'
  <2>1. /\ tx[x] = "pool" /\ tx' = [tx EXCEPT ![x] = "reverted"]
        /\ head' = head + 1 /\ txBlock' = [txBlock EXCEPT ![x] = head']
        /\ UNCHANGED <<balance, available, snapshot, slot, pc, block, read>>
    BY <1>1 DEF MineTx, gate, refresh
  <2>2. /\ \A y \in Actions : tx'[y] = "success" <=> tx[y] = "success"
        /\ \A y \in Actions : tx[y] = "success" => txBlock'[y] = txBlock[y]
        /\ \A y \in Actions : (tx'[y] \in {"pool", "none"}) =>
              tx'[y] = tx[y]
    BY <2>1 DEF Typed, TypeOK
  <2>3. HeadInv'
    <3>1. /\ head \in Nat /\ \A f \in Engines : block[f] \in Nat
          /\ \A acc \in Accounts : snapshot[acc] \in Nat \cup {None}
          /\ \A y \in Actions : tx[y] = "success" => txBlock[y] \in Nat
      BY DEF Typed, TypeOK, Height, Inv, HoldInv
    <3>2. \A n \in Nat : n <= head => n <= head'
      BY <2>1, <3>1
    <3> QED
      BY <2>1, <2>2, <3>1, <3>2 DEF FundInv, HeadInv
  <2>4. \A h : Beyond(h)' = Beyond(h)
    BY <2>2 DEF Beyond
  <2>5. BookInv' /\ ReadInv'
    BY <2>1, <2>4 DEF FundInv, BookInv, ReadInv
  <2>6. Pledged' \in SUBSET Actions /\ Pledged \in SUBSET Actions /\ Pledged' \subseteq Pledged
    BY <2>1, <2>2 DEF Pledged
  <2>7. PledgeInv'
    BY <2>1, <2>6, PledgesShrink DEF FundInv
  <2> QED
    BY <2>3, <2>5, <2>7 DEF FundInv
<1>2. ASSUME NEW x \in Actions, Drop(x) \/ Resolve(x)
      PROVE  FundInv'
  <2>1. UNCHANGED <<slot, pc, balance, head, txBlock, available, snapshot, block, read>>
    BY <1>2 DEF Drop, Resolve, gate, refresh
  <2>2. \A y \in Actions : \/ tx'[y] = tx[y]
                           \/ tx[y] = "pool" /\ tx'[y] = "gone"
    BY <1>2 DEF Drop, Resolve, Typed, TypeOK
  <2>3. Pledged' \subseteq Pledged
    BY <2>1, <2>2 DEF Pledged
  <2>4. \A y \in Actions : (tx'[y] = "success") <=> (tx[y] = "success")
    BY <2>2
  <2> QED
    BY <2>1, <2>3, <2>4, FundsRest
<1> QED
  BY <1>1, <1>2, MineIsFunded DEF Chain

\* Every step keeps the books.
LEMMA FundNext == Typed /\ Typed' /\ Inv /\ FundInv /\ [Next]_vars => FundInv'
<1> SUFFICES ASSUME Typed, Typed', Inv, FundInv, [Next]_vars PROVE FundInv'
  OBVIOUS
<1>1. CASE UNCHANGED vars
  <2>1. UNCHANGED <<balance, head, tx, txBlock, slot, pc, available, snapshot, block, read>>
    BY <1>1 DEF vars, gate, refresh, chain
  <2>2. Pledged' = Pledged
    BY <2>1 DEF Pledged
  <2> QED
    BY <2>1, <2>2, FundsRest
<1> QED
  BY <1>1, FundRefreshing, FundSending, FundChain DEF Next

(* No money is committed twice: what may still be mined is covered by what *)
(* the signer holds, account by account, through any order of refreshes of *)
(* any engines that read any of the accounts, receipts that come late or   *)
(* not at all, and transactions that revert or drop out (gate.ts canAfford,*)
(* settle, applySnapshot).                                                 *)
THEOREM NoMoneyTwice ==
  ASSUME Orderly
  PROVE  Spec => []NoOverdraft
<1>1. FundInv /\ Typed => NoOverdraft
  <2> SUFFICES ASSUME FundInv, Typed, NEW acc \in Accounts
               PROVE  Total({x \in Actions : tx[x] = "pool"}, acc) <= balance[acc]
    BY DEF NoOverdraft
  <2> DEFINE pool == {x \in Actions : tx[x] = "pool"}
  <2>1. /\ pool \in SUBSET Actions /\ Pledged \in SUBSET Actions
        /\ pool \subseteq Pledged
    BY DEF Pledged
  <2> HIDE DEF pool
  <2>2. Total(pool, acc) <= Total(Pledged, acc)
    BY <2>1, TotalCovers
  <2>3. Total(pool, acc) \in Nat /\ Total(Pledged, acc) \in Nat
    BY <2>1, TotalIsNat
  <2>4. balance[acc] \in Nat /\ Total(Pledged, acc) <= balance[acc]
    BY DEF FundInv, PledgeInv, Typed, TypeOK
  <2>5. Total(pool, acc) <= balance[acc]
    BY <2>2, <2>3, <2>4
  <2> QED
    BY <2>5 DEF pool
<1> QED
  BY <1>1, FundInit, FundNext, TypedHolds, InvHolds, PTL DEF Spec

=============================================================================
