------------------------- MODULE RouterFunding_proofs -------------------------
(***************************************************************************)
(* Proofs about RouterFunding, for any vaults, treasury, prices, lifetimes *)
(* and bounds.                                                             *)
(*                                                                         *)
(* That the treasury can pay is not inductive.  SlotInv: what the gate     *)
(* reserves is what the open slots ask, one slot a vault at most, and a    *)
(* backed batch has such a slot.  BookInv: the payments part in two, those *)
(* whose batches may have been retired and the others; a batch that may    *)
(* execute, or whose payment is of the others, is on record; and the       *)
(* batches of the vaults not sold by the former fit, with the slots or     *)
(* with all that the gate offers, in what the former left.  It ends where  *)
(* a batch is overlooked.                                                  *)
(***************************************************************************)
EXTENDS RouterFunding, SumTheorems, FiniteSetTheorems, TLAPS

LEMMA Constants ==
  /\ None \notin Int /\ None \notin Vaults /\ None \notin Inventory
  /\ IsFiniteSet(Vaults)
  /\ Funds \in Nat /\ MaxPrice \in Nat \ {0} /\ SlippageBps \in 0..10000
  /\ Life \in Nat \ {0} /\ Margin \in Nat /\ Depth \in Nat /\ Depth <= Margin + 1
  /\ MaxHeight \in Nat /\ MaxTx \in Nat
<1> QED
  BY RouterAssumption, NoneAssumption

LEMMA FiniteTx == IsFiniteSet(TxIds)
<1>1. 1 \in Int /\ MaxTx \in Int
  BY Constants
<1> QED
  BY <1>1, FS_Interval DEF TxIds

LEMMA MaxIs ==
  ASSUME NEW S \in SUBSET Amounts, S # {}
  PROVE  Max(S) \in S /\ \A x \in S : x <= Max(S)
<1> DEFINE top == 2 * MaxPrice
           T == {top - x : x \in S}
<1>1. top \in Nat
  BY Constants
<1>2. \A x \in S : x \in Nat /\ x <= top
  BY <1>1 DEF Amounts
<1> HIDE DEF top
<1>3. T \in SUBSET Nat /\ T # {}
  BY <1>1, <1>2
<1>4. PICK m \in T : \A k \in T : m <= k
  BY <1>3, SmallestNumber
<1>5. PICK x \in S : m = top - x
  BY <1>4
<1>6. \A y \in S : top - x <= top - y
  BY <1>4, <1>5
<1>7. \A y \in S : y <= x
  BY <1>1, <1>2, <1>6
<1>8. \A y \in S : x >= y
  BY <1>2, <1>7
<1>9. Max(S) \in S /\ \A y \in S : Max(S) >= y
  BY <1>8 DEF Max
<1> QED
  BY <1>2, <1>9

-----------------------------------------------------------------------------
(* What the batches on record hold, vault by vault. *)

Asked(A, v) == {a.most : a \in {b \in {c \in A : ~c.backed} : b.vault = v}}
Worst(A, v) == IF Asked(A, v) = {} THEN 0 ELSE Max(Asked(A, v))
\* Leaving aside the vaults in Z.
WorstOf(A, Z) == [v \in Vaults |-> IF v \in Z THEN 0 ELSE Worst(A, v)]

LEMMA WorstIs ==
  ASSUME NEW A \in SUBSET Auth, NEW v
  PROVE  /\ Worst(A, v) \in Nat
         /\ \A a \in A : ~a.backed /\ a.vault = v => a.most <= Worst(A, v)
         /\ \/ Worst(A, v) = 0
            \/ \E a \in A : ~a.backed /\ a.vault = v /\ a.most = Worst(A, v)
<1>1. Asked(A, v) \in SUBSET Amounts
  BY DEF Asked, Auth
<1>2. Amounts \subseteq Nat
  BY Constants DEF Amounts
<1>3. CASE Asked(A, v) = {}
  BY <1>3 DEF Worst, Asked
<1>4. CASE Asked(A, v) # {}
  <2>1. Worst(A, v) \in Asked(A, v) /\ \A x \in Asked(A, v) : x <= Worst(A, v)
    BY <1>1, <1>4, MaxIs DEF Worst
  <2>2. Worst(A, v) \in Nat
    BY <1>1, <1>2, <2>1
  <2> QED
    BY <2>1, <2>2 DEF Asked
<1> QED
  BY <1>3, <1>4

LEMMA WorstWeighs ==
  ASSUME NEW A \in SUBSET Auth, NEW Z
  PROVE  Weights(WorstOf(A, Z), Vaults)
<1>1. \A v \in Vaults : Worst(A, v) \in Nat
  BY WorstIs
<1> QED
  BY <1>1, Constants DEF Weights, WorstOf

LEMMA HeldIs ==
  ASSUME NEW A \in SUBSET Auth
  PROVE  Held(A) = Sum(WorstOf(A, {}), Vaults) /\ Held(A) \in Nat
<1> DEFINE w == WorstOf(A, {})
           open == {a \in A : ~a.backed}
           S == {a.vault : a \in open}
           Fold(f) == f = [s \in SUBSET S |-> IF s = {} THEN 0
                         ELSE Max(Asked(A, Pick(s))) + f[s \ {Pick(s)}]]
<1>1. Held(A) = (CHOOSE f : Fold(f))[S]
  BY DEF Held, MapThenSumSet, MapThenFoldSet, Pick, Asked
<1>2. S \in SUBSET Vaults
  BY DEF Auth
<1>3. IsFiniteSet(S)
  BY <1>2, Constants, FS_Subset
<1>4. \A f : Fold(f) <=> Sums(f, S, w)
  <2> SUFFICES ASSUME NEW f PROVE Fold(f) <=> Sums(f, S, w)
    OBVIOUS
  <2>1. \A v \in S : w[v] = Max(Asked(A, v))
    <3>1. \A v \in S : Asked(A, v) # {}
      BY DEF Asked
    <3> QED
      BY <1>2, <3>1 DEF WorstOf, Worst
  <2> HIDE DEF w, open
  <2>2. \A s \in SUBSET S : s # {} => w[Pick(s)] = Max(Asked(A, Pick(s)))
    BY <2>1, Picked
  <2>3. \A s \in SUBSET S : Step(f, s, w) = IF s = {} THEN 0
                         ELSE Max(Asked(A, Pick(s))) + f[s \ {Pick(s)}]
    BY <2>2 DEF Step
  <2> QED
    BY <2>3 DEF Sums
<1>5. \E f : Fold(f)
  BY <1>3, <1>4, SumExists
<1> DEFINE g == CHOOSE f : Fold(f)
<1> HIDE DEF Fold
<1>6. Sums(g, S, w)
  BY <1>4, <1>5
<1> HIDE DEF g
<1>7. g[S] = Sum(w, S)
  BY <1>3, <1>6, SumByRecursion
<1>8. Weights(w, Vaults)
  BY WorstWeighs
<1>9. \A v \in Vaults : w[v] \in Nat /\ (v \in S \/ w[v] = 0)
  <2>1. \A v \in Vaults : v \notin S => Asked(A, v) = {}
    BY DEF Asked
  <2> QED
    BY <1>8, <2>1 DEF WorstOf, Worst, Weights
<1> HIDE DEF w, S
<1>10. Sum(w, Vaults) <= Sum(w, S) /\ Sum(w, S) <= Sum(w, Vaults)
  <2>1. \A v \in Vaults : (v \in S /\ w[v] <= w[v]) \/ w[v] = 0
    BY <1>9
  <2>2. \A v \in S : v \in Vaults /\ w[v] <= w[v]
    BY <1>2, <1>9
  <2> QED
    BY <1>2, <1>8, <2>1, <2>2, SumCovers
<1>11. Sum(w, Vaults) \in Nat /\ Sum(w, S) \in Nat
  BY <1>2, <1>8, SumIsNat
<1> QED
  BY <1>1, <1>7, <1>10, <1>11 DEF g, w

\* A record that holds no more anywhere holds no more.
LEMMA HeldCovers ==
  ASSUME NEW A \in SUBSET Auth, NEW B \in SUBSET Auth,
         \A v \in Vaults : Worst(A, v) <= Worst(B, v)
  PROVE  Held(A) <= Held(B)
<1>1. \A v \in Vaults : WorstOf(A, {})[v] <= WorstOf(B, {})[v]
  BY DEF WorstOf
<1>2. Vaults \in SUBSET Vaults
  OBVIOUS
<1> QED
  BY <1>1, <1>2, HeldIs, WorstWeighs, SumCovers

LEMMA HeldBounds ==
  ASSUME NEW A \in SUBSET Auth, NEW Z
  PROVE  Sum(WorstOf(A, Z), Vaults) <= Held(A) /\ Sum(WorstOf(A, Z), Vaults) \in Nat
<1>1. \A v \in Vaults : WorstOf(A, Z)[v] <= WorstOf(A, {})[v]
  <2>1. \A v \in Vaults : Worst(A, v) \in Nat
    BY WorstIs
  <2> QED
    BY <2>1 DEF WorstOf
<1>2. Vaults \in SUBSET Vaults
  OBVIOUS
<1> QED
  BY <1>1, <1>2, HeldIs, WorstWeighs, SumCovers, SumIsNat

\* Batches that stay as they are, or are backed, hold no more than they did.
LEMMA FewerOpen ==
  ASSUME NEW A \in SUBSET Auth, NEW B \in SUBSET Auth,
         \A a \in A : a \in B \/ a.backed
  PROVE  /\ \A v \in Vaults : Worst(A, v) <= Worst(B, v)
         /\ Held(A) <= Held(B)
<1>1. \A v \in Vaults : Worst(A, v) <= Worst(B, v)
  <2> SUFFICES ASSUME NEW v \in Vaults PROVE Worst(A, v) <= Worst(B, v)
    OBVIOUS
  <2>1. /\ Worst(A, v) \in Nat /\ Worst(B, v) \in Nat
        /\ \A a \in B : ~a.backed /\ a.vault = v => a.most <= Worst(B, v)
        /\ \/ Worst(A, v) = 0
           \/ \E a \in A : ~a.backed /\ a.vault = v /\ a.most = Worst(A, v)
    BY WorstIs
  <2> QED
    BY <2>1
<1> QED
  BY <1>1, HeldCovers

-----------------------------------------------------------------------------
(* A batch is settled. *)

LEMMA SettledIs ==
  ASSUME NEW A \in SUBSET Auth, NEW id, NEW block \in (1..MaxHeight) \cup {None}
  PROVE  /\ Settled(A, id, block) \in SUBSET Auth
         /\ \A a \in A : Id(a) # id => a \in Settled(A, id, block)
         /\ \A a \in A : \E b \in Settled(A, id, block) : Id(b) = Id(a)
         /\ \A b \in Settled(A, id, block) :
               \E a \in A : /\ Id(a) = Id(b)
                            /\ Id(a) # id => b = a
                            /\ Id(a) = id => /\ ~b.backed
                                             /\ b.executedAt \in {a.executedAt, block}
<1> DEFINE new(a) == [a EXCEPT !.backed = FALSE,
                               !.executedAt = IF block # None THEN block ELSE @]
<1>1. \A a \in A : new(a) \in Auth /\ Id(new(a)) = Id(a) /\ ~new(a).backed
                   /\ new(a).executedAt \in {a.executedAt, block}
  BY DEF Auth, Id
<1>2. Settled(A, id, block) = {IF Id(a) = id THEN new(a) ELSE a : a \in A}
  BY DEF Settled
<1> HIDE DEF new
<1> QED
  BY <1>1, <1>2

\* It is held from now on, which costs at most what its slot reserved.
LEMMA SettledHolds ==
  ASSUME NEW A \in SUBSET Auth, NEW id \in Batch, NEW block \in (1..MaxHeight) \cup {None}
  PROVE  /\ \A v \in Vaults \ {id.vault} : Worst(Settled(A, id, block), v) <= Worst(A, v)
         /\ Worst(Settled(A, id, block), id.vault) <= Worst(A, id.vault) + id.most
         /\ (\E b \in A : ~b.backed /\ b.vault = id.vault /\ b.most >= id.most)
              => Worst(Settled(A, id, block), id.vault) <= Worst(A, id.vault)
<1> DEFINE B == Settled(A, id, block)
<1>1. /\ B \in SUBSET Auth
      /\ \A b \in B : \E a \in A : Id(a) = Id(b) /\ (Id(a) # id => b = a)
  BY SettledIs
<1>2. \A a \in Auth : /\ Id(a).vault = a.vault /\ Id(a).most = a.most
                      /\ a.most \in Nat
  BY Constants DEF Id, Auth, Amounts
<1>3. id.vault \in Vaults /\ id.most \in Nat
  BY Constants DEF Batch, Amounts
<1> HIDE DEF B
<1>4. \A v : /\ Worst(A, v) \in Nat /\ Worst(B, v) \in Nat
             /\ \A a \in A : ~a.backed /\ a.vault = v => a.most <= Worst(A, v)
             /\ \/ Worst(B, v) = 0
                \/ \E b \in B : ~b.backed /\ b.vault = v /\ b.most = Worst(B, v)
  BY <1>1, WorstIs
<1>5. \A b \in B : ~b.backed =>
         \/ b.vault = id.vault /\ b.most = id.most
         \/ b \in A /\ b.most <= Worst(A, b.vault)
  <2> SUFFICES ASSUME NEW b \in B, ~b.backed
               PROVE  \/ b.vault = id.vault /\ b.most = id.most
                      \/ b \in A /\ b.most <= Worst(A, b.vault)
    OBVIOUS
  <2>1. PICK a \in A : Id(a) = Id(b) /\ (Id(a) # id => b = a)
    BY <1>1
  <2>2. b \in Auth
    BY <1>1
  <2>3. CASE Id(a) = id
    BY <1>2, <2>1, <2>2, <2>3
  <2>4. CASE Id(a) # id
    BY <1>4, <2>1, <2>4
  <2> QED
    BY <2>3, <2>4
<1>6. \A v \in Vaults \ {id.vault} : Worst(B, v) <= Worst(A, v)
  <2> SUFFICES ASSUME NEW v \in Vaults \ {id.vault} PROVE Worst(B, v) <= Worst(A, v)
    OBVIOUS
  <2>1. CASE Worst(B, v) = 0
    BY <1>4, <2>1
  <2>2. CASE \E b \in B : ~b.backed /\ b.vault = v /\ b.most = Worst(B, v)
    BY <1>5, <2>2
  <2> QED
    BY <1>4, <2>1, <2>2
<1>7. Worst(B, id.vault) <= Worst(A, id.vault) \/ Worst(B, id.vault) = id.most
  <2>1. CASE Worst(B, id.vault) = 0
    BY <1>4, <2>1
  <2>2. CASE \E b \in B : ~b.backed /\ b.vault = id.vault /\ b.most = Worst(B, id.vault)
    BY <1>5, <2>2
  <2> QED
    BY <1>4, <2>1, <2>2
<1>8. Worst(A, id.vault) \in Nat /\ Worst(B, id.vault) \in Nat
  BY <1>4
<1>9. Worst(B, id.vault) <= Worst(A, id.vault) + id.most
  BY <1>3, <1>7, <1>8
<1>10. ASSUME NEW b \in A, ~b.backed, b.vault = id.vault, b.most >= id.most
       PROVE  Worst(B, id.vault) <= Worst(A, id.vault)
  <2>1. b.most <= Worst(A, id.vault) /\ b.most \in Nat
    BY <1>2, <1>4, <1>10
  <2> QED
    BY <1>3, <1>7, <1>8, <1>10, <2>1
<1> QED
  BY <1>6, <1>9, <1>10 DEF B

LEMMA SettledIsHeld ==
  ASSUME NEW A \in SUBSET Auth, NEW id \in Batch, NEW block \in (1..MaxHeight) \cup {None},
         NEW Z
  PROVE  Sum(WorstOf(Settled(A, id, block), Z), Vaults)
           <= Sum(WorstOf(A, Z), Vaults) + id.most
<1> DEFINE B == Settled(A, id, block)
           w == WorstOf(A, Z)
           u == [w EXCEPT ![id.vault] = @ + id.most]
<1>1. /\ B \in SUBSET Auth
      /\ \A v \in Vaults \ {id.vault} : Worst(B, v) <= Worst(A, v)
      /\ Worst(B, id.vault) <= Worst(A, id.vault) + id.most
  BY SettledIs, SettledHolds
<1>2. id.vault \in Vaults /\ id.most \in Nat
  BY Constants DEF Batch, Amounts
<1>3. Weights(w, Vaults)
      /\ \A v \in Vaults : w[v] = IF v \in Z THEN 0 ELSE Worst(A, v)
  BY WorstWeighs DEF WorstOf
<1>4. Weights(WorstOf(B, Z), Vaults)
      /\ \A v \in Vaults : WorstOf(B, Z)[v] = IF v \in Z THEN 0 ELSE Worst(B, v)
  BY <1>1, WorstWeighs DEF WorstOf
<1> HIDE DEF w, B
<1>5. /\ Weights(u, Vaults) /\ u[id.vault] = w[id.vault] + id.most
      /\ \A v \in Vaults : v # id.vault => u[v] = w[v]
  BY <1>2, <1>3 DEF Weights
<1> HIDE DEF u
<1>6. Sum(u, Vaults) = (Sum(w, Vaults) - w[id.vault]) + u[id.vault]
  BY <1>2, <1>3, <1>5, SumChange
<1>7. Sum(WorstOf(B, Z), Vaults) <= Sum(u, Vaults)
  <2>1. \A v \in Vaults : v \in Vaults /\ WorstOf(B, Z)[v] <= u[v]
    BY <1>1, <1>2, <1>3, <1>4, <1>5 DEF Weights
  <2>2. Vaults \in SUBSET Vaults
    OBVIOUS
  <2> QED
    BY <1>4, <1>5, <2>1, <2>2, SumCovers
<1>9. Sum(w, Vaults) \in Nat /\ w[id.vault] \in Nat
  BY <1>2, <1>3, SumIsNat DEF Weights
<1>10. Sum(WorstOf(B, Z), Vaults) <= Sum(w, Vaults) + id.most
  <2>1. Sum(u, Vaults) = Sum(w, Vaults) + id.most
    BY <1>2, <1>5, <1>6, <1>9
  <2> QED
    BY <1>7, <2>1
<1> QED
  BY <1>10 DEF B, w

-----------------------------------------------------------------------------
(* Retired batches.  Whoever is neither known to have executed, nor        *)
(* expired, nor of a vault the router sold stays.                          *)

Paid == {t \in TxIds : tx[t].state = "paid"}
Vault(t) == tx[t].batch.vault

LEMMA RetiredIs ==
  ASSUME NEW A \in SUBSET Auth, NEW head
  PROVE  /\ Retired(A, head) \subseteq Lasting(A, head) /\ Lasting(A, head) \subseteq A
         /\ \A a \in A :
               \/ a \in Retired(A, head)
               \/ MinedBy(a, head) \/ Expired(a, head)
               \/ \E t \in Paid : tx[t].at <= head /\ Vault(t) = a.vault
<1> DEFINE left == Lasting(A, head)
<1>1. Retired(A, head) = IF left = {} THEN {}
                         ELSE {a \in left : a.vault \notin Acquired(left, head)}
  BY DEF Retired
<1>2. \A v \in Acquired(left, head) : \E t \in Paid : tx[t].at <= head /\ Vault(t) = v
  <2> HIDE DEF left
  <2> QED
    BY DEF Acquired, Paid, Vault
<1>3. \A a \in A : a \in left \/ MinedBy(a, head) \/ Expired(a, head)
  BY DEF Lasting
<1>4. left \subseteq A
  BY DEF Lasting
<1>5. Retired(A, head) \subseteq left
  <2> HIDE DEF left
  <2> QED
    BY <1>1
<1>6. \A a \in left : \/ a \in Retired(A, head)
                      \/ \E t \in Paid : tx[t].at <= head /\ Vault(t) = a.vault
  <2> HIDE DEF left
  <2> QED
    BY <1>1, <1>2
<1> QED
  BY <1>3, <1>4, <1>5, <1>6

-----------------------------------------------------------------------------
(* The treasury's balance. *)

PaidOf == [t \in TxIds |-> tx[t].paid]
Seen(h) == {t \in Paid : tx[t].at <= h}

LEMMA PaidWeighs ==
  ASSUME TypeOK
  PROVE  Weights(PaidOf, TxIds)
<1>1. \A t \in TxIds : tx[t].paid \in Nat
  BY Constants DEF TypeOK, Tx, Amounts
<1> QED
  BY <1>1, FiniteTx DEF Weights, PaidOf

LEMMA BalanceIs ==
  ASSUME NEW h
  PROVE  BalanceAt(h) = Funds - Sum(PaidOf, Seen(h))
<1> DEFINE w == PaidOf
           S == {t \in TxIds : tx[t].state = "paid" /\ tx[t].at <= h}
           Fold(f) == f = [s \in SUBSET S |-> IF s = {} THEN 0
                         ELSE tx[Pick(s)].paid + f[s \ {Pick(s)}]]
<1>1. BalanceAt(h) = Funds - (CHOOSE f : Fold(f))[S]
  BY DEF BalanceAt, MapThenSumSet, MapThenFoldSet, Pick
<1>2. IsFiniteSet(S)
  BY FiniteTx, FS_Subset
<1>3. \A f : Fold(f) <=> Sums(f, S, w)
  <2> SUFFICES ASSUME NEW f PROVE Fold(f) <=> Sums(f, S, w)
    OBVIOUS
  <2>1. \A t \in S : w[t] = tx[t].paid
    BY DEF PaidOf
  <2> HIDE DEF w, S
  <2>2. \A s \in SUBSET S : s # {} => w[Pick(s)] = tx[Pick(s)].paid
    BY <2>1, Picked
  <2>3. \A s \in SUBSET S : Step(f, s, w) = IF s = {} THEN 0
                         ELSE tx[Pick(s)].paid + f[s \ {Pick(s)}]
    BY <2>2 DEF Step
  <2> QED
    BY <2>3 DEF Sums
<1>4. \E f : Fold(f)
  BY <1>2, <1>3, SumExists
<1> DEFINE g == CHOOSE f : Fold(f)
<1> HIDE DEF Fold
<1>5. Sums(g, S, w)
  BY <1>3, <1>4
<1> HIDE DEF g
<1>6. g[S] = Sum(w, S)
  BY <1>2, <1>5, SumByRecursion
<1>7. S = Seen(h)
  BY DEF Seen, Paid
<1> QED
  BY <1>1, <1>6, <1>7 DEF g

-----------------------------------------------------------------------------
(* The invariants. *)

Recorded(b) == \E a \in auths : Id(a) = b
MostOf == [t \in TxIds |-> IF tx[t].state = "none" THEN 0 ELSE tx[t].batch.most]

\* The slot being judged and the slots that await a receipt are of different
\* vaults, which this cycle does not judge again.
EngineInv ==
    /\ engine.at = "judge" => engine = Idle
    /\ engine.at # "judge" => engine.vault \in Vaults \ todo
    /\ engine.at = "commit" => /\ engine.batch \in Batch /\ Recorded(engine.batch)
                               /\ engine.batch.vault = engine.vault
                               /\ engine.batch.most = engine.most
WaitInv ==
    /\ \A t \in waiting : /\ tx[t].state # "none" /\ Recorded(tx[t].batch)
                          /\ Vault(t) \notin todo /\ Vault(t) # engine.vault
    /\ \A t, u \in waiting : Vault(t) = Vault(u) => t = u
Backing ==
    \A a \in auths : a.backed =>
        \/ engine.at = "commit" /\ engine.batch = Id(a)
        \/ \E t \in waiting : tx[t].batch = Id(a)
Reserving == gate.reserved = engine.most + Sum(MostOf, waiting)
SlotInv == EngineInv /\ WaitInv /\ Backing /\ Reserving

\* The router sells a vault once, within its ceiling and its deadline.
TxInv ==
    /\ \A t \in TxIds : tx[t].state # "none" => tx[t].batch \in Batch
    /\ \A t \in Paid : /\ tx[t].at \in 1..MaxHeight /\ tx[t].at <= tx[t].batch.deadline
                       /\ tx[t].paid <= tx[t].batch.most /\ Vault(t) \notin escrow
    /\ \A t, u \in Paid : Vault(t) = Vault(u) => t = u
    /\ Sum(PaidOf, Paid) <= Funds
ExecutedInv ==
    \A a \in auths : a.executedAt # None =>
        \E t \in Paid : Vault(t) = a.vault /\ tx[t].at = a.executedAt

\* The gate's figure is no older than the last refresh and, where it is of the
\* same block, no more than that and the record leave.
GateInv ==
    /\ inventory = None =>
          /\ gate.available = None /\ gate.block = 0 /\ gate.reserved = 0
          /\ auths = {} /\ engine = Idle /\ todo = {} /\ waiting = {}
          /\ \A t \in TxIds : tx[t].state = "none"
    /\ inventory # None =>
          /\ gate.available \in Nat /\ inventory.block <= gate.block
          /\ inventory.block = gate.block =>
                gate.available <= NetOf(inventory.balance, Held(auths))

\* The batches of the payments in S may have been retired.
Left(S) == Funds - Sum(PaidOf, S)
Sold(S) == {Vault(t) : t \in S}
Rest(S) == Sum(WorstOf(auths, Sold(S)), Vaults)
Live(t) == /\ tx[t].state = "live" /\ Vault(t) \in escrow
           /\ tx[t].batch.deadline >= height + 1 - Depth
Busy == engine # Idle \/ waiting # {} \/ todo # {}
Book(S) ==
    /\ S \subseteq Paid /\ \A t \in S : tx[t].at <= retiredTo
    /\ \A t \in TxIds : Live(t) \/ t \in Paid \ S => Recorded(tx[t].batch)
    /\ Rest(S) + gate.reserved <= Left(S)
    /\ inventory # None =>
          /\ gate.available = 0 \/ Rest(S) + gate.available <= Left(S)
          /\ Busy /\ inventory.block = gate.block => inventory.balance <= Left(S)
BookInv == overlooked \/ \E S \in SUBSET TxIds : Book(S)

Inv == TypeOK /\ SlotInv /\ TxInv /\ ExecutedInv /\ GateInv /\ BookInv

LEMMA MostWeighs ==
  ASSUME TxInv
  PROVE  Weights(MostOf, TxIds)
<1>1. \A t \in TxIds : tx[t].state # "none" => tx[t].batch.most \in Nat
  BY Constants DEF TxInv, Batch, Amounts
<1> QED
  BY <1>1, FiniteTx DEF Weights, MostOf

\* Figures that are used again and again.
LEMMA Figures ==
  ASSUME Inv
  PROVE  /\ gate \in [available : Nat \cup {None}, block : Heights, reserved : Nat]
         /\ engine.most \in Nat /\ height \in Nat /\ price \in Nat
         /\ Sum(MostOf, waiting) \in Nat
         /\ \A t \in TxIds : tx[t] \in Tx
         /\ \A a \in auths : a \in Auth /\ Id(a) \in Batch /\ a.most \in Nat
<1>1. Sum(MostOf, waiting) \in Nat
  BY MostWeighs, SumIsNat DEF Inv, TypeOK
<1>2. \A a \in Auth : Id(a) \in Batch /\ a.most \in Nat
  BY Constants DEF Auth, Id, Batch, Amounts
<1> QED
  BY <1>1, <1>2, Constants DEF Inv, TypeOK, Heights, Amounts

LEMMA InvInit == Init => Inv
<1> SUFFICES ASSUME Init PROVE Inv
  OBVIOUS
<1>1. /\ height = 0 /\ price = 1 /\ escrow = Vaults /\ auths = {} /\ inventory = None
      /\ gate = [available |-> None, block |-> 0, reserved |-> 0]
      /\ engine = Idle /\ todo = {} /\ waiting = {}
      /\ tx = [t \in TxIds |-> NoTx]
      /\ retiredTo = 0 /\ overlooked = FALSE
  BY DEF Init
<1>2. /\ Paid = {} /\ \A t \in TxIds : tx[t].state = "none"
  BY <1>1 DEF Paid, NoTx
<1>3. TypeOK
  <2>1. tx \in [TxIds -> Tx]
    BY <1>1, Constants DEF NoTx, Tx, Amounts
  <2>2. height \in Heights /\ price \in 1..MaxPrice /\ retiredTo \in Heights
    BY <1>1, Constants DEF Heights
  <2>3. gate \in [available : Nat \cup {None}, block : Heights, reserved : Nat]
    BY <1>1, Constants DEF Heights
  <2>4. engine \in [at : {"judge", "sign", "commit"}, vault : Vaults \cup {None},
                    most : Amounts, batch : Batch \cup {None}]
    BY <1>1, Constants DEF Idle, Amounts
  <2>5. overlooked \in BOOLEAN
    BY <1>1
  <2> QED
    BY <1>1, <2>1, <2>2, <2>3, <2>4, <2>5 DEF TypeOK
<1>4. /\ Weights(PaidOf, TxIds) /\ {} \in SUBSET TxIds
      /\ Weights(WorstOf({}, {}), Vaults) /\ Vaults \in SUBSET Vaults
  BY <1>3, PaidWeighs, WorstWeighs
<1>5. TxInv
  <2>1. Sum(PaidOf, {}) = 0
    BY <1>4, SumStep
  <2> QED
    BY <1>2, <2>1, Constants DEF TxInv
<1>6. Sum(MostOf, {}) = 0 /\ Sum(PaidOf, {}) = 0
  BY <1>4, <1>5, MostWeighs, SumStep
<1>7. Sum(WorstOf({}, {}), Vaults) = 0
  <2>1. \A v \in Vaults : WorstOf({}, {})[v] = 0
    BY DEF WorstOf, Worst, Asked
  <2>2. {} \in SUBSET Vaults /\ Sum(WorstOf({}, {}), {}) = 0
    BY <1>4, SumStep
  <2>3. Sum(WorstOf({}, {}), Vaults) <= Sum(WorstOf({}, {}), {})
    BY <1>4, <2>1, <2>2, SumCovers
  <2> QED
    BY <1>4, <2>2, <2>3, SumIsNat
<1>8. SlotInv
  BY <1>1, <1>6 DEF SlotInv, EngineInv, WaitInv, Backing, Reserving, Idle
<1>9. ExecutedInv /\ GateInv
  BY <1>1, <1>2 DEF ExecutedInv, GateInv
<1>10. Book({})
  <2>1. Rest({}) = 0 /\ Left({}) = Funds
    <3>1. Sold({}) = {}
      BY DEF Sold
    <3> QED
      <4>1. Rest({}) = Sum(WorstOf({}, {}), Vaults)
        BY <1>1, <3>1 DEF Rest
      <4>2. Left({}) = Funds - 0
        BY <1>6 DEF Left
      <4> QED
        BY <1>7, <4>1, <4>2, Constants
  <2>2. \A t \in TxIds : ~Live(t) /\ t \notin Paid
    BY <1>2 DEF Live
  <2> QED
    BY <1>1, <2>1, <2>2, Constants DEF Book
<1> QED
  BY <1>3, <1>5, <1>8, <1>9, <1>10 DEF Inv, BookInv

-----------------------------------------------------------------------------
(* Steps of the chain. *)

\* What a transaction that is paid was and stays.
LEMMA PaidStays ==
  ASSUME TypeOK, NEW S \in SUBSET Paid,
         \A t \in Paid : tx'[t] = tx[t]
  PROVE  /\ Left(S)' = Left(S) /\ Sold(S)' = Sold(S) /\ S \subseteq Paid'
         /\ Rest(S)' = Sum(WorstOf(auths', Sold(S)), Vaults)
<1>1. \A t \in S : t \in TxIds /\ tx'[t] = tx[t]
  BY DEF Paid
<1>2. \A t \in S : PaidOf'[t] = PaidOf[t]
  BY <1>1 DEF PaidOf
<1>3. IsFiniteSet(S)
  BY <1>1, FiniteTx, FS_Subset
<1>4. Sum(PaidOf', S) = Sum(PaidOf, S)
  BY <1>2, <1>3, SumSame
<1>5. (Sum(PaidOf, S))' = Sum(PaidOf', S)
  BY DEF Sum, Sums, Step, Pick
<1>6. Left(S)' = Left(S)
  BY <1>4, <1>5 DEF Left
<1>7. Sold(S)' = Sold(S)
  BY <1>1 DEF Sold, Vault
<1>8. S \subseteq Paid'
  BY <1>1 DEF Paid
<1>9. Rest(S)' = Sum(WorstOf(auths', Sold(S)), Vaults)
  <2>1. WorstOf(auths, Sold(S))' = WorstOf(auths', Sold(S))
    BY <1>7 DEF WorstOf, Worst, Asked
  <2> QED
    BY <2>1 DEF Rest
<1> QED
  BY <1>6, <1>7, <1>8, <1>9

LEMMA ChainKeeps ==
  ASSUME Inv, TypeOK', TxInv', UNCHANGED <<books, engine, todo, waiting, past>>,
         height' >= height,
         \A t \in TxIds : /\ tx'[t].state = "none" <=> tx[t].state = "none"
                          /\ tx'[t].batch = tx[t].batch
                          /\ Live(t)' => Live(t),
         \A t \in Paid : tx'[t] = tx[t],
         \A t \in Paid' : t \in Paid \/ Live(t)
  PROVE  Inv'
<1>1. /\ auths' = auths /\ inventory' = inventory /\ gate' = gate
      /\ retiredTo' = retiredTo /\ overlooked' = overlooked
  BY DEF books, past
<1>2. MostOf' = MostOf /\ (Sum(MostOf, waiting))' = Sum(MostOf, waiting)
  <2>1. MostOf' = MostOf
    BY DEF MostOf
  <2> QED
    BY <2>1
<1>3. SlotInv'
  <2>1. WaitInv'
    <3>1. \A t \in waiting : t \in TxIds
      BY DEF Inv, TypeOK
    <3> QED
      BY <1>1, <3>1 DEF Inv, SlotInv, WaitInv, Recorded, Vault
  <2>2. Backing'
    <3>1. \A t \in waiting : t \in TxIds
      BY DEF Inv, TypeOK
    <3> QED
      BY <1>1, <3>1 DEF Inv, SlotInv, Backing
  <2>3. EngineInv' /\ Reserving'
    BY <1>1, <1>2 DEF Inv, SlotInv, EngineInv, Reserving, Recorded
  <2> QED
    BY <2>1, <2>2, <2>3 DEF SlotInv
<1>4. ExecutedInv'
  <2>1. \A t \in Paid : t \in Paid' /\ tx'[t] = tx[t]
    BY DEF Paid
  <2> QED
    BY <1>1, <2>1 DEF Inv, ExecutedInv, Vault
<1>5. GateInv'
  BY <1>1 DEF Inv, GateInv
<1>6. BookInv'
  <2>1. CASE overlooked
    BY <1>1, <2>1 DEF BookInv
  <2>2. CASE ~overlooked
    <3>1. PICK S \in SUBSET TxIds : Book(S)
      BY <2>2 DEF Inv, BookInv
    <3>2. S \in SUBSET Paid
      BY <3>1 DEF Book
    <3>3. /\ Left(S)' = Left(S) /\ S \subseteq Paid'
          /\ Rest(S)' = Sum(WorstOf(auths', Sold(S)), Vaults)
      BY <3>2, PaidStays DEF Inv
    <3>4. Rest(S)' = Rest(S)
      BY <1>1, <3>3 DEF Rest
    <3>5. (\A t \in S : tx[t].at <= retiredTo)'
      BY <1>1, <3>1, <3>2 DEF Book
    <3>6. (\A t \in TxIds : Live(t) \/ t \in Paid \ S => Recorded(tx[t].batch))'
      <4> SUFFICES ASSUME NEW t \in TxIds, Live(t)' \/ t \in Paid' \ S
                   PROVE  Recorded(tx[t].batch)'
        OBVIOUS
      <4>1. Live(t) \/ t \in Paid \ S
        OBVIOUS
      <4> QED
        BY <1>1, <3>1, <4>1 DEF Book, Recorded
    <3>7. Book(S)'
      BY <1>1, <3>1, <3>3, <3>4, <3>5, <3>6 DEF Book, Busy
    <3> QED
      BY <3>7 DEF BookInv
  <2> QED
    BY <2>1, <2>2
<1> QED
  BY <1>3, <1>4, <1>5, <1>6 DEF Inv

LEMMA Higher ==
  ASSUME NEW a \in Nat, NEW b \in Nat
  PROVE  Max({a, b}) \in {a, b} /\ Max({a, b}) >= a /\ Max({a, b}) >= b
<1>1. \E x \in {a, b} : \A y \in {a, b} : x >= y
  OBVIOUS
<1> QED
  BY <1>1 DEF Max

\* The whole balance is what no payment took.
LEMMA BalanceLeft ==
  ASSUME TypeOK, TxInv
  PROVE  /\ BalanceAt(MaxHeight) = Funds - Sum(PaidOf, Paid)
         /\ BalanceAt(MaxHeight) \in Nat /\ Sum(PaidOf, Paid) \in Nat
<1>1. Seen(MaxHeight) = Paid
  BY Constants DEF TxInv, Seen
<1>2. Paid \in SUBSET TxIds
  BY DEF Paid
<1>3. Sum(PaidOf, Paid) \in Nat /\ Sum(PaidOf, Paid) <= Funds
  BY <1>2, PaidWeighs, SumIsNat DEF TxInv
<1>4. BalanceAt(MaxHeight) = Funds - Sum(PaidOf, Paid)
  BY <1>1, BalanceIs
<1> QED
  BY <1>3, <1>4, Constants

LEMMA LiveAfter ==
  ASSUME Inv, NEW t \in TxIds, height' \in Nat, height' >= height, Live(t)',
         tx'[t].batch = tx[t].batch, tx'[t].state = "live" => tx[t].state = "live",
         escrow' \subseteq escrow
  PROVE  Live(t)
<1>1. tx[t].state = "live" /\ Vault(t) \in escrow
  BY DEF Live, Vault
<1>2. tx[t].batch.deadline \in Nat
  BY <1>1 DEF Inv, TxInv, Batch
<1>3. tx[t].batch.deadline >= height' + 1 - Depth
  BY DEF Live
<1>4. height \in Nat
  BY Figures
<1> QED
  BY <1>1, <1>2, <1>3, <1>4, Constants DEF Live

\* A live transaction ends without a payment.
LEMMA SpentKeeps ==
  ASSUME Inv, NEW t \in TxIds, tx[t].state = "live", tx' = [tx EXCEPT ![t].state = "gone"],
         height' \in Heights, height' >= height, escrow' = escrow, price' = price,
         UNCHANGED <<books, engine, todo, waiting, past>>
  PROVE  Inv'
<1>1. tx \in [TxIds -> Tx] /\ tx[t] \in Tx
  BY DEF Inv, TypeOK
<1>2. /\ tx'[t] = [tx[t] EXCEPT !.state = "gone"]
      /\ \A u \in TxIds : u # t => tx'[u] = tx[u]
  BY <1>1
<1>3. /\ tx'[t].state = "gone" /\ tx'[t].batch = tx[t].batch /\ tx'[t].paid = tx[t].paid
      /\ tx'[t] \in Tx
  BY <1>1, <1>2 DEF Tx
<1>4. TypeOK'
  <2>1. tx' \in [TxIds -> Tx]
    BY <1>1, <1>2, <1>3
  <2> QED
    BY <2>1 DEF Inv, TypeOK, books, past
<1>5. t \notin Paid /\ t \notin Paid' /\ Paid' = Paid
  BY <1>2, <1>3 DEF Paid
<1>6. PaidOf' = PaidOf
  BY <1>2, <1>3 DEF PaidOf
<1>7. \A u \in Paid : u \in TxIds /\ tx'[u] = tx[u]
  BY <1>2, <1>5 DEF Paid
<1>8. TxInv'
  <2>1. (Sum(PaidOf, Paid) <= Funds)'
    BY <1>5, <1>6 DEF Inv, TxInv
  <2>2. (\A u \in TxIds : tx[u].state # "none" => tx[u].batch \in Batch)'
    BY <1>2, <1>3 DEF Inv, TxInv
  <2> QED
    BY <1>5, <1>7, <2>1, <2>2 DEF Inv, TxInv, Vault
<1>9. height' \in Nat
  BY Constants DEF Heights
<1>10. \A u \in TxIds : Live(u)' => Live(u)
  <2> SUFFICES ASSUME NEW u \in TxIds, Live(u)' PROVE Live(u)
    OBVIOUS
  <2>1. u # t
    BY <1>3 DEF Live
  <2> QED
    BY <1>2, <1>9, <2>1, LiveAfter
<1>11. \A u \in TxIds : /\ tx'[u].state = "none" <=> tx[u].state = "none"
                        /\ tx'[u].batch = tx[u].batch
  BY <1>2, <1>3
<1> QED
  BY <1>4, <1>5, <1>7, <1>8, <1>10, <1>11, ChainKeeps

LEMMA IncludeKeeps ==
  ASSUME Inv, NEW t \in TxIds, Include(t)
  PROVE  Inv'
<1>1. PICK h \in Heads :
         LET v == tx[t].batch.vault
             b == h + 1
         IN  /\ b \in Heights
             /\ height' = Max({height, b})
             /\ IF Accepts(t, b) /\ Affords(t)
                THEN /\ tx' = [tx EXCEPT ![t].state = "paid",
                                         ![t].paid = price, ![t].at = b]
                     /\ escrow' = escrow \ {v}
                ELSE /\ tx' = [tx EXCEPT ![t].state = "gone"]
                     /\ UNCHANGED escrow
  BY DEF Include
<1>2. /\ tx[t].state = "live" /\ t \notin Paid
      /\ UNCHANGED <<price, books, engine, todo, waiting, past>>
  BY DEF Include, Paid
<1>3. /\ h \in Nat /\ h + 1 \in 1..MaxHeight /\ h >= height - Depth
      /\ height \in Nat /\ height <= MaxHeight /\ price \in 1..MaxPrice /\ price \in Amounts
      /\ height' = Max({height, h + 1})
  BY <1>1, Constants DEF Heads, Heights, Amounts, Inv, TypeOK
<1>4. height' \in Heights /\ height' >= height /\ height' \in Nat
  <2>1. h + 1 \in Nat
    BY <1>3
  <2>2. Max({height, h + 1}) \in {height, h + 1} /\ Max({height, h + 1}) >= height
    BY <1>3, <2>1, Higher
  <2> QED
    BY <1>3, <2>1, <2>2, Constants DEF Heights
<1>5. /\ tx \in [TxIds -> Tx] /\ tx[t] \in Tx /\ tx[t].batch \in Batch
  BY <1>2 DEF Inv, TypeOK, TxInv
<1>6. /\ auths' = auths /\ inventory' = inventory /\ gate' = gate /\ price' = price
      /\ engine' = engine /\ todo' = todo /\ waiting' = waiting
      /\ retiredTo' = retiredTo /\ overlooked' = overlooked
  BY <1>2 DEF books, past
<1>7. CASE Accepts(t, h + 1) /\ Affords(t)
  <2>1. /\ tx' = [tx EXCEPT ![t].state = "paid", ![t].paid = price, ![t].at = h + 1]
        /\ escrow' = escrow \ {Vault(t)}
    BY <1>1, <1>7 DEF Vault
  <2>2. /\ tx'[t] = [tx[t] EXCEPT !.state = "paid", !.paid = price, !.at = h + 1]
        /\ \A u \in TxIds : u # t => tx'[u] = tx[u]
    BY <1>5, <2>1
  <2>3. /\ tx'[t].state = "paid" /\ tx'[t].paid = price /\ tx'[t].at = h + 1
        /\ tx'[t].batch = tx[t].batch /\ tx'[t] \in Tx
    BY <1>3, <1>5, <2>2 DEF Tx
  <2>4. Paid' = Paid \cup {t} /\ Live(t)
    <3>1. Paid' = Paid \cup {t}
      BY <2>2, <2>3 DEF Paid
    <3>2. tx[t].batch.deadline \in Nat /\ h + 1 <= tx[t].batch.deadline
          /\ Vault(t) \in escrow
      BY <1>5, <1>7 DEF Accepts, Batch, Vault
    <3> QED
      BY <1>2, <1>3, <3>1, <3>2, Constants DEF Live
  <2>5. TypeOK'
    <3>1. tx' \in [TxIds -> Tx]
      BY <1>5, <2>1, <2>2, <2>3
    <3>2. escrow' \subseteq Vaults
      BY <2>1 DEF Inv, TypeOK
    <3> QED
      BY <1>4, <1>6, <3>1, <3>2 DEF Inv, TypeOK
  <2>6. TxInv'
    <3>1. \A u \in TxIds : tx'[u].state # "none" => tx'[u].batch \in Batch
      BY <1>5, <2>2, <2>3 DEF Inv, TxInv
    <3>2. /\ tx'[t].at \in 1..MaxHeight /\ tx'[t].at <= tx'[t].batch.deadline
          /\ tx'[t].paid <= tx'[t].batch.most /\ Vault(t)' \notin escrow'
      BY <1>3, <1>7, <2>1, <2>3 DEF Accepts, Vault
    <3>3. \A u \in Paid : u \in TxIds /\ u # t /\ tx'[u] = tx[u] /\ Vault(u)' = Vault(u)
                          /\ Vault(u) # Vault(t)
      <4>1. \A u \in Paid : u \in TxIds /\ u # t /\ Vault(u) \notin escrow
        BY <1>2 DEF Inv, TxInv, Paid
      <4>2. Vault(t) \in escrow
        BY <1>7 DEF Accepts, Vault
      <4> QED
        BY <2>2, <4>1, <4>2 DEF Vault
    <3>4. Vault(t)' = Vault(t)
      BY <2>3 DEF Vault
    <3>5. \A u \in Paid : /\ tx[u].at \in 1..MaxHeight /\ tx[u].at <= tx[u].batch.deadline
                          /\ tx[u].paid <= tx[u].batch.most /\ Vault(u) \notin escrow
      BY DEF Inv, TxInv
    <3>6. \A u \in Paid' : /\ tx'[u].at \in 1..MaxHeight
                           /\ tx'[u].at <= tx'[u].batch.deadline
                           /\ tx'[u].paid <= tx'[u].batch.most /\ Vault(u)' \notin escrow'
      BY <2>1, <2>4, <3>2, <3>3, <3>5
    <3>7. \A u, w \in Paid' : Vault(u)' = Vault(w)' => u = w
      <4>1. \A u, w \in Paid : Vault(u) = Vault(w) => u = w
        BY DEF Inv, TxInv
      <4> QED
        BY <2>4, <3>3, <3>4, <4>1
    <3>8. Sum(PaidOf', Paid') <= Funds
      <4>1. price <= Funds - Sum(PaidOf, Paid) /\ Sum(PaidOf, Paid) \in Nat
        BY <1>7, BalanceLeft DEF Affords, Inv
      <4>2. Weights(PaidOf', TxIds)
        <5>1. \A u \in TxIds : tx'[u].paid \in Nat
          BY <2>5, Constants DEF TypeOK, Tx, Amounts
        <5> QED
          BY <5>1, FiniteTx DEF Weights, PaidOf
      <4>3. Sum(PaidOf', Paid \cup {t}) = PaidOf'[t] + Sum(PaidOf', Paid)
        <5>1. Paid \in SUBSET TxIds /\ t \in TxIds \ Paid
          BY <1>2 DEF Paid
        <5> QED
          BY <4>2, <5>1, SumAdd
      <4>4. Sum(PaidOf', Paid) = Sum(PaidOf, Paid)
        <5>1. \A u \in Paid : PaidOf'[u] = PaidOf[u]
          BY <3>3 DEF PaidOf
        <5>2. IsFiniteSet(Paid)
          BY FiniteTx, FS_Subset DEF Paid
        <5> QED
          BY <5>1, <5>2, SumSame
      <4>5. PaidOf'[t] = price
        BY <2>3 DEF PaidOf
      <4>6. Sum(PaidOf', Paid') = price + Sum(PaidOf, Paid)
        BY <2>4, <4>3, <4>4, <4>5
      <4> QED
        BY <1>3, <4>1, <4>6, Constants
    <3>9. (Sum(PaidOf, Paid) <= Funds)'
      BY <3>8
    <3> QED
      BY <3>1, <3>6, <3>7, <3>9 DEF TxInv
  <2>7. \A u \in TxIds : Live(u)' => Live(u)
    <3> SUFFICES ASSUME NEW u \in TxIds, Live(u)' PROVE Live(u)
      OBVIOUS
    <3>1. u # t
      BY <2>3 DEF Live
    <3>2. tx'[u] = tx[u] /\ escrow' \subseteq escrow
      BY <2>1, <2>2, <3>1
    <3> QED
      BY <1>4, <3>2, LiveAfter
  <2>8. \A u \in TxIds : /\ tx'[u].state = "none" <=> tx[u].state = "none"
                         /\ tx'[u].batch = tx[u].batch
    BY <1>2, <2>2, <2>3
  <2>9. \A u \in Paid : tx'[u] = tx[u]
    BY <1>2, <2>2 DEF Paid
  <2> QED
    BY <1>2, <1>4, <2>4, <2>5, <2>6, <2>7, <2>8, <2>9, ChainKeeps
<1>8. CASE ~(Accepts(t, h + 1) /\ Affords(t))
  <2>1. tx' = [tx EXCEPT ![t].state = "gone"] /\ escrow' = escrow
    BY <1>1, <1>8
  <2> QED
    BY <1>2, <1>4, <2>1, SpentKeeps
<1> QED
  BY <1>1, <1>7, <1>8

LEMMA ChainStep == Inv /\ Chain => Inv'
<1> SUFFICES ASSUME Inv, Chain PROVE Inv'
  OBVIOUS
<1>1. height \in Nat /\ height \in Heights
  BY Figures DEF Inv, TypeOK
<1>2. CASE Empty \/ Accrue \/ \E v \in Vaults : Compete(v)
  <2>1. /\ tx' = tx /\ escrow' \subseteq escrow /\ height' \in Heights /\ height' >= height
        /\ height' \in Nat /\ price' \in 1..MaxPrice
        /\ UNCHANGED <<books, engine, todo, waiting, past>>
    BY <1>1, <1>2, Constants DEF Empty, Accrue, Compete, Inv, TypeOK, Heights
  <2>2. TypeOK'
    BY <2>1 DEF Inv, TypeOK, books, past
  <2>3. Paid' = Paid /\ PaidOf' = PaidOf
    BY <2>1 DEF Paid, PaidOf
  <2>4. TxInv'
    <3>1. (Sum(PaidOf, Paid) <= Funds)'
      BY <2>3 DEF Inv, TxInv
    <3> QED
      BY <2>1, <2>3, <3>1 DEF Inv, TxInv, Vault
  <2>5. \A t \in TxIds : Live(t)' => Live(t)
    BY <2>1, LiveAfter
  <2> QED
    BY <2>1, <2>2, <2>3, <2>4, <2>5, ChainKeeps
<1>3. ASSUME NEW t \in TxIds, Replace(t) PROVE Inv'
  <2>1. /\ tx[t].state = "live" /\ tx' = [tx EXCEPT ![t].state = "gone"]
        /\ height' = height /\ escrow' = escrow /\ price' = price
        /\ UNCHANGED <<books, engine, todo, waiting, past>>
    BY <1>3 DEF Replace
  <2>2. height' \in Heights /\ height' >= height
    BY <1>1, <2>1
  <2> QED
    BY <2>1, <2>2, SpentKeeps
<1> QED
  BY <1>2, <1>3, IncludeKeeps DEF Chain

-----------------------------------------------------------------------------
(* Steps of the cycle. *)

\* While a slot is open the treasury has been read.
LEMMA Refreshed ==
  ASSUME Inv, Busy
  PROVE  /\ inventory \in Inventory /\ inventory # None
         /\ gate.available \in Nat /\ gate.block \in Nat
         /\ inventory.balance \in Nat /\ inventory.block \in Nat
         /\ inventory.block <= gate.block
         /\ inventory.block = gate.block =>
               gate.available <= NetOf(inventory.balance, Held(auths))
<1>1. inventory # None
  BY DEF Inv, GateInv, Busy
<1>2. gate.block \in Nat /\ \A i \in Inventory : i.balance \in Nat /\ i.block \in Nat
  BY Constants DEF Inv, TypeOK, Inventory, Heights
<1> QED
  BY <1>1, <1>2 DEF Inv, TypeOK, GateInv

LEMMA SkipKeeps ==
  ASSUME Inv, NEW v \in Vaults, Skip(v)
  PROVE  Inv'
<1>1. /\ engine' = engine /\ todo' = todo \ {v} /\ waiting' = waiting
      /\ UNCHANGED <<height, price, escrow, tx, auths, inventory, gate>>
      /\ retiredTo' = retiredTo /\ overlooked' = overlooked
      /\ todo # {}
  BY DEF Skip, chain, books, past
<1>2. TypeOK' /\ EngineInv'
  BY <1>1 DEF Inv, TypeOK, SlotInv, EngineInv, Recorded
<1>3. Backing' /\ Reserving'
  BY <1>1 DEF Inv, SlotInv, Backing, Reserving, MostOf
<1>4. WaitInv'
  BY <1>1 DEF Inv, SlotInv, WaitInv, Recorded, Vault
<1>5. TxInv' /\ ExecutedInv'
  BY <1>1 DEF Inv, TxInv, ExecutedInv, Paid, PaidOf, Vault
<1>6. Busy
  BY <1>1 DEF Busy
<1>7. GateInv'
  BY <1>1, <1>6, Refreshed DEF Inv, GateInv
<1>8. \A S : Rest(S)' = Rest(S) /\ Left(S)' = Left(S)
  BY <1>1 DEF Rest, Left, Sold, PaidOf, Vault
<1>9. BookInv'
  BY <1>1, <1>6, <1>8 DEF Inv, BookInv, Book, Live, Paid, Vault, Recorded
<1> QED
  BY <1>2, <1>3, <1>4, <1>5, <1>7, <1>9 DEF Inv, SlotInv

LEMMA WorstCovers ==
  ASSUME NEW A \in SUBSET Auth, NEW B \in SUBSET Auth, NEW Z,
         \A v \in Vaults : Worst(A, v) <= Worst(B, v)
  PROVE  Sum(WorstOf(A, Z), Vaults) <= Sum(WorstOf(B, Z), Vaults)
<1>1. \A v \in Vaults : v \in Vaults /\ WorstOf(A, Z)[v] <= WorstOf(B, Z)[v]
  BY DEF WorstOf
<1>2. Vaults \in SUBSET Vaults
  OBVIOUS
<1> QED
  BY <1>1, <1>2, WorstWeighs, SumCovers

LEMMA LeftIs ==
  ASSUME TypeOK, TxInv, NEW S \in SUBSET Paid
  PROVE  Left(S) \in Nat /\ Sum(PaidOf, S) \in Nat /\ Left(S) = Funds - Sum(PaidOf, S)
<1>1. S \in SUBSET TxIds /\ Paid \in SUBSET TxIds
  BY DEF Paid
<1>2. Weights(PaidOf, TxIds) /\ Sum(PaidOf, S) \in Nat /\ Sum(PaidOf, Paid) \in Nat
  BY <1>1, PaidWeighs, SumIsNat
<1>3. \A t \in S : t \in Paid /\ PaidOf[t] <= PaidOf[t]
  BY <1>1, <1>2 DEF Weights
<1>4. Sum(PaidOf, S) <= Sum(PaidOf, Paid) /\ Sum(PaidOf, Paid) <= Funds
  BY <1>1, <1>2, <1>3, SumCovers DEF TxInv
<1> QED
  BY <1>2, <1>4, Constants DEF Left

\* The same books with other figures: no batch is lost and no more is asked.
LEMMA BookKept ==
  ASSUME Inv, NEW S \in SUBSET TxIds, Book(S), Busy,
         UNCHANGED <<height, escrow, inventory, retiredTo>>, gate'.block = gate.block,
         \A t \in Paid : tx'[t] = tx[t],
         Paid' = Paid,
         \A t \in TxIds : Live(t)' => \/ Live(t) /\ tx'[t].batch = tx[t].batch
                                      \/ \E a \in auths' : Id(a) = tx'[t].batch,
         \A a \in auths : \E c \in auths' : Id(c) = Id(a),
         LET rest == Sum(WorstOf(auths', Sold(S)), Vaults)
         IN  /\ rest + gate'.reserved <= Left(S)
             /\ gate'.available = 0 \/ rest + gate'.available <= Left(S)
  PROVE  Book(S)'
<1>1. S \in SUBSET Paid
  BY DEF Book
<1>2. /\ Left(S)' = Left(S) /\ S \subseteq Paid'
      /\ Rest(S)' = Sum(WorstOf(auths', Sold(S)), Vaults)
  BY <1>1, PaidStays DEF Inv
<1>3. (\A t \in S : tx[t].at <= retiredTo)'
  BY <1>1 DEF Book
<1>4. (\A t \in TxIds : Live(t) \/ t \in Paid \ S => Recorded(tx[t].batch))'
  <2> SUFFICES ASSUME NEW t \in TxIds, Live(t)' \/ t \in Paid' \ S
               PROVE  \E a \in auths' : Id(a) = tx'[t].batch
    BY DEF Recorded
  <2>1. CASE \E a \in auths' : Id(a) = tx'[t].batch
    BY <2>1
  <2>2. CASE (Live(t) \/ t \in Paid \ S) /\ tx'[t].batch = tx[t].batch
    <3>1. Recorded(tx[t].batch)
      BY <2>2 DEF Book
    <3> QED
      BY <2>2, <3>1 DEF Recorded
  <2> QED
    BY <2>1, <2>2
<1>5. /\ Rest(S)' + gate'.reserved <= Left(S)'
      /\ gate'.available = 0 \/ Rest(S)' + gate'.available <= Left(S)'
  BY <1>2
<1>6. inventory # None /\ (inventory.block = gate.block => inventory.balance <= Left(S))
  BY Refreshed DEF Book
<1>7. inventory'.block = gate'.block => inventory'.balance <= Left(S)'
  BY <1>2, <1>6
<1> QED
  BY <1>2, <1>3, <1>4, <1>5, <1>7 DEF Book

\* Where the batches weigh no more and the gate reserves and offers no more.
LEMMA BookInvKept ==
  ASSUME Inv, Busy,
         UNCHANGED <<height, escrow, inventory, retiredTo, overlooked>>,
         gate'.block = gate.block, gate'.available = gate.available,
         gate'.reserved \in Nat, gate'.reserved <= gate.reserved,
         \A t \in Paid : tx'[t] = tx[t],
         Paid' = Paid,
         \A t \in TxIds : Live(t)' => \/ Live(t) /\ tx'[t].batch = tx[t].batch
                                      \/ \E a \in auths' : Id(a) = tx'[t].batch,
         \A a \in auths : \E c \in auths' : Id(c) = Id(a),
         auths' \in SUBSET Auth,
         \A v \in Vaults : Worst(auths', v) <= Worst(auths, v)
  PROVE  BookInv'
<1>1. CASE overlooked
  BY <1>1 DEF BookInv
<1>2. CASE ~overlooked
  <2>1. PICK S \in SUBSET TxIds : Book(S)
    BY <1>2 DEF Inv, BookInv
  <2> DEFINE rest == Sum(WorstOf(auths', Sold(S)), Vaults)
  <2>2. rest <= Rest(S) /\ rest \in Nat /\ Rest(S) \in Nat
    BY WorstCovers, HeldBounds DEF Inv, TypeOK, Rest
  <2>3. /\ Rest(S) + gate.reserved <= Left(S)
        /\ gate.available = 0 \/ Rest(S) + gate.available <= Left(S)
        /\ gate.available \in Nat /\ gate.reserved \in Nat /\ Left(S) \in Int
    <3>1. Left(S) \in Int
      BY <2>1, LeftIs DEF Book, Inv
    <3> QED
      BY <2>1, <3>1, Refreshed, Figures DEF Book
  <2>4. /\ rest + gate'.reserved <= Left(S)
        /\ gate'.available = 0 \/ rest + gate'.available <= Left(S)
    <3> HIDE DEF rest
    <3> QED
      BY <2>2, <2>3
  <2>5. Book(S)'
    BY <2>1, <2>4, BookKept
  <2> QED
    BY <2>5 DEF BookInv
<1> QED
  BY <1>1, <1>2

\* A smaller claim leaves more.
LEMMA NetOfFalls ==
  ASSUME NEW b \in Nat, NEW x \in Nat, NEW y \in Nat, x <= y
  PROVE  NetOf(b, y) <= NetOf(b, x) /\ NetOf(b, x) \in Nat /\ NetOf(b, y) \in Nat
<1> QED
  BY DEF NetOf

\* What a batch may ask: a positive price, at most doubled.
LEMMA CeilingIs ==
  ASSUME Inv
  PROVE  maxWbtcIn \in Amounts /\ maxWbtcIn \in Nat \ {0}
<1> DEFINE x == price * SlippageBps
<1>1. /\ price \in Nat \ {0} /\ price <= MaxPrice /\ MaxPrice \in Nat
      /\ SlippageBps \in Nat /\ SlippageBps <= 10000
  BY Constants DEF Inv, TypeOK
<1>2. x \in Nat /\ x <= price * 10000
  BY <1>1
<1>3. maxWbtcIn = price + x \div 10000
  BY DEF maxWbtcIn
<1> HIDE DEF x
<1>4. x \div 10000 \in Nat /\ x \div 10000 <= price
  BY <1>1, <1>2
<1> QED
  BY <1>1, <1>3, <1>4 DEF Amounts

LEMMA OpenKeeps ==
  ASSUME Inv, NEW v \in Vaults, Open(v)
  PROVE  Inv'
<1> DEFINE most == maxWbtcIn
<1>1. /\ engine = Idle /\ v \in todo /\ most <= gate.available - gate.reserved
      /\ gate' = [gate EXCEPT !.reserved = @ + most]
      /\ engine' = [at |-> "sign", vault |-> v, most |-> most, batch |-> None]
      /\ todo' = todo \ {v}
      /\ UNCHANGED <<height, price, escrow, tx, auths, inventory, waiting>>
      /\ retiredTo' = retiredTo /\ overlooked' = overlooked
  BY DEF Open, Reserve, Capacity, chain, past
<1>2. most \in Amounts /\ most \in Nat \ {0}
  BY CeilingIs
<1> HIDE DEF most
<1>3. Busy /\ inventory # None /\ gate.available \in Nat
  <2>1. Busy
    BY <1>1 DEF Busy
  <2> QED
    BY <2>1, Refreshed
<1>4. gate.reserved \in Nat /\ gate.block \in Heights
  BY DEF Inv, TypeOK
<1>5. /\ gate'.reserved = gate.reserved + most /\ gate'.available = gate.available
      /\ gate'.block = gate.block
      /\ gate' \in [available : Nat \cup {None}, block : Heights, reserved : Nat]
  BY <1>1, <1>2, <1>3, <1>4, Figures
<1>6. /\ engine'.at = "sign" /\ engine'.vault = v /\ engine'.most = most
      /\ engine.most = 0 /\ engine.at = "judge"
  BY <1>1 DEF Idle
<1>7. TypeOK'
  <2>1. engine' \in [at : {"judge", "sign", "commit"}, vault : Vaults \cup {None},
                     most : Amounts, batch : Batch \cup {None}]
    BY <1>1, <1>2
  <2> QED
    BY <1>1, <1>5, <2>1 DEF Inv, TypeOK
<1>8. SlotInv'
  <2>1. EngineInv'
    BY <1>1, <1>6 DEF EngineInv
  <2>2. WaitInv'
    BY <1>1, <1>6 DEF Inv, SlotInv, WaitInv, Recorded, Vault
  <2>3. Backing'
    BY <1>1, <1>6 DEF Inv, SlotInv, Backing
  <2>4. Reserving'
    <3>1. MostOf' = MostOf
      BY <1>1 DEF MostOf
    <3>2. gate.reserved = Sum(MostOf, waiting)
      BY <1>4, <1>6, Figures DEF Inv, SlotInv, Reserving
    <3>3. gate'.reserved = engine'.most + Sum(MostOf, waiting)
      BY <1>2, <1>4, <1>5, <1>6, <3>2
    <3>4. (Sum(MostOf, waiting))' = Sum(MostOf, waiting)
      BY <1>1, <3>1
    <3> QED
      BY <3>3, <3>4 DEF Reserving
  <2> QED
    BY <2>1, <2>2, <2>3, <2>4 DEF SlotInv
<1>9. TxInv' /\ ExecutedInv'
  BY <1>1 DEF Inv, TxInv, ExecutedInv, Paid, PaidOf, Vault
<1>10. GateInv'
  BY <1>1, <1>3, <1>5 DEF Inv, GateInv
<1>11. BookInv'
  <2>1. CASE overlooked
    BY <1>1, <2>1 DEF BookInv
  <2>2. CASE ~overlooked
    <3>1. PICK S \in SUBSET TxIds : Book(S)
      BY <2>2 DEF Inv, BookInv
    <3>2. Left(S) \in Nat /\ Rest(S) \in Nat
      BY <3>1, LeftIs, HeldBounds DEF Book, Inv, TypeOK, Rest
    <3>3. Rest(S) + gate.available <= Left(S)
      <4>1. gate.available # 0
        BY <1>1, <1>2, <1>3, <1>4
      <4> QED
        BY <1>3, <3>1, <4>1 DEF Book
    <3>4. Rest(S) + gate'.reserved <= Left(S)
      BY <1>1, <1>2, <1>3, <1>4, <1>5, <3>2, <3>3
    <3>5. Sum(WorstOf(auths', Sold(S)), Vaults) = Rest(S)
      BY <1>1 DEF Rest
    <3>6. \A t \in TxIds : Live(t)' => Live(t) /\ tx'[t].batch = tx[t].batch
      BY <1>1 DEF Live, Vault
    <3>7. Paid' = Paid /\ \A t \in Paid : tx'[t] = tx[t]
      BY <1>1 DEF Paid
    <3>8. \A a \in auths : \E c \in auths' : Id(c) = Id(a)
      BY <1>1
    <3>9. Book(S)'
      BY <1>1, <1>3, <1>5, <3>1, <3>3, <3>4, <3>5, <3>6, <3>7, <3>8, BookKept
    <3> QED
      BY <3>9 DEF BookInv
  <2> QED
    BY <2>1, <2>2
<1> QED
  BY <1>7, <1>8, <1>9, <1>10, <1>11 DEF Inv

LEMMA UnsignedKeeps ==
  ASSUME Inv, Unsigned
  PROVE  Inv'
<1>1. /\ engine.at = "sign" /\ gate' = [gate EXCEPT !.reserved = @ - engine.most]
      /\ engine' = Idle
      /\ UNCHANGED <<height, price, escrow, tx, auths, inventory, todo, waiting>>
      /\ retiredTo' = retiredTo /\ overlooked' = overlooked
  BY DEF Unsigned, Release, chain, past
<1>2. Busy
  BY <1>1 DEF Busy, Idle
<1>3. /\ inventory # None /\ gate.available \in Nat
  BY <1>2, Refreshed
<1>4. /\ gate.reserved \in Nat /\ engine.most \in Nat /\ Sum(MostOf, waiting) \in Nat
      /\ gate.reserved - engine.most = Sum(MostOf, waiting)
  BY Figures DEF Inv, TypeOK, SlotInv, Reserving
<1>5. /\ gate'.reserved = Sum(MostOf, waiting) /\ gate'.reserved <= gate.reserved
      /\ gate'.available = gate.available /\ gate'.block = gate.block
      /\ gate' \in [available : Nat \cup {None}, block : Heights, reserved : Nat]
  BY <1>1, <1>4, Figures
<1>6. TypeOK'
  <2>1. Idle \in [at : {"judge", "sign", "commit"}, vault : Vaults \cup {None},
                  most : Amounts, batch : Batch \cup {None}]
    BY Constants DEF Idle, Amounts
  <2> QED
    BY <1>1, <1>5, <2>1 DEF Inv, TypeOK
<1>7. SlotInv'
  <2>1. EngineInv'
    BY <1>1 DEF EngineInv, Idle
  <2>2. WaitInv'
    <3>1. \A t \in waiting : Vault(t) # None
      <4>1. \A t \in waiting : t \in TxIds /\ tx[t].state # "none"
        BY DEF Inv, TypeOK, SlotInv, WaitInv
      <4>2. \A t \in waiting : tx[t].batch \in Batch
        BY <4>1 DEF Inv, TxInv
      <4> QED
        BY <4>2, Constants DEF Batch, Vault
    <3>2. engine'.vault = None
      BY <1>1 DEF Idle
    <3> QED
      BY <1>1, <3>1, <3>2 DEF Inv, SlotInv, WaitInv, Recorded, Vault
  <2>3. Backing'
    BY <1>1 DEF Inv, SlotInv, Backing
  <2>4. Reserving'
    <3>1. MostOf' = MostOf
      BY <1>1 DEF MostOf
    <3>2. (Sum(MostOf, waiting))' = Sum(MostOf, waiting) /\ engine'.most = 0
      BY <1>1, <3>1 DEF Idle
    <3> QED
      BY <1>4, <1>5, <3>2 DEF Reserving
  <2> QED
    BY <2>1, <2>2, <2>3, <2>4 DEF SlotInv
<1>8. TxInv' /\ ExecutedInv'
  BY <1>1 DEF Inv, TxInv, ExecutedInv, Paid, PaidOf, Vault
<1>9. GateInv'
  BY <1>1, <1>3, <1>5 DEF Inv, GateInv
<1>10. BookInv'
  <2>1. \A v \in Vaults : Worst(auths', v) <= Worst(auths, v)
    <3>1. \A v \in Vaults : Worst(auths, v) \in Nat
      BY WorstIs DEF Inv, TypeOK
    <3> QED
      BY <1>1, <3>1
  <2>2. \A t \in TxIds : Live(t)' => Live(t) /\ tx'[t].batch = tx[t].batch
    BY <1>1 DEF Live, Vault
  <2>3. Paid' = Paid /\ \A t \in Paid : tx'[t] = tx[t]
    BY <1>1 DEF Paid
  <2>4. gate'.reserved \in Nat /\ auths' \in SUBSET Auth
    BY <1>1, <1>5, <1>6 DEF TypeOK
  <2>5. \A a \in auths : \E c \in auths' : Id(c) = Id(a)
    BY <1>1
  <2> QED
    BY <1>1, <1>2, <1>5, <2>1, <2>2, <2>3, <2>4, <2>5, BookInvKept
<1> QED
  BY <1>6, <1>7, <1>8, <1>9, <1>10 DEF Inv

LEMMA SignKeeps ==
  ASSUME Inv, Sign
  PROVE  Inv'
<1> DEFINE B(h) == [vault |-> engine.vault, most |-> engine.most, deadline |-> h + Life]
           New(h) == [vault |-> B(h).vault, most |-> B(h).most, deadline |-> B(h).deadline,
                      block |-> h, backed |-> TRUE, executedAt |-> None]
<1>1. PICK h \in Heads :
         /\ auths' = {a \in auths : Id(a) # B(h)} \cup {New(h)}
         /\ engine' = [engine EXCEPT !.at = "commit", !.batch = B(h)]
  BY DEF Sign
<1>2. /\ engine.at = "sign"
      /\ UNCHANGED <<height, price, escrow, tx, inventory, gate, todo, waiting>>
      /\ retiredTo' = retiredTo /\ overlooked' = overlooked
  BY DEF Sign, chain, past
<1>3. /\ engine.vault \in Vaults \ todo /\ engine.most \in Amounts
      /\ engine \in [at : {"judge", "sign", "commit"}, vault : Vaults \cup {None},
                     most : Amounts, batch : Batch \cup {None}]
  BY <1>2 DEF Inv, TypeOK, SlotInv, EngineInv
<1> DEFINE b == B(h)
           new == New(h)
           others == {a \in auths : Id(a) # b}
<1>4. /\ h \in Heights /\ b \in Batch /\ b.vault = engine.vault /\ b.most = engine.most
      /\ new \in Auth /\ Id(new) = b /\ new.backed /\ new.executedAt = None
  <2>1. h + Life \in Nat
    BY Constants DEF Heads, Heights
  <2> QED
    BY <1>3, <2>1 DEF Batch, Auth, Id, Heads
<1>5. auths' = others \cup {new} /\ engine' = [engine EXCEPT !.at = "commit", !.batch = b]
  BY <1>1
<1> HIDE DEF b, new, B, New
<1>6. others \subseteq auths /\ (\A a \in others : Id(a) # b)
      /\ \A a \in auths : a \in others \/ Id(a) = b
  OBVIOUS
<1> HIDE DEF others
<1>7. /\ engine'.at = "commit" /\ engine'.batch = b /\ engine'.vault = engine.vault
      /\ engine'.most = engine.most
      /\ engine' \in [at : {"judge", "sign", "commit"}, vault : Vaults \cup {None},
                      most : Amounts, batch : Batch \cup {None}]
  BY <1>3, <1>4, <1>5
<1>8. auths' \in SUBSET Auth /\ auths \in SUBSET Auth
  BY <1>4, <1>5, <1>6 DEF Inv, TypeOK
<1>9. \A a \in auths : \E c \in auths' : Id(c) = Id(a)
  BY <1>4, <1>5, <1>6
<1>10. TypeOK'
  <2>1. \A a, c \in auths' : Id(a) = Id(c) => a = c
    BY <1>4, <1>5, <1>6 DEF Inv, TypeOK
  <2> QED
    BY <1>2, <1>7, <1>8, <2>1 DEF Inv, TypeOK
<1>11. /\ \A v \in Vaults : Worst(auths', v) <= Worst(auths, v)
       /\ Held(auths') <= Held(auths)
  <2>1. \A a \in auths' : a \in auths \/ a.backed
    BY <1>4, <1>5, <1>6
  <2> QED
    BY <1>8, <2>1, FewerOpen
<1>12. SlotInv'
  <2>1. \A c : (\E a \in auths : Id(a) = c) => \E a \in auths' : Id(a) = c
    BY <1>9
  <2>2. EngineInv'
    <3>1. \E a \in auths' : Id(a) = b
      BY <1>4, <1>5
    <3>2. Recorded(engine.batch)'
      BY <1>7, <3>1 DEF Recorded
    <3> QED
      BY <1>2, <1>3, <1>4, <1>7, <3>2 DEF EngineInv
  <2>3. WaitInv'
    <3>1. \A t \in waiting : \E a \in auths' : Id(a) = tx[t].batch
      BY <2>1 DEF Inv, SlotInv, WaitInv, Recorded
    <3>2. \A t \in waiting' : Recorded(tx[t].batch)'
      BY <1>2, <3>1 DEF Recorded
    <3> QED
      BY <1>2, <1>7, <3>2 DEF Inv, SlotInv, WaitInv, Vault
  <2>4. Backing'
    <3>1. \A a \in auths : a.backed => \E t \in waiting : tx[t].batch = Id(a)
      BY <1>2 DEF Inv, SlotInv, Backing
    <3> QED
      BY <1>2, <1>4, <1>5, <1>6, <1>7, <3>1 DEF Backing
  <2>5. Reserving'
    <3>1. MostOf' = MostOf
      BY <1>2 DEF MostOf
    <3>2. (Sum(MostOf, waiting))' = Sum(MostOf, waiting)
      BY <1>2, <3>1
    <3> QED
      BY <1>2, <1>7, <3>2 DEF Inv, SlotInv, Reserving
  <2> QED
    BY <2>2, <2>3, <2>4, <2>5 DEF SlotInv
<1>13. TxInv'
  BY <1>2 DEF Inv, TxInv, Paid, PaidOf, Vault
<1>14. ExecutedInv'
  BY <1>2, <1>4, <1>5, <1>6 DEF Inv, ExecutedInv, Paid, Vault
<1>15. Busy
  BY <1>2 DEF Busy, Idle
<1>16. GateInv'
  <2>1. /\ inventory # None /\ gate.available \in Nat /\ inventory.block <= gate.block
        /\ inventory.balance \in Nat
        /\ inventory.block = gate.block =>
              gate.available <= NetOf(inventory.balance, Held(auths))
    BY <1>15, Refreshed
  <2>2. Held(auths) \in Nat /\ Held(auths') \in Nat
    BY <1>8, HeldIs
  <2>3. NetOf(inventory.balance, Held(auths)) <= NetOf(inventory.balance, Held(auths'))
        /\ NetOf(inventory.balance, Held(auths)) \in Nat
        /\ NetOf(inventory.balance, Held(auths')) \in Nat
    BY <1>11, <2>1, <2>2, NetOfFalls
  <2>4. inventory.block = gate.block =>
           gate.available <= NetOf(inventory.balance, Held(auths'))
    BY <2>1, <2>3
  <2>5. Held(auths)' = Held(auths')
    BY DEF Held, MapThenSumSet, MapThenFoldSet
  <2> QED
    BY <1>2, <2>1, <2>4, <2>5 DEF Inv, GateInv
<1>17. BookInv'
  <2>1. \A t \in TxIds : Live(t)' => Live(t) /\ tx'[t].batch = tx[t].batch
    BY <1>2 DEF Live, Vault
  <2>2. Paid' = Paid /\ \A t \in Paid : tx'[t] = tx[t]
    BY <1>2 DEF Paid
  <2>3. gate'.reserved \in Nat /\ gate'.reserved <= gate.reserved
    BY <1>2, Figures
  <2> QED
    BY <1>2, <1>8, <1>9, <1>11, <1>15, <2>1, <2>2, <2>3, BookInvKept
<1> QED
  BY <1>10, <1>12, <1>13, <1>14, <1>16, <1>17 DEF Inv

\* settle: the slot's reservation ends and the batch is held, whatever the
\* transaction did.
LEMMA SettleEffect ==
  ASSUME Inv, NEW id \in Batch, NEW block \in (1..MaxHeight) \cup {None},
         Settle(id, block), Recorded(id), id.most <= gate.reserved,
         UNCHANGED <<height, escrow, inventory>>,
         Busy,
         block # None => \E t \in Paid : Vault(t) = id.vault /\ tx[t].at = block,
         \A t \in Paid : tx'[t] = tx[t],
         Paid' = Paid,
         \A t \in TxIds : Live(t)' => \/ Live(t) /\ tx'[t].batch = tx[t].batch
                                      \/ tx'[t].batch = id
  PROVE  /\ gate'.reserved = gate.reserved - id.most
         /\ gate' \in [available : Nat \cup {None}, block : Heights, reserved : Nat]
         /\ auths' \in SUBSET Auth
         /\ \A a, b \in auths' : Id(a) = Id(b) => a = b
         /\ \A a \in auths : \E c \in auths' : Id(c) = Id(a)
         /\ \A b \in auths' : b.backed => b \in auths /\ Id(b) # id
         /\ ExecutedInv' /\ GateInv' /\ BookInv'
         /\ retiredTo' \in Heights /\ overlooked' \in BOOLEAN
<1>1. auths' = Settled(auths, id, block) /\ auths \in SUBSET Auth
  BY DEF Settle, Inv, TypeOK
<1>2. /\ auths' \in SUBSET Auth
      /\ \A a \in auths : \E c \in auths' : Id(c) = Id(a)
      /\ \A b \in auths' :
            \E a \in auths : /\ Id(a) = Id(b)
                             /\ Id(a) # id => b = a
                             /\ Id(a) = id => /\ ~b.backed
                                              /\ b.executedAt \in {a.executedAt, block}
  BY <1>1, SettledIs
<1>3. \A a, b \in auths' : Id(a) = Id(b) => a = b
  <2> DEFINE new(a) == IF Id(a) = id
                       THEN [a EXCEPT !.backed = FALSE,
                                      !.executedAt = IF block # None THEN block ELSE @]
                       ELSE a
  <2>1. auths' = {new(a) : a \in auths}
    BY <1>1 DEF Settled
  <2>2. \A a \in auths : Id(new(a)) = Id(a)
    BY <1>1 DEF Auth, Id
  <2>3. \A a, b \in auths : Id(a) = Id(b) => a = b
    BY DEF Inv, TypeOK
  <2> HIDE DEF new
  <2> QED
    BY <2>1, <2>2, <2>3
<1>4. \A b \in auths' : b.backed => b \in auths /\ Id(b) # id
  BY <1>2
<1>5. /\ inventory # None /\ gate.available \in Nat /\ inventory.block <= gate.block
      /\ inventory.balance \in Nat /\ inventory.block \in Nat /\ gate.block \in Nat
  BY Refreshed
<1>6. /\ id.most \in Nat /\ gate.reserved \in Nat /\ gate.block \in Heights
      /\ gate.reserved - id.most \in Nat
  BY Constants DEF Batch, Amounts, Inv, TypeOK
<1>7. Held(auths') \in Nat
  BY <1>2, HeldIs
<1> DEFINE net == NetOf(inventory.balance, Held(auths'))
           r == Release(gate, id.most)
<1>8. net \in Nat
  BY <1>5, <1>7 DEF NetOf
<1>9. /\ r \in [available : Nat \cup {None}, block : Heights, reserved : Nat]
      /\ r.available = gate.available /\ r.block = gate.block
      /\ r.reserved = gate.reserved - id.most
  BY <1>6, Figures DEF Release
<1>10. /\ gate'.reserved = gate.reserved - id.most /\ gate'.block = gate.block
       /\ gate' \in [available : Nat \cup {None}, block : Heights, reserved : Nat]
       /\ gate'.available \in Nat
       /\ inventory.block = gate.block => gate'.available = net
  <2>1. gate' = SetAvailable(r, net, inventory.block)
    BY <1>5 DEF Settle, Publish
  <2> HIDE DEF r, net
  <2>2. CASE inventory.block < gate.block
    <3>1. gate' = r
      BY <1>5, <1>9, <2>1, <2>2, Constants DEF SetAvailable
    <3> QED
      BY <1>5, <1>9, <2>2, <3>1
  <2>3. CASE inventory.block = gate.block
    <3>1. gate' = [r EXCEPT !.available = net, !.block = inventory.block]
      BY <1>5, <1>9, <2>1, <2>3 DEF SetAvailable
    <3> QED
      BY <1>6, <1>8, <1>9, <2>3, <3>1
  <2> QED
    BY <1>5, <2>2, <2>3
<1> HIDE DEF r
<1>11. ExecutedInv'
  <2> SUFFICES ASSUME NEW b \in auths', b.executedAt # None
               PROVE  \E t \in Paid' : Vault(t)' = b.vault /\ tx'[t].at = b.executedAt
    BY DEF ExecutedInv
  <2>1. PICK a \in auths : /\ Id(a) = Id(b)
                           /\ Id(a) # id => b = a
                           /\ Id(a) = id => b.executedAt \in {a.executedAt, block}
    BY <1>2
  <2>2. b.vault = a.vault /\ (Id(a) = id => b.vault = id.vault)
    BY <2>1 DEF Id
  <2>3. \E t \in Paid : Vault(t) = b.vault /\ tx[t].at = b.executedAt
    BY <2>1, <2>2 DEF Inv, ExecutedInv
  <2> QED
    BY <2>3 DEF Vault
<1>12. GateInv'
  <2>1. NetOf(inventory.balance, Held(auths))' = net
    <3>1. Held(auths)' = Held(auths')
      BY DEF Held, MapThenSumSet, MapThenFoldSet
    <3> QED
      BY <3>1 DEF NetOf
  <2> HIDE DEF net
  <2>2. inventory'.block = gate'.block =>
           gate'.available <= NetOf(inventory.balance, Held(auths))'
    BY <1>8, <1>10, <2>1
  <2> QED
    BY <1>5, <1>10, <2>2 DEF GateInv
<1>13. /\ retiredTo' = retiredTo
       /\ overlooked' = (overlooked \/ inventory.block < gate.block)
  BY DEF Settle
<1>14. BookInv'
  <2>1. CASE overlooked'
    BY <2>1 DEF BookInv
  <2>2. CASE ~overlooked'
    <3>1. ~overlooked /\ inventory.block = gate.block
      <4>1. ~overlooked /\ ~(inventory.block < gate.block)
        BY <1>13, <2>2
      <4> QED
        BY <1>5, <4>1
    <3>2. PICK S \in SUBSET TxIds : Book(S)
      BY <3>1 DEF Inv, BookInv
    <3> DEFINE rest == Sum(WorstOf(auths', Sold(S)), Vaults)
    <3>3. /\ rest <= Rest(S) + id.most /\ rest <= Held(auths')
          /\ rest \in Nat /\ Rest(S) \in Nat
      BY <1>1, <1>2, SettledIsHeld, HeldBounds DEF Rest
    <3>4. Left(S) \in Nat
      BY <3>2, LeftIs DEF Book, Inv
    <3>5. Rest(S) + gate.reserved <= Left(S) /\ inventory.balance <= Left(S)
      BY <1>5, <3>1, <3>2 DEF Book
    <3>6. gate'.available = 0 \/ rest + gate'.available <= Left(S)
      <4> HIDE DEF rest
      <4>1. net = 0 \/ net = inventory.balance - Held(auths')
        BY DEF NetOf
      <4> HIDE DEF net
      <4> QED
        BY <1>5, <1>7, <1>8, <1>10, <3>1, <3>3, <3>4, <3>5, <4>1
    <3>7. rest + gate'.reserved <= Left(S)
      <4> HIDE DEF rest
      <4> QED
        BY <1>6, <1>10, <3>3, <3>4, <3>5
    <3>8. \A t \in TxIds : Live(t)' => \/ Live(t) /\ tx'[t].batch = tx[t].batch
                                       \/ \E a \in auths' : Id(a) = tx'[t].batch
      BY <1>2 DEF Recorded
    <3>9. Book(S)'
      BY <1>2, <1>10, <1>13, <3>2, <3>6, <3>7, <3>8, BookKept
    <3> QED
      BY <3>9 DEF BookInv
  <2> QED
    BY <2>1, <2>2
<1>15. retiredTo' \in Heights /\ overlooked' \in BOOLEAN
  BY <1>13 DEF Inv, TypeOK
<1> QED
  BY <1>2, <1>3, <1>4, <1>10, <1>11, <1>12, <1>14, <1>15

\* The slot being judged asks what its batch does, and the treasury was read.
LEMMA Committing ==
  ASSUME Inv, engine.at = "commit"
  PROVE  /\ engine # Idle /\ Busy
         /\ engine.batch \in Batch /\ Recorded(engine.batch)
         /\ engine.batch.vault = engine.vault /\ engine.batch.most = engine.most
         /\ engine.vault \in Vaults \ todo
         /\ engine.most \in Nat /\ gate.reserved \in Nat /\ Sum(MostOf, waiting) \in Nat
         /\ gate.reserved = engine.most + Sum(MostOf, waiting)
<1>1. engine # Idle /\ Busy
  BY DEF Idle, Busy
<1>2. engine.most \in Nat /\ gate.reserved \in Nat /\ Sum(MostOf, waiting) \in Nat
  BY Figures
<1> QED
  BY <1>1, <1>2 DEF Inv, SlotInv, EngineInv, Reserving

\* The engine rests: no slot is being judged.
LEMMA Rests ==
  /\ Idle \in [at : {"judge", "sign", "commit"}, vault : Vaults \cup {None},
               most : Amounts, batch : Batch \cup {None}]
  /\ Idle.at = "judge" /\ Idle.vault = None /\ Idle.most = 0
<1> QED
  BY Constants DEF Idle, Amounts

LEMMA AwaitedAre ==
  ASSUME Inv, NEW t \in waiting
  PROVE  /\ t \in TxIds /\ tx[t].state # "none" /\ tx[t].batch \in Batch
         /\ Vault(t) \in Vaults /\ Vault(t) # None /\ tx[t].batch.most \in Nat
         /\ MostOf[t] = tx[t].batch.most
<1>1. t \in TxIds /\ tx[t].state # "none"
  BY DEF Inv, TypeOK, SlotInv, WaitInv
<1>2. tx[t].batch \in Batch
  BY <1>1 DEF Inv, TxInv
<1> QED
  BY <1>1, <1>2, Constants DEF Batch, Vault, Amounts, MostOf

\* Sending adds one live transaction, of the batch just signed.
LEMMA SentIs ==
  ASSUME Inv, engine.at = "commit", NEW t \in Unsent, Send(t), escrow' = escrow, height' = height
  PROVE  /\ tx' \in [TxIds -> Tx] /\ t \in TxIds /\ t \notin waiting
         /\ tx'[t].state = "live" /\ tx'[t].batch = engine.batch
         /\ \A u \in TxIds : u # t => tx'[u] = tx[u]
         /\ Paid' = Paid /\ \A u \in Paid : tx'[u] = tx[u]
         /\ \A u \in TxIds : Live(u)' => \/ Live(u) /\ tx'[u].batch = tx[u].batch
                                         \/ tx'[u].batch = engine.batch
         /\ TxInv'
<1>1. /\ t \in TxIds /\ tx[t].state = "none" /\ tx \in [TxIds -> Tx]
      /\ tx' = [tx EXCEPT ![t] = [NoTx EXCEPT !.batch = engine.batch, !.state = "live"]]
  BY DEF Unsent, Send, Inv, TypeOK
<1> DEFINE new == [NoTx EXCEPT !.batch = engine.batch, !.state = "live"]
<1>2. /\ engine.batch \in Batch /\ new \in Tx /\ new.state = "live"
      /\ new.batch = engine.batch
  <2>1. NoTx \in Tx
    BY Constants DEF NoTx, Tx, Amounts
  <2>2. engine.batch \in Batch
    BY Committing
  <2> QED
    BY <2>1, <2>2 DEF Tx
<1> HIDE DEF new
<1>3. tx'[t] = new /\ (\A u \in TxIds : u # t => tx'[u] = tx[u]) /\ tx' \in [TxIds -> Tx]
  BY <1>1, <1>2 DEF new
<1>4. t \notin waiting
  BY <1>1 DEF Inv, SlotInv, WaitInv
<1>5. Paid' = Paid /\ \A u \in Paid : u \in TxIds /\ u # t /\ tx'[u] = tx[u]
  BY <1>1, <1>2, <1>3 DEF Paid
<1>6. \A u \in TxIds : Live(u)' => \/ Live(u) /\ tx'[u].batch = tx[u].batch
                                   \/ tx'[u].batch = engine.batch
  BY <1>2, <1>3 DEF Live, Vault
<1>7. TxInv'
  <2>1. \A u \in TxIds : tx'[u].state # "none" => tx'[u].batch \in Batch
    BY <1>2, <1>3 DEF Inv, TxInv
  <2>2. Sum(PaidOf', Paid) = Sum(PaidOf, Paid)
    <3>1. \A u \in Paid : PaidOf'[u] = PaidOf[u]
      BY <1>5 DEF PaidOf
    <3>2. IsFiniteSet(Paid)
      BY FiniteTx, FS_Subset DEF Paid
    <3> QED
      BY <3>1, <3>2, SumSame
  <2>3. (Sum(PaidOf, Paid) <= Funds)'
    BY <1>5, <2>2 DEF Inv, TxInv
  <2> QED
    BY <1>5, <2>1, <2>3 DEF Inv, TxInv, Vault
<1> QED
  BY <1>1, <1>2, <1>3, <1>4, <1>5, <1>6, <1>7

\* The slot closes with nothing to wait for.
LEMMA CommitSettles ==
  ASSUME Inv, engine.at = "commit", Settle(engine.batch, None), engine' = Idle,
         todo' \subseteq todo, UNCHANGED <<height, price, escrow, inventory, waiting>>,
         tx' \in [TxIds -> Tx], TxInv', Paid' = Paid,
         \A t \in Paid \cup waiting : tx'[t] = tx[t],
         \A t \in TxIds : Live(t)' => \/ Live(t) /\ tx'[t].batch = tx[t].batch
                                      \/ tx'[t].batch = engine.batch
  PROVE  Inv'
<1> DEFINE id == engine.batch
<1>1. /\ Busy /\ id \in Batch /\ Recorded(id) /\ id.most = engine.most
      /\ engine.most \in Nat /\ gate.reserved \in Nat /\ Sum(MostOf, waiting) \in Nat
      /\ gate.reserved = engine.most + Sum(MostOf, waiting)
  BY Committing
<1>2. id.most <= gate.reserved
  BY <1>1
<1> HIDE DEF id
<1>3. Settle(id, None)
  BY DEF id
<1>4. \A t \in TxIds : Live(t)' => \/ Live(t) /\ tx'[t].batch = tx[t].batch
                                   \/ tx'[t].batch = id
  BY DEF id
<1>5. /\ gate'.reserved = gate.reserved - id.most
      /\ gate' \in [available : Nat \cup {None}, block : Heights, reserved : Nat]
      /\ auths' \in SUBSET Auth
      /\ \A a, b \in auths' : Id(a) = Id(b) => a = b
      /\ \A a \in auths : \E c \in auths' : Id(c) = Id(a)
      /\ \A b \in auths' : b.backed => b \in auths /\ Id(b) # id
      /\ ExecutedInv' /\ GateInv' /\ BookInv'
      /\ retiredTo' \in Heights /\ overlooked' \in BOOLEAN
  BY <1>1, <1>2, <1>3, <1>4, SettleEffect
<1>6. TypeOK'
  <2>1. todo' \subseteq Vaults /\ waiting' \subseteq TxIds
    BY DEF Inv, TypeOK
  <2> QED
    BY <1>5, <2>1, Rests DEF Inv, TypeOK
<1>7. SlotInv'
  <2>1. EngineInv'
    BY Rests DEF EngineInv
  <2>2. WaitInv'
    <3>1. \A t \in waiting : \E c \in auths' : Id(c) = tx'[t].batch
      BY <1>5 DEF Inv, SlotInv, WaitInv, Recorded
    <3>2. \A t \in waiting' : Recorded(tx[t].batch)'
      BY <3>1 DEF Recorded
    <3>3. \A t \in waiting : Vault(t)' = Vault(t) /\ Vault(t) # None /\ tx'[t] = tx[t]
      BY AwaitedAre DEF Vault
    <3>4. engine'.vault = None
      BY Rests
    <3>5. \A t \in waiting : tx[t].state # "none" /\ Vault(t) \notin todo
      BY DEF Inv, SlotInv, WaitInv
    <3>6. \A t, u \in waiting : Vault(t) = Vault(u) => t = u
      BY DEF Inv, SlotInv, WaitInv
    <3> QED
      BY <3>2, <3>3, <3>4, <3>5, <3>6 DEF WaitInv
  <2>3. Backing'
    <3> SUFFICES ASSUME NEW b \in auths', b.backed
                 PROVE  \E t \in waiting' : tx'[t].batch = Id(b)
      BY DEF Backing
    <3>1. b \in auths /\ Id(b) # id
      BY <1>5
    <3>2. \E t \in waiting : tx[t].batch = Id(b)
      BY <3>1 DEF Inv, SlotInv, Backing, id
    <3> QED
      BY <3>2
  <2>4. Reserving'
    <3>1. Sum(MostOf', waiting) = Sum(MostOf, waiting)
      <4>1. waiting \in SUBSET TxIds
        BY DEF Inv, TypeOK
      <4>2. \A t \in waiting : MostOf'[t] = MostOf[t]
        BY <4>1 DEF MostOf
      <4>3. IsFiniteSet(waiting)
        BY <4>1, FiniteTx, FS_Subset
      <4> QED
        BY <4>2, <4>3, SumSame
    <3>2. (Sum(MostOf, waiting))' = Sum(MostOf, waiting)
      BY <3>1
    <3>3. gate'.reserved = Sum(MostOf, waiting)
      BY <1>1, <1>5
    <3> QED
      BY <1>1, <3>2, <3>3, Rests DEF Reserving
  <2> QED
    BY <2>1, <2>2, <2>3, <2>4 DEF SlotInv
<1> QED
  BY <1>5, <1>6, <1>7 DEF Inv

LEMMA DropKeeps ==
  ASSUME Inv, Drop
  PROVE  Inv'
<1>1. /\ engine.at = "commit" /\ Settle(engine.batch, None) /\ engine' = Idle
      /\ todo' \subseteq todo /\ tx' = tx
      /\ UNCHANGED <<height, price, escrow, inventory, waiting>>
  BY DEF Drop, chain
<1>2. /\ tx' \in [TxIds -> Tx] /\ Paid' = Paid
      /\ \A t \in TxIds : Live(t)' => Live(t) /\ tx'[t].batch = tx[t].batch
  BY <1>1 DEF Inv, TypeOK, Paid, Live, Vault
<1>3. TxInv'
  BY <1>1 DEF Inv, TxInv, Paid, PaidOf, Vault
<1> QED
  BY <1>1, <1>2, <1>3, CommitSettles

LEMMA AmbiguousKeeps ==
  ASSUME Inv, Ambiguous
  PROVE  Inv'
<1>1. /\ engine.at = "commit" /\ Settle(engine.batch, None) /\ engine' = Idle
      /\ todo' \subseteq todo
      /\ UNCHANGED <<height, price, escrow, inventory, waiting>>
  BY DEF Ambiguous, Sendable
<1>2. PICK t \in Unsent : Send(t)
  BY DEF Ambiguous
<1>3. /\ tx' \in [TxIds -> Tx] /\ t \in TxIds /\ t \notin waiting
      /\ \A u \in TxIds : u # t => tx'[u] = tx[u]
      /\ Paid' = Paid /\ \A u \in Paid : tx'[u] = tx[u]
      /\ \A u \in TxIds : Live(u)' => \/ Live(u) /\ tx'[u].batch = tx[u].batch
                                      \/ tx'[u].batch = engine.batch
      /\ TxInv'
  BY <1>1, <1>2, SentIs
<1>4. \A u \in Paid \cup waiting : tx'[u] = tx[u]
  BY <1>3 DEF Inv, TypeOK
<1> QED
  BY <1>1, <1>3, <1>4, CommitSettles

LEMMA BroadcastKeeps ==
  ASSUME Inv, Broadcast
  PROVE  Inv'
<1>1. /\ engine.at = "commit" /\ engine' = Idle
      /\ UNCHANGED <<height, price, escrow, auths, inventory, gate, todo>>
      /\ retiredTo' = retiredTo /\ overlooked' = overlooked
  BY DEF Broadcast, Sendable, books, past
<1>2. PICK t \in Unsent : Send(t) /\ waiting' = waiting \cup {t}
  BY DEF Broadcast
<1>3. /\ tx' \in [TxIds -> Tx] /\ t \in TxIds /\ t \notin waiting
      /\ tx'[t].state = "live" /\ tx'[t].batch = engine.batch
      /\ \A u \in TxIds : u # t => tx'[u] = tx[u]
      /\ Paid' = Paid /\ \A u \in Paid : tx'[u] = tx[u]
      /\ \A u \in TxIds : Live(u)' => \/ Live(u) /\ tx'[u].batch = tx[u].batch
                                      \/ tx'[u].batch = engine.batch
      /\ TxInv'
  BY <1>1, <1>2, SentIs
<1>4. \A u \in waiting : u \in TxIds /\ u # t /\ tx'[u] = tx[u] /\ Vault(u)' = Vault(u)
  BY <1>3 DEF Inv, TypeOK, Vault
<1>5. /\ Busy /\ Recorded(engine.batch)
      /\ engine.batch.vault = engine.vault /\ engine.batch.most = engine.most
      /\ engine.vault \in Vaults \ todo
      /\ engine.most \in Nat /\ gate.reserved \in Nat /\ Sum(MostOf, waiting) \in Nat
      /\ gate.reserved = engine.most + Sum(MostOf, waiting)
  BY <1>1, Committing
<1>6. TypeOK'
  BY <1>1, <1>2, <1>3, Rests DEF Inv, TypeOK
<1>7. SlotInv'
  <2>1. EngineInv'
    BY <1>1, Rests DEF EngineInv
  <2>2. WaitInv'
    <3>1. \A c : Recorded(c)' <=> Recorded(c)
      BY <1>1 DEF Recorded
    <3>2. /\ \A u \in waiting : \E a \in auths : Id(a) = tx'[u].batch
          /\ \E a \in auths : Id(a) = tx'[t].batch
      BY <1>3, <1>4, <1>5 DEF Inv, SlotInv, WaitInv, Recorded
    <3>3. \A u \in waiting' : Recorded(tx[u].batch)'
      BY <1>1, <1>2, <3>2 DEF Recorded
    <3>4. Vault(t)' = engine.vault /\ Vault(t)' \notin todo' /\ Vault(t)' # None
      BY <1>1, <1>3, <1>5, Constants DEF Vault
    <3>5. \A u \in waiting : /\ tx'[u].state # "none" /\ Vault(u)' \notin todo'
                             /\ Vault(u)' # None /\ Vault(u)' # engine.vault
      BY <1>1, <1>4, AwaitedAre DEF Inv, SlotInv, WaitInv
    <3>6. \A u, w \in waiting : Vault(u)' = Vault(w)' => u = w
      BY <1>4 DEF Inv, SlotInv, WaitInv
    <3>7. engine'.vault = None
      BY <1>1, Rests
    <3>8. \A u, w \in waiting' : Vault(u)' = Vault(w)' => u = w
      BY <1>2, <3>4, <3>5, <3>6
    <3>9. \A u \in waiting' : /\ tx'[u].state # "none" /\ Vault(u)' \notin todo'
                              /\ Vault(u)' # engine'.vault
      BY <1>2, <1>3, <3>4, <3>5, <3>7
    <3> QED
      BY <3>3, <3>8, <3>9 DEF WaitInv
  <2>3. Backing'
    <3> SUFFICES ASSUME NEW a \in auths, a.backed
                 PROVE  \E u \in waiting' : tx'[u].batch = Id(a)
      BY <1>1 DEF Backing
    <3>1. engine.batch = Id(a) \/ \E u \in waiting : tx[u].batch = Id(a)
      BY DEF Inv, SlotInv, Backing
    <3> QED
      BY <1>2, <1>3, <1>4, <3>1
  <2>4. Reserving'
    <3>1. waiting \in SUBSET TxIds /\ t \in TxIds \ waiting
      BY <1>3 DEF Inv, TypeOK
    <3>2. Weights(MostOf', TxIds)
      <4>1. \A u \in TxIds : tx'[u].state # "none" => tx'[u].batch.most \in Nat
        BY <1>3, Constants DEF TxInv, Batch, Amounts
      <4> QED
        BY <4>1, FiniteTx DEF Weights, MostOf
    <3>3. Sum(MostOf', waiting \cup {t}) = MostOf'[t] + Sum(MostOf', waiting)
      BY <3>1, <3>2, SumAdd
    <3>4. Sum(MostOf', waiting) = Sum(MostOf, waiting)
      <4>1. \A u \in waiting : MostOf'[u] = MostOf[u]
        BY <1>4 DEF MostOf
      <4>2. IsFiniteSet(waiting)
        BY <3>1, FiniteTx, FS_Subset
      <4> QED
        BY <4>1, <4>2, SumSame
    <3>5. MostOf'[t] = engine.most
      BY <1>3, <1>5 DEF MostOf
    <3>6. (Sum(MostOf, waiting))' = engine.most + Sum(MostOf, waiting)
      BY <1>2, <3>3, <3>4, <3>5
    <3> QED
      BY <1>1, <1>5, <3>6, Rests DEF Reserving
  <2> QED
    BY <2>1, <2>2, <2>3, <2>4 DEF SlotInv
<1>8. ExecutedInv'
  BY <1>1, <1>3 DEF Inv, ExecutedInv, Vault
<1>9. GateInv'
  BY <1>1, <1>5, Refreshed DEF Inv, GateInv
<1>10. BookInv'
  <2>1. \E a \in auths' : Id(a) = engine.batch
    BY <1>1, <1>5 DEF Recorded
  <2>2. \A u \in TxIds : Live(u)' => \/ Live(u) /\ tx'[u].batch = tx[u].batch
                                     \/ \E a \in auths' : Id(a) = tx'[u].batch
    BY <1>3, <2>1
  <2>3. \A v \in Vaults : Worst(auths', v) <= Worst(auths, v)
    <3>1. \A v \in Vaults : Worst(auths, v) \in Nat
      BY WorstIs DEF Inv, TypeOK
    <3> QED
      BY <1>1, <3>1
  <2>4. gate'.reserved \in Nat /\ gate'.reserved <= gate.reserved /\ auths' \in SUBSET Auth
        /\ \A a \in auths : \E c \in auths' : Id(c) = Id(a)
    BY <1>1, <1>5, <1>6 DEF TypeOK
  <2> QED
    BY <1>1, <1>3, <1>5, <2>2, <2>3, <2>4, BookInvKept
<1> QED
  BY <1>3, <1>6, <1>7, <1>8, <1>9, <1>10 DEF Inv

\* A slot that awaited its receipt closes, in whichever way.
LEMMA ReceiptKeeps ==
  ASSUME Inv, NEW t \in TxIds, Receipts(t), NEW block \in (1..MaxHeight) \cup {None},
         block # None => tx[t].state = "paid" /\ block = tx[t].at,
         Settle(tx[t].batch, block), waiting' = waiting \ {t},
         UNCHANGED <<chain, inventory, engine, todo>>
  PROVE  Inv'
<1> DEFINE id == tx[t].batch
<1>1. /\ engine = Idle /\ t \in waiting /\ waiting' = waiting \ {t} /\ Busy
      /\ UNCHANGED <<height, price, escrow, tx, inventory, engine, todo>>
  BY DEF Receipts, chain, Busy
<1>2. /\ id \in Batch /\ MostOf[t] = id.most /\ id.most \in Nat
  BY <1>1, AwaitedAre
<1>3. Recorded(id)
  BY <1>1 DEF Inv, SlotInv, WaitInv
<1>4. /\ waiting \in SUBSET TxIds /\ Weights(MostOf, TxIds)
  BY MostWeighs DEF Inv, TypeOK
<1>5. /\ Sum(MostOf, waiting) = id.most + Sum(MostOf, waiting \ {t})
      /\ Sum(MostOf, waiting \ {t}) \in Nat /\ gate.reserved \in Nat
      /\ gate.reserved = Sum(MostOf, waiting)
  <2>1. Sum(MostOf, waiting) = MostOf[t] + Sum(MostOf, waiting \ {t})
    BY <1>1, <1>4, SumRemove
  <2>2. waiting \ {t} \in SUBSET TxIds
    BY <1>4
  <2>3. Sum(MostOf, waiting \ {t}) \in Nat /\ Sum(MostOf, waiting) \in Nat
    BY <1>4, <2>2, SumIsNat
  <2>4. gate.reserved = 0 + Sum(MostOf, waiting)
    BY <1>1, Rests DEF Inv, SlotInv, Reserving
  <2> QED
    BY <1>2, <2>1, <2>3, <2>4
<1>6. id.most <= gate.reserved
  BY <1>2, <1>5
<1>7. block # None => \E u \in Paid : Vault(u) = id.vault /\ tx[u].at = block
  BY DEF Paid, Vault
<1>8. Settle(id, block)
  OBVIOUS
<1> HIDE DEF id
<1>9. /\ Paid' = Paid /\ MostOf' = MostOf
      /\ \A u \in TxIds : Live(u)' => Live(u) /\ tx'[u].batch = tx[u].batch
  BY <1>1 DEF Paid, Live, Vault, MostOf
<1>10. /\ gate'.reserved = gate.reserved - id.most
       /\ gate' \in [available : Nat \cup {None}, block : Heights, reserved : Nat]
       /\ auths' \in SUBSET Auth
       /\ \A a, b \in auths' : Id(a) = Id(b) => a = b
       /\ \A a \in auths : \E c \in auths' : Id(c) = Id(a)
       /\ \A b \in auths' : b.backed => b \in auths /\ Id(b) # id
       /\ ExecutedInv' /\ GateInv' /\ BookInv'
      /\ retiredTo' \in Heights /\ overlooked' \in BOOLEAN
  BY <1>1, <1>2, <1>3, <1>6, <1>7, <1>8, <1>9, SettleEffect
<1>11. TypeOK'
  BY <1>1, <1>10 DEF Inv, TypeOK
<1>12. TxInv'
  BY <1>1 DEF Inv, TxInv, Paid, PaidOf, Vault
<1>13. SlotInv'
  <2>1. EngineInv'
    BY <1>1, Rests DEF EngineInv
  <2>2. WaitInv'
    <3>1. \A u \in waiting : \E c \in auths' : Id(c) = tx[u].batch
      BY <1>10 DEF Inv, SlotInv, WaitInv, Recorded
    <3>2. \A u \in waiting' : Recorded(tx[u].batch)'
      BY <1>1, <3>1 DEF Recorded
    <3> QED
      BY <1>1, <3>2 DEF Inv, SlotInv, WaitInv, Vault
  <2>3. Backing'
    <3> SUFFICES ASSUME NEW b \in auths', b.backed
                 PROVE  \E u \in waiting' : tx'[u].batch = Id(b)
      BY DEF Backing
    <3>1. b \in auths /\ Id(b) # id /\ engine.at # "commit"
      BY <1>1, <1>10, Rests
    <3>2. \E u \in waiting : tx[u].batch = Id(b)
      BY <3>1 DEF Inv, SlotInv, Backing
    <3> QED
      BY <1>1, <3>1, <3>2 DEF id
  <2>4. Reserving'
    <3>1. (Sum(MostOf, waiting))' = Sum(MostOf, waiting \ {t})
      BY <1>1, <1>9
    <3>2. gate'.reserved = Sum(MostOf, waiting \ {t})
      BY <1>2, <1>5, <1>10
    <3> QED
      BY <1>1, <1>5, <3>1, <3>2, Rests DEF Reserving
  <2> QED
    BY <2>1, <2>2, <2>3, <2>4 DEF SlotInv
<1> QED
  BY <1>10, <1>11, <1>12, <1>13 DEF Inv

-----------------------------------------------------------------------------
(* The treasury is read again. *)

\* What transactions of different vaults weigh, vault by vault.
ByVault(w, S) ==
    [v \in Vaults |-> IF \E t \in S : Vault(t) = v
                      THEN w[CHOOSE t \in S : Vault(t) = v] ELSE 0]

LEMMA ByVaultIs ==
  ASSUME NEW w, Weights(w, TxIds), NEW S \in SUBSET TxIds,
         \A t \in S : Vault(t) \in Vaults,
         \A t, u \in S : Vault(t) = Vault(u) => t = u
  PROVE  /\ Weights(ByVault(w, S), Vaults)
         /\ Sum(ByVault(w, S), Vaults) = Sum(w, S)
         /\ \A t \in S : ByVault(w, S)[Vault(t)] = w[t]
         /\ \A v \in Vaults : (\A t \in S : Vault(t) # v) => ByVault(w, S)[v] = 0
<1> DEFINE o == ByVault(w, S)
           f == [t \in TxIds |-> Vault(t)]
           V == {f[t] : t \in S}
<1>1. \A t \in S : (CHOOSE u \in S : Vault(u) = Vault(t)) = t
  OBVIOUS
<1>2. \A t \in S : o[Vault(t)] = w[t]
  BY <1>1 DEF ByVault
<1>3. \A v \in Vaults : (\A t \in S : Vault(t) # v) => o[v] = 0
  BY DEF ByVault
<1>4. \A t \in S : w[t] \in Nat
  BY DEF Weights
<1>5. \A v \in Vaults : o[v] \in Nat
  <2> SUFFICES ASSUME NEW v \in Vaults PROVE o[v] \in Nat
    OBVIOUS
  <2>1. CASE \E t \in S : Vault(t) = v
    BY <1>2, <1>4, <2>1
  <2>2. CASE \A t \in S : Vault(t) # v
    BY <1>3, <2>2
  <2> QED
    BY <2>1, <2>2
<1>6. Weights(o, Vaults)
  <2>1. o = [v \in Vaults |-> o[v]]
    BY DEF ByVault
  <2> HIDE DEF o
  <2> QED
    BY <1>5, <2>1, Constants DEF Weights
<1>7. /\ \A t \in S : f[t] = Vault(t) /\ f[t] \in Vaults /\ o[f[t]] = w[t]
      /\ V = {Vault(t) : t \in S}
  BY <1>2
<1> HIDE DEF o, f
<1>8. \A t, u \in S : f[t] = f[u] => t = u
  BY <1>7
<1>9. Sum(w, S) = Sum(o, V)
  BY <1>6, <1>7, <1>8, SumInto
<1>10. Sum(o, Vaults) <= Sum(o, V) /\ Sum(o, V) <= Sum(o, Vaults)
  <2>1. V \in SUBSET Vaults /\ Vaults \in SUBSET Vaults
    BY <1>7
  <2>2. \A v \in Vaults : (v \in V /\ o[v] <= o[v]) \/ o[v] = 0
    BY <1>3, <1>5, <1>7
  <2>3. \A v \in V : v \in Vaults /\ o[v] <= o[v]
    BY <1>5, <2>1
  <2> HIDE DEF V
  <2> QED
    BY <1>6, <2>1, <2>2, <2>3, SumCovers
<1>11. Sum(o, V) \in Nat /\ Sum(o, Vaults) \in Nat
  <2>1. V \in SUBSET Vaults /\ Vaults \in SUBSET Vaults
    BY <1>7
  <2> HIDE DEF V
  <2> QED
    BY <1>6, <2>1, SumIsNat
<1>12. Sum(o, Vaults) = Sum(w, S)
  BY <1>9, <1>10, <1>11
<1> QED
  BY <1>2, <1>3, <1>6, <1>12 DEF o

\* The payments of the vaults the router sold, of which there is one each.
LEMMA PaymentsAre ==
  ASSUME TypeOK, TxInv, NEW S \in SUBSET Paid
  PROVE  /\ S \in SUBSET TxIds /\ Paid \in SUBSET TxIds
         /\ Weights(PaidOf, TxIds) /\ Weights(ByVault(PaidOf, S), Vaults)
         /\ Sum(ByVault(PaidOf, S), Vaults) = Sum(PaidOf, S)
         /\ Sum(PaidOf, S) \in Nat
         /\ \A t \in S : /\ Vault(t) \in Vaults
                         /\ ByVault(PaidOf, S)[Vault(t)] = tx[t].paid
                         /\ tx[t].paid <= tx[t].batch.most /\ tx[t].batch.most \in Nat
                         /\ tx[t].paid \in Nat
         /\ \A v \in Vaults : v \notin Sold(S) => ByVault(PaidOf, S)[v] = 0
<1>1. S \in SUBSET TxIds /\ Paid \in SUBSET TxIds /\ Weights(PaidOf, TxIds)
  BY PaidWeighs DEF Paid
<1>2. \A t \in Paid : tx[t].batch \in Batch /\ tx[t].paid <= tx[t].batch.most
                      /\ tx[t].paid \in Nat
  <2>1. \A t \in Paid : t \in TxIds /\ tx[t].state # "none"
    BY DEF Paid
  <2>2. \A t \in TxIds : tx[t].paid \in Nat
    BY Constants DEF TypeOK, Tx, Amounts
  <2> QED
    BY <2>1, <2>2 DEF TxInv
<1>3. \A t \in S : Vault(t) \in Vaults /\ tx[t].batch.most \in Nat
  BY <1>2, Constants DEF Batch, Vault, Amounts
<1>4. \A t, u \in S : Vault(t) = Vault(u) => t = u
  BY DEF TxInv
<1>5. /\ Weights(ByVault(PaidOf, S), Vaults)
      /\ Sum(ByVault(PaidOf, S), Vaults) = Sum(PaidOf, S)
      /\ \A t \in S : ByVault(PaidOf, S)[Vault(t)] = PaidOf[t]
      /\ \A v \in Vaults : (\A t \in S : Vault(t) # v) => ByVault(PaidOf, S)[v] = 0
  BY <1>1, <1>3, <1>4, ByVaultIs
<1>6. Sum(PaidOf, S) \in Nat
  BY <1>1, SumIsNat
<1>7. \A t \in S : PaidOf[t] = tx[t].paid
  BY <1>1 DEF PaidOf
<1>8. \A v \in Vaults : v \notin Sold(S) => \A t \in S : Vault(t) # v
  BY DEF Sold
<1> QED
  BY <1>1, <1>2, <1>3, <1>5, <1>6, <1>7, <1>8

\* A batch that may execute, or whose payment no read saw, outlives this one.
LEMMA RetiredKeeps ==
  ASSUME Inv, NEW h \in Heads, NEW S \in SUBSET TxIds, Book(S),
         NEW t \in TxIds, Live(t) \/ t \in Paid \ (S \cup Seen(h))
  PROVE  \E a \in Retired(auths, h) : Id(a) = tx[t].batch
<1>1. Recorded(tx[t].batch)
  BY DEF Book
<1>2. PICK a \in auths : Id(a) = tx[t].batch
  BY <1>1 DEF Recorded
<1>3. a.vault = Vault(t) /\ a.deadline = tx[t].batch.deadline /\ a.deadline \in Nat
  BY <1>2 DEF Id, Vault, Inv, TypeOK, Auth
<1>4. /\ h \in Nat /\ height \in Nat /\ h <= height /\ Margin \in Nat /\ Depth \in Nat
      /\ Depth <= Margin + 1
  BY Constants DEF Heads, Heights, Inv, TypeOK
<1>5. \/ a \in Retired(auths, h)
      \/ MinedBy(a, h) \/ Expired(a, h)
      \/ \E u \in Paid : tx[u].at <= h /\ Vault(u) = a.vault
  BY RetiredIs DEF Inv, TypeOK
<1>6. MinedBy(a, h) => \E u \in Paid : tx[u].at <= h /\ Vault(u) = a.vault
  BY DEF MinedBy, Inv, ExecutedInv
<1>7. CASE Live(t)
  <2>1. \A u \in Paid : Vault(u) # a.vault
    BY <1>3, <1>7 DEF Live, Inv, TxInv
  <2>2. ~Expired(a, h)
    BY <1>3, <1>4, <1>7 DEF Live, Expired
  <2> QED
    BY <1>2, <1>5, <1>6, <2>1, <2>2
<1>8. CASE t \in Paid \ (S \cup Seen(h))
  <2>1. ~(tx[t].at <= h)
    BY <1>8 DEF Seen
  <2>2. \A u \in Paid : Vault(u) = a.vault => u = t
    BY <1>3, <1>8 DEF Inv, TxInv
  <2>3. ~Expired(a, h)
    <3>1. tx[t].at \in Nat /\ tx[t].at <= a.deadline
      BY <1>3, <1>8, Constants DEF Inv, TxInv
    <3> QED
      BY <1>3, <1>4, <2>1, <3>1 DEF Expired
  <2> QED
    BY <1>2, <1>5, <1>6, <2>1, <2>2, <2>3
<1> QED
  BY <1>7, <1>8

\* Payments a read sees for the first time take no more from the balance than
\* their batches were held for.
LEMMA SeenFits ==
  ASSUME Inv, NEW T \in SUBSET Paid, NEW S \in SUBSET T, Book(S),
         NEW A \in SUBSET auths, \A a \in auths : ~a.backed
  PROVE  Sum(WorstOf(A, Sold(T)), Vaults) + Sum(PaidOf, T \ S)
           <= Sum(WorstOf(auths, Sold(S)), Vaults)
<1> DEFINE New == T \ S
           w == WorstOf(A, Sold(T))
           o == ByVault(PaidOf, New)
           v == WorstOf(auths, Sold(S))
           u == [x \in Vaults |-> w[x] + o[x]]
<1>1. auths \in SUBSET Auth /\ A \in SUBSET Auth /\ \A a \in A : a \in auths
  BY DEF Inv, TypeOK
<1>2. New \in SUBSET Paid /\ S \in SUBSET Paid
  OBVIOUS
<1>3. /\ Weights(PaidOf, TxIds) /\ Weights(o, Vaults)
      /\ Sum(o, Vaults) = Sum(PaidOf, New)
      /\ \A t \in New : /\ Vault(t) \in Vaults /\ o[Vault(t)] = tx[t].paid
                        /\ tx[t].paid <= tx[t].batch.most /\ tx[t].batch.most \in Nat
                        /\ tx[t].paid \in Nat
      /\ \A x \in Vaults : x \notin Sold(New) => o[x] = 0
  BY <1>2, PaymentsAre DEF Inv
<1>4. Weights(w, Vaults) /\ Weights(v, Vaults)
  BY <1>1, WorstWeighs
<1>5. \A x \in Vaults : /\ w[x] = IF x \in Sold(T) THEN 0 ELSE Worst(A, x)
                        /\ v[x] = IF x \in Sold(S) THEN 0 ELSE Worst(auths, x)
  BY DEF WorstOf
<1>6. \A x \in Vaults : Worst(A, x) <= Worst(auths, x)
  BY <1>1, FewerOpen
<1>7. \A x \in Vaults : Worst(A, x) \in Nat /\ Worst(auths, x) \in Nat
  BY <1>1, WorstIs
<1>8. \A t \in New : tx[t].batch.most <= Worst(auths, Vault(t)) /\ Vault(t) \notin Sold(S)
                     /\ Vault(t) \in Sold(T)
  <2> SUFFICES ASSUME NEW t \in New
               PROVE  tx[t].batch.most <= Worst(auths, Vault(t)) /\ Vault(t) \notin Sold(S)
                      /\ Vault(t) \in Sold(T)
    OBVIOUS
  <2>1. t \in TxIds /\ t \in Paid \ S
    BY DEF Paid
  <2>2. PICK a \in auths : Id(a) = tx[t].batch
    BY <2>1 DEF Book, Recorded
  <2>3. ~a.backed /\ a.vault = Vault(t) /\ a.most = tx[t].batch.most
    BY <2>2 DEF Id, Vault
  <2>4. a.most <= Worst(auths, Vault(t))
    BY <1>1, <2>3, WorstIs
  <2>5. Vault(t) \notin Sold(S)
    BY <1>2, <2>1 DEF Inv, TxInv, Sold
  <2> QED
    BY <2>3, <2>4, <2>5 DEF Sold
<1> HIDE DEF New, w, o, v
<1>9. \A x \in Vaults : w[x] \in Nat /\ o[x] \in Nat /\ v[x] \in Nat
  BY <1>3, <1>4 DEF Weights
<1>10. /\ Weights(u, Vaults) /\ Vaults \in SUBSET Vaults
       /\ \A x \in Vaults : u[x] = w[x] + o[x]
  BY <1>9, Constants DEF Weights
<1>11. \A x \in Vaults : x \in Vaults /\ u[x] <= v[x]
  <2> SUFFICES ASSUME NEW x \in Vaults PROVE w[x] + o[x] <= v[x]
    BY <1>10
  <2>1. CASE x \in Sold(New)
    <3>1. PICK t \in New : x = Vault(t)
      BY <2>1 DEF Sold
    <3>2. w[x] = 0 /\ o[x] = tx[t].paid /\ v[x] = Worst(auths, x)
      BY <1>3, <1>5, <1>8, <3>1
    <3>3. tx[t].paid <= tx[t].batch.most /\ tx[t].batch.most <= Worst(auths, x)
          /\ tx[t].paid \in Nat /\ tx[t].batch.most \in Nat
      BY <1>3, <1>8, <3>1
    <3> QED
      BY <1>7, <3>2, <3>3
  <2>2. CASE x \notin Sold(New) /\ x \in Sold(S)
    <3>1. x \in Sold(T)
      BY <2>2 DEF Sold
    <3> QED
      BY <1>3, <1>5, <1>9, <2>2, <3>1
  <2>3. CASE x \notin Sold(New) /\ x \notin Sold(S)
    <3>1. o[x] = 0 /\ v[x] = Worst(auths, x) /\ (w[x] = 0 \/ w[x] = Worst(A, x))
      BY <1>3, <1>5, <2>3
    <3> QED
      BY <1>6, <1>7, <3>1
  <2> QED
    BY <2>1, <2>2, <2>3
<1> HIDE DEF u
<1>12. Sum(u, Vaults) = Sum(w, Vaults) + Sum(o, Vaults)
  BY <1>3, <1>4, <1>10, SumPlus
<1>13. Sum(u, Vaults) <= Sum(v, Vaults)
  BY <1>4, <1>10, <1>11, SumCovers
<1> QED
  BY <1>3, <1>12, <1>13 DEF New, w, v

\* What a read, whole or broken off, leaves of the books: with the payments it
\* saw set aside as well, the same figures fit in what is left.
LEMMA Reread ==
  ASSUME Inv, NEW h \in Heads, NEW S \in SUBSET TxIds, Book(S),
         NEW T, T = S \cup Seen(h),
         UNCHANGED <<height, escrow, tx>>, \A a \in auths : ~a.backed,
         auths' \in SUBSET auths, Retired(auths, h) \subseteq auths'
  PROVE  /\ T \in SUBSET TxIds /\ (T \subseteq Paid)'
         /\ (\A t \in TxIds : Live(t) \/ t \in Paid \ T => Recorded(tx[t].batch))'
         /\ Left(T)' = Funds - Sum(PaidOf, T)
         /\ Rest(T)' \in Nat /\ Rest(T)' <= Held(auths') /\ Left(T)' \in Nat
         /\ \A x \in Nat : Rest(S) + x <= Left(S) => Rest(T)' + x <= Left(T)'
<1>1. /\ T \in SUBSET Paid /\ S \in SUBSET T /\ S \in SUBSET Paid /\ T \ S \in SUBSET Paid
  BY DEF Book, Seen
<1>2. /\ T \in SUBSET TxIds /\ Paid' = Paid
  BY <1>1 DEF Paid
<1>3. auths' \in SUBSET Auth /\ auths \in SUBSET Auth
  BY DEF Inv, TypeOK
<1>4. /\ Left(T)' = Left(T) /\ Rest(T)' = Sum(WorstOf(auths', Sold(T)), Vaults)
  BY <1>1, PaidStays DEF Inv
<1>5. (\A t \in TxIds : Live(t) \/ t \in Paid \ T => Recorded(tx[t].batch))'
  <2> SUFFICES ASSUME NEW t \in TxIds, Live(t)' \/ t \in Paid' \ T
               PROVE  \E a \in auths' : Id(a) = tx[t].batch
    BY DEF Recorded
  <2>1. Live(t) \/ t \in Paid \ (S \cup Seen(h))
    BY <1>2 DEF Live, Vault
  <2> QED
    BY <2>1, RetiredKeeps
<1>6. /\ Sum(WorstOf(auths', Sold(T)), Vaults) + Sum(PaidOf, T \ S)
           <= Sum(WorstOf(auths, Sold(S)), Vaults)
  BY <1>1, SeenFits
<1>7. /\ Sum(WorstOf(auths', Sold(T)), Vaults) \in Nat
      /\ Sum(WorstOf(auths', Sold(T)), Vaults) <= Held(auths')
      /\ Rest(S) \in Nat /\ Rest(S) = Sum(WorstOf(auths, Sold(S)), Vaults)
  BY <1>3, HeldBounds DEF Rest
<1>8. /\ Left(T) \in Nat /\ Left(S) \in Nat /\ Sum(PaidOf, T \ S) \in Nat
      /\ Left(S) = Funds - Sum(PaidOf, S) /\ Left(T) = Funds - Sum(PaidOf, T)
      /\ Sum(PaidOf, S) \in Nat
  BY <1>1, LeftIs DEF Inv
<1>9. Sum(PaidOf, T) = Sum(PaidOf, S) + Sum(PaidOf, T \ S)
  <2> DEFINE w == PaidOf
             R == T \ S
  <2>1. S \in SUBSET TxIds /\ R \in SUBSET TxIds /\ S \cap R = {} /\ S \cup R = T
    BY <1>1, <1>2
  <2>2. Weights(w, TxIds)
    BY PaidWeighs DEF Inv
  <2> HIDE DEF w, R
  <2>3. Sum(w, S \cup R) = Sum(w, S) + Sum(w, R)
    BY <2>1, <2>2, SumUnion, SMTT(30)
  <2> QED
    BY <2>1, <2>3 DEF w, R
<1>10. \A x \in Nat : Rest(S) + x <= Left(S) => Rest(T)' + x <= Left(T)
  <2> SUFFICES ASSUME NEW x \in Nat, Rest(S) + x <= Left(S)
               PROVE  Sum(WorstOf(auths', Sold(T)), Vaults) + x <= Left(T)
    BY <1>4
  <2> QED
    BY <1>6, <1>7, <1>8, <1>9, Constants
<1> QED
  BY <1>1, <1>2, <1>4, <1>5, <1>7, <1>8, <1>10

\* Between two cycles the gate reserves nothing and no batch is backed.
LEMMA Starting ==
  ASSUME Inv, CycleStarts
  PROVE  /\ engine = Idle /\ todo = {} /\ waiting = {} /\ ~Busy
         /\ \A a \in auths : ~a.backed
         /\ gate.reserved = 0 /\ engine.most = 0 /\ Sum(MostOf, waiting) = 0
<1>1. engine = Idle /\ todo = {} /\ waiting = {}
  BY DEF CycleStarts
<1>2. \A a \in auths : ~a.backed
  BY <1>1, Rests DEF Inv, SlotInv, Backing
<1>3. Weights(MostOf, TxIds) /\ {} \in SUBSET TxIds
  BY MostWeighs DEF Inv
<1>4. Sum(MostOf, {}) = 0
  BY <1>3, SumStep
<1>5. gate.reserved = 0
  BY <1>1, <1>4, Rests DEF Inv, SlotInv, Reserving
<1> QED
  BY <1>1, <1>2, <1>4, <1>5, Rests DEF Busy

\* The parts a read, whole or broken off, leaves alone.
LEMMA RereadKeeps ==
  ASSUME Inv, CycleStarts, NEW h \in Heads,
         UNCHANGED <<height, price, escrow, tx, engine, waiting>>,
         auths' \in SUBSET auths, todo' \in SUBSET Vaults, gate'.reserved = 0,
         gate' \in [available : Nat \cup {None}, block : Heights, reserved : Nat],
         inventory' \in Inventory \cup {None}, retiredTo' = Max({retiredTo, h}),
         overlooked' \in BOOLEAN
  PROVE  /\ TypeOK' /\ SlotInv' /\ TxInv' /\ ExecutedInv'
         /\ retiredTo' \in Nat /\ retiredTo' >= retiredTo /\ retiredTo' >= h
<1>1. /\ engine = Idle /\ todo = {} /\ waiting = {}
      /\ \A a \in auths : ~a.backed
      /\ engine.most = 0 /\ Sum(MostOf, waiting) = 0
  BY Starting
<1>2. /\ retiredTo' \in Heights /\ retiredTo' \in Nat
      /\ retiredTo' >= retiredTo /\ retiredTo' >= h
  <2>1. h \in Heights /\ h \in Nat /\ retiredTo \in Heights /\ retiredTo \in Nat
    BY Constants DEF Heads, Heights, Inv, TypeOK
  <2>2. /\ Max({retiredTo, h}) \in {retiredTo, h}
        /\ Max({retiredTo, h}) >= retiredTo /\ Max({retiredTo, h}) >= h
    BY <2>1, Higher
  <2> QED
    BY <2>1, <2>2
<1>3. TypeOK'
  <2>1. auths' \in SUBSET Auth /\ \A a, b \in auths' : Id(a) = Id(b) => a = b
    BY DEF Inv, TypeOK
  <2> QED
    BY <1>2, <2>1 DEF Inv, TypeOK
<1>4. SlotInv'
  <2>1. EngineInv' /\ WaitInv'
    BY <1>1, Rests DEF EngineInv, WaitInv
  <2>2. Backing'
    BY <1>1 DEF Backing
  <2>3. Reserving'
    <3>1. MostOf' = MostOf
      BY DEF MostOf
    <3>2. (Sum(MostOf, waiting))' = Sum(MostOf, waiting)
      BY <3>1
    <3> QED
      BY <1>1, <3>2 DEF Reserving
  <2> QED
    BY <2>1, <2>2, <2>3 DEF SlotInv
<1>5. TxInv'
  BY DEF Inv, TxInv, Paid, PaidOf, Vault
<1>6. ExecutedInv'
  BY DEF Inv, ExecutedInv, Paid, Vault
<1> QED
  BY <1>2, <1>3, <1>4, <1>5, <1>6

LEMMA RefreshKeeps ==
  ASSUME Inv, Refresh
  PROVE  Inv'
<1>1. /\ CycleStarts /\ todo' = Vaults
      /\ UNCHANGED <<height, price, escrow, tx, engine, waiting>>
  BY DEF Refresh, chain
<1>2. PICK h \in Heads :
         /\ auths' = Retired(auths, h)
         /\ inventory' = [balance |-> BalanceAt(h), block |-> h]
         /\ gate' = Publish(gate, auths', inventory')
         /\ retiredTo' = Max({retiredTo, h})
         /\ overlooked' = (overlooked \/ (gate.block <= h /\ h < retiredTo))
  BY DEF Refresh
<1>3. /\ \A a \in auths : ~a.backed
      /\ gate.reserved = 0
  BY <1>1, Starting
<1>4. /\ h \in Heights /\ h \in Nat /\ gate.block \in Nat
      /\ \A x \in Heights : x \in Nat
  BY Constants DEF Heads, Heights, Inv, TypeOK
<1>5. auths' \in SUBSET Auth /\ auths' \in SUBSET auths /\ auths \in SUBSET Auth
  BY <1>2, RetiredIs DEF Inv, TypeOK
<1>6. /\ BalanceAt(h) = Left(Seen(h)) /\ BalanceAt(h) \in Nat
      /\ inventory' \in Inventory /\ inventory' # None
      /\ inventory'.balance = BalanceAt(h) /\ inventory'.block = h
  <2>1. Seen(h) \in SUBSET Paid
    BY DEF Seen
  <2>2. BalanceAt(h) = Left(Seen(h)) /\ BalanceAt(h) \in Nat
    BY <2>1, BalanceIs, LeftIs DEF Inv
  <2>3. inventory' \in Inventory /\ inventory'.balance = BalanceAt(h)
        /\ inventory'.block = h
    BY <1>2, <1>4, <2>2 DEF Inventory
  <2> QED
    BY <2>2, <2>3, Constants
<1> DEFINE net == NetOf(BalanceAt(h), Held(auths'))
<1>7. net \in Nat /\ Held(auths') \in Nat
  BY <1>5, <1>6, HeldIs DEF NetOf
<1>8. gate' = SetAvailable(gate, net, h)
  BY <1>2, <1>6 DEF Publish
<1>9. /\ gate'.reserved = 0 /\ gate'.available \in Nat /\ h <= gate'.block
      /\ gate' \in [available : Nat \cup {None}, block : Heights, reserved : Nat]
      /\ h >= gate.block => gate'.available = net /\ gate'.block = h
      /\ h < gate.block => gate' = gate
  <2> HIDE DEF net
  <2>1. CASE gate.available # None /\ h < gate.block
    BY <1>3, <1>4, <1>8, <2>1, Figures DEF SetAvailable
  <2>2. CASE ~(gate.available # None /\ h < gate.block)
    <3>1. h >= gate.block
      <4>1. gate.available = None => gate.block = 0
        BY <1>4, Constants DEF Inv, GateInv
      <4> QED
        BY <1>4, <2>2, <4>1
    <3>2. gate' = [gate EXCEPT !.available = net, !.block = h]
      BY <1>8, <2>2 DEF SetAvailable
    <3>3. gate'.reserved = 0 /\ gate'.available = net /\ gate'.block = h
      BY <1>3, <3>2, Figures
    <3>4. gate' \in [available : Nat \cup {None}, block : Heights, reserved : Nat]
      BY <1>4, <1>7, <3>2, Figures
    <3>5. h <= gate'.block /\ ~(h < gate.block)
      BY <1>4, <3>1, <3>3
    <3> QED
      BY <1>7, <3>3, <3>4, <3>5
  <2> QED
    BY <2>1, <2>2
<1>10. overlooked' \in BOOLEAN
  BY <1>2 DEF Inv, TypeOK
<1>11. /\ TypeOK' /\ SlotInv' /\ TxInv' /\ ExecutedInv'
       /\ retiredTo' \in Nat /\ retiredTo' >= retiredTo /\ retiredTo' >= h
  BY <1>1, <1>2, <1>5, <1>6, <1>9, <1>10, RereadKeeps
<1>12. GateInv'
  <2>1. Held(auths)' = Held(auths')
    BY DEF Held, MapThenSumSet, MapThenFoldSet
  <2>2. NetOf(inventory.balance, Held(auths))' = net
    BY <1>6, <2>1 DEF NetOf
  <2>3. inventory'.block = gate'.block =>
           gate'.available <= NetOf(inventory.balance, Held(auths))'
    <3> HIDE DEF net
    <3>1. h = gate'.block => h >= gate.block
      BY <1>4, <1>9
    <3> QED
      BY <1>6, <1>7, <1>9, <2>2, <3>1
  <2> QED
    BY <1>6, <1>9, <2>3 DEF GateInv
<1>13. BookInv'
  <2>1. CASE overlooked'
    BY <2>1 DEF BookInv
  <2>2. CASE ~overlooked'
    <3>1. ~overlooked /\ ~(gate.block <= h /\ h < retiredTo)
      BY <1>2, <2>2
    <3>2. PICK S \in SUBSET TxIds : Book(S)
      BY <3>1 DEF Inv, BookInv
    <3>3. PICK T : T = S \cup Seen(h)
      OBVIOUS
    <3>4. /\ T \in SUBSET TxIds /\ (T \subseteq Paid)'
          /\ (\A t \in TxIds : Live(t) \/ t \in Paid \ T => Recorded(tx[t].batch))'
          /\ Left(T)' = Funds - Sum(PaidOf, T)
          /\ Rest(T)' \in Nat /\ Rest(T)' <= Held(auths') /\ Left(T)' \in Nat
          /\ \A x \in Nat : Rest(S) + x <= Left(S) => Rest(T)' + x <= Left(T)'
      BY <1>1, <1>2, <1>3, <1>5, <3>2, <3>3, Reread
    <3>5. \A t \in S : t \in Paid /\ tx[t].at <= retiredTo /\ tx[t].at \in Nat
      BY <3>2, Constants DEF Book, Inv, TxInv
    <3>6. retiredTo \in Nat
      BY <1>4 DEF Inv, TypeOK
    <3>7. (\A t \in T : tx[t].at <= retiredTo)'
      <4>1. \A t \in Seen(h) : tx[t].at <= h /\ tx[t].at \in Nat
        BY Constants DEF Seen, Inv, TxInv
      <4> QED
        BY <1>1, <1>4, <1>11, <3>3, <3>5, <3>6, <4>1
    <3>8. h >= gate.block => BalanceAt(h) = Left(T)'
      <4> SUFFICES ASSUME h >= gate.block PROVE T = Seen(h)
        BY <1>6, <3>4 DEF Left
      <4>1. h >= retiredTo
        BY <1>4, <3>1, <3>6
      <4> QED
        BY <1>4, <3>3, <3>5, <3>6, <4>1 DEF Seen
    <3>9. Rest(T)' + gate'.reserved <= Left(T)'
      BY <1>3, <1>9, <3>2, <3>4 DEF Book
    <3>10. gate'.available = 0 \/ Rest(T)' + gate'.available <= Left(T)'
      <4>1. CASE h >= gate.block
        <5>1. net = 0 \/ net = BalanceAt(h) - Held(auths')
          BY DEF NetOf
        <5> HIDE DEF net
        <5> QED
          BY <1>6, <1>7, <1>9, <3>4, <3>8, <4>1, <5>1
      <4>2. CASE h < gate.block
        <5>1. inventory # None /\ gate.available \in Nat
          <6>1. gate.available # None
            BY <1>9, <4>2, Constants
          <6> QED
            BY <6>1 DEF Inv, GateInv
        <5>2. gate.available = 0 \/ Rest(S) + gate.available <= Left(S)
          BY <3>2, <5>1 DEF Book
        <5> QED
          BY <1>9, <3>4, <4>2, <5>1, <5>2
      <4> QED
        BY <1>4, <4>1, <4>2
    <3>11. inventory'.block = gate'.block => inventory'.balance <= Left(T)'
      <4>1. h = gate'.block => h >= gate.block
        BY <1>4, <1>9
      <4> QED
        BY <1>6, <3>4, <3>8, <4>1
    <3>12. Book(T)'
      BY <3>4, <3>7, <3>9, <3>10, <3>11 DEF Book
    <3> QED
      BY <3>4, <3>12 DEF BookInv
  <2> QED
    BY <2>1, <2>2
<1> QED
  BY <1>11, <1>12, <1>13 DEF Inv

\* Nothing is read, but batches are gone.
LEMMA RefreshFailsKeeps ==
  ASSUME Inv, RefreshFails
  PROVE  Inv'
<1>1. /\ CycleStarts
      /\ UNCHANGED <<height, price, escrow, tx, engine, waiting, inventory, gate, todo>>
      /\ overlooked' = overlooked
  BY DEF RefreshFails, chain
<1>2. PICK h \in Heads : auths' = Lasting(auths, h) /\ retiredTo' = Max({retiredTo, h})
  BY DEF RefreshFails
<1>3. /\ \A a \in auths : ~a.backed
      /\ gate.reserved = 0 /\ ~Busy /\ todo = {}
  BY <1>1, Starting
<1>4. /\ auths' \in SUBSET Auth /\ auths' \in SUBSET auths /\ auths \in SUBSET Auth
      /\ Retired(auths, h) \subseteq auths'
  BY <1>2, RetiredIs DEF Inv, TypeOK
<1>5. /\ TypeOK' /\ SlotInv' /\ TxInv' /\ ExecutedInv'
      /\ retiredTo' \in Nat /\ retiredTo' >= retiredTo /\ retiredTo' >= h
  BY <1>1, <1>2, <1>3, <1>4, RereadKeeps DEF Inv, TypeOK
<1>6. /\ h \in Nat /\ retiredTo \in Nat
  BY Constants DEF Heads, Heights, Inv, TypeOK
<1>7. GateInv'
  <2>1. CASE inventory = None
    BY <1>1, <1>4, <2>1 DEF Inv, GateInv
  <2>2. CASE inventory # None
    <3>1. /\ inventory.balance \in Nat /\ gate.available \in Nat
          /\ inventory.block = gate.block =>
                gate.available <= NetOf(inventory.balance, Held(auths))
      BY <2>2 DEF Inv, GateInv, TypeOK, Inventory
    <3>2. Held(auths') <= Held(auths) /\ Held(auths') \in Nat /\ Held(auths) \in Nat
      BY <1>4, FewerOpen, HeldIs
    <3>3. /\ NetOf(inventory.balance, Held(auths)) <= NetOf(inventory.balance, Held(auths'))
          /\ NetOf(inventory.balance, Held(auths)) \in Nat
          /\ NetOf(inventory.balance, Held(auths')) \in Nat
      BY <3>1, <3>2, NetOfFalls
    <3>4. Held(auths)' = Held(auths')
      BY DEF Held, MapThenSumSet, MapThenFoldSet
    <3>5. inventory.block = gate.block =>
             gate.available <= NetOf(inventory.balance, Held(auths'))
      BY <3>1, <3>3
    <3> QED
      BY <1>1, <2>2, <3>4, <3>5 DEF Inv, GateInv
  <2> QED
    BY <2>1, <2>2
<1>8. BookInv'
  <2>1. CASE overlooked
    BY <1>1, <2>1 DEF BookInv
  <2>2. CASE ~overlooked
    <3>1. PICK S \in SUBSET TxIds : Book(S)
      BY <2>2 DEF Inv, BookInv
    <3>2. PICK T : T = S \cup Seen(h)
      OBVIOUS
    <3>3. /\ T \in SUBSET TxIds /\ (T \subseteq Paid)'
          /\ (\A t \in TxIds : Live(t) \/ t \in Paid \ T => Recorded(tx[t].batch))'
          /\ \A x \in Nat : Rest(S) + x <= Left(S) => Rest(T)' + x <= Left(T)'
      BY <1>1, <1>3, <1>4, <3>1, <3>2, Reread
    <3>4. (\A t \in T : tx[t].at <= retiredTo)'
      <4>1. \A t \in T : tx[t].at \in Nat /\ (tx[t].at <= retiredTo \/ tx[t].at <= h)
        BY <3>1, <3>2, Constants DEF Book, Seen, Inv, TxInv
      <4> QED
        BY <1>1, <1>5, <1>6, <4>1
    <3>5. Rest(T)' + gate'.reserved <= Left(T)'
      BY <1>1, <1>3, <3>1, <3>3 DEF Book
    <3>6. inventory # None =>
             gate'.available = 0 \/ Rest(T)' + gate'.available <= Left(T)'
      <4> SUFFICES ASSUME inventory # None
                   PROVE  gate.available = 0 \/ Rest(T)' + gate.available <= Left(T)'
        BY <1>1
      <4>1. gate.available \in Nat
        BY DEF Inv, GateInv
      <4> QED
        BY <3>1, <3>3, <4>1 DEF Book
    <3>7. ~Busy'
      BY <1>1, <1>3 DEF Busy
    <3>8. Book(T)'
      BY <1>1, <3>3, <3>4, <3>5, <3>6, <3>7 DEF Book
    <3> QED
      BY <3>3, <3>8 DEF BookInv
  <2> QED
    BY <2>1, <2>2
<1> QED
  BY <1>5, <1>7, <1>8 DEF Inv

LEMMA CycleStep == Inv /\ Cycle => Inv'
<1> SUFFICES ASSUME Inv, Cycle PROVE Inv'
  OBVIOUS
<1>1. CASE Refresh
  BY <1>1, RefreshKeeps
<1>2. ASSUME NEW v \in Vaults, Skip(v) \/ Open(v) PROVE Inv'
  BY <1>2, SkipKeeps, OpenKeeps
<1>3. CASE Unsigned \/ Sign \/ Drop \/ Broadcast \/ Ambiguous
  BY <1>3, UnsignedKeeps, SignKeeps, DropKeeps, BroadcastKeeps, AmbiguousKeeps
<1>4. ASSUME NEW t \in TxIds, Confirm(t) PROVE Inv'
  <2>1. /\ Receipts(t) /\ tx[t].state = "paid" /\ Settle(tx[t].batch, tx[t].at)
        /\ waiting' = waiting \ {t} /\ UNCHANGED <<chain, inventory, engine, todo>>
    BY <1>4 DEF Confirm
  <2>2. tx[t].at \in (1..MaxHeight) \cup {None}
    BY <2>1 DEF Inv, TxInv, Paid
  <2> QED
    BY <2>1, <2>2, ReceiptKeeps
<1>5. ASSUME NEW t \in TxIds, NotConfirmed(t) PROVE Inv'
  <2>1. /\ Receipts(t) /\ Settle(tx[t].batch, None)
        /\ waiting' = waiting \ {t} /\ UNCHANGED <<chain, inventory, engine, todo>>
    BY <1>5 DEF NotConfirmed
  <2> QED
    BY <2>1, ReceiptKeeps
<1> QED
  BY <1>1, <1>2, <1>3, <1>4, <1>5 DEF Cycle

LEMMA InvStep == Inv /\ [Next]_vars => Inv'
<1> SUFFICES ASSUME Inv, [Next]_vars PROVE Inv'
  OBVIOUS
<1>1. CASE Cycle
  BY <1>1, CycleStep
<1>2. CASE Chain \/ RefreshFails
  BY <1>2, ChainStep, RefreshFailsKeeps
<1>3. CASE UNCHANGED vars
  <2>1. UNCHANGED <<height, price, escrow, tx, auths, inventory, gate, engine, todo,
                    waiting, retiredTo, overlooked>>
    BY <1>3 DEF vars, chain, books, past
  <2>2. TypeOK'
    BY <2>1 DEF Inv, TypeOK
  <2>3. TxInv' /\ Paid' = Paid /\ \A t \in TxIds : Live(t)' => Live(t)
    BY <2>1 DEF Inv, TxInv, Paid, PaidOf, Vault, Live
  <2>4. height' >= height
    BY <2>1, Figures
  <2> QED
    BY <2>1, <2>2, <2>3, <2>4, ChainKeeps DEF books, past, Paid
<1> QED
  BY <1>1, <1>2, <1>3 DEF Next

LEMMA InvHolds == Spec => []Inv
<1> QED
  BY InvInit, InvStep, PTL DEF Spec

\* Every variable keeps its type, and a batch is on record once.
THEOREM TypeCorrect == Spec => []TypeOK
<1>1. Inv => TypeOK
  BY DEF Inv
<1> QED
  BY <1>1, InvHolds, PTL

-----------------------------------------------------------------------------
(* The treasury covers what is signed. *)

Offers(v) == {tx[t].batch.most : t \in Executable(v)}
ClaimOf == [v \in Vaults |-> IF Executable(v) = {} THEN 0 ELSE Max(Offers(v))]

LEMMA ClaimsAre ==
  ASSUME Inv
  PROVE  /\ Weights(ClaimOf, Vaults) /\ Claims = Sum(ClaimOf, Vaults)
         /\ \A v \in Vaults : \/ ClaimOf[v] = 0
                              \/ \E t \in TxIds : /\ Live(t) /\ Vault(t) = v
                                                  /\ tx[t].batch.most = ClaimOf[v]
<1> DEFINE S == {v \in Vaults : Executable(v) # {}}
           Fold(f) == f = [s \in SUBSET S |-> IF s = {} THEN 0
                         ELSE Max(Offers(Pick(s))) + f[s \ {Pick(s)}]]
<1>1. Claims = (CHOOSE f : Fold(f))[S]
  BY DEF Claims, MapThenSumSet, MapThenFoldSet, Pick, Offers
<1>2. \A v : \A t \in Executable(v) : t \in TxIds /\ Live(t) /\ Vault(t) = v
                                      /\ tx[t].batch.most \in Amounts
  <2>1. \A v : \A t \in Executable(v) : t \in TxIds /\ Live(t) /\ Vault(t) = v
                                        /\ tx[t].state = "live"
    BY DEF Executable, LiveFor, Live, Vault
  <2> QED
    BY <2>1 DEF Inv, TxInv, Batch
<1>3. \A v \in Vaults : Executable(v) # {} =>
         Offers(v) \in SUBSET Amounts /\ Offers(v) # {}
  BY <1>2 DEF Offers
<1>4. \A v \in Vaults : Executable(v) # {} =>
         ClaimOf[v] \in Offers(v) /\ ClaimOf[v] = Max(Offers(v))
  BY <1>3, MaxIs DEF ClaimOf
<1>5. \A v \in Vaults : Executable(v) = {} => ClaimOf[v] = 0
  BY DEF ClaimOf
<1>6. \A v \in Vaults : ClaimOf[v] \in Nat
  <2>1. Amounts \subseteq Nat
    BY Constants DEF Amounts
  <2>2. \A v \in Vaults : Executable(v) # {} => ClaimOf[v] \in Amounts
    BY <1>3, <1>4
  <2>3. 0 \in Nat
    OBVIOUS
  <2> QED
    BY <1>5, <2>1, <2>2, <2>3, Zenon
<1>7. Weights(ClaimOf, Vaults)
  <2>1. ClaimOf = [v \in Vaults |-> ClaimOf[v]]
    BY DEF ClaimOf
  <2> QED
    BY <1>6, <2>1, Constants DEF Weights
<1>8. \A v \in Vaults : \/ ClaimOf[v] = 0
                        \/ \E t \in TxIds : /\ Live(t) /\ Vault(t) = v
                                            /\ tx[t].batch.most = ClaimOf[v]
  BY <1>2, <1>4, <1>5 DEF Offers
<1>9. S \in SUBSET Vaults /\ IsFiniteSet(S)
  <2>1. S \in SUBSET Vaults
    OBVIOUS
  <2> HIDE DEF S
  <2> QED
    BY <2>1, Constants, FS_Subset
<1>10. \A f : Fold(f) <=> Sums(f, S, ClaimOf)
  <2> SUFFICES ASSUME NEW f PROVE Fold(f) <=> Sums(f, S, ClaimOf)
    OBVIOUS
  <2>1. \A v \in S : ClaimOf[v] = Max(Offers(v))
    BY <1>4
  <2> HIDE DEF S
  <2>2. \A s \in SUBSET S : s # {} => ClaimOf[Pick(s)] = Max(Offers(Pick(s)))
    BY <2>1, Picked
  <2>3. \A s \in SUBSET S : Step(f, s, ClaimOf) = IF s = {} THEN 0
                         ELSE Max(Offers(Pick(s))) + f[s \ {Pick(s)}]
    BY <2>2 DEF Step
  <2> QED
    BY <2>3 DEF Sums
<1>11. \E f : Fold(f)
  BY <1>9, <1>10, SumExists
<1> DEFINE g == CHOOSE f : Fold(f)
<1> HIDE DEF Fold
<1>12. Sums(g, S, ClaimOf)
  BY <1>10, <1>11
<1> HIDE DEF g
<1>13. g[S] = Sum(ClaimOf, S)
  BY <1>9, <1>12, SumByRecursion
<1>14. \A v \in Vaults : (v \in S /\ ClaimOf[v] <= ClaimOf[v]) \/ ClaimOf[v] = 0
  BY <1>5, <1>6
<1> HIDE DEF S
<1>15. Sum(ClaimOf, S) = Sum(ClaimOf, Vaults)
  <2>1. Vaults \in SUBSET Vaults /\ \A v \in S : v \in Vaults /\ ClaimOf[v] <= ClaimOf[v]
    BY <1>6, <1>9
  <2>2. Sum(ClaimOf, S) <= Sum(ClaimOf, Vaults) /\ Sum(ClaimOf, Vaults) <= Sum(ClaimOf, S)
    BY <1>7, <1>9, <1>14, <2>1, SumCovers
  <2>3. Sum(ClaimOf, S) \in Nat /\ Sum(ClaimOf, Vaults) \in Nat
    BY <1>7, <1>9, <2>1, SumIsNat
  <2> QED
    BY <2>2, <2>3
<1> QED
  BY <1>1, <1>7, <1>8, <1>13, <1>15 DEF g

\* What the open slots ask, vault by vault.
Judged == [v \in Vaults |-> IF v = engine.vault THEN engine.most ELSE 0]

LEMMA SlotsAre ==
  ASSUME Inv
  PROVE  /\ Weights(Judged, Vaults) /\ Weights(ByVault(MostOf, waiting), Vaults)
         /\ Sum(Judged, Vaults) + Sum(ByVault(MostOf, waiting), Vaults) <= gate.reserved
         /\ \A t \in waiting : ByVault(MostOf, waiting)[Vault(t)] = tx[t].batch.most
<1>1. /\ engine.most \in Nat /\ gate.reserved \in Nat /\ Sum(MostOf, waiting) \in Nat
      /\ gate.reserved = engine.most + Sum(MostOf, waiting)
  BY Figures DEF Inv, SlotInv, Reserving
<1>2. Weights(Judged, Vaults) /\ \A v \in Vaults : v # engine.vault => Judged[v] = 0
  BY <1>1, Constants DEF Weights, Judged
<1>3. Sum(Judged, Vaults) <= engine.most
  <2>1. CASE engine.vault \in Vaults
    <3>1. {engine.vault} \in SUBSET Vaults /\ {} \in SUBSET Vaults
          /\ engine.vault \in Vaults \ {} /\ Vaults \in SUBSET Vaults
      BY <2>1
    <3>2. Judged[engine.vault] = engine.most
      BY <2>1 DEF Judged
    <3>3. Sum(Judged, {} \cup {engine.vault}) = Judged[engine.vault] + Sum(Judged, {})
      BY <1>2, <3>1, SumAdd
    <3>4. Sum(Judged, {}) = 0
      BY <1>2, <3>1, SumStep
    <3>5. {} \cup {engine.vault} = {engine.vault}
      OBVIOUS
    <3>6. Sum(Judged, {engine.vault}) = engine.most
      BY <1>1, <3>2, <3>3, <3>4, <3>5
    <3>7. \A v \in Vaults : (v \in {engine.vault} /\ Judged[v] <= Judged[v]) \/ Judged[v] = 0
      BY <1>1, <1>2, <3>2
    <3>8. Sum(Judged, Vaults) <= Sum(Judged, {engine.vault})
      BY <1>2, <3>1, <3>7, SumCovers
    <3> QED
      BY <3>6, <3>8
  <2>2. CASE engine.vault \notin Vaults
    <3>1. {} \in SUBSET Vaults /\ Vaults \in SUBSET Vaults
      OBVIOUS
    <3>2. \A v \in Vaults : Judged[v] = 0
      BY <1>2, <2>2
    <3>3. Sum(Judged, Vaults) <= Sum(Judged, {}) /\ Sum(Judged, {}) = 0
      BY <1>2, <3>1, <3>2, SumCovers, SumStep
    <3>4. Sum(Judged, Vaults) \in Nat
      BY <1>2, <3>1, SumIsNat
    <3> QED
      BY <1>1, <3>3, <3>4
  <2> QED
    BY <2>1, <2>2
<1>4. /\ Weights(ByVault(MostOf, waiting), Vaults)
      /\ Sum(ByVault(MostOf, waiting), Vaults) = Sum(MostOf, waiting)
      /\ \A t \in waiting : ByVault(MostOf, waiting)[Vault(t)] = MostOf[t]
  <2>1. Weights(MostOf, TxIds) /\ waiting \in SUBSET TxIds
    BY MostWeighs DEF Inv, TypeOK
  <2>2. \A t \in waiting : Vault(t) \in Vaults
    BY AwaitedAre
  <2>3. \A t, u \in waiting : Vault(t) = Vault(u) => t = u
    BY DEF Inv, SlotInv, WaitInv
  <2> QED
    BY <2>1, <2>2, <2>3, ByVaultIs
<1>5. \A t \in waiting : MostOf[t] = tx[t].batch.most
  BY AwaitedAre
<1>6. Sum(Judged, Vaults) \in Nat
  <2>1. Vaults \in SUBSET Vaults
    OBVIOUS
  <2> QED
    BY <1>2, <2>1, SumIsNat
<1> QED
  BY <1>1, <1>2, <1>3, <1>4, <1>5, <1>6

\* The payments seen and those not seen make up all of them.
LEMMA PaymentsPart ==
  ASSUME TypeOK, TxInv, NEW S \in SUBSET Paid
  PROVE  /\ Sum(PaidOf, Paid) = Sum(PaidOf, S) + Sum(PaidOf, Paid \ S)
         /\ Sum(PaidOf, S) \in Nat /\ Sum(PaidOf, Paid \ S) \in Nat
<1> DEFINE R == Paid \ S
<1>1. R \in SUBSET Paid /\ S \cup R = Paid /\ S \cap R = {}
  OBVIOUS
<1>2. /\ S \in SUBSET TxIds /\ R \in SUBSET TxIds /\ Weights(PaidOf, TxIds)
      /\ Sum(PaidOf, S) \in Nat /\ Sum(PaidOf, R) \in Nat
  BY <1>1, PaymentsAre
<1> HIDE DEF R
<1>3. Sum(PaidOf, S \cup R) = Sum(PaidOf, S) + Sum(PaidOf, R)
  <2> DEFINE w == PaidOf
  <2>1. Weights(w, TxIds)
    BY <1>2
  <2> HIDE DEF w
  <2>2. Sum(w, S \cup R) = Sum(w, S) + Sum(w, R)
    BY <1>1, <1>2, <2>1, SumUnion
  <2> QED
    BY <2>2 DEF w
<1> QED
  BY <1>1, <1>2, <1>3 DEF R

LEMMA InvCovers == Inv => CoveredUnlessOverlooked
<1> SUFFICES ASSUME Inv, ~overlooked PROVE TreasuryCovered
  BY DEF CoveredUnlessOverlooked
<1>1. PICK S \in SUBSET TxIds : Book(S)
  BY DEF Inv, BookInv
<1> DEFINE R == Paid \ S
           c == ClaimOf
           o == ByVault(PaidOf, R)
           w == WorstOf(auths, Sold(S))
           j == Judged
           q == ByVault(MostOf, waiting)
           taken == [v \in Vaults |-> c[v] + o[v]]
           slots == [v \in Vaults |-> j[v] + q[v]]
           kept == [v \in Vaults |-> w[v] + slots[v]]
<1>2. /\ S \in SUBSET Paid /\ R \in SUBSET Paid /\ S \cup R = Paid /\ S \cap R = {}
  BY <1>1 DEF Book
<1>3. /\ Weights(o, Vaults) /\ Sum(o, Vaults) = Sum(PaidOf, R)
      /\ \A t \in R : /\ Vault(t) \in Vaults /\ o[Vault(t)] = tx[t].paid
                      /\ tx[t].paid <= tx[t].batch.most /\ tx[t].batch.most \in Nat
                      /\ tx[t].paid \in Nat
      /\ \A v \in Vaults : v \notin Sold(R) => o[v] = 0
  BY <1>2, PaymentsAre DEF Inv
<1>4. /\ Sum(PaidOf, Paid) = Sum(PaidOf, S) + Sum(PaidOf, R)
      /\ Sum(PaidOf, S) \in Nat /\ Sum(PaidOf, R) \in Nat
  BY <1>2, PaymentsPart DEF Inv
<1>5. /\ Weights(c, Vaults) /\ Claims = Sum(c, Vaults)
      /\ \A v \in Vaults : \/ c[v] = 0
                           \/ \E t \in TxIds : /\ Live(t) /\ Vault(t) = v
                                               /\ tx[t].batch.most = c[v]
  BY ClaimsAre
<1>6. /\ Weights(j, Vaults) /\ Weights(q, Vaults)
      /\ Sum(j, Vaults) + Sum(q, Vaults) <= gate.reserved
      /\ \A t \in waiting : q[Vault(t)] = tx[t].batch.most
      /\ \A v \in Vaults : v = engine.vault => j[v] = engine.most
  BY SlotsAre DEF Judged
<1>7. Weights(w, Vaults) /\ auths \in SUBSET Auth
  BY WorstWeighs DEF Inv, TypeOK
<1>8. \A v \in Vaults : v \notin Sold(S) => w[v] = Worst(auths, v)
  BY DEF WorstOf
<1> HIDE DEF R, c, o, w, j, q
<1>9. \A v \in Vaults : c[v] \in Nat /\ o[v] \in Nat /\ w[v] \in Nat /\ j[v] \in Nat
                        /\ q[v] \in Nat
  BY <1>3, <1>5, <1>6, <1>7 DEF Weights
<1>10. /\ Weights(taken, Vaults) /\ Weights(slots, Vaults) /\ Weights(kept, Vaults)
       /\ Vaults \in SUBSET Vaults
       /\ \A v \in Vaults : /\ taken[v] = c[v] + o[v] /\ slots[v] = j[v] + q[v]
                            /\ kept[v] = w[v] + slots[v]
  <2>1. \A v \in Vaults : /\ taken[v] = c[v] + o[v] /\ slots[v] = j[v] + q[v]
                          /\ kept[v] = w[v] + slots[v]
    OBVIOUS
  <2>2. taken \in [Vaults -> Nat] /\ slots \in [Vaults -> Nat]
    BY <1>9
  <2>3. kept \in [Vaults -> Nat]
    <3> HIDE DEF slots
    <3> QED
      BY <1>9, <2>2
  <2> HIDE DEF taken, slots, kept
  <2> QED
    BY <2>1, <2>2, <2>3, Constants DEF Weights
<1> HIDE DEF taken, slots, kept
\* A batch on record is held, or its slot is open.
<1>11. ASSUME NEW t \in TxIds, Live(t) \/ t \in R, Vault(t) \in Vaults,
              Vault(t) \notin Sold(S)
       PROVE  tx[t].batch.most <= kept[Vault(t)]
  <2> DEFINE v == Vault(t)
  <2>1. Recorded(tx[t].batch)
    BY <1>1, <1>11 DEF Book, R
  <2>2. PICK a \in auths : Id(a) = tx[t].batch
    BY <2>1 DEF Recorded
  <2>3. a.vault = v /\ a.most = tx[t].batch.most /\ a.most \in Nat
    BY <2>2, Figures DEF Id, Vault
  <2>4. w[v] \in Nat /\ j[v] \in Nat /\ q[v] \in Nat /\ kept[v] = w[v] + (j[v] + q[v])
    BY <1>9, <1>10, <1>11
  <2>5. CASE ~a.backed
    <3>1. a.most <= w[v]
      BY <1>7, <1>8, <1>11, <2>3, <2>5, WorstIs
    <3> QED
      BY <2>3, <2>4, <3>1
  <2>6. CASE engine.at = "commit" /\ engine.batch = Id(a)
    <3>1. j[v] = a.most
      BY <1>6, <1>11, <2>3, <2>6, Committing DEF Id
    <3> QED
      BY <2>3, <2>4, <3>1
  <2>7. CASE \E u \in waiting : tx[u].batch = Id(a)
    <3>1. q[v] = a.most
      BY <1>6, <2>3, <2>7 DEF Id, Vault
    <3> QED
      BY <2>3, <2>4, <3>1
  <2> QED
    BY <2>5, <2>6, <2>7 DEF Inv, SlotInv, Backing
<1>12. \A v \in Vaults : v \in Vaults /\ taken[v] <= kept[v]
  <2> SUFFICES ASSUME NEW v \in Vaults PROVE c[v] + o[v] <= kept[v]
    BY <1>10
  <2>1. kept[v] \in Nat
    BY <1>10 DEF Weights
  <2>2. CASE v \in Sold(R)
    <3>1. PICK t \in R : v = Vault(t)
      BY <2>2 DEF Sold
    <3>2. t \in TxIds /\ t \in Paid /\ v \notin Sold(S) /\ v \notin escrow
      BY <1>2, <3>1 DEF R, Paid, Sold, Inv, TxInv
    <3>3. c[v] = 0
      BY <1>5, <3>2 DEF Live
    <3>4. tx[t].batch.most <= kept[v]
      BY <1>11, <3>1, <3>2
    <3>5. o[v] = tx[t].paid /\ tx[t].paid <= tx[t].batch.most
          /\ tx[t].batch.most \in Nat /\ tx[t].paid \in Nat
      BY <1>3, <3>1
    <3> QED
      BY <2>1, <3>3, <3>4, <3>5
  <2>3. CASE v \notin Sold(R) /\ c[v] = 0
    BY <1>3, <2>1, <2>3
  <2>4. CASE v \notin Sold(R) /\ c[v] # 0
    <3>1. PICK t \in TxIds : Live(t) /\ Vault(t) = v /\ tx[t].batch.most = c[v]
      BY <1>5, <2>4
    <3>2. v \in escrow
      BY <3>1 DEF Live
    <3>3. v \notin Sold(S)
      BY <1>2, <3>2 DEF Sold, Inv, TxInv
    <3>4. c[v] <= kept[v]
      BY <1>11, <3>1, <3>3
    <3> QED
      BY <1>3, <1>9, <2>1, <2>4, <3>4
  <2> QED
    BY <2>2, <2>3, <2>4
<1>13. Sum(taken, Vaults) <= Sum(kept, Vaults)
  BY <1>10, <1>12, SumCovers
<1>14. Sum(taken, Vaults) = Sum(c, Vaults) + Sum(o, Vaults)
  BY <1>3, <1>5, <1>10, SumPlus
<1>15. Sum(kept, Vaults) = Sum(w, Vaults) + (Sum(j, Vaults) + Sum(q, Vaults))
  <2>1. Sum(slots, Vaults) = Sum(j, Vaults) + Sum(q, Vaults)
    BY <1>6, <1>10, SumPlus
  <2>2. Sum(kept, Vaults) = Sum(w, Vaults) + Sum(slots, Vaults)
    BY <1>7, <1>10, SumPlus
  <2> QED
    BY <2>1, <2>2
<1>16. Sum(w, Vaults) + gate.reserved <= Funds - Sum(PaidOf, S)
  BY <1>1 DEF Book, w, Rest, Left
<1>17. BalanceAt(MaxHeight) = Funds - Sum(PaidOf, Paid)
  BY BalanceLeft DEF Inv
<1>18. /\ Sum(c, Vaults) \in Nat /\ Sum(w, Vaults) \in Nat /\ Sum(j, Vaults) \in Nat
       /\ Sum(q, Vaults) \in Nat /\ gate.reserved \in Nat
  BY <1>5, <1>6, <1>7, <1>10, SumIsNat, Figures
<1>19. Sum(c, Vaults) <= Funds - Sum(PaidOf, Paid)
  <2>1. Sum(c, Vaults) + Sum(PaidOf, R) <= Sum(w, Vaults) + gate.reserved
    BY <1>3, <1>4, <1>6, <1>13, <1>14, <1>15, <1>18
  <2> QED
    BY <1>4, <1>16, <1>18, <2>1, Constants
<1> QED
  BY <1>5, <1>17, <1>19 DEF TreasuryCovered

\* What the signed batches can still take, the treasury has, until a settlement
\* finds the gate ahead of the last refresh or a refresh reads the balance from
\* below blocks that batches were retired by (publishCapacity, setAvailable,
\* retireAuthorizations).
THEOREM TreasuryIsCovered == Spec => []CoveredUnlessOverlooked
<1> QED
  BY InvHolds, InvCovers, PTL

-----------------------------------------------------------------------------
(* A vault signed again. *)

Resigned(a, b) == /\ a.backed /\ [a EXCEPT !.backed = FALSE] \in auths'
                  /\ b.vault = a.vault /\ ~b.backed /\ b.most >= a.most

\* settle publishes what the record leaves of the balance as last read, or the
\* gate keeps its figure.
LEMMA SettlePublishes ==
  ASSUME Inv, NEW id \in Batch, NEW block \in (1..MaxHeight) \cup {None},
         Settle(id, block), Busy,
         NEW a \in auths, NEW b \in auths, Resigned(a, b)
  PROVE  gate'.available >= gate.available
<1>1. /\ inventory # None /\ gate.available \in Nat
      /\ inventory.balance \in Nat /\ inventory.block \in Nat
      /\ gate.block \in Nat /\ inventory.block <= gate.block
      /\ inventory.block = gate.block =>
            gate.available <= NetOf(inventory.balance, Held(auths))
  BY Refreshed
<1>2. /\ auths' = Settled(auths, id, block) /\ auths \in SUBSET Auth
      /\ auths' \in SUBSET Auth
      /\ \A c \in auths : Id(c) # id => c \in auths'
  BY SettledIs DEF Settle, Inv, TypeOK
<1> DEFINE net == NetOf(inventory.balance, Held(auths'))
<1>3. IF inventory.block < gate.block THEN gate'.available = gate.available
                                      ELSE gate'.available = net
  <2> DEFINE r == Release(gate, id.most)
  <2>1. /\ r.available = gate.available /\ r.block = gate.block
        /\ r \in [available : Nat \cup {None}, block : Heights, reserved : Int]
    <3>1. id.most \in Nat
      BY Constants DEF Batch, Amounts
    <3> QED
      BY <3>1, Figures DEF Release
  <2>2. gate' = SetAvailable(r, net, inventory.block)
    BY <1>1 DEF Settle, Publish
  <2> HIDE DEF r, net
  <2>3. CASE inventory.block < gate.block
    <3>1. gate' = r
      BY <1>1, <2>1, <2>2, <2>3, Constants DEF SetAvailable
    <3> QED
      BY <2>1, <2>3, <3>1
  <2>4. CASE ~(inventory.block < gate.block)
    <3>1. gate' = [r EXCEPT !.available = net, !.block = inventory.block]
      BY <2>1, <2>2, <2>4 DEF SetAvailable
    <3> QED
      BY <2>1, <2>4, <3>1
  <2> QED
    BY <2>3, <2>4
<1>4. Id(a) = id
  <2> DEFINE c == [a EXCEPT !.backed = FALSE]
  <2>1. a \in Auth /\ c \in auths' /\ a.backed
    BY <1>2 DEF Resigned
  <2>2. Id(c) = Id(a) /\ ~c.backed
    BY <2>1 DEF Auth, Id
  <2> HIDE DEF c
  <2>3. PICK d \in auths : Id(d) = Id(c) /\ (Id(d) # id => c = d)
    BY <1>2, <2>1, SettledIs
  <2>4. d = a
    BY <2>2, <2>3 DEF Inv, TypeOK
  <2> QED
    BY <2>1, <2>2, <2>3, <2>4
<1>5. /\ id.vault = a.vault /\ id.most = a.most
      /\ b \in auths /\ ~b.backed /\ b.vault = id.vault /\ b.most >= id.most
  BY <1>4 DEF Id, Resigned
<1>6. \A v \in Vaults : Worst(auths', v) <= Worst(auths, v)
  <2>1. \A v \in Vaults \ {id.vault} : Worst(auths', v) <= Worst(auths, v)
    BY <1>2, SettledHolds
  <2>2. Worst(auths', id.vault) <= Worst(auths, id.vault)
    BY <1>2, <1>5, SettledHolds
  <2> QED
    BY <2>1, <2>2
<1>7. Held(auths') <= Held(auths) /\ Held(auths') \in Nat /\ Held(auths) \in Nat
  BY <1>2, <1>6, HeldCovers, HeldIs
<1>8. NetOf(inventory.balance, Held(auths)) <= net /\ net \in Nat
      /\ NetOf(inventory.balance, Held(auths)) \in Nat
  BY <1>1, <1>7, NetOfFalls
<1> HIDE DEF net
<1> QED
  BY <1>1, <1>3, <1>8

LEMMA ResignedOnce ==
  ASSUME Inv, [Next]_vars, NEW a \in auths, NEW b \in auths, Resigned(a, b)
  PROVE  gate'.available >= gate.available
<1>1. gate.available \in Nat /\ inventory # None
  <2>1. inventory # None
    BY DEF Inv, GateInv
  <2> QED
    BY <2>1 DEF Inv, GateInv
<1>2. CASE gate'.available = gate.available
  BY <1>1, <1>2
<1>3. CASE Chain \/ RefreshFails \/ UNCHANGED vars \/ (\E v \in Vaults : Skip(v)) \/ Sign \/ Broadcast
  <2>1. gate' = gate
    BY <1>3 DEF Chain, RefreshFails, Empty, Accrue, Compete, Include, Replace, vars,
                books, Skip, Sign, Broadcast
  <2> QED
    BY <1>2, <2>1
<1>4. CASE (\E v \in Vaults : Open(v)) \/ Unsigned
  <2>1. \E n : gate' = [gate EXCEPT !.reserved = n]
    BY <1>4 DEF Open, Unsigned, Reserve, Release
  <2>2. gate'.available = gate.available
    BY <2>1, Figures
  <2> QED
    BY <1>2, <2>2
<1>5. CASE Refresh
  <2>1. a.backed /\ engine = Idle /\ waiting = {}
    BY <1>5 DEF Resigned, Refresh, CycleStarts
  <2> QED
    BY <2>1, Rests DEF Inv, SlotInv, Backing
<1>6. CASE Drop \/ Ambiguous
  <2>1. engine.at = "commit" /\ Settle(engine.batch, None)
    BY <1>6 DEF Drop, Ambiguous, Sendable
  <2> QED
    BY <2>1, Committing, SettlePublishes
<1>7. ASSUME NEW t \in TxIds, Confirm(t) \/ NotConfirmed(t)
      PROVE  gate'.available >= gate.available
  <2>1. /\ t \in waiting
        /\ \/ tx[t].state = "paid" /\ Settle(tx[t].batch, tx[t].at)
           \/ Settle(tx[t].batch, None)
    BY <1>7 DEF Confirm, NotConfirmed, Receipts
  <2>2. tx[t].state = "paid" => tx[t].at \in (1..MaxHeight) \cup {None}
    BY DEF Inv, TxInv, Paid
  <2>3. tx[t].batch \in Batch /\ Busy
    BY <2>1, AwaitedAre DEF Busy
  <2> QED
    BY <2>1, <2>2, <2>3, SettlePublishes
<1> QED
  BY <1>3, <1>4, <1>5, <1>6, <1>7 DEF Next, Cycle

\* Signing a vault's batch again takes no more from what the gate offers than
\* the worst batch on record did, in any interleaving of the cycle and the chain.
THEOREM ReSigningHolds == Spec => ReSigningHoldsOnce
<1>1. Inv /\ [Next]_vars =>
        [\A a, b \in auths :
          (/\ a.backed /\ [a EXCEPT !.backed = FALSE] \in auths'
           /\ b.vault = a.vault /\ ~b.backed /\ b.most >= a.most)
            => gate'.available >= gate.available]_vars
  BY ResignedOnce DEF Resigned
<1> QED
  BY <1>1, InvHolds, PTL DEF Spec, ReSigningHoldsOnce
=============================================================================
