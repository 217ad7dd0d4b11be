----------------------- MODULE RelaySubmission_proofs -----------------------
(***************************************************************************)
(* Proofs about RelaySubmission, for any engines and subjects, any window, *)
(* ceiling, reorg depth and margin that RelayAssumption admits, and any    *)
(* number of transactions and restarts.                                    *)
(*                                                                         *)
(* A nonce is used again when nothing that holds it may land.  What makes  *)
(* that safe is spread over the writers of the horizon: a row's horizon is *)
(* never more than Depth blocks below the relay's deadline, whoever wrote  *)
(* it and at whatever head; the chain is past a horizon only when it is    *)
(* more than Margin above it, at a head that may again be Depth too low;   *)
(* and whatever may land is on a row in flight, which is where the fence   *)
(* looks.  The inductive invariant says this, and that the lease hands out *)
(* only nonces nothing live has.  On it rests the refinement of Outbox.    *)
(***************************************************************************)
EXTENDS RelaySubmission, FiniteSetTheorems, WellFoundedInduction, TLAPS

Submitting(t) == \E e \in Engines : engine[e].at = "submit" /\ engine[e].hash = t

\* It may land, or is about to be handed to the relay.
Live(t) == MayLand(t) \/ Submitting(t)
Dead(t) == ~Live(t) /\ ~tx[t].mined

\* Transactions are signed one after the other, and the relay's deadline is
\* within the window.
TxInv ==
    /\ \E k \in 0..MaxTx : Signed = 1..k
    /\ \A t \in TxIds : /\ tx[t].nonce = None => tx[t] = NoTx
                        /\ tx[t].relay = "holds" => tx[t].until # None
                        /\ tx[t].until # None => tx[t].until <= Window

\* The account's count is the nonces that have landed.
ChainInv ==
    /\ \A t \in TxIds : tx[t].mined => tx[t].nonce \in Nat /\ tx[t].nonce < Latest
    /\ \A n \in 0..(Latest - 1) : \E t \in TxIds : tx[t].mined /\ tx[t].nonce = n

\* A send this process still guards is on its subject's row.
OwnRow(e) == /\ engine[e].subject \in sending
             /\ InFlight(engine[e].subject)
             /\ row[engine[e].subject].hash = engine[e].hash

EngineInv ==
    /\ \A e \in Engines : engine[e].at # "idle" =>
          /\ engine[e].hash \in Signed
          /\ engine[e].subject \in Subjects
    /\ \A e \in Engines : engine[e].at = "submit" =>
          /\ OwnRow(e)
          /\ row[engine[e].subject].horizon = None
          /\ tx[engine[e].hash].relay = "never"
          /\ tx[engine[e].hash].pool = "never"
          /\ tx[engine[e].hash].until = None
          /\ ~tx[engine[e].hash].mined
    /\ \A e \in Engines : engine[e].at = "stamp" =>
          /\ engine[e].answer = "refused" => tx[engine[e].hash].relay = "never"
          /\ ~(engine[e].subject \in Approvals /\ engine[e].answer = "hash")
                => OwnRow(e)
    /\ \A e, f \in Engines :
          e # f /\ engine[e].at # "idle" /\ engine[f].at # "idle" =>
             /\ engine[e].hash # engine[f].hash
             /\ ~(engine[e].at = "submit" /\ engine[f].at = "submit")

\* A row's horizon is not further below the relay's deadline than a head is.
RowOk(s) ==
    /\ row[s].status = "none" => row[s].hash = None
    /\ row[s].status # "none" =>
          /\ row[s].hash \in Signed
          /\ row[s].nonce = tx[row[s].hash].nonce
          /\ row[s].horizon # None /\ tx[row[s].hash].until # None =>
                tx[row[s].hash].until - Depth <= row[s].horizon
RowInv == /\ \A s \in Subjects : RowOk(s)
          /\ \A s, z \in Subjects :
                row[s].hash = row[z].hash /\ row[s].hash # None => s = z

\* Whatever may land is on record.
RecInv == \A t \in TxIds : MayLand(t) =>
             \E s \in Subjects : InFlight(s) /\ row[s].hash = t

\* The nonces the lease may hand out.
Offerable(n) == \/ lease.next # None /\ n >= lease.next
                \/ lease.hole # None /\ n = lease.hole
LeaseInv == /\ lease.hole # None => lease.next # None /\ lease.hole < lease.next
            /\ \A t \in Signed : Offerable(tx[t].nonce) => Dead(t)

OneInv == \A t, u \in Signed :
             t # u /\ tx[t].nonce = tx[u].nonce
                => ~(Live(t) /\ (Live(u) \/ tx[u].mined))

Inv == /\ TypeOK
       /\ TxInv /\ ChainInv /\ EngineInv /\ RowInv /\ RecInv
       /\ LeaseInv /\ OneInv

-----------------------------------------------------------------------------
(* Numbers: the least and the greatest of a set, and the account's counts. *)

LEMMA Least ==
  ASSUME NEW S \in SUBSET Nat, S # {}
  PROVE  \E n \in S : \A m \in S : n <= m
<1>1. PICK n \in S : \A m \in S : <<m, n>> \notin OpToRel(<, Nat)
  BY WFMin, NatLessThanWellFounded, Zenon
<1>2. \A m \in S : ~(m < n)
  BY <1>1 DEF OpToRel
<1> QED
  BY <1>2

LEMMA Greatest ==
  ASSUME NEW b \in Nat, NEW S \in SUBSET (0..b), S # {}
  PROVE  \E n \in S : \A m \in S : m <= n
<1> DEFINE D == {b - n : n \in S}
<1>1. D \in SUBSET Nat /\ D # {}
  <2>1. \A n \in S : b - n \in Nat
    OBVIOUS
  <2>2. PICK n \in S : TRUE
    OBVIOUS
  <2>3. b - n \in D
    BY <2>2
  <2> QED
    BY <2>1, <2>3
<1>2. PICK d \in D : \A x \in D : d <= x
  BY <1>1, Least
<1>3. PICK n \in S : d = b - n
  OBVIOUS
<1>4. ASSUME NEW m \in S PROVE m <= n
  BY <1>2, <1>3
<1> QED
  BY <1>4

\* The set of transactions is finite, and so is any part of it.
LEMMA Counts ==
  ASSUME NEW S \in SUBSET TxIds
  PROVE  /\ IsFiniteSet(S)
         /\ Cardinality(S) \in 0..MaxTx
<1>1. IsFiniteSet(1..MaxTx) /\ Cardinality(1..MaxTx) = MaxTx
  BY RelayAssumption, FS_Interval
<1>2. IsFiniteSet(S) /\ Cardinality(S) <= MaxTx
  BY <1>1, FS_Subset DEF TxIds
<1> QED
  BY <1>2, FS_CardinalityType, RelayAssumption

LEMMA LatestType == Latest \in 0..MaxTx
<1> QED
  BY Counts DEF Latest

\* The node's next nonce: every nonce below it is taken, it is free.
LEMMA PendingIs ==
  ASSUME TypeOK
  PROVE  Pending \in Latest..MaxTx /\ Latest \in Nat
<1> DEFINE free == {n \in Latest..MaxTx : ~Pooled(n)}
<1>1. Latest \in 0..MaxTx /\ MaxTx \in Nat
  BY LatestType, RelayAssumption
<1>2. free \in SUBSET Nat
  BY <1>1
<1>3. MaxTx \in free
  <2>1. ~Pooled(MaxTx)
    BY RelayAssumption DEF Pooled, TypeOK, Tx, Nonces
  <2> QED
    BY <1>1, <2>1
<1>4. PICK n \in free : \A m \in free : n <= m
  BY <1>2, <1>3, Least
<1>5. \A m \in Latest..(n - 1) : Pooled(m)
  BY <1>1, <1>4
<1>6. \E x \in Latest..MaxTx : /\ \A m \in Latest..(x - 1) : Pooled(m)
                               /\ ~Pooled(x)
  BY <1>4, <1>5
<1> QED
  BY <1>1, <1>6 DEF Pending

\* One more signed transaction, and one more that has landed.
LEMMA SignedCount ==
  ASSUME NEW k \in 0..MaxTx, Signed = 1..k
  PROVE  Cardinality(Signed) = k
<1> QED
  BY FS_Interval, RelayAssumption

-----------------------------------------------------------------------------
(* What follows from the invariant, and what carries it over a step. *)

\* Where a head may be read, and what may land there.
LEMMA Facts ==
  ASSUME TypeOK
  PROVE  /\ Latest \in 0..MaxTx
         /\ \A h \in Heads : h \in Int /\ 0 - Depth <= h /\ h <= 0
         /\ \A t \in TxIds : tx[t].until # None => tx[t].until \in Heights
         /\ \A h \in Heights : h \in Int
         /\ \A t \in Signed : tx[t].nonce \in Nonces
<1> QED
  BY LatestType, RelayAssumption DEF TypeOK, Tx, Heads, Heights, Deep, Signed

\* A transaction on a row past its horizon, and unknown to the node, never
\* lands: the two low heads are within the margin.
LEMMA PastIsDead ==
  ASSUME TypeOK, RowInv, NEW s \in Subjects, row[s].status # "none",
         NEW head \in Heads, ~CouldBeInFlight(row[s], head)
  PROVE  ~MayLand(row[s].hash)
<1> DEFINE t == row[s].hash
           h == row[s].horizon
<1>1. t \in TxIds /\ t \in Signed
  BY DEF RowInv, RowOk, Signed
<1>2. h # None /\ head > h + Margin /\ tx[t].pool # "in"
  BY DEF CouldBeInFlight, PastHorizon, IsKnown, KnownToNode
<1>3. h \in Int /\ head \in Int /\ head <= 0
  BY <1>2, Facts DEF TypeOK, Row
<1>4. tx[t].until # None => tx[t].until \in Int /\ tx[t].until - Depth <= h
  BY <1>1, <1>2, Facts DEF RowInv, RowOk
<1>5. tx[t].until # None => ~(1 - Depth <= tx[t].until)
  BY <1>2, <1>3, <1>4, RelayAssumption
<1> QED
  BY <1>2, <1>5 DEF MayLand, Offered

\* A step that gives no transaction a new chance, and mines none without
\* one, keeps the lease and the nonces in order.
LEMMA Fading ==
  ASSUME LeaseInv, OneInv, UNCHANGED lease,
         \A t \in TxIds : /\ tx'[t].nonce = tx[t].nonce
                          /\ Live(t)' => Live(t)
                          /\ tx'[t].mined => tx[t].mined \/ Live(t)
  PROVE  LeaseInv' /\ OneInv' /\ Signed' = Signed
<1>1. Signed' = Signed /\ Signed \subseteq TxIds
  BY DEF Signed
<1>2. \A t \in Signed : Dead(t) => Dead(t)'
  BY <1>1 DEF Dead
<1>3. LeaseInv'
  BY <1>1, <1>2 DEF LeaseInv, Offerable
<1>4. OneInv'
  BY <1>1 DEF OneInv
<1> QED
  BY <1>1, <1>3, <1>4

\* A step that leaves the transactions alone leaves the chain alone.
LEMMA Still ==
  ASSUME TxInv, ChainInv, UNCHANGED tx
  PROVE  /\ TxInv' /\ ChainInv'
         /\ Signed' = Signed /\ Latest' = Latest
         /\ \A t : MayLand(t)' = MayLand(t)
<1>1. Signed' = Signed /\ Latest' = Latest
  BY DEF Signed, Latest
<1>2. \A t : MayLand(t)' = MayLand(t)
  BY DEF MayLand, Offered
<1> QED
  BY <1>1, <1>2 DEF TxInv, ChainInv

\* A step that only judges rows keeps everything but the rows.
LEMMA Judging ==
  ASSUME Inv, UNCHANGED <<tx, lease, engine, sending>>, TypeOK', RowInv',
         \A e \in Engines : OwnRow(e) => OwnRow(e)',
         \A s \in Subjects : s \in sending => row'[s].horizon = row[s].horizon,
         \A t \in TxIds, s \in Subjects :
            MayLand(t) /\ InFlight(s) /\ row[s].hash = t
              => InFlight(s)' /\ row'[s].hash = t
  PROVE  Inv'
<1>1. /\ TxInv' /\ ChainInv'
      /\ Signed' = Signed /\ Latest' = Latest
      /\ \A t : MayLand(t)' = MayLand(t)
  BY Still DEF Inv
<1>2. \A t : Live(t)' = Live(t)
  BY <1>1 DEF Live, Submitting
<1>3. LeaseInv' /\ OneInv'
  BY <1>2, Fading DEF Inv
<1>4. RecInv'
  BY <1>1 DEF Inv, RecInv
<1>5. EngineInv'
  <2>1. \A e \in Engines : engine[e].at = "submit" =>
           row'[engine[e].subject].horizon = None
    BY DEF Inv, EngineInv, OwnRow
  <2> QED
    BY <1>1, <2>1 DEF Inv, EngineInv
<1> QED
  BY <1>1, <1>3, <1>4, <1>5 DEF Inv

-----------------------------------------------------------------------------
(* The initial states. *)

LEMMA InvInit == Init => Inv
<1> SUFFICES ASSUME Init PROVE Inv
  OBVIOUS
<1>1. TypeOK
  BY RelayAssumption
     DEF Init, TypeOK, Tx, NoTx, Row, NoRow, Engine, Idle, Statuses
<1>2. \A t \in TxIds : ~MayLand(t)
  BY DEF Init, NoTx, MayLand, Offered
<1>3. Signed = {} /\ {t \in TxIds : tx[t].mined} = {}
  BY DEF Init, NoTx, Signed
<1>4. Latest = 0
  BY <1>3, FS_EmptySet DEF Latest
<1>5. TxInv
  <2>1. Signed = 1..0 /\ 0 \in 0..MaxTx
    BY <1>3, RelayAssumption
  <2> QED
    BY <2>1 DEF Init, TxInv, NoTx
<1>6. ChainInv
  BY <1>4 DEF Init, ChainInv, NoTx
<1>7. EngineInv
  BY DEF Init, EngineInv, Idle
<1>8. RowInv
  BY DEF Init, RowInv, RowOk, NoRow
<1>9. RecInv
  BY <1>2 DEF RecInv
<1>10. LeaseInv /\ OneInv
  BY <1>3 DEF Init, LeaseInv, OneInv
<1> QED
  BY <1>1, <1>5, <1>6, <1>7, <1>8, <1>9, <1>10 DEF Inv

-----------------------------------------------------------------------------
(* A pass of reconcile. *)

LEMMA OverTypes ==
  ASSUME TypeOK, RowInv, NEW s \in Subjects, InFlight(s), Over(s),
         UNCHANGED <<tx, lease, engine, sending, crashes>>
  PROVE  TypeOK' /\ RowInv'
<1>1. row' \in [Subjects -> Row]
  BY DEF Over, TypeOK, Row, Statuses
<1>2. TypeOK'
  BY <1>1 DEF TypeOK
<1>3. \A z \in Subjects : /\ row'[z].hash = row[z].hash
                          /\ row'[z].nonce = row[z].nonce
                          /\ row'[z].horizon = row[z].horizon
                          /\ row'[z].status = "none" <=> row[z].status = "none"
  BY DEF Over, TypeOK, Row, InFlight, InFlightOnChain
<1>4. Signed' = Signed
  BY DEF Signed
<1> QED
  BY <1>2, <1>3, <1>4 DEF RowInv, RowOk

LEMMA OverKeeps ==
  ASSUME Inv, NEW s \in Subjects, Judgeable(s), Over(s),
         ~MayLand(row[s].hash),
         UNCHANGED <<tx, lease, engine, sending, crashes>>
  PROVE  Inv'
<1>1. InFlight(s) /\ s \notin sending
  BY DEF Judgeable
<1>2. TypeOK' /\ RowInv'
  BY <1>1, OverTypes DEF Inv
<1>3. \A z \in Subjects : z # s => row'[z] = row[z]
  BY DEF Over, Inv, TypeOK
<1>4. \A z \in Subjects : row'[z].horizon = row[z].horizon
  BY DEF Over, Inv, TypeOK, Row
<1>5. \A e \in Engines : OwnRow(e) => OwnRow(e)'
  BY <1>1, <1>3 DEF OwnRow, InFlight, Inv, TypeOK
<1>6. \A t \in TxIds, z \in Subjects :
         MayLand(t) /\ InFlight(z) /\ row[z].hash = t
           => InFlight(z)' /\ row'[z].hash = t
  BY <1>3 DEF InFlight
<1> QED
  BY <1>2, <1>4, <1>5, <1>6, Judging

LEMMA SettleKeeps ==
  ASSUME Inv, NEW s \in Subjects, Settle(s)
  PROVE  Inv'
<1>1. ~MayLand(row[s].hash)
  BY DEF Settle, MayLand
<1> QED
  BY <1>1, OverKeeps DEF Settle

\* What a pass gives up on can never land.
LEMMA GivenUp ==
  ASSUME Inv, NEW s \in Subjects, GiveUp(s)
  PROVE  ~MayLand(row[s].hash)
<1> DEFINE t == row[s].hash
<1>1. /\ InFlight(s) /\ row[s].status # "none"
      /\ t \in Signed /\ t \in TxIds /\ row[s].nonce = tx[t].nonce
      /\ tx[t].nonce \in Nonces /\ ~tx[t].mined
  BY Facts DEF GiveUp, Judgeable, InFlight, InFlightOnChain, Inv, RowInv,
               RowOk, Signed
<1>2. CASE Latest > row[s].nonce
  <2>1. tx[t].nonce \in 0..(Latest - 1)
    BY <1>1, <1>2, LatestType, RelayAssumption DEF Nonces
  <2>2. PICK u \in TxIds : tx[u].mined /\ tx[u].nonce = tx[t].nonce
    BY <2>1 DEF Inv, ChainInv
  <2>3. u \in Signed /\ u # t
    BY <1>1, <2>2, RelayAssumption DEF Signed, Nonces
  <2>4. ~Live(t)
    BY <1>1, <2>2, <2>3 DEF Inv, OneInv
  <2> QED
    BY <2>4 DEF Live
<1>3. CASE \E head \in Heads : ~CouldBeInFlight(row[s], head)
  BY <1>1, <1>3, PastIsDead DEF Inv
<1> QED
  BY <1>2, <1>3 DEF GiveUp

LEMMA GiveUpKeeps ==
  ASSUME Inv, NEW s \in Subjects, GiveUp(s)
  PROVE  Inv'
<1> QED
  BY GivenUp, OverKeeps DEF GiveUp

\* A deadline the relay declares bounds the true one, wherever the head is.
LEMMA ClampedIsSafe ==
  ASSUME Inv, NEW t \in TxIds, NEW d \in Declared(t), NEW head \in Heads
  PROVE  /\ Clamped(d, head) \in Heights
         /\ tx[t].until # None
         /\ tx[t].until - Depth <= Clamped(d, head)
<1>1. tx[t].relay = "holds" /\ d \in {tx[t].until, Ceiling + 1}
  BY DEF Declared
<1>2. tx[t].until # None /\ tx[t].until <= Window
  BY <1>1 DEF Inv, TxInv
<1>3. tx[t].until \in Int /\ 0 - Deep <= tx[t].until /\ tx[t].until <= Ceiling
  BY <1>2, RelayAssumption DEF Inv, TypeOK, Tx, Heights, Deep
<1>4. head \in Int /\ 0 - Depth <= head /\ head <= 0
  BY Facts DEF Inv
<1>5. CASE d = tx[t].until
  BY <1>2, <1>3, <1>4, <1>5, RelayAssumption
     DEF Clamped, Smaller, Heights, Deep
<1>6. CASE d = Ceiling + 1
  BY <1>2, <1>3, <1>4, <1>6, RelayAssumption
     DEF Clamped, Smaller, Heights, Deep
<1> QED
  BY <1>1, <1>2, <1>5, <1>6

LEMMA RecoverKeeps ==
  ASSUME Inv, NEW s \in Subjects, Recover(s)
  PROVE  Inv'
<1> DEFINE t == row[s].hash
<1>1. /\ InFlight(s) /\ s \notin sending /\ row[s].status # "none"
      /\ t \in TxIds /\ t \in Signed /\ row[s].horizon = None
      /\ UNCHANGED <<tx, lease, engine, sending, crashes>>
  BY DEF Recover, Repairable, Judgeable, InFlight, InFlightOnChain, Inv,
         RowInv, RowOk, Signed
<1>2. PICK head \in Heads, d \in Declared(t) :
         row' = [row EXCEPT ![s].horizon = MaxHorizon(@, Clamped(d, head))]
  BY DEF Recover
<1>3. /\ Clamped(d, head) \in Heights
      /\ tx[t].until - Depth <= Clamped(d, head)
  BY <1>1, ClampedIsSafe
<1>4. row' = [row EXCEPT ![s].horizon = Clamped(d, head)]
  BY <1>1, <1>2, <1>3, RelayAssumption DEF MaxHorizon, Heights
<1>5. /\ row' \in [Subjects -> Row]
      /\ \A z \in Subjects : /\ row'[z].hash = row[z].hash
                             /\ row'[z].nonce = row[z].nonce
                             /\ row'[z].status = row[z].status
                             /\ z # s => row'[z].horizon = row[z].horizon
      /\ row'[s].horizon = Clamped(d, head)
  BY <1>3, <1>4 DEF Inv, TypeOK, Row
<1>6. TypeOK'
  BY <1>1, <1>5 DEF Inv, TypeOK
<1>7. RowInv'
  BY <1>1, <1>3, <1>5 DEF Inv, RowInv, RowOk, Signed
<1>8. \A z \in Subjects : z \in sending => row'[z].horizon = row[z].horizon
  BY <1>1, <1>5
<1>9. \A e \in Engines : engine[e].at # "idle" => engine[e].subject \in Subjects
  BY DEF Inv, EngineInv
<1>10. \A z \in Subjects : InFlight(z)' = InFlight(z)
  BY <1>5 DEF InFlight
<1>11. sending \subseteq Subjects
  BY DEF Inv, TypeOK
<1>12. \A e \in Engines : OwnRow(e) => OwnRow(e)'
  BY <1>1, <1>5, <1>10, <1>11 DEF OwnRow
<1> QED
  BY <1>1, <1>5, <1>6, <1>7, <1>8, <1>10, <1>12, Judging

-----------------------------------------------------------------------------
(* The lease. *)

\* The fence: the lease lies above every nonce that is live, and a hole is
\* one that is not.
LEMMA Fence ==
  ASSUME NEW live \in SUBSET Nonces, TypeOK
  PROVE  /\ NextNonce(live) \in Pending..MaxTx
         /\ \A n \in live : n < NextNonce(live)
<1>1. Pending \in Nat /\ Pending <= MaxTx /\ MaxTx \in Nat
  BY PendingIs, RelayAssumption
<1>2. CASE live = {}
  BY <1>1, <1>2 DEF NextNonce
<1>3. CASE live # {}
  <2> DEFINE top == CHOOSE n \in live : \A m \in live : m <= n
  <2>1. live \in SUBSET (0..MaxTx)
    BY <1>1 DEF Nonces
  <2>2. \E n \in live : \A m \in live : m <= n
    BY <1>1, <1>3, <2>1, Greatest
  <2>3. top \in live /\ \A m \in live : m <= top
    BY <2>2
  <2>4. NextNonce(live) = Larger(Pending, 1 + top)
    BY <1>3 DEF NextNonce
  <2> HIDE DEF top
  <2>5. top \in Nat /\ top + 1 <= MaxTx /\ \A m \in live : m \in Nat
    BY <1>1, <2>3 DEF Nonces
  <2> QED
    BY <1>1, <2>3, <2>4, <2>5 DEF Larger
<1> QED
  BY <1>2, <1>3

LEMMA ResyncKeeps ==
  ASSUME Inv, NEW e \in Engines, Resync(e)
  PROVE  Inv'
<1>1. PICK head \in Heads :
         lease' = [next |-> NextNonce(LiveNonces(head)),
                   hole |-> Hole(LiveNonces(head))]
  BY DEF Resync
<1> DEFINE live == LiveNonces(head)
<1>2. ~Locked /\ UNCHANGED <<tx, row, engine, sending, crashes>>
  BY DEF Resync
<1>3. \A s \in Subjects : InFlight(s) =>
         /\ row[s].status # "none" /\ row[s].hash \in Signed
         /\ row[s].nonce = tx[row[s].hash].nonce /\ row[s].nonce \in Nonces
  BY Facts DEF Inv, RowInv, RowOk, InFlight, InFlightOnChain
<1>4. live \in SUBSET Nonces
  BY <1>3 DEF LiveNonces
<1>5. /\ NextNonce(live) \in Pending..MaxTx
      /\ \A n \in live : n < NextNonce(live)
      /\ Pending \in Latest..MaxTx /\ Latest \in Nat /\ MaxTx \in Nat
  BY <1>4, Fence, PendingIs, RelayAssumption DEF Inv
<1> HIDE DEF live
<1>6. Hole(live) # None =>
         /\ Hole(live) = Pending /\ Pending \notin live
         /\ Pending < NextNonce(live)
  BY DEF Hole
<1>7. Hole(live) \in Nonces \cup {None} /\ NextNonce(live) \in 0..MaxTx
  BY <1>5, <1>6 DEF Nonces
<1>8. /\ lease'.next = NextNonce(live) /\ lease'.hole = Hole(live)
      /\ lease' \in [next : 0..MaxTx \cup {None}, hole : Nonces \cup {None}]
  BY <1>1, <1>7 DEF live
<1>9. TypeOK'
  BY <1>2, <1>8 DEF Inv, TypeOK
<1>10. /\ TxInv' /\ ChainInv'
       /\ Signed' = Signed /\ Latest' = Latest
       /\ \A t : MayLand(t)' = MayLand(t)
  BY <1>2, Still DEF Inv
<1>11. EngineInv' /\ RowInv' /\ RecInv'
  BY <1>2, <1>10 DEF Inv, EngineInv, OwnRow, RowInv, RowOk, RecInv, InFlight
<1>12. \A t : Live(t)' = Live(t)
  BY <1>2, <1>10 DEF Live, Submitting
<1>13. OneInv'
  BY <1>2, <1>10, <1>12 DEF Inv, OneInv
<1>14. \A t \in Signed : MayLand(t) => tx[t].nonce \in live
  <2> SUFFICES ASSUME NEW t \in Signed, MayLand(t)
               PROVE  tx[t].nonce \in live
    OBVIOUS
  <2>1. PICK s \in Subjects : InFlight(s) /\ row[s].hash = t
    BY DEF Inv, RecInv, Signed
  <2>2. CouldBeInFlight(row[s], head)
    BY <1>3, <2>1, PastIsDead DEF Inv
  <2> QED
    BY <1>3, <2>1, <2>2 DEF live, LiveNonces
<1>15. LeaseInv'
  <2>1. \A t \in Signed : tx[t].nonce \in Nat
    BY Facts, RelayAssumption DEF Inv, Nonces
  <2>2. lease'.hole # None => lease'.next # None /\ lease'.hole < lease'.next
    BY <1>5, <1>6, <1>8, RelayAssumption
  <2>3. \A t \in Signed : Offerable(tx[t].nonce)' =>
           tx[t].nonce >= Pending /\ tx[t].nonce \notin live
    BY <1>2, <1>5, <1>6, <1>8, <2>1, <1>4 DEF Offerable, Nonces
  <2>4. \A t \in Signed : tx[t].nonce >= Pending => ~tx[t].mined
    BY <1>5, <2>1 DEF Inv, ChainInv, Signed
  <2>5. \A t : ~Submitting(t)
    BY <1>2 DEF Locked, Submitting
  <2>6. \A t \in Signed : Offerable(tx[t].nonce)' => Dead(t)
    BY <1>14, <2>3, <2>4, <2>5 DEF Dead, Live
  <2> QED
    BY <1>2, <1>10, <1>12, <2>2, <2>6 DEF LeaseInv, Dead, Offerable
<1> QED
  BY <1>9, <1>10, <1>11, <1>13, <1>15 DEF Inv

LEMMA CrashKeeps ==
  ASSUME Inv, Crash
  PROVE  Inv'
<1>1. /\ engine' = [e \in Engines |-> Idle] /\ sending' = {}
      /\ lease' = [next |-> None, hole |-> None]
      /\ UNCHANGED <<tx, row>>
      /\ crashes < MaxCrashes /\ crashes' = crashes + 1
  BY DEF Crash
<1>2. TypeOK'
  <2>1. engine' \in [Engines -> Engine] /\ crashes' \in 0..MaxCrashes
    BY <1>1, RelayAssumption DEF Inv, TypeOK, Engine, Idle
  <2> QED
    BY <1>1, <2>1 DEF Inv, TypeOK
<1>3. /\ TxInv' /\ ChainInv'
      /\ Signed' = Signed /\ Latest' = Latest
      /\ \A t : MayLand(t)' = MayLand(t)
  BY <1>1, Still DEF Inv
<1>4. RowInv' /\ RecInv'
  BY <1>1, <1>3 DEF Inv, RowInv, RowOk, RecInv, InFlight
<1>5. EngineInv'
  BY <1>1 DEF EngineInv, Idle
<1>6. \A t : Live(t)' => Live(t)
  BY <1>1, <1>3 DEF Live, Submitting, Idle
<1>7. LeaseInv' /\ OneInv'
  BY <1>1, <1>3, <1>6 DEF Inv, LeaseInv, Offerable, OneInv
<1> QED
  BY <1>2, <1>3, <1>4, <1>5, <1>7 DEF Inv

-----------------------------------------------------------------------------
(* A send. *)

LEMMA SignKeeps ==
  ASSUME Inv, NEW e \in Engines, NEW s \in Subjects, Sign(e, s)
  PROVE  Inv'
<1>1. PICK k \in 0..MaxTx : Signed = 1..k
  BY DEF Inv, TxInv
<1> DEFINE t == k + 1
<1>2. /\ Cardinality(Signed) = k /\ k < MaxTx /\ MaxTx \in Nat
      /\ t = k + 1 /\ t \in TxIds /\ t \notin Signed
  BY <1>1, SignedCount, RelayAssumption DEF Sign, TxIds
<1>3. PICK n \in Nonces :
      /\ n = IF lease.hole # None THEN lease.hole ELSE lease.next
      /\ engine[e].at = "idle" /\ ~Locked /\ lease.next # None /\ ~InFlight(s)
      /\ lease' = IF lease.hole # None THEN [lease EXCEPT !.hole = None]
                                       ELSE [lease EXCEPT !.next = n + 1]
      /\ row' = [row EXCEPT ![s] = [status |-> "pending", hash |-> t,
                                    nonce |-> n, horizon |-> None]]
      /\ tx' = [tx EXCEPT ![t].nonce = n]
      /\ engine' = [engine EXCEPT ![e] = [at |-> "submit", subject |-> s,
                                          hash |-> t, answer |-> None]]
      /\ sending' = sending \cup {s}
      /\ crashes' = crashes
  BY <1>2 DEF Sign
<1> HIDE DEF t
<1>4. tx[t] = NoTx
  BY <1>2 DEF Inv, TxInv, Signed
<1>5. /\ \A u \in TxIds : u # t => tx'[u] = tx[u]
      /\ tx'[t] = [NoTx EXCEPT !.nonce = n]
  BY <1>2, <1>3, <1>4 DEF Inv, TypeOK
<1>6. /\ \A z \in Subjects : z # s => row'[z] = row[z]
      /\ row'[s] = [status |-> "pending", hash |-> t,
                    nonce |-> n, horizon |-> None]
  BY <1>3 DEF Inv, TypeOK
<1>7. /\ \A f \in Engines : f # e => engine'[f] = engine[f]
      /\ engine'[e] = [at |-> "submit", subject |-> s,
                       hash |-> t, answer |-> None]
  BY <1>3 DEF Inv, TypeOK
<1>8. lease' \in [next : 0..MaxTx \cup {None}, hole : Nonces \cup {None}]
  <2>1. n + 1 \in 0..MaxTx
    BY <1>2, <1>3 DEF Nonces
  <2> QED
    BY <1>3, <2>1 DEF Inv, TypeOK
<1>9. TypeOK'
  <2>1. tx' \in [TxIds -> Tx]
    BY <1>2, <1>3, <1>4 DEF Inv, TypeOK, Tx, NoTx
  <2>2. row' \in [Subjects -> Row]
    BY <1>2, <1>3 DEF Inv, TypeOK, Row, Statuses
  <2>3. engine' \in [Engines -> Engine]
    BY <1>2, <1>3 DEF Inv, TypeOK, Engine
  <2> QED
    BY <1>3, <1>8, <2>1, <2>2, <2>3 DEF Inv, TypeOK
<1>10. None \notin Nonces /\ \A x \in Nonces : x \in Nat
  BY RelayAssumption DEF Nonces
<1>11. Signed' = Signed \cup {t} /\ Signed' = 1..(k + 1)
  <2>1. \A u \in TxIds : u \in Signed' <=> u \in Signed \/ u = t
    BY <1>2, <1>3, <1>5, <1>10 DEF Signed, NoTx
  <2>2. Signed' = Signed \cup {t}
    BY <1>2, <2>1 DEF Signed
  <2> QED
    BY <1>1, <1>2, <2>2
<1>12. TxInv'
  <2>1. k + 1 \in 0..MaxTx
    BY <1>2
  <2>2. /\ tx'[t].nonce # None
        /\ tx'[t].relay = "never" /\ tx'[t].until = None
    BY <1>3, <1>5, <1>10 DEF NoTx
  <2> QED
    BY <1>5, <1>11, <2>1, <2>2 DEF Inv, TxInv
<1>13. \A u \in TxIds : /\ tx'[u].mined = tx[u].mined
                        /\ tx'[u].mined => u # t
  BY <1>4, <1>5 DEF NoTx
<1>14. Latest' = Latest
  BY <1>13 DEF Latest
<1>15. ChainInv'
  BY <1>5, <1>13, <1>14 DEF Inv, ChainInv
<1>16. \A u \in TxIds : MayLand(u)' => u # t /\ MayLand(u)
  BY <1>5, <1>4 DEF MayLand, Offered, NoTx
<1>17. \A f \in Engines : engine[f].at # "idle" =>
          /\ f # e /\ engine[f].hash \in Signed /\ engine[f].hash # t
          /\ engine[f].at # "submit"
  BY <1>2, <1>3 DEF Inv, EngineInv, Locked
<1>18. \A f \in Engines : OwnRow(f) => engine[f].subject # s
  BY <1>3 DEF OwnRow
<1>19. \A f \in Engines : f # e /\ OwnRow(f) /\ engine[f].subject \in Subjects
                            => OwnRow(f)'
  BY <1>3, <1>6, <1>7, <1>18 DEF OwnRow, InFlight
<1>20. OwnRow(e)'
  BY <1>3, <1>6, <1>7 DEF OwnRow, InFlight, InFlightOnChain
<1>21. EngineInv'
  <2>1. \A f \in Engines : engine'[f].at # "idle" =>
           engine'[f].hash \in Signed' /\ engine'[f].subject \in Subjects
    BY <1>7, <1>11, <1>17 DEF Inv, EngineInv
  <2>2. \A f \in Engines : engine'[f].at = "submit" =>
           /\ OwnRow(f)' /\ row'[engine'[f].subject].horizon = None
           /\ tx'[engine'[f].hash].relay = "never"
           /\ tx'[engine'[f].hash].pool = "never"
           /\ tx'[engine'[f].hash].until = None
           /\ ~tx'[engine'[f].hash].mined
    <3>1. \A f \in Engines : engine'[f].at = "submit" => f = e
      BY <1>7, <1>17
    <3> QED
      BY <1>5, <1>6, <1>7, <1>20, <3>1 DEF NoTx
  <2>3. \A f \in Engines : engine'[f].at = "stamp" =>
           /\ engine'[f].answer = "refused" =>
                 tx'[engine'[f].hash].relay = "never"
           /\ ~(engine'[f].subject \in Approvals /\ engine'[f].answer = "hash")
                 => OwnRow(f)'
    BY <1>5, <1>7, <1>17, <1>19 DEF Inv, EngineInv, Signed
  <2>4. \A f, g \in Engines :
           f # g /\ engine'[f].at # "idle" /\ engine'[g].at # "idle" =>
              /\ engine'[f].hash # engine'[g].hash
              /\ ~(engine'[f].at = "submit" /\ engine'[g].at = "submit")
    BY <1>7, <1>17 DEF Inv, EngineInv
  <2> QED
    BY <2>1, <2>2, <2>3, <2>4 DEF EngineInv
<1>22. RowInv'
  <2>1. \A z \in Subjects : row[z].hash # None => row[z].hash \in Signed
    BY DEF Inv, RowInv, RowOk
  <2>2. \A z \in Subjects : z # s => RowOk(z)'
    <3> SUFFICES ASSUME NEW z \in Subjects, z # s PROVE RowOk(z)'
      OBVIOUS
    <3>1. row'[z] = row[z] /\ RowOk(z)
      BY <1>6 DEF Inv, RowInv
    <3>2. row[z].status # "none" => tx'[row[z].hash] = tx[row[z].hash]
      BY <1>2, <1>5, <3>1 DEF RowOk, Signed
    <3> QED
      BY <1>11, <3>1, <3>2 DEF RowOk
  <2>3. RowOk(s)'
    BY <1>5, <1>6, <1>11 DEF RowOk, NoTx
  <2>4. \A z \in Subjects : z # s => row'[z].hash # t
    BY <1>2, <1>6, <2>1, RelayAssumption DEF TxIds
  <2>5. \A y, z \in Subjects :
           row'[y].hash = row'[z].hash /\ row'[y].hash # None => y = z
    BY <1>6, <2>4 DEF Inv, RowInv
  <2> QED
    BY <2>2, <2>3, <2>5 DEF RowInv
<1>23. RecInv'
  BY <1>3, <1>6, <1>16 DEF Inv, RecInv, InFlight
<1>24. Offerable(n)
  BY <1>3, <1>10 DEF Offerable
<1>25. \A x \in Nonces : Offerable(x)' => Offerable(x) /\ x # n
  <2>1. /\ lease.next \in Nat /\ DOMAIN lease = {"next", "hole"}
        /\ lease.hole # None => lease.hole \in Nat /\ lease.hole < lease.next
    BY <1>3, <1>10, RelayAssumption DEF Inv, TypeOK, LeaseInv
  <2>2. CASE lease.hole # None
    <3>1. n = lease.hole /\ lease'.hole = None /\ lease'.next = lease.next
      BY <1>3, <2>1, <2>2 DEF Inv, TypeOK
    <3> QED
      BY <1>10, <2>1, <2>2, <3>1 DEF Offerable
  <2>3. CASE lease.hole = None
    <3>1. n = lease.next /\ lease'.hole = None /\ lease'.next = n + 1
      BY <1>3, <2>1, <2>3 DEF Inv, TypeOK
    <3> QED
      BY <1>10, <2>1, <2>3, <3>1 DEF Offerable
  <2> QED
    BY <2>2, <2>3
<1>26. \A u \in Signed : /\ u # t /\ u \in TxIds /\ tx'[u] = tx[u]
                         /\ tx[u].nonce \in Nonces
                         /\ Live(u)' => Live(u)
                         /\ Dead(u) => Dead(u)'
  <2>1. \A u \in Signed : u # t /\ u \in TxIds /\ tx'[u] = tx[u]
                          /\ tx[u].nonce \in Nonces
    BY <1>2, <1>5, Facts DEF Signed, Inv
  <2>2. \A u \in Signed : Submitting(u)' => Submitting(u)
    BY <1>7, <2>1 DEF Submitting
  <2>3. \A u \in Signed : Live(u)' => Live(u)
    BY <1>16, <2>1, <2>2 DEF Live
  <2> QED
    BY <2>1, <2>3 DEF Dead
<1>27. LeaseInv'
  <2>1. lease'.hole # None => lease'.next # None /\ lease'.hole < lease'.next
    BY <1>3, <1>10 DEF Inv, TypeOK, LeaseInv
  <2>2. \A u \in Signed : Offerable(tx[u].nonce)' => Dead(u)'
    BY <1>25, <1>26 DEF Inv, LeaseInv
  <2>3. ~Offerable(tx[t].nonce)'
    <3>1. tx'[t].nonce = n
      BY <1>5 DEF NoTx
    <3> QED
      BY <1>3, <1>25, <3>1 DEF Offerable
  <2>4. Dead(t)' \/ ~Offerable(tx[t].nonce)'
    BY <2>3
  <2> QED
    BY <1>11, <2>1, <2>2, <2>3, <2>4 DEF LeaseInv
<1>28. OneInv'
  <2>1. \A u \in Signed : tx[u].nonce = n => Dead(u)'
    BY <1>24, <1>26 DEF Inv, LeaseInv
  <2>2. \A u \in Signed : tx[u].nonce = n => ~Live(u)' /\ ~tx'[u].mined
    BY <2>1 DEF Dead
  <2>3. \A u, v \in Signed :
           u # v /\ tx[u].nonce = tx[v].nonce
             => ~(Live(u)' /\ (Live(v)' \/ tx'[v].mined))
    BY <1>26 DEF Inv, OneInv
  <2>4. tx'[t].nonce = n
    BY <1>5 DEF NoTx
  <2> QED
    BY <1>11, <1>26, <2>2, <2>3, <2>4 DEF OneInv
<1> QED
  BY <1>9, <1>12, <1>15, <1>21, <1>22, <1>23, <1>27, <1>28 DEF Inv

LEMMA SubmitKeeps ==
  ASSUME Inv, NEW e \in Engines, Submit(e)
  PROVE  Inv'
<1>1. PICK t \in TxIds, s \in Subjects : t = engine[e].hash /\ s = engine[e].subject
  BY DEF Submit, Inv, EngineInv, Signed
<1>2. PICK taken \in BOOLEAN, answer \in {"hash", "known", "refused", "silence"} :
         /\ answer \in Answers(taken)
         /\ \/ taken /\ \E head \in Heads, life \in Lifetimes :
                 tx' = [tx EXCEPT ![t].relay = "holds",
                                  ![t].until = head + life]
            \/ ~taken /\ UNCHANGED tx
         /\ engine' = [engine EXCEPT ![e].at = "stamp",
                                     ![e].answer = answer]
         /\ sending' = IF s \in Approvals /\ answer = "hash"
                       THEN sending \ {s} ELSE sending
  BY <1>1 DEF Submit, Answers
<1>3. engine[e].at = "submit" /\ UNCHANGED <<row, lease, crashes>>
  BY DEF Submit
<1>4. /\ OwnRow(e) /\ row[s].horizon = None /\ row[s].hash = t /\ InFlight(s)
      /\ t \in Signed
      /\ tx[t].relay = "never" /\ tx[t].pool = "never" /\ tx[t].until = None
      /\ ~tx[t].mined /\ tx[t].nonce \in Nonces
  BY <1>1, <1>3, Facts DEF Inv, EngineInv, OwnRow
<1>5. /\ answer \in {"hash", "known", "refused", "silence"}
      /\ answer = "refused" => ~taken
  BY <1>2 DEF Answers
<1>6. /\ \A u \in TxIds : /\ tx'[u].nonce = tx[u].nonce
                          /\ tx'[u].mined = tx[u].mined
                          /\ tx'[u].pool = tx[u].pool
                          /\ u # t => tx'[u] = tx[u]
      /\ \/ tx'[t].relay = "holds" /\ tx'[t].until \in Heights
            /\ tx'[t].until <= Window
         \/ tx'[t].relay = "never" /\ tx'[t].until = None
      /\ answer = "refused" => tx'[t].relay = "never"
      /\ tx' \in [TxIds -> Tx]
  <2>1. CASE taken /\ ~UNCHANGED tx
    <3> PICK head \in Heads, life \in Lifetimes :
                tx' = [tx EXCEPT ![t].relay = "holds",
                                 ![t].until = head + life]
      BY <1>2, <2>1
    <3>1. head + life \in Heights /\ head + life <= Window
      BY RelayAssumption DEF Heads, Heights, Deep
    <3>2. tx[t] \in Tx /\ head + life # None
      BY <3>1, RelayAssumption DEF Inv, TypeOK, Heads
    <3>3. /\ tx' = [tx EXCEPT ![t] = [tx[t] EXCEPT !.relay = "holds",
                                                  !.until = head + life]]
          /\ [tx[t] EXCEPT !.relay = "holds", !.until = head + life] \in Tx
      BY <3>1, <3>2 DEF Tx
    <3>4. /\ tx' \in [TxIds -> Tx]
          /\ \A u \in TxIds : u # t => tx'[u] = tx[u]
          /\ tx'[t] = [tx[t] EXCEPT !.relay = "holds", !.until = head + life]
      BY <3>3 DEF Inv, TypeOK
    <3>5. /\ tx'[t].relay = "holds" /\ tx'[t].until = head + life
          /\ tx'[t].nonce = tx[t].nonce /\ tx'[t].mined = tx[t].mined
          /\ tx'[t].pool = tx[t].pool
      BY <3>2, <3>4 DEF Tx
    <3> QED
      BY <1>5, <2>1, <3>1, <3>4, <3>5
  <2>2. CASE UNCHANGED tx
    BY <1>2, <1>4, <1>5, <2>2 DEF Inv, TypeOK
  <2> QED
    BY <1>2, <2>1, <2>2
<1>7. /\ \A f \in Engines : f # e => engine'[f] = engine[f]
      /\ engine'[e].at = "stamp" /\ engine'[e].answer = answer
      /\ engine'[e].hash = t /\ engine'[e].subject = s
      /\ engine' \in [Engines -> Engine]
  <2>1. engine[e] \in Engine
    BY DEF Inv, TypeOK
  <2> DEFINE r == [engine[e] EXCEPT !.at = "stamp", !.answer = answer]
  <2>2. /\ r \in Engine /\ r.at = "stamp" /\ r.answer = answer
        /\ r.hash = engine[e].hash /\ r.subject = engine[e].subject
    BY <1>5, <2>1 DEF Engine
  <2>3. engine' = [engine EXCEPT ![e] = r]
    BY <1>2
  <2> HIDE DEF r
  <2>4. engine' \in [Engines -> Engine]
    BY <2>2, <2>3 DEF Inv, TypeOK
  <2>5. engine'[e] = r /\ \A f \in Engines : f # e => engine'[f] = engine[f]
    BY <2>3 DEF Inv, TypeOK
  <2> QED
    BY <1>1, <2>2, <2>4, <2>5
<1>8. TypeOK'
  BY <1>2, <1>3, <1>6, <1>7 DEF Inv, TypeOK
<1>9. Signed' = Signed /\ Latest' = Latest
  BY <1>6 DEF Signed, Latest
<1>10. TxInv'
  <2>1. None \notin Heights /\ None \notin Nonces
    BY RelayAssumption DEF Heights, Nonces, Deep
  <2> QED
    BY <1>4, <1>6, <1>9, <2>1 DEF Inv, TxInv
<1>11. ChainInv'
  BY <1>6, <1>9 DEF Inv, ChainInv
<1>12. \A u \in TxIds : MayLand(u)' => MayLand(u) \/ u = t
  BY <1>6 DEF MayLand, Offered
<1>13. \A f \in Engines : engine[f].at # "idle" /\ f # e =>
          engine[f].hash # t /\ engine[f].at # "submit"
  BY <1>1, <1>3 DEF Inv, EngineInv
<1>14. \A f \in Engines : f # e /\ engine[f].subject \in Subjects
                           /\ OwnRow(f) /\ engine[f].at # "idle" => OwnRow(f)'
  <2> SUFFICES ASSUME NEW f \in Engines, f # e, engine[f].subject \in Subjects,
                      OwnRow(f), engine[f].at # "idle"
               PROVE  OwnRow(f)'
    OBVIOUS
  <2>1. engine[f].subject # s
    BY <1>4, <1>13 DEF OwnRow
  <2> QED
    BY <1>2, <1>3, <1>7, <2>1 DEF OwnRow, InFlight
<1>15. EngineInv'
  <2>1. \A f \in Engines : engine'[f].at # "idle" =>
           engine'[f].hash \in Signed' /\ engine'[f].subject \in Subjects
    BY <1>4, <1>7, <1>9 DEF Inv, EngineInv
  <2>2. \A f \in Engines : engine'[f].at # "submit"
    BY <1>7, <1>13
  <2>3. ASSUME NEW f \in Engines, engine'[f].at = "stamp"
        PROVE  /\ engine'[f].answer = "refused" =>
                     tx'[engine'[f].hash].relay = "never"
               /\ ~(engine'[f].subject \in Approvals /\ engine'[f].answer = "hash")
                     => OwnRow(f)'
    <3>1. CASE f = e
      <4>1. s \in sending'
               \/ (s \in Approvals /\ answer = "hash")
        BY <1>1, <1>2, <1>4 DEF OwnRow
      <4> QED
        BY <1>3, <1>4, <1>6, <1>7, <3>1, <4>1 DEF OwnRow, InFlight
    <3>2. CASE f # e
      BY <1>6, <1>7, <1>13, <1>14, <2>3, <3>2 DEF Inv, EngineInv, Signed
    <3> QED
      BY <3>1, <3>2
  <2>4. \A f, g \in Engines :
           f # g /\ engine'[f].at # "idle" /\ engine'[g].at # "idle" =>
              engine'[f].hash # engine'[g].hash
    BY <1>7, <1>13 DEF Inv, EngineInv
  <2> QED
    BY <2>1, <2>2, <2>3, <2>4 DEF EngineInv
<1>16. RowInv'
  <2>1. \A z \in Subjects : RowOk(z)'
    <3> SUFFICES ASSUME NEW z \in Subjects PROVE RowOk(z)'
      OBVIOUS
    <3>1. RowOk(z) /\ row'[z] = row[z]
      BY <1>3 DEF Inv, RowInv
    <3>2. CASE z = s
      BY <1>3, <1>4, <1>6, <1>9, <3>1, <3>2 DEF RowOk, Signed
    <3>3. CASE z # s
      <4>1. row[z].hash # t
        BY <1>4, <3>3, RelayAssumption DEF Inv, RowInv, TxIds
      <4> QED
        BY <1>6, <1>9, <3>1, <4>1 DEF RowOk, Signed
    <3> QED
      BY <3>2, <3>3
  <2> QED
    BY <1>3, <2>1 DEF Inv, RowInv
<1>17. RecInv'
  BY <1>3, <1>4, <1>12 DEF Inv, RecInv, InFlight
<1>18. LeaseInv' /\ OneInv'
  <2>1. \A u \in TxIds : Submitting(u)' => Submitting(u)
    BY <1>7 DEF Submitting
  <2>2. Submitting(t)
    BY <1>1, <1>3 DEF Submitting
  <2>3. \A u \in TxIds : Live(u)' => Live(u)
    BY <1>12, <2>1, <2>2 DEF Live
  <2> QED
    BY <1>3, <1>6, <2>3, Fading DEF Inv
<1> QED
  BY <1>8, <1>10, <1>11, <1>15, <1>16, <1>17, <1>18 DEF Inv

\* A horizon from the relay's answer or from the window bounds the true
\* deadline too.
LEMMA ResolvedIsSafe ==
  ASSUME Inv, NEW t \in TxIds, NEW head \in Heads, NEW h \in Resolved(t, head),
         h # None
  PROVE  /\ h \in Heights
         /\ tx[t].until # None => tx[t].until - Depth <= h
<1>1. /\ head \in Int /\ 0 - Depth <= head /\ head <= 0
      /\ tx[t].until # None => tx[t].until \in Int /\ tx[t].until <= Window
  BY Facts DEF Inv, TxInv
<1>2. head + Window \in Heights
      /\ (tx[t].until # None => tx[t].until - Depth <= head + Window)
  BY <1>1, RelayAssumption DEF Heights, Deep
<1>3. CASE h = head + Window
  BY <1>2, <1>3
<1>4. ASSUME NEW d \in Declared(t), h = Larger(Clamped(d, head), head + Window)
      PROVE  /\ h \in Heights
             /\ tx[t].until # None => tx[t].until - Depth <= h
  <2>1. Clamped(d, head) \in Heights /\ tx[t].until - Depth <= Clamped(d, head)
    BY ClampedIsSafe
  <2>2. h \in {Clamped(d, head), head + Window}
    BY <1>4 DEF Larger
  <2> QED
    BY <1>2, <2>1, <2>2
<1> QED
  BY <1>3, <1>4 DEF Resolved

LEMMA StampKeeps ==
  ASSUME Inv, NEW e \in Engines, Stamp(e)
  PROVE  Inv'
<1>1. PICK t \in TxIds, s \in Subjects :
         t = engine[e].hash /\ s = engine[e].subject /\ t \in Signed
  BY DEF Stamp, Inv, EngineInv, Signed
<1> DEFINE bound == s \in Approvals /\ engine[e].answer = "hash"
<1>2. /\ \/ /\ bound => row[s].hash = t
            /\ \E head \in Heads : \E h \in Resolved(t, head) :
                 row' = [row EXCEPT ![s].status  = "submitted",
                                    ![s].horizon = MaxHorizon(@, h)]
         \/ UNCHANGED row
      /\ sending' = IF bound THEN sending ELSE sending \ {s}
      /\ engine' = [engine EXCEPT ![e] = Idle]
      /\ engine[e].at = "stamp" /\ UNCHANGED <<tx, lease, crashes>>
  BY <1>1 DEF Stamp
<1>3. ~bound => OwnRow(e) /\ row[s].hash = t
  BY <1>1, <1>2 DEF Inv, EngineInv, OwnRow
<1>4. /\ row' \in [Subjects -> Row]
      /\ \A z \in Subjects : /\ row'[z].hash = row[z].hash
                             /\ row'[z].nonce = row[z].nonce
                             /\ InFlight(z) => InFlight(z)'
                             /\ z # s => row'[z] = row[z]
      /\ RowOk(s)'
  <2>1. CASE UNCHANGED row
    BY <1>2, <2>1 DEF Inv, TypeOK, RowInv, RowOk, InFlight, Signed
  <2>2. CASE ~UNCHANGED row
    <3> PICK head \in Heads : \E h \in Resolved(t, head) :
               row' = [row EXCEPT ![s].status  = "submitted",
                                  ![s].horizon = MaxHorizon(@, h)]
      BY <1>2, <2>2
    <3> PICK h \in Resolved(t, head) :
               row' = [row EXCEPT ![s].status  = "submitted",
                                  ![s].horizon = MaxHorizon(@, h)]
      OBVIOUS
    <3>1. row[s].hash = t /\ row[s].status # "none"
      <4>1. t # None
        BY <1>1, RelayAssumption DEF TxIds, Signed
      <4>2. row[s].hash = t
        BY <1>2, <1>3, <2>2
      <4>3. RowOk(s)
        BY DEF Inv, RowInv
      <4> QED
        BY <4>1, <4>2, <4>3 DEF RowOk
    <3>2. h # None => h \in Heights /\ h \in Int
             /\ (tx[t].until # None => tx[t].until - Depth <= h)
      BY ResolvedIsSafe, Facts DEF Inv
    <3>3. row[s].horizon # None => row[s].horizon \in Heights
             /\ row[s].horizon \in Int
             /\ (tx[t].until # None => tx[t].until - Depth <= row[s].horizon)
      BY <3>1, Facts DEF Inv, TypeOK, Row, RowInv, RowOk
    <3> DEFINE m == MaxHorizon(row[s].horizon, h)
    <3>4. m \in {row[s].horizon, h}
      BY DEF MaxHorizon, Larger
    <3>5. m \in Heights \cup {None}
      BY <3>2, <3>3, <3>4
    <3>6. m # None /\ tx[t].until # None => tx[t].until - Depth <= m
      BY <3>2, <3>3, <3>4
    <3>7. row' = [row EXCEPT ![s].status = "submitted", ![s].horizon = m]
      OBVIOUS
    <3> HIDE DEF m
    <3>8. /\ row'[s].status = "submitted" /\ row'[s].horizon = m
          /\ row'[s].hash = row[s].hash /\ row'[s].nonce = row[s].nonce
          /\ \A z \in Subjects : z # s => row'[z] = row[z]
      BY <3>7 DEF Inv, TypeOK, Row
    <3>9. row' \in [Subjects -> Row]
      <4>1. row[s] \in Row
        BY DEF Inv, TypeOK
      <4>2. [row[s] EXCEPT !.status = "submitted", !.horizon = m] \in Row
        BY <3>5, <4>1 DEF Row, Statuses
      <4>3. row' = [row EXCEPT ![s] = [row[s] EXCEPT !.status = "submitted",
                                                     !.horizon = m]]
        BY <3>7
      <4> QED
        BY <4>2, <4>3 DEF Inv, TypeOK
    <3>10. RowOk(s)'
      BY <1>2, <3>1, <3>6, <3>8 DEF Inv, RowInv, RowOk, Signed
    <3>11. \A z \in Subjects : InFlight(z) => InFlight(z)'
      BY <3>8 DEF InFlight, InFlightOnChain
    <3> QED
      BY <3>8, <3>9, <3>10, <3>11
  <2> QED
    BY <2>1, <2>2
<1>5. /\ \A f \in Engines : f # e => engine'[f] = engine[f]
      /\ engine'[e] = Idle /\ Idle.at = "idle"
      /\ engine' \in [Engines -> Engine]
  BY <1>2 DEF Inv, TypeOK, Engine, Idle
<1>6. TypeOK'
  BY <1>2, <1>4, <1>5 DEF Inv, TypeOK
<1>7. /\ TxInv' /\ ChainInv'
      /\ Signed' = Signed /\ Latest' = Latest
      /\ \A u : MayLand(u)' = MayLand(u)
  BY <1>2, Still DEF Inv
<1>8. RowInv'
  BY <1>2, <1>4, <1>7 DEF Inv, RowInv, RowOk
<1>9. RecInv'
  BY <1>4, <1>7 DEF Inv, RecInv
<1>10. ASSUME NEW f \in Engines, f # e, engine[f].at # "idle", OwnRow(f)
       PROVE  /\ OwnRow(f)'
              /\ engine[f].at = "submit" => row'[engine[f].subject].horizon = None
  <2>1. engine[f].subject \in Subjects /\ engine[f].hash # t
    BY <1>1, <1>2, <1>10 DEF Inv, EngineInv
  <2>2. row[engine[f].subject].hash = engine[f].hash
    BY <1>10 DEF OwnRow
  <2>3. CASE engine[f].subject = s
    <3>1. bound /\ row[s].hash # t
      BY <1>3, <2>1, <2>2, <2>3
    <3>2. UNCHANGED row /\ sending' = sending
      BY <1>2, <3>1
    <3> QED
      BY <1>5, <1>10, <3>2 DEF OwnRow, InFlight, Inv, EngineInv
  <2>4. CASE engine[f].subject # s
    BY <1>2, <1>4, <1>5, <1>10, <2>1, <2>4 DEF OwnRow, InFlight, Inv, EngineInv
  <2> QED
    BY <2>3, <2>4
<1>11. EngineInv'
  <2>1. \A f \in Engines : engine'[f].at # "idle" =>
           f # e /\ engine'[f] = engine[f] /\ engine[f].at # "idle"
    BY <1>5
  <2>2. ASSUME NEW f \in Engines, engine'[f].at # "idle"
        PROVE  /\ engine'[f].hash \in Signed' /\ engine'[f].subject \in Subjects
               /\ engine'[f].at = "submit" =>
                    /\ OwnRow(f)' /\ row'[engine'[f].subject].horizon = None
                    /\ tx'[engine'[f].hash].relay = "never"
                    /\ tx'[engine'[f].hash].pool = "never"
                    /\ tx'[engine'[f].hash].until = None
                    /\ ~tx'[engine'[f].hash].mined
               /\ engine'[f].at = "stamp" =>
                    /\ engine'[f].answer = "refused" =>
                          tx'[engine'[f].hash].relay = "never"
                    /\ ~(engine'[f].subject \in Approvals
                          /\ engine'[f].answer = "hash") => OwnRow(f)'
    <3>1. f # e /\ engine'[f] = engine[f] /\ engine[f].at # "idle"
      BY <2>1, <2>2
    <3>2. OwnRow(f) => /\ OwnRow(f)'
                       /\ engine[f].at = "submit" =>
                             row'[engine[f].subject].horizon = None
      BY <1>10, <3>1
    <3> QED
      BY <1>2, <1>7, <3>1, <3>2 DEF Inv, EngineInv
  <2>3. \A f, g \in Engines :
           f # g /\ engine'[f].at # "idle" /\ engine'[g].at # "idle" =>
              /\ engine'[f].hash # engine'[g].hash
              /\ ~(engine'[f].at = "submit" /\ engine'[g].at = "submit")
    BY <2>1 DEF Inv, EngineInv
  <2> QED
    BY <2>2, <2>3 DEF EngineInv
<1>12. LeaseInv' /\ OneInv'
  <2>1. \A u \in TxIds : Submitting(u)' => Submitting(u)
    BY <1>5 DEF Submitting
  <2>2. \A u \in TxIds : Live(u)' => Live(u)
    BY <1>7, <2>1 DEF Live
  <2> QED
    BY <1>2, <2>2, Fading DEF Inv
<1> QED
  BY <1>6, <1>7, <1>8, <1>9, <1>11, <1>12 DEF Inv

-----------------------------------------------------------------------------
(* The chain, the mempool and the relay. *)

\* A step that changes no row, and of one transaction only what the node and
\* the relay know of it.
LEMMA KnowingKeeps ==
  ASSUME Inv, NEW t \in TxIds, NEW r \in Tx, SetTx(t, r), tx[t] # NoTx,
         r.nonce = tx[t].nonce, r.until = tx[t].until, r.mined = tx[t].mined,
         \/ r.relay = tx[t].relay
         \/ tx[t].relay = "holds" /\ r.relay = "forgot",
         \/ r.pool = tx[t].pool
         \/ tx[t].pool = "in" /\ r.pool = "out"
         \/ MayLand(t)
  PROVE  Inv'
<1>1. /\ tx' = [tx EXCEPT ![t] = r]
      /\ UNCHANGED <<row, lease, engine, sending, crashes>>
  BY DEF SetTx
<1>2. /\ tx' \in [TxIds -> Tx] /\ tx'[t] = r
      /\ \A u \in TxIds : u # t => tx'[u] = tx[u]
  BY <1>1 DEF Inv, TypeOK
<1>3. \A u \in TxIds : /\ tx'[u].nonce = tx[u].nonce
                       /\ tx'[u].mined = tx[u].mined
                       /\ tx'[u].until = tx[u].until
  BY <1>2
<1>4. Signed' = Signed /\ Latest' = Latest
  BY <1>3 DEF Signed, Latest
<1>5. TypeOK'
  BY <1>1, <1>2 DEF Inv, TypeOK
<1>6. TxInv'
  <2>1. tx[t].nonce # None
    BY DEF Inv, TxInv
  <2> QED
    BY <1>2, <1>3, <1>4, <2>1 DEF Inv, TxInv
<1>7. ChainInv'
  BY <1>3, <1>4 DEF Inv, ChainInv
<1>8. RowInv'
  BY <1>1, <1>3, <1>4 DEF Inv, RowInv, RowOk, Signed
<1>9. \A u \in TxIds : MayLand(u)' => MayLand(u)
  BY <1>2, <1>3 DEF MayLand, Offered
<1>10. RecInv'
  BY <1>1, <1>9 DEF Inv, RecInv, InFlight
<1>11. LeaseInv' /\ OneInv'
  <2>1. \A u \in TxIds : Live(u)' => Live(u)
    BY <1>1, <1>9 DEF Live, Submitting
  <2> QED
    BY <1>1, <1>3, <2>1, Fading DEF Inv
<1>12. EngineInv'
  <2>1. \A e \in Engines : OwnRow(e)' = OwnRow(e)
    BY <1>1 DEF OwnRow, InFlight
  <2>2. ASSUME NEW e \in Engines, engine[e].at = "submit"
        PROVE  tx'[engine[e].hash] = tx[engine[e].hash]
    <3>1. ~MayLand(engine[e].hash) /\ tx[engine[e].hash].pool = "never"
          /\ tx[engine[e].hash].relay = "never" /\ engine[e].hash \in TxIds
      BY <2>2 DEF Inv, EngineInv, MayLand, Offered, Signed
    <3>2. tx' = tx \/ engine[e].hash # t
      <4>1. CASE engine[e].hash = t
        <5>1. r.pool = tx[t].pool /\ r.relay = tx[t].relay
          BY <3>1, <4>1
        <5>2. r = tx[t]
          BY <5>1 DEF Inv, TypeOK, Tx
        <5> QED
          BY <1>1, <5>2 DEF Inv, TypeOK
      <4> QED
        BY <4>1
    <3> QED
      BY <1>2, <3>1, <3>2
  <2>3. \A e \in Engines : engine[e].at # "idle" =>
           (tx[engine[e].hash].relay = "never" =>
               tx'[engine[e].hash].relay = "never")
    BY <1>2 DEF Inv, EngineInv, Signed
  <2> QED
    BY <1>1, <1>4, <2>1, <2>2, <2>3 DEF Inv, EngineInv
<1> QED
  BY <1>5, <1>6, <1>7, <1>8, <1>10, <1>11, <1>12 DEF Inv

LEMMA KnowledgeKeeps ==
  ASSUME Inv, NEW t \in TxIds, Leak(t) \/ Evict(t) \/ Forget(t)
  PROVE  Inv'
<1>1. tx[t] \in Tx
  BY DEF Inv, TypeOK
<1>2. CASE Leak(t)
  <2> DEFINE r == [tx[t] EXCEPT !.pool = "in"]
  <2>1. ~tx[t].mined /\ tx[t].pool = "never" /\ Offered(t, 1) /\ SetTx(t, r)
    BY <1>2 DEF Leak
  <2>2. r \in Tx /\ r.nonce = tx[t].nonce /\ r.until = tx[t].until
        /\ r.mined = tx[t].mined /\ r.relay = tx[t].relay
    BY <1>1 DEF Tx
  <2>3. tx[t].until \in Int /\ 1 <= tx[t].until /\ tx[t].until # None
    BY <2>1, Facts DEF Inv, Offered
  <2>4. tx[t] # NoTx /\ MayLand(t)
    BY <2>1, <2>3, RelayAssumption DEF NoTx, MayLand, Offered
  <2> HIDE DEF r
  <2> QED
    BY <2>1, <2>2, <2>4, KnowingKeeps
<1>3. CASE Evict(t)
  <2> DEFINE r == [tx[t] EXCEPT !.pool = "out"]
  <2>1. tx[t].pool = "in" /\ SetTx(t, r)
    BY <1>3 DEF Evict
  <2>2. r \in Tx /\ r.nonce = tx[t].nonce /\ r.until = tx[t].until
        /\ r.mined = tx[t].mined /\ r.relay = tx[t].relay /\ r.pool = "out"
    BY <1>1 DEF Tx
  <2>3. tx[t] # NoTx
    BY <2>1 DEF NoTx
  <2> HIDE DEF r
  <2> QED
    BY <2>1, <2>2, <2>3, KnowingKeeps
<1>4. CASE Forget(t)
  <2> DEFINE r == [tx[t] EXCEPT !.relay = "forgot"]
  <2>1. tx[t].relay = "holds" /\ SetTx(t, r)
    BY <1>4 DEF Forget
  <2>2. r \in Tx /\ r.nonce = tx[t].nonce /\ r.until = tx[t].until
        /\ r.mined = tx[t].mined /\ r.relay = "forgot" /\ r.pool = tx[t].pool
    BY <1>1 DEF Tx
  <2>3. tx[t] # NoTx
    BY <2>1 DEF NoTx
  <2> HIDE DEF r
  <2> QED
    BY <2>1, <2>2, <2>3, KnowingKeeps
<1> QED
  BY <1>2, <1>3, <1>4

\* A height sinks by one block or has no further to sink, and a horizon no
\* further below its deadline than before stays so.
LEMMA Sinking ==
  /\ Sunk(None) = None /\ None \notin Heights
  /\ \A a \in Heights : Sunk(a) \in Heights /\ Sunk(a) <= a
  /\ \A a, b \in Heights : a - Depth <= b => Sunk(a) - Depth <= Sunk(b)
<1>1. None \notin Int /\ Depth \in Nat /\ Deep \in Nat /\ Ceiling \in Nat
  BY RelayAssumption DEF Deep
<1> QED
  BY <1>1 DEF Sunk, Heights

\* What a block does: the transactions it includes land, and if it is a new
\* highest one every height sinks.
Effect(S, h) ==
    /\ S = {} \/ \E t \in TxIds : S = {t} /\ Includable(t, h)
    /\ tx' \in [TxIds -> Tx]
    /\ \A u \in TxIds :
         /\ tx'[u].nonce = tx[u].nonce
         /\ u \in S => /\ tx'[u].mined /\ tx'[u].pool = "out"
                       /\ tx'[u].until = None
                       /\ tx'[u].relay # "holds"
                       /\ tx[u].relay = "never" => tx'[u].relay = "never"
         /\ u \notin S => /\ tx'[u].mined = tx[u].mined
                          /\ tx'[u].pool = tx[u].pool
                          /\ tx'[u].relay = tx[u].relay
                          /\ h = 0 => tx'[u].until = Sunk(tx[u].until)
                          /\ h # 0 => tx'[u].until = tx[u].until
    /\ row' \in [Subjects -> Row]
    /\ \A s \in Subjects :
         /\ row'[s].status = row[s].status
         /\ row'[s].hash = row[s].hash
         /\ row'[s].nonce = row[s].nonce
         /\ h = 0 => row'[s].horizon = Sunk(row[s].horizon)
         /\ h # 0 => row'[s].horizon = row[s].horizon

LEMMA BlockIs ==
  ASSUME Inv, NEW h \in Heads, Block(h)
  PROVE  \E S \in SUBSET TxIds : Effect(S, h)
<1>1. PICK S \in {{}} \cup {{t} : t \in {u \in TxIds : Includable(u, h)}} :
         IF h = 0
         THEN /\ tx' = Lower([t \in TxIds |-> IF t \in S THEN Mined(tx[t]) ELSE tx[t]])
              /\ row' = [s \in Subjects |->
                           [row[s] EXCEPT !.horizon = Sunk(@)]]
         ELSE /\ tx' = [t \in TxIds |-> IF t \in S THEN Mined(tx[t]) ELSE tx[t]]
              /\ UNCHANGED row
  BY DEF Block
<1>2. /\ S \in SUBSET TxIds
      /\ S = {} \/ \E t \in TxIds : S = {t} /\ Includable(t, h)
  BY <1>1
<1> DEFINE T == [t \in TxIds |-> IF t \in S THEN Mined(tx[t]) ELSE tx[t]]
<1>3. ASSUME NEW u \in TxIds
      PROVE  /\ T[u] \in Tx /\ T[u].nonce = tx[u].nonce
             /\ u \in S => /\ T[u].mined /\ T[u].pool = "out"
                           /\ T[u].until = None /\ T[u].relay # "holds"
                           /\ tx[u].relay = "never" => T[u].relay = "never"
             /\ u \notin S => T[u] = tx[u]
  <2>1. tx[u] \in Tx
    BY DEF Inv, TypeOK
  <2>2. CASE u \in S
    <3>1. T[u] = Mined(tx[u])
      BY <2>2
    <3> HIDE DEF T
    <3> QED
      BY <2>1, <2>2, <3>1 DEF Mined, Tx
  <2>3. CASE u \notin S
    BY <2>1, <2>3
  <2> QED
    BY <2>2, <2>3
<1>4. \A r \in Tx : LET l == [r EXCEPT !.until = Sunk(@)]
                    IN  /\ l \in Tx /\ l.nonce = r.nonce /\ l.mined = r.mined
                        /\ l.pool = r.pool /\ l.relay = r.relay
                        /\ l.until = Sunk(r.until)
  BY Sinking DEF Tx
<1>5. \A r \in Row : LET l == [r EXCEPT !.horizon = Sunk(@)]
                     IN  /\ l \in Row /\ l.status = r.status
                         /\ l.hash = r.hash /\ l.nonce = r.nonce
                         /\ l.horizon = Sunk(r.horizon)
  BY Sinking DEF Row
<1>6. row \in [Subjects -> Row]
  BY DEF Inv, TypeOK
<1>7. CASE h = 0
  <2>1. /\ tx' = Lower(T)
        /\ row' = [s \in Subjects |-> [row[s] EXCEPT !.horizon = Sunk(@)]]
    BY <1>1, <1>7
  <2>2. \A u \in TxIds : tx'[u] = [T[u] EXCEPT !.until = Sunk(@)]
    BY <2>1 DEF Lower
  <2>3. tx' \in [TxIds -> Tx]
    BY <1>3, <1>4, <2>1 DEF Lower
  <2>4. /\ row' \in [Subjects -> Row]
        /\ \A s \in Subjects : /\ row'[s].status = row[s].status
                               /\ row'[s].hash = row[s].hash
                               /\ row'[s].nonce = row[s].nonce
                               /\ row'[s].horizon = Sunk(row[s].horizon)
    BY <1>5, <1>6, <2>1
  <2> HIDE DEF T
  <2>5. \A u \in TxIds : /\ tx'[u].nonce = T[u].nonce
                         /\ tx'[u].mined = T[u].mined
                         /\ tx'[u].pool = T[u].pool
                         /\ tx'[u].relay = T[u].relay
                         /\ tx'[u].until = Sunk(T[u].until)
    <3> SUFFICES ASSUME NEW u \in TxIds
                 PROVE  /\ tx'[u].nonce = T[u].nonce
                        /\ tx'[u].mined = T[u].mined
                        /\ tx'[u].pool = T[u].pool
                        /\ tx'[u].relay = T[u].relay
                        /\ tx'[u].until = Sunk(T[u].until)
      OBVIOUS
    <3>1. T[u] \in Tx
      BY <1>3
    <3> DEFINE r == T[u]
    <3>2. r \in Tx /\ tx'[u] = [r EXCEPT !.until = Sunk(@)]
      BY <2>2, <3>1
    <3>3. LET l == [r EXCEPT !.until = Sunk(@)]
          IN  /\ l \in Tx /\ l.nonce = r.nonce /\ l.mined = r.mined
              /\ l.pool = r.pool /\ l.relay = r.relay
              /\ l.until = Sunk(r.until)
      BY <1>4, <3>2
    <3> QED
      BY <3>2, <3>3
  <2>6. ASSUME NEW u \in TxIds
        PROVE  /\ tx'[u].nonce = tx[u].nonce
               /\ u \in S => /\ tx'[u].mined /\ tx'[u].pool = "out"
                             /\ tx'[u].until = None
                             /\ tx'[u].relay # "holds"
                             /\ tx[u].relay = "never" => tx'[u].relay = "never"
               /\ u \notin S => /\ tx'[u].mined = tx[u].mined
                                /\ tx'[u].pool = tx[u].pool
                                /\ tx'[u].relay = tx[u].relay
                                /\ tx'[u].until = Sunk(tx[u].until)
    BY <1>3, <2>5, Sinking
  <2>7. Effect(S, h)
    BY <1>2, <1>7, <2>3, <2>4, <2>6 DEF Effect
  <2> QED
    BY <1>2, <2>7
<1>8. CASE h # 0
  <2>1. tx' = T /\ row' = row
    BY <1>1, <1>8
  <2>2. tx' \in [TxIds -> Tx]
    BY <1>3, <2>1
  <2> HIDE DEF T
  <2>3. Effect(S, h)
    BY <1>2, <1>3, <1>6, <1>8, <2>1, <2>2 DEF Effect
  <2> QED
    BY <1>2, <2>3
<1> QED
  BY <1>7, <1>8

LEMMA BlockKeeps ==
  ASSUME Inv, NEW h \in Heads, Block(h)
  PROVE  Inv'
<1>1. PICK S \in SUBSET TxIds : Effect(S, h)
  BY BlockIs
<1>2. UNCHANGED <<lease, engine, sending, crashes>>
  BY DEF Block
<1>3. /\ S = {} \/ \E t \in TxIds : S = {t} /\ Includable(t, h)
      /\ tx' \in [TxIds -> Tx] /\ row' \in [Subjects -> Row]
      /\ \A s \in Subjects : /\ row'[s].status = row[s].status
                             /\ row'[s].hash = row[s].hash
                             /\ row'[s].nonce = row[s].nonce
      /\ \A u \in TxIds :
           /\ tx'[u].nonce = tx[u].nonce
           /\ u \in S => /\ tx'[u].mined /\ tx'[u].pool = "out"
                         /\ tx'[u].until = None /\ tx'[u].relay # "holds"
           /\ tx[u].relay = "never" => tx'[u].relay = "never"
           /\ u \notin S => /\ tx'[u].mined = tx[u].mined
                            /\ tx'[u].pool = tx[u].pool
                            /\ tx'[u].relay = tx[u].relay
  BY <1>1 DEF Effect
<1>4. \A u \in TxIds : tx[u].until \in Heights \cup {None}
  BY DEF Inv, TypeOK, Tx
<1>5. \A s \in Subjects : row[s].horizon \in Heights \cup {None}
  BY DEF Inv, TypeOK, Row
<1>6. None \notin Heights /\ (\A a \in Heights : a \in Int)
      /\ Depth \in Nat /\ Window \in Nat
  BY Facts, Sinking, RelayAssumption DEF Inv
<1>7. \A u \in TxIds :
         /\ tx[u].until = None => tx'[u].until = None
         /\ u \notin S /\ tx[u].until # None => tx'[u].until \in Heights
         /\ tx'[u].until # None =>
               /\ tx[u].until \in Heights /\ tx'[u].until \in Heights
               /\ tx'[u].until <= tx[u].until
  BY <1>1, <1>4, <1>6, Sinking DEF Effect
<1>8. \A s \in Subjects : row[s].horizon = None <=> row'[s].horizon = None
  BY <1>1, <1>5, Sinking DEF Effect
<1>9. \A u \in TxIds, s \in Subjects :
         /\ row'[s].horizon # None /\ tx'[u].until # None
         /\ tx[u].until - Depth <= row[s].horizon
         => tx'[u].until - Depth <= row'[s].horizon
  <2> SUFFICES ASSUME NEW u \in TxIds, NEW s \in Subjects,
                      row'[s].horizon # None, tx'[u].until # None,
                      tx[u].until - Depth <= row[s].horizon
               PROVE  tx'[u].until - Depth <= row'[s].horizon
    OBVIOUS
  <2>1. tx[u].until \in Heights /\ row[s].horizon \in Heights /\ u \notin S
    BY <1>3, <1>5, <1>7, <1>8
  <2>2. CASE h = 0
    <3>1. /\ tx'[u].until = Sunk(tx[u].until)
          /\ row'[s].horizon = Sunk(row[s].horizon)
      BY <1>1, <2>1, <2>2 DEF Effect
    <3> QED
      BY <2>1, <3>1, Sinking
  <2>3. CASE h # 0
    BY <1>1, <2>1, <2>3 DEF Effect
  <2> QED
    BY <2>2, <2>3
<1>10. TypeOK'
  BY <1>2, <1>3 DEF Inv, TypeOK
<1>11. Signed' = Signed
  BY <1>3 DEF Signed
<1>12. \A u \in TxIds : MayLand(u)' => MayLand(u) /\ u \notin S
  <2>1. \A u \in TxIds : Offered(u, 1 - Depth)' => Offered(u, 1 - Depth)
    BY <1>6, <1>7 DEF Offered
  <2> QED
    BY <1>3, <2>1 DEF MayLand
<1>13. \A t \in S : /\ MayLand(t) /\ tx[t].nonce = Latest /\ ~tx[t].mined
                    /\ t \in Signed
  <2> SUFFICES ASSUME NEW t \in S
               PROVE  /\ MayLand(t) /\ tx[t].nonce = Latest /\ ~tx[t].mined
                      /\ t \in Signed
    OBVIOUS
  <2>1. Includable(t, h)
    BY <1>3
  <2>2. Offered(t, h + 1) => Offered(t, 1 - Depth)
    BY <1>4, <1>6, Facts DEF Inv, Offered
  <2>3. Latest # None
    BY LatestType, RelayAssumption
  <2> QED
    BY <2>1, <2>2, <2>3 DEF Includable, MayLand, Signed
<1>14. TxInv'
  <2>1. ASSUME NEW u \in TxIds
        PROVE  /\ tx'[u].nonce = None => tx'[u] = NoTx
               /\ tx'[u].relay = "holds" => tx'[u].until # None
               /\ tx'[u].until # None => tx'[u].until <= Window
    <3>1. /\ tx[u].nonce = None => tx[u] = NoTx
          /\ tx[u].relay = "holds" => tx[u].until # None
          /\ tx[u].until # None => tx[u].until <= Window
      BY DEF Inv, TxInv
    <3>2. ASSUME tx[u].nonce = None PROVE tx'[u] = NoTx
      <4>1. tx[u] = NoTx /\ u \notin S
        BY <1>11, <1>13, <3>1, <3>2 DEF Signed
      <4>2. /\ tx'[u].nonce = None /\ tx'[u].relay = "never"
            /\ tx'[u].until = None /\ tx'[u].pool = "never"
            /\ tx'[u].mined = FALSE
        BY <1>3, <1>7, <4>1 DEF NoTx
      <4> QED
        BY <1>3, <4>2 DEF Tx, NoTx
    <3>3. tx'[u].relay = "holds" => tx'[u].until # None
      BY <1>3, <1>6, <1>7, <3>1
    <3>4. tx'[u].until # None => tx'[u].until <= Window
      BY <1>6, <1>7, <3>1
    <3> QED
      BY <1>3, <3>2, <3>3, <3>4
  <2> QED
    BY <1>11, <2>1 DEF Inv, TxInv
<1>15. \A u \in TxIds : tx'[u].mined <=> tx[u].mined \/ u \in S
  BY <1>3, <1>13
<1>16. ChainInv'
  <2> DEFINE M == {u \in TxIds : tx[u].mined}
  <2>1. Latest = Cardinality(M) /\ Latest' = Cardinality(M \cup S)
    <3>1. {u \in TxIds : tx[u].mined}' = M \cup S
      BY <1>15
    <3> QED
      BY <3>1 DEF Latest
  <2>2. CASE S = {}
    <3>1. Latest' = Latest
      BY <2>1, <2>2
    <3> QED
      BY <1>3, <1>15, <2>2, <3>1 DEF Inv, ChainInv
  <2>3. ASSUME NEW t \in TxIds, S = {t}
        PROVE  ChainInv'
    <3>1. t \notin M /\ IsFiniteSet(M)
      BY <1>13, <2>3, Counts
    <3>2. Latest' = Latest + 1 /\ Latest \in Nat
      BY <2>1, <2>3, <3>1, FS_AddElement, FS_CardinalityType
    <3>3. \A u \in TxIds : tx'[u].mined =>
             tx'[u].nonce \in Nat /\ tx'[u].nonce < Latest'
      BY <1>3, <1>13, <1>15, <2>3, <3>2 DEF Inv, ChainInv
    <3>4. \A n \in 0..(Latest' - 1) :
             \E u \in TxIds : tx'[u].mined /\ tx'[u].nonce = n
      <4> SUFFICES ASSUME NEW n \in 0..(Latest' - 1)
                   PROVE  \E u \in TxIds : tx'[u].mined /\ tx'[u].nonce = n
        OBVIOUS
      <4>1. CASE n = Latest
        BY <1>3, <1>13, <1>15, <2>3, <4>1
      <4>2. CASE n # Latest
        <5>1. n \in 0..(Latest - 1)
          BY <3>2, <4>2
        <5> QED
          BY <1>3, <1>15, <5>1 DEF Inv, ChainInv
      <4> QED
        BY <4>1, <4>2
    <3> QED
      BY <3>3, <3>4 DEF ChainInv
  <2> QED
    BY <1>3, <2>2, <2>3
<1>17. RowInv'
  <2>1. ASSUME NEW s \in Subjects PROVE RowOk(s)'
    <3>1. RowOk(s)
      BY DEF Inv, RowInv
    <3>2. row[s].status # "none" => row[s].hash \in TxIds
      BY <3>1 DEF RowOk, Signed
    <3>3. /\ row[s].status # "none"
          /\ row'[s].horizon # None /\ tx'[row[s].hash].until # None
          => tx'[row[s].hash].until - Depth <= row'[s].horizon
      BY <1>6, <1>7, <1>8, <1>9, <3>1, <3>2 DEF RowOk
    <3> QED
      BY <1>3, <1>11, <3>1, <3>2, <3>3 DEF RowOk
  <2> QED
    BY <1>3, <2>1 DEF Inv, RowInv
<1>18. RecInv'
  BY <1>3, <1>12 DEF Inv, RecInv, InFlight
<1>19. LeaseInv' /\ OneInv'
  <2>1. \A u \in TxIds : Live(u)' => Live(u)
    BY <1>2, <1>12 DEF Live, Submitting
  <2>2. \A u \in TxIds : tx'[u].mined => tx[u].mined \/ Live(u)
    BY <1>13, <1>15 DEF Live
  <2> QED
    BY <1>2, <1>3, <2>1, <2>2, Fading DEF Inv
<1>20. EngineInv'
  <2>1. \A e \in Engines : engine[e].at # "idle" =>
           /\ engine[e].hash \in TxIds /\ engine[e].hash \in Signed
           /\ engine[e].subject \in Subjects
    BY DEF Inv, EngineInv, Signed
  <2>2. \A e \in Engines : engine[e].at # "idle" /\ OwnRow(e) => OwnRow(e)'
    BY <1>2, <1>3, <2>1 DEF OwnRow, InFlight
  <2>3. ASSUME NEW e \in Engines, engine[e].at = "submit"
        PROVE  /\ OwnRow(e)' /\ row'[engine[e].subject].horizon = None
               /\ tx'[engine[e].hash].relay = "never"
               /\ tx'[engine[e].hash].pool = "never"
               /\ tx'[engine[e].hash].until = None
               /\ ~tx'[engine[e].hash].mined
    <3>1. /\ OwnRow(e) /\ row[engine[e].subject].horizon = None
          /\ tx[engine[e].hash].relay = "never"
          /\ tx[engine[e].hash].pool = "never"
          /\ tx[engine[e].hash].until = None /\ ~tx[engine[e].hash].mined
      BY <2>3 DEF Inv, EngineInv
    <3>2. engine[e].hash \notin S
      BY <1>13, <3>1 DEF MayLand, Offered
    <3> QED
      BY <1>3, <1>7, <1>8, <2>1, <2>2, <2>3, <3>1, <3>2
  <2>4. \A e \in Engines : engine[e].at = "stamp" =>
           /\ engine[e].answer = "refused" => tx'[engine[e].hash].relay = "never"
           /\ ~(engine[e].subject \in Approvals /\ engine[e].answer = "hash")
                 => OwnRow(e)'
    BY <1>3, <2>1, <2>2 DEF Inv, EngineInv
  <2>5. \A e, f \in Engines :
           e # f /\ engine[e].at # "idle" /\ engine[f].at # "idle" =>
              /\ engine[e].hash # engine[f].hash
              /\ ~(engine[e].at = "submit" /\ engine[f].at = "submit")
    BY DEF Inv, EngineInv
  <2> QED
    BY <1>2, <1>11, <2>1, <2>3, <2>4, <2>5 DEF EngineInv
<1> QED
  BY <1>10, <1>14, <1>16, <1>17, <1>18, <1>19, <1>20 DEF Inv

-----------------------------------------------------------------------------
(* The theorems. *)

\* Every step keeps the invariant.
LEMMA InvKept == Inv /\ [Next]_vars => Inv'
<1> SUFFICES ASSUME Inv, [Next]_vars PROVE Inv'
  OBVIOUS
<1>1. ASSUME NEW e \in Engines, Submit(e) \/ Stamp(e) \/ Resync(e) PROVE Inv'
  BY <1>1, SubmitKeeps, StampKeeps, ResyncKeeps
<1>2. ASSUME NEW e \in Engines, NEW s \in Subjects, Sign(e, s) PROVE Inv'
  BY <1>2, SignKeeps
<1>3. ASSUME NEW s \in Subjects, Settle(s) \/ GiveUp(s) \/ Recover(s) PROVE Inv'
  BY <1>3, SettleKeeps, GiveUpKeeps, RecoverKeeps
<1>4. CASE Crash
  BY <1>4, CrashKeeps
<1>5. ASSUME NEW h \in Heads, Block(h) PROVE Inv'
  BY <1>5, BlockKeeps
<1>6. ASSUME NEW t \in TxIds, Leak(t) \/ Evict(t) \/ Forget(t) PROVE Inv'
  BY <1>6, KnowledgeKeeps
<1>7. CASE UNCHANGED vars
  <2>1. UNCHANGED <<tx, row, lease, engine, sending, crashes>>
    BY <1>7 DEF vars
  <2>2. /\ TxInv' /\ ChainInv' /\ Signed' = Signed
        /\ \A t : MayLand(t)' = MayLand(t)
    BY <2>1, Still DEF Inv
  <2>3. \A t : Live(t)' = Live(t)
    BY <2>1, <2>2 DEF Live, Submitting
  <2>4. \A e \in Engines : OwnRow(e)' = OwnRow(e)
    BY <2>1 DEF OwnRow, InFlight
  <2>5. TypeOK' /\ EngineInv' /\ RowInv' /\ RecInv'
    BY <2>1, <2>2, <2>4 DEF Inv, TypeOK, EngineInv, RowInv, RowOk, RecInv, InFlight
  <2>6. LeaseInv' /\ OneInv'
    BY <2>1, <2>3, Fading DEF Inv
  <2> QED
    BY <2>2, <2>5, <2>6 DEF Inv
<1> QED
  BY <1>1, <1>2, <1>3, <1>4, <1>5, <1>6, <1>7 DEF Next

\* The transactions, the rows, the lease and the engines are consistent in
\* every reachable state.
THEOREM InvHolds == Spec => []Inv
<1> QED
  BY InvInit, InvKept, PTL DEF Spec

\* Every variable has its type.
THEOREM TypeCorrect == Spec => []TypeOK
<1>1. Inv => TypeOK
  BY DEF Inv
<1> QED
  BY <1>1, InvHolds, PTL

\* No nonce is signed over while an earlier transaction that holds it may
\* land or has landed: the fence of resyncNonces is never too low, whoever
\* wrote the horizons it goes by, through reorgs, leaks and restarts.
THEOREM OneLive == Spec => []OneLivePerNonce
<1>1. Inv => OneLivePerNonce
  BY DEF Inv, OneInv, OneLivePerNonce, Live
<1> QED
  BY <1>1, InvHolds, PTL

\* What the relay is reported to have refused, it has never seen: the engine
\* may release the money it held (SubmitRejectedError).
THEOREM RefusedIsNowhere == Spec => []AbandonedIsNowhere
<1>1. Inv => AbandonedIsNowhere
  BY DEF Inv, EngineInv, AbandonedIsNowhere, Clean
<1> QED
  BY <1>1, InvHolds, PTL

\* A pass of reconcile gives up on no transaction that may still land.
THEOREM GivenUpIsDead == Spec => DroppedNeverLands
<1>1. ASSUME Inv, [Next]_vars,
             NEW s \in Subjects, InFlight(s), row'[s].status = "over",
             ~tx[row[s].hash].mined
      PROVE  ~MayLand(row[s].hash)
  <2>1. row[s].status # "over" /\ row \in [Subjects -> Row]
    BY <1>1 DEF InFlight, InFlightOnChain, Inv, TypeOK
  <2>2. PICK z \in Subjects : Settle(z) \/ GiveUp(z)
    <3>1. ASSUME NEW e \in Engines, Submit(e) \/ Stamp(e) \/ Resync(e)
          PROVE  FALSE
      <4>1. CASE Submit(e) \/ Resync(e)
        BY <1>1, <2>1, <4>1 DEF Submit, Resync
      <4>2. CASE Stamp(e)
        <5> DEFINE z == engine[e].subject
        <5>1. row' # row
          BY <1>1, <2>1
        <5>2. \E h : row' = [row EXCEPT ![z].status = "submitted",
                                       ![z].horizon = h]
          BY <4>2, <5>1 DEF Stamp
        <5>3. s # z => row'[s] = row[s]
          BY <2>1, <5>2
        <5>4. s = z => row'[s].status = "submitted"
          BY <2>1, <5>2 DEF Row
        <5> QED
          BY <1>1, <2>1, <5>3, <5>4
      <4> QED
        BY <3>1, <4>1, <4>2
    <3>2. ASSUME NEW e \in Engines, NEW z \in Subjects, Sign(e, z)
          PROVE  FALSE
      BY <1>1, <2>1, <3>2 DEF Sign
    <3>3. ASSUME NEW z \in Subjects, Recover(z)
          PROVE  FALSE
      BY <1>1, <2>1, <3>3 DEF Recover, Row
    <3>4. Crash => FALSE
      BY <1>1, <2>1 DEF Crash
    <3>5. ASSUME NEW h \in Heads, Block(h)
          PROVE  FALSE
      BY <1>1, <2>1, <3>5, BlockIs DEF Effect
    <3>6. ASSUME NEW t \in TxIds, Leak(t) \/ Evict(t) \/ Forget(t)
          PROVE  FALSE
      BY <1>1, <2>1, <3>6 DEF Leak, Evict, Forget, SetTx
    <3>7. UNCHANGED vars => FALSE
      BY <1>1, <2>1 DEF vars
    <3> QED
      BY <1>1, <3>1, <3>2, <3>3, <3>4, <3>5, <3>6, <3>7 DEF Next
  <2>3. z = s
    BY <1>1, <2>1, <2>2 DEF Settle, GiveUp, Over
  <2> QED
    BY <1>1, <2>2, <2>3, GivenUp DEF Settle
<1>2. Inv /\ [Next]_vars =>
        [\A s \in Subjects :
            InFlight(s) /\ row'[s].status = "over" /\ ~tx[row[s].hash].mined
              => ~MayLand(row[s].hash)]_vars
  BY <1>1
<1> QED
  BY <1>2, InvHolds, PTL DEF Spec, DroppedNeverLands

-----------------------------------------------------------------------------
(* The outbox.  Most steps only take transactions out of it: what may land *)
(* is on record before and after, under the same hash and nonce.           *)

\* A row in the outbox names a signed transaction with its nonce.
LEMMA EntryNames ==
  ASSUME Inv, NEW s \in Subjects, InOutbox(s)
  PROVE  /\ row[s].hash \in TxIds /\ row[s].hash \in Signed
         /\ MayLand(row[s].hash)
         /\ row[s].nonce = tx[row[s].hash].nonce /\ row[s].nonce \in Nonces
<1>1. row[s].status # "none" /\ RowOk(s)
  BY DEF InOutbox, InFlight, InFlightOnChain, Inv, RowInv
<1>2. row[s].hash \in Signed /\ row[s].nonce = tx[row[s].hash].nonce
  BY <1>1 DEF RowOk
<1> QED
  BY <1>2, Facts DEF Inv, InOutbox, Signed

\* Two rows do not name one transaction.
LEMMA OneRow ==
  ASSUME Inv, NEW s \in Subjects, NEW z \in Subjects,
         InOutbox(s), row[z].hash = row[s].hash
  PROVE  s = z
BY DEF Inv, RowInv, InOutbox

\* The count stays, or the transaction at it lands.
Counted == \/ Latest' = Latest
           \/ /\ Latest' = Latest + 1
              /\ \E t \in TxIds : MayLand(t) /\ ~MayLand(t)' /\ tx[t].nonce = Latest

\* A step that gives no transaction a new chance takes some out at most.
LEMMA Leaving ==
  ASSUME Inv, Inv', Counted,
         \A t \in TxIds : /\ MayLand(t)' => MayLand(t)
                          /\ Taken(t)' <=> Taken(t),
         \A s \in Subjects : InOutbox(s)' =>
            row'[s].hash = row[s].hash /\ row'[s].nonce = row[s].nonce
  PROVE  Account!Next
<1> DEFINE m(s) == [subject |-> s, hash |-> row[s].hash, nonce |-> row[s].nonce]
           S == {m(s) : s \in {z \in Subjects : InOutbox(z) /\ ~InOutbox(z)'}}
           T == Gone' \ Gone
<1>1. \A s \in Subjects : InOutbox(s)' => InOutbox(s)
  <2> SUFFICES ASSUME NEW s \in Subjects, InOutbox(s)' PROVE InOutbox(s)
    OBVIOUS
  <2>1. row[s].hash \in TxIds /\ row[s].hash # None /\ MayLand(row[s].hash)
    BY EntryNames DEF InOutbox, Inv, RowInv, RowOk, Signed
  <2>2. PICK z \in Subjects : InFlight(z) /\ row[z].hash = row[s].hash
    BY <2>1 DEF Inv, RecInv
  <2>3. z = s
    BY <2>1, <2>2 DEF Inv, RowInv
  <2> QED
    BY <2>1, <2>2, <2>3 DEF InOutbox
<1>2. ASSUME NEW s \in Subjects, InOutbox(s), ~InOutbox(s)',
             NEW t \in TxIds, row[s].hash = t
      PROVE  ~MayLand(t)'
  <2> SUFFICES ASSUME MayLand(t)' PROVE FALSE
    OBVIOUS
  <2>1. t # None
    BY <1>2 DEF InOutbox
  <2>2. PICK z \in Subjects : InFlight(z)' /\ row'[z].hash = t
    BY DEF Inv, RecInv
  <2>3. InOutbox(z)'
    BY <2>1, <2>2 DEF InOutbox
  <2>4. row[z].hash = t
    BY <2>2, <2>3
  <2>5. z = s
    BY <1>2, <2>4, OneRow
  <2> QED
    BY <1>2, <2>3, <2>5
<1>3. S \in SUBSET Outgoing /\ T \in SUBSET TxIds
  BY DEF Outgoing, Gone
<1>4. Outgoing' = Outgoing \ S
  <2>1. Outgoing' = {m(s) : s \in {z \in Subjects : InOutbox(z)'}}
    BY DEF Outgoing
  <2> QED
    BY <1>1, <2>1 DEF Outgoing
<1>5. Gone' = Gone \cup T
  BY DEF Gone
<1>6. Account!Hashes(S) \subseteq T
  <2> SUFFICES ASSUME NEW s \in Subjects, InOutbox(s), ~InOutbox(s)'
               PROVE  row[s].hash \in T
    BY DEF Account!Hashes
  <2>1. PICK t \in TxIds : row[s].hash = t /\ MayLand(t)
    BY EntryNames
  <2>2. ~MayLand(t)' /\ Taken(t)'
    BY <1>2, <2>1 DEF MayLand, Offered, Taken
  <2> QED
    BY <2>1, <2>2 DEF Gone
<1>7. T \cap Account!Hashes(Outgoing \ S) = {}
  <2> SUFFICES ASSUME NEW s \in Subjects, InOutbox(s)', row[s].hash \in T
               PROVE  FALSE
    BY <1>1, <1>4 DEF Account!Hashes, Outgoing
  <2> QED
    BY DEF Gone, InOutbox
<1>8. Account!Close(S, T)
  BY <1>4, <1>5, <1>6, <1>7 DEF Account!Close
<1>9. Account!Land(S) \/ UNCHANGED Latest
  <2> SUFFICES ASSUME Latest' # Latest PROVE Account!Land(S)
    OBVIOUS
  <2>1. PICK t \in TxIds : MayLand(t) /\ ~MayLand(t)' /\ tx[t].nonce = Latest
    BY DEF Counted
  <2>2. PICK s \in Subjects : InFlight(s) /\ row[s].hash = t
    BY <2>1 DEF Inv, RecInv
  <2>3. InOutbox(s)
    BY <2>1, <2>2, RelayAssumption DEF InOutbox, TxIds
  <2>4. ~InOutbox(s)' /\ row[s].nonce = Latest
    BY <2>1, <2>2, <2>3, EntryNames DEF InOutbox
  <2>5. m(s) \in S /\ m(s).nonce = Latest
    BY <2>3, <2>4
  <2> QED
    BY <2>5 DEF Counted, Account!Land
<1> QED
  BY <1>3, <1>8, <1>9 DEF Account!Next

\* A transaction the relay has taken is the only new one in the outbox, at a
\* nonce that is free.
LEMMA SubmitSends ==
  ASSUME Inv, Inv', NEW e \in Engines, Submit(e)
  PROVE  Account!Next
<1>1. PICK t \in TxIds, s \in Subjects : t = engine[e].hash /\ s = engine[e].subject
  BY DEF Submit, Inv, EngineInv, Signed
<1>2. UNCHANGED row /\ engine[e].at = "submit"
  BY DEF Submit
<1>3. /\ row[s].hash = t /\ InFlight(s) /\ t \in Signed /\ t # None
      /\ tx[t].pool = "never" /\ tx[t].until = None /\ ~tx[t].mined
  BY <1>1, <1>2, RelayAssumption DEF Inv, EngineInv, OwnRow, TxIds
<1>4. CASE UNCHANGED tx
  <2>1. Counted /\ \A u \in TxIds : MayLand(u)' = MayLand(u) /\ Taken(u)' = Taken(u)
    BY <1>4, Still DEF Inv, Counted, Taken
  <2> QED
    BY <1>2, <2>1, Leaving
<1>5. ASSUME NEW head \in Heads, NEW life \in Lifetimes,
             tx' = [tx EXCEPT ![t].relay = "holds", ![t].until = head + life]
      PROVE  Account!Next
  <2>1. tx \in [TxIds -> Tx] /\ head + life \in Int /\ 1 - Depth <= head + life
        /\ head + life # None
    BY RelayAssumption DEF Inv, TypeOK, Heads
  <2>2. /\ \A u \in TxIds : /\ tx'[u].nonce = tx[u].nonce
                            /\ tx'[u].mined = tx[u].mined
                            /\ tx'[u].pool = tx[u].pool
                            /\ u # t => tx'[u] = tx[u]
        /\ tx'[t].until = head + life
    BY <1>5, <2>1 DEF Tx
  <2>3. Latest' = Latest
    BY <2>2 DEF Latest
  <2>4. ~MayLand(t) /\ MayLand(t)'
    BY <1>3, <2>1, <2>2 DEF MayLand, Offered
  <2>5. \A u \in TxIds : u # t => MayLand(u)' = MayLand(u) /\ Taken(u)' = Taken(u)
    BY <2>2 DEF MayLand, Offered, Taken
  <2>6. \A z \in Subjects : z # s => row[z].hash # t
    BY <1>3 DEF Inv, RowInv
  <2>7. InOutbox(s)' /\ ~InOutbox(s)
    BY <1>2, <1>3, <2>4 DEF InOutbox, InFlight
  <2>8. \A z \in Subjects : z # s => InOutbox(z)' = InOutbox(z)
    <3> SUFFICES ASSUME NEW z \in Subjects, z # s, row[z].hash # None
                 PROVE  InOutbox(z)' = InOutbox(z)
      BY <1>2 DEF InOutbox
    <3>1. PICK u \in TxIds : row[z].hash = u /\ row'[z].hash = u
      BY <1>2 DEF Inv, TypeOK, Row
    <3>2. MayLand(u)' = MayLand(u)
      BY <2>5, <2>6, <3>1
    <3> QED
      BY <1>2, <3>1, <3>2 DEF InOutbox, InFlight
  <2> DEFINE n == [subject |-> s, hash |-> row[s].hash, nonce |-> row[s].nonce]
  <2>9. Outgoing' = Outgoing \cup {n}
    <3>1. Outgoing' = {[subject |-> z, hash |-> row[z].hash, nonce |-> row[z].nonce] :
                          z \in {y \in Subjects : InOutbox(y)'}}
      BY <1>2 DEF Outgoing
    <3> QED
      BY <2>7, <2>8, <3>1 DEF Outgoing
  <2>10. row[s].nonce = tx[t].nonce /\ row[s].nonce \in Nonces /\ Nonces \subseteq Nat
    <3>1. RowOk(s) /\ row[s].status # "none"
      BY <1>3 DEF Inv, RowInv, InFlight, InFlightOnChain
    <3>2. row[s].nonce = tx[t].nonce /\ tx[t].nonce \in Nonces
      BY <1>3, <3>1, Facts DEF Inv, RowOk
    <3> QED
      BY <3>2, RelayAssumption DEF Nonces
  <2>11. Live(t)
    BY <1>1, <1>2 DEF Live, Submitting
  <2>12. row[s].nonce >= Latest
    <3> SUFFICES ASSUME ~(row[s].nonce >= Latest) PROVE FALSE
      OBVIOUS
    <3>1. PICK k \in Nat : k = row[s].nonce
      BY <2>10
    <3>2. k \in 0..(Latest - 1)
      BY <3>1, LatestType
    <3>3. PICK u \in TxIds : tx[u].mined /\ tx[u].nonce = row[s].nonce
      BY <3>1, <3>2 DEF Inv, ChainInv
    <3>4. u \in Signed /\ u # t
      BY <1>3, <2>10, <3>3, RelayAssumption DEF Signed
    <3> QED
      BY <1>3, <2>10, <2>11, <3>3, <3>4 DEF Inv, OneInv
  <2>13. ASSUME NEW z \in Subjects, InOutbox(z)
         PROVE  z # s /\ row[z].hash # t /\ row[z].nonce # row[s].nonce
    <3>1. z # s /\ row[z].hash # t
      BY <2>6, <2>7, <2>13
    <3>2. /\ row[z].hash \in Signed /\ Live(row[z].hash)
          /\ row[z].nonce = tx[row[z].hash].nonce
      BY <2>13, EntryNames DEF Live
    <3> QED
      BY <1>3, <2>10, <2>11, <3>1, <3>2 DEF Inv, OneInv
  <2>14. Gone' = Gone
    <3>1. ~Taken(t)
      BY <1>3 DEF Taken
    <3> QED
      BY <2>4, <2>5, <3>1 DEF Gone
  <2>15. n \in Account!Entry /\ n \in Outgoing' /\ n.hash \notin Gone
    <3>1. t \notin Gone
      BY <1>3 DEF Gone, Taken
    <3> QED
      BY <1>3, <2>9, <2>10, <3>1 DEF Account!Entry
  <2>16. \A o \in Outgoing : /\ o.subject # n.subject /\ o.hash # n.hash
                             /\ o.nonce # n.nonce
    BY <1>3, <2>13 DEF Outgoing
  <2>17. Account!Send
    BY <2>3, <2>9, <2>12, <2>14, <2>15, <2>16 DEF Account!Send
  <2> QED
    BY <2>17 DEF Account!Next
<1> QED
  BY <1>1, <1>4, <1>5 DEF Submit

\* A block takes out what it includes and what it is too late for.
LEMMA BlockLands ==
  ASSUME Inv, Inv', NEW h \in Heads, Block(h)
  PROVE  Account!Next
<1>1. PICK S \in SUBSET TxIds : Effect(S, h)
  BY BlockIs
<1>2. \A u \in TxIds :
         /\ tx[u].until \in Heights \cup {None} /\ tx'[u].until \in Heights \cup {None}
         /\ tx[u] \in Tx /\ tx'[u] \in Tx
  BY DEF Inv, TypeOK, Tx
<1>3. \A u \in TxIds :
         /\ tx'[u].nonce = tx[u].nonce
         /\ u \in S => tx'[u].mined /\ tx'[u].pool = "out" /\ tx'[u].until = None
         /\ u \notin S => /\ tx'[u].mined = tx[u].mined
                          /\ tx'[u].pool = tx[u].pool
                          /\ tx'[u].until \in {tx[u].until, Sunk(tx[u].until)}
  BY <1>1 DEF Effect
<1>4. None \notin Heights /\ (\A a \in Heights : a \in Int) /\ Depth \in Nat
  BY Facts, Sinking, RelayAssumption DEF Inv
<1>5. \A u \in TxIds \ S : /\ tx'[u].until = None <=> tx[u].until = None
                           /\ tx[u].until # None => tx'[u].until <= tx[u].until
  <2> SUFFICES ASSUME NEW u \in TxIds \ S
               PROVE  /\ tx'[u].until = None <=> tx[u].until = None
                      /\ tx[u].until # None => tx'[u].until <= tx[u].until
    OBVIOUS
  <2> QED
    BY <1>2, <1>3, <1>4, Sinking
<1>6. ASSUME NEW t \in S
      PROVE  /\ S = {t} /\ t \in TxIds /\ MayLand(t) /\ ~tx[t].mined
             /\ tx[t].nonce = Latest
  <2>1. S = {t} /\ Includable(t, h) /\ t \in TxIds
    BY <1>1 DEF Effect
  <2>2. Offered(t, h + 1) => Offered(t, 1 - Depth)
    BY <1>2, <1>4, <2>1, Facts DEF Inv, Offered
  <2> QED
    BY <2>1, <2>2 DEF Includable, MayLand
<1>7. \A u \in TxIds : /\ MayLand(u)' => MayLand(u) /\ u \notin S
                       /\ Taken(u)' <=> Taken(u)
  <2> SUFFICES ASSUME NEW u \in TxIds
               PROVE  /\ MayLand(u)' => MayLand(u) /\ u \notin S
                      /\ Taken(u)' <=> Taken(u)
    OBVIOUS
  <2>1. CASE u \in S
    <3>1. Taken(u)
      BY <1>6, <2>1 DEF MayLand, Offered, Taken
    <3> QED
      BY <1>3, <2>1, <3>1 DEF MayLand, Taken
  <2>2. CASE u \notin S
    <3>1. Offered(u, 1 - Depth)' => Offered(u, 1 - Depth)
      BY <1>2, <1>4, <1>5, <2>2 DEF Offered
    <3>2. Taken(u)' <=> Taken(u)
      BY <1>3, <1>5, <2>2 DEF Taken
    <3> QED
      BY <1>3, <2>2, <3>1, <3>2 DEF MayLand
  <2> QED
    BY <2>1, <2>2
<1>8. Counted
  <2> DEFINE M == {u \in TxIds : tx[u].mined}
  <2>1. Latest = Cardinality(M) /\ Latest' = Cardinality(M \cup S)
    <3>1. {u \in TxIds : tx[u].mined}' = M \cup S
      BY <1>3
    <3> QED
      BY <3>1 DEF Latest
  <2>2. CASE S = {}
    BY <2>1, <2>2 DEF Counted
  <2>3. ASSUME NEW t \in S PROVE Counted
    <3>1. t \notin M /\ IsFiniteSet(M) /\ S = {t} /\ t \in TxIds
      BY <1>6, <2>3, Counts
    <3>2. Latest' = Latest + 1
      BY <2>1, <3>1, FS_AddElement
    <3> QED
      BY <1>6, <1>7, <3>1, <3>2 DEF Counted
  <2> QED
    BY <2>2, <2>3
<1>9. \A s \in Subjects : row'[s].hash = row[s].hash /\ row'[s].nonce = row[s].nonce
  BY <1>1 DEF Effect
<1> QED
  BY <1>7, <1>8, <1>9, Leaving

\* A signature is on a row and in nobody's reach; a judgement, a resync and a
\* crash leave the transactions alone.
LEMMA RestLeaves ==
  ASSUME Inv, Inv',
         \/ \E e \in Engines : \/ Stamp(e) \/ Resync(e)
                               \/ \E s \in Subjects : Sign(e, s)
         \/ \E s \in Subjects : Settle(s) \/ GiveUp(s) \/ Recover(s)
         \/ Crash
         \/ UNCHANGED vars
  PROVE  Account!Next
<1>1. ASSUME UNCHANGED tx,
             \A s \in Subjects : row'[s].hash = row[s].hash /\ row'[s].nonce = row[s].nonce
      PROVE  Account!Next
  <2>1. Counted /\ \A u \in TxIds : MayLand(u)' = MayLand(u) /\ Taken(u)' = Taken(u)
    BY <1>1, Still DEF Inv, Counted, Taken
  <2> QED
    BY <1>1, <2>1, Leaving
<1>2. row \in [Subjects -> Row] /\ tx \in [TxIds -> Tx]
  BY DEF Inv, TypeOK
<1>3. ASSUME NEW e \in Engines, Stamp(e) PROVE Account!Next
  <2>1. UNCHANGED tx
    BY <1>3 DEF Stamp
  <2> DEFINE z == engine[e].subject
  <2>2. \/ UNCHANGED row
        \/ \E h : row' = [row EXCEPT ![z].status = "submitted", ![z].horizon = h]
    BY <1>3 DEF Stamp
  <2>3. \A s \in Subjects : row'[s].hash = row[s].hash /\ row'[s].nonce = row[s].nonce
    <3> SUFFICES ASSUME NEW s \in Subjects, row' # row
                 PROVE  row'[s].hash = row[s].hash /\ row'[s].nonce = row[s].nonce
      OBVIOUS
    <3>1. PICK h : row' = [row EXCEPT ![z] = [[row[z] EXCEPT !.status = "submitted"]
                                                    EXCEPT !.horizon = h]]
      BY <2>2
    <3>2. row[s] \in Row /\ s # z => row'[s] = row[s]
      BY <1>2, <3>1
    <3>3. s = z => row'[s] = [[row[s] EXCEPT !.status = "submitted"] EXCEPT !.horizon = h]
      BY <1>2, <3>1
    <3> QED
      BY <1>2, <3>2, <3>3 DEF Row
  <2> QED
    BY <1>1, <2>1, <2>3
<1>4. ASSUME NEW e \in Engines, Resync(e) PROVE Account!Next
  BY <1>1, <1>4 DEF Resync
<1>5. ASSUME NEW e \in Engines, NEW s \in Subjects, Sign(e, s) PROVE Account!Next
  <2>1. PICK k \in 0..MaxTx : Signed = 1..k
    BY DEF Inv, TxInv
  <2> DEFINE t == k + 1
  <2>2. Cardinality(Signed) = k /\ k < MaxTx /\ t \in TxIds /\ t \notin Signed
    BY <1>5, <2>1, SignedCount, RelayAssumption DEF Sign, TxIds
  <2>3. PICK n \in Nonces : /\ row' = [row EXCEPT ![s] = [status |-> "pending", hash |-> t,
                                                nonce |-> n, horizon |-> None]]
                            /\ tx' = [tx EXCEPT ![t].nonce = n]
    BY <1>5, <2>2 DEF Sign
  <2>4. tx[t] = NoTx
    BY <2>2 DEF Inv, TxInv, Signed
  <2>5. \A u \in TxIds : /\ tx'[u].mined = tx[u].mined /\ tx'[u].pool = tx[u].pool
                         /\ tx'[u].until = tx[u].until
    BY <1>2, <2>3 DEF Tx
  <2>6. Latest' = Latest
    BY <2>5 DEF Latest
  <2>7. \A u \in TxIds : MayLand(u)' = MayLand(u) /\ Taken(u)' = Taken(u)
    BY <2>5 DEF MayLand, Offered, Taken
  <2>8. ~MayLand(t)
    BY <2>4 DEF NoTx, MayLand, Offered
  <2>9. ~InOutbox(s)'
    BY <1>2, <2>2, <2>3, <2>7, <2>8 DEF InOutbox
  <2>10. \A z \in Subjects : z # s => row'[z] = row[z]
    BY <1>2, <2>3
  <2> QED
    BY <2>6, <2>7, <2>9, <2>10, Leaving DEF Counted
<1>6. ASSUME NEW s \in Subjects, Settle(s) \/ GiveUp(s) PROVE Account!Next
  <2>1. UNCHANGED tx /\ Over(s)
    BY <1>6 DEF Settle, GiveUp
  <2>2. \A z \in Subjects : row'[z].hash = row[z].hash /\ row'[z].nonce = row[z].nonce
    BY <1>2, <2>1 DEF Over, Row
  <2> QED
    BY <1>1, <2>1, <2>2
<1>7. ASSUME NEW s \in Subjects, Recover(s) PROVE Account!Next
  <2>1. UNCHANGED tx /\ \E h : row' = [row EXCEPT ![s].horizon = h]
    BY <1>7 DEF Recover
  <2>2. \A z \in Subjects : row'[z].hash = row[z].hash /\ row'[z].nonce = row[z].nonce
    BY <1>2, <2>1 DEF Row
  <2> QED
    BY <1>1, <2>1, <2>2
<1>8. CASE Crash \/ UNCHANGED vars
  BY <1>1, <1>8 DEF Crash, vars
<1> QED
  BY <1>3, <1>4, <1>5, <1>6, <1>7, <1>8

\* A leak gives no new chance, an eviction takes one.
LEMMA KnowledgeLeaves ==
  ASSUME Inv, Inv', NEW t \in TxIds, Leak(t) \/ Evict(t) \/ Forget(t)
  PROVE  Account!Next
<1>1. tx \in [TxIds -> Tx] /\ UNCHANGED row
  BY DEF Inv, TypeOK, Leak, Evict, Forget, SetTx
<1>2. /\ \A u \in TxIds : /\ tx'[u].mined = tx[u].mined
                          /\ tx'[u].until = tx[u].until
                          /\ u # t => tx'[u] = tx[u]
      /\ \/ tx'[t].pool = tx[t].pool
         \/ tx'[t].pool = "in" /\ Leak(t)
         \/ tx[t].pool = "in" /\ tx'[t].pool = "out"
  BY <1>1 DEF Leak, Evict, Forget, SetTx, Tx
<1>3. Leak(t) => MayLand(t) /\ Taken(t)
  <2> SUFFICES ASSUME Leak(t) PROVE MayLand(t) /\ Taken(t)
    OBVIOUS
  <2>1. ~tx[t].mined /\ Offered(t, 1)
    BY DEF Leak
  <2>2. tx[t].until # None /\ tx[t].until \in Int /\ 1 - Depth <= tx[t].until
    BY <2>1, Facts, RelayAssumption DEF Inv, Offered
  <2> QED
    BY <2>1, <2>2 DEF MayLand, Offered, Taken
<1>4. \A u \in TxIds : /\ MayLand(u)' => MayLand(u)
                       /\ Taken(u)' <=> Taken(u)
  BY <1>2, <1>3 DEF MayLand, Offered, Taken
<1>5. Counted
  BY <1>2 DEF Counted, Latest
<1> QED
  BY <1>1, <1>4, <1>5, Leaving

LEMMA OutboxInit == Init => Account!Init
<1> SUFFICES ASSUME Init PROVE Account!Init
  OBVIOUS
<1>1. {t \in TxIds : tx[t].mined} = {}
  BY DEF Init, NoTx
<1>2. Latest = 0
  BY <1>1, FS_EmptySet DEF Latest
<1>3. Outgoing = {}
  BY DEF Init, NoRow, Outgoing, InOutbox
<1>4. Gone = {}
  BY DEF Init, NoTx, Gone, Taken
<1> QED
  BY <1>2, <1>3, <1>4 DEF Account!Init

LEMMA OutboxNext == Inv /\ Inv' /\ [Next]_vars => Account!Next
<1> SUFFICES ASSUME Inv, Inv', [Next]_vars PROVE Account!Next
  OBVIOUS
<1>1. ASSUME NEW e \in Engines, Submit(e) PROVE Account!Next
  BY <1>1, SubmitSends
<1>2. ASSUME NEW h \in Heads, Block(h) PROVE Account!Next
  BY <1>2, BlockLands
<1>3. ASSUME NEW t \in TxIds, Leak(t) \/ Evict(t) \/ Forget(t) PROVE Account!Next
  BY <1>3, KnowledgeLeaves
<1> QED
  BY <1>1, <1>2, <1>3, RestLeaves DEF Next

\* The rows are an outbox, though the bot's node sees nothing of what is in
\* it: nothing lands that no row in flight names, no subject and no nonce has
\* two transactions that may land, and none comes back, through reorgs,
\* leaks, restarts and a relay that says nothing.
THEOREM RelayIsAnOutbox == Spec => ImplementsOutbox
<1>1. Inv /\ Inv' /\ [Next]_vars => [Account!Next]_(Account!vars)
  BY OutboxNext
<1> QED
  BY <1>1, OutboxInit, InvHolds, PTL DEF Spec, ImplementsOutbox, Account!Spec

=============================================================================
