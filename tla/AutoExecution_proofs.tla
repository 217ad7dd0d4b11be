------------------------ MODULE AutoExecution_proofs ------------------------
(***************************************************************************)
(* Proofs about AutoExecution, for any engines, rows, owners and bounds,   *)
(* in four parts.                                                          *)
(*                                                                         *)
(* Types and the lock.  Types are not inductive by themselves: a nonce is  *)
(* taken from the lease, which must have been seeded; the lease is seeded  *)
(* from the nonces of rows, which must carry one; the lock is released by  *)
(* the head of its queue.  The inductive invariant Inv therefore adds what *)
(* each step of an engine has at hand.                                     *)
(*                                                                         *)
(* The record: every transaction that can still be mined is on record, no  *)
(* hash is recorded over, nothing is broadcast while halted, and no nonce  *)
(* that is taken is signed.  A row may leave flight only on final          *)
(* evidence, and the evidence is gathered in one step and used in another, *)
(* while rows, stamps and the chain move; a hash is recorded one step      *)
(* before its transaction goes live.  RecInv says what each of these steps *)
(* leaves to the next; FenceInv, on top of it, what the lease and the hole *)
(* lie clear of.                                                           *)
(*                                                                         *)
(* The verdicts: a row closes only the way the chain went, and from its    *)
(* claim to its broadcast only the sender writes it.  A verdict is reached *)
(* from reads of the chain and of the row and written after both may have  *)
(* moved: TruthInv says that a verdict in hand stays true, since a         *)
(* receipt, or a nonce that was passed without one, is final.  A sibling's *)
(* pass writes a row it read before it was claimed: OwnInv says that it is *)
(* refused, since a claim is stamped afresh.                               *)
(*                                                                         *)
(* The outbox: what the three together promise, as a refinement of Outbox. *)
(***************************************************************************)
EXTENDS AutoExecution, FiniteSetTheorems, SequenceTheorems, TLAPS

\* What keeps the types: only the head of the queue is inside the lock; before
\* the lease is seeded nothing runs but the boot resync; and an engine in the
\* middle of a row or of a send has the row, verdict and transaction at hand.
InLock == {"rows", "seed", "mark", "guard", "wire"}
LockInv == \A e \in Engines : pc[e] \in InLock => Holds(e)

BootInv == \/ up
           \/ \A e \in Engines : pc[e] \in {"off", "pending", "rows", "seed"}

PassInv == \A e \in Engines :
    /\ pc[e] \in {"probe", "write"} => cur[e] # None /\ work[e][cur[e]] # None
    /\ pc[e] = "write" => verdict[e] \in {"confirmed", "failed", "submitted"}
    /\ pc[e] = "seed" =>
          \A s \in Subjects : work[e][s] # None => work[e][s].nonce # None

SendInv == \A e \in Engines :
    /\ pc[e] \in {"claimed", "sign", "mark", "guard", "wire", "post", "catch",
                   "approved"} => cur[e] # None
    /\ pc[e] \in {"mark", "guard", "wire", "post", "approved"} => mytx[e] # None

Inv == TypeOK /\ LockInv /\ BootInv /\ PassInv /\ SendInv

-----------------------------------------------------------------------------
(* The clock: engines remember finitely many stamps of a row.              *)

\* Two stamps an engine at most: that of its claim and that of its pass.
LEMMA RememberedIsSmall ==
  ASSUME NEW s
  PROVE  /\ IsFiniteSet(Remembered(s))
         /\ Cardinality(Remembered(s)) <= 2 * Cardinality(Engines)
<1> DEFINE E1 == {e \in Engines : cur[e] = s}
           E2 == {e \in Engines : work[e][s] # None}
           A1 == {attempt[e] : e \in E1}
           A2 == {work[e][s].stamp : e \in E2}
<1>1. /\ IsFiniteSet(E1) /\ IsFiniteSet(E2) /\ IsFiniteSet(Engines)
      /\ Cardinality(E1) <= Cardinality(Engines)
      /\ Cardinality(E2) <= Cardinality(Engines)
  BY ClockAssumption, FS_Subset
<1>2. IsFiniteSet(A1) /\ Cardinality(A1) <= Cardinality(E1)
  <2> DEFINE f == [e \in E1 |-> attempt[e]]
  <2>1. f \in Surjection(E1, A1)
    BY DEF Surjection
  <2> HIDE DEF f, E1, A1
  <2> QED
    BY <2>1, <1>1, FS_Surjection
<1>3. IsFiniteSet(A2) /\ Cardinality(A2) <= Cardinality(E2)
  <2> DEFINE f == [e \in E2 |-> work[e][s].stamp]
  <2>1. f \in Surjection(E2, A2)
    BY DEF Surjection
  <2> HIDE DEF f, E2, A2
  <2> QED
    BY <2>1, <1>1, FS_Surjection
<1>4. Remembered(s) = A1 \cup A2
  BY DEF Remembered
<1> HIDE DEF E1, E2, A1, A2
<1>5. /\ IsFiniteSet(A1 \cup A2)
      /\ Cardinality(A1 \cup A2) =
            Cardinality(A1) + Cardinality(A2) - Cardinality(A1 \cap A2)
  BY <1>2, <1>3, FS_Union
<1>6. Cardinality(A1 \cap A2) \in Nat
  <2>1. IsFiniteSet(A1 \cap A2)
    BY <1>2, FS_Subset
  <2> QED
    BY <2>1, FS_CardinalityType
<1>7. /\ Cardinality(A1) \in Nat /\ Cardinality(A2) \in Nat
      /\ Cardinality(E1) \in Nat /\ Cardinality(E2) \in Nat
      /\ Cardinality(Engines) \in Nat
  BY <1>1, <1>2, <1>3, FS_CardinalityType
<1> QED
  BY <1>1, <1>2, <1>3, <1>4, <1>5, <1>6, <1>7

\* So the clock always has another one (ClockAssumption).
LEMMA FreshStampExists ==
  ASSUME NEW s
  PROVE  FreshStamps(s) # {}
<1> SUFFICES ASSUME FreshStamps(s) = {} PROVE FALSE
  OBVIOUS
<1>1. Stamps \in SUBSET Remembered(s)
  BY DEF FreshStamps
<1>2. IsFiniteSet(Stamps) /\ Cardinality(Stamps) <= Cardinality(Remembered(s))
  BY <1>1, RememberedIsSmall, FS_Subset
<1>3. /\ Cardinality(Stamps) \in Nat
      /\ Cardinality(Remembered(s)) \in Nat
      /\ Cardinality(Engines) \in Nat
  BY <1>2, RememberedIsSmall, ClockAssumption, FS_CardinalityType
<1> QED
  BY <1>2, <1>3, RememberedIsSmall, ClockAssumption

\* What a write stamps its row with is a stamp no engine remembers.
LEMMA NowIsStamp ==
  ASSUME NEW s
  PROVE  Now(s) \in Stamps
BY FreshStampExists DEF Now, FreshStamps

-----------------------------------------------------------------------------
(* The fence: a finite set of nonces has a greatest, so the lease that     *)
(* resync sets is a nonce.                                                 *)

\* The fence is a maximum, which a finite set of nonces has.
LEMMA FiniteSetHasMax ==
  ASSUME NEW S \in SUBSET Nat, IsFiniteSet(S), S # {}
  PROVE  \E n \in S : \A m \in S : m <= n
<1> DEFINE HasMax(U) == \E n \in U : \A m \in U : m <= n
           Bad == {U \in SUBSET S : U # {} /\ ~HasMax(U)}
<1> SUFFICES ASSUME Bad # {} PROVE FALSE
  OBVIOUS
<1>1. IsWellFoundedOn(StrictSubsetOrdering(S), SUBSET S)
  BY FS_StrictSubsetOrderingWellFounded, FS_FiniteSubsetsOfFinite
<1>2. PICK U \in Bad : \A V \in Bad : ~(<<V, U>> \in StrictSubsetOrdering(S))
  <2>1. Bad \subseteq SUBSET S
    OBVIOUS
  <2> HIDE DEF Bad
  <2> QED
    BY <1>1, <2>1, WFMin
<1>3. PICK u \in U : TRUE
  OBVIOUS
<1>4. U \ {u} \notin Bad
  BY <1>2, <1>3 DEF StrictSubsetOrdering
<1>5. CASE U \ {u} = {}
  <2>1. U = {u} /\ u \in Nat
    BY <1>3, <1>5
  <2>2. HasMax(U)
    BY <2>1
  <2> QED
    BY <2>2
<1>6. CASE U \ {u} # {}
  <2>1. PICK n \in U \ {u} : \A m \in U \ {u} : m <= n
    BY <1>4, <1>6
  <2>2. u \in Nat /\ n \in Nat /\ \A m \in U : m \in Nat
    BY <1>3, <2>1
  <2>3. CASE u <= n
    <3>1. HasMax(U)
      BY <2>1, <2>3, <1>3
    <3> QED
      BY <3>1
  <2>4. CASE ~(u <= n)
    <3>1. \A m \in U : m <= u
      BY <2>1, <2>2, <2>4
    <3>2. HasMax(U)
      BY <3>1, <1>3
    <3> QED
      BY <3>2
  <2> QED
    BY <2>3, <2>4
<1> QED
  BY <1>5, <1>6

\* resyncNonces: the floor lies above every live nonce.
LEMMA FloorIsAbove ==
  ASSUME NEW live \in SUBSET Nat, IsFiniteSet(live)
  PROVE  /\ Floor(live) \in Nat
         /\ \A n \in live : n < Floor(live)
<1>1. CASE live = {}
  BY <1>1 DEF Floor
<1>2. CASE live # {}
  <2>1. /\ Max0(live) \in live
        /\ \A n \in live : n <= Max0(live)
    BY <1>2, FiniteSetHasMax DEF Max0
  <2>2. Floor(live) = Max0(live) + 1
    BY <1>2 DEF Floor
  <2>3. Max0(live) \in Nat /\ \A n \in live : n \in Nat
    BY <2>1
  <2> QED
    BY <2>1, <2>2, <2>3
<1> QED
  BY <1>1, <1>2

\* liveNonces: rows that carry a nonce, so nonces and finitely many.
LEMMA LiveNoncesAreNonces ==
  ASSUME work \in [Engines -> [Subjects -> Row \cup {None}]],
         NEW e \in Engines, NEW young,
         \A s \in Subjects : work[e][s] # None => work[e][s].nonce # None
  PROVE  LiveNonces(e, young) \in SUBSET Nat /\ IsFiniteSet(LiveNonces(e, young))
<1> DEFINE S == {s \in Subjects :
                   work[e][s] # None /\ (s \in young \/ IsKnown(work[e][s].hash))}
           f == [s \in S |-> work[e][s].nonce]
<1>1. LiveNonces(e, young) \in SUBSET Nat
  BY DEF LiveNonces, Row
<1>2. IsFiniteSet(S)
  BY SubjectAssumption, FS_Subset
<1>3. f \in Surjection(S, LiveNonces(e, young))
  BY DEF Surjection, LiveNonces
<1> HIDE DEF S, f
<1> QED
  BY <1>1, <1>2, <1>3, FS_Surjection

-----------------------------------------------------------------------------
(* The store: every write leaves a row.                                    *)

\* transition writes a well-formed row.
LEMMA TransitionIsRow ==
  ASSUME NEW r \in Row, NEW to \in Statuses, NEW nonce \in Nat \cup {None},
         NEW hash \in TxIds \cup {None}, NEW expect, NEW now \in Stamps
  PROVE  Transition(r, to, nonce, hash, expect, now) \in Row
BY DEF Transition, Coalesce, Row

\* A well-formed row written in place of another leaves a store of rows.
LEMMA WrittenRows ==
  ASSUME row \in [Subjects -> Row], NEW s \in Subjects, NEW r \in Row,
         row' = [row EXCEPT ![s] = r]
  PROVE  row' \in [Subjects -> Row]
OBVIOUS

\* A restated transaction leaves a pool of transactions.
LEMMA RestatedTxs ==
  ASSUME tx \in [TxIds -> Tx], NEW t \in TxIds, NEW state \in TxStates,
         tx' = [tx EXCEPT ![t].state = state]
  PROVE  tx' \in [TxIds -> Tx]
<1>1. [tx[t] EXCEPT !.state = state] \in Tx
  BY DEF Tx
<1> QED
  BY <1>1

\* record writes a well-formed row.
LEMMA RecordedIsRow ==
  ASSUME NEW now \in Stamps
  PROVE  Recorded("pending", now) \in Row
BY DEF Recorded, Row, Statuses

(* A transaction that changes state is a transaction.                      *)
LEMMA RestateIsTx ==
  ASSUME NEW t \in TxIds, tx \in [TxIds -> Tx], NEW to \in TxStates
  PROVE  [tx[t] EXCEPT !.state = to] \in Tx
BY DEF Tx

-----------------------------------------------------------------------------
(* The lock: a newcomer waits behind its head.                             *)

\* Queueing for the lock does not take it from its holder.
LEMMA AppendKeepsHead ==
  ASSUME NEW q \in Seq(Engines), NEW e \in Engines
  PROVE  /\ Append(q, e) \in Seq(Engines)
         /\ Append(q, e) # <<>>
         /\ q # <<>> => Head(Append(q, e)) = Head(q)
BY AppendProperties, EmptySeq

\* The lock passes to an engine of the queue.
LEMMA TailIsSeq ==
  ASSUME NEW q \in Seq(Engines), q # <<>>
  PROVE  Tail(q) \in Seq(Engines)
BY HeadTailProperties

-----------------------------------------------------------------------------
(* One lemma per group of steps: each keeps the inductive invariant.       *)

\* A process that has not booted satisfies it.
LEMMA InvInit == Init => Inv
<1> SUFFICES ASSUME Init PROVE Inv
  OBVIOUS
<1>1. row \in [Subjects -> Row] /\ tx \in [TxIds -> Tx]
  BY DEF Init, Row, NoRow, Statuses, Tx, NoTx, TxStates
<1>2. halted \in BOOLEAN /\ up \in BOOLEAN /\ ~up
  BY DEF Init
<1>3. queue \in Seq(Engines) /\ faults \in 0..MaxFaults /\ mined \in Nat
  BY SizeAssumption DEF Init
<1>4. /\ pc \in [Engines -> Labels]
      /\ verdict \in [Engines -> {None, "confirmed", "failed", "submitted"}]
      /\ work \in [Engines -> [Subjects -> Row \cup {None}]]
  BY DEF Init, Labels
<1>5. TypeOK
  BY <1>1, <1>2, <1>3, <1>4 DEF Init, TypeOK
<1>6. LockInv /\ BootInv /\ PassInv /\ SendInv
  BY DEF Init, LockInv, InLock, BootInv, PassInv, SendInv
<1> QED
  BY <1>5, <1>6 DEF Inv

\* The work list of a pass holds rows.
LEMMA SnapshotKeeps ==
  ASSUME Inv, NEW e \in Engines, Snapshot(e)
  PROVE  Inv'
<1> USE DEF Inv, Snapshot, Goto, store, chain, alloc, send, ambient, pass
<1>1. work' \in [Engines -> [Subjects -> Row \cup {None}]]
  BY DEF TypeOK
<1>2. pc' \in [Engines -> Labels]
  BY DEF TypeOK, Labels
<1>3. TypeOK'
  BY <1>1, <1>2 DEF TypeOK
<1>4. LockInv'
  BY DEF TypeOK, LockInv, InLock, Holds
<1>5. BootInv'
  BY DEF TypeOK, BootInv
<1>6. PassInv'
  BY DEF TypeOK, PassInv
<1>7. SendInv'
  BY DEF TypeOK, SendInv
<1> QED
  BY <1>3, <1>4, <1>5, <1>6, <1>7

\* The counts a pass reads are numbers.
LEMMA ReadCountsKeeps ==
  ASSUME Inv, NEW e \in Engines, ReadCounts(e)
  PROVE  Inv'
<1> USE DEF Inv, ReadCounts, Goto, store, chain, alloc, send, ambient, pass
<1>1. latest' \in [Engines -> Nat]
  BY DEF TypeOK
<1>2. pend' \in [Engines -> Nat]
  BY SizeAssumption DEF TypeOK, PendingCounts
<1>3. pc' \in [Engines -> Labels]
  BY DEF TypeOK, Labels
<1>4. TypeOK'
  BY <1>1, <1>2, <1>3 DEF TypeOK
<1>5. LockInv'
  BY DEF TypeOK, LockInv, InLock, Holds
<1>6. BootInv'
  BY DEF TypeOK, BootInv
<1>7. PassInv'
  BY DEF TypeOK, PassInv
<1>8. SendInv'
  BY DEF TypeOK, SendInv
<1> QED
  BY <1>4, <1>5, <1>6, <1>7, <1>8

\* A row that is being sent leaves the work list unread.
LEMMA SkipSendingKeeps ==
  ASSUME Inv, NEW e \in Engines, NEW s \in Subjects, SkipSending(e, s)
  PROVE  Inv'
<1> USE DEF Inv, SkipSending, Forget, store, chain, alloc, send, ambient, pass
<1>1. work' \in [Engines -> [Subjects -> Row \cup {None}]]
  BY DEF TypeOK
<1>2. TypeOK'
  BY <1>1 DEF TypeOK
<1>3. LockInv'
  BY DEF TypeOK, LockInv, InLock, Holds
<1>4. BootInv'
  BY DEF TypeOK, BootInv
<1>5. PassInv'
  BY DEF TypeOK, PassInv
<1>6. SendInv'
  BY DEF TypeOK, SendInv
<1> QED
  BY <1>2, <1>3, <1>4, <1>5, <1>6

\* A verdict to write comes with its row at hand.
LEMMA JudgeKeeps ==
  ASSUME Inv, NEW e \in Engines, NEW s \in Subjects, NEW old \in BOOLEAN,
         Judge(e, s, old)
  PROVE  Inv'
<1> DEFINE v == Verdict(work[e][s], latest[e], pend[e], old)
<1> USE DEF Inv, Goto, Forget, store, chain, alloc, send, ambient
<1>1. v \in {"still", "probe", "confirmed", "failed", "submitted"}
  BY DEF Verdict, BroadcastVerdict, UnbroadcastVerdict
<1>2. /\ pc[e] = "judge" /\ work[e][s] # None
      /\ UNCHANGED <<store, chain, alloc, send, ambient, sending, latest, pend>>
  BY DEF Judge
<1>3. \/ /\ work' = [work EXCEPT ![e][s] = None]
         /\ UNCHANGED <<pc, cur, verdict>>
      \/ /\ pc' = [pc EXCEPT ![e] = "probe"]
         /\ cur' = [cur EXCEPT ![e] = s]
         /\ UNCHANGED <<work, verdict>>
      \/ /\ v \notin {"still", "probe"}
         /\ pc' = [pc EXCEPT ![e] = "write"]
         /\ cur' = [cur EXCEPT ![e] = s]
         /\ verdict' = [verdict EXCEPT ![e] = v]
         /\ UNCHANGED work
  BY DEF Judge
<1> HIDE DEF v
<1>4. CASE /\ work' = [work EXCEPT ![e][s] = None]
           /\ UNCHANGED <<pc, cur, verdict>>
  <2>1. TypeOK'
    BY <1>2, <1>4 DEF TypeOK
  <2>2. LockInv' /\ BootInv' /\ SendInv'
    BY <1>2, <1>4 DEF LockInv, InLock, Holds, BootInv, SendInv
  <2>3. PassInv'
    BY <1>2, <1>4 DEF TypeOK, PassInv
  <2> QED
    BY <2>1, <2>2, <2>3
<1>5. CASE /\ pc' = [pc EXCEPT ![e] = "probe"]
           /\ cur' = [cur EXCEPT ![e] = s]
           /\ UNCHANGED <<work, verdict>>
  <2>1. TypeOK'
    BY <1>2, <1>5 DEF TypeOK, Labels
  <2>2. LockInv' /\ BootInv'
    BY <1>2, <1>5 DEF TypeOK, LockInv, InLock, Holds, BootInv
  <2>3. PassInv' /\ SendInv'
    BY <1>2, <1>5, SubjectAssumption DEF TypeOK, PassInv, SendInv
  <2> QED
    BY <2>1, <2>2, <2>3
<1>6. CASE /\ v \notin {"still", "probe"}
           /\ pc' = [pc EXCEPT ![e] = "write"]
           /\ cur' = [cur EXCEPT ![e] = s]
           /\ verdict' = [verdict EXCEPT ![e] = v]
           /\ UNCHANGED work
  <2>1. TypeOK'
    BY <1>1, <1>2, <1>6 DEF TypeOK, Labels
  <2>2. LockInv' /\ BootInv'
    BY <1>2, <1>6 DEF TypeOK, LockInv, InLock, Holds, BootInv
  <2>3. PassInv' /\ SendInv'
    BY <1>1, <1>2, <1>6, SubjectAssumption DEF TypeOK, PassInv, SendInv
  <2> QED
    BY <2>1, <2>2, <2>3
<1> QED
  BY <1>3, <1>4, <1>5, <1>6

\* The probe drops its row or has a verdict to write.
LEMMA ProbeKeeps ==
  ASSUME Inv, NEW e \in Engines, Probe(e)
  PROVE  Inv'
<1> USE DEF Inv, Goto, Forget, store, chain, alloc, send, ambient
<1>1. /\ pc[e] = "probe" /\ cur[e] \in Subjects /\ work[e][cur[e]] # None
      /\ UNCHANGED <<store, chain, alloc, send, ambient, sending, latest, pend>>
  BY DEF Probe, TypeOK, PassInv
<1>2. CASE IsKnown(work[e][cur[e]].hash)
  <2>1. /\ work' = [work EXCEPT ![e][cur[e]] = None]
        /\ cur' = [cur EXCEPT ![e] = None]
        /\ pc' = [pc EXCEPT ![e] = "judge"]
        /\ UNCHANGED verdict
    BY <1>2 DEF Probe
  <2>2. TypeOK'
    BY <1>1, <2>1 DEF TypeOK, Labels
  <2>3. LockInv' /\ BootInv' /\ SendInv'
    BY <1>1, <2>1 DEF TypeOK, LockInv, InLock, Holds, BootInv, SendInv
  <2>4. PassInv'
    BY <1>1, <2>1 DEF TypeOK, PassInv
  <2> QED
    BY <2>2, <2>3, <2>4
<1>3. CASE ~IsKnown(work[e][cur[e]].hash)
  <2>1. /\ verdict' = [verdict EXCEPT ![e] = "failed"]
        /\ pc' = [pc EXCEPT ![e] = "write"]
        /\ UNCHANGED <<work, cur>>
    BY <1>3 DEF Probe
  <2>2. TypeOK'
    BY <1>1, <2>1 DEF TypeOK, Labels
  <2>3. LockInv' /\ BootInv' /\ SendInv'
    BY <1>1, <2>1 DEF TypeOK, LockInv, InLock, Holds, BootInv, SendInv
  <2>4. PassInv'
    BY <1>1, <2>1 DEF TypeOK, PassInv
  <2> QED
    BY <2>2, <2>3, <2>4
<1> QED
  BY <1>2, <1>3

\* The verdict written is a status of the store.
LEMMA WriteVerdictKeeps ==
  ASSUME Inv, NEW e \in Engines, WriteVerdict(e)
  PROVE  Inv'
<1> USE DEF Inv, WriteVerdict, Write, Forget, Goto, store, chain, alloc, send, ambient, pass
<1>1. cur[e] \in Subjects /\ work[e][cur[e]] \in Row 
      /\ verdict[e] \in {"confirmed", "failed", "submitted"}
  BY DEF TypeOK, PassInv
<1>2. Transition(row[cur[e]], verdict[e], None, work[e][cur[e]].hash,
                AsRead(work[e][cur[e]]), Now(cur[e])) \in Row
  <2>1. row[cur[e]] \in Row /\ Now(cur[e]) \in Stamps
    BY <1>1, NowIsStamp DEF TypeOK
  <2>2. work[e][cur[e]].hash \in TxIds \cup {None} /\ verdict[e] \in Statuses
    BY <1>1 DEF Row, Statuses
  <2> QED
    BY ONLY <2>1, <2>2, TransitionIsRow
<1>3. row' \in [Subjects -> Row]
  <2>1. row' = [row EXCEPT ![cur[e]] =
                  Transition(row[cur[e]], verdict[e], None, work[e][cur[e]].hash,
                             AsRead(work[e][cur[e]]), Now(cur[e]))]
    OBVIOUS
  <2>2. row \in [Subjects -> Row]
    BY DEF TypeOK
  <2> QED
    BY ONLY <1>1, <1>2, <2>1, <2>2, WrittenRows
<1>4. work' \in [Engines -> [Subjects -> Row \cup {None}]]
  BY DEF TypeOK
<1>5. pc' \in [Engines -> Labels]
  BY DEF TypeOK, Labels
<1>6. cur' \in [Engines -> Subjects \cup {None}]
  BY DEF TypeOK
<1>7. verdict' \in [Engines -> {None, "confirmed", "failed", "submitted"}]
  BY DEF TypeOK
<1>8. TypeOK'
  BY <1>3, <1>4, <1>5, <1>6, <1>7 DEF TypeOK
<1>9. LockInv'
  BY DEF TypeOK, LockInv, InLock, Holds
<1>10. BootInv'
  BY DEF TypeOK, BootInv
<1>11. PassInv'
  BY DEF TypeOK, PassInv
<1>12. SendInv'
  BY DEF TypeOK, SendInv
<1> QED
  BY <1>8, <1>9, <1>10, <1>11, <1>12

\* The end of a pass queues for the lock, without holding it.
LEMMA EndPassKeeps ==
  ASSUME Inv, NEW e \in Engines, EndPass(e)
  PROVE  Inv'
<1> USE DEF Inv, EndPass, Enqueue, Goto, store, chain, alloc, send, ambient, pass
<1>1. latest' \in [Engines -> Nat]
  BY DEF TypeOK
<1>2. pend' \in [Engines -> Nat]
  BY DEF TypeOK
<1>3. queue' \in Seq(Engines)
  BY AppendKeepsHead DEF TypeOK
<1>4. pc' \in [Engines -> Labels]
  BY DEF TypeOK, Labels
<1>5. TypeOK'
  BY <1>1, <1>2, <1>3, <1>4 DEF TypeOK
<1>6. LockInv'
  BY AppendKeepsHead DEF TypeOK, LockInv, InLock, Holds
<1>7. BootInv'
  BY DEF TypeOK, BootInv
<1>8. PassInv'
  BY DEF TypeOK, PassInv
<1>9. SendInv'
  BY DEF TypeOK, SendInv
<1> QED
  BY <1>5, <1>6, <1>7, <1>8, <1>9

\* The count is read inside the lock.
LEMMA ReadPendingKeeps ==
  ASSUME Inv, NEW e \in Engines, ReadPending(e)
  PROVE  Inv'
<1> USE DEF Inv, ReadPending, Goto, store, chain, alloc, send, ambient, pass
<1>1. pend' \in [Engines -> Nat]
  BY SizeAssumption DEF TypeOK, PendingCounts
<1>2. pc' \in [Engines -> Labels]
  BY DEF TypeOK, Labels
<1>3. TypeOK'
  BY <1>1, <1>2 DEF TypeOK
<1>4. LockInv'
  BY DEF TypeOK, LockInv, InLock, Holds
<1>5. BootInv'
  BY DEF TypeOK, BootInv
<1>6. PassInv'
  BY DEF TypeOK, PassInv
<1>7. SendInv'
  BY DEF TypeOK, SendInv
<1> QED
  BY <1>3, <1>4, <1>5, <1>6, <1>7

\* The rows kept for the fence carry a nonce.
LEMMA ReadSignedKeeps ==
  ASSUME Inv, NEW e \in Engines, ReadSigned(e)
  PROVE  Inv'
<1> USE DEF Inv, ReadSigned, Goto, Signed, store, chain, alloc, send, ambient, pass
<1>1. work' \in [Engines -> [Subjects -> Row \cup {None}]]
  BY DEF TypeOK
<1>2. pc' \in [Engines -> Labels]
  BY DEF TypeOK, Labels
<1>3. TypeOK'
  BY <1>1, <1>2 DEF TypeOK
<1>4. LockInv'
  BY DEF TypeOK, LockInv, InLock, Holds
<1>5. BootInv'
  BY DEF TypeOK, BootInv
<1>6. PassInv'
  BY DEF TypeOK, PassInv
<1>7. SendInv'
  BY DEF TypeOK, SendInv
<1> QED
  BY <1>3, <1>4, <1>5, <1>6, <1>7

\* The lease is seeded with a number, and only then the loops run.
LEMMA SeedKeeps ==
  ASSUME Inv, NEW e \in Engines, NEW young, Seed(e, young)
  PROVE  Inv'
<1> USE DEF Inv, Seed, Goto, Unlock, store, chain, alloc, send, ambient, pass
<1>1. queue # <<>> /\ Head(queue) = e
  BY DEF LockInv, InLock, Holds
<1>2. LiveNonces(e, young) \in SUBSET Nat /\ IsFiniteSet(LiveNonces(e, young))
  BY LiveNoncesAreNonces DEF TypeOK, PassInv
<1>3. /\ NextNonce(pend[e], LiveNonces(e, young)) \in Nat
      /\ Reclaimable(pend[e], LiveNonces(e, young)) \in Nat \cup {None}
  BY <1>2, FloorIsAbove DEF TypeOK, NextNonce, Reclaimable
<1>4. lease' \in Nat \cup {None} /\ (up' => lease' # None)
  BY <1>2, <1>3, NoneAssumption DEF TypeOK
<1>5. hole' \in Nat \cup {None}
  BY <1>2, <1>3 DEF TypeOK
<1>6. queue' \in Seq(Engines)
  BY <1>1, TailIsSeq DEF TypeOK
<1>7. work' \in [Engines -> [Subjects -> Row \cup {None}]]
  BY DEF TypeOK
<1>8. pend' \in [Engines -> Nat]
  BY DEF TypeOK
<1>9. pc' \in [Engines -> Labels]
  BY DEF TypeOK, Labels
<1>10. up' \in BOOLEAN
  BY DEF TypeOK
<1>11. TypeOK'
  BY <1>4, <1>5, <1>6, <1>7, <1>8, <1>9, <1>10 DEF TypeOK
<1>12. LockInv'
  BY <1>1 DEF TypeOK, LockInv, InLock, Holds
<1>13. BootInv'
  BY DEF TypeOK, BootInv
<1>14. PassInv'
  BY DEF TypeOK, PassInv
<1>15. SendInv'
  BY DEF TypeOK, SendInv
<1> QED
  BY <1>11, <1>12, <1>13, <1>14, <1>15

\* A claim has its row at hand.
LEMMA ClaimKeeps ==
  ASSUME Inv, NEW e \in Engines, NEW s \in Subjects, Claim(e, s)
  PROVE  Inv'
<1> USE DEF Inv, Goto, store, chain, alloc, pass
<1>1. Now(s) \in Stamps /\ Recorded("pending", Now(s)) \in Row
  BY NowIsStamp, RecordedIsRow
<1>2. /\ pc[e] \in {"drive", "halted"}
      /\ row' = [row EXCEPT ![s] = Recorded("pending", Now(s))]
      /\ faults' = faults \/ (faults < MaxFaults /\ faults' = faults + 1)
      /\ UNCHANGED <<chain, alloc, pass, halted, up, sending, mytx>>
  BY DEF Claim, MayClaim, Write, Fault
<1>3. \E label \in {"claimed", "drive", "halted", "idle"} :
         /\ pc' = [pc EXCEPT ![e] = label]
         /\ \/ /\ cur' = [cur EXCEPT ![e] = s]
               /\ attempt' = [attempt EXCEPT ![e] = Now(s)]
            \/ label # "claimed" /\ UNCHANGED <<cur, attempt>>
  BY DEF Claim, GiveUp, EndCycle
<1>4. sent' = sent \/ sent' = [sent EXCEPT ![e] = {}]
  BY DEF Claim, GiveUp, EndCycle
<1>5. row' \in [Subjects -> Row]
  BY <1>1, <1>2, WrittenRows DEF TypeOK
<1>6. faults' \in 0..MaxFaults
  BY <1>2, SizeAssumption DEF TypeOK
<1>7. pc' \in [Engines -> Labels]
  <2>1. \E label \in Labels : pc' = [pc EXCEPT ![e] = label]
    BY <1>3 DEF Labels
  <2>2. pc \in [Engines -> Labels]
    BY DEF TypeOK
  <2> QED
    BY ONLY <2>1, <2>2
<1>8. cur' \in [Engines -> Subjects \cup {None}]
  <2>1. cur' = cur \/ cur' = [cur EXCEPT ![e] = s]
    BY <1>3
  <2>2. cur \in [Engines -> Subjects \cup {None}]
    BY DEF TypeOK
  <2> QED
    BY ONLY <2>1, <2>2
<1>9. attempt' \in [Engines -> Stamps \cup {None}]
  BY <1>1, <1>3 DEF TypeOK
<1>10. sent' \in [Engines -> SUBSET TxIds]
  BY <1>4 DEF TypeOK
<1>11. TypeOK'
  BY <1>2, <1>5, <1>6, <1>7, <1>8, <1>9, <1>10 DEF TypeOK
<1>12. LockInv'
  BY <1>2, <1>3 DEF TypeOK, LockInv, InLock, Holds
<1>13. BootInv'
  BY <1>2, <1>3 DEF TypeOK, BootInv
<1>14. PassInv'
  BY <1>2, <1>3 DEF TypeOK, PassInv
<1>15. SendInv'
  BY <1>2, <1>3, SubjectAssumption DEF TypeOK, SendInv
<1> QED
  BY <1>11, <1>12, <1>13, <1>14, <1>15

\* A send waits for the lock or has failed before it.
LEMMA BeginSendKeeps ==
  ASSUME Inv, NEW e \in Engines, BeginSend(e)
  PROVE  Inv'
<1> USE DEF Inv, Goto, Enqueue, store, chain, alloc, send, ambient, pass
<1>1. /\ pc[e] = "claimed" /\ cur[e] \in Subjects
      /\ sending' = sending \cup {cur[e]}
      /\ UNCHANGED <<store, chain, pass, send, ambient, cur, lease, hole>>
  BY DEF BeginSend, TypeOK, SendInv
<1>2. \/ pc' = [pc EXCEPT ![e] = "catch"] /\ UNCHANGED queue
      \/ pc' = [pc EXCEPT ![e] = "sign"] /\ queue' = Append(queue, e)
  BY DEF BeginSend
<1>3. queue' \in Seq(Engines)
  BY <1>2, AppendKeepsHead DEF TypeOK
<1>4. pc' \in [Engines -> Labels] /\ sending' \subseteq Subjects
  BY <1>1, <1>2 DEF TypeOK, Labels
<1>5. TypeOK'
  BY <1>1, <1>3, <1>4 DEF TypeOK
<1>6. LockInv'
  BY <1>1, <1>2, AppendKeepsHead DEF TypeOK, LockInv, InLock, Holds
<1>7. BootInv' /\ PassInv'
  BY <1>1, <1>2 DEF TypeOK, BootInv, PassInv
<1>8. SendInv'
  BY <1>1, <1>2 DEF TypeOK, SendInv
<1> QED
  BY <1>5, <1>6, <1>7, <1>8

\* The nonce comes from the hole or from a seeded lease.
LEMMA SignKeeps ==
  ASSUME Inv, NEW e \in Engines, Sign(e)
  PROVE  Inv'
<1> USE DEF Inv, Goto, store, chain, alloc, pass
<1>1. /\ pc[e] = "sign" /\ queue # <<>> /\ Head(queue) = e
      /\ lease # None /\ cur[e] # None
  BY DEF Sign, TypeOK, BootInv, SendInv, Holds
<1>2. /\ UNCHANGED <<store, mined, pass, halted, up, sending, cur, attempt, sent>>
      /\ hole' = None
      /\ lease' = lease \/ lease' = lease + 1
      /\ faults' = faults \/ (faults < MaxFaults /\ faults' = faults + 1)
  BY DEF Sign, Fault
<1>3. \/ \E t \in TxIds, nonce \in Nat :
            /\ tx' = [tx EXCEPT ![t] = [subject |-> cur[e], nonce |-> nonce,
                                        state |-> "signed"]]
            /\ mytx' = [mytx EXCEPT ![e] = t]
            /\ pc' = [pc EXCEPT ![e] = "mark"]
            /\ UNCHANGED queue
      \/ /\ pc' = [pc EXCEPT ![e] = "catch"]
         /\ queue' = Tail(queue)
         /\ UNCHANGED <<tx, mytx>>
  BY <1>1 DEF Sign, TypeOK, NextTxId, Unlock
<1> DEFINE Goal == /\ tx' \in [TxIds -> Tx]
                   /\ mytx' \in [Engines -> TxIds \cup {None}]
                   /\ pc' \in [Engines -> Labels] /\ queue' \in Seq(Engines)
                   /\ LockInv' /\ BootInv' /\ PassInv' /\ SendInv'
<1>4. ASSUME \E t \in TxIds, nonce \in Nat :
                /\ tx' = [tx EXCEPT ![t] = [subject |-> cur[e], nonce |-> nonce,
                                            state |-> "signed"]]
                /\ mytx' = [mytx EXCEPT ![e] = t]
                /\ pc' = [pc EXCEPT ![e] = "mark"]
                /\ UNCHANGED queue
      PROVE  Goal
  <2>1. PICK t \in TxIds, nonce \in Nat :
              /\ tx' = [tx EXCEPT ![t] = [subject |-> cur[e], nonce |-> nonce,
                                          state |-> "signed"]]
              /\ mytx' = [mytx EXCEPT ![e] = t]
              /\ pc' = [pc EXCEPT ![e] = "mark"]
              /\ UNCHANGED queue
    BY <1>4
  <2>2. [subject |-> cur[e], nonce |-> nonce, state |-> "signed"] \in Tx
    BY DEF TypeOK, Tx, TxStates
  <2>3. tx' \in [TxIds -> Tx] /\ mytx' \in [Engines -> TxIds \cup {None}]
    BY <2>1, <2>2 DEF TypeOK
  <2>4. pc' \in [Engines -> Labels] /\ queue' \in Seq(Engines)
    BY <2>1 DEF TypeOK, Labels
  <2>5. LockInv' /\ BootInv' /\ PassInv'
    BY <1>1, <1>2, <2>1 DEF TypeOK, LockInv, InLock, Holds, BootInv, PassInv
  <2>6. SendInv'
    BY <1>1, <1>2, <2>1, NoneAssumption DEF TypeOK, SendInv
  <2> QED
    BY <2>3, <2>4, <2>5, <2>6
<1>5. ASSUME pc' = [pc EXCEPT ![e] = "catch"],
             queue' = Tail(queue),
             UNCHANGED <<tx, mytx>>
      PROVE  Goal
  <2>1. tx' \in [TxIds -> Tx] /\ mytx' \in [Engines -> TxIds \cup {None}]
    BY <1>5 DEF TypeOK
  <2>2. pc' \in [Engines -> Labels] /\ queue' \in Seq(Engines)
    BY <1>1, <1>5, TailIsSeq DEF TypeOK, Labels
  <2>3. LockInv'
    BY <1>1, <1>2, <1>5 DEF TypeOK, LockInv, InLock, Holds
  <2>4. BootInv' /\ PassInv' /\ SendInv'
    BY <1>1, <1>2, <1>5 DEF TypeOK, BootInv, PassInv, SendInv
  <2> QED
    BY <2>1, <2>2, <2>3, <2>4
<1>6. /\ lease' \in Nat \cup {None} /\ hole' \in Nat \cup {None}
      /\ up' => lease' # None
  BY <1>1, <1>2, NoneAssumption DEF TypeOK
<1>7. faults' \in 0..MaxFaults
  BY <1>2, SizeAssumption DEF TypeOK
<1>8. Goal
  BY <1>3, <1>4, <1>5
<1>9. TypeOK'
  BY <1>2, <1>6, <1>7, <1>8 DEF TypeOK
<1> QED
  BY <1>8, <1>9

\* The pre-broadcast record is made inside the lock.
LEMMA MarkKeeps ==
  ASSUME Inv, NEW e \in Engines, Mark(e)
  PROVE  Inv'
<1> DEFINE new == Transition(row[cur[e]], "pending", tx[mytx[e]].nonce, mytx[e],
                             AtStamp(attempt[e]), Now(cur[e]))
<1> USE DEF Inv, Goto, store, chain, alloc, pass
<1>1. /\ pc[e] = "mark" /\ queue # <<>> /\ Head(queue) = e
      /\ cur[e] \in Subjects /\ mytx[e] \in TxIds
  BY DEF Mark, TypeOK, SendInv, LockInv, InLock, Holds
<1>2. new \in Row
  BY <1>1, NowIsStamp, TransitionIsRow DEF TypeOK, Statuses, Tx
<1>3. \/ row' = row
      \/ \E r \in {row[cur[e]], new} : row' = [row EXCEPT ![cur[e]] = r]
  BY DEF Mark, Write
<1>4. /\ UNCHANGED <<mined, pass, halted, up, sending, cur, sent, lease, hole>>
      /\ faults' = faults \/ (faults < MaxFaults /\ faults' = faults + 1)
      /\ attempt' = attempt \/ attempt' = [attempt EXCEPT ![e] = None]
  BY DEF Mark, Fault
<1>5. \/ /\ pc' = [pc EXCEPT ![e] = "guard"]
         /\ UNCHANGED <<tx, queue, mytx>>
      \/ /\ pc' = [pc EXCEPT ![e] = "catch"]
         /\ tx' = [tx EXCEPT ![mytx[e]].state = "dead"]
         /\ queue' = Tail(queue)
         /\ mytx' = [mytx EXCEPT ![e] = None]
  BY DEF Mark, Abandon, SetTx, Unlock
<1> HIDE DEF new
<1>6. tx' \in [TxIds -> Tx] /\ queue' \in Seq(Engines)
  <2>1. [tx[mytx[e]] EXCEPT !.state = "dead"] \in Tx
    BY <1>1, RestateIsTx DEF TypeOK, TxStates
  <2>2. Tail(queue) \in Seq(Engines)
    BY <1>1, TailIsSeq DEF TypeOK
  <2>3. tx \in [TxIds -> Tx] /\ queue \in Seq(Engines)
    BY DEF TypeOK
  <2>4. tx' = tx \/ tx' = [tx EXCEPT ![mytx[e]] = [@ EXCEPT !.state = "dead"]]
    BY ONLY <1>5
  <2>5. tx' \in [TxIds -> Tx]
    BY ONLY <2>1, <2>3, <2>4
  <2>6. queue' = queue \/ queue' = Tail(queue)
    BY ONLY <1>5
  <2> QED
    BY ONLY <2>2, <2>3, <2>5, <2>6
<1>7. row' \in [Subjects -> Row] /\ attempt' \in [Engines -> Stamps \cup {None}]
  <2>1. row' \in [Subjects -> Row]
    BY <1>1, <1>2, <1>3 DEF TypeOK
  <2>2. attempt' \in [Engines -> Stamps \cup {None}]
    BY <1>4 DEF TypeOK
  <2> QED
    BY <2>1, <2>2
<1>8. faults' \in 0..MaxFaults
  BY <1>4, SizeAssumption DEF TypeOK
<1>9. pc' \in [Engines -> Labels] /\ mytx' \in [Engines -> TxIds \cup {None}]
  BY <1>5 DEF TypeOK, Labels
<1>10. TypeOK'
  BY <1>4, <1>6, <1>7, <1>8, <1>9 DEF TypeOK
<1>11. LockInv'
  BY <1>1, <1>5 DEF TypeOK, LockInv, InLock, Holds
<1>12. BootInv' /\ PassInv'
  BY <1>1, <1>4, <1>5 DEF TypeOK, BootInv, PassInv
<1>13. SendInv'
  BY <1>1, <1>4, <1>5 DEF TypeOK, SendInv
<1> QED
  BY <1>10, <1>11, <1>12, <1>13

\* The broadcast is made inside the lock.
LEMMA SubmitKeeps ==
  ASSUME Inv, NEW e \in Engines, Submit(e)
  PROVE  Inv'
<1> USE DEF Inv, Goto, store, chain, alloc, send, ambient, pass
<1>1. /\ pc[e] = "guard" /\ queue # <<>> /\ Head(queue) = e
      /\ mytx[e] \in TxIds /\ cur[e] # None
      /\ UNCHANGED <<store, mined, pass, send, ambient, sending, cur, lease, hole>>
  BY DEF Submit, TypeOK, SendInv, LockInv, InLock, Holds
<1>2. \/ /\ tx' = [tx EXCEPT ![mytx[e]].state = "dead"]
         /\ queue' = Tail(queue)
         /\ pc' = [pc EXCEPT ![e] = "catch"]
      \/ /\ tx' = [tx EXCEPT ![mytx[e]].state = "limbo"]
         /\ queue' = queue
         /\ pc' = [pc EXCEPT ![e] = "wire"]
  BY DEF Submit, Abandon, SetTx, Unlock
<1>3. tx' \in [TxIds -> Tx]
  <2>1. tx \in [TxIds -> Tx] /\ "dead" \in TxStates /\ "limbo" \in TxStates
    BY DEF TypeOK, TxStates
  <2> QED
    BY ONLY <1>1, <1>2, <2>1, RestatedTxs
<1>4. queue' \in Seq(Engines)
  BY <1>1, <1>2, TailIsSeq DEF TypeOK
<1>5. pc' \in [Engines -> Labels]
  BY <1>2 DEF TypeOK, Labels
<1>6. TypeOK'
  BY <1>1, <1>3, <1>4, <1>5 DEF TypeOK
<1>7. LockInv'
  BY <1>1, <1>2 DEF TypeOK, LockInv, InLock, Holds
<1>8. BootInv' /\ PassInv'
  <2>1. BootInv'
    BY <1>1, <1>2 DEF TypeOK, BootInv
  <2>2. PassInv'
    BY <1>1, <1>2 DEF TypeOK, PassInv
  <2> QED
    BY <2>1, <2>2
<1>9. SendInv'
  BY <1>1, <1>2 DEF TypeOK, SendInv
<1> QED
  BY <1>6, <1>7, <1>8, <1>9

\* The lock is released once, by its holder.
LEMMA ReturnKeeps ==
  ASSUME Inv, NEW e \in Engines, Return(e)
  PROVE  Inv'
<1> USE DEF Inv, Goto, store, chain, alloc, send, ambient, pass
<1>1. /\ pc[e] = "wire" /\ queue # <<>> /\ Head(queue) = e
      /\ mytx[e] \in TxIds /\ cur[e] # None
      /\ queue' = Tail(queue)
      /\ UNCHANGED <<store, mined, pass, send, ambient, cur, lease, hole>>
  BY DEF Return, Unlock, TypeOK, SendInv, LockInv, InLock, Holds
<1>2. \/ pc' = [pc EXCEPT ![e] = "post"] /\ UNCHANGED tx
      \/ pc' = [pc EXCEPT ![e] = "catch"] /\ UNCHANGED tx
      \/ /\ pc' = [pc EXCEPT ![e] = "catch"]
         /\ tx' = [tx EXCEPT ![mytx[e]].state = "dead"]
  BY DEF Return, SetTx
<1>3. sending' = sending \/ sending' = sending \ {cur[e]}
  BY DEF Return, EndSend
<1>4. tx' \in [TxIds -> Tx]
  <2>1. tx \in [TxIds -> Tx] /\ "dead" \in TxStates
    BY DEF TypeOK, TxStates
  <2> QED
    BY <1>1, <1>2, <2>1, RestatedTxs
<1>5. queue' \in Seq(Engines)
  BY <1>1, TailIsSeq DEF TypeOK
<1>6. pc' \in [Engines -> Labels] /\ sending' \subseteq Subjects
  BY <1>2, <1>3 DEF TypeOK, Labels
<1>7. TypeOK'
  BY <1>1, <1>4, <1>5, <1>6 DEF TypeOK
<1>8. LockInv'
  BY <1>1, <1>2 DEF TypeOK, LockInv, InLock, Holds
<1>9. BootInv' /\ PassInv'
  BY <1>1, <1>2 DEF TypeOK, BootInv, PassInv
<1>10. SendInv'
  BY <1>1, <1>2 DEF TypeOK, SendInv
<1> QED
  BY <1>7, <1>8, <1>9, <1>10

\* The record after the broadcast has its transaction at hand.
LEMMA PostKeeps ==
  ASSUME Inv, NEW e \in Engines, Post(e)
  PROVE  Inv'
<1> USE DEF Inv, Goto, store, chain, alloc, pass, send
<1>1. pc[e] = "post" /\ cur[e] \in Subjects /\ mytx[e] \in TxIds
  BY DEF Post, TypeOK, SendInv
<1>2. \A expect : Transition(row[cur[e]], "submitted", None, mytx[e],
                             expect, Now(cur[e])) \in Row
  BY <1>1, NowIsStamp, TransitionIsRow DEF TypeOK, Statuses
<1>3. \E new \in Row : row' = row \/ row' = [row EXCEPT ![cur[e]] = new]
  BY <1>2 DEF Post, WriteOrLose, Write
<1>4. /\ UNCHANGED <<chain, alloc, pass, halted, up>>
      /\ faults' = faults \/ (faults < MaxFaults /\ faults' = faults + 1)
  BY DEF Post, WriteOrLose, Fault
<1>5. \/ /\ sending' = sending \ {cur[e]}
         /\ sent' = [sent EXCEPT ![e] = @ \cup {mytx[e]}]
         /\ cur' = [cur EXCEPT ![e] = None]
         /\ attempt' = [attempt EXCEPT ![e] = None]
         /\ mytx' = [mytx EXCEPT ![e] = None]
         /\ pc' = [pc EXCEPT ![e] = "drive"]
      \/ /\ pc' = [pc EXCEPT ![e] = "approved"]
         /\ UNCHANGED <<sending, send, cur>>
  BY DEF Post, EndSend, DropSend
<1>6. row' \in [Subjects -> Row]
  BY <1>3 DEF TypeOK
<1>7. faults' \in 0..MaxFaults
  BY <1>4, SizeAssumption DEF TypeOK
<1>8. /\ pc' \in [Engines -> Labels] /\ sending' \subseteq Subjects
      /\ cur' \in [Engines -> Subjects \cup {None}]
      /\ attempt' \in [Engines -> Stamps \cup {None}]
      /\ mytx' \in [Engines -> TxIds \cup {None}]
  BY <1>5 DEF TypeOK, Labels
<1>9. sent' \in [Engines -> SUBSET TxIds]
  <2>1. sent[e] \cup {mytx[e]} \in SUBSET TxIds
    BY <1>1 DEF TypeOK
  <2>2. sent \in [Engines -> SUBSET TxIds]
    BY DEF TypeOK
  <2>3. sent' = sent \/ sent' = [sent EXCEPT ![e] = sent[e] \cup {mytx[e]}]
    BY <1>5
  <2> QED
    BY ONLY <2>1, <2>2, <2>3
<1>10. TypeOK'
  BY <1>4, <1>6, <1>7, <1>8, <1>9 DEF TypeOK
<1>11. LockInv'
  BY <1>1, <1>4, <1>5 DEF TypeOK, LockInv, InLock, Holds
<1>12. BootInv' /\ PassInv'
  BY <1>1, <1>4, <1>5 DEF TypeOK, BootInv, PassInv
<1>13. SendInv'
  BY <1>1, <1>5 DEF TypeOK, SendInv
<1> QED
  BY <1>10, <1>11, <1>12, <1>13

\* A failed send puts everything down.
LEMMA CatchKeeps ==
  ASSUME Inv, NEW e \in Engines, Catch(e)
  PROVE  Inv'
<1> USE DEF Inv, Catch, WriteOrLose, Write, Fault, DropSend, StopSending, EndCycle, GiveUp, Goto, EndSend, store, chain, alloc, send, ambient, pass
<1>1. cur[e] \in Subjects
  BY DEF TypeOK, SendInv
<1>2. \A expect : Transition(row[cur[e]], "submitted", None, None,
                             expect, Now(cur[e])) \in Row
  BY <1>1, NowIsStamp, TransitionIsRow DEF TypeOK, Statuses
<1>3. \E new \in Row : row' = row \/ row' = [row EXCEPT ![cur[e]] = new]
  BY <1>2
<1>4. row' \in [Subjects -> Row]
  <2>1. row \in [Subjects -> Row]
    BY DEF TypeOK
  <2>2. PICK new \in Row : row' = row \/ row' = [row EXCEPT ![cur[e]] = new]
    BY <1>3
  <2> HIDE DEF Catch, Inv
  <2> QED
    BY <2>1, <2>2
<1>5. sending' \subseteq Subjects
  BY DEF TypeOK
<1>6. sent' \in [Engines -> SUBSET TxIds]
  BY DEF TypeOK
<1>7. cur' \in [Engines -> Subjects \cup {None}]
  BY DEF TypeOK
<1>8. attempt' \in [Engines -> Stamps \cup {None}]
  BY DEF TypeOK
<1>9. mytx' \in [Engines -> TxIds \cup {None}]
  BY DEF TypeOK
<1>10. pc' \in [Engines -> Labels]
  BY DEF TypeOK, Labels
<1>11. faults' \in 0..MaxFaults
  BY SizeAssumption DEF TypeOK
<1>12. TypeOK'
  BY <1>4, <1>5, <1>6, <1>7, <1>8, <1>9, <1>10, <1>11 DEF TypeOK
<1>13. LockInv'
  BY DEF TypeOK, LockInv, InLock, Holds
<1>14. BootInv'
  BY DEF TypeOK, BootInv
<1>15. PassInv'
  BY DEF TypeOK, PassInv
<1>16. SendInv'
  BY DEF TypeOK, SendInv
<1> QED
  BY <1>12, <1>13, <1>14, <1>15, <1>16

\* The end of an approval puts everything down.
LEMMA ApprovalReceiptKeeps ==
  ASSUME Inv, NEW e \in Engines, ApprovalReceipt(e)
  PROVE  Inv'
<1> USE DEF Inv, ApprovalReceipt, WriteOrLose, Write, Fault, DropSend, EndCycle, GiveUp, Goto, EndSend, store, chain, alloc, send, ambient, pass
<1>1. cur[e] \in Subjects /\ mytx[e] \in TxIds
  BY DEF TypeOK, SendInv
<1>2. \A to \in {"confirmed", "failed"} :
        Transition(row[cur[e]], to, None, mytx[e],
                   AtHash(mytx[e]), Now(cur[e])) \in Row
  BY <1>1, NowIsStamp, TransitionIsRow DEF TypeOK, Statuses
<1>3. \E new \in Row : row' = row \/ row' = [row EXCEPT ![cur[e]] = new]
  BY <1>2
<1>4. row' \in [Subjects -> Row]
  <2>1. row \in [Subjects -> Row]
    BY DEF TypeOK
  <2>2. PICK new \in Row : row' = row \/ row' = [row EXCEPT ![cur[e]] = new]
    BY <1>3
  <2> HIDE DEF ApprovalReceipt, Inv
  <2> QED
    BY <2>1, <2>2
<1>5. sent' \in [Engines -> SUBSET TxIds]
  BY DEF TypeOK
<1>6. cur' \in [Engines -> Subjects \cup {None}]
  BY DEF TypeOK
<1>7. attempt' \in [Engines -> Stamps \cup {None}]
  BY DEF TypeOK
<1>8. mytx' \in [Engines -> TxIds \cup {None}]
  BY DEF TypeOK
<1>9. pc' \in [Engines -> Labels]
  BY DEF TypeOK, Labels
<1>10. faults' \in 0..MaxFaults
  BY SizeAssumption DEF TypeOK
<1>11. TypeOK'
  BY <1>4, <1>5, <1>6, <1>7, <1>8, <1>9, <1>10 DEF TypeOK
<1>12. LockInv'
  BY DEF TypeOK, LockInv, InLock, Holds
<1>13. BootInv'
  BY DEF TypeOK, BootInv
<1>14. PassInv'
  BY DEF TypeOK, PassInv
<1>15. SendInv'
  BY DEF TypeOK, SendInv
<1> QED
  BY <1>11, <1>12, <1>13, <1>14, <1>15

\* The end of the candidates touches the program counter only.
LEMMA EndDriveKeeps ==
  ASSUME Inv, NEW e \in Engines, EndDrive(e)
  PROVE  Inv'
<1> USE DEF Inv, EndDrive, StopSending, Goto, store, chain, alloc, send, ambient, pass
<1>1. pc' \in [Engines -> Labels]
  BY DEF TypeOK, Labels
<1>2. TypeOK'
  BY <1>1 DEF TypeOK
<1>3. LockInv'
  BY DEF TypeOK, LockInv, InLock, Holds
<1>4. BootInv'
  BY DEF TypeOK, BootInv
<1>5. PassInv'
  BY DEF TypeOK, PassInv
<1>6. SendInv'
  BY DEF TypeOK, SendInv
<1> QED
  BY <1>2, <1>3, <1>4, <1>5, <1>6

\* A receipt's outcome is a status of the store.
LEMMA OutcomeKeeps ==
  ASSUME Inv, NEW e \in Engines, NEW t \in TxIds, Outcome(e, t)
  PROVE  Inv'
<1> DEFINE s == tx[t].subject
<1> USE DEF Inv, Goto, store, chain, alloc, pass
<1>1. pc[e] = "receipts"
  BY DEF Outcome
<1>2. row' \in [Subjects -> Row]
  <2>1. CASE s \in Subjects
    <3>1. \A to \in {"confirmed", "failed"} :
             Transition(row[s], to, None, t, AtHash(t), Now(s)) \in Row
      BY <2>1, NowIsStamp, TransitionIsRow DEF TypeOK, Statuses
    <3>2. \E new \in Row : row' = row \/ row' = [row EXCEPT ![s] = new]
      BY <3>1, <2>1 DEF Outcome, WriteOrLose, Write, Classify, TypeOK
    <3> QED
      BY <3>2 DEF TypeOK
  <2>2. CASE s \notin Subjects
    <3>1. \E new : row' = row \/ row' = [row EXCEPT ![s] = new]
      BY DEF Outcome, WriteOrLose, Write
    <3> QED
      BY <2>2, <3>1 DEF TypeOK
  <2> QED
    BY <2>1, <2>2
<1> HIDE DEF s
<1>3. /\ UNCHANGED <<chain, alloc, pass, halted, up, sending, cur, attempt, mytx>>
      /\ faults' = faults \/ (faults < MaxFaults /\ faults' = faults + 1)
      /\ sent' = [sent EXCEPT ![e] = @ \ {t}]
      /\ \/ pc' = [pc EXCEPT ![e] = "idle"]
         \/ pc' = [pc EXCEPT ![e] = "receipts"]
  BY DEF Outcome, WriteOrLose, Fault
<1>4. faults' \in 0..MaxFaults
  BY <1>3, SizeAssumption DEF TypeOK
<1>5. sent' \in [Engines -> SUBSET TxIds]
  BY <1>3 DEF TypeOK
<1>6. pc' \in [Engines -> Labels]
  BY <1>3 DEF TypeOK, Labels
<1>7. TypeOK'
  BY <1>2, <1>3, <1>4, <1>5, <1>6 DEF TypeOK
<1>8. LockInv' /\ BootInv' /\ PassInv' /\ SendInv'
  BY <1>1, <1>3 DEF TypeOK, LockInv, InLock, Holds, BootInv, PassInv, SendInv
<1> QED
  BY <1>7, <1>8

\* A pass that throws forgets what it read.
LEMMA ThrowKeeps ==
  ASSUME Inv, NEW e \in Engines, Throw(e)
  PROVE  Inv'
<1> USE DEF Inv, Throw, Fault, Goto, Unlock, store, chain, alloc, send, ambient, pass
<1>1. queue' \in Seq(Engines)
  BY TailIsSeq DEF TypeOK, Holds
<1>2. pc' \in [Engines -> Labels]
  BY DEF TypeOK, Labels
<1>3. cur' \in [Engines -> Subjects \cup {None}]
  BY DEF TypeOK
<1>4. work' \in [Engines -> [Subjects -> Row \cup {None}]]
  BY DEF TypeOK
<1>5. latest' \in [Engines -> Nat]
  BY DEF TypeOK
<1>6. pend' \in [Engines -> Nat]
  BY DEF TypeOK
<1>7. verdict' \in [Engines -> {None, "confirmed", "failed", "submitted"}]
  BY DEF TypeOK
<1>8. faults' \in 0..MaxFaults
  BY SizeAssumption DEF TypeOK
<1>9. TypeOK'
  BY <1>1, <1>2, <1>3, <1>4, <1>5, <1>6, <1>7, <1>8 DEF TypeOK
<1>10. LockInv'
  BY DEF TypeOK, LockInv, InLock, Holds
<1>11. BootInv'
  BY DEF TypeOK, BootInv
<1>12. PassInv'
  BY DEF TypeOK, PassInv
<1>13. SendInv'
  BY DEF TypeOK, SendInv
<1> QED
  BY <1>9, <1>10, <1>11, <1>12, <1>13

\* A crash takes the lease with it, and the loops.
LEMMA CrashKeeps ==
  ASSUME Inv, Crash
  PROVE  Inv'
<1> USE DEF Inv, Crash, Fault, store, chain, alloc, send, ambient, pass
<1>1. tx' \in [TxIds -> Tx]
  BY RestateIsTx DEF TypeOK, TxStates
<1>2. halted' \in BOOLEAN
  BY DEF TypeOK
<1>3. up' \in BOOLEAN
  BY DEF TypeOK
<1>4. lease' \in Nat \cup {None} /\ (up' => lease' # None)
  BY DEF TypeOK
<1>5. hole' \in Nat \cup {None}
  BY DEF TypeOK
<1>6. queue' \in Seq(Engines)
  BY DEF TypeOK
<1>7. sending' \subseteq Subjects
  BY DEF TypeOK
<1>8. pc' \in [Engines -> Labels]
  BY DEF TypeOK, Labels
<1>9. cur' \in [Engines -> Subjects \cup {None}]
  BY DEF TypeOK
<1>10. attempt' \in [Engines -> Stamps \cup {None}]
  BY DEF TypeOK
<1>11. mytx' \in [Engines -> TxIds \cup {None}]
  BY DEF TypeOK
<1>12. work' \in [Engines -> [Subjects -> Row \cup {None}]]
  BY DEF TypeOK
<1>13. latest' \in [Engines -> Nat]
  BY DEF TypeOK
<1>14. pend' \in [Engines -> Nat]
  BY DEF TypeOK
<1>15. verdict' \in [Engines -> {None, "confirmed", "failed", "submitted"}]
  BY DEF TypeOK
<1>16. sent' \in [Engines -> SUBSET TxIds]
  BY DEF TypeOK
<1>17. faults' \in 0..MaxFaults
  BY SizeAssumption DEF TypeOK
<1>18. TypeOK'
  BY <1>1, <1>2, <1>3, <1>4, <1>5, <1>6, <1>7, <1>8, <1>9, <1>10, <1>11, <1>12, <1>13, <1>14, <1>15, <1>16, <1>17 DEF TypeOK
<1>19. LockInv'
  BY DEF TypeOK, LockInv, InLock, Holds
<1>20. BootInv'
  BY DEF TypeOK, BootInv
<1>21. PassInv'
  BY DEF TypeOK, PassInv
<1>22. SendInv'
  BY DEF TypeOK, SendInv
<1> QED
  BY <1>18, <1>19, <1>20, <1>21, <1>22

\* The boot resync comes before any loop.
LEMMA BootKeeps ==
  ASSUME Inv, NEW e \in Engines, Boot(e)
  PROVE  Inv'
<1> USE DEF Inv, Boot, Enqueue, Goto, store, chain, alloc, send, ambient, pass
<1>1. queue' \in Seq(Engines)
  BY AppendKeepsHead DEF TypeOK
<1>2. pc' \in [Engines -> Labels]
  BY DEF TypeOK, Labels
<1>3. TypeOK'
  BY <1>1, <1>2 DEF TypeOK
<1>4. LockInv'
  BY AppendKeepsHead DEF TypeOK, LockInv, InLock, Holds
<1>5. BootInv'
  BY DEF TypeOK, BootInv
<1>6. PassInv'
  BY DEF TypeOK, PassInv
<1>7. SendInv'
  BY DEF TypeOK, SendInv
<1> QED
  BY <1>3, <1>4, <1>5, <1>6, <1>7

\* The operator's switch touches the gate only.
LEMMA GateKeeps ==
  ASSUME Inv, Halt \/ Resume
  PROVE  Inv'
<1> USE DEF Inv, Halt, Resume, Fault, store, chain, alloc, send, ambient, pass
<1>1. halted' \in BOOLEAN
  BY DEF TypeOK
<1>2. faults' \in 0..MaxFaults
  BY SizeAssumption DEF TypeOK
<1>3. TypeOK'
  BY <1>1, <1>2 DEF TypeOK
<1>4. LockInv'
  BY DEF TypeOK, LockInv, InLock, Holds
<1>5. BootInv'
  BY DEF TypeOK, BootInv
<1>6. PassInv'
  BY DEF TypeOK, PassInv
<1>7. SendInv'
  BY DEF TypeOK, SendInv
<1> QED
  BY <1>3, <1>4, <1>5, <1>6, <1>7

\* The pools change the state of a transaction.
LEMMA ArriveOrLoseKeeps ==
  ASSUME Inv, NEW t \in TxIds, Arrive(t) \/ Lose(t)
  PROVE  Inv'
<1> USE DEF Inv, Arrive, Lose, SetTx, chainOnly, store, chain, alloc, send, ambient, pass
<1>1. tx' \in [TxIds -> Tx]
  BY RestateIsTx DEF TypeOK, TxStates
<1>2. TypeOK'
  BY <1>1 DEF TypeOK
<1>3. LockInv'
  BY DEF TypeOK, LockInv, InLock, Holds
<1>4. BootInv'
  BY DEF TypeOK, BootInv
<1>5. PassInv'
  BY DEF TypeOK, PassInv
<1>6. SendInv'
  BY DEF TypeOK, SendInv
<1> QED
  BY <1>2, <1>3, <1>4, <1>5, <1>6

\* A block raises the mined count by one.
LEMMA MineKeeps ==
  ASSUME Inv, NEW t \in TxIds, NEW result \in {"success", "reverted"},
         Mine(t, result)
  PROVE  Inv'
<1> USE DEF Inv, Mine, chainOnly, store, chain, alloc, send, ambient, pass
<1>1. mined' \in Nat
  BY DEF TypeOK
<1>2. tx' \in [TxIds -> Tx]
  BY RestateIsTx DEF TypeOK, TxStates
<1>3. TypeOK'
  BY <1>1, <1>2 DEF TypeOK
<1>4. LockInv'
  BY DEF TypeOK, LockInv, InLock, Holds
<1>5. BootInv'
  BY DEF TypeOK, BootInv
<1>6. PassInv'
  BY DEF TypeOK, PassInv
<1>7. SendInv'
  BY DEF TypeOK, SendInv
<1> QED
  BY <1>3, <1>4, <1>5, <1>6, <1>7

\* Nothing changes in a stuttering step.
LEMMA StutterKeeps ==
  ASSUME Inv, UNCHANGED vars
  PROVE  Inv'
<1> USE DEF Inv, vars, store, chain, alloc, send, ambient, pass
<1>1. TypeOK'
  BY DEF TypeOK
<1>2. LockInv'
  BY DEF TypeOK, LockInv, InLock, Holds
<1>3. BootInv'
  BY DEF TypeOK, BootInv
<1>4. PassInv'
  BY DEF TypeOK, PassInv
<1>5. SendInv'
  BY DEF TypeOK, SendInv
<1> QED
  BY <1>1, <1>2, <1>3, <1>4, <1>5

-----------------------------------------------------------------------------
(* The theorems.                                                           *)

\* Every step keeps the invariant.
LEMMA InvNext == Inv /\ [Next]_vars => Inv'
<1> SUFFICES ASSUME Inv, [Next]_vars PROVE Inv'
  OBVIOUS
<1>1. ASSUME NEW e \in Engines, Boot(e) \/ Pass(e) \/ Resync(e) \/ Throw(e)
      PROVE  Inv'
  BY <1>1, BootKeeps, SnapshotKeeps, ReadCountsKeeps, ProbeKeeps,
     WriteVerdictKeeps, EndPassKeeps, SkipSendingKeeps, JudgeKeeps,
     ReadPendingKeeps, ReadSignedKeeps, SeedKeeps, ThrowKeeps
     DEF Pass, Resync
<1>2. ASSUME NEW e \in Engines, Drive(e) PROVE Inv'
  BY <1>2, ClaimKeeps, BeginSendKeeps, SignKeeps, MarkKeeps, SubmitKeeps,
     ReturnKeeps, PostKeeps, CatchKeeps, ApprovalReceiptKeeps, EndDriveKeeps,
     OutcomeKeeps
     DEF Drive
<1>3. ASSUME Environment PROVE Inv'
  BY <1>3, GateKeeps, CrashKeeps, ArriveOrLoseKeeps, MineKeeps DEF Environment
<1>4. CASE UNCHANGED vars
  BY <1>4, StutterKeeps
<1> QED
  BY <1>1, <1>2, <1>3, <1>4 DEF Next

(* The inductive invariant holds in every reachable state.                 *)
THEOREM InvHolds == Spec => []Inv
<1> QED
  BY InvInit, InvNext, PTL DEF Spec

(* Every variable keeps its type and the loops run only on a seeded lease, *)
(* for any number of engines and rows: reserve never throws for want of a  *)
(* seed (nonce.ts), and no write leaves a malformed row.                   *)
THEOREM TypeCorrect == Spec => []TypeOK
<1>1. Inv => TypeOK
  BY DEF Inv
<1> QED
  BY <1>1, InvHolds, PTL

-----------------------------------------------------------------------------
(* The record.                                                             *)

\* The transaction has an outcome, or its nonce went to another.
Final(t) == \/ tx[t].state \in {"success", "reverted", "dead"}
            \/ tx[t].state \in {"signed", "limbo", "pool"} /\ tx[t].nonce < mined

\* A signed transaction has its nonce and its row; what is mined is counted,
\* and nobody has counted more.
ChainInv ==
    /\ \A t \in TxIds :
          /\ tx[t].state # "unsigned" => tx[t].nonce # None /\ tx[t].subject # None
          /\ tx[t].state \in {"success", "reverted"} => tx[t].nonce < mined
    /\ \A e \in Engines : latest[e] <= mined

\* A hash is recorded with the nonce it was signed for.
Names(r) == r.hash # None => /\ tx[r.hash].state # "unsigned"
                             /\ r.nonce = tx[r.hash].nonce
NameInv == \A s \in Subjects :
    /\ Names(row[s])
    /\ \A e \in Engines : work[e][s] # None => Names(work[e][s])

\* Only its owner sends a row.
Driving == {"claimed", "sign", "mark", "guard", "wire", "post", "catch", "approved"}
OwnerInv == \A e \in Engines : pc[e] \in Driving => Owner[cur[e]] = e

\* A stamp a pass has read names one state of the row.
StampInv == \A s \in Subjects :
    /\ row[s].status \in InFlightOnChain => row[s].stamp # None
    /\ \A e \in Engines : work[e][s] # None =>
          /\ work[e][s].stamp # None
          /\ work[e][s].stamp = row[s].stamp => work[e][s] = row[s]

\* The attempt being sent, if it still owns the row, has no hash yet.
Unrecorded == {"claimed", "sign", "mark"}
AttemptInv == \A e \in Engines : pc[e] \in Unrecorded =>
    /\ attempt[e] # None
    /\ row[cur[e]].stamp = attempt[e] => row[cur[e]].hash = None

\* The transaction an engine is about to broadcast is its own.
SignedInv == \A e \in Engines : pc[e] \in {"mark", "guard"} =>
    tx[mytx[e]].state = "signed" /\ tx[mytx[e]].subject = cur[e]

\* From its record on, the row names it, and is in flight when it goes live.
OnRecord == {"guard", "wire", "post"}
RecordInv == \A e \in Engines :
    /\ pc[e] \in OnRecord => row[cur[e]].hash = mytx[e]
    /\ pc[e] = "guard" => \/ row[cur[e]].status \in InFlightOnChain
                          \/ tx[mytx[e]].nonce < mined

\* The node is asked about what was broadcast, and a verdict is only reached
\* on what is final.
Settled == {"pool", "success", "reverted", "dead"}
VerdictInv == \A e \in Engines :
    /\ pc[e] = "probe" => /\ work[e][cur[e]].hash # None
                          /\ tx[work[e][cur[e]].hash].state \in Settled
    /\ pc[e] = "write" /\ work[e][cur[e]].hash # None => Final(work[e][cur[e]].hash)

RecInv ==
    /\ ChainInv /\ NameInv /\ OwnerInv /\ StampInv /\ AttemptInv
    /\ SignedInv /\ RecordInv /\ VerdictInv /\ LiveTxRecorded

-----------------------------------------------------------------------------
(* What steps have in common: most engines go on with the send and the     *)
(* verdict they had, most passes only lose rows, and the chain only adds   *)
(* evidence.                                                               *)

SendSteady == \A e \in Engines :
    /\ pc'[e] \in Driving => pc[e] \in Driving /\ cur'[e] = cur[e]
    /\ pc'[e] \in Unrecorded => pc[e] \in Unrecorded /\ attempt'[e] = attempt[e]
    /\ pc'[e] \in OnRecord => pc[e] \in OnRecord /\ mytx'[e] = mytx[e]
    /\ pc'[e] \in {"mark", "guard"} => pc'[e] = pc[e] /\ mytx'[e] = mytx[e]

PassSteady == \A e \in Engines : pc'[e] \in {"probe", "write"} =>
    pc'[e] = pc[e] /\ cur'[e] = cur[e] /\ work'[e] = work[e]

CountsSteady == \A e \in Engines : latest'[e] \in {latest[e], 0, mined}

WorkShrinks == \A e \in Engines, s \in Subjects : work'[e][s] \in {work[e][s], None}

\* A pass may also take a row in flight as it is.
WorkIsRead == \A e \in Engines, s \in Subjects :
    \/ work'[e][s] \in {work[e][s], None}
    \/ s \in InFlight /\ work'[e][s] = row[s]

Evolves ==
    /\ mined <= mined'
    /\ \A t \in TxIds :
          /\ tx[t].state # "unsigned" => /\ tx'[t].state # "unsigned"
                                         /\ tx'[t].nonce = tx[t].nonce
                                         /\ tx'[t].subject = tx[t].subject
          /\ tx'[t].state # "unsigned" => tx'[t].nonce # None /\ tx'[t].subject # None
          /\ tx[t].state \in Settled => tx'[t].state \in Settled
          /\ tx[t].state \in {"success", "reverted", "dead"} =>
                tx'[t].state = tx[t].state
          /\ tx'[t].state \in {"success", "reverted"} => tx'[t].nonce < mined'

\* What is final stays final.
LEMMA FinalStays ==
  ASSUME Inv, Inv', RecInv, Evolves, NEW t \in TxIds, Final(t)
  PROVE  Final(t)'
<1>1. /\ mined \in Nat /\ mined' \in Nat
      /\ tx[t] \in Tx /\ tx'[t] \in Tx
  BY DEF Inv, TypeOK
<1>2. CASE tx[t].state \in {"success", "reverted", "dead"}
  BY <1>2 DEF Evolves, Final
<1>3. CASE tx[t].state \in {"signed", "limbo", "pool"} /\ tx[t].nonce < mined
  <2>1. /\ tx[t].nonce \in Nat /\ tx'[t].nonce = tx[t].nonce
        /\ tx'[t].state # "unsigned" /\ mined <= mined'
    BY <1>1, <1>3 DEF Evolves, RecInv, ChainInv, Tx
  <2>2. tx'[t].state \in TxStates
    BY <1>1 DEF Tx
  <2> QED
    BY <1>1, <1>3, <2>1, <2>2 DEF Final, TxStates
<1> QED
  BY <1>2, <1>3 DEF Final

\* Standing still is a way to evolve.
LEMMA StillEvolves ==
  ASSUME RecInv, Inv, UNCHANGED <<tx, mined>>
  PROVE  Evolves
<1>1. mined \in Nat
  BY DEF Inv, TypeOK
<1> QED
  BY <1>1 DEF Evolves, RecInv, ChainInv

\* The evidence behind a question or a verdict holds while both wait.
LEMMA VerdictStays ==
  ASSUME Inv, Inv', RecInv, PassSteady, Evolves
  PROVE  VerdictInv'
<1>1. \A t \in TxIds : Final(t) => Final(t)'
  BY FinalStays
<1>2. ASSUME NEW e \in Engines, pc'[e] = "probe"
      PROVE  /\ work'[e][cur'[e]].hash # None
             /\ tx'[work'[e][cur'[e]].hash].state \in Settled
  <2>1. pc[e] = "probe" /\ work'[e][cur'[e]] = work[e][cur[e]]
    BY <1>2 DEF PassSteady
  <2>2. work[e][cur[e]].hash \in TxIds
    BY <2>1 DEF Inv, TypeOK, PassInv, Row, RecInv, VerdictInv
  <2> QED
    BY <2>1, <2>2, NoneAssumption DEF RecInv, VerdictInv, Evolves
<1>3. ASSUME NEW e \in Engines, pc'[e] = "write", work'[e][cur'[e]].hash # None
      PROVE  Final(work[e][cur[e]].hash)'
  <2>1. pc[e] = "write" /\ work'[e][cur'[e]] = work[e][cur[e]]
    BY <1>3 DEF PassSteady
  <2>2. work[e][cur[e]].hash \in TxIds
    BY <1>3, <2>1 DEF Inv, TypeOK, PassInv, Row
  <2>3. Final(work[e][cur[e]].hash)
    BY <1>3, <2>1 DEF RecInv, VerdictInv
  <2> QED
    BY <1>1, <2>1, <2>2, <2>3 DEF Final
<1> QED
  BY <1>2, <1>3 DEF VerdictInv

-----------------------------------------------------------------------------
(* Three kinds of step: quiet ones, moves of the chain, and writes that    *)
(* leave a row its transaction.                                            *)

\* A step that moves neither the store nor the chain.
LEMMA QuietKeeps ==
  ASSUME Inv, Inv', RecInv, UNCHANGED <<row, tx, mined>>,
         CountsSteady, WorkIsRead, SendSteady, VerdictInv'
  PROVE  RecInv'
<1>1. ChainInv'
  <2>1. mined \in Nat /\ latest \in [Engines -> Nat]
    BY DEF Inv, TypeOK
  <2>2. \A e \in Engines : latest'[e] <= mined'
    BY <2>1 DEF RecInv, ChainInv, CountsSteady
  <2> QED
    BY <2>2 DEF RecInv, ChainInv
<1>2. NameInv'
  BY DEF RecInv, NameInv, Names, WorkIsRead
<1>3. OwnerInv'
  BY DEF RecInv, OwnerInv, SendSteady
<1>4. StampInv'
  BY DEF RecInv, StampInv, WorkIsRead, InFlight
<1>5. AttemptInv'
  BY DEF RecInv, AttemptInv, SendSteady, Unrecorded, Driving
<1>6. SignedInv'
  BY DEF RecInv, SignedInv, SendSteady, Driving
<1>7. RecordInv'
  BY DEF RecInv, RecordInv, SendSteady, Driving, OnRecord
<1>8. LiveTxRecorded'
  BY DEF RecInv, LiveTxRecorded, Live
<1> QED
  BY <1>1, <1>2, <1>3, <1>4, <1>5, <1>6, <1>7, <1>8 DEF RecInv

\* A move of the chain by which no transaction goes live unrecorded keeps what
\* rows and passes say.
LEMMA EvidenceKeeps ==
  ASSUME Inv, Inv', RecInv, Evolves, UNCHANGED row,
         CountsSteady, WorkShrinks, PassSteady,
         \A t \in TxIds : Live(t)' =>
            \/ Live(t)
            \/ LET r == row[tx'[t].subject]
               IN  r.status \in InFlightOnChain /\ r.hash = t /\ r.nonce = tx'[t].nonce
  PROVE  ChainInv' /\ NameInv' /\ StampInv' /\ VerdictInv' /\ LiveTxRecorded'
<1> USE DEF Inv
<1>1. /\ mined \in Nat /\ mined' \in Nat /\ mined <= mined'
      /\ latest \in [Engines -> Nat] /\ row \in [Subjects -> Row]
      /\ work \in [Engines -> [Subjects -> Row \cup {None}]]
  BY DEF TypeOK, Evolves
<1>2. ChainInv'
  <2>1. \A e \in Engines : latest'[e] <= mined'
    BY <1>1 DEF RecInv, ChainInv, CountsSteady
  <2> QED
    BY <2>1 DEF Evolves, ChainInv
<1>3. NameInv'
  <2>1. ASSUME NEW r \in Row, Names(r)
        PROVE  r.hash # None => /\ tx'[r.hash].state # "unsigned"
                                /\ r.nonce = tx'[r.hash].nonce
    BY <2>1 DEF Names, Evolves, Row
  <2>2. \A s \in Subjects : Names(row[s])'
    BY <1>1, <2>1 DEF RecInv, NameInv, Names
  <2>3. \A s \in Subjects, e \in Engines : work'[e][s] # None => Names(work[e][s])'
    BY <1>1, <2>1 DEF RecInv, NameInv, Names, WorkShrinks
  <2> QED
    BY <2>2, <2>3 DEF NameInv
<1>4. StampInv'
  BY DEF RecInv, StampInv, WorkShrinks
<1>5. VerdictInv'
  BY VerdictStays
<1>6. LiveTxRecorded'
  <2> SUFFICES ASSUME NEW t \in TxIds, Live(t)'
               PROVE  LET r == row'[tx'[t].subject]
                      IN  r.status \in InFlightOnChain /\ r.hash = t /\ r.nonce = tx'[t].nonce
    BY DEF LiveTxRecorded
  <2>1. CASE Live(t)
    <3>1. tx'[t].nonce = tx[t].nonce /\ tx'[t].subject = tx[t].subject
      BY <2>1 DEF Live, Evolves
    <3> QED
      BY <2>1, <3>1 DEF RecInv, LiveTxRecorded
  <2> QED
    BY <2>1
<1> QED
  BY <1>2, <1>3, <1>4, <1>5, <1>6

\* It also keeps what sends rely on, when it leaves them their transactions.
LEMMA EvolveKeeps ==
  ASSUME Inv, Inv', RecInv, Evolves, UNCHANGED row,
         CountsSteady, WorkShrinks, SendSteady, PassSteady,
         \A e \in Engines : pc'[e] \in {"mark", "guard"} => tx'[mytx[e]] = tx[mytx[e]],
         \A t \in TxIds : Live(t)' =>
            \/ Live(t)
            \/ LET r == row[tx'[t].subject]
               IN  r.status \in InFlightOnChain /\ r.hash = t /\ r.nonce = tx'[t].nonce
  PROVE  RecInv'
<1> USE DEF Inv
<1>1. /\ mined \in Nat /\ mined' \in Nat /\ mined <= mined'
      /\ tx \in [TxIds -> Tx] /\ tx' \in [TxIds -> Tx]
  BY DEF TypeOK, Evolves
<1>2. ChainInv' /\ NameInv' /\ StampInv' /\ VerdictInv' /\ LiveTxRecorded'
  BY EvidenceKeeps
<1>3. OwnerInv'
  BY DEF RecInv, OwnerInv, SendSteady
<1>4. AttemptInv'
  BY DEF RecInv, AttemptInv, SendSteady, Unrecorded, Driving
<1>5. SignedInv'
  BY DEF RecInv, SignedInv, SendSteady, Driving
<1>6. RecordInv'
  <2> SUFFICES ASSUME NEW e \in Engines, pc'[e] \in OnRecord
               PROVE  /\ row[cur'[e]].hash = mytx'[e]
                      /\ pc'[e] = "guard" => \/ row[cur'[e]].status \in InFlightOnChain
                                             \/ tx'[mytx'[e]].nonce < mined'
    BY DEF RecordInv, OnRecord
  <2>1. /\ pc[e] \in OnRecord /\ cur'[e] = cur[e] /\ mytx'[e] = mytx[e]
        /\ row[cur[e]].hash = mytx[e]
    BY DEF RecInv, RecordInv, SendSteady, Driving, OnRecord
  <2>2. ASSUME pc'[e] = "guard" PROVE \/ row[cur'[e]].status \in InFlightOnChain
                                      \/ tx'[mytx'[e]].nonce < mined'
    <3>1. pc[e] = "guard" /\ mytx[e] \in TxIds /\ tx[mytx[e]].state = "signed"
      BY <2>2 DEF SendSteady, RecInv, SignedInv, SendInv, TypeOK
    <3>2. tx'[mytx[e]].nonce = tx[mytx[e]].nonce /\ tx[mytx[e]].nonce \in Nat
      BY <1>1, <3>1 DEF Evolves, RecInv, ChainInv, Tx
    <3> QED
      BY <1>1, <2>1, <3>1, <3>2 DEF RecInv, RecordInv
  <2> QED
    BY <2>1, <2>2
<1> QED
  BY <1>2, <1>3, <1>4, <1>5, <1>6 DEF RecInv

\* The stamp of a write is one nobody remembers.
LEMMA NowIsFresh ==
  ASSUME NEW s
  PROVE  /\ Now(s) \in Stamps
         /\ \A e \in Engines : cur[e] = s => attempt[e] # Now(s)
         /\ \A e \in Engines : work[e][s] # None => work[e][s].stamp # Now(s)
<1>1. Now(s) \in FreshStamps(s)
  BY NowIsStamp, FreshStampExists DEF Now
<1> QED
  BY <1>1 DEF FreshStamps, Remembered

\* A write that leaves a row its hash and nonce, and only takes it out of
\* flight when its transaction is final.
LEMMA StatusWriteKeeps ==
  ASSUME Inv, Inv', RecInv, UNCHANGED <<tx, mined>>,
         NEW s \in Subjects, NEW new \in Row,
         row' = row \/ row' = [row EXCEPT ![s] = new],
         new.hash = row[s].hash, new.nonce = row[s].nonce, new.stamp = Now(s),
         new.status \in InFlightOnChain \/ (row[s].hash # None => Final(row[s].hash)),
         CountsSteady, WorkShrinks, SendSteady, PassSteady
  PROVE  RecInv'
<1> USE DEF Inv
<1>1. /\ row \in [Subjects -> Row]
      /\ work \in [Engines -> [Subjects -> Row \cup {None}]]
      /\ cur \in [Engines -> Subjects \cup {None}]
  BY DEF TypeOK
<1>2. \A u \in Subjects : row'[u] = row[u] \/ (u = s /\ row'[u] = new)
  <2>1. CASE row' = row
    BY <2>1
  <2>2. CASE row' = [row EXCEPT ![s] = new]
    BY <1>1, <2>2
  <2> QED
    BY <2>1, <2>2
<1>3. \A u \in Subjects : row'[u].hash = row[u].hash /\ row'[u].nonce = row[u].nonce
  BY <1>2
<1>4. ChainInv'
  <2>1. mined \in Nat /\ latest \in [Engines -> Nat]
    BY DEF TypeOK
  <2>2. \A e \in Engines : latest'[e] <= mined'
    BY <2>1 DEF RecInv, ChainInv, CountsSteady
  <2> QED
    BY <2>2 DEF RecInv, ChainInv
<1>5. NameInv'
  BY <1>3 DEF RecInv, NameInv, Names, WorkShrinks
<1>6. OwnerInv'
  BY DEF RecInv, OwnerInv, SendSteady
<1>7. StampInv'
  BY <1>1, <1>2, NowIsFresh, NoneAssumption DEF RecInv, StampInv, WorkShrinks
<1>8. AttemptInv'
  <2> SUFFICES ASSUME NEW e \in Engines, pc'[e] \in Unrecorded
               PROVE  /\ attempt'[e] # None
                      /\ row'[cur'[e]].stamp = attempt'[e] => row'[cur'[e]].hash = None
    BY DEF AttemptInv
  <2>1. /\ pc[e] \in Unrecorded /\ cur'[e] = cur[e] /\ attempt'[e] = attempt[e]
        /\ cur[e] \in Subjects /\ attempt[e] # None
        /\ row[cur[e]].stamp = attempt[e] => row[cur[e]].hash = None
    BY <1>1 DEF SendSteady, RecInv, AttemptInv, SendInv, Unrecorded, Driving
  <2> QED
    BY <2>1, <1>2, NowIsFresh
<1>9. SignedInv'
  BY DEF RecInv, SignedInv, SendSteady, Driving
<1>10. RecordInv'
  <2> SUFFICES ASSUME NEW e \in Engines, pc'[e] \in OnRecord
               PROVE  /\ row'[cur'[e]].hash = mytx'[e]
                      /\ pc'[e] = "guard" => \/ row'[cur'[e]].status \in InFlightOnChain
                                             \/ tx[mytx'[e]].nonce < mined
    BY DEF RecordInv, OnRecord
  <2>1. /\ pc[e] \in OnRecord /\ cur'[e] = cur[e] /\ mytx'[e] = mytx[e]
        /\ cur[e] \in Subjects /\ mytx[e] # None
        /\ row[cur[e]].hash = mytx[e]
    BY <1>1 DEF RecInv, RecordInv, SendSteady, SendInv, Driving, OnRecord
  <2>2. pc'[e] = "guard" => /\ tx[mytx[e]].state = "signed"
                            /\ \/ row[cur[e]].status \in InFlightOnChain
                               \/ tx[mytx[e]].nonce < mined
    BY DEF RecInv, RecordInv, SignedInv, SendSteady
  <2> QED
    BY <2>1, <2>2, <1>2, <1>3 DEF Final
<1>11. VerdictInv'
  BY StillEvolves, VerdictStays
<1>12. LiveTxRecorded'
  <2> SUFFICES ASSUME NEW t \in TxIds, Live(t)
               PROVE  LET r == row'[tx[t].subject]
                      IN  r.status \in InFlightOnChain /\ r.hash = t /\ r.nonce = tx[t].nonce
    BY DEF LiveTxRecorded, Live
  <2>1. /\ tx[t].subject \in Subjects /\ tx[t].nonce \in Nat /\ mined \in Nat
        /\ row[tx[t].subject].status \in InFlightOnChain
        /\ row[tx[t].subject].hash = t /\ row[tx[t].subject].nonce = tx[t].nonce
    BY DEF Live, RecInv, LiveTxRecorded, ChainInv, TypeOK, Tx
  <2>2. ~Final(t) /\ t # None
    BY <2>1, NoneAssumption DEF Live, Final
  <2> QED
    BY <2>1, <2>2, <1>2, <1>3
<1> QED
  BY <1>4, <1>5, <1>6, <1>7, <1>8, <1>9, <1>10, <1>11, <1>12 DEF RecInv

-----------------------------------------------------------------------------
(* The quiet steps.                                                        *)

Quiet == /\ UNCHANGED <<row, tx, mined>>
         /\ CountsSteady /\ WorkIsRead /\ SendSteady /\ PassSteady

\* A quiet step that reaches no verdict.
LEMMA QuietStepKeeps ==
  ASSUME Inv, Inv', RecInv, Quiet
  PROVE  RecInv'
<1>1. VerdictInv'
  BY StillEvolves, VerdictStays DEF Quiet
<1> QED
  BY <1>1, QuietKeeps DEF Quiet

\* The work list holds rows in flight as they are.
LEMMA SnapshotRecords ==
  ASSUME Inv, Inv', RecInv, NEW e \in Engines, Snapshot(e)
  PROVE  RecInv'
<1> USE DEF Snapshot, Goto, store, chain, alloc, send, ambient, pass
<1>1. UNCHANGED <<row, tx, mined>> /\ CountsSteady
  BY DEF Inv, TypeOK, CountsSteady
<1>2. WorkIsRead
  BY DEF Inv, TypeOK, WorkIsRead
<1>3. SendSteady
  BY DEF Inv, TypeOK, SendSteady, Driving, Unrecorded, OnRecord
<1>4. PassSteady
  BY DEF Inv, TypeOK, PassSteady
<1> QED
  BY <1>1, <1>2, <1>3, <1>4, QuietStepKeeps DEF Quiet

\* The mined count read is the mined count.
LEMMA ReadCountsRecords ==
  ASSUME Inv, Inv', RecInv, NEW e \in Engines, ReadCounts(e)
  PROVE  RecInv'
<1> USE DEF ReadCounts, Goto, store, chain, alloc, send, ambient, pass
<1>1. UNCHANGED <<row, tx, mined>> /\ CountsSteady
  BY DEF Inv, TypeOK, CountsSteady
<1>2. WorkIsRead
  BY DEF Inv, TypeOK, WorkIsRead
<1>3. SendSteady
  BY DEF Inv, TypeOK, SendSteady, Driving, Unrecorded, OnRecord
<1>4. PassSteady
  BY DEF Inv, TypeOK, PassSteady
<1> QED
  BY <1>1, <1>2, <1>3, <1>4, QuietStepKeeps DEF Quiet

\* A row being sent is passed over.
LEMMA SkipSendingRecords ==
  ASSUME Inv, Inv', RecInv, NEW e \in Engines, NEW s \in Subjects, SkipSending(e, s)
  PROVE  RecInv'
<1> USE DEF SkipSending, Forget, Goto, store, chain, alloc, send, ambient, pass
<1>1. UNCHANGED <<row, tx, mined>> /\ CountsSteady
  BY DEF Inv, TypeOK, CountsSteady
<1>2. WorkIsRead
  BY DEF Inv, TypeOK, WorkIsRead
<1>3. SendSteady
  BY DEF Inv, TypeOK, SendSteady, Driving, Unrecorded, OnRecord
<1>4. PassSteady
  BY DEF Inv, TypeOK, PassSteady
<1> QED
  BY <1>1, <1>2, <1>3, <1>4, QuietStepKeeps DEF Quiet

\* The pass ends with nothing left.
LEMMA EndPassRecords ==
  ASSUME Inv, Inv', RecInv, NEW e \in Engines, EndPass(e)
  PROVE  RecInv'
<1> USE DEF EndPass, Enqueue, Goto, store, chain, alloc, send, ambient, pass
<1>1. UNCHANGED <<row, tx, mined>> /\ CountsSteady
  BY DEF Inv, TypeOK, CountsSteady
<1>2. WorkIsRead
  BY DEF Inv, TypeOK, WorkIsRead
<1>3. SendSteady
  BY DEF Inv, TypeOK, SendSteady, Driving, Unrecorded, OnRecord
<1>4. PassSteady
  BY DEF Inv, TypeOK, PassSteady
<1> QED
  BY <1>1, <1>2, <1>3, <1>4, QuietStepKeeps DEF Quiet

\* Nothing but the pending count is read.
LEMMA ReadPendingRecords ==
  ASSUME Inv, Inv', RecInv, NEW e \in Engines, ReadPending(e)
  PROVE  RecInv'
<1> USE DEF ReadPending, Goto, store, chain, alloc, send, ambient, pass
<1>1. UNCHANGED <<row, tx, mined>> /\ CountsSteady
  BY DEF Inv, TypeOK, CountsSteady
<1>2. WorkIsRead
  BY DEF Inv, TypeOK, WorkIsRead
<1>3. SendSteady
  BY DEF Inv, TypeOK, SendSteady, Driving, Unrecorded, OnRecord
<1>4. PassSteady
  BY DEF Inv, TypeOK, PassSteady
<1> QED
  BY <1>1, <1>2, <1>3, <1>4, QuietStepKeeps DEF Quiet

\* The fence reads rows in flight as they are.
LEMMA ReadSignedRecords ==
  ASSUME Inv, Inv', RecInv, NEW e \in Engines, ReadSigned(e)
  PROVE  RecInv'
<1> USE DEF ReadSigned, Goto, store, chain, alloc, send, ambient, pass
<1>1. UNCHANGED <<row, tx, mined>> /\ CountsSteady
  BY DEF Inv, TypeOK, CountsSteady
<1>2. WorkIsRead
  BY DEF Inv, TypeOK, WorkIsRead
<1>3. SendSteady
  BY DEF Inv, TypeOK, SendSteady, Driving, Unrecorded, OnRecord
<1>4. PassSteady
  BY DEF Inv, TypeOK, PassSteady
<1> QED
  BY <1>1, <1>2, <1>3, <1>4, QuietStepKeeps DEF Quiet

\* The lease is seeded, the rows read are dropped.
LEMMA SeedRecords ==
  ASSUME Inv, Inv', RecInv, NEW e \in Engines, NEW young, Seed(e, young)
  PROVE  RecInv'
<1> USE DEF Seed, Unlock, Goto, store, chain, alloc, send, ambient, pass
<1>1. UNCHANGED <<row, tx, mined>> /\ CountsSteady
  BY DEF Inv, TypeOK, CountsSteady
<1>2. WorkIsRead
  BY DEF Inv, TypeOK, WorkIsRead
<1>3. SendSteady
  BY DEF Inv, TypeOK, SendSteady, Driving, Unrecorded, OnRecord
<1>4. PassSteady
  BY DEF Inv, TypeOK, PassSteady
<1> QED
  BY <1>1, <1>2, <1>3, <1>4, QuietStepKeeps DEF Quiet

\* The send goes on with its row and its claim.
LEMMA BeginSendRecords ==
  ASSUME Inv, Inv', RecInv, NEW e \in Engines, BeginSend(e)
  PROVE  RecInv'
<1> USE DEF BeginSend, Enqueue, Goto, store, chain, alloc, send, ambient, pass
<1>1. UNCHANGED <<row, tx, mined>> /\ CountsSteady
  BY DEF Inv, TypeOK, CountsSteady
<1>2. WorkIsRead
  BY DEF Inv, TypeOK, WorkIsRead
<1>3. SendSteady
  BY DEF Inv, TypeOK, SendSteady, Driving, Unrecorded, OnRecord
<1>4. PassSteady
  BY DEF Inv, TypeOK, PassSteady
<1> QED
  BY <1>1, <1>2, <1>3, <1>4, QuietStepKeeps DEF Quiet

\* Nothing is being sent.
LEMMA EndDriveRecords ==
  ASSUME Inv, Inv', RecInv, NEW e \in Engines, EndDrive(e)
  PROVE  RecInv'
<1> USE DEF EndDrive, StopSending, Goto, store, chain, alloc, send, ambient, pass
<1>1. UNCHANGED <<row, tx, mined>> /\ CountsSteady
  BY DEF Inv, TypeOK, CountsSteady
<1>2. WorkIsRead
  BY DEF Inv, TypeOK, WorkIsRead
<1>3. SendSteady
  BY DEF Inv, TypeOK, SendSteady, Driving, Unrecorded, OnRecord
<1>4. PassSteady
  BY DEF Inv, TypeOK, PassSteady
<1> QED
  BY <1>1, <1>2, <1>3, <1>4, QuietStepKeeps DEF Quiet

\* A pass that throws drops what it read.
LEMMA ThrowRecords ==
  ASSUME Inv, Inv', RecInv, NEW e \in Engines, Throw(e)
  PROVE  RecInv'
<1> USE DEF Throw, Fault, Unlock, Goto, store, chain, alloc, send, ambient, pass
<1>1. UNCHANGED <<row, tx, mined>> /\ CountsSteady
  BY DEF Inv, TypeOK, CountsSteady
<1>2. WorkIsRead
  BY DEF Inv, TypeOK, WorkIsRead
<1>3. SendSteady
  BY DEF Inv, TypeOK, SendSteady, Driving, Unrecorded, OnRecord
<1>4. PassSteady
  BY DEF Inv, TypeOK, PassSteady
<1> QED
  BY <1>1, <1>2, <1>3, <1>4, QuietStepKeeps DEF Quiet

\* The boot resync only queues.
LEMMA BootRecords ==
  ASSUME Inv, Inv', RecInv, NEW e \in Engines, Boot(e)
  PROVE  RecInv'
<1> USE DEF Boot, Enqueue, Goto, store, chain, alloc, send, ambient, pass
<1>1. UNCHANGED <<row, tx, mined>> /\ CountsSteady
  BY DEF Inv, TypeOK, CountsSteady
<1>2. WorkIsRead
  BY DEF Inv, TypeOK, WorkIsRead
<1>3. SendSteady
  BY DEF Inv, TypeOK, SendSteady, Driving, Unrecorded, OnRecord
<1>4. PassSteady
  BY DEF Inv, TypeOK, PassSteady
<1> QED
  BY <1>1, <1>2, <1>3, <1>4, QuietStepKeeps DEF Quiet

\* The gate moves nothing else.
LEMMA GateRecords ==
  ASSUME Inv, Inv', RecInv, Halt \/ Resume
  PROVE  RecInv'
<1> USE DEF Halt, Resume, Fault, Goto, store, chain, alloc, send, ambient, pass
<1>1. UNCHANGED <<row, tx, mined>> /\ CountsSteady
  BY DEF Inv, TypeOK, CountsSteady
<1>2. WorkIsRead
  BY DEF Inv, TypeOK, WorkIsRead
<1>3. SendSteady
  BY DEF Inv, TypeOK, SendSteady, Driving, Unrecorded, OnRecord
<1>4. PassSteady
  BY DEF Inv, TypeOK, PassSteady
<1> QED
  BY <1>1, <1>2, <1>3, <1>4, QuietStepKeeps DEF Quiet

\* Nothing changes in a stuttering step.
LEMMA StillRecords ==
  ASSUME Inv, Inv', RecInv, UNCHANGED vars
  PROVE  RecInv'
<1> USE DEF vars, Goto, store, chain, alloc, send, ambient, pass
<1>1. UNCHANGED <<row, tx, mined>> /\ CountsSteady
  BY DEF Inv, TypeOK, CountsSteady
<1>2. WorkIsRead
  BY DEF Inv, TypeOK, WorkIsRead
<1>3. SendSteady
  BY DEF Inv, TypeOK, SendSteady, Driving, Unrecorded, OnRecord
<1>4. PassSteady
  BY DEF Inv, TypeOK, PassSteady
<1> QED
  BY <1>1, <1>2, <1>3, <1>4, QuietStepKeeps DEF Quiet

-----------------------------------------------------------------------------
(* The verdicts of a pass.                                                 *)

\* A pass asks about what was broadcast, and decides on final evidence.
LEMMA JudgeRecords ==
  ASSUME Inv, Inv', RecInv, NEW e \in Engines, NEW s \in Subjects,
         NEW old \in BOOLEAN, Judge(e, s, old)
  PROVE  RecInv'
<1> DEFINE r == work[e][s]
           v == Verdict(r, latest[e], pend[e], old)
<1> USE DEF Inv, Goto, Forget, store, chain, alloc, send, ambient
<1>1. /\ pc[e] = "judge" /\ r # None /\ r \in Row /\ old \in PastGrace(r)
      /\ UNCHANGED <<row, tx, mined, sending, latest, attempt, mytx>>
  BY DEF Judge, TypeOK
<1>2. \/ /\ work' = [work EXCEPT ![e][s] = None]
         /\ UNCHANGED <<pc, cur, verdict>>
      \/ /\ v = "probe"
         /\ pc' = [pc EXCEPT ![e] = "probe"]
         /\ cur' = [cur EXCEPT ![e] = s]
         /\ UNCHANGED <<work, verdict>>
      \/ /\ v \notin {"still", "probe"}
         /\ pc' = [pc EXCEPT ![e] = "write"]
         /\ cur' = [cur EXCEPT ![e] = s]
         /\ UNCHANGED work
  BY DEF Judge
<1>3. r.hash # None => tx[r.hash].state # "unsigned" /\ r.nonce = tx[r.hash].nonce
  BY <1>1 DEF RecInv, NameInv, Names
<1>4. v = "probe" => r.hash # None /\ tx[r.hash].state \in Settled
  <2> SUFFICES ASSUME v = "probe" PROVE r.hash # None /\ tx[r.hash].state \in Settled
    OBVIOUS
  <2>1. r.hash # None /\ old
    BY DEF Verdict, UnbroadcastVerdict, BroadcastVerdict
  <2>2. tx[r.hash].state \notin {"signed", "limbo"}
    BY <1>1, <2>1 DEF PastGrace
  <2>3. tx[r.hash].state \in TxStates
    BY <1>1, <2>1 DEF TypeOK, Row, Tx
  <2> QED
    BY <1>3, <2>1, <2>2, <2>3 DEF TxStates, Settled
<1>5. v \notin {"still", "probe"} /\ r.hash # None => Final(r.hash)
  <2> SUFFICES ASSUME v \notin {"still", "probe"}, r.hash # None PROVE Final(r.hash)
    OBVIOUS
  <2>1. \/ tx[r.hash].state \in {"success", "reverted"}
        \/ r.nonce # None /\ latest[e] > r.nonce
    BY DEF Verdict, BroadcastVerdict
  <2>2. /\ tx[r.hash].state \in TxStates /\ r.nonce \in Nat \cup {None}
        /\ latest[e] \in Nat /\ latest[e] <= mined /\ mined \in Nat
    BY <1>1 DEF TypeOK, Row, Tx, RecInv, ChainInv
  <2> QED
    BY <1>3, <2>1, <2>2 DEF Final, TxStates
<1> HIDE DEF v
<1>6. VerdictInv'
  <2> SUFFICES ASSUME NEW d \in Engines, pc'[d] \in {"probe", "write"}
               PROVE  LET h == work'[d][cur'[d]].hash
                      IN  /\ pc'[d] = "probe" => h # None /\ tx[h].state \in Settled
                          /\ pc'[d] = "write" /\ h # None => Final(h)
    BY <1>1 DEF VerdictInv, Final
  <2>1. CASE pc'[d] = pc[d] /\ cur'[d] = cur[d] /\ work'[d] = work[d]
    BY <2>1 DEF RecInv, VerdictInv
  <2>2. CASE d = e
    BY <1>1, <1>2, <1>4, <1>5, <2>2 DEF TypeOK
  <2>3. CASE d # e
    BY <1>1, <1>2, <2>1, <2>3 DEF TypeOK
  <2> QED
    BY <2>2, <2>3
<1>7. WorkIsRead /\ CountsSteady
  <2>1. work' = work \/ work' = [work EXCEPT ![e][s] = None]
    BY <1>2
  <2>2. work \in [Engines -> [Subjects -> Row \cup {None}]]
    BY DEF TypeOK
  <2>3. WorkShrinks
    BY <2>1, <2>2 DEF WorkShrinks
  <2> QED
    BY <1>1, <2>3 DEF WorkShrinks, WorkIsRead, CountsSteady
<1>8. SendSteady
  BY <1>1, <1>2 DEF SendSteady, Driving, Unrecorded, OnRecord, TypeOK
<1> QED
  BY <1>1, <1>6, <1>7, <1>8, QuietKeeps

\* What the node does not know, after the grace window, is final.
LEMMA ProbeRecords ==
  ASSUME Inv, Inv', RecInv, NEW e \in Engines, Probe(e)
  PROVE  RecInv'
<1> DEFINE r == work[e][cur[e]]
<1> USE DEF Inv, Goto, Forget, store, chain, alloc, send, ambient
<1>1. /\ pc[e] = "probe" /\ cur[e] \in Subjects /\ r # None /\ r \in Row
      /\ UNCHANGED <<row, tx, mined, sending, latest, attempt, mytx>>
  BY DEF Probe, TypeOK, PassInv
<1>2. \/ /\ work' = [work EXCEPT ![e][cur[e]] = None]
         /\ cur' = [cur EXCEPT ![e] = None]
         /\ pc' = [pc EXCEPT ![e] = "judge"]
      \/ /\ ~IsKnown(r.hash)
         /\ pc' = [pc EXCEPT ![e] = "write"]
         /\ UNCHANGED <<work, cur>>
  BY DEF Probe
<1>3. ~IsKnown(r.hash) => Final(r.hash)
  BY <1>1 DEF RecInv, VerdictInv, IsKnown, Final, Settled
<1>4. VerdictInv'
  <2>1. /\ pc \in [Engines -> Labels] /\ cur \in [Engines -> Subjects \cup {None}]
        /\ work \in [Engines -> [Subjects -> Row \cup {None}]]
        /\ VerdictInv
    BY DEF TypeOK, RecInv
  <2>2. ASSUME NEW f \in Engines, f # e
        PROVE  pc'[f] = pc[f] /\ cur'[f] = cur[f] /\ work'[f] = work[f]
    BY <1>2, <2>1, <2>2
  <2>3. \/ pc'[e] = "judge"
        \/ pc'[e] = "write" /\ cur'[e] = cur[e] /\ work' = work /\ Final(r.hash)
    BY <1>2, <1>3, <2>1
  <2>4. tx' = tx /\ mined' = mined
    BY <1>1
  <2> SUFFICES ASSUME NEW f \in Engines
               PROVE  /\ pc'[f] = "probe" =>
                            /\ work'[f][cur'[f]].hash # None
                            /\ tx'[work'[f][cur'[f]].hash].state \in Settled
                      /\ pc'[f] = "write" /\ work'[f][cur'[f]].hash # None
                            => Final(work[f][cur[f]].hash)'
    BY DEF VerdictInv
  <2>5. CASE f = e
    BY ONLY <2>3, <2>4, <2>5 DEF Final
  <2>6. CASE f # e
    BY ONLY <2>1, <2>2, <2>4, <2>6 DEF VerdictInv, Final
  <2> QED
    BY <2>5, <2>6
<1>5. WorkIsRead /\ CountsSteady
  <2>1. work' = work \/ work' = [work EXCEPT ![e][cur[e]] = None]
    BY <1>2
  <2>2. work \in [Engines -> [Subjects -> Row \cup {None}]]
    BY DEF TypeOK
  <2>3. WorkShrinks
    BY <2>1, <2>2 DEF WorkShrinks
  <2> QED
    BY <1>1, <2>3 DEF WorkShrinks, WorkIsRead, CountsSteady
<1>6. SendSteady
  BY <1>1, <1>2 DEF SendSteady, Driving, Unrecorded, OnRecord, TypeOK
<1> QED
  BY <1>1, <1>4, <1>5, <1>6, QuietKeeps

\* A verdict lands only on the row as it was read, or not at all.
LEMMA WriteVerdictRecords ==
  ASSUME Inv, Inv', RecInv, NEW e \in Engines, WriteVerdict(e)
  PROVE  RecInv'
<1> DEFINE s == cur[e]
           r == work[e][s]
           new == [status |-> verdict[e], nonce |-> row[s].nonce,
                   hash |-> row[s].hash, stamp |-> Now(s)]
<1> USE DEF Inv, Goto, Forget, store, chain, alloc, send, ambient
<1>1. /\ pc[e] = "write" /\ s \in Subjects /\ r # None /\ r \in Row
      /\ verdict[e] \in {"confirmed", "failed", "submitted"}
      /\ row \in [Subjects -> Row]
      /\ work' = [work EXCEPT ![e][s] = None]
      /\ cur' = [cur EXCEPT ![e] = None]
      /\ pc' = [pc EXCEPT ![e] = "judge"]
      /\ UNCHANGED <<tx, mined, sending, latest, attempt, mytx>>
  BY DEF WriteVerdict, TypeOK, PassInv
<1>2. WorkShrinks /\ CountsSteady
  BY <1>1 DEF WorkShrinks, CountsSteady, TypeOK
<1>3. SendSteady /\ PassSteady
  BY <1>1 DEF SendSteady, PassSteady, Driving, Unrecorded, OnRecord, TypeOK
<1>4. row' = [row EXCEPT ![s] = Transition(row[s], verdict[e], None, r.hash,
                                           AsRead(r), Now(s))]
  BY DEF WriteVerdict, Write
<1>5. CASE ~Meets(row[s], AsRead(r))
  <2>1. row' = row
    BY <1>1, <1>4, <1>5 DEF Transition
  <2> HIDE DEF s, r
  <2>2. WorkIsRead
    BY <1>2 DEF WorkShrinks, WorkIsRead
  <2> QED
    BY <1>1, <1>2, <1>3, <2>1, <2>2, QuietStepKeeps DEF Quiet
<1>6. CASE Meets(row[s], AsRead(r))
  <2>1. row[s] = r
    BY <1>1, <1>6 DEF Meets, AsRead, RecInv, StampInv
  <2>2. row' = [row EXCEPT ![s] = new]
    BY <1>4, <1>6, <2>1 DEF Transition, Coalesce
  <2>3. row[s].hash # None => Final(row[s].hash)
    BY <1>1, <2>1 DEF RecInv, VerdictInv
  <2>4. /\ new \in Row /\ new.hash = row[s].hash /\ new.nonce = row[s].nonce
        /\ new.stamp = Now(s)
    BY <1>1, NowIsStamp DEF Row, Statuses
  <2> HIDE DEF new, r
  <2> QED
    BY <1>1, <1>2, <1>3, <2>2, <2>3, <2>4, StatusWriteKeeps
<1> QED
  BY <1>5, <1>6

-----------------------------------------------------------------------------
(* The writes of a send after its record, and of its receipts.             *)

\* A transition that names no other hash than the row's, and is terminal only
\* on final evidence.
LEMMA RestatusKeeps ==
  ASSUME Inv, Inv', RecInv, UNCHANGED <<tx, mined, work, latest>>,
         NEW s \in Subjects, NEW to \in Statuses, NEW h \in TxIds \cup {None}, NEW expect,
         \/ row' = row
         \/ row' = [row EXCEPT ![s] = Transition(row[s], to, None, h, expect, Now(s))],
         Meets(row[s], expect) =>
            /\ h \in {None, row[s].hash}
            /\ to \in InFlightOnChain \/ (row[s].hash # None => Final(row[s].hash)),
         SendSteady, PassSteady
  PROVE  RecInv'
<1> DEFINE new == Transition(row[s], to, None, h, expect, Now(s))
<1>1. CountsSteady /\ WorkShrinks /\ WorkIsRead
  BY DEF CountsSteady, WorkShrinks, WorkIsRead
<1>2. row \in [Subjects -> Row]
  BY DEF Inv, TypeOK
<1>3. CASE row' = row
  BY <1>1, <1>3, QuietStepKeeps DEF Quiet
<1>4. CASE row' = [row EXCEPT ![s] = new] /\ ~Meets(row[s], expect)
  <2>1. row' = row
    BY <1>2, <1>4 DEF Transition
  <2> QED
    BY <1>1, <2>1, QuietStepKeeps DEF Quiet
<1>5. CASE row' = [row EXCEPT ![s] = new] /\ Meets(row[s], expect)
  <2>1. new \in Row
    BY <1>2, NowIsStamp, TransitionIsRow
  <2>2. new.hash = row[s].hash /\ new.nonce = row[s].nonce /\ new.stamp = Now(s)
    BY <1>5 DEF Transition, Coalesce
  <2>3. new.status = to
    BY <1>5 DEF Transition
  <2> HIDE DEF new
  <2> QED
    BY <1>1, <1>5, <2>1, <2>2, <2>3, StatusWriteKeeps
<1> QED
  BY <1>3, <1>4, <1>5

\* A receipt at the nonce of a transaction is final for it.
LEMMA ReceiptIsFinal ==
  ASSUME Inv, RecInv, NEW t \in TxIds, tx[t].state # "unsigned", NEW u \in Receipts(t)
  PROVE  Final(t)
<1>1. /\ u \in TxIds /\ tx[u].nonce = tx[t].nonce
      /\ tx[u].state \in {"success", "reverted"}
  BY DEF Receipts
<1>2. tx[t].nonce < mined
  BY <1>1 DEF RecInv, ChainInv
<1>3. tx[t].state \in TxStates
  BY DEF Inv, TypeOK, Tx
<1> QED
  BY <1>2, <1>3 DEF Final, TxStates

\* The second record names the hash of the first.
LEMMA PostRecords ==
  ASSUME Inv, Inv', RecInv, NEW e \in Engines, Post(e)
  PROVE  RecInv'
<1> DEFINE s == cur[e]
           t == mytx[e]
           expect == IF Kind[s] = "action" THEN Anything ELSE AtHash(t)
<1> USE DEF Inv, Goto, DropSend, store, chain, alloc, pass, send
<1>1. pc[e] = "post" /\ s \in Subjects /\ t \in TxIds
  BY DEF Post, TypeOK, SendInv
<1>2. /\ UNCHANGED <<tx, mined, work, latest>>
      /\ \/ row' = row
         \/ row' = [row EXCEPT ![s] = Transition(row[s], "submitted", None, t, expect, Now(s))]
  BY DEF Post, WriteOrLose, Write
<1>3. t = row[s].hash
  BY <1>1 DEF RecInv, RecordInv, OnRecord
<1>4. SendSteady /\ PassSteady
  BY <1>1 DEF Post, TypeOK, SendSteady, PassSteady, Driving, Unrecorded, OnRecord
<1>5. "submitted" \in Statuses /\ "submitted" \in InFlightOnChain
  BY DEF Statuses, InFlightOnChain
<1> HIDE DEF s, t, expect
<1> QED
  BY <1>1, <1>2, <1>3, <1>4, <1>5, RestatusKeeps

\* A failed send leaves the row in flight.
LEMMA CatchRecords ==
  ASSUME Inv, Inv', RecInv, NEW e \in Engines, Catch(e)
  PROVE  RecInv'
<1> DEFINE s == cur[e]
           expect == IF mytx[e] # None THEN Anything ELSE AtStamp(attempt[e])
<1> USE DEF Inv, Goto, DropSend, store, chain, alloc, pass, send
<1>1. pc[e] = "catch" /\ s \in Subjects
  BY DEF Catch, TypeOK, SendInv
<1>2. /\ UNCHANGED <<tx, mined, work, latest>>
      /\ \/ row' = row
         \/ row' = [row EXCEPT ![s] = Transition(row[s], "submitted", None, None, expect, Now(s))]
  BY DEF Catch, WriteOrLose, Write
<1>3. SendSteady /\ PassSteady
  BY <1>1 DEF Catch, StopSending, GiveUp, EndCycle, TypeOK, SendSteady, PassSteady,
     Driving, Unrecorded, OnRecord
<1>4. "submitted" \in Statuses /\ "submitted" \in InFlightOnChain
  BY DEF Statuses, InFlightOnChain
<1> HIDE DEF s, expect
<1> QED
  BY <1>1, <1>2, <1>3, <1>4, RestatusKeeps

\* An approval is closed on a receipt at its nonce.
LEMMA ApprovalReceiptRecords ==
  ASSUME Inv, Inv', RecInv, NEW e \in Engines, ApprovalReceipt(e)
  PROVE  RecInv'
<1> DEFINE s == cur[e]
           t == mytx[e]
<1> USE DEF Inv, Goto, DropSend, store, chain, alloc, pass, send
<1>1. pc[e] = "approved" /\ s \in Subjects /\ t \in TxIds
  BY DEF ApprovalReceipt, TypeOK, SendInv
<1>2. UNCHANGED <<tx, mined, work, latest>>
  BY DEF ApprovalReceipt
<1>3. \/ row' = row
      \/ \E u \in Receipts(t), to \in {"confirmed", "failed"} :
            row' = [row EXCEPT ![s] = Transition(row[s], to, None, t, AtHash(t), Now(s))]
  BY DEF ApprovalReceipt, WriteOrLose, Write
<1>4. SendSteady /\ PassSteady
  BY <1>1 DEF ApprovalReceipt, GiveUp, EndCycle, TypeOK, SendSteady, PassSteady,
     Driving, Unrecorded, OnRecord
<1>5. Meets(row[s], AtHash(t)) => t = row[s].hash
  BY <1>1, NoneAssumption DEF Meets, AtHash, Anything
<1>6. \A u \in Receipts(t) : t = row[s].hash => Final(row[s].hash)
  <2>1. t = row[s].hash => tx[t].state # "unsigned"
    BY <1>1, NoneAssumption DEF RecInv, NameInv, Names
  <2> QED
    BY <1>1, <2>1, ReceiptIsFinal
<1> HIDE DEF s, t
<1>7. CASE row' = row
  BY <1>2, <1>4, <1>7, QuietStepKeeps DEF Quiet, CountsSteady, WorkIsRead
<1>8. ASSUME NEW u \in Receipts(t), NEW to \in {"confirmed", "failed"},
             row' = [row EXCEPT ![s] = Transition(row[s], to, None, t, AtHash(t), Now(s))]
      PROVE  RecInv'
  <2>1. to \in Statuses
    BY DEF Statuses
  <2> QED
    BY <1>1, <1>2, <1>4, <1>5, <1>6, <1>8, <2>1, RestatusKeeps
<1> QED
  BY <1>3, <1>7, <1>8

\* An outcome is recorded from a receipt at its transaction's nonce.
LEMMA OutcomeRecords ==
  ASSUME Inv, Inv', RecInv, NEW e \in Engines, NEW t \in TxIds, Outcome(e, t)
  PROVE  RecInv'
<1> DEFINE s == tx[t].subject
<1> USE DEF Inv, Goto, store, chain, alloc, pass
<1>1. pc[e] = "receipts" /\ UNCHANGED <<tx, mined, work, latest>>
  BY DEF Outcome
<1>2. \/ row' = row
      \/ \E u \in Receipts(t), to \in {"confirmed", "failed"} :
            row' = [row EXCEPT ![s] = Transition(row[s], to, None, t, AtHash(t), Now(s))]
  BY DEF Outcome, WriteOrLose, Write, Classify
<1>3. SendSteady /\ PassSteady
  BY <1>1 DEF Outcome, TypeOK, SendSteady, PassSteady, Driving, Unrecorded, OnRecord
<1>4. Meets(row[s], AtHash(t)) => t = row[s].hash
  BY NoneAssumption DEF Meets, AtHash, Anything
<1>5. s \in Subjects => \A u \in Receipts(t) : t = row[s].hash => Final(row[s].hash)
  <2>1. s \in Subjects /\ t = row[s].hash => tx[t].state # "unsigned"
    BY NoneAssumption DEF RecInv, NameInv, Names
  <2> QED
    BY <2>1, ReceiptIsFinal
<1> HIDE DEF s
<1>6. CASE row' = row
  BY <1>1, <1>3, <1>6, QuietStepKeeps DEF Quiet, CountsSteady, WorkIsRead
<1>7. ASSUME NEW u \in Receipts(t), NEW to \in {"confirmed", "failed"},
             row' = [row EXCEPT ![s] = Transition(row[s], to, None, t, AtHash(t), Now(s))]
      PROVE  RecInv'
  <2>1. to \in Statuses
    BY DEF Statuses
  <2>2. CASE s \in Subjects
    BY <1>1, <1>3, <1>4, <1>5, <1>7, <2>1, <2>2, RestatusKeeps
  <2>3. CASE s \notin Subjects
    <3>1. row' = row
      BY <1>7, <2>3 DEF TypeOK
    <3> QED
      BY <1>6, <3>1
  <2> QED
    BY <2>2, <2>3
<1> QED
  BY <1>2, <1>6, <1>7

-----------------------------------------------------------------------------
(* The chain, the crash, and the broadcast.                                *)

\* A signed transaction moves on, dies, or reaches the pools.
LEMMA RestateEvolves ==
  ASSUME Inv, RecInv, UNCHANGED mined, NEW t \in TxIds, NEW to \in {"limbo", "pool", "dead"},
         tx' = [tx EXCEPT ![t].state = to],
         tx[t].state \in {"signed", "limbo", "pool"},
         tx[t].state = "pool" => to \in Settled
  PROVE  /\ Evolves
         /\ \A u \in TxIds : Live(u)' => Live(u) \/ (u = t /\ to # "dead")
<1>1. /\ mined \in Nat /\ tx \in [TxIds -> Tx] /\ mined' = mined
  BY DEF Inv, TypeOK
<1>2. \A u \in TxIds :
         /\ tx'[u].nonce = tx[u].nonce /\ tx'[u].subject = tx[u].subject
         /\ u # t => tx'[u].state = tx[u].state
         /\ u = t => tx'[u].state = to
  BY <1>1 DEF Tx
<1>3. Evolves
  BY <1>1, <1>2 DEF Evolves, RecInv, ChainInv, Settled
<1>4. \A u \in TxIds : Live(u)' => Live(u) \/ (u = t /\ to # "dead")
  BY <1>1, <1>2 DEF Live
<1> QED
  BY <1>3, <1>4

\* What is sent or lost was broadcast, so no sender waits to broadcast it.
LEMMA ArriveOrLoseRecords ==
  ASSUME Inv, Inv', RecInv, NEW t \in TxIds, Arrive(t) \/ Lose(t)
  PROVE  RecInv'
<1> USE DEF Inv, chainOnly, store, alloc, send, ambient, pass
<1>1. UNCHANGED <<row, mined, work, latest, pc, cur, attempt, mytx>>
  BY DEF Arrive, Lose
<1>2. PICK to \in {"pool", "dead"} : /\ tx' = [tx EXCEPT ![t].state = to]
                                     /\ tx[t].state \in {"limbo", "pool"}
                                     /\ to = "pool" => Live(t)
  BY DEF Arrive, Lose, SetTx, Live
<1>3. /\ Evolves
      /\ \A u \in TxIds : Live(u)' => Live(u) \/ (u = t /\ to # "dead")
  BY <1>1, <1>2, RestateEvolves DEF Settled
<1>4. CountsSteady /\ WorkShrinks /\ SendSteady /\ PassSteady
  BY <1>1 DEF CountsSteady, WorkShrinks, SendSteady, PassSteady, Unrecorded, OnRecord, Driving
<1>5. \A e \in Engines : pc'[e] \in {"mark", "guard"} => tx'[mytx[e]] = tx[mytx[e]]
  <2> SUFFICES ASSUME NEW e \in Engines, pc[e] \in {"mark", "guard"}
               PROVE  tx'[mytx[e]] = tx[mytx[e]]
    BY <1>1
  <2>1. tx[mytx[e]].state = "signed" /\ mytx[e] \in TxIds
    BY DEF RecInv, SignedInv, SendInv, TypeOK
  <2> QED
    BY <1>2, <2>1 DEF TypeOK
<1> QED
  BY <1>1, <1>2, <1>3, <1>4, <1>5, EvolveKeeps

\* A block gives outcomes, and makes nothing live.
LEMMA MineRecords ==
  ASSUME Inv, Inv', RecInv, NEW t \in TxIds, NEW result \in {"success", "reverted"},
         Mine(t, result)
  PROVE  RecInv'
<1> USE DEF Inv, chainOnly, store, alloc, send, ambient, pass
<1>1. /\ UNCHANGED <<row, work, latest, pc, cur, attempt, mytx>>
      /\ mined \in Nat /\ mined' = mined + 1 /\ tx \in [TxIds -> Tx]
      /\ tx[t].state = "pool" /\ tx[t].nonce = mined
  BY DEF Mine, TypeOK
<1>2. \A u \in TxIds :
         /\ tx'[u].nonce = tx[u].nonce /\ tx'[u].subject = tx[u].subject
         /\ \/ u = t /\ tx'[u].state = result
            \/ tx[u].state = "pool" /\ tx'[u].state = "dead"
            \/ tx'[u] = tx[u]
  BY <1>1 DEF Mine, Tx
<1>3. Evolves
  <2>1. mined <= mined'
    BY <1>1
  <2>2. ASSUME NEW u \in TxIds
        PROVE  /\ tx[u].state # "unsigned" => tx'[u].state # "unsigned"
               /\ tx'[u].state # "unsigned" => tx'[u].nonce # None /\ tx'[u].subject # None
               /\ tx[u].state \in Settled => tx'[u].state \in Settled
               /\ tx[u].state \in {"success", "reverted", "dead"} =>
                     tx'[u].state = tx[u].state
    BY <1>1, <1>2 DEF RecInv, ChainInv, Settled
  <2>3. ASSUME NEW u \in TxIds, tx'[u].state \in {"success", "reverted"}
        PROVE  tx'[u].nonce < mined'
    <3>1. CASE u = t
      BY <1>1, <1>2, <3>1
    <3>2. CASE u # t
      <4>1. tx'[u] = tx[u] /\ tx[u].nonce < mined
        BY <1>2, <2>3, <3>2 DEF RecInv, ChainInv
      <4>2. tx[u].nonce \in Nat
        BY <1>1, <2>3, <4>1 DEF RecInv, ChainInv, Tx
      <4> QED
        BY <1>1, <4>1, <4>2
    <3> QED
      BY <3>1, <3>2
  <2> QED
    BY <1>2, <2>1, <2>2, <2>3 DEF Evolves
<1>4. \A u \in TxIds : Live(u)' => Live(u)
  <2> SUFFICES ASSUME NEW u \in TxIds, Live(u)' PROVE Live(u)
    OBVIOUS
  <2>1. tx'[u] = tx[u] /\ tx[u].state \in {"limbo", "pool"} /\ tx[u].nonce >= mined'
    BY <1>2 DEF Live
  <2>2. tx[u].nonce \in Nat
    BY <1>1, <2>1 DEF RecInv, ChainInv, Tx
  <2> QED
    BY <1>1, <2>1, <2>2 DEF Live
<1>5. CountsSteady /\ WorkShrinks /\ SendSteady /\ PassSteady
  BY <1>1 DEF CountsSteady, WorkShrinks, SendSteady, PassSteady, Unrecorded, OnRecord, Driving
<1>6. \A e \in Engines : pc'[e] \in {"mark", "guard"} => tx'[mytx[e]] = tx[mytx[e]]
  <2> SUFFICES ASSUME NEW e \in Engines, pc[e] \in {"mark", "guard"}
               PROVE  tx'[mytx[e]] = tx[mytx[e]]
    BY <1>1
  <2>1. tx[mytx[e]].state = "signed" /\ mytx[e] \in TxIds
    BY DEF RecInv, SignedInv, SendInv, TypeOK
  <2> QED
    BY <1>1, <1>2, <2>1
<1> QED
  BY <1>1, <1>3, <1>4, <1>5, <1>6, EvolveKeeps

\* A crash stops what was signed and not sent, and forgets the rest.
LEMMA CrashRecords ==
  ASSUME Inv, Inv', RecInv, Crash
  PROVE  RecInv'
<1>1. /\ UNCHANGED <<row, mined>> /\ tx \in [TxIds -> Tx] /\ mined \in Nat
      /\ tx' = [t \in TxIds |-> IF tx[t].state = "signed"
                                THEN [tx[t] EXCEPT !.state = "dead"] ELSE tx[t]]
  BY DEF Crash, Inv, TypeOK
<1>2. \A t \in TxIds :
         /\ tx'[t].nonce = tx[t].nonce /\ tx'[t].subject = tx[t].subject
         /\ \/ tx[t].state = "signed" /\ tx'[t].state = "dead"
            \/ tx[t].state # "signed" /\ tx'[t].state = tx[t].state
  BY <1>1 DEF Tx
<1>3. Evolves
  BY <1>1, <1>2 DEF Evolves, RecInv, ChainInv, Settled
<1>4. \A t \in TxIds : Live(t)' => Live(t)
  BY <1>1, <1>2 DEF Live
<1>5. CountsSteady /\ WorkShrinks
  BY DEF Crash, CountsSteady, WorkShrinks
<1>6. /\ SendSteady /\ PassSteady
      /\ \A e \in Engines : pc'[e] \notin {"mark", "guard"}
  BY DEF Crash, SendSteady, PassSteady, Driving, Unrecorded, OnRecord
<1> QED
  BY <1>1, <1>3, <1>4, <1>5, <1>6, EvolveKeeps

\* The lock keeps two engines from being about to broadcast.
LEMMA AloneInLock ==
  ASSUME Inv, NEW e \in Engines, NEW d \in Engines, pc[e] \in InLock, pc[d] \in InLock
  PROVE  d = e
BY DEF Inv, LockInv, Holds

\* What goes live is on record, and nobody else was about to send it.
LEMMA SubmitRecords ==
  ASSUME Inv, Inv', RecInv, NEW e \in Engines, Submit(e)
  PROVE  RecInv'
<1> DEFINE t == mytx[e]
           s == cur[e]
<1> USE DEF Inv, Goto, store, chain, alloc, pass, send, ambient
<1>1. /\ pc[e] = "guard" /\ t \in TxIds /\ s \in Subjects
      /\ tx[t].state = "signed" /\ tx[t].subject = s /\ row[s].hash = t
      /\ row[s].status \in InFlightOnChain \/ tx[t].nonce < mined
  BY DEF Submit, TypeOK, SendInv, RecInv, SignedInv, RecordInv, OnRecord
<1>2. /\ UNCHANGED <<row, mined, work, latest, cur, attempt, mytx>>
      /\ \/ pc' = [pc EXCEPT ![e] = "catch"] /\ tx' = [tx EXCEPT ![t].state = "dead"]
         \/ pc' = [pc EXCEPT ![e] = "wire"] /\ tx' = [tx EXCEPT ![t].state = "limbo"]
  BY DEF Submit, Abandon, SetTx
<1>3. CountsSteady /\ WorkShrinks
  BY <1>2 DEF CountsSteady, WorkShrinks
<1>4. SendSteady /\ PassSteady
  BY <1>1, <1>2 DEF TypeOK, SendSteady, PassSteady, Driving, Unrecorded, OnRecord
<1>5. \A d \in Engines : pc'[d] \in {"mark", "guard"} => tx'[mytx[d]] = tx[mytx[d]]
  <2> SUFFICES ASSUME NEW d \in Engines, pc'[d] \in {"mark", "guard"}
               PROVE  tx'[mytx[d]] = tx[mytx[d]]
    OBVIOUS
  <2>1. d # e /\ pc[d] \in {"mark", "guard"}
    BY <1>2 DEF TypeOK
  <2> QED
    BY <1>1, <2>1, AloneInLock DEF InLock
<1>6. PICK to \in {"limbo", "dead"} : tx' = [tx EXCEPT ![t].state = to]
  BY <1>2
<1>7. /\ Evolves
      /\ \A u \in TxIds : Live(u)' => Live(u) \/ (u = t /\ to # "dead")
  BY <1>1, <1>2, <1>6, RestateEvolves
<1>8. Live(t)' => LET r == row[tx'[t].subject]
                  IN  r.status \in InFlightOnChain /\ r.hash = t /\ r.nonce = tx'[t].nonce
  <2>1. tx'[t].subject = s /\ tx'[t].nonce = tx[t].nonce /\ mined' = mined
    BY <1>1, <1>2, <1>7 DEF Evolves
  <2>2. row[s].nonce = tx[t].nonce
    BY <1>1, NoneAssumption DEF RecInv, NameInv, Names
  <2>3. Live(t)' => ~(tx[t].nonce < mined)
    <3>1. tx[t].nonce \in Nat /\ mined \in Nat
      BY <1>1 DEF TypeOK, RecInv, ChainInv, Tx
    <3> QED
      BY <1>2, <2>1, <3>1 DEF Live
  <2> QED
    BY <1>1, <2>1, <2>2, <2>3
<1> QED
  BY <1>2, <1>3, <1>4, <1>5, <1>7, <1>8, EvolveKeeps

\* A refused broadcast kills the transaction, an ambiguous one changes nothing.
LEMMA ReturnRecords ==
  ASSUME Inv, Inv', RecInv, NEW e \in Engines, Return(e)
  PROVE  RecInv'
<1> DEFINE t == mytx[e]
<1> USE DEF Inv, Goto, store, chain, alloc, pass, send, ambient
<1>1. /\ pc[e] = "wire" /\ t \in TxIds
      /\ UNCHANGED <<row, mined, work, latest, cur, attempt, mytx>>
      /\ \/ pc' = [pc EXCEPT ![e] = "post"]
         \/ pc' = [pc EXCEPT ![e] = "catch"]
      /\ \/ tx' = tx
         \/ tx[t].state = "limbo" /\ tx' = [tx EXCEPT ![t].state = "dead"]
  BY DEF Return, TypeOK, SendInv, SetTx
<1>2. CountsSteady /\ WorkShrinks /\ WorkIsRead
  BY <1>1 DEF CountsSteady, WorkShrinks, WorkIsRead
<1>3. SendSteady /\ PassSteady
  BY <1>1 DEF TypeOK, SendSteady, PassSteady, Driving, Unrecorded, OnRecord
<1>4. CASE tx' = tx
  BY <1>1, <1>2, <1>3, <1>4, QuietStepKeeps DEF Quiet
<1>5. CASE tx[t].state = "limbo" /\ tx' = [tx EXCEPT ![t].state = "dead"]
  <2>1. /\ Evolves
        /\ \A u \in TxIds : Live(u)' => Live(u)
    BY <1>1, <1>5, RestateEvolves
  <2>2. ASSUME NEW d \in Engines, pc'[d] \in {"mark", "guard"}
        PROVE  tx'[mytx[d]] = tx[mytx[d]]
    <3>1. pc[d] \in {"mark", "guard"}
      BY <1>1, <2>2 DEF TypeOK
    <3>2. mytx[d] \in TxIds /\ mytx[d] # t
      BY <1>5, <3>1 DEF RecInv, SignedInv, SendInv, TypeOK
    <3> QED
      BY <1>5, <3>2 DEF TypeOK
  <2> QED
    BY <1>1, <1>2, <1>3, <2>1, <2>2, EvolveKeeps
<1> QED
  BY <1>1, <1>4, <1>5

-----------------------------------------------------------------------------
(* The claim, the signature, and the record before the broadcast.          *)

SenderInv(e) ==
    /\ pc[e] \in Driving => Owner[cur[e]] = e
    /\ pc[e] \in Unrecorded =>
          /\ attempt[e] # None
          /\ row[cur[e]].stamp = attempt[e] => row[cur[e]].hash = None
    /\ pc[e] \in {"mark", "guard"} =>
          tx[mytx[e]].state = "signed" /\ tx[mytx[e]].subject = cur[e]
    /\ pc[e] \in OnRecord => row[cur[e]].hash = mytx[e]
    /\ pc[e] = "guard" => \/ row[cur[e]].status \in InFlightOnChain
                          \/ tx[mytx[e]].nonce < mined

\* A step of e, which leaves the other engines as they are.
OthersWait(e) == \A d \in Engines : d # e =>
    pc'[d] = pc[d] /\ cur'[d] = cur[d] /\ attempt'[d] = attempt[d] /\ mytx'[d] = mytx[d]

\* A write by the sender e to its row s, none of whose transactions is live.
LEMMA OwnWriteKeeps ==
  ASSUME Inv, Inv', RecInv, Evolves, UNCHANGED <<mined, work, latest>>, PassSteady,
         NEW e \in Engines, OthersWait(e), SenderInv(e)',
         NEW s \in Subjects, Owner[s] = e, NEW new \in Row,
         row' = [row EXCEPT ![s] = new], new.stamp = Now(s),
         new.hash # None => /\ tx'[new.hash].state # "unsigned"
                            /\ new.nonce = tx'[new.hash].nonce,
         \A u \in TxIds : Live(u)' => Live(u) /\ tx[u].subject # s,
         \A d \in Engines : d # e /\ pc[d] \in {"mark", "guard"} =>
            tx'[mytx[d]] = tx[mytx[d]]
  PROVE  RecInv'
<1> USE DEF Inv
<1>1. /\ row \in [Subjects -> Row] /\ tx \in [TxIds -> Tx]
      /\ work \in [Engines -> [Subjects -> Row \cup {None}]]
      /\ mined' = mined /\ work' = work /\ latest' = latest
  BY DEF TypeOK
<1>2. row'[s] = new /\ \A u \in Subjects : u # s => row'[u] = row[u]
  BY <1>1
<1>3. ChainInv'
  BY <1>1 DEF Evolves, RecInv, ChainInv
<1>4. NameInv'
  <2>1. ASSUME NEW r \in Row, Names(r)
        PROVE  r.hash # None => /\ tx'[r.hash].state # "unsigned"
                                /\ r.nonce = tx'[r.hash].nonce
    BY <2>1 DEF Names, Evolves, Row
  <2>2. \A u \in Subjects : Names(row[u])'
    <3>1. \A u \in Subjects : u # s => Names(row[u])'
      BY <1>1, <1>2, <2>1 DEF RecInv, NameInv, Names
    <3>2. Names(row[s])'
      BY <1>1, <1>2 DEF Names
    <3> QED
      BY <3>1, <3>2
  <2>3. \A u \in Subjects, d \in Engines : work'[d][u] # None => Names(work[d][u])'
    BY <1>1, <2>1 DEF RecInv, NameInv, Names
  <2> QED
    BY <2>2, <2>3 DEF NameInv
<1>5. StampInv'
  BY <1>1, <1>2, NowIsFresh, NoneAssumption DEF RecInv, StampInv
<1>6. VerdictInv'
  BY VerdictStays
<1>7. LiveTxRecorded'
  <2> SUFFICES ASSUME NEW t \in TxIds, Live(t)'
               PROVE  LET r == row'[tx'[t].subject]
                      IN  r.status \in InFlightOnChain /\ r.hash = t /\ r.nonce = tx'[t].nonce
    BY DEF LiveTxRecorded
  <2>1. Live(t) /\ tx[t].subject # s
    OBVIOUS
  <2>2. /\ tx'[t].nonce = tx[t].nonce /\ tx'[t].subject = tx[t].subject
        /\ tx[t].subject \in Subjects
    BY <1>1, <2>1 DEF Live, Evolves, RecInv, ChainInv, Tx
  <2> QED
    BY <1>2, <2>1, <2>2 DEF RecInv, LiveTxRecorded
<1>8. ASSUME NEW d \in Engines, d # e PROVE SenderInv(d)'
  <2>1. /\ pc'[d] = pc[d] /\ cur'[d] = cur[d]
        /\ attempt'[d] = attempt[d] /\ mytx'[d] = mytx[d]
    BY <1>8 DEF OthersWait
  <2>2. SenderInv(d)
    BY DEF RecInv, OwnerInv, AttemptInv, SignedInv, RecordInv, SenderInv, OnRecord
  <2>3. pc[d] \in Driving => row'[cur[d]] = row[cur[d]]
    BY <1>2, <1>8, <2>2 DEF SenderInv, SendInv, TypeOK, Driving
  <2> QED
    BY <1>1, <1>8, <2>1, <2>2, <2>3 DEF SenderInv, Driving, Unrecorded, OnRecord
<1>9. OwnerInv' /\ AttemptInv' /\ SignedInv' /\ RecordInv'
  BY <1>8 DEF OwnerInv, AttemptInv, SignedInv, RecordInv, SenderInv
<1> QED
  BY <1>3, <1>4, <1>5, <1>6, <1>7, <1>9 DEF RecInv

\* A row is only claimed once none of its transactions is live.
LEMMA ClaimRecords ==
  ASSUME Inv, Inv', RecInv, NEW e \in Engines, NEW s \in Subjects, Claim(e, s)
  PROVE  RecInv'
<1> DEFINE new == Recorded("pending", Now(s))
<1> USE DEF Inv, Goto, store, chain, alloc, pass, send
<1>1. /\ UNCHANGED <<tx, mined, work, latest, mytx>>
      /\ pc[e] \in {"drive", "halted"} /\ Owner[s] = e
      /\ row' = [row EXCEPT ![s] = new] /\ Recordable(row[s])
  BY DEF Claim, MayClaim, Write
<1>2. \/ /\ cur' = [cur EXCEPT ![e] = s]
         /\ attempt' = [attempt EXCEPT ![e] = Now(s)]
         /\ pc' = [pc EXCEPT ![e] = "claimed"]
      \/ /\ UNCHANGED <<cur, attempt>>
         /\ \E label \in {"drive", "halted", "idle"} : pc' = [pc EXCEPT ![e] = label]
  BY DEF Claim, GiveUp, EndCycle
<1>3. /\ new \in Row /\ new.stamp = Now(s) /\ new.hash = None
      /\ Now(s) # None
  BY NowIsStamp, RecordedIsRow, NoneAssumption DEF Recorded
<1>4. Evolves
  BY <1>1, StillEvolves
<1>5. OthersWait(e) /\ PassSteady
  <2>1. /\ pc \in [Engines -> Labels] /\ cur \in [Engines -> Subjects \cup {None}]
        /\ attempt \in [Engines -> Stamps \cup {None}]
    BY DEF TypeOK
  <2> HIDE DEF Inv, new
  <2>2. \A d \in Engines : d # e =>
           pc'[d] = pc[d] /\ cur'[d] = cur[d] /\ attempt'[d] = attempt[d]
    BY <1>2, <2>1
  <2>3. pc'[e] \in {"claimed", "drive", "halted", "idle"}
    BY <1>2, <2>1
  <2> QED
    BY <1>1, <2>2, <2>3 DEF OthersWait, PassSteady
<1>6. \A u \in TxIds : Live(u)' => Live(u) /\ tx[u].subject # s
  BY <1>1 DEF Live, RecInv, LiveTxRecorded, Recordable, LiveForDedup, InFlightOnChain
<1>7. SenderInv(e)'
  <2>1. row'[s] = new
    BY <1>1 DEF TypeOK
  <2> HIDE DEF new
  <2> QED
    BY <1>1, <1>2, <1>3, <2>1
       DEF SenderInv, Driving, Unrecorded, OnRecord, TypeOK
<1> HIDE DEF new
<1> QED
  BY <1>1, <1>3, <1>4, <1>5, <1>6, <1>7, OwnWriteKeeps

\* A signature is of a transaction nobody has seen.
LEMMA SignRecords ==
  ASSUME Inv, Inv', RecInv, NEW e \in Engines, Sign(e)
  PROVE  RecInv'
<1> USE DEF Inv, Goto, store, chain, alloc, pass
<1>1. /\ UNCHANGED <<row, mined, work, latest, cur, attempt>>
      /\ pc[e] = "sign" /\ cur[e] # None /\ lease # None
  BY DEF Sign, TypeOK, BootInv, SendInv
<1>2. CountsSteady /\ WorkShrinks /\ WorkIsRead
  BY <1>1 DEF CountsSteady, WorkShrinks, WorkIsRead
<1>3. CASE pc' = [pc EXCEPT ![e] = "catch"] /\ UNCHANGED <<tx, mytx>>
  <2>1. SendSteady /\ PassSteady
    BY <1>1, <1>3 DEF TypeOK, SendSteady, PassSteady, Driving, Unrecorded, OnRecord
  <2> QED
    BY <1>1, <1>2, <1>3, <2>1, QuietStepKeeps DEF Quiet
<1>4. CASE \E t \in NextTxId, nonce \in Nat :
              /\ tx' = [tx EXCEPT ![t] = [subject |-> cur[e], nonce |-> nonce,
                                          state |-> "signed"]]
              /\ mytx' = [mytx EXCEPT ![e] = t]
              /\ pc' = [pc EXCEPT ![e] = "mark"]
  <2>1. PICK t \in NextTxId, nonce \in Nat :
              /\ tx' = [tx EXCEPT ![t] = [subject |-> cur[e], nonce |-> nonce,
                                          state |-> "signed"]]
              /\ mytx' = [mytx EXCEPT ![e] = t]
              /\ pc' = [pc EXCEPT ![e] = "mark"]
    BY <1>4
  <2>2. t \in TxIds /\ tx[t].state = "unsigned"
    BY DEF NextTxId
  <2>3. /\ tx'[t].subject = cur[e] /\ tx'[t].nonce = nonce /\ tx'[t].state = "signed"
        /\ \A u \in TxIds : u # t => tx'[u] = tx[u]
    BY <2>1, <2>2 DEF TypeOK
  <2>4. nonce # None
    BY NoneAssumption
  <2>5. Evolves
    <3>1. mined <= mined'
      BY <1>1 DEF TypeOK
    <3>2. ASSUME NEW u \in TxIds
          PROVE  \/ tx[u].state = "unsigned" /\ u = t
                 \/ /\ tx'[u] = tx[u]
                    /\ tx[u].state # "unsigned" =>
                          tx[u].nonce # None /\ tx[u].subject # None
                    /\ tx[u].state \in {"success", "reverted"} => tx[u].nonce < mined'
      BY <1>1, <2>2, <2>3 DEF RecInv, ChainInv
    <3> QED
      BY <1>1, <2>3, <2>4, <3>1, <3>2 DEF Evolves, Settled
  <2>6. \A u \in TxIds : Live(u)' => Live(u)
    BY <1>1, <2>3 DEF Live
  <2>7. PassSteady
    BY <1>1, <2>1 DEF TypeOK, PassSteady
  <2>8. ChainInv' /\ NameInv' /\ StampInv' /\ VerdictInv' /\ LiveTxRecorded'
    BY <1>1, <1>2, <2>5, <2>6, <2>7, EvidenceKeeps
  <2>9. OwnerInv' /\ AttemptInv'
    BY <1>1, <2>1 DEF TypeOK, RecInv, OwnerInv, AttemptInv, Driving, Unrecorded
  <2>10. ASSUME NEW d \in Engines, d # e
         PROVE  /\ pc'[d] = pc[d] /\ mytx'[d] = mytx[d]
                /\ pc[d] \in {"mark", "guard"} => tx'[mytx[d]] = tx[mytx[d]]
    <3>1. pc'[d] = pc[d] /\ mytx'[d] = mytx[d]
      BY <2>1, <2>10 DEF TypeOK
    <3>2. pc[d] \in {"mark", "guard"} => mytx[d] \in TxIds /\ tx[mytx[d]].state = "signed"
      BY DEF TypeOK, SendInv, RecInv, SignedInv
    <3> QED
      BY <2>2, <2>3, <3>1, <3>2
  <2>11. pc'[e] = "mark" /\ mytx'[e] = t
    BY <2>1 DEF TypeOK
  <2>12. SignedInv'
    BY <1>1, <2>3, <2>10, <2>11 DEF RecInv, SignedInv
  <2>13. RecordInv'
    BY <1>1, <2>10, <2>11 DEF RecInv, RecordInv, OnRecord
  <2> QED
    BY <2>8, <2>9, <2>12, <2>13 DEF RecInv
<1>5. \/ pc' = [pc EXCEPT ![e] = "catch"] /\ UNCHANGED <<tx, mytx>>
      \/ \E t \in NextTxId, nonce \in Nat :
            /\ tx' = [tx EXCEPT ![t] = [subject |-> cur[e], nonce |-> nonce,
                                        state |-> "signed"]]
            /\ mytx' = [mytx EXCEPT ![e] = t]
            /\ pc' = [pc EXCEPT ![e] = "mark"]
  BY <1>1 DEF Sign, TypeOK
<1> QED
  BY <1>3, <1>4, <1>5

\* The record is made on an attempt without a hash, by its only sender.
LEMMA MarkRecords ==
  ASSUME Inv, Inv', RecInv, NEW e \in Engines, Mark(e)
  PROVE  RecInv'
<1> DEFINE s == cur[e]
           t == mytx[e]
           new == [status |-> "pending", nonce |-> tx[t].nonce, hash |-> t,
                   stamp |-> Now(s)]
<1> USE DEF Inv, Goto, store, chain, alloc, pass
<1>1. /\ pc[e] = "mark" /\ s \in Subjects /\ t \in TxIds
      /\ tx[t].state = "signed" /\ tx[t].subject = s /\ tx[t].nonce \in Nat
      /\ Owner[s] = e /\ attempt[e] # None
      /\ row[s].stamp = attempt[e] => row[s].hash = None
      /\ UNCHANGED <<mined, work, latest, cur>>
  BY DEF Mark, TypeOK, SendInv, Tx,
     RecInv, SignedInv, OwnerInv, AttemptInv, ChainInv, Driving, Unrecorded
<1>2. Meets(row[s], AtStamp(attempt[e])) =>
         Transition(row[s], "pending", tx[t].nonce, t, AtStamp(attempt[e]), Now(s)) = new
  BY <1>1, NoneAssumption DEF Transition, Coalesce
<1>3. ~Meets(row[s], AtStamp(attempt[e])) =>
         Transition(row[s], "pending", tx[t].nonce, t, AtStamp(attempt[e]), Now(s)) = row[s]
  BY DEF Transition
<1>4. \/ /\ Meets(row[s], AtStamp(attempt[e])) /\ row' = [row EXCEPT ![s] = new]
         /\ pc' = [pc EXCEPT ![e] = "guard"] /\ UNCHANGED <<tx, mytx>>
         /\ attempt' = [attempt EXCEPT ![e] = None]
      \/ /\ \/ row' = row
            \/ /\ Meets(row[s], AtStamp(attempt[e]))
               /\ row' = [row EXCEPT ![s] = new]
         /\ pc' = [pc EXCEPT ![e] = "catch"] /\ tx' = [tx EXCEPT ![t].state = "dead"]
         /\ mytx' = [mytx EXCEPT ![e] = None]
         /\ attempt' = attempt
  <2>1. [row EXCEPT ![s] = row[s]] = row
    BY <1>1 DEF TypeOK
  <2> QED
    BY <1>2, <1>3, <2>1 DEF Mark, Write, Abandon, SetTx
<1>5. new \in Row /\ new.stamp = Now(s) /\ new.hash = t /\ new.nonce = tx[t].nonce
      /\ new.status \in InFlightOnChain
  BY <1>1, NowIsStamp DEF Row, Statuses, InFlightOnChain
<1>6. Meets(row[s], AtStamp(attempt[e])) =>
         \A u \in TxIds : Live(u) => tx[u].subject # s
  BY <1>1, NoneAssumption DEF Meets, AtStamp, Anything, RecInv, LiveTxRecorded
<1>7. \A d \in Engines : d # e => pc[d] \notin {"mark", "guard"}
  BY <1>1, AloneInLock DEF InLock
<1>8. OthersWait(e) /\ PassSteady
  <2>1. /\ pc \in [Engines -> Labels] /\ cur \in [Engines -> Subjects \cup {None}]
        /\ attempt \in [Engines -> Stamps \cup {None}]
        /\ mytx \in [Engines -> TxIds \cup {None}]
    BY DEF TypeOK
  <2> HIDE DEF Inv, new
  <2>2. \A d \in Engines : d # e =>
           pc'[d] = pc[d] /\ attempt'[d] = attempt[d] /\ mytx'[d] = mytx[d]
    BY <1>4, <2>1
  <2>3. pc'[e] \in {"guard", "catch"}
    BY <1>4, <2>1
  <2> QED
    BY <1>1, <2>2, <2>3 DEF OthersWait, PassSteady
<1> HIDE DEF new
<1>9. CASE pc' = [pc EXCEPT ![e] = "guard"]
  <2>1. /\ Meets(row[s], AtStamp(attempt[e])) /\ row' = [row EXCEPT ![s] = new]
        /\ UNCHANGED <<tx, mytx>> /\ pc'[e] = "guard"
    BY <1>4, <1>9, <1>1 DEF TypeOK
  <2>2. Evolves
    BY <1>1, <2>1, StillEvolves
  <2>3. \A u \in TxIds : Live(u)' => Live(u) /\ tx[u].subject # s
    BY <1>1, <1>6, <2>1 DEF Live
  <2>4. tx'[t].state # "unsigned" /\ new.nonce = tx'[t].nonce
    BY <1>1, <1>5, <2>1
  <2>5. SenderInv(e)'
    <3>1. row'[s] = new
      BY <1>1, <2>1 DEF TypeOK
    <3> QED
      BY <1>1, <1>5, <2>1, <3>1 DEF SenderInv, Driving, Unrecorded, OnRecord
  <2> HIDE DEF s, t
  <2> QED
    BY <1>1, <1>5, <1>7, <1>8, <2>1, <2>2, <2>3, <2>4, <2>5, OwnWriteKeeps
<1>10. CASE pc' = [pc EXCEPT ![e] = "catch"]
  <2>1. /\ tx' = [tx EXCEPT ![t].state = "dead"] /\ pc'[e] = "catch"
        /\ \/ row' = row
           \/ Meets(row[s], AtStamp(attempt[e])) /\ row' = [row EXCEPT ![s] = new]
    BY <1>4, <1>10, <1>1 DEF TypeOK
  <2>2. Evolves /\ \A u \in TxIds : Live(u)' => Live(u)
    BY <1>1, <2>1, RestateEvolves
  <2>3. CASE row' = row
    <3>1. CountsSteady /\ WorkShrinks
      BY <1>1 DEF CountsSteady, WorkShrinks
    <3>2. SendSteady
      BY <1>1, <1>8, <1>10 DEF TypeOK, OthersWait, SendSteady, Driving, Unrecorded, OnRecord
    <3>3. \A d \in Engines : pc'[d] \notin {"mark", "guard"}
      BY <1>7, <1>8, <2>1 DEF OthersWait
    <3> QED
      BY <1>1, <1>8, <2>2, <2>3, <3>1, <3>2, <3>3, EvolveKeeps
  <2>4. CASE Meets(row[s], AtStamp(attempt[e])) /\ row' = [row EXCEPT ![s] = new]
    <3>1. tx'[t].state # "unsigned" /\ new.nonce = tx'[t].nonce
      BY <1>1, <1>5, <2>2 DEF Evolves
    <3>2. SenderInv(e)'
      BY <1>1, <2>1 DEF SenderInv, Driving, Unrecorded, OnRecord
    <3> HIDE DEF s, t
    <3> QED
      BY <1>1, <1>5, <1>6, <1>7, <1>8, <2>2, <2>4, <3>1, <3>2, OwnWriteKeeps
  <2> QED
    BY <2>1, <2>3, <2>4
<1> QED
  BY <1>4, <1>9, <1>10

-----------------------------------------------------------------------------
(* The theorem.                                                            *)

\* Nothing is signed or recorded at first.
LEMMA RecInit == Init => RecInv
BY NoneAssumption
   DEF Init, NoTx, NoRow, Live, InFlightOnChain,
       RecInv, ChainInv, NameInv, Names, OwnerInv, Driving, StampInv, AttemptInv,
       Unrecorded, SignedInv, RecordInv, OnRecord, VerdictInv, LiveTxRecorded

\* Every step keeps what the record rests on.
LEMMA RecNext == Inv /\ Inv' /\ RecInv /\ [Next]_vars => RecInv'
<1> SUFFICES ASSUME Inv, Inv', RecInv, [Next]_vars PROVE RecInv'
  OBVIOUS
<1>1. ASSUME NEW e \in Engines, Boot(e) \/ Pass(e) \/ Resync(e) \/ Throw(e)
      PROVE  RecInv'
  BY <1>1, BootRecords, SnapshotRecords, ReadCountsRecords, ProbeRecords,
     WriteVerdictRecords, EndPassRecords, SkipSendingRecords, JudgeRecords,
     ReadPendingRecords, ReadSignedRecords, SeedRecords, ThrowRecords
     DEF Pass, Resync
<1>2. ASSUME NEW e \in Engines, Drive(e) PROVE RecInv'
  BY <1>2, ClaimRecords, BeginSendRecords, SignRecords, MarkRecords,
     SubmitRecords, ReturnRecords, PostRecords, CatchRecords,
     ApprovalReceiptRecords, EndDriveRecords, OutcomeRecords
     DEF Drive
<1>3. ASSUME Environment PROVE RecInv'
  BY <1>3, GateRecords, CrashRecords, ArriveOrLoseRecords, MineRecords DEF Environment
<1>4. CASE UNCHANGED vars
  BY <1>4, StillRecords
<1> QED
  BY <1>1, <1>2, <1>3, <1>4 DEF Next

\* What the record rests on holds in every reachable state.
THEOREM RecHolds == Spec => []RecInv
<1> QED
  BY InvHolds, RecInit, RecNext, PTL DEF Spec

(* A transaction that can still be mined is on record, in flight and under *)
(* its hash and nonce, however the engines, the chain, lost writes and     *)
(* crashes interleave (markPending before the broadcast, and a verdict     *)
(* only on final evidence).                                                *)
THEOREM LiveIsRecorded == Spec => []LiveTxRecorded
<1>1. RecInv => LiveTxRecorded
  BY DEF RecInv
<1> QED
  BY <1>1, RecHolds, PTL

-----------------------------------------------------------------------------
(* What a step may never do.                                               *)

\* The steps that write a row.
LEMMA RowWriters ==
  ASSUME [Next]_vars, row' # row
  PROVE  \E e \in Engines :
            \/ WriteVerdict(e) \/ Mark(e) \/ Post(e) \/ Catch(e) \/ ApprovalReceipt(e)
            \/ \E s \in Subjects : Claim(e, s)
            \/ \E t \in TxIds : Outcome(e, t)
<1> USE DEF store, chainOnly
<1>1. ASSUME NEW e \in Engines, Boot(e) \/ Resync(e) \/ Throw(e) PROVE FALSE
  BY <1>1 DEF Boot, Resync, ReadPending, ReadSigned, Seed, Throw
<1>2. ASSUME NEW e \in Engines, Pass(e) PROVE WriteVerdict(e)
  BY <1>2 DEF Pass, Snapshot, ReadCounts, Probe, EndPass, SkipSending, Judge
<1>3. ASSUME NEW e \in Engines, Drive(e)
      PROVE  \/ Mark(e) \/ Post(e) \/ Catch(e) \/ ApprovalReceipt(e)
             \/ \E s \in Subjects : Claim(e, s)
             \/ \E t \in TxIds : Outcome(e, t)
  BY <1>3 DEF Drive, BeginSend, Sign, Submit, Return, EndDrive
<1>4. ~Environment
  BY DEF Environment, Halt, Resume, Crash, Arrive, Lose, Mine
<1>5. ~UNCHANGED vars
  BY DEF vars
<1> QED
  BY <1>1, <1>2, <1>3, <1>4, <1>5 DEF Next

\* A write guarded by a hash does not change it.
LEMMA TransitionKeepsHash ==
  ASSUME NEW r, NEW to, NEW nonce, NEW hash, NEW expect, NEW now,
         hash = None \/ expect.hash = hash \/ r.hash = hash
  PROVE  Transition(r, to, nonce, hash, expect, now).hash = r.hash
BY DEF Transition, Coalesce, Meets

\* A hash comes from the record of the transaction an engine has signed for
\* the row, on an attempt that has none.
LEMMA HashSource ==
  ASSUME Inv, RecInv, [Next]_vars, NEW s \in Subjects, row'[s].hash # row[s].hash
  PROVE  \/ row'[s].hash = None
         \/ /\ row[s].hash = None
            /\ \E e \in Engines : pc[e] = "mark" /\ cur[e] = s /\ row'[s].hash = mytx[e]
<1> USE DEF Write, WriteOrLose
<1>1. row \in [Subjects -> Row]
  BY DEF Inv, TypeOK
<1>2. PICK e \in Engines :
            \/ WriteVerdict(e) \/ Mark(e) \/ Post(e) \/ Catch(e) \/ ApprovalReceipt(e)
            \/ \E u \in Subjects : Claim(e, u)
            \/ \E t \in TxIds : Outcome(e, t)
  BY RowWriters
<1>3. ASSUME NEW u, NEW to, NEW nonce, NEW hash, NEW expect, NEW now,
             row' = [row EXCEPT ![u] = Transition(row[u], to, nonce, hash, expect, now)],
             hash = None \/ expect.hash = hash \/ row[u].hash = hash
      PROVE  row'[s].hash = row[s].hash
  BY <1>1, <1>3, TransitionKeepsHash
<1>4. CASE WriteVerdict(e)
  <2>1. AsRead(work[e][cur[e]]).hash = work[e][cur[e]].hash
    BY DEF AsRead
  <2> QED
    BY <1>3, <1>4, <2>1 DEF WriteVerdict
<1>5. ASSUME Mark(e)
      PROVE  pc[e] = "mark" /\ cur[e] = s /\ row[s].hash = None /\ row'[s].hash = mytx[e]
  <2>1. /\ pc[e] = "mark" /\ cur[e] \in Subjects /\ attempt[e] # None
        /\ mytx[e] \in TxIds
        /\ row[cur[e]].stamp = attempt[e] => row[cur[e]].hash = None
    BY <1>5 DEF Mark, Inv, TypeOK, SendInv, RecInv, AttemptInv, Unrecorded
  <2>2. /\ Meets(row[cur[e]], AtStamp(attempt[e])) /\ cur[e] = s
        /\ row'[s] = Transition(row[s], "pending", tx[mytx[e]].nonce, mytx[e],
                                AtStamp(attempt[e]), Now(s))
    <3>1. \/ row' = row
          \/ row' = [row EXCEPT ![cur[e]] =
                        Transition(row[cur[e]], "pending", tx[mytx[e]].nonce, mytx[e],
                                   AtStamp(attempt[e]), Now(cur[e]))]
      BY <1>1, <1>5 DEF Mark
    <3> QED
      BY <1>1, <2>1, <3>1 DEF Transition
  <2>3. row[s].hash = None
    BY <2>1, <2>2 DEF Meets, AtStamp, Anything
  <2> QED
    BY <2>1, <2>2, <2>3, NoneAssumption DEF Transition, Coalesce
<1>6. CASE Post(e)
  <2>1. row[cur[e]].hash = mytx[e]
    BY <1>6 DEF Post, RecInv, RecordInv, OnRecord
  <2> QED
    BY <1>3, <1>6, <2>1 DEF Post
<1>7. CASE Catch(e)
  BY <1>3, <1>7 DEF Catch
<1>8. CASE ApprovalReceipt(e)
  <2>1. AtHash(mytx[e]).hash = mytx[e]
    BY DEF AtHash, Anything
  <2>2. \/ row' = row
        \/ \E to : row' = [row EXCEPT ![cur[e]] =
                             Transition(row[cur[e]], to, None, mytx[e],
                                        AtHash(mytx[e]), Now(cur[e]))]
    BY <1>8 DEF ApprovalReceipt
  <2> QED
    BY <1>3, <2>1, <2>2
<1>9. ASSUME NEW u \in Subjects, Claim(e, u) PROVE row'[s].hash = None
  BY <1>1, <1>9 DEF Claim, Recorded
<1>10. ASSUME NEW t \in TxIds, Outcome(e, t) PROVE FALSE
  <2>1. AtHash(t).hash = t
    BY DEF AtHash, Anything
  <2> QED
    BY <1>3, <1>10, <2>1 DEF Outcome
<1> QED
  BY <1>2, <1>4, <1>5, <1>6, <1>7, <1>8, <1>9, <1>10

\* A row that has a hash keeps it until a new attempt clears it.
LEMMA HashStep ==
  ASSUME Inv, RecInv, [Next]_vars, NEW s \in Subjects,
         row[s].hash # None, row'[s].hash # row[s].hash
  PROVE  row'[s].hash = None
BY HashSource

(* An attempt keeps the hash it was recorded with: whatever write comes    *)
(* late, of whichever engine, it does not land on another attempt under    *)
(* the same id (the guards of transition, intent-store).                   *)
THEOREM HashIsWrittenOnce == Spec => HashWrittenOnce
<1>1. Inv /\ RecInv /\ [Next]_vars =>
        [\A s \in Subjects :
            row[s].hash # None /\ row'[s].hash # row[s].hash => row'[s].hash = None]_vars
  BY HashStep
<1> QED
  BY <1>1, InvHolds, RecHolds, PTL DEF Spec, HashWrittenOnce

\* Only Submit broadcasts, and what it broadcasts is of the engine's own row.
LEMMA BroadcastStep ==
  ASSUME Inv, RecInv, [Next]_vars, NEW t \in TxIds,
         tx[t].state = "signed", tx'[t].state = "limbo"
  PROVE  \E e \in Engines : Submit(e) /\ tx[t].subject = cur[e]
<1> USE DEF store, chain, chainOnly, SetTx, Abandon
<1>1. tx \in [TxIds -> Tx] /\ tx' # tx
  BY DEF Inv, TypeOK
<1>2. ASSUME NEW e \in Engines, Boot(e) \/ Resync(e) \/ Throw(e) \/ Pass(e) PROVE FALSE
  BY <1>1, <1>2 DEF Boot, Resync, ReadPending, ReadSigned, Seed, Throw, Pass, Snapshot,
     ReadCounts, Probe, WriteVerdict, EndPass, SkipSending, Judge
<1>3. ASSUME NEW e \in Engines, Drive(e) PROVE Submit(e) /\ tx[t].subject = cur[e]
  <2>1. Sign(e) \/ Mark(e) \/ Submit(e) \/ Return(e)
    BY <1>1, <1>3 DEF Drive, Claim, BeginSend, Post, Catch, ApprovalReceipt, EndDrive, Outcome
  <2>2. ~Sign(e)
    BY <1>1 DEF Sign
  <2>3. ~Mark(e)
    <3>1. Mark(e) => tx' = tx \/ tx' = [tx EXCEPT ![mytx[e]].state = "dead"]
      BY DEF Mark
    <3> QED
      BY <1>1, <3>1 DEF Tx
  <2>4. ~Return(e)
    BY <1>1 DEF Return
  <2>5. CASE Submit(e)
    <3>1. pc[e] = "guard" /\ t = mytx[e]
      BY <1>1, <2>5 DEF Submit
    <3> QED
      BY <2>5, <3>1 DEF RecInv, SignedInv
  <2> QED
    BY <2>1, <2>2, <2>3, <2>4, <2>5
<1>4. ASSUME Environment PROVE FALSE
  <2>1. ~Halt /\ ~Resume
    BY <1>1 DEF Halt, Resume
  <2>2. ~Crash
    BY <1>1 DEF Crash, Tx
  <2>3. ASSUME NEW u \in TxIds, Arrive(u) \/ Lose(u) PROVE FALSE
    BY <1>1, <2>3 DEF Arrive, Lose
  <2>4. ASSUME NEW u \in TxIds, NEW result \in {"success", "reverted"}, Mine(u, result)
        PROVE  FALSE
    BY <1>1, <2>4 DEF Mine
  <2> QED
    BY <1>4, <2>1, <2>2, <2>3, <2>4 DEF Environment
<1>5. ~UNCHANGED vars
  BY <1>1 DEF vars
<1> QED
  BY <1>2, <1>3, <1>4, <1>5 DEF Next

(* Nothing but a revocation is broadcast while the gate is halted, even if *)
(* the halt came after the claim, the signature or the record              *)
(* (beforeBroadcast), and whoever signed it.                               *)
THEOREM HaltedIsQuiet == Spec => HaltedMeansQuiet
<1>1. ASSUME Inv, RecInv, [Next]_vars, NEW t \in TxIds,
             halted, tx[t].state = "signed", Kind[tx[t].subject] # "revoke"
      PROVE  tx'[t].state # "limbo"
  <2> SUFFICES ASSUME tx'[t].state = "limbo" PROVE FALSE
    OBVIOUS
  <2>1. PICK e \in Engines : Submit(e) /\ tx[t].subject = cur[e]
    BY <1>1, BroadcastStep
  <2>2. tx' = [tx EXCEPT ![mytx[e]].state = "dead"]
    BY <1>1, <2>1 DEF Submit, Guarded, Abandon, SetTx
  <2> QED
    BY <1>1, <2>2 DEF Inv, TypeOK
<1>2. Inv /\ RecInv /\ [Next]_vars =>
        [\A t \in TxIds :
            halted /\ tx[t].state = "signed" /\ Kind[tx[t].subject] # "revoke"
                => tx'[t].state # "limbo"]_vars
  BY <1>1
<1> QED
  BY <1>2, InvHolds, RecHolds, PTL DEF Spec, HaltedMeansQuiet

-----------------------------------------------------------------------------
(* The fence.  A transaction that can still be mined holds its nonce, and  *)
(* so does one signed and not yet sent; the lease lies above all of them   *)
(* and the hole beside them.                                               *)

Holding(t) == tx[t].state \in {"signed", "limbo", "pool"} /\ tx[t].nonce >= mined

LeaseInv ==
    /\ hole # None => lease # None /\ hole < lease
    /\ lease # None =>
          \A t \in TxIds : Holding(t) => tx[t].nonce < lease /\ tx[t].nonce # hole

OneInv == \A t, u \in TxIds :
    Holding(t) /\ Holding(u) /\ t # u => tx[t].nonce # tx[u].nonce

\* A signed transaction is in the hands of the engine inside the lock, so
\* nobody holds one while another engine seeds the lease.
HeldInv == \A t \in TxIds : tx[t].state = "signed" =>
    \E e \in Engines : pc[e] \in {"mark", "guard"} /\ mytx[e] = t

\* The rows read for the lease name everything that may still be mined when
\* the lease is set.
SeedInv == \A e \in Engines : pc[e] = "seed" =>
    \A t \in TxIds : Live(t) =>
        \E s \in Subjects : work[e][s] # None /\ work[e][s].hash = t

FenceInv == LeaseInv /\ OneInv /\ HeldInv /\ SeedInv

\* What is live holds its nonce.
LEMMA LiveHolds ==
  ASSUME NEW t \in TxIds, Live(t)
  PROVE  Holding(t)
BY DEF Live, Holding

\* A step by which nothing takes a nonce, under the same lease.
LEMMA FenceSteady ==
  ASSUME FenceInv, UNCHANGED <<lease, hole>>,
         \A t \in TxIds : Holding(t)' => Holding(t) /\ tx'[t].nonce = tx[t].nonce,
         \A t \in TxIds : tx'[t].state = "signed" =>
            /\ tx[t].state = "signed"
            /\ \A e \in Engines : pc[e] \in {"mark", "guard"} /\ mytx[e] = t
                  => pc'[e] \in {"mark", "guard"} /\ mytx'[e] = t,
         \A e \in Engines : pc'[e] = "seed" =>
            /\ pc[e] = "seed" /\ work'[e] = work[e]
            /\ \A t \in TxIds : Live(t)' => Live(t)
  PROVE  FenceInv'
<1>1. LeaseInv'
  BY DEF FenceInv, LeaseInv
<1>2. OneInv'
  BY DEF FenceInv, OneInv
<1>3. HeldInv'
  <2> SUFFICES ASSUME NEW t \in TxIds, tx'[t].state = "signed"
               PROVE  \E e \in Engines : pc'[e] \in {"mark", "guard"} /\ mytx'[e] = t
    BY DEF HeldInv
  <2> QED
    BY DEF FenceInv, HeldInv
<1>4. SeedInv'
  BY DEF FenceInv, SeedInv
<1> QED
  BY <1>1, <1>2, <1>3, <1>4 DEF FenceInv

\* A step of one engine that touches neither chain nor lease, and has nothing
\* to do with signing and seeding.
Bystanding(e) ==
    /\ UNCHANGED <<tx, mined, lease, hole>>
    /\ pc[e] \notin {"mark", "guard"} /\ pc'[e] # "seed"
    /\ \A f \in Engines \ {e} : /\ pc'[f] = pc[f]
                                /\ mytx'[f] = mytx[f]
                                /\ work'[f] = work[f]

LEMMA BystandingKeeps ==
  ASSUME FenceInv, NEW e \in Engines, Bystanding(e)
  PROVE  FenceInv'
<1>1. \A t \in TxIds : Holding(t)' => Holding(t) /\ tx'[t].nonce = tx[t].nonce
  BY DEF Bystanding, Holding
<1>2. \A t \in TxIds : tx'[t].state = "signed" =>
            /\ tx[t].state = "signed"
            /\ \A f \in Engines : pc[f] \in {"mark", "guard"} /\ mytx[f] = t
                  => pc'[f] \in {"mark", "guard"} /\ mytx'[f] = t
  BY DEF Bystanding
<1>3. \A f \in Engines : pc'[f] = "seed" =>
            /\ pc[f] = "seed" /\ work'[f] = work[f]
            /\ \A t \in TxIds : Live(t)' => Live(t)
  BY DEF Bystanding, Live
<1>4. UNCHANGED <<lease, hole>>
  BY DEF Bystanding
<1> QED
  BY <1>1, <1>2, <1>3, <1>4, FenceSteady

\* The steps of a pass.
LEMMA PassFences ==
  ASSUME Inv, NEW e \in Engines, Pass(e)
  PROVE  Bystanding(e)
<1> USE DEF store, chain, alloc, send, ambient
<1>1. /\ pc \in [Engines -> Labels]
      /\ work \in [Engines -> [Subjects -> Row \cup {None}]]
  BY DEF Inv, TypeOK
<1>2. CASE Snapshot(e) \/ ReadCounts(e)
  BY <1>1, <1>2 DEF Snapshot, ReadCounts, Goto, Bystanding
<1>3. CASE Probe(e) \/ WriteVerdict(e)
  BY <1>1, <1>3 DEF Probe, WriteVerdict, Goto, Forget, Bystanding
<1>4. CASE EndPass(e)
  BY <1>1, <1>4 DEF EndPass, Goto, Bystanding
<1>5. ASSUME NEW s \in Subjects, SkipSending(e, s) PROVE Bystanding(e)
  BY <1>1, <1>5 DEF SkipSending, Forget, Bystanding
<1>6. ASSUME NEW s \in Subjects, NEW old \in BOOLEAN, Judge(e, s, old)
      PROVE  Bystanding(e)
  <2>1. /\ UNCHANGED <<tx, mined, lease, hole, mytx>> /\ pc[e] = "judge"
        /\ \/ UNCHANGED pc /\ work' = [work EXCEPT ![e][s] = None]
           \/ \E label \in {"probe", "write"} :
                 pc' = [pc EXCEPT ![e] = label] /\ UNCHANGED work
    BY <1>6 DEF Judge, Goto, Forget
  <2> QED
    BY <1>1, <2>1 DEF Bystanding
<1> QED
  BY <1>2, <1>3, <1>4, <1>5, <1>6 DEF Pass

\* The step into the seeding: what is live is in flight and signed for.
LEMMA ReadSignedFences ==
  ASSUME Inv, RecInv, FenceInv, NEW e \in Engines, ReadSigned(e)
  PROVE  FenceInv'
<1> USE DEF store, chain, alloc, send, ambient
<1>1. /\ pc \in [Engines -> Labels] /\ tx \in [TxIds -> Tx]
      /\ work \in [Engines -> [Subjects -> Row \cup {None}]]
      /\ row \in [Subjects -> Row]
  BY DEF Inv, TypeOK
<1>2. /\ UNCHANGED <<row, tx, mined, lease, hole, mytx>> /\ pc[e] = "rows"
      /\ pc' = [pc EXCEPT ![e] = "seed"]
      /\ work' = [work EXCEPT ![e] = [s \in Subjects |->
                     IF s \in InFlight /\ Signed(row[s]) THEN row[s] ELSE None]]
  BY DEF ReadSigned, Goto
<1>3. LeaseInv' /\ OneInv'
  BY <1>2 DEF FenceInv, LeaseInv, OneInv, Holding
<1>4. HeldInv'
  BY <1>1, <1>2 DEF FenceInv, HeldInv
<1>5. SeedInv'
  <2> SUFFICES ASSUME NEW f \in Engines, pc'[f] = "seed", NEW t \in TxIds, Live(t)
               PROVE  \E s \in Subjects : work'[f][s] # None /\ work'[f][s].hash = t
    BY <1>2 DEF SeedInv, Live
  <2>1. CASE f # e
    BY <1>1, <1>2, <2>1 DEF FenceInv, SeedInv
  <2>2. CASE f = e
    <3> DEFINE s == tx[t].subject
    <3>1. /\ s \in Subjects /\ row[s].status \in InFlightOnChain
          /\ row[s].hash = t /\ row[s].nonce = tx[t].nonce
      BY <1>1 DEF RecInv, LiveTxRecorded, ChainInv, Live, Tx
    <3>2. row[s] # None /\ row[s].nonce # None /\ row[s].hash # None
      <4>1. tx[t].nonce # None
        BY DEF RecInv, ChainInv, Live
      <4>2. row[s] \in Row /\ row[s] # None
        BY <1>1, <3>1, WorkAssumption
      <4> QED
        BY <3>1, <4>1, <4>2, NoneAssumption
    <3> HIDE DEF s
    <3>3. work'[e][s] = row[s]
      BY <1>1, <1>2, <3>1, <3>2 DEF InFlight, Signed
    <3> QED
      BY <2>2, <3>1, <3>2, <3>3
  <2> QED
    BY <2>1, <2>2
<1> QED
  BY <1>3, <1>4, <1>5 DEF FenceInv

\* resyncNonces: the lease it sets lies above every live nonce it was told of,
\* and the hole is none of them.
LEMMA SeedIsAbove ==
  ASSUME Inv, RecInv, FenceInv, NEW e \in Engines, NEW young, Seed(e, young),
         NEW t \in TxIds, Live(t)
  PROVE  tx[t].nonce < lease' /\ tx[t].nonce # hole'
<1> DEFINE live == LiveNonces(e, young)
<1>1. /\ pc[e] = "seed" /\ young \in YoungSets(e)
      /\ lease' = NextNonce(pend[e], live) /\ hole' = Reclaimable(pend[e], live)
  BY DEF Seed
<1>2. /\ work \in [Engines -> [Subjects -> Row \cup {None}]]
      /\ pend[e] \in Nat /\ tx[t] \in Tx
  BY DEF Inv, TypeOK
<1>3. live \in SUBSET Nat /\ IsFiniteSet(live)
  BY <1>1, <1>2, LiveNoncesAreNonces DEF Inv, PassInv
<1>4. tx[t].nonce \in live
  <2>1. PICK s \in Subjects : work[e][s] # None /\ work[e][s].hash = t
    BY <1>1 DEF FenceInv, SeedInv
  <2>2. work[e][s].nonce = tx[t].nonce
    BY <2>1, NoneAssumption DEF RecInv, NameInv, Names
  <2>3. s \in young \/ IsKnown(t)
    <3> SUFFICES ASSUME ~IsKnown(t) PROVE s \in young
      OBVIOUS
    <3>1. tx[t].state = "limbo"
      BY DEF Live, IsKnown
    <3>2. PastGrace(work[e][s]) = {FALSE}
      BY <2>1, <3>1, NoneAssumption DEF PastGrace
    <3>3. (s \notin young) \in PastGrace(work[e][s])
      BY <1>1, <2>1 DEF YoungSets
    <3> QED
      BY <3>2, <3>3
  <2> QED
    BY <2>1, <2>2, <2>3 DEF LiveNonces
<1> HIDE DEF live
<1>5. Floor(live) \in Nat /\ tx[t].nonce < Floor(live)
  BY <1>3, <1>4, FloorIsAbove
<1>6. tx[t].nonce \in Nat
  BY <1>3, <1>4
<1>7. tx[t].nonce < NextNonce(pend[e], live)
  BY <1>2, <1>5, <1>6 DEF NextNonce
<1>8. tx[t].nonce # Reclaimable(pend[e], live)
  BY <1>4, <1>6, NoneAssumption DEF Reclaimable
<1> QED
  BY <1>1, <1>7, <1>8

\* A hole lies under the lease that leaves it.
LEMMA HoleIsBelow ==
  ASSUME NEW p \in Nat, NEW live \in SUBSET Nat, IsFiniteSet(live),
         Reclaimable(p, live) # None
  PROVE  Reclaimable(p, live) < NextNonce(p, live)
<1>1. Reclaimable(p, live) = p /\ NextNonce(p, live) > p
  BY DEF Reclaimable
<1>2. NextNonce(p, live) \in Nat
  BY FloorIsAbove DEF NextNonce
<1> QED
  BY <1>1, <1>2

LEMMA SeedFences ==
  ASSUME Inv, Inv', RecInv, FenceInv, NEW e \in Engines, NEW young, Seed(e, young)
  PROVE  FenceInv'
<1> USE DEF store, chain, send
<1>1. /\ pc \in [Engines -> Labels]
      /\ work \in [Engines -> [Subjects -> Row \cup {None}]]
      /\ pend[e] \in Nat /\ lease' \in Nat \cup {None}
  BY DEF Inv, TypeOK
<1>2. /\ UNCHANGED <<tx, mined, mytx>> /\ pc[e] = "seed"
      /\ \/ \E label \in {"halted", "drive"} : pc' = [pc EXCEPT ![e] = label]
         \/ ~up /\ pc' = [d \in Engines |-> "idle"]
      /\ \A f \in Engines \ {e} : work'[f] = work[f]
  BY <1>1 DEF Seed, Goto
<1>3. \A f \in Engines : pc[f] \in InLock => f = e
  BY <1>2 DEF Inv, LockInv, InLock, Holds
<1>4. \A t \in TxIds : tx[t].state # "signed"
  BY <1>2, <1>3 DEF FenceInv, HeldInv, InLock
<1>5. \A t \in TxIds : Holding(t) => Live(t)
  BY <1>4 DEF Holding, Live
<1>6. LeaseInv'
  <2>1. LiveNonces(e, young) \in SUBSET Nat /\ IsFiniteSet(LiveNonces(e, young))
    BY <1>1, <1>2, LiveNoncesAreNonces DEF Inv, PassInv
  <2>2. hole' # None => lease' # None /\ hole' < lease'
    <3>1. /\ hole' = Reclaimable(pend[e], LiveNonces(e, young))
          /\ lease' = NextNonce(pend[e], LiveNonces(e, young))
      BY DEF Seed
    <3>2. NextNonce(pend[e], LiveNonces(e, young)) \in Nat
      BY <1>1, <2>1, FloorIsAbove DEF NextNonce
    <3> QED
      BY <1>1, <2>1, <3>1, <3>2, HoleIsBelow, NoneAssumption
  <2>3. \A t \in TxIds : Holding(t)' => tx'[t].nonce < lease' /\ tx'[t].nonce # hole'
    <3>1. \A t \in TxIds : Live(t) => tx[t].nonce < lease' /\ tx[t].nonce # hole'
      BY SeedIsAbove
    <3> QED
      BY <1>2, <1>5, <3>1 DEF Holding
  <2> QED
    BY <2>2, <2>3 DEF LeaseInv
<1>7. OneInv'
  BY <1>2 DEF FenceInv, OneInv, Holding
<1>8. HeldInv'
  BY <1>2, <1>4 DEF HeldInv
<1>9. SeedInv'
  <2> SUFFICES ASSUME NEW f \in Engines, pc'[f] = "seed" PROVE FALSE
    BY DEF SeedInv
  <2>1. f # e /\ pc[f] = "seed"
    BY <1>1, <1>2
  <2> QED
    BY <1>3, <2>1 DEF InLock
<1> QED
  BY <1>6, <1>7, <1>8, <1>9 DEF FenceInv

\* The steps of a send that sign nothing.
LEMMA DriveFences ==
  ASSUME Inv, NEW e \in Engines, Drive(e)
  PROVE  Bystanding(e) \/ Sign(e) \/ Mark(e) \/ Submit(e) \/ Return(e)
<1> USE DEF store, chain, alloc, pass, send, ambient
<1>1. /\ pc \in [Engines -> Labels] /\ mytx \in [Engines -> TxIds \cup {None}]
  BY DEF Inv, TypeOK
<1>2. ASSUME NEW s \in Subjects, Claim(e, s) PROVE Bystanding(e)
  <2>1. /\ UNCHANGED <<tx, mined, lease, hole, mytx, work>>
        /\ pc[e] \in {"drive", "halted"}
        /\ \E label \in {"claimed", "idle", "drive", "halted"} :
              pc' = [pc EXCEPT ![e] = label]
    BY <1>2 DEF Claim, MayClaim, GiveUp, EndCycle, Goto
  <2> QED
    BY <1>1, <2>1 DEF Bystanding
<1>3. CASE BeginSend(e)
  BY <1>1, <1>3 DEF BeginSend, Goto, Bystanding
<1>4. CASE Post(e)
  BY <1>1, <1>4 DEF Post, DropSend, Goto, Bystanding
<1>5. CASE Catch(e)
  <2>1. /\ UNCHANGED <<tx, mined, lease, hole, work>> /\ pc[e] = "catch"
        /\ \E label \in {"receipts", "idle", "drive", "halted"} :
              pc' = [pc EXCEPT ![e] = label]
        /\ mytx' = [mytx EXCEPT ![e] = None]
    BY <1>5 DEF Catch, StopSending, DropSend, GiveUp, EndCycle, Goto
  <2> QED
    BY <1>1, <2>1 DEF Bystanding
<1>6. CASE ApprovalReceipt(e)
  <2>1. /\ UNCHANGED <<tx, mined, lease, hole, work>> /\ pc[e] = "approved"
        /\ \E label \in {"idle", "drive", "halted"} : pc' = [pc EXCEPT ![e] = label]
        /\ mytx' = [mytx EXCEPT ![e] = None]
    BY <1>6 DEF ApprovalReceipt, DropSend, GiveUp, EndCycle, Goto
  <2> QED
    BY <1>1, <2>1 DEF Bystanding
<1>7. CASE EndDrive(e)
  BY <1>1, <1>7 DEF EndDrive, StopSending, Goto, Bystanding
<1>8. ASSUME NEW t \in TxIds, Outcome(e, t) PROVE Bystanding(e)
  BY <1>1, <1>8 DEF Outcome, Goto, Bystanding
<1> QED
  BY <1>2, <1>3, <1>4, <1>5, <1>6, <1>7, <1>8 DEF Drive

\* A restated transaction keeps its nonce, and the others are as they were.
LEMMA RestatedTx ==
  ASSUME tx \in [TxIds -> Tx], NEW t \in TxIds, NEW to,
         tx' = [tx EXCEPT ![t].state = to]
  PROVE  /\ tx'[t].state = to /\ tx'[t].nonce = tx[t].nonce
         /\ \A u \in TxIds : u # t => tx'[u] = tx[u]
BY DEF Tx

\* A transaction that moves on, dies, or reaches the pools, while no lease is
\* being seeded or without going live.
Restates(t, to) ==
    /\ UNCHANGED <<mined, lease, hole, work>>
    /\ tx[t].state \in {"signed", "limbo", "pool"}
    /\ tx' = [tx EXCEPT ![t].state = to]
    /\ \A f \in Engines : pc[f] \in {"mark", "guard"} /\ mytx[f] # t
          => pc'[f] \in {"mark", "guard"} /\ mytx'[f] = mytx[f]
    /\ \A f \in Engines : pc'[f] = "seed" => pc[f] = "seed" /\ (to = "dead" \/ Live(t))

LEMMA RestateFences ==
  ASSUME Inv, FenceInv, NEW t \in TxIds, NEW to \in {"limbo", "pool", "dead"},
         Restates(t, to)
  PROVE  FenceInv'
<1>1. tx \in [TxIds -> Tx] /\ UNCHANGED <<mined, lease, hole, work>>
  BY DEF Inv, TypeOK, Restates
<1>2. /\ tx'[t].state = to /\ tx'[t].nonce = tx[t].nonce
      /\ \A u \in TxIds : u # t => tx'[u] = tx[u]
  BY <1>1, RestatedTx DEF Restates
<1>3. \A u \in TxIds : Holding(u)' => Holding(u) /\ tx'[u].nonce = tx[u].nonce
  BY <1>1, <1>2 DEF Restates, Holding
<1>4. \A u \in TxIds : tx'[u].state = "signed" =>
         /\ tx[u].state = "signed"
         /\ \A f \in Engines : pc[f] \in {"mark", "guard"} /\ mytx[f] = u
               => pc'[f] \in {"mark", "guard"} /\ mytx'[f] = u
  BY <1>2 DEF Restates
<1>5. ASSUME NEW f \in Engines, pc'[f] = "seed"
      PROVE  /\ pc[f] = "seed" /\ work'[f] = work[f]
             /\ \A u \in TxIds : Live(u)' => Live(u)
  <2>1. \A u \in TxIds : u # t => (Live(u)' => Live(u))
    BY <1>1, <1>2 DEF Live
  <2>2. pc[f] = "seed" /\ work'[f] = work[f] /\ (to = "dead" \/ Live(t))
    BY <1>1, <1>5 DEF Restates
  <2>3. to = "dead" => ~Live(t)'
    BY <1>2 DEF Live
  <2> QED
    BY <2>1, <2>2, <2>3
<1> QED
  BY <1>1, <1>3, <1>4, <1>5, FenceSteady

\* The signature takes the hole, or the next of the lease, and is nobody
\* else's nonce.
LEMMA SignFences ==
  ASSUME Inv, RecInv, FenceInv, NEW e \in Engines, Sign(e)
  PROVE  FenceInv'
<1> DEFINE nonce == IF hole # None THEN hole ELSE lease
<1> USE DEF store, pass
<1>1. /\ UNCHANGED <<mined, work>> /\ pc[e] = "sign" /\ lease \in Nat
      /\ hole \in Nat \cup {None}
      /\ pc \in [Engines -> Labels] /\ mytx \in [Engines -> TxIds \cup {None}]
      /\ tx \in [TxIds -> Tx]
  BY DEF Sign, Inv, TypeOK, BootInv
<1>2. hole' = None /\ lease' \in Nat /\ lease <= lease'
  BY <1>1 DEF Sign
<1>3. /\ nonce \in Nat /\ nonce < lease'
      /\ \A t \in TxIds : Holding(t) => /\ tx[t].nonce \in Nat
                                         /\ tx[t].nonce # nonce
                                         /\ tx[t].nonce < lease'
  <2>1. lease # None
    BY <1>1, NoneAssumption
  <2>2. \A t \in TxIds : Holding(t) => tx[t].nonce \in Nat
    BY <1>1 DEF Holding, RecInv, ChainInv, Tx
  <2>3. \A t \in TxIds : Holding(t) => tx[t].nonce < lease /\ tx[t].nonce # hole
    BY <2>1 DEF FenceInv, LeaseInv
  <2>4. CASE hole # None
    <3>1. hole < lease /\ lease' = lease /\ nonce = hole /\ hole \in Nat
      BY <1>1, <2>4 DEF Sign, FenceInv, LeaseInv
    <3> QED
      BY <2>2, <2>3, <3>1
  <2>5. CASE hole = None
    <3>1. lease' = lease + 1 /\ nonce = lease
      BY <2>5 DEF Sign
    <3> HIDE DEF nonce
    <3> QED
      BY <1>1, <2>2, <2>3, <3>1
  <2> QED
    BY <2>4, <2>5
<1>4. \/ /\ UNCHANGED <<tx, mytx>> /\ pc' = [pc EXCEPT ![e] = "catch"]
      \/ \E t \in NextTxId :
            /\ tx' = [tx EXCEPT ![t] = [subject |-> cur[e], nonce |-> nonce,
                                        state |-> "signed"]]
            /\ mytx' = [mytx EXCEPT ![e] = t]
            /\ pc' = [pc EXCEPT ![e] = "mark"]
  BY DEF Sign, Goto
<1> HIDE DEF nonce
<1>5. CASE UNCHANGED <<tx, mytx>> /\ pc' = [pc EXCEPT ![e] = "catch"]
  <2>1. LeaseInv'
    <3>1. \A t \in TxIds : Holding(t)' => Holding(t) /\ tx'[t].nonce = tx[t].nonce
      BY <1>1, <1>5 DEF Holding
    <3> QED
      BY <1>2, <1>3, <3>1, NoneAssumption DEF LeaseInv
  <2>2. OneInv' /\ HeldInv' /\ SeedInv'
    BY <1>1, <1>5 DEF FenceInv, OneInv, HeldInv, SeedInv, Holding, Live
  <2> QED
    BY <2>1, <2>2 DEF FenceInv
<1>6. ASSUME NEW t \in NextTxId,
             tx' = [tx EXCEPT ![t] = [subject |-> cur[e], nonce |-> nonce,
                                      state |-> "signed"]],
             mytx' = [mytx EXCEPT ![e] = t],
             pc' = [pc EXCEPT ![e] = "mark"]
      PROVE  FenceInv'
  <2>1. t \in TxIds /\ tx[t].state = "unsigned"
    BY DEF NextTxId
  <2>2. /\ tx'[t].state = "signed" /\ tx'[t].nonce = nonce
        /\ \A u \in TxIds : u # t => tx'[u] = tx[u]
    BY <1>1, <1>6, <2>1
  <2>3. \A u \in TxIds : u # t => (Holding(u)' <=> Holding(u))
    BY <1>1, <2>2 DEF Holding
  <2>4. LeaseInv'
    <3>1. \A u \in TxIds : Holding(u)' => tx'[u].nonce \in Nat /\ tx'[u].nonce < lease'
      BY <1>3, <2>2, <2>3
    <3> QED
      BY <1>2, <3>1, NoneAssumption DEF LeaseInv
  <2>5. OneInv'
    BY <1>3, <2>2, <2>3 DEF FenceInv, OneInv
  <2>6. HeldInv'
    <3> SUFFICES ASSUME NEW u \in TxIds, tx'[u].state = "signed"
                 PROVE  \E f \in Engines : pc'[f] \in {"mark", "guard"} /\ mytx'[f] = u
      BY DEF HeldInv
    <3>1. CASE u = t
      BY <1>1, <1>6, <3>1
    <3>2. CASE u # t
      <4>1. PICK f \in Engines : pc[f] \in {"mark", "guard"} /\ mytx[f] = u
        BY <2>2, <3>2 DEF FenceInv, HeldInv
      <4>2. f # e
        BY <1>1, <4>1
      <4> QED
        BY <1>1, <1>6, <4>1, <4>2
    <3> QED
      BY <3>1, <3>2
  <2>7. SeedInv'
    <3>1. \A u \in TxIds : Live(u)' => Live(u)
      BY <1>1, <2>2 DEF Live
    <3>2. \A f \in Engines : pc'[f] = "seed" => pc[f] = "seed"
      BY <1>1, <1>6
    <3> QED
      BY <1>1, <3>1, <3>2 DEF FenceInv, SeedInv
  <2> QED
    BY <2>4, <2>5, <2>6, <2>7 DEF FenceInv
<1> QED
  BY <1>4, <1>5, <1>6

\* The record keeps the transaction in hand, or it dies.
LEMMA MarkFences ==
  ASSUME Inv, RecInv, FenceInv, NEW e \in Engines, Mark(e)
  PROVE  FenceInv'
<1>1. /\ pc[e] = "mark" /\ UNCHANGED <<mined, lease, hole, work>>
      /\ pc \in [Engines -> Labels] /\ mytx \in [Engines -> TxIds \cup {None}]
      /\ tx \in [TxIds -> Tx]
  BY DEF Mark, Inv, TypeOK, pass
<1>2. /\ mytx[e] \in TxIds /\ tx[mytx[e]].state = "signed"
  BY <1>1 DEF Inv, SendInv, TypeOK, RecInv, SignedInv
<1>3. \/ UNCHANGED <<tx, mytx>> /\ pc' = [pc EXCEPT ![e] = "guard"]
      \/ /\ tx' = [tx EXCEPT ![mytx[e]].state = "dead"]
         /\ mytx' = [mytx EXCEPT ![e] = None]
         /\ pc' = [pc EXCEPT ![e] = "catch"]
  BY DEF Mark, Abandon, SetTx, Goto
<1>4. CASE UNCHANGED <<tx, mytx>> /\ pc' = [pc EXCEPT ![e] = "guard"]
  <2>1. \A f \in Engines : pc[f] \in {"mark", "guard"} => pc'[f] \in {"mark", "guard"}
    BY <1>1, <1>4
  <2>2. \A f \in Engines : pc'[f] = "seed" => pc[f] = "seed"
    BY <1>1, <1>4
  <2> QED
    BY <1>1, <1>4, <2>1, <2>2, FenceSteady DEF Holding, Live
<1>5. CASE /\ tx' = [tx EXCEPT ![mytx[e]].state = "dead"]
           /\ mytx' = [mytx EXCEPT ![e] = None]
           /\ pc' = [pc EXCEPT ![e] = "catch"]
  <2>1. \A f \in Engines : pc[f] \in {"mark", "guard"} /\ mytx[f] # mytx[e]
            => pc'[f] \in {"mark", "guard"} /\ mytx'[f] = mytx[f]
    BY <1>1, <1>5
  <2>2. \A f \in Engines : pc'[f] = "seed" => pc[f] = "seed"
    BY <1>1, <1>5
  <2>3. Restates(mytx[e], "dead")
    BY <1>1, <1>2, <1>5, <2>1, <2>2 DEF Restates
  <2> QED
    BY <1>2, <2>3, RestateFences
<1> QED
  BY <1>3, <1>4, <1>5

\* Nobody seeds the lease while another broadcasts.
LEMMA SubmitFences ==
  ASSUME Inv, RecInv, FenceInv, NEW e \in Engines, Submit(e)
  PROVE  FenceInv'
<1>1. /\ pc[e] = "guard" /\ UNCHANGED <<mined, lease, hole, work, mytx>>
      /\ pc \in [Engines -> Labels] /\ mytx \in [Engines -> TxIds \cup {None}]
  BY DEF Submit, Inv, TypeOK, pass, send
<1>2. /\ mytx[e] \in TxIds /\ tx[mytx[e]].state = "signed"
  BY <1>1 DEF Inv, SendInv, TypeOK, RecInv, SignedInv
<1>3. PICK to \in {"dead", "limbo"}, label \in {"catch", "wire"} :
         /\ tx' = [tx EXCEPT ![mytx[e]].state = to]
         /\ pc' = [pc EXCEPT ![e] = label]
  BY DEF Submit, Abandon, SetTx, Goto
<1>4. \A f \in Engines : pc[f] \in {"mark", "guard"} /\ mytx[f] # mytx[e]
            => pc'[f] \in {"mark", "guard"} /\ mytx'[f] = mytx[f]
  BY <1>1, <1>3
<1>5. \A f \in Engines : pc'[f] # "seed"
  <2> SUFFICES ASSUME NEW f \in Engines, pc'[f] = "seed" PROVE FALSE
    OBVIOUS
  <2>1. f # e /\ pc[f] = "seed"
    BY <1>1, <1>3
  <2> QED
    BY <1>1, <2>1, AloneInLock DEF InLock
<1>6. Restates(mytx[e], to)
  BY <1>1, <1>2, <1>3, <1>4, <1>5 DEF Restates
<1> QED
  BY <1>2, <1>6, RestateFences

\* What a refusal kills holds nothing.
LEMMA ReturnFences ==
  ASSUME Inv, RecInv, FenceInv, NEW e \in Engines, Return(e)
  PROVE  FenceInv'
<1>1. /\ pc[e] = "wire" /\ UNCHANGED <<mined, lease, hole, work, mytx>>
      /\ pc \in [Engines -> Labels] /\ mytx[e] \in TxIds /\ tx \in [TxIds -> Tx]
  BY DEF Return, Inv, TypeOK, SendInv, pass, send
<1>2. \E label \in {"catch", "post"} : pc' = [pc EXCEPT ![e] = label]
  BY DEF Return, Goto
<1>3. \/ UNCHANGED tx
      \/ tx[mytx[e]].state = "limbo" /\ tx' = [tx EXCEPT ![mytx[e]].state = "dead"]
  BY DEF Return, SetTx
<1>4. \A f \in Engines : /\ pc[f] \in {"mark", "guard"} => pc'[f] \in {"mark", "guard"}
                         /\ pc'[f] = "seed" => pc[f] = "seed"
  BY <1>1, <1>2
<1>5. CASE UNCHANGED tx
  BY <1>1, <1>4, <1>5, FenceSteady DEF Holding, Live
<1>6. CASE tx[mytx[e]].state = "limbo" /\ tx' = [tx EXCEPT ![mytx[e]].state = "dead"]
  <2>1. Restates(mytx[e], "dead")
    BY <1>1, <1>4, <1>6 DEF Restates
  <2> QED
    BY <1>1, <2>1, RestateFences
<1> QED
  BY <1>3, <1>5, <1>6

\* What the pools take or lose was broadcast.
LEMMA PoolFences ==
  ASSUME Inv, RecInv, FenceInv, NEW t \in TxIds, Arrive(t) \/ Lose(t)
  PROVE  FenceInv'
<1>1. UNCHANGED <<mined, lease, hole, work, pc, mytx>>
  BY DEF Arrive, Lose, chainOnly, alloc, pass, send
<1>2. PICK to \in {"pool", "dead"} : /\ tx' = [tx EXCEPT ![t].state = to]
                                     /\ tx[t].state \in {"limbo", "pool"}
                                     /\ to = "pool" => Live(t)
  BY DEF Arrive, Lose, SetTx, Live
<1>3. Restates(t, to)
  BY <1>1, <1>2 DEF Restates
<1> QED
  BY <1>3, RestateFences

\* A block takes nonces from their holders, and gives none.
LEMMA MineFences ==
  ASSUME Inv, RecInv, FenceInv, NEW t \in TxIds, NEW result \in {"success", "reverted"},
         Mine(t, result)
  PROVE  FenceInv'
<1>1. /\ UNCHANGED <<lease, hole, work, pc, mytx>>
      /\ mined \in Nat /\ mined' = mined + 1 /\ tx \in [TxIds -> Tx]
      /\ tx[t].state = "pool" /\ tx[t].nonce = mined
  BY DEF Mine, Inv, TypeOK, chainOnly, alloc, pass, send
<1>2. \A u \in TxIds :
         /\ tx'[u].nonce = tx[u].nonce
         /\ \/ tx'[u].state \in {"success", "reverted", "dead"}
            \/ tx'[u] = tx[u]
  BY <1>1 DEF Mine, Tx
<1>3. \A u \in TxIds : Holding(u)' => Holding(u)
  <2> SUFFICES ASSUME NEW u \in TxIds, Holding(u)' PROVE Holding(u)
    OBVIOUS
  <2>1. tx'[u] = tx[u] /\ tx[u].state \in {"signed", "limbo", "pool"} /\ tx[u].nonce >= mined'
    BY <1>2 DEF Holding
  <2>2. tx[u].nonce \in Nat
    BY <1>1, <2>1 DEF RecInv, ChainInv, Tx
  <2> QED
    BY <1>1, <2>1, <2>2 DEF Holding
<1>4. \A u \in TxIds : tx'[u].state = "signed" => tx[u].state = "signed"
  BY <1>2
<1>5. \A u \in TxIds : Live(u)' => Live(u)
  <2> SUFFICES ASSUME NEW u \in TxIds, Live(u)' PROVE Live(u)
    OBVIOUS
  <2>1. Holding(u) /\ tx'[u] = tx[u]
    BY <1>2, <1>3 DEF Live, Holding
  <2> QED
    BY <2>1 DEF Live, Holding
<1> QED
  BY <1>1, <1>2, <1>3, <1>4, <1>5, FenceSteady

\* A crash leaves no lease, and nobody with a signature in hand.
LEMMA CrashFences ==
  ASSUME Inv, RecInv, FenceInv, Crash
  PROVE  FenceInv'
<1>1. /\ UNCHANGED mined /\ lease' = None /\ hole' = None /\ tx \in [TxIds -> Tx]
      /\ \A e \in Engines : pc'[e] = "off"
      /\ tx' = [t \in TxIds |-> IF tx[t].state = "signed"
                                THEN [tx[t] EXCEPT !.state = "dead"] ELSE tx[t]]
  BY DEF Crash, Inv, TypeOK
<1>2. \A t \in TxIds :
         /\ tx'[t].nonce = tx[t].nonce
         /\ \/ tx[t].state = "signed" /\ tx'[t].state = "dead"
            \/ tx[t].state # "signed" /\ tx'[t].state = tx[t].state
  BY <1>1 DEF Tx
<1>3. LeaseInv' /\ HeldInv' /\ SeedInv'
  BY <1>1, <1>2 DEF LeaseInv, HeldInv, SeedInv
<1>4. OneInv'
  BY <1>1, <1>2 DEF FenceInv, OneInv, Holding
<1> QED
  BY <1>3, <1>4 DEF FenceInv

\* The resync before its seeding, the boot, and the end of a cycle.
LEMMA OtherFences ==
  ASSUME Inv, NEW e \in Engines, ReadPending(e) \/ Boot(e) \/ Throw(e)
  PROVE  Bystanding(e)
<1> USE DEF store, chain, alloc, send, pass, ambient, Goto
<1>1. /\ pc \in [Engines -> Labels]
      /\ work \in [Engines -> [Subjects -> Row \cup {None}]]
  BY DEF Inv, TypeOK
<1>2. CASE ReadPending(e)
  BY <1>1, <1>2 DEF ReadPending, Bystanding
<1>3. CASE Boot(e)
  BY <1>1, <1>3 DEF Boot, Bystanding
<1>4. CASE Throw(e)
  BY <1>1, <1>4 DEF Throw, Bystanding
<1> QED
  BY <1>2, <1>3, <1>4

\* The gate and a step of nobody.
LEMMA StillFences ==
  ASSUME FenceInv, Halt \/ Resume \/ UNCHANGED vars
  PROVE  FenceInv'
<1>1. UNCHANGED <<tx, mined, lease, hole, pc, mytx, work>>
  BY DEF Halt, Resume, vars, chain, alloc, pass, send
<1> QED
  BY <1>1, FenceSteady DEF Holding, Live

LEMMA FenceInit == Init => FenceInv
BY DEF Init, NoTx, FenceInv, LeaseInv, OneInv, HeldInv, SeedInv, Holding

\* Every step keeps the fence.
LEMMA FenceNext == Inv /\ Inv' /\ RecInv /\ FenceInv /\ [Next]_vars => FenceInv'
<1> SUFFICES ASSUME Inv, Inv', RecInv, FenceInv, [Next]_vars PROVE FenceInv'
  OBVIOUS
<1>1. ASSUME NEW e \in Engines, Boot(e) \/ Pass(e) \/ Resync(e) \/ Throw(e)
      PROVE  FenceInv'
  BY <1>1, PassFences, OtherFences, BystandingKeeps, ReadSignedFences, SeedFences
     DEF Resync
<1>2. ASSUME NEW e \in Engines, Drive(e) PROVE FenceInv'
  BY <1>2, DriveFences, BystandingKeeps, SignFences, MarkFences, SubmitFences,
     ReturnFences
<1>3. ASSUME Environment PROVE FenceInv'
  BY <1>3, StillFences, CrashFences, PoolFences, MineFences DEF Environment
<1>4. CASE UNCHANGED vars
  BY <1>4, StillFences
<1> QED
  BY <1>1, <1>2, <1>3, <1>4 DEF Next

\* The fence holds in every reachable state.
THEOREM FenceHolds == Spec => []FenceInv
<1> QED
  BY InvHolds, RecHolds, FenceInit, FenceNext, PTL DEF Spec

(* No transaction is signed over another that can still be mined, however  *)
(* the engines, the lease, the hole, a mute mempool and crashes interleave *)
(* (resyncNonces seeds above whatever the rows name, withNonce hands each  *)
(* nonce out once, and the lock lies around both).                         *)
THEOREM NoNonceIsReused == Spec => []NoNonceReuse
<1>1. FenceInv => NoNonceReuse
  BY LiveHolds DEF FenceInv, OneInv, NoNonceReuse
<1> QED
  BY <1>1, FenceHolds, PTL

-----------------------------------------------------------------------------
(* The verdicts.                                                           *)
-----------------------------------------------------------------------------
(* What is mined.  A nonce is mined once, so a receipt at the nonce of a   *)
(* transaction that is not its own says it never succeeds.                 *)

Mined(t) == tx[t].state \in {"success", "reverted"}
MinedOnce == \A t, u \in TxIds : Mined(t) /\ Mined(u) /\ t # u => tx[t].nonce # tx[u].nonce

\* What a step may do to the chain: at most one outcome, at the account's next
\* nonce, and no second thought.
Outcomes ==
    /\ mined <= mined'
    /\ \A t \in TxIds :
          /\ tx[t].state # "unsigned" => /\ tx'[t].state # "unsigned"
                                         /\ tx'[t].nonce = tx[t].nonce
                                         /\ tx'[t].subject = tx[t].subject
          /\ tx[t].state \in {"success", "reverted", "dead"} => tx'[t].state = tx[t].state
          /\ Mined(t)' => Mined(t) \/ (tx[t].state = "pool" /\ tx[t].nonce = mined)
    /\ \A t, u \in TxIds : Mined(t)' /\ Mined(u)' => Mined(t) \/ Mined(u) \/ t = u

\* A step that leaves the transactions and the account alone.
LEMMA StillOutcomes ==
  ASSUME Inv, UNCHANGED <<tx, mined>>
  PROVE  Outcomes
<1>1. mined \in Nat
  BY DEF Inv, TypeOK
<1> QED
  BY <1>1 DEF Outcomes, Mined

\* A step that moves one transaction between states that are not outcomes.
LEMMA RestateOutcomes ==
  ASSUME Inv, UNCHANGED mined, NEW t \in TxIds, NEW to \in {"limbo", "pool", "dead"},
         tx' = [tx EXCEPT ![t].state = to], tx[t].state \in {"signed", "limbo", "pool"}
  PROVE  Outcomes
<1>1. mined \in Nat /\ tx \in [TxIds -> Tx]
  BY DEF Inv, TypeOK
<1>2. \A u \in TxIds :
         /\ tx'[u].nonce = tx[u].nonce /\ tx'[u].subject = tx[u].subject
         /\ u # t => tx'[u].state = tx[u].state
         /\ u = t => tx'[u].state = to
  BY <1>1 DEF Tx
<1> QED
  BY <1>1, <1>2 DEF Outcomes, Mined

\* A signature takes a new transaction, which has no outcome.
LEMMA SignOutcomes ==
  ASSUME Inv, RecInv, NEW e \in Engines, Sign(e)
  PROVE  Outcomes
<1>1. mined \in Nat /\ tx \in [TxIds -> Tx] /\ UNCHANGED mined
  BY DEF Inv, TypeOK, Sign
<1>2. CASE UNCHANGED tx
  BY <1>1, <1>2, StillOutcomes
<1>3. ASSUME NEW t \in NextTxId, NEW new,
             tx' = [tx EXCEPT ![t] = new], new.state = "signed"
      PROVE  Outcomes
  <2>1. t \in TxIds /\ tx[t].state = "unsigned"
    BY DEF NextTxId
  <2>2. tx'[t].state = "signed" /\ \A u \in TxIds : u # t => tx'[u] = tx[u]
    BY <1>1, <1>3, <2>1
  <2> QED
    BY <1>1, <2>1, <2>2 DEF Outcomes, Mined
<1> QED
  BY <1>2, <1>3 DEF Sign

\* A mined transaction is the one at the next nonce of the account.
LEMMA MineOutcomes ==
  ASSUME Inv, NEW t \in TxIds, NEW result \in {"success", "reverted"}, Mine(t, result)
  PROVE  Outcomes
<1>1. /\ mined \in Nat /\ mined' = mined + 1 /\ tx \in [TxIds -> Tx]
      /\ tx[t].state = "pool" /\ tx[t].nonce = mined
  BY DEF Mine, Inv, TypeOK
<1>2. \A u \in TxIds :
         /\ tx'[u].nonce = tx[u].nonce /\ tx'[u].subject = tx[u].subject
         /\ \/ u = t /\ tx'[u].state = result
            \/ tx[u].state = "pool" /\ tx'[u].state = "dead"
            \/ tx'[u] = tx[u]
  BY <1>1 DEF Mine, Tx
<1>3. \A u \in TxIds : Mined(u)' => Mined(u) \/ u = t
  BY <1>2 DEF Mined
<1>4. mined <= mined'
  BY <1>1
<1> QED
  BY <1>1, <1>2, <1>3, <1>4 DEF Outcomes, Mined

\* A crash loses only what was not broadcast.
LEMMA CrashOutcomes ==
  ASSUME Inv, Crash
  PROVE  Outcomes
<1>1. /\ UNCHANGED mined /\ tx \in [TxIds -> Tx] /\ mined \in Nat
      /\ tx' = [t \in TxIds |-> IF tx[t].state = "signed"
                                THEN [tx[t] EXCEPT !.state = "dead"] ELSE tx[t]]
  BY DEF Crash, Inv, TypeOK
<1>2. \A t \in TxIds :
         /\ tx'[t].nonce = tx[t].nonce /\ tx'[t].subject = tx[t].subject
         /\ \/ tx[t].state = "signed" /\ tx'[t].state = "dead"
            \/ tx[t].state # "signed" /\ tx'[t].state = tx[t].state
  BY <1>1 DEF Tx
<1> QED
  BY <1>1, <1>2 DEF Outcomes, Mined

\* Every step is one of these for the chain.
LEMMA StepOutcomes ==
  ASSUME Inv, RecInv, [Next]_vars
  PROVE  Outcomes
<1> USE DEF chain, store, SetTx, Abandon
<1>1. ASSUME NEW e \in Engines, Boot(e) \/ Resync(e) \/ Throw(e) \/ Pass(e)
      PROVE  UNCHANGED <<tx, mined>>
  BY <1>1 DEF Boot, Resync, ReadPending, ReadSigned, Seed, Throw, Pass, Snapshot,
     ReadCounts, Probe, WriteVerdict, EndPass, SkipSending, Judge
<1>2. ASSUME NEW e \in Engines, Drive(e) PROVE Outcomes
  <2>1. CASE Sign(e)
    BY <2>1, SignOutcomes
  <2>2. CASE Mark(e) \/ Submit(e) \/ Return(e)
    <3>1. \/ pc[e] \in {"mark", "guard"}
          \/ pc[e] = "wire" /\ (UNCHANGED tx \/ tx[mytx[e]].state = "limbo")
      BY <2>2 DEF Mark, Submit, Return
    <3>2. mytx[e] \in TxIds
      BY <3>1 DEF Inv, TypeOK, SendInv
    <3>3. UNCHANGED tx \/ tx[mytx[e]].state \in {"signed", "limbo"}
      BY <3>1 DEF RecInv, SignedInv
    <3>4. /\ UNCHANGED mined
          /\ \/ UNCHANGED tx
             \/ \E to \in {"limbo", "dead"} : tx' = [tx EXCEPT ![mytx[e]].state = to]
      BY <2>2 DEF Mark, Submit, Return
    <3> QED
      BY <3>2, <3>3, <3>4, StillOutcomes, RestateOutcomes
  <2>3. CASE ~(Sign(e) \/ Mark(e) \/ Submit(e) \/ Return(e))
    <3>1. UNCHANGED <<tx, mined>>
      BY <1>2, <2>3 DEF Drive, Claim, BeginSend, Post, Catch, ApprovalReceipt,
         EndDrive, Outcome
    <3> QED
      BY <3>1, StillOutcomes
  <2> QED
    BY <2>1, <2>2, <2>3
<1>3. ASSUME Environment PROVE Outcomes
  <2>1. CASE Halt \/ Resume
    BY <2>1, StillOutcomes DEF Halt, Resume
  <2>2. CASE Crash
    BY <2>2, CrashOutcomes
  <2>3. ASSUME NEW t \in TxIds, Arrive(t) \/ Lose(t) PROVE Outcomes
    <3>1. /\ UNCHANGED mined /\ tx[t].state \in {"limbo", "pool"}
          /\ \E to \in {"pool", "dead"} : tx' = [tx EXCEPT ![t].state = to]
      BY <2>3 DEF Arrive, Lose
    <3> QED
      BY <3>1, RestateOutcomes
  <2> QED
    BY <1>3, <2>1, <2>2, <2>3, MineOutcomes DEF Environment
<1>4. CASE UNCHANGED vars
  BY <1>4, StillOutcomes DEF vars
<1> QED
  BY <1>1, <1>2, <1>3, <1>4, StillOutcomes DEF Next

\* No step mines a nonce a second time.
LEMMA MinedOnceStays ==
  ASSUME Inv, RecInv, MinedOnce, Outcomes
  PROVE  MinedOnce'
<1> SUFFICES ASSUME NEW t \in TxIds, NEW u \in TxIds, Mined(t)', Mined(u)', t # u
             PROVE  tx'[t].nonce # tx'[u].nonce
  BY DEF MinedOnce
<1>1. \A v \in TxIds : Mined(v) => tx[v].nonce < mined
  BY DEF RecInv, ChainInv, Mined
<1>2. mined \in Nat
  BY DEF Inv, TypeOK
<1>3. tx'[t].nonce = tx[t].nonce /\ tx'[u].nonce = tx[u].nonce
  BY DEF Outcomes, Mined
<1>4. CASE Mined(t) /\ Mined(u)
  BY <1>3, <1>4 DEF MinedOnce
<1>5. CASE ~(Mined(t) /\ Mined(u))
  <2>1. \/ Mined(t) /\ tx[u].nonce = mined
        \/ Mined(u) /\ tx[t].nonce = mined
    BY <1>5 DEF Outcomes
  <2> QED
    BY <1>1, <1>2, <1>3, <2>1
<1> QED
  BY <1>4, <1>5

\* What has an outcome or lost its nonce keeps it; a success stays one, and a
\* final failure too.
LEMMA OutcomesStay ==
  ASSUME Inv, Inv', RecInv, Outcomes, NEW t \in TxIds
  PROVE  /\ Final(t) => Final(t)'
         /\ Final(t) /\ tx[t].state # "success" => tx'[t].state # "success"
         /\ tx[t].state = "success" => tx'[t].state = "success"
<1>1. /\ mined \in Nat /\ mined' \in Nat /\ mined <= mined'
      /\ tx[t] \in Tx /\ tx'[t] \in Tx
  BY DEF Inv, TypeOK, Outcomes
<1>2. CASE tx[t].state \in {"success", "reverted", "dead"}
  BY <1>2 DEF Outcomes, Final
<1>3. CASE tx[t].state \in {"signed", "limbo", "pool"} /\ tx[t].nonce < mined
  <2>1. /\ tx[t].nonce \in Nat /\ tx'[t].nonce = tx[t].nonce /\ tx'[t].state # "unsigned"
    BY <1>1, <1>3 DEF Outcomes, RecInv, ChainInv, Tx
  <2>2. tx'[t].state \in TxStates
    BY <1>1 DEF Tx
  <2>3. ~Mined(t)'
    BY <1>1, <1>3, <2>1 DEF Outcomes, Mined
  <2>4. Final(t)'
    BY <1>1, <1>3, <2>1, <2>2 DEF Final, TxStates
  <2> QED
    BY <1>3, <2>3, <2>4 DEF Mined
<1> QED
  BY <1>2, <1>3 DEF Final

\* A receipt at the nonce of a transaction is its own, or says that it failed.
LEMMA ReceiptSpeaks ==
  ASSUME MinedOnce, NEW t \in TxIds, NEW u \in Receipts(t), u # t
  PROVE  tx[t].state # "success"
BY DEF MinedOnce, Receipts, Mined

-----------------------------------------------------------------------------
(* What an engine has sent, and what it is about to write, fit the chain.  *)

SentInv == \A e \in Engines :
    /\ \A t \in sent[e] : tx[t].state # "unsigned" /\ Owner[tx[t].subject] = e
    /\ pc[e] \in {"wire", "post"} => tx[mytx[e]].subject = cur[e]
    /\ pc[e] = "approved" => Kind[cur[e]] # "action"

SendMoves(e) ==
    /\ \/ sent'[e] \subseteq sent[e]
       \/ pc[e] = "post" /\ sent'[e] = sent[e] \cup {mytx[e]}
    /\ pc'[e] \in {"wire", "post"} => /\ pc[e] \in {"guard", "wire", "post"}
                                      /\ cur'[e] = cur[e] /\ mytx'[e] = mytx[e]
    /\ pc'[e] = "approved" => /\ cur'[e] = cur[e]
                              /\ pc[e] = "approved" \/ Kind[cur[e]] # "action"

\* A step of another engine, or one that leaves the send alone.
LEMMA BystanderMoves ==
  ASSUME NEW e \in Engines, sent'[e] \subseteq sent[e],
         \/ pc'[e] \notin {"wire", "post", "approved"}
         \/ pc'[e] = pc[e] /\ cur'[e] = cur[e] /\ mytx'[e] = mytx[e]
  PROVE  SendMoves(e)
BY DEF SendMoves

Calm(e) ==
    /\ pc'[e] \notin {"wire", "post", "approved"} /\ sent'[e] \subseteq sent[e]
    /\ \A f \in Engines \ {e} : /\ pc'[f] = pc[f] /\ cur'[f] = cur[f]
                                /\ mytx'[f] = mytx[f] /\ sent'[f] = sent[f]

\* A step of an engine keeps to its own send.
LEMMA DriveMoves ==
  ASSUME Inv, NEW e \in Engines, Drive(e), NEW f \in Engines
  PROVE  SendMoves(f)
<1> USE DEF store, chain, alloc, pass, send, ambient
<1>1. /\ pc \in [Engines -> Labels] /\ mytx \in [Engines -> TxIds \cup {None}]
      /\ cur \in [Engines -> Subjects \cup {None}] /\ sent \in [Engines -> SUBSET TxIds]
  BY DEF Inv, TypeOK
<1>2. Calm(e) \/ Return(e) \/ Submit(e) \/ Post(e)
  <2>1. ASSUME NEW s \in Subjects, Claim(e, s) PROVE Calm(e)
    <3>1. /\ \E label \in {"claimed", "idle", "drive", "halted"} :
                pc' = [pc EXCEPT ![e] = label]
          /\ UNCHANGED cur \/ cur' = [cur EXCEPT ![e] = s]
          /\ UNCHANGED mytx
          /\ UNCHANGED sent \/ sent' = [sent EXCEPT ![e] = {}]
      BY <2>1 DEF Claim, GiveUp, EndCycle, Goto
    <3> QED
      BY <1>1, <3>1 DEF Calm
  <2>2. CASE BeginSend(e)
    <3>1. /\ \E label \in {"sign", "catch"} : pc' = [pc EXCEPT ![e] = label]
          /\ UNCHANGED <<cur, mytx, sent>>
      BY <2>2 DEF BeginSend, Goto
    <3> QED
      BY <1>1, <3>1 DEF Calm
  <2>3. CASE Sign(e)
    <3>1. /\ \E label \in {"mark", "catch"} : pc' = [pc EXCEPT ![e] = label]
          /\ UNCHANGED <<cur, sent>>
          /\ UNCHANGED mytx \/ \E t : mytx' = [mytx EXCEPT ![e] = t]
      BY <2>3 DEF Sign, Goto
    <3> QED
      BY <1>1, <3>1 DEF Calm
  <2>4. CASE Mark(e)
    <3>1. /\ \E label \in {"guard", "catch"} : pc' = [pc EXCEPT ![e] = label]
          /\ UNCHANGED <<cur, sent>>
          /\ UNCHANGED mytx \/ mytx' = [mytx EXCEPT ![e] = None]
      BY <2>4 DEF Mark, Abandon, Goto
    <3> QED
      BY <1>1, <3>1 DEF Calm
  <2>5. CASE Catch(e) \/ ApprovalReceipt(e)
    <3>1. /\ \E label \in {"receipts", "idle", "drive", "halted"} :
                pc' = [pc EXCEPT ![e] = label]
          /\ cur' = [cur EXCEPT ![e] = None] /\ mytx' = [mytx EXCEPT ![e] = None]
          /\ UNCHANGED sent \/ sent' = [sent EXCEPT ![e] = {}]
      BY <2>5 DEF Catch, ApprovalReceipt, DropSend, StopSending, GiveUp, EndCycle, Goto
    <3> QED
      BY <1>1, <3>1 DEF Calm
  <2>6. CASE EndDrive(e)
    <3>1. /\ \E label \in {"receipts", "idle"} : pc' = [pc EXCEPT ![e] = label]
          /\ UNCHANGED <<cur, mytx, sent>>
      BY <2>6 DEF EndDrive, StopSending, Goto
    <3> QED
      BY <1>1, <3>1 DEF Calm
  <2>7. ASSUME NEW t \in TxIds, Outcome(e, t) PROVE Calm(e)
    <3>1. /\ \E label \in {"receipts", "idle"} : pc' = [pc EXCEPT ![e] = label]
          /\ UNCHANGED <<cur, mytx>> /\ sent' = [sent EXCEPT ![e] = @ \ {t}]
      BY <2>7 DEF Outcome, Goto
    <3> QED
      BY <1>1, <3>1 DEF Calm
  <2> QED
    BY <2>1, <2>2, <2>3, <2>4, <2>5, <2>6, <2>7 DEF Drive
<1>3. CASE Calm(e)
  <2>1. CASE f = e
    BY <1>3, <2>1, BystanderMoves DEF Calm
  <2>2. CASE f # e
    BY <1>3, <2>2, BystanderMoves DEF Calm
  <2> QED
    BY <2>1, <2>2
<1>4. CASE Return(e) \/ Submit(e)
  <2>1. /\ UNCHANGED <<sent, cur, mytx>> /\ pc[e] \in {"wire", "guard"}
        /\ \E label \in {"catch", "wire", "post"} : pc' = [pc EXCEPT ![e] = label]
    BY <1>4 DEF Return, Submit, Abandon, Goto
  <2> QED
    BY <1>1, <2>1 DEF SendMoves
<1>5. CASE Post(e)
  <2>1. pc[e] = "post"
    BY <1>5 DEF Post
  <2>2. CASE Kind[cur[e]] = "action"
    BY <1>1, <1>5, <2>1, <2>2 DEF Post, DropSend, Goto, SendMoves
  <2>3. CASE Kind[cur[e]] # "action"
    BY <1>1, <1>5, <2>1, <2>3 DEF Post, Goto, SendMoves
  <2> QED
    BY <2>2, <2>3
<1> QED
  BY <1>2, <1>3, <1>4, <1>5

\* Every step keeps to the sends it is about.
LEMMA SendsMove ==
  ASSUME Inv, [Next]_vars, NEW f \in Engines
  PROVE  SendMoves(f)
<1> USE DEF store, chain, alloc, pass, send, ambient, chainOnly, Goto
<1>1. /\ pc \in [Engines -> Labels] /\ mytx \in [Engines -> TxIds \cup {None}]
      /\ cur \in [Engines -> Subjects \cup {None}] /\ sent \in [Engines -> SUBSET TxIds]
  BY DEF Inv, TypeOK
<1>2. ASSUME NEW e \in Engines, Boot(e) \/ Pass(e) \/ Resync(e) \/ Throw(e)
      PROVE  SendMoves(f)
  <2>1. /\ UNCHANGED <<sent, mytx>>
        /\ \/ /\ \E label \in Labels \ {"wire", "post", "approved"} :
                    pc' = [pc EXCEPT ![e] = label]
              /\ UNCHANGED cur \/ \E c : cur' = [cur EXCEPT ![e] = c]
           \/ UNCHANGED <<pc, cur>>
           \/ pc' = [d \in Engines |-> "idle"]
    <3>1. CASE Boot(e) \/ Throw(e)
      BY <3>1 DEF Boot, Throw, Labels
    <3>2. CASE Resync(e)
      BY <3>2 DEF Resync, ReadPending, ReadSigned, Seed, Labels
    <3>3. CASE Snapshot(e) \/ ReadCounts(e) \/ Probe(e) \/ WriteVerdict(e) \/ EndPass(e)
      BY <3>3 DEF Snapshot, ReadCounts, Probe, WriteVerdict, EndPass, Labels
    <3>4. ASSUME NEW s \in Subjects, \/ SkipSending(e, s)
                                     \/ \E old \in BOOLEAN : Judge(e, s, old)
          PROVE  /\ UNCHANGED <<sent, mytx>>
                 /\ \/ /\ \E label \in {"probe", "write"} : pc' = [pc EXCEPT ![e] = label]
                       /\ \E c : cur' = [cur EXCEPT ![e] = c]
                    \/ UNCHANGED <<pc, cur>>
      BY <3>4 DEF SkipSending, Judge
    <3> QED
      BY <1>2, <3>1, <3>2, <3>3, <3>4 DEF Pass, Labels
  <2> QED
    BY <1>1, <2>1, BystanderMoves
<1>3. ASSUME NEW e \in Engines, Drive(e) PROVE SendMoves(f)
  BY <1>3, DriveMoves
<1>4. ASSUME Environment PROVE SendMoves(f)
  <2>1. \/ UNCHANGED <<pc, cur, mytx, sent>>
        \/ pc'[f] = "off" /\ sent'[f] = {}
    BY <1>4 DEF Environment, Halt, Resume, Crash, Arrive, Lose, Mine
  <2> QED
    BY <2>1, BystanderMoves
<1>5. CASE UNCHANGED vars
  BY <1>5, BystanderMoves DEF vars
<1> QED
  BY <1>2, <1>3, <1>4, <1>5 DEF Next

\* An engine waits for the receipt of a transaction of its own row.
LEMMA SentStays ==
  ASSUME Inv, Inv', RecInv, Outcomes, SentInv, \A e \in Engines : SendMoves(e)
  PROVE  SentInv'
<1> SUFFICES ASSUME NEW e \in Engines
             PROVE  /\ \A t \in sent'[e] : tx'[t].state # "unsigned" /\ Owner[tx'[t].subject] = e
                    /\ pc'[e] \in {"wire", "post"} => tx'[mytx'[e]].subject = cur'[e]
                    /\ pc'[e] = "approved" => Kind[cur'[e]] # "action"
  BY DEF SentInv
<1>1. sent[e] \subseteq TxIds /\ sent'[e] \subseteq TxIds
  BY DEF Inv, TypeOK
<1>2. pc[e] \in {"guard", "wire", "post"} =>
         /\ mytx[e] \in TxIds /\ tx[mytx[e]].state # "unsigned"
         /\ tx[mytx[e]].subject = cur[e] /\ Owner[cur[e]] = e
  <2> SUFFICES ASSUME pc[e] \in {"guard", "wire", "post"}
               PROVE  /\ mytx[e] \in TxIds /\ tx[mytx[e]].state # "unsigned"
                      /\ tx[mytx[e]].subject = cur[e] /\ Owner[cur[e]] = e
    OBVIOUS
  <2>1. mytx[e] \in TxIds /\ cur[e] \in Subjects /\ Owner[cur[e]] = e
    BY DEF Inv, TypeOK, SendInv, RecInv, OwnerInv, Driving
  <2>2. row[cur[e]].hash = mytx[e]
    BY DEF RecInv, RecordInv, OnRecord
  <2>3. tx[mytx[e]].state # "unsigned"
    BY <2>1, <2>2, NoneAssumption DEF RecInv, NameInv, Names
  <2> QED
    BY <2>1, <2>3 DEF SentInv, RecInv, SignedInv
<1>3. \A t \in TxIds : tx[t].state # "unsigned" => /\ tx'[t].state # "unsigned"
                                                   /\ tx'[t].subject = tx[t].subject
  BY DEF Outcomes
<1>4. \A t \in sent'[e] : tx'[t].state # "unsigned" /\ Owner[tx'[t].subject] = e
  BY <1>1, <1>2, <1>3 DEF SendMoves, SentInv
<1>5. pc'[e] \in {"wire", "post"} => tx'[mytx'[e]].subject = cur'[e]
  BY <1>2, <1>3 DEF SendMoves
<1>6. pc'[e] = "approved" => Kind[cur'[e]] # "action"
  BY DEF SendMoves, SentInv
<1> QED
  BY <1>4, <1>5, <1>6
-----------------------------------------------------------------------------
(* A verdict, while it waits to be written, says what the chain says.      *)

Fits(v, h) == h # None => /\ v = "confirmed" => tx[h].state = "success"
                          /\ v = "failed" => tx[h].state # "success"

VerdictTruth == \A e \in Engines :
    pc[e] = "write" => Fits(verdict[e], work[e][cur[e]].hash)

\* A step either leaves a verdict waiting, or reaches one that fits.
VerdictMoves(e) == pc'[e] = "write" =>
    \/ /\ pc[e] = "write"
       /\ work'[e][cur'[e]] = work[e][cur[e]] /\ verdict'[e] = verdict[e]
    \/ UNCHANGED tx /\ Fits(verdict'[e], work'[e][cur'[e]].hash)

\* A verdict is reached on what the pass has read.
LEMMA JudgeMoves ==
  ASSUME Inv, RecInv, NEW e \in Engines, NEW s \in Subjects, NEW old \in BOOLEAN,
         Judge(e, s, old), NEW f \in Engines
  PROVE  VerdictMoves(f)
<1> DEFINE r == work[e][s]
           v == Verdict(r, latest[e], pend[e], old)
<1> USE DEF store, chain, Goto, Forget
<1>1. /\ pc \in [Engines -> Labels] /\ cur \in [Engines -> Subjects \cup {None}]
      /\ work \in [Engines -> [Subjects -> Row \cup {None}]]
      /\ verdict \in [Engines -> {None, "confirmed", "failed", "submitted"}]
  BY DEF Inv, TypeOK
<1>2. /\ pc[e] = "judge" /\ UNCHANGED tx
      /\ \/ /\ work' = [work EXCEPT ![e][s] = None]
            /\ UNCHANGED <<pc, cur, verdict>>
         \/ /\ pc' = [pc EXCEPT ![e] = "probe"]
            /\ cur' = [cur EXCEPT ![e] = s]
            /\ UNCHANGED <<work, verdict>>
         \/ /\ pc' = [pc EXCEPT ![e] = "write"]
            /\ cur' = [cur EXCEPT ![e] = s]
            /\ verdict' = [verdict EXCEPT ![e] = v]
            /\ UNCHANGED work
  BY DEF Judge
<1>3. Fits(v, r.hash)
  BY DEF Verdict, BroadcastVerdict, Fits
<1> HIDE DEF v
<1>4. CASE f # e
  BY <1>1, <1>2, <1>4 DEF VerdictMoves
<1>5. CASE f = e
  <2> SUFFICES ASSUME pc'[e] = "write"
               PROVE  UNCHANGED tx /\ Fits(verdict'[e], work'[e][cur'[e]].hash)
    BY <1>5 DEF VerdictMoves
  <2>1. verdict'[e] = v /\ work'[e][cur'[e]] = r
    BY <1>1, <1>2
  <2> QED
    BY <1>2, <1>3, <2>1
<1> QED
  BY <1>4, <1>5

\* So is the verdict on a hash the node does not know.
LEMMA ProbeMoves ==
  ASSUME Inv, NEW e \in Engines, Probe(e), NEW f \in Engines
  PROVE  VerdictMoves(f)
<1> USE DEF store, chain, Goto, Forget
<1>1. /\ pc \in [Engines -> Labels] /\ cur \in [Engines -> Subjects \cup {None}]
      /\ work \in [Engines -> [Subjects -> Row \cup {None}]]
      /\ verdict \in [Engines -> {None, "confirmed", "failed", "submitted"}]
  BY DEF Inv, TypeOK
<1>2. /\ pc[e] = "probe" /\ UNCHANGED tx
      /\ \/ /\ pc' = [pc EXCEPT ![e] = "judge"] /\ UNCHANGED verdict
            /\ cur' = [cur EXCEPT ![e] = None]
            /\ work' = [work EXCEPT ![e][cur[e]] = None]
         \/ /\ ~IsKnown(work[e][cur[e]].hash) /\ UNCHANGED <<work, cur>>
            /\ pc' = [pc EXCEPT ![e] = "write"]
            /\ verdict' = [verdict EXCEPT ![e] = "failed"]
  BY DEF Probe
<1>3. CASE f # e
  BY <1>1, <1>2, <1>3 DEF VerdictMoves
<1>4. CASE f = e
  <2> SUFFICES ASSUME pc'[e] = "write"
               PROVE  UNCHANGED tx /\ Fits(verdict'[e], work'[e][cur'[e]].hash)
    BY <1>4 DEF VerdictMoves
  <2>1. /\ verdict'[e] = "failed" /\ work'[e][cur'[e]] = work[e][cur[e]]
        /\ ~IsKnown(work[e][cur[e]].hash)
    BY <1>1, <1>2
  <2> QED
    BY <1>2, <2>1 DEF Fits, IsKnown
<1> QED
  BY <1>3, <1>4

\* Every other step leaves a waiting verdict alone.
LEMMA VerdictsMove ==
  ASSUME Inv, RecInv, [Next]_vars, NEW f \in Engines
  PROVE  VerdictMoves(f)
<1> USE DEF store, chain, alloc, pass, send, ambient, chainOnly, Goto, Forget
<1>1. /\ pc \in [Engines -> Labels] /\ cur \in [Engines -> Subjects \cup {None}]
      /\ work \in [Engines -> [Subjects -> Row \cup {None}]]
      /\ verdict \in [Engines -> {None, "confirmed", "failed", "submitted"}]
  BY DEF Inv, TypeOK
<1>2. ASSUME NEW e \in Engines,
             UNCHANGED pc \/ \E label \in Labels \ {"write"} : pc' = [pc EXCEPT ![e] = label],
             pc[e] # "write" \/ pc' # pc,
             UNCHANGED cur \/ \E c : cur' = [cur EXCEPT ![e] = c],
             UNCHANGED work \/ \E w : work' = [work EXCEPT ![e] = w],
             UNCHANGED verdict \/ \E w : verdict' = [verdict EXCEPT ![e] = w]
      PROVE  VerdictMoves(f)
  <2>1. CASE f = e
    <3>1. pc'[e] # "write"
      BY <1>1, <1>2
    <3> QED
      BY <2>1, <3>1 DEF VerdictMoves
  <2>2. CASE f # e
    <3>1. pc'[f] = pc[f] /\ cur'[f] = cur[f]
      BY <1>1, <1>2, <2>2
    <3>2. work'[f] = work[f] /\ verdict'[f] = verdict[f]
      BY <1>1, <1>2, <2>2
    <3> QED
      BY <3>1, <3>2 DEF VerdictMoves
  <2> QED
    BY <2>1, <2>2
<1>3. ASSUME NEW e \in Engines, Boot(e) \/ Throw(e) \/ Resync(e) PROVE VerdictMoves(f)
  <2>1. CASE Boot(e) \/ Throw(e)
    <3>1. /\ \E label \in {"pending", "idle"} : pc' = [pc EXCEPT ![e] = label]
          /\ UNCHANGED cur \/ cur' = [cur EXCEPT ![e] = None]
          /\ UNCHANGED work \/ work' = [work EXCEPT ![e] = [s \in Subjects |-> None]]
          /\ UNCHANGED verdict \/ verdict' = [verdict EXCEPT ![e] = None]
      BY <2>1 DEF Boot, Throw
    <3>2. pc'[e] # "write"
      BY <1>1, <3>1
    <3>3. \A d \in Engines : d # e => /\ pc'[d] = pc[d] /\ cur'[d] = cur[d]
                                     /\ work'[d] = work[d] /\ verdict'[d] = verdict[d]
      BY <1>1, <3>1
    <3> QED
      BY <3>2, <3>3 DEF VerdictMoves
  <2>2. CASE ReadPending(e) \/ ReadSigned(e)
    BY <1>2, <2>2 DEF ReadPending, ReadSigned, Labels
  <2>3. ASSUME NEW young, Seed(e, young) PROVE VerdictMoves(f)
    <3>1. CASE up
      BY <1>2, <2>3, <3>1 DEF Seed, Labels
    <3>2. CASE ~up
      BY <2>3, <3>2 DEF Seed, VerdictMoves
    <3> QED
      BY <3>1, <3>2
  <2> QED
    BY <1>3, <2>1, <2>2, <2>3 DEF Resync
<1>4. ASSUME NEW e \in Engines, Pass(e) PROVE VerdictMoves(f)
  <2>1. CASE Snapshot(e) \/ ReadCounts(e) \/ EndPass(e)
    BY <1>2, <2>1 DEF Snapshot, ReadCounts, EndPass, Labels
  <2>2. CASE WriteVerdict(e)
    <3>1. /\ pc' = [pc EXCEPT ![e] = "judge"] /\ cur' = [cur EXCEPT ![e] = None]
          /\ work' = [work EXCEPT ![e][cur[e]] = None]
          /\ verdict' = [verdict EXCEPT ![e] = None]
      BY <2>2 DEF WriteVerdict
    <3> QED
      BY <1>1, <3>1 DEF VerdictMoves
  <2>3. ASSUME NEW s \in Subjects, SkipSending(e, s) PROVE VerdictMoves(f)
    <3>1. /\ UNCHANGED <<pc, cur, verdict>> /\ pc[e] = "judge"
          /\ work' = [work EXCEPT ![e][s] = None]
      BY <2>3 DEF SkipSending
    <3> QED
      BY <1>1, <3>1 DEF VerdictMoves
  <2> QED
    BY <1>4, <2>1, <2>2, <2>3, JudgeMoves, ProbeMoves DEF Pass
<1>5. ASSUME NEW e \in Engines, Drive(e) PROVE VerdictMoves(f)
  <2>1. UNCHANGED <<work, verdict>>
    BY <1>5 DEF Drive, Claim, BeginSend, Sign, Mark, Submit, Return, Post, Catch,
       ApprovalReceipt, EndDrive, Outcome
  <2>2. /\ UNCHANGED cur \/ \E c : cur' = [cur EXCEPT ![e] = c]
        /\ \E label \in Labels \ {"write"} : pc' = [pc EXCEPT ![e] = label]
    <3>1. CASE BeginSend(e) \/ Sign(e) \/ Mark(e) \/ Submit(e) \/ Return(e)
      BY <3>1 DEF BeginSend, Sign, Mark, Submit, Abandon, Return, Labels
    <3>2. CASE \E s \in Subjects : Claim(e, s)
      BY <3>2 DEF Claim, GiveUp, EndCycle, Labels
    <3>3. CASE Post(e) \/ EndDrive(e) \/ \E t \in TxIds : Outcome(e, t)
      BY <3>3 DEF Post, DropSend, EndDrive, StopSending, Outcome, Labels
    <3>4. CASE Catch(e) \/ ApprovalReceipt(e)
      BY <3>4 DEF Catch, ApprovalReceipt, DropSend, StopSending, GiveUp, EndCycle, Labels
    <3> QED
      BY <1>5, <3>1, <3>2, <3>3, <3>4 DEF Drive
  <2> QED
    BY <1>1, <2>1, <2>2 DEF VerdictMoves
<1>6. ASSUME Environment PROVE VerdictMoves(f)
  <2>1. UNCHANGED <<pc, cur, work, verdict>> \/ pc'[f] = "off"
    BY <1>6 DEF Environment, Halt, Resume, Crash, Arrive, Lose, Mine
  <2> QED
    BY <2>1 DEF VerdictMoves
<1>7. CASE UNCHANGED vars
  BY <1>7 DEF vars, VerdictMoves
<1> QED
  BY <1>3, <1>4, <1>5, <1>6, <1>7 DEF Next

\* A verdict that fits the chain still does when it is written.
LEMMA VerdictTruthStays ==
  ASSUME Inv, Inv', RecInv, RecInv', Outcomes, VerdictTruth,
         \A e \in Engines : VerdictMoves(e)
  PROVE  VerdictTruth'
<1> SUFFICES ASSUME NEW e \in Engines, pc'[e] = "write"
             PROVE  Fits(verdict[e], work[e][cur[e]].hash)'
  BY DEF VerdictTruth
<1> DEFINE h == work[e][cur[e]].hash
<1>1. CASE UNCHANGED tx /\ Fits(verdict'[e], work'[e][cur'[e]].hash)
  BY <1>1 DEF Fits
<1>2. CASE /\ pc[e] = "write"
           /\ work'[e][cur'[e]] = work[e][cur[e]] /\ verdict'[e] = verdict[e]
  <2>1. Fits(verdict[e], h) /\ (h # None => Final(h))
    BY <1>2 DEF VerdictTruth, RecInv, VerdictInv
  <2>2. h \in TxIds \cup {None}
    BY <1>2 DEF Inv, TypeOK, PassInv, Row
  <2>3. h # None => /\ tx[h].state = "success" => tx'[h].state = "success"
                    /\ tx[h].state # "success" => tx'[h].state # "success"
    BY <2>1, <2>2, OutcomesStay
  <2> HIDE DEF h
  <2>4. h # None => /\ verdict[e] = "confirmed" => tx'[h].state = "success"
                    /\ verdict[e] = "failed" => tx'[h].state # "success"
    BY <2>1, <2>3 DEF Fits
  <2> QED
    BY <1>2, <2>4 DEF h, Fits
<1> QED
  BY <1>1, <1>2 DEF VerdictMoves
-----------------------------------------------------------------------------
(* A terminal row says what the chain says.  That a failed one failed      *)
(* holds of every row.  That a confirmed one succeeded holds of the        *)
(* actions of arbitrage, which alone compares the receipt with its hash.   *)

Vouched(s) == Kind[s] = "action" /\ Owner[s] \in Arbitrage

True(s, r) == r.hash # None =>
    /\ r.status = "failed" => Final(r.hash) /\ tx[r.hash].state # "success"
    /\ r.status = "confirmed" /\ Vouched(s) => tx[r.hash].state = "success"

RowTruth == \A s \in Subjects : True(s, row[s])

\* Rows are true for good, whatever happens to the chain.
LEMMA ChainKeepsTruth ==
  ASSUME Inv, Inv', RecInv, Outcomes, RowTruth, UNCHANGED row
  PROVE  RowTruth'
<1> SUFFICES ASSUME NEW s \in Subjects PROVE True(s, row[s])'
  BY DEF RowTruth
<1> DEFINE h == row[s].hash
<1>1. True(s, row[s])
  BY DEF RowTruth
<1>2. h \in TxIds \cup {None}
  BY DEF Inv, TypeOK, Row
<1>3. h # None => /\ Final(h) /\ tx[h].state # "success" =>
                        Final(h)' /\ tx'[h].state # "success"
                  /\ tx[h].state = "success" => tx'[h].state = "success"
  BY <1>2, OutcomesStay
<1>4. row'[s] = row[s]
  OBVIOUS
<1> QED
  BY <1>1, <1>3, <1>4 DEF True, Vouched, Final

\* A write of a true row.
LEMMA WriteKeepsTruth ==
  ASSUME Inv, RowTruth, UNCHANGED <<tx, mined>>, NEW s \in Subjects, NEW new,
         row' = row \/ row' = [row EXCEPT ![s] = new],
         True(s, new)
  PROVE  RowTruth'
<1>1. row \in [Subjects -> Row]
  BY DEF Inv, TypeOK
<1>2. \A u \in Subjects : row'[u] = row[u] \/ (u = s /\ row'[u] = new)
  <2>1. CASE row' = row
    BY <2>1
  <2>2. CASE row' = [row EXCEPT ![s] = new]
    BY <1>1, <2>2
  <2> QED
    BY <2>1, <2>2
<1>3. \A u \in Subjects : True(u, row'[u])
  BY <1>2 DEF RowTruth
<1> QED
  BY <1>3 DEF RowTruth, True, Final, Vouched

\* A transition that closes nothing, or is refused.
LEMMA OpenIsTrue ==
  ASSUME RowTruth, NEW s \in Subjects, NEW to \in {"pending", "submitted"},
         NEW nonce, NEW hash, NEW expect, NEW now
  PROVE  True(s, Transition(row[s], to, nonce, hash, expect, now))
<1>1. CASE Meets(row[s], expect)
  <2>1. Transition(row[s], to, nonce, hash, expect, now).status = to
    BY <1>1 DEF Transition
  <2> QED
    BY <2>1 DEF True
<1>2. CASE ~Meets(row[s], expect)
  BY <1>2 DEF Transition, RowTruth
<1> QED
  BY <1>1, <1>2

\* A transition that closes the row of a hash truly, or is refused.
LEMMA ClosedIsTrue ==
  ASSUME RowTruth, NEW s \in Subjects, NEW to, NEW h, NEW expect, NEW now,
         Meets(row[s], expect) /\ row[s].hash # None =>
            /\ h \in {None, row[s].hash}
            /\ to = "failed" => /\ Final(row[s].hash)
                                /\ tx[row[s].hash].state # "success"
            /\ to = "confirmed" /\ Vouched(s) => tx[row[s].hash].state = "success",
         Meets(row[s], expect) /\ row[s].hash = None => h = None
  PROVE  True(s, Transition(row[s], to, None, h, expect, now))
<1>1. CASE Meets(row[s], expect)
  <2> DEFINE new == Transition(row[s], to, None, h, expect, now)
  <2>1. new.status = to /\ new.hash = Coalesce(h, row[s].hash)
    BY <1>1 DEF Transition
  <2> HIDE DEF new
  <2> QED
    BY <1>1, <2>1 DEF True, Coalesce, new
<1>2. CASE ~Meets(row[s], expect)
  BY <1>2 DEF Transition, RowTruth
<1> QED
  BY <1>1, <1>2

\* The verdict of a pass lands on the row it is about.
LEMMA VerdictIsTrue ==
  ASSUME Inv, RecInv, VerdictTruth, RowTruth, NEW e \in Engines, WriteVerdict(e)
  PROVE  RowTruth'
<1> DEFINE s == cur[e]
           r == work[e][s]
<1>1. /\ pc[e] = "write" /\ s \in Subjects /\ r # None /\ UNCHANGED <<tx, mined>>
      /\ row' = [row EXCEPT ![s] = Transition(row[s], verdict[e], None, r.hash,
                                              AsRead(r), Now(s))]
  BY DEF WriteVerdict, Write, chain, Inv, TypeOK, PassInv
<1>2. Meets(row[s], AsRead(r)) => row[s] = r
  BY <1>1 DEF Meets, AsRead, RecInv, StampInv
<1>3. Fits(verdict[e], r.hash) /\ (r.hash # None => Final(r.hash))
  BY <1>1 DEF VerdictTruth, RecInv, VerdictInv
<1> HIDE DEF s, r
<1>4. True(s, Transition(row[s], verdict[e], None, r.hash, AsRead(r), Now(s)))
  <2>1. Meets(row[s], AsRead(r)) /\ row[s].hash # None =>
            /\ r.hash \in {None, row[s].hash}
            /\ verdict[e] = "failed" => /\ Final(row[s].hash)
                                        /\ tx[row[s].hash].state # "success"
            /\ verdict[e] = "confirmed" /\ Vouched(s) => tx[row[s].hash].state = "success"
    BY <1>2, <1>3 DEF Fits
  <2>2. Meets(row[s], AsRead(r)) /\ row[s].hash = None => r.hash = None
    BY <1>2
  <2> QED
    BY <1>1, <2>1, <2>2, ClosedIsTrue
<1> QED
  BY <1>1, <1>4, WriteKeepsTruth

\* A receipt closes the row of the transaction it was waited for.
LEMMA ReceiptIsTrue ==
  ASSUME Inv, RecInv, MinedOnce, RowTruth, UNCHANGED <<tx, mined>>,
         NEW t \in TxIds, NEW s \in Subjects, NEW u \in Receipts(t),
         NEW to \in {"confirmed", "failed"},
         to = "failed" => tx[u].state = "reverted" \/ u # t,
         to = "confirmed" => tx[u].state = "success" /\ (Vouched(s) => u = t),
         \/ row' = row
         \/ row' = [row EXCEPT ![s] = Transition(row[s], to, None, t, AtHash(t), Now(s))]
  PROVE  RowTruth'
<1>1. Meets(row[s], AtHash(t)) => row[s].hash = t
  BY NoneAssumption DEF Meets, AtHash, Anything
<1>2. row[s].hash = t => tx[t].state # "unsigned"
  BY NoneAssumption DEF RecInv, NameInv, Names
<1>3. row[s].hash = t => Final(t)
  BY <1>2, ReceiptIsFinal
<1>4. to = "failed" => tx[t].state # "success"
  BY ReceiptSpeaks
<1>5. to = "confirmed" /\ Vouched(s) => tx[t].state = "success"
  OBVIOUS
<1>6. t # None
  BY NoneAssumption
<1>7. True(s, Transition(row[s], to, None, t, AtHash(t), Now(s)))
  BY <1>1, <1>3, <1>4, <1>5, <1>6, ClosedIsTrue
<1> QED
  BY <1>7, WriteKeepsTruth

\* Every step keeps the closed rows true.
LEMMA RowTruthStays ==
  ASSUME Inv, Inv', RecInv, Outcomes, MinedOnce, SentInv, VerdictTruth, RowTruth,
         [Next]_vars
  PROVE  RowTruth'
<1> USE DEF Write, WriteOrLose
<1>1. CASE row' = row
  BY <1>1, ChainKeepsTruth
<1>2. CASE row' # row
  <2>1. PICK e \in Engines :
            \/ WriteVerdict(e) \/ Mark(e) \/ Post(e) \/ Catch(e) \/ ApprovalReceipt(e)
            \/ \E s \in Subjects : Claim(e, s)
            \/ \E t \in TxIds : Outcome(e, t)
    BY <1>2, RowWriters
  <2>2. cur \in [Engines -> Subjects \cup {None}] /\ mytx \in [Engines -> TxIds \cup {None}]
    BY DEF Inv, TypeOK
  <2>3. CASE WriteVerdict(e)
    BY <2>3, VerdictIsTrue
  <2>4. CASE Mark(e)
    <3>1. /\ UNCHANGED mined /\ cur[e] \in Subjects
          /\ pc[e] = "mark"
      BY <2>2, <2>4 DEF Mark, Inv, SendInv
    <3>2. \/ row' = [row EXCEPT ![cur[e]] = Transition(row[cur[e]], "pending",
                         tx[mytx[e]].nonce, mytx[e], AtStamp(attempt[e]), Now(cur[e]))]
          \/ row' = row \/ row' = [row EXCEPT ![cur[e]] = row[cur[e]]]
      BY <2>4 DEF Mark
    <3>3. row' = [row EXCEPT ![cur[e]] = Transition(row[cur[e]], "pending",
                         tx[mytx[e]].nonce, mytx[e], AtStamp(attempt[e]), Now(cur[e]))]
      BY <1>2, <3>2 DEF Inv, TypeOK
    <3>4. ASSUME NEW u \in Subjects PROVE True(u, row'[u])
      <4>1. CASE u = cur[e]
        <5>1. row'[u] = Transition(row[u], "pending", tx[mytx[e]].nonce, mytx[e],
                                   AtStamp(attempt[e]), Now(u))
          BY <3>3, <4>1 DEF Inv, TypeOK
        <5> QED
          BY <5>1, OpenIsTrue
      <4>2. CASE u # cur[e]
        BY <3>3, <4>2 DEF RowTruth, Inv, TypeOK
      <4> QED
        BY <4>1, <4>2
    <3>5. ASSUME NEW u \in Subjects PROVE True(u, row[u])'
      <4>1. True(u, row'[u]) /\ row'[u] \in Row
        BY <3>4 DEF Inv, TypeOK
      <4>2. row'[u].hash \in TxIds \cup {None}
        BY <4>1 DEF Row
      <4>3. row'[u].hash # None => /\ Final(row'[u].hash) /\ tx[row'[u].hash].state # "success" =>
                                         Final(row[u].hash)' /\ tx'[row'[u].hash].state # "success"
                                   /\ tx[row'[u].hash].state = "success" =>
                                         tx'[row'[u].hash].state = "success"
        <5>1. \A v \in TxIds : /\ Final(v) => Final(v)'
                               /\ Final(v) /\ tx[v].state # "success" => tx'[v].state # "success"
                               /\ tx[v].state = "success" => tx'[v].state = "success"
          BY OutcomesStay
        <5> QED
          BY <4>2, <5>1 DEF Final
      <4> QED
        BY <4>1, <4>3 DEF True, Vouched
    <3> QED
      BY <3>5 DEF RowTruth
  <2>5. CASE Post(e) \/ Catch(e)
    <3>1. UNCHANGED <<tx, mined>> /\ cur[e] \in Subjects
      BY <2>2, <2>5 DEF Post, Catch, chain, Inv, SendInv
    <3>2. PICK h, expect :
             row' = [row EXCEPT ![cur[e]] = Transition(row[cur[e]], "submitted", None,
                                                       h, expect, Now(cur[e]))]
      BY <1>2, <2>5 DEF Post, Catch
    <3> QED
      BY <3>1, <3>2, OpenIsTrue, WriteKeepsTruth
  <2>6. ASSUME NEW s \in Subjects, Claim(e, s) PROVE RowTruth'
    <3>1. UNCHANGED <<tx, mined>> /\ row' = [row EXCEPT ![s] = Recorded("pending", Now(s))]
      BY <2>6 DEF Claim, chain
    <3>2. True(s, Recorded("pending", Now(s)))
      BY DEF True, Recorded
    <3> QED
      BY <3>1, <3>2, WriteKeepsTruth
  <2>7. CASE ApprovalReceipt(e)
    <3>1. /\ UNCHANGED <<tx, mined>> /\ pc[e] = "approved"
          /\ cur[e] \in Subjects /\ mytx[e] \in TxIds /\ Kind[cur[e]] # "action"
      BY <2>2, <2>7 DEF ApprovalReceipt, chain, Inv, SendInv, SentInv
    <3>2. PICK u \in Receipts(mytx[e]), to \in {"confirmed", "failed"} :
             /\ to = "confirmed" => tx[u].state = "success"
             /\ to = "failed" => tx[u].state = "reverted"
             /\ row' = [row EXCEPT ![cur[e]] = Transition(row[cur[e]], to, None,
                                    mytx[e], AtHash(mytx[e]), Now(cur[e]))]
      BY <1>2, <2>7 DEF ApprovalReceipt
    <3> QED
      BY <3>1, <3>2, ReceiptIsTrue DEF Vouched
  <2>8. ASSUME NEW t \in TxIds, Outcome(e, t) PROVE RowTruth'
    <3> DEFINE s == tx[t].subject
    <3>1. UNCHANGED <<tx, mined>> /\ t \in sent[e]
      BY <2>8 DEF Outcome, chain
    <3>2. s \in Subjects /\ Owner[s] = e
      BY <3>1 DEF SentInv, RecInv, ChainInv, Inv, TypeOK, Tx
    <3>3. PICK u \in Receipts(t) :
             row' = [row EXCEPT ![s] = Transition(row[s], Classify(e, t, u), None, t,
                                                  AtHash(t), Now(s))]
      BY <1>2, <2>8 DEF Outcome
    <3>4. tx[u].state \in {"success", "reverted"}
      BY DEF Receipts
    <3> DEFINE to == Classify(e, t, u)
    <3>5. /\ to \in {"confirmed", "failed"}
          /\ to = "failed" => tx[u].state = "reverted" \/ u # t
          /\ to = "confirmed" => tx[u].state = "success" /\ (Vouched(s) => u = t)
      BY <3>2, <3>4 DEF Classify, Vouched
    <3> HIDE DEF s, to
    <3> QED
      BY <3>1, <3>2, <3>3, <3>5, ReceiptIsTrue DEF to
  <2> QED
    BY <2>1, <2>3, <2>4, <2>5, <2>6, <2>7, <2>8
<1> QED
  BY <1>1, <1>2

-----------------------------------------------------------------------------
(* The theorems.                                                           *)

TruthInv == MinedOnce /\ SentInv /\ VerdictTruth /\ RowTruth

\* Nothing is sent, judged or closed at the start.
LEMMA TruthInit == Init => TruthInv
BY DEF Init, NoTx, NoRow, TruthInv, MinedOnce, Mined, SentInv, VerdictTruth, RowTruth, True

\* Every step keeps the rows true.
LEMMA TruthNext ==
    Inv /\ Inv' /\ RecInv /\ RecInv' /\ TruthInv /\ [Next]_vars => TruthInv'
<1> SUFFICES ASSUME Inv, Inv', RecInv, RecInv', TruthInv, [Next]_vars PROVE TruthInv'
  OBVIOUS
<1>1. Outcomes
  BY StepOutcomes
<1>2. MinedOnce'
  BY <1>1, MinedOnceStays DEF TruthInv
<1>3. SentInv'
  BY <1>1, SendsMove, SentStays DEF TruthInv
<1>4. VerdictTruth'
  BY <1>1, VerdictsMove, VerdictTruthStays DEF TruthInv
<1>5. RowTruth'
  BY <1>1, RowTruthStays DEF TruthInv
<1> QED
  BY <1>2, <1>3, <1>4, <1>5 DEF TruthInv

\* Terminal rows are true in every reachable state.
THEOREM TruthHolds == Spec => []TruthInv
<1> QED
  BY InvHolds, RecHolds, TruthInit, TruthNext, PTL DEF Spec

\* What a final verdict is about can no longer be mined.
LEMMA FinalIsNotLive ==
  ASSUME Inv, RecInv, NEW t \in TxIds, Final(t)
  PROVE  ~Live(t)
<1>1. CASE tx[t].state \in {"success", "reverted", "dead"}
  BY <1>1 DEF Live
<1>2. CASE tx[t].state \in {"signed", "limbo", "pool"} /\ tx[t].nonce < mined
  <2>1. tx[t].nonce \in Nat /\ mined \in Nat
    BY <1>2 DEF Inv, TypeOK, RecInv, ChainInv, Tx
  <2> QED
    BY <1>2, <2>1 DEF Live
<1> QED
  BY <1>1, <1>2 DEF Final

(* What a terminal row says of the chain.  A failed row's transaction never*)
(* succeeds, whichever engine wrote it and whether it went by the          *)
(* receipt, mined count or silence of the pools (reconcilePending,         *)
(* recordOutcome); a confirmed action of arbitrage is its own transaction. *)
THEOREM VerdictsAreVouched == Spec => []VouchedVerdicts
<1>1. Inv /\ RecInv /\ TruthInv => VouchedVerdicts
  BY FinalIsNotLive DEF VouchedVerdicts, TruthInv, RowTruth, True, Vouched, Inv, TypeOK, Row
<1> QED
  BY <1>1, InvHolds, RecHolds, TruthHolds, PTL

(* The verdicts match the chain of a bot whose every subject is an action  *)
(* of arbitrage.  A liquidation engine, or the wait for an approval, takes *)
(* the receipt of a replacement for its own, and of them it is false.      *)
THEOREM VerdictsAreTrue ==
  ASSUME \A s \in Subjects : Kind[s] = "action" /\ Owner[s] \in Arbitrage
  PROVE  Spec => []VerdictsMatchChain
<1>1. Inv /\ RecInv /\ TruthInv => VerdictsMatchChain
  BY FinalIsNotLive DEF VerdictsMatchChain, TruthInv, RowTruth, True, Vouched, Inv, TypeOK, Row
<1> QED
  BY <1>1, InvHolds, RecHolds, TruthHolds, PTL
-----------------------------------------------------------------------------
(* Whose row it is.  From its claim until its broadcast returns, an engine *)
(* owns the row it sends: a sibling's pass that has read the row as it is  *)
(* passes it over, since the claim is young or the row in `sending', and a *)
(* pass that has read an earlier state of it is refused.                   *)

Sending == {"sign", "mark", "guard", "wire"}
Owning == {"claimed"} \cup Sending
Judging == {"probe", "write"}

\* The claim is as it was written.
ClaimInv == \A e \in Engines : pc[e] \in Unrecorded =>
    row[cur[e]] = Recorded("pending", attempt[e])

\* Whoever has something to write of the row has read another state of it.
RefusedInv == \A e, f \in Engines :
    pc[e] \in Owning /\ pc[f] \in Judging /\ cur[f] = cur[e] =>
        work[f][cur[e]].stamp # row[cur[e]].stamp

SendingInv == \A e \in Engines : pc[e] \in Sending => cur[e] \in sending

OwnInv == ClaimInv /\ RefusedInv /\ SendingInv

\* Only the sender writes the row it owns, and only its record.
LEMMA OwnRowStep ==
  ASSUME Inv, RecInv, SentInv, RefusedInv, [Next]_vars,
         NEW e \in Engines, pc[e] \in Owning, row'[cur[e]] # row[cur[e]]
  PROVE  Mark(e)
<1> USE DEF Write, WriteOrLose
<1>1. /\ row \in [Subjects -> Row] /\ cur[e] \in Subjects /\ Owner[cur[e]] = e
      /\ cur \in [Engines -> Subjects \cup {None}]
  BY DEF Inv, TypeOK, SendInv, RecInv, OwnerInv, Driving, Owning, Sending
<1>2. PICK f \in Engines :
            \/ WriteVerdict(f) \/ Mark(f) \/ Post(f) \/ Catch(f) \/ ApprovalReceipt(f)
            \/ \E s \in Subjects : Claim(f, s)
            \/ \E t \in TxIds : Outcome(f, t)
  BY RowWriters
<1>3. CASE WriteVerdict(f)
  <2>1. /\ pc[f] = "write" /\ cur[f] \in Subjects
        /\ row' = [row EXCEPT ![cur[f]] =
                     Transition(row[cur[f]], verdict[f], None, work[f][cur[f]].hash,
                                AsRead(work[f][cur[f]]), Now(cur[f]))]
    BY <1>3 DEF WriteVerdict, Inv, TypeOK, PassInv
  <2>2. cur[f] = cur[e]
    BY <1>1, <2>1
  <2>3. work[f][cur[e]].stamp # row[cur[e]].stamp /\ work[f][cur[e]].stamp # None
    BY <1>1, <2>1, <2>2 DEF RefusedInv, Judging, RecInv, StampInv, Inv, PassInv
  <2>4. ~Meets(row[cur[e]], AsRead(work[f][cur[e]]))
    BY <2>3 DEF Meets, AsRead
  <2>5. row' = [row EXCEPT ![cur[e]] = row[cur[e]]]
    BY <2>1, <2>2, <2>4 DEF Transition
  <2> QED
    BY <1>1, <2>5
<1>4. CASE Mark(f) \/ Post(f) \/ Catch(f) \/ ApprovalReceipt(f)
  <2>1. pc[f] \in {"mark", "post", "catch", "approved"} /\ Owner[cur[f]] = f
    BY <1>4 DEF Mark, Post, Catch, ApprovalReceipt, RecInv, OwnerInv, Driving
  <2>2. row' = row \/ \E r : row' = [row EXCEPT ![cur[f]] = r]
    BY <1>4 DEF Mark, Post, Catch, ApprovalReceipt
  <2>3. cur[f] = cur[e]
    BY <1>1, <2>2
  <2>4. f = e
    BY <1>1, <2>1, <2>3
  <2> QED
    BY <1>4, <2>1, <2>4 DEF Owning, Sending, Mark, Post, Catch, ApprovalReceipt
<1>5. ASSUME NEW s \in Subjects, Claim(f, s) PROVE FALSE
  <2>1. /\ Owner[s] = f /\ pc[f] \in {"drive", "halted"}
        /\ \E r : row' = [row EXCEPT ![s] = r]
    BY <1>5 DEF Claim, MayClaim
  <2>2. s = cur[e]
    BY <1>1, <2>1
  <2> QED
    BY <1>1, <2>1, <2>2 DEF Owning, Sending
<1>6. ASSUME NEW t \in TxIds, Outcome(f, t) PROVE FALSE
  <2>1. /\ Owner[tx[t].subject] = f /\ pc[f] = "receipts"
        /\ row' = row \/ \E r : row' = [row EXCEPT ![tx[t].subject] = r]
    BY <1>6 DEF Outcome, SentInv
  <2>2. tx[t].subject = cur[e]
    BY <1>1, <2>1
  <2> QED
    BY <1>1, <2>1, <2>2 DEF Owning, Sending
<1> QED
  BY <1>2, <1>3, <1>4, <1>5, <1>6

\* What it records, it stamps afresh.
LEMMA MarkStamps ==
  ASSUME Inv, NEW e \in Engines, Mark(e), row'[cur[e]] # row[cur[e]]
  PROVE  row'[cur[e]].stamp = Now(cur[e]) /\ pc[e] = "mark" /\ pc'[e] \in {"guard", "catch"}
<1>1. /\ row \in [Subjects -> Row] /\ pc \in [Engines -> Labels] /\ pc[e] = "mark"
      /\ cur[e] \in Subjects
  BY DEF Mark, Inv, TypeOK, SendInv
<1>2. \/ row' = [row EXCEPT ![cur[e]] = Transition(row[cur[e]], "pending",
                     tx[mytx[e]].nonce, mytx[e], AtStamp(attempt[e]), Now(cur[e]))]
      \/ row' = row \/ row' = [row EXCEPT ![cur[e]] = row[cur[e]]]
  BY DEF Mark, Write
<1>3. row'[cur[e]] = Transition(row[cur[e]], "pending", tx[mytx[e]].nonce, mytx[e],
                                AtStamp(attempt[e]), Now(cur[e]))
  BY <1>1, <1>2
<1>4. \E label \in {"guard", "catch"} : pc' = [pc EXCEPT ![e] = label]
  BY DEF Mark, Abandon, Goto
<1>5. pc'[e] \in {"guard", "catch"}
  BY <1>1, <1>4
<1> QED
  BY <1>1, <1>3, <1>5 DEF Transition

-----------------------------------------------------------------------------
(* What the steps leave as it was.                                         *)

OwnSteady(e) ==
    /\ pc'[e] \in Owning => pc[e] \in Owning /\ cur'[e] = cur[e]
    /\ pc'[e] \in Unrecorded => pc[e] \in Unrecorded /\ attempt'[e] = attempt[e]
    /\ pc'[e] \in Sending => \/ pc[e] \in Sending /\ (cur[e] \in sending => cur[e] \in sending')
                             \/ cur[e] \in sending'
    /\ pc'[e] \in Judging => pc[e] \in Judging /\ cur'[e] = cur[e] /\ work'[e] = work[e]

\* An engine that waits, or does something else.
LEMMA WaitingIsSteady ==
  ASSUME NEW e \in Engines,
         \/ pc'[e] \notin Owning \cup Judging
         \/ /\ pc'[e] = pc[e] /\ cur'[e] = cur[e]
            /\ attempt'[e] = attempt[e] /\ work'[e] = work[e]
            /\ pc[e] \in Sending => (cur[e] \in sending => cur[e] \in sending')
  PROVE  OwnSteady(e)
BY DEF OwnSteady, Owning, Sending, Unrecorded, Judging

\* A step of e that does not touch what others hold.
Apart(e) == \A f \in Engines \ {e} :
    /\ pc'[f] = pc[f] /\ cur'[f] = cur[f] /\ attempt'[f] = attempt[f] /\ work'[f] = work[f]

\* A step of an engine leaves alone what another owns or has read.
LEMMA DriveSteady ==
  ASSUME Inv, RecInv, NEW e \in Engines, Drive(e), \A s \in Subjects : ~Claim(e, s),
         NEW f \in Engines
  PROVE  OwnSteady(f)
<1> USE DEF store, chain, alloc, pass, send, ambient, Goto
<1>1. /\ pc \in [Engines -> Labels] /\ cur \in [Engines -> Subjects \cup {None}]
      /\ attempt \in [Engines -> Stamps \cup {None}]
  BY DEF Inv, TypeOK
<1>2. UNCHANGED work
  BY DEF Drive, BeginSend, Sign, Mark, Submit, Return, Post, Catch, ApprovalReceipt,
     EndDrive, Outcome
<1>3. CASE BeginSend(e) \/ Sign(e) \/ Mark(e) \/ Submit(e)
  <2>1. /\ \/ /\ pc[e] = "claimed" /\ sending' = sending \cup {cur[e]}
              /\ \E label \in {"catch", "sign"} : pc' = [pc EXCEPT ![e] = label]
           \/ /\ pc[e] \in Unrecorded \cap Sending /\ sending' = sending
              /\ \E label \in {"catch", "mark", "guard"} : pc' = [pc EXCEPT ![e] = label]
           \/ /\ pc[e] = "guard" /\ sending' = sending
              /\ \E label \in {"catch", "wire"} : pc' = [pc EXCEPT ![e] = label]
        /\ UNCHANGED cur
        /\ \/ UNCHANGED attempt
           \/ /\ attempt' = [attempt EXCEPT ![e] = None]
              /\ pc' = [pc EXCEPT ![e] = "guard"]
    <3>1. CASE BeginSend(e) \/ Sign(e) \/ Submit(e)
      BY <3>1 DEF BeginSend, Sign, Submit, Abandon, Unrecorded, Sending
    <3>2. CASE Mark(e)
      BY <3>2 DEF Mark, Abandon, Unrecorded, Sending
    <3> QED
      BY <1>3, <3>1, <3>2
  <2>2. CASE f = e
    BY <1>1, <2>1, <2>2 DEF OwnSteady, Owning, Sending, Unrecorded, Judging
  <2>3. CASE f # e
    <3>1. /\ pc'[f] = pc[f] /\ cur'[f] = cur[f] /\ attempt'[f] = attempt[f]
          /\ sending \subseteq sending'
      BY <1>1, <2>1, <2>3
    <3> QED
      BY <1>2, <3>1, WaitingIsSteady
  <2> QED
    BY <2>2, <2>3
<1>4. CASE Return(e) \/ Post(e) \/ Catch(e)
  <2>1. /\ pc[e] \in {"wire", "post", "catch"}
        /\ \E label \in {"post", "catch", "drive", "approved", "receipts", "idle", "halted"} :
              pc' = [pc EXCEPT ![e] = label]
        /\ UNCHANGED cur \/ cur' = [cur EXCEPT ![e] = None]
        /\ UNCHANGED attempt \/ attempt' = [attempt EXCEPT ![e] = None]
        /\ sending' = sending \/ sending' = sending \ {cur[e]}
    BY <1>4 DEF Return, Post, Catch, DropSend, EndSend, StopSending, GiveUp, EndCycle
  <2>2. CASE f = e
    <3>1. pc'[e] \notin Owning \cup Judging
      BY <1>1, <2>1 DEF Owning, Sending, Judging
    <3> QED
      BY <2>2, <3>1, WaitingIsSteady
  <2>3. CASE f # e
    <3>1. pc'[f] = pc[f] /\ cur'[f] = cur[f] /\ attempt'[f] = attempt[f]
      BY <1>1, <2>1, <2>3
    <3>2. pc[f] \in Sending => cur[f] # cur[e]
      BY <2>1, <2>3 DEF RecInv, OwnerInv, Driving, Sending
    <3> QED
      BY <1>2, <2>1, <3>1, <3>2, WaitingIsSteady
  <2> QED
    BY <2>2, <2>3
<1>5. CASE ApprovalReceipt(e) \/ EndDrive(e) \/ \E t \in TxIds : Outcome(e, t)
  <2>1. /\ \E label \in {"drive", "receipts", "idle", "halted"} :
              pc' = [pc EXCEPT ![e] = label]
        /\ UNCHANGED cur \/ cur' = [cur EXCEPT ![e] = None]
        /\ UNCHANGED attempt \/ attempt' = [attempt EXCEPT ![e] = None]
        /\ sending' = sending
    BY <1>5 DEF ApprovalReceipt, EndDrive, Outcome, DropSend, StopSending, GiveUp, EndCycle
  <2>2. CASE f = e
    <3>1. pc'[e] \notin Owning \cup Judging
      BY <1>1, <2>1 DEF Owning, Sending, Judging
    <3> QED
      BY <2>2, <3>1, WaitingIsSteady
  <2>3. CASE f # e
    <3>1. pc'[f] = pc[f] /\ cur'[f] = cur[f] /\ attempt'[f] = attempt[f]
      BY <1>1, <2>1, <2>3
    <3> QED
      BY <1>2, <2>1, <3>1, WaitingIsSteady
  <2> QED
    BY <2>2, <2>3
<1> QED
  BY <1>3, <1>4, <1>5 DEF Drive

\* Every step is steady, or a claim, or a judgement.
LEMMA StepOwns ==
  ASSUME Inv, RecInv, [Next]_vars, NEW f \in Engines
  PROVE  \/ \A e \in Engines : OwnSteady(e)
         \/ \E e \in Engines, s \in Subjects : Claim(e, s)
         \/ \E e \in Engines, s \in Subjects, old \in BOOLEAN : Judge(e, s, old)
<1> USE DEF store, chain, alloc, send, ambient, pass, Goto, Forget
<1>1. /\ pc \in [Engines -> Labels] /\ cur \in [Engines -> Subjects \cup {None}]
      /\ work \in [Engines -> [Subjects -> Row \cup {None}]]
  BY DEF Inv, TypeOK
<1>2. ASSUME NEW e \in Engines, pc'[e] \notin Owning \cup Judging,
             UNCHANGED <<attempt, sending>>,
             \A d \in Engines : d # e => /\ pc'[d] = pc[d] /\ cur'[d] = cur[d]
                                         /\ work'[d] = work[d],
             NEW d \in Engines
      PROVE  OwnSteady(d)
  BY <1>2, WaitingIsSteady
<1>3. ASSUME NEW e \in Engines, Boot(e) \/ Resync(e) \/ Throw(e), NEW d \in Engines
      PROVE  OwnSteady(d)
  <2>1. CASE Boot(e) \/ ReadPending(e) \/ ReadSigned(e) \/ Throw(e)
    <3>1. /\ \E label \in {"pending", "rows", "seed", "idle"} : pc' = [pc EXCEPT ![e] = label]
          /\ UNCHANGED cur \/ cur' = [cur EXCEPT ![e] = None]
          /\ UNCHANGED work \/ \E w : work' = [work EXCEPT ![e] = w]
          /\ UNCHANGED <<attempt, sending>>
      BY <2>1 DEF Boot, ReadPending, ReadSigned, Throw
    <3>2. pc'[e] \notin Owning \cup Judging
      BY <1>1, <3>1 DEF Owning, Sending, Judging
    <3>3. \A c \in Engines : c # e => pc'[c] = pc[c] /\ cur'[c] = cur[c] /\ work'[c] = work[c]
      BY <1>1, <3>1
    <3> QED
      BY <1>2, <3>1, <3>2, <3>3
  <2>2. ASSUME NEW young, Seed(e, young) PROVE OwnSteady(d)
    <3>1. /\ \/ \E label \in {"halted", "drive"} : pc' = [pc EXCEPT ![e] = label]
             \/ pc' = [c \in Engines |-> "idle"]
          /\ work' = [work EXCEPT ![e] = [s \in Subjects |-> None]]
          /\ UNCHANGED <<attempt, sending, cur>>
      BY <2>2 DEF Seed
    <3>2. CASE pc' = [c \in Engines |-> "idle"]
      BY <3>2, WaitingIsSteady DEF Owning, Sending, Judging
    <3>3. CASE \E label \in {"halted", "drive"} : pc' = [pc EXCEPT ![e] = label]
      <4>1. pc'[e] \notin Owning \cup Judging
        BY <1>1, <3>3 DEF Owning, Sending, Judging
      <4>2. \A c \in Engines : c # e => pc'[c] = pc[c] /\ cur'[c] = cur[c] /\ work'[c] = work[c]
        BY <1>1, <3>1, <3>3
      <4> QED
        BY <1>2, <3>1, <4>1, <4>2
    <3> QED
      BY <3>1, <3>2, <3>3
  <2> QED
    BY <1>3, <2>1, <2>2 DEF Resync
<1>4. ASSUME NEW e \in Engines, Pass(e), \A s \in Subjects, old \in BOOLEAN : ~Judge(e, s, old),
             NEW d \in Engines
      PROVE  OwnSteady(d)
  <2>1. CASE Snapshot(e) \/ ReadCounts(e) \/ EndPass(e) \/ WriteVerdict(e)
    <3>1. /\ \E label \in {"counts", "judge", "pending"} : pc' = [pc EXCEPT ![e] = label]
          /\ UNCHANGED cur \/ cur' = [cur EXCEPT ![e] = None]
          /\ \/ UNCHANGED work
             \/ \E w : work' = [work EXCEPT ![e] = w]
             \/ work' = [work EXCEPT ![e][cur[e]] = None]
          /\ UNCHANGED <<attempt, sending>>
      BY <2>1 DEF Snapshot, ReadCounts, EndPass, WriteVerdict
    <3>2. pc'[e] \notin Owning \cup Judging
      BY <1>1, <3>1 DEF Owning, Sending, Judging
    <3>3. \A c \in Engines : c # e => pc'[c] = pc[c] /\ cur'[c] = cur[c] /\ work'[c] = work[c]
      BY <1>1, <3>1
    <3> QED
      BY <1>2, <3>1, <3>2, <3>3
  <2>2. CASE Probe(e)
    <3>1. /\ pc[e] = "probe" /\ UNCHANGED <<attempt, sending>>
          /\ \/ /\ pc' = [pc EXCEPT ![e] = "judge"] /\ cur' = [cur EXCEPT ![e] = None]
                /\ work' = [work EXCEPT ![e][cur[e]] = None]
             \/ pc' = [pc EXCEPT ![e] = "write"] /\ UNCHANGED <<work, cur>>
      BY <2>2 DEF Probe
    <3>2. CASE d # e
      BY <1>1, <3>1, <3>2, WaitingIsSteady
    <3>3. CASE d = e
      BY <1>1, <3>1, <3>3 DEF OwnSteady, Owning, Sending, Unrecorded, Judging
    <3> QED
      BY <3>2, <3>3
  <2>3. ASSUME NEW s \in Subjects, SkipSending(e, s) PROVE OwnSteady(d)
    <3>1. /\ pc[e] = "judge" /\ UNCHANGED <<attempt, sending, pc, cur>>
          /\ work' = [work EXCEPT ![e][s] = None]
      BY <2>3 DEF SkipSending
    <3>2. CASE d # e
      BY <1>1, <3>1, <3>2, WaitingIsSteady
    <3>3. CASE d = e
      BY <1>1, <3>1, <3>3, WaitingIsSteady DEF Owning, Sending, Judging
    <3> QED
      BY <3>2, <3>3
  <2> QED
    BY <1>4, <2>1, <2>2, <2>3 DEF Pass
<1>5. ASSUME Environment, NEW d \in Engines PROVE OwnSteady(d)
  <2>1. UNCHANGED <<pc, cur, attempt, work, sending>> \/ pc'[d] = "off"
    BY <1>5 DEF Environment, Halt, Resume, Crash, Arrive, Lose, Mine, chainOnly
  <2> QED
    BY <2>1, WaitingIsSteady DEF Owning, Sending, Judging
<1>6. ASSUME UNCHANGED vars, NEW d \in Engines PROVE OwnSteady(d)
  BY <1>6, WaitingIsSteady DEF vars
<1>7. ASSUME NEW e \in Engines, Drive(e), \A s \in Subjects : ~Claim(e, s)
      PROVE  \A d \in Engines : OwnSteady(d)
  BY <1>7, DriveSteady
<1> QED
  BY <1>3, <1>4, <1>5, <1>6, <1>7 DEF Next

-----------------------------------------------------------------------------
(* The theorem.                                                            *)

\* A steady step.
LEMMA SteadyOwns ==
  ASSUME Inv, Inv', RecInv, SentInv, OwnInv, [Next]_vars, \A e \in Engines : OwnSteady(e)
  PROVE  OwnInv'
<1>1. ASSUME NEW e \in Engines, pc[e] \in Owning
      PROVE  \/ row'[cur[e]] = row[cur[e]]
             \/ /\ row'[cur[e]].stamp = Now(cur[e])
                /\ pc'[e] \in {"guard", "catch"}
  BY <1>1, OwnRowStep, MarkStamps DEF OwnInv
<1>2. ClaimInv'
  <2> SUFFICES ASSUME NEW e \in Engines, pc'[e] \in Unrecorded
               PROVE  row'[cur'[e]] = Recorded("pending", attempt'[e])
    BY DEF ClaimInv
  <2>1. pc[e] \in Unrecorded /\ attempt'[e] = attempt[e] /\ cur'[e] = cur[e]
    BY DEF OwnSteady, Unrecorded, Owning, Sending
  <2>2. row'[cur[e]] = row[cur[e]]
    BY <1>1, <2>1 DEF Unrecorded, Owning, Sending
  <2> QED
    BY <2>1, <2>2 DEF OwnInv, ClaimInv
<1>3. RefusedInv'
  <2> SUFFICES ASSUME NEW e \in Engines, NEW f \in Engines,
                      pc'[e] \in Owning, pc'[f] \in Judging, cur'[f] = cur'[e]
               PROVE  work'[f][cur'[e]].stamp # row'[cur'[e]].stamp
    BY DEF RefusedInv
  <2>1. /\ pc[e] \in Owning /\ cur'[e] = cur[e]
        /\ pc[f] \in Judging /\ cur'[f] = cur[f] /\ work'[f] = work[f]
    BY DEF OwnSteady
  <2>2. work[f][cur[e]] # None
    BY <2>1 DEF Inv, PassInv, Judging
  <2>3. CASE row'[cur[e]] = row[cur[e]]
    BY <2>1, <2>3 DEF OwnInv, RefusedInv
  <2>4. CASE row'[cur[e]].stamp = Now(cur[e])
    BY <2>1, <2>2, <2>4, NowIsFresh
  <2> QED
    BY <1>1, <2>1, <2>3, <2>4
<1>4. SendingInv'
  <2> SUFFICES ASSUME NEW e \in Engines, pc'[e] \in Sending PROVE cur'[e] \in sending'
    BY DEF SendingInv
  <2> QED
    BY DEF OwnSteady, OwnInv, SendingInv, Owning
<1> QED
  BY <1>2, <1>3, <1>4 DEF OwnInv

\* A claim is stamped afresh: no pass has read it.
LEMMA ClaimOwns ==
  ASSUME Inv, Inv', RecInv, SentInv, OwnInv, [Next]_vars,
         NEW d \in Engines, NEW s \in Subjects, Claim(d, s)
  PROVE  OwnInv'
<1> USE DEF pass
<1>1. /\ pc \in [Engines -> Labels] /\ cur \in [Engines -> Subjects \cup {None}]
      /\ attempt \in [Engines -> Stamps \cup {None}] /\ row \in [Subjects -> Row]
  BY DEF Inv, TypeOK
<1>2. /\ UNCHANGED <<work, sending>> /\ Owner[s] = d
      /\ row' = [row EXCEPT ![s] = Recorded("pending", Now(s))]
  BY DEF Claim, MayClaim, Write
<1>3. \/ /\ cur' = [cur EXCEPT ![d] = s]
         /\ attempt' = [attempt EXCEPT ![d] = Now(s)]
         /\ pc' = [pc EXCEPT ![d] = "claimed"]
      \/ /\ UNCHANGED <<cur, attempt>>
         /\ \E label \in {"drive", "halted", "idle"} : pc' = [pc EXCEPT ![d] = label]
  BY DEF Claim, GiveUp, EndCycle, Goto
<1>4. \A e \in Engines : e # d =>
         pc'[e] = pc[e] /\ cur'[e] = cur[e] /\ attempt'[e] = attempt[e]
  BY <1>1, <1>3
<1>5. \/ /\ pc'[d] = "claimed" /\ cur'[d] = s /\ attempt'[d] = Now(s)
      \/ pc'[d] \in {"drive", "halted", "idle"}
  BY <1>1, <1>3
<1>6. row'[s] = Recorded("pending", Now(s)) /\ row'[s].stamp = Now(s)
  BY <1>1, <1>2 DEF Recorded
<1>7. \A e \in Engines : e # d /\ pc[e] \in Owning =>
         cur[e] # s /\ row'[cur[e]] = row[cur[e]]
  <2>1. \A e \in Engines : e # d /\ pc[e] \in Owning => cur[e] # s /\ cur[e] \in Subjects
    BY <1>1, <1>2 DEF RecInv, OwnerInv, Driving, Owning, Sending, Inv, SendInv
  <2> QED
    BY <1>1, <1>2, <2>1
<1>8. ClaimInv'
  <2> SUFFICES ASSUME NEW e \in Engines, pc'[e] \in Unrecorded
               PROVE  row'[cur'[e]] = Recorded("pending", attempt'[e])
    BY DEF ClaimInv
  <2>1. CASE e = d
    BY <1>5, <1>6, <2>1 DEF Unrecorded
  <2>2. CASE e # d
    BY <1>4, <1>7, <2>2 DEF OwnInv, ClaimInv, Unrecorded, Owning, Sending
  <2> QED
    BY <2>1, <2>2
<1>9. RefusedInv'
  <2> SUFFICES ASSUME NEW e \in Engines, NEW f \in Engines,
                      pc'[e] \in Owning, pc'[f] \in Judging, cur'[f] = cur'[e]
               PROVE  work'[f][cur'[e]].stamp # row'[cur'[e]].stamp
    BY DEF RefusedInv
  <2>1. f # d
    BY <1>5 DEF Judging
  <2>2. pc[f] \in Judging /\ cur'[f] = cur[f] /\ work'[f] = work[f]
    BY <1>2, <1>4, <2>1
  <2>3. CASE e = d
    <3>1. cur'[e] = s
      BY <1>5, <2>3 DEF Owning, Sending
    <3>2. work[f][s] # None
      BY <2>2, <3>1 DEF Inv, PassInv, Judging
    <3> QED
      BY <1>6, <2>2, <3>1, <3>2, NowIsFresh
  <2>4. CASE e # d
    <3>1. /\ pc[e] \in Owning /\ cur'[e] = cur[e] /\ row'[cur[e]] = row[cur[e]]
          /\ cur[f] = cur[e]
      BY <1>4, <1>7, <2>2, <2>4
    <3>2. work[f][cur[e]].stamp # row[cur[e]].stamp
      BY <2>2, <3>1 DEF OwnInv, RefusedInv
    <3> QED
      BY <2>2, <3>1, <3>2
  <2> QED
    BY <2>3, <2>4
<1>10. SendingInv'
  BY <1>2, <1>4, <1>5 DEF OwnInv, SendingInv, Sending
<1> QED
  BY <1>8, <1>9, <1>10 DEF OwnInv

\* A pass that has read the row as its sender has it lets it be.
LEMMA JudgeOwns ==
  ASSUME ~SlowClaims, Inv, Inv', RecInv, OwnInv,
         NEW d \in Engines, NEW s \in Subjects, NEW old \in BOOLEAN, Judge(d, s, old)
  PROVE  OwnInv'
<1> DEFINE r == work[d][s]
           v == Verdict(r, latest[d], pend[d], old)
<1> USE DEF store, send, Goto, Forget
<1>1. /\ pc \in [Engines -> Labels] /\ cur \in [Engines -> Subjects \cup {None}]
      /\ work \in [Engines -> [Subjects -> Row \cup {None}]]
  BY DEF Inv, TypeOK
<1>2. /\ UNCHANGED <<row, sending, attempt>> /\ pc[d] = "judge" /\ r # None
      /\ s \notin sending /\ old \in PastGrace(r)
      /\ \/ /\ work' = [work EXCEPT ![d][s] = None] /\ UNCHANGED <<pc, cur>>
         \/ /\ v # "still" /\ UNCHANGED work /\ cur' = [cur EXCEPT ![d] = s]
            /\ \E label \in Judging : pc' = [pc EXCEPT ![d] = label]
  BY DEF Judge, IsSending, Judging
<1>3. ASSUME NEW e \in Engines, pc[e] \in Owning, cur[e] = s, v # "still"
      PROVE  r.stamp # row[s].stamp
  <2> SUFFICES ASSUME r.stamp = row[s].stamp PROVE FALSE
    OBVIOUS
  <2>1. pc[e] = "claimed"
    BY <1>2, <1>3 DEF OwnInv, SendingInv, Owning
  <2>2. r = row[s]
    BY <1>2 DEF RecInv, StampInv
  <2>3. r = Recorded("pending", attempt[e])
    BY <1>3, <2>1, <2>2 DEF OwnInv, ClaimInv, Unrecorded
  <2>4. r.hash = None /\ r.nonce = None /\ r.status = "pending" /\ attempt[e] = r.stamp
    BY <2>3 DEF Recorded
  <2>5. Replying(r)
    BY <2>1, <2>4 DEF Replying
  <2>6. PastGrace(r) = {FALSE}
    BY <2>4, <2>5 DEF PastGrace
  <2>7. v = "still"
    BY <1>2, <2>4, <2>6 DEF Verdict, UnbroadcastVerdict
  <2> QED
    BY <1>3, <2>7
<1> HIDE DEF v
<1>4. \A e \in Engines : pc'[e] \in Owning => pc'[e] = pc[e] /\ cur'[e] = cur[e]
  BY <1>1, <1>2 DEF Judging, Owning, Sending
<1>5. ClaimInv' /\ SendingInv'
  BY <1>2, <1>4 DEF OwnInv, ClaimInv, SendingInv, Unrecorded, Owning, Sending
<1>6. RefusedInv'
  <2> SUFFICES ASSUME NEW e \in Engines, NEW f \in Engines,
                      pc'[e] \in Owning, pc'[f] \in Judging, cur'[f] = cur'[e]
               PROVE  work'[f][cur[e]].stamp # row[cur[e]].stamp
    BY <1>2, <1>4 DEF RefusedInv
  <2>1. pc[e] \in Owning /\ cur'[e] = cur[e]
    BY <1>4
  <2>2. CASE f # d
    <3>1. pc'[f] = pc[f] /\ cur'[f] = cur[f] /\ work'[f] = work[f]
      BY <1>1, <1>2, <2>2
    <3> QED
      BY <2>1, <3>1 DEF OwnInv, RefusedInv
  <2>3. CASE f = d
    <3>1. v # "still" /\ work' = work /\ cur'[d] = s
      BY <1>1, <1>2, <2>3 DEF Judging
    <3> QED
      BY <1>3, <2>1, <2>3, <3>1
  <2> QED
    BY <2>2, <2>3
<1> QED
  BY <1>5, <1>6 DEF OwnInv

\* Nothing is claimed at the start.
LEMMA OwnInit == Init => OwnInv
BY DEF Init, OwnInv, ClaimInv, RefusedInv, SendingInv, Owning, Sending, Unrecorded

\* Every step keeps the owner of a row, as long as claims are not slow.
LEMMA OwnNext ==
  ASSUME ~SlowClaims
  PROVE  Inv /\ Inv' /\ RecInv /\ SentInv /\ OwnInv /\ [Next]_vars => OwnInv'
BY StepOwns, SteadyOwns, ClaimOwns, JudgeOwns

(* From the moment an engine queues for the lock until its broadcast       *)
(* returns, its row is written by its own record and by nobody else, as    *)
(* long as the reply to a claim comes within the grace window.  With a     *)
(* slower store it is false: a sibling fails the claim before its sender   *)
(* has it in `sending'.                                                    *)
THEOREM SenderOwns ==
  ASSUME ~SlowClaims
  PROVE  Spec => SenderOwnsRow
<1>1. Spec => []OwnInv
  <2>1. TruthInv => SentInv
    BY DEF TruthInv
  <2> QED
    BY <2>1, InvHolds, RecHolds, TruthHolds, OwnInit, OwnNext, PTL DEF Spec
<1>2. Inv /\ RecInv /\ TruthInv /\ OwnInv /\ [Next]_vars =>
        [\A e \in Engines :
            pc[e] \in {"sign", "mark", "guard", "wire"} /\ row'[cur[e]] # row[cur[e]]
                => pc[e] = "mark" /\ pc'[e] # "mark"]_vars
  BY OwnRowStep, MarkStamps DEF TruthInv, OwnInv, Owning, Sending
<1> QED
  BY <1>1, <1>2, InvHolds, RecHolds, TruthHolds, PTL DEF Spec, SenderOwnsRow
-----------------------------------------------------------------------------
(* The outbox.  Most steps only take transactions out of it; a broadcast   *)
(* puts one in.                                                            *)

\* A row records a transaction signed for its own subject.
HomeInv == \A s \in Subjects : row[s].hash # None => tx[row[s].hash].subject = s

LEMMA HomeInit == Init => HomeInv
BY DEF Init, NoRow, HomeInv

LEMMA HomeNext == Inv /\ Inv' /\ RecInv /\ HomeInv /\ [Next]_vars => HomeInv'
<1> SUFFICES ASSUME Inv, Inv', RecInv, HomeInv, [Next]_vars,
                    NEW s \in Subjects, NEW t, row'[s].hash = t, t # None
             PROVE  tx'[t].subject = s
  BY DEF HomeInv
<1>1. t \in TxIds
  BY DEF Inv, TypeOK, Row
<1>2. tx[t].state # "unsigned" /\ tx[t].subject = s
  <2>1. CASE row[s].hash = t
    BY <2>1 DEF HomeInv, RecInv, NameInv, Names
  <2>2. CASE row[s].hash # t
    <3>1. PICK e \in Engines : pc[e] = "mark" /\ cur[e] = s /\ t = mytx[e]
      BY <2>2, HashSource
    <3> QED
      BY <3>1 DEF RecInv, SignedInv
  <2> QED
    BY <2>1, <2>2
<1> QED
  BY <1>1, <1>2, StepOutcomes DEF Outcomes

LEMMA HomeHolds == Spec => []HomeInv
BY InvHolds, RecHolds, HomeInit, HomeNext, PTL DEF Spec

\* A row in the outbox names a live transaction of its own, with its nonce.
LEMMA EntryNames ==
  ASSUME Inv, RecInv, HomeInv, NEW s \in Subjects, InOutbox(s)
  PROVE  /\ row[s].hash \in TxIds /\ Live(row[s].hash)
         /\ tx[row[s].hash].subject = s
         /\ row[s].nonce = tx[row[s].hash].nonce /\ row[s].nonce \in Nat
<1>1. row[s].hash \in TxIds /\ row[s].hash # None /\ Live(row[s].hash)
  BY DEF InOutbox, Inv, TypeOK, Row
<1>2. row[s].nonce = tx[row[s].hash].nonce /\ row[s].nonce \in Nat \cup {None}
  BY <1>1 DEF Inv, TypeOK, Row, RecInv, NameInv, Names
<1> QED
  BY <1>1, <1>2 DEF HomeInv, RecInv, ChainInv, Live

\* Live transactions are on record, each on the row of its subject.
LEMMA LiveIsOut ==
  ASSUME Inv, RecInv, NEW t \in TxIds, Live(t)
  PROVE  \E s \in Subjects : /\ tx[t].subject = s /\ InOutbox(s)
                             /\ row[s].hash = t /\ row[s].nonce = tx[t].nonce
<1>1. tx[t].subject \in Subjects
  BY DEF Inv, TypeOK, Tx, RecInv, ChainInv, Live
<1> QED
  BY <1>1, NoneAssumption DEF RecInv, LiveTxRecorded, InOutbox

\* A step that gives no transaction a new chance; the count stays, or the
\* transaction at it is mined.
Fades ==
    /\ \A t \in TxIds : /\ Live(t)' => Live(t)
                        /\ Left(t) => Left(t)'
    /\ \/ mined' = mined
       \/ /\ mined' = mined + 1
          /\ \E t \in TxIds : Live(t) /\ ~Live(t)' /\ tx[t].nonce = mined

\* Such a step takes some out at most.
LEMMA Leaving ==
  ASSUME Inv, Inv', RecInv, RecInv', HomeInv, HomeInv', Outcomes, Fades
  PROVE  Account!Next
<1> DEFINE m(s) == [subject |-> s, hash |-> row[s].hash, nonce |-> row[s].nonce]
           S == {m(s) : s \in {z \in Subjects : InOutbox(z) /\ ~InOutbox(z)'}}
           T == Gone' \ Gone
<1>1. ASSUME NEW t \in TxIds, Live(t)
      PROVE  tx'[t].subject = tx[t].subject /\ tx'[t].nonce = tx[t].nonce
  BY <1>1 DEF Outcomes, Live
<1>2. ASSUME NEW s \in Subjects, InOutbox(s)'
      PROVE  /\ InOutbox(s)
             /\ row'[s].hash = row[s].hash /\ row'[s].nonce = row[s].nonce
  <2>1. PICK t \in TxIds : row'[s].hash = t /\ Live(t)' /\ tx'[t].subject = s
    BY <1>2 DEF InOutbox, Inv, TypeOK, Row, HomeInv
  <2>2. row'[s].nonce = tx'[t].nonce
    BY <2>1 DEF RecInv, LiveTxRecorded
  <2>3. Live(t)
    BY <2>1 DEF Fades
  <2>4. PICK z \in Subjects : /\ tx[t].subject = z /\ InOutbox(z)
                              /\ row[z].hash = t /\ row[z].nonce = tx[t].nonce
    BY <2>3, LiveIsOut
  <2> QED
    BY <1>1, <2>1, <2>2, <2>3, <2>4
<1>3. ASSUME NEW s \in Subjects, InOutbox(s), ~InOutbox(s)',
             NEW t \in TxIds, row[s].hash = t
      PROVE  ~Live(t)'
  <2> SUFFICES ASSUME Live(t)' PROVE FALSE
    OBVIOUS
  <2>1. Live(t) /\ tx'[t].subject = s
    BY <1>1, <1>3, EntryNames
  <2>2. row'[s].status \in InFlightOnChain /\ row'[s].hash = t
    BY <2>1 DEF RecInv, LiveTxRecorded
  <2> QED
    BY <1>3, <2>2, NoneAssumption DEF InOutbox
<1>4. S \in SUBSET Outgoing /\ T \in SUBSET TxIds
  BY DEF Outgoing, Gone
<1>5. Outgoing' = Outgoing \ S
  <2>1. Outgoing' = {m(s) : s \in {z \in Subjects : InOutbox(z)'}}
    BY <1>2 DEF Outgoing
  <2> QED
    BY <1>2, <2>1 DEF Outgoing
<1>6. Gone' = Gone \cup T
  BY DEF Gone, Fades
<1>7. Account!Hashes(S) \subseteq T
  <2> SUFFICES ASSUME NEW s \in Subjects, InOutbox(s), ~InOutbox(s)'
               PROVE  row[s].hash \in T
    BY DEF Account!Hashes
  <2>1. PICK t \in TxIds : row[s].hash = t /\ Live(t)
    BY EntryNames
  <2>2. ~Live(t)' /\ Left(t)'
    BY <1>3, <2>1 DEF Fades, Live, Left
  <2> QED
    BY <2>1, <2>2 DEF Gone
<1>8. T \cap Account!Hashes(Outgoing \ S) = {}
  <2> SUFFICES ASSUME NEW s \in Subjects, InOutbox(s)', row[s].hash \in T
               PROVE  FALSE
    BY <1>2, <1>5 DEF Account!Hashes, Outgoing
  <2>1. PICK t \in TxIds : row[s].hash = t /\ ~Live(t)'
    BY DEF Gone
  <2>2. row'[s].hash = t
    BY <1>2, <2>1
  <2> QED
    BY <2>1, <2>2 DEF InOutbox
<1>9. Account!Close(S, T)
  BY <1>5, <1>6, <1>7, <1>8 DEF Account!Close
<1>10. Account!Land(S) \/ UNCHANGED mined
  <2> SUFFICES ASSUME mined' # mined PROVE Account!Land(S)
    OBVIOUS
  <2>1. PICK t \in TxIds : Live(t) /\ ~Live(t)' /\ tx[t].nonce = mined
    BY DEF Fades
  <2>2. PICK s \in Subjects : InOutbox(s) /\ row[s].hash = t /\ row[s].nonce = mined
    BY <2>1, LiveIsOut
  <2>3. ~InOutbox(s)'
    <3> SUFFICES ASSUME InOutbox(s)' PROVE FALSE
      OBVIOUS
    <3>1. row'[s].hash = t
      BY <1>2, <2>2
    <3> QED
      BY <2>1, <3>1 DEF InOutbox
  <2>4. m(s) \in S /\ m(s).nonce = mined
    BY <2>2, <2>3
  <2> QED
    BY <2>4 DEF Fades, Account!Land
<1> QED
  BY <1>4, <1>9, <1>10 DEF Account!Next

\* A step that moves one transaction, and gives it no chance it had not.
LEMMA RestateFades ==
  ASSUME Inv, UNCHANGED mined, NEW t \in TxIds, NEW to \in {"limbo", "pool", "dead"},
         tx' = [tx EXCEPT ![t].state = to],
         to = "dead" \/ Live(t) \/ ~(tx[t].nonce >= mined)
  PROVE  Fades
<1>1. /\ tx'[t].state = to /\ tx'[t].nonce = tx[t].nonce
      /\ \A u \in TxIds : u # t => tx'[u] = tx[u]
  BY RestatedTx DEF Inv, TypeOK
<1> QED
  BY <1>1 DEF Fades, Live, Left

\* A signature is in nobody's reach yet.
LEMMA SignFades ==
  ASSUME Inv, NEW e \in Engines, Sign(e)
  PROVE  Fades
<1>1. tx \in [TxIds -> Tx] /\ UNCHANGED mined
  BY DEF Inv, TypeOK, Sign
<1>2. CASE UNCHANGED tx
  BY <1>1, <1>2 DEF Fades, Live, Left
<1>3. ASSUME NEW t \in NextTxId, NEW new,
             tx' = [tx EXCEPT ![t] = new], new.state = "signed"
      PROVE  Fades
  <2>1. t \in TxIds /\ tx[t].state = "unsigned"
    BY DEF NextTxId
  <2>2. tx'[t].state = "signed" /\ \A u \in TxIds : u # t => tx'[u] = tx[u]
    BY <1>1, <1>3, <2>1
  <2> QED
    BY <1>1, <2>1, <2>2 DEF Fades, Live, Left
<1> QED
  BY <1>2, <1>3 DEF Sign

\* A block takes out the transaction it includes, and what it is too late for.
LEMMA MineFades ==
  ASSUME Inv, RecInv, NEW t \in TxIds, NEW result \in {"success", "reverted"},
         Mine(t, result)
  PROVE  Fades
<1>1. /\ mined \in Nat /\ mined' = mined + 1 /\ tx \in [TxIds -> Tx]
      /\ tx[t].state = "pool" /\ tx[t].nonce = mined
  BY DEF Mine, Inv, TypeOK
<1>2. \A u \in TxIds :
         /\ tx'[u].nonce = tx[u].nonce
         /\ \/ u = t /\ tx'[u].state = result
            \/ tx[u].state = "pool" /\ tx'[u].state = "dead"
            \/ tx'[u].state = tx[u].state
  BY <1>1 DEF Mine, Tx
<1>3. ASSUME NEW u \in TxIds, Live(u)' PROVE Live(u)
  <2>1. tx[u].state = tx'[u].state /\ tx[u].nonce \in Nat
    BY <1>1, <1>2, <1>3 DEF Live, RecInv, ChainInv, Tx
  <2> QED
    BY <1>1, <1>2, <1>3, <2>1 DEF Live
<1>4. \A u \in TxIds : Left(u) => Left(u)'
  BY <1>2 DEF Left
<1>5. Live(t) /\ ~Live(t)'
  <2>1. tx'[t].state \in {result, "dead"}
    BY <1>1 DEF Mine, Tx
  <2> QED
    BY <1>1, <2>1 DEF Live
<1> QED
  BY <1>1, <1>3, <1>4, <1>5 DEF Fades

\* A broadcast that may be mined.
Broadcasts(e) == Submit(e) /\ ~(halted /\ Guarded(cur[e])) /\ tx[mytx[e]].nonce >= mined

\* Every other step takes chances at most.
LEMMA StepFades ==
  ASSUME Inv, RecInv, [Next]_vars, \A e \in Engines : ~Broadcasts(e)
  PROVE  Fades
<1> USE DEF chain, store, SetTx, Abandon
<1> DEFINE Still == UNCHANGED <<tx, mined>>
<1>1. Still => Fades
  BY DEF Fades, Live, Left
<1>2. ASSUME NEW e \in Engines, Boot(e) \/ Resync(e) \/ Throw(e) \/ Pass(e)
      PROVE  Still
  BY <1>2 DEF Boot, Resync, ReadPending, ReadSigned, Seed, Throw, Pass, Snapshot,
     ReadCounts, Probe, WriteVerdict, EndPass, SkipSending, Judge
<1>3. ASSUME NEW e \in Engines, Drive(e) PROVE Fades
  <2>1. CASE Sign(e)
    BY <2>1, SignFades
  <2>2. CASE Mark(e) \/ Submit(e) \/ Return(e)
    <3>1. pc[e] \in {"mark", "guard", "wire"}
      BY <2>2 DEF Mark, Submit, Return
    <3>2. mytx[e] \in TxIds
      BY <3>1 DEF Inv, TypeOK, SendInv
    <3>3. CASE Submit(e)
      <4>1. PICK to \in {"limbo", "dead"} :
               /\ tx' = [tx EXCEPT ![mytx[e]].state = to]
               /\ to = "limbo" => ~(halted /\ Guarded(cur[e]))
               /\ UNCHANGED mined
        BY <3>3 DEF Submit
      <4>2. to = "dead" \/ ~(tx[mytx[e]].nonce >= mined)
        BY <3>3, <4>1 DEF Broadcasts
      <4> QED
        BY <3>2, <4>1, <4>2, RestateFades
    <3>4. CASE Mark(e) \/ Return(e)
      <4>1. UNCHANGED mined /\ (UNCHANGED tx \/ tx' = [tx EXCEPT ![mytx[e]].state = "dead"])
        BY <3>4 DEF Mark, Return
      <4> QED
        BY <1>1, <3>2, <4>1, RestateFades
    <3> QED
      BY <2>2, <3>3, <3>4
  <2>3. CASE ~(Sign(e) \/ Mark(e) \/ Submit(e) \/ Return(e))
    <3>1. Still
      BY <1>3, <2>3 DEF Drive, Claim, BeginSend, Post, Catch, ApprovalReceipt,
         EndDrive, Outcome
    <3> QED
      BY <1>1, <3>1
  <2> QED
    BY <2>1, <2>2, <2>3
<1>4. ASSUME Environment PROVE Fades
  <2>1. Halt \/ Resume => Still
    BY DEF Halt, Resume
  <2>2. CASE Crash
    <3>1. /\ UNCHANGED mined /\ tx \in [TxIds -> Tx]
          /\ tx' = [t \in TxIds |-> IF tx[t].state = "signed"
                                    THEN [tx[t] EXCEPT !.state = "dead"] ELSE tx[t]]
      BY <2>2 DEF Crash, Inv, TypeOK
    <3>2. \A t \in TxIds : \/ tx[t].state = "signed" /\ tx'[t].state = "dead"
                           \/ tx[t].state # "signed" /\ tx'[t] = tx[t]
      BY <3>1 DEF Tx
    <3> QED
      BY <3>1, <3>2 DEF Fades, Live, Left
  <2>3. ASSUME NEW t \in TxIds, Arrive(t) \/ Lose(t) PROVE Fades
    <3>1. UNCHANGED mined /\ \E to \in {"pool", "dead"} :
                                /\ tx' = [tx EXCEPT ![t].state = to]
                                /\ to = "dead" \/ Live(t)
      BY <2>3 DEF Arrive, Lose, Live
    <3> QED
      BY <3>1, RestateFades
  <2> QED
    BY <1>1, <1>4, <2>1, <2>2, <2>3, MineFades DEF Environment
<1>5. CASE UNCHANGED vars
  BY <1>1, <1>5 DEF vars
<1> QED
  BY <1>1, <1>2, <1>3, <1>4, <1>5 DEF Next

\* A broadcast puts the transaction of the row in the outbox, at a nonce that
\* is free: it is on record since Mark, and the fence held its nonce for it.
LEMMA BroadcastSends ==
  ASSUME Inv, RecInv, HomeInv, FenceInv, NEW e \in Engines, Broadcasts(e)
  PROVE  Account!Send
<1>1. PICK t \in TxIds, s \in Subjects : t = mytx[e] /\ s = cur[e]
  BY DEF Broadcasts, Submit, Inv, TypeOK, SendInv
<1>2. /\ UNCHANGED <<row, mined>> /\ pc[e] = "guard"
      /\ tx \in [TxIds -> Tx] /\ tx' = [tx EXCEPT ![t].state = "limbo"]
      /\ tx[t].nonce >= mined
  BY <1>1 DEF Broadcasts, Submit, SetTx, store, Inv, TypeOK
<1>3. tx[t].state = "signed" /\ tx[t].subject = s /\ t # None
  BY <1>1, <1>2, NoneAssumption DEF RecInv, SignedInv
<1>4. /\ mined \in Nat /\ tx[t].nonce \in Nat
      /\ row[s].hash = t /\ row[s].nonce = tx[t].nonce
      /\ row[s].status \in InFlightOnChain
  <2>1. mined \in Nat /\ tx[t].nonce \in Nat
    BY <1>3 DEF Inv, TypeOK, Tx, RecInv, ChainInv
  <2>2. row[s].hash = t /\ row[s].status \in InFlightOnChain
    BY <1>1, <1>2, <2>1 DEF RecInv, RecordInv, OnRecord
  <2> QED
    BY <1>3, <2>1, <2>2 DEF RecInv, NameInv, Names
<1>5. /\ tx'[t].state = "limbo" /\ tx'[t].nonce = tx[t].nonce
      /\ \A u \in TxIds : u # t => tx'[u] = tx[u]
  BY <1>2, RestatedTx
<1>6. /\ Live(t)' /\ ~Live(t)
      /\ \A u \in TxIds : u # t => /\ Live(u)' = Live(u)
                                   /\ Left(u)' = Left(u)
  BY <1>2, <1>3, <1>5 DEF Live, Left
<1>7. InOutbox(s)' /\ ~InOutbox(s)
  BY <1>2, <1>3, <1>4, <1>6 DEF InOutbox
<1>8. \A z \in Subjects : z # s => row[z].hash # t
  BY <1>3 DEF HomeInv
<1>9. \A z \in Subjects : z # s => InOutbox(z)' = InOutbox(z)
  <2> SUFFICES ASSUME NEW z \in Subjects, z # s, row[z].hash # None
               PROVE  InOutbox(z)' = InOutbox(z)
    BY <1>2 DEF InOutbox
  <2>1. PICK u \in TxIds : row[z].hash = u /\ row'[z].hash = u
    BY <1>2 DEF Inv, TypeOK, Row
  <2>2. Live(u)' = Live(u)
    BY <1>6, <1>8, <2>1
  <2> QED
    BY <1>2, <2>1, <2>2 DEF InOutbox
<1> DEFINE n == [subject |-> s, hash |-> row[s].hash, nonce |-> row[s].nonce]
<1>10. Outgoing' = Outgoing \cup {n}
  <2>1. Outgoing' = {[subject |-> z, hash |-> row[z].hash, nonce |-> row[z].nonce] :
                        z \in {y \in Subjects : InOutbox(y)'}}
    BY <1>2 DEF Outgoing
  <2> QED
    BY <1>7, <1>9, <2>1 DEF Outgoing
<1>11. ASSUME NEW z \in Subjects, InOutbox(z)
       PROVE  z # s /\ row[z].hash # t /\ row[z].nonce # row[s].nonce
  <2>1. z # s /\ row[z].hash # t
    BY <1>7, <1>8, <1>11
  <2>2. PICK u \in TxIds : row[z].hash = u /\ Live(u) /\ row[z].nonce = tx[u].nonce
    BY <1>11, EntryNames
  <2>3. Holding(u) /\ Holding(t)
    BY <1>2, <1>3, <2>2, LiveHolds DEF Holding
  <2> QED
    BY <1>4, <2>1, <2>2, <2>3 DEF FenceInv, OneInv
<1>12. Gone' = Gone /\ t \notin Gone
  <2>1. t \notin Gone' /\ t \notin Gone
    BY <1>3, <1>6 DEF Gone, Left
  <2> QED
    BY <1>6, <2>1 DEF Gone
<1>13. n \in Account!Entry /\ n \in Outgoing' /\ n.hash \notin Gone /\ n.nonce >= mined
  BY <1>2, <1>4, <1>10, <1>12 DEF Account!Entry
<1>14. \A o \in Outgoing : /\ o.subject # n.subject /\ o.hash # n.hash
                           /\ o.nonce # n.nonce
  BY <1>4, <1>11 DEF Outgoing
<1> QED
  BY <1>2, <1>10, <1>12, <1>13, <1>14 DEF Account!Send

LEMMA OutboxInit == Init => Account!Init
BY DEF Init, NoRow, NoTx, Outgoing, InOutbox, InFlightOnChain, Gone, Left, Account!Init

LEMMA OutboxNext ==
  Inv /\ Inv' /\ RecInv /\ RecInv' /\ HomeInv /\ HomeInv' /\ FenceInv /\ [Next]_vars
    => Account!Next
<1> SUFFICES ASSUME Inv, Inv', RecInv, RecInv', HomeInv, HomeInv', FenceInv, [Next]_vars
             PROVE  Account!Next
  OBVIOUS
<1>1. ASSUME NEW e \in Engines, Broadcasts(e) PROVE Account!Next
  BY <1>1, BroadcastSends DEF Account!Next
<1>2. CASE \A e \in Engines : ~Broadcasts(e)
  BY <1>2, StepFades, StepOutcomes, Leaving
<1> QED
  BY <1>1, <1>2

(* The rows, the nonces and the mempool make up an outbox, however the     *)
(* engines, lost writes, crashes and a mute node interleave: nothing is    *)
(* mined that no row in flight names, no subject and no nonce has two      *)
(* transactions out, and what is over never comes back (markPending before *)
(* the broadcast, resyncNonces, withNonce).                                *)
THEOREM AutoIsAnOutbox == Spec => ImplementsOutbox
<1>1. Inv /\ Inv' /\ RecInv /\ RecInv' /\ HomeInv /\ HomeInv' /\ FenceInv /\ [Next]_vars
        => [Account!Next]_(Account!vars)
  BY OutboxNext
<1> QED
  BY <1>1, OutboxInit, InvHolds, RecHolds, HomeHolds, FenceHolds, PTL
     DEF Spec, ImplementsOutbox, Account!Spec
=============================================================================
