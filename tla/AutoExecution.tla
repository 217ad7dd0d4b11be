---------------------------- MODULE AutoExecution ----------------------------
(***************************************************************************)
(* AUTO execution over public submission: the poll loops of one bot        *)
(* process, the store they share, the nonce allocator they share, and the  *)
(* chain they send to.                                                     *)
(*                                                                         *)
(* Every cycle of an engine (engine.ts BaseEngine.run) reconciles the      *)
(* in-flight rows against the chain, re-seeds the nonce lease, and drives  *)
(* some candidates: claim the row, queue for the allocator's lock, sign,   *)
(* record nonce and hash, broadcast, record again; then it waits for the   *)
(* receipts.  An action below is the code between two awaits whose         *)
(* interleaving with the other engine, the chain or a crash matters.       *)
(*                                                                         *)
(* External and assumed: the account's transactions all come from this     *)
(* process; a receipt and the `latest' count are accurate when read; the   *)
(* `pending' count may omit any part of the mempool; a transaction that    *)
(* left the node's pool past the grace window has left every pool.         *)
(***************************************************************************)
EXTENDS IntentStore, Sequences, FiniteSets

CONSTANTS
    Engines,    \* poll loops sharing the process
    Subjects,   \* idempotency keys: one row each
    Kind,       \* "action", "approval" or "revoke" for each subject
    Owner,      \* the engine that drives each subject
    SlowClaims, \* the reply to a claim may outlast the grace window
    Arbitrage,  \* the engines that acquire vaults; the others liquidate
    MaxTx,      \* bound: transactions the account ever signs
    MaxFaults   \* bound: crashes, failed calls and lost replies

ASSUME SizeAssumption == /\ MaxTx \in Nat
                         /\ MaxFaults \in Nat
                         /\ TxIds = 1..MaxTx
ASSUME KindAssumption == Kind \in [Subjects -> {"action", "approval", "revoke"}]
ASSUME OwnerAssumption == Owner \in [Subjects -> Engines]
ASSUME SubjectAssumption == None \notin Subjects /\ IsFiniteSet(Subjects)
\* In a pass, None stands for a row it does not treat.
ASSUME WorkAssumption == None \notin Row
\* The clock has a fresh stamp whatever the engines remember: two each.
ASSUME ClockAssumption ==
    /\ IsFiniteSet(Engines)
    /\ IsFiniteSet(Stamps) => Cardinality(Stamps) > 2 * Cardinality(Engines)
ASSUME ClaimAssumption == SlowClaims \in BOOLEAN
ASSUME ArbitrageAssumption == Arbitrage \subseteq Engines

VARIABLES
    row,        \* the store
    tx,         \* every transaction ever signed, and what the chain knows of it
    mined,      \* the account's mined nonce count (`latest')
    halted,     \* the risk gate is HALTED
    up,         \* the process has seeded its lease and started its loops
    lease,      \* next nonce of the allocator, None until seeded
    hole,       \* the allocator's reclaimable nonce, or None
    queue,      \* the allocator's promise chain: its head runs, the rest wait
    sending,    \* rows some engine of this process is sending (crashSafety)
    pc, cur,    \* per engine: its step, and the row the step is about
    attempt,    \* per engine: attemptAt of the claim it is sending
    mytx,       \* per engine: the transaction it signed for that claim
    work,       \* per engine: the rows its pass read and has yet to treat
    latest,     \* per engine: the `latest' count its pass read
    pend,       \* per engine: the `pending' count its pass read
    verdict,    \* per engine: what it resolved to write to its current row
    sent,       \* per engine: transactions whose receipts it will wait for
    faults

store == <<row>>
chain == <<tx, mined>>
alloc == <<lease, hole, queue>>
pass  == <<work, latest, pend, verdict>>
send  == <<attempt, mytx, sent>>
ambient == <<halted, up, faults>>
vars == <<row, tx, mined, halted, up, lease, hole, queue, sending, pc, cur,
          attempt, mytx, work, latest, pend, verdict, sent, faults>>
------------------------------------------------------------------------------
\* Transactions and the chain

TxStates == {"unsigned", "signed", "limbo", "pool", "success", "reverted", "dead"}
NoTx == [subject |-> None, nonce |-> None, state |-> "unsigned"]

\* Could the transaction still be mined?  "limbo" is a request whose fate no
\* node can tell yet; "pool" is a transaction a node holds.
Live(t) == tx[t].state \in {"limbo", "pool"} /\ tx[t].nonce >= mined

\* ChainReader.isKnown: the node holds the transaction, or mined it.
IsKnown(t) == tx[t].state \in {"pool", "success", "reverted"}

\* The answers a provider may give for the `pending' count.
PendingCounts ==
    {k \in mined..MaxTx :
        \A n \in mined..(k - 1) :
            \E t \in TxIds : tx[t].state = "pool" /\ tx[t].nonce = n}

Guarded(s) == Kind[s] # "revoke"
InFlight == {s \in Subjects : row[s].status \in InFlightOnChain}
Signed(r) == r # None /\ r.nonce # None /\ r.hash # None

\* The answers the age test may give for a row as it was read: any, except
\* that the grace window outlasts a broadcast.  It runs from the record made
\* just before, and ends after the transaction reached the pools or failed.
\* Unless SlowClaims, it also outlasts the reply to a claim.
Replying(r) == \E e \in Engines : pc[e] = "claimed" /\ attempt[e] = r.stamp
PastGrace(r) == IF \/ r.hash # None /\ tx[r.hash].state \in {"signed", "limbo"}
                   \/ ~SlowClaims /\ r.hash = None /\ Replying(r)
                THEN {FALSE} ELSE BOOLEAN

\* A stamp no engine remembers of this row: the clock moved on.
Remembered(s) ==
    {attempt[e] : e \in {e \in Engines : cur[e] = s}} \cup
    {work[e][s].stamp : e \in {e \in Engines : work[e][s] # None}}
FreshStamps(s) == Stamps \ Remembered(s)
Now(s) == CHOOSE t \in FreshStamps(s) : TRUE

\* The hash the next signature gets; none once the bound is reached.
NextTxId == {t \in TxIds : /\ tx[t].state = "unsigned"
                           /\ \A u \in 1..(t - 1) : tx[u].state # "unsigned"}

Write(s, new) == row' = [row EXCEPT ![s] = new]
Goto(e, label) == pc' = [pc EXCEPT ![e] = label]
Fault == faults < MaxFaults /\ faults' = faults + 1
Forget(e, s) == work' = [work EXCEPT ![e][s] = None]

\* The engine runs inside the allocator's lock.
Holds(e) == queue # <<>> /\ Head(queue) = e
Enqueue(e) == queue' = Append(queue, e)
Unlock == queue' = Tail(queue)
------------------------------------------------------------------------------
Init ==
    /\ row = [s \in Subjects |-> NoRow]
    /\ tx = [t \in TxIds |-> NoTx]
    /\ mined = 0
    /\ halted = FALSE
    /\ up = FALSE
    /\ lease = None
    /\ hole = None
    /\ queue = <<>>
    /\ sending = {}
    /\ pc = [e \in Engines |-> "off"]
    /\ cur = [e \in Engines |-> None]
    /\ attempt = [e \in Engines |-> None]
    /\ mytx = [e \in Engines |-> None]
    /\ work = [e \in Engines |-> [s \in Subjects |-> None]]
    /\ latest = [e \in Engines |-> 0]
    /\ pend = [e \in Engines |-> 0]
    /\ verdict = [e \in Engines |-> None]
    /\ sent = [e \in Engines |-> {}]
    /\ faults = 0
------------------------------------------------------------------------------
\* reconcilePending: one pass over the in-flight rows

\* The work list.  The nonce counts are read only if some row carries a nonce.
Snapshot(e) ==
    /\ pc[e] = "idle"
    /\ work' = [work EXCEPT ![e] = [s \in Subjects |->
                                      IF s \in InFlight THEN row[s] ELSE None]]
    /\ Goto(e, IF \E s \in InFlight : row[s].nonce # None
               THEN "counts" ELSE "judge")
    /\ UNCHANGED <<store, chain, alloc, send, ambient, sending, cur,
                   latest, pend, verdict>>

ReadCounts(e) ==
    /\ pc[e] = "counts"
    /\ latest' = [latest EXCEPT ![e] = mined]
    /\ \E k \in PendingCounts : pend' = [pend EXCEPT ![e] = k]
    /\ Goto(e, "judge")
    /\ UNCHANGED <<store, chain, alloc, send, ambient, sending, cur, work,
                   verdict>>

\* Mutant: the mined count is consulted before the receipt.
BroadcastVerdictMutant(r, l, p, old) ==
    IF l > r.nonce                        THEN "failed"
    ELSE IF tx[r.hash].state = "success"  THEN "confirmed"
    ELSE IF tx[r.hash].state = "reverted" THEN "failed"
    ELSE IF p <= r.nonce /\ old           THEN "probe"
    ELSE "still"

\* A row with a hash: its receipt speaks first, then the mined count, then
\* the mempool.  "probe" asks the node for the transaction itself.
BroadcastVerdict(r, l, p, old) ==
    IF tx[r.hash].state = "success"       THEN "confirmed"
    ELSE IF tx[r.hash].state = "reverted" THEN "failed"
    ELSE IF r.nonce = None                THEN "still"
    ELSE IF l > r.nonce                   THEN "failed"
    ELSE IF p <= r.nonce /\ old           THEN "probe"
    ELSE "still"

\* A row without one: a young claim may still be signing; otherwise the
\* reserved nonce is all there is.
UnbroadcastVerdict(r, l, p, old) ==
    IF r.status = "pending" /\ r.nonce = None /\ ~old THEN "still"
    ELSE IF r.nonce # None /\ l <= r.nonce /\ p > r.nonce THEN "submitted"
    ELSE "failed"

Verdict(r, l, p, old) == IF r.hash # None THEN BroadcastVerdict(r, l, p, old)
                                          ELSE UnbroadcastVerdict(r, l, p, old)

\* A row this process is sending is passed over before anything is read.
IsSendingMutant(s) == FALSE     \* Mutant: the set is not consulted.
IsSending(s) == s \in sending

SkipSending(e, s) ==
    /\ pc[e] = "judge"
    /\ work[e][s] # None
    /\ IsSending(s)
    /\ Forget(e, s)
    /\ UNCHANGED <<store, chain, alloc, send, ambient, sending, pc, cur,
                   latest, pend, verdict>>

Judge(e, s, old) ==
    LET r == work[e][s]
        v == Verdict(r, latest[e], pend[e], old)
    IN  /\ pc[e] = "judge"
        /\ r # None
        /\ ~IsSending(s)
        /\ old \in PastGrace(r)
        /\ \/ /\ v = "still"
              /\ Forget(e, s)
              /\ UNCHANGED <<pc, cur, verdict>>
           \/ /\ v = "probe"
              /\ Goto(e, "probe")
              /\ cur' = [cur EXCEPT ![e] = s]
              /\ UNCHANGED <<work, verdict>>
           \/ /\ v \notin {"still", "probe"}
              /\ Goto(e, "write")
              /\ cur' = [cur EXCEPT ![e] = s]
              /\ verdict' = [verdict EXCEPT ![e] = v]
              /\ UNCHANGED work
        /\ UNCHANGED <<store, chain, alloc, send, ambient, sending, latest, pend>>

\* couldBeInFlight past the grace window: the node's answer decides.
Probe(e) ==
    /\ pc[e] = "probe"
    /\ IF IsKnown(work[e][cur[e]].hash)
       THEN /\ Forget(e, cur[e])
            /\ cur' = [cur EXCEPT ![e] = None]
            /\ Goto(e, "judge")
            /\ UNCHANGED verdict
       ELSE /\ verdict' = [verdict EXCEPT ![e] = "failed"]
            /\ Goto(e, "write")
            /\ UNCHANGED <<work, cur>>
    /\ UNCHANGED <<store, chain, alloc, send, ambient, sending, latest, pend>>

\* asRead: the write lands only on the row exactly as this pass read it.
AsReadMutant(r) == [Anything EXCEPT !.status = {r.status}]  \* Mutant.
AsRead(r) == [stamp |-> r.stamp, hash |-> r.hash, status |-> {r.status}]

WriteVerdict(e) ==
    LET s == cur[e]
        r == work[e][s]
    IN  /\ pc[e] = "write"
        /\ Write(s, Transition(row[s], verdict[e], None, r.hash, AsRead(r), Now(s)))
        /\ Forget(e, s)
        /\ cur' = [cur EXCEPT ![e] = None]
        /\ verdict' = [verdict EXCEPT ![e] = None]
        /\ Goto(e, "judge")
        /\ UNCHANGED <<chain, alloc, send, ambient, sending, latest, pend>>

\* The pass is over: queue for the allocator's lock.
EndPass(e) ==
    /\ pc[e] = "judge"
    /\ \A s \in Subjects : work[e][s] = None
    /\ latest' = [latest EXCEPT ![e] = 0]
    /\ pend' = [pend EXCEPT ![e] = 0]
    /\ Enqueue(e)
    /\ Goto(e, "pending")
    /\ UNCHANGED <<store, chain, send, ambient, sending, cur, work, verdict,
                   lease, hole>>
------------------------------------------------------------------------------
\* resyncNonces: the lease is re-seeded inside the allocator's lock

ReadPending(e) ==
    /\ pc[e] = "pending"
    /\ Holds(e)
    /\ \E k \in PendingCounts : pend' = [pend EXCEPT ![e] = k]
    /\ Goto(e, "rows")
    /\ UNCHANGED <<store, chain, alloc, send, ambient, sending, cur, work,
                   latest, verdict>>

\* liveNonces reads the rows with a nonce and a hash ...
ReadSigned(e) ==
    /\ pc[e] = "rows"
    /\ work' = [work EXCEPT ![e] = [s \in Subjects |->
                   IF s \in InFlight /\ Signed(row[s]) THEN row[s] ELSE None]]
    /\ Goto(e, "seed")
    /\ UNCHANGED <<store, chain, alloc, send, ambient, sending, cur,
                   latest, pend, verdict>>

\* ... and keeps those that could be in flight: the young, and the known.
LiveNonces(e, young) ==
    {work[e][s].nonce : s \in {s \in Subjects :
        work[e][s] # None /\ (s \in young \/ IsKnown(work[e][s].hash))}}

\* The sets of rows the age test may find young.
YoungSets(e) ==
    LET asked == {s \in Subjects : work[e][s] # None /\ ~IsKnown(work[e][s].hash)}
    IN  {young \in SUBSET asked :
            \A s \in asked : (s \notin young) \in PastGrace(work[e][s])}

Max0(S) == IF S = {} THEN 0 ELSE CHOOSE n \in S : \A m \in S : m <= n

FloorMutant(live) == 0          \* Mutant: the lease is not fenced.
Floor(live) == IF live = {} THEN 0 ELSE Max0(live) + 1
NextNonce(p, live) == IF p >= Floor(live) THEN p ELSE Floor(live)

\* Mutants: the lowest unmined nonce is reissued though a live transaction
\* holds it; or a hole is never found.
ReclaimableMutant(p, live) == IF NextNonce(p, live) > p THEN p ELSE None
ReclaimableMutant2(p, live) == None
Reclaimable(p, live) ==
    IF NextNonce(p, live) > p /\ p \notin live THEN p ELSE None

\* The SET.  The boot resync also starts the loops; a halted gate ends the
\* cycle of any other here.
Seed(e, young) ==
    LET live == LiveNonces(e, young)
    IN  /\ pc[e] = "seed"
        /\ young \in YoungSets(e)
        /\ lease' = NextNonce(pend[e], live)
        /\ hole' = Reclaimable(pend[e], live)
        /\ Unlock
        /\ work' = [work EXCEPT ![e] = [s \in Subjects |-> None]]
        /\ pend' = [pend EXCEPT ![e] = 0]
        /\ IF up THEN Goto(e, IF halted THEN "halted" ELSE "drive")
                 ELSE pc' = [d \in Engines |-> "idle"]
        /\ up' = TRUE
        /\ UNCHANGED <<store, chain, send, halted, faults, sending, cur, latest,
                       verdict>>
------------------------------------------------------------------------------
\* commit and sendApprove: claim, sign, record, broadcast, record

\* The engine puts down everything it holds about a send.
DropSend(e) ==
    /\ cur' = [cur EXCEPT ![e] = None]
    /\ attempt' = [attempt EXCEPT ![e] = None]
    /\ mytx' = [mytx EXCEPT ![e] = None]

\* The send window of a row closes.
EndSendMutant(s) == sending     \* Mutant: the id leaks.
EndSend(s) == sending \ {s}

\* No more sends this cycle; the receipts of the batch, if any, are next.
StopSending(e) == Goto(e, IF sent[e] = {} THEN "idle" ELSE "receipts")

\* An error out of the poll: the cycle ends, and with it the wait for the
\* receipts of what it had sent.
EndCycle(e) ==
    /\ Goto(e, "idle")
    /\ sent' = [sent EXCEPT ![e] = {}]

\* What an error costs that is not a failed broadcast.  Arbitrage gives up the
\* vault it was acquiring, liquidation the rest of its cycle; with a revocation
\* it is the other way round.
CostsOne(e, s) == (e \in Arbitrage) = (Kind[s] # "revoke")

GiveUp(e, s) ==
    IF CostsOne(e, s)
    THEN /\ Goto(e, IF Kind[s] = "revoke" THEN "halted" ELSE "drive")
         /\ UNCHANGED sent
    ELSE EndCycle(e)

\* An action passes the gate's openSlot first; an approval is only refused
\* once claimed; a revocation is what a halted cycle still drives.
\* Liquidation approves before its first send, arbitrage vault by vault.
MayClaim(e, s) ==
    /\ Owner[s] = e
    /\ \/ pc[e] = "drive" /\ Kind[s] = "action" /\ ~halted
       \/ /\ pc[e] = "drive" /\ Kind[s] = "approval"
          /\ e \in Arbitrage \/ sent[e] = {}
       \/ pc[e] = "halted" /\ Kind[s] = "revoke"

\* recordIntent.  A live row makes the candidate a duplicate: nothing
\* changes.  The reply can be lost after the row was written.
Claim(e, s) ==
    /\ MayClaim(e, s)
    /\ Recordable(row[s])
    /\ NextTxId # {}
    /\ Write(s, Recorded("pending", Now(s)))
    /\ \/ /\ cur' = [cur EXCEPT ![e] = s]
          /\ attempt' = [attempt EXCEPT ![e] = Now(s)]
          /\ Goto(e, "claimed")
          /\ UNCHANGED <<sent, faults>>
       \/ /\ Fault
          /\ GiveUp(e, s)
          /\ UNCHANGED <<cur, attempt>>
    /\ UNCHANGED <<chain, alloc, pass, halted, up, sending, mytx>>

\* beginSend, the first check of the gate, and the wait for the lock.
BeginSend(e) ==
    /\ pc[e] = "claimed"
    /\ sending' = sending \cup {cur[e]}
    /\ IF halted /\ Guarded(cur[e])
       THEN Goto(e, "catch") /\ UNCHANGED queue
       ELSE Goto(e, "sign") /\ Enqueue(e)
    /\ UNCHANGED <<store, chain, pass, send, ambient, cur, lease, hole>>

\* withNonce takes the hole if there is one, else the next of the lease; the
\* number is spent even when signing fails.
Sign(e) ==
    LET nonce == IF hole # None THEN hole ELSE lease
    IN  /\ pc[e] = "sign"
        /\ Holds(e)
        /\ hole' = None
        /\ lease' = IF hole # None THEN lease ELSE lease + 1
        /\ \/ \E t \in NextTxId :
                /\ tx' = [tx EXCEPT ![t] = [subject |-> cur[e], nonce |-> nonce,
                                            state |-> "signed"]]
                /\ mytx' = [mytx EXCEPT ![e] = t]
                /\ Goto(e, "mark")
                /\ UNCHANGED <<queue, faults>>
           \/ /\ IF NextTxId = {} THEN UNCHANGED faults ELSE Fault
              /\ Unlock
              /\ Goto(e, "catch")
              /\ UNCHANGED <<tx, mytx>>
        /\ UNCHANGED <<store, mined, pass, halted, up, sending, cur, attempt, sent>>

SetTx(t, state) == tx' = [tx EXCEPT ![t].state = state]

\* The send stops before the broadcast: the signed bytes go nowhere.
Abandon(e) ==
    /\ SetTx(mytx[e], "dead")
    /\ Unlock
    /\ Goto(e, "catch")

\* markPending: nonce and hash are recorded before the broadcast, on the
\* attempt this send claimed and no other.  If the write is refused or its
\* reply lost, signedHash stays unset.
Mark(e) ==
    LET s == cur[e]
        t == mytx[e]
        new == Transition(row[s], "pending", tx[t].nonce, t,
                          AtStamp(attempt[e]), Now(s))
    IN  /\ pc[e] = "mark"
        /\ \/ /\ Meets(row[s], AtStamp(attempt[e]))
              /\ Write(s, new)
              /\ attempt' = [attempt EXCEPT ![e] = None]
              /\ Goto(e, "guard")
              /\ UNCHANGED <<tx, queue, mytx, faults>>
           \/ /\ ~Meets(row[s], AtStamp(attempt[e]))
              /\ Abandon(e)
              /\ mytx' = [mytx EXCEPT ![e] = None]
              /\ UNCHANGED <<row, attempt, faults>>
           \/ /\ Fault
              /\ \E r \in {row[s], new} : Write(s, r)
              /\ Abandon(e)
              /\ mytx' = [mytx EXCEPT ![e] = None]
              /\ UNCHANGED attempt
        /\ UNCHANGED <<mined, pass, halted, up, sending, cur, sent,
                       lease, hole>>

\* Mutant: the gate is not checked again before the broadcast.
SubmitMutant(e) ==
    /\ pc[e] = "guard"
    /\ SetTx(mytx[e], "limbo")
    /\ Goto(e, "wire")
    /\ UNCHANGED <<store, mined, alloc, pass, send, ambient, sending, cur>>

\* The last check of the gate, and the broadcast with nothing in between.
Submit(e) ==
    /\ pc[e] = "guard"
    /\ IF halted /\ Guarded(cur[e])
       THEN Abandon(e)
       ELSE /\ SetTx(mytx[e], "limbo")
            /\ Goto(e, "wire")
            /\ UNCHANGED queue
    /\ UNCHANGED <<store, mined, pass, send, ambient, sending, cur, lease, hole>>

\* The broadcast returns: accepted, refused outright, or with an error that
\* says nothing.  sendApprove ends its send window here, commit later.
Return(e) ==
    /\ pc[e] = "wire"
    /\ Unlock
    /\ \/ /\ tx[mytx[e]].state \in {"pool", "success", "reverted"}
          /\ Goto(e, "post")
          /\ sending' = IF Kind[cur[e]] = "action" THEN sending ELSE EndSend(cur[e])
          /\ UNCHANGED tx
       \/ /\ tx[mytx[e]].state = "limbo"
          /\ SetTx(mytx[e], "dead")
          /\ Goto(e, "catch")
          /\ UNCHANGED sending
       \/ /\ Goto(e, "catch")
          /\ UNCHANGED <<tx, sending>>
    /\ UNCHANGED <<store, mined, pass, send, ambient, cur, lease, hole>>

\* A write whose failure the code swallows: it happens, or it is lost.
WriteOrLose(s, new) == \/ Write(s, new) /\ UNCHANGED faults
                       \/ Fault /\ UNCHANGED row

\* Recorded again after the broadcast.  commit writes unconditionally, since
\* the row is still in `sending'; sendApprove names its hash.
Post(e) ==
    LET s == cur[e]
        t == mytx[e]
        expect == IF Kind[s] = "action" THEN Anything ELSE AtHash(t)
    IN  /\ pc[e] = "post"
        /\ WriteOrLose(s, Transition(row[s], "submitted", None, t, expect, Now(s)))
        /\ IF Kind[s] = "action"
           THEN /\ sending' = EndSend(s)
                /\ sent' = [sent EXCEPT ![e] = @ \cup {t}]
                /\ DropSend(e)
                /\ Goto(e, "drive")
           ELSE /\ Goto(e, "approved")
                /\ UNCHANGED <<sending, send, cur>>
        /\ UNCHANGED <<chain, alloc, pass, halted, up>>

\* Every failed send ends here: the row is kept live for reconcile to judge.
\* Without a signedHash the write is bound to the claim.  After a failed action
\* nothing else is sent.
Catch(e) ==
    LET s == cur[e]
        expect == IF mytx[e] # None THEN Anything ELSE AtStamp(attempt[e])
    IN  /\ pc[e] = "catch"
        /\ WriteOrLose(s, Transition(row[s], "submitted", None, None, expect, Now(s)))
        /\ sending' = EndSend(s)
        /\ DropSend(e)
        /\ IF Kind[s] = "action"
           THEN StopSending(e) /\ UNCHANGED sent
           ELSE GiveUp(e, s)
        /\ UNCHANGED <<chain, alloc, pass, halted, up>>

\* The receipts waitForTransactionReceipt may give for t: that of t, or, viem
\* following a replacement, that of the transaction mined at its nonce.
Receipts(t) == {u \in TxIds : /\ tx[u].nonce = tx[t].nonce
                              /\ tx[u].state \in {"success", "reverted"}}

\* An approval waits for its receipt inside the cycle.
ApprovalReceipt(e) ==
    LET s == cur[e]
        t == mytx[e]
    IN  /\ pc[e] = "approved"
        /\ \/ /\ \E u \in Receipts(t) : tx[u].state = "success"
              /\ WriteOrLose(s, Transition(row[s], "confirmed", None, t, AtHash(t), Now(s)))
              /\ Goto(e, IF Kind[s] = "revoke" THEN "halted" ELSE "drive")
              /\ UNCHANGED sent
           \/ /\ \E u \in Receipts(t) : tx[u].state = "reverted"
              /\ WriteOrLose(s, Transition(row[s], "failed", None, t, AtHash(t), Now(s)))
              /\ GiveUp(e, s)
           \/ /\ GiveUp(e, s)
              /\ UNCHANGED <<row, faults>>
        /\ DropSend(e)
        /\ UNCHANGED <<chain, alloc, pass, halted, up, sending>>

\* No candidate is left.
EndDrive(e) ==
    /\ pc[e] \in {"drive", "halted"}
    /\ StopSending(e)
    /\ UNCHANGED <<store, chain, alloc, pass, send, ambient, sending, cur>>

\* What an engine records of t on reading the receipt of u.
Classify(e, t, u) ==
    IF tx[u].state = "success" /\ (e \in Arbitrage => u = t)
    THEN "confirmed" ELSE "failed"

\* One receipt of the batch: recordOutcome, or nothing after a timeout.
Outcome(e, t) ==
    LET s == tx[t].subject
    IN  /\ pc[e] = "receipts"
        /\ t \in sent[e]
        /\ \/ \E u \in Receipts(t) :
                 WriteOrLose(s, Transition(row[s], Classify(e, t, u), None, t,
                                           AtHash(t), Now(s)))
           \/ UNCHANGED <<row, faults>>
        /\ sent' = [sent EXCEPT ![e] = @ \ {t}]
        /\ Goto(e, IF sent[e] = {t} THEN "idle" ELSE "receipts")
        /\ UNCHANGED <<chain, alloc, pass, halted, up, sending, cur, attempt, mytx>>
------------------------------------------------------------------------------
\* Failures, restarts, the operator and the chain

\* A read or a write of the bookkeeping throws: the cycle ends.
Throw(e) ==
    /\ up
    /\ \/ pc[e] \in {"counts", "judge", "probe", "write"} /\ UNCHANGED queue
       \/ pc[e] \in {"pending", "rows", "seed"} /\ Holds(e) /\ Unlock
    /\ Fault
    /\ Goto(e, "idle")
    /\ cur' = [cur EXCEPT ![e] = None]
    /\ work' = [work EXCEPT ![e] = [s \in Subjects |-> None]]
    /\ latest' = [latest EXCEPT ![e] = 0]
    /\ pend' = [pend EXCEPT ![e] = 0]
    /\ verdict' = [verdict EXCEPT ![e] = None]
    /\ UNCHANGED <<store, chain, send, halted, up, sending, lease, hole>>

\* The process dies: only the store and the chain survive.
Crash ==
    /\ \E e \in Engines : pc[e] # "off"
    /\ Fault
    /\ tx' = [t \in TxIds |-> IF tx[t].state = "signed"
                              THEN [tx[t] EXCEPT !.state = "dead"] ELSE tx[t]]
    /\ halted' = FALSE
    /\ up' = FALSE
    /\ lease' = None
    /\ hole' = None
    /\ queue' = <<>>
    /\ sending' = {}
    /\ pc' = [e \in Engines |-> "off"]
    /\ cur' = [e \in Engines |-> None]
    /\ attempt' = [e \in Engines |-> None]
    /\ mytx' = [e \in Engines |-> None]
    /\ work' = [e \in Engines |-> [s \in Subjects |-> None]]
    /\ latest' = [e \in Engines |-> 0]
    /\ pend' = [e \in Engines |-> 0]
    /\ verdict' = [e \in Engines |-> None]
    /\ sent' = [e \in Engines |-> {}]
    /\ UNCHANGED <<row, mined>>

\* buildExecutor resyncs before any loop starts.
Boot(e) ==
    /\ \A d \in Engines : pc[d] = "off"
    /\ Enqueue(e)
    /\ Goto(e, "pending")
    /\ UNCHANGED <<store, chain, send, ambient, pass, sending, cur, lease, hole>>

Halt == /\ up
        /\ ~halted
        /\ halted' = TRUE
        /\ Fault
        /\ UNCHANGED <<store, chain, alloc, pass, send, up, sending, pc, cur>>

Resume == /\ halted
          /\ halted' = FALSE
          /\ UNCHANGED <<store, chain, alloc, pass, send, up, faults, sending, pc, cur>>

chainOnly == <<store, alloc, pass, send, ambient, sending, pc, cur>>

\* A submitted transaction reaches the pools, or is lost on the way.
Arrive(t) == /\ tx[t].state = "limbo"
             /\ tx[t].nonce >= mined
             /\ SetTx(t, "pool")
             /\ UNCHANGED <<mined, chainOnly>>

Lose(t) == /\ tx[t].state \in {"limbo", "pool"}
           /\ SetTx(t, "dead")
           /\ UNCHANGED <<mined, chainOnly>>

\* Only the account's next nonce can be mined, and only once.
Mine(t, result) ==
    /\ tx[t].state = "pool"
    /\ tx[t].nonce = mined
    /\ mined' = mined + 1
    /\ tx' = [u \in TxIds |->
                IF u = t THEN [tx[t] EXCEPT !.state = result]
                ELSE IF tx[u].state = "pool" /\ tx[u].nonce = mined
                     THEN [tx[u] EXCEPT !.state = "dead"] ELSE tx[u]]
    /\ UNCHANGED chainOnly
------------------------------------------------------------------------------
Pass(e) == \/ Snapshot(e) \/ ReadCounts(e) \/ Probe(e) \/ WriteVerdict(e)
           \/ EndPass(e)
           \/ \E s \in Subjects : SkipSending(e, s)
           \/ \E s \in Subjects, old \in BOOLEAN : Judge(e, s, old)

Resync(e) == \/ ReadPending(e) \/ ReadSigned(e)
             \/ \E young \in SUBSET Subjects : Seed(e, young)

Drive(e) == \/ \E s \in Subjects : Claim(e, s)
            \/ BeginSend(e) \/ Sign(e) \/ Mark(e) \/ Submit(e) \/ Return(e)
            \/ Post(e) \/ Catch(e) \/ ApprovalReceipt(e) \/ EndDrive(e)
            \/ \E t \in TxIds : Outcome(e, t)

Environment == \/ Halt \/ Resume \/ Crash
               \/ \E t \in TxIds : Arrive(t) \/ Lose(t)
               \/ \E t \in TxIds, result \in {"success", "reverted"} : Mine(t, result)

Next == \/ \E e \in Engines : Boot(e) \/ Pass(e) \/ Resync(e) \/ Drive(e) \/ Throw(e)
        \/ Environment

Spec == Init /\ [][Next]_vars
------------------------------------------------------------------------------
Labels == {"off", "idle", "counts", "judge", "probe", "write", "pending", "rows",
           "seed", "drive", "halted", "claimed", "sign", "mark", "guard", "wire",
           "post", "catch", "approved", "receipts"}

Tx == [subject : Subjects \cup {None}, nonce : Nat \cup {None}, state : TxStates]

\* Every variable holds a value of its kind, and the loops run only once the
\* lease is seeded (reserve throws before).
TypeOK ==
    /\ row \in [Subjects -> Row]
    /\ tx \in [TxIds -> Tx]
    /\ mined \in Nat
    /\ halted \in BOOLEAN
    /\ up \in BOOLEAN
    /\ lease \in Nat \cup {None}
    /\ up => lease # None
    /\ hole \in Nat \cup {None}
    /\ queue \in Seq(Engines)
    /\ sending \subseteq Subjects
    /\ pc \in [Engines -> Labels]
    /\ cur \in [Engines -> Subjects \cup {None}]
    /\ attempt \in [Engines -> Stamps \cup {None}]
    /\ mytx \in [Engines -> TxIds \cup {None}]
    /\ work \in [Engines -> [Subjects -> Row \cup {None}]]
    /\ latest \in [Engines -> Nat]
    /\ pend \in [Engines -> Nat]
    /\ verdict \in [Engines -> {None, "confirmed", "failed", "submitted"}]
    /\ sent \in [Engines -> SUBSET TxIds]
    /\ faults \in 0..MaxFaults

\* A transaction that can still be mined is on record: its row is in flight
\* and names its hash and nonce.  It is what lets a crash, a sibling engine or
\* the nonce fence find it (markPending before the broadcast; a verdict only
\* on final evidence).
LiveTxRecorded ==
    \A t \in TxIds : Live(t) =>
        LET r == row[tx[t].subject]
        IN  r.status \in InFlightOnChain /\ r.hash = t /\ r.nonce = tx[t].nonce

\* No transaction is signed over another that can still be mined, however the
\* engines, the lease, the hole and a mute mempool interleave (resyncNonces).
NoNonceReuse ==
    \A t, u \in TxIds : Live(t) /\ Live(u) /\ t # u => tx[t].nonce # tx[u].nonce

\* A terminal row tells the truth: confirmed means its transaction succeeded,
\* failed means it did not and never will (reconcilePending, recordOutcome).
VerdictsMatchChain ==
    \A s \in Subjects : row[s].hash # None =>
        LET state == tx[row[s].hash].state
        IN  /\ row[s].status = "confirmed" => state = "success"
            /\ row[s].status = "failed" => state # "success" /\ ~Live(row[s].hash)

\* What of it holds whoever drives the row: a failure is final, whichever
\* engine read it and however late; and where the engine compares the hash of
\* a receipt with its own, a confirmation is the row's own transaction.
VouchedVerdicts ==
    \A s \in Subjects : row[s].hash # None =>
        LET state == tx[row[s].hash].state
        IN  /\ row[s].status = "confirmed" /\ Kind[s] = "action"
                   /\ Owner[s] \in Arbitrage => state = "success"
            /\ row[s].status = "failed" => state # "success" /\ ~Live(row[s].hash)

\* An attempt keeps the hash it was recorded with: a late write of one attempt
\* never lands on the next one under the same id (the guards of transition).
HashWrittenOnce ==
    [][\A s \in Subjects :
          row[s].hash # None /\ row'[s].hash # row[s].hash => row'[s].hash = None]_vars

\* From the moment an engine queues for the lock until its broadcast returns,
\* its row is written by its own pre-broadcast record and by nobody else: a
\* sibling's pass does not throw a waiting send away (`sending').
SenderOwnsRow ==
    [][\A e \in Engines :
          pc[e] \in {"sign", "mark", "guard", "wire"} /\ row'[cur[e]] # row[cur[e]]
              => pc[e] = "mark" /\ pc'[e] # "mark"]_vars

\* Nothing but a revocation is broadcast while the gate is halted, even if the
\* halt came after the claim, the signature or the record (beforeBroadcast).
HaltedMeansQuiet ==
    [][\A t \in TxIds :
          halted /\ tx[t].state = "signed" /\ Kind[tx[t].subject] # "revoke"
              => tx'[t].state # "limbo"]_vars
------------------------------------------------------------------------------
\* The outbox: what may still be mined, as the rows have it.
InOutbox(s) == /\ row[s].status \in InFlightOnChain
               /\ row[s].hash # None
               /\ Live(row[s].hash)
Outgoing == {[subject |-> s, hash |-> row[s].hash, nonce |-> row[s].nonce] :
                s \in {z \in Subjects : InOutbox(z)}}
Left(t) == tx[t].state \notin {"unsigned", "signed"}
Gone == {t \in TxIds : Left(t) /\ ~Live(t)}

Account == INSTANCE Outbox WITH count <- mined, open <- Outgoing, closed <- Gone

\* For all that engines, lost writes, crashes and the mempool do, the rows
\* are an outbox: nothing is mined that no row names, no subject and no nonce
\* has two transactions out, and none that is over comes back.
ImplementsOutbox == Account!Spec
------------------------------------------------------------------------------
\* Fairness: every engine keeps polling (a loop of setTimeout); the clock moves
\* past the grace window of a row that only waits; a request reaches the pools
\* or is lost; the account's next transaction is mined while a pool holds it.
Step(e) == Boot(e) \/ Pass(e) \/ Resync(e) \/ Drive(e)
Settle(t) == tx[t].state = "limbo" /\ (Arrive(t) \/ Lose(t))
MineAny(t) == \E result \in {"success", "reverted"} : Mine(t, result)

Fairness ==
    /\ \A e \in Engines : /\ WF_vars(Step(e))
                          /\ SF_vars(Seed(e, {}))
                          /\ \A s \in Subjects : SF_vars(Judge(e, s, TRUE))
    /\ \A t \in TxIds : WF_vars(Settle(t)) /\ WF_vars(MineAny(t))

FairSpec == Spec /\ Fairness

\* The transaction can be mined, but only after one with a lower nonce.
Queued(t) == t # None /\ Live(t) /\ tx[t].nonce > mined

\* Whatever a crash, a lost reply or an ambiguous broadcast left in flight is
\* resolved, halted or not, unless its transaction waits behind a nonce gap.
InFlightResolves ==
    \A s \in Subjects :
        row[s].status \in InFlightOnChain
            ~> (row[s].status \notin InFlightOnChain \/ Queued(row[s].hash))

\* A nonce gap with a transaction stuck behind it does not last: the missing
\* nonce is the next to be handed out, unless the gap is filled before.
Gap == /\ \E t \in TxIds : Queued(t)
       /\ ~\E t \in TxIds : Live(t) /\ tx[t].nonce = mined
NextIs(n) == hole = n \/ (hole = None /\ lease = n)
GapReissued == Gap ~> (~Gap \/ NextIs(mined))
==============================================================================
