--------------------------- MODULE RelaySubmission ---------------------------
(***************************************************************************)
(* AUTO execution with private submission.  Transactions go to a relay and *)
(* never to the public mempool, so the bot's own node knows nothing of     *)
(* them and cannot say when one is gone.  What frees the nonce of a        *)
(* transaction that never lands is its horizon: the last block the relay   *)
(* can still include it in, written to the row once the relay has          *)
(* answered, or recovered from the relay by a later pass.                  *)
(*                                                                         *)
(* AutoExecution models the store, the lock and the races of two engines   *)
(* in detail.  Here a claim, its signature and its record are one step,    *)
(* and so is each row of a reconcile pass; what is left is what private    *)
(* submission adds: the relay's answers, the horizon and its writers, the  *)
(* fence, blocks, reorgs, leaks to the mempool and crashes.                *)
(*                                                                         *)
(* External, and assumed: the relay acts on a request at once or never; a  *)
(* copy that leaks is in our node's pool too; a reorg takes back no        *)
(* transaction of this account, and the relay's real window is the one     *)
(* configured (PRIVATE_HORIZON_BLOCKS "must match" it).                    *)
(***************************************************************************)
EXTENDS Integers, FiniteSets

CONSTANTS
    None,
    Engines,
    Subjects,
    Approvals,    \* the subjects sent by sendApprove, not by commit
    Window,       \* horizonBlocks: the window configured for the relay
    Ceiling,      \* MAX_RELAY_HORIZON_BLOCKS
    Margin,       \* reclaimMarginBlocks
    Depth,        \* how far below the highest block the head may be read
    Lifetimes,    \* for how many blocks the relay may really include one
    MaxTx,        \* bound: transactions ever signed
    MaxCrashes    \* bound: restarts of the process

ASSUME RelayAssumption ==
    /\ Approvals \subseteq Subjects
    /\ Margin \in Nat /\ MaxTx \in Nat /\ MaxCrashes \in Nat
    /\ Window \in Nat \ {0} /\ Ceiling \in Nat
    /\ Window <= Ceiling
    \* The relay keeps a transaction for the configured window at the most.
    /\ Lifetimes \subseteq 1..Window
    \* The head may be low twice: when the horizon is written, and when the
    \* chain is found to be past it.
    /\ Depth \in Nat /\ 2 * Depth <= Margin + 1
    /\ None \notin Int

TxIds  == 1..MaxTx
Nonces == 0..(MaxTx - 1)

\* Block heights are counted from the highest block there has been, which is
\* height 0; one so far below that nothing tells it from a lower one any more
\* is not counted further.
Deep == Margin + Depth + 1
Heights == (-Deep)..Ceiling
Sunk(h) == IF h = None THEN None ELSE IF h = -Deep THEN h ELSE h - 1

VARIABLES
    tx,         \* the transactions
    row,        \* the store's row of each subject
    lease,      \* the nonce lease and the hole below it
    engine,     \* each engine's send
    sending,    \* the subjects this process is between claiming and sending
    crashes

vars == <<tx, row, lease, engine, sending, crashes>>

\* The head a read may return, and the block the next one may be built on: a
\* reorg, or a node that is behind, shows one below the highest block.
Heads == (-Depth)..0
\* Confirmed and failed are one status here: nothing tells them apart.
Statuses == {"none", "pending", "submitted", "over"}
InFlightOnChain == {"pending", "submitted"}
Row == [status  : Statuses,
        hash    : TxIds \cup {None},
        nonce   : Nonces \cup {None},
        horizon : Heights \cup {None}]
NoRow == [status |-> "none", hash |-> None, nonce |-> None, horizon |-> None]

\* until is the relay's deadline: it may be included up to that block.  The
\* relay may include a transaction its status API has forgotten.
Tx == [nonce : Nonces \cup {None},
       relay : {"never", "holds", "forgot"},
       until : Heights \cup {None},
       pool  : {"never", "in", "out"},
       mined : BOOLEAN]
NoTx == [nonce |-> None, relay |-> "never", until |-> None,
         pool |-> "never", mined |-> FALSE]

Engine == [at      : {"idle", "submit", "stamp"},
           subject : Subjects \cup {None},
           hash    : TxIds \cup {None},
           answer  : {None, "hash", "known", "refused", "silence"}]
Idle == [at |-> "idle", subject |-> None, hash |-> None, answer |-> None]

TypeOK == /\ tx \in [TxIds -> Tx]
          /\ row \in [Subjects -> Row]
          /\ lease \in [next : 0..MaxTx \cup {None},
                        hole : Nonces \cup {None}]
          /\ engine \in [Engines -> Engine]
          /\ sending \subseteq Subjects
          /\ crashes \in 0..MaxCrashes

Init == /\ tx = [t \in TxIds |-> NoTx]
        /\ row = [s \in Subjects |-> NoRow]
        /\ lease = [next |-> None, hole |-> None]
        /\ engine = [e \in Engines |-> Idle]
        /\ sending = {}
        /\ crashes = 0

-----------------------------------------------------------------------------
(* What the chain, the node and the relay know. *)

Latest == Cardinality({t \in TxIds : tx[t].mined})

\* The node counts only what is in its own pool.
Pooled(n) == \E t \in TxIds : tx[t].nonce = n /\ tx[t].pool = "in"
Pending == CHOOSE n \in Latest..MaxTx :
              /\ \A m \in Latest..(n - 1) : Pooled(m)
              /\ ~Pooled(n)

\* Block number h can still be the one that includes it.
Offered(t, h) == tx[t].until # None /\ h <= tx[t].until
Includable(t, h) == /\ tx[t].nonce = Latest
                 /\ ~tx[t].mined
                 /\ (tx[t].pool = "in" \/ Offered(t, h + 1))

\* It may yet be included, now or after a reorg.
MayLand(t) == /\ ~tx[t].mined
              /\ (tx[t].pool = "in" \/ Offered(t, 1 - Depth))

-----------------------------------------------------------------------------
(* The horizon. *)

Larger(a, b)  == IF a >= b THEN a ELSE b
Smaller(a, b) == IF a <= b THEN a ELSE b

\* maxHorizon, and GREATEST in Postgres: a row's horizon only moves later.
MaxHorizon(old, new) == CASE new = None -> old
                          [] old = None -> new
                          [] OTHER      -> Larger(old, new)

\* clampDeclared.
Clamped(declared, head) == Smaller(declared, head + Ceiling)

\* The deadlines the relay may declare for what it holds: the true one, or
\* one far beyond any.
Declared(t) == IF tx[t].relay = "holds"
               THEN {tx[t].until, Ceiling + 1} ELSE {}

\* resolve: the probe may fail, come too early or name no deadline, and then
\* the configured window stands alone; reading the head may fail as well.
Resolved(t, head) ==
    {Larger(Clamped(d, head), head + Window) : d \in Declared(t)}
        \cup {head + Window, None}

\* Mutant: without the reorg margin.
PastHorizonMutant(h, head) == h # None /\ head > h

\* pastRelayHorizon.
PastHorizon(h, head) == h # None /\ head > h + Margin

\* The node's own answer.
KnownToNode(t) == tx[t].pool = "in" \/ tx[t].mined

\* createRelayAwareReader: every answer of the relay, and none at all, means
\* that the transaction may be in flight.
IsKnown(t) == TRUE

\* Mutant: past its horizon nothing can be out there.
CouldBeInFlightMutant(r, head) == ~PastHorizon(r.horizon, head)

\* Mutant: past its horizon the relay-aware reader is asked, not the node.
CouldBeInFlightMutant2(r, head) == IsKnown(r.hash)

\* couldBeInFlight (the grace window before it only delays the answer).
CouldBeInFlight(r, head) == IF PastHorizon(r.horizon, head)
                            THEN KnownToNode(r.hash) ELSE IsKnown(r.hash)

InFlight(s) == row[s].status \in InFlightOnChain

-----------------------------------------------------------------------------
(* Sending. *)

Locked == \E e \in Engines : engine[e].at = "submit"
Signed == {t \in TxIds : tx[t].nonce # None}

\* claim, reserve, sign and record: under the lock until the relay answers.
Sign(e, s) ==
    /\ engine[e].at = "idle"
    /\ ~Locked
    /\ lease.next # None
    /\ ~InFlight(s)
    /\ Cardinality(Signed) < MaxTx
    /\ LET t == Cardinality(Signed) + 1
           n == IF lease.hole # None THEN lease.hole ELSE lease.next
       IN  /\ n \in Nonces
           /\ lease' = IF lease.hole # None THEN [lease EXCEPT !.hole = None]
                                            ELSE [lease EXCEPT !.next = n + 1]
           /\ row' = [row EXCEPT ![s] = [status |-> "pending", hash |-> t,
                                         nonce |-> n, horizon |-> None]]
           /\ tx' = [tx EXCEPT ![t].nonce = n]
           /\ engine' = [engine EXCEPT ![e] = [at |-> "submit", subject |-> s,
                                               hash |-> t, answer |-> None]]
    /\ sending' = sending \cup {s}
    /\ UNCHANGED <<crashes>>

\* What comes back from the relay: a hash; a refusal; an error that says the
\* relay has it already; or nothing that can be read.
Answers(taken) == IF taken THEN {"hash", "known", "silence"}
                           ELSE {"refused", "silence"}

\* Mutant: every structured error counts as a clean refusal.
CleanMutant(answer) == answer \in {"refused", "known"}

\* SubmitRejectedError: the one answer that proves nothing was broadcast.
Clean(answer) == answer = "refused"

\* An approval leaves the sending set here, a commit with its next write.
Submit(e) ==
    /\ engine[e].at = "submit"
    /\ LET t == engine[e].hash
           s == engine[e].subject
       IN  \E taken \in BOOLEAN : \E answer \in Answers(taken) :
             /\ \/ taken /\ \E head \in Heads, life \in Lifetimes :
                     tx' = [tx EXCEPT ![t].relay = "holds",
                                      ![t].until = head + life]
                \/ ~taken /\ UNCHANGED tx
             /\ engine' = [engine EXCEPT ![e].at = "stamp",
                                         ![e].answer = answer]
             /\ sending' = IF s \in Approvals /\ answer = "hash"
                           THEN sending \ {s} ELSE sending
    /\ UNCHANGED <<row, lease, crashes>>

\* horizonFor, and the write after the broadcast: best-effort, and for an
\* accepted approval bound to its hash.
Stamp(e) ==
    /\ engine[e].at = "stamp"
    /\ LET t == engine[e].hash
           s == engine[e].subject
           bound == s \in Approvals /\ engine[e].answer = "hash"
       IN  /\ \/ /\ bound => row[s].hash = t
                 /\ \E head \in Heads : \E h \in Resolved(t, head) :
                      row' = [row EXCEPT
                                ![s].status  = "submitted",
                                ![s].horizon = MaxHorizon(@, h)]
              \/ UNCHANGED row
           /\ sending' = IF bound THEN sending ELSE sending \ {s}
    /\ engine' = [engine EXCEPT ![e] = Idle]
    /\ UNCHANGED <<tx, lease, crashes>>

-----------------------------------------------------------------------------
(* A pass of reconcile over one row, unless this process is sending it. *)

Judgeable(s) == InFlight(s) /\ s \notin sending

Over(s) == row' = [row EXCEPT ![s].status = "over"]

\* A receipt.
Settle(s) == /\ Judgeable(s)
             /\ tx[row[s].hash].mined
             /\ Over(s)
             /\ UNCHANGED <<tx, lease, engine, sending,
                            crashes>>

\* No receipt: replaced at its nonce, or not accepted and gone.
GiveUp(s) == /\ Judgeable(s)
             /\ LET r == row[s]
                IN  /\ ~tx[r.hash].mined
                    /\ \/ Latest > r.nonce
                       \/ /\ Pending <= r.nonce
                          /\ \E head \in Heads : ~CouldBeInFlight(r, head)
             /\ Over(s)
             /\ UNCHANGED <<tx, lease, engine, sending,
                            crashes>>

\* Mutant: only an accepted transaction's horizon is recovered.
RepairableMutant(s) == /\ row[s].status = "submitted"
                       /\ row[s].horizon = None
                       /\ tx[row[s].hash].pool = "never"

\* repair: only the relay's own deadline, and none for what is public.
Repairable(s) == row[s].horizon = None /\ tx[row[s].hash].pool = "never"

\* recoverHorizon.
Recover(s) == /\ Judgeable(s)
              /\ Repairable(s)
              /\ ~tx[row[s].hash].mined
              /\ Latest <= row[s].nonce
              /\ \E head \in Heads, d \in Declared(row[s].hash) :
                   row' = [row EXCEPT
                             ![s].horizon = MaxHorizon(@, Clamped(d, head))]
              /\ UNCHANGED <<tx, lease, engine, sending,
                             crashes>>

-----------------------------------------------------------------------------
(* resyncNonces, under the lock. *)

\* The nonces the fence holds: those of rows that could be in flight.
LiveNonces(head) ==
    {row[s].nonce : s \in {x \in Subjects : /\ InFlight(x)
                                            /\ CouldBeInFlight(row[x], head)}}
NextNonce(live) ==
    IF live = {} THEN Pending
    ELSE Larger(Pending, 1 + CHOOSE n \in live : \A m \in live : m <= n)

\* Mutant: the hole is not asked of the fence.
HoleMutant(live) == IF NextNonce(live) > Pending THEN Pending ELSE None

\* A hole: the chain waits for a nonce nothing live holds.
Hole(live) == IF NextNonce(live) > Pending /\ Pending \notin live
              THEN Pending ELSE None

Resync(e) == /\ engine[e].at = "idle"
             /\ ~Locked
             /\ \E head \in Heads :
                  LET live == LiveNonces(head)
                  IN  lease' = [next |-> NextNonce(live), hole |-> Hole(live)]
             /\ UNCHANGED <<tx, row, engine, sending, crashes>>

\* The process dies and comes back with nothing but the store.
Crash == /\ crashes < MaxCrashes
         /\ crashes' = crashes + 1
         /\ engine' = [e \in Engines |-> Idle]
         /\ sending' = {}
         /\ lease' = [next |-> None, hole |-> None]
         /\ UNCHANGED <<tx, row>>

-----------------------------------------------------------------------------
(* The chain, the mempool and the relay. *)

Lower(T) == [t \in TxIds |-> [T[t] EXCEPT !.until = Sunk(@)]]

\* What has landed is in no pool, and the relay's deadline is past.
Mined(r) == [r EXCEPT !.mined = TRUE, !.pool = "out", !.until = None,
                      !.relay = IF @ = "never" THEN @ ELSE "forgot"]

\* The next block, with the account's next transaction or without one: a
\* new highest block, or after a reorg one that is no higher.
Block(h) == \E S \in {{}} \cup {{t} : t \in {u \in TxIds : Includable(u, h)}} :
    LET T == [t \in TxIds |-> IF t \in S THEN Mined(tx[t]) ELSE tx[t]]
    IN  /\ IF h = 0
           THEN /\ tx' = Lower(T)
                /\ row' = [s \in Subjects |->
                             [row[s] EXCEPT !.horizon = Sunk(@)]]
           ELSE /\ tx' = T
                /\ UNCHANGED row
        /\ UNCHANGED <<lease, engine, sending, crashes>>

SetTx(t, r) == /\ tx' = [tx EXCEPT ![t] = r]
               /\ UNCHANGED <<row, lease, engine, sending,
                              crashes>>

\* A transaction leaks at most once.
Leak(t) == /\ ~tx[t].mined
           /\ tx[t].pool = "never"
           /\ Offered(t, 1)
           /\ SetTx(t, [tx[t] EXCEPT !.pool = "in"])

Evict(t) == /\ tx[t].pool = "in"
            /\ SetTx(t, [tx[t] EXCEPT !.pool = "out"])

Forget(t) == /\ tx[t].relay = "holds"
             /\ SetTx(t, [tx[t] EXCEPT !.relay = "forgot"])

-----------------------------------------------------------------------------
Next == \/ \E e \in Engines : \/ Submit(e) \/ Stamp(e) \/ Resync(e)
                              \/ \E s \in Subjects : Sign(e, s)
        \/ \E s \in Subjects : Settle(s) \/ GiveUp(s) \/ Recover(s)
        \/ Crash
        \/ \E h \in Heads : Block(h)
        \/ \E t \in TxIds : Leak(t) \/ Evict(t) \/ Forget(t)

Spec == Init /\ [][Next]_vars

\* A request is answered or times out, a cycle judges every row and probes
\* the relay for those without a horizon, the relay answers some of those
\* probes, and the chain grows although it may fall back.
Fairness == /\ \A e \in Engines : WF_vars(Submit(e)) /\ WF_vars(Stamp(e))
            /\ \A s \in Subjects : /\ WF_vars(Settle(s))
                                   /\ SF_vars(GiveUp(s))
                                   /\ SF_vars(Recover(s))
            /\ WF_vars(Block(0))

FairSpec == Spec /\ Fairness

-----------------------------------------------------------------------------
(* Properties. *)

\* No nonce is signed over while an earlier transaction that holds it has
\* landed or may still land, from the relay or from a leaked copy, a reorg
\* included (liveNonces, couldBeInFlight and the hole of resyncNonces).
OneLivePerNonce ==
    \A t, u \in Signed :
        t # u /\ tx[t].nonce = tx[u].nonce
          => ~(MayLand(t) /\ (MayLand(u) \/ tx[u].mined))

\* An action is driven again only when its transaction can never land: a
\* pass gives up on none that may (resolveBroadcastIntent).
DroppedNeverLands ==
    [][\A s \in Subjects :
          InFlight(s) /\ row'[s].status = "over" /\ ~tx[row[s].hash].mined
            => ~MayLand(row[s].hash)]_vars

\* A send reported as never broadcast is nowhere: the engine releases the
\* money it held (SubmitRejectedError, NOT_CLEAN).
AbandonedIsNowhere ==
    \A e \in Engines :
        engine[e].at = "stamp" /\ Clean(engine[e].answer)
          => tx[engine[e].hash].relay = "never"

\* A transaction with a horizon does not hold its nonce and its subject for
\* ever, unless it has become public: it lands, is replaced or expires.
HorizonFrees ==
    \A s \in Subjects, t \in TxIds :
        (/\ InFlight(s) /\ row[s].hash = t
         /\ row[s].horizon # None)
        ~> (~InFlight(s) \/ row[s].hash # t \/ tx[t].pool = "in")

\* A horizon that was never written, because the write or the process
\* failed, is recovered while the relay still knows the transaction
\* (recoverHorizon).
HorizonIsRecovered ==
    \A s \in Subjects, t \in TxIds :
        (/\ InFlight(s) /\ row[s].hash = t
         /\ row[s].horizon = None
         /\ tx[t].relay = "holds" /\ tx[t].pool = "never")
        ~> (\/ ~InFlight(s) \/ row[s].hash # t
            \/ row[s].horizon # None
            \/ tx[t].relay = "forgot" \/ tx[t].pool # "never")

\* The outbox: what may still land, as the rows have it.
InOutbox(s) == InFlight(s) /\ row[s].hash # None /\ MayLand(row[s].hash)
Outgoing == {[subject |-> s, hash |-> row[s].hash, nonce |-> row[s].nonce] :
                s \in {z \in Subjects : InOutbox(z)}}
Taken(t) == tx[t].until # None \/ tx[t].pool # "never"
Gone == {t \in TxIds : Taken(t) /\ ~MayLand(t)}

Account == INSTANCE Outbox WITH count <- Latest, open <- Outgoing, closed <- Gone

\* The rows are an outbox though no node ever sees what is in it: nothing
\* lands that no row names, no subject and no nonce has two transactions
\* that may land, and none that is gone comes back, from a relay that says
\* nothing, a leaked copy or a reorg.
ImplementsOutbox == Account!Spec
==============================================================================
