---------------------------- MODULE ManualCustody ----------------------------
(***************************************************************************)
(* MANUAL execution.  A keyless bot writes proposals into the intent       *)
(* store; people claim, sign, broadcast and report them with operator-cli; *)
(* the bot's reconcile pass settles what they reported against the chain.  *)
(*                                                                         *)
(* Two programs share the rows and neither locks them: the bot             *)
(* (createManualExecutor, reconcilePending) and any number of operator-cli *)
(* processes (operations.ts).  Every store call is one compare-and-set     *)
(* statement and is one step here; between two awaits anything may happen, *)
(* and an operator process may die.                                        *)
(*                                                                         *)
(* Under Safe custody the thing that moves money is the SafeTx, not the    *)
(* transaction that carries it: once its owners have signed it, anybody    *)
(* can execute it for as long as the Safe's nonce stands at its own.  A    *)
(* row's envelope is the only record of such a SafeTx.  It is modelled by  *)
(* its Safe nonce: with the row's subject and payload that determines the  *)
(* hash the owners sign.                                                   *)
(*                                                                         *)
(* The node's and the Safe's sides are external: any pending transaction   *)
(* may be mined or left forever, the outer call may revert, the inner one  *)
(* may fail, and the owners may spend a Safe nonce on something else.      *)
(***************************************************************************)
EXTENDS Naturals, FiniteSets

CONSTANTS
    None,
    Subjects,     \* rows of the store: one subject of one action each
    Payloads,     \* the calls a subject can be proposed with
    Engines,      \* the poll loops of the bot
    Drives,       \* the subjects each loop acts on; every loop settles all
    Operators,    \* operator-cli processes that may run at once
    Runs,         \* the commands each of them is used for
    TxIds,        \* transactions that are ever sent
    MaxNonce,     \* bound: how often the Safe's nonce is spent
    Custodies     \* the custodies MANUAL_EXECUTOR_KIND may configure

Commands == {"claim", "broadcast", "release", "fail"}

ASSUME ManualAssumption ==
    /\ Drives \in [Engines -> SUBSET Subjects]
    /\ Runs \in [Operators -> SUBSET Commands]
    /\ MaxNonce \in Nat
    /\ Custodies \subseteq {"safe", "eoa"}
    /\ None \notin Subjects \cup Payloads \cup TxIds \cup Nat

Nonces == 0..MaxNonce

\* "none" stands for a key without a row.
Statuses == {"none", "proposed", "claimed", "submitted",
             "confirmed", "failed", "superseded", "expired"}
LiveForDedup     == {"proposed", "claimed", "submitted"}
AwaitingOperator == {"proposed", "claimed"}
InFlightOnChain  == {"submitted"}

Row == [status  : Statuses,
        payload : Payloads \cup {None},
        env     : Nonces \cup {None},
        hash    : TxIds \cup {None}]
NoRow == [status |-> "none", payload |-> None, env |-> None, hash |-> None]

\* What a transaction carries.  With a nonce it is a SafeTx, without one a
\* plain call from the operator's own account.
Call == [subject : Subjects, payload : Payloads, nonce : Nonces \cup {None}]
CallOf(s, p, n) == [subject |-> s, payload |-> p, nonce |-> n]

TxStates == {"new", "pool", "success", "failure", "reverted"}
Tx == [call : Call \cup {None}, state : TxStates]

VARIABLES
    custody,    \* MANUAL_EXECUTOR_KIND
    store,      \* the table
    tx,         \* the transactions and what became of them
    safeNonce,  \* the Safe's nonce
    signed,     \* SafeTxs the owners may hold signatures for
    bot,        \* each poll loop: where it is, its pass and its proposal
    op,         \* each operator process: its command and what it has read
    dropped,    \* history: calls given up on the evidence of a transaction
    crossed     \* history: rows two commands were under way on at once

vars == <<custody, store, tx, safeNonce, signed, bot, op,
          dropped, crossed>>

BotLabels == {"start", "pass", "supersede", "again"}
Bot == [at      : BotLabels,
        snaps   : [Subjects -> Row \cup {None}],
        fresh   : SUBSET Subjects,
        subject : Subjects \cup {None},
        want    : Payloads \cup {None}]
NoSnaps == [s \in Subjects |-> None]

OpLabels == {"idle", "write", "send", "mark"}
Op == [at      : OpLabels,
       cmd     : Commands \cup {None},
       subject : Subjects \cup {None},
       payload : Payloads \cup {None},
       env     : Nonces \cup {None},
       hash    : TxIds \cup {None}]
Idle == [at |-> "idle", cmd |-> None, subject |-> None, payload |-> None,
         env |-> None, hash |-> None]

TypeOK == /\ custody \in {"safe", "eoa"}
          /\ store \in [Subjects -> Row]
          /\ tx \in [TxIds -> Tx]
          /\ safeNonce \in Nonces
          /\ signed \subseteq Call
          /\ bot \in [Engines -> Bot]
          /\ op \in [Operators -> Op]
          /\ dropped \subseteq Call
          /\ crossed \subseteq Subjects

Init == /\ custody \in Custodies
        /\ store = [s \in Subjects |-> NoRow]
        /\ tx = [t \in TxIds |-> [call |-> None, state |-> "new"]]
        /\ safeNonce = 0
        /\ signed = {}
        /\ bot = [e \in Engines |-> [at |-> "start", snaps |-> NoSnaps,
                                     fresh |-> {}, subject |-> None,
                                     want |-> None]]
        /\ op = [o \in Operators |-> Idle]
        /\ dropped = {}
        /\ crossed = {}

Safe == custody = "safe"

-----------------------------------------------------------------------------
(* The chain. *)

InState(c, S) == {t \in TxIds : tx[t].call = c /\ tx[t].state \in S}
Executed(c)   == InState(c, {"success", "failure"}) # {}
\* Anyone who has the owners' signatures can execute it now.
Executable(c) == c \in signed /\ c.nonce = safeNonce /\ ~Executed(c)

RowCall(s) == CallOf(s, store[s].payload, store[s].env)

Enter(t, c) == /\ tx[t].state = "new"
               /\ tx' = [tx EXCEPT ![t] = [call |-> c, state |-> "pool"]]

\* Somebody carries a call to the chain without operator-cli: a Safe UI, a
\* copy of the calldata, a hardware wallet that signs a claimed plain call.
SignExternally(t) ==
    /\ \/ \E c \in signed : Enter(t, c)
       \/ \E s \in Subjects : /\ ~Safe
                              /\ store[s].status = "claimed"
                              /\ Enter(t, RowCall(s))
    /\ UNCHANGED <<custody, store, safeNonce, signed, bot, op,
                   dropped, crossed>>

Mined(t, outcome) == tx' = [tx EXCEPT ![t].state = outcome]

\* A SafeTx runs only at its own nonce and spends it, whether its inner call
\* succeeds or fails; an outer call that reverts spends nothing.
Mine(t) ==
    /\ tx[t].state = "pool"
    /\ LET n == tx[t].call.nonce
       IN  \/ /\ n = None
              /\ \E outcome \in {"success", "reverted"} : Mined(t, outcome)
              /\ UNCHANGED safeNonce
           \/ /\ n = safeNonce
              /\ safeNonce < MaxNonce
              /\ \E outcome \in {"success", "failure"} : Mined(t, outcome)
              /\ safeNonce' = safeNonce + 1
           \/ /\ n # None
              /\ Mined(t, "reverted")
              /\ UNCHANGED safeNonce
    /\ UNCHANGED <<custody, store, signed, bot, op, dropped, crossed>>

\* The owners execute some other SafeTx, or reject one.
SpendNonce == /\ Safe
              /\ safeNonce < MaxNonce
              /\ safeNonce' = safeNonce + 1
              /\ UNCHANGED <<custody, store, tx, signed, bot, op,
                             dropped, crossed>>

-----------------------------------------------------------------------------
(* The store.  A write stamps the row afresh, so it is no longer the row a  *)
(* reconcile pass has read.                                                 *)

Recorded(p) == [status |-> "proposed", payload |-> p, env |-> None,
                hash |-> None]
Touched(S) == [e \in Engines |-> [bot[e] EXCEPT !.fresh = @ \ S]]
Write(s, r) == store' = [store EXCEPT ![s] = r]

\* Mutant: a proposal somebody may have signed is withdrawn all the same.
RetirableMutant(s) == store[s].status = "proposed"

\* supersede and expireProposals leave a row with an envelope alone.
Retirable(s) == store[s].status = "proposed" /\ store[s].env = None

-----------------------------------------------------------------------------
(* The bot: one pass of a poll loop, then its proposals. *)

\* expireProposals: how old a row is is not modelled, so any of them may be
\* past the deadline; none is when the sweep is configured off.
Sweep(e) == \E old \in SUBSET {s \in Subjects : Retirable(s)} :
    /\ bot[e].at = "start"
    /\ store' = [s \in Subjects |-> IF s \in old
                                    THEN [store[s] EXCEPT !.status = "expired"]
                                    ELSE store[s]]
    /\ bot' = Touched(old)
    /\ UNCHANGED <<custody, tx, safeNonce, signed, op, dropped,
                   crossed>>

\* reconcilePending reads its work list once, for every action at once.
Read(e) ==
    /\ bot[e].at = "start"
    /\ LET listed == {s \in Subjects : store[s].status \in InFlightOnChain}
       IN  bot' = [bot EXCEPT
              ![e].at    = "pass",
              ![e].fresh = listed,
              ![e].snaps = [s \in Subjects |-> IF s \in listed THEN store[s]
                                               ELSE None]]
    /\ UNCHANGED <<custody, store, tx, safeNonce, signed, op, dropped,
                   crossed>>

Verdict(status, hash) == [status |-> status, hash |-> hash]
\* Mutant: any Execution event counts as success.
FoundMutant(t) == Verdict("confirmed", t)

\* What an Execution event says, wherever the SafeTx was executed.
Found(t) == Verdict(IF tx[t].state = "success" THEN "confirmed" ELSE "failed",
                    t)
Stay == Verdict("submitted", None)

\* Mutant: a recorded transaction that reverted is not looked up elsewhere.
RevertedMutant(c, t) ==
    CASE tx[t].state = "reverted" -> {Verdict("failed", t)}
      [] tx[t].state = "pool" ->
            {Found(u) : u \in InState(c, {"success", "failure"})} \cup
            {v \in {Stay} : ~Executed(c)}
      [] OTHER -> {IF tx[t].call = c THEN Found(t) ELSE Verdict("failed", t)}

\* Mutant: a recorded transaction without a receipt is waited for.
UnminedMutant(c, t) ==
    CASE tx[t].state = "pool" -> {Stay}
      [] tx[t].state = "reverted" ->
            {Found(u) : u \in InState(c, {"success", "failure"})} \cup
            {v \in {Verdict("failed", t)} : ~Executed(c)}
      [] OTHER -> {IF tx[t].call = c THEN Found(t) ELSE Verdict("failed", t)}

\* resolveSafeIntent: the event the recorded transaction carries decides; a
\* recorded transaction that reverted or was never mined leaves the last
\* word to a scan for the SafeTx.  (A transaction younger than the grace
\* window is not scanned for: that pass changes nothing.)
SafeVerdicts(c, t) ==
    LET elsewhere == InState(c, {"success", "failure"})
        state     == tx[t].state
    IN  IF tx[t].call = c /\ state \in {"success", "failure"}
        THEN {Found(t)}
        ELSE IF state \in {"success", "failure"}
        THEN {Verdict("failed", t)}                    \* no matching event
        ELSE IF elsewhere # {}
        THEN {Found(u) : u \in elsewhere}
        ELSE IF state = "reverted"
        THEN {Verdict("failed", t)}
        ELSE {Stay}

\* resolveBroadcastIntent, for a row without an account nonce.
PlainVerdicts(t) == CASE tx[t].state = "success"  -> {Verdict("confirmed", t)}
                      [] tx[t].state = "reverted" -> {Verdict("failed", t)}
                      [] OTHER                    -> {Stay}

\* asRead: the row must still be the one this pass read.
AsRead(e, s) == s \in bot[e].fresh

\* One row of the pass.  What the chain answered can only have become more
\* definite by the time the verdict is written, so asking and writing are
\* one step.
Resolve(e, s) ==
    /\ bot[e].at = "pass"
    /\ bot[e].snaps[s] # None
    /\ LET r == bot[e].snaps[s]
           c == CallOf(s, r.payload, r.env)
           read == [bot EXCEPT ![e].snaps[s] = None, ![e].fresh = @ \ {s}]
       IN  \E v \in IF r.env # None THEN SafeVerdicts(c, r.hash)
                                    ELSE PlainVerdicts(r.hash) :
             IF v # Stay /\ AsRead(e, s)
             THEN /\ Write(s, [store[s] EXCEPT !.status = v.status,
                                               !.hash = v.hash])
                  /\ bot' = [x \in Engines |->
                               [read[x] EXCEPT !.fresh = @ \ {s}]]
                  /\ dropped' = IF v.status = "failed" /\ ~Executed(c)
                                THEN dropped \cup {c} ELSE dropped
             ELSE /\ bot' = read
                  /\ UNCHANGED <<store, dropped>>
    /\ UNCHANGED <<custody, tx, safeNonce, signed, op, crossed>>

\* The scan for a SafeTx failed: not evidence, the row stays in flight.
ScanFails(e, s) ==
    /\ bot[e].at = "pass"
    /\ bot[e].snaps[s] # None
    /\ bot[e].snaps[s].env # None
    /\ tx[bot[e].snaps[s].hash].state \in {"pool", "reverted"}
    /\ bot' = [bot EXCEPT ![e].snaps[s] = None, ![e].fresh = @ \ {s}]
    /\ UNCHANGED <<custody, store, tx, safeNonce, signed, op, dropped, crossed>>

\* The pass is over; the engine's own work, then the next cycle.
Working(e) == bot[e].at = "pass" /\ bot[e].snaps = NoSnaps

CycleDone(e) == /\ Working(e)
                /\ bot' = [bot EXCEPT ![e].at = "start"]
                /\ UNCHANGED <<custody, store, tx, safeNonce, signed, op,
                               dropped, crossed>>

\* An engine proposes what its simulation says would succeed, so not a call
\* that has already had its effect.
Landed(s, p) == \E t \in TxIds : /\ tx[t].call # None
                                 /\ tx[t].call.subject = s
                                 /\ tx[t].call.payload = p
                                 /\ tx[t].state = "success"

\* propose, first attempt: recorded, a duplicate, or stale terms to retire.
Propose(e, s, p) ==
    /\ Working(e)
    /\ s \in Drives[e]
    /\ ~Landed(s, p)
    /\ IF store[s].status \notin LiveForDedup
       THEN /\ Write(s, Recorded(p))
            /\ bot' = Touched({s})
       ELSE /\ store[s].payload # p
            /\ bot' = [bot EXCEPT ![e].at = "supersede", ![e].subject = s,
                                  ![e].want = p]
            /\ UNCHANGED store
    /\ UNCHANGED <<custody, tx, safeNonce, signed, op, dropped,
                   crossed>>

Supersede(e) ==
    /\ bot[e].at = "supersede"
    /\ LET s == bot[e].subject
       IN  IF Retirable(s)
           THEN /\ Write(s, [store[s] EXCEPT !.status = "superseded"])
                /\ bot' = [Touched({s}) EXCEPT ![e].at = "again"]
           ELSE /\ bot' = [bot EXCEPT ![e].at = "again"]
                /\ UNCHANGED store
    /\ UNCHANGED <<custody, tx, safeNonce, signed, op, dropped,
                   crossed>>

\* propose, second attempt: recorded, or reported as a duplicate after all.
ProposeAgain(e) ==
    /\ bot[e].at = "again"
    /\ LET s == bot[e].subject
           done(b) == [b EXCEPT ![e].at = "pass", ![e].subject = None,
                                ![e].want = None]
       IN  IF store[s].status \notin LiveForDedup
           THEN /\ Write(s, Recorded(bot[e].want))
                /\ bot' = done(Touched({s}))
           ELSE /\ bot' = done(bot)
                /\ UNCHANGED store
    /\ UNCHANGED <<custody, tx, safeNonce, signed, op, dropped,
                   crossed>>

-----------------------------------------------------------------------------
(* operator-cli.  A command loads its row, checks it against the chain and  *)
(* the other rows, and only then writes.  What it checks on the chain can   *)
(* only have become more definite since it loaded the row, so the load and  *)
(* the checks are one step; the write comes at any later time, against a    *)
(* row and a Safe that may have moved.                                      *)

At(o, label) == op[o].at = label
Goto(o, label) == op' = [op EXCEPT ![o].at = label]
\* The command ends: it is done, or it threw.
End(o) == op' = [op EXCEPT ![o] = Idle]

\* assertNoOtherLiveSafeClaim: one Safe reservation at a time in the store.
OtherLiveSafeClaim(s) ==
    \E x \in Subjects \ {s} : /\ store[x].status \in
                                     AwaitingOperator \cup InFlightOnChain
                              /\ store[x].env # None

\* classifyRetainedEnvelope: the SafeTx an earlier claim reserved can still
\* execute, has executed, or never will.
Retained(s) == IF store[s].env = safeNonce THEN "live"
               ELSE IF Executed(RowCall(s)) THEN "executed" ELSE "dead"

\* envelopeForClaim: none for a plain call; the outstanding envelope while
\* it can execute; else one at the Safe's nonce, which is the same while the
\* Safe has not moved.
Reserved == IF Safe THEN safeNonce ELSE None

Loaded(o, cmd, s, env) ==
    /\ At(o, "idle")
    /\ cmd \in Runs[o]
    /\ store[s].status # "none"
    /\ op' = [op EXCEPT ![o] = [at |-> "write", cmd |-> cmd, subject |-> s,
                                payload |-> store[s].payload,
                                env |-> env, hash |-> None]]
    /\ crossed' = IF \E x \in Operators : op[x].subject = s
                  THEN crossed \cup {s} ELSE crossed
    /\ UNCHANGED <<custody, store, tx, safeNonce, signed, bot, dropped>>

\* claim and broadcast: refused beside another reservation, and for a
\* reservation that has executed.
StartClaim(o, cmd, s) ==
    /\ cmd \in {"claim", "broadcast"}
    /\ cmd = "broadcast" => store[s].status = "proposed"
    /\ ~(Safe /\ OtherLiveSafeClaim(s))
    /\ store[s].env # None => Retained(s) # "executed"
    /\ Loaded(o, cmd, s, Reserved)

\* release: refused when the reserved SafeTx has executed.
StartRelease(o, s) ==
    /\ store[s].status = "claimed"
    /\ ~(store[s].env # None /\ Executed(RowCall(s)))
    /\ Loaded(o, "release", s, None)

\* fail: refused unless the reserved SafeTx can never execute any more.
StartFail(o, s) ==
    /\ store[s].env # None => Retained(s) = "dead"
    /\ Loaded(o, "fail", s, None)

OpCall(o) == CallOf(op[o].subject, op[o].payload, op[o].env)

\* claimProposal: the fence.  Whoever wins it may have the owners sign, and
\* a broadcast goes on to send.
ClaimWrite(o) ==
    /\ At(o, "write")
    /\ op[o].cmd \in {"claim", "broadcast"}
    /\ LET s == op[o].subject
       IN  IF store[s].status = "proposed" /\ store[s].payload = op[o].payload
           THEN /\ Write(s, [store[s] EXCEPT !.status = "claimed",
                                             !.env = op[o].env])
                /\ bot' = Touched({s})
                /\ signed' = IF Safe THEN signed \cup {OpCall(o)} ELSE signed
                /\ IF op[o].cmd = "broadcast" THEN Goto(o, "send") ELSE End(o)
           ELSE /\ End(o)
                /\ UNCHANGED <<store, bot, signed>>
    /\ UNCHANGED <<custody, tx, safeNonce, dropped, crossed>>

\* send: the owners' signatures are collected and the transaction goes out.
Send(o, t) ==
    /\ At(o, "send")
    /\ Enter(t, OpCall(o))
    /\ op' = [op EXCEPT ![o].at = "mark", ![o].hash = t]
    /\ UNCHANGED <<custody, store, safeNonce, signed, bot, dropped,
                   crossed>>

\* Mutant: a report is taken for a row nobody holds.
MarkableMutant(s, p) == /\ store[s].status \in AwaitingOperator
                        /\ store[s].hash = None
                        /\ store[s].payload = p

\* markBroadcast: only a claimed row, still without a hash, whose payload is
\* the one verified.
Markable(s, p) == /\ store[s].status = "claimed"
                  /\ store[s].hash = None
                  /\ store[s].payload = p

Mark(o) ==
    /\ At(o, "mark")
    /\ LET s == op[o].subject
       IN  IF Markable(s, op[o].payload)
           THEN /\ Write(s, [store[s] EXCEPT !.status = "submitted",
                                             !.hash = op[o].hash])
                /\ bot' = Touched({s})
           ELSE UNCHANGED <<store, bot>>
    /\ End(o)
    /\ UNCHANGED <<custody, tx, safeNonce, signed, dropped, crossed>>

\* confirm: a person reports a transaction the node knows.  Its calldata
\* must be the row's payload; calldata does not carry the Safe's nonce.
Confirm(s, t) ==
    /\ tx[t].state # "new"
    /\ tx[t].call.subject = s
    /\ Markable(s, tx[t].call.payload)
    /\ Safe => store[s].env # None
    /\ Write(s, [store[s] EXCEPT !.status = "submitted", !.hash = t])
    /\ bot' = Touched({s})
    /\ UNCHANGED <<custody, tx, safeNonce, signed, op, dropped,
                   crossed>>

ReleaseWrite(o) ==
    /\ At(o, "write")
    /\ op[o].cmd = "release"
    /\ LET s == op[o].subject
       IN  IF store[s].status = "claimed" /\ store[s].payload = op[o].payload
           THEN /\ Write(s, [store[s] EXCEPT !.status = "proposed"])
                /\ bot' = Touched({s})
           ELSE UNCHANGED <<store, bot>>
    /\ End(o)
    /\ UNCHANGED <<custody, tx, safeNonce, signed, dropped, crossed>>

FailWrite(o) ==
    /\ At(o, "write")
    /\ op[o].cmd = "fail"
    /\ LET s == op[o].subject
       IN  IF store[s].status \in LiveForDedup
           THEN /\ Write(s, [store[s] EXCEPT !.status = "failed"])
                /\ bot' = Touched({s})
           ELSE UNCHANGED <<store, bot>>
    /\ End(o)
    /\ UNCHANGED <<custody, tx, safeNonce, signed, dropped, crossed>>

\* The process is killed, or a call it awaits throws.
Crash(o) == /\ ~At(o, "idle")
            /\ End(o)
            /\ UNCHANGED <<custody, store, tx, safeNonce, signed, bot,
                           dropped, crossed>>

-----------------------------------------------------------------------------
Chain == \/ \E t \in TxIds : SignExternally(t) \/ Mine(t)
         \/ SpendNonce

Cycle(e) == \/ Sweep(e) \/ Read(e) \/ CycleDone(e)
            \/ Supersede(e) \/ ProposeAgain(e)
            \/ \E s \in Subjects : Resolve(e, s)

Start(o, s) == \/ \E cmd \in {"claim", "broadcast"} : StartClaim(o, cmd, s)
               \/ StartRelease(o, s)
               \/ StartFail(o, s)

Proceed(o) == \/ ClaimWrite(o) \/ ReleaseWrite(o) \/ FailWrite(o)
              \/ Mark(o) \/ \E t \in TxIds : Send(o, t)

Next == \/ Chain
        \/ \E e \in Engines : \/ Cycle(e)
                              \/ \E s \in Subjects :
                                   \/ ScanFails(e, s)
                                   \/ \E p \in Payloads : Propose(e, s, p)
        \/ \E o \in Operators : \/ Proceed(o) \/ Crash(o)
                                \/ \E s \in Subjects : Start(o, s)
        \/ \E s \in Subjects, t \in TxIds : Confirm(s, t)

Spec == Init /\ [][Next]_vars

-----------------------------------------------------------------------------
(* Fairness.  The poll loop repeats its cycle and skips a failed one; a      *)
(* cycle acts on finitely many candidates, so it ends (SF).  The people who  *)
(* run operator-cli owe nothing, except where a property asks whether they   *)
(* could have ended something: OperatorFairness makes them try every command *)
(* again and again, and finish it.                                           *)

CycleFairness == \A e \in Engines :
    /\ WF_vars(Read(e) \/ Supersede(e) \/ ProposeAgain(e))
    /\ SF_vars(CycleDone(e))
    /\ \A s \in Subjects : SF_vars(Resolve(e, s))

OperatorFairness ==
    /\ \A o \in Operators :
          /\ WF_vars(Proceed(o))
          /\ \A s \in Subjects :
                /\ SF_vars(StartClaim(o, "claim", s))
                /\ SF_vars(StartRelease(o, s))
                /\ SF_vars(StartFail(o, s))
    /\ \A s \in Subjects : SF_vars(\E t \in TxIds : Confirm(s, t))

FairSpec == Spec /\ CycleFairness
OperatedSpec == Spec /\ CycleFairness /\ OperatorFairness

-----------------------------------------------------------------------------
(* Properties. *)

Recording(c) == LET r == store[c.subject]
                IN  /\ r.status \in LiveForDedup
                    /\ r.payload = c.payload
                    /\ r.env = c.nonce

\* A SafeTx that its owners may have signed and that can still execute is on
\* the record of a live row, so that no claim, release, expiry, supersession
\* or revival ever forgets it (envelopeForClaim, failProposal, the envelope
\* guards of supersede and expireProposals).  Two things escape: a pass that
\* fails a row on the evidence of its transaction, and a row two commands
\* were under way on at once.
ReservationRemembered ==
    \A c \in signed : Executable(c) => \/ Recording(c)
                                       \/ c \in dropped
                                       \/ c.subject \in crossed

\* The same without exception, as failProposal states it: a live reservation
\* blocks the failing of its row.
ExecutableMeansLive == \A c \in signed : Executable(c) => Recording(c)

\* A confirmed row names a transaction that did what the row proposed: the
\* inner call of the very SafeTx it reserved, or the plain call, succeeded
\* (resolveSafeIntent, resolveBroadcastIntent).
ConfirmedMeansExecuted ==
    \A s \in Subjects : store[s].status = "confirmed" =>
        /\ store[s].hash # None
        /\ tx[store[s].hash].state = "success"
        /\ tx[store[s].hash].call = RowCall(s)

\* A SafeTx that executed was executed for good: no row that reserved it ends
\* as failed although its inner call succeeded, unless it was given up
\* before (findElsewhere: the Safe's logs have the last word).  What escapes
\* is a report of a transaction that carries some other SafeTx.
SuccessIsNotFailed ==
    \A s \in Subjects :
        store[s].status = "failed" /\ store[s].env # None
          => \/ InState(RowCall(s), {"success"}) = {}
             \/ RowCall(s) \in dropped
             \/ store[s].hash # None /\ tx[store[s].hash].call # RowCall(s)
             \/ s \in crossed

\* A reported row whose SafeTx has executed, in whatever transaction, or
\* whose own transaction was mined, is settled by a later pass
\* (resolveSafeIntent's scan exists for the recorded hash that never mines).
ReportIsSettled ==
    \A s \in Subjects :
        (/\ store[s].status = "submitted"
         /\ \/ tx[store[s].hash].state \in {"success", "failure", "reverted"}
            \/ store[s].env # None /\ Executed(RowCall(s)))
        ~> store[s].status # "submitted"

\* A SafeTx that executed can be recorded: its row does not stay live for
\* ever when operators keep trying every command on it (releaseProposal and
\* classifyRetainedEnvelope both refuse with "record it with confirm").
ExecutionIsRecordable ==
    \A s \in Subjects :
        (/\ store[s].status \in LiveForDedup
         /\ store[s].env # None
         /\ Executed(RowCall(s)))
        ~> (store[s].status \notin LiveForDedup \/ store[s].env = None)

\* What the store promises about the lifecycle of a proposal, whichever of
\* the bot and the operators writes to it.
PhaseOf(status) == CASE status = "none"      -> "none"
                     [] status = "proposed"  -> "offered"
                     [] status = "claimed"   -> "reserved"
                     [] status = "submitted" -> "reported"
                     [] OTHER                -> "settled"

phases == [s \in Subjects |-> PhaseOf(store[s].status)]
terms  == [s \in Subjects |-> store[s].payload]
bound  == [s \in Subjects |-> store[s].env # None]

Lifecycle == INSTANCE ProposalLifecycle WITH phase <- phases,
                                             terms <- terms,
                                             bound <- bound

ImplementsLifecycle == Lifecycle!Spec
==============================================================================
