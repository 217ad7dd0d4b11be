------------------------ MODULE ManualCustody_proofs ------------------------
(***************************************************************************)
(* Proofs about ManualCustody, for any rows, operators, loops and          *)
(* transactions, and any number of Safe nonces.                            *)
(*                                                                         *)
(* That a confirmed row names a transaction that did what the row proposed *)
(* does not follow from what one step sees: the evidence is looked up for  *)
(* a row read earlier, and a plain row carries nothing that ties its hash  *)
(* to its call.  Inv adds that a row still fresh for a pass is the row the *)
(* pass read, that a plain row's reported transaction carries its call,    *)
(* and that custody is the same everywhere: envelopes and signatures exist *)
(* under a Safe and nowhere else.                                          *)
(*                                                                         *)
(* Then that the rows keep the lifecycle of a proposal, and, with ResInv,  *)
(* that no reservation is forgotten and no success recorded as a failure.  *)
(***************************************************************************)
EXTENDS ManualCustody, TLAPS

\* A reported transaction exists, and without an envelope it is the row's own.
Reported(s, r) == /\ r.hash \in TxIds
                  /\ tx[r.hash].state # "new"
                  /\ r.env = None =>
                        tx[r.hash].call = CallOf(s, r.payload, r.env)

\* What a row on record must be.
RowOk(s, r) ==
    /\ r.status # "none" => r.payload \in Payloads
    /\ r.env # None => Safe
    /\ Safe /\ r.status \in {"claimed", "submitted"} => r.env # None
    /\ r.status = "submitted" => Reported(s, r)
    /\ r.status = "confirmed" =>
          /\ r.hash \in TxIds
          /\ tx[r.hash].state = "success"
          /\ tx[r.hash].call = CallOf(s, r.payload, r.env)
RowInv == \A s \in Subjects : RowOk(s, store[s])

\* What has been sent or signed is a call, with a nonce only under a Safe.
Fits(c) == c \in Call /\ (~Safe => c.nonce = None)
TxInv == /\ \A t \in TxIds : tx[t].state # "new" => Fits(tx[t].call)
         /\ \A c \in signed : Fits(c)

\* An operator process in the middle of a command.
OpOk(o) ==
    op[o].at # "idle" =>
        /\ op[o].subject \in Subjects
        /\ op[o].payload \in Payloads
        /\ op[o].cmd \in {"claim", "broadcast"} => (Safe <=> op[o].env # None)
        /\ op[o].at \in {"send", "mark"} => op[o].cmd = "broadcast"
        /\ op[o].at = "mark" => /\ op[o].hash \in TxIds
                                /\ tx[op[o].hash].state # "new"
                                /\ tx[op[o].hash].call = OpCall(o)
OpInv == \A o \in Operators : OpOk(o)

\* A poll loop in the middle of its pass.
ReadOk(b, s) ==
    b.snaps[s] # None =>
        /\ b.snaps[s].status = "submitted"
        /\ b.snaps[s].payload \in Payloads
        /\ b.snaps[s].hash \in TxIds
        /\ s \in b.fresh => store[s] = b.snaps[s]
BotOk(b) ==
    /\ b.at \in {"supersede", "again"} => /\ b.subject \in Subjects
                                          /\ b.want \in Payloads
    /\ \A s \in Subjects : ReadOk(b, s)
BotInv == \A e \in Engines : BotOk(bot[e])

Inv == TypeOK /\ RowInv /\ TxInv /\ OpInv /\ BotInv

-----------------------------------------------------------------------------
(* What one write does.                                                    *)

\* A good row written in place of another.
LEMMA RowWritten ==
  ASSUME TypeOK, RowInv, NEW s \in Subjects, NEW r \in Row, RowOk(s, r),
         Write(s, r), UNCHANGED <<custody, tx>>
  PROVE  store' \in [Subjects -> Row] /\ RowInv'
<1>1. store' \in [Subjects -> Row]
  BY DEF TypeOK, Write
<1>2. ASSUME NEW x \in Subjects PROVE RowOk(x, store[x])'
  <2>1. CASE x = s
    BY <2>1 DEF TypeOK, Write, RowOk, Reported, Safe, CallOf
  <2>2. CASE x # s
    BY <2>2 DEF TypeOK, Write, RowInv, RowOk, Reported, Safe, CallOf
  <2> QED
    BY <2>1, <2>2
<1> QED
  BY <1>1, <1>2 DEF RowInv

\* No pass takes a row that was written for the row it has read.
LEMMA ReadsTouched ==
  ASSUME TypeOK, BotInv, NEW S \in SUBSET Subjects,
         \A x \in Subjects \ S : store'[x] = store[x],
         bot' = Touched(S)
  PROVE  bot' \in [Engines -> Bot] /\ BotInv'
<1>1. bot' \in [Engines -> Bot]
  <2>1. ASSUME NEW e \in Engines PROVE bot'[e] \in Bot
    <3>1. bot[e] \in Bot /\ bot'[e] = [bot[e] EXCEPT !.fresh = @ \ S]
      BY DEF TypeOK, Touched
    <3> QED
      BY ONLY <3>1 DEF Bot
  <2> QED
    BY <2>1 DEF Touched
<1>2. ASSUME NEW e \in Engines PROVE BotOk(bot[e])'
  <2>1. /\ bot'[e] = [bot[e] EXCEPT !.fresh = @ \ S]
        /\ bot[e] \in Bot
        /\ BotOk(bot[e])
    BY DEF TypeOK, Touched, BotInv
  <2>2. ASSUME NEW x \in Subjects PROVE ReadOk(bot[e], x)'
    BY <2>1 DEF Bot, BotOk, ReadOk
  <2> QED
    BY <2>1, <2>2 DEF Bot, BotOk, ReadOk
<1> QED
  BY <1>1, <1>2 DEF BotInv

\* Both together, which is what every command of an operator does.
LEMMA WriteTouches ==
  ASSUME TypeOK, RowInv, BotInv, NEW s \in Subjects, NEW r \in Row,
         RowOk(s, r), Write(s, r), bot' = Touched({s}), UNCHANGED <<custody, tx>>
  PROVE  /\ store' \in [Subjects -> Row] /\ RowInv'
         /\ bot' \in [Engines -> Bot] /\ BotInv'
<1>1. \A x \in Subjects \ {s} : store'[x] = store[x]
  BY DEF TypeOK, Write
<1> QED
  BY <1>1, RowWritten, ReadsTouched

\* A process that ends its command.
LEMMA OpEnds ==
  ASSUME TypeOK, OpInv, NEW o \in Operators, End(o), UNCHANGED <<custody, tx>>
  PROVE  op' \in [Operators -> Op] /\ OpInv'
<1>1. op' \in [Operators -> Op]
  BY DEF TypeOK, End, Idle, Op, OpLabels
<1>2. ASSUME NEW x \in Operators PROVE OpOk(x)'
  BY DEF TypeOK, End, Idle, Op, OpInv, OpOk, OpCall, CallOf, Safe
<1> QED
  BY <1>1, <1>2 DEF OpInv

\* What rests when nothing it speaks of moves.
LEMMA OpRests ==
  ASSUME TypeOK, OpInv, UNCHANGED <<custody, tx, op>>
  PROVE  op' \in [Operators -> Op] /\ OpInv'
<1> QED
  BY DEF TypeOK, OpInv, OpOk, OpCall, CallOf, Safe

LEMMA TxRests ==
  ASSUME TypeOK, TxInv, UNCHANGED <<custody, tx, signed>>
  PROVE  TxInv'
<1> QED
  BY DEF TypeOK, TxInv, Fits, Safe

LEMMA RowRests ==
  ASSUME TypeOK, RowInv, UNCHANGED <<custody, tx, store>>
  PROVE  RowInv'
<1> QED
  BY DEF TypeOK, RowInv, RowOk, Reported, CallOf, Safe

LEMMA BotRests ==
  ASSUME TypeOK, BotInv, UNCHANGED <<store, bot>>
  PROVE  BotInv'
<1> QED
  BY DEF TypeOK, BotInv, BotOk, ReadOk

-----------------------------------------------------------------------------
(* The invariant holds at first, and every step keeps it.                  *)

LEMMA InvInit == Init => Inv
<1> SUFFICES ASSUME Init PROVE Inv
  OBVIOUS
<1> USE ManualAssumption DEF Init
<1>1. TypeOK
  BY DEF TypeOK, NoRow, Row, Statuses, Nonces, Tx, TxStates, Bot, BotLabels,
         NoSnaps, Idle, Op, OpLabels
<1>2. RowInv /\ TxInv
  BY DEF RowInv, RowOk, NoRow, TxInv
<1>3. OpInv /\ BotInv
  BY DEF OpInv, OpOk, Idle, BotInv, BotOk, ReadOk, NoSnaps
<1> QED
  BY <1>1, <1>2, <1>3 DEF Inv

\* A call enters the pool in a transaction that was not used before.
LEMMA Enters ==
  ASSUME Inv, NEW t \in TxIds, NEW c \in Call, Fits(c), Enter(t, c),
         UNCHANGED <<custody, store, signed, bot>>
  PROVE  /\ tx' \in [TxIds -> Tx]
         /\ RowInv' /\ TxInv' /\ BotInv'
         /\ \A x \in TxIds : tx[x].state # "new" => tx'[x] = tx[x]
<1> USE DEF Inv
<1>1. /\ tx' \in [TxIds -> Tx]
      /\ tx'[t] = [call |-> c, state |-> "pool"]
      /\ \A x \in TxIds : x # t => tx'[x] = tx[x]
      /\ tx[t].state = "new"
  BY DEF Enter, TypeOK, Tx, TxStates
<1>2. RowInv'
  <2> SUFFICES ASSUME NEW s \in Subjects PROVE RowOk(s, store[s])'
    BY DEF RowInv
  <2> QED
    BY <1>1 DEF RowInv, RowOk, Reported, CallOf, Safe
<1>3. TxInv'
  BY <1>1 DEF TxInv, Fits, Safe
<1>4. BotInv'
  BY BotRests
<1> QED
  BY <1>1, <1>2, <1>3, <1>4

LEMMA SignKeeps ==
  ASSUME Inv, NEW t \in TxIds, SignExternally(t)
  PROVE  Inv'
<1> USE DEF Inv
<1>1. PICK c \in Call : Fits(c) /\ Enter(t, c)
  <2>1. ASSUME NEW c \in signed, Enter(t, c) PROVE c \in Call /\ Fits(c)
    BY DEF TypeOK, TxInv
  <2>2. ASSUME NEW s \in Subjects, ~Safe, store[s].status = "claimed"
        PROVE  RowCall(s) \in Call /\ Fits(RowCall(s))
    BY <2>2 DEF TypeOK, RowInv, RowOk, RowCall, CallOf, Fits, Call, Row
  <2> QED
    BY <2>1, <2>2 DEF SignExternally
<1>2. UNCHANGED <<custody, store, safeNonce, signed, bot, op, dropped, crossed>>
  BY DEF SignExternally
<1>3. /\ tx' \in [TxIds -> Tx]
      /\ RowInv' /\ TxInv' /\ BotInv'
      /\ \A x \in TxIds : tx[x].state # "new" => tx'[x] = tx[x]
  BY <1>1, <1>2, Enters
<1>4. OpInv'
  BY <1>2, <1>3 DEF OpInv, OpOk, OpCall, CallOf, Safe
<1>5. TypeOK'
  BY <1>2, <1>3 DEF TypeOK
<1> QED
  BY <1>3, <1>4, <1>5

\* A transaction's fate is final, and its call never changes.
LEMMA MineKeeps ==
  ASSUME Inv, NEW t \in TxIds, Mine(t)
  PROVE  Inv'
<1> USE DEF Inv
<1>1. PICK outcome \in {"success", "failure", "reverted"} : Mined(t, outcome)
  BY DEF Mine
<1>2. /\ UNCHANGED <<custody, store, signed, bot, op, dropped, crossed>>
      /\ tx[t].state = "pool"
  BY DEF Mine
<1>3. safeNonce' \in Nonces
  BY ManualAssumption DEF Mine, TypeOK, Nonces
<1>4. /\ tx' \in [TxIds -> Tx]
      /\ \A x \in TxIds : /\ tx'[x].call = tx[x].call
                          /\ x # t => tx'[x] = tx[x]
      /\ tx'[t].state = outcome
  BY <1>1 DEF Mined, TypeOK, Tx, TxStates
<1>5. TypeOK'
  BY <1>2, <1>3, <1>4 DEF TypeOK
<1>6. RowInv'
  <2> SUFFICES ASSUME NEW s \in Subjects PROVE RowOk(s, store[s])'
    BY DEF RowInv
  <2> QED
    BY <1>2, <1>4 DEF RowInv, RowOk, Reported, CallOf, Safe
<1>7. TxInv'
  BY <1>2, <1>4 DEF TxInv, Fits, Safe
<1>8. OpInv'
  BY <1>2, <1>4 DEF OpInv, OpOk, OpCall, CallOf, Safe
<1>9. BotInv'
  BY <1>2, BotRests
<1> QED
  BY <1>5, <1>6, <1>7, <1>8, <1>9

LEMMA SpendKeeps ==
  ASSUME Inv, SpendNonce
  PROVE  Inv'
<1> USE DEF Inv, SpendNonce
<1>1. TypeOK'
  BY ManualAssumption DEF TypeOK, Nonces
<1> QED
  BY <1>1, OpRests, TxRests, RowRests, BotRests

-----------------------------------------------------------------------------
(* The bot's steps.                                                        *)

\* An expired row keeps its call.
LEMMA SweepKeeps ==
  ASSUME Inv, NEW e \in Engines, Sweep(e)
  PROVE  Inv'
<1> USE DEF Inv
<1>1. PICK old \in SUBSET {s \in Subjects : Retirable(s)} :
         /\ store' = [s \in Subjects |-> IF s \in old
                                    THEN [store[s] EXCEPT !.status = "expired"]
                                    ELSE store[s]]
         /\ bot' = Touched(old)
  BY DEF Sweep
<1>2. UNCHANGED <<custody, tx, safeNonce, signed, op, dropped, crossed>>
  BY DEF Sweep
<1>3. \A s \in Subjects : store'[s] \in Row
  BY <1>1 DEF TypeOK, Row, Statuses
<1>4. RowInv'
  BY <1>1, <1>2 DEF RowInv, RowOk, Reported, CallOf, Safe, TypeOK, Row,
                    Retirable
<1>5. bot' \in [Engines -> Bot] /\ BotInv'
  <2>1. /\ \A x \in Subjects \ old : store'[x] = store[x]
        /\ old \in SUBSET Subjects
    BY <1>1
  <2> QED
    BY <1>1, <2>1, ReadsTouched
<1>6. TypeOK'
  BY <1>1, <1>2, <1>3, <1>5 DEF TypeOK
<1> QED
  BY <1>2, <1>4, <1>5, <1>6, OpRests, TxRests

LEMMA ReadKeeps ==
  ASSUME Inv, NEW e \in Engines, Read(e)
  PROVE  Inv'
<1> USE DEF Inv
<1> DEFINE listed == {s \in Subjects : store[s].status \in InFlightOnChain}
           after  == [bot[e] EXCEPT
                        !.at = "pass", !.fresh = listed,
                        !.snaps = [s \in Subjects |->
                                     IF s \in listed THEN store[s] ELSE None]]
<1>1. /\ UNCHANGED <<custody, store, tx, safeNonce, signed, op, dropped, crossed>>
      /\ bot' = [bot EXCEPT ![e] = after]
  BY DEF Read, TypeOK, Bot
<1>2. after \in Bot
  BY DEF TypeOK, Bot, BotLabels
<1>3. BotOk(after)
  BY DEF BotOk, ReadOk, RowInv, RowOk, Reported, TypeOK, Row, InFlightOnChain,
         Bot
<1>4. BotInv'
  <2> SUFFICES ASSUME NEW x \in Engines PROVE BotOk(bot[x])'
    BY DEF BotInv
  <2>1. BotOk(bot'[x])
    BY <1>1, <1>3 DEF BotInv, TypeOK
  <2> QED
    BY <2>1, <1>1 DEF BotOk, ReadOk
<1>5. TypeOK'
  BY <1>1, <1>2 DEF TypeOK
<1> QED
  BY <1>1, <1>4, <1>5, OpRests, TxRests, RowRests

\* The verdicts on a row name a transaction; success is a transaction's own.
LEMMA VerdictsFit ==
  ASSUME Inv, NEW s \in Subjects, NEW r \in Row, r.hash \in TxIds,
         NEW v \in IF r.env # None
                   THEN SafeVerdicts(CallOf(s, r.payload, r.env), r.hash)
                   ELSE PlainVerdicts(r.hash),
         v # Stay
  PROVE  /\ v.status \in {"confirmed", "failed"}
         /\ v.hash \in TxIds
         /\ v.status = "confirmed" =>
               /\ tx[v.hash].state = "success"
               /\ \/ tx[v.hash].call = CallOf(s, r.payload, r.env)
                  \/ r.env = None /\ v.hash = r.hash
<1> DEFINE c == CallOf(s, r.payload, r.env)
<1>1. CASE r.env # None
  <2>1. PICK t \in TxIds :
           \/ v = Found(t) /\ tx[t].call = c
           \/ v = Verdict("failed", t)
    BY <1>1 DEF SafeVerdicts, InState
  <2> QED
    BY <2>1 DEF Found, Verdict
<1>2. CASE r.env = None
  BY <1>2 DEF PlainVerdicts, Verdict
<1> QED
  BY <1>1, <1>2

\* Passes that forget some of what they have read keep the rest.
LEMMA ReadsShrink ==
  ASSUME TypeOK, BotInv, NEW S \in SUBSET Subjects,
         \A x \in Subjects \ S : store'[x] = store[x],
         bot' \in [Engines -> Bot],
         \A x \in Engines :
            /\ bot'[x].at = bot[x].at
            /\ bot'[x].subject = bot[x].subject
            /\ bot'[x].want = bot[x].want
            /\ bot'[x].fresh \subseteq bot[x].fresh \ S
            /\ \A y \in Subjects : bot'[x].snaps[y] \in {bot[x].snaps[y], None}
  PROVE  BotInv'
<1>1. ASSUME NEW x \in Engines PROVE BotOk(bot[x])'
  <2>1. BotOk(bot[x])
    BY DEF BotInv
  <2>2. bot'[x].at \in {"supersede", "again"} =>
          bot'[x].subject \in Subjects /\ bot'[x].want \in Payloads
    BY <2>1 DEF BotOk
  <2>3. ASSUME NEW y \in Subjects, bot'[x].snaps[y] # None
        PROVE  /\ bot'[x].snaps[y].status = "submitted"
               /\ bot'[x].snaps[y].payload \in Payloads
               /\ bot'[x].snaps[y].hash \in TxIds
               /\ y \in bot'[x].fresh => store'[y] = bot'[x].snaps[y]
    BY <2>1, <2>3 DEF BotOk, ReadOk
  <2> QED
    BY <2>2, <2>3 DEF BotOk, ReadOk
<1> QED
  BY <1>1 DEF BotInv

\* A pass is done with one row: it forgets what it read of it.
Dropped(e, s) == [bot EXCEPT ![e].snaps[s] = None, ![e].fresh = @ \ {s}]

LEMMA ReadsDropped ==
  ASSUME TypeOK, NEW e \in Engines, NEW s \in Subjects
  PROVE  /\ Dropped(e, s) \in [Engines -> Bot]
         /\ \A x \in Engines :
              /\ Dropped(e, s)[x].at = bot[x].at
              /\ Dropped(e, s)[x].subject = bot[x].subject
              /\ Dropped(e, s)[x].want = bot[x].want
              /\ Dropped(e, s)[x].fresh \subseteq bot[x].fresh
              /\ \A y \in Subjects :
                    Dropped(e, s)[x].snaps[y] \in {bot[x].snaps[y], None}
<1>1. /\ bot[e] \in Bot
      /\ bot[e].snaps \in [Subjects -> Row \cup {None}]
      /\ bot[e].fresh \subseteq Subjects
  BY DEF TypeOK, Bot
<1> DEFINE sn == [bot[e].snaps EXCEPT ![s] = None]
           b  == [bot[e] EXCEPT !.snaps = sn, !.fresh = bot[e].fresh \ {s}]
<1>2. Dropped(e, s) = [bot EXCEPT ![e] = b]
  BY <1>1 DEF Dropped, TypeOK, Bot
<1>3. /\ sn \in [Subjects -> Row \cup {None}]
      /\ \A y \in Subjects : sn[y] \in {bot[e].snaps[y], None}
  BY <1>1
<1> HIDE DEF sn
<1>4. /\ b \in Bot
      /\ b.at = bot[e].at /\ b.subject = bot[e].subject
      /\ b.want = bot[e].want /\ b.snaps = sn
      /\ b.fresh \subseteq bot[e].fresh
  BY <1>1, <1>3 DEF Bot
<1> HIDE DEF b
<1>5. \A x \in Engines :
         IF x = e THEN Dropped(e, s)[x] = b ELSE Dropped(e, s)[x] = bot[x]
  BY <1>2 DEF TypeOK
<1> QED
  BY <1>2, <1>3, <1>4, <1>5 DEF TypeOK

LEMMA DroppedKeeps ==
  ASSUME TypeOK, BotInv, NEW e \in Engines, NEW s \in Subjects,
         bot' = Dropped(e, s), UNCHANGED store
  PROVE  bot' \in [Engines -> Bot] /\ BotInv'
<1>1. {} \in SUBSET Subjects /\ \A x \in Subjects \ {} : store'[x] = store[x]
  OBVIOUS
<1>2. \A x \in Engines : bot'[x].fresh \subseteq bot[x].fresh \ {}
  BY ReadsDropped
<1> QED
  BY <1>1, <1>2, ReadsDropped, ReadsShrink

\* The verdict is written only over the row it is about.
LEMMA ResolveKeeps ==
  ASSUME Inv, NEW e \in Engines, NEW s \in Subjects, Resolve(e, s)
  PROVE  Inv'
<1> USE DEF Inv
<1> DEFINE r == bot[e].snaps[s]
           c == CallOf(s, r.payload, r.env)
<1>1. /\ UNCHANGED <<custody, tx, safeNonce, signed, op, crossed>>
      /\ r # None
  BY DEF Resolve
<1>2. /\ r \in Row
      /\ r.status = "submitted"
      /\ r.payload \in Payloads
      /\ r.hash \in TxIds
      /\ s \in bot[e].fresh => store[s] = r
  BY <1>1 DEF TypeOK, Bot, BotInv, BotOk, ReadOk
<1>3. c \in Call
  BY <1>2 DEF Call, CallOf, Row
<1>4. PICK v \in IF r.env # None THEN SafeVerdicts(c, r.hash)
                                 ELSE PlainVerdicts(r.hash) :
        IF v # Stay /\ AsRead(e, s)
        THEN /\ Write(s, [store[s] EXCEPT !.status = v.status,
                                          !.hash = v.hash])
             /\ bot' = [x \in Engines |->
                          [Dropped(e, s)[x] EXCEPT !.fresh = @ \ {s}]]
             /\ dropped' = IF v.status = "failed" /\ ~Executed(c)
                           THEN dropped \cup {c} ELSE dropped
        ELSE /\ bot' = Dropped(e, s)
             /\ UNCHANGED <<store, dropped>>
  BY DEF Resolve, Dropped
<1>5. CASE v # Stay /\ AsRead(e, s)
  <2> DEFINE w == [store[s] EXCEPT !.status = v.status, !.hash = v.hash]
  <2>1. /\ Write(s, w)
        /\ bot' = [x \in Engines |->
                     [Dropped(e, s)[x] EXCEPT !.fresh = @ \ {s}]]
        /\ dropped' \subseteq dropped \cup {c}
        /\ store[s] = r
    BY <1>2, <1>4, <1>5 DEF AsRead
  <2>2. /\ v.status \in {"confirmed", "failed"}
        /\ v.hash \in TxIds
        /\ v.status = "confirmed" =>
               /\ tx[v.hash].state = "success"
               /\ \/ tx[v.hash].call = c
                  \/ r.env = None /\ v.hash = r.hash
    BY <1>2, <1>5, VerdictsFit
  <2>3. /\ w \in Row
        /\ w.status = v.status
        /\ w.hash = v.hash
        /\ w.payload = r.payload
        /\ w.env = r.env
    BY <2>1, <2>2, <1>2 DEF Row, Statuses
  <2>4. RowOk(s, w)
    <3>1. RowOk(s, r)
      BY <2>1 DEF RowInv
    <3> HIDE DEF w, r
    <3> QED
      BY <3>1, <2>2, <2>3, <1>2 DEF RowOk, Reported
  <2> HIDE DEF w, c
  <2>5. store' \in [Subjects -> Row] /\ RowInv'
    BY <1>1, <2>1, <2>3, <2>4, RowWritten
  <2>6. bot' \in [Engines -> Bot] /\ BotInv'
    <3>1. \A x \in Subjects \ {s} : store'[x] = store[x]
      BY <2>1 DEF TypeOK, Write
    <3>2. ASSUME NEW x \in Engines
          PROVE  /\ bot'[x] \in Bot
                 /\ bot'[x].at = bot[x].at
                 /\ bot'[x].subject = bot[x].subject
                 /\ bot'[x].want = bot[x].want
                 /\ bot'[x].fresh \subseteq bot[x].fresh \ {s}
                 /\ \A y \in Subjects :
                      bot'[x].snaps[y] \in {bot[x].snaps[y], None}
      <4> DEFINE b == Dropped(e, s)[x]
      <4>1. b \in Bot /\ bot'[x] = [b EXCEPT !.fresh = @ \ {s}]
        BY <2>1, ReadsDropped
      <4>2. /\ b.at = bot[x].at /\ b.subject = bot[x].subject
            /\ b.want = bot[x].want /\ b.fresh \subseteq bot[x].fresh
            /\ \A y \in Subjects : b.snaps[y] \in {bot[x].snaps[y], None}
        BY ReadsDropped
      <4> HIDE DEF b
      <4>3. /\ bot'[x] \in Bot
            /\ bot'[x].at = b.at /\ bot'[x].subject = b.subject
            /\ bot'[x].want = b.want /\ bot'[x].snaps = b.snaps
            /\ bot'[x].fresh = b.fresh \ {s}
        BY <4>1 DEF Bot
      <4> QED
        BY <4>2, <4>3
    <3>3. bot' \in [Engines -> Bot]
      BY <2>1, <3>2
    <3> QED
      BY <3>1, <3>2, <3>3, ReadsShrink
  <2>7. TypeOK'
    BY <1>1, <1>3, <2>1, <2>5, <2>6 DEF TypeOK
  <2> QED
    BY <1>1, <2>5, <2>6, <2>7, OpRests, TxRests
<1>6. CASE ~(v # Stay /\ AsRead(e, s))
  <2>1. bot' = Dropped(e, s) /\ UNCHANGED <<store, dropped>>
    BY <1>4, <1>6
  <2>2. bot' \in [Engines -> Bot] /\ BotInv'
    BY <2>1, DroppedKeeps
  <2>3. TypeOK'
    BY <1>1, <2>1, <2>2 DEF TypeOK
  <2> QED
    BY <1>1, <2>1, <2>2, <2>3, OpRests, TxRests, RowRests
<1> QED
  BY <1>5, <1>6

LEMMA ScanFailsKeeps ==
  ASSUME Inv, NEW e \in Engines, NEW s \in Subjects, ScanFails(e, s)
  PROVE  Inv'
<1> USE DEF Inv
<1>1. /\ bot' = Dropped(e, s)
      /\ UNCHANGED <<custody, store, tx, safeNonce, signed, op, dropped, crossed>>
  BY DEF ScanFails, Dropped
<1>2. bot' \in [Engines -> Bot] /\ BotInv'
  BY <1>1, DroppedKeeps
<1>3. TypeOK'
  BY <1>1, <1>2 DEF TypeOK
<1> QED
  BY <1>1, <1>2, <1>3, OpRests, TxRests, RowRests

\* A loop goes on to another label, with what it needs there at hand.
LEMMA LoopMoves ==
  ASSUME TypeOK, BotInv, NEW e \in Engines, NEW b \in Bot,
         b.snaps = bot[e].snaps, b.fresh = bot[e].fresh,
         b.at \in {"supersede", "again"} =>
            b.subject \in Subjects /\ b.want \in Payloads,
         bot' = [bot EXCEPT ![e] = b],
         UNCHANGED store
  PROVE  bot' \in [Engines -> Bot] /\ BotInv'
<1>1. bot' \in [Engines -> Bot]
  BY DEF TypeOK
<1>2. ASSUME NEW x \in Engines PROVE BotOk(bot[x])'
  <2>1. CASE x = e
    BY <2>1 DEF TypeOK, BotInv, BotOk, ReadOk
  <2>2. CASE x # e
    BY <2>2 DEF TypeOK, BotInv, BotOk, ReadOk
  <2> QED
    BY <2>1, <2>2
<1> QED
  BY <1>1, <1>2 DEF BotInv

\* The same for a loop that also writes a row.
LEMMA LoopWrites ==
  ASSUME TypeOK, RowInv, BotInv, NEW e \in Engines, NEW s \in Subjects,
         NEW r \in Row, RowOk(s, r), Write(s, r), UNCHANGED <<custody, tx>>,
         NEW b \in Bot,
         b.snaps = bot[e].snaps, b.fresh = bot[e].fresh \ {s},
         b.at \in {"supersede", "again"} =>
            b.subject \in Subjects /\ b.want \in Payloads,
         bot' = [Touched({s}) EXCEPT ![e] = b]
  PROVE  /\ store' \in [Subjects -> Row] /\ RowInv'
         /\ bot' \in [Engines -> Bot] /\ BotInv'
<1>1. store' \in [Subjects -> Row] /\ RowInv'
  BY RowWritten
<1>2. \A x \in Subjects \ {s} : store'[x] = store[x]
  BY DEF TypeOK, Write
<1>3. ASSUME NEW x \in Engines
      PROVE  /\ bot'[x] \in Bot
             /\ bot'[x].snaps = bot[x].snaps
             /\ bot'[x].fresh = bot[x].fresh \ {s}
             /\ x # e => /\ bot'[x].at = bot[x].at
                         /\ bot'[x].subject = bot[x].subject
                         /\ bot'[x].want = bot[x].want
             /\ x = e => bot'[x] = b
  <2>1. bot[x] \in Bot
    BY DEF TypeOK
  <2> QED
    BY <2>1 DEF Touched, Bot
<1>4. ASSUME NEW x \in Engines PROVE BotOk(bot[x])'
  <2>1. BotOk(bot[x])
    BY DEF BotInv
  <2>2. bot'[x].at \in {"supersede", "again"} =>
          bot'[x].subject \in Subjects /\ bot'[x].want \in Payloads
    BY <1>3, <2>1 DEF BotOk
  <2>3. ASSUME NEW y \in Subjects, bot'[x].snaps[y] # None
        PROVE  /\ bot'[x].snaps[y].status = "submitted"
               /\ bot'[x].snaps[y].payload \in Payloads
               /\ bot'[x].snaps[y].hash \in TxIds
               /\ y \in bot'[x].fresh => store'[y] = bot'[x].snaps[y]
    BY <1>2, <1>3, <2>1, <2>3 DEF BotOk, ReadOk
  <2> QED
    BY <2>2, <2>3 DEF BotOk, ReadOk
<1>5. bot' \in [Engines -> Bot]
  <2>1. DOMAIN bot' = Engines /\ bot' = [x \in Engines |-> bot'[x]]
    BY DEF Touched
  <2> QED
    BY <1>3, <2>1
<1> QED
  BY <1>1, <1>4, <1>5 DEF BotInv

LEMMA CycleDoneKeeps ==
  ASSUME Inv, NEW e \in Engines, CycleDone(e)
  PROVE  Inv'
<1> USE DEF Inv
<1> DEFINE b == [bot[e] EXCEPT !.at = "start"]
<1>1. /\ bot' = [bot EXCEPT ![e] = b]
      /\ UNCHANGED <<custody, store, tx, safeNonce, signed, op, dropped, crossed>>
  BY DEF CycleDone
<1>2. /\ b \in Bot /\ b.snaps = bot[e].snaps /\ b.fresh = bot[e].fresh
      /\ b.at = "start"
  BY DEF TypeOK, Bot, BotLabels
<1> HIDE DEF b
<1>3. bot' \in [Engines -> Bot] /\ BotInv'
  BY <1>1, <1>2, LoopMoves
<1>4. TypeOK'
  BY <1>1, <1>3 DEF TypeOK
<1> QED
  BY <1>1, <1>3, <1>4, OpRests, TxRests, RowRests

\* A fresh proposal has no envelope and no hash.
LEMMA RecordedOk ==
  ASSUME NEW s \in Subjects, NEW p \in Payloads
  PROVE  Recorded(p) \in Row /\ RowOk(s, Recorded(p))
<1> QED
  BY DEF Recorded, Row, Statuses, RowOk

\* Nothing of a row but its status changes, and not into one that says more.
LEMMA StatusOk ==
  ASSUME TypeOK, RowInv, NEW s \in Subjects,
         store[s].status # "none",
         NEW status \in {"proposed", "failed", "superseded"}
  PROVE  /\ [store[s] EXCEPT !.status = status] \in Row
         /\ RowOk(s, [store[s] EXCEPT !.status = status])
<1>1. store[s] \in Row /\ RowOk(s, store[s])
  BY DEF TypeOK, RowInv
<1> QED
  BY <1>1 DEF Row, Statuses, RowOk

LEMMA ProposeKeeps ==
  ASSUME Inv, NEW e \in Engines, NEW s \in Subjects, NEW p \in Payloads,
         Propose(e, s, p)
  PROVE  Inv'
<1> USE DEF Inv
<1>1. UNCHANGED <<custody, tx, safeNonce, signed, op, dropped, crossed>>
  BY DEF Propose
<1>2. CASE store[s].status \notin LiveForDedup
  <2>1. Write(s, Recorded(p)) /\ bot' = Touched({s})
    BY <1>2 DEF Propose
  <2>2. /\ store' \in [Subjects -> Row] /\ RowInv'
        /\ bot' \in [Engines -> Bot] /\ BotInv'
    BY <1>1, <2>1, RecordedOk, WriteTouches
  <2>3. TypeOK'
    BY <1>1, <2>2 DEF TypeOK
  <2> QED
    BY <1>1, <2>2, <2>3, OpRests, TxRests
<1>3. CASE store[s].status \in LiveForDedup
  <2> DEFINE b == [bot[e] EXCEPT !.at = "supersede", !.subject = s, !.want = p]
  <2>1. bot' = [bot EXCEPT ![e] = b] /\ UNCHANGED store
    BY <1>3 DEF Propose
  <2>2. /\ b \in Bot /\ b.snaps = bot[e].snaps /\ b.fresh = bot[e].fresh
        /\ b.subject = s /\ b.want = p
    BY DEF TypeOK, Bot, BotLabels
  <2> HIDE DEF b
  <2>3. bot' \in [Engines -> Bot] /\ BotInv'
    BY <2>1, <2>2, LoopMoves
  <2>4. TypeOK'
    BY <1>1, <2>1, <2>3 DEF TypeOK
  <2> QED
    BY <1>1, <2>1, <2>3, <2>4, OpRests, TxRests, RowRests
<1> QED
  BY <1>2, <1>3

LEMMA SupersedeKeeps ==
  ASSUME Inv, NEW e \in Engines, Supersede(e)
  PROVE  Inv'
<1> USE DEF Inv
<1> DEFINE s == bot[e].subject
           b == [bot[e] EXCEPT !.at = "again", !.fresh = @ \ {s}]
           c == [bot[e] EXCEPT !.at = "again"]
<1>1. /\ UNCHANGED <<custody, tx, safeNonce, signed, op, dropped, crossed>>
      /\ bot[e].at = "supersede"
      /\ bot[e] \in Bot
  BY DEF Supersede, TypeOK
<1>2. s \in Subjects /\ bot[e].want \in Payloads
  BY <1>1 DEF BotInv, BotOk
<1>3. CASE Retirable(s)
  <2>1. /\ Write(s, [store[s] EXCEPT !.status = "superseded"])
        /\ bot' = [Touched({s}) EXCEPT ![e].at = "again"]
    BY <1>3 DEF Supersede
  <2>2. bot' = [Touched({s}) EXCEPT ![e] = b]
    BY <1>1, <2>1 DEF Touched, Bot
  <2>3. /\ b \in Bot /\ b.snaps = bot[e].snaps /\ b.fresh = bot[e].fresh \ {s}
        /\ b.subject = s /\ b.want = bot[e].want
    BY <1>1 DEF Bot, BotLabels
  <2> DEFINE r == [store[s] EXCEPT !.status = "superseded"]
  <2>4. r \in Row /\ RowOk(s, r) /\ Write(s, r)
    BY <1>2, <1>3, <2>1, StatusOk DEF Retirable
  <2> HIDE DEF b, s, r
  <2>5. /\ store' \in [Subjects -> Row] /\ RowInv'
        /\ bot' \in [Engines -> Bot] /\ BotInv'
    BY <1>1, <1>2, <2>2, <2>3, <2>4, LoopWrites
  <2>6. TypeOK'
    BY <1>1, <2>5 DEF TypeOK
  <2> QED
    BY <1>1, <2>5, <2>6, OpRests, TxRests
<1>4. CASE ~Retirable(s)
  <2>1. bot' = [bot EXCEPT ![e] = c] /\ UNCHANGED store
    BY <1>4 DEF Supersede
  <2>2. /\ c \in Bot /\ c.snaps = bot[e].snaps /\ c.fresh = bot[e].fresh
        /\ c.subject = s /\ c.want = bot[e].want
    BY <1>1 DEF Bot, BotLabels
  <2> HIDE DEF c
  <2>3. bot' \in [Engines -> Bot] /\ BotInv'
    BY <1>2, <2>1, <2>2, LoopMoves
  <2>4. TypeOK'
    BY <1>1, <2>1, <2>3 DEF TypeOK
  <2> QED
    BY <1>1, <2>1, <2>3, <2>4, OpRests, TxRests, RowRests
<1> QED
  BY <1>3, <1>4

LEMMA ProposeAgainKeeps ==
  ASSUME Inv, NEW e \in Engines, ProposeAgain(e)
  PROVE  Inv'
<1> USE DEF Inv
<1> DEFINE s == bot[e].subject
           b == [bot[e] EXCEPT !.at = "pass", !.fresh = @ \ {s},
                               !.subject = None, !.want = None]
           c == [bot[e] EXCEPT !.at = "pass", !.subject = None, !.want = None]
<1>1. /\ UNCHANGED <<custody, tx, safeNonce, signed, op, dropped, crossed>>
      /\ bot[e].at = "again"
      /\ bot[e] \in Bot
  BY DEF ProposeAgain, TypeOK
<1>2. s \in Subjects /\ bot[e].want \in Payloads
  BY <1>1 DEF BotInv, BotOk
<1>3. CASE store[s].status \notin LiveForDedup
  <2>1. /\ Write(s, Recorded(bot[e].want))
        /\ bot' = [Touched({s}) EXCEPT ![e].at = "pass", ![e].subject = None,
                                       ![e].want = None]
    BY <1>3 DEF ProposeAgain
  <2>2. bot' = [Touched({s}) EXCEPT ![e] = b]
    BY <1>1, <2>1 DEF Touched, Bot
  <2>3. /\ b \in Bot /\ b.snaps = bot[e].snaps /\ b.fresh = bot[e].fresh \ {s}
        /\ b.at = "pass"
    BY <1>1 DEF Bot, BotLabels
  <2> HIDE DEF b, s
  <2> DEFINE r == Recorded(bot[e].want)
  <2>4. r \in Row /\ RowOk(s, r) /\ Write(s, r)
    BY <1>2, <2>1, RecordedOk
  <2> HIDE DEF r
  <2>5. /\ store' \in [Subjects -> Row] /\ RowInv'
        /\ bot' \in [Engines -> Bot] /\ BotInv'
    BY <1>1, <1>2, <2>2, <2>3, <2>4, LoopWrites
  <2>6. TypeOK'
    BY <1>1, <2>5 DEF TypeOK
  <2> QED
    BY <1>1, <2>5, <2>6, OpRests, TxRests
<1>4. CASE store[s].status \in LiveForDedup
  <2>1. bot' = [bot EXCEPT ![e] = c] /\ UNCHANGED store
    BY <1>1, <1>4 DEF ProposeAgain, TypeOK
  <2>2. /\ c \in Bot /\ c.snaps = bot[e].snaps /\ c.fresh = bot[e].fresh
        /\ c.at = "pass"
    BY <1>1 DEF Bot, BotLabels
  <2> HIDE DEF c
  <2>3. bot' \in [Engines -> Bot] /\ BotInv'
    BY <2>1, <2>2, LoopMoves
  <2>4. TypeOK'
    BY <1>1, <2>1, <2>3 DEF TypeOK
  <2> QED
    BY <1>1, <2>1, <2>3, <2>4, OpRests, TxRests, RowRests
<1> QED
  BY <1>3, <1>4

-----------------------------------------------------------------------------
(* The operators' steps.                                                   *)

LEMMA LoadedKeeps ==
  ASSUME Inv, NEW o \in Operators, NEW cmd \in Commands, NEW s \in Subjects,
         NEW env \in Nonces \cup {None},
         cmd \in {"claim", "broadcast"} => (Safe <=> env # None),
         Loaded(o, cmd, s, env)
  PROVE  Inv'
<1> USE DEF Inv
<1>1. /\ UNCHANGED <<custody, store, tx, safeNonce, signed, bot, dropped>>
      /\ crossed' \subseteq Subjects
      /\ store[s].status # "none"
      /\ op' = [op EXCEPT ![o] = [at |-> "write", cmd |-> cmd, subject |-> s,
                                  payload |-> store[s].payload,
                                  env |-> env, hash |-> None]]
  BY DEF Loaded, TypeOK
<1>2. store[s].payload \in Payloads
  BY <1>1 DEF RowInv, RowOk
<1>3. op' \in [Operators -> Op]
  BY <1>1, <1>2 DEF TypeOK, Op, OpLabels
<1>4. OpInv'
  <2> SUFFICES ASSUME NEW x \in Operators PROVE OpOk(x)'
    BY DEF OpInv
  <2>1. CASE x = o
    BY <2>1, <1>1, <1>2 DEF TypeOK, OpOk, Safe
  <2>2. CASE x # o
    BY <2>2, <1>1 DEF TypeOK, OpInv, OpOk, OpCall, CallOf, Safe
  <2> QED
    BY <2>1, <2>2
<1>5. TypeOK'
  BY <1>1, <1>3 DEF TypeOK
<1> QED
  BY <1>1, <1>4, <1>5, TxRests, RowRests, BotRests

\* Only a Safe has something to reserve, and it always has.
LEMMA ReservedOk ==
  ASSUME TypeOK
  PROVE  Reserved \in Nonces \cup {None} /\ (Safe <=> Reserved # None)
<1> QED
  BY ManualAssumption DEF TypeOK, Reserved, Nonces

LEMMA StartKeeps ==
  ASSUME Inv, NEW o \in Operators, NEW s \in Subjects, Start(o, s)
  PROVE  Inv'
<1>1. ASSUME NEW cmd \in {"claim", "broadcast"}, StartClaim(o, cmd, s)
      PROVE  Inv'
  <2>1. cmd \in Commands /\ Loaded(o, cmd, s, Reserved)
    BY <1>1 DEF StartClaim, Commands
  <2>2. Reserved \in Nonces \cup {None} /\ (Safe <=> Reserved # None)
    BY ReservedOk DEF Inv
  <2> QED
    BY <2>1, <2>2, LoadedKeeps
<1>2. CASE StartRelease(o, s)
  <2>1. /\ "release" \in Commands /\ Loaded(o, "release", s, None)
        /\ "release" \notin {"claim", "broadcast"}
    BY <1>2 DEF StartRelease, Commands
  <2> QED
    BY <2>1, LoadedKeeps
<1>3. CASE StartFail(o, s)
  <2>1. /\ "fail" \in Commands /\ Loaded(o, "fail", s, None)
        /\ "fail" \notin {"claim", "broadcast"}
    BY <1>3 DEF StartFail, Commands
  <2> QED
    BY <2>1, LoadedKeeps
<1> QED
  BY <1>1, <1>2, <1>3 DEF Start

\* A command that goes on from its write to its send.
LEMMA OpMoves ==
  ASSUME TypeOK, OpInv, NEW o \in Operators,
         op[o].at # "idle", op[o].cmd = "broadcast", Goto(o, "send"),
         UNCHANGED <<custody, tx>>
  PROVE  op' \in [Operators -> Op] /\ OpInv'
<1>1. op' = [op EXCEPT ![o] = [op[o] EXCEPT !.at = "send"]]
  BY DEF Goto, TypeOK, Op
<1>2. op' \in [Operators -> Op]
  BY <1>1 DEF TypeOK, Op, OpLabels
<1>3. ASSUME NEW x \in Operators PROVE OpOk(x)'
  <2>1. CASE x = o
    BY <2>1, <1>1 DEF TypeOK, Op, OpInv, OpOk, OpCall, CallOf, Safe
  <2>2. CASE x # o
    BY <2>2, <1>1 DEF TypeOK, OpInv, OpOk, OpCall, CallOf, Safe
  <2> QED
    BY <2>1, <2>2
<1> QED
  BY <1>2, <1>3 DEF OpInv

\* The row a claim reserves has an envelope exactly under a Safe.
LEMMA ClaimWriteKeeps ==
  ASSUME Inv, NEW o \in Operators, ClaimWrite(o)
  PROVE  Inv'
<1> USE DEF Inv
<1> DEFINE s == op[o].subject
           r == [store[s] EXCEPT !.status = "claimed", !.env = op[o].env]
<1>1. /\ UNCHANGED <<custody, tx, safeNonce, dropped, crossed>>
      /\ op[o].at = "write"
      /\ op[o].cmd \in {"claim", "broadcast"}
      /\ op[o] \in Op
  BY DEF ClaimWrite, At, TypeOK
<1>2. /\ s \in Subjects
      /\ op[o].payload \in Payloads
      /\ op[o].env \in Nonces \cup {None}
      /\ Safe <=> op[o].env # None
  BY <1>1 DEF OpInv, OpOk, Op
<1>3. /\ OpCall(o) \in Call
      /\ Fits(OpCall(o))
  BY <1>2 DEF OpCall, CallOf, Call, Fits
<1>4. CASE store[s].status = "proposed" /\ store[s].payload = op[o].payload
  <2>1. /\ Write(s, r)
        /\ bot' = Touched({s})
        /\ signed' = IF Safe THEN signed \cup {OpCall(o)} ELSE signed
        /\ IF op[o].cmd = "broadcast" THEN Goto(o, "send") ELSE End(o)
    BY <1>4 DEF ClaimWrite
  <2>2. r \in Row /\ RowOk(s, r)
    BY <1>2, <1>4 DEF TypeOK, Row, Statuses, RowOk
  <2> HIDE DEF r, s
  <2>3. /\ store' \in [Subjects -> Row] /\ RowInv'
        /\ bot' \in [Engines -> Bot] /\ BotInv'
    BY <1>1, <1>2, <2>1, <2>2, WriteTouches
  <2>4. op' \in [Operators -> Op] /\ OpInv'
    BY <1>1, <2>1, OpMoves, OpEnds
  <2>5. signed' \subseteq Call /\ TxInv'
    BY <1>1, <1>3, <2>1 DEF TypeOK, TxInv, Fits, Safe
  <2>6. TypeOK'
    BY <1>1, <2>3, <2>4, <2>5 DEF TypeOK
  <2> QED
    BY <2>3, <2>4, <2>5, <2>6
<1>5. CASE ~(store[s].status = "proposed" /\ store[s].payload = op[o].payload)
  <2>1. End(o) /\ UNCHANGED <<store, bot, signed>>
    BY <1>5 DEF ClaimWrite
  <2>2. op' \in [Operators -> Op] /\ OpInv'
    BY <1>1, <2>1, OpEnds
  <2>3. TypeOK'
    BY <1>1, <2>1, <2>2 DEF TypeOK
  <2> QED
    BY <1>1, <2>1, <2>2, <2>3, TxRests, RowRests, BotRests
<1> QED
  BY <1>4, <1>5

\* What is sent is what was claimed.
LEMMA SendKeeps ==
  ASSUME Inv, NEW o \in Operators, NEW t \in TxIds, Send(o, t)
  PROVE  Inv'
<1> USE DEF Inv
<1>1. /\ UNCHANGED <<custody, store, safeNonce, signed, bot, dropped, crossed>>
      /\ op[o].at = "send"
      /\ op[o] \in Op
      /\ Enter(t, OpCall(o))
      /\ op' = [op EXCEPT ![o] = [op[o] EXCEPT !.at = "mark", !.hash = t]]
  BY DEF Send, At, TypeOK, Op
<1>2. OpCall(o) \in Call /\ Fits(OpCall(o)) /\ op[o].cmd = "broadcast"
  BY <1>1 DEF OpInv, OpOk, Op, OpCall, CallOf, Call, Fits
<1>3. /\ tx' \in [TxIds -> Tx]
      /\ RowInv' /\ TxInv' /\ BotInv'
      /\ \A x \in TxIds : tx[x].state # "new" => tx'[x] = tx[x]
  BY <1>1, <1>2, Enters
<1>4. tx'[t] = [call |-> OpCall(o), state |-> "pool"]
  BY <1>1 DEF Enter, TypeOK
<1>5. op' \in [Operators -> Op]
  BY <1>1 DEF TypeOK, Op, OpLabels
<1>6. ASSUME NEW x \in Operators PROVE OpOk(x)'
  <2>1. CASE x = o
    BY <2>1, <1>1, <1>2, <1>4 DEF TypeOK, Op, OpInv, OpOk, OpCall, CallOf, Safe
  <2>2. CASE x # o
    BY <2>2, <1>1, <1>3 DEF TypeOK, OpInv, OpOk, OpCall, CallOf, Safe
  <2> QED
    BY <2>1, <2>2
<1>7. TypeOK'
  BY <1>1, <1>3, <1>5 DEF TypeOK
<1> QED
  BY <1>3, <1>6, <1>7 DEF OpInv

\* A command's last write: a row in another state, and the command is over.
LEMMA LastWriteKeeps ==
  ASSUME Inv, NEW o \in Operators, NEW s \in Subjects, NEW r \in Row,
         RowOk(s, r), Write(s, r), bot' = Touched({s}), End(o),
         UNCHANGED <<custody, tx, safeNonce, signed, dropped, crossed>>
  PROVE  Inv'
<1> USE DEF Inv
<1>1. /\ store' \in [Subjects -> Row] /\ RowInv'
      /\ bot' \in [Engines -> Bot] /\ BotInv'
  BY WriteTouches
<1>2. op' \in [Operators -> Op] /\ OpInv'
  BY OpEnds
<1>3. TypeOK'
  BY <1>1, <1>2 DEF TypeOK
<1> QED
  BY <1>1, <1>2, <1>3, TxRests

\* A command that ends without a write.
LEMMA EndKeeps ==
  ASSUME Inv, NEW o \in Operators, End(o),
         UNCHANGED <<custody, store, tx, safeNonce, signed, bot, dropped, crossed>>
  PROVE  Inv'
<1> USE DEF Inv
<1>1. op' \in [Operators -> Op] /\ OpInv'
  BY OpEnds
<1>2. TypeOK'
  BY <1>1 DEF TypeOK
<1> QED
  BY <1>1, <1>2, TxRests, RowRests, BotRests

\* The transaction a broadcast reports carries the row's call, unless the row
\* has an envelope, which the chain is asked about.
LEMMA MarkKeeps ==
  ASSUME Inv, NEW o \in Operators, Mark(o)
  PROVE  Inv'
<1> USE DEF Inv
<1> DEFINE s == op[o].subject
           r == [store[s] EXCEPT !.status = "submitted", !.hash = op[o].hash]
<1>1. /\ UNCHANGED <<custody, tx, safeNonce, signed, dropped, crossed>>
      /\ End(o) /\ op[o].at = "mark"
  BY DEF Mark, At
<1>2. /\ s \in Subjects
      /\ op[o].hash \in TxIds
      /\ tx[op[o].hash].state # "new"
      /\ tx[op[o].hash].call = CallOf(s, op[o].payload, op[o].env)
      /\ Safe <=> op[o].env # None
  BY <1>1 DEF OpInv, OpOk, OpCall
<1>3. CASE Markable(s, op[o].payload)
  <2>1. Write(s, r) /\ bot' = Touched({s})
    BY <1>3 DEF Mark
  <2>2. r \in Row /\ RowOk(s, r)
    <3>1. store[s] \in Row /\ RowOk(s, store[s])
      BY <1>2 DEF TypeOK, RowInv
    <3> QED
      BY <3>1, <1>2, <1>3 DEF Markable, Row, Statuses, RowOk, Reported
  <2> HIDE DEF r, s
  <2> QED
    BY <1>1, <1>2, <2>1, <2>2, LastWriteKeeps
<1>4. CASE ~Markable(s, op[o].payload)
  BY <1>1, <1>4, EndKeeps DEF Mark
<1> QED
  BY <1>3, <1>4

\* So does the transaction a person reports.
LEMMA ConfirmKeeps ==
  ASSUME Inv, NEW s \in Subjects, NEW t \in TxIds, Confirm(s, t)
  PROVE  Inv'
<1> USE DEF Inv
<1> DEFINE r == [store[s] EXCEPT !.status = "submitted", !.hash = t]
<1>1. /\ UNCHANGED <<custody, tx, safeNonce, signed, op, dropped, crossed>>
      /\ Write(s, r) /\ bot' = Touched({s})
      /\ tx[t].state # "new" /\ tx[t].call.subject = s
      /\ Markable(s, tx[t].call.payload)
      /\ Safe => store[s].env # None
  BY DEF Confirm
<1>2. Fits(tx[t].call) /\ store[s] \in Row /\ RowOk(s, store[s])
  BY <1>1 DEF TxInv, TypeOK, RowInv
<1>3. store[s].env = None =>
         tx[t].call = CallOf(s, tx[t].call.payload, store[s].env)
  BY <1>1, <1>2 DEF Fits, Call, CallOf
<1>4. r \in Row /\ RowOk(s, r)
  BY <1>1, <1>2, <1>3 DEF Markable, Row, Statuses, RowOk, Reported
<1> HIDE DEF r
<1>5. /\ store' \in [Subjects -> Row] /\ RowInv'
      /\ bot' \in [Engines -> Bot] /\ BotInv'
  BY <1>1, <1>4, WriteTouches
<1>6. TypeOK'
  BY <1>1, <1>5 DEF TypeOK
<1> QED
  BY <1>1, <1>5, <1>6, OpRests, TxRests

LEMMA ReleaseWriteKeeps ==
  ASSUME Inv, NEW o \in Operators, ReleaseWrite(o)
  PROVE  Inv'
<1> USE DEF Inv
<1> DEFINE s == op[o].subject
           r == [store[s] EXCEPT !.status = "proposed"]
<1>1. /\ UNCHANGED <<custody, tx, safeNonce, signed, dropped, crossed>>
      /\ End(o) /\ op[o].at = "write"
  BY DEF ReleaseWrite, At
<1>2. s \in Subjects
  BY <1>1 DEF OpInv, OpOk
<1>3. CASE store[s].status = "claimed" /\ store[s].payload = op[o].payload
  <2>1. Write(s, r) /\ bot' = Touched({s})
    BY <1>3 DEF ReleaseWrite
  <2>2. r \in Row /\ RowOk(s, r)
    BY <1>2, <1>3, StatusOk
  <2> HIDE DEF r, s
  <2> QED
    BY <1>1, <1>2, <2>1, <2>2, LastWriteKeeps
<1>4. CASE ~(store[s].status = "claimed" /\ store[s].payload = op[o].payload)
  BY <1>1, <1>4, EndKeeps DEF ReleaseWrite
<1> QED
  BY <1>3, <1>4

LEMMA FailWriteKeeps ==
  ASSUME Inv, NEW o \in Operators, FailWrite(o)
  PROVE  Inv'
<1> USE DEF Inv
<1> DEFINE s == op[o].subject
           r == [store[s] EXCEPT !.status = "failed"]
<1>1. /\ UNCHANGED <<custody, tx, safeNonce, signed, dropped, crossed>>
      /\ End(o) /\ op[o].at = "write"
  BY DEF FailWrite, At
<1>2. s \in Subjects
  BY <1>1 DEF OpInv, OpOk
<1>3. CASE store[s].status \in LiveForDedup
  <2>1. Write(s, r) /\ bot' = Touched({s})
    BY <1>3 DEF FailWrite
  <2>2. r \in Row /\ RowOk(s, r)
    BY <1>2, <1>3, StatusOk DEF LiveForDedup
  <2> HIDE DEF r, s
  <2> QED
    BY <1>1, <1>2, <2>1, <2>2, LastWriteKeeps
<1>4. CASE store[s].status \notin LiveForDedup
  BY <1>1, <1>4, EndKeeps DEF FailWrite
<1> QED
  BY <1>3, <1>4

-----------------------------------------------------------------------------
(* The invariant.                                                          *)

\* Every step keeps the invariant.
LEMMA InvNext == Inv /\ [Next]_vars => Inv'
<1> SUFFICES ASSUME Inv, [Next]_vars PROVE Inv'
  OBVIOUS
<1>1. CASE Chain
  BY <1>1, SignKeeps, MineKeeps, SpendKeeps DEF Chain
<1>2. ASSUME NEW e \in Engines, Cycle(e) PROVE Inv'
  BY <1>2, SweepKeeps, ReadKeeps, CycleDoneKeeps, SupersedeKeeps,
     ProposeAgainKeeps, ResolveKeeps
     DEF Cycle
<1>3. ASSUME NEW o \in Operators, Proceed(o) \/ Crash(o) PROVE Inv'
  <2>1. CASE Crash(o)
    BY <2>1, EndKeeps DEF Crash
  <2>2. CASE Proceed(o)
    BY <2>2, ClaimWriteKeeps, ReleaseWriteKeeps, FailWriteKeeps, MarkKeeps,
       SendKeeps
       DEF Proceed
  <2> QED
    BY <1>3, <2>1, <2>2
<1>4. CASE UNCHANGED vars
  BY <1>4, OpRests, TxRests, RowRests, BotRests DEF Inv, TypeOK, vars
<1> QED
  BY <1>1, <1>2, <1>3, <1>4, ScanFailsKeeps, ProposeKeeps, StartKeeps,
     ConfirmKeeps
     DEF Next

(* The inductive invariant holds in every reachable state.                 *)
THEOREM InvHolds == Spec => []Inv
<1> QED
  BY InvInit, InvNext, PTL DEF Spec

(* The store, the operators' processes and the passes keep their types,    *)
(* for any number of rows, operators, loops and transactions.              *)
THEOREM TypeCorrect == Spec => []TypeOK
<1>1. Inv => TypeOK
  BY DEF Inv
<1> QED
  BY <1>1, InvHolds, PTL

(* A confirmed row names a transaction that did what the row proposed,     *)
(* whoever sent it, whenever a pass looked and whatever the operators did  *)
(* to the row meanwhile (resolveSafeIntent, resolveBroadcastIntent, the    *)
(* asRead condition of reconcile).                                         *)
THEOREM ConfirmedIsExecuted == Spec => []ConfirmedMeansExecuted
<1>1. Inv => ConfirmedMeansExecuted
  <2> SUFFICES ASSUME Inv, NEW s \in Subjects, store[s].status = "confirmed"
               PROVE  /\ store[s].hash # None
                      /\ tx[store[s].hash].state = "success"
                      /\ tx[store[s].hash].call = RowCall(s)
    BY DEF ConfirmedMeansExecuted
  <2>1. RowOk(s, store[s])
    BY DEF Inv, RowInv
  <2> QED
    BY <2>1, ManualAssumption DEF RowOk, RowCall
<1> QED
  BY <1>1, InvHolds, PTL

-----------------------------------------------------------------------------
(* ManualCustody implements ProposalLifecycle: whoever writes a row, and   *)
(* however the bot's passes and the operators' commands interleave, each   *)
(* write is one step of the lifecycle, and everything between two writes   *)
(* is a stutter.  Each write is guarded by the row it finds, not by the    *)
(* row its author had read, which is why this holds for stale commands     *)
(* too.  Two facts come from Inv: a pass writes only over the row it read, *)
(* and a claim never drops an envelope, as only a Safe reserves and a Safe *)
(* always reserves.                                                        *)

\* What a write of a row means to the lifecycle.
LEMMA WriteMaps ==
  ASSUME TypeOK, NEW s \in Subjects, NEW r, Write(s, r)
  PROVE  /\ phases' = [phases EXCEPT ![s] = PhaseOf(r.status)]
         /\ terms' = [terms EXCEPT ![s] = r.payload]
         /\ bound' = [bound EXCEPT ![s] = (r.env # None)]
<1>1. /\ \A x \in Subjects : x # s => store'[x] = store[x]
      /\ store'[s] = r
  BY DEF TypeOK, Write
<1>2. phases' = [phases EXCEPT ![s] = PhaseOf(r.status)]
  BY <1>1 DEF phases
<1>3. terms' = [terms EXCEPT ![s] = r.payload]
  BY <1>1 DEF terms
<1>4. bound' = [bound EXCEPT ![s] = (r.env # None)]
  BY <1>1 DEF bound
<1> QED
  BY <1>2, <1>3, <1>4

\* A write that moves the row's status and leaves its call alone.
LEMMA StatusMaps ==
  ASSUME TypeOK, NEW s \in Subjects, NEW r, Write(s, r),
         r.payload = store[s].payload, r.env = store[s].env
  PROVE  /\ phases' = [phases EXCEPT ![s] = PhaseOf(r.status)]
         /\ UNCHANGED <<terms, bound>>
<1>1. \A x \in Subjects : /\ store'[x].payload = store[x].payload
                         /\ store'[x].env = store[x].env
  BY DEF TypeOK, Write
<1>2. terms' = terms /\ bound' = bound
  BY <1>1 DEF terms, bound
<1> QED
  BY <1>2, WriteMaps

\* Where a row stands.
LEMMA PhaseIs ==
  ASSUME NEW s \in Subjects
  PROVE  /\ phases[s] = PhaseOf(store[s].status)
         /\ bound[s] = (store[s].env # None)
<1> QED
  BY DEF phases, bound

\* Nothing written, nothing happened.
LEMMA NoWrite ==
  ASSUME UNCHANGED store
  PROVE  UNCHANGED <<phases, terms, bound>>
<1> QED
  BY DEF phases, terms, bound

-----------------------------------------------------------------------------
(* One lemma for each step of the lifecycle.                               *)

LEMMA OffersMap ==
  ASSUME TypeOK, NEW s \in Subjects, NEW p \in Payloads,
         store[s].status \notin LiveForDedup, Write(s, Recorded(p))
  PROVE  Lifecycle!Offer(s)
<1>1. phases[s] \in {"none", "settled"}
  BY PhaseIs DEF PhaseOf, LiveForDedup
<1>2. /\ phases' = [phases EXCEPT ![s] = "offered"]
      /\ terms' = [terms EXCEPT ![s] = p]
      /\ bound' = [bound EXCEPT ![s] = FALSE]
  <2>1. /\ Recorded(p).status = "proposed"
        /\ Recorded(p).payload = p
        /\ Recorded(p).env = None
    BY DEF Recorded
  <2> DEFINE r == Recorded(p)
  <2>2. PhaseOf(r.status) = "offered"
    BY <2>1 DEF PhaseOf
  <2>3. Write(s, r) /\ r.payload = p /\ r.env = None
    BY <2>1
  <2> HIDE DEF r
  <2>4. bound' = [bound EXCEPT ![s] = FALSE]
    BY <2>3 DEF bound, Write, TypeOK
  <2>5. /\ phases' = [phases EXCEPT ![s] = PhaseOf(r.status)]
        /\ terms' = [terms EXCEPT ![s] = r.payload]
    BY <2>3, WriteMaps
  <2> QED
    BY <2>2, <2>3, <2>4, <2>5
<1> QED
  BY <1>1, <1>2 DEF Lifecycle!Offer

LEMMA SettlesMap ==
  ASSUME TypeOK, NEW s \in Subjects, NEW r, Write(s, r),
         store[s].status \in LiveForDedup,
         r.status \in {"confirmed", "failed"},
         r.payload = store[s].payload, r.env = store[s].env
  PROVE  Lifecycle!Settle(s)
<1>1. phases[s] \in {"offered", "reserved", "reported"}
  BY PhaseIs DEF PhaseOf, LiveForDedup
<1>2. PhaseOf(r.status) = "settled"
  BY DEF PhaseOf
<1> QED
  BY <1>1, <1>2, StatusMaps DEF Lifecycle!Settle

LEMMA WithdrawsMap ==
  ASSUME TypeOK, NEW s \in Subjects, Retirable(s),
         Write(s, [store[s] EXCEPT !.status = "superseded"])
  PROVE  Lifecycle!Withdraw(s)
<1> DEFINE r == [store[s] EXCEPT !.status = "superseded"]
<1>1. /\ r.status = "superseded"
      /\ r.payload = store[s].payload /\ r.env = store[s].env
  BY DEF TypeOK, Row
<1>2. phases[s] = "offered" /\ ~bound[s]
  BY PhaseIs DEF PhaseOf, Retirable
<1> HIDE DEF r
<1>3. phases' = [phases EXCEPT ![s] = "settled"] /\ UNCHANGED <<terms, bound>>
  BY <1>1, StatusMaps DEF PhaseOf, r
<1> QED
  BY <1>2, <1>3 DEF Lifecycle!Withdraw, Lifecycle!Move

LEMMA ExpiryMaps ==
  ASSUME TypeOK, NEW old \in SUBSET {s \in Subjects : Retirable(s)},
         store' = [s \in Subjects |-> IF s \in old
                                      THEN [store[s] EXCEPT !.status = "expired"]
                                      ELSE store[s]]
  PROVE  Lifecycle!WithdrawAll
<1>1. \A s \in old : phases[s] = "offered" /\ ~bound[s]
  BY PhaseIs DEF PhaseOf, Retirable
<1>2. \A s \in Subjects :
         /\ store'[s].payload = store[s].payload
         /\ store'[s].env = store[s].env
         /\ store'[s].status = IF s \in old THEN "expired" ELSE store[s].status
  BY DEF TypeOK, Row
<1>3. phases' = [s \in Subjects |-> IF s \in old THEN "settled" ELSE phases[s]]
  BY <1>2 DEF phases, PhaseOf
<1>4. UNCHANGED <<terms, bound>>
  BY <1>2 DEF terms, bound
<1>5. old \in SUBSET Subjects
  OBVIOUS
<1> QED
  BY <1>1, <1>3, <1>4, <1>5 DEF Lifecycle!WithdrawAll

\* A claim: an envelope on record is replaced by another one, never dropped.
LEMMA ReservesMap ==
  ASSUME Inv, NEW o \in Operators, ClaimWrite(o)
  PROVE  Lifecycle!Reserve(op[o].subject) \/ UNCHANGED store
<1> USE DEF Inv
<1> DEFINE s == op[o].subject
           r == [store[s] EXCEPT !.status = "claimed", !.env = op[o].env]
<1>1. CASE store[s].status = "proposed" /\ store[s].payload = op[o].payload
  <2>1. Write(s, r) /\ s \in Subjects
    BY <1>1 DEF ClaimWrite, OpInv, OpOk, At
  <2>2. /\ r.status = "claimed" /\ r.payload = store[s].payload
        /\ r.env = op[o].env
    BY <2>1 DEF TypeOK, Row
  <2>3. store[s].env # None => op[o].env # None
    <3>1. RowOk(s, store[s]) /\ (Safe <=> op[o].env # None)
      BY <2>1 DEF ClaimWrite, At, RowInv, OpInv, OpOk
    <3> QED
      BY <3>1 DEF RowOk
  <2> HIDE DEF r
  <2>4. /\ phases' = [phases EXCEPT ![s] = "reserved"]
        /\ terms' = terms
        /\ bound' = [bound EXCEPT ![s] = (r.env # None)]
    BY <2>1, <2>2, WriteMaps DEF PhaseOf, terms
  <2>5. phases[s] = "offered" /\ (bound[s] => r.env # None)
    BY <1>1, <2>1, <2>2, <2>3, PhaseIs DEF PhaseOf
  <2> QED
    BY <2>4, <2>5 DEF Lifecycle!Reserve, Lifecycle!Move
<1>2. CASE ~(store[s].status = "proposed" /\ store[s].payload = op[o].payload)
  BY <1>2 DEF ClaimWrite
<1> QED
  BY <1>1, <1>2

LEMMA ReportsMap ==
  ASSUME TypeOK, NEW s \in Subjects, NEW p, NEW t, Markable(s, p),
         Write(s, [store[s] EXCEPT !.status = "submitted", !.hash = t])
  PROVE  Lifecycle!Report(s)
<1> DEFINE r == [store[s] EXCEPT !.status = "submitted", !.hash = t]
<1>1. /\ r.status = "submitted"
      /\ r.payload = store[s].payload /\ r.env = store[s].env
  BY DEF TypeOK, Row
<1>2. phases[s] = "reserved"
  BY PhaseIs DEF PhaseOf, Markable
<1> HIDE DEF r
<1>3. phases' = [phases EXCEPT ![s] = "reported"] /\ UNCHANGED <<terms, bound>>
  BY <1>1, StatusMaps DEF PhaseOf, r
<1> QED
  BY <1>2, <1>3 DEF Lifecycle!Report, Lifecycle!Move

LEMMA ReturnsMap ==
  ASSUME TypeOK, NEW s \in Subjects, store[s].status = "claimed",
         Write(s, [store[s] EXCEPT !.status = "proposed"])
  PROVE  Lifecycle!Return(s)
<1> DEFINE r == [store[s] EXCEPT !.status = "proposed"]
<1>1. /\ r.status = "proposed"
      /\ r.payload = store[s].payload /\ r.env = store[s].env
  BY DEF TypeOK, Row
<1>2. phases[s] = "reserved"
  BY PhaseIs DEF PhaseOf
<1> HIDE DEF r
<1>3. phases' = [phases EXCEPT ![s] = "offered"] /\ UNCHANGED <<terms, bound>>
  BY <1>1, StatusMaps DEF PhaseOf, r
<1> QED
  BY <1>2, <1>3 DEF Lifecycle!Return, Lifecycle!Move

-----------------------------------------------------------------------------
(* Every step of the code is a step of the lifecycle or a stutter.         *)

\* A verdict settles the row that was reported, with its call.
LEMMA ResolveMaps ==
  ASSUME Inv, NEW e \in Engines, NEW s \in Subjects, Resolve(e, s)
  PROVE  Lifecycle!Settle(s) \/ UNCHANGED store
<1> USE DEF Inv
<1> DEFINE r == bot[e].snaps[s]
           c == CallOf(s, r.payload, r.env)
<1>1. /\ r \in Row /\ r.status = "submitted" /\ r.hash \in TxIds
      /\ s \in bot[e].fresh => store[s] = r
  BY DEF Resolve, TypeOK, Bot, BotInv, BotOk, ReadOk
<1>2. PICK v \in IF r.env # None THEN SafeVerdicts(c, r.hash)
                                 ELSE PlainVerdicts(r.hash) :
        IF v # Stay /\ AsRead(e, s)
        THEN Write(s, [store[s] EXCEPT !.status = v.status, !.hash = v.hash])
        ELSE UNCHANGED store
  BY DEF Resolve
<1>3. CASE v # Stay /\ AsRead(e, s)
  <2> DEFINE w == [store[s] EXCEPT !.status = v.status, !.hash = v.hash]
  <2>1. Write(s, w) /\ store[s] = r
    BY <1>1, <1>2, <1>3 DEF AsRead
  <2>2. v.status \in {"confirmed", "failed"}
    BY <1>1, <1>3, VerdictsFit
  <2>3. /\ w.status = v.status
        /\ w.payload = store[s].payload /\ w.env = store[s].env
    BY <1>1, <2>1 DEF Row
  <2>4. store[s].status \in LiveForDedup
    BY <1>1, <2>1 DEF LiveForDedup
  <2> HIDE DEF w
  <2> QED
    BY <2>1, <2>2, <2>3, <2>4, SettlesMap
<1>4. CASE ~(v # Stay /\ AsRead(e, s))
  BY <1>2, <1>4
<1> QED
  BY <1>3, <1>4

LEMMA CycleMaps ==
  ASSUME Inv, NEW e \in Engines, Cycle(e)
  PROVE  Lifecycle!Next \/ UNCHANGED store
<1> USE DEF Inv
<1>1. CASE Sweep(e)
  BY <1>1, ExpiryMaps DEF Sweep, Lifecycle!Next
<1>2. CASE Read(e) \/ CycleDone(e)
  BY <1>2 DEF Read, CycleDone
<1>3. CASE Supersede(e)
  <2>1. bot[e].subject \in Subjects
    BY <1>3 DEF Supersede, BotInv, BotOk
  <2> QED
    BY <1>3, <2>1, WithdrawsMap DEF Supersede, Lifecycle!Next
<1>4. CASE ProposeAgain(e)
  <2>1. bot[e].subject \in Subjects /\ bot[e].want \in Payloads
    BY <1>4 DEF ProposeAgain, BotInv, BotOk
  <2> QED
    BY <1>4, <2>1, OffersMap DEF ProposeAgain, Lifecycle!Next
<1>5. ASSUME NEW s \in Subjects, Resolve(e, s)
      PROVE  Lifecycle!Next \/ UNCHANGED store
  BY <1>5, ResolveMaps DEF Lifecycle!Next
<1> QED
  BY <1>1, <1>2, <1>3, <1>4, <1>5 DEF Cycle

LEMMA ProceedMaps ==
  ASSUME Inv, NEW o \in Operators, Proceed(o)
  PROVE  Lifecycle!Next \/ UNCHANGED store
<1> USE DEF Inv
<1> DEFINE s == op[o].subject
<1>1. op[o].at # "idle" => s \in Subjects
  BY DEF OpInv, OpOk
<1>2. CASE ClaimWrite(o)
  BY <1>1, <1>2, ReservesMap DEF ClaimWrite, At, Lifecycle!Next
<1>3. CASE ReleaseWrite(o)
  <2>1. s \in Subjects
    BY <1>1, <1>3 DEF ReleaseWrite, At
  <2> QED
    BY <1>3, <2>1, ReturnsMap DEF ReleaseWrite, Lifecycle!Next
<1>4. CASE FailWrite(o)
  <2>1. s \in Subjects
    BY <1>1, <1>4 DEF FailWrite, At
  <2>2. CASE store[s].status \in LiveForDedup
    <3> DEFINE r == [store[s] EXCEPT !.status = "failed"]
    <3>1. Write(s, r)
      BY <1>4, <2>2 DEF FailWrite
    <3>2. /\ r.status = "failed"
          /\ r.payload = store[s].payload /\ r.env = store[s].env
      BY <2>1 DEF TypeOK, Row
    <3> HIDE DEF r
    <3> QED
      BY <2>1, <2>2, <3>1, <3>2, SettlesMap DEF Lifecycle!Next
  <2> QED
    BY <1>4, <2>2 DEF FailWrite
<1>5. CASE Mark(o)
  <2>1. s \in Subjects
    BY <1>1, <1>5 DEF Mark, At
  <2> QED
    BY <1>5, <2>1, ReportsMap DEF Mark, Lifecycle!Next
<1>6. ASSUME NEW t \in TxIds, Send(o, t)
      PROVE  UNCHANGED store
  BY <1>6 DEF Send
<1> QED
  BY <1>2, <1>3, <1>4, <1>5, <1>6 DEF Proceed

LEMMA NextMaps ==
  ASSUME Inv, [Next]_vars
  PROVE  [Lifecycle!Next]_(Lifecycle!vars)
<1> SUFFICES Lifecycle!Next \/ UNCHANGED store
  BY NoWrite DEF Lifecycle!vars
<1> USE DEF Inv
<1>1. CASE Chain
  BY <1>1 DEF Chain, SignExternally, Mine, SpendNonce
<1>2. ASSUME NEW e \in Engines, NEW s \in Subjects, ScanFails(e, s)
      PROVE  UNCHANGED store
  BY <1>2 DEF ScanFails
<1>3. ASSUME NEW e \in Engines, NEW s \in Subjects, NEW p \in Payloads,
             Propose(e, s, p)
      PROVE  Lifecycle!Next \/ UNCHANGED store
  BY <1>3, OffersMap DEF Propose, Lifecycle!Next
<1>4. ASSUME NEW o \in Operators, NEW s \in Subjects, Start(o, s) \/ Crash(o)
      PROVE  UNCHANGED store
  BY <1>4 DEF Start, StartClaim, StartRelease, StartFail, Loaded, Crash
<1>5. ASSUME NEW s \in Subjects, NEW t \in TxIds, Confirm(s, t)
      PROVE  Lifecycle!Next \/ UNCHANGED store
  BY <1>5, ReportsMap DEF Confirm, Lifecycle!Next
<1>6. ASSUME NEW o \in Operators, Crash(o) PROVE UNCHANGED store
  BY <1>6 DEF Crash
<1>7. CASE UNCHANGED vars
  BY <1>7 DEF vars
<1> QED
  BY <1>1, <1>2, <1>3, <1>4, <1>5, <1>6, <1>7, CycleMaps, ProceedMaps DEF Next

LEMMA InitMaps == Init => Lifecycle!Init
<1> SUFFICES ASSUME Init PROVE Lifecycle!Init
  OBVIOUS
<1>1. \A s \in Subjects : /\ store[s].status = "none"
                         /\ store[s].payload = None
                         /\ store[s].env = None
  BY DEF Init, NoRow
<1>2. phases = [s \in Subjects |-> "none"]
  BY <1>1 DEF phases, PhaseOf
<1>3. terms = [s \in Subjects |-> None] /\ bound = [s \in Subjects |-> FALSE]
  BY <1>1 DEF terms, bound
<1> QED
  BY <1>2, <1>3 DEF Lifecycle!Init

(* Whichever of the bot and the operators writes, the store keeps the      *)
(* lifecycle it promises the person who signs: reserved terms do not       *)
(* change, a signable reservation is not withdrawn for fresher terms, and  *)
(* only a reserved proposal is reported (postgres.ts, memory.ts).          *)
THEOREM CustodyImplementsLifecycle == Spec => ImplementsLifecycle
<1>1. Inv /\ [Next]_vars => [Lifecycle!Next]_(Lifecycle!vars)
  BY NextMaps
<1> QED
  BY <1>1, InitMaps, InvHolds, PTL DEF Spec, ImplementsLifecycle, Lifecycle!Spec

-----------------------------------------------------------------------------
(* What becomes of a reservation.  A Safe nonce is spent once, and only    *)
(* while it is the Safe's own; so a SafeTx that is behind has had its      *)
(* chance.  What a command checked still holds when it writes, unless      *)
(* another command on the row was under way.                               *)

Ran(t) == tx[t].state \in {"success", "failure"}
Reached(n) == n # None => n <= safeNonce
Past(n) == n # None => n < safeNonce

NonceInv ==
    /\ \A c \in signed : Safe /\ c.nonce # None /\ Reached(c.nonce)
    /\ \A t \in TxIds : Ran(t) => Past(tx[t].call.nonce)
    /\ \A t, u \in TxIds : /\ Ran(t) /\ Ran(u)
                           /\ tx[t].call.nonce # None
                           /\ tx[t].call.nonce = tx[u].call.nonce
                           => t = u
    /\ \A s \in Subjects : Reached(store[s].env)
    /\ \A o \in Operators : Reached(op[o].env)

\* Two commands on one row are on record as such.
AloneInv == \A o, x \in Operators :
    o # x /\ op[o].subject # None /\ op[o].subject = op[x].subject =>
        op[o].subject \in crossed

\* The SafeTx a row reserves is dead.
DeadReserve(s) == store[s].env # None => Past(store[s].env) /\ ~Executed(RowCall(s))

\* What a command has checked and its write relies on.
Checked(o) == LET s == op[o].subject
              IN  /\ op[o].cmd \in {"claim", "broadcast"} /\ store[s].env # None =>
                        store[s].env <= op[o].env
                  /\ op[o].cmd = "fail" => DeadReserve(s)
CheckedInv == \A o \in Operators :
    op[o].at = "write" /\ op[o].subject \notin crossed => Checked(o)

\* The ways a row that reserved a SafeTx ends as failed.
Misreported(s) == /\ store[s].hash # None
                  /\ tx[store[s].hash].state # "new"
                  /\ tx[store[s].hash].call # RowCall(s)
Fruitless(s) == Past(store[s].env) /\ InState(RowCall(s), {"success"}) = {}
FailedOk(s) == store[s].status = "failed" /\ store[s].env # None =>
                  \/ s \in crossed
                  \/ RowCall(s) \in dropped
                  \/ Misreported(s)
                  \/ Fruitless(s)
FailedInv == \A s \in Subjects : FailedOk(s)

ResInv == NonceInv /\ AloneInv /\ CheckedInv /\ FailedInv /\ ReservationRemembered

\* A command under way goes on, is over, or is one that starts now.
Onward(o) == \/ op'[o] = op[o]
             \/ /\ op'[o].at # "write"
                /\ op'[o].subject \in {None, op[o].subject}
                /\ op'[o].env \in {None, op[o].env}
Onwards == \A o \in Operators : Onward(o)

\* A step goes on with one command at most.
LEMMA Onwards1 ==
  ASSUME TypeOK, NEW o \in Operators,
         \/ UNCHANGED op
         \/ End(o)
         \/ op[o].at # "idle" /\ \E a \in {"send", "mark"} : Goto(o, a)
         \/ \E t : op' = [op EXCEPT ![o].at = "mark", ![o].hash = t]
  PROVE  Onwards
<1> SUFFICES ASSUME NEW x \in Operators PROVE Onward(x)
  BY DEF Onwards
<1>1. op \in [Operators -> Op]
  BY DEF TypeOK
<1>2. CASE x # o
  BY <1>1, <1>2 DEF Onward, End, Goto
<1>3. CASE x = o
  BY <1>1, <1>3 DEF Onward, End, Goto, Idle, Op
<1> QED
  BY <1>2, <1>3

-----------------------------------------------------------------------------
(* The chain.                                                              *)

\* What a step may do to the chain.
ChainMoves ==
    /\ safeNonce' \in {safeNonce, safeNonce + 1}
    /\ \A t \in TxIds :
          /\ tx[t].state # "new" => tx'[t].call = tx[t].call /\ tx'[t].state # "new"
          /\ Ran(t) => tx'[t] = tx[t]
          /\ ~Ran(t) /\ Ran(t)' => \/ tx'[t].call.nonce = None
                                   \/ /\ tx'[t].call.nonce = safeNonce
                                      /\ safeNonce' = safeNonce + 1
    /\ \A t, u \in TxIds : Ran(t)' /\ Ran(u)' => Ran(t) \/ Ran(u) \/ t = u

\* A transaction is broadcast.
LEMMA EnterMoves ==
  ASSUME Inv, NEW t \in TxIds, NEW c, Enter(t, c), UNCHANGED safeNonce
  PROVE  ChainMoves
<1>1. /\ tx[t].state = "new" /\ tx \in [TxIds -> Tx]
      /\ tx' = [tx EXCEPT ![t] = [call |-> c, state |-> "pool"]]
  BY DEF Enter, Inv, TypeOK
<1>2. \A u \in TxIds : u # t => tx'[u] = tx[u]
  BY <1>1
<1>3. tx'[t].state = "pool"
  BY <1>1
<1>4. \A u \in TxIds : Ran(u)' => Ran(u) /\ u # t
  BY <1>2, <1>3 DEF Ran
<1> QED
  BY <1>1, <1>2, <1>3, <1>4 DEF ChainMoves, Ran

\* A transaction is mined: its nonce is spent, or nothing has run.
LEMMA MineMoves ==
  ASSUME Inv, NEW t \in TxIds, Mine(t)
  PROVE  ChainMoves
<1>1. /\ tx[t].state = "pool" /\ tx \in [TxIds -> Tx]
      /\ safeNonce' \in {safeNonce, safeNonce + 1}
      /\ \E outcome \in {"success", "failure", "reverted"} : Mined(t, outcome)
  BY DEF Mine, Inv, TypeOK
<1>2. /\ \A u \in TxIds : tx'[u].call = tx[u].call /\ (u # t => tx'[u] = tx[u])
      /\ tx'[t].state # "new"
  BY <1>1 DEF Mined, Tx
<1>3. ASSUME Ran(t)'
      PROVE  \/ tx[t].call.nonce = None
             \/ tx[t].call.nonce = safeNonce /\ safeNonce' = safeNonce + 1
  <2>1. ~Mined(t, "reverted")
    BY <1>1, <1>3 DEF Ran, Mined, Tx
  <2> QED
    BY <2>1 DEF Mine
<1> QED
  BY <1>1, <1>2, <1>3 DEF ChainMoves, Ran

\* The owners spend the nonce on something else.
LEMMA SpendMoves ==
  ASSUME SpendNonce
  PROVE  ChainMoves
<1> QED
  BY DEF SpendNonce, ChainMoves, Ran

\* What the chain can no longer do to a call that is behind.
LEMMA PastIsPast ==
  ASSUME Inv, NonceInv, ChainMoves, NEW c, c.nonce # None, c.nonce \in Nat, Past(c.nonce)
  PROVE  /\ Past(c.nonce)'
         /\ Executed(c)' => Executed(c)
         /\ InState(c, {"success"}) = {} => InState(c, {"success"})' = {}
<1>1. safeNonce \in Nat /\ safeNonce' \in Nat
  BY ManualAssumption DEF Inv, TypeOK, Nonces, ChainMoves
<1>2. ASSUME NEW t \in TxIds, Ran(t)', tx'[t].call = c
      PROVE  Ran(t) /\ tx'[t] = tx[t]
  BY <1>1, <1>2 DEF ChainMoves, Past
<1>3. Past(c.nonce)'
  BY <1>1 DEF ChainMoves, Past
<1>4. Executed(c)' => Executed(c)
  BY <1>2 DEF Executed, InState, Ran
<1>5. InState(c, {"success"}) = {} => InState(c, {"success"})' = {}
  BY <1>2 DEF InState, Ran
<1> QED
  BY <1>3, <1>4, <1>5

\* What has executed has executed.
LEMMA ExecutedStays ==
  ASSUME ChainMoves, NEW c, Executed(c)
  PROVE  Executed(c)'
<1> QED
  BY DEF ChainMoves, Executed, InState, Ran

\* The chain moves on, and no row is written.
LEMMA ChainKeepsReservations ==
  ASSUME Inv, ResInv, ChainMoves, Onwards,
         UNCHANGED <<custody, store, signed, dropped, crossed>>
  PROVE  ResInv'
<1>1. /\ safeNonce \in Nat /\ safeNonce' \in Nat /\ safeNonce <= safeNonce'
      /\ store \in [Subjects -> Row] /\ op \in [Operators -> Op]
      /\ signed \subseteq Call /\ tx \in [TxIds -> Tx]
  BY ManualAssumption DEF Inv, TypeOK, Nonces, ChainMoves
<1>2. \A n : n \in Nonces \cup {None} /\ Reached(n) => Reached(n)'
  BY <1>1, ManualAssumption DEF Reached, Nonces
<1>3. NonceInv'
  <2>1. \A c \in signed' : Safe' /\ c.nonce # None /\ Reached(c.nonce)'
    BY <1>1, <1>2 DEF ResInv, NonceInv, Safe, Call
  <2>2. ASSUME NEW t \in TxIds, Ran(t)' PROVE Past(tx[t].call.nonce)'
    <3>1. CASE Ran(t)
      <4>1. tx[t].call \in Call /\ tx'[t] = tx[t] /\ Past(tx[t].call.nonce)
        BY <3>1 DEF Inv, TxInv, Fits, Ran, ResInv, NonceInv, ChainMoves
      <4> QED
        BY <1>1, <4>1, ManualAssumption DEF Past, Call, Nonces
    <3>2. CASE ~Ran(t)
      BY <1>1, <2>2, <3>2 DEF ChainMoves, Past
    <3> QED
      BY <3>1, <3>2
  <2>3. ASSUME NEW t \in TxIds, NEW u \in TxIds, Ran(t)', Ran(u)', Ran(t), t # u,
               tx'[t].call.nonce # None, tx'[t].call.nonce = tx'[u].call.nonce
        PROVE  FALSE
    <3>1. tx'[t] = tx[t] /\ Past(tx[t].call.nonce)
      BY <2>3 DEF ResInv, NonceInv, ChainMoves
    <3>2. CASE Ran(u)
      BY <2>3, <3>1, <3>2 DEF ResInv, NonceInv, ChainMoves
    <3>3. CASE ~Ran(u)
      BY <1>1, <2>3, <3>1, <3>3 DEF ChainMoves, Past
    <3> QED
      BY <3>2, <3>3
  <2>4. \A s \in Subjects : Reached(store[s].env)'
    BY <1>1, <1>2 DEF ResInv, NonceInv, Row
  <2>5. \A o \in Operators : Reached(op[o].env)'
    <3> SUFFICES ASSUME NEW o \in Operators, op'[o].env # None
                 PROVE  op'[o].env <= safeNonce'
      BY DEF Reached
    <3>1. op'[o].env = op[o].env
      BY DEF Onwards, Onward
    <3>2. op[o].env \in Nat /\ op[o].env <= safeNonce
      BY <1>1, <3>1, ManualAssumption DEF ResInv, NonceInv, Op, Reached, Nonces
    <3> QED
      BY <1>1, <3>1, <3>2
  <2> QED
    BY <2>1, <2>2, <2>3, <2>4, <2>5 DEF NonceInv, ChainMoves
<1>4. AloneInv'
  BY DEF Onwards, Onward, ResInv, AloneInv
<1>5. ASSUME NEW s \in Subjects, store[s].env # None
      PROVE  /\ store[s].env \in Nat /\ RowCall(s).nonce = store[s].env
             /\ RowCall(s)' = RowCall(s)
  BY <1>1, <1>5, ManualAssumption DEF Row, Nonces, RowCall, CallOf
<1>6. CheckedInv'
  <2> SUFFICES ASSUME NEW o \in Operators, op'[o].at = "write", op'[o].subject \notin crossed
               PROVE  Checked(o)'
    BY DEF CheckedInv
  <2>1. op'[o] = op[o] /\ Checked(o) /\ op[o].subject \in Subjects
    BY DEF Onwards, Onward, ResInv, CheckedInv, Inv, OpInv, OpOk
  <2>2. ASSUME NEW s \in Subjects, DeadReserve(s) PROVE DeadReserve(s)'
    <3>1. CASE store[s].env = None
      BY <3>1 DEF DeadReserve
    <3>2. CASE store[s].env # None
      BY <1>5, <2>2, <3>2, PastIsPast DEF DeadReserve, ResInv
    <3> QED
      BY <3>1, <3>2
  <2> QED
    BY <2>1, <2>2 DEF Checked
<1>7. FailedInv'
  <2> SUFFICES ASSUME NEW s \in Subjects PROVE FailedOk(s)'
    BY DEF FailedInv
  <2>1. CASE store[s].status = "failed" /\ store[s].env # None
    <3>1. FailedOk(s) /\ store[s].hash \in TxIds \cup {None}
      BY <1>1 DEF ResInv, FailedInv, Row
    <3>2. Misreported(s) => Misreported(s)'
      BY <1>5, <2>1, <3>1 DEF Misreported, ChainMoves
    <3>3. Fruitless(s) => Fruitless(s)'
      BY <1>5, <2>1, PastIsPast DEF Fruitless, ResInv
    <3> QED
      BY <1>5, <2>1, <3>1, <3>2, <3>3 DEF FailedOk
  <2>2. CASE ~(store[s].status = "failed" /\ store[s].env # None)
    BY <2>2 DEF FailedOk
  <2> QED
    BY <2>1, <2>2
<1>8. ReservationRemembered'
  <2> SUFFICES ASSUME NEW c \in signed, Executable(c)'
               PROVE  (Recording(c) \/ c \in dropped \/ c.subject \in crossed)'
    BY DEF ReservationRemembered
  <2>1. c.nonce \in Nat /\ c.nonce <= safeNonce
    BY <1>1, ManualAssumption DEF ResInv, NonceInv, Reached, Call, Nonces
  <2>2. c.nonce = safeNonce /\ ~Executed(c)
    BY <1>1, <2>1, ExecutedStays DEF Executable
  <2>3. Recording(c) \/ c \in dropped \/ c.subject \in crossed
    BY <2>2 DEF Executable, ResInv, ReservationRemembered
  <2> QED
    BY <2>3 DEF Recording
<1> QED
  BY <1>3, <1>4, <1>6, <1>7, <1>8 DEF ResInv

-----------------------------------------------------------------------------
(* The rows.                                                               *)

\* A row without a reservation, where there was none that counts.
Renewed(s) == /\ store'[s].env = None
              /\ store[s].status \notin LiveForDedup \/ store[s].env = None
Same(s) == store'[s].payload = store[s].payload /\ store'[s].env = store[s].env
\* A live row with the call it had.
Carried(s) == Same(s) /\ store'[s].status \in LiveForDedup
\* A row that is closed with the call it had, for a reason.
Settled(s) == /\ Same(s)
              /\ \/ Executed(RowCall(s))
                 \/ RowCall(s) \in dropped'
                 \/ Past(store[s].env)
                 \/ s \in crossed
              /\ FailedOk(s)'
RowMoves(s) == store'[s] = store[s] \/ Renewed(s) \/ Carried(s) \/ Settled(s)

\* A row with the same payload and envelope stands for the same call.
LEMMA CallIsSame ==
  ASSUME NEW s \in Subjects, Same(s) \/ store'[s] = store[s]
  PROVE  RowCall(s)' = RowCall(s) /\ store'[s].env = store[s].env
<1> QED
  BY DEF Same, RowCall, CallOf

\* Rows are written, and the chain rests.
LEMMA RowsKeepReservations ==
  ASSUME Inv, Inv', ResInv, \A s \in Subjects : RowMoves(s), Onwards,
         UNCHANGED <<custody, tx, safeNonce, signed, crossed>>, dropped \subseteq dropped'
  PROVE  ResInv'
<1>1. /\ safeNonce \in Nat
      /\ store \in [Subjects -> Row] /\ store' \in [Subjects -> Row]
      /\ op \in [Operators -> Op]
      /\ signed \subseteq Call /\ tx \in [TxIds -> Tx]
  BY ManualAssumption DEF Inv, TypeOK, Nonces
<1>2. \A c : Executed(c)' = Executed(c)
  BY DEF Executed, InState
<1>3. NonceInv'
  <2>1. \A c \in signed' : Safe' /\ c.nonce # None /\ Reached(c.nonce)'
    BY DEF ResInv, NonceInv, Safe, Reached
  <2>2. \A s \in Subjects : store'[s].env # None => store'[s].env <= safeNonce
    BY DEF ResInv, NonceInv, Reached, RowMoves, Renewed, Carried, Settled, Same
  <2>3. \A o \in Operators : op'[o].env # None => op'[o].env <= safeNonce
    BY DEF ResInv, NonceInv, Reached, Onwards, Onward
  <2>4. /\ \A t \in TxIds : Ran(t)' => Past(tx[t].call.nonce)'
        /\ \A t, u \in TxIds : /\ Ran(t)' /\ Ran(u)'
                               /\ tx'[t].call.nonce # None
                               /\ tx'[t].call.nonce = tx'[u].call.nonce
                               => t = u
    BY DEF ResInv, NonceInv, Ran, Past
  <2> QED
    BY <2>1, <2>2, <2>3, <2>4 DEF NonceInv, Reached
<1>4. AloneInv'
  BY DEF Onwards, Onward, ResInv, AloneInv
<1>5. CheckedInv'
  <2> SUFFICES ASSUME NEW o \in Operators, op'[o].at = "write", op'[o].subject \notin crossed
               PROVE  Checked(o)'
    BY DEF CheckedInv
  <2>1. op'[o] = op[o] /\ Checked(o) /\ op[o].subject \in Subjects
    BY DEF Onwards, Onward, ResInv, CheckedInv, Inv, OpInv, OpOk
  <2>2. ASSUME NEW s \in Subjects, DeadReserve(s) PROVE DeadReserve(s)'
    <3>1. CASE store'[s].env = None
      BY <3>1 DEF DeadReserve
    <3>2. CASE store'[s].env # None
      <4>1. RowCall(s)' = RowCall(s) /\ store'[s].env = store[s].env
        BY <3>2, CallIsSame DEF RowMoves, Renewed, Carried, Settled
      <4> QED
        BY <1>2, <2>2, <3>2, <4>1 DEF DeadReserve, Past
    <3> QED
      BY <3>1, <3>2
  <2>3. \A s \in Subjects : store'[s].env \in {None, store[s].env}
    BY DEF RowMoves, Renewed, Carried, Settled, Same
  <2> QED
    BY <2>1, <2>2, <2>3 DEF Checked
<1>6. FailedInv'
  <2> SUFFICES ASSUME NEW s \in Subjects PROVE FailedOk(s)'
    BY DEF FailedInv
  <2>1. CASE store'[s] = store[s]
    <3>1. RowCall(s)' = RowCall(s) /\ FailedOk(s)
      BY <2>1, CallIsSame DEF ResInv, FailedInv
    <3> QED
      BY <2>1, <3>1 DEF FailedOk, Misreported, Fruitless, Past, InState
  <2>2. CASE Renewed(s) \/ Carried(s)
    BY <2>2 DEF Renewed, Carried, FailedOk, LiveForDedup
  <2>3. CASE Settled(s)
    BY <2>3 DEF Settled
  <2> QED
    BY <2>1, <2>2, <2>3 DEF RowMoves
<1>7. ReservationRemembered'
  <2> SUFFICES ASSUME NEW c \in signed, Executable(c)'
               PROVE  (Recording(c) \/ c \in dropped \/ c.subject \in crossed)'
    BY DEF ReservationRemembered
  <2>1. /\ Executable(c) /\ c.nonce = safeNonce /\ ~Executed(c)
        /\ c \in Call /\ c.subject \in Subjects /\ c.nonce # None
    BY <1>1, <1>2, ManualAssumption DEF Executable, Call, ResInv, NonceInv
  <2>2. Recording(c) \/ c \in dropped \/ c.subject \in crossed
    BY <2>1 DEF ResInv, ReservationRemembered
  <2>3. CASE Recording(c)
    <3> DEFINE s == c.subject
    <3>1. /\ store[s].status \in LiveForDedup /\ store[s].payload = c.payload
          /\ store[s].env = c.nonce
      BY <2>3 DEF Recording
    <3>2. RowCall(s) = c
      BY <2>1, <3>1 DEF RowCall, CallOf, Call
    <3>3. CASE store'[s] = store[s] \/ Carried(s)
      BY <3>1, <3>3 DEF Carried, Same, Recording
    <3>4. CASE Settled(s)
      BY <1>1, <2>1, <3>1, <3>2, <3>4 DEF Settled, Past
    <3>5. ~Renewed(s)
      BY <2>1, <3>1 DEF Renewed
    <3> QED
      BY <2>1, <3>3, <3>4, <3>5 DEF RowMoves
  <2> QED
    BY <2>2, <2>3
<1> QED
  BY <1>3, <1>4, <1>5, <1>6, <1>7 DEF ResInv

\* One row is written.
LEMMA RowKeepsReservations ==
  ASSUME Inv, Inv', ResInv, NEW s \in Subjects, NEW r, Write(s, r),
         RowMoves(s), Onwards,
         UNCHANGED <<custody, tx, safeNonce, signed, crossed>>, dropped \subseteq dropped'
  PROVE  ResInv'
<1>1. \A x \in Subjects : x # s => store'[x] = store[x]
  BY DEF Write, Inv, TypeOK
<1> QED
  BY <1>1, RowsKeepReservations DEF RowMoves

\* A claim: the reservation it replaces, if any, is behind the Safe, or the
\* same.
LEMMA ClaimKeepsReservations ==
  ASSUME Inv, Inv', ResInv, NEW o \in Operators, ClaimWrite(o)
  PROVE  ResInv'
<1> DEFINE s == op[o].subject
           r == [store[s] EXCEPT !.status = "claimed", !.env = op[o].env]
<1>1. /\ UNCHANGED <<custody, tx, safeNonce, dropped, crossed>>
      /\ op[o].at = "write" /\ op[o].cmd \in {"claim", "broadcast"}
      /\ s \in Subjects /\ op[o].payload \in Payloads
      /\ Safe <=> op[o].env # None
  BY DEF ClaimWrite, At, Inv, OpInv, OpOk
<1>2. Onwards
  BY <1>1, Onwards1 DEF ClaimWrite, Inv
<1>3. CASE ~(store[s].status = "proposed" /\ store[s].payload = op[o].payload)
  <2>1. UNCHANGED <<store, signed>>
    BY <1>3 DEF ClaimWrite
  <2> QED
    BY <1>1, <1>2, <2>1, RowsKeepReservations DEF RowMoves
<1>4. CASE store[s].status = "proposed" /\ store[s].payload = op[o].payload
  <2>1. /\ store' = [store EXCEPT ![s] = r]
        /\ signed' = IF Safe THEN signed \cup {OpCall(o)} ELSE signed
    BY <1>4 DEF ClaimWrite, Write
  <2>2. /\ store \in [Subjects -> Row] /\ op[o] \in Op /\ safeNonce \in Nat
        /\ signed \subseteq Call /\ op \in [Operators -> Op]
    BY ManualAssumption DEF Inv, TypeOK, Nonces
  <2>3. /\ store'[s].status = "claimed" /\ store'[s].env = op[o].env
        /\ store'[s].payload = op[o].payload
        /\ \A x \in Subjects : x # s => store'[x] = store[x]
    BY <1>1, <1>4, <2>1, <2>2 DEF Row
  <2>4. /\ OpCall(o).subject = s /\ OpCall(o).payload = op[o].payload
        /\ OpCall(o).nonce = op[o].env
    BY DEF OpCall, CallOf
  <2>5. op[o].env \in Nonces \cup {None} /\ Reached(op[o].env)
    BY <2>2 DEF ResInv, NonceInv, Op
  <2>6. \A x \in Operators : op[x].subject = s /\ x # o => s \in crossed
    BY <1>1, ManualAssumption DEF ResInv, AloneInv
  <2>7. NonceInv'
    <3>1. \A c \in signed' : Safe /\ c.nonce # None /\ Reached(c.nonce)
      BY <1>1, <2>1, <2>4, <2>5 DEF ResInv, NonceInv
    <3>2. \A c \in signed' : Safe' /\ c.nonce # None /\ Reached(c.nonce)'
      BY <1>1, <3>1 DEF Safe, Reached
    <3>3. \A x \in Subjects : store'[x].env # None => store'[x].env <= safeNonce
      BY <2>3, <2>5 DEF ResInv, NonceInv, Reached
    <3>4. \A x \in Operators : op'[x].env # None => op'[x].env <= safeNonce
      BY <1>2 DEF ResInv, NonceInv, Reached, Onwards, Onward
    <3>5. /\ \A t \in TxIds : Ran(t)' => Past(tx[t].call.nonce)'
          /\ \A t, u \in TxIds : /\ Ran(t)' /\ Ran(u)'
                                 /\ tx'[t].call.nonce # None
                                 /\ tx'[t].call.nonce = tx'[u].call.nonce
                                 => t = u
      BY <1>1 DEF ResInv, NonceInv, Ran, Past
    <3> QED
      BY <1>1, <3>2, <3>3, <3>4, <3>5 DEF NonceInv, Reached
  <2>8. AloneInv'
    BY <1>1, <1>2 DEF Onwards, Onward, ResInv, AloneInv
  <2>9. \A c : Executed(c)' = Executed(c)
    BY <1>1 DEF Executed, InState
  <2>10. CheckedInv'
    <3> SUFFICES ASSUME NEW x \in Operators, op'[x].at = "write",
                        op'[x].subject \notin crossed
                 PROVE  Checked(x)'
      BY <1>1 DEF CheckedInv
    <3>1. op'[x] = op[x] /\ Checked(x) /\ op[x].subject \in Subjects
      BY <1>1, <1>2 DEF Onwards, Onward, ResInv, CheckedInv, Inv, OpInv, OpOk
    <3>2. x # o
      BY <1>1, <1>4, <2>2, <3>1 DEF ClaimWrite, End, Goto, Idle, Op
    <3>3. op[x].subject # s
      BY <2>6, <3>1, <3>2
    <3>4. store'[op[x].subject] = store[op[x].subject]
      BY <2>3, <3>1, <3>3
    <3>5. /\ RowCall(op[x].subject)' = RowCall(op[x].subject)
          /\ Past(store[op[x].subject].env)' = Past(store[op[x].subject].env)
      BY <1>1, <3>1, <3>4 DEF RowCall, CallOf, Past
    <3> QED
      BY <2>9, <3>1, <3>4, <3>5 DEF Checked, DeadReserve
  <2>11. FailedInv'
    <3> SUFFICES ASSUME NEW x \in Subjects PROVE FailedOk(x)'
      BY DEF FailedInv
    <3>1. CASE x = s
      BY <2>3, <3>1 DEF FailedOk
    <3>2. CASE x # s
      <4>1. RowCall(x)' = RowCall(x) /\ FailedOk(x) /\ store'[x] = store[x]
        BY <2>3, <3>2, CallIsSame DEF ResInv, FailedInv
      <4> QED
        BY <1>1, <4>1 DEF FailedOk, Misreported, Fruitless, Past, InState
    <3> QED
      BY <3>1, <3>2
  <2>12. ReservationRemembered'
    <3> SUFFICES ASSUME NEW c \in signed', Executable(c)', c.subject \notin crossed,
                        c \notin dropped
                 PROVE  Recording(c)'
      BY <1>1 DEF ReservationRemembered
    <3>1. c.nonce = safeNonce /\ ~Executed(c)
      BY <1>1, <2>9 DEF Executable
    <3>2. CASE c \in signed
      <4>1. Recording(c) /\ c.subject \in Subjects
        BY <2>2, <3>1, <3>2 DEF Executable, ResInv, ReservationRemembered, Call
      <4>2. CASE c.subject # s
        BY <2>3, <4>1, <4>2 DEF Recording
      <4>3. CASE c.subject = s
        <5>1. store[s].env = safeNonce /\ c.payload = op[o].payload
          BY <1>4, <3>1, <4>1, <4>3 DEF Recording
        <5>2. op[o].env # None /\ c.nonce # None
          BY <1>1, <3>2 DEF ResInv, NonceInv
        <5>3. store[s].env <= op[o].env
          BY <1>1, <3>1, <4>3, <5>1, <5>2 DEF ResInv, CheckedInv, Checked
        <5>4. op[o].env = safeNonce
          BY <2>2, <2>5, <5>1, <5>2, <5>3, ManualAssumption DEF Reached, Nonces
        <5> QED
          BY <2>3, <3>1, <4>3, <5>1, <5>4 DEF Recording, LiveForDedup
      <4> QED
        BY <4>2, <4>3
    <3>3. CASE c \notin signed
      <4>1. c = OpCall(o)
        BY <2>1, <3>3
      <4> QED
        BY <2>3, <2>4, <4>1 DEF Recording, LiveForDedup
    <3> QED
      BY <3>2, <3>3
  <2> QED
    BY <2>7, <2>8, <2>10, <2>11, <2>12 DEF ResInv
<1> QED
  BY <1>3, <1>4

\* A command starts: what it has checked is so.
LEMMA LoadedKeepsReservations ==
  ASSUME Inv, Inv', ResInv, NEW o \in Operators, NEW cmd \in Commands, NEW s \in Subjects,
         NEW env, Reached(env), Loaded(o, cmd, s, env),
         cmd \in {"claim", "broadcast"} /\ store[s].env # None => store[s].env <= env,
         cmd = "fail" => DeadReserve(s)
  PROVE  ResInv'
<1>1. /\ UNCHANGED <<custody, store, tx, safeNonce, signed, dropped>>
      /\ crossed \subseteq crossed'
      /\ (\E x \in Operators : op[x].subject = s) => s \in crossed'
      /\ op \in [Operators -> Op]
  BY DEF Loaded, Inv, TypeOK
<1>2. /\ \A x \in Operators : x # o => op'[x] = op[x]
      /\ op'[o].at = "write" /\ op'[o].cmd = cmd /\ op'[o].subject = s /\ op'[o].env = env
  BY <1>1 DEF Loaded
<1>3. /\ \A c : Executed(c)' = Executed(c) /\ Executable(c)' = Executable(c)
      /\ \A x \in Subjects : RowCall(x)' = RowCall(x) /\ DeadReserve(x)' = DeadReserve(x)
  BY <1>1 DEF Executed, InState, Executable, RowCall, CallOf, DeadReserve, Past
<1>4. NonceInv'
  <2>1. \A x \in Operators : op'[x].env # None => op'[x].env <= safeNonce
    BY <1>2 DEF ResInv, NonceInv, Reached
  <2> QED
    BY <1>1, <2>1 DEF ResInv, NonceInv, Safe, Reached, Ran, Past
<1>5. AloneInv'
  BY <1>1, <1>2 DEF ResInv, AloneInv
<1>6. CheckedInv'
  <2> SUFFICES ASSUME NEW x \in Operators, op'[x].at = "write", op'[x].subject \notin crossed'
               PROVE  Checked(x)'
    BY DEF CheckedInv
  <2>1. CASE x = o
    BY <1>1, <1>2, <1>3, <2>1 DEF Checked
  <2>2. CASE x # o
    <3>1. op'[x] = op[x] /\ Checked(x) /\ op[x].subject \in Subjects
      BY <1>1, <1>2, <2>2 DEF ResInv, CheckedInv, Inv, OpInv, OpOk
    <3> QED
      BY <1>1, <1>3, <3>1 DEF Checked
  <2> QED
    BY <2>1, <2>2
<1>7. FailedInv'
  <2> SUFFICES ASSUME NEW x \in Subjects PROVE FailedOk(x)'
    BY DEF FailedInv
  <2>1. FailedOk(x) /\ RowCall(x)' = RowCall(x)
    BY <1>3 DEF ResInv, FailedInv
  <2> QED
    BY <1>1, <2>1 DEF FailedOk, Misreported, Fruitless, Past, InState
<1>8. ReservationRemembered'
  BY <1>1, <1>3 DEF ResInv, ReservationRemembered, Recording
<1> QED
  BY <1>4, <1>5, <1>6, <1>7, <1>8 DEF ResInv

\* What each command checks before it writes.
LEMMA StartKeepsReservations ==
  ASSUME Inv, Inv', ResInv, NEW o \in Operators, NEW s \in Subjects, Start(o, s)
  PROVE  ResInv'
<1>1. /\ safeNonce \in Nat /\ store[s].env \in Nonces \cup {None} /\ Reached(store[s].env)
      /\ store[s].env # None => Safe
      /\ Reached(None) /\ Reached(safeNonce)
  BY ManualAssumption DEF Inv, TypeOK, Nonces, Row, ResInv, NonceInv, Reached, RowInv, RowOk
<1>2. ASSUME NEW cmd \in {"claim", "broadcast"}, StartClaim(o, cmd, s)
      PROVE  ResInv'
  <2>1. /\ cmd \in Commands /\ cmd # "fail" /\ Loaded(o, cmd, s, Reserved) /\ Reached(Reserved)
        /\ store[s].env # None => store[s].env <= Reserved
    BY <1>1, <1>2 DEF StartClaim, Commands, Reserved, Reached
  <2> QED
    BY <2>1, LoadedKeepsReservations
<1>3. CASE StartRelease(o, s)
  <2>1. "release" \in Commands /\ Loaded(o, "release", s, None)
    BY <1>3 DEF StartRelease, Commands
  <2> QED
    BY <1>1, <2>1, LoadedKeepsReservations
<1>4. CASE StartFail(o, s)
  <2>1. "fail" \in Commands /\ Loaded(o, "fail", s, None)
    BY <1>4 DEF StartFail, Commands
  <2>2. DeadReserve(s)
    BY <1>1, <1>4, ManualAssumption DEF StartFail, Retained, DeadReserve, Past, Reached, Nonces
  <2> QED
    BY <1>1, <2>1, <2>2, LoadedKeepsReservations
<1> QED
  BY <1>2, <1>3, <1>4 DEF Start

\* fail: what it checked is still so, or another command was under way.
LEMMA FailKeepsReservations ==
  ASSUME Inv, Inv', ResInv, NEW o \in Operators, FailWrite(o),
         NEW s \in Subjects, op[o].subject = s
  PROVE  ResInv'
<1>1. /\ UNCHANGED <<custody, tx, safeNonce, signed, dropped, crossed>>
      /\ op[o].at = "write" /\ op[o].cmd = "fail" /\ s \in Subjects
      /\ store \in [Subjects -> Row]
  BY DEF FailWrite, At, Inv, OpInv, OpOk, TypeOK
<1>2. Onwards
  BY Onwards1 DEF FailWrite, Inv
<1>3. CASE store[s].status \notin LiveForDedup
  <2>1. UNCHANGED store
    BY <1>3 DEF FailWrite
  <2> QED
    BY <1>1, <1>2, <2>1, RowsKeepReservations DEF RowMoves
<1>4. CASE store[s].status \in LiveForDedup
  <2>1. Write(s, [store[s] EXCEPT !.status = "failed"])
    BY <1>4 DEF FailWrite
  <2>2. Same(s)
    BY <1>1, <2>1 DEF Write, Row, Same
  <2>3. RowCall(s)' = RowCall(s) /\ store'[s].env = store[s].env
    BY <1>1, <2>2, CallIsSame
  <2>4. CASE store[s].env = None
    BY <1>1, <1>2, <2>1, <2>3, <2>4, RowKeepsReservations DEF RowMoves, Renewed
  <2>5. CASE store[s].env # None
    <3>1. s \in crossed \/ Fruitless(s)
      <4>1. s \notin crossed => DeadReserve(s)
        BY <1>1 DEF ResInv, CheckedInv, Checked
      <4> QED
        BY <2>5, <4>1 DEF DeadReserve, Executed, InState, Fruitless
    <3>2. Fruitless(s)' = Fruitless(s)
      BY <1>1, <2>3 DEF Fruitless, Past, InState
    <3>3. Settled(s)
      BY <1>1, <2>2, <3>1, <3>2 DEF Settled, FailedOk, Fruitless
    <3> QED
      BY <1>1, <1>2, <2>1, <3>3, RowKeepsReservations DEF RowMoves
  <2> QED
    BY <2>4, <2>5
<1> QED
  BY <1>3, <1>4

\* The verdict a Safe's row is failed on: its SafeTx failed for good, or the
\* transaction is some other one, or nothing has executed.
LEMMA FailedVerdicts ==
  ASSUME Inv, NonceInv, NEW c, c.nonce # None, NEW t \in TxIds, NEW v \in SafeVerdicts(c, t),
         v.status = "failed"
  PROVE  /\ v.hash \in TxIds
         /\ \/ Executed(c) /\ InState(c, {"success"}) = {}
            \/ tx[v.hash].state # "new" /\ tx[v.hash].call # c
            \/ ~Executed(c)
<1>1. ASSUME NEW u \in TxIds, tx[u].call = c, Ran(u), v = Found(u)
      PROVE  Executed(c) /\ InState(c, {"success"}) = {}
  <2>1. tx[u].state = "failure"
    BY <1>1 DEF Found, Verdict, Ran
  <2>2. \A w \in TxIds : tx[w].call = c /\ Ran(w) => w = u
    BY <1>1 DEF NonceInv
  <2> QED
    BY <1>1, <2>1, <2>2 DEF Executed, InState, Ran
<1>2. CASE tx[t].call = c /\ Ran(t)
  BY <1>1, <1>2 DEF SafeVerdicts, Ran, Found, Verdict
<1>3. CASE tx[t].call # c /\ Ran(t)
  BY <1>3 DEF SafeVerdicts, Ran, Verdict
<1>4. CASE ~Ran(t)
  <2>1. CASE Executed(c)
    <3>1. PICK u \in TxIds : tx[u].call = c /\ Ran(u) /\ v = Found(u)
      BY <1>4, <2>1 DEF SafeVerdicts, Executed, InState, Ran
    <3> QED
      BY <1>1, <3>1 DEF Found, Verdict
  <2>2. CASE ~Executed(c)
    BY <1>4, <2>2 DEF SafeVerdicts, Executed, InState, Ran, Stay, Verdict
  <2> QED
    BY <2>1, <2>2
<1> QED
  BY <1>2, <1>3, <1>4

\* A verdict closes a reservation on its own evidence.
LEMMA ResolveKeepsReservations ==
  ASSUME Inv, Inv', ResInv, NEW e \in Engines, NEW s \in Subjects, Resolve(e, s)
  PROVE  ResInv'
<1> DEFINE r == bot[e].snaps[s]
           c == CallOf(s, r.payload, r.env)
<1>1. /\ r \in Row /\ r.status = "submitted" /\ r.hash \in TxIds
      /\ s \in bot[e].fresh => store[s] = r
      /\ UNCHANGED <<custody, tx, safeNonce, signed, op, crossed>>
      /\ store \in [Subjects -> Row]
  BY DEF Resolve, Inv, TypeOK, Bot, BotInv, BotOk, ReadOk
<1>2. Onwards
  BY <1>1 DEF Onwards, Onward
<1>3. PICK v \in IF r.env # None THEN SafeVerdicts(c, r.hash)
                                 ELSE PlainVerdicts(r.hash) :
        IF v # Stay /\ AsRead(e, s)
        THEN /\ Write(s, [store[s] EXCEPT !.status = v.status, !.hash = v.hash])
             /\ dropped' = IF v.status = "failed" /\ ~Executed(c)
                           THEN dropped \cup {c} ELSE dropped
        ELSE UNCHANGED <<store, dropped>>
  BY DEF Resolve
<1>4. CASE ~(v # Stay /\ AsRead(e, s))
  BY <1>1, <1>2, <1>3, <1>4, RowsKeepReservations DEF RowMoves
<1>5. CASE v # Stay /\ AsRead(e, s)
  <2> DEFINE w == [store[s] EXCEPT !.status = v.status, !.hash = v.hash]
  <2>1. Write(s, w) /\ store[s] = r /\ dropped \subseteq dropped' /\ RowCall(s) = c
    BY <1>1, <1>3, <1>5 DEF AsRead, RowCall
  <2>2. /\ v.status \in {"confirmed", "failed"} /\ v.hash \in TxIds
        /\ v.status = "confirmed" =>
              /\ tx[v.hash].state = "success"
              /\ tx[v.hash].call = c \/ (r.env = None /\ v.hash = r.hash)
    BY <1>1, <1>3, <1>5, VerdictsFit
  <2>3. /\ Same(s) /\ store'[s].status = v.status /\ store'[s].hash = v.hash
    BY <1>1, <2>1 DEF Write, Row, Same
  <2>4. RowCall(s)' = c /\ store'[s].env = r.env
    BY <2>1, <2>3, CallIsSame
  <2>5. CASE r.env = None
    BY <1>1, <1>2, <2>1, <2>4, <2>5, RowKeepsReservations DEF RowMoves, Renewed
  <2>6. CASE r.env # None /\ v.status = "confirmed"
    <3>1. Executed(c)
      BY <2>2, <2>6 DEF Executed, InState
    <3>2. Settled(s)
      BY <2>1, <2>3, <2>6, <3>1 DEF Settled, FailedOk
    <3> QED
      BY <1>1, <1>2, <2>1, <3>2, RowKeepsReservations DEF RowMoves
  <2>7. CASE r.env # None /\ v.status = "failed"
    <3>1. c.nonce = r.env /\ v \in SafeVerdicts(c, r.hash)
      BY <1>3, <2>7 DEF CallOf
    <3>2. \/ Executed(c) /\ InState(c, {"success"}) = {}
          \/ tx[v.hash].state # "new" /\ tx[v.hash].call # c
          \/ ~Executed(c)
      BY <1>1, <2>7, <3>1, FailedVerdicts DEF ResInv
    <3>3. Executed(c) => Past(r.env)
      BY <3>1 DEF Executed, InState, ResInv, NonceInv, Ran
    <3>4. ~Executed(c) => c \in dropped'
      BY <1>3, <1>5, <2>7
    <3>5. Executed(c) /\ InState(c, {"success"}) = {} => Fruitless(s)'
      BY <1>1, <2>4, <3>3 DEF Fruitless, Past, InState
    <3>6. tx[v.hash].state # "new" /\ tx[v.hash].call # c => Misreported(s)'
      BY <1>1, <2>2, <2>3, <2>4, ManualAssumption DEF Misreported
    <3>7. FailedOk(s)'
      BY <2>4, <3>2, <3>4, <3>5, <3>6 DEF FailedOk
    <3>8. Settled(s)
      BY <2>1, <2>3, <3>3, <3>4, <3>7 DEF Settled
    <3> QED
      BY <1>1, <1>2, <2>1, <3>8, RowKeepsReservations DEF RowMoves
  <2> QED
    BY <2>2, <2>5, <2>6, <2>7
<1> QED
  BY <1>4, <1>5

\* Every other write of a row keeps its call, or closes none that counts.
LEMMA CycleKeepsReservations ==
  ASSUME Inv, Inv', ResInv, NEW e \in Engines, Cycle(e)
  PROVE  ResInv'
<1>1. store \in [Subjects -> Row] /\ (UNCHANGED op => Onwards)
  BY DEF Inv, TypeOK, Onwards, Onward
<1>2. CASE Sweep(e)
  <2>1. ASSUME NEW s \in Subjects PROVE store'[s] = store[s] \/ Renewed(s)
    BY <1>1, <1>2 DEF Sweep, Retirable, Renewed, Row
  <2> QED
    BY <1>1, <1>2, <2>1, RowsKeepReservations DEF Sweep, RowMoves
<1>3. CASE Read(e) \/ CycleDone(e)
  BY <1>1, <1>3, RowsKeepReservations DEF Read, CycleDone, RowMoves
<1>4. CASE Supersede(e)
  <2>1. ASSUME NEW s \in Subjects PROVE store'[s] = store[s] \/ Renewed(s)
    BY <1>1, <1>4 DEF Supersede, Write, Retirable, Renewed, Row
  <2> QED
    BY <1>1, <1>4, <2>1, RowsKeepReservations DEF Supersede, RowMoves
<1>5. CASE ProposeAgain(e)
  <2>1. ASSUME NEW s \in Subjects PROVE store'[s] = store[s] \/ Renewed(s)
    BY <1>1, <1>5 DEF ProposeAgain, Write, Recorded, Renewed
  <2> QED
    BY <1>1, <1>5, <2>1, RowsKeepReservations DEF ProposeAgain, RowMoves
<1> QED
  BY <1>2, <1>3, <1>4, <1>5, ResolveKeepsReservations DEF Cycle

\* A proposal takes the place of a row that is not live.
LEMMA ProposeKeepsReservations ==
  ASSUME Inv, Inv', ResInv, NEW e \in Engines, NEW s \in Subjects, NEW p \in Payloads,
         Propose(e, s, p)
  PROVE  ResInv'
<1>1. UNCHANGED op => Onwards
  BY DEF Onwards, Onward
<1>2. ASSUME NEW x \in Subjects PROVE store'[x] = store[x] \/ Renewed(x)
  BY DEF Propose, Write, Recorded, Renewed, Inv, TypeOK
<1> QED
  BY <1>1, <1>2, RowsKeepReservations DEF Propose, RowMoves

\* A report and a release keep the call.
LEMMA ProceedKeepsReservations ==
  ASSUME Inv, Inv', ResInv, NEW o \in Operators, Proceed(o)
  PROVE  ResInv'
<1>1. store \in [Subjects -> Row] /\ TypeOK
  BY DEF Inv, TypeOK
<1>2. CASE FailWrite(o)
  <2>1. op[o].subject \in Subjects
    BY <1>2 DEF FailWrite, At, Inv, OpInv, OpOk
  <2> QED
    BY <1>2, <2>1, FailKeepsReservations
<1>3. CASE ReleaseWrite(o) \/ Mark(o)
  <2>1. Onwards
    BY <1>1, <1>3, Onwards1 DEF ReleaseWrite, Mark
  <2>2. ASSUME NEW s \in Subjects PROVE store'[s] = store[s] \/ Carried(s)
    <3>1. \/ store' = store
          \/ store' = [store EXCEPT ![op[o].subject] =
                          [store[op[o].subject] EXCEPT !.status = "proposed"]]
          \/ store' = [store EXCEPT ![op[o].subject] =
                          [store[op[o].subject] EXCEPT !.status = "submitted",
                                                       !.hash = op[o].hash]]
      BY <1>3 DEF ReleaseWrite, Mark, Write
    <3>2. CASE s # op[o].subject
      BY <1>1, <3>1, <3>2
    <3>3. CASE s = op[o].subject
      <4>1. /\ store[s] \in Row
            /\ \/ store'[s] = store[s]
               \/ store'[s] = [store[s] EXCEPT !.status = "proposed"]
               \/ store'[s] = [store[s] EXCEPT !.status = "submitted", !.hash = op[o].hash]
        BY <1>1, <3>1, <3>3
      <4> QED
        BY <4>1 DEF Carried, Same, Row, LiveForDedup
    <3> QED
      BY <3>2, <3>3
  <2> QED
    BY <1>3, <2>1, <2>2, RowsKeepReservations DEF ReleaseWrite, Mark, RowMoves
<1>4. ASSUME NEW t \in TxIds, Send(o, t) PROVE ResInv'
  <2>1. Onwards
    BY <1>1, <1>4, Onwards1 DEF Send
  <2>2. ChainMoves
    BY <1>4, EnterMoves DEF Send
  <2> QED
    BY <1>4, <2>1, <2>2, ChainKeepsReservations DEF Send
<1> QED
  BY <1>2, <1>3, <1>4, ClaimKeepsReservations DEF Proceed

\* Nothing is reserved at first.
LEMMA ResInit == Init => ResInv
<1> SUFFICES ASSUME Init PROVE ResInv
  OBVIOUS
<1>1. NonceInv /\ AloneInv
  BY DEF Init, NoRow, Idle, NonceInv, AloneInv, Ran, Reached
<1>2. CheckedInv /\ FailedInv /\ ReservationRemembered
  BY DEF Init, NoRow, Idle, CheckedInv, FailedInv, FailedOk, ReservationRemembered
<1> QED
  BY <1>1, <1>2 DEF ResInv

\* Every step keeps the reservations.
LEMMA ResNext == Inv /\ Inv' /\ ResInv /\ [Next]_vars => ResInv'
<1> SUFFICES ASSUME Inv, Inv', ResInv, [Next]_vars PROVE ResInv'
  OBVIOUS
<1>1. UNCHANGED op => Onwards
  BY DEF Onwards, Onward
<1>2. CASE Chain
  <2>1. ChainMoves
    BY <1>2, EnterMoves, MineMoves, SpendMoves DEF Chain, SignExternally
  <2> QED
    BY <1>1, <1>2, <2>1, ChainKeepsReservations DEF Chain, SignExternally, Mine, SpendNonce
<1>3. ASSUME NEW e \in Engines, NEW s \in Subjects, ScanFails(e, s)
      PROVE  ResInv'
  BY <1>1, <1>3, RowsKeepReservations DEF ScanFails, RowMoves
<1>4. ASSUME NEW o \in Operators, Crash(o) PROVE ResInv'
  BY <1>4, Onwards1, RowsKeepReservations DEF Crash, RowMoves, Inv
<1>5. ASSUME NEW s \in Subjects, NEW t \in TxIds, Confirm(s, t)
      PROVE  ResInv'
  <2>1. ASSUME NEW x \in Subjects PROVE store'[x] = store[x] \/ Carried(x)
    BY <1>5 DEF Confirm, Write, Carried, Same, Row, LiveForDedup, Inv, TypeOK
  <2> QED
    BY <1>1, <1>5, <2>1, RowsKeepReservations DEF Confirm, RowMoves
<1>6. CASE UNCHANGED vars
  BY <1>1, <1>6, RowsKeepReservations DEF vars, RowMoves
<1> QED
  BY <1>2, <1>3, <1>4, <1>5, <1>6, CycleKeepsReservations, ProposeKeepsReservations,
     StartKeepsReservations, ProceedKeepsReservations DEF Next

\* The strengthened invariant of the reservations.
THEOREM ResHolds == Spec => []ResInv
<1> QED
  BY InvHolds, ResInit, ResNext, PTL DEF Spec

(* A SafeTx its owners may have signed and that can still execute stays on *)
(* the record of a live row through claims, releases, expiry, supersession *)
(* and revival, however many Safe nonces, rows and commands there are,     *)
(* unless a pass failed its row on evidence or two commands were under way *)
(* on it at once (envelopeForClaim, failProposal).                         *)
THEOREM ReservationIsRemembered == Spec => []ReservationRemembered
<1>1. ResInv => ReservationRemembered
  BY DEF ResInv
<1> QED
  BY <1>1, ResHolds, PTL

(* No row that reserved a SafeTx ends as failed although its inner call    *)
(* succeeded, but for the three exceptions SuccessIsNotFailed names        *)
(* (resolveSafeIntent, classifyRetainedEnvelope).                          *)
THEOREM SuccessIsNeverFailed == Spec => []SuccessIsNotFailed
<1>1. ResInv => SuccessIsNotFailed
  <2> SUFFICES ASSUME ResInv, NEW s \in Subjects,
                      store[s].status = "failed" /\ store[s].env # None
               PROVE  \/ InState(RowCall(s), {"success"}) = {}
                      \/ RowCall(s) \in dropped
                      \/ store[s].hash # None /\ tx[store[s].hash].call # RowCall(s)
                      \/ s \in crossed
    BY DEF SuccessIsNotFailed
  <2>1. FailedOk(s)
    BY DEF ResInv, FailedInv
  <2> QED
    BY <2>1 DEF FailedOk, Misreported, Fruitless
<1> QED
  BY <1>1, ResHolds, PTL

=============================================================================
