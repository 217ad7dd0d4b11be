------------------------------ MODULE RiskLedger ------------------------------
(***************************************************************************)
(* The token ledger of the risk gate (src/packages/risk/src/gate.ts), and  *)
(* the two engines that spend one signer's balances through it under       *)
(* direct (inventory) funding: the refresh that publishes a chain read,    *)
(* the slots that reserve a spend, and the holds that keep counting a      *)
(* broadcast one until a read is known to report it.                       *)
(*                                                                         *)
(* An account is a token the signer holds.  An action is one candidate and *)
(* carries at most one transaction.  The gate is synchronous; the engines  *)
(* await between the steps below, and the chain moves meanwhile.           *)
(*                                                                         *)
(* Assumed of the rest of the system: the row of a transaction stays in    *)
(* flight until the transaction is final (AutoExecution, LiveTxRecorded    *)
(* and VerdictsMatchChain); nothing else spends the signer's tokens; reads *)
(* come from one consistent chain.                                         *)
(***************************************************************************)
EXTENDS Integers, FiniteSets, FiniteSetsExt

CONSTANTS
    None,       \* a value the gate was never told
    Engines,
    Actions,    \* candidates
    Accounts,   \* tokens of the signer
    EngineOf,   \* the engine that sends each action
    Cost,       \* the spend each action declares, per account
    Covers,     \* the accounts each engine's refresh reads
    Funds,      \* what the signer starts with
    Backstop,   \* how each engine's finally settles a slot that is still open
    StoreFails, \* engines whose store may fail a claim
    MaxFaults   \* bound: receipt reads that fail

ASSUME LedgerAssumption ==
    /\ None \notin Int
    /\ IsFiniteSet(Actions)
    /\ EngineOf \in [Actions -> Engines]
    /\ Cost \in [Actions -> [Accounts -> Nat]]
    /\ Covers \in [Engines -> SUBSET Accounts]
    /\ Funds \in [Accounts -> Nat]
    /\ Backstop \in [Engines -> {"abandoned", "unresolved"}]
    /\ StoreFails \subseteq Engines
    /\ MaxFaults \in Nat

VARIABLES
    available,  \* balance last published, per account
    snapshot,   \* snapshotBlock: the height it was read at
    slot,       \* per action: "none", "open", or the outcome it settled with
    owed,       \* per action: the accounts its hold still counts
    minedAt,    \* per action: the height its hold was given, or None
    pc,         \* per engine
    cur,        \* per engine: the action it is committing
    sent,       \* per engine: broadcast actions whose receipt it awaits
    block,      \* per engine: the height its refresh reads at
    read,       \* per engine: the balances at that height
    todo,       \* per engine: holds its refresh has yet to judge
    flying,     \* per engine: the transactions it read as in flight
    settled,    \* per engine: holds its refresh found settled
    balance,    \* the signer's balances on the chain
    head,       \* the chain's height
    tx,         \* per action: its transaction
    txBlock,    \* per action: the height it was mined at
    live,       \* actions whose row is in flight
    faults

gate == <<available, snapshot, owed, minedAt>>
refresh == <<block, read, todo, flying, settled>>
chain == <<balance, head, tx, txBlock, live>>
vars == <<gate, slot, pc, cur, sent, refresh, chain, faults>>

Outcomes == {"abandoned", "unresolved", "ok", "failed"}
Mine == {x \in Actions : tx[x] = "success" \/ tx[x] = "reverted"}
Payers(acc) == {x \in Actions : Cost[x][acc] > 0}
Total(S, acc) == MapThenSumSet(LAMBDA x : Cost[x][acc], S)

Reserved(acc) == Total({x \in Actions : slot[x] = "open"}, acc)
HeldFor(acc) == Total({x \in Actions : acc \in owed[x]}, acc)

-----------------------------------------------------------------------------
Init ==
    /\ available = [acc \in Accounts |-> None]
    /\ snapshot = [acc \in Accounts |-> None]
    /\ slot = [x \in Actions |-> "none"]
    /\ owed = [x \in Actions |-> {}]
    /\ minedAt = [x \in Actions |-> None]
    /\ pc = [e \in Engines |-> "idle"]
    /\ cur = [e \in Engines |-> None]
    /\ sent = [e \in Engines |-> {}]
    /\ block = [e \in Engines |-> 0]
    /\ read = [e \in Engines |-> Funds]
    /\ todo = [e \in Engines |-> {}]
    /\ flying = [e \in Engines |-> {}]
    /\ settled = [e \in Engines |-> {}]
    /\ balance = Funds
    /\ head = 0
    /\ tx = [x \in Actions |-> "none"]
    /\ txBlock = [x \in Actions |-> None]
    /\ live = {}
    /\ faults = 0

Goto(e, label) == pc' = [pc EXCEPT ![e] = label]

-----------------------------------------------------------------------------
(* refreshInventory: balances at one height, then what has settled by it.  *)

ReadBalances(e) ==
    /\ pc[e] = "idle"
    /\ block' = [block EXCEPT ![e] = head]
    /\ read' = [read EXCEPT ![e] = balance]
    /\ Goto(e, "outflows")
    /\ UNCHANGED <<gate, slot, cur, sent, todo, flying, settled, chain, faults>>

Holds == {x \in Actions : owed[x] # {}}

Reported(x, height) == minedAt[x] # None /\ minedAt[x] <= height

\* settledOutflows: the rows in flight are read before any receipt.  A hold
\* whose receipt the engine saw needs no further read.
ListOutflows(e) ==
    /\ pc[e] = "outflows"
    /\ todo' = [todo EXCEPT ![e] = {x \in Holds : minedAt[x] = None}]
    /\ settled' = [settled EXCEPT ![e] = {x \in Holds : Reported(x, block[e])}]
    /\ flying' = [flying EXCEPT ![e] = live]
    /\ Goto(e, "receipts")
    /\ UNCHANGED <<gate, slot, cur, sent, block, read, chain, faults>>

\* Mutant: only a receipt counts.
NotComingMutant(e, x) == FALSE
NotComing(e, x) == x \notin flying[e]

SettledBy(e, x) == IF x \in Mine THEN txBlock[x] <= block[e] ELSE NotComing(e, x)

Judged(e, x) == todo' = [todo EXCEPT ![e] = @ \ {x}]

JudgeReceipt(e, x) ==
    /\ pc[e] = "receipts"
    /\ x \in todo[e]
    /\ Judged(e, x)
    /\ settled' = [settled EXCEPT ![e] =
                     IF SettledBy(e, x) THEN @ \cup {x} ELSE @]
    /\ UNCHANGED <<gate, slot, pc, cur, sent, block, read, flying, chain, faults>>

\* A lookup that fails proves nothing.
FailReceipt(e, x) ==
    /\ pc[e] = "receipts"
    /\ x \in todo[e]
    /\ faults < MaxFaults
    /\ faults' = faults + 1
    /\ Judged(e, x)
    /\ UNCHANGED <<gate, slot, pc, cur, sent, block, read, flying, settled, chain>>

\* Mutant: the last refresh to finish wins.
NewerMutant(height, acc) == TRUE
Newer(height, acc) == snapshot[acc] = None \/ height >= snapshot[acc]

\* Mutant: a settled hold goes for every account, read or not.
RetiredMutant(e, x) == IF x \in settled[e] THEN {} ELSE owed[x]
Retired(e, x) == IF x \in settled[e] THEN owed[x] \ Covers[e] ELSE owed[x]

\* A hold with no account left is deleted, its height with it.
HeightLeft(x, accounts) == IF accounts = {} THEN None ELSE minedAt[x]

\* applySnapshot, one synchronous step.
Apply(e) ==
    LET fresh == {acc \in Covers[e] : Newer(block[e], acc)}
    IN  /\ pc[e] = "receipts"
        /\ todo[e] = {}
        /\ owed' = [x \in Actions |-> Retired(e, x)]
        /\ minedAt' = [x \in Actions |-> HeightLeft(x, owed'[x])]
        /\ available' = [acc \in Accounts |->
                           IF acc \in fresh THEN read[e][acc] ELSE available[acc]]
        /\ snapshot' = [acc \in Accounts |->
                          IF acc \in fresh THEN block[e] ELSE snapshot[acc]]
        /\ settled' = [settled EXCEPT ![e] = {}]
        /\ flying' = [flying EXCEPT ![e] = {}]
        /\ block' = [block EXCEPT ![e] = 0]
        /\ read' = [read EXCEPT ![e] = Funds]
        /\ Goto(e, "send")
        /\ UNCHANGED <<slot, cur, sent, todo, chain, faults>>

-----------------------------------------------------------------------------
(* openSlot and settle.                                                    *)

Capacity(acc) == available[acc] - HeldFor(acc) - Reserved(acc)

Affordable(x) ==
    \A acc \in Accounts : Cost[x][acc] > 0 =>
        available[acc] # None /\ Cost[x][acc] <= Capacity(acc)

OpenSlot(e, x) ==
    /\ pc[e] = "send"
    /\ EngineOf[x] = e
    /\ tx[x] = "none"
    /\ Affordable(x)
    /\ slot' = [slot EXCEPT ![x] = "open"]
    /\ cur' = [cur EXCEPT ![e] = x]
    /\ Goto(e, "commit")
    /\ UNCHANGED <<gate, sent, refresh, chain, faults>>

Spent(outcome) == outcome \in {"ok", "unresolved"}

\* What a transaction owes once it is out.
Debts(x) == {acc \in Accounts : Cost[x][acc] > 0}

\* A slot that settled already ignores the call.  A spend with a transaction
\* becomes a hold, with the height of its receipt when there is one; one that
\* owes nothing leaves none.
Settle(S, outcome, height) ==
    LET open == {x \in S : slot[x] = "open"}
        held == {x \in open : Spent(outcome) /\ Debts(x) # {}}
    IN  /\ slot' = [x \in Actions |-> IF x \in open THEN outcome ELSE slot[x]]
        /\ owed' = [x \in Actions |-> IF x \in held THEN Debts(x) ELSE owed[x]]
        /\ minedAt' = [x \in Actions |->
                         IF x \in held THEN height ELSE minedAt[x]]
        /\ UNCHANGED <<available, snapshot>>

-----------------------------------------------------------------------------
(* The send loop: commit's answers.                                        *)

Record(x) == live' = live \cup {x}

\* On the wire; the receipt comes later.
CommitBroadcast(e) ==
    LET x == cur[e]
    IN  /\ pc[e] = "commit"
        /\ tx' = [tx EXCEPT ![x] = "pool"]
        /\ Record(x)
        /\ sent' = [sent EXCEPT ![e] = @ \cup {x}]
        /\ Goto(e, "send")
        /\ cur' = [cur EXCEPT ![e] = None]
        /\ UNCHANGED <<gate, slot, refresh, balance, head, txBlock, faults>>

\* Mutant: an aborted commit sent nothing, whatever it attempted.
AbortedMutant(attempted) == "abandoned"
Aborted(attempted) == IF attempted THEN "unresolved" ELSE "abandoned"

\* The broadcast failed and may have happened: stop sending.
CommitAmbiguous(e) ==
    LET x == cur[e]
    IN  /\ pc[e] = "commit"
        /\ \E state \in {"pool", "gone"} : tx' = [tx EXCEPT ![x] = state]
        /\ Record(x)
        /\ Settle({x}, Aborted(TRUE), None)
        /\ Goto(e, "wait")
        /\ cur' = [cur EXCEPT ![e] = None]
        /\ UNCHANGED <<sent, refresh, balance, head, txBlock, faults>>

\* A duplicate, or a failure before the broadcast.
CommitNothing(e) ==
    /\ pc[e] = "commit"
    /\ Settle({cur[e]}, Aborted(FALSE), None)
    /\ Goto(e, "send") \/ Goto(e, "wait")
    /\ cur' = [cur EXCEPT ![e] = None]
    /\ UNCHANGED <<sent, refresh, chain, faults>>

\* The claim throws.  The arbitrage engine catches it per vault and goes on.
\* The liquidation engine leaves sendAll, whose finally settles every slot of
\* the cycle that is still open, those of broadcast transactions included.
ClaimThrows(e) ==
    /\ pc[e] = "commit"
    /\ e \in StoreFails
    /\ cur' = [cur EXCEPT ![e] = None]
    /\ \/ /\ Backstop[e] = "unresolved"
          /\ Settle({cur[e]}, "failed", None)
          /\ Goto(e, "send")
          /\ UNCHANGED sent
       \/ /\ Backstop[e] = "abandoned"
          /\ Settle(sent[e] \cup {cur[e]}, "abandoned", None)
          /\ Goto(e, "idle")
          /\ sent' = [sent EXCEPT ![e] = {}]
    /\ UNCHANGED <<refresh, chain, faults>>

EndSend(e) ==
    /\ pc[e] = "send"
    /\ Goto(e, "wait")
    /\ UNCHANGED <<gate, slot, cur, sent, refresh, chain, faults>>

-----------------------------------------------------------------------------
(* The receipts of the batch.                                              *)

Receipt(e, x) ==
    /\ pc[e] = "wait"
    /\ x \in sent[e]
    /\ \/ tx[x] = "success" /\ Settle({x}, "ok", txBlock[x])
       \/ tx[x] = "reverted" /\ Settle({x}, "failed", None)
       \/ Settle({x}, "unresolved", None)
    /\ sent' = [sent EXCEPT ![e] = @ \ {x}]
    /\ UNCHANGED <<pc, cur, refresh, chain, faults>>

EndCycle(e) ==
    /\ pc[e] = "wait"
    /\ sent[e] = {}
    /\ Goto(e, "idle")
    /\ UNCHANGED <<gate, slot, cur, sent, refresh, chain, faults>>

-----------------------------------------------------------------------------
(* The chain, and the rows of the store resolved against it.               *)

MineTx(x, result) ==
    /\ tx[x] = "pool"
    /\ result = "success" => \A acc \in Accounts : Cost[x][acc] <= balance[acc]
    /\ tx' = [tx EXCEPT ![x] = result]
    /\ head' = head + 1
    /\ txBlock' = [txBlock EXCEPT ![x] = head']
    /\ balance' = IF result = "success"
                  THEN [acc \in Accounts |-> balance[acc] - Cost[x][acc]]
                  ELSE balance
    /\ UNCHANGED <<gate, slot, pc, cur, sent, refresh, live, faults>>

Drop(x) ==
    /\ tx[x] = "pool"
    /\ tx' = [tx EXCEPT ![x] = "gone"]
    /\ UNCHANGED <<gate, slot, pc, cur, sent, refresh, balance, head, txBlock,
                   live, faults>>

\* reconcile or recordOutcome: only a final transaction leaves flight.
Resolve(x) ==
    /\ x \in live
    /\ tx[x] # "pool"
    /\ live' = live \ {x}
    /\ UNCHANGED <<gate, slot, pc, cur, sent, refresh, balance, head, tx,
                   txBlock, faults>>

-----------------------------------------------------------------------------
Refreshing(e) ==
    \/ ReadBalances(e) \/ ListOutflows(e) \/ Apply(e)
    \/ \E x \in Actions : JudgeReceipt(e, x) \/ FailReceipt(e, x)

Sending(e) ==
    \/ \E x \in Actions : OpenSlot(e, x) \/ Receipt(e, x)
    \/ CommitBroadcast(e) \/ CommitAmbiguous(e) \/ CommitNothing(e)
    \/ ClaimThrows(e) \/ EndSend(e) \/ EndCycle(e)

Chain == \E x \in Actions :
    \/ \E result \in {"success", "reverted"} : MineTx(x, result)
    \/ Drop(x) \/ Resolve(x)

Next == (\E e \in Engines : Refreshing(e) \/ Sending(e)) \/ Chain

Spec == Init /\ [][Next]_vars

\* Every engine keeps polling and ends its sends; a transaction does not stay
\* in the pool for ever; a final one is resolved by some reconcile.
Fairness ==
    /\ \A e \in Engines :
          /\ WF_vars(ReadBalances(e) \/ ListOutflows(e) \/ Apply(e))
          /\ WF_vars(CommitBroadcast(e) \/ CommitAmbiguous(e) \/ CommitNothing(e))
          /\ SF_vars(EndSend(e)) /\ WF_vars(EndCycle(e))
          /\ \A x \in Actions : WF_vars(JudgeReceipt(e, x)) /\ WF_vars(Receipt(e, x))
    /\ \A x \in Actions :
          /\ WF_vars(Drop(x) \/ \E result \in {"success", "reverted"} : MineTx(x, result))
          /\ WF_vars(Resolve(x))

FairSpec == Spec /\ Fairness

-----------------------------------------------------------------------------
Labels == {"idle", "outflows", "receipts", "send", "commit", "wait"}
Height == Nat \cup {None}

(* Every variable has its type, an engine commits one action, and a height *)
(* belongs to a hold.                                                      *)
TypeOK ==
    /\ available \in [Accounts -> Nat \cup {None}]
    /\ snapshot \in [Accounts -> Height]
    /\ slot \in [Actions -> {"none", "open"} \cup Outcomes]
    /\ owed \in [Actions -> SUBSET Accounts]
    /\ minedAt \in [Actions -> Height]
    /\ \A x \in Actions : minedAt[x] # None => owed[x] # {}
    /\ pc \in [Engines -> Labels]
    /\ cur \in [Engines -> Actions \cup {None}]
    /\ \A e \in Engines : cur[e] \in IF pc[e] = "commit" THEN Actions ELSE {None}
    /\ sent \in [Engines -> SUBSET Actions]
    /\ block \in [Engines -> Nat]
    /\ read \in [Engines -> [Accounts -> Int]]
    /\ todo \in [Engines -> SUBSET Actions]
    /\ flying \in [Engines -> SUBSET Actions]
    /\ settled \in [Engines -> SUBSET Actions]
    /\ balance \in [Accounts -> Nat]
    /\ head \in Nat
    /\ tx \in [Actions -> {"none", "pool", "success", "reverted", "gone"}]
    /\ txBlock \in [Actions -> Height]
    /\ live \subseteq Actions
    /\ faults \in 0..MaxFaults

(* Whatever may still be mined is covered by what the signer holds: the    *)
(* two engines never commit the same money twice, through any order of     *)
(* refreshes, late receipts and dropped transactions (gate.ts holds,       *)
(* applySnapshot; outflows.ts).                                            *)
NoOverdraft ==
    \A acc \in Accounts :
        Total({x \in Actions : tx[x] = "pool"}, acc) <= balance[acc]

(* A spend that may happen or has happened is counted until a published    *)
(* figure already excludes it: its slot is open, or it is held for the     *)
(* account, or the account's snapshot is as high as its block.  It stays   *)
(* so when one refresh reads some of the accounts a transaction owes, or   *)
(* overtakes another (gate.ts settle, applySnapshot, setAvailable).        *)
SpendIsCounted ==
    \A x \in Actions, acc \in Accounts :
        Cost[x][acc] > 0 /\ tx[x] \in {"pool", "success"} =>
            \/ slot[x] = "open"
            \/ acc \in owed[x]
            \/ /\ tx[x] = "success"
               /\ snapshot[acc] # None
               /\ snapshot[acc] >= txBlock[x]

(* A slot settled as abandoned has no transaction: its spend is released   *)
(* outright, so none may exist (types.ts ActionOutcome.abandoned).         *)
AbandonedMeansUnsent ==
    \A x \in Actions : slot[x] = "abandoned" => tx[x] = "none"

(* No hold is kept for ever: once its transaction is final some refresh    *)
(* retires it for every account it owes, so capacity does not leak away    *)
(* (gate.ts applySnapshot, outflows.ts).                                   *)
HoldsDrain == \A x \in Actions : (owed[x] # {}) ~> (owed[x] = {})
=============================================================================
