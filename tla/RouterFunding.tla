---------------------------- MODULE RouterFunding ----------------------------
(***************************************************************************)
(* Acquisitions paid by a treasury.  The bot signs a batch that lets the   *)
(* ArbitrageRouter pull WBTC from the treasury for one vault, and sends it *)
(* in a transaction.  The batch carries no nonce and outlives both the     *)
(* risk slot and the receipt wait, so RouterFunding keeps account of every *)
(* one that may still execute and publishes to the risk gate what is left. *)
(*                                                                         *)
(* One arbitrage engine, its cycle of refresh, sends and receipts, the     *)
(* gate's ledger of the treasury's account, the router and the chain.      *)
(* Heights serve as chain time; one unit of either is one block.           *)
(*                                                                         *)
(* External, and assumed: the treasury moves only through the router and   *)
(* its approval covers its balance or bounds it (Funds is the smaller); a  *)
(* reorg replaces blocks but takes back no acquisition; a vault that left  *)
(* escrow does not return; one action's transaction is live at a time      *)
(* (AutoExecution, LiveTxRecorded).                                        *)
(*                                                                         *)
(* Nothing in the code keeps a refresh from reading a lower block than the *)
(* one before it, and the gate ignores what comes from below its figure.   *)
(* Two history variables, which no guard reads, tell when that goes wrong. *)
(***************************************************************************)
EXTENDS Integers, FiniteSets, FiniteSetsExt

CONSTANTS
    None,
    Vaults,
    Funds,       \* what the treasury holds and has approved
    MaxPrice,    \* bound: how far interest drives the price of a vault
    SlippageBps, \* maxSlippageBps, of 10000
    Life,        \* deadlineSeconds
    Margin,      \* AUTHORIZATION_EXPIRY_MARGIN_SECONDS
    ScanMargin,  \* SCAN_REORG_MARGIN_BLOCKS
    Depth,       \* how far below the highest block a read or a reorg goes
    MaxHeight,   \* bound: blocks
    MaxTx,       \* bound: transactions
    MaxBatches   \* bound: batches on record at once

ASSUME RouterAssumption ==
    /\ None \notin Int /\ None \notin Vaults
    /\ IsFiniteSet(Vaults)
    /\ Funds \in Nat /\ MaxPrice \in Nat \ {0} /\ SlippageBps \in 0..10000
    /\ Life \in Nat \ {0} /\ Margin \in Nat
    /\ ScanMargin \in Nat /\ Depth \in Nat
    /\ Depth <= Margin + 1 /\ Depth <= ScanMargin + 1
    /\ MaxHeight \in Nat /\ MaxTx \in Nat /\ MaxBatches \in Nat

Heights == 0..MaxHeight
Amounts == 0..(2 * MaxPrice)
TxIds   == 1..MaxTx

VARIABLES
    height,      \* the highest block
    price,       \* amountExitBtcToAcquire: the vaults' prices grow alike
    escrow,      \* the vaults in escrow
    tx,          \* the transactions
    auths,       \* authorizations: the batches on record
    inventory,   \* the treasury as last read
    gate,        \* the gate's figures for the treasury's account
    engine,      \* the vault being judged, and the batch signed for it
    todo,        \* vaults this cycle has yet to judge
    waiting,     \* transactions whose receipts this cycle awaits
    retiredTo,   \* history: the highest block batches were retired by
    overlooked   \* history: the gate's figure missed a batch it should hold

chain == <<height, price, escrow, tx>>
books == <<auths, inventory, gate>>
past  == <<retiredTo, overlooked>>
vars  == <<chain, books, engine, todo, waiting, past>>

\* The digest: the same vault, ceiling and deadline are the same batch.
Batch == [vault : Vaults, most : Amounts, deadline : Nat]
\* most is maxWbtcIn.
Auth == [vault : Vaults, most : Amounts, deadline : Nat,
         block : Heights, backed : BOOLEAN,
         executedAt : (1..MaxHeight) \cup {None}]
Id(a) == [vault |-> a.vault, most |-> a.most, deadline |-> a.deadline]

\* paid is what the router pulled, at is the block it was mined in.
Tx == [batch : Batch \cup {None},
       state : {"none", "live", "paid", "gone"},
       paid  : Amounts,
       at    : (1..MaxHeight) \cup {None}]
NoTx == [batch |-> None, state |-> "none", paid |-> 0, at |-> None]

Inventory == [balance : Nat, block : Heights]
ASSUME NoneAssumption == None \notin Inventory

Idle == [at |-> "judge", vault |-> None, most |-> 0, batch |-> None]

TypeOK ==
    /\ height \in Heights
    /\ price \in 1..MaxPrice
    /\ escrow \subseteq Vaults
    /\ tx \in [TxIds -> Tx]
    /\ auths \subseteq Auth
    /\ \A a, b \in auths : Id(a) = Id(b) => a = b
    /\ inventory \in Inventory \cup {None}
    /\ gate \in [available : Nat \cup {None}, block : Heights,
                 reserved : Nat]
    /\ engine \in [at : {"judge", "sign", "commit"},
                   vault : Vaults \cup {None}, most : Amounts,
                   batch : Batch \cup {None}]
    /\ todo \subseteq Vaults
    /\ waiting \subseteq TxIds
    /\ retiredTo \in Heights
    /\ overlooked \in BOOLEAN

Init == /\ height = 0
        /\ price = 1
        /\ escrow = Vaults
        /\ tx = [t \in TxIds |-> NoTx]
        /\ auths = {}
        /\ inventory = None
        /\ gate = [available |-> None, block |-> 0, reserved |-> 0]
        /\ engine = Idle
        /\ todo = {}
        /\ waiting = {}
        /\ retiredTo = 0
        /\ overlooked = FALSE

-----------------------------------------------------------------------------
(* The treasury. *)

\* The balance as of one block.
BalanceAt(h) ==
    Funds - MapThenSumSet(LAMBDA t : tx[t].paid,
                          {t \in TxIds : tx[t].state = "paid" /\ tx[t].at <= h})

\* The block a read is answered from, and the next one built on.
Heads == {h \in Heights : height - Depth <= h /\ h <= height}

LiveFor(v) == {t \in TxIds : tx[t].state = "live" /\ tx[t].batch.vault = v}

\* A live transaction a coming block may still execute.
Executable(v) == IF v \in escrow
                 THEN {t \in LiveFor(v) :
                         tx[t].batch.deadline >= height + 1 - Depth}
                 ELSE {}

\* The most the signed batches can still take: each vault is sold once.
Claims == MapThenSumSet(
              LAMBDA v : Max({tx[t].batch.most : t \in Executable(v)}),
              {v \in Vaults : Executable(v) # {}})

-----------------------------------------------------------------------------
(* The books: RouterFunding's record and the gate's ledger. *)

\* Mutant: every batch is held, not the worst of each vault.
HeldMutant(A) == MapThenSumSet(LAMBDA a : a.most, {a \in A : ~a.backed})

\* publishCapacity: what settled batches can still take.
Held(A) ==
    LET open == {a \in A : ~a.backed}
    IN  MapThenSumSet(LAMBDA v : Max({a.most : a \in {b \in open : b.vault = v}}),
                      {a.vault : a \in open})

NetOf(balance, held) == IF balance > held THEN balance - held ELSE 0

\* setAvailable: a read from below the last one is ignored.
SetAvailable(g, amount, block) ==
    IF g.available # None /\ block < g.block THEN g
    ELSE [g EXCEPT !.available = amount, !.block = block]

\* publishCapacity.
Publish(g, A, inv) ==
    IF inv = None THEN g
    ELSE SetAvailable(g, NetOf(inv.balance, Held(A)), inv.block)

\* Mutant: without the margin.
ExpiredMutant(a, now) == a.deadline <= now

Expired(a, now) == a.deadline + Margin < now

\* The router's events as of the head, from below the oldest batch.
Acquired(A, head) ==
    LET oldest == Min({a.block : a \in A})
        from   == Min({oldest, head}) - ScanMargin
    IN  {tx[t].batch.vault : t \in {u \in TxIds : /\ tx[u].state = "paid"
                                                  /\ from <= tx[u].at
                                                  /\ tx[u].at <= head}}

MinedBy(a, head) == a.executedAt # None /\ a.executedAt <= head

\* Mutant: a batch goes only when it is known to have executed.
RetiredMutant(A, head) ==
    {a \in A : ~MinedBy(a, head) /\ a.vault \notin Acquired(A, head)}

\* retireAuthorizations before it asks for the events.
Lasting(A, head) == {a \in A : ~MinedBy(a, head) /\ ~Expired(a, head)}

\* retireAuthorizations.
Retired(A, head) ==
    LET left == Lasting(A, head)
    IN  IF left = {} THEN {}
        ELSE {a \in left : a.vault \notin Acquired(left, head)}

\* settleAuthorization: from here on the batch is held by this record.
Settled(A, id, block) ==
    {IF Id(a) = id
     THEN [a EXCEPT !.backed = FALSE,
                    !.executedAt = IF block # None THEN block ELSE @]
     ELSE a : a \in A}

Reserve(g, amount) == [g EXCEPT !.reserved = @ + amount]
Release(g, amount) == [g EXCEPT !.reserved = @ - amount]

\* settle: the slot closes and the batch changes hands in one step, of which
\* the gate takes no notice when its figure is of a later block.
Settle(id, block) ==
    /\ auths' = Settled(auths, id, block)
    /\ gate' = Publish(Release(gate, id.most), auths', inventory)
    /\ overlooked' = (overlooked \/ inventory.block < gate.block)
    /\ UNCHANGED retiredTo

-----------------------------------------------------------------------------
(* A cycle of the engine. *)

Capacity(g) == g.available - g.reserved

CycleStarts == engine = Idle /\ todo = {} /\ waiting = {}

\* refreshInventory: everything as of one block, be it lower than the last.
\* A balance from below a block that batches were retired by may still hold
\* what they paid.
Refresh ==
    /\ CycleStarts
    /\ \E h \in Heads :
         /\ auths' = Retired(auths, h)
         /\ inventory' = [balance |-> BalanceAt(h), block |-> h]
         /\ gate' = Publish(gate, auths', inventory')
         /\ retiredTo' = Max({retiredTo, h})
         /\ overlooked' = (overlooked \/ (gate.block <= h /\ h < retiredTo))
    /\ todo' = Vaults
    /\ UNCHANGED <<chain, engine, waiting>>

\* The events cannot be read: what was retired so far stays so, and the cycle
\* ends with nothing read or published.
RefreshFails ==
    /\ CycleStarts
    /\ \E h \in Heads :
         /\ Lasting(auths, h) \notin {{}, auths}
         /\ auths' = Lasting(auths, h)
         /\ retiredTo' = Max({retiredTo, h})
    /\ UNCHANGED <<chain, inventory, gate, engine, todo, waiting, overlooked>>

\* The indexer lists another vault, the preview finds this one gone or
\* unprofitable, or the gate refuses it.
Skip(v) == /\ engine = Idle
           /\ v \in todo
           /\ todo' = todo \ {v}
           /\ UNCHANGED <<chain, books, engine, waiting, past>>

maxWbtcIn == price + (price * SlippageBps) \div 10000

\* openSlot; the preview may be older than the vault's sale.
Open(v) ==
    /\ engine = Idle
    /\ v \in todo
    /\ gate.available # None
    /\ maxWbtcIn <= Capacity(gate)
    /\ gate' = Reserve(gate, maxWbtcIn)
    /\ engine' = [at |-> "sign", vault |-> v, most |-> maxWbtcIn,
                  batch |-> None]
    /\ todo' = todo \ {v}
    /\ UNCHANGED <<chain, auths, inventory, waiting, past>>

\* buildAcquisition throws: no clock to trust, or no signature.
Unsigned ==
    /\ engine.at = "sign"
    /\ gate' = Release(gate, engine.most)
    /\ engine' = Idle
    /\ UNCHANGED <<chain, auths, inventory, todo, waiting, past>>

\* Bound: a batch is signed where its end is still within the heights.
Signable == {h \in Heights : h + Life + Margin + Depth < MaxHeight}

\* buildAcquisition; a batch signed twice is one record.
Sign ==
    /\ engine.at = "sign"
    /\ \E h \in Heads :
         LET b == [vault |-> engine.vault, most |-> engine.most,
                   deadline |-> h + Life]
             others == {a \in auths : Id(a) # b}
         IN  /\ h \in Signable
             /\ Cardinality(others) < MaxBatches
             /\ auths' = others \cup
                  {[vault |-> b.vault, most |-> b.most,
                    deadline |-> b.deadline, block |-> h,
                    backed |-> TRUE, executedAt |-> None]}
             /\ engine' = [engine EXCEPT !.at = "commit", !.batch = b]
    /\ UNCHANGED <<chain, inventory, gate, todo, waiting, past>>

\* Nothing was sent: the estimate failed, an intent is in flight, or the
\* send failed before the broadcast, which also ends the sends.
Drop == /\ engine.at = "commit"
        /\ Settle(engine.batch, None)
        /\ engine' = Idle
        /\ todo' \in {todo, {}}
        /\ UNCHANGED <<chain, inventory, waiting>>

\* The next transaction; they are numbered as they are sent.
Unsent == {t \in TxIds : /\ tx[t].state = "none"
                         /\ \A u \in 1..(t - 1) : tx[u].state # "none"}

Send(t) ==
    tx' = [tx EXCEPT ![t] = [NoTx EXCEPT !.batch = engine.batch,
                                         !.state = "live"]]

\* The executor claims a subject once.
Sendable == engine.at = "commit" /\ LiveFor(engine.vault) = {}

\* The slot goes to the receipt phase.
Broadcast ==
    /\ Sendable
    /\ \E t \in Unsent :
         /\ Send(t)
         /\ waiting' = waiting \cup {t}
    /\ engine' = Idle
    /\ UNCHANGED <<height, price, escrow, books, todo, past>>

\* The broadcast failed and may have landed: the slot closes, and the sends
\* end.
Ambiguous ==
    /\ Sendable
    /\ \E t \in Unsent : Send(t)
    /\ Settle(engine.batch, None)
    /\ engine' = Idle
    /\ todo' = {}
    /\ UNCHANGED <<height, price, escrow, inventory, waiting>>

Receipts(t) == engine = Idle /\ todo = {} /\ t \in waiting

\* finishAcquisition with our receipt, a success: the payment's block is kept.
Confirm(t) ==
    /\ Receipts(t)
    /\ tx[t].state = "paid"
    /\ Settle(tx[t].batch, tx[t].at)
    /\ waiting' = waiting \ {t}
    /\ UNCHANGED <<chain, inventory, engine, todo>>

\* Every other ending of it, the cycle's backstop included: no receipt, a
\* failed read, another transaction's receipt, a revert of any class.
NotConfirmed(t) ==
    /\ Receipts(t)
    /\ Settle(tx[t].batch, None)
    /\ waiting' = waiting \ {t}
    /\ UNCHANGED <<chain, inventory, engine, todo>>

-----------------------------------------------------------------------------
(* The chain. *)

\* relay and swapWbtcToVault: what a block at height b makes of t.
Accepts(t, b) == /\ b <= tx[t].batch.deadline
                 /\ tx[t].batch.vault \in escrow
                 /\ price <= tx[t].batch.most

\* transferFrom.
Affords(t) == price <= BalanceAt(MaxHeight)

\* The next block has no transaction of ours.
Empty == /\ height < MaxHeight
         /\ height' = height + 1
         /\ UNCHANGED <<price, escrow, tx, books, engine, todo, waiting, past>>

\* The next block, a new highest one or after a reorg another, executes t.
Include(t) ==
    /\ tx[t].state = "live"
    /\ \E h \in Heads :
         LET v == tx[t].batch.vault
             b == h + 1
         IN  /\ b \in Heights
             /\ height' = Max({height, b})
             /\ IF Accepts(t, b) /\ Affords(t)
                THEN /\ tx' = [tx EXCEPT ![t].state = "paid",
                                         ![t].paid = price, ![t].at = b]
                     /\ escrow' = escrow \ {v}
                ELSE /\ tx' = [tx EXCEPT ![t].state = "gone"]
                     /\ UNCHANGED escrow
    /\ UNCHANGED <<price, books, engine, todo, waiting, past>>

\* The nonce went to another transaction.
Replace(t) == /\ tx[t].state = "live"
              /\ tx' = [tx EXCEPT ![t].state = "gone"]
              /\ UNCHANGED <<height, price, escrow, books, engine, todo,
                             waiting, past>>

\* Another buyer.
Compete(v) == /\ v \in escrow
              /\ escrow' = escrow \ {v}
              /\ UNCHANGED <<height, price, tx, books, engine, todo, waiting,
                             past>>

\* Interest.
Accrue == /\ price < MaxPrice
          /\ price' = price + 1
          /\ UNCHANGED <<height, escrow, tx, books, engine, todo, waiting, past>>

-----------------------------------------------------------------------------
Cycle == \/ Refresh
         \/ \E v \in Vaults : Skip(v) \/ Open(v)
         \/ Unsigned \/ Sign \/ Drop \/ Broadcast \/ Ambiguous
         \/ \E t \in TxIds : Confirm(t) \/ NotConfirmed(t)

Chain == \/ Empty \/ Accrue
         \/ \E v \in Vaults : Compete(v)
         \/ \E t \in TxIds : Include(t) \/ Replace(t)

Next == Cycle \/ RefreshFails \/ Chain

Spec == Init /\ [][Next]_vars

\* Every await of the engine's loop ends, reads do not fail for ever, and
\* blocks come.
FairSpec == Spec /\ WF_vars(Cycle) /\ WF_vars(Empty)

-----------------------------------------------------------------------------
(* Properties. *)

\* What the signed batches can still take, the treasury has.  The code does not
\* promise it: see CoveredUnlessOverlooked.
TreasuryCovered == Claims <= BalanceAt(MaxHeight)

\* The same WBTC is never committed twice, however batches are signed again,
\* executed late, replaced or refused and whichever blocks are read, until one
\* of two things the code does not check: a batch is settled while inventory is
\* older than the gate's figure, so that publishCapacity is ignored, or a balance
\* is published from below a block that a failed refresh had retired batches by.
CoveredUnlessOverlooked == overlooked \/ TreasuryCovered

\* Signing a vault's batch again, each cycle under a fresh deadline, takes no
\* more from the gate than the worst batch on record did (publishCapacity).
ReSigningHoldsOnce ==
    [][\A a, b \in auths :
          (/\ a.backed /\ [a EXCEPT !.backed = FALSE] \in auths'
           /\ b.vault = a.vault /\ ~b.backed /\ b.most >= a.most)
            => gate'.available >= gate.available]_vars

\* A batch does not hold the treasury's money for ever: once the blocks have
\* passed every deadline, what is left of it is all on offer again
\* (retireAuthorizations).
MoneyReturns ==
    height = MaxHeight
        ~> (auths = {} /\ gate.available = BalanceAt(MaxHeight))
==============================================================================
