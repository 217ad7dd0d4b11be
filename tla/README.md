# Aave v4 bots: a TLA+ verification of the execution core

The repository runs two trading bots on Aave v4: a **liquidator**, which repays
unhealthy positions, and an **arbitrageur**, which runs two engines in one
process (one acquires escrowed vaults, one liquidates). Both send transactions from
a key that is worth money, or propose them to people who sign, to a chain that
answers late, on nonce sequences that must neither gap nor collide, out of balances
that must not be committed twice, and they must survive a crash between any two of
these steps. The packages that see to this are what these modules model:

| module | models | source | proofs |
|---|---|---|---|
| `IntentStore` | the rows of the intent store and its compare-and-set writes | `persistence` | |
| `Outbox` | abstract: what crash safety promises of the transactions the account may still have mined | | |
| `AutoExecution` | poll loops, reconcile, nonce allocator, claim / sign / record / broadcast / record, receipts, crashes, the chain; implements `Outbox` | `engine/shared`, `execution`, both engines | `AutoExecution_proofs` |
| `RelaySubmission` | sending through a private relay: its answers, the horizon, the fence it feeds, leaks, lagging heads, reorgs, crashes; implements `Outbox` | `execution/submission`, `engine/shared` | `RelaySubmission_proofs` |
| `RiskGate` | kill switch, breaker, exposure cap, code-hash guard | `risk` | `Risk_proofs` |
| `RiskLedger` | the gate's token ledger, both engines' refreshes and sends, the chain's balances | `risk/gate`, `engine` | `Risk_proofs` |
| `RouterFunding` | acquisitions paid by a treasury: signed batches that outlive their transaction | `engine/arbitrage/funding/router`, `contracts` | `RouterFunding_proofs` |
| `ProposalLifecycle` | abstract: what the store promises somebody who signs by hand | | |
| `ManualCustody` | the bot's proposals, operator-cli, a Safe and its nonce; implements `ProposalLifecycle` | `engine/shared`, `persistence`, `operator-cli`, `execution/safe.ts` | `ManualCustody_proofs` |
| `LiquidationRouter` | a liquidation paid by flash liquidity, its nested callbacks, and the bot that probes and quotes it | `contracts`, `engine/liquidation/funding/flash` | `LiquidationRouter_proofs` |
| `CandidateFeed` | how a candidate reaches an engine: the indexer's tables and two routes, the guard that may halt the bot, the window of a cycle | `services/ponder`, `engine/shared/indexer.ts`, both engines | `CandidateFeed_proofs` |
| `SumTheorems` | lemmas about sums over finite sets, for the three modules whose properties are sums | | itself |

`MC*.tla` give the constants of a module small values; every `.cfg` is one run.
`PROJECT.json` lists the runs, the source lines behind each definition, the
hazards with the properties that cover them, and the theorems.

To run them: `tlc -workers 2 -config Relay.cfg MCRelaySubmission` (the module of
each run is in section 3) and `tlapm Risk_proofs.tla`.

## 1. The system

### Components

| component | state | operations | modelled in |
|---|---|---|---|
| intent store (`persistence`) | one row per action: status, payload, nonce, hash, stamp, envelope, horizon | `recordIntent`, `transition`, `reconcile`; for operators `propose`, `claimProposal`, `markBroadcast`, `release`, `fail`, `supersede`, `expireProposals` | `IntentStore` (the first three), `ManualCustody` (the rest), `RelaySubmission` (the horizon) |
| nonce allocator (`execution/nonce.ts`) | lock (a promise chain), lease, one reclaimable hole | `withNonce`, `resync` | `AutoExecution` |
| transaction sender (`execution/txSender.ts`) | none | sign, `onSigned`, `beforeBroadcast`, broadcast | `AutoExecution`, `RelaySubmission` |
| private submission (`execution/submission`) | relay horizons | send to a relay, resolve, clamp and repair a horizon | `RelaySubmission` |
| crash safety (`engine/shared/crashSafety.ts`, `liveness.ts`) | the set `sending` | `claim`, `beginSend`, `endSend`, `markPending`, `resyncNonces` | `AutoExecution`, `RelaySubmission` |
| reconcile (`engine/shared/reconcile.ts`) | none between passes | `reconcilePending`, `recoverHorizon`, the resolvers | `AutoExecution` (AUTO rows), `RelaySubmission` (horizons), `ManualCustody` (plain MANUAL rows, SafeTxs) |
| executor, AUTO (`engine/shared/executor.ts`) | none between calls | `commit`, `ensureAllowance`, `revokeAllowance`, `recordOutcome` | `AutoExecution` |
| executor, MANUAL | proposals in the store | sweep, pass, propose, supersede, propose again | `ManualCustody` |
| Safe custody (`execution/safe.ts`) | the Safe's nonce, retained envelopes | reserve, classify, resolve by scan | `ManualCustody` |
| operator CLI | one process per command | claim, broadcast, confirm, release, fail | `ManualCustody` |
| engines (`engine/liquidation`, `engine/arbitrage`, `shared/engine.ts`) | the slots and broadcasts of a cycle | one poll cycle | `AutoExecution`, `RiskLedger`, `RouterFunding` |
| inventory funding, outflows | none between refreshes | `refreshInventory`, `spendFor`, `settledOutflows`, approvals | `RiskLedger`, `AutoExecution` |
| router funding | batches signed for a treasury | `buildAcquisition`, `settleAuthorization`, `retireAuthorizations`, `publishCapacity` | `RouterFunding` |
| flash funding | a baseline per pass | `vet`: select venues, probe, quote, floor | `LiquidationRouter` |
| risk gate (`risk/gate.ts`) | run state, streak, counter, ledger, holds | `openSlot`, `settle`, `halt`, `resume`, `verifyCode`, `applySnapshot` | `RiskGate`, `RiskLedger`, `RouterFunding` |
| control server, guard timer | none | `/halt`, `/resume`, periodic `verifyCode` | `RiskGate` |
| contracts | transient slots, allowances, deadlines | `liquidate`, `multicall`, callbacks; `relay` and `swapWbtcToVault` | `LiquidationRouter`, `RouterFunding` |
| runtime, services | wiring | boot order, poll loops | in the `Init`, `Boot` and fairness of the others |
| indexer client and guard (`engine/shared/indexer.ts`) | `unusableSince`, `halted` | `ok`, `read` | `CandidateFeed` |
| ponder indexer (`services/ponder`) | position, proxy mapping and escrowed vault tables | six event handlers, `/liquidatable-positions`, `/escrowed-vaults` | `CandidateFeed` |
| liquidation inputs (`domain.ts`, `reserves.ts`) | `candidateOffset` | the window over the candidates; which reserves may be borrowed | `CandidateFeed` (the window) |
| config, secrets, signer, logger, notifications, metrics | | | no: see section 6 |

### How they interact

An engine's cycle (`BaseEngine.run`) is the same in both bots:

1. `reconcile`: read the in-flight rows, judge each against the chain (and, under
   private submission, the relay), write the verdict with a compare-and-set on what
   was read;
2. `resyncNonces`: inside the allocator's lock read the `pending` count and the
   recorded rows that may still be live, and SET the lease above them;
3. if the gate is HALTED stop here (after revoking approvals, if the code guard
   is what halted it);
4. ask the indexer's guard, and end the cycle if it says no; refresh balances and retire holds
   or batches (`applySnapshot`, `retireAuthorizations`), read the indexer's candidates, pick (under flash funding, by probing each),
   and for each: open a slot, claim the row, queue for the lock, sign, record nonce
   and hash, broadcast or hand to the relay, record `submitted` with its horizon;
5. wait for the receipts, settle the slots, record the outcomes.

In the arbitrageur two such loops share one store, one allocator, one signer, one
gate and one `sending` set, and nothing orders their awaits. A sibling may judge,
resync or refresh between any two steps of a send.

In MANUAL mode step 4 ends in a proposal. From there people take over with
operator-cli, a program that shares nothing with the bot but the store and the
chain: it claims a row (under a Safe, reserving the Safe's nonce in an envelope on
the row), has the owners sign, broadcasts, and reports the transaction, which step 1
of some later cycle settles. Nobody locks; a command checks, and writes later.

What is sent ends in a contract. A liquidation under flash funding runs as a tower
of callbacks in `LiquidationRouter.sol`; an acquisition under router funding executes
a batch the bot signed, which any transaction of the bot's account that carries it, however old,
may still execute until its deadline.

### What is hard

- *Interleaving and atomicity*: everything between two awaits; compare-and-set
  writes of rows that are revived under the same id; two programs on one row.
- *Unreliable nodes and relays*: a `pending` count that omits our own mempool
  transactions, a node that does not know a transaction yet, lost replies, a receipt
  that belongs to a replacement, a relay that forgets or leaks what it holds, a head
  that is read low or reorganised.
- *Crash and restart* with nothing but the store and the chain left.
- *Signatures outlive their senders*: a SafeTx whose claim was released, a batch
  whose transaction was dropped.
- *Money*: balances read at one height, transactions mined at another, holds
  that must bridge exactly the time in between; quotes taken against a balance
  anyone may change.
- *Stale lists*: the indexer's progress, the head, the tables and the live reads are
  five reads at different moments; an answer must not silently lack a candidate.
- *Overlap*: code checks started by a timer whether or not the last has ended;
  callbacks nested in callbacks over one transient slot.

The list in `PROJECT.json` ("hazards") names each at its line.

### What makes each component correct

- store and crash safety: a transaction that may still be mined is on record
  (`LiveTxRecorded`); an attempt keeps its hash (`HashWrittenOnce`); what is being
  sent is judged by nobody else (`SenderOwnsRow`); a terminal row tells the truth
  (`VouchedVerdicts`; `VerdictsMatchChain` where receipts are compared); whatever is in flight is resolved (`InFlightResolves`);
- allocator and fence: no nonce is signed over a live transaction
  (`NoNonceReuse`) and a hole is reissued (`GapReissued`);
- store, allocator and fence together, over public and private submission alike: the rows are
  an outbox of what the account may still have mined (`ImplementsOutbox`);
- private submission: a horizon frees a nonce neither too early (`OneLivePerNonce`,
  `DroppedNeverLands`) nor never (`HorizonFrees`), and survives the loss of its write
  (`HorizonIsRecovered`); what is reported as not sent was not (`AbandonedIsNowhere`);
- gate as seen by a send: nothing is broadcast while it is halted
  (`HaltedMeansQuiet`);
- gate: `ExposureBounded`, `BreakerTrips`, `CaughtStaysHalted`,
  `NeverVerifiedNeverTrades`, `CodeHaltClears`;
- ledger: no balance is committed twice (`NoOverdraft`), because each spend is counted
  until a published figure excludes it (`SpendIsCounted`) and none is released that may
  happen (`AbandonedMeansUnsent`); holds go in the end (`HoldsDrain`);
- router funding: the treasury covers what is signed, but for two paths of the code that are named
  (`CoveredUnlessOverlooked`), signing a
  vault again takes nothing more from the gate (`ReSigningHoldsOnce`), the money returns (`MoneyReturns`);
- custody: a signed SafeTx that can execute is never forgotten
  (`ReservationRemembered`), rows end as what the chain did (`ConfirmedMeansExecuted`,
  `SuccessIsNotFailed`, `ReportIsSettled`), and every write keeps the lifecycle
  (`ImplementsLifecycle`);
- candidates: an answer of the indexer lacks nothing it does not admit to
  (`PositionsAreAnswered`, `VaultsAreAnswered`), each candidate gets its turn (`FairShare`), and an indexer
  that stays unusable ends in a halt (`HaltComes`);
- flash liquidity: a call leaves nothing behind for the next (`CallsEndWhole`), each
  liquidation earns its minimum whatever moved (`EveryLiquidationPays`), and a quote
  that is still fresh is met exactly (`FreshQuoteStands`).

## 2. The modules

### IntentStore

A row is a record of status, nonce, hash and stamp (`updatedAt`). Every write of the
two adapters is one SQL statement or one synchronous map update, so each is an
operator from the old row to the new: `Recordable` / `Recorded` (`recordIntent`: a
key without a live row starts a fresh attempt with every column cleared) and
`Transition` with what the writer expects (`Meets`). The three expectations the code
uses are `Anything`, `AtStamp` (`markPending`, a failed send) and `AtHash` (receipts,
approvals); reconcile's is `AsRead` in `AutoExecution`. The columns that other writers
own are in the modules of those writers: payload and envelope in `ManualCustody`, the
horizon in `RelaySubmission`.

### Outbox

What all of crash safety is for, without its machinery: `open` is what may still be mined, as the rows have it,
`closed` what was sent, or given up, for good, and `count` the account's mined nonces. `Send` puts a
new transaction in, for a subject and at a nonce that no open one has; `Close` lets some go for good; with `Land` one
of them is mined, and no other way. `AutoExecution` and `RelaySubmission` each define what is `Outgoing` and
`Gone` in their own terms, which differ where it matters: over the mempool a transaction is over when the pools lose it
or its nonce is used, over a relay when no head a reorg can bring back is within its deadline and no pool
has a leaked copy. There is no row, lock, lease, hole, horizon or fence in `Outbox`: that all of them together
look like it from outside is `ImplementsOutbox`.

### AutoExecution

One process in AUTO mode with a store, over public submission. The variables are the
store (`row`), the chain (`tx`, `mined`), the process's shared memory (`halted`, `up`,
`lease`, `hole`, `queue`, `sending`) and the locals of each engine (`pc`, `cur`,
`attempt`, `mytx`, `work`, `latest`, `pend`, `verdict`, `sent`). The actions are the code
between two awaits whose interleaving matters:

| actions | code |
|---|---|
| `Boot`, `ReadPending`, `ReadSigned`, `Seed` | `buildExecutor`'s boot resync, `resyncNonces` under the lock |
| `Snapshot`, `ReadCounts`, `SkipSending`, `Judge`, `Probe`, `WriteVerdict`, `EndPass` | `reconcilePending` |
| `Claim`, `BeginSend`, `Sign`, `Mark`, `Submit`, `Return`, `Post`, `Catch` | `commit` and the same steps of `sendApprove` |
| `ApprovalReceipt` | the end of `sendApprove` |
| `EndDrive`, `Outcome` | the receipts of a batch, `recordOutcome` |
| `Throw`, `Crash`, `Halt`, `Resume` | a bookkeeping call that throws, the process dying, the operator |
| `Arrive`, `Lose`, `Mine` | the pools and the chain |

`Kind` makes a subject an action, an approval (`ensureAllowance`) or a revocation
(`revokeAllowance`, the only thing a halted cycle sends). `Arbitrage` says which engines
acquire vaults: they isolate a failure to the vault, compare the hash of a receipt
and may approve between sends, while the liquidation engine loses the cycle, does not
compare and approves first.

A transaction is `signed`, then `limbo` (the request is out, no node can tell its fate),
`pool`, and mined (`success`, `reverted`) or `dead`. It is *live* while a block
could still include it.

What is assumed of the outside, and named in the module:

- the account's transactions all come from this process (the deployment's rule;
  `bindExecutionIdentity` enforces one store per account);
- a receipt and the `latest` count are accurate when read; the `pending` count may
  leave out any part of the mempool (`PendingCounts`);
- past the grace window the node's "unknown" is authoritative: `PastGrace` lets a
  row be old at any time except between its pre-broadcast record and the moment
  its transaction reached a pool or was lost. This is what `UNKNOWN_TX_GRACE_MS` (30 s)
  is for;
- the reply to a claim may arrive after the grace window (`SlowClaims`) or not.
  `SenderOwnsRow` needs that it does not, since `beginSend` follows the reply;
  the other properties do not, and AutoProgress checks its own with the reply late;
- a row is driven by one engine (`Owner`), as the arbitrageur wires them. If two engines
  shared a key, the unconditional write after a broadcast would rest on `sending`
  alone: listed as a hazard;
- stamps are fresh: a write never reuses a stamp somebody remembers. The code uses
  milliseconds and two writes of one row are a round trip apart.

A cycle that finds the gate halted may revoke whether or not the code guard halted
it: one more behaviour than the code has. `MaxTx` bounds the signatures and `MaxFaults`
the crashes, throws, lost replies and writes, halts and failed signatures; both are
guards of the module. Time is not modelled beyond "old or young".

### RiskGate

Every handler of the gate is synchronous, so each is one action, except `verifyCode`:
a pass begins, reads the addresses one by one and concludes, interleaved with other
passes. The code compares a sequence number taken at the beginning with the current
one; `overtaken`, the passes for which they differ, is that comparison exactly, and
keeps the state finite. `caught` is a history variable: the addresses a pass reported
as changed that have not been put back since. Refusals that depend on the action's own
data (profit floor, freshness, ledger) appear as an engine that does not open a slot. A
threshold that is not configured is one that is never reached. Names that `RiskLedger` has too carry the prefix
`Gate`, so that `Risk_proofs` can extend both halves of the gate.

### RiskLedger

The ledger part of the gate with the two engines around it, under inventory funding.
An account is a token the signer holds; an action declares a cost per token (`Cost`)
and carries one transaction. `ReadBalances`, `ListOutflows`, `JudgeReceipt` and `Apply` are
the awaits of a refresh; `OpenSlot`, `CommitBroadcast`, `CommitAmbiguous`, `CommitNothing`,
`ClaimThrows` the answers of `commit`; `Receipt` the classification of a receipt. `MineTx`
lets a transaction succeed only if the balance covers it: the token contract's check.

`Reserved` is derived from the open slots, `HeldFor` from the holds.
`spentSinceRefresh` is left out: under inventory funding every spend that reaches it
carries a hash and becomes a hold. The outcome `contended` is `failed` to the ledger. The
in-flight rows that `settledOutflows` reads are the set `live`; a row leaves it only when
its transaction is final, which is what `AutoExecution` shows of them (`LiveTxRecorded`).
Each transaction mines in a block of its own. A broadcast transaction becomes a hold over the
accounts it owes anything of (`Debts`); one that owes nothing leaves no hold. Dropped transactions stay
dropped: that a row is given up only then is `AutoExecution`'s and `RelaySubmission`'s matter. A
restart, which forgets the holds, is documented as accepted in `gate.ts:87` and left out.

### RelaySubmission

Under private submission the node knows nothing of our transactions, and `AutoExecution`'s
evidence that one is gone (the node's "unknown" past a grace window) says nothing. What frees its nonce
is the row's horizon. The module takes the store, the lock and the races of two engines as
`AutoExecution` shows them, in coarser steps (a claim with its signature and record is one, so is each
row of a pass), and adds the rest:

| actions | code |
|---|---|
| `Sign`, `Submit`, `Stamp` | `commit` and `sendApprove` over a relay: the answers of `flashbots.ts`, `horizonFor`, the write after the broadcast |
| `Settle`, `GiveUp`, `Recover` | `resolveBroadcastIntent`, `recoverHorizon` |
| `Resync` | `resyncNonces` with `liveNonces`, its fence and its hole |
| `Crash` | the process dies; row and chain are all that is left |
| `Block`, `Leak`, `Evict`, `Forget` | the chain, the mempool, the relay |

Horizons have two writers: `Stamp` (the relay's word or the configured window, whichever is later, clamped) and
`Recover` (the relay's word only). Either may read a head `Depth` below the highest block; the chain is
*past* a horizon only when such a head is more than `Margin` above it. Heights are counted down
from the highest block, and one so low that nothing depends on it is not lowered further, so time
is unbounded and the state space finite.

Assumed, and named in the module: the relay acts on a request at once or never; a copy that
leaks to the mempool is in our node's pool too; a reorg takes back no transaction of this account;
`2 * Depth <= Margin + 1`, which is what `reclaimMarginBlocks` is for; the relay keeps a
transaction for the configured window at most (`Lifetimes`), as the comment on the window requires
(`liveness.ts:229`): with a longer one `OneLivePerNonce` fails.

### RouterFunding

The arbitrage engine paying from a treasury. It signs a batch (vault, ceiling, deadline; no nonce), sends it
in a transaction, and from then on the batch may execute until its deadline, whatever became of slot
and transaction. `auths` is `RouterFunding.authorizations`, `gate` the treasury's figures in the risk
gate. A batch is *backed* while a slot reserves its price; `Settle` closes the slot and hands the
batch to the record in one synchronous step, and `Held` is what the record then holds back: per vault
the dearest open batch. `Refresh` reads balance, events and time as of one block, any of the blocks a lagging node
may answer from, and retires what has executed, expired or lost its vault; `RefreshFails` is the reading whose
events cannot be had: what it had deleted by then (`router.ts:333-343`) stays deleted, and nothing is
published. `Open`, `Unsigned`, `Sign`, `Drop`, `Broadcast`, `Ambiguous`, `Confirm` and
`NotConfirmed` are the exits of `prepareAndSend` and `finishAcquisition`; the contract side (`Accepts`,
`Affords`) is `SelfCallRelayer.relay` and `swapWbtcToVault`. Other buyers, interest, replaced
transactions and reorged blocks come at any time.

Assumed: the treasury moves only through the router; a vault that has left escrow does not return;
`Depth <= Margin + 1` and `Depth <= ScanMargin + 1`. Funds is the smaller of balance and allowance. A reverted
transaction and a replaced one are both `gone`: nothing asks which.

*What the code does not promise.* `publishCapacity` "runs after each refresh, and after each settlement with the
last read, so the gate sees a new hold before the send loop judges the next vault" (`router.ts:285-286`). But a
refresh may read a lower block than the one before it, `refreshInventory` keeps that reading (`router.ts:277`), and
`setAvailable` then ignores whatever is published with it (`gate.ts:121`), new holds included. TLC refutes
`TreasuryCovered`, that the treasury has what its signed batches can still take, in the instance of Treasury (put it in place of
`CoveredUnlessOverlooked` in `Treasury.cfg`): a refresh reads 2 units at block 1; the next one is answered
from block 0 and is ignored; a batch of 1 is signed and its send fails ambiguously, so its slot closes, and the
hold published in its place is ignored; so is the refresh of the next cycle, from block 0 again; the price rises, and a batch of 2 for
the other vault is admitted on the old figure and sent. Both transactions are in the pool, and they ask 3 of 2.

A second path needs a failed refresh: it retires a batch by the block its payment was mined in, the next refresh reads a
lower block, whose balance still contains that payment, and publishes it with no hold against it. It takes three
units to see.

The history variable `overlooked` is set by the step that goes wrong (a settlement
while the gate's figure is of a later block than the last reading; a published reading from below a block that batches were retired by, `retiredTo`), and
`CoveredUnlessOverlooked` says that nothing else breaks the cover. No guard reads the history.

### ProposalLifecycle and ManualCustody

`ProposalLifecycle` is what a person who signs by hand may rely on, whoever writes: a subject's
proposal is offered, reserved, reported, settled; from the reservation on its terms do not change; an
offer that something signable is bound to is not withdrawn.

`ManualCustody` is the program: `store` rows with payload, envelope (the Safe nonce reserved) and
hash; the bot's loops (`Sweep`, `Read`, `Resolve`, `ScanFails`, `CycleDone`, `Propose`, `Supersede`,
`ProposeAgain`); operator processes (`StartClaim`, `StartRelease`, `StartFail` check, `ClaimWrite`,
`ReleaseWrite`, `FailWrite`, `Send`, `Mark` write later, `Crash` at any point, `Confirm`); and the
chain with the Safe (`SignExternally`, `Mine`, `SpendNonce`). `signed` are the SafeTxs whose owners may hold
signatures: anyone can execute one while the Safe's nonce stands at its own, which is why releasing or
failing a row must not forget it. A SafeTx is identified by subject, payload and nonce, which is what its
hash is made of. `phases`, `terms` and `bound` map the store to the lifecycle.

Two history variables mark the exemptions of `ReservationRemembered` and `SuccessIsNotFailed`, neither of
which is a gap of the model:

- `dropped`: a pass failed the row on the evidence of a transaction. The SafeTx of a reverted
  transaction can still be executed by another one, so `ExecutableMeansLive`, which is what
  `operations.ts:481-482` says of `fail`, does not hold without this exemption;
- `crossed`: two operator commands were under way on one row at once. Each checks first and writes
  later, and only the writes are compare-and-set.

`Confirm` takes any transaction with the row's payload: calldata does not carry the Safe's nonce, so
one that carries another SafeTx of the same call is accepted (`operations.ts:424`), and
`SuccessIsNotFailed` exempts the row it was reported for. The comment at `persistence/src/types.ts:293-297` says
that `release` clears the Safe envelope; both adapters keep it (`postgres.ts:320-330`,
`memory.ts:152-158`), on purpose, and so does the model.

### LiquidationRouter

One module from both sides of the chain, because the floor that protects a liquidation is computed on one and
enforced on the other. `evm` is what a revert rolls back: balances, allowances, the owner's gain, and the
transient slots (`expected` callback, `waiting` wrappers, the unlocked pool manager, the list of debts). `run` is
the transaction under way, with the stack of venues that have called back and wait to return. Each
step of the state machine in `LiquidationRouter.sol` and `VenueManager.sol` is an action:

| actions | code |
|---|---|
| `Liquidate`, `Settle` | `liquidate` before and after its first iteration; each call of `multicall` |
| `SkipSetup`, `SetUp`, `OnSetUpCallback`, `Lock` | the setup phase and the wrapper that unlocks UniswapV4 |
| `SkipLoan`, `FlashLoan`, `OnFlashLoan`, `Repay` | flash loans and flash swaps, their callbacks and what is owed |
| `Silent` | a venue that returns without calling back |
| `ExecuteLiquidation`, `Swap`, `Swapped` | the innermost frame |
| `Vet`, `Probe`, `BelovedError` | `FlashFunding.vet`, the simulation made to revert with its figures, the quote and the floor |
| `Include`, `End`, `Move`, `Give` | inclusion alone or in a multicall, the market, gifts of WBTC |

`Fail` is a revert: it rolls back the call in a multicall that need not succeed, the transaction otherwise. During a
transaction nothing else moves; between probe and inclusion everything may. Amounts stay
below `MaxUint` by assumption, except the floor, where the code's overflow guard is `Profitable`.
The adapter, the lens, the tokens, the pool manager and the lenders are external. `expected`, `fresh` and `sold`
are history: what a call was quoted, whether the market and the balance are still what its probe
saw, and whom the bot has liquidated. The market (`Markets`) moves by itself: what one call of a batch does to the
price the next one meets is not in the model, so `FreshQuoteStands` is about leftovers and gifts, not price impact.

### CandidateFeed

From the chain to the positions and vaults one cycle hands on. The chain (`Open`, `Supply`, `Leave`, `Reprice`,
`AddVault`, `RemoveVault`) puts an event in a block, and the indexer applies the blocks in order.

| actions | code |
|---|---|
| `IndexBlock` with `OnUserProxyCreated`, `OnSupply`, `OnLeave`, `OnAddedVault`, `OnRemovedVault` | the handlers of `Adapter.ts`, `Spoke.ts`, `VaultSwap.ts` with `positionAccounting.ts` |
| `Ask`, `Judge` (with `assessIndexerLag`, `Bad`) | `Indexer.ok`: the two reads, then the verdict and the streak |
| `Tick`, `Operator` | the clock the streak is measured by; whatever else halts or resumes the gate |
| `ReadRows`, `ReadMappings`, `ProbePositions` | `/liquidatable-positions`: two table queries, then the chunks of probes |
| `ReadRows`, `PreviewVaults` | `/escrowed-vaults`: one query, then the previews, a reverted chunk read one by one |
| `Unavailable` | a request, a balance read or a body that fails: the cycle ends |
| `PollPositions`, `PollVaults` | the engine's window over the answer and its rotation; the engine's own estimate |

`owed` is a history variable: at the reads of a verdict, the candidates that have been ones since `maxLagBlocks`
before the head that was read, less those that stopped since. `missed` is what the route says it could not read.
A failed read takes one entry or a whole chunk (`Lost`). `Keep` is the filter of the two routes and, as `Without`, the
deletion of a row: what `SelectSeq` would say, in a form the prover can open.

Assumed of the outside: Ponder writes a block's rows and its checkpoint in one transaction, in block order; a row that is
updated may move to the end of its table (no query fixes an order); the start block of the indexer precedes the first
supply; the live reads of a route are pinned to one block, so they are one step. Left out: a reindex
from the start block and reorgs of indexed blocks, a pin that fails, a guard that is not configured, and the wait for
readiness at boot. Both tables have a primary key, so the filters for malformed or repeated entries pass everything.

## 3. The runs

| run | module | checks | states |
|---|---|---|---|
| AutoContention | MCAutoExecution | `NoNonceReuse`, `VouchedVerdicts`, `SenderOwnsRow`, `HashWrittenOnce` | 2.3 M |
| AutoProgress | MCAutoExecution | `LiveTxRecorded`, `InFlightResolves`, `GapReissued` (liveness), `HaltedMeansQuiet`, `ImplementsOutbox` (refinement) | 76 k |
| AutoReplaced | MCAutoExecution | `VerdictsMatchChain`: **violated** | |
| Gate | MCRiskGate | `CaughtStaysHalted`, `ExposureBounded`, `NeverVerifiedNeverTrades`, `BreakerTrips`, `CodeHaltClears` (liveness) | 372 k |
| Ledger | MCRiskLedger | `NoOverdraft`, `SpendIsCounted`, `AbandonedMeansUnsent`, `HoldsDrain` (liveness) | 240 k |
| LedgerThrow | MCRiskLedger | `AbandonedMeansUnsent`: **violated** | |
| Manual | MCManualCustody | `ReservationRemembered`, `ConfirmedMeansExecuted`, `SuccessIsNotFailed`, `ImplementsLifecycle` (refinement), `ReportIsSettled` (liveness) | 118 k |
| ManualWedge | MCManualCustody | `ExecutionIsRecordable`: **violated** | |
| Relay | MCRelaySubmission | `OneLivePerNonce`, `AbandonedIsNowhere`, `DroppedNeverLands`, `HorizonFrees`, `HorizonIsRecovered` (liveness), `ImplementsOutbox` (refinement) | 74 k |
| Treasury | MCRouterFunding | `CoveredUnlessOverlooked`, `ReSigningHoldsOnce`, `MoneyReturns` (liveness) | 1.7 M |
| Liquidation | MCLiquidationRouter | `CallsEndWhole`, `EveryLiquidationPays`, `FreshQuoteStands` | 942 k |
| Feed | MCCandidateFeed | `TypeOK`, `PositionsAreAnswered`, `VaultsAreAnswered`, `FairShare`, `HaltComes` (the last two liveness) | 429 k |

Where a table row names no `TypeOK`, the types are a theorem (`TypeCorrect`, `TypesHold` for the settlement router) and no run checks them again.

Why the instances are enough:

- **AutoContention**: both engines of the arbitrageur, `a` sending an action and `b` an
  approval. Two transactions are the least for a nonce to be contended, and every
  loss, delay and muteness of the pools is free (not counted as a fault).
  They are also two attempts of one row, the least for a stale write of the first to meet
  the second, with a sibling that judges what it does not drive.
- **AutoProgress**: liveness with one engine, an action and a revocation, and one fault: a crash, a lost
  reply or a throw between any two steps, which is what `LiveTxRecorded` is about. A hole and a
  live transaction above it need two transactions, the reissue of the hole a third. `ImplementsOutbox` is checked
  here, and holds in the instance of AutoContention as well.
- **Gate**: two overlapping passes over two contracts, so that one can have read either
  contract before the other found it changed; two slots under a cap of one, a streak of two.
- **Ledger**: a liquidation that owes two tokens, of which its own engine's refresh reads both and the
  other engine's one, against an acquisition for the shared token, of which there is one: a unit
  counted by nobody overdraws. One receipt read may fail. What three actions would add, a batch
  that fails between two sends, is LedgerThrow.
- **Relay**: one subject sent twice by either of two engines is the least for a nonce and a row to be used
  again; window 1, ceiling 2, margin 1 and depth 1 put every horizon on either side of its
  deadline by a lagging head, by the clamp and by the margin. The subject is an approval, whose last
  write is the guarded one; the proofs cover actions and mixtures as well. One crash.
- **Treasury**: two vaults at price 1 or 2 and two units, so that both can be paid at the first price only;
  a life of one block and four heights let a batch be signed, expire, be retired and signed again
  below a head that lags by one. Two batches on record are the least to count one vault twice. The ceiling is the price
  itself: a slippage doubles what a batch asks, not what can happen to it. With three units the failed refresh of `overlooked`
  matters as well (without that clause TLC refutes the invariant there); the theorem is about any treasury and slippage.
- **Manual**: one row, two payloads (fresh terms against stale), one loop and one operator, two transactions
  for one call, and one spending of the Safe's nonce, under either custody: enough for a claim to be
  released and taken again at the same or the next nonce, for a report to name a transaction that loses
  to another, and for terms to be retired under a signature. Two operators at once are what `crossed`
  exempts; ManualWedge needs one.
- **Liquidation**: one borrower owes a token the pool sells (a flash swap within the unlocked pool
  manager, inside the WBTC loan), the other WBTC itself. Six markets: calm, dearer, a payment that
  shrank, grew or vanished, a silent venue. Two calls of the owner's use another lender and buy
  back the debt token, with the fairness loan and without it. Multicalls of two are the least for one
  call to find what another left.
- **Feed**: two proxies, one with a position when the bot starts, and two vaults, over a window of one and chunks of two:
  the least for a window to leave somebody out and for one entry of a chunk to spoil the other's answer.
  Two blocks are mined (`MaxHead` is 4, the first two are the history that a lag bound and a trailing head of one each
  ask for), so that a position or a vault comes or goes between any two of the five reads; one read or
  chunk fails. The streak halts after one tick.

The passing Ledger run lets the store fail the claims of the arbitrage engine only
(`StoreFails`): with the liquidation engine's included, `AbandonedMeansUnsent` fails, which is
the run LedgerThrow. `VerdictsMatchChain` is a theorem where every sender is an arbitrage engine
and fails in AutoReplaced, where a liquidation engine sends.

**Deadlock** is checked in every run but Manual, ManualWedge, Relay and Treasury, whose bounded
transactions, Safe nonces or heights can be used up with nothing left to do.

**Fairness.** What is assumed in each module and why:

- *AutoExecution*: each engine keeps polling (`setTimeout` loops, `try/finally` around every cycle), so its
  steps are weakly fair. Resync sees only young or known rows again and again unless the clock
  moves on, so `Seed` with no unknown young row and `Judge` of a row past its grace window are
  strongly fair: a row that just waits does get old. A request does not hang for ever, and a
  block comes while a pool holds the account's next transaction.
- *RiskGate*: the timer's passes begin, read and conclude.
- *RiskLedger*: a refresh and a commit go on, a transaction does not stay in the pool for ever, and an
  engine that could end its sends again and again does.
- *RelaySubmission*: a request is answered or times out (`Submit`, `Stamp`); a cycle judges every row
  (`Settle`, and strongly `GiveUp`, since heads that lag can disable it again) and some of the
  probes for a row without a horizon are answered (`Recover`, strongly); new highest blocks come.
- *RouterFunding*: every await of the loop ends, reads do not fail for ever (`RefreshFails` is owed nothing), and blocks come.
- *ManualCustody*: the bot's loop reads, supersedes and goes on, and its cycle, which has finitely many
  candidates, ends (`CycleFairness`). Operators owe nothing. Only ManualWedge, which asks whether they
  *could* end something, makes them try every command again and again (`OperatorFairness`).
- *CandidateFeed*: the two poll loops go on, and the clock. Nothing makes the chain, the indexer or the operator move:
  `HaltComes` must hold for an indexer that has stopped for good.

Nothing is assumed of faults, of halts ending, of owners, or of markets.

### What the violations show

- **LedgerThrow** (`liquidation/engine.ts:530`). If the store fails the claim of a later
  candidate, the batch's `finally` settles the slots of transactions already broadcast as
  `abandoned`, which means by its own documentation that no transaction exists; their spend is
  released. The arbitrage engine has a backstop against exactly this.
- **AutoReplaced** (`liquidation/engine.ts:478`). A receipt is taken for that of the transaction
  waited for without comparing hashes; when its nonce was reissued, the row of a liquidation
  that never mined is recorded as confirmed. The arbitrage engine compares.
- **ManualWedge** (`operator-cli/src/operations.ts:359`). Claim, have the SafeTx signed, release, execute: the row
  is proposed with an executed envelope. `claim` and `broadcast` send the operator to `confirm`, `confirm` sends
  the operator back to `claim`, `release` and `fail` refuse, and the bot leaves a row with an envelope
  alone. It stays live, and under `assertNoOtherLiveSafeClaim` blocks every other Safe claim.

### What the lease may be SET to

`NoNonceReuse` says that no live transaction is signed over, not that the lease is never behind the account, and it may be.
A resync reads the `pending` count and then, in another await, the rows (`crashSafety.ts:254-258`). The lock keeps
broadcasts out of the time between, but not outcomes: a transaction the count omits is mined, the sibling's receipt closes its
row, and the lease is SET to a nonce that is used up, although `nonce.ts:117-118` says the SET reflects any broadcast that just
completed. In the instance of AutoContention TLC finds

    \A t \in TxIds : up /\ tx[t].state = "success" => ~NextIs(tx[t].nonce)

violated in 26 states, one transaction and no fault. It costs a send that the node refuses, and the next resync heals it, so no run
demands it; `ImplementsOutbox` does not either, whose `Send` is a broadcast that may still be mined.
`RelaySubmission` does not show it, as its `Resync` is one step.

Every property of a passing run has a mutant of the code (definitions named `...Mutant` beside
the ones they change) under which TLC finds it violated: a dropped fence, a missing margin,
a write without its expectation, a leaked id, an allowance left behind.

## 4. The proofs

Every theorem holds for every value of the constants the module's assumptions admit: any finite sets of
engines, rows, vaults, accounts or transactions, any prices, margins and bounds. Each follows one
argument: an inductive invariant, checked by TLC on the run's instance before it was proved, one lemma
per action or per group of actions that move the same things, and a last step in temporal logic.

### AutoExecution_proofs

*Types and the lock*: `TypeCorrect`, of the inductive invariant `Inv`. Types alone are not inductive: the
lease is `None` until it is seeded, and a nonce is taken from it; it is seeded from the nonces of rows that
must carry one; the lock is released by the head of its queue. `Inv` adds `LockInv` (who is inside the lock
is its head), `BootInv` (nothing but the boot resync runs before `up`), `PassInv` and `SendInv` (the row,
verdict and transaction each step needs). `FreshStampExists` discharges the clock: two stamps
per engine are remembered at most, so a set of more has a fresh one.

*The record*: `LiveIsRecorded` is `Spec => []LiveTxRecorded`, which is not inductive: a row may leave
flight only on final evidence, the evidence is gathered in one step and used in a later one, and a hash is
recorded one step before its transaction goes live. `RecInv` adds what each step leaves to the next:

- `ChainInv`, `NameInv`: what is mined is counted, no pass has counted more, and a hash is recorded
  with the nonce it was signed for (so `latest > nonce` is evidence about that hash);
- `StampInv`: a stamp a pass has read names one state of the row, so a guarded write lands on the
  row as it was judged or not at all;
- `VerdictInv`: a verdict waiting to be written on a hash is about a final transaction;
- `OwnerInv`, `AttemptInv`, `SignedInv`, `RecordInv`: a row has one sender, the attempt it is
  sending has no hash before its record, and names the sender's own transaction from then on.

The steps fall into four groups with a lemma each: quiet ones (`QuietKeeps`), moves of the chain
(`EvolveKeeps`, from `Evolves`: evidence is only added), writes that leave the row its hash
(`StatusWriteKeeps`) and the sender's own writes (`OwnWriteKeeps`, for claim and record). Two action
properties follow from the same invariant: `HashIsWrittenOnce`, by the guard of each write of a row
(`RowWriters` shows there are no others), and `HaltedIsQuiet`, since only `Submit` broadcasts, and
only what its engine signed for its own row. That the grace window outlasts a broadcast (`PastGrace`) is what
makes an unknown transaction final, and is used once, in `JudgeRecords`.

*The nonces*: `NoNonceIsReused`. Its invariant `FenceInv` says what the lease and the hole lie clear of at
each step of the lock: a transaction that is live, or signed by whoever holds the lock, has a nonce below
the lease and not in the hole. The hard step is the resync, which takes three awaits: between the count,
the read of the rows and the seed nobody else signs, because `LockInv` gives the lock one holder, and what is
live and above the count is on a row by `LiveTxRecorded`, read after it.

*The verdicts*: `VerdictsAreVouched` (`VouchedVerdicts`: a failed row's transaction did not succeed and never will,
and a confirmed one of a subject that compares hashes did), for every kind of subject and engine; `VerdictsAreTrue` (`VerdictsMatchChain`) adds the confirmed rows
and is stated for a process whose senders all compare hashes and send actions, because without it the
property is false: that is the run AutoReplaced. `TruthInv` says that a verdict in hand stays true, since a receipt, or a
nonce that was passed without one, is final (`Outcomes`). `SenderOwns` (`SenderOwnsRow`) is stated for a grace
window longer than the reply to a claim takes (`~SlowClaims`), without which it is false too; `OwnInv`
says that a sibling's pass over a row read before its claim is refused, since a claim is stamped afresh.

*The outbox*: `AutoIsAnOutbox` is the whole of `Spec => ImplementsOutbox`. It needs one more invariant, `HomeInv`, that a row records a
transaction signed for its own subject; `HashSource` (a hash comes from `Mark` and nowhere else) keeps it. Every step but
one only takes transactions out (`StepFades`): no transaction is live that was not, and the count stays or the live transaction at it is
mined. For such a step `Leaving` finds the set that leaves, and shows from `LiveTxRecorded`, before and after,
that the others keep subject, hash and nonce whatever was written in the meantime. The one is a
broadcast whose nonce is still free (`BroadcastSends`): `RecordInv` has its row, `OneInv` its nonce.

### RelaySubmission_proofs

`TypeCorrect`, `OneLive` (`OneLivePerNonce`), `RefusedIsNowhere` (`AbandonedIsNowhere`) and `GivenUpIsDead`
(`DroppedNeverLands`). The invariant: `RowInv`, a row's horizon is no more than `Depth` below the relay's
deadline, whoever wrote it at whatever head; `RecInv`, whatever may land is on a row in flight, which
is where the fence looks; `LeaseInv`, the lease offers only nonces nothing live has; `OneInv`; and `TxInv`,
`ChainInv` and `EngineInv` about signatures, the account's count and sends under way. `PastIsDead` is the
heart: what is past its horizon at one head, and unknown to the node, lands at no other, by
`2 * Depth <= Margin + 1`. `Fence` lifts the lease above every nonce still live, `Fading` says that a step
which revives nothing keeps lease and nonces in order.

`RelayIsAnOutbox` (`ImplementsOutbox`) goes the way of `AutoIsAnOutbox`: a request the relay has taken is
what is sent (`SubmitSends`), a block takes out what it includes and what it is too late for (`BlockLands`), a leak
brings back nothing that was over (`KnowledgeLeaves`).

### ManualCustody_proofs

`TypeCorrect`, `ConfirmedIsExecuted`, `ReservationIsRemembered`, `SuccessIsNeverFailed`, and
`CustodyImplementsLifecycle`.
The evidence for a verdict is looked up for a row read earlier, and a plain row carries nothing that ties
its hash to its call; `Inv` adds that a row still fresh for a pass is the row it read (`BotInv`), that a
plain row's reported transaction carries its call (`RowInv`), what a command remembers between its
awaits (`OpInv`), and that envelopes and signatures exist under a Safe and nowhere else (`TxInv`).
`ReservationIsRemembered` rests on `ResInv`: a SafeTx with signatures that can still execute is
the envelope of its live row, unless `dropped` or `crossed` says why not.

The refinement is the whole of `Spec => Lifecycle!Spec`. Initial states map to initial states and every
write to one step of `ProposalLifecycle` (`WriteMaps`, `StatusMaps`), everything between two writes to a
stutter. Two facts come from `Inv`: a pass writes only over the row it read, and a claim never drops an
envelope.

### SumTheorems

The sums of the models are folds of the community modules, which choose an element and recurse on the
rest. `SumByRecursion` says that whatever satisfies that recursion over a finite set is the one function
`Sum`, and each proof module shows once that its fold does (`HeldIs`, `BalanceIs`, `ClaimsAre` ...). The rest are
the laws the money arguments use: an element added or removed (`SumAdd`, `SumRemove`), one weight
changed (`SumChange`), unions (`SumUnion`), weights added (`SumPlus`), a sum within another
(`SumCovers`) and a sum over the image of an injection (`SumInto`). The library's induction theorems take an
operator, which no installed prover instantiates; each law is proved by a smallest counterexample
instead (`SmallestSet`).

### Risk_proofs

Of `RiskGate`:

- `ExposureIsBounded`, `BreakerDoesTrip`: from `SlotInv`, which ties the counter to the
  cardinality of the open slots and the streak to the run state. The lemmas `OpenAdds` and
  `CloseRemoves` say how the cardinality moves, `SettleKeepsSlotInv` covers first and
  repeated settles alike.
- `CaughtMeansHalted`, `VerifiedBeforeTrading`: from `GuardInv`. `CaughtStaysHalted` alone is not
  inductive: a clean pass that began before the report would break it. The strengthening is
  `FreshPassesSee`: a pass that no halt has overtaken began after the last report, so it has
  not read a caught contract as sound.
- `GateTypeCorrect`, with the counter never below zero.

Of `RiskLedger`: `TypeCorrect`, and under `Orderly` (a store fails claims only where the backstop is not "abandoned", the
exception the run LedgerThrow shows) `SpendsAreCounted`, `AbandonedIsUnsent` and `NoMoneyTwice`. A spend is counted per
transaction and account until a published figure excludes it. For that the invariant must say what a
refresh knows between its three reads: `CommitInv` (what an engine commits is open and unsent),
`SentInv` (what it awaits was sent, and what may be mined is in flight), `HoldInv` (a hold's height is its
transaction's) and `PassInv` (a hold found settled belongs to a final transaction no later than the
height read at; one still to be judged was in flight when the rows were read, or is final).

`NoMoneyTwice` (`NoOverdraft`) then needs the figures, which `FundInv` ties to the chain: a published figure,
like one an engine has read and not yet published, is the balance now plus what was mined above
its height; and what is pledged (in the pool, or admitted and not yet sent) fits in the
balance. Since every pledge is counted once, by a slot or by a hold, what `admit` finds left over is not
pledged; the sums over actions, slots and holds compare by `SumCovers`.

### RouterFunding_proofs

`TypeCorrect`, `TreasuryIsCovered`, `ReSigningHolds`. That the treasury can pay is not inductive: a batch
changes hands between slot and record, a payment may be mined that no refresh has seen, and the record
forgets. The invariant has four parts:

- `SlotInv`: what the gate reserves is what the slot being judged and the slots awaiting a receipt ask; they
  are of different vaults, none of which this cycle will judge again; a backed batch has such a slot
  (`Backing`), so no batch is held by nobody;
- `TxInv`, `ExecutedInv`: the router sells a vault once, within ceiling and deadline, and a batch is taken as
  executed on such a sale only;
- `GateInv`: the gate's figure is of no earlier block than the last reading and, where it is of the same one, no
  more than that reading less what the record holds;
- `BookInv`: unless a batch was overlooked, for some set of payments `S`, mined no higher than `retiredTo`, every live
  transaction and every payment outside `S` is on record, and the dearest open batches of the vaults not sold in `S` fit, both with
  the reservations and with all that the gate offers, in what the payments in `S` left of the treasury; so does the reading
  a settlement would publish. The set is existential because no variable records it.

`RetiredKeeps` is where the margins enter: a batch that may still execute, or has executed above the block read,
survives the retirement, by `Depth <= Margin + 1`. `SeenFits`: a payment seen for the
first time takes no more from the balance than its batch was held for; so a reading, whole or broken off, only
adds what it saw to `S` (`Reread`), and a reading the gate ignores leaves the old figure good for the new `S`. `SettleEffect` serves the four ways a
slot closes. `InvCovers` adds up: per vault, a claim or an unseen payment is covered by the record or by
the vault's slot.

The attempt to prove `ReSigningHoldsOnce` refuted its first form. It said that the gate's figure stays as it
is; but signing a recorded batch again backs it without publishing, so the next settle of any
vault may publish a higher figure (three batches on record, one more than the run allows). The code is right
and the property now says what `publishCapacity` owes: the figure falls no further.

### LiquidationRouter_proofs

`WholeHolds` (`CallsEndWhole`), `PaysHolds` (`EveryLiquidationPays`), `TypesHold` and `QuotesStand`
(`FreshQuoteStands`). Four invariants stand on the type of the state, one for each question. `WholeInv` says of every step of the tower of callbacks
what is awaited and unlocked: the slot `expected` and the venues waiting are what the call on its way says,
the pool manager is unlocked by one frame at most, no allowance is ever left, and between calls nothing
is owed or awaited. `PayInv` follows the floor: the calls on offer and under way ask for
`RISK_MIN_PROFIT`, and the WBTC a call found at its start is what its floor is measured from, so each
position sold adds a margin. `FitInv` bounds the router's WBTC inside a call by what the call found, what is on the list
of debts or being handed over, and what the liquidation brought. `TypesHold` and `QuotesStand` need `Fits` (a position's
collateral with what may be given is short of `MaxUint`): the code checks the sums it makes, but the quote of a probe is only
as bounded as the tokens are.

`ExactInv`, for `QuotesStand`, compares two executions without naming both. The bot asks every liquidation for
the same loans, so in a given market what is lent of each token, what is owed and what is left are
functions of the market and the borrower: `Lent`, `Owed` (a sum over the loans, `SumTheorems`) and `Earned`.
`Track` says that any call with the bot's loans, a probe or the call it is for, is at every step where these say it is,
measured from the balance it found. So a probe that returns has shown its market `Sound` (a loan for the token
owed, a fairness payment no higher than estimated, no silent venue), its quote is `Earned`, and the call finds
the same: `GoesOn` shows action by action that no condition of it fails, and that the floor is no more than
what is earned. WBTC given in between is in the balance both sides are measured from; a call before it in the batch
leaves none of the other tokens (`Clean`).

### CandidateFeed_proofs

`TypeCorrect`, `NoPositionIsMissed` (`PositionsAreAnswered`), `NoVaultIsMissed` (`VaultsAreAnswered`). No
variable says what the chain was when a table was read, so the invariant says that a history exists (`PastInv`):
a function `H` that gives the chain at each block from the one the tables stand at to the head, each led to the next by its event
of `pending` (`Leads`), in which whoever is a candidate now has been one since the block he became one in. A step
of the chain appends a block (`Mined`, `MinedKeepsPast`), the indexer drops the first, which is to say that the six
handlers write into the tables what the event did to the chain (`HandlersFollow`), rows inserted, moved, kept once per key
and deleted with their last share included (`RowIsWritten`).

`CycleInv` is what a cycle may rely on between its reads: it owes nobody the indexer had not reached when the verdict was good
(`AskKeeps`, the one use of `assessIndexerLag`), so whom it owes is in whatever block the tables have come to (`OwedAreIndexed`), is found in each
table when it is read, in either order, and what the chain does in between only takes away from `owed`. What is left is what the routes
do with what they read. `Kept` says what a filter leaves of a sequence, by `Ranked`, which counts the elements of a set of
numbers upwards; `ChunksCover` that every row is in one of the chunks it is read in, whatever the chunk size, so that a
chunk read one vault at a time loses none that is in escrow; `LostIsRead` and `NoneMissing` that what is missing is counted.

The proof asks of the constants that the addresses are finitely many and that the first head is within the bound.

### Assumptions and what is left to TLC

The assumptions are those named in the modules (`SizeAssumption`, `KindAssumption`, `OwnerAssumption`,
`SubjectAssumption`, `WorkAssumption`, `ClockAssumption`, `CapAssumption`, `LedgerAssumption`, `RelayAssumption`,
`ManualAssumption`, `RouterAssumption`, `NoneAssumption`, `LiquidationAssumption`, `FeedAssumption` ...), and TLC evaluates them in every run; those about
`None` only say that it is no value of the sort it stands beside. The hypotheses `Orderly`,
`~SlowClaims`, `Fits` and the kinds of `VerdictsAreTrue` are the ones named above; each is true of an instance some run checks, and for each a
run or a comment shows what happens without it.

Only model-checked:

- all liveness (`InFlightResolves`, `GapReissued`, `CodeHaltClears`, `HoldsDrain`, `HorizonFrees`, `HorizonIsRecovered`,
  `ReportIsSettled`, `MoneyReturns`, `FairShare`, `HaltComes`): fairness and ENABLED are beyond the prover;
- the three violated properties.

## 5. The plan

Done: the core, private submission, MANUAL custody with its refinement, router funding, flash liquidity, the
candidate feed, the outbox both ways of sending implement, and the proofs above: every safety property, action property
and refinement of a passing run is a theorem.
What is left is a reindex from the start block, during which the tables are behind and the guard is what
stops the bot.

## 6. Not modelled, and why

- Ponder itself: a third-party framework that owns the order of events, backfill and reorgs; its debugging
  routes (`/positions` and the like), which no bot asks.
- A streak of bad verdicts outlives the checks (`indexer.ts:174`): after a halt for another cause nobody asks, and the first
  bad verdict after the resume may find hours on the clock and halt a bot whose indexer was well in between. The model has
  this; it errs on the safe side, so no property forbids it.
- Of the liquidation inputs `reserves.ts`, which reads data afresh each cycle, and `isBorrowableReserve` of `domain.ts`.
- Configuration, secrets and signer are resolved once at boot; logger, notifications and metrics
  are output that nothing reads back.
- A process without a store: every crash-safety call is then a no-op by design.
- Of router funding the checks of `prepare` at boot, and the classification of a revert, which only colours
  the breaker. Of the contracts ownership, pausing and rescue calls.
- Of a Safe the hashing and the owners' signatures; `list`, `show` and `verify` of operator-cli, which only read.
- Wording, metrics labels, gas and fee estimation.
