---------------------------- MODULE CandidateFeed ----------------------------
(***************************************************************************)
(* How a candidate reaches an engine: the Ponder indexer's tables, the two *)
(* routes that enrich them with live reads (src/services/ponder), the      *)
(* guard that says whether the indexer may be believed, and the cycle that *)
(* asks it (src/packages/engine/src/shared), up to the positions and       *)
(* vaults one cycle hands to its funding mode.  What an engine does with a *)
(* candidate is the business of the other modules.                         *)
(*                                                                         *)
(* The chain moves between any two reads.  A route pins its live reads to  *)
(* one block, so they are one step; its table reads are separate queries.  *)
(* Ponder writes a block's rows and its checkpoint in one transaction.     *)
(* A reindex from the start block, and a guard left unconfigured, are not  *)
(* modelled; the start block precedes the first supply.                    *)
(***************************************************************************)
EXTENDS Integers, FiniteSets, SequencesExt

CONSTANTS
    Proxies,        \* the positions' proxy addresses
    Vaults,
    Opened,         \* the proxies with a position when the bot starts
    Escrowed,       \* the vaults in escrow when the bot starts
    MaxShares,      \* bound: the shares a position is supplied with
    MaxLagBlocks,   \* config.maxLagBlocks
    HaltAfterMs,    \* config.haltAfterMs, in ticks of the clock
    Window,         \* MAX_LIQUIDATION_CANDIDATES
    ChunkSize,      \* PROBE_CHUNK_SIZE
    RpcTrail,       \* bound: how far the node asked for the head may trail
    MaxHead,        \* bound: the height the chain reaches
    MaxFaults,      \* bound: reads that fail
    None

ASSUME FeedAssumption ==
    /\ Opened \subseteq Proxies /\ Escrowed \subseteq Vaults
    /\ Proxies \cap Vaults = {}
    /\ {MaxShares, Window, ChunkSize} \subseteq Nat \ {0}
    /\ {MaxLagBlocks, HaltAfterMs, RpcTrail, MaxHead, MaxFaults} \subseteq Nat
    /\ IsFiniteSet(Proxies) /\ IsFiniteSet(Vaults)
    /\ MaxLagBlocks + RpcTrail <= MaxHead

VARIABLES
    head,           \* the height of the chain
    mapped,         \* proxies the adapter has created
    held,           \* held[p]: the collateral shares p has on the Spoke
    unhealthy,      \* proxies below the liquidation threshold, if they owe
    escrow,         \* the vaults VaultSwap holds
    since,          \* history: the block since which x is a candidate
    pending,        \* events of the blocks mined and not indexed
    position,       \* the position table: its proxies, in the order it is read
    suppliedShares, \* suppliedShares[p]: that row's shares, 0 without a row
    proxyMapping,   \* the proxy_mapping table: proxies with a borrower
    escrowedVault,  \* the escrowed_vault table, in the order it is read
    gate,           \* the risk gate: "RUNNING" or "HALTED"
    unusableFor,    \* now - unusableSince, up to HaltAfterMs, or None
    halted,         \* this streak has halted the gate
    pc,             \* where each engine's cycle is
    verdict,        \* the verdict an engine has read and not yet acted on
    owed,           \* history: candidates since maxLagBlocks before that read
    rows,           \* a route's read of its table, or None
    borrowers,      \* a route's read of the proxy mappings, or None
    list,           \* list[e]: what the route answered e, in its order
    missed,         \* missed[e]: how many it says it could not read
    candidateOffset,
    handed,         \* what the last liquidation cycle gave its funding mode
    faults          \* how much of MaxFaults is used

chainVars == <<head, mapped, held, unhealthy, escrow, since>>
tableVars == <<position, suppliedShares, proxyMapping, escrowedVault>>
guardVars == <<gate, unusableFor, halted>>
routeVars == <<rows, borrowers, list, missed>>
cycleVars == <<pc, verdict, owed, candidateOffset, handed>>
vars == <<chainVars, pending, tableVars, guardVars, routeVars, cycleVars, faults>>

Engines == {"liquidation", "arbitrage"}

\* The block the indexer has reached.
indexed == head - Len(pending)

\* What estimateLiquidation answers for; it reverts for every other position.
Liquidatable == {p \in mapped \cap unhealthy : held[p] > 0}

Candidates(e) ==
    IF e = "liquidation" THEN {p \in mapped : held[p] > 0} ELSE escrow

\* The entries of s that are in S, in their order: SelectSeq by the rank of
\* an entry, since the prover cannot open SelectSeq.
Keep(s, S) ==
    LET kept == {i \in 1..Len(s) : s[i] \in S}
        Rank(i) == Cardinality({j \in kept : j <= i})
    IN  [n \in 1..Cardinality(kept) |-> s[CHOOSE i \in kept : Rank(i) = n]]

Without(s, x) == Keep(s, ToSet(s) \ {x})

Init ==
    /\ head = MaxLagBlocks + RpcTrail
    /\ mapped = Opened
    /\ held = [p \in Proxies |-> IF p \in Opened THEN MaxShares ELSE 0]
    /\ unhealthy = Proxies
    /\ escrow = Escrowed
    /\ since = [x \in Proxies \cup Vaults |-> 0]
    /\ pending = <<>>
    /\ position = SetToSeq(Opened)
    /\ suppliedShares = held
    /\ proxyMapping = Opened
    /\ escrowedVault = SetToSeq(Escrowed)
    /\ gate = "RUNNING"
    /\ unusableFor = None
    /\ halted = FALSE
    /\ pc = [e \in Engines |-> "idle"]
    /\ verdict = [e \in Engines |-> None]
    /\ owed = [e \in Engines |-> {}]
    /\ rows = [e \in Engines |-> None]
    /\ borrowers = None
    /\ list = [e \in Engines |-> <<>>]
    /\ missed = [e \in Engines |-> 0]
    /\ candidateOffset = 0
    /\ handed = {}
    /\ faults = 0

-----------------------------------------------------------------------------
(* The chain: one event a block, each with the shares it moves.            *)

Mine(kind, x, n) ==
    /\ head < MaxHead
    /\ head' = head + 1
    /\ pending' = Append(pending, [kind |-> kind, of |-> x, shares |-> n])
    /\ owed' = [e \in Engines |-> owed[e] \cap Candidates(e)']
    /\ UNCHANGED <<tableVars, guardVars, routeVars, pc, verdict,
                   candidateOffset, handed, faults>>

\* A proxy is created and supplied by one transaction of its borrower.
Open(p) ==
    /\ p \notin mapped /\ held[p] < MaxShares
    /\ mapped' = mapped \cup {p}
    /\ held' = [held EXCEPT ![p] = @ + 1]
    /\ since' = [since EXCEPT ![p] = head + 1]
    /\ UNCHANGED <<unhealthy, escrow>>
    /\ Mine("open", p, 1)

\* Anyone may supply for any address, one the adapter never created too.
Supply(p) ==
    /\ held[p] < MaxShares
    /\ held' = [held EXCEPT ![p] = @ + 1]
    /\ since' = [since EXCEPT ![p] = IF held[p] = 0 THEN head + 1 ELSE @]
    /\ UNCHANGED <<mapped, unhealthy, escrow>>
    /\ Mine("supply", p, 1)

\* A withdrawal, or a liquidation's seizure, of some or all of the shares.
Leave(p, n) ==
    /\ n \in 1..held[p]
    /\ held' = [held EXCEPT ![p] = @ - n]
    /\ UNCHANGED <<mapped, unhealthy, escrow, since>>
    /\ Mine("leave", p, n)

\* The oracle moves: nothing for the indexer to write.
Reprice(p) ==
    /\ unhealthy' = SymDiff(unhealthy, {p})
    /\ UNCHANGED <<mapped, held, escrow, since>>
    /\ Mine("reprice", p, 0)

AddVault(v) ==
    /\ v \notin escrow
    /\ escrow' = escrow \cup {v}
    /\ since' = [since EXCEPT ![v] = head + 1]
    /\ UNCHANGED <<mapped, held, unhealthy>>
    /\ Mine("added", v, 0)

RemoveVault(v) ==
    /\ v \in escrow
    /\ escrow' = escrow \ {v}
    /\ UNCHANGED <<mapped, held, unhealthy, since>>
    /\ Mine("removed", v, 0)

Chain ==
    \/ \E p \in Proxies :
          Open(p) \/ Supply(p) \/ Reprice(p) \/ \E n \in 1..MaxShares : Leave(p, n)
    \/ \E v \in Vaults : AddVault(v) \/ RemoveVault(v)

-----------------------------------------------------------------------------
(* The indexer applies the blocks in order.  An updated row moves to the   *)
(* end of its table: no query fixes an order.                              *)

applySupply(currentShares, n) == currentShares + n

\* applyWithdraw and applyLiquidation: 0 stands for null, the row's end.
applyLeave(currentShares, n) == IF currentShares <= n THEN 0 ELSE currentShares - n

\* Mutant: the row is inserted and no row is looked for.
WriteRowMutant(p, shares) ==
    /\ suppliedShares' = [suppliedShares EXCEPT ![p] = shares]
    /\ position' = IF shares = 0 THEN Without(position, p) ELSE Append(position, p)

WriteRow(p, shares) ==
    /\ suppliedShares' = [suppliedShares EXCEPT ![p] = shares]
    /\ position' = IF shares = 0 THEN Without(position, p)
                   ELSE Append(Without(position, p), p)

OnUserProxyCreated(p) == proxyMapping' = proxyMapping \cup {p}

OnSupply(p, n) == WriteRow(p, applySupply(suppliedShares[p], n))

\* Spoke:Withdraw and Spoke:LiquidationCall, which skip a missing row.
OnLeave(p, n) ==
    IF Contains(position, p) THEN WriteRow(p, applyLeave(suppliedShares[p], n))
    ELSE UNCHANGED <<position, suppliedShares>>

OnAddedVault(v) ==
    escrowedVault' = IF Contains(escrowedVault, v) THEN escrowedVault
                     ELSE Append(escrowedVault, v)

OnRemovedVault(v) == escrowedVault' = Without(escrowedVault, v)

IndexBlock ==
    /\ pending # <<>>
    /\ pending' = Tail(pending)
    /\ LET ev == Head(pending) IN
          \/ /\ ev.kind = "open"
             /\ OnUserProxyCreated(ev.of) /\ OnSupply(ev.of, ev.shares)
             /\ UNCHANGED escrowedVault
          \/ /\ ev.kind = "supply"
             /\ OnSupply(ev.of, ev.shares)
             /\ UNCHANGED <<proxyMapping, escrowedVault>>
          \/ /\ ev.kind = "leave"
             /\ OnLeave(ev.of, ev.shares)
             /\ UNCHANGED <<proxyMapping, escrowedVault>>
          \/ /\ ev.kind = "reprice"
             /\ UNCHANGED tableVars
          \/ /\ ev.kind = "added"
             /\ OnAddedVault(ev.of)
             /\ UNCHANGED <<position, suppliedShares, proxyMapping>>
          \/ /\ ev.kind = "removed"
             /\ OnRemovedVault(ev.of)
             /\ UNCHANGED <<position, suppliedShares, proxyMapping>>
    /\ UNCHANGED <<chainVars, guardVars, routeVars, cycleVars, faults>>

-----------------------------------------------------------------------------
(* The guard: one per process, asked by every engine at the top of a cycle.*)

\* Mutant: the lag is measured the wrong way round.
assessIndexerLagMutant(rpcHead) ==
    LET lagBlocks == IF indexed > rpcHead THEN indexed - rpcHead ELSE 0
    IN  IF lagBlocks > MaxLagBlocks THEN "bad" ELSE "ok"

assessIndexerLag(rpcHead) ==
    LET lagBlocks == IF rpcHead > indexed THEN rpcHead - indexed ELSE 0
    IN  IF lagBlocks > MaxLagBlocks THEN "bad" ELSE "ok"

\* /status and the head, read together while the cycle waits.  A halted
\* gate ends the cycle before it asks.
Ask(e) ==
    /\ pc[e] = "idle" /\ gate = "RUNNING"
    /\ pc' = [pc EXCEPT ![e] = "asked"]
    /\ \/ \E rpcHead \in (head - RpcTrail)..head :
             /\ verdict' = [verdict EXCEPT ![e] = assessIndexerLag(rpcHead)]
             /\ owed' = [owed EXCEPT ![e] =
                   {x \in Candidates(e) : since[x] <= rpcHead - MaxLagBlocks}]
             /\ UNCHANGED faults
       \/ /\ faults < MaxFaults          \* one of the two reads fails
          /\ verdict' = [verdict EXCEPT ![e] = "bad"]
          /\ faults' = faults + 1
          /\ UNCHANGED owed
    /\ UNCHANGED <<chainVars, pending, tableVars, guardVars, routeVars,
                   candidateOffset, handed>>

\* Mutant: the streak begins again at every bad verdict.
BadMutant ==
    LET halts == ~halted /\ HaltAfterMs = 0
    IN  /\ unusableFor' = 0
        /\ halted' = (halted \/ halts)
        /\ gate' = IF halts THEN "HALTED" ELSE gate

\* bad(): the streak goes on or begins; it halts the gate once.
Bad ==
    LET unusable == IF unusableFor = None THEN 0 ELSE unusableFor
        halts == ~halted /\ unusable >= HaltAfterMs
    IN  /\ unusableFor' = unusable
        /\ halted' = (halted \/ halts)
        /\ gate' = IF halts THEN "HALTED" ELSE gate

\* The verdicts of two engines may land in the other order.
Judge(e) ==
    /\ pc[e] = "asked"
    /\ verdict' = [verdict EXCEPT ![e] = None]
    /\ \/ /\ verdict[e] = "ok"
          /\ unusableFor' = None /\ halted' = FALSE
          /\ UNCHANGED gate
          /\ pc' = [pc EXCEPT ![e] = "reading"]
          /\ UNCHANGED owed
       \/ /\ verdict[e] = "bad"
          /\ Bad
          /\ pc' = [pc EXCEPT ![e] = "idle"]
          /\ owed' = [owed EXCEPT ![e] = {}]
    /\ UNCHANGED <<chainVars, pending, tableVars, routeVars, candidateOffset,
                   handed, faults>>

Tick ==
    /\ unusableFor # None /\ unusableFor < HaltAfterMs
    /\ unusableFor' = unusableFor + 1
    /\ UNCHANGED <<chainVars, pending, tableVars, gate, halted, routeVars,
                   cycleVars, faults>>

\* The kill switch, the breaker and whatever else halts; and an operator.
Operator ==
    /\ gate' = IF gate = "RUNNING" THEN "HALTED" ELSE "RUNNING"
    /\ UNCHANGED <<chainVars, pending, tableVars, unusableFor, halted, routeVars,
                   cycleVars, faults>>

-----------------------------------------------------------------------------
(* The routes.                                                             *)

\* The cycle ends; what it read is forgotten.
EndCycle(e) ==
    /\ pc' = [pc EXCEPT ![e] = "idle"]
    /\ owed' = [owed EXCEPT ![e] = {}]
    /\ rows' = [rows EXCEPT ![e] = None]
    /\ list' = [list EXCEPT ![e] = <<>>]
    /\ missed' = [missed EXCEPT ![e] = 0]
    /\ UNCHANGED verdict

\* The balance read, the request or the body fails: the cycle is skipped.
\* The arbitrage engine reads its balance after the list.
Unavailable(e) ==
    /\ pc[e] = "reading" \/ (e = "arbitrage" /\ pc[e] = "answered")
    /\ faults < MaxFaults
    /\ faults' = faults + 1
    /\ EndCycle(e)
    /\ borrowers' = IF e = "liquidation" THEN None ELSE borrowers
    /\ UNCHANGED <<chainVars, pending, tableVars, guardVars, candidateOffset,
                   handed>>

ReadRows(e) ==
    /\ pc[e] = "reading" /\ rows[e] = None
    /\ rows' = [rows EXCEPT ![e] =
          IF e = "liquidation" THEN position ELSE escrowedVault]
    /\ UNCHANGED <<chainVars, pending, tableVars, guardVars, borrowers, list,
                   missed, cycleVars, faults>>

ReadMappings ==
    /\ pc["liquidation"] = "reading" /\ borrowers = None
    /\ borrowers' = proxyMapping
    /\ UNCHANGED <<chainVars, pending, tableVars, guardVars, rows, list, missed,
                   cycleVars, faults>>

\* The chunks a sequence of rows is read in.
Chunks(s) ==
    {ToSet(SubSeq(s, i, IF i + ChunkSize > Len(s) THEN Len(s) ELSE i + ChunkSize - 1)) :
        i \in {j \in 1..Len(s) : (j - 1) % ChunkSize = 0}}

\* What a failure may take from the reads over s: one of them, or a chunk.
Lost(s) ==
    IF faults = MaxFaults THEN {{}}
    ELSE {{}} \cup Chunks(s) \cup {{x} : x \in ToSet(s)}

\* The answer the reads over s amount to, with the entries that were read
\* and those that were not.
Answer(e, s, found, failed) ==
    /\ list' = [list EXCEPT ![e] = Keep(s, found)]
    /\ missed' = [missed EXCEPT ![e] = Cardinality(failed)]
    /\ pc' = [pc EXCEPT ![e] = "answered"]
    /\ rows' = [rows EXCEPT ![e] = None]
    /\ UNCHANGED <<chainVars, pending, tableVars, guardVars, verdict, owed,
                   candidateOffset, handed>>

selectProbeCandidates == Keep(rows["liquidation"], borrowers)

\* A probe answers for a liquidatable position and reverts for a healthy
\* one; the probes in lost say nothing, and are unscanned.
ProbePositions ==
    /\ pc["liquidation"] = "reading"
    /\ rows["liquidation"] # None /\ borrowers # None
    /\ \E lost \in Lost(selectProbeCandidates) :
          /\ Answer("liquidation", selectProbeCandidates, Liquidatable \ lost, lost)
          /\ faults' = IF lost = {} THEN faults ELSE faults + 1
    /\ borrowers' = None

\* Mutant: all of a chunk that reverts is taken to have left escrow.
PreviewChunkMutant(chunk, lost) ==
    IF chunk \subseteq escrow /\ chunk \cap lost = {} THEN chunk ELSE {}

\* previewEscrowedVaults reverts for all of a chunk if one of it has left
\* escrow; the chunk is then read one vault at a time.
PreviewChunk(chunk, lost) ==
    IF chunk \subseteq escrow /\ chunk \cap lost = {} THEN chunk
    ELSE {v \in chunk : {v} \subseteq escrow /\ v \notin lost}

PreviewVaults ==
    /\ pc["arbitrage"] = "reading" /\ rows["arbitrage"] # None
    /\ \E lost \in Lost(rows["arbitrage"]) :
          /\ Answer("arbitrage", rows["arbitrage"],
                    UNION {PreviewChunk(c, lost) : c \in Chunks(rows["arbitrage"])},
                    lost)
          /\ faults' = IF lost = {} THEN faults ELSE faults + 1
    /\ UNCHANGED borrowers

-----------------------------------------------------------------------------
(* What the engines take.  The liquidation engine takes a window of the    *)
(* answer and moves past it.  The answers come from tables with a key, so  *)
(* the filters of unusable and repeated entries pass all of them.          *)

selectPositions(positions, offset) ==
    LET start == IF Len(positions) > Window THEN offset % Len(positions) ELSE 0
        wrapped == SubSeq(positions, start + 1, Len(positions))
                      \o SubSeq(positions, 1, start)
    IN  SubSeq(wrapped, 1, IF Len(wrapped) < Window THEN Len(wrapped) ELSE Window)

\* Mutant: the window stays where it is.
NextOffsetMutant(positions, offset) == offset

NextOffset(positions, offset) ==
    IF Len(positions) > Window THEN (offset + Window) % Len(positions) ELSE 0

\* The borrower check and the estimate drop what has gone or cannot be read.
PollPositions ==
    /\ pc["liquidation"] = "answered"
    /\ LET selected == selectPositions(list["liquidation"], candidateOffset) IN
          \E lost \in Lost(selected) :
             /\ handed' = (ToSet(selected) \cap Liquidatable) \ lost
             /\ faults' = IF lost = {} THEN faults ELSE faults + 1
    /\ candidateOffset' = NextOffset(list["liquidation"], candidateOffset)
    /\ EndCycle("liquidation")
    /\ UNCHANGED <<chainVars, pending, tableVars, guardVars, borrowers>>

PollVaults ==
    /\ pc["arbitrage"] = "answered"
    /\ EndCycle("arbitrage")
    /\ UNCHANGED <<chainVars, pending, tableVars, guardVars, borrowers,
                   candidateOffset, handed, faults>>

-----------------------------------------------------------------------------
Liquidator == \/ Ask("liquidation") \/ Judge("liquidation")
              \/ ReadRows("liquidation") \/ ReadMappings
              \/ ProbePositions \/ PollPositions

Arbitrageur == \/ Ask("arbitrage") \/ Judge("arbitrage")
               \/ ReadRows("arbitrage")
               \/ PreviewVaults \/ PollVaults

Next ==
    \/ Chain \/ IndexBlock \/ Tick \/ Operator
    \/ Liquidator \/ Arbitrageur
    \/ \E e \in Engines : Unavailable(e)

Spec == Init /\ [][Next]_vars

\* The poll loops run for ever and the clock goes on.  Nothing makes the
\* chain, the indexer or the operator move.
FairSpec ==
    Spec /\ WF_vars(Liquidator) /\ WF_vars(Arbitrageur) /\ WF_vars(Tick)

-----------------------------------------------------------------------------
\* Types; and the tables hold one row for an address, a position's as long
\* as it has shares, and no mapping the chain does not have (the primary
\* keys and the handlers of src/services/ponder).
TypeOK ==
    /\ head \in 0..MaxHead
    /\ mapped \subseteq Proxies
    /\ held \in [Proxies -> 0..MaxShares]
    /\ unhealthy \subseteq Proxies
    /\ escrow \subseteq Vaults
    /\ since \in [Proxies \cup Vaults -> 0..MaxHead]
    /\ Len(pending) <= head
    /\ suppliedShares \in [Proxies -> 0..MaxShares]
    /\ ToSet(position) = {p \in Proxies : suppliedShares[p] > 0}
    /\ ToSet(escrowedVault) \subseteq Vaults
    /\ IsInjective(position) /\ IsInjective(escrowedVault)
    /\ proxyMapping \subseteq mapped
    /\ gate \in {"RUNNING", "HALTED"}
    /\ unusableFor \in {None} \cup 0..HaltAfterMs
    /\ halted \in BOOLEAN
    /\ pc \in [Engines -> {"idle", "asked", "reading", "answered"}]
    /\ verdict \in [Engines -> {None, "ok", "bad"}]
    /\ \A e \in Engines : owed[e] \subseteq Candidates(e)
    /\ borrowers = None \/ borrowers \subseteq mapped
    /\ candidateOffset \in 0..Cardinality(Proxies)
    /\ handed \subseteq mapped
    /\ faults \in 0..MaxFaults

\* What the live reads of e's route find now.
Live(e) == IF e = "liquidation" THEN Liquidatable ELSE escrow

AnswerComplete(e) ==
    (pc[e] = "reading" /\ pc'[e] = "answered")
       => Cardinality((owed[e] \cap Live(e)) \ ToSet(list'[e])) <= missed'[e]

\* A scan that admits no gap has none.  However the blocks, the indexer's
\* progress, the verdict and the two table reads interleave, every position
\* that had been open for maxLagBlocks when the head was read, is open
\* still and can be liquidated, is in the answer of /liquidatable-positions
\* or counted as unscanned: "no candidates" is never the reading of a stale
\* table or of a failed batch.
PositionsAreAnswered == [][AnswerComplete("liquidation")]_vars

\* The same of /escrowed-vaults: a vault that has left escrow since it was
\* indexed, or one that cannot be read, costs no other vault its place.
VaultsAreAnswered == [][AnswerComplete("arbitrage")]_vars

\* Later cycles cover the rest: with more positions than a window holds, and
\* the list at rest, each is handed to the funding mode again and again, and
\* those the bot cannot clear do not hold the window (candidateOffset).
FairShare ==
    \A p \in Proxies :
       <>[](p \in Liquidatable /\ pending = <<>> /\ gate = "RUNNING")
          => []<>(p \in handed)

\* An indexer that no check finds usable any more does not leave the bot
\* running in silence: the gate has been halted in that very streak, and it
\* is an operator who resumed it.  Two loops share one streak, and either's
\* late verdict may reach it.
HaltComes ==
    <>[](gate = "RUNNING" /\ \A e \in Engines : verdict[e] # "ok") => <>[]halted

=============================================================================
