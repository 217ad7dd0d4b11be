------------------------------- MODULE RiskGate -------------------------------
(***************************************************************************)
(* The in-memory risk gate of a bot process (src/packages/risk): the       *)
(* RUNNING / HALTED kill switch, the exposure cap, the breaker on          *)
(* consecutive failures and the guard over the pinned contracts' bytecode. *)
(* The gate's token ledger is the module RiskLedger; the names the two     *)
(* share are prefixed Gate here, so that one module can extend both.       *)
(*                                                                         *)
(* Every handler of the gate is synchronous, so each is one action, except *)
(* verifyCode: it awaits one read per pinned address, and the timer starts *)
(* another pass whether or not the last one has ended.  A pass is          *)
(* therefore a beginning, one read per address in any order, and a         *)
(* conclusion, interleaved with everything else.                           *)
(***************************************************************************)
EXTENDS Naturals, FiniteSets

CONSTANTS
    Slots,          \* the actions the engines may have open at once
    Pinned,         \* addresses whose bytecode hash is configured
    Passes,         \* verifyCode passes that may overlap
    MaxInFlight,    \* the exposure cap
    MaxFailures,    \* consecutive failures that trip the breaker
    MaxTrouble      \* bound: contract changes and failed probes

ASSUME SlotsAssumption == IsFiniteSet(Slots)
ASSUME CapAssumption == MaxInFlight \in Nat /\ MaxFailures \in Nat \ {0}
ASSUME TroubleAssumption == MaxTrouble \in Nat

VARIABLES
    state,          \* "RUNNING" or "HALTED"
    codeHashHalt,   \* the halt only a clean pass may clear
    everVerified,   \* some pass has read every pinned address as sound
    failures,       \* consecutiveFailures
    inFlight,       \* the counter the exposure cap is compared with
    slotState,      \* slotState[s]: "none", "open", or "settled" while its
                    \* engine still holds it
    booted,         \* the boot pass is over: engines and the server may start
    reading,        \* the passes under way
    got,            \* got[p][a]: what pass p has read at address a
    overtaken,      \* passes with codeHashHaltSeq # the seq they began with
    sound,          \* sound[a]: the code deployed at a is the pinned one
    trouble,        \* how much of MaxTrouble is used
    caught          \* history: addresses a pass reported, changed ever since

switchVars == <<state, codeHashHalt, everVerified, failures, inFlight, slotState>>
passVars == <<booted, reading, got, overtaken>>
worldVars == <<sound, trouble, caught>>
gateVars == <<switchVars, passVars, worldVars>>

Readings == {"unread", "match", "mismatch", "failed"}
GateOutcomes == {"abandoned", "contended", "unresolved", "ok", "failed"}

Open == {s \in Slots : slotState[s] = "open"}

-----------------------------------------------------------------------------
(* A process boots: startHalted is configuration.                          *)

GateInit ==
    /\ state \in {"RUNNING", "HALTED"}
    /\ codeHashHalt = FALSE
    /\ everVerified = FALSE
    /\ failures = 0
    /\ inFlight = 0
    /\ slotState = [s \in Slots |-> "none"]
    /\ booted = (Pinned = {})
    /\ reading = {}
    /\ got = [p \in Passes |-> [a \in Pinned |-> "unread"]]
    /\ overtaken = {}
    /\ sound \in [Pinned -> BOOLEAN]
    /\ trouble = 0
    /\ caught = {}

-----------------------------------------------------------------------------
(* Slots.  The ledger, the profit floor and the freshness check may refuse *)
(* an action too; here an engine simply need not open one.                 *)

Evaluate == state = "RUNNING" /\ inFlight < MaxInFlight

GateOpenSlot(s) ==
    /\ booted
    /\ slotState[s] = "none"
    /\ Evaluate
    /\ slotState' = [slotState EXCEPT ![s] = "open"]
    /\ inFlight' = inFlight + 1
    /\ UNCHANGED <<state, codeHashHalt, everVerified, failures, passVars,
                   worldVars>>

\* release: only a success resets the streak and only a failure feeds it.
Release(outcome) ==
    /\ inFlight' = inFlight - 1
    /\ failures' = CASE outcome = "ok" -> 0
                     [] outcome = "failed" -> failures + 1
                     [] OTHER -> failures
    /\ state' = IF outcome = "failed" /\ failures' >= MaxFailures
                THEN "HALTED" ELSE state

SettleEffect(s, outcome) ==
    IF slotState[s] = "open" THEN Release(outcome)
    ELSE UNCHANGED <<inFlight, failures, state>>

\* The exit path that knows how the action ended.
GateSettle(s, outcome) ==
    /\ slotState[s] = "open"
    /\ SettleEffect(s, outcome)
    /\ slotState' = [slotState EXCEPT ![s] = "settled"]
    /\ UNCHANGED <<codeHashHalt, everVerified, passVars, worldVars>>

\* The engine's finally: settles every slot of the cycle again, whatever
\* became of it, and forgets it.
GateBackstop(s, outcome) ==
    /\ slotState[s] # "none"
    /\ outcome \in {"abandoned", "unresolved"}
    /\ SettleEffect(s, outcome)
    /\ slotState' = [slotState EXCEPT ![s] = "none"]
    /\ UNCHANGED <<codeHashHalt, everVerified, passVars, worldVars>>

-----------------------------------------------------------------------------
(* The operator's kill switch; its server starts after the boot pass.      *)

Halt ==
    /\ booted
    /\ state' = "HALTED"
    /\ UNCHANGED <<codeHashHalt, everVerified, failures, inFlight, slotState,
                   passVars, worldVars>>

\* Mutants: a resume forgets what is in flight; a resume keeps the streak.
ResumedMutant ==
    /\ state' = "RUNNING" /\ failures' = 0 /\ inFlight' = 0
ResumedMutant2 ==
    /\ state' = "RUNNING" /\ UNCHANGED <<failures, inFlight>>
Resumed ==
    /\ state' = "RUNNING" /\ failures' = 0 /\ UNCHANGED inFlight

Resume ==
    /\ booted
    /\ ~codeHashHalt
    /\ Resumed
    /\ UNCHANGED <<codeHashHalt, everVerified, slotState, passVars, worldVars>>

-----------------------------------------------------------------------------
(* verifyCode.                                                             *)

\* Mutant: the sequence number is taken once, not by every pass.
CaughtUpMutant(p) == overtaken
CaughtUp(p) == overtaken \ {p}

\* The boot pass is awaited alone, later ones are started by the timer.
BeginPass(p) ==
    /\ Pinned # {}
    /\ p \notin reading
    /\ ~booted => reading = {}
    /\ reading' = reading \cup {p}
    /\ got' = [got EXCEPT ![p] = [a \in Pinned |-> "unread"]]
    /\ overtaken' = CaughtUp(p)
    /\ UNCHANGED <<switchVars, booted, worldVars>>

\* One address is read; the probe may fail.
Read(p, a) ==
    /\ p \in reading
    /\ got[p][a] = "unread"
    /\ got' = [got EXCEPT ![p][a] = IF sound[a] THEN "match" ELSE "mismatch"]
    /\ UNCHANGED <<switchVars, booted, reading, overtaken, worldVars>>

FailedRead(p, a) ==
    /\ p \in reading
    /\ got[p][a] = "unread"
    /\ trouble < MaxTrouble
    /\ trouble' = trouble + 1
    /\ got' = [got EXCEPT ![p][a] = "failed"]
    /\ UNCHANGED <<switchVars, booted, reading, overtaken, sound, caught>>

\* haltWith(reason, true): every pass under way has been overtaken.
HaltForCode ==
    /\ state' = "HALTED"
    /\ codeHashHalt' = TRUE
    /\ overtaken' = reading
    /\ UNCHANGED everVerified

\* A definite mismatch outranks a failed probe.
ConcludeMismatch(p) ==
    /\ \E a \in Pinned : got[p][a] = "mismatch"
    /\ HaltForCode
    /\ caught' = caught \cup {a \in Pinned : got[p][a] = "mismatch" /\ ~sound[a]}

\* Mutant: a failed probe never halts.
NeverVerifiedMutant == FALSE
NeverVerified == ~everVerified

ConcludeFailed(p) ==
    /\ \A a \in Pinned : got[p][a] # "mismatch"
    /\ \E a \in Pinned : got[p][a] = "failed"
    /\ IF NeverVerified THEN HaltForCode
       ELSE UNCHANGED <<state, codeHashHalt, overtaken, everVerified>>
    /\ UNCHANGED caught

\* Mutant: any clean pass clears the halt, even one begun before it.
MayClearMutant(p) == TRUE
MayClear(p) == p \notin overtaken

ConcludeClean(p) ==
    /\ \A a \in Pinned : got[p][a] = "match"
    /\ codeHashHalt' = (codeHashHalt /\ ~MayClear(p))
    /\ everVerified' = TRUE
    /\ UNCHANGED <<state, overtaken, caught>>

Conclude(p) ==
    /\ p \in reading
    /\ \A a \in Pinned : got[p][a] # "unread"
    /\ \/ ConcludeMismatch(p)
       \/ ConcludeFailed(p)
       \/ ConcludeClean(p)
    /\ reading' = reading \ {p}
    /\ booted' = TRUE
    /\ UNCHANGED <<failures, inFlight, slotState, got, sound, trouble>>

-----------------------------------------------------------------------------
(* A pinned contract is changed underneath the bot, or put back.           *)

Upgrade(a) ==
    /\ sound[a]
    /\ trouble < MaxTrouble
    /\ trouble' = trouble + 1
    /\ sound' = [sound EXCEPT ![a] = FALSE]
    /\ UNCHANGED <<switchVars, passVars, caught>>

Restore(a) ==
    /\ ~sound[a]
    /\ sound' = [sound EXCEPT ![a] = TRUE]
    /\ caught' = caught \ {a}
    /\ UNCHANGED <<switchVars, passVars, trouble>>

-----------------------------------------------------------------------------
SlotNext == \E s \in Slots :
    \/ GateOpenSlot(s)
    \/ \E outcome \in GateOutcomes : GateSettle(s, outcome) \/ GateBackstop(s, outcome)

PassNext == \E p \in Passes :
    \/ BeginPass(p)
    \/ \E a \in Pinned : Read(p, a) \/ FailedRead(p, a)
    \/ Conclude(p)

WorldNext == \E a \in Pinned : Upgrade(a) \/ Restore(a)

GateNext == SlotNext \/ Halt \/ Resume \/ PassNext \/ WorldNext

GateSpec == GateInit /\ [][GateNext]_gateVars

\* The timer keeps starting passes and every read answers, one way or the
\* other, before the next tick is due for ever.
GateFairness == \A p \in Passes :
    /\ WF_gateVars(BeginPass(p))
    /\ WF_gateVars(Conclude(p))
    /\ \A a \in Pinned : WF_gateVars(Read(p, a))

GateFairSpec == GateSpec /\ GateFairness

-----------------------------------------------------------------------------
(* Every variable has its type. *)
GateTypeOK ==
    /\ state \in {"RUNNING", "HALTED"}
    /\ codeHashHalt \in BOOLEAN
    /\ everVerified \in BOOLEAN
    /\ failures \in Nat
    /\ inFlight \in Nat
    /\ slotState \in [Slots -> {"none", "open", "settled"}]
    /\ booted \in BOOLEAN
    /\ reading \in SUBSET Passes
    /\ got \in [Passes -> [Pinned -> Readings]]
    /\ overtaken \in SUBSET Passes
    /\ sound \in [Pinned -> BOOLEAN]
    /\ trouble \in 0..MaxTrouble
    /\ caught \in SUBSET Pinned

(* While a pinned contract that verifyCode reported is still changed, the  *)
(* gate is halted by the guard, so neither a clean pass that began before  *)
(* the report nor an operator's resume has put the bot back to trading     *)
(* (gate.ts verifyCode, codeHashHaltSeq, resume).                          *)
CaughtStaysHalted ==
    caught # {} => codeHashHalt /\ state = "HALTED"

(* The counter the exposure cap reads is the number of slots that are      *)
(* open, and the cap holds, whatever sequence of settles, backstops, halts *)
(* and resumes came before (gate.ts openSlot, settle, release, resume).    *)
ExposureBounded ==
    /\ inFlight = Cardinality(Open)
    /\ inFlight <= MaxInFlight

(* Where contracts are pinned the gate never runs before one pass has read *)
(* all of them as sound; a failed boot probe and a resume do not get round *)
(* it (gate.ts verifyCode pass 2, guard.ts boot check).                    *)
NeverVerifiedNeverTrades ==
    Pinned # {} /\ booted /\ state = "RUNNING" => everVerified

(* A gate that runs has not used up its failures: the breaker has tripped  *)
(* on the last of them, and a resume starts a new streak (gate.ts release, *)
(* resume).                                                                *)
BreakerTrips ==
    state = "RUNNING" => failures < MaxFailures

(* Why the above hold at every step: the halt of the guard is a halt; what *)
(* is caught is changed; a pass that no halt has overtaken began after the *)
(* last of them, so it has not read a caught contract as sound; and until  *)
(* a pass was clean the guard holds the halt.                              *)
CodeHaltHalts == codeHashHalt => state = "HALTED"
CaughtIsChanged == \A a \in caught : ~sound[a]
CaughtHoldsHalt == caught # {} => codeHashHalt
FreshPassesSee ==
    \A p \in reading \ overtaken : \A a \in caught : got[p][a] # "match"
UnverifiedHolds == Pinned # {} /\ booted /\ ~everVerified => codeHashHalt

GuardInv ==
    /\ CodeHaltHalts
    /\ CaughtIsChanged
    /\ CaughtHoldsHalt
    /\ FreshPassesSee
    /\ UnverifiedHolds

(* When the contracts stay sound the halt of the guard does not outlast    *)
(* the passes: one of them clears it, even if overlapping passes keep      *)
(* overtaking each other (gate.ts verifyCode).                             *)
CodeHaltClears ==
    (\A a \in Pinned : sound[a]) ~> (~codeHashHalt \/ \E a \in Pinned : ~sound[a])
=============================================================================
