-------------------------- MODULE ProposalLifecycle --------------------------
(***************************************************************************)
(* What the intent store promises a person who signs by hand: the          *)
(* lifecycle of the one proposal a subject may have, whoever writes it.    *)
(*                                                                         *)
(* From the moment a proposal is reserved for signing until its fate is    *)
(* settled, the terms on record do not change.  A proposal that carries a  *)
(* signable reservation is never withdrawn to make room for fresher terms, *)
(* and only a reserved proposal is ever reported as broadcast.             *)
(*                                                                         *)
(* ManualCustody implements this specification.                            *)
(***************************************************************************)
CONSTANTS Subjects, Payloads, None

VARIABLES
    phase,      \* where each subject's proposal stands
    terms,      \* the call on record
    bound       \* a reservation somebody may have signed is on record

vars == <<phase, terms, bound>>

Phases == {"none", "offered", "reserved", "reported", "settled"}

TypeOK == /\ phase \in [Subjects -> Phases]
          /\ terms \in [Subjects -> Payloads \cup {None}]
          /\ bound \in [Subjects -> BOOLEAN]

Init == /\ phase = [s \in Subjects |-> "none"]
        /\ terms = [s \in Subjects |-> None]
        /\ bound = [s \in Subjects |-> FALSE]

Move(s, from, to) == /\ phase[s] = from
                     /\ phase' = [phase EXCEPT ![s] = to]

\* A subject without a live proposal is offered fresh terms, and whatever
\* its earlier proposal reserved leaves the record.
Offer(s) == \E p \in Payloads :
    /\ phase[s] \in {"none", "settled"}
    /\ phase' = [phase EXCEPT ![s] = "offered"]
    /\ terms' = [terms EXCEPT ![s] = p]
    /\ bound' = [bound EXCEPT ![s] = FALSE]

\* Stale or unanswered terms make room, unless something signable is bound
\* to them.
Withdraw(s) == /\ ~bound[s]
               /\ Move(s, "offered", "settled")
               /\ UNCHANGED <<terms, bound>>

\* A signer takes the offer as it stands.
Reserve(s) == \E b \in BOOLEAN :
    /\ bound[s] => b
    /\ Move(s, "offered", "reserved")
    /\ bound' = [bound EXCEPT ![s] = b]
    /\ UNCHANGED terms

\* The signer hands the offer back; what was bound to it stays bound.
Return(s) == /\ Move(s, "reserved", "offered")
             /\ UNCHANGED <<terms, bound>>

Report(s) == /\ Move(s, "reserved", "reported")
             /\ UNCHANGED <<terms, bound>>

\* The chain has answered, or the signer has given up.
Settle(s) == /\ phase[s] \in {"offered", "reserved", "reported"}
             /\ phase' = [phase EXCEPT ![s] = "settled"]
             /\ UNCHANGED <<terms, bound>>

\* The offers nobody took before their deadline are withdrawn together.
WithdrawAll == \E S \in SUBSET Subjects :
    /\ \A s \in S : phase[s] = "offered" /\ ~bound[s]
    /\ phase' = [s \in Subjects |-> IF s \in S THEN "settled" ELSE phase[s]]
    /\ UNCHANGED <<terms, bound>>

Next == \/ \E s \in Subjects : \/ Offer(s) \/ Withdraw(s) \/ Reserve(s)
                               \/ Return(s) \/ Report(s) \/ Settle(s)
        \/ WithdrawAll

Spec == Init /\ [][Next]_vars
==============================================================================
