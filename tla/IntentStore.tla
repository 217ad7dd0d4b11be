----------------------------- MODULE IntentStore -----------------------------
(***************************************************************************)
(* The rows of the intent store (src/packages/persistence) and the         *)
(* compare-and-set writes both of its adapters offer.  A row is one        *)
(* logical action; its id is the idempotency key of chain, target, action  *)
(* and subject, so a retry of the action reuses the row.                   *)
(*                                                                         *)
(* Each write is one SQL statement (or one synchronous map update in the   *)
(* in-memory store), so each is an operator from the old row to the new    *)
(* one.  The modules that EXTEND this one hold the table itself.           *)
(*                                                                         *)
(* `stamp' is the row's updatedAt.  The code only ever compares it for     *)
(* equality, or against the clock for an age; the age is judged where it   *)
(* is used.                                                                *)
(***************************************************************************)

EXTENDS Naturals

CONSTANTS
    None,       \* a column that is null, or an expectation that is not given
    Stamps,     \* the values updatedAt can take
    TxIds       \* the hashes a signed transaction can have

ASSUME NoneAssumption == /\ None \notin Stamps
                         /\ None \notin TxIds
                         /\ None \notin Nat

\* "none" stands for a key that has no row yet.
Statuses == {"none", "proposed", "claimed", "pending", "submitted",
             "confirmed", "failed", "superseded", "expired"}

\* Statuses in which a row refuses a second attempt at the same action.
LiveForDedup == {"proposed", "claimed", "pending", "submitted"}

\* Statuses of a row that may own a transaction on the chain.
InFlightOnChain == {"pending", "submitted"}

Row == [status : Statuses,
        nonce  : Nat \cup {None},
        hash   : TxIds \cup {None},
        stamp  : Stamps \cup {None}]

NoRow == [status |-> "none", nonce |-> None, hash |-> None, stamp |-> None]

\* Mutant: a submitted row does not block a second attempt.
RecordableMutant(r) == r.status \notin {"proposed", "claimed", "pending"}

\* record: a key without a live row starts a fresh attempt, every column of
\* an earlier one cleared.
Recordable(r) == r.status \notin LiveForDedup
Recorded(status, now) ==
    [status |-> status, nonce |-> None, hash |-> None, stamp |-> now]

\* What a writer expects of the row it updates.  None and Statuses stand for
\* an expectation it leaves out.
Anything == [stamp |-> None, hash |-> None, status |-> Statuses]
AtStamp(t) == [Anything EXCEPT !.stamp = t]
AtHash(h) == [Anything EXCEPT !.hash = h]

Meets(r, expect) ==
    /\ expect.stamp # None => r.stamp = expect.stamp
    /\ expect.hash # None => r.hash = expect.hash
    /\ r.status \in expect.status

Coalesce(new, old) == IF new = None THEN old ELSE new

\* transition: refused unless the row is the one the caller observed;
\* otherwise the status moves, the given columns are written, and the row is
\* stamped afresh.
Transition(r, to, nonce, hash, expect, now) ==
    IF Meets(r, expect)
    THEN [status |-> to,
          nonce  |-> Coalesce(nonce, r.nonce),
          hash   |-> Coalesce(hash, r.hash),
          stamp  |-> now]
    ELSE r
==============================================================================
