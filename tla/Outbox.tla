------------------------------- MODULE Outbox -------------------------------
(***************************************************************************)
(* What crash safety promises the engines: an outbox.  Whatever the        *)
(* account may still have mined is on the row of its subject, one          *)
(* transaction to a subject and one to a nonce; the account's count moves  *)
(* only when the transaction on record at that nonce lands; and what has   *)
(* left the outbox never comes back.                                       *)
(*                                                                         *)
(* A lost write, a crash, a second engine, a silent relay or a node that   *)
(* knows nothing show up here as nothing at all, or as a transaction that  *)
(* leaves.  AutoExecution implements this specification over the public    *)
(* mempool, RelaySubmission over a private relay.                          *)
(***************************************************************************)
EXTENDS Naturals

CONSTANTS Subjects, TxIds

VARIABLES
    count,      \* the account's nonces that are used up
    open,       \* the transactions that may still be mined, as recorded
    closed      \* those that were sent, or given up, for good

vars == <<count, open, closed>>

\* What a row says of its transaction.
Entry == [subject : Subjects, hash : TxIds, nonce : Nat]

Hashes(S) == {m.hash : m \in S}

Init == /\ count = 0
        /\ open = {}
        /\ closed = {}

\* A subject with no open transaction sends one: a new one, at a nonce the
\* account has not used and no other open transaction holds.
Send == \E m \in open' :
    /\ m \in Entry
    /\ open' = open \cup {m}
    /\ \A o \in open : /\ o.subject # m.subject
                       /\ o.hash # m.hash
                       /\ o.nonce # m.nonce
    /\ m.hash \notin closed
    /\ m.nonce >= count
    /\ UNCHANGED <<count, closed>>

\* The transactions S leave the outbox; T is whatever is over for good, with
\* what was never sent at all.
Close(S, T) ==
    /\ open' = open \ S
    /\ closed' = closed \cup T
    /\ Hashes(S) \subseteq T
    /\ T \cap Hashes(open \ S) = {}

\* One of them is mined.
Land(S) == /\ \E m \in S : m.nonce = count
           /\ count' = count + 1

Next == \/ Send
        \/ \E S \in SUBSET open, T \in SUBSET TxIds :
              /\ Close(S, T)
              /\ Land(S) \/ UNCHANGED count

Spec == Init /\ [][Next]_vars
=============================================================================
