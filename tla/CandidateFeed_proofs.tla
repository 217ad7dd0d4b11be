------------------------- MODULE CandidateFeed_proofs -------------------------
(***************************************************************************)
(* Proofs about CandidateFeed, for any proxies and vaults, any window,     *)
(* chunk and lag, and any number of failed reads.                          *)
(*                                                                         *)
(* The tables are the chain as it was some blocks ago, and a route reads   *)
(* two of them at two such moments.  What relates them to the chain is a   *)
(* history: a function H that gives the chain at every block from the one  *)
(* the tables stand at to the head, each led to the next by its event of   *)
(* pending.  No variable holds it; the invariant says that one exists.  A  *)
(* step of the chain adds a block to it and the indexer drops the first.   *)
(* Whoever is a candidate now has been one in every block of H since he    *)
(* became one, so a cycle whose verdict was good finds everybody it owes   *)
(* an answer in whatever block the tables have reached when it reads them, *)
(* and nothing the chain does between its reads adds to whom it owes.      *)
(*                                                                         *)
(* First come lemmas about sequences: what is kept of one (Keep), and the  *)
(* chunks one is read in, which cover it.                                  *)
(***************************************************************************)
EXTENDS CandidateFeed, SequenceTheorems, FiniteSetTheorems, TLAPS

-----------------------------------------------------------------------------
(* Sequences: their entries, and the entries that are kept of them.        *)

\* Counting to n.
LEMMA Upto ==
  ASSUME NEW n \in Nat
  PROVE  IsFiniteSet(1..n) /\ Cardinality(1..n) = n
<1> QED
  BY FS_Interval

\* The entries of a sequence.
LEMMA Entries ==
  ASSUME NEW S, NEW s \in Seq(S)
  PROVE  /\ ToSet(s) = {s[i] : i \in 1..Len(s)}
         /\ ToSet(s) \subseteq S
         /\ \A i \in 1..Len(s) : s[i] \in ToSet(s)
<1>1. DOMAIN s = 1..Len(s)
  BY LenProperties
<1>2. \A i \in 1..Len(s) : s[i] \in S
  BY ElementOfSeq
<1> QED
  BY <1>1, <1>2 DEF ToSet

\* No more entries than places.
LEMMA EntriesAreFinite ==
  ASSUME NEW S, NEW s \in Seq(S)
  PROVE  IsFiniteSet(ToSet(s)) /\ Cardinality(ToSet(s)) <= Len(s)
<1> DEFINE f == [i \in 1..Len(s) |-> s[i]]
<1>1. Len(s) \in Nat
  BY LenProperties
<1>2. ToSet(s) = {s[i] : i \in 1..Len(s)}
  BY Entries
<1>3. f \in Surjection(1..Len(s), ToSet(s))
  BY <1>2 DEF Surjection
<1>4. IsFiniteSet(1..Len(s)) /\ Cardinality(1..Len(s)) = Len(s)
  BY <1>1, Upto
<1> HIDE DEF f
<1> QED
  BY <1>3, <1>4, FS_Surjection

\* No more rows than there are keys.
LEMMA InjectiveIsShort ==
  ASSUME NEW S, IsFiniteSet(S), NEW s \in Seq(S), IsInjective(s)
  PROVE  Len(s) <= Cardinality(S)
<1>1. s \in [1..Len(s) -> S]
  BY LenProperties
<1>2. s \in Injection(1..Len(s), S)
  BY <1>1 DEF Injection
<1>3. Len(s) \in Nat
  BY LenProperties
<1>4. Cardinality(1..Len(s)) = Len(s)
  BY <1>3, Upto
<1> QED
  BY <1>2, <1>4, FS_Injection

\* SetToSeq lists a finite set, each element once.
LEMMA Listed ==
  ASSUME NEW S, IsFiniteSet(S)
  PROVE  /\ SetToSeq(S) \in Seq(S)
         /\ ToSet(SetToSeq(S)) = S
         /\ IsInjective(SetToSeq(S))
<1> DEFINE n == Cardinality(S)
           q == SetToSeq(S)
<1>1. n \in Nat /\ ExistsBijection(1..n, S)
  BY FS_CardinalityType
<1>2. PICK b \in [1..n -> S] : IsInjective(b)
  BY <1>1 DEF ExistsBijection, Bijection, Injection
<1>3. q \in [1..n -> S] /\ IsInjective(q)
  <2>1. q = CHOOSE f \in [1..n -> S] : IsInjective(f)
    BY DEF SetToSeq
  <2> HIDE DEF q, n
  <2> QED
    BY <1>2, <2>1
<1> HIDE DEF q
<1>4. q \in Injection(1..n, S)
  BY <1>3 DEF Injection
<1>5. IsFiniteSet(1..n) /\ Cardinality(1..n) = n
  BY <1>1, Upto
<1>6. q \in Surjection(1..n, S)
  BY <1>4, <1>5, FS_Injection
<1>7. ToSet(q) = S
  BY <1>3, <1>6 DEF Surjection, ToSet
<1>8. q \in Seq(S)
  BY <1>1, <1>3
<1> QED
  BY <1>3, <1>7, <1>8 DEF q

\* One entry more at the end.
LEMMA AppendAdds ==
  ASSUME NEW S, NEW s \in Seq(S), NEW x \in S
  PROVE  /\ Append(s, x) \in Seq(S)
         /\ ToSet(Append(s, x)) = ToSet(s) \cup {x}
         /\ IsInjective(s) /\ x \notin ToSet(s) => IsInjective(Append(s, x))
<1> DEFINE t == Append(s, x)
           n == Len(s)
<1>1. /\ t \in Seq(S) /\ Len(t) = n + 1 /\ n \in Nat
      /\ \A i \in 1..n : t[i] = s[i]
      /\ t[n + 1] = x
  BY AppendProperties, LenProperties
<1> HIDE DEF t
<1>2. ToSet(t) = {t[i] : i \in 1..(n + 1)} /\ ToSet(s) = {s[i] : i \in 1..n}
  BY <1>1, Entries
<1>3. ToSet(t) = ToSet(s) \cup {x}
  BY <1>1, <1>2
<1>4. DOMAIN t = 1..(n + 1) /\ DOMAIN s = 1..n
  BY <1>1, LenProperties
<1>5. ASSUME IsInjective(s), x \notin ToSet(s)
      PROVE  IsInjective(t)
  <2> SUFFICES ASSUME NEW i \in 1..(n + 1), NEW j \in 1..(n + 1), t[i] = t[j]
               PROVE  i = j
    BY <1>4 DEF IsInjective
  <2>1. \A k \in 1..n : s[k] # x
    BY <1>2, <1>5
  <2>2. \A k, l \in 1..n : s[k] = s[l] => k = l
    BY <1>4, <1>5 DEF IsInjective
  <2> QED
    BY <1>1, <2>1, <2>2
<1> QED
  BY <1>1, <1>3, <1>5 DEF t

\* Counting upwards from the least, the elements of a finite set of numbers
\* get the ranks from 1 to their number, each its own.
LEMMA Ranked ==
  ASSUME NEW m \in Nat, NEW K \in SUBSET (1..m)
  PROVE  /\ Cardinality(K) \in Nat
         /\ \A i \in K : Cardinality({j \in K : j <= i}) \in 1..Cardinality(K)
         /\ \A i, k \in K :
               Cardinality({j \in K : j <= i}) = Cardinality({j \in K : j <= k}) => i = k
         /\ \A n \in 1..Cardinality(K) : \E i \in K : Cardinality({j \in K : j <= i}) = n
<1> DEFINE Below(i) == {j \in K : j <= i}
           f == [i \in K |-> Cardinality(Below(i))]
           c == Cardinality(K)
<1>1. IsFiniteSet(K) /\ c \in Nat
  <2>1. IsFiniteSet(1..m)
    BY Upto
  <2>2. IsFiniteSet(K)
    BY <2>1, FS_Subset
  <2> QED
    BY <2>2, FS_CardinalityType
<1>2. \A i : IsFiniteSet(Below(i)) /\ Cardinality(Below(i)) \in Nat /\ Cardinality(Below(i)) <= c
  BY <1>1, FS_Subset, FS_CardinalityType
<1>3. \A i \in K : Cardinality(Below(i)) \in 1..c
  <2> SUFFICES ASSUME NEW i \in K PROVE Cardinality(Below(i)) # 0
    BY <1>1, <1>2
  <2>1. i \in Below(i)
    OBVIOUS
  <2> QED
    BY <1>2, <2>1, FS_EmptySet
<1>4. ASSUME NEW i \in K, NEW k \in K, i < k
      PROVE  Cardinality(Below(i)) # Cardinality(Below(k))
  <2>1. K \subseteq Int
    OBVIOUS
  <2>2. \A j \in K : j <= i => j <= k
    BY <1>4, <2>1
  <2>3. k \in Below(k) /\ k \notin Below(i)
    BY <1>4, <2>1
  <2>4. Below(i) \in SUBSET Below(k)
    BY <2>2
  <2> HIDE DEF Below
  <2> QED
    BY <1>2, <2>3, <2>4, FS_Subset
<1>5. \A i, k \in K : Cardinality(Below(i)) = Cardinality(Below(k)) => i = k
  <2> SUFFICES ASSUME NEW i \in K, NEW k \in K, i # k
               PROVE  Cardinality(Below(i)) # Cardinality(Below(k))
    OBVIOUS
  <2>1. i < k \/ k < i
    OBVIOUS
  <2> HIDE DEF Below
  <2> QED
    BY <1>4, <2>1
<1>6. f \in Injection(K, 1..c)
  <2> HIDE DEF Below, c
  <2> QED
    BY <1>3, <1>5 DEF Injection, IsInjective
<1>7. IsFiniteSet(1..c) /\ Cardinality(1..c) = c
  BY <1>1, Upto
<1>8. f \in Surjection(K, 1..c)
  <2> HIDE DEF f
  <2> QED
    BY <1>6, <1>7, FS_Injection
<1>9. \A n \in 1..c : \E i \in K : Cardinality(Below(i)) = n
  <2> HIDE DEF Below, c
  <2> QED
    BY <1>8 DEF Surjection
<1> QED
  BY <1>1, <1>3, <1>5, <1>9

\* What is kept of a sequence: its entries that are in T, and each once if
\* each stood there once.
LEMMA Kept ==
  ASSUME NEW S, NEW s \in Seq(S), NEW T
  PROVE  /\ Keep(s, T) \in Seq(S)
         /\ ToSet(Keep(s, T)) = ToSet(s) \cap T
         /\ IsInjective(s) => IsInjective(Keep(s, T))
<1> DEFINE kept == {i \in 1..Len(s) : s[i] \in T}
           Rank(i) == Cardinality({j \in kept : j <= i})
           c == Cardinality(kept)
           at(n) == CHOOSE i \in kept : Rank(i) = n
           t == [n \in 1..c |-> s[at(n)]]
<1>1. Len(s) \in Nat /\ kept \in SUBSET (1..Len(s))
  BY LenProperties
<1>2. Keep(s, T) = t
  BY DEF Keep
<1>3. \A i \in kept : s[i] \in T /\ s[i] \in S /\ i \in 1..Len(s)
  BY ElementOfSeq
<1>4. \A i \in 1..Len(s) : s[i] \in T => i \in kept
  OBVIOUS
<1> HIDE DEF kept
<1>5. /\ c \in Nat
      /\ \A i \in kept : Rank(i) \in 1..c
      /\ \A i, k \in kept : Rank(i) = Rank(k) => i = k
      /\ \A n \in 1..c : \E i \in kept : Rank(i) = n
  BY <1>1, Ranked
<1> HIDE DEF c, Rank
<1>6. \A n \in 1..c : at(n) \in kept /\ Rank(at(n)) = n
  BY <1>5
<1>7. \A i \in kept : at(Rank(i)) = i
  BY <1>5, <1>6
<1> HIDE DEF at
<1>8. t \in [1..c -> S]
  BY <1>3, <1>6
<1>9. t \in Seq(S) /\ DOMAIN t = 1..c /\ Len(t) = c
  BY <1>5, <1>8
<1>10. ToSet(t) = ToSet(s) \cap T
  <2>1. ToSet(t) = {s[at(n)] : n \in 1..c}
    BY DEF ToSet
  <2>2. ToSet(s) = {s[i] : i \in 1..Len(s)}
    BY Entries
  <2>3. \A n \in 1..c : s[at(n)] \in ToSet(s) \cap T
    BY <1>3, <1>6, <2>2
  <2>4. ASSUME NEW x \in ToSet(s) \cap T PROVE x \in ToSet(t)
    <3>1. PICK i \in 1..Len(s) : x = s[i]
      BY <2>2
    <3>2. i \in kept /\ Rank(i) \in 1..c /\ at(Rank(i)) = i
      BY <1>4, <1>5, <1>7, <3>1
    <3> QED
      BY <2>1, <3>1, <3>2
  <2> QED
    BY <2>1, <2>3, <2>4
<1>11. ASSUME IsInjective(s) PROVE IsInjective(t)
  <2>1. DOMAIN s = 1..Len(s)
    BY LenProperties
  <2>2. \A i, k \in kept : s[i] = s[k] => i = k
    BY <1>3, <1>11, <2>1 DEF IsInjective
  <2> SUFFICES ASSUME NEW a \in 1..c, NEW b \in 1..c, t[a] = t[b] PROVE a = b
    BY <1>9 DEF IsInjective
  <2>3. s[at(a)] = s[at(b)]
    OBVIOUS
  <2> QED
    BY <1>6, <2>2, <2>3
<1> HIDE DEF t
<1> QED
  BY <1>2, <1>9, <1>10, <1>11

\* A deleted row is gone, and no other (Spoke.ts, VaultSwap.ts: delete).
LEMMA WithoutIt ==
  ASSUME NEW S, NEW s \in Seq(S), NEW x
  PROVE  /\ Without(s, x) \in Seq(S)
         /\ ToSet(Without(s, x)) = ToSet(s) \ {x}
         /\ IsInjective(s) => IsInjective(Without(s, x))
<1>1. Without(s, x) = Keep(s, ToSet(s) \ {x})
  BY DEF Without
<1>2. ToSet(s) \cap (ToSet(s) \ {x}) = ToSet(s) \ {x}
  OBVIOUS
<1> QED
  BY <1>1, <1>2, Kept

\* Contains finds an entry.
LEMMA ContainsIt ==
  ASSUME NEW S, NEW s \in Seq(S), NEW x
  PROVE  Contains(s, x) <=> x \in ToSet(s)
<1> QED
  BY Entries DEF Contains

-----------------------------------------------------------------------------
(* Chunks: they cover the rows they are cut from.                          *)

\* A number less its remainder is divided without one.
LEMMA WholeChunks ==
  ASSUME NEW a \in Nat, NEW m \in Nat \ {0}
  PROVE  a % m \in 0..(m - 1) /\ a - (a % m) \in Nat /\ (a - (a % m)) % m = 0
<1> DEFINE q == a \div m
           r == a % m
           b == m * q
           k == b \div m
           u == b % m
<1>1. q \in Int /\ r \in 0..(m - 1) /\ a = m * q + r
  OBVIOUS
<1>2. q \in Nat /\ r \in Nat
  BY <1>1
<1>3. b \in Nat /\ a - r = b
  BY <1>1, <1>2
<1>4. k \in Int /\ u \in 0..(m - 1) /\ b = m * k + u
  BY <1>3
<1> HIDE DEF q, r, k, u
<1>5. u = m * (q - k)
  BY <1>2, <1>4
<1>6. u = 0
  <2> DEFINE d == q - k
  <2>1. d \in Int /\ u = m * d /\ 0 <= u /\ u < m
    BY <1>2, <1>4, <1>5
  <2> HIDE DEF d
  <2>2. ~(d >= 1)
    BY <2>1
  <2>3. ~(d <= -1)
    BY <2>1
  <2>4. d = 0
    BY <2>1, <2>2, <2>3
  <2> QED
    BY <2>1, <2>4
<1> HIDE DEF b
<1> QED
  BY <1>1, <1>3, <1>6 DEF r, u

\* Every row is in one of the chunks the rows are cut into
\* (probePositions.ts, previewVaults.ts).
LEMMA ChunksCover ==
  ASSUME NEW S, NEW s \in Seq(S)
  PROVE  /\ \A c \in Chunks(s) : c \subseteq ToSet(s)
         /\ \A x \in ToSet(s) : \E c \in Chunks(s) : x \in c
<1> DEFINE n == Len(s)
           last(i) == IF i + ChunkSize > n THEN n ELSE i + ChunkSize - 1
           Firsts == {j \in 1..n : (j - 1) % ChunkSize = 0}
           cut(i) == SubSeq(s, i, last(i))
<1>1. Chunks(s) = {ToSet(cut(i)) : i \in Firsts}
  BY DEF Chunks
<1>2. n \in Nat /\ ChunkSize \in Nat \ {0} /\ \A i \in 1..n : s[i] \in S
  BY FeedAssumption, LenProperties, ElementOfSeq
<1>3. ToSet(s) = {s[i] : i \in 1..n}
  BY Entries
<1> HIDE DEF n
<1>4. \A i \in Firsts : i \in 1..n /\ last(i) \in i..n
  BY <1>2
<1>5. ASSUME NEW i \in Firsts
      PROVE  ToSet(cut(i)) = {s[j] : j \in i..last(i)}
  <2> DEFINE l == last(i)
             t == cut(i)
  <2>1. i \in Int /\ l \in Int /\ 1 <= i /\ i <= l /\ l <= n
    BY <1>2, <1>4
  <2>2. \A j \in i..l : s[j] \in S
    BY <1>2, <2>1
  <2> HIDE DEF l
  <2>3. /\ SubSeq(s, i, l) \in Seq(S)
        /\ Len(SubSeq(s, i, l)) = l - i + 1
        /\ \A j \in 1..(l - i + 1) : SubSeq(s, i, l)[j] = s[i + j - 1]
    BY <2>1, <2>2, SubSeqProperties
  <2>4. t = SubSeq(s, i, l)
    BY DEF l
  <2> HIDE DEF t
  <2>5. ToSet(t) = {t[j] : j \in 1..(l - i + 1)}
    <3>1. t \in Seq(S) /\ Len(t) = l - i + 1
      BY <2>3, <2>4
    <3>2. ToSet(t) = {t[j] : j \in 1..Len(t)}
      BY <3>1, Entries
    <3> QED
      BY <3>1, <3>2
  <2>6. \A j \in 1..(l - i + 1) : t[j] = s[i + j - 1] /\ i + j - 1 \in i..l
    BY <2>1, <2>3, <2>4
  <2>7. \A j \in i..l : j - i + 1 \in 1..(l - i + 1) /\ t[j - i + 1] = s[j]
    <3> SUFFICES ASSUME NEW j \in i..l
                 PROVE  j - i + 1 \in 1..(l - i + 1) /\ t[j - i + 1] = s[j]
      OBVIOUS
    <3>1. j - i + 1 \in 1..(l - i + 1) /\ i + (j - i + 1) - 1 = j
      BY <2>1
    <3> QED
      BY <2>6, <3>1
  <2>8. {t[j] : j \in 1..(l - i + 1)} = {s[j] : j \in i..l}
    BY <2>6, <2>7
  <2> QED
    BY <2>5, <2>8 DEF l, t
<1>6. ASSUME NEW k \in 1..n
      PROVE  \E i \in Firsts : k \in i..last(i)
  <2> DEFINE a == k - 1
             r == a % ChunkSize
             i == k - r
  <2>1. a \in Nat
    OBVIOUS
  <2>2. r \in 0..(ChunkSize - 1) /\ a - r \in Nat /\ (a - r) % ChunkSize = 0
    <3> HIDE DEF a
    <3> QED
      BY <1>2, <2>1, WholeChunks
  <2>3. i - 1 = a - r /\ i \in 1..k
    <3> HIDE DEF r
    <3> QED
      BY <1>2, <2>2
  <2>4. i \in Firsts
    <3> HIDE DEF r
    <3>1. (i - 1) % ChunkSize = 0
      BY <2>2, <2>3
    <3>2. i \in 1..n
      BY <1>2, <2>3
    <3> HIDE DEF i
    <3> QED
      BY <3>1, <3>2
  <2>5. k \in i..last(i)
    <3> HIDE DEF r
    <3> QED
      BY <1>2, <2>2, <2>3
  <2> HIDE DEF r
  <2> QED
    BY <2>4, <2>5
<1> HIDE DEF last, Firsts, cut
<1>7. \A c \in Chunks(s) : c \subseteq ToSet(s)
  <2> SUFFICES ASSUME NEW i \in Firsts PROVE ToSet(cut(i)) \subseteq ToSet(s)
    BY <1>1
  <2>1. \A j \in i..last(i) : j \in 1..n
    BY <1>2, <1>4
  <2> QED
    BY <1>3, <1>5, <2>1
<1>8. ASSUME NEW x \in ToSet(s) PROVE \E c \in Chunks(s) : x \in c
  <2>1. PICK k \in 1..n : x = s[k]
    BY <1>3
  <2>2. PICK i \in Firsts : k \in i..last(i)
    BY <1>6
  <2>3. x \in ToSet(cut(i))
    BY <1>5, <2>1, <2>2
  <2> QED
    BY <1>1, <2>3
<1> QED
  BY <1>7, <1>8

\* A failure takes nothing but what was to be read.
LEMMA LostIsRead ==
  ASSUME NEW S, NEW s \in Seq(S), NEW lost \in Lost(s)
  PROVE  /\ IsFiniteSet(lost)
         /\ faults = MaxFaults => lost = {}
<1>1. lost \subseteq ToSet(s)
  BY ChunksCover DEF Lost
<1>2. IsFiniteSet(lost)
  BY <1>1, EntriesAreFinite, FS_Subset
<1> QED
  BY <1>2 DEF Lost

-----------------------------------------------------------------------------
(* The invariant.                                                          *)

\* What the indexer follows of the chain, now and as its tables have it.
Blocks == [held : [Proxies -> 0..MaxShares], mapped : SUBSET Proxies, escrow : SUBSET Vaults]

Now == [held |-> held, mapped |-> mapped, escrow |-> escrow]

Tables == [held |-> suppliedShares, mapped |-> proxyMapping, escrow |-> ToSet(escrowedVault)]

\* c is the chain before the event ev, and d the chain after it.
Leads(ev, c, d) ==
    \/ /\ ev.kind = "open" /\ ev.of \in Proxies /\ ev.shares \in Nat \ {0}
       /\ d.held = [c.held EXCEPT ![ev.of] = @ + ev.shares]
       /\ d.mapped = c.mapped \cup {ev.of} /\ d.escrow = c.escrow
    \/ /\ ev.kind = "supply" /\ ev.of \in Proxies /\ ev.shares \in Nat \ {0}
       /\ d.held = [c.held EXCEPT ![ev.of] = @ + ev.shares]
       /\ d.mapped = c.mapped /\ d.escrow = c.escrow
    \/ /\ ev.kind = "leave" /\ ev.of \in Proxies /\ ev.shares \in 1..c.held[ev.of]
       /\ d.held = [c.held EXCEPT ![ev.of] = @ - ev.shares]
       /\ d.mapped = c.mapped /\ d.escrow = c.escrow
    \/ /\ ev.kind = "reprice"
       /\ d.held = c.held /\ d.mapped = c.mapped /\ d.escrow = c.escrow
    \/ /\ ev.kind = "added" /\ ev.of \in Vaults
       /\ d.held = c.held /\ d.mapped = c.mapped /\ d.escrow = c.escrow \cup {ev.of}
    \/ /\ ev.kind = "removed" /\ ev.of \in Vaults
       /\ d.held = c.held /\ d.mapped = c.mapped /\ d.escrow = c.escrow \ {ev.of}

\* The candidates of e in a block c.
CandidatesIn(e, c) ==
    IF e = "liquidation" THEN {p \in c.mapped : c.held[p] > 0} ELSE c.escrow

\* H[i] is the chain i blocks above the tables: the events of pending lead
\* from the tables to the chain as it is, and whoever is a candidate has been
\* one in every block since it became one.
Past(H) ==
    /\ H \in [0..Len(pending) -> Blocks]
    /\ H[0] = Tables
    /\ H[Len(pending)] = Now
    /\ \A i \in 1..Len(pending) : Leads(pending[i], H[i - 1], H[i])
    /\ \A i \in 0..Len(pending) : H[i].mapped \subseteq mapped
    /\ \A e \in Engines : \A x \in Candidates(e) : \A i \in 0..Len(pending) :
          since[x] <= indexed + i => x \in CandidatesIn(e, H[i])

PastInv == \E H : Past(H)

Keys(e) == IF e = "liquidation" THEN Proxies ELSE Vaults

\* What a cycle has read, and whom it still owes an answer: nobody it has not
\* found in each table it has read, nor any the indexer had not reached.
Cycle(e) ==
    /\ owed[e] \subseteq Candidates(e)
    /\ pc[e] = "idle" => owed[e] = {}
    /\ pc[e] # "asked" \/ verdict[e] = "ok" => \A x \in owed[e] : since[x] <= indexed
    /\ rows[e] # None => /\ pc[e] = "reading"
                         /\ rows[e] \in Seq(Keys(e)) /\ IsInjective(rows[e])
                         /\ owed[e] \subseteq ToSet(rows[e])
    /\ e = "liquidation" /\ borrowers # None => /\ pc[e] = "reading"
                                                /\ owed[e] \subseteq borrowers
                                                /\ borrowers \subseteq mapped
    /\ list[e] \in Seq(Keys(e)) /\ IsInjective(list[e])

CycleInv == \A e \in Engines : Cycle(e)

Kinds == {"open", "supply", "leave", "reprice", "added", "removed"}
Events == [kind : Kinds, of : Proxies \cup Vaults, shares : 0..MaxShares]

ChainTypes ==
    /\ head \in 0..MaxHead
    /\ mapped \subseteq Proxies
    /\ held \in [Proxies -> 0..MaxShares]
    /\ unhealthy \subseteq Proxies
    /\ escrow \subseteq Vaults
    /\ since \in [Proxies \cup Vaults -> 0..MaxHead]
    /\ pending \in Seq(Events)
    /\ Len(pending) <= head

\* A table has one row for a key.
RowTypes ==
    /\ suppliedShares \in [Proxies -> 0..MaxShares]
    /\ position \in Seq(Proxies) /\ IsInjective(position)
    /\ ToSet(position) = {p \in Proxies : suppliedShares[p] > 0}

VaultTypes == escrowedVault \in Seq(Vaults) /\ IsInjective(escrowedVault)

GuardTypes ==
    /\ gate \in {"RUNNING", "HALTED"}
    /\ unusableFor \in {None} \cup 0..HaltAfterMs
    /\ halted \in BOOLEAN

CycleTypes ==
    /\ pc \in [Engines -> {"idle", "asked", "reading", "answered"}]
    /\ verdict \in [Engines -> {None, "ok", "bad"}]
    /\ DOMAIN owed = Engines /\ DOMAIN rows = Engines /\ DOMAIN list = Engines
    /\ DOMAIN missed = Engines
    /\ candidateOffset \in 0..Cardinality(Proxies)
    /\ handed \subseteq mapped
    /\ faults \in 0..MaxFaults

Inv == /\ ChainTypes /\ RowTypes /\ VaultTypes /\ GuardTypes /\ CycleTypes
       /\ PastInv /\ CycleInv

\* The assumption, bound by bound.
LEMMA Bounds ==
  /\ {MaxShares, Window, ChunkSize} \subseteq Nat \ {0}
  /\ MaxLagBlocks \in Nat /\ HaltAfterMs \in Nat /\ RpcTrail \in Nat
  /\ MaxHead \in Nat /\ MaxFaults \in Nat /\ MaxShares \in Nat \ {0}
  /\ Window \in Nat \ {0}
<1> QED
  BY FeedAssumption

\* TypeOK asks no more than the invariant.
LEMMA InvIsTyped == Inv => TypeOK
<1> SUFFICES ASSUME Inv PROVE TypeOK
  OBVIOUS
<1>1. ChainTypes /\ RowTypes /\ VaultTypes /\ GuardTypes /\ CycleTypes
  BY DEF Inv
<1>2. proxyMapping \subseteq mapped
  <2>1. PICK H : Past(H)
    BY DEF Inv, PastInv
  <2>2. Len(pending) \in Nat
    BY <1>1, LenProperties DEF ChainTypes
  <2>3. H[0].mapped \subseteq mapped /\ H[0] = Tables
    BY <2>1, <2>2 DEF Past
  <2> QED
    BY <2>3 DEF Tables
<1>3. ToSet(escrowedVault) \subseteq Vaults
  BY <1>1, Entries DEF VaultTypes
<1>4. \A e \in Engines : owed[e] \subseteq Candidates(e)
  BY DEF Inv, CycleInv, Cycle
<1>5. borrowers = None \/ borrowers \subseteq mapped
  BY DEF Inv, CycleInv, Cycle, Engines
<1> QED
  BY <1>1, <1>2, <1>3, <1>4, <1>5
     DEF TypeOK, ChainTypes, RowTypes, VaultTypes, GuardTypes, CycleTypes

-----------------------------------------------------------------------------
(* The chain moves: one event more between the tables and the chain.       *)

\* What every step of the chain does.
Mined(ev) ==
    /\ ev \in Events
    /\ head < MaxHead /\ head' = head + 1
    /\ pending' = Append(pending, ev)
    /\ Leads(ev, Now, Now')
    /\ Now' \in Blocks
    /\ mapped \subseteq mapped'
    /\ unhealthy' \subseteq Proxies
    /\ since' \in [Proxies \cup Vaults -> 0..MaxHead]
    /\ \A e \in Engines : \A x \in Candidates(e)' :
          since'[x] = IF x \in Candidates(e) THEN since[x] ELSE head + 1
    /\ owed' = [e \in Engines |-> owed[e] \cap Candidates(e)']
    /\ UNCHANGED <<tableVars, guardVars, routeVars, pc, verdict, candidateOffset,
                   handed, faults>>

\* A block mined is one more the indexer has not reached.
LEMMA QueueGrows ==
  ASSUME ChainTypes, NEW ev \in Events, pending' = Append(pending, ev), head' = head + 1
  PROVE  /\ pending' \in Seq(Events)
         /\ Len(pending) \in Nat /\ Len(pending') = Len(pending) + 1
         /\ \A i \in 1..Len(pending) : pending'[i] = pending[i]
         /\ pending'[Len(pending) + 1] = ev
         /\ indexed' = indexed /\ indexed + Len(pending) = head
         /\ indexed \in Nat
<1>1. pending \in Seq(Events) /\ head \in Nat /\ Len(pending) <= head
  BY DEF ChainTypes
<1>2. Len(pending) \in Nat
  BY <1>1, LenProperties
<1>3. /\ pending' \in Seq(Events) /\ Len(pending') = Len(pending) + 1
      /\ \A i \in 1..Len(pending) : pending'[i] = pending[i]
      /\ pending'[Len(pending) + 1] = ev
  BY <1>1, AppendProperties
<1> QED
  BY <1>1, <1>2, <1>3 DEF indexed

\* The history goes on by one block, the chain as it is after the event.
LEMMA MinedKeepsPast ==
  ASSUME ChainTypes, PastInv, NEW ev, Mined(ev)
  PROVE  PastInv'
<1> DEFINE n == Len(pending)
<1>1. PICK H : Past(H)
  BY DEF PastInv
<1>2. PICK c : c = Now'
  OBVIOUS
<1>3. PICK N : N = n
  OBVIOUS
<1>4. PICK G : G = [i \in 0..(N + 1) |-> IF i <= N THEN H[i] ELSE c]
  OBVIOUS
<1>5. /\ N \in Nat /\ Len(pending') = N + 1
      /\ \A i \in 1..N : pending'[i] = pending[i]
      /\ pending'[N + 1] = ev
      /\ indexed' = indexed /\ indexed + N = head /\ indexed \in Nat
  BY <1>3, QueueGrows DEF Mined
<1>6. /\ H \in [0..N -> Blocks] /\ H[0] = Tables /\ H[N] = Now
      /\ \A i \in 1..N : Leads(pending[i], H[i - 1], H[i])
      /\ \A i \in 0..N : H[i].mapped \subseteq mapped
      /\ \A e \in Engines : \A x \in Candidates(e) : \A i \in 0..N :
            since[x] <= indexed + i => x \in CandidatesIn(e, H[i])
  BY <1>1, <1>3 DEF Past
<1>7. /\ \A i \in 0..N : i \in 0..(N + 1) /\ G[i] = H[i]
      /\ G[N + 1] = c
  BY <1>4, <1>5
<1>8. G \in [0..(N + 1) -> Blocks]
  <2>1. c \in Blocks
    BY <1>2 DEF Mined
  <2>2. \A i \in 0..(N + 1) : ~(i <= N) => i = N + 1
    BY <1>5
  <2>3. \A i \in 0..(N + 1) : (IF i <= N THEN H[i] ELSE c) \in Blocks
    BY <1>5, <1>6, <2>1
  <2> QED
    BY <1>4, <2>3
<1>9. Tables' = Tables
  BY DEF Mined, tableVars, Tables
<1>10. G[0] = Tables' /\ G[Len(pending')] = Now'
  BY <1>2, <1>5, <1>6, <1>7, <1>9
<1>11. \A i \in 1..(N + 1) : Leads(pending'[i], G[i - 1], G[i])
  <2> SUFFICES ASSUME NEW i \in 1..(N + 1)
               PROVE  Leads(pending'[i], G[i - 1], G[i])
    OBVIOUS
  <2>1. CASE i <= N
    <3>1. i \in 1..N /\ i \in 0..N /\ i - 1 \in 0..N
      BY <1>5, <2>1
    <3>2. pending'[i] = pending[i] /\ G[i - 1] = H[i - 1] /\ G[i] = H[i]
      BY <1>5, <1>7, <3>1
    <3> QED
      BY <1>6, <3>1, <3>2
  <2>2. CASE i = N + 1
    <3>1. i - 1 = N /\ N \in 0..N
      BY <1>5, <2>2
    <3>2. pending'[i] = ev /\ G[i - 1] = Now /\ G[i] = c
      BY <1>5, <1>6, <1>7, <2>2, <3>1
    <3>3. Leads(ev, Now, c)
      BY <1>2 DEF Mined
    <3> QED
      BY <3>2, <3>3
  <2> QED
    BY <1>5, <2>1, <2>2
<1>12. \A i \in 0..(N + 1) : G[i].mapped \subseteq mapped'
  <2>1. mapped \subseteq mapped' /\ c.mapped = mapped'
    BY <1>2 DEF Mined, Now
  <2> QED
    BY <1>4, <1>5, <1>6, <2>1
<1>13. ASSUME NEW e \in Engines, NEW x \in Candidates(e)', NEW i \in 0..(N + 1),
              since'[x] <= indexed + i
       PROVE  x \in CandidatesIn(e, G[i])
  <2>1. since'[x] = IF x \in Candidates(e) THEN since[x] ELSE head + 1
    BY DEF Mined
  <2>2. Candidates(e)' = CandidatesIn(e, c)
    BY <1>2 DEF Candidates, CandidatesIn, Now
  <2>3. CASE i = N + 1
    BY <1>7, <2>2, <2>3
  <2>4. CASE i <= N
    <3>1. i \in 0..N /\ indexed + i <= head
      BY <1>5, <2>4
    <3>2. x \in Candidates(e)
      <4>1. head \in Nat
        BY DEF ChainTypes
      <4>2. ~(head + 1 <= indexed + i)
        BY <1>5, <3>1, <4>1
      <4> QED
        BY <1>13, <2>1, <4>2
    <3>3. since[x] <= indexed + i
      BY <1>13, <2>1, <3>2
    <3>4. x \in CandidatesIn(e, H[i])
      BY <1>6, <3>1, <3>2, <3>3
    <3> QED
      BY <1>7, <3>1, <3>4
  <2> QED
    BY <1>5, <2>3, <2>4
<1>14. Past(G)'
  BY <1>5, <1>8, <1>10, <1>11, <1>12, <1>13 DEF Past
<1> QED
  BY <1>14 DEF PastInv

\* No cycle owes more than before, and none has read a newer table.
LEMMA MinedKeepsCycles ==
  ASSUME ChainTypes, CycleTypes, CycleInv, NEW ev, Mined(ev)
  PROVE  CycleInv'
<1> SUFFICES ASSUME NEW e \in Engines PROVE Cycle(e)'
  BY DEF CycleInv
<1>1. indexed' = indexed
  BY QueueGrows DEF Mined
<1>2. owed'[e] = owed[e] \cap Candidates(e)'
  BY DEF Mined
<1>3. \A x \in owed'[e] : x \in owed[e] /\ since'[x] = since[x]
  BY <1>2 DEF Mined, CycleInv, Cycle
<1>4. UNCHANGED <<pc, verdict, rows, borrowers, list>> /\ mapped \subseteq mapped'
  BY DEF Mined, routeVars
<1>5. Cycle(e)
  BY DEF CycleInv
<1> QED
  BY <1>1, <1>2, <1>3, <1>4, <1>5 DEF Cycle

\* A step of the chain keeps the invariant.
LEMMA MinedKeeps ==
  ASSUME Inv, NEW ev, Mined(ev)
  PROVE  Inv'
<1> USE DEF Inv
<1>1. ChainTypes'
  <2>1. ChainTypes
    OBVIOUS
  <2>2. pending' \in Seq(Events) /\ Len(pending') = Len(pending) + 1 /\ Len(pending) \in Nat
    BY <2>1, QueueGrows DEF Mined
  <2>3. mapped' \subseteq Proxies /\ held' \in [Proxies -> 0..MaxShares] /\ escrow' \subseteq Vaults
    <3>1. Now' \in Blocks
      BY DEF Mined
    <3> QED
      BY <3>1 DEF Now, Blocks
  <2>4. head' \in 0..MaxHead
    BY <2>1, Bounds DEF Mined, ChainTypes
  <2>5. Len(pending') <= head'
    BY <2>1, <2>2 DEF Mined, ChainTypes
  <2>6. unhealthy' \subseteq Proxies /\ since' \in [Proxies \cup Vaults -> 0..MaxHead]
    BY DEF Mined
  <2> QED
    BY <2>2, <2>3, <2>4, <2>5, <2>6 DEF ChainTypes
<1>2. RowTypes' /\ VaultTypes' /\ GuardTypes'
  BY DEF Mined, RowTypes, VaultTypes, GuardTypes, tableVars, guardVars
<1>3. CycleTypes'
  BY DEF Mined, CycleTypes, routeVars
<1>4. PastInv'
  BY MinedKeepsPast
<1>5. CycleInv'
  BY MinedKeepsCycles
<1> QED
  BY <1>1, <1>2, <1>3, <1>4, <1>5

\* What is common to the actions of the chain.
LEMMA MinesOne ==
  ASSUME ChainTypes, NEW kind \in Kinds, NEW x \in Proxies \cup Vaults,
         NEW k \in 0..MaxShares, Mine(kind, x, k),
         NEW ev, ev = [kind |-> kind, of |-> x, shares |-> k],
         Leads(ev, Now, Now'), held' \in [Proxies -> 0..MaxShares],
         mapped \subseteq mapped', mapped' \subseteq Proxies, escrow' \subseteq Vaults,
         unhealthy' \subseteq Proxies, since' \in [Proxies \cup Vaults -> 0..MaxHead],
         \A e \in Engines : \A y \in Candidates(e)' :
             since'[y] = IF y \in Candidates(e) THEN since[y] ELSE head + 1
  PROVE  Mined(ev)
<1>1. ev \in Events
  BY DEF Events
<1>2. Now' \in Blocks
  BY DEF Now, Blocks
<1> QED
  BY <1>1, <1>2 DEF Mined, Mine

\* The next block has a height the bounds allow.
LEMMA BlockIsTyped ==
  ASSUME ChainTypes, head < MaxHead
  PROVE  head + 1 \in 0..MaxHead
<1> QED
  BY Bounds DEF ChainTypes

\* A position that is opened: its proxy is a candidate from this block on,
\* and no other becomes or ceases to be one.
LEMMA OpenMines ==
  ASSUME ChainTypes, NEW p \in Proxies, Open(p)
  PROVE  \E ev : Mined(ev)
<1> DEFINE ev == [kind |-> "open", of |-> p, shares |-> 1]
<1>0. /\ p \notin mapped /\ held[p] < MaxShares /\ head < MaxHead
      /\ mapped' = mapped \cup {p}
      /\ held' = [held EXCEPT ![p] = @ + 1]
      /\ since' = [since EXCEPT ![p] = head + 1]
      /\ unhealthy' = unhealthy /\ escrow' = escrow
  BY DEF Open, Mine
<1>1. held' \in [Proxies -> 0..MaxShares]
  BY <1>0, Bounds DEF ChainTypes
<1>2. Leads(ev, Now, Now')
  BY <1>0 DEF Leads, Now
<1>3. since' \in [Proxies \cup Vaults -> 0..MaxHead]
  BY <1>0, BlockIsTyped DEF ChainTypes
<1>4. ASSUME NEW e \in Engines, NEW y \in Candidates(e)'
      PROVE  since'[y] = IF y \in Candidates(e) THEN since[y] ELSE head + 1
  <2>1. CASE e = "liquidation"
    BY <1>0, <1>4, <2>1 DEF Candidates, ChainTypes
  <2>2. CASE e = "arbitrage"
    <3>1. y \in escrow /\ y # p
      BY <1>0, <1>4, <2>2, FeedAssumption DEF Candidates, ChainTypes
    <3> QED
      BY <1>0, <2>2, <3>1 DEF Candidates, ChainTypes
  <2> QED
    BY <2>1, <2>2 DEF Engines
<1>5. mapped' \subseteq Proxies /\ escrow' \subseteq Vaults /\ unhealthy' \subseteq Proxies
  BY <1>0 DEF ChainTypes
<1>6. Mine("open", p, 1) /\ 1 \in 0..MaxShares /\ "open" \in Kinds
  BY Bounds DEF Open, Kinds
<1> HIDE DEF ev
<1>7. ev = [kind |-> "open", of |-> p, shares |-> 1]
  BY DEF ev
<1>8. Mined(ev)
  BY <1>0, <1>1, <1>2, <1>3, <1>4, <1>5, <1>6, <1>7, MinesOne
<1> QED
  BY <1>8

\* A supply: a mapped proxy without shares is a candidate from this block on.
LEMMA SupplyMines ==
  ASSUME ChainTypes, NEW p \in Proxies, Supply(p)
  PROVE  \E ev : Mined(ev)
<1> DEFINE ev == [kind |-> "supply", of |-> p, shares |-> 1]
<1>0. /\ held[p] < MaxShares /\ head < MaxHead
      /\ held' = [held EXCEPT ![p] = @ + 1]
      /\ since' = [since EXCEPT ![p] = IF held[p] = 0 THEN head + 1 ELSE @]
      /\ mapped' = mapped /\ unhealthy' = unhealthy /\ escrow' = escrow
  BY DEF Supply, Mine
<1>1. held' \in [Proxies -> 0..MaxShares]
  BY <1>0, Bounds DEF ChainTypes
<1>2. Leads(ev, Now, Now')
  BY <1>0 DEF Leads, Now
<1>3. since' \in [Proxies \cup Vaults -> 0..MaxHead]
  BY <1>0, BlockIsTyped DEF ChainTypes
<1>4. ASSUME NEW e \in Engines, NEW y \in Candidates(e)'
      PROVE  since'[y] = IF y \in Candidates(e) THEN since[y] ELSE head + 1
  <2>1. CASE e = "liquidation"
    <3>1. y \in mapped /\ y \in Proxies /\ held'[y] > 0
      BY <1>0, <1>4, <2>1 DEF Candidates, ChainTypes
    <3>2. y \in Candidates(e) <=> held[y] > 0
      BY <2>1, <3>1 DEF Candidates
    <3>3. CASE y = p
      BY <1>0, <3>1, <3>2, <3>3 DEF ChainTypes
    <3>4. CASE y # p
      BY <1>0, <3>1, <3>2, <3>4 DEF ChainTypes
    <3> QED
      BY <3>3, <3>4
  <2>2. CASE e = "arbitrage"
    <3>1. y \in escrow /\ y # p
      BY <1>0, <1>4, <2>2, FeedAssumption DEF Candidates, ChainTypes
    <3> QED
      BY <1>0, <2>2, <3>1 DEF Candidates, ChainTypes
  <2> QED
    BY <2>1, <2>2 DEF Engines
<1>5. mapped' \subseteq Proxies /\ escrow' \subseteq Vaults /\ unhealthy' \subseteq Proxies
      /\ mapped \subseteq mapped'
  BY <1>0 DEF ChainTypes
<1>6. Mine("supply", p, 1) /\ 1 \in 0..MaxShares /\ "supply" \in Kinds
  BY Bounds DEF Supply, Kinds
<1> HIDE DEF ev
<1>7. ev = [kind |-> "supply", of |-> p, shares |-> 1]
  BY DEF ev
<1>8. Mined(ev)
  BY <1>1, <1>2, <1>3, <1>4, <1>5, <1>6, <1>7, MinesOne
<1> QED
  BY <1>8

\* A withdrawal or a seizure makes nobody a candidate.
LEMMA LeaveMines ==
  ASSUME ChainTypes, NEW p \in Proxies, NEW k \in 1..MaxShares, Leave(p, k)
  PROVE  \E ev : Mined(ev)
<1> DEFINE ev == [kind |-> "leave", of |-> p, shares |-> k]
<1>0. /\ k \in 1..held[p] /\ head < MaxHead
      /\ held' = [held EXCEPT ![p] = @ - k]
      /\ since' = since /\ mapped' = mapped /\ unhealthy' = unhealthy /\ escrow' = escrow
  BY DEF Leave, Mine
<1>1. held' \in [Proxies -> 0..MaxShares]
  BY <1>0, Bounds DEF ChainTypes
<1>2. Leads(ev, Now, Now')
  BY <1>0 DEF Leads, Now
<1>3. ASSUME NEW e \in Engines, NEW y \in Candidates(e)'
      PROVE  since'[y] = IF y \in Candidates(e) THEN since[y] ELSE head + 1
  <2>1. CASE e = "liquidation"
    <3>1. y \in mapped /\ y \in Proxies /\ held'[y] > 0
      BY <1>0, <1>3, <2>1 DEF Candidates, ChainTypes
    <3>2. held[y] > 0
      BY <1>0, <3>1 DEF ChainTypes
    <3> QED
      BY <1>0, <2>1, <3>1, <3>2 DEF Candidates
  <2>2. CASE e = "arbitrage"
    BY <1>0, <1>3, <2>2 DEF Candidates
  <2> QED
    BY <2>1, <2>2 DEF Engines
<1>4. /\ mapped' \subseteq Proxies /\ escrow' \subseteq Vaults /\ unhealthy' \subseteq Proxies
      /\ mapped \subseteq mapped' /\ since' \in [Proxies \cup Vaults -> 0..MaxHead]
  BY <1>0 DEF ChainTypes
<1>5. Mine("leave", p, k) /\ k \in 0..MaxShares /\ "leave" \in Kinds
  BY Bounds DEF Leave, Kinds
<1> HIDE DEF ev
<1>6. ev = [kind |-> "leave", of |-> p, shares |-> k]
  BY DEF ev
<1>7. Mined(ev)
  BY <1>1, <1>2, <1>3, <1>4, <1>5, <1>6, MinesOne
<1> QED
  BY <1>7

\* The oracle makes nobody a candidate.
LEMMA RepriceMines ==
  ASSUME ChainTypes, NEW p \in Proxies, Reprice(p)
  PROVE  \E ev : Mined(ev)
<1> DEFINE ev == [kind |-> "reprice", of |-> p, shares |-> 0]
<1>0. /\ unhealthy' = SymDiff(unhealthy, {p})
      /\ held' = held /\ since' = since /\ mapped' = mapped /\ escrow' = escrow
  BY DEF Reprice
<1>1. Leads(ev, Now, Now')
  BY <1>0 DEF Leads, Now
<1>2. ASSUME NEW e \in Engines, NEW y \in Candidates(e)'
      PROVE  since'[y] = IF y \in Candidates(e) THEN since[y] ELSE head + 1
  BY <1>0, <1>2 DEF Candidates
<1>3. /\ mapped' \subseteq Proxies /\ escrow' \subseteq Vaults /\ unhealthy' \subseteq Proxies
      /\ mapped \subseteq mapped' /\ since' \in [Proxies \cup Vaults -> 0..MaxHead]
      /\ held' \in [Proxies -> 0..MaxShares]
  BY <1>0 DEF ChainTypes, SymDiff
<1>4. Mine("reprice", p, 0) /\ 0 \in 0..MaxShares /\ "reprice" \in Kinds
  BY Bounds DEF Reprice, Kinds
<1> HIDE DEF ev
<1>5. ev = [kind |-> "reprice", of |-> p, shares |-> 0]
  BY DEF ev
<1>6. Mined(ev)
  BY <1>1, <1>2, <1>3, <1>4, <1>5, MinesOne
<1> QED
  BY <1>6

\* A vault enters escrow and is a candidate from this block on.
LEMMA AddVaultMines ==
  ASSUME ChainTypes, NEW v \in Vaults, AddVault(v)
  PROVE  \E ev : Mined(ev)
<1> DEFINE ev == [kind |-> "added", of |-> v, shares |-> 0]
<1>0. /\ v \notin escrow /\ escrow' = escrow \cup {v} /\ head < MaxHead
      /\ since' = [since EXCEPT ![v] = head + 1]
      /\ held' = held /\ mapped' = mapped /\ unhealthy' = unhealthy
  BY DEF AddVault, Mine
<1>1. Leads(ev, Now, Now')
  BY <1>0 DEF Leads, Now
<1>2. ASSUME NEW e \in Engines, NEW y \in Candidates(e)'
      PROVE  since'[y] = IF y \in Candidates(e) THEN since[y] ELSE head + 1
  <2>1. CASE e = "liquidation"
    <3>1. y \in Candidates(e) /\ y \in Proxies /\ y # v
      BY <1>0, <1>2, <2>1, FeedAssumption DEF Candidates, ChainTypes
    <3> QED
      BY <1>0, <3>1 DEF ChainTypes
  <2>2. CASE e = "arbitrage"
    BY <1>0, <1>2, <2>2 DEF Candidates, ChainTypes
  <2> QED
    BY <2>1, <2>2 DEF Engines
<1>3. /\ mapped' \subseteq Proxies /\ escrow' \subseteq Vaults /\ unhealthy' \subseteq Proxies
      /\ mapped \subseteq mapped' /\ since' \in [Proxies \cup Vaults -> 0..MaxHead]
      /\ held' \in [Proxies -> 0..MaxShares]
  BY <1>0, BlockIsTyped DEF ChainTypes
<1>4. Mine("added", v, 0) /\ 0 \in 0..MaxShares /\ "added" \in Kinds
  BY Bounds DEF AddVault, Kinds
<1> HIDE DEF ev
<1>5. ev = [kind |-> "added", of |-> v, shares |-> 0]
  BY DEF ev
<1>6. Mined(ev)
  BY <1>1, <1>2, <1>3, <1>4, <1>5, MinesOne
<1> QED
  BY <1>6

\* A vault leaves escrow; no other does.
LEMMA RemoveVaultMines ==
  ASSUME ChainTypes, NEW v \in Vaults, RemoveVault(v)
  PROVE  \E ev : Mined(ev)
<1> DEFINE ev == [kind |-> "removed", of |-> v, shares |-> 0]
<1>0. /\ escrow' = escrow \ {v} /\ since' = since
      /\ held' = held /\ mapped' = mapped /\ unhealthy' = unhealthy
  BY DEF RemoveVault
<1>1. Leads(ev, Now, Now')
  BY <1>0 DEF Leads, Now
<1>2. ASSUME NEW e \in Engines, NEW y \in Candidates(e)'
      PROVE  since'[y] = IF y \in Candidates(e) THEN since[y] ELSE head + 1
  BY <1>0, <1>2 DEF Candidates
<1>3. /\ mapped' \subseteq Proxies /\ escrow' \subseteq Vaults /\ unhealthy' \subseteq Proxies
      /\ mapped \subseteq mapped' /\ since' \in [Proxies \cup Vaults -> 0..MaxHead]
      /\ held' \in [Proxies -> 0..MaxShares]
  BY <1>0 DEF ChainTypes
<1>4. Mine("removed", v, 0) /\ 0 \in 0..MaxShares /\ "removed" \in Kinds
  BY Bounds DEF RemoveVault, Kinds
<1> HIDE DEF ev
<1>5. ev = [kind |-> "removed", of |-> v, shares |-> 0]
  BY DEF ev
<1>6. Mined(ev)
  BY <1>1, <1>2, <1>3, <1>4, <1>5, MinesOne
<1> QED
  BY <1>6

\* Every step of the chain keeps the invariant.
LEMMA ChainKeeps ==
  ASSUME Inv, Chain
  PROVE  Inv'
<1>1. ChainTypes
  BY DEF Inv
<1>2. \E ev : Mined(ev)
  <2>1. ASSUME NEW p \in Proxies, Open(p) \/ Supply(p) \/ Reprice(p)
        PROVE  \E ev : Mined(ev)
    BY <1>1, <2>1, OpenMines, SupplyMines, RepriceMines
  <2>2. ASSUME NEW p \in Proxies, NEW k \in 1..MaxShares, Leave(p, k)
        PROVE  \E ev : Mined(ev)
    BY <1>1, <2>2, LeaveMines
  <2>3. ASSUME NEW v \in Vaults, AddVault(v) \/ RemoveVault(v)
        PROVE  \E ev : Mined(ev)
    BY <1>1, <2>3, AddVaultMines, RemoveVaultMines
  <2> QED
    BY <2>1, <2>2, <2>3 DEF Chain
<1> QED
  BY <1>2, MinedKeeps

-----------------------------------------------------------------------------
(* The indexer: its tables become the next block of the history.           *)

\* A row that is written is the only one of its key, and it is deleted with
\* its last share (Spoke.ts, positionAccounting.ts).
LEMMA RowIsWritten ==
  ASSUME RowTypes, NEW p \in Proxies, NEW k \in 0..MaxShares, WriteRow(p, k)
  PROVE  RowTypes'
<1>1. /\ suppliedShares' = [suppliedShares EXCEPT ![p] = k]
      /\ position' = IF k = 0 THEN Without(position, p)
                     ELSE Append(Without(position, p), p)
  BY DEF WriteRow
<1> DEFINE t == Without(position, p)
<1>2. t \in Seq(Proxies) /\ IsInjective(t) /\ ToSet(t) = ToSet(position) \ {p}
  BY WithoutIt DEF RowTypes
<1> HIDE DEF t
<1>3. /\ Append(t, p) \in Seq(Proxies) /\ IsInjective(Append(t, p))
      /\ ToSet(Append(t, p)) = ToSet(t) \cup {p}
  BY <1>2, AppendAdds
<1>4. suppliedShares' \in [Proxies -> 0..MaxShares]
  BY <1>1 DEF RowTypes
<1>5. CASE k = 0
  <2>1. position' = t
    BY <1>1, <1>5 DEF t
  <2>2. ToSet(t) = {q \in Proxies : suppliedShares'[q] > 0}
    BY <1>1, <1>2, <1>5 DEF RowTypes
  <2> QED
    BY <1>2, <1>4, <2>1, <2>2 DEF RowTypes
<1>6. CASE k # 0
  <2>1. position' = Append(t, p)
    BY <1>1, <1>6 DEF t
  <2>2. k > 0
    BY <1>6
  <2>3. ToSet(Append(t, p)) = {q \in Proxies : suppliedShares'[q] > 0}
    BY <1>1, <1>2, <1>3, <2>2 DEF RowTypes
  <2> QED
    BY <1>3, <1>4, <2>1, <2>3 DEF RowTypes
<1> QED
  BY <1>5, <1>6

\* The supply handler adds the shares to the row.
LEMMA SupplyIsIndexed ==
  ASSUME RowTypes, NEW p \in Proxies, NEW k \in Nat \ {0}, OnSupply(p, k),
         NEW d \in [Proxies -> 0..MaxShares],
         d = [suppliedShares EXCEPT ![p] = @ + k]
  PROVE  RowTypes' /\ suppliedShares' = d
<1>1. WriteRow(p, suppliedShares[p] + k)
  BY DEF OnSupply, applySupply
<1>2. suppliedShares[p] + k \in 0..MaxShares
  BY DEF RowTypes
<1>3. RowTypes'
  BY <1>1, <1>2, RowIsWritten
<1>4. suppliedShares' = d
  BY <1>1 DEF WriteRow
<1> QED
  BY <1>3, <1>4

\* The withdrawal and liquidation handlers take them; a row that is missing
\* had none.
LEMMA LeaveIsIndexed ==
  ASSUME RowTypes, NEW p \in Proxies, NEW k \in 1..suppliedShares[p], OnLeave(p, k),
         NEW d \in [Proxies -> 0..MaxShares],
         d = [suppliedShares EXCEPT ![p] = @ - k]
  PROVE  RowTypes' /\ suppliedShares' = d
<1>1. suppliedShares[p] \in 0..MaxShares /\ suppliedShares[p] > 0
  BY DEF RowTypes
<1>2. Contains(position, p)
  BY <1>1, ContainsIt DEF RowTypes
<1>3. applyLeave(suppliedShares[p], k) = suppliedShares[p] - k
  BY <1>1 DEF applyLeave
<1>4. WriteRow(p, suppliedShares[p] - k)
  BY <1>2, <1>3 DEF OnLeave
<1>5. suppliedShares[p] - k \in 0..MaxShares
  BY <1>1
<1>6. RowTypes'
  BY <1>4, <1>5, RowIsWritten
<1>7. suppliedShares' = d
  BY <1>4 DEF WriteRow
<1> QED
  BY <1>6, <1>7

\* The handlers of VaultSwap.ts write one row for a vault, and delete it.
LEMMA VaultIsIndexed ==
  ASSUME VaultTypes, NEW v \in Vaults
  PROVE  /\ OnAddedVault(v) => VaultTypes' /\ ToSet(escrowedVault') = ToSet(escrowedVault) \cup {v}
         /\ OnRemovedVault(v) => VaultTypes' /\ ToSet(escrowedVault') = ToSet(escrowedVault) \ {v}
<1>1. ASSUME OnRemovedVault(v)
      PROVE  VaultTypes' /\ ToSet(escrowedVault') = ToSet(escrowedVault) \ {v}
  <2>1. escrowedVault' = Without(escrowedVault, v)
    BY <1>1 DEF OnRemovedVault
  <2> QED
    BY <2>1, WithoutIt DEF VaultTypes
<1>2. ASSUME OnAddedVault(v)
      PROVE  VaultTypes' /\ ToSet(escrowedVault') = ToSet(escrowedVault) \cup {v}
  <2>1. escrowedVault' = IF Contains(escrowedVault, v) THEN escrowedVault
                         ELSE Append(escrowedVault, v)
    BY <1>2 DEF OnAddedVault
  <2>2. Contains(escrowedVault, v) <=> v \in ToSet(escrowedVault)
    BY ContainsIt DEF VaultTypes
  <2>3. CASE Contains(escrowedVault, v)
    BY <2>1, <2>2, <2>3 DEF VaultTypes
  <2>4. CASE ~Contains(escrowedVault, v)
    <3>1. escrowedVault' = Append(escrowedVault, v)
      BY <2>1, <2>4
    <3> QED
      BY <2>2, <2>4, <3>1, AppendAdds DEF VaultTypes
  <2> QED
    BY <2>3, <2>4
<1> QED
  BY <1>1, <1>2

\* The handler of an event does to the tables what the event did to the chain.
LEMMA HandlersFollow ==
  ASSUME RowTypes, VaultTypes, IndexBlock, NEW d \in Blocks,
         Leads(Head(pending), Tables, d)
  PROVE  RowTypes' /\ VaultTypes' /\ Tables' = d
<1> DEFINE ev == Head(pending)
<1>1. Tables.held = suppliedShares /\ Tables.mapped = proxyMapping
      /\ Tables.escrow = ToSet(escrowedVault)
  BY DEF Tables
<1>2. /\ d.held \in [Proxies -> 0..MaxShares]
      /\ d = [held |-> d.held, mapped |-> d.mapped, escrow |-> d.escrow]
  BY DEF Blocks
<1>3. SUFFICES /\ RowTypes' /\ VaultTypes'
               /\ suppliedShares' = d.held
               /\ proxyMapping' = d.mapped
               /\ ToSet(escrowedVault') = d.escrow
  BY <1>2 DEF Tables
<1> HIDE DEF ev
<1>4. Leads(ev, Tables, d)
  BY DEF ev
<1>5. VaultTypes /\ escrowedVault' = escrowedVault => VaultTypes'
  BY DEF VaultTypes
<1>6. RowTypes /\ UNCHANGED <<position, suppliedShares>> => RowTypes'
  BY DEF RowTypes
<1>7. CASE /\ ev.kind = "open"
           /\ OnUserProxyCreated(ev.of) /\ OnSupply(ev.of, ev.shares)
           /\ UNCHANGED escrowedVault
  <2>1. /\ ev.of \in Proxies /\ ev.shares \in Nat \ {0}
        /\ d.held = [suppliedShares EXCEPT ![ev.of] = @ + ev.shares]
        /\ d.mapped = proxyMapping \cup {ev.of} /\ d.escrow = ToSet(escrowedVault)
    BY <1>1, <1>4, <1>7 DEF Leads
  <2>2. RowTypes' /\ suppliedShares' = d.held
    BY <1>2, <1>7, <2>1, SupplyIsIndexed
  <2> QED
    BY <1>5, <1>7, <2>1, <2>2 DEF OnUserProxyCreated
<1>8. CASE /\ ev.kind = "supply"
           /\ OnSupply(ev.of, ev.shares)
           /\ UNCHANGED <<proxyMapping, escrowedVault>>
  <2>1. /\ ev.of \in Proxies /\ ev.shares \in Nat \ {0}
        /\ d.held = [suppliedShares EXCEPT ![ev.of] = @ + ev.shares]
        /\ d.mapped = proxyMapping /\ d.escrow = ToSet(escrowedVault)
    BY <1>1, <1>4, <1>8 DEF Leads
  <2>2. RowTypes' /\ suppliedShares' = d.held
    BY <1>2, <1>8, <2>1, SupplyIsIndexed
  <2> QED
    BY <1>5, <1>8, <2>1, <2>2
<1>9. CASE /\ ev.kind = "leave"
           /\ OnLeave(ev.of, ev.shares)
           /\ UNCHANGED <<proxyMapping, escrowedVault>>
  <2>1. /\ ev.of \in Proxies /\ ev.shares \in 1..suppliedShares[ev.of]
        /\ d.held = [suppliedShares EXCEPT ![ev.of] = @ - ev.shares]
        /\ d.mapped = proxyMapping /\ d.escrow = ToSet(escrowedVault)
    BY <1>1, <1>4, <1>9 DEF Leads
  <2>2. RowTypes' /\ suppliedShares' = d.held
    BY <1>2, <1>9, <2>1, LeaveIsIndexed
  <2> QED
    BY <1>5, <1>9, <2>1, <2>2
<1>10. CASE ev.kind = "reprice" /\ UNCHANGED tableVars
  <2>1. d.held = suppliedShares /\ d.mapped = proxyMapping /\ d.escrow = ToSet(escrowedVault)
    BY <1>1, <1>4, <1>10 DEF Leads
  <2> QED
    BY <1>5, <1>6, <1>10, <2>1 DEF tableVars
<1>11. CASE /\ ev.kind = "added"
            /\ OnAddedVault(ev.of)
            /\ UNCHANGED <<position, suppliedShares, proxyMapping>>
  <2>1. /\ ev.of \in Vaults /\ d.held = suppliedShares /\ d.mapped = proxyMapping
        /\ d.escrow = ToSet(escrowedVault) \cup {ev.of}
    BY <1>1, <1>4, <1>11 DEF Leads
  <2>2. VaultTypes' /\ ToSet(escrowedVault') = d.escrow
    BY <1>11, <2>1, VaultIsIndexed
  <2> QED
    BY <1>6, <1>11, <2>1, <2>2
<1>12. CASE /\ ev.kind = "removed"
            /\ OnRemovedVault(ev.of)
            /\ UNCHANGED <<position, suppliedShares, proxyMapping>>
  <2>1. /\ ev.of \in Vaults /\ d.held = suppliedShares /\ d.mapped = proxyMapping
        /\ d.escrow = ToSet(escrowedVault) \ {ev.of}
    BY <1>1, <1>4, <1>12 DEF Leads
  <2>2. VaultTypes' /\ ToSet(escrowedVault') = d.escrow
    BY <1>12, <2>1, VaultIsIndexed
  <2> QED
    BY <1>6, <1>12, <2>1, <2>2
<1> QED
  BY <1>7, <1>8, <1>9, <1>10, <1>11, <1>12 DEF IndexBlock, ev

\* A block indexed is one fewer to reach.
LEMMA QueueShrinks ==
  ASSUME ChainTypes, IndexBlock
  PROVE  /\ Len(pending) \in Nat \ {0} /\ Head(pending) = pending[1]
         /\ pending' \in Seq(Events) /\ Len(pending') = Len(pending) - 1
         /\ \A i \in 1..Len(pending') : pending'[i] = pending[i + 1]
         /\ indexed \in Nat /\ indexed' = indexed + 1
<1>1. pending \in Seq(Events) /\ pending # <<>> /\ pending' = Tail(pending) /\ head' = head
  BY DEF ChainTypes, IndexBlock, chainVars
<1>2. Len(pending) \in Nat \ {0}
  BY <1>1, EmptySeq
<1>3. /\ pending' \in Seq(Events) /\ Len(pending') = Len(pending) - 1
      /\ \A i \in 1..Len(pending') : pending'[i] = pending[i + 1]
  BY <1>1, HeadTailProperties
<1>4. head \in Nat /\ Len(pending) <= head
  BY DEF ChainTypes
<1>5. Head(pending) = pending[1]
  BY <1>1
<1> QED
  BY <1>1, <1>2, <1>3, <1>4, <1>5 DEF indexed

\* The handlers bring the tables to the next block of the history.
LEMMA IndexKeepsTables ==
  ASSUME ChainTypes, RowTypes, VaultTypes, NEW H, Past(H), IndexBlock
  PROVE  RowTypes' /\ VaultTypes' /\ Tables' = H[1]
<1>1. Len(pending) \in Nat \ {0} /\ Head(pending) = pending[1]
  BY QueueShrinks
<1>2. H[1] \in Blocks /\ Leads(pending[1], H[1 - 1], H[1]) /\ H[0] = Tables
  BY <1>1 DEF Past
<1>3. Leads(Head(pending), Tables, H[1])
  BY <1>1, <1>2
<1> QED
  BY <1>2, <1>3, HandlersFollow

\* What is left of the history begins there.
LEMMA IndexKeepsPast ==
  ASSUME ChainTypes, NEW H, Past(H), IndexBlock, Tables' = H[1]
  PROVE  PastInv'
<1>1. PICK N : N = Len(pending)
  OBVIOUS
<1>2. PICK G : G = [i \in 0..(N - 1) |-> H[i + 1]]
  OBVIOUS
<1>3. /\ N \in Nat \ {0} /\ Len(pending') = N - 1
      /\ \A i \in 1..(N - 1) : pending'[i] = pending[i + 1]
      /\ indexed \in Nat /\ indexed' = indexed + 1
  BY <1>1, QueueShrinks
<1>4. /\ H \in [0..N -> Blocks] /\ H[N] = Now
      /\ \A i \in 1..N : Leads(pending[i], H[i - 1], H[i])
      /\ \A i \in 0..N : H[i].mapped \subseteq mapped
      /\ \A e \in Engines : \A x \in Candidates(e) : \A i \in 0..N :
            since[x] <= indexed + i => x \in CandidatesIn(e, H[i])
  BY <1>1 DEF Past
<1>5. UNCHANGED chainVars
  BY DEF IndexBlock
<1>6. \A i \in 0..(N - 1) : G[i] = H[i + 1] /\ i + 1 \in 0..N /\ i + 1 \in 1..N
  BY <1>2, <1>3
<1>7. G \in [0..(N - 1) -> Blocks]
  BY <1>2, <1>4, <1>6
<1>8. G[0] = Tables' /\ G[N - 1] = Now'
  <2>1. 0 \in 0..(N - 1) /\ N - 1 \in 0..(N - 1) /\ (N - 1) + 1 = N /\ 0 + 1 = 1
    BY <1>3
  <2>2. Now' = Now
    BY <1>5 DEF chainVars, Now
  <2> QED
    BY <1>4, <1>6, <2>1, <2>2
<1>9. \A i \in 1..(N - 1) : Leads(pending'[i], G[i - 1], G[i])
  <2> SUFFICES ASSUME NEW i \in 1..(N - 1)
               PROVE  Leads(pending'[i], G[i - 1], G[i])
    OBVIOUS
  <2>1. i - 1 \in 0..(N - 1) /\ i \in 0..(N - 1) /\ (i - 1) + 1 = i /\ (i + 1) - 1 = i
        /\ i + 1 \in 1..N
    BY <1>3
  <2>2. G[i - 1] = H[i] /\ G[i] = H[i + 1] /\ pending'[i] = pending[i + 1]
    BY <1>3, <1>6, <2>1
  <2>3. Leads(pending[i + 1], H[(i + 1) - 1], H[i + 1])
    BY <1>4, <2>1
  <2> QED
    BY <2>1, <2>2, <2>3
<1>10. \A i \in 0..(N - 1) : G[i].mapped \subseteq mapped'
  BY <1>4, <1>5, <1>6 DEF chainVars
<1>11. ASSUME NEW e \in Engines, NEW x \in Candidates(e)', NEW i \in 0..(N - 1),
              since'[x] <= indexed' + i
       PROVE  x \in CandidatesIn(e, G[i])
  <2>1. x \in Candidates(e) /\ since'[x] = since[x]
    BY <1>5, <1>11 DEF Candidates, chainVars
  <2>2. since[x] <= indexed + (i + 1)
    <3>1. indexed' + i = indexed + (i + 1)
      BY <1>3
    <3> QED
      BY <1>11, <2>1, <3>1
  <2> QED
    BY <1>4, <1>6, <2>1, <2>2
<1>12. Past(G)'
  BY <1>3, <1>7, <1>8, <1>9, <1>10, <1>11 DEF Past
<1> QED
  BY <1>12 DEF PastInv

\* A step of the indexer keeps the invariant.
LEMMA IndexKeeps ==
  ASSUME Inv, IndexBlock
  PROVE  Inv'
<1>1. PICK H : Past(H)
  BY DEF Inv, PastInv
<1>2. ChainTypes /\ RowTypes /\ VaultTypes
  BY DEF Inv
<1>3. UNCHANGED <<chainVars, guardVars, routeVars, cycleVars, faults>>
  BY DEF IndexBlock
<1>4. RowTypes' /\ VaultTypes' /\ Tables' = H[1]
  BY <1>1, <1>2, IndexKeepsTables
<1>5. PastInv'
  BY <1>1, <1>2, <1>4, IndexKeepsPast
<1>6. /\ pending' \in Seq(Events) /\ Len(pending') = Len(pending) - 1
      /\ Len(pending) \in Nat /\ indexed \in Nat /\ indexed' = indexed + 1
  BY <1>2, QueueShrinks
<1>7. ChainTypes'
  BY <1>2, <1>3, <1>6 DEF ChainTypes, chainVars
<1>8. GuardTypes' /\ CycleTypes'
  BY <1>3 DEF Inv, GuardTypes, CycleTypes, guardVars, routeVars, cycleVars, chainVars
<1>9. ASSUME NEW e \in Engines PROVE Cycle(e)'
  <2>1. Cycle(e)
    BY DEF Inv, CycleInv
  <2>2. Candidates(e)' = Candidates(e)
    BY <1>3 DEF chainVars, Candidates
  <2>3. \A x \in owed[e] : since[x] <= indexed => since'[x] <= indexed'
    <3>1. \A x \in owed[e] : x \in Proxies \cup Vaults
      BY <1>2, <2>1 DEF Cycle, Candidates, ChainTypes
    <3>2. \A x \in owed[e] : since[x] \in Nat /\ since'[x] = since[x]
      BY <1>2, <1>3, <3>1 DEF ChainTypes, chainVars
    <3> QED
      BY <1>6, <3>2
  <2> QED
    BY <1>3, <2>1, <2>2, <2>3 DEF Cycle, routeVars, cycleVars, chainVars
<1> QED
  BY <1>4, <1>5, <1>7, <1>8, <1>9 DEF Inv, CycleInv

-----------------------------------------------------------------------------
(* The cycles: the guard, the reads and the answers.                       *)

\* What a step of a cycle, or of the guard, leaves to the others.
Still == UNCHANGED <<chainVars, pending, tableVars>>

\* Such a step keeps the chain, the tables and the history.
LEMMA StillKeeps ==
  ASSUME Inv, Still
  PROVE  ChainTypes' /\ RowTypes' /\ VaultTypes' /\ PastInv'
<1>1. ChainTypes' /\ RowTypes' /\ VaultTypes'
  BY DEF Inv, Still, chainVars, tableVars, ChainTypes, RowTypes, VaultTypes
<1>2. PICK H : Past(H)
  BY DEF Inv, PastInv
<1>3. /\ indexed' = indexed /\ Now' = Now /\ Tables' = Tables
      /\ \A e \in Engines : Candidates(e)' = Candidates(e)
  BY DEF Still, chainVars, tableVars, indexed, Now, Tables, Candidates
<1>4. UNCHANGED <<pending, mapped, since>>
  BY DEF Still, chainVars
<1>5. Past(H)'
  BY <1>2, <1>3, <1>4 DEF Past
<1> QED
  BY <1>1, <1>5 DEF PastInv

\* What a cycle still owes when it reads is in the tables.
LEMMA OwedAreIndexed ==
  ASSUME Inv, NEW e \in Engines, pc[e] # "asked"
  PROVE  owed[e] \subseteq CandidatesIn(e, Tables)
<1>1. PICK H : Past(H)
  BY DEF Inv, PastInv
<1>2. Cycle(e) /\ ChainTypes
  BY DEF Inv, CycleInv
<1>3. Len(pending) \in Nat /\ indexed \in Nat
  <2>1. Len(pending) \in Nat
    BY <1>2, LenProperties DEF ChainTypes
  <2> QED
    BY <1>2, <2>1 DEF ChainTypes, indexed
<1>4. 0 \in 0..Len(pending) /\ indexed + 0 = indexed
  BY <1>3
<1>5. SUFFICES ASSUME NEW x \in owed[e] PROVE x \in CandidatesIn(e, Tables)
  OBVIOUS
<1>6. x \in Candidates(e) /\ since[x] <= indexed
  BY <1>2 DEF Cycle
<1>7. since[x] <= indexed + 0 => x \in CandidatesIn(e, H[0])
  BY <1>1, <1>4, <1>6 DEF Past
<1>8. x \in CandidatesIn(e, H[0])
  BY <1>4, <1>6, <1>7
<1> QED
  BY <1>1, <1>8 DEF Past

\* What e has read is what it had read.
Same(e) ==
    /\ pc'[e] = pc[e] /\ verdict'[e] = verdict[e] /\ owed'[e] = owed[e]
    /\ rows'[e] = rows[e] /\ list'[e] = list[e]
    /\ e = "liquidation" => borrowers' = borrowers

\* And the cycle it is not a step of.
LEMMA Elsewhere ==
  ASSUME Still, NEW e \in Engines, Cycle(e), Same(e)
  PROVE  Cycle(e)'
<1>1. Candidates(e)' = Candidates(e) /\ indexed' = indexed /\ UNCHANGED <<since, mapped>>
  BY DEF Still, chainVars, Candidates, indexed
<1> QED
  BY <1>1 DEF Same, Cycle

\* A good verdict is one on a head no more than maxLagBlocks above the
\* indexer, so whoever is owed has been reached (indexer.ts assessIndexerLag).
LEMMA AskKeeps ==
  ASSUME Inv, NEW e \in Engines, Ask(e)
  PROVE  Inv'
<1>1. Still /\ UNCHANGED <<guardVars, routeVars, candidateOffset, handed>>
  BY DEF Ask, Still
<1>2. CycleTypes /\ CycleInv /\ ChainTypes
  BY DEF Inv
<1>3. pc[e] = "idle" /\ pc' = [pc EXCEPT ![e] = "asked"]
  BY DEF Ask
<1>4. Candidates(e)' = Candidates(e) /\ indexed' = indexed /\ UNCHANGED since
  BY <1>1 DEF Still, chainVars, Candidates, indexed
<1>5. head \in Nat /\ indexed \in Int
  <2>1. Len(pending) \in Nat
    BY <1>2, LenProperties DEF ChainTypes
  <2> QED
    BY <1>2, <2>1 DEF ChainTypes, indexed
<1>6. rows[e] = None /\ (e = "liquidation" => borrowers = None) /\ Cycle(e)
  BY <1>2, <1>3 DEF CycleInv, Cycle
<1>7. pc'[e] = "asked" /\ rows'[e] = None /\ (e = "liquidation" => borrowers' = None)
      /\ list'[e] = list[e]
  BY <1>1, <1>2, <1>3, <1>6 DEF routeVars, CycleTypes
<1>8. CASE \E rpcHead \in (head - RpcTrail)..head :
             /\ verdict' = [verdict EXCEPT ![e] = assessIndexerLag(rpcHead)]
             /\ owed' = [owed EXCEPT ![e] =
                   {x \in Candidates(e) : since[x] <= rpcHead - MaxLagBlocks}]
             /\ UNCHANGED faults
  <2>1. PICK rpcHead \in (head - RpcTrail)..head :
             /\ verdict' = [verdict EXCEPT ![e] = assessIndexerLag(rpcHead)]
             /\ owed' = [owed EXCEPT ![e] =
                   {x \in Candidates(e) : since[x] <= rpcHead - MaxLagBlocks}]
             /\ UNCHANGED faults
    BY <1>8
  <2>2. assessIndexerLag(rpcHead) \in {"ok", "bad"}
    BY DEF assessIndexerLag
  <2>3. CycleTypes'
    BY <1>1, <1>2, <1>3, <2>1, <2>2 DEF CycleTypes, routeVars, Still, chainVars
  <2>4. rpcHead \in Int /\ MaxLagBlocks \in Nat
    BY <1>5, Bounds
  <2>5. verdict'[e] = assessIndexerLag(rpcHead)
        /\ owed'[e] = {x \in Candidates(e) : since[x] <= rpcHead - MaxLagBlocks}
    BY <1>2, <2>1 DEF CycleTypes
  <2>6. ASSUME verdict'[e] = "ok", NEW x \in owed'[e] PROVE since[x] <= indexed
    <3>1. x \in Proxies \cup Vaults /\ since[x] <= rpcHead - MaxLagBlocks
      BY <1>2, <2>5, <2>6 DEF Candidates, ChainTypes
    <3>2. since[x] \in Nat
      BY <1>2, <3>1 DEF ChainTypes
    <3>3. rpcHead - MaxLagBlocks <= indexed
      BY <1>5, <2>4, <2>5, <2>6 DEF assessIndexerLag
    <3> QED
      BY <1>5, <2>4, <3>1, <3>2, <3>3
  <2>7. Cycle(e)'
    BY <1>4, <1>6, <1>7, <2>5, <2>6 DEF Cycle
  <2>8. ASSUME NEW f \in Engines, f # e PROVE Same(f)
    BY <1>1, <1>2, <1>3, <2>1, <2>8 DEF Same, CycleTypes, routeVars
  <2>9. CycleInv'
    BY <1>1, <1>2, <2>7, <2>8, Elsewhere DEF CycleInv
  <2> QED
    BY <1>1, <2>3, <2>9, StillKeeps DEF Inv, GuardTypes, guardVars
<1>9. CASE /\ faults < MaxFaults
           /\ verdict' = [verdict EXCEPT ![e] = "bad"]
           /\ faults' = faults + 1
           /\ UNCHANGED owed
  <2>1. CycleTypes'
    BY <1>1, <1>2, <1>3, <1>9, Bounds DEF CycleTypes, routeVars, Still, chainVars
  <2>2. Cycle(e)'
    <3>1. verdict'[e] = "bad" /\ owed'[e] = owed[e]
      BY <1>2, <1>9 DEF CycleTypes
    <3> QED
      BY <1>4, <1>6, <1>7, <3>1 DEF Cycle
  <2>3. ASSUME NEW f \in Engines, f # e PROVE Same(f)
    BY <1>1, <1>2, <1>3, <1>9, <2>3 DEF Same, CycleTypes, routeVars
  <2>4. CycleInv'
    BY <1>1, <1>2, <2>2, <2>3, Elsewhere DEF CycleInv
  <2> QED
    BY <1>1, <2>1, <2>4, StillKeeps DEF Inv, GuardTypes, guardVars
<1> QED
  BY <1>8, <1>9 DEF Ask

\* A bad verdict leaves the guard well-formed.
LEMMA BadIsTyped ==
  ASSUME GuardTypes, Bad
  PROVE  GuardTypes'
<1> QED
  BY Bounds DEF GuardTypes, Bad

\* A cycle goes on with a good verdict, or ends and owes nothing.
LEMMA JudgeKeeps ==
  ASSUME Inv, NEW e \in Engines, Judge(e)
  PROVE  Inv'
<1>1. Still /\ UNCHANGED <<routeVars, candidateOffset, handed, faults>>
  BY DEF Judge, Still
<1>2. CycleTypes /\ CycleInv /\ ChainTypes /\ GuardTypes
  BY DEF Inv
<1>3. pc[e] = "asked" /\ verdict' = [verdict EXCEPT ![e] = None]
  BY DEF Judge
<1>4. Candidates(e)' = Candidates(e) /\ indexed' = indexed /\ UNCHANGED since
  BY <1>1 DEF Still, chainVars, Candidates, indexed
<1>5. rows[e] = None /\ (e = "liquidation" => borrowers = None) /\ Cycle(e)
  BY <1>2, <1>3 DEF CycleInv, Cycle
<1>6. rows'[e] = None /\ (e = "liquidation" => borrowers' = None) /\ list'[e] = list[e]
      /\ verdict'[e] = None
  BY <1>1, <1>2, <1>3, <1>5 DEF routeVars, CycleTypes
<1>7. CASE /\ verdict[e] = "ok"
           /\ unusableFor' = None /\ halted' = FALSE
           /\ UNCHANGED gate
           /\ pc' = [pc EXCEPT ![e] = "reading"]
           /\ UNCHANGED owed
  <2>1. CycleTypes' /\ GuardTypes'
    BY <1>1, <1>2, <1>3, <1>7 DEF CycleTypes, GuardTypes, routeVars, Still, chainVars
  <2>2. Cycle(e)'
    <3>1. pc'[e] = "reading" /\ owed'[e] = owed[e]
      BY <1>2, <1>7 DEF CycleTypes
    <3> QED
      BY <1>4, <1>5, <1>6, <1>7, <3>1 DEF Cycle
  <2>3. ASSUME NEW f \in Engines, f # e PROVE Same(f)
    BY <1>1, <1>2, <1>3, <1>7, <2>3 DEF Same, CycleTypes, routeVars
  <2>4. CycleInv'
    BY <1>1, <1>2, <2>2, <2>3, Elsewhere DEF CycleInv
  <2> QED
    BY <1>1, <2>1, <2>4, StillKeeps DEF Inv
<1>8. CASE /\ verdict[e] = "bad"
           /\ Bad
           /\ pc' = [pc EXCEPT ![e] = "idle"]
           /\ owed' = [owed EXCEPT ![e] = {}]
  <2>1. CycleTypes' /\ GuardTypes'
    BY <1>1, <1>2, <1>3, <1>8, BadIsTyped DEF CycleTypes, routeVars, Still, chainVars
  <2>2. Cycle(e)'
    <3>1. pc'[e] = "idle" /\ owed'[e] = {}
      BY <1>2, <1>8 DEF CycleTypes
    <3> QED
      BY <1>5, <1>6, <3>1 DEF Cycle
  <2>3. ASSUME NEW f \in Engines, f # e PROVE Same(f)
    BY <1>1, <1>2, <1>3, <1>8, <2>3 DEF Same, CycleTypes, routeVars
  <2>4. CycleInv'
    BY <1>1, <1>2, <2>2, <2>3, Elsewhere DEF CycleInv
  <2> QED
    BY <1>1, <2>1, <2>4, StillKeeps DEF Inv
<1> QED
  BY <1>7, <1>8 DEF Judge

\* The clock and the operator touch the guard alone.
LEMMA GuardMoveKeeps ==
  ASSUME Inv, Tick \/ Operator
  PROVE  Inv'
<1>1. Still /\ UNCHANGED <<routeVars, cycleVars, faults>>
  BY DEF Tick, Operator, Still
<1>2. GuardTypes'
  <2>1. CASE Tick
    BY <2>1, Bounds DEF Tick, GuardTypes, Inv
  <2>2. CASE Operator
    BY <2>2 DEF Operator, GuardTypes, Inv
  <2> QED
    BY <2>1, <2>2
<1>3. CycleTypes'
  BY <1>1 DEF Inv, CycleTypes, routeVars, cycleVars, Still, chainVars
<1>4. \A e \in Engines : Same(e)
  BY <1>1 DEF Same, routeVars, cycleVars
<1>5. CycleInv'
  BY <1>1, <1>4, Elsewhere DEF Inv, CycleInv
<1> QED
  BY <1>1, <1>2, <1>3, <1>5, StillKeeps DEF Inv

\* The rows a route reads are those of a moment at which everybody owed was
\* in the table (api/index.ts).
LEMMA ReadRowsKeeps ==
  ASSUME Inv, NEW e \in Engines, ReadRows(e)
  PROVE  Inv'
<1>1. Still /\ UNCHANGED <<guardVars, borrowers, list, missed, cycleVars, faults>>
  BY DEF ReadRows, Still
<1>2. CycleTypes /\ CycleInv /\ RowTypes /\ VaultTypes
  BY DEF Inv
<1> DEFINE table == IF e = "liquidation" THEN position ELSE escrowedVault
<1>3. pc[e] = "reading" /\ rows' = [rows EXCEPT ![e] = table]
  BY DEF ReadRows
<1>4. table \in Seq(Keys(e)) /\ IsInjective(table)
  BY <1>2 DEF Keys, RowTypes, VaultTypes
<1>5. owed[e] \subseteq ToSet(table)
  <2>1. owed[e] \subseteq CandidatesIn(e, Tables)
    BY <1>3, OwedAreIndexed
  <2>2. CASE e = "liquidation"
    <3>1. \A p \in owed[e] : p \in Proxies /\ suppliedShares[p] > 0
      <4>1. Candidates(e) \subseteq Proxies /\ owed[e] \subseteq Candidates(e)
        BY <1>2, <2>2 DEF Inv, ChainTypes, Candidates, CycleInv, Cycle
      <4> QED
        BY <2>1, <2>2, <4>1 DEF CandidatesIn, Tables
    <3> QED
      BY <1>2, <2>2, <3>1 DEF RowTypes
  <2>3. CASE e # "liquidation"
    BY <2>1, <2>3 DEF CandidatesIn, Tables
  <2> QED
    BY <2>2, <2>3
<1> HIDE DEF table
<1>6. CycleTypes'
  BY <1>1, <1>2, <1>3 DEF CycleTypes, cycleVars, Still, chainVars
<1>7. Cycle(e)'
  <2>1. rows'[e] = table
    BY <1>2, <1>3 DEF CycleTypes
  <2>2. Cycle(e) /\ UNCHANGED <<pc, verdict, owed, borrowers, list>>
    BY <1>1, <1>2 DEF CycleInv, cycleVars
  <2>3. Candidates(e)' = Candidates(e) /\ indexed' = indexed /\ UNCHANGED <<since, mapped>>
    BY <1>1 DEF Still, chainVars, Candidates, indexed
  <2> QED
    BY <1>3, <1>4, <1>5, <2>1, <2>2, <2>3 DEF Cycle
<1>8. ASSUME NEW f \in Engines, f # e PROVE Same(f)
  BY <1>1, <1>2, <1>3, <1>8 DEF Same, CycleTypes, cycleVars
<1>9. CycleInv'
  BY <1>1, <1>2, <1>7, <1>8, Elsewhere DEF CycleInv
<1> QED
  BY <1>1, <1>6, <1>9, StillKeeps DEF Inv, GuardTypes, guardVars

\* So are the mappings.
LEMMA ReadMappingsKeeps ==
  ASSUME Inv, ReadMappings
  PROVE  Inv'
<1> DEFINE e == "liquidation"
<1>1. Still /\ UNCHANGED <<guardVars, rows, list, missed, cycleVars, faults>>
  BY DEF ReadMappings, Still
<1>2. CycleTypes /\ CycleInv /\ e \in Engines
  BY DEF Inv, Engines
<1>3. pc[e] = "reading" /\ borrowers' = proxyMapping
  BY DEF ReadMappings
<1>4. owed[e] \subseteq proxyMapping
  <2>1. owed[e] \subseteq CandidatesIn(e, Tables)
    BY <1>2, <1>3, OwedAreIndexed
  <2> QED
    BY <2>1 DEF CandidatesIn, Tables
<1>5. proxyMapping \subseteq mapped
  BY InvIsTyped DEF TypeOK
<1>6. CycleTypes'
  BY <1>1, <1>2 DEF CycleTypes, cycleVars, Still, chainVars
<1>7. Cycle(e)'
  <2>1. Cycle(e) /\ UNCHANGED <<pc, verdict, owed, rows, list>>
    BY <1>1, <1>2 DEF CycleInv, cycleVars
  <2>2. Candidates(e)' = Candidates(e) /\ indexed' = indexed /\ UNCHANGED <<since, mapped>>
    BY <1>1 DEF Still, chainVars, Candidates, indexed
  <2> QED
    BY <1>3, <1>4, <1>5, <2>1, <2>2 DEF Cycle
<1>8. ASSUME NEW f \in Engines, f # e PROVE Same(f)
  BY <1>1, <1>8 DEF Same, cycleVars
<1>9. CycleInv'
  BY <1>1, <1>2, <1>7, <1>8, Elsewhere DEF CycleInv
<1> QED
  BY <1>1, <1>6, <1>9, StillKeeps DEF Inv, GuardTypes, guardVars

\* A failure is counted only while there is one left.
LEMMA FaultsAreBounded ==
  ASSUME faults \in 0..MaxFaults, NEW s, NEW lost \in Lost(s),
         faults' = IF lost = {} THEN faults ELSE faults + 1
  PROVE  faults' \in 0..MaxFaults
<1>1. faults = MaxFaults => lost = {}
  BY DEF Lost
<1> QED
  BY <1>1, Bounds

\* A cycle that ends owes nothing and holds no read.
LEMMA EndKeeps ==
  ASSUME Inv, Still, NEW e \in Engines, EndCycle(e), UNCHANGED guardVars,
         borrowers' = IF e = "liquidation" THEN None ELSE borrowers,
         handed' \subseteq mapped, candidateOffset' \in 0..Cardinality(Proxies),
         faults' \in 0..MaxFaults
  PROVE  Inv'
<1>1. CycleTypes /\ CycleInv
  BY DEF Inv
<1>2. /\ pc' = [pc EXCEPT ![e] = "idle"] /\ owed' = [owed EXCEPT ![e] = {}]
      /\ rows' = [rows EXCEPT ![e] = None] /\ list' = [list EXCEPT ![e] = <<>>]
      /\ missed' = [missed EXCEPT ![e] = 0] /\ verdict' = verdict
  BY DEF EndCycle
<1>3. pc'[e] = "idle" /\ owed'[e] = {} /\ rows'[e] = None /\ list'[e] = <<>>
  BY <1>1, <1>2 DEF CycleTypes
<1>4. mapped' = mapped
  BY DEF Still, chainVars
<1>5. CycleTypes'
  BY <1>1, <1>2, <1>4 DEF CycleTypes
<1>6. <<>> \in Seq(Keys(e)) /\ IsInjective(<<>>)
  <2>1. <<>> \in Seq(Keys(e)) /\ DOMAIN <<>> = {}
    BY EmptySeq
  <2> QED
    BY <2>1 DEF IsInjective
<1>7. Cycle(e)'
  BY <1>3, <1>6 DEF Cycle, Keys
<1>8. ASSUME NEW f \in Engines, f # e PROVE Same(f)
  BY <1>1, <1>2, <1>8 DEF Same, CycleTypes, Engines
<1>9. CycleInv'
  BY <1>1, <1>7, <1>8, Elsewhere DEF CycleInv
<1> QED
  BY <1>5, <1>9, StillKeeps DEF Inv, GuardTypes, guardVars

\* A cycle that is skipped.
LEMMA UnavailableKeeps ==
  ASSUME Inv, NEW e \in Engines, Unavailable(e)
  PROVE  Inv'
<1>1. /\ Still /\ EndCycle(e) /\ UNCHANGED guardVars
      /\ borrowers' = IF e = "liquidation" THEN None ELSE borrowers
      /\ UNCHANGED <<candidateOffset, handed>>
      /\ faults < MaxFaults /\ faults' = faults + 1
  BY DEF Unavailable, Still
<1>2. CycleTypes
  BY DEF Inv
<1>3. /\ handed' \subseteq mapped /\ candidateOffset' \in 0..Cardinality(Proxies)
      /\ faults' \in 0..MaxFaults
  BY <1>1, <1>2, Bounds DEF CycleTypes
<1> QED
  BY <1>1, <1>3, EndKeeps

\* What a route answers are rows it has read, each once.
LEMMA AnswerKeeps ==
  ASSUME Inv, NEW e \in Engines, NEW s \in Seq(Keys(e)), IsInjective(s),
         NEW found, NEW failed, Answer(e, s, found, failed), pc[e] = "reading",
         borrowers' = IF e = "liquidation" THEN None ELSE borrowers,
         faults' \in 0..MaxFaults
  PROVE  Inv' /\ list'[e] = Keep(s, found) /\ missed'[e] = Cardinality(failed)
<1>1. Still /\ UNCHANGED <<guardVars, verdict, owed, candidateOffset, handed>>
  BY DEF Answer, Still
<1>2. CycleTypes /\ CycleInv
  BY DEF Inv
<1>3. /\ list' = [list EXCEPT ![e] = Keep(s, found)]
      /\ missed' = [missed EXCEPT ![e] = Cardinality(failed)]
      /\ pc' = [pc EXCEPT ![e] = "answered"] /\ rows' = [rows EXCEPT ![e] = None]
  BY DEF Answer
<1>4. /\ list'[e] = Keep(s, found) /\ missed'[e] = Cardinality(failed)
      /\ pc'[e] = "answered" /\ rows'[e] = None
  BY <1>2, <1>3 DEF CycleTypes
<1>5. mapped' = mapped
  BY <1>1 DEF Still, chainVars
<1>6. CycleTypes'
  BY <1>1, <1>2, <1>3, <1>5 DEF CycleTypes
<1>7. list'[e] \in Seq(Keys(e)) /\ IsInjective(list'[e])
  BY <1>4, Kept
<1>8. Cycle(e)'
  <2>1. Candidates(e)' = Candidates(e) /\ indexed' = indexed /\ UNCHANGED <<since, owed>>
    BY <1>1 DEF Still, chainVars, Candidates, indexed
  <2>2. Cycle(e)
    BY <1>2 DEF CycleInv
  <2> QED
    BY <1>4, <1>7, <2>1, <2>2 DEF Cycle, Keys
<1>9. ASSUME NEW f \in Engines, f # e PROVE Same(f)
  BY <1>1, <1>2, <1>3, <1>9 DEF Same, CycleTypes, Engines
<1>10. CycleInv'
  BY <1>1, <1>2, <1>8, <1>9, Elsewhere DEF CycleInv
<1> QED
  BY <1>1, <1>4, <1>6, <1>10, StillKeeps DEF Inv, GuardTypes, guardVars

\* /liquidatable-positions: of the liquidatable positions it owes, the answer
\* lacks only those whose probe was lost, and says how many.
LEMMA ProbePositionsKeeps ==
  ASSUME Inv, ProbePositions
  PROVE  /\ Inv'
         /\ \E lost : /\ IsFiniteSet(lost) /\ missed'["liquidation"] = Cardinality(lost)
                      /\ (owed["liquidation"] \cap Liquidatable) \ lost
                           \subseteq ToSet(list'["liquidation"])
<1> DEFINE e == "liquidation"
           r == rows[e]
           s == selectProbeCandidates
<1>1. e \in Engines /\ pc[e] = "reading" /\ r # None /\ borrowers # None /\ borrowers' = None
  BY DEF ProbePositions, Engines
<1>2. PICK lost \in Lost(s) : /\ Answer(e, s, Liquidatable \ lost, lost)
                              /\ faults' = IF lost = {} THEN faults ELSE faults + 1
  BY DEF ProbePositions
<1>3. /\ r \in Seq(Keys(e)) /\ IsInjective(r) /\ owed[e] \subseteq ToSet(r)
      /\ owed[e] \subseteq borrowers
  BY <1>1 DEF Inv, CycleInv, Cycle
<1>4. s = Keep(r, borrowers)
  BY DEF selectProbeCandidates
<1> HIDE DEF s, r
<1>5. s \in Seq(Keys(e)) /\ IsInjective(s) /\ ToSet(s) = ToSet(r) \cap borrowers
  BY <1>3, <1>4, Kept
<1>6. faults' \in 0..MaxFaults
  BY <1>2, FaultsAreBounded DEF Inv, CycleTypes
<1>7. IsFiniteSet(lost)
  BY <1>2, <1>5, LostIsRead
<1>8. /\ Inv' /\ list'[e] = Keep(s, Liquidatable \ lost)
      /\ missed'[e] = Cardinality(lost)
  <2> DEFINE found == Liquidatable \ lost
  <2>1. Answer(e, s, found, lost)
    BY <1>2
  <2>2. borrowers' = IF e = "liquidation" THEN None ELSE borrowers
    BY <1>1
  <2> HIDE DEF found
  <2>3. Inv' /\ list'[e] = Keep(s, found) /\ missed'[e] = Cardinality(lost)
    BY <1>1, <1>5, <1>6, <2>1, <2>2, AnswerKeeps
  <2> QED
    BY <2>3 DEF found
<1>9. ToSet(list'[e]) = ToSet(s) \cap (Liquidatable \ lost)
  BY <1>5, <1>8, Kept
<1>10. (owed[e] \cap Liquidatable) \ lost \subseteq ToSet(list'[e])
  BY <1>3, <1>5, <1>9
<1> QED
  BY <1>7, <1>8, <1>10

\* /escrowed-vaults: of the vaults it owes that are in escrow, the answer
\* lacks only those whose preview was lost, and says how many.
LEMMA PreviewVaultsKeeps ==
  ASSUME Inv, PreviewVaults
  PROVE  /\ Inv'
         /\ \E lost : /\ IsFiniteSet(lost) /\ missed'["arbitrage"] = Cardinality(lost)
                      /\ (owed["arbitrage"] \cap escrow) \ lost
                           \subseteq ToSet(list'["arbitrage"])
<1> DEFINE e == "arbitrage"
           s == rows[e]
           found(lost) == UNION {PreviewChunk(c, lost) : c \in Chunks(s)}
<1>1. e \in Engines /\ pc[e] = "reading" /\ s # None /\ UNCHANGED borrowers
  BY DEF PreviewVaults, Engines
<1>2. PICK lost \in Lost(s) : /\ Answer(e, s, found(lost), lost)
                              /\ faults' = IF lost = {} THEN faults ELSE faults + 1
  BY DEF PreviewVaults
<1>3. s \in Seq(Keys(e)) /\ IsInjective(s) /\ owed[e] \subseteq ToSet(s)
  BY <1>1 DEF Inv, CycleInv, Cycle
<1> HIDE DEF s
<1>4. faults' \in 0..MaxFaults
  BY <1>2, FaultsAreBounded DEF Inv, CycleTypes
<1>5. IsFiniteSet(lost)
  BY <1>2, <1>3, LostIsRead
<1>6. ASSUME NEW v \in (ToSet(s) \cap escrow) \ lost
      PROVE  v \in found(lost)
  <2>1. PICK c \in Chunks(s) : v \in c
    BY <1>3, ChunksCover
  <2>2. v \in PreviewChunk(c, lost)
    BY <2>1 DEF PreviewChunk
  <2> QED
    BY <2>1, <2>2
<1>7. PICK F : F = found(lost)
  OBVIOUS
<1>8. /\ Inv' /\ list'[e] = Keep(s, F) /\ missed'[e] = Cardinality(lost)
  <2>1. Answer(e, s, F, lost)
    BY <1>2, <1>7
  <2>2. borrowers' = IF e = "liquidation" THEN None ELSE borrowers
    BY <1>1
  <2> HIDE DEF found
  <2> QED
    BY <1>1, <1>3, <1>4, <2>1, <2>2, AnswerKeeps
<1>9. ToSet(list'[e]) = ToSet(s) \cap F
  BY <1>3, <1>8, Kept
<1>10. (owed[e] \cap escrow) \ lost \subseteq ToSet(list'[e])
  <2> HIDE DEF found
  <2> QED
    BY <1>3, <1>6, <1>7, <1>9
<1> QED
  BY <1>5, <1>8, <1>10

\* The window moves within the positions there are (engine.ts candidateOffset).
LEMMA OffsetIsBounded ==
  ASSUME Inv
  PROVE  NextOffset(list["liquidation"], candidateOffset) \in 0..Cardinality(Proxies)
<1> DEFINE s == list["liquidation"]
           n == Len(s)
<1>1. s \in Seq(Proxies) /\ IsInjective(s)
  BY DEF Inv, CycleInv, Cycle, Engines, Keys
<1>2. IsFiniteSet(Proxies) /\ Cardinality(Proxies) \in Nat
  BY FeedAssumption, FS_CardinalityType
<1>3. candidateOffset \in 0..Cardinality(Proxies)
  BY DEF Inv, CycleTypes
<1> HIDE DEF s
<1>4. n \in Nat /\ n <= Cardinality(Proxies)
  BY <1>1, <1>2, InjectiveIsShort, LenProperties
<1>5. candidateOffset + Window \in Nat
  BY <1>2, <1>3, Bounds
<1>6. NextOffset(s, candidateOffset) = IF n > Window THEN (candidateOffset + Window) % n ELSE 0
  BY DEF NextOffset
<1> HIDE DEF n
<1>7. n > Window => (candidateOffset + Window) % n \in 0..(n - 1)
  <2> DEFINE a == candidateOffset + Window
  <2> HIDE DEF a
  <2>1. a \in Nat => (n > Window => a % n \in 0..(n - 1))
    BY <1>4, Bounds
  <2> QED
    BY <1>5, <2>1 DEF a
<1>8. NextOffset(s, candidateOffset) \in 0..Cardinality(Proxies)
  BY <1>2, <1>4, <1>6, <1>7
<1> QED
  BY <1>8 DEF s

\* The engines take their answers.
LEMMA PollsKeep ==
  ASSUME Inv, PollPositions \/ PollVaults
  PROVE  Inv'
<1>1. CASE PollPositions
  <2> DEFINE e == "liquidation"
  <2>1. /\ Still /\ EndCycle(e) /\ UNCHANGED guardVars /\ UNCHANGED borrowers
        /\ pc[e] = "answered" /\ e \in Engines
        /\ candidateOffset' = NextOffset(list[e], candidateOffset)
    BY <1>1 DEF PollPositions, Still, Engines
  <2>2. PICK s : \E lost \in Lost(s) :
             /\ handed' = (ToSet(s) \cap Liquidatable) \ lost
             /\ faults' = IF lost = {} THEN faults ELSE faults + 1
    BY <1>1 DEF PollPositions
  <2>3. faults' \in 0..MaxFaults
    BY <2>2, FaultsAreBounded DEF Inv, CycleTypes
  <2>4. handed' \subseteq mapped
    BY <2>2 DEF Liquidatable
  <2>5. borrowers = None
    BY <2>1 DEF Inv, CycleInv, Cycle
  <2>6. candidateOffset' \in 0..Cardinality(Proxies)
    BY <2>1, OffsetIsBounded
  <2> QED
    BY <2>1, <2>3, <2>4, <2>5, <2>6, EndKeeps
<1>2. CASE PollVaults
  <2> DEFINE e == "arbitrage"
  <2>1. /\ Still /\ EndCycle(e) /\ UNCHANGED guardVars /\ UNCHANGED borrowers
        /\ UNCHANGED <<candidateOffset, handed, faults>> /\ e \in Engines
    BY <1>2 DEF PollVaults, Still, Engines
  <2>2. /\ handed' \subseteq mapped /\ candidateOffset' \in 0..Cardinality(Proxies)
        /\ faults' \in 0..MaxFaults
    BY <2>1 DEF Inv, CycleTypes
  <2> QED
    BY <2>1, <2>2, EndKeeps
<1> QED
  BY <1>1, <1>2

-----------------------------------------------------------------------------
(* The theorems.                                                           *)

\* The tables begin at the block the bot starts in.
LEMMA InitHasInv == Init => Inv
<1> SUFFICES ASSUME Init PROVE Inv
  OBVIOUS
<1>1. /\ Opened \subseteq Proxies /\ Escrowed \subseteq Vaults
      /\ IsFiniteSet(Proxies) /\ IsFiniteSet(Vaults)
      /\ MaxLagBlocks + RpcTrail <= MaxHead
  BY FeedAssumption
<1>2. IsFiniteSet(Opened) /\ IsFiniteSet(Escrowed)
  BY <1>1, FS_Subset
<1>3. Cardinality(Proxies) \in Nat
  BY <1>1, FS_CardinalityType
<1>4. pending = <<>> /\ Len(pending) = 0 /\ pending \in Seq(Events)
  BY EmptySeq DEF Init
<1>5. /\ held \in [Proxies -> 0..MaxShares] /\ suppliedShares = held
      /\ \A p \in Proxies : held[p] > 0 <=> p \in Opened
  BY Bounds DEF Init
<1>6. /\ position \in Seq(Opened) /\ ToSet(position) = Opened /\ IsInjective(position)
      /\ escrowedVault \in Seq(Escrowed) /\ ToSet(escrowedVault) = Escrowed
      /\ IsInjective(escrowedVault)
  BY <1>2, Listed DEF Init
<1>7. position \in Seq(Proxies) /\ escrowedVault \in Seq(Vaults)
  <2>1. \A S, T : S \subseteq T => \A s \in Seq(S) : s \in Seq(T)
    <3> SUFFICES ASSUME NEW S, NEW T, S \subseteq T, NEW s \in Seq(S) PROVE s \in Seq(T)
      OBVIOUS
    <3>1. s \in [1..Len(s) -> S] /\ Len(s) \in Nat
      BY LenProperties
    <3>2. s \in [1..Len(s) -> T]
      BY <3>1
    <3> QED
      BY <3>1, <3>2
  <2> QED
    BY <1>1, <1>6, <2>1
<1>8. ChainTypes
  <2>1. head \in 0..MaxHead /\ head \in Nat
    BY <1>1, Bounds DEF Init
  <2>2. since \in [Proxies \cup Vaults -> 0..MaxHead]
    BY Bounds DEF Init
  <2> QED
    BY <1>1, <1>4, <1>5, <2>1, <2>2 DEF Init, ChainTypes
<1>9. RowTypes /\ VaultTypes
  <2>1. Opened = {p \in Proxies : suppliedShares[p] > 0}
    BY <1>1, <1>5
  <2> QED
    BY <1>5, <1>6, <1>7, <2>1 DEF RowTypes, VaultTypes
<1>10. GuardTypes
  BY DEF Init, GuardTypes
<1>11. CycleTypes
  BY <1>3, Bounds DEF Init, CycleTypes
<1>12. PastInv
  <2> DEFINE H == [i \in 0..0 |-> Now]
  <2>1. Tables = Now
    BY <1>6 DEF Init, Tables, Now
  <2>2. Now \in Blocks
    BY <1>1, <1>5 DEF Init, Now, Blocks
  <2>3. H[0] = Now /\ H \in [0..0 -> Blocks] /\ \A i \in 0..0 : H[i] = Now
    BY <2>2
  <2>4. Now.mapped = mapped /\ \A e \in Engines : Candidates(e) = CandidatesIn(e, Now)
    BY DEF Now, Candidates, CandidatesIn
  <2> HIDE DEF H
  <2>5. Past(H)
    BY <1>4, <2>1, <2>3, <2>4 DEF Past
  <2> QED
    BY <2>5 DEF PastInv
<1>13. ASSUME NEW e \in Engines PROVE Cycle(e)
  <2>1. /\ owed[e] = {} /\ pc[e] = "idle" /\ rows[e] = None /\ borrowers = None
        /\ list[e] = <<>>
    BY DEF Init
  <2>2. <<>> \in Seq(Keys(e)) /\ DOMAIN <<>> = {}
    BY EmptySeq
  <2> QED
    BY <2>1, <2>2 DEF Cycle, IsInjective
<1> QED
  BY <1>8, <1>9, <1>10, <1>11, <1>12, <1>13 DEF Inv, CycleInv

\* No step at all.
LEMMA StutterKeeps ==
  ASSUME Inv, UNCHANGED vars
  PROVE  Inv'
<1>1. Still /\ UNCHANGED <<guardVars, routeVars, cycleVars, faults>>
  BY DEF vars, Still
<1>2. GuardTypes' /\ CycleTypes'
  BY <1>1 DEF Inv, GuardTypes, CycleTypes, guardVars, routeVars, cycleVars, Still, chainVars
<1>3. \A e \in Engines : Same(e)
  BY <1>1 DEF Same, routeVars, cycleVars
<1>4. CycleInv'
  BY <1>1, <1>3, Elsewhere DEF Inv, CycleInv
<1> QED
  BY <1>1, <1>2, <1>4, StillKeeps DEF Inv

\* Every step keeps the invariant.
LEMMA NextKeeps == Inv /\ [Next]_vars => Inv'
<1> SUFFICES ASSUME Inv, [Next]_vars PROVE Inv'
  OBVIOUS
<1>1. CASE Chain
  BY <1>1, ChainKeeps
<1>2. CASE IndexBlock
  BY <1>2, IndexKeeps
<1>3. CASE Tick \/ Operator
  BY <1>3, GuardMoveKeeps
<1>4. CASE \E e \in Engines : Ask(e) \/ Judge(e) \/ ReadRows(e) \/ Unavailable(e)
  BY <1>4, AskKeeps, JudgeKeeps, ReadRowsKeeps, UnavailableKeeps
<1>5. CASE ReadMappings
  BY <1>5, ReadMappingsKeeps
<1>6. CASE ProbePositions
  BY <1>6, ProbePositionsKeeps
<1>7. CASE PreviewVaults
  BY <1>7, PreviewVaultsKeeps
<1>8. CASE PollPositions \/ PollVaults
  BY <1>8, PollsKeep
<1>9. CASE UNCHANGED vars
  BY <1>9, StutterKeeps
<1>10. "liquidation" \in Engines /\ "arbitrage" \in Engines
  BY DEF Engines
<1> QED
  BY <1>1, <1>2, <1>3, <1>4, <1>5, <1>6, <1>7, <1>8, <1>9, <1>10
     DEF Next, Liquidator, Arbitrageur

\* Every behaviour keeps it: tables of one block of the past, one row for a
\* key, and cycles that have found whom they owe in what they have read.
THEOREM InvHolds == Spec => []Inv
<1> QED
  BY InitHasInv, NextKeeps, PTL DEF Spec

\* Types; one row for an address in each table, a position's as long as it
\* has shares, no mapping the chain does not have, and nobody owed who is no
\* candidate (the primary keys and the handlers of src/services/ponder).
THEOREM TypeCorrect == Spec => []TypeOK
<1> QED
  BY InvHolds, InvIsTyped, PTL

\* The tables are the chain as it was at a block of its past, and the events
\* not yet indexed lead from there to the chain as it is.
THEOREM TablesAreThePast == Spec => []PastInv
<1>1. Inv => PastInv
  BY DEF Inv
<1> QED
  BY <1>1, InvHolds, PTL

\* Only the route's own step takes a cycle from reading to answered.
LEMMA WhoAnswers ==
  ASSUME Inv, Next, NEW e \in Engines, pc[e] = "reading", pc'[e] = "answered"
  PROVE  (e = "liquidation" /\ ProbePositions) \/ (e = "arbitrage" /\ PreviewVaults)
<1>1. DOMAIN pc = Engines
  BY DEF Inv, CycleTypes
<1>2. e = "liquidation" \/ e = "arbitrage"
  BY DEF Engines
<1>3. ~Chain
  <2>1. Chain => \E ev : Mined(ev)
    BY OpenMines, SupplyMines, LeaveMines, RepriceMines, AddVaultMines, RemoveVaultMines
       DEF Chain, Inv
  <2> QED
    BY <2>1 DEF Mined
<1>4. ~IndexBlock /\ ~Tick /\ ~Operator /\ ~ReadMappings
  BY DEF IndexBlock, Tick, Operator, ReadMappings, cycleVars
<1>5. \A f \in Engines : ~Ask(f) /\ ~Judge(f) /\ ~ReadRows(f) /\ ~Unavailable(f)
  <2> SUFFICES ASSUME NEW f \in Engines
               PROVE  ~Ask(f) /\ ~Judge(f) /\ ~ReadRows(f) /\ ~Unavailable(f)
    OBVIOUS
  <2>1. ~Ask(f)
    BY <1>1 DEF Ask
  <2>2. ~Judge(f)
    BY <1>1 DEF Judge
  <2>3. ~ReadRows(f)
    BY DEF ReadRows, cycleVars
  <2>4. ~Unavailable(f)
    BY <1>1 DEF Unavailable, EndCycle
  <2> QED
    BY <2>1, <2>2, <2>3, <2>4
<1>6. ~PollPositions /\ ~PollVaults
  BY <1>1 DEF PollPositions, PollVaults, EndCycle
<1>7. e = "arbitrage" => ~ProbePositions
  BY <1>1 DEF ProbePositions, Answer
<1>8. e = "liquidation" => ~PreviewVaults
  BY <1>1 DEF PreviewVaults, Answer
<1>9. "liquidation" \in Engines /\ "arbitrage" \in Engines
  BY DEF Engines
<1> QED
  BY <1>2, <1>3, <1>4, <1>5, <1>6, <1>7, <1>8, <1>9 DEF Next, Liquidator, Arbitrageur

\* What is lost bounds what is missing.
LEMMA NoneMissing ==
  ASSUME NEW A, NEW L, NEW lost, IsFiniteSet(lost), A \ lost \subseteq L
  PROVE  Cardinality(A \ L) <= Cardinality(lost)
<1>1. A \ L \subseteq lost
  OBVIOUS
<1> QED
  BY <1>1, FS_Subset, FS_CardinalityType

\* Every position that had been open for maxLagBlocks when the head was read,
\* is open still and can be liquidated, is in the answer of
\* /liquidatable-positions or counted as unscanned, however the blocks, the
\* indexer, the verdict and the two table reads interleave.
THEOREM NoPositionIsMissed == Spec => PositionsAreAnswered
<1>1. Inv /\ [Next]_vars => [AnswerComplete("liquidation")]_vars
  <2> SUFFICES ASSUME Inv, Next, pc["liquidation"] = "reading",
                      pc'["liquidation"] = "answered"
               PROVE  Cardinality((owed["liquidation"] \cap Liquidatable)
                                    \ ToSet(list'["liquidation"]))
                        <= missed'["liquidation"]
    BY DEF AnswerComplete, Live
  <2>1. ProbePositions
    BY WhoAnswers DEF Engines
  <2>2. PICK lost : /\ IsFiniteSet(lost) /\ missed'["liquidation"] = Cardinality(lost)
                    /\ (owed["liquidation"] \cap Liquidatable) \ lost
                         \subseteq ToSet(list'["liquidation"])
    BY <2>1, ProbePositionsKeeps
  <2> QED
    BY <2>2, NoneMissing
<1> QED
  BY <1>1, InvHolds, PTL DEF Spec, PositionsAreAnswered

\* The same of /escrowed-vaults: a vault that has left escrow since it was
\* indexed, or one that cannot be read, costs no other vault its place.
THEOREM NoVaultIsMissed == Spec => VaultsAreAnswered
<1>1. Inv /\ [Next]_vars => [AnswerComplete("arbitrage")]_vars
  <2> SUFFICES ASSUME Inv, Next, pc["arbitrage"] = "reading", pc'["arbitrage"] = "answered"
               PROVE  Cardinality((owed["arbitrage"] \cap escrow) \ ToSet(list'["arbitrage"]))
                        <= missed'["arbitrage"]
    BY DEF AnswerComplete, Live
  <2>1. PreviewVaults
    BY WhoAnswers DEF Engines
  <2>2. PICK lost : /\ IsFiniteSet(lost) /\ missed'["arbitrage"] = Cardinality(lost)
                    /\ (owed["arbitrage"] \cap escrow) \ lost \subseteq ToSet(list'["arbitrage"])
    BY <2>1, PreviewVaultsKeeps
  <2> QED
    BY <2>2, NoneMissing
<1> QED
  BY <1>1, InvHolds, PTL DEF Spec, VaultsAreAnswered
=============================================================================
