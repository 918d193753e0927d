------------------------- MODULE EvidencePagingProofs -------------------------
(* Proofs about EvidencePaging, for any texts, budgets and retrieval.       *)
EXTENDS EvidencePaging, FiniteSetTheorems, SequenceTheorems, TLAPS

-----------------------------------------------------------------------------
(* The inductive invariant.  Its parts speak of the values of one chain, so *)
(* that the lemmas about them hold in any state.                            *)

\* No Publication is ever changed or taken back: where the revision is still
\* the same, so is the content.
Older(a, b) ==
    \A s \in Sources : /\ a[s].revision <= b[s].revision
                       /\ a[s].revision = b[s].revision => a[s] = b[s]

\* The readers accept the active set.
Accepted(d, r) == AuthorityProblem(d, r) = "none"

\* What a refusal says of the snapshot, and of the page that was refused in it.
RefusedFor(d, r, g, st) ==
    LET rows == Candidates(d, r, Len(g))
    IN  /\ ~Accepted(d, r) => st = AuthorityProblem(d, r)
        /\ Accepted(d, r) =>
              /\ st = "internal_error" => r.tool = "search" /\ Oversized(d, r, rows)
              /\ st = "evidence_not_found" => g = << >>
              /\ st \in Problems /\ r.tool = "read" => g = << >>
              /\ st = "response_too_large" =>
                    \/ r.tool = "read" /\ Size(Pool(d, r)) > MaxPageText
                    \/ /\ r.tool # "read"
                       /\ LongMode(d, r, rows) \/ Oversized(d, r, rows) \/ TooLarge(d, r, rows)

\* What a client has put together is the beginning of one answer.
Prefix(d, r, g) == Len(g) <= Len(Pool(d, r)) /\ g = First(Len(g), Pool(d, r))

Answered(d, r, g, st) ==
    /\ Found(d, r) => Prefix(d, r, g)
    /\ st \in {"complete", "capped"} =>
          Found(d, r) /\ g = Pool(d, r) /\ (st = "capped" <=> Discarded(d, r))

\* A cursor binds the snapshot of the first page and the end of the last one.
Bound(d, r, k, g, sb) ==
    /\ Found(d, r)
    /\ k.epoch = sb
    /\ k.fingerprint = Fingerprint(d)
    /\ k.position = PositionAfter(d, r, Len(g))
    /\ Len(g) < Len(Pool(d, r))
    /\ r.tool = "read" => ~(Size(Pool(d, r)) > MaxPageText)

\* The ways in which a chain ends that was served before.
Served == {"complete", "capped", "owner_restarted", "active_set_changed"}

\* d is the database, o the owner; the rest are the values of one chain.
ChainInv(d, o, r, v, k, g, st, b, sb, f) ==
    /\ sb <= o
    /\ k = None /\ st = "open" => b = None
    /\ b = None => k = None /\ g = << >> /\ st \notin Served
    /\ v # None => /\ st = "open" /\ Older(v, d) /\ Accepted(v, r)
                   /\ k # None => v = b /\ sb = o
    /\ b # None => Older(b, d) /\ Accepted(b, r) /\ Answered(b, r, g, st)
    /\ k # None => Bound(b, r, k, g, sb)
    /\ (f = None) <=> (st = "open")
    /\ f # None => /\ Older(f, d) /\ RefusedFor(f, r, g, st)
                   /\ b # None => Older(b, f)
    /\ st = "owner_restarted" => sb < o
    /\ st = "active_set_changed" => \E s \in Sources : b[s].revision < f[s].revision

ChainsInv ==
    \A c \in Chains :
        ChainInv(db, owner, request[c], view[c], cursor[c], got[c], status[c], begun[c],
                 startedBy[c], final[c])

IInv == TypeOK /\ ChainsInv

-----------------------------------------------------------------------------
(* Counting.                                                               *)

\* The Cardinality of a set of numbers between two bounds is a number that
\* fits between them.
LEMMA CardinalityBound ==
    ASSUME NEW a \in Nat, NEW b \in Nat, a <= b, NEW S \in SUBSET ((a + 1) .. b)
    PROVE  /\ Cardinality(S) \in 0 .. (b - a)
           /\ Cardinality(S) = 0 <=> S = {}
<1>1. a + 1 \in Int /\ b \in Int
  OBVIOUS
<1>2. /\ IsFiniteSet((a + 1) .. b)
      /\ Cardinality((a + 1) .. b) = IF a + 1 > b THEN 0 ELSE b - (a + 1) + 1
  BY <1>1, FS_Interval
<1>3. Cardinality((a + 1) .. b) = b - a
  BY <1>2
<1>4. IsFiniteSet(S) /\ Cardinality(S) <= Cardinality((a + 1) .. b)
  BY <1>2, FS_Subset
<1>5. Cardinality(S) \in Nat
  BY <1>4, FS_CardinalityType
<1>6. Cardinality(S) = 0 <=> S = {}
  BY <1>4, FS_EmptySet
<1>7. Cardinality(S) \in 0 .. (b - a)
  BY <1>3, <1>4, <1>5
<1> QED  BY <1>6, <1>7

\* A text is a strictly increasing sequence of byte offsets.
LEMMA TextShape ==
    ASSUME NEW t \in Texts
    PROVE  /\ t \in Seq(Nat) /\ Len(t) \in Nat \ {0} /\ DOMAIN t = 1 .. Len(t)
           /\ \A i \in 1 .. Len(t) : t[i] \in Nat \ {0}
           /\ \A i, j \in 1 .. Len(t) : i < j => t[i] < t[j]
           /\ Size(t) = t[Len(t)]
<1>1. t \in Seq(Nat \ {0}) /\ t # << >>
  BY ConstantsAssumption
<1>2. Len(t) \in Nat /\ DOMAIN t = 1 .. Len(t) /\ \A i \in 1 .. Len(t) : t[i] \in Nat \ {0}
  BY <1>1, LenProperties
<1>3. Len(t) # 0
  BY <1>1, <1>2
<1>4. \A i, j \in 1 .. Len(t) : i < j => t[i] < t[j]
  BY <1>2, ConstantsAssumption
<1>5. t \in Seq(Nat)
  BY <1>1
<1> QED  BY <1>1, <1>2, <1>3, <1>4, <1>5 DEF Size

\* As many code points end at or before the k-th as there are up to it.
LEMMA EndsUpTo ==
    ASSUME NEW t \in Texts, NEW n \in 0 .. Len(t)
    PROVE  Cardinality({k \in DOMAIN t : t[k] <= (IF n = 0 THEN 0 ELSE t[n])}) = n
<1>1. /\ Len(t) \in Nat \ {0} /\ DOMAIN t = 1 .. Len(t)
      /\ \A i \in 1 .. Len(t) : t[i] \in Nat \ {0}
      /\ \A i, j \in 1 .. Len(t) : i < j => t[i] < t[j]
  BY TextShape
<1>2. {k \in DOMAIN t : t[k] <= (IF n = 0 THEN 0 ELSE t[n])} = 1 .. n
  <2>1. CASE n = 0
    BY <1>1, <2>1
  <2>2. CASE n # 0
    <3>1. n \in 1 .. Len(t)
      BY <2>2, <1>1
    <3>2. \A k \in 1 .. Len(t) : t[k] <= t[n] <=> k <= n
      <4> TAKE k \in 1 .. Len(t)
      <4>1. t[k] \in Nat /\ t[n] \in Nat
        BY <3>1, <1>1
      <4>2. k < n => t[k] < t[n]
        BY <3>1, <1>1
      <4>3. n < k => t[n] < t[k]
        BY <3>1, <1>1
      <4> QED  BY <4>1, <4>2, <4>3, <3>1
    <3> QED  BY <2>2, <3>1, <3>2, <1>1
  <2> QED  BY <2>1, <2>2
<1>3. Cardinality(1 .. n) = n
  BY FS_Interval, <1>1
<1> QED  BY <1>2, <1>3

\* The code points that end after the n-th are no more than there are.
LEMMA ChunkFits ==
    ASSUME NEW t \in Texts, NEW n \in 0 .. Len(t), NEW size \in Nat
    PROVE  ChunkLength(t, IF n = 0 THEN 0 ELSE t[n], size) \in 0 .. (Len(t) - n)
<1> DEFINE offset == IF n = 0 THEN 0 ELSE t[n]
           S == {k \in DOMAIN t : offset < t[k] /\ t[k] <= offset + size}
<1>1. /\ Len(t) \in Nat \ {0} /\ DOMAIN t = 1 .. Len(t)
      /\ \A i \in 1 .. Len(t) : t[i] \in Nat \ {0}
      /\ \A i, j \in 1 .. Len(t) : i < j => t[i] < t[j]
  BY TextShape
<1>2. \A k \in 1 .. Len(t) : offset < t[k] => k \in (n + 1) .. Len(t)
  <2> TAKE k \in 1 .. Len(t)
  <2>1. CASE n = 0
    BY <2>1, <1>1
  <2>2. CASE n # 0
    <3>1. n \in 1 .. Len(t) /\ offset = t[n]
      BY <2>2, <1>1
    <3>2. k < n => t[k] < t[n]
      BY <3>1, <1>1
    <3>3. t[k] \in Nat /\ t[n] \in Nat
      BY <3>1, <1>1
    <3>4. offset < t[k] => ~(k < n) /\ k # n
      BY <3>1, <3>2, <3>3
    <3> QED  BY <3>1, <3>4, <1>1
  <2> QED  BY <2>1, <2>2
<1>3. S \in SUBSET ((n + 1) .. Len(t))
  BY <1>1, <1>2
<1>4. Cardinality(S) \in 0 .. (Len(t) - n)
  <2>1. n \in Nat /\ Len(t) \in Nat /\ n <= Len(t)
    BY <1>1
  <2> HIDE DEF S
  <2> QED  BY <2>1, <1>3, CardinalityBound
<1> QED  BY <1>4 DEF ChunkLength

-----------------------------------------------------------------------------
(* Pages.                                                                  *)

\* The Evidence of a Publication is that of Contents; there may be none yet.
LEMMA RowsType ==
    ASSUME NEW d \in Databases, NEW s \in Sources
    PROVE  Rows(d, s) \in Contents \cup {<< >>}
<1>1. d[s].publication \in Actives
  BY DEF Databases
<1>2. CASE d[s].publication = Nothing
  BY <1>2 DEF Rows, Nothing
<1>3. CASE d[s].publication # Nothing
  <2> DEFINE P == UNION {Publications[u] : u \in Sources}
  <2>1. d[s].publication \in P
    BY <1>1, <1>3 DEF Actives
  <2>2. PICK u \in Sources : d[s].publication \in Publications[u]
    BY <2>1
  <2>3. d[s].publication \in PublicationType
    BY <2>2, ConstantsAssumption
  <2> QED  BY <2>3 DEF Rows, PublicationType
<1> QED  BY <1>2, <1>3

\* What a request that is found asks for is a sequence of units.
LEMMA EligibleType ==
    ASSUME NEW d \in Databases, NEW r \in Requests, Found(d, r)
    PROVE  /\ Eligible(d, r) \in Units(r)
           /\ r.tool = "read" => Eligible(d, r) \in Texts
<1>1. r \in RequestType
  BY ConstantsAssumption
<1>2. CASE r.tool = "read"
  <2>1. Rows(d, r.source) \in Contents \cup {<< >>} /\ r.index \in DOMAIN Rows(d, r.source)
    BY <1>1, <1>2, RowsType DEF Found, RequestType
  <2>2. Contents \subseteq Seq(Texts)
    BY ConstantsAssumption
  <2>3. Rows(d, r.source) \in Seq(Texts)
    BY <2>1, <2>2
  <2>4. Rows(d, r.source)[r.index] \in Texts
    BY <2>1, <2>3
  <2>5. Eligible(d, r) = Rows(d, r.source)[r.index]
    BY <1>2 DEF Eligible
  <2> QED  BY <1>2, <2>4, <2>5, TextShape DEF Units
<1>3. CASE r.tool = "browse"
  <2>1. Rows(d, r.source) \in Contents \cup {<< >>} /\ r.source \in Sources /\ r.revision \in Nat
    BY <1>1, RowsType DEF RequestType
  <2>2. Contents \subseteq Seq(Texts)
    BY ConstantsAssumption
  <2>3. Rows(d, r.source) \in Seq(Texts)
    BY <2>1, <2>2, EmptySeq
  <2> DEFINE n == Len(Rows(d, r.source))
  <2>4. n \in Nat
    BY <2>3
  <2>5. \A i \in 1 .. n : [source |-> r.source, revision |-> r.revision, index |-> i] \in Items
    BY <2>1, <2>4 DEF Items
  <2>6. PublicationRows(d, r) \in Seq(Items)
    <3> HIDE DEF n
    <3> QED  BY <2>4, <2>5 DEF PublicationRows, n
  <2> QED  BY <1>3, <2>6 DEF Eligible, Units
<1>4. CASE r.tool \notin {"read", "browse"}
  BY <1>4, SelectionAssumption DEF Eligible, Units
<1> QED  BY <1>2, <1>3, <1>4

\* So is the pool the pages are cut from, the whole of it unless it was capped.
LEMMA PoolType ==
    ASSUME NEW d \in Databases, NEW r \in Requests, Found(d, r)
    PROVE  /\ Pool(d, r) \in Units(r)
           /\ Len(Pool(d, r)) \in Nat
           /\ r.tool = "read" => Pool(d, r) \in Texts /\ Pool(d, r) = Eligible(d, r)
           /\ ~Discarded(d, r) => Pool(d, r) = Eligible(d, r)
<1>1. /\ Eligible(d, r) \in Units(r)
      /\ r.tool = "read" => Eligible(d, r) \in Texts
  BY EligibleType
<1>2. r.tool = "read" => ~Discarded(d, r)
  BY DEF Discarded, Scans
<1>3. CASE ~Discarded(d, r)
  BY <1>1, <1>3 DEF Pool, Units
<1>4. CASE Discarded(d, r)
  <2>1. Units(r) = Seq(Items) /\ MaxPool \in Nat
    BY <1>2, <1>4, ConstantsAssumption DEF Units
  <2>2. Len(Eligible(d, r)) \in Nat /\ Len(Eligible(d, r)) > MaxPool
    BY <1>1, <1>4, <2>1 DEF Discarded
  <2>3. \A i \in 1 .. MaxPool : Eligible(d, r)[i] \in Items
    BY <1>1, <2>1, <2>2
  <2>4. SubSeq(Eligible(d, r), 1, MaxPool) \in Seq(Items)
    BY <2>1, <2>3, SubSeqProperties
  <2>5. Pool(d, r) \in Seq(Items)
    BY <1>4, <2>4 DEF Pool, First
  <2> QED  BY <1>2, <1>4, <2>1, <2>5
<1> QED  BY <1>3, <1>4

\* A set of numbers that holds all the smaller ones too is counted by its largest.
LEMMA CountsItsLast ==
    ASSUME NEW n \in Nat, NEW S \in SUBSET (1 .. n), S # {},
           \A k \in S : \A m \in 1 .. k : m \in S
    PROVE  Cardinality(S) \in S
<1> DEFINE size == Cardinality(S)
<1>1. size \in 0 .. n /\ size # 0
  <2>1. 0 \in Nat /\ 0 <= n /\ S \in SUBSET ((0 + 1) .. n)
    OBVIOUS
  <2>2. size \in 0 .. (n - 0) /\ (size = 0 <=> S = {})
    BY <2>1, CardinalityBound
  <2> HIDE DEF size
  <2>3. n - 0 = n
    OBVIOUS
  <2>4. size # 0
    BY <2>2
  <2> QED  BY <2>2, <2>3, <2>4
<1> SUFFICES ASSUME size \notin S
             PROVE  FALSE
  OBVIOUS
<1> HIDE DEF size
<1>2. \A k \in S : k < size
  BY <1>1
<1>3. size - 1 \in Nat /\ S \in SUBSET ((0 + 1) .. (size - 1))
  BY <1>1, <1>2
<1>4. Cardinality(S) \in 0 .. (size - 1)
  <2> DEFINE last == size - 1
  <2>1. 0 \in Nat /\ last \in Nat /\ 0 <= last /\ S \in SUBSET ((0 + 1) .. last)
    BY <1>3
  <2> HIDE DEF last
  <2>2. Cardinality(S) \in 0 .. (last - 0)
    BY <2>1, CardinalityBound
  <2> QED  BY <2>1, <2>2 DEF last
<1> QED  BY <1>1, <1>4 DEF size

\* The sets that PageLength counts are sets of numbers of rows.
LEMMA PageFits ==
    ASSUME NEW d, NEW r, NEW rows, Len(rows) \in Nat
    PROVE  /\ PageLength(d, r, rows) \in 0 .. Len(rows)
           /\ PageLength(d, r, rows) = 0 /\ Len(rows) > 0 => TooLarge(d, r, rows)
<1> DEFINE longest == Cardinality(Excerpted(d, r, rows))
<1>1. /\ Admitted(d, r, rows) \subseteq 1 .. Len(rows)
      /\ Excerpted(d, r, rows) \subseteq Admitted(d, r, rows)
      /\ Enveloped(d, r, rows) \subseteq Excerpted(d, r, rows)
  BY DEF Admitted, Excerpted, Enveloped
<1>2. /\ Excerpted(d, r, rows) \in SUBSET ((0 + 1) .. Len(rows))
      /\ Enveloped(d, r, rows) \in SUBSET ((0 + 1) .. Len(rows))
  BY <1>1
<1>3. /\ longest \in 0 .. (Len(rows) - 0)
      /\ Cardinality(Enveloped(d, r, rows)) \in 0 .. (Len(rows) - 0)
      /\ Cardinality(Enveloped(d, r, rows)) = 0 <=> Enveloped(d, r, rows) = {}
  <2>1. 0 \in Nat /\ 0 <= Len(rows)
    OBVIOUS
  <2>2. longest \in 0 .. (Len(rows) - 0)
    BY <1>2, <2>1, CardinalityBound
  <2>3. /\ Cardinality(Enveloped(d, r, rows)) \in 0 .. (Len(rows) - 0)
        /\ Cardinality(Enveloped(d, r, rows)) = 0 <=> Enveloped(d, r, rows) = {}
    BY <1>2, <2>1, CardinalityBound
  <2> QED  BY <2>2, <2>3
<1>4. PageLength(d, r, rows) \in 0 .. Len(rows)
  BY <1>3 DEF PageLength
<1>5. ASSUME PageLength(d, r, rows) = 0, Len(rows) > 0
      PROVE  TooLarge(d, r, rows)
  <2>1. 1 \in Admitted(d, r, rows)
    BY <1>5 DEF Admitted
  <2>2. 1 \in Excerpted(d, r, rows)
    BY <2>1 DEF Excerpted
  <2>3. CASE Shrinks(r)
    <3>1. Enveloped(d, r, rows) = {}
      BY <1>3, <1>5, <2>3 DEF PageLength
    <3> QED  BY <2>2, <2>3, <3>1 DEF Enveloped, TooLarge
  <2>4. CASE ~Shrinks(r)
    <3>1. \A k \in Excerpted(d, r, rows) : \A m \in 1 .. k : m \in Excerpted(d, r, rows)
      <4> SUFFICES ASSUME NEW k \in Excerpted(d, r, rows), NEW m \in 1 .. k
                   PROVE  m \in Excerpted(d, r, rows)
        OBVIOUS
      <4>1. k \in 1 .. Len(rows)
        BY <1>1
      <4>2. m \in 1 .. Len(rows) /\ 2 .. m \subseteq 2 .. k
        BY <4>1
      <4>3. m \in Admitted(d, r, rows)
        BY <1>1, <4>2 DEF Admitted
      <4> QED  BY <4>2, <4>3 DEF Excerpted
    <3>2. longest \in Excerpted(d, r, rows)
      <4>1. Excerpted(d, r, rows) \in SUBSET (1 .. Len(rows)) /\ Excerpted(d, r, rows) # {}
        BY <1>1, <2>2
      <4> QED  BY <3>1, <4>1, CountsItsLast
    <3>3. longest # 0
      BY <1>1, <3>2
    <3>4. longest \notin Enveloped(d, r, rows)
      BY <1>5, <2>4, <3>3 DEF PageLength
    <3> QED  BY <2>4, <3>2, <3>4 DEF Enveloped, TooLarge
  <2> QED  BY <2>3, <2>4
<1> QED  BY <1>4, <1>5

\* The rows fetched for a page and the rows it may return.
LEMMA RowsFetched ==
    ASSUME NEW d \in Databases, NEW r \in Requests, Found(d, r), r.tool # "read",
           NEW from \in 0 .. Len(Pool(d, r))
    PROVE  LET rest == Len(Pool(d, r)) - from
           IN  /\ Len(Fetched(d, r, from)) = SmallerOf(r.size + 1, rest)
               /\ Candidates(d, r, from) \in Seq(Items)
               /\ Len(Candidates(d, r, from)) = SmallerOf(r.size, rest)
<1> DEFINE pool == Pool(d, r)
           fetched == Fetched(d, r, from)
<1>1. pool \in Seq(Items) /\ Len(pool) \in Nat /\ r.size \in Nat \ {0}
  BY PoolType, ConstantsAssumption DEF Units, RequestType
<1> DEFINE last == SmallerOf(from + r.size + 1, Len(pool))
<1>2. last \in Nat /\ last <= Len(pool) /\ from + 1 \in Int
  BY <1>1 DEF SmallerOf
<1>3. \A i \in from + 1 .. last : pool[i] \in Items
  BY <1>1, <1>2
<1>4. SubSeq(pool, from + 1, last) \in Seq(Items)
      /\ Len(SubSeq(pool, from + 1, last)) = IF from + 1 <= last THEN last - (from + 1) + 1 ELSE 0
  <2> HIDE DEF pool, last
  <2> QED  BY <1>2, <1>3, SubSeqProperties
<1>5. fetched \in Seq(Items) /\ Len(fetched) = SmallerOf(r.size + 1, Len(pool) - from)
  BY <1>1, <1>4 DEF Fetched, SmallerOf
<1> HIDE DEF fetched
<1> DEFINE n == SmallerOf(r.size, Len(fetched))
<1>6. n \in Nat /\ n <= Len(fetched)
  BY <1>1, <1>5 DEF SmallerOf
<1>7. \A i \in 1 .. n : fetched[i] \in Items
  BY <1>5, <1>6
<1>8. SubSeq(fetched, 1, n) \in Seq(Items) /\ Len(SubSeq(fetched, 1, n)) = n
  <2>1. SubSeq(fetched, 1, n) \in Seq(Items)
        /\ Len(SubSeq(fetched, 1, n)) = IF 1 <= n THEN n - 1 + 1 ELSE 0
    <3> HIDE DEF n
    <3> QED  BY <1>6, <1>7, SubSeqProperties
  <2> QED  BY <2>1, <1>6
<1>9. Candidates(d, r, from) = SubSeq(fetched, 1, n)
  BY DEF Candidates, First, fetched
<1>10. Len(Candidates(d, r, from)) = SmallerOf(r.size, Len(pool) - from)
  BY <1>1, <1>5, <1>8, <1>9 DEF SmallerOf
<1> QED  BY <1>5, <1>8, <1>9, <1>10 DEF fetched

\* What is returned is taken from the pool, and `more` says if there is more.
LEMMA ReturnedFits ==
    ASSUME NEW d \in Databases, NEW r \in Requests, Found(d, r),
           NEW from \in 0 .. Len(Pool(d, r)), NEW position,
           position = PositionAfter(d, r, from)
    PROVE  LET n == Returned(d, r, position, PageRows(d, r, position))
           IN  /\ Before(d, r, position) = from
               /\ n \in 0 .. (Len(Pool(d, r)) - from)
               /\ More(d, r, from, n) <=> from + n < Len(Pool(d, r))
<1> DEFINE pool == Pool(d, r)
           n == Returned(d, r, position, PageRows(d, r, position))
<1>1. Len(pool) \in Nat /\ r.size \in Nat \ {0}
  BY PoolType, ConstantsAssumption DEF RequestType
<1>2. CASE r.tool = "read"
  <2>1. pool \in Texts
    BY <1>2, PoolType
  <2>2. position = IF from = 0 THEN 0 ELSE pool[from]
    BY <1>2 DEF PositionAfter
  <2>3. Before(d, r, position) = from
    BY <1>2, <2>1, <2>2, EndsUpTo DEF Before
  <2>4. n = ChunkLength(pool, position, r.size)
    BY <1>2 DEF Returned
  <2>5. n \in 0 .. (Len(pool) - from)
    BY <1>1, <2>1, <2>2, <2>4, ChunkFits
  <2> HIDE DEF n, pool
  <2>6. /\ \A i \in 1 .. Len(pool) : pool[i] \in Nat \ {0}
        /\ \A i, j \in 1 .. Len(pool) : i < j => pool[i] < pool[j]
        /\ Size(pool) = pool[Len(pool)] /\ Len(pool) # 0
    BY <2>1, TextShape
  <2>7. from + n \in 0 .. Len(pool)
    BY <1>1, <2>5
  <2>8. PositionAfter(d, r, from + n) = IF from + n = 0 THEN 0 ELSE pool[from + n]
    BY <1>2 DEF PositionAfter, pool
  <2>9. More(d, r, from, n) <=> PositionAfter(d, r, from + n) # Size(pool)
    BY <1>2 DEF More, pool
  <2>10. PositionAfter(d, r, from + n) # Size(pool) <=> from + n < Len(pool)
    <3>1. CASE from + n = 0
      BY <3>1, <1>1, <2>6, <2>8
    <3>2. CASE from + n # 0
      <4>1. from + n \in 1 .. Len(pool) /\ Len(pool) \in 1 .. Len(pool)
        BY <3>2, <2>7, <1>1, <2>6
      <4>2. from + n < Len(pool) => pool[from + n] < pool[Len(pool)]
        BY <4>1, <2>6
      <4>3. pool[from + n] \in Nat /\ pool[Len(pool)] \in Nat
        BY <4>1, <2>6
      <4>4. from + n < Len(pool) \/ from + n = Len(pool)
        BY <4>1, <1>1
      <4> QED  BY <3>2, <4>2, <4>3, <4>4, <2>6, <2>8, <1>1
    <3> QED  BY <3>1, <3>2
  <2> QED  BY <2>3, <2>5, <2>9, <2>10 DEF n, pool
<1>3. CASE r.tool # "read"
  <2>1. position = from /\ Before(d, r, position) = from
    BY <1>3 DEF PositionAfter, Before
  <2>2. n = PageLength(d, r, Candidates(d, r, from))
    BY <1>3, <2>1 DEF Returned, PageRows
  <2>3. /\ Len(Fetched(d, r, from)) = SmallerOf(r.size + 1, Len(pool) - from)
        /\ Len(Candidates(d, r, from)) = SmallerOf(r.size, Len(pool) - from)
    BY <1>3, RowsFetched
  <2>4. Len(Candidates(d, r, from)) \in Nat
    BY <1>1, <2>3 DEF SmallerOf
  <2>5. n \in 0 .. SmallerOf(r.size, Len(pool) - from)
    BY <2>2, <2>3, <2>4, PageFits
  <2>6. More(d, r, from, n) <=> SmallerOf(r.size + 1, Len(pool) - from) > n
    BY <1>3, <2>3 DEF More
  <2> HIDE DEF n, pool
  <2>7. n \in 0 .. (Len(pool) - from)
    BY <1>1, <2>5 DEF SmallerOf
  <2>8. SmallerOf(r.size + 1, Len(pool) - from) > n <=> from + n < Len(pool)
    BY <1>1, <2>5 DEF SmallerOf
  <2> QED  BY <2>1, <2>6, <2>7, <2>8 DEF n, pool
<1> QED  BY <1>2, <1>3

\* The units returned continue what the client has.
LEMMA Continued ==
    ASSUME NEW d \in Databases, NEW r \in Requests, Found(d, r),
           NEW g, Prefix(d, r, g), Len(g) \in Nat,
           NEW n \in 0 .. (Len(Pool(d, r)) - Len(g))
    PROVE  LET longer == g \o SubSeq(Pool(d, r), Len(g) + 1, Len(g) + n)
           IN  /\ longer \in Units(r)
               /\ Len(longer) = Len(g) + n
               /\ Prefix(d, r, longer)
               /\ Len(g) + n = Len(Pool(d, r)) => longer = Pool(d, r)
<1> DEFINE T == IF r.tool = "read" THEN Nat ELSE Items
           pool == Pool(d, r)
           k == Len(g)
<1>1. Units(r) = Seq(T)
  BY DEF Units
<1>2. pool \in Seq(T) /\ Len(pool) \in Nat
  BY <1>1, PoolType
<1>3. g = SubSeq(pool, 1, k) /\ k <= Len(pool)
  BY DEF Prefix, First
<1> HIDE DEF T, pool, k
<1>4. k \in Nat /\ n \in Nat /\ k + n <= Len(pool)
  BY <1>2 DEF k, pool
<1>5. SubSeq(pool, 1, k) \o SubSeq(pool, k + 1, k + n) = SubSeq(pool, 1, k + n)
  <2>1. 1 \in 1 .. Len(pool) + 1 /\ k \in 1 - 1 .. Len(pool) /\ k + n \in k .. Len(pool)
    BY <1>2, <1>3, <1>4
  <2> QED  BY <2>1, <1>2, ConcatAdjacentSubSeq
<1> DEFINE last == k + n
<1>6. last \in Nat /\ \A i \in 1 .. last : pool[i] \in T
  BY <1>2, <1>4
<1>7. SubSeq(pool, 1, last) \in Seq(T) /\ Len(SubSeq(pool, 1, last)) = last
  <2> HIDE DEF last
  <2>1. SubSeq(pool, 1, last) \in Seq(T)
        /\ Len(SubSeq(pool, 1, last)) = IF 1 <= last THEN last - 1 + 1 ELSE 0
    BY <1>6, SubSeqProperties
  <2> QED  BY <2>1, <1>6
<1>8. k + n = Len(pool) => SubSeq(pool, 1, k + n) = pool
  BY <1>2, SubSeqFull
<1>9. g \o SubSeq(pool, k + 1, k + n) = SubSeq(pool, 1, k + n)
  BY <1>3, <1>5
<1> QED  BY <1>1, <1>4, <1>7, <1>8, <1>9 DEF Prefix, First, pool, k

-----------------------------------------------------------------------------
(* Steps.                                                                  *)

\* Types of the values of one chain.
ChainType(r, v, k, g, st, b, sb, f) ==
    /\ r \in Requests
    /\ v \in Databases \cup {None}
    /\ k \in Cursors \cup {None}
    /\ g \in Units(r)
    /\ st \in Statuses
    /\ b \in Databases \cup {None}
    /\ sb \in Nat
    /\ f \in Databases \cup {None}

LEMMA OlderReflexive ==
    ASSUME NEW d \in Databases
    PROVE  Older(d, d)
<1>1. \A s \in Sources : d[s].revision \in Nat
  BY ConstantsAssumption DEF Databases
<1> QED  BY <1>1 DEF Older

LEMMA OlderTransitive ==
    ASSUME NEW a \in Databases, NEW b \in Databases, NEW d \in Databases,
           Older(a, b), Older(b, d)
    PROVE  Older(a, d)
<1> SUFFICES ASSUME NEW s \in Sources
             PROVE  /\ a[s].revision <= d[s].revision
                    /\ a[s].revision = d[s].revision => a[s] = d[s]
  BY DEF Older
<1>1. a[s].revision \in Nat /\ b[s].revision \in Nat /\ d[s].revision \in Nat
  BY ConstantsAssumption DEF Databases
<1>2. /\ a[s].revision <= b[s].revision /\ b[s].revision <= d[s].revision
      /\ a[s].revision = b[s].revision => a[s] = b[s]
      /\ b[s].revision = d[s].revision => b[s] = d[s]
  BY DEF Older
<1> QED  BY <1>1, <1>2

\* An older database with the same fingerprint is the same database.
LEMMA SameFingerprint ==
    ASSUME NEW a \in Databases, NEW b \in Databases, Older(a, b),
           Fingerprint(a) = Fingerprint(b)
    PROVE  a = b
<1>1. \A s \in Sources : a[s].revision = b[s].revision
  <2> TAKE s \in Sources
  <2>1. Fingerprint(a)[s] = a[s].revision /\ Fingerprint(b)[s] = b[s].revision
    BY DEF Fingerprint
  <2> QED  BY <2>1
<1>2. \A s \in Sources : a[s] = b[s]
  BY <1>1 DEF Older
<1> QED  BY <1>2 DEF Databases

\* One with another fingerprint has an earlier revision of some Source.
LEMMA OtherFingerprint ==
    ASSUME NEW a \in Databases, NEW b \in Databases, Older(a, b),
           Fingerprint(a) # Fingerprint(b)
    PROVE  \E s \in Sources : a[s].revision < b[s].revision
<1>1. \E s \in Sources : a[s].revision # b[s].revision
  BY DEF Fingerprint
<1>2. PICK s \in Sources : a[s].revision # b[s].revision
  BY <1>1
<1>3. a[s].revision \in Nat /\ b[s].revision \in Nat /\ a[s].revision <= b[s].revision
  BY ConstantsAssumption DEF Databases, Older
<1> QED  BY <1>2, <1>3

\* Publishing and restarting leave every chain with a snapshot that is older.
LEMMA OwnerAdvances ==
    ASSUME NEW d \in Databases, NEW e \in Databases, Older(d, e),
           NEW o \in Nat, NEW p \in Nat, o <= p,
           NEW r, NEW v, NEW w, NEW k, NEW g, NEW st, NEW b, NEW sb, NEW f,
           ChainType(r, v, k, g, st, b, sb, f), ChainInv(d, o, r, v, k, g, st, b, sb, f),
           w = None \/ (w = v /\ p = o)
    PROVE  ChainInv(e, p, r, w, k, g, st, b, sb, f)
<1>1. sb <= p /\ (st = "owner_restarted" => sb < p)
  BY DEF ChainInv, ChainType
<1>2. ASSUME w # None
      PROVE  st = "open" /\ Older(w, e) /\ Accepted(w, r) /\ (k # None => w = b /\ sb = p)
  <2>1. w = v /\ p = o /\ v \in Databases
    BY <1>2 DEF ChainType
  <2>2. st = "open" /\ Older(v, d) /\ Accepted(v, r) /\ (k # None => v = b /\ sb = o)
    BY <1>2, <2>1 DEF ChainInv
  <2>3. Older(v, e)
    BY <2>1, <2>2, OlderTransitive
  <2> QED  BY <2>1, <2>2, <2>3
<1>3. b # None => Older(b, e) /\ Accepted(b, r) /\ Answered(b, r, g, st)
  BY OlderTransitive DEF ChainInv, ChainType
<1>4. f # None => Older(f, e) /\ RefusedFor(f, r, g, st) /\ (b # None => Older(b, f))
  BY OlderTransitive DEF ChainInv, ChainType
<1>5. /\ k = None /\ st = "open" => b = None
      /\ b = None => k = None /\ g = << >> /\ st \notin Served
      /\ k # None => Bound(b, r, k, g, sb)
      /\ (f = None) <=> (st = "open")
      /\ st = "active_set_changed" => \E s \in Sources : b[s].revision < f[s].revision
  BY DEF ChainInv
<1> QED  BY <1>1, <1>2, <1>3, <1>4, <1>5 DEF ChainInv

\* A cursor that is accepted finds the database of its first page; a call that
\* is refused is refused for the active set it found or for what happened.
LEMMA ValidateInv ==
    ASSUME NEW d \in Databases, NEW o \in Nat,
           NEW r, NEW k, NEW g, NEW b, NEW sb, NEW refusal, NEW verdict,
           ChainType(r, None, k, g, "open", b, sb, None),
           ChainInv(d, o, r, None, k, g, "open", b, sb, None),
           refusal = IF k = None THEN "none"
                     ELSE IF k.epoch # o THEN "owner_restarted"
                     ELSE IF k.fingerprint # Fingerprint(d) THEN "active_set_changed"
                     ELSE "none",
           verdict = IF AuthorityProblem(d, r) # "none" THEN AuthorityProblem(d, r)
                     ELSE refusal
    PROVE  /\ verdict = "none" => ChainInv(d, o, r, d, k, g, "open", b, sb, None)
           /\ verdict # "none" => /\ ChainInv(d, o, r, None, k, g, verdict, b, sb, d)
                                  /\ verdict \in Statuses
<1>2. Older(d, d) /\ d # None
  BY OlderReflexive, NoneAssumption
<1>3. /\ sb \in Nat /\ sb <= o
      /\ k = None => b = None
      /\ b = None => k = None /\ g = << >>
      /\ b # None => b \in Databases /\ Older(b, d) /\ Accepted(b, r) /\ Answered(b, r, g, "open")
      /\ k # None => Bound(b, r, k, g, sb)
  BY DEF ChainInv, ChainType
<1>4. ASSUME verdict = "none"
      PROVE  ChainInv(d, o, r, d, k, g, "open", b, sb, None)
  <2>1. Accepted(d, r) /\ refusal = "none"
    BY <1>4 DEF Accepted
  <2>2. ASSUME k # None
        PROVE  d = b /\ sb = o
    <3>1. k.epoch = o /\ k.fingerprint = Fingerprint(d)
      BY <2>1, <2>2
    <3>2. k.epoch = sb /\ k.fingerprint = Fingerprint(b)
      BY <1>3, <2>2 DEF Bound
    <3>3. b \in Databases /\ Older(b, d)
      BY <1>3, <2>2
    <3> QED  BY <3>1, <3>2, <3>3, SameFingerprint
  <2> QED  BY <1>2, <1>3, <2>1, <2>2 DEF ChainInv, Served
<1>5. ASSUME verdict # "none", ~Accepted(d, r)
      PROVE  ChainInv(d, o, r, None, k, g, verdict, b, sb, d) /\ verdict \in Statuses
  <2>1. verdict = AuthorityProblem(d, r)
    BY <1>5 DEF Accepted
  <2>2. verdict \in Problems
    BY <1>5, <2>1 DEF AuthorityProblem, UntrustedProblem, Problems
  <2>3. verdict \notin Served \cup {"open"} /\ verdict \in Statuses
    BY <2>2 DEF Problems, Served, Statuses
  <2>4. b # None => Answered(b, r, g, verdict)
    BY <1>3, <2>3 DEF Answered, Served
  <2>5. RefusedFor(d, r, g, verdict)
    BY <1>5, <2>1 DEF RefusedFor
  <2> QED  BY <1>2, <1>3, <2>3, <2>4, <2>5 DEF ChainInv, Served
<1>6. ASSUME verdict # "none", Accepted(d, r)
      PROVE  ChainInv(d, o, r, None, k, g, verdict, b, sb, d) /\ verdict \in Statuses
  <2>0. verdict = refusal
    BY <1>6 DEF Accepted
  <2>1. k # None /\ b # None /\ verdict \in {"owner_restarted", "active_set_changed"}
    BY <1>3, <1>6, <2>0
  <2>2. k.epoch = sb /\ k.fingerprint = Fingerprint(b)
    BY <1>3, <2>1 DEF Bound
  <2>3. verdict = "owner_restarted" => sb < o
    BY <1>3, <2>0, <2>1, <2>2
  <2>4. verdict = "active_set_changed" => \E s \in Sources : b[s].revision < d[s].revision
    <3>1. ASSUME verdict = "active_set_changed"
          PROVE  Fingerprint(b) # Fingerprint(d)
      BY <3>1, <2>0, <2>1, <2>2
    <3> QED  BY <3>1, <1>3, <2>1, OtherFingerprint
  <2>5. Answered(b, r, g, verdict) /\ RefusedFor(d, r, g, verdict)
    BY <1>3, <1>6, <2>1 DEF Answered, RefusedFor, Problems
  <2>6. verdict # "open" /\ verdict \in Statuses
    BY <2>1 DEF Statuses
  <2> QED  BY <1>2, <1>3, <2>1, <2>3, <2>4, <2>5, <2>6 DEF ChainInv
<1> QED  BY <1>4, <1>5, <1>6

\* In its snapshot a call resumes where the chain has got to.
LEMMA Resumes ==
    ASSUME NEW d \in Databases, NEW o \in Nat,
           NEW r, NEW v, NEW k, NEW g, NEW st, NEW b, NEW sb, NEW f,
           NEW position, ChainType(r, v, k, g, st, b, sb, f),
           ChainInv(d, o, r, v, k, g, st, b, sb, f),
           v # None, position = IF k = None THEN 0 ELSE k.position
    PROVE  /\ v \in Databases /\ Older(v, d) /\ st = "open" /\ Accepted(v, r)
           /\ v = (IF k = None THEN v ELSE b) /\ o = (IF k = None THEN o ELSE sb)
           /\ Len(g) \in Nat
           /\ position = PositionAfter(v, r, Len(g))
           /\ k = None => g = << >>
           /\ k # None => Bound(v, r, k, g, sb)
           /\ Found(v, r) => Prefix(v, r, g)
<1>1. /\ v \in Databases /\ Older(v, d) /\ st = "open" /\ Accepted(v, r)
      /\ k # None => v = b /\ sb = o
      /\ k = None => g = << >>
  BY DEF ChainInv, ChainType
<1>2. k # None => Bound(v, r, k, g, sb) /\ Answered(v, r, g, "open")
  BY <1>1 DEF ChainInv
<1>3. Len(g) \in Nat
  BY DEF ChainType, Units
<1>4. position = PositionAfter(v, r, Len(g))
  BY <1>1, <1>2 DEF Bound, PositionAfter
<1>5. ASSUME Found(v, r)
      PROVE  Prefix(v, r, g)
  <2>1. CASE k # None
    BY <1>2, <1>5, <2>1 DEF Answered
  <2>2. CASE k = None
    <3>1. g = << >> /\ Len(g) = 0
      BY <1>1, <2>2
    <3>2. r \in Requests /\ Len(Pool(v, r)) \in Nat
      BY <1>1, <1>5, PoolType DEF ChainType
    <3>3. SubSeq(Pool(v, r), 1, 0) = << >>
      BY SubSeqEmpty
    <3> QED  BY <3>1, <3>2, <3>3 DEF Prefix, First
  <2> QED  BY <2>1, <2>2
<1> QED  BY <1>1, <1>2, <1>3, <1>4, <1>5

\* A call that ends with a problem ends with one that the page explains.
LEMMA ProblemExplained ==
    ASSUME NEW v \in Databases, NEW r \in Requests, NEW k, NEW g, NEW sb, NEW position,
           Accepted(v, r), Len(g) \in Nat, position = PositionAfter(v, r, Len(g)),
           k = None => g = << >>, k # None => Bound(v, r, k, g, sb),
           Found(v, r) => Prefix(v, r, g),
           Problem(v, r, position, PageRows(v, r, position)) # "none"
    PROVE  LET problem == Problem(v, r, position, PageRows(v, r, position))
           IN  /\ problem \in Problems
               /\ Answered(v, r, g, problem)
               /\ RefusedFor(v, r, g, problem)
<1> DEFINE rows == PageRows(v, r, position)
           problem == Problem(v, r, position, rows)
<1>1. problem \in Problems
  BY DEF Problem, ReadProblem, OversizedProblem, Problems
<1>2. r.tool \in Tools
  BY ConstantsAssumption DEF RequestType
<1>3. CASE ~Found(v, r)
  <2>1. problem = "evidence_not_found"
    BY <1>3 DEF Problem
  <2>2. g = << >>
    BY <1>3 DEF Bound
  <2> QED  BY <1>3, <2>1, <2>2 DEF Answered, RefusedFor, Problems
<1>4. CASE Found(v, r) /\ r.tool = "read"
  <2> DEFINE text == Pool(v, r)
  <2>1. problem = ReadProblem(text, position)
    BY <1>4 DEF Problem
  <2>2. text \in Texts
    BY <1>4, PoolType
  <2>3. /\ Len(text) \in Nat \ {0} /\ DOMAIN text = 1 .. Len(text)
        /\ \A i \in 1 .. Len(text) : text[i] \in Nat \ {0}
        /\ \A i, j \in 1 .. Len(text) : i < j => text[i] < text[j]
        /\ Size(text) = text[Len(text)]
    BY <2>2, TextShape
  <2>4. position = IF Len(g) = 0 THEN 0 ELSE text[Len(g)]
    BY <1>4 DEF PositionAfter
  <2>5. ASSUME k # None
        PROVE  Len(g) < Len(text) /\ ~(Size(text) > MaxPageText)
    BY <2>5, <1>4 DEF Bound
  <2>6. ASSUME k = None
        PROVE  Len(g) = 0 /\ g = << >>
    BY <2>6
  <2> HIDE DEF text
  <2>7. Len(g) < Len(text)
    BY <2>3, <2>5, <2>6
  <2>8. ~(position >= Size(text)) /\ Aligned(text, position)
    <3>1. CASE Len(g) = 0
      <4>1. position = 0
        BY <3>1, <2>4
      <4>2. Size(text) \in Nat \ {0}
        BY <2>3
      <4> QED  BY <4>1, <4>2 DEF Aligned
    <3>2. CASE Len(g) # 0
      <4>1. Len(g) \in 1 .. Len(text) /\ Len(text) \in 1 .. Len(text)
        BY <3>2, <2>3, <2>7
      <4>2. position = text[Len(g)] /\ text[Len(g)] < text[Len(text)]
        BY <3>2, <4>1, <2>3, <2>4, <2>7
      <4>3. text[Len(g)] \in Nat /\ text[Len(text)] \in Nat
        BY <4>1, <2>3
      <4> QED  BY <4>1, <4>2, <4>3, <2>3 DEF Aligned
    <3> QED  BY <3>1, <3>2
  <2>9. problem = "response_too_large" /\ Size(text) > MaxPageText
    BY <2>1, <2>8 DEF ReadProblem, text
  <2>10. g = << >>
    BY <2>5, <2>6, <2>9
  <2>11. Answered(v, r, g, problem) /\ RefusedFor(v, r, g, problem)
    <3> HIDE DEF problem
    <3> QED  BY <1>4, <2>9, <2>10 DEF Answered, RefusedFor, text
  <2> QED  BY <1>1, <2>11
<1>5. CASE Found(v, r) /\ r.tool # "read"
  <2>1. rows = Candidates(v, r, Len(g))
    BY <1>5 DEF PageRows, PositionAfter
  <2>2. Len(g) \in 0 .. Len(Pool(v, r))
    BY <1>5, PoolType DEF Prefix
  <2>3. rows \in Seq(Items)
    BY <1>5, <2>1, <2>2, RowsFetched
  <2>4. problem # "evidence_not_found" /\ problem \notin {"complete", "capped"}
    BY <1>5, <1>1 DEF Problem, OversizedProblem, Problems
  <2>5. Answered(v, r, g, problem)
    BY <1>5, <2>4 DEF Answered
  <2>6. problem = "internal_error" => r.tool = "search" /\ Oversized(v, r, rows)
    BY <1>5 DEF Problem, OversizedProblem, LongMode, Described
  <2>7. ASSUME problem = "response_too_large", ~LongMode(v, r, rows), ~Oversized(v, r, rows)
        PROVE  TooLarge(v, r, rows)
    <3>1. rows # << >> /\ PageLength(v, r, rows) = 0
      BY <1>5, <2>7 DEF Problem
    <3> HIDE DEF rows
    <3>2. Len(rows) \in Nat /\ Len(rows) > 0
      BY <2>3, <3>1, EmptySeq
    <3> QED  BY <3>1, <3>2, PageFits
  <2>8. RefusedFor(v, r, g, problem)
    <3> HIDE DEF problem, rows
    <3> QED  BY <1>5, <2>1, <2>4, <2>6, <2>7 DEF RefusedFor
  <2> QED  BY <1>1, <2>5, <2>8
<1> QED  BY <1>1, <1>3, <1>4, <1>5

\* A call that ends with a problem leaves the chain as it was.
LEMMA RefuseInv ==
    ASSUME NEW d \in Databases, NEW o \in Nat,
           NEW r, NEW v, NEW k, NEW g, NEW st, NEW b, NEW sb, NEW f,
           NEW position, ChainType(r, v, k, g, st, b, sb, f),
           ChainInv(d, o, r, v, k, g, st, b, sb, f),
           v # None, position = IF k = None THEN 0 ELSE k.position,
           Problem(v, r, position, PageRows(v, r, position)) # "none"
    PROVE  LET problem == Problem(v, r, position, PageRows(v, r, position))
               first == IF k = None THEN v ELSE b
               starter == IF k = None THEN o ELSE sb
           IN  /\ ChainInv(d, o, r, None, k, g, problem, first, starter, v)
               /\ ChainType(r, None, k, g, problem, first, starter, v)
<1> DEFINE problem == Problem(v, r, position, PageRows(v, r, position))
           first == IF k = None THEN v ELSE b
           starter == IF k = None THEN o ELSE sb
<1>1. /\ v \in Databases /\ Older(v, d) /\ Accepted(v, r) /\ first = v /\ starter = o
      /\ Len(g) \in Nat /\ position = PositionAfter(v, r, Len(g))
      /\ k = None => g = << >>
      /\ k # None => Bound(v, r, k, g, sb)
      /\ Found(v, r) => Prefix(v, r, g)
  BY Resumes
<1>2. r \in Requests
  BY DEF ChainType
<1>3. problem \in Problems /\ Answered(v, r, g, problem) /\ RefusedFor(v, r, g, problem)
  BY <1>1, <1>2, ProblemExplained
<1>4. problem \notin Served \cup {"open"} /\ problem \in Statuses
  BY <1>3 DEF Problems, Served, Statuses
<1>5. k # None => Bound(first, r, k, g, starter)
  BY <1>1
<1> HIDE DEF problem, first, starter
<1>6. v # None /\ Older(v, v)
  BY <1>1, NoneAssumption, OlderReflexive
<1>7. ChainInv(d, o, r, None, k, g, problem, first, starter, v)
  BY <1>1, <1>3, <1>4, <1>5, <1>6 DEF ChainInv, Served
<1>8. ChainType(r, None, k, g, problem, first, starter, v)
  BY <1>1, <1>4 DEF ChainType
<1> QED  BY <1>7, <1>8 DEF problem, first, starter

\* A page that is delivered continues the answer and carries it to the end.
LEMMA DeliverInv ==
    ASSUME NEW d \in Databases, NEW o \in Nat,
           NEW r, NEW v, NEW k, NEW g, NEW st, NEW b, NEW sb, NEW f,
           NEW position, ChainType(r, v, k, g, st, b, sb, f),
           ChainInv(d, o, r, v, k, g, st, b, sb, f),
           v # None, position = IF k = None THEN 0 ELSE k.position,
           Problem(v, r, position, PageRows(v, r, position)) = "none"
    PROVE  LET n == Returned(v, r, position, PageRows(v, r, position))
               from == Before(v, r, position)
               more == More(v, r, from, n)
               next == [epoch |-> o, fingerprint |-> Fingerprint(v),
                        position |-> PositionAfter(v, r, from + n)]
               k2 == IF more THEN next ELSE None
               g2 == g \o SubSeq(Pool(v, r), from + 1, from + n)
               st2 == IF more THEN "open" ELSE EndsAs(v, r)
               f2 == IF more THEN None ELSE v
               first == IF k = None THEN v ELSE b
               starter == IF k = None THEN o ELSE sb
           IN  /\ ChainInv(d, o, r, None, k2, g2, st2, first, starter, f2)
               /\ ChainType(r, None, k2, g2, st2, first, starter, f2)
<1> DEFINE n == Returned(v, r, position, PageRows(v, r, position))
           from == Before(v, r, position)
           more == More(v, r, from, n)
           next == [epoch |-> o, fingerprint |-> Fingerprint(v),
                    position |-> PositionAfter(v, r, from + n)]
           k2 == IF more THEN next ELSE None
           g2 == g \o SubSeq(Pool(v, r), from + 1, from + n)
           st2 == IF more THEN "open" ELSE EndsAs(v, r)
           f2 == IF more THEN None ELSE v
           first == IF k = None THEN v ELSE b
           starter == IF k = None THEN o ELSE sb
<1>1. /\ v \in Databases /\ Older(v, d) /\ Accepted(v, r) /\ first = v /\ starter = o
      /\ Len(g) \in Nat /\ position = PositionAfter(v, r, Len(g))
      /\ Found(v, r) => Prefix(v, r, g)
  BY Resumes
<1>2. r \in Requests /\ Found(v, r)
  BY DEF ChainType, Problem
<1>3. Len(Pool(v, r)) \in Nat /\ Len(g) \in 0 .. Len(Pool(v, r)) /\ Prefix(v, r, g)
  BY <1>1, <1>2, PoolType DEF Prefix
<1>4. from = Len(g) /\ n \in 0 .. (Len(Pool(v, r)) - Len(g))
      /\ (more <=> Len(g) + n < Len(Pool(v, r)))
  <2>1. /\ Before(v, r, position) = Len(g)
        /\ n \in 0 .. (Len(Pool(v, r)) - Len(g))
        /\ More(v, r, Len(g), n) <=> Len(g) + n < Len(Pool(v, r))
    BY <1>1, <1>2, <1>3, ReturnedFits
  <2> QED  BY <2>1
<1>5. /\ g2 \in Units(r)
      /\ Len(g2) = Len(g) + n
      /\ Prefix(v, r, g2)
      /\ Len(g) + n = Len(Pool(v, r)) => g2 = Pool(v, r)
  <2> HIDE DEF n
  <2>1. g2 = g \o SubSeq(Pool(v, r), Len(g) + 1, Len(g) + n)
    BY <1>4
  <2>2. LET longer == g \o SubSeq(Pool(v, r), Len(g) + 1, Len(g) + n)
        IN  /\ longer \in Units(r)
            /\ Len(longer) = Len(g) + n
            /\ Prefix(v, r, longer)
            /\ Len(g) + n = Len(Pool(v, r)) => longer = Pool(v, r)
    BY <1>1, <1>2, <1>3, <1>4, Continued
  <2> HIDE DEF g2
  <2> QED  BY <2>1, <2>2
<1>6. r.tool = "read" => ~(Size(Pool(v, r)) > MaxPageText)
  BY <1>2 DEF Problem, ReadProblem
<1>7. next \in Cursors /\ next # None
  <2>1. Fingerprint(v) \in [Sources -> Nat]
    BY <1>1, ConstantsAssumption DEF Fingerprint, Databases
  <2>2. PositionAfter(v, r, from + n) \in Nat
    <3>1. from + n \in 0 .. Len(Pool(v, r))
      BY <1>3, <1>4
    <3> HIDE DEF from, n
    <3>2. CASE r.tool = "read"
      <4>1. Pool(v, r) \in Texts
        BY <1>1, <1>2, <3>2, PoolType
      <4>2. \A i \in 1 .. Len(Pool(v, r)) : Pool(v, r)[i] \in Nat
        BY <4>1, TextShape
      <4> QED  BY <1>3, <3>1, <3>2, <4>2 DEF PositionAfter
    <3>3. CASE r.tool # "read"
      BY <3>1, <3>3 DEF PositionAfter
    <3> QED  BY <3>2, <3>3
  <2> HIDE DEF from, n
  <2>3. next \in [epoch : Nat, fingerprint : [Sources -> Nat], position : Nat]
    BY <2>1, <2>2
  <2> QED  BY <2>3, NoneAssumption DEF Cursors
<1>8. v # None /\ Older(v, v)
  BY <1>1, NoneAssumption, OlderReflexive
<1> HIDE DEF n
<1>9. ASSUME more
      PROVE  /\ ChainInv(d, o, r, None, k2, g2, st2, first, starter, f2)
              /\ ChainType(r, None, k2, g2, st2, first, starter, f2)
  <2>1. k2 = next /\ st2 = "open" /\ f2 = None
    BY <1>9
  <2>2. Bound(v, r, next, g2, o)
    <3>1. next.epoch = o /\ next.fingerprint = Fingerprint(v)
          /\ next.position = PositionAfter(v, r, Len(g2))
      BY <1>4, <1>5
    <3>2. Len(g2) < Len(Pool(v, r))
      BY <1>4, <1>5, <1>9
    <3> HIDE DEF next, g2
    <3> QED  BY <1>2, <1>6, <3>1, <3>2 DEF Bound
  <2>3. Answered(v, r, g2, "open")
    BY <1>5 DEF Answered
  <2> HIDE DEF next, k2, g2, st2, f2, first, starter, more, from
  <2>4. ChainInv(d, o, r, None, k2, g2, st2, first, starter, f2)
    BY <1>1, <1>7, <1>8, <2>1, <2>2, <2>3 DEF ChainInv
  <2>5. ChainType(r, None, k2, g2, st2, first, starter, f2)
    BY <1>1, <1>2, <1>5, <1>7, <2>1 DEF ChainType, Statuses
  <2> QED  BY <2>4, <2>5
<1>10. ASSUME ~more
       PROVE  /\ ChainInv(d, o, r, None, k2, g2, st2, first, starter, f2)
               /\ ChainType(r, None, k2, g2, st2, first, starter, f2)
  <2>1. k2 = None /\ st2 = EndsAs(v, r) /\ f2 = v
    BY <1>10
  <2>2. g2 = Pool(v, r)
    <3>1. Len(g) + n = Len(Pool(v, r))
      BY <1>3, <1>4, <1>10
    <3> QED  BY <3>1, <1>5
  <2>3. st2 \in {"complete", "capped"} /\ (st2 = "capped" <=> Discarded(v, r))
    BY <2>1 DEF EndsAs
  <2> HIDE DEF next, k2, g2, st2, f2, first, starter, more, from
  <2>4. Answered(v, r, g2, st2) /\ RefusedFor(v, r, g2, st2)
    BY <1>1, <1>2, <1>5, <2>2, <2>3 DEF Answered, RefusedFor, Problems
  <2>5. ChainInv(d, o, r, None, k2, g2, st2, first, starter, f2)
    BY <1>1, <1>8, <2>1, <2>3, <2>4 DEF ChainInv
  <2>6. ChainType(r, None, k2, g2, st2, first, starter, f2)
    BY <1>1, <1>2, <1>5, <2>1, <2>3 DEF ChainType, Statuses
  <2> QED  BY <2>5, <2>6
<1> HIDE DEF next, k2, g2, st2, f2, first, starter, from
<1>11. /\ ChainInv(d, o, r, None, k2, g2, st2, first, starter, f2)
       /\ ChainType(r, None, k2, g2, st2, first, starter, f2)
  BY <1>9, <1>10
<1> QED  BY <1>11 DEF n, from, more, next, k2, g2, st2, f2, first, starter

-----------------------------------------------------------------------------
(* The actions.                                                            *)

\* The values of a chain in a state of the right type.
LEMMA ChainTyped ==
    ASSUME TypeOK, NEW c \in Chains
    PROVE  ChainType(request[c], view[c], cursor[c], got[c], status[c], begun[c], startedBy[c], final[c])
BY DEF TypeOK, ChainType

\* A step that changes nothing of the other chains only has to keep its own.
LEMMA OneChain ==
    ASSUME IInv, NEW c \in Chains,
           UNCHANGED <<db, owner, request>>, lost' \in Nat,
           NEW v, NEW k, NEW g, NEW st, NEW b, NEW sb, NEW f,
           view' = [view EXCEPT ![c] = v], cursor' = [cursor EXCEPT ![c] = k],
           got' = [got EXCEPT ![c] = g], status' = [status EXCEPT ![c] = st],
           begun' = [begun EXCEPT ![c] = b], startedBy' = [startedBy EXCEPT ![c] = sb],
           final' = [final EXCEPT ![c] = f],
           ChainType(request[c], v, k, g, st, b, sb, f),
           ChainInv(db, owner, request[c], v, k, g, st, b, sb, f)
    PROVE  IInv'
<1>1. TypeOK /\ ChainsInv
  BY DEF IInv
<1>2. /\ v \in Databases \cup {None} /\ k \in Cursors \cup {None} /\ g \in Units(request[c])
      /\ st \in Statuses /\ b \in Databases \cup {None} /\ sb \in Nat
      /\ f \in Databases \cup {None}
  BY DEF ChainType
<1>3. TypeOK'
  <2>1. db' \in Databases /\ owner' \in Nat /\ lost' \in Nat /\ request' \in [Chains -> Requests]
    BY <1>1 DEF TypeOK
  <2>2. /\ view' \in [Chains -> Databases \cup {None}]
        /\ cursor' \in [Chains -> Cursors \cup {None}]
        /\ status' \in [Chains -> Statuses]
        /\ begun' \in [Chains -> Databases \cup {None}]
        /\ startedBy' \in [Chains -> Nat]
        /\ final' \in [Chains -> Databases \cup {None}]
    BY <1>1, <1>2 DEF TypeOK
  <2>3. got' = [e \in Chains |-> got'[e]] /\ \A e \in Chains : got'[e] \in Units(request'[e])
    BY <1>1, <1>2 DEF TypeOK
  <2> QED  BY <2>1, <2>2, <2>3 DEF TypeOK
<1>4. ChainsInv'
  <2> SUFFICES ASSUME NEW e \in Chains
               PROVE  ChainInv(db', owner', request'[e], view'[e], cursor'[e], got'[e],
                               status'[e], begun'[e], startedBy'[e], final'[e])
    BY DEF ChainsInv
  <2>1. /\ view \in [Chains -> Databases \cup {None}] /\ cursor \in [Chains -> Cursors \cup {None}]
        /\ got = [i \in Chains |-> got[i]] /\ status \in [Chains -> Statuses]
        /\ begun \in [Chains -> Databases \cup {None}] /\ startedBy \in [Chains -> Nat]
        /\ final \in [Chains -> Databases \cup {None}]
    BY <1>1 DEF TypeOK
  <2>2. CASE e = c
    <3>1. /\ view'[e] = v /\ cursor'[e] = k /\ got'[e] = g /\ status'[e] = st
          /\ begun'[e] = b /\ startedBy'[e] = sb /\ final'[e] = f
          /\ request'[e] = request[c]
      BY <2>1, <2>2
    <3> QED  BY <3>1
  <2>3. CASE e # c
    <3>1. /\ view'[e] = view[e] /\ cursor'[e] = cursor[e] /\ got'[e] = got[e]
          /\ status'[e] = status[e] /\ begun'[e] = begun[e] /\ startedBy'[e] = startedBy[e]
          /\ final'[e] = final[e] /\ request'[e] = request[e]
      BY <2>1, <2>3
    <3> QED  BY <3>1, <1>1 DEF ChainsInv
  <2> QED  BY <2>2, <2>3
<1> QED  BY <1>3, <1>4 DEF IInv

LEMMA InitIInv == Init => IInv
<1> SUFFICES ASSUME Init
             PROVE  IInv
  OBVIOUS
<1>1. TypeOK
  <2>1. [s \in Sources |-> [revision |-> 0, publication |-> Nothing]] \in Databases
    <3>1. 0 \in 0 .. MaxRevision
      BY ConstantsAssumption
    <3>2. Nothing \in Actives
      BY DEF Actives
    <3> QED  BY <3>1, <3>2 DEF Databases
  <2>2. << >> \in Seq(Nat) /\ << >> \in Seq(Items)
    BY EmptySeq
  <2>3. \A c \in Chains : got[c] \in Units(request[c])
    BY <2>2 DEF Init, Units
  <2> QED  BY <2>1, <2>3 DEF Init, TypeOK, Statuses
<1>2. ChainsInv
  BY DEF Init, ChainsInv, ChainInv, Served
<1> QED  BY <1>1, <1>2 DEF IInv

\* The steps of the writer and of the owner.
LEMMA PublishStep ==
    ASSUME IInv, NEW s \in Sources, NEW p \in Publications[s], Publish(s, p)
    PROVE  IInv'
<1>1. TypeOK /\ ChainsInv
  BY DEF IInv
<1>2. db \in Databases /\ db[s].revision \in 0 .. MaxRevision /\ MaxRevision \in Nat
  BY <1>1, ConstantsAssumption DEF TypeOK, Databases
<1>3. db' \in Databases
  <2>1. p \in Actives
    <3>1. Publications[s] \subseteq Actives
      BY DEF Actives
    <3> QED  BY <3>1
  <2>2. db[s].revision + 1 \in 0 .. MaxRevision
    BY <1>2 DEF Publish
  <2> QED  BY <1>2, <2>1, <2>2 DEF Publish, Databases
<1>4. Older(db, db')
  <2> SUFFICES ASSUME NEW u \in Sources
               PROVE  /\ db[u].revision <= db'[u].revision
                      /\ db[u].revision = db'[u].revision => db[u] = db'[u]
    BY DEF Older
  <2>1. db[u].revision \in Nat
    BY <1>2 DEF Databases
  <2>2. CASE u = s
    <3>1. db'[u].revision = db[u].revision + 1
      BY <1>2, <2>2 DEF Publish, Databases
    <3> QED  BY <2>1, <3>1
  <2>3. CASE u # s
    <3>1. db'[u] = db[u]
      BY <1>2, <2>3 DEF Publish, Databases
    <3> QED  BY <2>1, <3>1
  <2> QED  BY <2>2, <2>3
<1>5. TypeOK'
  BY <1>1, <1>3 DEF Publish, TypeOK
<1>6. ChainsInv'
  <2> SUFFICES ASSUME NEW c \in Chains
               PROVE  ChainInv(db', owner, request[c], view[c], cursor[c], got[c], status[c],
                               begun[c], startedBy[c], final[c])
    BY DEF Publish, ChainsInv
  <2>1. ChainInv(db, owner, request[c], view[c], cursor[c], got[c], status[c], begun[c],
                 startedBy[c], final[c])
    BY <1>1 DEF ChainsInv
  <2>2. owner \in Nat /\ owner <= owner
    BY <1>1 DEF TypeOK
  <2>3. ChainType(request[c], view[c], cursor[c], got[c], status[c], begun[c], startedBy[c], final[c])
    BY <1>1, ChainTyped
  <2> QED  BY <1>2, <1>3, <1>4, <2>1, <2>2, <2>3, OwnerAdvances
<1> QED  BY <1>5, <1>6 DEF IInv

LEMMA RestartStep ==
    ASSUME IInv, RestartOwner
    PROVE  IInv'
<1>1. TypeOK /\ ChainsInv
  BY DEF IInv
<1>2. TypeOK'
  BY <1>1 DEF RestartOwner, TypeOK
<1>3. Older(db, db) /\ db \in Databases
  BY <1>1, ConstantsAssumption DEF TypeOK, Older, Databases
<1>4. ChainsInv'
  <2> SUFFICES ASSUME NEW c \in Chains
               PROVE  ChainInv(db, owner', request[c], None, cursor[c], got[c], status[c],
                               begun[c], startedBy[c], final[c])
    BY DEF RestartOwner, ChainsInv
  <2>1. ChainInv(db, owner, request[c], view[c], cursor[c], got[c], status[c], begun[c],
                 startedBy[c], final[c])
    BY <1>1 DEF ChainsInv
  <2>2. owner \in Nat /\ owner' \in Nat /\ owner <= owner'
    BY <1>1 DEF TypeOK, RestartOwner
  <2>3. ChainType(request[c], view[c], cursor[c], got[c], status[c], begun[c], startedBy[c], final[c])
    BY <1>1, ChainTyped
  <2> QED  BY <1>3, <2>1, <2>2, <2>3, OwnerAdvances
<1> QED  BY <1>2, <1>4 DEF IInv

\* The steps of one chain.
LEMMA LoseStep ==
    ASSUME IInv, NEW c \in Chains, LoseAnswer(c)
    PROVE  IInv'
<1>1. TypeOK /\ ChainsInv
  BY DEF IInv
<1>2. ChainType(request[c], view[c], cursor[c], got[c], status[c], begun[c], startedBy[c], final[c])
  BY <1>1, ChainTyped
<1>3. ChainInv(db, owner, request[c], view[c], cursor[c], got[c], status[c], begun[c],
               startedBy[c], final[c])
  BY <1>1 DEF ChainsInv
<1>4. ChainType(request[c], None, cursor[c], got[c], status[c], begun[c], startedBy[c], final[c])
  BY <1>2 DEF ChainType
<1>5. ChainInv(db, owner, request[c], None, cursor[c], got[c], status[c], begun[c],
               startedBy[c], final[c])
  BY <1>3 DEF ChainInv
<1>6. /\ view' = [view EXCEPT ![c] = None] /\ cursor' = [cursor EXCEPT ![c] = cursor[c]]
      /\ got' = [got EXCEPT ![c] = got[c]] /\ status' = [status EXCEPT ![c] = status[c]]
      /\ begun' = [begun EXCEPT ![c] = begun[c]]
      /\ startedBy' = [startedBy EXCEPT ![c] = startedBy[c]]
      /\ final' = [final EXCEPT ![c] = final[c]]
  BY <1>1 DEF LoseAnswer, TypeOK
<1>7. UNCHANGED <<db, owner, request>> /\ lost' \in Nat
  BY <1>1 DEF LoseAnswer, TypeOK
<1> QED  BY <1>4, <1>5, <1>6, <1>7, OneChain

LEMMA ValidateStep ==
    ASSUME IInv, NEW c \in Chains, Validate(c)
    PROVE  IInv'
<1> DEFINE r == request[c]
           k == cursor[c]
           g == got[c]
           b == begun[c]
           sb == startedBy[c]
<1>1. TypeOK /\ ChainsInv
  BY DEF IInv
<1>2. status[c] = "open" /\ view[c] = None /\ final[c] = None
  <2>1. ChainInv(db, owner, r, view[c], k, g, status[c], b, sb, final[c])
    BY <1>1 DEF ChainsInv
  <2> QED  BY <2>1 DEF Validate, ChainInv
<1>3. /\ ChainType(r, None, k, g, "open", b, sb, None)
      /\ ChainInv(db, owner, r, None, k, g, "open", b, sb, None)
  BY <1>1, <1>2, ChainTyped DEF ChainsInv
<1>4. db \in Databases /\ owner \in Nat
  BY <1>1 DEF TypeOK
<1>5. /\ Verdict(c) = "none" => ChainInv(db, owner, r, db, k, g, "open", b, sb, None)
      /\ Verdict(c) # "none" => /\ ChainInv(db, owner, r, None, k, g, Verdict(c), b, sb, db)
                                /\ Verdict(c) \in Statuses
  <2>1. Refusal(c) = IF k = None THEN "none"
                     ELSE IF k.epoch # owner THEN "owner_restarted"
                     ELSE IF k.fingerprint # Fingerprint(db) THEN "active_set_changed"
                     ELSE "none"
    BY DEF Refusal
  <2>2. Verdict(c) = IF AuthorityProblem(db, r) # "none" THEN AuthorityProblem(db, r)
                     ELSE Refusal(c)
    BY DEF Verdict
  <2> HIDE DEF r, k, g, b, sb
  <2> QED  BY <1>3, <1>4, <2>1, <2>2, ValidateInv
<1>6. /\ UNCHANGED <<db, owner, request>> /\ lost' \in Nat
      /\ cursor' = [cursor EXCEPT ![c] = k] /\ got' = [got EXCEPT ![c] = g]
      /\ begun' = [begun EXCEPT ![c] = b] /\ startedBy' = [startedBy EXCEPT ![c] = sb]
  BY <1>1 DEF Validate, TypeOK
<1>7. CASE Verdict(c) = "none"
  <2>1. /\ view' = [view EXCEPT ![c] = db] /\ status' = [status EXCEPT ![c] = "open"]
        /\ final' = [final EXCEPT ![c] = None]
    BY <1>1, <1>2, <1>7 DEF Validate, TypeOK
  <2>2. ChainType(r, db, k, g, "open", b, sb, None)
    BY <1>3, <1>4 DEF ChainType
  <2> QED  BY <1>5, <1>6, <1>7, <2>1, <2>2, OneChain
<1>8. CASE Verdict(c) # "none"
  <2>1. /\ view' = [view EXCEPT ![c] = None] /\ status' = [status EXCEPT ![c] = Verdict(c)]
        /\ final' = [final EXCEPT ![c] = db]
    BY <1>1, <1>2, <1>8 DEF Validate, End, TypeOK
  <2>2. ChainType(r, None, k, g, Verdict(c), b, sb, db)
    BY <1>3, <1>4, <1>5, <1>8 DEF ChainType
  <2> QED  BY <1>5, <1>6, <1>8, <2>1, <2>2, OneChain
<1> QED  BY <1>7, <1>8

LEMMA SelectStep ==
    ASSUME IInv, NEW c \in Chains, Select(c)
    PROVE  IInv'
<1> DEFINE v == view[c]
           r == request[c]
           position == Position(c)
           problem == Problem(v, r, position, PageRows(v, r, position))
           first == IF cursor[c] = None THEN v ELSE begun[c]
           starter == IF cursor[c] = None THEN owner ELSE startedBy[c]
<1>1. TypeOK /\ ChainsInv
  BY DEF IInv
<1>2. /\ ChainType(r, v, cursor[c], got[c], status[c], begun[c], startedBy[c], final[c])
      /\ ChainInv(db, owner, r, v, cursor[c], got[c], status[c], begun[c], startedBy[c], final[c])
  BY <1>1, ChainTyped DEF ChainsInv
<1>3. /\ v # None /\ db \in Databases /\ owner \in Nat
      /\ position = IF cursor[c] = None THEN 0 ELSE cursor[c].position
  BY <1>1 DEF Select, TypeOK, Position
<1>4. /\ UNCHANGED <<db, owner, request>> /\ lost' \in Nat
      /\ view' = [view EXCEPT ![c] = None]
      /\ startedBy' = [startedBy EXCEPT ![c] = starter]
      /\ begun' = [begun EXCEPT ![c] = first]
  BY <1>1 DEF Select, SnapshotOf, TypeOK
<1>5. CASE problem = "none"
  <2> DEFINE n == Returned(v, r, position, PageRows(v, r, position))
             from == Before(v, r, position)
             more == More(v, r, from, n)
             next == [epoch |-> owner, fingerprint |-> Fingerprint(v),
                      position |-> PositionAfter(v, r, from + n)]
             k2 == IF more THEN next ELSE None
             g2 == got[c] \o SubSeq(Pool(v, r), from + 1, from + n)
             st2 == IF more THEN "open" ELSE EndsAs(v, r)
             f2 == IF more THEN None ELSE v
  <2>1. /\ ChainInv(db, owner, r, None, k2, g2, st2, first, starter, f2)
        /\ ChainType(r, None, k2, g2, st2, first, starter, f2)
    BY <1>2, <1>3, <1>5, DeliverInv
  <2>2. Deliver(c, v, from, n)
    BY <1>5 DEF Select, SnapshotOf
  <2>3. /\ got' = [got EXCEPT ![c] = g2] /\ cursor' = [cursor EXCEPT ![c] = k2]
    BY <2>2 DEF Deliver, NextCursor
  <2>4. status[c] = "open" /\ final[c] = None
    BY <1>2, <1>3 DEF ChainInv
  <2>5. /\ status' = [status EXCEPT ![c] = st2] /\ final' = [final EXCEPT ![c] = f2]
    <3> HIDE DEF n, from
    <3>1. IF more THEN UNCHANGED <<status, final>> ELSE End(c, EndsAs(v, r), v)
      BY <2>2 DEF Deliver
    <3>2. CASE more
      BY <1>1, <2>4, <3>1, <3>2 DEF TypeOK
    <3>3. CASE ~more
      BY <3>1, <3>3 DEF End
    <3> QED  BY <3>2, <3>3
  <2> HIDE DEF k2, g2, st2, f2, first, starter
  <2> QED  BY <1>4, <2>1, <2>3, <2>5, OneChain
<1>6. CASE problem # "none"
  <2>1. /\ ChainInv(db, owner, r, None, cursor[c], got[c], problem, first, starter, v)
        /\ ChainType(r, None, cursor[c], got[c], problem, first, starter, v)
    BY <1>2, <1>3, <1>6, RefuseInv
  <2>2. /\ got' = got /\ cursor' = cursor
        /\ status' = [status EXCEPT ![c] = problem] /\ final' = [final EXCEPT ![c] = v]
    BY <1>6 DEF Select, SnapshotOf, End
  <2>3. got' = [got EXCEPT ![c] = got[c]] /\ cursor' = [cursor EXCEPT ![c] = cursor[c]]
    BY <1>1, <2>2 DEF TypeOK
  <2> HIDE DEF problem, first, starter
  <2> QED  BY <1>4, <2>1, <2>2, <2>3, OneChain
<1> QED  BY <1>5, <1>6

LEMMA NextIInv == IInv /\ [Next]_vars => IInv'
<1> SUFFICES ASSUME IInv, [Next]_vars
             PROVE  IInv'
  OBVIOUS
<1>1. CASE \E s \in Sources : \E p \in Publications[s] : Publish(s, p)
  BY <1>1, PublishStep
<1>2. CASE RestartOwner
  BY <1>2, RestartStep
<1>3. CASE \E c \in Chains : LoseAnswer(c) \/ Validate(c) \/ Select(c)
  BY <1>3, LoseStep, ValidateStep, SelectStep
<1>4. CASE UNCHANGED vars
  BY <1>4 DEF vars, IInv, TypeOK, ChainsInv
<1> QED  BY <1>1, <1>2, <1>3, <1>4 DEF Next

LEMMA IInvAlways == Spec => []IInv
<1> QED  BY InitIInv, NextIInv, PTL DEF Spec

-----------------------------------------------------------------------------
(* Theorems.                                                               *)

\* The types of the state, for any texts, requests and budgets.
THEOREM TypeCorrect == Spec => []TypeOK
<1>1. IInv => TypeOK
  BY DEF IInv
<1> QED  BY <1>1, IInvAlways, PTL

\* Pages and chunks add up to one answer, whatever is published, restarted or
\* lost in between, and whatever the texts and the budgets.
THEOREM PagesAgree == Spec => []PagesAreOneAnswer
<1>1. IInv => PagesAreOneAnswer
  <2> SUFFICES ASSUME IInv, NEW c \in Chains, begun[c] # None, Found(begun[c], request[c])
               PROVE  LET whole == Pool(begun[c], request[c])
                      IN  /\ Len(got[c]) <= Len(whole)
                          /\ got[c] = First(Len(got[c]), whole)
                          /\ status[c] \in {"complete", "capped"} => got[c] = whole
    BY DEF PagesAreOneAnswer
  <2>1. Answered(begun[c], request[c], got[c], status[c])
    BY DEF IInv, ChainsInv, ChainInv
  <2> QED  BY <2>1 DEF Answered, Prefix
<1> QED  BY <1>1, IInvAlways, PTL

\* A client told "complete" holds all that its request selects.
THEOREM CompleteAnswers == Spec => []CompleteIsExhaustive
<1>1. IInv => CompleteIsExhaustive
  <2> SUFFICES ASSUME IInv, NEW c \in Chains
               PROVE  /\ status[c] = "complete" => got[c] = Eligible(begun[c], request[c])
                      /\ status[c] = "capped" => request[c].tool = "search"
    BY DEF CompleteIsExhaustive
  <2>1. ASSUME status[c] \in {"complete", "capped"}
        PROVE  /\ begun[c] \in Databases /\ request[c] \in Requests
               /\ Answered(begun[c], request[c], got[c], status[c])
    BY <2>1 DEF IInv, TypeOK, ChainsInv, ChainInv, Served
  <2>2. ASSUME status[c] = "complete"
        PROVE  got[c] = Eligible(begun[c], request[c])
    BY <2>1, <2>2, PoolType DEF Answered
  <2>3. ASSUME status[c] = "capped"
        PROVE  request[c].tool = "search"
    BY <2>1, <2>3 DEF Answered, Discarded
  <2> QED  BY <2>2, <2>3
<1> QED  BY <1>1, IInvAlways, PTL

\* A chain is given up for the reason the client is given, and one that was
\* served never fails for its active set while that set lasts.
THEOREM ExpiryHasCause == Spec => []ExpiredForCause
<1>1. IInv => ExpiredForCause
  <2> SUFFICES ASSUME IInv, NEW c \in Chains
               PROVE  LET Changed == Fingerprint(begun[c]) # Fingerprint(final[c])
                      IN  /\ status[c] = "owner_restarted" => startedBy[c] < owner
                          /\ status[c] = "active_set_changed" => Changed
                          /\ status[c] = "evidence_not_found" /\ got[c] # << >> =>
                                request[c].tool = "source_search" /\ ~Trusted(final[c]) /\ Changed
                          /\ begun[c] # None /\ final[c] # None =>
                                AuthorityProblem(final[c], request[c]) = "none" \/ Changed
    BY DEF ExpiredForCause
  <2> DEFINE b == begun[c]
             f == final[c]
             r == request[c]
             st == status[c]
  <2>1. /\ ChainInv(db, owner, r, view[c], cursor[c], got[c], st, b, startedBy[c], f)
        /\ b \in Databases \cup {None} /\ f \in Databases \cup {None}
    BY DEF IInv, TypeOK, ChainsInv
  <2> HIDE DEF b, f, r, st
  <2>2. ASSUME st = "active_set_changed"
        PROVE  Fingerprint(b) # Fingerprint(f)
    <3>1. b \in Databases /\ f \in Databases
      BY <2>1, <2>2 DEF ChainInv, Served
    <3>2. PICK s \in Sources : b[s].revision < f[s].revision
      BY <2>1, <2>2 DEF ChainInv
    <3>3. /\ b[s].revision \in Nat /\ f[s].revision \in Nat
          /\ Fingerprint(b)[s] = b[s].revision /\ Fingerprint(f)[s] = f[s].revision
      BY <3>1, ConstantsAssumption DEF Databases, Fingerprint
    <3> QED  BY <3>2, <3>3
  <2>3. ASSUME b # None, f # None, ~Accepted(f, r)
        PROVE  Fingerprint(b) # Fingerprint(f)
    <3>1. Older(b, f) /\ Accepted(b, r) /\ b \in Databases /\ f \in Databases
      BY <2>1, <2>3 DEF ChainInv
    <3> QED  BY <2>3, <3>1, SameFingerprint
  <2>4. ASSUME st = "evidence_not_found", got[c] # << >>
        PROVE  r.tool = "source_search" /\ ~Trusted(f) /\ Fingerprint(b) # Fingerprint(f)
    <3>1. b # None /\ f # None /\ RefusedFor(f, r, got[c], st)
      BY <2>1, <2>4 DEF ChainInv
    <3>2. ~Accepted(f, r) /\ st = AuthorityProblem(f, r)
      BY <2>4, <3>1 DEF RefusedFor
    <3>3. r.tool = "source_search" /\ ~Trusted(f)
      BY <2>4, <3>2 DEF AuthorityProblem, UntrustedProblem
    <3> QED  BY <2>3, <3>1, <3>2, <3>3
  <2>5. st = "owner_restarted" => startedBy[c] < owner
    BY <2>1 DEF ChainInv
  <2> QED  BY <2>2, <2>3, <2>4, <2>5 DEF b, f, r, st, Accepted
<1> QED  BY <1>1, IInvAlways, PTL

\* A page is refused only when the tool has no page to return, or when the active
\* set is not one it accepts.
THEOREM RefusalsAreForced == Spec => []RefusedOnlyIfItMust
<1>1. IInv => RefusedOnlyIfItMust
  <2> SUFFICES ASSUME IInv, NEW c \in Chains, final[c] # None
               PROVE  LET d == final[c]
                          r == request[c]
                          rows == Candidates(d, r, Len(got[c]))
                      IN  /\ status[c] = "internal_error" =>
                                ~Trusted(d) \/ (r.tool = "search" /\ Oversized(d, r, rows))
                          /\ status[c] = "response_too_large" =>
                                \/ Discovers(r) /\ LongLabels(d)
                                \/ r.tool = "read" /\ Size(Pool(d, r)) > MaxPageText
                                \/ /\ r.tool # "read"
                                   /\ \/ LongMode(d, r, rows)
                                      \/ Oversized(d, r, rows)
                                      \/ TooLarge(d, r, rows)
                          /\ status[c] \in Problems /\ r.tool = "read" /\ got[c] # << >> =>
                                Fingerprint(begun[c]) # Fingerprint(d)
    BY DEF RefusedOnlyIfItMust
  <2> DEFINE b == begun[c]
             d == final[c]
             r == request[c]
             g == got[c]
             st == status[c]
  <2>1. /\ ChainInv(db, owner, r, view[c], cursor[c], g, st, b, startedBy[c], d)
        /\ b \in Databases \cup {None} /\ d \in Databases
    BY DEF IInv, TypeOK, ChainsInv
  <2>2. RefusedFor(d, r, g, st)
    BY <2>1 DEF ChainInv
  <2> HIDE DEF b, d, r, g, st
  <2>3. ASSUME ~Accepted(d, r)
        PROVE  /\ st = "internal_error" => ~Trusted(d)
               /\ st = "response_too_large" => Discovers(r) /\ LongLabels(d)
    <3>1. st = AuthorityProblem(d, r)
      BY <2>2, <2>3 DEF RefusedFor
    <3> QED  BY <3>1 DEF AuthorityProblem, UntrustedProblem
  <2>4. ASSUME st \in Problems, r.tool = "read", g # << >>
        PROVE  Fingerprint(b) # Fingerprint(d)
    <3>1. ~Accepted(d, r)
      BY <2>2, <2>4 DEF RefusedFor
    <3>2. b \in Databases /\ Older(b, d) /\ Accepted(b, r)
      BY <2>1, <2>4 DEF ChainInv, b, d
    <3> QED  BY <2>1, <3>1, <3>2, SameFingerprint
  <2> QED  BY <2>2, <2>3, <2>4 DEF RefusedFor, b, d, r, g, st
<1> QED  BY <1>1, IInvAlways, PTL

-----------------------------------------------------------------------------
(* Progress.  A chain ends because every answer that leaves it open hands   *)
(* out a unit more of a finite answer.                                      *)

\* What ChainEnds needs besides fairness: read_utf8_chunk never stops short of
\* the next code point, a page never comes back empty with a cursor, and a
\* cursor is given only while something is left.
EveryCallAdvances ==
    [][\A c \in Chains : Select(c) /\ status'[c] = "open" =>
          /\ Len(got[c]) < Len(got'[c])
          /\ Len(got'[c]) < Len(Pool(begun'[c], request[c]))]_vars

\* A chunk of at least four bytes holds at least one code point.
LEMMA ChunkAdvances ==
    ASSUME NEW t \in Texts, NEW n \in 0 .. Len(t), n < Len(t), NEW size \in Nat, size >= 4
    PROVE  ChunkLength(t, IF n = 0 THEN 0 ELSE t[n], size) # 0
<1> DEFINE offset == IF n = 0 THEN 0 ELSE t[n]
           S == {k \in DOMAIN t : offset < t[k] /\ t[k] <= offset + size}
<1>1. /\ Len(t) \in Nat \ {0} /\ DOMAIN t = 1 .. Len(t)
      /\ \A i \in 1 .. Len(t) : t[i] \in Nat \ {0}
      /\ \A i, j \in 1 .. Len(t) : i < j => t[i] < t[j]
  BY TextShape
<1>2. /\ t[1] <= 4
      /\ \A i \in DOMAIN t : i + 1 \in DOMAIN t => t[i + 1] <= t[i] + 4
  BY ConstantsAssumption
<1>3. n + 1 \in 1 .. Len(t)
  BY <1>1
<1>4. n + 1 \in S
  <2>1. CASE n = 0
    BY <2>1, <1>1, <1>2, <1>3
  <2>2. CASE n # 0
    <3>1. n \in 1 .. Len(t) /\ offset = t[n] /\ n < n + 1
      BY <2>2, <1>1
    <3>2. t[n] < t[n + 1] /\ t[n + 1] <= t[n] + 4
      BY <3>1, <1>1, <1>2, <1>3
    <3>3. t[n] \in Nat /\ t[n + 1] \in Nat
      BY <3>1, <1>1, <1>3
    <3> QED  BY <3>1, <3>2, <3>3, <1>1, <1>3
  <2> QED  BY <2>1, <2>2
<1>5. S \in SUBSET ((0 + 1) .. Len(t))
  BY <1>1
<1>6. Cardinality(S) # 0
  <2>1. 0 \in Nat /\ Len(t) \in Nat /\ 0 <= Len(t)
    BY <1>1
  <2> HIDE DEF S
  <2> QED  BY <2>1, <1>4, <1>5, CardinalityBound
<1> QED  BY <1>6 DEF ChunkLength

\* A call without a problem returns something as long as something is left.
LEMMA PageAdvances ==
    ASSUME NEW d \in Databases, NEW r \in Requests,
           NEW from \in 0 .. Len(Pool(d, r)), from < Len(Pool(d, r)),
           NEW position, position = PositionAfter(d, r, from),
           Problem(d, r, position, PageRows(d, r, position)) = "none"
    PROVE  Returned(d, r, position, PageRows(d, r, position)) # 0
<1> DEFINE pool == Pool(d, r)
<1>1. Found(d, r)
  BY DEF Problem
<1>2. Len(pool) \in Nat /\ r.size \in Nat \ {0}
  BY <1>1, PoolType, ConstantsAssumption DEF RequestType
<1>3. CASE r.tool = "read"
  <2>1. pool \in Texts /\ r.size >= 4
    BY <1>1, <1>3, PoolType, ConstantsAssumption
  <2>2. position = IF from = 0 THEN 0 ELSE pool[from]
    BY <1>3 DEF PositionAfter
  <2>3. ChunkLength(pool, position, r.size) # 0
    BY <1>2, <2>1, <2>2, ChunkAdvances
  <2> QED  BY <1>3, <2>3 DEF Returned
<1>4. CASE r.tool # "read"
  <2> DEFINE rows == Candidates(d, r, from)
  <2>1. PageRows(d, r, position) = rows
    BY <1>1, <1>4 DEF PageRows, PositionAfter
  <2>2. Len(rows) = SmallerOf(r.size, Len(pool) - from)
    BY <1>1, <1>4, RowsFetched
  <2>3. Len(rows) # 0
    <3> HIDE DEF rows, pool
    <3>1. from < Len(pool) /\ from \in Nat
      BY DEF pool
    <3> QED  BY <1>2, <2>2, <3>1 DEF SmallerOf
  <2>4. rows # << >>
    BY <2>3
  <2>5. PageLength(d, r, rows) # 0
    <3> HIDE DEF rows
    <3> QED  BY <1>1, <1>4, <2>1, <2>4 DEF Problem, OversizedProblem
  <2> QED  BY <1>4, <2>1, <2>5 DEF Returned
<1> QED  BY <1>3, <1>4

\* The step of one chain.
LEMMA SelectAdvances ==
    ASSUME IInv, NEW c \in Chains, Select(c), status'[c] = "open"
    PROVE  /\ Len(got[c]) < Len(got'[c])
           /\ Len(got'[c]) < Len(Pool(begun'[c], request[c]))
<1> DEFINE v == view[c]
           r == request[c]
           g == got[c]
           position == Position(c)
           problem == Problem(v, r, position, PageRows(v, r, position))
           n == Returned(v, r, position, PageRows(v, r, position))
           from == Before(v, r, position)
<1>1. TypeOK /\ ChainsInv
  BY DEF IInv
<1>2. /\ ChainType(r, v, cursor[c], g, status[c], begun[c], startedBy[c], final[c])
      /\ ChainInv(db, owner, r, v, cursor[c], g, status[c], begun[c], startedBy[c], final[c])
  BY <1>1, ChainTyped DEF ChainsInv
<1>3. /\ v # None /\ db \in Databases /\ owner \in Nat
      /\ position = IF cursor[c] = None THEN 0 ELSE cursor[c].position
  BY <1>1 DEF Select, TypeOK, Position
<1>4. /\ v \in Databases /\ v = (IF cursor[c] = None THEN v ELSE begun[c])
      /\ Len(g) \in Nat /\ position = PositionAfter(v, r, Len(g))
      /\ Found(v, r) => Prefix(v, r, g)
  BY <1>2, <1>3, Resumes
<1>5. begun'[c] = v
  <2>1. begun' = [begun EXCEPT ![c] = IF cursor[c] = None THEN v ELSE begun[c]]
    BY DEF Select, SnapshotOf
  <2> QED  BY <1>1, <1>4, <2>1 DEF TypeOK
<1>6. problem = "none"
  <2> SUFFICES ASSUME problem # "none"
               PROVE  FALSE
    OBVIOUS
  <2>1. status' = [status EXCEPT ![c] = problem]
    BY DEF Select, SnapshotOf, End
  <2>2. status'[c] = problem
    BY <1>1, <2>1 DEF TypeOK
  <2>3. problem # "open"
    BY DEF Problem, ReadProblem, OversizedProblem
  <2> QED  BY <2>2, <2>3
<1>7. r \in Requests /\ Found(v, r)
  BY <1>2, <1>6 DEF ChainType, Problem
<1>8. Len(Pool(v, r)) \in Nat /\ Len(g) \in 0 .. Len(Pool(v, r)) /\ Prefix(v, r, g)
  BY <1>4, <1>7, PoolType DEF Prefix
<1>9. /\ from = Len(g) /\ n \in 0 .. (Len(Pool(v, r)) - Len(g))
      /\ More(v, r, Len(g), n) <=> Len(g) + n < Len(Pool(v, r))
  <2>1. /\ Before(v, r, position) = Len(g)
        /\ n \in 0 .. (Len(Pool(v, r)) - Len(g))
        /\ More(v, r, Len(g), n) <=> Len(g) + n < Len(Pool(v, r))
    BY <1>4, <1>7, <1>8, ReturnedFits
  <2> QED  BY <2>1
<1>10. Deliver(c, v, from, n)
  BY <1>6 DEF Select, SnapshotOf
<1>11. /\ More(v, r, from, n)
       /\ got'[c] = g \o SubSeq(Pool(v, r), from + 1, from + n)
  <2> HIDE DEF n, from
  <2>1. /\ got' = [got EXCEPT ![c] = g \o SubSeq(Pool(v, r), from + 1, from + n)]
        /\ ~More(v, r, from, n) => status' = [status EXCEPT ![c] = EndsAs(v, r)]
    BY <1>10 DEF Deliver, End
  <2>2. ~More(v, r, from, n) => status'[c] = EndsAs(v, r)
    BY <1>1, <2>1 DEF TypeOK
  <2>3. EndsAs(v, r) # "open"
    BY DEF EndsAs
  <2>4. c \in DOMAIN got
    BY <1>1 DEF TypeOK
  <2> QED  BY <2>1, <2>2, <2>3, <2>4
<1>12. Len(g) + n < Len(Pool(v, r))
  BY <1>9, <1>11
<1>13. n # 0
  <2>1. Len(g) < Len(Pool(v, r))
    <3> HIDE DEF n
    <3> QED  BY <1>8, <1>9, <1>12
  <2> QED  BY <1>4, <1>6, <1>7, <1>8, <2>1, PageAdvances
<1>14. Len(got'[c]) = Len(g) + n
  <2> HIDE DEF n, from
  <2>1. LET longer == g \o SubSeq(Pool(v, r), Len(g) + 1, Len(g) + n)
        IN  /\ longer \in Units(r)
            /\ Len(longer) = Len(g) + n
            /\ Prefix(v, r, longer)
            /\ Len(g) + n = Len(Pool(v, r)) => longer = Pool(v, r)
    BY <1>4, <1>7, <1>8, <1>9, Continued
  <2> QED  BY <1>9, <1>11, <2>1
<1> HIDE DEF n, from
<1>15. Len(g) < Len(g) + n
  BY <1>8, <1>9, <1>13
<1> QED  BY <1>5, <1>12, <1>14, <1>15

\* No answer leaves a chain open without a unit more of its answer, and so no
\* chain is longer than the answer has units.
THEOREM CallsAdvance == Spec => EveryCallAdvances
<1>1. IInv /\ [Next]_vars =>
         [\A c \in Chains : Select(c) /\ status'[c] = "open" =>
             /\ Len(got[c]) < Len(got'[c])
             /\ Len(got'[c]) < Len(Pool(begun'[c], request[c]))]_vars
  BY SelectAdvances
<1> QED  BY <1>1, IInvAlways, PTL DEF Spec, EveryCallAdvances

=============================================================================
