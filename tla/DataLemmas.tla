----------------------------- MODULE DataLemmas -----------------------------
(***************************************************************************)
(* Facts about data that the proofs about several modules share: the least *)
(* of a set of numbers, sequences that change or grow, what ORDER BY ...   *)
(* LIMIT selects, and what the refinements show of a log.                  *)
(***************************************************************************)
EXTENDS Naturals, Sequences, FiniteSets, FiniteSetTheorems, SequenceTheorems,
        WellFoundedInduction, TLAPS

\* Every set of natural numbers that is not empty has a least one.
LEMMA LeastNatural ==
    ASSUME NEW ms \in SUBSET Nat, ms # {}
    PROVE  \E least \in ms : \A m \in ms : least <= m
<1>1. PICK R : R = OpToRel(<, Nat)
  OBVIOUS
<1>2. IsWellFoundedOn(R, Nat)
  BY <1>1, NatLessThanWellFounded
<1>3. PICK least \in ms : \A m \in ms : ~ (<<m, least>> \in R)
  BY <1>2, WFMin
<1>4. \A m, n \in Nat : m < n => <<m, n>> \in R
  BY <1>1 DEF OpToRel
<1>5. \A m \in ms : m \in Nat /\ ~ (m < least)
  BY <1>3, <1>4
<1> QED
  BY <1>5

\* An entry of a sequence is replaced.
LEMMA Replaced ==
    ASSUME NEW S, NEW seq \in Seq(S), NEW t \in 1..Len(seq), NEW new \in S
    PROVE  LET other == [seq EXCEPT ![t] = new]
           IN  /\ other \in Seq(S) /\ Len(other) = Len(seq)
               /\ other[t] = new /\ \A k \in 1..Len(seq) \ {t} : other[k] = seq[k]
<1>1. DOMAIN seq = 1..Len(seq)
  BY LenProperties
<1> QED
  BY <1>1, ExceptSeq

\* An entry is added to a sequence.
LEMMA Added ==
    ASSUME NEW S, NEW seq \in Seq(S), NEW new \in S
    PROVE  LET longer == Append(seq, new)
           IN  /\ longer \in Seq(S) /\ Len(seq) \in Nat /\ Len(longer) = Len(seq) + 1
               /\ longer[Len(seq) + 1] = new /\ \A k \in 1..Len(seq) : longer[k] = seq[k]
OBVIOUS

\* SELECT ... LIMIT n with a positive n finds a message if there is one.
LEMMA PrefixIsThere ==
    ASSUME NEW ms \in SUBSET Nat, ms # {}, NEW n \in Nat \ {0}
    PROVE  \E m \in ms : Cardinality({j \in ms : j <= m}) <= n
<1>1. PICK least \in ms : \A m \in ms : least <= m
  BY LeastNatural
<1>2. {j \in ms : j <= least} = {least}
  <2>1. \A j \in ms : j <= least => j = least
    BY <1>1
  <2>2. least <= least
    BY <1>1
  <2> QED
    BY <2>1, <2>2
<1>3. Cardinality({least}) = 1
  BY FS_Singleton
<1> QED
  BY <1>2, <1>3

\* SELECT ... LIMIT n takes a prefix: what it leaves is younger.
LEMMA PrefixIsOlder ==
    ASSUME NEW b \in Nat, NEW ms \in SUBSET (1..b), NEW n \in Nat,
           NEW m \in ms, Cardinality({j \in ms : j <= m}) <= n,
           NEW k \in ms, ~ (Cardinality({j \in ms : j <= k}) <= n)
    PROVE  m < k
<1> SUFFICES ASSUME k <= m
             PROVE  FALSE
  OBVIOUS
<1> DEFINE UpTo(x) == {j \in ms : j <= x}
<1>1. IsFiniteSet(UpTo(m))
  <2>1. IsFiniteSet(1..b)
    BY FS_Interval
  <2> QED
    BY <2>1, FS_Subset
<1>2. UpTo(k) \in SUBSET UpTo(m)
  <2>1. ASSUME NEW j \in ms, j <= k
        PROVE  j <= m
    <3>1. j \in Int /\ k \in Int /\ m \in Int
      OBVIOUS
    <3> QED
      BY <2>1, <3>1
  <2> QED
    BY <2>1
<1>3. Cardinality(UpTo(k)) <= Cardinality(UpTo(m)) /\ Cardinality(UpTo(k)) \in Nat
  BY <1>1, <1>2, FS_Subset, FS_CardinalityType
<1>4. Cardinality(UpTo(m)) <= n /\ Cardinality(UpTo(m)) \in Nat
  BY <1>1, FS_CardinalityType
<1> QED
  BY <1>3, <1>4

\* The recipients of the rows in order: what the refinements show as posted.
LEMMA RecipientsAre ==
    ASSUME NEW People, NEW Rows, \A r \in Rows : r.recipient \in People, NEW rows \in Seq(Rows)
    PROVE  LET to == [m \in 1..Len(rows) |-> rows[m].recipient]
           IN  to \in Seq(People) /\ Len(to) = Len(rows) /\ Len(rows) \in Nat
<1> DEFINE to == [m \in 1..Len(rows) |-> rows[m].recipient]
<1>1. Len(rows) \in Nat
  BY LenProperties
<1>2. to \in [1..Len(rows) -> People]
  <2>1. ASSUME NEW m \in 1..Len(rows)
        PROVE  rows[m].recipient \in People
    BY ElementOfSeq
  <2> QED
    BY <2>1
<1>3. to \in Seq(People)
  BY <1>1, <1>2, SeqDef
<1>4. Len(to) = Len(rows)
  <2>1. Len(to) \in Nat /\ DOMAIN to = 1..Len(to)
    BY <1>3, LenProperties
  <2>2. DOMAIN to = 1..Len(rows)
    OBVIOUS
  <2> QED
    BY <1>1, <2>1, <2>2
<1> QED
  BY <1>1, <1>3, <1>4

\* A row more is a recipient more.
LEMMA RecipientsGrow ==
    ASSUME NEW People, NEW Rows, \A r \in Rows : r.recipient \in People,
           NEW rows \in Seq(Rows), NEW longer \in Seq(Rows), NEW a \in People,
           Len(longer) = Len(rows) + 1, \A m \in 1..Len(rows) : longer[m] = rows[m],
           longer[Len(rows) + 1].recipient = a
    PROVE  [m \in 1..Len(longer) |-> longer[m].recipient]
             = Append([m \in 1..Len(rows) |-> rows[m].recipient], a)
<1> DEFINE to == [m \in 1..Len(rows) |-> rows[m].recipient]
           new == [m \in 1..Len(longer) |-> longer[m].recipient]
<1>1. /\ to \in Seq(People) /\ Len(to) = Len(rows) /\ Len(rows) \in Nat
      /\ new \in Seq(People) /\ Len(new) = Len(rows) + 1
  BY RecipientsAre
<1>2. (\A m \in 1..Len(rows) : new[m] = to[m]) /\ new[Len(rows) + 1] = a
  BY <1>1
<1> HIDE DEF to, new
<1>3. /\ Append(to, a) \in Seq(People)
      /\ Len(Append(to, a)) = Len(rows) + 1
      /\ \A m \in 1..Len(rows) : Append(to, a)[m] = to[m]
      /\ Append(to, a)[Len(rows) + 1] = a
  BY <1>1
<1>4. \A m \in 1..Len(new) : new[m] = Append(to, a)[m]
  BY <1>1, <1>2, <1>3
<1>5. new = Append(to, a)
  BY <1>1, <1>3, <1>4, SeqEqual
<1> QED
  BY <1>5 DEF to, new
=============================================================================
