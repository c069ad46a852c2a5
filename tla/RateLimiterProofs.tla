-------------------------- MODULE RateLimiterProofs --------------------------
(***************************************************************************)
(* Proofs about RateLimiter.  Every list of hits is in order, so the hits   *)
(* that are in the window are the last ones of their list, and their number *)
(* says which ones.  The argument compares, for every window to come, the   *)
(* number of the hits a limiter has counted with the number of those it has *)
(* let through.                                                             *)
(***************************************************************************)
EXTENDS RateLimiter, DataLemmas

-----------------------------------------------------------------------------
(* The window of a list.                                                   *)

NextAmong(times, t, before, n) ==
    IF times[n] > t - Window THEN Append(before, times[n]) ELSE before

\* What the comprehension has kept after each of the first m hits.
Stages(times, t, m, f) ==
    f = [n \in 0..m |-> IF n = 0 THEN <<>> ELSE NextAmong(times, t, f[n - 1], n)]

\* The stages exist: the least m without them would follow one that has them.
LEMMA StagesExist ==
    ASSUME NEW times, NEW t, NEW last \in Nat
    PROVE  \E f : Stages(times, t, last, f)
<1> DEFINE bad == {m \in 0..last : ~ \E f : Stages(times, t, m, f)}
<1> SUFFICES ASSUME bad # {}
             PROVE  FALSE
  OBVIOUS
<1>1. PICK m \in bad : \A k \in bad : m <= k
  <2>1. bad \in SUBSET Nat
    OBVIOUS
  <2> HIDE DEF bad
  <2> QED
    BY <2>1, LeastNatural
<1>2. m # 0
  <2>1. PICK f : f = [n \in 0..0 |-> <<>>]
    OBVIOUS
  <2>2. Stages(times, t, 0, f)
    <3>1. \A n \in 0..0 : n = 0
      OBVIOUS
    <3>2. [n \in 0..0 |-> IF n = 0 THEN <<>> ELSE NextAmong(times, t, f[n - 1], n)]
            = [n \in 0..0 |-> <<>>]
      BY <3>1
    <3> QED
      BY <2>1, <3>2 DEF Stages
  <2> QED
    BY <2>2
<1>3. m - 1 \in 0..last /\ m \in 1..last /\ m - 1 \notin bad
  BY <1>1, <1>2
<1>4. PICK f : Stages(times, t, m - 1, f)
  BY <1>3
<1>5. PICK g : g = [n \in 0..m |-> IF n = m THEN NextAmong(times, t, f[m - 1], m) ELSE f[n]]
  OBVIOUS
<1>6. \A n \in 0..m : g[n] = IF n = 0 THEN <<>> ELSE NextAmong(times, t, g[n - 1], n)
  <2> SUFFICES ASSUME NEW n \in 0..m
               PROVE  g[n] = IF n = 0 THEN <<>> ELSE NextAmong(times, t, g[n - 1], n)
    OBVIOUS
  <2>1. CASE n = m
    BY <1>3, <1>5, <2>1
  <2>2. CASE n # m
    <3>1. n \in 0..(m - 1) /\ (n # 0 => n - 1 \in 0..(m - 1) /\ n - 1 # m /\ n - 1 \in 0..m)
      BY <1>3, <2>2
    <3>2. f[n] = IF n = 0 THEN <<>> ELSE NextAmong(times, t, f[n - 1], n)
      BY <1>4, <3>1 DEF Stages
    <3> QED
      BY <1>5, <2>2, <3>1, <3>2
  <2> QED
    BY <2>1, <2>2
<1>7. Stages(times, t, m, g)
  <2>1. DOMAIN g = 0..m /\ g = [n \in 0..m |-> g[n]]
    BY <1>5
  <2> QED
    BY <1>6, <2>1 DEF Stages
<1> QED
  BY <1>1, <1>7

\* Fresh is the last stage.
LEMMA FreshIsLast ==
    ASSUME NEW times \in Seq(Int), NEW t
    PROVE  \E f : Stages(times, t, Len(times), f) /\ Fresh(times, t) = f[Len(times)]
<1>1. Len(times) \in Nat
  BY LenProperties
<1>2. \E f : Stages(times, t, Len(times), f)
  BY <1>1, StagesExist
<1>3. Fresh(times, t) = (CHOOSE f : Stages(times, t, Len(times), f))[Len(times)]
  BY DEF Fresh, Stages, NextAmong
<1> QED
  BY <1>2, <1>3

\* Times in order.
Sorted(times) ==
    /\ times \in Seq(Int)
    /\ \A i, j \in 1..Len(times) : i < j => times[i] <= times[j]

\* kept is the end of the first m times, from the first one in the window on.
Ending(kept, times, m, t) ==
    /\ kept \in Seq(Int) /\ Len(kept) \in 0..m
    /\ \A j \in 1..Len(kept) : kept[j] = times[j + (m - Len(kept))] /\ kept[j] > t - Window
    /\ \A i \in 1..(m - Len(kept)) : times[i] <= t - Window

\* One more time.
LEMMA EndingGrows ==
    ASSUME NEW times, Sorted(times), NEW t \in Int, NEW n \in Nat, n + 1 \in 1..Len(times),
           NEW kept, Ending(kept, times, n, t)
    PROVE  Ending(NextAmong(times, t, kept, n + 1), times, n + 1, t)
<1>0. /\ Window \in Int /\ Len(times) \in Nat /\ Len(kept) \in Nat /\ kept \in Seq(Int)
      /\ \A i \in 1..Len(times) : times[i] \in Int
  BY RateAssumption, LenProperties, ElementOfSeq DEF Sorted, Ending
<1>1. CASE times[n + 1] > t - Window
  <2> DEFINE new == Append(kept, times[n + 1])
  <2>1. /\ new \in Seq(Int) /\ Len(new) = Len(kept) + 1
        /\ new[Len(kept) + 1] = times[n + 1] /\ \A k \in 1..Len(kept) : new[k] = kept[k]
    BY <1>0, Added
  <2>2. Len(new) \in 0..(n + 1) /\ (n + 1) - Len(new) = n - Len(kept)
    BY <1>0, <2>1 DEF Ending
  <2>3. ASSUME NEW j \in 1..Len(new)
        PROVE  new[j] = times[j + (n - Len(kept))] /\ new[j] > t - Window
    <3>1. CASE j = Len(kept) + 1
      BY <1>0, <1>1, <2>1, <3>1
    <3>2. CASE j \in 1..Len(kept)
      BY <2>1, <3>2 DEF Ending
    <3> QED
      BY <1>0, <2>1, <3>1, <3>2
  <2>4. NextAmong(times, t, kept, n + 1) = new
    BY <1>1 DEF NextAmong
  <2> HIDE DEF new
  <2> QED
    BY <2>1, <2>2, <2>3, <2>4 DEF Ending
<1>2. CASE ~ (times[n + 1] > t - Window)
  <2>1. NextAmong(times, t, kept, n + 1) = kept
    BY <1>2 DEF NextAmong
  <2>2. \A i \in 1..(n + 1) : times[i] <= t - Window
    <3> SUFFICES ASSUME NEW i \in 1..(n + 1)
                 PROVE  times[i] <= t - Window
      OBVIOUS
    <3>1. i \in 1..Len(times) /\ times[i] \in Int /\ times[n + 1] \in Int
      BY <1>0
    <3>2. times[i] <= times[n + 1]
      <4>1. CASE i = n + 1
        BY <3>1, <4>1
      <4>2. CASE i < n + 1
        BY <3>1, <4>2 DEF Sorted
      <4> QED
        BY <4>1, <4>2
    <3> QED
      BY <1>0, <1>2, <3>1, <3>2
  <2>3. Len(kept) = 0
    <3> SUFFICES ASSUME Len(kept) # 0
                 PROVE  FALSE
      OBVIOUS
    <3>1. 1 \in 1..Len(kept) /\ 1 + (n - Len(kept)) \in 1..(n + 1)
      BY <1>0 DEF Ending
    <3>2. kept[1] = times[1 + (n - Len(kept))] /\ kept[1] > t - Window
      BY <3>1 DEF Ending
    <3>3. times[1 + (n - Len(kept))] <= t - Window /\ times[1 + (n - Len(kept))] \in Int
      BY <1>0, <2>2, <3>1
    <3> QED
      BY <1>0, <3>2, <3>3
  <2>4. kept \in Seq(Int) /\ Len(kept) \in 0..(n + 1) /\ 1..Len(kept) = {}
        /\ (n + 1) - Len(kept) = n + 1
    BY <1>0, <2>3
  <2> QED
    BY <2>1, <2>2, <2>4 DEF Ending
<1> QED
  BY <1>1, <1>2

\* Fresh returns the end of a list in order.  By induction over the list.
LEMMA FreshIs ==
    ASSUME NEW times, Sorted(times), NEW t \in Int
    PROVE  Ending(Fresh(times, t), times, Len(times), t)
<1>1. PICK f : Stages(times, t, Len(times), f) /\ Fresh(times, t) = f[Len(times)]
  BY FreshIsLast DEF Sorted
<1>2. Len(times) \in Nat
  BY LenProperties DEF Sorted
<1> DEFINE bad == {n \in 0..Len(times) : ~ Ending(f[n], times, n, t)}
<1> SUFFICES ASSUME bad # {}
             PROVE  FALSE
  BY <1>1, <1>2
<1>3. PICK n \in bad : \A k \in bad : n <= k
  <2>1. bad \in SUBSET Nat
    OBVIOUS
  <2> HIDE DEF bad
  <2> QED
    BY <2>1, LeastNatural
<1>4. Ending(<<>>, times, 0, t)
  BY DEF Ending
<1>5. n # 0
  BY <1>1, <1>2, <1>3, <1>4 DEF Stages
<1>6. n - 1 \in 0..Len(times) /\ n - 1 \notin bad /\ n - 1 \in Nat /\ n \in 1..Len(times)
      /\ (n - 1) + 1 = n
  BY <1>2, <1>3, <1>5
<1>7. Ending(f[n - 1], times, n - 1, t)
  BY <1>6
<1>8. f[n] = NextAmong(times, t, f[n - 1], n)
  BY <1>1, <1>5, <1>6 DEF Stages
<1>9. Ending(NextAmong(times, t, f[n - 1], (n - 1) + 1), times, (n - 1) + 1, t)
  BY <1>6, <1>7, EndingGrows
<1> QED
  BY <1>3, <1>6, <1>8, <1>9

-----------------------------------------------------------------------------
(* How many hits are in the window.                                        *)

\* What Ending says of Fresh, in pieces.
LEMMA FreshFacts ==
    ASSUME NEW times, Sorted(times), NEW t \in Int
    PROVE  LET kept == Fresh(times, t)
               gone == Len(times) - Len(kept)
           IN  /\ kept \in Seq(Int) /\ Len(times) \in Nat /\ Len(kept) \in Nat
               /\ Len(kept) <= Len(times) /\ gone \in Nat
               /\ \A j \in 1..Len(kept) :
                    j + gone \in 1..Len(times) /\ kept[j] = times[j + gone] /\ kept[j] > t - Window
               /\ \A i \in 1..gone : i \in 1..Len(times) /\ times[i] <= t - Window
               /\ \A i \in 1..Len(times) : i > gone => times[i] > t - Window
<1> DEFINE kept == Fresh(times, t)
           gone == Len(times) - Len(kept)
<1>1. Ending(kept, times, Len(times), t)
  BY FreshIs
<1>2. Len(times) \in Nat
  BY LenProperties DEF Sorted
<1>3. kept \in Seq(Int) /\ Len(kept) \in Nat /\ Len(kept) <= Len(times) /\ gone \in Nat
  BY <1>1, <1>2 DEF Ending
<1>4. \A j \in 1..Len(kept) :
        j + gone \in 1..Len(times) /\ kept[j] = times[j + gone] /\ kept[j] > t - Window
  BY <1>1, <1>2, <1>3 DEF Ending
<1>5. \A i \in 1..gone : i \in 1..Len(times) /\ times[i] <= t - Window
  BY <1>1, <1>2, <1>3 DEF Ending
<1>6. ASSUME NEW i \in 1..Len(times), i > gone
      PROVE  times[i] > t - Window
  <2>1. i - gone \in 1..Len(kept) /\ (i - gone) + gone = i
    BY <1>2, <1>3, <1>6
  <2> QED
    BY <1>4, <2>1
<1> HIDE DEF kept
<1>7. /\ kept \in Seq(Int) /\ Len(times) \in Nat /\ Len(kept) \in Nat
      /\ Len(kept) <= Len(times) /\ gone \in Nat
      /\ \A j \in 1..Len(kept) :
           j + gone \in 1..Len(times) /\ kept[j] = times[j + gone] /\ kept[j] > t - Window
      /\ \A i \in 1..gone : i \in 1..Len(times) /\ times[i] <= t - Window
      /\ \A i \in 1..Len(times) : i > gone => times[i] > t - Window
  BY <1>2, <1>3, <1>4, <1>5, <1>6
<1> QED
  BY <1>7 DEF kept

\* The number of hits in the window that begins after t - Window.
N(times, t) == Len(Fresh(times, t))

\* The hits of a list in order are numbers.
LEMMA SortedElements ==
    ASSUME NEW times, Sorted(times)
    PROVE  Len(times) \in Nat /\ \A i \in 1..Len(times) : times[i] \in Int
BY LenProperties, ElementOfSeq DEF Sorted

\* Where the hits that have expired end says how many are left.
LEMMA CountIs ==
    ASSUME NEW times, Sorted(times), NEW t \in Int, NEW gone \in 0..Len(times),
           \A i \in 1..gone : times[i] <= t - Window,
           \A i \in 1..Len(times) : i > gone => times[i] > t - Window
    PROVE  N(times, t) = Len(times) - gone
<1> DEFINE n == N(times, t)
<1>1. /\ Len(times) \in Nat /\ Window \in Int
      /\ \A i \in 1..Len(times) : times[i] \in Int
  BY RateAssumption, SortedElements
<1>2. /\ n \in Nat /\ n <= Len(times)
      /\ \A i \in 1..(Len(times) - n) : times[i] <= t - Window
      /\ \A i \in 1..Len(times) : i > Len(times) - n => times[i] > t - Window
  BY FreshFacts DEF N
<1> HIDE DEF n
<1>3. ASSUME n < Len(times) - gone
      PROVE  FALSE
  <2>1. /\ Len(times) - n \in 1..Len(times) /\ Len(times) - n > gone
        /\ Len(times) - n \in 1..(Len(times) - n)
    BY <1>1, <1>2, <1>3
  <2>2. times[Len(times) - n] > t - Window /\ times[Len(times) - n] <= t - Window
    BY <1>2, <2>1
  <2>3. times[Len(times) - n] \in Int
    BY <1>1, <2>1
  <2> QED
    BY <1>1, <2>2, <2>3
<1>4. ASSUME n > Len(times) - gone
      PROVE  FALSE
  <2>1. gone \in 1..Len(times) /\ gone > Len(times) - n /\ gone \in 1..gone
    BY <1>1, <1>2, <1>4
  <2>2. times[gone] > t - Window /\ times[gone] <= t - Window
    BY <1>2, <2>1
  <2>3. times[gone] \in Int
    BY <1>1, <2>1
  <2> QED
    BY <1>1, <2>2, <2>3
<1> QED
  BY <1>1, <1>2, <1>3, <1>4 DEF n

\* What is left of a list in order is in order.
LEMMA FreshSorted ==
    ASSUME NEW times, Sorted(times), NEW t \in Int
    PROVE  Sorted(Fresh(times, t))
<1> DEFINE kept == Fresh(times, t)
           gone == Len(times) - Len(kept)
<1>1. /\ kept \in Seq(Int) /\ gone \in Nat /\ Len(kept) \in Nat
      /\ \A j \in 1..Len(kept) : j + gone \in 1..Len(times) /\ kept[j] = times[j + gone]
  BY FreshFacts
<1> HIDE DEF kept, gone
<1>2. ASSUME NEW i \in 1..Len(kept), NEW j \in 1..Len(kept), i < j
      PROVE  kept[i] <= kept[j]
  <2>1. i + gone \in 1..Len(times) /\ j + gone \in 1..Len(times) /\ i + gone < j + gone
    BY <1>1, <1>2
  <2>2. times[i + gone] <= times[j + gone]
    BY <2>1 DEF Sorted
  <2> QED
    BY <1>1, <2>2
<1>3. Sorted(kept)
  BY <1>1, <1>2 DEF Sorted
<1> QED
  BY <1>3 DEF kept

\* A later window has no more of the hits.
LEMMA CountFalls ==
    ASSUME NEW times, Sorted(times), NEW t \in Int, NEW u \in Int, t <= u
    PROVE  /\ {N(times, t), N(times, u), Len(times)} \subseteq Nat
           /\ N(times, u) <= N(times, t) /\ N(times, t) <= Len(times)
<1> DEFINE n == N(times, t)
           m == N(times, u)
<1>1. /\ Len(times) \in Nat /\ Window \in Int
      /\ \A i \in 1..Len(times) : times[i] \in Int
  BY RateAssumption, SortedElements
<1>2. /\ n \in Nat /\ n <= Len(times) /\ m \in Nat /\ m <= Len(times)
      /\ \A i \in 1..(Len(times) - n) : times[i] <= t - Window
      /\ \A i \in 1..Len(times) : i > Len(times) - m => times[i] > u - Window
  BY FreshFacts DEF N
<1> HIDE DEF n, m
<1>3. ASSUME m > n
      PROVE  FALSE
  <2>1. /\ Len(times) - n \in 1..Len(times) /\ Len(times) - n > Len(times) - m
        /\ Len(times) - n \in 1..(Len(times) - n)
    BY <1>1, <1>2, <1>3
  <2>2. times[Len(times) - n] > u - Window /\ times[Len(times) - n] <= t - Window
    BY <1>2, <2>1
  <2>3. times[Len(times) - n] \in Int
    BY <1>1, <2>1
  <2> QED
    BY <1>1, <2>2, <2>3
<1> QED
  BY <1>1, <1>2, <1>3 DEF n, m

\* A window has no hits just when all have expired.
LEMMA CountIsZero ==
    ASSUME NEW times, Sorted(times), NEW t \in Int
    PROVE  /\ N(times, t) = 0 <=> \A i \in 1..Len(times) : times[i] <= t - Window
           /\ N(times, t) = 0 <=> Fresh(times, t) = <<>>
<1> DEFINE n == N(times, t)
<1>1. /\ Len(times) \in Nat /\ Window \in Int
      /\ \A i \in 1..Len(times) : times[i] \in Int
  BY RateAssumption, SortedElements
<1>2. /\ n \in Nat /\ n <= Len(times)
      /\ \A i \in 1..(Len(times) - n) : times[i] <= t - Window
      /\ \A i \in 1..Len(times) : i > Len(times) - n => times[i] > t - Window
  BY FreshFacts DEF N
<1>3. Fresh(times, t) \in Seq(Int)
  BY FreshFacts
<1>4. n = 0 <=> Fresh(times, t) = <<>>
  BY <1>3, EmptySeq DEF N
<1> HIDE DEF n
<1>5. n = 0 => \A i \in 1..Len(times) : times[i] <= t - Window
  BY <1>1, <1>2
<1>6. ASSUME n # 0, \A i \in 1..Len(times) : times[i] <= t - Window
      PROVE  FALSE
  <2>1. Len(times) \in 1..Len(times) /\ Len(times) > Len(times) - n
    BY <1>1, <1>2, <1>6
  <2>2. /\ times[Len(times)] > t - Window /\ times[Len(times)] <= t - Window
        /\ times[Len(times)] \in Int
    BY <1>1, <1>2, <1>6, <2>1
  <2> QED
    BY <1>1, <2>2
<1> QED
  BY <1>4, <1>5, <1>6 DEF n

\* A window that has hits has the last one.
LEMMA LastIsFresh ==
    ASSUME NEW times, Sorted(times), NEW t \in Int, N(times, t) # 0
    PROVE  times[Len(times)] > t - Window /\ times[Len(times)] \in Int
<1> DEFINE n == N(times, t)
<1>1. /\ Len(times) \in Nat /\ n \in Nat /\ n <= Len(times)
      /\ \A i \in 1..Len(times) : i > Len(times) - n => times[i] > t - Window
  BY FreshFacts DEF N
<1> HIDE DEF n
<1>2. Len(times) \in 1..Len(times) /\ Len(times) > Len(times) - n
  BY <1>1 DEF n
<1> QED
  BY <1>1, <1>2, SortedElements

\* Without hits there are none in the window.
LEMMA CountOfEmpty ==
    ASSUME NEW t \in Int
    PROVE  Sorted(<<>>) /\ N(<<>>, t) = 0
<1>1. Sorted(<<>>) /\ Len(<<>>) = 0 /\ 1..Len(<<>>) = {}
  BY EmptySeq DEF Sorted
<1> QED
  BY <1>1, CountIsZero

\* The window of a window: a later one is that of the whole list, an earlier
\* one has everything.
LEMMA CountOfFresh ==
    ASSUME NEW times, Sorted(times), NEW t \in Int, NEW u \in Int
    PROVE  /\ t <= u => N(Fresh(times, t), u) = N(times, u)
           /\ u <= t => N(Fresh(times, t), u) = N(times, t)
<1> DEFINE kept == Fresh(times, t)
           gone == Len(times) - Len(kept)
           n == N(times, u)
<1>1. /\ Len(times) \in Nat /\ Len(kept) \in Nat /\ gone \in Nat /\ Window \in Int
      /\ Len(kept) = Len(times) - gone
      /\ \A j \in 1..Len(kept) :
           j + gone \in 1..Len(times) /\ kept[j] = times[j + gone] /\ kept[j] > t - Window
  BY RateAssumption, FreshFacts
<1>2. Sorted(kept)
  BY FreshSorted
<1>3. N(times, t) = Len(kept)
  BY DEF N
<1>4. ASSUME t <= u
      PROVE  N(kept, u) = n
  <2>1. n \in Nat /\ n <= Len(kept)
    BY <1>3, <1>4, CountFalls
  <2>2. /\ \A i \in 1..(Len(times) - n) : times[i] <= u - Window
        /\ \A i \in 1..Len(times) : i > Len(times) - n => times[i] > u - Window
    BY FreshFacts DEF N
  <2> DEFINE lost == Len(kept) - n
  <2> HIDE DEF kept, gone, n
  <2>3. lost \in 0..Len(kept)
    BY <1>1, <2>1
  <2>4. ASSUME NEW i \in 1..lost
        PROVE  kept[i] <= u - Window
    <3>1. i \in 1..Len(kept) /\ i + gone \in 1..(Len(times) - n)
      BY <1>1, <2>1
    <3> QED
      BY <1>1, <2>2, <3>1
  <2>5. ASSUME NEW i \in 1..Len(kept), i > lost
        PROVE  kept[i] > u - Window
    <3>1. i + gone \in 1..Len(times) /\ i + gone > Len(times) - n
      BY <1>1, <2>1, <2>5
    <3> QED
      BY <1>1, <2>2, <3>1
  <2>6. N(kept, u) = Len(kept) - lost
    BY <1>2, <2>3, <2>4, <2>5, CountIs
  <2> QED
    BY <1>1, <2>1, <2>6
<1>5. ASSUME u <= t
      PROVE  N(kept, u) = Len(kept)
  <2> HIDE DEF kept, gone, n
  <2>1. \A i \in 1..Len(kept) : kept[i] > u - Window
    <3> SUFFICES ASSUME NEW i \in 1..Len(kept)
                 PROVE  kept[i] > u - Window
      OBVIOUS
    <3>1. kept[i] > t - Window /\ kept[i] \in Int
      BY <1>1, <1>2, SortedElements
    <3> QED
      BY <1>1, <1>5, <3>1
  <2>2. 0 \in 0..Len(kept) /\ 1..0 = {}
    BY <1>1
  <2>3. N(kept, u) = Len(kept) - 0
    BY <1>2, <2>1, <2>2, CountIs
  <2> QED
    BY <1>1, <2>3
<1> QED
  BY <1>3, <1>4, <1>5

\* A hit that is no earlier than the others is counted in every window it is in.
LEMMA CountOfAppend ==
    ASSUME NEW times, Sorted(times), NEW a \in Int, \A i \in 1..Len(times) : times[i] <= a
    PROVE  LET longer == Append(times, a)
           IN  /\ Sorted(longer) /\ Len(longer) = Len(times) + 1 /\ longer[Len(longer)] = a
               /\ \A i \in 1..Len(longer) : longer[i] <= a
               /\ \A i \in 1..Len(longer) :
                    longer[i] = a \/ \E j \in 1..Len(times) : longer[i] = times[j]
               /\ \A t \in Int : N(longer, t) = IF a > t - Window THEN N(times, t) + 1 ELSE 0
<1> DEFINE longer == Append(times, a)
<1>1. /\ Len(times) \in Nat /\ Window \in Int
      /\ \A i \in 1..Len(times) : times[i] \in Int
  BY RateAssumption, SortedElements
<1>2. /\ longer \in Seq(Int) /\ Len(longer) = Len(times) + 1
      /\ longer[Len(times) + 1] = a /\ \A k \in 1..Len(times) : longer[k] = times[k]
  BY Added DEF Sorted
<1> HIDE DEF longer
<1>3. \A i \in 1..Len(longer) : i = Len(times) + 1 \/ i \in 1..Len(times)
  BY <1>1, <1>2
<1>4. \A i \in 1..Len(longer) : longer[i] <= a
  BY <1>2, <1>3
<1>5. Sorted(longer)
  <2> SUFFICES ASSUME NEW i \in 1..Len(longer), NEW j \in 1..Len(longer), i < j
               PROVE  longer[i] <= longer[j]
    BY <1>2 DEF Sorted
  <2>1. CASE j = Len(times) + 1
    BY <1>2, <1>4, <2>1
  <2>2. CASE j \in 1..Len(times)
    <3>1. i \in 1..Len(times)
      BY <1>1, <1>2, <2>2
    <3> QED
      BY <1>2, <2>2, <3>1 DEF Sorted
  <2> QED
    BY <1>3, <2>1, <2>2
<1>6. ASSUME NEW t \in Int
      PROVE  N(longer, t) = IF a > t - Window THEN N(times, t) + 1 ELSE 0
  <2>1. CASE ~ (a > t - Window)
    <3>1. \A i \in 1..Len(longer) : longer[i] <= t - Window
      <4> SUFFICES ASSUME NEW i \in 1..Len(longer)
                   PROVE  longer[i] <= t - Window
        OBVIOUS
      <4>1. longer[i] <= a /\ longer[i] \in Int
        BY <1>4, <1>5, SortedElements
      <4> QED
        BY <1>1, <2>1, <4>1
    <3> QED
      BY <1>5, <2>1, <3>1, CountIsZero
  <2>2. CASE a > t - Window
    <3> DEFINE n == N(times, t)
               gone == Len(times) - n
    <3>1. /\ n \in Nat /\ n <= Len(times)
          /\ \A i \in 1..gone : times[i] <= t - Window
          /\ \A i \in 1..Len(times) : i > gone => times[i] > t - Window
      BY FreshFacts DEF N
    <3> HIDE DEF n
    <3>2. gone \in 0..Len(longer)
      BY <1>1, <1>2, <3>1
    <3>3. \A i \in 1..gone : longer[i] <= t - Window
      <4>1. \A i \in 1..gone : i \in 1..Len(times)
        BY <1>1, <3>1
      <4> QED
        BY <1>2, <3>1, <4>1
    <3>4. \A i \in 1..Len(longer) : i > gone => longer[i] > t - Window
      BY <1>2, <1>3, <2>2, <3>1
    <3>5. N(longer, t) = Len(longer) - gone
      BY <1>5, <3>2, <3>3, <3>4, CountIs
    <3>6. N(longer, t) = n + 1
      BY <1>1, <1>2, <3>1, <3>5
    <3> QED
      BY <2>2, <3>6 DEF n
  <2> QED
    BY <2>1, <2>2
<1>7. /\ Sorted(longer) /\ Len(longer) = Len(times) + 1 /\ longer[Len(longer)] = a
      /\ \A i \in 1..Len(longer) : longer[i] <= a
      /\ \A i \in 1..Len(longer) :
           longer[i] = a \/ \E j \in 1..Len(times) : longer[i] = times[j]
      /\ \A t \in Int : N(longer, t) = IF a > t - Window THEN N(times, t) + 1 ELSE 0
  BY <1>2, <1>3, <1>4, <1>5, <1>6
<1> QED
  BY <1>7 DEF longer

\* What forgetting old hits and letting another one through does to the number
\* of hits in a window with an end.
LEMMA WithinIs ==
    ASSUME NEW times, Sorted(times)
    PROVE  /\ \A t \in Int, u \in Int : Within(Fresh(times, t), u) <= Within(times, u)
           /\ \A a \in Int : (\A i \in 1..Len(times) : times[i] <= a) =>
                /\ Within(Append(times, a), a) = N(times, a) + 1
                /\ \A u \in Int : u < a => Within(Append(times, a), u) = Within(times, u)
           /\ \A t \in Int : (\A i \in 1..Len(times) : times[i] <= t) =>
                Within(times, t) = N(times, t)
<1>1. /\ Window \in Nat \ {0}
      /\ \A times2, u : Within(times2, u) = N(times2, u) - N(times2, u + Window)
  BY RateAssumption DEF Within, N
<1>2. ASSUME NEW t \in Int, NEW u \in Int
      PROVE  Within(Fresh(times, t), u) <= Within(times, u)
  <2>1. u + Window \in Int /\ u <= u + Window
    BY <1>1
  <2>2. /\ {N(times, t), N(times, u), N(times, u + Window)} \subseteq Nat
        /\ N(times, u + Window) <= N(times, u)
    BY <2>1, CountFalls
  <2>3. /\ t <= u => N(Fresh(times, t), u) = N(times, u)
        /\ u <= t => N(Fresh(times, t), u) = N(times, t)
        /\ t <= u + Window => N(Fresh(times, t), u + Window) = N(times, u + Window)
        /\ u + Window <= t => N(Fresh(times, t), u + Window) = N(times, t)
    BY <2>1, CountOfFresh
  <2>4. u <= t => N(times, t) <= N(times, u)
    BY CountFalls
  <2> QED
    BY <1>1, <2>1, <2>2, <2>3, <2>4
<1>3. ASSUME NEW a \in Int, \A i \in 1..Len(times) : times[i] <= a
      PROVE  /\ Within(Append(times, a), a) = N(times, a) + 1
             /\ \A u \in Int : u < a => Within(Append(times, a), u) = Within(times, u)
  <2>1. \A t \in Int : /\ N(times, t) \in Nat
                       /\ N(Append(times, a), t) = IF a > t - Window THEN N(times, t) + 1 ELSE 0
    BY <1>3, CountOfAppend, CountFalls
  <2>2. N(Append(times, a), a) = N(times, a) + 1 /\ N(Append(times, a), a + Window) = 0
    BY <1>1, <2>1
  <2>3. ASSUME NEW u \in Int, u < a
        PROVE  Within(Append(times, a), u) = Within(times, u)
    <3>1. u + Window \in Int /\ a > u - Window /\ a > (u + Window) - Window
      BY <1>1, <2>3
    <3>2. /\ N(Append(times, a), u) = N(times, u) + 1
          /\ N(Append(times, a), u + Window) = N(times, u + Window) + 1
          /\ N(times, u) \in Nat /\ N(times, u + Window) \in Nat
      BY <2>1, <3>1
    <3> QED
      BY <1>1, <3>2
  <2>4. N(times, a) \in Nat
    BY <2>1
  <2>5. Within(Append(times, a), a) = N(times, a) + 1
    BY <1>1, <2>2, <2>4
  <2> QED
    BY <2>3, <2>5
<1>4. ASSUME NEW t \in Int, \A i \in 1..Len(times) : times[i] <= t
      PROVE  Within(times, t) = N(times, t)
  <2>1. t + Window \in Int /\ (t + Window) - Window = t
    BY <1>1
  <2>2. N(times, t) \in Nat
    BY CountFalls
  <2>3. N(times, t + Window) = 0
    <3>1. \A i \in 1..Len(times) : times[i] <= (t + Window) - Window
      BY <1>4, <2>1
    <3> QED
      BY <2>1, <3>1, CountIsZero
  <2> QED
    BY <1>1, <2>2, <2>3
<1> QED
  BY <1>2, <1>3, <1>4

-----------------------------------------------------------------------------
(* What a limiter keeps of an address, and what it has let through.        *)

\* Times in order that are not later than time.
Past(times, time) == Sorted(times) /\ \A i \in 1..Len(times) : times[i] \in 0..time

\* list is what the dict has for an address, if it is listed there.  No hit was
\* let through since the last one that counts, and in every window that is yet
\* to end no more are counted than were let through, and at most one fewer.
AddressInv(l, listed, list, since, through, time) ==
    /\ Past(through, time)
    /\ listed =>
        /\ Past(list, time) /\ list # <<>> /\ list[Len(list)] > since - Window
        /\ \A i \in 1..Len(through) : through[i] <= list[Len(list)]
        /\ \A u \in Int : u >= time - 2 * MaxPause => N(list, u) <= N(through, u)
        /\ \A u \in Int : u >= time => N(through, u) <= N(list, u) + 1
    /\ ~ listed => \A u \in Int : u >= time => N(through, u) <= 1
    /\ Enabled(l) => \A i \in 1..Len(through) : Within(through, through[i]) <= Rpm[l] + 1

\* Time passes, and the history forgets.
LEMMA Later ==
    ASSUME NEW l \in Limiters, NEW listed \in BOOLEAN, NEW list, NEW since, NEW through,
           NEW time \in Nat, NEW end \in Nat, time <= end,
           AddressInv(l, listed, list, since, through, time)
    PROVE  AddressInv(l, listed, list, since, Fresh(through, end - 2 * MaxPause), end)
<1> DEFINE t == end - 2 * MaxPause
           kept == Fresh(through, t)
<1>1. t \in Int /\ MaxPause \in Nat /\ t <= end /\ t >= time - 2 * MaxPause /\ Rpm[l] \in Nat
  BY RateAssumption
<1>2. Sorted(through) /\ Sorted(kept)
  BY <1>1, FreshSorted DEF AddressInv, Past
<1>3. ASSUME NEW i \in 1..Len(kept)
      PROVE  \E j \in 1..Len(through) : kept[i] = through[j]
  <2> DEFINE gone == Len(through) - Len(kept)
  <2>1. \A j \in 1..Len(kept) : j + gone \in 1..Len(through) /\ kept[j] = through[j + gone]
    BY <1>1, <1>2, FreshFacts
  <2> HIDE DEF kept, gone
  <2> QED
    BY <1>3, <2>1
<1>4. \A u \in Int : u >= t => N(kept, u) = N(through, u)
  BY <1>1, <1>2, CountOfFresh
<1>5. \A i \in 1..Len(through) : through[i] \in 0..time
  BY DEF AddressInv, Past
<1>6. \A u \in Int : u >= end => u >= time /\ u >= t
  BY <1>1
<1> HIDE DEF t, kept
<1>7. Past(kept, end)
  <2>1. \A i \in 1..Len(kept) : kept[i] \in 0..time
    BY <1>3, <1>5
  <2>2. \A x \in 0..time : x \in 0..end
    OBVIOUS
  <2> QED
    BY <1>2, <2>1, <2>2 DEF Past
<1>8. ASSUME listed
      PROVE  /\ Past(list, end) /\ list # <<>> /\ list[Len(list)] > since - Window
             /\ \A i \in 1..Len(kept) : kept[i] <= list[Len(list)]
             /\ \A u \in Int : u >= t => N(list, u) <= N(kept, u)
             /\ \A u \in Int : u >= end => N(kept, u) <= N(list, u) + 1
  <2>1. /\ Past(list, time) /\ list # <<>> /\ list[Len(list)] > since - Window
        /\ \A i \in 1..Len(through) : through[i] <= list[Len(list)]
        /\ \A u \in Int : u >= time - 2 * MaxPause => N(list, u) <= N(through, u)
        /\ \A u \in Int : u >= time => N(through, u) <= N(list, u) + 1
    BY <1>8 DEF AddressInv
  <2>2. Past(list, end)
    <3>1. \A x \in 0..time : x \in 0..end
      OBVIOUS
    <3> QED
      BY <2>1, <3>1 DEF Past
  <2>3. \A u \in Int : u >= t => u >= time - 2 * MaxPause
    BY <1>1
  <2>4. \A i \in 1..Len(kept) : kept[i] <= list[Len(list)]
    BY <1>3, <2>1
  <2>5. \A u \in Int : u >= t => N(list, u) <= N(kept, u)
    BY <1>4, <2>1, <2>3
  <2>6. \A u \in Int : u >= end => N(kept, u) <= N(list, u) + 1
    BY <1>4, <1>6, <2>1
  <2> QED
    BY <2>1, <2>2, <2>4, <2>5, <2>6
<1>9. ASSUME ~ listed
      PROVE  \A u \in Int : u >= end => N(kept, u) <= 1
  BY <1>4, <1>6, <1>9 DEF AddressInv
<1>10. ASSUME Enabled(l), NEW i \in 1..Len(kept)
       PROVE  Within(kept, kept[i]) <= Rpm[l] + 1
  <2>1. PICK j \in 1..Len(through) : kept[i] = through[j]
    BY <1>3
  <2>2. Within(through, through[j]) <= Rpm[l] + 1
    BY <1>10 DEF AddressInv
  <2>3. through[j] \in Int
    BY <1>2, SortedElements
  <2>4. Within(kept, through[j]) <= Within(through, through[j])
    BY <1>1, <1>2, <2>3, WithinIs DEF kept
  <2>5. Within(kept, through[j]) \in Int /\ Within(through, through[j]) \in Int
    <3>1. through[j] + Window \in Int /\ through[j] <= through[j] + Window
      BY <2>3, RateAssumption
    <3>2. /\ {N(kept, through[j]), N(kept, through[j] + Window)} \subseteq Nat
          /\ {N(through, through[j]), N(through, through[j] + Window)} \subseteq Nat
      BY <1>2, <2>3, <3>1, CountFalls
    <3> QED
      BY <3>2 DEF Within, N
  <2> QED
    BY <1>1, <2>1, <2>2, <2>4, <2>5
<1>11. AddressInv(l, listed, list, since, kept, end)
  BY <1>7, <1>8, <1>9, <1>10 DEF AddressInv, t
<1> QED
  BY <1>11 DEF kept, t

\* The list of an address that is not asking stays, or is swept once all its
\* hits have expired.
LEMMA Left ==
    ASSUME NEW l \in Limiters, NEW listed \in BOOLEAN, NEW list, NEW since, NEW through,
           NEW time \in Nat, NEW end \in Nat, time <= end,
           AddressInv(l, listed, list, since, through, time),
           NEW kept \in BOOLEAN, NEW now,
           kept => listed /\ list[Len(list)] > now - Window,
           ~ kept => ~ listed \/ Fresh(list, end) = <<>>
    PROVE  AddressInv(l, kept, list, now, through, end)
<1>1. \A x \in 0..time : x \in 0..end
  OBVIOUS
<1>2. Past(through, end)
  BY <1>1 DEF AddressInv, Past
<1>3. \A u \in Int : u >= end => u >= time
  OBVIOUS
<1>4. \A u \in Int : u >= end - 2 * MaxPause => u >= time - 2 * MaxPause
  BY RateAssumption
<1>5. ASSUME kept
      PROVE  /\ Past(list, end) /\ list # <<>> /\ list[Len(list)] > now - Window
             /\ \A i \in 1..Len(through) : through[i] <= list[Len(list)]
             /\ \A u \in Int : u >= end - 2 * MaxPause => N(list, u) <= N(through, u)
             /\ \A u \in Int : u >= end => N(through, u) <= N(list, u) + 1
  <2>1. Past(list, end)
    BY <1>1, <1>5 DEF AddressInv, Past
  <2> QED
    BY <1>3, <1>4, <1>5, <2>1 DEF AddressInv
<1>6. ASSUME ~ kept
      PROVE  \A u \in Int : u >= end => N(through, u) <= 1
  <2> SUFFICES ASSUME NEW u \in Int, u >= end
               PROVE  N(through, u) <= 1
    OBVIOUS
  <2>1. CASE ~ listed
    BY <1>3, <2>1 DEF AddressInv
  <2>2. CASE listed /\ Fresh(list, end) = <<>>
    <3>1. Sorted(list) /\ N(through, u) <= N(list, u) + 1 /\ Sorted(through)
      BY <1>3, <2>2 DEF AddressInv, Past
    <3>2. N(list, end) = 0
      BY <2>2, <3>1, CountIsZero
    <3>3. N(list, u) = 0 /\ N(through, u) \in Nat
      BY <3>1, <3>2, CountFalls
    <3> QED
      BY <3>1, <3>3
  <2> QED
    BY <1>6, <2>1, <2>2
<1> QED
  BY <1>2, <1>5, <1>6 DEF AddressInv

\* A request at time: what is in the window then is stored, swept if all of it
\* has expired by end, and appended to if the request is let through.
Asked(l, listed, list, through, window, time, end, kept, now, list2, through2) ==
    /\ {time, end} \subseteq Nat /\ time <= end /\ end <= time + MaxPause
    /\ window = Fresh(IF listed THEN list ELSE <<>>, time)
    /\ kept \in BOOLEAN /\ (~ kept => window # <<>> /\ Fresh(window, end) = <<>>)
    /\ now \in Int /\ now <= time
    /\ list2 = (IF Allows(l, window) THEN Append(window, time) ELSE window)
    /\ through2 = (IF Allows(l, window) THEN Append(through, time) ELSE through)

\* The address that asks.
LEMMA Asks ==
    ASSUME NEW l \in Limiters, Enabled(l), NEW listed \in BOOLEAN, NEW list, NEW since,
           NEW through, NEW before \in Nat,
           AddressInv(l, listed, list, since, through, before),
           NEW window, NEW time, NEW end, NEW kept, NEW now, NEW list2, NEW through2,
           Asked(l, listed, list, through, window, time, end, kept, now, list2, through2),
           before <= time
    PROVE  AddressInv(l, kept, list2, now, through2, end)
<1> SUFFICES ASSUME time \in Nat, end \in Nat, time <= end, end <= time + MaxPause,
                    NEW old, old = IF listed THEN list ELSE <<>>, window = Fresh(old, time),
                    kept \in BOOLEAN, ~ kept => window # <<>> /\ Fresh(window, end) = <<>>,
                    now \in Int, now <= time,
                    list2 = IF Allows(l, window) THEN Append(window, time) ELSE window,
                    through2 = IF Allows(l, window) THEN Append(through, time) ELSE through
             PROVE  AddressInv(l, kept, list2, now, through2, end)
  BY DEF Asked
<1>1. /\ MaxPause \in Nat /\ Window \in Nat \ {0} /\ Rpm[l] \in Nat \ {0}
      /\ \A x \in 0..before : x \in 0..time /\ x <= time /\ x \in 0..end
      /\ \A u \in Int : u >= end => u >= time /\ u >= before
      /\ \A u \in Int : u >= end - 2 * MaxPause => u >= before - 2 * MaxPause
  <2>1. MaxPause \in Nat /\ Window \in Nat \ {0} /\ Rpm[l] \in Nat \ {0}
    BY RateAssumption DEF Enabled
  <2>2. \A x \in 0..before : x \in 0..time /\ x <= time /\ x \in 0..end
    OBVIOUS
  <2>3. \A u \in Int : u >= end => u >= time /\ u >= before
    OBVIOUS
  <2>4. \A u \in Int : u >= end - 2 * MaxPause => u >= before - 2 * MaxPause
    BY <2>1
  <2> QED
    BY <2>1, <2>2, <2>3, <2>4
<1>2. /\ Sorted(old) /\ \A i \in 1..Len(old) : old[i] \in 0..before
      /\ window = Fresh(old, time) /\ Sorted(window)
  <2>1. Sorted(old) /\ \A i \in 1..Len(old) : old[i] \in 0..before
    <3>1. Sorted(<<>>) /\ 1..Len(<<>>) = {}
      BY CountOfEmpty, EmptySeq
    <3> QED
      BY <3>1 DEF AddressInv, Past
  <2> QED
    BY <2>1, FreshSorted
<1>10. /\ Len(window) \in Nat /\ Len(old) \in Nat /\ window \in Seq(Int)
       /\ \A j \in 1..Len(window) : /\ j + (Len(old) - Len(window)) \in 1..Len(old)
                                    /\ window[j] = old[j + (Len(old) - Len(window))]
                                    /\ window[j] > time - Window
  <2> DEFINE rest == Fresh(old, time)
             gone == Len(old) - Len(rest)
  <2>1. time \in Int /\ Sorted(old)
    BY <1>2
  <2>2. \A j \in 1..Len(rest) :
            j + gone \in 1..Len(old) /\ rest[j] = old[j + gone] /\ rest[j] > time - Window
    BY <2>1, FreshFacts
  <2>3. window = rest
    BY <1>2
  <2> HIDE DEF rest
  <2> QED
    BY <1>2, <2>2, <2>3, SortedElements DEF Sorted
<1>3. /\ Sorted(through) /\ \A i \in 1..Len(through) : through[i] \in 0..before
  BY DEF AddressInv, Past
<1>4. \A u \in Int : u >= end - 2 * MaxPause => N(window, u) <= N(through, u)
  <2> SUFFICES ASSUME NEW u \in Int, u >= end - 2 * MaxPause
               PROVE  N(window, u) <= N(through, u)
    OBVIOUS
  <2>1. N(window, u) <= N(old, u) /\ {N(window, u), N(old, u), N(through, u)} \subseteq Nat
    <3>1. N(window, u) = N(old, u) \/ (u <= time /\ N(window, u) = N(old, time))
      BY <1>2, CountOfFresh
    <3>2. u <= time => N(old, time) <= N(old, u)
      BY <1>2, CountFalls
    <3>3. {N(window, u), N(old, u), N(through, u)} \subseteq Nat
      BY <1>2, <1>3, CountFalls
    <3> QED
      BY <3>1, <3>2, <3>3
  <2>2. N(old, u) <= N(through, u)
    <3>1. CASE listed
      BY <1>1, <3>1 DEF AddressInv
    <3>2. CASE ~ listed
      BY <2>1, <3>2, CountOfEmpty
    <3> QED
      BY <3>1, <3>2
  <2> QED
    BY <2>1, <2>2
<1>5. \A u \in Int : u >= time => N(through, u) <= N(window, u) + 1
  <2> SUFFICES ASSUME NEW u \in Int, u >= time
               PROVE  N(through, u) <= N(window, u) + 1
    OBVIOUS
  <2>1. N(window, u) = N(old, u) /\ u >= before
    BY <1>2, CountOfFresh
  <2>2. CASE listed
    BY <2>1, <2>2 DEF AddressInv
  <2>3. CASE ~ listed
    BY <2>1, <2>3, CountOfEmpty DEF AddressInv
  <2> QED
    BY <2>2, <2>3
\* The end of the window is the end of the list.
<1>6. ASSUME window # <<>>
      PROVE  /\ listed /\ Len(window) \in 1..Len(window)
             /\ window[Len(window)] = list[Len(list)] /\ window[Len(window)] > time - Window
             /\ \A i \in 1..Len(through) : through[i] <= window[Len(window)]
  <2>1. listed
    BY <1>2, <1>6, CountOfEmpty, CountIsZero
  <2>2. Len(window) \in 1..Len(window)
    BY <1>2, <1>6, EmptySeq, LenProperties DEF Sorted
  <2>3. /\ window[Len(window)] = old[Len(window) + (Len(old) - Len(window))]
        /\ window[Len(window)] > time - Window
    BY <1>10, <2>2
  <2>4. Len(window) + (Len(old) - Len(window)) = Len(old)
    BY <1>10
  <2> QED
    BY <2>1, <2>2, <2>3, <2>4 DEF AddressInv
<1>7. window \in Seq(Int) /\ \A i \in 1..Len(window) : window[i] \in 0..before
  BY <1>2, <1>10
<1>8. CASE ~ Allows(l, window)
  <2>1. window # <<>>
    BY <1>1, <1>8 DEF Allows
  <2>2. Past(window, end) /\ Past(through, end)
    BY <1>1, <1>2, <1>3, <1>7 DEF Past
  <2>3. window[Len(window)] > now - Window
    BY <1>1, <1>6, <1>7, <2>1
  <2>4. ASSUME ~ kept
        PROVE  \A u \in Int : u >= end => N(through, u) <= 1
    <3> SUFFICES ASSUME NEW u \in Int, u >= end
                 PROVE  N(through, u) <= 1
      OBVIOUS
    <3>1. N(window, end) = 0
      BY <1>2, <2>4, CountIsZero
    <3>2. N(window, u) = 0 /\ N(through, u) \in Nat
      BY <1>2, <1>3, <3>1, CountFalls
    <3> QED
      BY <1>1, <1>5, <3>2
  <2>5. AddressInv(l, kept, window, now, through, end)
    BY <1>1, <1>4, <1>5, <1>6, <2>1, <2>2, <2>3, <2>4 DEF AddressInv
  <2> QED
    BY <1>8, <2>5
<1>9. CASE Allows(l, window)
  <2> DEFINE longer == Append(window, time)
             further == Append(through, time)
  <2>0. list2 = longer /\ through2 = further
    BY <1>9
  <2>1. /\ Sorted(longer) /\ Len(longer) = Len(window) + 1 /\ longer[Len(longer)] = time
        /\ \A i \in 1..Len(longer) :
             longer[i] = time \/ \E j \in 1..Len(window) : longer[i] = window[j]
        /\ \A u \in Int : N(longer, u) = IF time > u - Window THEN N(window, u) + 1 ELSE 0
    <3>1. \A i \in 1..Len(window) : window[i] <= time
      BY <1>1, <1>7
    <3> QED
      BY <1>2, <3>1, CountOfAppend, SMTT(30)
  <2>2. /\ Sorted(further)
        /\ \A i \in 1..Len(further) : further[i] <= time
        /\ \A i \in 1..Len(further) :
             further[i] = time \/ \E j \in 1..Len(through) : further[i] = through[j]
        /\ \A u \in Int : N(further, u) = IF time > u - Window THEN N(through, u) + 1 ELSE 0
    <3>1. \A i \in 1..Len(through) : through[i] <= time
      BY <1>1, <1>3
    <3> QED
      BY <1>3, <3>1, CountOfAppend
  <2>3. \A u \in Int : {N(window, u), N(through, u), N(longer, u), N(further, u)} \subseteq Nat
    <3>1. \A u \in Int : {N(window, u), N(through, u)} \subseteq Nat
      BY <1>2, <1>3, CountFalls
    <3>2. \A u \in Int : {N(longer, u), N(further, u)} \subseteq Nat
      <4> SUFFICES ASSUME NEW u \in Int
                   PROVE  N(longer, u) \in Nat /\ N(further, u) \in Nat
        OBVIOUS
      <4>1. Sorted(longer) /\ Sorted(further) /\ u <= u
        BY <2>1, <2>2
      <4> QED
        BY <4>1, CountFalls
    <3> QED
      BY <3>1, <3>2
  <2>4. /\ Within(further, time) = N(through, time) + 1
        /\ \A u \in Int : u < time => Within(further, u) = Within(through, u)
    <3>1. \A i \in 1..Len(through) : through[i] <= time
      BY <1>1, <1>3
    <3> QED
      BY <1>3, <3>1, WithinIs
  <2> HIDE DEF longer, further
  <2>5. time \in 0..end /\ longer # <<>>
    <3>1. Len(longer) # 0 /\ Len(<<>>) = 0
      BY <1>10, <2>1
    <3>2. longer # <<>>
      BY <3>1
    <3> QED
      BY <3>2
  <2>6. Past(longer, end)
    BY <1>1, <1>7, <2>1, <2>5 DEF Past
  <2>7. Past(further, end)
    BY <1>1, <1>3, <2>2, <2>5 DEF Past
  <2>8. longer[Len(longer)] > now - Window
    BY <1>1, <2>1
  <2>9. \A u \in Int : u >= end - 2 * MaxPause => N(longer, u) <= N(further, u)
    <3> SUFFICES ASSUME NEW u \in Int, u >= end - 2 * MaxPause
                 PROVE  N(longer, u) <= N(further, u)
      OBVIOUS
    <3>1. N(window, u) <= N(through, u) /\ N(window, u) \in Nat /\ N(through, u) \in Nat
      BY <1>4, <2>3
    <3>2. /\ N(longer, u) = IF time > u - Window THEN N(window, u) + 1 ELSE 0
          /\ N(further, u) = IF time > u - Window THEN N(through, u) + 1 ELSE 0
      BY <2>1, <2>2
    <3> QED
      BY <3>1, <3>2
  <2>10. \A u \in Int : u >= end => N(further, u) <= N(longer, u) + 1
    <3> SUFFICES ASSUME NEW u \in Int, u >= end
                 PROVE  N(further, u) <= N(longer, u) + 1
      OBVIOUS
    <3>1. N(through, u) <= N(window, u) + 1 /\ N(window, u) \in Nat /\ N(through, u) \in Nat
      BY <1>1, <1>5, <2>3
    <3>2. /\ N(longer, u) = IF time > u - Window THEN N(window, u) + 1 ELSE 0
          /\ N(further, u) = IF time > u - Window THEN N(through, u) + 1 ELSE 0
      BY <2>1, <2>2
    <3> QED
      BY <3>1, <3>2
  \* A hit that gets lost: nothing that was let through before it is left.
  <2>11. ASSUME ~ kept
         PROVE  \A u \in Int : u >= end => N(further, u) <= 1
    <3> SUFFICES ASSUME NEW u \in Int, u >= end
                 PROVE  N(further, u) <= 1
      OBVIOUS
    <3>1. window # <<>> /\ N(window, end) = 0
      BY <1>2, <2>11, CountIsZero
    <3>2. window[Len(window)] <= end - Window
      BY <1>2, <1>6, <3>1, CountIsZero
    <3>3. \A i \in 1..Len(through) : through[i] <= u - Window
      <4> SUFFICES ASSUME NEW i \in 1..Len(through)
                   PROVE  through[i] <= u - Window
        OBVIOUS
      <4>1. through[i] <= window[Len(window)] /\ through[i] \in Int /\ window[Len(window)] \in Int
        BY <1>3, <1>6, <1>7, <3>1
      <4> QED
        BY <1>1, <3>2, <4>1
    <3>4. N(through, u) = 0
      BY <1>3, <3>3, CountIsZero
    <3> QED
      BY <2>2, <3>4
  <2>12. ASSUME NEW i \in 1..Len(further)
         PROVE  Within(further, further[i]) <= Rpm[l] + 1
    <3>1. N(through, time) <= Len(window) + 1 /\ Len(window) < Rpm[l] /\ Len(window) \in Nat
      <4>1. N(window, time) = Len(window)
        <5>1. N(window, time) = N(old, time)
          BY <1>2, CountOfFresh
        <5> QED
          BY <1>2, <5>1 DEF N
      <4> QED
        BY <1>2, <1>5, <1>9, <4>1, SortedElements DEF Allows
    <3>2. CASE further[i] = time
      <4>1. N(through, time) \in Nat
        BY <2>3
      <4> QED
        BY <1>1, <2>4, <3>1, <3>2, <4>1
    <3>3. CASE further[i] # time
      <4>1. PICK j \in 1..Len(through) : further[i] = through[j]
        BY <2>2, <3>3
      <4>2. through[j] \in Int /\ through[j] < time
        BY <1>1, <1>3, <2>2, <3>3, <4>1
      <4> QED
        BY <2>4, <4>1, <4>2 DEF AddressInv
    <3> QED
      BY <3>2, <3>3
  <2>13. AddressInv(l, kept, longer, now, further, end)
    BY <2>1, <2>2, <2>5, <2>6, <2>7, <2>8, <2>9, <2>10, <2>11, <2>12 DEF AddressInv
  <2> QED
    BY <2>0, <2>13
<1> QED
  BY <1>8, <1>9

-----------------------------------------------------------------------------
(* One limiter.                                                            *)

\* What holds of each address, and no sweep yet means no hits yet.
LimiterInv(l, dict, since, through, time) ==
    /\ DOMAIN dict \subseteq Addresses
    /\ since \in (0..time) \cup {Never}
    /\ since = Never => DOMAIN dict = {}
    /\ DOMAIN through = Addresses
    /\ \A a \in Addresses : AddressInv(l, a \in DOMAIN dict, dict[a], since, through[a], time)

\* Time passes, for every address.
LEMMA LimiterLater ==
    ASSUME NEW l \in Limiters, NEW dict, NEW since, NEW through, NEW time \in Nat, NEW end \in Nat,
           time <= end, LimiterInv(l, dict, since, through, time)
    PROVE  LimiterInv(l, dict, since,
                      [a \in Addresses |-> Fresh(through[a], end - 2 * MaxPause)], end)
<1>1. \A x \in 0..time : x \in 0..end
  OBVIOUS
<1>2. \A a \in Addresses : AddressInv(l, a \in DOMAIN dict, dict[a], since,
                                     Fresh(through[a], end - 2 * MaxPause), end)
  <2> SUFFICES ASSUME NEW a \in Addresses
               PROVE  AddressInv(l, a \in DOMAIN dict, dict[a], since,
                                 Fresh(through[a], end - 2 * MaxPause), end)
    OBVIOUS
  <2> DEFINE listed == a \in DOMAIN dict
  <2>1. listed \in BOOLEAN /\ AddressInv(l, listed, dict[a], since, through[a], time)
    BY DEF LimiterInv
  <2> HIDE DEF listed
  <2>2. AddressInv(l, listed, dict[a], since, Fresh(through[a], end - 2 * MaxPause), end)
    BY <2>1, Later
  <2> QED
    BY <2>2 DEF listed
<1> QED
  BY <1>1, <1>2 DEF LimiterInv

\* The list of an address in the dict, or that of a new one.
ListOf(dict, k) == IF k \in DOMAIN dict THEN dict[k] ELSE <<>>

\* What allow() leaves, whether the sweep was due or not.
LEMMA AllowFacts ==
    ASSUME NEW l, NEW k, NEW t, NEW pause
    PROVE  LET r      == Allow(l, k, t, pause)
               window == Fresh(ListOf(hits[l], k), t)
           IN  /\ r.allowed = Allows(l, window)
               /\ \E due \in BOOLEAN :
                    /\ DOMAIN r.hits =
                         {j \in DOMAIN hits[l] \cup {k} :
                            due => \/ (IF j = k THEN window ELSE hits[l][j]) = <<>>
                                   \/ Fresh(IF j = k THEN window ELSE hits[l][j], t + pause) # <<>>}
                    /\ \A j \in DOMAIN r.hits :
                         r.hits[j] = IF j # k THEN hits[l][j]
                                     ELSE IF Allows(l, window) THEN Append(window, t) ELSE window
                    /\ r.swept = IF due \/ swept[l] = Never THEN t ELSE swept[l]
<1> DEFINE window == Fresh(ListOf(hits[l], k), t)
           stored == [j \in DOMAIN hits[l] \cup {k} |-> IF j = k THEN window ELSE hits[l][j]]
           since  == IF swept[l] = Never THEN t ELSE swept[l]
           due    == Cardinality(DOMAIN stored) > MaxKeys \/ t - since >= Window
           kept   == IF due THEN Swept(stored, t + pause) ELSE stored
           allowed == Allows(l, window)
           r == Allow(l, k, t, pause)
<1>1. r = [allowed |-> allowed, hits |-> Counted(kept, k, window, t, allowed),
           swept |-> LastSweep(t, since, due)]
  BY DEF Allow, ListOf
<1>2. /\ r.allowed = allowed /\ r.hits = Counted(kept, k, window, t, allowed)
      /\ r.swept = LastSweep(t, since, due)
  <2> HIDE DEF r, allowed, kept, window, since, due
  <2> QED
    BY <1>1
<1>3. due \in BOOLEAN /\ allowed \in BOOLEAN
  BY DEF Allows
<1> HIDE DEF r, window, allowed, due
<1>4. /\ DOMAIN kept = {j \in DOMAIN hits[l] \cup {k} :
                         due => stored[j] = <<>> \/ Fresh(stored[j], t + pause) # <<>>}
      /\ \A j \in DOMAIN kept : kept[j] = stored[j]
  BY <1>3 DEF Swept
<1>5. /\ DOMAIN r.hits = DOMAIN kept
      /\ \A j \in DOMAIN r.hits :
           r.hits[j] = IF j # k THEN kept[j] ELSE IF allowed THEN Append(window, t) ELSE kept[j]
  <2> HIDE DEF kept
  <2> QED
    BY <1>2, <1>3 DEF Counted
<1>6. r.swept = IF due \/ swept[l] = Never THEN t ELSE swept[l]
  BY <1>2, <1>3 DEF LastSweep
<1>7. DOMAIN kept = {j \in DOMAIN hits[l] \cup {k} :
                       due => \/ (IF j = k THEN window ELSE hits[l][j]) = <<>>
                              \/ Fresh(IF j = k THEN window ELSE hits[l][j], t + pause) # <<>>}
  BY <1>4
<1>8. \A j \in DOMAIN kept : kept[j] = IF j = k THEN window ELSE hits[l][j]
  BY <1>4
<1> HIDE DEF kept, stored
<1>9. \A j \in DOMAIN r.hits :
         r.hits[j] = IF j # k THEN hits[l][j] ELSE IF allowed THEN Append(window, t) ELSE window
  BY <1>5, <1>8
<1>10. \E b \in BOOLEAN :
         /\ DOMAIN r.hits =
              {j \in DOMAIN hits[l] \cup {k} :
                 b => \/ (IF j = k THEN window ELSE hits[l][j]) = <<>>
                      \/ Fresh(IF j = k THEN window ELSE hits[l][j], t + pause) # <<>>}
         /\ \A j \in DOMAIN r.hits :
              r.hits[j] = IF j # k THEN hits[l][j]
                          ELSE IF allowed THEN Append(window, t) ELSE window
         /\ r.swept = IF b \/ swept[l] = Never THEN t ELSE swept[l]
  <2> due \in BOOLEAN
    BY <1>3
  <2> WITNESS due \in BOOLEAN
  <2> QED
    BY <1>5, <1>6, <1>7, <1>9
<1> QED
  BY <1>2, <1>10 DEF r, window, allowed

\* allow() for one address: what holds of each keeps holding.
LEMMA AllowKeeps ==
    ASSUME NEW l \in Limiters, Enabled(l), NEW through, NEW k \in Addresses,
           NEW time \in Nat, NEW t \in Nat, NEW pause \in 0..MaxPause, time <= t,
           LimiterInv(l, hits[l], swept[l], through, time)
    PROVE  LET r == Allow(l, k, t, pause)
           IN  LimiterInv(l, r.hits, r.swept,
                          IF r.allowed THEN [through EXCEPT ![k] = Append(@, t)] ELSE through,
                          t + pause)
<1> DEFINE r == Allow(l, k, t, pause)
           window == Fresh(ListOf(hits[l], k), t)
           through2 == IF r.allowed THEN [through EXCEPT ![k] = Append(@, t)] ELSE through
           end == t + pause
<1>0. /\ MaxPause \in Nat /\ Window \in Nat \ {0} /\ end \in Nat /\ t <= end /\ end <= t + MaxPause
      /\ time <= end
  BY RateAssumption
<1>1. /\ r.allowed = Allows(l, window)
      /\ \E due \in BOOLEAN :
           /\ DOMAIN r.hits =
                {j \in DOMAIN hits[l] \cup {k} :
                   due => \/ (IF j = k THEN window ELSE hits[l][j]) = <<>>
                          \/ Fresh(IF j = k THEN window ELSE hits[l][j], end) # <<>>}
           /\ \A j \in DOMAIN r.hits :
                r.hits[j] = IF j # k THEN hits[l][j]
                            ELSE IF Allows(l, window) THEN Append(window, t) ELSE window
           /\ r.swept = IF due \/ swept[l] = Never THEN t ELSE swept[l]
  BY AllowFacts
<1> HIDE DEF r, window, end
<1>2. PICK due \in BOOLEAN :
        /\ DOMAIN r.hits =
             {j \in DOMAIN hits[l] \cup {k} :
                due => \/ (IF j = k THEN window ELSE hits[l][j]) = <<>>
                       \/ Fresh(IF j = k THEN window ELSE hits[l][j], end) # <<>>}
        /\ \A j \in DOMAIN r.hits :
             r.hits[j] = IF j # k THEN hits[l][j]
                         ELSE IF Allows(l, window) THEN Append(window, t) ELSE window
        /\ r.swept = IF due \/ swept[l] = Never THEN t ELSE swept[l]
  BY <1>1
<1>3. DOMAIN r.hits \subseteq Addresses
  BY <1>2 DEF LimiterInv
<1>4. r.swept \in 0..t /\ r.swept \in (0..end) \cup {Never} /\ r.swept # Never /\ r.swept <= t
  <2>1. swept[l] \in (0..time) \cup {Never} /\ \A x \in 0..t : x \in 0..end /\ x # Never /\ x <= t
    BY <1>0 DEF LimiterInv, Never
  <2>2. r.swept \in 0..t
    BY <1>0, <1>2, <2>1
  <2> QED
    BY <2>1, <2>2
<1>5. /\ DOMAIN through2 = Addresses
      /\ \A a \in Addresses \ {k} : through2[a] = through[a]
      /\ through2[k] = IF Allows(l, window) THEN Append(through[k], t) ELSE through[k]
  BY <1>1 DEF LimiterInv
<1> HIDE DEF through2
<1>6. ASSUME NEW a \in Addresses, a # k
      PROVE  AddressInv(l, a \in DOMAIN r.hits, r.hits[a], r.swept, through2[a], end)
  <2> DEFINE listed == a \in DOMAIN hits[l]
             kept == a \in DOMAIN r.hits
             list == hits[l][a]
  <2>1. /\ listed \in BOOLEAN /\ kept \in BOOLEAN
        /\ AddressInv(l, listed, list, swept[l], through[a], time)
    BY DEF LimiterInv
  <2>2. listed => /\ list # <<>> /\ Sorted(list) /\ list[Len(list)] > swept[l] - Window
    BY <2>1 DEF AddressInv, Past
  <2>3. kept <=> listed /\ (due => list = <<>> \/ Fresh(list, end) # <<>>)
    BY <1>2, <1>6
  <2>4. ~ kept => ~ listed \/ Fresh(list, end) = <<>>
    BY <2>3
  <2>5. listed => swept[l] # Never
    BY DEF LimiterInv
  <2>6. kept => r.hits[a] = list
    BY <1>2, <1>6
  <2> HIDE DEF kept, listed, list
  <2>7. kept => listed /\ list[Len(list)] > r.swept - Window
    <3> SUFFICES ASSUME kept
                 PROVE  list[Len(list)] > r.swept - Window
      BY <2>3
    <3>1. CASE due
      <4>1. Sorted(list) /\ Fresh(list, end) # <<>> /\ list # <<>>
        BY <2>2, <2>3, <3>1
      <4>2. N(list, end) # 0
        BY <1>0, <4>1, CountIsZero
      <4>3. list[Len(list)] > end - Window /\ list[Len(list)] \in Int
        BY <1>0, <4>1, <4>2, LastIsFresh
      <4> QED
        BY <1>0, <1>4, <4>3
    <3>2. CASE ~ due
      <4>1. r.swept = swept[l]
        BY <1>2, <2>3, <2>5, <3>2
      <4> QED
        BY <2>2, <2>3, <4>1
    <3> QED
      BY <3>1, <3>2
  <2>8. AddressInv(l, kept, list, r.swept, through[a], end)
    BY <1>0, <2>1, <2>4, <2>7, Left
  <2>9. through2[a] = through[a]
    BY <1>5, <1>6
  <2>10. CASE kept
    BY <2>6, <2>8, <2>9, <2>10 DEF kept
  <2>11. CASE ~ kept
    BY <2>8, <2>9, <2>11 DEF kept, AddressInv
  <2> QED
    BY <2>10, <2>11
<1>7. AddressInv(l, k \in DOMAIN r.hits, r.hits[k], r.swept, through2[k], end)
  <2> DEFINE listed == k \in DOMAIN hits[l]
             kept == k \in DOMAIN r.hits
             list == hits[l][k]
             list2 == IF Allows(l, window) THEN Append(window, t) ELSE window
  <2>1. /\ listed \in BOOLEAN /\ kept \in BOOLEAN
        /\ AddressInv(l, listed, list, swept[l], through[k], time)
    BY DEF LimiterInv
  <2>2. kept <=> (due => window = <<>> \/ Fresh(window, end) # <<>>)
    BY <1>2
  <2>3. ~ kept => window # <<>> /\ Fresh(window, end) = <<>>
    BY <2>2
  <2>4. kept => r.hits[k] = list2
    BY <1>2
  <2>5. window = Fresh(IF listed THEN list ELSE <<>>, t)
    BY DEF window, ListOf
  <2>6. r.swept \in Int /\ r.swept <= t
    BY <1>4
  <2> HIDE DEF kept, listed, list
  <2>7. Asked(l, listed, list, through[k], window, t, end, kept, r.swept, list2, through2[k])
    BY <1>0, <1>5, <2>1, <2>3, <2>5, <2>6 DEF Asked
  <2> HIDE DEF list2
  <2>8. AddressInv(l, kept, list2, r.swept, through2[k], end)
    BY <2>1, <2>7, Asks
  <2>9. CASE kept
    BY <2>4, <2>8, <2>9 DEF kept
  <2>10. CASE ~ kept
    BY <2>8, <2>10 DEF kept, AddressInv
  <2> QED
    BY <2>9, <2>10
<1>8. LimiterInv(l, r.hits, r.swept, through2, end)
  BY <1>3, <1>4, <1>5, <1>6, <1>7 DEF LimiterInv
<1> QED
  BY <1>8 DEF r, through2, end

-----------------------------------------------------------------------------
(* All the limiters.                                                       *)

\* The inductive invariant.
IndInv ==
    /\ clock \in 0..MaxTime
    /\ swept \in [Limiters -> (0..clock) \cup {Never}]
    /\ refused \in (Limiters \X Addresses \X (0..clock)) \cup {NoRefusal}
    /\ NoFalseRefusal
    /\ \A l \in Limiters : LimiterInv(l, hits[l], swept[l], passed[l], clock)

\* The limiters start empty.
LEMMA Initially == Init => IndInv
<1> SUFFICES ASSUME Init
             PROVE  IndInv
  OBVIOUS
<1>1. clock \in 0..MaxTime /\ swept \in [Limiters -> (0..clock) \cup {Never}] /\ refused = NoRefusal
  BY RateAssumption DEF Init
<1>2. \A u \in Int : Sorted(<<>>) /\ N(<<>>, u) = 0
  BY CountOfEmpty
<1>3. 1..Len(<<>>) = {}
  OBVIOUS
<1>4. ASSUME NEW l \in Limiters, NEW list
      PROVE  AddressInv(l, FALSE, list, Never, <<>>, 0)
  <2>1. Past(<<>>, 0)
    BY <1>2, <1>3 DEF Past
  <2>2. \A u \in Int : N(<<>>, u) <= 1
    BY <1>2
  <2> QED
    BY <1>3, <2>1, <2>2 DEF AddressInv
<1>5. ASSUME NEW l \in Limiters
      PROVE  LimiterInv(l, hits[l], swept[l], passed[l], clock)
  <2>1. /\ hits[l] = <<>> /\ swept[l] = Never /\ clock = 0
        /\ DOMAIN passed[l] = Addresses /\ \A a \in Addresses : passed[l][a] = <<>>
    BY DEF Init
  <2>2. DOMAIN hits[l] = {}
    BY <2>1
  <2>3. \A a \in Addresses :
          AddressInv(l, a \in DOMAIN hits[l], hits[l][a], swept[l], passed[l][a], clock)
    <3> SUFFICES ASSUME NEW a \in Addresses
                 PROVE  AddressInv(l, a \in DOMAIN hits[l], hits[l][a], swept[l],
                                   passed[l][a], clock)
      OBVIOUS
    <3>1. (a \in DOMAIN hits[l]) = FALSE
      BY <2>2
    <3> QED
      BY <1>4, <2>1, <3>1
  <2> QED
    BY <2>1, <2>2, <2>3 DEF LimiterInv
<1> QED
  BY <1>1, <1>5 DEF IndInv, NoFalseRefusal

\* Time passes, for every limiter.
LEMMA TickKeeps ==
    ASSUME IndInv, Tick
    PROVE  IndInv'
<1>1. /\ clock \in Nat /\ clock' = clock + 1 /\ clock <= clock'
      /\ clock' \in 0..MaxTime /\ clock' \in Nat
      /\ refused' = NoRefusal /\ hits' = hits /\ swept' = swept
  BY RateAssumption DEF IndInv, Tick
<1>2. swept' \in [Limiters -> (0..clock') \cup {Never}]
  <2>1. \A x \in 0..clock : x \in 0..clock'
    BY <1>1
  <2> QED
    BY <1>1, <2>1 DEF IndInv
<1>3. ASSUME NEW l \in Limiters
      PROVE  LimiterInv(l, hits'[l], swept'[l], passed'[l], clock')
  <2>1. passed'[l] = [k \in Addresses |-> Fresh(passed[l][k], clock' - 2 * MaxPause)]
    BY DEF Tick, Recent
  <2>2. LimiterInv(l, hits[l], swept[l], passed[l], clock)
    BY DEF IndInv
  <2>3. LimiterInv(l, hits[l], swept[l],
                   [k \in Addresses |-> Fresh(passed[l][k], clock' - 2 * MaxPause)], clock')
    BY <1>1, <2>2, LimiterLater
  <2> QED
    BY <1>1, <2>1, <2>3
<1> QED
  BY <1>1, <1>2, <1>3 DEF IndInv, NoFalseRefusal

\* A request that a limiter refuses: as many as the limit were let through.
LEMMA RefusalIsDeserved ==
    ASSUME NEW l \in Limiters, NEW k \in Addresses, Enabled(l), NEW t \in Nat, NEW end \in Nat,
           clock \in Nat, clock <= t, t <= end, end <= clock + 2 * MaxPause,
           LimiterInv(l, hits[l], swept[l], passed[l], clock),
           ~ Allows(l, Fresh(ListOf(hits[l], k), t))
    PROVE  Within(Fresh(passed[l][k], end - 2 * MaxPause), t) >= Rpm[l]
<1> DEFINE list == hits[l][k]
           through == passed[l][k]
           listed == k \in DOMAIN hits[l]
           window == Fresh(ListOf(hits[l], k), t)
           from == end - 2 * MaxPause
<1>1. AddressInv(l, listed, list, swept[l], through, clock)
  BY DEF LimiterInv
<1>2. /\ Rpm[l] \in Nat \ {0} /\ MaxPause \in Nat /\ from \in Int /\ from <= t
      /\ clock - 2 * MaxPause <= t
  BY RateAssumption DEF Enabled
<1>3. ~ (Len(window) < Rpm[l])
  BY DEF Allows
<1>4. listed
  <2> SUFFICES ASSUME ~ listed
               PROVE  FALSE
    OBVIOUS
  <2>1. window = Fresh(<<>>, t)
    BY DEF ListOf
  <2>2. Len(window) = 0
    BY <2>1, CountOfEmpty DEF N
  <2> QED
    BY <1>2, <1>3, <2>2
<1>5. Sorted(list) /\ Sorted(through) /\ N(list, t) <= N(through, t)
      /\ \A i \in 1..Len(through) : through[i] \in 0..clock
  BY <1>1, <1>2, <1>4 DEF AddressInv, Past
<1>6. Len(window) = N(list, t)
  BY <1>4 DEF N, ListOf
<1> HIDE DEF list, through, listed, window, from
<1>7. N(list, t) >= Rpm[l] /\ N(through, t) >= Rpm[l]
  <2>1. N(list, t) \in Nat /\ N(through, t) \in Nat
    BY <1>5, CountFalls
  <2> QED
    BY <1>2, <1>3, <1>5, <1>6, <2>1
<1>8. N(Fresh(through, from), t) = N(through, t)
  BY <1>2, <1>5, CountOfFresh
<1>9. Within(Fresh(through, from), t) = N(Fresh(through, from), t)
  <2>1. Sorted(Fresh(through, from))
    BY <1>2, <1>5, FreshSorted
  <2>2. \A i \in 1..Len(Fresh(through, from)) : Fresh(through, from)[i] <= t
    <3>1. \A i \in 1..Len(Fresh(through, from)) :
            \E j \in 1..Len(through) : Fresh(through, from)[i] = through[j]
      <4> DEFINE kept == Fresh(through, from)
                 gone == Len(through) - Len(kept)
      <4>1. \A j \in 1..Len(kept) : j + gone \in 1..Len(through) /\ kept[j] = through[j + gone]
        BY <1>2, <1>5, FreshFacts
      <4> QED
        BY <4>1
    <3>2. \A j \in 1..Len(through) : through[j] <= t
      BY <1>5
    <3> QED
      BY <3>1, <3>2
  <2> QED
    BY <2>1, <2>2, WithinIs
<1> QED
  BY <1>7, <1>8, <1>9 DEF through, from

\* A request goes through the limiters it uses; time passes for the others.
LEMMA DispatchKeeps ==
    ASSUME IndInv, NEW k \in Addresses, NEW route \in Routes, Dispatch(k, route)
    PROVE  IndInv'
<1>1. PICK p \in 0..MaxPause, q \in 0..MaxPause :
        LET limits == {l \in {"global", route} \cap Limiters : Enabled(l)}
            at     == [l \in limits |-> IF l = "global" THEN clock ELSE clock + p]
            asked  == [l \in limits |-> Allow(l, k, at[l], IF l = "global" THEN p ELSE q)]
            stops  == "global" \in limits /\ ~asked["global"].allowed
            used   == IF stops THEN {"global"} ELSE limits
            refusers == {l \in used : ~asked[l].allowed}
            end    == clock + p + q
        IN  /\ end <= MaxTime
            /\ clock' = end
            /\ hits' = [l \in Limiters |-> IF l \in used THEN asked[l].hits ELSE hits[l]]
            /\ swept' = [l \in Limiters |-> IF l \in used THEN asked[l].swept ELSE swept[l]]
            /\ passed' = Recent([l \in Limiters |->
                            IF l \in used \ refusers
                              THEN [passed[l] EXCEPT ![k] = Append(@, at[l])]
                              ELSE passed[l]], end)
            /\ refused' = IF refusers = {} THEN NoRefusal ELSE
                           LET l == CHOOSE l \in refusers : TRUE IN <<l, k, at[l]>>
  BY DEF Dispatch
<1> DEFINE limits == {l \in {"global", route} \cap Limiters : Enabled(l)}
           at     == [l \in limits |-> IF l = "global" THEN clock ELSE clock + p]
           pause  == [l \in limits |-> IF l = "global" THEN p ELSE q]
           asked  == [l \in limits |-> Allow(l, k, at[l], IF l = "global" THEN p ELSE q)]
           stops  == "global" \in limits /\ ~asked["global"].allowed
           used   == IF stops THEN {"global"} ELSE limits
           refusers == {l \in used : ~asked[l].allowed}
           end    == clock + p + q
           from   == end - 2 * MaxPause
<1>2. used \subseteq limits /\ limits \subseteq Limiters /\ (\A l \in limits : Enabled(l))
  OBVIOUS
<1>3. \A l \in limits : /\ asked[l] = Allow(l, k, at[l], pause[l])
                        /\ at[l] = IF l = "global" THEN clock ELSE clock + p
                        /\ pause[l] = IF l = "global" THEN p ELSE q
  OBVIOUS
<1>4. /\ end <= MaxTime /\ clock' = end
      /\ \A l \in Limiters : hits'[l] = IF l \in used THEN asked[l].hits ELSE hits[l]
      /\ swept' = [l \in Limiters |-> IF l \in used THEN asked[l].swept ELSE swept[l]]
      /\ refusers = {} => refused' = NoRefusal
      /\ refusers # {} => \E l \in refusers : refused' = <<l, k, at[l]>>
  <2>1. /\ end <= MaxTime /\ clock' = end
        /\ swept' = [l \in Limiters |-> IF l \in used THEN asked[l].swept ELSE swept[l]]
        /\ \A l \in Limiters : hits'[l] = IF l \in used THEN asked[l].hits ELSE hits[l]
    BY <1>1
  <2>2. refused' = IF refusers = {} THEN NoRefusal ELSE
                     LET l == CHOOSE l \in refusers : TRUE IN <<l, k, at[l]>>
    BY <1>1
  <2> HIDE DEF used, asked, at, limits, refusers
  <2>3. refusers # {} => (CHOOSE l \in refusers : TRUE) \in refusers
    OBVIOUS
  <2>4. refusers = {} => refused' = NoRefusal
    BY <2>2
  <2>5. refusers # {} => \E l \in refusers : refused' = <<l, k, at[l]>>
    BY <2>2, <2>3
  <2> QED
    BY <2>1, <2>4, <2>5
<1>5. \A l \in Limiters : passed'[l] =
        [a \in Addresses |-> Fresh((IF l \in used \ refusers
                                     THEN [passed[l] EXCEPT ![k] = Append(@, at[l])]
                                     ELSE passed[l])[a], from)]
  <2>1. passed' = Recent([l \in Limiters |->
                            IF l \in used \ refusers
                              THEN [passed[l] EXCEPT ![k] = Append(@, at[l])]
                              ELSE passed[l]], end)
    BY <1>1
  <2> HIDE DEF used, asked, at, limits, refusers, end
  <2> QED
    BY <2>1 DEF Recent
<1>6. \A l \in used : l \in refusers <=> ~ asked[l].allowed
  OBVIOUS
<1>7. refusers \subseteq used
  OBVIOUS
<1> HIDE DEF refusers, used, stops, asked, limits, at, pause
<1>8. /\ clock \in Nat /\ p \in Nat /\ q \in Nat /\ MaxPause \in Nat /\ end \in Nat
      /\ clock <= end /\ end <= clock + 2 * MaxPause /\ end \in 0..MaxTime
  BY <1>4, RateAssumption DEF IndInv
<1>9. \A l \in limits : /\ at[l] \in Nat /\ clock <= at[l] /\ pause[l] \in 0..MaxPause
                        /\ at[l] + pause[l] \in Nat /\ at[l] + pause[l] <= end /\ at[l] <= end
  BY <1>3, <1>8
<1> HIDE DEF end
<1>10. ASSUME NEW l \in Limiters
       PROVE  LimiterInv(l, hits'[l], swept'[l], passed'[l], clock')
  <2> DEFINE through == IF l \in used \ refusers THEN [passed[l] EXCEPT ![k] = Append(@, at[l])]
                        ELSE passed[l]
             then == IF l \in used THEN at[l] + pause[l] ELSE clock
  <2>1. LimiterInv(l, hits[l], swept[l], passed[l], clock)
    BY DEF IndInv
  <2>2. LimiterInv(l, hits'[l], swept'[l], through, then)
    <3>1. CASE l \in used
      <4> DEFINE rr == Allow(l, k, at[l], pause[l])
                 t == at[l]
                 pp == pause[l]
      <4>1. t \in Nat /\ clock <= t /\ pp \in 0..MaxPause /\ Enabled(l) /\ rr = asked[l]
        BY <1>2, <1>3, <1>9, <3>1
      <4> HIDE DEF t, pp
      <4>2. LimiterInv(l, Allow(l, k, t, pp).hits, Allow(l, k, t, pp).swept,
                       IF Allow(l, k, t, pp).allowed THEN [passed[l] EXCEPT ![k] = Append(@, t)]
                       ELSE passed[l], t + pp)
        BY <1>8, <2>1, <4>1, AllowKeeps
      <4>3. LimiterInv(l, rr.hits, rr.swept,
                       IF rr.allowed THEN [passed[l] EXCEPT ![k] = Append(@, at[l])]
                       ELSE passed[l], at[l] + pause[l])
        BY <4>2 DEF t, pp
      <4> HIDE DEF rr
      <4>4. hits'[l] = rr.hits /\ swept'[l] = rr.swept
        BY <1>4, <3>1, <4>1
      <4>5. through = IF rr.allowed THEN [passed[l] EXCEPT ![k] = Append(@, at[l])] ELSE passed[l]
        BY <1>6, <3>1, <4>1
      <4>6. then = at[l] + pause[l]
        BY <3>1
      <4> HIDE DEF through, then
      <4> QED
        BY <4>3, <4>4, <4>5, <4>6
    <3>2. CASE l \notin used
      BY <1>4, <2>1, <3>2
    <3> QED
      BY <3>1, <3>2
  <2>3. then \in Nat /\ then <= end
    BY <1>2, <1>8, <1>9
  <2>4. passed'[l] = [a \in Addresses |-> Fresh(through[a], from)]
    BY <1>5
  <2> HIDE DEF through, then
  <2>5. LimiterInv(l, hits'[l], swept'[l],
                   [a \in Addresses |-> Fresh(through[a], end - 2 * MaxPause)], end)
    BY <1>8, <2>2, <2>3, LimiterLater
  <2> QED
    BY <1>4, <2>4, <2>5
<1>11. swept' \in [Limiters -> (0..clock') \cup {Never}]
  <2>1. \A l \in Limiters : swept'[l] \in (0..clock') \cup {Never}
    BY <1>10 DEF LimiterInv
  <2>2. DOMAIN swept' = Limiters /\ swept' = [l \in Limiters |-> swept'[l]]
    BY <1>4
  <2> QED
    BY <2>1, <2>2
<1>12. ASSUME NEW l \in refusers, refused' = <<l, k, at[l]>>
       PROVE  refused' \in Limiters \X Addresses \X (0..clock') /\ NoFalseRefusal'
  <2>1. l \in used /\ l \in limits /\ l \in Limiters /\ Enabled(l)
    BY <1>2, <1>7
  <2>2. at[l] \in Nat /\ clock <= at[l] /\ at[l] <= end /\ at[l] \in 0..clock'
    BY <1>4, <1>8, <1>9, <2>1
  <2>3. ~ Allows(l, Fresh(ListOf(hits[l], k), at[l]))
    BY <1>3, <1>6, <2>1, AllowFacts
  <2>4. passed'[l][k] = Fresh(passed[l][k], from)
    BY <1>5, <2>1
  <2>5. Within(passed'[l][k], at[l]) >= Rpm[l]
    BY <1>8, <2>1, <2>2, <2>3, <2>4, RefusalIsDeserved DEF IndInv
  <2> QED
    BY <1>12, <2>1, <2>2, <2>5 DEF NoFalseRefusal
<1>13. refused' \in (Limiters \X Addresses \X (0..clock')) \cup {NoRefusal} /\ NoFalseRefusal'
  BY <1>4, <1>12 DEF NoFalseRefusal
<1> QED
  BY <1>4, <1>8, <1>10, <1>11, <1>13 DEF IndInv

\* No step breaks the invariant.
LEMMA Inductive == IndInv /\ [Next]_vars => IndInv'
<1> SUFFICES ASSUME IndInv, [Next]_vars
             PROVE  IndInv'
  OBVIOUS
<1>1. CASE Tick
  BY <1>1, TickKeeps
<1>2. ASSUME NEW k \in Addresses, NEW route \in Routes, Dispatch(k, route)
      PROVE  IndInv'
  BY <1>2, DispatchKeeps
<1>3. CASE UNCHANGED vars
  BY <1>3 DEF vars, IndInv, NoFalseRefusal
<1> QED
  BY <1>1, <1>2, <1>3 DEF Next

\* So it always holds.
LEMMA Invariance == Spec => []IndInv
BY Initially, Inductive, PTL DEF Spec

\* The type the type invariant gives a list of hits.
LEMMA PastIsSeq ==
    ASSUME NEW times, NEW time, Past(times, time)
    PROVE  /\ times \in Seq(0..time) /\ DOMAIN times = 1..Len(times)
           /\ \A i, j \in DOMAIN times : i < j => times[i] <= times[j]
<1>1. times \in Seq(Int) /\ Len(times) \in Nat /\ DOMAIN times = 1..Len(times)
  BY LenProperties DEF Past, Sorted
<1>2. times \in [1..Len(times) -> 0..time]
  <2>1. times = [i \in 1..Len(times) |-> times[i]]
    BY <1>1, LenProperties
  <2> QED
    BY <2>1 DEF Past
<1>3. times \in Seq(0..time)
  <2> DEFINE n == Len(times)
             S == 0..time
  <2>1. n \in Nat /\ times \in [1..n -> S]
    BY <1>1, <1>2
  <2> HIDE DEF n, S
  <2>2. times \in Seq(S)
    BY <2>1, SeqDef
  <2> QED
    BY <2>2 DEF S
<1> QED
  BY <1>1, <1>3 DEF Past, Sorted

\* Whatever the limiters sweep, and however long it takes them: every list has
\* its hits in the order of their times, and no time is later than the clock.
THEOREM TypeCorrect == Spec => []TypeOK
<1>1. IndInv => TypeOK
  <2> SUFFICES ASSUME IndInv, NEW l \in Limiters
               PROVE  /\ DOMAIN hits[l] \subseteq Addresses
                      /\ \A k \in DOMAIN hits[l] : Past(hits[l][k], clock)
    BY PastIsSeq DEF IndInv, TypeOK
  <2> QED
    BY DEF IndInv, LimiterInv, AddressInv
<1> QED
  BY <1>1, Invariance, PTL

\* A 429 is deserved: the limiter let through rpm requests of the address in the
\* window that ends with the refused one, whatever was swept in between.
THEOREM RefusalsAreDeserved == Spec => []NoFalseRefusal
<1>1. IndInv => NoFalseRefusal
  BY DEF IndInv
<1> QED
  BY <1>1, Invariance, PTL

\* The dict does not leak: every list in it ends with a hit that was in the
\* window of the last sweep, or is later.
THEOREM NothingIsKept == Spec => []NoGarbage
<1>1. IndInv => NoGarbage
  BY DEF IndInv, LimiterInv, AddressInv, NoGarbage
<1> QED
  BY <1>1, Invariance, PTL

\* The limit, for any number of addresses and however long the sweeps take: no
\* window lets more than rpm requests of an address through, but for one.  A hit
\* gets lost only with a list that has expired; by the time that happens again
\* the hit that was lost first has expired as well.
THEOREM LimitHolds == Spec => []AtMostOneOver
<1>1. IndInv => AtMostOneOver
  <2> SUFFICES ASSUME IndInv, NEW l \in Limiters, NEW k \in Addresses,
                      NEW i \in DOMAIN passed[l][k], Enabled(l)
               PROVE  Within(passed[l][k], passed[l][k][i]) <= Rpm[l] + 1
    BY DEF AtMostOneOver
  <2>1. AddressInv(l, k \in DOMAIN hits[l], hits[l][k], swept[l], passed[l][k], clock)
    BY DEF IndInv, LimiterInv
  <2>2. i \in 1..Len(passed[l][k])
    BY <2>1, PastIsSeq DEF AddressInv
  <2> QED
    BY <2>1, <2>2 DEF AddressInv
<1> QED
  BY <1>1, Invariance, PTL
=============================================================================
