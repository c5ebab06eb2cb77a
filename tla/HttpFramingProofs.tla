------------------------- MODULE HttpFramingProofs --------------------------
(***************************************************************************)
(* What parse_request promises whatever its limits and its input: its      *)
(* verdicts survive fragmentation, unfinished requests leave room, and it  *)
(* accepts exactly the grammar of HttpFramingCheck, whose loops over       *)
(* digits and fields are folds; and what the replies to a stream of        *)
(* requests are, for the workers' proofs.                                  *)
(***************************************************************************)
EXTENDS HttpFramingCheck, HttpReplies, SequenceTheorems, FiniteSetTheorems,
        WellFoundedInduction, TLAPS

-----------------------------------------------------------------------------
(* The Content-Length digit guard.                                         *)

\* The guard of the digit loop, written with a division so that size_t cannot
\* overflow, stops exactly the digit that would take the body length past
\* INPUT_CAPACITY, and never subtracts below zero.
THEOREM DigitGuardIsExact ==
    ASSUME NEW body_length \in Nat, NEW digit \in 0..9
    PROVE  /\ DigitOverflows(body_length, digit) <=> body_length * 10 + digit > InputCapacity
           /\ InputCapacity - digit \in Nat
  <1> DEFINE room == InputCapacity - digit
  <1>1. room \in Nat /\ InputCapacity \in Nat
    BY FramingAssumption
  <1>2. room = 10 * (room \div 10) + (room % 10) /\ room % 10 \in 0..9 /\ room \div 10 \in Int
    BY <1>1
  <1>3. body_length > room \div 10 <=> body_length * 10 > room
    BY <1>1, <1>2
  <1>4. QED
    BY <1>1, <1>3 DEF DigitOverflows

-----------------------------------------------------------------------------
(* The head of a stream does not depend on what follows it.                *)

LEMMA PrefixElements ==
    ASSUME NEW S, NEW s \in Seq(S), NEW t \in Seq(S)
    PROVE  /\ s \o t \in Seq(S)
           /\ Len(s \o t) = Len(s) + Len(t)
           /\ \A i \in 1..Len(s) : (s \o t)[i] = s[i]
  BY ConcatProperties

LEMMA HeadOfPrefix ==
    ASSUME NEW S, NEW s \in Seq(S), NEW t \in Seq(S),
           NEW n \in 2..Len(s)
    PROVE  HeadEnds(s \o t, n) <=> HeadEnds(s, n)
  <1>1. /\ Len(s) \in Nat /\ Len(s \o t) \in Nat /\ Len(s) <= Len(s \o t)
        /\ \A i \in 1..Len(s) : (s \o t)[i] = s[i]
    BY PrefixElements, LenProperties
  <1>2. \A i \in 2..n : i \in 1..Len(s)
    BY <1>1
  <1>3. n \in 2..Len(s \o t) /\ n - 1 \in Int
    BY <1>1
  <1>4. \A i \in 2..(n - 1) : i \in 2..n
    BY <1>1
  <1>5. QED
    BY <1>1, <1>2, <1>3, <1>4 DEF HeadEnds

LEMMA HeadIsUnique ==
    ASSUME NEW s, Len(s) \in Nat,
           NEW m \in 2..Len(s), NEW n \in 2..Len(s), HeadEnds(s, m), HeadEnds(s, n)
    PROVE  m = n
  <1>1. CASE m < n
    <2>1. m \in 2..(n - 1)
      BY <1>1
    <2>2. QED
      BY <2>1 DEF HeadEnds
  <1>2. CASE n < m
    <2>1. n \in 2..(m - 1)
      BY <1>2
    <2>2. QED
      BY <2>1 DEF HeadEnds
  <1>3. QED
    BY <1>1, <1>2

\* A parsed head is decided by its own lines, and by the number of lines that
\* follow only while the request is incomplete.
LEMMA ParseHeadOfPrefix ==
    ASSUME NEW S, NEW s \in Seq(S), NEW t \in Seq(S),
           NEW n \in 2..Len(s), ParseHead(s, n) # Incomplete
    PROVE  ParseHead(s \o t, n) = ParseHead(s, n)
  <1>1. /\ Len(s) \in Nat /\ Len(t) \in Nat /\ Len(s \o t) = Len(s) + Len(t)
        /\ \A i \in 1..Len(s) : (s \o t)[i] = s[i]
    BY PrefixElements, LenProperties
  <1>2. (s \o t)[1] = s[1]
    BY <1>1
  <1>3. SubSeq(s \o t, 2, n - 1) = SubSeq(s, 2, n - 1)
    <2>1. \A i \in 1..(n - 2) : (s \o t)[2 + i - 1] = s[2 + i - 1]
      BY <1>1
    <2>2. QED
      BY <2>1, <1>1
  <1> DEFINE fields == ParseFields(SubSeq(s, 2, n - 1))
             length == n + fields.body_length
             bad == \/ n > HeaderLimit
                    \/ s[1].kind \notin {"http11", "http10"}
                    \/ ~fields.ok
                    \/ fields.body_length \notin 0..(InputCapacity - n)
  <1>4. CASE bad
    BY <1>2, <1>3, <1>4 DEF ParseHead
  <1>5. CASE ~bad
    <2>1. fields.body_length \in 0..(InputCapacity - n)
      BY <1>5
    <2>2. length \in Int
      BY <2>1, FramingAssumption
    <2>3. ~(Len(s) < length)
      BY <1>5 DEF ParseHead
    <2>4. ~(Len(s \o t) < length)
      BY <2>2, <2>3, <1>1
    <2>5. QED
      BY <1>2, <1>3, <1>5, <2>3, <2>4 DEF ParseHead
  <1>6. QED
    BY <1>4, <1>5

\* Bytes that arrive later leave a decided request alone: for every stream,
\* every way of fragmenting it and every value of the limits.
THEOREM FragmentationIndependence ==
    ASSUME NEW S, NEW s \in Seq(S), NEW t \in Seq(S),
           ParseRequest(s).verdict # "incomplete"
    PROVE  ParseRequest(s \o t) = ParseRequest(s)
  <1>1. /\ Len(s) \in Nat /\ Len(t) \in Nat /\ Len(s \o t) = Len(s) + Len(t)
        /\ Len(s \o t) \in Nat
    BY PrefixElements, LenProperties
  <1>2. 2..Len(s) \subseteq 2..Len(s \o t)
    BY <1>1
  <1>3. CASE \E n \in 2..Len(s) : HeadEnds(s, n)
    <2>1. PICK n \in 2..Len(s) : HeadEnds(s, n)
      BY <1>3
    <2>2. n \in 2..Len(s \o t) /\ HeadEnds(s \o t, n)
      BY <2>1, <1>2, HeadOfPrefix
    <2>3. n = CHOOSE m \in 2..Len(s) : HeadEnds(s, m)
      BY <2>1, <1>1, HeadIsUnique
    <2>4. n = CHOOSE m \in 2..Len(s \o t) : HeadEnds(s \o t, m)
      BY <2>2, <1>1, HeadIsUnique
    <2>5. ParseRequest(s) = ParseHead(s, n)
      BY <2>1, <2>3 DEF ParseRequest
    <2>6. ParseRequest(s \o t) = ParseHead(s \o t, n)
      BY <2>2, <2>4 DEF ParseRequest
    <2>7. ParseHead(s, n) # Incomplete
      BY <2>5 DEF Incomplete, Result
    <2>8. QED
      BY <2>1, <2>5, <2>6, <2>7, ParseHeadOfPrefix
  <1>4. CASE ~\E n \in 2..Len(s) : HeadEnds(s, n)
    <2>1. Len(s) >= HeaderLimit /\ ParseRequest(s) = Rejected
      BY <1>4 DEF ParseRequest, Incomplete, Result
    <2>2. CASE ~\E n \in 2..Len(s \o t) : HeadEnds(s \o t, n)
      <3>1. Len(s \o t) >= HeaderLimit
        BY <1>1, <2>1, FramingAssumption
      <3>2. QED
        BY <2>1, <2>2, <3>1 DEF ParseRequest
    <2>3. CASE \E n \in 2..Len(s \o t) : HeadEnds(s \o t, n)
      <3>1. PICK n \in 2..Len(s \o t) : HeadEnds(s \o t, n)
        BY <2>3
      <3>2. n = CHOOSE m \in 2..Len(s \o t) : HeadEnds(s \o t, m)
        BY <3>1, <1>1, HeadIsUnique
      <3>3. ~(n \in 2..Len(s))
        BY <3>1, <1>4, HeadOfPrefix
      <3>4. n > HeaderLimit
        BY <3>1, <3>3, <1>1, <2>1, FramingAssumption
      <3>5. ParseHead(s \o t, n) = Rejected
        BY <3>4 DEF ParseHead
      <3>6. QED
        BY <2>1, <2>3, <3>2, <3>5 DEF ParseRequest
    <2>4. QED
      BY <2>2, <2>3
  <1>5. QED
    BY <1>3, <1>4

\* What ParseRequest returns: a complete request is a prefix of the input that
\* is not longer than the input can hold, an incomplete one is shorter.
THEOREM ParseRequestResult ==
    ASSUME NEW S, NEW s \in Seq(S)
    PROVE  LET r == ParseRequest(s)
           IN /\ r.verdict \in Verdicts
              /\ r.close_after \in BOOLEAN /\ r.http10 \in BOOLEAN
              /\ r.verdict = "complete" => r.length \in 2..Len(s) /\ r.length <= InputCapacity
              /\ r.verdict = "incomplete" => Len(s) < InputCapacity
  <1>1. Len(s) \in Nat
    BY LenProperties
  <1>2. ASSUME NEW n \in 2..Len(s)
        PROVE  LET r == ParseHead(s, n)
               IN /\ r.verdict \in Verdicts
                  /\ r.close_after \in BOOLEAN /\ r.http10 \in BOOLEAN
                  /\ r.verdict = "complete" => r.length \in 2..Len(s) /\ r.length <= InputCapacity
                  /\ r.verdict = "incomplete" => Len(s) < InputCapacity
    <2> DEFINE fields == ParseFields(SubSeq(s, 2, n - 1))
               http10 == s[1].kind = "http10"
               length == n + fields.body_length
               close_after == fields.close_requested \/ (http10 /\ ~fields.keep)
               bad == \/ n > HeaderLimit
                      \/ s[1].kind \notin {"http11", "http10"}
                      \/ ~fields.ok
                      \/ fields.body_length \notin 0..(InputCapacity - n)
    <2>1. CASE bad
      BY <2>1 DEF ParseHead, Rejected, Result, Verdicts
    <2>2. CASE ~bad
      <3>1. fields.body_length \in Nat /\ fields.body_length <= InputCapacity - n
        BY <2>2, FramingAssumption
      <3>2. length \in Nat /\ length >= 2 /\ length <= InputCapacity
        BY <3>1, FramingAssumption
      <3>3. ParseHead(s, n) = IF Len(s) < length THEN Incomplete
                              ELSE Result("complete", length, close_after, http10)
        BY <2>2 DEF ParseHead
      <3>4. close_after \in BOOLEAN /\ http10 \in BOOLEAN
        OBVIOUS
      <3> HIDE DEF length, close_after, http10
      <3>5. CASE Len(s) < length
        BY <3>2, <3>3, <3>5, <1>1, FramingAssumption DEF Incomplete, Result, Verdicts
      <3>6. CASE ~(Len(s) < length)
        BY <3>2, <3>3, <3>4, <3>6, <1>1, FramingAssumption DEF Result, Verdicts
      <3>7. QED
        BY <3>5, <3>6
    <2>3. QED
      BY <2>1, <2>2
  <1>3. CASE \E n \in 2..Len(s) : HeadEnds(s, n)
    BY <1>2, <1>3 DEF ParseRequest
  <1>4. CASE ~\E n \in 2..Len(s) : HeadEnds(s, n)
    BY <1>1, <1>4, FramingAssumption DEF ParseRequest, Rejected, Incomplete, Result, Verdicts
  <1>5. QED
    BY <1>3, <1>4

-----------------------------------------------------------------------------
(* Induction over the naturals, stated with sets.                          *)

LEMMA LeastNatural ==
    ASSUME NEW T, T \subseteq Nat, T # {}
    PROVE  \E n \in T : \A m \in T : n <= m
  <1> DEFINE less == {ss \in Nat \X Nat : ss[1] < ss[2]}
  <1>1. IsWellFoundedOn(less, Nat)
    BY NatLessThanWellFounded DEF OpToRel
  <1> HIDE DEF less
  <1>2. PICK n \in T : \A m \in T : ~(<<m, n>> \in less)
    BY <1>1, WFMin
  <1>3. ASSUME NEW m \in T PROVE n <= m
    <2>1. ~(m < n)
      BY <1>2 DEF less
    <2>2. QED
      BY <2>1
  <1>4. QED
    BY <1>2, <1>3

LEMMA NatSetInduction ==
    ASSUME NEW T, 0 \in T, \A n \in Nat : n \in T => n + 1 \in T
    PROVE  Nat \subseteq T
  <1> SUFFICES ASSUME ~(Nat \subseteq T) PROVE FALSE
    OBVIOUS
  <1>1. PICK n \in Nat \ T : \A m \in Nat \ T : n <= m
    BY LeastNatural
  <1>2. n - 1 \in Nat /\ n - 1 \in T
    BY <1>1
  <1>3. QED
    BY <1>1, <1>2

-----------------------------------------------------------------------------
(* A fold over a sequence, as the values it takes on its prefixes.         *)

LEMMA MaxOfSome ==
    ASSUME NEW n \in Nat, NEW S \in SUBSET (1..n), S # {}
    PROVE  Max(S) \in S /\ \A x \in S : x <= Max(S)
<1> DEFINE Gaps == {g \in Nat : n - g \in S}
<1>1. PICK x \in S : TRUE
  OBVIOUS
<1>2. n - x \in Gaps
  <2>1. x \in 1..n /\ n - (n - x) = x
    OBVIOUS
  <2>. QED  BY <2>1
<1>3. PICK g \in Gaps : \A h \in Gaps : g <= h
  <2>1. Gaps \subseteq Nat /\ Gaps # {}
    BY <1>2
  <2> HIDE DEF Gaps
  <2>. QED  BY <2>1, LeastNatural
<1>4. ASSUME NEW y \in S
      PROVE  y <= n - g
  <2>1. y \in 1..n /\ n - (n - y) = y
    OBVIOUS
  <2>2. n - y \in Gaps
    BY <2>1
  <2>3. g <= n - y /\ g \in Nat
    BY <1>3, <2>2
  <2>. QED  BY <2>1, <2>3
<1>5. n - g \in S /\ \A y \in S : n - g >= y
  BY <1>3, <1>4
<1>6. \A y \in S : y \in Int
  OBVIOUS
<1>7. Max(S) \in S /\ \A y \in S : Max(S) >= y
  BY <1>5 DEF Max
<1>. QED  BY <1>6, <1>7

LEMMA LastOfInterval ==
    ASSUME NEW n \in Nat, NEW m \in Nat, m + 1 <= n
    PROVE  /\ 1..(m + 1) \in SUBSET (1..n) /\ 1..(m + 1) # {}
           /\ Max(1..(m + 1)) = m + 1 /\ (1..(m + 1)) \ {m + 1} = 1..m
<1>1. /\ 1..(m + 1) \in SUBSET (1..n) /\ 1..(m + 1) # {}
      /\ 1..(m + 1) \in SUBSET (1..(m + 1)) /\ m + 1 \in 1..(m + 1)
  <2>1. m + 1 \in 1..(m + 1)
    OBVIOUS
  <2>2. \A j \in 1..(m + 1) : j \in 1..n
    OBVIOUS
  <2>. QED  BY <2>1, <2>2
<1>2. Max(1..(m + 1)) \in 1..(m + 1) /\ m + 1 <= Max(1..(m + 1))
  <2>1. m + 1 \in Nat
    OBVIOUS
  <2>. QED  BY <1>1, <2>1, MaxOfSome
<1>3. Max(1..(m + 1)) = m + 1
  BY <1>2
<1>4. (1..(m + 1)) \ {m + 1} = 1..m
  OBVIOUS
<1>. QED  BY <1>1, <1>3, <1>4

\* The recursion of FoldLeft over the subsets of D, when the operator folded is
\* the function G.
Folds(g, D, G, base, seq) ==
    g = [S \in SUBSET D |-> IF S = {} THEN base ELSE G[g[S \ {Max(S)}], seq[Max(S)]]]

FoldsIn(V, n, G, base, seq) ==
    \E g \in [SUBSET (1..n) -> V] : Folds(g, 1..n, G, base, seq)

LEMMA FoldsExists ==
    ASSUME NEW V, NEW E, NEW G \in [V \X E -> V], NEW base \in V, NEW seq, NEW n \in Nat,
           \A i \in 1..n : seq[i] \in E
    PROVE  FoldsIn(V, n, G, base, seq)
<1> DEFINE Folded == {m \in Nat : m <= n => FoldsIn(V, m, G, base, seq)}
<1>1. 0 \in Folded
  <2> DEFINE g == [S \in SUBSET (1..0) |-> base]
  <2>1. \A S \in SUBSET (1..0) : S = {}
    OBVIOUS
  <2>2. g = [S \in SUBSET (1..0) |-> IF S = {} THEN base
                                     ELSE G[g[S \ {Max(S)}], seq[Max(S)]]]
    BY <2>1
  <2>3. Folds(g, 1..0, G, base, seq) /\ g \in [SUBSET (1..0) -> V]
    BY <2>2 DEF Folds
  <2>. QED  BY <2>3 DEF FoldsIn
<1>2. ASSUME NEW m \in Nat, m \in Folded PROVE m + 1 \in Folded
  <2>0. SUFFICES ASSUME m + 1 <= n PROVE FoldsIn(V, m + 1, G, base, seq)
    OBVIOUS
  <2>1. PICK g \in [SUBSET (1..m) -> V] : Folds(g, 1..m, G, base, seq)
    <3>1. FoldsIn(V, m, G, base, seq)
      BY <1>2, <2>0
    <3>. QED  BY <3>1 DEF FoldsIn
  <2> DEFINE h == [S \in SUBSET (1..(m + 1)) |->
                     IF m + 1 \in S THEN G[g[S \ {m + 1}], seq[m + 1]] ELSE g[S]]
  <2>2. \A S \in SUBSET (1..m) : S \in SUBSET (1..(m + 1)) /\ m + 1 \notin S
    OBVIOUS
  <2>3. \A S \in SUBSET (1..m) : h[S] = g[S]
    BY <2>2
  <2>4. \A S \in SUBSET (1..m) : g[S] = IF S = {} THEN base
                                        ELSE G[g[S \ {Max(S)}], seq[Max(S)]]
    BY <2>1 DEF Folds
  <2>5. ASSUME NEW S \in SUBSET (1..(m + 1)), m + 1 \in S
        PROVE  /\ h[S] = IF S = {} THEN base ELSE G[h[S \ {Max(S)}], seq[Max(S)]]
               /\ h[S] \in V
    <3>1. Max(S) \in S /\ m + 1 <= Max(S)
      <4>1. m + 1 \in Nat
        OBVIOUS
      <4>. QED  BY <2>5, <4>1, MaxOfSome
    <3>2. Max(S) = m + 1
      <4>1. PICK x : x = Max(S)
        OBVIOUS
      <4>2. x \in 1..(m + 1) /\ m + 1 <= x
        BY <3>1, <4>1
      <4>3. x = m + 1
        BY <4>2
      <4>. QED  BY <4>1, <4>3
    <3>3. S \ {m + 1} \in SUBSET (1..m)
      OBVIOUS
    <3>4. h[S] = G[g[S \ {m + 1}], seq[m + 1]]
      BY <2>5
    <3>5. h[S \ {m + 1}] = g[S \ {m + 1}]
      BY <2>3, <3>3
    <3>6. h[S] \in V
      <4>1. g[S \ {m + 1}] \in V
        BY <2>1, <3>3
      <4>2. seq[m + 1] \in E
        <5>1. m + 1 \in 1..n
          BY <2>0
        <5>. QED  BY <5>1
      <4>. QED  BY <3>4, <4>1, <4>2
    <3> HIDE DEF h
    <3>. QED  BY <2>5, <3>2, <3>4, <3>5, <3>6
  <2>6. ASSUME NEW S \in SUBSET (1..(m + 1)), m + 1 \notin S
        PROVE  /\ h[S] = IF S = {} THEN base ELSE G[h[S \ {Max(S)}], seq[Max(S)]]
               /\ h[S] \in V
    <3>1. S \in SUBSET (1..m)
      BY <2>6
    <3>2. S \ {Max(S)} \in SUBSET (1..m)
      BY <3>1
    <3>3. h[S] = g[S] /\ h[S \ {Max(S)}] = g[S \ {Max(S)}]
      BY <2>3, <3>1, <3>2
    <3> HIDE DEF h
    <3>. QED  BY <2>1, <2>4, <3>1, <3>3
  <2>7. h = [S \in SUBSET (1..(m + 1)) |-> IF S = {} THEN base
                                           ELSE G[h[S \ {Max(S)}], seq[Max(S)]]]
    BY <2>5, <2>6
  <2>8. h \in [SUBSET (1..(m + 1)) -> V]
    BY <2>5, <2>6
  <2> HIDE DEF h
  <2>9. Folds(h, 1..(m + 1), G, base, seq)
    BY <2>7 DEF Folds
  <2>. QED  BY <2>8, <2>9 DEF FoldsIn
<1> HIDE DEF Folded
<1>3. n \in Folded
  BY <1>1, <1>2, NatSetInduction
<1>. QED  BY <1>3 DEF Folded

\* The same, part by part, with everything in its set.
FoldsTyped(g, V, E, n, G, base, seq) ==
    /\ g = [S \in SUBSET (1..n) |-> g[S]]
    /\ \A S \in SUBSET (1..n) :
          /\ S = {} => g[S] = base
          /\ S # {} => /\ g[S \ {Max(S)}] \in V /\ seq[Max(S)] \in E
                       /\ g[S] = G[g[S \ {Max(S)}], seq[Max(S)]]

LEMMA FoldsByParts ==
    ASSUME NEW V, NEW E, NEW G \in [V \X E -> V], NEW base \in V, NEW seq, NEW n \in Nat,
           \A i \in 1..n : seq[i] \in E
    PROVE  \E g : FoldsTyped(g, V, E, n, G, base, seq)
<1>1. FoldsIn(V, n, G, base, seq)
  BY FoldsExists
<1>2. PICK g \in [SUBSET (1..n) -> V] : Folds(g, 1..n, G, base, seq)
  BY <1>1 DEF FoldsIn
<1>3. ASSUME NEW S \in SUBSET (1..n), S # {}
      PROVE  /\ g[S \ {Max(S)}] \in V /\ seq[Max(S)] \in E
             /\ g[S] = G[g[S \ {Max(S)}], seq[Max(S)]]
  <2>1. Max(S) \in 1..n
    BY <1>3, MaxOfSome
  <2>2. S \ {Max(S)} \in SUBSET (1..n)
    OBVIOUS
  <2>3. g[S] = IF S = {} THEN base ELSE G[g[S \ {Max(S)}], seq[Max(S)]]
    BY <1>2 DEF Folds
  <2>. QED  BY <1>3, <2>1, <2>2, <2>3
<1>4. \A S \in SUBSET (1..n) : S = {} => g[S] = base
  BY <1>2 DEF Folds
<1>5. g = [S \in SUBSET (1..n) |-> g[S]]
  OBVIOUS
<1>. QED  BY <1>3, <1>4, <1>5 DEF FoldsTyped

\* g satisfies the recursion wherever its values are in V.
FoldsWithin(g, V, n, G, base, seq) ==
    \A S \in SUBSET (1..n) :
       /\ S = {} => g[S] = base
       /\ S # {} /\ g[S \ {Max(S)}] \in V => g[S] = G[g[S \ {Max(S)}], seq[Max(S)]]

\* The values on the prefixes of seq, from the first to `result'.
StepsTo(V, n, G, base, seq, result) ==
    \E v \in [0..n -> V] :
       /\ v[0] = base /\ v[n] = result
       /\ \A m \in 0..(n - 1) : v[m + 1] = G[v[m], seq[m + 1]]

LEMMA FoldSteps ==
    ASSUME NEW V, NEW E, NEW G \in [V \X E -> V], NEW base \in V, NEW seq, NEW n \in Nat,
           \A i \in 1..n : seq[i] \in E,
           NEW g, FoldsWithin(g, V, n, G, base, seq)
    PROVE  StepsTo(V, n, G, base, seq, g[1..n])
<1>1. g[1..0] = base
  <2>1. 1..0 = {} /\ 1..0 \in SUBSET (1..n)
    OBVIOUS
  <2>. QED  BY <2>1 DEF FoldsWithin
<1>2. ASSUME NEW m \in Nat, m + 1 <= n, g[1..m] \in V
      PROVE  g[1..(m + 1)] = G[g[1..m], seq[m + 1]] /\ g[1..(m + 1)] \in V
  <2>1. /\ 1..(m + 1) \in SUBSET (1..n) /\ 1..(m + 1) # {}
        /\ Max(1..(m + 1)) = m + 1 /\ (1..(m + 1)) \ {m + 1} = 1..m
    BY <1>2, LastOfInterval
  <2>2. g[1..(m + 1)] = G[g[1..m], seq[m + 1]]
    BY <1>2, <2>1 DEF FoldsWithin
  <2>3. m + 1 \in 1..n
    BY <1>2
  <2>. QED  BY <1>2, <2>2, <2>3
<1> DEFINE Typed == {m \in Nat : m <= n => g[1..m] \in V}
<1>3. 0 \in Typed
  BY <1>1
<1>4. ASSUME NEW m \in Nat, m \in Typed PROVE m + 1 \in Typed
  <2>1. m + 1 \in Nat /\ (m + 1 <= n => m <= n)
    OBVIOUS
  <2>. QED  BY <1>2, <1>4, <2>1
<1> HIDE DEF Typed
<1>5. \A m \in 0..n : g[1..m] \in V
  <2>1. Nat \subseteq Typed
    BY <1>3, <1>4, NatSetInduction
  <2>. QED  BY <2>1 DEF Typed
<1>6. PICK v : v = [m \in 0..n |-> g[1..m]]
  OBVIOUS
<1>7. v \in [0..n -> V] /\ v[0] = base /\ v[n] = g[1..n]
  BY <1>1, <1>5, <1>6
<1>8. ASSUME NEW m \in 0..(n - 1)
      PROVE  v[m + 1] = G[v[m], seq[m + 1]]
  <2>1. m \in Nat /\ m + 1 <= n /\ m \in 0..n /\ m + 1 \in 0..n
    OBVIOUS
  <2>. QED  BY <1>2, <1>5, <1>6, <2>1
<1>. QED  BY <1>7, <1>8 DEF StepsTo

-----------------------------------------------------------------------------
(* The loop over the digits of Content-Length.                             *)

\* The values of the loop over the digits.
Values == [ok : BOOLEAN, body_length : Nat]

LEMMA EmptyValue ==
    ASSUME NEW digits
    PROVE  [ok |-> digits # <<>>, body_length |-> 0] \in Values
<1>1. PICK ok \in BOOLEAN : ok = (digits # <<>>)
  OBVIOUS
<1>2. [ok |-> ok, body_length |-> 0] \in Values
  BY DEF Values
<1>. QED  BY <1>1, <1>2

LEMMA AddDigitTyped ==
    \A value \in Values, digit \in 0..NonDigit : AddDigit(value, digit) \in Values
<1>1. SUFFICES ASSUME NEW value \in Values, NEW digit \in 0..NonDigit
               PROVE  AddDigit(value, digit) \in Values
  OBVIOUS
<1>2. PICK ok \in BOOLEAN, length \in Nat : value = [ok |-> ok, body_length |-> length]
  BY DEF Values
<1>3. length * 10 + digit \in Nat
  BY DEF NonDigit
<1>4. [value EXCEPT !.ok = FALSE] \in Values
  BY DEF Values
<1>5. [value EXCEPT !.body_length = @ * 10 + digit] \in Values
  BY <1>2, <1>3 DEF Values
<1>. QED  BY <1>4, <1>5 DEF AddDigit

\* The recursion of the loop over the digits, and its values digit by digit.
Adds(g, n, base, digits) ==
    g = [S \in SUBSET (1..n) |-> IF S = {} THEN base
                                 ELSE AddDigit(g[S \ {Max(S)}], digits[Max(S)])]

LEMMA ContentLengthSteps ==
    ASSUME NEW digits \in Seq(0..NonDigit)
    PROVE  \E v \in [0..Len(digits) -> Values] :
              /\ v[0] = [ok |-> digits # <<>>, body_length |-> 0]
              /\ \A m \in 0..(Len(digits) - 1) : v[m + 1] = AddDigit(v[m], digits[m + 1])
              /\ ContentLength(digits) = v[Len(digits)]
<1>1. PICK n \in Nat : n = Len(digits) /\ DOMAIN digits = 1..n
  BY LenProperties
<1>2. PICK base \in Values : base = [ok |-> digits # <<>>, body_length |-> 0]
  BY EmptyValue
<1>3. PICK G \in [Values \X (0..NonDigit) -> Values] :
        \A w \in Values, e \in 0..NonDigit : G[w, e] = AddDigit(w, e)
  <2> DEFINE F == [p \in Values \X (0..NonDigit) |-> AddDigit(p[1], p[2])]
  <2>1. ASSUME NEW w \in Values, NEW e \in 0..NonDigit PROVE AddDigit(w, e) \in Values
    BY AddDigitTyped
  <2>2. ASSUME NEW p \in Values \X (0..NonDigit) PROVE AddDigit(p[1], p[2]) \in Values
    <3>1. p[1] \in Values /\ p[2] \in 0..NonDigit
      OBVIOUS
    <3>. QED  BY <2>1, <3>1
  <2>3. F \in [Values \X (0..NonDigit) -> Values]
    BY <2>2
  <2>4. ASSUME NEW w \in Values, NEW e \in 0..NonDigit PROVE F[w, e] = AddDigit(w, e)
    <3>1. PICK p \in Values \X (0..NonDigit) : p = <<w, e>>
      OBVIOUS
    <3>2. p[1] = w /\ p[2] = e
      BY <3>1
    <3>3. F[p] = AddDigit(p[1], p[2])
      OBVIOUS
    <3>. QED  BY <3>1, <3>2, <3>3
  <2> HIDE DEF F
  <2>. QED  BY <2>3, <2>4
<1>4. \A i \in 1..n : digits[i] \in 0..NonDigit
  BY <1>1, ElementOfSeq
<1>5. \E g : Adds(g, n, base, digits)
  <2>1. PICK g : FoldsTyped(g, Values, 0..NonDigit, n, G, base, digits)
    BY <1>4, FoldsByParts
  <2>2. \A S \in SUBSET (1..n) : g[S] = IF S = {} THEN base ELSE AddDigit(g[S \ {Max(S)}], digits[Max(S)])
    BY <1>3, <2>1 DEF FoldsTyped
  <2>3. g = [S \in SUBSET (1..n) |-> g[S]]
    BY <2>1 DEF FoldsTyped
  <2>. QED  BY <2>2, <2>3 DEF Adds
<1>6. PICK g : g = CHOOSE h : Adds(h, n, base, digits)
  OBVIOUS
<1>7. ContentLength(digits) = g[1..n]
  BY <1>1, <1>2, <1>6 DEF ContentLength, FoldLeft, MapThenFoldSet, Adds
<1>8. Adds(g, n, base, digits)
  BY <1>5, <1>6
<1>9. ASSUME NEW S \in SUBSET (1..n)
      PROVE  /\ S = {} => g[S] = base
             /\ S # {} /\ g[S \ {Max(S)}] \in Values
                   => g[S] = G[g[S \ {Max(S)}], digits[Max(S)]]
  <2>1. g[S] = IF S = {} THEN base ELSE AddDigit(g[S \ {Max(S)}], digits[Max(S)])
    BY <1>8 DEF Adds
  <2>2. S # {} => digits[Max(S)] \in 0..NonDigit
    BY <1>4, MaxOfSome
  <2>. QED  BY <1>3, <2>1, <2>2
<1>10. StepsTo(Values, n, G, base, digits, g[1..n])
  <2>1. FoldsWithin(g, Values, n, G, base, digits)
    BY <1>9 DEF FoldsWithin
  <2>. QED  BY <1>4, <2>1, FoldSteps
<1>11. PICK v \in [0..n -> Values] :
         /\ v[0] = base /\ v[n] = g[1..n]
         /\ \A m \in 0..(n - 1) : v[m + 1] = G[v[m], digits[m + 1]]
  BY <1>10 DEF StepsTo
<1>12. ASSUME NEW m \in 0..(n - 1) PROVE v[m + 1] = AddDigit(v[m], digits[m + 1])
  <2>1. m \in 0..n /\ m + 1 \in 1..n
    OBVIOUS
  <2>2. v[m] \in Values /\ digits[m + 1] \in 0..NonDigit
    BY <1>4, <2>1
  <2>. QED  BY <1>3, <1>11, <2>2
<1>. QED  BY <1>1, <1>2, <1>7, <1>11, <1>12

\* The same for the number that the digits are read as.
Shifts(g, n, base, digits) ==
    g = [S \in SUBSET (1..n) |-> IF S = {} THEN base
                                 ELSE g[S \ {Max(S)}] * 10 + digits[Max(S)]]

LEMMA NumeralSteps ==
    ASSUME NEW digits \in Seq(0..NonDigit)
    PROVE  \E v \in [0..Len(digits) -> Nat] :
              /\ v[0] = 0
              /\ \A m \in 0..(Len(digits) - 1) : v[m + 1] = v[m] * 10 + digits[m + 1]
              /\ Numeral(digits) = v[Len(digits)]
<1>1. PICK n \in Nat : n = Len(digits) /\ DOMAIN digits = 1..n
  BY LenProperties
<1>2. PICK base \in Nat : base = 0
  OBVIOUS
<1>3. PICK G \in [Nat \X (0..NonDigit) -> Nat] :
        \A w \in Nat, e \in 0..NonDigit : G[w, e] = w * 10 + e
  <2> DEFINE F == [p \in Nat \X (0..NonDigit) |-> p[1] * 10 + p[2]]
  <2>1. ASSUME NEW w \in Nat, NEW e \in 0..NonDigit PROVE w * 10 + e \in Nat
    BY DEF NonDigit
  <2>2. ASSUME NEW p \in Nat \X (0..NonDigit) PROVE p[1] * 10 + p[2] \in Nat
    <3>1. p[1] \in Nat /\ p[2] \in 0..NonDigit
      OBVIOUS
    <3>. QED  BY <2>1, <3>1
  <2>3. F \in [Nat \X (0..NonDigit) -> Nat]
    BY <2>2
  <2>4. ASSUME NEW w \in Nat, NEW e \in 0..NonDigit PROVE F[w, e] = w * 10 + e
    <3>1. PICK p \in Nat \X (0..NonDigit) : p = <<w, e>>
      OBVIOUS
    <3>2. p[1] = w /\ p[2] = e
      BY <3>1
    <3>3. F[p] = p[1] * 10 + p[2]
      OBVIOUS
    <3>. QED  BY <3>1, <3>2, <3>3
  <2> HIDE DEF F
  <2>. QED  BY <2>3, <2>4
<1>4. \A i \in 1..n : digits[i] \in 0..NonDigit
  BY <1>1, ElementOfSeq
<1>5. \E g : Shifts(g, n, base, digits)
  <2>1. PICK g : FoldsTyped(g, Nat, 0..NonDigit, n, G, base, digits)
    BY <1>4, FoldsByParts
  <2>2. \A S \in SUBSET (1..n) : g[S] = IF S = {} THEN base ELSE g[S \ {Max(S)}] * 10 + digits[Max(S)]
    BY <1>3, <2>1 DEF FoldsTyped
  <2>3. g = [S \in SUBSET (1..n) |-> g[S]]
    BY <2>1 DEF FoldsTyped
  <2>. QED  BY <2>2, <2>3 DEF Shifts
<1>6. PICK g : g = CHOOSE h : Shifts(h, n, base, digits)
  OBVIOUS
<1>7. Numeral(digits) = g[1..n]
  BY <1>1, <1>2, <1>6 DEF Numeral, FoldLeft, MapThenFoldSet, Shifts
<1>8. Shifts(g, n, base, digits)
  BY <1>5, <1>6
<1>9. ASSUME NEW S \in SUBSET (1..n)
      PROVE  /\ S = {} => g[S] = base
             /\ S # {} /\ g[S \ {Max(S)}] \in Nat
                   => g[S] = G[g[S \ {Max(S)}], digits[Max(S)]]
  <2>1. g[S] = IF S = {} THEN base ELSE g[S \ {Max(S)}] * 10 + digits[Max(S)]
    BY <1>8 DEF Shifts
  <2>2. S # {} => digits[Max(S)] \in 0..NonDigit
    BY <1>4, MaxOfSome
  <2>. QED  BY <1>3, <2>1, <2>2
<1>10. StepsTo(Nat, n, G, base, digits, g[1..n])
  <2>1. FoldsWithin(g, Nat, n, G, base, digits)
    BY <1>9 DEF FoldsWithin
  <2>. QED  BY <1>4, <2>1, FoldSteps
<1>11. PICK v \in [0..n -> Nat] :
         /\ v[0] = base /\ v[n] = g[1..n]
         /\ \A m \in 0..(n - 1) : v[m + 1] = G[v[m], digits[m + 1]]
  BY <1>10 DEF StepsTo
<1>12. ASSUME NEW m \in 0..(n - 1) PROVE v[m + 1] = v[m] * 10 + digits[m + 1]
  <2>1. m \in 0..n /\ m + 1 \in 1..n
    OBVIOUS
  <2>2. v[m] \in Nat /\ digits[m + 1] \in 0..NonDigit
    BY <1>4, <2>1
  <2>. QED  BY <1>3, <1>11, <2>2
<1>. QED  BY <1>1, <1>2, <1>7, <1>11, <1>12

\* A number in decimal: one digit at least, and nothing but digits.
IsNumber(digits) == digits # <<>> /\ \A i \in 1..Len(digits) : digits[i] # NonDigit

\* What the digit loop made of the first m characters, which spell `number'.
Counts(value, number, digits, m) ==
    /\ value.ok <=> /\ digits # <<>> /\ number <= InputCapacity
                    /\ \A i \in 1..m : digits[i] # NonDigit
    /\ value.ok => value.body_length = number

LEMMA CountsOneMore ==
    ASSUME NEW digits \in Seq(0..NonDigit), NEW m \in 0..(Len(digits) - 1),
           NEW value \in Values, NEW number \in Nat, Counts(value, number, digits, m)
    PROVE  Counts(AddDigit(value, digits[m + 1]), number * 10 + digits[m + 1], digits, m + 1)
<1>1. m \in Nat /\ m + 1 \in 1..Len(digits) /\ 1..(m + 1) = 1..m \cup {m + 1}
  BY LenProperties
<1>2. PICK digit \in 0..NonDigit : digit = digits[m + 1]
  BY <1>1, ElementOfSeq
<1>3. PICK ok \in BOOLEAN, length \in Nat : value = [ok |-> ok, body_length |-> length]
  BY DEF Values
<1>4. value.ok = ok /\ value.body_length = length
  BY <1>3
<1>5. PICK next \in Nat : next = number * 10 + digit
  BY DEF NonDigit
<1>6. InputCapacity \in Nat
  BY FramingAssumption
<1>7. next <= InputCapacity => number <= InputCapacity
  BY <1>5, <1>6 DEF NonDigit
<1>8. CASE ~ok
  <2>1. AddDigit(value, digit).ok = FALSE
    BY <1>4, <1>8 DEF AddDigit, Values
  <2>2. ~(/\ digits # <<>> /\ next <= InputCapacity
          /\ \A i \in 1..(m + 1) : digits[i] # NonDigit)
    BY <1>1, <1>4, <1>7, <1>8 DEF Counts
  <2>. QED  BY <1>2, <1>5, <2>1, <2>2 DEF Counts
<1>9. CASE digit = NonDigit
  <2>1. AddDigit(value, digit).ok = FALSE
    BY <1>9 DEF AddDigit, Values
  <2>2. ~\A i \in 1..(m + 1) : digits[i] # NonDigit
    BY <1>1, <1>2, <1>9
  <2>. QED  BY <1>2, <1>5, <2>1, <2>2 DEF Counts
<1>10. CASE ok /\ digit # NonDigit
  <2>1. digit \in 0..9 /\ length = number
    BY <1>4, <1>10 DEF NonDigit, Counts
  <2>2. DigitOverflows(length, digit) <=> next > InputCapacity
    BY <1>5, <2>1, DigitGuardIsExact
  <2>3. /\ digits # <<>>
        /\ \A i \in 1..(m + 1) : digits[i] # NonDigit
    BY <1>1, <1>2, <1>4, <1>10 DEF Counts
  <2>4. CASE DigitOverflows(length, digit)
    <3>1. AddDigit(value, digit).ok = FALSE
      BY <1>4, <2>4 DEF AddDigit, Values
    <3>2. ~(next <= InputCapacity)
      BY <1>6, <2>2, <2>4
    <3>. QED  BY <1>2, <1>5, <3>1, <3>2 DEF Counts
  <2>5. CASE ~DigitOverflows(length, digit)
    <3>1. AddDigit(value, digit) = [value EXCEPT !.body_length = @ * 10 + digit]
      BY <1>4, <1>10, <2>5 DEF AddDigit
    <3>2. AddDigit(value, digit).ok = TRUE /\ AddDigit(value, digit).body_length = next
      BY <1>3, <1>5, <1>10, <2>1, <3>1
    <3>3. next <= InputCapacity
      BY <1>6, <2>2, <2>5
    <3>. QED  BY <1>2, <1>5, <2>3, <3>2, <3>3 DEF Counts
  <2>. QED  BY <2>4, <2>5
<1>. QED  BY <1>8, <1>9, <1>10

\* The loop over the digits of Content-Length, with its guard in front of every
\* digit, accepts exactly the numbers that the input could hold, and returns
\* them: for every capacity and every number of digits.
THEOREM ContentLengthIsExact ==
    ASSUME NEW digits \in Seq(0..NonDigit)
    PROVE  /\ Numeral(digits) \in Nat /\ ContentLength(digits) \in Values
           /\ ContentLength(digits).ok <=> IsNumber(digits) /\ Numeral(digits) <= InputCapacity
           /\ ContentLength(digits).ok => ContentLength(digits).body_length = Numeral(digits)
<1>1. PICK n \in Nat : n = Len(digits)
  BY LenProperties
<1>2. PICK v \in [0..n -> Values] :
        /\ v[0] = [ok |-> digits # <<>>, body_length |-> 0]
        /\ \A m \in 0..(n - 1) : v[m + 1] = AddDigit(v[m], digits[m + 1])
        /\ ContentLength(digits) = v[n]
  BY <1>1, ContentLengthSteps
<1>3. PICK w \in [0..n -> Nat] :
        /\ w[0] = 0
        /\ \A m \in 0..(n - 1) : w[m + 1] = w[m] * 10 + digits[m + 1]
        /\ Numeral(digits) = w[n]
  BY <1>1, NumeralSteps
<1> DEFINE Counted == {m \in Nat : m <= n => Counts(v[m], w[m], digits, m)}
<1>4. 0 \in Counted
  <2>1. PICK ok \in BOOLEAN : ok = (digits # <<>>)
    OBVIOUS
  <2>2. v[0].ok = ok /\ v[0].body_length = 0
    BY <1>2, <2>1
  <2>3. 0 <= InputCapacity
    BY FramingAssumption
  <2>4. \A i \in 1..0 : digits[i] # NonDigit
    OBVIOUS
  <2>5. Counts(v[0], w[0], digits, 0)
    BY <1>3, <2>1, <2>2, <2>3, <2>4 DEF Counts
  <2>. QED  BY <2>5
<1>5. ASSUME NEW m \in Nat, m \in Counted PROVE m + 1 \in Counted
  <2>1. ASSUME m + 1 <= n PROVE Counts(v[m + 1], w[m + 1], digits, m + 1)
    <3>1. m \in 0..(n - 1) /\ m \in 0..n /\ m <= n
      BY <2>1
    <3>2. PICK value \in Values, number \in Nat : value = v[m] /\ number = w[m]
      BY <3>1
    <3>3. Counts(value, number, digits, m)
      BY <1>5, <3>1, <3>2
    <3>4. Counts(AddDigit(value, digits[m + 1]), number * 10 + digits[m + 1], digits, m + 1)
      BY <1>1, <3>1, <3>3, CountsOneMore
    <3>. QED  BY <1>2, <1>3, <3>1, <3>2, <3>4
  <2>2. m + 1 \in Nat
    OBVIOUS
  <2>. QED  BY <2>1, <2>2
<1> HIDE DEF Counted
<1>6. Counts(v[n], w[n], digits, n)
  <2>1. Nat \subseteq Counted
    BY <1>4, <1>5, NatSetInduction
  <2>. QED  BY <2>1 DEF Counted
<1>7. v[n] \in Values /\ w[n] \in Nat
  OBVIOUS
<1>. QED  BY <1>1, <1>2, <1>3, <1>6, <1>7 DEF Counts, IsNumber

-----------------------------------------------------------------------------
(* The header loop.                                                        *)

\* What the header loop has collected is well typed.
LEMMA ParseFieldTyped ==
    ASSUME NEW fields \in Fields, NEW line \in Line
    PROVE  ParseField(fields, line) \in Fields
<1>1. PICK value : value = ContentLength(line.digits)
  OBVIOUS
<1>2. value \in Values
  <2>1. PICK digits \in Seq(0..NonDigit) : digits = line.digits
    BY DEF Line
  <2>2. PICK v \in [0..Len(digits) -> Values] : ContentLength(digits) = v[Len(digits)]
    BY ContentLengthSteps
  <2>3. Len(digits) \in 0..Len(digits)
    BY LenProperties
  <2>. QED  BY <1>1, <2>1, <2>2, <2>3
<1>3. PICK ok \in BOOLEAN, length \in Nat : ok = value.ok /\ length = value.body_length
  BY <1>2 DEF Values
<1>4. ParseLength(fields, line) \in Fields
  BY <1>1, <1>3 DEF ParseLength, Fields
<1>5. CASE ~fields.ok
  BY <1>5 DEF ParseField
<1>6. CASE fields.ok /\ line.kind \in {"close", "keep_alive", "close_keep_alive"}
  BY <1>6 DEF ParseField, Fields
<1>7. CASE fields.ok /\ line.kind = "length"
  BY <1>4, <1>7 DEF ParseField
<1>8. CASE fields.ok /\ line.kind = "other"
  BY <1>8 DEF ParseField
<1>9. CASE fields.ok /\ line.kind \notin {"close", "keep_alive", "close_keep_alive", "length", "other"}
  BY <1>9 DEF ParseField, Fields
<1>. QED  BY <1>5, <1>6, <1>7, <1>8, <1>9

\* The recursion of the header loop, and its values line by line.
Parses(g, n, base, lines) ==
    g = [S \in SUBSET (1..n) |-> IF S = {} THEN base
                                 ELSE ParseField(g[S \ {Max(S)}], lines[Max(S)])]

LEMMA ParseFieldsSteps ==
    ASSUME NEW lines \in Seq(Line)
    PROVE  \E v \in [0..Len(lines) -> Fields] :
              /\ v[0] = NoFields
              /\ \A m \in 0..(Len(lines) - 1) : v[m + 1] = ParseField(v[m], lines[m + 1])
              /\ ParseFields(lines) = v[Len(lines)]
<1>1. PICK n \in Nat : n = Len(lines) /\ DOMAIN lines = 1..n
  BY LenProperties
<1>2. PICK base \in Fields : base = NoFields
  BY DEF NoFields, Fields
<1>3. PICK G \in [Fields \X Line -> Fields] :
        \A w \in Fields, e \in Line : G[w, e] = ParseField(w, e)
  <2> DEFINE F == [p \in Fields \X Line |-> ParseField(p[1], p[2])]
  <2>1. ASSUME NEW w \in Fields, NEW e \in Line PROVE ParseField(w, e) \in Fields
    BY ParseFieldTyped
  <2>2. ASSUME NEW p \in Fields \X Line PROVE ParseField(p[1], p[2]) \in Fields
    <3>1. p[1] \in Fields /\ p[2] \in Line
      OBVIOUS
    <3>. QED  BY <2>1, <3>1
  <2>3. F \in [Fields \X Line -> Fields]
    BY <2>2
  <2>4. ASSUME NEW w \in Fields, NEW e \in Line PROVE F[w, e] = ParseField(w, e)
    <3>1. PICK p \in Fields \X Line : p = <<w, e>>
      OBVIOUS
    <3>2. p[1] = w /\ p[2] = e
      BY <3>1
    <3>3. F[p] = ParseField(p[1], p[2])
      OBVIOUS
    <3>. QED  BY <3>1, <3>2, <3>3
  <2> HIDE DEF F
  <2>. QED  BY <2>3, <2>4
<1>4. \A i \in 1..n : lines[i] \in Line
  BY <1>1, ElementOfSeq
<1>5. \E g : Parses(g, n, base, lines)
  <2>1. PICK g : FoldsTyped(g, Fields, Line, n, G, base, lines)
    BY <1>4, FoldsByParts
  <2>2. \A S \in SUBSET (1..n) : g[S] = IF S = {} THEN base ELSE ParseField(g[S \ {Max(S)}], lines[Max(S)])
    BY <1>3, <2>1 DEF FoldsTyped
  <2>3. g = [S \in SUBSET (1..n) |-> g[S]]
    BY <2>1 DEF FoldsTyped
  <2>. QED  BY <2>2, <2>3 DEF Parses
<1>6. PICK g : g = CHOOSE h : Parses(h, n, base, lines)
  OBVIOUS
<1>7. ParseFields(lines) = g[1..n]
  BY <1>1, <1>2, <1>6 DEF ParseFields, FoldLeft, MapThenFoldSet, Parses
<1>8. Parses(g, n, base, lines)
  BY <1>5, <1>6
<1>9. ASSUME NEW S \in SUBSET (1..n)
      PROVE  /\ S = {} => g[S] = base
             /\ S # {} /\ g[S \ {Max(S)}] \in Fields
                   => g[S] = G[g[S \ {Max(S)}], lines[Max(S)]]
  <2>1. g[S] = IF S = {} THEN base ELSE ParseField(g[S \ {Max(S)}], lines[Max(S)])
    BY <1>8 DEF Parses
  <2>2. S # {} => lines[Max(S)] \in Line
    BY <1>4, MaxOfSome
  <2>. QED  BY <1>3, <2>1, <2>2
<1>10. StepsTo(Fields, n, G, base, lines, g[1..n])
  <2>1. FoldsWithin(g, Fields, n, G, base, lines)
    BY <1>9 DEF FoldsWithin
  <2>. QED  BY <1>4, <2>1, FoldSteps
<1>11. PICK v \in [0..n -> Fields] :
         /\ v[0] = base /\ v[n] = g[1..n]
         /\ \A m \in 0..(n - 1) : v[m + 1] = G[v[m], lines[m + 1]]
  BY <1>10 DEF StepsTo
<1>12. ASSUME NEW m \in 0..(n - 1) PROVE v[m + 1] = ParseField(v[m], lines[m + 1])
  <2>1. m \in 0..n /\ m + 1 \in 1..n
    OBVIOUS
  <2>2. v[m] \in Fields /\ lines[m + 1] \in Line
    BY <1>4, <2>1
  <2>. QED  BY <1>3, <1>11, <2>2
<1>. QED  BY <1>1, <1>2, <1>7, <1>11, <1>12

\* A field of one of the kinds is among the first m lines.
Among(lines, m, kinds) == \E i \in 1..m : lines[i].kind \in kinds

\* The fields that parse_request accepts, up to line m.
AcceptedFields(lines, m) ==
    /\ ~Among(lines, m, {"http11", "http10", "malformed", "transfer_encoding", "blank"})
    /\ \A i \in 1..m : lines[i].kind = "length" => ContentLength(lines[i].digits).ok
    /\ \A i, j \in 1..m : lines[i].kind = "length" /\ lines[j].kind = "length" => i = j

\* What the header loop made of the first m lines.
Collected(fields, lines, m) ==
    /\ fields.ok <=> AcceptedFields(lines, m)
    /\ fields.ok =>
          /\ fields.has_length <=> Among(lines, m, {"length"})
          /\ ~fields.has_length => fields.body_length = 0
          /\ \A i \in 1..m : lines[i].kind = "length" =>
                fields.body_length = ContentLength(lines[i].digits).body_length
          /\ fields.keep <=> Among(lines, m, {"keep_alive", "close_keep_alive"})
          /\ fields.close_requested <=> Among(lines, m, {"close", "close_keep_alive"})

LEMMA AmongOneMore ==
    ASSUME NEW lines, NEW m \in Nat, NEW kinds
    PROVE  Among(lines, m + 1, kinds) <=> Among(lines, m, kinds) \/ lines[m + 1].kind \in kinds
<1>1. 1..(m + 1) = 1..m \cup {m + 1}
  OBVIOUS
<1>. QED  BY <1>1 DEF Among

\* A line of the other kinds adds no length.
LEMMA AcceptedOneMore ==
    ASSUME NEW lines, NEW m \in Nat, lines[m + 1].kind # "length"
    PROVE  AcceptedFields(lines, m + 1) <=>
               /\ AcceptedFields(lines, m)
               /\ lines[m + 1].kind \notin {"http11", "http10", "malformed", "transfer_encoding", "blank"}
<1>1. 1..(m + 1) = 1..m \cup {m + 1}
  OBVIOUS
<1>2. \A i \in 1..(m + 1) : lines[i].kind = "length" => i \in 1..m
  BY <1>1
<1>3. \A i \in 1..m : i \in 1..(m + 1)
  BY <1>1
<1>4. (\A i, j \in 1..(m + 1) : lines[i].kind = "length" /\ lines[j].kind = "length" => i = j)
      <=> (\A i, j \in 1..m : lines[i].kind = "length" /\ lines[j].kind = "length" => i = j)
  BY <1>2, <1>3
<1>5. (\A i \in 1..(m + 1) : lines[i].kind = "length" => ContentLength(lines[i].digits).ok)
      <=> (\A i \in 1..m : lines[i].kind = "length" => ContentLength(lines[i].digits).ok)
  BY <1>2, <1>3
<1>. QED  BY <1>4, <1>5, AmongOneMore DEF AcceptedFields

LEMMA CollectedOneMore ==
    ASSUME NEW lines \in Seq(Line), NEW m \in 0..(Len(lines) - 1),
           NEW fields \in Fields, Collected(fields, lines, m)
    PROVE  Collected(ParseField(fields, lines[m + 1]), lines, m + 1)
<1>1. m \in Nat /\ m + 1 \in 1..Len(lines) /\ 1..(m + 1) = 1..m \cup {m + 1}
  BY LenProperties
<1>2. PICK line \in Line : line = lines[m + 1]
  BY <1>1, ElementOfSeq
<1>3. PICK ok \in BOOLEAN, has_length \in BOOLEAN, body_length \in Nat,
           keep \in BOOLEAN, close_requested \in BOOLEAN :
        fields = [ok |-> ok, has_length |-> has_length, body_length |-> body_length,
                  keep |-> keep, close_requested |-> close_requested]
  BY DEF Fields
<1>4. /\ fields.ok = ok /\ fields.has_length = has_length /\ fields.body_length = body_length
      /\ fields.keep = keep /\ fields.close_requested = close_requested
  BY <1>3
<1>5. PICK next : next = ParseField(fields, line)
  OBVIOUS
<1>6. /\ ok <=> AcceptedFields(lines, m)
      /\ ok => /\ has_length <=> Among(lines, m, {"length"})
               /\ ~has_length => body_length = 0
               /\ \A i \in 1..m : lines[i].kind = "length" =>
                     body_length = ContentLength(lines[i].digits).body_length
               /\ keep <=> Among(lines, m, {"keep_alive", "close_keep_alive"})
               /\ close_requested <=> Among(lines, m, {"close", "close_keep_alive"})
  BY <1>4 DEF Collected
<1>7. CASE ~ok
  <2>1. next.ok = FALSE
    BY <1>4, <1>5, <1>7 DEF ParseField
  <2>2. ~AcceptedFields(lines, m + 1)
    BY <1>1, <1>6, <1>7 DEF AcceptedFields, Among
  <2>. QED  BY <1>2, <1>5, <2>1, <2>2 DEF Collected
<1>8. CASE ok /\ line.kind \in {"close", "keep_alive", "close_keep_alive"}
  <2>1. next = [fields EXCEPT !.close_requested = @ \/ line.kind # "keep_alive",
                              !.keep = @ \/ line.kind # "close"]
    BY <1>4, <1>5, <1>8 DEF ParseField
  <2>2. /\ next.ok = TRUE /\ next.has_length = has_length /\ next.body_length = body_length
        /\ next.keep = (keep \/ line.kind # "close")
        /\ next.close_requested = (close_requested \/ line.kind # "keep_alive")
    BY <1>3, <1>8, <2>1
  <2>3. AcceptedFields(lines, m + 1)
    BY <1>1, <1>2, <1>6, <1>8, AcceptedOneMore
  <2>4. /\ Among(lines, m + 1, {"length"}) <=> Among(lines, m, {"length"})
        /\ \A i \in 1..(m + 1) : lines[i].kind = "length" => i \in 1..m
    BY <1>1, <1>2, <1>8, AmongOneMore
  <2>5. /\ Among(lines, m + 1, {"keep_alive", "close_keep_alive"}) <=>
              Among(lines, m, {"keep_alive", "close_keep_alive"}) \/ line.kind # "close"
        /\ Among(lines, m + 1, {"close", "close_keep_alive"}) <=>
              Among(lines, m, {"close", "close_keep_alive"}) \/ line.kind # "keep_alive"
    BY <1>1, <1>2, <1>8, AmongOneMore
  <2>6. /\ next.keep <=> Among(lines, m + 1, {"keep_alive", "close_keep_alive"})
        /\ next.close_requested <=> Among(lines, m + 1, {"close", "close_keep_alive"})
    BY <1>6, <1>8, <2>2, <2>5
  <2>7. /\ next.ok <=> AcceptedFields(lines, m + 1)
        /\ next.has_length <=> Among(lines, m + 1, {"length"})
        /\ ~next.has_length => next.body_length = 0
    BY <1>6, <1>8, <2>2, <2>3, <2>4
  <2>8. \A i \in 1..(m + 1) : lines[i].kind = "length" =>
           next.body_length = ContentLength(lines[i].digits).body_length
    BY <1>6, <1>8, <2>2, <2>4
  <2>. QED  BY <1>2, <1>5, <2>6, <2>7, <2>8 DEF Collected
<1>9. CASE ok /\ line.kind = "length"
  <2>1. PICK digits \in Seq(0..NonDigit) : digits = line.digits
    BY DEF Line
  <2>2. PICK good \in BOOLEAN, length \in Nat :
          ContentLength(digits) = [ok |-> good, body_length |-> length]
    BY ContentLengthIsExact DEF Values
  <2>3. next = [fields EXCEPT !.ok = ~fields.has_length /\ ContentLength(digits).ok,
                              !.has_length = TRUE,
                              !.body_length = ContentLength(digits).body_length]
    BY <1>4, <1>5, <1>9, <2>1 DEF ParseField, ParseLength
  <2>4. /\ next.ok = (~has_length /\ good) /\ next.has_length = TRUE
        /\ next.body_length = length /\ next.keep = keep
        /\ next.close_requested = close_requested
    BY <1>3, <2>2, <2>3
  <2>5. /\ Among(lines, m + 1, {"length"})
        /\ \A kinds : "length" \notin kinds =>
              (Among(lines, m + 1, kinds) <=> Among(lines, m, kinds))
    BY <1>1, <1>2, <1>9, AmongOneMore
  <2>6. has_length <=> \E i \in 1..m : lines[i].kind = "length"
    BY <1>6, <1>9 DEF Among
  <2>7. /\ ContentLength(lines[m + 1].digits).ok = good
        /\ ContentLength(lines[m + 1].digits).body_length = length
    BY <1>2, <2>1, <2>2
  <2>8. AcceptedFields(lines, m + 1) <=> ~has_length /\ good
    <3>1. CASE has_length
      <4>1. PICK i \in 1..m : lines[i].kind = "length"
        BY <2>6, <3>1
      <4>2. i \in 1..(m + 1) /\ m + 1 \in 1..(m + 1) /\ i # m + 1
        BY <1>1
      <4>. QED  BY <1>2, <1>9, <3>1, <4>1, <4>2 DEF AcceptedFields
    <3>2. CASE ~has_length
      <4>1. \A i \in 1..(m + 1) : lines[i].kind = "length" <=> i = m + 1
        BY <1>1, <1>2, <1>9, <2>6, <3>2
      <4>2. ~Among(lines, m + 1, {"http11", "http10", "malformed", "transfer_encoding", "blank"})
        BY <1>6, <1>9, <2>5 DEF AcceptedFields
      <4>3. m + 1 \in 1..(m + 1)
        BY <1>1
      <4>. QED  BY <2>7, <3>2, <4>1, <4>2, <4>3 DEF AcceptedFields
    <3>. QED  BY <3>1, <3>2
  <2>9. ASSUME next.ok
        PROVE  \A i \in 1..(m + 1) : lines[i].kind = "length" =>
                  next.body_length = ContentLength(lines[i].digits).body_length
    <3>1. \A i \in 1..(m + 1) : lines[i].kind = "length" => i = m + 1
      BY <1>1, <2>4, <2>6, <2>9
    <3>. QED  BY <2>4, <2>7, <3>1
  <2>10. /\ next.keep <=> Among(lines, m + 1, {"keep_alive", "close_keep_alive"})
         /\ next.close_requested <=> Among(lines, m + 1, {"close", "close_keep_alive"})
    BY <1>6, <1>9, <2>4, <2>5
  <2>11. next.ok <=> AcceptedFields(lines, m + 1)
    BY <2>4, <2>8
  <2>. QED  BY <1>2, <1>5, <2>4, <2>5, <2>9, <2>10, <2>11 DEF Collected
<1>10. CASE ok /\ line.kind = "other"
  <2>1. next = fields
    BY <1>4, <1>5, <1>10 DEF ParseField
  <2>2. AcceptedFields(lines, m + 1)
    BY <1>1, <1>2, <1>6, <1>10, AcceptedOneMore
  <2>3. /\ \A kinds : "other" \notin kinds =>
              (Among(lines, m + 1, kinds) <=> Among(lines, m, kinds))
        /\ \A i \in 1..(m + 1) : lines[i].kind = "length" => i \in 1..m
    BY <1>1, <1>2, <1>10, AmongOneMore
  <2>4. /\ next.ok <=> AcceptedFields(lines, m + 1)
        /\ next.has_length <=> Among(lines, m + 1, {"length"})
        /\ ~next.has_length => next.body_length = 0
        /\ next.keep <=> Among(lines, m + 1, {"keep_alive", "close_keep_alive"})
        /\ next.close_requested <=> Among(lines, m + 1, {"close", "close_keep_alive"})
    BY <1>4, <1>6, <1>10, <2>1, <2>2, <2>3
  <2>5. \A i \in 1..(m + 1) : lines[i].kind = "length" =>
           next.body_length = ContentLength(lines[i].digits).body_length
    BY <1>4, <1>6, <1>10, <2>1, <2>3
  <2>. QED  BY <1>2, <1>5, <2>4, <2>5 DEF Collected
<1>11. CASE ok /\ line.kind \in {"http11", "http10", "malformed", "transfer_encoding", "blank"}
  <2>1. next = [fields EXCEPT !.ok = FALSE]
    BY <1>4, <1>5, <1>11 DEF ParseField
  <2>2. next.ok = FALSE
    BY <1>3, <2>1
  <2>3. ~AcceptedFields(lines, m + 1)
    BY <1>1, <1>2, <1>11, AcceptedOneMore
  <2>. QED  BY <1>2, <1>5, <2>2, <2>3 DEF Collected
<1>12. line.kind \in Kinds
  BY DEF Line
<1>. QED  BY <1>7, <1>8, <1>9, <1>10, <1>11, <1>12 DEF Kinds

LEMMA ParseFieldsResult ==
    ASSUME NEW lines \in Seq(Line)
    PROVE  ParseFields(lines) \in Fields /\ Collected(ParseFields(lines), lines, Len(lines))
<1>1. PICK n \in Nat : n = Len(lines)
  BY LenProperties
<1>2. PICK v \in [0..n -> Fields] :
        /\ v[0] = NoFields
        /\ \A m \in 0..(n - 1) : v[m + 1] = ParseField(v[m], lines[m + 1])
        /\ ParseFields(lines) = v[n]
  BY <1>1, ParseFieldsSteps
<1> DEFINE Done == {m \in Nat : m <= n => Collected(v[m], lines, m)}
<1>3. 0 \in Done
  <2>1. \A i \in 1..0 : FALSE
    OBVIOUS
  <2>2. AcceptedFields(lines, 0) /\ \A kinds : ~Among(lines, 0, kinds)
    BY <2>1 DEF AcceptedFields, Among
  <2>3. Collected(NoFields, lines, 0)
    BY <2>1, <2>2 DEF Collected, NoFields
  <2>. QED  BY <1>2, <2>3
<1>4. ASSUME NEW m \in Nat, m \in Done PROVE m + 1 \in Done
  <2>1. ASSUME m + 1 <= n PROVE Collected(v[m + 1], lines, m + 1)
    <3>1. m \in 0..(n - 1) /\ m \in 0..n /\ m <= n
      BY <2>1
    <3>2. PICK fields \in Fields : fields = v[m]
      BY <3>1
    <3>3. Collected(fields, lines, m)
      BY <1>4, <3>1, <3>2
    <3>4. Collected(ParseField(fields, lines[m + 1]), lines, m + 1)
      BY <1>1, <3>1, <3>3, CollectedOneMore
    <3>. QED  BY <1>2, <3>1, <3>2, <3>4
  <2>2. m + 1 \in Nat
    OBVIOUS
  <2>. QED  BY <2>1, <2>2
<1> HIDE DEF Done
<1>5. Collected(v[n], lines, n)
  <2>1. Nat \subseteq Done
    BY <1>3, <1>4, NatSetInduction
  <2>. QED  BY <2>1 DEF Done
<1>. QED  BY <1>1, <1>2, <1>5

LEMMA AtMostOne ==
    ASSUME NEW n \in Nat, NEW S \in SUBSET (1..n)
    PROVE  Cardinality(S) <= 1 <=> \A i, j \in S : i = j
<1>1. IsFiniteSet(S) /\ Cardinality(S) \in Nat
  <2>1. IsFiniteSet(1..n)
    BY FS_Interval
  <2>2. IsFiniteSet(S)
    BY <2>1, FS_Subset
  <2>. QED  BY <2>2, FS_CardinalityType
<1>2. Cardinality(S) = 0 <=> S = {}
  BY <1>1, FS_EmptySet
<1>3. Cardinality(S) = 1 <=> \E x : S = {x}
  BY <1>1, FS_Singleton
<1>4. ASSUME \A i, j \in S : i = j PROVE Cardinality(S) <= 1
  <2>1. CASE S = {}
    BY <1>2, <2>1
  <2>2. CASE S # {}
    <3>1. PICK x \in S : TRUE
      BY <2>2
    <3>2. S = {x}
      BY <1>4, <3>1
    <3>3. Cardinality(S) = 1
      BY <1>3, <3>2
    <3>. QED  BY <3>3
  <2>. QED  BY <2>1, <2>2
<1>5. ASSUME Cardinality(S) <= 1, NEW i \in S, NEW j \in S PROVE i = j
  <2>1. Cardinality(S) = 0 \/ Cardinality(S) = 1
    BY <1>1, <1>5
  <2>2. PICK x : S = {x}
    BY <1>2, <1>3, <1>5, <2>1
  <2>. QED  BY <1>5, <2>2
<1>. QED  BY <1>4, <1>5

-----------------------------------------------------------------------------
(* What a stream of requests calls for.                                    *)

\* The request at line i of a stream, and what it and those after it call for.
ParseAt(s, i) == ParseRequest(SubSeq(s, i, Len(s)))
From(s) == CHOOSE F : F = [i \in 1..(Len(s) + 1) |-> AnswerThen(ParseAt(s, i), i, F)]

Answers == [replies : Seq(Replies), next : Nat]

\* AnswerThen looks at what follows a request that keeps the connection only.
GoesOn(parsed) == parsed.verdict = "complete" /\ ~parsed.close_after

LEMMA ResponseIsReply ==
    ASSUME NEW http10 \in BOOLEAN, NEW close_after \in BOOLEAN
    PROVE  /\ Response(http10, close_after) \in Replies
           /\ Closing(Response(http10, FALSE)) = Response(http10, TRUE)
  BY DEF Response, Replies, Closing

LEMMA ParseAtResult ==
    ASSUME NEW S, NEW s \in Seq(S), NEW i \in 1..(Len(s) + 1)
    PROVE  LET r == ParseAt(s, i)
           IN /\ r.verdict \in Verdicts
              /\ r.close_after \in BOOLEAN /\ r.http10 \in BOOLEAN
              /\ r.verdict = "complete" => /\ r.length \in Nat /\ r.length >= 2
                                           /\ i + r.length \in 1..(Len(s) + 1)
  <1> DEFINE rest == SubSeq(s, i, Len(s))
  <1>1. Len(s) \in Nat
    BY LenProperties
  <1>2. \A j \in i..Len(s) : s[j] \in S
    BY <1>1, ElementOfSeq
  <1>3. rest \in Seq(S) /\ Len(rest) = Len(s) - i + 1
    BY <1>1, <1>2, SubSeqProperties
  <1> HIDE DEF rest
  <1>4. LET r == ParseRequest(rest)
        IN /\ r.verdict \in Verdicts
           /\ r.close_after \in BOOLEAN /\ r.http10 \in BOOLEAN
           /\ r.verdict = "complete" => r.length \in 2..Len(rest)
    BY <1>3, ParseRequestResult
  <1>5. QED
    BY <1>1, <1>3, <1>4 DEF ParseAt, rest

LEMMA AnswerThenResult ==
    ASSUME NEW parsed, NEW i \in Nat, NEW from,
           parsed.verdict \in Verdicts, parsed.close_after \in BOOLEAN,
           parsed.http10 \in BOOLEAN,
           GoesOn(parsed) => from[i + parsed.length] \in Answers
    PROVE  AnswerThen(parsed, i, from) \in Answers
  <1>1. CASE parsed.verdict = "incomplete"
    BY <1>1 DEF AnswerThen, Answers
  <1>2. CASE parsed.verdict = "reject"
    BY <1>2 DEF AnswerThen, Answers, Replies
  <1>3. CASE parsed.verdict = "complete"
    <2> DEFINE reply == Response(parsed.http10, parsed.close_after)
               rest == IF parsed.close_after THEN [replies |-> <<>>, next |-> 0]
                       ELSE from[i + parsed.length]
    <2>1. reply \in Replies
      BY ResponseIsReply
    <2>2. rest \in Answers
      BY <1>3 DEF GoesOn, Answers
    <2>3. AnswerThen(parsed, i, from) = [rest EXCEPT !.replies = <<reply>> \o @]
      BY <1>3 DEF AnswerThen
    <2> HIDE DEF reply, rest
    <2>4. <<reply>> \o rest.replies \in Seq(Replies)
      BY <2>1, <2>2 DEF Answers
    <2>5. QED
      BY <2>2, <2>3, <2>4 DEF Answers
  <1>4. QED
    BY <1>1, <1>2, <1>3 DEF Verdicts

LEMMA AnswerThenAgrees ==
    ASSUME NEW parsed, NEW i, NEW F, NEW G, parsed.verdict \in Verdicts,
           GoesOn(parsed) => F[i + parsed.length] = G[i + parsed.length]
    PROVE  AnswerThen(parsed, i, F) = AnswerThen(parsed, i, G)
  BY DEF AnswerThen, GoesOn, Verdicts

LEMMA FromExists ==
    ASSUME NEW S, NEW s \in Seq(S)
    PROVE  \E F \in [1..(Len(s) + 1) -> Answers] :
              F = [i \in 1..(Len(s) + 1) |-> AnswerThen(ParseAt(s, i), i, F)]
  <1> DEFINE D == 1..(Len(s) + 1)
             Solves(F, m) == \A i \in D : i + m > Len(s) + 1 => F[i] = AnswerThen(ParseAt(s, i), i, F)
             Solved == {m \in Nat : \E F \in [D -> Answers] : Solves(F, m)}
  <1>1. Len(s) \in Nat
    BY LenProperties
  <1>2. 0 \in Solved
    <2> DEFINE F == [i \in D |-> [replies |-> <<>>, next |-> 0]]
    <2>1. F \in [D -> Answers]
      BY DEF Answers
    <2>2. Solves(F, 0)
      BY <1>1
    <2>3. QED
      BY <2>1, <2>2
  <1>3. ASSUME NEW m \in Nat, m \in Solved PROVE m + 1 \in Solved
    <2>1. PICK F \in [D -> Answers] : Solves(F, m)
      BY <1>3
    <2>2. CASE m > Len(s)
      <3>1. Solves(F, m + 1)
        BY <1>1, <2>1, <2>2
      <3>2. QED
        BY <2>1, <3>1
    <2>3. CASE ~(m > Len(s))
      <3> DEFINE n == Len(s) + 1 - m
                 answer == AnswerThen(ParseAt(s, n), n, F)
                 G == [F EXCEPT ![n] = answer]
      <3>1. n \in D /\ n \in Nat
        BY <1>1, <2>3
      <3>2. ASSUME NEW i \in D
            PROVE  /\ ParseAt(s, i).verdict \in Verdicts
                   /\ GoesOn(ParseAt(s, i)) =>
                        i + ParseAt(s, i).length \in D /\ i + ParseAt(s, i).length > i
        BY <1>1, ParseAtResult DEF GoesOn
      <3>3. answer \in Answers
        <4>1. GoesOn(ParseAt(s, n)) => F[n + ParseAt(s, n).length] \in Answers
          BY <2>1, <3>1, <3>2
        <4>2. /\ ParseAt(s, n).verdict \in Verdicts
              /\ ParseAt(s, n).close_after \in BOOLEAN /\ ParseAt(s, n).http10 \in BOOLEAN
          BY <3>1, ParseAtResult
        <4>3. QED
          BY <3>1, <4>1, <4>2, AnswerThenResult
      <3> HIDE DEF answer
      <3>4. /\ G \in [D -> Answers] /\ G[n] = answer
            /\ \A i \in D : i # n => G[i] = F[i]
        BY <2>1, <3>1, <3>3
      <3> HIDE DEF G
      <3>5. ASSUME NEW i \in D, i >= n
            PROVE  AnswerThen(ParseAt(s, i), i, G) = AnswerThen(ParseAt(s, i), i, F)
        <4>1. GoesOn(ParseAt(s, i)) => G[i + ParseAt(s, i).length] = F[i + ParseAt(s, i).length]
          BY <3>1, <3>2, <3>4, <3>5
        <4>2. QED
          BY <3>2, <4>1, AnswerThenAgrees
      <3>6. Solves(G, m + 1)
        <4>1. ASSUME NEW i \in D, i + (m + 1) > Len(s) + 1
              PROVE  G[i] = AnswerThen(ParseAt(s, i), i, G)
          <5>1. i >= n
            BY <1>1, <4>1
          <5>2. CASE i = n
            BY <3>4, <3>5, <5>1, <5>2 DEF answer
          <5>3. CASE i # n
            <6>1. i + m > Len(s) + 1
              BY <1>1, <5>1, <5>3
            <6>2. F[i] = AnswerThen(ParseAt(s, i), i, F)
              BY <2>1, <6>1
            <6>3. QED
              BY <3>4, <3>5, <5>1, <5>3, <6>2
          <5>4. QED
            BY <5>2, <5>3
        <4>2. QED
          BY <4>1
      <3>7. QED
        BY <3>4, <3>6
    <2>4. QED
      BY <2>2, <2>3
  <1> HIDE DEF Solved
  <1>4. Nat \subseteq Solved
    BY <1>2, <1>3, NatSetInduction
  <1>5. PICK F \in [D -> Answers] : Solves(F, Len(s) + 1)
    <2>1. Len(s) + 1 \in Solved
      BY <1>1, <1>4
    <2>2. QED
      BY <2>1 DEF Solved
  <1>6. \A i \in D : F[i] = AnswerThen(ParseAt(s, i), i, F)
    BY <1>1, <1>5
  <1>7. F = [i \in D |-> AnswerThen(ParseAt(s, i), i, F)]
    BY <1>6
  <1>8. QED
    BY <1>7

\* The recursion of Answered is well-founded: it has the values its equation
\* gives it, for a stream of any length.
LEMMA AnsweredRecursion ==
    ASSUME NEW S, NEW s \in Seq(S)
    PROVE  /\ Answered(s) = From(s)[1]
           /\ \A i \in 1..(Len(s) + 1) : /\ From(s)[i] = AnswerThen(ParseAt(s, i), i, From(s))
                                         /\ From(s)[i] \in Answers
  <1>1. Answered(s) = From(s)[1]
    BY DEF Answered, From, ParseAt
  <1>2. From(s) = [i \in 1..(Len(s) + 1) |-> AnswerThen(ParseAt(s, i), i, From(s))]
    BY FromExists DEF From
  <1> DEFINE F == From(s)
             D == 1..(Len(s) + 1)
             Typed == {m \in Nat : \A i \in D : i + m > Len(s) + 1 => F[i] \in Answers}
  <1>3. \A i \in D : F[i] = AnswerThen(ParseAt(s, i), i, F)
    BY <1>2
  <1>4. Len(s) \in Nat
    BY LenProperties
  <1> HIDE DEF F
  <1>5. 0 \in Typed
    BY <1>4
  <1>6. ASSUME NEW m \in Nat, m \in Typed PROVE m + 1 \in Typed
    <2>1. ASSUME NEW i \in D, i + (m + 1) > Len(s) + 1 PROVE F[i] \in Answers
      <3>1. /\ ParseAt(s, i).verdict \in Verdicts
            /\ ParseAt(s, i).close_after \in BOOLEAN /\ ParseAt(s, i).http10 \in BOOLEAN
            /\ GoesOn(ParseAt(s, i)) =>
                  /\ ParseAt(s, i).length \in Nat /\ ParseAt(s, i).length >= 2
                  /\ i + ParseAt(s, i).length \in D
        BY ParseAtResult DEF GoesOn
      <3>2. GoesOn(ParseAt(s, i)) => F[i + ParseAt(s, i).length] \in Answers
        BY <1>4, <1>6, <2>1, <3>1
      <3>3. AnswerThen(ParseAt(s, i), i, F) \in Answers
        <4>1. i \in Nat
          BY <1>4
        <4>2. QED
          BY <3>1, <3>2, <4>1, AnswerThenResult
      <3>4. QED
        BY <1>3, <3>3
    <2>2. QED
      BY <1>6, <2>1
  <1>7. Len(s) + 1 \in Typed
    BY <1>4, <1>5, <1>6, NatSetInduction
  <1>8. \A i \in D : F[i] \in Answers
    BY <1>4, <1>7
  <1>9. QED
    BY <1>1, <1>3, <1>8 DEF F

\* The first i - 1 lines of s are requests that call for `replies', whatever
\* follows them: a worker that took them has nothing to take back.
Consumed(s, i, replies) ==
    /\ i \in 1..(Len(s) + 1)
    /\ replies \in Seq(Replies)
    /\ \A t \in Seq(Line) :
          Answered(s \o t) = [replies |-> replies \o From(s \o t)[i].replies,
                              next |-> From(s \o t)[i].next]

\* The reply after which a worker takes no more requests: to the request at
\* line i, when `closed' says that nothing follows the lines of s.
LastReply(s, i, closed, reply) ==
    LET r == ParseAt(s, i)
    IN \/ r.verdict = "reject" /\ reply = "bad_request"
       \/ r.verdict = "complete" /\ r.close_after /\ reply = Response(r.http10, TRUE)
       \/ /\ closed /\ GoesOn(r) /\ i + r.length = Len(s) + 1
          /\ reply = Response(r.http10, TRUE)
       \/ closed /\ r.verdict = "incomplete" /\ i <= Len(s) /\ reply = "bad_request"

Dialogue(s, closed, replies) ==
    \E i \in 1..(Len(s) + 1) : \E before \in Seq(Replies) :
        /\ Consumed(s, i, before)
        /\ \/ replies = before
           \/ \E reply \in Replies : LastReply(s, i, closed, reply)
                                        /\ replies = Append(before, reply)

LEMMA RestOfStream ==
    ASSUME NEW S, NEW s \in Seq(S), NEW i \in 1..(Len(s) + 1)
    PROVE  /\ SubSeq(s, i, Len(s)) \in Seq(S)
           /\ Len(SubSeq(s, i, Len(s))) = Len(s) - i + 1
           /\ \A j \in 1..(Len(s) - i + 1) : SubSeq(s, i, Len(s))[j] = s[i + j - 1]
  <1>1. Len(s) \in Nat
    BY LenProperties
  <1>2. \A j \in i..Len(s) : s[j] \in S
    BY <1>1, ElementOfSeq
  <1>3. QED
    BY <1>1, <1>2, SubSeqProperties

LEMMA RestOfConcat ==
    ASSUME NEW S, NEW s \in Seq(S), NEW t \in Seq(S), NEW i \in 1..(Len(s) + 1)
    PROVE  SubSeq(s \o t, i, Len(s \o t)) = SubSeq(s, i, Len(s)) \o t
  <1> DEFINE st == s \o t
             rest == SubSeq(s, i, Len(s))
             both == SubSeq(st, i, Len(st))
  <1>1. Len(s) \in Nat /\ Len(t) \in Nat
    BY LenProperties
  <1>2. /\ st \in Seq(S) /\ Len(st) = Len(s) + Len(t)
        /\ \A j \in 1..(Len(s) + Len(t)) : st[j] = IF j <= Len(s) THEN s[j] ELSE t[j - Len(s)]
    BY ConcatProperties
  <1>3. /\ rest \in Seq(S) /\ Len(rest) = Len(s) - i + 1
        /\ \A j \in 1..(Len(s) - i + 1) : rest[j] = s[i + j - 1]
    BY RestOfStream
  <1> HIDE DEF st
  <1>4. /\ both \in Seq(S) /\ Len(both) = Len(st) - i + 1
        /\ \A j \in 1..(Len(st) - i + 1) : both[j] = st[i + j - 1]
    <2>1. i \in 1..(Len(st) + 1)
      BY <1>1, <1>2
    <2>2. QED
      BY <1>2, <2>1, RestOfStream
  <1> HIDE DEF rest, both
  <1>5. /\ rest \o t \in Seq(S) /\ Len(rest \o t) = Len(rest) + Len(t)
        /\ \A j \in 1..(Len(rest) + Len(t)) :
              (rest \o t)[j] = IF j <= Len(rest) THEN rest[j] ELSE t[j - Len(rest)]
    BY <1>3, ConcatProperties
  <1>6. Len(both) = Len(rest \o t)
    BY <1>1, <1>2, <1>3, <1>4, <1>5
  <1>7. ASSUME NEW j \in 1..Len(both) PROVE both[j] = (rest \o t)[j]
    <2>1. both[j] = st[i + j - 1] /\ i + j - 1 \in 1..(Len(s) + Len(t))
      BY <1>1, <1>2, <1>4
    <2>2. CASE j <= Len(rest)
      <3>1. st[i + j - 1] = s[i + j - 1]
        BY <1>1, <1>2, <1>3, <2>1, <2>2
      <3>2. rest[j] = s[i + j - 1]
        BY <1>1, <1>3, <2>2
      <3>3. (rest \o t)[j] = rest[j]
        BY <1>1, <1>3, <1>5, <1>6, <2>2
      <3>4. QED
        BY <2>1, <3>1, <3>2, <3>3
    <2>3. CASE ~(j <= Len(rest))
      <3>1. st[i + j - 1] = t[i + j - 1 - Len(s)]
        <4>1. ~(i + j - 1 <= Len(s))
          BY <1>1, <1>3, <2>3
        <4>2. QED
          BY <1>2, <2>1, <4>1
      <3>2. i + j - 1 - Len(s) = j - Len(rest)
        BY <1>1, <1>3
      <3>3. (rest \o t)[j] = t[j - Len(rest)]
        BY <1>1, <1>3, <1>5, <1>6, <2>3
      <3>4. QED
        BY <2>1, <3>1, <3>2, <3>3
    <2>4. QED
      BY <2>2, <2>3
  <1>8. both = rest \o t
    BY <1>4, <1>5, <1>6, <1>7, SeqEqual
  <1>9. QED
    BY <1>8 DEF both, rest, st

\* What is decided at a line stays so when more lines arrive.
LEMMA ParseAtPrefix ==
    ASSUME NEW S, NEW s \in Seq(S), NEW t \in Seq(S), NEW i \in 1..(Len(s) + 1),
           ParseAt(s, i).verdict # "incomplete"
    PROVE  ParseAt(s \o t, i) = ParseAt(s, i)
  <1>1. SubSeq(s, i, Len(s)) \in Seq(S)
    BY RestOfStream
  <1>2. ParseRequest(SubSeq(s, i, Len(s)) \o t) = ParseRequest(SubSeq(s, i, Len(s)))
    BY <1>1, FragmentationIndependence DEF ParseAt
  <1>3. QED
    BY <1>2, RestOfConcat DEF ParseAt

\* A request that keeps the connection: its reply, then those to the rest.
LEMMA ContinuedAnswer ==
    ASSUME NEW parsed, NEW i, NEW from, GoesOn(parsed), parsed.close_after \in BOOLEAN,
           from[i + parsed.length] \in Answers
    PROVE  LET answer == AnswerThen(parsed, i, from)
               rest == from[i + parsed.length]
           IN /\ answer.replies = <<Response(parsed.http10, FALSE)>> \o rest.replies
              /\ answer.next = rest.next
  <1> DEFINE rest == from[i + parsed.length]
             reply == Response(parsed.http10, FALSE)
  <1>1. parsed.verdict = "complete" /\ parsed.close_after = FALSE
    BY DEF GoesOn
  <1>2. AnswerThen(parsed, i, from) = [rest EXCEPT !.replies = <<reply>> \o @]
    BY <1>1 DEF AnswerThen
  <1> HIDE DEF rest, reply
  <1>3. rest \in Answers
    BY DEF rest
  <1>4. /\ [rest EXCEPT !.replies = <<reply>> \o @].replies = <<reply>> \o rest.replies
        /\ [rest EXCEPT !.replies = <<reply>> \o @].next = rest.next
    BY <1>3 DEF Answers
  <1>5. QED
    BY <1>2, <1>4 DEF rest, reply

LEMMA NothingConsumed ==
    ASSUME NEW s \in Seq(Line)
    PROVE  Consumed(s, 1, <<>>)
  <1>1. Len(s) \in Nat
    BY LenProperties
  <1>2. ASSUME NEW t \in Seq(Line)
        PROVE  Answered(s \o t) = [replies |-> <<>> \o From(s \o t)[1].replies,
                                   next |-> From(s \o t)[1].next]
    <2>1. s \o t \in Seq(Line) /\ Len(s \o t) \in Nat
      BY PrefixElements, LenProperties
    <2>2. Answered(s \o t) = From(s \o t)[1] /\ From(s \o t)[1] \in Answers
      <3>1. 1 \in 1..(Len(s \o t) + 1)
        BY <2>1
      <3>2. QED
        BY <2>1, <3>1, AnsweredRecursion
    <2>3. <<>> \o From(s \o t)[1].replies = From(s \o t)[1].replies
      BY <2>2, ConcatEmptySeq DEF Answers
    <2>4. QED
      BY <2>2, <2>3 DEF Answers
  <1>3. QED
    BY <1>1, <1>2 DEF Consumed

LEMMA RequestConsumed ==
    ASSUME NEW s \in Seq(Line), NEW i, NEW before, Consumed(s, i, before),
           GoesOn(ParseAt(s, i))
    PROVE  Consumed(s, i + ParseAt(s, i).length,
                    Append(before, Response(ParseAt(s, i).http10, FALSE)))
  <1>1. Len(s) \in Nat /\ i \in 1..(Len(s) + 1) /\ before \in Seq(Replies)
    BY LenProperties DEF Consumed
  <1>2. PICK r : r = ParseAt(s, i)
    OBVIOUS
  <1>3. /\ r.verdict = "complete" /\ ~r.close_after /\ r.http10 \in BOOLEAN
        /\ r.close_after \in BOOLEAN
        /\ r.length \in Nat /\ i + r.length \in 1..(Len(s) + 1)
    BY <1>1, <1>2, ParseAtResult DEF GoesOn
  <1>4. PICK reply \in Replies : reply = Response(r.http10, FALSE)
    BY <1>3, ResponseIsReply
  <1>5. Append(before, reply) = before \o <<reply>> /\ Append(before, reply) \in Seq(Replies)
    BY <1>1, <1>4, AppendProperties, AppendIsConcat
  <1>6. ASSUME NEW t \in Seq(Line)
        PROVE  Answered(s \o t) = [replies |-> Append(before, reply) \o From(s \o t)[i + r.length].replies,
                                   next |-> From(s \o t)[i + r.length].next]
    <2>1. s \o t \in Seq(Line) /\ Len(s \o t) \in Nat /\ Len(s) <= Len(s \o t)
      BY PrefixElements, LenProperties
    <2>2. i \in 1..(Len(s \o t) + 1) /\ i + r.length \in 1..(Len(s \o t) + 1)
      BY <1>1, <1>3, <2>1
    <2>3. ParseAt(s \o t, i) = r
      BY <1>1, <1>2, <1>3, ParseAtPrefix
    <2>4. From(s \o t)[i] = AnswerThen(r, i, From(s \o t))
      BY <2>1, <2>2, <2>3, AnsweredRecursion
    <2>5. From(s \o t)[i + r.length] \in Answers
      BY <2>1, <2>2, AnsweredRecursion
    <2>6. PICK rest \in Answers : rest = From(s \o t)[i + r.length]
      BY <2>5
    <2>7. GoesOn(r) /\ r.close_after \in BOOLEAN
      BY <1>3 DEF GoesOn
    <2>8. From(s \o t)[i].replies = <<reply>> \o rest.replies /\ From(s \o t)[i].next = rest.next
      BY <1>4, <2>4, <2>5, <2>6, <2>7, ContinuedAnswer
    <2>9. before \o (<<reply>> \o rest.replies) = (before \o <<reply>>) \o rest.replies
      <3>1. <<reply>> \in Seq(Replies) /\ rest.replies \in Seq(Replies)
        BY <2>6 DEF Answers
      <3>2. PICK one \in Seq(Replies) : one = <<reply>>
        BY <3>1
      <3>3. PICK others \in Seq(Replies) : others = rest.replies
        BY <3>1
      <3>4. (before \o one) \o others = before \o (one \o others)
        BY <1>1, ConcatAssociative
      <3>5. QED
        BY <3>2, <3>3, <3>4
    <2>10. Answered(s \o t) = [replies |-> before \o From(s \o t)[i].replies,
                               next |-> From(s \o t)[i].next]
      BY DEF Consumed
    <2>11. QED
      BY <1>5, <2>6, <2>8, <2>9, <2>10
  <1>7. QED
    BY <1>2, <1>3, <1>4, <1>5, <1>6 DEF Consumed

LEMMA ConsumedGrows ==
    ASSUME NEW s \in Seq(Line), NEW t \in Seq(Line), NEW i, NEW before, Consumed(s, i, before)
    PROVE  Consumed(s \o t, i, before)
  <1>1. s \o t \in Seq(Line) /\ Len(s \o t) \in Nat /\ Len(s) <= Len(s \o t) /\ Len(s) \in Nat
    BY PrefixElements, LenProperties
  <1>2. i \in 1..(Len(s \o t) + 1) /\ before \in Seq(Replies)
    BY <1>1 DEF Consumed
  <1>3. ASSUME NEW u \in Seq(Line)
        PROVE  /\ t \o u \in Seq(Line)
               /\ (s \o t) \o u = s \o (t \o u)
    BY ConcatAssociative, ConcatProperties
  <1>4. QED
    BY <1>2, <1>3 DEF Consumed

LEMMA DialogueGrows ==
    ASSUME NEW s \in Seq(Line), NEW t \in Seq(Line), NEW replies, Dialogue(s, FALSE, replies)
    PROVE  Dialogue(s \o t, FALSE, replies)
  <1>1. PICK i \in 1..(Len(s) + 1), before \in Seq(Replies) :
            /\ Consumed(s, i, before)
            /\ \/ replies = before
               \/ \E reply \in Replies : LastReply(s, i, FALSE, reply)
                                            /\ replies = Append(before, reply)
    BY DEF Dialogue
  <1>2. Consumed(s \o t, i, before)
    BY <1>1, ConsumedGrows
  <1>3. i \in 1..(Len(s \o t) + 1)
    BY <1>2 DEF Consumed
  <1>4. ASSUME NEW reply, LastReply(s, i, FALSE, reply)
        PROVE  LastReply(s \o t, i, FALSE, reply)
    <2>1. ParseAt(s, i).verdict # "incomplete"
      BY <1>4 DEF LastReply
    <2>2. ParseAt(s \o t, i) = ParseAt(s, i)
      BY <2>1, ParseAtPrefix
    <2>3. QED
      BY <1>4, <2>2 DEF LastReply
  <1>5. QED
    BY <1>1, <1>2, <1>3, <1>4 DEF Dialogue

LEMMA DialogueCloses ==
    ASSUME NEW s, NEW closed \in BOOLEAN, NEW replies, Dialogue(s, closed, replies)
    PROVE  Dialogue(s, TRUE, replies)
  BY DEF Dialogue, LastReply

LEMMA NoRequestInNothing ==
    ASSUME NEW s \in Seq(Line)
    PROVE  ParseAt(s, Len(s) + 1) = Incomplete
  <1>1. Len(s) \in Nat
    BY LenProperties
  <1>2. SubSeq(s, Len(s) + 1, Len(s)) = <<>>
    BY <1>1, SubSeqEmpty
  <1>3. ParseRequest(<<>>) = Incomplete
    <2>1. Len(<<>>) = 0 /\ ~(0 >= HeaderLimit)
      BY FramingAssumption
    <2>2. ~\E n \in 2..Len(<<>>) : HeadEnds(<<>>, n)
      BY <2>1
    <2>3. QED
      BY <2>1, <2>2 DEF ParseRequest
  <1>4. QED
    BY <1>2, <1>3 DEF ParseAt

\* The replies of a dialogue are those the lines call for, in their order, with
\* the two liberties `Allowed' gives a worker whose peer ended its stream.
LEMMA DialogueAllowed ==
    ASSUME NEW s \in Seq(Line), NEW closed \in BOOLEAN, NEW replies, Dialogue(s, closed, replies)
    PROVE  /\ replies \in Seq(Replies)
           /\ \A n \in 1..Len(replies) : Allowed(Answered(s), Len(s), closed, n, replies[n])
  <1>1. PICK i \in 1..(Len(s) + 1), before \in Seq(Replies) :
            /\ Consumed(s, i, before)
            /\ \/ replies = before
               \/ \E reply \in Replies : LastReply(s, i, closed, reply)
                                            /\ replies = Append(before, reply)
    BY DEF Dialogue
  <1>2. Len(s) \in Nat /\ Len(before) \in Nat
    BY LenProperties
  <1>3. PICK rest \in Answers : rest = From(s)[i]
    BY AnsweredRecursion
  <1>4. Answered(s) = [replies |-> before \o rest.replies, next |-> rest.next]
    <2>1. <<>> \in Seq(Line) /\ s \o <<>> = s
      BY ConcatEmptySeq
    <2>2. QED
      BY <1>1, <1>3, <2>1 DEF Consumed
  <1>5. rest.replies \in Seq(Replies)
    BY DEF Answers
  <1>6. PICK all : all = before \o rest.replies
    OBVIOUS
  <1>7. /\ all \in Seq(Replies) /\ Len(all) = Len(before) + Len(rest.replies)
        /\ DOMAIN all = 1..(Len(before) + Len(rest.replies)) /\ Len(rest.replies) \in Nat
        /\ \A n \in 1..(Len(before) + Len(rest.replies)) :
              all[n] = IF n <= Len(before) THEN before[n] ELSE rest.replies[n - Len(before)]
    BY <1>5, <1>6, ConcatProperties, LenProperties
  <1>8. ASSUME NEW n \in 1..Len(before)
        PROVE  Allowed(Answered(s), Len(s), closed, n, before[n])
    <2>1. n \in DOMAIN all /\ all[n] = before[n]
      BY <1>2, <1>7
    <2>2. QED
      BY <1>4, <1>6, <2>1 DEF Allowed
  <1>9. CASE replies = before
    BY <1>8, <1>9
  <1>10. ASSUME NEW reply \in Replies, LastReply(s, i, closed, reply),
                replies = Append(before, reply)
         PROVE  /\ replies \in Seq(Replies)
                /\ \A n \in 1..Len(replies) : Allowed(Answered(s), Len(s), closed, n, replies[n])
    <2>1. /\ replies \in Seq(Replies) /\ Len(replies) = Len(before) + 1
          /\ replies[Len(before) + 1] = reply
          /\ \A n \in 1..Len(before) : replies[n] = before[n]
      BY <1>2, <1>10, AppendProperties
    <2> DEFINE last == Len(before) + 1
    <2>2. PICK r : r = ParseAt(s, i)
      OBVIOUS
    <2>3. /\ r.verdict \in Verdicts /\ r.close_after \in BOOLEAN /\ r.http10 \in BOOLEAN
          /\ r.verdict = "complete" => r.length \in Nat /\ i + r.length \in 1..(Len(s) + 1)
      BY <2>2, ParseAtResult
    <2>4. rest = AnswerThen(r, i, From(s))
      BY <1>3, <2>2, AnsweredRecursion
    <2>5. rest.replies = <<reply>> => Allowed(Answered(s), Len(s), closed, last, reply)
      <3>1. SUFFICES ASSUME rest.replies = <<reply>>
                     PROVE  Allowed(Answered(s), Len(s), closed, last, reply)
        OBVIOUS
      <3>2. Len(rest.replies) = 1 /\ rest.replies[1] = reply
        BY <3>1
      <3>3. last \in DOMAIN all /\ all[last] = reply
        BY <1>2, <1>7, <3>2
      <3>4. QED
        BY <1>4, <1>6, <3>3 DEF Allowed
    <2>6. CASE r.verdict = "reject" /\ reply = "bad_request"
      <3>1. rest.replies = <<reply>>
        BY <2>4, <2>6 DEF AnswerThen
      <3>2. QED
        BY <1>8, <2>1, <2>5, <3>1, <1>2
    <2>7. CASE r.verdict = "complete" /\ r.close_after /\ reply = Response(r.http10, TRUE)
      <3>1. rest = [[replies |-> <<>>, next |-> 0] EXCEPT !.replies = <<reply>> \o @]
        BY <2>4, <2>7 DEF AnswerThen
      <3>2. rest.replies = <<reply>> \o <<>>
        BY <3>1
      <3>3. rest.replies = <<reply>>
        BY <3>2, ConcatEmptySeq
      <3>4. QED
        BY <1>8, <2>1, <2>5, <3>3, <1>2
    <2>8. CASE /\ closed /\ GoesOn(r) /\ i + r.length = Len(s) + 1
               /\ reply = Response(r.http10, TRUE)
      <3>1. r.verdict = "complete" /\ ~r.close_after
        BY <2>8 DEF GoesOn
      <3>2. PICK keep \in Replies : keep = Response(r.http10, FALSE) /\ Closing(keep) = reply
        BY <2>3, <2>8, ResponseIsReply
      <3>3. From(s)[Len(s) + 1] = [replies |-> <<>>, next |-> Len(s) + 1]
        <4>1. Len(s) + 1 \in 1..(Len(s) + 1)
          BY <1>2
        <4>2. From(s)[Len(s) + 1] = AnswerThen(Incomplete, Len(s) + 1, From(s))
          BY <4>1, AnsweredRecursion, NoRequestInNothing
        <4>3. QED
          BY <4>2 DEF AnswerThen, Incomplete, Result
      <3>4. From(s)[i + r.length] \in Answers
        BY <1>2, <2>8, AnsweredRecursion
      <3>5. rest.replies = <<keep>> \o <<>> /\ rest.next = Len(s) + 1
        <4>1. LET answer == AnswerThen(r, i, From(s))
                  following == From(s)[i + r.length]
              IN /\ answer.replies = <<Response(r.http10, FALSE)>> \o following.replies
                 /\ answer.next = following.next
          BY <2>3, <2>8, <3>4, ContinuedAnswer
        <4>2. rest.replies = <<keep>> \o From(s)[i + r.length].replies
              /\ rest.next = From(s)[i + r.length].next
          BY <2>4, <3>2, <4>1
        <4>3. From(s)[i + r.length].replies = <<>> /\ From(s)[i + r.length].next = Len(s) + 1
          BY <2>8, <3>3
        <4>4. QED
          BY <4>2, <4>3
      <3>6. rest.replies = <<keep>>
        BY <3>5, ConcatEmptySeq
      <3>7. last = Len(all) /\ all[last] = keep
        BY <1>2, <1>7, <3>6
      <3>8. Allowed(Answered(s), Len(s), closed, last, reply)
        <4>1. PICK answered : answered = Answered(s)
          OBVIOUS
        <4>2. /\ answered.next = Len(s) + 1 /\ last = Len(answered.replies)
              /\ answered.replies[last] = keep
          <5>1. answered.replies = all /\ answered.next = rest.next
            BY <1>4, <1>6, <4>1
          <5>2. QED
            BY <3>5, <3>7, <5>1
        <4>3. reply = Closing(answered.replies[last])
          BY <3>2, <4>2
        <4>4. QED
          BY <2>8, <4>1, <4>2, <4>3 DEF Allowed
      <3>9. QED
        BY <1>8, <2>1, <3>8, <1>2
    <2>9. CASE closed /\ r.verdict = "incomplete" /\ i <= Len(s) /\ reply = "bad_request"
      <3>1. rest = [replies |-> <<>>, next |-> i]
        BY <2>4, <2>9 DEF AnswerThen
      <3>2. rest.replies = <<>> /\ rest.next \in 1..Len(s)
        BY <1>2, <2>9, <3>1
      <3>3. last = Len(all) + 1
        BY <1>2, <1>7, <3>2
      <3>4. Allowed(Answered(s), Len(s), closed, last, reply)
        BY <1>4, <1>6, <2>9, <3>2, <3>3 DEF Allowed
      <3>5. QED
        BY <1>8, <2>1, <3>4, <1>2
    <2>10. QED
      BY <1>10, <2>2, <2>6, <2>7, <2>8, <2>9 DEF LastReply
  <1>11. QED
    BY <1>1, <1>9, <1>10

-----------------------------------------------------------------------------
(* The properties of HttpFramingCheck.                                     *)

StreamOK == stream \in Seq(Alphabet \cup BodyLines)

LEMMA StreamIsSequence == StreamSpec => []StreamOK
  <1>1. StreamInit => StreamOK
    BY DEF StreamInit, StreamOK
  <1>2. StreamOK /\ [StreamNext]_streamVars => StreamOK'
    BY AppendProperties DEF StreamNext, Arrive, streamVars, StreamOK
  <1>3. QED
    BY <1>1, <1>2, PTL DEF StreamSpec

\* An unfinished request never fills the input.
THEOREM RoomForTheRest == StreamSpec => []IncompleteLeavesRoom
  <1>1. StreamOK => IncompleteLeavesRoom
    BY ParseRequestResult DEF IncompleteLeavesRoom, Decided, StreamOK, Verdicts
  <1>2. QED
    BY <1>1, StreamIsSequence, PTL

\* No arrival changes a verdict.
THEOREM VerdictsAreStable == StreamSpec => VerdictIsStable
  <1>1. ASSUME StreamOK, [StreamNext]_streamVars
        PROVE  [Decided => ParseRequest(stream') = ParseRequest(stream)]_streamVars
    <2>1. CASE UNCHANGED streamVars
      BY <2>1
    <2>2. ASSUME NEW line \in Alphabet \cup BodyLines, Arrive(line), Decided
          PROVE  ParseRequest(stream') = ParseRequest(stream)
      <3>1. stream' = stream \o <<line>> /\ <<line>> \in Seq(Alphabet \cup BodyLines)
        BY <1>1, <2>2, AppendProperties DEF Arrive, StreamOK
      <3>2. QED
        BY <1>1, <2>2, <3>1, FragmentationIndependence DEF Decided, StreamOK
    <2>3. QED
      BY <1>1, <2>1, <2>2 DEF StreamNext
  <1>2. QED
    BY <1>1, StreamIsSequence, PTL DEF StreamSpec, VerdictIsStable

-----------------------------------------------------------------------------
(* The grammar.                                                            *)

StreamOfLines ==
    /\ stream \in Seq(Line)
    /\ \A i \in 1..Len(stream) : stream[i].kind = "blank" => stream[i] = Blank

\* The fields of a head, as the loop sees them and as the grammar does.
LEMMA FieldsOfHead ==
    ASSUME stream \in Seq(Line), NEW n \in 2..Len(stream)
    PROVE  /\ SubSeq(stream, 2, n - 1) \in Seq(Line)
           /\ Len(SubSeq(stream, 2, n - 1)) = n - 2
           /\ \A i \in 1..(n - 2) : i + 1 \in FieldsOf(n) /\ SubSeq(stream, 2, n - 1)[i] = stream[i + 1]
           /\ \A kinds : Among(SubSeq(stream, 2, n - 1), n - 2, kinds) <=> Has(n, kinds)
<1>1. Len(stream) \in Nat
  BY LenProperties
<1>2. PICK lines : lines = SubSeq(stream, 2, n - 1)
  OBVIOUS
<1>3. \A i \in 2..(n - 1) : i \in 1..Len(stream)
  BY <1>1
<1>4. lines \in Seq(Line) /\ Len(lines) = n - 2 /\ \A i \in 1..(n - 2) : lines[i] = stream[i + 1]
  <2>1. \A i \in 2..(n - 1) : stream[i] \in Line
    BY <1>3, ElementOfSeq
  <2>2. /\ 2 \in 1..(Len(stream) + 1) /\ n - 1 \in 1..Len(stream)
    BY <1>1
  <2>3. /\ lines \in Seq(Line)
        /\ Len(lines) = IF 2 <= n - 1 THEN (n - 1) - 2 + 1 ELSE 0
        /\ \A i \in 1..((n - 1) - 2 + 1) : lines[i] = stream[2 + i - 1]
    BY <1>1, <1>2, <2>2, SubSeqProperties
  <2>4. \A i \in 1..(n - 2) : i \in 1..((n - 1) - 2 + 1) /\ 2 + i - 1 = i + 1
    OBVIOUS
  <2>. QED  BY <2>3, <2>4
<1>5. \A i \in 1..(n - 2) : i + 1 \in FieldsOf(n)
  BY DEF FieldsOf
<1>6. ASSUME NEW kinds PROVE Among(lines, n - 2, kinds) <=> Has(n, kinds)
  <2>1. ASSUME NEW i \in FieldsOf(n) PROVE i - 1 \in 1..(n - 2) /\ lines[i - 1] = stream[i]
    <3>1. i \in 2..(n - 1)
      BY DEF FieldsOf
    <3>2. PICK j \in 1..(n - 2) : j = i - 1 /\ j + 1 = i
      BY <3>1
    <3>. QED  BY <1>4, <3>2
  <2>. QED  BY <1>4, <1>5, <2>1 DEF Among, Has
<1>. QED  BY <1>2, <1>4, <1>5, <1>6

\* The header loop accepts what the grammar does, but for the lengths that
\* the input could not hold together with the head, and reads it the same way.
LEMMA HeadAgrees ==
    ASSUME StreamOfLines, NEW n \in 2..Len(stream), HeadEnds(stream, n),
           NEW fields, fields = ParseFields(SubSeq(stream, 2, n - 1))
    PROVE  /\ fields \in Fields /\ BodyOf(n) \in Nat
           /\ fields.ok => /\ fields.body_length = BodyOf(n)
                           /\ fields.keep <=> Has(n, {"keep_alive", "close_keep_alive"})
                           /\ fields.close_requested <=> Has(n, {"close", "close_keep_alive"})
           /\ fields.ok /\ fields.body_length \in 0..(InputCapacity - n) <=>
                 /\ ~Has(n, {"http10", "http11", "malformed", "transfer_encoding"})
                 /\ Cardinality(LengthFields(n)) <= 1
                 /\ \A i \in LengthFields(n) :
                       stream[i].digits # <<>> /\ NonDigit \notin ToSet(stream[i].digits)
                 /\ n + BodyOf(n) <= InputCapacity
<1>1. PICK lines \in Seq(Line) :
        /\ lines = SubSeq(stream, 2, n - 1) /\ Len(lines) = n - 2
        /\ \A i \in 1..(n - 2) : i + 1 \in FieldsOf(n) /\ lines[i] = stream[i + 1]
        /\ \A kinds : Among(lines, n - 2, kinds) <=> Has(n, kinds)
  BY FieldsOfHead DEF StreamOfLines
<1>2. fields \in Fields /\ Collected(fields, lines, n - 2)
  BY <1>1, ParseFieldsResult
<1>3. \A i \in FieldsOf(n) : /\ i \in 1..Len(stream) /\ i \in 2..(n - 1)
                             /\ i - 1 \in 1..(n - 2) /\ (i - 1) + 1 = i
  BY LenProperties DEF FieldsOf, StreamOfLines
<1>4. ~Has(n, {"blank"})
  <2>1. \A i \in FieldsOf(n) : stream[i] # Blank
    BY <1>3 DEF HeadEnds
  <2>. QED  BY <1>3, <2>1 DEF Has, StreamOfLines
<1>5. \A i \in LengthFields(n) : i \in FieldsOf(n) /\ stream[i].kind = "length"
  BY DEF LengthFields
<1>6. ASSUME NEW i \in FieldsOf(n)
      PROVE  /\ stream[i].digits \in Seq(0..NonDigit)
             /\ NonDigit \notin ToSet(stream[i].digits) <=>
                   \A d \in 1..Len(stream[i].digits) : stream[i].digits[d] # NonDigit
  <2>1. stream[i] \in Line
    BY <1>3, ElementOfSeq DEF StreamOfLines
  <2>2. PICK digits \in Seq(0..NonDigit) : digits = stream[i].digits
    BY <2>1 DEF Line
  <2>3. DOMAIN digits = 1..Len(digits)
    BY LenProperties
  <2>. QED  BY <2>2, <2>3 DEF ToSet
<1>7. \A i \in FieldsOf(n) :
        LET digits == stream[i].digits IN
        /\ Numeral(digits) \in Nat
        /\ ContentLength(digits).ok <=> /\ digits # <<>> /\ NonDigit \notin ToSet(digits)
                                        /\ Numeral(digits) <= InputCapacity
        /\ ContentLength(digits).ok => ContentLength(digits).body_length = Numeral(digits)
  BY <1>6, ContentLengthIsExact DEF IsNumber
<1>8. Cardinality(LengthFields(n)) <= 1 <=> \A i, j \in LengthFields(n) : i = j
  <2>1. LengthFields(n) \in SUBSET (1..n)
    BY <1>3, <1>5
  <2>2. n \in Nat
    BY LenProperties DEF StreamOfLines
  <2>. QED  BY <2>1, <2>2, AtMostOne
<1>9. BodyOf(n) \in Nat
  <2>1. CASE LengthFields(n) = {}
    BY <2>1 DEF BodyOf
  <2>2. CASE LengthFields(n) # {}
    <3>1. PICK i \in LengthFields(n) : i = CHOOSE j \in LengthFields(n) : TRUE
      BY <2>2
    <3>. QED  BY <1>5, <1>7, <2>2, <3>1 DEF BodyOf
  <2>. QED  BY <2>1, <2>2
<1>10. ASSUME \A i, j \in LengthFields(n) : i = j, NEW i \in LengthFields(n)
       PROVE  BodyOf(n) = Numeral(stream[i].digits)
  <2>1. i = CHOOSE j \in LengthFields(n) : TRUE
    BY <1>10
  <2>. QED  BY <1>10, <2>1 DEF BodyOf
<1>11. LengthFields(n) = {} => BodyOf(n) = 0
  BY DEF BodyOf
<1>12. AcceptedFields(lines, n - 2) <=>
         /\ ~Has(n, {"http10", "http11", "malformed", "transfer_encoding"})
         /\ \A i \in LengthFields(n) : ContentLength(stream[i].digits).ok
         /\ \A i, j \in LengthFields(n) : i = j
  <2>1. Has(n, {"http11", "http10", "malformed", "transfer_encoding", "blank"}) <=>
            Has(n, {"http10", "http11", "malformed", "transfer_encoding"})
    BY <1>4 DEF Has
  <2>2. (\A i \in 1..(n - 2) : lines[i].kind = "length" => ContentLength(lines[i].digits).ok)
        <=> \A i \in LengthFields(n) : ContentLength(stream[i].digits).ok
    BY <1>1, <1>3 DEF LengthFields
  <2>3. (\A i, j \in 1..(n - 2) : lines[i].kind = "length" /\ lines[j].kind = "length" => i = j)
        <=> \A i, j \in LengthFields(n) : i = j
    <3>1. \A i \in 1..(n - 2) : lines[i].kind = "length" => i + 1 \in LengthFields(n)
      BY <1>1 DEF LengthFields
    <3>2. \A i \in LengthFields(n) : i - 1 \in 1..(n - 2) /\ lines[i - 1].kind = "length"
      BY <1>1, <1>3 DEF LengthFields
    <3>3. \A i, j \in 1..(n - 2) : i + 1 = j + 1 => i = j
      OBVIOUS
    <3>4. \A i, j \in LengthFields(n) : i - 1 = j - 1 => i = j
      BY <1>3, <1>5
    <3>. QED  BY <3>1, <3>2, <3>3, <3>4
  <2>. QED  BY <1>1, <2>1, <2>2, <2>3 DEF AcceptedFields
<1>13. PICK ok \in BOOLEAN, body_length \in Nat :
         fields.ok = ok /\ fields.body_length = body_length
  BY <1>2 DEF Fields
<1>14. ok <=> AcceptedFields(lines, n - 2)
  BY <1>2, <1>13 DEF Collected
<1>15. ASSUME ok
       PROVE  /\ body_length = BodyOf(n)
              /\ fields.keep <=> Has(n, {"keep_alive", "close_keep_alive"})
              /\ fields.close_requested <=> Has(n, {"close", "close_keep_alive"})
  <2>1. /\ fields.has_length <=> Among(lines, n - 2, {"length"})
        /\ ~fields.has_length => body_length = 0
        /\ \A i \in 1..(n - 2) : lines[i].kind = "length" =>
              body_length = ContentLength(lines[i].digits).body_length
        /\ fields.keep <=> Has(n, {"keep_alive", "close_keep_alive"})
        /\ fields.close_requested <=> Has(n, {"close", "close_keep_alive"})
    BY <1>1, <1>2, <1>13, <1>15 DEF Collected
  <2>2. CASE LengthFields(n) = {}
    <3>1. ~Has(n, {"length"})
      BY <2>2 DEF Has, LengthFields
    <3>. QED  BY <1>1, <1>11, <2>1, <2>2, <3>1
  <2>3. CASE LengthFields(n) # {}
    <3>1. PICK i \in LengthFields(n) : TRUE
      BY <2>3
    <3>2. i - 1 \in 1..(n - 2) /\ lines[i - 1] = stream[i] /\ stream[i].kind = "length"
      BY <1>1, <1>3, <1>5
    <3>3. body_length = ContentLength(stream[i].digits).body_length
      BY <2>1, <3>2
    <3>4. ContentLength(stream[i].digits).ok /\ BodyOf(n) = Numeral(stream[i].digits)
      BY <1>10, <1>12, <1>14, <1>15
    <3>. QED  BY <1>5, <1>7, <2>1, <3>3, <3>4
  <2>. QED  BY <2>2, <2>3
<1> DEFINE numbers == \A i \in LengthFields(n) :
                         stream[i].digits # <<>> /\ NonDigit \notin ToSet(stream[i].digits)
<1>16. InputCapacity \in Nat /\ n \in Nat
  BY FramingAssumption
<1>17. ASSUME \A i, j \in LengthFields(n) : i = j, n + BodyOf(n) <= InputCapacity
       PROVE  (\A i \in LengthFields(n) : ContentLength(stream[i].digits).ok) <=> numbers
  <2>1. BodyOf(n) <= InputCapacity
    BY <1>9, <1>16, <1>17
  <2>2. \A i \in LengthFields(n) : Numeral(stream[i].digits) <= InputCapacity
    BY <1>10, <1>17, <2>1
  <2>. QED  BY <1>5, <1>7, <2>2
<1>18. ok => numbers
  BY <1>5, <1>7, <1>12, <1>14
<1>19. ok => (body_length \in 0..(InputCapacity - n) <=> n + BodyOf(n) <= InputCapacity)
  BY <1>15, <1>16
<1>20. ok /\ body_length \in 0..(InputCapacity - n) <=>
         /\ ~Has(n, {"http10", "http11", "malformed", "transfer_encoding"})
         /\ \A i, j \in LengthFields(n) : i = j
         /\ numbers
         /\ n + BodyOf(n) <= InputCapacity
  <2> HIDE DEF numbers
  <2>. QED  BY <1>12, <1>14, <1>17, <1>18, <1>19
<1>. QED  BY <1>2, <1>8, <1>9, <1>13, <1>15, <1>20

\* parse_request accepts exactly the requests of the grammar, and says of them
\* what the grammar says: for every capacity, every limit and every stream of
\* lines.
THEOREM AcceptsTheGrammar == StreamSpec => []AgreesWithGrammar
<1>1. StreamOK => StreamOfLines
  <2>1. SUFFICES ASSUME StreamOK PROVE StreamOfLines
    OBVIOUS
  <2>2. \A i \in 1..Len(stream) : stream[i] \in Alphabet \cup BodyLines
    BY <2>1, ElementOfSeq DEF StreamOK
  <2>3. stream \in Seq(Line)
    BY <2>1, AlphabetAssumption DEF StreamOK
  <2>. QED  BY <2>2, <2>3, AlphabetAssumption DEF StreamOfLines
<1>2. ASSUME StreamOfLines PROVE AgreesWithGrammar
  <2>1. Len(stream) \in Nat /\ HeaderLimit \in Nat
    BY <1>2, LenProperties, FramingAssumption DEF StreamOfLines
  <2>2. CASE ~HasHead
    BY <2>1, <2>2 DEF AgreesWithGrammar, Expected, HasHead, ParseRequest
  <2>3. CASE HasHead
    <3>1. PICK n \in 2..Len(stream) : HeadEnds(stream, n)
      BY <2>3 DEF HasHead
    <3>2. n = CHOOSE m \in 2..Len(stream) : HeadEnds(stream, m)
      BY <2>1, <3>1, HeadIsUnique
    <3>3. ParseRequest(stream) = ParseHead(stream, n)
      BY <3>1, <3>2 DEF ParseRequest
    <3>4. n = CHOOSE l \in 2..Len(stream) :
                 stream[l] = Blank /\ \A m \in 2..Len(stream) : stream[m] = Blank => l <= m
      <4>1. stream[n] = Blank /\ \A m \in 2..Len(stream) : stream[m] = Blank => n <= m
        BY <2>1, <3>1 DEF HeadEnds
      <4>2. ASSUME NEW l \in 2..Len(stream), stream[l] = Blank,
                   \A m \in 2..Len(stream) : stream[m] = Blank => l <= m
            PROVE  l = n
        BY <2>1, <4>1, <4>2
      <4>. QED  BY <4>1, <4>2
    <3>5. Expected =
            CASE ~WellFormed(n) -> Rejected
              [] WellFormed(n) /\ Len(stream) < n + BodyOf(n) -> Incomplete
              [] OTHER -> Result("complete", n + BodyOf(n),
                                 \/ Has(n, {"close", "close_keep_alive"})
                                 \/ stream[1].kind = "http10"
                                    /\ ~Has(n, {"keep_alive", "close_keep_alive"}),
                                 stream[1].kind = "http10")
      BY <2>3, <3>4 DEF Expected
    <3>6. PICK fields : fields = ParseFields(SubSeq(stream, 2, n - 1))
      OBVIOUS
    <3>7. /\ fields \in Fields /\ BodyOf(n) \in Nat
          /\ fields.ok => /\ fields.body_length = BodyOf(n)
                          /\ fields.keep <=> Has(n, {"keep_alive", "close_keep_alive"})
                          /\ fields.close_requested <=> Has(n, {"close", "close_keep_alive"})
          /\ fields.ok /\ fields.body_length \in 0..(InputCapacity - n) <=>
                /\ ~Has(n, {"http10", "http11", "malformed", "transfer_encoding"})
                /\ Cardinality(LengthFields(n)) <= 1
                /\ \A i \in LengthFields(n) :
                      stream[i].digits # <<>> /\ NonDigit \notin ToSet(stream[i].digits)
                /\ n + BodyOf(n) <= InputCapacity
      BY <1>2, <3>1, <3>6, HeadAgrees
    <3>8. WellFormed(n) <=> /\ n <= HeaderLimit /\ stream[1].kind \in {"http11", "http10"}
                            /\ fields.ok /\ fields.body_length \in 0..(InputCapacity - n)
      BY <3>7 DEF WellFormed
    <3>9. ParseHead(stream, n) =
            IF \/ n > HeaderLimit
               \/ stream[1].kind \notin {"http11", "http10"}
               \/ ~fields.ok
               \/ fields.body_length \notin 0..(InputCapacity - n)
            THEN Rejected
            ELSE IF Len(stream) < n + fields.body_length
                 THEN Incomplete
                 ELSE Result("complete", n + fields.body_length,
                             fields.close_requested \/ (stream[1].kind = "http10" /\ ~fields.keep),
                             stream[1].kind = "http10")
      BY <3>6 DEF ParseHead
    <3>10. CASE ~WellFormed(n)
      <4>1. ParseHead(stream, n) = Rejected
        BY <2>1, <3>8, <3>9, <3>10
      <4>. QED  BY <3>3, <3>5, <3>10, <4>1 DEF AgreesWithGrammar
    <3>11. CASE WellFormed(n) /\ Len(stream) < n + BodyOf(n)
      <4>1. fields.ok /\ fields.body_length = BodyOf(n)
        BY <3>7, <3>8, <3>11
      <4>2. ParseHead(stream, n) = Incomplete
        BY <2>1, <3>8, <3>9, <3>11, <4>1
      <4>3. Expected = Incomplete
        BY <3>5, <3>11
      <4>. QED  BY <3>3, <4>2, <4>3 DEF AgreesWithGrammar
    <3>12. CASE WellFormed(n) /\ ~(Len(stream) < n + BodyOf(n))
      <4>1. /\ fields.ok /\ fields.body_length = BodyOf(n)
            /\ fields.keep <=> Has(n, {"keep_alive", "close_keep_alive"})
            /\ fields.close_requested <=> Has(n, {"close", "close_keep_alive"})
        BY <3>7, <3>8, <3>12
      <4>2. (fields.close_requested \/ (stream[1].kind = "http10" /\ ~fields.keep)) =
              (\/ Has(n, {"close", "close_keep_alive"})
               \/ stream[1].kind = "http10" /\ ~Has(n, {"keep_alive", "close_keep_alive"}))
        BY <4>1
      <4>3. ParseHead(stream, n) =
              Result("complete", n + BodyOf(n),
                     fields.close_requested \/ (stream[1].kind = "http10" /\ ~fields.keep),
                     stream[1].kind = "http10")
        BY <2>1, <3>8, <3>9, <3>12, <4>1
      <4>4. Expected = Result("complete", n + BodyOf(n),
                              \/ Has(n, {"close", "close_keep_alive"})
                              \/ stream[1].kind = "http10"
                                 /\ ~Has(n, {"keep_alive", "close_keep_alive"}),
                              stream[1].kind = "http10")
        BY <3>5, <3>12
      <4>. QED  BY <3>3, <4>2, <4>3, <4>4 DEF AgreesWithGrammar
    <3>. QED  BY <3>10, <3>11, <3>12
  <2>. QED  BY <2>2, <2>3
<1>. QED  BY <1>1, <1>2, StreamIsSequence, PTL

-----------------------------------------------------------------------------
(* What division by the length of a reply gives.                           *)

LEMMA AtLeastOnce ==
    ASSUME NEW n \in Nat \ {0}, NEW d \in Int, d >= 1
    PROVE  n * d >= n
  <1>1. n * d = n * (d - 1) + n
    OBVIOUS
  <1>2. n * (d - 1) >= 0
    OBVIOUS
  <1>3. n * d \in Int /\ n * (d - 1) \in Int
    OBVIOUS
  <1>4. QED
    BY <1>1, <1>2, <1>3

LEMMA DivisionIsUnique ==
    ASSUME NEW n \in Nat \ {0}, NEW a \in Nat, NEW r \in 0..(n - 1)
    PROVE  (n * a + r) \div n = a /\ (n * a + r) % n = r
  <1>1. PICK x \in Nat : x = n * a + r
    OBVIOUS
  <1>2. PICK b \in Int : b = x \div n
    BY <1>1
  <1>3. PICK t \in 0..(n - 1) : t = x % n
    BY <1>1
  <1>4. x = n * b + t
    BY <1>1, <1>2, <1>3
  <1>5. n * (a - b) = t - r
    BY <1>1, <1>4
  <1>6. ~(a - b >= 1)
    BY <1>5, AtLeastOnce
  <1>7. ~(b - a >= 1)
    <2>1. n * (b - a) = r - t
      BY <1>5
    <2>2. QED
      BY <2>1, AtLeastOnce
  <1>8. a = b
    BY <1>6, <1>7
  <1>9. QED
    BY <1>1, <1>2, <1>3, <1>4, <1>8
=============================================================================
