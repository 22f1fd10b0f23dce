--------------------------- MODULE ClaimTextProofs ---------------------------
(***************************************************************************)
(* The claims as texts: an answer reaches the claim whose reference the    *)
(* agents were shown, the Host is shown the block of every candidate once, *)
(* no text is lost without a mark, and a file is read as it was written.   *)
(***************************************************************************)
EXTENDS ClaimText, FoldFacts, TLAPS

-----------------------------------------------------------------------------
(* References.  The reference of a keyword depends on the keywords it must *)
(* not be equal to, and on nothing else: the digests of two keywords never *)
(* compete for a number.                                                   *)

ReferenceAmong(k, S) ==
    IF k \in LongKeyword THEN FreeReference(Digest[k], S) ELSE k

\* The references of the keywords D among those of S.
References(D, S) == [k \in D |-> ReferenceAmong(k, S)]

LEMMA NumberedFacts ==
    ASSUME NEW k \in LongKeyword, NEW l \in LongKeyword,
           NEW m \in 0..Len(Suffix), NEW n \in 0..Len(Suffix),
           Numbered(Digest[k], m) = Numbered(Digest[l], n)
    PROVE  k = l /\ m = n
<1> DEFINE a == Digest[k]
           b == Digest[l]
<1>1. /\ a \in Seq(STRING) /\ b \in Seq(STRING)
      /\ Len(a) = Len(b) /\ (a = b => k = l)
      /\ Suffix \in Seq(STRING) /\ IsInjective(Suffix)
  BY DigestAssumption, SuffixAssumption
<1> HIDE DEF a, b
<1>2. \A i \in 0..Len(Suffix) : i = 0 \/ Suffix[i] \in STRING
  BY <1>1
<1>3. CASE m = 0 /\ n = 0
  BY <1>1, <1>3 DEF Numbered, a, b
<1>4. CASE m # 0 /\ n = 0
  <2>1. Append(a, Suffix[m]) = b
    BY <1>4 DEF Numbered, a, b
  <2>2. Len(Append(a, Suffix[m])) = Len(a) + 1 /\ Len(a) \in Nat
    BY <1>1, <1>2, <1>4, AppendProperties
  <2> QED BY <1>1, <2>1, <2>2
<1>5. CASE m = 0 /\ n # 0
  <2>1. Append(b, Suffix[n]) = a
    BY <1>5 DEF Numbered, a, b
  <2>2. Len(Append(b, Suffix[n])) = Len(b) + 1 /\ Len(b) \in Nat
    BY <1>1, <1>2, <1>5, AppendProperties
  <2> QED BY <1>1, <2>1, <2>2
<1>6. CASE m # 0 /\ n # 0
  <2>1. Append(a, Suffix[m]) = Append(b, Suffix[n])
    BY <1>6 DEF Numbered, a, b
  <2>2. Suffix[m] \in STRING /\ Suffix[n] \in STRING
    BY <1>2, <1>6
  <2>3. a = b /\ Suffix[m] = Suffix[n]
    BY <1>1, <2>1, <2>2, AppendInjective
  <2>4. m \in DOMAIN Suffix /\ n \in DOMAIN Suffix
    BY <1>1, <1>6
  <2>5. m = n
    BY <1>1, <2>3, <2>4 DEF IsInjective
  <2> QED BY <1>1, <2>3, <2>5
<1> QED BY <1>3, <1>4, <1>5, <1>6

\* Among no more keywords than there are numbers, the first free one is found.
LEMMA FreeReferenceFacts ==
    ASSUME NEW k \in LongKeyword, NEW S, IsFiniteSet(S),
           Cardinality(S) <= Len(Suffix)
    PROVE  \E n \in 0..Len(Suffix) :
              /\ FreeReference(Digest[k], S) = Numbered(Digest[k], n)
              /\ Numbered(Digest[k], n) \notin S
              /\ \A m \in 0..Len(Suffix) :
                    Numbered(Digest[k], m) \notin S => n <= m
<1> DEFINE N == 0..Len(Suffix)
           b == Digest[k]
           free == {n \in N : Numbered(b, n) \notin S}
<1>1. Len(Suffix) \in Nat /\ N \in SUBSET Nat
  BY SuffixAssumption
<1>2. free # {}
  <2> SUFFICES ASSUME free = {} PROVE FALSE
    OBVIOUS
  <2> DEFINE f == [n \in N |-> Numbered(b, n)]
  <2>1. f \in Injection(N, S)
    <3>1. \A n \in N : f[n] \in S
      OBVIOUS
    <3>2. \A m \in N, n \in N : f[m] = f[n] => m = n
      BY NumberedFacts
    <3> HIDE DEF f, N
    <3>3. f \in [N -> S]
      BY <3>1 DEF f
    <3> QED BY <3>2, <3>3 DEF Injection, IsInjective
  <2>2. IsFiniteSet(N) /\ Cardinality(N) = Len(Suffix) + 1
    BY <1>1, FS_Interval
  <2>3. Cardinality(N) <= Cardinality(S)
    <3> HIDE DEF f, N
    <3> QED BY <2>1, <2>2, FS_Injection
  <2>4. Cardinality(S) \in Nat
    BY FS_CardinalityType
  <2> HIDE DEF N, free
  <2> QED BY <1>1, <2>2, <2>3, <2>4
<1>3. PICK n \in free : \A m \in free : n <= m
  <2>1. free \in SUBSET Nat
    BY <1>1
  <2> HIDE DEF free
  <2> QED BY <1>2, <2>1, LeastNatural
<1> DEFINE c == CHOOSE x \in free : \A m \in free : x <= m
<1>4. c \in free /\ \A m \in free : c <= m
  <2> HIDE DEF free
  <2> QED BY <1>3
<1>5. FreeReference(b, S) = Numbered(b, c)
  BY DEF FreeReference
<1> HIDE DEF c
<1> QED BY <1>4, <1>5

\* A reference is nobody else's keyword and nobody else's reference.
LEMMA ReferencesDiffer ==
    ASSUME NEW S, IsFiniteSet(S), Cardinality(S) <= Len(Suffix)
    PROVE  \A k \in S, l \in S :
              /\ k \in LongKeyword => ReferenceAmong(k, S) \notin S
              /\ ReferenceAmong(k, S) = ReferenceAmong(l, S) => k = l
<1> TAKE k \in S, l \in S
<1>1. \A j \in LongKeyword :
         \E n \in 0..Len(Suffix) : FreeReference(Digest[j], S) = Numbered(Digest[j], n)
  BY FreeReferenceFacts
<1>2. \A j \in LongKeyword : FreeReference(Digest[j], S) \notin S
  BY FreeReferenceFacts
<1>3. ASSUME k \in LongKeyword, l \in LongKeyword,
             ReferenceAmong(k, S) = ReferenceAmong(l, S)
      PROVE  k = l
  <2>1. PICK m \in 0..Len(Suffix) : ReferenceAmong(k, S) = Numbered(Digest[k], m)
    BY <1>1, <1>3 DEF ReferenceAmong
  <2>2. PICK n \in 0..Len(Suffix) : ReferenceAmong(l, S) = Numbered(Digest[l], n)
    BY <1>1, <1>3 DEF ReferenceAmong
  <2> QED BY <1>3, <2>1, <2>2, NumberedFacts
<1> QED BY <1>2, <1>3 DEF ReferenceAmong

\* The references given so far take no number from another digest.
LEMMA OthersTakeNothing ==
    ASSUME NEW S, IsFiniteSet(S), Cardinality(S) <= Len(Suffix),
           NEW D \in SUBSET S, NEW k \in LongKeyword, k \notin D
    PROVE  FreeReference(Digest[k], S \cup Range(References(D, S)))
              = FreeReference(Digest[k], S)
<1> DEFINE T == S \cup Range(References(D, S))
<1>1. \A n \in 0..Len(Suffix) :
         Numbered(Digest[k], n) \notin T <=> Numbered(Digest[k], n) \notin S
  <2> SUFFICES ASSUME NEW n \in 0..Len(Suffix), NEW l \in D,
                      Numbered(Digest[k], n) = ReferenceAmong(l, S)
               PROVE  Numbered(Digest[k], n) \in S
    BY DEF Range, References
  <2>1. CASE l \in LongKeyword
    <3>1. PICK m \in 0..Len(Suffix) : ReferenceAmong(l, S) = Numbered(Digest[l], m)
      BY <2>1, FreeReferenceFacts DEF ReferenceAmong
    <3>2. k = l
      BY <2>1, <3>1, NumberedFacts
    <3> QED BY <3>2
  <2>2. CASE l \notin LongKeyword
    BY <2>2 DEF ReferenceAmong
  <2> QED BY <2>1, <2>2
<1>2. {n \in 0..Len(Suffix) : Numbered(Digest[k], n) \notin T}
        = {n \in 0..Len(Suffix) : Numbered(Digest[k], n) \notin S}
  <2> HIDE DEF T
  <2> QED BY <1>1
<1> QED BY <1>2 DEF FreeReference

\* One claim is given its reference.
AssignTo(references, k, S) ==
    IF k \in DOMAIN references THEN references
    ELSE Given(references, k, FreeReference(Digest[k], S \cup Range(references)))

\* The references that there may be on the way.
Partial(S) == {References(D, S) : D \in {E \in SUBSET S : S \ LongKeyword \subseteq E}}

AssignStep(keywords) ==
    [q \in (1..Len(keywords)) \X Partial(ToSet(keywords)) |->
        AssignTo(q[2], keywords[q[1]], ToSet(keywords))]

LEMMA AssignAddsOne ==
    ASSUME NEW S, IsFiniteSet(S), Cardinality(S) <= Len(Suffix),
           NEW D \in SUBSET S, S \ LongKeyword \subseteq D, NEW k \in S
    PROVE  /\ AssignTo(References(D, S), k, S) = References(D \cup {k}, S)
           /\ References(D \cup {k}, S) \in Partial(S)
<1>1. References(D \cup {k}, S) \in Partial(S)
  BY DEF Partial
<1>2. DOMAIN References(D, S) = D
  BY DEF References
<1>3. CASE k \in D
  <2>1. D \cup {k} = D
    BY <1>3
  <2> QED BY <1>1, <1>2, <1>3, <2>1 DEF AssignTo
<1>4. CASE k \notin D
  <2>1. k \in LongKeyword
    BY <1>4
  <2> DEFINE r == References(D, S)
             v == ReferenceAmong(k, S)
  <2>2. FreeReference(Digest[k], S \cup Range(r)) = v
    BY <1>4, <2>1, OthersTakeNothing DEF ReferenceAmong
  <2>3. AssignTo(r, k, S) = Given(r, k, v)
    BY <1>2, <1>4, <2>2 DEF AssignTo
  <2>5. \A x \in D : r[x] = ReferenceAmong(x, S)
    BY DEF References
  <2>6. Given(r, k, v) = References(D \cup {k}, S)
    BY <1>2, <2>5 DEF References, Given
  <2> QED BY <1>1, <2>3, <2>6
<1> QED BY <1>3, <1>4

LEMMA ValuesAreFinite ==
    ASSUME NEW K, NEW s \in Seq(K)
    PROVE  IsFiniteSet(ToSet(s)) /\ Cardinality(ToSet(s)) <= Len(s)
<1>1. /\ IsFiniteSet(1..Len(s)) /\ Cardinality(1..Len(s)) = Len(s)
      /\ DOMAIN s = 1..Len(s)
  <2>1. Len(s) \in Nat /\ DOMAIN s = 1..Len(s)
    OBVIOUS
  <2>2. /\ IsFiniteSet(1..Len(s))
        /\ Cardinality(1..Len(s)) = IF 1 > Len(s) THEN 0 ELSE Len(s) - 1 + 1
    BY <2>1, FS_Interval
  <2> QED BY <2>1, <2>2
<1>2. s \in [1..Len(s) -> ToSet(s)]
  BY <1>1 DEF ToSet
<1>3. s \in Surjection(1..Len(s), ToSet(s))
  BY <1>1, <1>2 DEF Surjection, ToSet
<1> QED BY <1>1, <1>3, FS_Surjection

\* The fold, step by step.
LEMMA BuildReferencesSteps ==
    ASSUME NEW keywords, NEW K, keywords \in Seq(K),
           Cardinality(ToSet(keywords)) <= Len(Suffix)
    PROVE  \E p \in [0..Len(keywords) -> Partial(ToSet(keywords))] :
              /\ StepByStep(p, AssignStep(keywords),
                            References(ToSet(keywords) \ LongKeyword,
                                       ToSet(keywords)),
                            Len(keywords))
              /\ BuildReferences(keywords) = p[Len(keywords)]
<1> DEFINE n == Len(keywords)
           I == 1..n
           S == ToSet(keywords)
           base == [k \in S \ LongKeyword |-> k]
           X == Partial(S)
           N(g) == [T \in SUBSET DOMAIN keywords |->
                      IF T = {} THEN base
                      ELSE AssignTo(g[T \ {Max(T)}], keywords[Max(T)], S)]
           fold == CHOOSE g : g = N(g)
           pick == [T \in SUBSET I |-> Max(T)]
           step == AssignStep(keywords)
<1>1. /\ IsFiniteSet(I) /\ n \in Nat /\ DOMAIN keywords = I
      /\ \A i \in I : keywords[i] \in S
  BY FS_Interval DEF ToSet
<1>2. IsFiniteSet(S)
  BY ValuesAreFinite
<1>3. \A T \in SUBSET I : T # {} => Max(T) \in T
  BY <1>1, MaxIsMember
<1>4. Picks(pick, I)
  BY <1>3 DEF Picks
<1>5. \A r \in X, k \in S : AssignTo(r, k, S) \in X
  <2> TAKE r \in X, k \in S
  <2>1. PICK D \in SUBSET S : S \ LongKeyword \subseteq D /\ r = References(D, S)
    BY DEF Partial
  <2> HIDE DEF S, X
  <2>2. AssignTo(r, k, S) = References(D \cup {k}, S)
    BY <1>2, <2>1, AssignAddsOne DEF S
  <2>3. References(D \cup {k}, S) \in X
    BY <1>2, <2>1, AssignAddsOne DEF S, X
  <2> QED BY <2>2, <2>3
<1>6. base = References(S \ LongKeyword, S) /\ base \in X
  <2>1. base = References(S \ LongKeyword, S)
    BY DEF References, ReferenceAmong
  <2> QED BY <2>1 DEF Partial
<1>7. StepsIn(step, n, X)
  <2>1. \A q \in I \X X : AssignTo(q[2], keywords[q[1]], S) \in X
    <3> TAKE q \in I \X X
    <3>1. q[2] \in X /\ keywords[q[1]] \in S
      BY <1>1
    <3> HIDE DEF X, S
    <3> QED BY <1>5, <3>1
  <2>2. step = [q \in I \X X |-> AssignTo(q[2], keywords[q[1]], S)]
    BY DEF AssignStep
  <2> HIDE DEF S, X, step, I
  <2>3. step \in [I \X X -> X]
    BY <2>1, <2>2
  <2> QED BY <2>3 DEF StepsIn, I
<1>8. \A i \in I, r \in X : step[<<i, r>>] = AssignTo(r, keywords[i], S)
  BY DEF AssignStep
<1> HIDE DEF S, X, step, base
<1>9. \E g : g = N(g)
  <2>1. PICK g \in [SUBSET I -> X] : FoldsBy(g, I, pick, step, base)
    <3>1. step \in [I \X X -> X]
      BY <1>7 DEF StepsIn
    <3> HIDE DEF I, pick
    <3> QED BY <1>1, <1>4, <1>6, <3>1, RecursionOverSubsets
  <2>2. \A T \in SUBSET I : g[T] = N(g)[T]
    <3> TAKE T \in SUBSET I
    <3>1. CASE T = {}
      BY <1>1, <2>1, <3>1 DEF FoldsBy
    <3>2. CASE T # {}
      <4>1. pick[T] = Max(T) /\ Max(T) \in I /\ T \ {Max(T)} \in SUBSET I
        BY <1>3, <3>2
      <4>2. g[T] = step[<<Max(T), g[T \ {Max(T)}]>>]
        BY <2>1, <3>2, <4>1 DEF FoldsBy
      <4>3. N(g)[T] = AssignTo(g[T \ {Max(T)}], keywords[Max(T)], S)
        BY <1>1, <3>2
      <4>4. g[T \ {Max(T)}] \in X
        BY <4>1
      <4> HIDE DEF N, I, pick
      <4> QED BY <1>8, <4>1, <4>2, <4>3, <4>4
    <3> QED BY <3>1, <3>2
  <2>3. N(g) = [T \in SUBSET I |-> N(g)[T]]
    BY <1>1
  <2>4. g = [T \in SUBSET I |-> g[T]]
    OBVIOUS
  <2> HIDE DEF N
  <2>5. g = N(g)
    BY <2>2, <2>3, <2>4
  <2> QED BY <2>5
<1>10. fold = N(fold)
  BY <1>9
<1>11. BuildReferences(keywords) = fold[DOMAIN keywords]
  BY DEF BuildReferences, FoldLeft, MapThenFoldSet, AssignTo, S, base
<1>12. FoldsFromLeft(fold, step, base, n, X)
  <2> HIDE DEF fold
  <2>1. fold[{}] = base
    BY <1>10
  <2>2. ASSUME NEW T \in SUBSET I, T # {}, fold[T \ {Max(T)}] \in X
        PROVE  fold[T] = step[<<Max(T), fold[T \ {Max(T)}]>>]
    <3>1. Max(T) \in I /\ T \in SUBSET DOMAIN keywords
      BY <1>1, <1>3, <2>2
    <3>2. N(fold)[T] = AssignTo(fold[T \ {Max(T)}], keywords[Max(T)], S)
      BY <2>2, <3>1
    <3> HIDE DEF N, I
    <3> QED BY <1>8, <1>10, <2>2, <3>1, <3>2
  <2> QED BY <2>1, <2>2 DEF FoldsFromLeft
<1>13. EndsAt(fold, step, base, n, X)
  <2> HIDE DEF n, fold
  <2> QED BY <1>1, <1>6, <1>7, <1>12, FoldIsLastStep
<1>14. fold[DOMAIN keywords] = fold[1..n]
  BY <1>1
<1> HIDE DEF fold, N, I, pick, n
<1> QED BY <1>6, <1>11, <1>13, <1>14 DEF EndsAt, step, X, S, n

\* Every claim has its reference.
LEMMA BuildReferencesIs ==
    ASSUME NEW keywords, NEW K, keywords \in Seq(K),
           Cardinality(ToSet(keywords)) <= Len(Suffix)
    PROVE  BuildReferences(keywords) = References(ToSet(keywords), ToSet(keywords))
<1> DEFINE n == Len(keywords)
           S == ToSet(keywords)
           base == References(S \ LongKeyword, S)
           step == AssignStep(keywords)
<1>1. PICK p \in [0..n -> Partial(S)] :
         StepByStep(p, step, base, n) /\ BuildReferences(keywords) = p[n]
  BY BuildReferencesSteps
<1>2. /\ n \in Nat /\ S = {keywords[i] : i \in 1..n}
      /\ IsFiniteSet(S) /\ Cardinality(S) <= Len(Suffix)
  BY ValuesAreFinite DEF ToSet
<1>3. \A i \in 0..n : \E D \in SUBSET S :
         /\ S \ LongKeyword \subseteq D
         /\ p[i] = References(D, S)
         /\ DOMAIN p[i] = D
  <2> TAKE i \in 0..n
  <2>1. p[i] \in Partial(S)
    BY <1>1
  <2> HIDE DEF S
  <2> QED BY <2>1 DEF Partial, References
<1>4. \A i \in 1..n : DOMAIN p[i] = DOMAIN p[i - 1] \cup {keywords[i]}
  <2> TAKE i \in 1..n
  <2>1. /\ i - 1 \in 0..n /\ keywords[i] \in S
    BY <1>2
  <2>2. p[i] = step[<<i, p[i - 1]>>] /\ p[i - 1] \in Partial(S)
    BY <1>1, <2>1 DEF StepByStep
  <2>3. p[i] = AssignTo(p[i - 1], keywords[i], S)
    BY <2>2 DEF AssignStep
  <2>4. PICK D \in SUBSET S : /\ S \ LongKeyword \subseteq D
                             /\ p[i - 1] = References(D, S)
                             /\ DOMAIN p[i - 1] = D
    BY <1>3, <2>1
  <2>5. p[i] = References(D \cup {keywords[i]}, S)
    <3> HIDE DEF S
    <3> QED BY <1>2, <2>1, <2>3, <2>4, AssignAddsOne
  <2> QED BY <2>4, <2>5 DEF References
<1> DEFINE G == {i \in Nat : i <= n => \A j \in 1..i : keywords[j] \in DOMAIN p[i]}
<1> HIDE DEF S, base, step
<1>5. 0 \in G
  OBVIOUS
<1>6. ASSUME NEW i \in G PROVE i + 1 \in G
  <2> SUFFICES ASSUME i + 1 <= n, NEW j \in 1..(i + 1)
               PROVE  keywords[j] \in DOMAIN p[i + 1]
    OBVIOUS
  <2>1. i + 1 \in 1..n /\ (i + 1) - 1 = i /\ i <= n
    BY <1>2
  <2>2. DOMAIN p[i + 1] = DOMAIN p[i] \cup {keywords[i + 1]}
    BY <1>4, <2>1
  <2>3. j = i + 1 \/ j \in 1..i
    OBVIOUS
  <2> QED BY <2>1, <2>2, <2>3
<1>7. G = Nat
  <2>1. G \in SUBSET Nat
    OBVIOUS
  <2> HIDE DEF G
  <2> QED BY <1>5, <1>6, <2>1, SetInduction
<1>8. \A j \in 1..n : keywords[j] \in DOMAIN p[n]
  <2>1. n \in G
    <3> HIDE DEF G
    <3> QED BY <1>2, <1>7
  <2> QED BY <1>2, <2>1
<1>9. PICK D \in SUBSET S : p[n] = References(D, S) /\ DOMAIN p[n] = D
  BY <1>2, <1>3
<1>10. D = S
  BY <1>2, <1>8, <1>9
<1> QED BY <1>1, <1>9, <1>10 DEF S

\* A reference that is nobody's keyword later on stays the same.
LEMMA ReferenceIsStable ==
    ASSUME NEW T, IsFiniteSet(T), Cardinality(T) <= Len(Suffix),
           NEW S \in SUBSET T, NEW k \in S \cap LongKeyword,
           ReferenceAmong(k, S) \notin T
    PROVE  ReferenceAmong(k, T) = ReferenceAmong(k, S)
<1>1. /\ IsFiniteSet(S) /\ Cardinality(S) <= Len(Suffix)
      /\ Len(Suffix) \in Nat
  BY FS_Subset, FS_CardinalityType, SuffixAssumption
<1>2. PICK m \in 0..Len(Suffix) :
         /\ ReferenceAmong(k, S) = Numbered(Digest[k], m)
         /\ \A i \in 0..Len(Suffix) : Numbered(Digest[k], i) \notin S => m <= i
  BY <1>1, FreeReferenceFacts DEF ReferenceAmong
<1>3. PICK n \in 0..Len(Suffix) :
         /\ ReferenceAmong(k, T) = Numbered(Digest[k], n)
         /\ Numbered(Digest[k], n) \notin T
         /\ \A i \in 0..Len(Suffix) : Numbered(Digest[k], i) \notin T => n <= i
  BY FreeReferenceFacts DEF ReferenceAmong
<1>4. m <= n /\ n <= m
  BY <1>2, <1>3
<1> QED BY <1>1, <1>2, <1>3, <1>4

-----------------------------------------------------------------------------
(* The claims, and what the agents were shown of them.  *)

ClaimRecord == [keyword : Seq(STRING), status : {"OPEN", "CLOSED", "REOPENING"}]

\* Those that are there when the agents are asked stay.
Listed ==
    /\ claims \in Seq(ClaimRecord)
    /\ Len(claims) <= MaxTable
    /\ \E S \in SUBSET Keywords : shown = References(S, S)

\* What may follow from the lookup of the response.
LookedUp ==
    \/ known = Open /\ target = AnswerTarget(response.text)
    \/ known = Closed /\ target = ReopenTarget(response.text)

\* A response about one claim as a whole is not scanned.
Whole ==
    /\ stage \in {"scanning", "resolved"} => LookedUp
    /\ stage = "idle" => matched = {} /\ unmatched = {}
    /\ stage = "scanning" /\ target \in known => matched = {} /\ unmatched = {}
    /\ stage = "resolved" /\ target \in known =>
          matched = {target} /\ unmatched = {}

LEMMA KeywordFacts ==
    ASSUME claims \in Seq(ClaimRecord), Len(claims) <= MaxTable
    PROVE  /\ IsFiniteSet(Keywords) /\ Cardinality(Keywords) <= Len(Suffix)
           /\ Order \in Seq(Seq(STRING)) /\ ToSet(Order) = Keywords
           /\ BuildReferences(Order) = References(Keywords, Keywords)
           /\ Open \subseteq Keywords /\ Closed \subseteq Keywords
<1>1. /\ Len(claims) \in Nat /\ DOMAIN claims = 1..Len(claims)
      /\ \A i \in DOMAIN claims : claims[i].keyword \in Seq(STRING)
  <2> DEFINE K == Seq(STRING)
             T == {"OPEN", "CLOSED", "REOPENING"}
             C == [keyword : K, status : T]
  <2>1. claims \in Seq(C)
    BY DEF ClaimRecord
  <2> HIDE DEF C
  <2>2. /\ Len(claims) \in Nat /\ DOMAIN claims = 1..Len(claims)
        /\ \A i \in DOMAIN claims : claims[i] \in C
    BY <2>1
  <2> HIDE DEF K, T
  <2>3. \A c \in C : c.keyword \in K
    BY DEF C
  <2> QED BY <2>2, <2>3 DEF K
<1>2. Order \in Seq(Seq(STRING)) /\ Len(Order) = Len(claims)
  BY <1>1 DEF Order
<1>3. ToSet(Order) = Keywords
  BY DEF ToSet, Keywords, Order
<1>4. IsFiniteSet(Keywords) /\ Cardinality(Keywords) <= Len(claims)
  BY <1>2, <1>3, ValuesAreFinite
<1>5. MaxTable \in Nat /\ MaxTable <= Len(Suffix) /\ Len(Suffix) \in Nat
  BY TargetsAssumption, SuffixAssumption
<1>6. Cardinality(Keywords) \in Nat
  BY <1>4, FS_CardinalityType
<1>7. Cardinality(Keywords) <= Len(Suffix)
  BY <1>1, <1>4, <1>5, <1>6
<1>8. BuildReferences(Order) = References(Keywords, Keywords)
  BY <1>2, <1>3, <1>7, BuildReferencesIs
<1>9. Open \subseteq Keywords /\ Closed \subseteq Keywords
  BY DEF Open, Closed, Having, Keywords
<1> QED BY <1>2, <1>3, <1>4, <1>7, <1>8, <1>9

\* The lookup of a claim's reference finds it, and its keyword is no other
\* claim's reference.
LEMMA LookupFinds ==
    ASSUME Listed, NEW addressed \in SUBSET Keywords, NEW k \in addressed
    PROVE  /\ Lookup(ReferenceAmong(k, Keywords), addressed) = k
           /\ Lookup(k, addressed) = k
<1> DEFINE R(j) == ReferenceAmong(j, Keywords)
<1>1. /\ BuildReferences(Order) = References(Keywords, Keywords)
      /\ IsFiniteSet(Keywords) /\ Cardinality(Keywords) <= Len(Suffix)
  BY KeywordFacts DEF Listed
<1>2. \A j \in addressed : BuildReferences(Order)[j] = R(j)
  BY <1>1 DEF References
<1>3. \A i \in Keywords, j \in Keywords :
         /\ i \in LongKeyword => R(i) \notin Keywords
         /\ R(i) = R(j) => i = j
  BY <1>1, ReferencesDiffer
<1>4. ASSUME NEW text
      PROVE  LET named == {j \in addressed : R(j) = text}
             IN  Lookup(text, addressed) =
                    IF named = {} THEN text ELSE CHOOSE j \in named : TRUE
  <2>1. {j \in addressed : BuildReferences(Order)[j] = text}
          = {j \in addressed : R(j) = text}
    BY <1>2
  <2> DEFINE named == {j \in addressed : BuildReferences(Order)[j] = text}
  <2>2. Lookup(text, addressed)
           = IF named = {} THEN text ELSE CHOOSE j \in named : TRUE
    BY DEF Lookup
  <2> HIDE DEF R
  <2> QED BY <2>1, <2>2, Zenon
<1>5. Lookup(R(k), addressed) = k
  <2>1. {j \in addressed : R(j) = R(k)} = {k}
    BY <1>3
  <2>2. (CHOOSE j \in {k} : TRUE) = k
    OBVIOUS
  <2> QED BY <1>4, <2>1, <2>2
<1>6. CASE k \in LongKeyword
  <2>1. {j \in addressed : R(j) = k} = {}
    <3> SUFFICES ASSUME NEW j \in addressed, R(j) = k PROVE FALSE
      OBVIOUS
    <3>1. j \notin LongKeyword
      BY <1>3
    <3>2. R(j) = j
      BY <3>1 DEF ReferenceAmong
    <3> QED BY <1>6, <3>1, <3>2
  <2>2. Lookup(k, addressed) = k
    BY <1>4, <2>1
  <2> QED BY <1>5, <2>2
<1>7. CASE k \notin LongKeyword
  <2>1. R(k) = k
    BY <1>7 DEF ReferenceAmong
  <2> QED BY <1>5, <2>1
<1> QED BY <1>6, <1>7

\* An answer under a reference that is still the claim's own, or under the
\* keyword, is about the claim.
Addresses(text, k) ==
    \/ text = k
    \/ /\ k \in DOMAIN shown /\ text = shown[k]
       /\ shown[k] \notin Keywords \ DOMAIN shown

LEMMA LookupReachesClaim ==
    ASSUME Listed, NEW text, NEW addressed \in SUBSET Keywords,
           NEW k \in addressed, Addresses(text, k)
    PROVE  /\ Lookup(text, addressed) = k
           /\ text # k => text \notin Keywords
<1>1. PICK S \in SUBSET Keywords : shown = References(S, S)
  BY DEF Listed
<1>2. IsFiniteSet(Keywords) /\ Cardinality(Keywords) <= Len(Suffix)
  BY KeywordFacts DEF Listed
<1>3. CASE text = k
  BY <1>3, LookupFinds
<1>4. CASE text # k
  <2>1. k \in S /\ text = ReferenceAmong(k, S) /\ text \notin Keywords \ S
    BY <1>1, <1>4 DEF Addresses, References
  <2>2. k \in LongKeyword
    BY <1>4, <2>1 DEF ReferenceAmong
  <2>3. IsFiniteSet(S) /\ Cardinality(S) <= Len(Suffix)
    BY <1>2, FS_Subset, FS_CardinalityType, SuffixAssumption
  <2>4. text \notin S
    BY <2>1, <2>2, <2>3, ReferencesDiffer
  <2>5. text \notin Keywords
    BY <2>1, <2>4
  <2>6. text = ReferenceAmong(k, Keywords)
    BY <1>2, <2>1, <2>2, <2>5, ReferenceIsStable
  <2> QED BY <2>5, <2>6, LookupFinds
<1> QED BY <1>3, <1>4

LEMMA TargetReachesClaim ==
    ASSUME Listed, LookedUp, NEW k \in known, Addresses(response.text, k)
    PROVE  target = k
<1>1. Open \subseteq Keywords /\ Closed \subseteq Keywords
  BY KeywordFacts DEF Listed
<1>2. CASE known = Open /\ target = AnswerTarget(response.text)
  <2>1. k \in Open /\ k \in Keywords
    BY <1>1, <1>2
  <2>2. /\ Lookup(response.text, Open) = k
        /\ response.text # k => response.text \notin Keywords
    BY <1>1, <2>1, LookupReachesClaim
  <2> QED BY <1>1, <1>2, <2>1, <2>2 DEF AnswerTarget
<1>3. CASE known = Closed /\ target = ReopenTarget(response.text)
  <2>1. Lookup(response.text, Closed) = k
    BY <1>1, <1>3, LookupReachesClaim
  <2> QED BY <1>3, <2>1 DEF ReopenTarget
<1> QED BY <1>2, <1>3 DEF LookedUp

AnswersInv == Listed /\ Whole

LEMMA ListedInitially == Init => AnswersInv
<1> SUFFICES ASSUME Init PROVE AnswersInv
  OBVIOUS
<1> USE DEF Init, TargetsInit
<1>1. /\ claims \in Seq(ClaimRecord) /\ Len(claims) <= MaxTable
  <2> DEFINE K == Seq(STRING)
             C == [keyword : K, status : {"OPEN", "CLOSED"}]
  <2>1. claims \in Seq(C) /\ Len(claims) <= MaxTable
    BY TablesAssumption
  <2> HIDE DEF K
  <2>2. C \subseteq [keyword : K, status : {"OPEN", "CLOSED", "REOPENING"}]
    OBVIOUS
  <2> HIDE DEF C
  <2>3. C \subseteq ClaimRecord
    BY <2>2 DEF ClaimRecord, K
  <2> QED BY <2>1, <2>3
<1>2. shown = References(Keywords, Keywords)
  BY <1>1, KeywordFacts
<1>3. Whole
  BY DEF NotScanning, Whole
<1> QED BY <1>1, <1>2, <1>3 DEF AnswersInv, Listed

\* A table of more claims, or of the same ones in another status.
LEMMA ListedStays ==
    ASSUME Listed, claims' \in Seq(ClaimRecord), Len(claims') <= MaxTable,
           Keywords \subseteq Keywords', UNCHANGED shown
    PROVE  Listed'
BY DEF Listed

LEMMA ListedStep == Listed /\ [Next]_vars => Listed'
<1> SUFFICES ASSUME Listed, [Next]_vars PROVE Listed'
  OBVIOUS
<1>0. /\ claims \in Seq(ClaimRecord) /\ Len(claims) <= MaxTable
      /\ Len(claims) \in Nat /\ DOMAIN claims = 1..Len(claims)
      /\ \A i \in DOMAIN claims : claims[i] \in ClaimRecord
  BY DEF Listed
<1>1. CASE UNCHANGED <<claims, shown>>
  BY <1>1 DEF Listed, Keywords
<1>2. CASE Propose
  <2>1. PICK k \in Proposals :
           claims' = Append(claims, [keyword |-> k, status |-> "OPEN"])
    BY <1>2 DEF Propose
  <2> DEFINE K == Seq(STRING)
             c == [keyword |-> k, status |-> "OPEN"]
  <2>2. c \in ClaimRecord
    <3>1. k \in K
      BY TablesAssumption
    <3> HIDE DEF K
    <3>2. c \in [keyword : K, status : {"OPEN", "CLOSED", "REOPENING"}]
      BY <3>1
    <3> QED BY <3>2 DEF ClaimRecord, K
  <2> HIDE DEF c
  <2>3. /\ claims' \in Seq(ClaimRecord)
        /\ Len(claims') = Len(claims) + 1
        /\ \A i \in DOMAIN claims : claims'[i] = claims[i] /\ i \in DOMAIN claims'
    BY <1>0, <2>1, <2>2, AppendProperties DEF c
  <2>4. Len(claims') <= MaxTable
    BY <1>0, <1>2, <2>3, TargetsAssumption DEF Propose
  <2>5. Keywords \subseteq Keywords'
    BY <2>3 DEF Keywords
  <2> QED BY <1>2, <2>3, <2>4, <2>5, ListedStays DEF Propose
<1>3. CASE Record
  <2>1. PICK valid \in BOOLEAN :
          claims' = [i \in DOMAIN claims |->
                      IF /\ response.kind = "reopen" /\ valid
                         /\ claims[i].keyword \in matched
                      THEN [claims[i] EXCEPT !.status = "REOPENING"]
                      ELSE claims[i]]
    BY <1>3 DEF Record
  <2>2. \A c \in ClaimRecord :
           /\ [c EXCEPT !.status = "REOPENING"] \in ClaimRecord
           /\ [c EXCEPT !.status = "REOPENING"].keyword = c.keyword
    <3> DEFINE K == Seq(STRING)
    <3> HIDE DEF K
    <3> QED BY DEF ClaimRecord, K
  <2>3. /\ DOMAIN claims' = 1..Len(claims)
        /\ \A i \in DOMAIN claims : /\ claims'[i] \in ClaimRecord
                                    /\ claims'[i].keyword = claims[i].keyword
    BY <1>0, <2>1, <2>2
  <2>4. claims' \in Seq(ClaimRecord) /\ Len(claims') = Len(claims)
    <3>1. claims' = [i \in 1..Len(claims) |-> claims'[i]]
      BY <1>0, <2>1
    <3>2. claims' \in [1..Len(claims) -> ClaimRecord]
      BY <1>0, <2>3, <3>1
    <3> QED BY <1>0, <2>3, <3>2
  <2>5. Keywords \subseteq Keywords'
    BY <1>0, <2>3 DEF Keywords
  <2> QED BY <1>0, <1>3, <2>4, <2>5, ListedStays DEF Record
<1> QED
  BY <1>1, <1>2, <1>3 DEF Next, Merge, TargetsNext, Respond, MatchWhole,
     MatchKeyword, SkipSeparator, KeepCharacter, Finish, SaveClaims, AskHost,
     FillBatches, Batched, vars

LEMMA WholeStep == Whole /\ [Next]_vars => Whole'
<1> SUFFICES ASSUME Whole, [Next]_vars PROVE Whole'
  OBVIOUS
<1> USE DEF Whole, LookedUp
<1>1. CASE UNCHANGED <<claims, stage, scan>>
  BY <1>1 DEF scan, Open, Closed, Having, AnswerTarget, ReopenTarget, Lookup, Order
<1>2. CASE Propose
  BY <1>2 DEF Propose, scan
<1>3. CASE Respond
  <2>1. Open' = Open /\ Closed' = Closed /\ Order' = Order
    BY <1>3 DEF Respond, Open, Closed, Having, Order
  <2>2. LookedUp'
    BY <1>3, <2>1 DEF Respond, AnswerTarget, ReopenTarget, Lookup
  <2>3. stage' = "scanning" /\ matched' = {} /\ unmatched' = {}
    BY <1>3 DEF Respond
  <2> QED BY <2>2, <2>3
<1>4. CASE Record
  BY <1>4 DEF Record
<1>5. CASE /\ MatchWhole \/ MatchKeyword \/ SkipSeparator \/ KeepCharacter \/ Finish
  <2>1. /\ stage = "scanning" /\ stage' \in {"scanning", "resolved"}
        /\ UNCHANGED <<claims, response, known, target>>
    BY <1>5 DEF MatchWhole, MatchKeyword, SkipSeparator, KeepCharacter, Finish,
       Scanning
  <2>2. LookedUp'
    BY <2>1 DEF Open, Closed, Having, AnswerTarget, ReopenTarget, Lookup, Order
  <2>3. CASE target \in known
    <3>1. MatchWhole
      BY <1>5, <2>3 DEF MatchKeyword, SkipSeparator, KeepCharacter, Finish,
         Scanning
    <3> QED BY <2>1, <2>2, <2>3, <3>1 DEF MatchWhole
  <2> QED BY <2>1, <2>2, <2>3
<1>6. CASE /\ UNCHANGED scan /\ stage' \in {"saved", "batching", "batched"}
  BY <1>6
<1>7. CASE /\ FillBatches
  BY <1>1, <1>7 DEF FillBatches
<1> QED
  BY <1>1, <1>2, <1>3, <1>4, <1>5, <1>6, <1>7
     DEF Next, Merge, TargetsNext, SaveClaims, AskHost, Batched, vars

\* An answer given under the reference that the prompt showed, or under the
\* whole keyword, reaches that claim and no other, for every table of claims,
\* all digests and all numbers.
THEOREM AnswersReachClaimHolds == Spec => []AnswersReachClaim
<1>1. AnswersInv /\ [Next]_vars => AnswersInv'
  BY ListedStep, WholeStep DEF AnswersInv
<1>2. AnswersInv => AnswersReachClaim
  <2> SUFFICES ASSUME AnswersInv, stage = "resolved", NEW k \in known,
                      Addresses(response.text, k)
               PROVE  matched = {k} /\ unmatched = {}
    BY DEF AnswersReachClaim, Addresses
  <2>1. LookedUp
    BY DEF AnswersInv, Whole
  <2>2. target = k
    BY <2>1, TargetReachesClaim DEF AnswersInv
  <2> QED BY <2>2 DEF AnswersInv, Whole
<1> QED BY <1>1, <1>2, ListedInitially, PTL DEF Spec

-----------------------------------------------------------------------------
(* What is picked of a sequence. *)

PickOne(r, x, S) == IF x \in S THEN Append(r, x) ELSE r

PickStep(s, S, K) ==
    [q \in (1..Len(s)) \X Seq(K) |-> PickOne(q[2], s[q[1]], S)]

LEMMA PickedSteps ==
    ASSUME NEW K, NEW s, s \in Seq(K), NEW S
    PROVE  \E p \in [0..Len(s) -> Seq(K)] :
              /\ StepByStep(p, PickStep(s, S, K), <<>>, Len(s))
              /\ Picked(s, S) = p[Len(s)]
<1> DEFINE n == Len(s)
           I == 1..n
           X == Seq(K)
           N(g) == [T \in SUBSET DOMAIN s |->
                      IF T = {} THEN <<>>
                      ELSE PickOne(g[T \ {Max(T)}], s[Max(T)], S)]
           fold == CHOOSE g : g = N(g)
           pick == [T \in SUBSET I |-> Max(T)]
           step == PickStep(s, S, K)
<1>1. /\ IsFiniteSet(I) /\ n \in Nat /\ DOMAIN s = I
      /\ \A i \in I : s[i] \in K
  BY FS_Interval
<1>2. \A T \in SUBSET I : T # {} => Max(T) \in T
  BY <1>1, MaxIsMember
<1>3. Picks(pick, I)
  BY <1>2 DEF Picks
<1>4. <<>> \in X /\ \A r \in X, x \in K : PickOne(r, x, S) \in X
  BY DEF PickOne
<1>5. StepsIn(step, n, X)
  <2>1. \A q \in I \X X : PickOne(q[2], s[q[1]], S) \in X
    <3> TAKE q \in I \X X
    <3> HIDE DEF X, I
    <3>1. q[2] \in X /\ s[q[1]] \in K
      BY <1>1
    <3> QED BY <1>4, <3>1
  <2>2. step = [q \in I \X X |-> PickOne(q[2], s[q[1]], S)]
    BY DEF PickStep
  <2> HIDE DEF X, step, I
  <2>3. step \in [I \X X -> X]
    BY <2>1, <2>2
  <2> QED BY <2>3 DEF StepsIn, I
<1>6. \A i \in I, r \in X : step[<<i, r>>] = PickOne(r, s[i], S)
  BY DEF PickStep
<1> HIDE DEF X, step
<1>7. \E g : g = N(g)
  <2>1. PICK g \in [SUBSET I -> X] : FoldsBy(g, I, pick, step, <<>>)
    <3>1. step \in [I \X X -> X]
      BY <1>5 DEF StepsIn
    <3> HIDE DEF I, pick
    <3> QED BY <1>1, <1>3, <1>4, <3>1, RecursionOverSubsets
  <2>2. \A T \in SUBSET I : g[T] = N(g)[T]
    <3> TAKE T \in SUBSET I
    <3>1. CASE T = {}
      BY <1>1, <2>1, <3>1 DEF FoldsBy
    <3>2. CASE T # {}
      <4>1. pick[T] = Max(T) /\ Max(T) \in I /\ T \ {Max(T)} \in SUBSET I
        BY <1>2, <3>2
      <4>2. g[T] = step[<<Max(T), g[T \ {Max(T)}]>>]
        BY <2>1, <3>2, <4>1 DEF FoldsBy
      <4>3. N(g)[T] = PickOne(g[T \ {Max(T)}], s[Max(T)], S)
        BY <1>1, <3>2
      <4>4. g[T \ {Max(T)}] \in X
        BY <4>1
      <4> HIDE DEF N, I, pick
      <4> QED BY <1>6, <4>1, <4>2, <4>3, <4>4
    <3> QED BY <3>1, <3>2
  <2>3. N(g) = [T \in SUBSET I |-> N(g)[T]]
    BY <1>1
  <2>4. g = [T \in SUBSET I |-> g[T]]
    OBVIOUS
  <2> HIDE DEF N
  <2>5. g = N(g)
    BY <2>2, <2>3, <2>4
  <2> QED BY <2>5
<1>8. fold = N(fold)
  BY <1>7
<1>9. Picked(s, S) = fold[DOMAIN s]
  BY DEF Picked, FoldLeft, MapThenFoldSet, PickOne
<1>10. FoldsFromLeft(fold, step, <<>>, n, X)
  <2> HIDE DEF fold
  <2>1. fold[{}] = <<>>
    BY <1>8
  <2>2. ASSUME NEW T \in SUBSET I, T # {}, fold[T \ {Max(T)}] \in X
        PROVE  fold[T] = step[<<Max(T), fold[T \ {Max(T)}]>>]
    <3>1. Max(T) \in I /\ T \in SUBSET DOMAIN s
      BY <1>1, <1>2, <2>2
    <3>2. N(fold)[T] = PickOne(fold[T \ {Max(T)}], s[Max(T)], S)
      BY <2>2, <3>1
    <3> HIDE DEF N, I
    <3> QED BY <1>6, <1>8, <2>2, <3>1, <3>2
  <2> QED BY <2>1, <2>2 DEF FoldsFromLeft
<1>11. EndsAt(fold, step, <<>>, n, X)
  <2> HIDE DEF n, fold
  <2> QED BY <1>1, <1>4, <1>5, <1>10, FoldIsLastStep
<1>12. fold[DOMAIN s] = fold[1..n]
  BY <1>1
<1> HIDE DEF fold, N, I, pick, n
<1> QED BY <1>9, <1>11, <1>12 DEF EndsAt, step, X, n

LEMMA PickedNone == ASSUME NEW S PROVE Picked(<<>>, S) = <<>>
<1>1. <<>> \in Seq({}) /\ Len(<<>>) = 0
  OBVIOUS
<1>2. PICK p \in [0..0 -> Seq({})] :
         /\ StepByStep(p, PickStep(<<>>, S, {}), <<>>, 0)
         /\ Picked(<<>>, S) = p[0]
  <2> DEFINE s == <<>>
  <2>1. s \in Seq({}) /\ Len(s) = 0
    OBVIOUS
  <2> HIDE DEF s
  <2>2. \E p \in [0..Len(s) -> Seq({})] :
           /\ StepByStep(p, PickStep(s, S, {}), <<>>, Len(s))
           /\ Picked(s, S) = p[Len(s)]
    BY <2>1, PickedSteps
  <2> QED BY <2>1, <2>2 DEF s
<1> QED BY <1>2 DEF StepByStep

LEMMA PickedAppend ==
    ASSUME NEW K, NEW s, s \in Seq(K), NEW S, NEW x \in K
    PROVE  /\ Picked(s, S) \in Seq(K)
           /\ Picked(Append(s, x), S) = PickOne(Picked(s, S), x, S)
<1> DEFINE n == Len(s)
           X == Seq(K)
           more == Append(s, x)
<1>1. /\ n \in Nat /\ more \in Seq(K) /\ Len(more) = n + 1 /\ more[n + 1] = x
      /\ \A i \in 1..n : more[i] = s[i]
  BY AppendProperties
<1>2. PICK p \in [0..n -> X] : /\ StepByStep(p, PickStep(s, S, K), <<>>, n)
                               /\ Picked(s, S) = p[n]
  BY PickedSteps
<1>3. PICK q \in [0..(n + 1) -> X] :
         /\ StepByStep(q, PickStep(more, S, K), <<>>, n + 1)
         /\ Picked(more, S) = q[n + 1]
  <2>1. \E q \in [0..Len(more) -> X] :
           /\ StepByStep(q, PickStep(more, S, K), <<>>, Len(more))
           /\ Picked(more, S) = q[Len(more)]
    <3> HIDE DEF more, n
    <3> QED BY <1>1, PickedSteps
  <2> HIDE DEF more, X, n
  <2> QED BY <1>1, <2>1
<1>4. \A i \in 1..(n + 1) : q[i] = PickOne(q[i - 1], more[i], S)
  <2> TAKE i \in 1..(n + 1)
  <2> HIDE DEF more, n, X
  <2>1. q[i - 1] \in X /\ i \in 1..Len(more)
    <3>1. i - 1 \in 0..(n + 1)
      BY <1>1
    <3> QED BY <1>1, <3>1
  <2>2. q[i] = PickStep(more, S, K)[<<i, q[i - 1]>>]
    BY <1>3 DEF StepByStep
  <2> QED BY <2>1, <2>2 DEF PickStep, X
<1> HIDE DEF more
<1>5. StepByStep(q, PickStep(s, S, K), <<>>, n)
  <2>1. ASSUME NEW i \in 1..n
        PROVE  q[i] = PickStep(s, S, K)[<<i, q[i - 1]>>]
    <3>1. i \in 1..(n + 1) /\ q[i - 1] \in X /\ more[i] = s[i]
      <4> HIDE DEF n, X
      <4>1. i \in 1..(n + 1) /\ i - 1 \in 0..(n + 1)
        BY <1>1
      <4> QED BY <1>1, <4>1
    <3>2. q[i] = PickOne(q[i - 1], s[i], S)
      BY <1>4, <3>1
    <3> QED BY <3>1, <3>2 DEF PickStep
  <2>2. q[0] = <<>>
    BY <1>3 DEF StepByStep
  <2> QED BY <2>1, <2>2 DEF StepByStep
<1>6. q[n] = p[n]
  <2>1. n \in 0..n
    BY <1>1
  <2> DEFINE step == PickStep(s, S, K)
  <2>2. StepByStep(q, step, <<>>, n) /\ StepByStep(p, step, <<>>, n)
    BY <1>2, <1>5
  <2> HIDE DEF n, step, X
  <2>3. \A i \in 0..n : q[i] = p[i]
    BY <1>1, <2>2, StepsAgree
  <2> QED BY <2>1, <2>3
<1>7. q[n + 1] = PickOne(q[n], more[n + 1], S)
  <2>1. n + 1 \in 1..(n + 1) /\ (n + 1) - 1 = n
    BY <1>1
  <2> QED BY <1>4, <2>1
<1>8. p[n] \in X
  BY <1>1
<1> QED BY <1>1, <1>2, <1>3, <1>6, <1>7, <1>8 DEF more

\* What is picked of a sequence are values of it, and there are no more of them.
PickedOf(s, S, r) == \A i \in DOMAIN r : r[i] \in ToSet(s) \cap S

LEMMA PickedIsPart ==
    ASSUME NEW K, NEW s, s \in Seq(K), NEW S
    PROVE  /\ Picked(s, S) \in Seq(K)
           /\ PickedOf(s, S, Picked(s, S))
           /\ Len(Picked(s, S)) <= Len(s)
<1> DEFINE n == Len(s)
           X == Seq(K)
<1>1. n \in Nat /\ \A i \in 1..n : s[i] \in K /\ s[i] \in ToSet(s)
  BY DEF ToSet
<1>2. PICK p \in [0..n -> X] : /\ StepByStep(p, PickStep(s, S, K), <<>>, n)
                               /\ Picked(s, S) = p[n]
  BY PickedSteps
<1>3. \A i \in 0..n : p[i] \in X
  OBVIOUS
<1>4. p[0] = <<>> /\ \A i \in 1..n : p[i] = PickOne(p[i - 1], s[i], S)
  <2>1. ASSUME NEW i \in 1..n PROVE p[i] = PickOne(p[i - 1], s[i], S)
    <3>1. p[i - 1] \in X
      <4> HIDE DEF n, X
      <4>1. i - 1 \in 0..n
        BY <1>1
      <4> QED BY <1>3, <4>1
    <3>2. p[i] = PickStep(s, S, K)[<<i, p[i - 1]>>]
      BY <1>2 DEF StepByStep
    <3> QED BY <3>1, <3>2 DEF PickStep
  <2> QED BY <1>2, <2>1 DEF StepByStep
<1> DEFINE G == {i \in Nat : i <= n => Len(p[i]) <= i /\ PickedOf(s, S, p[i])}
<1>5. 0 \in G
  BY <1>4 DEF PickedOf
<1>6. ASSUME NEW i \in G PROVE i + 1 \in G
  <2> SUFFICES ASSUME i + 1 <= n
               PROVE  Len(p[i + 1]) <= i + 1 /\ PickedOf(s, S, p[i + 1])
    OBVIOUS
  <2>1. /\ i \in Nat /\ i \in 0..n /\ i + 1 \in 1..n /\ (i + 1) - 1 = i
        /\ Len(p[i]) <= i /\ PickedOf(s, S, p[i])
    <3> HIDE DEF n
    <3> QED BY <1>1
  <2> HIDE DEF G, n
  <2>2. p[i] \in X /\ p[i + 1] = PickOne(p[i], s[i + 1], S) /\ s[i + 1] \in K
    BY <1>1, <1>3, <1>4, <2>1
  <2>3. CASE s[i + 1] \notin S
    <3>1. Len(p[i]) \in Nat
      BY <2>2
    <3> QED BY <2>1, <2>2, <2>3, <3>1 DEF PickOne
  <2>4. CASE s[i + 1] \in S
    <3>1. p[i + 1] = Append(p[i], s[i + 1])
      BY <2>2, <2>4 DEF PickOne
    <3>2. /\ Len(p[i + 1]) = Len(p[i]) + 1 /\ p[i + 1][Len(p[i]) + 1] = s[i + 1]
          /\ \A j \in 1..Len(p[i]) : p[i + 1][j] = p[i][j]
          /\ DOMAIN p[i + 1] = 1..(Len(p[i]) + 1) /\ Len(p[i]) \in Nat
          /\ DOMAIN p[i] = 1..Len(p[i])
      BY <2>2, <3>1, AppendProperties
    <3>3. ASSUME NEW j \in 1..(Len(p[i]) + 1)
          PROVE  p[i + 1][j] \in ToSet(s) \cap S
      <4>1. CASE j = Len(p[i]) + 1
        BY <1>1, <2>1, <2>4, <3>2, <4>1
      <4>2. CASE j # Len(p[i]) + 1
        <5>1. j \in 1..Len(p[i])
          BY <3>2, <4>2
        <5> QED BY <2>1, <3>2, <5>1 DEF PickedOf
      <4> QED BY <4>1, <4>2
    <3> QED BY <2>1, <3>2, <3>3 DEF PickedOf
  <2> QED BY <2>3, <2>4
<1>7. G = Nat
  <2>1. G \in SUBSET Nat
    OBVIOUS
  <2> HIDE DEF G
  <2> QED BY <1>5, <1>6, <2>1, SetInduction
<1>8. n \in G /\ n \in 0..n /\ n <= n
  <2> HIDE DEF G, n
  <2> QED BY <1>1, <1>7
<1> HIDE DEF n
<1> QED BY <1>2, <1>3, <1>8 DEF n

-----------------------------------------------------------------------------
(* Sums of lengths. *)

LEMMA TotalIsLastTotal ==
    ASSUME NEW n \in Nat, NEW f \in [1..n -> Int]
    PROVE  \E p : RunningTotal(p, f, n) /\ Total(f) = p[n]
<1>1. PICK p : RunningTotal(p, f, n)
  BY RunningTotalExists
<1>2. Total(f) = SumFromLeft(f)
  BY DEF Total, SumFromLeft
<1> QED BY <1>1, <1>2, SumFromLeftIsLastTotal

LEMMA TotalIsSum ==
    ASSUME NEW n \in Nat, NEW f \in [1..n -> Int]
    PROVE  Total(f) = SumOf(f) /\ Total(f) \in Int
<1>1. Total(f) = SumFromLeft(f)
  BY DEF Total, SumFromLeft
<1> QED BY <1>1, SumsAgree, SumOfIsInt

LEMMA TotalOfNone ==
    ASSUME NEW f \in [1..0 -> Int]
    PROVE  Total(f) = 0
BY TotalIsSum, SumOfNone

LEMMA TotalOfLonger ==
    ASSUME NEW n \in Nat, NEW f \in [1..n -> Int], NEW h \in [1..(n + 1) -> Int],
           \A i \in 1..n : h[i] = f[i]
    PROVE  Total(h) = Total(f) + h[n + 1]
<1>1. SumOf(h) = SumOf(f) + h[n + 1]
  BY SumOfLonger
<1>2. Total(h) = SumOf(h)
  BY TotalIsSum
<1>3. Total(f) = SumOf(f)
  BY TotalIsSum
<1> QED BY <1>1, <1>2, <1>3

LEMMA TotalIsMonotone ==
    ASSUME NEW n \in Nat, NEW f \in [1..n -> Int], NEW h \in [1..n -> Int],
           \A i \in 1..n : f[i] <= h[i]
    PROVE  Total(f) <= Total(h)
<1>1. PICK p : RunningTotal(p, f, n) /\ Total(f) = p[n]
  BY TotalIsLastTotal
<1>2. PICK q : RunningTotal(q, h, n) /\ Total(h) = q[n]
  BY TotalIsLastTotal
<1> DEFINE G == {i \in Nat : i <= n => p[i] <= q[i]}
<1>3. 0 \in G
  BY <1>1, <1>2 DEF RunningTotal
<1>4. ASSUME NEW i \in G PROVE i + 1 \in G
  <2> SUFFICES ASSUME i + 1 <= n PROVE p[i + 1] <= q[i + 1]
    OBVIOUS
  <2>1. i + 1 \in 1..n /\ i \in 0..n /\ (i + 1) - 1 = i /\ p[i] <= q[i]
    OBVIOUS
  <2> HIDE DEF G
  <2>2. p[i + 1] = p[i] + f[i + 1] /\ q[i + 1] = q[i] + h[i + 1]
    BY <1>1, <1>2, <2>1 DEF RunningTotal
  <2>3. p[i] \in Int /\ q[i] \in Int
    BY <1>1, <1>2, <2>1 DEF RunningTotal
  <2>4. f[i + 1] \in Int /\ h[i + 1] \in Int /\ f[i + 1] <= h[i + 1]
    BY <2>1
  <2> QED BY <2>1, <2>2, <2>3, <2>4
<1>5. G = Nat
  <2>1. G \in SUBSET Nat
    OBVIOUS
  <2> HIDE DEF G
  <2> QED BY <1>3, <1>4, <2>1, SetInduction
<1>6. n \in G /\ n <= n
  <2> HIDE DEF G
  <2> QED BY <1>5
<1> QED BY <1>1, <1>2, <1>6

LEMMA TotalIsNat ==
    ASSUME NEW n \in Nat, NEW f \in [1..n -> Nat]
    PROVE  Total(f) \in Nat
<1> DEFINE z == [i \in 1..n |-> 0]
<1>1. f \in [1..n -> Int] /\ z \in [1..n -> Int] /\ \A i \in 1..n : z[i] <= f[i]
  OBVIOUS
<1>2. PICK p : RunningTotal(p, z, n) /\ Total(z) = p[n]
  BY <1>1, TotalIsLastTotal
<1> DEFINE G == {i \in Nat : i <= n => p[i] = 0}
<1>3. 0 \in G
  BY <1>2 DEF RunningTotal
<1>4. ASSUME NEW i \in G PROVE i + 1 \in G
  <2> SUFFICES ASSUME i + 1 <= n PROVE p[i + 1] = 0
    OBVIOUS
  <2>1. i + 1 \in 1..n /\ (i + 1) - 1 = i /\ p[i] = 0
    OBVIOUS
  <2>2. p[i + 1] = p[i] + z[i + 1]
    BY <1>2, <2>1 DEF RunningTotal
  <2> QED BY <2>1, <2>2
<1>5. G = Nat
  <2>1. G \in SUBSET Nat
    OBVIOUS
  <2> HIDE DEF G
  <2> QED BY <1>3, <1>4, <2>1, SetInduction
<1>6. n \in G /\ n <= n
  <2> HIDE DEF G
  <2> QED BY <1>5
<1> HIDE DEF z
<1>7. Total(z) <= Total(f)
  BY <1>1, TotalIsMonotone
<1>8. Total(f) \in Int
  BY <1>1, TotalIsSum
<1> QED BY <1>2, <1>6, <1>7, <1>8

-----------------------------------------------------------------------------
(* Shares of a budget. *)

LEMMA ShareFacts ==
    ASSUME NEW b \in Nat, NEW n \in Nat \ {0}
    PROVE  /\ b \div n \in Nat /\ b % n \in 0..(n - 1)
           /\ b = n * (b \div n) + (b % n)
OBVIOUS

\* The shares are all of it.
LEMMA SharesAreAll ==
    ASSUME NEW b \in Nat, NEW n \in Nat \ {0}
    PROVE  /\ EntryLimits(b, n) \in [1..n -> Nat]
           /\ Total(EntryLimits(b, n)) = b
<1> DEFINE d == b \div n
           r == b % n
           f == EntryLimits(b, n)
<1>1. d \in Nat /\ r \in 0..(n - 1) /\ b = n * d + r
  BY ShareFacts
<1>2. f = [i \in 1..n |-> d + (IF i <= r THEN 1 ELSE 0)]
  BY DEF EntryLimits
<1> HIDE DEF d, r, f
<1>3. f \in [1..n -> Nat] /\ f \in [1..n -> Int]
  BY <1>1, <1>2
<1>4. PICK p : RunningTotal(p, f, n) /\ Total(f) = p[n]
  BY <1>3, TotalIsLastTotal
<1> DEFINE G == {i \in Nat : i <= n => p[i] = i * d + Least(i, r)}
<1>5. 0 \in G
  BY <1>1, <1>4 DEF RunningTotal, Least
<1>6. ASSUME NEW i \in G PROVE i + 1 \in G
  <2> SUFFICES ASSUME i + 1 <= n
               PROVE  p[i + 1] = (i + 1) * d + Least(i + 1, r)
    OBVIOUS
  <2>1. i \in Nat /\ i + 1 \in 1..n /\ (i + 1) - 1 = i
        /\ p[i] = i * d + Least(i, r)
    OBVIOUS
  <2> HIDE DEF G
  <2>2. p[i + 1] = p[i] + f[i + 1]
    BY <1>4, <2>1 DEF RunningTotal
  <2>3. f[i + 1] = d + (IF i + 1 <= r THEN 1 ELSE 0)
    BY <1>2, <2>1
  <2>4. (i + 1) * d = i * d + d /\ i * d \in Nat
    BY <1>1, <2>1
  <2>5. Least(i, r) + (IF i + 1 <= r THEN 1 ELSE 0) = Least(i + 1, r)
    BY <1>1, <2>1 DEF Least
  <2> DEFINE x == i * d
             y == (i + 1) * d
             u == Least(i, r)
             v == Least(i + 1, r)
             w == IF i + 1 <= r THEN 1 ELSE 0
  <2>6. u \in Nat /\ v \in Nat /\ w \in Nat /\ x \in Nat
    BY <1>1, <2>1, <2>4 DEF Least
  <2>7. y = x + d /\ u + w = v /\ p[i] = x + u /\ f[i + 1] = d + w
    BY <2>1, <2>3, <2>4, <2>5
  <2> HIDE DEF x, y, u, v, w
  <2>8. p[i + 1] = y + v
    BY <1>1, <2>2, <2>6, <2>7
  <2> QED BY <2>8 DEF y, v
<1>7. G = Nat
  <2>1. G \in SUBSET Nat
    OBVIOUS
  <2> HIDE DEF G
  <2> QED BY <1>5, <1>6, <2>1, SetInduction
<1>8. p[n] = n * d + Least(n, r)
  <2>1. n \in G /\ n <= n
    <3> HIDE DEF G
    <3> QED BY <1>7
  <2> QED BY <2>1
<1>9. Least(n, r) = r
  BY <1>1 DEF Least
<1> QED BY <1>1, <1>3, <1>4, <1>8, <1>9 DEF f

\* No share of a smaller budget is larger.
LEMMA SharesAreMonotone ==
    ASSUME NEW b \in Nat, NEW c \in Nat, c <= b, NEW n \in Nat \ {0}, NEW i \in 1..n
    PROVE  EntryLimits(c, n)[i] <= EntryLimits(b, n)[i]
<1> DEFINE d == b \div n
           r == b % n
           e == c \div n
           s == c % n
<1>1. d \in Nat /\ r \in 0..(n - 1) /\ b = n * d + r
  BY ShareFacts
<1>2. e \in Nat /\ s \in 0..(n - 1) /\ c = n * e + s
  BY ShareFacts
<1>3. /\ EntryLimits(b, n)[i] = d + (IF i <= r THEN 1 ELSE 0)
      /\ EntryLimits(c, n)[i] = e + (IF i <= s THEN 1 ELSE 0)
  BY DEF EntryLimits
<1> HIDE DEF d, r, e, s
<1>4. e <= d
  <2> SUFFICES ASSUME d + 1 <= e PROVE FALSE
    BY <1>1, <1>2
  <2>1. n * (d + 1) <= n * e
    BY <1>1, <1>2
  <2>2. n * (d + 1) = n * d + n
    BY <1>1
  <2> DEFINE x == n * d
             y == n * e
  <2>3. x \in Nat /\ y \in Nat /\ x + n <= y /\ b = x + r /\ c = y + s
    BY <1>1, <1>2, <2>1, <2>2
  <2> HIDE DEF x, y
  <2> QED BY <1>1, <1>2, <2>3
<1>5. CASE e = d
  <2> DEFINE x == n * d
  <2>1. x \in Nat /\ b = x + r /\ c = x + s
    BY <1>1, <1>2, <1>5
  <2> HIDE DEF x
  <2>2. s <= r
    BY <1>1, <1>2, <2>1
  <2> QED BY <1>1, <1>2, <1>3, <1>5, <2>2
<1>6. CASE e # d
  BY <1>1, <1>2, <1>3, <1>4, <1>6
<1> QED BY <1>5, <1>6

-----------------------------------------------------------------------------
(* One block. *)

\* The block of a claim is within its limit, and marked just if something is
\* missing.
Disclosed(block, limit) ==
    /\ block.size \in Nat \ {0} /\ block.size <= limit
    /\ block.marked \in BOOLEAN /\ block.complete \in BOOLEAN
    /\ block.marked # block.complete

\* A limit has room for the headline of a claim and the mark before a cut.
HasRoom(h, limit) ==
    limit \in Int /\ h.header + Preview + Mark <= (limit - Cut) \div 2

LEMMA HistoryFacts ==
    ASSUME NEW h \in Histories
    PROVE  /\ h.header \in Nat \ {0} /\ Len(h.entries) \in Nat \ {0}
           /\ \A i \in 1..Len(h.entries) :
                 h.entries[i].prefix \in Nat /\ h.entries[i].content \in Nat
           /\ DOMAIN h.entries = 1..Len(h.entries)
           /\ h.omitted \in BOOLEAN
           /\ Preview \in Nat /\ Mark \in Nat \ {0} /\ Omission \in Nat
           /\ Detail \in Nat /\ Cut \in Nat
<1> DEFINE E == [prefix : Nat, content : Nat]
           es == h.entries
<1>1. es \in Seq(E) /\ es # <<>>
  BY HistoriesAssumption
<1>2. \A e \in E : e.prefix \in Nat /\ e.content \in Nat
  OBVIOUS
<1>3. /\ Len(es) \in Nat \ {0} /\ DOMAIN es = 1..Len(es)
      /\ \A i \in 1..Len(es) : es[i] \in E
  <2> HIDE DEF E, es
  <2> QED BY <1>1
<1>4. /\ \A i \in 1..Len(es) : es[i].prefix \in Nat /\ es[i].content \in Nat
  <2> HIDE DEF E, es
  <2> QED BY <1>2, <1>3
<1>5. h.header \in Nat \ {0}
  BY HistoriesAssumption, LimitsAssumption
<1>6. h.omitted \in BOOLEAN
  BY HistoriesAssumption
<1>7. /\ Preview \in Nat /\ Mark \in Nat \ {0} /\ Omission \in Nat
      /\ Detail \in Nat /\ Cut \in Nat
  BY LimitsAssumption
<1> QED BY <1>3, <1>4, <1>5, <1>6, <1>7

LEMMA RoomFacts ==
    ASSUME NEW h \in Histories, NEW limit, HasRoom(h, limit)
    PROVE  /\ limit \in Nat
           /\ h.header + Preview + Mark + 1 <= limit
<1> DEFINE d == (limit - Cut) \div 2
           a == h.header + Preview + Mark
<1>1. a \in Nat \ {0} /\ limit \in Int /\ Cut \in Nat /\ a <= d
  BY HistoryFacts DEF HasRoom
<1>2. d \in Int /\ 2 * d <= limit - Cut
  BY <1>1
<1> HIDE DEF d, a
<1>3. a + 1 <= limit /\ limit \in Nat
  BY <1>1, <1>2
<1> QED BY <1>3 DEF a

LEMMA IdentityFacts ==
    ASSUME NEW h \in Histories, NEW long \in BOOLEAN
    PROVE  /\ Tags(h) \in Nat
           /\ PreviewSize(long) \in 0..Preview
           /\ OmissionSize(h) \in Nat
           /\ IdentitySize(h, long) \in Nat \ {0}
<1>1. Tags(h) \in Nat
  <2> DEFINE f == [i \in DOMAIN h.entries |-> h.entries[i].prefix]
             n == Len(h.entries)
  <2>1. n \in Nat /\ f \in [1..n -> Nat]
    BY HistoryFacts
  <2> HIDE DEF f, n
  <2>2. Total(f) \in Nat
    BY <2>1, TotalIsNat
  <2> QED BY <2>2 DEF Tags, f
<1>2. PreviewSize(long) \in 0..Preview /\ OmissionSize(h) \in Nat
  BY HistoryFacts DEF PreviewSize, OmissionSize
<1>3. IdentitySize(h, long) \in Nat \ {0}
  BY <1>1, <1>2, HistoryFacts DEF IdentitySize
<1> QED BY <1>1, <1>2, <1>3

LEMMA LessFacts ==
    ASSUME NEW m \in Int, NEW n \in Int
    PROVE  /\ Less(m, n) \in Nat
           /\ Less(m, n) = 0 \/ Less(m, n) = m - n
           /\ m - n <= Less(m, n)
           /\ n <= m => n + Less(m, n) = m
           /\ Least(m, n) <= m /\ Least(m, n) <= n /\ Least(m, n) \in {m, n}
BY DEF Less, Least

LEMMA BoundedIsDisclosed ==
    ASSUME NEW h \in Histories, NEW long \in BOOLEAN, NEW limit, HasRoom(h, limit)
    PROVE  Disclosed(BoundedBlock(h, long, limit), limit)
<1> DEFINE details == PreviewSize(long) + Detail + 1 + Tags(h)
                        + Len(h.entries) - 1 + OmissionSize(h)
           a == h.header + Mark
           room == Less(limit, a + 1)
           size == a + 1 + Least(details, room)
<1>1. a \in Nat \ {0} /\ a + 1 <= limit /\ limit \in Nat
  BY RoomFacts, HistoryFacts
<1>2. details \in Nat
  <2> DEFINE n == Len(h.entries)
             t == Tags(h)
             p == PreviewSize(long)
             o == OmissionSize(h)
  <2>1. /\ n \in Nat \ {0} /\ t \in Nat /\ p \in Nat /\ o \in Nat
        /\ Detail \in Nat
    BY IdentityFacts, HistoryFacts
  <2> HIDE DEF n, t, p, o
  <2>2. p + Detail + 1 + t + n - 1 + o \in Nat
    BY <2>1
  <2> QED BY <2>2 DEF n, t, p, o
<1> HIDE DEF details
<1>3. BoundedBlock(h, long, limit)
        = [size |-> size, marked |-> TRUE, complete |-> FALSE]
  BY <1>1 DEF BoundedBlock, details
<1> HIDE DEF a
<1>4. room \in Nat /\ a + 1 + room = limit
  <2>1. a + 1 \in Int /\ limit \in Int
    BY <1>1
  <2> QED BY <1>1, <2>1 DEF Less
<1> HIDE DEF room
<1>5. size \in Nat \ {0} /\ size <= limit
  BY <1>1, <1>2, <1>4 DEF Least
<1> HIDE DEF size
<1> QED BY <1>3, <1>5 DEF Disclosed

LEMMA SharedIsDisclosed ==
    ASSUME NEW h \in Histories, NEW long \in BOOLEAN, NEW limit, HasRoom(h, limit),
           IdentitySize(h, long) + OmissionSize(h) <= limit
    PROVE  Disclosed(SharedBlock(h, long, limit), limit)
<1> DEFINE n == Len(h.entries)
           m0 == IF long THEN Mark ELSE 0
           first == EntryLimits(Budget(h, long, m0, limit), n)
           mark == IF long \/ IsCut(h, first) THEN Mark ELSE 0
           budget == Budget(h, long, mark, limit)
           limits == EntryLimits(budget, n)
           bodies == [i \in 1..n |-> Least(h.entries[i].content, limits[i])]
           spaces == Cardinality({i \in 1..n : bodies[i] > 0})
           identity == IdentitySize(h, long)
           omission == OmissionSize(h)
           rendered == identity + mark + Total(bodies) + spaces + omission
           head == (limit - Cut) \div 2
           size == Least(rendered, limit)
           marked == mark > 0 /\ (\/ rendered <= limit
                                  \/ h.header + PreviewSize(long) + mark <= head)
           complete == ~long /\ ~IsCut(h, limits) /\ rendered <= limit
<1>1. SharedBlock(h, long, limit)
        = [size |-> size, marked |-> marked, complete |-> complete]
  BY DEF SharedBlock
<1>2. /\ n \in Nat \ {0} /\ limit \in Nat \ {0} /\ Mark \in Nat \ {0}
      /\ identity \in Nat \ {0} /\ omission \in Nat
      /\ identity + omission <= limit
      /\ \A i \in 1..n : h.entries[i].content \in Nat
      /\ m0 \in Nat /\ mark \in {0, Mark} /\ DOMAIN h.entries = 1..n
      /\ (m0 = mark \/ (m0 = 0 /\ mark = Mark))
  BY RoomFacts, HistoryFacts, IdentityFacts
<1>3. \A m \in Nat : /\ FixedSize(h, long, m) = identity + omission + m + n
                     /\ FixedSize(h, long, m) \in Nat
                     /\ Budget(h, long, m, limit) = Less(limit, FixedSize(h, long, m))
  <2> TAKE m \in Nat
  <2>1. FixedSize(h, long, m) = identity + omission + m + n
    BY DEF FixedSize
  <2>2. Budget(h, long, m, limit) = Less(limit, FixedSize(h, long, m))
    BY DEF Budget
  <2> HIDE DEF identity, omission, n
  <2> QED BY <1>2, <2>1, <2>2
<1>4. /\ budget \in Nat /\ Budget(h, long, m0, limit) \in Nat
      /\ budget <= Budget(h, long, m0, limit)
  <2>1. mark \in Nat /\ m0 <= mark
    BY <1>2
  <2> DEFINE u == FixedSize(h, long, m0)
             v == FixedSize(h, long, mark)
  <2>2. /\ u \in Nat /\ v \in Nat /\ budget = Less(limit, v)
        /\ Budget(h, long, m0, limit) = Less(limit, u)
        /\ u = identity + omission + m0 + n
        /\ v = identity + omission + mark + n
    <3> HIDE DEF m0, mark, n, identity, omission
    <3> QED BY <1>2, <1>3, <2>1 DEF budget
  <2>3. u <= v
    <3> HIDE DEF m0, mark, n, identity, omission, u, v
    <3> QED BY <1>2, <2>1, <2>2
  <2> HIDE DEF u, v, budget
  <2> QED BY <1>2, <2>2, <2>3 DEF Less
<1>5. limits \in [1..n -> Nat] /\ Total(limits) = budget
  <2> HIDE DEF n, budget
  <2> QED BY <1>2, <1>4, SharesAreAll
<1>6. \A i \in 1..n : limits[i] <= first[i]
  <2> HIDE DEF n, budget, m0
  <2> QED BY <1>2, <1>4, SharesAreMonotone
<1>7. first \in [1..n -> Nat]
  <2> HIDE DEF n, m0
  <2> QED BY <1>2, <1>4, SharesAreAll
<1>8. IsCut(h, first) => IsCut(h, limits)
  <2> SUFFICES ASSUME NEW i \in DOMAIN h.entries, h.entries[i].content > first[i]
               PROVE  h.entries[i].content > limits[i]
    BY DEF IsCut
  <2>1. /\ i \in 1..n /\ limits[i] \in Nat /\ first[i] \in Nat
        /\ h.entries[i].content \in Nat /\ limits[i] <= first[i]
    <3> HIDE DEF n, limits, first
    <3> QED BY <1>2, <1>5, <1>6, <1>7
  <2> HIDE DEF n, limits, first
  <2> QED BY <2>1
<1>9. /\ \A i \in 1..n : /\ bodies[i] \in Nat /\ bodies[i] <= limits[i]
                         /\ bodies[i] <= h.entries[i].content
      /\ bodies \in [1..n -> Nat]
  <2>1. ASSUME NEW i \in 1..n
        PROVE  /\ bodies[i] \in Nat /\ bodies[i] <= limits[i]
               /\ bodies[i] <= h.entries[i].content
    <3>1. bodies[i] = Least(h.entries[i].content, limits[i])
      OBVIOUS
    <3>2. h.entries[i].content \in Nat /\ limits[i] \in Nat
      <4> HIDE DEF n, limits
      <4> QED BY <1>2, <1>5
    <3> HIDE DEF bodies, limits
    <3> QED BY <3>1, <3>2 DEF Least
  <2> QED BY <2>1
<1>10. /\ Total(bodies) \in Nat /\ Total(bodies) <= budget
  <2> HIDE DEF bodies, limits, n, budget
  <2>1. bodies \in [1..n -> Int] /\ limits \in [1..n -> Int]
    BY <1>5, <1>9
  <2>2. Total(bodies) \in Nat
    BY <1>2, <1>9, TotalIsNat
  <2>3. Total(bodies) <= Total(limits)
    BY <1>2, <1>9, <2>1, TotalIsMonotone
  <2> QED BY <1>5, <2>2, <2>3
<1>11. spaces \in Nat /\ spaces <= n
  <2> HIDE DEF bodies, n
  <2>1. IsFiniteSet(1..n) /\ Cardinality(1..n) = n
    <3>1. /\ IsFiniteSet(1..n)
          /\ Cardinality(1..n) = IF 1 > n THEN 0 ELSE n - 1 + 1
      BY <1>2, FS_Interval
    <3> QED BY <1>2, <3>1
  <2>2. {i \in 1..n : bodies[i] > 0} \in SUBSET (1..n)
    OBVIOUS
  <2> QED BY <2>1, <2>2, FS_Subset, FS_CardinalityType
<1>12. budget = 0 => Total(bodies) = 0 /\ spaces = 0
  <2> SUFFICES ASSUME budget = 0 PROVE Total(bodies) = 0 /\ spaces = 0
    OBVIOUS
  <2>1. Total(bodies) = 0
    <3> HIDE DEF bodies, budget
    <3> QED BY <1>10
  <2>2. \A i \in 1..n : limits[i] = 0
    <3> TAKE i \in 1..n
    <3>1. limits[i] = (0 \div n) + (IF i <= 0 % n THEN 1 ELSE 0)
      <4> HIDE DEF n, budget
      <4> QED BY DEF EntryLimits
    <3>2. 0 \div n = 0 /\ 0 % n = 0
      <4> HIDE DEF n
      <4> QED BY <1>2
    <3> HIDE DEF limits, n
    <3> QED BY <1>2, <3>1, <3>2
  <2>3. {i \in 1..n : bodies[i] > 0} = {}
    <3> HIDE DEF bodies, limits, n
    <3> QED BY <1>9, <2>2
  <2>4. Cardinality({}) = 0
    BY FS_EmptySet
  <2> QED BY <2>1, <2>3, <2>4
<1>13. rendered \in Nat \ {0} /\ size \in Nat \ {0} /\ size <= limit
  <2>1. mark \in Nat
    BY <1>2
  <2> DEFINE t == Total(bodies)
  <2>2. t \in Nat
    BY <1>10
  <2> HIDE DEF t, mark, spaces, identity, omission, n, bodies
  <2>3. identity + mark + t + spaces + omission \in Nat \ {0}
    BY <1>2, <1>11, <2>1, <2>2
  <2>4. rendered \in Nat \ {0}
    BY <2>3 DEF t
  <2> HIDE DEF rendered
  <2> QED BY <1>2, <2>4 DEF Least
<1>14. marked <=> mark > 0
  <2>1. h.header + PreviewSize(long) + mark <= head
    <3>1. /\ h.header \in Nat /\ Preview \in Nat /\ PreviewSize(long) \in 0..Preview
          /\ h.header + Preview + Mark <= head
      BY HistoryFacts, IdentityFacts DEF HasRoom
    <3>2. mark \in Nat /\ mark <= Mark
      BY <1>2
    <3>3. head \in Int
      BY <1>2, HistoryFacts
    <3> HIDE DEF head, mark
    <3> QED BY <1>2, <3>1, <3>2, <3>3
  <2> HIDE DEF mark, rendered
  <2> QED BY <2>1
<1>15. CASE mark = 0
  <2>1. ~long /\ ~IsCut(h, first) /\ m0 = 0
    <3> HIDE DEF first
    <3> QED BY <1>2, <1>15
  <2>2. limits = first
    BY <1>15, <2>1
  <2>3. rendered <= limit
    <3> DEFINE t == Total(bodies)
               fixed == FixedSize(h, long, 0)
    <3>1. /\ t \in Nat /\ t <= budget /\ (budget = 0 => t = 0 /\ spaces = 0)
          /\ rendered = identity + t + spaces + omission
      <4> DEFINE tb == Total(bodies)
      <4>1. tb \in Nat /\ tb <= budget /\ (budget = 0 => tb = 0 /\ spaces = 0)
            /\ rendered = identity + mark + tb + spaces + omission
        BY <1>10, <1>12
      <4> HIDE DEF mark, tb, budget, spaces, identity, omission, bodies
      <4>2. rendered = identity + tb + spaces + omission
        <5> HIDE DEF rendered
        <5> QED BY <1>2, <1>11, <1>15, <4>1
      <4> QED BY <4>1, <4>2 DEF tb
    <3>2. budget = Less(limit, fixed) /\ fixed = identity + omission + 0 + n
      BY <1>3, <1>15
    <3> HIDE DEF t, budget, spaces, identity, omission, n, bodies, rendered, fixed, mark
    <3> QED BY <1>2, <1>11, <3>1, <3>2 DEF Less
  <2>4. complete /\ ~marked
    <3>1. ~(mark > 0)
      BY <1>15
    <3> HIDE DEF mark, rendered, limits, first, marked
    <3> QED BY <1>14, <2>1, <2>2, <2>3, <3>1
  <2>5. complete = TRUE /\ marked = FALSE
    BY <2>4
  <2>6. SharedBlock(h, long, limit)
           = [size |-> size, marked |-> FALSE, complete |-> TRUE]
    <3> HIDE DEF size, complete, marked
    <3> QED BY <1>1, <2>5, Zenon
  <2> HIDE DEF size
  <2> QED BY <1>13, <2>6 DEF Disclosed
<1>16. CASE mark # 0
  <2>1. long \/ IsCut(h, first)
    <3> HIDE DEF first
    <3> QED BY <1>2, <1>16
  <2>2. ~complete
    <3> HIDE DEF limits, first, rendered
    <3> QED BY <1>8, <2>1
  <2>3. marked
    <3>1. mark > 0
      BY <1>2, <1>16
    <3> HIDE DEF mark, marked
    <3> QED BY <1>14, <3>1
  <2>4. complete = FALSE /\ marked = TRUE
    <3> HIDE DEF rendered, limits, first, mark
    <3> QED BY <2>2, <2>3
  <2>5. SharedBlock(h, long, limit)
           = [size |-> size, marked |-> TRUE, complete |-> FALSE]
    <3> HIDE DEF size, complete, marked
    <3> QED BY <1>1, <2>4, Zenon
  <2> HIDE DEF size
  <2> QED BY <1>13, <2>5 DEF Disclosed
<1> QED BY <1>15, <1>16

LEMMA CompactIsDisclosed ==
    ASSUME NEW h \in Histories, NEW long \in BOOLEAN, NEW limit, HasRoom(h, limit)
    PROVE  Disclosed(CompactClaim(h, long, limit), limit)
<1>1. /\ IdentitySize(h, long) + OmissionSize(h) \in Nat /\ limit \in Nat
  BY IdentityFacts, RoomFacts
<1>2. CASE IdentitySize(h, long) + OmissionSize(h) > limit
  BY <1>2, BoundedIsDisclosed DEF CompactClaim
<1>3. CASE ~(IdentitySize(h, long) + OmissionSize(h) > limit)
  <2>1. IdentitySize(h, long) + OmissionSize(h) <= limit
    BY <1>1, <1>3
  <2> QED BY <1>3, <2>1, SharedIsDisclosed DEF CompactClaim
<1> QED BY <1>2, <1>3

\* Appending is the only way to make a sequence longer by one value.
LEMMA IsAppend ==
    ASSUME NEW K, NEW s, s \in Seq(K), NEW x \in K, NEW t, t \in Seq(K),
           Len(t) = Len(s) + 1, \A i \in 1..Len(s) : t[i] = s[i],
           t[Len(s) + 1] = x
    PROVE  t = Append(s, x)
<1> DEFINE u == Append(s, x)
<1>1. /\ u \in Seq(K) /\ Len(u) = Len(s) + 1 /\ u[Len(s) + 1] = x
      /\ \A i \in 1..Len(s) : u[i] = s[i]
  BY AppendProperties
<1> HIDE DEF u
<1>2. \A i \in 1..Len(t) : t[i] = u[i]
  <2> TAKE i \in 1..Len(t)
  <2>1. Len(s) \in Nat
    OBVIOUS
  <2>2. i \in 1..Len(s) \/ i = Len(s) + 1
    BY <2>1
  <2> QED BY <1>1, <2>2
<1>3. t = u
  BY <1>1, <1>2, SeqEqual
<1> QED BY <1>3 DEF u

LEMMA BlockFacts ==
    ASSUME NEW T, histories \in [T -> Histories], NEW k \in T
    PROVE  Disclosed(Block(k), BlockLimit)
<1> DEFINE h == histories[k]
<1>1. h \in Histories
  OBVIOUS
<1>2. PICK long \in BOOLEAN : Block(k) = CompactClaim(h, long, BlockLimit)
  <2> HIDE DEF h
  <2>0. /\ Blocks[<<h, TRUE>>] = CompactClaim(h, TRUE, BlockLimit)
        /\ Blocks[<<h, FALSE>>] = CompactClaim(h, FALSE, BlockLimit)
    <3> DEFINE B == BOOLEAN
    <3>1. Blocks = [q \in Histories \X B |-> CompactClaim(q[1], q[2], BlockLimit)]
      BY DEF Blocks
    <3>2. TRUE \in B /\ FALSE \in B
      OBVIOUS
    <3> HIDE DEF B
    <3>3. \A b \in B : Blocks[<<h, b>>] = CompactClaim(h, b, BlockLimit)
      BY <1>1, <3>1
    <3> QED BY <3>2, <3>3, Zenon
  <2>1. CASE k \in LongKeyword
    <3>1. (k \in LongKeyword) = TRUE
      BY <2>1
    <3>2. Block(k) = Blocks[<<h, TRUE>>]
      BY <3>1, Zenon DEF Block, h
    <3> QED BY <2>0, <3>2
  <2>2. CASE k \notin LongKeyword
    <3>1. (k \in LongKeyword) = FALSE
      BY <2>2
    <3>2. Block(k) = Blocks[<<h, FALSE>>]
      BY <3>1, Zenon DEF Block, h
    <3> QED BY <2>0, <3>2
  <2> QED BY <2>1, <2>2
<1>3. HasRoom(h, BlockLimit)
  BY <1>1, LimitsAssumption DEF HasRoom
<1> HIDE DEF h
<1> QED BY <1>1, <1>2, <1>3, CompactIsDisclosed

LEMMA JoinedFacts ==
    ASSUME NEW T, histories \in [T -> Histories], NEW s, s \in Seq(T), NEW k \in T
    PROVE  /\ Joined(s) \in Int
           /\ Joined(Append(s, k)) = Joined(s) + Block(k).size + 2
           /\ Joined(<<>>) = 0 - 2
<1> DEFINE n == Len(s)
           more == Append(s, k)
           f == [i \in DOMAIN s |-> Block(s[i]).size]
           g == [i \in DOMAIN more |-> Block(more[i]).size]
<1>1. \A l \in T : Block(l).size \in Int
  BY BlockFacts DEF Disclosed
<1>2. /\ n \in Nat /\ DOMAIN s = 1..n /\ \A i \in 1..n : s[i] \in T
      /\ DOMAIN more = 1..(n + 1) /\ \A i \in 1..n : more[i] = s[i]
      /\ more[n + 1] = k /\ Len(more) = n + 1
      /\ \A i \in 1..(n + 1) : more[i] \in T
  <2>1. more \in Seq(T)
    OBVIOUS
  <2>2. /\ n \in Nat /\ DOMAIN s = 1..n /\ \A i \in 1..n : s[i] \in T
    OBVIOUS
  <2>3. /\ Len(more) = n + 1 /\ DOMAIN more = 1..(n + 1)
        /\ \A i \in 1..n : more[i] = s[i] /\ more[n + 1] = k
    BY AppendProperties
  <2>4. more[n + 1] = k
    BY AppendProperties
  <2> HIDE DEF more, n
  <2> QED BY <2>1, <2>2, <2>3, <2>4
<1> HIDE DEF more, n
<1>3. f \in [1..n -> Int]
  BY <1>1, <1>2
<1>4. g \in [1..(n + 1) -> Int]
  BY <1>1, <1>2
<1>5. \A i \in 1..n : g[i] = f[i]
  BY <1>2
<1>6. g[n + 1] = Block(k).size
  BY <1>2
<1>7. Joined(s) = Total(f) + 2 * (n - 1) /\ Joined(more) = Total(g) + 2 * ((n + 1) - 1)
  BY <1>2 DEF Joined, n
<1> HIDE DEF f, g
<1>8. Total(g) = Total(f) + Block(k).size /\ Total(f) \in Int
  BY <1>2, <1>3, <1>4, <1>5, <1>6, TotalOfLonger, TotalIsSum
<1>9. Joined(<<>>) = 0 - 2
  <2> DEFINE e == [i \in DOMAIN <<>> |-> Block(<<>>[i]).size]
  <2>1. e \in [1..0 -> Int]
    OBVIOUS
  <2>2. Joined(<<>>) = Total(e) + 2 * (0 - 1)
    BY DEF Joined
  <2> HIDE DEF e
  <2>3. Total(e) = 0
    BY <2>1, TotalOfNone
  <2> QED BY <2>2, <2>3
<1> QED
  <2> DEFINE t == Total(f)
             b == Block(k).size
             u == Total(g)
  <2>1. t \in Int /\ b \in Int /\ u = t + b
    BY <1>1, <1>8
  <2>2. Joined(s) = t + 2 * (n - 1) /\ Joined(more) = u + 2 * ((n + 1) - 1)
    BY <1>7
  <2> HIDE DEF t, b, u
  <2>3. Joined(s) \in Int /\ Joined(more) = Joined(s) + b + 2
    BY <1>2, <2>1, <2>2
  <2> QED BY <1>9, <2>3 DEF more, b

-----------------------------------------------------------------------------
(* The candidates and their references. *)

Candidate == ToSet(HostOrder)

LEMMA OrderFacts ==
    ASSUME Listed
    PROVE  /\ HostOrder \in Seq(Candidate)
           /\ HostReferences = References(Candidate, Candidate)
           /\ \A k \in Candidate : Named(HostReferences[k]) = {k}
<1> DEFINE kept == Picked(claims, {c \in ToSet(claims) : c.status # "CLOSED"})
           n == Len(kept)
<1>1. /\ claims \in Seq(ClaimRecord) /\ Len(claims) <= MaxTable
      /\ Len(claims) \in Nat
  BY DEF Listed
<1>2. kept \in Seq(ClaimRecord) /\ n <= Len(claims)
  BY <1>1, PickedIsPart
<1>3. HostOrder = [i \in 1..n |-> kept[i].keyword] /\ n \in Nat
  BY <1>2 DEF HostOrder
<1> HIDE DEF kept
<1>4. HostOrder \in Seq(Candidate) /\ Len(HostOrder) = n
  <2>1. HostOrder \in [1..n -> Candidate]
    BY <1>3 DEF Candidate, ToSet
  <2> QED BY <1>3, <2>1
<1>5. IsFiniteSet(Candidate) /\ Cardinality(Candidate) <= Len(Suffix)
  <2>1. IsFiniteSet(Candidate) /\ Cardinality(Candidate) <= n
    BY <1>4, ValuesAreFinite DEF Candidate
  <2>2. Cardinality(Candidate) \in Nat
    BY <2>1, FS_CardinalityType
  <2>3. MaxTable \in Nat /\ MaxTable <= Len(Suffix) /\ Len(Suffix) \in Nat
    BY TargetsAssumption, SuffixAssumption
  <2> QED BY <1>1, <1>2, <1>3, <2>1, <2>2, <2>3
<1>6. HostReferences = References(Candidate, Candidate)
  <2>1. HostOrder \in Seq(Candidate)
    BY <1>4
  <2>2. BuildReferences(HostOrder) = References(ToSet(HostOrder), ToSet(HostOrder))
    BY <1>5, <2>1, BuildReferencesIs DEF Candidate
  <2> QED BY <2>2 DEF HostReferences, Candidate
<1>7. \A k \in Candidate : HostReferences[k] = ReferenceAmong(k, Candidate)
  BY <1>6 DEF References
<1>8. \A k \in Candidate, l \in Candidate :
         HostReferences[k] = HostReferences[l] => k = l
  BY <1>5, <1>7, ReferencesDiffer
<1> QED BY <1>4, <1>6, <1>8 DEF Named, Candidate

\* The claims whose references these are.
KeywordsOf(batch) == [i \in DOMAIN batch |-> CHOOSE k \in Named(batch[i]) : TRUE]

HostReference == {HostReferences[k] : k \in Candidate}

\* The references of these claims.
ReferencesOf(keywords) == [i \in DOMAIN keywords |-> HostReferences[keywords[i]]]

LEMMA KeywordsOfFacts ==
    ASSUME Listed, NEW batch, batch \in Seq(HostReference), NEW k \in Candidate
    PROVE  /\ KeywordsOf(batch) \in Seq(Candidate)
           /\ Len(KeywordsOf(batch)) = Len(batch)
           /\ KeywordsOf(Append(batch, HostReferences[k]))
                = Append(KeywordsOf(batch), k)
           /\ HostReferences[k] \in HostReference
<1> DEFINE n == Len(batch)
           r == HostReferences[k]
           more == Append(batch, r)
<1>1. \A l \in Candidate : (CHOOSE j \in Named(HostReferences[l]) : TRUE) = l
  BY OrderFacts
<1>2. \A x \in HostReference : (CHOOSE j \in Named(x) : TRUE) \in Candidate
  BY <1>1 DEF HostReference
<1>3. r \in HostReference
  BY DEF HostReference
<1> HIDE DEF r
<1>4. /\ n \in Nat /\ DOMAIN batch = 1..n /\ \A i \in 1..n : batch[i] \in HostReference
      /\ DOMAIN more = 1..(n + 1) /\ more[n + 1] = r
      /\ \A i \in 1..n : more[i] = batch[i]
  BY <1>3, AppendProperties
<1> HIDE DEF more, n
<1>5. KeywordsOf(batch) = [i \in 1..n |-> CHOOSE j \in Named(batch[i]) : TRUE]
  BY <1>4 DEF KeywordsOf
<1>6. KeywordsOf(batch) \in [1..n -> Candidate]
  <2> DEFINE f == [i \in 1..n |-> CHOOSE j \in Named(batch[i]) : TRUE]
  <2>1. f \in [1..n -> Candidate]
    BY <1>2, <1>4
  <2> QED BY <1>5, <2>1
<1>7. KeywordsOf(batch) \in Seq(Candidate) /\ Len(KeywordsOf(batch)) = n
  BY <1>4, <1>6
<1>8. KeywordsOf(more) = [i \in 1..(n + 1) |-> CHOOSE j \in Named(more[i]) : TRUE]
  BY <1>4 DEF KeywordsOf
<1>9. KeywordsOf(more) = Append(KeywordsOf(batch), k)
  <2> DEFINE s == KeywordsOf(batch)
             t == KeywordsOf(more)
  <2>1. t = [i \in 1..(n + 1) |-> t[i]]
    BY <1>8
  <2>2. t[n + 1] = k
    <3>1. t[n + 1] = CHOOSE j \in Named(more[n + 1]) : TRUE
      BY <1>4, <1>8
    <3>2. more[n + 1] = HostReferences[k]
      BY <1>4 DEF r
    <3> HIDE DEF t
    <3> QED BY <1>1, <3>1, <3>2
  <2>3. \A i \in 1..n : t[i] = s[i]
    BY <1>4, <1>5, <1>8
  <2>4. s \in Seq(Candidate) /\ Len(s) = n
    BY <1>7
  <2> HIDE DEF s, t
  <2>5. t \in Seq(Candidate) /\ Len(t) = n + 1
    <3>1. \A i \in 1..(n + 1) : t[i] \in Candidate
      <4> TAKE i \in 1..(n + 1)
      <4>1. i \in 1..n \/ i = n + 1
        BY <1>4
      <4> QED BY <1>4, <2>2, <2>3, <2>4, <4>1
    <3>2. t \in [1..(n + 1) -> Candidate]
      BY <2>1, <3>1
    <3> QED BY <1>4, <3>2
  <2>6. t = Append(s, k)
    BY <2>2, <2>3, <2>4, <2>5, IsAppend
  <2> QED BY <2>6 DEF s, t
<1> QED BY <1>3, <1>7, <1>9 DEF more, n, r

LEMMA ReferencesOfFacts ==
    ASSUME Listed, NEW s, s \in Seq(Candidate), NEW k \in Candidate
    PROVE  /\ ReferencesOf(<<>>) = <<>>
           /\ ReferencesOf(s) \in Seq(HostReference)
           /\ ReferencesOf(Append(s, k)) = Append(ReferencesOf(s), HostReferences[k])
<1> DEFINE n == Len(s)
           r == HostReferences[k]
           more == Append(s, k)
           a == ReferencesOf(s)
           b == ReferencesOf(more)
<1>1. ReferencesOf(<<>>) = <<>>
  BY DEF ReferencesOf
<1>2. /\ n \in Nat /\ DOMAIN s = 1..n /\ \A i \in 1..n : s[i] \in Candidate
      /\ DOMAIN more = 1..(n + 1) /\ more[n + 1] = k
      /\ \A i \in 1..n : more[i] = s[i]
  BY AppendProperties
<1> HIDE DEF more, n
<1>3. a = [i \in 1..n |-> HostReferences[s[i]]]
  BY <1>2 DEF ReferencesOf
<1>4. a \in [1..n -> HostReference]
  BY <1>2, <1>3 DEF HostReference
<1>5. b = [i \in 1..(n + 1) |-> HostReferences[more[i]]]
  BY <1>2 DEF ReferencesOf
<1> HIDE DEF a, b
<1>6. a \in Seq(HostReference) /\ Len(a) = n
  BY <1>2, <1>4
<1> HIDE DEF r
<1>7. /\ b[n + 1] = r /\ r \in HostReference
      /\ \A i \in 1..n : b[i] = a[i]
  BY <1>2, <1>3, <1>5 DEF r, HostReference
<1>8. b \in Seq(HostReference) /\ Len(b) = n + 1
  <2>1. \A i \in 1..(n + 1) : b[i] \in HostReference
    <3> TAKE i \in 1..(n + 1)
    <3>1. i \in 1..n \/ i = n + 1
      BY <1>2
    <3> QED BY <1>2, <1>6, <1>7, <3>1
  <2>2. b \in [1..(n + 1) -> HostReference]
    BY <1>5, <2>1
  <2> QED BY <1>2, <2>2
<1>9. b = Append(a, r)
  BY <1>6, <1>7, <1>8, IsAppend
<1> QED BY <1>1, <1>6, <1>9 DEF a, b, r, more

-----------------------------------------------------------------------------
(* The batches while they are filled. *)

\* A batch that may be shown.
Fine(batch) ==
    /\ batch \in Seq(HostReference)
    /\ Len(batch) \in 1..MaxClaims
    /\ Joined(KeywordsOf(batch)) <= MaxChars

CanShow == {k \in Candidate : Showable(k)}

\* What is in the batches is what there is to show of the claims handled.
Kept ==
    \E handled \in Seq(Candidate) :
        /\ HostOrder = handled \o candidates
        /\ FlattenSeq(batches) \o current = ReferencesOf(Picked(handled, CanShow))

Filling ==
    /\ histories \in [Candidate -> Histories]
    /\ candidates \in Seq(Candidate)
    /\ batches \in Seq(Seq(HostReference))
    /\ \A b \in DOMAIN batches : Fine(batches[b])
    /\ current # <<>> => Fine(current)
    /\ current \in Seq(HostReference)
    /\ currentSize = Joined(KeywordsOf(current)) + (IF current = <<>> THEN 2 ELSE 0)
    /\ Kept

NoBatches == batches = <<>> /\ current = <<>> /\ currentSize = 0

Batching ==
    /\ stage \in {"idle", "scanning", "resolved", "saved"} => NoBatches
    /\ stage \in {"batching", "batched"} => Filling
    /\ stage = "batched" => candidates = <<>> /\ current = <<>>

\* One claim is handled, and the batches are these afterwards.
HandlesOne(added) ==
    /\ candidates # <<>>
    /\ candidates' = Tail(candidates)
    /\ UNCHANGED <<claims, histories>>
    /\ \/ /\ ~Showable(candidates[1])
          /\ added = <<>>
       \/ /\ Showable(candidates[1])
          /\ added = <<HostReferences[candidates[1]]>>
    /\ FlattenSeq(batches') \o current' = (FlattenSeq(batches) \o current) \o added

LEMMA KeptStep ==
    ASSUME Listed, Filling, NEW added, HandlesOne(added)
    PROVE  Kept' /\ candidates' \in Seq(Candidate')
<1>1. UNCHANGED <<claims, histories>>
  BY DEF HandlesOne
<1>2. UNCHANGED <<HostOrder, Candidate, HostReferences>>
  BY <1>1 DEF HostOrder, Candidate, HostReferences
<1>3. CanShow' = CanShow
  BY <1>1, <1>2 DEF CanShow, Showable, Block
<1>4. \A s : ReferencesOf(s)' = ReferencesOf(s)
  BY <1>2 DEF ReferencesOf
<1> DEFINE k == candidates[1]
           rest == Tail(candidates)
<1>5. /\ candidates \in Seq(Candidate) /\ candidates # <<>>
  BY DEF Filling, HandlesOne
<1>6. k \in Candidate /\ rest \in Seq(Candidate) /\ candidates = <<k>> \o rest
  <2>1. Len(candidates) \in Nat \ {0}
    BY <1>5
  <2>2. k \in Candidate /\ rest \in Seq(Candidate) /\ Head(candidates) = k
    BY <1>5, <2>1
  <2>3. candidates = <<Head(candidates)>> \o Tail(candidates)
    BY <1>5, <2>1
  <2> QED BY <2>2, <2>3
<1>7. PICK handled \in Seq(Candidate) :
         /\ HostOrder = handled \o candidates
         /\ FlattenSeq(batches) \o current = ReferencesOf(Picked(handled, CanShow))
  BY DEF Filling, Kept
<1> DEFINE now == Append(handled, k)
<1> HIDE DEF k, rest
<1>8. now \in Seq(Candidate) /\ HostOrder = now \o rest
  <2>1. <<k>> \in Seq(Candidate)
    BY <1>6
  <2>2. now = handled \o <<k>>
    BY <1>6, AppendIsConcat
  <2>3. handled \o (<<k>> \o rest) = (handled \o <<k>>) \o rest
    <3> DEFINE one == <<k>>
    <3>1. one \in Seq(Candidate)
      BY <2>1
    <3> HIDE DEF one
    <3>2. handled \o (one \o rest) = (handled \o one) \o rest
      BY <1>6, <3>1, ConcatAssociative
    <3> QED BY <3>2 DEF one
  <2>4. now \in Seq(Candidate)
    BY <1>6, AppendProperties
  <2> QED BY <1>6, <1>7, <2>2, <2>3, <2>4
<1>9. /\ Picked(handled, CanShow) \in Seq(Candidate)
      /\ Picked(now, CanShow) = PickOne(Picked(handled, CanShow), k, CanShow)
  BY <1>6, PickedAppend
<1>10. ReferencesOf(Picked(now, CanShow)) = ReferencesOf(Picked(handled, CanShow)) \o added
  <2> DEFINE p == Picked(handled, CanShow)
             r == ReferencesOf(p)
             x == HostReferences[k]
  <2>1. /\ r \in Seq(HostReference) /\ x \in HostReference
        /\ ReferencesOf(Append(p, k)) = Append(r, x)
    BY <1>6, <1>9, ReferencesOfFacts DEF HostReference
  <2>2. Append(r, x) = r \o <<x>>
    <3> HIDE DEF r, x
    <3> QED BY <2>1, AppendIsConcat
  <2>3. CASE Showable(k)
    <3>1. Picked(now, CanShow) = Append(p, k)
      BY <1>6, <1>9, <2>3 DEF PickOne, CanShow
    <3>2. added = <<x>>
      BY <2>3 DEF HandlesOne, k
    <3> QED BY <2>1, <2>2, <3>1, <3>2
  <2>4. CASE ~Showable(k)
    <3>1. Picked(now, CanShow) = p
      BY <1>6, <1>9, <2>4 DEF PickOne, CanShow
    <3>2. added = <<>>
      BY <2>4 DEF HandlesOne, k
    <3>3. r \o <<>> = r
      <4> HIDE DEF r
      <4> QED BY <2>1
    <3> QED BY <3>1, <3>2, <3>3
  <2> QED BY <2>3, <2>4
<1>11. FlattenSeq(batches') \o current' = ReferencesOf(Picked(now, CanShow))
  BY <1>7, <1>10 DEF HandlesOne
<1>12. candidates' = rest
  BY DEF HandlesOne, rest
<1> HIDE DEF now
<1>13. PICK all \in Seq(Candidate) :
          /\ HostOrder = all \o candidates'
          /\ FlattenSeq(batches') \o current' = ReferencesOf(Picked(all, CanShow))
  BY <1>8, <1>11, <1>12
<1>14. Kept'
  <2>1. all \in Seq(Candidate') /\ HostOrder' = all \o candidates'
    BY <1>2, <1>13
  <2>2. (ReferencesOf(Picked(all, CanShow)))' = ReferencesOf(Picked(all, CanShow))
    BY <1>2, <1>3 DEF ReferencesOf
  <2>3. (FlattenSeq(batches) \o current)' = (ReferencesOf(Picked(all, CanShow)))'
    BY <1>13, <2>2
  <2> QED BY <2>1, <2>3 DEF Kept
<1> QED BY <1>2, <1>6, <1>12, <1>14

\* Whether a batch is fine does not change while the batches are filled.
LEMMA FineStays ==
    ASSUME UNCHANGED <<claims, histories>>
    PROVE  /\ HostReference' = HostReference /\ Candidate' = Candidate
           /\ \A b : Fine(b)' <=> Fine(b)
           /\ \A b : b = current' =>
                 /\ Fine(current)' <=> Fine(b)
                 /\ (Joined(KeywordsOf(current)))' = Joined(KeywordsOf(b))
           /\ \A b : b = batches' =>
                 \A i : Fine(batches[i])' <=> Fine(b[i])
<1>1. UNCHANGED <<HostOrder, Candidate, HostReferences, HostReference>>
  BY DEF HostOrder, Candidate, HostReferences, HostReference
<1>2. \A r : Named(r)' = Named(r)
  BY <1>1 DEF Named
<1>3. \A k : Block(k)' = Block(k)
  BY DEF Block
<1>4. \A s : Joined(s)' = Joined(s)
  BY <1>3 DEF Joined
<1>5. \A b : KeywordsOf(b)' = KeywordsOf(b)
  BY <1>2 DEF KeywordsOf
<1>6. \A b : Fine(b)' <=> Fine(b)
  BY <1>1, <1>4, <1>5 DEF Fine
<1>7. \A b : b = current' =>
         (Joined(KeywordsOf(current)))' = Joined(KeywordsOf(b))
  BY <1>4, <1>5
<1>8. \A b : b = current' => (Fine(current)' <=> Fine(b))
  BY <1>6
<1>9. \A b : b = batches' => \A i : Fine(batches[i])' <=> Fine(b[i])
  BY <1>6
<1> QED BY <1>1, <1>6, <1>7, <1>8, <1>9

\* A candidate that can be shown goes into the current batch, or into the next.
LEMMA FillingStep ==
    ASSUME Listed, Filling, UNCHANGED <<claims, histories>>,
           candidates # <<>>,
           SkipClaim \/ AddToBatch(HostReferences[candidates[1]])
             \/ NextBatch(HostReferences[candidates[1]])
    PROVE  Filling'
<1> DEFINE k == candidates[1]
           r == HostReferences[k]
           F == FlattenSeq(batches)
           K == Seq(HostReference)
<1>1. /\ k \in Candidate /\ r \in HostReference
      /\ F \in K /\ current \in K /\ batches \in Seq(K)
  <2>1. candidates \in Seq(Candidate) /\ candidates # <<>>
    BY DEF Filling
  <2>2. k \in Candidate
    BY <2>1
  <2>3. batches \in Seq(K) /\ current \in K
    BY DEF Filling
  <2>4. F \in K
    <3> DEFINE none == <<>>
    <3>1. none \in K
      OBVIOUS
    <3> HIDE DEF none
    <3> QED BY <2>3, <3>1, FlattenAppend
  <2> QED BY <2>2, <2>3, <2>4 DEF HostReference
<1>2. Disclosed(Block(k), BlockLimit)
  BY <1>1, BlockFacts DEF Filling
<1> DEFINE b == Block(k).size
<1>3. b \in Nat \ {0} /\ b <= MaxChars
  BY <1>2, LimitsAssumption DEF Disclosed
<1>4. Candidate' = Candidate /\ HostReference' = HostReference
  BY FineStays
<1> HIDE DEF b, K
<1>5. /\ KeywordsOf(current) \in Seq(Candidate)
      /\ KeywordsOf(Append(current, r)) = Append(KeywordsOf(current), k)
  BY <1>1, KeywordsOfFacts DEF K
<1>6. KeywordsOf(<<r>>) = <<k>> /\ KeywordsOf(<<>>) = <<>>
  <2> DEFINE none == <<>>
  <2>1. none \in Seq(HostReference)
    OBVIOUS
  <2>2. KeywordsOf(<<>>) = <<>>
    BY DEF KeywordsOf
  <2>3. KeywordsOf(none) = none /\ Append(none, r) = <<r>> /\ Append(none, k) = <<k>>
    BY <2>2
  <2> HIDE DEF none
  <2>4. KeywordsOf(Append(none, r)) = Append(KeywordsOf(none), k)
    BY <1>1, <2>1, KeywordsOfFacts
  <2> QED BY <2>2, <2>3, <2>4
<1>7. /\ Joined(KeywordsOf(current)) \in Int
      /\ Joined(Append(KeywordsOf(current), k)) = Joined(KeywordsOf(current)) + b + 2
      /\ Joined(<<>>) = 0 - 2
  BY <1>1, <1>5, JoinedFacts DEF Filling, b
<1>8. Joined(<<k>>) = b
  <2> DEFINE none == <<>>
  <2>1. none \in Seq(Candidate) /\ Append(none, k) = <<k>> /\ Joined(none) = 0 - 2
    BY <1>7
  <2> HIDE DEF none
  <2>2. Joined(Append(none, k)) = Joined(none) + b + 2
    BY <1>1, <2>1, JoinedFacts DEF Filling, b
  <2> QED BY <1>3, <2>1, <2>2
<1> DEFINE J == Joined(KeywordsOf(current))
<1>9. currentSize = J + (IF current = <<>> THEN 2 ELSE 0) /\ J \in Int
  BY <1>7 DEF Filling
<1>10. current = <<>> => J = 0 - 2
  BY <1>6, <1>7
<1> HIDE DEF J
<1>11. CASE SkipClaim
  <2>1. HandlesOne(<<>>)
    <3>1. F \o current \in K
      BY <1>1 DEF K
    <3>2. (F \o current) \o <<>> = F \o current
      <4> DEFINE all == F \o current
      <4> HIDE DEF all
      <4> QED BY <3>1 DEF K, all
    <3> QED BY <1>11, <3>2 DEF HandlesOne, SkipClaim
  <2>2. Kept' /\ candidates' \in Seq(Candidate')
    BY <2>1, KeptStep
  <2>3. UNCHANGED <<current, currentSize, batches>>
    BY <1>11 DEF SkipClaim
  <2>4. /\ Fine(current)' <=> Fine(current)
        /\ Joined(KeywordsOf(current))' = Joined(KeywordsOf(current))
        /\ \A i : Fine(batches[i])' <=> Fine(batches[i])
    BY <2>3, FineStays
  <2> QED BY <1>4, <2>2, <2>3, <2>4 DEF Filling
<1>12. CASE AddToBatch(r)
  <2> DEFINE new == Append(current, r)
  <2>1. /\ current' = new /\ currentSize' = currentSize + b + Joint(current)
        /\ UNCHANGED batches
    BY <1>12 DEF AddToBatch, b
  <2>2. /\ new \in Seq(HostReference) /\ new # <<>>
        /\ Len(new) = Len(current) + 1 /\ new = current \o <<r>>
        /\ Len(current) \in Nat /\ (Len(current) = 0 <=> current = <<>>)
    BY <1>1, AppendProperties, AppendIsConcat DEF K
  <2> HIDE DEF new
  <2>3. F \o new = (F \o current) \o <<r>>
    <3> DEFINE one == <<r>>
    <3>1. one \in Seq(HostReference)
      BY <1>1
    <3> HIDE DEF one, F
    <3>2. F \o (current \o one) = (F \o current) \o one
      BY <1>1, <3>1, ConcatAssociative DEF K
    <3> QED BY <2>2, <3>2 DEF one
  <2>4. HandlesOne(<<r>>)
    BY <1>12, <2>1, <2>3 DEF HandlesOne, AddToBatch
  <2>5. Kept' /\ candidates' \in Seq(Candidate')
    BY <2>4, KeptStep
  <2>6. Joined(KeywordsOf(new)) = J + b + 2
    BY <1>5, <1>7 DEF new, J
  <2>7. /\ current # <<>> => J + b + 2 <= MaxChars /\ Len(current) < MaxClaims
    <3> SUFFICES ASSUME current # <<>>
                 PROVE  J + b + 2 <= MaxChars /\ Len(current) < MaxClaims
      OBVIOUS
    <3>1. /\ ~(currentSize + b + 2 > MaxChars) /\ ~(Len(current) >= MaxClaims)
      BY <1>12 DEF AddToBatch, Overflows, Joint, b
    <3>2. currentSize = J /\ MaxChars \in Nat /\ MaxClaims \in Nat
      BY <1>9, LimitsAssumption
    <3> QED BY <1>3, <1>9, <2>2, <3>1, <3>2
  <2>8. Fine(new)
    <3>1. J + b + 2 <= MaxChars
      BY <1>3, <1>10, <2>7
    <3>2. Len(new) \in 1..MaxClaims
      BY <2>2, <2>7, LimitsAssumption
    <3> QED BY <2>2, <2>6, <3>1, <3>2 DEF Fine
  <2>9. currentSize' = J + b + 2
    <3>1. Joint(current) = IF current = <<>> THEN 0 ELSE 2
      BY DEF Joint
    <3> QED BY <1>3, <1>9, <1>10, <2>1, <3>1
  <2>10. /\ Fine(current)' <=> Fine(new)
         /\ Joined(KeywordsOf(current))' = Joined(KeywordsOf(new))
         /\ \A i : Fine(batches[i])' <=> Fine(batches[i])
    BY <2>1, FineStays
  <2>11. histories' \in [Candidate' -> Histories]
    BY <1>4 DEF Filling
  <2>12. currentSize' = Joined(KeywordsOf(current))'
                          + (IF current' = <<>> THEN 2 ELSE 0)
    BY <1>3, <1>9, <2>1, <2>2, <2>6, <2>9, <2>10
  <2>13. (\A i \in DOMAIN batches : Fine(batches[i]))'
    BY <2>1, <2>10 DEF Filling
  <2>14. /\ batches' \in Seq(Seq(HostReference')) /\ current' \in Seq(HostReference')
         /\ Fine(current)'
    BY <1>1, <1>4, <2>1, <2>2, <2>8, <2>10 DEF K
  <2> QED BY <2>5, <2>11, <2>12, <2>13, <2>14 DEF Filling
<1>13. CASE NextBatch(r)
  <2> DEFINE new == Append(batches, current)
             one == <<r>>
  <2>1. /\ batches' = new /\ current' = one /\ currentSize' = b
        /\ current # <<>>
    BY <1>13 DEF NextBatch, Overflows, b
  <2>2. /\ new \in Seq(K) /\ Len(new) = Len(batches) + 1 /\ Len(batches) \in Nat
        /\ \A i \in 1..Len(batches) : new[i] = batches[i]
        /\ new[Len(batches) + 1] = current
        /\ DOMAIN new = 1..(Len(batches) + 1) /\ DOMAIN batches = 1..Len(batches)
    BY <1>1, AppendProperties
  <2>3. FlattenSeq(new) = F \o current
    BY <1>1, FlattenAppend DEF K
  <2>4. HandlesOne(one)
    BY <1>13, <2>1, <2>3 DEF HandlesOne, NextBatch
  <2>5. Kept' /\ candidates' \in Seq(Candidate')
    BY <2>4, KeptStep
  <2>6. one \in Seq(HostReference) /\ one # <<>> /\ Len(one) = 1
    BY <1>1
  <2>7. KeywordsOf(one) = <<k>> /\ Joined(KeywordsOf(one)) = b
    BY <1>6, <1>8
  <2>8. Fine(one)
    <3>1. 1 \in 1..MaxClaims
      BY LimitsAssumption
    <3> HIDE DEF one
    <3> QED BY <1>3, <2>6, <2>7, <3>1 DEF Fine
  <2> HIDE DEF new, one
  <2>9. \A i \in DOMAIN new : Fine(new[i])
    <3> TAKE i \in DOMAIN new
    <3>1. i \in 1..Len(batches) \/ i = Len(batches) + 1
      BY <2>2
    <3> QED BY <2>1, <2>2, <3>1 DEF Filling
  <2>10. /\ Fine(current)' <=> Fine(one)
         /\ Joined(KeywordsOf(current))' = Joined(KeywordsOf(one))
         /\ \A i : Fine(batches[i])' <=> Fine(new[i])
    BY <2>1, FineStays
  <2>11. histories' \in [Candidate' -> Histories]
    BY <1>4 DEF Filling
  <2>12. currentSize' = Joined(KeywordsOf(current))'
                          + (IF current' = <<>> THEN 2 ELSE 0)
    BY <1>3, <2>1, <2>6, <2>7, <2>10
  <2> QED BY <1>4, <2>1, <2>2, <2>5, <2>6, <2>8, <2>9, <2>10, <2>11, <2>12
          DEF Filling, K
<1> QED BY <1>11, <1>12, <1>13

\* Nothing is handled and nothing is in a batch.
LEMMA FillingStarts ==
    ASSUME Listed, AskHost, NoBatches
    PROVE  Filling'
<1>1. UNCHANGED <<HostOrder, Candidate, HostReferences, HostReference>>
  BY DEF AskHost, HostOrder, Candidate, HostReferences, HostReference
<1>2. HostOrder \in Seq(Candidate)
  BY OrderFacts
<1>3. /\ candidates' = HostOrder /\ batches' = <<>> /\ current' = <<>>
      /\ currentSize' = 0 /\ histories' \in [Candidate -> Histories]
  BY DEF AskHost, BeginBatches, NoBatches, Candidate
<1>4. Kept'
  <2> DEFINE none == <<>>
  <2>1. none \in Seq(Candidate) /\ HostOrder = none \o HostOrder
    BY <1>2
  <2>2. FlattenSeq(batches') \o current' = <<>>
    <3>1. FlattenSeq(<<>>) = <<>>
      BY FlattenNone
    <3> QED BY <1>3, <3>1
  <2>3. (ReferencesOf(Picked(none, CanShow)))' = <<>>
    <3>1. Picked(none, CanShow') = <<>>
      BY PickedNone
    <3> HIDE DEF none
    <3> QED BY <3>1 DEF ReferencesOf
  <2> HIDE DEF none
  <2>4. /\ none \in Seq(Candidate') /\ HostOrder' = none \o candidates'
        /\ (FlattenSeq(batches) \o current)' = (ReferencesOf(Picked(none, CanShow)))'
    BY <1>1, <1>3, <2>1, <2>2, <2>3
  <2> QED BY <2>4 DEF Kept
<1>5. Joined(KeywordsOf(current))' = 0 - 2
  <2>1. (KeywordsOf(current))' = <<>>
    BY <1>3 DEF KeywordsOf
  <2> DEFINE none == <<>>
  <2>2. (Joined(none))' = 0 - 2
    <3> DEFINE e == [i \in DOMAIN none |-> Block(none[i])'.size]
    <3>1. e \in [1..0 -> Int]
      OBVIOUS
    <3>2. (Joined(none))' = Total(e) + 2 * (0 - 1)
      BY DEF Joined
    <3> HIDE DEF e
    <3>3. Total(e) = 0
      BY <3>1, TotalOfNone
    <3> QED BY <3>2, <3>3
  <2> HIDE DEF none
  <2>3. (KeywordsOf(current))' = none
    BY <2>1 DEF none
  <2> QED BY <2>2, <2>3
<1>6. /\ batches' \in Seq(Seq(HostReference')) /\ current' \in Seq(HostReference')
      /\ DOMAIN batches' = {}
  BY <1>3
<1>7. candidates' \in Seq(Candidate') /\ histories' \in [Candidate' -> Histories]
  BY <1>1, <1>2, <1>3
<1>8. currentSize' = Joined(KeywordsOf(current))'
                       + (IF current' = <<>> THEN 2 ELSE 0)
  BY <1>3, <1>5
<1> QED BY <1>3, <1>4, <1>6, <1>7, <1>8 DEF Filling

\* The last batch joins the others.
LEMMA FillingEnds ==
    ASSUME Listed, Filling, UNCHANGED claims, FinishBatches
    PROVE  Filling' /\ current' = <<>> /\ UNCHANGED candidates
<1> DEFINE K == Seq(HostReference)
           new == IF current = <<>> THEN batches ELSE Append(batches, current)
<1>1. /\ batches' = new /\ current' = <<>> /\ currentSize' = 0
      /\ UNCHANGED <<claims, histories, candidates>>
  BY DEF FinishBatches
<1>2. batches \in Seq(K) /\ current \in K
  BY DEF Filling
<1>3. FlattenSeq(batches) \in K /\ FlattenSeq(Append(batches, current))
                                    = FlattenSeq(batches) \o current
  BY <1>2, FlattenAppend
<1> DEFINE F == FlattenSeq(batches)
<1>4. FlattenSeq(new) \o <<>> = F \o current
  <2>1. CASE current = <<>>
    BY <2>1
  <2>2. CASE current # <<>>
    <3> DEFINE all == F \o current
    <3>1. FlattenSeq(new) = all
      BY <1>3, <2>2
    <3>2. all \in K
      <4> HIDE DEF F
      <4>1. F \in K
        BY <1>3 DEF F
      <4> QED BY <1>2, <4>1
    <3>3. all \o <<>> = all
      <4> HIDE DEF all
      <4> QED BY <3>2
    <3> QED BY <3>1, <3>3
  <2> QED BY <2>1, <2>2
<1>5. UNCHANGED <<HostOrder, Candidate, HostReferences, HostReference>>
  BY <1>1 DEF HostOrder, Candidate, HostReferences, HostReference
<1>6. CanShow' = CanShow
  BY <1>1, <1>5 DEF CanShow, Showable, Block
<1>7. Kept'
  <2>1. PICK handled \in Seq(Candidate) :
           /\ HostOrder = handled \o candidates
           /\ FlattenSeq(batches) \o current = ReferencesOf(Picked(handled, CanShow))
    BY DEF Filling, Kept
  <2>2. handled \in Seq(Candidate') /\ HostOrder' = handled \o candidates'
    BY <1>1, <1>5, <2>1
  <2>3. (ReferencesOf(Picked(handled, CanShow)))'
           = ReferencesOf(Picked(handled, CanShow))
    BY <1>5, <1>6 DEF ReferencesOf
  <2>4. FlattenSeq(batches') \o current' = FlattenSeq(batches) \o current
    <3> HIDE DEF new
    <3> QED BY <1>1, <1>4
  <2>5. (FlattenSeq(batches) \o current)' = (ReferencesOf(Picked(handled, CanShow)))'
    BY <2>1, <2>3, <2>4
  <2> QED BY <2>2, <2>5 DEF Kept
<1>8. new \in Seq(K) /\ \A i \in DOMAIN new : Fine(new[i])
  <2>1. CASE current = <<>>
    BY <1>2, <2>1 DEF Filling
  <2>2. CASE current # <<>>
    <3> DEFINE more == Append(batches, current)
    <3> HIDE DEF K
    <3>1. /\ more \in Seq(K) /\ Len(batches) \in Nat
          /\ \A i \in 1..Len(batches) : more[i] = batches[i]
          /\ more[Len(batches) + 1] = current
          /\ DOMAIN more = 1..(Len(batches) + 1) /\ DOMAIN batches = 1..Len(batches)
      BY <1>2, AppendProperties
    <3>2. new = more
      BY <2>2
    <3> HIDE DEF more, new
    <3>3. Fine(current) /\ \A i \in DOMAIN batches : Fine(batches[i])
      BY <2>2 DEF Filling
    <3>4. \A i \in DOMAIN more : Fine(more[i])
      <4> TAKE i \in DOMAIN more
      <4>1. i \in 1..Len(batches) \/ i = Len(batches) + 1
        BY <3>1
      <4> QED BY <3>1, <3>3, <4>1
    <3> QED BY <3>1, <3>2, <3>4
  <2> QED BY <2>1, <2>2
<1> HIDE DEF new
<1> DEFINE none == <<>>
<1>9. none \in Seq(HostReference) /\ KeywordsOf(none) = none /\ none = <<>>
  BY DEF KeywordsOf
<1>10. Joined(none) = 0 - 2
  <2> DEFINE e == [i \in DOMAIN none |-> Block(none[i]).size]
  <2>1. e \in [1..0 -> Int]
    OBVIOUS
  <2>2. Joined(none) = Total(e) + 2 * (0 - 1)
    BY DEF Joined
  <2> HIDE DEF e
  <2>3. Total(e) = 0
    BY <2>1, TotalOfNone
  <2> QED BY <2>2, <2>3
<1> HIDE DEF none, K
<1>11. /\ current' = none
       /\ Joined(KeywordsOf(current))' = Joined(KeywordsOf(none))
       /\ \A i : Fine(batches[i])' <=> Fine(new[i])
  BY <1>1, <1>9, FineStays
<1>12. currentSize' = Joined(KeywordsOf(current))'
                        + (IF current' = <<>> THEN 2 ELSE 0)
  BY <1>1, <1>9, <1>10, <1>11
<1>13. (\A i \in DOMAIN batches : Fine(batches[i]))'
  BY <1>1, <1>8, <1>11
<1>14. /\ histories' \in [Candidate' -> Histories] /\ candidates' \in Seq(Candidate')
       /\ batches' \in Seq(Seq(HostReference')) /\ current' \in Seq(HostReference')
  BY <1>1, <1>5, <1>8, <1>9, <1>11 DEF Filling, K
<1> QED BY <1>1, <1>7, <1>12, <1>13, <1>14 DEF Filling

LEMMA BatchingStep == Listed /\ Batching /\ [Next]_vars => Batching'
<1> SUFFICES ASSUME Listed, Batching, [Next]_vars PROVE Batching'
  OBVIOUS
<1> DEFINE before == {"idle", "scanning", "resolved", "saved"}
<1>1. CASE /\ stage \in before /\ stage' \in before
           /\ UNCHANGED <<batches, current, currentSize>>
  BY <1>1 DEF Batching, NoBatches
<1>2. CASE AskHost
  <2>1. NoBatches /\ stage' = "batching"
    BY <1>2 DEF AskHost, Batching
  <2> QED BY <1>2, <2>1, FillingStarts DEF Batching
<1>3. CASE FillBatches
  <2>1. /\ stage = "batching" /\ stage' = "batching" /\ candidates # <<>>
        /\ UNCHANGED claims
        /\ SkipClaim \/ AddToBatch(HostReferences[candidates[1]])
             \/ NextBatch(HostReferences[candidates[1]])
    BY <1>3 DEF FillBatches
  <2>2. UNCHANGED histories
    BY <2>1 DEF SkipClaim, AddToBatch, NextBatch
  <2>3. Filling
    BY <2>1 DEF Batching
  <2>4. Filling'
    BY <2>1, <2>2, <2>3, FillingStep
  <2> QED BY <2>1, <2>4 DEF Batching
<1>4. CASE Batched
  <2>1. Filling /\ candidates = <<>> /\ UNCHANGED claims /\ FinishBatches
        /\ stage' = "batched"
    BY <1>4 DEF Batched, Batching
  <2>2. Filling' /\ current' = <<>> /\ UNCHANGED candidates
    BY <2>1, FillingEnds
  <2> QED BY <2>1, <2>2 DEF Batching
<1>5. CASE UNCHANGED <<claims, stage, batchVars>>
  <2>1. UNCHANGED <<claims, stage, histories, candidates, current, currentSize, batches>>
    BY <1>5 DEF batchVars
  <2>2. UNCHANGED <<HostOrder, Candidate, HostReferences, HostReference>>
    BY <2>1 DEF HostOrder, Candidate, HostReferences, HostReference
  <2>3. CanShow' = CanShow
    BY <2>1, <2>2 DEF CanShow, Showable, Block
  <2>4. \A s : ReferencesOf(s)' = ReferencesOf(s)
    BY <2>2 DEF ReferencesOf
  <2>5. Filling => Filling'
    <3> SUFFICES ASSUME Filling PROVE Filling'
      OBVIOUS
    <3>1. Kept'
      <4>1. PICK handled \in Seq(Candidate) :
               /\ HostOrder = handled \o candidates
               /\ FlattenSeq(batches) \o current
                    = ReferencesOf(Picked(handled, CanShow))
        BY DEF Filling, Kept
      <4>2. (ReferencesOf(Picked(handled, CanShow)))'
               = ReferencesOf(Picked(handled, CanShow))
        BY <2>2, <2>3 DEF ReferencesOf
      <4>3. /\ handled \in Seq(Candidate') /\ HostOrder' = handled \o candidates'
            /\ (FlattenSeq(batches) \o current)'
                 = (ReferencesOf(Picked(handled, CanShow)))'
        BY <2>1, <2>2, <4>1, <4>2
      <4> QED BY <4>3 DEF Kept
    <3>2. /\ Fine(current)' <=> Fine(current)
          /\ Joined(KeywordsOf(current))' = Joined(KeywordsOf(current))
          /\ \A i : Fine(batches[i])' <=> Fine(batches[i])
      BY <2>1, FineStays
    <3> QED BY <2>1, <2>2, <3>1, <3>2 DEF Filling
  <2> QED BY <2>1, <2>5 DEF Batching, NoBatches
<1> QED
  <2>1. ASSUME Merge PROVE Batching'
    <3>1. /\ stage \in before /\ stage' \in before
          /\ UNCHANGED <<batches, current, currentSize>>
      BY <2>1 DEF Merge, TargetsNext, Propose, Respond, MatchWhole, MatchKeyword,
         SkipSeparator, KeepCharacter, Finish, Record, Scanning, batchVars
    <3> QED BY <1>1, <3>1
  <2>2. ASSUME SaveClaims PROVE Batching'
    <3>1. /\ stage \in before /\ stage' \in before
          /\ UNCHANGED <<batches, current, currentSize>>
      BY <2>2 DEF SaveClaims, batchVars
    <3> QED BY <1>1, <3>1
  <2>3. ASSUME UNCHANGED vars PROVE Batching'
    BY <1>5, <2>3 DEF vars
  <2> QED BY <1>2, <1>3, <1>4, <2>1, <2>2, <2>3 DEF Next

\* The Host is shown every candidate whose block can be shown exactly once, in
\* the order of the claims, under a reference that leads back to it alone, and
\* in batches within their limits, for all claims, histories and limits.
THEOREM EachBlockOnceHolds == Spec => []EachBlockOnce
<1>1. Init => Listed /\ Batching
  <2>1. Init => Batching
    BY DEF Init, TargetsInit, BatchesInit, Batching, NoBatches
  <2> QED BY <2>1, ListedInitially DEF AnswersInv
<1>2. Listed /\ Batching /\ [Next]_vars => (Listed /\ Batching)'
  BY ListedStep, BatchingStep
<1>3. Listed /\ Batching => EachBlockOnce
  <2> SUFFICES ASSUME Listed, Filling, candidates = <<>>, current = <<>>
               PROVE  LET showable == Picked(HostOrder,
                                             {k \in ToSet(HostOrder) : Showable(k)})
                          asked == FlattenSeq(batches)
                      IN  /\ Len(asked) = Len(showable)
                          /\ \A i \in DOMAIN asked : Named(asked[i]) = {showable[i]}
                          /\ \A b \in DOMAIN batches :
                                /\ Len(batches[b]) \in 1..MaxClaims
                                /\ Joined([i \in DOMAIN batches[b] |->
                                      CHOOSE k \in Named(batches[b][i]) : TRUE])
                                     <= MaxChars
    BY DEF EachBlockOnce, Batching
  <2> DEFINE showable == Picked(HostOrder, CanShow)
             asked == FlattenSeq(batches)
             K == Seq(HostReference)
  <2>1. PICK handled \in Seq(Candidate) :
           /\ HostOrder = handled \o candidates
           /\ FlattenSeq(batches) \o current = ReferencesOf(Picked(handled, CanShow))
    BY DEF Filling, Kept
  <2>2. handled \o <<>> = handled
    OBVIOUS
  <2>3. HostOrder = handled
    BY <2>1, <2>2
  <2>4. asked \in K
    <3> DEFINE none == <<>>
    <3>1. none \in K /\ batches \in Seq(K)
      BY DEF Filling
    <3> HIDE DEF none, asked
    <3> QED BY <3>1, FlattenAppend DEF asked
  <2>5. asked \o <<>> = asked
    <3> HIDE DEF asked
    <3> QED BY <2>4
  <2>6. asked = ReferencesOf(showable)
    <3> HIDE DEF asked
    <3>1. asked \o <<>> = ReferencesOf(showable)
      BY <2>1, <2>3 DEF asked
    <3> QED BY <2>5, <3>1
  <2>7. showable \in Seq(Candidate)
    BY <2>3, PickedIsPart
  <2>8. Len(asked) = Len(showable)
    <3> HIDE DEF asked, showable
    <3>1. asked = [i \in 1..Len(showable) |-> HostReferences[showable[i]]]
      BY <2>6, <2>7 DEF ReferencesOf
    <3> QED BY <2>4, <2>7, <3>1
  <2>9. \A i \in DOMAIN asked : Named(asked[i]) = {showable[i]}
    <3> HIDE DEF asked, showable
    <3> TAKE i \in DOMAIN asked
    <3>1. i \in DOMAIN showable /\ asked[i] = HostReferences[showable[i]]
      BY <2>6 DEF ReferencesOf
    <3>2. showable[i] \in Candidate
      BY <2>7, <3>1
    <3> QED BY <3>1, <3>2, OrderFacts
  <2>10. \A b \in DOMAIN batches :
            /\ Len(batches[b]) \in 1..MaxClaims
            /\ Joined([i \in DOMAIN batches[b] |->
                  CHOOSE k \in Named(batches[b][i]) : TRUE]) <= MaxChars
    BY DEF Filling, Fine, KeywordsOf
  <2> HIDE DEF asked, showable
  <2> QED BY <2>8, <2>9, <2>10 DEF asked, showable, CanShow, Candidate
<1> QED BY <1>1, <1>2, <1>3, PTL DEF Spec

-----------------------------------------------------------------------------
(* The summary of all candidates. *)

\* Entries of a claim, as many as there are.
IsEntries(entries) ==
    /\ Len(entries) \in Nat \ {0} /\ DOMAIN entries = 1..Len(entries)
    /\ \A i \in 1..Len(entries) :
          entries[i].prefix \in Nat /\ entries[i].content \in Nat

Contained(entries) == Total([j \in DOMAIN entries |-> entries[j].content])

LEMMA CriticalFacts ==
    ASSUME NEW h \in Histories, NEW from \in 2..3
    PROVE  IsEntries(Critical(h, from))
<1> DEFINE n == Len(h.entries)
           m == Least(from, n)
           es == h.entries
           s == SubSeq(es, m, n)
<1>1. /\ n \in Nat \ {0} /\ DOMAIN es = 1..n
      /\ \A i \in 1..n : es[i].prefix \in Nat /\ es[i].content \in Nat
  BY HistoryFacts
<1>2. es \in Seq([prefix : Nat, content : Nat])
  BY HistoriesAssumption
<1>3. m \in 1..n
  <2> HIDE DEF n
  <2> QED BY <1>1 DEF Least
<1>4. /\ Len(s) = n - m + 1 /\ DOMAIN s = 1..(n - m + 1)
      /\ \A i \in 1..(n - m + 1) : s[i] = es[m + i - 1]
  <2> DEFINE E == [prefix : Nat, content : Nat]
  <2> HIDE DEF n, m, E, es
  <2>1. es \in Seq(E)
    BY <1>2 DEF E, es
  <2>2. Len(es) = n
    BY DEF n, es
  <2> QED BY <1>1, <1>3, <2>1, <2>2
<1>5. \A i \in 1..(n - m + 1) : m + i - 1 \in 1..n
  <2> HIDE DEF n, m
  <2> QED BY <1>1, <1>3
<1>6. n - m + 1 \in Nat \ {0}
  <2> HIDE DEF n, m
  <2> QED BY <1>1, <1>3
<1>7. Critical(h, from) = s
  BY DEF Critical
<1> HIDE DEF s, n, m, es
<1>8. IsEntries(s)
  BY <1>1, <1>4, <1>5, <1>6 DEF IsEntries
<1> QED BY <1>7, <1>8

LEMMA EntriesTotals ==
    ASSUME NEW entries, IsEntries(entries)
    PROVE  Labels(entries) \in Int /\ Contained(entries) \in Int
<1> DEFINE n == Len(entries)
           f == [i \in DOMAIN entries |-> entries[i].prefix]
           g == [i \in DOMAIN entries |-> entries[i].content]
<1>1. n \in Nat /\ f \in [1..n -> Int] /\ g \in [1..n -> Int]
  BY DEF IsEntries
<1>2. Labels(entries) = Total(f) + 3 * (n - 1) /\ Contained(entries) = Total(g)
  BY DEF Labels, Contained
<1> HIDE DEF f, g, n
<1>3. Total(f) \in Int /\ Total(g) \in Int
  BY <1>1, TotalIsSum
<1> QED BY <1>1, <1>2, <1>3

LEMMA SummaryFacts ==
    ASSUME NEW entries, IsEntries(entries), NEW limit \in Nat
    PROVE  /\ Summary(entries, limit).size \in Int
           /\ ~Summary(entries, limit).lost =>
                 Summary(entries, limit).size = Labels(entries) + Contained(entries)
<1> DEFINE n == Len(entries)
           l == Labels(entries)
           limits == EntryLimits(limit - l, n)
           f == [i \in 1..n |-> Least(entries[i].content, limits[i])]
           g == [j \in DOMAIN entries |-> entries[j].content]
           lost == \E i \in 1..n : entries[i].content > limits[i]
<1>1. /\ n \in Nat \ {0} /\ l \in Int /\ DOMAIN entries = 1..n
      /\ \A i \in 1..n : entries[i].content \in Nat
      /\ Contained(entries) \in Int
  BY EntriesTotals DEF IsEntries
<1>2. CASE limit <= l
  <2>1. Summary(entries, limit) = [size |-> limit, lost |-> TRUE]
    BY <1>2 DEF Summary
  <2> QED BY <2>1
<1>3. CASE ~(limit <= l)
  <2>1. Summary(entries, limit) = [size |-> l + Total(f), lost |-> lost]
    BY <1>3 DEF Summary
  <2>2. limit - l \in Nat
    <3> HIDE DEF l
    <3> QED BY <1>1, <1>3
  <2>3. limits \in [1..n -> Nat]
    <3> DEFINE b == limit - l
    <3> HIDE DEF b, n
    <3>1. b \in Nat
      BY <2>2 DEF b
    <3>2. EntryLimits(b, n) \in [1..n -> Nat]
      BY <1>1, <3>1, SharesAreAll
    <3> QED BY <3>2 DEF b
  <2> HIDE DEF limits, n, l
  <2>4. f \in [1..n -> Int] /\ g \in [1..n -> Int]
    BY <1>1, <2>3 DEF Least
  <2>5. ~lost => f = g
    <3> SUFFICES ASSUME ~lost PROVE f = g
      OBVIOUS
    <3>1. \A i \in 1..n : Least(entries[i].content, limits[i]) = entries[i].content
      <4> TAKE i \in 1..n
      <4>1. entries[i].content \in Nat /\ limits[i] \in Nat
            /\ ~(entries[i].content > limits[i])
        BY <1>1, <2>3
      <4> QED BY <4>1 DEF Least
    <3> QED BY <1>1, <3>1
  <2>6. Contained(entries) = Total(g)
    BY DEF Contained
  <2>7. Total(f) \in Int
    <3> HIDE DEF f
    <3> QED BY <1>1, <2>4, TotalIsSum
  <2> HIDE DEF f, g, lost
  <2>8. /\ Summary(entries, limit).size = l + Total(f)
        /\ Summary(entries, limit).lost = lost
    BY <2>1
  <2>9. ~Summary(entries, limit).lost => f = g
    BY <2>5, <2>8, Zenon
  <2> QED BY <1>1, <2>6, <2>7, <2>8, <2>9 DEF l
<1> QED BY <1>2, <1>3

LEMMA ContextIsDisclosed ==
    ASSUME NEW T, histories \in [T -> Histories], NEW order, order \in Seq(T),
           NEW from \in 2..3
    PROVE  LET context == GlobalContext(order, from)
           IN  /\ context.size <= ContextLimit
               /\ context.truncated \/ context.size = WholeContext(order, from)
<1> DEFINE n == Len(order)
           E(i) == Critical(histories[order[i]], from)
           fixed == FixedContext(order)
           limits == EntryLimits(Less(ContextLimit, fixed), n)
           lines == [i \in 1..n |-> Summary(E(i), limits[i])]
           sizes == [i \in 1..n |-> lines[i].size]
           rendered == fixed + Total(sizes)
           truncated == rendered > ContextLimit \/ \E i \in 1..n : lines[i].lost
           size == IF ~truncated THEN rendered
                   ELSE Least(ContextLimit, ContextMark + 1 + rendered)
           wholes == [i \in DOMAIN order |->
                        LET entries == Critical(histories[order[i]], from)
                        IN  Labels(entries)
                              + Total([j \in DOMAIN entries |-> entries[j].content])]
<1>1. GlobalContext(order, from) = [size |-> size, truncated |-> truncated]
  BY DEF GlobalContext
<1>2. WholeContext(order, from) = fixed + Total(wholes)
  BY DEF WholeContext
<1>3. /\ n \in Nat /\ DOMAIN order = 1..n
      /\ \A i \in 1..n : order[i] \in T /\ histories[order[i]] \in Histories
  OBVIOUS
<1>4. \A i \in 1..n : IsEntries(E(i))
  <2> HIDE DEF n
  <2> QED BY <1>3, CriticalFacts
<1>5. fixed \in Int
  <2> DEFINE f == [i \in DOMAIN order |-> histories[order[i]].header]
  <2>1. f \in [1..n -> Int]
    <3>1. \A i \in 1..n : histories[order[i]].header \in Int
      <4> HIDE DEF n
      <4> QED BY <1>3, HistoryFacts
    <3> HIDE DEF n
    <3> QED BY <1>3, <3>1
  <2>2. fixed = Total(f) + n - 1
    BY DEF FixedContext
  <2> HIDE DEF f, n
  <2>3. Total(f) \in Int
    BY <1>3, <2>1, TotalIsSum
  <2> HIDE DEF fixed
  <2> QED BY <1>3, <2>2, <2>3
<1>6. ContextLimit \in Nat /\ ContextMark \in Nat
  BY LimitsAssumption
<1>7. \A i \in 1..n : limits[i] \in Nat
  <2> TAKE i \in 1..n
  <2> DEFINE b == Less(ContextLimit, fixed)
  <2> HIDE DEF n, fixed
  <2>1. b \in Nat /\ n \in Nat \ {0}
    BY <1>3, <1>5, <1>6 DEF Less
  <2> HIDE DEF b
  <2>2. EntryLimits(b, n) \in [1..n -> Nat]
    BY <2>1, SharesAreAll
  <2> QED BY <2>2 DEF b
<1> HIDE DEF limits, fixed, n
<1>8. \A i \in 1..n :
         /\ lines[i].size \in Int
         /\ ~lines[i].lost => lines[i].size = Labels(E(i)) + Contained(E(i))
  <2> TAKE i \in 1..n
  <2>1. lines[i] = Summary(E(i), limits[i])
    OBVIOUS
  <2> HIDE DEF lines, E
  <2> QED BY <1>4, <1>7, <2>1, SummaryFacts
<1>9. \A i \in 1..n : wholes[i] = Labels(E(i)) + Contained(E(i))
  BY <1>3 DEF Contained
<1>10. wholes = [i \in 1..n |-> wholes[i]]
  BY <1>3
<1> HIDE DEF E, lines, wholes
<1>11. sizes \in [1..n -> Int]
  BY <1>8
<1>12. (\A i \in 1..n : ~lines[i].lost) => sizes = wholes
  BY <1>8, <1>9, <1>10
<1>13. Total(sizes) \in Int
  <2> HIDE DEF sizes
  <2> QED BY <1>3, <1>11, TotalIsSum
<1> HIDE DEF sizes
<1>14. rendered \in Int
  BY <1>5, <1>13
<1>15. ~truncated => rendered <= ContextLimit /\ sizes = wholes
  <2> HIDE DEF rendered
  <2> QED BY <1>6, <1>12, <1>14
<1>16. size <= ContextLimit /\ (~truncated => size = fixed + Total(wholes))
  <2>1. CASE truncated
    <3>1. size = Least(ContextLimit, ContextMark + 1 + rendered)
      BY <2>1
    <3> HIDE DEF rendered, size, truncated
    <3> QED BY <1>6, <1>14, <2>1, <3>1 DEF Least
  <2>2. CASE ~truncated
    <3>1. size = rendered
      BY <2>2
    <3>2. rendered = fixed + Total(wholes)
      BY <1>15, <2>2
    <3> HIDE DEF rendered, size, truncated
    <3> QED BY <1>15, <2>2, <3>1, <3>2
  <2> QED BY <2>1, <2>2
<1> DEFINE c == GlobalContext(order, from)
<1> HIDE DEF size, truncated
<1>17. c.size = size /\ c.truncated = truncated
  BY <1>1
<1>18. c.truncated \/ c.size = WholeContext(order, from)
  <2> HIDE DEF c
  <2> QED BY <1>2, <1>16, <1>17, Zenon
<1> QED BY <1>16, <1>17, <1>18

-----------------------------------------------------------------------------
(* What an agent is shown. *)

LEMMA AgentBlockFacts ==
    ASSUME NEW T, histories \in [T -> Histories], NEW k \in T,
           NEW s \in Additions \cup {0}
    PROVE  /\ Disclosed(AgentBlock(k, s), AgentLimit - SuffixSize(s))
           /\ SuffixSize(s) \in Nat
<1> DEFINE h == histories[k]
           limit == AgentLimit - SuffixSize(s)
           A == Additions \cup {0}
<1>1. h \in Histories
  OBVIOUS
<1>2. /\ s \in Nat /\ AgentLimit \in Nat /\ SuffixSize(s) \in Nat
      /\ h.header + Preview + Mark <= (AgentLimit - s - 1 - Cut) \div 2
  BY <1>1, PromptAssumption DEF SuffixSize
<1>3. HasRoom(h, limit)
  <2> DEFINE a == h.header + Preview + Mark
             x == AgentLimit - s - 1 - Cut
             y == limit - Cut
  <2>1. a \in Nat /\ Cut \in Nat
    BY <1>1, HistoryFacts
  <2>2. x \in Int /\ y \in Int /\ x <= y /\ a <= x \div 2
    BY <1>2, <2>1 DEF SuffixSize
  <2>3. limit \in Int
    BY <1>2
  <2> HIDE DEF a, x, y, limit
  <2>4. x \div 2 <= y \div 2
    BY <2>2
  <2>5. x \div 2 \in Int /\ y \div 2 \in Int
    BY <2>2
  <2>6. a <= y \div 2
    BY <2>1, <2>2, <2>4, <2>5
  <2> QED BY <2>3, <2>6 DEF HasRoom, a, y
<1>4. PICK long \in BOOLEAN : AgentBlock(k, s) = CompactClaim(h, long, limit)
  <2> DEFINE B == BOOLEAN
             F(b) == CompactClaim(h, b, limit)
  <2>0. /\ AgentBlocks[<<h, TRUE, s>>] = F(TRUE)
        /\ AgentBlocks[<<h, FALSE, s>>] = F(FALSE)
    <3>1. AgentBlocks = [q \in Histories \X B \X A |->
                           CompactClaim(q[1], q[2], AgentLimit - SuffixSize(q[3]))]
      BY DEF AgentBlocks
    <3>2. TRUE \in B /\ FALSE \in B /\ s \in A
      OBVIOUS
    <3> HIDE DEF B, A, h
    <3>3. \A b \in B : AgentBlocks[<<h, b, s>>] = F(b)
      BY <1>1, <3>1, <3>2
    <3> HIDE DEF F
    <3> QED BY <3>2, <3>3, Zenon
  <2> HIDE DEF h, limit
  <2>1. CASE k \in LongKeyword
    <3>1. (k \in LongKeyword) = TRUE
      BY <2>1
    <3>2. AgentBlock(k, s) = AgentBlocks[<<h, TRUE, s>>]
      BY <3>1, Zenon DEF AgentBlock, h
    <3> QED BY <2>0, <3>2
  <2>2. CASE k \notin LongKeyword
    <3>1. (k \in LongKeyword) = FALSE
      BY <2>2
    <3>2. AgentBlock(k, s) = AgentBlocks[<<h, FALSE, s>>]
      BY <3>1, Zenon DEF AgentBlock, h
    <3> QED BY <2>0, <3>2
  <2> QED BY <2>1, <2>2
<1> HIDE DEF h, limit
<1>5. Disclosed(CompactClaim(h, long, limit), limit)
  BY <1>1, <1>3, CompactIsDisclosed
<1> QED BY <1>2, <1>4, <1>5 DEF limit

\* A text that is shown with a mark if something is missing.
IsShown(block) ==
    /\ block.size \in Nat
    /\ block.marked \in BOOLEAN /\ block.complete \in BOOLEAN
    /\ block.marked # block.complete

\* The size of a number of texts, one below the other.
LEMMA LinesFacts ==
    ASSUME NEW blocks, NEW n \in Nat, \A i \in 1..n : blocks[i].size \in Nat
    PROVE  /\ Lines(blocks, n) \in Nat
           /\ n = 0 => Lines(blocks, n) = 0
           /\ Lines(blocks, n)
                = Total([i \in 1..n |-> blocks[i].size]) + (IF n = 0 THEN 0 ELSE n - 1)
<1> DEFINE f == [i \in 1..n |-> blocks[i].size]
<1>1. f \in [1..n -> Nat] /\ f \in [1..n -> Int]
  OBVIOUS
<1>2. Lines(blocks, n) = Total(f) + (IF n = 0 THEN 0 ELSE n - 1)
  BY DEF Lines
<1>3. n = 0 => f \in [1..0 -> Int]
  BY <1>1
<1> HIDE DEF f
<1>4. Total(f) \in Nat /\ (n = 0 => Total(f) = 0)
  BY <1>1, <1>3, TotalIsNat, TotalOfNone
<1> QED BY <1>2, <1>4 DEF f

\* The lengths count, and nothing else.
LEMMA LinesAgree ==
    ASSUME NEW a, NEW b, NEW n \in Nat, \A i \in 1..n : a[i].size = b[i].size
    PROVE  Lines(a, n) = Lines(b, n)
<1>1. [i \in 1..n |-> a[i].size] = [i \in 1..n |-> b[i].size]
  OBVIOUS
<1> QED BY <1>1 DEF Lines

\* Everything is picked of a sequence.
LEMMA PickedAll ==
    ASSUME NEW K, NEW s, s \in Seq(K), NEW S, \A i \in 1..Len(s) : s[i] \in S
    PROVE  Picked(s, S) = s
<1> DEFINE n == Len(s)
           X == Seq(K)
<1>1. n \in Nat /\ \A i \in 1..n : s[i] \in K /\ s[i] \in S
  OBVIOUS
<1>2. PICK p \in [0..n -> X] : /\ StepByStep(p, PickStep(s, S, K), <<>>, n)
                               /\ Picked(s, S) = p[n]
  BY PickedSteps
<1>3. \A i \in 0..n : p[i] \in X
  OBVIOUS
<1>4. p[0] = <<>> /\ \A i \in 1..n : p[i] = Append(p[i - 1], s[i])
  <2>1. ASSUME NEW i \in 1..n PROVE p[i] = Append(p[i - 1], s[i])
    <3>1. p[i - 1] \in X
      <4> HIDE DEF n, X
      <4>1. i - 1 \in 0..n
        BY <1>1
      <4> QED BY <1>3, <4>1
    <3>2. p[i] = PickStep(s, S, K)[<<i, p[i - 1]>>]
      BY <1>2 DEF StepByStep
    <3>3. p[i] = PickOne(p[i - 1], s[i], S)
      BY <3>1, <3>2 DEF PickStep
    <3> QED BY <1>1, <3>3 DEF PickOne
  <2> QED BY <1>2, <2>1 DEF StepByStep
<1> DEFINE G == {i \in Nat : i <= n => /\ Len(p[i]) = i
                                       /\ \A j \in 1..i : p[i][j] = s[j]}
<1>5. 0 \in G
  BY <1>4
<1>6. ASSUME NEW i \in G PROVE i + 1 \in G
  <2> SUFFICES ASSUME i + 1 <= n
               PROVE  /\ Len(p[i + 1]) = i + 1
                      /\ \A j \in 1..(i + 1) : p[i + 1][j] = s[j]
    OBVIOUS
  <2>1. /\ i \in Nat /\ i \in 0..n /\ i + 1 \in 1..n /\ (i + 1) - 1 = i
        /\ Len(p[i]) = i /\ \A j \in 1..i : p[i][j] = s[j]
    <3> HIDE DEF n
    <3> QED BY <1>1
  <2> HIDE DEF G, n
  <2>2. p[i] \in X /\ p[i + 1] = Append(p[i], s[i + 1]) /\ s[i + 1] \in K
    BY <1>1, <1>3, <1>4, <2>1
  <2>3. /\ Len(p[i + 1]) = i + 1 /\ p[i + 1][i + 1] = s[i + 1]
        /\ \A j \in 1..i : p[i + 1][j] = p[i][j]
    BY <2>1, <2>2, AppendProperties
  <2>4. ASSUME NEW j \in 1..(i + 1) PROVE p[i + 1][j] = s[j]
    <3>1. j \in 1..i \/ j = i + 1
      BY <2>1
    <3> QED BY <2>1, <2>3, <3>1
  <2> QED BY <2>3, <2>4
<1>7. G = Nat
  <2>1. G \in SUBSET Nat
    OBVIOUS
  <2> HIDE DEF G
  <2> QED BY <1>5, <1>6, <2>1, SetInduction
<1>8. n \in G /\ n <= n /\ n \in 0..n
  <2> HIDE DEF G, n
  <2> QED BY <1>1, <1>7
<1>9. Len(p[n]) = n /\ \A j \in 1..n : p[n][j] = s[j]
  BY <1>8
<1>10. p[n] \in X
  BY <1>3, <1>8
<1> HIDE DEF G
<1>11. p[n] = s
  <2> DEFINE t == p[n]
  <2>1. t \in Seq(K) /\ Len(t) = Len(s) /\ \A j \in 1..Len(t) : t[j] = s[j]
    BY <1>9, <1>10
  <2> HIDE DEF t
  <2>2. t = s
    BY <2>1, SeqEqual
  <2> QED BY <2>2 DEF t
<1> QED BY <1>2, <1>11

-----------------------------------------------------------------------------
(* The section of requests. *)

IsRequest(request) == IsShown(request) /\ request.header \in Nat

LEMMA ShortenedFacts ==
    ASSUME NEW request, IsRequest(request), NEW room \in Nat,
           request.header + IdentityRoom <= room,
           request = [size |-> request.size, marked |-> request.marked,
                      complete |-> request.complete, header |-> request.header]
    PROVE  IsShown(Shortened(request, room)) /\ Shortened(request, room).size <= room
<1>1. CASE request.size <= room
  BY <1>1 DEF Shortened, IsRequest
<1>2. CASE ~(request.size <= room)
  <2> DEFINE fits == request.header + RequestMark <= room
  <2>1. fits
    BY PromptAssumption DEF IsRequest
  <2>2. Shortened(request, room)
          = [request EXCEPT !.size = room, !.marked = fits, !.complete = FALSE]
    BY <1>2 DEF Shortened
  <2>3. fits = TRUE
    BY <2>1
  <2> HIDE DEF fits
  <2>4. Shortened(request, room)
          = [request EXCEPT !.size = room, !.marked = TRUE, !.complete = FALSE]
    BY <2>2, <2>3, Zenon
  <2>5. Shortened(request, room)
          = [size |-> room, marked |-> TRUE, complete |-> FALSE,
             header |-> request.header]
    BY <2>4
  <2> QED BY <2>5 DEF IsShown
<1> QED BY <1>1, <1>2

LEMMA RequestsAreDisclosed ==
    ASSUME NEW requests, NEW n \in Nat, Len(requests) = n,
           \A i \in 1..n :
              /\ IsRequest(requests[i])
              /\ requests[i] = [size |-> requests[i].size,
                                marked |-> requests[i].marked,
                                complete |-> requests[i].complete,
                                header |-> requests[i].header]
    PROVE  Discloses(RequestSection(requests), n, RequestBudget, RequestsMark)
<1> DEFINE section == RequestSection(requests)
           rooms == EntryLimits(RequestBudget - (n - 1), n)
           room == (RequestBudget - (n - 1)) \div n
<1>0. RequestBudget \in Nat /\ RequestsMark \in Nat /\ RequestsMark <= RequestBudget
      /\ IdentityRoom \in Nat
  BY PromptAssumption
<1> DEFINE none == <<>>
<1>00. Lines(none, Len(none)) = 0
  <2> DEFINE z == Len(none)
  <2>1. z = 0 /\ z \in Nat
    OBVIOUS
  <2>2. \A i \in 1..z : none[i].size \in Nat
    BY <2>1
  <2> HIDE DEF z, none
  <2>3. Lines(none, z) = 0
    BY <2>1, <2>2, LinesFacts
  <2> QED BY <2>3 DEF z
<1>1. CASE n = 0
  <2>1. section = [shown |-> <<>>, omitted |-> 0, mark |-> 0]
    BY <1>1 DEF RequestSection
  <2>2. SectionSize(section) = 0
    BY <1>00, <2>1 DEF SectionSize
  <2> HIDE DEF section
  <2> QED BY <1>0, <1>1, <2>1, <2>2 DEF Discloses, section
<1> DEFINE replaced == \/ n - 1 > RequestBudget
                       \/ room < IdentityRoom
                       \/ \E i \in 1..n : requests[i].header + IdentityRoom > room
<1>2. CASE n # 0 /\ replaced
  <2>1. section = [shown |-> <<>>, omitted |-> n, mark |-> RequestsMark]
    BY <1>2 DEF RequestSection
  <2>2. SectionSize(section) = RequestsMark
    BY <1>0, <1>00, <1>2, <2>1 DEF SectionSize
  <2> HIDE DEF section
  <2> QED BY <1>0, <2>1, <2>2 DEF Discloses, section
<1>3. CASE n # 0 /\ ~replaced
  <2> DEFINE texts == [i \in 1..n |-> Shortened(requests[i], rooms[i])]
             sizes == [i \in 1..n |-> texts[i].size]
  <2>1. section = [shown |-> texts, omitted |-> 0, mark |-> 0]
    BY <1>3 DEF RequestSection
  <2> DEFINE b == RequestBudget - (n - 1)
  <2>2. b \in Nat /\ n \in Nat \ {0}
    BY <1>0, <1>3
  <2>3. rooms \in [1..n -> Nat] /\ Total(rooms) = b
    <3> HIDE DEF b
    <3>1. EntryLimits(b, n) \in [1..n -> Nat] /\ Total(EntryLimits(b, n)) = b
      BY <2>2, SharesAreAll
    <3> QED BY <3>1 DEF b
  <2>4. \A i \in 1..n : room <= rooms[i] /\ room \in Nat
    <3> TAKE i \in 1..n
    <3> HIDE DEF b
    <3>1. EntryLimits(b, n)[i] = (b \div n) + (IF i <= b % n THEN 1 ELSE 0)
      BY DEF EntryLimits
    <3>2. b \div n \in Nat
      BY <2>2, ShareFacts
    <3> DEFINE d == b \div n
    <3>3. d \in Nat /\ EntryLimits(b, n)[i] = d + (IF i <= b % n THEN 1 ELSE 0)
      BY <3>1, <3>2
    <3> HIDE DEF d
    <3>4. d <= EntryLimits(b, n)[i]
      BY <3>3
    <3> QED BY <3>3, <3>4 DEF d, b
  <2>5. \A i \in 1..n : requests[i].header + IdentityRoom <= rooms[i]
    <3> TAKE i \in 1..n
    <3>1. ~(requests[i].header + IdentityRoom > room)
      BY <1>3
    <3>2. requests[i].header \in Nat /\ rooms[i] \in Nat /\ room <= rooms[i]
          /\ room \in Nat
      <4> HIDE DEF rooms, room
      <4> QED BY <2>3, <2>4 DEF IsRequest
    <3> HIDE DEF rooms, room
    <3> QED BY <1>0, <3>1, <3>2
  <2>6. \A i \in 1..n : IsShown(texts[i]) /\ texts[i].size <= rooms[i]
    <3> TAKE i \in 1..n
    <3>1. texts[i] = Shortened(requests[i], rooms[i])
      OBVIOUS
    <3>2. rooms[i] \in Nat
      <4> HIDE DEF rooms
      <4> QED BY <2>3
    <3> HIDE DEF texts, rooms
    <3> QED BY <2>5, <3>1, <3>2, ShortenedFacts
  <2>7. Len(texts) = n /\ DOMAIN texts = 1..n
    OBVIOUS
  <2> HIDE DEF texts, rooms, room
  <2>8. sizes \in [1..n -> Nat] /\ sizes \in [1..n -> Int]
        /\ \A i \in 1..n : sizes[i] <= rooms[i]
    BY <2>6 DEF IsShown
  <2>9. Lines(texts, n) = Total(sizes) + (n - 1)
    <3>1. \A i \in 1..n : texts[i].size \in Nat
      BY <2>6 DEF IsShown
    <3>2. Lines(texts, n) = Total(sizes) + (IF n = 0 THEN 0 ELSE n - 1)
      BY <3>1, LinesFacts
    <3> HIDE DEF sizes
    <3> QED BY <1>3, <3>2
  <2>10. Total(sizes) <= b /\ Total(sizes) \in Nat
    <3> HIDE DEF sizes, b
    <3>1. rooms \in [1..n -> Int]
      BY <2>3
    <3>2. Total(sizes) <= Total(rooms)
      BY <2>8, <3>1, TotalIsMonotone
    <3>3. Total(sizes) \in Nat
      BY <2>8, TotalIsNat
    <3> QED BY <2>3, <3>2, <3>3
  <2>11. Lines(texts, n) <= RequestBudget /\ Lines(texts, n) \in Nat
    <3> DEFINE t == Total(sizes)
    <3>1. Lines(texts, n) = t + (n - 1) /\ t <= RequestBudget - (n - 1) /\ t \in Nat
      BY <2>9, <2>10
    <3> HIDE DEF t
    <3> QED BY <1>0, <2>2, <3>1
  <2>12. SectionSize(section) = Lines(texts, n)
    <3>1. SectionSize(section) = Lines(texts, n) + 0
      BY <2>1, <2>7 DEF SectionSize
    <3> QED BY <2>11, <3>1
  <2> HIDE DEF section
  <2> QED BY <2>1, <2>6, <2>7, <2>11, <2>12 DEF Discloses, section, IsShown
<1> QED BY <1>1, <1>2, <1>3

-----------------------------------------------------------------------------
(* The section of other claims. *)

\* What fits is everything, or it leaves room for the mark.
LEMMA ShownBlocksFacts ==
    ASSUME NEW blocks, NEW n \in Nat, Len(blocks) = n,
           \A i \in 1..n : IsShown(blocks[i])
    PROVE  LET m == ShownBlocks(blocks, ReviewBudget)
           IN  /\ m \in 0..n
               /\ \/ m = n /\ Lines(blocks, m) <= ReviewBudget
                  \/ m < n /\ m = 0
                  \/ m < n /\ Lines(blocks, m) + 1 + OmittedMark <= ReviewBudget
<1> DEFINE fitting == {m \in 1..(n - 1) :
                         Lines(blocks, m) + 1 + OmittedMark <= ReviewBudget}
           T == {0} \cup fitting
<1>1. ShownBlocks(blocks, ReviewBudget)
        = IF Lines(blocks, n) <= ReviewBudget THEN n ELSE Max(T)
  BY DEF ShownBlocks
<1>2. CASE Lines(blocks, n) <= ReviewBudget
  <2>1. ShownBlocks(blocks, ReviewBudget) = n
    BY <1>1, <1>2
  <2> QED BY <1>2, <2>1
<1>3. CASE ~(Lines(blocks, n) <= ReviewBudget)
  <2>1. n # 0
    <3>1. n = 0 => Lines(blocks, n) = 0
      BY LinesFacts DEF IsShown
    <3> QED BY <1>3, <3>1, PromptAssumption
  <2>2. ShownBlocks(blocks, ReviewBudget) = Max(T)
    BY <1>1, <1>3
  <2>3. T \in SUBSET (0..(n - 1)) /\ T # {} /\ n - 1 \in Nat
    BY <2>1
  <2>4. Max(T) \in T
    <3> HIDE DEF T
    <3> DEFINE o == n - 1
    <3>1. o \in Nat /\ T \in SUBSET (0..o) /\ T # {}
      BY <2>3
    <3> HIDE DEF o
    <3> QED BY <3>1, MaxOfNumbers
  <2> DEFINE m == Max(T)
  <2>5. m \in T
    BY <2>4
  <2> HIDE DEF m
  <2>6. /\ m \in 0..n /\ m < n
        /\ m = 0 \/ Lines(blocks, m) + 1 + OmittedMark <= ReviewBudget
    BY <2>1, <2>5
  <2> QED BY <2>2, <2>6 DEF m
<1> QED BY <1>2, <1>3

LEMMA ReviewIsDisclosed ==
    ASSUME NEW K, NEW blocks, blocks \in Seq(K), NEW n \in Nat, Len(blocks) = n,
           \A i \in 1..n : IsShown(blocks[i])
    PROVE  Discloses(BoundedSection(blocks, ReviewBudget), n, ReviewBudget,
                     OmittedMark)
<1> DEFINE section == BoundedSection(blocks, ReviewBudget)
           m == ShownBlocks(blocks, ReviewBudget)
           texts == SubSeq(blocks, 1, m)
           omitted == n - m
           size == Lines(blocks, m)
           joint == IF m = 0 THEN 0 ELSE 1
           room == Less(ReviewBudget, size + joint)
           mark == IF omitted = 0 THEN 0
                   ELSE Least(OmittedMark + OmittedName * omitted, room)
<1>1. section = [shown |-> texts, omitted |-> omitted, mark |-> mark]
  BY DEF BoundedSection
<1>2. /\ m \in 0..n
      /\ \/ m = n /\ size <= ReviewBudget
         \/ m < n /\ m = 0
         \/ m < n /\ size + 1 + OmittedMark <= ReviewBudget
  BY ShownBlocksFacts
<1>3. ReviewBudget \in Nat /\ OmittedMark \in Nat /\ OmittedMark <= ReviewBudget
      /\ OmittedName \in Nat
  BY PromptAssumption
<1> HIDE DEF m
<1>4. \A i \in 1..m : blocks[i].size \in Nat
  BY <1>2 DEF IsShown
<1>5. size \in Nat /\ (m = 0 => size = 0)
  <2>1. m \in Nat
    BY <1>2
  <2> HIDE DEF m
  <2> QED BY <1>4, <2>1, LinesFacts
<1>6. /\ Len(texts) = m /\ DOMAIN texts = 1..m
      /\ \A i \in 1..m : texts[i] = blocks[i]
      /\ texts = <<>> <=> m = 0
  <2>1. /\ texts \in Seq(K) /\ Len(texts) = m
        /\ \A i \in 1..m : texts[i] = blocks[i]
    <3>1. \A i \in 1..m : blocks[i] \in K
      BY <1>2
    <3> QED BY <1>2, <3>1, SubSeqProperties
  <2> HIDE DEF texts
  <2> QED BY <2>1, EmptySeq
<1>7. Lines(texts, m) = size
  <2>1. m \in Nat /\ \A i \in 1..m : texts[i].size = blocks[i].size
    BY <1>2, <1>6
  <2> HIDE DEF texts
  <2> QED BY <2>1, LinesAgree
<1>8. /\ omitted \in Nat
      /\ omitted > 0 => mark >= OmittedMark
      /\ size + (IF omitted = 0 THEN 0 ELSE mark + joint) <= ReviewBudget
  <2> HIDE DEF size
  <2>1. CASE omitted = 0
    BY <1>2, <1>3, <1>5, <2>1
  <2>2. CASE omitted # 0
    <3> DEFINE names == OmittedName * omitted
    <3>1. omitted \in Nat \ {0} /\ m < n
      BY <1>2, <2>2
    <3>2. names \in Nat
      <4> HIDE DEF omitted
      <4> QED BY <1>3, <3>1
    <3>3. size + joint + OmittedMark <= ReviewBudget /\ joint \in Nat
      BY <1>2, <1>3, <1>5, <3>1
    <3>4. mark = Least(OmittedMark + names, room)
      BY <2>2
    <3> HIDE DEF names, omitted, joint, mark
    <3>5. room = ReviewBudget - (size + joint)
      <4>1. CASE ReviewBudget <= size + joint
        <5>1. ReviewBudget = size + joint
          BY <1>3, <1>5, <3>3, <4>1
        <5> QED BY <1>3, <5>1 DEF Less
      <4>2. CASE ~(ReviewBudget <= size + joint)
        BY <4>2 DEF Less
      <4> QED BY <4>1, <4>2
    <3> HIDE DEF room
    <3>6. room \in Nat /\ room >= OmittedMark
      BY <1>3, <1>5, <3>3, <3>5
    <3>7. mark \in Nat /\ mark >= OmittedMark /\ mark <= room
      BY <1>3, <3>2, <3>4, <3>6 DEF Least
    <3> QED BY <1>3, <1>5, <3>1, <3>3, <3>5, <3>6, <3>7
  <2> QED BY <2>1, <2>2
<1> DEFINE last == IF omitted = 0 THEN 0 ELSE mark + joint
<1>9. SectionSize(section) = size + last
  <2>1. SectionSize(section)
          = Lines(texts, Len(texts))
              + (IF omitted = 0 THEN 0
                 ELSE mark + (IF texts = <<>> THEN 0 ELSE 1))
    <3> HIDE DEF texts, omitted, mark
    <3> QED BY <1>1 DEF SectionSize
  <2>2. (IF texts = <<>> THEN 0 ELSE 1) = joint
    BY <1>6
  <2> HIDE DEF texts, omitted, mark, size
  <2> QED BY <1>6, <1>7, <2>1, <2>2
<1>10. \A i \in DOMAIN texts : texts[i].marked # texts[i].complete
  <2>1. m \in 0..n
    BY <1>2
  <2> HIDE DEF texts
  <2> QED BY <1>6, <2>1 DEF IsShown
<1>11. Len(texts) + omitted = n
  <2> HIDE DEF texts
  <2> QED BY <1>2, <1>6
<1> HIDE DEF texts, omitted, mark, section, size
<1> QED BY <1>1, <1>8, <1>9, <1>10, <1>11 DEF Discloses, section

-----------------------------------------------------------------------------
(* Text is lost only with a mark. *)

LEMMA OpenBlocksAreDisclosed ==
    ASSUME Listed, histories \in [Candidate -> Histories]
    PROVE  LET open == ToSet(HostOrder)
               n == Len(HostOrder)
           IN  /\ \A s \in Additions :
                     Discloses(Requests(HostOrder, open, s), n, RequestBudget,
                               RequestsMark)
               /\ Discloses(Review(HostOrder, {}), n, ReviewBudget, OmittedMark)
<1> DEFINE order == HostOrder
           open == ToSet(order)
           n == Len(order)
<1>1. order \in Seq(Candidate)
  BY OrderFacts
<1> HIDE DEF order
<1>2. /\ n \in Nat /\ DOMAIN order = 1..n
      /\ \A i \in 1..n : order[i] \in Candidate /\ order[i] \in open
  BY <1>1 DEF ToSet
<1>3. Picked(order, open) = order /\ Picked(order, open \ {}) = order
  <2>1. open \ {} = open
    OBVIOUS
  <2> HIDE DEF open
  <2>2. Picked(order, open) = order
    BY <1>1, <1>2, PickedAll
  <2> QED BY <2>1, <2>2
<1> HIDE DEF n
<1>4. ASSUME NEW s \in Additions
      PROVE  Discloses(Requests(order, open, s), n, RequestBudget, RequestsMark)
  <2> DEFINE requests == [i \in DOMAIN order |-> Request(order[i], s)]
  <2>1. Requests(order, open, s) = RequestSection(requests)
    BY <1>3 DEF Requests
  <2>2. requests = [i \in 1..n |-> Request(order[i], s)]
    BY <1>2
  <2>3. Len(requests) = n /\ \A i \in 1..n : requests[i] = Request(order[i], s)
    BY <1>2, <2>2
  <2>4. ASSUME NEW i \in 1..n
        PROVE  /\ IsRequest(requests[i])
               /\ requests[i] = [size |-> requests[i].size,
                                 marked |-> requests[i].marked,
                                 complete |-> requests[i].complete,
                                 header |-> requests[i].header]
    <3> DEFINE k == order[i]
               block == AgentBlock(k, s)
    <3>1. k \in Candidate
      BY <1>2
    <3> HIDE DEF k
    <3>2. /\ Disclosed(block, AgentLimit - SuffixSize(s)) /\ SuffixSize(s) \in Nat
      BY <3>1, AgentBlockFacts
    <3>3. histories[k].header \in Nat
      BY <3>1, HistoryFacts
    <3>4. Request(k, s)
            = [size |-> block.size + SuffixSize(s), marked |-> block.marked,
               complete |-> block.complete, header |-> histories[k].header]
      BY DEF Request
    <3> HIDE DEF block, requests
    <3>5. requests[i] = Request(k, s)
      BY <2>3 DEF k
    <3>6. IsRequest(requests[i])
      BY <3>2, <3>3, <3>4, <3>5 DEF IsRequest, IsShown, Disclosed
    <3> QED BY <3>4, <3>5, <3>6
  <2> HIDE DEF requests
  <2>5. Discloses(RequestSection(requests), n, RequestBudget, RequestsMark)
    BY <1>2, <2>3, <2>4, RequestsAreDisclosed
  <2> QED BY <2>1, <2>5
<1>5. Discloses(Review(order, {}), n, ReviewBudget, OmittedMark)
  <2> DEFINE blocks == [i \in DOMAIN order |-> AgentBlock(order[i], 0)]
             K == {AgentBlock(k, 0) : k \in Candidate}
  <2>1. Review(order, {}) = BoundedSection(blocks, ReviewBudget)
    BY <1>3 DEF Review
  <2>2. \A i \in 1..n : /\ blocks[i] = AgentBlock(order[i], 0)
                        /\ blocks[i] \in K
    BY <1>2
  <2>3. blocks \in Seq(K) /\ Len(blocks) = n
    <3>1. blocks \in [1..n -> K]
      BY <1>2
    <3> HIDE DEF blocks, K
    <3> QED BY <1>2, <3>1
  <2>4. \A i \in 1..n : IsShown(blocks[i])
    <3> TAKE i \in 1..n
    <3> DEFINE k == order[i]
    <3>1. k \in Candidate /\ 0 \in Additions \cup {0}
      BY <1>2
    <3>2. blocks[i] = AgentBlock(k, 0)
      BY <2>2
    <3> HIDE DEF k, blocks
    <3>3. Disclosed(AgentBlock(k, 0), AgentLimit - SuffixSize(0))
      BY <3>1, AgentBlockFacts
    <3> QED BY <3>2, <3>3 DEF IsShown, Disclosed
  <2> HIDE DEF blocks, K
  <2>5. Discloses(BoundedSection(blocks, ReviewBudget), n, ReviewBudget, OmittedMark)
    BY <1>2, <2>3, <2>4, ReviewIsDisclosed
  <2> QED BY <2>1, <2>5
<1> HIDE DEF open
<1> QED BY <1>4, <1>5 DEF order, open, n

\* The histories are those of the candidates, as soon as there are any.
HistoriesKnown == histories = <<>> \/ \E T : histories \in [T -> Histories]

LEMMA HistoriesStay == HistoriesKnown /\ [Next]_vars => HistoriesKnown'
<1> SUFFICES ASSUME HistoriesKnown, [Next]_vars PROVE HistoriesKnown'
  OBVIOUS
<1>1. CASE UNCHANGED histories
  BY <1>1 DEF HistoriesKnown
<1>2. CASE AskHost
  BY <1>2 DEF AskHost, BeginBatches, HistoriesKnown
<1> QED
  BY <1>1, <1>2 DEF Next, Merge, SaveClaims, FillBatches, Batched, SkipClaim,
     AddToBatch, NextBatch, FinishBatches, vars, batchVars

\* A block that is cut tells the Host to continue, and one that is complete
\* does not; the sections of an agent's prompt keep their budgets and say what
\* they leave out, and the summary of all candidates says when it is not whole:
\* for all claims, histories, limits and budgets.
THEOREM LossIsMarkedHolds == Spec => []LossIsMarked
<1> DEFINE Inv == Listed /\ Batching /\ HistoriesKnown
<1>1. Init => Inv
  <2>1. Init => Batching /\ HistoriesKnown
    BY DEF Init, TargetsInit, BatchesInit, Batching, NoBatches, HistoriesKnown
  <2> QED BY <2>1, ListedInitially DEF AnswersInv
<1>2. Inv /\ [Next]_vars => Inv'
  BY ListedStep, BatchingStep, HistoriesStay
<1>3. Inv => LossIsMarked
  <2> SUFFICES ASSUME Inv PROVE LossIsMarked
    OBVIOUS
  <2>1. ASSUME NEW k \in DOMAIN histories
        PROVE  Block(k).size <= BlockLimit /\ Block(k).marked # Block(k).complete
    <3>1. PICK T : histories \in [T -> Histories]
      BY <2>1 DEF HistoriesKnown
    <3>2. k \in T
      BY <2>1, <3>1
    <3>3. Disclosed(Block(k), BlockLimit)
      BY <3>1, <3>2, BlockFacts
    <3> QED BY <3>3 DEF Disclosed
  <2>2. ASSUME stage = "batched"
        PROVE  LET open == ToSet(HostOrder)
                   n == Len(HostOrder)
               IN  /\ \A from \in 2..3 :
                         LET context == GlobalContext(HostOrder, from)
                         IN  /\ context.size <= ContextLimit
                             /\ context.truncated
                                  \/ context.size = WholeContext(HostOrder, from)
                   /\ \A s \in Additions :
                         Discloses(Requests(HostOrder, open, s), n, RequestBudget,
                                   RequestsMark)
                   /\ Discloses(Review(HostOrder, {}), n, ReviewBudget, OmittedMark)
    <3>1. histories \in [Candidate -> Histories]
      BY <2>2 DEF Batching, Filling
    <3>2. HostOrder \in Seq(Candidate)
      BY OrderFacts
    <3>3. \A from \in 2..3 :
             LET context == GlobalContext(HostOrder, from)
             IN  /\ context.size <= ContextLimit
                 /\ context.truncated
                      \/ context.size = WholeContext(HostOrder, from)
      BY <3>1, <3>2, ContextIsDisclosed
    <3> QED BY <3>1, <3>3, OpenBlocksAreDisclosed
  <2> QED BY <2>1, <2>2 DEF LossIsMarked
<1> QED BY <1>1, <1>2, <1>3, PTL DEF Spec

-----------------------------------------------------------------------------
(* Texts that several claims are named in.  A part of a text is given by   *)
(* the places of its first and its last character.                         *)

\* A part of a part is a part.
LEMMA PartOfPart ==
    ASSUME NEW C, NEW t, t \in Seq(C), NEW a \in 1..(Len(t) + 1), NEW b \in 0..Len(t),
           a <= b + 1,
           NEW x \in Nat \ {0}, NEW y \in Nat, x <= y + 1, y <= b - a + 1
    PROVE  SubSeq(SubSeq(t, a, b), x, y) = SubSeq(t, x + a - 1, y + a - 1)
<1> DEFINE n == Len(t)
           s == SubSeq(t, a, b)
           u == SubSeq(s, x, y)
           c == x + a - 1
           d == y + a - 1
           v == SubSeq(t, c, d)
<1>1. /\ n \in Nat /\ a \in Nat /\ b \in Nat /\ a <= b + 1 /\ b <= n
      /\ \A i \in 1..n : t[i] \in C
  OBVIOUS
<1> HIDE DEF n
<1>2. /\ s \in Seq(C) /\ Len(s) = b - a + 1
      /\ \A i \in 1..Len(s) : s[i] = t[a + i - 1]
  <2>1. \A i \in a..b : t[i] \in C
    BY <1>1
  <2>2. Len(s) = IF a <= b THEN b - a + 1 ELSE 0
    BY <1>1, <2>1, SubSeqProperties DEF n
  <2> QED BY <1>1, <2>1, <2>2, SubSeqProperties DEF n
<1>3. /\ u \in Seq(C) /\ Len(u) = y - x + 1
      /\ \A i \in 1..Len(u) : u[i] = s[x + i - 1]
  <2> HIDE DEF s
  <2>1. y <= Len(s) /\ Len(s) \in Nat /\ \A i \in 1..Len(s) : s[i] \in C
    BY <1>2
  <2>2. \A i \in x..y : s[i] \in C
    BY <2>1
  <2>3. Len(u) = IF x <= y THEN y - x + 1 ELSE 0
    BY <1>2, <2>1, <2>2, SubSeqProperties
  <2> QED BY <1>2, <2>1, <2>2, <2>3, SubSeqProperties
<1>4. c \in Nat \ {0} /\ d \in Nat /\ c <= d + 1 /\ d <= n
  BY <1>1
<1>5. /\ v \in Seq(C) /\ Len(v) = d - c + 1
      /\ \A i \in 1..Len(v) : v[i] = t[c + i - 1]
  <2> HIDE DEF c, d
  <2>1. \A i \in c..d : t[i] \in C
    BY <1>1, <1>4
  <2>2. Len(v) = IF c <= d THEN d - c + 1 ELSE 0
    BY <1>1, <1>4, <2>1, SubSeqProperties DEF n
  <2> QED BY <1>1, <1>4, <2>1, <2>2, SubSeqProperties DEF n
<1> HIDE DEF s, u, v
<1>6. Len(u) = Len(v) /\ Len(u) \in Nat
  BY <1>1, <1>3, <1>5
<1>7. \A i \in 1..Len(u) : u[i] = v[i]
  <2> TAKE i \in 1..Len(u)
  <2>1. x + i - 1 \in 1..Len(s)
    BY <1>1, <1>2, <1>3
  <2>2. a + (x + i - 1) - 1 = c + i - 1
    BY <1>1
  <2>3. u[i] = s[x + i - 1] /\ s[x + i - 1] = t[a + (x + i - 1) - 1]
    BY <1>2, <1>3, <2>1
  <2>4. v[i] = t[c + i - 1]
    BY <1>5, <1>6
  <2> QED BY <2>2, <2>3, <2>4
<1>8. u = v
  BY <1>3, <1>5, <1>6, <1>7, SeqEqual
<1> QED BY <1>8 DEF u, v, s, c, d

\* The characters of a part that are not blank, and the part without the blanks
\* around them.
Solid(t, a, b) == {i \in a..b : t[i] # Blank}
First(S) == CHOOSE i \in S : \A j \in S : i <= j
Final(S) == CHOOSE i \in S : \A j \in S : j <= i
Trimmed(t, a, b) ==
    LET S == Solid(t, a, b)
    IN  IF S = {} THEN <<>> ELSE SubSeq(t, First(S), Final(S))

LEMMA Extremes ==
    ASSUME NEW n \in Nat, NEW S \in SUBSET (0..n), S # {}
    PROVE  /\ First(S) \in S /\ \A j \in S : First(S) <= j
           /\ Final(S) \in S /\ \A j \in S : j <= Final(S)
<1>1. \E i \in S : \A j \in S : i <= j
  <2>1. S \in SUBSET Nat
    OBVIOUS
  <2> QED BY <2>1, LeastNatural
<1>2. Max(S) \in S /\ \A j \in S : Max(S) >= j
  BY MaxOfNumbers
<1>3. \A j \in S : j <= Max(S)
  BY <1>2
<1>4. \E i \in S : \A j \in S : j <= i
  BY <1>2, <1>3
<1> QED BY <1>1, <1>4 DEF First, Final

LEMMA StripIsTrimmed ==
    ASSUME NEW C, NEW t, t \in Seq(C), NEW a \in 1..(Len(t) + 1), NEW b \in 0..Len(t),
           a <= b + 1
    PROVE  Strip(SubSeq(t, a, b)) = Trimmed(t, a, b)
<1> DEFINE n == Len(t)
           s == SubSeq(t, a, b)
           S == {i \in DOMAIN s : s[i] # Blank}
           T == Solid(t, a, b)
<1>1. /\ n \in Nat /\ a \in Nat \ {0} /\ b \in Nat /\ a <= b + 1 /\ b <= n
      /\ \A i \in 1..n : t[i] \in C
  OBVIOUS
<1> HIDE DEF n
<1>2. /\ s \in Seq(C) /\ Len(s) = b - a + 1
      /\ \A i \in 1..Len(s) : s[i] = t[a + i - 1]
  <2>1. \A i \in a..b : t[i] \in C
    BY <1>1
  <2>2. Len(s) = IF a <= b THEN b - a + 1 ELSE 0
    BY <1>1, <2>1, SubSeqProperties DEF n
  <2> QED BY <1>1, <2>1, <2>2, SubSeqProperties DEF n
<1>3. Strip(s) = IF S = {} THEN <<>> ELSE SubSeq(s, First(S), Final(S))
  BY DEF Strip, First, Final
<1>4. DOMAIN s = 1..Len(s) /\ Len(s) \in Nat
  <2> HIDE DEF s
  <2> QED BY <1>2
<1> HIDE DEF s
<1>5. \A i \in S : i \in 1..Len(s) /\ a + i - 1 \in T
  BY <1>1, <1>2, <1>4 DEF Solid
<1>6. \A j \in T : j \in a..b /\ j - a + 1 \in S
  <2> TAKE j \in T
  <2>1. j \in a..b /\ t[j] # Blank
    BY DEF Solid
  <2> DEFINE i == j - a + 1
  <2>2. i \in 1..Len(s) /\ a + i - 1 = j
    BY <1>1, <1>2, <2>1
  <2> HIDE DEF i
  <2>3. i \in S
    BY <1>2, <1>4, <2>1, <2>2
  <2> QED BY <2>1, <2>3 DEF i
<1>7. CASE S = {}
  <2>1. T = {}
    BY <1>6, <1>7
  <2> QED BY <1>3, <1>7, <2>1 DEF Trimmed, s
<1>8. CASE S # {}
  <2>1. T # {} /\ S \in SUBSET (0..Len(s)) /\ T \in SUBSET (0..n)
    BY <1>1, <1>4, <1>5, <1>6, <1>8
  <2> HIDE DEF S, T
  <2> DEFINE f == First(S)
             l == Final(S)
             g == First(T)
             m == Final(T)
  <2>2. /\ f \in S /\ l \in S /\ \A i \in S : f <= i /\ i <= l
        /\ g \in T /\ m \in T /\ \A i \in T : g <= i /\ i <= m
    BY <1>1, <1>4, <1>8, <2>1, Extremes
  <2> HIDE DEF f, l, g, m
  <2>3. /\ f \in 1..Len(s) /\ l \in 1..Len(s) /\ g \in a..b /\ m \in a..b
        /\ f <= l
    BY <1>5, <1>6, <2>2
  <2>4. a + f - 1 = g
    <3>1. g <= a + f - 1
      BY <1>5, <2>2
    <3>2. f <= g - a + 1
      BY <1>6, <2>2
    <3> QED BY <1>1, <2>3, <3>1, <3>2
  <2>5. a + l - 1 = m
    <3>1. a + l - 1 <= m
      BY <1>5, <2>2
    <3>2. m - a + 1 <= l
      BY <1>6, <2>2
    <3> QED BY <1>1, <2>3, <3>1, <3>2
  <2>6. SubSeq(s, f, l) = SubSeq(t, f + a - 1, l + a - 1)
    <3>1. f \in Nat \ {0} /\ l \in Nat /\ f <= l + 1 /\ l <= b - a + 1
      BY <1>2, <1>4, <2>3
    <3> QED BY <3>1, PartOfPart DEF s, n
  <2>7. f + a - 1 = g /\ l + a - 1 = m
    BY <1>1, <2>3, <2>4, <2>5
  <2>8. Strip(s) = SubSeq(s, f, l) /\ Trimmed(t, a, b) = SubSeq(t, g, m)
    BY <1>3, <1>8, <2>1 DEF Trimmed, f, l, g, m, T
  <2> QED BY <2>6, <2>7, <2>8 DEF s
<1> QED BY <1>7, <1>8

\* Blanks in front do not count.
LEMMA TrimmedBehindBlanks ==
    ASSUME NEW t, NEW a \in Nat, NEW c \in Nat, NEW b \in Int, a <= c,
           \A i \in a..(c - 1) : t[i] = Blank
    PROVE  Trimmed(t, a, b) = Trimmed(t, c, b)
<1>1. Solid(t, a, b) = Solid(t, c, b)
  <2>1. ASSUME NEW i \in a..b, t[i] # Blank PROVE i \in c..b
    <3>1. i \notin a..(c - 1)
      BY <2>1
    <3> QED BY <3>1
  <2>2. \A i \in c..b : i \in a..b
    OBVIOUS
  <2> QED BY <2>1, <2>2 DEF Solid
<1> QED BY <1>1 DEF Trimmed

\* A piece of a text is between two places where it is cut.
Cuts(t) == {0, Len(t) + 1} \cup {i \in 1..Len(t) : t[i] \in Separators}

IsPiece(t, a, b) ==
    /\ a \in Cuts(t) /\ b \in Cuts(t) /\ a < b
    /\ \A i \in Cuts(t) : ~(a < i /\ i < b)

LEMMA CutsFacts ==
    ASSUME NEW C, NEW t, t \in Seq(C)
    PROVE  Cuts(t) \in SUBSET (0..(Len(t) + 1)) /\ Len(t) \in Nat
<1>1. Len(t) \in Nat
  OBVIOUS
<1> QED BY <1>1 DEF Cuts

LEMMA SplitIsPieces ==
    ASSUME NEW C, NEW t, t \in Seq(C)
    PROVE  /\ \A piece \in Split(t, Separators) :
                 \E a, b \in Cuts(t) : IsPiece(t, a, b) /\ piece = SubSeq(t, a + 1, b - 1)
           /\ \A a, b \in Cuts(t) :
                 IsPiece(t, a, b) => SubSeq(t, a + 1, b - 1) \in Split(t, Separators)
<1> DEFINE at == Cuts(t)
           P == {q \in at \X at : /\ q[1] < q[2]
                                  /\ \A i \in at : ~(q[1] < i /\ i < q[2])}
<1>1. DOMAIN t = 1..Len(t)
  OBVIOUS
<1>2. {0, Len(t) + 1} \cup {i \in DOMAIN t : t[i] \in Separators} = at
  BY <1>1 DEF Cuts
<1>3. Split(t, Separators) = {SubSeq(t, p[1] + 1, p[2] - 1) : p \in P}
  BY <1>2 DEF Split
<1>4. \A a, b \in at : IsPiece(t, a, b) <=> <<a, b>> \in P
  BY DEF IsPiece
<1> HIDE DEF at
<1>5. \A p \in P : p[1] \in at /\ p[2] \in at /\ p = <<p[1], p[2]>>
  OBVIOUS
<1> HIDE DEF P
<1>6. ASSUME NEW piece \in Split(t, Separators)
      PROVE  \E a, b \in at : IsPiece(t, a, b) /\ piece = SubSeq(t, a + 1, b - 1)
  <2>1. PICK p \in P : piece = SubSeq(t, p[1] + 1, p[2] - 1)
    BY <1>3
  <2>2. p[1] \in at /\ p[2] \in at /\ IsPiece(t, p[1], p[2])
    BY <1>4, <1>5
  <2> QED BY <2>1, <2>2
<1>7. ASSUME NEW a \in at, NEW b \in at, IsPiece(t, a, b)
      PROVE  SubSeq(t, a + 1, b - 1) \in Split(t, Separators)
  <2>1. <<a, b>> \in P
    BY <1>4, <1>7
  <2> DEFINE p == <<a, b>>
  <2>2. p[1] = a /\ p[2] = b /\ p \in P
    BY <2>1
  <2> HIDE DEF p
  <2>3. SubSeq(t, p[1] + 1, p[2] - 1) \in Split(t, Separators)
    BY <1>3, <2>2
  <2> QED BY <2>2, <2>3
<1> QED BY <1>6, <1>7 DEF at

\* The texts of the pieces.
LEMMA PieceFacts ==
    ASSUME NEW C, NEW t, t \in Seq(C), NEW a, NEW b, IsPiece(t, a, b)
    PROVE  /\ a \in 0..Len(t) /\ b \in 1..(Len(t) + 1) /\ a < b
           /\ Strip(SubSeq(t, a + 1, b - 1)) = Trimmed(t, a + 1, b - 1)
           /\ SubSeq(t, a + 1, b - 1) \in Split(t, Separators)
<1>1. /\ a \in Cuts(t) /\ b \in Cuts(t) /\ a < b
      /\ a \in 0..(Len(t) + 1) /\ b \in 0..(Len(t) + 1) /\ Len(t) \in Nat
  BY CutsFacts DEF IsPiece
<1>2. a \in 0..Len(t) /\ b \in 1..(Len(t) + 1)
  BY <1>1
<1>3. a + 1 \in 1..(Len(t) + 1) /\ b - 1 \in 0..Len(t) /\ a + 1 <= (b - 1) + 1
  BY <1>1
<1>4. Strip(SubSeq(t, a + 1, b - 1)) = Trimmed(t, a + 1, b - 1)
  BY <1>3, StripIsTrimmed
<1>5. SubSeq(t, a + 1, b - 1) \in Split(t, Separators)
  BY <1>1, SplitIsPieces
<1> QED BY <1>1, <1>2, <1>4, <1>5

\* A keyword that stands in a text, behind blanks or a separator and in front
\* of a separator, has the pieces of the text that it covers.
BlankIn(t, a, b) == \A i \in a..b : t[i] = Blank

LEMMA KeywordHasPieces ==
    ASSUME NEW C, NEW t, t \in Seq(C), NEW k, k \in Seq(C),
           NEW p \in 1..(Len(t) + 1), p + Len(k) - 1 <= Len(t),
           SubSeq(t, p, p + Len(k) - 1) = k,
           NEW a, NEW b, IsPiece(t, a, b), p <= b, b <= p + Len(k),
           a < p => BlankIn(t, a + 1, p - 1)
    PROVE  \E part \in Split(k, Separators) : Trimmed(t, a + 1, b - 1) = Strip(part)
<1> DEFINE n == Len(t)
           m == Len(k)
           e == p + m - 1
           x == IF a < p THEN 0 ELSE a - p + 1
           y == b - p + 1
           part == SubSeq(k, x + 1, y - 1)
<1>1. /\ n \in Nat /\ m \in Nat /\ p \in 1..(n + 1) /\ e \in 0..n /\ p <= e + 1
      /\ a \in 0..n /\ b \in 1..(n + 1) /\ a < b /\ p <= b /\ b <= e + 1
      /\ e - p + 1 = m
  <2>1. n \in Nat /\ m \in Nat
    OBVIOUS
  <2> QED BY <2>1, PieceFacts
<1>2. \A i \in 1..m : k[i] = t[p + i - 1]
  <2>1. \A i \in 1..n : t[i] \in C
    OBVIOUS
  <2> HIDE DEF n, m
  <2>2. \A i \in p..e : t[i] \in C
    BY <1>1, <2>1
  <2>3. \A i \in 1..Len(SubSeq(t, p, e)) : SubSeq(t, p, e)[i] = t[p + i - 1]
    <3> HIDE DEF e
    <3>1. e \in Nat /\ p \in Nat
      BY <1>1
    <3> QED BY <1>1, <2>2, <3>1, SubSeqProperties
  <2> QED BY <2>3 DEF e, m
<1> HIDE DEF e
<1>3. /\ x \in 0..m /\ y \in 1..(m + 1) /\ x < y
  <2> HIDE DEF n, m
  <2>1. CASE a < p
    BY <1>1, <2>1
  <2>2. CASE ~(a < p)
    BY <1>1, <2>2
  <2> QED BY <2>1, <2>2
<1>4. \A i \in 1..m : i \in Cuts(k) <=> p + i - 1 \in Cuts(t)
  <2> TAKE i \in 1..m
  <2>1. k[i] = t[p + i - 1]
    BY <1>2
  <2>2. i # 0 /\ i # m + 1 /\ p + i - 1 \in 1..n /\ p + i - 1 # n + 1 /\ p + i - 1 # 0
    <3> HIDE DEF n, m
    <3> QED BY <1>1
  <2> QED BY <2>1, <2>2 DEF Cuts
<1>5. 0 \in Cuts(k) /\ m + 1 \in Cuts(k) /\ \A i \in Cuts(k) : i \in 0..(m + 1)
  BY CutsFacts DEF Cuts
<1>6. a \in Cuts(t) /\ b \in Cuts(t) /\ \A i \in Cuts(t) : ~(a < i /\ i < b)
  BY DEF IsPiece
<1>7. x \in Cuts(k)
  <2>1. CASE a < p
    BY <1>5, <2>1
  <2>2. CASE ~(a < p)
    <3>1. x \in 1..m /\ p + x - 1 = a
      <4> HIDE DEF n, m
      <4> QED BY <1>1, <1>3, <2>2
    <3> HIDE DEF x
    <3> QED BY <1>4, <1>6, <3>1
  <2> QED BY <2>1, <2>2
<1>8. y \in Cuts(k)
  <2>1. CASE y = m + 1
    BY <1>5, <2>1
  <2>2. CASE y # m + 1
    <3>1. y \in 1..m /\ p + y - 1 = b
      <4> HIDE DEF n, m
      <4> QED BY <1>1, <1>3, <2>2
    <3> HIDE DEF y
    <3> QED BY <1>4, <1>6, <3>1
  <2> QED BY <2>1, <2>2
<1>9. \A i \in Cuts(k) : ~(x < i /\ i < y)
  <2> SUFFICES ASSUME NEW i \in Cuts(k), x < i, i < y PROVE FALSE
    OBVIOUS
  <2>1. i \in 1..m
    <3> HIDE DEF x, y, n, m
    <3> QED BY <1>1, <1>3, <1>5
  <2>2. a < p + i - 1 /\ p + i - 1 < b
    <3> HIDE DEF n, m
    <3>1. CASE a < p
      BY <1>1, <2>1, <3>1
    <3>2. CASE ~(a < p)
      BY <1>1, <2>1, <3>2
    <3> QED BY <3>1, <3>2
  <2> QED BY <1>4, <1>6, <2>1, <2>2
<1>10. IsPiece(k, x, y)
  BY <1>3, <1>7, <1>8, <1>9 DEF IsPiece
<1>11. part \in Split(k, Separators)
  <2> HIDE DEF x, y
  <2> QED BY <1>10, PieceFacts
<1> DEFINE c == x + p
           d == y + p - 2
<1>12. part = SubSeq(t, c, d)
  <2>1. k = SubSeq(t, p, e)
    BY DEF e
  <2> HIDE DEF x, y, n, m
  <2>2. /\ x + 1 \in Nat \ {0} /\ y - 1 \in Nat /\ x + 1 <= (y - 1) + 1
        /\ y - 1 <= e - p + 1
    BY <1>1, <1>3
  <2>3. p \in 1..(Len(t) + 1) /\ e \in 0..Len(t) /\ p <= e + 1
    BY <1>1 DEF n
  <2> DEFINE v == x + 1
             w == y - 1
  <2>4. v \in Nat \ {0} /\ w \in Nat /\ v <= w + 1 /\ w <= e - p + 1
    BY <2>2
  <2>5. v + p - 1 = c /\ w + p - 1 = d
    BY <1>1, <1>3
  <2> HIDE DEF v, w, c, d
  <2>6. SubSeq(SubSeq(t, p, e), v, w) = SubSeq(t, v + p - 1, w + p - 1)
    BY <2>3, <2>4, PartOfPart
  <2> QED BY <2>1, <2>5, <2>6 DEF v, w
<1>13. d = b - 1 /\ c <= d + 1 /\ c \in 1..(n + 1) /\ d \in 0..n
       /\ a + 1 <= c
       /\ \A i \in (a + 1)..(c - 1) : t[i] = Blank
  <2>1. CASE a < p
    <3>1. c = p
      <4> HIDE DEF n, m
      <4> QED BY <1>1, <2>1
    <3>2. d = b - 1
      <4> HIDE DEF n, m, x
      <4> QED BY <1>1
    <3>3. \A i \in (a + 1)..(p - 1) : t[i] = Blank
      BY <2>1 DEF BlankIn
    <3> HIDE DEF c, d, n, m
    <3> QED BY <1>1, <2>1, <3>1, <3>2, <3>3
  <2>2. CASE ~(a < p)
    <3>1. c = a + 1 /\ d = b - 1
      <4> HIDE DEF n, m
      <4> QED BY <1>1, <2>2
    <3> HIDE DEF c, d, n, m
    <3> QED BY <1>1, <2>2, <3>1
  <2> QED BY <2>1, <2>2
<1> HIDE DEF c, d, part, x, y, n, m
<1>14. Strip(part) = Trimmed(t, c, d)
  <2>1. c \in 1..(Len(t) + 1) /\ d \in 0..Len(t) /\ c <= d + 1
    BY <1>13 DEF n
  <2>2. Strip(SubSeq(t, c, d)) = Trimmed(t, c, d)
    BY <2>1, StripIsTrimmed
  <2> QED BY <1>12, <2>2
<1>15. Trimmed(t, a + 1, d) = Trimmed(t, c, d)
  <2> DEFINE f == a + 1
  <2>1. /\ f \in Nat /\ c \in Nat /\ d \in Int /\ f <= c
        /\ \A i \in f..(c - 1) : t[i] = Blank
    BY <1>1, <1>13
  <2> HIDE DEF f
  <2>2. Trimmed(t, f, d) = Trimmed(t, c, d)
    BY <2>1, TrimmedBehindBlanks
  <2> QED BY <2>2 DEF f
<1>16. Trimmed(t, a + 1, b - 1) = Strip(part)
  BY <1>13, <1>14, <1>15
<1> QED BY <1>11, <1>16

-----------------------------------------------------------------------------
(* The scan of a response. *)

IsText(t) == t \in Seq(STRING)

\* Some claim that was found has this piece of the target.
Covered(a, b) ==
    \E k \in matched : \E part \in Split(k, Separators) :
        Trimmed(target, a + 1, b - 1) = Strip(part)

Reported(a, b) ==
    /\ Trimmed(target, a + 1, b - 1) \in unmatched
    /\ Trimmed(target, a + 1, b - 1) \notin known \/ target[b - 1] = Blank

Lands(a, b) ==
    Trimmed(target, a + 1, b - 1) = <<>> \/ Covered(a, b) \/ Reported(a, b)

FitsAt(k, q) ==
    LET end == q + Len(k) - 1
    IN  /\ end <= Len(target)
        /\ SubSeq(target, q, end) = k
        /\ end = Len(target) \/ target[end + 1] \in Separators

BlankFrom(a, b) == \A i \in a..b : target[i] = Blank

\* The last place before position where the target is cut.
LastCut(start) ==
    /\ start \in Cuts(target) /\ start < position
    /\ \A i \in Cuts(target) : ~(start < i /\ i < position)

\* The buffer holds what there is of a piece; no keyword stood where it could
\* have been taken.
Unfinished(start) ==
    /\ buffer = SubSeq(target, start + 1, position - 1)
    /\ atBoundary <=> BlankFrom(start + 1, position - 1)
    /\ \A q \in (start + 1)..(position - 1) :
          BlankFrom(start + 1, q - 1) => \A k \in known : ~FitsAt(k, q)

BehindMatch(start) ==
    /\ buffer = <<>> /\ ~atBoundary
    /\ position \in Cuts(target)
    /\ Covered(start, position)

Scanned ==
    /\ IsText(target) /\ \A k \in known : IsText(k)
    /\ matched \subseteq known
    /\ position \in 1..(Len(target) + 1)
    /\ \A a, b \in Cuts(target) :
          IsPiece(target, a, b) /\ b < position => Lands(a, b)
    /\ \E start : LastCut(start) /\ (Unfinished(start) \/ BehindMatch(start))

\* The buffer at the end of a piece.
LEMMA PieceIsKept ==
    ASSUME Scanned, NEW start, LastCut(start), Unfinished(start),
           position \in Cuts(target)
    PROVE  /\ Flushed = {Trimmed(target, start + 1, position - 1)} \ {<<>>}
           /\ \/ Trimmed(target, start + 1, position - 1) = <<>>
              \/ Trimmed(target, start + 1, position - 1) \notin known
              \/ target[position - 1] = Blank
<1> DEFINE t == target
           n == Len(t)
           a == start + 1
           b == position - 1
           S == Solid(t, a, b)
           named == Trimmed(t, a, b)
<1>1. /\ n \in Nat /\ start \in 0..n /\ position \in 1..(n + 1) /\ start < position
      /\ IsPiece(t, start, position)
  <2>1. t \in Seq(STRING)
    BY DEF Scanned, IsText
  <2>2. n \in Nat /\ Cuts(t) \in SUBSET (0..(n + 1))
    BY <2>1, CutsFacts
  <2>3. start \in Cuts(t) /\ start < position /\ position \in 1..(n + 1)
    BY DEF LastCut, Scanned
  <2>4. start \in 0..n
    <3>1. start \in 0..(n + 1)
      BY <2>2, <2>3
    <3> HIDE DEF n
    <3> QED BY <2>2, <2>3, <3>1
  <2> QED BY <2>2, <2>3, <2>4 DEF LastCut, IsPiece
<1>2. Strip(buffer) = named
  <2>1. t \in Seq(STRING) /\ buffer = SubSeq(t, a, b)
    BY DEF Scanned, IsText, Unfinished
  <2>2. Strip(SubSeq(t, a, b)) = Trimmed(t, a, b)
    BY <1>1, <2>1, PieceFacts
  <2> QED BY <2>1, <2>2
<1>3. Flushed = {named} \ {<<>>}
  BY <1>2 DEF Flushed
<1>4. ASSUME named # <<>>, named \in known, t[b] # Blank PROVE FALSE
  <2>1. S # {}
    BY <1>4 DEF Trimmed
  <2>2. S \in SUBSET (0..n) /\ a \in Nat \ {0} /\ b \in 0..n
        /\ \A i \in S : i \in a..b /\ t[i] # Blank
    <3> HIDE DEF n
    <3> QED BY <1>1 DEF Solid
  <2>3. b \in S
    <3>1. a <= b
      <4>1. PICK i \in S : TRUE
        BY <2>1
      <4> QED BY <2>2, <4>1
    <3> HIDE DEF n
    <3> QED BY <1>4, <2>2, <3>1 DEF Solid
  <2> DEFINE f == First(S)
             l == Final(S)
  <2>4. f \in S /\ l \in S /\ \A j \in S : f <= j /\ j <= l
    <3> HIDE DEF S, n
    <3> QED BY <1>1, <2>1, <2>2, Extremes
  <2>5. named = SubSeq(t, f, l)
    BY <2>1 DEF Trimmed
  <2> HIDE DEF f, l
  <2>6. l = b
    <3> HIDE DEF S
    <3>1. b <= l /\ l \in a..b
      BY <2>2, <2>3, <2>4
    <3> QED BY <2>2, <3>1
  <2>7. f \in a..b
    BY <2>2, <2>4
  <2>8. BlankFrom(a, f - 1)
    <3> SUFFICES ASSUME NEW i \in a..(f - 1), t[i] # Blank PROVE FALSE
      BY DEF BlankFrom
    <3>1. i \in a..b
      BY <2>2, <2>7
    <3>2. i \in S
      BY <3>1 DEF Solid
    <3>3. f <= i
      BY <2>4, <3>2
    <3> QED BY <2>2, <2>7, <3>3
  <2>9. \A k \in known : ~FitsAt(k, f)
    <3> HIDE DEF S, named
    <3> QED BY <2>7, <2>8 DEF Unfinished
  <2> DEFINE s == SubSeq(t, f, b)
  <2>10. Len(s) = b - f + 1
    <3>1. t \in Seq(STRING)
      BY DEF Scanned, IsText
    <3>2. \A i \in 1..n : t[i] \in STRING
      BY <3>1
    <3> HIDE DEF t, n
    <3>3. \A i \in f..b : t[i] \in STRING
      <4> HIDE DEF a, b, S
      <4>1. n \in Nat /\ a \in Nat \ {0} /\ b \in 0..n /\ f \in a..b
        BY <1>1, <2>2, <2>7
      <4>2. \A i \in f..b : i \in 1..n
        BY <4>1
      <4> QED BY <3>2, <4>2
    <3>4. f \in Nat /\ b \in Nat /\ f <= b
      BY <2>2, <2>7
    <3>5. Len(s) = IF f <= b THEN b - f + 1 ELSE 0
      <4> HIDE DEF b
      <4> QED BY <3>3, <3>4, SubSeqProperties
    <3> QED BY <3>4, <3>5
  <2>11. s \in known
    BY <1>4, <2>5, <2>6
  <2>12. FitsAt(s, f)
    <3> DEFINE e == f + Len(s) - 1
    <3>1. e = b
      <4> HIDE DEF s
      <4> QED BY <2>2, <2>7, <2>10
    <3>2. b = n \/ t[b + 1] \in Separators
      <4>1. position \in Cuts(t) /\ position # 0 /\ b + 1 = position
        BY <1>1
      <4>2. position = n + 1 \/ t[position] \in Separators
        BY <4>1 DEF Cuts
      <4> HIDE DEF n
      <4> QED BY <1>1, <4>1, <4>2
    <3>3. b <= n
      BY <2>2
    <3> HIDE DEF e, b
    <3>4. e <= n /\ SubSeq(t, f, e) = s /\ (e = n \/ t[e + 1] \in Separators)
      BY <3>1, <3>2, <3>3
    <3> HIDE DEF s
    <3> QED BY <3>4 DEF FitsAt, e
  <2> HIDE DEF s
  <2> QED BY <2>9, <2>11, <2>12
<1> HIDE DEF named
<1>5. named = <<>> \/ named \notin known \/ t[b] = Blank
  BY <1>4
<1> QED BY <1>3, <1>5 DEF named

LEMMA EmptyPart ==
    ASSUME NEW C, NEW t, t \in Seq(C), NEW p \in Nat
    PROVE  SubSeq(t, p + 1, p) = <<>>
<1> DEFINE m == p + 1
           s == SubSeq(t, m, p)
<1>1. m \in Nat /\ ~(m <= p) /\ \A i \in m..p : t[i] \in C
  OBVIOUS
<1> HIDE DEF m
<1>2. s \in Seq(C) /\ Len(s) = 0
  BY <1>1, SubSeqProperties
<1> HIDE DEF s
<1>3. s = <<>>
  BY <1>2, EmptySeq
<1> QED BY <1>3 DEF s, m

LEMMA LongerPart ==
    ASSUME NEW C, NEW t, t \in Seq(C), NEW a \in Nat \ {0}, NEW p \in 1..Len(t), a <= p
    PROVE  SubSeq(t, a, p) = Append(SubSeq(t, a, p - 1), t[p])
<1> DEFINE o == p - 1
           s == SubSeq(t, a, o)
           u == SubSeq(t, a, p)
<1>1. /\ o \in Nat /\ o + 1 = p /\ p \in Nat /\ a \in Nat
      /\ \A i \in a..p : t[i] \in C
  <2>1. \A i \in 1..Len(t) : t[i] \in C
    OBVIOUS
  <2> QED BY <2>1
<1>2. \A i \in a..o : t[i] \in C
  BY <1>1
<1> HIDE DEF o
<1>3. /\ s \in Seq(C) /\ Len(s) = (IF a <= o THEN o - a + 1 ELSE 0)
      /\ \A i \in 1..Len(s) : s[i] = t[a + i - 1]
  BY <1>1, <1>2, SubSeqProperties
<1>4. /\ u \in Seq(C) /\ Len(u) = (IF a <= p THEN p - a + 1 ELSE 0)
      /\ \A i \in 1..Len(u) : u[i] = t[a + i - 1]
  BY <1>1, SubSeqProperties
<1> HIDE DEF s, u
<1>5. Len(s) = p - a /\ Len(u) = p - a + 1 /\ p - a \in Nat
  BY <1>1, <1>3, <1>4
<1> DEFINE l == p - a
<1>6. l \in Nat /\ Len(s) = l /\ Len(u) = Len(s) + 1 /\ a + (l + 1) - 1 = p
  BY <1>1, <1>5
<1> HIDE DEF l
<1>7. \A i \in 1..Len(s) : u[i] = s[i]
  BY <1>3, <1>4, <1>6
<1>8. u[Len(s) + 1] = t[p] /\ t[p] \in C
  <2>1. Len(s) + 1 \in 1..Len(u)
    BY <1>6
  <2>2. u[Len(s) + 1] = t[a + (Len(s) + 1) - 1]
    BY <1>4, <2>1
  <2> QED BY <1>1, <1>6, <2>2
<1>9. u = Append(s, t[p])
  BY <1>3, <1>4, <1>6, <1>7, <1>8, IsAppend
<1> QED BY <1>9 DEF u, s, o

\* What has landed stays where it is.
LEMMA MoreLands ==
    ASSUME UNCHANGED <<target, known>>, matched \subseteq matched',
           unmatched \subseteq unmatched', NEW a, NEW b, Lands(a, b)
    PROVE  Lands(a, b)'
BY DEF Lands, Covered, Reported

LEMMA ScanFacts ==
    ASSUME Scanned, NEW start, LastCut(start)
    PROVE  /\ Len(target) \in Nat /\ Cuts(target) \in SUBSET (0..(Len(target) + 1))
           /\ position \in Nat \ {0} /\ position <= Len(target) + 1
           /\ start \in Nat /\ start < position
           /\ position \in Cuts(target) =>
                 /\ IsPiece(target, start, position)
                 /\ \A a, b \in Cuts(target) :
                       IsPiece(target, a, b) /\ b = position => a = start
<1>1. /\ Len(target) \in Nat /\ Cuts(target) \in SUBSET (0..(Len(target) + 1))
      /\ position \in 1..(Len(target) + 1)
  BY CutsFacts DEF Scanned, IsText
<1>2. position \in Nat \ {0} /\ position <= Len(target) + 1
  BY <1>1
<1>3. start \in Cuts(target) /\ start \in Nat /\ start < position
  BY <1>1 DEF LastCut
<1>4. ASSUME position \in Cuts(target)
      PROVE  IsPiece(target, start, position)
  BY <1>4 DEF LastCut, IsPiece
<1>5. ASSUME NEW a \in Cuts(target), NEW b \in Cuts(target),
             IsPiece(target, a, b), b = position
      PROVE  a = start
  <2>1. a < position /\ ~(a < start /\ start < position) /\ ~(start < a /\ a < position)
    BY <1>3, <1>5 DEF IsPiece, LastCut
  <2>2. a \in Nat
    BY <1>1
  <2> QED BY <1>3, <2>1, <2>2
<1> QED BY <1>1, <1>2, <1>3, <1>4, <1>5

\* The piece that ends at a separator or with the target has landed.
LEMMA PieceLands ==
    ASSUME Scanned, NEW start, LastCut(start), Unfinished(start) \/ BehindMatch(start),
           position \in Cuts(target), UNCHANGED <<target, known, matched>>,
           unmatched' = unmatched \cup Flushed
    PROVE  \A a, b \in Cuts(target) :
              IsPiece(target, a, b) /\ b <= position => Lands(a, b)'
<1>0. PICK p : p = position
  OBVIOUS
<1>1. Lands(start, p)'
  <2>1. CASE BehindMatch(start)
    <3>1. Covered(start, p)
      BY <1>0, <2>1 DEF BehindMatch
    <3> QED BY <3>1 DEF Lands, Covered
  <2>2. CASE Unfinished(start)
    <3> DEFINE named == Trimmed(target, start + 1, p - 1)
    <3>1. /\ Flushed = {named} \ {<<>>}
          /\ named = <<>> \/ named \notin known \/ target[p - 1] = Blank
      BY <1>0, <2>2, PieceIsKept
    <3>2. named = <<>> \/ named \in unmatched'
      BY <3>1
    <3> QED BY <3>1, <3>2 DEF Lands, Reported
  <2> QED BY <2>1, <2>2
<1>2. ASSUME NEW a \in Cuts(target), NEW b \in Cuts(target),
             IsPiece(target, a, b), b <= position
      PROVE  Lands(a, b)'
  <2>1. CASE b = position
    <3>1. a = start
      BY <1>2, <2>1, ScanFacts
    <3> QED BY <1>0, <1>1, <2>1, <3>1
  <2>2. CASE b < position
    <3>1. Lands(a, b)
      BY <1>2, <2>2 DEF Scanned
    <3> QED BY <3>1, MoreLands
  <2>3. b \in Nat /\ position \in Nat
    <3>1. Cuts(target) \in SUBSET (0..(Len(target) + 1)) /\ Len(target) \in Nat
          /\ position \in Nat \ {0}
      BY ScanFacts
    <3> QED BY <3>1
  <2> QED BY <1>2, <2>1, <2>2, <2>3
<1> QED BY <1>2

LEMMA SkipKeepsScanned ==
    ASSUME Scanned, SkipSeparator
    PROVE  Scanned'
<1>1. /\ UNCHANGED <<target, known, matched>>
      /\ unmatched' = unmatched \cup Flushed /\ buffer' = <<>>
      /\ atBoundary' = TRUE /\ position' = position + 1
      /\ position <= Len(target) /\ target[position] \in Separators
  BY DEF SkipSeparator, Scanning
<1>2. PICK start : LastCut(start) /\ (Unfinished(start) \/ BehindMatch(start))
  BY DEF Scanned
<1>3. PICK p : p = position
  OBVIOUS
<1>4. /\ Len(target) \in Nat /\ Cuts(target) \in SUBSET (0..(Len(target) + 1))
      /\ p \in Nat \ {0} /\ p <= Len(target) /\ position' = p + 1
  BY <1>1, <1>2, <1>3, ScanFacts
<1>5. p \in Cuts(target)
  BY <1>1, <1>3, <1>4 DEF Cuts
<1>6. \A a, b \in Cuts(target) : IsPiece(target, a, b) /\ b <= p => Lands(a, b)'
  BY <1>1, <1>2, <1>3, <1>5, PieceLands
<1>7. (\A a, b \in Cuts(target) :
          IsPiece(target, a, b) /\ b < position => Lands(a, b))'
  <2>1. ASSUME NEW a \in Cuts(target), NEW b \in Cuts(target),
               IsPiece(target, a, b), b < p + 1
        PROVE  Lands(a, b)'
    <3>1. b \in Nat
      BY <1>4
    <3>2. b <= p
      BY <1>4, <2>1, <3>1
    <3> QED BY <1>6, <2>1, <3>2
  <2> QED BY <1>1, <1>4, <2>1
<1>8. LastCut(p)'
  <2>1. \A i \in Cuts(target) : ~(p < i /\ i < p + 1)
    BY <1>4
  <2>2. p < p + 1
    BY <1>4
  <2> QED BY <1>1, <1>4, <1>5, <2>1, <2>2 DEF LastCut
<1>9. Unfinished(p)'
  <2>1. SubSeq(target, p + 1, p) = <<>>
    BY <1>4, EmptyPart DEF Scanned, IsText
  <2>2. (p + 1) - 1 = p /\ (p + 1)..p = {}
    BY <1>4
  <2>3. BlankFrom(p + 1, p)'
    BY <2>2 DEF BlankFrom
  <2>4. position' - 1 = p
    BY <1>4, <2>2
  <2> QED BY <1>1, <2>1, <2>2, <2>3, <2>4 DEF Unfinished
<1>10. (position \in 1..(Len(target) + 1))'
  BY <1>1, <1>4
<1>11. (IsText(target) /\ (\A k \in known : IsText(k)) /\ matched \subseteq known)'
  BY <1>1 DEF Scanned, IsText
<1> QED BY <1>7, <1>8, <1>9, <1>10, <1>11 DEF Scanned

LEMMA KeepKeepsScanned ==
    ASSUME Scanned, KeepCharacter
    PROVE  Scanned'
<1>1. /\ UNCHANGED <<target, known, matched, unmatched>>
      /\ buffer' = Append(buffer, target[position])
      /\ atBoundary' = (atBoundary /\ target[position] = Blank)
      /\ position' = position + 1
      /\ position <= Len(target) /\ target[position] \notin Separators
      /\ Candidates = {}
  BY DEF KeepCharacter, Scanning, StaysAtBoundary
<1>2. PICK start : LastCut(start) /\ (Unfinished(start) \/ BehindMatch(start))
  BY DEF Scanned
<1>3. PICK p : p = position
  OBVIOUS
<1>4. /\ Len(target) \in Nat /\ Cuts(target) \in SUBSET (0..(Len(target) + 1))
      /\ p \in Nat \ {0} /\ p <= Len(target) /\ position' = p + 1
      /\ start \in Nat /\ start < p
  BY <1>1, <1>2, <1>3, ScanFacts
<1>5. p \notin Cuts(target)
  BY <1>1, <1>3, <1>4 DEF Cuts
<1>6. Unfinished(start)
  BY <1>2, <1>3, <1>5 DEF BehindMatch
<1>7. (\A a, b \in Cuts(target) :
          IsPiece(target, a, b) /\ b < position => Lands(a, b))'
  <2>1. ASSUME NEW a \in Cuts(target), NEW b \in Cuts(target),
               IsPiece(target, a, b), b < p + 1
        PROVE  Lands(a, b)'
    <3>1. b \in Nat /\ b # p
      BY <1>4, <1>5
    <3>2. b < position
      BY <1>3, <1>4, <2>1, <3>1
    <3>3. Lands(a, b)
      BY <2>1, <3>2 DEF Scanned
    <3> QED BY <1>1, <3>3, MoreLands
  <2> QED BY <1>1, <1>4, <2>1
<1>8. LastCut(start)'
  <2>1. \A i \in Cuts(target) : ~(start < i /\ i < p + 1)
    <3> TAKE i \in Cuts(target)
    <3>1. i \in Nat /\ i # p /\ ~(start < i /\ i < p)
      BY <1>2, <1>3, <1>4, <1>5 DEF LastCut
    <3> QED BY <1>4, <3>1
  <2>2. start < p + 1 /\ start \in Cuts(target)
    BY <1>2, <1>4 DEF LastCut
  <2> QED BY <1>1, <1>4, <2>1, <2>2 DEF LastCut
<1>9. Unfinished(start)'
  <2> DEFINE a == start + 1
  <2>1. a \in Nat \ {0} /\ a <= p /\ p \in 1..Len(target)
    BY <1>4
  <2>2. buffer' = SubSeq(target, a, p)
    <3>1. buffer = SubSeq(target, a, p - 1)
      BY <1>3, <1>6 DEF Unfinished
    <3> HIDE DEF a
    <3>2. SubSeq(target, a, p) = Append(SubSeq(target, a, p - 1), target[p])
      BY <2>1, LongerPart DEF Scanned, IsText
    <3> QED BY <1>1, <1>3, <3>1, <3>2
  <2>3. atBoundary <=> BlankFrom(a, p - 1)
    BY <1>3, <1>6 DEF Unfinished
  <2>4. \A q \in a..(p - 1) : BlankFrom(a, q - 1) => \A k \in known : ~FitsAt(k, q)
    BY <1>3, <1>6 DEF Unfinished
  <2> HIDE DEF a
  <2>5. \A i \in a..p : i \in a..(p - 1) \/ i = p
    BY <2>1
  <2>6. atBoundary' <=> BlankFrom(a, p)
    <3>1. atBoundary' <=> atBoundary /\ target[p] = Blank
      BY <1>1, <1>3
    <3>2. p \in a..p /\ \A i \in a..(p - 1) : i \in a..p
      BY <2>1
    <3> QED BY <2>3, <2>5, <3>1, <3>2 DEF BlankFrom
  <2>7. ASSUME NEW q \in a..p, BlankFrom(a, q - 1), NEW k \in known
        PROVE  ~FitsAt(k, q)
    <3>1. CASE q \in a..(p - 1)
      BY <2>4, <2>7, <3>1
    <3>2. CASE q = p
      <4>1. atBoundary
        BY <2>3, <2>7, <3>2
      <4>2. ~Fits(k)
        BY <1>1, <4>1 DEF Candidates
      <4> QED BY <1>3, <3>2, <4>2 DEF Fits, FitsAt
    <3> QED BY <2>5, <3>1, <3>2
  <2>8. (p + 1) - 1 = p
    BY <1>4
  <2>9. \A i, j : BlankFrom(i, j)' <=> BlankFrom(i, j)
    BY <1>1 DEF BlankFrom
  <2>10. \A k, q : FitsAt(k, q)' <=> FitsAt(k, q)
    BY <1>1 DEF FitsAt
  <2>11. position' - 1 = p
    BY <1>4, <2>8
  <2> QED BY <1>1, <2>2, <2>6, <2>7, <2>9, <2>10, <2>11 DEF Unfinished, a
<1>10. (position \in 1..(Len(target) + 1))'
  BY <1>1, <1>4
<1>11. (IsText(target) /\ (\A k \in known : IsText(k)) /\ matched \subseteq known)'
  BY <1>1 DEF Scanned, IsText
<1> QED BY <1>7, <1>8, <1>9, <1>10, <1>11 DEF Scanned

LEMMA MatchKeepsScanned ==
    ASSUME Scanned, MatchKeyword
    PROVE  Scanned'
<1>1. PICK k \in Candidates : matched' = matched \cup {k} /\ position' = position + Len(k)
  BY DEF MatchKeyword
<1>2. /\ UNCHANGED <<target, known>>
      /\ unmatched \subseteq unmatched' /\ buffer' = <<>> /\ atBoundary' = FALSE
  BY DEF MatchKeyword
<1>3. k \in known /\ atBoundary /\ Fits(k)
  BY DEF Candidates
<1>4. PICK start : LastCut(start) /\ (Unfinished(start) \/ BehindMatch(start))
  BY DEF Scanned
<1>5. BlankFrom(start + 1, position - 1)
  BY <1>3, <1>4 DEF Unfinished, BehindMatch
<1>6. PICK p, o : p = position /\ o = p + Len(k)
  OBVIOUS
<1> DEFINE n == Len(target)
           m == Len(k)
           t == target
<1>7. t \in Seq(STRING) /\ k \in Seq(STRING)
  BY <1>3 DEF Scanned, IsText
<1>8. /\ n \in Nat /\ Cuts(t) \in SUBSET (0..(n + 1)) /\ m \in Nat
      /\ p \in Nat \ {0} /\ p <= n + 1 /\ start \in Nat /\ start < p
  BY <1>4, <1>6, <1>7, ScanFacts
<1>9. /\ o - 1 <= n /\ SubSeq(t, p, o - 1) = k
      /\ o - 1 = n \/ t[(o - 1) + 1] \in Separators
  <2>1. position + Len(k) - 1 = o - 1
    <3>1. position \in Nat /\ Len(k) \in Nat /\ o = position + Len(k)
      BY <1>6, <1>8
    <3> QED BY <3>1
  <2>2. /\ position + Len(k) - 1 <= n
        /\ SubSeq(t, position, position + Len(k) - 1) = k
        /\ \/ position + Len(k) - 1 = n
           \/ t[(position + Len(k) - 1) + 1] \in Separators
    BY <1>3 DEF Fits
  <2> HIDE DEF n, t
  <2> QED BY <1>6, <2>1, <2>2
<1> HIDE DEF n, m, t
<1>10. o \in 1..(n + 1) /\ p <= o /\ o = p + m
  BY <1>6, <1>8, <1>9 DEF m
<1>11. o \in Cuts(t)
  <2>1. (o - 1) + 1 = o /\ (o - 1 # n => o \in 1..n)
    BY <1>8, <1>9, <1>10
  <2>2. o = n + 1 \/ o \in 1..n
    BY <1>8, <1>10
  <2>3. o = n + 1 \/ t[o] \in Separators
    BY <1>9, <2>1, <2>2
  <2>4. CASE o = n + 1
    BY <2>4 DEF Cuts, n, t
  <2>5. CASE o \in 1..n /\ t[o] \in Separators
    BY <2>5 DEF Cuts, n, t
  <2> QED BY <2>2, <2>3, <2>4, <2>5
<1>12. ASSUME NEW a \in Cuts(t), NEW b \in Cuts(t), IsPiece(t, a, b), p <= b, b <= o
       PROVE  Covered(a, b)'
  <2>1. a < p => BlankIn(t, a + 1, p - 1)
    <3> SUFFICES ASSUME a < p PROVE a = start
      BY <1>5, <1>6 DEF BlankFrom, BlankIn, t
    <3>1. a \in Nat /\ b \in Nat
      BY <1>8
    <3>2. ~(start < a /\ a < p)
      BY <1>4, <1>6 DEF LastCut, t
    <3>3. start \in Cuts(t)
      BY <1>4 DEF LastCut, t
    <3>4. ~(a < start /\ start < b)
      BY <1>12, <3>3 DEF IsPiece
    <3> QED BY <1>8, <1>12, <3>1, <3>2, <3>4
  <2>2. /\ p \in 1..(Len(t) + 1) /\ p + Len(k) - 1 <= Len(t)
        /\ SubSeq(t, p, p + Len(k) - 1) = k /\ b <= p + Len(k)
    <3>1. p \in 1..(n + 1) /\ p + m - 1 = o - 1
      BY <1>8, <1>10
    <3> QED BY <1>6, <1>9, <1>12, <3>1 DEF n, m, t
  <2>3. PICK part \in Split(k, Separators) : Trimmed(t, a + 1, b - 1) = Strip(part)
    BY <1>7, <1>12, <2>1, <2>2, KeywordHasPieces
  <2> QED BY <1>1, <1>2, <2>3 DEF Covered, t
<1>13. (\A a, b \in Cuts(target) :
          IsPiece(target, a, b) /\ b < position => Lands(a, b))'
  <2>1. ASSUME NEW a \in Cuts(t), NEW b \in Cuts(t), IsPiece(t, a, b), b < o
        PROVE  Lands(a, b)'
    <3>1. CASE b < p
      <4>1. Lands(a, b)
        BY <1>6, <2>1, <3>1 DEF Scanned, t
      <4> QED BY <1>1, <1>2, <4>1, MoreLands
    <3>2. CASE ~(b < p)
      <4>1. p <= b /\ b <= o
        BY <1>8, <1>10, <2>1, <3>2
      <4> QED BY <1>12, <2>1, <4>1 DEF Lands
    <3> QED BY <3>1, <3>2
  <2> QED BY <1>1, <1>2, <1>6, <2>1 DEF t
<1>14. \E s : (LastCut(s) /\ BehindMatch(s))'
  <2> DEFINE S == {i \in Cuts(t) : i < o}
  <2>1. 0 \in S /\ S \in SUBSET (0..(n + 1)) /\ n + 1 \in Nat
    BY <1>8, <1>10 DEF Cuts
  <2>2. Final(S) \in S /\ \A j \in S : j <= Final(S)
    <3> HIDE DEF S
    <3> DEFINE r == n + 1
    <3>1. r \in Nat /\ S \in SUBSET (0..r) /\ S # {}
      BY <2>1
    <3> HIDE DEF r
    <3> QED BY <3>1, Extremes
  <2>3. PICK s : s = Final(S)
    OBVIOUS
  <2>4. s \in Cuts(t) /\ s < o /\ \A i \in Cuts(t) : ~(s < i /\ i < o)
    <3>1. s \in S /\ \A j \in S : j <= s
      BY <2>2, <2>3
    <3>2. \A i \in Cuts(t) : i \in Nat
      BY <1>8
    <3> QED BY <3>1, <3>2
  <2>5. IsPiece(t, s, o)
    BY <1>11, <2>4 DEF IsPiece
  <2>6. Covered(s, o)'
    BY <1>10, <1>11, <1>12, <2>4, <2>5
  <2>7. position' = o
    BY <1>1, <1>6
  <2>8. LastCut(s)'
    BY <1>2, <2>4, <2>7 DEF LastCut, t
  <2>9. BehindMatch(s)'
    BY <1>2, <1>11, <2>6, <2>7 DEF BehindMatch, Covered, t
  <2> QED BY <2>8, <2>9
<1>15. (position \in 1..(Len(target) + 1))'
  BY <1>1, <1>2, <1>6, <1>10 DEF n, t
<1>16. (IsText(target) /\ (\A j \in known : IsText(j)) /\ matched \subseteq known)'
  BY <1>1, <1>2, <1>3 DEF Scanned, IsText
<1> QED BY <1>13, <1>14, <1>15, <1>16 DEF Scanned

\* The end of the scan.
LEMMA FinishReports ==
    ASSUME Scanned, Finish
    PROVE  NothingVanishes'
<1> DEFINE left == unmatched \cup Flushed
           lists == {value \in left : ResolvesSlashes(value)}
           t == target
           n == Len(t)
<1>1. /\ UNCHANGED <<target, known>>
      /\ matched' = matched \cup UNION {SlashTargets(value) : value \in lists}
      /\ unmatched' = left \ lists /\ position > n
  BY DEF Finish
<1>2. PICK start : LastCut(start) /\ (Unfinished(start) \/ BehindMatch(start))
  BY DEF Scanned
<1>3. position = n + 1 /\ n \in Nat /\ t \in Seq(STRING)
      /\ Cuts(t) \in SUBSET (0..(n + 1)) /\ position \in Cuts(t)
  <2>1. position \in Nat /\ position <= n + 1 /\ n \in Nat
        /\ Cuts(t) \in SUBSET (0..(n + 1))
    BY <1>2, ScanFacts
  <2>2. position = n + 1
    <3> HIDE DEF n
    <3> QED BY <1>1, <2>1
  <2> QED BY <2>1, <2>2 DEF Scanned, IsText, Cuts
<1>4. \A a, b \in Cuts(t) : IsPiece(t, a, b) =>
         \/ Trimmed(t, a + 1, b - 1) = <<>>
         \/ Covered(a, b)
         \/ /\ Trimmed(t, a + 1, b - 1) \in left
            /\ Trimmed(t, a + 1, b - 1) \notin known \/ t[b - 1] = Blank
  <2> SUFFICES ASSUME NEW a \in Cuts(t), NEW b \in Cuts(t), IsPiece(t, a, b)
               PROVE  \/ Trimmed(t, a + 1, b - 1) = <<>>
                      \/ Covered(a, b)
                      \/ /\ Trimmed(t, a + 1, b - 1) \in left
                         /\ \/ Trimmed(t, a + 1, b - 1) \notin known
                            \/ t[b - 1] = Blank
    OBVIOUS
  <2>1. CASE b < position
    <3>1. Lands(a, b)
      BY <2>1 DEF Scanned
    <3> QED BY <3>1 DEF Lands, Reported
  <2>2. CASE b = position
    <3>1. a = start
      BY <1>2, <1>3, <2>2, ScanFacts
    <3>2. CASE BehindMatch(start)
      BY <2>2, <3>1, <3>2 DEF BehindMatch
    <3>3. CASE Unfinished(start)
      <4> DEFINE named == Trimmed(t, a + 1, b - 1)
      <4>1. /\ Flushed = {named} \ {<<>>}
            /\ named = <<>> \/ named \notin known \/ t[b - 1] = Blank
        BY <1>2, <1>3, <2>2, <3>1, <3>3, PieceIsKept
      <4> QED BY <4>1
    <3> QED BY <1>2, <3>1, <3>2, <3>3
  <2>3. b \in 0..(n + 1)
    BY <1>3
  <2> HIDE DEF n
  <2> QED BY <1>3, <2>1, <2>2, <2>3
<1>5. matched' \subseteq known
  <2>1. \A value \in lists : SlashTargets(value) \subseteq known
    BY DEF ResolvesSlashes
  <2> HIDE DEF lists
  <2> QED BY <1>1, <2>1 DEF Scanned
<1>6. ASSUME NEW piece \in Split(t, Separators)
      PROVE  LET named == Strip(piece) IN
             \/ named = <<>>
             \/ \E k \in matched' : \E part \in Split(k, Separators) :
                   named = Strip(part)
             \/ SlashTargets(named) \subseteq matched'
             \/ named \in unmatched' /\ (named \notin known \/ Last(piece) = Blank)
  <2>1. PICK a \in Cuts(t), b \in Cuts(t) :
           IsPiece(t, a, b) /\ piece = SubSeq(t, a + 1, b - 1)
    BY <1>3, SplitIsPieces
  <2> DEFINE named == Trimmed(t, a + 1, b - 1)
  <2>2. /\ Strip(piece) = named
        /\ a \in 0..n /\ b \in 1..(n + 1) /\ a < b
    BY <1>3, <2>1, PieceFacts
  <2>3. CASE named = <<>> \/ Covered(a, b)
    BY <1>1, <2>2, <2>3 DEF Covered
  <2>4. CASE named # <<>> /\ named \in left /\ (named \notin known \/ t[b - 1] = Blank)
    <3>1. CASE named \in lists
      <4>1. SlashTargets(named) \subseteq matched'
        <5> HIDE DEF named, lists
        <5> QED BY <1>1, <3>1
      <4> QED BY <2>2, <4>1
    <3>2. CASE named \notin lists
      <4>1. named \in unmatched'
        <5> HIDE DEF named, lists, left
        <5> QED BY <1>1, <2>4, <3>2
      <4>2. Last(piece) = t[b - 1]
        <5>1. Solid(t, a + 1, b - 1) # {}
          BY <2>4 DEF Trimmed
        <5>2. a + 1 <= b - 1
          <6>1. PICK i \in (a + 1)..(b - 1) : TRUE
            BY <5>1 DEF Solid
          <6> HIDE DEF n
          <6> QED BY <1>3, <2>2, <6>1
        <5> DEFINE c == a + 1
                   d == b - 1
        <5>3. /\ c \in Nat \ {0} /\ d \in Nat /\ c <= d /\ d <= n
              /\ \A i \in c..d : t[i] \in STRING
          <6>1. \A i \in 1..n : t[i] \in STRING
            BY <1>3
          <6> HIDE DEF n, t
          <6> QED BY <1>3, <2>2, <5>2, <6>1
        <5>4. piece = SubSeq(t, c, d)
          BY <2>1
        <5> HIDE DEF c, d, n
        <5>5. /\ Len(piece) = d - c + 1
              /\ \A i \in 1..Len(piece) : piece[i] = t[c + i - 1]
          <6>1. Len(piece) = IF c <= d THEN d - c + 1 ELSE 0
            BY <5>3, <5>4, SubSeqProperties
          <6> QED BY <5>3, <5>4, <6>1, SubSeqProperties
        <5>6. Len(piece) \in 1..Len(piece) /\ c + Len(piece) - 1 = d
          BY <5>3, <5>5
        <5>7. piece[Len(piece)] = t[d]
          BY <5>5, <5>6
        <5> QED BY <5>7 DEF Last, d
      <4> HIDE DEF named, lists, left
      <4> QED BY <2>2, <2>4, <4>1, <4>2
    <3> QED BY <3>1, <3>2
  <2> HIDE DEF named, left
  <2> QED BY <1>4, <2>1, <2>3, <2>4 DEF named
<1> HIDE DEF left, lists
<1> QED BY <1>1, <1>5, <1>6 DEF NothingVanishes

ScanInv ==
    /\ stage = "idle" => buffer = <<>> /\ matched = {} /\ unmatched = {}
    /\ stage = "scanning" /\ target \notin known => Scanned
    /\ NothingVanishes

\* What a response is looked up to is a text, and so are the claims.
LEMMA LookupIsText ==
    ASSUME Listed, NEW text \in Texts
    PROVE  /\ IsText(AnswerTarget(text)) /\ IsText(ReopenTarget(text))
           /\ \A k \in Open \cup Closed : IsText(k)
<1>1. \A k \in Open \cup Closed : IsText(k)
  <2> DEFINE K == Seq(STRING)
  <2>1. Open \subseteq Keywords /\ Closed \subseteq Keywords
    BY KeywordFacts DEF Listed
  <2>2. Keywords \subseteq K
    <3> DEFINE C == [keyword : K, status : {"OPEN", "CLOSED", "REOPENING"}]
    <3>1. claims \in Seq(C)
      BY DEF Listed, ClaimRecord
    <3> HIDE DEF K
    <3>2. \A i \in DOMAIN claims : claims[i] \in C
      <4> HIDE DEF C
      <4> QED BY <3>1
    <3>3. \A i \in DOMAIN claims : claims[i].keyword \in K
      BY <3>2
    <3> QED BY <3>3 DEF Keywords
  <2> QED BY <2>1, <2>2 DEF IsText
<1>2. IsText(text)
  BY TargetsAssumption DEF IsText
<1>3. ASSUME NEW addressed, \A k \in addressed : IsText(k)
      PROVE  IsText(Lookup(text, addressed))
  <2> DEFINE named == {k \in addressed : BuildReferences(Order)[k] = text}
  <2>1. Lookup(text, addressed) =
           IF named = {} THEN text ELSE CHOOSE k \in named : TRUE
    BY DEF Lookup
  <2>2. named # {} => (CHOOSE k \in named : TRUE) \in addressed
    OBVIOUS
  <2> HIDE DEF named
  <2> QED BY <1>2, <1>3, <2>1, <2>2
<1> QED BY <1>1, <1>2, <1>3 DEF AnswerTarget, ReopenTarget

LEMMA RespondScans ==
    ASSUME Listed, Respond, buffer = <<>>, matched = {}
    PROVE  Scanned'
<1>1. PICK text \in Texts :
         \/ known' = Open /\ target' = AnswerTarget(text)
         \/ known' = Closed /\ target' = ReopenTarget(text)
  BY DEF Respond
<1>2. position' = 1 /\ atBoundary' = TRUE /\ buffer' = <<>> /\ matched' = {}
  BY DEF Respond
<1>3. (IsText(target) /\ \A k \in known : IsText(k))'
  BY <1>1, LookupIsText DEF IsText
<1> DEFINE n == Len(target')
<1>4. target' \in Seq(STRING) /\ n \in Nat /\ 0 \in Cuts(target')
      /\ Cuts(target') \in SUBSET (0..(n + 1))
  BY <1>3, CutsFacts DEF IsText, Cuts
<1>5. \A i \in Cuts(target') : i \in Nat /\ ~(i < 0) /\ ~(0 < i /\ i < 1)
  <2> HIDE DEF n
  <2> QED BY <1>4
<1>6. (\A a, b \in Cuts(target) :
          IsPiece(target, a, b) /\ b < position => Lands(a, b))'
  <2> SUFFICES ASSUME NEW a \in Cuts(target'), NEW b \in Cuts(target'), a < b, b < 1
               PROVE  FALSE
    BY <1>2 DEF IsPiece
  <2> QED BY <1>5
<1>7. LastCut(0)'
  BY <1>2, <1>4, <1>5 DEF LastCut
<1>8. Unfinished(0)'
  <2>1. SubSeq(target', 0 + 1, 0) = <<>>
    <3>1. 0 \in Nat
      OBVIOUS
    <3> HIDE DEF n
    <3> QED BY <1>4, <3>1, EmptyPart
  <2>2. 1 - 1 = 0 /\ 0 + 1 = 1 /\ 1..0 = {}
    OBVIOUS
  <2> QED BY <1>2, <2>1, <2>2 DEF Unfinished, BlankFrom
<1>9. (position \in 1..(Len(target) + 1))'
  <2> HIDE DEF n
  <2>1. position' \in 1..(n + 1)
    BY <1>2, <1>4
  <2> QED BY <2>1 DEF n
<1> QED BY <1>2, <1>3, <1>6, <1>7, <1>8, <1>9 DEF Scanned

\* The invariant of a state that is left alone.
LEMMA ScanStays ==
    ASSUME ScanInv, UNCHANGED scan,
           stage' = stage \/ stage' \in {"saved", "batching", "batched"}
    PROVE  ScanInv'
<1>1. UNCHANGED <<known, target, position, atBoundary, buffer, matched, unmatched>>
  BY DEF scan
<1>2. NothingVanishes'
  BY <1>1 DEF ScanInv, NothingVanishes, SlashTargets
<1>3. Scanned => Scanned'
  BY <1>1 DEF Scanned, IsText, Lands, Covered, Reported, LastCut, Unfinished,
     BehindMatch, BlankFrom, FitsAt
<1> QED BY <1>1, <1>2, <1>3 DEF ScanInv

LEMMA ScanStep == Listed /\ ScanInv /\ [Next]_vars => ScanInv'
<1> SUFFICES ASSUME Listed, ScanInv, [Next]_vars PROVE ScanInv'
  OBVIOUS
<1>1. CASE Respond
  <2>1. Scanned'
    BY <1>1, RespondScans DEF ScanInv, Respond
  <2>2. stage' = "scanning"
    BY <1>1 DEF Respond
  <2> QED BY <2>1, <2>2 DEF ScanInv, NothingVanishes
<1>2. CASE MatchWhole
  BY <1>2 DEF MatchWhole, ScanInv, NothingVanishes
<1>3. CASE MatchKeyword \/ SkipSeparator \/ KeepCharacter
  <2>1. /\ stage = "scanning" /\ target \notin known
        /\ UNCHANGED <<stage, target, known>>
    BY <1>3 DEF MatchKeyword, SkipSeparator, KeepCharacter, Scanning
  <2>2. Scanned'
    BY <1>3, <2>1, MatchKeepsScanned, SkipKeepsScanned, KeepKeepsScanned DEF ScanInv
  <2> QED BY <2>1, <2>2 DEF ScanInv, NothingVanishes
<1>4. CASE Finish
  <2>1. Scanned /\ stage' = "resolved"
    BY <1>4 DEF Finish, ScanInv
  <2>2. NothingVanishes'
    BY <1>4, <2>1, FinishReports
  <2> QED BY <2>1, <2>2 DEF ScanInv
<1>5. CASE Record
  BY <1>5 DEF Record, ScanInv, NothingVanishes
<1>6. CASE /\ UNCHANGED scan
           /\ stage' = stage \/ stage' \in {"saved", "batching", "batched"}
  BY <1>6, ScanStays
<1> QED
  BY <1>1, <1>2, <1>3, <1>4, <1>5, <1>6
     DEF Next, Merge, TargetsNext, Propose, SaveClaims, AskHost, FillBatches,
         Batched, vars

\* Every piece of a target that names several claims lands: it belongs to a
\* claim that was found, or is a list of such claims, or is reported as
\* unresolved, for every table of claims and every text.
THEOREM NothingVanishesHolds == Spec => []NothingVanishes
<1>1. Init => ScanInv
  BY DEF Init, TargetsInit, NotScanning, ScanInv, NothingVanishes
<1>2. AnswersInv /\ [Next]_vars => AnswersInv'
  BY ListedStep, WholeStep DEF AnswersInv
<1>3. AnswersInv /\ ScanInv /\ [Next]_vars => ScanInv'
  BY ScanStep DEF AnswersInv
<1>4. ScanInv => NothingVanishes
  BY DEF ScanInv
<1> QED BY <1>1, <1>2, <1>3, <1>4, ListedInitially, PTL DEF Spec

-----------------------------------------------------------------------------
(* The file.  Reading goes on where it stopped: what is read of lines      *)
(* depends on the state before them alone.                                 *)

\* From state s the reader gets to u by these lines.
Reads(s, lines, u) ==
    \E q : /\ q[0] = s /\ q[Len(lines)] = u
           /\ \A i \in 1..Len(lines) : q[i] = ReadLine(q[i - 1], lines[i])

LEMMA ReadsNone == ASSUME NEW s PROVE Reads(s, <<>>, s)
<1> DEFINE q == [i \in 0..0 |-> s]
<1>1. q[0] = s /\ q[Len(<<>>)] = s /\ \A i \in 1..Len(<<>>) : FALSE
  OBVIOUS
<1> HIDE DEF q
<1> QED BY <1>1 DEF Reads

LEMMA ReadsOne ==
    ASSUME NEW s, NEW line
    PROVE  Reads(s, <<line>>, ReadLine(s, line))
<1> DEFINE q == [i \in 0..1 |-> IF i = 0 THEN s ELSE ReadLine(s, line)]
           lines == <<line>>
           u == ReadLine(s, line)
<1>1. q[0] = s /\ q[1] = u /\ Len(lines) = 1 /\ lines[1] = line /\ 1 - 1 = 0
  OBVIOUS
<1> HIDE DEF q, lines, u
<1>2. \A i \in 1..1 : q[i] = ReadLine(q[i - 1], lines[i])
  <2> TAKE i \in 1..1
  <2>1. i = 1
    OBVIOUS
  <2> QED BY <1>1, <2>1 DEF u
<1>3. Reads(s, lines, u)
  BY <1>1, <1>2 DEF Reads
<1> QED BY <1>3 DEF lines, u

LEMMA ReadsOn ==
    ASSUME NEW L, NEW a, a \in Seq(L), NEW b, b \in Seq(L), NEW s, NEW t, NEW u,
           Reads(s, a, t), Reads(t, b, u)
    PROVE  Reads(s, a \o b, u)
<1> DEFINE m == Len(a)
           n == Len(b)
           lines == a \o b
<1>1. PICK p : /\ p[0] = s /\ p[m] = t
               /\ \A i \in 1..m : p[i] = ReadLine(p[i - 1], a[i])
  BY DEF Reads
<1>2. PICK r : /\ r[0] = t /\ r[n] = u
               /\ \A i \in 1..n : r[i] = ReadLine(r[i - 1], b[i])
  BY DEF Reads
<1> DEFINE q == [i \in 0..(m + n) |-> IF i <= m THEN p[i] ELSE r[i - m]]
<1>3. /\ m \in Nat /\ n \in Nat /\ Len(lines) = m + n
      /\ \A i \in 1..m : lines[i] = a[i]
      /\ \A i \in 1..(m + n) : i > m => lines[i] = b[i - m]
  BY ConcatProperties
<1> HIDE DEF m, n, lines
<1>4. /\ \A i \in 0..m : q[i] = p[i]
      /\ \A i \in 0..n : q[i + m] = r[i]
  <2>1. \A i \in 0..m : q[i] = p[i]
    BY <1>3
  <2>2. ASSUME NEW i \in 0..n PROVE q[i + m] = r[i]
    <3>1. i + m \in 0..(m + n) /\ (i + m) - m = i /\ (i + m <= m => i = 0 /\ i + m = m)
      BY <1>3
    <3>2. CASE i + m <= m
      BY <1>1, <1>2, <1>3, <2>1, <3>1, <3>2
    <3>3. CASE ~(i + m <= m)
      BY <3>1, <3>3
    <3> QED BY <3>2, <3>3
  <2> QED BY <2>1, <2>2
<1> HIDE DEF q
<1>5. q[0] = s /\ q[m + n] = u
  <2>1. 0 \in 0..m /\ n \in 0..n /\ n + m = m + n
    BY <1>3
  <2> QED BY <1>1, <1>2, <1>4, <2>1
<1>6. ASSUME NEW i \in 1..(m + n)
      PROVE  q[i] = ReadLine(q[i - 1], lines[i])
  <2>1. CASE i <= m
    <3>1. i \in 1..m /\ i \in 0..m /\ i - 1 \in 0..m
      BY <1>3, <2>1
    <3> QED BY <1>1, <1>3, <1>4, <3>1
  <2>2. CASE i > m
    <3>1. PICK j : j = i - m
      OBVIOUS
    <3>2. j \in 1..n /\ j \in 0..n /\ j - 1 \in 0..n /\ i = j + m
          /\ i - 1 = (j - 1) + m
      BY <1>3, <2>2, <3>1
    <3>3. q[i] = r[j] /\ q[i - 1] = r[j - 1] /\ lines[i] = b[j]
      BY <1>3, <1>4, <2>2, <3>1, <3>2
    <3> QED BY <1>2, <3>2, <3>3
  <2> QED BY <1>3, <2>1, <2>2
<1>7. Reads(s, lines, u)
  BY <1>3, <1>5, <1>6 DEF Reads
<1> QED BY <1>7 DEF lines

\* The reader's loop as a function of the set of lines that it has read.
FoldsLines(g, lines, n) ==
    g = [T \in SUBSET (1..n) |->
            IF T = {} THEN NothingRead
            ELSE ReadLine(g[T \ {Max(T)}], lines[Max(T)])]

LEMMA FoldExists ==
    ASSUME NEW lines, NEW n \in Nat
    PROVE  \E g : FoldsLines(g, lines, n)
<1> DEFINE G == {m \in Nat : \E g : FoldsLines(g, lines, m)}
<1>1. 0 \in G
  <2> DEFINE g == [T \in SUBSET (1..0) |-> NothingRead]
  <2>1. \A T \in SUBSET (1..0) : T = {}
    OBVIOUS
  <2>2. g = [T \in SUBSET (1..0) |->
                IF T = {} THEN NothingRead
                ELSE ReadLine(g[T \ {Max(T)}], lines[Max(T)])]
    BY <2>1
  <2>3. FoldsLines(g, lines, 0)
    BY <2>2 DEF FoldsLines
  <2> HIDE DEF g
  <2> QED BY <2>3
<1>2. ASSUME NEW m \in G PROVE m + 1 \in G
  <2>1. PICK g : FoldsLines(g, lines, m)
    BY <1>2
  <2> DEFINE k == m + 1
             h == [T \in SUBSET (1..k) |->
                     IF k \in T THEN ReadLine(g[T \ {k}], lines[k]) ELSE g[T]]
  <2>2. /\ k \in Nat /\ m \in Nat /\ 1..m \subseteq 1..k /\ k \in 1..k
        /\ \A i \in 1..k : i <= k /\ (i # k => i \in 1..m)
        /\ \A i \in 1..m : i # k
    BY <1>2
  <2> HIDE DEF k, G
  <2>3. \A T \in SUBSET (1..m) : h[T] = g[T]
    BY <2>2
  <2>4. ASSUME NEW T \in SUBSET (1..k)
        PROVE  h[T] = IF T = {} THEN NothingRead
                      ELSE ReadLine(h[T \ {Max(T)}], lines[Max(T)])
    <3>1. CASE k \in T
      <4>1. Max(T) = k
        <5>1. Max(T) \in T /\ \A y \in T : Max(T) >= y
          BY <2>2, <3>1, MaxIsMember
        <5>2. Max(T) \in 1..k /\ Max(T) >= k
          BY <3>1, <5>1
        <5> QED BY <2>2, <5>2
      <4>2. T \ {k} \in SUBSET (1..m)
        BY <2>2
      <4>3. h[T \ {k}] = g[T \ {k}]
        BY <2>3, <4>2
      <4>4. h[T] = ReadLine(g[T \ {k}], lines[k])
        BY <3>1
      <4> HIDE DEF h
      <4> QED BY <3>1, <4>1, <4>3, <4>4
    <3>2. CASE k \notin T
      <4>1. T \in SUBSET (1..m)
        BY <2>2, <3>2
      <4>2. g[T] = IF T = {} THEN NothingRead
                   ELSE ReadLine(g[T \ {Max(T)}], lines[Max(T)])
        BY <2>1, <4>1 DEF FoldsLines
      <4>3. h[T] = g[T] /\ h[T \ {Max(T)}] = g[T \ {Max(T)}]
        <5>1. T \ {Max(T)} \in SUBSET (1..m)
          BY <4>1
        <5> HIDE DEF h
        <5> QED BY <2>3, <4>1, <5>1
      <4> HIDE DEF h
      <4> QED BY <4>2, <4>3
    <3> QED BY <3>1, <3>2
  <2>5. h = [T \in SUBSET (1..k) |-> h[T]]
    OBVIOUS
  <2> HIDE DEF h
  <2>6. FoldsLines(h, lines, k)
    BY <2>4, <2>5 DEF FoldsLines
  <2> QED BY <2>2, <2>6 DEF G, k
<1>3. G = Nat
  <2>1. G \in SUBSET Nat
    OBVIOUS
  <2> HIDE DEF G
  <2> QED BY <1>1, <1>2, <2>1, SetInduction
<1> QED BY <1>3

LEMMA LoopReads ==
    ASSUME NEW L, NEW lines, lines \in Seq(L), NEW u, Reads(NothingRead, lines, u)
    PROVE  FoldLeft(ReadLine, NothingRead, lines) = u
<1> DEFINE n == Len(lines)
           N(g) == [T \in SUBSET DOMAIN lines |->
                      IF T = {} THEN NothingRead
                      ELSE ReadLine(g[T \ {Max(T)}], lines[Max(T)])]
           fold == CHOOSE g : g = N(g)
<1>1. n \in Nat /\ DOMAIN lines = 1..n
  OBVIOUS
<1>2. \E g : g = N(g)
  <2>1. PICK g : FoldsLines(g, lines, n)
    BY <1>1, FoldExists
  <2> QED BY <1>1, <2>1 DEF FoldsLines
<1>3. fold = N(fold)
  BY <1>2
<1>4. FoldLeft(ReadLine, NothingRead, lines) = fold[DOMAIN lines]
  BY DEF FoldLeft, MapThenFoldSet
<1> HIDE DEF n, fold
<1>5. PICK q : /\ q[0] = NothingRead /\ q[n] = u
               /\ \A i \in 1..n : q[i] = ReadLine(q[i - 1], lines[i])
  BY DEF Reads, n
<1> DEFINE G == {i \in Nat : i <= n => fold[1..i] = q[i]}
<1>6. 0 \in G
  <2>1. 1..0 = {} /\ {} \in SUBSET DOMAIN lines
    OBVIOUS
  <2>2. fold[{}] = NothingRead
    BY <1>3
  <2> QED BY <1>5, <2>1, <2>2
<1>7. ASSUME NEW i \in G PROVE i + 1 \in G
  <2> DEFINE k == i + 1
  <2>1. i \in Nat /\ k \in Nat /\ k - 1 = i
    BY <1>7
  <2> HIDE DEF k
  <2> SUFFICES ASSUME k <= n PROVE fold[1..k] = q[k]
    BY <2>1 DEF k
  <2>2. k \in 1..n /\ fold[1..i] = q[i]
    BY <1>1, <1>7, <2>1 DEF k
  <2>3. 1..k \in SUBSET (1..n) /\ 1..k # {} /\ Max(1..k) = k /\ (1..k) \ {k} = 1..i
    BY <1>1, <2>1, <2>2, MaxOfInterval
  <2> DEFINE T == 1..k
  <2>4. T \in SUBSET DOMAIN lines /\ T # {} /\ Max(T) = k /\ T \ {k} = 1..i
    BY <1>1, <2>3
  <2> HIDE DEF T
  <2>5. fold[T] = ReadLine(fold[T \ {Max(T)}], lines[Max(T)])
    BY <1>3, <2>4
  <2>6. fold[T] = ReadLine(q[i], lines[k])
    BY <2>2, <2>4, <2>5
  <2> QED BY <1>5, <2>1, <2>2, <2>6 DEF T
<1>8. G = Nat
  <2>1. G \in SUBSET Nat
    OBVIOUS
  <2> HIDE DEF G
  <2> QED BY <1>6, <1>7, <2>1, SetInduction
<1>9. fold[1..n] = q[n]
  BY <1>1, <1>8
<1> QED BY <1>1, <1>4, <1>5, <1>9

\* The truth values of the reader's fields, as values.
Yes == TRUE
No == FALSE

Reader(topic, full, audit, entry, auditing) ==
    [topic |-> topic, claims |-> full, audit |-> audit, entry |-> entry,
     auditing |-> auditing, failed |-> No]

PutTopic(s, topic) == [s EXCEPT !.topic = topic]
PutClaims(s, full) == [s EXCEPT !.claims = full]
PutAudit(s, audit) == [s EXCEPT !.audit = audit]
PutEntry(s, entry) == [s EXCEPT !.entry = entry]
PutAuditing(s, auditing) == [s EXCEPT !.auditing = auditing]

SavedClaim ==
    [keyword : Seq(STRING), status : {"OPEN", "CLOSED"}, entries : Seq(SavedEntry)]

WithEntry(full, e) == [full EXCEPT ![Len(full)].entries = Append(@, e)]

\* Between two lines of a file whose claims so far are full.
Ready(s, topic, full) ==
    /\ EntryAdded(s) = Reader(topic, full, <<>>, NoEntry, No)
    /\ ~s.failed /\ ~s.auditing
    /\ s.claims = <<>> <=> full = <<>>

\* What is put into one field of the reader changes nothing else.
LEMMA FieldChanges ==
    ASSUME NEW t, NEW f, NEW a, NEW e, NEW x, NEW z
    PROVE  /\ PutTopic(Reader(t, f, a, e, x), z) = Reader(z, f, a, e, x)
           /\ PutClaims(Reader(t, f, a, e, x), z) = Reader(t, z, a, e, x)
           /\ PutAudit(Reader(t, f, a, e, x), z) = Reader(t, f, z, e, x)
           /\ PutEntry(Reader(t, f, a, e, x), z) = Reader(t, f, a, z, x)
           /\ PutAuditing(Reader(t, f, a, e, x), z) = Reader(t, f, a, e, z)
BY DEF Reader, PutTopic, PutClaims, PutAudit, PutEntry, PutAuditing

LEMMA ReaderFields ==
    ASSUME NEW t, NEW f, NEW a, NEW e, NEW x
    PROVE  /\ Reader(t, f, a, e, x).topic = t /\ Reader(t, f, a, e, x).claims = f
           /\ Reader(t, f, a, e, x).audit = a /\ Reader(t, f, a, e, x).entry = e
           /\ Reader(t, f, a, e, x).auditing = x /\ ~Reader(t, f, a, e, x).failed
<1>1. Reader(t, f, a, e, x).failed = No
  BY DEF Reader
<1>2. ~Reader(t, f, a, e, x).failed
  BY <1>1, Zenon DEF No
<1> QED BY <1>2 DEF Reader

LEMMA NotAuditing ==
    ASSUME NEW t, NEW f, NEW a, NEW e
    PROVE  ~Reader(t, f, a, e, No).auditing
<1>1. Reader(t, f, a, e, No).auditing = No
  BY ReaderFields
<1> QED BY <1>1, Zenon DEF No

LEMMA NoEntryAdded ==
    ASSUME NEW topic, NEW full, NEW audit, NEW auditing
    PROVE  EntryAdded(Reader(topic, full, audit, NoEntry, auditing))
             = Reader(topic, full, audit, NoEntry, auditing)
<1> DEFINE s == Reader(topic, full, audit, NoEntry, auditing)
<1>1. s.entry = NoEntry
  BY ReaderFields
<1>2. PutEntry(s, NoEntry) = s
  BY FieldChanges
<1> HIDE DEF s
<1>3. EntryAdded(s) = s
  BY <1>1, <1>2, Zenon DEF EntryAdded, PutEntry
<1> QED BY <1>3 DEF s

LEMMA LastEntryAdded ==
    ASSUME NEW topic, NEW full, full # <<>>, NEW audit, NEW auditing,
           NEW e, e # NoEntry
    PROVE  EntryAdded(Reader(topic, full, audit, e, auditing))
             = Reader(topic, WithEntry(full, e), audit, NoEntry, auditing)
<1> DEFINE s == Reader(topic, full, audit, e, auditing)
           r == Reader(topic, WithEntry(full, e), audit, e, auditing)
           u == [s EXCEPT !.claims[Len(s.claims)].entries = Append(@, s.entry),
                          !.entry = NoEntry]
<1>1. s.entry = e /\ s.claims = full
  BY ReaderFields
<1>2. PutClaims(s, WithEntry(full, e)) = r
  BY FieldChanges
<1>3. PutEntry(r, NoEntry) = Reader(topic, WithEntry(full, e), audit, NoEntry, auditing)
  BY FieldChanges
<1> HIDE DEF s, r
<1>4. u = PutEntry(PutClaims(s, WithEntry(s.claims, s.entry)), NoEntry)
  BY Zenon DEF WithEntry, PutEntry, PutClaims
<1>5. u = PutEntry(r, NoEntry)
  <2> HIDE DEF u
  <2> QED BY <1>1, <1>2, <1>4, Zenon
<1>6. EntryAdded(s) = u
  BY <1>1, Zenon DEF EntryAdded
<1> QED BY <1>3, <1>5, <1>6 DEF s

LEMMA ReaderIsReady ==
    ASSUME NEW topic, NEW full
    PROVE  Ready(Reader(topic, full, <<>>, NoEntry, No), topic, full)
<1> DEFINE s == Reader(topic, full, <<>>, NoEntry, No)
<1>1. EntryAdded(s) = s
  BY NoEntryAdded
<1>2. ~s.failed /\ ~s.auditing /\ s.claims = full
  BY ReaderFields, NotAuditing
<1> HIDE DEF s
<1>3. Ready(s, topic, full)
  BY <1>1, <1>2 DEF Ready, s
<1> QED BY <1>3 DEF s

LEMMA ReaderOfEntryIsReady ==
    ASSUME NEW topic, NEW full, full # <<>>, NEW e, e # NoEntry,
           WithEntry(full, e) # <<>>
    PROVE  Ready(Reader(topic, full, <<>>, e, No), topic, WithEntry(full, e))
<1> DEFINE s == Reader(topic, full, <<>>, e, No)
           more == WithEntry(full, e)
<1>1. EntryAdded(s) = Reader(topic, more, <<>>, NoEntry, No)
  BY LastEntryAdded
<1>2. ~s.failed /\ ~s.auditing /\ s.claims = full
  BY ReaderFields, NotAuditing
<1> HIDE DEF s, more
<1>3. Ready(s, topic, more)
  BY <1>1, <1>2 DEF Ready, more
<1> QED BY <1>3 DEF s, more

\* The header of a claim that is not there yet.
LEMMA HeaderRead ==
    ASSUME NEW topic, NEW full, NEW s, Ready(s, topic, full), NEW k, NEW status,
           \A i \in DOMAIN full : full[i].keyword # k
    PROVE  ReadLine(s, Line(0, ClaimHeader(k, status)))
             = Reader(topic,
                      Append(full, [keyword |-> k, status |-> status, entries |-> <<>>]),
                      <<>>, NoEntry, No)
<1> DEFINE line == Line(0, ClaimHeader(k, status))
           f == Reader(topic, full, <<>>, NoEntry, No)
           c == [keyword |-> k, status |-> status, entries |-> <<>>]
<1>1. /\ line.indent = 0 /\ line.text.form = "claim"
      /\ line.text.keyword = k /\ line.text.status = status
  BY DEF Line, ClaimHeader
<1>2. line # Line(0, UnmatchedHeader)
  <2>1. Line(0, UnmatchedHeader).text.form = "unmatched"
    BY DEF Line, UnmatchedHeader
  <2> HIDE DEF line
  <2> QED BY <1>1, <2>1
<1> HIDE DEF line
<1>3. ReadLine(s, line) = BeginClaim(s, line.text)
  <2>1. ~(line.indent >= ContinuationIndent)
    BY <1>1 DEF ContinuationIndent
  <2>2. ReadClaimLine(s, line) = BeginClaim(s, line.text)
    BY <1>1, <2>1 DEF ReadClaimLine
  <2> QED BY <1>2, <2>2 DEF ReadLine, Ready
<1>4. EntryAdded(s) = f /\ f.claims = full
  BY ReaderFields DEF Ready
<1>5. PutClaims(f, Append(full, c))
        = Reader(topic, Append(full, c), <<>>, NoEntry, No)
  BY FieldChanges
<1> HIDE DEF f
<1>6. BeginClaim(s, line.text) = PutClaims(f, Append(full, c))
  BY <1>1, <1>4 DEF BeginClaim, PutClaims
<1> QED BY <1>3, <1>5, <1>6 DEF line

\* The tag of an entry, which never stands far to the right.
LEMMA TagRead ==
    ASSUME NEW topic, NEW full, full # <<>>, NEW s, Ready(s, topic, full), NEW e,
           NEW first
    PROVE  ReadLine(s, Line(TagIndent(e), Tag(e, first)))
             = Reader(topic, full, <<>>,
                      [type |-> e.type, round |-> e.round, content |-> <<first>>],
                      No)
<1> DEFINE line == Line(TagIndent(e), Tag(e, first))
           f == Reader(topic, full, <<>>, NoEntry, No)
           begun == [type |-> e.type, round |-> e.round, content |-> <<first>>]
<1>1. /\ line.indent \in {0, 2} /\ line.text.form = "tag"
      /\ line.text.type = e.type /\ line.text.round = e.round /\ line.text.line = first
  BY DEF Line, Tag, TagIndent
<1>2. line # Line(0, UnmatchedHeader)
  <2>1. Line(0, UnmatchedHeader).text.form = "unmatched"
    BY DEF Line, UnmatchedHeader
  <2> HIDE DEF line
  <2> QED BY <1>1, <2>1
<1> HIDE DEF line
<1>3. ReadLine(s, line) = BeginEntry(s, line.text)
  <2>1. ~(line.indent >= ContinuationIndent)
    BY <1>1 DEF ContinuationIndent
  <2>2. s.claims # <<>>
    BY DEF Ready
  <2>3. ReadClaimLine(s, line) = BeginEntry(s, line.text)
    BY <1>1, <2>1, <2>2 DEF ReadClaimLine
  <2> QED BY <1>2, <2>3 DEF ReadLine, Ready
<1>4. EntryAdded(s) = f
  BY DEF Ready
<1>5. PutEntry(f, begun) = Reader(topic, full, <<>>, begun, No)
  BY FieldChanges
<1> HIDE DEF f
<1>6. BeginEntry(s, line.text) = PutEntry(f, begun)
  BY <1>1, <1>4 DEF BeginEntry, PutEntry
<1> QED BY <1>3, <1>5, <1>6 DEF line

\* A further line of a content, whatever it says.
LEMMA FurtherRead ==
    ASSUME NEW topic, NEW full, NEW type, NEW round, NEW content, content # <<>>,
           NEW line \in ContentLine
    PROVE  ReadLine(Reader(topic, full, <<>>,
                           [type |-> type, round |-> round, content |-> content], No),
                    Indented(line))
             = Reader(topic, full, <<>>,
                      [type |-> type, round |-> round, content |-> Append(content, line)],
                      No)
<1> DEFINE e == [type |-> type, round |-> round, content |-> content]
           s == Reader(topic, full, <<>>, e, No)
           moved == Indented(line)
<1>1. e # NoEntry /\ e.content = content
  <2>1. NoEntry.content = <<>> /\ e.content = content
    BY DEF NoEntry
  <2> HIDE DEF e
  <2> QED BY <2>1
<1>2. /\ line.indent \in Nat /\ moved.indent = line.indent + 4 /\ moved.text = line.text
      /\ Line(line.indent, line.text) = line
  BY DEF Indented, ContentLine, ContinuationIndent, Line
<1>3. /\ moved.indent >= ContinuationIndent
      /\ moved.indent - ContinuationIndent = line.indent
      /\ moved.indent # 0
  BY <1>2 DEF ContinuationIndent
<1>4. moved # Line(0, UnmatchedHeader)
  <2>1. Line(0, UnmatchedHeader).indent = 0
    BY DEF Line
  <2> HIDE DEF moved
  <2> QED BY <1>3, <2>1
<1>5. s.entry = e /\ ~s.failed /\ ~s.auditing
  BY ReaderFields, NotAuditing
<1>6. ToContent(s, line)
        = Reader(topic, full, <<>>,
                 [type |-> type, round |-> round,
                  content |-> Append(content, line)], No)
  <2> DEFINE more == [type |-> type, round |-> round, content |-> Append(content, line)]
  <2>1. [e EXCEPT !.content = Append(@, line)] = more
    OBVIOUS
  <2>2. PutEntry(s, more) = Reader(topic, full, <<>>, more, No)
    BY FieldChanges
  <2> HIDE DEF s, e, more
  <2>3. [s EXCEPT !.entry.content = Append(@, line)]
          = [s EXCEPT !.entry = [s.entry EXCEPT !.content = Append(@, line)]]
    BY Zenon
  <2>4. ToContent(s, line) = PutEntry(s, more)
    BY <1>5, <2>1, <2>3, Zenon DEF ToContent, PutEntry
  <2> QED BY <2>2, <2>4 DEF more
<1> HIDE DEF s, moved, e
<1>7. ReadClaimLine(s, moved) = ToContent(s, line)
  BY <1>1, <1>2, <1>3, <1>5 DEF ReadClaimLine
<1>8. ReadLine(s, moved) = ToContent(s, line)
  BY <1>4, <1>5, <1>7 DEF ReadLine
<1> QED BY <1>6, <1>8 DEF s, e, moved

\* What the lines of a file may be.
WrittenText ==
    Phrases \cup {BlankText, Heading("file"), Heading("topic"), Rule, UnmatchedHeader}
      \cup {ClaimHeader(k, status) : k \in Seq(STRING), status \in {"OPEN", "CLOSED"}}
      \cup {Tag(e, line) : e \in SavedEntry, line \in ContentLine}
      \cup {Json(item) : item \in Items}

WrittenLine == [indent : Nat, text : WrittenText]

LEMMA ConcatFacts ==
    ASSUME NEW L, NEW a, a \in Seq(L), NEW b, b \in Seq(L)
    PROVE  /\ a \o b \in Seq(L) /\ Len(a \o b) = Len(a) + Len(b)
           /\ \A i \in 1..Len(a) : (a \o b)[i] = a[i]
           /\ \A i \in 1..(Len(a) + Len(b)) :
                 i > Len(a) => (a \o b)[i] = b[i - Len(a)]
BY ConcatProperties

LEMMA IsWritten ==
    ASSUME NEW n \in Nat, NEW text \in WrittenText
    PROVE  Line(n, text) \in WrittenLine
BY DEF Line, WrittenLine

LEMMA EntryFacts ==
    ASSUME NEW e \in SavedEntry
    PROVE  /\ e.content \in Seq(ContentLine) /\ Len(e.content) \in Nat \ {0}
           /\ \A i \in 1..Len(e.content) : e.content[i] \in ContentLine
           /\ e = [type |-> e.type, round |-> e.round, content |-> e.content]
           /\ e # NoEntry
<1> DEFINE K == Seq(ContentLine)
<1>1. e.content \in K /\ e.content # <<>>
      /\ e = [type |-> e.type, round |-> e.round, content |-> e.content]
  <2> HIDE DEF K
  <2>1. SavedEntry = [type : STRING, round : Nat, content : K \ {<<>>}]
    BY DEF SavedEntry, K
  <2> QED BY <2>1
<1>2. Len(e.content) \in Nat \ {0}
  BY <1>1, EmptySeq
<1>3. e # NoEntry
  <2>1. NoEntry.content = <<>>
    BY DEF NoEntry
  <2> QED BY <1>1, <2>1
<1> QED BY <1>1, <1>2, <1>3

LEMMA EntryLinesFacts ==
    ASSUME NEW e \in SavedEntry
    PROVE  /\ EntryLines(e) \in Seq(WrittenLine) /\ Len(EntryLines(e)) = Len(e.content)
           /\ EntryLines(e)[1] = Line(TagIndent(e), Tag(e, e.content[1]))
           /\ \A i \in 2..Len(e.content) : EntryLines(e)[i] = Indented(e.content[i])
<1> DEFINE c == e.content
           n == Len(c)
           m == n - 1
           tag == <<Line(TagIndent(e), Tag(e, c[1]))>>
           rest == [i \in 1..m |-> Indented(c[i + 1])]
           lines == tag \o rest
<1>1. /\ n \in Nat \ {0} /\ m \in Nat /\ m + 1 = n
      /\ \A i \in 1..n : c[i] \in ContentLine
  <2>1. n \in Nat \ {0} /\ \A i \in 1..n : c[i] \in ContentLine
    BY EntryFacts
  <2> HIDE DEF n, c
  <2> QED BY <2>1
<1> HIDE DEF n, m, c
<1>2. /\ tag \in Seq(WrittenLine) /\ Len(tag) = 1
      /\ tag[1] = Line(TagIndent(e), Tag(e, c[1]))
  <2>1. Line(TagIndent(e), Tag(e, c[1])) \in WrittenLine
    <3>1. TagIndent(e) \in Nat
      BY DEF TagIndent
    <3>2. Tag(e, c[1]) \in WrittenText
      BY <1>1 DEF WrittenText
    <3> QED BY <3>1, <3>2, IsWritten
  <2> QED BY <2>1
<1>3. /\ rest \in Seq(WrittenLine) /\ Len(rest) = m
      /\ \A i \in 1..m : rest[i] = Indented(c[i + 1])
  <2>1. \A i \in 1..m : i + 1 \in 1..n
    BY <1>1
  <2>2. \A line \in ContentLine : Indented(line) \in WrittenLine
    BY DEF Indented, ContentLine, ContinuationIndent, WrittenLine, WrittenText
  <2>3. \A i \in 1..m : Indented(c[i + 1]) \in WrittenLine
    BY <1>1, <2>1, <2>2
  <2> QED BY <1>1, <2>3
<1>4. EntryLines(e) = lines
  BY DEF EntryLines, c, n, m
<1> HIDE DEF tag, rest
<1>5. /\ lines \in Seq(WrittenLine) /\ Len(lines) = 1 + m /\ lines[1] = tag[1]
      /\ \A i \in 1..(1 + m) : i > 1 => lines[i] = rest[i - 1]
  <2>1. 1 \in 1..Len(tag)
    BY <1>2
  <2>2. /\ lines \in Seq(WrittenLine) /\ Len(lines) = Len(tag) + Len(rest)
        /\ \A i \in 1..Len(tag) : lines[i] = tag[i]
        /\ \A i \in 1..(Len(tag) + Len(rest)) :
              i > Len(tag) => lines[i] = rest[i - Len(tag)]
    <3>1. tag \in Seq(WrittenLine) /\ rest \in Seq(WrittenLine)
      BY <1>2, <1>3
    <3> QED BY <3>1, ConcatFacts
  <2> HIDE DEF lines
  <2> QED BY <1>2, <1>3, <2>1, <2>2
<1> HIDE DEF lines
<1>6. \A i \in 2..n : lines[i] = Indented(c[i])
  <2> TAKE i \in 2..n
  <2>1. i \in 1..(1 + m) /\ i > 1 /\ i - 1 \in 1..m /\ (i - 1) + 1 = i
    BY <1>1
  <2>2. PICK j : j = i - 1
    OBVIOUS
  <2>3. rest[j] = Indented(c[j + 1])
    BY <1>3, <2>1, <2>2
  <2> QED BY <1>5, <2>1, <2>2, <2>3
<1> QED BY <1>1, <1>2, <1>4, <1>5, <1>6 DEF c, n

LEMMA EntryRead ==
    ASSUME NEW topic, NEW full, full # <<>>, NEW s, Ready(s, topic, full),
           NEW e \in SavedEntry
    PROVE  Reads(s, EntryLines(e), Reader(topic, full, <<>>, e, No))
<1> DEFINE c == e.content
           n == Len(c)
           lines == EntryLines(e)
           u == Reader(topic, full, <<>>, e, No)
           r(i) == Reader(topic, full, <<>>,
                          [type |-> e.type, round |-> e.round,
                           content |-> SubSeq(c, 1, i)],
                          No)
           q == [i \in 0..n |-> IF i = 0 THEN s ELSE r(i)]
<1>1. /\ n \in Nat \ {0} /\ c \in Seq(ContentLine)
      /\ \A i \in 1..n : c[i] \in ContentLine
      /\ e = [type |-> e.type, round |-> e.round, content |-> c]
  BY EntryFacts
<1>2. /\ Len(lines) = n /\ lines[1] = Line(TagIndent(e), Tag(e, c[1]))
      /\ \A i \in 2..n : lines[i] = Indented(c[i])
  BY EntryLinesFacts
<1> HIDE DEF c, n, lines
<1>3. q[0] = s /\ \A i \in 1..n : q[i] = r(i)
  BY <1>1
<1> HIDE DEF q
<1>4. SubSeq(c, 1, n) = c
  BY <1>1 DEF n
<1>5. r(n) = u
  BY <1>1, <1>4
<1>6. q[n] = u
  <2>1. n \in 1..n
    BY <1>1
  <2> HIDE DEF u, r
  <2> QED BY <1>3, <1>5, <2>1
<1>7. \A i \in 1..n :
         /\ SubSeq(c, 1, i) = Append(SubSeq(c, 1, i - 1), c[i])
         /\ i > 1 => SubSeq(c, 1, i - 1) # <<>>
         /\ i = 1 => SubSeq(c, 1, i) = <<c[1]>>
  <2>1. ASSUME NEW i \in 1..n
        PROVE  SubSeq(c, 1, i) = Append(SubSeq(c, 1, i - 1), c[i])
    <3>1. 1 \in Nat \ {0} /\ i \in 1..Len(c) /\ 1 <= i
      BY <1>1, <2>1 DEF n
    <3> QED BY <1>1, <3>1, LongerPart
  <2>2. ASSUME NEW i \in 1..n, i > 1
        PROVE  SubSeq(c, 1, i - 1) # <<>>
    <3>1. PICK j : j = i - 1
      OBVIOUS
    <3>2. j \in 1..n
      BY <1>1, <2>2, <3>1
    <3>3. SubSeq(c, 1, j) \in Seq(ContentLine) /\ Len(SubSeq(c, 1, j)) = j
      <4>1. /\ 1 \in Nat /\ j \in Nat /\ 1 <= j /\ (j - 1) + 1 = j
            /\ \A k \in 1..j : c[k] \in ContentLine
        BY <1>1, <3>2
      <4>2. /\ SubSeq(c, 1, j) \in Seq(ContentLine)
            /\ Len(SubSeq(c, 1, j)) = IF 1 <= j THEN j - 1 + 1 ELSE 0
        BY <4>1, SubSeqProperties
      <4> QED BY <4>1, <4>2
    <3> DEFINE part == SubSeq(c, 1, j)
    <3>4. Len(part) = j /\ j \in Nat /\ j # 0
      BY <1>1, <3>2, <3>3
    <3> HIDE DEF part
    <3>5. part # <<>>
      BY <3>4
    <3> QED BY <3>1, <3>5, Zenon DEF part
  <2>3. SubSeq(c, 1, 1) = <<c[1]>>
    <3>1. 1 \in 1..n /\ c[1] \in ContentLine
      BY <1>1
    <3>2. SubSeq(c, 1, 1) = Append(SubSeq(c, 1, 0), c[1])
      <4>1. 1 - 1 = 0
        OBVIOUS
      <4> QED BY <2>1, <3>1, <4>1
    <3>3. SubSeq(c, 1, 0) = <<>>
      <4>1. 0 < 1 /\ 0 \in Int /\ 1 \in Int
        OBVIOUS
      <4> QED BY <4>1, SubSeqEmpty
    <3>4. Append(<<>>, c[1]) = <<c[1]>>
      OBVIOUS
    <3> QED BY <3>2, <3>3, <3>4, Zenon
  <2> QED BY <2>1, <2>2, <2>3
<1>8. ASSUME NEW i \in 1..n
      PROVE  q[i] = ReadLine(q[i - 1], lines[i])
  <2>1. CASE i = 1
    <3>1. ReadLine(s, Line(TagIndent(e), Tag(e, c[1])))
            = Reader(topic, full, <<>>,
                     [type |-> e.type, round |-> e.round, content |-> <<c[1]>>], No)
      BY TagRead
    <3>2. r(i) = Reader(topic, full, <<>>,
                     [type |-> e.type, round |-> e.round, content |-> <<c[1]>>], No)
      BY <1>7, <2>1
    <3>3. q[i - 1] = s /\ q[i] = r(i) /\ lines[i] = Line(TagIndent(e), Tag(e, c[1]))
      <4>1. i - 1 = 0
        BY <2>1
      <4> HIDE DEF r
      <4> QED BY <1>2, <1>3, <2>1, <4>1
    <3> HIDE DEF r
    <3> QED BY <3>1, <3>2, <3>3
  <2>2. CASE i # 1
    <3>1. PICK j : j = i - 1
      OBVIOUS
    <3>2. j \in 1..n /\ i \in 2..n /\ i > 1
      BY <1>1, <2>2, <3>1
    <3>3. q[i] = r(i) /\ q[i - 1] = r(j) /\ lines[i] = Indented(c[i])
      <4> HIDE DEF r
      <4> QED BY <1>2, <1>3, <3>1, <3>2
    <3> DEFINE part == SubSeq(c, 1, j)
               type == e.type
               round == e.round
    <3>4. part # <<>> /\ SubSeq(c, 1, i) = Append(part, c[i]) /\ c[i] \in ContentLine
      BY <1>1, <1>7, <3>1, <3>2
    <3>5. r(j) = Reader(topic, full, <<>>,
                        [type |-> type, round |-> round, content |-> part], No)
      OBVIOUS
    <3>6. r(i) = Reader(topic, full, <<>>,
                        [type |-> type, round |-> round,
                         content |-> Append(part, c[i])], No)
      BY <3>4
    <3> HIDE DEF part, type, round, r
    <3>7. ReadLine(Reader(topic, full, <<>>,
                          [type |-> type, round |-> round, content |-> part], No),
                   Indented(c[i]))
            = Reader(topic, full, <<>>,
                     [type |-> type, round |-> round,
                      content |-> Append(part, c[i])], No)
      BY <3>4, FurtherRead
    <3> QED BY <3>3, <3>5, <3>6, <3>7
  <2> QED BY <2>1, <2>2
<1> HIDE DEF u, r
<1>9. Reads(s, lines, u)
  BY <1>2, <1>3, <1>6, <1>8 DEF Reads
<1> QED BY <1>9 DEF lines, u

\* The first entries of a claim, and their lines.
ClaimOf(claim, m) ==
    [keyword |-> claim.keyword, status |-> claim.status,
     entries |-> SubSeq(claim.entries, 1, m)]

LinesOf(claim, m) == [i \in 1..m |-> EntryLines(claim.entries[i])]

LEMMA ClaimFacts ==
    ASSUME NEW claim \in SavedClaim
    PROVE  /\ claim.entries \in Seq(SavedEntry) /\ Len(claim.entries) \in Nat
           /\ \A i \in 1..Len(claim.entries) : claim.entries[i] \in SavedEntry
           /\ claim = [keyword |-> claim.keyword, status |-> claim.status,
                       entries |-> claim.entries]
           /\ claim.keyword \in Seq(STRING) /\ claim.status \in {"OPEN", "CLOSED"}
<1> DEFINE K == Seq(SavedEntry)
           C == Seq(STRING)
<1>1. SavedClaim = [keyword : C, status : {"OPEN", "CLOSED"}, entries : K]
  BY DEF SavedClaim
<1> HIDE DEF K, C
<1>2. /\ claim.entries \in K /\ claim.keyword \in C
      /\ claim.status \in {"OPEN", "CLOSED"}
      /\ claim = [keyword |-> claim.keyword, status |-> claim.status,
                  entries |-> claim.entries]
  BY <1>1
<1> USE DEF K, C
<1>3. /\ Len(claim.entries) \in Nat
      /\ \A i \in 1..Len(claim.entries) : claim.entries[i] \in SavedEntry
  BY <1>2
<1> QED BY <1>2, <1>3

LEMMA PartsOfClaim ==
    ASSUME NEW claim \in SavedClaim, NEW m \in Nat, m <= Len(claim.entries)
    PROVE  /\ ClaimOf(claim, m) \in SavedClaim
           /\ LinesOf(claim, m) \in Seq(Seq(WrittenLine))
           /\ m = 0 => /\ SubSeq(claim.entries, 1, m) = <<>>
                       /\ LinesOf(claim, m) = <<>>
           /\ m = Len(claim.entries) =>
                 /\ ClaimOf(claim, m) = claim
                 /\ LinesOf(claim, m)
                      = [i \in DOMAIN claim.entries |-> EntryLines(claim.entries[i])]
<1> DEFINE es == claim.entries
           n == Len(es)
           part == SubSeq(es, 1, m)
<1>1. /\ es \in Seq(SavedEntry) /\ n \in Nat /\ m <= n
      /\ \A i \in 1..n : es[i] \in SavedEntry
      /\ claim = [keyword |-> claim.keyword, status |-> claim.status, entries |-> es]
      /\ claim.keyword \in Seq(STRING) /\ claim.status \in {"OPEN", "CLOSED"}
  BY ClaimFacts
<1>2. DOMAIN es = 1..n
  BY <1>1
<1> HIDE DEF es, n
<1>3. part \in Seq(SavedEntry)
  <2>1. \A i \in 1..m : es[i] \in SavedEntry
    BY <1>1
  <2>2. 1 \in Int /\ m \in Int
    OBVIOUS
  <2> QED BY <2>1, <2>2, SubSeqProperties
<1> HIDE DEF part
<1>4. ClaimOf(claim, m) \in SavedClaim
  <2> DEFINE K == Seq(SavedEntry)
             C == Seq(STRING)
  <2>1. part \in K /\ claim.keyword \in C /\ claim.status \in {"OPEN", "CLOSED"}
    BY <1>1, <1>3
  <2>2. SavedClaim = [keyword : C, status : {"OPEN", "CLOSED"}, entries : K]
    BY DEF SavedClaim
  <2> HIDE DEF K, C
  <2>3. [keyword |-> claim.keyword, status |-> claim.status, entries |-> part]
          \in SavedClaim
    BY <2>1, <2>2
  <2> QED BY <2>3 DEF ClaimOf, part, es
<1>5. LinesOf(claim, m) \in Seq(Seq(WrittenLine))
  <2> DEFINE X == Seq(WrittenLine)
  <2>1. \A i \in 1..m : EntryLines(es[i]) \in X
    <3>1. \A i \in 1..m : es[i] \in SavedEntry
      BY <1>1
    <3> QED BY <3>1, EntryLinesFacts
  <2> HIDE DEF X
  <2>2. [i \in 1..m |-> EntryLines(es[i])] \in Seq(X)
    BY <2>1
  <2> QED BY <2>2 DEF LinesOf, es, X
<1>6. m = 0 => part = <<>> /\ LinesOf(claim, m) = <<>>
  <2> SUFFICES ASSUME m = 0 PROVE part = <<>> /\ LinesOf(claim, m) = <<>>
    OBVIOUS
  <2>1. m < 1 /\ m \in Int /\ 1 \in Int
    OBVIOUS
  <2>2. part = <<>>
    BY <2>1, SubSeqEmpty DEF part
  <2>3. LinesOf(claim, 0) = <<>>
    BY DEF LinesOf
  <2> QED BY <2>2, <2>3
<1>7. m = n => part = es
  <2> SUFFICES ASSUME m = n PROVE SubSeq(es, 1, n) = es
    BY DEF part
  <2> QED BY <1>1 DEF n
<1>8. m = n => ClaimOf(claim, m) = claim
  BY <1>1, <1>7 DEF ClaimOf, part, es
<1>9. m = n => LinesOf(claim, m) = [i \in DOMAIN es |-> EntryLines(es[i])]
  BY <1>2 DEF LinesOf, es
<1> QED BY <1>4, <1>5, <1>6, <1>8, <1>9 DEF part, es, n

\* The last claim gets its next entry.
LEMMA NextEntry ==
    ASSUME NEW done, done \in Seq(SavedClaim), NEW claim \in SavedClaim, NEW m \in Nat,
           m + 1 <= Len(claim.entries)
    PROVE  WithEntry(Append(done, ClaimOf(claim, m)), claim.entries[m + 1])
             = Append(done, ClaimOf(claim, m + 1))
<1> DEFINE k == m + 1
           es == claim.entries
           c == ClaimOf(claim, m)
           d == ClaimOf(claim, k)
           full == Append(done, c)
           n == Len(done)
<1>1. es \in Seq(SavedEntry) /\ Len(es) \in Nat /\ k \in 1..Len(es) /\ k - 1 = m
  BY ClaimFacts
<1>2. c \in SavedClaim /\ d \in SavedClaim
  <2>1. m <= Len(claim.entries) /\ k \in Nat /\ k <= Len(claim.entries)
    BY <1>1
  <2> HIDE DEF k
  <2> QED BY <2>1, PartsOfClaim
<1> DEFINE old == SubSeq(es, 1, m)
           new == SubSeq(es, 1, k)
<1>3. new = Append(old, es[k])
  <2> HIDE DEF k, es
  <2>1. SubSeq(es, 1, k) = Append(SubSeq(es, 1, k - 1), es[k])
    <3>1. 1 \in Nat \ {0} /\ 1 <= k
      BY <1>1
    <3> QED BY <1>1, <3>1, LongerPart
  <2> QED BY <1>1, <2>1
<1>4. c.entries = old /\ [c EXCEPT !.entries = new] = d
  <2> HIDE DEF old, new
  <2>1. /\ c = [keyword |-> claim.keyword, status |-> claim.status, entries |-> old]
        /\ d = [keyword |-> claim.keyword, status |-> claim.status, entries |-> new]
    BY DEF ClaimOf, old, new
  <2> HIDE DEF c, d
  <2> QED BY <2>1
<1> HIDE DEF k, es, c, d, old, new
<1>5. n \in Nat /\ full \in Seq(SavedClaim) /\ Len(full) = n + 1 /\ full[n + 1] = c
      /\ \A i \in 1..n : full[i] = done[i]
  BY <1>2, AppendProperties
<1> HIDE DEF full
<1> DEFINE p == n + 1
           w == [full EXCEPT ![p] = d]
<1>6. WithEntry(full, es[k]) = w
  <2>1. WithEntry(full, es[k]) =
           [full EXCEPT ![Len(full)] =
              [full[Len(full)] EXCEPT
                 !.entries = Append(full[Len(full)].entries, es[k])]]
    BY Zenon DEF WithEntry
  <2>2. Len(full) = p /\ full[Len(full)] = c
    BY <1>5
  <2>3. Append(full[Len(full)].entries, es[k]) = new
    BY <1>3, <1>4, <2>2
  <2> HIDE DEF p
  <2> QED BY <1>4, <2>1, <2>2, <2>3, Zenon
<1>7. /\ w \in Seq(SavedClaim) /\ Len(w) = n + 1 /\ w[n + 1] = d
      /\ \A i \in 1..n : w[i] = done[i]
  <2>1. p \in 1..Len(full) /\ p = n + 1 /\ \A i \in 1..n : i # p /\ i \in 1..Len(full)
    BY <1>5
  <2> HIDE DEF p
  <2>2. w \in Seq(SavedClaim) /\ Len(w) = Len(full)
    BY <1>2, <1>5, <2>1, ExceptSeq
  <2>3. DOMAIN full = 1..Len(full)
    BY <1>5
  <2> QED BY <1>5, <2>1, <2>2, <2>3
<1> HIDE DEF w
<1>8. w = Append(done, d)
  BY <1>2, <1>5, <1>7, IsAppend
<1> QED BY <1>6, <1>8 DEF full, c, d, k, es

\* These lines take the reader from the claims full to the claims more.
Grows(topic, full, lines, more) ==
    \A s : Ready(s, topic, full) =>
       \E u : Reads(s, lines, u) /\ Ready(u, topic, more)

LEMMA ChunksRead ==
    ASSUME NEW L, NEW chunks, chunks \in Seq(Seq(L)), NEW topic, NEW fulls,
           \A i \in 1..Len(chunks) : Grows(topic, fulls[i - 1], chunks[i], fulls[i])
    PROVE  /\ FlattenSeq(chunks) \in Seq(L)
           /\ Grows(topic, fulls[0], FlattenSeq(chunks), fulls[Len(chunks)])
<1> DEFINE n == Len(chunks)
           K == Seq(L)
           part(m) == SubSeq(chunks, 1, m)
           G == {m \in Nat : m <= n =>
                   /\ FlattenSeq(part(m)) \in K
                   /\ Grows(topic, fulls[0], FlattenSeq(part(m)), fulls[m])}
<1>1. n \in Nat /\ \A i \in 1..n : chunks[i] \in K
  OBVIOUS
<1> HIDE DEF n, K
<1>2. 0 \in G
  <2>1. part(0) = <<>>
    <3>1. 0 < 1 /\ 0 \in Int /\ 1 \in Int
      OBVIOUS
    <3> QED BY <3>1, SubSeqEmpty
  <2>2. FlattenSeq(part(0)) = <<>>
    BY <2>1, FlattenNone
  <2>3. <<>> \in K
    BY DEF K
  <2>4. Grows(topic, fulls[0], <<>>, fulls[0])
    BY ReadsNone DEF Grows
  <2> HIDE DEF part
  <2> QED BY <2>2, <2>3, <2>4
<1>3. ASSUME NEW m \in G PROVE m + 1 \in G
  <2> DEFINE k == m + 1
  <2>1. m \in Nat /\ k \in Nat /\ k - 1 = m
    BY <1>3
  <2> HIDE DEF k, part
  <2> SUFFICES ASSUME k <= n
               PROVE  /\ FlattenSeq(part(k)) \in K
                      /\ Grows(topic, fulls[0], FlattenSeq(part(k)), fulls[k])
    BY <2>1 DEF k
  <2>2. /\ k \in 1..n /\ m <= n
        /\ FlattenSeq(part(m)) \in K
        /\ Grows(topic, fulls[0], FlattenSeq(part(m)), fulls[m])
    BY <1>1, <1>3, <2>1 DEF k
  <2>3. part(k) = Append(part(m), chunks[k])
    <3>1. 1 \in Nat \ {0} /\ k \in 1..Len(chunks) /\ 1 <= k /\ chunks \in Seq(K)
      BY <2>2 DEF n, K
    <3>2. SubSeq(chunks, 1, k) = Append(SubSeq(chunks, 1, k - 1), chunks[k])
      BY <3>1, LongerPart
    <3> QED BY <2>1, <3>2 DEF part
  <2>4. part(m) \in Seq(K) /\ chunks[k] \in K
    <3>1. /\ 1 \in Int /\ m \in Int
          /\ \A i \in 1..m : chunks[i] \in K
      BY <1>1, <2>1, <2>2
    <3>2. SubSeq(chunks, 1, m) \in Seq(K)
      BY <3>1, SubSeqProperties
    <3> QED BY <1>1, <2>2, <3>2 DEF part
  <2> DEFINE a == FlattenSeq(part(m))
             b == chunks[k]
             lines == FlattenSeq(part(k))
  <2>5. a \in Seq(L) /\ b \in Seq(L) /\ lines = a \o b
    BY <2>2, <2>3, <2>4, FlattenAppend DEF K
  <2>6. Grows(topic, fulls[0], a, fulls[m]) /\ Grows(topic, fulls[m], b, fulls[k])
    <3>1. k \in 1..Len(chunks)
      BY <2>2 DEF n
    <3>2. Grows(topic, fulls[k - 1], b, fulls[k])
      BY <3>1
    <3> QED BY <2>1, <2>2, <3>2
  <2> HIDE DEF a, b, lines
  <2>7. a \o b \in K
    BY <2>5, ConcatFacts DEF K
  <2>8. Grows(topic, fulls[0], lines, fulls[k])
    <3> SUFFICES ASSUME NEW s, Ready(s, topic, fulls[0])
                 PROVE  \E u : Reads(s, lines, u) /\ Ready(u, topic, fulls[k])
      BY DEF Grows
    <3>1. PICK t : Reads(s, a, t) /\ Ready(t, topic, fulls[m])
      BY <2>6 DEF Grows
    <3>2. PICK u : Reads(t, b, u) /\ Ready(u, topic, fulls[k])
      BY <2>6, <3>1 DEF Grows
    <3>3. Reads(s, a \o b, u)
      BY <2>5, <3>1, <3>2, ReadsOn
    <3> QED BY <2>5, <3>2, <3>3
  <2> QED BY <2>5, <2>7, <2>8 DEF lines
<1>4. n \in G
  <2>1. G \in SUBSET Nat
    OBVIOUS
  <2> HIDE DEF G
  <2>2. G = Nat
    BY <1>2, <1>3, <2>1, SetInduction
  <2> QED BY <1>1, <2>2
<1>5. part(n) = chunks
  <2>1. SubSeq(chunks, 1, Len(chunks)) = chunks
    OBVIOUS
  <2> QED BY <2>1 DEF n
<1> HIDE DEF part
<1>6. FlattenSeq(chunks) \in K /\ Grows(topic, fulls[0], FlattenSeq(chunks), fulls[n])
  BY <1>1, <1>4, <1>5
<1> QED BY <1>6 DEF n, K

\* A claim that is not there yet, with all its entries.
LEMMA ClaimRead ==
    ASSUME NEW topic, NEW done, done \in Seq(SavedClaim), NEW claim \in SavedClaim,
           \A i \in DOMAIN done : done[i].keyword # claim.keyword
    PROVE  /\ ClaimLines(claim) \in Seq(WrittenLine)
           /\ Grows(topic, done, ClaimLines(claim), Append(done, claim))
<1> DEFINE es == claim.entries
           n == Len(es)
           k == claim.keyword
           status == claim.status
           header == Line(0, ClaimHeader(k, status))
           full(m) == Append(done, ClaimOf(claim, m))
           fulls == [m \in 0..n |-> full(m)]
           chunks == LinesOf(claim, n)
           r == Reader(topic, full(0), <<>>, NoEntry, No)
<1>1. /\ n \in Nat /\ \A i \in 1..n : es[i] \in SavedEntry
      /\ k \in Seq(STRING) /\ status \in {"OPEN", "CLOSED"}
  BY ClaimFacts
<1>2. /\ chunks \in Seq(Seq(WrittenLine))
      /\ chunks = [i \in DOMAIN es |-> EntryLines(es[i])]
      /\ ClaimOf(claim, n) = claim
  BY <1>1, PartsOfClaim
<1>3. Len(chunks) = n /\ \A i \in 1..n : chunks[i] = EntryLines(es[i])
  <2> HIDE DEF es, n
  <2>1. chunks = [i \in 1..n |-> EntryLines(es[i])]
    BY DEF LinesOf, es
  <2> HIDE DEF chunks
  <2> QED BY <1>1, <2>1
<1>4. ClaimLines(claim) = <<header>> \o FlattenSeq(chunks)
  BY <1>2 DEF ClaimLines
<1>5. header \in WrittenLine
  <2>1. ClaimHeader(k, status) \in WrittenText
    BY <1>1 DEF WrittenText
  <2> QED BY <2>1, IsWritten
<1>6. \A m \in 0..n : fulls[m] = full(m)
  <2> HIDE DEF full, n
  <2> QED OBVIOUS
<1>7. full(0) = Append(done, [keyword |-> k, status |-> status, entries |-> <<>>])
  <2>1. 0 \in Nat /\ 0 <= Len(claim.entries)
    BY <1>1
  <2>2. SubSeq(claim.entries, 1, 0) = <<>>
    BY <2>1, PartsOfClaim
  <2> QED BY <2>2 DEF ClaimOf
<1>8. \A s : Ready(s, topic, done) => ReadLine(s, header) = r
  <2> SUFFICES ASSUME NEW s, Ready(s, topic, done) PROVE ReadLine(s, header) = r
    OBVIOUS
  <2> HIDE DEF k, status, full, r
  <2>1. \A i \in DOMAIN done : done[i].keyword # k
    BY DEF k
  <2>2. ReadLine(s, Line(0, ClaimHeader(k, status)))
          = Reader(topic,
                   Append(done, [keyword |-> k, status |-> status, entries |-> <<>>]),
                   <<>>, NoEntry, No)
    BY <2>1, HeaderRead
  <2> QED BY <1>7, <2>2 DEF r
<1>9. \A m \in 0..n : full(m) # <<>> /\ full(m) \in Seq(SavedClaim)
  <2> SUFFICES ASSUME NEW m \in 0..n PROVE full(m) # <<>> /\ full(m) \in Seq(SavedClaim)
    OBVIOUS
  <2>1. m \in Nat /\ m <= Len(claim.entries)
    BY <1>1
  <2>2. ClaimOf(claim, m) \in SavedClaim
    BY <2>1, PartsOfClaim
  <2> DEFINE c == ClaimOf(claim, m)
  <2> HIDE DEF c
  <2>3. Append(done, c) \in Seq(SavedClaim) /\ Append(done, c) # <<>>
    BY <2>2 DEF c
  <2> QED BY <2>3 DEF c
<1>10. ASSUME NEW i \in 1..n
       PROVE  Grows(topic, fulls[i - 1], chunks[i], fulls[i])
  <2>1. PICK j : j = i - 1
    OBVIOUS
  <2>2. /\ j \in Nat /\ j \in 0..n /\ i \in 0..n /\ i = j + 1
        /\ j + 1 <= Len(claim.entries)
        /\ es[i] \in SavedEntry /\ es[i] = claim.entries[j + 1]
    BY <1>1, <2>1
  <2> HIDE DEF n, full, fulls, chunks
  <2> DEFINE e == es[i]
  <2>3. WithEntry(full(j), claim.entries[j + 1]) = full(j + 1)
    BY <2>2, NextEntry DEF full
  <2>4. WithEntry(full(j), e) = full(i)
    BY <2>2, <2>3
  <2>5. e \in SavedEntry /\ e # NoEntry
    BY <2>2, EntryFacts
  <2>6. /\ fulls[i - 1] = full(j) /\ fulls[i] = full(i) /\ chunks[i] = EntryLines(e)
        /\ full(j) # <<>> /\ full(i) # <<>>
    BY <1>3, <1>6, <1>9, <2>1, <2>2
  <2> HIDE DEF e
  <2>7. Grows(topic, full(j), EntryLines(e), full(i))
    <3> SUFFICES ASSUME NEW s, Ready(s, topic, full(j))
                 PROVE  \E u : Reads(s, EntryLines(e), u) /\ Ready(u, topic, full(i))
      BY DEF Grows
    <3>1. Reads(s, EntryLines(e), Reader(topic, full(j), <<>>, e, No))
      BY <2>5, <2>6, EntryRead
    <3>2. Ready(Reader(topic, full(j), <<>>, e, No), topic, WithEntry(full(j), e))
      BY <2>4, <2>5, <2>6, ReaderOfEntryIsReady
    <3> QED BY <2>4, <3>1, <3>2
  <2> QED BY <2>6, <2>7
<1> HIDE DEF n, es, k, status, header, full, fulls, chunks, r
<1>11. /\ FlattenSeq(chunks) \in Seq(WrittenLine)
       /\ Grows(topic, full(0), FlattenSeq(chunks), full(n))
  <2>1. \A i \in 1..Len(chunks) : Grows(topic, fulls[i - 1], chunks[i], fulls[i])
    BY <1>3, <1>10
  <2>2. /\ FlattenSeq(chunks) \in Seq(WrittenLine)
        /\ Grows(topic, fulls[0], FlattenSeq(chunks), fulls[Len(chunks)])
    BY <1>2, <2>1, ChunksRead
  <2>3. 0 \in 0..n /\ n \in 0..n
    BY <1>1
  <2> QED BY <1>3, <1>6, <2>2, <2>3
<1> DEFINE body == FlattenSeq(chunks)
<1>12. <<header>> \in Seq(WrittenLine) /\ <<header>> \o body \in Seq(WrittenLine)
  <2>1. <<header>> \in Seq(WrittenLine)
    BY <1>5
  <2> HIDE DEF body
  <2>2. body \in Seq(WrittenLine)
    BY <1>11 DEF body
  <2> QED BY <2>1, <2>2, ConcatFacts
<1> HIDE DEF body
<1>13. Grows(topic, done, <<header>> \o body, full(n))
  <2> SUFFICES ASSUME NEW s, Ready(s, topic, done)
               PROVE  \E u : Reads(s, <<header>> \o body, u) /\ Ready(u, topic, full(n))
    BY DEF Grows
  <2>1. Reads(s, <<header>>, r)
    BY <1>8, ReadsOne
  <2>2. Ready(r, topic, full(0))
    BY ReaderIsReady DEF r
  <2>3. PICK u : Reads(r, body, u) /\ Ready(u, topic, full(n))
    BY <1>11, <2>2 DEF Grows, body
  <2>4. Reads(s, <<header>> \o body, u)
    <3>1. <<header>> \in Seq(WrittenLine) /\ body \in Seq(WrittenLine)
      BY <1>11, <1>12 DEF body
    <3> QED BY <2>1, <2>3, <3>1, ReadsOn
  <2> QED BY <2>3, <2>4
<1>14. full(n) = Append(done, claim)
  BY <1>2 DEF full
<1> QED BY <1>4, <1>12, <1>13, <1>14 DEF body

LEMMA ClaimsRead ==
    ASSUME NEW topic, NEW saved, saved \in Seq(SavedClaim),
           \A i, j \in DOMAIN saved : saved[i].keyword = saved[j].keyword => i = j
    PROVE  LET lines == FlattenSeq([i \in DOMAIN saved |-> ClaimLines(saved[i])])
           IN  lines \in Seq(WrittenLine) /\ Grows(topic, <<>>, lines, saved)
<1> DEFINE n == Len(saved)
           part(m) == SubSeq(saved, 1, m)
           fulls == [m \in 0..n |-> part(m)]
           chunks == [i \in DOMAIN saved |-> ClaimLines(saved[i])]
<1>1. /\ n \in Nat /\ DOMAIN saved = 1..n /\ saved \in Seq(SavedClaim)
      /\ \A i \in 1..n : saved[i] \in SavedClaim
  OBVIOUS
<1>2. SubSeq(saved, 1, n) = saved
  OBVIOUS
<1> HIDE DEF n
<1>3. \A m \in 0..n :
         /\ fulls[m] = part(m) /\ part(m) \in Seq(SavedClaim) /\ DOMAIN part(m) = 1..m
         /\ \A i \in 1..m : part(m)[i] = saved[i]
  <2> SUFFICES ASSUME NEW m \in 0..n
               PROVE  /\ fulls[m] = part(m) /\ part(m) \in Seq(SavedClaim)
                      /\ DOMAIN part(m) = 1..m
                      /\ \A i \in 1..m : part(m)[i] = saved[i]
    OBVIOUS
  <2>1. fulls[m] = part(m)
    <3> HIDE DEF part
    <3> QED OBVIOUS
  <2>2. /\ 1 \in Int /\ m \in Int /\ m \in Nat /\ m - 1 + 1 = m
        /\ \A i \in 1..m : saved[i] \in SavedClaim
    BY <1>1
  <2>3. /\ part(m) \in Seq(SavedClaim)
        /\ Len(part(m)) = IF 1 <= m THEN m - 1 + 1 ELSE 0
        /\ \A i \in 1..(m - 1 + 1) : part(m)[i] = saved[1 + i - 1]
    BY <2>2, SubSeqProperties
  <2> HIDE DEF part, fulls
  <2>4. Len(part(m)) = m
    BY <2>2, <2>3
  <2>5. DOMAIN part(m) = 1..m
    BY <2>3, <2>4
  <2>6. \A i \in 1..m : part(m)[i] = saved[i]
    <3> TAKE i \in 1..m
    <3>1. 1 + i - 1 = i /\ i \in 1..(m - 1 + 1)
      BY <2>2
    <3> QED BY <2>3, <3>1
  <2> QED BY <2>1, <2>3, <2>5, <2>6
<1>4. ASSUME NEW i \in 1..n
      PROVE  /\ chunks[i] \in Seq(WrittenLine)
             /\ Grows(topic, fulls[i - 1], chunks[i], fulls[i])
  <2>1. PICK m : m = i - 1
    OBVIOUS
  <2>2. m \in 0..n /\ i \in 0..n /\ i \in DOMAIN saved
        /\ \A j \in 1..m : j \in DOMAIN saved /\ j # i
    BY <1>1, <2>1
  <2> DEFINE claim == saved[i]
             done == part(m)
  <2>3. part(i) = Append(part(i - 1), saved[i])
    <3>1. 1 \in Nat \ {0} /\ 1 <= i /\ i \in 1..Len(saved)
      BY <1>1 DEF n
    <3> QED BY <3>1, LongerPart
  <2>4. /\ fulls[i - 1] = done /\ fulls[i] = Append(done, claim)
        /\ chunks[i] = ClaimLines(claim)
    <3>1. chunks[i] = ClaimLines(claim)
      BY <2>2
    <3> HIDE DEF fulls, part, chunks
    <3> QED BY <1>3, <2>1, <2>2, <2>3, <3>1
  <2>5. /\ done \in Seq(SavedClaim) /\ claim \in SavedClaim
        /\ \A j \in DOMAIN done : done[j].keyword # claim.keyword
    <3> HIDE DEF fulls, chunks
    <3>1. /\ done \in Seq(SavedClaim) /\ claim \in SavedClaim /\ DOMAIN done = 1..m
          /\ \A j \in 1..m : done[j] = saved[j]
      <4> HIDE DEF part
      <4> QED BY <1>1, <1>3, <2>2
    <3>2. ASSUME NEW j \in DOMAIN done PROVE done[j].keyword # claim.keyword
      <4>1. j \in DOMAIN saved /\ j # i /\ done[j] = saved[j]
        <5> HIDE DEF done
        <5> QED BY <2>2, <3>1
      <4>2. saved[j].keyword # saved[i].keyword
        BY <2>2, <4>1
      <4> HIDE DEF done
      <4> QED BY <4>1, <4>2
    <3> QED BY <3>1, <3>2
  <2> HIDE DEF claim, done, fulls, chunks, part
  <2>6. /\ ClaimLines(claim) \in Seq(WrittenLine)
        /\ Grows(topic, done, ClaimLines(claim), Append(done, claim))
    BY <2>5, ClaimRead
  <2> QED BY <2>4, <2>6
<1>5. chunks \in Seq(Seq(WrittenLine)) /\ Len(chunks) = n
  <2> DEFINE X == Seq(WrittenLine)
  <2>1. chunks = [i \in 1..n |-> chunks[i]]
    BY <1>1
  <2>2. \A i \in 1..n : chunks[i] \in X
    BY <1>4
  <2> HIDE DEF X, chunks
  <2> QED BY <1>1, <2>1, <2>2 DEF X
<1> DEFINE lines == FlattenSeq(chunks)
<1>6. /\ lines \in Seq(WrittenLine)
      /\ Grows(topic, fulls[0], lines, fulls[n])
  <2> HIDE DEF chunks, fulls
  <2>1. \A i \in 1..Len(chunks) : Grows(topic, fulls[i - 1], chunks[i], fulls[i])
    BY <1>4, <1>5
  <2>2. /\ FlattenSeq(chunks) \in Seq(WrittenLine)
        /\ Grows(topic, fulls[0], FlattenSeq(chunks), fulls[Len(chunks)])
    BY <1>5, <2>1, ChunksRead
  <2> QED BY <1>5, <2>2
<1>7. fulls[0] = <<>> /\ fulls[n] = saved
  <2>1. 0 \in 0..n /\ n \in 0..n
    BY <1>1
  <2>2. part(0) = <<>>
    <3>1. 0 < 1 /\ 0 \in Int /\ 1 \in Int
      OBVIOUS
    <3> QED BY <3>1, SubSeqEmpty
  <2>3. part(n) = saved
    BY <1>2
  <2> HIDE DEF part, fulls
  <2> QED BY <1>3, <2>1, <2>2, <2>3
<1> HIDE DEF chunks, fulls
<1>8. lines \in Seq(WrittenLine) /\ Grows(topic, <<>>, lines, saved)
  BY <1>6, <1>7
<1> QED BY <1>8 DEF chunks

-----------------------------------------------------------------------------
(* What stands before and after the claims. *)

BeforeClaims(topic) == Reader(topic, <<>>, <<>>, NoEntry, No)

LEMMA NothingIsRead == NothingRead = BeforeClaims(<<>>)
BY Zenon DEF NothingRead, BeforeClaims, Reader, No

\* A line before the claims that begins neither them nor the responses.
LEMMA FrontLineRead ==
    ASSUME NEW topic, NEW line, line.text.form \notin {"claim", "unmatched"}
    PROVE  ReadLine(BeforeClaims(topic), line)
             = IF topic = <<>> /\ line.text.form \notin {"heading", "rule", "blank"}
               THEN BeforeClaims(<<Line(0, line.text)>>)
               ELSE BeforeClaims(topic)
<1> DEFINE s == BeforeClaims(topic)
           first == <<Line(0, line.text)>>
<1>1. /\ s.topic = topic /\ s.claims = <<>> /\ s.entry = NoEntry
      /\ ~s.failed /\ ~s.auditing
  BY ReaderFields, NotAuditing DEF BeforeClaims
<1>2. PutTopic(s, first) = BeforeClaims(first)
  BY FieldChanges DEF BeforeClaims
<1>3. line # Line(0, UnmatchedHeader)
  <2>1. Line(0, UnmatchedHeader).text.form = "unmatched"
    BY DEF Line, UnmatchedHeader
  <2> QED BY <2>1
<1> HIDE DEF s
<1>4. ReadLine(s, line) = ReadTopic(s, line)
  <2>1. ReadClaimLine(s, line) = ReadTopic(s, line)
    BY <1>1 DEF ReadClaimLine
  <2> QED BY <1>1, <1>3, <2>1 DEF ReadLine
<1>5. ReadTopic(s, line)
        = IF topic = <<>> /\ line.text.form \notin {"heading", "rule", "blank"}
          THEN PutTopic(s, first) ELSE s
  BY <1>1 DEF ReadTopic, PutTopic
<1> QED BY <1>2, <1>4, <1>5 DEF s

LEMMA TwoLinesRead ==
    ASSUME NEW topic, NEW text, text.form \in {"heading", "rule"}
    PROVE  Reads(BeforeClaims(topic), <<Line(0, text), Empty>>, BeforeClaims(topic))
<1> DEFINE s == BeforeClaims(topic)
           a == Line(0, text)
           q == [i \in 0..2 |-> s]
           lines == <<a, Empty>>
<1>1. a.text.form \in {"heading", "rule"} /\ Empty.text.form = "blank"
  BY DEF Line, Empty, BlankText
<1> HIDE DEF a, s
<1>2. ReadLine(s, a) = s /\ ReadLine(s, Empty) = s
  BY <1>1, FrontLineRead DEF s
<1>3. /\ Len(lines) = 2 /\ q[0] = s /\ q[2] = s
      /\ lines[1] = a /\ lines[2] = Empty
      /\ \A i \in 1..2 : q[i] = s /\ q[i - 1] = s
  OBVIOUS
<1> HIDE DEF q, lines
<1>4. \A i \in 1..2 : q[i] = ReadLine(q[i - 1], lines[i])
  <2> TAKE i \in 1..2
  <2>1. i = 1 \/ i = 2
    OBVIOUS
  <2> QED BY <1>2, <1>3, <2>1
<1>5. Reads(s, lines, s)
  BY <1>3, <1>4 DEF Reads
<1> QED BY <1>5 DEF s, a, lines

\* What a reader takes for the topic, unless it looks like a header.
TopicRead(topic) ==
    IF {topic[i].text.form : i \in DOMAIN topic} \subseteq {"heading", "rule"}
    THEN <<>> ELSE topic

NotAHeader(topic) ==
    {topic[i].text.form : i \in DOMAIN topic} \cap {"claim", "unmatched"} = {}

LEMMA TopicLinesRead ==
    ASSUME NEW topic \in Topics, NotAHeader(topic)
    PROVE  /\ TopicLines(topic) \in Seq(WrittenLine)
           /\ Reads(BeforeClaims(<<>>), TopicLines(topic),
                    BeforeClaims(TopicRead(topic)))
<1>1. CASE topic = <<>>
  <2>1. DOMAIN topic = {}
    BY <1>1
  <2>2. {topic[i].text.form : i \in DOMAIN topic} = {}
    BY <2>1
  <2>3. TopicRead(topic) = <<>>
    BY <2>2 DEF TopicRead
  <2>4. TopicLines(topic) = <<>>
    BY <1>1 DEF TopicLines
  <2> QED BY <2>3, <2>4, ReadsNone
<1>2. CASE topic # <<>>
  <2> DEFINE line == topic[1]
             form == line.text.form
             kept == TopicRead(topic)
             head == Line(0, Heading("topic"))
  <2>1. /\ topic \in Seq(ContentLine) /\ Len(topic) = 1
        /\ line.indent = 0 /\ form # "blank"
    BY <1>2, FileAssumption
  <2>2. topic = <<line>> /\ line \in ContentLine /\ DOMAIN topic = {1}
    BY <2>1
  <2>3. {topic[i].text.form : i \in DOMAIN topic} = {form}
    BY <2>2
  <2>4. form \notin {"claim", "unmatched"}
    BY <2>3 DEF NotAHeader
  <2>5. kept = IF form \in {"heading", "rule"} THEN <<>> ELSE topic
    BY <2>3 DEF TopicRead
  <2>6. line = Line(0, line.text) /\ line.text \in Phrases
    BY <2>1, <2>2 DEF ContentLine, Line
  <2>7. topic = <<Line(0, line.text)>>
    BY <2>2, <2>6
  <2> HIDE DEF line, kept
  <2>8. ReadLine(BeforeClaims(<<>>), line) = BeforeClaims(kept)
    <3>1. ReadLine(BeforeClaims(<<>>), line)
            = IF form \notin {"heading", "rule", "blank"}
              THEN BeforeClaims(<<Line(0, line.text)>>) ELSE BeforeClaims(<<>>)
      BY <2>4, FrontLineRead
    <3> HIDE DEF form
    <3>2. CASE form \in {"heading", "rule"}
      BY <2>5, <3>1, <3>2
    <3>3. CASE form \notin {"heading", "rule"}
      BY <2>1, <2>5, <2>7, <3>1, <3>3
    <3> QED BY <3>2, <3>3
  <2>9. /\ head.text.form = "heading" /\ Empty.text.form = "blank"
        /\ head \in WrittenLine /\ Empty \in WrittenLine /\ line \in WrittenLine
    <3>1. head.text.form = "heading" /\ Empty.text.form = "blank"
      BY DEF Line, Heading, Empty, BlankText
    <3>2. Heading("topic") \in WrittenText /\ BlankText \in WrittenText
          /\ line.text \in WrittenText
      BY <2>6 DEF WrittenText
    <3>3. /\ head \in WrittenLine /\ Empty \in WrittenLine
          /\ Line(0, line.text) \in WrittenLine
      BY <3>2, IsWritten DEF Empty
    <3> QED BY <2>6, <3>1, <3>3
  <2> HIDE DEF head, form
  <2>10. /\ ReadLine(BeforeClaims(<<>>), head) = BeforeClaims(<<>>)
         /\ ReadLine(BeforeClaims(kept), Empty) = BeforeClaims(kept)
    BY <2>9, FrontLineRead
  <2> DEFINE a == <<head>>
             c == <<Empty>>
             ab == a \o topic
  <2>11. /\ Reads(BeforeClaims(<<>>), a, BeforeClaims(<<>>))
         /\ Reads(BeforeClaims(<<>>), topic, BeforeClaims(kept))
         /\ Reads(BeforeClaims(kept), c, BeforeClaims(kept))
    BY <2>2, <2>8, <2>10, ReadsOne
  <2>12. a \in Seq(WrittenLine) /\ c \in Seq(WrittenLine) /\ topic \in Seq(WrittenLine)
    BY <2>2, <2>9
  <2>13. TopicLines(topic) = ab \o c
    BY <1>2 DEF TopicLines, head
  <2> HIDE DEF a, c
  <2>14. ab \in Seq(WrittenLine) /\ ab \o c \in Seq(WrittenLine)
    <3>1. ab \in Seq(WrittenLine)
      BY <2>12, ConcatFacts
    <3> HIDE DEF ab
    <3> QED BY <2>12, <3>1, ConcatFacts
  <2>15. Reads(BeforeClaims(<<>>), ab, BeforeClaims(kept))
    BY <2>11, <2>12, ReadsOn
  <2> HIDE DEF ab
  <2>16. Reads(BeforeClaims(<<>>), ab \o c, BeforeClaims(kept))
    BY <2>11, <2>12, <2>14, <2>15, ReadsOn
  <2> QED BY <2>13, <2>14, <2>16 DEF kept
<1> QED BY <1>1, <1>2

\* The responses, from between two lines of the claims.
Listing(topic, full, audit) == Reader(topic, full, audit, NoEntry, Yes)

LEMMA ListBegun ==
    ASSUME NEW topic, NEW full, NEW s, Ready(s, topic, full)
    PROVE  ReadLine(s, Line(0, UnmatchedHeader)) = Listing(topic, full, <<>>)
<1> DEFINE f == Reader(topic, full, <<>>, NoEntry, No)
           line == Line(0, UnmatchedHeader)
<1>1. EntryAdded(s) = f /\ ~s.failed
  BY DEF Ready
<1>2. PutAuditing(f, Yes) = Listing(topic, full, <<>>)
  BY FieldChanges DEF Listing
<1> HIDE DEF f
<1>3. ReadLine(s, line) = [EntryAdded(s) EXCEPT !.auditing = TRUE]
  BY <1>1, Zenon DEF ReadLine
<1>4. [EntryAdded(s) EXCEPT !.auditing = TRUE] = PutAuditing(f, Yes)
  BY <1>1, Zenon DEF PutAuditing, Yes
<1> HIDE DEF line
<1>5. ReadLine(s, line) = PutAuditing(f, Yes)
  BY <1>3, <1>4, Zenon
<1> QED BY <1>2, <1>5, Zenon DEF line

LEMMA ResponseRead ==
    ASSUME NEW topic, NEW full, NEW audit, NEW item
    PROVE  ReadLine(Listing(topic, full, audit), Line(0, Json(item)))
             = Listing(topic, full, Append(audit, item))
<1> DEFINE s == Listing(topic, full, audit)
           line == Line(0, Json(item))
<1>1. s.audit = audit /\ s.auditing = Yes /\ ~s.failed
  BY ReaderFields DEF Listing
<1>2. s.auditing
  BY <1>1, Zenon DEF Yes
<1>3. PutAudit(s, Append(audit, item)) = Listing(topic, full, Append(audit, item))
  BY FieldChanges DEF Listing
<1>4. line.text.form = "json" /\ line.text.item = item
  BY DEF Line, Json
<1>5. line # Line(0, UnmatchedHeader)
  <2>1. Line(0, UnmatchedHeader).text.form = "unmatched"
    BY DEF Line, UnmatchedHeader
  <2> HIDE DEF line
  <2> QED BY <1>4, <2>1
<1> HIDE DEF s, line
<1>6. ReadLine(s, line) = PutAudit(s, Append(audit, item))
  BY <1>1, <1>2, <1>4, <1>5 DEF ReadLine, PutAudit
<1> QED BY <1>3, <1>6 DEF s, line

LEMMA AuditRead ==
    ASSUME NEW topic, NEW full, NEW s, Ready(s, topic, full), NEW audit \in Audits
    PROVE  /\ AuditLines(audit) \in Seq(WrittenLine)
           /\ \E u, x : /\ Reads(s, AuditLines(audit), u)
                        /\ EntryAdded(u) = Reader(topic, full, audit, NoEntry, x)
<1>1. CASE audit = <<>>
  <2>1. AuditLines(audit) = <<>>
    BY <1>1 DEF AuditLines
  <2>2. Reads(s, <<>>, s) /\ EntryAdded(s) = Reader(topic, full, audit, NoEntry, No)
    BY <1>1, ReadsNone DEF Ready
  <2> QED BY <2>1, <2>2
<1>2. CASE audit # <<>>
  <2> DEFINE n == Len(audit)
             head == Line(0, UnmatchedHeader)
             json == [i \in DOMAIN audit |-> Line(0, Json(audit[i]))]
             part(i) == SubSeq(audit, 1, i)
             r(i) == Listing(topic, full, part(i))
             q == [i \in 0..n |-> r(i)]
  <2>1. /\ audit \in Seq(Items) /\ n \in Nat /\ DOMAIN audit = 1..n
        /\ \A i \in 1..n : audit[i] \in Items
    <3>1. audit \in Seq(Items)
      BY FileAssumption
    <3> QED BY <3>1
  <2>2. part(n) = audit
    BY <2>1
  <2>3. part(0) = <<>>
    <3>1. 0 < 1 /\ 0 \in Int /\ 1 \in Int
      OBVIOUS
    <3> QED BY <3>1, SubSeqEmpty
  <2>4. \A i \in 1..n : part(i) = Append(part(i - 1), audit[i])
    <3> TAKE i \in 1..n
    <3>1. 1 \in Nat \ {0} /\ 1 <= i /\ i \in 1..Len(audit)
      BY <2>1
    <3> QED BY <2>1, <3>1, LongerPart
  <2>5. AuditLines(audit) = <<head>> \o json
    BY <1>2 DEF AuditLines
  <2>6. head \in WrittenLine
    <3>1. UnmatchedHeader \in WrittenText
      BY DEF WrittenText
    <3> QED BY <3>1, IsWritten
  <2>7. /\ json \in Seq(WrittenLine) /\ Len(json) = n
        /\ \A i \in 1..n : json[i] = Line(0, Json(audit[i]))
    <3>1. ASSUME NEW i \in 1..n
          PROVE  json[i] = Line(0, Json(audit[i])) /\ json[i] \in WrittenLine
      <4>1. json[i] = Line(0, Json(audit[i]))
        BY <2>1
      <4>2. Json(audit[i]) \in WrittenText
        BY <2>1 DEF WrittenText
      <4> HIDE DEF json
      <4> QED BY <4>1, <4>2, IsWritten
    <3>2. json = [i \in 1..n |-> json[i]]
      BY <2>1
    <3> HIDE DEF json, n
    <3> QED BY <2>1, <3>1, <3>2
  <2> HIDE DEF n, part, json
  <2>8. \A i \in 0..n : q[i] = r(i)
    <3> HIDE DEF r
    <3> QED OBVIOUS
  <2> HIDE DEF q
  <2>9. ASSUME NEW i \in 1..n
        PROVE  q[i] = ReadLine(q[i - 1], json[i])
    <3>1. PICK j : j = i - 1
      OBVIOUS
    <3>2. j \in 0..n /\ i \in 0..n
      BY <2>1, <3>1
    <3>3. q[i - 1] = r(j) /\ q[i] = r(i)
      <4> HIDE DEF r
      <4> QED BY <2>8, <3>1, <3>2
    <3>4. r(i) = Listing(topic, full, Append(part(j), audit[i]))
      BY <2>4, <3>1
    <3> HIDE DEF r
    <3>5. ReadLine(Listing(topic, full, part(j)), Line(0, Json(audit[i])))
            = Listing(topic, full, Append(part(j), audit[i]))
      BY ResponseRead
    <3>6. r(j) = Listing(topic, full, part(j))
      BY DEF r
    <3> QED BY <2>7, <3>3, <3>4, <3>5, <3>6
  <2>10. Reads(r(0), json, r(n))
    <3>1. 0 \in 0..n /\ n \in 0..n
      BY <2>1
    <3> HIDE DEF r
    <3>2. q[0] = r(0) /\ q[Len(json)] = r(n)
      BY <2>7, <2>8, <3>1
    <3> QED BY <2>7, <2>9, <3>2 DEF Reads
  <2>11. Reads(s, <<head>>, r(0))
    <3>1. ReadLine(s, head) = r(0)
      BY <2>3, ListBegun
    <3> HIDE DEF r, head
    <3> QED BY <3>1, ReadsOne
  <2>12. r(n) = Reader(topic, full, audit, NoEntry, Yes)
    BY <2>2 DEF Listing
  <2>13. EntryAdded(r(n)) = Reader(topic, full, audit, NoEntry, Yes)
    <3>1. EntryAdded(Reader(topic, full, audit, NoEntry, Yes))
            = Reader(topic, full, audit, NoEntry, Yes)
      BY NoEntryAdded
    <3> HIDE DEF r
    <3> QED BY <2>12, <3>1
  <2> HIDE DEF r, head
  <2> DEFINE lines == <<head>> \o json
  <2>14. lines \in Seq(WrittenLine) /\ Reads(s, lines, r(n))
    <3>1. <<head>> \in Seq(WrittenLine)
      BY <2>6
    <3> QED BY <2>7, <2>10, <2>11, <3>1, ConcatFacts, ReadsOn
  <2> HIDE DEF lines
  <2>15. AuditLines(audit) = lines
    BY <2>5 DEF lines
  <2> QED BY <2>13, <2>14, <2>15
<1> QED BY <1>1, <1>2

-----------------------------------------------------------------------------
(* The file as a whole. *)

\* What save() may be called for: every claim has its own keyword.
SavedDocument(d) ==
    /\ d.topic \in Topics /\ d.audit \in Audits /\ d.claims \in Seq(SavedClaim)
    /\ \A i, j \in DOMAIN d.claims :
          d.claims[i].keyword = d.claims[j].keyword => i = j

LEMMA FileIsRead ==
    ASSUME NEW d, SavedDocument(d), NotAHeader(d.topic)
    PROVE  \E x : Parsed(FileLines(d))
                    = Reader(TopicRead(d.topic), d.claims, d.audit, NoEntry, x)
<1> DEFINE topic == d.topic
           saved == d.claims
           audit == d.audit
           kept == TopicRead(topic)
           a == <<Line(0, Heading("file")), Empty>>
           b == TopicLines(topic)
           c == <<Line(0, Rule), Empty>>
           body == FlattenSeq([i \in DOMAIN saved |-> ClaimLines(saved[i])])
           list == AuditLines(audit)
           s == BeforeClaims(<<>>)
           t == BeforeClaims(kept)
<1>1. FileLines(d) = (((a \o b) \o c) \o body) \o list
  BY DEF FileLines
<1>2. /\ topic \in Topics /\ audit \in Audits /\ saved \in Seq(SavedClaim)
      /\ \A i, j \in DOMAIN saved : saved[i].keyword = saved[j].keyword => i = j
      /\ NotAHeader(topic)
  BY DEF SavedDocument
<1> HIDE DEF topic, saved, audit
<1>3. b \in Seq(WrittenLine) /\ Reads(s, b, t)
  BY <1>2, TopicLinesRead
<1>4. body \in Seq(WrittenLine) /\ Grows(kept, <<>>, body, saved)
  BY <1>2, ClaimsRead
<1>5. a \in Seq(WrittenLine) /\ c \in Seq(WrittenLine)
  <2>1. /\ Heading("file") \in WrittenText /\ Rule \in WrittenText
        /\ BlankText \in WrittenText
    BY DEF WrittenText
  <2>2. /\ Line(0, Heading("file")) \in WrittenLine /\ Line(0, Rule) \in WrittenLine
        /\ Empty \in WrittenLine
    BY <2>1, IsWritten DEF Empty
  <2> QED BY <2>2
<1>6. Reads(s, a, s) /\ Reads(t, c, t)
  <2>1. Heading("file").form = "heading" /\ Rule.form = "rule"
    BY DEF Heading, Rule
  <2> QED BY <2>1, TwoLinesRead
<1>7. PICK u : Reads(t, body, u) /\ Ready(u, kept, saved)
  <2>1. Ready(t, kept, <<>>)
    BY ReaderIsReady DEF BeforeClaims
  <2> HIDE DEF t, body, kept
  <2> QED BY <1>4, <2>1 DEF Grows
<1>8. /\ list \in Seq(WrittenLine)
      /\ \E v, x : /\ Reads(u, list, v)
                   /\ EntryAdded(v) = Reader(kept, saved, audit, NoEntry, x)
  BY <1>2, <1>7, AuditRead
<1>9. PICK v, x : /\ Reads(u, list, v)
                  /\ EntryAdded(v) = Reader(kept, saved, audit, NoEntry, x)
  BY <1>8
<1> HIDE DEF kept, a, b, c, body, list, s, t
<1> DEFINE ab == a \o b
           abc == ab \o c
           front == abc \o body
           lines == front \o list
<1>10. ab \in Seq(WrittenLine) /\ Reads(s, ab, t)
  BY <1>3, <1>5, <1>6, ConcatFacts, ReadsOn
<1> HIDE DEF ab
<1>11. abc \in Seq(WrittenLine) /\ Reads(s, abc, t)
  BY <1>5, <1>6, <1>10, ConcatFacts, ReadsOn
<1> HIDE DEF abc
<1>12. front \in Seq(WrittenLine) /\ Reads(s, front, u)
  BY <1>4, <1>7, <1>11, ConcatFacts, ReadsOn
<1> HIDE DEF front
<1>13. lines \in Seq(WrittenLine) /\ Reads(s, lines, v)
  BY <1>8, <1>9, <1>12, ConcatFacts, ReadsOn
<1> HIDE DEF lines
<1>14. FoldLeft(ReadLine, NothingRead, lines) = v
  <2>1. Reads(NothingRead, lines, v)
    BY <1>13, NothingIsRead DEF s
  <2> QED BY <1>13, <2>1, LoopReads
<1>15. FileLines(d) = lines
  BY <1>1 DEF lines, front, abc, ab
<1>16. Parsed(FileLines(d)) = EntryAdded(v)
  BY <1>14, <1>15 DEF Parsed
<1> QED BY <1>9, <1>16 DEF kept, topic, saved, audit

LEMMA DocumentReadsBack ==
    ASSUME NEW d, SavedDocument(d)
    PROVE  ReadsBack(d, FileLines(d))
<1>1. CASE NotAHeader(d.topic)
  <2> DEFINE read == Parsed(FileLines(d))
  <2>1. PICK x : read = Reader(TopicRead(d.topic), d.claims, d.audit, NoEntry, x)
    BY <1>1, FileIsRead
  <2> HIDE DEF read
  <2>2. /\ ~read.failed /\ read.claims = d.claims /\ read.audit = d.audit
        /\ read.topic = TopicRead(d.topic)
    BY <2>1, ReaderFields
  <2> QED BY <2>2, Zenon DEF ReadsBack, TopicRead, read
<1>2. CASE ~NotAHeader(d.topic)
  BY <1>2, Zenon DEF ReadsBack, NotAHeader
<1> QED BY <1>1, <1>2

OwnKeywords ==
    \A i, j \in DOMAIN claims : claims[i].keyword = claims[j].keyword => i = j

LEMMA OwnKeywordsStep == Listed /\ OwnKeywords /\ [Next]_vars => OwnKeywords'
<1> SUFFICES ASSUME Listed, OwnKeywords, [Next]_vars PROVE OwnKeywords'
  OBVIOUS
<1>0. /\ claims \in Seq(ClaimRecord) /\ Len(claims) \in Nat
      /\ DOMAIN claims = 1..Len(claims)
  BY DEF Listed
<1>1. CASE UNCHANGED claims
  BY <1>1 DEF OwnKeywords
<1>2. CASE Propose
  <2>1. PICK k \in Proposals \ Keywords :
           claims' = Append(claims, [keyword |-> k, status |-> "OPEN"])
    BY <1>2 DEF Propose
  <2> DEFINE c == [keyword |-> k, status |-> "OPEN"]
             n == Len(claims)
             table == Append(claims, c)
  <2>2. c.keyword = k
    OBVIOUS
  <2> HIDE DEF c
  <2>3. /\ n \in Nat /\ DOMAIN table = 1..(n + 1) /\ table[n + 1] = c
        /\ \A i \in 1..n : table[i] = claims[i]
    BY <1>0
  <2>4. claims' = table
    BY <2>1 DEF c
  <2>5. \A i \in 1..n : claims[i].keyword # k
    BY <1>0 DEF Keywords
  <2> HIDE DEF n, table
  <2>6. \A i, j \in 1..n : table[i].keyword = table[j].keyword => i = j
    BY <1>0, <2>3 DEF OwnKeywords, n
  <2>7. \A i \in 1..n : table[i].keyword # table[n + 1].keyword
    BY <2>2, <2>3, <2>5
  <2>8. \A i \in 1..(n + 1) : i \in 1..n \/ i = n + 1
    BY <2>3
  <2>9. \A i, j \in DOMAIN table : table[i].keyword = table[j].keyword => i = j
    BY <2>3, <2>6, <2>7, <2>8
  <2> QED BY <2>4, <2>9 DEF OwnKeywords
<1>3. CASE Record
  <2>1. PICK valid \in BOOLEAN :
          claims' = [i \in DOMAIN claims |->
                      IF /\ response.kind = "reopen" /\ valid
                         /\ claims[i].keyword \in matched
                      THEN [claims[i] EXCEPT !.status = "REOPENING"]
                      ELSE claims[i]]
    BY <1>3 DEF Record
  <2>2. \A c \in ClaimRecord : [c EXCEPT !.status = "REOPENING"].keyword = c.keyword
    <3> DEFINE K == Seq(STRING)
    <3> HIDE DEF K
    <3> QED BY DEF ClaimRecord, K
  <2>3. /\ DOMAIN claims' = DOMAIN claims
        /\ \A i \in DOMAIN claims : claims'[i].keyword = claims[i].keyword
    BY <1>0, <2>1, <2>2
  <2> QED BY <2>3 DEF OwnKeywords
<1> QED
  BY <1>1, <1>2, <1>3 DEF Next, Merge, TargetsNext, Respond, MatchWhole,
     MatchKeyword, SkipSeparator, KeepCharacter, Finish, SaveClaims, AskHost,
     FillBatches, Batched, vars

LEMMA SaveReadsBack ==
    ASSUME Listed, OwnKeywords, SaveClaims
    PROVE  ReadsBack(document', file')
<1>1. /\ claims \in Seq(ClaimRecord) /\ Len(claims) \in Nat
      /\ DOMAIN claims = 1..Len(claims)
      /\ \A j \in DOMAIN claims : claims[j] \in ClaimRecord
  BY DEF Listed
<1>2. PICK i \in DOMAIN claims, one \in Contents, others \in Contents,
           topic \in Topics, audit \in Audits :
          document' = [topic |-> topic, audit |-> audit,
              claims |-> [j \in DOMAIN claims |->
                  [keyword |-> claims[j].keyword,
                   status |-> Written(claims[j].status),
                   entries |-> IF j = i THEN one ELSE others]]]
  BY DEF SaveClaims
<1> DEFINE c(j) == [keyword |-> claims[j].keyword,
                    status |-> Written(claims[j].status),
                    entries |-> IF j = i THEN one ELSE others]
           saved == [j \in DOMAIN claims |-> c(j)]
           d == [topic |-> topic, audit |-> audit, claims |-> saved]
<1>3. \A j \in DOMAIN claims : c(j) \in SavedClaim /\ c(j).keyword = claims[j].keyword
  <2> SUFFICES ASSUME NEW j \in DOMAIN claims
               PROVE  c(j) \in SavedClaim /\ c(j).keyword = claims[j].keyword
    OBVIOUS
  <2> DEFINE K == Seq(STRING)
             X == Seq(SavedEntry)
             es == IF j = i THEN one ELSE others
  <2>1. claims[j].keyword \in K
    <3> HIDE DEF K
    <3>1. ClaimRecord = [keyword : K, status : {"OPEN", "CLOSED", "REOPENING"}]
      BY DEF ClaimRecord, K
    <3> QED BY <1>1, <3>1
  <2>2. es \in X
    BY FileAssumption
  <2>3. Written(claims[j].status) \in {"OPEN", "CLOSED"}
    BY DEF Written
  <2>4. SavedClaim = [keyword : K, status : {"OPEN", "CLOSED"}, entries : X]
    BY DEF SavedClaim
  <2> HIDE DEF K, X, es
  <2>5. [keyword |-> claims[j].keyword, status |-> Written(claims[j].status),
         entries |-> es] \in SavedClaim
    BY <2>1, <2>2, <2>3, <2>4
  <2> QED BY <2>5 DEF es
<1> HIDE DEF c
<1>4. saved \in Seq(SavedClaim) /\ DOMAIN saved = DOMAIN claims
  <2>1. saved \in [1..Len(claims) -> SavedClaim]
    BY <1>1, <1>3
  <2> QED BY <1>1, <2>1
<1>5. \A j \in DOMAIN claims : saved[j].keyword = claims[j].keyword
  BY <1>3
<1> HIDE DEF saved
<1>6. d.topic = topic /\ d.audit = audit /\ d.claims = saved
  OBVIOUS
<1> HIDE DEF d
<1>7. SavedDocument(d)
  BY <1>4, <1>5, <1>6 DEF SavedDocument, OwnKeywords
<1>8. document' = d /\ file' = FileLines(document')
  BY <1>2 DEF SaveClaims, d, saved, c
<1> QED BY <1>7, <1>8, DocumentReadsBack

LEMMA FileReadsBackStep ==
    Listed /\ OwnKeywords /\ FileReadsBack /\ [Next]_vars => FileReadsBack'
<1> SUFFICES ASSUME Listed, OwnKeywords, FileReadsBack, [Next]_vars
             PROVE  FileReadsBack'
  OBVIOUS
<1>1. CASE SaveClaims
  BY <1>1, SaveReadsBack DEF FileReadsBack
<1>2. CASE UNCHANGED <<stage, document, file>>
  BY <1>2 DEF FileReadsBack
<1>3. CASE stage' # "saved"
  BY <1>3 DEF FileReadsBack
<1> QED
  BY <1>1, <1>2, <1>3 DEF Next, Merge, TargetsNext, Propose, Respond, MatchWhole,
     MatchKeyword, SkipSeparator, KeepCharacter, Finish, Record, Scanning, AskHost,
     FillBatches, Batched, vars, fileVars

\* What save() wrote is what a later reader finds, for all claims, contents and
\* responses, however their lines look.
THEOREM FileReadsBackHolds == Spec => []FileReadsBack
<1>1. Init => Listed /\ OwnKeywords /\ FileReadsBack
  <2>1. Init => OwnKeywords
    BY TablesAssumption DEF Init, TargetsInit, OwnKeywords
  <2>2. Init => FileReadsBack
    BY DEF Init, TargetsInit, FileReadsBack
  <2> QED BY <2>1, <2>2, ListedInitially DEF AnswersInv
<1>2. Listed /\ OwnKeywords /\ FileReadsBack /\ [Next]_vars
        => (Listed /\ OwnKeywords /\ FileReadsBack)'
  BY ListedStep, OwnKeywordsStep, FileReadsBackStep
<1> QED BY <1>1, <1>2, PTL DEF Spec
=============================================================================
