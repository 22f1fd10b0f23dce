-------------------------- MODULE ToolCacheProofs ---------------------------
(***************************************************************************)
(* Theorems about ToolCache, for any tasks, keys, limits and sizes.        *)
(***************************************************************************)
EXTENDS ToolCache, SequenceTheorems, FoldFacts, TLAPS

-----------------------------------------------------------------------------
(* The updates of the results. *)

\* Moving a result to the end gives a sequence of the same results.
LEMMA MoveToEndFacts ==
    ASSUME NEW S, NEW s \in Seq(S), NEW i \in DOMAIN s
    PROVE  /\ MoveToEnd(s, i) \in Seq(S)
           /\ Len(MoveToEnd(s, i)) = Len(s)
           /\ Range(MoveToEnd(s, i)) \subseteq Range(s)
<1> DEFINE T == Range(s)
<1>1. /\ i \in 1..Len(s)
      /\ Len(s) \in Nat
      /\ \A j \in 1..Len(s) : s[j] \in T
      /\ T \subseteq S
  BY RangeOfSeq DEF Range
<1>2. /\ SubSeq(s, 1, i - 1) \in Seq(T)
      /\ Len(SubSeq(s, 1, i - 1)) = i - 1
  <2>1. \A j \in 1..(i - 1) : s[j] \in T
    BY <1>1
  <2> HIDE DEF T
  <2> QED BY <1>1, <2>1, SubSeqProperties
<1>3. /\ SubSeq(s, i + 1, Len(s)) \in Seq(T)
      /\ Len(SubSeq(s, i + 1, Len(s))) = Len(s) - i
  <2>1. \A j \in (i + 1)..Len(s) : s[j] \in T
    BY <1>1
  <2> HIDE DEF T
  <2> QED BY <1>1, <2>1, SubSeqProperties
<1>4. <<s[i]>> \in Seq(T)
  BY <1>1
<1>5. /\ MoveToEnd(s, i) \in Seq(T)
      /\ Len(MoveToEnd(s, i)) = Len(s)
  <2> DEFINE A == SubSeq(s, 1, i - 1)
             B == SubSeq(s, i + 1, Len(s))
  <2>1. MoveToEnd(s, i) = A \o B \o <<s[i]>>
    BY DEF MoveToEnd
  <2>2. Len(A) + Len(B) = Len(s) - 1
    BY <1>1, <1>2, <1>3
  <2> HIDE DEF T, A, B
  <2>3. A \o B \in Seq(T) /\ Len(A \o B) = Len(s) - 1
    BY <1>2, <1>3, <2>2, ConcatProperties DEF A, B
  <2>4. Len(<<s[i]>>) = 1
    OBVIOUS
  <2>5. /\ A \o B \o <<s[i]>> \in Seq(T)
        /\ Len(A \o B \o <<s[i]>>) = Len(s) - 1 + 1
    BY <1>4, <2>3, <2>4, ConcatProperties
  <2> QED BY <1>1, <2>1, <2>5
<1> QED BY <1>1, <1>5, RangeOfSeq, SeqMonotonic

\* Dropping the first result adds none.
LEMMA TailFacts ==
    ASSUME NEW S, NEW s \in Seq(S), s # << >>
    PROVE  /\ Tail(s) \in Seq(S)
           /\ Len(Tail(s)) = Len(s) - 1
           /\ Range(Tail(s)) \subseteq Range(s)
<1>1. /\ Tail(s) \in Seq(S)
      /\ Len(s) \in Nat
      /\ Len(Tail(s)) = Len(s) - 1
      /\ \A j \in 1..Len(Tail(s)) : Tail(s)[j] = s[j + 1]
      /\ DOMAIN Tail(s) = 1..Len(Tail(s))
      /\ DOMAIN s = 1..Len(s)
  BY HeadTailProperties
<1>2. \A j \in DOMAIN Tail(s) : Tail(s)[j] \in Range(s)
  BY <1>1 DEF Range
<1> QED BY <1>1, <1>2 DEF Range

\* A new result is the only one added.
LEMMA StoreFacts ==
    ASSUME NEW S, NEW s \in Seq(S), NEW e \in S
    PROVE  /\ Append(s, e) \in Seq(S)
           /\ Len(Append(s, e)) = Len(s) + 1
           /\ Range(Append(s, e)) \subseteq Range(s) \cup {e}
<1>1. /\ Append(s, e) \in Seq(S)
      /\ Len(s) \in Nat
      /\ DOMAIN Append(s, e) = 1..(Len(s) + 1)
      /\ DOMAIN s = 1..Len(s)
      /\ \A j \in 1..Len(s) : Append(s, e)[j] = s[j]
      /\ Append(s, e)[Len(s) + 1] = e
  BY AppendProperties
<1>2. \A j \in DOMAIN Append(s, e) : Append(s, e)[j] \in Range(s) \cup {e}
  BY <1>1 DEF Range
<1> QED BY <1>1, <1>2 DEF Range

-----------------------------------------------------------------------------
(* Type correctness. *)

\* What an operation returns is a tool result.
LEMMA ReturnedIsValue ==
    ASSUME TypeOK, NEW c \in Callers
    PROVE  Returned(c) \subseteq Value
BY DEF TypeOK, Returned, Value

\* A leader's departure keeps the types of what its followers hold.
LEMMA ResolveIsTyped ==
    ASSUME TypeOK, NEW c \in Callers, NEW own \in SUBSET Value,
           NEW shared \in SUBSET Value, Resolve(c, own, shared)
    PROVE  /\ pc' \in [Callers -> States]
           /\ answer' \in [Callers -> SUBSET Value]
BY DEF TypeOK, Resolve, States

\* Every variable keeps its type, and the limits hold.
THEOREM CacheTypeCorrect == Spec => []TypeOK
<1>1. Init => TypeOK
  BY CallsAssumption, LimitsAssumption DEF Init, TypeOK, WithinLimits, States
<1>2. TypeOK /\ [Next]_vars => TypeOK'
  <2> SUFFICES ASSUME TypeOK, [Next]_vars PROVE TypeOK'
    OBVIOUS
  <2> USE CallsAssumption, SizesAssumption, LimitsAssumption DEF WithinLimits
  <2>1. ASSUME NEW c \in Callers, NEW k \in Keys, Call(c, k) PROVE TypeOK'
    BY <2>1 DEF Call, TypeOK, States
  <2>2. ASSUME NEW c \in Callers, CallUnkeyed(c) PROVE TypeOK'
    BY <2>2 DEF CallUnkeyed, TypeOK, States
  <2>3. ASSUME NEW c \in Callers, Hit(c) PROVE TypeOK'
    <3>1. PICK i \in DOMAIN results :
             /\ answer' = [answer EXCEPT ![c] = {results[i]}]
             /\ results' = MoveToEnd(results, i)
      BY <2>3 DEF Hit
    <3>2. /\ results' \in Seq(Value)
          /\ Len(results') = Len(results)
          /\ results[i] \in Value
      BY <3>1, MoveToEndFacts DEF TypeOK
    <3> QED BY <2>3, <3>1, <3>2 DEF Hit, TypeOK, States
  <2>4. ASSUME NEW c \in Callers, Lead(c) PROVE TypeOK'
    BY <2>4 DEF Lead, TypeOK, States
  <2>5. ASSUME NEW c \in Callers, Follow(c) PROVE TypeOK'
    BY <2>5 DEF Follow, TypeOK, States
  <2>6. ASSUME NEW c \in Callers, ReturnStorable(c) PROVE TypeOK'
    BY <2>6, ReturnedIsValue DEF ReturnStorable, LeaveInflight, TypeOK, States
  <2>7. ASSUME NEW c \in Callers, ReturnUnstored(c) PROVE TypeOK'
    <3>1. PICK v \in Returned(c) :
             Resolve(c, {v}, Shared(v))
      BY <2>7 DEF ReturnUnstored
    <3>2. v \in Value /\ Shared(v) \in SUBSET Value
      BY ReturnedIsValue DEF Shared
    <3>3. pc' \in [Callers -> States] /\ answer' \in [Callers -> SUBSET Value]
      BY <3>1, <3>2, ResolveIsTyped
    <3> QED BY <2>7, <3>3 DEF ReturnUnstored, LeaveInflight, TypeOK
  <2>8. ASSUME NEW c \in Callers, OperationRaises(c) PROVE TypeOK'
    <3>1. pc' \in [Callers -> States] /\ answer' \in [Callers -> SUBSET Value]
      BY <2>8, ResolveIsTyped DEF OperationRaises
    <3> QED BY <2>8, <3>1 DEF OperationRaises, LeaveInflight, TypeOK
  <2>9. ASSUME NEW c \in Callers, EvictOldest(c) PROVE TypeOK'
    <3>1. results \in Seq(Value) /\ results # << >>
      BY <2>9 DEF EvictOldest, TypeOK
    <3>2. results' \in Seq(Value) /\ Len(results') = Len(results) - 1
      BY <2>9, <3>1, TailFacts DEF EvictOldest
    <3>3. Head(results) \in Value
      BY <3>1, HeadTailProperties
    <3>4. Head(results).size \in Nat
      BY <3>3 DEF Value
    <3> QED BY <2>9, <3>1, <3>2, <3>4 DEF EvictOldest, Freed, TypeOK
  <2>10. ASSUME NEW c \in Callers, StoreResult(c) PROVE TypeOK'
    <3>1. PICK v \in answer[c] :
             /\ ~MustEvict(v)
             /\ results' = Append(results, v)
             /\ bytes' = bytes + v.size
             /\ Resolve(c, {v}, Shared(v))
      BY <2>10 DEF StoreResult
    <3>2. v \in Value /\ Shared(v) \in SUBSET Value
      BY DEF TypeOK, Shared
    <3>3. pc' \in [Callers -> States] /\ answer' \in [Callers -> SUBSET Value]
      BY <3>1, <3>2, ResolveIsTyped
    <3>4. results' \in Seq(Value) /\ Len(results') = Len(results) + 1
      BY <3>1, <3>2, StoreFacts DEF TypeOK
    <3>5. v.size \in Nat
      BY <3>2 DEF Value
    <3>6. Len(results') <= MaxEntries /\ bytes' <= MaxBytes
      BY <3>1, <3>4, <3>5 DEF MustEvict, TypeOK
    <3> QED BY <2>10, <3>1, <3>3, <3>4, <3>5, <3>6 DEF StoreResult, TypeOK
  <2>11. ASSUME NEW c \in Callers, ReturnShared(c) \/ ReturnUnkeyed(c)
         PROVE  TypeOK'
    BY <2>11 DEF ReturnShared, ReturnUnkeyed, TypeOK, States
  <2>12. ASSUME NEW c \in Callers, Cancel(c) PROVE TypeOK'
    BY <2>12 DEF Cancel, TypeOK, States
  <2>13. ASSUME NEW c \in Callers, MeasuringRaises(c) PROVE TypeOK'
    BY <2>13 DEF MeasuringRaises, LeaveInflight, TypeOK, States
  <2>14. CASE UNCHANGED vars
    BY <2>14 DEF vars, TypeOK
  <2> QED BY <2>1, <2>2, <2>3, <2>4, <2>5, <2>6, <2>7, <2>8, <2>9, <2>10,
             <2>11, <2>12, <2>13, <2>14 DEF Next, Proceed, Lookup, Finished
<1> QED BY <1>1, <1>2, PTL DEF Spec

-----------------------------------------------------------------------------
(* Safety. *)

\* A task in the eviction loop is the only one there, nobody leads its key,
\* and the result it holds is of its key and cacheable.  The results kept are
\* cacheable, and a call past the cache has taken nothing from it.
Holding ==
    /\ \A c \in Callers :
          pc[c] = "storing" =>
             /\ inflight[key[c]] = NoCaller
             /\ \A d \in Callers : pc[d] = "storing" => d = c
             /\ \A v \in answer[c] : v.key = key[c] /\ v.cacheable
    /\ \A v \in Range(results) : v.cacheable
    /\ \A c \in Callers : pc[c] = "alone" => answer[c] = {}

\* None of the four properties is inductive without the others: a task may
\* follow because a registered leader leads, and a leader may store because
\* nobody else has stored its key meanwhile.
CacheInv ==
    /\ TypeOK
    /\ SingleFlight
    /\ NoRecomputation
    /\ WaitersHaveLeader
    /\ SharedIsCacheable
    /\ Holding

\* Every step keeps the invariant.
LEMMA CacheInvIsInductive ==
    ASSUME CacheInv, TypeOK', [Next]_vars
    PROVE  CacheInv'
<1> USE NoCallerAssumption DEF CacheInv, TypeOK
<1> DEFINE Parts == /\ SingleFlight
                    /\ NoRecomputation
                    /\ WaitersHaveLeader
                    /\ SharedIsCacheable
                    /\ Holding
<1>1. ASSUME NEW c \in Callers, NEW k \in Keys, Call(c, k) PROVE Parts'
  <2>1. SingleFlight'
    BY <1>1 DEF Call, SingleFlight
  <2>2. NoRecomputation'
    BY <1>1 DEF Call, NoRecomputation, CachedKeys
  <2>3. WaitersHaveLeader'
    BY <1>1 DEF Call, WaitersHaveLeader, SingleFlight
  <2>4. SharedIsCacheable'
    BY <1>1 DEF Call, SharedIsCacheable, Holding
  <2>5. Holding'
    BY <1>1 DEF Call, Holding, LoopFree, SingleFlight
  <2> QED BY <2>1, <2>2, <2>3, <2>4, <2>5
<1>2. ASSUME NEW c \in Callers, CallUnkeyed(c) PROVE Parts'
  <2>1. SingleFlight'
    BY <1>2 DEF CallUnkeyed, SingleFlight
  <2>2. NoRecomputation'
    BY <1>2 DEF CallUnkeyed, NoRecomputation, CachedKeys
  <2>3. WaitersHaveLeader'
    BY <1>2 DEF CallUnkeyed, WaitersHaveLeader, SingleFlight
  <2>4. SharedIsCacheable'
    BY <1>2 DEF CallUnkeyed, SharedIsCacheable, Holding
  <2>5. Holding'
    BY <1>2 DEF CallUnkeyed, Holding, LoopFree, SingleFlight
  <2> QED BY <2>1, <2>2, <2>3, <2>4, <2>5
<1>3. ASSUME NEW c \in Callers, Hit(c) PROVE Parts'
  <2>1. PICK i \in DOMAIN results :
           /\ results[i].key = key[c]
           /\ answer' = [answer EXCEPT ![c] = {results[i]}]
           /\ results' = MoveToEnd(results, i)
    BY <1>3 DEF Hit
  <2>2. Range(results') \subseteq Range(results)
    BY <2>1, MoveToEndFacts
  <2>3. results[i].cacheable /\ results[i].key = key[c]
    BY <2>1 DEF Holding, Range
  <2>4. SingleFlight'
    BY <1>3 DEF Hit, SingleFlight
  <2>5. NoRecomputation'
    BY <1>3, <2>2 DEF Hit, NoRecomputation, CachedKeys
  <2>6. WaitersHaveLeader'
    BY <1>3 DEF Hit, WaitersHaveLeader, SingleFlight
  <2>7. SharedIsCacheable'
    BY <1>3, <2>1, <2>3 DEF Hit, SharedIsCacheable, Holding
  <2>8. Holding'
    BY <1>3, <2>1, <2>2 DEF Hit, Holding, LoopFree, SingleFlight
  <2> QED BY <2>4, <2>5, <2>6, <2>7, <2>8
<1>4. ASSUME NEW c \in Callers, Lead(c) PROVE Parts'
  <2>1. SingleFlight'
    BY <1>4 DEF Lead, SingleFlight
  <2>2. NoRecomputation'
    BY <1>4 DEF Lead, NoRecomputation, CachedKeys
  <2>3. WaitersHaveLeader'
    BY <1>4 DEF Lead, WaitersHaveLeader, SingleFlight
  <2>4. SharedIsCacheable'
    BY <1>4 DEF Lead, SharedIsCacheable, Holding
  <2>5. Holding'
    BY <1>4 DEF Lead, Holding, LoopFree, SingleFlight
  <2> QED BY <2>1, <2>2, <2>3, <2>4, <2>5
<1>5. ASSUME NEW c \in Callers, Follow(c) PROVE Parts'
  <2>1. SingleFlight'
    BY <1>5 DEF Follow, SingleFlight
  <2>2. NoRecomputation'
    BY <1>5 DEF Follow, NoRecomputation, CachedKeys
  <2>3. WaitersHaveLeader'
    BY <1>5 DEF Follow, WaitersHaveLeader, SingleFlight
  <2>4. SharedIsCacheable'
    BY <1>5 DEF Follow, SharedIsCacheable, Holding
  <2>5. Holding'
    BY <1>5 DEF Follow, Holding, LoopFree, SingleFlight
  <2> QED BY <2>1, <2>2, <2>3, <2>4, <2>5
<1>6. ASSUME NEW c \in Callers, ReturnStorable(c) PROVE Parts'
  <2>1. PICK v \in Returned(c) :
           v.cacheable /\ answer' = [answer EXCEPT ![c] = {v}]
    BY <1>6 DEF ReturnStorable, Storable
  <2>2. v.key = key[c]
    BY DEF Returned
  <2>3. \A d \in Callers : pc'[d] = "storing" => d = c
    BY <1>6 DEF ReturnStorable, LoopFree
  <2>4. inflight'[key'[c]] = NoCaller /\ answer'[c] = {v}
    BY <1>6, <2>1 DEF ReturnStorable, LeaveInflight
  <2>5. SingleFlight'
    BY <1>6 DEF ReturnStorable, LeaveInflight, SingleFlight
  <2>6. NoRecomputation'
    BY <1>6 DEF ReturnStorable, LeaveInflight, NoRecomputation, CachedKeys,
       SingleFlight, Holding
  <2>7. WaitersHaveLeader'
    BY <1>6 DEF ReturnStorable, LeaveInflight, WaitersHaveLeader,
       SingleFlight, Holding
  <2>8. SharedIsCacheable'
    BY <1>6, <2>1 DEF ReturnStorable, LeaveInflight, SharedIsCacheable,
       Holding, SingleFlight
  <2>9. Holding'
    <3>1. ASSUME NEW d \in Callers, pc'[d] = "storing"
          PROVE  \A w \in answer'[d] : w.key = key'[d] /\ w.cacheable
      BY <1>6, <3>1, <2>1, <2>2, <2>3, <2>4 DEF ReturnStorable
    <3>2. Range(results') = Range(results)
      BY <1>6 DEF ReturnStorable
    <3>3. \A d \in Callers : pc'[d] = "alone" => answer'[d] = {}
      BY <1>6, <2>1 DEF ReturnStorable, Holding
    <3> QED BY <2>3, <2>4, <3>1, <3>2, <3>3 DEF Holding
  <2> QED BY <2>5, <2>6, <2>7, <2>8, <2>9
<1>7. ASSUME NEW c \in Callers, ReturnUnstored(c) PROVE Parts'
  <2>1. SingleFlight'
    BY <1>7 DEF ReturnUnstored, Resolve, Followers, LeaveInflight,
       SingleFlight
  <2>2. NoRecomputation'
    BY <1>7 DEF ReturnUnstored, Resolve, Followers, LeaveInflight,
       NoRecomputation, CachedKeys
  <2>3. WaitersHaveLeader'
    BY <1>7 DEF ReturnUnstored, Resolve, Followers, LeaveInflight,
       WaitersHaveLeader, SingleFlight
  <2>4. SharedIsCacheable'
    BY <1>7 DEF ReturnUnstored, Resolve, Followers, LeaveInflight,
       SharedIsCacheable, Holding, Returned, Shared
  <2>5. Holding'
    BY <1>7 DEF ReturnUnstored, Resolve, Followers, LeaveInflight, Holding,
       LoopFree, SingleFlight
  <2> QED BY <2>1, <2>2, <2>3, <2>4, <2>5
<1>8. ASSUME NEW c \in Callers, OperationRaises(c) PROVE Parts'
  <2>1. SingleFlight'
    BY <1>8 DEF OperationRaises, Resolve, Followers, LeaveInflight,
       SingleFlight
  <2>2. NoRecomputation'
    BY <1>8 DEF OperationRaises, Resolve, Followers, LeaveInflight,
       NoRecomputation, CachedKeys
  <2>3. WaitersHaveLeader'
    BY <1>8 DEF OperationRaises, Resolve, Followers, LeaveInflight,
       WaitersHaveLeader, SingleFlight
  <2>4. SharedIsCacheable'
    BY <1>8 DEF OperationRaises, Resolve, Followers, LeaveInflight,
       SharedIsCacheable, Holding
  <2>5. Holding'
    BY <1>8 DEF OperationRaises, Resolve, Followers, LeaveInflight,
       Holding, LoopFree, SingleFlight
  <2> QED BY <2>1, <2>2, <2>3, <2>4, <2>5
<1>9. ASSUME NEW c \in Callers, EvictOldest(c) PROVE Parts'
  <2>1. Range(results') \subseteq Range(results)
    BY <1>9, TailFacts DEF EvictOldest
  <2>2. SingleFlight'
    BY <1>9 DEF EvictOldest, SingleFlight
  <2>3. NoRecomputation'
    BY <1>9, <2>1 DEF EvictOldest, NoRecomputation, CachedKeys,
       SingleFlight, Holding
  <2>4. WaitersHaveLeader'
    BY <1>9 DEF EvictOldest, WaitersHaveLeader, SingleFlight, Holding
  <2>5. SharedIsCacheable'
    BY <1>9 DEF EvictOldest, SharedIsCacheable, Holding, SingleFlight
  <2>6. Holding'
    BY <1>9, <2>1 DEF EvictOldest, Holding, LoopFree, SingleFlight
  <2> QED BY <2>2, <2>3, <2>4, <2>5, <2>6
<1>10. ASSUME NEW c \in Callers, StoreResult(c) PROVE Parts'
  <2>1. PICK v \in answer[c] :
           /\ results' = Append(results, v)
           /\ Resolve(c, {v}, Shared(v))
    BY <1>10 DEF StoreResult
  <2>2. v \in Value /\ v.key = key[c] /\ v.cacheable /\ Shared(v) = {v}
    BY <1>10 DEF StoreResult, Holding, Shared
  <2>3. Range(results') \subseteq Range(results) \cup {v}
    BY <2>1, <2>2, StoreFacts
  <2>4. SingleFlight'
    BY <1>10, <2>1 DEF StoreResult, Resolve, Followers, SingleFlight
  <2>5. NoRecomputation'
    BY <1>10, <2>1, <2>2, <2>3 DEF StoreResult, Resolve, Followers,
       NoRecomputation, CachedKeys, SingleFlight, Holding
  <2>6. WaitersHaveLeader'
    BY <1>10, <2>1 DEF StoreResult, Resolve, Followers, WaitersHaveLeader,
       SingleFlight, Holding
  <2>7. SharedIsCacheable'
    BY <1>10, <2>1, <2>2 DEF StoreResult, Resolve, Followers,
       SharedIsCacheable, Holding, SingleFlight
  <2>8. Holding'
    BY <1>10, <2>1, <2>2, <2>3 DEF StoreResult, Resolve, Followers,
       Holding, LoopFree, SingleFlight
  <2> QED BY <2>4, <2>5, <2>6, <2>7, <2>8
<1>11. ASSUME NEW c \in Callers, ReturnShared(c) PROVE Parts'
  <2>1. SingleFlight'
    BY <1>11 DEF ReturnShared, SingleFlight
  <2>2. NoRecomputation'
    BY <1>11 DEF ReturnShared, NoRecomputation, CachedKeys
  <2>3. WaitersHaveLeader'
    BY <1>11 DEF ReturnShared, WaitersHaveLeader, SingleFlight
  <2>4. SharedIsCacheable'
    BY <1>11 DEF ReturnShared, SharedIsCacheable, Holding
  <2>5. Holding'
    BY <1>11 DEF ReturnShared, Holding, LoopFree, SingleFlight
  <2> QED BY <2>1, <2>2, <2>3, <2>4, <2>5
<1>12. ASSUME NEW c \in Callers, ReturnUnkeyed(c) PROVE Parts'
  <2>1. SingleFlight'
    BY <1>12 DEF ReturnUnkeyed, SingleFlight
  <2>2. NoRecomputation'
    BY <1>12 DEF ReturnUnkeyed, NoRecomputation, CachedKeys
  <2>3. WaitersHaveLeader'
    BY <1>12 DEF ReturnUnkeyed, WaitersHaveLeader, SingleFlight
  <2>4. SharedIsCacheable'
    BY <1>12 DEF ReturnUnkeyed, SharedIsCacheable, Holding
  <2>5. Holding'
    BY <1>12 DEF ReturnUnkeyed, Holding, LoopFree, SingleFlight
  <2> QED BY <2>1, <2>2, <2>3, <2>4, <2>5
<1>13. ASSUME NEW c \in Callers, Cancel(c) PROVE Parts'
  <2>1. SingleFlight'
    BY <1>13 DEF Cancel, SingleFlight
  <2>2. NoRecomputation'
    BY <1>13 DEF Cancel, NoRecomputation, CachedKeys
  <2>3. WaitersHaveLeader'
    BY <1>13 DEF Cancel, WaitersHaveLeader, SingleFlight
  <2>4. SharedIsCacheable'
    BY <1>13 DEF Cancel, SharedIsCacheable, Holding
  <2>5. Holding'
    BY <1>13 DEF Cancel, Holding, LoopFree, SingleFlight
  <2> QED BY <2>1, <2>2, <2>3, <2>4, <2>5
<1>14. ASSUME NEW c \in Callers, MeasuringRaises(c) PROVE Parts'
  <2>1. SingleFlight'
    BY <1>14 DEF MeasuringRaises, Followers, LeaveInflight, SingleFlight
  <2>2. NoRecomputation'
    BY <1>14 DEF MeasuringRaises, Followers, LeaveInflight,
       NoRecomputation, CachedKeys
  <2>3. WaitersHaveLeader'
    BY <1>14 DEF MeasuringRaises, Followers, LeaveInflight,
       WaitersHaveLeader, SingleFlight
  <2>4. SharedIsCacheable'
    BY <1>14 DEF MeasuringRaises, Followers, LeaveInflight,
       SharedIsCacheable, Holding
  <2>5. Holding'
    BY <1>14 DEF MeasuringRaises, Followers, LeaveInflight,
       Holding, LoopFree, SingleFlight
  <2> QED BY <2>1, <2>2, <2>3, <2>4, <2>5
<1>15. CASE UNCHANGED vars
  BY <1>15 DEF vars, SingleFlight, NoRecomputation, CachedKeys,
               WaitersHaveLeader, SharedIsCacheable, Holding
<1> QED BY <1>1, <1>2, <1>3, <1>4, <1>5, <1>6, <1>7, <1>8, <1>9, <1>10, <1>11,
           <1>12, <1>13, <1>14, <1>15 DEF Next, Proceed, Lookup, Finished

\* The invariant holds in every reachable state.
LEMMA CacheInvHolds == Spec => []CacheInv
<1>1. Init => CacheInv
  <2> SUFFICES ASSUME Init PROVE CacheInv
    OBVIOUS
  <2>1. TypeOK
    BY CallsAssumption, LimitsAssumption DEF Init, TypeOK, WithinLimits, States
  <2>2. Range(results) = {}
    BY DEF Init, Range
  <2> QED BY <2>1, <2>2, NoCallerAssumption
          DEF Init, CacheInv, SingleFlight, NoRecomputation, CachedKeys,
              WaitersHaveLeader, SharedIsCacheable, Holding
<1>2. CacheInv /\ TypeOK' /\ [Next]_vars => CacheInv'
  BY CacheInvIsInductive
<1>3. Spec => []TypeOK
  BY CacheTypeCorrect
<1> QED BY <1>1, <1>2, <1>3, PTL DEF Spec

\* No two tasks ever run the operation of one key together.
THEOREM SingleFlightHolds == Spec => []SingleFlight
BY CacheInvHolds, PTL DEF CacheInv

\* No result is computed or stored for a key that has one.
THEOREM NoRecomputationHolds == Spec => []NoRecomputation
BY CacheInvHolds, PTL DEF CacheInv

\* A task whose future has not been lost never waits for a leader that is gone:
\* whichever way an operation ends, its followers go on, but for the one that
\* strands them.
THEOREM WaitersHaveLeaderHolds == Spec => []WaitersHaveLeader
BY CacheInvHolds, PTL DEF CacheInv

\* What a task gets from another one was cacheable and is of its key.
THEOREM SharedIsCacheableHolds == Spec => []SharedIsCacheable
BY CacheInvHolds, PTL DEF CacheInv

-----------------------------------------------------------------------------
(* The bytes in use. *)

SizesOf(s) == [i \in DOMAIN s |-> s[i].size]

Distinct(s) == \A i, j \in DOMAIN s : s[i].key = s[j].key => i = j

\* The total is the sum of the sizes.
LEMMA TotalSizeIsSum ==
    ASSUME NEW s
    PROVE  TotalSize(s) = SumOf(SizesOf(s))
BY DEF TotalSize, SumOf, SizesOf, FoldFunction, FoldFunctionOnSet, MapThenFoldSet

\* A size is a number.
LEMMA SizeIsInt ==
    ASSUME NEW v \in Value
    PROVE  v.size \in Nat /\ v.size \in Int
<1>1. v.size \in Sizes
  BY DEF Value
<1>2. v.size \in Nat
  BY <1>1, SizesAssumption
<1> QED BY <1>2

\* So are those of a sequence.
LEMMA SizesAreInt ==
    ASSUME NEW s \in Seq(Value)
    PROVE  /\ Len(s) \in Nat
           /\ DOMAIN s = 1..Len(s)
           /\ SizesOf(s) \in [1..Len(s) -> Int]
           /\ \A i \in 1..Len(s) : SizesOf(s)[i] = s[i].size
<1>1. Len(s) \in Nat /\ DOMAIN s = 1..Len(s)
  OBVIOUS
<1>2. \A i \in 1..Len(s) : s[i].size \in Int
  <2> TAKE i \in 1..Len(s)
  <2>1. s[i] \in Value
    OBVIOUS
  <2> QED BY <2>1, SizeIsInt
<1>3. SizesOf(s) = [i \in 1..Len(s) |-> s[i].size]
  BY <1>1 DEF SizesOf
<1> QED BY <1>1, <1>2, <1>3

\* Where a term comes from that moved to the end, or closed the gap.
LEMMA MovedFromOnePlace ==
    ASSUME NEW n \in Nat, NEW k \in 1..n, NEW i \in 1..n, NEW j \in 1..n, i < j
    PROVE  (IF i < k THEN i ELSE IF i < n THEN i + 1 ELSE k)
              # (IF j < k THEN j ELSE IF j < n THEN j + 1 ELSE k)
OBVIOUS

\* A result used moves: the total and the keys stay.
LEMMA UsedIsAccounted ==
    ASSUME NEW s \in Seq(Value), NEW k \in DOMAIN s, Distinct(s)
    PROVE  TotalSize(MoveToEnd(s, k)) = TotalSize(s) /\ Distinct(MoveToEnd(s, k))
<1> DEFINE t == MoveToEnd(s, k)
           n == Len(s)
<1>1. /\ n \in Nat \ {0}
      /\ k \in 1..n
      /\ DOMAIN s = 1..n
  OBVIOUS
<1>2. t \in Seq(Value) /\ Len(t) = n /\ DOMAIN t = 1..n
  BY MoveToEndFacts
<1>3. /\ \A i \in 1..(k - 1) : t[i] = s[i]
      /\ \A i \in k..(n - 1) : t[i] = s[i + 1]
      /\ t[n] = s[k]
  <2> DEFINE A == SubSeq(s, 1, k - 1)
             B == SubSeq(s, k + 1, n)
             C == A \o B
  <2>1. t = C \o <<s[k]>>
    BY DEF MoveToEnd
  <2>2. /\ A \in Seq(Value) /\ Len(A) = k - 1
        /\ \A i \in 1..(k - 1) : A[i] = s[i]
    BY <1>1
  <2>3. /\ B \in Seq(Value) /\ Len(B) = n - k
        /\ \A i \in 1..(n - k) : B[i] = s[k + i]
    BY <1>1
  <2> HIDE DEF A, B, n
  <2>4. /\ C \in Seq(Value) /\ Len(C) = n - 1
        /\ \A i \in 1..(k - 1) : C[i] = A[i]
        /\ \A i \in k..(n - 1) : C[i] = B[i - k + 1]
    <3>1. /\ C \in Seq(Value) /\ Len(C) = Len(A) + Len(B)
          /\ \A i \in 1..(Len(A) + Len(B)) :
                C[i] = IF i <= Len(A) THEN A[i] ELSE B[i - Len(A)]
      BY <2>2, <2>3, ConcatProperties
    <3> HIDE DEF C
    <3>2. \A i \in k..(n - 1) : i - (k - 1) = i - k + 1
      BY <1>1
    <3> QED BY <1>1, <2>2, <2>3, <3>1, <3>2
  <2>5. \A i \in k..(n - 1) : B[i - k + 1] = s[i + 1]
    <3> TAKE i \in k..(n - 1)
    <3>1. i - k + 1 \in 1..(n - k) /\ k + (i - k + 1) = i + 1
      BY <1>1
    <3> QED BY <2>3, <3>1
  <2> HIDE DEF C
  <2>6. /\ \A i \in 1..(n - 1) : (C \o <<s[k]>>)[i] = C[i]
        /\ (C \o <<s[k]>>)[n] = s[k]
    BY <1>1, <2>4
  <2> HIDE DEF t
  <2>7. \A i \in 1..(k - 1) : t[i] = s[i]
    BY <1>1, <2>1, <2>2, <2>4, <2>6
  <2>8. \A i \in k..(n - 1) : t[i] = s[i + 1]
    <3> TAKE i \in k..(n - 1)
    <3>1. i \in 1..(n - 1)
      BY <1>1
    <3> QED BY <2>1, <2>4, <2>5, <2>6, <3>1
  <2> QED BY <2>1, <2>6, <2>7, <2>8
<1> HIDE DEF t, n
<1>4. SumOf(SizesOf(t)) = SumOf(SizesOf(s))
  <2>1. /\ SizesOf(s) \in [1..n -> Int]
        /\ \A i \in 1..n : SizesOf(s)[i] = s[i].size
    BY SizesAreInt DEF n
  <2>2. /\ SizesOf(t) \in [1..n -> Int]
        /\ \A i \in 1..n : SizesOf(t)[i] = t[i].size
    BY <1>2, SizesAreInt
  <2>3. /\ \A i \in 1..(k - 1) : SizesOf(t)[i] = SizesOf(s)[i]
        /\ \A i \in k..(n - 1) : SizesOf(t)[i] = SizesOf(s)[i + 1]
        /\ SizesOf(t)[n] = SizesOf(s)[k]
    <3>1. ASSUME NEW i \in 1..n, NEW j \in 1..n, t[i] = s[j]
          PROVE  SizesOf(t)[i] = SizesOf(s)[j]
      BY <2>1, <2>2, <3>1
    <3>2. \A i \in 1..(k - 1) : i \in 1..n
      BY <1>1
    <3>3. \A i \in k..(n - 1) : i \in 1..n /\ i + 1 \in 1..n
      BY <1>1
    <3>4. n \in 1..n
      BY <1>1
    <3> QED BY <1>1, <1>3, <3>1, <3>2, <3>3, <3>4
  <2> QED BY <1>1, <2>1, <2>2, <2>3, SumOfMoved
<1>5. Distinct(t)
  <2> DEFINE from(i) == IF i < k THEN i ELSE IF i < n THEN i + 1 ELSE k
  <2>1. \A i \in 1..n : from(i) \in 1..n /\ t[i] = s[from(i)]
    BY <1>1, <1>3
  <2>2. \A i, j \in 1..n : from(i) = from(j) => i = j
    <3>1. \A i, j \in 1..n : i < j => from(i) # from(j)
      BY <1>1, MovedFromOnePlace
    <3> HIDE DEF from
    <3>2. \A i, j \in 1..n : i = j \/ i < j \/ j < i
      BY <1>1
    <3> QED BY <3>1, <3>2
  <2> HIDE DEF from
  <2> QED BY <1>1, <1>2, <2>1, <2>2 DEF Distinct
<1> QED BY <1>4, <1>5, TotalSizeIsSum DEF t

\* The oldest result goes with its bytes.
LEMMA EvictedIsAccounted ==
    ASSUME NEW s \in Seq(Value), s # << >>, Distinct(s)
    PROVE  TotalSize(Tail(s)) = TotalSize(s) - Head(s).size /\ Distinct(Tail(s))
<1> DEFINE t == Tail(s)
           n == Len(s) - 1
<1>1. /\ n \in Nat
      /\ t \in Seq(Value) /\ Len(t) = n /\ DOMAIN t = 1..n
      /\ DOMAIN s = 1..(n + 1) /\ Len(s) = n + 1
      /\ \A i \in 1..n : t[i] = s[i + 1]
      /\ Head(s) = s[1]
  BY HeadTailProperties
<1> HIDE DEF t, n
<1>2. SumOf(SizesOf(t)) = SumOf(SizesOf(s)) - SizesOf(s)[1]
  <2>1. /\ SizesOf(s) \in [1..(n + 1) -> Int]
        /\ \A i \in 1..(n + 1) : SizesOf(s)[i] = s[i].size
    BY <1>1, SizesAreInt
  <2>2. /\ SizesOf(t) \in [1..n -> Int]
        /\ \A i \in 1..n : SizesOf(t)[i] = t[i].size
    BY <1>1, SizesAreInt
  <2>3. \A i \in 1..n : SizesOf(t)[i] = SizesOf(s)[i + 1]
    <3> TAKE i \in 1..n
    <3>1. i + 1 \in 1..(n + 1)
      BY <1>1
    <3>2. SizesOf(s)[i + 1] = s[i + 1].size
      BY <2>1, <3>1
    <3>3. SizesOf(t)[i] = t[i].size
      BY <2>2
    <3> QED BY <1>1, <3>2, <3>3
  <2> QED BY <1>1, <2>1, <2>2, <2>3, SumOfRest
<1>3. SizesOf(s)[1] = Head(s).size
  BY <1>1, SizesAreInt
<1>4. Distinct(t)
  BY <1>1 DEF Distinct
<1> QED BY <1>2, <1>3, <1>4, TotalSizeIsSum DEF t

\* A new result comes with its bytes, if its key is new.
LEMMA StoredIsAccounted ==
    ASSUME NEW s \in Seq(Value), NEW v \in Value, Distinct(s),
           \A i \in DOMAIN s : s[i].key # v.key
    PROVE  TotalSize(Append(s, v)) = TotalSize(s) + v.size /\ Distinct(Append(s, v))
<1> DEFINE t == Append(s, v)
           n == Len(s)
<1>1. /\ n \in Nat
      /\ t \in Seq(Value) /\ Len(t) = n + 1 /\ DOMAIN t = 1..(n + 1)
      /\ DOMAIN s = 1..n
      /\ \A i \in 1..n : t[i] = s[i]
      /\ t[n + 1] = v
  BY AppendProperties
<1> HIDE DEF t, n
<1>2. SumOf(SizesOf(t)) = SumOf(SizesOf(s)) + SizesOf(t)[n + 1]
  <2>1. /\ SizesOf(s) \in [1..n -> Int]
        /\ \A i \in 1..n : SizesOf(s)[i] = s[i].size
    BY SizesAreInt DEF n
  <2>2. /\ SizesOf(t) \in [1..(n + 1) -> Int]
        /\ \A i \in 1..(n + 1) : SizesOf(t)[i] = t[i].size
    BY <1>1, SizesAreInt
  <2>3. \A i \in 1..n : SizesOf(t)[i] = SizesOf(s)[i]
    <3> TAKE i \in 1..n
    <3>1. i \in 1..(n + 1)
      BY <1>1
    <3>2. SizesOf(s)[i] = s[i].size
      BY <2>1
    <3>3. SizesOf(t)[i] = t[i].size
      BY <2>2, <3>1
    <3> QED BY <1>1, <3>2, <3>3
  <2> QED BY <1>1, <2>1, <2>2, <2>3, SumOfLonger
<1>3. SizesOf(t)[n + 1] = v.size
  BY <1>1, SizesAreInt
<1>4. Distinct(t)
  BY <1>1 DEF Distinct
<1> QED BY <1>2, <1>3, <1>4, TotalSizeIsSum DEF t

\* The entries account for the bytes, and the result to be stored fits an
\* empty cache.
Accounting ==
    /\ Accounted
    /\ \A c \in Callers :
          pc[c] = "storing" => \A v \in answer[c] : v.size <= MaxBytes

\* A step that stores, uses and evicts nothing keeps the accounts.
LEMMA QuietIsAccounted ==
    ASSUME Accounting, UNCHANGED <<results, bytes>>,
           \A d \in Callers :
              pc'[d] = "storing" => pc[d] = "storing" /\ answer'[d] = answer[d]
    PROVE  Accounting'
<1>1. Accounted'
  BY DEF Accounting, Accounted
<1> QED BY <1>1 DEF Accounting

\* Every step keeps them.
LEMMA AccountingIsInductive ==
    ASSUME TypeOK, CacheInv, Accounting, [Next]_vars
    PROVE  Accounting'
<1> USE DEF TypeOK
<1>1. ASSUME NEW c \in Callers, NEW k \in Keys, Call(c, k) PROVE Accounting'
  BY <1>1, QuietIsAccounted DEF Call
<1>2. ASSUME NEW c \in Callers, CallUnkeyed(c) PROVE Accounting'
  BY <1>2, QuietIsAccounted DEF CallUnkeyed
<1>3. ASSUME NEW c \in Callers, Hit(c) PROVE Accounting'
  <2>1. PICK i \in DOMAIN results :
           /\ answer' = [answer EXCEPT ![c] = {results[i]}]
           /\ results' = MoveToEnd(results, i)
    BY <1>3 DEF Hit
  <2>2. Accounted'
    <3>1. Distinct(results) /\ bytes = TotalSize(results)
      BY DEF Accounting, Accounted, Distinct
    <3>2. Distinct(results') /\ bytes = TotalSize(results')
      BY <2>1, <3>1, UsedIsAccounted
    <3>3. bytes' = bytes
      BY <1>3 DEF Hit
    <3> QED BY <3>2, <3>3 DEF Accounted, Distinct
  <2>3. ASSUME NEW d \in Callers, pc'[d] = "storing"
        PROVE  pc[d] = "storing" /\ answer'[d] = answer[d]
    BY <1>3, <2>1, <2>3 DEF Hit
  <2> QED BY <2>2, <2>3 DEF Accounting
<1>4. ASSUME NEW c \in Callers, Lead(c) \/ Follow(c) PROVE Accounting'
  BY <1>4, QuietIsAccounted DEF Lead, Follow
<1>5. ASSUME NEW c \in Callers, ReturnStorable(c) PROVE Accounting'
  <2>1. PICK v \in Returned(c) :
           Storable(v) /\ answer' = [answer EXCEPT ![c] = {v}]
    BY <1>5 DEF ReturnStorable
  <2>2. Accounted'
    BY <1>5 DEF ReturnStorable, Accounting, Accounted
  <2>3. ASSUME NEW d \in Callers, pc'[d] = "storing"
        PROVE  \A w \in answer'[d] : w.size <= MaxBytes
    <3>1. CASE d = c
      BY <2>1, <3>1 DEF Storable
    <3>2. CASE d # c
      BY <1>5, <2>1, <2>3, <3>2 DEF ReturnStorable, Accounting
    <3> QED BY <3>1, <3>2
  <2> QED BY <2>2, <2>3 DEF Accounting
<1>6. ASSUME NEW c \in Callers, NEW own, NEW shared, Resolve(c, own, shared)
      PROVE  \A d \in Callers :
                pc'[d] = "storing" => pc[d] = "storing" /\ answer'[d] = answer[d]
  BY <1>6 DEF Resolve, Followers
<1>7. ASSUME NEW c \in Callers, ReturnUnstored(c) \/ OperationRaises(c)
      PROVE  Accounting'
  BY <1>6, <1>7, QuietIsAccounted DEF ReturnUnstored, OperationRaises
<1>8. ASSUME NEW c \in Callers, EvictOldest(c) PROVE Accounting'
  <2>1. Distinct(results) /\ bytes = TotalSize(results)
    BY DEF Accounting, Accounted, Distinct
  <2>2. Distinct(results') /\ bytes' = TotalSize(results')
    BY <1>8, <2>1, EvictedIsAccounted DEF EvictOldest, Freed
  <2>3. Accounted'
    BY <2>2 DEF Accounted, Distinct
  <2> QED BY <1>8, <2>3 DEF EvictOldest, Accounting
<1>9. ASSUME NEW c \in Callers, StoreResult(c) PROVE Accounting'
  <2>1. PICK v \in answer[c] :
           /\ results' = Append(results, v)
           /\ bytes' = bytes + v.size
           /\ Resolve(c, {v}, Shared(v))
    BY <1>9 DEF StoreResult
  <2>2. /\ v \in Value
        /\ \A i \in DOMAIN results : results[i].key # v.key
    BY <1>9, <2>1 DEF StoreResult, CacheInv, Holding, NoRecomputation,
                     CachedKeys, Range
  <2>3. Distinct(results) /\ bytes = TotalSize(results)
    BY DEF Accounting, Accounted, Distinct
  <2>4. Distinct(results') /\ bytes' = TotalSize(results')
    BY <2>1, <2>2, <2>3, StoredIsAccounted
  <2>5. Accounted'
    BY <2>4 DEF Accounted, Distinct
  <2> QED BY <1>6, <2>1, <2>5 DEF Accounting
<1>10. ASSUME NEW c \in Callers, ReturnShared(c) \/ ReturnUnkeyed(c)
       PROVE  Accounting'
  BY <1>10, QuietIsAccounted DEF ReturnShared, ReturnUnkeyed
<1>11. ASSUME NEW c \in Callers, Cancel(c) PROVE Accounting'
  BY <1>11, QuietIsAccounted DEF Cancel
<1>12. ASSUME NEW c \in Callers, MeasuringRaises(c) PROVE Accounting'
  BY <1>12, QuietIsAccounted DEF MeasuringRaises
<1>13. CASE UNCHANGED vars
  BY <1>13, QuietIsAccounted DEF vars
<1> QED BY <1>1, <1>2, <1>3, <1>4, <1>5, <1>7, <1>8, <1>9, <1>10, <1>11, <1>12,
           <1>13 DEF Next, Proceed, Lookup, Finished

\* They are right from the start on.
LEMMA AccountingHolds == Spec => []Accounting
<1>1. Init => Accounting
  <2> SUFFICES ASSUME Init PROVE Accounting
    OBVIOUS
  <2>1. results = << >> /\ << >> \in Seq(Value)
    BY DEF Init
  <2>2. TotalSize(results) = 0
    <3>1. SizesOf(results) \in [1..0 -> Int]
      BY <2>1 DEF SizesOf
    <3> QED BY <3>1, SumOfNone, TotalSizeIsSum
  <2>3. Accounted
    BY <2>1, <2>2 DEF Init, Accounted
  <2> QED BY <2>3 DEF Init, Accounting
<1>2. TypeOK /\ CacheInv /\ Accounting /\ [Next]_vars => Accounting'
  BY AccountingIsInductive
<1> QED BY <1>1, <1>2, CacheTypeCorrect, CacheInvHolds, PTL DEF Spec

\* The bytes in use are always those of the entries, no key is there twice.
THEOREM AccountedHolds == Spec => []Accounted
BY AccountingHolds, PTL DEF Accounting

\* While the new result does not fit there is an old one to evict: an empty
\* cache has no bytes in use, and no result larger than the cache is stored.
THEOREM EvictionFindsVictimHolds == Spec => []EvictionFindsVictim
<1>1. TypeOK /\ Accounting => EvictionFindsVictim
  <2> SUFFICES ASSUME TypeOK, Accounting,
                      NEW c \in Callers, pc[c] = "storing",
                      NEW v \in answer[c], MustEvict(v), results = << >>
               PROVE  FALSE
    BY DEF EvictionFindsVictim
  <2>1. v.size \in Nat /\ v.size <= MaxBytes
    BY SizeIsInt DEF TypeOK, Accounting
  <2>2. bytes = 0
    <3>1. SizesOf(results) \in [1..0 -> Int]
      BY DEF SizesOf
    <3> QED BY <3>1, SumOfNone, TotalSizeIsSum DEF Accounting, Accounted
  <2>3. Len(results) = 0
    OBVIOUS
  <2> QED BY <2>1, <2>2, <2>3, LimitsAssumption DEF MustEvict
<1> QED BY <1>1, CacheTypeCorrect, AccountingHolds, PTL
=============================================================================
