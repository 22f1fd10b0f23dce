------------------------------ MODULE ToolCache ------------------------------
(***************************************************************************)
(* _ToolResultCache (discuss_agent/conversation.py): the tool results the  *)
(* agents of one run share, with at most one call in flight for a key.     *)
(*                                                                         *)
(* The callers are the agents' tasks.  A task gives way only where execute *)
(* awaits something that is not done: the operation of a leader and the    *)
(* future of a follower.  The locked sections await nothing, so each is    *)
(* one step, together with what the task does up to its next real await;   *)
(* only the eviction loop takes several, with every other task held up.    *)
(* A task may be cancelled while it awaits and while it waits to run.      *)
(*                                                                         *)
(* A future is not an object of its own here: it is the leader's, and its  *)
(* resolution is written into the followers that wait for it.  A future    *)
(* leaves _inflight in the step that resolves it, or in the one that loses *)
(* it: the leader raises between the two.  Its followers are then          *)
(* "stranded", also when another leader runs the same key's operation.     *)
(*                                                                         *)
(* An operator marked "Mutation" is the next definition with a bug that    *)
(* the code could have.  The specification does not use it.                *)
(***************************************************************************)
EXTENDS Integers, Sequences, FiniteSets, Functions

CONSTANTS Callers,    \* the tasks that call tools
          Keys,       \* the (namespace, name, encoded arguments) in use
          MaxEntries, \* max_entries
          MaxBytes,   \* max_bytes
          Sizes,      \* the possible sizes of a result, in bytes
          MaxCalls,   \* bound: the calls each task makes
          NoCaller    \* no task

ASSUME LimitsAssumption == MaxEntries \in Nat \ {0} /\ MaxBytes \in Nat \ {0}
ASSUME SizesAssumption == Sizes \subseteq Nat
ASSUME CallsAssumption == MaxCalls \in Nat
ASSUME NoCallerAssumption == NoCaller \notin Callers

\* A tool result.  `by', the task whose operation produced it, is not stored
\* in the code.
Value == [key : Keys, size : Sizes, cacheable : BOOLEAN, by : Callers]

VARIABLES
    pc,       \* where each task is in execute
    key,      \* the key of its current or last call, any before the first
    answer,   \* what its last finished call gave it: a set of at most one value
    calls,    \* the calls it has made
    results,  \* _results, least recently used first
    bytes,    \* _size_bytes
    inflight  \* _inflight: for each key its leader, or NoCaller

vars == <<pc, key, answer, calls, results, bytes, inflight>>

\* idle: no call; looking: about to run the first locked section; leading:
\* awaits its operation; storing: in the eviction loop, with its result as
\* its answer; waiting: awaits a leader's future; served: that future has a
\* result; stranded: that future was lost; alone: awaits an operation whose
\* arguments have no key.
States == {"idle", "looking", "leading", "storing", "waiting", "served",
           "stranded", "alone"}

\* The two limits hold also while results are evicted.
WithinLimits == Len(results) <= MaxEntries /\ bytes <= MaxBytes

TypeOK ==
    /\ pc \in [Callers -> States]
    /\ key \in [Callers -> Keys]
    /\ answer \in [Callers -> SUBSET Value]
    /\ calls \in [Callers -> 0..MaxCalls]
    /\ results \in Seq(Value)
    /\ bytes \in Int
    /\ WithinLimits
    /\ inflight \in [Keys -> Callers \cup {NoCaller}]

Init ==
    /\ pc = [c \in Callers |-> "idle"]
    /\ key \in [Callers -> Keys]
    /\ answer = [c \in Callers |-> {}]
    /\ calls = [c \in Callers |-> 0]
    /\ results = << >>
    /\ bytes = 0
    /\ inflight = [k \in Keys |-> NoCaller]

CachedKeys == {v.key : v \in Range(results)}

\* No task is inside the eviction loop, so another one may run.
LoopFree == \A c \in Callers : pc[c] # "storing"

-----------------------------------------------------------------------------
(* A call and its lookup. *)

Call(c, k) ==
    /\ LoopFree
    /\ pc[c] = "idle"
    /\ calls[c] < MaxCalls
    /\ calls' = [calls EXCEPT ![c] = @ + 1]
    /\ key' = [key EXCEPT ![c] = k]
    /\ pc' = [pc EXCEPT ![c] = "looking"]
    /\ answer' = [answer EXCEPT ![c] = {}]
    /\ UNCHANGED <<results, bytes, inflight>>

\* Arguments that cannot be encoded: the operation runs past the cache.
CallUnkeyed(c) ==
    /\ LoopFree
    /\ pc[c] = "idle"
    /\ calls[c] < MaxCalls
    /\ calls' = [calls EXCEPT ![c] = @ + 1]
    /\ pc' = [pc EXCEPT ![c] = "alone"]
    /\ answer' = [answer EXCEPT ![c] = {}]
    /\ UNCHANGED <<key, results, bytes, inflight>>

ReturnUnkeyed(c) ==
    /\ LoopFree
    /\ pc[c] = "alone"
    /\ pc' = [pc EXCEPT ![c] = "idle"]
    /\ UNCHANGED <<key, answer, calls, results, bytes, inflight>>

\* move_to_end of the i-th result
MoveToEnd(s, i) ==
    SubSeq(s, 1, i - 1) \o SubSeq(s, i + 1, Len(s)) \o <<s[i]>>

\* The cached result is returned and becomes the most recently used.
Hit(c) ==
    /\ LoopFree
    /\ pc[c] = "looking"
    /\ \E i \in DOMAIN results :
          /\ results[i].key = key[c]
          /\ answer' = [answer EXCEPT ![c] = {results[i]}]
          /\ results' = MoveToEnd(results, i)
    /\ pc' = [pc EXCEPT ![c] = "idle"]
    /\ UNCHANGED <<key, calls, bytes, inflight>>

\* Mutation: the results are not looked at.
Lead_Unseeing(c) ==
    /\ LoopFree
    /\ pc[c] = "looking"
    /\ inflight[key[c]] = NoCaller
    /\ inflight' = [inflight EXCEPT ![key[c]] = c]
    /\ pc' = [pc EXCEPT ![c] = "leading"]
    /\ UNCHANGED <<key, answer, calls, results, bytes>>

Lead(c) ==
    /\ LoopFree
    /\ pc[c] = "looking"
    /\ key[c] \notin CachedKeys
    /\ inflight[key[c]] = NoCaller
    /\ inflight' = [inflight EXCEPT ![key[c]] = c]
    /\ pc' = [pc EXCEPT ![c] = "leading"]
    /\ UNCHANGED <<key, answer, calls, results, bytes>>

Follow(c) ==
    /\ LoopFree
    /\ pc[c] = "looking"
    /\ key[c] \notin CachedKeys
    /\ inflight[key[c]] # NoCaller
    /\ pc' = [pc EXCEPT ![c] = "waiting"]
    /\ UNCHANGED <<key, answer, calls, results, bytes, inflight>>

-----------------------------------------------------------------------------
(* The leader's operation ends. *)

\* The tasks that await leader c's future.
Followers(c) == {d \in Callers : pc[d] = "waiting" /\ key[d] = key[c]}

\* Mutation: a leader without a result to share resolves nothing.
Resolve_Sharing(c, own, shared) ==
    /\ pc' = [d \in Callers |->
                IF d = c THEN "idle"
                ELSE IF d \in Followers(c) /\ shared # {} THEN "served"
                ELSE pc[d]]
    /\ answer' = [d \in Callers |->
                    IF d = c THEN own
                    ELSE IF d \in Followers(c) THEN shared ELSE answer[d]]

\* Leader c leaves with `own'.  Its followers get `shared', or look again when
\* that is empty.
Resolve(c, own, shared) ==
    /\ pc' = [d \in Callers |->
                IF d = c THEN "idle"
                ELSE IF d \notin Followers(c) THEN pc[d]
                ELSE IF shared = {} THEN "looking" ELSE "served"]
    /\ answer' = [d \in Callers |->
                    IF d = c THEN own
                    ELSE IF d \in Followers(c) THEN shared ELSE answer[d]]

\* What c's operation may return.
Returned(c) ==
    [key : {key[c]}, size : Sizes, cacheable : BOOLEAN, by : {c}]

\* Mutation: any size is stored.
Storable_AnySize(v) == v.cacheable

Storable(v) == v.cacheable /\ v.size <= MaxBytes

\* Mutation: an error is shared like a result.
Shared_Always(v) == {v}

\* shared_result
Shared(v) == IF v.cacheable THEN {v} ELSE {}

\* Mutation: the leader stays registered.
LeaveInflight_Never(c) == UNCHANGED inflight

LeaveInflight(c) == inflight' = [inflight EXCEPT ![key[c]] = NoCaller]

\* The operation returns a result that is kept.  Here and in the next action
\* the size of a cacheable result can be told.
ReturnStorable(c) ==
    /\ LoopFree
    /\ pc[c] = "leading"
    /\ \E v \in Returned(c) :
          Storable(v) /\ answer' = [answer EXCEPT ![c] = {v}]
    /\ pc' = [pc EXCEPT ![c] = "storing"]
    /\ LeaveInflight(c)
    /\ UNCHANGED <<key, calls, results, bytes>>

\* It returns one that is not: an error or a result that must not be cached
\* goes to the leader alone, one too large to keep goes to the followers too.
ReturnUnstored(c) ==
    /\ LoopFree
    /\ pc[c] = "leading"
    /\ \E v \in Returned(c) :
          ~Storable(v) /\ Resolve(c, {v}, Shared(v))
    /\ LeaveInflight(c)
    /\ UNCHANGED <<key, calls, results, bytes>>

\* The operation raises, also when the leader's task is cancelled.
OperationRaises(c) ==
    /\ LoopFree
    /\ pc[c] = "leading"
    /\ Resolve(c, {}, {})
    /\ LeaveInflight(c)
    /\ UNCHANGED <<key, calls, results, bytes>>

\* The operation returns a cacheable result whose size cannot be told, as its
\* text has no encoding (a lone surrogate): the leader raises, no longer
\* registered, and nobody is left to resolve its future.
MeasuringRaises(c) ==
    /\ LoopFree
    /\ pc[c] = "leading"
    /\ pc' = [d \in Callers |->
                IF d = c THEN "idle"
                ELSE IF d \in Followers(c) THEN "stranded" ELSE pc[d]]
    /\ answer' = [answer EXCEPT ![c] = {}]
    /\ LeaveInflight(c)
    /\ UNCHANGED <<key, calls, results, bytes>>

\* Mutation: off by one in the number of entries.
MustEvict_Late(v) ==
    \/ Len(results) > MaxEntries
    \/ bytes + v.size > MaxBytes

MustEvict(v) ==
    \/ Len(results) >= MaxEntries
    \/ bytes + v.size > MaxBytes

\* Mutation: the size of the new result is given back, not the evicted one's.
Freed_New(c) == (CHOOSE v \in answer[c] : TRUE).size

Freed(c) == Head(results).size

\* popitem(last=False)
EvictOldest(c) ==
    /\ pc[c] = "storing"
    /\ \E v \in answer[c] : MustEvict(v)
    /\ results # << >>
    /\ results' = Tail(results)
    /\ bytes' = bytes - Freed(c)
    /\ UNCHANGED <<pc, key, answer, calls, inflight>>

StoreResult(c) ==
    /\ pc[c] = "storing"
    /\ \E v \in answer[c] :
          /\ ~MustEvict(v)
          /\ results' = Append(results, v)
          /\ bytes' = bytes + v.size
          /\ Resolve(c, {v}, Shared(v))
    /\ UNCHANGED <<key, calls, inflight>>

ReturnShared(c) ==
    /\ LoopFree
    /\ pc[c] = "served"
    /\ pc' = [pc EXCEPT ![c] = "idle"]
    /\ UNCHANGED <<key, answer, calls, results, bytes, inflight>>

\* A task that awaits a future is cancelled: asyncio.shield keeps the future
\* out of it.  So is one that has not run since its future was resolved.
Cancel(c) ==
    /\ LoopFree
    /\ pc[c] \in {"waiting", "served", "stranded", "looking"}
    /\ pc' = [pc EXCEPT ![c] = "idle"]
    /\ answer' = [answer EXCEPT ![c] = {}]
    /\ UNCHANGED <<key, calls, results, bytes, inflight>>

-----------------------------------------------------------------------------
Lookup(c) == Hit(c) \/ Lead(c) \/ Follow(c)

\* What task c does next once it can.
Proceed(c) ==
    \/ Lookup(c)
    \/ ReturnStorable(c) \/ ReturnUnstored(c)
    \/ OperationRaises(c) \/ MeasuringRaises(c)
    \/ EvictOldest(c) \/ StoreResult(c)
    \/ ReturnShared(c) \/ ReturnUnkeyed(c)

\* Every task has made its calls.
Finished ==
    /\ \A c \in Callers : pc[c] = "idle" /\ calls[c] = MaxCalls
    /\ UNCHANGED vars

Next ==
    \/ \E c \in Callers, k \in Keys : Call(c, k)
    \/ \E c \in Callers : CallUnkeyed(c) \/ Proceed(c) \/ Cancel(c)
    \/ Finished

\* The event loop resumes every task that is ready, and operations end.
Spec == Init /\ [][Next]_vars /\ \A c \in Callers : WF_vars(Proceed(c))

-----------------------------------------------------------------------------
(* Properties. *)

TotalSize(s) ==
    FoldFunction(LAMBDA x, y : x + y, 0, [i \in DOMAIN s |-> s[i].size])

\* At most one task runs the operation of a key, and it is the one registered.
SingleFlight ==
    \A c \in Callers, k \in Keys :
        inflight[k] = c <=> pc[c] = "leading" /\ key[c] = k

\* Nobody computes, or is about to store, a result the cache has: storing it
\* would count the replaced entry's bytes for ever.
NoRecomputation ==
    \A c \in Callers : pc[c] \in {"leading", "storing"} => key[c] \notin CachedKeys

\* The bytes in use are those of the entries, and no key is there twice.
Accounted ==
    /\ bytes = TotalSize(results)
    /\ \A i, j \in DOMAIN results : results[i].key = results[j].key => i = j

\* The eviction loop never pops from an empty cache.
EvictionFindsVictim ==
    \A c \in Callers :
        pc[c] = "storing" =>
            \A v \in answer[c] : MustEvict(v) => results # << >>

\* A task whose future has not been lost has a leader that will resolve it:
\* however a leader's operation ends, but for the one case that strands its
\* followers (MeasuringRaises), none of them is left behind.
WaitersHaveLeader ==
    \A c \in Callers :
        pc[c] = "waiting" =>
            \E d \in Callers :
                /\ pc[d] \in {"leading", "storing"}
                /\ key[d] = key[c]

\* A result that a task did not compute itself is of its own key and was
\* marked cacheable: another agent's error is never passed on.
SharedIsCacheable ==
    \A c \in Callers :
        pc[c] \in {"idle", "served"} =>
            \A v \in answer[c] :
                v.key = key[c] /\ (v.by # c => v.cacheable)

\* Every call returns or raises, however many leaders before it failed, unless
\* the future it awaits is lost; and a task stranded by that holds up no other.
CallsEndOrStrand ==
    \A c \in Callers : pc[c] # "idle" ~> pc[c] \in {"idle", "stranded"}
=============================================================================
