---------------------------- MODULE HistoryProofs ----------------------------
(***************************************************************************)
(* What the history of a claim tells, for any number of rounds: its        *)
(* status, that nothing was said on it while it was closed, that a request *)
(* is made and decided once, and that the Host rules once a round.  Each   *)
(* is shown for an entry that is appended and for a list of decisions,     *)
(* and then for the steps.                                                 *)
(***************************************************************************)
EXTENDS DiscussionProofs

Decisive == {"REOPEN_APPROVED", "REOPEN_REJECTED"}
Spoken == {"FROM", "RESPONSE", "CONTINUE", "CLOSED"}

\* The properties of Discussion, for one history E.
Told(E, closed) ==
    closed <=> \E i \in DOMAIN E :
                  /\ E[i].type = "CLOSED"
                  /\ \A j \in DOMAIN E : j > i => E[j].type # "REOPEN_APPROVED"

Silent(E) ==
    \A i, j \in DOMAIN E :
        i < j /\ E[i].type = "CLOSED" /\ E[j].type \in Spoken =>
            \E m \in (i + 1)..(j - 1) : E[m].type = "REOPEN_APPROVED"

Once(E) ==
    /\ \A i, j \in DOMAIN E :
          /\ E[i].type = "REOPEN_REQUEST" /\ E[j].type = "REOPEN_REQUEST"
          /\ E[i].request = E[j].request
          => i = j
    /\ \A i, j \in DOMAIN E :
          /\ E[i].type \in Decisive /\ E[j].type \in Decisive
          /\ E[i].request = E[j].request
          => i = j
    /\ \A i \in DOMAIN E :
          E[i].type \in Decisive =>
             \E j \in DOMAIN E :
                /\ j < i
                /\ E[j].type = "REOPEN_REQUEST"
                /\ E[j].request = E[i].request

Single(E) ==
    \A i, j \in DOMAIN E :
        /\ i # j
        /\ E[i].round = E[j].round
        /\ E[i].type \in {"CONTINUE", "CLOSED"}
        => E[j].type \notin HostTypes

-----------------------------------------------------------------------------
(* One entry more. *)

LEMMA AppendPlaces ==
    ASSUME NEW s \in Seq(Entry), NEW e \in Entry
    PROVE  /\ Len(s) \in Nat
           /\ DOMAIN s = 1..Len(s)
           /\ DOMAIN Append(s, e) = 1..(Len(s) + 1)
           /\ \A i \in 1..Len(s) : Append(s, e)[i] = s[i]
           /\ Append(s, e)[Len(s) + 1] = e
OBVIOUS

LEMMA ToldAppend ==
    ASSUME NEW s \in Seq(Entry), NEW e \in Entry,
           NEW before \in BOOLEAN, NEW after \in BOOLEAN, Told(s, before),
           \/ e.type = "CLOSED" /\ after
           \/ e.type \notin {"CLOSED", "REOPEN_APPROVED"} /\ after = before
    PROVE  Told(Append(s, e), after)
<1> DEFINE E == Append(s, e)
           n == Len(s)
<1>1. /\ n \in Nat /\ DOMAIN s = 1..n /\ DOMAIN E = 1..(n + 1)
      /\ \A i \in 1..n : E[i] = s[i]
      /\ E[n + 1] = e
  BY AppendPlaces
<1> HIDE DEF E, n
<1>2. CASE e.type = "CLOSED" /\ after
  <2>1. n + 1 \in DOMAIN E /\ E[n + 1].type = "CLOSED"
    BY <1>1, <1>2
  <2>2. \A j \in DOMAIN E : ~(j > n + 1)
    BY <1>1
  <2> QED BY <1>2, <2>1, <2>2 DEF Told
<1>3. CASE e.type \notin {"CLOSED", "REOPEN_APPROVED"} /\ after = before
  <2>1. ASSUME after
        PROVE  \E i \in DOMAIN E :
                  /\ E[i].type = "CLOSED"
                  /\ \A j \in DOMAIN E : j > i => E[j].type # "REOPEN_APPROVED"
    <3>1. PICK i \in 1..n :
             /\ s[i].type = "CLOSED"
             /\ \A j \in 1..n : j > i => s[j].type # "REOPEN_APPROVED"
      BY <1>1, <1>3, <2>1 DEF Told
    <3> QED BY <1>1, <1>3, <3>1
  <2>2. ASSUME NEW i \in DOMAIN E, E[i].type = "CLOSED",
               \A j \in DOMAIN E : j > i => E[j].type # "REOPEN_APPROVED"
        PROVE  after
    <3>1. i \in 1..n
      BY <1>1, <1>3, <2>2
    <3> QED BY <1>1, <1>3, <2>2, <3>1 DEF Told
  <2> QED BY <2>1, <2>2 DEF Told
<1> QED BY <1>2, <1>3 DEF E

LEMMA SilentAppend ==
    ASSUME NEW s \in Seq(Entry), NEW e \in Entry, NEW closed \in BOOLEAN,
           Told(s, closed), Silent(s), closed => e.type \notin Spoken
    PROVE  Silent(Append(s, e))
<1> DEFINE E == Append(s, e)
           n == Len(s)
<1>1. /\ n \in Nat /\ DOMAIN s = 1..n /\ DOMAIN E = 1..(n + 1)
      /\ \A i \in 1..n : E[i] = s[i]
      /\ E[n + 1] = e
  BY AppendPlaces
<1> HIDE DEF E, n
<1> SUFFICES ASSUME NEW i \in DOMAIN E, NEW j \in DOMAIN E, i < j,
                    E[i].type = "CLOSED", E[j].type \in Spoken
             PROVE  \E m \in (i + 1)..(j - 1) : E[m].type = "REOPEN_APPROVED"
  BY DEF Silent, E
<1>2. CASE j \in 1..n
  <2>1. PICK m \in (i + 1)..(j - 1) : s[m].type = "REOPEN_APPROVED"
    BY <1>1, <1>2 DEF Silent
  <2> QED BY <1>1, <1>2, <2>1
<1>3. CASE j = n + 1
  <2>1. i \in 1..n /\ s[i].type = "CLOSED" /\ ~closed
    BY <1>1, <1>3
  <2>2. PICK m \in 1..n : m > i /\ s[m].type = "REOPEN_APPROVED"
    BY <1>1, <2>1 DEF Told
  <2> QED BY <1>1, <1>3, <2>1, <2>2
<1> QED BY <1>1, <1>2, <1>3

LEMMA OnceAppend ==
    ASSUME NEW s \in Seq(Entry), NEW e \in Entry, Once(s),
           e.type \notin Decisive,
           e.type = "REOPEN_REQUEST" =>
              \A i \in DOMAIN s :
                 s[i].type = "REOPEN_REQUEST" => s[i].request # e.request
    PROVE  Once(Append(s, e))
<1> DEFINE E == Append(s, e)
           n == Len(s)
<1>1. /\ n \in Nat /\ DOMAIN s = 1..n /\ DOMAIN E = 1..(n + 1)
      /\ \A i \in 1..n : E[i] = s[i]
      /\ E[n + 1] = e
  BY AppendPlaces
<1> HIDE DEF E, n
<1>2. ASSUME NEW i \in DOMAIN E, NEW j \in DOMAIN E,
             E[i].type = "REOPEN_REQUEST", E[j].type = "REOPEN_REQUEST",
             E[i].request = E[j].request
      PROVE  i = j
  BY <1>1, <1>2 DEF Once
<1>3. \A i \in DOMAIN E : E[i].type \in Decisive => i \in 1..n
  BY <1>1
<1>4. ASSUME NEW i \in DOMAIN E, NEW j \in DOMAIN E,
             E[i].type \in Decisive, E[j].type \in Decisive,
             E[i].request = E[j].request
      PROVE  i = j
  BY <1>1, <1>3, <1>4 DEF Once
<1>5. ASSUME NEW i \in DOMAIN E, E[i].type \in Decisive
      PROVE  \E j \in DOMAIN E :
                /\ j < i
                /\ E[j].type = "REOPEN_REQUEST"
                /\ E[j].request = E[i].request
  <2>1. PICK j \in 1..n :
           /\ j < i
           /\ s[j].type = "REOPEN_REQUEST"
           /\ s[j].request = s[i].request
    BY <1>1, <1>3, <1>5 DEF Once
  <2> QED BY <1>1, <1>3, <1>5, <2>1
<1> QED BY <1>2, <1>4, <1>5 DEF Once, E

LEMMA SingleAppend ==
    ASSUME NEW s \in Seq(Entry), NEW e \in Entry, Single(s),
           e.type \in HostTypes =>
              \A i \in DOMAIN s :
                 s[i].type \in HostTypes => s[i].round # e.round
    PROVE  Single(Append(s, e))
<1> DEFINE E == Append(s, e)
           n == Len(s)
<1>1. /\ n \in Nat /\ DOMAIN s = 1..n /\ DOMAIN E = 1..(n + 1)
      /\ \A i \in 1..n : E[i] = s[i]
      /\ E[n + 1] = e
  BY AppendPlaces
<1> HIDE DEF E, n
<1> SUFFICES ASSUME NEW i \in DOMAIN E, NEW j \in DOMAIN E, i # j,
                    E[i].round = E[j].round,
                    E[i].type \in {"CONTINUE", "CLOSED"},
                    E[j].type \in HostTypes
             PROVE  FALSE
  BY DEF Single, E
<1>2. E[i].type \in HostTypes
  BY DEF HostTypes
<1>3. CASE i \in 1..n /\ j \in 1..n
  BY <1>1, <1>3 DEF Single
<1>4. CASE i = n + 1 /\ j \in 1..n
  BY <1>1, <1>2, <1>4
<1>5. CASE i \in 1..n /\ j = n + 1
  BY <1>1, <1>2, <1>5
<1> QED BY <1>1, <1>3, <1>4, <1>5

-----------------------------------------------------------------------------
(* A list of decisions more. *)

\* s with decisions of round r on the requests in asked, each once.
Decides(s, t, r, asked) ==
    /\ t \in Seq(Entry)
    /\ \A i \in DOMAIN t :
          t[i].type \in Decisive /\ t[i].request \in asked /\ t[i].round = r
    /\ \A i, j \in DOMAIN t : t[i].request = t[j].request => i = j

LEMMA ConcatPlaces ==
    ASSUME NEW s \in Seq(Entry), NEW t \in Seq(Entry)
    PROVE  /\ Len(s) \in Nat /\ Len(t) \in Nat
           /\ DOMAIN s = 1..Len(s) /\ DOMAIN t = 1..Len(t)
           /\ DOMAIN (s \o t) = 1..(Len(s) + Len(t))
           /\ \A i \in 1..Len(s) : (s \o t)[i] = s[i]
           /\ \A i \in 1..Len(t) : (s \o t)[Len(s) + i] = t[i]
           /\ \A i \in 1..(Len(s) + Len(t)) :
                 \/ i \in 1..Len(s)
                 \/ /\ i > Len(s) /\ i - Len(s) \in 1..Len(t)
                    /\ (s \o t)[i] = t[i - Len(s)]
<1>1. /\ s \o t \in Seq(Entry)
      /\ Len(s \o t) = Len(s) + Len(t)
      /\ \A i \in 1..(Len(s) + Len(t)) :
            (s \o t)[i] = IF i <= Len(s) THEN s[i] ELSE t[i - Len(s)]
  BY ConcatProperties
<1>2. /\ Len(s) \in Nat /\ Len(t) \in Nat
      /\ DOMAIN s = 1..Len(s) /\ DOMAIN t = 1..Len(t)
      /\ DOMAIN (s \o t) = 1..(Len(s) + Len(t))
  BY <1>1
<1>3. \A i \in 1..Len(s) : (s \o t)[i] = s[i]
  BY <1>1, <1>2
<1>4. ASSUME NEW i \in 1..Len(t)
      PROVE  (s \o t)[Len(s) + i] = t[i]
  <2>1. /\ Len(s) + i \in 1..(Len(s) + Len(t))
        /\ ~(Len(s) + i <= Len(s))
        /\ (Len(s) + i) - Len(s) = i
    BY <1>2
  <2> QED BY <1>1, <2>1
<1>5. ASSUME NEW i \in 1..(Len(s) + Len(t)), i \notin 1..Len(s)
      PROVE  /\ i > Len(s) /\ i - Len(s) \in 1..Len(t)
             /\ (s \o t)[i] = t[i - Len(s)]
  BY <1>1, <1>2, <1>5
<1> QED BY <1>2, <1>3, <1>4, <1>5

LEMMA ToldConcat ==
    ASSUME NEW s \in Seq(Entry), NEW t, NEW r, NEW asked,
           Decides(s, t, r, asked),
           NEW before \in BOOLEAN, NEW after \in BOOLEAN, Told(s, before),
           after <=> before /\ \A i \in DOMAIN t : t[i].type # "REOPEN_APPROVED"
    PROVE  Told(s \o t, after)
<1> DEFINE E == s \o t
           n == Len(s)
           m == Len(t)
<1>1. /\ t \in Seq(Entry)
      /\ n \in Nat /\ m \in Nat
      /\ DOMAIN s = 1..n /\ DOMAIN t = 1..m /\ DOMAIN E = 1..(n + m)
      /\ \A i \in 1..n : E[i] = s[i]
      /\ \A i \in 1..m : E[n + i] = t[i]
      /\ \A i \in 1..(n + m) :
            \/ i \in 1..n
            \/ i > n /\ i - n \in 1..m /\ E[i] = t[i - n]
  BY ConcatPlaces DEF Decides
<1>2. \A i \in 1..m : t[i].type # "CLOSED"
  BY <1>1 DEF Decides, Decisive
<1> HIDE DEF E, n, m
<1>3. ASSUME after
      PROVE  \E i \in DOMAIN E :
                /\ E[i].type = "CLOSED"
                /\ \A j \in DOMAIN E : j > i => E[j].type # "REOPEN_APPROVED"
  <2>1. PICK i \in 1..n :
           /\ s[i].type = "CLOSED"
           /\ \A j \in 1..n : j > i => s[j].type # "REOPEN_APPROVED"
    BY <1>1, <1>3 DEF Told
  <2>2. i \in DOMAIN E /\ E[i].type = "CLOSED"
    BY <1>1, <2>1
  <2>3. ASSUME NEW j \in DOMAIN E, j > i
        PROVE  E[j].type # "REOPEN_APPROVED"
    <3>1. CASE j \in 1..n
      BY <1>1, <2>1, <2>3, <3>1
    <3>2. CASE j \notin 1..n
      BY <1>1, <1>3, <3>2
    <3> QED BY <3>1, <3>2
  <2> QED BY <2>2, <2>3
<1>4. ASSUME NEW i \in DOMAIN E, E[i].type = "CLOSED",
             \A j \in DOMAIN E : j > i => E[j].type # "REOPEN_APPROVED"
      PROVE  after
  <2>1. i \in 1..n
    BY <1>1, <1>2, <1>4
  <2>2. before
    BY <1>1, <1>4, <2>1 DEF Told
  <2>3. ASSUME NEW j \in 1..m
        PROVE  t[j].type # "REOPEN_APPROVED"
    <3>1. n + j \in DOMAIN E /\ n + j > i
      BY <1>1, <2>1
    <3> QED BY <1>1, <1>4, <3>1
  <2> QED BY <1>1, <2>2, <2>3
<1> QED BY <1>3, <1>4 DEF Told, E

LEMMA SilentConcat ==
    ASSUME NEW s \in Seq(Entry), NEW t, NEW r, NEW asked,
           Decides(s, t, r, asked), Silent(s)
    PROVE  Silent(s \o t)
<1> DEFINE E == s \o t
           n == Len(s)
           m == Len(t)
<1>1. /\ t \in Seq(Entry)
      /\ n \in Nat /\ m \in Nat
      /\ DOMAIN s = 1..n /\ DOMAIN t = 1..m /\ DOMAIN E = 1..(n + m)
      /\ \A i \in 1..n : E[i] = s[i]
      /\ \A i \in 1..(n + m) :
            \/ i \in 1..n
            \/ i > n /\ i - n \in 1..m /\ E[i] = t[i - n]
  BY ConcatPlaces DEF Decides
<1>2. \A i \in 1..m : t[i].type \notin Spoken
  BY <1>1 DEF Decides, Decisive, Spoken
<1> HIDE DEF E, n, m
<1> SUFFICES ASSUME NEW i \in DOMAIN E, NEW j \in DOMAIN E, i < j,
                    E[i].type = "CLOSED", E[j].type \in Spoken
             PROVE  \E p \in (i + 1)..(j - 1) : E[p].type = "REOPEN_APPROVED"
  BY DEF Silent, E
<1>3. j \in 1..n
  BY <1>1, <1>2
<1>4. i \in 1..n
  BY <1>1, <1>3
<1>5. PICK p \in (i + 1)..(j - 1) : s[p].type = "REOPEN_APPROVED"
  BY <1>1, <1>3, <1>4 DEF Silent
<1>6. p \in 1..n
  BY <1>1, <1>3, <1>4
<1> QED BY <1>1, <1>5, <1>6

\* The requests of s that no entry of s decides.
Unanswered(s) ==
    {s[i].request : i \in {j \in DOMAIN s : s[j].type = "REOPEN_REQUEST"}}
      \ {s[i].request : i \in {j \in DOMAIN s : s[j].type \in Decisive}}

LEMMA OnceConcat ==
    ASSUME NEW s \in Seq(Entry), NEW t, NEW r,
           Decides(s, t, r, Unanswered(s)), Once(s)
    PROVE  Once(s \o t)
<1> DEFINE E == s \o t
           n == Len(s)
           m == Len(t)
<1>1. /\ t \in Seq(Entry)
      /\ n \in Nat /\ m \in Nat
      /\ DOMAIN s = 1..n /\ DOMAIN t = 1..m /\ DOMAIN E = 1..(n + m)
      /\ \A i \in 1..n : E[i] = s[i]
      /\ \A i \in 1..(n + m) :
            \/ i \in 1..n
            \/ i > n /\ i - n \in 1..m /\ E[i] = t[i - n]
  BY ConcatPlaces DEF Decides
<1>2. /\ \A i \in 1..m : t[i].type # "REOPEN_REQUEST"
      /\ \A i \in 1..m : t[i].request \in Unanswered(s)
      /\ \A i, j \in 1..m : t[i].request = t[j].request => i = j
  BY <1>1 DEF Decides, Decisive
<1>3. ASSUME NEW q \in Unanswered(s)
      PROVE  /\ \E j \in 1..n : s[j].type = "REOPEN_REQUEST" /\ s[j].request = q
             /\ \A j \in 1..n : s[j].type \in Decisive => s[j].request # q
  BY <1>1, <1>3 DEF Unanswered
<1> HIDE DEF E, n, m
<1>4. ASSUME NEW i \in DOMAIN E, NEW j \in DOMAIN E,
             E[i].type = "REOPEN_REQUEST", E[j].type = "REOPEN_REQUEST",
             E[i].request = E[j].request
      PROVE  i = j
  <2>1. i \in 1..n /\ j \in 1..n
    BY <1>1, <1>2, <1>4
  <2> QED BY <1>1, <1>4, <2>1 DEF Once
<1>5. ASSUME NEW i \in DOMAIN E, NEW j \in DOMAIN E,
             E[i].type \in Decisive, E[j].type \in Decisive,
             E[i].request = E[j].request
      PROVE  i = j
  <2>1. CASE i \in 1..n /\ j \in 1..n
    BY <1>1, <1>5, <2>1 DEF Once
  <2>2. CASE i \notin 1..n /\ j \notin 1..n
    <3>1. /\ i - n \in 1..m /\ j - n \in 1..m
          /\ t[i - n].request = t[j - n].request
      BY <1>1, <1>5, <2>2
    <3>2. i - n = j - n
      BY <1>2, <3>1
    <3> QED BY <1>1, <3>2
  <2>3. CASE i \in 1..n /\ j \notin 1..n
    <3>1. t[j - n].request \in Unanswered(s) /\ E[j] = t[j - n]
      BY <1>1, <1>2, <2>3
    <3> QED BY <1>1, <1>3, <1>5, <2>3, <3>1
  <2>4. CASE i \notin 1..n /\ j \in 1..n
    <3>1. t[i - n].request \in Unanswered(s) /\ E[i] = t[i - n]
      BY <1>1, <1>2, <2>4
    <3> QED BY <1>1, <1>3, <1>5, <2>4, <3>1
  <2> QED BY <2>1, <2>2, <2>3, <2>4
<1>6. ASSUME NEW i \in DOMAIN E, E[i].type \in Decisive
      PROVE  \E j \in DOMAIN E :
                /\ j < i
                /\ E[j].type = "REOPEN_REQUEST"
                /\ E[j].request = E[i].request
  <2>1. CASE i \in 1..n
    <3>1. PICK j \in 1..n :
             /\ j < i
             /\ s[j].type = "REOPEN_REQUEST"
             /\ s[j].request = s[i].request
      BY <1>1, <1>6, <2>1 DEF Once
    <3> QED BY <1>1, <2>1, <3>1
  <2>2. CASE i \notin 1..n
    <3>1. /\ i > n /\ E[i] = t[i - n]
          /\ t[i - n].request \in Unanswered(s)
      BY <1>1, <1>2, <2>2
    <3>2. PICK j \in 1..n :
             s[j].type = "REOPEN_REQUEST" /\ s[j].request = E[i].request
      BY <1>3, <3>1
    <3>3. j \in DOMAIN E /\ j < i /\ E[j] = s[j]
      BY <1>1, <3>1
    <3> QED BY <3>2, <3>3
  <2> QED BY <2>1, <2>2
<1> QED BY <1>4, <1>5, <1>6 DEF Once, E

LEMMA SingleConcat ==
    ASSUME NEW s \in Seq(Entry), NEW t, NEW r, NEW asked,
           Decides(s, t, r, asked), Single(s),
           \A i \in DOMAIN s : s[i].type \in HostTypes => s[i].round # r
    PROVE  Single(s \o t)
<1> DEFINE E == s \o t
           n == Len(s)
           m == Len(t)
<1>1. /\ t \in Seq(Entry)
      /\ n \in Nat /\ m \in Nat
      /\ DOMAIN s = 1..n /\ DOMAIN t = 1..m /\ DOMAIN E = 1..(n + m)
      /\ \A i \in 1..n : E[i] = s[i]
      /\ \A i \in 1..(n + m) :
            \/ i \in 1..n
            \/ i > n /\ i - n \in 1..m /\ E[i] = t[i - n]
  BY ConcatPlaces DEF Decides
<1>2. \A i \in 1..m : t[i].type \in Decisive /\ t[i].round = r
  BY <1>1 DEF Decides
<1> HIDE DEF E, n, m
<1> SUFFICES ASSUME NEW i \in DOMAIN E, NEW j \in DOMAIN E, i # j,
                    E[i].round = E[j].round,
                    E[i].type \in {"CONTINUE", "CLOSED"},
                    E[j].type \in HostTypes
             PROVE  FALSE
  BY DEF Single, E
<1>3. i \in 1..n /\ E[i].type \in HostTypes
  BY <1>1, <1>2 DEF Decisive, HostTypes
<1>4. CASE j \in 1..n
  BY <1>1, <1>3, <1>4 DEF Single
<1>5. CASE j \notin 1..n
  <2>1. E[j].round = r
    BY <1>1, <1>2, <1>5
  <2> QED BY <1>1, <1>3, <2>1
<1> QED BY <1>4, <1>5

-----------------------------------------------------------------------------
(* One claim in one step. *)

\* The Host's entries in E are of round r or earlier, earlier if `fresh'.
Ruled(E, r, fresh) ==
    \A i \in DOMAIN E :
        E[i].type \in HostTypes => E[i].round <= r /\ (fresh => E[i].round < r)

\* Everything the history of claim c is held to in round r.
Chronicle(c, r, fresh) ==
    /\ Told(c.entries, IsClosed(c))
    /\ Silent(c.entries)
    /\ Once(c.entries)
    /\ Single(c.entries)
    /\ Ruled(c.entries, r, fresh)

\* d is c with an entry that its status permits.
Extended(c, d, e, r) ==
    /\ e \in Entry
    /\ d.entries = Append(c.entries, e)
    /\ \/ e.type = "RESPONSE" /\ IsOpen(c) /\ d.status = c.status
       \/ /\ e.type = "REOPEN_REQUEST" /\ IsClosed(c) /\ d.status = c.status
          /\ e.request \notin Requested(c)
       \/ /\ e.type = "CONTINUE" /\ IsOpen(c) /\ d.status = c.status
          /\ e.round = r
       \/ /\ e.type = "CLOSED" /\ IsOpen(c) /\ d.status = "CLOSED"
          /\ e.round = r

LEMMA ExtendedKeeps ==
    ASSUME NEW c \in Claim, NEW d \in Claim, NEW e, NEW r \in Nat,
           NEW fresh \in BOOLEAN,
           Chronicle(c, r, TRUE), Extended(c, d, e, r),
           fresh => e.type \notin HostTypes
    PROVE  Chronicle(d, r, fresh)
<1> DEFINE s == c.entries
<1>1. s \in Seq(Entry) /\ e \in Entry /\ d.entries = Append(s, e)
  BY DEF Claim, Extended
<1>2. IsOpen(c) => ~IsClosed(c)
  BY DEF IsOpen, IsClosed
<1>3. \/ e.type = "CLOSED" /\ IsClosed(d)
      \/ e.type \notin {"CLOSED", "REOPEN_APPROVED"} /\ IsClosed(d) = IsClosed(c)
  BY DEF Extended, IsClosed
<1>4. Told(d.entries, IsClosed(d))
  <2>1. IsClosed(c) \in BOOLEAN /\ IsClosed(d) \in BOOLEAN
    BY DEF IsClosed
  <2> QED BY <1>1, <1>3, <2>1, ToldAppend DEF Chronicle
<1>5. Silent(d.entries)
  <2>1. IsClosed(c) => e.type \notin Spoken
    BY <1>2 DEF Extended, Spoken
  <2>2. IsClosed(c) \in BOOLEAN
    BY DEF IsClosed
  <2> QED BY <1>1, <2>1, <2>2, SilentAppend DEF Chronicle
<1>6. Once(d.entries)
  <2>1. e.type \notin Decisive
    BY DEF Extended, Decisive
  <2>2. ASSUME e.type = "REOPEN_REQUEST", NEW i \in DOMAIN s,
               s[i].type = "REOPEN_REQUEST"
        PROVE  s[i].request # e.request
    <3>1. e.request \notin Requested(c)
      BY <2>2 DEF Extended
    <3>2. s[i].request \in Requested(c)
      BY <2>2 DEF Requested, EntriesOf, Range
    <3> QED BY <3>1, <3>2
  <2> QED BY <1>1, <2>1, <2>2, OnceAppend DEF Chronicle
<1>7. e.type \in HostTypes => e.round = r
  BY DEF Extended, HostTypes
<1>8. Single(d.entries)
  <2>1. \A i \in DOMAIN s : s[i].type \in HostTypes => s[i].round < r
    BY DEF Chronicle, Ruled
  <2>2. \A i \in DOMAIN s : s[i] \in Entry /\ s[i].round \in Nat
    BY <1>1 DEF Entry
  <2>3. \A i \in DOMAIN s : s[i].type \in HostTypes => s[i].round # r
    BY <2>1, <2>2
  <2> QED BY <1>1, <1>7, <2>3, SingleAppend DEF Chronicle
<1>9. Ruled(d.entries, r, fresh)
  BY <1>1, <1>7, AppendPlaces DEF Chronicle, Ruled
<1> QED BY <1>4, <1>5, <1>6, <1>8, <1>9 DEF Chronicle

\* d is c with its pending requests decided.
Answered(c, d, v, r) ==
    /\ IsClosed(c)
    /\ DecidesExactly(v, Pending(c))
    /\ d = ResolveReopenRequests(c, v, r)

LEMMA AnsweredKeeps ==
    ASSUME NEW c \in Claim, NEW d \in Claim, NEW v, NEW r \in Nat,
           Chronicle(c, r, TRUE), Answered(c, d, v, r)
    PROVE  Chronicle(d, r, FALSE)
<1> DEFINE s == c.entries
           t == [i \in 1..Len(v) |-> ResolutionEntry(v[i], r)]
<1>1. /\ s \in Seq(Entry)
      /\ d.entries = s \o t
      /\ d.status = IF SomeApproved(v) THEN "OPEN" ELSE c.status
  BY DEF Answered, Claim, ResolveReopenRequests
<1>2. /\ v \in Seq(Decision)
      /\ Len(v) \in Nat /\ DOMAIN v = 1..Len(v)
      /\ \A i \in 1..Len(v) : v[i] \in Decision /\ v[i].request \in Pending(c)
      /\ \A i, j \in 1..Len(v) : v[i].request = v[j].request => i = j
  BY DEF Answered, DecidesExactly
<1>3. /\ DOMAIN t = 1..Len(v)
      /\ \A i \in 1..Len(v) :
            /\ t[i] \in Entry
            /\ t[i].type = IF v[i].approve THEN "REOPEN_APPROVED"
                           ELSE "REOPEN_REJECTED"
            /\ t[i].request = v[i].request
            /\ t[i].round = r
  BY <1>2 DEF ResolutionEntry, Entry, Decision
<1>4. t \in Seq(Entry) /\ Len(t) = Len(v)
  BY <1>2, <1>3
<1>5. Pending(c) = Unanswered(s)
  BY DEF Pending, Requested, Resolved, EntriesOf, Range, Unanswered, Decisive
<1> HIDE DEF t
<1>6. Decides(s, t, r, Unanswered(s))
  BY <1>2, <1>3, <1>4, <1>5 DEF Decides, Decisive
<1>7. Told(d.entries, IsClosed(d))
  <2>1. IsClosed(c) \in BOOLEAN /\ IsClosed(d) \in BOOLEAN
    BY DEF IsClosed
  <2>2. IsClosed(d) <=> \A i \in DOMAIN t : t[i].type # "REOPEN_APPROVED"
    BY <1>1, <1>2, <1>3 DEF Answered, IsClosed, SomeApproved
  <2>3. IsClosed(c)
    BY DEF Answered
  <2> QED BY <1>1, <1>6, <2>1, <2>2, <2>3, ToldConcat DEF Chronicle
<1>8. Silent(d.entries)
  BY <1>1, <1>6, SilentConcat DEF Chronicle
<1>9. Once(d.entries)
  BY <1>1, <1>6, OnceConcat DEF Chronicle
<1>10. Single(d.entries)
  <2>1. \A i \in DOMAIN s : s[i].type \in HostTypes => s[i].round < r
    BY DEF Chronicle, Ruled
  <2>2. \A i \in DOMAIN s : s[i] \in Entry /\ s[i].round \in Nat
    BY <1>1 DEF Entry
  <2>3. \A i \in DOMAIN s : s[i].type \in HostTypes => s[i].round # r
    BY <2>1, <2>2
  <2> QED BY <1>1, <1>6, <2>3, SingleConcat DEF Chronicle
<1>11. Ruled(d.entries, r, FALSE)
  <2>1. \A i \in DOMAIN s : s[i].type \in HostTypes => s[i].round <= r
    BY DEF Chronicle, Ruled
  <2>2. \A i \in DOMAIN (s \o t) :
           (s \o t)[i].type \in HostTypes => (s \o t)[i].round <= r
    BY <1>1, <1>2, <1>3, <1>4, <2>1, ConcatPlaces
  <2> QED BY <1>1, <2>2 DEF Ruled
<1> QED BY <1>7, <1>8, <1>9, <1>10, <1>11 DEF Chronicle

LEMMA NewKeeps ==
    ASSUME NEW a \in Agents, NEW r \in Nat
    PROVE  Chronicle(NewClaim(a, r), r, TRUE)
<1> DEFINE E == NewClaim(a, r).entries
<1>1. DOMAIN E = {1} /\ E[1].type = "FROM"
  BY DEF NewClaim
<1>2. IsClosed(NewClaim(a, r)) = FALSE
  BY DEF NewClaim, IsClosed
<1> HIDE DEF E
<1>3. Told(E, FALSE) /\ Silent(E)
  BY <1>1 DEF Told, Silent
<1>4. Once(E) /\ Single(E)
  BY <1>1 DEF Once, Single, Decisive
<1>5. Ruled(E, r, TRUE)
  BY <1>1 DEF Ruled, HostTypes
<1> QED BY <1>2, <1>3, <1>4, <1>5 DEF Chronicle, E

LEMMA OlderKeeps ==
    ASSUME NEW c, NEW r \in Nat, Chronicle(c, r, TRUE)
    PROVE  Chronicle(c, r, FALSE)
BY DEF Chronicle, Ruled

LEMMA LaterKeeps ==
    ASSUME NEW c \in Claim, NEW r \in Nat, NEW fresh \in BOOLEAN,
           Chronicle(c, r, fresh)
    PROVE  Chronicle(c, r + 1, TRUE)
<1>1. \A i \in DOMAIN c.entries : c.entries[i].round \in Nat
  BY DEF Claim, Entry
<1>2. Ruled(c.entries, r + 1, TRUE)
  BY <1>1 DEF Chronicle, Ruled
<1> QED BY <1>2 DEF Chronicle

-----------------------------------------------------------------------------
(* The steps of a run. *)

Unruled == phase \in {"start", "agents", "merge", "judge"}

Chronicles == \A k \in Keywords : Chronicle(claims[k], round, Unruled)

LEMMA MergeKeeps ==
    ASSUME TypeOK, TypeOK', Chronicles, MergeStep, NEW k \in Keywords
    PROVE  Chronicle(claims'[k], round, TRUE)
<1>1. PICK a \in Agents :
         MergeNewClaim(a) \/ MergeResponse(a) \/ MergeReopenRequest(a)
  BY DEF MergeStep
<1>2. /\ round \in Nat
      /\ claims[k] \in Claim /\ claims'[k] \in Claim
      /\ outputs[a] \in Seq(Response)
  BY RoundsAssumption DEF TypeOK
<1>3. phase = "merge" /\ Chronicle(claims[k], round, TRUE)
  <2>1. phase = "merge"
    BY <1>1 DEF MergeNewClaim, MergeResponse, MergeReopenRequest, NextResponse
  <2>2. Unruled = TRUE
    BY <2>1 DEF Unruled
  <2> QED BY <2>1, <2>2 DEF Chronicles
<1>4. CASE claims'[k] = claims[k]
  BY <1>3, <1>4
<1>5. CASE MergeNewClaim(a) /\ claims'[k] # claims[k]
  <2>1. claims'[k] = NewClaim(a, round)
    BY <1>5 DEF MergeNewClaim
  <2> QED BY <1>2, <2>1, NewKeeps
<1>6. CASE MergeResponse(a) /\ claims'[k] # claims[k]
  <2> DEFINE e == [type |-> "RESPONSE", agent |-> a, round |-> round]
  <2>1. IsOpen(claims[k]) /\ claims'[k] = AddEntry(claims[k], e)
    BY <1>6 DEF MergeResponse, AddResponse
  <2>2. e \in Entry /\ e.type = "RESPONSE"
    BY <1>2 DEF Entry
  <2>3. Extended(claims[k], claims'[k], e, round)
    BY <1>2, <2>1, <2>2 DEF Extended, AddEntry, Claim
  <2> QED BY <1>2, <1>3, <2>2, <2>3, ExtendedKeeps DEF HostTypes
<1>7. CASE MergeReopenRequest(a) /\ claims'[k] # claims[k]
  <2> DEFINE q == RequestFor(k, a)
             e == [type |-> "REOPEN_REQUEST", request |-> q, round |-> q.round]
  <2>1. /\ AcceptsRequest(k, a)
        /\ claims'[k] = AddEntry(claims[k], e)
    BY <1>7 DEF MergeReopenRequest, AddReopenRequest
  <2>2. Head(outputs[a]) \in Response
    BY <1>2, <1>7, HeadTailProperties DEF MergeReopenRequest, NextResponse
  <2>3. q \in Request
    BY <1>2, <1>7, <2>1, <2>2
       DEF MergeReopenRequest, NextResponse, AcceptsRequest, RequestFor,
           Request, Response
  <2>4. e \in Entry /\ e.type = "REOPEN_REQUEST"
    BY <2>3 DEF Entry, Request
  <2>5. IsClosed(claims[k]) /\ e.request \notin Requested(claims[k])
    BY <2>1 DEF AcceptsRequest
  <2> HIDE DEF e
  <2>6. Extended(claims[k], claims'[k], e, round)
    BY <1>2, <2>1, <2>4, <2>5 DEF Extended, AddEntry, Claim
  <2> QED BY <1>2, <1>3, <2>4, <2>6, ExtendedKeeps DEF HostTypes
<1> QED BY <1>1, <1>4, <1>5, <1>6, <1>7

\* A CONTINUE on a claim of any status.
LEMMA ContinueKeeps ==
    ASSUME NEW c \in Claim, NEW n \in SUBSET Agents, NEW b \in BOOLEAN,
           NEW r \in Nat, Chronicle(c, r, TRUE)
    PROVE  Chronicle(ContinueClaim(c, n, b, r), r, FALSE)
<1> DEFINE e == [type |-> "CONTINUE", needs |-> n, allow |-> b, round |-> r]
           d == ContinueClaim(c, n, b, r)
<1>1. d \in Claim
  BY ContinueClaimFacts
<1>2. CASE IsOpen(c)
  <2>1. e \in Entry /\ e.type = "CONTINUE" /\ e.round = r
    BY DEF Entry
  <2>2. d = AddEntry(c, e)
    BY <1>2 DEF ContinueClaim
  <2> HIDE DEF d, e
  <2>3. Extended(c, d, e, r)
    BY <1>2, <2>1, <2>2 DEF Extended, AddEntry, Claim
  <2> QED BY <1>1, <2>3, ExtendedKeeps DEF d
<1>3. CASE ~IsOpen(c)
  BY <1>3, OlderKeeps DEF ContinueClaim
<1> QED BY <1>2, <1>3

LEMMA ApplyKeeps ==
    ASSUME TypeOK, TypeOK', Chronicles, ApplyVerdicts, NEW k \in Keywords
    PROVE  Chronicle(claims'[k], round, FALSE)
<1> DEFINE c == claims[k]
           d == claims'[k]
           v == verdicts[k]
<1>1. /\ round \in Nat
      /\ c \in Claim /\ d \in Claim
      /\ v \in Verdict
  BY RoundsAssumption DEF TypeOK
<1>2. Chronicle(c, round, TRUE)
  <2>1. Unruled = TRUE
    BY DEF Unruled, ApplyVerdicts
  <2> QED BY <2>1 DEF Chronicles
<1>3. d = IF k \notin offered THEN c
          ELSE IF Accepts(k) THEN ApplyVerdict(c, v)
          ELSE ContinueClaim(c, Agents, FALSE, round)
  BY DEF ApplyVerdicts, Fallback
<1>4. CASE k \notin offered
  BY <1>1, <1>2, <1>3, <1>4, OlderKeeps
<1>5. CASE k \in offered /\ ~Accepts(k)
  <2>1. d = ContinueClaim(c, Agents, FALSE, round)
    BY <1>3, <1>5
  <2>2. \A b \in BOOLEAN : Chronicle(ContinueClaim(c, Agents, b, round), round, FALSE)
    BY <1>1, <1>2, ContinueKeeps
  <2> QED BY <2>1, <2>2
<1>6. ASSUME k \in offered, Accepts(k), v.kind = "CONTINUE"
      PROVE  Chronicle(d, round, FALSE)
  <2>1. d = ContinueClaim(c, v.needs, v.allow, round)
    BY <1>3, <1>6 DEF ApplyVerdict
  <2>2. v.needs \in SUBSET Agents /\ v.allow \in BOOLEAN
    BY <1>1, <1>6 DEF Verdict
  <2> QED BY <1>1, <1>2, <2>1, <2>2, ContinueKeeps
<1>7. ASSUME k \in offered, Accepts(k), v.kind = "CLOSE"
      PROVE  Chronicle(d, round, FALSE)
  <2> DEFINE e == [type |-> "CLOSED", round |-> round]
  <2>1. IsOpen(c)
    BY <1>7 DEF Accepts
  <2>2. d.entries = Append(c.entries, e) /\ d.status = "CLOSED"
    BY <1>1, <1>3, <1>7 DEF ApplyVerdict, CloseClaim, AddEntry, Claim
  <2>3. e \in Entry /\ e.type = "CLOSED" /\ e.round = round
    BY <1>1 DEF Entry
  <2> HIDE DEF e
  <2>4. Extended(c, d, e, round)
    BY <2>1, <2>2, <2>3 DEF Extended
  <2> QED BY <1>1, <1>2, <2>4, ExtendedKeeps
<1>8. ASSUME k \in offered, Accepts(k), v.kind = "REOPEN"
      PROVE  Chronicle(d, round, FALSE)
  <2>1. Answered(c, d, v.decisions, round)
    BY <1>3, <1>8 DEF Answered, ApplyVerdict, Accepts
  <2> QED BY <1>1, <1>2, <2>1, AnsweredKeeps
<1> QED BY <1>4, <1>5, <1>6, <1>7, <1>8 DEF Accepts

\* A step that neither merges nor applies verdicts leaves the claims alone.
LEMMA OtherKeeps ==
    ASSUME TypeOK, Chronicles, [Next]_vars, ~MergeStep, ~ApplyVerdicts
    PROVE  Chronicles'
<1>1. round \in Nat /\ \A k \in Keywords : claims[k] \in Claim
  BY RoundsAssumption DEF TypeOK
<1>2. CASE NextRound
  <2>1. claims' = claims /\ round' = round + 1 /\ Unruled' = TRUE
    BY <1>2 DEF NextRound, Unruled
  <2>2. Unruled \in BOOLEAN
    BY DEF Unruled
  <2>3. ASSUME NEW k \in Keywords
        PROVE  Chronicle(claims[k], round + 1, TRUE)
    BY <1>1, <2>2, LaterKeeps DEF Chronicles
  <2> QED BY <2>1, <2>3 DEF Chronicles
<1>3. ASSUME claims' = claims, round' = round, Unruled' => Unruled
      PROVE  Chronicles'
  <2>1. Unruled \in BOOLEAN /\ Unruled' \in BOOLEAN
    BY DEF Unruled
  <2>2. CASE Unruled' = Unruled
    BY <1>3, <2>2 DEF Chronicles
  <2>3. CASE Unruled = TRUE /\ Unruled' = FALSE
    BY <1>1, <1>3, <2>3, OlderKeeps DEF Chronicles
  <2> QED BY <1>3, <2>1, <2>2, <2>3
<1>4. CASE AgentStep
  <2>1. claims' = claims /\ round' = round /\ (Unruled' => Unruled)
    BY <1>4 DEF AgentStep, StartRounds, AgentAnswers, AgentFails,
                GatherOutputs, FirstRoundFails, FinishWithError, Unruled
  <2> QED BY <1>3, <2>1
<1>5. CASE JudgeStep
  <2>1. claims' = claims /\ round' = round /\ (Unruled' => Unruled)
    BY <1>5 DEF JudgeStep, SkipJudgment, StartJudgment, OfferBatch,
                RejectReply, AcceptReply, DropReply, Unruled
  <2> QED BY <1>3, <2>1
<1>6. CASE RoomStep /\ ~NextRound
  <2>1. claims' = claims /\ round' = round /\ (Unruled' => Unruled)
    BY <1>6 DEF RoomStep, StopAtLimit, Converge, Summarize, Finish, Unruled
  <2> QED BY <1>3, <2>1
<1>7. CASE RunFails
  <2>1. claims' = claims /\ round' = round /\ (Unruled' => Unruled)
    BY <1>7 DEF RunFails, FinishWithError, Unruled
  <2> QED BY <1>3, <2>1
<1>8. CASE UNCHANGED vars
  <2>1. claims' = claims /\ round' = round /\ (Unruled' => Unruled)
    BY <1>8 DEF vars, Unruled
  <2> QED BY <1>3, <2>1
<1> QED BY <1>2, <1>4, <1>5, <1>6, <1>7, <1>8 DEF Next, Done, RoomStep

LEMMA ChroniclesHold == Spec => []Chronicles
<1>1. Init => Chronicles
  <2> SUFFICES ASSUME Init, NEW k \in Keywords
               PROVE  Chronicle(claims[k], round, Unruled)
    BY DEF Chronicles
  <2>1. ~IsClosed(claims[k]) /\ DOMAIN claims[k].entries = {}
    BY DEF Init, NoClaim, IsClosed
  <2> QED BY <2>1 DEF Chronicle, Told, Silent, Once, Single, Ruled
<1>2. TypeOK /\ TypeOK' /\ Chronicles /\ [Next]_vars => Chronicles'
  <2> SUFFICES ASSUME TypeOK, TypeOK', Chronicles, [Next]_vars
               PROVE  Chronicles'
    OBVIOUS
  <2>1. CASE MergeStep
    <3>1. round' = round /\ Unruled' = TRUE
      BY <2>1 DEF MergeStep, MergeNewClaim, MergeResponse, MergeReopenRequest,
                  NextResponse, Unruled
    <3>2. \A k \in Keywords : Chronicle(claims'[k], round, TRUE)
      BY <2>1, MergeKeeps
    <3> QED BY <3>1, <3>2 DEF Chronicles
  <2>2. CASE ApplyVerdicts
    <3>1. round' = round /\ Unruled' = FALSE
      BY <2>2 DEF ApplyVerdicts, Unruled
    <3>2. \A k \in Keywords : Chronicle(claims'[k], round, FALSE)
      BY <2>2, ApplyKeeps
    <3> QED BY <3>1, <3>2 DEF Chronicles
  <2> QED BY <2>1, <2>2, OtherKeeps
<1> QED BY <1>1, <1>2, TypeCorrect, PTL DEF Spec

-----------------------------------------------------------------------------
(* Theorems. *)

\* The status of a claim is the one its entries tell.
THEOREM StatusIsTold == Spec => []StatusFollowsHistory
<1>1. Chronicles => StatusFollowsHistory
  BY DEF Chronicles, Chronicle, Told, StatusFollowsHistory
<1> QED BY <1>1, ChroniclesHold, PTL

\* Nothing is said on a claim between a closing entry and an approval.
THEOREM ClosedStaysSilent == Spec => []ClosedIsSilent
<1>1. Chronicles => ClosedIsSilent
  BY DEF Chronicles, Chronicle, Silent, Spoken, ClosedIsSilent
<1> QED BY <1>1, ChroniclesHold, PTL

\* A request is made once, decided at most once, and after it was made.
THEOREM RequestsDecidedOnce == Spec => []ReopenExactlyOnce
<1>1. Chronicles => ReopenExactlyOnce
  BY DEF Chronicles, Chronicle, Once, Decisive, ReopenExactlyOnce
<1> QED BY <1>1, ChroniclesHold, PTL

\* The Host rules once a round on a claim.
THEOREM HostRulesOnce == Spec => []OneVerdictPerRound
<1>1. Chronicles => OneVerdictPerRound
  BY DEF Chronicles, Chronicle, Single, OneVerdictPerRound
<1> QED BY <1>1, ChroniclesHold, PTL
=============================================================================
