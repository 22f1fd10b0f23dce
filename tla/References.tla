----------------------------- MODULE References ------------------------------
(***************************************************************************)
(* The names under which claims are shown.  A claim goes by its keyword,   *)
(* unless the keyword is too long for a header: then it goes by a digest,  *)
(* with a number when that digest is itself taken.                         *)
(*                                                                         *)
(* A text is a sequence of characters, and so is a digest.                 *)
(*                                                                         *)
(* An operator marked "Mutation" is the next definition with a bug that    *)
(* the code could have.  The specification does not use it.                *)
(***************************************************************************)
EXTENDS Naturals, Sequences, SequencesExt

CONSTANTS Digest, \* the digest, "@sha256:...", of each keyword that is too long
          Suffix  \* ":1", ":2", ... each as one character.  Bound: so many

LongKeyword == DOMAIN Digest

\* Digests are of one length, so a number makes none of them another.
ASSUME DigestAssumption ==
    /\ Digest \in [LongKeyword -> Seq(STRING)]
    /\ \A k, l \in LongKeyword :
          /\ Digest[k] = Digest[l] => k = l
          /\ Len(Digest[k]) = Len(Digest[l])
          /\ Digest[k] # <<>>

ASSUME SuffixAssumption == Suffix \in Seq(STRING) /\ IsInjective(Suffix)

Numbered(base, n) ==
    IF n = 0 THEN base ELSE Append(base, Suffix[n])

\* The elements of s that are in S, in their order.
Picked(s, S) ==
    FoldLeft(LAMBDA kept, x : IF x \in S THEN Append(kept, x) ELSE kept, <<>>, s)

\* The first of base, base:1, base:2, ... that is not taken.
FreeReference(base, taken) ==
    LET free == {n \in 0..Len(Suffix) : Numbered(base, n) \notin taken}
    IN  Numbered(base, CHOOSE n \in free : \A m \in free : n <= m)

Given(references, k, reference) ==
    [l \in DOMAIN references \cup {k} |-> IF l = k THEN reference ELSE references[l]]

\* Mutation: only the references given so far are avoided.
BuildReferences_Used(keywords) ==
    LET Assign(references, k) ==
            IF k \in DOMAIN references THEN references
            ELSE Given(references, k,
                       FreeReference(Digest[k], {references[l] : l \in
                           DOMAIN references \cap LongKeyword}))
    IN  FoldLeft(Assign, [k \in ToSet(keywords) \ LongKeyword |-> k], keywords)

\* The reference of each of the given claims, in the order of the claims.
BuildReferences(keywords) ==
    LET Assign(references, k) ==
            IF k \in DOMAIN references THEN references
            ELSE Given(references, k,
                       FreeReference(Digest[k], ToSet(keywords) \cup Range(references)))
    IN  FoldLeft(Assign, [k \in ToSet(keywords) \ LongKeyword |-> k], keywords)
=============================================================================
