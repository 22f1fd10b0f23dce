---------------------------- MODULE HostBatches -----------------------------
(***************************************************************************)
(* What the Host is shown of the claims that it is to rule on: one block   *)
(* for each, cut to a limit and marked when something is missing, batches  *)
(* of blocks, and with every batch a summary of all candidates.  Of a      *)
(* text, only its length counts.                                           *)
(***************************************************************************)
EXTENDS References, FiniteSetsExt

CONSTANTS Histories,  \* what _compact_claim may select from a claim's entries
          BlockLimit, \* of one block
          MaxChars,   \* of one batch
          MaxClaims,  \* of one batch
          Preview,    \* the length of a KEYWORD_PREVIEW line
          Mark,       \* of "[MUST_CONTINUE:TRUNCATED]" on its own line
          Omission,   \* of the note that entries were left out
          Detail,     \* of the note that identities were cut
          Cut,        \* of the note in the middle of a cut text
          ContextLimit, \* of the summary of all candidates
          ContextMark   \* of "[GLOBAL_CONTEXT_TRUNCATED]"

VARIABLES histories, \* of each candidate
          candidates, \* that are not in a batch yet, in order
          current,   \* the batch being filled: references
          currentSize,
          batches

batchVars == <<histories, candidates, current, currentSize, batches>>

\* header: the length of its line; entries: of each, the length of its tag
\* and of its content; omitted: whether others were left out; quotes: whether
\* what is shown of them reads as the header of another claim.
ASSUME HistoriesAssumption ==
    \A h \in Histories :
        /\ h.header \in 1..BlockLimit
        /\ h.entries \in Seq([prefix : Nat, content : Nat]) \ {<<>>}
        /\ {h.omitted, h.quotes} \subseteq BOOLEAN

\* A block is as long as a batch at most, and its identity and the mark are
\* in the part before the cut that _truncate_ends keeps.
ASSUME LimitsAssumption ==
    /\ {BlockLimit, MaxChars, Preview, Omission, Detail, Cut, ContextLimit,
        ContextMark} \subseteq Nat
    /\ ContextMark + 1 < ContextLimit
    /\ {Mark, MaxClaims} \subseteq Nat \ {0}
    /\ BlockLimit <= MaxChars
    /\ \A h \in Histories : h.header + Preview + Mark <= (BlockLimit - Cut) \div 2

Total(lengths) == FoldLeft(LAMBDA sum, n : sum + n, 0, lengths)
Tags(h) == Total([i \in DOMAIN h.entries |-> h.entries[i].prefix])
Least(m, n) == IF m <= n THEN m ELSE n
Less(m, n) == IF m <= n THEN 0 ELSE m - n

\* What the entries get of a budget: equal shares, the first ones get the rest.
EntryLimits(budget, n) ==
    [i \in 1..n |-> (budget \div n) + (IF i <= budget % n THEN 1 ELSE 0)]

PreviewSize(long) == IF long THEN Preview ELSE 0
OmissionSize(h) == IF h.omitted THEN Omission ELSE 0

\* The headline, the preview, and each tag on its line.
IdentitySize(h, long) ==
    h.header + PreviewSize(long) + Len(h.entries) + Tags(h)

\* Mutation: the space between a tag and its content is forgotten.
FixedSize_NoSpace(h, long, mark) ==
    IdentitySize(h, long) + OmissionSize(h) + mark

FixedSize(h, long, mark) ==
    IdentitySize(h, long) + OmissionSize(h) + mark + Len(h.entries)

Budget(h, long, mark, limit) == Less(limit, FixedSize(h, long, mark))

IsCut(h, limits) == \E i \in DOMAIN h.entries : h.entries[i].content > limits[i]

\* The identities alone are too long: a mark, and what there is room for.
BoundedBlock(h, long, limit) ==
    IF h.header + Mark > limit
    THEN [size |-> 0, marked |-> FALSE, complete |-> FALSE]
    ELSE LET details == PreviewSize(long) + Detail + 1 + Tags(h)
                          + Len(h.entries) - 1 + OmissionSize(h)
         IN  [size |-> h.header + Mark + 1
                         + Least(details, Less(limit, h.header + Mark + 1)),
              marked |-> TRUE, complete |-> FALSE]

\* A preview is cut in any case, since only a long keyword has one.
SharedBlock(h, long, limit) ==
    LET n == Len(h.entries)
        first == EntryLimits(Budget(h, long, IF long THEN Mark ELSE 0, limit), n)
        mark == IF long \/ IsCut(h, first) THEN Mark ELSE 0
        limits == EntryLimits(Budget(h, long, mark, limit), n)
        bodies == [i \in 1..n |-> Least(h.entries[i].content, limits[i])]
        spaces == Cardinality({i \in 1..n : bodies[i] > 0})
        rendered == IdentitySize(h, long) + mark + Total(bodies) + spaces
                      + OmissionSize(h)
        head == (limit - Cut) \div 2
    IN  [size |-> Least(rendered, limit),
         marked |-> mark > 0 /\ (\/ rendered <= limit
                                 \/ h.header + PreviewSize(long) + mark <= head),
         complete |-> ~long /\ ~IsCut(h, limits) /\ rendered <= limit]

\* _compact_claim; an empty block has size 0.
CompactClaim(h, long, limit) ==
    IF IdentitySize(h, long) + OmissionSize(h) > limit
    THEN BoundedBlock(h, long, limit)
    ELSE SharedBlock(h, long, limit)

\* Every block, computed once.
Blocks == [q \in Histories \X BOOLEAN |-> CompactClaim(q[1], q[2], BlockLimit)]

Block(k) == Blocks[<<histories[k], k \in LongKeyword>>]

\* A block that does not read as that of its claim is left out.
Showable(k) == Block(k).size > 0 /\ ~histories[k].quotes

\* The blank line before a block that is not the first of its batch.
Joint(batch) == IF batch = <<>> THEN 0 ELSE 2

BatchesInit ==
    /\ histories = <<>>
    /\ candidates = <<>>
    /\ current = <<>>
    /\ currentSize = 0
    /\ batches = <<>>

\* format_host_candidate_batches is called.
BeginBatches(keywords) ==
    /\ candidates' = keywords
    /\ histories' \in [ToSet(keywords) -> Histories]
    /\ UNCHANGED <<current, currentSize, batches>>

SkipClaim ==
    /\ ~Showable(candidates[1])
    /\ candidates' = Tail(candidates)
    /\ UNCHANGED <<histories, current, currentSize, batches>>

\* Mutation: the blank line is not counted.
Overflows_NoJoint(size) ==
    /\ current # <<>>
    /\ \/ currentSize + size > MaxChars
       \/ Len(current) >= MaxClaims

\* A block of this size does not go into the current batch any more.
Overflows(size) ==
    /\ current # <<>>
    /\ \/ currentSize + size + Joint(current) > MaxChars
       \/ Len(current) >= MaxClaims

AddToBatch(reference) ==
    LET size == Block(candidates[1]).size IN
    /\ Showable(candidates[1])
    /\ ~Overflows(size)
    /\ current' = Append(current, reference)
    /\ currentSize' = currentSize + size + Joint(current)
    /\ candidates' = Tail(candidates)
    /\ UNCHANGED <<histories, batches>>

NextBatch(reference) ==
    /\ Showable(candidates[1])
    /\ Overflows(Block(candidates[1]).size)
    /\ batches' = Append(batches, current)
    /\ current' = <<reference>>
    /\ currentSize' = Block(candidates[1]).size
    /\ candidates' = Tail(candidates)
    /\ UNCHANGED histories

FinishBatches ==
    /\ batches' = IF current = <<>> THEN batches ELSE Append(batches, current)
    /\ current' = <<>>
    /\ currentSize' = 0
    /\ UNCHANGED <<histories, candidates>>

\* The length of a batch of these claims, joined by blank lines.
Joined(keywords) ==
    Total([i \in DOMAIN keywords |-> Block(keywords[i]).size])
      + 2 * (Len(keywords) - 1)

-----------------------------------------------------------------------------
(* format_host_global_context: one line for each candidate. *)

\* What the summary takes from a claim: the last entry, and of those before it
\* which the blocks show, the ones that still matter.  The first entry is there
\* only as the last one.
Critical(h, from) ==
    LET n == Len(h.entries) IN SubSeq(h.entries, Least(from, n), n)

\* The labels of these entries, with what is between them.
Labels(entries) ==
    Total([i \in DOMAIN entries |-> entries[i].prefix]) + 3 * (Len(entries) - 1)

\* The line of a claim behind its reference.
Summary(entries, limit) ==
    LET n == Len(entries)
        limits == EntryLimits(limit - Labels(entries), n)
    IN  IF limit <= Labels(entries) THEN [size |-> limit, lost |-> TRUE]
        ELSE [size |-> Labels(entries)
                         + Total([i \in 1..n |-> Least(entries[i].content, limits[i])]),
              lost |-> \E i \in 1..n : entries[i].content > limits[i]]

\* What has no share in the limit: references and ends of lines.
FixedContext(order) ==
    Total([i \in DOMAIN order |-> histories[order[i]].header]) + Len(order) - 1

GlobalContext(order, from) ==
    LET n == Len(order)
        limits == EntryLimits(Less(ContextLimit, FixedContext(order)), n)
        lines == [i \in 1..n |-> Summary(Critical(histories[order[i]], from), limits[i])]
        rendered == FixedContext(order) + Total([i \in 1..n |-> lines[i].size])
        truncated == rendered > ContextLimit \/ \E i \in 1..n : lines[i].lost
    IN  [size |-> IF ~truncated THEN rendered
                  ELSE Least(ContextLimit, ContextMark + 1 + rendered),
         truncated |-> truncated]

\* The length of a summary with nothing missing.
WholeContext(order, from) ==
    FixedContext(order)
      + Total([i \in DOMAIN order |->
                 LET entries == Critical(histories[order[i]], from)
                 IN  Labels(entries)
                       + Total([j \in DOMAIN entries |-> entries[j].content])])
=============================================================================
