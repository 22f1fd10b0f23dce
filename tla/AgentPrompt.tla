----------------------------- MODULE AgentPrompt -----------------------------
(***************************************************************************)
(* What an agent is shown of the OPEN claims in a later round: the claims  *)
(* that the Host has asked it about, which share the room of their section *)
(* so that each is seen, and the others, as many whole blocks as there is  *)
(* room for.  Of a text, only its length counts, as in HostBatches; what   *)
(* the Host has said meanwhile is one of the histories, too.               *)
(*                                                                         *)
(* A section is what it shows, how many blocks it does not, and the length *)
(* of the line that says so.                                               *)
(***************************************************************************)
EXTENDS HostBatches

CONSTANTS AgentLimit,    \* of one block
          RequestBudget, \* of the section of requests
          ReviewBudget,  \* of the section of other claims
          Additions,     \* lengths of what the Host may add to a request
          RequestMark,   \* of "[MUST_CONTINUE:TRUNCATED_RESPONSE_CONTEXT]"
          IdentityRoom,  \* what a request must have besides its header
          RequestsMark,  \* of the line that replaces all requests
          OmittedMark,   \* of the line that replaces blocks
          OmittedName    \* of a claim's name in that line

\* A mark fits where it is put.
ASSUME PromptAssumption ==
    /\ {AgentLimit, RequestBudget, ReviewBudget, RequestMark, IdentityRoom,
        RequestsMark, OmittedMark, OmittedName} \cup Additions \subseteq Nat
    /\ RequestMark < IdentityRoom
    /\ RequestsMark <= RequestBudget
    /\ OmittedMark <= ReviewBudget
    /\ \A s \in Additions \cup {0}, h \in Histories :
          h.header + Preview + Mark <= (AgentLimit - s - 1 - Cut) \div 2

\* What the Host adds is on a line of its own.
SuffixSize(s) == IF s = 0 THEN 0 ELSE s + 1

\* Every block for an agent, computed once.
AgentBlocks ==
    [q \in Histories \X BOOLEAN \X (Additions \cup {0}) |->
        CompactClaim(q[1], q[2], AgentLimit - SuffixSize(q[3]))]

AgentBlock(k, s) == AgentBlocks[<<histories[k], k \in LongKeyword, s>>]

\* A claim that the Host asks the agent about.
Request(k, s) ==
    LET block == AgentBlock(k, s)
    IN  [size |-> block.size + SuffixSize(s), marked |-> block.marked,
         complete |-> block.complete, header |-> histories[k].header]

\* _truncate_response_context: a mark behind the header, and what there is
\* room for.
Shortened(request, room) ==
    IF request.size <= room THEN request
    ELSE [request EXCEPT !.size = room,
                         !.marked = request.header + RequestMark <= room,
                         !.complete = FALSE]

\* _bounded_all_blocks
RequestSection(requests) ==
    LET n == Len(requests)
        rooms == EntryLimits(RequestBudget - (n - 1), n)
        room == (RequestBudget - (n - 1)) \div n
    IN  IF n = 0 THEN [shown |-> <<>>, omitted |-> 0, mark |-> 0]
        ELSE IF \/ n - 1 > RequestBudget
                \/ room < IdentityRoom
                \/ \E i \in 1..n : requests[i].header + IdentityRoom > room
        THEN [shown |-> <<>>, omitted |-> n, mark |-> RequestsMark]
        ELSE [shown |-> [i \in 1..n |-> Shortened(requests[i], rooms[i])],
              omitted |-> 0, mark |-> 0]

\* The length of the first n blocks, one below the other.
Lines(blocks, n) ==
    Total([i \in 1..n |-> blocks[i].size]) + (IF n = 0 THEN 0 ELSE n - 1)

\* Mutation: no block is taken away to make room for the mark.
ShownBlocks_NoRoom(blocks, budget) ==
    Max({n \in 0..Len(blocks) : Lines(blocks, n) <= budget})

\* How many of the blocks fit, together with the mark if it is needed.
ShownBlocks(blocks, budget) ==
    LET all == Len(blocks)
    IN  IF Lines(blocks, all) <= budget THEN all
        ELSE Max({0} \cup {n \in 1..(all - 1) :
                             Lines(blocks, n) + 1 + OmittedMark <= budget})

\* _bounded_blocks: the line at the end names the claims it stands for, as far
\* as there is room.
BoundedSection(blocks, budget) ==
    LET n == ShownBlocks(blocks, budget)
        omitted == Len(blocks) - n
        room == Less(budget, Lines(blocks, n) + (IF n = 0 THEN 0 ELSE 1))
    IN  [shown |-> SubSeq(blocks, 1, n),
         omitted |-> omitted,
         mark |-> IF omitted = 0 THEN 0
                  ELSE Least(OmittedMark + OmittedName * omitted, room)]

SectionSize(section) ==
    Lines(section.shown, Len(section.shown))
      + (IF section.omitted = 0 THEN 0
         ELSE section.mark + (IF section.shown = <<>> THEN 0 ELSE 1))

\* The two sections for an agent that the Host asks about the claims directed.
Requests(order, directed, s) ==
    LET asked == Picked(order, directed)
    IN  RequestSection([i \in DOMAIN asked |-> Request(asked[i], s)])

Review(order, directed) ==
    LET others == Picked(order, ToSet(order) \ directed)
    IN  BoundedSection([i \in DOMAIN others |-> AgentBlock(others[i], 0)],
                       ReviewBudget)

\* A section keeps its budget, and whatever it does not show of n claims is
\* marked: what is cut where it was cut, what is left out by a line that was
\* not itself cut.
Discloses(section, n, budget, mark) ==
    /\ SectionSize(section) <= budget
    /\ Len(section.shown) + section.omitted = n
    /\ section.omitted > 0 => section.mark >= mark
    /\ \A i \in DOMAIN section.shown :
          section.shown[i].marked # section.shown[i].complete
=============================================================================
