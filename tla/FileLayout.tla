----------------------------- MODULE FileLayout ------------------------------
(***************************************************************************)
(* The layout of claims.md: what format_file writes and what _parse_text   *)
(* reads.  Contents are what agents and Host say, so a line of a content   *)
(* may look like any line of the file.                                     *)
(*                                                                         *)
(* A line is a text behind a number of blanks.  The tag of an entry has    *)
(* the first line of its content behind it.                                *)
(***************************************************************************)
EXTENDS Naturals, Sequences, SequencesExt

CONSTANTS Phrases,  \* what a line of a topic or of a content may say
          Items,    \* unmatched responses
          Topics,   \* topics of discussions, as lines
          Contents, \* what the entries of a claim may be
          Audits    \* lists of unmatched responses

Line(indent, text) == [indent |-> indent, text |-> text]

ContentLine == [indent : Nat, text : Phrases]
SavedEntry ==
    [type : STRING, round : Nat, content : Seq(ContentLine) \ {<<>>}]

\* The topic is the first line of a context from which the engine has taken the
\* blanks at both ends.
ASSUME FileAssumption ==
    /\ Contents \subseteq Seq(SavedEntry) /\ Audits \subseteq Seq(Items)
    /\ \A topic \in Topics \ {<<>>} :
          /\ topic \in Seq(ContentLine) /\ Len(topic) = 1
          /\ topic[1].indent = 0 /\ topic[1].text.form # "blank"

BlankText == [form |-> "blank"]
Plain(value) == [form |-> "plain", value |-> value]
Heading(value) == [form |-> "heading", value |-> value]
Rule == [form |-> "rule"]
ClaimHeader(keyword, status) ==
    [form |-> "claim", keyword |-> keyword, status |-> status]
Tag(entry, line) == [form |-> "tag", type |-> entry.type, round |-> entry.round,
                     line |-> line]
UnmatchedHeader == [form |-> "unmatched"]
Json(item) == [form |-> "json", item |-> item]

Empty == Line(0, BlankText)

-----------------------------------------------------------------------------
(* Writing. *)

\* Every further line of a content is moved to the right.
ContinuationIndent == 4

Indented(line) == [line EXCEPT !.indent = @ + ContinuationIndent]

\* Where the tag of an entry stands.
TagIndent(entry) == IF entry.type = "FROM" THEN 0 ELSE 2

\* Mutation: further lines are written as they are.
EntryLines_AsIs(entry) ==
    <<Line(TagIndent(entry), Tag(entry, entry.content[1]))>> \o Tail(entry.content)

\* ClaimEntry.format, and the indent that Claim.format gives to entries that
\* do not begin a claim.
EntryLines(entry) ==
    <<Line(TagIndent(entry), Tag(entry, entry.content[1]))>>
      \o [i \in 1..(Len(entry.content) - 1) |-> Indented(entry.content[i + 1])]

ClaimLines(claim) ==
    <<Line(0, ClaimHeader(claim.keyword, claim.status))>>
      \o FlattenSeq([i \in DOMAIN claim.entries |-> EntryLines(claim.entries[i])])

TopicLines(topic) ==
    IF topic = <<>> THEN <<>>
    ELSE <<Line(0, Heading("topic"))>> \o topic \o <<Empty>>

AuditLines(audit) ==
    IF audit = <<>> THEN <<>>
    ELSE <<Line(0, UnmatchedHeader)>>
           \o [i \in DOMAIN audit |-> Line(0, Json(audit[i]))]

\* format_file
FileLines(document) ==
    <<Line(0, Heading("file")), Empty>>
      \o TopicLines(document.topic)
      \o <<Line(0, Rule), Empty>>
      \o FlattenSeq([i \in DOMAIN document.claims |-> ClaimLines(document.claims[i])])
      \o AuditLines(document.audit)

-----------------------------------------------------------------------------
(* Reading. *)

NoEntry == [type |-> "none", round |-> 0, content |-> <<>>]

\* The claims that are complete, the one being read in front of its entry,
\* and whether the list of unmatched responses has begun.
NothingRead ==
    [topic |-> <<>>, claims |-> <<>>, audit |-> <<>>, entry |-> NoEntry,
     auditing |-> FALSE, failed |-> FALSE]

\* _flush_multiline
EntryAdded(s) ==
    IF s.entry = NoEntry \/ s.claims = <<>> THEN [s EXCEPT !.entry = NoEntry]
    ELSE [s EXCEPT !.claims[Len(s.claims)].entries = Append(@, s.entry),
                   !.entry = NoEntry]

ToContent(s, line) == [s EXCEPT !.entry.content = Append(@, line)]

\* A header of a claim that is there already raises ValueError.
BeginClaim(s, text) ==
    LET f == EntryAdded(s)
    IN  IF \E i \in DOMAIN f.claims : f.claims[i].keyword = text.keyword
        THEN [f EXCEPT !.failed = TRUE]
        ELSE [f EXCEPT !.claims =
                 Append(@, [keyword |-> text.keyword, status |-> text.status,
                            entries |-> <<>>])]

BeginEntry(s, text) ==
    [EntryAdded(s) EXCEPT !.entry =
        [type |-> text.type, round |-> text.round, content |-> <<text.line>>]]

\* The first line before the claims that is neither a heading nor a rule.
ReadTopic(s, line) ==
    IF s.topic = <<>> /\ line.text.form \notin {"heading", "rule", "blank"}
    THEN [s EXCEPT !.topic = <<Line(0, line.text)>>]
    ELSE s

\* A line in front of the list of unmatched responses.
ReadClaimLine(s, line) ==
    LET text == line.text
    IN  IF s.entry # NoEntry /\ line.indent >= ContinuationIndent
        THEN ToContent(s, Line(line.indent - ContinuationIndent, text))
        ELSE IF text.form = "claim" /\ line.indent = 0 THEN BeginClaim(s, text)
        ELSE IF s.claims = <<>> THEN ReadTopic(s, line)
        ELSE IF text.form = "tag" THEN BeginEntry(s, text)
        ELSE IF s.entry # NoEntry THEN ToContent(s, line)
        ELSE s

ReadLine(s, line) ==
    IF s.failed THEN s
    ELSE IF line = Line(0, UnmatchedHeader)
    THEN [EntryAdded(s) EXCEPT !.auditing = TRUE]
    ELSE IF ~s.auditing THEN ReadClaimLine(s, line)
    ELSE IF line.text.form = "json"
    THEN [s EXCEPT !.audit = Append(@, line.text.item)]
    ELSE s

\* _parse_text
Parsed(file) == EntryAdded(FoldLeft(ReadLine, NothingRead, file))

\* What is read from a file is what was written to it: no content, however it
\* looks, becomes a claim, an entry, a response or the end of the claims, and
\* every blank in front of a line is kept.  The topic must not look like the
\* header of a claim or of the responses; one like a heading or a rule is lost.
ReadsBack(document, file) ==
    LET read == Parsed(file)
        forms == {document.topic[i].text.form : i \in DOMAIN document.topic}
    IN  forms \cap {"claim", "unmatched"} = {} =>
           /\ ~read.failed
           /\ read.claims = document.claims
           /\ read.audit = document.audit
           /\ read.topic = IF forms \subseteq {"heading", "rule"} THEN <<>>
                           ELSE document.topic
=============================================================================
