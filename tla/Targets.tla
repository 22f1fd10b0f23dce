------------------------------- MODULE Targets -------------------------------
(***************************************************************************)
(* Which claims a response is about.  An agent answers under the reference *)
(* that its prompt shows, or under the keyword, or names several claims at *)
(* once; the text is looked up, matched as a whole, and only then scanned  *)
(* from left to right for keywords between separators.  What is left may   *)
(* still be a list with slashes.                                           *)
(***************************************************************************)
EXTENDS References

CONSTANTS Tables,    \* the claims that the agents may be shown
          Proposals, \* the keywords that a NEW_CLAIM may bring
          Texts,     \* the targets that a response may name
          MaxTable   \* bound on the number of claims

VARIABLES claims,    \* in the order of the file: [keyword, status]
          shown,     \* the references in the agents' prompt
          stage,     \* "idle", "scanning", "resolved", or that of the Host
          response,  \* the response being merged: [kind, text]
          known,     \* the claims that it may be about
          target,    \* what is left of its text after the lookup
          position,  \* of the next character of target
          atBoundary, buffer, matched, unmatched

scan == <<response, known, target, position, atBoundary, buffer, matched,
          unmatched>>

Keywords == {claims[i].keyword : i \in DOMAIN claims}
Having(statuses) ==
    {claims[i].keyword : i \in {j \in DOMAIN claims : claims[j].status \in statuses}}
Order == [i \in DOMAIN claims |-> claims[i].keyword]

\* "REOPENING" is CLOSED with an undecided request to reopen it.
Open == Having({"OPEN"})
Closed == Having({"CLOSED", "REOPENING"})

Separators == {","}
Blank == " "

ASSUME TargetsAssumption ==
    /\ Texts \subseteq Seq(STRING) \ {<<>>}
    /\ \A text \in Texts : text[1] # Blank /\ Last(text) # Blank
    /\ MaxTable \in Nat /\ MaxTable <= Len(Suffix)

\* The claims of claims.md: there are no two of one keyword.
ASSUME TablesAssumption ==
    /\ Proposals \subseteq Seq(STRING)
    /\ \A table \in Tables :
          /\ table \in Seq([keyword : Seq(STRING), status : {"OPEN", "CLOSED"}])
          /\ Len(table) <= MaxTable
          /\ \A i, j \in DOMAIN table :
                table[i].keyword = table[j].keyword => i = j

Strip(text) ==
    LET solid == {i \in DOMAIN text : text[i] # Blank}
    IN  IF solid = {} THEN <<>>
        ELSE SubSeq(text, CHOOSE i \in solid : \A j \in solid : i <= j,
                          CHOOSE i \in solid : \A j \in solid : j <= i)

\* The pieces of text between the characters of cuts, empty ones included.
Split(text, cuts) ==
    LET at == {0, Len(text) + 1} \cup {i \in DOMAIN text : text[i] \in cuts}
    IN  {SubSeq(text, p[1] + 1, p[2] - 1) :
            p \in {q \in at \X at :
                     /\ q[1] < q[2]
                     /\ \A i \in at : ~(q[1] < i /\ i < q[2])}}

NoResponse == [kind |-> "none", text |-> <<>>]

NotScanning ==
    /\ response = NoResponse /\ known = {} /\ target = <<>> /\ position = 0
    /\ atBoundary = FALSE /\ buffer = <<>> /\ matched = {} /\ unmatched = {}

TargetsInit ==
    /\ claims \in Tables
    /\ shown = BuildReferences(Order)
    /\ stage = "idle"
    /\ NotScanning

\* NEW_CLAIM, merged before other responses of the round are.
Propose ==
    /\ stage = "idle"
    /\ Len(claims) < MaxTable
    /\ \E k \in Proposals \ Keywords :
          claims' = Append(claims, [keyword |-> k, status |-> "OPEN"])
    /\ UNCHANGED <<shown, stage, scan>>

\* The claim of addressed that goes by this reference, or else the text.
Lookup(text, addressed) ==
    LET references == BuildReferences(Order)
        named == {k \in addressed : references[k] = text}
    IN  IF named = {} THEN text ELSE CHOOSE k \in named : TRUE

\* An answer prefers the keyword of an OPEN claim to a reference.
AnswerTarget(text) == IF text \in Open THEN text ELSE Lookup(text, Open)
ReopenTarget(text) == Lookup(text, Closed)

Respond ==
    /\ stage = "idle"
    /\ stage' = "scanning"
    /\ \E text \in Texts :
          \/ /\ response' = [kind |-> "answer", text |-> text]
             /\ known' = Open
             /\ target' = AnswerTarget(text)
          \/ /\ response' = [kind |-> "reopen", text |-> text]
             /\ known' = Closed
             /\ target' = ReopenTarget(text)
    /\ position' = 1
    /\ atBoundary' = TRUE
    /\ UNCHANGED <<claims, shown, buffer, matched, unmatched>>

\* flush_buffer: what is kept of the buffer.
Flushed == {Strip(buffer)} \ {<<>>}

\* keyword is the next piece of target, whole.
Fits(keyword) ==
    LET end == position + Len(keyword) - 1
    IN  /\ end <= Len(target)
        /\ SubSeq(target, position, end) = keyword
        /\ end = Len(target) \/ target[end + 1] \in Separators

\* Mutation: a blank ends the boundary as any other character does.
StaysAtBoundary_Never(char) == FALSE
StaysAtBoundary(char) == atBoundary /\ char = Blank

Candidates == {k \in known : atBoundary /\ Fits(k)}

Scanning == stage = "scanning" /\ target \notin known /\ position <= Len(target)

\* The text as a whole is a claim that the response may be about.
MatchWhole ==
    /\ stage = "scanning"
    /\ target \in known
    /\ matched' = {target}
    /\ stage' = "resolved"
    /\ UNCHANGED <<claims, shown, response, known, target, position,
                   atBoundary, buffer, unmatched>>

\* The longest keyword that fits is taken.
MatchKeyword ==
    /\ Scanning
    /\ \E k \in Candidates :
          /\ \A l \in Candidates : Len(l) <= Len(k)
          /\ matched' = matched \cup {k}
          /\ position' = position + Len(k)
    /\ unmatched' = unmatched \cup Flushed
    /\ buffer' = <<>>
    /\ atBoundary' = FALSE
    /\ UNCHANGED <<claims, shown, stage, response, known, target>>

SkipSeparator ==
    /\ Scanning
    /\ Candidates = {}
    /\ target[position] \in Separators
    /\ unmatched' = unmatched \cup Flushed
    /\ buffer' = <<>>
    /\ atBoundary' = TRUE
    /\ position' = position + 1
    /\ UNCHANGED <<claims, shown, stage, response, known, target, matched>>

KeepCharacter ==
    /\ Scanning
    /\ Candidates = {}
    /\ target[position] \notin Separators
    /\ buffer' = Append(buffer, target[position])
    /\ atBoundary' = StaysAtBoundary(target[position])
    /\ position' = position + 1
    /\ UNCHANGED <<claims, shown, stage, response, known, target, matched, unmatched>>

SlashTargets(value) == {Strip(part) : part \in Split(value, {"/"})}

\* A list with slashes counts only if each of its parts is known.
ResolvesSlashes(value) ==
    /\ \E i \in DOMAIN value : value[i] = "/"
    /\ SlashTargets(value) \subseteq known

\* The end of the loop; unmatched is then what is left unresolved.
Finish ==
    /\ stage = "scanning"
    /\ target \notin known
    /\ position > Len(target)
    /\ LET left == unmatched \cup Flushed
           lists == {value \in left : ResolvesSlashes(value)}
       IN  /\ matched' = matched \cup UNION {SlashTargets(value) : value \in lists}
           /\ unmatched' = left \ lists
    /\ buffer' = <<>>
    /\ stage' = "resolved"
    /\ UNCHANGED <<claims, shown, response, known, target, position, atBoundary>>

\* The response is recorded; a request to reopen whose payload is valid makes
\* its claims pending.
Record ==
    /\ stage = "resolved"
    /\ \E valid \in BOOLEAN :
          claims' = [i \in DOMAIN claims |->
                      IF /\ response.kind = "reopen" /\ valid
                         /\ claims[i].keyword \in matched
                      THEN [claims[i] EXCEPT !.status = "REOPENING"]
                      ELSE claims[i]]
    /\ stage' = "idle"
    /\ response' = NoResponse /\ known' = {} /\ target' = <<>> /\ position' = 0
    /\ atBoundary' = FALSE /\ buffer' = <<>> /\ matched' = {} /\ unmatched' = {}
    /\ UNCHANGED shown

TargetsNext ==
    \/ Propose \/ Respond \/ MatchWhole \/ MatchKeyword \/ SkipSeparator
    \/ KeepCharacter \/ Finish \/ Record

\* An answer given under the reference that the prompt showed, or under the
\* whole keyword, reaches that claim and no other, whatever digests, commas
\* or other keywords it contains and whatever claims were added since; only
\* a new claim that has the reference itself as its keyword takes it over.
AnswersReachClaim ==
    stage = "resolved" =>
        \A k \in known :
            \/ response.text = k
            \/ /\ k \in DOMAIN shown /\ response.text = shown[k]
               /\ shown[k] \notin Keywords \ DOMAIN shown
            => matched = {k} /\ unmatched = {}

\* Every piece of a target that names several claims lands: it belongs to a
\* claim that was found, or is a list of such claims, or it is reported as
\* unresolved, and a piece that is a claim's keyword is reported only when a
\* blank separates it from the separator behind it.
NothingVanishes ==
    stage = "resolved" /\ target \notin known =>
        /\ matched \subseteq known
        /\ \A piece \in Split(target, Separators) :
               LET named == Strip(piece) IN
               \/ named = <<>>
               \/ \E k \in matched : \E part \in Split(k, Separators) : named = Strip(part)
               \/ SlashTargets(named) \subseteq matched
               \/ named \in unmatched /\ (named \notin known \/ Last(piece) = Blank)
=============================================================================
