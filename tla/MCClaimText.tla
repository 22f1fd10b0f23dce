---------------------------- MODULE MCClaimText -----------------------------
(***************************************************************************)
(* ClaimText for TLC: keywords that contain a separator, a slash or look   *)
(* like a digest, targets of up to four characters and longer lists of     *)
(* keywords, histories around the limit of a block, and contents whose     *)
(* lines look like those of claims.md.                                     *)
(***************************************************************************)
EXTENDS ClaimText

A == <<"a">>
B == <<"b">>
Comma == <<"a", ",", "b">>
Slash == <<"a", "/", "b">>
Long == <<"b", ",", "a", "a">>
Digested == <<"@x">>
Second == <<"@x", ":1">>

Digests == Long :> Digested
Numbers == <<":1", ":2", ":3", ":4">>

Claim(k, s) == [keyword |-> k, status |-> s]

StartTables == {
    <<Claim(A, "OPEN"), Claim(B, "OPEN"), Claim(Comma, "OPEN")>>,
    <<Claim(A, "OPEN"), Claim(B, "CLOSED"), Claim(Slash, "OPEN")>>,
    <<Claim(Long, "OPEN"), Claim(Digested, "OPEN"), Claim(B, "OPEN")>>,
    <<Claim(Digested, "CLOSED"), Claim(Long, "OPEN"), Claim(Second, "OPEN")>>,
    <<Claim(Long, "CLOSED"), Claim(Digested, "OPEN"), Claim(B, "CLOSED")>>}

NewKeywords == {A, Comma, Digested, Second}

Short == {t \in UNION {[1..n -> {"a", "b", ",", "/", " "}] : n \in 1..4} :
            t[1] # " " /\ Last(t) # " "}

Lists == {x \o <<c>> \o y : x, y \in {A, B, Comma, Slash, Long, Digested},
                            c \in {",", "/"}}

Targeted == Short \cup Lists \cup {Long, Digested, Second}

Entry(p, c) == [prefix |-> p, content |-> c]
History(hd, es, o, q) == [header |-> hd, entries |-> es, omitted |-> o, quotes |-> q]

SelectedHistories ==
    {History(4, <<Entry(3, c)>>, FALSE, FALSE) : c \in {0, 8, 31, 32}}
    \cup {History(4, <<Entry(3, 0), Entry(3, 14)>>, FALSE, FALSE),
          History(4, <<Entry(3, 13), Entry(3, 14)>>, TRUE, FALSE),
          History(5, <<Entry(9, 1), Entry(9, 0), Entry(9, 1)>>, FALSE, FALSE),
          History(5, <<Entry(20, 1), Entry(20, 1)>>, TRUE, FALSE),
          History(4, <<Entry(3, 8)>>, FALSE, TRUE)}

Text == Plain("text")
Fake(type) == Tag([type |-> type, round |-> 1], Line(0, Text))

Saved(type, content) == [type |-> type, round |-> 2, content |-> content]
Further(line) == Saved("HOST", <<Line(0, Text), line>>)

SavedContents ==
    {<<Saved("FROM", <<Line(0, Text)>>), Further(Line(n, t))>> :
        n \in {0, 4},
        t \in {Text, BlankText, UnmatchedHeader, ClaimHeader(A, "OPEN"), Fake("HOST")}}
    \cup {<<Saved("FROM", <<Line(0, Fake("FROM")), Empty>>)>>}

SavedTopics == {<<Line(0, Text)>>, <<Line(0, Heading("topic"))>>}
SavedItems == {"u1", "u2"}
SavedAudits == {<<>>, <<"u1", "u2">>}

SavedPhrases ==
    {Text, BlankText, Heading("topic"), UnmatchedHeader, ClaimHeader(A, "OPEN"),
     Fake("HOST"), Fake("FROM")}
=============================================================================
