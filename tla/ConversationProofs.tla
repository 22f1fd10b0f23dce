------------------------- MODULE ConversationProofs -------------------------
(***************************************************************************)
(* Theorems about Conversation, for any number of rounds, model calls and  *)
(* tool calls: the types, what the retry of a failed call may leave in the *)
(* history, the images of a turn, and the calls in the usage summary.      *)
(***************************************************************************)
EXTENDS Conversation, SequenceTheorems, FoldFacts, TLAPS

-----------------------------------------------------------------------------
(* A history with a message more, and without its last one. *)

LEMMA AppendedHistory ==
    ASSUME NEW m \in Seq(Message), NEW x \in Message
    PROVE  /\ Append(m, x) \in Seq(Message)
           /\ Len(m) \in Nat /\ DOMAIN m = 1..Len(m)
           /\ Len(Append(m, x)) = Len(m) + 1
           /\ DOMAIN Append(m, x) = 1..(Len(m) + 1)
           /\ \A i \in 1..Len(m) : Append(m, x)[i] = m[i]
           /\ Append(m, x)[Len(m) + 1] = x
OBVIOUS

LEMMA FrontHistory ==
    ASSUME NEW m \in Seq(Message), m # << >>
    PROVE  /\ Front(m) \in Seq(Message)
           /\ Len(m) \in Nat \ {0} /\ Len(m) > 0 /\ DOMAIN m = 1..Len(m)
           /\ Len(Front(m)) = Len(m) - 1
           /\ DOMAIN Front(m) = 1..(Len(m) - 1)
           /\ \A i \in 1..(Len(m) - 1) : Front(m)[i] = m[i]
<1>1. PICK n \in Nat : Len(m) = n + 1
  <2>1. Len(m) \in Nat /\ Len(m) # 0
    OBVIOUS
  <2>2. Len(m) - 1 \in Nat /\ Len(m) = (Len(m) - 1) + 1
    BY <2>1
  <2> QED BY <2>2
<1>2. DOMAIN m = 1..(n + 1) /\ \A i \in 1..n : m[i] \in Message
  BY <1>1
<1>3. Front(m) = SubSeq(m, 1, n)
  BY <1>1 DEF Front
<1>4. /\ SubSeq(m, 1, n) \in Seq(Message)
      /\ Len(SubSeq(m, 1, n)) = IF 1 <= n THEN n - 1 + 1 ELSE 0
      /\ \A i \in 1..(n - 1 + 1) : SubSeq(m, 1, n)[i] = m[1 + i - 1]
  BY <1>2, SubSeqProperties
<1>5. Front(m) \in Seq(Message) /\ Len(Front(m)) = n
  BY <1>3, <1>4
<1>6. \A i \in 1..n : Front(m)[i] = m[i]
  BY <1>3, <1>4
<1>7. DOMAIN Front(m) = 1..n
  BY <1>5
<1> QED BY <1>1, <1>2, <1>5, <1>6, <1>7

\* The last response of the model, found by its place.
LEMMA LastResponseIs ==
    ASSUME messages \in Seq(Message), NEW i \in DOMAIN messages,
           messages[i].kind = "response",
           \A j \in DOMAIN messages : j > i => messages[j].kind # "response"
    PROVE  LastResponse = i
<1> DEFINE I == {j \in 1..Len(messages) : messages[j].kind = "response"}
<1>1. LastResponse = IF I # {} THEN Max(I) ELSE 0
  BY DEF LastResponse, SelectLastInSeq
<1>2. i \in I /\ \A j \in I : i >= j
  OBVIOUS
<1>3. I \subseteq Int
  OBVIOUS
<1>4. \A j \in I : (\A l \in I : j >= l) => j = i
  <2> HIDE DEF I
  <2> QED BY <1>2, <1>3
<1> HIDE DEF I
<1>5. Max(I) = i
  BY <1>2, <1>4 DEF Max
<1> QED BY <1>1, <1>2, <1>5

-----------------------------------------------------------------------------
(* Type correctness.  A call id is typed only if no more tools are run     *)
(* than the response called, hence the facts about the turn.               *)

\* Message i is the response whose tool calls are being run, and what follows
\* it are their results so far.
TurnAt(i) ==
    /\ i \in DOMAIN messages
    /\ messages[i].kind = "response"
    /\ messages[i].calls > 0
    /\ messages[i].response = responses
    /\ Len(images) <= messages[i].calls
    /\ Len(messages) = IF OpenAI THEN i + Len(images) ELSE i
    /\ OpenAI => \A j \in 1..Len(images) :
                    /\ messages[i + j].role = "tool"
                    /\ messages[i + j].kind = "result"
                    /\ messages[i + j].call = Call(responses, j)

Turn == pc = "tools" => \E i \in DOMAIN messages : TurnAt(i)

Started ==
    /\ pc # "idle" => round > 0
    /\ pc # "tools" => images = << >>
    /\ pc = "model" => messages # << >>

Typed == TypeOK /\ Started /\ Turn

LEMMA TurnFacts ==
    ASSUME TypeOK, pc = "tools", NEW i, TurnAt(i)
    PROVE  LastResponse = i /\ CallsToRun = messages[i].calls
<1>1. ASSUME NEW j \in DOMAIN messages, j > i
      PROVE  messages[j].kind # "response"
  <2>1. /\ Len(messages) \in Nat /\ DOMAIN messages = 1..Len(messages)
        /\ Len(images) \in Nat /\ i \in 1..Len(messages)
    BY DEF TurnAt, TypeOK
  <2>2. OpenAI /\ Len(messages) = i + Len(images)
    BY <1>1, <2>1 DEF TurnAt
  <2>3. j - i \in 1..Len(images) /\ i + (j - i) = j
    BY <1>1, <2>1, <2>2
  <2>4. \A l \in 1..Len(images) : messages[i + l].kind = "result"
    BY <2>1, <2>2 DEF TurnAt
  <2>5. messages[i + (j - i)].kind = "result"
    BY <2>3, <2>4
  <2> QED BY <2>3, <2>5
<1>2. LastResponse = i
  BY <1>1, LastResponseIs DEF TurnAt, TypeOK
<1> QED BY <1>2 DEF CallsToRun

\* At the iteration limit there is never a text: the last message is a result.
LEMMA DeliveredFacts ==
    ASSUME Typed, ToolsDone
    PROVE  /\ messages' \in Seq(Message) /\ messages' # << >>
           /\ MaxIterationsText(Delivered) = 0
           /\ images' = << >>
<1>1. PICK i \in DOMAIN messages : TurnAt(i)
  BY DEF Typed, Turn, ToolsDone
<1>2. LastResponse = i /\ CallsToRun = messages[i].calls
  BY <1>1, TurnFacts DEF Typed, ToolsDone
<1>3. /\ messages \in Seq(Message) /\ Len(messages) \in Nat
      /\ responses \in Nat /\ images \in Seq(0..MaxImages)
  BY DEF Typed, TypeOK
<1>4. messages[i] \in Message /\ messages[i].kind = "response"
  BY <1>1, <1>3 DEF TurnAt
<1>5. messages[i].calls \in 1..MaxCalls
  BY <1>1, <1>4, BoundsAssumption DEF TurnAt, Message
<1>6. Len(images) = messages[i].calls
  BY <1>2 DEF ToolsDone
<1>7. ResultsMessage \in Message
  <2>1. \A j \in DOMAIN images : Call(responses, j) \in CallId
    BY <1>3, <1>5, <1>6, BoundsAssumption DEF Call, CallId
  <2>2. [j \in DOMAIN images |-> Call(responses, j)] \in Seq(CallId)
    BY <1>3, <2>1
  <2> QED BY <2>2 DEF ResultsMessage, Message
<1>8. ImagesMessage \in Message
  BY DEF ImagesMessage, Message
<1>9. ResultsMessage.role = "user" /\ ImagesMessage.role = "user"
  BY DEF ResultsMessage, ImagesMessage
<1>10. CASE ~OpenAI
  <2>1. Delivered = Append(messages, ResultsMessage)
    BY <1>10 DEF Delivered
  <2>2. /\ Delivered \in Seq(Message) /\ Delivered # << >>
        /\ Last(Delivered) = ResultsMessage
    BY <1>3, <1>7, <2>1, AppendedHistory DEF Last
  <2> QED BY <1>9, <2>2 DEF MaxIterationsText, ToolsDone
<1>11. CASE OpenAI /\ TotalImages > 0
  <2>1. Delivered = Append(messages, ImagesMessage)
    BY <1>11 DEF Delivered
  <2>2. /\ Delivered \in Seq(Message) /\ Delivered # << >>
        /\ Last(Delivered) = ImagesMessage
    BY <1>3, <1>8, <2>1, AppendedHistory DEF Last
  <2> QED BY <1>9, <2>2 DEF MaxIterationsText, ToolsDone
<1>12. CASE OpenAI /\ ~(TotalImages > 0)
  <2>1. Delivered = messages
    BY <1>12 DEF Delivered
  <2>2. Len(messages) = i + Len(images) /\ Len(images) \in 1..Len(images)
    BY <1>1, <1>5, <1>6, <1>12, BoundsAssumption DEF TurnAt
  <2>3. \A l \in 1..Len(images) : messages[i + l].role = "tool"
    BY <1>1, <1>3, <1>12 DEF TurnAt
  <2>4. Last(messages).role = "tool"
    BY <2>2, <2>3 DEF Last
  <2> QED BY <1>3, <2>1, <2>4 DEF MaxIterationsText, ToolsDone
<1> QED BY <1>10, <1>11, <1>12

LEMMA LogTyped ==
    ASSUME TypeOK, round > 0, NEW events,
           events \in {CallStart(round), CallEnd(round), FailedCallEnd(round)}
    PROVE  log \o events \in Seq([event : {"call_start", "error", "call_end"},
                                  round : 1..MaxRounds])
<1> DEFINE E == [event : {"call_start", "error", "call_end"},
                 round : 1..MaxRounds]
<1>1. round \in 1..MaxRounds
  BY BoundsAssumption DEF TypeOK
<1>2. \A name \in {"call_start", "error", "call_end"} : Event(name, round) \in E
  BY <1>1 DEF Event
<1>3. log \in Seq(E)
  BY DEF TypeOK
<1> HIDE DEF E
<1>4. CallStart(round) \in Seq(E) /\ CallEnd(round) \in Seq(E)
  BY <1>2 DEF CallStart, CallEnd
<1>5. <<Event("error", round)>> \in Seq(E)
  BY <1>2
<1>6. FailedCallEnd(round) \in Seq(E)
  BY <1>4, <1>5 DEF FailedCallEnd
<1>7. log \o events \in Seq(E)
  BY <1>3, <1>4, <1>6
<1> QED BY <1>7 DEF E

\* What a return leaves to check.
LEMMA ReturnIsTyped ==
    ASSUME TypeOK, round > 0, NEW t \in Nat, Return(t),
           NEW n \in Nat, responses \in Nat, t <= n, responses <= n
    PROVE  /\ log' \in Seq([event : {"call_start", "error", "call_end"},
                            round : 1..MaxRounds])
           /\ pc' \in {"idle", "sending"}
           /\ attempt' \in 1..2
           /\ answer' \in 0..n
<1>1. log' \in Seq([event : {"call_start", "error", "call_end"},
                    round : 1..MaxRounds])
  BY LogTyped DEF Return, Log
<1>2. pc' \in {"idle", "sending"} /\ attempt' \in 1..2 /\ answer' \in 0..n
  BY DEF Return, TypeOK
<1> QED BY <1>1, <1>2

LEMMA RollbackIsHistory ==
    ASSUME TypeOK
    PROVE  messages # << >> => Rollback(messages) \in Seq(Message)
BY FrontHistory DEF TypeOK, Rollback

-----------------------------------------------------------------------------

\* Where send may raise, there is a history to look at.
LEMMA RaisesFacts ==
    ASSUME Typed, Raises
    PROVE  /\ pc \in {"model", "tools"} /\ round > 0
           /\ messages # << >>
           /\ pc = "tools" => /\ ~OpenAI
                             /\ TurnAt(Len(messages))
                             /\ Last(messages).role # "user"
<1>1. pc \in {"model", "tools"} /\ round > 0
  BY DEF Raises, Typed, Started
<1>2. CASE pc = "model"
  BY <1>1, <1>2 DEF Typed, Started
<1>3. CASE pc = "tools"
  <2>1. PICK i \in DOMAIN messages : TurnAt(i)
    BY <1>3 DEF Typed, Turn
  <2>2. ~OpenAI /\ i = Len(messages) /\ messages # << >>
    BY <1>3, <2>1 DEF Raises, TurnAt
  <2>3. messages[i] \in Message /\ messages[i].kind = "response"
    BY <2>1 DEF TurnAt, Typed, TypeOK
  <2>4. messages[i].role # "user"
    BY <2>3 DEF Message
  <2> QED BY <1>1, <2>1, <2>2, <2>4 DEF Last
<1> QED BY <1>1, <1>2, <1>3

LEMMA TypedIsInductive == Typed /\ [Next]_vars => Typed'
<1> SUFFICES ASSUME Typed, [Next]_vars PROVE Typed'
  OBVIOUS
<1> USE BoundsAssumption, IterationsAssumption, ImagesAssumption
<1>1. /\ TypeOK /\ Started /\ Turn
      /\ messages \in Seq(Message) /\ Len(messages) \in Nat
      /\ responses \in Nat /\ round \in Nat
  BY DEF Typed, TypeOK
<1>2. CASE CallAgent
  <2>1. TypeOK'
    BY <1>1, <1>2 DEF CallAgent, TypeOK
  <2>2. Started' /\ Turn'
    BY <1>1, <1>2 DEF CallAgent, Started, Turn
  <2> QED BY <2>1, <2>2 DEF Typed
<1>3. CASE Send
  <2>1. round > 0
    BY <1>1, <1>3 DEF Send, Started
  <2>2. Prompt(round) \in Message
    BY <1>1, <2>1 DEF Prompt, Message, TypeOK
  <2>3. messages' \in Seq(Message)
    BY <1>1, <1>3, <2>2 DEF Send
  <2>4. log' \in Seq([event : {"call_start", "error", "call_end"},
                      round : 1..MaxRounds])
    BY <1>1, <1>3, <2>1, LogTyped DEF Send, Log
  <2>5. TypeOK'
    BY <1>1, <1>3, <2>3, <2>4 DEF Send, TypeOK
  <2>6. messages' # << >>
    BY <1>1, <1>3, <2>2, AppendedHistory DEF Send
  <2>7. Started' /\ Turn'
    BY <1>1, <1>3, <2>1, <2>6 DEF Send, Started, Turn
  <2> QED BY <2>5, <2>7 DEF Typed
<1>4. CASE RetryAfterError
  <2>1. round > 0 /\ messages # << >>
    BY <1>4, RaisesFacts DEF RetryAfterError
  <2>2. messages' \in Seq(Message)
    BY <1>1, <1>4, <2>1, RollbackIsHistory DEF RetryAfterError
  <2>3. log' \in Seq([event : {"call_start", "error", "call_end"},
                      round : 1..MaxRounds])
    BY <1>1, <1>4, <2>1, LogTyped DEF RetryAfterError, Log
  <2>4. TypeOK'
    BY <1>1, <1>4, <2>2, <2>3 DEF RetryAfterError, TypeOK
  <2>5. Started' /\ Turn'
    BY <1>1, <1>4, <2>1 DEF RetryAfterError, Started, Turn
  <2> QED BY <2>4, <2>5 DEF Typed
<1>5. CASE GiveUpAfterError
  <2>1. round > 0
    BY <1>5, RaisesFacts DEF GiveUpAfterError
  <2>2. log' \in Seq([event : {"call_start", "error", "call_end"},
                      round : 1..MaxRounds])
    BY <1>1, <1>5, <2>1, LogTyped DEF GiveUpAfterError, Log
  <2>3. TypeOK'
    BY <1>1, <1>5, <2>2 DEF GiveUpAfterError, LeaveHistory, TypeOK
  <2>4. Started' /\ Turn'
    BY <1>1, <1>5, <2>1 DEF GiveUpAfterError, Started, Turn
  <2> QED BY <2>3, <2>4 DEF Typed
<1>6. CASE FinalResponse
  <2>1. round > 0 /\ images = << >>
    BY <1>1, <1>6 DEF FinalResponse, Started
  <2>2. PICK text \in BOOLEAN :
           /\ messages' = Append(messages, Response(0, text))
           /\ Return(IF text THEN responses + 1 ELSE 0)
    BY <1>6 DEF FinalResponse
  <2>3. Response(0, text) \in Message
    BY <1>1, <2>2 DEF Response, Message
  <2>4. messages' \in Seq(Message)
    BY <1>1, <2>2, <2>3
  <2>5. /\ log' \in Seq([event : {"call_start", "error", "call_end"},
                         round : 1..MaxRounds])
        /\ pc' \in {"idle", "sending"} /\ attempt' \in 1..2
        /\ answer' \in 0..(responses + 1)
    <3>1. PICK t \in 0..(responses + 1) : Return(t)
      BY <1>1, <2>2
    <3>2. t \in Nat /\ t <= responses + 1 /\ responses <= responses + 1
      BY <1>1
    <3>3. responses + 1 \in Nat
      BY <1>1
    <3> QED BY <1>1, <2>1, <3>1, <3>2, <3>3, ReturnIsTyped
  <2>6. TypeOK'
    BY <1>1, <1>6, <2>4, <2>5 DEF FinalResponse, TypeOK
  <2>7. Started' /\ Turn'
    BY <1>1, <1>6, <2>1, <2>5 DEF FinalResponse, Started, Turn
  <2> QED BY <2>6, <2>7 DEF Typed
<1>7. CASE ToolCallResponse
  <2>1. round > 0 /\ images = << >>
    BY <1>1, <1>7 DEF ToolCallResponse, Started
  <2>2. PICK calls \in 1..MaxCalls, text \in Remarks :
           messages' = Append(messages, Response(calls, text))
    BY <1>7 DEF ToolCallResponse
  <2>3. Response(calls, text) \in Message
    BY <1>1, <2>2, RemarksAssumption DEF Response, Message
  <2>4. /\ messages' \in Seq(Message)
        /\ Len(messages') = Len(messages) + 1
        /\ Len(messages) + 1 \in DOMAIN messages'
        /\ messages'[Len(messages) + 1] = Response(calls, text)
    BY <1>1, <2>2, <2>3, AppendedHistory
  <2>5. answer \in 0..(responses + 1)
    BY <1>1 DEF TypeOK
  <2>6. TypeOK'
    BY <1>1, <1>7, <2>4, <2>5 DEF ToolCallResponse, TypeOK
  <2>7. PICK i \in Nat : i = Len(messages) + 1
    BY <1>1
  <2>8. /\ messages'[i].kind = "response"
        /\ messages'[i].calls = calls
        /\ messages'[i].response = responses'
    BY <1>7, <2>4, <2>7 DEF ToolCallResponse, Response
  <2>9. images' = images /\ Len(images) = 0
    BY <1>7, <2>1 DEF ToolCallResponse
  <2>10. TurnAt(i)'
    BY <1>1, <2>2, <2>4, <2>7, <2>8, <2>9 DEF TurnAt
  <2>11. Started' /\ Turn'
    BY <1>1, <1>7, <2>1, <2>4, <2>7, <2>10 DEF ToolCallResponse, Started, Turn
  <2> QED BY <2>6, <2>11 DEF Typed
<1>8. CASE RunTool
  <2>1. PICK i \in DOMAIN messages : TurnAt(i)
    BY <1>1, <1>8 DEF RunTool, Turn
  <2>2. CallsToRun = messages[i].calls
    BY <1>1, <1>8, <2>1, TurnFacts DEF RunTool
  <2>3. messages[i].calls \in 0..MaxCalls
    BY <1>1, <2>1 DEF TurnAt, Message
  <2>4. PICK n \in ToolImages : images' = Append(images, Shown(n))
    BY <1>8 DEF RunTool
  <2>5. Shown(n) \in 0..MaxImages
    BY <2>4 DEF Shown, Normalized
  <2>6. images \in Seq(0..MaxImages) /\ Len(images) \in Nat
    BY <1>1 DEF TypeOK
  <2>7. images' \in Seq(0..MaxImages) /\ Len(images') = Len(images) + 1
    BY <2>4, <2>5, <2>6
  <2> DEFINE x == [role |-> "tool", kind |-> "result",
                   call |-> Call(responses, Len(images) + 1)]
  <2>8. Call(responses, Len(images) + 1) \in CallId
    BY <1>1, <1>8, <2>2, <2>3, <2>6 DEF RunTool, Call, CallId
  <2>9. x \in Message /\ x.role = "tool" /\ x.kind = "result"
        /\ x.call = Call(responses, Len(images) + 1)
    BY <2>8 DEF Message
  <2>10. messages' = IF OpenAI THEN Append(messages, x) ELSE messages
    BY <1>8 DEF RunTool
  <2> HIDE DEF x
  <2>11. messages' \in Seq(Message)
    BY <1>1, <2>9, <2>10
  <2>12. TypeOK'
    BY <1>1, <1>8, <2>7, <2>11 DEF RunTool, TypeOK
  <2>13. TurnAt(i)'
    <3>1. /\ provider' = provider /\ responses' = responses
          /\ Len(images') <= messages[i].calls
      BY <1>8, <2>2, <2>3, <2>6, <2>7 DEF RunTool
    <3>2. CASE ~OpenAI
      BY <2>1, <2>10, <3>1, <3>2 DEF TurnAt, OpenAI
    <3>3. CASE OpenAI
      <4>1. /\ Len(messages') = Len(messages) + 1
            /\ DOMAIN messages = 1..Len(messages)
            /\ DOMAIN messages' = 1..(Len(messages) + 1)
            /\ \A j \in 1..Len(messages) : messages'[j] = messages[j]
            /\ messages'[Len(messages) + 1] = x
        BY <1>1, <2>9, <2>10, <3>3, AppendedHistory
      <4>2. Len(messages) = i + Len(images) /\ OpenAI'
        BY <2>1, <3>1, <3>3 DEF TurnAt, OpenAI
      <4>3. ASSUME NEW j \in 1..Len(images')
            PROVE  /\ messages'[i + j].role = "tool"
                   /\ messages'[i + j].kind = "result"
                   /\ messages'[i + j].call = Call(responses, j)
        <5>1. CASE j \in 1..Len(images)
          <6>1. i + j \in 1..Len(messages)
            BY <2>1, <2>6, <4>1, <4>2, <5>1
          <6>2. /\ messages[i + j].role = "tool"
                /\ messages[i + j].kind = "result"
                /\ messages[i + j].call = Call(responses, j)
            BY <2>1, <3>3, <5>1 DEF TurnAt
          <6> QED BY <4>1, <6>1, <6>2
        <5>2. CASE j = Len(images) + 1
          <6>1. i + j = Len(messages) + 1
            BY <1>1, <2>1, <2>6, <4>1, <4>2, <5>2
          <6> QED BY <2>9, <4>1, <5>2, <6>1
        <5> QED BY <2>6, <2>7, <4>3, <5>1, <5>2
      <4>4. i \in 1..Len(messages)
        BY <2>1, <4>1
      <4>5. i \in DOMAIN messages' /\ messages'[i] = messages[i]
        BY <1>1, <4>1, <4>4
      <4>6. Len(messages') = i + Len(images')
        BY <1>1, <2>6, <2>7, <4>1, <4>2, <4>4
      <4>7. \A j \in 1..Len(images)' :
               /\ messages'[i + j].role = "tool"
               /\ messages'[i + j].kind = "result"
               /\ messages'[i + j].call = Call(responses, j)'
        BY <3>1, <4>3 DEF Call
      <4> QED BY <2>1, <3>1, <4>2, <4>5, <4>6, <4>7 DEF TurnAt
    <3> QED BY <3>2, <3>3
  <2>14. i \in DOMAIN messages'
    BY <2>13 DEF TurnAt
  <2>15. Started' /\ Turn'
    BY <1>1, <1>8, <2>13, <2>14 DEF RunTool, Started, Turn
  <2> QED BY <2>12, <2>15 DEF Typed
<1>9. CASE AskAgain
  <2>1. messages' \in Seq(Message) /\ messages' # << >> /\ images' = << >>
    BY <1>9, DeliveredFacts DEF AskAgain
  <2>2. TypeOK'
    BY <1>1, <1>9, <2>1 DEF AskAgain, IterationsLeft, TypeOK
  <2>3. Started' /\ Turn'
    BY <1>1, <1>9, <2>1 DEF AskAgain, ToolsDone, Started, Turn
  <2> QED BY <2>2, <2>3 DEF Typed
<1>10. CASE StopIterating
  <2>1. messages' \in Seq(Message) /\ images' = << >> /\ Return(0)
    BY <1>10, DeliveredFacts DEF StopIterating
  <2>2. round > 0
    BY <1>1, <1>10 DEF StopIterating, ToolsDone, Started
  <2>3. /\ log' \in Seq([event : {"call_start", "error", "call_end"},
                         round : 1..MaxRounds])
        /\ pc' \in {"idle", "sending"} /\ attempt' \in 1..2
        /\ answer' \in 0..responses
    <3>1. 0 \in Nat /\ 0 <= responses /\ responses <= responses
      BY <1>1
    <3> QED BY <1>1, <2>1, <2>2, <3>1, ReturnIsTyped
  <2>4. TypeOK'
    BY <1>1, <1>10, <2>1, <2>3 DEF StopIterating, TypeOK
  <2>5. Started' /\ Turn'
    BY <1>1, <1>10, <2>1, <2>2, <2>3 DEF StopIterating, Started, Turn
  <2> QED BY <2>4, <2>5 DEF Typed
<1>11. CASE UNCHANGED vars
  <2>1. TypeOK' /\ Started'
    BY <1>1, <1>11 DEF vars, TypeOK, Started
  <2>2. \A i : TurnAt(i)' <=> TurnAt(i)
    BY <1>11 DEF vars, TurnAt, OpenAI, Call
  <2>3. Turn'
    BY <1>1, <1>11, <2>2 DEF vars, Turn
  <2> QED BY <2>1, <2>3 DEF Typed
<1> QED BY <1>2, <1>3, <1>4, <1>5, <1>6, <1>7, <1>8, <1>9, <1>10, <1>11
        DEF Next, Done

LEMMA TypedHolds == Spec => []Typed
<1>1. Init => Typed
  BY BoundsAssumption, IterationsAssumption
     DEF Init, Typed, TypeOK, Started, Turn
<1> QED BY <1>1, TypedIsInductive, PTL DEF Spec

\* Every variable keeps its type; a call id never exceeds the calls of its
\* response.
THEOREM ConversationTypes == Spec => []TypeOK
BY TypedHolds, PTL DEF Typed

-----------------------------------------------------------------------------
(* Prompts in the history. *)

\* Prompts are of this round or earlier, earlier before the round's is sent.
PromptsPassed ==
    \A i \in DOMAIN messages :
        messages[i].kind = "prompt" =>
            /\ messages[i].round <= round
            /\ pc = "sending" /\ attempt = 1 => messages[i].round < round

\* The last prompt is the round's.
Asked ==
    \E i \in DOMAIN messages :
        /\ messages[i] = Prompt(round)
        /\ \A j \in DOMAIN messages : j > i => messages[j].kind # "prompt"

\* Tool results and images do not follow a prompt.
ResultsPreceded ==
    \A i \in DOMAIN messages :
        messages[i].kind \in {"results", "images"} =>
            i > 1 /\ messages[i - 1].kind # "prompt"

\* A retry finds the round's prompt gone from the end of the history.
PromptRemoved ==
    pc = "sending" /\ attempt = 2 /\ messages # << >> =>
        messages[Len(messages)] # Prompt(round)

Prompted ==
    /\ PromptsPassed
    /\ pc \in {"model", "tools"} => Asked
    /\ ResultsPreceded
    /\ PromptRemoved
    /\ NoEcho
    /\ AnswerIsFinal

\* The history has one message more, and that is no prompt.
Adds(x) ==
    /\ x \in Message
    /\ messages' = Append(messages, x)
    /\ x.kind # "prompt"
    /\ x.kind \in {"results", "images"} =>
          messages # << >> /\ messages[Len(messages)].kind # "prompt"

LEMMA AddsKeeps ==
    ASSUME Typed, Prompted, NEW x, Adds(x), UNCHANGED round
    PROVE  /\ NoEcho' /\ ResultsPreceded'
           /\ Asked => Asked'
           /\ \A i \in DOMAIN messages' :
                 messages'[i].kind = "prompt" => messages'[i].round <= round
           /\ messages'[Len(messages')] = x
<1> DEFINE n == Len(messages)
<1>1. /\ n \in Nat /\ DOMAIN messages = 1..n
      /\ Len(messages') = n + 1 /\ DOMAIN messages' = 1..(n + 1)
      /\ \A i \in 1..n : messages'[i] = messages[i]
      /\ messages'[n + 1] = x
  BY AppendedHistory DEF Typed, TypeOK, Adds
<1>2. /\ x.kind # "prompt"
      /\ x.kind \in {"results", "images"} => n > 0 /\ messages[n].kind # "prompt"
  BY <1>1 DEF Adds, Typed, TypeOK
<1>3. /\ NoEcho /\ ResultsPreceded /\ PromptsPassed
  BY DEF Prompted
<1> HIDE DEF n
<1>4. ASSUME NEW i \in 1..n, messages'[i].kind = "prompt"
      PROVE  messages'[i] # messages'[i + 1]
  <2>1. CASE i = n
    <3>1. messages'[i + 1].kind # "prompt"
      BY <1>1, <1>2, <2>1
    <3> QED BY <1>4, <3>1
  <2>2. CASE i < n
    <3>1. i \in 1..(n - 1) /\ i + 1 \in 1..n
      BY <1>1, <2>2
    <3>2. messages[i].kind = "prompt" => messages[i] # messages[i + 1]
      BY <1>1, <1>3, <3>1 DEF NoEcho, n
    <3> QED BY <1>1, <1>4, <3>1, <3>2
  <2> QED BY <1>1, <2>1, <2>2
<1>5. NoEcho'
  <2>1. \A i \in 1..(Len(messages') - 1) : i \in 1..n
    BY <1>1
  <2> QED BY <1>4, <2>1 DEF NoEcho
<1>6. ASSUME NEW i \in 1..(n + 1), messages'[i].kind \in {"results", "images"}
      PROVE  i > 1 /\ messages'[i - 1].kind # "prompt"
  <2>1. CASE i = n + 1
    <3>1. n > 0 /\ messages[n].kind # "prompt" /\ n \in 1..n
      BY <1>1, <1>2, <1>6, <2>1
    <3> QED BY <1>1, <2>1, <3>1
  <2>2. CASE i \in 1..n
    <3>1. i > 1 /\ messages[i - 1].kind # "prompt"
      BY <1>1, <1>3, <1>6, <2>2 DEF ResultsPreceded
    <3>2. i - 1 \in 1..n
      BY <1>1, <2>2, <3>1
    <3> QED BY <1>1, <3>1, <3>2
  <2> QED BY <1>1, <2>1, <2>2
<1>7. ResultsPreceded'
  BY <1>1, <1>6 DEF ResultsPreceded
<1>8. ASSUME Asked PROVE Asked'
  <2>1. PICK i \in 1..n :
           /\ messages[i] = Prompt(round)
           /\ \A j \in 1..n : j > i => messages[j].kind # "prompt"
    BY <1>1, <1>8 DEF Asked
  <2>2. /\ i \in 1..(n + 1)
        /\ messages'[i] = Prompt(round)
        /\ \A j \in 1..(n + 1) : j > i => messages'[j].kind # "prompt"
    BY <1>1, <1>2, <2>1
  <2>3. Prompt(round)' = Prompt(round)
    BY DEF Prompt
  <2> QED BY <1>1, <2>2, <2>3 DEF Asked
<1>9. \A i \in 1..(n + 1) :
         messages'[i].kind = "prompt" => messages'[i].round <= round
  BY <1>1, <1>2, <1>3 DEF PromptsPassed
<1> QED BY <1>1, <1>5, <1>7, <1>8, <1>9

\* What an end of an attempt without a prompt at the end leaves to show.
LEMMA DeliveryKeeps ==
    ASSUME Typed, Prompted, ToolsDone, UNCHANGED <<round, provider>>
    PROVE  /\ NoEcho' /\ ResultsPreceded' /\ Asked'
           /\ \A i \in DOMAIN messages' :
                 messages'[i].kind = "prompt" => messages'[i].round <= round
           /\ messages'[Len(messages')].kind # "prompt"
<1>1. PICK i \in DOMAIN messages : TurnAt(i)
  BY DEF Typed, Turn, ToolsDone
<1>2. /\ messages \in Seq(Message) /\ Len(messages) \in Nat
      /\ DOMAIN messages = 1..Len(messages)
      /\ images \in Seq(0..MaxImages) /\ Len(images) \in Nat
  BY DEF Typed, TypeOK
<1>3. messages # << >> /\ messages[Len(messages)].kind # "prompt"
  <2>1. messages # << >> /\ messages[i].kind = "response"
    BY <1>1, <1>2 DEF TurnAt
  <2>2. CASE Len(messages) = i
    BY <2>1, <2>2
  <2>3. CASE OpenAI /\ Len(messages) # i
    <3>1. Len(messages) = i + Len(images) /\ Len(images) \in 1..Len(images)
      BY <1>1, <1>2, <2>3 DEF TurnAt
    <3>2. \A l \in 1..Len(images) : messages[i + l].kind = "result"
      BY <1>1, <1>2, <2>3 DEF TurnAt
    <3>3. messages[i + Len(images)].kind = "result"
      BY <3>1, <3>2
    <3> QED BY <2>1, <3>1, <3>3
  <2> QED BY <1>1, <2>2, <2>3 DEF TurnAt
<1>4. Asked /\ messages' \in Seq(Message)
  BY DeliveredFacts DEF Prompted, ToolsDone
<1>5. ASSUME messages' = messages
      PROVE  /\ NoEcho' /\ ResultsPreceded' /\ Asked'
             /\ \A j \in DOMAIN messages' :
                   messages'[j].kind = "prompt" => messages'[j].round <= round
             /\ messages'[Len(messages')].kind # "prompt"
  BY <1>3, <1>4, <1>5
     DEF Prompted, NoEcho, ResultsPreceded, PromptsPassed, Asked, Prompt
<1>6. ASSUME NEW x, messages' = Append(messages, x),
             x.kind \in {"results", "images"}
      PROVE  Adds(x)
  <2>1. /\ Append(messages, x)[Len(messages) + 1] = x
        /\ Len(messages) + 1 \in DOMAIN Append(messages, x)
    BY <1>2
  <2>2. x \in Message
    BY <1>4, <1>6, <2>1
  <2> QED BY <1>3, <1>6, <2>2 DEF Adds
<1>7. CASE messages' = Append(messages, ResultsMessage)
  <2>1. ResultsMessage.kind = "results"
    BY DEF ResultsMessage
  <2>2. Adds(ResultsMessage)
    BY <1>6, <1>7, <2>1
  <2> QED BY <1>4, <2>1, <2>2, AddsKeeps
<1>8. CASE messages' = Append(messages, ImagesMessage)
  <2>1. ImagesMessage.kind = "images"
    BY DEF ImagesMessage
  <2>2. Adds(ImagesMessage)
    BY <1>6, <1>8, <2>1
  <2> QED BY <1>4, <2>1, <2>2, AddsKeeps
<1> QED BY <1>5, <1>7, <1>8 DEF ToolsDone, Delivered

LEMMA RemovalKeeps ==
    ASSUME Typed, Prompted, RetryAfterError
    PROVE  Prompted'
<1> DEFINE n == Len(messages)
<1>1. /\ pc \in {"model", "tools"} /\ messages # << >>
      /\ pc' = "sending" /\ attempt' = 2 /\ round' = round
      /\ messages' = Rollback(messages)
  BY RaisesFacts DEF RetryAfterError
<1>2. /\ messages \in Seq(Message) /\ messages # << >>
      /\ n \in Nat \ {0} /\ DOMAIN messages = 1..n
  BY <1>1, FrontHistory DEF Typed, TypeOK
<1>3. PICK a \in 1..n :
         /\ messages[a] = Prompt(round)
         /\ \A j \in 1..n : j > a => messages[j].kind # "prompt"
  BY <1>1, <1>2 DEF Prompted, Asked
<1>4. NoEcho /\ ResultsPreceded /\ PromptsPassed
  BY DEF Prompted
<1>5. Prompt(round).kind = "prompt" /\ Prompt(round).role = "user"
      /\ Prompt(round)' = Prompt(round)
  BY <1>1 DEF Prompt
<1>6. CASE messages' = messages
  <2>1. messages[n].role # "user"
    <3>1. CASE Last(messages).role = "user"
      <4>1. messages' = Front(messages)
        BY <1>1, <3>1 DEF Rollback
      <4>2. Len(Front(messages)) = n - 1
        BY <1>2, FrontHistory
      <4>3. n - 1 # n
        <5> HIDE DEF n
        <5> QED BY <1>2
      <4>4. Front(messages) = messages
        BY <1>6, <4>1
      <4> QED BY <4>2, <4>3, <4>4
    <3> QED BY <3>1 DEF Last
  <2>2. messages[n] # Prompt(round)
    BY <1>5, <2>1
  <2>3. PromptRemoved'
    BY <1>5, <1>6, <2>2 DEF PromptRemoved
  <2>4. PromptsPassed' /\ ResultsPreceded' /\ NoEcho' /\ AnswerIsFinal'
    BY <1>1, <1>4, <1>6
       DEF PromptsPassed, ResultsPreceded, NoEcho, AnswerIsFinal
  <2> QED BY <1>1, <2>3, <2>4 DEF Prompted
<1>7. CASE messages' # messages
  <2>1. /\ messages' = Front(messages)
        /\ messages[n].role = "user"
    BY <1>1, <1>7 DEF Rollback, Last
  <2>2. /\ Len(messages') = n - 1 /\ DOMAIN messages' = 1..(n - 1)
        /\ \A i \in 1..(n - 1) : messages'[i] = messages[i]
    BY <1>2, <2>1, FrontHistory
  <2> HIDE DEF n
  <2>3. ASSUME n > 1
        PROVE  messages[n - 1] # Prompt(round)
    <3>1. n - 1 \in 1..n /\ n \in 1..n /\ (n - 1) + 1 = n
      BY <1>2, <2>3
    <3>2. CASE messages[n].kind = "prompt"
      <4>1. a = n
        BY <1>2, <1>3, <3>1, <3>2
      <4>2. messages[n - 1].kind = "prompt" =>
               messages[n - 1] # messages[(n - 1) + 1]
        BY <1>2, <1>4, <2>3 DEF NoEcho, n
      <4> QED BY <1>3, <1>5, <3>1, <4>1, <4>2
    <3>3. CASE messages[n].kind # "prompt"
      <4>1. messages[n].kind \in {"results", "images"}
        BY <1>2, <2>1, <3>1, <3>3 DEF Message
      <4>2. messages[n - 1].kind # "prompt"
        BY <1>2, <1>4, <3>1, <4>1 DEF ResultsPreceded
      <4> QED BY <1>5, <4>2
    <3> QED BY <3>2, <3>3
  <2>4. PromptRemoved'
    <3>1. ASSUME messages' # << >>
          PROVE  messages'[Len(messages')] # Prompt(round)
      <4>1. n > 1
        <5>1. n = 1 => messages' = << >>
          <6>1. n = 1 => Len(messages') = 0 /\ messages' \in Seq(Message)
            BY <1>2, <2>1, <2>2, FrontHistory
          <6> QED BY <6>1
        <5> QED BY <1>2, <3>1, <5>1
      <4>2. n - 1 \in 1..(n - 1)
        BY <1>2, <4>1
      <4> QED BY <2>2, <2>3, <4>1, <4>2
    <3> QED BY <1>5, <3>1 DEF PromptRemoved
  <2>5. PromptsPassed'
    BY <1>1, <1>2, <1>4, <2>2 DEF PromptsPassed
  <2>6. ResultsPreceded'
    <3>1. ASSUME NEW i \in 1..(n - 1),
                 messages'[i].kind \in {"results", "images"}
          PROVE  i > 1 /\ messages'[i - 1].kind # "prompt"
      <4>1. i > 1 /\ messages[i - 1].kind # "prompt"
        <5>1. i \in DOMAIN messages /\ messages[i].kind \in {"results", "images"}
          BY <1>2, <2>2, <3>1
        <5> QED BY <1>4, <5>1 DEF ResultsPreceded
      <4>2. i - 1 \in 1..(n - 1)
        BY <1>2, <3>1, <4>1
      <4> QED BY <2>2, <4>1, <4>2
    <3> QED BY <2>2, <3>1 DEF ResultsPreceded
  <2>7. NoEcho'
    <3>1. ASSUME NEW i \in 1..(Len(messages') - 1), messages'[i].kind = "prompt"
          PROVE  messages'[i] # messages'[i + 1]
      <4>1. i \in 1..(n - 1) /\ i + 1 \in 1..(n - 1)
        BY <1>2, <2>2, <3>1
      <4>2. messages[i].kind = "prompt" => messages[i] # messages[i + 1]
        BY <1>4, <4>1 DEF NoEcho, n
      <4> QED BY <2>2, <3>1, <4>1, <4>2
    <3> QED BY <3>1 DEF NoEcho
  <2>8. AnswerIsFinal'
    BY <1>1 DEF AnswerIsFinal
  <2> QED BY <1>1, <2>4, <2>5, <2>6, <2>7, <2>8 DEF Prompted
<1> QED BY <1>6, <1>7

LEMMA SendKeeps ==
    ASSUME Typed, Prompted, Send
    PROVE  Prompted'
<1> DEFINE n == Len(messages)
           p == Prompt(round)
<1>1. /\ pc = "sending" /\ pc' = "model" /\ round' = round
      /\ messages' = Append(messages, p)
  BY DEF Send
<1>2. p \in Message /\ p.kind = "prompt" /\ p.round = round /\ p' = p
  BY <1>1, BoundsAssumption DEF Prompt, Message, Typed, TypeOK, Started
<1>3. /\ messages \in Seq(Message)
      /\ n \in Nat /\ DOMAIN messages = 1..n
      /\ Len(messages') = n + 1 /\ DOMAIN messages' = 1..(n + 1)
      /\ \A i \in 1..n : messages'[i] = messages[i]
      /\ messages'[n + 1] = p
  BY <1>1, <1>2, AppendedHistory DEF Typed, TypeOK
<1>4. NoEcho /\ ResultsPreceded /\ PromptsPassed /\ PromptRemoved
  BY DEF Prompted
<1>5. n > 0 => messages[n] # p
  <2>1. CASE attempt = 2
    <3>1. n > 0 => messages # << >>
      BY <1>3
    <3> QED BY <1>1, <1>4, <2>1, <3>1 DEF PromptRemoved
  <2>2. CASE attempt = 1
    <3>1. ASSUME n > 0, messages[n] = p
          PROVE  FALSE
      <4>1. n \in 1..n /\ messages[n].kind = "prompt"
        BY <1>2, <1>3, <3>1
      <4>2. messages[n].round < round
        BY <1>1, <1>3, <1>4, <2>2, <4>1 DEF PromptsPassed
      <4>3. round < round /\ round \in Int
        BY <1>2, <3>1, <4>2 DEF Typed, TypeOK
      <4> QED BY <4>3
    <3> QED BY <3>1
  <2> QED BY <2>1, <2>2 DEF Typed, TypeOK
<1> HIDE DEF n, p
<1>6. PromptsPassed'
  <2>1. round <= round
    BY DEF Typed, TypeOK
  <2> QED BY <1>1, <1>2, <1>3, <1>4, <2>1 DEF PromptsPassed
<1>7. Asked'
  <2>1. /\ n + 1 \in DOMAIN messages'
        /\ messages'[n + 1] = p'
        /\ \A j \in DOMAIN messages' : ~(j > n + 1)
    BY <1>2, <1>3
  <2> QED BY <2>1 DEF Asked, p
<1>8. ResultsPreceded'
  <2>1. ASSUME NEW i \in 1..(n + 1), messages'[i].kind \in {"results", "images"}
        PROVE  i > 1 /\ messages'[i - 1].kind # "prompt"
    <3>1. i \in 1..n
      BY <1>2, <1>3, <2>1
    <3>2. i > 1 /\ messages[i - 1].kind # "prompt"
      BY <1>3, <1>4, <2>1, <3>1 DEF ResultsPreceded
    <3>3. i - 1 \in 1..n
      BY <1>3, <3>1, <3>2
    <3> QED BY <1>3, <3>2, <3>3
  <2> QED BY <1>3, <2>1 DEF ResultsPreceded
<1>9. NoEcho'
  <2>1. ASSUME NEW i \in 1..(Len(messages') - 1), messages'[i].kind = "prompt"
        PROVE  messages'[i] # messages'[i + 1]
    <3>1. i \in 1..n
      BY <1>3
    <3>2. CASE i = n
      BY <1>3, <1>5, <3>1, <3>2
    <3>3. CASE i < n
      <4>1. i \in 1..(n - 1) /\ i + 1 \in 1..n
        BY <1>3, <3>1, <3>3
      <4>2. messages[i].kind = "prompt" => messages[i] # messages[i + 1]
        BY <1>4, <4>1 DEF NoEcho, n
      <4> QED BY <1>3, <2>1, <3>1, <4>1, <4>2
    <3> QED BY <1>3, <3>1, <3>2, <3>3
  <2> QED BY <2>1 DEF NoEcho
<1>10. PromptRemoved' /\ AnswerIsFinal'
  BY <1>1 DEF PromptRemoved, AnswerIsFinal
<1> QED BY <1>6, <1>7, <1>8, <1>9, <1>10 DEF Prompted

LEMMA FinalResponseKeeps ==
    ASSUME Typed, Prompted, FinalResponse
    PROVE  Prompted'
<1>1. PICK text \in BOOLEAN :
         /\ messages' = Append(messages, Response(0, text))
         /\ Return(IF text THEN responses + 1 ELSE 0)
  BY DEF FinalResponse
<1> DEFINE x == Response(0, text)
<1>2. /\ x \in Message /\ x.kind = "response" /\ x.calls = 0 /\ x.text = text
      /\ x.response = responses + 1
  BY <1>1, BoundsAssumption DEF Response, Message, Typed, TypeOK
<1>3. /\ pc = "model" /\ round' = round /\ Asked
      /\ responses \in Nat
  BY DEF FinalResponse, Prompted, Typed, TypeOK
<1> HIDE DEF x
<1>4. Adds(x)
  BY <1>1, <1>2 DEF Adds, x
<1>5. /\ NoEcho' /\ ResultsPreceded' /\ Asked'
      /\ \A i \in DOMAIN messages' :
            messages'[i].kind = "prompt" => messages'[i].round <= round
      /\ messages'[Len(messages')] = x
  BY <1>3, <1>4, AddsKeeps
<1>6. /\ pc' \in {"idle", "sending"}
      /\ pc' = "sending" => attempt' = 2
      /\ pc' = "idle" => answer' = IF text THEN responses + 1 ELSE 0
  BY <1>1 DEF Return
<1>7. PromptsPassed'
  BY <1>3, <1>5, <1>6 DEF PromptsPassed
<1>8. PromptRemoved'
  BY <1>2, <1>5 DEF PromptRemoved, Prompt
<1>9. AnswerIsFinal'
  <2>1. SUFFICES ASSUME pc' = "idle", answer' # 0
                 PROVE  /\ x.kind = "response"
                        /\ x.response = answer'
                        /\ x.calls = 0
                        /\ x.text
                        /\ \E i \in DOMAIN messages' :
                              /\ messages'[i] = Prompt(round)'
                              /\ \A j \in (i + 1)..Len(messages') :
                                    messages'[j].kind # "prompt"
    BY <1>5 DEF AnswerIsFinal, Last
  <2>2. text = TRUE /\ answer' = responses + 1
    BY <1>6, <2>1
  <2>3. PICK i \in DOMAIN messages' :
           /\ messages'[i] = Prompt(round)'
           /\ \A j \in DOMAIN messages' : j > i => messages'[j].kind # "prompt"
    BY <1>5 DEF Asked
  <2>4. messages' \in Seq(Message)
    BY <1>2, <1>4 DEF Adds, Typed, TypeOK
  <2>5. \A j \in (i + 1)..Len(messages') : j \in DOMAIN messages' /\ j > i
    BY <2>3, <2>4
  <2> QED BY <1>2, <2>2, <2>3, <2>5
<1> QED BY <1>5, <1>6, <1>7, <1>8, <1>9 DEF Prompted

LEMMA PromptedIsInductive ==
    ASSUME Typed, Prompted, [Next]_vars
    PROVE  Prompted'
<1>1. CASE CallAgent
  <2>1. /\ pc' = "sending" /\ attempt' = 1 /\ round' = round + 1
        /\ messages' = messages
        /\ round \in Int /\ \A i \in DOMAIN messages : messages[i] \in Message
    BY <1>1 DEF CallAgent, Typed, TypeOK
  <2>2. PromptsPassed'
    <3>1. ASSUME NEW i \in DOMAIN messages, messages[i].kind = "prompt"
          PROVE  messages[i].round < round + 1
      <4>1. messages[i].round \in Int /\ messages[i].round <= round
        BY <2>1, <3>1 DEF Message, Prompted, PromptsPassed
      <4> QED BY <2>1, <4>1
    <3>2. \A i \in DOMAIN messages : messages[i].kind = "prompt" =>
             messages[i].round < round + 1 /\ messages[i].round <= round + 1
      BY <2>1, <3>1 DEF Message
    <3> QED BY <2>1, <3>2 DEF PromptsPassed
  <2>3. ResultsPreceded' /\ NoEcho' /\ PromptRemoved' /\ AnswerIsFinal'
    BY <2>1 DEF Prompted, ResultsPreceded, NoEcho, PromptRemoved, AnswerIsFinal
  <2> QED BY <2>1, <2>2, <2>3 DEF Prompted
<1>2. CASE GiveUpAfterError
  <2>1. pc' = "idle" /\ answer' = 0 /\ round' = round /\ messages' = messages
    BY <1>2 DEF GiveUpAfterError, LeaveHistory
  <2> QED BY <2>1 DEF Prompted, PromptsPassed, ResultsPreceded, NoEcho,
                      PromptRemoved, AnswerIsFinal
<1>3. CASE ToolCallResponse
  <2>1. PICK calls \in 1..MaxCalls, text \in Remarks :
           messages' = Append(messages, Response(calls, text))
    BY <1>3 DEF ToolCallResponse
  <2>2. /\ pc = "model" /\ pc' = "tools" /\ round' = round /\ Asked
    BY <1>3 DEF ToolCallResponse, Prompted
  <2>3. /\ Response(calls, text) \in Message
        /\ Response(calls, text).kind = "response"
    BY <2>1, BoundsAssumption, RemarksAssumption
       DEF Response, Message, Typed, TypeOK
  <2>4. Adds(Response(calls, text))
    BY <2>1, <2>3 DEF Adds
  <2>5. /\ NoEcho' /\ ResultsPreceded' /\ Asked'
        /\ \A i \in DOMAIN messages' :
              messages'[i].kind = "prompt" => messages'[i].round <= round
    BY <2>2, <2>4, AddsKeeps
  <2> QED BY <2>2, <2>5
          DEF Prompted, PromptsPassed, PromptRemoved, AnswerIsFinal
<1>4. CASE RunTool
  <2>1. /\ pc = "tools" /\ pc' = "tools" /\ round' = round /\ Asked
    BY <1>4 DEF RunTool, Prompted
  <2>2. CASE messages' = messages
    BY <2>1, <2>2 DEF Prompted, PromptsPassed, ResultsPreceded, NoEcho, Asked,
                      Prompt, PromptRemoved, AnswerIsFinal
  <2>3. CASE messages' # messages
    <3> DEFINE x == [role |-> "tool", kind |-> "result",
                     call |-> Call(responses, Len(images) + 1)]
    <3>1. messages' = Append(messages, x) /\ x.kind = "result"
      BY <1>4, <2>3 DEF RunTool
    <3>2. messages' \in Seq(Message)
      BY TypedIsInductive DEF Typed, TypeOK
    <3> HIDE DEF x
    <3>3. x \in Message
      <4>1. /\ messages \in Seq(Message)
            /\ Append(messages, x)[Len(messages) + 1] = x
            /\ Len(messages) + 1 \in DOMAIN Append(messages, x)
        BY DEF Typed, TypeOK
      <4> QED BY <3>1, <3>2, <4>1
    <3>4. Adds(x)
      BY <3>1, <3>3 DEF Adds
    <3>5. /\ NoEcho' /\ ResultsPreceded' /\ Asked'
          /\ \A i \in DOMAIN messages' :
                messages'[i].kind = "prompt" => messages'[i].round <= round
      BY <2>1, <3>4, AddsKeeps
    <3> QED BY <2>1, <3>5
            DEF Prompted, PromptsPassed, PromptRemoved, AnswerIsFinal
  <2> QED BY <2>2, <2>3
<1>5. CASE AskAgain
  <2>1. /\ ToolsDone /\ pc' = "model"
        /\ round' = round /\ provider' = provider
    BY <1>5 DEF AskAgain
  <2>2. /\ NoEcho' /\ ResultsPreceded' /\ Asked'
        /\ \A i \in DOMAIN messages' :
              messages'[i].kind = "prompt" => messages'[i].round <= round
    BY <2>1, DeliveryKeeps
  <2> QED BY <2>1, <2>2
          DEF Prompted, PromptsPassed, PromptRemoved, AnswerIsFinal
<1>6. CASE StopIterating
  <2>1. /\ ToolsDone /\ Return(0)
        /\ round' = round /\ provider' = provider
    BY <1>6, DeliveredFacts DEF StopIterating
  <2>2. /\ NoEcho' /\ ResultsPreceded' /\ Asked'
        /\ \A i \in DOMAIN messages' :
              messages'[i].kind = "prompt" => messages'[i].round <= round
        /\ messages'[Len(messages')].kind # "prompt"
    BY <2>1, DeliveryKeeps
  <2>3. \/ pc' = "sending" /\ attempt' = 2
        \/ pc' = "idle" /\ answer' = 0
    BY <2>1 DEF Return
  <2>4. PromptsPassed' /\ AnswerIsFinal'
    BY <2>1, <2>2, <2>3 DEF PromptsPassed, AnswerIsFinal
  <2>5. PromptRemoved'
    BY <2>2 DEF PromptRemoved, Prompt
  <2> QED BY <2>2, <2>3, <2>4, <2>5 DEF Prompted
<1>7. CASE UNCHANGED vars
  BY <1>7 DEF vars, Prompted, PromptsPassed, ResultsPreceded, NoEcho, Asked,
              Prompt, PromptRemoved, AnswerIsFinal
<1> QED BY <1>1, <1>2, <1>3, <1>4, <1>5, <1>6, <1>7, SendKeeps, RemovalKeeps,
           FinalResponseKeeps
        DEF Next, Done

LEMMA PromptedHolds == Spec => []Prompted
<1>1. Init => Prompted
  BY DEF Init, Prompted, PromptsPassed, ResultsPreceded, NoEcho,
         PromptRemoved, AnswerIsFinal
<1>2. Typed /\ Prompted /\ [Next]_vars => Prompted'
  BY PromptedIsInductive
<1> QED BY <1>1, <1>2, TypedHolds, PTL DEF Spec

\* No prompt is in the history twice in a row, whatever failed before.
THEOREM NoEchoHolds == Spec => []NoEcho
<1>1. Prompted => NoEcho
  BY DEF Prompted
<1> QED BY <1>1, PromptedHolds, PTL

\* What an agent is quoted with is the final text of its round.
THEOREM AnswerIsFinalHolds == Spec => []AnswerIsFinal
<1>1. Prompted => AnswerIsFinal
  BY DEF Prompted
<1> QED BY <1>1, PromptedHolds, PTL

-----------------------------------------------------------------------------
(* Tool calls and their results. *)

\* Response i called tools, and their results do not follow it.
Open(i) ==
    /\ messages[i].kind = "response"
    /\ messages[i].calls > 0
    /\ ~Answered(i)

\* In Anthropic's protocol, the prompt of another attempt follows i.
PromptFollows(i) ==
    /\ ~OpenAI
    /\ i + 1 \in DOMAIN messages
    /\ messages[i + 1].kind = "prompt"

\* The attempt ended with i, and no other has begun.
AttemptOver(i) ==
    /\ ~OpenAI
    /\ i = Len(messages)
    /\ pc \in {"idle", "sending"}

\* The tools are being run, or an attempt ended without the results.
OpenForReason ==
    \A i \in DOMAIN messages :
        Open(i) => \/ pc = "tools" /\ TurnAt(i)
                   \/ AttemptOver(i)
                   \/ PromptFollows(i)

\* The history is a longer one, or the same.
Longer ==
    /\ messages \in Seq(Message) /\ messages' \in Seq(Message)
    /\ provider' = provider
    /\ Len(messages') >= Len(messages)
    /\ \A i \in 1..Len(messages) : messages'[i] = messages[i]

LEMMA LongerFacts ==
    ASSUME Longer, NEW i \in DOMAIN messages
    PROVE  /\ i \in DOMAIN messages' /\ messages'[i] = messages[i]
           /\ Open(i)' => Open(i)
           /\ PromptFollows(i) => PromptFollows(i)'
<1> DEFINE n == Len(messages)
<1>1. /\ n \in Nat /\ DOMAIN messages = 1..n
      /\ Len(messages') \in Nat /\ Len(messages') >= n
      /\ DOMAIN messages' = 1..Len(messages')
      /\ \A j \in 1..n : messages'[j] = messages[j]
      /\ OpenAI' = OpenAI
  BY DEF Longer, OpenAI
<1> HIDE DEF n
<1>2. \A j \in 1..n : j \in DOMAIN messages' /\ messages'[j] = messages[j]
  BY <1>1
<1>3. i \in 1..n /\ messages'[i] = messages[i]
  BY <1>1
<1>4. ASSUME Answered(i) PROVE Answered(i)'
  <2>1. CASE OpenAI
    <3>1. \A j \in 1..messages[i].calls :
             /\ i + j \in DOMAIN messages
             /\ messages[i + j].kind = "result"
             /\ messages[i + j].call = Call(messages[i].response, j)
      BY <1>4, <2>1 DEF Answered
    <3>2. \A j \in 1..messages'[i].calls :
             /\ i + j \in DOMAIN messages'
             /\ messages'[i + j].kind = "result"
             /\ messages'[i + j].call = Call(messages'[i].response, j)
      BY <1>1, <1>2, <1>3, <3>1
    <3> QED BY <1>1, <2>1, <3>2 DEF Answered, Call
  <2>2. CASE ~OpenAI
    <3>1. /\ i + 1 \in 1..n
          /\ messages[i + 1].kind = "results"
          /\ messages[i + 1].results =
                [j \in 1..messages[i].calls |-> Call(messages[i].response, j)]
      BY <1>1, <1>4, <2>2 DEF Answered
    <3> QED BY <1>1, <1>2, <1>3, <2>2, <3>1 DEF Answered, Call
  <2> QED BY <2>1, <2>2
<1>5. Open(i)' => Open(i)
  BY <1>3, <1>4 DEF Open
<1>6. PromptFollows(i) => PromptFollows(i)'
  BY <1>1, <1>2, <1>3 DEF PromptFollows
<1> QED BY <1>1, <1>2, <1>3, <1>5, <1>6

\* Of a step that adds what is no response, or a last one.
LEMMA LongerKeeps ==
    ASSUME Longer, OpenForReason,
           \A i \in DOMAIN messages :
              Open(i) /\ Open(i)' =>
                 \/ PromptFollows(i)
                 \/ pc' = "tools" /\ TurnAt(i)'
                 \/ AttemptOver(i)'
                 \/ PromptFollows(i)',
           \A i \in DOMAIN messages' :
              i \notin DOMAIN messages /\ Open(i)' =>
                 pc' = "tools" /\ TurnAt(i)'
    PROVE  OpenForReason'
BY LongerFacts DEF OpenForReason

LEMMA AppendIsLonger ==
    ASSUME Typed, NEW x \in Message, messages' = Append(messages, x),
           UNCHANGED provider
    PROVE  /\ Longer
           /\ \A i \in DOMAIN messages' :
                 i \notin DOMAIN messages => i = Len(messages')
           /\ messages'[Len(messages')] = x
           /\ Len(messages') = Len(messages) + 1
BY AppendedHistory DEF Typed, TypeOK, Longer

LEMMA SameIsLonger ==
    ASSUME Typed, UNCHANGED <<messages, provider>>
    PROVE  Longer
BY DEF Typed, TypeOK, Longer

\* The results of the turn answer it.
LEMMA DeliveryAnswers ==
    ASSUME Typed, Typed', ToolsDone, UNCHANGED <<provider, responses>>,
           NEW i \in DOMAIN messages, TurnAt(i)
    PROVE  /\ Longer /\ ~Open(i)'
           /\ \A j \in DOMAIN messages' :
                 j \notin DOMAIN messages => messages'[j].kind # "response"
<1> DEFINE n == Len(messages)
<1>1. CallsToRun = messages[i].calls /\ Len(images) = CallsToRun
  BY TurnFacts DEF Typed, ToolsDone
<1>2. /\ messages \in Seq(Message) /\ messages' \in Seq(Message)
      /\ n \in Nat /\ DOMAIN messages = 1..n
      /\ images \in Seq(0..MaxImages) /\ Len(images) \in Nat
      /\ DOMAIN images = 1..Len(images)
      /\ OpenAI' = OpenAI
  BY DEF Typed, TypeOK, OpenAI
<1>3. ASSUME NEW x, messages' = Append(messages, x), x.kind # "response"
      PROVE  /\ Longer
             /\ messages'[n + 1] = x /\ n + 1 \in DOMAIN messages'
             /\ \A j \in DOMAIN messages' :
                   j \notin DOMAIN messages => messages'[j].kind # "response"
  <2>1. x \in Message
    <3>1. /\ Append(messages, x)[n + 1] = x
          /\ n + 1 \in DOMAIN Append(messages, x)
      BY <1>2
    <3> QED BY <1>2, <1>3, <3>1
  <2>2. /\ Longer
        /\ \A j \in DOMAIN messages' :
              j \notin DOMAIN messages => j = Len(messages')
        /\ messages'[Len(messages')] = x
        /\ Len(messages') = n + 1
    BY <1>3, <2>1, AppendIsLonger
  <2>3. n + 1 \in DOMAIN messages'
    BY <1>2, <2>2
  <2> QED BY <1>3, <2>2, <2>3
<1>4. ASSUME messages' = messages
      PROVE  /\ Longer
             /\ \A j \in DOMAIN messages' :
                   j \notin DOMAIN messages => messages'[j].kind # "response"
  BY <1>4, SameIsLonger
<1>5. /\ ResultsMessage.kind = "results"
      /\ ImagesMessage.kind = "images"
  BY DEF ResultsMessage, ImagesMessage
<1>6. CASE ~OpenAI
  <2>1. messages' = Append(messages, ResultsMessage) /\ n = i
    BY <1>6 DEF ToolsDone, Delivered, TurnAt
  <2>2. /\ Longer
        /\ messages'[i + 1] = ResultsMessage /\ i + 1 \in DOMAIN messages'
        /\ \A j \in DOMAIN messages' :
              j \notin DOMAIN messages => messages'[j].kind # "response"
    BY <1>3, <1>5, <2>1
  <2>3. messages'[i] = messages[i]
    BY <2>2, LongerFacts
  <2>4. ResultsMessage.results =
           [j \in 1..messages'[i].calls |-> Call(messages'[i].response, j)]
    BY <1>1, <1>2, <2>3 DEF ResultsMessage, TurnAt
  <2>5. Answered(i)'
    BY <1>2, <1>5, <1>6, <2>2, <2>4 DEF Answered, Call
  <2> QED BY <2>2, <2>5 DEF Open
<1>7. CASE OpenAI
  <2>1. \/ messages' = Append(messages, ImagesMessage)
        \/ messages' = messages
    BY <1>7 DEF ToolsDone, Delivered
  <2>2. /\ Longer
        /\ \A j \in DOMAIN messages' :
              j \notin DOMAIN messages => messages'[j].kind # "response"
    BY <1>3, <1>4, <1>5, <2>1
  <2>3. messages'[i] = messages[i]
    BY <2>2, LongerFacts
  <2>4. ASSUME NEW j \in 1..messages[i].calls
        PROVE  /\ i + j \in DOMAIN messages'
               /\ messages'[i + j].kind = "result"
               /\ messages'[i + j].call = Call(messages[i].response, j)
    <3>1. /\ i + j \in DOMAIN messages
          /\ messages[i + j].kind = "result"
          /\ messages[i + j].call = Call(messages[i].response, j)
      <4>1. j \in 1..Len(images) /\ n = i + Len(images)
        BY <1>1, <1>7, <2>4 DEF TurnAt
      <4>2. i \in 1..n /\ i + j \in 1..n
        BY <1>2, <4>1
      <4> QED BY <1>2, <1>7, <4>1, <4>2 DEF TurnAt
    <3> QED BY <2>2, <3>1, LongerFacts
  <2>5. Answered(i)'
    BY <1>2, <1>7, <2>3, <2>4 DEF Answered, Call
  <2> QED BY <2>2, <2>5 DEF Open
<1> QED BY <1>6, <1>7

\* Of an attempt that ends, or a round that begins, with the history as it is.
LEMMA EndKeeps ==
    ASSUME Typed, OpenForReason, UNCHANGED <<messages, provider>>,
           pc' \in {"idle", "sending"}, pc = "tools" => ~OpenAI
    PROVE  OpenForReason'
<1>1. Longer
  BY SameIsLonger
<1>2. OpenAI' = OpenAI
  BY DEF OpenAI
<1>3. ASSUME NEW i \in DOMAIN messages, Open(i)
      PROVE  PromptFollows(i) \/ AttemptOver(i)'
  <2>1. CASE pc = "tools" /\ TurnAt(i)
    BY <1>2, <2>1 DEF TurnAt, AttemptOver
  <2>2. CASE AttemptOver(i)
    BY <1>2, <2>2 DEF AttemptOver
  <2> QED BY <1>3, <2>1, <2>2 DEF OpenForReason
<1> QED BY <1>1, <1>3, LongerKeeps

\* A retry may leave the response last whose results it removed.
LEMMA RemovalOpens ==
    ASSUME Typed, OpenForReason, RetryAfterError
    PROVE  OpenForReason'
<1> DEFINE n == Len(messages)
<1>1. /\ pc \in {"model", "tools"} /\ pc' = "sending"
      /\ pc = "tools" => ~OpenAI /\ TurnAt(n)
      /\ provider' = provider
      /\ messages' = Rollback(messages)
  BY RaisesFacts DEF RetryAfterError
<1>2. /\ messages \in Seq(Message) /\ messages # << >>
      /\ n \in Nat \ {0} /\ DOMAIN messages = 1..n
      /\ OpenAI' = OpenAI
  BY RaisesFacts DEF RetryAfterError, Typed, TypeOK, OpenAI
<1>3. CASE messages' = messages
  BY <1>1, <1>3, EndKeeps
<1>4. CASE messages' # messages
  <2>1. /\ messages' = Front(messages)
        /\ messages[n].role = "user"
        /\ pc = "model"
    BY <1>1, <1>4, RaisesFacts DEF Rollback, Last, RetryAfterError
  <2>2. /\ Len(messages') = n - 1 /\ DOMAIN messages' = 1..(n - 1)
        /\ \A i \in 1..(n - 1) : messages'[i] = messages[i]
        /\ n \in Nat /\ n > 0
    BY <1>2, <2>1, FrontHistory
  <2>3. \A j \in 1..n : messages[j] \in Message
    BY <1>2
  <2>4. \A i \in 1..n : Open(i) => PromptFollows(i)
    BY <1>2, <2>1 DEF OpenForReason, AttemptOver
  <2> HIDE DEF n
  <2>5. ASSUME NEW i \in 1..(n - 1), Open(i)'
        PROVE  AttemptOver(i)' \/ PromptFollows(i)'
    <3>1. /\ i \in 1..n /\ i + 1 \in 1..n
          /\ messages'[i] = messages[i]
      BY <2>2, <2>5
    <3>2. /\ messages[i].kind = "response" /\ messages[i].calls > 0
          /\ ~Answered(i)'
      BY <2>5, <3>1 DEF Open
    <3>3. CASE OpenAI
      <4>1. Answered(i)
        BY <2>4, <3>1, <3>2, <3>3 DEF Open, PromptFollows
      <4>2. ASSUME NEW j \in 1..messages[i].calls
            PROVE  /\ i + j \in 1..(n - 1)
                   /\ messages'[i + j].kind = "result"
                   /\ messages'[i + j].call = Call(messages[i].response, j)
        <5>1. /\ i + j \in 1..n
              /\ messages[i + j].kind = "result"
              /\ messages[i + j].call = Call(messages[i].response, j)
          BY <1>2, <3>3, <4>1 DEF Answered, n
        <5>2. messages[i + j].role = "tool"
          BY <2>3, <5>1 DEF Message
        <5>3. i + j # n
          BY <2>1, <5>2 DEF n
        <5>4. i + j \in 1..(n - 1)
          BY <2>2, <5>1, <5>3
        <5> QED BY <2>2, <5>1, <5>4
      <4>3. Answered(i)'
        BY <1>2, <2>2, <3>1, <3>3, <4>2 DEF Answered, Call
      <4> QED BY <3>2, <4>3
    <3>4. CASE ~OpenAI /\ i + 1 = n
      <4>1. i = Len(messages')
        BY <2>2, <3>4
      <4> QED BY <1>1, <1>2, <3>4, <4>1 DEF AttemptOver
    <3>5. CASE ~OpenAI /\ i + 1 # n
      <4>1. i + 1 \in 1..(n - 1)
        BY <2>2, <3>1, <3>5
      <4>2. i + 1 \in DOMAIN messages' /\ messages'[i + 1] = messages[i + 1]
        BY <2>2, <4>1
      <4>3. CASE Answered(i)
        <5>1. /\ messages[i + 1].kind = "results"
              /\ messages[i + 1].results =
                   [j \in 1..messages[i].calls |-> Call(messages[i].response, j)]
          BY <3>5, <4>3 DEF Answered
        <5>2. Answered(i)'
          BY <1>2, <3>1, <3>5, <4>2, <5>1 DEF Answered, Call
        <5> QED BY <3>2, <5>2
      <4>4. CASE ~Answered(i)
        BY <1>2, <2>4, <3>1, <3>2, <3>5, <4>2, <4>4 DEF Open, PromptFollows
      <4> QED BY <4>3, <4>4
    <3> QED BY <3>3, <3>4, <3>5
  <2> QED BY <2>2, <2>5 DEF OpenForReason
<1> QED BY <1>3, <1>4

LEMMA OpenForReasonIsInductive ==
    ASSUME Typed, Typed', OpenForReason, [Next]_vars
    PROVE  OpenForReason'
<1>2. CASE CallAgent
  BY <1>2, EndKeeps DEF CallAgent
<1>3. CASE Send
  <2> DEFINE p == Prompt(round)
  <2>1. /\ pc = "sending" /\ messages' = Append(messages, p)
        /\ provider' = provider /\ OpenAI' = OpenAI
    BY <1>3 DEF Send, OpenAI
  <2>2. p \in Message /\ p.kind = "prompt"
    BY <2>1, BoundsAssumption DEF Prompt, Message, Typed, TypeOK, Started
  <2> HIDE DEF p
  <2>3. /\ Longer
        /\ \A i \in DOMAIN messages' :
              i \notin DOMAIN messages => i = Len(messages')
        /\ messages'[Len(messages')] = p
        /\ Len(messages') = Len(messages) + 1
    BY <2>1, <2>2, AppendIsLonger
  <2>4. ASSUME NEW i \in DOMAIN messages, Open(i)
        PROVE  PromptFollows(i) \/ PromptFollows(i)'
    <3>1. CASE AttemptOver(i)
      <4>1. ~OpenAI /\ i = Len(messages) /\ Len(messages) \in Nat
            /\ messages' \in Seq(Message)
        BY <3>1 DEF AttemptOver, Typed, TypeOK
      <4>2. i + 1 \in DOMAIN messages' /\ messages'[i + 1] = p
        BY <2>3, <4>1
      <4> QED BY <2>1, <2>2, <4>1, <4>2 DEF PromptFollows
    <3> QED BY <2>1, <2>4, <3>1 DEF OpenForReason
  <2>5. \A i \in DOMAIN messages' : i \notin DOMAIN messages => ~Open(i)'
    BY <2>2, <2>3 DEF Open
  <2> QED BY <2>3, <2>4, <2>5, LongerKeeps
<1>4. CASE RetryAfterError
  BY <1>4, RemovalOpens
<1>5. CASE GiveUpAfterError
  BY <1>5, RaisesFacts, EndKeeps DEF GiveUpAfterError, LeaveHistory
<1>6. ASSUME NEW x \in Message, messages' = Append(messages, x),
             provider' = provider, pc = "model",
             x.calls > 0 => pc' = "tools" /\ images' = << >>
      PROVE  OpenForReason'
  <2>1. /\ Longer
        /\ \A i \in DOMAIN messages' :
              i \notin DOMAIN messages => i = Len(messages')
        /\ messages'[Len(messages')] = x
    BY <1>6, AppendIsLonger
  <2>2. \A i \in DOMAIN messages : Open(i) => PromptFollows(i)
    BY <1>6 DEF OpenForReason, AttemptOver
  <2>3. ASSUME NEW i \in DOMAIN messages', i \notin DOMAIN messages, Open(i)'
        PROVE  pc' = "tools" /\ TurnAt(i)'
    <3>1. pc' = "tools" /\ images' = << >> /\ i = Len(messages')
      BY <1>6, <2>1, <2>3 DEF Open
    <3>2. PICK l \in DOMAIN messages' : TurnAt(l)'
      BY <3>1 DEF Typed, Turn
    <3>3. Len(messages') = IF OpenAI' THEN l + Len(images') ELSE l
      BY <3>2 DEF TurnAt
    <3>4. l = i
      <4>1. Len(images') = 0 /\ messages' \in Seq(Message)
        BY <3>1 DEF Typed, TypeOK
      <4>2. l \in Int
        BY <4>1
      <4> QED BY <3>1, <3>3, <4>1, <4>2
    <3> QED BY <3>1, <3>2, <3>4
  <2> QED BY <2>1, <2>2, <2>3, LongerKeeps
<1>7. CASE FinalResponse
  <2>1. PICK text \in BOOLEAN : messages' = Append(messages, Response(0, text))
    BY <1>7 DEF FinalResponse
  <2>2. /\ Response(0, text) \in Message
        /\ Response(0, text).calls = 0
    BY <2>1, BoundsAssumption DEF Response, Message, Typed, TypeOK
  <2>3. ~(Response(0, text).calls > 0)
    BY <2>2
  <2>4. pc = "model" /\ provider' = provider
    BY <1>7 DEF FinalResponse
  <2> QED BY <1>6, <2>1, <2>2, <2>3, <2>4
<1>8. CASE ToolCallResponse
  <2>1. PICK calls \in 1..MaxCalls, text \in Remarks :
           messages' = Append(messages, Response(calls, text))
    BY <1>8 DEF ToolCallResponse
  <2>2. Response(calls, text) \in Message
    BY <2>1, BoundsAssumption, RemarksAssumption
       DEF Response, Message, Typed, TypeOK
  <2>3. /\ pc = "model" /\ provider' = provider
        /\ pc' = "tools" /\ images' = << >>
    BY <1>8 DEF ToolCallResponse, Typed, Started
  <2> QED BY <1>6, <2>1, <2>2, <2>3
<1>9. CASE RunTool
  <2>1. /\ pc = "tools" /\ pc' = "tools" /\ provider' = provider
        /\ OpenAI' = OpenAI
    BY <1>9 DEF RunTool, OpenAI
  <2>2. PICK i \in DOMAIN messages : TurnAt(i)
    BY <2>1 DEF Typed, Turn
  <2>3. PICK l \in DOMAIN messages' : TurnAt(l)'
    BY <2>1 DEF Typed, Turn
  <2> DEFINE x == [role |-> "tool", kind |-> "result",
                   call |-> Call(responses, Len(images) + 1)]
  <2>4. /\ messages' = IF OpenAI THEN Append(messages, x) ELSE messages
        /\ x.kind = "result"
    BY <1>9 DEF RunTool
  <2> HIDE DEF x
  <2>5. /\ messages \in Seq(Message) /\ messages' \in Seq(Message)
        /\ Len(messages) \in Nat /\ i \in Int /\ l \in Int
        /\ Len(images) \in Nat
    BY <2>2, <2>3 DEF Typed, TypeOK
  <2>6. /\ Longer
        /\ \A j \in DOMAIN messages' :
              j \notin DOMAIN messages => messages'[j].kind # "response"
        /\ Len(messages') = IF OpenAI THEN Len(messages) + 1 ELSE Len(messages)
    <3>1. CASE ~OpenAI
      BY <2>1, <2>4, <3>1, SameIsLonger
    <3>2. CASE OpenAI
      <4>1. messages' = Append(messages, x)
        BY <2>4, <3>2
      <4>2. x \in Message
        <5>1. /\ Append(messages, x)[Len(messages) + 1] = x
              /\ Len(messages) + 1 \in DOMAIN Append(messages, x)
          BY <2>5
        <5> QED BY <2>5, <4>1, <5>1
      <4>3. /\ Longer
            /\ \A j \in DOMAIN messages' :
                  j \notin DOMAIN messages => j = Len(messages')
            /\ messages'[Len(messages')] = x
            /\ Len(messages') = Len(messages) + 1
        BY <2>1, <4>1, <4>2, AppendIsLonger
      <4> QED BY <2>4, <3>2, <4>3
    <3> QED BY <3>1, <3>2
  <2>7. \A j \in DOMAIN messages : TurnAt(j) => j = l
    <3> SUFFICES ASSUME NEW j \in DOMAIN messages, TurnAt(j) PROVE j = l
      OBVIOUS
    <3>1. j \in Int
      BY <2>5
    <3>2. Len(images') = Len(images) + 1
      BY <1>9, <2>5 DEF RunTool, Typed, TypeOK
    <3>3. /\ Len(messages) = IF OpenAI THEN j + Len(images) ELSE j
          /\ Len(messages') = IF OpenAI THEN l + Len(images') ELSE l
      BY <2>1, <2>3 DEF TurnAt
    <3> QED BY <2>5, <2>6, <3>1, <3>2, <3>3
  <2>8. ASSUME NEW j \in DOMAIN messages, Open(j), ~PromptFollows(j)
        PROVE  pc' = "tools" /\ TurnAt(j)'
    <3>1. TurnAt(j)
      BY <2>1, <2>8 DEF OpenForReason, AttemptOver
    <3>2. j = l
      BY <2>7, <3>1
    <3> QED BY <2>1, <2>3, <3>2
  <2>9. \A j \in DOMAIN messages' : j \notin DOMAIN messages => ~Open(j)'
    BY <2>6 DEF Open
  <2> QED BY <2>6, <2>8, <2>9, LongerKeeps
<1>10. CASE AskAgain \/ StopIterating
  <2>1. /\ ToolsDone /\ pc = "tools"
        /\ provider' = provider /\ responses' = responses
    BY <1>10 DEF AskAgain, StopIterating, ToolsDone
  <2>2. PICK i \in DOMAIN messages : TurnAt(i)
    BY <2>1 DEF Typed, Turn
  <2>3. /\ Longer
        /\ \A j \in DOMAIN messages' : j \notin DOMAIN messages => ~Open(j)'
    BY <2>1, <2>2, DeliveryAnswers DEF Open
  <2>4. \A j \in DOMAIN messages : TurnAt(j) => ~Open(j)'
    BY <2>1, DeliveryAnswers
  <2>5. \A j \in DOMAIN messages : Open(j) /\ Open(j)' => PromptFollows(j)
    BY <2>1, <2>4 DEF OpenForReason, AttemptOver
  <2> QED BY <2>3, <2>5, LongerKeeps
<1>11. CASE UNCHANGED vars
  <2>1. \A i : /\ Open(i)' <=> Open(i)
               /\ TurnAt(i)' <=> TurnAt(i)
               /\ AttemptOver(i)' <=> AttemptOver(i)
               /\ PromptFollows(i)' <=> PromptFollows(i)
    BY <1>11 DEF vars, Open, Answered, TurnAt, AttemptOver, PromptFollows, OpenAI,
                 Call, Prompt
  <2> QED BY <1>11, <2>1 DEF vars, OpenForReason
<1> QED BY <1>2, <1>3, <1>4, <1>5, <1>7, <1>8, <1>9, <1>10, <1>11
        DEF Next, Done

LEMMA OpenForReasonHolds == Spec => []OpenForReason
<1>1. Init => OpenForReason
  BY DEF Init, OpenForReason
<1>2. Typed /\ Typed' /\ OpenForReason /\ [Next]_vars => OpenForReason'
  BY OpenForReasonIsInductive
<1> QED BY <1>1, <1>2, TypedHolds, PTL DEF Spec

\* In OpenAI's protocol the model is never shown calls without their results.
THEOREM CallsAnsweredHolds == Spec => []CallsAnswered
<1>1. Typed /\ OpenForReason => CallsAnswered
  <2> SUFFICES ASSUME Typed, OpenForReason, OpenAI, NEW i \in Orphans
               PROVE  FALSE
    BY DEF CallsAnswered
  <2>1. /\ i \in DOMAIN messages /\ Open(i)
        /\ ~(pc = "tools" /\ i = LastResponse)
    BY DEF Orphans, Open
  <2>2. pc = "tools" /\ TurnAt(i)
    BY <2>1 DEF OpenForReason, AttemptOver, PromptFollows
  <2> QED BY <2>1, <2>2, TurnFacts DEF Typed
<1> QED BY <1>1, TypedHolds, OpenForReasonHolds, PTL

\* Orphans are the last of an attempt, and followed by a prompt if anything.
OrphansAreLast == \A i \in Orphans : AttemptOver(i) \/ PromptFollows(i)

LEMMA OrphansAreLastHolds == Spec => []OrphansAreLast
<1>1. Typed /\ OpenForReason => OrphansAreLast
  <2> SUFFICES ASSUME Typed, OpenForReason, NEW i \in Orphans
               PROVE  AttemptOver(i) \/ PromptFollows(i)
    BY DEF OrphansAreLast
  <2>1. /\ i \in DOMAIN messages /\ Open(i)
        /\ ~(pc = "tools" /\ i = LastResponse)
    BY DEF Orphans, Open
  <2>2. ~(pc = "tools" /\ TurnAt(i))
    BY <2>1, TurnFacts DEF Typed
  <2> QED BY <2>1, <2>2 DEF OpenForReason
<1> QED BY <1>1, TypedHolds, OpenForReasonHolds, PTL

\* Every response without its results is one, but the one being answered.
LEMMA OpenIsOrphan ==
    ASSUME Typed, NEW i \in DOMAIN messages, Open(i),
           ~(pc = "tools" /\ TurnAt(i))
    PROVE  i \in Orphans
<1>1. ASSUME pc = "tools" PROVE i # LastResponse
  <2>1. PICK l \in DOMAIN messages : TurnAt(l)
    BY <1>1 DEF Typed, Turn
  <2>2. LastResponse = l
    BY <1>1, <2>1, TurnFacts DEF Typed
  <2> QED BY <1>1, <2>1, <2>2
<1> QED BY <1>1 DEF Open, Orphans

\* A response that stays in the history and has its results loses them only in
\* a removal; so one that is an orphan after any other step was one before.
LEMMA SameHistoryOrphans ==
    ASSUME Typed, Longer, pc # "tools",
           NEW i \in DOMAIN messages, Open(i)'
    PROVE  i \in Orphans
BY LongerFacts, OpenIsOrphan

\* An orphan that a prompt follows was one before that prompt was appended.
LEMMA FollowedIsOld ==
    ASSUME Typed, Typed', OpenForReason, [Next]_vars,
           NEW i \in DOMAIN messages', Open(i)', PromptFollows(i)'
    PROVE  i \in Orphans
<1>1. /\ messages \in Seq(Message) /\ Len(messages) \in Nat
      /\ DOMAIN messages = 1..Len(messages)
      /\ messages' \in Seq(Message) /\ Len(messages') \in Nat
      /\ DOMAIN messages' = 1..Len(messages')
  BY DEF Typed, TypeOK
<1>2. /\ i \in 1..Len(messages') /\ i + 1 \in 1..Len(messages')
      /\ messages'[i + 1].kind = "prompt"
      /\ provider' = provider => ~OpenAI
  BY <1>1 DEF PromptFollows, OpenAI
<1>3. ASSUME provider' = provider, i + 1 \in 1..Len(messages),
             messages'[i] = messages[i], messages'[i + 1] = messages[i + 1]
      PROVE  i \in Orphans
  <2>1. ~OpenAI /\ i \in DOMAIN messages
    BY <1>1, <1>2, <1>3
  <2>2. ~Answered(i)
    BY <1>2, <1>3, <2>1 DEF Answered
  <2>3. Open(i)
    BY <1>3, <2>2 DEF Open
  <2>4. ~TurnAt(i)
    BY <1>1, <1>3, <2>1 DEF TurnAt
  <2> QED BY <2>1, <2>3, <2>4, OpenIsOrphan
<1>4. ASSUME provider' = provider, messages' = messages
      PROVE  i \in Orphans
  BY <1>2, <1>3, <1>4
<1>5. ASSUME NEW x \in Message, provider' = provider,
             messages' = Append(messages, x), x.kind # "prompt"
      PROVE  i \in Orphans
  <2>1. /\ Longer
        /\ messages'[Len(messages')] = x
        /\ Len(messages') = Len(messages) + 1
    BY <1>5, AppendIsLonger
  <2>2. i + 1 # Len(messages')
    BY <1>2, <1>5, <2>1
  <2>3. i \in 1..Len(messages) /\ i + 1 \in 1..Len(messages)
    BY <1>1, <1>2, <2>1, <2>2
  <2> QED BY <1>1, <1>3, <1>5, <2>1, <2>3 DEF Longer
<1>6. CASE Send
  <2> DEFINE p == Prompt(round)
  <2>1. /\ messages' = Append(messages, p) /\ provider' = provider
        /\ pc = "sending"
    BY <1>6 DEF Send
  <2>2. p \in Message /\ p.kind = "prompt"
    BY <2>1, BoundsAssumption DEF Prompt, Message, Typed, TypeOK, Started
  <2> HIDE DEF p
  <2>3. Longer /\ Len(messages') = Len(messages) + 1
    BY <2>1, <2>2, AppendIsLonger
  <2>4. i \in DOMAIN messages
    BY <1>1, <1>2, <2>3
  <2> QED BY <2>1, <2>3, <2>4, SameHistoryOrphans
<1>7. CASE RetryAfterError
  <2>1. provider' = provider /\ messages # << >>
        /\ messages' = Rollback(messages)
    BY <1>7, RaisesFacts DEF RetryAfterError
  <2>2. CASE messages' = Front(messages)
    <3>1. /\ Len(messages') = Len(messages) - 1
          /\ \A j \in 1..(Len(messages) - 1) : messages'[j] = messages[j]
      BY <1>1, <2>1, <2>2, FrontHistory
    <3>2. /\ i \in 1..(Len(messages) - 1) /\ i + 1 \in 1..(Len(messages) - 1)
          /\ i + 1 \in 1..Len(messages)
      BY <1>1, <1>2, <3>1
    <3> QED BY <1>3, <2>1, <3>1, <3>2
  <2> QED BY <1>4, <2>1, <2>2 DEF Rollback
<1>8. CASE FinalResponse
  <2>1. PICK text \in BOOLEAN : messages' = Append(messages, Response(0, text))
    BY <1>8 DEF FinalResponse
  <2>2. /\ Response(0, text) \in Message
        /\ Response(0, text).kind = "response"
    BY <2>1, BoundsAssumption DEF Response, Message, Typed, TypeOK
  <2> QED BY <1>5, <1>8, <2>1, <2>2 DEF FinalResponse
<1>9. CASE ToolCallResponse
  <2>1. PICK calls \in 1..MaxCalls, text \in Remarks :
           messages' = Append(messages, Response(calls, text))
    BY <1>9 DEF ToolCallResponse
  <2>2. /\ Response(calls, text) \in Message
        /\ Response(calls, text).kind = "response"
    BY <2>1, BoundsAssumption, RemarksAssumption
       DEF Response, Message, Typed, TypeOK
  <2> QED BY <1>5, <1>9, <2>1, <2>2 DEF ToolCallResponse
<1>10. ASSUME NEW x, provider' = provider,
              messages' = Append(messages, x), x.kind # "prompt"
       PROVE  i \in Orphans
  <2>1. /\ Append(messages, x)[Len(messages) + 1] = x
        /\ Len(messages) + 1 \in DOMAIN Append(messages, x)
    BY <1>1
  <2>2. x \in Message
    BY <1>1, <1>10, <2>1
  <2> QED BY <1>5, <1>10, <2>2
<1>11. CASE RunTool
  <2> DEFINE x == [role |-> "tool", kind |-> "result",
                   call |-> Call(responses, Len(images) + 1)]
  <2>1. /\ messages' = IF OpenAI THEN Append(messages, x) ELSE messages
        /\ x.kind = "result" /\ provider' = provider
    BY <1>11 DEF RunTool
  <2> HIDE DEF x
  <2> QED BY <1>4, <1>10, <2>1
<1>12. CASE AskAgain \/ StopIterating
  <2>1. /\ provider' = provider
        /\ \/ messages' = Append(messages, ResultsMessage)
           \/ messages' = Append(messages, ImagesMessage)
           \/ messages' = messages
    BY <1>12 DEF AskAgain, StopIterating, ToolsDone, Delivered
  <2>2. ResultsMessage.kind # "prompt" /\ ImagesMessage.kind # "prompt"
    BY DEF ResultsMessage, ImagesMessage
  <2> QED BY <1>4, <1>10, <2>1, <2>2
<1> QED BY <1>4, <1>6, <1>7, <1>8, <1>9, <1>11, <1>12
        DEF Next, Done, vars, CallAgent, GiveUpAfterError, LeaveHistory

\* What makes an orphan of the last message ends the attempt in one of the two
\* ways.
LEMMA EndMakesOrphan ==
    ASSUME Typed, Typed', OpenForReason, [Next]_vars,
           NEW i \in DOMAIN messages', Open(i)', AttemptOver(i)',
           i \notin Orphans
    PROVE  \/ /\ pc = "model" /\ attempt = 1 /\ pc' = "sending"
              /\ Len(messages') = Len(messages) - 1
           \/ /\ pc = "tools" /\ Len(images) < CallsToRun
              /\ pc' \in {"idle", "sending"}
              /\ messages' = messages
<1>1. pc' \in {"idle", "sending"}
  BY DEF AttemptOver
<1>2. ASSUME UNCHANGED <<messages, provider>>
      PROVE  pc = "tools"
  BY <1>2, SameIsLonger, SameHistoryOrphans
<1>3. CASE CallAgent
  BY <1>2, <1>3 DEF CallAgent
<1>4. CASE Send \/ ToolCallResponse \/ RunTool \/ AskAgain
  BY <1>1, <1>4 DEF Send, ToolCallResponse, RunTool, AskAgain
<1>5. CASE RetryAfterError
  <2>1. /\ Raises /\ attempt = 1 /\ messages # << >>
        /\ messages \in Seq(Message) /\ pc \in {"model", "tools"}
        /\ provider' = provider /\ messages' = Rollback(messages)
    BY <1>5, RaisesFacts DEF RetryAfterError, Typed, TypeOK
  <2>2. CASE pc = "tools"
    <3>1. messages' = messages
      BY <2>1, <2>2, RaisesFacts DEF Rollback
    <3> QED BY <1>1, <2>1, <2>2, <3>1 DEF Raises
  <2>3. CASE pc = "model"
    <3>1. messages' = Front(messages)
      BY <1>2, <2>1, <2>3 DEF Rollback
    <3>2. Len(messages') = Len(messages) - 1
      BY <2>1, <3>1, FrontHistory
    <3> QED BY <1>5, <2>1, <2>3, <3>2 DEF RetryAfterError
  <2> QED BY <2>1, <2>2, <2>3
<1>6. CASE GiveUpAfterError
  BY <1>1, <1>2, <1>6 DEF GiveUpAfterError, LeaveHistory, Raises
<1>7. CASE FinalResponse
  <2>1. PICK text \in BOOLEAN : messages' = Append(messages, Response(0, text))
    BY <1>7 DEF FinalResponse
  <2>2. /\ Response(0, text) \in Message
        /\ Response(0, text).calls = 0
    BY <2>1, BoundsAssumption DEF Response, Message, Typed, TypeOK
  <2>3. messages'[Len(messages')] = Response(0, text)
    BY <1>7, <2>1, <2>2, AppendIsLonger DEF FinalResponse
  <2>4. messages'[i].calls > 0 /\ i = Len(messages')
    BY DEF Open, AttemptOver
  <2>5. ~(0 > 0)
    OBVIOUS
  <2> QED BY <2>2, <2>3, <2>4, <2>5
<1>8. CASE StopIterating
  <2>1. /\ ToolsDone /\ pc = "tools"
        /\ provider' = provider /\ responses' = responses
    BY <1>8 DEF StopIterating, ToolsDone
  <2>2. PICK l \in DOMAIN messages : TurnAt(l)
    BY <2>1 DEF Typed, Turn
  <2>3. Longer /\ i \in DOMAIN messages
    BY <2>1, <2>2, DeliveryAnswers DEF Open
  <2>4. Open(i) /\ ~TurnAt(i)
    BY <2>1, <2>3, DeliveryAnswers, LongerFacts
  <2> QED BY <2>3, <2>4, OpenIsOrphan
<1>9. CASE UNCHANGED vars
  BY <1>1, <1>2, <1>9 DEF vars
<1> QED BY <1>3, <1>4, <1>5, <1>6, <1>7, <1>8, <1>9 DEF Next, Done

\* In Anthropic's, calls lose their results in two ways only, each of which ends
\* the attempt: a retry that takes them away, and a tool call that raises.
THEOREM OrphansEndAttemptsHolds == Spec => OrphansEndAttempts
<1> DEFINE A == \A i \in Orphans' \ Orphans :
                   /\ i = Len(messages')
                   /\ \/ /\ pc = "model" /\ attempt = 1 /\ pc' = "sending"
                         /\ Len(messages') = Len(messages) - 1
                      \/ /\ pc = "tools" /\ Len(images) < CallsToRun
                         /\ pc' \in {"idle", "sending"}
                         /\ messages' = messages
<1>1. Typed /\ Typed' /\ OpenForReason /\ OrphansAreLast' /\ [Next]_vars
         => [A]_vars
  <2> SUFFICES ASSUME Typed, Typed', OpenForReason, OrphansAreLast',
                      [Next]_vars
               PROVE  A
    OBVIOUS
  <2> SUFFICES ASSUME NEW i \in Orphans', i \notin Orphans
               PROVE  /\ i = Len(messages')
                      /\ \/ /\ pc = "model" /\ attempt = 1 /\ pc' = "sending"
                            /\ Len(messages') = Len(messages) - 1
                         \/ /\ pc = "tools" /\ Len(images) < CallsToRun
                            /\ pc' \in {"idle", "sending"}
                            /\ messages' = messages
    OBVIOUS
  <2>1. i \in DOMAIN messages' /\ Open(i)'
    BY DEF Orphans, Open
  <2>2. AttemptOver(i)'
    BY <2>1, FollowedIsOld DEF OrphansAreLast
  <2>3. i = Len(messages')
    BY <2>2 DEF AttemptOver
  <2> QED BY <2>1, <2>2, <2>3, EndMakesOrphan
<1>2. Spec => [][A]_vars
  BY <1>1, TypedHolds, OpenForReasonHolds, OrphansAreLastHolds, PTL DEF Spec
<1> QED BY <1>2 DEF OrphansEndAttempts

-----------------------------------------------------------------------------
(* The images of a turn. *)

LEMMA TotalIsSum ==
    /\ TotalImages = SumFromLeft(images)
    /\ TotalImages' = SumFromLeft(images')
BY DEF TotalImages, SumFromLeft, FoldLeft, MapThenFoldSet

\* A turn without results has no images, and one result adds its own.
LEMMA ImagesOfTurn ==
    /\ SumFromLeft(<< >>) = 0
    /\ \A s \in Seq(Nat), n \in Nat :
          /\ SumFromLeft(s) \in Int
          /\ SumFromLeft(Append(s, n)) = SumFromLeft(s) + n
<1>1. SumFromLeft(<< >>) = 0
  <2>1. << >> \in [1..0 -> Int] /\ 0 \in Nat
    OBVIOUS
  <2> QED BY <2>1, SumOfNone, SumsAgree
<1>2. ASSUME NEW s \in Seq(Nat), NEW n \in Nat
      PROVE  /\ SumFromLeft(s) \in Int
             /\ SumFromLeft(Append(s, n)) = SumFromLeft(s) + n
  <2> DEFINE l == Len(s)
             h == Append(s, n)
  <2>1. /\ l \in Nat /\ s \in [1..l -> Int]
        /\ h \in [1..(l + 1) -> Int]
        /\ \A i \in 1..l : h[i] = s[i]
        /\ h[l + 1] = n
    <3>1. s \in Seq(Int) /\ n \in Int
      OBVIOUS
    <3>2. /\ h \in Seq(Int) /\ Len(h) = l + 1
          /\ \A i \in 1..l : h[i] = s[i]
          /\ h[l + 1] = n
      BY <3>1, AppendProperties
    <3>3. l \in Nat /\ s \in [1..l -> Int]
      BY <3>1
    <3> HIDE DEF l, h
    <3>4. h \in [1..Len(h) -> Int]
      BY <3>2
    <3> QED BY <3>2, <3>3, <3>4 DEF l
  <2> HIDE DEF l, h
  <2>2. SumOf(h) = SumOf(s) + h[l + 1]
    BY <2>1, SumOfLonger
  <2>3. SumFromLeft(s) = SumOf(s) /\ SumOf(s) \in Int
    BY <2>1, SumsAgree, SumOfIsInt
  <2>4. SumFromLeft(h) = SumOf(h)
    <3>1. l + 1 \in Nat
      BY <2>1
    <3> QED BY <2>1, <3>1, SumsAgree
  <2> QED BY <2>1, <2>2, <2>3, <2>4 DEF h
<1> QED BY <1>1, <1>2

\* However many tools a response calls, their images stay within the limit of
\* the turn.
THEOREM TurnImagesLimitedHolds == Spec => []TurnImagesLimited
<1> USE ImagesAssumption
<1>1. Init => TurnImagesLimited
  BY TotalIsSum, ImagesOfTurn DEF Init, TurnImagesLimited
<1>2. ASSUME Typed, TurnImagesLimited, [Next]_vars
      PROVE  TurnImagesLimited'
  <2>1. images \in Seq(Nat)
    <3>1. images \in Seq(0..MaxImages)
      BY <1>2 DEF Typed, TypeOK
    <3>2. Len(images) \in Nat /\ \A i \in 1..Len(images) : images[i] \in Nat
      BY <3>1
    <3> QED BY <3>1, <3>2
  <2>2. CASE UNCHANGED images
    BY <1>2, <2>2, TotalIsSum DEF TurnImagesLimited
  <2>3. CASE images' = << >>
    BY <2>3, TotalIsSum, ImagesOfTurn DEF TurnImagesLimited
  <2>4. CASE RunTool
    <3>1. PICK n \in ToolImages : images' = Append(images, Shown(n))
      BY <2>4 DEF RunTool
    <3>2. n \in Nat /\ Normalized(n) \in Nat
      BY <3>1 DEF Normalized
    <3>3. Shown(n) \in Nat
      BY <3>2 DEF Shown
    <3>4. TotalImages' = TotalImages + Shown(n) /\ TotalImages \in Int
      BY <2>1, <3>1, <3>3, TotalIsSum, ImagesOfTurn
    <3>5. CASE Fits(Normalized(n))
      BY <3>2, <3>4, <3>5 DEF Shown, Fits, TurnImagesLimited
    <3>6. CASE ~Fits(Normalized(n))
      BY <1>2, <3>4, <3>6 DEF Shown, TurnImagesLimited
    <3> QED BY <3>5, <3>6
  <2> QED BY <1>2, <2>2, <2>3, <2>4
          DEF Next, vars, CallAgent, Send, RetryAfterError, GiveUpAfterError,
              FinalResponse, ToolCallResponse, AskAgain, StopIterating,
              ToolsDone, Done
<1> QED BY <1>1, <1>2, TypedHolds, PTL DEF Spec

-----------------------------------------------------------------------------
(* The calls that the usage summary finds in a log. *)

Events == [event : {"call_start", "error", "call_end"}, round : 1..MaxRounds]

Tallies == [started : BOOLEAN, ended : Seq(Nat)]

\* What the fold of RowCalls ends with.
Tally(l) ==
    FoldLeftDomain(LAMBDA calls, i : AfterEvent(calls, l[i].event, i),
                   NoCalls, l)

\* One step of it.
TallyStep(l) ==
    [q \in (1..Len(l)) \X Tallies |-> AfterEvent(q[2], l[q[1]].event, q[1])]

LEMMA AfterEventIsTally ==
    ASSUME NEW c \in Tallies, NEW event, NEW place \in Nat
    PROVE  AfterEvent(c, event, place) \in Tallies
<1>1. c.ended \in Seq(Nat) /\ Append(c.ended, place) \in Seq(Nat)
  BY DEF Tallies
<1>2. [c EXCEPT !.started = TRUE] \in Tallies
  BY DEF Tallies
<1> QED BY <1>1, <1>2 DEF AfterEvent, Tallies

LEMMA TallyIsLastStep ==
    ASSUME NEW l \in Seq(Events)
    PROVE  \E p \in [0..Len(l) -> Tallies] :
              /\ StepByStep(p, TallyStep(l), NoCalls, Len(l))
              /\ Tally(l) = p[Len(l)]
<1> DEFINE S == 1..Len(l)
           I == [i \in DOMAIN l |-> i]
           N(g) == [T \in SUBSET DOMAIN I |->
                      IF T = {} THEN NoCalls
                      ELSE AfterEvent(g[T \ {Max(T)}], l[I[Max(T)]].event,
                                      I[Max(T)])]
           fold == CHOOSE g : g = N(g)
           pick == [T \in SUBSET S |-> Max(T)]
           step == TallyStep(l)
<1>1. /\ IsFiniteSet(S) /\ Len(l) \in Nat /\ DOMAIN l = S /\ DOMAIN I = S
      /\ \A i \in S : I[i] = i
  BY FS_Interval
<1>2. \A T \in SUBSET S : T # {} => Max(T) \in T
  BY <1>1, MaxIsMember
<1>3. Picks(pick, S)
  BY <1>2 DEF Picks
<1>4. NoCalls \in Tallies /\ step \in [S \X Tallies -> Tallies]
  <2>1. NoCalls \in Tallies
    BY DEF NoCalls, Tallies
  <2>2. \A q \in S \X Tallies :
           AfterEvent(q[2], l[q[1]].event, q[1]) \in Tallies
    <3> TAKE q \in S \X Tallies
    <3>1. q[2] \in Tallies /\ q[1] \in Nat
      OBVIOUS
    <3> QED BY <3>1, AfterEventIsTally
  <2>3. step = [q \in S \X Tallies |-> AfterEvent(q[2], l[q[1]].event, q[1])]
    BY DEF TallyStep
  <2> HIDE DEF S, step
  <2> QED BY <2>1, <2>2, <2>3
<1>5. \A i \in S, c \in Tallies :
         step[<<i, c>>] = AfterEvent(c, l[I[i]].event, I[i])
  <2> TAKE i \in S, c \in Tallies
  <2>1. I[i] = i
    BY <1>1
  <2> HIDE DEF I
  <2>2. <<i, c>> \in (1..Len(l)) \X Tallies
    OBVIOUS
  <2>3. step[<<i, c>>] = AfterEvent(c, l[i].event, i)
    BY <2>2 DEF TallyStep
  <2> QED BY <2>1, <2>3
<1>6. \E g : g = N(g)
  <2>1. PICK g \in [SUBSET S -> Tallies] : FoldsBy(g, S, pick, step, NoCalls)
    <3> HIDE DEF S, pick, step
    <3> QED BY <1>1, <1>3, <1>4, RecursionOverSubsets
  <2>2. \A T \in SUBSET S : g[T] = N(g)[T]
    <3> TAKE T \in SUBSET S
    <3>0. T \in SUBSET DOMAIN I
      BY <1>1
    <3>1. CASE T = {}
      <4>1. g[T] = NoCalls
        BY <2>1, <3>1 DEF FoldsBy
      <4> QED BY <3>0, <3>1, <4>1
    <3>2. CASE T # {}
      <4>1. pick[T] = Max(T) /\ Max(T) \in S /\ T \ {Max(T)} \in SUBSET S
        BY <1>2, <3>2
      <4>2. g[T] = step[<<Max(T), g[T \ {Max(T)}]>>]
        BY <2>1, <3>2, <4>1 DEF FoldsBy
      <4>3. N(g)[T] = AfterEvent(g[T \ {Max(T)}], l[I[Max(T)]].event, I[Max(T)])
        BY <3>0, <3>2
      <4>4. g[T \ {Max(T)}] \in Tallies
        BY <4>1
      <4> HIDE DEF N, S, I, step, pick
      <4> QED BY <1>5, <4>1, <4>2, <4>3, <4>4
    <3> QED BY <3>1, <3>2
  <2>3. N(g) = [T \in SUBSET S |-> N(g)[T]]
    BY <1>1
  <2>4. g = [T \in SUBSET S |-> g[T]]
    OBVIOUS
  <2> HIDE DEF N
  <2>5. g = N(g)
    BY <2>2, <2>3, <2>4
  <2> QED BY <2>5
<1>7. fold = N(fold)
  BY <1>6
<1>8. Tally(l) = fold[DOMAIN I]
  BY DEF Tally, FoldLeftDomain, FoldLeft, MapThenFoldSet
<1>9. FoldsFromLeft(fold, step, NoCalls, Len(l), Tallies)
  <2> HIDE DEF fold
  <2>1. fold[{}] = NoCalls
    BY <1>7
  <2>2. ASSUME NEW T \in SUBSET S, T # {}, fold[T \ {Max(T)}] \in Tallies
        PROVE  fold[T] = step[<<Max(T), fold[T \ {Max(T)}]>>]
    <3>1. Max(T) \in S /\ T \in SUBSET DOMAIN I
      BY <1>1, <1>2, <2>2
    <3>2. N(fold)[T] = AfterEvent(fold[T \ {Max(T)}], l[I[Max(T)]].event, I[Max(T)])
      BY <2>2, <3>1
    <3> HIDE DEF N, S, I, step
    <3> QED BY <1>5, <1>7, <2>2, <3>1, <3>2
  <2> HIDE DEF step
  <2> QED BY <2>1, <2>2 DEF FoldsFromLeft
<1>10. fold[DOMAIN I] = fold[1..Len(l)]
  BY <1>1
<1> HIDE DEF fold, N, I, S, pick
<1>11. StepsIn(step, Len(l), Tallies)
  BY <1>4 DEF S, StepsIn
<1> HIDE DEF step
<1>12. EndsAt(fold, step, NoCalls, Len(l), Tallies)
  BY <1>1, <1>4, <1>9, <1>11, FoldIsLastStep
<1> QED BY <1>8, <1>10, <1>12 DEF step, EndsAt

\* An event more is one step more.
LEMMA TallyLonger ==
    ASSUME NEW l \in Seq(Events), NEW e \in Events
    PROVE  /\ Tally(l) \in Tallies
           /\ Tally(Append(l, e)) = AfterEvent(Tally(l), e.event, Len(l) + 1)
<1> DEFINE n == Len(l)
           m == Append(l, e)
<1>1. /\ n \in Nat /\ m \in Seq(Events) /\ Len(m) = n + 1
      /\ \A i \in 1..n : m[i] = l[i]
      /\ m[n + 1] = e
  BY AppendProperties
<1>2. PICK p \in [0..n -> Tallies] :
         StepByStep(p, TallyStep(l), NoCalls, n) /\ Tally(l) = p[n]
  BY TallyIsLastStep
<1> HIDE DEF n, m
<1>3. PICK r \in [0..(n + 1) -> Tallies] :
         StepByStep(r, TallyStep(m), NoCalls, n + 1) /\ Tally(m) = r[n + 1]
  BY <1>1, TallyIsLastStep
<1>4. \A i \in 1..n, c \in Tallies : TallyStep(m)[<<i, c>>] = TallyStep(l)[<<i, c>>]
  <2> TAKE i \in 1..n, c \in Tallies
  <2>1. <<i, c>> \in (1..Len(l)) \X Tallies /\ <<i, c>> \in (1..Len(m)) \X Tallies
    BY <1>1 DEF n
  <2>2. TallyStep(l)[<<i, c>>] = AfterEvent(c, l[i].event, i)
    BY <2>1 DEF TallyStep
  <2>3. TallyStep(m)[<<i, c>>] = AfterEvent(c, m[i].event, i)
    BY <2>1 DEF TallyStep
  <2> QED BY <1>1, <2>2, <2>3
<1>5. StepByStep(r, TallyStep(l), NoCalls, n)
  <2>1. r[0] = NoCalls
    BY <1>3 DEF StepByStep
  <2>2. ASSUME NEW i \in 1..n PROVE r[i] = TallyStep(l)[<<i, r[i - 1]>>]
    <3>1. i \in 1..(n + 1) /\ i - 1 \in 0..(n + 1)
      BY <1>1
    <3>2. r[i] = TallyStep(m)[<<i, r[i - 1]>>] /\ r[i - 1] \in Tallies
      BY <1>3, <3>1 DEF StepByStep
    <3> QED BY <1>4, <3>2
  <2> QED BY <2>1, <2>2 DEF StepByStep
<1>6. r[n] = p[n] /\ p[n] \in Tallies
  <2>1. \A i \in 0..n : r[i] = p[i]
    BY <1>1, <1>2, <1>5, StepsAgree
  <2> QED BY <1>1, <2>1
<1>7. r[n + 1] = TallyStep(m)[<<n + 1, r[n]>>]
  <2>1. n + 1 \in 1..(n + 1) /\ (n + 1) - 1 = n
    BY <1>1
  <2> QED BY <1>3, <2>1 DEF StepByStep
<1>8. TallyStep(m)[<<n + 1, r[n]>>] = AfterEvent(r[n], e.event, n + 1)
  <2>1. <<n + 1, r[n]>> \in (1..Len(m)) \X Tallies
    BY <1>1, <1>6
  <2>2. TallyStep(m)[<<n + 1, r[n]>>] = AfterEvent(r[n], m[n + 1].event, n + 1)
    BY <2>1 DEF TallyStep
  <2> QED BY <1>1, <2>2
<1> QED BY <1>2, <1>3, <1>6, <1>7, <1>8 DEF n, m

LEMMA TallyOfNone == Tally(<< >>) = NoCalls
<1>1. << >> \in Seq(Events) /\ Len(<< >>) = 0
  OBVIOUS
<1>2. \E p \in [0..0 -> Tallies] :
         StepByStep(p, TallyStep(<< >>), NoCalls, 0) /\ Tally(<< >>) = p[0]
  BY <1>1, TallyIsLastStep
<1> QED BY <1>2 DEF StepByStep

\* Each call that ended is in one row, which its round bounds.
RowsMatch(l) ==
    /\ Range(Tally(l).ended) = CountedCalls(l)
    /\ IsInjective(Tally(l).ended)
    /\ \A n \in DOMAIN Tally(l).ended :
          /\ l[Tally(l).ended[n]].round <= n
          /\ n <= 2 * l[Tally(l).ended[n]].round

\* The calls of a log: how many ended, and whether one is under way.
CallsAre(l, started, ended) ==
    /\ l \in Seq(Events)
    /\ Tally(l).started = started
    /\ Len(Tally(l).ended) = ended
    /\ RowsMatch(l)

\* An event that ends no call leaves the rows.
LEMMA OtherEventKeepsRows ==
    ASSUME NEW l \in Seq(Events), NEW e \in Events, NEW s \in BOOLEAN,
           NEW k \in Nat, CallsAre(l, s, k), e.event # "call_end"
    PROVE  CallsAre(Append(l, e), e.event = "call_start" \/ s, k)
<1> DEFINE m == Append(l, e)
           t == Tally(l)
           u == Tally(m)
<1>1. /\ m \in Seq(Events) /\ Len(l) \in Nat /\ Len(m) = Len(l) + 1
      /\ DOMAIN m = 1..(Len(l) + 1) /\ DOMAIN l = 1..Len(l)
      /\ \A i \in 1..Len(l) : m[i] = l[i]
      /\ m[Len(l) + 1] = e
  BY AppendProperties
<1>2. t \in Tallies /\ u = AfterEvent(t, e.event, Len(l) + 1)
  BY TallyLonger
<1>3. t.started = s /\ Len(t.ended) = k /\ Range(t.ended) = CountedCalls(l)
  BY DEF CallsAre, RowsMatch
<1>4. e.event \in {"call_start", "error"}
  BY DEF Events
<1> HIDE DEF m
<1>5. u.ended = t.ended /\ u.started = (e.event = "call_start" \/ s)
  <2> HIDE DEF t, u
  <2> QED BY <1>2, <1>3, <1>4 DEF AfterEvent, Tallies
<1>6. CountedCalls(m) = CountedCalls(l)
  BY <1>1 DEF CountedCalls
<1>7. IsInjective(u.ended)
  <2>1. IsInjective(t.ended)
    BY DEF CallsAre, RowsMatch
  <2> QED BY <1>5, <2>1
<1>8. ASSUME NEW n \in DOMAIN u.ended
      PROVE  m[u.ended[n]].round <= n /\ n <= 2 * m[u.ended[n]].round
  <2>1. t.ended[n] \in Range(t.ended)
    BY <1>5, <1>8 DEF Range
  <2>2. t.ended[n] \in 1..Len(l)
    BY <1>1, <1>3, <2>1 DEF CountedCalls
  <2>3. m[u.ended[n]] = l[t.ended[n]]
    BY <1>1, <1>5, <2>2
  <2>4. l[t.ended[n]].round <= n /\ n <= 2 * l[t.ended[n]].round
    BY <1>5, <1>8 DEF CallsAre, RowsMatch
  <2> QED BY <2>3, <2>4
<1> QED BY <1>1, <1>3, <1>5, <1>6, <1>7, <1>8 DEF CallsAre, RowsMatch, m

\* The end of a call adds a row.
LEMMA EndAddsRow ==
    ASSUME NEW l \in Seq(Events), NEW k \in Nat, CallsAre(l, TRUE, k),
           NEW r \in 1..MaxRounds, MaxRounds \in Nat, r <= k + 1, k + 1 <= 2 * r
    PROVE  CallsAre(Append(l, Event("call_end", r)), FALSE, k + 1)
<1> DEFINE e == Event("call_end", r)
           m == Append(l, e)
           t == Tally(l)
           u == Tally(m)
<1>0. e \in Events /\ e.event = "call_end" /\ e.round = r
  BY DEF Event, Events
<1> HIDE DEF e
<1>1. /\ m \in Seq(Events) /\ Len(l) \in Nat /\ Len(m) = Len(l) + 1
      /\ DOMAIN m = 1..(Len(l) + 1) /\ DOMAIN l = 1..Len(l)
      /\ \A i \in 1..Len(l) : m[i] = l[i]
      /\ m[Len(l) + 1] = e
  BY <1>0, AppendProperties
<1>2. t \in Tallies /\ u = AfterEvent(t, e.event, Len(l) + 1)
  BY <1>0, TallyLonger
<1>3. t.started = TRUE /\ Len(t.ended) = k /\ Range(t.ended) = CountedCalls(l)
  BY DEF CallsAre, RowsMatch
<1> HIDE DEF m
<1>4. u.ended = Append(t.ended, Len(l) + 1) /\ u.started = FALSE
  <2> HIDE DEF t, u
  <2> QED BY <1>0, <1>2, <1>3 DEF AfterEvent, Tallies
<1>5. /\ t.ended \in Seq(Nat) /\ DOMAIN t.ended = 1..k
      /\ Len(u.ended) = k + 1 /\ DOMAIN u.ended = 1..(k + 1)
      /\ \A n \in 1..k : u.ended[n] = t.ended[n]
      /\ u.ended[k + 1] = Len(l) + 1
  <2> DEFINE v == t.ended
             w == u.ended
             c == Len(l) + 1
  <2>1. v \in Seq(Nat) /\ Len(v) = k /\ c \in Nat /\ w = Append(v, c)
    BY <1>1, <1>2, <1>3, <1>4 DEF Tallies
  <2> HIDE DEF v, w, c
  <2>2. /\ w \in Seq(Nat) /\ Len(w) = k + 1 /\ w[k + 1] = c
        /\ \A n \in 1..k : w[n] = v[n]
    BY <2>1, AppendProperties
  <2>3. v \in Seq(Nat) /\ DOMAIN v = 1..k /\ DOMAIN w = 1..(k + 1)
    BY <2>1, <2>2
  <2> QED BY <2>2, <2>3 DEF v, w, c
<1>6. CountedCalls(m) = CountedCalls(l) \cup {Len(l) + 1}
  BY <1>0, <1>1 DEF CountedCalls
<1>7. Range(u.ended) = Range(t.ended) \cup {Len(l) + 1}
  <2> DEFINE v == t.ended
             w == u.ended
             c == Len(l) + 1
  <2>1. /\ DOMAIN v = 1..k /\ DOMAIN w = 1..(k + 1) /\ k \in Nat
        /\ \A n \in 1..k : w[n] = v[n]
        /\ w[k + 1] = c
    BY <1>5
  <2> HIDE DEF v, w, c
  <2>2. \A n \in 1..(k + 1) : n \in 1..k \/ n = k + 1
    OBVIOUS
  <2>3. \A x : x \in Range(w) <=> x \in Range(v) \/ x = c
    <3> TAKE x
    <3>1. x \in Range(w) <=> \E n \in 1..(k + 1) : x = w[n]
      BY <2>1 DEF Range
    <3>2. x \in Range(v) <=> \E n \in 1..k : x = v[n]
      BY <2>1 DEF Range
    <3>3. 1..k \subseteq 1..(k + 1) /\ k + 1 \in 1..(k + 1)
      OBVIOUS
    <3> QED BY <2>1, <2>2, <3>1, <3>2, <3>3
  <2>4. Range(w) = Range(v) \cup {c}
    BY <2>3
  <2> QED BY <2>4 DEF v, w, c
<1>8. ASSUME NEW n \in DOMAIN u.ended
      PROVE  m[u.ended[n]].round <= n /\ n <= 2 * m[u.ended[n]].round
  <2>1. CASE n = k + 1
    BY <1>0, <1>1, <1>5, <2>1
  <2>2. CASE n \in 1..k
    <3>1. t.ended[n] \in Range(t.ended)
      BY <1>5, <2>2 DEF Range
    <3>2. t.ended[n] \in 1..Len(l)
      BY <1>1, <1>3, <3>1 DEF CountedCalls
    <3>3. m[u.ended[n]] = l[t.ended[n]]
      BY <1>1, <1>5, <2>2, <3>2
    <3>4. l[t.ended[n]].round <= n /\ n <= 2 * l[t.ended[n]].round
      BY <1>5, <2>2 DEF CallsAre, RowsMatch
    <3> QED BY <3>3, <3>4
  <2> QED BY <1>5, <2>1, <2>2
<1>9. IsInjective(u.ended)
  <2> DEFINE v == t.ended
             w == u.ended
             c == Len(l) + 1
  <2>1. \A n \in 1..k : v[n] \in Range(v)
    BY <1>5 DEF Range
  <2>2. \A n \in 1..k : v[n] # c
    BY <1>1, <1>3, <2>1 DEF CountedCalls
  <2>3. IsInjective(v)
    BY DEF CallsAre, RowsMatch
  <2>4. /\ DOMAIN v = 1..k /\ DOMAIN w = 1..(k + 1)
        /\ \A n \in 1..k : w[n] = v[n]
        /\ w[k + 1] = c
    BY <1>5
  <2> HIDE DEF v, w, c
  <2>5. \A n \in 1..(k + 1) : n \in 1..k \/ n = k + 1
    OBVIOUS
  <2>6. IsInjective(w)
    BY <2>2, <2>3, <2>4, <2>5 DEF IsInjective
  <2> QED BY <2>6 DEF w
<1>10. CallsAre(m, FALSE, k + 1)
  BY <1>1, <1>3, <1>4, <1>5, <1>6, <1>7, <1>8, <1>9 DEF CallsAre, RowsMatch
<1> QED BY <1>10 DEF m, e

\* What a call writes.
LEMMA CallsLogged ==
    ASSUME NEW l \in Seq(Events), NEW k \in Nat, NEW s \in BOOLEAN,
           CallsAre(l, s, k), NEW r \in 1..MaxRounds, MaxRounds \in Nat
    PROVE  /\ CallsAre(l \o CallStart(r), TRUE, k)
           /\ s /\ r <= k + 1 /\ k + 1 <= 2 * r =>
                 /\ CallsAre(l \o CallEnd(r), FALSE, k + 1)
                 /\ CallsAre(l \o FailedCallEnd(r), FALSE, k + 1)
<1> DEFINE a == Event("call_start", r)
           b == Event("error", r)
           c == Event("call_end", r)
<1>1. /\ a \in Events /\ a.event = "call_start"
      /\ b \in Events /\ b.event = "error"
      /\ c \in Events
  BY DEF Event, Events
<1>2. /\ CallStart(r) = <<a>> /\ CallEnd(r) = <<c>>
      /\ FailedCallEnd(r) = <<b>> \o <<c>>
  BY DEF CallStart, CallEnd, FailedCallEnd
<1>3. \A x \in Events : l \o <<x>> = Append(l, x)
  BY AppendIsConcat
<1> HIDE DEF a, b
<1>4. CallsAre(Append(l, a), TRUE, k)
  <2>1. CallsAre(Append(l, a), a.event = "call_start" \/ s, k)
    BY <1>1, OtherEventKeepsRows
  <2>2. (a.event = "call_start" \/ s) = TRUE
    BY <1>1
  <2> QED BY <2>1, <2>2
<1>5. ASSUME s, r <= k + 1, k + 1 <= 2 * r
      PROVE  /\ CallsAre(Append(l, c), FALSE, k + 1)
             /\ CallsAre(l \o FailedCallEnd(r), FALSE, k + 1)
  <2>1. CallsAre(l, TRUE, k)
    BY <1>5
  <2>2. CallsAre(Append(l, c), FALSE, k + 1)
    BY <1>5, <2>1, EndAddsRow
  <2>3. CallsAre(Append(l, b), TRUE, k) /\ Append(l, b) \in Seq(Events)
    <3>1. CallsAre(Append(l, b), b.event = "call_start" \/ TRUE, k)
      BY <1>1, <2>1, OtherEventKeepsRows
    <3>2. (b.event = "call_start" \/ TRUE) = TRUE
      OBVIOUS
    <3>3. Append(l, b) \in Seq(Events)
      BY <1>1, AppendProperties
    <3>4. CallsAre(Append(l, b), TRUE, k)
      BY <3>1, <3>2, Zenon
    <3> QED BY <3>3, <3>4
  <2>4. CallsAre(Append(Append(l, b), c), FALSE, k + 1)
    BY <1>5, <2>3, EndAddsRow
  <2> HIDE DEF c
  <2>5. l \o FailedCallEnd(r) = Append(Append(l, b), c)
    <3>1. /\ <<b>> \in Seq(Events) /\ <<c>> \in Seq(Events)
      BY <1>1
    <3>2. l \o (<<b>> \o <<c>>) = (l \o <<b>>) \o <<c>>
      BY <3>1, ConcatAssociative
    <3>3. Append(l, b) \o <<c>> = Append(Append(l, b), c)
      BY <1>1, <2>3, AppendIsConcat
    <3> QED BY <1>1, <1>2, <1>3, <3>2, <3>3
  <2> QED BY <2>2, <2>4, <2>5
<1> HIDE DEF c
<1> QED BY <1>1, <1>2, <1>3, <1>4, <1>5

\* The rows so far: of each earlier round one or two, and one if the round is
\* tried again.
RowsOf(k) ==
    IF pc = "idle" THEN round <= k /\ k <= 2 * round
    ELSE /\ (round - 1) + (attempt - 1) <= k
         /\ k <= 2 * (round - 1) + (attempt - 1)

UnderWay == pc \in {"model", "tools"}

Tallied == \E k \in Nat : CallsAre(log, UnderWay, k) /\ RowsOf(k)

LEMMA TalliedIsInductive ==
    ASSUME Typed, Tallied, [Next]_vars
    PROVE  Tallied'
<1>1. PICK k \in Nat : CallsAre(log, UnderWay, k) /\ RowsOf(k)
  BY DEF Tallied
<1>2. /\ log \in Seq(Events) /\ MaxRounds \in Nat /\ UnderWay \in BOOLEAN
      /\ round \in 0..MaxRounds /\ attempt \in {1, 2}
      /\ pc # "idle" => round \in 1..MaxRounds
  BY BoundsAssumption DEF Typed, TypeOK, Started, Events, UnderWay
<1>3. CASE UNCHANGED <<pc, round, attempt, log>>
  <2>1. CallsAre(log, UnderWay, k)' /\ RowsOf(k)'
    BY <1>1, <1>3 DEF RowsOf, UnderWay, CallsAre
  <2> QED BY <2>1 DEF Tallied
<1>4. CASE CallAgent
  <2>1. /\ pc = "idle" /\ pc' = "sending" /\ round' = round + 1
        /\ attempt' = 1 /\ log' = log
    BY <1>4 DEF CallAgent
  <2>2. UnderWay' = UnderWay
    BY <2>1 DEF UnderWay
  <2>3. RowsOf(k)'
    BY <1>1, <1>2, <2>1 DEF RowsOf
  <2>4. CallsAre(log', UnderWay', k)
    BY <1>1, <2>1, <2>2
  <2> QED BY <2>3, <2>4 DEF Tallied
<1>5. CASE Send
  <2>1. /\ pc = "sending" /\ pc' = "model" /\ round' = round
        /\ attempt' = attempt /\ log' = log \o CallStart(round)
    BY <1>5 DEF Send, Log
  <2>2. CallsAre(log', TRUE, k)
    BY <1>1, <1>2, <2>1, CallsLogged
  <2>3. UnderWay' = TRUE /\ RowsOf(k)'
    BY <1>1, <2>1 DEF RowsOf, UnderWay
  <2> QED BY <2>2, <2>3 DEF Tallied
<1>6. CASE UNCHANGED <<round, attempt, log>> /\ UnderWay /\ UnderWay'
  <2>1. CallsAre(log', UnderWay', k)
    BY <1>1, <1>6
  <2>2. RowsOf(k)'
    BY <1>1, <1>6 DEF RowsOf, UnderWay
  <2> QED BY <2>1, <2>2 DEF Tallied
<1>7. ASSUME UnderWay, round' = round,
             \/ pc' = "sending" /\ attempt = 1 /\ attempt' = 2
             \/ pc' = "idle" /\ attempt' = attempt,
             log' = log \o CallEnd(round) \/ log' = log \o FailedCallEnd(round)
      PROVE  Tallied'
  <2>1. /\ pc # "idle" /\ round \in 1..MaxRounds
        /\ (round - 1) + (attempt - 1) <= k
        /\ k <= 2 * (round - 1) + (attempt - 1)
    BY <1>1, <1>2, <1>7 DEF RowsOf, UnderWay
  <2>2. round <= k + 1 /\ k + 1 <= 2 * round /\ k + 1 \in Nat
    BY <1>2, <2>1
  <2>3. CallsAre(log', FALSE, k + 1)
    BY <1>1, <1>2, <1>7, <2>1, <2>2, CallsLogged
  <2>4. RowsOf(k + 1)'
    BY <1>2, <1>7, <2>1, <2>2 DEF RowsOf
  <2>5. UnderWay' = FALSE
    BY <1>7 DEF UnderWay
  <2> QED BY <2>2, <2>3, <2>4, <2>5 DEF Tallied
<1>8. ASSUME NEW t, Return(t), UnderWay, round' = round PROVE Tallied'
  BY <1>7, <1>8 DEF Return, Log
<1>9. CASE RetryAfterError
  BY <1>7, <1>9, RaisesFacts DEF RetryAfterError, Log, UnderWay
<1>10. CASE GiveUpAfterError
  BY <1>7, <1>10, RaisesFacts DEF GiveUpAfterError, Log, UnderWay
<1>11. CASE FinalResponse
  BY <1>8, <1>11 DEF FinalResponse, UnderWay
<1>12. CASE StopIterating
  BY <1>8, <1>12 DEF StopIterating, ToolsDone, UnderWay
<1>13. CASE ToolCallResponse \/ RunTool \/ AskAgain
  BY <1>6, <1>13 DEF ToolCallResponse, RunTool, AskAgain, ToolsDone, UnderWay
<1> QED BY <1>3, <1>4, <1>5, <1>9, <1>10, <1>11, <1>12, <1>13
        DEF Next, vars, Done

LEMMA TalliedHolds == Spec => []Tallied
<1>1. Init => Tallied
  <2> SUFFICES ASSUME Init PROVE Tallied
    OBVIOUS
  <2>1. log = << >> /\ pc = "idle" /\ round = 0
    BY DEF Init
  <2>2. << >> \in Seq(Events) /\ Tally(<< >>) = NoCalls
    BY TallyOfNone
  <2>3. /\ NoCalls.started = FALSE /\ NoCalls.ended = << >>
        /\ Len(<< >>) = 0 /\ DOMAIN << >> = {}
    BY DEF NoCalls
  <2>4. CountedCalls(<< >>) = {} /\ Range(<< >>) = {}
    BY <2>3 DEF CountedCalls, Range
  <2>5. CallsAre(<< >>, FALSE, 0)
    BY <2>2, <2>3, <2>4 DEF CallsAre, RowsMatch, IsInjective
  <2>6. UnderWay = FALSE /\ RowsOf(0)
    BY <2>1 DEF UnderWay, RowsOf
  <2> QED BY <2>1, <2>5, <2>6 DEF Tallied
<1> QED BY <1>1, TalliedIsInductive, TypedHolds, PTL DEF Spec

LEMMA RowsAreTallied == RowCalls(log) = Tally(log).ended
BY DEF RowCalls, Tally

\* Each call that ended is in exactly one row of the usage summary.
THEOREM CountedOnceHolds == Spec => []CountedOnce
<1>1. Tallied => CountedOnce
  BY RowsAreTallied
     DEF Tallied, CallsAre, RowsMatch, CountedOnce, ToSet, Range
<1> QED BY <1>1, TalliedHolds, PTL

\* A row holds a call of its own round or of an earlier one, at most two of
\* each.
THEOREM RowsFollowRoundsHolds == Spec => []RowsFollowRounds
<1>1. Tallied => RowsFollowRounds
  BY RowsAreTallied DEF Tallied, CallsAre, RowsMatch, RowsFollowRounds
<1> QED BY <1>1, TalliedHolds, PTL

=============================================================================
