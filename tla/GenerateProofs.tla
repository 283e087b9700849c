---------------------------- MODULE GenerateProofs --------------------------
(***************************************************************************)
(* Proofs about Generate, for conversations and streams of any length.     *)
(***************************************************************************)
EXTENDS Generate, WellFoundedInduction, TLAPS

\* The first check that hits decides.
LEMMA JudgedHits ==
  ASSUME NEW checks, NEW n \in Nat, DOMAIN checks = 1..n,
         \E i \in DOMAIN checks : checks[i][1]
  PROVE  \E i \in DOMAIN checks :
             /\ checks[i][1]
             /\ \A j \in DOMAIN checks : j < i => ~checks[j][1]
             /\ Judged(checks) = checks[i][2]
<1> DEFINE Hits == {i \in DOMAIN checks : checks[i][1]}
           First(k) == checks[k][1] /\ \A j \in 1..(k - 1) : ~checks[j][1]
<1>1. PICK i \in Hits : \A j \in Hits : ~(j < i)
  <2>1. Hits \subseteq Nat /\ Hits # {}
    OBVIOUS
  <2>2. PICK i \in Hits : \A j \in Hits : <<j, i>> \notin OpToRel(<, Nat)
    BY <2>1, NatLessThanWellFounded, WFMin
  <2>3. \A j \in Hits : j < i => <<j, i>> \in OpToRel(<, Nat)
    BY <2>1 DEF OpToRel
  <2> QED
    BY <2>2, <2>3
<1>2. First(i)
  BY <1>1
<1>3. ASSUME NEW k \in DOMAIN checks, First(k)
      PROVE  k = i
  <2>1. k < i => k \in 1..(i - 1)
    OBVIOUS
  <2>2. i < k => i \in 1..(k - 1)
    OBVIOUS
  <2> QED
    BY <1>1, <1>3, <2>1, <2>2
<1>4. i = CHOOSE k \in DOMAIN checks : First(k)
  BY <1>2, <1>3
<1>5. Judged(checks) = checks[i][2]
  BY <1>4 DEF Judged
<1> QED
  BY <1>1, <1>5

LEMMA JudgedClear ==
  ASSUME NEW checks, \A i \in DOMAIN checks : ~checks[i][1]
  PROVE  Judged(checks) = "content"
  BY DEF Judged

Outcomes == {"content", "cliError", "escaped"}

\* What the judgement of a Claude envelope comes to.
LEMMA ClaudeJudged ==
  ASSUME NEW a \in ClaudeAnswer
  PROVE  /\ JudgeClaude(a) \in Outcomes
         /\ a.exit # 0 \/ (a.body = "object" /\ a.isError)
               => JudgeClaude(a) = "cliError"
         /\ a.body # "garbled" /\ a.usage # "wrong"
               => JudgeClaude(a) # "escaped"
<1> DEFINE checks == << <<a.exit # 0, "cliError">>,
                        <<a.body = "garbled", "escaped">>,
                        <<a.body # "object", "cliError">>,
                        <<a.isError, "cliError">>,
                        <<a.result # "proper", "cliError">>,
                        <<a.usage = "wrong", "escaped">> >>
<1>1. DOMAIN checks = 1..6
  OBVIOUS
<1>2. /\ checks[1][1] <=> a.exit # 0
      /\ checks[2][1] <=> a.body = "garbled"
      /\ checks[3][1] <=> a.body # "object"
      /\ checks[4][1] <=> a.isError
      /\ checks[6][1] <=> a.usage = "wrong"
  BY DEF ClaudeAnswer
<1>3. /\ checks[2][2] = "escaped" /\ checks[6][2] = "escaped"
      /\ \A i \in {1, 3, 4, 5} : checks[i][2] = "cliError"
  OBVIOUS
<1>4. JudgeClaude(a) = Judged(checks)
  BY DEF JudgeClaude
<1> HIDE DEF checks
<1>5. CASE \E i \in DOMAIN checks : checks[i][1]
  <2>1. PICK i \in 1..6 : /\ checks[i][1]
                          /\ \A j \in 1..6 : j < i => ~checks[j][1]
                          /\ Judged(checks) = checks[i][2]
    BY <1>1, <1>5, JudgedHits
  <2> QED
    BY <1>2, <1>3, <1>4, <2>1 DEF ClaudeAnswer, Outcomes
<1>6. CASE \A i \in DOMAIN checks : ~checks[i][1]
  BY <1>1, <1>2, <1>4, <1>6, JudgedClear DEF ClaudeAnswer, Outcomes
<1> QED
  BY <1>5, <1>6

\* What the judgement of an HTTP answer comes to.
LEMMA HttpJudged ==
  ASSUME NEW a \in HttpAnswer
  PROVE  /\ JudgeHttp(a) \in Outcomes
         /\ a.status = "error" => JudgeHttp(a) = "cliError"
         /\ a.body # "scalar" /\ a.choices # "wrong" /\ a.first # "wrong"
            /\ a.message # "wrong" /\ a.usage # "wrong"
               => JudgeHttp(a) # "escaped"
<1> DEFINE Said == /\ a.first = "proper" /\ a.message = "proper"
                   /\ a.content = "proper"
           checks == << <<a.status = "error", "cliError">>,
                        <<a.body \in {"garbled", "text"}, "cliError">>,
                        <<a.body = "scalar", "escaped">>,
                        <<a.choices = "absent", "cliError">>,
                        <<a.choices = "wrong", "escaped">>,
                        <<a.first = "wrong", "escaped">>,
                        <<a.first = "proper" /\ a.message = "wrong",
                          "escaped">>,
                        <<~Said, "cliError">>,
                        <<a.usage = "wrong", "escaped">> >>
<1>1. DOMAIN checks = 1..9
  OBVIOUS
<1>2. /\ checks[1][1] <=> a.status = "error"
      /\ checks[3][1] <=> a.body = "scalar"
      /\ checks[5][1] <=> a.choices = "wrong"
      /\ checks[6][1] <=> a.first = "wrong"
      /\ checks[7][1] => a.message = "wrong"
      /\ checks[9][1] <=> a.usage = "wrong"
  BY DEF HttpAnswer
<1>3. /\ \A i \in {3, 5, 6, 7, 9} : checks[i][2] = "escaped"
      /\ \A i \in {1, 2, 4, 8} : checks[i][2] = "cliError"
  OBVIOUS
<1>4. JudgeHttp(a) = Judged(checks)
  BY DEF JudgeHttp
<1> HIDE DEF checks
<1>5. CASE \E i \in DOMAIN checks : checks[i][1]
  <2>1. PICK i \in 1..9 : /\ checks[i][1]
                          /\ \A j \in 1..9 : j < i => ~checks[j][1]
                          /\ Judged(checks) = checks[i][2]
    BY <1>1, <1>5, JudgedHits
  <2> QED
    BY <1>2, <1>3, <1>4, <2>1 DEF HttpAnswer, Outcomes
<1>6. CASE \A i \in DOMAIN checks : ~checks[i][1]
  BY <1>1, <1>2, <1>4, <1>6, JudgedClear DEF HttpAnswer, Outcomes
<1> QED
  BY <1>5, <1>6

\* What the judgement at the end of codex's stream comes to.
CodexJudged ==
    Judged(<< <<~saw_any_event, "cliError">>,
              <<text_parts = <<>>, "cliError">>,
              <<usage_event = "turnWrong", "escaped">> >>)

LEMMA StreamJudged ==
  /\ CodexJudged \in Outcomes
  /\ CodexJudged = "content" => text_parts # <<>>
  /\ usage_event # "turnWrong" => CodexJudged # "escaped"
<1> DEFINE checks == << <<~saw_any_event, "cliError">>,
                        <<text_parts = <<>>, "cliError">>,
                        <<usage_event = "turnWrong", "escaped">> >>
<1>1. DOMAIN checks = 1..3
  OBVIOUS
<1>2. /\ checks[2][1] <=> text_parts = <<>>
      /\ checks[3][1] <=> usage_event = "turnWrong"
  OBVIOUS
<1>3. /\ checks[1][2] = "cliError" /\ checks[2][2] = "cliError"
      /\ checks[3][2] = "escaped"
  OBVIOUS
<1>4. CodexJudged = Judged(checks)
  BY DEF CodexJudged
<1> HIDE DEF checks
<1>5. CASE \E i \in DOMAIN checks : checks[i][1]
  <2>1. PICK i \in 1..3 : /\ checks[i][1]
                          /\ \A j \in 1..3 : j < i => ~checks[j][1]
                          /\ Judged(checks) = checks[i][2]
    BY <1>1, <1>5, JudgedHits
  <2> QED
    BY <1>2, <1>3, <1>4, <2>1 DEF Outcomes
<1>6. CASE \A i \in DOMAIN checks : ~checks[i][1]
  BY <1>1, <1>2, <1>4, <1>6, JudgedClear DEF Outcomes
<1> QED
  BY <1>5, <1>6

LEMMA AnswersArrive ==
  ASSUME NEW a \in ClaudeAnswer \union HttpAnswer \union CodexAnswer
  PROVE  a # NotYet
<1>1. DOMAIN NotYet = {"kind"}
  BY DEF NotYet
<1>2. "kind" \notin DOMAIN a
  BY DEF ClaudeAnswer, HttpAnswer, CodexAnswer
<1> QED
  BY <1>1, <1>2

\* One more line: the last turn.completed is that line, or the one before.
LEMMA LastTurnStep ==
  ASSUME NEW lines, NEW n \in Nat
  PROVE  LastTurn(lines, n + 1) = IF lines[n + 1] \in Turns THEN lines[n + 1]
                                  ELSE LastTurn(lines, n)
<1> DEFINE Last(i, m) == /\ lines[i] \in Turns
                         /\ \A j \in (i + 1)..m : lines[j] \notin Turns
<1>1. CASE lines[n + 1] \in Turns
  <2>1. Last(n + 1, n + 1)
    BY <1>1
  <2>2. \A i \in 1..(n + 1) : Last(i, n + 1) => i = n + 1
    <3>1. \A i \in 1..(n + 1) : i # n + 1 => n + 1 \in (i + 1)..(n + 1)
      OBVIOUS
    <3> QED
      BY <1>1, <3>1
  <2>3. (CHOOSE i \in 1..(n + 1) : Last(i, n + 1)) = n + 1
    BY <2>1, <2>2
  <2> QED
    BY <1>1, <2>3 DEF LastTurn
<1>2. CASE lines[n + 1] \notin Turns
  <2>1. (\E i \in 1..(n + 1) : lines[i] \in Turns)
          <=> \E i \in 1..n : lines[i] \in Turns
    <3>1. \A i \in 1..(n + 1) : i = n + 1 \/ i \in 1..n
      OBVIOUS
    <3> QED
      BY <1>2, <3>1
  <2>2. \A i : (i \in 1..(n + 1) /\ Last(i, n + 1))
                 <=> (i \in 1..n /\ Last(i, n))
    BY <1>2
  <2>3. (CHOOSE i \in 1..(n + 1) : Last(i, n + 1))
          = (CHOOSE i \in 1..n : Last(i, n))
    BY <2>2
  <2>4. LastTurn(lines, n + 1) =
          IF \E i \in 1..(n + 1) : lines[i] \in Turns
          THEN lines[CHOOSE i \in 1..(n + 1) : Last(i, n + 1)] ELSE "none"
    BY DEF LastTurn
  <2>5. LastTurn(lines, n) =
          IF \E i \in 1..n : lines[i] \in Turns
          THEN lines[CHOOSE i \in 1..n : Last(i, n)] ELSE "none"
    BY DEF LastTurn
  <2> QED
    BY <1>2, <2>1, <2>3, <2>4, <2>5
<1> QED
  BY <1>1, <1>2

-----------------------------------------------------------------------------
LEMMA ReplyTyped ==
  ASSUME NEW outcome \in Outcomes, NEW parts \in Seq(Nat),
         NEW usage \in BOOLEAN, Reply(outcome, parts, usage)
  PROVE  /\ place' = "replied"
         /\ reply' \in [status : {0, 200, 500, 502}, ok : BOOLEAN,
                        parts : Seq(Nat), usage : BOOLEAN]
<1> DEFINE status == IF asker = "test" \/ outcome = "content" THEN 200
                     ELSE IF outcome = "cliError" THEN 502
                     ELSE 500
           told == IF outcome = "content" THEN parts ELSE <<>>
           ok == outcome = "content"
           tokens == outcome = "content" /\ usage
<1>1. status \in {0, 200, 500, 502}
  OBVIOUS
<1>2. told \in Seq(Nat)
  OBVIOUS
<1>3. ok \in BOOLEAN /\ tokens \in BOOLEAN
  OBVIOUS
<1>4. /\ place' = "replied"
      /\ reply' = [status |-> status, ok |-> ok, parts |-> told,
                   usage |-> tokens]
  BY DEF Reply
<1> HIDE DEF status, ok, told, tokens
<1> QED
  BY <1>1, <1>2, <1>3, <1>4

LEMMA AnsweredTyped ==
  ASSUME TypeOK, NEW outcome \in Outcomes, NEW parts \in Seq(Nat),
         NEW usage \in BOOLEAN, Reply(outcome, parts, usage),
         answer' \in {NotYet} \union ClaudeAnswer \union HttpAnswer
                       \union CodexAnswer,
         UNCHANGED <<asker, engine, messages, loop>>
  PROVE  TypeOK'
<1>1. /\ place' = "replied"
      /\ reply' \in [status : {0, 200, 500, 502}, ok : BOOLEAN,
                     parts : Seq(Nat), usage : BOOLEAN]
  BY ReplyTyped
<1> QED
  BY <1>1 DEF TypeOK, loop

\* The call, the loop over codex's lines and the reply keep their types.
THEOREM TypeCorrect == Spec => []TypeOK
<1>1. Init => TypeOK
  <2> SUFFICES ASSUME Init PROVE TypeOK
    OBVIOUS
  <2>1. Ping \in Seq(Message)
    BY DEF Ping, Message, Roles, Names
  <2>2. messages \in Seq(Message) /\ asker \in {"generate", "test"}
    BY <2>1, ConversationsAssumption DEF Init
  <2>3. NoReply \in [status : {0, 200, 500, 502}, ok : BOOLEAN,
                     parts : Seq(Nat), usage : BOOLEAN]
    BY DEF NoReply
  <2>4. text_parts \in Seq(Nat)
    BY DEF Init
  <2>5. saw_any_event \in BOOLEAN
    BY DEF Init
  <2> QED
    BY <2>2, <2>3, <2>4, <2>5 DEF Init, TypeOK
<1>2. TypeOK /\ [Next]_vars => TypeOK'
  <2> SUFFICES ASSUME TypeOK, [Next]_vars
               PROVE  TypeOK'
    OBVIOUS
  <2>0. <<>> \in Seq(Nat) /\ <<1>> \in Seq(Nat) /\ FALSE \in BOOLEAN
    OBVIOUS
  <2>1. CASE UNCHANGED vars
    BY <2>1 DEF TypeOK, vars, loop
  <2>2. CASE Send
    BY <2>2 DEF TypeOK, Send, loop
  <2>3. CASE NoAnswer
    <3>1. PICK outcome \in {"cliError", "escaped"} : Reply(outcome, <<>>, FALSE)
      BY <2>3 DEF NoAnswer
    <3>2. outcome \in Outcomes
      BY DEF Outcomes
    <3>3. /\ answer' \in {NotYet} \union ClaudeAnswer \union HttpAnswer
                           \union CodexAnswer
          /\ UNCHANGED <<asker, engine, messages, loop>>
      BY <2>3 DEF NoAnswer, TypeOK
    <3> QED
      BY <2>0, <3>1, <3>2, <3>3, AnsweredTyped
  <2>4. CASE ReceiveEnvelope
    <3>1. JudgeClaude(answer') \in Outcomes
      BY <2>4, ClaudeJudged DEF ReceiveEnvelope
    <3>2. (answer'.usage = "proper") \in BOOLEAN
      OBVIOUS
    <3>3. Reply(JudgeClaude(answer'), <<1>>, answer'.usage = "proper")
      BY <2>4 DEF ReceiveEnvelope
    <3> QED
      BY <2>0, <2>4, <3>1, <3>2, <3>3, AnsweredTyped DEF ReceiveEnvelope
  <2>5. CASE ReceiveCompletion
    <3>1. JudgeHttp(answer') \in Outcomes
      BY <2>5, HttpJudged DEF ReceiveCompletion
    <3>2. (answer'.usage = "proper") \in BOOLEAN
      OBVIOUS
    <3>3. Reply(JudgeHttp(answer'), <<1>>, answer'.usage = "proper")
      BY <2>5 DEF ReceiveCompletion
    <3> QED
      BY <2>0, <2>5, <3>1, <3>2, <3>3, AnsweredTyped DEF ReceiveCompletion
  <2>6. CASE ReceiveStream
    <3>1. CASE answer'.exit # 0
      <4>1. Reply("cliError", <<>>, FALSE) /\ "cliError" \in Outcomes
        BY <2>6, <3>1 DEF ReceiveStream, Outcomes
      <4> QED
        BY <2>0, <2>6, <4>1, AnsweredTyped DEF ReceiveStream
    <3>2. CASE answer'.exit = 0
      BY <2>6, <3>2 DEF ReceiveStream, TypeOK, loop
    <3> QED
      BY <3>1, <3>2
  <2>7. CASE ReadLine
    <3>1. text_parts' \in Seq(Nat) /\ line' \in Nat
      BY <2>7 DEF ReadLine, TypeOK
    <3>2. saw_any_event' \in BOOLEAN
      BY <2>7 DEF ReadLine
    <3> QED
      BY <2>7, <3>1, <3>2 DEF ReadLine, TypeOK
  <2>8. CASE ReadGarbled
    <3>1. Reply("escaped", <<>>, FALSE) /\ "escaped" \in Outcomes
      BY <2>8 DEF ReadGarbled, Outcomes
    <3> QED
      BY <2>0, <2>8, <3>1, AnsweredTyped DEF ReadGarbled, TypeOK
  <2>9. CASE FinishStream
    <3>1. Reply(CodexJudged, text_parts, usage_event = "turn")
      BY <2>9 DEF FinishStream, CodexJudged
    <3>2. (usage_event = "turn") \in BOOLEAN /\ text_parts \in Seq(Nat)
      BY DEF TypeOK
    <3> QED
      BY <2>9, <3>1, <3>2, StreamJudged, AnsweredTyped
         DEF FinishStream, TypeOK
  <2> QED
    BY <2>1, <2>2, <2>3, <2>4, <2>5, <2>6, <2>7, <2>8, <2>9 DEF Next
<1> QED
  BY <1>1, <1>2, PTL DEF Spec

-----------------------------------------------------------------------------
\* What makes the three properties below inductive: nothing is answered or
\* read before the call, and the loop's variables agree with the lines read.
NothingYet ==
    place \in {"asking", "waiting"} =>
        /\ answer = NotYet
        /\ line = 0 /\ text_parts = <<>>
        /\ saw_any_event = FALSE /\ usage_event = "none"

LEMMA NothingYetCorrect == Spec => []NothingYet
<1>1. Init => NothingYet
  BY DEF Init, NothingYet
<1>2. NothingYet /\ [Next]_vars => NothingYet'
  BY DEF NothingYet, Next, vars, loop, Send, NoAnswer, ReceiveEnvelope,
         ReceiveCompletion, ReceiveStream, ReadLine, ReadGarbled,
         FinishStream, Reply
<1> QED
  BY <1>1, <1>2, PTL DEF Spec

\* Turning the loop over one more line keeps it in step with the lines.
LEMMA ReadLineKeepsInv ==
  ASSUME TypeOK, CodexInv, ReadLine
  PROVE  CodexInv'
<1> DEFINE lines == answer.lines
           n == line + 1
<1>1. /\ place = "reading" /\ line \in Nat /\ line < Len(lines)
      /\ lines \in Seq(Line) /\ Len(lines) \in Nat
      /\ text_parts \in Seq(Nat)
  BY StreamsAssumption DEF ReadLine, TypeOK, CodexAnswer
<1>2. /\ line' = n /\ answer' = answer /\ lines[n] # "garbled"
      /\ text_parts' = IF lines[n] = "message" THEN Append(text_parts, n)
                       ELSE text_parts
      /\ saw_any_event' = (saw_any_event \/ lines[n] # "noise")
      /\ usage_event' = IF lines[n] \in Turns THEN lines[n] ELSE usage_event
  BY DEF ReadLine, Current
<1>3. n \in 0..Len(lines) /\ 1..n = (1..line) \union {n}
  BY <1>1
<1>4. \A i \in 1..n : lines[i] # "garbled"
  BY <1>1, <1>2, <1>3 DEF CodexInv
<1>5. Increasing(text_parts') /\ Parts(text_parts') = MessageLines(lines, n)
  <2>1. Increasing(text_parts) /\ Parts(text_parts) = MessageLines(lines, line)
    BY <1>1 DEF CodexInv
  <2>2. CASE lines[n] = "message"
    <3>1. MessageLines(lines, n) = MessageLines(lines, line) \union {n}
      BY <1>3, <2>2 DEF MessageLines
    <3>2. ASSUME NEW i \in DOMAIN text_parts PROVE text_parts[i] < n
      <4>1. text_parts[i] \in MessageLines(lines, line)
        BY <2>1 DEF Parts
      <4> QED
        BY <1>1, <4>1 DEF MessageLines
    <3>3. text_parts' = Append(text_parts, n)
      BY <1>2, <2>2
    <3>4. Parts(text_parts') = Parts(text_parts) \union {n}
      <4> DEFINE last == Len(text_parts) + 1
      <4>1. DOMAIN text_parts' = (DOMAIN text_parts) \union {last}
        BY <1>1, <3>3
      <4>2. \A i \in DOMAIN text_parts : text_parts'[i] = text_parts[i]
        BY <1>1, <3>3
      <4>3. text_parts'[last] = n
        BY <1>1, <3>3
      <4> HIDE DEF last
      <4> QED
        BY <4>1, <4>2, <4>3 DEF Parts
    <3>5. Increasing(text_parts')
      BY <1>1, <2>1, <3>2, <3>3 DEF Increasing
    <3> QED
      BY <2>1, <3>1, <3>4, <3>5
  <2>3. CASE lines[n] # "message"
    BY <1>2, <1>3, <2>1, <2>3 DEF MessageLines
  <2> QED
    BY <2>2, <2>3
<1>6. saw_any_event' <=> \E i \in 1..n : lines[i] # "noise"
  BY <1>1, <1>2, <1>3 DEF CodexInv
<1>7. usage_event' = LastTurn(lines, n)
  BY <1>1, <1>2, LastTurnStep DEF CodexInv
<1>8. answer.exit = 0
  BY <1>1 DEF CodexInv
<1> QED
  BY <1>2, <1>3, <1>4, <1>5, <1>6, <1>7, <1>8 DEF CodexInv

LEMMA CodexInvCorrect == Spec => []CodexInv
<1>1. Init => CodexInv
  BY DEF Init, CodexInv
<1>2. TypeOK /\ NothingYet /\ CodexInv /\ [Next]_vars => CodexInv'
  <2> SUFFICES ASSUME TypeOK, NothingYet, CodexInv, [Next]_vars
               PROVE  CodexInv'
    OBVIOUS
  <2>1. CASE UNCHANGED vars
    BY <2>1 DEF CodexInv, vars, loop
  <2>2. CASE ReceiveStream
    <3>1. CASE answer'.exit # 0
      BY <2>2, <3>1 DEF ReceiveStream, Reply, CodexInv
    <3>2. CASE answer'.exit = 0
      <4>1. /\ line' = 0 /\ text_parts' = <<>>
            /\ ~saw_any_event' /\ usage_event' = "none"
        BY <2>2 DEF ReceiveStream, NothingYet, loop
      <4>2. Len(answer'.lines) \in Nat
        BY <2>2, StreamsAssumption DEF ReceiveStream, CodexAnswer
      <4>3. 1..0 = {}
        OBVIOUS
      <4>4. LastTurn(answer'.lines, 0) = "none"
        BY <4>3 DEF LastTurn
      <4>5. Increasing(<<>>) /\ Parts(<<>>) = MessageLines(answer'.lines, 0)
        BY <4>3 DEF Increasing, Parts, MessageLines
      <4> QED
        BY <3>2, <4>1, <4>2, <4>3, <4>4, <4>5 DEF CodexInv
    <3> QED
      BY <3>1, <3>2
  <2>3. CASE ReadLine
    BY <2>3, ReadLineKeepsInv
  <2>4. CASE Send
    BY <2>4 DEF CodexInv, Send
  <2>5. CASE \/ NoAnswer \/ ReceiveEnvelope \/ ReceiveCompletion
             \/ ReadGarbled \/ FinishStream
    BY <2>5 DEF CodexInv, NoAnswer, ReceiveEnvelope, ReceiveCompletion,
                ReadGarbled, FinishStream, Reply
  <2> QED
    BY <2>1, <2>2, <2>3, <2>4, <2>5 DEF Next
<1> QED
  BY <1>1, <1>2, TypeCorrect, NothingYetCorrect, PTL DEF Spec

\* The usage that was kept is that of a line that was read.
UsageSeen ==
    place = "reading" /\ usage_event # "none" =>
        \E i \in 1..line : answer.lines[i] = usage_event

LEMMA UsageSeenCorrect == Spec => []UsageSeen
<1>1. Init => UsageSeen
  BY DEF Init, UsageSeen
<1>2. TypeOK /\ NothingYet /\ UsageSeen /\ [Next]_vars => UsageSeen'
  <2> SUFFICES ASSUME TypeOK, NothingYet, UsageSeen, [Next]_vars
               PROVE  UsageSeen'
    OBVIOUS
  <2> USE DEF UsageSeen
  <2>1. CASE UNCHANGED vars
    BY <2>1 DEF vars, loop
  <2>2. CASE Send \/ ReceiveStream
    BY <2>2 DEF Send, ReceiveStream, NothingYet, loop, Reply
  <2>3. CASE ReadLine
    <3>0. line \in Nat
      BY DEF TypeOK
    <3>1. 1..(line + 1) = (1..line) \union {line + 1}
      BY <3>0
    <3> QED
      BY <2>3, <3>1 DEF ReadLine, Current
  <2>4. CASE \/ NoAnswer \/ ReceiveEnvelope \/ ReceiveCompletion
             \/ ReadGarbled \/ FinishStream
    BY <2>4 DEF NoAnswer, ReceiveEnvelope, ReceiveCompletion, ReadGarbled,
                FinishStream, Reply
  <2> QED
    BY <2>1, <2>2, <2>3, <2>4 DEF Next
<1> QED
  BY <1>1, <1>2, TypeCorrect, NothingYetCorrect, PTL DEF Spec

-----------------------------------------------------------------------------
\* What the asker gets for a CliError.
FailureTold ==
    reply.ok = FALSE /\ reply.status = IF asker = "test" THEN 200 ELSE 502

LEMMA CliErrorMeans ==
  ASSUME NEW parts, NEW usage, Reply("cliError", parts, usage), asker' = asker
  PROVE  FailureTold'
<1> DEFINE status == IF asker = "test" THEN 200 ELSE 502
           ok == "cliError" = "content"
<1>1. reply'.status = status /\ reply'.ok = ok
  BY DEF Reply
<1>2. ok = FALSE
  OBVIOUS
<1> QED
  BY <1>1, <1>2 DEF FailureTold

LEMMA EscapedMeans ==
  ASSUME NEW parts, NEW usage, Reply("escaped", parts, usage)
  PROVE  reply'.ok = FALSE
<1> DEFINE ok == "escaped" = "content"
<1>1. reply'.ok = ok
  BY DEF Reply
<1>2. ok = FALSE
  OBVIOUS
<1> QED
  BY <1>1, <1>2

\* What a backend reports as its failure is answered as one, for every answer
\* it can give.
THEOREM FailuresCorrect == Spec => []FailuresAreReported
<1>1. Init => FailuresAreReported
  BY DEF Init, FailuresAreReported
<1>2. TypeOK /\ NothingYet /\ CodexInv /\ FailuresAreReported /\ [Next]_vars
        => FailuresAreReported'
  <2> SUFFICES ASSUME TypeOK, NothingYet, CodexInv, FailuresAreReported,
                      [Next]_vars
               PROVE  FailuresAreReported'
    OBVIOUS
  <2> USE DEF FailuresAreReported
  <2>1. CASE UNCHANGED vars
    BY <2>1 DEF vars, BackendFailed
  <2>2. CASE Send \/ ReadLine
    BY <2>2 DEF Send, ReadLine
  <2>3. CASE NoAnswer
    <3>1. answer' = NotYet
      BY <2>3 DEF NoAnswer, NothingYet
    <3> QED
      BY <3>1, AnswersArrive DEF BackendFailed
  <2>4. CASE ReceiveEnvelope
    <3>1. JudgeClaude(answer') = "cliError" => FailureTold'
      BY <2>4, CliErrorMeans DEF ReceiveEnvelope
    <3>2. BackendFailed' => JudgeClaude(answer') = "cliError"
      BY <2>4, ClaudeJudged DEF ReceiveEnvelope, BackendFailed
    <3> QED
      BY <3>1, <3>2 DEF FailureTold
  <2>5. CASE ReceiveCompletion
    <3>1. JudgeHttp(answer') = "cliError" => FailureTold'
      BY <2>5, CliErrorMeans DEF ReceiveCompletion
    <3>2. BackendFailed' => JudgeHttp(answer') = "cliError"
      BY <2>5, HttpJudged DEF ReceiveCompletion, BackendFailed
    <3> QED
      BY <3>1, <3>2 DEF FailureTold
  <2>6. CASE ReceiveStream
    <3>1. CASE answer'.exit # 0
      <4>1. Reply("cliError", <<>>, FALSE) /\ asker' = asker
        BY <2>6, <3>1 DEF ReceiveStream
      <4>2. FailureTold'
        BY <4>1, CliErrorMeans
      <4> QED
        BY <4>2 DEF FailureTold
    <3>2. CASE answer'.exit = 0
      BY <2>6, <3>2 DEF ReceiveStream
    <3> QED
      BY <3>1, <3>2
  <2>7. CASE ReadGarbled \/ FinishStream
    <3>1. ~BackendFailed'
      BY <2>7 DEF ReadGarbled, FinishStream, BackendFailed, TypeOK, CodexInv
    <3> QED
      BY <3>1
  <2> QED
    BY <2>1, <2>2, <2>3, <2>4, <2>5, <2>6, <2>7 DEF Next
<1> QED
  BY <1>1, <1>2, TypeCorrect, NothingYetCorrect, CodexInvCorrect, PTL DEF Spec

\* An answer that only lacks something never ends in an exception.
THEOREM GapsCorrect == Spec => []GapsDoNotEscape
<1>1. Init => GapsDoNotEscape
  BY DEF Init, GapsDoNotEscape
<1>2. TypeOK /\ NothingYet /\ UsageSeen /\ GapsDoNotEscape /\ [Next]_vars
        => GapsDoNotEscape'
  <2> SUFFICES ASSUME TypeOK, NothingYet, UsageSeen, GapsDoNotEscape,
                      [Next]_vars
               PROVE  GapsDoNotEscape'
    OBVIOUS
  <2> USE DEF GapsDoNotEscape
  <2>1. CASE UNCHANGED vars
    BY <2>1 DEF vars, WellShaped
  <2>2. CASE Send \/ ReadLine
    BY <2>2 DEF Send, ReadLine
  <2>3. CASE NoAnswer
    BY <2>3 DEF NoAnswer, NothingYet
  <2>4. CASE ReceiveEnvelope
    <3>1. WellShaped' => JudgeClaude(answer') \in {"content", "cliError"}
      BY <2>4, ClaudeJudged DEF ReceiveEnvelope, WellShaped, Outcomes
    <3> QED
      BY <2>4, <3>1 DEF ReceiveEnvelope, Reply
  <2>5. CASE ReceiveCompletion
    <3>1. WellShaped' => JudgeHttp(answer') \in {"content", "cliError"}
      BY <2>5, HttpJudged DEF ReceiveCompletion, WellShaped, Outcomes
    <3> QED
      BY <2>5, <3>1 DEF ReceiveCompletion, Reply
  <2>6. CASE ReceiveStream
    BY <2>6 DEF ReceiveStream, Reply
  <2>7. CASE ReadGarbled
    <3>1. ~WellShaped'
      <4>1. /\ engine' = "codex_cli" /\ answer' = answer
            /\ line + 1 \in DOMAIN answer.lines
            /\ answer.lines[line + 1] = "garbled"
        BY <2>7, StreamsAssumption
           DEF ReadGarbled, Current, TypeOK, CodexAnswer
      <4> QED
        BY <4>1 DEF WellShaped
    <3> QED
      BY <3>1
  <2>8. CASE FinishStream
    <3>1. Reply(CodexJudged, text_parts, usage_event = "turn")
      BY <2>8 DEF FinishStream, CodexJudged
    <3>2. WellShaped' => usage_event # "turnWrong"
      <4>1. /\ engine' = "codex_cli" /\ answer' = answer
            /\ line = Len(answer.lines) /\ answer.lines \in Seq(Line)
        BY <2>8, StreamsAssumption DEF FinishStream, TypeOK, CodexAnswer
      <4>2. usage_event = "turnWrong" =>
              \E i \in 1..line : answer.lines[i] = "turnWrong"
        BY <2>8 DEF FinishStream, UsageSeen
      <4> QED
        BY <4>1, <4>2 DEF WellShaped
    <3>3. WellShaped' => CodexJudged \in {"content", "cliError"}
      BY <3>2, StreamJudged DEF Outcomes
    <3> QED
      BY <3>1, <3>3 DEF Reply
  <2> QED
    BY <2>1, <2>2, <2>3, <2>4, <2>5, <2>6, <2>7, <2>8 DEF Next
<1> QED
  BY <1>1, <1>2, TypeCorrect, NothingYetCorrect, UsageSeenCorrect, PTL DEF Spec

\* What codex answers is all its messages in their order, and the usage of its
\* last turn, whatever lines come between.
THEOREM WholeCorrect == Spec => []CodexAnswerIsWhole
<1>1. Init => CodexAnswerIsWhole
  BY DEF Init, CodexAnswerIsWhole
<1>2. TypeOK /\ CodexInv /\ CodexAnswerIsWhole /\ [Next]_vars
        => CodexAnswerIsWhole'
  <2> SUFFICES ASSUME TypeOK, CodexInv, CodexAnswerIsWhole, [Next]_vars
               PROVE  CodexAnswerIsWhole'
    OBVIOUS
  <2> USE DEF CodexAnswerIsWhole
  <2>1. CASE UNCHANGED vars
    BY <2>1 DEF vars
  <2>2. CASE Send \/ ReadLine
    BY <2>2 DEF Send, ReadLine
  <2>3. CASE NoAnswer \/ ReadGarbled
    <3>1. /\ asker' = asker
          /\ \/ Reply("cliError", <<>>, FALSE)
             \/ Reply("escaped", <<>>, FALSE)
      BY <2>3 DEF NoAnswer, ReadGarbled
    <3>2. reply'.ok = FALSE
      BY <3>1, CliErrorMeans, EscapedMeans DEF FailureTold
    <3> QED
      BY <3>2
  <2>4. CASE ReceiveEnvelope \/ ReceiveCompletion
    BY <2>4 DEF ReceiveEnvelope, ReceiveCompletion
  <2>5. CASE ReceiveStream
    <3>1. \/ Reply("cliError", <<>>, FALSE) /\ asker' = asker
          \/ place' = "reading"
      BY <2>5 DEF ReceiveStream
    <3> QED
      BY <3>1, CliErrorMeans DEF FailureTold
  <2>6. CASE FinishStream
    <3>1. Reply(CodexJudged, text_parts, usage_event = "turn")
      BY <2>6 DEF FinishStream, CodexJudged
    <3>2. /\ answer' = answer /\ line = Len(answer.lines)
          /\ Increasing(text_parts)
          /\ Parts(text_parts) = MessageLines(answer.lines, line)
          /\ usage_event = LastTurn(answer.lines, line)
      BY <2>6 DEF FinishStream, CodexInv
    <3>3. reply'.ok => CodexJudged = "content" /\ reply'.parts = text_parts
                       /\ (reply'.usage <=> usage_event = "turn")
      BY <3>1 DEF Reply
    <3> QED
      BY <3>2, <3>3, StreamJudged
  <2> QED
    BY <2>1, <2>2, <2>3, <2>4, <2>5, <2>6 DEF Next
<1> QED
  BY <1>1, <1>2, TypeCorrect, CodexInvCorrect, PTL DEF Spec

-----------------------------------------------------------------------------
(***************************************************************************)
(* What the backend is sent.                                               *)
(***************************************************************************)
\* Induction over the naturals for a set of them, from the least number of
\* its complement.
LEMMA Induction ==
  ASSUME NEW S, 0 \in S, \A n \in Nat : n \in S => n + 1 \in S
  PROVE  Nat \subseteq S
<1> SUFFICES ASSUME Nat \ S # {} PROVE FALSE
  OBVIOUS
<1> DEFINE Rest == Nat \ S
<1>1. PICK i \in Rest : \A j \in Rest : ~(j < i)
  <2>1. Rest \subseteq Nat /\ Rest # {}
    OBVIOUS
  <2>2. PICK i \in Rest : \A j \in Rest : <<j, i>> \notin OpToRel(<, Nat)
    BY <2>1, NatLessThanWellFounded, WFMin
  <2>3. \A j \in Rest : j < i => <<j, i>> \in OpToRel(<, Nat)
    BY <2>1 DEF OpToRel
  <2> QED
    BY <2>2, <2>3
<1>2. i \in Nat /\ i \notin S
  OBVIOUS
<1>3. i # 0
  BY <1>2
<1>4. i - 1 \in Nat /\ i - 1 < i /\ (i - 1) + 1 = i
  BY <1>2, <1>3
<1>5. i - 1 \in S
  BY <1>1, <1>4
<1> QED
  BY <1>2, <1>4, <1>5

\* A turn of the comprehension's loop.
Turn(s, keep, before, n) ==
    IF n = 0 THEN <<>>
    ELSE IF s[n].from \in keep THEN Append(before[n - 1], s[n])
    ELSE before[n - 1]

\* The recursive function in Chosen exists, so that the CHOOSE by which TLA+
\* defines it chooses one.
LEMMA UptoExists ==
  ASSUME NEW s, NEW keep, NEW m \in Nat
  PROVE  \E f : f = [n \in 0..m |-> Turn(s, keep, f, n)]
<1> DEFINE Ok == {k \in Nat : \E f : f = [n \in 0..k |-> Turn(s, keep, f, n)]}
<1>1. 0 \in Ok
  <2> DEFINE f == [n \in 0..0 |-> <<>>]
  <2>1. f = [n \in 0..0 |-> Turn(s, keep, f, n)]
    BY DEF Turn
  <2> QED
    BY <2>1
<1>2. ASSUME NEW k \in Nat, k \in Ok PROVE k + 1 \in Ok
  <2>1. PICK f : f = [n \in 0..k |-> Turn(s, keep, f, n)]
    BY <1>2
  <2> DEFINE g == [n \in 0..(k + 1) |->
                     IF n \in 0..k THEN f[n] ELSE Turn(s, keep, f, n)]
  <2>2. ASSUME NEW n \in 0..(k + 1) PROVE g[n] = Turn(s, keep, g, n)
    <3>1. n = 0 \/ g[n - 1] = f[n - 1]
      OBVIOUS
    <3>2. Turn(s, keep, g, n) = Turn(s, keep, f, n)
      BY <3>1 DEF Turn
    <3>3. n \in 0..k => f[n] = Turn(s, keep, f, n)
      BY <2>1
    <3> QED
      BY <3>2, <3>3
  <2>3. g = [n \in 0..(k + 1) |-> Turn(s, keep, g, n)]
    BY <2>2
  <2> HIDE DEF g
  <2>4. \E h : h = [n \in 0..(k + 1) |-> Turn(s, keep, h, n)]
    BY <2>3
  <2> QED
    BY <2>4
<1>3. Nat \subseteq Ok
  <2> HIDE DEF Ok
  <2> QED
    BY <1>1, <1>2, Induction
<1> QED
  BY <1>3

LEMMA ChosenIsUpto ==
  ASSUME NEW s, NEW keep, Len(s) \in Nat
  PROVE  \E f : /\ f = [n \in 0..Len(s) |-> Turn(s, keep, f, n)]
                /\ Chosen(s, keep) = f[Len(s)]
<1> DEFINE U == CHOOSE f : f = [n \in 0..Len(s) |-> Turn(s, keep, f, n)]
<1>1. U = [n \in 0..Len(s) |-> Turn(s, keep, U, n)]
  BY UptoExists
<1>2. Chosen(s, keep) = U[Len(s)]
  BY DEF Chosen, Turn
<1> QED
  BY <1>1, <1>2

\* c is what a filter makes of the first m pieces of s.
Filtered(c, s, keep, m) ==
    /\ InOrder(c)
    /\ \A i \in 1..Len(c) :
          /\ c[i].from \in keep /\ c[i].from \in 1..m
          /\ c[i] = s[c[i].from]
    /\ \A j \in 1..m : j \in keep => \E i \in 1..Len(c) : c[i] = s[j]

LEMMA FilteredStep ==
  ASSUME NEW S, NEW s \in Seq(S), \A i \in 1..Len(s) : s[i].from = i,
         NEW keep, NEW m \in Nat, m + 1 \in 1..Len(s),
         NEW c \in Seq(S), Filtered(c, s, keep, m)
  PROVE  LET d == IF s[m + 1].from \in keep THEN Append(c, s[m + 1]) ELSE c
         IN  d \in Seq(S) /\ Filtered(d, s, keep, m + 1)
<1> DEFINE p == s[m + 1]
           d == Append(c, p)
<1>1. p \in S /\ p.from = m + 1
  OBVIOUS
<1>2. CASE p.from \in keep
  <2>1. /\ d \in Seq(S) /\ Len(c) \in Nat /\ Len(d) = Len(c) + 1
        /\ \A i \in 1..Len(c) : d[i] = c[i]
        /\ d[Len(d)] = p
        /\ DOMAIN d = 1..Len(d)
        /\ DOMAIN c = 1..Len(c)
    BY <1>1
  <2> HIDE DEF d, p
  <2>2. \A i \in 1..Len(d) : i \in 1..Len(c) \/ i = Len(d)
    BY <2>1
  <2>3. InOrder(d)
    <3> SUFFICES ASSUME NEW i \in 1..Len(d), NEW j \in 1..Len(d), i < j
                 PROVE  d[i].from < d[j].from
      BY <2>1 DEF InOrder
    <3>1. \A a, b \in 1..Len(c) : a < b => c[a].from < c[b].from
      BY <2>1 DEF Filtered, InOrder
    <3>2. i \in 1..Len(c)
      BY <2>1
    <3>3. d[i] = c[i] /\ c[i].from \in 1..m
      BY <2>1, <3>2 DEF Filtered
    <3>4. CASE j = Len(d)
      BY <1>1, <2>1, <3>3, <3>4
    <3>5. CASE j \in 1..Len(c)
      <4>1. d[j] = c[j]
        BY <2>1, <3>5
      <4> QED
        BY <3>1, <3>2, <3>3, <3>5, <4>1
    <3> QED
      BY <2>2, <3>4, <3>5
  <2>4. ASSUME NEW i \in 1..Len(d)
        PROVE  /\ d[i].from \in keep /\ d[i].from \in 1..(m + 1)
               /\ d[i] = s[d[i].from]
    <3>1. CASE i = Len(d)
      BY <1>1, <1>2, <2>1, <3>1 DEF p
    <3>2. CASE i \in 1..Len(c)
      BY <2>1, <3>2 DEF Filtered
    <3> QED
      BY <2>2, <3>1, <3>2
  <2>5. ASSUME NEW j \in 1..(m + 1), j \in keep
        PROVE  \E i \in 1..Len(d) : d[i] = s[j]
    <3>1. CASE j = m + 1
      BY <2>1, <3>1 DEF p
    <3>2. CASE j \in 1..m
      <4>1. PICK i \in 1..Len(c) : c[i] = s[j]
        BY <2>5, <3>2 DEF Filtered
      <4> QED
        BY <2>1, <4>1
    <3> QED
      BY <3>1, <3>2
  <2>6. Filtered(d, s, keep, m + 1)
    BY <2>3, <2>4, <2>5 DEF Filtered
  <2> QED
    BY <1>2, <2>1, <2>6 DEF d, p
<1>3. CASE p.from \notin keep
  <2>1. \A j \in 1..(m + 1) : j \in keep => j \in 1..m
    BY <1>1, <1>3
  <2>2. \A i \in 1..m : i \in 1..(m + 1)
    OBVIOUS
  <2> HIDE DEF p
  <2>3. Filtered(c, s, keep, m + 1)
    BY <2>1, <2>2 DEF Filtered
  <2> QED
    BY <1>3, <2>3 DEF p
<1> QED
  BY <1>2, <1>3

LEMMA ChosenIsFiltered ==
  ASSUME NEW S, NEW s \in Seq(S), \A i \in 1..Len(s) : s[i].from = i,
         NEW keep
  PROVE  /\ Chosen(s, keep) \in Seq(S)
         /\ Filtered(Chosen(s, keep), s, keep, Len(s))
<1>1. PICK f : /\ f = [n \in 0..Len(s) |-> Turn(s, keep, f, n)]
               /\ Chosen(s, keep) = f[Len(s)]
  <2>1. Len(s) \in Nat
    OBVIOUS
  <2> QED
    BY <2>1, ChosenIsUpto
<1> DEFINE Good(m) == f[m] \in Seq(S) /\ Filtered(f[m], s, keep, m)
           Ok == {m \in Nat : m \in 0..Len(s) => Good(m)}
<1>2. 0 \in Ok
  <2>1. f[0] = <<>>
    BY <1>1 DEF Turn
  <2>2. Filtered(<<>>, s, keep, 0)
    BY DEF Filtered, InOrder
  <2>3. Good(0)
    BY <2>1, <2>2
  <2> QED
    BY <2>3
<1>3. ASSUME NEW m \in Nat, m \in Ok PROVE m + 1 \in Ok
  <2> SUFFICES ASSUME m + 1 \in 0..Len(s) PROVE Good(m + 1)
    OBVIOUS
  <2>1. Good(m)
    BY <1>3
  <2>2. f[m + 1] = IF s[m + 1].from \in keep THEN Append(f[m], s[m + 1])
                   ELSE f[m]
    <3>1. f[m + 1] = Turn(s, keep, f, m + 1)
      BY <1>1
    <3>2. m + 1 # 0 /\ (m + 1) - 1 = m
      OBVIOUS
    <3> QED
      BY <3>1, <3>2 DEF Turn
  <2>3. m + 1 \in 1..Len(s)
    OBVIOUS
  <2> QED
    BY <2>1, <2>2, <2>3, FilteredStep
<1>4. Nat \subseteq Ok
  <2> HIDE DEF Ok
  <2> QED
    BY <1>2, <1>3, Induction
<1>5. Good(Len(s))
  BY <1>4
<1> QED
  BY <1>1, <1>5

\* Every piece says who speaks, as far as a user or the system is concerned.
\* What SpeakersKept says of one piece.
Told(as, m) ==
    IF engine = "openai_compat_http"
    THEN IF m.role = "hemisphere" THEN as[1] = "assistant" ELSE as[1] = m.role
    ELSE /\ as[1] = m.role
         /\ m.role = "hemisphere" => as[2] = m.name

LEMMA SpeakerIsKept == ASSUME NEW m PROVE Told(Speaker(engine, m), m)
<1>1. CASE engine = "openai_compat_http"
  <2>1. Speaker(engine, m)[1] = IF m.role = "hemisphere" THEN "assistant"
                                ELSE m.role
    BY <1>1 DEF Speaker, OpenAiRole
  <2> QED
    BY <1>1, <2>1 DEF Told
<1>2. CASE engine # "openai_compat_http"
  <2>1. /\ Speaker(engine, m)[1] = m.role
        /\ m.role = "hemisphere" => Speaker(engine, m)[2] = m.name
    BY <1>2 DEF Speaker, Label
  <2> QED
    BY <1>2, <2>1 DEF Told
<1> QED
  BY <1>1, <1>2

LEMMA ToldIsKept ==
  ASSUME NEW seq, \A i \in DOMAIN seq : Told(seq[i].as, messages[seq[i].from])
  PROVE  SpeakersKept(seq)
  BY DEF Told, SpeakersKept

LEMMA PiecesInOrder ==
  ASSUME NEW eng, NEW msgs \in Seq(Message)
  PROVE  \E S : /\ Pieces(eng, msgs) \in Seq(S)
                /\ Len(Pieces(eng, msgs)) = Len(msgs)
                /\ \A i \in 1..Len(msgs) :
                      /\ Pieces(eng, msgs)[i].from = i
                      /\ Pieces(eng, msgs)[i].as = Speaker(eng, msgs[i])
<1> DEFINE s == Pieces(eng, msgs)
           S == {s[i] : i \in 1..Len(msgs)}
<1>1. DOMAIN msgs = 1..Len(msgs) /\ Len(msgs) \in Nat
  OBVIOUS
<1>2. s = [i \in 1..Len(msgs) |-> [from |-> i, as |-> Speaker(eng, msgs[i])]]
  BY <1>1 DEF Pieces
<1>3. /\ DOMAIN s = 1..Len(msgs)
      /\ s = [i \in 1..Len(msgs) |-> s[i]]
      /\ \A i \in 1..Len(msgs) : s[i].from = i /\ s[i].as = Speaker(eng, msgs[i])
  BY <1>2
<1> HIDE DEF s
<1>4. s \in [1..Len(msgs) -> S]
  BY <1>3
<1>5. s \in Seq(S) /\ Len(s) = Len(msgs)
  <2> HIDE DEF S
  <2> QED
    BY <1>1, <1>3, <1>4
<1>6. /\ s \in Seq(S)
      /\ Len(s) = Len(msgs)
      /\ \A i \in 1..Len(msgs) : s[i].from = i /\ s[i].as = Speaker(eng, msgs[i])
  BY <1>3, <1>5
<1> QED
  BY <1>6 DEF s

\* What a filter makes of the messages: each of the chosen ones once, in
\* order and as its own.
LEMMA ChosenArrive ==
  ASSUME messages \in Seq(Message), NEW keep
  PROVE  LET c == Chosen(Pieces(engine, messages), keep)
         IN  /\ InOrder(c) /\ SpeakersKept(c)
             /\ Froms(c) = {i \in DOMAIN messages : i \in keep}
<1> DEFINE s == Pieces(engine, messages)
           c == Chosen(s, keep)
<1>1. PICK S : /\ s \in Seq(S)
               /\ Len(s) = Len(messages)
               /\ \A i \in 1..Len(messages) :
                     s[i].from = i /\ s[i].as = Speaker(engine, messages[i])
  BY PiecesInOrder
<1> HIDE DEF s
<1>2. c \in Seq(S) /\ Filtered(c, s, keep, Len(messages))
  BY <1>1, ChosenIsFiltered
<1> HIDE DEF c
<1>3. DOMAIN c = 1..Len(c) /\ DOMAIN messages = 1..Len(messages)
  BY <1>2
<1>4. InOrder(c)
  BY <1>2 DEF Filtered
<1>5. ASSUME NEW i \in DOMAIN c
      PROVE  Told(c[i].as, messages[c[i].from])
  <2>1. c[i].from \in 1..Len(messages) /\ c[i] = s[c[i].from]
    BY <1>2, <1>3 DEF Filtered
  <2>2. c[i].as = Speaker(engine, messages[c[i].from])
    BY <1>1, <2>1
  <2> QED
    BY <2>2, SpeakerIsKept
<1>6. ASSUME NEW j \in DOMAIN messages, j \in keep PROVE j \in Froms(c)
  <2>1. PICK i \in 1..Len(c) : c[i] = s[j]
    BY <1>2, <1>3, <1>6 DEF Filtered
  <2>2. c[i].from = j
    BY <1>1, <1>3, <2>1
  <2> QED
    BY <1>3, <2>2 DEF Froms
<1>7. ASSUME NEW j \in Froms(c) PROVE j \in DOMAIN messages /\ j \in keep
  BY <1>2, <1>3 DEF Froms, Filtered
<1>8. InOrder(c) /\ SpeakersKept(c) /\ Froms(c) = {i \in DOMAIN messages : i \in keep}
  BY <1>4, <1>5, <1>6, <1>7, ToldIsKept
<1> QED
  BY <1>8 DEF c, s

LEMMA AllArrive ==
  ASSUME messages \in Seq(Message)
  PROVE  LET c == Pieces(engine, messages)
         IN  InOrder(c) /\ SpeakersKept(c) /\ Froms(c) = DOMAIN messages
<1> DEFINE s == Pieces(engine, messages)
<1>1. PICK S : /\ s \in Seq(S)
               /\ Len(s) = Len(messages)
               /\ \A i \in 1..Len(messages) :
                     s[i].from = i /\ s[i].as = Speaker(engine, messages[i])
  BY PiecesInOrder
<1> HIDE DEF s
<1>2. DOMAIN s = 1..Len(messages) /\ DOMAIN messages = 1..Len(messages)
  BY <1>1
<1>3. InOrder(s) /\ Froms(s) = DOMAIN messages
  BY <1>1, <1>2 DEF InOrder, Froms
<1>4. ASSUME NEW i \in DOMAIN s
      PROVE  Told(s[i].as, messages[s[i].from])
  <2>1. s[i].from = i /\ s[i].as = Speaker(engine, messages[i])
    BY <1>1, <1>2
  <2> QED
    BY <2>1, SpeakerIsKept
<1>5. SpeakersKept(s)
  BY <1>4, ToldIsKept
<1> QED
  BY <1>3, <1>5 DEF s

\* What a prompt has to say of the conversation.
Arrives(prompt) ==
    /\ InOrder(prompt.system) /\ InOrder(prompt.turns)
    /\ SpeakersKept(prompt.system) /\ SpeakersKept(prompt.turns)
    /\ Froms(prompt.turns) = IF engine = "claude_code_cli"
                             THEN DOMAIN messages \ SystemOnes
                             ELSE DOMAIN messages
    /\ Froms(prompt.system) =
           IF engine = "claude_code_cli"
              /\ \E i \in SystemOnes : ~messages[i].blank
           THEN SystemOnes ELSE {}

LEMMA EmptyArrives == /\ InOrder(<<>>) /\ SpeakersKept(<<>>)
                      /\ Froms(<<>>) = {}
  BY DEF InOrder, SpeakersKept, Froms

LEMMA SystemOnesAreMessages == SystemOnes \subseteq DOMAIN messages
  BY DEF SystemOnes

LEMMA PromptArrives ==
  ASSUME messages \in Seq(Message)
  PROVE  Arrives(Prompt(engine, messages))
<1> DEFINE s == Pieces(engine, messages)
           systemOnes == By({"system"}, messages)
           others == By(Roles \ {"system"}, messages)
           allBlank == \A i \in systemOnes : messages[i].blank
<1>1. CASE engine # "claude_code_cli"
  <2>1. /\ Prompt(engine, messages).system = <<>>
        /\ Prompt(engine, messages).turns = s
    BY <1>1 DEF Prompt
  <2> HIDE DEF s
  <2>2. InOrder(s) /\ SpeakersKept(s) /\ Froms(s) = DOMAIN messages
    BY AllArrive DEF s
  <2> QED
    BY <1>1, <2>1, <2>2, EmptyArrives DEF Arrives
<1>2. CASE engine = "claude_code_cli"
  <2> DEFINE c == IF allBlank THEN <<>> ELSE Chosen(s, systemOnes)
             d == Chosen(s, others)
  <2>1. /\ Prompt(engine, messages).system = c
        /\ Prompt(engine, messages).turns = d
    BY <1>2 DEF Prompt
  <2>2. \A i \in DOMAIN messages : messages[i].role \in Roles
    <3>1. \A i \in DOMAIN messages : messages[i] \in Message
      OBVIOUS
    <3> QED
      BY <3>1 DEF Message
  <2>3. /\ systemOnes = SystemOnes
        /\ others = DOMAIN messages \ systemOnes
    BY <2>2 DEF By, SystemOnes
  <2> HIDE DEF s, systemOnes, others
  <2>4. /\ InOrder(d) /\ SpeakersKept(d)
        /\ Froms(d) = {i \in DOMAIN messages : i \in others}
    BY ChosenArrive DEF s
  <2>5. /\ InOrder(Chosen(s, systemOnes)) /\ SpeakersKept(Chosen(s, systemOnes))
        /\ Froms(Chosen(s, systemOnes)) =
              {i \in DOMAIN messages : i \in systemOnes}
    BY ChosenArrive DEF s
  <2> HIDE DEF d
  <2>6. CASE allBlank
    <3>1. c = <<>>
      BY <2>6
    <3> QED
      BY <1>2, <2>1, <2>3, <2>4, <2>6, <3>1, EmptyArrives DEF Arrives
  <2>7. CASE ~allBlank
    <3>1. c = Chosen(s, systemOnes)
      BY <2>7
    <3> HIDE DEF c
    <3> QED
      BY <1>2, <2>1, <2>3, <2>4, <2>5, <2>7, <3>1, SystemOnesAreMessages
      DEF Arrives
  <2> QED
    BY <2>6, <2>7
<1> QED
  BY <1>1, <1>2

\* For every conversation and engine: what the backend is sent are the messages
\* it is to be sent, each once and in its speaker's name, in the order they
\* came in (with Claude Code the system's and the others' each in theirs).
THEOREM ConversationCorrect == Spec => []ConversationArrives
<1>1. Init => ConversationArrives
  BY DEF Init, ConversationArrives
<1>2. TypeOK /\ ConversationArrives /\ [Next]_vars => ConversationArrives'
  <2> SUFFICES ASSUME TypeOK, ConversationArrives, [Next]_vars
               PROVE  ConversationArrives'
    OBVIOUS
  <2>1. ConversationArrives <=> (place # "asking" => Arrives(sent))
    BY DEF ConversationArrives, Arrives
  <2>2. ConversationArrives' <=> (place' # "asking" => Arrives(sent)')
    BY DEF ConversationArrives, Arrives
  <2>3. messages' = messages /\ engine' = engine
    BY DEF Next, vars, Send, NoAnswer, ReceiveEnvelope, ReceiveCompletion,
           ReceiveStream, ReadLine, ReadGarbled, FinishStream
  <2>4. CASE Send
    <3>1. Arrives(Prompt(engine, messages))
      BY PromptArrives DEF TypeOK
    <3> QED
      BY <2>2, <2>3, <2>4, <3>1 DEF Send, Arrives, SpeakersKept, SystemOnes
  <2>5. CASE ~Send
    <3>1. UNCHANGED sent /\ (place = "asking" <=> place' = "asking")
      BY <2>5 DEF Next, vars, NoAnswer, ReceiveEnvelope, ReceiveCompletion,
           ReceiveStream, ReadLine, ReadGarbled, FinishStream, Reply
    <3> QED
      BY <2>1, <2>2, <2>3, <3>1 DEF Arrives, SpeakersKept, SystemOnes
  <2> QED
    BY <2>4, <2>5
<1> QED
  BY <1>1, <1>2, TypeCorrect, PTL DEF Spec
=============================================================================
