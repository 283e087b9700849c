------------------------------- MODULE Generate -----------------------------
(***************************************************************************)
(* One generate() of an adapter, asked for by POST /v1/generate or by      *)
(* POST /v1/config/test: the conversation is put into the form the backend *)
(* takes, and what comes back is judged and answered.  The call in between *)
(* is RunCli's and HttpCall's subject.                                     *)
(*                                                                         *)
(* Backends are programs and services of others, so an answer may have any *)
(* shape.  Text is abstracted to where it comes from: a message of the     *)
(* conversation by its position, a part of the answer by its line.         *)
(***************************************************************************)
EXTENDS Integers, Sequences

CONSTANTS
    Conversations,  \* what callers send, sequences of messages
    Streams         \* what codex may print, sequences of lines

Roles == {"system", "user", "assistant", "hemisphere"}

\* driverName, "" if it is not set; two names stand for all.
Names == {"", "left", "right"}

\* blank: the content is empty or white space.
Message == [role : Roles, name : Names, blank : BOOLEAN]

\* A line of codex's JSONL.  "noise" is blank, no JSON or no object, "garbled"
\* no UTF-8; "turn..." are turn.completed with counts, without them (or all
\* zero), and with something that is no usage; "event" is any other object.
Turns == {"turn", "turnEmpty", "turnWrong"}
Line == {"noise", "garbled", "event", "message"} \union Turns

ASSUME ConversationsAssumption == Conversations \subseteq Seq(Message)
ASSUME StreamsAssumption == Streams \subseteq Seq(Line)

Engines == {"claude_code_cli", "codex_cli", "openai_compat_http"}

\* The "Reply with exactly: PING" of config/test.
Ping == <<[role |-> "user", name |-> "", blank |-> FALSE]>>

-----------------------------------------------------------------------------
(***************************************************************************)
(* What the backend is sent: a piece for each message, with its speaker.   *)
(***************************************************************************)
\* messages_to_prompt's label.
Label(m) == <<m.role, IF m.role = "hemisphere" THEN m.name ELSE "">>

\* _to_openai_messages' role.
OpenAiRole(m) ==
    <<IF m.role = "hemisphere" THEN "assistant" ELSE m.role, "">>

Speaker(engine, m) ==
    IF engine = "openai_compat_http" THEN OpenAiRole(m) ELSE Label(m)

Pieces(engine, messages) ==
    [i \in DOMAIN messages |->
        [from |-> i, as |-> Speaker(engine, messages[i])]]

\* [m for m in messages if ...]: the pieces of the messages in `keep`.
Chosen(pieces, keep) ==
    LET Upto[n \in 0..Len(pieces)] ==
            IF n = 0 THEN <<>>
            ELSE IF pieces[n].from \in keep THEN Append(Upto[n - 1], pieces[n])
            ELSE Upto[n - 1]
    IN  Upto[Len(pieces)]

By(roles, messages) == {i \in DOMAIN messages : messages[i].role \in roles}

\* A fault: only what users and assistants say goes into the prompt.
PromptOfTwoRoles(engine, messages) ==
    LET allPieces == Pieces(engine, messages)
    IN  [system |-> Chosen(allPieces, By({"system"}, messages)),
         turns  |-> Chosen(allPieces, By({"user", "assistant"}, messages))]

\* Claude Code takes the system messages apart, and none if all are blank;
\* Codex has one transcript; the HTTP API has messages of its own.
Prompt(engine, messages) ==
    LET allPieces  == Pieces(engine, messages)
        systemOnes == By({"system"}, messages)
        allBlank   == \A i \in systemOnes : messages[i].blank
    IN  IF engine = "claude_code_cli"
        THEN [system |-> IF allBlank THEN <<>> ELSE Chosen(allPieces, systemOnes),
              turns  |-> Chosen(allPieces, By(Roles \ {"system"}, messages))]
        ELSE [system |-> <<>>, turns |-> allPieces]

-----------------------------------------------------------------------------
(***************************************************************************)
(* What comes back.                                                        *)
(***************************************************************************)
Shape == {"absent", "proper", "wrong"}
Body == {"garbled", "text", "scalar", "object"}

ClaudeAnswer == [exit : {0, 1}, body : Body, isError : BOOLEAN,
                 result : Shape, usage : Shape]

HttpAnswer == [status : {"ok", "error"}, body : Body, choices : Shape,
               first : Shape, message : Shape, content : Shape, usage : Shape]

CodexAnswer == [exit : {0, 1}, lines : Streams]

\* How generate() ends: "content", "cliError", or "escaped" with an exception
\* of another type.  Checks are made in order, the first that hits decides.
Judged(checks) ==
    IF \E i \in DOMAIN checks : checks[i][1]
    THEN checks[CHOOSE i \in DOMAIN checks :
                   checks[i][1] /\ \A j \in 1..(i - 1) : ~checks[j][1]][2]
    ELSE "content"

\* A fault: is_error is looked at only if there is no result.
JudgeClaudeResultFirst(a) ==
    Judged(<< <<a.exit # 0, "cliError">>,
              <<a.body = "garbled", "escaped">>,
              <<a.body # "object", "cliError">>,
              <<a.result # "proper", "cliError">>,
              <<a.usage = "wrong", "escaped">> >>)

\* json.loads raises UnicodeDecodeError on bytes that are no UTF-8, which is
\* no JSONDecodeError; a usage that is no dict has no get().
JudgeClaude(a) ==
    Judged(<< <<a.exit # 0, "cliError">>,
              <<a.body = "garbled", "escaped">>,
              <<a.body # "object", "cliError">>,
              <<a.isError, "cliError">>,
              <<a.result # "proper", "cliError">>,
              <<a.usage = "wrong", "escaped">> >>)

\* A fault: choices[0] is taken without looking whether there is one.
JudgeHttpBlindly(a) ==
    Judged(<< <<a.status = "error", "cliError">>,
              <<a.body \in {"garbled", "text"}, "cliError">>,
              <<a.body = "scalar" \/ a.choices # "proper", "escaped">>,
              <<a.first = "wrong", "escaped">>,
              <<a.first = "proper" /\ a.message = "wrong", "escaped">>,
              <<~(a.first = "proper" /\ a.message = "proper"
                    /\ a.content = "proper"), "cliError">>,
              <<a.usage = "wrong", "escaped">> >>)

\* response.json() raises ValueError on both kinds of bad bytes.  A falsy
\* first choice or message is taken for an empty one.
JudgeHttp(a) ==
    Judged(<< <<a.status = "error", "cliError">>,
              <<a.body \in {"garbled", "text"}, "cliError">>,
              <<a.body = "scalar", "escaped">>,
              <<a.choices = "absent", "cliError">>,
              <<a.choices = "wrong", "escaped">>,
              <<a.first = "wrong", "escaped">>,
              <<a.first = "proper" /\ a.message = "wrong", "escaped">>,
              <<~(a.first = "proper" /\ a.message = "proper"
                    /\ a.content = "proper"), "cliError">>,
              <<a.usage = "wrong", "escaped">> >>)

-----------------------------------------------------------------------------
VARIABLES
    asker,       \* the endpoint, "generate" or "test"
    engine,      \* the class of the engine
    messages,    \* request.messages
    place,       \* how far the call is
    sent,        \* what the backend was sent
    answer,      \* what came back
    line,        \* lines of codex's stdout that were read
    text_parts,  \* as in codex_cli.py, by line numbers
    saw_any_event,
    usage_event, \* the last turn.completed, "none" before
    reply        \* of the endpoint

loop == <<line, text_parts, saw_any_event, usage_event>>

vars == <<asker, engine, messages, place, sent, answer, loop, reply>>

NotYet == [kind |-> "none"]
Unsent == [system |-> <<>>, turns |-> <<>>]
NoReply == [status |-> 0, ok |-> FALSE, parts |-> <<>>, usage |-> FALSE]

TypeOK ==
    /\ asker \in {"generate", "test"}
    /\ engine \in Engines
    /\ messages \in Seq(Message)
    /\ place \in {"asking", "waiting", "reading", "replied"}
    /\ answer \in {NotYet} \union ClaudeAnswer \union HttpAnswer
                  \union CodexAnswer
    /\ place = "reading" => engine = "codex_cli" /\ answer \in CodexAnswer
    /\ line \in Nat
    /\ text_parts \in Seq(Nat)
    /\ saw_any_event \in BOOLEAN
    /\ usage_event \in {"none"} \union Turns
    /\ reply \in [status : {0, 200, 500, 502}, ok : BOOLEAN,
                  parts : Seq(Nat), usage : BOOLEAN]

Init ==
    /\ \/ asker = "generate" /\ messages \in Conversations
       \/ asker = "test" /\ messages = Ping
    /\ engine \in Engines
    /\ place = "asking"
    /\ sent = Unsent
    /\ answer = NotYet
    /\ line = 0
    /\ text_parts = <<>>
    /\ saw_any_event = FALSE
    /\ usage_event = "none"
    /\ reply = NoReply

-----------------------------------------------------------------------------
Send ==
    /\ place = "asking"
    /\ place' = "waiting"
    /\ sent' = Prompt(engine, messages)
    /\ UNCHANGED <<asker, engine, messages, answer, loop, reply>>

\* generate: the content, a 502 Problem for a CliError, a plain 500 for the
\* rest.  test_config catches every exception and always answers 200.
Reply(outcome, parts, usage) ==
    /\ place' = "replied"
    /\ reply' = [status |-> IF asker = "test" \/ outcome = "content" THEN 200
                           ELSE IF outcome = "cliError" THEN 502
                           ELSE 500,
                 ok     |-> outcome = "content",
                 parts  |-> IF outcome = "content" THEN parts ELSE <<>>,
                 usage  |-> outcome = "content" /\ usage]

\* No answer: run_cli or the HTTP client raised.
NoAnswer ==
    /\ place = "waiting"
    /\ \E outcome \in {"cliError", "escaped"} : Reply(outcome, <<>>, FALSE)
    /\ UNCHANGED <<asker, engine, messages, sent, answer, loop>>

ReceiveEnvelope ==
    /\ place = "waiting"
    /\ engine = "claude_code_cli"
    /\ answer' \in ClaudeAnswer
    /\ Reply(JudgeClaude(answer'), <<1>>, answer'.usage = "proper")
    /\ UNCHANGED <<asker, engine, messages, sent, loop>>

ReceiveCompletion ==
    /\ place = "waiting"
    /\ engine = "openai_compat_http"
    /\ answer' \in HttpAnswer
    /\ Reply(JudgeHttp(answer'), <<1>>, answer'.usage = "proper")
    /\ UNCHANGED <<asker, engine, messages, sent, loop>>

\* codex: the exit code first, then the lines.
ReceiveStream ==
    /\ place = "waiting"
    /\ engine = "codex_cli"
    /\ answer' \in CodexAnswer
    /\ IF answer'.exit # 0
       THEN Reply("cliError", <<>>, FALSE)
       ELSE place' = "reading" /\ UNCHANGED reply
    /\ UNCHANGED <<asker, engine, messages, sent, loop>>

Current == answer.lines[line + 1]

\* A fault: a line that is no event ends the loop.
ReadLineUntilNoise ==
    /\ place = "reading"
    /\ line < Len(answer.lines)
    /\ Current # "garbled"
    /\ line' = IF Current = "noise" THEN Len(answer.lines) ELSE line + 1
    /\ text_parts' = IF Current = "message" THEN Append(text_parts, line')
                     ELSE text_parts
    /\ saw_any_event' = (saw_any_event \/ Current # "noise")
    /\ usage_event' = IF Current \in Turns THEN Current ELSE usage_event
    /\ UNCHANGED <<asker, engine, messages, place, sent, answer, reply>>

\* A fault: every event's usage is taken, not only that of turn.completed.
ReadLineAnyUsage ==
    /\ place = "reading"
    /\ line < Len(answer.lines)
    /\ Current # "garbled"
    /\ line' = line + 1
    /\ text_parts' = IF Current = "message" THEN Append(text_parts, line')
                     ELSE text_parts
    /\ saw_any_event' = (saw_any_event \/ Current # "noise")
    /\ usage_event' = IF Current # "noise" THEN Current ELSE usage_event
    /\ UNCHANGED <<asker, engine, messages, place, sent, answer, reply>>

\* One turn of the loop over stdout.splitlines().
ReadLine ==
    /\ place = "reading"
    /\ line < Len(answer.lines)
    /\ Current # "garbled"
    /\ line' = line + 1
    /\ text_parts' = IF Current = "message" THEN Append(text_parts, line')
                     ELSE text_parts
    /\ saw_any_event' = (saw_any_event \/ Current # "noise")
    /\ usage_event' = IF Current \in Turns THEN Current ELSE usage_event
    /\ UNCHANGED <<asker, engine, messages, place, sent, answer, reply>>

\* The line is no UTF-8: json.loads raises what the loop does not catch.
ReadGarbled ==
    /\ place = "reading"
    /\ line < Len(answer.lines)
    /\ Current = "garbled"
    /\ Reply("escaped", <<>>, FALSE)
    /\ UNCHANGED <<asker, engine, messages, sent, answer, loop>>

\* After the last line.
FinishStream ==
    /\ place = "reading"
    /\ line = Len(answer.lines)
    /\ Reply(Judged(<< <<~saw_any_event, "cliError">>,
                       <<text_parts = <<>>, "cliError">>,
                       <<usage_event = "turnWrong", "escaped">> >>),
             text_parts, usage_event = "turn")
    /\ UNCHANGED <<asker, engine, messages, sent, answer, loop>>

Next ==
    \/ Send
    \/ NoAnswer
    \/ ReceiveEnvelope
    \/ ReceiveCompletion
    \/ ReceiveStream
    \/ ReadLine
    \/ ReadGarbled
    \/ FinishStream

Spec == Init /\ [][Next]_vars

-----------------------------------------------------------------------------
(***************************************************************************)
(* Properties.                                                             *)
(***************************************************************************)
InOrder(seq) ==
    \A i, j \in DOMAIN seq : i < j => seq[i].from < seq[j].from

Froms(seq) == {seq[i].from : i \in DOMAIN seq}

\* Each piece names the role that said it, and a CLI is told which hemisphere.
\* The HTTP API has no hemispheres: there they all speak as the assistant.
SpeakersKept(seq) ==
    \A i \in DOMAIN seq :
        LET m == messages[seq[i].from]
        IN  IF engine = "openai_compat_http"
            THEN IF m.role = "hemisphere" THEN seq[i].as[1] = "assistant"
                 ELSE seq[i].as[1] = m.role
            ELSE /\ seq[i].as[1] = m.role
                 /\ m.role = "hemisphere" => seq[i].as[2] = m.name

SystemOnes == {i \in DOMAIN messages : messages[i].role = "system"}

\* Codex and the HTTP backends are sent every message once and in its place.
\* Claude Code is sent every message but the system's once, in their order,
\* and the system's apart, in theirs, or none of them if all are blank; how
\* the two lay between each other it is not told.
ConversationArrives ==
    place # "asking" =>
        /\ InOrder(sent.system) /\ InOrder(sent.turns)
        /\ SpeakersKept(sent.system) /\ SpeakersKept(sent.turns)
        /\ Froms(sent.turns) = IF engine = "claude_code_cli"
                               THEN DOMAIN messages \ SystemOnes
                               ELSE DOMAIN messages
        /\ Froms(sent.system) =
               IF engine = "claude_code_cli"
                  /\ \E i \in SystemOnes : ~messages[i].blank
               THEN SystemOnes ELSE {}

\* What the backend itself calls a failure.
BackendFailed ==
    \/ engine = "claude_code_cli" /\ answer \in ClaudeAnswer
         /\ (answer.exit # 0 \/ (answer.body = "object" /\ answer.isError))
    \/ engine = "openai_compat_http" /\ answer \in HttpAnswer
         /\ answer.status = "error"
    \/ engine = "codex_cli" /\ answer \in CodexAnswer /\ answer.exit # 0

\* A failure the backend reports never passes for an answer, and is always
\* told as one of the backend, however much text came with it or how broken
\* it is: 502, or ok = false in a configuration test.
FailuresAreReported ==
    place = "replied" /\ BackendFailed =>
        ~reply.ok /\ reply.status = IF asker = "test" THEN 200 ELSE 502

\* An answer in which nothing has a type it must not have.
WellShaped ==
    CASE engine = "claude_code_cli" ->
           answer.body # "garbled" /\ answer.usage # "wrong"
      [] engine = "codex_cli" ->
           \A i \in DOMAIN answer.lines :
               answer.lines[i] \notin {"garbled", "turnWrong"}
      [] OTHER ->
           /\ answer.body # "scalar"
           /\ "wrong" \notin {answer.choices, answer.first, answer.message,
                              answer.usage}

\* Whatever a backend leaves out of an answer that is otherwise well shaped
\* (usage, choices, content, every line), the endpoint answers with content
\* or with a 502, never with an exception.
GapsDoNotEscape ==
    place = "replied" /\ answer # NotYet /\ WellShaped =>
        reply.status \in {200, 502}

MessageLines(lines, n) == {i \in 1..n : lines[i] = "message"}

Increasing(seq) == \A i, j \in DOMAIN seq : i < j => seq[i] < seq[j]

Parts(seq) == {seq[i] : i \in DOMAIN seq}

LastTurn(lines, n) ==
    IF \E i \in 1..n : lines[i] \in Turns
    THEN lines[CHOOSE i \in 1..n :
                   /\ lines[i] \in Turns
                   /\ \A j \in (i + 1)..n : lines[j] \notin Turns]
    ELSE "none"

\* The loop, after `line` lines.
CodexInv ==
    place = "reading" =>
        /\ answer.exit = 0
        /\ line \in 0..Len(answer.lines)
        /\ \A i \in 1..line : answer.lines[i] # "garbled"
        /\ Increasing(text_parts) /\ Parts(text_parts) = MessageLines(answer.lines, line)
        /\ saw_any_event <=> \E i \in 1..line : answer.lines[i] # "noise"
        /\ usage_event = LastTurn(answer.lines, line)

\* codex_cli.py:17-18 "We collect every `item.completed` whose `item.type ==
\* "agent_message"` for text content, and pull the final `usage`": what codex
\* printed between the messages does not matter.
CodexAnswerIsWhole ==
    place = "replied" /\ engine = "codex_cli" /\ reply.ok =>
        LET n == Len(answer.lines)
        IN  /\ Increasing(reply.parts)
            /\ Parts(reply.parts) = MessageLines(answer.lines, n)
            /\ reply.parts # <<>>
            /\ reply.usage <=> LastTurn(answer.lines, n) = "turn"

\* models.py:147-149, of Problem: "Every Eugene Plexus component returns this
\* for 4xx / 5xx responses"; a plain 500 has no Problem in it.  Said here of
\* the answers that a backend gives, however malformed.
ErrorsAreProblems == answer # NotYet => reply.status # 500
=============================================================================
