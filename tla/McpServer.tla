----------------------------- MODULE McpServer -----------------------------
(***************************************************************************)
(* The server of src/src/reposeal/mcp.py: one line in, at most one line    *)
(* out, until standard input ends.  Its client is external; it may send    *)
(* requests without waiting for their answers, send lines that are no      *)
(* request at all, close either pipe, and both pipes have a limit.         *)
(*                                                                         *)
(* A line is the record of what main and handle_message look at; the       *)
(* client numbers its requests, so their ids tell them apart.              *)
(***************************************************************************)
EXTENDS Naturals, Sequences, FiniteSets

CONSTANTS
    Lines,      \* the lines a client may send
    MaxLength,  \* MAX_MESSAGE_BYTES, in units, the line feed included
    PipeSize,   \* lines a pipe holds
    MaxSent,    \* bound: lines the client sends
    Nothing,    \* no line, no response
    Null, NaN   \* a response's id when it is not a request's number

Texts == {"blank", "no JSON", "long integer", "JSON"}
Methods == {"initialize", "ping", "tools/list", "tools/call", "unknown",
            "notification", "none"}
\* id: absent, a number of the client's, null, or the NaN json.loads accepts.
LineType == [text : Texts, length : Nat, version : BOOLEAN, method : Methods,
             id : {"absent", "number", "null", "NaN"}, params : {"object", "other"},
             call : BOOLEAN]

ASSUME McpConstants ==
    /\ Lines \subseteq LineType
    /\ MaxLength \in Nat /\ PipeSize \in Nat \ {0} /\ MaxSent \in Nat

ASSUME NullIsNoNumber == Null # NaN /\ {Null, NaN, Nothing} \cap Nat = {}

VARIABLES
    pc,         \* "reading", "handling", "writing", "ended"
    line,       \* the line being handled and its number
    response,   \* the response to be written
    status,     \* the exit status
    input,      \* the pipe to the server
    closed,     \* has the client closed it?
    output,     \* the pipe from the server
    hungUp,     \* has the client closed that one?
    sent,       \* history: the lines sent
    consumed,   \* history: how many of them the server has read
    answers     \* history: the responses written

server == <<pc, line, response, status>>
pipes == <<input, closed, output, hungUp>>
vars == <<server, pipes, sent, consumed, answers>>

Ids == {Null, NaN} \cup (1 .. MaxSent)
Whats == {"result", "tool error", "invalid request", "method not found",
          "invalid params", "parse error", "too long"}
Responses == [id : Ids, what : Whats]

ASSUME NothingIsNoResponse == Nothing \notin Responses

Init ==
    /\ pc = "reading" /\ line = Nothing /\ response = Nothing /\ status = Nothing
    /\ input = <<>> /\ closed = FALSE /\ output = <<>> /\ hungUp = FALSE
    /\ sent = <<>> /\ consumed = 0 /\ answers = <<>>

(***************************************************************************)
(* handle_message                                                          *)
(***************************************************************************)
\* message.get("id"): the id of line n, None when it has none.
IdOf(l, n) == CASE l.id = "number" -> n [] l.id = "NaN" -> NaN [] OTHER -> Null

\* What the message is answered with if it is answered: an error before the
\* method is called, or its result. A tool call that raises is a result too.
Outcomes(l) ==
    CASE ~l.version \/ l.method = "none" -> {"invalid request"}
      [] l.params = "other" -> {"invalid params"}
      [] l.method = "unknown" -> {"method not found"}
      [] l.method = "tools/call" ->
            IF l.call THEN {"result", "tool error"} ELSE {"invalid params"}
      [] OTHER -> {"result"}

\* Mutant of IsSilent: every message is answered.
NeverSilent(l) == FALSE

\* Notifications, and requests without id that fail in no way, go unanswered.
IsSilent(l) ==
    /\ l.version
    /\ \/ l.method = "notification"
       \/ l.id = "absent" /\ Outcomes(l) \subseteq {"result", "tool error"}

\* Mutant of Handled: an error is answered without the id of its request.
AnonymousErrors(l, n) ==
    IF IsSilent(l) THEN {Nothing}
    ELSE {[id |-> IF what = "result" THEN IdOf(l, n) ELSE Null, what |-> what] :
             what \in Outcomes(l)}

\* Mutant of Handled: the exception of a tool is caught and forgotten.
ForgetsToolErrors(l, n) ==
    IF IsSilent(l) THEN {Nothing}
    ELSE {IF what = "tool error" THEN Nothing ELSE [id |-> IdOf(l, n), what |-> what] :
             what \in Outcomes(l)}

Handled(l, n) ==
    IF IsSilent(l) THEN {Nothing}
    ELSE [id : {IF l.version THEN IdOf(l, n) ELSE Null}, what : Outcomes(l)]

(***************************************************************************)
(* main                                                                    *)
(***************************************************************************)
Goto(stage) == pc' = stage /\ UNCHANGED status
Exit(code) == pc' = "ended" /\ status' = code
Current == sent[line]

\* Mutant of TooLong: the line feed is not counted.
LongByOne(l) == l.length > MaxLength + 1

\* readline(MAX_MESSAGE_BYTES + 1) returns more than MAX_MESSAGE_BYTES.
TooLong(l) == l.length > MaxLength

ReadLine ==
    /\ pc = "reading"
    /\ \/ /\ input # <<>>
          /\ input' = Tail(input) /\ line' = Head(input)
          /\ consumed' = consumed + 1
          /\ IF TooLong(sent[line'])
               THEN /\ Goto("writing")
                    /\ response' = [id |-> Null, what |-> "too long"]
               ELSE Goto("handling") /\ UNCHANGED response
       \/ /\ input = <<>> /\ closed
          /\ Exit(0)
          /\ UNCHANGED <<input, line, response, consumed>>
    /\ UNCHANGED <<closed, output, hungUp, sent, answers>>

\* json.loads and handle_message; a blank line is skipped, a number with too
\* many digits is a ValueError that is not caught.
HandleLine ==
    /\ pc = "handling"
    /\ CASE Current.text = "blank" -> Goto("reading") /\ UNCHANGED response
         [] Current.text = "no JSON" ->
              /\ response' = [id |-> Null, what |-> "parse error"]
              /\ Goto("writing")
         [] Current.text = "long integer" -> Exit(1) /\ UNCHANGED response
         [] Current.text = "JSON" ->
              /\ response' \in Handled(Current, line)
              /\ Goto(IF response' = Nothing THEN "reading" ELSE "writing")
    /\ UNCHANGED <<line, pipes, sent, consumed, answers>>

\* Mutant of AfterWriting: the server ends after the first error.
EndOnError(r) == IF r.what \in {"result", "tool error"} THEN "reading" ELSE "ended"

\* After a line that is too long the server ends; it reads on otherwise.
AfterWriting(r) == IF r.what = "too long" THEN "ended" ELSE "reading"

\* _write_message: json.dumps refuses NaN, and a closed pipe raises.
WriteMessage ==
    /\ pc = "writing"
    /\ IF response.id = NaN \/ hungUp
         THEN Exit(1) /\ UNCHANGED <<response, output, answers>>
         ELSE /\ Len(output) < PipeSize
              /\ output' = Append(output, response)
              /\ answers' = Append(answers, response)
              /\ response' = Nothing
              /\ pc' = AfterWriting(response)
              /\ status' = IF pc' = "ended" THEN 2 ELSE status
    /\ UNCHANGED <<line, input, closed, hungUp, sent, consumed>>

(***************************************************************************)
(* The client                                                              *)
(***************************************************************************)
Send(l) ==
    /\ ~closed /\ pc # "ended" /\ Len(sent) < MaxSent /\ Len(input) < PipeSize
    /\ sent' = Append(sent, l)
    /\ input' = Append(input, Len(sent) + 1)
    /\ UNCHANGED <<server, closed, output, hungUp, consumed, answers>>

CloseInput ==
    /\ ~closed /\ closed' = TRUE
    /\ UNCHANGED <<server, input, output, hungUp, sent, consumed, answers>>

Receive ==
    /\ ~hungUp /\ output # <<>> /\ output' = Tail(output)
    /\ UNCHANGED <<server, input, closed, hungUp, sent, consumed, answers>>

HangUp ==
    /\ ~hungUp /\ hungUp' = TRUE /\ closed' = TRUE
    /\ UNCHANGED <<server, input, output, sent, consumed, answers>>

ServerStep == ReadLine \/ HandleLine \/ WriteMessage
Next == \/ ServerStep
        \/ \E l \in Lines : Send(l)
        \/ CloseInput \/ Receive \/ HangUp

Spec == Init /\ [][Next]_vars

\* The server runs, and the client reads what is there to be read.
FairSpec == Spec /\ WF_vars(ServerStep) /\ WF_vars(Receive)

(***************************************************************************)
(* Properties                                                              *)
(***************************************************************************)
\* Every variable has its type; no line over the limit is handled.
TypeOK ==
    /\ pc \in {"reading", "handling", "writing", "ended"}
    /\ line \in {Nothing} \cup DOMAIN sent
    /\ response \in Responses \cup {Nothing}
    /\ status \in {0, 1, 2, Nothing}
    /\ sent \in Seq(Lines) /\ Len(sent) <= MaxSent
    /\ consumed \in 0 .. Len(sent)
    /\ {closed, hungUp} \subseteq BOOLEAN
    /\ answers \in Seq(Responses)
    /\ Len(input) <= PipeSize /\ Len(output) <= PipeSize
    /\ pc = "handling" => Current.length <= MaxLength

\* A request of the client that asks for an answer.
Asks(l) == /\ l.text = "JSON" /\ l.version /\ l.id = "number" /\ l.length <= MaxLength
           /\ l.method # "notification"

\* The answers that have a request's id.
Numbered == {i \in DOMAIN answers : answers[i].id \notin {Null, NaN}}

\* The answers with a request's id answer exactly the requests read so far,
\* each once and in the order they were sent, but for the one being handled
\* (tests/test_agent_plugin.py, responses 1 to 4).
AnswersInOrder ==
    /\ \A i \in Numbered : answers[i].id \in 1 .. consumed /\ Asks(sent[answers[i].id])
    /\ \A i, j \in Numbered : i < j => answers[i].id < answers[j].id
    /\ \A n \in 1 .. consumed :
           Asks(sent[n]) => \/ \E i \in Numbered : answers[i].id = n
                            \/ n = line /\ pc # "reading" /\ status # 0

\* A line that may be answered: one that is too long is, whatever it holds.
MayBeAnswered(l) ==
    TooLong(l) \/ /\ l.text # "blank"
                  /\ ~(l.text = "JSON" /\ l.version /\ l.method = "notification")

\* Those among the first n lines.
Answerable(n) == {i \in 1 .. n : MayBeAnswered(sent[i])}

\* A notification or a blank line is never answered, any other line at most once.
NoAnswerUnasked ==
    Len(answers) <= Cardinality(Answerable(consumed))

\* Whatever else it is sent, the server ends only when a pipe is closed, after
\* a line that is too long, or for the two numbers it has no answer for; and it
\* reports success only when everything sent was read.
EndsForAReason ==
    /\ pc = "ended" => \/ closed
                       \/ TooLong(Current)
                       \/ Current.text = "long integer" \/ Current.id = "NaN"
    /\ status = 0 => consumed = Len(sent)

\* What the server has left to do about the lines it was sent, as an upper bound
\* on its steps: it reads, handles and answers each.
StepsLeft ==
    3 * (Len(sent) - consumed)
    + CASE pc = "handling" -> 3 [] pc = "writing" -> 2 [] pc = "reading" -> 1
        [] pc = "ended" -> 0

\* Each step of the server brings it closer to having nothing left to do, and
\* nothing but a new line gives it more: no line keeps it busy for ever.
ServerAdvances ==
    [][/\ ServerStep => StepsLeft' < StepsLeft
       /\ sent' = sent => StepsLeft' \in 0 .. StepsLeft]_vars

\* Every request that was sent is answered, unless the server ends first or
\* the client hangs up.
RequestsAnswered ==
    \A n \in 1 .. MaxSent :
        (n \in DOMAIN sent /\ Asks(sent[n])) ~>
            \/ \E i \in DOMAIN answers : answers[i].id = n
            \/ pc = "ended" \/ hungUp
=============================================================================
