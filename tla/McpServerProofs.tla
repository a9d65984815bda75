-------------------------- MODULE McpServerProofs --------------------------
(***************************************************************************)
(* Theorems about McpServer: what it answers, in which order, and why it   *)
(* ends, for any client, any lines and any limits.                         *)
(***************************************************************************)
EXTENDS McpServer, FiniteSetTheorems, SequenceTheorems, TLAPS

(***************************************************************************)
(* The inductive invariant                                                 *)
(***************************************************************************)
\* The pipe to the server holds the numbers of the lines it has not read.
PipeInv ==
    /\ input \in Seq(Nat) /\ output \in Seq(Responses)
    /\ Len(input) = Len(sent) - consumed
    /\ \A i \in 1 .. Len(input) : input[i] = consumed + i

\* The line at hand is the last one read; the server has a status when it ended.
LineInv ==
    /\ pc \in {"handling", "writing"} => line = consumed /\ consumed # 0
    /\ pc = "handling" => ~TooLong(Current)
    /\ pc = "ended" <=> status # Nothing

\* The response about to be written is one to the line at hand.
ResponseInv ==
    pc = "writing" =>
        /\ response \in Responses
        /\ response.what = "too long" => TooLong(Current)
        /\ response.id = NaN => Current.id = "NaN"
        /\ response.id \notin {Null, NaN} <=> Asks(Current)
        /\ Asks(Current) => response.id = line
        /\ MayBeAnswered(Current)

EndInv == EndsForAReason /\ (hungUp => closed)

\* The line at hand has not been answered.
OrderInv ==
    /\ AnswersInOrder
    /\ pc \in {"handling", "writing"} => \A i \in Numbered : answers[i].id < consumed

\* A line that may yet be answered has an answer left.
CountInv ==
    /\ NoAnswerUnasked
    /\ pc \in {"handling", "writing"} /\ MayBeAnswered(Current) =>
           Len(answers) < Cardinality(Answerable(consumed))

IInv == TypeOK /\ PipeInv /\ LineInv /\ ResponseInv /\ EndInv /\ OrderInv /\ CountInv

\* Nothing has been sent or read.
LEMMA InitIInv == Init => IInv
<1> SUFFICES ASSUME Init PROVE IInv
  OBVIOUS
<1>1. TypeOK
  <2>1. sent \in Seq(Lines) /\ answers \in Seq(Responses) /\ DOMAIN sent = {}
    BY DEF Init
  <2>2. {closed, hungUp} \subseteq BOOLEAN
    BY DEF Init
  <2>3. Len(sent) = 0 /\ Len(input) = 0 /\ Len(output) = 0
    BY DEF Init
  <2> QED
    BY <2>1, <2>2, <2>3, McpConstants DEF Init, TypeOK
<1>2. PipeInv /\ LineInv /\ ResponseInv
  BY DEF Init, PipeInv, LineInv, ResponseInv
<1>3. EndInv /\ OrderInv
  BY NullIsNoNumber DEF Init, EndInv, EndsForAReason, OrderInv, AnswersInOrder, Numbered
<1>4. CountInv
  <2>1. Answerable(0) = {}
    BY DEF Answerable
  <2> QED
    BY <2>1, FS_EmptySet DEF Init, CountInv, NoAnswerUnasked
<1> QED
  BY <1>1, <1>2, <1>3, <1>4 DEF IInv

(***************************************************************************)
(* Lines and responses                                                     *)
(***************************************************************************)
\* A client sends no other lines.
LEMMA LineTypes ==
    ASSUME NEW l \in Lines
    PROVE  l \in LineType
  BY McpConstants

\* A request that asks for an answer may be answered, and is not too long.
LEMMA AskedIsAnswerable ==
    ASSUME NEW l \in Lines, Asks(l)
    PROVE  MayBeAnswered(l) /\ ~TooLong(l)
  BY LineTypes, McpConstants DEF Asks, MayBeAnswered, TooLong, LineType

\* What handle_message returns answers the request it is given, under its id.
LEMMA HandledAnswers ==
    ASSUME NEW l \in Lines, NEW n \in 1 .. MaxSent, NEW r \in Handled(l, n),
           l.text = "JSON", ~TooLong(l)
    PROVE  /\ r = Nothing => ~Asks(l)
           /\ r # Nothing => /\ r \in Responses
                             /\ r.what # "too long"
                             /\ r.id = NaN => l.id = "NaN"
                             /\ r.id \notin {Null, NaN} <=> Asks(l)
                             /\ Asks(l) => r.id = n
                             /\ MayBeAnswered(l)
<1>1. l \in LineType
  BY LineTypes
<1>2. CASE IsSilent(l)
  <2>1. r = Nothing
    BY <1>2 DEF Handled
  <2>2. ~Asks(l)
    BY <1>1, <1>2 DEF IsSilent, Asks
  <2> QED
    BY <2>1, <2>2
<1>3. CASE ~IsSilent(l)
  <2>1. Outcomes(l) \subseteq Whats \ {"too long"}
    BY <1>1 DEF Outcomes, Whats, LineType
  <2>2. /\ IdOf(l, n) \in Ids
        /\ IdOf(l, n) = NaN => l.id = "NaN"
        /\ l.id = "number" => IdOf(l, n) = n
        /\ IdOf(l, n) \notin {Null, NaN} <=> l.id = "number"
    BY <1>1, NullIsNoNumber, McpConstants DEF IdOf, Ids, LineType
  <2> DEFINE id == IF l.version THEN IdOf(l, n) ELSE Null
  <2>3. PICK what \in Outcomes(l) : r = [id |-> id, what |-> what]
    BY <1>3 DEF Handled
  <2>4. r \in Responses /\ r.id = id /\ r.what # "too long"
    BY <2>1, <2>2, <2>3 DEF Responses, Ids
  <2>5. id \notin {Null, NaN} <=> Asks(l)
    <3>1. l.length <= MaxLength
      BY <1>1, McpConstants DEF TooLong, LineType
    <3>2. CASE l.version
      <4>1. id \notin {Null, NaN} <=> l.id = "number"
        BY <3>2, <2>2
      <4>2. l.method # "notification"
        BY <1>3, <3>2 DEF IsSilent
      <4> QED
        BY <3>1, <3>2, <4>1, <4>2 DEF Asks
    <3>3. CASE ~l.version
      BY <3>3 DEF Asks
    <3> QED
      BY <3>2, <3>3
  <2>6. (id = NaN => l.id = "NaN") /\ (Asks(l) => id = n)
    BY <2>2, NullIsNoNumber DEF Asks
  <2>7. MayBeAnswered(l)
    BY <1>3 DEF MayBeAnswered, IsSilent
  <2> QED
    BY <2>4, <2>5, <2>6, <2>7, NothingIsNoResponse
<1> QED
  BY <1>2, <1>3

\* How many lines may be answered, and what reading one more adds.
LEMMA AnswerableFinite ==
    ASSUME NEW n \in Nat
    PROVE  IsFiniteSet(Answerable(n)) /\ Cardinality(Answerable(n)) \in Nat
<1>1. IsFiniteSet(1 .. n) /\ Answerable(n) \subseteq 1 .. n
  BY FS_Interval DEF Answerable
<1> QED
  BY <1>1, FS_Subset, FS_CardinalityType

LEMMA AnswerableNext ==
    ASSUME NEW n \in Nat
    PROVE  Cardinality(Answerable(n + 1)) =
               Cardinality(Answerable(n)) + IF MayBeAnswered(sent[n + 1]) THEN 1 ELSE 0
<1>1. IsFiniteSet(Answerable(n)) /\ n + 1 \notin Answerable(n) /\ Cardinality(Answerable(n)) \in Nat
  BY AnswerableFinite DEF Answerable
<1>2. CASE MayBeAnswered(sent[n + 1])
  <2>1. Answerable(n + 1) = Answerable(n) \cup {n + 1}
    BY <1>2 DEF Answerable
  <2> QED
    BY <1>1, <1>2, <2>1, FS_AddElement
<1>3. CASE ~MayBeAnswered(sent[n + 1])
  <2>1. Answerable(n + 1) = Answerable(n)
    BY <1>3 DEF Answerable
  <2> QED
    BY <1>1, <1>3, <2>1
<1> QED
  BY <1>2, <1>3

(***************************************************************************)
(* The steps of the server                                                 *)
(***************************************************************************)
\* What steps that write no response leave alone.
LEMMA SameNumbered == UNCHANGED answers => UNCHANGED Numbered
  BY DEF Numbered

LEMMA SameAnswerable ==
    UNCHANGED <<sent, consumed>> => UNCHANGED Answerable(consumed)
  BY DEF Answerable

\* What is left to be read, and what has been read.
LEMMA LinesSent ==
    ASSUME IInv
    PROVE  /\ sent \in Seq(Lines) /\ DOMAIN sent = 1 .. Len(sent) /\ Len(sent) \in Nat
           /\ consumed \in Nat /\ consumed <= Len(sent) /\ Len(sent) <= MaxSent
           /\ \A n \in 1 .. Len(sent) : sent[n] \in Lines /\ sent[n] \in LineType
           /\ pc \in {"handling", "writing"} =>
                  line = consumed /\ line \in 1 .. Len(sent) /\ Current \in Lines
  BY McpConstants DEF IInv, TypeOK, LineInv, Current

\* The next line becomes the one at hand, or the end of the input ends the server.
LEMMA ReadLineInv == IInv /\ ReadLine => IInv'
<1> SUFFICES ASSUME IInv, ReadLine PROVE IInv'
  OBVIOUS
<1>0. /\ pc = "reading" /\ status = Nothing /\ status # 0
      /\ UNCHANGED <<closed, output, hungUp, sent, answers, Numbered>>
  BY SameNumbered, NullIsNoNumber DEF IInv, ReadLine, LineInv
<1>1. CASE input # <<>> /\ consumed' = consumed + 1
  <2>1. /\ input' = Tail(input) /\ line' = Head(input) /\ status' = Nothing
        /\ \/ TooLong(sent[line']) /\ pc' = "writing"
              /\ response' = [id |-> Null, what |-> "too long"]
           \/ ~TooLong(sent[line']) /\ pc' = "handling" /\ UNCHANGED response
    BY <1>0, <1>1, LinesSent DEF ReadLine, Goto
  <2>2. /\ Len(input) \in Nat \ {0} /\ line' = consumed + 1
        /\ Len(input') = Len(input) - 1 /\ input' \in Seq(Nat)
        /\ \A i \in 1 .. Len(input') : input'[i] = input[i + 1]
    <3>1. input \in Seq(Nat) /\ Len(input) \in Nat \ {0}
      BY <1>1, EmptySeq DEF IInv, PipeInv
    <3>2. 1 \in 1 .. Len(input) /\ input[1] = consumed + 1
      BY <3>1 DEF IInv, PipeInv
    <3>3. line' = consumed + 1
      <4>1. Head(input) = input[1]
        BY <3>1
      <4> QED
        BY <2>1, <3>2, <4>1
    <3> QED
      BY <1>1, <2>1, <3>1, <3>3, HeadTailProperties
  <2>3. line' \in 1 .. Len(sent) /\ sent[line'] \in Lines /\ sent[line'] \in LineType
    BY <2>2, LinesSent DEF IInv, PipeInv
  <2>4. Current' = sent[line'] /\ line' = consumed' /\ consumed' # 0
    BY <1>0, <1>1, <2>2, LinesSent DEF Current
  <2>5. TypeOK'
    <3>1. response' \in Responses \cup {Nothing}
      <4>1. [id |-> Null, what |-> "too long"] \in Responses
        BY DEF Responses, Ids, Whats
      <4> QED
        BY <2>1, <4>1 DEF IInv, TypeOK
    <3>2. pc' = "handling" => Current'.length <= MaxLength
      BY <2>1, <2>3, <2>4, McpConstants DEF TooLong, LineType
    <3>3. consumed' \in 0 .. Len(sent') /\ line' \in DOMAIN sent' /\ Len(input') <= PipeSize
      BY <1>0, <2>2, <2>3, <2>4, LinesSent, McpConstants DEF IInv, TypeOK
    <3> QED
      BY <1>0, <2>1, <3>1, <3>2, <3>3 DEF IInv, TypeOK
  <2>6. PipeInv'
    <3>1. \A i \in 1 .. Len(input') : i + 1 \in 1 .. Len(input) /\ input'[i] = consumed' + i
      <4> TAKE i \in 1 .. Len(input')
      <4>1. i + 1 \in 1 .. Len(input)
        BY <2>2
      <4>2. input[i + 1] = consumed + (i + 1)
        BY <4>1 DEF IInv, PipeInv
      <4> QED
        BY <1>1, <2>2, <4>1, <4>2, LinesSent
    <3> QED
      BY <1>0, <1>1, <2>2, <3>1, LinesSent DEF IInv, PipeInv
  <2>7. LineInv'
    BY <2>1, <2>4 DEF LineInv
  <2>8. ResponseInv'
    <3>1. CASE pc' = "writing"
      <4>1. TooLong(Current') /\ response' = [id |-> Null, what |-> "too long"]
        BY <2>1, <2>4, <3>1
      <4>2. ~Asks(Current') /\ MayBeAnswered(Current')
        BY <4>1, <2>3, <2>4, AskedIsAnswerable DEF MayBeAnswered
      <4>3. response' \in Responses /\ response'.id = Null
        BY <4>1 DEF Responses, Ids, Whats
      <4> QED
        BY <4>1, <4>2, <4>3, NullIsNoNumber DEF ResponseInv
    <3> QED
      BY <3>1 DEF ResponseInv
  <2>9. EndInv'
    BY <1>0, <2>1, NullIsNoNumber DEF IInv, EndInv, EndsForAReason
  <2>10. OrderInv'
    <3>1. AnswersInOrder'
      <4>1. \A i \in Numbered' : answers'[i].id \in 1 .. consumed'
                                 /\ Asks(sent'[answers'[i].id])
        BY <1>0, <1>1, LinesSent DEF IInv, OrderInv, AnswersInOrder
      <4>2. \A i, j \in Numbered' : i < j => answers'[i].id < answers'[j].id
        BY <1>0 DEF IInv, OrderInv, AnswersInOrder
      <4>3. ASSUME NEW n \in 1 .. consumed', Asks(sent'[n])
            PROVE  \/ \E i \in Numbered' : answers'[i].id = n
                   \/ n = line' /\ pc' # "reading" /\ status' # 0
        <5>1. CASE n = consumed + 1
          BY <1>0, <1>1, <2>1, <2>4, <5>1
        <5>2. CASE n # consumed + 1
          <6>1. n \in 1 .. consumed
            BY <1>1, <5>2, LinesSent
          <6>2. \E i \in Numbered : answers[i].id = n
            BY <1>0, <4>3, <6>1 DEF IInv, OrderInv, AnswersInOrder
          <6> QED
            BY <1>0, <6>2
        <5> QED
          BY <5>1, <5>2
      <4> QED
        BY <4>1, <4>2, <4>3 DEF AnswersInOrder
    <3>2. \A i \in Numbered' : answers'[i].id < consumed'
      BY <1>0, <1>1, LinesSent DEF IInv, OrderInv, AnswersInOrder
    <3> QED
      BY <3>1, <3>2 DEF OrderInv
  <2>11. CountInv'
    <3>1. Answerable(consumed)' = Answerable(consumed + 1)
      BY <1>0, <1>1 DEF Answerable
    <3>2. Len(answers) \in Nat /\ Len(answers) <= Cardinality(Answerable(consumed))
      BY DEF IInv, TypeOK, CountInv, NoAnswerUnasked
    <3>3. /\ Cardinality(Answerable(consumed)) \in Nat
          /\ Cardinality(Answerable(consumed + 1)) =
                 Cardinality(Answerable(consumed))
                     + IF MayBeAnswered(sent[consumed + 1]) THEN 1 ELSE 0
      BY LinesSent, AnswerableNext, AnswerableFinite
    <3>4. NoAnswerUnasked'
      BY <1>0, <3>1, <3>2, <3>3 DEF NoAnswerUnasked
    <3>5. MayBeAnswered(Current') => Len(answers') < Cardinality(Answerable(consumed)')
      <4>1. Current' = sent[consumed + 1]
        BY <1>1, <2>4
      <4> QED
        BY <1>0, <3>1, <3>2, <3>3, <4>1
    <3> QED
      BY <3>4, <3>5 DEF CountInv
  <2> QED
    BY <2>5, <2>6, <2>7, <2>8, <2>9, <2>10, <2>11 DEF IInv
<1>2. CASE input = <<>> /\ closed /\ Exit(0) /\ UNCHANGED <<input, line, response, consumed>>
  <2>1. pc' = "ended" /\ status' = 0 /\ closed'
    BY <1>0, <1>2 DEF Exit
  <2>2. TypeOK' /\ PipeInv'
    BY <1>0, <1>2, <2>1 DEF IInv, TypeOK, PipeInv
  <2>3. LineInv' /\ ResponseInv'
    BY <2>1, NullIsNoNumber DEF LineInv, ResponseInv
  <2>4. EndInv'
    BY <1>0, <1>2, <2>1, LinesSent DEF IInv, EndInv, EndsForAReason, PipeInv
  <2>5. OrderInv'
    BY <1>0, <1>2, <2>1 DEF IInv, OrderInv, AnswersInOrder
  <2>6. CountInv'
    BY <1>0, <1>2, <2>1, SameAnswerable DEF IInv, CountInv, NoAnswerUnasked
  <2> QED
    BY <2>2, <2>3, <2>4, <2>5, <2>6 DEF IInv
<1> QED
  BY <1>0, <1>1, <1>2 DEF ReadLine

\* A request at hand gets its response; nothing is written yet.
LEMMA HandleLineInv == IInv /\ HandleLine => IInv'
<1> SUFFICES ASSUME IInv, HandleLine PROVE IInv'
  OBVIOUS
<1>1. /\ pc = "handling" /\ status = Nothing /\ status # 0 /\ ~TooLong(Current)
      /\ line = consumed /\ line \in 1 .. Len(sent) /\ line \in 1 .. MaxSent
      /\ Current \in Lines /\ Current \in LineType
  <2>1. pc = "handling"
    BY DEF HandleLine
  <2>2. line = consumed /\ line \in 1 .. Len(sent) /\ Current \in Lines
    BY <2>1, LinesSent
  <2>3. status = Nothing /\ status # 0 /\ ~TooLong(Current)
    BY <2>1, NullIsNoNumber DEF IInv, LineInv
  <2>4. line \in 1 .. MaxSent /\ Current \in LineType
    BY <2>2, LinesSent, LineTypes, McpConstants
  <2> QED
    BY <2>1, <2>2, <2>3, <2>4
<1>2. /\ UNCHANGED <<line, input, closed, output, hungUp, sent, consumed, answers>>
      /\ UNCHANGED <<Numbered, Current, Answerable(consumed)>>
  BY SameNumbered, SameAnswerable DEF HandleLine, pipes, Current
\* The line has no answer, or it gets one, or it ends the server.
<1>3. \/ pc' = "reading" /\ status' = status /\ ~Asks(Current)
      \/ pc' = "writing" /\ status' = status /\ ResponseInv'
      \/ pc' = "ended" /\ status' = 1 /\ Current.text = "long integer"
  <2>1. CASE Current.text = "blank"
    BY <1>1, <2>1 DEF HandleLine, Goto, Asks
  <2>2. CASE Current.text = "no JSON"
    <3>1. pc' = "writing" /\ status' = status /\ response' = [id |-> Null, what |-> "parse error"]
      BY <1>1, <2>2 DEF HandleLine, Goto
    <3>2. response' \in Responses /\ response'.id = Null /\ response'.what # "too long"
      BY <3>1 DEF Responses, Ids, Whats
    <3>3. ~Asks(Current) /\ MayBeAnswered(Current)
      BY <2>2 DEF Asks, MayBeAnswered
    <3> QED
      BY <1>2, <3>1, <3>2, <3>3, NullIsNoNumber DEF ResponseInv
  <2>3. CASE Current.text = "long integer"
    BY <1>1, <2>3 DEF HandleLine, Exit
  <2>4. CASE Current.text = "JSON"
    <3>1. /\ response' \in Handled(Current, line) /\ status' = status
          /\ pc' = IF response' = Nothing THEN "reading" ELSE "writing"
      BY <1>1, <2>4 DEF HandleLine, Goto
    <3>2. /\ response' = Nothing => ~Asks(Current)
          /\ response' # Nothing => /\ response' \in Responses
                                    /\ response'.what # "too long"
                                    /\ response'.id = NaN => Current.id = "NaN"
                                    /\ response'.id \notin {Null, NaN} <=> Asks(Current)
                                    /\ Asks(Current) => response'.id = line
                                    /\ MayBeAnswered(Current)
      BY <1>1, <2>4, <3>1, HandledAnswers
    <3> QED
      BY <1>2, <3>1, <3>2 DEF ResponseInv
  <2> QED
    BY <1>1, <2>1, <2>2, <2>3, <2>4 DEF LineType, Texts
<1>4. status' # 0 /\ (pc' = "ended" <=> status' # Nothing)
  <2>1. Nothing # 1 /\ Nothing # 0
    BY NullIsNoNumber
  <2>2. \/ pc' = "reading" /\ status' = Nothing
        \/ pc' = "writing" /\ status' = Nothing
        \/ pc' = "ended" /\ status' = 1
    BY ONLY <1>1, <1>3
  <2> QED
    BY ONLY <2>1, <2>2
<1>5. TypeOK'
  <2>1. response' \in Responses \cup {Nothing}
    <3>1. CASE pc' = "writing"
      BY <1>3, <3>1 DEF ResponseInv
    <3>2. CASE pc' # "writing"
      BY <1>1, <3>2 DEF HandleLine, Goto, Exit, IInv, TypeOK, LineType, Texts
    <3> QED
      BY <3>1, <3>2
  <2> QED
    BY <1>1, <1>2, <1>3, <2>1 DEF IInv, TypeOK
<1>6. PipeInv' /\ LineInv' /\ ResponseInv'
  <2>1. PipeInv'
    BY <1>2 DEF IInv, PipeInv
  <2>2. LineInv'
    <3>1. line' = consumed' /\ consumed' # 0
      BY <1>1, <1>2
    <3>2. pc' # "handling"
      BY ONLY <1>3
    <3> QED
      BY <1>4, <3>1, <3>2 DEF LineInv
  <2>3. ResponseInv'
    BY <1>3 DEF ResponseInv
  <2> QED
    BY <2>1, <2>2, <2>3
<1>7. EndInv'
  <2>1. pc' = "ended" => Current'.text = "long integer"
    BY <1>2, <1>3
  <2> QED
    BY <1>2, <1>4, <2>1 DEF IInv, EndInv, EndsForAReason
<1>8. OrderInv'
  <2>1. \A n \in 1 .. consumed :
            Asks(sent[n]) => \/ \E i \in Numbered : answers[i].id = n
                             \/ n = line /\ pc' # "reading" /\ status' # 0
    <3>1. Asks(sent[line]) => pc' # "reading" /\ status' # 0
      <4>1. Asks(Current) => pc' # "reading"
        BY ONLY <1>3
      <4> QED
        BY <1>4, <4>1 DEF Current
    <3> QED
      BY <3>1 DEF IInv, OrderInv, AnswersInOrder
  <2> QED
    BY <1>1, <1>2, <1>3, <2>1 DEF IInv, OrderInv, AnswersInOrder
<1>9. CountInv'
  BY <1>1, <1>2, <1>3 DEF IInv, CountInv, NoAnswerUnasked
<1> QED
  BY <1>5, <1>6, <1>7, <1>8, <1>9 DEF IInv

\* A sequence with one more element.
LEMMA AppendedTo ==
    ASSUME NEW S, NEW s \in Seq(S), NEW r \in S, NEW t, t = Append(s, r)
    PROVE  /\ s \in Seq(S) /\ t \in Seq(S)
           /\ Len(s) \in Nat /\ Len(t) = Len(s) + 1
           /\ DOMAIN s = 1 .. Len(s) /\ DOMAIN t = 1 .. Len(t)
           /\ \A i \in 1 .. Len(s) : t[i] = s[i]
           /\ t[Len(s) + 1] = r
  BY AppendProperties

\* The answer has a larger number than all before it, or the server ends.
LEMMA WriteMessageInv == IInv /\ WriteMessage => IInv'
<1> SUFFICES ASSUME IInv, WriteMessage PROVE IInv'
  OBVIOUS
<1>1. /\ pc = "writing" /\ line = consumed /\ line \in 1 .. Len(sent) /\ consumed # 0
      /\ UNCHANGED <<line, input, closed, hungUp, sent, consumed>>
  <2>1. pc = "writing" /\ UNCHANGED <<line, input, closed, hungUp, sent, consumed>>
    BY DEF WriteMessage
  <2> QED
    BY <2>1, LinesSent DEF IInv, LineInv
<1>2. UNCHANGED Current /\ UNCHANGED Answerable(consumed)
  BY <1>1, SameAnswerable DEF Current
<1>3. status = Nothing /\ Nothing \notin {0, 1, 2}
  <2>1. Nothing \notin {0, 1, 2}
    BY NullIsNoNumber
  <2>2. status = Nothing
    BY <1>1 DEF IInv, LineInv
  <2> QED
    BY <2>1, <2>2
<1>4. /\ response \in Responses
      /\ response.what = "too long" => TooLong(Current)
      /\ response.id = NaN => Current.id = "NaN"
      /\ response.id \notin {Null, NaN} <=> Asks(Current)
      /\ Asks(Current) => response.id = line
      /\ MayBeAnswered(Current)
  BY <1>1 DEF IInv, ResponseInv
\* json.dumps refuses the number, or the pipe is closed.
<1>5. CASE (response.id = NaN \/ hungUp) /\ Exit(1) /\ UNCHANGED <<response, output, answers>>
  <2>1. pc' = "ended" /\ status' = 1 /\ UNCHANGED <<output, answers, response, Numbered>>
    BY <1>5, SameNumbered DEF Exit
  <2>2. TypeOK' /\ PipeInv'
    BY <1>1, <2>1 DEF IInv, TypeOK, PipeInv
  <2>3. LineInv' /\ ResponseInv'
    BY <1>3, <2>1 DEF LineInv, ResponseInv
  <2>4. EndInv'
    <3>1. closed \/ Current.id = "NaN"
      BY <1>4, <1>5 DEF IInv, EndInv
    <3>2. EndsForAReason'
      <4>1. closed' \/ Current'.id = "NaN"
        BY <1>1, <1>2, <3>1
      <4>2. status' # 0
        BY <2>1
      <4> QED
        BY <4>1, <4>2 DEF EndsForAReason
    <3> QED
      BY <1>1, <3>2 DEF IInv, EndInv
  <2>5. OrderInv'
    BY <1>1, <2>1 DEF IInv, OrderInv, AnswersInOrder
  <2>6. CountInv'
    BY <1>1, <1>2, <2>1 DEF IInv, CountInv, NoAnswerUnasked
  <2> QED
    BY <2>2, <2>3, <2>4, <2>5, <2>6 DEF IInv
<1>6. CASE /\ Len(output) < PipeSize
           /\ output' = Append(output, response)
           /\ answers' = Append(answers, response)
           /\ response' = Nothing
           /\ pc' = AfterWriting(response)
           /\ status' = IF pc' = "ended" THEN 2 ELSE status
  <2>1. \/ pc' = "ended" /\ status' = 2 /\ TooLong(Current)
        \/ pc' = "reading" /\ status' = Nothing
    BY <1>3, <1>4, <1>6 DEF AfterWriting
  <2>2. status' # 0 /\ (pc' = "ended" <=> status' # Nothing) /\ status' \in {0, 1, 2, Nothing}
    BY ONLY <1>3, <2>1
  <2>3. pc' \notin {"handling", "writing"} /\ pc' \in {"reading", "ended"}
    BY ONLY <2>1
  <2>4. /\ answers \in Seq(Responses) /\ answers' \in Seq(Responses)
        /\ Len(answers) \in Nat /\ Len(answers') = Len(answers) + 1
        /\ DOMAIN answers = 1 .. Len(answers) /\ DOMAIN answers' = 1 .. Len(answers')
        /\ \A i \in 1 .. Len(answers) : answers'[i] = answers[i]
        /\ answers'[Len(answers) + 1] = response
    <3>1. answers \in Seq(Responses)
      BY DEF IInv, TypeOK
    <3>2. response \in Responses /\ answers' = Append(answers, response)
      BY <1>4, <1>6
    <3> QED
      BY ONLY <3>1, <3>2, AppendedTo
  <2>5. output' \in Seq(Responses) /\ Len(output') <= PipeSize
    <3>1. output \in Seq(Responses) /\ PipeSize \in Nat
      BY McpConstants DEF IInv, PipeInv
    <3> QED
      <4>1. output' \in Seq(Responses) /\ Len(output') = Len(output) + 1 /\ Len(output) \in Nat
        <5>1. response \in Responses /\ output' = Append(output, response)
          BY <1>4, <1>6
        <5> QED
          BY ONLY <3>1, <5>1, AppendedTo
      <4> QED
        BY <1>6, <3>1, <4>1
  <2>6. TypeOK'
    BY <1>1, <1>6, <2>2, <2>3, <2>4, <2>5 DEF IInv, TypeOK
  <2>7. PipeInv'
    BY <1>1, <2>5 DEF IInv, PipeInv
  <2>8. LineInv' /\ ResponseInv'
    BY <2>2, <2>3 DEF LineInv, ResponseInv
  <2>9. EndInv'
    BY <1>1, <1>2, <2>1, <2>2 DEF IInv, EndInv, EndsForAReason
  <2>10. OrderInv'
    <3>1. \A i \in Numbered' :
              \/ i \in Numbered /\ answers'[i] = answers[i] /\ i < Len(answers) + 1
              \/ i = Len(answers) + 1 /\ Asks(Current) /\ answers'[i].id = line
      <4> TAKE i \in Numbered'
      <4>1. i \in 1 .. Len(answers) + 1 /\ answers'[i].id \notin {Null, NaN}
        BY <2>4 DEF Numbered
      <4>2. CASE i = Len(answers) + 1
        <5>1. answers'[i] = response
          BY <2>4, <4>2
        <5> QED
          BY <1>4, <4>1, <4>2, <5>1
      <4>3. CASE i # Len(answers) + 1
        <5>1. i \in 1 .. Len(answers) /\ i < Len(answers) + 1
          BY <2>4, <4>1, <4>3
        <5>2. answers'[i] = answers[i]
          BY <2>4, <5>1
        <5> QED
          BY <2>4, <4>1, <5>1, <5>2 DEF Numbered
      <4> QED
        BY <4>2, <4>3
    <3>2. Numbered \subseteq Numbered' /\ Numbered \subseteq 1 .. Len(answers)
      BY <2>4 DEF Numbered
    <3>3. Asks(Current) => Len(answers) + 1 \in Numbered' /\ answers'[Len(answers) + 1].id = line
      <4>1. Len(answers) + 1 \in DOMAIN answers' /\ answers'[Len(answers) + 1].id = response.id
        BY <2>4
      <4> QED
        BY <1>4, <4>1 DEF Numbered
    <3>4. \A i \in Numbered : /\ answers[i].id \in 1 .. consumed /\ answers[i].id < line
                              /\ Asks(sent[answers[i].id])
      BY <1>1 DEF IInv, OrderInv, AnswersInOrder
    <3>5. \A i \in Numbered' : answers'[i].id \in 1 .. consumed /\ Asks(sent[answers'[i].id])
      <4>1. line \in 1 .. consumed /\ sent[line] = Current
        BY <1>1, LinesSent DEF Current
      <4> QED
        BY <3>1, <3>4, <4>1
    <3>6. \A i, j \in Numbered' : i < j => answers'[i].id < answers'[j].id
      <4> TAKE i, j \in Numbered'
      <4> HAVE i < j
      <4>1. i \in Numbered /\ answers'[i] = answers[i]
        BY <2>4, <3>1, <3>2 DEF Numbered
      <4> QED
        BY <3>1, <3>4, <4>1 DEF IInv, OrderInv, AnswersInOrder
    <3>7. \A n \in 1 .. consumed : Asks(sent[n]) => \E i \in Numbered' : answers'[i].id = n
      <4> TAKE n \in 1 .. consumed
      <4> HAVE Asks(sent[n])
      <4>1. CASE n = line
        BY <3>3, <4>1 DEF Current
      <4>2. CASE n # line
        <5>1. PICK i \in Numbered : answers[i].id = n
          BY <4>2 DEF IInv, OrderInv, AnswersInOrder
        <5> QED
          BY <2>4, <3>2, <5>1
      <4> QED
        BY <4>1, <4>2
    <3> QED
      BY <1>1, <2>3, <3>5, <3>6, <3>7 DEF OrderInv, AnswersInOrder
  <2>11. CountInv'
    <3>1. Len(answers) < Cardinality(Answerable(consumed)) /\ Cardinality(Answerable(consumed)) \in Nat
      BY <1>1, <1>4, LinesSent, AnswerableFinite DEF IInv, CountInv
    <3>2. Cardinality(Answerable(consumed))' = Cardinality(Answerable(consumed))
      BY <1>2
    <3>3. NoAnswerUnasked'
      BY <2>4, <3>1, <3>2 DEF NoAnswerUnasked
    <3> QED
      BY <2>3, <3>3 DEF CountInv
  <2> QED
    BY <2>6, <2>7, <2>8, <2>9, <2>10, <2>11 DEF IInv
<1> QED
  BY <1>5, <1>6 DEF WriteMessage

(***************************************************************************)
(* The steps of the client                                                 *)
(***************************************************************************)
\* A new line comes after those that wait; none that was read changes.
LEMMA SendInv == ASSUME NEW l \in Lines, IInv, Send(l) PROVE IInv'
<1>1. /\ UNCHANGED <<pc, line, response, status, closed, output, hungUp, consumed, answers>>
      /\ pc # "ended" /\ UNCHANGED Numbered
  BY SameNumbered DEF Send, server
<1>2. /\ sent' \in Seq(Lines) /\ Len(sent') = Len(sent) + 1 /\ Len(sent') <= MaxSent
      /\ DOMAIN sent = 1 .. Len(sent) /\ DOMAIN sent' = 1 .. Len(sent') /\ Len(sent) \in Nat
      /\ \A n \in 1 .. Len(sent) : sent'[n] = sent[n]
  <2>1. sent' = Append(sent, l) /\ Len(sent) < MaxSent
    BY DEF Send
  <2>2. sent \in Seq(Lines)
    BY LinesSent
  <2>3. /\ sent' \in Seq(Lines) /\ Len(sent') = Len(sent) + 1 /\ Len(sent) \in Nat
        /\ DOMAIN sent = 1 .. Len(sent) /\ DOMAIN sent' = 1 .. Len(sent')
        /\ \A n \in 1 .. Len(sent) : sent'[n] = sent[n]
    BY ONLY <2>1, <2>2, AppendedTo
  <2> QED
    BY <2>1, <2>3, McpConstants
<1>3. /\ input' \in Seq(Nat) /\ Len(input') = Len(input) + 1 /\ Len(input) \in Nat
      /\ Len(input') <= PipeSize
      /\ \A n \in 1 .. Len(input) : input'[n] = input[n]
      /\ input'[Len(input) + 1] = Len(sent) + 1
  <2>1. input' = Append(input, Len(sent) + 1) /\ Len(input) < PipeSize
    BY DEF Send
  <2>2. input \in Seq(Nat) /\ Len(sent) + 1 \in Nat
    BY <1>2 DEF IInv, PipeInv
  <2>3. /\ input' \in Seq(Nat) /\ Len(input') = Len(input) + 1 /\ Len(input) \in Nat
        /\ \A n \in 1 .. Len(input) : input'[n] = input[n]
        /\ input'[Len(input) + 1] = Len(sent) + 1
    BY ONLY <2>1, <2>2, AppendedTo
  <2> QED
    BY <2>1, <2>3, McpConstants
<1>4. \A n \in 1 .. consumed : n \in 1 .. Len(sent) /\ sent'[n] = sent[n]
  BY <1>2, LinesSent
<1>5. UNCHANGED Answerable(consumed)
  BY <1>1, <1>4 DEF Answerable
<1>6. pc \in {"handling", "writing"} => UNCHANGED Current
  BY <1>1, <1>2, LinesSent DEF Current
<1>7. TypeOK'
  <2>1. line' \in {Nothing} \cup DOMAIN sent' /\ consumed' \in 0 .. Len(sent')
    BY <1>1, <1>2, LinesSent DEF IInv, TypeOK
  <2>2. pc' = "handling" => Current'.length <= MaxLength
    BY <1>1, <1>6 DEF IInv, TypeOK
  <2> QED
    BY <1>1, <1>2, <1>3, <2>1, <2>2 DEF IInv, TypeOK
<1>8. PipeInv'
  <2>1. Len(input) = Len(sent) - consumed /\ consumed \in Nat
    BY LinesSent DEF IInv, PipeInv
  <2>2. ASSUME NEW i \in 1 .. Len(input') PROVE input'[i] = consumed' + i
    <3>1. CASE i = Len(input) + 1
      BY <1>1, <1>2, <1>3, <2>1, <3>1
    <3>2. CASE i # Len(input) + 1
      <4>1. i \in 1 .. Len(input)
        BY <1>3, <3>2
      <4> QED
        BY <1>1, <1>3, <4>1 DEF IInv, PipeInv
    <3> QED
      BY <3>1, <3>2
  <2> QED
    BY <1>1, <1>2, <1>3, <2>1, <2>2 DEF IInv, PipeInv
<1>9. LineInv' /\ ResponseInv'
  BY <1>1, <1>6 DEF IInv, LineInv, ResponseInv
<1>10. EndInv'
  BY <1>1, NullIsNoNumber DEF IInv, EndInv, EndsForAReason, LineInv
<1>11. OrderInv'
  BY <1>1, <1>4 DEF IInv, OrderInv, AnswersInOrder
<1>12. CountInv'
  BY <1>1, <1>5, <1>6 DEF IInv, CountInv, NoAnswerUnasked
<1> QED
  BY <1>7, <1>8, <1>9, <1>10, <1>11, <1>12 DEF IInv

\* Closing a pipe or taking an answer from it changes nothing the server has done.
LEMMA PipesInv ==
    ASSUME IInv, CloseInput \/ Receive \/ HangUp \/ UNCHANGED vars
    PROVE  IInv'
<1>1. /\ UNCHANGED <<pc, line, response, status, input, sent, consumed, answers>>
      /\ closed => closed' = TRUE
      /\ hungUp' = TRUE => hungUp = TRUE \/ closed' = TRUE
      /\ {closed', hungUp'} \subseteq BOOLEAN
      /\ output' = output \/ (output # <<>> /\ output' = Tail(output))
  <2>1. {closed, hungUp} \subseteq BOOLEAN
    BY DEF IInv, TypeOK
  <2>2. CASE CloseInput
    BY <2>1, <2>2 DEF CloseInput, server
  <2>3. CASE Receive
    BY <2>1, <2>3 DEF Receive, server
  <2>4. CASE HangUp
    BY <2>1, <2>4 DEF HangUp, server
  <2>5. CASE UNCHANGED vars
    BY <2>1, <2>5 DEF vars, server, pipes
  <2> QED
    BY <2>2, <2>3, <2>4, <2>5
<1>2. UNCHANGED Numbered /\ UNCHANGED Answerable(consumed) /\ UNCHANGED Current
  BY <1>1, SameNumbered, SameAnswerable DEF Current
<1>3. output' \in Seq(Responses) /\ Len(output') <= PipeSize
  <2>1. output \in Seq(Responses) /\ Len(output) <= PipeSize /\ PipeSize \in Nat
    BY McpConstants DEF IInv, TypeOK, PipeInv
  <2>2. CASE output' = output
    BY <2>1, <2>2
  <2>3. CASE output # <<>> /\ output' = Tail(output)
    <3>1. output' \in Seq(Responses) /\ Len(output') = Len(output) - 1 /\ Len(output) \in Nat
      BY ONLY <2>1, <2>3, HeadTailProperties, LenProperties
    <3> QED
      BY <2>1, <3>1
  <2> QED
    BY <1>1, <2>2, <2>3
<1>4. TypeOK'
  BY <1>1, <1>2, <1>3 DEF IInv, TypeOK
<1>5. PipeInv'
  BY <1>1, <1>3 DEF IInv, PipeInv
<1>6. LineInv' /\ ResponseInv'
  BY <1>1, <1>2 DEF IInv, LineInv, ResponseInv
<1>7. EndInv'
  BY <1>1, <1>2 DEF IInv, EndInv, EndsForAReason
<1>8. OrderInv'
  BY <1>1, <1>2 DEF IInv, OrderInv, AnswersInOrder
<1>9. CountInv'
  BY <1>1, <1>2 DEF IInv, CountInv, NoAnswerUnasked
<1> QED
  BY <1>4, <1>5, <1>6, <1>7, <1>8, <1>9 DEF IInv

(***************************************************************************)
(* The theorems                                                            *)
(***************************************************************************)
\* The invariant holds in every state, whatever the client does.
THEOREM Invariant == Spec => []IInv
<1>1. IInv /\ [Next]_vars => IInv'
  <2> SUFFICES ASSUME IInv, [Next]_vars PROVE IInv'
    OBVIOUS
  <2>1. CASE ServerStep
    BY <2>1, ReadLineInv, HandleLineInv, WriteMessageInv DEF ServerStep
  <2>2. ASSUME NEW l \in Lines, Send(l) PROVE IInv'
    BY <2>2, SendInv
  <2>3. CASE CloseInput \/ Receive \/ HangUp \/ UNCHANGED vars
    BY <2>3, PipesInv
  <2> QED
    BY <2>1, <2>2, <2>3 DEF Next
<1> QED
  BY InitIInv, <1>1, PTL DEF Spec

\* Types are kept, and no line over the limit reaches handle_message.
THEOREM TypeCorrect == Spec => []TypeOK
<1>1. IInv => TypeOK
  BY DEF IInv
<1> QED
  BY <1>1, Invariant, PTL

\* Pipelined requests are answered in the order they were sent, each once and
\* under its own id, and none that was read is passed over.
THEOREM InOrder == Spec => []AnswersInOrder
<1>1. IInv => AnswersInOrder
  BY DEF IInv, OrderInv
<1> QED
  BY <1>1, Invariant, PTL

\* There are never more answers than lines read that may have one: blank lines
\* and notifications get none.
THEOREM NoneUnasked == Spec => []NoAnswerUnasked
<1>1. IInv => NoAnswerUnasked
  BY DEF IInv, CountInv
<1> QED
  BY <1>1, Invariant, PTL

\* No line ends the server but those named, and success means that every line
\* sent was read.
THEOREM ReasonToEnd == Spec => []EndsForAReason
<1>1. IInv => EndsForAReason
  BY DEF IInv, EndInv
<1> QED
  BY <1>1, Invariant, PTL

\* What is left to do is a number, the lines being those sent and not yet read.
LEMMA StepsLeftType ==
    ASSUME IInv
    PROVE  /\ Len(sent) - consumed \in Nat
           /\ Len(sent) \in Nat /\ consumed \in Nat
           /\ StepsLeft \in Nat
  <1>1. /\ Len(sent) \in Nat /\ consumed \in 0 .. Len(sent)
    BY LinesSent
  <1>2. pc \in {"reading", "handling", "writing", "ended"}
    BY DEF IInv, TypeOK
  <1> QED
    BY <1>1, <1>2 DEF StepsLeft

LEMMA StepsLeftNext == ASSUME IInv' PROVE StepsLeft' \in Nat
  <1>1. /\ Len(sent') \in Nat /\ consumed' \in 0 .. Len(sent')
    BY McpConstants DEF IInv, TypeOK
  <1>2. pc' \in {"reading", "handling", "writing", "ended"}
    BY DEF IInv, TypeOK
  <1> QED
    BY <1>1, <1>2 DEF StepsLeft

\* A line that was read is handled, a handled line is answered or dropped, and
\* after the answer the next one is read.
LEMMA ServerStepsLeft == ASSUME IInv, ServerStep PROVE StepsLeft' < StepsLeft
  <1>1. Len(sent) \in Nat /\ consumed \in Nat /\ sent' = sent
    BY StepsLeftType DEF ServerStep, ReadLine, HandleLine, WriteMessage
  <1>2. CASE ReadLine
    <2>1. pc = "reading"
      BY <1>2 DEF ReadLine
    <2>2. \/ consumed' = consumed + 1 /\ pc' \in {"writing", "handling"}
          \/ consumed' = consumed /\ pc' = "ended"
      BY <1>2 DEF ReadLine, Goto, Exit
    <2> QED
      BY <1>1, <2>1, <2>2 DEF StepsLeft
  <1>3. CASE HandleLine
    <2>1. pc = "handling" /\ consumed' = consumed
      BY <1>3 DEF HandleLine
    <2>2. Current.text \in Texts
      BY <2>1, LinesSent, McpConstants DEF LineType
    <2>3. pc' \in {"reading", "writing", "ended"}
      BY <1>3, <2>2 DEF HandleLine, Goto, Exit, Texts
    <2> QED
      BY <1>1, <2>1, <2>3 DEF StepsLeft
  <1>4. CASE WriteMessage
    <2>1. pc = "writing" /\ consumed' = consumed
      BY <1>4 DEF WriteMessage
    <2>2. pc' \in {"reading", "ended"}
      BY <1>4 DEF WriteMessage, AfterWriting, Exit
    <2> QED
      BY <1>1, <2>1, <2>2 DEF StepsLeft
  <1> QED
    BY <1>2, <1>3, <1>4 DEF ServerStep

\* Whatever lines are sent, the server takes at most three steps for each, and
\* one to end: it never stays with one of them.
THEOREM AdvancesTheorem == Spec => ServerAdvances
<1> DEFINE Advances == /\ ServerStep => StepsLeft' < StepsLeft
                       /\ sent' = sent => StepsLeft' \in 0 .. StepsLeft
<1>1. ASSUME IInv, IInv', Next PROVE Advances
  <2>1. StepsLeft \in Nat /\ StepsLeft' \in Nat
    BY <1>1, StepsLeftType, StepsLeftNext
  <2>2. ServerStep => StepsLeft' < StepsLeft
    BY <1>1, ServerStepsLeft
  <2>3. ASSUME NEW l \in Lines, Send(l) PROVE sent' # sent
    <3>1. sent \in Seq(Lines) /\ sent' = Append(sent, l)
      BY <1>1, <2>3, LinesSent DEF Send
    <3>2. Len(sent') = Len(sent) + 1 /\ Len(sent) \in Nat
      BY <3>1
    <3> QED
      BY <3>2
  <2>4. CloseInput \/ Receive \/ HangUp => StepsLeft' = StepsLeft
    BY DEF CloseInput, Receive, HangUp, StepsLeft, server
  <2>5. sent' = sent => StepsLeft' <= StepsLeft
    BY <1>1, <2>1, <2>2, <2>3, <2>4 DEF Next
  <2> QED
    BY <2>1, <2>2, <2>5
<1>2. IInv /\ IInv' /\ [Next]_vars => [Advances]_vars
  BY <1>1
<1> QED
  BY <1>2, Invariant, PTL DEF Spec, ServerAdvances
=============================================================================
