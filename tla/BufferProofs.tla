---------------------------- MODULE BufferProofs ----------------------------
(***************************************************************************)
(* The stream buffer of Buffer.tla, for every size of cmdbuf and of the    *)
(* pool.                                                                   *)
(***************************************************************************)
EXTENDS Buffer, Numbers, FiniteSetTheorems, SequenceTheorems, TLAPS

-----------------------------------------------------------------------------
(* Numbers. *)

\* A set of natural numbers contains its Min.
LEMMA MinIsLeast ==
    ASSUME NEW T, T \subseteq Nat, T # {}
    PROVE  Min(T) \in T
BY Least DEF Min

\* The Min of a set is its least element.
LEMMA MinIs ==
    ASSUME NEW T, T \subseteq Nat, NEW x \in T, \A y \in T : x <= y
    PROVE  Min(T) = x
<1>1. \A y \in T : (\A z \in T : y <= z) => y = x
  <2> SUFFICES ASSUME NEW y \in T, \A z \in T : y <= z PROVE y = x
    OBVIOUS
  <2>1. y <= x /\ x <= y /\ x \in Nat /\ y \in Nat
    OBVIOUS
  <2> QED BY <2>1
<1> QED BY <1>1 DEF Min

\* The Max of two numbers, as the return value takes it.
LEMMA MaxOfTwo ==
    ASSUME NEW a \in Int, NEW b \in Int
    PROVE  Max({a, b}) = IF a >= b THEN a ELSE b
BY DEF Max

-----------------------------------------------------------------------------
(* Loops. *)

\* A loop that goes from q to step[q] until it is in Final: f is where it stops,
\* and is what the recursive definition of the loop says.
LEMMA LoopDefined ==
    ASSUME NEW S, NEW Final \in SUBSET S, NEW step \in [S -> S]
    PROVE  \E f : f = [q \in S |-> IF q \in Final THEN q ELSE f[step[q]]]
<1> DEFINE IsTrace(trace, n, q, e) ==
             /\ trace[0] = q /\ trace[n] = e /\ e \in Final
             /\ \A i \in 0 .. n - 1 : trace[i] \notin Final /\ trace[i + 1] = step[trace[i]]
           Leads(q, e) ==
             \E n \in Nat : \E trace \in [0 .. n -> S] : IsTrace(trace, n, q, e)
           End(q) == CHOOSE e : Leads(q, e)
<1>1. \A q \in Final : \A e : Leads(q, e) <=> e = q
  <2> TAKE q \in Final
  <2> TAKE e
  <2>1. ASSUME Leads(q, e) PROVE e = q
    <3>0. PICK n \in Nat : \E trace \in [0 .. n -> S] : IsTrace(trace, n, q, e)
      BY <2>1
    <3>1. PICK trace \in [0 .. n -> S] : IsTrace(trace, n, q, e)
      BY <3>0
    <3>2. n = 0
      BY <3>1
    <3> QED BY <3>1, <3>2
  <2>2. ASSUME e = q PROVE Leads(q, e)
    <3> DEFINE trace == [i \in 0 .. 0 |-> q]
    <3>1. trace \in [0 .. 0 -> S] /\ IsTrace(trace, 0, q, e)
      BY <2>2
    <3> HIDE DEF trace
    <3> QED BY <2>2, <3>1
  <2> QED BY <2>1, <2>2
<1>2. \A q \in S \ Final : \A e : Leads(q, e) <=> Leads(step[q], e)
  <2> TAKE q \in S \ Final
  <2> TAKE e
  <2>1. ASSUME Leads(q, e) PROVE Leads(step[q], e)
    <3>0. PICK n \in Nat : \E trace \in [0 .. n -> S] : IsTrace(trace, n, q, e)
      BY <2>1
    <3>1. PICK trace \in [0 .. n -> S] : IsTrace(trace, n, q, e)
      BY <3>0
    <3>2. n > 0
      BY <3>1
    <3> DEFINE rest == [i \in 0 .. n - 1 |-> trace[i + 1]]
    <3>3. /\ n - 1 \in Nat /\ rest \in [0 .. n - 1 -> S]
          /\ rest[0] = step[q] /\ rest[n - 1] = e /\ e \in Final
      BY <3>1, <3>2
    <3>4. \A i \in 0 .. (n - 1) - 1 : rest[i] \notin Final /\ rest[i + 1] = step[rest[i]]
      BY <3>1, <3>2
    <3> HIDE DEF rest
    <3> QED BY <3>3, <3>4
  <2>2. ASSUME Leads(step[q], e) PROVE Leads(q, e)
    <3>0. PICK n \in Nat : \E trace \in [0 .. n -> S] : IsTrace(trace, n, step[q], e)
      BY <2>2
    <3>1. PICK trace \in [0 .. n -> S] : IsTrace(trace, n, step[q], e)
      BY <3>0
    <3> DEFINE whole == [i \in 0 .. n + 1 |-> IF i = 0 THEN q ELSE trace[i - 1]]
    <3>2. /\ n + 1 \in Nat /\ whole \in [0 .. n + 1 -> S]
          /\ whole[0] = q /\ whole[n + 1] = e /\ e \in Final
      BY <3>1
    <3>3. \A i \in 0 .. (n + 1) - 1 : whole[i] \notin Final /\ whole[i + 1] = step[whole[i]]
      <4> TAKE i \in 0 .. (n + 1) - 1
      <4>1. CASE i = 0
        BY <3>1, <4>1
      <4>2. CASE i > 0
        <5>1. i - 1 \in 0 .. n - 1 /\ whole[i] = trace[i - 1] /\ whole[i + 1] = trace[(i - 1) + 1]
          BY <4>2
        <5> QED BY <3>1, <5>1
      <4> QED BY <4>1, <4>2
    <3> HIDE DEF whole
    <3> QED BY <3>2, <3>3
  <2> QED BY <2>1, <2>2
<1> HIDE DEF Leads
<1>3. \A q \in Final : End(q) = q
  BY <1>1
<1>4. \A q \in S \ Final : End(q) = End(step[q])
  BY <1>2, Zenon
<1> HIDE DEF End
<1> DEFINE f == [q \in S |-> End(q)]
<1>5. f = [q \in S |-> IF q \in Final THEN q ELSE f[step[q]]]
  <2>1. \A q \in S : End(q) = IF q \in Final THEN q ELSE f[step[q]]
    BY <1>3, <1>4
  <2> QED BY <2>1
<1> HIDE DEF f
<1> QED BY <1>5

-----------------------------------------------------------------------------
(* The parse loop. *)

\* What cmdbuf holds: cmdbuf as far as it has been filled.
Filled == cmdbuf \in Seq(Chars) /\ index < CmdbufLen

Stopped(q) == q.stop \/ At(q.cursor) = "nul"

\* A byte of cmdbuf is a character, and what lies behind the last is the terminator.
LEMMA Bytes ==
    ASSUME Filled, NEW i \in Nat
    PROVE  /\ index \in Nat
           /\ At(i) \in Chars \cup {"nul"}
           /\ At(i) # "nul" <=> i < index
<1>1. index \in Nat
  BY DEF Filled, index
<1>2. i < index => cmdbuf[i + 1] \in Chars
  BY <1>1 DEF Filled, index
<1>3. At(i) = IF i < index THEN cmdbuf[i + 1] ELSE "nul"
  BY DEF At
<1>4. "nul" \notin Chars
  BY DEF Chars
<1> QED BY <1>1, <1>2, <1>3, <1>4

\* What the lexemes change in a state: white space and commas, closed arrays, numbers.
LEMMA CursorMoved ==
    ASSUME NEW q \in ParserState, NEW c \in 0 .. CmdbufLen
    PROVE  /\ [q EXCEPT !.cursor = c] \in ParserState
           /\ [q EXCEPT !.due = "next", !.cursor = c] \in ParserState
BY DEF ParserState

\* A closed array, at any depth.
LEMMA ArrayClosed ==
    ASSUME NEW q \in ParserState, NEW d \in 0 .. TokensNum, d <= q.used
    PROVE  [q EXCEPT !.depth = d, !.due = "sep"] \in ParserState
BY DEF ParserState

\* A number, with its token.
LEMMA NumberTaken ==
    ASSUME NEW q \in ParserState, NEW c \in 0 .. CmdbufLen, NEW u \in 0 .. TokensNum,
           q.depth <= u
    PROVE  [q EXCEPT !.due = "sep", !.used = u, !.cursor = c] \in ParserState
BY DEF ParserState

\* The fields of a state.
LEMMA StateParts ==
    ASSUME NEW q \in ParserState
    PROVE  /\ q.cursor \in 0 .. CmdbufLen
           /\ q.depth \in 0 .. TokensNum /\ q.used \in 0 .. TokensNum /\ q.depth <= q.used
           /\ DOMAIN q = {"cursor", "depth", "due", "used", "code", "stop"}
BY DEF ParserState

\* parser_put_err_ stops the loop, and the cursor is at most one byte behind cmdbuf.
LEMMA ErrState ==
    ASSUME NEW q \in ParserState, NEW c \in Results, NEW n \in Nat, q.cursor + n <= CmdbufLen
    PROVE  LET r == Err(q, c, n)
           IN  r \in ParserState /\ r.stop /\ r.code = c /\ r.cursor = q.cursor + n
<1> DEFINE m == q.cursor + n
<1>1. m \in 0 .. CmdbufLen /\ Err(q, c, n) = [q EXCEPT !.code = c, !.cursor = m, !.stop = TRUE]
  BY StateParts, CmdbufAssumption DEF Err
<1> HIDE DEF m
<1>2. [q EXCEPT !.code = c, !.cursor = m, !.stop = TRUE] \in ParserState
  BY <1>1 DEF ParserState
<1> QED BY <1>1, <1>2, StateParts DEF m

\* Nothing is reported that did not take a byte.
Begun(q) == q.code = "incomplete" \/ q.cursor > 0

\* The kinds of states that one lexeme leads to from q.
Steps(q, r) ==
    /\ r \in ParserState
    /\ r.stop \/ r.cursor > q.cursor
    /\ Begun(q) => Begun(r)

\* One lexeme: the state stays one, the cursor moves on or the loop stops, and
\* nothing is reported that did not take a byte.
LEMMA ReadCharSteps ==
    ASSUME Filled, NEW q \in ParserState, ~Stopped(q)
    PROVE  Steps(q, ReadChar(q))
<1> USE CmdbufAssumption, TokensAssumption
<1> DEFINE c == q.cursor + 1
<1>1. /\ q.cursor \in Nat /\ c \in 0 .. CmdbufLen /\ c > q.cursor /\ c > 0
      /\ q.cursor + 2 <= CmdbufLen /\ q.cursor < index /\ index < CmdbufLen /\ index \in Nat
      /\ At(q.cursor) \in Chars
  <2>1. q.cursor \in Nat /\ q.cursor <= CmdbufLen /\ At(q.cursor) # "nul"
    BY StateParts DEF Stopped
  <2> QED BY <2>1, Bytes DEF Filled
<1>2. ASSUME NEW e \in Results, NEW n \in {1, 2} PROVE Steps(q, Err(q, e, n))
  <2>1. q.cursor + n <= CmdbufLen /\ q.cursor + n > 0 /\ q.cursor \in Nat
    BY <1>1
  <2> QED BY <2>1, ErrState DEF Steps, Begun
<1>3. CASE At(q.cursor) = " "
  <2>1. ReadChar(q) = [q EXCEPT !.cursor = @ + 1]
    BY <1>3 DEF ReadChar
  <2>2. ReadChar(q) = [q EXCEPT !.cursor = c]
    BY <2>1
  <2>4. c \in 0 .. CmdbufLen
    BY <1>1
  <2> HIDE DEF c
  <2>3. ReadChar(q) \in ParserState
    BY <2>2, <2>4, CursorMoved
  <2> QED BY <1>1, <2>2, <2>3, StateParts DEF Steps, Begun
<1>4. CASE At(q.cursor) = "["
  <2>1. ReadChar(q) = OpenArray(q)
    BY <1>4 DEF ReadChar
  <2>2. CASE ~InInput(q) \/ q.used = TokensNum
    BY <1>2, <2>1, <2>2 DEF OpenArray, Results
  <2>3. CASE InInput(q) /\ q.used # TokensNum
    <3> DEFINE d == q.depth + 1  u == q.used + 1
    <3>1. d \in 0 .. TokensNum /\ u \in 0 .. TokensNum /\ d <= u
      BY <2>3, StateParts
    <3>2. ReadChar(q) = [q EXCEPT !.depth = d, !.due = "first", !.used = u, !.cursor = c]
      BY <2>1, <2>3 DEF OpenArray
    <3>4. c \in 0 .. CmdbufLen
      BY <1>1
    <3> HIDE DEF d, u, c
    <3>3. ReadChar(q) \in ParserState
      BY <3>1, <3>2, <3>4 DEF ParserState
    <3> QED BY <1>1, <3>2, <3>3, StateParts DEF Steps, Begun
  <2> QED BY <2>2, <2>3
<1>5. CASE At(q.cursor) = "]"
  <2>1. ReadChar(q) = CloseArray(q)
    BY <1>5 DEF ReadChar
  <2>2. CASE q.depth = 0 \/ q.due = "next"
    BY <1>2, <2>1, <2>2 DEF CloseArray, Results
  <2>3. CASE ~(q.depth = 0 \/ q.due = "next") /\ q.depth = 1
    <3> DEFINE d == 0
               last == [q EXCEPT !.depth = d, !.due = "sep"]
    <3>1. last \in ParserState
      <4>1. d \in 0 .. TokensNum /\ d <= q.used
        BY StateParts
      <4> HIDE DEF d
      <4> QED BY <4>1, ArrayClosed
    <3>3. last.cursor = q.cursor
      BY StateParts
    <3>2. ReadChar(q) = Err(last, "complete", 1)
      BY <2>1, <2>3 DEF CloseArray
    <3> HIDE DEF last
    <3> QED BY <1>1, <3>1, <3>2, <3>3, ErrState DEF Steps, Begun, Results
  <2>4. CASE ~(q.depth = 0 \/ q.due = "next") /\ q.depth # 1
    <3> DEFINE d == q.depth - 1
    <3>1. d \in 0 .. TokensNum /\ d <= q.used
      BY <2>4, StateParts
    <3>2. ReadChar(q) = [q EXCEPT !.depth = d, !.due = "sep", !.cursor = c]
      BY <2>1, <2>4 DEF CloseArray
    <3>4. c \in 0 .. CmdbufLen
      BY <1>1
    <3> HIDE DEF d, c
    <3>3. ReadChar(q) \in ParserState
      BY <3>1, <3>2, <3>4 DEF ParserState
    <3> QED BY <1>1, <3>2, <3>3, StateParts DEF Steps, Begun
  <2> QED BY <2>2, <2>3, <2>4
<1>6. CASE At(q.cursor) = ","
  <2>1. ReadChar(q) = Comma(q)
    BY <1>6 DEF ReadChar
  <2>2. CASE q.due # "sep"
    BY <1>2, <2>1, <2>2 DEF Comma, Results
  <2>3. CASE q.due = "sep"
    <3>1. ReadChar(q) = [q EXCEPT !.due = "next", !.cursor = c]
      BY <2>1, <2>3 DEF Comma
    <3>3. c \in 0 .. CmdbufLen
      BY <1>1
    <3> HIDE DEF c
    <3>2. ReadChar(q) \in ParserState
      BY <3>1, <3>3, CursorMoved
    <3> QED BY <1>1, <3>1, <3>2, StateParts DEF Steps, Begun
  <2> QED BY <2>2, <2>3
<1>7. CASE At(q.cursor) = "1"
  <2> DEFINE ends == {i \in q.cursor .. index : At(i) # "1"}
             end == Min(ends)
  <2>1. ReadChar(q) = Number(q)
    BY <1>7 DEF ReadChar
  <2>2. end \in ends
    <3>1. At(index) = "nul"
      BY <1>1, Bytes
    <3>2. index \in ends /\ ends \subseteq Nat
      BY <1>1, <3>1
    <3> HIDE DEF ends
    <3> QED BY <3>2, MinIsLeast
  <2>3. end \in Nat /\ q.cursor < end /\ end <= index
    BY <1>1, <1>7, <2>2
  <2>4. \/ Number(q) \in {Err(q, "syntax", 1), Err(q, "tokens", 1), Err(q, "incomplete", 0)}
        \/ /\ q.used # TokensNum
           /\ Number(q) = [q EXCEPT !.due = "sep", !.used = @ + 1, !.cursor = end]
    BY DEF Number
  <2>5. Steps(q, Err(q, "incomplete", 0))
    BY <1>1, ErrState DEF Steps, Begun, Results
  <2>6. ASSUME q.used # TokensNum
        PROVE  Steps(q, [q EXCEPT !.due = "sep", !.used = @ + 1, !.cursor = end])
    <3> DEFINE u == q.used + 1
               r == [q EXCEPT !.due = "sep", !.used = u, !.cursor = end]
    <3>1. u \in 0 .. TokensNum /\ q.depth <= u
      BY <2>6, StateParts
    <3>2. end \in 0 .. CmdbufLen
      BY <1>1, <2>3
    <3> HIDE DEF end, u
    <3>3. r \in ParserState
      BY <3>1, <3>2, NumberTaken
    <3>4. r.cursor = end /\ r.code = q.code
      BY StateParts
    <3>5. Steps(q, r)
      BY <1>1, <2>3, <3>3, <3>4 DEF Steps, Begun
    <3> QED BY <3>5 DEF u
  <2> HIDE DEF end
  <2> QED BY <1>2, <2>1, <2>4, <2>5, <2>6 DEF Results
<1> QED BY <1>1, <1>3, <1>4, <1>5, <1>6, <1>7 DEF Chars

\* The loop of nmjson_parser_parse is defined everywhere.
LEMMA RunDefined ==
    ASSUME Filled
    PROVE  \A q \in ParserState : Run[q] = IF Stopped(q) THEN q ELSE Run[ReadChar(q)]
<1> DEFINE Final == {q \in ParserState : Stopped(q)}
           step == [q \in ParserState |-> IF Stopped(q) THEN q ELSE ReadChar(q)]
<1>1. Final \in SUBSET ParserState /\ step \in [ParserState -> ParserState]
  BY ReadCharSteps DEF Steps, Begun
<1>2. PICK f : f = [q \in ParserState |-> IF q \in Final THEN q ELSE f[step[q]]]
  <2> HIDE DEF Final, step
  <2> QED BY <1>1, LoopDefined
<1>3. f = [q \in ParserState |-> IF q.stop \/ At(q.cursor) = "nul" THEN q ELSE f[ReadChar(q)]]
  BY <1>2, Zenon DEF Stopped
<1>4. Run = [q \in ParserState |-> IF q.stop \/ At(q.cursor) = "nul" THEN q ELSE Run[ReadChar(q)]]
  BY <1>3 DEF Run
<1> QED BY <1>4 DEF Stopped

\* Induction along the loop: what holds where it stops, and before a lexeme when
\* it holds after it, holds in every state.
LEMMA LoopInduction ==
    ASSUME Filled, NEW G,
           \A q \in ParserState : Stopped(q) \/ ReadChar(q) \in G => q \in G
    PROVE  ParserState \subseteq G
<1> DEFINE Rank(q) == IF Stopped(q) THEN 0 ELSE CmdbufLen + 1 - q.cursor
           ranks == {n \in Nat : \E q \in ParserState : q \notin G /\ Rank(q) = n}
<1>1. \A q \in ParserState : Rank(q) \in Nat
  BY StateParts, CmdbufAssumption
<1>2. ASSUME NEW q \in ParserState, ~Stopped(q)
      PROVE  ReadChar(q) \in ParserState /\ Rank(ReadChar(q)) < Rank(q)
  <2>1. Steps(q, ReadChar(q))
    BY <1>2, ReadCharSteps
  <2> DEFINE r == ReadChar(q)
  <2>2. r \in ParserState /\ (Stopped(r) \/ r.cursor > q.cursor)
    BY <2>1 DEF Steps, Stopped
  <2> HIDE DEF r
  <2>3. Rank(r) < Rank(q)
    BY <1>2, <2>2, StateParts, CmdbufAssumption
  <2> QED BY <2>2, <2>3 DEF r
<1>3. ASSUME ranks # {} PROVE FALSE
  <2>1. PICK n \in ranks : \A m \in ranks : n <= m
    <3> HIDE DEF ranks
    <3>1. ranks \subseteq Nat
      BY DEF ranks
    <3> QED BY <1>3, <3>1, Least
  <2>2. PICK q \in ParserState : q \notin G /\ Rank(q) = n
    OBVIOUS
  <2>3. ~Stopped(q) /\ ReadChar(q) \notin G
    BY <2>2
  <2>4. ReadChar(q) \in ParserState /\ Rank(ReadChar(q)) < n
    BY <1>2, <2>2, <2>3
  <2> HIDE DEF Rank
  <2>5. Rank(ReadChar(q)) \in ranks
    BY <1>1, <2>3, <2>4
  <2>6. n \in Nat /\ Rank(ReadChar(q)) \in Nat /\ n <= Rank(ReadChar(q))
    BY <1>1, <2>1, <2>4, <2>5
  <2> QED BY <2>4, <2>6
<1> HIDE DEF Rank
<1> QED BY <1>1, <1>3

\* The loop ends in a state in which it stops.
LEMMA RunEnds ==
    ASSUME Filled, NEW p \in ParserState, Begun(p)
    PROVE  Run[p] \in ParserState /\ Stopped(Run[p]) /\ Begun(Run[p])
<1> DEFINE Ends(q) == Run[q] \in ParserState /\ Stopped(Run[q]) /\ Begun(Run[q])
           G == {q \in ParserState : Begun(q) => Ends(q)}
<1>1. ASSUME NEW q \in ParserState, Stopped(q) PROVE q \in G
  <2>1. Run[q] = q
    BY <1>1, RunDefined
  <2> QED BY <1>1, <2>1
<1>2. ASSUME NEW q \in ParserState, ~Stopped(q), ReadChar(q) \in G PROVE q \in G
  <2>1. Run[q] = Run[ReadChar(q)]
    BY <1>2, RunDefined
  <2>2. ASSUME Begun(q) PROVE Begun(ReadChar(q))
    <3>1. Steps(q, ReadChar(q))
      BY <1>2, ReadCharSteps
    <3>2. \/ ReadChar(q).cursor > q.cursor
          \/ ReadChar(q).code = "incomplete" \/ ReadChar(q).cursor > 0 \/ q.code # "incomplete"
      BY <3>1 DEF Steps, Begun
    <3> QED BY <2>2, <3>1 DEF Steps, Begun
  <2> QED BY <1>2, <2>1, <2>2
<1>3. ParserState \subseteq G
  <2> HIDE DEF G
  <2> QED BY <1>1, <1>2, LoopInduction
<1> QED BY <1>3

-----------------------------------------------------------------------------
(* The calls. *)

\* What the return value tells, in the loop too.
ReturnTells ==
    /\ (cause = "closed") <=> (ret = -1)
    /\ (cause = "system") <=> (ret = -2)
    /\ (cause = "library") <=> (ret = -3)
    /\ (cause = "callback") <=> (ret < -3)

\* The loop ends when a turn leaves as many bytes as the one before, so that
\* number has to leave room as well.
RoomLeft == pc # "idle" => prevIndex < CmdbufLen - 1

CallInv == TypeOK /\ LoadableWhenIdle /\ RoomLeft /\ ReturnTells

\* What nmjson_parser_parse leaves to the buffer.
LEMMA ParsedDocument ==
    ASSUME CallInv
    PROVE  LET p == Parse(parser)
           IN  /\ p \in ParserState /\ ~p.stop
               /\ p.code = "incomplete" \/ p.cursor > 0
               /\ p.code \in Results
<1>1. Filled /\ parser \in ParserState /\ Begun(parser)
  BY DEF CallInv, TypeOK, Filled, Begun
<1>2. Run[parser] \in ParserState /\ Begun(Run[parser])
  BY <1>1, RunEnds
<1> DEFINE r == Run[parser]
           p == [r EXCEPT !.stop = FALSE]
<1>3. /\ p \in ParserState /\ ~p.stop
      /\ p.code = "incomplete" \/ p.cursor > 0
      /\ p.code \in Results
  <2> HIDE DEF r
  <2>1. r \in ParserState /\ Begun(r)
    BY <1>2 DEF r
  <2> QED BY <2>1 DEF ParserState, Begun
<1> QED BY <1>3 DEF Parse

\* A reset parser is in a state.
LEMMA FreshState ==
    Fresh \in ParserState /\ ~Fresh.stop /\ Fresh.code = "incomplete"
BY CmdbufAssumption, TokensAssumption DEF Fresh, ParserState, Results

\* What a turn leaves in cmdbuf and in the parser.
Left ==
    /\ cmdbuf \in Seq(Chars) /\ index < CmdbufLen - 1
    /\ parser \in ParserState /\ ~parser.stop /\ parser.code = "incomplete"

\* buffer_flush_ leaves an empty buffer.
LEMMA Flushed ==
    ASSUME Flush PROVE Left'
<1>1. Left' <=> /\ cmdbuf' \in Seq(Chars) /\ Len(cmdbuf') < CmdbufLen - 1
                /\ parser' \in ParserState /\ ~parser'.stop /\ parser'.code = "incomplete"
  BY DEF Left, index
<1>2. cmdbuf' = <<>> /\ parser' = Fresh
  BY DEF Flush
<1> QED BY <1>1, <1>2, FreshState, CmdbufAssumption

\* buffer_dequeue_ of at least one byte leaves room for another one.
LEMMA Dequeued ==
    ASSUME CallInv, NEW n \in Nat, n > 0, Dequeue(n) PROVE Left'
<1>1. CASE index <= n
  BY <1>1, Flushed DEF Dequeue
<1>2. CASE ~(index <= n)
  <2>1. cmdbuf \in Seq(Chars) /\ index \in Nat /\ index < CmdbufLen /\ index = Len(cmdbuf)
    BY DEF CallInv, TypeOK, index
  <2>2. cmdbuf' = SubSeq(cmdbuf, n + 1, Len(cmdbuf)) /\ parser' = Fresh
    BY <1>2, <2>1 DEF Dequeue
  <2>3. cmdbuf' \in Seq(Chars) /\ Len(cmdbuf') < CmdbufLen - 1
    BY <1>2, <2>1, <2>2, CmdbufAssumption
  <2> QED BY <2>2, <2>3, FreshState DEF Left, index
<1> QED BY <1>1, <1>2

\* The end of a turn keeps the invariant, whatever was answered.
LEMMA TurnEnds ==
    ASSUME CallInv, pc # "idle", Left', NEW tmp \in Answers, NEW result \in Results,
           EndTurn(tmp, result)
    PROVE  CallInv'
<1> USE CmdbufAssumption
<1>1. /\ cmdbuf' \in Seq(Chars) /\ Len(cmdbuf') \in Nat /\ Len(cmdbuf') < CmdbufLen - 1
      /\ index' = Len(cmdbuf')
      /\ parser' \in ParserState /\ ~parser'.stop /\ parser'.code = "incomplete"
  BY DEF Left, index
<1>2. /\ prevIndex \in Nat /\ prevIndex < CmdbufLen - 1 /\ ret \in -4 .. 1
      /\ pc \in {"read", "cmd"} /\ ReturnTells
      /\ cause \in {"none", "closed", "system", "library", "callback"}
  BY DEF CallInv, TypeOK, RoomLeft
<1>3. /\ pc' \in {"idle", "read", "cmd"} /\ prevIndex' \in 0 .. CmdbufLen - 1
      /\ prevIndex' < CmdbufLen - 1 \/ pc' = "idle"
  BY <1>1, <1>2 DEF EndTurn
<1>4. ret' \in -4 .. 1 /\ ReturnTells'
      /\ cause' \in {"none", "closed", "system", "library", "callback"}
  <2>0. ret' = Accumulate(tmp, result) /\ tmp \in -1 .. 1
        /\ cause' = IF ~IsContinuable(result) THEN "library"
                    ELSE IF tmp < 0 THEN "callback" ELSE cause
    BY DEF EndTurn, Answers
  <2>1. CASE ~IsContinuable(result)
    <3>1. ret' = -3 /\ cause' = "library"
      BY <2>0, <2>1 DEF Accumulate
    <3> QED BY <3>1 DEF ReturnTells
  <2>2. CASE IsContinuable(result) /\ tmp < 0
    <3>1. ret' = -4 /\ cause' = "callback"
      BY <2>0, <2>2 DEF Accumulate
    <3> QED BY <3>1 DEF ReturnTells
  <2>3. CASE IsContinuable(result) /\ ~(tmp < 0)
    <3>1. cause' = cause /\ ret' = IF ret >= 0 THEN Max({ret, tmp}) ELSE ret
      BY <2>0, <2>3 DEF Accumulate
    <3>2. Max({ret, tmp}) = IF ret >= tmp THEN ret ELSE tmp
      BY <1>2, <2>0, MaxOfTwo
    <3> QED BY <1>2, <2>0, <2>3, <3>1, <3>2 DEF ReturnTells
  <2> QED BY <2>1, <2>2, <2>3
<1>5. lastResult' \in Results
  BY DEF EndTurn
<1> QED BY <1>1, <1>3, <1>4, <1>5
        DEF CallInv, TypeOK, LoadableWhenIdle, Loadable, RoomLeft

\* The case of a turn in which nothing ends.
LEMMA Suspended ==
    ASSUME CallInv, NEW p, p = Parse(parser), ResultOf(p) = "incomplete",
           parser' = p, UNCHANGED cmdbuf
    PROVE  Left'
<1>1. p \in ParserState /\ ~p.stop /\ p.code = "incomplete" /\ index < CmdbufLen - 1
  BY ParsedDocument DEF ResultOf, Loadable
<1>2. cmdbuf \in Seq(Chars)
  BY DEF CallInv, TypeOK
<1> QED BY <1>1, <1>2 DEF Left, index

\* A turn of either loop keeps the invariant.
LEMMA TurnKeeps ==
    ASSUME CallInv, Turn PROVE CallInv'
<1> DEFINE p == Parse(parser)
           result == ResultOf(p)
<1>1. result \in Results /\ p.cursor \in Nat
  BY ParsedDocument, StateParts DEF ResultOf, Results
<1>2. result \in {"complete", "syntax"} => p.cursor > 0
  BY ParsedDocument DEF ResultOf
<1>3. pc # "idle"
  BY DEF Turn, Dispatch, ProcCmd
<1>4. \/ result = "incomplete" /\ parser' = p /\ UNCHANGED cmdbuf /\ EndTurn(0, result)
      \/ Flush /\ EndTurn(1, result)
      \/ result = "syntax" /\ Dequeue(p.cursor) /\ EndTurn(1, result)
      \/ /\ result = "complete" /\ Dequeue(p.cursor)
         /\ \E answer \in Answers : EndTurn(answer, result)
  BY DEF Turn, Dispatch, ProcCmd
<1>5. 0 \in Answers /\ 1 \in Answers
  BY DEF Answers
<1>6. CASE result = "incomplete" /\ parser' = p /\ UNCHANGED cmdbuf /\ EndTurn(0, result)
  <2>1. Left'
    BY <1>6, Suspended
  <2> HIDE DEF result
  <2> QED BY <1>1, <1>3, <1>5, <1>6, <2>1, TurnEnds
<1>7. CASE Flush /\ EndTurn(1, result)
  <2>1. Left'
    BY <1>7, Flushed
  <2> HIDE DEF result
  <2> QED BY <1>1, <1>3, <1>5, <1>7, <2>1, TurnEnds
<1>8. ASSUME result \in {"complete", "syntax"}, Dequeue(p.cursor),
             NEW answer \in Answers, EndTurn(answer, result)
      PROVE  CallInv'
  <2>1. Left'
    BY <1>1, <1>2, <1>8, Dequeued
  <2> HIDE DEF result
  <2> QED BY <1>1, <1>3, <1>8, <2>1, TurnEnds
<1> HIDE DEF p, result
<1> QED BY <1>4, <1>5, <1>6, <1>7, <1>8

\* A read of no more bytes than asked for keeps the invariant.
LEMMA LoadKeeps ==
    ASSUME CallInv, NEW entry \in {"read", "cmd"}, NEW n \in Nat, NEW chunk \in [1 .. n -> Chars],
           Load(entry, chunk)
    PROVE  CallInv'
<1> USE CmdbufAssumption
<1>1. /\ pc = "idle" /\ index < CmdbufLen - 1 /\ Loadable /\ index = Len(cmdbuf)
      /\ cmdbuf \in Seq(Chars) /\ index \in Nat
  BY DEF CallInv, TypeOK, LoadableWhenIdle, Loadable, Load, index
<1>2. chunk \in Seq(Chars) /\ Len(chunk) \in Nat /\ Len(chunk) <= CmdbufLen - 1 - index
  BY <1>1 DEF Load, Room
<1>3. /\ cmdbuf' = cmdbuf \o chunk /\ pc' = entry /\ prevIndex' = index /\ ret' = 0
      /\ cause' = "none" /\ UNCHANGED <<parser, lastResult>>
  BY <1>1 DEF Load
<1>4. cmdbuf' \in Seq(Chars) /\ index' = index + Len(chunk)
  BY <1>1, <1>2, <1>3 DEF index
<1>5. TypeOK'
  BY <1>1, <1>2, <1>3, <1>4 DEF CallInv, TypeOK
<1>6. LoadableWhenIdle' /\ RoomLeft' /\ ReturnTells'
  BY <1>1, <1>3 DEF LoadableWhenIdle, RoomLeft, ReturnTells
<1> QED BY <1>5, <1>6 DEF CallInv

\* A read of nothing keeps the invariant.
LEMMA NoDataKeeps ==
    ASSUME CallInv, WouldBlock \/ Closed \/ SystemErr
    PROVE  CallInv'
<1>1. /\ UNCHANGED <<cmdbuf, parser, lastResult, pc, prevIndex>>
      /\ \/ ret' = 0 /\ cause' = "none"
         \/ ret' = -1 /\ cause' = "closed"
         \/ ret' = -2 /\ cause' = "system"
  BY DEF WouldBlock, Closed, SystemErr, NoData
<1>2. ret' \in -4 .. 1 /\ ReturnTells'
      /\ cause' \in {"none", "closed", "system", "library", "callback"}
  BY <1>1 DEF ReturnTells
<1>3. index' = index
  BY <1>1 DEF index
<1> QED BY <1>1, <1>2, <1>3 DEF CallInv, TypeOK, LoadableWhenIdle, Loadable, RoomLeft

\* The calls keep the types, the room for a byte, and the return value right; that
\* there is room when a call returns rests on RoomLeft while it runs.
THEOREM CallInvariant == Spec => []CallInv
<1>1. Init => CallInv
  <2> SUFFICES ASSUME Init PROVE CallInv
    OBVIOUS
  <2>1. index = 0 /\ parser = Fresh
    BY DEF Init, index
  <2> QED BY <2>1, FreshState, CmdbufAssumption
          DEF Init, CallInv, TypeOK, LoadableWhenIdle, Loadable, RoomLeft, ReturnTells, Results
<1>2. CallInv /\ [Next]_vars => CallInv'
  <2> SUFFICES ASSUME CallInv, [Next]_vars PROVE CallInv'
    OBVIOUS
  <2>1. ASSUME NEW entry \in {"read", "cmd"}, NEW n \in 1 .. Max({1, Room}),
               NEW chunk \in [1 .. n -> Chars], Load(entry, chunk)
        PROVE  CallInv'
    <3>1. n \in Nat
      OBVIOUS
    <3> QED BY <2>1, <3>1, LoadKeeps
  <2>2. CASE WouldBlock \/ Closed \/ SystemErr
    BY <2>2, NoDataKeeps
  <2>3. CASE Turn
    BY <2>3, TurnKeeps
  <2>4. CASE UNCHANGED vars
    BY <2>4 DEF vars, CallInv, TypeOK, LoadableWhenIdle, Loadable, RoomLeft, ReturnTells, index
  <2> QED BY <2>1, <2>2, <2>3, <2>4 DEF Next
<1> QED BY <1>1, <1>2, PTL DEF Spec

\* The state of the buffer and of its parser has its type between any two turns:
\* there is a byte for the terminator, and the parser is reset or suspended.
THEOREM TypeCorrect == Spec => []TypeOK
<1>1. CallInv => TypeOK
  BY DEF CallInv
<1> QED BY <1>1, CallInvariant, PTL

\* nmjson_buffer_read never returns with a full cmdbuf, of whatever size it is.
THEOREM NeverJams == Spec => []LoadableWhenIdle
<1>1. CallInv => LoadableWhenIdle
  BY DEF CallInv
<1> QED BY <1>1, CallInvariant, PTL

\* The return value of a call tells the last failure in it.
THEOREM ReturnIsRight == Spec => []ReturnTellsLastFailure
<1>1. CallInv => ReturnTellsLastFailure
  BY DEF CallInv, ReturnTells, ReturnTellsLastFailure
<1> QED BY <1>1, CallInvariant, PTL

-----------------------------------------------------------------------------
(* Suspending and resuming. *)

RunIsLoop == \A q \in ParserState : Run[q] = IF Stopped(q) THEN q ELSE Run[ReadChar(q)]

\* RunDefined, of the state after a step.
LEMMA RunDefinedNext ==
    (Filled => RunIsLoop)'
<1>1. Filled => RunIsLoop
  BY RunDefined DEF RunIsLoop
<1> QED BY <1>1, PTL

\* More bytes were appended, or none.
Grown ==
    /\ index' \in Nat /\ index <= index'
    /\ \A i \in 1 .. index : cmdbuf'[i] = cmdbuf[i]

\* A lexeme that does not stop the loop leaves the result alone.
LEMMA CodeOnlyAtStop ==
    ASSUME Filled, NEW q \in ParserState, ~Stopped(q), ~ReadChar(q).stop
    PROVE  ReadChar(q).code = q.code
<1>1. At(q.cursor) \in Chars
  BY StateParts, Bytes DEF Stopped
<1>2. \A p \in ParserState, c \in Results, n \in Nat : Err(p, c, n).stop
  BY StateParts DEF Err
<1> QED BY <1>1, StateParts, <1>2
        DEF ReadChar, OpenArray, CloseArray, Comma, Number, Err, Chars

\* The bytes that were there stay where they were.
LEMMA SameByte ==
    ASSUME Grown, index \in Nat, NEW i \in Nat, i < index
    PROVE  At(i)' = At(i) /\ i < index'
BY DEF At, Grown

\* A lexeme that was read whole is read in the same way when more follows it.
LEMMA SameLexeme ==
    ASSUME Filled, Grown, NEW q \in ParserState, ~Stopped(q), q.code = "incomplete"
    PROVE  IF ReadChar(q).stop
           THEN ReadChar(q).code # "incomplete" \/ ReadChar(q) = [q EXCEPT !.stop = TRUE]
           ELSE ReadChar(q)' = ReadChar(q) /\ ~Stopped(q)'
<1>1. /\ q.cursor \in Nat /\ index \in Nat /\ q.cursor < index /\ At(index) = "nul"
      /\ At(q.cursor) \in Chars /\ ~q.stop
  <2>1. q.cursor \in Nat /\ At(q.cursor) # "nul" /\ ~q.stop
    BY StateParts DEF Stopped
  <2> QED BY <2>1, Bytes
<1>2. At(q.cursor)' = At(q.cursor) /\ ~Stopped(q)'
  <2>1. At(q.cursor)' = At(q.cursor)
    BY <1>1, SameByte
  <2>2. At(q.cursor) # "nul"
    BY <1>1 DEF Chars
  <2> QED BY <1>1, <2>1, <2>2 DEF Stopped
<1>3. CASE At(q.cursor) # "1"
  <2>1. /\ OpenArray(q)' = OpenArray(q)
        /\ CloseArray(q)' = CloseArray(q)
        /\ Comma(q)' = Comma(q)
    BY DEF OpenArray, CloseArray, Comma, Err, InInput
  <2>2. ReadChar(q)' = ReadChar(q)
    BY <1>1, <1>2, <1>3, <2>1 DEF ReadChar, Chars
  <2>3. ReadChar(q).stop => ReadChar(q).code # "incomplete"
    BY <1>1, <1>3, StateParts DEF ReadChar, OpenArray, CloseArray, Comma, Err, Chars
  <2> QED BY <1>2, <2>2, <2>3
<1>4. CASE At(q.cursor) = "1"
  <2> DEFINE ends == {i \in q.cursor .. index : At(i) # "1"}
             later == {i \in q.cursor .. index' : At(i)' # "1"}
  <2>1. ReadChar(q) = Number(q) /\ ReadChar(q)' = Number(q)'
    BY <1>2, <1>4 DEF ReadChar
  <2>2. ends \subseteq Nat /\ index \in ends
    BY <1>1
  <2>3. PICK end \in ends : \A i \in ends : end <= i
    <3> HIDE DEF ends
    <3> QED BY <2>2, Least
  <2>7. Min(ends) = end
    <3> HIDE DEF ends
    <3> QED BY <2>2, <2>3, MinIs
  <2>8. end \in Nat /\ q.cursor <= end /\ end <= index /\ At(end) # "1"
    BY <1>1, <2>3
  <2>4. CASE q.depth = 0 \/ ~InInput(q) \/ q.used = TokensNum
    <3>1. Number(q).stop /\ Number(q).code # "incomplete"
      BY <2>4, StateParts DEF Number, Err
    <3> QED BY <2>1, <3>1
  <2>5. CASE ~(q.depth = 0 \/ ~InInput(q) \/ q.used = TokensNum) /\ At(end) = "nul"
    <3>1. Number(q) = Err(q, "incomplete", 0)
      BY <2>5, <2>7 DEF Number
    <3>2. Err(q, "incomplete", 0) = [q EXCEPT !.stop = TRUE]
      <4>1. q.cursor + 0 = q.cursor /\ q.code = "incomplete"
        BY <1>1
      <4>2. Err(q, "incomplete", 0) =
              [q EXCEPT !.code = q.code, !.cursor = q.cursor, !.stop = TRUE]
        BY <4>1 DEF Err
      <4> QED BY <4>2 DEF ParserState
    <3> QED BY <2>1, <3>1, <3>2, StateParts
  <2>6. CASE ~(q.depth = 0 \/ ~InInput(q) \/ q.used = TokensNum) /\ At(end) # "nul"
    <3>1. end < index
      BY <1>1, <2>6, <2>8
    <3>2. At(end)' = At(end) /\ end < index'
      BY <1>1, <2>8, <3>1, SameByte
    <3>3. Min(later) = end
      <4>1. later \subseteq Nat
        BY <1>1
      <4>2. end \in later
        BY <2>8, <3>2 DEF Grown
      <4>3. ASSUME NEW i \in later PROVE end <= i
        <5>1. i \in Nat /\ q.cursor <= i /\ At(i)' # "1"
          BY <1>1, <4>3
        <5>2. CASE i < index
          <6>1. At(i)' = At(i)
            BY <1>1, <5>1, <5>2, SameByte
          <6> QED BY <1>1, <2>3, <5>1, <5>2, <6>1
        <5>3. CASE ~(i < index)
          BY <1>1, <2>8, <3>1, <5>1, <5>3
        <5> QED BY <5>2, <5>3
      <4> HIDE DEF later
      <4> QED BY <4>1, <4>2, <4>3, MinIs
    <3>4. Number(q)' = Number(q)
      <4>1. Number(q) = IF At(end) \in {"]", ",", " "}
                        THEN [q EXCEPT !.due = "sep", !.used = @ + 1, !.cursor = end]
                        ELSE Err(q, "syntax", 1)
        BY <2>6, <2>7 DEF Number
      <4>2. Number(q)' = IF At(end)' \in {"]", ",", " "}
                         THEN [q EXCEPT !.due = "sep", !.used = @ + 1, !.cursor = end]
                         ELSE Err(q, "syntax", 1)
        BY <2>6, <3>2, <3>3 DEF Number, InInput, Err
      <4> QED BY <3>2, <4>1, <4>2
    <3>5. Number(q).stop => Number(q).code # "incomplete"
      BY <1>1, <2>6, <2>7, StateParts DEF Number, Err
    <3> QED BY <1>2, <2>1, <3>4, <3>5
  <2> QED BY <2>4, <2>5, <2>6
<1> QED BY <1>3, <1>4

\* Where the loop was suspended at e for want of bytes, going on from e when there
\* are more gives what going through all of them gives.
LEMMA Resumes ==
    ASSUME Filled, Filled', Grown,
           NEW p \in ParserState, ~p.stop, p.code = "incomplete",
           NEW e, e = Parse(p), e.code = "incomplete"
    PROVE  e \in ParserState /\ ~e.stop /\ Run[p]' = Run[e]'
<1> DEFINE Waits(q) == ~q.stop /\ q.code = "incomplete" /\ e = Parse(q)
           G == {q \in ParserState : Waits(q) => e \in ParserState /\ ~e.stop /\ Run[q]' = Run[e]'}
<1>1. ASSUME NEW q \in ParserState, Stopped(q) PROVE q \in G
  <2>1. ASSUME Waits(q) PROVE e = q
    <3>1. Run[q] = q
      BY <1>1, RunDefined
    <3>2. e = [q EXCEPT !.stop = FALSE] /\ q.stop = FALSE
      BY <2>1, <3>1 DEF Parse, ParserState
    <3> QED BY <3>2 DEF ParserState
  <2> QED BY <2>1
<1>2. ASSUME NEW q \in ParserState, ~Stopped(q), ReadChar(q) \in G PROVE q \in G
  <2>0. SUFFICES ASSUME Waits(q)
                 PROVE  e \in ParserState /\ ~e.stop /\ Run[q]' = Run[e]'
    OBVIOUS
  <2>1. PICK r : r = ReadChar(q)
    OBVIOUS
  <2>2. Run[q] = Run[r] /\ r \in G /\ r \in ParserState
    BY <1>2, <2>1, RunDefined
  <2>3. CASE r.stop
    <3>1. Run[r] = r
      BY <2>2, <2>3, RunDefined DEF Stopped
    <3>2. e = [r EXCEPT !.stop = FALSE] /\ r.code = "incomplete"
      <4>1. e = [r EXCEPT !.stop = FALSE] /\ e.code = "incomplete"
        BY <2>0, <2>2, <3>1 DEF Parse
      <4>2. [r EXCEPT !.stop = FALSE].code = r.code
        BY <2>2, StateParts
      <4> QED BY <4>1, <4>2
    <3>3. r = [q EXCEPT !.stop = TRUE]
      BY <1>2, <2>0, <2>1, <2>3, <3>2, SameLexeme, StateParts
    <3>4. e = q
      <4>1. q.stop = FALSE
        BY <2>0 DEF ParserState
      <4>2. e = [q EXCEPT !.stop = FALSE]
        BY <3>2, <3>3, StateParts DEF ParserState
      <4>3. [q EXCEPT !.stop = FALSE] = q
        BY <4>1 DEF ParserState
      <4> QED BY <4>2, <4>3
    <3> QED BY <2>0, <3>4
  <2>4. CASE ~r.stop
    <3>1. r.code = "incomplete"
      BY <1>2, <2>0, <2>1, <2>4, CodeOnlyAtStop
    <3>2. Waits(r)
      BY <2>0, <2>2, <2>4, <3>1 DEF Parse
    <3>3. ReadChar(q)' = r /\ ~Stopped(q)'
      BY <1>2, <2>0, <2>1, <2>4, SameLexeme, StateParts
    <3>4. Run[q]' = Run[r]'
      BY <3>3, RunDefinedNext DEF RunIsLoop
    <3> QED BY <2>2, <3>2, <3>4
  <2> QED BY <2>3, <2>4
<1>3. ParserState \subseteq G
  <2> HIDE DEF G
  <2> QED BY <1>1, <1>2, LoopInduction
<1> QED BY <1>3

\* The loop reads nothing but cmdbuf.
LEMMA SameRun ==
    ASSUME Filled, UNCHANGED cmdbuf
    PROVE  \A q \in ParserState : Run[q]' = Run[q]
<1> DEFINE G == {q \in ParserState : Run[q]' = Run[q]}
<1>1. Filled' /\ index' = index /\ \A i : At(i)' = At(i)
  BY DEF Filled, index, At
<1>2. ASSUME NEW q \in ParserState
      PROVE  /\ Stopped(q)' = Stopped(q) /\ ReadChar(q)' = ReadChar(q)
             /\ Run[q]' = IF Stopped(q) THEN q ELSE Run[ReadChar(q)]'
  <2>1. Stopped(q)' = Stopped(q)
    BY DEF Stopped, At, index
  <2>2. ReadChar(q)' = ReadChar(q)
    BY DEF ReadChar, OpenArray, CloseArray, Comma, Number, Err, InInput, At, index
  <2>3. Run[q]' = IF Stopped(q)' THEN q ELSE (Run[ReadChar(q)])'
    BY <1>1, RunDefinedNext DEF RunIsLoop
  <2> QED BY <2>1, <2>2, <2>3
<1>3. \A q \in ParserState : Stopped(q) \/ ReadChar(q) \in G => q \in G
  <2> TAKE q \in ParserState
  <2>1. Run[q] = IF Stopped(q) THEN q ELSE Run[ReadChar(q)]
    BY RunDefined
  <2>2. PICK r : r = ReadChar(q)
    OBVIOUS
  <2>3. Run[q]' = IF Stopped(q) THEN q ELSE Run[r]'
    BY <1>2, <2>2
  <2> QED BY <2>1, <2>2, <2>3
<1>4. ParserState \subseteq G
  <2> HIDE DEF G
  <2> QED BY <1>3, LoopInduction
<1> QED BY <1>4

\* A parser that waits between two calls has used all that one pass would use.
Resumable ==
    /\ ChunkingInvisible
    /\ pc = "idle" => parser = Fresh \/ Parse(parser).code = "incomplete"

\* A reset parser has nothing to resume.
LEMMA FlushedResumable ==
    ASSUME parser' = Fresh PROVE Resumable'
<1>1. Fresh' = Fresh
  BY DEF Fresh
<1>2. Parse(parser)' = Parse(Fresh)'
  BY <1>1 DEF Parse
<1> QED BY <1>1, <1>2 DEF Resumable, ChunkingInvisible

\* A read puts its bytes behind those that were there.
LEMMA LoadResumable ==
    ASSUME CallInv, CallInv', Resumable,
           NEW entry \in {"read", "cmd"}, NEW n \in Nat, NEW chunk \in [1 .. n -> Chars],
           Load(entry, chunk)
    PROVE  Resumable'
<1>1. /\ pc = "idle" /\ Loadable /\ cmdbuf \in Seq(Chars) /\ cmdbuf' \in Seq(Chars)
      /\ parser \in ParserState /\ ~parser.stop /\ parser.code = "incomplete"
      /\ Filled /\ Filled'
  BY DEF CallInv, TypeOK, LoadableWhenIdle, Load, Filled
<1>2. cmdbuf' = cmdbuf \o chunk /\ parser' = parser /\ pc' = entry /\ chunk \in Seq(Chars)
  BY <1>1 DEF Load
<1>3. Grown
  BY <1>1, <1>2 DEF Grown, index
<1>4. CASE parser = Fresh
  BY <1>2, <1>4, FlushedResumable
<1>5. CASE parser # Fresh
  <2>1. PICK p : p = parser
    OBVIOUS
  <2>2. PICK e : e = Parse(p)
    OBVIOUS
  <2>3. PICK f : f = Fresh
    OBVIOUS
  <2>4. e = Parse(f) /\ e.code = "incomplete"
    BY <1>1, <1>5, <2>1, <2>2, <2>3 DEF Resumable, ChunkingInvisible
  <2>5. Run[p]' = Run[e]'
    BY <1>1, <1>3, <2>1, <2>2, <2>4, Resumes
  <2>6. Run[f]' = Run[e]'
    BY <1>1, <1>3, <2>3, <2>4, Resumes, FreshState
  <2>7. Parse(parser)' = Parse(Fresh)'
    BY <1>2, <2>1, <2>3, <2>5, <2>6 DEF Parse, Fresh
  <2> QED BY <1>2, <2>7 DEF Resumable, ChunkingInvisible
<1> QED BY <1>4, <1>5

\* A turn in which nothing ends.
LEMMA SuspendedResumable ==
    ASSUME CallInv, Resumable, NEW e, e = Parse(parser), e.code = "incomplete",
           parser' = e, UNCHANGED cmdbuf
    PROVE  Resumable'
<1>1. /\ parser \in ParserState /\ ~parser.stop /\ parser.code = "incomplete"
      /\ Filled /\ Filled' /\ cmdbuf \in Seq(Chars)
  BY DEF CallInv, TypeOK, Filled, index
<1>2. Grown
  BY <1>1 DEF Grown, index
<1>3. PICK p : p = parser
  OBVIOUS
<1>4. PICK f : f = Fresh
  OBVIOUS
<1>5. e = Parse(p) /\ e = Parse(f)
  BY <1>3, <1>4 DEF Resumable, ChunkingInvisible
<1>6. Run[p]' = Run[e]'
  BY <1>1, <1>2, <1>3, <1>5, Resumes
<1>7. Run[f]' = Run[e]'
  BY <1>1, <1>2, <1>4, <1>5, Resumes, FreshState
<1>8. Parse(parser)' = Parse(Fresh)'
  BY <1>4, <1>6, <1>7 DEF Parse, Fresh
<1>9. Run[p]' = Run[p]
  BY <1>1, <1>3, SameRun
<1>10. Parse(parser)' = e
  BY <1>5, <1>6, <1>9 DEF Parse
<1> QED BY <1>8, <1>10 DEF Resumable, ChunkingInvisible

\* A read that gave nothing.
LEMMA UnchangedResumable ==
    ASSUME CallInv, Resumable, UNCHANGED <<cmdbuf, parser, pc>>
    PROVE  Resumable'
<1>1. /\ parser \in ParserState /\ Filled
  BY DEF CallInv, TypeOK, Filled
<1>2. PICK p : p = parser
  OBVIOUS
<1>3. PICK f : f = Fresh
  OBVIOUS
<1>4. Run[p]' = Run[p] /\ Run[f]' = Run[f]
  BY <1>1, <1>2, <1>3, SameRun, FreshState
<1>5. Parse(parser)' = Parse(parser) /\ Parse(Fresh)' = Parse(Fresh)
  BY <1>2, <1>3, <1>4 DEF Parse, Fresh
<1> QED BY <1>5 DEF Resumable, ChunkingInvisible, Fresh

\* A turn of either loop.
LEMMA TurnResumable ==
    ASSUME CallInv, Resumable, Turn PROVE Resumable'
<1> DEFINE p == Parse(parser)
           result == ResultOf(p)
<1>1. \/ result = "incomplete" /\ parser' = p /\ UNCHANGED cmdbuf
      \/ Flush
      \/ Dequeue(p.cursor)
  BY DEF Turn, Dispatch, ProcCmd
<1>2. result = "incomplete" => p.code = "incomplete"
  BY DEF ResultOf
<1>3. \/ p.code = "incomplete" /\ parser' = p /\ UNCHANGED cmdbuf
      \/ parser' = Fresh
  BY <1>1, <1>2 DEF Dequeue, Flush
<1> QED BY <1>3, SuspendedResumable, FlushedResumable

\* A document that arrives in pieces of any size is parsed as if it were read at
\* once: where read() cuts the stream does not show.
THEOREM ChunksDoNotShow == Spec => []ChunkingInvisible
<1>1. Init => Resumable
  BY DEF Init, Resumable, ChunkingInvisible
<1>2. CallInv /\ CallInv' /\ Resumable /\ [Next]_vars => Resumable'
  <2> SUFFICES ASSUME CallInv, CallInv', Resumable, [Next]_vars PROVE Resumable'
    OBVIOUS
  <2>1. ASSUME NEW entry \in {"read", "cmd"}, NEW n \in 1 .. Max({1, Room}),
               NEW chunk \in [1 .. n -> Chars], Load(entry, chunk)
        PROVE  Resumable'
    <3>1. n \in Nat
      OBVIOUS
    <3> QED BY <2>1, <3>1, LoadResumable
  <2>2. CASE WouldBlock \/ Closed \/ SystemErr
    BY <2>2, UnchangedResumable DEF WouldBlock, Closed, SystemErr, NoData
  <2>3. CASE Turn
    BY <2>3, TurnResumable
  <2>4. CASE UNCHANGED vars
    BY <2>4, UnchangedResumable DEF vars
  <2> QED BY <2>1, <2>2, <2>3, <2>4 DEF Next
<1>3. Resumable => ChunkingInvisible
  BY DEF Resumable
<1> QED BY <1>1, <1>2, <1>3, CallInvariant, PTL DEF Spec

-----------------------------------------------------------------------------
(* Documents: IsDocument of the first n bytes of cmdbuf, byte by byte.  A  *)
(* string with a blank in it is kept behind a name: SMT cannot take it.    *)

\* White space.
Space == " "

\* Where the first n bytes have a character, and where a token begins.
Having(n, c) == {i \in 1 .. n : cmdbuf[i] = c}
Starts(n) == {i \in 1 .. n : cmdbuf[i] = "[" \/ (cmdbuf[i] = "1" /\ (i = 1 \/ cmdbuf[i - 1] # "1"))}

Num(n, c) == Cardinality(Having(n, c))
Tokens(n) == Cardinality(Starts(n))
Blank(n) == \A i \in 1 .. n : cmdbuf[i] = Space

\* Two characters that may be adjacent.
Fits(i, j) ==
    \/ <<cmdbuf[i], cmdbuf[j]>> \in Admissible
    \/ cmdbuf[i] = "1" /\ cmdbuf[j] = "1" /\ j = i + 1

\* The first n bytes are a document.
Document(n) ==
    /\ n \in 1 .. index
    /\ \A m \in 1 .. n - 1 : Blank(m) \/ Num(m, "[") > Num(m, "]")
    /\ cmdbuf[n] = "]" /\ Num(n, "[") = Num(n, "]")
    /\ \A i, j \in 1 .. n : Adjacent(cmdbuf, i, j) => Fits(i, j)

\* The characters, and when two of them are adjacent.
LEMMA Characters ==
    /\ Chars = {"[", "]", ",", "1", Space}
    /\ Space \notin {"[", "]", ",", "1"} /\ "nul" \notin Chars
    /\ \A s, i, j : Adjacent(s, i, j) <=> /\ i < j /\ s[i] # Space /\ s[j] # Space
                                        /\ \A k \in i + 1 .. j - 1 : s[k] = Space
BY Zenon DEF Chars, Space, Adjacent

\* The first n bytes, as a sequence.
LEMMA BeginningIs ==
    ASSUME Filled, NEW n \in 0 .. index
    PROVE  LET t == SubSeq(cmdbuf, 1, n) IN
           /\ t \in Seq(Chars) /\ Len(t) = n /\ DOMAIN t = 1 .. n
           /\ \A i \in 1 .. n : t[i] = cmdbuf[i]
<1>1. cmdbuf \in Seq(Chars) /\ index \in Nat /\ n \in Nat /\ n <= Len(cmdbuf)
  BY Bytes DEF Filled, index
<1> QED BY <1>1, SubSeqProperties

\* The sets that are counted are finite.
LEMMA Finite ==
    ASSUME NEW n \in Nat
    PROVE  /\ IsFiniteSet(Starts(n)) /\ Tokens(n) \in Nat
           /\ \A c : IsFiniteSet(Having(n, c)) /\ Num(n, c) \in Nat
<1>1. IsFiniteSet(1 .. n)
  BY FS_Interval
<1>2. Starts(n) \in SUBSET (1 .. n) /\ \A c : Having(n, c) \in SUBSET (1 .. n)
  BY DEF Starts, Having
<1>3. IsFiniteSet(Starts(n)) /\ \A c : IsFiniteSet(Having(n, c))
  BY <1>1, <1>2, FS_Subset
<1> QED BY <1>3, FS_CardinalityType DEF Tokens, Num

\* What the next byte adds.
LEMMA OneMore ==
    ASSUME NEW n \in Nat, NEW c
    PROVE  Num(n + 1, c) = IF cmdbuf[n + 1] = c THEN Num(n, c) + 1 ELSE Num(n, c)
<1>1. Having(n + 1, c) = IF cmdbuf[n + 1] = c THEN Having(n, c) \cup {n + 1} ELSE Having(n, c)
  BY DEF Having
<1>2. n + 1 \notin Having(n, c)
  BY DEF Having
<1>3. IsFiniteSet(Having(n, c))
  BY Finite
<1> QED BY <1>1, <1>2, <1>3, FS_AddElement DEF Num

\* A token begins at the next byte, or none.
LEMMA OneMoreToken ==
    ASSUME NEW n \in Nat
    PROVE  Tokens(n + 1) = IF cmdbuf[n + 1] = "[" \/ (cmdbuf[n + 1] = "1" /\ (n = 0 \/ cmdbuf[n] # "1"))
                           THEN Tokens(n) + 1 ELSE Tokens(n)
<1> DEFINE begins == cmdbuf[n + 1] = "[" \/ (cmdbuf[n + 1] = "1" /\ (n = 0 \/ cmdbuf[n] # "1"))
<1>1. Starts(n + 1) = IF begins THEN Starts(n) \cup {n + 1} ELSE Starts(n)
  <2>1. (n + 1) - 1 = n /\ (n + 1 = 1 <=> n = 0)
    OBVIOUS
  <2>2. 1 .. n + 1 = (1 .. n) \cup {n + 1}
    OBVIOUS
  <2> QED BY <2>1, <2>2 DEF Starts
<1>2. n + 1 \notin Starts(n)
  BY DEF Starts
<1>3. IsFiniteSet(Starts(n))
  BY Finite
<1> HIDE DEF begins
<1>4. Tokens(n + 1) = IF begins THEN Tokens(n) + 1 ELSE Tokens(n)
  BY <1>1, <1>2, <1>3, FS_AddElement DEF Tokens
<1> QED BY <1>4 DEF begins

\* More bytes hold no fewer tokens.
LEMMA TokensGrow ==
    ASSUME NEW m \in Nat, NEW n \in Nat, m <= n
    PROVE  Tokens(m) <= Tokens(n)
<1>1. Starts(m) \in SUBSET Starts(n)
  BY DEF Starts
<1> QED BY <1>1, Finite, FS_Subset DEF Tokens

\* Blank bytes have no brackets.
LEMMA BlankIs ==
    ASSUME Filled, NEW n \in 0 .. index
    PROVE  /\ Num(n, Space) = n <=> Blank(n)
           /\ Blank(n) => Num(n, "[") = 0 /\ Num(n, "]") = 0
<1>1. n \in Nat
  BY Bytes
<1>2. IsFiniteSet(1 .. n) /\ Cardinality(1 .. n) = n
  BY <1>1, FS_Interval
<1>3. Having(n, Space) \in SUBSET (1 .. n)
  BY DEF Having
<1>4. Num(n, Space) = n => Having(n, Space) = 1 .. n
  BY <1>2, <1>3, FS_Subset DEF Num
<1>5. Blank(n) => Having(n, Space) = 1 .. n /\ Having(n, "[") = {} /\ Having(n, "]") = {}
  BY Characters DEF Blank, Having
<1>6. Having(n, Space) = 1 .. n => Blank(n)
  BY DEF Blank, Having
<1> QED BY <1>2, <1>4, <1>5, <1>6, FS_EmptySet DEF Num

\* The counts of Buffer.tla.
LEMMA CountIs ==
    ASSUME Filled, NEW n \in 0 .. index, NEW t, t = SubSeq(cmdbuf, 1, n)
    PROVE  /\ \A c : Count(t, c) = Num(n, c)
           /\ TokensOf(t) = Tokens(n)
<1>1. DOMAIN t = 1 .. n /\ \A i \in 1 .. n : t[i] = cmdbuf[i]
  BY BeginningIs
<1>2. \A c : {i \in DOMAIN t : t[i] = c} = Having(n, c)
  BY <1>1 DEF Having
<1>3. {i \in DOMAIN t : t[i] = "[" \/ (t[i] = "1" /\ (i = 1 \/ t[i - 1] # "1"))} = Starts(n)
  <2>1. \A i \in 1 .. n : i # 1 => i - 1 \in 1 .. n
    BY Bytes
  <2> QED BY <1>1, <2>1 DEF Starts
<1> QED BY <1>2, <1>3 DEF Count, TokensOf, Num, Tokens

\* IsDocument says it of a sequence, Document of the bytes.
LEMMA DocumentIs ==
    ASSUME Filled, NEW n \in 1 .. index
    PROVE  IsDocument(SubSeq(cmdbuf, 1, n)) <=> Document(n)
<1>1. PICK t : t = SubSeq(cmdbuf, 1, n)
  OBVIOUS
<1>2. index \in Nat /\ n \in 0 .. index
  BY Bytes
<1>3. /\ t \in Seq(Chars) /\ Len(t) = n /\ DOMAIN t = 1 .. n
      /\ \A i \in 1 .. n : t[i] = cmdbuf[i]
  BY <1>1, <1>2, BeginningIs
<1>4. \A m \in 1 .. n - 1 : SubSeq(t, 1, m) = SubSeq(cmdbuf, 1, m)
  <2> TAKE m \in 1 .. n - 1
  <2>1. m \in 0 .. index /\ m \in Nat /\ m <= n
    BY <1>2
  <2>2. PICK u : u = SubSeq(t, 1, m)
    OBVIOUS
  <2>3. PICK v : v = SubSeq(cmdbuf, 1, m)
    OBVIOUS
  <2>4. u \in Seq(Chars) /\ Len(u) = m /\ \A i \in 1 .. m : u[i] = t[i]
    BY <1>3, <2>1, <2>2, SubSeqProperties
  <2>5. v \in Seq(Chars) /\ Len(v) = m /\ \A i \in 1 .. m : v[i] = cmdbuf[i]
    BY <2>1, <2>3, BeginningIs
  <2>6. \A i \in 1 .. m : u[i] = v[i]
    BY <1>2, <1>3, <2>1, <2>4, <2>5
  <2>7. u = v
    BY <2>4, <2>5, <2>6, SeqEqual
  <2> QED BY <2>2, <2>3, <2>7
<1>5. \A m \in 1 .. n - 1 :
        /\ Count(SubSeq(t, 1, m), Space) = m <=> Blank(m)
        /\ Count(SubSeq(t, 1, m), "[") = Num(m, "[")
        /\ Count(SubSeq(t, 1, m), "]") = Num(m, "]")
  <2> TAKE m \in 1 .. n - 1
  <2>1. m \in 0 .. index
    BY <1>2
  <2>2. PICK u : u = SubSeq(cmdbuf, 1, m)
    OBVIOUS
  <2>3. \A c : Count(u, c) = Num(m, c)
    BY <2>1, <2>2, CountIs
  <2>4. SubSeq(t, 1, m) = u
    BY <1>4, <2>2
  <2> QED BY <2>1, <2>3, <2>4, BlankIs
<1>6. Count(t, "[") = Num(n, "[") /\ Count(t, "]") = Num(n, "]")
  BY <1>1, <1>2, CountIs
<1>7. t # <<>> /\ Last(t) = cmdbuf[n]
  BY <1>2, <1>3 DEF Last
<1>8. \A i, j \in 1 .. n : Adjacent(t, i, j) <=> Adjacent(cmdbuf, i, j)
  <2> TAKE i, j \in 1 .. n
  <2>1. \A k \in i + 1 .. j - 1 : t[k] = cmdbuf[k]
    BY <1>2, <1>3
  <2> QED BY <1>3, <2>1 DEF Adjacent
<1>9. \A i, j \in 1 .. n : t[i] = cmdbuf[i] /\ t[j] = cmdbuf[j]
  BY <1>3
<1> DEFINE P1 == \A m \in 1 .. n - 1 : Count(SubSeq(t, 1, m), Space) = m
                                       \/ Count(SubSeq(t, 1, m), "[") > Count(SubSeq(t, 1, m), "]")
           P2 == \A m \in 1 .. n - 1 : Blank(m) \/ Num(m, "[") > Num(m, "]")
           Q1 == \A i, j \in 1 .. n : Adjacent(t, i, j) =>
                    <<t[i], t[j]>> \in Admissible \/ (t[i] = "1" /\ t[j] = "1" /\ j = i + 1)
           Q2 == \A i, j \in 1 .. n : Adjacent(cmdbuf, i, j) => Fits(i, j)
<1>10. P1 <=> P2
  BY <1>5
<1>11. Q1 <=> Q2
  BY <1>8, <1>9, Zenon DEF Fits
<1>12. IsDocument(t) <=> /\ t # <<>> /\ P1 /\ Last(t) = "]" /\ Count(t, "[") = Count(t, "]") /\ Q1
  <2>1. IsDocument(t) <=>
          /\ t # <<>>
          /\ \A m \in 1 .. Len(t) - 1 :
                LET u == SubSeq(t, 1, m) IN Count(u, Space) = m \/ Count(u, "[") > Count(u, "]")
          /\ Last(t) = "]" /\ Count(t, "[") = Count(t, "]")
          /\ \A i, j \in DOMAIN t : Adjacent(t, i, j) =>
                <<t[i], t[j]>> \in Admissible \/ (t[i] = "1" /\ t[j] = "1" /\ j = i + 1)
    BY Zenon DEF IsDocument, Space
  <2> QED BY <1>3, <2>1, Zenon
<1>13. Document(n) <=> P2 /\ cmdbuf[n] = "]" /\ Num(n, "[") = Num(n, "]") /\ Q2
  BY Zenon DEF Document
<1> HIDE DEF P1, P2, Q1, Q2
<1> QED BY <1>1, <1>6, <1>7, <1>10, <1>11, <1>12, <1>13

\* There is one at most.
LEMMA OneDocument ==
    ASSUME Filled, NEW m, NEW n, Document(m), Document(n)
    PROVE  m = n
<1>1. ASSUME NEW i, NEW j, Document(i), Document(j), i < j PROVE FALSE
  <2>1. i \in Nat /\ i \in 1 .. j - 1 /\ i \in 1 .. i
    BY <1>1, Bytes DEF Document
  <2>2. ~Blank(i)
    BY <1>1, <2>1, Characters DEF Document, Blank
  <2>3. Num(i, "[") > Num(i, "]") /\ Num(i, "[") = Num(i, "]")
    BY <1>1, <2>1, <2>2 DEF Document
  <2> QED BY <2>1, <2>3, Finite
<1>2. m \in Int /\ n \in Int
  BY DEF Document
<1>3. ~(m < n) /\ ~(n < m)
  BY <1>1
<1> QED BY <1>2, <1>3

\* DocumentLen finds it.
LEMMA DocumentLenIs ==
    ASSUME Filled
    PROVE  /\ \A n : Document(n) => DocumentLen = n /\ n > 0
           /\ (\A n : ~Document(n)) => DocumentLen = 0
<1> DEFINE lens == {n \in 1 .. index : IsDocument(SubSeq(cmdbuf, 1, n))}
<1>1. lens = {n \in 1 .. index : Document(n)}
  BY DocumentIs
<1>2. \A n : Document(n) => n \in lens
  BY <1>1 DEF Document
<1>3. \A n : Document(n) => lens = {n} /\ n > 0 /\ n \in Nat
  <2> TAKE n
  <2> HAVE Document(n)
  <2>1. n \in lens /\ n \in 1 .. index
    BY <1>2 DEF Document
  <2>2. \A m \in lens : m = n
    <3>1. \A m \in lens : Document(m)
      BY <1>1
    <3> HIDE DEF lens
    <3> QED BY <3>1, OneDocument
  <2>3. n > 0 /\ n \in Nat
    BY <2>1
  <2> HIDE DEF lens
  <2>4. lens = {n}
    BY <2>1, <2>2
  <2> QED BY <2>3, <2>4
<1>4. (\A n : ~Document(n)) => lens = {}
  BY <1>1
<1>5. DocumentLen = Max({0} \cup lens)
  BY DEF DocumentLen
<1> HIDE DEF lens
<1>6. ASSUME NEW n, Document(n) PROVE DocumentLen = n /\ n > 0
  <2>1. n \in Nat /\ n > 0 /\ {0} \cup lens = {0, n}
    BY <1>3, <1>6
  <2>2. Max({0, n}) = n
    BY <2>1, MaxOfTwo
  <2> QED BY <1>5, <2>1, <2>2
<1>7. ASSUME \A n : ~Document(n) PROVE DocumentLen = 0
  <2>1. {0} \cup lens = {0, 0}
    BY <1>4, <1>7
  <2>2. Max({0, 0}) = 0
    BY MaxOfTwo
  <2> QED BY <1>5, <2>1, <2>2
<1> QED BY <1>6, <1>7

-----------------------------------------------------------------------------
(* What the parse loop knows of the bytes it has read. *)

\* What is due behind a character.
After(c) == IF c = "[" THEN "first" ELSE IF c = "," THEN "next" ELSE "sep"

\* The last of the first n bytes that is not white space.
LastAt(n, l) == l \in 1 .. n /\ cmdbuf[l] # Space /\ \A k \in l + 1 .. n : cmdbuf[k] = Space

\* The first n bytes begin a document, and this is the state of a parser that has
\* read them; it has not stopped in a number.
Known(n, depth, due, used) ==
    /\ n \in 0 .. index
    /\ depth = Num(n, "[") - Num(n, "]") /\ used = Tokens(n)
    /\ \/ Blank(n) /\ due = "value"
       \/ depth > 0 /\ \E l \in 1 .. n : LastAt(n, l) /\ due = After(cmdbuf[l])
    /\ \A m \in 1 .. n : Blank(m) \/ Num(m, "[") > Num(m, "]")
    /\ \A i, j \in 1 .. n : Adjacent(cmdbuf, i, j) => Fits(i, j)
    /\ n = 0 \/ cmdbuf[n] # "1" \/ At(n) # "1"

\* What is adjacent to the next byte.
LEMMA AdjacentToNext ==
    ASSUME NEW n \in Nat
    PROVE  /\ \A i, j \in 1 .. n + 1 : Adjacent(cmdbuf, i, j) =>
                (i \in 1 .. n /\ j \in 1 .. n) \/ (j = n + 1 /\ LastAt(n, i))
           /\ \A l : LastAt(n, l) /\ cmdbuf[n + 1] # Space => Adjacent(cmdbuf, l, n + 1)
<1>1. ASSUME NEW i \in 1 .. n + 1, NEW j \in 1 .. n + 1, Adjacent(cmdbuf, i, j)
      PROVE  (i \in 1 .. n /\ j \in 1 .. n) \/ (j = n + 1 /\ LastAt(n, i))
  <2>1. i < j /\ i \in 1 .. n /\ (j \in 1 .. n \/ j = n + 1)
    <3>1. i < j
      BY <1>1, Characters
    <3> QED BY <3>1
  <2>2. ASSUME j = n + 1 PROVE LastAt(n, i)
    <3>1. j - 1 = n
      BY <2>2
    <3> QED BY <1>1, <2>1, <3>1, Characters DEF LastAt
  <2> QED BY <2>1, <2>2
<1>2. ASSUME NEW l, LastAt(n, l), cmdbuf[n + 1] # Space PROVE Adjacent(cmdbuf, l, n + 1)
  <2>1. (n + 1) - 1 = n /\ l < n + 1
    <3>1. l \in 1 .. n
      BY <1>2 DEF LastAt
    <3> QED BY <3>1
  <2> QED BY <1>2, <2>1, Characters DEF LastAt
<1> QED BY <1>1, <1>2

\* A document is longer than what is known to begin one, and goes on as one may.
LEMMA GoesOn ==
    ASSUME Filled, NEW n \in Nat, NEW d \in Int, NEW due, NEW u, Known(n, d, due, u), NEW k, Document(k)
    PROVE  /\ n < k /\ k \in 1 .. index
           /\ Tokens(n + 1) <= Tokens(k)
           /\ cmdbuf[n + 1] # Space => \A l \in 1 .. n : LastAt(n, l) => Fits(l, n + 1)
           /\ cmdbuf[n + 1] # Space /\ Blank(n) => cmdbuf[n + 1] = "["
<1>1. n \in Nat /\ index \in Nat /\ k \in 1 .. index /\ k \in Nat /\ n <= index
  BY Bytes DEF Known, Document
<1>2. n < k
  <2> SUFFICES ASSUME k <= n PROVE FALSE
    BY <1>1
  <2>1. k \in 1 .. n /\ k \in 1 .. k
    BY <1>1
  <2>2. ~Blank(k)
    BY <2>1, Characters DEF Document, Blank
  <2>3. Num(k, "[") > Num(k, "]") /\ Num(k, "[") = Num(k, "]")
    BY <2>1, <2>2 DEF Document, Known
  <2> QED BY <1>1, <2>3, Finite
<1>3. n + 1 \in 1 .. k /\ n + 1 \in Nat /\ n + 1 <= k
  BY <1>1, <1>2
<1>4. ASSUME cmdbuf[n + 1] # Space, NEW l \in 1 .. n, LastAt(n, l) PROVE Fits(l, n + 1)
  <2>1. Adjacent(cmdbuf, l, n + 1)
    BY <1>1, <1>4, AdjacentToNext
  <2>2. l \in 1 .. k
    <3>1. l \in 1 .. n
      BY <1>4 DEF LastAt
    <3> QED BY <1>1, <1>2, <3>1
  <2> QED BY <1>3, <2>1, <2>2 DEF Document
<1>5. ASSUME cmdbuf[n + 1] # Space, Blank(n) PROVE cmdbuf[n + 1] = "["
  <2>1. Num(n, "[") = 0 /\ Num(n, "]") = 0
    <3>1. n \in 0 .. index
      BY <1>1
    <3> QED BY <1>5, <3>1, BlankIs
  <2>2. /\ Num(n + 1, "[") = IF cmdbuf[n + 1] = "[" THEN 1 ELSE 0
        /\ Num(n + 1, "]") = IF cmdbuf[n + 1] = "]" THEN 1 ELSE 0
    BY <1>1, <2>1, OneMore
  <2>3. CASE k = n + 1
    BY <2>2, <2>3 DEF Document
  <2>4. CASE k # n + 1
    <3>1. n + 1 \in 1 .. k - 1 /\ n + 1 \in 1 .. n + 1
      BY <1>1, <1>3, <2>4
    <3>2. ~Blank(n + 1)
      BY <1>5, <3>1 DEF Blank
    <3>3. Num(n + 1, "[") > Num(n + 1, "]")
      BY <3>1, <3>2 DEF Document
    <3> QED BY <2>2, <3>3
  <2> QED BY <2>3, <2>4
<1>6. Tokens(n + 1) <= Tokens(k)
  BY <1>1, <1>3, TokensGrow
<1> QED BY <1>1, <1>2, <1>4, <1>5, <1>6

\* One more byte that is white space.
LEMMA BlankFollows ==
    ASSUME Filled, NEW n \in Nat, NEW d \in Int, NEW due, NEW u, Known(n, d, due, u),
           n < index, cmdbuf[n + 1] = Space
    PROVE  Known(n + 1, d, due, u)
<1>1. n \in Nat /\ index \in Nat /\ n + 1 \in 0 .. index /\ n + 1 \in Nat /\ n + 1 # 0
  <2>1. n \in 0 .. index /\ index \in Nat
    BY Bytes DEF Known
  <2> QED BY <2>1
<1>2. /\ Num(n + 1, "[") = Num(n, "[") /\ Num(n + 1, "]") = Num(n, "]")
      /\ Tokens(n + 1) = Tokens(n)
  <2>1. \A c : Num(n + 1, c) = IF cmdbuf[n + 1] = c THEN Num(n, c) + 1 ELSE Num(n, c)
    BY <1>1, OneMore
  <2>2. cmdbuf[n + 1] # "[" /\ cmdbuf[n + 1] # "]" /\ cmdbuf[n + 1] # "1"
    BY Characters
  <2> QED BY <1>1, <2>1, <2>2, OneMoreToken
<1>3. \A m \in 1 .. n + 1 : m \in 1 .. n \/ m = n + 1
  BY <1>1
<1>4. Blank(n) => Blank(n + 1)
  BY <1>3 DEF Blank
<1>5. \A l \in 1 .. n : LastAt(n, l) => l \in 1 .. n + 1 /\ LastAt(n + 1, l)
  <2> TAKE l \in 1 .. n
  <2>0. PICK a \in Nat : a = n
    BY <1>1
  <2>1. l \in 1 .. a + 1 /\ \A k \in l + 1 .. a + 1 : k \in l + 1 .. a \/ k = a + 1
    BY <2>0
  <2> QED BY <2>1 DEF LastAt
<1>6. \/ Blank(n + 1) /\ due = "value"
      \/ d > 0 /\ \E l \in 1 .. n + 1 : LastAt(n + 1, l) /\ due = After(cmdbuf[l])
  <2>1. CASE Blank(n) /\ due = "value"
    BY <1>4, <2>1
  <2>2. CASE d > 0 /\ \E l \in 1 .. n : LastAt(n, l) /\ due = After(cmdbuf[l])
    BY <1>5, <2>2
  <2> QED BY <2>1, <2>2 DEF Known
<1>7. \A m \in 1 .. n + 1 : Blank(m) \/ Num(m, "[") > Num(m, "]")
  <2>1. Blank(n + 1) \/ Num(n + 1, "[") > Num(n + 1, "]")
    <3>1. CASE Blank(n)
      BY <1>4, <3>1
    <3>2. CASE ~Blank(n)
      <4>1. d > 0 /\ d = Num(n, "[") - Num(n, "]")
        BY <3>2 DEF Known
      <4>2. Num(n, "[") \in Nat /\ Num(n, "]") \in Nat
        BY <1>1, Finite
      <4>3. Num(n, "[") > Num(n, "]")
        BY <4>1, <4>2
      <4> QED BY <1>2, <4>3
    <3> QED BY <3>1, <3>2
  <2> QED BY <1>3, <2>1 DEF Known
<1>8. \A i, j \in 1 .. n + 1 : Adjacent(cmdbuf, i, j) => Fits(i, j)
  <2> TAKE i, j \in 1 .. n + 1
  <2> HAVE Adjacent(cmdbuf, i, j)
  <2>1. j # n + 1
    BY Characters
  <2>2. i \in 1 .. n /\ j \in 1 .. n
    BY <1>1, <2>1, AdjacentToNext
  <2> QED BY <2>2 DEF Known
<1>9. d = Num(n + 1, "[") - Num(n + 1, "]") /\ u = Tokens(n + 1)
  BY <1>2 DEF Known
<1>10. cmdbuf[n + 1] # "1"
  BY Characters
<1> QED BY <1>1, <1>6, <1>7, <1>8, <1>9, <1>10 DEF Known

\* The characters that may follow.
MayFollow(n) ==
    \/ Blank(n) /\ cmdbuf[n + 1] = "["
    \/ \E l \in 1 .. n : LastAt(n, l) /\ Fits(l, n + 1)

\* There is one last character.
LEMMA OneLast ==
    ASSUME NEW n \in Nat, NEW l \in 1 .. n, LastAt(n, l)
    PROVE  ~Blank(n) /\ \A k \in 1 .. n : LastAt(n, k) => k = l
<1>1. l \in 1 .. n /\ cmdbuf[l] # Space
  BY DEF LastAt
<1>2. ASSUME NEW k \in 1 .. n, LastAt(n, k) PROVE k = l
  <2>1. ~(l < k) /\ ~(k < l) /\ k \in 1 .. n
    <3>1. k \in 1 .. n /\ cmdbuf[k] # Space
      BY <1>2 DEF LastAt
    <3>2. l < k => k \in l + 1 .. n
      BY <1>1, <3>1
    <3>3. k < l => l \in k + 1 .. n
      BY <1>1, <3>1
    <3> QED BY <1>1, <1>2, <3>1, <3>2, <3>3 DEF LastAt
  <2> QED BY <1>1, <2>1
<1> QED BY <1>1, <1>2 DEF Blank

LEMMA NextFits ==
    ASSUME Filled, NEW n \in Nat, NEW d \in Int, NEW due, NEW u, Known(n, d, due, u), MayFollow(n)
    PROVE  \A i, j \in 1 .. n + 1 : Adjacent(cmdbuf, i, j) => Fits(i, j)
<1>1. n \in Nat
  BY Bytes DEF Known
<1> TAKE i, j \in 1 .. n + 1
<1> HAVE Adjacent(cmdbuf, i, j)
<1>2. CASE i \in 1 .. n /\ j \in 1 .. n
  BY <1>2 DEF Known
<1>3. CASE j = n + 1 /\ LastAt(n, i)
  <2>1. ~Blank(n) /\ \A k \in 1 .. n : LastAt(n, k) => k = i
    <3>1. i \in 1 .. n
      BY <1>3 DEF LastAt
    <3> QED BY <1>3, <3>1, OneLast
  <2> QED BY <1>3, <2>1 DEF MayFollow
<1> QED BY <1>1, <1>2, <1>3, AdjacentToNext

\* One more character that does not end a document, nor lies in a number that goes on.
LEMMA CharFollows ==
    ASSUME Filled, NEW n \in Nat, NEW d \in Int, NEW due, NEW u, Known(n, d, due, u),
           n < index, cmdbuf[n + 1] # Space, MayFollow(n),
           cmdbuf[n + 1] = "1" => At(n + 1) # "1",
           NEW e \in Int, e > 0,
           e = IF cmdbuf[n + 1] = "[" THEN d + 1 ELSE IF cmdbuf[n + 1] = "]" THEN d - 1 ELSE d
    PROVE  Known(n + 1, e, After(cmdbuf[n + 1]), Tokens(n + 1))
<1>1. n \in Nat /\ index \in Nat /\ n + 1 \in 0 .. index /\ n + 1 \in Nat
  BY Bytes DEF Known
<1>2. d = Num(n, "[") - Num(n, "]") /\ Num(n, "[") \in Nat /\ Num(n, "]") \in Nat
  BY <1>1, Finite DEF Known
<1>3. e = Num(n + 1, "[") - Num(n + 1, "]") /\ Num(n + 1, "[") > Num(n + 1, "]")
  <2>1. /\ Num(n + 1, "[") = IF cmdbuf[n + 1] = "[" THEN Num(n, "[") + 1 ELSE Num(n, "[")
        /\ Num(n + 1, "]") = IF cmdbuf[n + 1] = "]" THEN Num(n, "]") + 1 ELSE Num(n, "]")
    BY <1>1, OneMore
  <2>2. cmdbuf[n + 1] = "[" => cmdbuf[n + 1] # "]"
    OBVIOUS
  <2>3. CASE cmdbuf[n + 1] = "["
    BY <1>2, <2>1, <2>3
  <2>4. CASE cmdbuf[n + 1] = "]"
    BY <1>2, <2>1, <2>4
  <2>5. CASE cmdbuf[n + 1] # "[" /\ cmdbuf[n + 1] # "]"
    BY <1>2, <2>1, <2>5
  <2> QED BY <2>3, <2>4, <2>5
<1>4. \A m \in 1 .. n + 1 : m \in 1 .. n \/ m = n + 1
  BY <1>1
<1>5. \A m \in 1 .. n + 1 : Blank(m) \/ Num(m, "[") > Num(m, "]")
  BY <1>3, <1>4 DEF Known
<1>6. n + 1 \in 1 .. n + 1 /\ LastAt(n + 1, n + 1)
  <2>1. n + 1 \in 1 .. n + 1 /\ (n + 1) + 1 .. n + 1 = {}
    BY <1>1
  <2> QED BY <2>1 DEF LastAt
<1>7. \A i, j \in 1 .. n + 1 : Adjacent(cmdbuf, i, j) => Fits(i, j)
  BY NextFits
<1> QED BY <1>1, <1>3, <1>5, <1>6, <1>7 DEF Known

\* The bracket that closes the document.
LEMMA ClosedDocument ==
    ASSUME Filled, NEW n \in Nat, NEW d \in Int, NEW due, NEW u, Known(n, d, due, u),
           n < index, cmdbuf[n + 1] = "]", MayFollow(n), d = 1
    PROVE  Document(n + 1) /\ Tokens(n + 1) = u
<1>1. n \in Nat /\ index \in Nat /\ n + 1 \in 1 .. index /\ (n + 1) - 1 = n
  BY Bytes DEF Known
<1>2. /\ Num(n + 1, "[") = Num(n, "[") /\ Num(n + 1, "]") = Num(n, "]") + 1
      /\ Tokens(n + 1) = Tokens(n) /\ Num(n, "[") \in Nat /\ Num(n, "]") \in Nat
  BY <1>1, OneMore, OneMoreToken, Finite
<1>3. Num(n + 1, "[") = Num(n + 1, "]")
  <2>1. Num(n, "[") - Num(n, "]") = 1
    BY DEF Known
  <2> QED BY <1>2, <2>1
<1>4. \A i, j \in 1 .. n + 1 : Adjacent(cmdbuf, i, j) => Fits(i, j)
  BY NextFits
<1>5. \A m \in 1 .. (n + 1) - 1 : Blank(m) \/ Num(m, "[") > Num(m, "]")
  BY <1>1 DEF Known
<1> QED BY <1>1, <1>2, <1>3, <1>4, <1>5 DEF Document, Known

\* A number of which every digit is there.
LEMMA NumberFollows ==
    ASSUME Filled, NEW n \in Nat, NEW d \in Int, NEW due, NEW u, Known(n, d, due, u), d > 0, MayFollow(n),
           NEW e \in Nat, n < e, e <= index, \A i \in n + 1 .. e : cmdbuf[i] = "1", At(e) # "1"
    PROVE  Known(e, d, "sep", u + 1)
<1>1. /\ n \in Nat /\ index \in Nat /\ n + 1 \in Nat /\ n + 1 \in n + 1 .. e
      /\ e \in 0 .. index /\ n + 1 <= e /\ cmdbuf[n + 1] = "1"
  BY Bytes DEF Known
<1>2. \A m \in n + 1 .. e : Num(m, "[") = Num(n, "[") /\ Num(m, "]") = Num(n, "]")
  <2> TAKE m \in n + 1 .. e
  <2>1. \A i \in 1 .. m : i \in 1 .. n \/ i \in n + 1 .. e
    BY <1>1
  <2>2. \A i \in 1 .. n : i \in 1 .. m
    BY <1>1
  <2>3. Having(m, "[") = Having(n, "[") /\ Having(m, "]") = Having(n, "]")
    BY <2>1, <2>2 DEF Having
  <2> QED BY <2>3 DEF Num
<1>3. d = Num(n, "[") - Num(n, "]") /\ Num(n, "[") \in Nat /\ Num(n, "]") \in Nat /\ u = Tokens(n)
  BY <1>1, Finite DEF Known
<1>4. e \in n + 1 .. e /\ d = Num(e, "[") - Num(e, "]")
  BY <1>1, <1>2, <1>3
<1>5. Tokens(e) = u + 1
  <2>1. Tokens(e) = Tokens(n + 1)
    <3>1. \A i \in 1 .. e : i \in 1 .. n + 1 \/ (i \in n + 1 .. e /\ i - 1 \in n + 1 .. e /\ i # 1)
      BY <1>1
    <3>2. \A i \in 1 .. n + 1 : i \in 1 .. e
      BY <1>1
    <3>3. Starts(e) = Starts(n + 1)
      <4>1. \A i \in Starts(e) : i \in Starts(n + 1)
        BY <3>1 DEF Starts
      <4>2. \A i \in Starts(n + 1) : i \in Starts(e)
        BY <3>2 DEF Starts
      <4> QED BY <4>1, <4>2
    <3> QED BY <3>3 DEF Tokens
  <2>2. n = 0 \/ cmdbuf[n] # "1"
    <3>1. At(n) = "1"
      BY <1>1 DEF At
    <3> QED BY <3>1 DEF Known
  <2>3. Tokens(n + 1) = Tokens(n) + 1
    BY <1>1, <2>2, OneMoreToken
  <2> QED BY <1>3, <2>1, <2>3
<1>6. \A m \in 1 .. e : m \in 1 .. n \/ m \in n + 1 .. e
  BY <1>1
<1>7. \A m \in 1 .. e : Blank(m) \/ Num(m, "[") > Num(m, "]")
  <2>1. Num(n, "[") > Num(n, "]")
    BY <1>3
  <2> QED BY <1>2, <1>6, <2>1 DEF Known
<1>8. e \in 1 .. e /\ LastAt(e, e) /\ After(cmdbuf[e]) = "sep"
  <2>1. e \in 1 .. e /\ e + 1 .. e = {} /\ e \in n + 1 .. e
    BY <1>1
  <2> QED BY <2>1, Characters DEF LastAt, After
<1>9. \A i, j \in 1 .. e : Adjacent(cmdbuf, i, j) => Fits(i, j)
  <2> TAKE i, j \in 1 .. e
  <2> HAVE Adjacent(cmdbuf, i, j)
  <2>1. i < j
    BY Characters
  <2>2. CASE j \in 1 .. n + 1
    <3>1. i \in 1 .. n + 1
      BY <1>1, <2>1, <2>2
    <3> QED BY <2>2, <3>1, NextFits
  <2>3. CASE j \notin 1 .. n + 1
    <3>1. j - 1 \in n + 1 .. e /\ j \in n + 1 .. e
      BY <1>1, <2>3
    <3>2. cmdbuf[j - 1] = "1" /\ cmdbuf[j] = "1"
      BY <3>1
    <3>3. i = j - 1
      <4>1. \A k \in i + 1 .. j - 1 : cmdbuf[k] # "1"
        <5>1. \A k \in i + 1 .. j - 1 : cmdbuf[k] = Space
          BY Characters
        <5>2. Space # "1"
          BY Characters
        <5> QED BY <5>1, <5>2
      <4>2. j - 1 \notin i + 1 .. j - 1
        BY <3>2, <4>1
      <4> QED BY <1>1, <2>1, <4>2
    <3>4. j = i + 1
      BY <3>3
    <3> QED BY <3>2, <3>3, <3>4 DEF Fits
  <2> QED BY <2>2, <2>3
<1> QED BY <1>1, <1>4, <1>5, <1>7, <1>8, <1>9 DEF Known

\* What the parser takes when `due` is due.
Takes(due, c) ==
    \/ c = "[" /\ due # "sep"
    \/ c = "]" /\ due \in {"first", "sep"}
    \/ c = "," /\ due = "sep"
    \/ c = "1" /\ due \in {"first", "next"}

\* What is due tells how deep the parser is, and what it may take.
LEMMA DueIs ==
    ASSUME Filled, NEW n \in Nat, NEW d \in Int, NEW due, NEW u, Known(n, d, due, u)
    PROVE  \/ due = "value" /\ d = 0 /\ Blank(n)
           \/ due \in {"first", "next", "sep"} /\ d > 0 /\ \E l \in 1 .. n : LastAt(n, l) /\ due = After(cmdbuf[l])
<1>1. CASE Blank(n) /\ due = "value"
  <2>1. d = Num(n, "[") - Num(n, "]") /\ n \in 0 .. index
    BY DEF Known
  <2>2. Num(n, "[") = 0 /\ Num(n, "]") = 0
    BY <1>1, <2>1, BlankIs
  <2> QED BY <1>1, <2>1, <2>2
<1>2. CASE d > 0 /\ \E l \in 1 .. n : LastAt(n, l) /\ due = After(cmdbuf[l])
  BY <1>2 DEF After
<1> QED BY <1>1, <1>2 DEF Known

\* The parser takes what may follow, and nothing else.
LEMMA TakesWhatFits ==
    ASSUME Filled, NEW n \in Nat, NEW d \in Int, NEW due, NEW u, Known(n, d, due, u),
           n < index, cmdbuf[n + 1] # Space
    PROVE  Takes(due, cmdbuf[n + 1]) <=> MayFollow(n)
<1> DEFINE c == cmdbuf[n + 1]
<1>1. c \in {"[", "]", ",", "1"} /\ At(n) = c
  <2>1. At(n) = cmdbuf[n + 1] /\ At(n) \in Chars \cup {"nul"} /\ At(n) # "nul"
    BY Bytes DEF At
  <2> QED BY <2>1, Characters
<1>2. CASE due = "value" /\ Blank(n)
  <2>1. ~\E l \in 1 .. n : LastAt(n, l)
    BY <1>2 DEF Blank, LastAt
  <2>2. MayFollow(n) <=> c = "["
    BY <1>2, <2>1 DEF MayFollow
  <2>3. Takes(due, c) <=> c = "["
    BY <1>2 DEF Takes
  <2> QED BY <2>2, <2>3
<1>3. ASSUME NEW l \in 1 .. n, LastAt(n, l), due = After(cmdbuf[l])
      PROVE  Takes(due, c) <=> MayFollow(n)
  <2> DEFINE b == cmdbuf[l]
  <2>1. ~Blank(n) /\ \A k \in 1 .. n : LastAt(n, k) => k = l
    BY <1>3, OneLast
  <2>2. MayFollow(n) <=> Fits(l, n + 1)
    BY <1>3, <2>1 DEF MayFollow
  <2>3. b \in {"[", "]", ",", "1"}
    <3>1. l \in 1 .. index /\ l \in Nat /\ l - 1 \in Nat /\ l - 1 < index /\ (l - 1) + 1 = l
      BY Bytes
    <3>2. b \in Chars /\ b # Space
      <4>1. At(l - 1) = b
        BY <3>1 DEF At
      <4>2. At(l - 1) \in Chars
        BY <3>1, Bytes
      <4> QED BY <1>3, <4>1, <4>2 DEF LastAt
    <3> QED BY <3>2, Characters
  <2>4. ~(b = "1" /\ c = "1" /\ n + 1 = l + 1)
    <3>1. n = 0 \/ cmdbuf[n] # "1" \/ At(n) # "1"
      BY DEF Known
    <3>2. n + 1 = l + 1 => n = l /\ n # 0
      OBVIOUS
    <3> HIDE DEF c
    <3> QED BY <1>1, <3>1, <3>2
  <2>5. Fits(l, n + 1) <=> <<b, c>> \in Admissible
    BY <2>4 DEF Fits
  <2>6. <<b, c>> \in Admissible <=> Takes(After(b), c)
    <3> HIDE DEF b, c
    <3>1. <<b, c>> \in Admissible <=>
            \/ b = "[" /\ c \in {"[", "]", "1"}
            \/ b = "," /\ c \in {"[", "1"}
            \/ b \in {"1", "]"} /\ c \in {",", "]"}
      BY DEF Admissible
    <3>2. Takes(After(b), c) <=>
            \/ b = "[" /\ c \in {"[", "]", "1"}
            \/ b = "," /\ c \in {"[", "1"}
            \/ b \in {"1", "]"} /\ c \in {",", "]"}
      BY <1>1, <2>3 DEF Takes, After
    <3> QED BY <3>1, <3>2
  <2> QED BY <1>3, <2>2, <2>5, <2>6
<1> QED BY <1>2, <1>3, DueIs

\* No document begins with bytes of which the parser refuses one.
LEMMA Refused ==
    ASSUME Filled, NEW n \in Nat, NEW d \in Int, NEW due, NEW u, Known(n, d, due, u),
           n < index, cmdbuf[n + 1] # Space, ~Takes(due, cmdbuf[n + 1])
    PROVE  \A k : ~Document(k)
<1> SUFFICES ASSUME NEW k, Document(k) PROVE FALSE
  OBVIOUS
<1>1. ~MayFollow(n)
  BY TakesWhatFits
<1>2. /\ \A l \in 1 .. n : LastAt(n, l) => Fits(l, n + 1)
      /\ Blank(n) => cmdbuf[n + 1] = "["
  BY GoesOn
<1> QED BY <1>1, <1>2, DueIs DEF MayFollow

\* A document that needs a token more than the pool has.
LEMMA TooMany ==
    ASSUME Filled, NEW n \in Nat, NEW d \in Int, NEW due, Known(n, d, due, TokensNum),
           n < index, cmdbuf[n + 1] \in {"[", "1"}
    PROVE  \A k : Document(k) => Tokens(k) > TokensNum
<1> TAKE k
<1> HAVE Document(k)
<1>1. cmdbuf[n + 1] # Space
  BY Characters
<1>2. Tokens(n + 1) <= Tokens(k) /\ k \in Nat
  <2>1. Tokens(n + 1) <= Tokens(k)
    BY GoesOn
  <2>2. k \in Nat
    BY Bytes DEF Document
  <2> QED BY <2>1, <2>2
<1>3. Tokens(n) = TokensNum /\ (n = 0 \/ cmdbuf[n] # "1" \/ At(n) # "1") /\ At(n) = cmdbuf[n + 1]
  BY DEF Known, At
<1>4. Tokens(n + 1) = Tokens(n) + 1
  BY <1>3, OneMoreToken
<1> QED BY <1>2, <1>3, <1>4, Finite, TokensAssumption

-----------------------------------------------------------------------------
(* What the loop answers. *)

KnowsIt(q) == Known(q.cursor, q.depth, q.due, q.used)

\* A result is right.
Verdict(r) ==
    IF r.code = "complete"
    THEN Document(r.cursor) /\ Tokens(r.cursor) <= TokensNum
    ELSE \A k : Document(k) => Tokens(k) > TokensNum

\* A state of the loop is right: that of one that goes on knows the bytes it has read.
Right(q) ==
    IF q.stop THEN Verdict(q) ELSE KnowsIt(q) /\ q.code = "incomplete"

\* An error, where no document begins that the pool has the tokens for.
LEMMA RightError ==
    ASSUME NEW q \in ParserState, NEW e \in Results \ {"complete"}, NEW i,
           \A k : Document(k) => Tokens(k) > TokensNum
    PROVE  Right(Err(q, e, i))
<1>1. Err(q, e, i).stop /\ Err(q, e, i).code = e
  BY StateParts DEF Err
<1> QED BY <1>1 DEF Right, Verdict

\* White space, an opened array, a closed one, a comma.
LEMMA RightCharacter ==
    ASSUME Filled, NEW q \in ParserState, ~Stopped(q), q.code = "incomplete", KnowsIt(q),
           At(q.cursor) # "1"
    PROVE  Right(ReadChar(q))
<1>1. PICK n \in Nat : n = q.cursor
  BY StateParts
<1>2. PICK d \in Nat : d = q.depth
  BY StateParts
<1>3. PICK u \in Nat : u = q.used
  BY StateParts
<1>4. /\ n < index /\ At(n) = cmdbuf[n + 1] /\ At(n) \in Chars /\ ~q.stop
      /\ d \in Int /\ u <= TokensNum /\ n + 1 = q.cursor + 1
  <2>1. At(n) # "nul" /\ ~q.stop
    BY <1>1 DEF Stopped
  <2> QED BY <1>1, <1>2, <1>3, <2>1, Bytes, StateParts, TokensAssumption DEF At
<1>5. Known(n, d, q.due, u) /\ u = Tokens(n)
  BY <1>1, <1>2, <1>3 DEF KnowsIt, Known
<1>6. ASSUME cmdbuf[n + 1] # Space, ~Takes(q.due, cmdbuf[n + 1])
      PROVE  \A k : Document(k) => Tokens(k) > TokensNum
  BY <1>4, <1>5, <1>6, Refused
<1>7. ASSUME cmdbuf[n + 1] # Space, cmdbuf[n + 1] # "1", Takes(q.due, cmdbuf[n + 1]),
             NEW e \in Int, e > 0,
             e = IF cmdbuf[n + 1] = "[" THEN d + 1 ELSE IF cmdbuf[n + 1] = "]" THEN d - 1 ELSE d
      PROVE  Known(n + 1, e, After(cmdbuf[n + 1]), Tokens(n + 1))
  <2>1. MayFollow(n)
    BY <1>4, <1>5, <1>7, TakesWhatFits
  <2> QED BY <1>4, <1>5, <1>7, <2>1, CharFollows
<1>8. CASE At(n) = Space
  <2>1. ReadChar(q) = [q EXCEPT !.cursor = @ + 1]
    BY <1>1, <1>8, Zenon DEF ReadChar, Space
  <2>2. Known(n + 1, d, q.due, u)
    BY <1>4, <1>5, <1>8, BlankFollows
  <2>3. PICK r : r = ReadChar(q)
    OBVIOUS
  <2>4. r.cursor = n + 1 /\ r.depth = d /\ r.due = q.due /\ r.used = u /\ ~r.stop /\ r.code = "incomplete"
    BY <1>1, <1>2, <1>3, <1>4, <2>1, <2>3, StateParts
  <2> QED BY <2>2, <2>3, <2>4 DEF Right, KnowsIt
<1>9. CASE At(n) = "["
  <2>0. cmdbuf[n + 1] = "[" /\ cmdbuf[n + 1] # Space /\ cmdbuf[n + 1] # "1"
    BY <1>4, <1>9, Characters
  <2>1. ReadChar(q) = OpenArray(q)
    BY <1>1, <1>9 DEF ReadChar
  <2>2. CASE ~InInput(q)
    <3>1. ~Takes(q.due, cmdbuf[n + 1])
      BY <2>0, <2>2 DEF Takes, InInput
    <3>2. OpenArray(q) = Err(q, "syntax", 1)
      BY <2>2 DEF OpenArray
    <3> QED BY <1>6, <2>0, <2>1, <3>1, <3>2, RightError DEF Results
  <2>3. CASE InInput(q) /\ q.used = TokensNum
    <3>1. OpenArray(q) = Err(q, "tokens", 1)
      BY <2>3 DEF OpenArray
    <3>2. \A k : Document(k) => Tokens(k) > TokensNum
      BY <1>3, <1>4, <1>5, <2>0, <2>3, TooMany
    <3> QED BY <2>1, <3>1, <3>2, RightError DEF Results
  <2>4. CASE InInput(q) /\ q.used # TokensNum
    <3>1. PICK r : r = OpenArray(q)
      OBVIOUS
    <3>2. r.cursor = n + 1 /\ r.depth = d + 1 /\ r.due = "first" /\ r.used = u + 1 /\ ~r.stop /\ r.code = "incomplete"
      BY <1>1, <1>2, <1>3, <1>4, <2>4, <3>1, StateParts DEF OpenArray
    <3>3. Takes(q.due, cmdbuf[n + 1])
      BY <2>0, <2>4 DEF Takes, InInput
    <3>4. Known(n + 1, d + 1, "first", Tokens(n + 1))
      <4>1. d + 1 \in Int /\ d + 1 > 0 /\ After(cmdbuf[n + 1]) = "first"
        BY <2>0 DEF After
      <4> QED BY <1>7, <2>0, <3>3, <4>1
    <3>5. Tokens(n + 1) = u + 1
      BY <1>5, <2>0, OneMoreToken
    <3> QED BY <2>1, <3>1, <3>2, <3>4, <3>5 DEF Right, KnowsIt
  <2> QED BY <2>2, <2>3, <2>4
<1>10. CASE At(n) = "]"
  <2>0. cmdbuf[n + 1] = "]" /\ cmdbuf[n + 1] # Space /\ cmdbuf[n + 1] # "1"
    BY <1>4, <1>10, Characters
  <2>1. ReadChar(q) = CloseArray(q)
    BY <1>1, <1>10 DEF ReadChar
  <2>2. CASE q.depth = 0 \/ q.due = "next"
    <3>1. q.due = "value" \/ q.due = "next"
      BY <1>2, <1>4, <1>5, <2>2, DueIs
    <3>2. ~Takes(q.due, cmdbuf[n + 1])
      BY <2>0, <3>1 DEF Takes
    <3>3. CloseArray(q) = Err(q, "syntax", 1)
      BY <2>2 DEF CloseArray
    <3> QED BY <1>6, <2>0, <2>1, <3>2, <3>3, RightError DEF Results
  <2>3. CASE ~(q.depth = 0 \/ q.due = "next")
    <3>1. q.due \in {"first", "sep"} /\ d > 0
      BY <1>2, <1>4, <1>5, <2>3, DueIs
    <3>2. Takes(q.due, cmdbuf[n + 1])
      BY <2>0, <3>1 DEF Takes
    <3>3. PICK r : r = CloseArray(q)
      OBVIOUS
    <3>4. CASE d = 1
      <4>1. r.cursor = n + 1 /\ r.stop /\ r.code = "complete"
        <5>1. r = Err([q EXCEPT !.depth = 0, !.due = "sep"], "complete", 1)
          BY <1>2, <2>3, <3>3, <3>4 DEF CloseArray
        <5> QED BY <1>1, <5>1, StateParts DEF Err
      <4>2. MayFollow(n)
        BY <1>4, <1>5, <2>0, <3>2, TakesWhatFits
      <4>3. Document(n + 1) /\ Tokens(n + 1) = u
        BY <1>4, <1>5, <2>0, <3>4, <4>2, ClosedDocument
      <4> QED BY <1>4, <2>1, <3>3, <4>1, <4>3 DEF Right, Verdict
    <3>5. CASE d # 1
      <4>1. r.cursor = n + 1 /\ r.depth = d - 1 /\ r.due = "sep" /\ r.used = u /\ ~r.stop /\ r.code = "incomplete"
        BY <1>1, <1>2, <1>3, <1>4, <2>3, <3>3, <3>5, StateParts DEF CloseArray
      <4>2. Known(n + 1, d - 1, "sep", Tokens(n + 1))
        <5>1. d - 1 \in Int /\ d - 1 > 0 /\ After(cmdbuf[n + 1]) = "sep" /\ cmdbuf[n + 1] # "["
          BY <2>0, <3>1, <3>5 DEF After
        <5> QED BY <1>7, <2>0, <3>2, <5>1
      <4>3. Tokens(n + 1) = u
        BY <1>5, <2>0, OneMoreToken
      <4> QED BY <2>1, <3>3, <4>1, <4>2, <4>3 DEF Right, KnowsIt
    <3> QED BY <3>4, <3>5
  <2> QED BY <2>2, <2>3
<1>11. CASE At(n) = ","
  <2>0. cmdbuf[n + 1] = "," /\ cmdbuf[n + 1] # Space /\ cmdbuf[n + 1] # "1"
    BY <1>4, <1>11, Characters
  <2>1. ReadChar(q) = Comma(q)
    BY <1>1, <1>11 DEF ReadChar
  <2>2. CASE q.due # "sep"
    <3>1. ~Takes(q.due, cmdbuf[n + 1])
      BY <2>0, <2>2 DEF Takes
    <3>2. Comma(q) = Err(q, "syntax", 2)
      BY <2>2 DEF Comma
    <3> QED BY <1>6, <2>0, <2>1, <3>1, <3>2, RightError DEF Results
  <2>3. CASE q.due = "sep"
    <3>1. PICK r : r = Comma(q)
      OBVIOUS
    <3>2. r.cursor = n + 1 /\ r.depth = d /\ r.due = "next" /\ r.used = u /\ ~r.stop /\ r.code = "incomplete"
      BY <1>1, <1>2, <1>3, <1>4, <2>3, <3>1, StateParts DEF Comma
    <3>3. Takes(q.due, cmdbuf[n + 1]) /\ d > 0
      BY <1>4, <1>5, <2>0, <2>3, DueIs DEF Takes
    <3>4. Known(n + 1, d, "next", Tokens(n + 1))
      <4>1. cmdbuf[n + 1] # "[" /\ cmdbuf[n + 1] # "]" /\ After(cmdbuf[n + 1]) = "next"
        BY <2>0 DEF After
      <4> QED BY <1>4, <1>7, <2>0, <3>3, <4>1
    <3>5. Tokens(n + 1) = u
      BY <1>5, <2>0, OneMoreToken
    <3> QED BY <2>1, <3>1, <3>2, <3>4, <3>5 DEF Right, KnowsIt
  <2> QED BY <2>2, <2>3
<1> QED BY <1>1, <1>4, <1>8, <1>9, <1>10, <1>11, Characters

\* A number, whether its end is there or not.
LEMMA RightNumber ==
    ASSUME Filled, NEW q \in ParserState, ~Stopped(q), q.code = "incomplete", KnowsIt(q),
           At(q.cursor) = "1"
    PROVE  Right(ReadChar(q))
<1>1. PICK n \in Nat : n = q.cursor
  BY StateParts
<1>2. PICK d \in Nat : d = q.depth
  BY StateParts
<1>3. PICK u \in Nat : u = q.used
  BY StateParts
<1>4. /\ n < index /\ index \in Nat /\ At(n) = "1" /\ cmdbuf[n + 1] = "1" /\ cmdbuf[n + 1] # Space
      /\ ~q.stop /\ d \in Int
  <2>1. At(n) # "nul" /\ ~q.stop /\ At(n) = "1"
    BY <1>1 DEF Stopped
  <2>2. n < index /\ index \in Nat
    BY <2>1, Bytes
  <2>3. cmdbuf[n + 1] = "1"
    BY <2>1, <2>2 DEF At
  <2>4. "1" # Space
    BY Characters
  <2>5. d \in Int
    OBVIOUS
  <2> QED BY <1>1, <2>1, <2>2, <2>3, <2>4, <2>5
<1>5. Known(n, d, q.due, u)
  BY <1>1, <1>2, <1>3 DEF KnowsIt
<1> DEFINE ends == {i \in n .. index : At(i) # "1"}
<1>6. ends \subseteq Nat /\ index \in ends
  BY <1>4, Bytes
<1>7. PICK end \in ends : \A i \in ends : end <= i
  <2> HIDE DEF ends
  <2> QED BY <1>6, Least
<1>8. Min(ends) = end
  <2> HIDE DEF ends
  <2> QED BY <1>6, <1>7, MinIs
<1>9. /\ end \in Nat /\ n < end /\ end <= index /\ At(end) # "1"
      /\ \A i \in n + 1 .. end : cmdbuf[i] = "1"
  <2>1. end \in n .. index /\ At(end) # "1" /\ end # n
    BY <1>4, <1>7
  <2>2. ASSUME NEW i \in n + 1 .. end PROVE cmdbuf[i] = "1"
    <3>1. i - 1 \in n .. index /\ i - 1 < end /\ i - 1 < index /\ (i - 1) + 1 = i
      BY <1>4, <2>1
    <3>2. At(i - 1) = "1"
      BY <1>7, <2>1, <3>1
    <3> QED BY <3>1, <3>2 DEF At
  <2> QED BY <1>4, <2>1, <2>2
<1>10. /\ ReadChar(q) = Number(q)
       /\ Min({i \in q.cursor .. index : At(i) # "1"}) = end
  BY <1>1, <1>8 DEF ReadChar
<1> HIDE DEF ends
<1>11. CASE q.depth = 0 \/ ~InInput(q)
  <2>1. q.due = "value" \/ q.due = "sep"
    BY <1>2, <1>4, <1>5, <1>11, DueIs DEF InInput
  <2>2. ~Takes(q.due, cmdbuf[n + 1])
    BY <1>4, <2>1 DEF Takes
  <2>3. \A k : ~Document(k)
    BY <1>4, <1>5, <2>2, Refused
  <2>4. Number(q) = Err(q, "syntax", 1)
    BY <1>11 DEF Number
  <2> QED BY <1>10, <2>3, <2>4, RightError DEF Results
<1>12. CASE ~(q.depth = 0 \/ ~InInput(q)) /\ q.used = TokensNum
  <2>1. Number(q) = Err(q, "tokens", 1)
    BY <1>12 DEF Number
  <2>2. \A k : Document(k) => Tokens(k) > TokensNum
    BY <1>3, <1>4, <1>5, <1>12, TooMany
  <2> QED BY <1>10, <2>1, <2>2, RightError DEF Results
<1>13. CASE ~(q.depth = 0 \/ ~InInput(q)) /\ q.used # TokensNum
  <2>1. q.due \in {"first", "next"} /\ d > 0
    BY <1>2, <1>4, <1>5, <1>13, DueIs DEF InInput
  <2>2. MayFollow(n)
    <3>1. Takes(q.due, cmdbuf[n + 1])
      BY <1>4, <2>1 DEF Takes
    <3> QED BY <1>4, <1>5, <3>1, TakesWhatFits
  <2>3. Known(end, d, "sep", u + 1)
    BY <1>4, <1>5, <1>9, <2>1, <2>2, NumberFollows
  <2>4. CASE At(end) = "nul"
    <3>1. end = index
      BY <1>4, <1>9, <2>4, Bytes
    <3>2. ASSUME NEW k, Document(k) PROVE FALSE
      <4>1. end < k /\ k \in 1 .. index
        BY <1>4, <1>9, <2>3, <3>2, GoesOn
      <4> QED BY <1>4, <3>1, <4>1
    <3>3. Number(q) = Err(q, "incomplete", 0)
      BY <1>10, <1>13, <2>4 DEF Number
    <3> QED BY <1>10, <3>2, <3>3, RightError DEF Results
  <2>5. CASE At(end) \in {"]", ",", Space}
    <3>1. At(end) # "nul"
      BY <1>9, <2>5, Bytes, Characters
    <3>2. Number(q) = [q EXCEPT !.due = "sep", !.used = @ + 1, !.cursor = end]
      BY <1>10, <1>13, <2>5, <3>1, Zenon DEF Number, Space
    <3>3. PICK r : r = Number(q)
      OBVIOUS
    <3>4. r.cursor = end /\ r.depth = d /\ r.due = "sep" /\ r.used = u + 1 /\ ~r.stop /\ r.code = "incomplete"
      BY <1>2, <1>3, <1>4, <3>2, <3>3, StateParts
    <3> QED BY <1>10, <2>3, <3>3, <3>4 DEF Right, KnowsIt
  <2>6. CASE At(end) = "["
    <3>1. end < index
      BY <1>9, <2>6, Bytes
    <3>2. cmdbuf[end + 1] = "["
      BY <2>6, <3>1 DEF At
    <3>3. \A k : ~Document(k)
      <4>1. ~Takes("sep", cmdbuf[end + 1]) /\ cmdbuf[end + 1] # Space
        BY <3>2, Characters DEF Takes
      <4>2. u + 1 \in Nat
        OBVIOUS
      <4> QED BY <1>4, <1>9, <2>3, <3>1, <4>1, Refused
    <3>4. Number(q) = Err(q, "syntax", 1)
      <4>1. At(end) # "nul" /\ At(end) \notin {"]", ",", Space}
        BY <2>6, Characters
      <4> QED BY <1>10, <1>13, <4>1, Zenon DEF Number, Space
    <3> QED BY <1>10, <3>3, <3>4, RightError DEF Results
  <2>7. At(end) \in {"nul", "]", ",", Space, "["}
    BY <1>9, Bytes, Characters
  <2> QED BY <2>4, <2>5, <2>6, <2>7
<1> QED BY <1>11, <1>12, <1>13

\* One lexeme.
LEMMA RightStep ==
    ASSUME Filled, NEW q \in ParserState, ~Stopped(q), Right(q)
    PROVE  Right(ReadChar(q))
<1>1. KnowsIt(q) /\ q.code = "incomplete"
  BY DEF Stopped, Right
<1> QED BY <1>1, RightCharacter, RightNumber

\* The loop gives its verdict on the bytes in cmdbuf.
LEMMA RunIsRight ==
    ASSUME Filled
    PROVE  Run[Fresh] \in ParserState /\ Verdict(Run[Fresh])
<1> DEFINE G == {q \in ParserState : Right(q) => Verdict(Run[q])}
<1>1. ASSUME NEW q \in ParserState, Stopped(q), Right(q) PROVE Verdict(Run[q])
  <2>1. Run[q] = q
    BY <1>1, RunDefined
  <2>2. CASE q.stop
    BY <1>1, <2>1, <2>2 DEF Right
  <2>3. CASE ~q.stop
    <3>1. KnowsIt(q) /\ q.code = "incomplete" /\ At(q.cursor) = "nul"
      BY <1>1, <2>3 DEF Right, Stopped
    <3>2. q.cursor \in Nat /\ q.depth \in Int /\ ~(q.cursor < index) /\ index \in Nat
      <4>1. q.cursor \in Nat /\ q.depth \in Int
        BY StateParts
      <4> QED BY <3>1, <4>1, Bytes
    <3>3. ASSUME NEW k, Document(k) PROVE FALSE
      <4>1. q.cursor < k /\ k \in 1 .. index
        BY <3>1, <3>2, <3>3, GoesOn DEF KnowsIt
      <4> QED BY <3>2, <4>1
    <3> QED BY <2>1, <3>1, <3>3 DEF Verdict
  <2> QED BY <2>2, <2>3
<1>2. \A q \in ParserState : Stopped(q) \/ ReadChar(q) \in G => q \in G
  <2> TAKE q \in ParserState
  <2>1. CASE Stopped(q)
    BY <1>1, <2>1
  <2>2. ASSUME ~Stopped(q), ReadChar(q) \in G PROVE q \in G
    <3>1. Run[q] = Run[ReadChar(q)]
      BY <2>2, RunDefined
    <3>2. Right(q) => Right(ReadChar(q))
      BY <2>2, RightStep
    <3> QED BY <2>2, <3>1, <3>2
  <2> QED BY <2>1, <2>2
<1>3. ParserState \subseteq G
  <2> HIDE DEF G
  <2> QED BY <1>2, LoopInduction
<1>4. Fresh \in ParserState /\ Begun(Fresh)
  BY FreshState DEF Begun
<1>5. Right(Fresh)
  <2>1. \A c : Num(0, c) = 0
    <3>1. \A c : Having(0, c) = {}
      BY DEF Having
    <3> QED BY <3>1, FS_EmptySet DEF Num
  <2>2. Tokens(0) = 0
    <3>1. Starts(0) = {}
      BY DEF Starts
    <3> QED BY <3>1, FS_EmptySet DEF Tokens
  <2>3. Known(0, 0, "value", 0)
    <3>1. 0 \in 0 .. index /\ 1 .. 0 = {}
      BY Bytes
    <3> QED BY <2>1, <2>2, <3>1 DEF Known, Blank
  <2> QED BY <2>3 DEF Right, KnowsIt, Fresh
<1>6. Run[Fresh] \in ParserState
  BY <1>4, RunEnds
<1> QED BY <1>3, <1>4, <1>5, <1>6

-----------------------------------------------------------------------------
(* What a turn takes. *)

TakesIt ==
    pc # "idle" =>
       \E len \in {DocumentLen} :
         IF len > 0 /\ TokensOf(SubSeq(cmdbuf, 1, len)) <= TokensNum
         THEN /\ lastResult' = "complete"
              /\ cmdbuf' = SubSeq(cmdbuf, len + 1, index)
         ELSE lastResult' # "complete"

\* A turn of either loop.
LEMMA TurnTakes ==
    ASSUME CallInv, ChunkingInvisible, Turn PROVE TakesIt
<1>1. Filled /\ index \in Nat /\ parser \in ParserState
  BY DEF CallInv, TypeOK, Filled, index
<1>2. PICK r : r = Run[Fresh]
  OBVIOUS
<1>3. r \in ParserState /\ Verdict(r)
  BY <1>1, <1>2, RunIsRight
<1>4. PICK p : p = Parse(parser)
  OBVIOUS
<1>5. p.code = r.code /\ p.cursor = r.cursor
  <2>1. p = [r EXCEPT !.stop = FALSE]
    BY <1>2, <1>4 DEF ChunkingInvisible, Parse
  <2> QED BY <1>3, <2>1, StateParts
<1>6. PICK result : result = ResultOf(p)
  OBVIOUS
<1>7. /\ lastResult' = result
      /\ result = "complete" => Dequeue(p.cursor)
  BY <1>4, <1>6, Zenon DEF Turn, Dispatch, ProcCmd, EndTurn
<1>8. result = "complete" <=> r.code = "complete"
  BY <1>5, <1>6 DEF ResultOf
<1>9. PICK len : len = DocumentLen
  OBVIOUS
<1>10. \A n : Document(n) => n \in 0 .. index /\ len = n /\ n > 0 /\ TokensOf(SubSeq(cmdbuf, 1, n)) = Tokens(n)
  <2> TAKE n
  <2> HAVE Document(n)
  <2>1. n \in 1 .. index
    BY DEF Document
  <2>2. n \in 0 .. index
    BY <1>1, <2>1
  <2> QED BY <1>1, <1>9, <2>2, CountIs, DocumentLenIs
<1>11. CASE r.code = "complete"
  <2>1. PICK n : n = r.cursor
    OBVIOUS
  <2>2. Document(n) /\ Tokens(n) <= TokensNum
    BY <1>3, <1>11, <2>1 DEF Verdict
  <2>3. len = n /\ n > 0 /\ TokensOf(SubSeq(cmdbuf, 1, len)) <= TokensNum /\ n \in 0 .. index
    BY <1>10, <2>2
  <2>4. cmdbuf' = SubSeq(cmdbuf, n + 1, index)
    <3>1. Dequeue(n)
      BY <1>5, <1>7, <1>8, <1>11, <2>1
    <3>2. CASE index <= n
      <4>1. cmdbuf' = <<>>
        BY <3>1, <3>2 DEF Dequeue, Flush
      <4>2. n = index
        BY <1>1, <2>3, <3>2
      <4>3. SubSeq(cmdbuf, index + 1, index) = <<>>
        BY <1>1 DEF Filled
      <4> QED BY <4>1, <4>2, <4>3
    <3>3. CASE ~(index <= n)
      BY <3>1, <3>3 DEF Dequeue
    <3> QED BY <3>2, <3>3
  <2> QED BY <1>7, <1>8, <1>9, <1>11, <2>3, <2>4 DEF TakesIt
<1>12. CASE r.code # "complete"
  <2>1. lastResult' # "complete"
    BY <1>7, <1>8, <1>12
  <2>2. \A n : Document(n) => Tokens(n) > TokensNum
    BY <1>3, <1>12 DEF Verdict
  <2>3. ~(len > 0 /\ TokensOf(SubSeq(cmdbuf, 1, len)) <= TokensNum)
    <3>1. CASE \E n : Document(n)
      <4>1. PICK n : Document(n)
        BY <3>1
      <4>2. len = n /\ TokensOf(SubSeq(cmdbuf, 1, len)) = Tokens(n) /\ n \in Nat
        BY <1>1, <1>10, <4>1
      <4>3. Tokens(n) > TokensNum /\ Tokens(n) \in Nat
        BY <2>2, <4>1, <4>2, Finite
      <4> QED BY <4>2, <4>3, TokensAssumption
    <3>2. CASE \A n : ~Document(n)
      <4>1. len = 0
        BY <1>1, <1>9, <3>2, DocumentLenIs
      <4> QED BY <4>1
    <3> QED BY <3>1, <3>2
  <2> QED BY <1>9, <2>1, <2>3 DEF TakesIt
<1> QED BY <1>11, <1>12

\* A turn of the loop of nmjson_buffer_read or nmjson_buffer_read_for_cmd reports a
\* document when, and only when, one is at the head of cmdbuf and the pool has the
\* tokens for it, and it removes exactly that document.
THEOREM TurnsTakeDocuments == Spec => TurnTakesTheDocument
<1>1. CallInv /\ ChunkingInvisible /\ [Next]_vars => [TakesIt]_vars
  <2> SUFFICES ASSUME CallInv, ChunkingInvisible, Next PROVE TakesIt
    OBVIOUS
  <2>1. Turn \/ pc = "idle"
    BY DEF Next, Load, WouldBlock, Closed, SystemErr, NoData
  <2>2. CASE pc = "idle"
    BY <2>2 DEF TakesIt
  <2> QED BY <2>1, <2>2, TurnTakes
<1>2. [][TakesIt]_vars => TurnTakesTheDocument
  BY DEF TakesIt, TurnTakesTheDocument
<1> QED BY <1>1, <1>2, CallInvariant, ChunksDoNotShow, PTL DEF Spec
=============================================================================
