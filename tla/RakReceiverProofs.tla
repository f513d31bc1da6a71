-------------------------- MODULE RakReceiverProofs --------------------------
(***************************************************************************)
(* Proofs about RakReceiver: a survey that ends without an error has every *)
(* scan of every board, once and in order.                                 *)
(***************************************************************************)
EXTENDS RakReceiver, FifoLemmas, SequenceTheorems, FiniteSetTheorems, TLAPS

-----------------------------------------------------------------------------
(* Types.                                                                  *)

LineType == [kind : {"ready", "scan", "torn", "error", "end"}, point : Int, number : Nat]
ChildType == [phase : {"none", "init", "loop", "finish", "end", "exited"}, told : BOOLEAN,
              error : BOOLEAN, status : {0, 1, 9, 70}, scans : Nat, at : Int]
ProcType == [pid : {"none", "owned", "reaped"}, failed : BOOLEAN, sawEnd : BOOLEAN,
             eof : BOOLEAN, torn : BOOLEAN, delivered : BOOLEAN, tries : Nat]
EngType == [phase : {"start", "loop", "drain", "read", "wait", "idle"}, run : BOOLEAN,
            board : 1 .. Boards + 1, started : 0 .. Boards, ready : SUBSET Board, bad : BOOLEAN]

TypeOK ==
  /\ child \in [Board -> ChildType] /\ pipe \in [Board -> Seq(LineType)]
  /\ proc \in [Board -> ProcType] /\ eng \in EngType
  /\ handled \in [Board -> Seq(Nat)]

-----------------------------------------------------------------------------
(* The inductive invariant.                                                *)

\* The boards are started in turn and, after the loop, stopped in turn.
Stopping == {"drain", "read", "wait", "idle"}
Order ==
  /\ eng.phase = "start" => eng.board = eng.started + 1 /\ eng.board <= Boards
  /\ eng.phase = "loop" => eng.started = Boards /\ eng.board <= Boards
  /\ eng.phase \in Stopping => eng.board <= eng.started + 1
  /\ eng.phase \in {"read", "wait"} => eng.board <= eng.started
  /\ eng.phase = "idle" => eng.board = eng.started + 1

Settled(i) == eng.phase \in Stopping /\ i < eng.board
Upto(a) == [n \in 1 .. a |-> n]

\* What is in a pipe: READY lines, then the scans a + 1 .. a + m, then lines
\* of the end.
Laid(s, a, r, m) ==
  \A n \in 1 .. Len(s) :
    /\ n <= r => s[n].kind = "ready"
    /\ r < n /\ n <= r + m => s[n].kind = "scan" /\ s[n].number = a + (n - r)
    /\ r + m < n => s[n].kind \notin {"ready", "scan"}

\* A worker's scans are handled up to one of them and the rest are in the pipe
\* (c the worker, s its pipe, h what was handled) ...
Placed(c, s, h, a, r, m) ==
  /\ h = Upto(a) /\ a + m = c.scans /\ r + m <= Len(s) /\ Laid(s, a, r, m)
  /\ c.phase = "loop" => Len(s) = r + m
  /\ c.phase = "init" => Len(s) = 0 /\ c.scans = 0
Account(c, s, h) ==
  \E a \in 0 .. Len(h), r \in 0 .. Len(s), m \in 0 .. Len(s) : Placed(c, s, h, a, r, m)

\* ... or a scan found no room, and the exit status will tell.
Lost(c) == c.phase \in {"finish", "end", "exited"} /\ c.status # 0

\* Of every board, whatever failed.
Steady(c, s, p) ==
  /\ c.phase \in {"init", "loop"} => c.status # 0
  /\ p.eof => Len(s) = 0 /\ c.phase = "exited"

\* Of a board not started, of one that runs and of one that was stopped.
Fresh(c, s, p, h) == c = NoChild /\ Len(s) = 0 /\ p = FreshProc /\ Len(h) = 0
Running(c, s, p, h) == ~p.failed /\ (Account(c, s, h) \/ Lost(c))
Complete(c, h) == c.phase = "exited" /\ h = Upto(c.scans)

BoardInv(i) ==
  /\ Steady(child[i], pipe[i], proc[i])
  /\ i > eng.started => Fresh(child[i], pipe[i], proc[i], handled[i])
  /\ i <= eng.started /\ ~eng.bad =>
       IF Settled(i) THEN Complete(child[i], handled[i])
       ELSE Running(child[i], pipe[i], proc[i], handled[i])

RakInv == TypeOK /\ Order /\ \A i \in Board : BoardInv(i)

-----------------------------------------------------------------------------
(* One read: the lines are parsed from left to right.                      *)

ReadType == [p : ProcType, out : Seq(LineType)]
IsReading(f, k, p, s) ==
  f = [n \in 0 .. k |-> IF n = 0 THEN [p |-> p, out |-> <<>>] ELSE Parsed(f[n - 1], s[n])]

\* The partial results of a read exist (the recursive function of Poll).
LEMMA ReadingExists ==
  ASSUME NEW k \in Nat, NEW p, NEW s PROVE \E f : IsReading(f, k, p, s)
  <1> DEFINE First == [p |-> p, out |-> <<>>]
             Go(x, n) == Parsed(x, s[n])
             Step(f, n) == f = [i \in 0 .. n |-> IF i = 0 THEN First ELSE Go(f[i - 1], i)]
             S == {n \in 0 .. k : ~ \E f : Step(f, n)}
  <1>0. k \in Nat
    BY LenProperties
  <1> SUFFICES S = {}
    <2>1. k \in 0 .. k
      BY <1>0
    <2>2. PICK f : Step(f, k)
      BY <2>1
    <2> QED BY <2>2 DEF IsReading
  <1> HIDE DEF First, Go
  <1> SUFFICES ASSUME S # {} PROVE FALSE
    OBVIOUS
  <1>1. PICK m \in S : \A n \in S : m <= n
    <2> S \subseteq Nat
      BY <1>0
    <2> HIDE DEF S
    <2> QED BY LeastElement
  <1>2. CASE m = 0
    <2> DEFINE f == [i \in 0 .. 0 |-> First]
    <2>1. Step(f, 0)
      OBVIOUS
    <2> HIDE DEF f
    <2> QED BY <1>1, <1>2, <2>1
  <1>3. CASE m # 0
    <2>1. m \in 1 .. k /\ m - 1 \in 0 .. k /\ ~ (m <= m - 1)
      BY <1>0, <1>1, <1>3
    <2>2. PICK f : Step(f, m - 1)
      BY <1>1, <2>1
    <2> DEFINE g == [i \in 0 .. m |-> IF i < m THEN f[i] ELSE Go(f[m - 1], m)]
    <2>3. \A i \in 0 .. m : g[i] = IF i < m THEN f[i] ELSE Go(f[m - 1], m)
      OBVIOUS
    <2>a. g = [i \in 0 .. m |-> g[i]]
      OBVIOUS
    <2> HIDE DEF g
    <2>4. ASSUME NEW i \in 0 .. m PROVE g[i] = IF i = 0 THEN First ELSE Go(g[i - 1], i)
      <3>1. CASE i = m
        <4>1. g[i] = Go(f[m - 1], m) /\ i # 0 /\ i - 1 \in 0 .. m /\ g[i - 1] = f[m - 1]
          BY <2>1, <2>3, <3>1
        <4> QED BY <3>1, <4>1
      <3>2. CASE i < m /\ i # 0
        <4>1. i \in 0 .. m - 1 /\ i - 1 \in 0 .. m /\ i - 1 < m
          BY <2>1, <3>2
        <4>2. f[i] = Go(f[i - 1], i)
          BY <2>2, <3>2, <4>1
        <4>3. g[i] = f[i] /\ g[i - 1] = f[i - 1]
          BY <2>3, <3>2, <4>1
        <4> QED BY <3>2, <4>2, <4>3
      <3>3. CASE i < m /\ i = 0
        <4>1. f[0] = First
          <5>1. 0 \in 0 .. m - 1
            BY <2>1
          <5> QED BY <5>1, <2>2
        <4> QED BY <2>3, <3>3, <4>1
      <3> QED BY <2>1, <3>1, <3>2, <3>3
    <2>5. Step(g, m)
      BY <2>a, <2>4
    <2> QED BY <1>1, <2>5
  <1> QED BY <1>2, <1>3

\* The partial results of the engine's handling exist (that of Handle).
IsHandling(f, out, s0, i, stopping) ==
  f = [n \in 0 .. Len(out) |->
         IF n = 0 THEN s0
         ELSE IF f[n - 1].threw /\ ~stopping THEN f[n - 1]
         ELSE HandleMessage(f[n - 1], out[n], i, stopping)]

LEMMA HandlingExists ==
  ASSUME NEW out \in Seq(LineType), NEW s0, NEW b, NEW stopping
  PROVE  \E f : IsHandling(f, out, s0, b, stopping)
  <1> DEFINE First == s0
             Go(x, n) == IF x.threw /\ ~stopping THEN x ELSE HandleMessage(x, out[n], b, stopping)
             Step(f, n) == f = [i \in 0 .. n |-> IF i = 0 THEN First ELSE Go(f[i - 1], i)]
             S == {n \in 0 .. Len(out) : ~ \E f : Step(f, n)}
  <1>0. Len(out) \in Nat
    BY LenProperties
  <1> SUFFICES S = {}
    <2>1. Len(out) \in 0 .. Len(out)
      BY <1>0
    <2>2. PICK f : Step(f, Len(out))
      BY <2>1
    <2> QED BY <2>2 DEF IsHandling
  <1> HIDE DEF First, Go
  <1> SUFFICES ASSUME S # {} PROVE FALSE
    OBVIOUS
  <1>1. PICK m \in S : \A n \in S : m <= n
    <2> S \subseteq Nat
      BY <1>0
    <2> HIDE DEF S
    <2> QED BY LeastElement
  <1>2. CASE m = 0
    <2> DEFINE f == [i \in 0 .. 0 |-> First]
    <2>1. Step(f, 0)
      OBVIOUS
    <2> HIDE DEF f
    <2> QED BY <1>1, <1>2, <2>1
  <1>3. CASE m # 0
    <2>1. m \in 1 .. Len(out) /\ m - 1 \in 0 .. Len(out) /\ ~ (m <= m - 1)
      BY <1>0, <1>1, <1>3
    <2>2. PICK f : Step(f, m - 1)
      BY <1>1, <2>1
    <2> DEFINE g == [i \in 0 .. m |-> IF i < m THEN f[i] ELSE Go(f[m - 1], m)]
    <2>3. \A i \in 0 .. m : g[i] = IF i < m THEN f[i] ELSE Go(f[m - 1], m)
      OBVIOUS
    <2>a. g = [i \in 0 .. m |-> g[i]]
      OBVIOUS
    <2> HIDE DEF g
    <2>4. ASSUME NEW i \in 0 .. m PROVE g[i] = IF i = 0 THEN First ELSE Go(g[i - 1], i)
      <3>1. CASE i = m
        <4>1. g[i] = Go(f[m - 1], m) /\ i # 0 /\ i - 1 \in 0 .. m /\ g[i - 1] = f[m - 1]
          BY <2>1, <2>3, <3>1
        <4> QED BY <3>1, <4>1
      <3>2. CASE i < m /\ i # 0
        <4>1. i \in 0 .. m - 1 /\ i - 1 \in 0 .. m /\ i - 1 < m
          BY <2>1, <3>2
        <4>2. f[i] = Go(f[i - 1], i)
          BY <2>2, <3>2, <4>1
        <4>3. g[i] = f[i] /\ g[i - 1] = f[i - 1]
          BY <2>3, <3>2, <4>1
        <4> QED BY <3>2, <4>2, <4>3
      <3>3. CASE i < m /\ i = 0
        <4>1. f[0] = First
          <5>1. 0 \in 0 .. m - 1
            BY <2>1
          <5> QED BY <5>1, <2>2
        <4> QED BY <2>3, <3>3, <4>1
      <3> QED BY <2>1, <3>1, <3>2, <3>3
    <2>5. Step(g, m)
      BY <2>a, <2>4
    <2> QED BY <1>1, <2>5
  <1> QED BY <1>2, <1>3

\* What a read of k lines has made of them: a failure that shows as an error
\* message, or the lines as they were, but for a torn one at the end.
Begins(out, s, j) == Len(out) = j /\ \A n \in 1 .. j : out[n] = s[n] /\ s[n].kind # "torn"
HasError(out) == \E n \in 1 .. Len(out) : out[n].kind = "error"
Outcome(g, s, k) ==
  \/ g.p.failed /\ HasError(g.out)
  \/ /\ ~g.p.failed
     /\ \/ Begins(g.out, s, k)
        \/ k > 0 /\ s[k].kind = "torn" /\ g.p.torn /\ Begins(g.out, s, k - 1)
Read(g, p, s, k) == g \in ReadType /\ g.p.eof = p.eof /\ (~p.failed => Outcome(g, s, k))

LEMMA ParsedType ==
  ASSUME NEW g \in ReadType, NEW line \in LineType
  PROVE  /\ Parsed(g, line) \in ReadType /\ Parsed(g, line).p.eof = g.p.eof
         /\ g.p.failed => Parsed(g, line) = g
         /\ ~g.p.failed =>
              \/ Parsed(g, line).p.failed /\ Parsed(g, line).out = Append(g.out, Line("error"))
              \/ /\ ~g.p.torn /\ line.kind = "torn" /\ Parsed(g, line).out = g.out
                 /\ Parsed(g, line).p.torn /\ ~Parsed(g, line).p.failed
              \/ /\ ~g.p.torn /\ line.kind # "torn" /\ ~Parsed(g, line).p.failed
                 /\ Parsed(g, line).out = Append(g.out, line)
  <1> DEFINE e == Line("error")
             failing == [g.p EXCEPT !.failed = TRUE, !.torn = FALSE]
             tearing == [g.p EXCEPT !.torn = TRUE]
             going == [g.p EXCEPT !.sawEnd = (line.kind = "end")]
  <1>1. g.p \in ProcType /\ g.out \in Seq(LineType)
    BY DEF ReadType
  <1>2. e \in LineType
    BY DEF Line, LineType
  <1>3. failing \in ProcType /\ failing.failed /\ failing.eof = g.p.eof
    BY <1>1 DEF ProcType
  <1>4. tearing \in ProcType /\ tearing.torn /\ tearing.eof = g.p.eof
        /\ tearing.failed = g.p.failed
    BY <1>1 DEF ProcType
  <1>5. going \in ProcType /\ going.eof = g.p.eof /\ going.failed = g.p.failed
    <2>1. (line.kind = "end") \in BOOLEAN
      OBVIOUS
    <2> QED BY <1>1, <2>1 DEF ProcType
  <1>6. Append(g.out, e) \in Seq(LineType) /\ Append(g.out, line) \in Seq(LineType)
    BY <1>1, <1>2, AppendProperties
  <1>7. Parsed(g, line) =
          IF g.p.failed THEN g
          ELSE IF g.p.sawEnd \/ g.p.torn \/ line.kind = "error"
          THEN [p |-> failing, out |-> Append(g.out, e)]
          ELSE IF line.kind = "torn" THEN [p |-> tearing, out |-> g.out]
          ELSE [p |-> going, out |-> Append(g.out, line)]
    BY DEF Parsed
  <1> HIDE DEF failing, tearing, going, e
  <1>8. CASE g.p.failed
    BY <1>7, <1>8
  <1>9. CASE ~g.p.failed /\ (g.p.sawEnd \/ g.p.torn \/ line.kind = "error")
    <2>1. Parsed(g, line) = [p |-> failing, out |-> Append(g.out, e)]
      BY <1>7, <1>9
    <2>2. Parsed(g, line) \in ReadType
      BY <2>1, <1>3, <1>6 DEF ReadType
    <2> QED BY <2>1, <2>2, <1>3, <1>9 DEF e
  <1>10. CASE ~g.p.failed /\ ~(g.p.sawEnd \/ g.p.torn \/ line.kind = "error") /\ line.kind = "torn"
    <2>1. Parsed(g, line) = [p |-> tearing, out |-> g.out]
      BY <1>7, <1>10
    <2>2. Parsed(g, line) \in ReadType
      BY <2>1, <1>1, <1>4 DEF ReadType
    <2> QED BY <2>1, <2>2, <1>4, <1>10
  <1>11. CASE ~g.p.failed /\ ~(g.p.sawEnd \/ g.p.torn \/ line.kind = "error") /\ line.kind # "torn"
    <2>1. Parsed(g, line) = [p |-> going, out |-> Append(g.out, line)]
      BY <1>7, <1>11
    <2>2. Parsed(g, line) \in ReadType
      BY <2>1, <1>5, <1>6 DEF ReadType
    <2> QED BY <2>1, <2>2, <1>5, <1>11
  <1> QED BY <1>8, <1>9, <1>10, <1>11

LEMMA ReadStep ==
  ASSUME NEW p \in ProcType, NEW s \in Seq(LineType), NEW k \in Nat, k + 1 <= Len(s),
         NEW g, Read(g, p, s, k)
  PROVE  Read(Parsed(g, s[k + 1]), p, s, k + 1)
  <1> DEFINE line == s[k + 1]
             h == Parsed(g, line)
  <1>1. line \in LineType
    <2>1. k + 1 \in 1 .. Len(s)
      BY LenProperties
    <2> QED BY <2>1, ElementOfSeq
  <1>2. g \in ReadType
    BY DEF Read, Outcome
  <1>3. /\ h \in ReadType /\ h.p.eof = g.p.eof
        /\ g.p.failed => h = g
        /\ ~g.p.failed =>
              \/ h.p.failed /\ h.out = Append(g.out, Line("error"))
              \/ /\ ~g.p.torn /\ line.kind = "torn" /\ h.out = g.out
                 /\ h.p.torn /\ ~h.p.failed
              \/ /\ ~g.p.torn /\ line.kind # "torn" /\ ~h.p.failed
                 /\ h.out = Append(g.out, line)
    <2> HIDE DEF line
    <2> QED BY <1>1, <1>2, ParsedType
  <1>4. g.out \in Seq(LineType) /\ Len(g.out) \in Nat
    BY <1>2, LenProperties DEF ReadType
  <1>5. ASSUME NEW x \in LineType
        PROVE  /\ Len(Append(g.out, x)) = Len(g.out) + 1
               /\ \A n \in 1 .. Len(g.out) : Append(g.out, x)[n] = g.out[n]
               /\ Append(g.out, x)[Len(g.out) + 1] = x
    BY <1>4, AppendProperties
  <1> HIDE DEF h
  <1>6. ASSUME ~p.failed
        PROVE  \/ h.p.failed /\ HasError(h.out)
               \/ /\ ~h.p.failed
                  /\ \/ Begins(h.out, s, k + 1)
                     \/ k + 1 > 0 /\ line.kind = "torn" /\ h.p.torn /\ Begins(h.out, s, (k + 1) - 1)
    <2>1. CASE g.p.failed
      BY <1>3, <1>6, <2>1 DEF Read, Outcome
    <2>2. CASE ~g.p.failed /\ h.p.failed /\ h.out = Append(g.out, Line("error"))
      <3>1. Line("error") \in LineType /\ Line("error").kind = "error"
        BY DEF Line, LineType
      <3>2. Len(h.out) = Len(g.out) + 1 /\ h.out[Len(g.out) + 1].kind = "error"
        BY <2>2, <3>1, <1>5
      <3>3. Len(g.out) + 1 \in 1 .. Len(h.out)
        BY <3>2, <1>4
      <3> QED BY <2>2, <3>2, <3>3 DEF HasError
    <2>3. ASSUME ~g.p.failed, ~g.p.torn PROVE Begins(g.out, s, k)
      BY <1>6, <2>3 DEF Read, Outcome
    <2>4. CASE ~g.p.failed /\ ~g.p.torn /\ line.kind = "torn" /\ h.out = g.out
               /\ h.p.torn /\ ~h.p.failed
      <3>1. (k + 1) - 1 = k /\ k + 1 > 0
        OBVIOUS
      <3> QED BY <2>3, <2>4, <3>1
    <2>5. CASE ~g.p.failed /\ ~g.p.torn /\ line.kind # "torn" /\ ~h.p.failed
               /\ h.out = Append(g.out, line)
      <3>1. Len(g.out) = k /\ \A n \in 1 .. k : g.out[n] = s[n] /\ s[n].kind # "torn"
        BY <2>3, <2>5 DEF Begins
      <3>2. /\ Len(h.out) = k + 1 /\ h.out[k + 1] = line
            /\ \A n \in 1 .. k : h.out[n] = g.out[n]
        BY <2>5, <3>1, <1>1, <1>5
      <3>3. ASSUME NEW n \in 1 .. k + 1 PROVE h.out[n] = s[n] /\ s[n].kind # "torn"
        <4>1. n \in 1 .. k \/ n = k + 1
          OBVIOUS
        <4> QED BY <4>1, <3>1, <3>2, <2>5
      <3> QED BY <2>5, <3>2, <3>3 DEF Begins
    <2> QED BY <1>3, <2>1, <2>2, <2>4, <2>5
  <1>7. h.p.eof = p.eof
    BY <1>3 DEF Read, Outcome
  <1>8. Read(h, p, s, k + 1)
    BY <1>3, <1>6, <1>7 DEF Read, Outcome
  <1> QED BY <1>8 DEF h

\* The read of Poll, by its last partial result.
LEMMA ReadingReads ==
  ASSUME NEW p \in ProcType, NEW s \in Seq(LineType), NEW k \in 0 .. Len(s),
         NEW f, IsReading(f, k, p, s)
  PROVE  Read(f[k], p, s, k)
  <1> DEFINE S == {n \in 0 .. k : ~Read(f[n], p, s, n)}
  <1>0. Len(s) \in Nat /\ k \in Nat /\ k <= Len(s)
    BY LenProperties
  <1>1. /\ f[0] = [p |-> p, out |-> <<>>]
        /\ \A n \in 0 .. k : n # 0 => f[n] = Parsed(f[n - 1], s[n])
    BY <1>0 DEF IsReading
  <1> SUFFICES ASSUME S # {} PROVE FALSE
    BY <1>0
  <1>2. PICK m \in S : \A n \in S : m <= n
    <2> S \subseteq Nat
      BY <1>0
    <2> HIDE DEF S
    <2> QED BY LeastElement
  <1>3. CASE m = 0
    <2>1. <<>> \in Seq(LineType) /\ Len(<<>>) = 0
      BY EmptySeq
    <2>2. f[0] \in ReadType /\ f[0].p = p /\ f[0].out = <<>>
      BY <1>1, <2>1 DEF ReadType
    <2>3. Read(f[0], p, s, 0)
      BY <2>1, <2>2 DEF Read, Outcome, Begins
    <2> QED BY <1>2, <1>3, <2>3
  <1>4. CASE m # 0
    <2>1. m \in 1 .. k /\ m - 1 \in 0 .. k /\ ~(m <= m - 1)
      BY <1>0, <1>2, <1>4
    <2>2. PICK j \in Nat : j = m - 1 /\ j + 1 = m /\ j \in 0 .. k
      BY <2>1
    <2>3. Read(f[j], p, s, j)
      BY <1>2, <2>1, <2>2
    <2>4. j + 1 <= Len(s)
      BY <1>0, <2>1, <2>2
    <2>5. Read(Parsed(f[j], s[j + 1]), p, s, j + 1)
      BY <2>2, <2>3, <2>4, ReadStep
    <2>6. f[m] = Parsed(f[j], s[j + 1])
      BY <1>1, <1>4, <2>1, <2>2
    <2> QED BY <1>2, <2>2, <2>5, <2>6
  <1> QED BY <1>3, <1>4

\* poll as a whole: the end of the stream comes once the worker has exited and
\* everything it wrote was read.
Polled(g, p, s, k, over) ==
  /\ g \in ReadType /\ (g.p.eof => p.eof \/ (Len(s) = 0 /\ over))
  /\ ~p.failed => Outcome(g, s, k)

LEMMA ReadableLines ==
  ASSUME TypeOK, NEW i \in Board, NEW k \in Readable(i)
  PROVE  k \in 0 .. Len(pipe[i])
  <1>1. pipe[i] \in Seq(LineType)
    BY DEF TypeOK
  <1>2. Len(pipe[i]) \in Nat /\ (Len(pipe[i]) = 0 => pipe[i] = <<>>)
    BY <1>1, EmptySeq, LenProperties
  <1> QED BY <1>2 DEF Readable

LEMMA PollPolls ==
  ASSUME TypeOK, NEW i \in Board, NEW k \in Readable(i)
  PROVE  Polled(Poll(i, k), proc[i], pipe[i], k, Exited(i))
  <1> DEFINE p == proc[i]
             s == pipe[i]
             bad == ~p.failed /\ (~p.sawEnd \/ p.torn)
             ended == [p EXCEPT !.eof = TRUE, !.failed = @ \/ bad, !.torn = FALSE]
             told == IF bad THEN <<Line("error")>> ELSE <<>>
             f == CHOOSE acc : acc = [n \in 0 .. k |->
                    IF n = 0 THEN [p |-> p, out |-> <<>>] ELSE Parsed(acc[n - 1], s[n])]
  <1>0. p \in ProcType /\ s \in Seq(LineType) /\ k \in 0 .. Len(s) /\ Len(s) \in Nat
        /\ (s = <<>> => Len(s) = 0)
    BY ReadableLines, LenProperties, EmptySeq DEF TypeOK
  <1>1. Poll(i, k) = IF s = <<>> /\ Exited(i) /\ ~p.eof THEN [p |-> ended, out |-> told] ELSE f[k]
    BY DEF Poll
  <1>2. ASSUME s = <<>>, Exited(i) PROVE Polled([p |-> ended, out |-> told], p, s, k, Exited(i))
    <2>1. bad \in BOOLEAN /\ (p.failed \/ bad) \in BOOLEAN
      BY <1>0 DEF ProcType
    <2>2. ended \in ProcType /\ ended.eof /\ ended.failed = (p.failed \/ bad)
      BY <1>0, <2>1 DEF ProcType
    <2>3. Line("error") \in LineType /\ Line("error").kind = "error"
      BY DEF Line, LineType
    <2>4. told \in Seq(LineType) /\ (bad => HasError(told)) /\ (~bad => Len(told) = 0)
      <3>1. CASE bad
        <4>1. told = <<Line("error")>>
          BY <3>1
        <4>2. told \in Seq(LineType) /\ Len(told) = 1 /\ told[1].kind = "error"
          BY <2>3, <4>1
        <4> QED BY <3>1, <4>2 DEF HasError
      <3>2. CASE ~bad
        BY <3>2, EmptySeq
      <3> QED BY <3>1, <3>2
    <2>5. k = 0 /\ Len(s) = 0
      BY <1>0, <1>2
    <2> DEFINE g == [p |-> ended, out |-> told]
    <2>6. ~p.failed => (ended.failed = bad)
      BY <2>1, <2>2
    <2> HIDE DEF ended, told, bad
    <2>7. g \in ReadType /\ g.p = ended /\ g.out = told
      BY <2>2, <2>4 DEF ReadType
    <2>8. ~p.failed => Outcome(g, s, k)
      <3>1. CASE bad
        BY <3>1, <2>4, <2>6, <2>7 DEF Outcome
      <3>2. CASE ~bad
        BY <3>2, <2>4, <2>5, <2>6, <2>7 DEF Outcome, Begins
      <3> QED BY <3>1, <3>2
    <2> HIDE DEF g
    <2>9. Polled(g, p, s, k, Exited(i))
      BY <1>2, <2>5, <2>7, <2>8 DEF Polled
    <2> QED BY <2>9 DEF g
  <1>3. Polled(f[k], p, s, k, Exited(i))
    <2>1. f = CHOOSE h : IsReading(h, k, p, s)
      BY DEF IsReading
    <2>2. \E h : IsReading(h, k, p, s)
      <3> HIDE DEF p, s
      <3> QED BY <1>0, ReadingExists
    <2> HIDE DEF f
    <2>3. IsReading(f, k, p, s)
      BY <2>1, <2>2
    <2>4. Read(f[k], p, s, k)
      <3> HIDE DEF p, s
      <3> QED BY <1>0, <2>3, ReadingReads
    <2> QED BY <2>4 DEF Read, Polled
  <1> HIDE DEF ended, told, f
  <1>4. CASE s = <<>> /\ Exited(i) /\ ~p.eof
    BY <1>1, <1>2, <1>4
  <1>5. CASE ~(s = <<>> /\ Exited(i) /\ ~p.eof)
    BY <1>1, <1>3, <1>5
  <1> QED BY <1>4, <1>5

-----------------------------------------------------------------------------
(* The engine's handling of what was read.                                 *)

HandleType == [ready : SUBSET Board, bad : BOOLEAN, threw : BOOLEAN, storeFails : BOOLEAN,
               done : Seq(Nat)]

\* One message is refused, or its scan is recorded.
Took(x, g, m) ==
  /\ x \in HandleType
  /\ \/ x.bad /\ x.threw
     \/ /\ m.kind # "error" /\ x.bad = g.bad /\ x.threw = g.threw
        /\ x.done = IF m.kind \in {"end", "ready"} THEN g.done ELSE Append(g.done, m.number)
LEMMA MessageTaken ==
  ASSUME NEW g \in HandleType, NEW m \in LineType, NEW i \in Board, NEW stopping \in BOOLEAN
  PROVE  Took(HandleMessage(g, m, i, stopping), g, m)
  <1> DEFINE x == HandleMessage(g, m, i, stopping)
             more == Append(g.done, m.number)
             both == g.ready \cup {i}
  <1>1. g.done \in Seq(Nat) /\ m.number \in Nat /\ g.ready \in SUBSET Board
    BY DEF HandleType, LineType
  <1>2. more \in Seq(Nat) /\ both \in SUBSET Board
    BY <1>1, AppendProperties
  <1>3. Throw(g) \in HandleType /\ Throw(g).bad /\ Throw(g).threw
    BY DEF Throw, HandleType
  <1>4. x = g \/ x = Throw(g) \/ x = [g EXCEPT !.ready = both] \/ x = [g EXCEPT !.done = more]
    BY DEF HandleMessage
  <1>5. /\ m.kind = "error" => x = Throw(g)
        /\ m.kind = "end" => x = g \/ x = Throw(g)
        /\ m.kind = "ready" => x = [g EXCEPT !.ready = both] \/ x = Throw(g)
        /\ m.kind \notin {"error", "end", "ready"} => x = [g EXCEPT !.done = more] \/ x = Throw(g)
    BY DEF HandleMessage
  <1>6. /\ [g EXCEPT !.ready = both] \in HandleType
        /\ [g EXCEPT !.ready = both].done = g.done
        /\ [g EXCEPT !.ready = both].bad = g.bad
        /\ [g EXCEPT !.ready = both].threw = g.threw
    <2> HIDE DEF both
    <2> QED BY <1>2 DEF HandleType
  <1>7. /\ [g EXCEPT !.done = more] \in HandleType
        /\ [g EXCEPT !.done = more].done = more
        /\ [g EXCEPT !.done = more].bad = g.bad
        /\ [g EXCEPT !.done = more].threw = g.threw
    <2> HIDE DEF more
    <2> QED BY <1>2 DEF HandleType
  <1> HIDE DEF x
  <1>8. CASE x = Throw(g)
    BY <1>3, <1>8 DEF Took, x
  <1>9. CASE x # Throw(g) /\ m.kind = "end"
    BY <1>5, <1>9 DEF Took, x
  <1>10. CASE x # Throw(g) /\ m.kind = "ready"
    BY <1>5, <1>6, <1>10 DEF Took, x
  <1>11. CASE x # Throw(g) /\ m.kind \notin {"error", "end", "ready"}
    BY <1>5, <1>7, <1>11 DEF Took, x
  <1> QED BY <1>5, <1>8, <1>9, <1>10, <1>11

LEMMA UptoProperties ==
  ASSUME NEW a \in Nat
  PROVE  /\ Upto(a) \in Seq(Nat) /\ Len(Upto(a)) = a
         /\ Append(Upto(a), a + 1) = Upto(a + 1)
  <1>1. Upto(a) \in Seq(Nat) /\ Len(Upto(a)) = a /\ \A n \in 1 .. a : Upto(a)[n] = n
    <2>1. \A n \in 1 .. a : n \in Nat
      OBVIOUS
    <2> QED BY <2>1, IsASeq DEF Upto
  <1>2. Upto(a + 1) \in Seq(Nat) /\ Len(Upto(a + 1)) = a + 1
        /\ \A n \in 1 .. a + 1 : Upto(a + 1)[n] = n
    <2>1. \A n \in 1 .. a + 1 : n \in Nat
      OBVIOUS
    <2>2. a + 1 \in Nat
      OBVIOUS
    <2> QED BY <2>1, <2>2, IsASeq DEF Upto
  <1> DEFINE t == Upto(a)
             u == Upto(a + 1)
             b == a + 1
  <1>3. b \in Nat /\ b = Len(t) + 1 /\ Len(u) = b
    BY <1>1, <1>2
  <1> HIDE DEF t, u, b
  <1>4. /\ Append(t, b) \in Seq(Nat) /\ Len(Append(t, b)) = Len(t) + 1
        /\ \A n \in 1 .. Len(t) : Append(t, b)[n] = t[n]
        /\ Append(t, b)[Len(t) + 1] = b
    <2>1. t \in Seq(Nat)
      BY <1>1 DEF t
    <2> QED BY <1>3, <2>1, AppendProperties
  <1>5. ASSUME NEW n \in 1 .. a + 1 PROVE Append(t, b)[n] = u[n]
    <2>1. n \in 1 .. a \/ n = a + 1
      OBVIOUS
    <2>2. u[n] = n /\ (n \in 1 .. a => t[n] = n) /\ Len(t) = a
      BY <1>1, <1>2 DEF t, u
    <2> QED BY <1>4, <2>1, <2>2 DEF b
  <1>6. Append(t, b) = u
    <2>1. u \in Seq(Nat)
      BY <1>2 DEF u
    <2>2. \A n \in 1 .. Len(u) : Append(t, b)[n] = u[n]
      BY <1>5, <1>3 DEF b
    <2> QED BY <1>3, <1>4, <2>1, <2>2, SeqEqual
  <1> QED BY <1>1, <1>6 DEF t, u, b

\* How many of the m scans are among the first n lines.
Reached(n, r, m) == IF n <= r THEN 0 ELSE IF n <= r + m THEN n - r ELSE m

\* The messages are lines as they were laid out, none of them torn, and the
\* scans before them were handled.
Sound(out, h, a, r, m) ==
  h = Upto(a) /\ Laid(out, a, r, m) /\ \A n \in 1 .. Len(out) : out[n].kind # "torn"

Handling(g, s0, out, n, a, r, m) ==
  /\ g \in HandleType /\ (g.threw => g.bad) /\ (s0.bad => g.bad)
  /\ \/ g.bad
     \/ /\ \A j \in 1 .. n : out[j].kind # "error"
        /\ Sound(out, s0.done, a, r, m) => g.done = Upto(a + Reached(n, r, m))

LEMMA HandlingStep ==
  ASSUME NEW s0 \in HandleType, NEW out \in Seq(LineType), NEW i \in Board, NEW stopping \in BOOLEAN,
         NEW a \in Nat, NEW r \in Nat, NEW m \in Nat, NEW n \in Nat, n + 1 <= Len(out),
         NEW g, Handling(g, s0, out, n, a, r, m)
  PROVE  /\ Handling(HandleMessage(g, out[n + 1], i, stopping), s0, out, n + 1, a, r, m)
         /\ g.threw => Handling(g, s0, out, n + 1, a, r, m)
  <1> DEFINE line == out[n + 1]
             x == HandleMessage(g, line, i, stopping)
             c == Reached(n, r, m)
  <1>1. line \in LineType /\ n + 1 \in 1 .. Len(out)
    <2>1. n + 1 \in 1 .. Len(out)
      BY LenProperties
    <2> QED BY <2>1, ElementOfSeq
  <1>2. g \in HandleType /\ (g.threw => g.bad) /\ (s0.bad => g.bad)
    BY DEF Handling
  <1>3. Took(x, g, line)
    <2> HIDE DEF line
    <2> QED BY <1>1, <1>2, MessageTaken
  <1> HIDE DEF x
  <1>4. CASE x.bad /\ x.threw
    BY <1>2, <1>3, <1>4 DEF Handling, Took, x
  <1>5. CASE /\ line.kind # "error" /\ x.bad = g.bad /\ x.threw = g.threw
             /\ x.done = IF line.kind \in {"end", "ready"} THEN g.done
                         ELSE Append(g.done, line.number)
    <2>0. x \in HandleType /\ (x.threw => x.bad) /\ (s0.bad => x.bad)
      BY <1>2, <1>3, <1>5 DEF Took
    <2>1. CASE g.bad
      BY <2>0, <2>1, <1>2, <1>5 DEF Handling, x
    <2>2. CASE ~g.bad
      <3>1. \A j \in 1 .. n + 1 : out[j].kind # "error"
        <4>1. \A j \in 1 .. n + 1 : j \in 1 .. n \/ j = n + 1
          OBVIOUS
        <4> QED BY <4>1, <2>2, <1>5 DEF Handling
      <3>2. ASSUME Sound(out, s0.done, a, r, m)
            PROVE  x.done = Upto(a + Reached(n + 1, r, m))
        <4>1. g.done = Upto(a + c)
          BY <2>2, <3>2 DEF Handling
        <4>2. /\ n + 1 <= r => line.kind = "ready"
              /\ r < n + 1 /\ n + 1 <= r + m => line.kind = "scan" /\ line.number = a + ((n + 1) - r)
              /\ r + m < n + 1 => line.kind \notin {"ready", "scan"}
              /\ line.kind # "torn"
          BY <1>1, <3>2 DEF Sound, Laid
        <4>3. CASE n + 1 <= r
          <5>1. c = 0 /\ Reached(n + 1, r, m) = 0
            BY <4>3 DEF Reached
          <5> QED BY <1>5, <4>1, <4>2, <4>3, <5>1
        <4>4. CASE r < n + 1 /\ n + 1 <= r + m
          <5>1. c = n - r /\ Reached(n + 1, r, m) = (n + 1) - r
            BY <4>4 DEF Reached
          <5>2. PICK b \in Nat : b = a + c
            BY <4>4, <5>1
          <5>3. line.number = b + 1 /\ a + Reached(n + 1, r, m) = b + 1
            BY <4>2, <4>4, <5>1, <5>2
          <5>4. x.done = Append(Upto(b), b + 1)
            BY <1>5, <4>1, <4>2, <4>4, <5>2, <5>3
          <5> QED BY <5>3, <5>4, UptoProperties
        <4>5. CASE r + m < n + 1
          <5>1. c = m /\ Reached(n + 1, r, m) = m
            BY <4>5 DEF Reached
          <5>2. line.kind = "end"
            BY <1>1, <1>5, <4>2, <4>5 DEF LineType
          <5> QED BY <1>5, <4>1, <5>1, <5>2
        <4> QED BY <4>3, <4>4, <4>5
      <3> QED BY <2>0, <3>1, <3>2 DEF Handling, x
    <2> QED BY <2>1, <2>2
  <1>6. Handling(x, s0, out, n + 1, a, r, m)
    BY <1>3, <1>4, <1>5 DEF Took, x
  <1>7. g.threw => Handling(g, s0, out, n + 1, a, r, m)
    BY <1>2 DEF Handling
  <1> QED BY <1>6, <1>7 DEF x

LEMMA HandlingHandles ==
  ASSUME NEW s0 \in HandleType, NEW out \in Seq(LineType), NEW i \in Board, NEW stopping \in BOOLEAN,
         NEW a \in Nat, NEW r \in Nat, NEW m \in Nat, ~s0.threw,
         NEW f, IsHandling(f, out, s0, i, stopping)
  PROVE  Handling(f[Len(out)], s0, out, Len(out), a, r, m)
  <1> DEFINE S == {n \in 0 .. Len(out) : ~Handling(f[n], s0, out, n, a, r, m)}
  <1>0. Len(out) \in Nat
    BY LenProperties
  <1>1. /\ f[0] = s0
        /\ \A n \in 0 .. Len(out) : n # 0 =>
             f[n] = IF f[n - 1].threw /\ ~stopping THEN f[n - 1]
                    ELSE HandleMessage(f[n - 1], out[n], i, stopping)
    BY <1>0 DEF IsHandling
  <1> SUFFICES ASSUME S # {} PROVE FALSE
    BY <1>0
  <1>2. PICK l \in S : \A n \in S : l <= n
    <2> S \subseteq Nat
      BY <1>0
    <2> HIDE DEF S
    <2> QED BY LeastElement
  <1>3. CASE l = 0
    <2>1. Reached(0, r, m) = 0 /\ a + 0 = a
      BY DEF Reached
    <2>2. Sound(out, s0.done, a, r, m) => s0.done = Upto(a + Reached(0, r, m))
      BY <2>1 DEF Sound
    <2>3. Handling(s0, s0, out, 0, a, r, m)
      BY <2>2 DEF Handling
    <2> QED BY <1>1, <1>2, <1>3, <2>3
  <1>4. CASE l # 0
    <2>1. l \in 1 .. Len(out) /\ l - 1 \in 0 .. Len(out) /\ ~(l <= l - 1)
      BY <1>0, <1>2, <1>4
    <2>2. PICK j \in Nat : j = l - 1 /\ j + 1 = l /\ j \in 0 .. Len(out)
      BY <2>1
    <2>3. Handling(f[j], s0, out, j, a, r, m) /\ j + 1 <= Len(out)
      BY <1>0, <1>2, <2>1, <2>2
    <2>4. /\ Handling(HandleMessage(f[j], out[j + 1], i, stopping), s0, out, j + 1, a, r, m)
          /\ f[j].threw => Handling(f[j], s0, out, j + 1, a, r, m)
      BY <2>2, <2>3, HandlingStep
    <2>5. (f[l] = f[j] /\ f[j].threw) \/ f[l] = HandleMessage(f[j], out[j + 1], i, stopping)
      BY <1>1, <1>4, <2>1, <2>2
    <2> QED BY <1>2, <2>2, <2>4, <2>5
  <1> QED BY <1>3, <1>4

\* handle over all messages of a read, h the scans handled before it.
Result(g, out, h, a, r, m) ==
  /\ g \in HandleType
  /\ \/ g.bad
     \/ /\ ~eng.bad /\ ~HasError(out)
        /\ Sound(out, h, a, r, m) => g.done = Upto(a + Reached(Len(out), r, m))
LEMMA HandleHandles ==
  ASSUME TypeOK, NEW i \in Board, NEW out \in Seq(LineType), NEW stopping \in BOOLEAN,
         NEW fails \in BOOLEAN, NEW a \in Nat, NEW r \in Nat, NEW m \in Nat
  PROVE  Result(Handle(i, out, stopping, fails), out, handled[i], a, r, m)
  <1> DEFINE s0 == [ready |-> eng.ready, bad |-> eng.bad, threw |-> FALSE, storeFails |-> fails,
                    done |-> handled[i]]
             f == CHOOSE s : s = [n \in 0 .. Len(out) |->
                    IF n = 0 THEN s0
                    ELSE IF s[n - 1].threw /\ ~stopping THEN s[n - 1]
                    ELSE HandleMessage(s[n - 1], out[n], i, stopping)]
  <1>1. Handle(i, out, stopping, fails) = f[Len(out)]
    BY DEF Handle
  <1>2. f = CHOOSE s : IsHandling(s, out, s0, i, stopping)
    BY DEF IsHandling
  <1>3. s0 \in HandleType /\ s0.threw = FALSE /\ s0.bad = eng.bad /\ s0.done = handled[i]
    <2>1. eng.ready \in SUBSET Board /\ eng.bad \in BOOLEAN /\ handled[i] \in Seq(Nat)
      BY DEF TypeOK, EngType
    <2> QED BY <2>1 DEF HandleType
  <1> HIDE DEF f, s0
  <1>4. \E s : IsHandling(s, out, s0, i, stopping)
    BY HandlingExists
  <1>5. IsHandling(f, out, s0, i, stopping)
    BY <1>2, <1>4
  <1>6. Handling(f[Len(out)], s0, out, Len(out), a, r, m)
    BY <1>3, <1>5, HandlingHandles
  <1>7. Handling(f[Len(out)], s0, out, Len(out), a, r, m) =>
          Result(f[Len(out)], out, handled[i], a, r, m)
    BY <1>3 DEF Handling, Result, HasError
  <1> QED BY <1>1, <1>6, <1>7

\* The lines that are left once k have been read.
Rest(s, k) == SubSeq(s, k + 1, Len(s))
LEMMA RestProperties ==
  ASSUME NEW s \in Seq(LineType), NEW k \in 0 .. Len(s)
  PROVE  /\ Rest(s, k) \in Seq(LineType) /\ Len(Rest(s, k)) = Len(s) - k
         /\ \A n \in 1 .. Len(s) - k : Rest(s, k)[n] = s[n + k]
  <1>1. Len(s) \in Nat /\ k \in Nat /\ k <= Len(s)
    BY LenProperties
  <1>2. \A n \in k + 1 .. Len(s) : s[n] \in LineType
    <2>1. \A n \in k + 1 .. Len(s) : n \in 1 .. Len(s)
      BY <1>1
    <2> QED BY <2>1, ElementOfSeq
  <1> DEFINE b == k + 1
             e == Len(s)
  <1>3. b \in Int /\ e \in Int /\ \A n \in b .. e : s[n] \in LineType
    BY <1>1, <1>2
  <1>4. /\ SubSeq(s, b, e) \in Seq(LineType)
        /\ Len(SubSeq(s, b, e)) = IF b <= e THEN e - b + 1 ELSE 0
        /\ \A n \in 1 .. e - b + 1 : SubSeq(s, b, e)[n] = s[b + n - 1]
    <2> HIDE DEF b, e
    <2> QED BY <1>3, SubSeqProperties
  <1>5. (IF b <= e THEN e - b + 1 ELSE 0) = e - k /\ e - b + 1 = e - k
    BY <1>1
  <1>6. \A n \in 1 .. e - k : b + n - 1 = n + k
    BY <1>1
  <1> QED BY <1>4, <1>5, <1>6 DEF Rest

LEMMA RestLaid ==
  ASSUME NEW s \in Seq(LineType), NEW k \in 0 .. Len(s), NEW a \in Nat, NEW r \in Nat, NEW m \in Nat,
         r + m <= Len(s), Laid(s, a, r, m)
  PROVE  LET c == Reached(k, r, m)
             q == IF k <= r THEN r - k ELSE 0
         IN  /\ c \in Nat /\ q \in Nat /\ m - c \in Nat /\ q + (m - c) <= Len(Rest(s, k))
             /\ Len(s) = r + m => Len(Rest(s, k)) = q + (m - c)
             /\ Laid(Rest(s, k), a + c, q, m - c)
  <1> DEFINE c == Reached(k, r, m)
             q == IF k <= r THEN r - k ELSE 0
             t == Rest(s, k)
             d == m - c
  <1>1. Len(s) \in Nat /\ k \in Nat /\ k <= Len(s)
    BY LenProperties
  <1>2. Len(t) = Len(s) - k /\ \A n \in 1 .. Len(s) - k : t[n] = s[n + k]
    BY RestProperties
  <1> HIDE DEF t
  <1>3. c \in Nat /\ q \in Nat /\ d \in Nat /\ q + d <= Len(t) /\ (Len(s) = r + m => Len(t) = q + d)
    <2>1. PICK e \in Nat : e = Len(s) /\ Len(t) = e - k /\ r + m <= e /\ k <= e
      BY <1>1, <1>2
    <2>2. CASE k <= r
      <3>1. c = 0 /\ q = r - k /\ d = m
        BY <1>1, <2>2 DEF Reached
      <3> HIDE DEF c, q, d
      <3> QED BY <1>1, <2>1, <2>2, <3>1
    <2>3. CASE ~(k <= r) /\ k <= r + m
      <3>1. c = k - r /\ q = 0 /\ d = m - (k - r)
        BY <1>1, <2>3 DEF Reached
      <3> HIDE DEF c, q, d
      <3> QED BY <1>1, <2>1, <2>3, <3>1
    <2>4. CASE ~(k <= r) /\ ~(k <= r + m)
      <3>1. c = m /\ q = 0 /\ d = 0
        BY <1>1, <2>4 DEF Reached
      <3> HIDE DEF c, q, d
      <3> QED BY <1>1, <2>1, <2>4, <3>1
    <2> QED BY <2>2, <2>3, <2>4
  <1>4. ASSUME NEW n \in 1 .. Len(t)
        PROVE  /\ n <= q => t[n].kind = "ready"
               /\ q < n /\ n <= q + d => t[n].kind = "scan" /\ t[n].number = (a + c) + (n - q)
               /\ q + d < n => t[n].kind \notin {"ready", "scan"}
    <2>1. n + k \in 1 .. Len(s) /\ t[n] = s[n + k] /\ n \in Nat
      BY <1>1, <1>2
    <2>2. /\ n + k <= r => t[n].kind = "ready"
          /\ r < n + k /\ n + k <= r + m => t[n].kind = "scan" /\ t[n].number = a + ((n + k) - r)
          /\ r + m < n + k => t[n].kind \notin {"ready", "scan"}
      BY <2>1 DEF Laid
    <2>3. n <= q => n + k <= r
      BY <1>1, <2>1
    <2>4. q < n /\ n <= q + d =>
            r < n + k /\ n + k <= r + m /\ a + ((n + k) - r) = (a + c) + (n - q)
      BY <1>1, <2>1 DEF Reached
    <2>5. q + d < n => r + m < n + k
      BY <1>1, <2>1 DEF Reached
    <2> QED BY <2>2, <2>3, <2>4, <2>5
  <1>5. Laid(t, a + c, q, d)
    BY <1>4 DEF Laid
  <1> QED BY <1>3, <1>5 DEF t

\* A read and its handling keep the account of a board, unless they report.
LEMMA BoardRead ==
  ASSUME TypeOK, NEW i \in Board, NEW k \in Readable(i), NEW stopping \in BOOLEAN,
         NEW fails \in BOOLEAN, Steady(child[i], pipe[i], proc[i]),
         ~eng.bad => Running(child[i], pipe[i], proc[i], handled[i]),
         NEW p, p = Poll(i, k), NEW g, g = Handle(i, p.out, stopping, fails)
  PROVE  /\ p \in ReadType /\ g \in HandleType /\ Rest(pipe[i], k) \in Seq(LineType)
         /\ ~g.bad => ~eng.bad /\ Running(child[i], Rest(pipe[i], k), p.p, g.done)
         /\ Steady(child[i], Rest(pipe[i], k), p.p)
  <1> DEFINE s == pipe[i]
             c == child[i]
             h == handled[i]
             t == Rest(s, k)
  <1>1. Polled(p, proc[i], s, k, Exited(i))
    BY PollPolls
  <1>2. p \in ReadType /\ p.out \in Seq(LineType) /\ p.p \in ProcType
    BY <1>1 DEF Polled, ReadType
  <1>3. s \in Seq(LineType) /\ k \in 0 .. Len(s) /\ Len(s) \in Nat /\ k \in Nat
        /\ c \in ChildType /\ h \in Seq(Nat)
    BY ReadableLines, LenProperties DEF TypeOK
  <1>4. t \in Seq(LineType) /\ Len(t) = Len(s) - k
    <2> HIDE DEF s
    <2> QED BY <1>3, RestProperties
  <1>5. \A a, r, m \in Nat : Result(g, p.out, h, a, r, m)
    BY <1>2, HandleHandles
  <1>6. g \in HandleType
    BY <1>5 DEF Result
  <1>7. Steady(c, t, p.p)
    <2>1. p.p.eof => Len(s) = 0 /\ c.phase = "exited"
      BY <1>1 DEF Polled, Steady, Exited
    <2>2. Len(s) = 0 => Len(t) = 0
      <3> HIDE DEF s, t
      <3>1. Len(s) = 0 => k = 0
        BY <1>3
      <3> QED BY <1>4, <3>1
    <2> QED BY <2>1, <2>2 DEF Steady
  <1>8. ASSUME ~g.bad PROVE ~eng.bad /\ Running(c, t, p.p, g.done)
    <2>1. ~eng.bad /\ ~HasError(p.out)
      BY <1>5, <1>8 DEF Result
    <2>2. ~proc[i].failed /\ (Account(c, s, h) \/ Lost(c))
      BY <2>1 DEF Running
    <2>3. Outcome(p, s, k)
      BY <1>1, <2>2 DEF Polled
    <2>4. /\ ~p.p.failed
          /\ Begins(p.out, s, k) \/ (k > 0 /\ s[k].kind = "torn" /\ Begins(p.out, s, k - 1))
      BY <2>1, <2>3 DEF Outcome
    <2>5. ASSUME Account(c, s, h) PROVE Account(c, t, g.done)
      <3>1. PICK a \in 0 .. Len(h), r \in 0 .. Len(s), m \in 0 .. Len(s) : Placed(c, s, h, a, r, m)
        BY <2>5 DEF Account
      <3>2. a \in Nat /\ r \in Nat /\ m \in Nat
        BY <1>3, LenProperties
      <3>3. /\ h = Upto(a) /\ a + m = c.scans /\ r + m <= Len(s) /\ Laid(s, a, r, m)
            /\ c.phase = "loop" => Len(s) = r + m
            /\ c.phase = "init" => Len(s) = 0 /\ c.scans = 0
        BY <3>1 DEF Placed
      <3> DEFINE n == Len(p.out)
                 d == Reached(k, r, m)
                 q == IF k <= r THEN r - k ELSE 0
      <3>4. n \in Nat /\ n <= Len(s) /\ \A j \in 1 .. n : p.out[j] = s[j] /\ s[j].kind # "torn"
        BY <1>3, <2>4 DEF Begins
      <3>5. Sound(p.out, h, a, r, m)
        <4>1. \A j \in 1 .. n : j \in 1 .. Len(s)
          BY <1>3, <3>4
        <4>2. Laid(p.out, a, r, m)
          BY <3>3, <3>4, <4>1 DEF Laid
        <4>3. \A j \in 1 .. n : p.out[j].kind # "torn"
          BY <3>4
        <4> QED BY <3>3, <4>2, <4>3 DEF Sound
      <3>6. g.done = Upto(a + Reached(n, r, m))
        BY <1>5, <1>8, <3>2, <3>5 DEF Result
      <3>7. Reached(n, r, m) = d
        <4>1. CASE Begins(p.out, s, k)
          BY <4>1 DEF Begins
        <4>2. CASE k > 0 /\ s[k].kind = "torn" /\ Begins(p.out, s, k - 1)
          <5>1. k \in 1 .. Len(s) /\ n = k - 1
            BY <1>3, <4>2 DEF Begins
          <5>2. r + m < k
            <6>1. (k <= r => s[k].kind = "ready") /\ (r < k /\ k <= r + m => s[k].kind = "scan")
              BY <3>3, <5>1 DEF Laid
            <6>2. ~(k <= r) /\ ~(r < k /\ k <= r + m)
              BY <4>2, <6>1
            <6> QED BY <1>3, <3>2, <6>2
          <5> HIDE DEF n
          <5> QED BY <1>3, <3>2, <5>1, <5>2 DEF Reached
        <4> QED BY <2>4, <4>1, <4>2
      <3>8. /\ d \in Nat /\ q \in Nat /\ m - d \in Nat /\ q + (m - d) <= Len(t)
            /\ Len(s) = r + m => Len(t) = q + (m - d)
            /\ Laid(t, a + d, q, m - d)
        <4> HIDE DEF s
        <4> QED BY <1>3, <3>2, <3>3, RestLaid DEF t
      <3> HIDE DEF n, d, q, t
      <3>9. PICK b \in Nat, e \in Nat : b = a + d /\ e = m - d
        BY <3>2, <3>8
      <3>10. b + e = a + m
        BY <3>2, <3>8, <3>9
      <3>11. g.done = Upto(b) /\ Len(g.done) = b
        BY <3>6, <3>7, <3>9, UptoProperties
      <3>12. Placed(c, t, g.done, b, q, e)
        <4>1. Len(s) = 0 => Len(t) = 0
          BY <1>3, <1>4
        <4> QED BY <3>3, <3>8, <3>9, <3>10, <3>11, <4>1 DEF Placed
      <3>13. b \in 0 .. Len(g.done) /\ q \in 0 .. Len(t) /\ e \in 0 .. Len(t)
        <4>1. Len(t) \in Nat /\ q + e <= Len(t)
          BY <1>4, <3>8, <3>9, LenProperties
        <4> QED BY <3>8, <3>9, <3>11, <4>1
      <3> QED BY <3>12, <3>13 DEF Account
    <2> QED BY <2>1, <2>2, <2>4, <2>5 DEF Running
  <1> QED BY <1>2, <1>4, <1>6, <1>7, <1>8

-----------------------------------------------------------------------------
(* The worker's actions.                                                   *)

LEMMA InitHolds == Init => RakInv
  <1> SUFFICES ASSUME Init PROVE RakInv
    OBVIOUS
  <1>1. NoChild \in ChildType /\ FreshProc \in ProcType /\ NoChild.phase = "none" /\ ~FreshProc.eof
    BY DEF NoChild, FreshProc, ChildType, ProcType
  <1>2. <<>> \in Seq(LineType) /\ <<>> \in Seq(Nat) /\ Len(<<>>) = 0
    BY EmptySeq
  <1>3. eng \in EngType /\ eng.phase = "start" /\ eng.board = 1 /\ eng.started = 0 /\ Boards >= 1
    BY RakAssumption DEF Init, EngType
  <1>4. TypeOK
    BY <1>1, <1>2, <1>3 DEF Init, TypeOK
  <1>5. Order
    BY <1>3 DEF Order, Stopping
  <1>6. ASSUME NEW i \in Board PROVE BoardInv(i)
    <2>1. child[i] = NoChild /\ pipe[i] = <<>> /\ proc[i] = FreshProc /\ handled[i] = <<>>
      BY DEF Init
    <2>2. i > eng.started
      BY <1>3, RakAssumption DEF Board
    <2>3. ~(i <= eng.started)
      BY <1>3, <2>2, RakAssumption DEF Board
    <2> QED BY <1>1, <1>2, <2>1, <2>2, <2>3 DEF BoardInv, Fresh, Steady
  <1> QED BY <1>4, <1>5, <1>6 DEF RakInv

\* A worker's step: c the worker after it, t its pipe.
LEMMA WorkerKeeps ==
  ASSUME RakInv, NEW i \in Board, NEW c \in ChildType, NEW t \in Seq(LineType),
         child' = [child EXCEPT ![i] = c], pipe' = [pipe EXCEPT ![i] = t],
         UNCHANGED <<proc, eng, handled>>, child[i].phase \notin {"none", "exited"},
         c.phase \in {"init", "loop"} => c.status # 0,
         Account(child[i], pipe[i], handled[i]) => Account(c, t, handled[i]) \/ Lost(c),
         Lost(child[i]) => Lost(c)
  PROVE  RakInv'
  <1>1. TypeOK /\ Order /\ \A j \in Board : BoardInv(j)
    BY DEF RakInv
  <1>2. TypeOK'
    BY <1>1 DEF TypeOK
  <1>3. Order'
    BY <1>1 DEF Order
  <1>4. ASSUME NEW j \in Board PROVE BoardInv(j)'
    <2>0. BoardInv(j) /\ (Settled(j)' <=> Settled(j))
      BY <1>1 DEF Settled
    <2>1. CASE j # i
      <3>1. child'[j] = child[j] /\ pipe'[j] = pipe[j]
        BY <1>1, <2>1 DEF TypeOK
      <3> QED BY <2>0, <3>1 DEF BoardInv
    <2>2. CASE j = i
      <3>1. child'[j] = c /\ pipe'[j] = t
        BY <1>1, <2>2 DEF TypeOK
      <3>2. ~proc[j].eof
        BY <2>0, <2>2 DEF BoardInv, Steady
      <3>3. Steady(c, t, proc[j])
        BY <3>2 DEF Steady
      <3>4. j <= eng.started /\ ~(j > eng.started)
        <4>1. ~(j > eng.started)
          BY <2>0, <2>2 DEF BoardInv, Fresh, NoChild
        <4>2. j \in Int /\ eng.started \in Int
          BY <1>1, RakAssumption DEF TypeOK, EngType, Board
        <4> QED BY <4>1, <4>2
      <3>5. ASSUME ~eng.bad PROVE ~Settled(j) /\ Running(c, t, proc[j], handled[j])
        <4>1. ~Settled(j)
          BY <2>0, <2>2, <3>4, <3>5 DEF BoardInv, Complete
        <4>2. Running(child[i], pipe[i], proc[i], handled[i])
          BY <2>0, <2>2, <3>4, <3>5, <4>1 DEF BoardInv
        <4> QED BY <2>2, <4>1, <4>2 DEF Running
      <3> QED BY <2>0, <3>1, <3>3, <3>4, <3>5 DEF BoardInv
    <2> QED BY <2>1, <2>2
  <1> QED BY <1>2, <1>3, <1>4 DEF RakInv

\* A line of the end leaves the account of the scans as it is.
LEMMA TailLine ==
  ASSUME NEW c \in ChildType, NEW e \in ChildType, NEW s \in Seq(LineType), NEW h \in Seq(Nat),
         NEW line \in LineType, line.kind \notin {"ready", "scan"},
         e.scans = c.scans, e.phase \notin {"init", "loop"}, Account(c, s, h)
  PROVE  Account(e, s, h) /\ Account(e, Append(s, line), h)
  <1>1. PICK a \in 0 .. Len(h), r \in 0 .. Len(s), m \in 0 .. Len(s) : Placed(c, s, h, a, r, m)
    BY DEF Account
  <1>2. Len(s) \in Nat /\ Len(h) \in Nat
    BY LenProperties
  <1>3. h = Upto(a) /\ a + m = c.scans /\ r + m <= Len(s) /\ Laid(s, a, r, m)
    BY <1>1 DEF Placed
  <1> DEFINE t == Append(s, line)
  <1>4. /\ t \in Seq(LineType) /\ Len(t) = Len(s) + 1
        /\ \A n \in 1 .. Len(s) : t[n] = s[n]
        /\ t[Len(s) + 1] = line
    BY AppendProperties
  <1> HIDE DEF t
  <1>5. Laid(t, a, r, m)
    <2>1. ASSUME NEW n \in 1 .. Len(t)
          PROVE  /\ n <= r => t[n].kind = "ready"
                 /\ r < n /\ n <= r + m => t[n].kind = "scan" /\ t[n].number = a + (n - r)
                 /\ r + m < n => t[n].kind \notin {"ready", "scan"}
      <3>1. n \in 1 .. Len(s) \/ n = Len(s) + 1
        BY <1>2, <1>4
      <3>2. CASE n \in 1 .. Len(s)
        BY <1>3, <1>4, <3>2 DEF Laid
      <3>3. CASE n = Len(s) + 1
        <4>1. ~(n <= r) /\ ~(n <= r + m) /\ t[n] = line
          BY <1>2, <1>3, <1>4, <3>3
        <4> QED BY <4>1
      <3> QED BY <3>1, <3>2, <3>3
    <2> QED BY <2>1 DEF Laid
  <1>6. Placed(e, s, h, a, r, m)
    BY <1>3 DEF Placed
  <1>7. Placed(e, t, h, a, r, m)
    <2>1. r + m <= Len(t)
      BY <1>2, <1>3, <1>4
    <2> QED BY <1>3, <1>5, <2>1 DEF Placed
  <1>8. r \in 0 .. Len(t) /\ m \in 0 .. Len(t)
    BY <1>2, <1>4
  <1> QED BY <1>6, <1>7, <1>8 DEF Account, t

LEMMA SweepType == \A i \in Board : SweepBegin(i) \in Int /\ SweepEnd(i) \in Int
  BY RakAssumption DEF Board, SweepBegin, SweepEnd

LEMMA LineTypes ==
  /\ \A kind \in {"ready", "torn", "error", "end"} :
       Line(kind) \in LineType /\ Line(kind).kind = kind
  /\ \A point \in Int, number \in Nat :
       /\ Scan(point, number) \in LineType /\ Scan(point, number).kind = "scan"
       /\ Scan(point, number).number = number
  BY DEF Line, Scan, LineType

LEMMA BoardTypes ==
  ASSUME TypeOK, NEW i \in Board
  PROVE  child[i] \in ChildType /\ pipe[i] \in Seq(LineType) /\ handled[i] \in Seq(Nat)
         /\ proc[i] \in ProcType
  BY DEF TypeOK

\* What a worker may have written.
LEMMA PipeAfter ==
  ASSUME TypeOK, NEW i \in Board, NEW line \in LineType,
         Sent(i, line) \/ NotSent(i) \/ UNCHANGED pipe
  PROVE  \E t \in {pipe[i], Append(pipe[i], line), Append(pipe[i], Line("torn"))} :
            pipe' = [pipe EXCEPT ![i] = t]
  <1>1. pipe = [pipe EXCEPT ![i] = pipe[i]]
    BY DEF TypeOK
  <1> QED BY <1>1 DEF Sent, NotSent

\* A worker on its way out.
LEMMA WorkerLeaves ==
  ASSUME RakInv, NEW i \in Board, NEW c \in ChildType, NEW kind \in {"error", "end"},
         Sent(i, Line(kind)) \/ NotSent(i) \/ UNCHANGED pipe,
         child' = [child EXCEPT ![i] = c], UNCHANGED <<proc, eng, handled>>,
         child[i].phase \notin {"none", "exited"}, c.phase \notin {"init", "loop"},
         c.scans = child[i].scans, Lost(child[i]) => Lost(c)
  PROVE  RakInv'
  <1>0. TypeOK
    BY DEF RakInv
  <1>1. Line(kind) \in LineType /\ Line(kind).kind = kind
        /\ Line("torn") \in LineType /\ Line("torn").kind = "torn"
    BY LineTypes
  <1> DEFINE s == pipe[i]
             h == handled[i]
             w == child[i]
             line == Line(kind)
             torn == Line("torn")
  <1>2. w \in ChildType /\ s \in Seq(LineType) /\ h \in Seq(Nat)
    BY <1>0, BoardTypes
  <1>3. PICK t \in {s, Append(s, line), Append(s, torn)} : pipe' = [pipe EXCEPT ![i] = t]
    BY <1>0, <1>1, PipeAfter
  <1> HIDE DEF line, torn
  <1>4. t \in Seq(LineType)
    <2>1. line \in LineType /\ torn \in LineType
      BY <1>1 DEF line, torn
    <2>2. Append(s, line) \in Seq(LineType) /\ Append(s, torn) \in Seq(LineType)
      BY <1>2, <2>1, AppendProperties
    <2> QED BY <1>2, <1>3, <2>2
  <1>5. Account(w, s, h) => Account(c, t, h)
    <2> SUFFICES ASSUME Account(w, s, h) PROVE Account(c, t, h)
      OBVIOUS
    <2> HIDE DEF w, s, h
    <2>1. c.scans = w.scans
      BY DEF w
    <2>2. Account(c, s, h) /\ Account(c, Append(s, line), h)
      <3>1. line \in LineType /\ line.kind \notin {"ready", "scan"}
        BY <1>1 DEF line
      <3> QED BY <1>2, <2>1, <3>1, TailLine
    <2>3. Account(c, Append(s, torn), h)
      <3>1. torn \in LineType /\ torn.kind \notin {"ready", "scan"}
        BY <1>1 DEF torn
      <3> QED BY <1>2, <2>1, <3>1, TailLine
    <2> QED BY <1>3, <2>2, <2>3
  <1> QED BY <1>3, <1>4, <1>5, WorkerKeeps

LEMMA WorkerReadyStep ==
  ASSUME RakInv, NEW i \in Board, WorkerReady(i) PROVE RakInv'
  <1>0. TypeOK
    BY DEF RakInv
  <1> DEFINE s == pipe[i]
             h == handled[i]
             w == child[i]
             line == Line("ready")
             c == [w EXCEPT !.phase = "loop"]
             d == [w EXCEPT !.phase = "finish", !.error = TRUE]
             t == Append(s, line)
  <1>1. w \in ChildType /\ s \in Seq(LineType) /\ h \in Seq(Nat)
    BY <1>0, BoardTypes
  <1>2. w.phase = "init" /\ UNCHANGED <<proc, eng, handled>>
    BY DEF WorkerReady
  <1>3. /\ c \in ChildType /\ c.phase = "loop" /\ c.scans = w.scans /\ c.status = w.status
        /\ d \in ChildType /\ d.phase = "finish" /\ d.scans = w.scans
    BY <1>1 DEF ChildType
  <1>4. w.status # 0
    BY <1>2 DEF RakInv, BoardInv, Steady
  <1>5. ~Lost(w)
    BY <1>2 DEF Lost
  <1>6. \/ pipe' = [pipe EXCEPT ![i] = t] /\ child' = [child EXCEPT ![i] = c]
        \/ UNCHANGED pipe /\ child' = [child EXCEPT ![i] = d]
    BY DEF WorkerReady, Sent, Child
  <1>7. line \in LineType /\ line.kind = "ready"
    BY LineTypes
  <1>8. CASE pipe' = [pipe EXCEPT ![i] = t] /\ child' = [child EXCEPT ![i] = c]
    <2> HIDE DEF line, c
    <2>1. t \in Seq(LineType) /\ Len(t) = Len(s) + 1 /\ t[Len(s) + 1] = line
      BY <1>1, <1>7, AppendProperties
    <2>2. ASSUME Account(w, s, h) PROVE Account(c, t, h)
      <3>1. PICK a \in 0 .. Len(h), r \in 0 .. Len(s), m \in 0 .. Len(s) : Placed(w, s, h, a, r, m)
        BY <2>2 DEF Account
      <3>2. h = Upto(a) /\ a + m = w.scans /\ Len(s) = 0 /\ w.scans = 0
        BY <1>2, <3>1 DEF Placed
      <3>3. a = 0 /\ m = 0 /\ Len(h) \in Nat
        BY <1>1, <3>2, LenProperties
      <3>4. Len(t) = 1 /\ t[1] = line
        BY <2>1, <3>2
      <3> HIDE DEF t, s, w, h
      <3>5. Laid(t, 0, 1, 0)
        BY <1>7, <3>4 DEF Laid
      <3>6. Placed(c, t, h, 0, 1, 0)
        BY <1>3, <3>2, <3>3, <3>4, <3>5 DEF Placed
      <3>7. 0 \in 0 .. Len(h) /\ 1 \in 0 .. Len(t) /\ 0 \in 0 .. Len(t)
        BY <3>3, <3>4
      <3> QED BY <3>6, <3>7 DEF Account
    <2> QED BY <1>2, <1>3, <1>4, <1>5, <1>8, <2>1, <2>2, WorkerKeeps
  <1>9. CASE UNCHANGED pipe /\ child' = [child EXCEPT ![i] = d]
    <2> HIDE DEF d
    <2> QED BY <1>2, <1>3, <1>5, <1>9, WorkerLeaves
  <1> QED BY <1>6, <1>8, <1>9

LEMMA WorkerScanStep ==
  ASSUME RakInv, NEW i \in Board, WorkerScan(i) PROVE RakInv'
  <1>0. TypeOK
    BY DEF RakInv
  <1> DEFINE s == pipe[i]
             h == handled[i]
             w == child[i]
             v == [w EXCEPT !.scans = w.scans + 1]
             line == Scan(v.at, v.scans)
             c == [v EXCEPT !.at = NextCenter(i, v.at)]
             d == [v EXCEPT !.phase = "finish"]
             t == Append(s, line)
  <1>1. w \in ChildType /\ s \in Seq(LineType) /\ h \in Seq(Nat)
    BY <1>0, BoardTypes
  <1>2. w.phase = "loop" /\ UNCHANGED <<proc, eng, handled>>
    BY DEF WorkerScan
  <1>3. v \in ChildType /\ v.scans = w.scans + 1 /\ v.phase = "loop" /\ v.status = w.status
        /\ w.scans \in Nat
    BY <1>1, <1>2 DEF ChildType
  <1>4. \/ pipe' = [pipe EXCEPT ![i] = t] /\ child' = [child EXCEPT ![i] = c]
        \/ NotSent(i) /\ child' = [child EXCEPT ![i] = d]
    BY DEF WorkerScan, Sent, Child
  <1> HIDE DEF v
  <1>5. NextCenter(i, v.at) \in Int
    BY <1>3, SweepType DEF NextCenter, ChildType
  <1>6. c \in ChildType /\ c.phase = "loop" /\ c.scans = w.scans + 1 /\ c.status = w.status
    <2> DEFINE x == NextCenter(i, v.at)
    <2> HIDE DEF x
    <2> SUFFICES [v EXCEPT !.at = x] \in ChildType /\ [v EXCEPT !.at = x].phase = "loop"
                 /\ [v EXCEPT !.at = x].scans = w.scans + 1 /\ [v EXCEPT !.at = x].status = w.status
      BY DEF x
    <2>1. x \in Int
      BY <1>5 DEF x
    <2> QED BY <1>3, <2>1 DEF ChildType
  <1>7. d \in ChildType /\ d.phase = "finish" /\ d.status = w.status
    BY <1>3 DEF ChildType
  <1>8. w.status # 0 /\ ~Lost(w)
    BY <1>2 DEF RakInv, BoardInv, Steady, Lost
  <1>9. line \in LineType /\ line.kind = "scan" /\ line.number = w.scans + 1
    BY <1>3, LineTypes DEF ChildType
  <1> HIDE DEF line, c, d
  <1>10. CASE pipe' = [pipe EXCEPT ![i] = t] /\ child' = [child EXCEPT ![i] = c]
    <2>1. /\ t \in Seq(LineType) /\ Len(t) = Len(s) + 1 /\ t[Len(s) + 1] = line
          /\ \A n \in 1 .. Len(s) : t[n] = s[n]
      BY <1>1, <1>9, AppendProperties
    <2>2. ASSUME Account(w, s, h) PROVE Account(c, t, h)
      <3>1. PICK a \in 0 .. Len(h), r \in 0 .. Len(s), m \in 0 .. Len(s) : Placed(w, s, h, a, r, m)
        BY <2>2 DEF Account
      <3>2. h = Upto(a) /\ a + m = w.scans /\ Len(s) = r + m /\ Laid(s, a, r, m)
        BY <1>2, <3>1 DEF Placed
      <3>3. Len(h) \in Nat /\ Len(s) \in Nat
        BY <1>1, LenProperties
      <3> HIDE DEF t, s, w, h
      <3>4. PICK b \in Nat : b = m + 1 /\ Len(t) = r + b /\ a + b = w.scans + 1
        BY <1>3, <2>1, <3>2, <3>3
      <3>5. ASSUME NEW n \in 1 .. Len(t)
            PROVE  /\ n <= r => t[n].kind = "ready"
                   /\ r < n /\ n <= r + b => t[n].kind = "scan" /\ t[n].number = a + (n - r)
                   /\ r + b < n => t[n].kind \notin {"ready", "scan"}
        <4>1. n \in 1 .. Len(s) \/ n = Len(s) + 1
          BY <2>1, <3>3
        <4>2. CASE n \in 1 .. Len(s)
          <5>1. t[n] = s[n] /\ n <= r + m
            BY <2>1, <3>2, <3>3, <4>2
          <5>2. /\ n <= r => s[n].kind = "ready"
                /\ r < n /\ n <= r + m => s[n].kind = "scan" /\ s[n].number = a + (n - r)
            BY <3>2, <4>2 DEF Laid
          <5>3. ~(r + b < n)
            BY <3>3, <3>4, <5>1
          <5> QED BY <5>1, <5>2, <5>3
        <4>3. CASE n = Len(s) + 1
          <5>1. t[n] = line /\ ~(n <= r) /\ ~(r + b < n) /\ a + (n - r) = w.scans + 1
            BY <2>1, <3>2, <3>3, <3>4, <4>3
          <5> QED BY <1>9, <5>1
        <4> QED BY <4>1, <4>2, <4>3
      <3>6. Laid(t, a, r, b)
        BY <3>5 DEF Laid
      <3>7. Placed(c, t, h, a, r, b)
        BY <1>6, <3>2, <3>4, <3>6 DEF Placed
      <3>8. r \in 0 .. Len(t) /\ b \in 0 .. Len(t)
        BY <3>3, <3>4
      <3> QED BY <3>7, <3>8 DEF Account
    <2> QED BY <1>2, <1>6, <1>8, <1>10, <2>1, <2>2, WorkerKeeps
  <1>11. CASE NotSent(i) /\ child' = [child EXCEPT ![i] = d]
    <2>1. Line("torn") \in LineType
      BY LineTypes
    <2>2. PICK x \in {s, Append(s, line), Append(s, Line("torn"))} : pipe' = [pipe EXCEPT ![i] = x]
      BY <1>0, <1>9, <1>11, PipeAfter
    <2>3. x \in Seq(LineType)
      <3> DEFINE torn == Line("torn")
      <3>1. torn \in LineType
        BY <2>1
      <3> HIDE DEF torn
      <3>2. Append(s, torn) \in Seq(LineType) /\ Append(s, line) \in Seq(LineType)
        BY <1>1, <1>9, <3>1, AppendProperties
      <3> QED BY <1>1, <2>2, <3>2 DEF torn
    <2>4. Lost(d)
      BY <1>7, <1>8 DEF Lost
    <2> QED BY <1>2, <1>7, <1>8, <1>11, <2>2, <2>3, <2>4, WorkerKeeps
  <1> QED BY <1>4, <1>10, <1>11

LEMMA WorkerOtherSteps ==
  ASSUME RakInv, NEW i \in Board,
         WorkerFails(i) \/ WorkerStops(i) \/ WorkerCloses(i) \/ WorkerExits(i) \/ WorkerDies(i)
  PROVE  RakInv'
  <1>0. TypeOK
    BY DEF RakInv
  <1> DEFINE w == child[i]
  <1>1. w \in ChildType /\ pipe[i] \in Seq(LineType)
    BY <1>0, BoardTypes
  <1>a. "error" \in {"error", "end"} /\ "end" \in {"error", "end"}
    OBVIOUS
  <1>2. CASE WorkerFails(i)
    <2> DEFINE c == [w EXCEPT !.phase = "finish", !.error = TRUE]
    <2>1. w.phase = "loop" /\ child' = [child EXCEPT ![i] = c] /\ UNCHANGED <<pipe, proc, eng, handled>>
      BY <1>2 DEF WorkerFails, Child
    <2>2. c \in ChildType /\ c.phase = "finish" /\ c.scans = w.scans
      BY <1>1 DEF ChildType
    <2>3. ~Lost(w)
      BY <2>1 DEF Lost
    <2> HIDE DEF c
    <2> QED BY <1>a, <2>1, <2>2, <2>3, WorkerLeaves
  <1>3. CASE WorkerStops(i)
    <2> DEFINE ph == IF w.phase = "init" THEN "end" ELSE "finish"
               c == [w EXCEPT !.phase = ph, !.status = 0]
    <2>1. /\ w.phase \in {"init", "loop"} /\ child' = [child EXCEPT ![i] = c]
          /\ UNCHANGED <<pipe, proc, eng, handled>>
      BY <1>3 DEF WorkerStops, Child
    <2>2. ph \in {"end", "finish"}
      OBVIOUS
    <2> HIDE DEF ph
    <2>3. c \in ChildType /\ c.phase = ph /\ c.scans = w.scans
      BY <1>1, <2>2 DEF ChildType
    <2>4. ~Lost(w)
      BY <2>1 DEF Lost
    <2> HIDE DEF c
    <2> QED BY <1>a, <2>1, <2>2, <2>3, <2>4, WorkerLeaves
  <1>4. CASE WorkerCloses(i)
    <2>1. PICK broken \in BOOLEAN :
            LET c == [w EXCEPT !.phase = "end", !.error = @ \/ broken,
                               !.status = IF broken THEN 1 ELSE @]
            IN  /\ child' = [child EXCEPT ![i] = c]
                /\ IF c.error THEN Sent(i, Line("error")) \/ (~HasRoom(i) /\ NotSent(i))
                   ELSE UNCHANGED pipe
      BY <1>4 DEF WorkerCloses, Child
    <2> DEFINE e == w.error \/ broken
               st == IF broken THEN 1 ELSE w.status
               c == [w EXCEPT !.phase = "end", !.error = e, !.status = st]
    <2>2. child' = [child EXCEPT ![i] = c] /\ (Sent(i, Line("error")) \/ NotSent(i) \/ UNCHANGED pipe)
      BY <2>1
    <2>3. w.phase = "finish" /\ UNCHANGED <<proc, eng, handled>>
      BY <1>4 DEF WorkerCloses
    <2>4. e \in BOOLEAN /\ st \in {0, 1, 9, 70} /\ (w.status # 0 => st # 0)
      BY <1>1 DEF ChildType
    <2> HIDE DEF e, st
    <2>5. c \in ChildType /\ c.phase = "end" /\ c.scans = w.scans /\ c.status = st
      BY <1>1, <2>4 DEF ChildType
    <2>6. Lost(w) => Lost(c)
      BY <2>4, <2>5 DEF Lost
    <2> HIDE DEF c
    <2> QED BY <1>a, <2>2, <2>3, <2>5, <2>6, WorkerLeaves
  <1>5. CASE WorkerExits(i)
    <2> DEFINE c == [w EXCEPT !.phase = "exited"]
    <2>1. /\ w.phase = "end" /\ child' = [child EXCEPT ![i] = c] /\ UNCHANGED <<proc, eng, handled>>
          /\ Sent(i, Line("end")) \/ NotSent(i)
      BY <1>5 DEF WorkerExits, Child
    <2>2. c \in ChildType /\ c.phase = "exited" /\ c.scans = w.scans /\ c.status = w.status
      BY <1>1 DEF ChildType
    <2>3. Lost(w) => Lost(c)
      BY <2>2 DEF Lost
    <2> HIDE DEF c
    <2> QED BY <1>a, <2>1, <2>2, <2>3, WorkerLeaves
  <1>6. CASE WorkerDies(i)
    <2> DEFINE c == [w EXCEPT !.phase = "exited", !.status = 70]
               two == <<Line("error"), Line("end")>>
               both == pipe[i] \o two
    <2>1. /\ w.phase \in {"init", "loop", "finish"} /\ child' = [child EXCEPT ![i] = c]
          /\ UNCHANGED <<proc, eng, handled>>
          /\ pipe' = pipe \/ pipe' = [pipe EXCEPT ![i] = both]
      BY <1>6 DEF WorkerDies, Child
    <2>2. c \in ChildType /\ c.phase = "exited" /\ c.status = 70
      BY <1>1 DEF ChildType
    <2>3. Lost(c)
      BY <2>2 DEF Lost
    <2>4. Line("error") \in LineType /\ Line("end") \in LineType
      BY LineTypes
    <2>5. two \in Seq(LineType)
      BY <2>4
    <2>6. both \in Seq(LineType)
      <3> HIDE DEF two
      <3> QED BY <1>1, <2>5, ConcatProperties
    <2>7. pipe = [pipe EXCEPT ![i] = pipe[i]]
      BY <1>0 DEF TypeOK
    <2> HIDE DEF c, both
    <2>8. PICK t \in Seq(LineType) : pipe' = [pipe EXCEPT ![i] = t]
      BY <1>1, <2>1, <2>6, <2>7
    <2> QED BY <2>1, <2>2, <2>3, <2>8, WorkerKeeps
  <1> QED BY <1>2, <1>3, <1>4, <1>5, <1>6

-----------------------------------------------------------------------------
(* The engine's actions.                                                   *)

\* The engine goes on with the boards as they are.
LEMMA BoardsKept ==
  ASSUME RakInv, UNCHANGED <<child, pipe, proc, handled>>, eng' \in EngType,
         eng'.started = eng.started, eng.bad => eng'.bad, Order',
         \A i \in Board : (Settled(i)' <=> Settled(i))
  PROVE  RakInv'
  <1>1. TypeOK'
    BY DEF RakInv, TypeOK
  <1>2. ASSUME NEW i \in Board PROVE BoardInv(i)'
    <2>1. BoardInv(i) /\ (Settled(i)' <=> Settled(i)) /\ (~eng'.bad => ~eng.bad)
      BY DEF RakInv
    <2> QED BY <2>1 DEF BoardInv
  <1> QED BY <1>1, <1>2 DEF RakInv

LEMMA StopRequestedStep == ASSUME RakInv, StopRequested PROVE RakInv'
  <1>1. eng \in EngType /\ Order
    BY DEF RakInv, TypeOK
  <1>2. /\ eng' \in EngType /\ eng'.started = eng.started /\ eng'.bad = eng.bad
        /\ eng'.phase = eng.phase /\ eng'.board = eng.board
    BY <1>1 DEF StopRequested, EngType
  <1>3. Order' /\ \A i \in Board : (Settled(i)' <=> Settled(i))
    BY <1>1, <1>2 DEF Order, Settled
  <1> QED BY <1>2, <1>3, BoardsKept DEF StopRequested

LEMMA LoopEndsStep == ASSUME RakInv, LoopEnds PROVE RakInv'
  <1>1. eng \in EngType /\ Order /\ eng.phase \in {"start", "loop"}
    BY DEF RakInv, TypeOK, LoopEnds
  <1>2. 1 \in 1 .. Boards + 1
    BY RakAssumption
  <1>3. /\ eng' \in EngType /\ eng'.started = eng.started /\ eng'.bad = eng.bad
        /\ eng'.phase = "drain" /\ eng'.board = 1
    BY <1>1, <1>2 DEF LoopEnds, EngType
  <1>4. eng.started \in Nat
    BY <1>1, RakAssumption DEF EngType
  <1>5. Order'
    BY <1>3, <1>4 DEF Order, Stopping
  <1>6. \A i \in Board : (Settled(i)' <=> Settled(i))
    <2>1. \A i \in Board : ~(i < 1)
      BY RakAssumption DEF Board
    <2> QED BY <1>1, <1>3, <2>1 DEF Settled, Stopping
  <1> QED BY <1>3, <1>5, <1>6, BoardsKept DEF LoopEnds

LEMMA FinalSaveStep == ASSUME RakInv, FinalSave PROVE RakInv'
  <1>1. eng \in EngType /\ Order /\ eng.phase = "drain" /\ eng.board > eng.started
    BY DEF RakInv, TypeOK, FinalSave
  <1>2. /\ eng' \in EngType /\ eng'.started = eng.started /\ (eng.bad => eng'.bad)
        /\ eng'.phase = "idle" /\ eng'.board = eng.board
    BY <1>1 DEF FinalSave, EngType
  <1>3. eng.board = eng.started + 1
    BY <1>1, RakAssumption DEF Order, Stopping, EngType
  <1>4. Order'
    BY <1>2, <1>3, <1>1, RakAssumption DEF Order, Stopping, EngType
  <1>5. \A i \in Board : (Settled(i)' <=> Settled(i))
    BY <1>1, <1>2 DEF Settled, Stopping
  <1> QED BY <1>2, <1>4, <1>5, BoardsKept DEF FinalSave

\* The engine's step on one board: c the worker after it, t its pipe, p its
\* process object, h its handled scans.
LEMMA OneBoard ==
  ASSUME RakInv, NEW i \in Board, NEW c \in ChildType, NEW t \in Seq(LineType),
         NEW p \in ProcType, NEW h \in Seq(Nat),
         child' = [child EXCEPT ![i] = c], pipe' = [pipe EXCEPT ![i] = t],
         proc' = [proc EXCEPT ![i] = p], handled' = [handled EXCEPT ![i] = h],
         eng' \in EngType, Order', eng.bad => eng'.bad,
         \A j \in Board : j # i =>
           /\ (Settled(j)' <=> Settled(j))
           /\ (j > eng'.started) = (j > eng.started) /\ (j <= eng'.started) = (j <= eng.started),
         Steady(c, t, p), i <= eng'.started,
         ~eng'.bad => IF Settled(i)' THEN Complete(c, h) ELSE Running(c, t, p, h)
  PROVE  RakInv'
  <1>0. TypeOK /\ \A j \in Board : BoardInv(j)
    BY DEF RakInv
  <1>1. TypeOK'
    BY <1>0 DEF TypeOK
  <1>2. ASSUME NEW j \in Board PROVE BoardInv(j)'
    <2>1. CASE j # i
      <3>1. /\ child'[j] = child[j] /\ pipe'[j] = pipe[j] /\ proc'[j] = proc[j]
            /\ handled'[j] = handled[j]
        BY <1>0, <2>1 DEF TypeOK
      <3>2. /\ BoardInv(j) /\ (Settled(j)' <=> Settled(j))
            /\ (j > eng'.started) = (j > eng.started) /\ (j <= eng'.started) = (j <= eng.started)
        BY <1>0, <2>1
      <3> QED BY <3>1, <3>2 DEF BoardInv
    <2>2. CASE j = i
      <3>1. child'[j] = c /\ pipe'[j] = t /\ proc'[j] = p /\ handled'[j] = h
        BY <1>0, <2>2 DEF TypeOK
      <3>2. ~(j > eng'.started)
        BY <2>2, RakAssumption DEF EngType, Board
      <3> QED BY <2>2, <3>1, <3>2 DEF BoardInv
    <2> QED BY <2>1, <2>2
  <1> QED BY <1>1, <1>2 DEF RakInv

LEMMA StartBoardStep == ASSUME RakInv, StartBoard PROVE RakInv'
  <1>0. TypeOK /\ Order /\ \A j \in Board : BoardInv(j)
    BY DEF RakInv
  <1> DEFINE i == eng.board
             c == [NoChild EXCEPT !.phase = "init", !.at = SweepBegin(i)]
             p == [FreshProc EXCEPT !.pid = "owned"]
  <1>1. /\ eng \in EngType /\ eng.phase = "start" /\ i = eng.started + 1 /\ i <= Boards
        /\ i \in Board /\ Boards \in {1, 2} /\ eng.started \in Nat /\ i \in Nat
    <2>1. eng \in EngType /\ eng.phase = "start" /\ i = eng.started + 1 /\ i <= Boards
      BY <1>0 DEF StartBoard, Order, TypeOK
    <2>2. eng.board \in 1 .. Boards + 1 /\ eng.started \in 0 .. Boards
      BY <2>1 DEF EngType
    <2> QED BY <2>1, <2>2, RakAssumption DEF Board
  <1>2. \/ /\ child' = [child EXCEPT ![i] = c] /\ proc' = [proc EXCEPT ![i] = p]
           /\ eng' = IF i = Boards THEN [eng EXCEPT !.phase = "loop", !.board = 1, !.started = i]
                     ELSE [eng EXCEPT !.board = i + 1, !.started = i]
        \/ /\ eng' = [eng EXCEPT !.phase = "drain", !.board = 1, !.run = FALSE, !.bad = TRUE]
           /\ UNCHANGED <<child, proc>>
    BY DEF StartBoard
  <1>3. UNCHANGED <<pipe, handled>>
    BY DEF StartBoard
  <1>4. ASSUME NEW j \in Board PROVE ~Settled(j) /\ ~(j < 1) /\ j \in Nat
    BY <1>1 DEF Settled, Stopping, Board
  <1>5. CASE /\ child' = [child EXCEPT ![i] = c] /\ proc' = [proc EXCEPT ![i] = p]
             /\ eng' = IF i = Boards THEN [eng EXCEPT !.phase = "loop", !.board = 1, !.started = i]
                       ELSE [eng EXCEPT !.board = i + 1, !.started = i]
    <2>1. SweepBegin(i) \in Int
      BY <1>1, SweepType
    <2>2. c \in ChildType /\ c.phase = "init" /\ c.status = 1 /\ c.scans = 0
      <3> DEFINE b == SweepBegin(i)
      <3> HIDE DEF b
      <3> SUFFICES /\ [NoChild EXCEPT !.phase = "init", !.at = b] \in ChildType
                   /\ [NoChild EXCEPT !.phase = "init", !.at = b].phase = "init"
                   /\ [NoChild EXCEPT !.phase = "init", !.at = b].status = 1
                   /\ [NoChild EXCEPT !.phase = "init", !.at = b].scans = 0
        BY DEF b
      <3>1. b \in Int
        BY <2>1 DEF b
      <3> QED BY <3>1 DEF NoChild, ChildType
    <2>3. p \in ProcType /\ ~p.eof /\ ~p.failed
      BY DEF FreshProc, ProcType
    <2>4. Fresh(child[i], pipe[i], proc[i], handled[i])
      <3>1. BoardInv(i) /\ i > eng.started
        BY <1>0, <1>1
      <3> QED BY <3>1 DEF BoardInv
    <2>5. Len(pipe[i]) = 0 /\ Len(handled[i]) = 0 /\ pipe[i] \in Seq(LineType) /\ handled[i] \in Seq(Nat)
      BY <1>0, <1>1, <2>4 DEF Fresh, TypeOK
    <2>6. /\ pipe' = [pipe EXCEPT ![i] = pipe[i]] /\ handled' = [handled EXCEPT ![i] = handled[i]]
      BY <1>0, <1>3 DEF TypeOK
    <2>7. /\ eng' \in EngType /\ eng'.started = i /\ eng'.bad = eng.bad
          /\ IF i = Boards THEN eng'.phase = "loop" /\ eng'.board = 1
             ELSE eng'.phase = "start" /\ eng'.board = i + 1
      <3>1. 1 \in 1 .. Boards + 1 /\ i + 1 \in 1 .. Boards + 1 /\ i \in 0 .. Boards
        BY <1>1
      <3>2. CASE i = Boards
        BY <1>1, <1>5, <3>1, <3>2 DEF EngType
      <3>3. CASE i # Boards
        BY <1>1, <1>5, <3>1, <3>3 DEF EngType
      <3> QED BY <3>2, <3>3
    <2>8. Order'
      BY <1>1, <2>7 DEF Order, Stopping
    <2>9. \A j \in Board : ~Settled(j)'
      BY <2>7 DEF Settled, Stopping
    <2>10. \A j \in Board : j # i =>
             (j > eng'.started) = (j > eng.started) /\ (j <= eng'.started) = (j <= eng.started)
      BY <1>1, <1>4, <2>7
    <2> HIDE DEF c, p
    <2>11. Steady(c, pipe[i], p)
      BY <2>2, <2>3 DEF Steady
    <2>12. Running(c, pipe[i], p, handled[i])
      <3>1. handled[i] = Upto(0)
        <4>1. 0 \in Nat
          OBVIOUS
        <4>2. Upto(0) \in Seq(Nat) /\ Len(Upto(0)) = 0
          BY <4>1, UptoProperties
        <4>3. Upto(0) = <<>> /\ handled[i] = <<>>
          BY <2>5, <4>2, EmptySeq
        <4> QED BY <4>3
      <3>2. Laid(pipe[i], 0, 0, 0)
        BY <2>5 DEF Laid
      <3>3. Placed(c, pipe[i], handled[i], 0, 0, 0)
        BY <2>2, <2>5, <3>1, <3>2 DEF Placed
      <3>4. 0 \in 0 .. Len(pipe[i]) /\ 0 \in 0 .. Len(handled[i])
        BY <2>5
      <3> QED BY <2>3, <3>3, <3>4 DEF Running, Account
    <2>13. i <= eng'.started
      BY <1>1, <2>7
    <2>14. \A j \in Board : (Settled(j)' <=> Settled(j))
      BY <1>4, <2>9
    <2>15. child' = [child EXCEPT ![i] = c] /\ proc' = [proc EXCEPT ![i] = p] /\ (eng.bad => eng'.bad)
      BY <1>5, <2>7
    <2>16. PICK b \in Board : b = i
      BY <1>1
    <2> QED BY <2>2, <2>3, <2>5, <2>6, <2>7, <2>8, <2>9, <2>10, <2>11, <2>12, <2>13, <2>14, <2>15, <2>16,
               OneBoard
  <1>6. CASE /\ eng' = [eng EXCEPT !.phase = "drain", !.board = 1, !.run = FALSE, !.bad = TRUE]
             /\ UNCHANGED <<child, proc>>
    <2>1. /\ eng' \in EngType /\ eng'.started = eng.started /\ eng'.bad /\ eng'.phase = "drain"
          /\ eng'.board = 1
      <3>1. 1 \in 1 .. Boards + 1
        BY <1>1
      <3> QED BY <1>1, <1>6, <3>1 DEF EngType
    <2>2. Order'
      BY <1>1, <2>1 DEF Order, Stopping
    <2>3. \A j \in Board : ~Settled(j)'
      BY <1>4, <2>1 DEF Settled
    <2> QED BY <1>3, <1>4, <1>6, <2>1, <2>2, <2>3, BoardsKept
  <1> QED BY <1>2, <1>5, <1>6

\* The engine at a board of its loop or of its stop.
LEMMA BoardAt ==
  ASSUME RakInv, eng.phase \in {"loop", "read", "wait"}
         \/ (eng.phase = "drain" /\ eng.board <= eng.started)
  PROVE  /\ eng \in EngType /\ eng.board \in Board /\ eng.board <= eng.started
         /\ Boards \in {1, 2} /\ eng.board \in Nat /\ eng.started \in Nat
         /\ Steady(child[eng.board], pipe[eng.board], proc[eng.board])
         /\ ~eng.bad => Running(child[eng.board], pipe[eng.board], proc[eng.board], handled[eng.board])
  <1>1. eng \in EngType /\ Boards \in {1, 2} /\ Order
    BY RakAssumption DEF RakInv, TypeOK
  <1>2. eng.board \in 1 .. Boards + 1 /\ eng.started \in 0 .. Boards
    BY <1>1 DEF EngType
  <1>3. eng.board <= eng.started
    BY <1>1, <1>2 DEF Order
  <1>4. eng.board \in Board /\ eng.board \in Nat /\ eng.started \in Nat
    BY <1>1, <1>2, <1>3 DEF Board
  <1>5. BoardInv(eng.board) /\ ~Settled(eng.board)
    BY <1>4 DEF RakInv, Settled
  <1> QED BY <1>1, <1>3, <1>4, <1>5 DEF BoardInv

LEMMA LoopPollStep == ASSUME RakInv, LoopPoll PROVE RakInv'
  <1>0. TypeOK
    BY DEF RakInv
  <1>1. eng.phase = "loop" /\ UNCHANGED child
    BY DEF LoopPoll
  <1>2. PICK i \in Board : i = eng.board
    BY <1>1, BoardAt
  <1>3. /\ eng \in EngType /\ i <= eng.started /\ Boards \in {1, 2} /\ i \in Nat /\ eng.started \in Nat
        /\ Steady(child[i], pipe[i], proc[i])
        /\ ~eng.bad => Running(child[i], pipe[i], proc[i], handled[i])
    BY <1>1, <1>2, BoardAt
  <1>a. PICK k \in Readable(eng.board), fails \in BOOLEAN, late \in BOOLEAN :
          LET r == Poll(eng.board, k)
              s == Handle(eng.board, r.out, FALSE, fails)
              threw == s.threw \/ (late /\ r.out = <<>>)
          IN  /\ proc' = [proc EXCEPT ![eng.board] = r.p]
              /\ pipe' = Unread(eng.board, k)
              /\ handled' = [handled EXCEPT ![eng.board] = s.done]
              /\ eng' = [eng EXCEPT !.ready = s.ready,
                           !.bad = s.bad \/ threw,
                           !.run = ~threw,
                           !.phase = IF threw THEN "drain" ELSE @,
                           !.board = IF threw THEN 1 ELSE (eng.board % Boards) + 1]
    BY DEF LoopPoll
  <1>b. k \in Readable(i)
    BY <1>2, <1>a
  <1>4.   LET r == Poll(i, k)
              s == Handle(i, r.out, FALSE, fails)
              threw == s.threw \/ (late /\ r.out = <<>>)
          IN  /\ proc' = [proc EXCEPT ![i] = r.p]
              /\ pipe' = Unread(i, k)
              /\ handled' = [handled EXCEPT ![i] = s.done]
              /\ eng' = [eng EXCEPT !.ready = s.ready,
                           !.bad = s.bad \/ threw,
                           !.run = ~threw,
                           !.phase = IF threw THEN "drain" ELSE @,
                           !.board = IF threw THEN 1 ELSE (i % Boards) + 1]
    BY <1>2, <1>a
  <1>5. PICK r : r = Poll(i, k)
    OBVIOUS
  <1>6. PICK s : s = Handle(i, r.out, FALSE, fails)
    OBVIOUS
  <1>7. /\ r \in ReadType /\ s \in HandleType /\ Rest(pipe[i], k) \in Seq(LineType)
        /\ ~s.bad => ~eng.bad /\ Running(child[i], Rest(pipe[i], k), r.p, s.done)
        /\ Steady(child[i], Rest(pipe[i], k), r.p)
    <2>1. FALSE \in BOOLEAN
      OBVIOUS
    <2> QED BY <1>0, <1>3, <1>b, <1>5, <1>6, <2>1, BoardRead
  <1>8. PICK threw \in BOOLEAN : threw = (s.threw \/ (late /\ r.out = <<>>))
    BY <1>7 DEF HandleType
  <1>9. PICK bad \in BOOLEAN : bad = (s.bad \/ threw)
    BY <1>7 DEF HandleType
  <1>10. PICK b \in 1 .. Boards : b = IF threw THEN 1 ELSE (i % Boards) + 1
    BY <1>3
  <1>11. PICK ph \in {"drain", "loop"} : ph = IF threw THEN "drain" ELSE "loop"
    OBVIOUS
  <1>12. /\ proc' = [proc EXCEPT ![i] = r.p]
         /\ pipe' = [pipe EXCEPT ![i] = Rest(pipe[i], k)]
         /\ handled' = [handled EXCEPT ![i] = s.done]
         /\ eng' = [eng EXCEPT !.ready = s.ready, !.bad = bad, !.run = ~threw, !.phase = ph, !.board = b]
    BY <1>1, <1>4, <1>5, <1>6, <1>8, <1>9, <1>10, <1>11 DEF Unread, Rest
  <1>13. r.p \in ProcType /\ s.done \in Seq(Nat) /\ s.ready \in SUBSET Board
    BY <1>7 DEF ReadType, HandleType
  <1>14. /\ eng' \in EngType /\ eng'.started = eng.started /\ eng'.bad = bad /\ eng'.phase = ph
         /\ eng'.board = b
    <2>1. b \in 1 .. Boards + 1 /\ (~threw) \in BOOLEAN
      BY <1>3
    <2> QED BY <1>3, <1>12, <1>13, <2>1 DEF EngType
  <1>15. eng.started = Boards /\ b \in Nat /\ b <= Boards /\ (ph = "drain" => b = 1)
    <2>1. eng.started = Boards
      BY <1>1 DEF RakInv, Order
    <2> QED BY <1>3, <1>10, <1>11, <2>1
  <1>16. Order'
    BY <1>3, <1>14, <1>15 DEF Order, Stopping
  <1>17. \A j \in Board : ~Settled(j) /\ ~Settled(j)'
    <2>1. \A j \in Board : ~(j < 1)
      BY <1>3 DEF Board
    <2>2. \A j \in Board : ~Settled(j)
      BY <1>1 DEF Settled, Stopping
    <2>3. \A j \in Board : ~Settled(j)'
      BY <1>11, <1>14, <1>15, <2>1 DEF Settled, Stopping
    <2> QED BY <2>2, <2>3
  <1>18. eng.bad => eng'.bad
    BY <1>7, <1>9, <1>14
  <1>19. ~eng'.bad => Running(child[i], Rest(pipe[i], k), r.p, s.done)
    BY <1>7, <1>9, <1>14
  <1>20. child' = [child EXCEPT ![i] = child[i]] /\ child[i] \in ChildType
    BY <1>0, <1>1 DEF TypeOK
  <1> QED BY <1>3, <1>7, <1>12, <1>13, <1>14, <1>16, <1>17, <1>18, <1>19, <1>20, OneBoard

LEMMA StopTellsStep == ASSUME RakInv, StopTells PROVE RakInv'
  <1>0. TypeOK
    BY DEF RakInv
  <1>1. /\ eng.phase = "drain" /\ eng.board <= eng.started /\ UNCHANGED <<pipe, handled>>
        /\ eng' = [eng EXCEPT !.phase = "read"]
    BY DEF StopTells
  <1>2. PICK i \in Board : i = eng.board
    BY <1>1, BoardAt
  <1>3. /\ eng \in EngType /\ i <= eng.started /\ Boards \in {1, 2} /\ i \in Nat /\ eng.started \in Nat
        /\ Steady(child[i], pipe[i], proc[i])
        /\ ~eng.bad => Running(child[i], pipe[i], proc[i], handled[i])
    BY <1>1, <1>2, BoardAt
  <1>4. PICK d \in BOOLEAN : d = (proc[i].sawEnd \/ ~Exited(i))
    OBVIOUS
  <1> DEFINE c == [child[i] EXCEPT !.told = TRUE]
             p == [proc[i] EXCEPT !.delivered = d]
  <1>5. child' = [child EXCEPT ![i] = c] /\ proc' = [proc EXCEPT ![i] = p]
    BY <1>2, <1>4 DEF StopTells, Child
  <1>6. child[i] \in ChildType /\ pipe[i] \in Seq(LineType) /\ handled[i] \in Seq(Nat) /\ proc[i] \in ProcType
    BY <1>0, BoardTypes
  <1>7. /\ c \in ChildType /\ c.phase = child[i].phase /\ c.status = child[i].status
        /\ c.scans = child[i].scans
    BY <1>6 DEF ChildType
  <1>8. p \in ProcType /\ p.eof = proc[i].eof /\ p.failed = proc[i].failed
    BY <1>4, <1>6 DEF ProcType
  <1> HIDE DEF c, p
  <1>9. Steady(c, pipe[i], p)
    BY <1>3, <1>7, <1>8 DEF Steady
  <1>10. ASSUME ~eng.bad PROVE Running(c, pipe[i], p, handled[i])
    <2>1. Account(child[i], pipe[i], handled[i]) => Account(c, pipe[i], handled[i])
      BY <1>7 DEF Account, Placed
    <2>2. Lost(child[i]) => Lost(c)
      BY <1>7 DEF Lost
    <2> QED BY <1>3, <1>8, <1>10, <2>1, <2>2 DEF Running
  <1>11. /\ eng' \in EngType /\ eng'.phase = "read" /\ eng'.board = eng.board
         /\ eng'.started = eng.started /\ eng'.bad = eng.bad
    BY <1>1, <1>3 DEF EngType
  <1>12. Order'
    BY <1>1, <1>2, <1>3, <1>11 DEF Order, Stopping
  <1>13. \A j \in Board : (Settled(j)' <=> Settled(j))
    BY <1>1, <1>11 DEF Settled, Stopping
  <1>14. ~Settled(i)'
    BY <1>2, <1>3, <1>11 DEF Settled
  <1>15. pipe' = [pipe EXCEPT ![i] = pipe[i]] /\ handled' = [handled EXCEPT ![i] = handled[i]]
    BY <1>0, <1>1 DEF TypeOK
  <1> QED BY <1>3, <1>5, <1>6, <1>7, <1>8, <1>9, <1>10, <1>11, <1>12, <1>13, <1>14, <1>15, OneBoard

LEMMA StopReadsStep == ASSUME RakInv, StopReads PROVE RakInv'
  <1>0. TypeOK
    BY DEF RakInv
  <1>1. eng.phase = "read" /\ UNCHANGED child
    BY DEF StopReads
  <1>2. PICK i \in Board : i = eng.board
    BY <1>1, BoardAt
  <1>3. /\ eng \in EngType /\ i <= eng.started /\ Boards \in {1, 2} /\ i \in Nat /\ eng.started \in Nat
        /\ Steady(child[i], pipe[i], proc[i])
        /\ ~eng.bad => Running(child[i], pipe[i], proc[i], handled[i])
    BY <1>1, <1>2, BoardAt
  <1>a. PICK k \in Readable(eng.board), fails \in BOOLEAN :
          LET r == Poll(eng.board, k)
              s == Handle(eng.board, r.out, TRUE, fails)
          IN  /\ proc' = [proc EXCEPT ![eng.board] = [r.p EXCEPT !.delivered = @ /\ ~s.threw]]
              /\ pipe' = Unread(eng.board, k)
              /\ handled' = [handled EXCEPT ![eng.board] = s.done]
              /\ eng' = [eng EXCEPT !.ready = s.ready, !.bad = s.bad,
                           !.phase = IF r.out = <<>> \/ r.p.eof THEN "wait" ELSE @]
    BY DEF StopReads
  <1>b. k \in Readable(i)
    BY <1>2, <1>a
  <1>4.   LET r == Poll(i, k)
              s == Handle(i, r.out, TRUE, fails)
          IN  /\ proc' = [proc EXCEPT ![i] = [r.p EXCEPT !.delivered = @ /\ ~s.threw]]
              /\ pipe' = Unread(i, k)
              /\ handled' = [handled EXCEPT ![i] = s.done]
              /\ eng' = [eng EXCEPT !.ready = s.ready, !.bad = s.bad,
                           !.phase = IF r.out = <<>> \/ r.p.eof THEN "wait" ELSE @]
    BY <1>2, <1>a
  <1>5. PICK r : r = Poll(i, k)
    OBVIOUS
  <1>6. PICK s : s = Handle(i, r.out, TRUE, fails)
    OBVIOUS
  <1>7. /\ r \in ReadType /\ s \in HandleType /\ Rest(pipe[i], k) \in Seq(LineType)
        /\ ~s.bad => ~eng.bad /\ Running(child[i], Rest(pipe[i], k), r.p, s.done)
        /\ Steady(child[i], Rest(pipe[i], k), r.p)
    <2>1. TRUE \in BOOLEAN
      OBVIOUS
    <2> QED BY <1>0, <1>3, <1>b, <1>5, <1>6, <2>1, BoardRead
  <1>8. r.p \in ProcType /\ s.done \in Seq(Nat) /\ s.ready \in SUBSET Board /\ s.bad \in BOOLEAN
    BY <1>7 DEF ReadType, HandleType
  <1>9. PICK d \in BOOLEAN : d = (r.p.delivered /\ ~s.threw)
    OBVIOUS
  <1>10. PICK ph \in {"wait", "read"} : ph = IF r.out = <<>> \/ r.p.eof THEN "wait" ELSE "read"
    OBVIOUS
  <1> DEFINE p == [r.p EXCEPT !.delivered = d]
  <1>11. /\ proc' = [proc EXCEPT ![i] = p] /\ pipe' = [pipe EXCEPT ![i] = Rest(pipe[i], k)]
         /\ handled' = [handled EXCEPT ![i] = s.done]
         /\ eng' = [eng EXCEPT !.ready = s.ready, !.bad = s.bad, !.phase = ph]
    BY <1>1, <1>4, <1>5, <1>6, <1>9, <1>10 DEF Unread, Rest
  <1>12. p \in ProcType /\ p.eof = r.p.eof /\ p.failed = r.p.failed
    BY <1>8, <1>9 DEF ProcType
  <1> HIDE DEF p
  <1>13. Steady(child[i], Rest(pipe[i], k), p)
    BY <1>7, <1>12 DEF Steady
  <1>14. ~s.bad => Running(child[i], Rest(pipe[i], k), p, s.done)
    BY <1>7, <1>12 DEF Running
  <1>15. /\ eng' \in EngType /\ eng'.phase = ph /\ eng'.board = eng.board
         /\ eng'.started = eng.started /\ eng'.bad = s.bad
    BY <1>3, <1>8, <1>10, <1>11 DEF EngType
  <1>16. Order'
    BY <1>2, <1>3, <1>10, <1>15 DEF Order, Stopping
  <1>17. \A j \in Board : (Settled(j)' <=> Settled(j))
    BY <1>1, <1>10, <1>15 DEF Settled, Stopping
  <1>18. ~Settled(i)' /\ (eng.bad => eng'.bad)
    BY <1>2, <1>3, <1>7, <1>15 DEF Settled
  <1>19. child' = [child EXCEPT ![i] = child[i]] /\ child[i] \in ChildType
    BY <1>0, <1>1 DEF TypeOK
  <1> QED BY <1>3, <1>7, <1>8, <1>11, <1>12, <1>13, <1>14, <1>15, <1>16, <1>17, <1>18, <1>19, OneBoard

\* A board that stopped cleanly has left nothing behind.
LEMMA CleanIsComplete ==
  ASSUME NEW c \in ChildType, NEW s \in Seq(LineType), NEW p, NEW h \in Seq(Nat),
         Running(c, s, p, h), Len(s) = 0, c.phase = "exited", c.status = 0
  PROVE  Complete(c, h)
  <1>1. Account(c, s, h)
    BY DEF Running, Lost
  <1>2. PICK a \in 0 .. Len(h), r \in 0 .. Len(s), m \in 0 .. Len(s) : Placed(c, s, h, a, r, m)
    BY <1>1 DEF Account
  <1>3. m = 0 /\ a + 0 = a /\ h = Upto(a) /\ a + m = c.scans
    BY <1>2, LenProperties DEF Placed
  <1>4. a = c.scans
    BY <1>3
  <1> QED BY <1>3, <1>4 DEF Complete

LEMMA StopWaitsStep == ASSUME RakInv, StopWaits PROVE RakInv'
  <1>0. TypeOK
    BY DEF RakInv
  <1>1. eng.phase = "wait" /\ UNCHANGED <<pipe, handled>>
    BY DEF StopWaits
  <1>2. PICK i \in Board : i = eng.board
    BY <1>1, BoardAt
  <1>3. /\ eng \in EngType /\ i <= eng.started /\ Boards \in {1, 2} /\ i \in Nat /\ eng.started \in Nat
        /\ Steady(child[i], pipe[i], proc[i])
        /\ ~eng.bad => Running(child[i], pipe[i], proc[i], handled[i])
    BY <1>1, <1>2, BoardAt
  <1>4. child[i] \in ChildType /\ pipe[i] \in Seq(LineType) /\ handled[i] \in Seq(Nat) /\ proc[i] \in ProcType
    BY <1>0, BoardTypes
  <1>5. pipe' = [pipe EXCEPT ![i] = pipe[i]] /\ handled' = [handled EXCEPT ![i] = handled[i]]
    BY <1>0, <1>1 DEF TypeOK
  <1> DEFINE n == (proc[i].tries + 1) % MaxTries
             p == [proc[i] EXCEPT !.tries = n]
             q == [FreshProc EXCEPT !.pid = "reaped"]
             c == IF StopDone(i) \/ Exited(i) THEN child[i]
                  ELSE [child[i] EXCEPT !.phase = "exited", !.status = 9]
  <1>6. \/ /\ proc' = [proc EXCEPT ![i] = p] /\ eng' = [eng EXCEPT !.phase = "read"]
           /\ UNCHANGED child
        \/ /\ child' = IF StopDone(i) \/ Exited(i) THEN child
                       ELSE [child EXCEPT ![i] = [child[i] EXCEPT !.phase = "exited", !.status = 9]]
           /\ proc' = [proc EXCEPT ![i] = q]
           /\ eng' = [eng EXCEPT !.phase = "drain", !.board = i + 1, !.bad = @ \/ ~CleanStop(i)]
    BY <1>2 DEF StopWaits
  <1>7. child = [child EXCEPT ![i] = child[i]]
    BY <1>0 DEF TypeOK
  <1>8. CASE /\ proc' = [proc EXCEPT ![i] = p] /\ eng' = [eng EXCEPT !.phase = "read"]
             /\ UNCHANGED child
    <2>1. n \in Nat
      BY <1>4, RakAssumption DEF ProcType
    <2> HIDE DEF n
    <2>2. p \in ProcType /\ p.eof = proc[i].eof /\ p.failed = proc[i].failed
      BY <1>4, <2>1 DEF ProcType
    <2> HIDE DEF p
    <2>3. Steady(child[i], pipe[i], p)
      BY <1>3, <2>2 DEF Steady
    <2>4. ~eng.bad => Running(child[i], pipe[i], p, handled[i])
      BY <1>3, <2>2 DEF Running
    <2>5. /\ eng' \in EngType /\ eng'.phase = "read" /\ eng'.board = eng.board
          /\ eng'.started = eng.started /\ eng'.bad = eng.bad
      BY <1>3, <1>8 DEF EngType
    <2>6. Order'
      BY <1>2, <1>3, <2>5 DEF Order, Stopping
    <2>7. \A j \in Board : (Settled(j)' <=> Settled(j))
      BY <1>1, <2>5 DEF Settled, Stopping
    <2>8. ~Settled(i)'
      BY <1>2, <1>3, <2>5 DEF Settled
    <2>9. child' = [child EXCEPT ![i] = child[i]]
      BY <1>7, <1>8
    <2> QED BY <1>3, <1>4, <1>5, <1>8, <2>2, <2>3, <2>4, <2>5, <2>6, <2>7, <2>8, <2>9, OneBoard
  <1>9. CASE /\ child' = IF StopDone(i) \/ Exited(i) THEN child
                         ELSE [child EXCEPT ![i] = [child[i] EXCEPT !.phase = "exited", !.status = 9]]
             /\ proc' = [proc EXCEPT ![i] = q]
             /\ eng' = [eng EXCEPT !.phase = "drain", !.board = i + 1, !.bad = @ \/ ~CleanStop(i)]
    <2>1. child' = [child EXCEPT ![i] = c]
      BY <1>7, <1>9
    <2>2. c \in ChildType /\ c.phase = "exited" /\ (Exited(i) => c = child[i])
      <3>1. CASE StopDone(i) \/ Exited(i)
        BY <1>4, <3>1 DEF StopDone, Exited
      <3>2. CASE ~(StopDone(i) \/ Exited(i))
        BY <1>4, <3>2 DEF ChildType
      <3> QED BY <3>1, <3>2
    <2>3. q \in ProcType /\ ~q.eof
      BY DEF FreshProc, ProcType
    <2>4. PICK bad \in BOOLEAN : bad = (eng.bad \/ ~CleanStop(i))
      OBVIOUS
    <2>5. eng' = [eng EXCEPT !.phase = "drain", !.board = i + 1, !.bad = bad]
      BY <1>9, <2>4
    <2> HIDE DEF c, q
    <2>6. Steady(c, pipe[i], q)
      BY <2>2, <2>3 DEF Steady
    <2>7. /\ eng' \in EngType /\ eng'.phase = "drain" /\ eng'.board = i + 1
          /\ eng'.started = eng.started /\ eng'.bad = bad
      <3>1. i + 1 \in 1 .. Boards + 1
        BY <1>3 DEF Board
      <3> QED BY <1>3, <2>5, <3>1 DEF EngType
    <2>8. Order'
      BY <1>3, <2>7 DEF Order, Stopping
    <2>9. \A j \in Board : j # i => (Settled(j)' <=> Settled(j))
      <3>1. \A j \in Board : j # i => (j < i + 1 <=> j < i)
        BY <1>3 DEF Board
      <3> QED BY <1>1, <1>2, <2>7, <3>1 DEF Settled, Stopping
    <2>10. Settled(i)'
      BY <1>3, <2>7 DEF Settled, Stopping
    <2>11. ASSUME ~bad PROVE Complete(c, handled[i])
      <3>1. ~eng.bad /\ CleanStop(i)
        BY <2>4, <2>11
      <3>2. proc[i].eof /\ Exited(i) /\ child[i].status = 0 /\ child[i].phase = "exited"
        BY <3>1 DEF CleanStop, Exited
      <3>3. Len(pipe[i]) = 0
        BY <1>3, <3>2 DEF Steady
      <3>4. Complete(child[i], handled[i])
        BY <1>3, <1>4, <3>1, <3>2, <3>3, CleanIsComplete
      <3> QED BY <2>2, <3>2, <3>4
    <2>12. eng.bad => eng'.bad
      BY <2>4, <2>7
    <2> QED BY <1>3, <1>4, <1>5, <1>9, <2>1, <2>2, <2>3, <2>6, <2>7, <2>8, <2>9, <2>10, <2>11, <2>12,
               OneBoard
  <1> QED BY <1>6, <1>8, <1>9

LEMMA RakStep == RakInv /\ [Next]_vars => RakInv'
  <1> SUFFICES ASSUME RakInv, [Next]_vars PROVE RakInv'
    OBVIOUS
  <1>1. CASE Owner
    BY <1>1, StartBoardStep, LoopPollStep, LoopEndsStep, StopTellsStep, StopReadsStep, StopWaitsStep,
       FinalSaveStep DEF Owner
  <1>2. CASE StopRequested
    BY <1>2, StopRequestedStep
  <1>3. ASSUME NEW i \in Board,
               WorkerReady(i) \/ WorkerScan(i) \/ WorkerFails(i) \/ WorkerStops(i)
               \/ WorkerCloses(i) \/ WorkerExits(i) \/ WorkerDies(i)
        PROVE  RakInv'
    BY <1>3, WorkerReadyStep, WorkerScanStep, WorkerOtherSteps
  <1>4. CASE UNCHANGED vars
    BY <1>4 DEF vars, RakInv, TypeOK, Order, BoardInv, Settled
  <1> QED BY <1>1, <1>2, <1>3, <1>4 DEF Next

\* The account of every board, from its start to its stop, holds in every
\* reachable state of the RAK5146 survey (rak_worker.c, rak_process.cpp,
\* engine_rak.inc), whatever hangs, fails or is lost.
THEOREM AccountKept == Spec => []RakInv
  BY InitHolds, RakStep, PTL DEF Spec

\* CompleteMeansAll: a survey that ends without an error has handled every
\* scan of every worker, once and in order, for any pipe size, any number of
\* sweep points and scans, and any number of rounds of stop().
THEOREM CompleteIsAll == Spec => []CompleteMeansAll
  <1>1. RakInv => CompleteMeansAll
    <2> SUFFICES ASSUME RakInv, eng.phase = "idle", ~eng.bad, NEW i \in Board
                 PROVE  handled[i] = [n \in 1 .. child[i].scans |-> n]
      BY DEF CompleteMeansAll
    <2>1. BoardInv(i) /\ eng.board = eng.started + 1 /\ eng.started \in Nat /\ i \in Nat /\ TypeOK
      BY RakAssumption DEF RakInv, Order, TypeOK, EngType, Board
    <2>2. CASE i <= eng.started
      <3>1. Settled(i)
        BY <2>1, <2>2 DEF Settled, Stopping
      <3> QED BY <2>1, <2>2, <3>1 DEF BoardInv, Complete, Upto
    <2>3. CASE i > eng.started
      <3>1. child[i].scans = 0 /\ Len(handled[i]) = 0 /\ handled[i] \in Seq(Nat)
        BY <2>1, <2>3 DEF BoardInv, Fresh, NoChild, TypeOK
      <3>2. 0 \in Nat
        OBVIOUS
      <3>3. Upto(0) \in Seq(Nat) /\ Len(Upto(0)) = 0
        BY <3>2, UptoProperties
      <3>4. handled[i] = Upto(0)
        BY <3>1, <3>3, EmptySeq
      <3> QED BY <3>1, <3>4 DEF Upto
    <2> QED BY <2>1, <2>2, <2>3
  <1> QED BY <1>1, AccountKept, PTL
=============================================================================
