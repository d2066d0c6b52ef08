------------------------ MODULE ReticulumLink_proofs ------------------------
(* Proofs about ReticulumLink, for any payloads of bytes and any RX_FRAME_MAX:  *)
(* the first frame that a connection hands on is one that was sent, whole, and  *)
(* all before it were too long or empty.                                        *)
(*                                                                              *)
(* The code reads what has arrived, in chunks of any length, with a parser that *)
(* keeps its state in between.  Reading two chunks is reading their             *)
(* concatenation (ParseConcat), and a parser that has nothing finds the payload *)
(* in a frame, or nothing if the payload is too long (ParseFramed).  So what    *)
(* the parser will be at, when it has read all the bytes on their way, foretells*)
(* the first frame (FrameInv): a send extends both sides of it, and a read only *)
(* moves bytes from one to the other.                                           *)
(*                                                                              *)
(* Parse is a recursive function: what it computes is stated of a run that some *)
(* function f follows (IsRun), the existence of which is proved by the least    *)
(* length without one.                                                          *)
EXTENDS ReticulumLink, SequenceTheorems, WellFoundedInduction, TLAPS

\* A nonempty set of natural numbers has a least element: induction without an operator parameter.
LEMMA LeastNat ==
    ASSUME NEW T \in SUBSET Nat, T # {}
    PROVE  \E n \in T : \A m \in T : n <= m
<1> DEFINE R == {s \in Nat \X Nat : s[1] < s[2]}
<1>1. IsWellFoundedOn(R, Nat)
  BY NatLessThanWellFounded DEF OpToRel
<1>2. ASSUME NEW Q, IsWellFoundedOn(Q, Nat) PROVE \E n \in T : \A m \in T : ~(<<m, n>> \in Q)
  BY <1>2, WFMin, Zenon
<1>3. PICK n \in T : \A m \in T : ~(<<m, n>> \in R)
  BY <1>1, <1>2
<1>4. \A m, k \in Nat : <<m, k>> \in R <=> m < k
  OBVIOUS
<1> HIDE DEF R
<1>5. ASSUME NEW m \in T PROVE n <= m
  <2>1. ~(m < n)
    BY <1>3, <1>4, Zenon
  <2> QED BY <2>1
<1> QED BY <1>5

\* What a byte holds.
Bytes == 0..255

\* The states of the parser between two bytes of a chunk.
Parsers == {p \in [inFrame : BOOLEAN, escaped : BOOLEAN, frameBuf : Seq(Bytes), done : BOOLEAN] :
                Len(p.frameBuf) <= RxFrameMax}

\* The escaped bytes (ESC_MASK) are those of 126 and 125.
LEMMA XorTyped == \A b \in Bytes : Xor(b) \in Bytes /\ Xor(94) = 126 /\ Xor(93) = 125
                        /\ Xor(126) = 94 /\ Xor(125) = 93
BY DEF Xor, Bytes

\* A parser is the record of its fields.
P(i, e, s, d) == [inFrame |-> i, escaped |-> e, frameBuf |-> s, done |-> d]

\* A parser is made of its four fields.
LEMMA ParserIs ==
    /\ \A p \in Parsers :
          /\ p = P(p.inFrame, p.escaped, p.frameBuf, p.done)
          /\ p.inFrame \in BOOLEAN /\ p.escaped \in BOOLEAN /\ p.done \in BOOLEAN
          /\ p.frameBuf \in Seq(Bytes)
          /\ Len(p.frameBuf) \in Nat /\ Len(p.frameBuf) <= RxFrameMax
    /\ \A i, e, d \in BOOLEAN, s \in Seq(Bytes) :
          Len(s) <= RxFrameMax => P(i, e, s, d) \in Parsers
    /\ <<>> \in Seq(Bytes) /\ Len(<<>>) <= RxFrameMax
<1>1. ASSUME NEW p \in Parsers
      PROVE  /\ p = P(p.inFrame, p.escaped, p.frameBuf, p.done)
             /\ p.inFrame \in BOOLEAN /\ p.escaped \in BOOLEAN /\ p.done \in BOOLEAN
             /\ p.frameBuf \in Seq(Bytes)
             /\ Len(p.frameBuf) <= RxFrameMax
  BY DEF Parsers, P
<1>2. \A p \in Parsers : Len(p.frameBuf) \in Nat
  BY <1>1, LenProperties
<1>3. ASSUME NEW i \in BOOLEAN, NEW e \in BOOLEAN, NEW d \in BOOLEAN, NEW s \in Seq(Bytes),
             Len(s) <= RxFrameMax
      PROVE  P(i, e, s, d) \in Parsers
  BY <1>3 DEF Parsers, P
<1>4. <<>> \in Seq(Bytes) /\ Len(<<>>) <= RxFrameMax
  BY EmptySeq, LinkAssumption
<1> QED BY <1>1, <1>2, <1>3, <1>4

\* The steps of the parser, field by field.
LEMMA ReadByteIs ==
    ASSUME NEW p \in Parsers, NEW b \in Bytes
    PROVE  /\ p.done => ReadByte(p, b) = p
           /\ ~p.done /\ b = 126 =>
                 ReadByte(p, b) = IF p.inFrame /\ p.frameBuf # <<>>
                                  THEN P(p.inFrame, p.escaped, p.frameBuf, TRUE)
                                  ELSE P(TRUE, FALSE, <<>>, p.done)
           /\ ~p.done /\ b = 125 /\ p.inFrame =>
                 ReadByte(p, b) = P(p.inFrame, TRUE, p.frameBuf, p.done)
           /\ ~p.done /\ b \notin {125, 126} /\ p.inFrame =>
                 ReadByte(p, b) = IF Len(p.frameBuf) >= RxFrameMax
                                  THEN P(FALSE, FALSE, <<>>, p.done)
                                  ELSE P(p.inFrame, FALSE,
                                         Append(p.frameBuf, IF p.escaped THEN Xor(b) ELSE b), p.done)
           /\ b # 126 /\ ~p.inFrame => ReadByte(p, b) = p
<1> DEFINE c == IF p.escaped THEN Xor(b) ELSE b
<1>1. PICK i, e, s, d : i = p.inFrame /\ e = p.escaped /\ s = p.frameBuf /\ d = p.done
  OBVIOUS
<1>0. i \in BOOLEAN /\ d \in BOOLEAN /\ p.inFrame \in BOOLEAN /\ p.done \in BOOLEAN
  BY <1>1, ParserIs
<1>2. p = P(i, e, s, d)
  BY <1>1, ParserIs
<1>14. p \in [inFrame : BOOLEAN, escaped : BOOLEAN, frameBuf : Seq(Bytes), done : BOOLEAN]
  BY DEF Parsers
<1>15. c \in Bytes /\ s \in Seq(Bytes)
  BY <1>1, XorTyped, ParserIs
<1>16. Append(s, c) \in Seq(Bytes) /\ <<>> \in Seq(Bytes)
  BY <1>15, AppendProperties, EmptySeq
<1> HIDE DEF c
<1> DEFINE All == [inFrame : BOOLEAN, escaped : BOOLEAN, frameBuf : Seq(Bytes), done : BOOLEAN]
<1>18. \A q \in All : q = P(q.inFrame, q.escaped, q.frameBuf, q.done)
  BY DEF P
<1>3. ASSUME NEW q, q = [p EXCEPT !.done = TRUE] PROVE q = P(i, e, s, TRUE)
  <2>1. q \in All
    BY <1>14, <1>16, <1>3
  <2>2. q.inFrame = p.inFrame /\ q.escaped = p.escaped /\ q.frameBuf = p.frameBuf /\ q.done = TRUE
    BY <1>14, <1>16, <1>3
  <2> HIDE DEF All
  <2> QED BY <1>1, <1>18, <2>1, <2>2
<1>17. ASSUME NEW q, q = [p EXCEPT !.escaped = TRUE] PROVE q = P(i, TRUE, s, d)
  <2>1. q \in All
    BY <1>14, <1>16, <1>17
  <2>2. q.inFrame = p.inFrame /\ q.escaped = TRUE /\ q.frameBuf = p.frameBuf /\ q.done = p.done
    BY <1>14, <1>16, <1>17
  <2> HIDE DEF All
  <2> QED BY <1>1, <1>18, <2>1, <2>2
<1>19. ASSUME NEW q, q = [p EXCEPT !.inFrame = TRUE, !.frameBuf = <<>>, !.escaped = FALSE]
       PROVE  q = P(TRUE, FALSE, <<>>, d)
  <2>1. q \in All
    BY <1>14, <1>16, <1>19
  <2>2. q.inFrame = TRUE /\ q.escaped = FALSE /\ q.frameBuf = <<>> /\ q.done = p.done
    BY <1>14, <1>16, <1>19
  <2> HIDE DEF All
  <2> QED BY <1>1, <1>18, <2>1, <2>2
<1>20. ASSUME NEW q, q = [p EXCEPT !.inFrame = FALSE, !.frameBuf = <<>>, !.escaped = FALSE]
       PROVE  q = P(FALSE, FALSE, <<>>, d)
  <2>1. q \in All
    BY <1>14, <1>16, <1>20
  <2>2. q.inFrame = FALSE /\ q.escaped = FALSE /\ q.frameBuf = <<>> /\ q.done = p.done
    BY <1>14, <1>16, <1>20
  <2> HIDE DEF All
  <2> QED BY <1>1, <1>18, <2>1, <2>2
<1>21. ASSUME NEW q, q = [p EXCEPT !.frameBuf = Append(s, c), !.escaped = FALSE]
       PROVE  q = P(i, FALSE, Append(s, c), d)
  <2>1. q \in All
    BY <1>14, <1>16, <1>21
  <2>2. q.inFrame = p.inFrame /\ q.escaped = FALSE /\ q.frameBuf = Append(s, c) /\ q.done = p.done
    BY <1>14, <1>16, <1>21
  <2> HIDE DEF All
  <2> QED BY <1>1, <1>18, <2>1, <2>2
<1>4. p.done => ReadByte(p, b) = p
  BY DEF ReadByte
<1>5. ~p.done /\ b = 126 => ReadByte(p, b) = AtFlag(p)
  BY <1>0 DEF ReadByte, FRAME_START, FRAME_ESC
<1>6. ~p.done /\ b = 125 /\ p.inFrame => ReadByte(p, b) = [p EXCEPT !.escaped = TRUE]
  BY DEF ReadByte, FRAME_START, FRAME_ESC
<1>7. ~p.done /\ b \notin {125, 126} /\ p.inFrame => ReadByte(p, b) = AtData(p, b)
  BY DEF ReadByte, FRAME_START, FRAME_ESC
<1>8. b # 126 /\ ~p.inFrame => ReadByte(p, b) = p
  BY DEF ReadByte, FRAME_START, FRAME_ESC
<1>9. AtFlag(p) = IF i /\ s # <<>> THEN P(i, e, s, TRUE) ELSE P(TRUE, FALSE, <<>>, d)
  BY <1>1, <1>3, <1>19 DEF AtFlag
<1>10. AtData(p, b) = IF Len(s) >= RxFrameMax THEN P(FALSE, FALSE, <<>>, d)
                      ELSE P(i, FALSE, Append(s, c), d)
  BY <1>1, <1>20, <1>21 DEF AtData, c
<1>11. ~p.done /\ b = 126 =>
          ReadByte(p, b) = IF p.inFrame /\ p.frameBuf # <<>>
                           THEN P(p.inFrame, p.escaped, p.frameBuf, TRUE)
                           ELSE P(TRUE, FALSE, <<>>, p.done)
  BY <1>1, <1>5, <1>9
<1>12. ~p.done /\ b = 125 /\ p.inFrame =>
          ReadByte(p, b) = P(p.inFrame, TRUE, p.frameBuf, p.done)
  BY <1>1, <1>6, <1>17
<1>13. ~p.done /\ b \notin {125, 126} /\ p.inFrame =>
          ReadByte(p, b) = IF Len(p.frameBuf) >= RxFrameMax
                           THEN P(FALSE, FALSE, <<>>, p.done)
                           ELSE P(p.inFrame, FALSE, Append(p.frameBuf, c), p.done)
  BY <1>1, <1>7, <1>10
<1> QED BY <1>4, <1>8, <1>11, <1>12, <1>13 DEF c

\* A byte leaves the buffer within RX_FRAME_MAX.
LEMMA ReadByteTyped ==
    ASSUME NEW p \in Parsers, NEW b \in Bytes
    PROVE  ReadByte(p, b) \in Parsers
<1> DEFINE c == IF p.escaped THEN Xor(b) ELSE b
<1>1. c \in Bytes
  BY XorTyped
<1> HIDE DEF c
<1>2. Append(p.frameBuf, c) \in Seq(Bytes) /\ Len(Append(p.frameBuf, c)) = Len(p.frameBuf) + 1
  BY <1>1, ParserIs, AppendProperties
<1>3. Len(p.frameBuf) >= RxFrameMax \/ Len(Append(p.frameBuf, c)) <= RxFrameMax
  BY <1>2, ParserIs, LinkAssumption
<1>4. /\ p.inFrame \in BOOLEAN /\ p.escaped \in BOOLEAN /\ p.done \in BOOLEAN
      /\ p.frameBuf \in Seq(Bytes) /\ Len(p.frameBuf) <= RxFrameMax
  BY ParserIs
<1>5. /\ P(p.inFrame, p.escaped, p.frameBuf, TRUE) \in Parsers
      /\ P(TRUE, FALSE, <<>>, p.done) \in Parsers
      /\ P(FALSE, FALSE, <<>>, p.done) \in Parsers
      /\ P(p.inFrame, TRUE, p.frameBuf, p.done) \in Parsers
  BY <1>4, ParserIs
<1>6. Len(p.frameBuf) >= RxFrameMax \/ P(p.inFrame, FALSE, Append(p.frameBuf, c), p.done) \in Parsers
  BY <1>2, <1>3, <1>4, ParserIs
<1>7. CASE p.done \/ (b # 126 /\ ~p.inFrame)
  BY <1>7, ReadByteIs
<1>8. CASE ~p.done /\ b = 126
  <2>1. ReadByte(p, b) = IF p.inFrame /\ p.frameBuf # <<>>
                         THEN P(p.inFrame, p.escaped, p.frameBuf, TRUE)
                         ELSE P(TRUE, FALSE, <<>>, p.done)
    BY <1>8, ReadByteIs
  <2> QED BY <1>5, <2>1
<1>9. CASE ~p.done /\ b = 125 /\ p.inFrame
  <2>1. ReadByte(p, b) = P(p.inFrame, TRUE, p.frameBuf, p.done)
    BY <1>9, ReadByteIs
  <2> QED BY <1>5, <2>1
<1>10. CASE ~p.done /\ b \notin {125, 126} /\ p.inFrame
  <2>1. ReadByte(p, b) = IF Len(p.frameBuf) >= RxFrameMax THEN P(FALSE, FALSE, <<>>, p.done)
                         ELSE P(p.inFrame, FALSE, Append(p.frameBuf, c), p.done)
    BY <1>10, ReadByteIs DEF c
  <2> QED BY <1>5, <1>6, <2>1
<1> QED BY <1>7, <1>8, <1>9, <1>10

\* f holds the states of the parser up to each byte.
IsRun(f, p, s) ==
    /\ f \in [0..Len(s) -> Parsers]
    /\ f[0] = p
    /\ \A n \in 1..Len(s) : f[n] = ReadByte(f[n - 1], s[n])

\* A parser can read every chunk, byte by byte.
LEMMA RunExists ==
    ASSUME NEW p \in Parsers, NEW s \in Seq(Bytes)
    PROVE  \E f : IsRun(f, p, s)
<1>1. Len(s) \in Nat /\ \A i \in 1..Len(s) : s[i] \in Bytes
  BY LenProperties, ElementOfSeq
<1> DEFINE Upto(f, n) == /\ f \in [0..n -> Parsers]
                         /\ f[0] = p
                         /\ \A k \in 1..n : f[k] = ReadByte(f[k - 1], s[k])
           T == {n \in 0..Len(s) : \A f : ~Upto(f, n)}
<1>2. T \in SUBSET Nat /\ \A n : n \in T <=> n \in 0..Len(s) /\ \A f : ~Upto(f, n)
  BY <1>1
<1> HIDE DEF T
<1>3. CASE T = {}
  <2>1. PICK f : Upto(f, Len(s))
    BY <1>1, <1>2, <1>3
  <2> QED BY <2>1 DEF IsRun
<1>4. CASE T # {}
  <2>1. PICK n \in T : \A m \in T : n <= m
    BY <1>2, <1>4, LeastNat
  <2>2. n # 0
    <3>1. Upto([k \in 0..0 |-> p], 0)
      OBVIOUS
    <3> QED BY <1>2, <3>1
  <2>3. n - 1 \in 0..Len(s) /\ n \in 1..Len(s)
    BY <1>1, <1>2, <2>2
  <2>4. n - 1 \notin T
    BY <2>1, <2>3
  <2>5. PICK f : Upto(f, n - 1)
    BY <1>2, <2>3, <2>4
  <2>6. PICK q : q = ReadByte(f[n - 1], s[n])
    OBVIOUS
  <2>7. q \in Parsers
    BY <1>1, <2>3, <2>5, <2>6, ReadByteTyped
  <2> DEFINE g == [k \in 0..n |-> IF k = n THEN q ELSE f[k]]
  <2>8. g \in [0..n -> Parsers] /\ g[0] = p
    BY <2>3, <2>5, <2>7
  <2>9. ASSUME NEW k \in 1..n PROVE g[k] = ReadByte(g[k - 1], s[k])
    <3>1. k \in 0..n /\ k - 1 \in 0..n /\ k - 1 # n /\ (k # n => k \in 1..(n - 1))
      BY <2>3
    <3>2. g[k - 1] = f[k - 1] /\ g[k] = IF k = n THEN q ELSE f[k]
      BY <3>1
    <3> HIDE DEF g
    <3> QED BY <2>5, <2>6, <3>1, <3>2
  <2>10. Upto(g, n)
    BY <2>8, <2>9
  <2> QED BY <1>2, <2>1, <2>10
<1> QED BY <1>3, <1>4

\* Parse is where the run ends.
LEMMA ParseIs ==
    ASSUME NEW p \in Parsers, NEW s \in Seq(Bytes), NEW f, IsRun(f, p, s)
    PROVE  Parse(p, s) = f[Len(s)]
<1>1. Len(s) \in Nat
  BY LenProperties
<1> DEFINE Def(g) == [n \in 0..Len(s) |-> IF n = 0 THEN p ELSE ReadByte(g[n - 1], s[n])]
           h == CHOOSE g : g = Def(g)
<1>2. f = Def(f)
  BY <1>1 DEF IsRun
<1>3. h = Def(h)
  BY <1>2
<1> HIDE DEF h
<1>4. h[0] = p /\ \A n \in 1..Len(s) : h[n] = ReadByte(h[n - 1], s[n])
  BY <1>1, <1>3
<1> DEFINE T == {n \in 0..Len(s) : h[n] # f[n]}
<1>5. T \in SUBSET Nat /\ \A n : n \in T <=> n \in 0..Len(s) /\ h[n] # f[n]
  BY <1>1
<1> HIDE DEF T, Def
<1>6. CASE T # {}
  <2>1. PICK n \in T : \A m \in T : n <= m
    BY <1>5, <1>6, LeastNat
  <2>2. n # 0 /\ n \in 1..Len(s) /\ n - 1 \in 0..Len(s)
    BY <1>1, <1>4, <1>5 DEF IsRun
  <2>3. h[n - 1] = f[n - 1]
    BY <1>5, <2>1, <2>2
  <2> QED BY <1>4, <1>5, <2>2, <2>3 DEF IsRun
<1>7. Len(s) \in 0..Len(s)
  BY <1>1
<1>8. Parse(p, s) = h[Len(s)]
  BY DEF Parse, h, Def
<1> QED BY <1>5, <1>6, <1>7, <1>8

\* A chunk leaves a parser.
LEMMA ParseTyped ==
    ASSUME NEW p \in Parsers, NEW s \in Seq(Bytes)
    PROVE  Parse(p, s) \in Parsers
<1>1. PICK f : IsRun(f, p, s)
  BY RunExists
<1>2. Len(s) \in 0..Len(s)
  BY LenProperties
<1> QED BY <1>1, <1>2, ParseIs DEF IsRun

\* How the bytes are cut into chunks makes no difference.
LEMMA ParseConcat ==
    ASSUME NEW p \in Parsers, NEW s \in Seq(Bytes), NEW t \in Seq(Bytes)
    PROVE  Parse(p, s \o t) = Parse(Parse(p, s), t)
<1>1. PICK f : IsRun(f, p, s)
  BY RunExists
<1>2. PICK q : q = Parse(p, s)
  OBVIOUS
<1>3. Len(s) \in Nat /\ Len(t) \in Nat
  BY LenProperties
<1>4. q = f[Len(s)] /\ q \in Parsers
  BY <1>1, <1>2, ParseIs, ParseTyped
<1>5. PICK g : IsRun(g, q, t)
  BY <1>4, RunExists
<1>6. PICK u : u = s \o t
  OBVIOUS
<1>7. /\ u \in Seq(Bytes) /\ Len(u) = Len(s) + Len(t)
      /\ \A i \in 1..Len(s) + Len(t) : u[i] = IF i <= Len(s) THEN s[i] ELSE t[i - Len(s)]
  BY <1>6, ConcatProperties
<1> DEFINE h == [n \in 0..Len(s) + Len(t) |-> IF n <= Len(s) THEN f[n] ELSE g[n - Len(s)]]
<1>8. h \in [0..Len(u) -> Parsers] /\ h[0] = p
  BY <1>1, <1>3, <1>5, <1>7 DEF IsRun
<1>9. ASSUME NEW n \in 1..Len(u) PROVE h[n] = ReadByte(h[n - 1], u[n])
  <2>1. n \in 0..Len(s) + Len(t) /\ n - 1 \in 0..Len(s) + Len(t)
    BY <1>3, <1>7
  <2>2. CASE n <= Len(s)
    <3>1. h[n] = f[n] /\ h[n - 1] = f[n - 1] /\ u[n] = s[n] /\ n \in 1..Len(s)
      BY <1>3, <1>7, <2>1, <2>2
    <3> HIDE DEF h
    <3> QED BY <1>1, <3>1 DEF IsRun
  <2>3. CASE n > Len(s)
    <3>1. h[n] = g[n - Len(s)] /\ u[n] = t[n - Len(s)] /\ n - Len(s) \in 1..Len(t)
      BY <1>3, <1>7, <2>1, <2>3
    <3>2. h[n - 1] = g[(n - Len(s)) - 1]
      <4>1. h[n - 1] = IF n - 1 <= Len(s) THEN f[n - 1] ELSE g[(n - 1) - Len(s)]
        BY <2>1
      <4>2. (n - 1) - Len(s) = (n - Len(s)) - 1 /\ (n - 1 <= Len(s) => n - 1 = Len(s))
        BY <1>3, <1>7, <2>3
      <4>3. n - 1 = Len(s) => (n - Len(s)) - 1 = 0
        BY <1>3, <1>7
      <4> HIDE DEF h
      <4> QED BY <1>4, <1>5, <4>1, <4>2, <4>3 DEF IsRun
    <3> HIDE DEF h
    <3> QED BY <1>5, <3>1, <3>2 DEF IsRun
  <2> QED BY <1>3, <1>7, <2>2, <2>3
<1>10. IsRun(h, p, u)
  BY <1>8, <1>9 DEF IsRun
<1>11. h[Len(u)] = g[Len(t)]
  BY <1>3, <1>4, <1>5, <1>7 DEF IsRun
<1> HIDE DEF h
<1>12. Parse(p, u) = h[Len(u)] /\ Parse(q, t) = g[Len(t)]
  BY <1>4, <1>5, <1>7, <1>10, ParseIs
<1> QED BY <1>2, <1>6, <1>11, <1>12

\* What follows a complete frame in a chunk is not looked at.
LEMMA ParseDone ==
    ASSUME NEW p \in Parsers, p.done, NEW s \in Seq(Bytes)
    PROVE  Parse(p, s) = p
<1>1. Len(s) \in Nat
  BY LenProperties
<1>2. \A b : ReadByte(p, b) = p
  BY DEF ReadByte
<1>3. IsRun([n \in 0..Len(s) |-> p], p, s)
  BY <1>1, <1>2 DEF IsRun
<1> QED BY <1>1, <1>3, ParseIs

\* No bytes change nothing.
LEMMA ParseEmpty ==
    ASSUME NEW p \in Parsers
    PROVE  Parse(p, <<>>) = p
<1>1. IsRun([n \in 0..0 |-> p], p, <<>>)
  BY DEF IsRun
<1>2. <<>> \in Seq(Bytes) /\ Len(<<>>) = 0
  BY EmptySeq
<1> QED BY <1>1, <1>2, ParseIs

\* One byte is one step.
LEMMA ParseByte ==
    ASSUME NEW p \in Parsers, NEW b \in Bytes
    PROVE  Parse(p, <<b>>) = ReadByte(p, b)
<1>1. PICK q : q = ReadByte(p, b)
  OBVIOUS
<1>2. q \in Parsers
  BY <1>1, ReadByteTyped
<1>3. IsRun([n \in 0..1 |-> IF n = 0 THEN p ELSE q], p, <<b>>)
  <2>1. Len(<<b>>) = 1 /\ <<b>>[1] = b
    OBVIOUS
  <2> DEFINE f == [n \in 0..1 |-> IF n = 0 THEN p ELSE q]
  <2>2. f \in [0..1 -> Parsers] /\ f[0] = p /\ f[1] = q
    BY <1>2
  <2> HIDE DEF f
  <2>3. \A n \in 1..1 : f[n] = ReadByte(f[n - 1], <<b>>[n])
    BY <1>1, <2>1, <2>2
  <2> QED BY <2>1, <2>2, <2>3 DEF IsRun, f
<1>4. <<b>> \in Seq(Bytes) /\ Len(<<b>>) = 1
  OBVIOUS
<1> QED BY <1>1, <1>3, <1>4, ParseIs

\* Within a frame of which s has been read, and outside of all frames.
Inside(s) == P(TRUE, FALSE, s, FALSE)
\* A parser within a frame of which it has s, and one between two frames.
Outside == P(FALSE, FALSE, <<>>, FALSE)

\* A byte of the payload arrives as it was sent, escaped or not.
LEMMA ParseEscaped ==
    ASSUME NEW b \in Bytes
    PROVE  /\ Escaped(b) \in Seq(Bytes)
           /\ \A s \in Seq(Bytes) : Len(s) <= RxFrameMax =>
                 Parse(Inside(s), Escaped(b)) =
                    IF Len(s) >= RxFrameMax THEN Outside ELSE Inside(Append(s, b))
           /\ Parse(Outside, Escaped(b)) = Outside
<1>1. Outside \in Parsers /\ \A s \in Seq(Bytes) : Len(s) <= RxFrameMax => Inside(s) \in Parsers
  BY ParserIs DEF Outside, Inside
<1>2. /\ Outside.inFrame = FALSE /\ Outside.done = FALSE
      /\ \A s : /\ Inside(s).inFrame = TRUE /\ Inside(s).escaped = FALSE /\ Inside(s).frameBuf = s
                /\ Inside(s).done = FALSE
      /\ \A s : /\ P(TRUE, TRUE, s, FALSE).inFrame = TRUE /\ P(TRUE, TRUE, s, FALSE).escaped = TRUE
                /\ P(TRUE, TRUE, s, FALSE).frameBuf = s /\ P(TRUE, TRUE, s, FALSE).done = FALSE
  BY DEF Outside, Inside, P
<1>3. CASE b \notin {125, 126}
  <2>1. Escaped(b) = <<b>>
    BY <1>3 DEF Escaped, FRAME_START, FRAME_ESC
  <2>2. ASSUME NEW s \in Seq(Bytes), Len(s) <= RxFrameMax
        PROVE  Parse(Inside(s), Escaped(b)) =
                 IF Len(s) >= RxFrameMax THEN Outside ELSE Inside(Append(s, b))
    <3>1. PICK p : p = Inside(s)
      OBVIOUS
    <3>2. p \in Parsers /\ p.inFrame = TRUE /\ p.escaped = FALSE /\ p.frameBuf = s /\ p.done = FALSE
      BY <1>1, <1>2, <2>2, <3>1
    <3>3. Parse(p, <<b>>) = ReadByte(p, b)
      BY <3>2, ParseByte
    <3>4. ReadByte(p, b) = IF Len(p.frameBuf) >= RxFrameMax
                           THEN P(FALSE, FALSE, <<>>, p.done)
                           ELSE P(p.inFrame, FALSE,
                                  Append(p.frameBuf, IF p.escaped THEN Xor(b) ELSE b), p.done)
      BY <1>3, <3>2, ReadByteIs
    <3> QED BY <2>1, <3>1, <3>2, <3>3, <3>4 DEF Outside, Inside
  <2>3. Parse(Outside, Escaped(b)) = Outside
    <3>1. b # 126 /\ ~Outside.inFrame
      BY <1>2, <1>3
    <3>2. ReadByte(Outside, b) = Outside
      BY <1>1, <3>1, ReadByteIs
    <3> QED BY <1>1, <2>1, <3>2, ParseByte
  <2>4. Escaped(b) \in Seq(Bytes)
    BY <2>1
  <2> QED BY <2>2, <2>3, <2>4
<1>4. CASE b \in {125, 126}
  <2>1. PICK x : x = Xor(b)
    OBVIOUS
  <2>2. x \in Bytes /\ x \notin {125, 126} /\ Xor(x) = b /\ 125 \in Bytes
    BY <1>4, <2>1, XorTyped DEF Bytes
  <2>3. <<125>> \in Seq(Bytes) /\ <<x>> \in Seq(Bytes)
    BY <2>2
  <2>4. Escaped(b) = <<125>> \o <<x>>
    <3>1. Escaped(b) = <<125, x>>
      BY <1>4, <2>1 DEF Escaped, FRAME_START, FRAME_ESC
    <3>2. PICK u : u = <<125>> \o <<x>>
      OBVIOUS
    <3>3. Len(<<125>>) = 1 /\ Len(<<x>>) = 1 /\ <<125>>[1] = 125 /\ <<x>>[1] = x
      OBVIOUS
    <3>4. u \in Seq(Bytes) /\ Len(u) = 2 /\ u[1] = 125 /\ u[2] = x
      BY <2>3, <3>2, <3>3, ConcatProperties
    <3>5. PICK v : v = <<125, x>>
      OBVIOUS
    <3>6. v \in Seq(Bytes) /\ Len(v) = 2 /\ v[1] = 125 /\ v[2] = x
      BY <2>2, <3>5
    <3>7. u = v
      BY <3>4, <3>6, SeqEqual
    <3> QED BY <3>1, <3>2, <3>5, <3>7
  <2>5. Escaped(b) \in Seq(Bytes)
    BY <2>3, <2>4, ConcatProperties
  <2>6. \A p \in Parsers : Parse(p, Escaped(b)) = ReadByte(ReadByte(p, 125), x)
    <3> SUFFICES ASSUME NEW p \in Parsers PROVE Parse(p, Escaped(b)) = ReadByte(ReadByte(p, 125), x)
      OBVIOUS
    <3>1. PICK q : q = ReadByte(p, 125)
      OBVIOUS
    <3>2. q \in Parsers
      BY <2>2, <3>1, ReadByteTyped
    <3>3. Parse(p, <<125>>) = q /\ Parse(q, <<x>>) = ReadByte(q, x)
      BY <2>2, <3>1, <3>2, ParseByte
    <3>4. Parse(p, <<125>> \o <<x>>) = Parse(Parse(p, <<125>>), <<x>>)
      BY <2>3, ParseConcat, ZenonT(40)
    <3> QED BY <2>4, <3>1, <3>3, <3>4
  <2>7. ASSUME NEW s \in Seq(Bytes), Len(s) <= RxFrameMax
        PROVE  Parse(Inside(s), Escaped(b)) =
                 IF Len(s) >= RxFrameMax THEN Outside ELSE Inside(Append(s, b))
    <3>1. PICK p : p = Inside(s)
      OBVIOUS
    <3>2. p \in Parsers /\ p.inFrame = TRUE /\ p.escaped = FALSE /\ p.frameBuf = s /\ p.done = FALSE
      BY <1>1, <1>2, <2>7, <3>1
    <3>3. PICK q : q = P(TRUE, TRUE, s, FALSE)
      OBVIOUS
    <3>4. q \in Parsers /\ q.inFrame = TRUE /\ q.escaped = TRUE /\ q.frameBuf = s /\ q.done = FALSE
      BY <1>2, <2>7, <3>3, ParserIs
    <3>5. ReadByte(p, 125) = q
      BY <2>2, <3>2, <3>3, ReadByteIs, ZenonT(40)
    <3>6. ReadByte(q, x) = IF Len(q.frameBuf) >= RxFrameMax
                           THEN P(FALSE, FALSE, <<>>, q.done)
                           ELSE P(q.inFrame, FALSE,
                                  Append(q.frameBuf, IF q.escaped THEN Xor(x) ELSE x), q.done)
      BY <2>2, <3>4, ReadByteIs
    <3> QED BY <2>2, <2>6, <3>1, <3>2, <3>4, <3>5, <3>6 DEF Outside, Inside
  <2>8. Parse(Outside, Escaped(b)) = Outside
    <3>1. ~Outside.inFrame
      BY <1>2
    <3>0. PICK y : y = 125
      OBVIOUS
    <3>2. ReadByte(Outside, y) = Outside
      <4>1. y # 126 /\ y \in Bytes
        BY <2>2, <3>0
      <4> QED BY <1>1, <3>1, <4>1, ReadByteIs
    <3>3. x # 126
      BY <2>2
    <3>4. ReadByte(Outside, x) = Outside
      BY <1>1, <2>2, <3>1, <3>3, ReadByteIs
    <3> QED BY <1>1, <2>6, <3>0, <3>2, <3>4
  <2> QED BY <2>5, <2>7, <2>8
<1> QED BY <1>3, <1>4

\* The escaped payload, byte by byte.
IsStuffing(f, payload) ==
    /\ f \in [0..Len(payload) -> Seq(Bytes)]
    /\ f[0] = <<>>
    /\ \A n \in 1..Len(payload) : f[n] = f[n - 1] \o Escaped(payload[n])

\* A payload can be escaped byte by byte.
LEMMA StuffingExists ==
    ASSUME NEW payload \in Seq(Bytes)
    PROVE  \E f : IsStuffing(f, payload)
<1>1. Len(payload) \in Nat /\ \A i \in 1..Len(payload) : payload[i] \in Bytes
  BY LenProperties, ElementOfSeq
<1> DEFINE Upto(f, n) == /\ f \in [0..n -> Seq(Bytes)]
                         /\ f[0] = <<>>
                         /\ \A k \in 1..n : f[k] = f[k - 1] \o Escaped(payload[k])
           T == {n \in 0..Len(payload) : \A f : ~Upto(f, n)}
<1> HIDE DEF Upto
<1>2. T \in SUBSET Nat /\ \A n : n \in T <=> n \in 0..Len(payload) /\ \A f : ~Upto(f, n)
  BY <1>1
<1> HIDE DEF T
<1>3. CASE T = {}
  <2>1. PICK f : Upto(f, Len(payload))
    BY <1>1, <1>2, <1>3
  <2> QED BY <2>1 DEF IsStuffing, Upto
<1>4. CASE T # {}
  <2>1. PICK n \in T : \A m \in T : n <= m
    BY <1>2, <1>4, LeastNat
  <2>2. n # 0
    <3>0. <<>> \in Seq(Bytes)
      BY EmptySeq
    <3>1. Upto([k \in 0..0 |-> <<>>], 0)
      BY <3>0 DEF Upto
    <3> QED BY <1>2, <3>1
  <2>3. n - 1 \in 0..Len(payload) /\ n \in 1..Len(payload)
    BY <1>1, <1>2, <2>2
  <2>4. n - 1 \notin T
    BY <2>1, <2>3
  <2>5. PICK f : Upto(f, n - 1)
    BY <1>2, <2>3, <2>4
  <2>6. PICK q : q = f[n - 1] \o Escaped(payload[n])
    OBVIOUS
  <2>7. q \in Seq(Bytes)
    <3>1. f[n - 1] \in Seq(Bytes) /\ Escaped(payload[n]) \in Seq(Bytes)
      BY <1>1, <2>3, <2>5, ParseEscaped DEF Upto
    <3> QED BY <2>6, <3>1, ConcatProperties
  <2> DEFINE g == [k \in 0..n |-> IF k = n THEN q ELSE f[k]]
  <2>8. g \in [0..n -> Seq(Bytes)] /\ g[0] = <<>>
    BY <2>3, <2>5, <2>7 DEF Upto
  <2>9. ASSUME NEW k \in 1..n PROVE g[k] = g[k - 1] \o Escaped(payload[k])
    <3>1. k \in 0..n /\ k - 1 \in 0..n /\ k - 1 # n /\ (k # n => k \in 1..(n - 1))
      BY <2>3
    <3>2. g[k - 1] = f[k - 1] /\ g[k] = IF k = n THEN q ELSE f[k]
      BY <3>1
    <3> HIDE DEF g
    <3> QED BY <2>5, <2>6, <3>1, <3>2 DEF Upto
  <2>10. Upto(g, n)
    BY <2>8, <2>9 DEF Upto
  <2> QED BY <1>2, <2>1, <2>10
<1> QED BY <1>3, <1>4

\* The escaped payload is where the stuffing ends.
LEMMA FlattenIs ==
    ASSUME NEW payload \in Seq(Bytes), NEW f, IsStuffing(f, payload)
    PROVE  FlattenSeq([i \in DOMAIN payload |-> Escaped(payload[i])]) = f[Len(payload)]
<1>1. Len(payload) \in Nat /\ DOMAIN payload = 1..Len(payload)
      /\ \A i \in 1..Len(payload) : Escaped(payload[i]) \in Seq(Bytes)
  BY LenProperties, ElementOfSeq, ParseEscaped
<1> DEFINE seqs == [i \in DOMAIN payload |-> Escaped(payload[i])]
           N == Len(payload)
<1>2. seqs \in Seq(Seq(Bytes)) /\ Len(seqs) = N /\ \A i \in 1..N : seqs[i] = Escaped(payload[i])
  BY <1>1
<1> HIDE DEF seqs
<1>3. CASE N = 0
  <2>1. seqs = <<>>
    BY <1>2, <1>3
  <2>2. FlattenSeq(seqs) = seqs
    BY <1>2, <1>3 DEF FlattenSeq
  <2> QED BY <1>3, <2>1, <2>2 DEF IsStuffing, seqs
<1>4. CASE N # 0
  <2> DEFINE Def(g) == [i \in 1..N |-> IF i = 1 THEN seqs[i] ELSE g[i - 1] \o seqs[i]]
             h == CHOOSE g : g = Def(g)
             f1 == [i \in 1..N |-> f[i]]
  <2>1. f1 = Def(f1)
    <3>1. ASSUME NEW i \in 1..N PROVE f1[i] = IF i = 1 THEN seqs[i] ELSE f1[i - 1] \o seqs[i]
      <4>1. f[i] = f[i - 1] \o seqs[i] /\ f1[i] = f[i]
        BY <1>2 DEF IsStuffing
      <4>2. CASE i = 1
        <5>1. <<>> \o seqs[i] = seqs[i]
          BY <1>1, <1>2, ConcatEmptySeq
        <5>2. f[i - 1] = <<>>
          BY <4>2 DEF IsStuffing
        <5> HIDE DEF f1
        <5> QED BY <4>1, <4>2, <5>1, <5>2
      <4>3. CASE i # 1
        <5>1. f1[i - 1] = f[i - 1]
          BY <1>1, <4>3
        <5> QED BY <4>1, <4>3, <5>1
      <4> QED BY <4>2, <4>3
    <3> QED BY <3>1
  <2>2. h = Def(h)
    BY <2>1
  <2> HIDE DEF h
  <2>3. \A i \in 1..N : h[i] = IF i = 1 THEN seqs[i] ELSE h[i - 1] \o seqs[i]
    BY <2>2
  <2>4. \A i \in 1..N : f1[i] = IF i = 1 THEN seqs[i] ELSE f1[i - 1] \o seqs[i]
    BY <2>1
  <2> HIDE DEF f1, Def
  <2> DEFINE T == {n \in 1..N : h[n] # f1[n]}
  <2>5. T \in SUBSET Nat /\ \A n : n \in T <=> n \in 1..N /\ h[n] # f1[n]
    BY <1>1
  <2> HIDE DEF T
  <2>6. T = {}
    <3> SUFFICES ASSUME T # {} PROVE FALSE
      OBVIOUS
    <3>1. PICK n \in T : \A m \in T : n <= m
      BY <2>5, LeastNat
    <3>2. n \in 1..N /\ n # 1 /\ n - 1 \in 1..N
      BY <1>1, <2>3, <2>4, <2>5
    <3>3. h[n - 1] = f1[n - 1]
      BY <2>5, <3>1, <3>2
    <3> QED BY <2>3, <2>4, <2>5, <3>2, <3>3
  <2>7. h[N] = f1[N] /\ N \in 1..N
    <3>1. N \in 1..N
      BY <1>1, <1>4
    <3> HIDE DEF N
    <3> QED BY <2>5, <2>6, <3>1
  <2>8. f1[N] = f[N]
    BY <2>7 DEF f1
  <2>9. FlattenSeq(seqs) = h[N]
    BY <1>2, <1>4 DEF FlattenSeq, h, Def
  <2> QED BY <2>7, <2>8, <2>9 DEF seqs
<1> QED BY <1>3, <1>4

\* Within a frame, the parser has what was sent of it, until it is too long.
LEMMA ParsePayload ==
    ASSUME NEW payload \in Seq(Bytes), NEW f, IsStuffing(f, payload), NEW n \in 0..Len(payload)
    PROVE  Parse(Inside(<<>>), f[n]) =
              IF n <= RxFrameMax THEN Inside(SubSeq(payload, 1, n)) ELSE Outside
<1>1. Len(payload) \in Nat /\ \A i \in 1..Len(payload) : payload[i] \in Bytes
  BY LenProperties, ElementOfSeq
<1>2. <<>> \in Seq(Bytes) /\ Inside(<<>>) \in Parsers
  BY ParserIs DEF Inside
<1> DEFINE Good(k) == Parse(Inside(<<>>), f[k]) =
                        IF k <= RxFrameMax THEN Inside(SubSeq(payload, 1, k)) ELSE Outside
           T == {k \in 0..Len(payload) : ~Good(k)}
<1> HIDE DEF Good
<1>3. T \in SUBSET Nat /\ \A k : k \in T <=> k \in 0..Len(payload) /\ ~Good(k)
  BY <1>1
<1> HIDE DEF T
<1>4. T = {}
  <2> SUFFICES ASSUME T # {} PROVE FALSE
    OBVIOUS
  <2>1. PICK k \in T : \A m \in T : k <= m
    BY <1>3, LeastNat
  <2>2. k # 0
    <3> SUFFICES ASSUME k = 0 PROVE FALSE
      OBVIOUS
    <3>1. SubSeq(payload, 1, 0) = <<>>
      BY SubSeqEmpty
    <3>2. Parse(Inside(<<>>), <<>>) = Inside(<<>>)
      BY <1>2, ParseEmpty
    <3>3. f[0] = <<>> /\ 0 <= RxFrameMax
      BY LinkAssumption DEF IsStuffing
    <3>4. Good(0)
      BY <3>1, <3>2, <3>3 DEF Good
    <3> QED BY <1>3, <2>1, <3>4
  <2>3. k \in 1..Len(payload) /\ k - 1 \in 0..Len(payload) /\ k \in Nat
    BY <1>1, <1>3, <2>1, <2>2
  <2>4. Good(k - 1)
    <3>1. k - 1 \notin T
      BY <2>1, <2>3
    <3> QED BY <1>3, <2>3, <3>1
  <2>5. PICK e : e = Escaped(payload[k])
    OBVIOUS
  <2>6. f[k] = f[k - 1] \o e /\ f[k - 1] \in Seq(Bytes) /\ e \in Seq(Bytes)
    BY <1>1, <2>3, <2>5, ParseEscaped DEF IsStuffing
  <2>7. Parse(Inside(<<>>), f[k]) = Parse(Parse(Inside(<<>>), f[k - 1]), e)
    BY <1>2, <2>6, ParseConcat
  <2>8. CASE k - 1 <= RxFrameMax
    <3>1. PICK s : s = SubSeq(payload, 1, k - 1)
      OBVIOUS
    <3>2. s \in Seq(Bytes) /\ Len(s) = k - 1
      BY <1>1, <2>3, <3>1, SubSeqProperties
    <3>3. Parse(Inside(<<>>), f[k - 1]) = Inside(s)
      BY <2>4, <2>8, <3>1 DEF Good
    <3>4. Parse(Inside(s), e) =
             IF Len(s) >= RxFrameMax THEN Outside ELSE Inside(Append(s, payload[k]))
      BY <1>1, <2>3, <2>5, <2>8, <3>2, ParseEscaped
    <3>5. Append(s, payload[k]) = SubSeq(payload, 1, k)
      <4>1. SubSeq(payload, 1, k) = s \o <<payload[k]>>
        BY <1>1, <2>3, <3>1, SubSeqRecursiveSecond
      <4> QED BY <1>1, <2>3, <3>2, <4>1, AppendIsConcat
    <3>6. Len(s) >= RxFrameMax <=> ~(k <= RxFrameMax)
      BY <2>3, <3>2, LinkAssumption
    <3>7. Good(k)
      BY <2>7, <3>3, <3>4, <3>5, <3>6 DEF Good
    <3> QED BY <1>3, <2>1, <3>7
  <2>9. CASE ~(k - 1 <= RxFrameMax)
    <3>1. Parse(Inside(<<>>), f[k - 1]) = Outside
      BY <2>4, <2>9 DEF Good
    <3>2. Parse(Outside, e) = Outside
      BY <1>1, <2>3, <2>5, ParseEscaped
    <3>3. ~(k <= RxFrameMax)
      BY <2>3, <2>9, LinkAssumption
    <3>4. Good(k)
      BY <2>7, <3>1, <3>2, <3>3 DEF Good
    <3> QED BY <1>3, <2>1, <3>4
  <2> QED BY <2>8, <2>9
<1> QED BY <1>3, <1>4 DEF Good

\* What readFrame has no room for, or nothing in.
Skipped(payload) == payload = <<>> \/ Len(payload) > RxFrameMax

\* A parser that has nothing finds the frame, if it has room for it.
LEMMA ParseFramed ==
    ASSUME NEW p \in Parsers, ~p.done, p.frameBuf = <<>>, NEW payload \in Seq(Bytes),
           NEW q, q = Parse(p, Framed(payload))
    PROVE  /\ Framed(payload) \in Seq(Bytes)
           /\ q \in Parsers
           /\ Skipped(payload) => ~q.done /\ q.frameBuf = <<>>
           /\ ~Skipped(payload) => q.done /\ q.frameBuf = payload
<1>1. PICK f : IsStuffing(f, payload)
  BY StuffingExists
<1>2. PICK F : F = f[Len(payload)]
  OBVIOUS
<1>3. Len(payload) \in Nat /\ Len(payload) \in 0..Len(payload)
  BY LenProperties
<1>4. F \in Seq(Bytes)
  BY <1>1, <1>2, <1>3 DEF IsStuffing
<1>5. <<126>> \in Seq(Bytes) /\ 126 \in Bytes
  BY DEF Bytes
<1>6. Framed(payload) = (<<126>> \o F) \o <<126>>
  <2>1. FlattenSeq([i \in DOMAIN payload |-> Escaped(payload[i])]) = F
    BY <1>1, <1>2, FlattenIs
  <2> QED BY <2>1 DEF Framed, FRAME_START
<1>7. <<126>> \o F \in Seq(Bytes)
  BY <1>4, <1>5, ConcatProperties
<1>8. Framed(payload) \in Seq(Bytes)
  BY <1>5, <1>6, <1>7, ConcatProperties
<1>9. q = Parse(Parse(Parse(p, <<126>>), F), <<126>>)
  <2>0. PICK G, b : G = <<126>> \o F /\ b = <<126>>
    OBVIOUS
  <2>1. q = Parse(Parse(p, <<126>> \o F), <<126>>)
    <3>1. q = Parse(p, G \o b) /\ G \in Seq(Bytes) /\ b \in Seq(Bytes)
      BY <1>5, <1>6, <1>7, <2>0
    <3>2. Parse(p, G \o b) = Parse(Parse(p, G), b)
      BY <3>1, ParseConcat
    <3> QED BY <2>0, <3>1, <3>2
  <2>2. Parse(p, <<126>> \o F) = Parse(Parse(p, <<126>>), F)
    BY <1>4, <1>5, ParseConcat, ZenonT(40)
  <2> QED BY <2>1, <2>2
<1>10. Parse(p, <<126>>) = Inside(<<>>)
  <2>1. ReadByte(p, 126) = P(TRUE, FALSE, <<>>, p.done)
    BY <1>5, ReadByteIs
  <2>2. p.done = FALSE
    BY ParserIs
  <2> QED BY <1>5, <2>1, <2>2, ParseByte DEF Inside
<1>11. PICK r : r = Parse(Inside(<<>>), F)
  OBVIOUS
<1>12. r = IF Len(payload) <= RxFrameMax THEN Inside(payload) ELSE Outside
  BY <1>1, <1>2, <1>3, <1>11, ParsePayload, SubSeqFull
<1>13. r \in Parsers
  BY <1>4, <1>11, ParseTyped, ParserIs DEF Inside
<1>14. q = ReadByte(r, 126)
  BY <1>5, <1>9, <1>10, <1>11, <1>13, ParseByte
<1>15. q \in Parsers
  BY <1>5, <1>13, <1>14, ReadByteTyped
<1>16. \A s, d : P(TRUE, FALSE, s, d).frameBuf = s /\ P(TRUE, FALSE, s, d).done = d
  BY DEF P
<1>17. Inside(payload).inFrame = TRUE /\ Inside(payload).escaped = FALSE
       /\ Inside(payload).frameBuf = payload /\ Inside(payload).done = FALSE
       /\ Outside.inFrame = FALSE /\ Outside.done = FALSE
  BY DEF Inside, Outside, P
<1>18. r.done = FALSE
  BY <1>12, <1>17
<1>19. q = IF r.inFrame /\ r.frameBuf # <<>> THEN P(r.inFrame, r.escaped, r.frameBuf, TRUE)
           ELSE P(TRUE, FALSE, <<>>, r.done)
  BY <1>5, <1>13, <1>14, <1>18, ReadByteIs
<1>20. CASE Skipped(payload)
  <2>1. payload = <<>> => Len(payload) <= RxFrameMax
    BY EmptySeq, LinkAssumption
  <2>2. ~(r.inFrame /\ r.frameBuf # <<>>)
    BY <1>3, <1>12, <1>17, <1>20, <2>1, LinkAssumption DEF Skipped
  <2>3. q = P(TRUE, FALSE, <<>>, FALSE)
    BY <1>18, <1>19, <2>2
  <2> QED BY <1>8, <1>15, <1>16, <1>20, <2>3
<1>21. CASE ~Skipped(payload)
  <2>1. r = Inside(payload) /\ payload # <<>>
    BY <1>3, <1>12, <1>21, LinkAssumption DEF Skipped
  <2>2. q = P(TRUE, FALSE, payload, TRUE)
    BY <1>17, <1>19, <2>1
  <2> QED BY <1>8, <1>15, <1>16, <1>21, <2>2
<1> QED BY <1>20, <1>21

----------------------------------------------------------------------------
\* The parser of the interface between two calls of readFrame.
Here(r) == P(r.inFrame, r.escaped, r.frameBuf, FALSE)

\* What becomes of the frames sent so far, of which the parser will be at p.
Foretold(p, sent) ==
    IF p.done
    THEN \E i \in DOMAIN sent : p.frameBuf = sent[i] /\ \A j \in 1..(i - 1) : Skipped(sent[j])
    ELSE p.frameBuf = <<>> /\ \A j \in DOMAIN sent : Skipped(sent[j])

\* The first frame is decided by the bytes that are on their way.
FrameInv ==
    /\ tcp.state # "connected" => rx = Fresh
    /\ tcp.state = "connecting" => stream = <<>> /\ framed = <<>> /\ received = <<>>
    /\ tcp.state = "connected" /\ received = <<>> /\ (stream # <<>> \/ ~hungUp) =>
          Foretold(Parse(Here(rx), stream), framed)
    /\ FirstFrameExact

\* The inductive invariant of the interfaces.
LinkInv == LinkTypeOK /\ heard + Len(udp.inbox) <= Datagrams /\ FrameInv

\* Before the first connection there is nothing to keep.
LEMMA LinkInitInv == LinkInit => LinkInv
<1> SUFFICES ASSUME LinkInit PROVE LinkInv
  OBVIOUS
<1>3. PICK e : e = <<>> /\ (\A S : e \in Seq(S)) /\ Len(e) = 0
  BY EmptySeq
<1>4. PICK on \in BOOLEAN : udp = [online |-> on, inbox |-> e]
  BY <1>3 DEF LinkInit
<1>5. udp \in [online : BOOLEAN, inbox : Seq({0, 1})] /\ udp.inbox = e
  BY <1>3, <1>4
<1>6. rx \in [inFrame : BOOLEAN, escaped : BOOLEAN, frameBuf : Seq(0..255)] /\ rx.frameBuf = e
  BY <1>3 DEF LinkInit, Fresh
<1>7. /\ tcp \in [state : {"idle", "connecting", "connected", "failed"}, socket : BOOLEAN,
                  attempt : {"fresh", "due"}, lastRx : {"never", "fresh", "old"}]
      /\ tcp.socket <=> tcp.state \in {"connecting", "connected"}
  BY DEF LinkInit
<1>8. stream \in Seq(0..255) /\ framed \in Seq(Payloads) /\ received \in Seq(Seq(0..255))
  BY <1>3 DEF LinkInit
<1>9. links = 0 /\ heard = 0 /\ hungUp = FALSE /\ draining = FALSE
  BY DEF LinkInit
<1>10. 0 <= RxFrameMax /\ 0 \in 0..MaxLinks /\ 0 \in 0..Datagrams /\ 0 + 0 <= Datagrams
  BY LinkAssumption
<1>1. LinkTypeOK /\ heard + Len(udp.inbox) <= Datagrams
  <2>1. LinkTypeOK
    BY <1>3, <1>5, <1>6, <1>7, <1>8, <1>9, <1>10 DEF LinkTypeOK
  <2> QED BY <1>3, <1>5, <1>9, <1>10, <2>1
<1>2. FrameInv
  BY DEF LinkInit, FrameInv, FirstFrameExact
<1> QED BY <1>1, <1>2 DEF LinkInv

\* The steps that leave the frames alone.
Untouched == /\ UNCHANGED <<rx, stream, framed, received>>
             /\ (tcp.state = "connected") = (tcp'.state = "connected")
             /\ tcp'.state = "connecting" => tcp.state = "connecting"
             /\ hungUp => hungUp'

\* The steps that leave the bytes alone keep the frames.
LEMMA UntouchedFrames == FrameInv /\ Untouched => FrameInv'
BY DEF FrameInv, FirstFrameExact, Untouched

\* The frames a connection starts with.
LEMMA NoFrames ==
    ASSUME rx' = Fresh, stream' = <<>>, framed' = <<>>, received' = <<>>
    PROVE  FrameInv'
<1>1. Here(Fresh) \in Parsers /\ Here(Fresh).done = FALSE /\ Here(Fresh).frameBuf = <<>>
  <2>1. Here(Fresh) = P(FALSE, FALSE, <<>>, FALSE)
    BY DEF Here, Fresh
  <2> QED BY <2>1, ParserIs DEF P
<1>2. Parse(Here(Fresh), <<>>) = Here(Fresh)
  BY <1>1, ParseEmpty
<1>3. Foretold(Here(Fresh), <<>>)
  BY <1>1 DEF Foretold
<1> QED BY <1>2, <1>3 DEF FrameInv, FirstFrameExact

\* What begin_read starts from is a parser.
LEMMA HereIs == LinkTypeOK => Here(rx) \in Parsers /\ Here(rx).done = FALSE
<1> SUFFICES ASSUME LinkTypeOK PROVE Here(rx) \in Parsers /\ Here(rx).done = FALSE
  OBVIOUS
<1>1. /\ rx.inFrame \in BOOLEAN /\ rx.escaped \in BOOLEAN /\ rx.frameBuf \in Seq(Bytes)
      /\ Len(rx.frameBuf) <= RxFrameMax
  BY DEF LinkTypeOK, Bytes
<1> QED BY <1>1, ParserIs DEF Here, P

\* The fields of tcp.
TcpOK(t) ==
    /\ t \in [state : {"idle", "connecting", "connected", "failed"}, socket : BOOLEAN,
              attempt : {"fresh", "due"}, lastRx : {"never", "fresh", "old"}]
    /\ t.socket <=> t.state \in {"connecting", "connected"}

\* The state with the fields of the interfaces unchanged, and back.
LEMMA LinkParts ==
    ASSUME LinkTypeOK
    PROVE  /\ TcpOK(tcp) /\ links \in Nat /\ heard \in Nat /\ Len(rx.frameBuf) \in Nat
           /\ Len(udp.inbox) \in Nat /\ udp.inbox \in Seq({0, 1})
BY LenProperties, LinkAssumption DEF LinkTypeOK, TcpOK

\* The types when the other end hangs up.
LEMMA HangUpTypes ==
    ASSUME LinkTypeOK, heard + Len(udp.inbox) <= Datagrams, HangUp
    PROVE  LinkTypeOK' /\ (heard + Len(udp.inbox) <= Datagrams)'
<1>1. TcpOK(tcp') /\ tcp'.state = "idle"
  BY DEF LinkTypeOK, HangUp, TcpOK
<1>2. rx' \in [inFrame : BOOLEAN, escaped : BOOLEAN, frameBuf : Seq(0..255)] /\ Len(rx'.frameBuf) = 0
  <2>1. PICK e : e = <<>> /\ e \in Seq(0..255) /\ Len(e) = 0
    BY EmptySeq
  <2>2. rx' = [inFrame |-> FALSE, escaped |-> FALSE, frameBuf |-> e]
    BY <2>1 DEF HangUp, Fresh
  <2> QED BY <2>1, <2>2
<1>3. draining' = FALSE /\ stream' \in Seq(0..255)
  BY EmptySeq DEF HangUp
<1>4. UNCHANGED <<hungUp, framed, received, links, udp, heard>>
  BY DEF HangUp, udpVars
<1>5. 0 <= RxFrameMax
  BY LinkAssumption
<1> QED BY <1>1, <1>2, <1>3, <1>4, <1>5 DEF LinkTypeOK, TcpOK

\* The types when the interface connects again.
LEMMA BeginConnectTypes ==
    ASSUME LinkTypeOK, heard + Len(udp.inbox) <= Datagrams, BeginConnect, ~draining,
           UNCHANGED <<rx, draining, udpVars>>
    PROVE  LinkTypeOK' /\ (heard + Len(udp.inbox) <= Datagrams)'
<1>1. UNCHANGED <<rx, draining, udp, heard>>
  BY DEF udpVars
<1>2. CASE /\ tcp' = [tcp EXCEPT !.state = "failed", !.socket = FALSE, !.attempt = "fresh"]
           /\ UNCHANGED <<seedVars, received, links>>
  <2>1. TcpOK(tcp')
    BY <1>2 DEF LinkTypeOK, TcpOK
  <2>2. UNCHANGED <<stream, hungUp, framed, received, links>>
    BY <1>2 DEF seedVars
  <2> QED BY <1>1, <2>1, <2>2 DEF LinkTypeOK, TcpOK
<1>3. ASSUME links < MaxLinks, links' = links + 1, NEW s \in {"connecting", "connected"},
             tcp' = [tcp EXCEPT !.state = s, !.socket = TRUE, !.attempt = "fresh"], NewStream
      PROVE  LinkTypeOK' /\ (heard + Len(udp.inbox) <= Datagrams)'
  <2>1. TcpOK(tcp')
    BY <1>3 DEF LinkTypeOK, TcpOK
  <2>2. /\ stream' \in Seq(0..255) /\ framed' \in Seq(Payloads) /\ received' \in Seq(Seq(0..255))
        /\ hungUp' = FALSE
    BY <1>3, EmptySeq DEF NewStream
  <2>3. links' \in 0..MaxLinks
    BY <1>3, LinkAssumption DEF LinkTypeOK
  <2>4. draining' = FALSE
    BY <1>1 DEF LinkTypeOK
  <2> QED BY <1>1, <2>1, <2>2, <2>3, <2>4 DEF LinkTypeOK, TcpOK
<1> QED BY <1>2, <1>3 DEF BeginConnect

\* What readFrame does with the first n bytes of the stream.
LEMMA ReadFrameIs ==
    ASSUME LinkTypeOK, NEW n \in 1..Len(stream), NEW p, p = Parsed(SubSeq(stream, 1, n)),
           NEW c, c = SubSeq(stream, 1, n), NEW t, t = SubSeq(stream, n + 1, Len(stream))
    PROVE  /\ c \in Seq(Bytes) /\ t \in Seq(Bytes) /\ stream \in Seq(Bytes) /\ stream # <<>>
           /\ p = Parse(Here(rx), c) /\ p \in Parsers
           /\ Parse(Here(rx), stream) = Parse(p, t)
<1>1. stream \in Seq(Bytes)
  BY DEF LinkTypeOK, Bytes
<1>2. Len(stream) \in Nat /\ \A i \in 1..Len(stream) : stream[i] \in Bytes
  BY <1>1, LenProperties, ElementOfSeq
<1>3. stream # <<>>
  BY <1>2, EmptySeq
<1>4. c \in Seq(Bytes) /\ t \in Seq(Bytes)
  BY <1>2, SubSeqProperties
<1>5. stream = c \o t
  <2>1. SubSeq(stream, 1, n) \o SubSeq(stream, n + 1, Len(stream)) = SubSeq(stream, 1, Len(stream))
    BY <1>1, <1>2, ConcatAdjacentSubSeq
  <2>2. SubSeq(stream, 1, Len(stream)) = stream
    BY <1>1, SubSeqFull
  <2> QED BY <2>1, <2>2
<1>6. Here(rx) \in Parsers
  BY HereIs
<1>7. p = Parse(Here(rx), c)
  BY DEF Parsed, Here, P
<1>8. p \in Parsers
  BY <1>4, <1>6, <1>7, ParseTyped
<1>9. Parse(Here(rx), c \o t) = Parse(p, t)
  BY <1>4, <1>6, <1>7, ParseConcat
<1> QED BY <1>1, <1>3, <1>4, <1>5, <1>7, <1>8, <1>9

\* The types when a chunk has been read.
LEMMA ReadFrameTypes ==
    ASSUME LinkTypeOK, heard + Len(udp.inbox) <= Datagrams, ReadFrame
    PROVE  LinkTypeOK' /\ (heard + Len(udp.inbox) <= Datagrams)'
<1>1. PICK n, p :
         /\ n \in 1..Len(stream)
         /\ p = Parsed(SubSeq(stream, 1, n))
         /\ stream' = SubSeq(stream, n + 1, Len(stream))
         /\ rx' = [inFrame |-> p.inFrame, escaped |-> p.escaped, frameBuf |-> p.frameBuf]
         /\ draining' = p.done
         /\ IF p.done
            THEN /\ received' = Append(received, p.frameBuf)
                 /\ tcp' = [tcp EXCEPT !.lastRx = "fresh"]
            ELSE UNCHANGED <<received, tcp>>
  BY DEF ReadFrame
<1>2. UNCHANGED <<hungUp, framed, links, udp, heard>> /\ draining
  BY DEF ReadFrame, udpVars
<1>3. p \in Parsers /\ stream' \in Seq(Bytes)
  BY <1>1, ReadFrameIs
<1>4. /\ p.inFrame \in BOOLEAN /\ p.escaped \in BOOLEAN /\ p.done \in BOOLEAN
      /\ p.frameBuf \in Seq(0..255) /\ Len(p.frameBuf) <= RxFrameMax
  BY <1>3, ParserIs DEF Bytes
<1>5. /\ rx' \in [inFrame : BOOLEAN, escaped : BOOLEAN, frameBuf : Seq(0..255)]
      /\ Len(rx'.frameBuf) <= RxFrameMax
  BY <1>1, <1>4
<1>6. TcpOK(tcp') /\ tcp'.state = tcp.state
  BY <1>1, <1>4, ZenonT(40) DEF LinkTypeOK, TcpOK
<1>7. received' \in Seq(Seq(0..255))
  <2>1. Append(received, p.frameBuf) \in Seq(Seq(0..255))
    BY <1>4, AppendProperties DEF LinkTypeOK
  <2> QED BY <1>1, <2>1 DEF LinkTypeOK
<1>8. draining' => tcp'.state = "connected"
  BY <1>2, <1>6 DEF LinkTypeOK
<1>9. stream' \in Seq(0..255)
  BY <1>3 DEF Bytes
<1> QED BY <1>2, <1>5, <1>6, <1>7, <1>8, <1>9 DEF LinkTypeOK, TcpOK

\* The types when the UDP interface runs.
LEMMA UdpTypes ==
    ASSUME LinkTypeOK, heard + Len(udp.inbox) <= Datagrams, UdpLoop
    PROVE  LinkTypeOK' /\ (heard + Len(udp.inbox) <= Datagrams)'
<1> DEFINE Stops == {i \in DOMAIN udp.inbox : udp.inbox[i] = 0}
           k == IF Stops = {} THEN Len(udp.inbox) ELSE CHOOSE i \in Stops : \A j \in Stops : i <= j
<1>1. udp.inbox \in Seq({0, 1}) /\ Len(udp.inbox) \in Nat /\ DOMAIN udp.inbox = 1..Len(udp.inbox)
      /\ \A i \in 1..Len(udp.inbox) : udp.inbox[i] \in {0, 1}
  <2>1. udp.inbox \in Seq({0, 1})
    BY DEF LinkTypeOK
  <2> QED BY <2>1, LenProperties, ElementOfSeq
<1>2. k \in 0..Len(udp.inbox)
  <2>1. Stops \subseteq 1..Len(udp.inbox) /\ Stops \in SUBSET Nat
    BY <1>1
  <2> HIDE DEF Stops
  <2>2. CASE Stops = {}
    BY <1>1, <2>2
  <2>3. CASE Stops # {}
    <3>1. \E i \in Stops : \A j \in Stops : i <= j
      BY <2>1, <2>3, LeastNat
    <3>2. k \in Stops
      BY <2>3, <3>1
    <3> HIDE DEF k
    <3> QED BY <1>1, <2>1, <3>2
  <2> QED BY <2>2, <2>3
<1>3. udp' = [udp EXCEPT !.inbox = SubSeq(udp.inbox, k + 1, Len(udp.inbox))] /\ heard' = heard + k
  BY DEF UdpLoop
<1> HIDE DEF k, Stops
<1>4. PICK s : s = SubSeq(udp.inbox, k + 1, Len(udp.inbox))
  OBVIOUS
<1>5. s \in Seq({0, 1}) /\ Len(s) = Len(udp.inbox) - k
  BY <1>1, <1>2, <1>4, SubSeqProperties
<1>6. udp' \in [online : BOOLEAN, inbox : Seq({0, 1})] /\ udp'.inbox = s
  BY <1>3, <1>4, <1>5 DEF LinkTypeOK
<1>7. heard' \in 0..Datagrams /\ heard' + Len(udp'.inbox) <= Datagrams
  <2>1. heard \in 0..Datagrams /\ Datagrams \in Nat
    BY LinkAssumption DEF LinkTypeOK
  <2>2. PICK l : l = Len(udp.inbox)
    OBVIOUS
  <2>3. heard' = heard + k /\ Len(udp'.inbox) = l - k /\ l \in Nat /\ k \in 0..l /\ heard + l <= Datagrams
    BY <1>1, <1>2, <1>3, <1>5, <1>6, <2>2
  <2> QED BY ONLY <2>1, <2>3, SMT
<1>8. UNCHANGED <<tcp, rx, draining, stream, hungUp, framed, received, links>>
  BY DEF UdpLoop, seedVars
<1> QED BY <1>6, <1>7, <1>8 DEF LinkTypeOK

\* Every step keeps the types.
LEMMA LinkTypes ==
    ASSUME LinkTypeOK, heard + Len(udp.inbox) <= Datagrams, [LinkNext]_linkVars
    PROVE  LinkTypeOK' /\ (heard + Len(udp.inbox) <= Datagrams)'
<1>1. CASE TickIdle
  <2>1. UNCHANGED <<rx, draining, udpVars>> /\ ~draining
    BY <1>1 DEF TickIdle
  <2>2. CASE BeginConnect
    BY <2>1, <2>2, BeginConnectTypes
  <2>3. CASE tcp' = [tcp EXCEPT !.state = "idle"] /\ UNCHANGED <<seedVars, received, links>>
                /\ tcp.state \in {"idle", "failed"}
    <3>1. TcpOK(tcp')
      BY <2>3 DEF LinkTypeOK, TcpOK
    <3>2. UNCHANGED <<stream, hungUp, framed, received, links, udp, heard>>
      BY <2>1, <2>3 DEF seedVars, udpVars
    <3> QED BY <2>1, <3>1, <3>2 DEF LinkTypeOK, TcpOK
  <2> QED BY <1>1, <2>2, <2>3 DEF TickIdle
<1>2. CASE TickConnecting
  <2>1. UNCHANGED <<rx, draining, udpVars>> /\ ~draining /\ tcp.state = "connecting"
    BY <1>2 DEF TickConnecting
  <2>2. CASE BeginConnect
    BY <2>1, <2>2, BeginConnectTypes
  <2>3. CASE /\ tcp' \in {[tcp EXCEPT !.state = "connected"],
                          [tcp EXCEPT !.state = "idle", !.socket = FALSE]}
             /\ UNCHANGED <<seedVars, received, links>>
    <3>1. TcpOK(tcp')
      BY <2>1, <2>3 DEF LinkTypeOK, TcpOK
    <3>2. UNCHANGED <<stream, hungUp, framed, received, links, udp, heard>>
      BY <2>1, <2>3 DEF seedVars, udpVars
    <3> QED BY <2>1, <3>1, <3>2 DEF LinkTypeOK, TcpOK
  <2> QED BY <1>2, <2>2, <2>3 DEF TickConnecting
<1>3. CASE TickConnected
  <2>1. CASE HangUp
    BY <2>1, HangUpTypes
  <2>2. CASE ~HangUp
    BY <1>3, <2>2 DEF TickConnected, LinkTypeOK, seedVars, udpVars
  <2> QED BY <2>1, <2>2
<1>4. CASE ReadFrame
  BY <1>4, ReadFrameTypes
<1>5. CASE NothingToRead
  BY <1>5 DEF NothingToRead, LinkTypeOK, seedVars, udpVars
<1>6. CASE ConnectionLost
  BY <1>6, HangUpTypes DEF ConnectionLost
<1>7. CASE UdpLoop
  BY <1>7, UdpTypes
<1>8. CASE SeedSends
  <2>1. PICK payload \in Payloads :
           stream' = stream \o Framed(payload) /\ framed' = Append(framed, payload)
    BY <1>8 DEF SeedSends
  <2>2. payload \in Seq(Bytes)
    BY LinkAssumption DEF Bytes
  <2>3. Framed(payload) \in Seq(Bytes)
    <3>1. Here(Fresh) \in Parsers /\ ~Here(Fresh).done /\ Here(Fresh).frameBuf = <<>>
      BY ParserIs DEF Here, Fresh, P
    <3> QED BY <2>2, <3>1, ParseFramed
  <2>4. stream' \in Seq(0..255)
    BY <2>1, <2>3, ConcatProperties DEF LinkTypeOK, Bytes
  <2>5. framed' \in Seq(Payloads)
    BY <2>1, AppendProperties DEF LinkTypeOK
  <2>6. UNCHANGED <<tcp, rx, draining, hungUp, received, links, udp, heard>>
    BY <1>8 DEF SeedSends, udpVars
  <2> QED BY <2>4, <2>5, <2>6 DEF LinkTypeOK
<1>9. CASE SeedHangsUp
  <2>1. stream' \in Seq(0..255) /\ hungUp' = TRUE
    BY <1>9, EmptySeq, ZenonT(40) DEF SeedHangsUp, LinkTypeOK
  <2>2. UNCHANGED <<tcp, rx, draining, framed, received, links, udp, heard>>
    BY <1>9 DEF SeedHangsUp, udpVars
  <2> QED BY <2>1, <2>2 DEF LinkTypeOK
<1>10. CASE DatagramArrives
  <2>1. PICK len \in {0, 1} : udp' = [udp EXCEPT !.inbox = Append(udp.inbox, len)]
    BY <1>10 DEF DatagramArrives
  <2>2. udp.inbox \in Seq({0, 1}) /\ Len(udp.inbox) \in Nat
    BY LinkParts
  <2>3. PICK s : s = Append(udp.inbox, len)
    OBVIOUS
  <2>4. s \in Seq({0, 1}) /\ Len(s) = Len(udp.inbox) + 1
    BY <2>2, <2>3, AppendProperties
  <2>5. udp' \in [online : BOOLEAN, inbox : Seq({0, 1})] /\ udp'.inbox = s
    BY <2>1, <2>3, <2>4 DEF LinkTypeOK
  <2>6. UNCHANGED <<tcp, rx, draining, stream, hungUp, framed, received, links, heard>>
        /\ heard + Len(udp.inbox) < Datagrams
    BY <1>10 DEF DatagramArrives, seedVars
  <2>7. heard' + Len(udp'.inbox) <= Datagrams
    BY <2>2, <2>4, <2>5, <2>6, LinkParts, LinkAssumption
  <2> QED BY <2>5, <2>6, <2>7 DEF LinkTypeOK
<1>11. CASE IntervalPasses \/ KeepalivePasses
  <2>1. TcpOK(tcp') /\ tcp'.state = tcp.state
    BY <1>11, SMTT(40) DEF IntervalPasses, KeepalivePasses, LinkTypeOK, TcpOK
  <2>2. UNCHANGED <<rx, draining, stream, hungUp, framed, received, links, udp, heard>>
    BY <1>11 DEF IntervalPasses, KeepalivePasses, seedVars, udpVars
  <2> QED BY <2>1, <2>2 DEF LinkTypeOK, TcpOK
<1>12. CASE UNCHANGED linkVars
  BY <1>12 DEF linkVars, LinkTypeOK, seedVars, udpVars
<1> QED BY <1>1, <1>2, <1>3, <1>4, <1>5, <1>6, <1>7, <1>8, <1>9, <1>10, <1>11, <1>12
        DEF LinkNext, Loop

\* The frames that are sent while nothing has been handed over.
LEMMA SentFrames ==
    ASSUME NEW p \in Parsers, NEW sent \in Seq(Seq(Bytes)), Foretold(p, sent),
           NEW payload \in Seq(Bytes)
    PROVE  Foretold(Parse(p, Framed(payload)), Append(sent, payload))
<1>1. PICK q, all : q = Parse(p, Framed(payload)) /\ all = Append(sent, payload)
  OBVIOUS
<1>2. /\ Len(sent) \in Nat /\ DOMAIN sent = 1..Len(sent)
      /\ all \in Seq(Seq(Bytes)) /\ Len(all) = Len(sent) + 1
      /\ \A i \in 1..Len(sent) : all[i] = sent[i]
      /\ all[Len(sent) + 1] = payload
  BY <1>1, LenProperties, AppendProperties
<1>3. DOMAIN all = 1..(Len(sent) + 1)
  BY <1>2, LenProperties
<1>4. Framed(payload) \in Seq(Bytes)
  <2>1. Here(Fresh) \in Parsers /\ ~Here(Fresh).done /\ Here(Fresh).frameBuf = <<>>
    BY ParserIs DEF Here, Fresh, P
  <2> QED BY <2>1, ParseFramed
<1>5. CASE p.done
  <2>1. q = p
    BY <1>1, <1>4, <1>5, ParseDone
  <2>2. PICK i \in 1..Len(sent) :
           p.frameBuf = sent[i] /\ \A j \in 1..(i - 1) : Skipped(sent[j])
    BY <1>2, <1>5 DEF Foretold
  <2>3. i \in DOMAIN all /\ all[i] = sent[i] /\ \A j \in 1..(i - 1) : all[j] = sent[j]
    BY <1>2, <1>3
  <2>4. \A j \in 1..(i - 1) : Skipped(all[j])
    BY <2>2, <2>3
  <2>5. Foretold(q, all)
    BY <1>5, <2>1, <2>2, <2>3, <2>4 DEF Foretold
  <2> QED BY <1>1, <2>5
<1>6. CASE ~p.done
  <2>1. p.frameBuf = <<>> /\ \A j \in 1..Len(sent) : Skipped(sent[j])
    BY <1>2, <1>6 DEF Foretold
  <2>2. /\ Skipped(payload) => ~q.done /\ q.frameBuf = <<>>
        /\ ~Skipped(payload) => q.done /\ q.frameBuf = payload
    BY <1>1, <1>6, <2>1, ParseFramed
  <2>3. \A j \in 1..Len(sent) : Skipped(all[j])
    BY <1>2, <2>1
  <2>4. CASE Skipped(payload)
    <3>1. \A j \in DOMAIN all : Skipped(all[j])
      <4> SUFFICES ASSUME NEW j \in DOMAIN all PROVE Skipped(all[j])
        OBVIOUS
      <4>1. j \in 1..Len(sent) \/ j = Len(sent) + 1
        BY <1>2, <1>3
      <4> QED BY <1>2, <2>3, <2>4, <4>1
    <3>2. Foretold(q, all)
      BY <2>2, <2>4, <3>1 DEF Foretold
    <3> QED BY <1>1, <3>2
  <2>5. CASE ~Skipped(payload)
    <3>1. PICK i : i = Len(sent) + 1
      OBVIOUS
    <3>4. i \in DOMAIN all /\ i - 1 = Len(sent)
      BY <1>2, <1>3, <3>1
    <3>5. q.frameBuf = all[i]
      BY <1>2, <2>2, <2>5, <3>1
    <3>2. i \in DOMAIN all /\ q.frameBuf = all[i] /\ \A j \in 1..(i - 1) : Skipped(all[j])
      BY <2>3, <3>4, <3>5
    <3>3. Foretold(q, all)
      BY <2>2, <2>5, <3>2 DEF Foretold
    <3> QED BY <1>1, <3>3
  <2> QED BY <2>4, <2>5
<1> QED BY <1>5, <1>6

\* What has been read of the first frame is what was sent.
LEMMA ReadFrames ==
    ASSUME LinkTypeOK, FrameInv, ReadFrame
    PROVE  FrameInv'
<1>1. PICK n, p :
         /\ n \in 1..Len(stream)
         /\ p = Parsed(SubSeq(stream, 1, n))
         /\ stream' = SubSeq(stream, n + 1, Len(stream))
         /\ rx' = [inFrame |-> p.inFrame, escaped |-> p.escaped, frameBuf |-> p.frameBuf]
         /\ draining' = p.done
         /\ IF p.done
            THEN /\ received' = Append(received, p.frameBuf)
                 /\ tcp' = [tcp EXCEPT !.lastRx = "fresh"]
            ELSE UNCHANGED <<received, tcp>>
  BY DEF ReadFrame
<1>2. UNCHANGED <<hungUp, framed>> /\ draining /\ tcp.state = "connected"
  BY DEF ReadFrame, LinkTypeOK
<1>3. tcp'.state = "connected"
  BY <1>1, <1>2 DEF LinkTypeOK
<1>4. PICK t : t = stream'
  OBVIOUS
<1>5. /\ t \in Seq(Bytes) /\ stream # <<>> /\ p \in Parsers
      /\ Parse(Here(rx), stream) = Parse(p, t)
  <2>1. PICK c : c = SubSeq(stream, 1, n)
    OBVIOUS
  <2>2. t = SubSeq(stream, n + 1, Len(stream)) /\ p = Parsed(SubSeq(stream, 1, n)) /\ n \in 1..Len(stream)
    BY <1>1, <1>4
  <2> QED BY <2>1, <2>2, ReadFrameIs, ZenonT(40)
<1>6. received = <<>> => Foretold(Parse(p, t), framed)
  BY <1>2, <1>5 DEF FrameInv
<1>7. CASE p.done
  <2>1. Parse(p, t) = p
    BY <1>5, <1>7, ParseDone
  <2>2. received' = Append(received, p.frameBuf)
    BY <1>1, <1>7
  <2>3. p.frameBuf \in Seq(0..255) /\ received \in Seq(Seq(0..255))
    BY <1>5, ParserIs DEF Bytes, LinkTypeOK
  <2>4. /\ received' # <<>> /\ Len(received) \in Nat
        /\ \A i \in 1..Len(received) : received'[i] = received[i]
        /\ received'[Len(received) + 1] = p.frameBuf
    BY <2>2, <2>3, AppendProperties, LenProperties
  <2>5. FirstFrameExact'
    <3>1. CASE received = <<>>
      <4>0. Len(received) = 0
        BY <3>1, EmptySeq
      <4>1. received'[1] = p.frameBuf
        BY <2>4, <4>0
      <4>2. \E i \in DOMAIN framed : /\ p.frameBuf = framed[i]
                                    /\ \A j \in 1..(i - 1) : Skipped(framed[j])
        BY <1>6, <1>7, <2>1, <3>1 DEF Foretold
      <4> QED BY <1>2, <4>1, <4>2 DEF FirstFrameExact, Skipped
    <3>2. CASE received # <<>>
      <4>1. Len(received) # 0
        BY <2>3, <3>2, EmptySeq
      <4>2. received'[1] = received[1]
        BY <2>4, <4>1
      <4> QED BY <1>2, <3>2, <4>2 DEF FrameInv, FirstFrameExact
    <3> QED BY <3>1, <3>2
  <2> QED BY <1>3, <2>4, <2>5 DEF FrameInv
<1>8. CASE ~p.done
  <2>1. Here(rx') = p
    <3>1. p = P(p.inFrame, p.escaped, p.frameBuf, p.done) /\ p.done = FALSE
      BY <1>5, <1>8, ParserIs
    <3> QED BY <1>1, <3>1 DEF Here
  <2>2. received' = received
    BY <1>1, <1>8
  <2>3. received' = <<>> => Foretold(Parse(Here(rx'), stream'), framed')
    BY <1>2, <1>4, <1>6, <2>1, <2>2
  <2>4. FirstFrameExact'
    BY <1>2, <2>2 DEF FrameInv, FirstFrameExact
  <2> QED BY <1>3, <2>3, <2>4 DEF FrameInv
<1> QED BY <1>7, <1>8

\* Nothing that is handed over depends on a connection that is gone.
LEMMA LinkFrames ==
    ASSUME LinkTypeOK, FrameInv, [LinkNext]_linkVars
    PROVE  FrameInv'
<1>1. CASE HangUp
  <2>1. rx' = Fresh /\ UNCHANGED <<framed, received>> /\ tcp'.state = "idle"
    BY <1>1 DEF HangUp, LinkTypeOK
  <2> QED BY <2>1 DEF FrameInv, FirstFrameExact
<1>2. ASSUME BeginConnect, tcp.state # "connected", UNCHANGED rx PROVE FrameInv'
  <2>1. CASE NewStream
    BY <1>2, <2>1, NoFrames DEF FrameInv, NewStream
  <2>2. CASE /\ tcp' = [tcp EXCEPT !.state = "failed", !.socket = FALSE, !.attempt = "fresh"]
             /\ UNCHANGED <<seedVars, received, links>>
    <3>1. Untouched
      BY <1>2, <2>2 DEF Untouched, seedVars, LinkTypeOK
    <3> QED BY <3>1, UntouchedFrames
  <2> QED BY <1>2, <2>1, <2>2 DEF BeginConnect
<1>3. CASE TickIdle
  <2>1. tcp.state \in {"idle", "failed"} /\ UNCHANGED rx
    BY <1>3 DEF TickIdle
  <2>2. CASE ~BeginConnect
    <3>1. tcp' = [tcp EXCEPT !.state = "idle"] /\ UNCHANGED <<stream, framed, hungUp, received>>
      BY <1>3, <2>2 DEF TickIdle, seedVars
    <3>2. tcp'.state = "idle"
      BY <3>1 DEF LinkTypeOK
    <3>3. Untouched
      BY <2>1, <3>1, <3>2 DEF Untouched
    <3> QED BY <3>3, UntouchedFrames
  <2> QED BY <1>2, <2>1, <2>2
<1>4. CASE TickConnecting
  <2>1. tcp.state = "connecting" /\ UNCHANGED rx
    BY <1>4 DEF TickConnecting
  <2>2. CASE ~BeginConnect
    <3>1. UNCHANGED <<stream, framed, received>>
      BY <1>4, <2>2 DEF TickConnecting, seedVars
    <3>2. rx' = Fresh /\ stream' = <<>> /\ framed' = <<>> /\ received' = <<>>
      BY <2>1, <3>1 DEF FrameInv
    <3> QED BY <3>2, NoFrames
  <2> QED BY <1>2, <2>1, <2>2
<1>5. CASE TickConnected
  <2>1. CASE ~HangUp
    <3>1. Untouched
      BY <1>5, <2>1 DEF TickConnected, Untouched, seedVars
    <3> QED BY <3>1, UntouchedFrames
  <2> QED BY <1>1, <2>1
<1>6. CASE ReadFrame
  BY <1>6, ReadFrames
<1>7. CASE NothingToRead \/ UdpLoop \/ DatagramArrives \/ UNCHANGED linkVars
  <2>1. Untouched
    BY <1>7 DEF NothingToRead, UdpLoop, DatagramArrives, linkVars, Untouched, seedVars
  <2> QED BY <2>1, UntouchedFrames
<1>8. CASE ConnectionLost
  BY <1>1, <1>8 DEF ConnectionLost
<1>9. CASE SeedSends
  <2>1. PICK payload \in Payloads :
           stream' = stream \o Framed(payload) /\ framed' = Append(framed, payload)
    BY <1>9 DEF SeedSends
  <2>2. UNCHANGED <<tcp, rx, received, hungUp>> /\ tcp.state = "connected" /\ ~hungUp
    BY <1>9 DEF SeedSends
  <2>3. payload \in Seq(Bytes) /\ framed \in Seq(Seq(Bytes)) /\ stream \in Seq(Bytes)
    <3>1. Payloads \subseteq Seq(Bytes)
      BY LinkAssumption DEF Bytes
    <3> QED BY <2>1, <3>1, SeqMonotonic DEF LinkTypeOK, Bytes
  <2>4. PICK h, g : h = Here(rx) /\ g = Framed(payload)
    OBVIOUS
  <2>5. h \in Parsers
    BY <2>4, HereIs
  <2>6. g \in Seq(Bytes)
    <3>1. Here(Fresh) \in Parsers /\ ~Here(Fresh).done /\ Here(Fresh).frameBuf = <<>>
      BY ParserIs DEF Here, Fresh, P
    <3> QED BY <2>3, <2>4, <3>1, ParseFramed
  <2>7. CASE received = <<>>
    <3>1. PICK p : p = Parse(h, stream)
      OBVIOUS
    <3>2. Foretold(p, framed) /\ p \in Parsers
      BY <2>2, <2>3, <2>4, <2>5, <2>7, <3>1, ParseTyped DEF FrameInv
    <3>3. Foretold(Parse(p, g), framed')
      BY <2>1, <2>3, <2>4, <3>2, SentFrames
    <3>4. Parse(h, stream') = Parse(p, g)
      BY <2>1, <2>3, <2>4, <2>5, <2>6, <3>1, ParseConcat
    <3>5. Foretold(Parse(Here(rx'), stream'), framed')
      BY <2>2, <2>4, <3>3, <3>4
    <3> QED BY <2>2, <2>7, <3>5 DEF FrameInv, FirstFrameExact
  <2>8. CASE received # <<>>
    <3>1. PICK i \in DOMAIN framed :
             received[1] = framed[i] /\ \A j \in 1..(i - 1) : Skipped(framed[j])
      BY <2>8 DEF FrameInv, FirstFrameExact, Skipped
    <3>2. /\ Len(framed) \in Nat /\ DOMAIN framed = 1..Len(framed)
          /\ framed' \in Seq(Seq(Bytes)) /\ Len(framed') = Len(framed) + 1
          /\ \A j \in 1..Len(framed) : framed'[j] = framed[j]
      BY <2>1, <2>3, AppendProperties, LenProperties
    <3>3. DOMAIN framed' = 1..(Len(framed) + 1)
      BY <3>2, LenProperties
    <3>4. i \in DOMAIN framed' /\ framed'[i] = framed[i] /\ \A j \in 1..(i - 1) : framed'[j] = framed[j]
      BY <3>2, <3>3
    <3>5. FirstFrameExact'
      BY <2>2, <3>1, <3>4 DEF FirstFrameExact, Skipped
    <3> QED BY <2>2, <2>8, <3>5 DEF FrameInv
  <2> QED BY <2>7, <2>8
<1>10. CASE SeedHangsUp
  <2>1. UNCHANGED <<tcp, rx, framed, received>> /\ tcp.state = "connected" /\ hungUp' = TRUE
        /\ stream' \in {stream, <<>>} /\ ~hungUp
    BY <1>10 DEF SeedHangsUp
  <2> QED BY <2>1 DEF FrameInv, FirstFrameExact
<1>11. CASE IntervalPasses \/ KeepalivePasses
  <2>1. UNCHANGED <<rx, stream, framed, received, hungUp>> /\ tcp'.state = tcp.state
    BY <1>11 DEF IntervalPasses, KeepalivePasses, seedVars, LinkTypeOK
  <2>2. Untouched
    BY <2>1 DEF Untouched
  <2> QED BY <2>2, UntouchedFrames
<1> QED BY <1>3, <1>4, <1>5, <1>6, <1>7, <1>8, <1>9, <1>10, <1>11 DEF LinkNext, Loop

\* The first frame, and the types, always.
THEOREM LinkInvariant == LinkInit /\ [][LinkNext]_linkVars => []LinkInv
<1>1. LinkInit => LinkInv
  BY LinkInitInv
<1>2. LinkInv /\ [LinkNext]_linkVars => LinkInv'
  BY LinkTypes, LinkFrames DEF LinkInv
<1> QED BY <1>1, <1>2, PTL

\* Both interfaces keep their types (begin_connect, begin_read and loop).
THEOREM LinkTypeCorrect == LinkInit /\ [][LinkNext]_linkVars => []LinkTypeOK
<1>1. LinkInv => LinkTypeOK
  BY DEF LinkInv
<1> QED BY <1>1, LinkInvariant, PTL

\* The first frame that comes out of a connection is one that was sent, byte for byte,
\* wherever the reads have cut it, and none that fits was sent before it (begin_read).
THEOREM FirstFrameIsExact == LinkInit /\ [][LinkNext]_linkVars => []FirstFrameExact
<1>1. LinkInv => FirstFrameExact
  BY DEF LinkInv, FrameInv
<1> QED BY <1>1, LinkInvariant, PTL
=============================================================================
