--------------------------- MODULE RequestProofs ---------------------------
(***************************************************************************)
(* What the parser has understood when it has read p bytes of a request    *)
(* depends on these bytes and not on where TCP has cut them (ParserInv),   *)
(* but for a text/plain body, of which the first packet tells whether it   *)
(* is read as a form (Told).  For all well formed requests, of any length, *)
(* method and type of body, with or without memory for their files: what   *)
(* urlDecode makes of an encoded text, the items between "&" and the parts *)
(* between boundaries, by induction over their bytes; then the head, line  *)
(* by line, the body, byte by byte, one turn of the loop of _onData        *)
(* (OneTurn), all of a packet (OnDataDoes), and all packets (StepDoes).    *)
(***************************************************************************)
EXTENDS Request, SequenceTheorems, WellFoundedInduction, TLAPS

----------------------------------------------------------------------------
(* The inductive invariant behind ParsedAsSent, HandledOnce and            *)
(* PiecesAreWhole: what the parser x has understood when it has read the   *)
(* first p bytes.                                                          *)

(* The parameters that a text stands for, of a query or of a form: those   *)
(* of its pieces between "&", from the left.                               *)
ParamOf(t, form) ==
  LET e == IndexOf(t, "=")
      named == e \in 2..Len(t) /\ t[1] \notin {"{", "["}
      n == IF named THEN SubSeq(t, 1, e - 1) ELSE <<"body">>
      v == IF named THEN SubSeq(t, e + 1, Len(t)) ELSE t
  IN IF form THEN Param(UrlDecode(n), UrlDecode(v), TRUE, FALSE, 0)
     ELSE Param(Pair(t)[1], Pair(t)[2], FALSE, FALSE, 0)

ParamsFrom(s, form) ==
  LET End(i) == i + IndexOf(SubSeq(s, i, Len(s)), "&") - 1
      from[i \in 1..(Len(s) + 2)] ==
        IF i > Len(s) THEN <<>>
        ELSE <<ParamOf(SubSeq(s, i, End(i) - 1), form)>> \o from[End(i) + 1]
  IN from

ParamsOf(s, form) == ParamsFrom(s, form)[1]

(* The end of the first line, and of the head.                             *)
FirstLine == Len(Url(request)) + Len(Query(request)) + 3
HeadEnd   == FirstLine + IF request.kind = "get" THEN 1 ELSE 7

IsKind(x) == /\ x.multipart = (request.kind = "multipart")
             /\ x.form = (request.kind = "form")
             /\ x.plain = (request.kind = "text")

NoKind(x) == x.multipart = FALSE /\ x.form = FALSE /\ x.plain = FALSE

Unread(x) ==
  /\ x.parsedLength = 0 /\ x.multi = "BOUNDARY" /\ x.handled = 0
  /\ x.upload = <<>> /\ x.raw = <<>> /\ x.buffer = <<>> /\ ~x.torn
  /\ x.part = 0 /\ x.plainPost = FALSE

(* The method that the parser knows.                                       *)
Method == IF request.method \in Methods THEN request.method ELSE "ANY"

AtStart(x, p) ==
  /\ x.parse = "START" /\ p \in 0..(FirstLine - 1)
  /\ x.temp = SubSeq(Bytes(request), 1, p)
  /\ Unread(x) /\ NoKind(x) /\ x.contentLength = 0
  /\ x.params = <<>> /\ x.method = "ANY"

AtHeaders(x, p) ==
  /\ x.parse = "HEADERS" /\ p \in FirstLine..(HeadEnd - 1)
  /\ x.method = Method /\ x.url = request.url
  /\ Unread(x) /\ x.params = InQuery
  /\ IF request.kind = "get"
     THEN x.temp = <<>> /\ NoKind(x) /\ x.contentLength = 0
     ELSE /\ x.contentLength = IF p < FirstLine + 3 THEN 0 ELSE Len(Body(request))
          /\ IF p < FirstLine + 6 THEN NoKind(x) ELSE IsKind(x)
          /\ x.temp = IF p < FirstLine + 3 THEN SubSeq(Bytes(request), FirstLine + 1, p)
                      ELSE IF p < FirstLine + 6
                           THEN SubSeq(Bytes(request), FirstLine + 4, p) ELSE <<>>

(* In a multipart body, of which b bytes have been read: before the parts, *)
(* in the head of part k, in its value, or between it and the next.        *)
PartStart(k) == Len(Body(request)) - Len(PartsFrom(request.parts)[k])
PartHead(k)  == PartStart(k) + Len(Boundary) + 4
ValueStart(k) == PartHead(k) + IF request.parts[k].file THEN 9 ELSE 5

Files(k) == FilesUpTo(request.parts)[k]

(* The first k parts: their files were given, their parameters are there.  *)
Known(x, k) == x.params = InQuery \o PartsUpTo(request.parts)[k]
Given(x, k) == x.upload = Files(k) /\ x.buffer = <<>> /\ Known(x, k)

InPartHead(x, b, k) ==
  LET i == b - PartHead(k)  part == request.parts[k]
  IN /\ x.multi = "HEADERS" /\ b \in PartHead(k)..(ValueStart(k) - 1)
     /\ x.isFile = (part.file /\ i >= 4) /\ Given(x, k - 1)
     /\ x.part = k - 1 /\ k - 1 <= Read
     /\ x.temp = IF part.file
                 THEN CASE i = 1 -> <<part.name>>
                        [] i \in {2, 3} -> <<part.name, "filename">>
                        [] i \in {5, 6} -> <<"type">> [] OTHER -> <<>>
                 ELSE IF i \in {1, 2} THEN <<part.name>> ELSE <<>>
     /\ i >= (IF part.file THEN 4 ELSE 3) => x.name = <<part.name>>

(* Bytes of the delimiter that the automaton has seen.                     *)
Matched(x) ==
  CASE x.multi = "RETURN1" -> 0 [] x.multi = "FEED1" -> 1
    [] x.multi = "DASH1" -> 2   [] x.multi = "DASH2" -> 3
    [] x.multi = "DATA" -> 4 + x.boundaryPosition

Scanning == {"RETURN1", "FEED1", "DASH1", "DASH2", "DATA"}

(* The last l of the first j bytes of s are those the delimiter begins     *)
(* with.                                                                   *)
Ends(s, j, l) == \A i \in 1..l : s[j - l + i] = Delimiter[i]

(* The bytes w of a part have been written, after the files f.             *)
Written(x, f, w) ==
  /\ x.size = Len(w) /\ ~x.torn
  /\ {x.upload, x.buffer} \subseteq Seq(Byte)
  /\ Len(x.buffer) < BufSize /\ Len(x.buffer) <= x.size
  /\ IF x.isFile THEN x.from = Len(f) /\ x.upload \o x.buffer = f \o w
     ELSE x.upload = f /\ x.buffer = <<>> /\ x.value = w

InValue(x, b, k) ==
  LET v == request.parts[k].value  s == v \o Delimiter
      j == b - ValueStart(k)       m == Matched(x)
  IN /\ x.multi \in Scanning /\ x.isFile = request.parts[k].file
     /\ x.multi = "DATA" => x.boundaryPosition \in Nat
     /\ b \in ValueStart(k)..(ValueStart(k) + Len(s) - 1)
     /\ m \in 0..(Len(Delimiter) - 1) /\ m <= j /\ Ends(s, j, m)
     /\ \A l \in 1..Len(Delimiter) : l <= j /\ Ends(s, j, l) => l = m
     /\ Written(x, Files(k - 1), SubSeq(s, 1, j - m))
     /\ x.name = <<request.parts[k].name>> /\ Known(x, k - 1)
     /\ x.part = k /\ k <= Read

AfterPart(x, b, k) ==
  LET i == b - PartStart(k + 1) - Len(Boundary) - 2
  IN /\ Given(x, k) /\ x.part = k /\ k <= Read
     /\ \/ x.multi = "RETURN2" /\ i = 0
        \/ x.multi = "FEED2" /\ i = 1 /\ k < Len(request.parts)
        \/ x.multi = "FINISHED" /\ i > 0 /\ k = Len(request.parts)

(* Behind the head of the part whose buffer malloc has refused.            *)
GivenUp(x) == x.multi = "ERROR" /\ Given(x, Read) /\ x.temp = <<>>

InMultipart(x, b) ==
  /\ ~x.torn
  /\ \/ GivenUp(x)
     \/ x.multi = "BOUNDARY" /\ b < Len(Boundary) + 4 /\ Given(x, 0) /\ x.temp = <<>>
        /\ x.part = 0
     \/ \E k \in 1..Len(request.parts) :
          \/ InPartHead(x, b, k)
          \/ (InValue(x, b, k) \/ AfterPart(x, b, k)) /\ x.temp = <<>>

(* In a form: what was found, and what is still to be found, in the text   *)
(* of the last item and in the rest.                                       *)
InForm(x, b) ==
  /\ x.temp \in Seq(Byte \ {"&"}) /\ x.params \in Seq(Range(x.params))
  /\ x.params \o ParamsOf(x.temp \o SubSeq(FormText(request), b + 1,
                                           Len(FormText(request))), TRUE)
       = Expected

(* In a body that is given as it comes, and in a text before its bytes     *)
(* have told which it is.                                                  *)
InRaw(x, b) ==
  /\ x.params = InQuery /\ x.raw = SubSeq(Body(request), 1, b)
  /\ request.kind = "text" => x.temp = <<>>

(* A body is read as a form from its first packet on.                      *)
Told(x, b) ==
  /\ x.plainPost \in BOOLEAN
  /\ x.plainPost => request.kind \in {"form", "text"}
  /\ request.kind = "form" /\ b > 0 => x.plainPost

(* In the body.                                                            *)
InBody(x, b) ==
  /\ x.parsedLength = b /\ x.handled = 0
  /\ x.contentLength = Len(Body(request)) /\ IsKind(x) /\ Told(x, b)
  /\ IF request.kind = "multipart" THEN InMultipart(x, b) /\ x.raw = <<>>
     ELSE /\ x.upload = <<>> /\ x.buffer = <<>> /\ ~x.torn
          /\ IF request.kind = "form" \/ x.plainPost
             THEN InForm(x, b) /\ x.raw = <<>> ELSE InRaw(x, b)

Routed(x) ==
  x.handler = AttachHandler([url |-> request.url, method |-> Method,
                             handler |-> "none"]).handler

(* The body was given as it came.                                          *)
Raw(x) == request.kind = "raw" \/ (request.kind = "text" /\ ~x.plainPost)

AtBody(x, p) ==
  /\ x.parse = "BODY" /\ Routed(x)
  /\ p \in HeadEnd..(HeadEnd + Len(Body(request)) - 1) /\ InBody(x, p - HeadEnd)

AtEnd(x, p) ==
  /\ x.parse = "END" /\ Routed(x) /\ x.handled = 1
  /\ p = Len(Bytes(request)) /\ ~x.torn /\ x.buffer = <<>>
  /\ x.upload = Files(Read)
  /\ x.raw = (IF Raw(x) THEN Body(request) ELSE <<>>)
  /\ x.params = IF Raw(x) THEN InQuery ELSE Expected

Understood(x, p) ==
  /\ DOMAIN x = DOMAIN New
  /\ AtStart(x, p) \/ AtHeaders(x, p) \/ AtBody(x, p) \/ AtEnd(x, p)

ParserInv ==
  LET p == Len(Bytes(request)) - Len(rest)
  IN /\ p \in 0..Len(Bytes(request)) /\ request \in Requests
     /\ rest = SubSeq(Bytes(request), p + 1, Len(Bytes(request)))
     /\ Understood(q, p)

----------------------------------------------------------------------------
(* Induction over data, and the loops of the parser                        *)

(* Induction over the numbers of a set.                                    *)
LEMMA Induction ==
  ASSUME NEW T \in SUBSET Nat, 0 \in T, \A n \in T : n + 1 \in T
  PROVE  T = Nat
  <1> DEFINE U == Nat \ T
  <1> SUFFICES ASSUME U # {} PROVE FALSE
    OBVIOUS
  <1>1. PICK x \in U : \A y \in U : ~ (<<y, x>> \in OpToRel(<, Nat))
    BY NatLessThanWellFounded, WFMin
  <1>2. x \in Nat /\ x # 0 /\ x - 1 \in Nat
    OBVIOUS
  <1>3. <<x - 1, x>> \in OpToRel(<, Nat)
    BY <1>2 DEF OpToRel
  <1>4. x - 1 \in T
    BY <1>1, <1>2, <1>3
  <1> QED BY <1>2, <1>4

(* The bytes of a packet.                                                  *)
BytesSteps(x, buf) ==
  \E g : /\ g[0] = x /\ OnBytes(x, buf) = g[Len(buf)]
         /\ \A i \in 1..Len(buf) : g[i] = BodyByte(g[i - 1], buf[i], i = Len(buf))

(* What OnBytes is defined by: each byte of the buffer is given to         *)
(* BodyByte in its turn.                                                   *)
LEMMA BytesLoop ==
  ASSUME NEW x, NEW buf, Len(buf) \in Nat
  PROVE  BytesSteps(x, buf)
  <1> DEFINE N == Len(buf)
             Step(y, i) == BodyByte(y, buf[i], i = N)
             first == x
             Is(g, n) == g = [i \in 0..n |-> IF i = 0 THEN first ELSE Step(g[i - 1], i)]
             T == {n \in Nat : \E g : Is(g, n)}
  <1>1. OnBytes(x, buf) = (CHOOSE g : Is(g, N))[N]
    BY DEF OnBytes
  <1> HIDE DEF Step, first
  <1>2. 0 \in T
    <2> DEFINE g == [i \in 0..0 |-> first]
    <2>1. Is(g, 0)
      OBVIOUS
    <2> HIDE DEF g, Is
    <2> QED BY <2>1
  <1>3. ASSUME NEW n \in T PROVE n + 1 \in T
    <2>1. PICK h : Is(h, n)
      OBVIOUS
    <2> DEFINE g == [i \in 0..(n + 1) |-> IF i = n + 1 THEN Step(h[n], i) ELSE h[i]]
    <2>2. \A i \in 0..n : h[i] = IF i = 0 THEN first ELSE Step(h[i - 1], i)
      BY <2>1
    <2>3. \A i \in 0..(n + 1) : g[i] = IF i = 0 THEN first ELSE Step(g[i - 1], i)
      BY <2>2
    <2>4. Is(g, n + 1)
      BY <2>3
    <2> HIDE DEF g, Is
    <2> QED BY <2>4
  <1> DEFINE g == CHOOSE h : Is(h, N)
  <1>4. Is(g, N)
    <2> HIDE DEF Is
    <2>1. \E h : Is(h, N)
      BY <1>2, <1>3, Induction
    <2> QED BY <2>1
  <1> HIDE DEF g
  <1>5. g[0] = first /\ \A i \in 1..N : g[i] = Step(g[i - 1], i)
    BY <1>4
  <1> QED BY <1>1, <1>5 DEF Step, first, g, BytesSteps

(* The bytes that were taken for a boundary.                               *)
WriteSteps(x, s, last) ==
  \E g : /\ g[0] = x /\ ItemWrite(x, s, last) = g[Len(s)]
         /\ \A i \in 1..Len(s) : g[i] = ItemWriteByte(g[i - 1], s[i], last)

(* What ItemWrite is defined by: each byte is written in its turn.         *)
LEMMA WriteLoop ==
  ASSUME NEW x, NEW s, Len(s) \in Nat, NEW last
  PROVE  WriteSteps(x, s, last)
  <1> DEFINE N == Len(s)
             Step(y, i) == ItemWriteByte(y, s[i], last)
             first == x
             Is(g, n) == g = [i \in 0..n |-> IF i = 0 THEN first ELSE Step(g[i - 1], i)]
             T == {n \in Nat : \E g : Is(g, n)}
  <1>1. ItemWrite(x, s, last) = (CHOOSE g : Is(g, N))[N]
    BY DEF ItemWrite
  <1> HIDE DEF Step, first
  <1>2. 0 \in T
    <2> DEFINE g == [i \in 0..0 |-> first]
    <2>1. Is(g, 0)
      OBVIOUS
    <2> HIDE DEF g, Is
    <2> QED BY <2>1
  <1>3. ASSUME NEW n \in T PROVE n + 1 \in T
    <2>1. PICK h : Is(h, n)
      OBVIOUS
    <2> DEFINE g == [i \in 0..(n + 1) |-> IF i = n + 1 THEN Step(h[n], i) ELSE h[i]]
    <2>2. \A i \in 0..n : h[i] = IF i = 0 THEN first ELSE Step(h[i - 1], i)
      BY <2>1
    <2>3. \A i \in 0..(n + 1) : g[i] = IF i = 0 THEN first ELSE Step(g[i - 1], i)
      BY <2>2
    <2>4. Is(g, n + 1)
      BY <2>3
    <2> HIDE DEF g, Is
    <2> QED BY <2>4
  <1> DEFINE g == CHOOSE h : Is(h, N)
  <1>4. Is(g, N)
    <2> HIDE DEF Is
    <2>1. \E h : Is(h, N)
      BY <1>2, <1>3, Induction
    <2> QED BY <2>1
  <1> HIDE DEF g
  <1>5. g[0] = first /\ \A i \in 1..N : g[i] = Step(g[i - 1], i)
    BY <1>4
  <1> QED BY <1>1, <1>5 DEF Step, first, g, WriteSteps

(* The turns of the loop over the lines.                                   *)
TurnSteps(x, buf) ==
  \E g : /\ g[0] = <<x, buf>> /\ OnData(x, buf) = g[5][1]
         /\ \A i \in 1..5 : g[i] = Turn(g[i - 1])

(* What OnData is defined by: five turns of its loop, one after the other. *)
LEMMA TurnLoop ==
  ASSUME NEW x, NEW buf
  PROVE  TurnSteps(x, buf)
  <1> DEFINE N == 5
             Step(y, i) == Turn(y)
             first == <<x, buf>>
             Is(g, n) == g = [i \in 0..n |-> IF i = 0 THEN first ELSE Step(g[i - 1], i)]
             T == {n \in Nat : \E g : Is(g, n)}
  <1>1. OnData(x, buf) = (CHOOSE g : Is(g, N))[N][1]
    BY DEF OnData
  <1> HIDE DEF Step, first
  <1>2. 0 \in T
    <2> DEFINE g == [i \in 0..0 |-> first]
    <2>1. Is(g, 0)
      OBVIOUS
    <2> HIDE DEF g, Is
    <2> QED BY <2>1
  <1>3. ASSUME NEW n \in T PROVE n + 1 \in T
    <2>1. PICK h : Is(h, n)
      OBVIOUS
    <2> DEFINE g == [i \in 0..(n + 1) |-> IF i = n + 1 THEN Step(h[n], i) ELSE h[i]]
    <2>2. \A i \in 0..n : h[i] = IF i = 0 THEN first ELSE Step(h[i - 1], i)
      BY <2>1
    <2>3. \A i \in 0..(n + 1) : g[i] = IF i = 0 THEN first ELSE Step(g[i - 1], i)
      BY <2>2
    <2>4. Is(g, n + 1)
      BY <2>3
    <2> HIDE DEF g, Is
    <2> QED BY <2>4
  <1> DEFINE g == CHOOSE h : Is(h, N)
  <1>4. Is(g, N)
    <2> HIDE DEF Is
    <2>1. \E h : Is(h, N)
      BY <1>2, <1>3, Induction
    <2> QED BY <2>1
  <1> HIDE DEF g
  <1>5. g[0] = first /\ \A i \in 1..N : g[i] = Step(g[i - 1], i)
    BY <1>4
  <1> QED BY <1>1, <1>5 DEF Step, first, g, TurnSteps

(* The files, part by part.                                                *)
LEMMA FilesLoop ==
  ASSUME NEW parts, Len(parts) \in Nat
  PROVE  /\ FilesUpTo(parts)[0] = <<>>
         /\ \A i \in 1..Len(parts) :
              FilesUpTo(parts)[i] =
                FilesUpTo(parts)[i - 1] \o IF parts[i].file THEN parts[i].value ELSE <<>>
  <1> DEFINE N == Len(parts)
             Step(y, i) == y \o IF parts[i].file THEN parts[i].value ELSE <<>>
             first == <<>>
             Is(g, n) == g = [i \in 0..n |-> IF i = 0 THEN first ELSE Step(g[i - 1], i)]
             T == {n \in Nat : \E g : Is(g, n)}
  <1>1. FilesUpTo(parts) = CHOOSE g : Is(g, N)
    BY Zenon DEF FilesUpTo
  <1> HIDE DEF Step, first
  <1>2. 0 \in T
    <2> DEFINE g == [i \in 0..0 |-> first]
    <2>1. Is(g, 0)
      OBVIOUS
    <2> HIDE DEF g, Is
    <2> QED BY <2>1
  <1>3. ASSUME NEW n \in T PROVE n + 1 \in T
    <2>1. PICK h : Is(h, n)
      OBVIOUS
    <2> DEFINE g == [i \in 0..(n + 1) |-> IF i = n + 1 THEN Step(h[n], i) ELSE h[i]]
    <2>2. \A i \in 0..n : h[i] = IF i = 0 THEN first ELSE Step(h[i - 1], i)
      BY <2>1
    <2>3. \A i \in 0..(n + 1) : g[i] = IF i = 0 THEN first ELSE Step(g[i - 1], i)
      BY <2>2
    <2>4. Is(g, n + 1)
      BY <2>3
    <2> HIDE DEF g, Is
    <2> QED BY <2>4
  <1> DEFINE g == CHOOSE h : Is(h, N)
  <1>4. Is(g, N)
    <2> HIDE DEF Is
    <2>1. \E h : Is(h, N)
      BY <1>2, <1>3, Induction
    <2> QED BY <2>1
  <1> HIDE DEF g
  <1>5. g[0] = first /\ \A i \in 1..N : g[i] = Step(g[i - 1], i)
    BY <1>4
  <1> QED BY <1>1, <1>5 DEF Step, first, g

(* The body, from its end.                                                 *)
LEMMA PartsLoop ==
  ASSUME NEW parts, Len(parts) \in Nat
  PROVE  /\ PartsFrom(parts)[Len(parts) + 1] =
              <<"-", "-">> \o Boundary \o <<"-", "-", "CR", "LF">>
         /\ \A i \in 1..Len(parts) :
              PartsFrom(parts)[i] = PartBytes(parts[i]) \o PartsFrom(parts)[i + 1]
  <1> DEFINE N == Len(parts)
             last == <<"-", "-">> \o Boundary \o <<"-", "-", "CR", "LF">>
             Step(y, i) == PartBytes(parts[i]) \o y
             Is(g, n) == g = [i \in (N + 1 - n)..(N + 1) |->
                                IF i > N THEN last ELSE Step(g[i + 1], i)]
             All(g) == g = [i \in 1..(N + 1) |->
                              IF i > N THEN last ELSE Step(g[i + 1], i)]
             T == {n \in Nat : \E g : Is(g, n)}
  <1>1. PartsFrom(parts) = CHOOSE g : All(g)
    BY DEF PartsFrom
  <1> HIDE DEF Step, last
  <1>2. 0 \in T
    <2> DEFINE g == [i \in (N + 1)..(N + 1) |-> last]
    <2>1. Is(g, 0)
      OBVIOUS
    <2> HIDE DEF g, Is
    <2> QED BY <2>1
  <1>3. ASSUME NEW n \in T PROVE n + 1 \in T
    <2>1. PICK h : Is(h, n)
      OBVIOUS
    <2> DEFINE g == [i \in (N - n)..(N + 1) |->
                       IF i = N - n THEN Step(h[i + 1], i) ELSE h[i]]
    <2>2. \A i \in (N + 1 - n)..(N + 1) :
            h[i] = IF i > N THEN last ELSE Step(h[i + 1], i)
      BY <2>1
    <2>3. \A i \in (N - n)..(N + 1) :
            g[i] = IF i > N THEN last ELSE Step(g[i + 1], i)
      BY <2>2
    <2>4. Is(g, n + 1)
      <3>1. N + 1 - (n + 1) = N - n
        OBVIOUS
      <3> QED BY <2>3, <3>1
    <2> HIDE DEF g, Is
    <2> QED BY <2>4
  <1> DEFINE g == CHOOSE h : All(h)
  <1>4. All(g)
    <2>1. \E h : Is(h, N)
      <3> HIDE DEF Is
      <3> QED BY <1>2, <1>3, Induction
    <2>2. N + 1 - N = 1
      OBVIOUS
    <2>3. \E h : All(h)
      BY <2>1, <2>2
    <2> HIDE DEF All
    <2> QED BY <2>3
  <1> HIDE DEF g
  <1>5. g[N + 1] = last /\ \A i \in 1..N : g[i] = Step(g[i + 1], i)
    BY <1>4
  <1> QED BY <1>1, <1>5 DEF Step, last, g

----------------------------------------------------------------------------
(* The bytes of a request                                                  *)

A == Bytes(request)
B == Body(request)

(* Sequences of bytes, by places.                                          *)
LEMMA Chain ==
  ASSUME NEW S, NEW s \in Seq(S), NEW t \in Seq(S)
  PROVE  /\ s \o t \in Seq(S) /\ Len(s \o t) = Len(s) + Len(t)
         /\ Len(s) \in Nat /\ Len(t) \in Nat
         /\ \A i \in 1..Len(s) : (s \o t)[i] = s[i]
         /\ \A i \in 1..Len(t) : (s \o t)[Len(s) + i] = t[i]
  <1>1. Len(s) \in Nat /\ Len(t) \in Nat
    BY LenProperties
  <1>2. /\ s \o t \in Seq(S) /\ Len(s \o t) = Len(s) + Len(t)
        /\ \A i \in 1..(Len(s) + Len(t)) :
             (s \o t)[i] = IF i <= Len(s) THEN s[i] ELSE t[i - Len(s)]
    BY ConcatProperties
  <1>3. \A i \in 1..Len(s) : (s \o t)[i] = s[i]
    BY <1>1, <1>2
  <1>4. ASSUME NEW i \in 1..Len(t)
        PROVE  (s \o t)[Len(s) + i] = t[i]
    <2>1. Len(s) + i \in 1..(Len(s) + Len(t)) /\ ~(Len(s) + i <= Len(s))
          /\ Len(s) + i - Len(s) = i
      BY <1>1
    <2> QED BY <1>2, <2>1
  <1> QED BY <1>1, <1>2, <1>3, <1>4

(* A sequence of one byte.                                                 *)
LEMMA Single ==
  ASSUME NEW S, NEW e \in S
  PROVE  <<e>> \in Seq(S) /\ Len(<<e>>) = 1 /\ <<e>>[1] = e
  OBVIOUS

(* The bytes that the parser knows.                                        *)
LEMMA Words ==
  /\ "CR" \in Byte /\ "LF" \in Byte /\ "-" \in Byte /\ "?" \in Byte
  /\ "Content" \in Byte /\ "Length" \in Byte
  /\ "filename" \in Byte /\ "type" \in Byte /\ Kinds \subseteq Byte
  BY RequestAssumption

(* The request is one of those that a browser sends.                       *)
LEMMA RequestIs ==
  ASSUME request \in Requests
  PROVE  /\ WellFormed(request)
         /\ request.method \in Byte /\ request.url \in Seq(Byte)
         /\ Url(request) \in Seq(Byte) /\ Len(Url(request)) \in Nat
         /\ Query(request) \in Seq(Byte) /\ B \in Seq(Byte)
         /\ Len(Query(request)) \in Nat /\ Len(B) \in Nat
  <1>1. WellFormed(request)
    BY RequestAssumption
  <1>2. /\ request.method \in Byte /\ request.url \in Seq(Byte)
        /\ Url(request) \in Seq(Byte \ {"CR", "LF", " ", "?", "NUL"})
        /\ Query(request) \in Seq(Byte \ {"CR", "LF", " ", "NUL"}) /\ B \in Seq(Byte)
    BY <1>1 DEF WellFormed, B
  <1>3. Url(request) \in Seq(Byte) /\ Query(request) \in Seq(Byte)
    <2> DEFINE U == Byte \ {"CR", "LF", " ", "?", "NUL"}
               V == Byte \ {"CR", "LF", " ", "NUL"}
    <2>1. Url(request) \in Seq(U) /\ Query(request) \in Seq(V)
      BY <1>2
    <2>2. U \subseteq Byte /\ V \subseteq Byte
      BY Zenon
    <2> HIDE DEF U, V
    <2> QED BY <2>1, <2>2, SeqMonotonic
  <1> QED BY <1>1, <1>2, <1>3, LenProperties

(* The text of a form has a byte for each of the body, which ends an item  *)
(* where the text has "&".                                                 *)
Form == FormText(request)

LEMMA FormIs ==
  ASSUME request \in Requests, request.kind \in {"form", "text"}
  PROVE  /\ Form \in Seq(Byte) /\ Len(Form) = Len(B)
         /\ \A i \in 1..Len(B) :
              IF Form[i] = "&" THEN B[i] \in {"&", "NUL"}
              ELSE B[i] = Form[i] /\ B[i] \notin {"&", "NUL"}
  <1> DEFINE U == Byte \ {"NUL"}
             w == Form
  <1>1. /\ w \in Seq(U)
        /\ \A i \in request.nul : i \in DOMAIN w /\ w[i] = "&"
    BY RequestIs DEF WellFormed, Form
  <1>2. U \subseteq Byte /\ \A b \in U : b # "NUL"
    OBVIOUS
  <1>3. B = [i \in DOMAIN w |-> IF i \in request.nul THEN "NUL" ELSE w[i]]
    BY DEF B, Body, FormBody, Form
  <1> HIDE DEF U, w
  <1>4. w \in Seq(Byte)
    BY <1>1, <1>2, SeqMonotonic
  <1>5. Len(w) \in Nat /\ DOMAIN w = 1..Len(w) /\ \A i \in 1..Len(w) : w[i] \in U
    BY <1>1, LenProperties, ElementOfSeq
  <1>6. B \in Seq(Byte)
    BY RequestIs
  <1>7. Len(B) = Len(w)
    <2>1. DOMAIN B = 1..Len(w)
      BY <1>3, <1>5
    <2>2. Len(B) \in Nat /\ DOMAIN B = 1..Len(B)
      BY <1>6, LenProperties
    <2> DEFINE m == Len(B)
               n == Len(w)
    <2>3. m \in Nat /\ n \in Nat /\ 1..m = 1..n
      BY <1>5, <2>1, <2>2
    <2> HIDE DEF m, n
    <2>4. (m \in 1..m <=> m \in 1..n) /\ (n \in 1..m <=> n \in 1..n)
      BY <2>3
    <2>5. m = n
      BY <2>3, <2>4
    <2> QED BY <2>5 DEF m, n
  <1>8. \A i \in 1..Len(B) : IF w[i] = "&" THEN B[i] \in {"&", "NUL"}
                            ELSE B[i] = w[i] /\ B[i] \notin {"&", "NUL"}
    BY <1>1, <1>2, <1>3, <1>5, <1>7
  <1> QED BY <1>4, <1>7, <1>8 DEF w

(* The places in a sequence that is two joined.                            *)
Joins(z, s, t, m, n) ==
  /\ z \in Seq(Byte) /\ Len(z) = m + n
  /\ \A i \in 1..m : z[i] = s[i]
  /\ \A i \in 1..n : z[m + i] = t[i]

(* Places in a sequence that is two joined.                                *)
LEMMA Chains ==
  ASSUME NEW z, NEW s \in Seq(Byte), NEW t \in Seq(Byte), NEW m, NEW n,
         z = s \o t, Len(s) = m, Len(t) = n
  PROVE  Joins(z, s, t, m, n)
  <1>1. /\ s \o t \in Seq(Byte) /\ Len(s \o t) = Len(s) + Len(t)
        /\ \A i \in 1..Len(s) : (s \o t)[i] = s[i]
        /\ \A i \in 1..Len(t) : (s \o t)[Len(s) + i] = t[i]
    <2>1. \A a, b \in Seq(Byte) :
            /\ a \o b \in Seq(Byte) /\ Len(a \o b) = Len(a) + Len(b)
            /\ \A i \in 1..Len(a) : (a \o b)[i] = a[i]
            /\ \A i \in 1..Len(b) : (a \o b)[Len(a) + i] = b[i]
      BY Chain
    <2> QED BY <2>1
  <1> QED BY <1>1 DEF Joins

(* Where the first line of a request ends, and its head.                   *)
LEMMA HeadSizes ==
  ASSUME request \in Requests
  PROVE  /\ FirstLine = Len(Url(request)) + Len(Query(request)) + 3
         /\ FirstLine \in Nat /\ FirstLine >= 3 /\ HeadEnd \in Nat
         /\ HeadEnd = FirstLine + IF request.kind = "get" THEN 1 ELSE 7
         /\ FirstLine < HeadEnd /\ Len(B) \in Nat
  <1>1. Len(Url(request)) \in Nat /\ Len(Query(request)) \in Nat /\ Len(B) \in Nat
    BY RequestIs
  <1>2. /\ FirstLine = Len(Url(request)) + Len(Query(request)) + 3
        /\ FirstLine \in Nat /\ FirstLine >= 3
    BY <1>1 DEF FirstLine
  <1>3. HeadEnd = FirstLine + IF request.kind = "get" THEN 1 ELSE 7
    BY DEF HeadEnd
  <1>4. HeadEnd \in Nat /\ FirstLine < HeadEnd
    <2>1. CASE request.kind = "get"
      BY <1>2, <1>3, <2>1
    <2>2. CASE request.kind # "get"
      BY <1>2, <1>3, <2>2
    <2> QED BY <2>1, <2>2
  <1> QED BY <1>1, <1>2, <1>3, <1>4

(* The bytes of a request, each at its place: the first line, the two      *)
(* headers of a request with a body, the empty line, the body.             *)
LEMMA BytesAre ==
  ASSUME request \in Requests
  PROVE  /\ A \in Seq(Byte) /\ Len(A) = HeadEnd + Len(B)
         /\ A[1] = request.method /\ A[Len(Url(request)) + 2] = "?"
         /\ \A i \in 1..Len(Url(request)) : A[1 + i] = Url(request)[i]
         /\ \A i \in 1..Len(Query(request)) :
              A[Len(Url(request)) + 2 + i] = Query(request)[i]
         /\ A[FirstLine] = "LF"
         /\ IF request.kind = "get" THEN A[FirstLine + 1] = "LF"
            ELSE /\ A[FirstLine + 1] = "Content" /\ A[FirstLine + 2] = "Length"
                 /\ A[FirstLine + 3] = "LF"      /\ A[FirstLine + 4] = "Content"
                 /\ A[FirstLine + 5] = request.kind
                 /\ A[FirstLine + 6] = "LF" /\ A[FirstLine + 7] = "LF"
         /\ \A i \in 1..Len(B) : A[HeadEnd + i] = B[i]
  <1> DEFINE u == Url(request)
             w == Query(request)
             m == <<request.method>>
             l == IF request.kind = "get" THEN <<>>
                  ELSE <<"Content", "Length", "LF", "Content", request.kind, "LF">>
             s1 == m \o u
             s2 == s1 \o <<"?">>
             s3 == s2 \o w
             s4 == s3 \o <<"LF">>
             s5 == s4 \o l
             s6 == s5 \o <<"LF">>
  <1>1. A = s6 \o B
    BY DEF A, B, Bytes
  <1>2. /\ u \in Seq(Byte) /\ w \in Seq(Byte) /\ B \in Seq(Byte)
        /\ m \in Seq(Byte) /\ Len(m) = 1 /\ m[1] = request.method
        /\ Len(u) \in Nat /\ Len(w) \in Nat /\ Len(B) \in Nat
    BY RequestIs
  <1>3. /\ <<"?">> \in Seq(Byte) /\ Len(<<"?">>) = 1 /\ <<"?">>[1] = "?"
        /\ <<"LF">> \in Seq(Byte) /\ Len(<<"LF">>) = 1 /\ <<"LF">>[1] = "LF"
    <2> QED BY Words, Single
  <1>4. /\ l \in Seq(Byte) /\ Len(l) = HeadEnd - FirstLine - 1
        /\ request.kind # "get" =>
             /\ l[1] = "Content" /\ l[2] = "Length" /\ l[3] = "LF"
             /\ l[4] = "Content" /\ l[5] = request.kind /\ l[6] = "LF"
    <2>1. request.kind \in Byte
      <3>1. request.kind \in Kinds
        BY RequestIs DEF WellFormed
      <3> QED BY <3>1, Words
    <2>2. FirstLine \in Nat
      BY HeadSizes
    <2>3. CASE request.kind = "get"
      BY <2>2, <2>3 DEF HeadEnd
    <2>4. CASE request.kind # "get"
      <3>1. l = <<"Content", "Length", "LF", "Content", request.kind, "LF">>
        BY <2>4
      <3> DEFINE k == request.kind
      <3> HIDE DEF l, k
      <3>2. l \in Seq(Byte) /\ Len(l) = 6
        <4>1. <<"Content", "Length", "LF", "Content", k, "LF">> \in Seq(Byte)
          <5>1. \A S : \A a, b, c, d \in S : <<a, b, c, a, d, c>> \in Seq(S)
            OBVIOUS
          <5> QED BY <2>1, <5>1, Words DEF k
        <4> QED BY <3>1, <4>1 DEF k
      <3>3. HeadEnd - FirstLine - 1 = 6
        BY <2>2, <2>4 DEF HeadEnd
      <3> QED BY <3>1, <3>2, <3>3
    <2> QED BY <2>3, <2>4
  <1> HIDE DEF l, m, u, w
  <1> PICK F : F = FirstLine
    OBVIOUS
  <1> PICK E : E = HeadEnd
    OBVIOUS
  <1> PICK a \in Nat : a = Len(u)
    BY <1>2
  <1> PICK c \in Nat : c = Len(w)
    BY <1>2
  <1> PICK n \in Nat : n = Len(B)
    BY <1>2
  <1>5. /\ F = a + c + 3 /\ F \in Nat /\ E \in Nat /\ F < E
        /\ E = F + IF request.kind = "get" THEN 1 ELSE 7
    BY HeadSizes DEF u, w
  <1>6. PICK k \in Nat : k = E - F - 1
    BY <1>5
  <1>7. /\ Joins(s1, m, u, 1, a) /\ Joins(s2, s1, <<"?">>, 1 + a, 1)
        /\ Joins(s3, s2, w, 2 + a, c) /\ Joins(s4, s3, <<"LF">>, 2 + a + c, 1)
        /\ Joins(s5, s4, l, F, k) /\ Joins(s6, s5, <<"LF">>, E - 1, 1)
        /\ Joins(A, s6, B, E, n)
    <2> HIDE DEF s1, s2, s3, s4, s5, s6
    <2>1. Joins(s1, m, u, 1, a)
      <3>1. s1 = m \o u
        BY DEF s1
      <3> QED BY <1>2, <3>1, Chains
    <2>2. s1 \in Seq(Byte) /\ Len(s1) = 1 + a
      BY <2>1 DEF Joins
    <2>3. Joins(s2, s1, <<"?">>, 1 + a, 1)
      <3>1. s2 = s1 \o <<"?">>
        BY DEF s2
      <3> QED BY <1>3, <2>2, <3>1, Chains
    <2>4. s2 \in Seq(Byte) /\ Len(s2) = 2 + a
      BY <2>3 DEF Joins
    <2>5. Joins(s3, s2, w, 2 + a, c)
      <3>1. s3 = s2 \o w
        BY DEF s3
      <3> QED BY <1>2, <2>4, <3>1, Chains
    <2>6. s3 \in Seq(Byte) /\ Len(s3) = 2 + a + c
      BY <2>5 DEF Joins
    <2>7. Joins(s4, s3, <<"LF">>, 2 + a + c, 1)
      <3>1. s4 = s3 \o <<"LF">>
        BY DEF s4
      <3> QED BY <1>3, <2>6, <3>1, Chains
    <2>8. s4 \in Seq(Byte) /\ Len(s4) = F
      BY <1>5, <2>7 DEF Joins
    <2>9. Joins(s5, s4, l, F, k)
      <3>1. s5 = s4 \o l
        BY DEF s5
      <3>2. l \in Seq(Byte) /\ Len(l) = k
        BY <1>4, <1>6
      <3> QED BY <2>8, <3>1, <3>2, Chains
    <2>10. s5 \in Seq(Byte) /\ Len(s5) = E - 1
      <3>1. s5 \in Seq(Byte) /\ Len(s5) = F + k
        BY <2>9 DEF Joins
      <3> QED BY <1>5, <1>6, <3>1
    <2>11. Joins(s6, s5, <<"LF">>, E - 1, 1)
      <3>1. s6 = s5 \o <<"LF">>
        BY DEF s6
      <3> QED BY <1>3, <2>10, <3>1, Chains
    <2>12. s6 \in Seq(Byte) /\ Len(s6) = E
      <3>1. s6 \in Seq(Byte) /\ Len(s6) = E - 1 + 1
        BY <2>11 DEF Joins
      <3> QED BY <1>5, <3>1
    <2>13. Joins(A, s6, B, E, n)
      <3>1. A = s6 \o B
        BY <1>1 DEF s1, s2, s3, s4, s5, s6
      <3> QED BY <1>2, <2>12, <3>1, Chains
    <2> QED BY <2>1, <2>3, <2>5, <2>7, <2>9, <2>11, <2>13
  <1> HIDE DEF s1, s2, s3, s4, s5, s6
  <1>8. A \in Seq(Byte) /\ Len(A) = E + n
    BY <1>7 DEF Joins
  <1>9. /\ \A i \in 1..E : A[i] = s6[i]
        /\ \A i \in 1..n : A[E + i] = B[i]
    BY <1>7 DEF Joins
  <1>10. A[E] = "LF" /\ \A i \in 1..(E - 1) : A[i] = s5[i]
    <2>1. /\ \A i \in 1..(E - 1) : s6[i] = s5[i]
          /\ \A i \in 1..1 : s6[E - 1 + i] = <<"LF">>[i]
      BY <1>7 DEF Joins
    <2>2. s6[E] = "LF"
      <3>1. s6[E - 1 + 1] = <<"LF">>[1]
        BY <2>1
      <3>2. E - 1 + 1 = E
        BY <1>5
      <3> QED BY <1>3, <3>1, <3>2
    <2>3. E \in 1..E /\ \A i \in 1..(E - 1) : i \in 1..E
      BY <1>5
    <2> QED BY <1>9, <2>1, <2>2, <2>3
  <1>11. /\ \A i \in 1..F : A[i] = s4[i]
         /\ \A i \in 1..k : A[F + i] = l[i]
    <2>1. /\ \A i \in 1..F : s5[i] = s4[i]
          /\ \A i \in 1..k : s5[F + i] = l[i]
      BY <1>7 DEF Joins
    <2>2. /\ \A i \in 1..F : i \in 1..(E - 1)
          /\ \A i \in 1..k : F + i \in 1..(E - 1)
      BY <1>5, <1>6
    <2> QED BY <1>10, <2>1, <2>2
  <1>12. A[F] = "LF" /\ \A i \in 1..(2 + a + c) : A[i] = s3[i]
    <2>1. /\ \A i \in 1..(2 + a + c) : s4[i] = s3[i]
          /\ \A i \in 1..1 : s4[2 + a + c + i] = <<"LF">>[i]
      BY <1>7 DEF Joins
    <2>2. s4[F] = "LF"
      <3>1. s4[2 + a + c + 1] = <<"LF">>[1]
        BY <2>1
      <3>2. 2 + a + c + 1 = F
        BY <1>5
      <3> QED BY <1>3, <3>1, <3>2
    <2>3. F \in 1..F /\ \A i \in 1..(2 + a + c) : i \in 1..F
      BY <1>5
    <2> QED BY <1>11, <2>1, <2>2, <2>3
  <1>13. /\ \A i \in 1..(2 + a) : A[i] = s2[i]
         /\ \A i \in 1..c : A[2 + a + i] = w[i]
    <2>1. /\ \A i \in 1..(2 + a) : s3[i] = s2[i]
          /\ \A i \in 1..c : s3[2 + a + i] = w[i]
      BY <1>7 DEF Joins
    <2>2. /\ \A i \in 1..(2 + a) : i \in 1..(2 + a + c)
          /\ \A i \in 1..c : 2 + a + i \in 1..(2 + a + c)
      OBVIOUS
    <2> QED BY <1>12, <2>1, <2>2
  <1>14. A[2 + a] = "?" /\ \A i \in 1..(1 + a) : A[i] = s1[i]
    <2>1. /\ \A i \in 1..(1 + a) : s2[i] = s1[i]
          /\ \A i \in 1..1 : s2[1 + a + i] = <<"?">>[i]
      BY <1>7 DEF Joins
    <2>2. s2[2 + a] = "?"
      <3>1. s2[1 + a + 1] = <<"?">>[1]
        BY <2>1
      <3>2. 1 + a + 1 = 2 + a
        OBVIOUS
      <3> QED BY <1>3, <3>1, <3>2
    <2>3. 2 + a \in 1..(2 + a) /\ \A i \in 1..(1 + a) : i \in 1..(2 + a)
      OBVIOUS
    <2> QED BY <1>13, <2>1, <2>2, <2>3
  <1>15. A[1] = request.method /\ \A i \in 1..a : A[1 + i] = u[i]
    <2>1. /\ \A i \in 1..1 : s1[i] = m[i]
          /\ \A i \in 1..a : s1[1 + i] = u[i]
      BY <1>7 DEF Joins
    <2>2. 1 \in 1..(1 + a) /\ \A i \in 1..a : 1 + i \in 1..(1 + a)
      OBVIOUS
    <2> QED BY <1>2, <1>14, <2>1, <2>2
  <1>16. IF request.kind = "get" THEN A[F + 1] = "LF"
         ELSE /\ A[F + 1] = "Content" /\ A[F + 2] = "Length"
              /\ A[F + 3] = "LF"      /\ A[F + 4] = "Content"
              /\ A[F + 5] = request.kind
              /\ A[F + 6] = "LF" /\ A[F + 7] = "LF"
    <2>1. CASE request.kind = "get"
      <3>1. E = F + 1
        BY <1>5, <2>1
      <3> QED BY <1>10, <2>1, <3>1
    <2>2. CASE request.kind # "get"
      <3>1. E = F + 7 /\ k = 6
        BY <1>5, <1>6, <2>2
      <3>2. A[F + 7] = "LF"
        BY <1>10, <3>1
      <3>3. \A i \in 1..6 : A[F + i] = l[i]
        BY <1>11, <3>1
      <3>4. /\ A[F + 1] = l[1] /\ A[F + 2] = l[2] /\ A[F + 3] = l[3]
            /\ A[F + 4] = l[4] /\ A[F + 5] = l[5] /\ A[F + 6] = l[6]
        BY <3>3
      <3> QED BY <1>4, <2>2, <3>2, <3>4
    <2> QED BY <2>1, <2>2
  <1>17. a + 2 = 2 + a
    OBVIOUS
  <1> QED BY <1>8, <1>9, <1>12, <1>13, <1>14, <1>15, <1>16, <1>17 DEF u, w

(* The request is at least its head.                                       *)
LEMMA WholeHead ==
  ASSUME request \in Requests
  PROVE  /\ A \in Seq(Byte) /\ Len(A) \in Nat /\ Len(A) = HeadEnd + Len(B)
         /\ HeadEnd <= Len(A) /\ A[FirstLine] = "LF"
  <1>1. /\ A \in Seq(Byte) /\ Len(A) = HeadEnd + Len(B)
        /\ A[FirstLine] = "LF"
    BY BytesAre
  <1>2. HeadEnd \in Nat /\ Len(B) \in Nat
    BY HeadSizes
  <1>3. Len(A) \in Nat /\ HeadEnd <= Len(A)
    BY <1>1, <1>2
  <1> QED BY <1>1, <1>3

----------------------------------------------------------------------------
(* Pieces of a sequence                                                    *)

(* A piece of a sequence: its length, and where its members come from.     *)
LEMMA Slice ==
  ASSUME NEW S, NEW a \in Seq(S), NEW m \in Nat, NEW n \in Nat,
         m <= n, n <= Len(a)
  PROVE  /\ SubSeq(a, m + 1, n) \in Seq(S) /\ Len(SubSeq(a, m + 1, n)) = n - m
         /\ \A i \in 1..(n - m) : SubSeq(a, m + 1, n)[i] = a[m + i]
  <1>1. \A i \in (m + 1)..n : a[i] \in S
    <2>1. Len(a) \in Nat
      BY LenProperties
    <2>2. \A i \in (m + 1)..n : i \in 1..Len(a)
      BY <2>1
    <2> QED BY <2>2, ElementOfSeq
  <1>2. /\ SubSeq(a, m + 1, n) \in Seq(S)
        /\ Len(SubSeq(a, m + 1, n)) = IF m + 1 <= n THEN n - (m + 1) + 1 ELSE 0
        /\ \A i \in 1..(n - (m + 1) + 1) : SubSeq(a, m + 1, n)[i] = a[m + 1 + i - 1]
    <2>1. m + 1 \in Int /\ n \in Int
      OBVIOUS
    <2> QED BY <1>1, <2>1, SubSeqProperties
  <1> DEFINE s == SubSeq(a, m + 1, n)
  <1> HIDE DEF s
  <1>3. /\ s \in Seq(S) /\ Len(s) = IF m + 1 <= n THEN n - (m + 1) + 1 ELSE 0
        /\ \A i \in 1..(n - (m + 1) + 1) : s[i] = a[m + 1 + i - 1]
    BY <1>2 DEF s
  <1>4. n - (m + 1) + 1 = n - m /\ \A i \in 1..(n - m) : m + 1 + i - 1 = m + i
    OBVIOUS
  <1>5. s \in Seq(S) /\ Len(s) = n - m /\ \A i \in 1..(n - m) : s[i] = a[m + i]
    BY <1>3, <1>4
  <1> QED BY <1>5 DEF s

(* A piece of a piece is a piece.                                          *)
LEMMA SliceOfSlice ==
  ASSUME NEW S, NEW a \in Seq(S), NEW p \in Nat, NEW r \in Nat, p <= r, r <= Len(a),
         NEW m \in Nat, NEW n \in Nat, m <= n, n <= r - p
  PROVE  SubSeq(SubSeq(a, p + 1, r), m + 1, n) = SubSeq(a, p + m + 1, p + n)
  <1> DEFINE b == SubSeq(a, p + 1, r)
             c == SubSeq(b, m + 1, n)
             d == SubSeq(a, p + m + 1, p + n)
  <1>1. b \in Seq(S) /\ Len(b) = r - p /\ \A i \in 1..(r - p) : b[i] = a[p + i]
    BY Slice
  <1> HIDE DEF b
  <1>2. c \in Seq(S) /\ Len(c) = n - m /\ \A i \in 1..(n - m) : c[i] = b[m + i]
    BY <1>1, Slice
  <1>3. /\ d \in Seq(S) /\ Len(d) = n - m
        /\ \A i \in 1..(n - m) : d[i] = a[p + m + i]
    <2>1. p + m \in Nat /\ p + n \in Nat /\ p + m <= p + n /\ p + n <= Len(a)
          /\ p + n - (p + m) = n - m
      OBVIOUS
    <2>2. /\ d \in Seq(S) /\ Len(d) = p + n - (p + m)
          /\ \A i \in 1..(p + n - (p + m)) : d[i] = a[p + m + i]
      BY <2>1, Slice
    <2> QED BY <2>1, <2>2
  <1> HIDE DEF c, d
  <1>4. \A i \in 1..(n - m) : c[i] = d[i]
    <2> TAKE i \in 1..(n - m)
    <2>1. m + i \in 1..(r - p) /\ p + (m + i) = p + m + i
      OBVIOUS
    <2> QED BY <1>1, <1>2, <1>3, <2>1
  <1>5. c = d
    BY <1>2, <1>3, <1>4, SeqEqual
  <1> QED BY <1>5 DEF b, c, d

(* Two pieces next to each other make one.                                 *)
LEMMA Joined ==
  ASSUME NEW S, NEW a \in Seq(S), NEW i \in Nat, NEW j \in Nat, NEW k \in Nat,
         i <= j, j <= k, k <= Len(a)
  PROVE  SubSeq(a, i + 1, j) \o SubSeq(a, j + 1, k) = SubSeq(a, i + 1, k)
  <1>1. Len(a) \in Nat
    BY LenProperties
  <1>2. i + 1 \in 1..(Len(a) + 1) /\ j \in (i + 1 - 1)..Len(a) /\ k \in j..Len(a)
    BY <1>1
  <1> QED BY <1>2, ConcatAdjacentSubSeq

(* Three sequences, joined one way or the other.                           *)
Regrouped(e, f, g) == (e \o f) \o g = e \o (f \o g)

(* It makes no difference.                                                 *)
LEMMA Regroup ==
  \A S : \A e, f, g \in Seq(S) : Regrouped(e, f, g)
  BY ConcatAssociative DEF Regrouped

(* The least of some numbers, and the place of a byte.                     *)
LEMMA Least ==
  ASSUME NEW U \in SUBSET Nat, U # {}
  PROVE  Min(U) \in U /\ \A y \in U : Min(U) <= y
  <1>1. PICK x \in U : \A y \in U : ~ (<<y, x>> \in OpToRel(<, Nat))
    BY NatLessThanWellFounded, WFMin
  <1>2. \A y \in U : x <= y
    <2> TAKE y \in U
    <2>1. x \in Nat /\ y \in Nat
      OBVIOUS
    <2> SUFFICES ASSUME y < x PROVE FALSE
      BY <2>1
    <2>2. <<y, x>> \in OpToRel(<, Nat)
      BY <2>1 DEF OpToRel
    <2> QED BY <1>1, <2>2
  <1> QED BY <1>2 DEF Min

(* IndexOf is the first place of t in s, or the one after its end.         *)
LEMMA PlaceIs ==
  ASSUME NEW S, NEW s \in Seq(S), NEW t
  PROVE  /\ IndexOf(s, t) \in 1..(Len(s) + 1)
         /\ IndexOf(s, t) <= Len(s) => s[IndexOf(s, t)] = t
         /\ \A j \in 1..Len(s) : s[j] = t => IndexOf(s, t) <= j
  <1> DEFINE U == {i \in 1..Len(s) : s[i] = t} \cup {Len(s) + 1}
  <1>1. Len(s) \in Nat
    BY LenProperties
  <1>2. U \in SUBSET Nat /\ U # {}
    BY <1>1
  <1>3. Min(U) \in U /\ \A y \in U : Min(U) <= y
    BY <1>2, Least
  <1>4. IndexOf(s, t) = Min(U)
    BY DEF IndexOf
  <1> DEFINE m == Min(U)
  <1> HIDE DEF m
  <1>5. m \in U /\ \A y \in U : m <= y
    BY <1>3 DEF m
  <1>6. /\ m \in 1..(Len(s) + 1)
        /\ m <= Len(s) => s[m] = t
        /\ \A j \in 1..Len(s) : s[j] = t => m <= j
    BY <1>1, <1>5
  <1> QED BY <1>4, <1>6 DEF m

(* A packet in which a line goes on, or ends.                              *)
Split(buf, a, p, r, e) ==
  LET i == IndexOf(buf, "LF")
  IN /\ Len(buf) = r - p /\ i \in Nat
     /\ r < e => i > Len(buf) /\ SubSeq(buf, 1, i - 1) = buf
     /\ ~(r < e) =>
          /\ i <= Len(buf) /\ SubSeq(buf, 1, i - 1) = SubSeq(a, p + 1, e - 1)
          /\ SubSeq(buf, i + 1, Len(buf)) = SubSeq(a, e + 1, r)

(* Of a packet of the bytes p + 1 to r of a request, in a line that ends   *)
(* at byte e: its LF is found when it is there, and cut the packet in the  *)
(* line and what follows.                                                  *)
LEMMA LineEnds ==
  ASSUME NEW S, NEW a \in Seq(S), NEW p \in Nat, NEW r \in Nat, NEW e \in Nat,
         p <= r, r <= Len(a), p < e, e <= Len(a), a[e] = "LF",
         \A k \in (p + 1)..(e - 1) : a[k] # "LF"
  PROVE  Split(SubSeq(a, p + 1, r), a, p, r, e)
  <1> DEFINE buf == SubSeq(a, p + 1, r)
             i   == IndexOf(buf, "LF")
  <1>1. buf \in Seq(S) /\ Len(buf) = r - p /\ \A k \in 1..(r - p) : buf[k] = a[p + k]
    BY Slice
  <1> HIDE DEF buf
  <1>2. /\ i \in 1..(r - p + 1)
        /\ i <= r - p => buf[i] = "LF"
        /\ \A j \in 1..(r - p) : buf[j] = "LF" => i <= j
    BY <1>1, PlaceIs
  <1> HIDE DEF i
  <1>3. CASE r < e
    <2>1. \A k \in 1..(r - p) : p + k \in (p + 1)..(e - 1)
      BY <1>3
    <2>2. i = r - p + 1
      <3> SUFFICES ASSUME i \in 1..(r - p) PROVE FALSE
        BY <1>2
      <3>1. buf[i] = a[p + i] /\ p + i \in (p + 1)..(e - 1)
        BY <1>1, <2>1
      <3> QED BY <1>2, <3>1
    <2>3. SubSeq(buf, 1, Len(buf)) = buf
      BY <1>1, SubSeqFull
    <2>4. i > Len(buf) /\ i - 1 = Len(buf)
      BY <1>1, <2>2
    <2>5. Split(buf, a, p, r, e)
      BY <1>1, <1>3, <2>3, <1>2, <2>4 DEF i, Split
    <2> QED BY <2>5 DEF buf
  <1>4. CASE ~(r < e)
    <2>1. e - p \in 1..(r - p) /\ p + (e - p) = e
      BY <1>4
    <2>2. buf[e - p] = "LF"
      BY <1>1, <2>1
    <2>3. i <= e - p
      BY <1>2, <2>1, <2>2
    <2>4. ~(i < e - p)
      <3> SUFFICES ASSUME i < e - p PROVE FALSE
        OBVIOUS
      <3>1. i \in 1..(r - p) /\ p + i \in (p + 1)..(e - 1)
        BY <1>2, <2>1
      <3> QED BY <1>1, <1>2, <3>1
    <2>5. i = e - p
      BY <1>2, <2>1, <2>3, <2>4
    <2>6. SubSeq(buf, 1, i - 1) = SubSeq(a, p + 1, e - 1)
      <3>1. 0 \in Nat /\ i - 1 \in Nat /\ 0 <= i - 1 /\ i - 1 <= r - p
        BY <2>1, <2>5
      <3>2. SubSeq(SubSeq(a, p + 1, r), 0 + 1, i - 1) = SubSeq(a, p + 0 + 1, p + (i - 1))
        BY <3>1, SliceOfSlice
      <3>3. 0 + 1 = 1 /\ p + 0 + 1 = p + 1 /\ p + (i - 1) = e - 1
        BY <2>5
      <3> QED BY <3>2, <3>3 DEF buf
    <2>7. SubSeq(buf, i + 1, Len(buf)) = SubSeq(a, e + 1, r)
      <3>1. i \in Nat /\ r - p \in Nat /\ i <= r - p
        BY <2>1, <2>5
      <3>2. SubSeq(SubSeq(a, p + 1, r), i + 1, r - p) = SubSeq(a, p + i + 1, p + (r - p))
        BY <3>1, SliceOfSlice
      <3>3. p + i + 1 = e + 1 /\ p + (r - p) = r
        BY <2>5
      <3> QED BY <1>1, <3>2, <3>3 DEF buf
    <2>8. i <= Len(buf)
      BY <1>1, <2>1, <2>5
    <2>9. Len(buf) = r - p /\ i \in Nat
      BY <1>1, <1>2
    <2>10. Split(buf, a, p, r, e)
      BY <1>4, <2>6, <2>7, <2>8, <2>9 DEF i, Split
    <2> QED BY <2>10 DEF buf
  <1> QED BY <1>3, <1>4

(* A text from its end, byte by byte.                                      *)
EncodeSteps(s) ==
  \E g : /\ Encode(s) = g[1] /\ g[Len(s) + 1] = <<>>
         /\ \A i \in 1..Len(s) : g[i] = Code(s[i]) \o g[i + 1]

(* What Encode is defined by: the codes of the bytes, one after the other. *)
LEMMA EncodeLoop ==
  ASSUME NEW s, Len(s) \in Nat
  PROVE  EncodeSteps(s)
  <1> DEFINE N == Len(s)
             last == <<>>
             Step(y, i) == Code(s[i]) \o y
             Is(g, n) == g = [i \in (N + 1 - n)..(N + 1) |->
                                IF i > N THEN last ELSE Step(g[i + 1], i)]
             All(g) == g = [i \in 1..(N + 1) |->
                              IF i > N THEN last ELSE Step(g[i + 1], i)]
             T == {n \in Nat : \E g : Is(g, n)}
  <1>1. Encode(s) = (CHOOSE g : All(g))[1]
    BY DEF Encode
  <1> HIDE DEF Step, last
  <1>2. 0 \in T
    <2> DEFINE g == [i \in (N + 1)..(N + 1) |-> last]
    <2>1. Is(g, 0)
      OBVIOUS
    <2> HIDE DEF g, Is
    <2> QED BY <2>1
  <1>3. ASSUME NEW n \in T PROVE n + 1 \in T
    <2>1. PICK h : Is(h, n)
      OBVIOUS
    <2> DEFINE g == [i \in (N - n)..(N + 1) |->
                       IF i = N - n THEN Step(h[i + 1], i) ELSE h[i]]
    <2>2. \A i \in (N + 1 - n)..(N + 1) :
            h[i] = IF i > N THEN last ELSE Step(h[i + 1], i)
      BY <2>1
    <2>3. \A i \in (N - n)..(N + 1) :
            g[i] = IF i > N THEN last ELSE Step(g[i + 1], i)
      BY <2>2
    <2>4. Is(g, n + 1)
      <3>1. N + 1 - (n + 1) = N - n
        OBVIOUS
      <3> QED BY <2>3, <3>1
    <2> HIDE DEF g, Is
    <2> QED BY <2>4
  <1> DEFINE g == CHOOSE h : All(h)
  <1>4. All(g)
    <2>1. \E h : Is(h, N)
      <3> HIDE DEF Is
      <3> QED BY <1>2, <1>3, Induction
    <2>2. N + 1 - N = 1
      OBVIOUS
    <2>3. \E h : All(h)
      BY <2>1, <2>2
    <2> HIDE DEF All
    <2> QED BY <2>3
  <1> HIDE DEF g
  <1>5. g[N + 1] = last /\ \A i \in 1..N : g[i] = Step(g[i + 1], i)
    BY <1>4
  <1> QED BY <1>1, <1>5 DEF Step, last, g, EncodeSteps

(* What urlDecode finds from each place of a text to its end.              *)
DecodedFrom(g, s) ==
  \A i \in 1..(Len(s) + 1) :
    g[i] = IF i > Len(s) THEN <<>>
           ELSE IF s[i] = "%" /\ i + 2 <= Len(s)
           THEN <<Char(s[i + 1], s[i + 2])>> \o g[i + 3]
           ELSE <<IF s[i] = "+" THEN " " ELSE s[i]>> \o g[i + 1]

DecodeSteps(s) == \E g : UrlDecode(s) = g[1] /\ DecodedFrom(g, s)

(* What UrlDecode is defined by: a byte, or three, at a time.              *)
LEMMA DecodeLoop ==
  ASSUME NEW s, Len(s) \in Nat
  PROVE  DecodeSteps(s)
  <1> DEFINE N == Len(s)
             Step(y, z, i) ==
               IF s[i] = "%" /\ i + 2 <= N THEN <<Char(s[i + 1], s[i + 2])>> \o z
               ELSE <<IF s[i] = "+" THEN " " ELSE s[i]>> \o y
             Is(g, n) == g = [i \in (N + 1 - n)..(N + 1) |->
                                IF i > N THEN <<>> ELSE Step(g[i + 1], g[i + 3], i)]
             All(g) == g = [i \in 1..(N + 1) |->
                              IF i > N THEN <<>> ELSE Step(g[i + 1], g[i + 3], i)]
             T == {n \in Nat : \E g : Is(g, n)}
  <1>1. UrlDecode(s) = (CHOOSE g : All(g))[1]
    BY DEF UrlDecode
  <1>s. \A y, z1, z2 : \A i \in Nat : i + 2 > N => Step(y, z1, i) = Step(y, z2, i)
    <2> TAKE y, z1, z2
    <2> TAKE i \in Nat
    <2> HAVE i + 2 > N
    <2>1. ~(i + 2 <= N)
      OBVIOUS
    <2> QED BY <2>1
  <1> HIDE DEF Step
  <1>2. 0 \in T
    <2> DEFINE g == [i \in (N + 1)..(N + 1) |-> <<>>]
    <2>1. Is(g, 0)
      OBVIOUS
    <2> HIDE DEF g, Is
    <2> QED BY <2>1
  <1>3. ASSUME NEW n \in T, n < N PROVE n + 1 \in T
    <2>1. PICK h : Is(h, n)
      OBVIOUS
    <2> DEFINE g == [i \in (N - n)..(N + 1) |->
                       IF i = N - n THEN Step(h[i + 1], h[i + 3], i) ELSE h[i]]
    <2>2. \A i \in (N + 1 - n)..(N + 1) :
            h[i] = IF i > N THEN <<>> ELSE Step(h[i + 1], h[i + 3], i)
      BY <2>1
    <2>3. \A i \in (N - n)..(N + 1) :
            g[i] = IF i > N THEN <<>> ELSE Step(g[i + 1], g[i + 3], i)
      <3> TAKE i \in (N - n)..(N + 1)
      <3>1. CASE i > N
        BY <2>2, <3>1
      <3>2. CASE i <= N /\ i + 2 > N
        <4>1. i + 1 \in (N - n)..(N + 1) /\ i + 1 # N - n /\ i \in Nat
          BY <3>2, <1>3
        <4>2. g[i + 1] = h[i + 1]
          BY <4>1
        <4>3. g[i] = Step(h[i + 1], h[i + 3], i)
          BY <2>2, <3>2
        <4>4. Step(g[i + 1], g[i + 3], i) = Step(g[i + 1], h[i + 3], i)
          BY <1>s, <3>2, <4>1
        <4> QED BY <3>2, <4>2, <4>3, <4>4
      <3>3. CASE i + 2 <= N
        <4>1. /\ i + 1 \in (N - n)..(N + 1) /\ i + 1 # N - n
              /\ i + 3 \in (N - n)..(N + 1) /\ i + 3 # N - n
          BY <3>3
        <4>2. g[i + 1] = h[i + 1] /\ g[i + 3] = h[i + 3]
          BY <4>1
        <4>3. g[i] = Step(h[i + 1], h[i + 3], i)
          BY <2>2, <3>3
        <4> QED BY <3>3, <4>2, <4>3
      <3> QED BY <3>1, <3>2, <3>3
    <2>4. Is(g, n + 1)
      <3>1. N + 1 - (n + 1) = N - n
        OBVIOUS
      <3> QED BY <2>3, <3>1
    <2> HIDE DEF g, Is
    <2> QED BY <2>4
  <1> DEFINE g == CHOOSE h : All(h)
  <1>4. All(g)
    <2>1. N \in T
      <3> DEFINE U == {n \in Nat : n <= N => n \in T}
      <3>1. 0 \in U
        BY <1>2
      <3>2. ASSUME NEW n \in U PROVE n + 1 \in U
        <4> HIDE DEF T
        <4> QED BY <1>3
      <3>3. U \in SUBSET Nat
        OBVIOUS
      <3> HIDE DEF U, T
      <3>4. U = Nat
        BY <3>1, <3>2, <3>3, Induction
      <3> QED BY <3>4 DEF U
    <2>2. N + 1 - N = 1
      OBVIOUS
    <2>3. \E h : All(h)
      BY <2>1, <2>2
    <2> HIDE DEF All
    <2> QED BY <2>3
  <1> HIDE DEF g
  <1>5. \A i \in 1..(N + 1) : g[i] = IF i > N THEN <<>> ELSE Step(g[i + 1], g[i + 3], i)
    BY <1>4
  <1> QED BY <1>1, <1>5 DEF Step, g, DecodedFrom, DecodeSteps

(* The parameters found from each place of a text to its end.              *)
EndFrom(s, i) == i + IndexOf(SubSeq(s, i, Len(s)), "&") - 1

ListedFrom(g, s, form) ==
  \A i \in 1..(Len(s) + 2) :
    g[i] = IF i > Len(s) THEN <<>>
           ELSE <<ParamOf(SubSeq(s, i, EndFrom(s, i) - 1), form)>> \o g[EndFrom(s, i) + 1]

(* The end of an item.                                                     *)
LEMMA EndIs ==
  ASSUME NEW S, NEW s \in Seq(S), NEW i \in 1..Len(s)
  PROVE  /\ EndFrom(s, i) \in i..(Len(s) + 1)
         /\ EndFrom(s, i) <= Len(s) => s[EndFrom(s, i)] = "&"
         /\ \A j \in i..Len(s) : s[j] = "&" => EndFrom(s, i) <= j
  <1> DEFINE t == SubSeq(s, i, Len(s))
             e == IndexOf(t, "&")
             n == Len(s)
  <1>1. n \in Nat /\ i - 1 \in Nat /\ i - 1 <= n /\ i - 1 + 1 = i
    BY LenProperties
  <1>2. /\ t \in Seq(S) /\ Len(t) = n - (i - 1)
        /\ \A k \in 1..(n - (i - 1)) : t[k] = s[i - 1 + k]
    <2>1. /\ SubSeq(s, i - 1 + 1, n) \in Seq(S)
          /\ Len(SubSeq(s, i - 1 + 1, n)) = n - (i - 1)
          /\ \A k \in 1..(n - (i - 1)) : SubSeq(s, i - 1 + 1, n)[k] = s[i - 1 + k]
      BY <1>1, Slice
    <2> QED BY <1>1, <2>1
  <1> HIDE DEF t
  <1>3. /\ e \in 1..(Len(t) + 1) /\ (e <= Len(t) => t[e] = "&")
        /\ \A j \in 1..Len(t) : t[j] = "&" => e <= j
    BY <1>2, PlaceIs
  <1>4. EndFrom(s, i) = i + e - 1
    BY DEF EndFrom, t
  <1> HIDE DEF e, n
  <1>5. i + e - 1 \in i..(n + 1)
    BY <1>1, <1>2, <1>3
  <1>6. ASSUME i + e - 1 <= n PROVE s[i + e - 1] = "&"
    <2>1. e <= n - (i - 1) /\ e \in 1..(n - (i - 1)) /\ i - 1 + e = i + e - 1
      BY <1>1, <1>2, <1>3, <1>6
    <2> QED BY <1>2, <1>3, <2>1
  <1>7. ASSUME NEW j \in i..n, s[j] = "&" PROVE i + e - 1 <= j
    <2>1. j - i + 1 \in 1..(n - (i - 1)) /\ i - 1 + (j - i + 1) = j
      BY <1>1
    <2>2. t[j - i + 1] = "&"
      BY <1>2, <1>7, <2>1
    <2>3. e <= j - i + 1
      BY <1>2, <1>3, <2>1, <2>2
    <2> QED BY <1>1, <1>3, <1>2, <2>3
  <1> QED BY <1>4, <1>5, <1>6, <1>7 DEF n

(* What the loop over the items is defined by, for a query and a form.     *)
LEMMA ListLoop ==
  ASSUME NEW S, NEW s \in Seq(S), NEW form
  PROVE  ListedFrom(ParamsFrom(s, form), s, form)
  <1> DEFINE N == Len(s)
             End(i) == i + IndexOf(SubSeq(s, i, Len(s)), "&") - 1
             Step(y, i) == <<ParamOf(SubSeq(s, i, End(i) - 1), form)>> \o y
             Is(g, n) == g = [i \in (N + 1 - n)..(N + 2) |->
                                IF i > N THEN <<>> ELSE Step(g[End(i) + 1], i)]
             All(g) == g = [i \in 1..(N + 2) |->
                              IF i > N THEN <<>> ELSE Step(g[End(i) + 1], i)]
             T == {n \in Nat : n <= N => \E g : Is(g, n)}
  <1>1. ParamsFrom(s, form) = CHOOSE g : All(g)
    BY DEF ParamsFrom
  <1>s. N \in Nat /\ \A i \in 1..N : End(i) \in i..(N + 1)
    BY EndIs, LenProperties DEF EndFrom
  <1> HIDE DEF Step, End
  <1> HIDE DEF N
  <1>2. 0 \in T
    <2> DEFINE g == [i \in (N + 1)..(N + 2) |-> <<>>]
    <2>1. Is(g, 0)
      BY <1>s
    <2> HIDE DEF g, Is
    <2> QED BY <2>1
  <1>3. ASSUME NEW n \in T PROVE n + 1 \in T
    <2> SUFFICES ASSUME n + 1 <= N PROVE \E g : Is(g, n + 1)
      OBVIOUS
    <2>1. PICK h : Is(h, n)
      BY <1>s
    <2> DEFINE g == [i \in (N - n)..(N + 2) |->
                       IF i = N - n THEN Step(h[End(i) + 1], i) ELSE h[i]]
    <2>2. \A i \in (N + 1 - n)..(N + 2) :
            h[i] = IF i > N THEN <<>> ELSE Step(h[End(i) + 1], i)
      BY <2>1
    <2>3. \A i \in (N - n)..(N + 2) :
            g[i] = IF i > N THEN <<>> ELSE Step(g[End(i) + 1], i)
      <3> TAKE i \in (N - n)..(N + 2)
      <3>1. CASE i > N
        <4>1. n \in Nat /\ N \in Nat /\ i \in (N + 1 - n)..(N + 2) /\ i # N - n
          BY <3>1, <1>s
        <4>2. h[i] = <<>>
          BY <2>2, <3>1, <4>1
        <4>3. g[i] = h[i]
          BY <4>1
        <4> QED BY <3>1, <4>2, <4>3
      <3>2. CASE i <= N
        <4>1. i \in 1..N /\ ~(i > N)
          BY <1>s, <3>2
        <4>2. End(i) \in i..(N + 1)
          BY <1>s, <4>1
        <4>3. End(i) + 1 \in (N - n)..(N + 2) /\ End(i) + 1 # N - n
          BY <4>1, <4>2, <1>s
        <4>4. g[End(i) + 1] = h[End(i) + 1]
          BY <4>3
        <4>5. g[i] = Step(h[End(i) + 1], i)
          <5>1. CASE i = N - n
            BY <5>1
          <5>2. CASE i # N - n
            <6>1. n \in Nat /\ i \in (N + 1 - n)..(N + 2)
              BY <5>2, <1>s
            <6>2. h[i] = Step(h[End(i) + 1], i)
              BY <2>2, <4>1, <6>1
            <6> QED BY <5>2, <6>2
          <5> QED BY <5>1, <5>2
        <4> QED BY <4>1, <4>4, <4>5
      <3> QED BY <3>1, <3>2, <1>s
    <2>4. Is(g, n + 1)
      <3>1. N + 1 - (n + 1) = N - n
        BY <1>s
      <3> QED BY <2>3, <3>1
    <2> HIDE DEF g, Is
    <2> QED BY <2>4
  <1> DEFINE g == CHOOSE h : All(h)
  <1>4. All(g)
    <2>1. \E h : Is(h, N)
      <3>1. T \in SUBSET Nat
        OBVIOUS
      <3> HIDE DEF T
      <3>2. N \in T
        BY <1>2, <1>3, <1>s, <3>1, Induction
      <3> HIDE DEF Is
      <3> QED BY <3>2, <1>s DEF T
    <2>2. N + 1 - N = 1
      BY <1>s
    <2>3. \E h : All(h)
      BY <2>1, <2>2
    <2> HIDE DEF All
    <2> QED BY <2>3
  <1> HIDE DEF g
  <1>5. \A i \in 1..(N + 2) : g[i] = IF i > N THEN <<>> ELSE Step(g[End(i) + 1], i)
    BY <1>4
  <1> QED BY <1>1, <1>5 DEF Step, g, N, End, EndFrom, ListedFrom

(* The parameters of the query are added to those that are there.          *)
AddSteps(x, s) ==
  \E g : /\ AddGetParams(x, s) = [x EXCEPT !.params = @ \o g[1]]
         /\ ListedFrom(g, s, FALSE)

(* What AddGetParams is defined by.                                        *)
LEMMA AddLoop ==
  ASSUME NEW S, NEW s \in Seq(S), NEW x
  PROVE  AddSteps(x, s)
  <1> DEFINE N == Len(s)
             End(i) == i + IndexOf(SubSeq(s, i, Len(s)), "&") - 1
             Named(p) == Param(p[1], p[2], FALSE, FALSE, 0)
             Step(y, i) == <<Named(Pair(SubSeq(s, i, End(i) - 1)))>> \o y
             Is(g, n) == g = [i \in (N + 1 - n)..(N + 2) |->
                                IF i > N THEN <<>> ELSE Step(g[End(i) + 1], i)]
             All(g) == g = [i \in 1..(N + 2) |->
                              IF i > N THEN <<>> ELSE Step(g[End(i) + 1], i)]
             T == {n \in Nat : n <= N => \E g : Is(g, n)}
  <1>1. AddGetParams(x, s) = [x EXCEPT !.params = @ \o (CHOOSE g : All(g))[1]]
    BY DEF AddGetParams
  <1>s. N \in Nat /\ \A i \in 1..N : End(i) \in i..(N + 1)
    BY EndIs, LenProperties DEF EndFrom
  <1> HIDE DEF Step, End
  <1> HIDE DEF N
  <1>2. 0 \in T
    <2> DEFINE g == [i \in (N + 1)..(N + 2) |-> <<>>]
    <2>1. Is(g, 0)
      BY <1>s
    <2> HIDE DEF g, Is
    <2> QED BY <2>1
  <1>3. ASSUME NEW n \in T PROVE n + 1 \in T
    <2> SUFFICES ASSUME n + 1 <= N PROVE \E g : Is(g, n + 1)
      OBVIOUS
    <2>1. PICK h : Is(h, n)
      BY <1>s
    <2> DEFINE g == [i \in (N - n)..(N + 2) |->
                       IF i = N - n THEN Step(h[End(i) + 1], i) ELSE h[i]]
    <2>2. \A i \in (N + 1 - n)..(N + 2) :
            h[i] = IF i > N THEN <<>> ELSE Step(h[End(i) + 1], i)
      BY <2>1
    <2>3. \A i \in (N - n)..(N + 2) :
            g[i] = IF i > N THEN <<>> ELSE Step(g[End(i) + 1], i)
      <3> TAKE i \in (N - n)..(N + 2)
      <3>1. CASE i > N
        <4>1. n \in Nat /\ N \in Nat /\ i \in (N + 1 - n)..(N + 2) /\ i # N - n
          BY <3>1, <1>s
        <4>2. h[i] = <<>>
          BY <2>2, <3>1, <4>1
        <4>3. g[i] = h[i]
          BY <4>1
        <4> QED BY <3>1, <4>2, <4>3
      <3>2. CASE i <= N
        <4>1. i \in 1..N /\ ~(i > N)
          BY <1>s, <3>2
        <4>2. End(i) \in i..(N + 1)
          BY <1>s, <4>1
        <4>3. End(i) + 1 \in (N - n)..(N + 2) /\ End(i) + 1 # N - n
          BY <4>1, <4>2, <1>s
        <4>4. g[End(i) + 1] = h[End(i) + 1]
          BY <4>3
        <4>5. g[i] = Step(h[End(i) + 1], i)
          <5>1. CASE i = N - n
            BY <5>1
          <5>2. CASE i # N - n
            <6>1. n \in Nat /\ i \in (N + 1 - n)..(N + 2)
              BY <5>2, <1>s
            <6>2. h[i] = Step(h[End(i) + 1], i)
              BY <2>2, <4>1, <6>1
            <6> QED BY <5>2, <6>2
          <5> QED BY <5>1, <5>2
        <4> QED BY <4>1, <4>4, <4>5
      <3> QED BY <3>1, <3>2, <1>s
    <2>4. Is(g, n + 1)
      <3>1. N + 1 - (n + 1) = N - n
        BY <1>s
      <3> QED BY <2>3, <3>1
    <2> HIDE DEF g, Is
    <2> QED BY <2>4
  <1> DEFINE g == CHOOSE h : All(h)
  <1>4. All(g)
    <2>1. \E h : Is(h, N)
      <3>1. T \in SUBSET Nat
        OBVIOUS
      <3> HIDE DEF T
      <3>2. N \in T
        BY <1>2, <1>3, <1>s, <3>1, Induction
      <3> HIDE DEF Is
      <3> QED BY <3>2, <1>s DEF T
    <2>2. N + 1 - N = 1
      BY <1>s
    <2>3. \E h : All(h)
      BY <2>1, <2>2
    <2> HIDE DEF All
    <2> QED BY <2>3
  <1> HIDE DEF g
  <1>5. \A i \in 1..(N + 2) : g[i] = IF i > N THEN <<>> ELSE Step(g[End(i) + 1], i)
    BY <1>4
  <1>6. \A t : ParamOf(t, FALSE) = Named(Pair(t))
    BY DEF ParamOf
  <1>7. ListedFrom(g, s, FALSE)
    BY <1>5, <1>6 DEF Step, N, End, EndFrom, ListedFrom
  <1> QED BY <1>1, <1>7 DEF g, AddSteps

(* The items of a query or of a form, from their end.                      *)
LEMMA ItemsLoop ==
  ASSUME NEW items, Len(items) \in Nat
  PROVE  /\ ItemsFrom(items)[Len(items) + 1] = <<>>
         /\ \A i \in 1..Len(items) :
              ItemsFrom(items)[i] =
                Text(items[i]) \o (IF i = Len(items) THEN <<>> ELSE <<"&">>)
                  \o ItemsFrom(items)[i + 1]
  <1> DEFINE N == Len(items)
             last == <<>>
             Step(y, i) == Text(items[i]) \o (IF i = N THEN <<>> ELSE <<"&">>) \o y
             Is(g, n) == g = [i \in (N + 1 - n)..(N + 1) |->
                                IF i > N THEN last ELSE Step(g[i + 1], i)]
             All(g) == g = [i \in 1..(N + 1) |->
                              IF i > N THEN last ELSE Step(g[i + 1], i)]
             T == {n \in Nat : \E g : Is(g, n)}
  <1>1. ItemsFrom(items) = CHOOSE g : All(g)
    BY Zenon DEF ItemsFrom
  <1> HIDE DEF Step, last
  <1>2. 0 \in T
    <2> DEFINE g == [i \in (N + 1)..(N + 1) |-> last]
    <2>1. Is(g, 0)
      OBVIOUS
    <2> HIDE DEF g, Is
    <2> QED BY <2>1
  <1>3. ASSUME NEW n \in T PROVE n + 1 \in T
    <2>1. PICK h : Is(h, n)
      OBVIOUS
    <2> DEFINE g == [i \in (N - n)..(N + 1) |->
                       IF i = N - n THEN Step(h[i + 1], i) ELSE h[i]]
    <2>2. \A i \in (N + 1 - n)..(N + 1) :
            h[i] = IF i > N THEN last ELSE Step(h[i + 1], i)
      BY <2>1
    <2>3. \A i \in (N - n)..(N + 1) :
            g[i] = IF i > N THEN last ELSE Step(g[i + 1], i)
      BY <2>2
    <2>4. Is(g, n + 1)
      <3>1. N + 1 - (n + 1) = N - n
        OBVIOUS
      <3> QED BY <2>3, <3>1
    <2> HIDE DEF g, Is
    <2> QED BY <2>4
  <1> DEFINE g == CHOOSE h : All(h)
  <1>4. All(g)
    <2>1. \E h : Is(h, N)
      <3> HIDE DEF Is
      <3> QED BY <1>2, <1>3, Induction
    <2>2. N + 1 - N = 1
      OBVIOUS
    <2>3. \E h : All(h)
      BY <2>1, <2>2
    <2> HIDE DEF All
    <2> QED BY <2>3
  <1> HIDE DEF g
  <1>5. g[N + 1] = last /\ \A i \in 1..N : g[i] = Step(g[i + 1], i)
    BY <1>4
  <1> QED BY <1>1, <1>5 DEF Step, last, g

(* The parameters of the parts, part by part.                              *)
LEMMA PartParamsLoop ==
  ASSUME NEW parts, Len(parts) \in Nat
  PROVE  /\ PartsUpTo(parts)[0] = <<>>
         /\ \A i \in 1..Len(parts) :
              PartsUpTo(parts)[i] =
                PartsUpTo(parts)[i - 1]
                  \o IF parts[i].file /\ parts[i].value = <<>> THEN <<>>
                     ELSE <<PartMeaning(parts[i])>>
  <1> DEFINE N == Len(parts)
             Step(y, i) == y \o IF parts[i].file /\ parts[i].value = <<>> THEN <<>>
                                ELSE <<PartMeaning(parts[i])>>
             first == <<>>
             Is(g, n) == g = [i \in 0..n |-> IF i = 0 THEN first ELSE Step(g[i - 1], i)]
             T == {n \in Nat : \E g : Is(g, n)}
  <1>1. PartsUpTo(parts) = CHOOSE g : Is(g, N)
    BY DEF PartsUpTo
  <1> HIDE DEF Step, first
  <1>2. 0 \in T
    <2> DEFINE g == [i \in 0..0 |-> first]
    <2>1. Is(g, 0)
      OBVIOUS
    <2> HIDE DEF g, Is
    <2> QED BY <2>1
  <1>3. ASSUME NEW n \in T PROVE n + 1 \in T
    <2>1. PICK h : Is(h, n)
      OBVIOUS
    <2> DEFINE g == [i \in 0..(n + 1) |-> IF i = n + 1 THEN Step(h[n], i) ELSE h[i]]
    <2>2. \A i \in 0..n : h[i] = IF i = 0 THEN first ELSE Step(h[i - 1], i)
      BY <2>1
    <2>3. \A i \in 0..(n + 1) : g[i] = IF i = 0 THEN first ELSE Step(g[i - 1], i)
      BY <2>2
    <2>4. Is(g, n + 1)
      BY <2>3
    <2> HIDE DEF g, Is
    <2> QED BY <2>4
  <1> DEFINE g == CHOOSE h : Is(h, N)
  <1>4. Is(g, N)
    <2> HIDE DEF Is
    <2>1. \E h : Is(h, N)
      BY <1>2, <1>3, Induction
    <2> QED BY <2>1
  <1> HIDE DEF g
  <1>5. g[0] = first /\ \A i \in 1..N : g[i] = Step(g[i - 1], i)
    BY <1>4
  <1> QED BY <1>1, <1>5 DEF Step, first, g

----------------------------------------------------------------------------
(* urlDecode finds what was encoded                                        *)

(* What is found in a text does not depend on what is before it.           *)
LEMMA DecodeShift ==
  ASSUME NEW S, NEW e \in Seq(S), NEW t \in Seq(S), NEW g, NEW h,
         DecodedFrom(g, e \o t), DecodedFrom(h, t)
  PROVE  \A i \in 1..(Len(t) + 1) : g[Len(e) + i] = h[i]
  <1> DEFINE s == e \o t
             m == Len(e)
             n == Len(t)
             Equal(i) == g[m + i] = h[i]
             T == {k \in Nat : \A i \in 1..(n + 1) : i >= n + 1 - k => Equal(i)}
  <1>1. /\ m \in Nat /\ n \in Nat /\ Len(s) = m + n
        /\ \A i \in 1..n : s[m + i] = t[i]
    BY Chain
  <1>2. \A i \in 1..(m + n + 1) :
          g[i] = IF i > m + n THEN <<>>
                 ELSE IF s[i] = "%" /\ i + 2 <= m + n
                 THEN <<Char(s[i + 1], s[i + 2])>> \o g[i + 3]
                 ELSE <<IF s[i] = "+" THEN " " ELSE s[i]>> \o g[i + 1]
    <2>1. DecodedFrom(g, s)
      OBVIOUS
    <2> HIDE DEF s
    <2> QED BY <1>1, <2>1 DEF DecodedFrom
  <1>3. \A i \in 1..(n + 1) :
          h[i] = IF i > n THEN <<>>
                 ELSE IF t[i] = "%" /\ i + 2 <= n
                 THEN <<Char(t[i + 1], t[i + 2])>> \o h[i + 3]
                 ELSE <<IF t[i] = "+" THEN " " ELSE t[i]>> \o h[i + 1]
    BY DEF DecodedFrom
  <1> HIDE DEF s, m, n
  <1>4. Equal(n + 1)
    <2>1. m + (n + 1) \in 1..(m + n + 1) /\ m + (n + 1) > m + n /\ n + 1 > n
          /\ n + 1 \in 1..(n + 1)
      BY <1>1
    <2> QED BY <1>2, <1>3, <2>1
  <1>5. ASSUME NEW i \in 1..n, Equal(i + 1), i + 3 <= n + 1 => Equal(i + 3)
        PROVE  Equal(i)
    <2>1. /\ i \in 1..(n + 1) /\ m + i \in 1..(m + n + 1) /\ ~(i > n) /\ ~(m + i > m + n)
          /\ m + i + 1 = m + (i + 1) /\ m + i + 2 = m + (i + 2) /\ m + i + 3 = m + (i + 3)
          /\ (m + i + 2 <= m + n <=> i + 2 <= n) /\ (i + 3 <= n + 1 <=> i + 2 <= n)
      BY <1>1
    <2>2. s[m + i] = t[i]
      BY <1>1
    <2>3. CASE t[i] = "%" /\ i + 2 <= n
      <3>1. i + 1 \in 1..n /\ i + 2 \in 1..n
        BY <1>1, <2>3
      <3>2. s[m + (i + 1)] = t[i + 1] /\ s[m + (i + 2)] = t[i + 2]
        BY <1>1, <3>1
      <3>3. h[i] = <<Char(t[i + 1], t[i + 2])>> \o h[i + 3]
        BY <1>3, <2>1, <2>3
      <3>4. g[m + i] = <<Char(s[m + i + 1], s[m + i + 2])>> \o g[m + i + 3]
        BY <1>2, <2>1, <2>2, <2>3
      <3>5. g[m + (i + 3)] = h[i + 3]
        BY <1>5, <2>1, <2>3
      <3> QED BY <2>1, <3>2, <3>3, <3>4, <3>5
    <2>4. CASE ~(t[i] = "%" /\ i + 2 <= n)
      <3>1. h[i] = <<IF t[i] = "+" THEN " " ELSE t[i]>> \o h[i + 1]
        BY <1>3, <2>1, <2>4
      <3>2. g[m + i] = <<IF s[m + i] = "+" THEN " " ELSE s[m + i]>> \o g[m + i + 1]
        BY <1>2, <2>1, <2>2, <2>4
      <3> QED BY <1>5, <2>1, <2>2, <3>1, <3>2
    <2> QED BY <2>3, <2>4
  <1> HIDE DEF Equal
  <1>6. 0 \in T
    <2>1. \A i \in 1..(n + 1) : i >= n + 1 - 0 => i = n + 1
      BY <1>1
    <2> QED BY <1>4, <2>1
  <1>7. ASSUME NEW k \in T PROVE k + 1 \in T
    <2> SUFFICES ASSUME NEW i \in 1..(n + 1), i >= n + 1 - (k + 1) PROVE Equal(i)
      OBVIOUS
    <2>1. k \in Nat /\ \A j \in 1..(n + 1) : j >= n + 1 - k => Equal(j)
      OBVIOUS
    <2>2. CASE i >= n + 1 - k
      BY <2>1, <2>2
    <2>3. CASE ~(i >= n + 1 - k)
      <3>1. i \in 1..n /\ i + 1 \in 1..(n + 1) /\ i + 1 >= n + 1 - k
        BY <1>1, <2>1, <2>3
      <3>2. i + 3 <= n + 1 => i + 3 \in 1..(n + 1) /\ i + 3 >= n + 1 - k
        BY <1>1, <2>1, <2>3
      <3>3. Equal(i + 1) /\ (i + 3 <= n + 1 => Equal(i + 3))
        BY <2>1, <3>1, <3>2
      <3> QED BY <1>5, <3>1, <3>3
    <2> QED BY <2>2, <2>3
  <1>8. \A i \in 1..(n + 1) : Equal(i)
    <2>1. T \in SUBSET Nat
      OBVIOUS
    <2> HIDE DEF T
    <2>2. n \in T
      BY <1>1, <1>6, <1>7, <2>1, Induction
    <2>3. \A i \in 1..(n + 1) : i >= n + 1 - n
      BY <1>1
    <2> QED BY <2>2, <2>3 DEF T
  <1> QED BY <1>8 DEF Equal, m, n

(* The text t stands for u.                                                *)
Decodes(t, u) == t \in Seq(Byte) /\ u \in Seq(Byte) /\ UrlDecode(t) = u

(* What a form that is not one looks like from its first byte.             *)
Open == {"{", "["}

(* The bytes e stand for the byte b, wherever they are.                    *)
Codes(e, b) ==
  /\ e \in Seq(Byte) /\ b \in Byte /\ Len(e) \in Nat \ {0}
  /\ e[1] \in Open <=> b \in Open
  /\ \/ Len(e) = 1 /\ e[1] # "%" /\ b = IF e[1] = "+" THEN " " ELSE e[1]
     \/ Len(e) = 3 /\ e[1] = "%" /\ b = Char(e[2], e[3])

(* Nothing stands for nothing.                                             *)
LEMMA DecodeNone == Decodes(<<>>, <<>>)
  <1>1. <<>> \in Seq(Byte) /\ Len(<<>>) = 0
    BY EmptySeq
  <1>2. PICK g : UrlDecode(<<>>) = g[1] /\ DecodedFrom(g, <<>>)
    <2>1. Len(<<>>) \in Nat
      BY <1>1
    <2> QED BY <2>1, DecodeLoop DEF DecodeSteps
  <1>3. g[1] = <<>>
    <2>1. 1 \in 1..(Len(<<>>) + 1) /\ 1 > Len(<<>>)
      BY <1>1
    <2> QED BY <1>2, <2>1 DEF DecodedFrom
  <1> QED BY <1>1, <1>2, <1>3 DEF Decodes

(* One byte more.                                                          *)
LEMMA DecodeMore ==
  ASSUME NEW e, NEW b, Codes(e, b), NEW t, NEW u, Decodes(t, u)
  PROVE  Decodes(e \o t, <<b>> \o u)
  <1>1. /\ e \in Seq(Byte) /\ b \in Byte /\ t \in Seq(Byte) /\ u \in Seq(Byte)
        /\ UrlDecode(t) = u
    BY DEF Codes, Decodes
  <1> DEFINE s == e \o t
             m == Len(e)
             n == Len(t)
  <1>2. /\ m \in Nat /\ n \in Nat /\ Len(s) = m + n /\ s \in Seq(Byte)
        /\ \A i \in 1..m : s[i] = e[i]
    BY <1>1, Chain
  <1>3. PICK g : UrlDecode(s) = g[1] /\ DecodedFrom(g, s)
    <2> HIDE DEF s
    <2> QED BY <1>2, DecodeLoop DEF DecodeSteps
  <1>4. PICK h : UrlDecode(t) = h[1] /\ DecodedFrom(h, t)
    BY <1>2, DecodeLoop DEF DecodeSteps
  <1>5. g[m + 1] = u
    <2>1. \A i \in 1..(n + 1) : g[m + i] = h[i]
      BY <1>1, <1>3, <1>4, DecodeShift
    <2>2. 1 \in 1..(n + 1)
      BY <1>2
    <2> QED BY <1>1, <1>4, <2>1, <2>2
  <1>6. <<b>> \o u \in Seq(Byte)
    <2>1. <<b>> \in Seq(Byte)
      BY <1>1
    <2> QED BY <1>1, <2>1, ConcatProperties
  <1> HIDE DEF s, m, n
  <1>7. g[1] = <<b>> \o u
    <2>1. m \in Nat \ {0}
      BY DEF Codes, m
    <2>2. m \in Nat \ {0} /\ 1 \in 1..m /\ s[1] = e[1]
      BY <1>2, <2>1
    <2>3. 1 \in 1..(Len(s) + 1) /\ ~(1 > Len(s))
      BY <1>2, <2>2
    <2>4. CASE m = 1 /\ e[1] # "%" /\ b = IF e[1] = "+" THEN " " ELSE e[1]
      <3>1. g[1] = <<IF s[1] = "+" THEN " " ELSE s[1]>> \o g[1 + 1]
        BY <1>3, <2>2, <2>3, <2>4 DEF DecodedFrom
      <3> QED BY <1>5, <2>2, <2>4, <3>1
    <2>5. CASE m = 3 /\ e[1] = "%" /\ b = Char(e[2], e[3])
      <3>1. 1 + 2 <= Len(s) /\ 2 \in 1..m /\ 3 \in 1..m
        BY <1>2, <2>5
      <3>2. g[1] = <<Char(s[1 + 1], s[1 + 2])>> \o g[1 + 3]
        BY <1>3, <2>2, <2>3, <2>5, <3>1 DEF DecodedFrom
      <3>3. s[2] = e[2] /\ s[3] = e[3]
        BY <1>2, <3>1
      <3>4. 1 + 1 = 2 /\ 1 + 2 = 3 /\ 1 + 3 = m + 1
        BY <2>5
      <3> QED BY <1>5, <2>5, <3>2, <3>3, <3>4
    <2> QED BY <2>4, <2>5 DEF Codes, m
  <1> QED BY <1>2, <1>3, <1>6, <1>7 DEF Decodes, s

(* The text e stands for s, wherever it is.                                *)
Coded(s, e) ==
  /\ s \in Seq(Byte) /\ e \in Seq(Byte)
  /\ \A t, u : Decodes(t, u) => Decodes(e \o t, s \o u)
  /\ s = <<>> <=> e = <<>>
  /\ s # <<>> => (e[1] \in Open <=> s[1] \in Open)

(* A text whose bytes are coded one by one.                                *)
LEMMA CodedBy ==
  ASSUME NEW s \in Seq(Byte), NEW S \in SUBSET Byte, NEW g, g[Len(s) + 1] = <<>>,
         \A i \in 1..Len(s) : \E e \in Seq(S) : Codes(e, s[i]) /\ g[i] = e \o g[i + 1]
  PROVE  Coded(s, g[1]) /\ g[1] \in Seq(S)
  <1> DEFINE N == Len(s)
             From(i) == SubSeq(s, i, N)
             P(i) == /\ g[i] \in Seq(S)
                     /\ \A t, u : Decodes(t, u) => Decodes(g[i] \o t, From(i) \o u)
             T == {n \in Nat : n <= N => P(N + 1 - n)}
  <1>1. N \in Nat
    BY LenProperties
  <1>a. \A x, y, z \in Seq(Byte) : (x \o y) \o z = x \o (y \o z)
    BY ConcatAssociative
  <1>2. P(N + 1)
    <2>1. From(N + 1) = <<>>
      BY <1>1, SubSeqEmpty
    <2>2. ASSUME NEW t, NEW u, Decodes(t, u) PROVE Decodes(<<>> \o t, <<>> \o u)
      <3>1. t \in Seq(Byte) /\ u \in Seq(Byte)
        BY <2>2 DEF Decodes
      <3>2. <<>> \o t = t /\ <<>> \o u = u
        BY <3>1, ConcatEmptySeq
      <3> QED BY <2>2, <3>2
    <2>3. <<>> \in Seq(S)
      BY EmptySeq
    <2> HIDE DEF From
    <2> QED BY <2>1, <2>2, <2>3
  <1>3. ASSUME NEW i \in 1..N, P(i + 1) PROVE P(i)
    <2>1. PICK e \in Seq(S) : Codes(e, s[i]) /\ g[i] = e \o g[i + 1]
      OBVIOUS
    <2>2. g[i] \in Seq(S)
      BY <1>3, <2>1, ConcatProperties
    <2>3. From(i) = <<s[i]>> \o From(i + 1)
      <3>1. N \in i..N
        BY <1>1
      <3> QED BY <3>1, SubSeqRecursiveFirst
    <2>4. From(i + 1) \in Seq(Byte)
      <3>1. i \in Nat /\ i <= N
        BY <1>1
      <3> QED BY <1>1, <3>1, Slice
    <2>5. e \in Seq(Byte) /\ g[i + 1] \in Seq(Byte)
      BY <1>3, SeqMonotonic
    <2>6. s[i] \in Byte /\ <<s[i]>> \in Seq(Byte)
      <3>1. s[i] \in Byte
        BY ElementOfSeq
      <3> QED BY <3>1
    <2> HIDE DEF From
    <2>7. ASSUME NEW t, NEW u, Decodes(t, u) PROVE Decodes(g[i] \o t, From(i) \o u)
      <3>1. t \in Seq(Byte) /\ u \in Seq(Byte)
        BY <2>7 DEF Decodes
      <3>2. Decodes(g[i + 1] \o t, From(i + 1) \o u)
        BY <1>3, <2>7
      <3>3. Decodes(e \o (g[i + 1] \o t), <<s[i]>> \o (From(i + 1) \o u))
        BY <2>1, <3>2, DecodeMore
      <3>4. (e \o g[i + 1]) \o t = e \o (g[i + 1] \o t)
        BY <2>5, <3>1, <1>a
      <3>5. (<<s[i]>> \o From(i + 1)) \o u = <<s[i]>> \o (From(i + 1) \o u)
        BY <2>4, <2>6, <3>1, <1>a
      <3> QED BY <2>1, <2>3, <3>3, <3>4, <3>5
    <2> QED BY <2>2, <2>7
  <1> HIDE DEF P
  <1>4. ASSUME NEW i \in 1..(N + 1) PROVE P(i)
    <2>1. 0 \in T
      BY <1>1, <1>2
    <2>2. ASSUME NEW n \in T PROVE n + 1 \in T
      <3> SUFFICES ASSUME n + 1 <= N PROVE P(N + 1 - (n + 1))
        OBVIOUS
      <3>1. n \in Nat /\ n <= N /\ N - n \in 1..N
        BY <1>1
      <3>2. N + 1 - n = N - n + 1 /\ N + 1 - (n + 1) = N - n
        BY <1>1, <3>1
      <3>3. P(N - n + 1)
        BY <3>1, <3>2
      <3> QED BY <1>3, <3>1, <3>2, <3>3
    <2>3. T \in SUBSET Nat
      OBVIOUS
    <2> HIDE DEF T
    <2>4. N + 1 - i \in Nat /\ N + 1 - i <= N /\ N + 1 - (N + 1 - i) = i
      BY <1>1
    <2>5. T = Nat
      BY <2>1, <2>2, <2>3, Induction
    <2>6. P(N + 1 - (N + 1 - i))
      BY <2>4, <2>5 DEF T
    <2> QED BY <2>4, <2>6
  <1>5. /\ g[1] \in Seq(S) /\ g[1] \in Seq(Byte)
        /\ \A t, u : Decodes(t, u) => Decodes(g[1] \o t, s \o u)
    <2>1. From(1) = s
      BY SubSeqFull
    <2>2. g[1] \in Seq(S) /\ \A t, u : Decodes(t, u) => Decodes(g[1] \o t, From(1) \o u)
      <3>1. 1 \in 1..(N + 1)
        BY <1>1
      <3> QED BY <1>4, <3>1 DEF P
    <2>3. g[1] \in Seq(Byte)
      BY <2>2, SeqMonotonic
    <2> HIDE DEF From
    <2> QED BY <2>1, <2>2, <2>3
  <1>6. CASE s = <<>>
    <2>1. Len(<<>>) = 0
      OBVIOUS
    <2>2. g[1] = <<>>
      BY <1>6, <2>1
    <2> QED BY <1>5, <1>6, <2>2 DEF Coded
  <1>7. CASE s # <<>>
    <2>1. 1 \in 1..N
      <3>1. N # 0
        BY <1>7, EmptySeq
      <3> QED BY <1>1, <3>1
    <2>2. PICK e \in Seq(S) : Codes(e, s[1]) /\ g[1] = e \o g[1 + 1]
      BY <2>1
    <2>3. Len(e) \in Nat \ {0} /\ (e[1] \in Open <=> s[1] \in Open)
      BY <2>2 DEF Codes
    <2>4. g[2] \in Seq(S)
      <3>1. 2 \in 1..(N + 1)
        BY <1>1, <2>1
      <3> QED BY <1>4, <3>1 DEF P
    <2>5. g[1][1] = e[1] /\ g[1] # <<>>
      <3>1. /\ Len(e \o g[2]) = Len(e) + Len(g[2]) /\ Len(g[2]) \in Nat
            /\ \A i \in 1..Len(e) : (e \o g[2])[i] = e[i]
        BY <2>4, Chain
      <3>2. 1 \in 1..Len(e) /\ 1 + 1 = 2
        BY <2>3
      <3>3. Len(<<>>) = 0
        OBVIOUS
      <3>4. Len(e) + Len(g[2]) # 0
        BY <2>3, <3>1
      <3> QED BY <2>2, <3>1, <3>2, <3>3, <3>4
    <2> QED BY <1>5, <1>7, <2>3, <2>5 DEF Coded
  <1> QED BY <1>6, <1>7

(* Each byte has a code, without the signs of a query.                     *)
LEMMA CodeIs ==
  ASSUME NEW c \in Byte
  PROVE  Codes(Code(c), c) /\ Code(c) \in Seq(Byte \ {"&", "="})
  <1> DEFINE S == Byte \ {"&", "="}
  <1>1. {"%", "+", "2", "3", "5", "6", "B", "D", "F"} \subseteq S
    BY RequestAssumption
  <1>2. /\ "%" \notin Open /\ "+" \notin Open /\ "&" \notin Open /\ "=" \notin Open
        /\ " " \notin Open /\ "?" \notin Open
    BY DEF Open
  <1>3. /\ Char("2", "6") = "&" /\ Char("3", "D") = "="
        /\ Char("2", "5") = "%" /\ Char("2", "B") = "+"
        /\ Char("3", "F") = "?"
    BY DEF Char
  <1>4. ASSUME NEW a \in S, NEW b \in S, Char(a, b) = c, c \notin Open
        PROVE  Codes(<<"%", a, b>>, c) /\ <<"%", a, b>> \in Seq(S)
    <2> DEFINE e == <<"%", a, b>>
    <2>1. e \in Seq(S) /\ Len(e) = 3 /\ e[1] = "%" /\ e[2] = a /\ e[3] = b
      BY <1>1
    <2> HIDE DEF e, S
    <2>2. e \in Seq(Byte)
      <3>1. S \subseteq Byte
        BY DEF S
      <3> QED BY <2>1, <3>1, SeqMonotonic
    <2>3. Codes(e, c)
      <3>1. Len(e) = 3 /\ e[1] = "%" /\ c = Char(e[2], e[3])
        BY <1>4, <2>1
      <3>2. Len(e) \in Nat \ {0} /\ (e[1] \in Open <=> c \in Open)
        <4>1. Len(e) \in Nat \ {0}
          BY <2>1
        <4>2. e[1] \notin Open /\ c \notin Open
          BY <1>2, <1>4, <2>1
        <4> QED BY <4>1, <4>2
      <3> QED BY <2>2, <3>1, <3>2 DEF Codes
    <2> QED BY <2>1, <2>3 DEF e
  <1>5. CASE c = "&"
    <2>1. Code(c) = <<"%", "2", "6">>
      BY <1>5 DEF Code
    <2> QED BY <1>1, <1>2, <1>3, <1>4, <1>5, <2>1
  <1>6. CASE c = "="
    <2>1. Code(c) = <<"%", "3", "D">>
      BY <1>6 DEF Code
    <2> QED BY <1>1, <1>2, <1>3, <1>4, <1>6, <2>1
  <1>7. CASE c = "%"
    <2>1. Code(c) = <<"%", "2", "5">>
      BY <1>7 DEF Code
    <2> QED BY <1>1, <1>2, <1>3, <1>4, <1>7, <2>1
  <1>8. CASE c = "+"
    <2>1. Code(c) = <<"%", "2", "B">>
      BY <1>8 DEF Code
    <2> QED BY <1>1, <1>2, <1>3, <1>4, <1>8, <2>1
  <1>9. ASSUME NEW a \in S, a # "%", c = IF a = "+" THEN " " ELSE a, Code(c) = <<a>>
        PROVE  Codes(Code(c), c) /\ Code(c) \in Seq(S)
    <2> DEFINE e == <<a>>
    <2>1. e \in Seq(S) /\ Len(e) = 1 /\ e[1] = a
      OBVIOUS
    <2> HIDE DEF e, S
    <2>2. e \in Seq(Byte)
      <3>1. S \subseteq Byte
        BY DEF S
      <3> QED BY <2>1, <3>1, SeqMonotonic
    <2>3. a \in Open <=> c \in Open
      BY <1>2, <1>9
    <2>4. Codes(e, c)
      <3>1. Len(e) = 1 /\ e[1] # "%" /\ c = IF e[1] = "+" THEN " " ELSE e[1]
        BY <1>9, <2>1
      <3>2. Len(e) \in Nat \ {0} /\ (e[1] \in Open <=> c \in Open)
        BY <2>1, <2>3
      <3> QED BY <2>2, <3>1, <3>2 DEF Codes
    <2> QED BY <1>9, <2>1, <2>4 DEF e
  <1>10. CASE c = " "
    <2>1. Code(c) = <<"+">>
      BY <1>10 DEF Code
    <2> QED BY <1>1, <1>9, <1>10, <2>1
  <1>12. CASE c = "?"
    <2>1. Code(c) = <<"%", "3", "F">>
      BY <1>12 DEF Code
    <2> QED BY <1>1, <1>2, <1>3, <1>4, <1>12, <2>1
  <1>11. CASE c \notin {"&", "=", "%", "+", " ", "?"}
    <2>1. Code(c) = <<c>>
      BY <1>11 DEF Code
    <2> QED BY <1>9, <1>11, <2>1
  <1> QED BY <1>5, <1>6, <1>7, <1>8, <1>10, <1>11, <1>12

(* An encoded text, and a plain one.                                       *)
LEMMA EncodedIs ==
  ASSUME NEW s \in Seq(Byte)
  PROVE  Coded(s, Encode(s)) /\ Encode(s) \in Seq(Byte \ {"&", "="})
  <1>1. Len(s) \in Nat
    BY LenProperties
  <1>2. PICK g : /\ Encode(s) = g[1] /\ g[Len(s) + 1] = <<>>
                 /\ \A i \in 1..Len(s) : g[i] = Code(s[i]) \o g[i + 1]
    BY <1>1, EncodeLoop DEF EncodeSteps
  <1>3. \A i \in 1..Len(s) :
          \E e \in Seq(Byte \ {"&", "="}) : Codes(e, s[i]) /\ g[i] = e \o g[i + 1]
    <2> TAKE i \in 1..Len(s)
    <2>1. s[i] \in Byte
      BY ElementOfSeq
    <2>2. Codes(Code(s[i]), s[i]) /\ Code(s[i]) \in Seq(Byte \ {"&", "="})
      BY <2>1, CodeIs
    <2> QED BY <1>2, <2>2
  <1>4. Byte \ {"&", "="} \in SUBSET Byte
    OBVIOUS
  <1> QED BY <1>2, <1>3, <1>4, CodedBy

(* A text without signs stands for itself.                                 *)
LEMMA PlainIs ==
  ASSUME NEW s \in Seq(Byte \ {"%", "+"})
  PROVE  Coded(s, s)
  <1> DEFINE g == [i \in 1..(Len(s) + 1) |-> SubSeq(s, i, Len(s))]
  <1>1. Len(s) \in Nat /\ s \in Seq(Byte)
    BY LenProperties, SeqMonotonic
  <1>2. g[Len(s) + 1] = <<>>
    <2>1. SubSeq(s, Len(s) + 1, Len(s)) = <<>>
      BY <1>1, SubSeqEmpty
    <2> QED BY <1>1, <2>1
  <1>3. \A i \in 1..Len(s) : \E e \in Seq(Byte) : Codes(e, s[i]) /\ g[i] = e \o g[i + 1]
    <2> TAKE i \in 1..Len(s)
    <2>1. s[i] \in Byte /\ s[i] # "%" /\ s[i] # "+"
      BY ElementOfSeq
    <2> DEFINE e == <<s[i]>>
    <2>2. e \in Seq(Byte) /\ Len(e) = 1 /\ e[1] = s[i]
      BY <2>1
    <2>3. g[i] = e \o g[i + 1]
      <3>1. Len(s) \in i..Len(s)
        BY <1>1
      <3>2. SubSeq(s, i, Len(s)) = e \o SubSeq(s, i + 1, Len(s))
        BY <3>1, SubSeqRecursiveFirst
      <3>3. i \in 1..(Len(s) + 1) /\ i + 1 \in 1..(Len(s) + 1)
        BY <1>1
      <3> QED BY <3>2, <3>3
    <2> HIDE DEF e, g
    <2>4. Codes(e, s[i])
      BY <2>1, <2>2 DEF Codes
    <2> QED BY <2>2, <2>3, <2>4
  <1>4. g[1] = s
    <2>1. SubSeq(s, 1, Len(s)) = s
      BY SubSeqFull
    <2>2. 1 \in 1..(Len(s) + 1)
      BY <1>1
    <2> QED BY <2>1, <2>2
  <1> HIDE DEF g
  <1>5. Byte \in SUBSET Byte
    OBVIOUS
  <1> QED BY <1>1, <1>2, <1>3, <1>4, <1>5, CodedBy

(* A coded text is found.                                                  *)
LEMMA CodedDecodes ==
  ASSUME NEW s, NEW e, Coded(s, e)
  PROVE  Decodes(e, s)
  <1>1. s \in Seq(Byte) /\ e \in Seq(Byte) /\ Decodes(e \o <<>>, s \o <<>>)
    BY DecodeNone DEF Coded
  <1>2. e \o <<>> = e /\ s \o <<>> = s
    BY <1>1, ConcatEmptySeq
  <1> QED BY <1>1, <1>2

(* The URL is found.                                                       *)
LEMMA UrlFound ==
  ASSUME request \in Requests
  PROVE  UrlDecode(Url(request)) = request.url
  <1>1. request.url \in Seq(Byte)
    BY RequestIs
  <1>2. Coded(request.url, Url(request))
    BY <1>1, EncodedIs DEF Url
  <1> QED BY <1>2, CodedDecodes DEF Decodes

(* The text of an item: its name, and its value behind a sign.             *)
TextOf(t, m, v) ==
  /\ Coded(t.name, m) /\ m \in Seq(Byte \ {"&", "="})
  /\ Coded(t.value, v) /\ v \in Seq(Byte \ {"&"})
  /\ Text(t) = m \o IF t.sign THEN <<"=">> \o v ELSE <<>>

(* Text is such a text, of an item that comes encoded or plain.            *)
LEMMA TextIs ==
  ASSUME NEW t \in Items
  PROVE  \E m, v : TextOf(t, m, v)
  <1>1. t.name \in Seq(Byte) /\ t.value \in Seq(Byte) /\ t.plain \in BOOLEAN
    BY DEF Items
  <1> DEFINE m == IF t.plain THEN t.name ELSE Encode(t.name)
             v == IF t.plain THEN t.value ELSE Encode(t.value)
  <1>2. Text(t) = m \o IF t.sign THEN <<"=">> \o v ELSE <<>>
    BY DEF Text
  <1>3. /\ Coded(t.name, m) /\ m \in Seq(Byte \ {"&", "="})
        /\ Coded(t.value, v) /\ v \in Seq(Byte \ {"&"})
    <2>1. CASE t.plain
      <3>1. /\ t.name \in Seq(Byte \ {"&", "%", "+", "="})
            /\ t.value \in Seq(Byte \ {"&", "%", "+"})
        BY <2>1 DEF Items
      <3>2. /\ t.name \in Seq(Byte \ {"%", "+"}) /\ t.value \in Seq(Byte \ {"%", "+"})
            /\ t.name \in Seq(Byte \ {"&", "="}) /\ t.value \in Seq(Byte \ {"&"})
        BY <3>1, SeqMonotonic
      <3>3. Coded(t.name, t.name) /\ Coded(t.value, t.value)
        BY <3>2, PlainIs
      <3> QED BY <2>1, <3>2, <3>3
    <2>2. CASE ~t.plain
      <3>1. /\ Coded(t.name, Encode(t.name)) /\ Encode(t.name) \in Seq(Byte \ {"&", "="})
            /\ Coded(t.value, Encode(t.value)) /\ Encode(t.value) \in Seq(Byte \ {"&", "="})
        BY <1>1, EncodedIs
      <3>2. Encode(t.value) \in Seq(Byte \ {"&"})
        BY <3>1, SeqMonotonic
      <3> QED BY <2>2, <3>1, <3>2
    <2> QED BY <2>1, <2>2
  <1> HIDE DEF m, v
  <1> QED BY <1>2, <1>3 DEF TextOf

(* The first sign "=" of a text is the one behind its name.                *)
LEMMA SignIs ==
  ASSUME NEW t \in Items, NEW m, NEW v, TextOf(t, m, v)
  PROVE  /\ Text(t) \in Seq(Byte \ {"&"}) /\ Len(m) \in Nat
         /\ IndexOf(Text(t), "=") = Len(m) + 1
         /\ SubSeq(Text(t), 1, Len(m)) = m
         /\ IF t.sign THEN /\ Len(Text(t)) = Len(m) + 1 + Len(v) /\ Len(v) \in Nat
                           /\ SubSeq(Text(t), Len(m) + 2, Len(Text(t))) = v
            ELSE /\ Len(Text(t)) = Len(m) /\ Text(t) = m
                 /\ SubSeq(Text(t), Len(m) + 2, Len(Text(t))) = <<>>
  <1> DEFINE S == Byte \ {"&"}
  <1>1. m \in Seq(S) /\ v \in Seq(S) /\ Len(m) \in Nat /\ Len(v) \in Nat
    <2>1. m \in Seq(Byte \ {"&", "="}) /\ v \in Seq(S)
      BY DEF TextOf
    <2>2. m \in Seq(S)
      BY <2>1, SeqMonotonic
    <2> QED BY <2>1, <2>2, LenProperties
  <1>2. \A i \in 1..Len(m) : m[i] # "="
    <2>1. m \in Seq(Byte \ {"&", "="})
      BY DEF TextOf
    <2> QED BY <2>1, ElementOfSeq
  <1>3. t.sign \in BOOLEAN
    BY DEF Items
  <1>4. CASE t.sign
    <2>1. Text(t) = m \o (<<"=">> \o v)
      BY <1>4 DEF TextOf
    <2>2. <<"=">> \in Seq(S) /\ Len(<<"=">>) = 1 /\ <<"=">>[1] = "="
      <3>1. "=" \in S
        BY RequestAssumption
      <3> QED BY <3>1, Single
    <2> DEFINE w == <<"=">> \o v
    <2>3. /\ w \in Seq(S) /\ Len(w) = 1 + Len(v) /\ w[1] = "="
          /\ \A i \in 1..Len(v) : w[1 + i] = v[i]
      <3>1. 1 \in 1..Len(<<"=">>)
        BY <2>2
      <3>2. /\ <<"=">> \o v \in Seq(S) /\ Len(<<"=">> \o v) = Len(<<"=">>) + Len(v)
            /\ \A i \in 1..Len(<<"=">>) : (<<"=">> \o v)[i] = <<"=">>[i]
            /\ \A i \in 1..Len(v) : (<<"=">> \o v)[Len(<<"=">>) + i] = v[i]
        BY <1>1, <2>2, Chain
      <3> HIDE DEF w
      <3> QED BY <2>2, <3>1, <3>2 DEF w
    <2> HIDE DEF w
    <2> DEFINE z == m \o w
    <2>4. /\ z \in Seq(S) /\ Len(z) = Len(m) + Len(w)
          /\ \A i \in 1..Len(m) : z[i] = m[i]
          /\ \A i \in 1..Len(w) : z[Len(m) + i] = w[i]
      <3>1. \A a, b \in Seq(S) :
              /\ a \o b \in Seq(S) /\ Len(a \o b) = Len(a) + Len(b)
              /\ \A i \in 1..Len(a) : (a \o b)[i] = a[i]
              /\ \A i \in 1..Len(b) : (a \o b)[Len(a) + i] = b[i]
        BY Chain
      <3> HIDE DEF S
      <3> QED BY <1>1, <2>3, <3>1
    <2>5. Text(t) = z
      BY <2>1 DEF w
    <2> HIDE DEF z
    <2>6. z[Len(m) + 1] = "=" /\ \A i \in 1..Len(m) : z[i] # "="
      <3>1. 1 \in 1..Len(w)
        BY <1>1, <2>3
      <3> QED BY <1>2, <2>3, <2>4, <3>1
    <2>7. IndexOf(z, "=") = Len(m) + 1
      <3> DEFINE e == IndexOf(z, "=")
      <3>1. /\ e \in 1..(Len(z) + 1) /\ (e <= Len(z) => z[e] = "=")
            /\ \A j \in 1..Len(z) : z[j] = "=" => e <= j
        BY <2>4, PlaceIs
      <3> HIDE DEF e
      <3>2. Len(m) + 1 \in 1..Len(z)
        BY <1>1, <2>3, <2>4
      <3>3. e <= Len(m) + 1 /\ e <= Len(z)
        BY <1>1, <2>3, <2>4, <2>6, <3>1, <3>2
      <3>4. ~(e \in 1..Len(m))
        BY <2>6, <3>1, <3>3
      <3>5. e = Len(m) + 1
        BY <1>1, <3>1, <3>3, <3>4
      <3> QED BY <3>5 DEF e
    <2>8. SubSeq(z, 1, Len(m)) = m
      <3>1. /\ SubSeq(z, 0 + 1, Len(m)) \in Seq(S)
            /\ Len(SubSeq(z, 0 + 1, Len(m))) = Len(m) - 0
            /\ \A i \in 1..(Len(m) - 0) : SubSeq(z, 0 + 1, Len(m))[i] = z[0 + i]
        <4>1. 0 <= Len(m) /\ Len(m) <= Len(z) /\ 0 \in Nat
          BY <1>1, <2>3, <2>4
        <4> QED BY <1>1, <2>4, <4>1, Slice
      <3>2. Len(m) - 0 = Len(m) /\ 0 + 1 = 1 /\ \A i \in 1..Len(m) : 0 + i = i
        BY <1>1
      <3> DEFINE y == SubSeq(z, 1, Len(m))
      <3>3. y \in Seq(S) /\ Len(y) = Len(m) /\ \A i \in 1..Len(m) : y[i] = m[i]
        BY <2>4, <3>1, <3>2
      <3> HIDE DEF y
      <3>4. y = m
        BY <1>1, <3>3, SeqEqual
      <3> QED BY <3>4 DEF y
    <2>9. SubSeq(z, Len(m) + 2, Len(z)) = v
      <3>1. /\ Len(m) + 1 \in Nat /\ Len(m) + 1 <= Len(z) /\ Len(z) \in Nat
            /\ Len(z) - (Len(m) + 1) = Len(v) /\ Len(m) + 1 + 1 = Len(m) + 2
        BY <1>1, <2>3, <2>4
      <3>2. /\ SubSeq(z, Len(m) + 1 + 1, Len(z)) \in Seq(S)
            /\ Len(SubSeq(z, Len(m) + 1 + 1, Len(z))) = Len(z) - (Len(m) + 1)
            /\ \A i \in 1..(Len(z) - (Len(m) + 1)) :
                 SubSeq(z, Len(m) + 1 + 1, Len(z))[i] = z[Len(m) + 1 + i]
        BY <2>4, <3>1, Slice
      <3>3. \A i \in 1..Len(v) : z[Len(m) + 1 + i] = v[i]
        <4> TAKE i \in 1..Len(v)
        <4>1. 1 + i \in 1..Len(w) /\ Len(m) + (1 + i) = Len(m) + 1 + i
          BY <1>1, <2>3
        <4> QED BY <2>3, <2>4, <4>1
      <3> DEFINE y == SubSeq(z, Len(m) + 2, Len(z))
      <3>4. y \in Seq(S) /\ Len(y) = Len(v) /\ \A i \in 1..Len(v) : y[i] = v[i]
        BY <3>1, <3>2, <3>3
      <3> HIDE DEF y
      <3>5. y = v
        BY <1>1, <3>4, SeqEqual
      <3> QED BY <3>5 DEF y
    <2>10. Len(z) = Len(m) + 1 + Len(v)
      BY <1>1, <2>3, <2>4
    <2> QED BY <1>1, <1>4, <2>4, <2>5, <2>7, <2>8, <2>9, <2>10
  <1>5. CASE ~t.sign
    <2>1. Text(t) = m
      <3>1. Text(t) = m \o <<>>
        BY <1>5 DEF TextOf
      <3> QED BY <1>1, <3>1, ConcatEmptySeq
    <2>2. IndexOf(m, "=") = Len(m) + 1
      <3>1. /\ IndexOf(m, "=") \in 1..(Len(m) + 1)
            /\ IndexOf(m, "=") <= Len(m) => m[IndexOf(m, "=")] = "="
        BY <1>1, PlaceIs
      <3> QED BY <1>1, <1>2, <3>1
    <2>3. SubSeq(m, 1, Len(m)) = m
      BY <1>1, SubSeqFull
    <2>4. SubSeq(m, Len(m) + 2, Len(m)) = <<>>
      BY <1>1, SubSeqEmpty
    <2> QED BY <1>1, <1>5, <2>1, <2>2, <2>3, <2>4
  <1> QED BY <1>3, <1>4, <1>5

(* The text as a whole.                                                    *)
LEMMA WholeText ==
  ASSUME NEW t \in Items, NEW m, NEW v, TextOf(t, m, v)
  PROVE  UrlDecode(Text(t)) = t.name \o IF t.sign THEN <<"=">> \o t.value ELSE <<>>
  <1>1. Coded(t.name, m) /\ Coded(t.value, v)
    BY DEF TextOf
  <1>2. t.sign \in BOOLEAN
    BY DEF Items
  <1>3. CASE t.sign
    <2>1. Decodes(v, t.value)
      BY <1>1, CodedDecodes
    <2>2. Codes(<<"=">>, "=")
      <3>1. "=" \in Byte /\ "=" # "%" /\ "=" # "+"
        BY RequestAssumption
      <3>2. <<"=">> \in Seq(Byte) /\ Len(<<"=">>) = 1 /\ <<"=">>[1] = "="
        BY <3>1, Single
      <3> DEFINE e == <<"=">>
      <3> HIDE DEF e
      <3>3. e \in Seq(Byte) /\ Len(e) = 1 /\ e[1] = "="
        BY <3>2 DEF e
      <3>4. Codes(e, "=")
        BY <3>1, <3>3 DEF Codes
      <3> QED BY <3>4 DEF e
    <2>3. Decodes(<<"=">> \o v, <<"=">> \o t.value)
      BY <2>1, <2>2, DecodeMore
    <2>4. Decodes(m \o (<<"=">> \o v), t.name \o (<<"=">> \o t.value))
      BY <1>1, <2>3 DEF Coded
    <2>5. Text(t) = m \o (<<"=">> \o v)
      BY <1>3 DEF TextOf
    <2> QED BY <1>3, <2>4, <2>5 DEF Decodes
  <1>4. CASE ~t.sign
    <2>1. Decodes(m \o <<>>, t.name \o <<>>)
      BY <1>1, DecodeNone DEF Coded
    <2>2. Text(t) = m \o <<>>
      BY <1>4 DEF TextOf
    <2> QED BY <1>4, <2>1, <2>2 DEF Decodes
  <1> QED BY <1>2, <1>3, <1>4

(* The name of a text without one.                                         *)
LEMMA BodyName == UrlDecode(<<"body">>) = <<"body">>
  <1> DEFINE s == <<"body">>
  <1>1. Len(s) = 1 /\ s[1] = "body"
    OBVIOUS
  <1> HIDE DEF s
  <1>2. PICK g : UrlDecode(s) = g[1] /\ DecodedFrom(g, s)
    <2>1. Len(s) \in Nat
      BY <1>1
    <2> QED BY <2>1, DecodeLoop DEF DecodeSteps
  <1>3. g[2] = <<>>
    <2>1. 2 \in 1..(Len(s) + 1) /\ 2 > Len(s)
      BY <1>1
    <2> QED BY <1>2, <2>1 DEF DecodedFrom
  <1>4. g[1] = <<"body">> \o g[2]
    <2>1. 1 \in 1..(Len(s) + 1) /\ ~(1 > Len(s)) /\ 1 + 1 = 2
      BY <1>1
    <2>2. s[1] # "%" /\ s[1] # "+"
      BY <1>1
    <2>3. g[1] = <<IF s[1] = "+" THEN " " ELSE s[1]>> \o g[1 + 1]
      BY <1>2, <2>1, <2>2 DEF DecodedFrom
    <2> QED BY <1>1, <2>1, <2>2, <2>3
  <1>5. <<"body">> \o <<>> = <<"body">>
    <2>1. <<"body">> \in Seq({"body"})
      OBVIOUS
    <2> QED BY <2>1, ConcatEmptySeq
  <1> QED BY <1>2, <1>3, <1>4, <1>5 DEF s

(* The parameter found in the text of an item is the one it stands for, in *)
(* a query and in a form.                                                  *)
LEMMA ItemFound ==
  ASSUME NEW t \in Items, NEW form \in BOOLEAN
  PROVE  ParamOf(Text(t), form) = ItemMeaning(t, form)
  <1>1. PICK m, v : TextOf(t, m, v)
    BY TextIs
  <1> DEFINE z == Text(t)
             e == IndexOf(z, "=")
             n == Len(m)
             N == Len(z)
  <1>2. /\ n \in Nat /\ e = n + 1 /\ SubSeq(z, 1, n) = m
        /\ IF t.sign THEN N = n + 1 + Len(v) /\ Len(v) \in Nat /\ SubSeq(z, n + 2, N) = v
           ELSE N = n /\ SubSeq(z, n + 2, N) = <<>>
    BY <1>1, SignIs
  <1>3. UrlDecode(m) = t.name /\ UrlDecode(v) = t.value /\ UrlDecode(<<>>) = <<>>
    <2>1. Decodes(m, t.name) /\ Decodes(v, t.value)
      BY <1>1, CodedDecodes DEF TextOf
    <2> QED BY <2>1, DecodeNone DEF Decodes
  <1>4. t.sign \in BOOLEAN /\ (~t.sign => t.value = <<>>)
    BY DEF Items
  <1> HIDE DEF z, e, n, N
  <1>5. UrlDecode(SubSeq(z, 1, e - 1)) = t.name /\ UrlDecode(SubSeq(z, e + 1, N)) = t.value
    <2>1. e - 1 = n /\ e + 1 = n + 2
      BY <1>2
    <2>2. CASE t.sign
      BY <1>2, <1>3, <2>1, <2>2
    <2>3. CASE ~t.sign
      BY <1>2, <1>3, <1>4, <2>1, <2>3
    <2> QED BY <1>4, <2>2, <2>3
  <1>6. CASE ~form
    <2>1. Pair(z) = <<t.name, t.value>>
      BY <1>5 DEF Pair, e, N
    <2>2. ParamOf(z, form) = Param(t.name, t.value, FALSE, FALSE, 0)
      BY <1>6, <2>1 DEF ParamOf
    <2> QED BY <1>6, <2>2 DEF ItemMeaning, Sent, Param, z
  <1>7. CASE form
    <2>1. (e \in 2..N /\ z[1] \notin Open) <=> ~Unnamed(t)
      <3>1. Unnamed(t) <=> (~t.sign \/ t.name = <<>> \/ t.name[1] \in Open)
        BY DEF Unnamed, Open
      <3>2. e \in 2..N <=> t.sign /\ n # 0
        <4>1. CASE t.sign
          <5>1. N = n + 1 + Len(v) /\ Len(v) \in Nat /\ n \in Nat /\ e = n + 1
            BY <1>2, <4>1
          <5>2. e \in 2..N <=> n # 0
            BY <5>1
          <5> QED BY <4>1, <5>2
        <4>2. CASE ~t.sign
          <5>1. N = n /\ n \in Nat /\ e = n + 1
            BY <1>2, <4>2
          <5>2. e \notin 2..N
            BY <5>1
          <5> QED BY <4>2, <5>2
        <4> QED BY <1>4, <4>1, <4>2
      <3>3. /\ t.name = <<>> <=> m = <<>>
            /\ t.name # <<>> => (m[1] \in Open <=> t.name[1] \in Open)
            /\ m \in Seq(Byte)
        BY <1>1 DEF TextOf, Coded
      <3>4. m = <<>> <=> n = 0
        BY <3>3, EmptySeq DEF n
      <3>5. n # 0 => z[1] = m[1]
        <4> SUFFICES ASSUME n # 0 PROVE z[1] = m[1]
          OBVIOUS
        <4>1. 1 \in 1..n /\ n \in Nat /\ n <= N /\ 0 + 1 = 1
          <5>1. CASE t.sign
            BY <1>2, <5>1
          <5>2. CASE ~t.sign
            BY <1>2, <5>2
          <5> QED BY <1>4, <5>1, <5>2
        <4>2. z \in Seq(Byte \ {"&"})
          BY <1>1, SignIs DEF z
        <4>3. \A i \in 1..(n - 0) : SubSeq(z, 0 + 1, n)[i] = z[0 + i]
          BY <4>1, <4>2, Slice DEF N
        <4>4. 1 \in 1..(n - 0) /\ 0 + 1 = 1
          BY <4>1
        <4>5. SubSeq(z, 1, n)[1] = z[1]
          <5>1. SubSeq(z, 0 + 1, n)[1] = z[0 + 1]
            BY <4>3, <4>4
          <5> QED BY <4>1, <5>1
        <4> QED BY <1>2, <4>5
      <3> QED BY <3>1, <3>2, <3>3, <3>4, <3>5
    <2>2. CASE Unnamed(t)
      <3>1. ~(e \in 2..N /\ z[1] \notin Open)
        BY <2>1, <2>2
      <3>2. ParamOf(z, TRUE) = Param(UrlDecode(<<"body">>), UrlDecode(z), TRUE, FALSE, 0)
        BY <3>1 DEF ParamOf, e, N, Open
      <3>3. UrlDecode(z) = t.name \o IF t.sign THEN <<"=">> \o t.value ELSE <<>>
        BY <1>1, WholeText DEF z
      <3>4. ItemMeaning(t, TRUE) =
              Sent(<<"body">>, t.name \o IF t.sign THEN <<"=">> \o t.value ELSE <<>>, TRUE)
        BY <2>2 DEF ItemMeaning
      <3>5. form = TRUE
        BY <1>7
      <3> QED BY <3>2, <3>3, <3>4, <3>5, BodyName DEF Sent, Param, z
    <2>3. CASE ~Unnamed(t)
      <3>1. e \in 2..N /\ z[1] \notin Open
        BY <2>1, <2>3
      <3>2. ParamOf(z, TRUE) = Param(UrlDecode(SubSeq(z, 1, e - 1)),
                                     UrlDecode(SubSeq(z, e + 1, N)), TRUE, FALSE, 0)
        BY <3>1 DEF ParamOf, e, N, Open
      <3>3. ItemMeaning(t, TRUE) = Sent(t.name, t.value, TRUE)
        BY <2>3 DEF ItemMeaning
      <3>4. form = TRUE
        BY <1>7
      <3> QED BY <1>5, <3>2, <3>3, <3>4 DEF Sent, Param, z
    <2> QED BY <2>2, <2>3
  <1> QED BY <1>6, <1>7

----------------------------------------------------------------------------
(* The loops over the items find what was sent                             *)

(* A piece of a sequence, by its first place and its last.                 *)
LEMMA Piece ==
  ASSUME NEW S, NEW a \in Seq(S), NEW i \in 1..(Len(a) + 1), NEW j \in (i - 1)..Len(a)
  PROVE  /\ SubSeq(a, i, j) \in Seq(S) /\ Len(SubSeq(a, i, j)) = j - i + 1
         /\ \A k \in 1..(j - i + 1) : SubSeq(a, i, j)[k] = a[i - 1 + k]
  <1>1. Len(a) \in Nat
    BY LenProperties
  <1>2. PICK m : m = i - 1
    OBVIOUS
  <1>3. m \in Nat /\ j \in Nat /\ m <= j /\ j <= Len(a) /\ i = m + 1
    BY <1>1, <1>2
  <1>4. /\ SubSeq(a, m + 1, j) \in Seq(S) /\ Len(SubSeq(a, m + 1, j)) = j - m
        /\ \A k \in 1..(j - m) : SubSeq(a, m + 1, j)[k] = a[m + k]
    BY <1>3, Slice
  <1>5. j - i + 1 = j - m /\ m + 1 = i /\ i - 1 = m
    BY <1>3
  <1> QED BY <1>4, <1>5

(* What is found from a place on does not depend on what is before it.     *)
LEMMA ListShift ==
  ASSUME NEW S, NEW e \in Seq(S), NEW t \in Seq(S), NEW form, NEW g, NEW h,
         ListedFrom(g, e \o t, form), ListedFrom(h, t, form)
  PROVE  \A i \in 1..(Len(t) + 2) : g[Len(e) + i] = h[i]
  <1> DEFINE s == e \o t
             m == Len(e)
             n == Len(t)
             Equal(i) == g[m + i] = h[i]
             T == {k \in Nat : \A i \in 1..(n + 2) : i >= n + 1 - k => Equal(i)}
  <1>1. /\ m \in Nat /\ n \in Nat /\ Len(s) = m + n /\ s \in Seq(S)
        /\ \A i \in 1..n : s[m + i] = t[i]
    BY Chain
  <1>2. \A i \in 1..(m + n + 2) :
          g[i] = IF i > m + n THEN <<>>
                 ELSE <<ParamOf(SubSeq(s, i, EndFrom(s, i) - 1), form)>>
                        \o g[EndFrom(s, i) + 1]
    <2>1. ListedFrom(g, s, form)
      OBVIOUS
    <2> HIDE DEF s
    <2> QED BY <1>1, <2>1 DEF ListedFrom
  <1>3. \A i \in 1..(n + 2) :
          h[i] = IF i > n THEN <<>>
                 ELSE <<ParamOf(SubSeq(t, i, EndFrom(t, i) - 1), form)>>
                        \o h[EndFrom(t, i) + 1]
    BY DEF ListedFrom
  <1> HIDE DEF s, m, n
  <1>4. ASSUME NEW i \in 1..(n + 2), i > n PROVE Equal(i)
    <2>1. m + i \in 1..(m + n + 2) /\ m + i > m + n
      BY <1>1, <1>4
    <2> QED BY <1>2, <1>3, <1>4, <2>1
  <1>5. ASSUME NEW i \in 1..n, \A j \in (i + 1)..(n + 2) : Equal(j)
        PROVE  Equal(i)
    <2>1. /\ i \in 1..(n + 2) /\ m + i \in 1..(m + n + 2) /\ ~(i > n) /\ ~(m + i > m + n)
          /\ m + i \in 1..(m + n) /\ n \in Nat /\ m \in Nat
      BY <1>1
    <2> DEFINE E == EndFrom(t, i)
               F == EndFrom(s, m + i)
    <2>2. /\ E \in i..(n + 1) /\ (E <= n => t[E] = "&")
          /\ \A j \in i..n : t[j] = "&" => E <= j
      BY EndIs DEF n
    <2>3. /\ F \in (m + i)..(m + n + 1) /\ (F <= m + n => s[F] = "&")
          /\ \A j \in (m + i)..(m + n) : s[j] = "&" => F <= j
      BY <1>1, <2>1, EndIs
    <2> HIDE DEF E, F
    <2>4. F = m + E
      <3>1. CASE E <= n
        <4>1. E \in 1..n /\ m + E \in (m + i)..(m + n)
          BY <2>1, <2>2, <3>1
        <4>2. s[m + E] = "&"
          BY <1>1, <2>2, <3>1, <4>1
        <4>3. F <= m + E
          BY <2>3, <4>1, <4>2
        <4>4. F - m \in i..n /\ m + (F - m) = F /\ F <= m + n
          BY <2>1, <2>2, <2>3, <3>1, <4>3
        <4>5. t[F - m] = "&"
          <5>1. F - m \in 1..n
            BY <4>4, <2>1
          <5>2. s[m + (F - m)] = t[F - m]
            BY <1>1, <5>1
          <5> QED BY <2>3, <4>4, <5>2
        <4>6. E <= F - m
          BY <2>2, <4>4, <4>5
        <4> QED BY <2>1, <2>2, <2>3, <4>3, <4>6
      <3>2. CASE ~(E <= n)
        <4>1. E = n + 1
          BY <2>1, <2>2, <3>2
        <4>2. ~(F <= m + n)
          <5> SUFFICES ASSUME F <= m + n PROVE FALSE
            OBVIOUS
          <5>1. F - m \in i..n /\ F - m \in 1..n /\ m + (F - m) = F
            BY <2>1, <2>3
          <5>2. t[F - m] = "&"
            BY <1>1, <2>3, <5>1
          <5>3. E <= F - m
            BY <2>2, <5>1, <5>2
          <5> QED BY <2>1, <4>1, <5>1, <5>3
        <4> QED BY <2>1, <2>3, <4>1, <4>2
      <3> QED BY <3>1, <3>2
    <2>5. SubSeq(s, m + i, F - 1) = SubSeq(t, i, E - 1)
      <3> DEFINE y == SubSeq(s, m + i, F - 1)
                 z == SubSeq(t, i, E - 1)
      <3>1. t \in Seq(S) /\ s \in Seq(S) /\ Len(t) = n /\ Len(s) = m + n
        BY <1>1 DEF n
      <3>2. /\ i \in 1..(n + 1) /\ E - 1 \in (i - 1)..n /\ E - 1 - i + 1 = E - i
        BY <2>1, <2>2
      <3>3. /\ m + i \in 1..(m + n + 1) /\ F - 1 \in (m + i - 1)..(m + n)
            /\ F - 1 - (m + i) + 1 = E - i
        BY <2>1, <2>2, <2>3, <2>4
      <3>4. \A a \in Seq(S) : \A b \in 1..(Len(a) + 1) : \A d \in (b - 1)..Len(a) :
              /\ SubSeq(a, b, d) \in Seq(S) /\ Len(SubSeq(a, b, d)) = d - b + 1
              /\ \A k \in 1..(d - b + 1) : SubSeq(a, b, d)[k] = a[b - 1 + k]
        BY Piece
      <3>5. z \in Seq(S) /\ Len(z) = E - i /\ \A k \in 1..(E - i) : z[k] = t[i - 1 + k]
        <4>1. PICK f : f = E - 1
          OBVIOUS
        <4>2. i \in 1..(Len(t) + 1) /\ f \in (i - 1)..Len(t) /\ f - i + 1 = E - i
          BY <3>1, <3>2, <4>1
        <4>3. /\ SubSeq(t, i, f) \in Seq(S) /\ Len(SubSeq(t, i, f)) = f - i + 1
              /\ \A k \in 1..(f - i + 1) : SubSeq(t, i, f)[k] = t[i - 1 + k]
          BY <3>1, <3>4, <4>2
        <4>4. z = SubSeq(t, i, f)
          BY <4>1
        <4> HIDE DEF z
        <4> QED BY <4>2, <4>3, <4>4
      <3>6. y \in Seq(S) /\ Len(y) = E - i /\ \A k \in 1..(E - i) : y[k] = s[m + i - 1 + k]
        <4>1. PICK o : o = m + i
          OBVIOUS
        <4>2. PICK f : f = F - 1
          OBVIOUS
        <4>3. o \in 1..(Len(s) + 1) /\ f \in (o - 1)..Len(s) /\ f - o + 1 = E - i
              /\ m + i - 1 = o - 1
          BY <2>1, <2>2, <2>3, <3>1, <3>3, <4>1, <4>2
        <4>4. /\ SubSeq(s, o, f) \in Seq(S) /\ Len(SubSeq(s, o, f)) = f - o + 1
              /\ \A k \in 1..(f - o + 1) : SubSeq(s, o, f)[k] = s[o - 1 + k]
          BY <3>1, <3>4, <4>3
        <4>5. y = SubSeq(s, o, f)
          BY <4>1, <4>2
        <4> HIDE DEF y
        <4> QED BY <4>3, <4>4, <4>5
      <3> HIDE DEF y, z
      <3>7. \A k \in 1..(E - i) : y[k] = z[k]
        <4> TAKE k \in 1..(E - i)
        <4>1. i - 1 + k \in 1..n /\ m + (i - 1 + k) = m + i - 1 + k
          BY <2>1, <2>2
        <4> QED BY <1>1, <3>5, <3>6, <4>1
      <3>8. y = z
        BY <3>5, <3>6, <3>7, SeqEqual
      <3> QED BY <3>8 DEF y, z
    <2>6. h[i] = <<ParamOf(SubSeq(t, i, E - 1), form)>> \o h[E + 1]
      BY <1>3, <2>1 DEF E
    <2>7. g[m + i] = <<ParamOf(SubSeq(s, m + i, F - 1), form)>> \o g[F + 1]
      BY <1>2, <2>1 DEF F
    <2>8. g[F + 1] = h[E + 1]
      <3>1. E + 1 \in (i + 1)..(n + 2) /\ F + 1 = m + (E + 1)
        BY <2>1, <2>2, <2>4
      <3>2. Equal(E + 1)
        BY <1>5, <3>1
      <3> QED BY <3>1, <3>2
    <2> QED BY <2>5, <2>6, <2>7, <2>8
  <1> HIDE DEF Equal
  <1>6. 0 \in T
    <2>1. \A i \in 1..(n + 2) : i >= n + 1 - 0 => i > n
      BY <1>1
    <2> QED BY <1>4, <2>1
  <1>7. ASSUME NEW k \in T PROVE k + 1 \in T
    <2> SUFFICES ASSUME NEW i \in 1..(n + 2), i >= n + 1 - (k + 1) PROVE Equal(i)
      OBVIOUS
    <2>1. k \in Nat /\ \A j \in 1..(n + 2) : j >= n + 1 - k => Equal(j)
      OBVIOUS
    <2>2. CASE i > n
      BY <1>4, <2>2
    <2>3. CASE ~(i > n)
      <3>1. i \in 1..n
        BY <1>1, <2>3
      <3>2. \A j \in (i + 1)..(n + 2) : j \in 1..(n + 2) /\ j >= n + 1 - k
        BY <1>1, <2>1
      <3> QED BY <1>5, <2>1, <3>1, <3>2
    <2> QED BY <2>2, <2>3
  <1>8. \A i \in 1..(n + 2) : Equal(i)
    <2>1. T \in SUBSET Nat
      OBVIOUS
    <2> HIDE DEF T
    <2>2. n \in T
      BY <1>1, <1>6, <1>7, <2>1, Induction
    <2>3. \A i \in 1..(n + 2) : i >= n + 1 - n
      BY <1>1
    <2> QED BY <2>2, <2>3 DEF T
  <1> QED BY <1>8 DEF Equal, m, n

(* The list that a text gives is one.                                      *)
LEMMA ListOne ==
  ASSUME NEW S, NEW s \in Seq(S), NEW form, NEW g, ListedFrom(g, s, form)
  PROVE  g[1] = ParamsOf(s, form)
  <1>1. ListedFrom(ParamsFrom(s, form), s, form)
    BY ListLoop
  <1>2. <<>> \in Seq(S) /\ Len(<<>>) = 0 /\ <<>> \o s = s
    BY ConcatEmptySeq, EmptySeq
  <1> DEFINE z == <<>>
  <1>3. z \in Seq(S) /\ Len(z) = 0 /\ z \o s = s
    BY <1>2
  <1> HIDE DEF z
  <1>4. \A i \in 1..(Len(s) + 2) : g[Len(z) + i] = ParamsFrom(s, form)[i]
    <2>1. ListedFrom(g, z \o s, form)
      BY <1>3
    <2>2. \A a, b \in Seq(S) : \A h :
            ListedFrom(g, a \o b, form) /\ ListedFrom(h, b, form)
              => \A i \in 1..(Len(b) + 2) : g[Len(a) + i] = h[i]
      BY ListShift
    <2> DEFINE f == ParamsFrom(s, form)
    <2>3. ListedFrom(f, s, form)
      BY <1>1
    <2> HIDE DEF f
    <2>4. \A i \in 1..(Len(s) + 2) : g[Len(z) + i] = f[i]
      <3>1. z \in Seq(S)
        BY <1>3
      <3> QED BY <2>1, <2>2, <2>3, <3>1
    <2> QED BY <2>4 DEF f
  <1>5. 1 \in 1..(Len(s) + 2) /\ 0 + 1 = 1
    BY LenProperties
  <1> QED BY <1>3, <1>4, <1>5 DEF ParamsOf

(* Nothing, the last item, and one with others behind it.                  *)
LEMMA ListNone ==
  ASSUME NEW form
  PROVE  ParamsOf(<<>>, form) = <<>>
  <1> DEFINE z == <<>>
  <1>1. z \in Seq(Byte) /\ Len(z) = 0
    BY EmptySeq
  <1> HIDE DEF z
  <1>2. ListedFrom(ParamsFrom(z, form), z, form)
    BY <1>1, ListLoop
  <1>3. 1 \in 1..(Len(z) + 2) /\ 1 > Len(z)
    BY <1>1
  <1> QED BY <1>2, <1>3 DEF ListedFrom, ParamsOf, z

(* A text without "&" is one item.                                         *)
LEMMA ListLast ==
  ASSUME NEW S, NEW t \in Seq(S \ {"&"}), t # <<>>, NEW form
  PROVE  ParamsOf(t, form) = <<ParamOf(t, form)>>
  <1> DEFINE n == Len(t)
             E == EndFrom(t, 1)
             g == ParamsFrom(t, form)
  <1>1. n \in Nat \ {0} /\ t \in Seq(S)
    <2>1. n \in Nat \ {0}
      BY EmptySeq
    <2> QED BY <2>1, SeqMonotonic
  <1>2. ListedFrom(g, t, form)
    BY <1>1, ListLoop
  <1>3. E = n + 1
    <2>1. 1 \in 1..n
      BY <1>1
    <2>2. E \in 1..(n + 1) /\ (E <= n => t[E] = "&")
      BY <1>1, <2>1, EndIs
    <2>3. \A j \in 1..n : t[j] # "&"
      BY ElementOfSeq
    <2> QED BY <1>1, <2>2, <2>3
  <1> HIDE DEF E, g
  <1>4. g[n + 2] = <<>>
    <2>1. n + 2 \in 1..(n + 2) /\ n + 2 > n
      BY <1>1
    <2> QED BY <1>2, <2>1 DEF ListedFrom
  <1>5. g[1] = <<ParamOf(SubSeq(t, 1, E - 1), form)>> \o g[E + 1]
    <2>1. 1 \in 1..(n + 2) /\ ~(1 > n)
      BY <1>1
    <2> QED BY <1>2, <2>1 DEF ListedFrom, E
  <1>6. SubSeq(t, 1, E - 1) = t
    <2>1. SubSeq(t, 1, n) = t
      BY SubSeqFull
    <2>2. E - 1 = n
      BY <1>1, <1>3
    <2> QED BY <2>1, <2>2
  <1>7. E + 1 = n + 2
    BY <1>1, <1>3
  <1> DEFINE o == ParamOf(t, form)
  <1>8. <<o>> \o <<>> = <<o>>
    <2> HIDE DEF o
    <2>1. <<o>> \in Seq({o})
      OBVIOUS
    <2> QED BY <2>1, ConcatEmptySeq
  <1> QED BY <1>4, <1>5, <1>6, <1>7, <1>8 DEF ParamsOf, g

(* The item in front of the first "&", and those behind it.                *)
LEMMA ListMore ==
  ASSUME NEW t \in Seq(Byte \ {"&"}), NEW u \in Seq(Byte), NEW form
  PROVE  ParamsOf(t \o (<<"&">> \o u), form) = <<ParamOf(t, form)>> \o ParamsOf(u, form)
  <1> DEFINE m == Len(t)
             a == t \o <<"&">>
             s == a \o u
             E == EndFrom(s, 1)
             g == ParamsFrom(s, form)
             h == ParamsFrom(u, form)
  <1>1. m \in Nat /\ t \in Seq(Byte)
    BY SeqMonotonic, LenProperties
  <1>2. <<"&">> \in Seq(Byte) /\ Len(<<"&">>) = 1 /\ <<"&">>[1] = "&"
    <2>1. "&" \in Byte
      BY RequestAssumption
    <2> QED BY <2>1, Single
  <1>3. t \o (<<"&">> \o u) = s
    BY <1>1, <1>2, ConcatAssociative
  <1>4. /\ a \in Seq(Byte) /\ Len(a) = m + 1 /\ a[m + 1] = "&"
        /\ \A i \in 1..m : a[i] = t[i]
    <2>1. /\ a \in Seq(Byte) /\ Len(a) = m + Len(<<"&">>)
          /\ \A i \in 1..m : a[i] = t[i]
          /\ \A i \in 1..Len(<<"&">>) : a[m + i] = <<"&">>[i]
      BY <1>1, <1>2, Chain
    <2>2. 1 \in 1..Len(<<"&">>)
      BY <1>2
    <2> HIDE DEF a, m
    <2> QED BY <1>2, <2>1, <2>2
  <1> HIDE DEF a
  <1>5. /\ s \in Seq(Byte) /\ Len(s) = m + 1 + Len(u) /\ Len(u) \in Nat
        /\ \A i \in 1..(m + 1) : s[i] = a[i]
    <2>1. /\ s \in Seq(Byte) /\ Len(s) = Len(a) + Len(u) /\ Len(u) \in Nat
          /\ \A i \in 1..Len(a) : s[i] = a[i]
      BY <1>4, Chain
    <2> HIDE DEF s
    <2> QED BY <1>4, <2>1
  <1>6. ListedFrom(g, s, form) /\ ListedFrom(h, u, form)
    BY <1>5, ListLoop
  <1>7. g[m + 2] = h[1]
    <2>1. \A i \in 1..(Len(u) + 2) : g[Len(a) + i] = h[i]
      <3>1. \A b, d \in Seq(Byte) :
              ListedFrom(g, b \o d, form) /\ ListedFrom(h, d, form)
                => \A i \in 1..(Len(d) + 2) : g[Len(b) + i] = h[i]
        BY ListShift
      <3> HIDE DEF g, h
      <3> QED BY <1>4, <1>6, <3>1
    <2>2. 1 \in 1..(Len(u) + 2) /\ Len(a) + 1 = m + 2
      BY <1>1, <1>4, <1>5
    <2> QED BY <2>1, <2>2
  <1> HIDE DEF s, g, h
  <1>8. E = m + 1
    <2>1. 1 \in 1..Len(s)
      BY <1>1, <1>5
    <2>2. /\ E \in 1..(Len(s) + 1) /\ (E <= Len(s) => s[E] = "&")
          /\ \A j \in 1..Len(s) : s[j] = "&" => E <= j
      BY <1>5, <2>1, EndIs
    <2> HIDE DEF E
    <2>3. m + 1 \in 1..Len(s) /\ s[m + 1] = "&"
      BY <1>1, <1>4, <1>5
    <2>4. E <= m + 1 /\ E \in 1..(m + 1) /\ E <= Len(s)
      BY <1>1, <1>5, <2>2, <2>3
    <2>5. E \notin 1..m
      <3>1. \A j \in 1..m : t[j] # "&"
        BY ElementOfSeq DEF m
      <3>2. \A j \in 1..m : s[j] = t[j]
        BY <1>1, <1>4, <1>5
      <3> QED BY <2>2, <2>4, <3>1, <3>2
    <2> QED BY <1>1, <2>4, <2>5
  <1>9. g[1] = <<ParamOf(SubSeq(s, 1, E - 1), form)>> \o g[E + 1]
    <2>1. 1 \in 1..(Len(s) + 2) /\ ~(1 > Len(s))
      BY <1>1, <1>5
    <2> QED BY <1>6, <2>1 DEF ListedFrom
  <1> HIDE DEF E
  <1>10. SubSeq(s, 1, E - 1) = t
    <2> DEFINE y == SubSeq(s, 0 + 1, m)
    <2>1. y \in Seq(Byte) /\ Len(y) = m - 0 /\ \A i \in 1..(m - 0) : y[i] = s[0 + i]
      <3>1. 0 \in Nat /\ 0 <= m /\ m <= Len(s)
        BY <1>1, <1>5
      <3> QED BY <1>1, <1>5, <3>1, Slice
    <2> HIDE DEF y
    <2>2. \A i \in 1..m : y[i] = t[i]
      <3>1. m - 0 = m /\ \A i \in 1..m : 0 + i = i /\ i \in 1..(m + 1)
        BY <1>1
      <3> QED BY <1>4, <1>5, <2>1, <3>1
    <2>3. y = t
      <3>1. Len(y) = Len(t)
        BY <1>1, <2>1 DEF m
      <3> QED BY <1>1, <2>1, <2>2, <3>1, SeqEqual DEF m
    <2>4. E - 1 = m /\ 0 + 1 = 1
      BY <1>1, <1>8
    <2> QED BY <2>3, <2>4 DEF y
  <1>11. E + 1 = m + 2
    BY <1>1, <1>8
  <1> QED BY <1>3, <1>7, <1>9, <1>10, <1>11 DEF ParamsOf, g, h

(* The text of the items stands for them, but for a last one that is       *)
(* empty.                                                                  *)
LEMMA ItemsFound ==
  ASSUME NEW items \in Seq(Items), NEW form \in BOOLEAN
  PROVE  /\ ItemsFrom(items)[1] \in Seq(Byte)
         /\ ParamsOf(ItemsFrom(items)[1], form) = Meaning(items, form)
  <1> DEFINE n == Len(items)
             f == ItemsFrom(items)
             N == IF n > 0 /\ Text(items[n]) = <<>> THEN n - 1 ELSE n
             M == Meaning(items, form)
             U == {ItemMeaning(t, form) : t \in Items}
             P(k) == f[k] \in Seq(Byte) /\ ParamsOf(f[k], form) = SubSeq(M, k, N)
             T == {k \in Nat : k <= n => P(n + 1 - k)}
  <1>1. n \in Nat /\ \A k \in 1..n : items[k] \in Items
    BY LenProperties, ElementOfSeq
  <1>2. /\ f[n + 1] = <<>>
        /\ \A k \in 1..n :
             f[k] = Text(items[k]) \o (IF k = n THEN <<>> ELSE <<"&">>) \o f[k + 1]
    BY <1>1, ItemsLoop
  <1>3. N \in Nat /\ N \in {n - 1, n} /\ (N # n <=> n > 0 /\ Text(items[n]) = <<>>)
    BY <1>1
  <1>4. M = [k \in 1..N |-> ItemMeaning(items[k], form)]
    <2>1. (IF n > 0 /\ Text(items[n]) = <<>> THEN 1..(n - 1) ELSE 1..n) = 1..N
      OBVIOUS
    <2> QED BY <2>1 DEF Meaning
  <1> HIDE DEF N, n, f, M
  <1>5. /\ M \in Seq(U) /\ Len(M) = N
        /\ \A k \in 1..N : M[k] = ItemMeaning(items[k], form)
    <2>1. \A k \in 1..N : ItemMeaning(items[k], form) \in U
      BY <1>1, <1>3
    <2> HIDE DEF U
    <2> QED BY <1>3, <1>4, <2>1
  <1> HIDE DEF U
  <1>6. ASSUME NEW k \in 1..n
        PROVE  /\ Text(items[k]) \in Seq(Byte \ {"&"}) /\ Text(items[k]) \in Seq(Byte)
               /\ ParamOf(Text(items[k]), form) = ItemMeaning(items[k], form)
    <2>1. items[k] \in Items
      BY <1>1
    <2>2. PICK m, v : TextOf(items[k], m, v)
      BY <2>1, TextIs
    <2>3. Text(items[k]) \in Seq(Byte \ {"&"})
      BY <2>1, <2>2, SignIs
    <2>4. Text(items[k]) \in Seq(Byte)
      BY <2>3, SeqMonotonic
    <2> QED BY <2>1, <2>3, <2>4, ItemFound
  <1>7. P(n + 1)
    <2>1. SubSeq(M, n + 1, N) = <<>>
      BY <1>1, <1>3, SubSeqEmpty
    <2> QED BY <1>2, <2>1, ListNone, EmptySeq
  <1>8. n > 0 => P(n)
    <2> SUFFICES ASSUME n > 0 PROVE P(n)
      OBVIOUS
    <2>1. n \in 1..n
      BY <1>1
    <2>2. f[n] = Text(items[n])
      <3>1. f[n] = (Text(items[n]) \o <<>>) \o <<>>
        BY <1>2, <2>1
      <3> QED BY <1>6, <2>1, <3>1, ConcatEmptySeq
    <2>3. CASE Text(items[n]) = <<>>
      <3>1. N = n - 1
        BY <1>3, <2>3
      <3>2. SubSeq(M, n, N) = <<>>
        BY <1>1, <3>1, SubSeqEmpty
      <3> QED BY <2>2, <2>3, <3>2, ListNone, EmptySeq
    <2>4. CASE Text(items[n]) # <<>>
      <3>1. N = n
        BY <1>3, <2>4
      <3>2. ParamsOf(Text(items[n]), form) = <<ItemMeaning(items[n], form)>>
        <4>1. ParamsOf(Text(items[n]), form) = <<ParamOf(Text(items[n]), form)>>
          BY <1>6, <2>1, <2>4, ListLast
        <4> QED BY <1>6, <2>1, <4>1
      <3>3. SubSeq(M, n, n) = <<M[n]>>
        <4>1. n \in 1..Len(M) /\ n \in n..Len(M)
          BY <1>5, <2>1, <3>1
        <4>2. SubSeq(M, n, n) = <<M[n]>> \o SubSeq(M, n + 1, n)
          BY <1>5, <4>1, SubSeqRecursiveFirst
        <4>3. SubSeq(M, n + 1, n) = <<>>
          BY <1>1, SubSeqEmpty
        <4>4. <<M[n]>> \in Seq(U)
          <5>1. M[n] \in U
            BY <1>5, <4>1, ElementOfSeq
          <5> QED BY <5>1
        <4> QED BY <4>2, <4>3, <4>4, ConcatEmptySeq
      <3> QED BY <1>5, <1>6, <2>1, <2>2, <3>1, <3>2, <3>3
    <2> QED BY <2>3, <2>4
  <1>9. ASSUME NEW k \in 1..(n - 1), P(k + 1) PROVE P(k)
    <2>1. k \in 1..n /\ k # n /\ k \in 1..N /\ n \in Nat
      BY <1>1, <1>3
    <2>2. f[k] = (Text(items[k]) \o <<"&">>) \o f[k + 1]
      BY <1>2, <2>1
    <2>3. <<"&">> \in Seq(Byte)
      <3>1. "&" \in Byte
        BY RequestAssumption
      <3> QED BY <3>1
    <2>4. f[k] = Text(items[k]) \o (<<"&">> \o f[k + 1])
      <3>1. \A a, b, d \in Seq(Byte) : (a \o b) \o d = a \o (b \o d)
        BY ConcatAssociative
      <3> QED BY <1>6, <1>9, <2>1, <2>2, <2>3, <3>1
    <2>5. f[k] \in Seq(Byte)
      <3>1. \A a, b \in Seq(Byte) : a \o b \in Seq(Byte)
        BY ConcatProperties
      <3> QED BY <1>6, <1>9, <2>1, <2>3, <2>4, <3>1
    <2>6. ParamsOf(f[k], form) =
            <<ParamOf(Text(items[k]), form)>> \o ParamsOf(f[k + 1], form)
      BY <1>6, <1>9, <2>1, <2>4, ListMore
    <2>7. SubSeq(M, k, N) = <<M[k]>> \o SubSeq(M, k + 1, N)
      <3>1. k \in 1..Len(M) /\ N \in k..Len(M)
        BY <1>3, <1>5, <2>1
      <3> QED BY <1>5, <3>1, SubSeqRecursiveFirst
    <2>8. M[k] = ParamOf(Text(items[k]), form)
      BY <1>5, <1>6, <2>1
    <2> QED BY <1>9, <2>5, <2>6, <2>7, <2>8
  <1> HIDE DEF P
  <1>10. P(1)
    <2>1. 0 \in T
      <3>1. n + 1 - 0 = n + 1
        BY <1>1
      <3> QED BY <1>7, <3>1
    <2>2. ASSUME NEW k \in T PROVE k + 1 \in T
      <3> SUFFICES ASSUME k + 1 <= n PROVE P(n + 1 - (k + 1))
        OBVIOUS
      <3>1. k \in Nat /\ k <= n /\ n - k \in 1..n
        BY <1>1
      <3>2. n + 1 - k = n - k + 1 /\ n + 1 - (k + 1) = n - k
        BY <1>1, <3>1
      <3>3. P(n - k + 1)
        BY <3>1, <3>2
      <3>4. CASE n - k = n
        <4>1. n > 0
          BY <3>1, <3>4
        <4> QED BY <1>8, <3>2, <3>4, <4>1
      <3>5. CASE n - k # n
        <4>1. n - k \in 1..(n - 1)
          BY <1>1, <3>1, <3>5
        <4> QED BY <1>9, <3>2, <3>3, <4>1
      <3> QED BY <3>4, <3>5
    <2>3. T \in SUBSET Nat
      OBVIOUS
    <2> HIDE DEF T
    <2>4. n \in T
      BY <1>1, <2>1, <2>2, <2>3, Induction
    <2>5. n + 1 - n = 1 /\ n <= n
      BY <1>1
    <2> QED BY <2>4, <2>5 DEF T
  <1>11. SubSeq(M, 1, N) = M
    BY <1>5, SubSeqFull
  <1> QED BY <1>10, <1>11 DEF P, f, M

(* The parameters of a text are a sequence.                                *)
AllParams ==
  {ParamOf(t, TRUE) : t \in Seq(Byte)} \cup {ParamOf(t, FALSE) : t \in Seq(Byte)}

(* Each of them is what some text stands for.                              *)
LEMMA ParamsType ==
  ASSUME NEW s \in Seq(Byte), NEW form \in BOOLEAN
  PROVE  ParamsOf(s, form) \in Seq(AllParams)
  <1> DEFINE n == Len(s)
             g == ParamsFrom(s, form)
             Is(i) == g[i] \in Seq(AllParams)
             T == {k \in Nat : \A i \in 1..(n + 2) : i >= n + 1 - k => Is(i)}
  <1>1. n \in Nat
    BY LenProperties
  <1>2. \A i \in 1..(n + 2) :
          g[i] = IF i > n THEN <<>>
                 ELSE <<ParamOf(SubSeq(s, i, EndFrom(s, i) - 1), form)>>
                        \o g[EndFrom(s, i) + 1]
    BY ListLoop DEF ListedFrom
  <1> HIDE DEF g
  <1>3. ASSUME NEW i \in 1..(n + 2), i > n PROVE Is(i)
    BY <1>2, <1>3, EmptySeq
  <1>4. ASSUME NEW i \in 1..n, \A j \in (i + 1)..(n + 2) : Is(j) PROVE Is(i)
    <2> DEFINE E == EndFrom(s, i)
    <2>1. E \in i..(n + 1)
      BY EndIs
    <2>2. g[i] = <<ParamOf(SubSeq(s, i, E - 1), form)>> \o g[E + 1]
      <3>1. i \in 1..(n + 2) /\ ~(i > n)
        BY <1>1
      <3> QED BY <1>2, <3>1
    <2> HIDE DEF E
    <2> DEFINE o == ParamOf(SubSeq(s, i, E - 1), form)
    <2>3. o \in AllParams
      <3>1. i \in 1..(n + 1) /\ E - 1 \in (i - 1)..n
        BY <1>1, <2>1
      <3>2. SubSeq(s, i, E - 1) \in Seq(Byte)
        BY <3>1, Piece
      <3>3. \A t \in Seq(Byte) : ParamOf(t, form) \in AllParams
        BY DEF AllParams
      <3> QED BY <3>2, <3>3
    <2> HIDE DEF o
    <2>4. <<o>> \in Seq(AllParams)
      BY <2>3
    <2>5. g[E + 1] \in Seq(AllParams)
      <3>1. E + 1 \in (i + 1)..(n + 2)
        BY <1>1, <2>1
      <3> QED BY <1>4, <3>1
    <2> QED BY <2>2, <2>4, <2>5, ConcatProperties DEF o
  <1> HIDE DEF Is
  <1>5. 0 \in T
    <2>1. \A i \in 1..(n + 2) : i >= n + 1 - 0 => i > n
      BY <1>1
    <2> QED BY <1>3, <2>1
  <1>6. ASSUME NEW k \in T PROVE k + 1 \in T
    <2> SUFFICES ASSUME NEW i \in 1..(n + 2), i >= n + 1 - (k + 1) PROVE Is(i)
      OBVIOUS
    <2>1. k \in Nat /\ \A j \in 1..(n + 2) : j >= n + 1 - k => Is(j)
      OBVIOUS
    <2>2. CASE i > n
      BY <1>3, <2>2
    <2>3. CASE ~(i > n)
      <3>1. i \in 1..n
        BY <1>1, <2>3
      <3>2. \A j \in (i + 1)..(n + 2) : j \in 1..(n + 2) /\ j >= n + 1 - k
        BY <1>1, <2>1
      <3> QED BY <1>4, <2>1, <3>1, <3>2
    <2> QED BY <2>2, <2>3
  <1>7. Is(1)
    <2>1. T \in SUBSET Nat
      OBVIOUS
    <2> HIDE DEF T
    <2>2. n \in T
      BY <1>1, <1>5, <1>6, <2>1, Induction
    <2>3. 1 \in 1..(n + 2) /\ 1 >= n + 1 - n
      BY <1>1
    <2> QED BY <2>2, <2>3 DEF T
  <1> QED BY <1>7 DEF Is, g, ParamsOf

(* What the parser finds in the query is what was sent in it.              *)
LEMMA QueryFound ==
  ASSUME request \in Requests
  PROVE  /\ ParamsOf(Query(request), FALSE) = InQuery
         /\ ParamsOf(Form, TRUE) = Meaning(request.form, TRUE)
         /\ InQuery \in Seq(AllParams)
  <1>1. request.query \in Seq(Items) /\ request.form \in Seq(Items)
    BY RequestIs DEF WellFormed
  <1>2. ParamsOf(Query(request), FALSE) = InQuery
    BY <1>1, ItemsFound DEF Query, InQuery
  <1>3. ParamsOf(Form, TRUE) = Meaning(request.form, TRUE)
    BY <1>1, ItemsFound DEF Form, FormText
  <1>4. ParamsOf(Query(request), FALSE) \in Seq(AllParams)
    <2>1. Query(request) \in Seq(Byte)
      BY RequestIs
    <2> QED BY <2>1, ParamsType
  <1> QED BY <1>2, <1>3, <1>4

(* _addGetParams adds the parameters of the text to those it has found.    *)
LEMMA AddDoes ==
  ASSUME NEW S, NEW s \in Seq(S), NEW x
  PROVE  AddGetParams(x, s) = [x EXCEPT !.params = @ \o ParamsOf(s, FALSE)]
  <1>1. PICK g : /\ AddGetParams(x, s) = [x EXCEPT !.params = @ \o g[1]]
                 /\ ListedFrom(g, s, FALSE)
    BY AddLoop DEF AddSteps
  <1>2. g[1] = ParamsOf(s, FALSE)
    BY <1>1, ListOne
  <1> QED BY <1>1, <1>2

(* Before the body: the parameters are those of the query, and of a        *)
(* request without a body no others are to come.                           *)
LEMMA BeforeBody ==
  ASSUME request \in Requests
  PROVE  /\ InQuery \in Seq(Range(InQuery)) /\ InQuery \in Seq(AllParams)
         /\ request.kind # "multipart"
              /\ (request.kind \in {"form", "text"} => B = <<>>) => Expected = InQuery
         /\ request.kind \in {"form", "text"} =>
              Expected = InQuery \o ParamsOf(Form, TRUE)
         /\ PartsUpTo(request.parts)[0] = <<>> /\ InQuery \o <<>> = InQuery
  <1> DEFINE i == InQuery
             k == request.kind
  <1>1. /\ i \in Seq(AllParams) /\ i \in Seq(Range(i)) /\ i \o <<>> = i
    <2>1. i \in Seq(AllParams)
      BY QueryFound
    <2> HIDE DEF i
    <2> QED BY <2>1, SeqOfRange, ConcatEmptySeq
  <1>2. ParamsOf(Form, TRUE) = Meaning(request.form, TRUE)
    BY QueryFound
  <1>3. k \in {"form", "text"} => Expected = i \o ParamsOf(Form, TRUE)
    BY <1>2 DEF Expected
  <1>4. k \notin {"form", "text", "multipart"} => Expected = i \o <<>>
    BY DEF Expected
  <1>5. k \in {"form", "text"} /\ B = <<>> => ParamsOf(Form, TRUE) = <<>>
    <2> SUFFICES ASSUME k \in {"form", "text"}, B = <<>> PROVE ParamsOf(Form, TRUE) = <<>>
      OBVIOUS
    <2>1. Form \in Seq(Byte) /\ Len(Form) = 0
      BY FormIs
    <2> QED BY <2>1, EmptySeq, ListNone
  <1>6. PartsUpTo(request.parts)[0] = <<>>
    <2>1. Len(request.parts) \in Nat
      <3>1. request.parts \in Seq([name : Byte \ {"CR", "LF", "type"}, file : BOOLEAN,
                                   value : Seq(Byte)])
        BY RequestIs DEF WellFormed
      <3> QED BY <3>1, LenProperties
    <2> QED BY <2>1, PartParamsLoop
  <1> HIDE DEF i
  <1>7. k # "multipart" /\ (k \in {"form", "text"} => B = <<>>) => Expected = i
    <2>1. CASE k \in {"form", "text"}
      BY <1>1, <1>3, <1>5, <2>1
    <2>2. CASE k \notin {"form", "text"}
      BY <1>1, <1>4, <2>2
    <2> QED BY <2>1, <2>2
  <1> QED BY <1>1, <1>3, <1>6, <1>7 DEF i

----------------------------------------------------------------------------
(* The head                                                                *)

Members == DOMAIN New

(* y is x but for some of its fields.                                      *)
Same(x, y, S) ==
  DOMAIN y = Members /\ \A f \in Members \ S : y[f] = x[f]

(* The fields of an AsyncWebServerRequest.                                 *)
LEMMA FieldsAre ==
  Members = {"parse", "temp", "params", "method", "url", "handler", "contentLength",
             "parsedLength", "multipart", "form", "plain", "plainPost", "multi", "boundaryPosition",
             "name", "isFile", "size", "value", "buffer", "part", "from", "handled",
             "upload", "raw", "torn"}
  BY DEF Members, New

(* The first LF of a request ends its first line, and the first question   *)
(* mark ends its URL.                                                      *)
LEMMA NoLineEnd ==
  ASSUME request \in Requests
  PROVE  /\ FirstLine \in Nat /\ FirstLine >= 3 /\ HeadEnd \in Nat
         /\ HeadEnd = FirstLine + IF request.kind = "get" THEN 1 ELSE 7
         /\ \A k \in 1..(FirstLine - 1) : A[k] # "LF"
         /\ \A k \in 1..(Len(Url(request)) + 1) : A[k] # "?"
         /\ request.kind # "LF" /\ request.kind # "Length"
  <1> DEFINE n == Len(Url(request))
             m == Len(Query(request))
  <1>1. n \in Nat /\ m \in Nat
    BY RequestIs
  <1>2. FirstLine = n + m + 3
    BY <1>1 DEF FirstLine
  <1>3. HeadEnd \in Nat /\ HeadEnd = FirstLine + IF request.kind = "get" THEN 1 ELSE 7
    <2>1. FirstLine \in Nat
      BY <1>1, <1>2
    <2> QED BY <2>1 DEF HeadEnd
  <1>4. /\ request.method # "LF" /\ request.method # "?"
        /\ Url(request) \in Seq(Byte \ {"CR", "LF", " ", "?", "NUL"})
        /\ Query(request) \in Seq(Byte \ {"CR", "LF", " ", "NUL"})
        /\ request.kind \in Kinds
    BY RequestIs DEF WellFormed
  <1>5. /\ \A i \in 1..n : Url(request)[i] # "LF" /\ Url(request)[i] # "?"
        /\ \A i \in 1..m : Query(request)[i] # "LF"
    <2> DEFINE U == Byte \ {"CR", "LF", " ", "?", "NUL"}
               V == Byte \ {"CR", "LF", " ", "NUL"}
    <2>1. Url(request) \in Seq(U) /\ Query(request) \in Seq(V)
      BY <1>4
    <2>2. (\A b \in U : b # "LF" /\ b # "?") /\ \A b \in V : b # "LF"
      BY Zenon
    <2> HIDE DEF U, V
    <2>3. (\A i \in 1..n : Url(request)[i] \in U) /\ \A i \in 1..m : Query(request)[i] \in V
      BY <2>1, ElementOfSeq
    <2> QED BY <2>2, <2>3
  <1>6. /\ A[1] = request.method /\ A[n + 2] = "?"
        /\ \A i \in 1..n : A[1 + i] = Url(request)[i]
        /\ \A i \in 1..m : A[n + 2 + i] = Query(request)[i]
    BY BytesAre
  <1>7. /\ \A i \in 1..n : A[1 + i] # "LF" /\ A[1 + i] # "?"
        /\ \A i \in 1..m : A[n + 2 + i] # "LF"
    BY <1>5, <1>6
  <1> HIDE DEF n, m
  <1>8. ASSUME NEW k \in 1..(FirstLine - 1) PROVE A[k] # "LF"
    <2>1. CASE k = 1
      BY <1>4, <1>6, <2>1
    <2>2. CASE k \in 2..(n + 1)
      <3>1. k - 1 \in 1..n /\ 1 + (k - 1) = k
        BY <1>1, <2>2
      <3> QED BY <1>7, <3>1
    <2>3. CASE k = n + 2
      BY <1>6, <2>3
    <2>4. CASE k \in (n + 3)..(n + m + 2)
      <3>1. k - (n + 2) \in 1..m /\ n + 2 + (k - (n + 2)) = k
        BY <1>1, <2>4
      <3> QED BY <1>7, <3>1
    <2> QED BY <1>1, <1>2, <2>1, <2>2, <2>3, <2>4
  <1>9. ASSUME NEW k \in 1..(n + 1) PROVE A[k] # "?"
    <2>1. CASE k = 1
      BY <1>4, <1>6, <2>1
    <2>2. CASE k \in 2..(n + 1)
      <3>1. k - 1 \in 1..n /\ 1 + (k - 1) = k
        BY <1>1, <2>2
      <3> QED BY <1>7, <3>1
    <2> QED BY <1>1, <2>1, <2>2
  <1>10. request.kind # "LF" /\ request.kind # "Length"
    BY <1>4 DEF Kinds
  <1>11. FirstLine \in Nat /\ FirstLine >= 3
    BY <1>1, <1>2
  <1> QED BY <1>3, <1>8, <1>9, <1>10, <1>11 DEF n

(* What a line does.                                                       *)
LEMMA HeadLineDoes ==
  ASSUME NEW x, DOMAIN x = Members
  PROVE  /\ Same(x, ParseReqHead(x), {"params", "parse", "method", "url", "temp"})
         /\ ParseReqHead(x).parse = "HEADERS" /\ ParseReqHead(x).temp = <<>>
         /\ ParseReqHead(x).method = IF x.temp[1] \in Methods THEN x.temp[1] ELSE x.method
         /\ ParseReqHead(x).url = UrlDecode(SubSeq(x.temp, 2, IndexOf(x.temp, "?") - 1))
         /\ ParseReqHead(x).params =
              AddGetParams(x, SubSeq(x.temp, IndexOf(x.temp, "?") + 1, Len(x.temp))).params
  <1>1. \A s : Same(x, AddGetParams(x, s), {"params"})
    BY FieldsAre DEF AddGetParams, Same
  <1> DEFINE y == AddGetParams(x, SubSeq(x.temp, IndexOf(x.temp, "?") + 1, Len(x.temp)))
  <1>2. Same(x, y, {"params"})
    BY <1>1
  <1>3. ParseReqHead(x) =
          [y EXCEPT !.parse = "HEADERS", !.temp = <<>>,
             !.method = IF x.temp[1] \in Methods THEN x.temp[1] ELSE @,
             !.url = UrlDecode(SubSeq(x.temp, 2, IndexOf(x.temp, "?") - 1))]
    BY DEF ParseReqHead
  <1> HIDE DEF y
  <1>4. /\ Same(x, ParseReqHead(x), {"params", "parse", "method", "url", "temp"})
        /\ ParseReqHead(x).parse = "HEADERS" /\ ParseReqHead(x).temp = <<>>
        /\ ParseReqHead(x).method = IF x.temp[1] \in Methods THEN x.temp[1] ELSE x.method
        /\ ParseReqHead(x).url = UrlDecode(SubSeq(x.temp, 2, IndexOf(x.temp, "?") - 1))
        /\ ParseReqHead(x).params = y.params
    BY <1>2, <1>3, FieldsAre DEF Same
  <1> QED BY <1>4 DEF y

(* What _parseReqHeader changes, and how.                                  *)
LEMMA HeaderDoes ==
  ASSUME NEW x, DOMAIN x = Members
  PROVE  /\ Same(x, ParseReqHeader(x), {"temp", "contentLength", "multipart", "form", "plain"})
         /\ ParseReqHeader(x).temp = <<>>
         /\ ParseReqHeader(x).contentLength =
              IF x.temp[2] = "Length" THEN Len(B) ELSE x.contentLength
         /\ ParseReqHeader(x).multipart = (x.multipart \/ x.temp[2] = "multipart")
         /\ ParseReqHeader(x).form = (x.form \/ x.temp[2] = "form")
         /\ ParseReqHeader(x).plain = (x.plain \/ x.temp[2] = "text")
  BY FieldsAre DEF ParseReqHeader, Same, B

(* What _attachHandler changes, and how.                                   *)
LEMMA AttachDoes ==
  ASSUME NEW x, DOMAIN x = Members
  PROVE  /\ Same(x, AttachHandler(x), {"handler"})
         /\ x.url = request.url /\ x.method = Method => Routed(AttachHandler(x))
  <1> DEFINE C(y) == {i \in DOMAIN Routes : CanHandle(Routes[i], y)}
             H(y) == IF C(y) = {} THEN "redirect /" ELSE Routes[Min(C(y))].answer
             z == [url |-> request.url, method |-> Method, handler |-> "none"]
  <1>1. AttachHandler(x) = [x EXCEPT !.handler = H(x)] /\ AttachHandler(z).handler = H(z)
    BY DEF AttachHandler
  <1>2. ASSUME x.url = request.url, x.method = Method
        PROVE  H(x) = H(z)
    <2>1. C(x) = C(z)
      BY <1>2 DEF CanHandle
    <2> QED BY <2>1
  <1> HIDE DEF H
  <1>3. Same(x, AttachHandler(x), {"handler"}) /\ AttachHandler(x).handler = H(x)
    BY <1>1, FieldsAre DEF Same
  <1>4. AttachHandler(z).handler = H(z)
    BY <1>1
  <1> QED BY <1>2, <1>3, <1>4 DEF Routed

(* What the call of handleRequest changes.                                 *)
LEMMA HandleDoes ==
  ASSUME NEW x, DOMAIN x = Members
  PROVE  /\ Same(x, HandleRequest(x), {"parse", "handled"})
         /\ HandleRequest(x).parse = "END" /\ HandleRequest(x).handled = x.handled + 1
  BY FieldsAre DEF HandleRequest, Same

(* A turn of the loop leaves the parser at r, or at the end of a line.     *)
Stops == {FirstLine, FirstLine + 3, FirstLine + 6, HeadEnd}

Turned(t, p, r) ==
  \E p2 \in p..r : /\ t[2] = SubSeq(A, p2 + 1, r) /\ Understood(t[1], p2)
                   /\ p2 = r \/ (p2 > p /\ p2 \in Stops)

(* What a turn does in the head, in a line that ends at e.                 *)
LineTurn(x, p, r, e) ==
  LET t == Turn(<<x, SubSeq(A, p + 1, r)>>)
  IN /\ r < e => t = <<[x EXCEPT !.temp = @ \o SubSeq(A, p + 1, r)], <<>>>>
     /\ ~(r < e) =>
          t = <<ParseLine([x EXCEPT !.temp = @ \o SubSeq(A, p + 1, e - 1)]),
                SubSeq(A, e + 1, r)>>

(* A turn in the head: the line is read when its end is in the packet, and *)
(* is kept in temp when it is not.                                         *)
LEMMA HeadTurn ==
  ASSUME request \in Requests, NEW x, DOMAIN x = Members,
         x.parse \in {"START", "HEADERS"},
         NEW p \in Nat, NEW r \in Nat, p < r, r <= Len(A),
         NEW e \in Nat, p < e, e <= Len(A), A[e] = "LF",
         \A k \in (p + 1)..(e - 1) : A[k] # "LF"
  PROVE  LineTurn(x, p, r, e)
  <1> DEFINE buf == SubSeq(A, p + 1, r)
             i   == IndexOf(buf, "LF")
             y(s) == [x EXCEPT !.temp = @ \o s]
  <1>1. A \in Seq(Byte)
    BY BytesAre
  <1>2. /\ Len(buf) = r - p /\ i \in Nat
        /\ r < e => i > Len(buf) /\ SubSeq(buf, 1, i - 1) = buf
        /\ ~(r < e) =>
             /\ i <= Len(buf) /\ SubSeq(buf, 1, i - 1) = SubSeq(A, p + 1, e - 1)
             /\ SubSeq(buf, i + 1, Len(buf)) = SubSeq(A, e + 1, r)
    <2>1. Split(buf, A, p, r, e)
      BY <1>1, LineEnds
    <2> HIDE DEF buf
    <2> QED BY <2>1 DEF Split
  <1>3. Turn(<<x, buf>>) =
          IF buf = <<>> \/ x.parse = "END" THEN <<x, <<>>>>
          ELSE IF x.parse = "BODY" THEN <<OnBody(x, buf), <<>>>>
          ELSE IF i > Len(buf) THEN <<y(SubSeq(buf, 1, i - 1)), <<>>>>
          ELSE <<ParseLine(y(SubSeq(buf, 1, i - 1))), SubSeq(buf, i + 1, Len(buf))>>
    BY DEF Turn
  <1> HIDE DEF i, y
  <1> HIDE DEF buf
  <1>4. buf # <<>> /\ x.parse # "END" /\ x.parse # "BODY"
    <2>1. Len(buf) # 0
      BY <1>2
    <2> QED BY <2>1
  <1>5. CASE r < e
    BY <1>2, <1>3, <1>4, <1>5 DEF buf, y, LineTurn
  <1>6. CASE ~(r < e)
    <2>1. ~(i > Len(buf))
      <3>1. Len(buf) \in Nat
        BY <1>2
      <3> QED BY <1>2, <1>6, <3>1
    <2>2. Turn(<<x, buf>>) =
            <<ParseLine(y(SubSeq(buf, 1, i - 1))), SubSeq(buf, i + 1, Len(buf))>>
      BY <1>3, <1>4, <2>1
    <2> QED BY <1>2, <1>6, <2>2 DEF buf, y, LineTurn
  <1> QED BY <1>5, <1>6

(* A turn in the first line: what was understood of p bytes is understood  *)
(* of the more that it has read.                                           *)
LEMMA StartTurn ==
  ASSUME request \in Requests, NEW x, DOMAIN x = Members,
         NEW p \in Nat, NEW r \in Nat, p < r, r <= Len(A), AtStart(x, p)
  PROVE  Turned(Turn(<<x, SubSeq(A, p + 1, r)>>), p, r)
  <1> DEFINE t == Turn(<<x, SubSeq(A, p + 1, r)>>)
             F == FirstLine
             y(s) == [x EXCEPT !.temp = @ \o s]
  <1>1. /\ F \in Nat /\ F >= 3 /\ HeadEnd \in Nat /\ F < HeadEnd
        /\ A \in Seq(Byte) /\ Len(A) \in Nat /\ HeadEnd <= Len(A)
        /\ A[F] = "LF" /\ \A k \in 1..(F - 1) : A[k] # "LF"
    <2>1. F \in Nat /\ F >= 3 /\ HeadEnd \in Nat /\ F < HeadEnd
      BY HeadSizes
    <2>2. /\ A \in Seq(Byte) /\ Len(A) \in Nat /\ HeadEnd <= Len(A)
          /\ A[F] = "LF"
      BY WholeHead
    <2>3. \A k \in 1..(F - 1) : A[k] # "LF"
      BY NoLineEnd
    <2> QED BY <2>1, <2>2, <2>3
  <1>2. /\ x.parse = "START" /\ p < F /\ x.temp = SubSeq(A, 1, p)
        /\ Unread(x) /\ NoKind(x) /\ x.contentLength = 0
        /\ x.params = <<>> /\ x.method = "ANY"
    BY <1>1 DEF AtStart, A
  <1>3. /\ r < F => t = <<y(SubSeq(A, p + 1, r)), <<>>>>
        /\ ~(r < F) =>
             t = <<ParseLine(y(SubSeq(A, p + 1, F - 1))), SubSeq(A, F + 1, r)>>
    <2>1. \A k \in (p + 1)..(F - 1) : A[k] # "LF"
      BY <1>1
    <2>2. x.parse \in {"START", "HEADERS"} /\ p < F /\ F <= Len(A)
      BY <1>1, <1>2
    <2>3. LineTurn(x, p, r, F)
      <3> HIDE DEF F
      <3> QED BY <1>1, <2>1, <2>2, HeadTurn
    <2> QED BY <2>3 DEF LineTurn
  <1> HIDE DEF t
  <1>4. ASSUME NEW s
        PROVE  Same(x, y(s), {"temp"}) /\ y(s).temp = x.temp \o s
    BY FieldsAre DEF Same
  <1>5. \A k \in p..Len(A) : x.temp \o SubSeq(A, p + 1, k) = SubSeq(A, 1, k)
    <2> TAKE k \in p..Len(A)
    <2>1. 0 \in Nat /\ k \in Nat /\ 0 <= p /\ p <= k /\ k <= Len(A) /\ 0 + 1 = 1
      BY <1>1
    <2>2. SubSeq(A, 0 + 1, p) \o SubSeq(A, p + 1, k) = SubSeq(A, 0 + 1, k)
      BY <1>1, <2>1, Joined
    <2> QED BY <1>2, <2>1, <2>2
  <1> HIDE DEF y, F
  <1>6. CASE r < F
    <2> DEFINE z == y(SubSeq(A, p + 1, r))
    <2>1. Same(x, z, {"temp"}) /\ z.temp = SubSeq(A, 1, r)
      <3>1. r \in p..Len(A)
        BY <1>1
      <3> QED BY <1>4, <1>5, <3>1
    <2> HIDE DEF z
    <2>2. AtStart(z, r)
      <3>1. Unread(z) /\ z.parse = "START" /\ NoKind(z)
            /\ z.contentLength = 0 /\ z.params = <<>> /\ z.method = "ANY"
        BY <1>2, <2>1, FieldsAre DEF Same, Unread, NoKind
      <3>2. r \in 0..(FirstLine - 1)
        BY <1>1, <1>6 DEF F
      <3> QED BY <2>1, <3>1, <3>2 DEF AtStart, A
    <2>3. SubSeq(A, r + 1, r) = <<>>
      BY SubSeqEmpty
    <2>4. t = <<z, <<>>>>
      BY <1>3, <1>6 DEF z
    <2>5. t[1] = z /\ t[2] = SubSeq(A, r + 1, r)
      BY <2>3, <2>4
    <2>6. Understood(z, r) /\ r \in p..r
      BY <2>1, <2>2 DEF Understood, Same, Members
    <2> QED BY <2>5, <2>6 DEF Turned, t
  <1>7. CASE ~(r < F)
    <2> DEFINE z == y(SubSeq(A, p + 1, F - 1))
               w == ParseLine(z)
    <2>1. Same(x, z, {"temp"}) /\ z.temp = SubSeq(A, 1, F - 1)
      <3>1. F - 1 \in p..Len(A)
        BY <1>1, <1>2
      <3> QED BY <1>4, <1>5, <3>1
    <2> HIDE DEF z
    <2>2. z.parse = "START" /\ DOMAIN z = Members /\ z.params = <<>>
          /\ z.method = "ANY"
      BY <1>2, <2>1, FieldsAre DEF Same
    <2>3. /\ Same(z, w, {"params", "parse", "method", "url", "temp"})
          /\ w.parse = "HEADERS" /\ w.temp = <<>>
          /\ w.method = IF z.temp[1] \in Methods THEN z.temp[1] ELSE z.method
          /\ w.url = UrlDecode(SubSeq(z.temp, 2, IndexOf(z.temp, "?") - 1))
          /\ w.params =
               AddGetParams(z, SubSeq(z.temp, IndexOf(z.temp, "?") + 1, Len(z.temp))).params
      BY <2>2, HeadLineDoes DEF ParseLine
    <2> HIDE DEF w
    <2>4. w.method = Method /\ w.url = request.url /\ w.params = InQuery
      <3> DEFINE n == Len(Url(request))
                 e == IndexOf(z.temp, "?")
      <3>1. n \in Nat /\ n + 2 <= F - 1 /\ Len(Query(request)) \in Nat
            /\ Url(request) \in Seq(Byte)
        BY RequestIs DEF FirstLine, F
      <3>2. /\ z.temp \in Seq(Byte) /\ Len(z.temp) = F - 1
            /\ \A k \in 1..(F - 1) : z.temp[k] = A[k]
        <4>1. 0 \in Nat /\ F - 1 \in Nat /\ 0 <= F - 1 /\ F - 1 <= Len(A) /\ 0 + 1 = 1
          BY <1>1
        <4>2. /\ SubSeq(A, 0 + 1, F - 1) \in Seq(Byte)
              /\ Len(SubSeq(A, 0 + 1, F - 1)) = F - 1 - 0
              /\ \A k \in 1..(F - 1 - 0) : SubSeq(A, 0 + 1, F - 1)[k] = A[0 + k]
          BY <1>1, <4>1, Slice
        <4>3. F - 1 - 0 = F - 1 /\ \A k \in 1..(F - 1) : 0 + k = k
          BY <1>1
        <4> QED BY <2>1, <4>1, <4>2, <4>3
      <3>3. /\ e \in 1..(F - 1 + 1) /\ (e <= F - 1 => z.temp[e] = "?")
            /\ \A j \in 1..(F - 1) : z.temp[j] = "?" => e <= j
        BY <3>2, PlaceIs
      <3> HIDE DEF e
      <3>4. A[n + 2] = "?" /\ \A k \in 1..(n + 1) : A[k] # "?"
        BY BytesAre, NoLineEnd
      <3>5. e = n + 2
        <4>1. e <= n + 2
          <5>1. n + 2 \in 1..(F - 1)
            BY <1>1, <3>1
          <5>2. z.temp[n + 2] = "?"
            BY <3>2, <3>4, <5>1
          <5> QED BY <3>3, <5>1, <5>2
        <4>2. ~(e \in 1..(n + 1))
          <5> SUFFICES ASSUME e \in 1..(n + 1) PROVE FALSE
            OBVIOUS
          <5>1. e <= F - 1 /\ e \in 1..(F - 1)
            BY <1>1, <3>1
          <5> QED BY <3>2, <3>3, <3>4, <5>1
        <4> QED BY <1>1, <3>1, <3>3, <4>1, <4>2
      <3> DEFINE u == SubSeq(z.temp, 1 + 1, n + 1)
      <3>6. u \in Seq(Byte) /\ Len(u) = n /\ \A i \in 1..n : u[i] = z.temp[1 + i]
        <4>1. 1 \in Nat /\ n + 1 \in Nat /\ 1 <= n + 1 /\ n + 1 <= Len(z.temp)
              /\ n + 1 - 1 = n
          BY <1>1, <3>1, <3>2
        <4>2. /\ u \in Seq(Byte) /\ Len(u) = n + 1 - 1
              /\ \A i \in 1..(n + 1 - 1) : u[i] = z.temp[1 + i]
          BY <3>2, <4>1, Slice
        <4> HIDE DEF u
        <4> QED BY <4>1, <4>2
      <3> HIDE DEF u
      <3>7. \A i \in 1..n : A[1 + i] = Url(request)[i]
        BY BytesAre
      <3>8. \A i \in 1..n : u[i] = Url(request)[i]
        <4> TAKE i \in 1..n
        <4>1. 1 + i \in 1..(F - 1)
          BY <1>1, <3>1
        <4> QED BY <3>2, <3>6, <3>7, <4>1
      <3>9. u = Url(request)
        BY <3>1, <3>6, <3>8, SeqEqual
      <3>10. w.url = request.url
        <4>1. 1 + 1 = 2 /\ e - 1 = n + 1
          BY <3>1, <3>5
        <4>2. SubSeq(z.temp, 2, e - 1) = Url(request)
          BY <3>9, <4>1 DEF u
        <4> QED BY <2>3, <4>2, UrlFound DEF e
      <3>11. w.method = Method
        <4>1. 1 \in 1..(F - 1)
          BY <1>1
        <4>2. A[1] = request.method
          BY BytesAre
        <4>3. z.temp[1] = request.method
          BY <3>2, <4>1, <4>2
        <4> QED BY <2>2, <2>3, <4>3 DEF Method
      <3>12. w.params = InQuery
        <4> DEFINE o == SubSeq(z.temp, n + 2 + 1, F - 1)
                   m == Len(Query(request))
        <4>1. n + 2 \in Nat /\ F - 1 \in Nat /\ n + 2 <= F - 1 /\ F - 1 <= Len(z.temp)
              /\ F - 1 - (n + 2) = m /\ m \in Nat
          <5>1. F = n + m + 3
            BY DEF F, FirstLine
          <5>2. m \in Nat /\ n \in Nat /\ Len(z.temp) = F - 1
            BY <3>1, <3>2
          <5> HIDE DEF n, m
          <5> QED BY <5>1, <5>2
        <4>2. /\ o \in Seq(Byte) /\ Len(o) = F - 1 - (n + 2)
              /\ \A i \in 1..(F - 1 - (n + 2)) : o[i] = z.temp[n + 2 + i]
          <5>1. PICK a : a = n + 2
            OBVIOUS
          <5>2. PICK f : f = F - 1
            OBVIOUS
          <5>3. a \in Nat /\ f \in Nat /\ a <= f /\ f <= Len(z.temp) /\ z.temp \in Seq(Byte)
            BY <3>2, <4>1, <5>1, <5>2
          <5>4. /\ SubSeq(z.temp, a + 1, f) \in Seq(Byte) /\ Len(SubSeq(z.temp, a + 1, f)) = f - a
                /\ \A i \in 1..(f - a) : SubSeq(z.temp, a + 1, f)[i] = z.temp[a + i]
            BY <5>3, Slice
          <5> QED BY <5>1, <5>2, <5>4
        <4> HIDE DEF o, m
        <4>3. o \in Seq(Byte) /\ Len(o) = m /\ \A i \in 1..m : o[i] = z.temp[n + 2 + i]
          BY <4>1, <4>2
        <4>4. \A i \in 1..m : A[n + 2 + i] = Query(request)[i]
          BY BytesAre DEF m
        <4>5. \A i \in 1..m : o[i] = Query(request)[i]
          <5> TAKE i \in 1..m
          <5>1. n + 2 + i \in 1..(F - 1)
            BY <3>1, <4>1
          <5> QED BY <3>2, <4>3, <4>4, <5>1
        <4>6. o = Query(request)
          <5>1. Query(request) \in Seq(Byte) /\ Len(Query(request)) = m
            BY RequestIs DEF m
          <5> QED BY <4>3, <4>5, <5>1, SeqEqual
        <4>7. SubSeq(z.temp, e + 1, Len(z.temp)) = o
          BY <3>2, <3>5 DEF o
        <4>8. w.params = AddGetParams(z, o).params
          BY <2>3, <4>7 DEF e
        <4>9. AddGetParams(z, o) = [z EXCEPT !.params = @ \o ParamsOf(o, FALSE)]
          BY <4>3, AddDoes
        <4>10. w.params = <<>> \o ParamsOf(o, FALSE)
          BY <2>2, <4>8, <4>9, FieldsAre
        <4>11. ParamsOf(o, FALSE) = InQuery /\ InQuery \in Seq(AllParams)
          BY <4>6, QueryFound
        <4> QED BY <4>10, <4>11, ConcatEmptySeq
      <3> QED BY <3>10, <3>11, <3>12
    <2>5. /\ Unread(w) /\ NoKind(w) /\ w.contentLength = 0
          /\ DOMAIN w = Members
      BY <1>2, <2>1, <2>3, FieldsAre DEF Same, Unread, NoKind
    <2>6. SubSeq(A, FirstLine + 1, FirstLine) = <<>>
      BY <1>1, SubSeqEmpty DEF F
    <2>7. AtHeaders(w, FirstLine)
      <3>1. FirstLine \in FirstLine..(HeadEnd - 1) /\ FirstLine < FirstLine + 3
            /\ FirstLine < FirstLine + 6
        BY <1>1 DEF F
      <3> QED BY <2>3, <2>4, <2>5, <2>6, <3>1 DEF AtHeaders, A
    <2>8. t = <<w, SubSeq(A, F + 1, r)>>
      BY <1>3, <1>7 DEF z, w
    <2>9. FirstLine \in p..r /\ FirstLine > p /\ FirstLine \in Stops
      BY <1>1, <1>2, <1>7 DEF F, Stops
    <2>10. t[1] = w /\ t[2] = SubSeq(A, FirstLine + 1, r)
      BY <2>8 DEF F
    <2>11. Understood(w, FirstLine)
      BY <2>5, <2>7 DEF Understood, Members
    <2> QED BY <2>9, <2>10, <2>11 DEF Turned, t
  <1> QED BY <1>6, <1>7

(* A line, from its beginning at s, of which the parser has read up to p.  *)
LineRead(t, x, s, r, e) ==
  /\ r < e => \E y : /\ Same(x, y, {"temp"}) /\ y.temp = SubSeq(A, s + 1, r)
                     /\ t = <<y, <<>>>>
  /\ ~(r < e) => \E y : /\ Same(x, y, {"temp"}) /\ y.temp = SubSeq(A, s + 1, e - 1)
                        /\ t = <<ParseLine(y), SubSeq(A, e + 1, r)>>

(* The line that is parsed is the whole of it, whatever packets it came    *)
(* in.                                                                     *)
LEMMA LineIsRead ==
  ASSUME request \in Requests, NEW x, DOMAIN x = Members,
         x.parse \in {"START", "HEADERS"},
         NEW s \in Nat, NEW p \in Nat, NEW r \in Nat, s <= p, p < r, r <= Len(A),
         NEW e \in Nat, p < e, e <= Len(A), A[e] = "LF",
         \A k \in (p + 1)..(e - 1) : A[k] # "LF",
         x.temp = SubSeq(A, s + 1, p)
  PROVE  LineRead(Turn(<<x, SubSeq(A, p + 1, r)>>), x, s, r, e)
  <1> DEFINE t == Turn(<<x, SubSeq(A, p + 1, r)>>)
             y(b) == [x EXCEPT !.temp = @ \o b]
  <1>1. A \in Seq(Byte)
    BY BytesAre
  <1>2. LineTurn(x, p, r, e)
    BY HeadTurn
  <1>3. /\ r < e => t = <<y(SubSeq(A, p + 1, r)), <<>>>>
        /\ ~(r < e) =>
             t = <<ParseLine(y(SubSeq(A, p + 1, e - 1))), SubSeq(A, e + 1, r)>>
    BY <1>2 DEF LineTurn
  <1>4. \A b : Same(x, y(b), {"temp"}) /\ y(b).temp = x.temp \o b
    BY FieldsAre DEF Same
  <1>5. \A k \in p..Len(A) : x.temp \o SubSeq(A, p + 1, k) = SubSeq(A, s + 1, k)
    <2> TAKE k \in p..Len(A)
    <2>1. k \in Nat /\ p <= k /\ k <= Len(A)
      BY <1>1
    <2> QED BY <1>1, <2>1, Joined
  <1> HIDE DEF y, t
  <1>6. ASSUME r < e
        PROVE  \E z : /\ Same(x, z, {"temp"}) /\ z.temp = SubSeq(A, s + 1, r)
                      /\ t = <<z, <<>>>>
    <2>1. r \in p..Len(A)
      OBVIOUS
    <2> QED BY <1>3, <1>4, <1>5, <1>6, <2>1
  <1>7. ASSUME ~(r < e)
        PROVE  \E z : /\ Same(x, z, {"temp"}) /\ z.temp = SubSeq(A, s + 1, e - 1)
                      /\ t = <<ParseLine(z), SubSeq(A, e + 1, r)>>
    <2>1. e - 1 \in p..Len(A)
      OBVIOUS
    <2> QED BY <1>3, <1>4, <1>5, <1>7, <2>1
  <1> QED BY <1>6, <1>7 DEF LineRead, t

(* A request without a body, and a body of parts, which is not empty.      *)
LEMMA BodyIs ==
  ASSUME request \in Requests
  PROVE  /\ request.kind = "get" => B = <<>>
         /\ request.kind \in {"get", "raw"} => B = request.body
         /\ request.kind = "multipart" => /\ B = PartsFrom(request.parts)[1]
                                          /\ Len(B) > 0 /\ Len(request.parts) > 0
         /\ request.kind # "multipart" => request.parts = <<>>
         /\ Len(request.parts) \in Nat /\ Files(0) = <<>>
         /\ Read \in 0..Len(request.parts)
         /\ \A k \in 1..Len(request.parts) :
              k <= Read + 1 => (k = request.refused <=> Read = k - 1)
  <1>1. /\ request.kind = "get" => request.body = <<>>
        /\ request.parts # <<>> <=> request.kind = "multipart"
        /\ request.parts \in Seq([name : Byte \ {"CR", "LF", "type"}, file : BOOLEAN,
                                  value : Seq(Byte)])
        /\ Boundary \in Seq(Byte)
    <2>1. Boundary \in Seq(Byte \ {"CR"})
      BY RequestAssumption
    <2>2. Boundary \in Seq(Byte)
      BY <2>1, SeqMonotonic
    <2> QED BY <2>2, RequestIs DEF WellFormed
  <1>2. Len(request.parts) \in Nat
    BY <1>1, LenProperties
  <1>3. Files(0) = <<>>
    BY <1>2, FilesLoop DEF Files
  <1>4. ASSUME request.kind = "multipart"
        PROVE  /\ B = PartsFrom(request.parts)[1]
               /\ Len(B) > 0 /\ Len(request.parts) > 0
    <2>1. B = PartsFrom(request.parts)[1]
      BY <1>4 DEF B, Body
    <2>2. Len(request.parts) > 0
      BY <1>1, <1>2, <1>4, EmptySeq
    <2>3. B = PartBytes(request.parts[1]) \o PartsFrom(request.parts)[2]
      <3>1. 1 \in 1..Len(request.parts) /\ 1 + 1 = 2
        BY <1>2, <2>2
      <3> QED BY <1>2, <2>1, <3>1, PartsLoop
    <2>4. B # <<>>
      BY <2>3 DEF PartBytes
    <2>5. B \in Seq(Byte)
      BY RequestIs
    <2> QED BY <2>1, <2>2, <2>4, <2>5, EmptySeq
  <1>5. /\ request.kind = "get" => B = <<>>
        /\ request.kind \in {"get", "raw"} => B = request.body
    BY <1>1 DEF B, Body
  <1>6. request.refused = 0 \/ request.refused \in 1..Len(request.parts)
    <2>1. request.refused = 0 \/ request.refused \in DOMAIN request.parts
      BY RequestIs DEF WellFormed
    <2> QED BY <1>1, <2>1, LenProperties
  <1>7. /\ Read \in 0..Len(request.parts)
        /\ \A k \in 1..Len(request.parts) :
             k <= Read + 1 => (k = request.refused <=> Read = k - 1)
    BY <1>2, <1>6 DEF Read
  <1> QED BY <1>1, <1>2, <1>3, <1>4, <1>5, <1>7

(* The empty line at the end of the head.                                  *)
LEMMA HeadIsDone ==
  ASSUME request \in Requests, NEW x, DOMAIN x = Members,
         x.parse = "HEADERS", x.temp = <<>>, Unread(x), IsKind(x),
         x.method = Method, x.url = request.url,
         x.contentLength = Len(B), x.params = InQuery
  PROVE  Understood(ParseLine(x), HeadEnd)
  <1>1. /\ HeadEnd \in Nat /\ Len(B) \in Nat /\ Len(A) = HeadEnd + Len(B)
        /\ B \in Seq(Byte)
    BY HeadSizes, WholeHead, RequestIs
  <1> DEFINE a == AttachHandler(x)
  <1>2. Same(x, a, {"handler"}) /\ Routed(a)
    BY AttachDoes
  <1> HIDE DEF a
  <1>3. CASE Len(B) > 0
    <2> DEFINE z == [a EXCEPT !.parse = "BODY"]
    <2>1. ParseLine(x) = z
      BY <1>1, <1>3 DEF ParseLine, a
    <2>2. Same(x, z, {"handler", "parse"}) /\ z.parse = "BODY" /\ z.handler = a.handler
      BY <1>2, FieldsAre DEF Same
    <2> HIDE DEF z
    <2>3. Routed(z)
      BY <1>2, <2>2 DEF Routed
    <2>4. Unread(z) /\ IsKind(z) /\ z.contentLength = Len(B) /\ z.temp = <<>>
          /\ z.params = InQuery
      BY <2>2, FieldsAre DEF Same, Unread, IsKind
    <2>5. InBody(z, 0)
      <3>1. Given(z, 0)
        <4>1. Known(z, 0)
          BY <2>4, BeforeBody DEF Known
        <4> QED BY <2>4, <4>1, BodyIs DEF Given, Unread
      <3>2. 0 < Len(Boundary) + 4
        <4>1. Boundary \in Seq(Byte \ {"CR"})
          BY RequestAssumption
        <4> QED BY <4>1, LenProperties
      <3>3. InMultipart(z, 0) /\ z.raw = <<>>
        BY <2>4, <3>1, <3>2 DEF InMultipart, Unread
      <3> DEFINE k == request.kind
      <3>4. SubSeq(Body(request), 1, 0) = <<>>
        BY SubSeqEmpty
      <3>5. ASSUME k = "form" PROVE InForm(z, 0)
        <4>1. SubSeq(Form, 0 + 1, Len(Form)) = Form /\ <<>> \o Form = Form
          BY <3>5, FormIs, SubSeqFull, ConcatEmptySeq
        <4>2. z.temp \in Seq(Byte \ {"&"})
          BY <2>4, EmptySeq
        <4>3. z.params \in Seq(Range(z.params))
          BY <2>4, BeforeBody
        <4>4. z.params \o ParamsOf(z.temp \o SubSeq(Form, 0 + 1, Len(Form)), TRUE)
                = InQuery \o ParamsOf(Form, TRUE)
          BY <2>4, <4>1
        <4> QED BY <3>5, <4>2, <4>3, <4>4, BeforeBody DEF InForm, Form
      <3>6. InRaw(z, 0) /\ Told(z, 0) /\ ~z.plainPost
        <4>1. z.plainPost = FALSE
          BY <2>4 DEF Unread
        <4>2. Told(z, 0)
          <5>1. ~(0 > 0)
            OBVIOUS
          <5> QED BY <4>1, <5>1, Zenon DEF Told
        <4>3. InRaw(z, 0)
          BY <2>4, <3>4 DEF InRaw, Unread
        <4> QED BY <4>1, <4>2, <4>3
      <3>7. z.raw = <<>> /\ z.upload = <<>> /\ z.buffer = <<>> /\ ~z.torn
        BY <2>4 DEF Unread
      <3>8. IF k = "multipart" THEN InMultipart(z, 0) /\ z.raw = <<>>
            ELSE /\ z.upload = <<>> /\ z.buffer = <<>> /\ ~z.torn
                 /\ IF k = "form" \/ z.plainPost
                    THEN InForm(z, 0) /\ z.raw = <<>> ELSE InRaw(z, 0)
        BY <3>3, <3>5, <3>6, <3>7
      <3> QED BY <2>4, <3>6, <3>8 DEF InBody, Unread, B
    <2>6. HeadEnd \in HeadEnd..(HeadEnd + Len(Body(request)) - 1) /\ HeadEnd - HeadEnd = 0
      BY <1>1, <1>3 DEF B
    <2>7. AtBody(z, HeadEnd)
      BY <2>2, <2>3, <2>5, <2>6 DEF AtBody
    <2> QED BY <2>1, <2>2, <2>7 DEF Understood, Same, Members
  <1>4. CASE ~(Len(B) > 0)
    <2> DEFINE z == HandleRequest(a)
    <2>1. ParseLine(x) = z
      BY <1>1, <1>4 DEF ParseLine, a
    <2>2. /\ Same(x, z, {"handler", "parse", "handled"})
          /\ z.parse = "END" /\ z.handler = a.handler /\ z.handled = x.handled + 1
      BY <1>2, HandleDoes, FieldsAre DEF Same
    <2> HIDE DEF z
    <2>3. Routed(z)
      BY <1>2, <2>2 DEF Routed
    <2>4. /\ z.handled = 1 /\ ~z.torn /\ z.buffer = <<>> /\ z.upload = <<>> /\ z.raw = <<>>
          /\ z.params = InQuery
      BY <2>2, FieldsAre DEF Same, Unread
    <2>5. B = <<>> /\ Len(B) = 0
      BY <1>1, <1>4, EmptySeq
    <2>6. z.upload = Files(Read)
      <3>1. request.parts = <<>> /\ Files(0) = <<>> /\ Read \in 0..Len(request.parts)
        BY <2>5, BodyIs
      <3>2. Read = 0
        BY <3>1
      <3> QED BY <2>4, <3>1, <3>2
    <2>7. z.raw = (IF Raw(z) THEN B ELSE <<>>)
      BY <2>4, <2>5
    <2>8. z.params = IF Raw(z) THEN InQuery ELSE Expected
      <3>1. request.kind # "multipart"
        BY <2>5, BodyIs
      <3> QED BY <2>4, <2>5, <3>1, BeforeBody
    <2>9. AtEnd(z, HeadEnd)
      BY <1>1, <2>2, <2>3, <2>4, <2>5, <2>6, <2>7, <2>8 DEF AtEnd, A, B
    <2> QED BY <2>1, <2>2, <2>9 DEF Understood, Same, Members
  <1> QED BY <1>3, <1>4

(* How a turn that stopped at byte n is seen to have understood it.        *)
LEMMA TurnedTo ==
  ASSUME NEW t, NEW p, NEW r, NEW z, NEW n \in p..r, Understood(z, n),
         t = <<z, SubSeq(A, n + 1, r)>>, n = r \/ (n > p /\ n \in Stops)
  PROVE  Turned(t, p, r)
  <1>1. t[1] = z /\ t[2] = SubSeq(A, n + 1, r)
    OBVIOUS
  <1> QED BY <1>1 DEF Turned

(* The last line of the head.                                              *)
LEMMA LastLineTurn ==
  ASSUME request \in Requests, NEW x, DOMAIN x = Members,
         NEW p \in Nat, NEW r \in Nat, p < r, r <= Len(A), AtHeaders(x, p),
         HeadEnd = p + 1
  PROVE  Turned(Turn(<<x, SubSeq(A, p + 1, r)>>), p, r)
  <1> DEFINE t == Turn(<<x, SubSeq(A, p + 1, r)>>)
  <1>1. /\ FirstLine \in Nat
        /\ HeadEnd = FirstLine + IF request.kind = "get" THEN 1 ELSE 7
        /\ A \in Seq(Byte) /\ Len(A) \in Nat /\ HeadEnd <= Len(A)
        /\ A[p + 1] = "LF"
    <2>1. /\ FirstLine \in Nat
          /\ HeadEnd = FirstLine + IF request.kind = "get" THEN 1 ELSE 7
          /\ A \in Seq(Byte) /\ Len(A) \in Nat /\ HeadEnd <= Len(A)
      BY HeadSizes, WholeHead
    <2>2. A[HeadEnd] = "LF"
      BY <2>1, BytesAre
    <2> QED BY <2>1, <2>2
  <1>2. /\ x.parse = "HEADERS" /\ x.temp = <<>>
        /\ x.method = Method /\ x.url = request.url /\ Unread(x)
        /\ IsKind(x) /\ x.contentLength = Len(B) /\ x.params = InQuery
    <2>1. /\ x.parse = "HEADERS" /\ x.params = InQuery
          /\ x.method = Method /\ x.url = request.url /\ Unread(x)
          /\ IF request.kind = "get"
             THEN x.temp = <<>> /\ NoKind(x) /\ x.contentLength = 0
             ELSE /\ x.contentLength = IF p < FirstLine + 3 THEN 0 ELSE Len(B)
                  /\ IF p < FirstLine + 6 THEN NoKind(x) ELSE IsKind(x)
                  /\ x.temp = IF p < FirstLine + 3 THEN SubSeq(A, FirstLine + 1, p)
                              ELSE IF p < FirstLine + 6
                                   THEN SubSeq(A, FirstLine + 4, p) ELSE <<>>
      BY DEF AtHeaders, A, B
    <2>2. CASE request.kind = "get"
      <3>1. Len(B) = 0
        BY <2>2, BodyIs
      <3>2. IsKind(x)
        BY <2>1, <2>2 DEF IsKind, NoKind
      <3> QED BY <2>1, <2>2, <3>1, <3>2
    <2>3. CASE request.kind # "get"
      <3>1. ~(p < FirstLine + 3) /\ ~(p < FirstLine + 6)
        BY <1>1, <2>3
      <3> QED BY <2>1, <2>3, <3>1
    <2> QED BY <2>2, <2>3
  <1>3. SubSeq(A, p + 1, p) = <<>>
    BY SubSeqEmpty
  <1>4. LineRead(t, x, p, r, p + 1)
    <2> DEFINE e == p + 1
    <2>1. /\ e \in Nat /\ p < e /\ e <= Len(A) /\ p <= p /\ A[e] = "LF"
          /\ \A k \in (p + 1)..(e - 1) : A[k] # "LF"
      BY <1>1
    <2>2. x.parse \in {"START", "HEADERS"} /\ x.temp = SubSeq(A, p + 1, p)
      BY <1>2, <1>3
    <2> HIDE DEF t, e
    <2>3. LineRead(Turn(<<x, SubSeq(A, p + 1, r)>>), x, p, r, e)
      BY <1>1, <2>1, <2>2, LineIsRead
    <2> QED BY <2>3 DEF t, e
  <1> HIDE DEF t
  <1>5. PICK z : /\ Same(x, z, {"temp"}) /\ z.temp = SubSeq(A, p + 1, p + 1 - 1)
                 /\ t = <<ParseLine(z), SubSeq(A, p + 1 + 1, r)>>
    <2>1. ~(r < p + 1)
      OBVIOUS
    <2> QED BY <1>4, <2>1 DEF LineRead
  <1>6. z.temp = <<>>
    <2>1. p + 1 - 1 = p
      OBVIOUS
    <2> QED BY <1>3, <1>5, <2>1
  <1>7. /\ DOMAIN z = Members /\ Unread(z) /\ IsKind(z) /\ z.parse = "HEADERS"
        /\ z.method = Method /\ z.url = request.url /\ z.contentLength = Len(B)
        /\ z.params = InQuery
    <2>1. \A f \in Members \ {"temp"} : z[f] = x[f]
      BY <1>5 DEF Same
    <2>2. /\ z.parse = x.parse /\ z.method = x.method /\ z.url = x.url
          /\ z.contentLength = x.contentLength /\ z.params = x.params
          /\ z.multipart = x.multipart /\ z.form = x.form /\ z.plain = x.plain
      BY <2>1, FieldsAre
    <2>3. /\ z.parsedLength = x.parsedLength /\ z.multi = x.multi
          /\ z.handled = x.handled /\ z.upload = x.upload /\ z.raw = x.raw
          /\ z.buffer = x.buffer /\ z.torn = x.torn
          /\ z.part = x.part /\ z.plainPost = x.plainPost
      BY <2>1, FieldsAre
    <2>4. DOMAIN z = Members
      BY <1>5 DEF Same
    <2>5. Unread(z)
      BY <1>2, <2>3 DEF Unread
    <2>6. IsKind(z)
      BY <1>2, <2>2 DEF IsKind
    <2> QED BY <1>2, <2>2, <2>4, <2>5, <2>6
  <1>8. Understood(ParseLine(z), HeadEnd)
    BY <1>6, <1>7, HeadIsDone
  <1>9. HeadEnd \in p..r /\ HeadEnd > p /\ HeadEnd \in Stops
    BY DEF Stops
  <1>10. t = <<ParseLine(z), SubSeq(A, HeadEnd + 1, r)>>
    BY <1>5
  <1>11. Turned(t, p, r)
    BY <1>8, <1>9, <1>10, TurnedTo
  <1> QED BY <1>11 DEF t

(* Its other lines, of three words each.                                   *)
LEMMA HeaderTurn ==
  ASSUME request \in Requests, request.kind # "get", NEW x, DOMAIN x = Members,
         NEW p \in Nat, NEW r \in Nat, p < r, r <= Len(A), AtHeaders(x, p),
         NEW s \in {FirstLine, FirstLine + 3}, p \in s..(s + 2)
  PROVE  Turned(Turn(<<x, SubSeq(A, p + 1, r)>>), p, r)
  <1> DEFINE t == Turn(<<x, SubSeq(A, p + 1, r)>>)
             e == s + 3
             first == s = FirstLine
  <1>1. /\ FirstLine \in Nat /\ HeadEnd = FirstLine + 7
        /\ A \in Seq(Byte) /\ Len(A) \in Nat /\ HeadEnd <= Len(A)
        /\ request.kind # "LF" /\ request.kind # "Length"
    <2>1. FirstLine \in Nat /\ HeadEnd = FirstLine + 7
      BY HeadSizes
    <2>2. A \in Seq(Byte) /\ Len(A) \in Nat /\ HeadEnd <= Len(A)
      BY WholeHead
    <2>3. request.kind # "LF" /\ request.kind # "Length"
      BY NoLineEnd
    <2> QED BY <2>1, <2>2, <2>3
  <1>2. /\ s \in Nat /\ e \in Nat /\ e = s + 3 /\ e <= Len(A) /\ p < e /\ s <= p
        /\ first => e = FirstLine + 3
        /\ ~first => s = FirstLine + 3 /\ e = FirstLine + 6
        /\ e < HeadEnd
    BY <1>1
  <1>3. /\ A[s + 1] # "LF" /\ A[e] = "LF" /\ A[s + 2] # "LF"
        /\ A[s + 2] = IF first THEN "Length" ELSE request.kind
    <2>1. /\ A[FirstLine + 1] = "Content" /\ A[FirstLine + 2] = "Length"
          /\ A[FirstLine + 3] = "LF"      /\ A[FirstLine + 4] = "Content"
          /\ A[FirstLine + 5] = request.kind /\ A[FirstLine + 6] = "LF"
      BY BytesAre
    <2>2. FirstLine + 3 + 1 = FirstLine + 4 /\ FirstLine + 3 + 2 = FirstLine + 5
          /\ FirstLine + 3 + 3 = FirstLine + 6
      BY <1>1
    <2>3. CASE first
      BY <2>1, <2>3
    <2>4. CASE ~first
      <3>1. /\ s + 1 = FirstLine + 4 /\ s + 2 = FirstLine + 5 /\ e = FirstLine + 6
        BY <1>1, <2>4
      <3> QED BY <1>1, <2>1, <2>4, <3>1
    <2> QED BY <2>3, <2>4
  <1>4. /\ x.parse = "HEADERS"
        /\ x.method = Method /\ x.url = request.url /\ Unread(x)
        /\ x.params = InQuery /\ x.contentLength = IF first THEN 0 ELSE Len(B)
        /\ NoKind(x) /\ x.temp = SubSeq(A, s + 1, p)
    <2>1. /\ x.parse = "HEADERS" /\ x.params = InQuery
          /\ x.method = Method /\ x.url = request.url /\ Unread(x)
          /\ x.contentLength = IF p < FirstLine + 3 THEN 0 ELSE Len(B)
          /\ IF p < FirstLine + 6 THEN NoKind(x) ELSE IsKind(x)
          /\ x.temp = IF p < FirstLine + 3 THEN SubSeq(A, FirstLine + 1, p)
                      ELSE IF p < FirstLine + 6
                           THEN SubSeq(A, FirstLine + 4, p) ELSE <<>>
      BY DEF AtHeaders, A, B
    <2>2. CASE first
      <3>1. p < FirstLine + 3 /\ p < FirstLine + 6
        BY <1>1, <2>2
      <3> QED BY <2>1, <2>2, <3>1
    <2>3. CASE ~first
      <3>1. ~(p < FirstLine + 3) /\ p < FirstLine + 6 /\ s + 1 = FirstLine + 4
        BY <1>1, <2>3
      <3> QED BY <2>1, <2>3, <3>1
    <2> QED BY <2>2, <2>3
  <1> HIDE DEF e, first
  <1>5. LineRead(t, x, s, r, e)
    <2>1. \A k \in (p + 1)..(e - 1) : A[k] # "LF"
      <3> TAKE k \in (p + 1)..(e - 1)
      <3>1. k = s + 1 \/ k = s + 2
        BY <1>2
      <3> QED BY <1>3, <3>1
    <2>2. x.parse \in {"START", "HEADERS"}
      BY <1>4
    <2> HIDE DEF t
    <2>3. LineRead(Turn(<<x, SubSeq(A, p + 1, r)>>), x, s, r, e)
      BY <1>1, <1>2, <1>3, <1>4, <2>1, <2>2, LineIsRead
    <2> QED BY <2>3 DEF t
  <1>6. \A z : Same(x, z, {"temp"}) =>
          /\ DOMAIN z = Members /\ Unread(z) /\ z.parse = "HEADERS"
          /\ z.method = Method /\ z.url = request.url
          /\ z.contentLength = x.contentLength /\ z.params = InQuery
          /\ NoKind(z)
    BY <1>4, FieldsAre DEF Same, Unread, NoKind
  <1> HIDE DEF t
  <1>7. CASE r < e
    <2>1. PICK z : /\ Same(x, z, {"temp"}) /\ z.temp = SubSeq(A, s + 1, r)
                   /\ t = <<z, <<>>>>
      BY <1>5, <1>7 DEF LineRead
    <2>2. /\ DOMAIN z = Members /\ Unread(z) /\ z.parse = "HEADERS"
          /\ z.method = Method /\ z.url = request.url /\ z.params = InQuery
          /\ z.contentLength = IF first THEN 0 ELSE Len(B)
          /\ NoKind(z)
      BY <1>4, <1>6, <2>1
    <2>3. /\ r \in FirstLine..(HeadEnd - 1) /\ r < FirstLine + 6
          /\ first <=> r < FirstLine + 3
          /\ first => s + 1 = FirstLine + 1
          /\ ~first => s + 1 = FirstLine + 4
      BY <1>1, <1>2, <1>7 DEF e, first
    <2>4. AtHeaders(z, r)
      <3>1. z.contentLength = IF r < FirstLine + 3 THEN 0 ELSE Len(Body(request))
        BY <2>2, <2>3 DEF B
      <3>2. z.temp = IF r < FirstLine + 3 THEN SubSeq(Bytes(request), FirstLine + 1, r)
                      ELSE IF r < FirstLine + 6
                           THEN SubSeq(Bytes(request), FirstLine + 4, r) ELSE <<>>
        BY <2>1, <2>3 DEF A
      <3> QED BY <2>2, <2>3, <3>1, <3>2 DEF AtHeaders
    <2>5. Understood(z, r)
      BY <2>2, <2>4 DEF Understood, Members
    <2>6. SubSeq(A, r + 1, r) = <<>> /\ r \in p..r
      BY SubSeqEmpty
    <2>7. t = <<z, SubSeq(A, r + 1, r)>>
      BY <2>1, <2>6
    <2> QED BY <2>5, <2>6, <2>7, TurnedTo DEF t
  <1>8. CASE ~(r < e)
    <2>1. PICK z : /\ Same(x, z, {"temp"}) /\ z.temp = SubSeq(A, s + 1, e - 1)
                   /\ t = <<ParseLine(z), SubSeq(A, e + 1, r)>>
      BY <1>5, <1>8 DEF LineRead
    <2>2. /\ DOMAIN z = Members /\ Unread(z) /\ z.parse = "HEADERS"
          /\ z.method = Method /\ z.url = request.url /\ z.params = InQuery
          /\ z.contentLength = IF first THEN 0 ELSE Len(B)
          /\ NoKind(z)
      BY <1>4, <1>6, <2>1
    <2>3. z.temp # <<>> /\ z.temp[2] = IF first THEN "Length" ELSE request.kind
      <3> DEFINE m == e - 1
                 c == SubSeq(A, s + 1, m)
      <3>1. m \in Nat /\ s <= m /\ m <= Len(A) /\ m - s = 2
        BY <1>2
      <3> HIDE DEF m
      <3>2. Len(c) = m - s /\ \A i \in 1..(m - s) : c[i] = A[s + i]
        BY <1>1, <1>2, <3>1, Slice
      <3>3. z.temp = c
        BY <2>1 DEF m
      <3> HIDE DEF c
      <3>4. Len(c) = 2 /\ c[2] = A[s + 2]
        BY <3>1, <3>2
      <3>5. z.temp # <<>>
        <4>1. Len(<<>>) # 2
          OBVIOUS
        <4> QED BY <3>3, <3>4, <4>1
      <3>6. z.temp[2] = A[s + 2]
        BY <3>3, <3>4
      <3> QED BY <1>3, <3>5, <3>6
    <2> DEFINE w == ParseLine(z)
    <2>4. /\ Same(z, w, {"temp", "contentLength", "multipart", "form", "plain"})
          /\ w.temp = <<>>
          /\ w.contentLength = IF z.temp[2] = "Length" THEN Len(B) ELSE z.contentLength
          /\ w.multipart = (z.multipart \/ z.temp[2] = "multipart")
          /\ w.form = (z.form \/ z.temp[2] = "form")
          /\ w.plain = (z.plain \/ z.temp[2] = "text")
      <3>1. w = ParseReqHeader(z)
        BY <2>2, <2>3 DEF ParseLine
      <3> QED BY <2>2, <3>1, HeaderDoes
    <2> HIDE DEF w
    <2>5. w.contentLength = Len(B)
      BY <1>1, <2>2, <2>3, <2>4
    <2>6. IF first THEN NoKind(w) ELSE IsKind(w)
      <3>1. CASE first
        BY <2>2, <2>3, <2>4, <3>1 DEF NoKind
      <3>2. CASE ~first
        BY <2>2, <2>3, <2>4, <3>2 DEF IsKind, NoKind
      <3> QED BY <3>1, <3>2
    <2>7. /\ w.parse = "HEADERS" /\ w.method = Method /\ w.url = request.url
          /\ Unread(w) /\ DOMAIN w = Members /\ w.params = InQuery
      BY <2>2, <2>4, FieldsAre DEF Same, Unread
    <2>8. AtHeaders(w, e)
      <3>1. /\ e \in FirstLine..(HeadEnd - 1) /\ ~(e < FirstLine + 3)
            /\ first <=> e < FirstLine + 6
            /\ first => FirstLine + 4 = e + 1
        BY <1>1, <1>2 DEF first
      <3>2. w.temp = IF e < FirstLine + 3 THEN SubSeq(Bytes(request), FirstLine + 1, e)
                      ELSE IF e < FirstLine + 6
                           THEN SubSeq(Bytes(request), FirstLine + 4, e) ELSE <<>>
        <4>1. SubSeq(A, e + 1, e) = <<>>
          BY <1>2, SubSeqEmpty
        <4> QED BY <2>4, <3>1, <4>1 DEF A
      <3> QED BY <2>5, <2>6, <2>7, <3>1, <3>2 DEF AtHeaders, B
    <2>9. Understood(w, e)
      BY <2>7, <2>8 DEF Understood, Members
    <2>10. e \in p..r /\ e > p /\ e \in Stops
      BY <1>1, <1>2, <1>8 DEF Stops
    <2>11. t = <<w, SubSeq(A, e + 1, r)>>
      BY <2>1 DEF w
    <2> QED BY <2>9, <2>10, <2>11, TurnedTo DEF t
  <1> QED BY <1>7, <1>8

(* A turn in the headers, as in the first line.                            *)
LEMMA HeadersTurn ==
  ASSUME request \in Requests, NEW x, DOMAIN x = Members,
         NEW p \in Nat, NEW r \in Nat, p < r, r <= Len(A), AtHeaders(x, p)
  PROVE  Turned(Turn(<<x, SubSeq(A, p + 1, r)>>), p, r)
  <1>1. /\ FirstLine \in Nat /\ p \in FirstLine..(HeadEnd - 1)
        /\ HeadEnd = FirstLine + IF request.kind = "get" THEN 1 ELSE 7
    BY NoLineEnd DEF AtHeaders
  <1>2. CASE HeadEnd = p + 1
    BY <1>2, LastLineTurn
  <1>3. CASE HeadEnd # p + 1
    <2>1. request.kind # "get" /\ p \in FirstLine..(FirstLine + 5)
      BY <1>1, <1>3
    <2>2. PICK s \in {FirstLine, FirstLine + 3} : p \in s..(s + 2)
      BY <1>1, <2>1
    <2> QED BY <2>1, <2>2, HeaderTurn
  <1> QED BY <1>2, <1>3

----------------------------------------------------------------------------
(* The bytes of the parts                                                  *)

L == Len(Boundary)
D == Len(Delimiter)
Opening == <<"-", "-">> \o Boundary \o <<"CR", "LF">>
Closing == <<"-", "-">> \o Boundary \o <<"-", "-", "CR", "LF">>

HeadOf(p) ==
  IF p.file
  THEN <<p.name, "filename", "CR", "LF", "type", "CR", "LF", "CR", "LF">>
  ELSE <<p.name, "CR", "LF", "CR", "LF">>

Part == [name : Byte \ {"CR", "LF", "type"}, file : BOOLEAN, value : Seq(Byte)]

(* The delimiter, and that its CR is its only one: no other place of it    *)
(* begins another.                                                         *)
LEMMA DelimiterIs ==
  /\ Boundary \in Seq(Byte) /\ L \in Nat /\ L > 0
  /\ Delimiter \in Seq(Byte) /\ D = L + 4
  /\ Delimiter[1] = "CR" /\ Delimiter[2] = "LF"
  /\ Delimiter[3] = "-" /\ Delimiter[4] = "-"
  /\ \A i \in 1..L : Delimiter[4 + i] = Boundary[i]
  /\ \A i \in 2..D : Delimiter[i] # "CR"
  <1>1. Boundary \in Seq(Byte \ {"CR"}) /\ Boundary # <<>>
    BY RequestAssumption
  <1>2. Boundary \in Seq(Byte) /\ L \in Nat /\ L > 0
    <2>1. Boundary \in Seq(Byte)
      BY <1>1, SeqMonotonic
    <2> QED BY <1>1, <2>1, LenProperties, EmptySeq DEF L
  <1>3. \A i \in 1..L : Boundary[i] # "CR"
    BY <1>1, ElementOfSeq DEF L
  <1> DEFINE c == <<"CR", "LF", "-", "-">>
  <1>4. c \in Seq(Byte) /\ Len(c) = 4
    <2>1. \A S : \A a, b, d \in S : <<a, b, d, d>> \in Seq(S)
      OBVIOUS
    <2> QED BY <2>1, Words
  <1>5. Delimiter = c \o Boundary
    BY DEF Delimiter
  <1>6. c[1] = "CR" /\ c[2] = "LF" /\ c[3] = "-" /\ c[4] = "-"
    OBVIOUS
  <1> HIDE DEF c
  <1>7. /\ Delimiter \in Seq(Byte) /\ D = 4 + L
        /\ \A i \in 1..4 : Delimiter[i] = c[i]
        /\ \A i \in 1..L : Delimiter[4 + i] = Boundary[i]
    <2>1. Joins(Delimiter, c, Boundary, 4, L)
      BY <1>2, <1>4, <1>5, Chains DEF L
    <2> QED BY <2>1 DEF Joins, D
  <1>8. ASSUME NEW i \in 2..D PROVE Delimiter[i] # "CR"
    <2>1. CASE i \in 2..4
      BY <1>6, <1>7, <2>1
    <2>2. CASE i \notin 2..4
      <3>1. i - 4 \in 1..L /\ 4 + (i - 4) = i
        BY <1>2, <1>7, <2>2
      <3> QED BY <1>3, <1>7, <3>1
    <2> QED BY <2>1, <2>2
  <1> QED BY <1>2, <1>6, <1>7, <1>8

(* The dashes and the boundary are the delimiter without its line end.     *)
LEMMA DashesAre ==
  /\ <<"-", "-">> \o Boundary \in Seq(Byte) /\ Len(<<"-", "-">> \o Boundary) = L + 2
  /\ \A i \in 1..(L + 2) : (<<"-", "-">> \o Boundary)[i] = Delimiter[i + 2]
  <1> DEFINE c == <<"-", "-">>
             s == c \o Boundary
  <1>1. c \in Seq(Byte) /\ Len(c) = 2 /\ c[1] = "-" /\ c[2] = "-"
    <2>1. \A S : \A a \in S : <<a, a>> \in Seq(S)
      OBVIOUS
    <2> QED BY <2>1, Words
  <1> HIDE DEF c
  <1>2. /\ s \in Seq(Byte) /\ Len(s) = 2 + L
        /\ \A i \in 1..2 : s[i] = c[i]
        /\ \A i \in 1..L : s[2 + i] = Boundary[i]
    <2>1. Joins(s, c, Boundary, 2, L)
      BY <1>1, DelimiterIs, Chains DEF L
    <2> QED BY <2>1 DEF Joins
  <1> HIDE DEF s
  <1>3. ASSUME NEW i \in 1..(L + 2) PROVE s[i] = Delimiter[i + 2]
    <2>1. CASE i \in 1..2
      BY <1>1, <1>2, <2>1, DelimiterIs
    <2>2. CASE i \notin 1..2
      <3>1. i - 2 \in 1..L /\ 2 + (i - 2) = i /\ 4 + (i - 2) = i + 2
        BY <2>2, DelimiterIs
      <3> QED BY <1>2, <3>1, DelimiterIs
    <2> QED BY <2>1, <2>2
  <1>4. Len(s) = L + 2
    BY <1>2, DelimiterIs
  <1> QED BY <1>2, <1>3, <1>4 DEF s, c

(* The line that opens the body and ends the boundary of every part but    *)
(* the last.                                                               *)
LEMMA OpeningIs ==
  /\ Opening \in Seq(Byte) /\ Len(Opening) = L + 4
  /\ \A i \in 1..(L + 2) : Opening[i] = Delimiter[i + 2]
  /\ Opening[L + 3] = "CR" /\ Opening[L + 4] = "LF"
  <1> DEFINE s == <<"-", "-">> \o Boundary
             c == <<"CR", "LF">>
  <1>1. c \in Seq(Byte) /\ Len(c) = 2 /\ c[1] = "CR" /\ c[2] = "LF"
    <2>1. \A S : \A a, b \in S : <<a, b>> \in Seq(S)
      OBVIOUS
    <2> QED BY <2>1, Words
  <1>2. /\ s \in Seq(Byte) /\ Len(s) = L + 2
        /\ \A i \in 1..(L + 2) : s[i] = Delimiter[i + 2]
    BY DashesAre
  <1>3. Opening = s \o c
    BY DEF Opening
  <1> HIDE DEF s, c
  <1>4. /\ Opening \in Seq(Byte) /\ Len(Opening) = L + 2 + 2
        /\ \A i \in 1..(L + 2) : Opening[i] = s[i]
        /\ \A i \in 1..2 : Opening[L + 2 + i] = c[i]
    <2>1. Joins(Opening, s, c, L + 2, 2)
      BY <1>1, <1>2, <1>3, Chains
    <2> QED BY <2>1 DEF Joins
  <1>5. L + 2 + 2 = L + 4 /\ L + 2 + 1 = L + 3 /\ 1 \in 1..2 /\ 2 \in 1..2
    BY DelimiterIs
  <1>6. Opening[L + 3] = "CR" /\ Opening[L + 4] = "LF"
    <2>1. Opening[L + 2 + 1] = c[1] /\ Opening[L + 2 + 2] = c[2]
      BY <1>4
    <2> QED BY <1>1, <1>5, <2>1
  <1> QED BY <1>2, <1>4, <1>5, <1>6

(* The line that closes the body.                                          *)
LEMMA ClosingIs ==
  /\ Closing \in Seq(Byte) /\ Len(Closing) = L + 6
  /\ \A i \in 1..(L + 2) : Closing[i] = Delimiter[i + 2]
  /\ Closing[L + 3] = "-"
  <1> DEFINE s == <<"-", "-">> \o Boundary
             c == <<"-", "-", "CR", "LF">>
  <1>1. c \in Seq(Byte) /\ Len(c) = 4 /\ c[1] = "-"
    <2>1. \A S : \A a, b, d \in S : <<a, a, b, d>> \in Seq(S)
      OBVIOUS
    <2> QED BY <2>1, Words
  <1>2. /\ s \in Seq(Byte) /\ Len(s) = L + 2
        /\ \A i \in 1..(L + 2) : s[i] = Delimiter[i + 2]
    BY DashesAre
  <1>3. Closing = s \o c
    BY DEF Closing
  <1> HIDE DEF s, c
  <1>4. /\ Closing \in Seq(Byte) /\ Len(Closing) = L + 2 + 4
        /\ \A i \in 1..(L + 2) : Closing[i] = s[i]
        /\ \A i \in 1..4 : Closing[L + 2 + i] = c[i]
    <2>1. Joins(Closing, s, c, L + 2, 4)
      BY <1>1, <1>2, <1>3, Chains
    <2> QED BY <2>1 DEF Joins
  <1>5. L + 2 + 4 = L + 6 /\ L + 2 + 1 = L + 3
    BY DelimiterIs
  <1>6. Closing[L + 3] = "-"
    <2>1. Closing[L + 2 + 1] = c[1]
      BY <1>4
    <2> QED BY <1>1, <1>5, <2>1
  <1> QED BY <1>2, <1>4, <1>5, <1>6

(* The head of a part, and the value that follows it.                      *)
LEMMA PartBytesAre ==
  ASSUME NEW p \in Part
  PROVE  /\ PartBytes(p) \in Seq(Byte)
         /\ Len(HeadOf(p)) = IF p.file THEN 9 ELSE 5
         /\ Len(p.value) \in Nat
         /\ Len(PartBytes(p)) = L + 4 + Len(HeadOf(p)) + Len(p.value) + 2
         /\ \A i \in 1..(L + 4) : PartBytes(p)[i] = Opening[i]
         /\ \A i \in 1..Len(HeadOf(p)) : PartBytes(p)[L + 4 + i] = HeadOf(p)[i]
         /\ \A i \in 1..Len(p.value) :
              PartBytes(p)[L + 4 + Len(HeadOf(p)) + i] = p.value[i]
         /\ PartBytes(p)[L + 4 + Len(HeadOf(p)) + Len(p.value) + 1] = "CR"
         /\ PartBytes(p)[L + 4 + Len(HeadOf(p)) + Len(p.value) + 2] = "LF"
  <1> DEFINE g == IF p.file THEN <<p.name, "filename", "CR", "LF", "type", "CR", "LF">>
                  ELSE <<p.name, "CR", "LF">>
             c == <<"CR", "LF">>
             h == HeadOf(p)
             v == p.value
             s1 == Opening \o g
             s2 == s1 \o c
             s3 == s2 \o v
             s4 == s3 \o c
  <1>1. PartBytes(p) = s4
    BY DEF PartBytes, Opening
  <1>2. p.name \in Byte /\ v \in Seq(Byte) /\ Len(v) \in Nat /\ p.file \in BOOLEAN
    BY LenProperties DEF Part
  <1>3. c \in Seq(Byte) /\ Len(c) = 2 /\ c[1] = "CR" /\ c[2] = "LF"
    <2>1. \A S : \A a, b \in S : <<a, b>> \in Seq(S)
      OBVIOUS
    <2> QED BY <2>1, Words
  <1>4. /\ g \in Seq(Byte) /\ Len(h) = (IF p.file THEN 9 ELSE 5) /\ Len(g) = Len(h) - 2
        /\ \A i \in 1..Len(g) : h[i] = g[i]
        /\ h[Len(g) + 1] = "CR" /\ h[Len(g) + 2] = "LF"
    <2>1. CASE p.file
      <3>1. g = <<p.name, "filename", "CR", "LF", "type", "CR", "LF">>
            /\ h = <<p.name, "filename", "CR", "LF", "type", "CR", "LF", "CR", "LF">>
        BY <2>1 DEF HeadOf
      <3> HIDE DEF g, h
      <3>2. g \in Seq(Byte)
        <4>1. \A S : \A a, b, d, e, f \in S : <<a, b, d, e, f, d, e>> \in Seq(S)
          OBVIOUS
        <4> QED BY <1>2, <3>1, <4>1, Words
      <3>3. Len(g) = 7 /\ Len(h) = 9 /\ h[8] = "CR" /\ h[9] = "LF"
        BY <3>1
      <3>4. \A i \in 1..7 : h[i] = g[i]
        BY <3>1
      <3>5. 7 = 9 - 2 /\ 7 + 1 = 8 /\ 7 + 2 = 9
        OBVIOUS
      <3> QED BY <2>1, <3>2, <3>3, <3>4, <3>5
    <2>2. CASE ~p.file
      <3>1. g = <<p.name, "CR", "LF">> /\ h = <<p.name, "CR", "LF", "CR", "LF">>
        BY <2>2 DEF HeadOf
      <3> HIDE DEF g, h
      <3>2. g \in Seq(Byte)
        <4>1. \A S : \A a, b, d \in S : <<a, b, d>> \in Seq(S)
          OBVIOUS
        <4> QED BY <1>2, <3>1, <4>1, Words
      <3>3. Len(g) = 3 /\ Len(h) = 5 /\ h[4] = "CR" /\ h[5] = "LF"
        BY <3>1
      <3>4. \A i \in 1..3 : h[i] = g[i]
        BY <3>1
      <3>5. 3 = 5 - 2 /\ 3 + 1 = 4 /\ 3 + 2 = 5
        OBVIOUS
      <3> QED BY <2>2, <3>2, <3>3, <3>4, <3>5
    <2> QED BY <2>1, <2>2
  <1> HIDE DEF g, c, h, v
  <1>5. /\ s1 \in Seq(Byte) /\ Len(s1) = L + 4 + Len(g)
        /\ \A i \in 1..(L + 4) : s1[i] = Opening[i]
        /\ \A i \in 1..Len(g) : s1[L + 4 + i] = g[i]
    <2>1. Joins(s1, Opening, g, L + 4, Len(g))
      BY <1>4, OpeningIs, Chains
    <2> QED BY <2>1 DEF Joins
  <1> HIDE DEF s1
  <1>6. Len(g) \in Nat /\ Len(h) \in Nat /\ L \in Nat
    BY <1>4, DelimiterIs, LenProperties
  <1> DEFINE n == L + 4 + Len(h)
  <1>7. /\ s2 \in Seq(Byte) /\ Len(s2) = n
        /\ \A i \in 1..(L + 4) : s2[i] = Opening[i]
        /\ \A i \in 1..Len(h) : s2[L + 4 + i] = h[i]
    <2>1. /\ s2 \in Seq(Byte) /\ Len(s2) = L + 4 + Len(g) + 2
          /\ \A i \in 1..(L + 4 + Len(g)) : s2[i] = s1[i]
          /\ \A i \in 1..2 : s2[L + 4 + Len(g) + i] = c[i]
      <3>1. Joins(s2, s1, c, L + 4 + Len(g), 2)
        BY <1>3, <1>5, Chains
      <3> QED BY <3>1 DEF Joins
    <2> HIDE DEF s2
    <2>2. \A i \in 1..(L + 4) : s2[i] = Opening[i]
      BY <1>5, <1>6, <2>1
    <2>3. ASSUME NEW i \in 1..Len(h) PROVE s2[L + 4 + i] = h[i]
      <3>1. CASE i <= Len(g)
        <4>1. i \in 1..Len(g) /\ L + 4 + i \in 1..(L + 4 + Len(g))
          BY <1>6, <3>1
        <4> QED BY <1>4, <1>5, <2>1, <4>1
      <3>2. CASE i = Len(g) + 1
        <4>1. L + 4 + i = L + 4 + Len(g) + 1 /\ 1 \in 1..2
          BY <1>6, <3>2
        <4> QED BY <1>3, <1>4, <2>1, <3>2, <4>1
      <3>3. CASE i = Len(g) + 2
        <4>1. L + 4 + i = L + 4 + Len(g) + 2 /\ 2 \in 1..2
          BY <1>6, <3>3
        <4> QED BY <1>3, <1>4, <2>1, <3>3, <4>1
      <3>4. i <= Len(g) \/ i = Len(g) + 1 \/ i = Len(g) + 2
        BY <1>4, <1>6
      <3> QED BY <3>1, <3>2, <3>3, <3>4
    <2>4. L + 4 + Len(g) + 2 = n
      BY <1>4, <1>6
    <2> QED BY <2>1, <2>2, <2>3, <2>4
  <1>8. n \in Nat /\ L + 4 <= n /\ \A i \in 1..Len(h) : L + 4 + i \in 1..n
    BY <1>6
  <1> HIDE DEF s2, n
  <1>9. /\ s3 \in Seq(Byte) /\ Len(s3) = n + Len(v)
        /\ \A i \in 1..n : s3[i] = s2[i]
        /\ \A i \in 1..Len(v) : s3[n + i] = v[i]
    <2>1. Joins(s3, s2, v, n, Len(v))
      BY <1>2, <1>7, Chains
    <2> QED BY <2>1 DEF Joins
  <1> HIDE DEF s3
  <1>10. /\ s4 \in Seq(Byte) /\ Len(s4) = n + Len(v) + 2
         /\ \A i \in 1..(n + Len(v)) : s4[i] = s3[i]
         /\ \A i \in 1..2 : s4[n + Len(v) + i] = c[i]
    <2>1. Joins(s4, s3, c, n + Len(v), 2)
      BY <1>3, <1>9, Chains
    <2> QED BY <2>1 DEF Joins
  <1> HIDE DEF s4
  <1>11. \A i \in 1..n : s4[i] = s2[i]
    BY <1>2, <1>8, <1>9, <1>10
  <1>12. \A i \in 1..(L + 4) : s4[i] = Opening[i]
    BY <1>6, <1>7, <1>8, <1>11
  <1>13. \A i \in 1..Len(h) : s4[L + 4 + i] = h[i]
    BY <1>7, <1>8, <1>11
  <1>14. \A i \in 1..Len(v) : s4[n + i] = v[i]
    <2> TAKE i \in 1..Len(v)
    <2>1. n + i \in 1..(n + Len(v))
      BY <1>2, <1>8
    <2> QED BY <1>9, <1>10, <2>1
  <1>15. s4[n + Len(v) + 1] = "CR" /\ s4[n + Len(v) + 2] = "LF"
    BY <1>3, <1>10
  <1> QED BY <1>1, <1>2, <1>4, <1>10, <1>12, <1>13, <1>14, <1>15 DEF n, h, v

N == Len(request.parts)
From(k) == PartsFrom(request.parts)[k]

(* What the body is from each part on.                                     *)
LEMMA FromIs ==
  ASSUME request \in Requests
  PROVE  /\ N \in Nat /\ \A k \in 1..N : request.parts[k] \in Part
         /\ From(N + 1) = Closing
         /\ \A k \in 1..N : From(k) = PartBytes(request.parts[k]) \o From(k + 1)
         /\ \A k \in 1..(N + 1) : From(k) \in Seq(Byte)
  <1>1. request.parts \in Seq(Part)
    BY RequestIs DEF WellFormed, Part
  <1>2. N \in Nat /\ \A k \in 1..N : request.parts[k] \in Part
    BY <1>1, LenProperties, ElementOfSeq DEF N
  <1>3. /\ From(N + 1) = Closing
        /\ \A k \in 1..N : From(k) = PartBytes(request.parts[k]) \o From(k + 1)
    BY <1>2, PartsLoop DEF N, From, Closing
  <1> DEFINE T == {n \in Nat : n <= N => From(N + 1 - n) \in Seq(Byte)}
  <1>4. 0 \in T
    <2>1. N + 1 - 0 = N + 1
      BY <1>2
    <2> QED BY <1>3, <2>1, ClosingIs
  <1>5. ASSUME NEW n \in T PROVE n + 1 \in T
    <2> SUFFICES ASSUME n + 1 <= N PROVE From(N + 1 - (n + 1)) \in Seq(Byte)
      OBVIOUS
    <2> DEFINE k == N - n
    <2>1. k \in 1..N /\ N + 1 - (n + 1) = k /\ N + 1 - n = k + 1 /\ n <= N
      BY <1>2
    <2>2. From(k + 1) \in Seq(Byte)
      BY <2>1
    <2>3. PartBytes(request.parts[k]) \in Seq(Byte)
      BY <1>2, <2>1, PartBytesAre
    <2> HIDE DEF k
    <2>4. From(k) \in Seq(Byte)
      <3>1. From(k) = PartBytes(request.parts[k]) \o From(k + 1)
        BY <1>3, <2>1
      <3>2. \A a, b \in Seq(Byte) : a \o b \in Seq(Byte)
        BY ConcatProperties
      <3> QED BY <2>2, <2>3, <3>1, <3>2
    <2> QED BY <2>1, <2>4
  <1>6. T = Nat
    <2>1. T \in SUBSET Nat
      OBVIOUS
    <2> HIDE DEF T
    <2> QED BY <1>4, <1>5, <2>1, Induction
  <1>7. ASSUME NEW k \in 1..(N + 1) PROVE From(k) \in Seq(Byte)
    <2>1. N + 1 - k \in Nat /\ N + 1 - k <= N /\ N + 1 - (N + 1 - k) = k
      BY <1>2
    <2>2. N + 1 - k \in T
      BY <1>6, <2>1
    <2> QED BY <2>1, <2>2
  <1> QED BY <1>2, <1>3, <1>7

(* From each part on, the body begins with the boundary, and what follows  *)
(* it tells whether there is another part.                                 *)
LEMMA FromBegins ==
  ASSUME request \in Requests, NEW k \in 1..(N + 1)
  PROVE  /\ Len(From(k)) \in Nat /\ Len(From(k)) >= L + 4
         /\ \A i \in 1..(L + 2) : From(k)[i] = Delimiter[i + 2]
         /\ k <= N => \A i \in 1..(L + 4) : From(k)[i] = Opening[i]
         /\ k = N + 1 => Len(From(k)) = L + 6 /\ From(k)[L + 3] = "-"
  <1>1. N \in Nat /\ From(k) \in Seq(Byte) /\ Len(From(k)) \in Nat
    BY FromIs, LenProperties
  <1>2. CASE k <= N
    <2>1. k \in 1..N /\ k + 1 \in 1..(N + 1)
      BY <1>1, <1>2
    <2> DEFINE p == request.parts[k]
               s == PartBytes(p)
               t == From(k + 1)
    <2>2. p \in Part
      BY <2>1, FromIs
    <2>3. /\ s \in Seq(Byte) /\ Len(HeadOf(p)) \in Nat /\ Len(p.value) \in Nat
          /\ Len(s) = L + 4 + Len(HeadOf(p)) + Len(p.value) + 2
          /\ \A i \in 1..(L + 4) : s[i] = Opening[i]
      <3>1. Len(HeadOf(p)) = IF p.file THEN 9 ELSE 5
        BY <2>2, PartBytesAre
      <3> HIDE DEF p
      <3>2. Len(HeadOf(p)) \in Nat
        BY <3>1
      <3> QED BY <2>2, <3>2, PartBytesAre
    <2>4. t \in Seq(Byte) /\ From(k) = s \o t
      BY <2>1, FromIs
    <2> HIDE DEF p, s, t
    <2>5. Joins(From(k), s, t, Len(s), Len(t))
      BY <2>3, <2>4, Chains
    <2>6. /\ Len(s) \in Nat /\ Len(t) \in Nat /\ Len(s) >= L + 4 /\ L \in Nat
      <3>1. Len(s) \in Nat /\ Len(t) \in Nat /\ L \in Nat
        BY <2>3, <2>4, DelimiterIs, LenProperties
      <3>2. /\ Len(s) = L + 4 + Len(HeadOf(p)) + Len(p.value) + 2
            /\ Len(HeadOf(p)) \in Nat /\ Len(p.value) \in Nat
        BY <2>3
      <3>3. \A l, a, b, c \in Nat : c = l + 4 + a + b + 2 => c >= l + 4
        OBVIOUS
      <3> QED BY <3>1, <3>2, <3>3
    <2>7. Len(From(k)) >= L + 4
      BY <2>5, <2>6 DEF Joins
    <2>8. \A i \in 1..(L + 4) : From(k)[i] = Opening[i]
      <3> TAKE i \in 1..(L + 4)
      <3>1. i \in 1..Len(s)
        BY <2>6
      <3> QED BY <2>3, <2>5, <3>1 DEF Joins
    <2>9. \A i \in 1..(L + 2) : From(k)[i] = Delimiter[i + 2]
      <3> TAKE i \in 1..(L + 2)
      <3>1. i \in 1..(L + 4)
        BY <2>6
      <3> QED BY <2>8, <3>1, OpeningIs
    <2> QED BY <1>1, <1>2, <2>7, <2>8, <2>9
  <1>3. CASE ~(k <= N)
    <2>1. k = N + 1
      BY <1>1, <1>3
    <2>2. From(k) = Closing
      BY <2>1, FromIs
    <2>3. L \in Nat
      BY DelimiterIs
    <2>4. Len(From(k)) = L + 6 /\ From(k)[L + 3] = "-"
          /\ \A i \in 1..(L + 2) : From(k)[i] = Delimiter[i + 2]
      BY <2>2, ClosingIs
    <2> QED BY <1>1, <1>3, <2>1, <2>3, <2>4
  <1> QED BY <1>2, <1>3

(* Where each part of the body is.                                         *)
LEMMA PlacesAre ==
  ASSUME request \in Requests, request.kind = "multipart", NEW k \in 1..(N + 1)
  PROVE  /\ PartStart(k) \in Nat /\ PartStart(k) = Len(B) - Len(From(k))
         /\ \A i \in 1..Len(From(k)) : B[PartStart(k) + i] = From(k)[i]
         /\ k = 1 => PartStart(k) = 0
         /\ k <= N => PartStart(k + 1) = PartStart(k) + Len(PartBytes(request.parts[k]))
  <1>1. N \in Nat /\ Len(B) \in Nat /\ B = From(1)
    BY FromIs, BodyIs, RequestIs DEF From
  <1>2. \A j \in 1..(N + 1) : From(j) \in Seq(Byte) /\ Len(From(j)) \in Nat
    BY FromIs, LenProperties
  <1>3. \A j : PartStart(j) = Len(B) - Len(From(j))
    BY DEF PartStart, B, From
  <1>4. ASSUME NEW j \in 1..N
        PROVE  /\ PartStart(j + 1) = PartStart(j) + Len(PartBytes(request.parts[j]))
               /\ Len(PartBytes(request.parts[j])) \in Nat
               /\ \A i \in 1..Len(From(j + 1)) :
                    From(j)[Len(PartBytes(request.parts[j])) + i] = From(j + 1)[i]
               /\ Len(From(j)) = Len(PartBytes(request.parts[j])) + Len(From(j + 1))
    <2> DEFINE s == PartBytes(request.parts[j])
    <2>1. s \in Seq(Byte) /\ Len(s) \in Nat
      BY FromIs, PartBytesAre, LenProperties
    <2>2. From(j) = s \o From(j + 1) /\ j + 1 \in 1..(N + 1) /\ j \in 1..(N + 1)
      BY <1>1, FromIs
    <2> HIDE DEF s
    <2>3. Joins(From(j), s, From(j + 1), Len(s), Len(From(j + 1)))
      BY <1>2, <2>1, <2>2, Chains
    <2>4. Len(From(j)) = Len(s) + Len(From(j + 1))
      BY <2>3 DEF Joins
    <2>5. PartStart(j + 1) = PartStart(j) + Len(s)
      <3>1. /\ PartStart(j + 1) = Len(B) - Len(From(j + 1))
            /\ PartStart(j) = Len(B) - Len(From(j))
        BY <1>3
      <3>2. Len(From(j)) \in Nat /\ Len(From(j + 1)) \in Nat
        BY <1>2, <2>2
      <3> QED BY <1>1, <2>1, <2>4, <3>1, <3>2
    <2> QED BY <2>1, <2>3, <2>4, <2>5 DEF Joins, s
  <1> DEFINE Holds(j) == /\ PartStart(j) \in Nat
                         /\ \A i \in 1..Len(From(j)) : B[PartStart(j) + i] = From(j)[i]
             T == {n \in Nat : n <= N => Holds(n + 1)}
  <1>5. PartStart(1) = 0
    BY <1>1, <1>3
  <1>6. 0 \in T
    <2>1. \A i \in 1..Len(From(1)) : 0 + i = i
      BY <1>1
    <2> QED BY <1>1, <1>5, <2>1
  <1>7. ASSUME NEW n \in T PROVE n + 1 \in T
    <2> SUFFICES ASSUME n + 1 <= N PROVE Holds(n + 1 + 1)
      OBVIOUS
    <2> DEFINE j == n + 1
    <2>1. j \in 1..N /\ n <= N /\ j + 1 \in 1..(N + 1) /\ j \in 1..(N + 1)
      BY <1>1
    <2>2. Holds(j)
      BY <2>1
    <2> HIDE DEF j
    <2>3. PartStart(j + 1) \in Nat
      BY <1>4, <2>1, <2>2
    <2>4. ASSUME NEW i \in 1..Len(From(j + 1))
          PROVE  B[PartStart(j + 1) + i] = From(j + 1)[i]
      <3> DEFINE m == Len(PartBytes(request.parts[j]))
      <3>1. /\ PartStart(j + 1) = PartStart(j) + m /\ m \in Nat
            /\ From(j)[m + i] = From(j + 1)[i]
            /\ Len(From(j)) = m + Len(From(j + 1))
        BY <1>4, <2>1
      <3> HIDE DEF m
      <3>2. m + i \in 1..Len(From(j)) /\ PartStart(j + 1) + i = PartStart(j) + (m + i)
        <4>1. PartStart(j) \in Nat /\ Len(From(j + 1)) \in Nat
          BY <1>2, <2>1, <2>2
        <4> QED BY <3>1, <4>1
      <3> QED BY <2>2, <3>1, <3>2
    <2> QED BY <2>3, <2>4 DEF j
  <1>8. T = Nat
    <2>1. T \in SUBSET Nat
      OBVIOUS
    <2> HIDE DEF T
    <2> QED BY <1>6, <1>7, <2>1, Induction
  <1>9. Holds(k)
    <2>1. k - 1 \in Nat /\ k - 1 <= N /\ k - 1 + 1 = k
      BY <1>1
    <2>2. k - 1 \in T
      BY <1>8, <2>1
    <2> QED BY <2>1, <2>2
  <1>10. k <= N => PartStart(k + 1) = PartStart(k) + Len(PartBytes(request.parts[k]))
    BY <1>1, <1>4
  <1> QED BY <1>3, <1>5, <1>9, <1>10

(* Where each part is in the body.                                         *)
Scanned(k) == request.parts[k].value \o Delimiter

PartAt(k) ==
  LET p == request.parts[k]  next == PartStart(k + 1)
  IN /\ p \in Part /\ PartStart(k) \in Nat /\ PartHead(k) = PartStart(k) + L + 4
     /\ k = 1 => PartStart(k) = 0
     /\ ValueStart(k) = PartHead(k) + (IF p.file THEN 9 ELSE 5)
     /\ \A i \in 1..(L + 4) : B[PartStart(k) + i] = Opening[i]
     /\ \A i \in 1..(IF p.file THEN 9 ELSE 5) : B[PartHead(k) + i] = HeadOf(p)[i]
     /\ Scanned(k) \in Seq(Byte) /\ Len(p.value) \in Nat
     /\ Len(Scanned(k)) = Len(p.value) + D
     /\ \A i \in 1..Len(p.value) : Scanned(k)[i] = p.value[i]
     /\ \A i \in 1..D : Scanned(k)[Len(p.value) + i] = Delimiter[i]
     /\ \A i \in 1..(Len(p.value) + D) : B[ValueStart(k) + i] = Scanned(k)[i]
     /\ next = ValueStart(k) + Len(p.value) + 2
     /\ k < N => /\ B[next + L + 3] = "CR" /\ B[next + L + 4] = "LF"
                 /\ next + L + 4 < Len(B)
     /\ k = N => B[next + L + 3] = "-" /\ next + L + 6 = Len(B)

(* The bytes of a part: its opening, its head, its value, and the          *)
(* delimiter that ends it.                                                 *)
LEMMA PartIs ==
  ASSUME request \in Requests, request.kind = "multipart", NEW k \in 1..N
  PROVE  PartAt(k)
  <1> DEFINE p == request.parts[k]
             v == p.value
             h == HeadOf(p)
             s == Scanned(k)
             S == PartStart(k)
             next == PartStart(k + 1)
             bytes == PartBytes(p)
             n == Len(v)
             m == IF p.file THEN 9 ELSE 5
  <1>1. N \in Nat /\ k \in 1..(N + 1) /\ k + 1 \in 1..(N + 1) /\ p \in Part
    BY FromIs
  <1>2. v \in Seq(Byte)
    BY <1>1 DEF Part
  <1>3. /\ L \in Nat /\ D = L + 4 /\ m \in {5, 9} /\ m \in Nat /\ Len(h) = m
        /\ n \in Nat /\ Len(bytes) = L + 4 + m + n + 2 /\ bytes \in Seq(Byte)
    <2>1. Len(h) = m /\ n \in Nat /\ Len(bytes) = L + 4 + Len(h) + n + 2
          /\ bytes \in Seq(Byte)
      BY <1>1, PartBytesAre
    <2>2. m \in {5, 9} /\ m \in Nat
      OBVIOUS
    <2> QED BY <2>1, <2>2, DelimiterIs
  <1>4. /\ \A i \in 1..(L + 4) : bytes[i] = Opening[i]
        /\ \A i \in 1..m : bytes[L + 4 + i] = h[i]
        /\ \A i \in 1..n : bytes[L + 4 + m + i] = v[i]
        /\ bytes[L + 4 + m + n + 1] = "CR"
        /\ bytes[L + 4 + m + n + 2] = "LF"
    <2> HIDE DEF m
    <2> QED BY <1>1, <1>3, PartBytesAre
  <1>5. /\ S \in Nat /\ S = Len(B) - Len(From(k)) /\ (k = 1 => S = 0)
        /\ \A i \in 1..Len(From(k)) : B[S + i] = From(k)[i]
        /\ next = S + Len(bytes)
    BY <1>1, PlacesAre
  <1>6. /\ next \in Nat /\ next = Len(B) - Len(From(k + 1))
        /\ \A i \in 1..Len(From(k + 1)) : B[next + i] = From(k + 1)[i]
    BY <1>1, PlacesAre
  <1>7. PartHead(k) = S + L + 4 /\ ValueStart(k) = S + L + 4 + m
    <2>1. PartHead(k) = S + L + 4
      BY DEF PartHead, L
    <2>2. ValueStart(k) = PartHead(k) + m
      BY DEF ValueStart
    <2> QED BY <2>1, <2>2
  <1> HIDE DEF m, n, S, next, bytes, h, s
  <1>8. /\ L \in Nat /\ D = L + 4 /\ m \in Nat /\ n \in Nat /\ Len(bytes) \in Nat
        /\ Len(bytes) = L + 4 + m + n + 2 /\ S \in Nat /\ next \in Nat
    BY <1>3, <1>5, <1>6
  <1>9. \A i \in 1..(L + 4 + m + n + 2) : B[S + i] = bytes[i]
    <2>1. From(k) = bytes \o From(k + 1) /\ From(k + 1) \in Seq(Byte)
      BY <1>1, FromIs DEF bytes
    <2>2. Joins(From(k), bytes, From(k + 1), Len(bytes), Len(From(k + 1)))
      BY <1>3, <2>1, Chains
    <2>3. \A i \in 1..Len(bytes) : From(k)[i] = bytes[i]
      BY <2>2 DEF Joins
    <2>4. Len(From(k)) = Len(bytes) + Len(From(k + 1)) /\ Len(From(k + 1)) \in Nat
      BY <2>1, <2>2, LenProperties DEF Joins
    <2>5. \A i \in 1..Len(bytes) : i \in 1..Len(From(k))
      BY <1>8, <2>4
    <2>6. \A i \in 1..Len(bytes) : B[S + i] = bytes[i]
      BY <1>5, <2>3, <2>5
    <2> QED BY <1>8, <2>6
  <1>10. \A i \in 1..(L + 4) : B[S + i] = Opening[i]
    <2> TAKE i \in 1..(L + 4)
    <2>1. i \in 1..(L + 4 + m + n + 2)
      BY <1>8
    <2> QED BY <1>4, <1>9, <2>1
  <1>11. \A i \in 1..m : B[S + L + 4 + i] = h[i]
    <2> TAKE i \in 1..m
    <2>1. L + 4 + i \in 1..(L + 4 + m + n + 2) /\ S + L + 4 + i = S + (L + 4 + i)
      BY <1>8
    <2> QED BY <1>4, <1>9, <2>1
  <1>12. /\ s \in Seq(Byte) /\ Len(s) = n + D
         /\ \A i \in 1..n : s[i] = v[i]
         /\ \A i \in 1..D : s[n + i] = Delimiter[i]
    <2>1. s = v \o Delimiter
      BY DEF s, Scanned
    <2>2. Delimiter \in Seq(Byte) /\ Len(Delimiter) = D
      BY DelimiterIs DEF D
    <2>3. Joins(s, v, Delimiter, n, D)
      BY <1>2, <2>1, <2>2, Chains DEF n
    <2> QED BY <2>3 DEF Joins
  <1>13. next = S + L + 4 + m + n + 2
    <2>1. next = S + Len(bytes)
      BY <1>5
    <2> QED BY <1>8, <2>1
  <1>14. /\ Len(From(k + 1)) \in Nat /\ Len(From(k + 1)) >= L + 4
         /\ \A i \in 1..(L + 2) : From(k + 1)[i] = Delimiter[i + 2]
         /\ k + 1 <= N => \A i \in 1..(L + 4) : From(k + 1)[i] = Opening[i]
         /\ k + 1 = N + 1 => Len(From(k + 1)) = L + 6 /\ From(k + 1)[L + 3] = "-"
    BY <1>1, FromBegins
  <1>15. ASSUME NEW i \in 1..(n + D)
         PROVE  B[S + L + 4 + m + i] = s[i]
    <2>1. CASE i \in 1..n
      <3>1. /\ L + 4 + m + i \in 1..(L + 4 + m + n + 2)
            /\ S + L + 4 + m + i = S + (L + 4 + m + i)
        BY <1>8, <2>1
      <3> QED BY <1>4, <1>9, <1>12, <2>1, <3>1
    <2>2. CASE i = n + 1
      <3>1. /\ L + 4 + m + n + 1 \in 1..(L + 4 + m + n + 2)
            /\ S + L + 4 + m + i = S + (L + 4 + m + n + 1) /\ 1 \in 1..D
        BY <1>8, <2>2
      <3>2. B[S + L + 4 + m + i] = "CR"
        BY <1>4, <1>9, <3>1
      <3>3. s[i] = Delimiter[1] /\ Delimiter[1] = "CR"
        BY <1>12, <2>2, <3>1, DelimiterIs
      <3> QED BY <3>2, <3>3
    <2>3. CASE i = n + 2
      <3>1. /\ L + 4 + m + n + 2 \in 1..(L + 4 + m + n + 2)
            /\ S + L + 4 + m + i = S + (L + 4 + m + n + 2) /\ 2 \in 1..D
        BY <1>8, <2>3
      <3>2. B[S + L + 4 + m + i] = "LF"
        BY <1>4, <1>9, <3>1
      <3>3. s[i] = Delimiter[2] /\ Delimiter[2] = "LF"
        BY <1>12, <2>3, <3>1, DelimiterIs
      <3> QED BY <3>2, <3>3
    <2>4. CASE i \in (n + 3)..(n + D)
      <3> DEFINE j == i - n - 2
      <3>1. /\ j \in 1..(L + 2) /\ j \in 1..Len(From(k + 1)) /\ j + 2 \in 1..D
            /\ n + (j + 2) = i /\ S + L + 4 + m + i = next + j
        BY <1>8, <1>13, <1>14, <2>4
      <3> HIDE DEF j
      <3>2. B[next + j] = Delimiter[j + 2]
        BY <1>6, <1>14, <3>1
      <3>3. s[n + (j + 2)] = Delimiter[j + 2]
        BY <1>12, <3>1
      <3> QED BY <3>1, <3>2, <3>3
    <2>5. i \in 1..n \/ i = n + 1 \/ i = n + 2 \/ i \in (n + 3)..(n + D)
      BY <1>8
    <2> QED BY <2>1, <2>2, <2>3, <2>4, <2>5
  <1>16. ASSUME k < N
         PROVE  /\ B[next + L + 3] = "CR" /\ B[next + L + 4] = "LF"
                /\ next + L + 4 < Len(B)
    <2>1. k + 1 <= N /\ L + 3 \in 1..(L + 4) /\ L + 4 \in 1..(L + 4)
          /\ next + L + 3 = next + (L + 3) /\ next + L + 4 = next + (L + 4)
          /\ L + 3 \in 1..Len(From(k + 1)) /\ L + 4 \in 1..Len(From(k + 1))
      BY <1>1, <1>3, <1>6, <1>14, <1>16
    <2>2. From(k + 1)[L + 3] = "CR" /\ From(k + 1)[L + 4] = "LF"
      BY <1>14, <2>1, OpeningIs
    <2>3. B[next + (L + 3)] = "CR" /\ B[next + (L + 4)] = "LF"
      BY <1>6, <2>1, <2>2
    <2>4. next + L + 4 < Len(B)
      <3>1. k + 1 \in 1..N /\ k + 1 + 1 \in 1..(N + 1)
        BY <1>1, <1>16
      <3>2. request.parts[k + 1] \in Part
        BY <3>1, FromIs
      <3>3. /\ PartStart(k + 1 + 1) = next + Len(PartBytes(request.parts[k + 1]))
        BY <2>1, <3>1, <1>1, PlacesAre DEF next
      <3>4. /\ Len(PartBytes(request.parts[k + 1])) \in Nat
            /\ Len(PartBytes(request.parts[k + 1])) > L + 4
        <4> DEFINE o == request.parts[k + 1]
        <4>1. /\ Len(HeadOf(o)) = (IF o.file THEN 9 ELSE 5) /\ Len(o.value) \in Nat
              /\ Len(PartBytes(o)) = L + 4 + Len(HeadOf(o)) + Len(o.value) + 2
          BY <3>2, PartBytesAre
        <4> HIDE DEF o
        <4>2. Len(HeadOf(o)) \in Nat
          BY <4>1
        <4>3. Len(PartBytes(o)) \in Nat /\ Len(PartBytes(o)) > L + 4
          <5>1. \A l, a, b : l \in Nat /\ a \in Nat /\ b \in Nat
                  => l + 4 + a + b + 2 \in Nat /\ l + 4 + a + b + 2 > l + 4
            OBVIOUS
          <5> QED BY <1>8, <4>1, <4>2, <5>1
        <4> QED BY <4>3 DEF o
      <3>5. /\ PartStart(k + 1 + 1) = Len(B) - Len(From(k + 1 + 1))
            /\ Len(From(k + 1 + 1)) \in Nat
        BY <3>1, PlacesAre, FromIs, LenProperties
      <3>6. Len(B) \in Nat
        BY RequestIs
      <3> QED BY <1>3, <1>6, <3>3, <3>4, <3>5, <3>6
    <2> QED BY <2>1, <2>3, <2>4
  <1>17. ASSUME k = N
         PROVE  B[next + L + 3] = "-" /\ next + L + 6 = Len(B)
    <2>1. Len(From(k + 1)) = L + 6 /\ From(k + 1)[L + 3] = "-"
      BY <1>14, <1>17
    <2>2. L + 3 \in 1..Len(From(k + 1)) /\ next + L + 3 = next + (L + 3)
      BY <1>3, <1>6, <2>1
    <2>3. Len(B) \in Nat
      BY RequestIs
    <2>4. next + L + 6 = Len(B)
      <3>1. next = Len(B) - Len(From(k + 1))
        BY <1>6
      <3> QED BY <1>8, <2>1, <2>3, <3>1
    <2> QED BY <1>6, <2>1, <2>2, <2>4
  <1>18. /\ \A i \in 1..m : B[PartHead(k) + i] = h[i]
         /\ \A i \in 1..(Len(v) + D) : B[ValueStart(k) + i] = s[i]
         /\ next = ValueStart(k) + Len(v) + 2
         /\ ValueStart(k) = PartHead(k) + m
    <2>1. PartHead(k) = S + L + 4 /\ ValueStart(k) = S + L + 4 + m
      BY <1>7
    <2>2. next = ValueStart(k) + n + 2 /\ ValueStart(k) = PartHead(k) + m
      BY <1>13, <2>1
    <2>3. \A i \in 1..m : B[PartHead(k) + i] = h[i]
      BY <1>11, <2>1
    <2>4. \A i \in 1..(n + D) : B[ValueStart(k) + i] = s[i]
      BY <1>15, <2>1
    <2> QED BY <2>2, <2>3, <2>4 DEF n
  <1> QED BY <1>1, <1>3, <1>5, <1>7, <1>10, <1>12, <1>16, <1>17, <1>18
        DEF PartAt, h, s, S, next, n, m

----------------------------------------------------------------------------
(* The value of a part is written                                          *)

(* The files of the first k parts, as they grow.                           *)
LEMMA FilesAre ==
  ASSUME request \in Requests
  PROVE  /\ \A k \in 0..N : Files(k) \in Seq(Byte)
         /\ Files(0) = <<>>
         /\ \A k \in 1..N :
              Files(k) = IF request.parts[k].file
                         THEN Files(k - 1) \o request.parts[k].value ELSE Files(k - 1)
  <1>1. N \in Nat /\ \A k \in 1..N : request.parts[k].value \in Seq(Byte)
    BY FromIs DEF Part
  <1>2. /\ Files(0) = <<>>
        /\ \A k \in 1..N :
             Files(k) = Files(k - 1)
                          \o IF request.parts[k].file THEN request.parts[k].value ELSE <<>>
    BY <1>1, FilesLoop DEF N, Files
  <1> DEFINE v(k) == IF request.parts[k].file THEN request.parts[k].value ELSE <<>>
             T == {n \in Nat : n <= N => Files(n) \in Seq(Byte)}
  <1>3. \A k \in 1..N : v(k) \in Seq(Byte)
    <2> TAKE k \in 1..N
    <2>1. <<>> \in Seq(Byte)
      BY EmptySeq
    <2> QED BY <1>1, <2>1
  <1>4. 0 \in T
    BY <1>2, EmptySeq
  <1>5. ASSUME NEW n \in T PROVE n + 1 \in T
    <2> SUFFICES ASSUME n + 1 <= N PROVE Files(n + 1) \in Seq(Byte)
      OBVIOUS
    <2>1. n + 1 \in 1..N /\ n + 1 - 1 = n /\ n <= N
      BY <1>1
    <2>2. Files(n) \in Seq(Byte)
      <3>1. n <= N => Files(n) \in Seq(Byte)
        OBVIOUS
      <3> QED BY <2>1, <3>1
    <2>3. Files(n + 1) = Files(n) \o v(n + 1)
      <3>1. \A k \in 1..N : Files(k) = Files(k - 1) \o v(k)
        BY <1>2
      <3> HIDE DEF v
      <3>2. Files(n + 1) = Files(n + 1 - 1) \o v(n + 1)
        BY <2>1, <3>1
      <3> QED BY <2>1, <3>2
    <2> HIDE DEF v, T
    <2>4. v(n + 1) \in Seq(Byte)
      BY <1>3, <2>1
    <2> QED BY <2>2, <2>3, <2>4, ConcatProperties
  <1>6. T = Nat
    <2>1. T \in SUBSET Nat
      OBVIOUS
    <2> HIDE DEF T
    <2> QED BY <1>4, <1>5, <2>1, Induction
  <1>7. \A k \in 0..N : Files(k) \in Seq(Byte)
    <2> TAKE k \in 0..N
    <2>1. k \in T /\ k <= N
      BY <1>1, <1>6
    <2> QED BY <2>1
  <1>8. ASSUME NEW k \in 1..N
        PROVE  Files(k) = IF request.parts[k].file
                          THEN Files(k - 1) \o request.parts[k].value ELSE Files(k - 1)
    <2>1. CASE request.parts[k].file
      BY <1>2, <2>1
    <2>2. CASE ~request.parts[k].file
      <3>1. Files(k) = Files(k - 1) \o <<>>
        BY <1>2, <2>2
      <3>2. Files(k - 1) \in Seq(Byte)
        <4>1. k - 1 \in 0..N
          BY <1>1
        <4> QED BY <1>7, <4>1
      <3>3. Files(k - 1) \o <<>> = Files(k - 1)
        BY <3>2, ConcatEmptySeq
      <3> QED BY <2>2, <3>1, <3>3
    <2> QED BY <2>1, <2>2
  <1> QED BY <1>2, <1>7, <1>8

(* The parameters of the first k parts, as they grow.                      *)
Params(k) == PartsUpTo(request.parts)[k]

OfParts == {PartMeaning(p) : p \in Part}

(* A part adds its own, but for a file without contents.                   *)
LEMMA ParamsAre ==
  ASSUME request \in Requests
  PROVE  /\ \A k \in 0..N : Params(k) \in Seq(OfParts)
         /\ \A k \in 1..N :
              Params(k) = IF request.parts[k].file /\ request.parts[k].value = <<>>
                          THEN Params(k - 1)
                          ELSE Params(k - 1) \o <<PartMeaning(request.parts[k])>>
  <1>1. N \in Nat /\ \A k \in 1..N : request.parts[k] \in Part
    BY FromIs
  <1> DEFINE none(k) == request.parts[k].file /\ request.parts[k].value = <<>>
             v(k) == IF none(k) THEN <<>> ELSE <<PartMeaning(request.parts[k])>>
             T == {n \in Nat : n <= N => Params(n) \in Seq(OfParts)}
  <1>2. Params(0) = <<>> /\ \A k \in 1..N : Params(k) = Params(k - 1) \o v(k)
    BY <1>1, PartParamsLoop DEF N, Params
  <1>3. \A k \in 1..N : v(k) \in Seq(OfParts)
    <2> TAKE k \in 1..N
    <2> DEFINE o == PartMeaning(request.parts[k])
    <2>1. o \in OfParts
      BY <1>1 DEF OfParts
    <2> HIDE DEF o
    <2>2. <<o>> \in Seq(OfParts) /\ <<>> \in Seq(OfParts)
      BY <2>1, EmptySeq
    <2> QED BY <2>2 DEF o
  <1> HIDE DEF v
  <1>4. 0 \in T
    BY <1>2, EmptySeq
  <1>5. ASSUME NEW n \in T PROVE n + 1 \in T
    <2> SUFFICES ASSUME n + 1 <= N PROVE Params(n + 1) \in Seq(OfParts)
      OBVIOUS
    <2>1. n + 1 \in 1..N /\ n + 1 - 1 = n /\ n <= N
      BY <1>1
    <2>2. Params(n) \in Seq(OfParts)
      <3>1. n <= N => Params(n) \in Seq(OfParts)
        OBVIOUS
      <3> QED BY <2>1, <3>1
    <2>3. Params(n + 1) = Params(n) \o v(n + 1)
      BY <1>2, <2>1
    <2> HIDE DEF T
    <2>4. v(n + 1) \in Seq(OfParts)
      BY <1>3, <2>1
    <2> QED BY <2>2, <2>3, <2>4, ConcatProperties
  <1>6. T = Nat
    <2>1. T \in SUBSET Nat
      OBVIOUS
    <2> HIDE DEF T
    <2> QED BY <1>4, <1>5, <2>1, Induction
  <1>7. \A k \in 0..N : Params(k) \in Seq(OfParts)
    <2> TAKE k \in 0..N
    <2>1. k \in T /\ k <= N
      BY <1>1, <1>6
    <2> QED BY <2>1
  <1>8. ASSUME NEW k \in 1..N
        PROVE  Params(k) = IF none(k) THEN Params(k - 1)
                           ELSE Params(k - 1) \o <<PartMeaning(request.parts[k])>>
    <2>1. CASE none(k)
      <3>1. Params(k) = Params(k - 1) \o <<>>
        BY <1>2, <2>1 DEF v
      <3>2. Params(k - 1) \in Seq(OfParts)
        <4>1. k - 1 \in 0..N
          BY <1>1
        <4> QED BY <1>7, <4>1
      <3> QED BY <2>1, <3>1, <3>2, ConcatEmptySeq
    <2>2. CASE ~none(k)
      BY <1>2, <2>2 DEF v
    <2> QED BY <2>1, <2>2
  <1> QED BY <1>7, <1>8

(* The parameters with that of a part whose value was w.                   *)
WithPart(x, w) ==
  IF ~x.isFile THEN Append(x.params, Param(x.name, w, TRUE, FALSE, 0))
  ELSE IF w = <<>> THEN x.params
  ELSE Append(x.params, Param(x.name, <<>>, TRUE, TRUE, Len(w)))

(* They are those of the query and of the parts up to this one.            *)
LEMMA KnownNext ==
  ASSUME request \in Requests, NEW k \in 1..N, NEW x, Known(x, k - 1),
         x.name = <<request.parts[k].name>>, x.isFile = request.parts[k].file
  PROVE  WithPart(x, request.parts[k].value) = InQuery \o Params(k)
  <1> DEFINE part == request.parts[k]
             o == PartMeaning(part)
             i == InQuery
             p == Params(k - 1)
             U == AllParams \cup OfParts
  <1>1. /\ part \in Part /\ k - 1 \in 0..N /\ part.file \in BOOLEAN
    BY FromIs DEF Part
  <1>2. x.params = i \o p
    BY DEF Known, Params
  <1>3. p \in Seq(OfParts) /\ i \in Seq(AllParams)
    BY <1>1, ParamsAre, QueryFound
  <1>4. o \in OfParts
    BY <1>1 DEF OfParts
  <1>5. part.file /\ part.value = <<>> => InQuery \o Params(k) = x.params
    BY <1>2, ParamsAre
  <1>6. ~(part.file /\ part.value = <<>>) => InQuery \o Params(k) = i \o (p \o <<o>>)
    BY ParamsAre
  <1>7. ~(part.file /\ part.value = <<>>) =>
          WithPart(x, part.value) = Append(x.params, o)
    BY <1>1 DEF WithPart, PartMeaning, Sent, Param
  <1>8. part.file /\ part.value = <<>> => WithPart(x, part.value) = x.params
    BY <1>1 DEF WithPart
  <1> HIDE DEF o, i, p, U, part
  <1>9. Append(i \o p, o) = i \o (p \o <<o>>)
    <2>1. i \in Seq(U) /\ p \in Seq(U) /\ o \in U
      <3>1. AllParams \subseteq U /\ OfParts \subseteq U
        BY DEF U
      <3>2. \A V, W : V \subseteq W => Seq(V) \subseteq Seq(W)
        BY SeqMonotonic
      <3> QED BY <1>3, <1>4, <3>1, <3>2
    <2> DEFINE e == <<o>>
    <2>2. e \in Seq(U)
      BY <2>1
    <2>3. Append(i \o p, o) = (i \o p) \o e
      <3>1. i \o p \in Seq(U)
        BY <2>1, ConcatProperties
      <3> QED BY <2>1, <3>1, AppendIsConcat
    <2> HIDE DEF e
    <2>4. Regrouped(i, p, e)
      BY <2>1, <2>2, Regroup
    <2> QED BY <2>3, <2>4 DEF Regrouped, e
  <1> QED BY <1>2, <1>5, <1>6, <1>7, <1>8, <1>9 DEF part

(* What handleUpload does with the buffer.                                 *)
Uploaded(x, y, s) ==
  /\ Same(x, y, {"upload", "buffer", "torn"})
  /\ y.upload = s /\ y.buffer = <<>> /\ ~y.torn

(* handleUpload gives what is in the buffer, at the index it says.         *)
LEMMA UploadDoes ==
  ASSUME NEW x, DOMAIN x = Members, x.upload \in Seq(Byte), x.buffer \in Seq(Byte),
         NEW f \in Seq(Byte), NEW w \in Seq(Byte), x.upload \o x.buffer = f \o w,
         x.size = Len(w), x.from = Len(f), ~x.torn
  PROVE  Uploaded(x, HandleUpload(x), f \o w)
  <1>1. x.size - Len(x.buffer) = Len(x.upload) - x.from
    <2> DEFINE u == x.upload
               b == x.buffer
    <2>1. Len(u \o b) = Len(u) + Len(b) /\ Len(f \o w) = Len(f) + Len(w)
      BY ConcatProperties
    <2>2. /\ Len(u) \in Nat /\ Len(b) \in Nat /\ Len(f) \in Nat /\ Len(w) \in Nat
      BY LenProperties
    <2>3. Len(u) + Len(b) = Len(f) + Len(w)
      BY <2>1
    <2> HIDE DEF u, b
    <2>4. Len(w) - Len(b) = Len(u) - Len(f)
      BY <2>2, <2>3
    <2> QED BY <2>4 DEF u, b
  <1> DEFINE y == HandleUpload(x)
  <1>2. /\ Same(x, y, {"upload", "buffer", "torn"})
        /\ y.upload = x.upload \o x.buffer /\ y.buffer = <<>>
        /\ y.torn = (x.torn \/ x.size - Len(x.buffer) # Len(x.upload) - x.from)
    BY FieldsAre DEF HandleUpload, Same
  <1> HIDE DEF y
  <1>3. ~y.torn
    BY <1>1, <1>2
  <1>4. Uploaded(x, y, f \o w)
    BY <1>2, <1>3 DEF Uploaded
  <1> QED BY <1>4 DEF y

(* A byte more is written.                                                 *)
Wrote(x, y, f, w) ==
  Same(x, y, {"size", "buffer", "upload", "torn", "value"}) /\ Written(y, f, w)

(* A byte is written: of a file, in the buffer, which is given when it is  *)
(* full or when the packet ends; of a field, in its value.                 *)
LEMMA WriteByteDoes ==
  ASSUME NEW x, DOMAIN x = Members, NEW f \in Seq(Byte), NEW w \in Seq(Byte),
         NEW d \in Byte, Written(x, f, w), NEW last \in BOOLEAN
  PROVE  Wrote(x, ItemWriteByte(x, d, last), f, Append(w, d))
  <1> DEFINE y == [x EXCEPT !.size = @ + 1]
             z == [y EXCEPT !.value = Append(@, d)]
             u == [y EXCEPT !.buffer = Append(@, d)]
             w2 == Append(w, d)
  <1>1. /\ x.size = Len(w) /\ ~x.torn /\ x.upload \in Seq(Byte) /\ x.buffer \in Seq(Byte)
        /\ Len(x.buffer) < BufSize /\ Len(x.buffer) <= x.size
        /\ IF x.isFile THEN x.from = Len(f) /\ x.upload \o x.buffer = f \o w
           ELSE x.upload = f /\ x.buffer = <<>> /\ x.value = w
    BY DEF Written
  <1>2. /\ Len(w) \in Nat /\ w2 \in Seq(Byte) /\ Len(w2) = Len(w) + 1
        /\ Len(x.buffer) \in Nat /\ BufSize \in Nat \ {0}
    BY <1>1, AppendProperties, LenProperties, RequestAssumption
  <1>3. Same(x, y, {"size"}) /\ y.size = Len(w2)
    <2>1. Same(x, y, {"size"}) /\ y.size = x.size + 1
      BY FieldsAre DEF Same
    <2> HIDE DEF y, w2
    <2> QED BY <1>1, <1>2, <2>1
  <1>4. ItemWriteByte(x, d, last) = IF y.isFile THEN HandleUploadByte(y, d, last) ELSE z
    BY DEF ItemWriteByte
  <1>5. HandleUploadByte(y, d, last) =
          IF last \/ Len(u.buffer) = BufSize THEN HandleUpload(u) ELSE u
    BY DEF HandleUploadByte
  <1> HIDE DEF y, w2
  <1>6. y.isFile = x.isFile /\ DOMAIN y = Members
    BY <1>3, FieldsAre DEF Same
  <1>7. CASE ~x.isFile
    <2>1. ItemWriteByte(x, d, last) = z
      BY <1>4, <1>6, <1>7
    <2>2. Same(y, z, {"value"}) /\ z.value = Append(y.value, d)
      BY <1>6, FieldsAre DEF Same
    <2> HIDE DEF z
    <2>3. z.value = w2
      <3>1. y.value = x.value
        BY <1>3, FieldsAre DEF Same
      <3> QED BY <1>1, <1>7, <2>2, <3>1 DEF w2
    <2>4. /\ z.size = Len(w2) /\ z.upload = x.upload /\ z.buffer = x.buffer
          /\ z.torn = x.torn /\ z.isFile = x.isFile
          /\ Same(x, z, {"size", "buffer", "upload", "torn", "value"})
      BY <1>3, <2>2, FieldsAre DEF Same
    <2>5. Len(z.buffer) < BufSize /\ Len(z.buffer) <= z.size
      BY <1>1, <1>2, <2>4
    <2>6. Written(z, f, w2)
      BY <1>1, <1>7, <2>4, <2>5, <2>3 DEF Written
    <2> QED BY <2>1, <2>4, <2>6 DEF Wrote, w2
  <1>8. CASE x.isFile
    <2>1. Same(x, u, {"size", "buffer"}) /\ u.buffer = Append(x.buffer, d)
          /\ u.size = Len(w2)
      <3>1. Same(y, u, {"buffer"}) /\ u.buffer = Append(y.buffer, d)
        BY <1>6, FieldsAre DEF Same
      <3> HIDE DEF u
      <3> QED BY <1>3, <3>1, FieldsAre DEF Same
    <2>2. ItemWriteByte(x, d, last) =
            IF last \/ Len(u.buffer) = BufSize THEN HandleUpload(u) ELSE u
      BY <1>4, <1>5, <1>6, <1>8
    <2> HIDE DEF u
    <2>3. /\ DOMAIN u = Members /\ u.upload = x.upload /\ u.isFile = x.isFile
          /\ u.from = Len(f) /\ ~u.torn
      BY <1>1, <1>8, <2>1, FieldsAre DEF Same
    <2>4. u.buffer \in Seq(Byte) /\ Len(u.buffer) = Len(x.buffer) + 1
      <3>1. \A s \in Seq(Byte) : Append(s, d) \in Seq(Byte) /\ Len(Append(s, d)) = Len(s) + 1
        BY AppendProperties
      <3> QED BY <1>1, <2>1, <3>1
    <2>5. u.upload \o u.buffer = f \o w2
      <3>1. \A s, t \in Seq(Byte) : s \o Append(t, d) = Append(s \o t, d)
        <4> TAKE s, t \in Seq(Byte)
        <4>1. <<d>> \in Seq(Byte) /\ s \o t \in Seq(Byte)
          BY Single, ConcatProperties
        <4>2. Append(t, d) = t \o <<d>> /\ Append(s \o t, d) = (s \o t) \o <<d>>
          BY <4>1, AppendIsConcat
        <4> QED BY <4>1, <4>2, ConcatAssociative
      <3>2. x.upload \o Append(x.buffer, d) = Append(x.upload \o x.buffer, d)
        BY <1>1, <3>1
      <3>3. f \o w2 = Append(f \o w, d)
        BY <3>1 DEF w2
      <3> QED BY <1>1, <1>8, <2>1, <2>3, <3>2, <3>3
    <2>6. CASE ~(last \/ Len(u.buffer) = BufSize)
      <3>1. Len(u.buffer) < BufSize /\ Len(u.buffer) <= u.size
        BY <1>1, <1>2, <2>1, <2>4, <2>6
      <3>2. Written(u, f, w2)
        BY <1>1, <1>8, <2>1, <2>3, <2>4, <2>5, <3>1 DEF Written
      <3>3. Same(x, u, {"size", "buffer", "upload", "torn", "value"})
        BY <2>1 DEF Same
      <3> QED BY <2>2, <2>6, <3>2, <3>3 DEF Wrote, w2
    <2>7. CASE last \/ Len(u.buffer) = BufSize
      <3> DEFINE h == HandleUpload(u)
      <3>1. Uploaded(u, h, f \o w2)
        BY <1>1, <1>2, <2>1, <2>3, <2>4, <2>5, UploadDoes
      <3> HIDE DEF h
      <3>2. /\ Same(x, h, {"size", "buffer", "upload", "torn", "value"})
            /\ h.size = Len(w2) /\ h.upload = f \o w2 /\ h.buffer = <<>> /\ ~h.torn
            /\ h.isFile = x.isFile /\ h.from = Len(f)
        BY <2>1, <2>3, <3>1, FieldsAre DEF Same, Uploaded
      <3>3. f \o w2 \in Seq(Byte) /\ (f \o w2) \o <<>> = f \o w2
        BY <1>2, ConcatProperties, ConcatEmptySeq
      <3>4. h.buffer \in Seq(Byte) /\ Len(h.buffer) = 0
        BY <3>2, EmptySeq
      <3>5. Len(h.buffer) < BufSize /\ Len(h.buffer) <= h.size
        BY <1>2, <3>2, <3>4
      <3>6. Written(h, f, w2)
        BY <1>8, <3>2, <3>3, <3>4, <3>5 DEF Written
      <3> QED BY <2>2, <2>7, <3>2, <3>6 DEF Wrote, w2, h
    <2> QED BY <2>6, <2>7
  <1>9. x.isFile \/ ~x.isFile
    OBVIOUS
  <1> QED BY <1>7, <1>8, <1>9

(* The bytes that were taken for a boundary are written.                   *)
LEMMA WriteDoes ==
  ASSUME NEW x, DOMAIN x = Members, NEW f \in Seq(Byte), NEW S \in Seq(Byte),
         NEW n \in Nat, NEW s, Len(s) \in Nat, n + Len(s) <= Len(S),
         \A i \in 1..Len(s) : s[i] = S[n + i],
         Written(x, f, SubSeq(S, 1, n)), NEW last \in BOOLEAN
  PROVE  Wrote(x, ItemWrite(x, s, last), f, SubSeq(S, 1, n + Len(s)))
  <1>1. PICK g : /\ g[0] = x /\ ItemWrite(x, s, last) = g[Len(s)]
                 /\ \A i \in 1..Len(s) : g[i] = ItemWriteByte(g[i - 1], s[i], last)
    <2>1. WriteSteps(x, s, last)
      BY WriteLoop
    <2> QED BY <2>1 DEF WriteSteps
  <1>2. Len(S) \in Nat
    BY LenProperties
  <1> DEFINE T == {i \in Nat : i <= Len(s) => Wrote(x, g[i], f, SubSeq(S, 1, n + i))}
  <1>3. 0 \in T
    <2>1. n + 0 = n
      OBVIOUS
    <2>2. Same(x, x, {"size", "buffer", "upload", "torn", "value"})
      BY DEF Same
    <2> QED BY <1>1, <2>1, <2>2 DEF Wrote
  <1>4. ASSUME NEW i \in T PROVE i + 1 \in T
    <2> SUFFICES ASSUME i + 1 <= Len(s)
                 PROVE  Wrote(x, g[i + 1], f, SubSeq(S, 1, n + (i + 1)))
      OBVIOUS
    <2> DEFINE y == g[i]
               z == g[i + 1]
               m == n + i
    <2>1. Wrote(x, y, f, SubSeq(S, 1, m))
      OBVIOUS
    <2>2. i + 1 \in 1..Len(s) /\ i + 1 - 1 = i /\ m \in Nat /\ n + (i + 1) = m + 1
          /\ m + 1 \in 1..Len(S) /\ m + 1 - 1 = m
      BY <1>2
    <2>3. z = ItemWriteByte(y, S[m + 1], last)
      <3>1. z = ItemWriteByte(y, s[i + 1], last)
        BY <1>1, <2>2
      <3>2. PICK j : j = i + 1
        OBVIOUS
      <3>3. j \in 1..Len(s) /\ n + j = m + 1
        BY <2>2, <3>2
      <3>4. s[j] = S[n + j]
        BY <3>3
      <3> QED BY <3>1, <3>2, <3>3, <3>4
    <2> HIDE DEF y, z, m
    <2>4. SubSeq(S, 1, m) \in Seq(Byte) /\ S[m + 1] \in Byte
      <3>1. 0 \in Nat /\ 0 <= m /\ m <= Len(S) /\ 0 + 1 = 1
        BY <1>2, <2>2
      <3>2. SubSeq(S, 0 + 1, m) \in Seq(Byte)
        BY <2>2, <3>1, Slice
      <3> QED BY <2>2, <3>1, <3>2, ElementOfSeq
    <2>5. Append(SubSeq(S, 1, m), S[m + 1]) = SubSeq(S, 1, m + 1)
      <3> DEFINE j == m + 1
      <3>1. 1 \in 1..Len(S) /\ j \in 1..Len(S) /\ j - 1 = m
        BY <1>2, <2>2
      <3>2. S[j] \in Byte
        BY <2>4
      <3> HIDE DEF j
      <3>3. SubSeq(S, 1, j) = SubSeq(S, 1, j - 1) \o <<S[j]>>
        BY <3>1, SubSeqRecursiveSecond
      <3>4. Append(SubSeq(S, 1, m), S[j]) = SubSeq(S, 1, m) \o <<S[j]>>
        BY <2>4, <3>2, AppendIsConcat
      <3>5. Append(SubSeq(S, 1, m), S[j]) = SubSeq(S, 1, j)
        BY <3>1, <3>3, <3>4
      <3> QED BY <3>5 DEF j
    <2>6. Wrote(y, z, f, Append(SubSeq(S, 1, m), S[m + 1]))
      <3>1. DOMAIN y = Members /\ Written(y, f, SubSeq(S, 1, m))
        BY <2>1 DEF Wrote, Same
      <3> QED BY <2>3, <2>4, <3>1, WriteByteDoes
    <2>7. Wrote(x, z, f, SubSeq(S, 1, m + 1))
      BY <2>1, <2>5, <2>6 DEF Wrote, Same
    <2> QED BY <2>2, <2>7 DEF z
  <1>5. T = Nat
    <2>1. T \in SUBSET Nat
      OBVIOUS
    <2> HIDE DEF T
    <2> QED BY <1>3, <1>4, <2>1, Induction
  <1>6. Len(s) \in T
    BY <1>5
  <1>7. Wrote(x, g[Len(s)], f, SubSeq(S, 1, n + Len(s)))
    BY <1>6
  <1> QED BY <1>1, <1>7

----------------------------------------------------------------------------
(* The delimiter in the value                                              *)

Unique(s, j, m) == \A l \in 1..D : l <= j /\ Ends(s, j, l) => l = m

(* What the automaton may have seen of the delimiter after one byte more.  *)
LEMMA EndsNext ==
  ASSUME NEW s, NEW j \in Nat, NEW m \in 0..(D - 1), m <= j, Ends(s, j, m), Unique(s, j, m)
  PROVE  /\ s[j + 1] = Delimiter[m + 1] =>
              Ends(s, j + 1, m + 1) /\ Unique(s, j + 1, m + 1)
         /\ s[j + 1] # Delimiter[m + 1] /\ s[j + 1] = "CR" =>
              Ends(s, j + 1, 1) /\ Unique(s, j + 1, 1)
         /\ s[j + 1] # Delimiter[m + 1] /\ s[j + 1] # "CR" =>
              Ends(s, j + 1, 0) /\ Unique(s, j + 1, 0)
  <1>1. D \in Nat /\ Delimiter[1] = "CR" /\ \A i \in 2..D : Delimiter[i] # "CR"
    BY DelimiterIs
  <1>2. ASSUME NEW l \in 1..D, l <= j + 1, Ends(s, j + 1, l)
        PROVE  s[j + 1] = Delimiter[l] /\ (l >= 2 => l - 1 = m)
    <2>1. \A i \in 1..l : s[j + 1 - l + i] = Delimiter[i]
      BY <1>2 DEF Ends
    <2>2. s[j + 1] = Delimiter[l]
      <3>1. l \in 1..l /\ j + 1 - l + l = j + 1
        BY <1>1
      <3>2. s[j + 1 - l + l] = Delimiter[l]
        BY <2>1, <3>1
      <3> QED BY <3>1, <3>2
    <2>3. ASSUME l >= 2 PROVE l - 1 = m
      <3>1. l - 1 \in 1..D /\ l - 1 <= j
        BY <1>1, <1>2, <2>3
      <3>2. Ends(s, j, l - 1)
        <4> SUFFICES ASSUME NEW i \in 1..(l - 1) PROVE s[j - (l - 1) + i] = Delimiter[i]
          BY DEF Ends
        <4>1. i \in 1..l /\ j - (l - 1) + i = j + 1 - l + i
          BY <1>1
        <4> QED BY <2>1, <4>1
      <3> QED BY <3>1, <3>2 DEF Unique
    <2> QED BY <2>2, <2>3
  <1>3. ASSUME s[j + 1] = Delimiter[m + 1]
        PROVE  Ends(s, j + 1, m + 1) /\ Unique(s, j + 1, m + 1)
    <2>1. Ends(s, j + 1, m + 1)
      <3> SUFFICES ASSUME NEW i \in 1..(m + 1)
                   PROVE  s[j + 1 - (m + 1) + i] = Delimiter[i]
        BY DEF Ends
      <3>1. CASE i = m + 1
        <4>1. j + 1 - (m + 1) + i = j + 1
          BY <3>1
        <4> QED BY <1>3, <3>1, <4>1
      <3>2. CASE i # m + 1
        <4>1. i \in 1..m /\ j + 1 - (m + 1) + i = j - m + i
          BY <3>2
        <4> QED BY <4>1 DEF Ends
      <3> QED BY <3>1, <3>2
    <2>2. ASSUME NEW l \in 1..D, l <= j + 1, Ends(s, j + 1, l) PROVE l = m + 1
      <3>1. s[j + 1] = Delimiter[l] /\ (l >= 2 => l - 1 = m)
        BY <1>2, <2>2
      <3>2. CASE l >= 2
        BY <1>1, <3>1, <3>2
      <3>3. CASE l = 1
        <4>1. Delimiter[m + 1] = "CR"
          BY <1>1, <1>3, <3>1, <3>3
        <4>2. m + 1 \in 1..D /\ m + 1 \notin 2..D
          BY <1>1, <4>1
        <4>3. m + 1 = 1
          BY <1>1, <4>2
        <4> QED BY <3>3, <4>3
      <3> QED BY <1>1, <3>2, <3>3
    <2> QED BY <2>1, <2>2 DEF Unique
  <1>4. ASSUME s[j + 1] # Delimiter[m + 1], NEW l \in 1..D, l <= j + 1, Ends(s, j + 1, l)
        PROVE  l = 1 /\ s[j + 1] = "CR"
    <2>1. s[j + 1] = Delimiter[l] /\ (l >= 2 => l - 1 = m)
      BY <1>2, <1>4
    <2>2. ~(l >= 2)
      <3> SUFFICES ASSUME l >= 2 PROVE FALSE
        OBVIOUS
      <3>1. l = m + 1
        BY <1>1, <2>1
      <3> QED BY <1>4, <2>1, <3>1
    <2>3. l = 1
      BY <1>1, <2>2
    <2> QED BY <1>1, <2>1, <2>3
  <1>5. ASSUME s[j + 1] # Delimiter[m + 1], s[j + 1] = "CR"
        PROVE  Ends(s, j + 1, 1) /\ Unique(s, j + 1, 1)
    <2>1. Ends(s, j + 1, 1)
      <3> SUFFICES ASSUME NEW i \in 1..1 PROVE s[j + 1 - 1 + i] = Delimiter[i]
        BY DEF Ends
      <3>1. i = 1 /\ j + 1 - 1 + i = j + 1
        OBVIOUS
      <3> QED BY <1>1, <1>5, <3>1
    <2>2. Unique(s, j + 1, 1)
      BY <1>4, <1>5 DEF Unique
    <2> QED BY <2>1, <2>2
  <1>6. ASSUME s[j + 1] # Delimiter[m + 1], s[j + 1] # "CR"
        PROVE  Ends(s, j + 1, 0) /\ Unique(s, j + 1, 0)
    <2>1. Ends(s, j + 1, 0)
      BY DEF Ends
    <2>2. Unique(s, j + 1, 0)
      BY <1>4, <1>6 DEF Unique
    <2> QED BY <2>1, <2>2
  <1> QED BY <1>3, <1>5, <1>6

(* The whole delimiter is nowhere but behind the value; there it is seen.  *)
LEMMA NotInside ==
  ASSUME request \in Requests, request.kind = "multipart", NEW k \in 1..N,
         NEW j \in D..Len(Scanned(k)), Ends(Scanned(k), j, D)
  PROVE  j = Len(Scanned(k))
  <1> DEFINE v == request.parts[k].value
             n == Len(v)
             s == Scanned(k)
  <1>1. /\ v \in Seq(Byte) /\ n \in Nat /\ Len(s) = n + D /\ D \in Nat /\ D >= 5
        /\ \A i \in 1..n : s[i] = v[i]
        /\ \A i \in 1..D : s[n + i] = Delimiter[i]
        /\ Delimiter \in Seq(Byte) /\ Len(Delimiter) = D
        /\ Delimiter[1] = "CR" /\ \A i \in 2..D : Delimiter[i] # "CR"
    <2>1. PartAt(k)
      BY PartIs
    <2>2. D \in Nat /\ D >= 5
      BY DelimiterIs
    <2>3. v \in Seq(Byte)
      BY FromIs DEF Part
    <2> QED BY <2>1, <2>2, <2>3, DelimiterIs DEF PartAt, D
  <1>2. \A i \in 1..D : s[j - D + i] = Delimiter[i]
    BY DEF Ends
  <1>3. \A i \in 1..(n - D + 1) : SubSeq(v, i, i + D - 1) # Delimiter
    <2>1. k \in DOMAIN request.parts
      <3>1. request.parts \in Seq(Part)
        BY RequestIs DEF WellFormed, Part
      <3> QED BY <3>1 DEF N
    <2>2. \A i \in DOMAIN request.parts :
            \A o \in 1..(Len(request.parts[i].value) - Len(Delimiter) + 1) :
              SubSeq(request.parts[i].value, o, o + Len(Delimiter) - 1) # Delimiter
      BY RequestIs DEF WellFormed
    <2> QED BY <2>1, <2>2 DEF D
  <1> HIDE DEF s, v, n
  <1>4. ~(j <= n)
    <2> SUFFICES ASSUME j <= n PROVE FALSE
      OBVIOUS
    <2> DEFINE o == j - D
               c == SubSeq(v, o + 1, j)
    <2>1. o \in Nat /\ j \in Nat /\ o <= j /\ j <= Len(v) /\ j - o = D
      BY <1>1 DEF n
    <2> HIDE DEF o
    <2>2. c \in Seq(Byte) /\ Len(c) = j - o /\ \A i \in 1..(j - o) : c[i] = v[o + i]
      BY <1>1, <2>1, Slice
    <2>3. \A i \in 1..D : c[i] = Delimiter[i]
      <3> TAKE i \in 1..D
      <3>1. o + i \in 1..n /\ j - D + i = o + i
        BY <1>1, <2>1
      <3> HIDE DEF c
      <3> QED BY <1>1, <1>2, <2>1, <2>2, <3>1
    <2> HIDE DEF c
    <2>4. c = Delimiter
      BY <1>1, <2>1, <2>2, <2>3, SeqEqual
    <2>5. o + 1 \in 1..(n - D + 1) /\ o + 1 + D - 1 = j
      BY <1>1, <2>1
    <2> QED BY <1>3, <2>4, <2>5 DEF c
  <1>5. ~(j < n + D)
    <2> SUFFICES ASSUME j < n + D PROVE FALSE
      OBVIOUS
    <2> DEFINE i == n + 1 - j + D
    <2>1. i \in 2..D /\ i \in 1..D /\ j - D + i = n + 1 /\ 1 \in 1..D
      BY <1>1, <1>4
    <2> HIDE DEF i
    <2>2. s[n + 1] = Delimiter[i]
      BY <1>2, <2>1
    <2>3. s[n + 1] = "CR"
      BY <1>1, <2>1
    <2> QED BY <1>1, <2>1, <2>2, <2>3
  <1>6. j \in Nat /\ j <= n + D
    BY <1>1 DEF s
  <1>7. j = n + D
    BY <1>1, <1>5, <1>6
  <1> QED BY <1>1, <1>7 DEF s

(* The delimiter that ends a value is not found before the end, as the     *)
(* value has none.                                                         *)
LEMMA Inside ==
  ASSUME request \in Requests, request.kind = "multipart", NEW k \in 1..N,
         NEW j \in Nat, j < Len(Scanned(k)), NEW m \in 0..(D - 1), m <= j,
         Unique(Scanned(k), j, m),
         Scanned(k)[j + 1] # Delimiter[m + 1] \/ m # D - 1
  PROVE  j + 1 < Len(Scanned(k))
  <1> DEFINE n == Len(request.parts[k].value)
             s == Scanned(k)
  <1>1. /\ n \in Nat /\ Len(s) = n + D /\ D \in Nat /\ D >= 5
        /\ \A i \in 1..D : s[n + i] = Delimiter[i]
    <2>1. PartAt(k)
      BY PartIs
    <2>2. D \in Nat /\ D >= 5
      BY DelimiterIs
    <2> QED BY <2>1, <2>2 DEF PartAt
  <1> HIDE DEF s, n
  <1> SUFFICES ASSUME j + 1 = n + D PROVE FALSE
    BY <1>1 DEF s
  <1>2. D - 1 \in 1..D /\ D - 1 <= j /\ D \in 1..D
    BY <1>1
  <1>3. Ends(s, j, D - 1)
    <2> SUFFICES ASSUME NEW i \in 1..(D - 1) PROVE s[j - (D - 1) + i] = Delimiter[i]
      BY DEF Ends
    <2>1. i \in 1..D /\ j - (D - 1) + i = n + i
      BY <1>1
    <2> QED BY <1>1, <2>1
  <1>4. D - 1 = m
    BY <1>2, <1>3 DEF Unique, s
  <1>5. s[j + 1] = Delimiter[m + 1]
    <2>1. m + 1 = D
      BY <1>1, <1>4
    <2>2. s[n + D] = Delimiter[D]
      BY <1>1, <1>2
    <2> QED BY <2>1, <2>2
  <1> QED BY <1>4, <1>5 DEF s

(* What the automaton does with a byte of the value.                       *)
Scans(x, y, d, last) ==
  IF d = Delimiter[Matched(x) + 1]
  THEN IF Matched(x) = D - 1 THEN y = EndOfPart(x)
       ELSE /\ Same(x, y, {"multi", "boundaryPosition"})
            /\ y.multi \in Scanning /\ Matched(y) = Matched(x) + 1
            /\ y.multi = "DATA" => y.boundaryPosition \in Nat
  ELSE \E s : /\ Len(s) = Matched(x) /\ \A i \in 1..Matched(x) : s[i] = Delimiter[i]
              /\ y = WaitForReturn(ItemWrite(x, s, last), d, last)

(* A byte in a value is the next of the delimiter, or the bytes taken for  *)
(* it are written and it is looked at anew.                                *)
LEMMA ScanDoes ==
  ASSUME NEW x, DOMAIN x = Members, x.multi \in Scanning,
         x.multi = "DATA" => x.boundaryPosition \in Nat,
         Matched(x) \in 0..(D - 1), NEW d, NEW last
  PROVE  Scans(x, ParseMultipartPostByte(x, d, last), d, last)
  <1> DEFINE y == ParseMultipartPostByte(x, d, last)
             Back(s) == WaitForReturn(ItemWrite(x, s, last), d, last)
  <1>1. /\ L \in Nat /\ L > 0 /\ D = L + 4
        /\ Delimiter[1] = "CR" /\ Delimiter[2] = "LF"
        /\ Delimiter[3] = "-" /\ Delimiter[4] = "-"
        /\ \A i \in 1..L : Delimiter[4 + i] = Boundary[i]
        /\ Delimiter \in Seq(Byte)
    BY DelimiterIs
  <1>2. \A s : NotBoundary(x, s, d, last) = Back(s)
    BY DEF NotBoundary
  <1> HIDE DEF Back
  <1>3. CASE x.multi = "RETURN1"
    <2>1. Matched(x) = 0 /\ Matched(x) # D - 1 /\ Matched(x) + 1 = 1
      <3>1. Matched(x) = 0
        BY <1>3 DEF Matched
      <3> QED BY <1>1, <3>1
    <2>2. y = WaitForReturn(x, d, last)
      BY <1>3 DEF ParseMultipartPostByte
    <2> HIDE DEF y
    <2>3. CASE d = "CR"
      <3>1. y = [x EXCEPT !.multi = "FEED1"]
        BY <2>2, <2>3 DEF WaitForReturn
      <3>2. Same(x, y, {"multi", "boundaryPosition"}) /\ y.multi = "FEED1"
        BY <3>1, FieldsAre DEF Same
      <3>3. y.multi \in Scanning /\ Matched(y) = 1 /\ y.multi # "DATA"
        BY <3>2 DEF Scanning, Matched
      <3> QED BY <1>1, <2>1, <2>3, <3>2, <3>3 DEF Scans, y
    <2>4. CASE d # "CR"
      <3>1. ItemWrite(x, <<>>, last) = x
        <4>1. Len(<<>>) = 0 /\ 0 \in Nat
          OBVIOUS
        <4>2. WriteSteps(x, <<>>, last)
          BY <4>1, WriteLoop
        <4> QED BY <4>1, <4>2 DEF WriteSteps
      <3>2. y = WaitForReturn(ItemWrite(x, <<>>, last), d, last)
        BY <2>2, <3>1
      <3>3. Len(<<>>) = Matched(x) /\ \A i \in 1..Matched(x) : <<>>[i] = Delimiter[i]
        BY <2>1
      <3>4. d # Delimiter[Matched(x) + 1]
        BY <1>1, <2>1, <2>4
      <3> QED BY <3>2, <3>3, <3>4 DEF Scans, y
    <2> QED BY <2>3, <2>4
  <1>4. CASE x.multi = "FEED1"
    <2>1. Matched(x) = 1 /\ Matched(x) # D - 1 /\ Matched(x) + 1 = 2
      <3>1. Matched(x) = 1
        BY <1>4 DEF Matched
      <3> QED BY <1>1, <3>1
    <2>2. y = IF d = "LF" THEN [x EXCEPT !.multi = "DASH1"]
              ELSE NotBoundary(x, <<"CR">>, d, last)
      BY <1>4 DEF ParseMultipartPostByte
    <2> HIDE DEF y
    <2>3. CASE d = "LF"
      <3>1. Same(x, y, {"multi", "boundaryPosition"}) /\ y.multi = "DASH1"
        BY <2>2, <2>3, FieldsAre DEF Same
      <3>2. y.multi \in Scanning /\ Matched(y) = 2 /\ y.multi # "DATA"
        BY <3>1 DEF Scanning, Matched
      <3> QED BY <1>1, <2>1, <2>3, <3>1, <3>2 DEF Scans, y
    <2>4. CASE d # "LF"
      <3>1. y = Back(<<"CR">>)
        BY <1>2, <2>2, <2>4
      <3>2. Len(<<"CR">>) = Matched(x) /\ \A i \in 1..Matched(x) : <<"CR">>[i] = Delimiter[i]
        BY <1>1, <2>1
      <3>3. d # Delimiter[Matched(x) + 1]
        BY <1>1, <2>1, <2>4
      <3> QED BY <3>1, <3>2, <3>3 DEF Scans, y, Back
    <2> QED BY <2>3, <2>4
  <1>5. CASE x.multi = "DASH1"
    <2>1. Matched(x) = 2 /\ Matched(x) # D - 1 /\ Matched(x) + 1 = 3
      <3>1. Matched(x) = 2
        BY <1>5 DEF Matched
      <3> QED BY <1>1, <3>1
    <2>2. y = IF d = "-" THEN [x EXCEPT !.multi = "DASH2"]
              ELSE NotBoundary(x, <<"CR", "LF">>, d, last)
      BY <1>5 DEF ParseMultipartPostByte
    <2> HIDE DEF y
    <2>3. CASE d = "-"
      <3>1. Same(x, y, {"multi", "boundaryPosition"}) /\ y.multi = "DASH2"
        BY <2>2, <2>3, FieldsAre DEF Same
      <3>2. y.multi \in Scanning /\ Matched(y) = 3 /\ y.multi # "DATA"
        BY <3>1 DEF Scanning, Matched
      <3> QED BY <1>1, <2>1, <2>3, <3>1, <3>2 DEF Scans, y
    <2>4. CASE d # "-"
      <3> DEFINE s == <<"CR", "LF">>
      <3>1. y = Back(s)
        BY <1>2, <2>2, <2>4
      <3>2. Len(s) = 2 /\ s[1] = "CR" /\ s[2] = "LF"
        OBVIOUS
      <3> HIDE DEF s
      <3>3. Len(s) = Matched(x) /\ \A i \in 1..Matched(x) : s[i] = Delimiter[i]
        <4>1. \A i \in 1..2 : i = 1 \/ i = 2
          OBVIOUS
        <4> QED BY <1>1, <2>1, <3>2, <4>1
      <3>4. d # Delimiter[Matched(x) + 1]
        BY <1>1, <2>1, <2>4
      <3> QED BY <3>1, <3>3, <3>4 DEF Scans, y, Back
    <2> QED BY <2>3, <2>4
  <1>6. CASE x.multi = "DASH2"
    <2>1. Matched(x) = 3 /\ Matched(x) # D - 1 /\ Matched(x) + 1 = 4
      <3>1. Matched(x) = 3
        BY <1>6 DEF Matched
      <3> QED BY <1>1, <3>1
    <2>2. y = IF d = "-" THEN [x EXCEPT !.multi = "DATA", !.boundaryPosition = 0]
              ELSE NotBoundary(x, <<"CR", "LF", "-">>, d, last)
      BY <1>6 DEF ParseMultipartPostByte
    <2> HIDE DEF y
    <2>3. CASE d = "-"
      <3>1. /\ Same(x, y, {"multi", "boundaryPosition"})
            /\ y.multi = "DATA" /\ y.boundaryPosition = 0
        BY <2>2, <2>3, FieldsAre DEF Same
      <3>2. y.multi \in Scanning /\ Matched(y) = 4 /\ y.boundaryPosition \in Nat
        <4>1. Matched(y) = 4 + y.boundaryPosition
          BY <3>1 DEF Matched
        <4> QED BY <3>1, <4>1 DEF Scanning
      <3> QED BY <1>1, <2>1, <2>3, <3>1, <3>2 DEF Scans, y
    <2>4. CASE d # "-"
      <3> DEFINE s == <<"CR", "LF", "-">>
      <3>1. y = Back(s)
        BY <1>2, <2>2, <2>4
      <3>2. Len(s) = 3 /\ s[1] = "CR" /\ s[2] = "LF" /\ s[3] = "-"
        OBVIOUS
      <3> HIDE DEF s
      <3>3. Len(s) = Matched(x) /\ \A i \in 1..Matched(x) : s[i] = Delimiter[i]
        <4>1. \A i \in 1..3 : i = 1 \/ i = 2 \/ i = 3
          OBVIOUS
        <4> QED BY <1>1, <2>1, <3>2, <4>1
      <3>4. d # Delimiter[Matched(x) + 1]
        BY <1>1, <2>1, <2>4
      <3> QED BY <3>1, <3>3, <3>4 DEF Scans, y, Back
    <2> QED BY <2>3, <2>4
  <1>7. CASE x.multi = "DATA"
    <2> DEFINE p == x.boundaryPosition
    <2>1. p \in 0..(L - 1) /\ Matched(x) = p + 4
      <3>1. p \in Nat
        BY <1>7
      <3>2. Matched(x) = 4 + p
        BY <1>7 DEF Matched
      <3> HIDE DEF p
      <3> QED BY <1>1, <3>1, <3>2
    <2>2. y = BoundaryOrData(x, d, last)
      BY <1>7 DEF ParseMultipartPostByte
    <2>3. y = IF Boundary[p + 1] # d
              THEN NotBoundary(x, SubSeq(Delimiter, 1, p + 4), d, last)
              ELSE IF p = L - 1 THEN EndOfPart(x)
              ELSE [x EXCEPT !.boundaryPosition = @ + 1]
      BY <2>2 DEF BoundaryOrData, L
    <2> HIDE DEF y
    <2>4. Delimiter[Matched(x) + 1] = Boundary[p + 1]
      <3> HIDE DEF p
      <3>1. p + 1 \in 1..L /\ Matched(x) + 1 = 4 + (p + 1)
        BY <1>1, <2>1
      <3> QED BY <1>1, <3>1
    <2>5. CASE d # Boundary[p + 1]
      <3> DEFINE s == SubSeq(Delimiter, 1, p + 4)
      <3>1. y = Back(s)
        BY <1>2, <2>3, <2>5
      <3>2. Len(s) = Matched(x) /\ \A i \in 1..Matched(x) : s[i] = Delimiter[i]
        <4> DEFINE o == p + 4
                   c == SubSeq(Delimiter, 0 + 1, o)
        <4> HIDE DEF p
        <4>1. 0 \in Nat /\ o \in Nat /\ 0 <= o /\ o <= Len(Delimiter) /\ o - 0 = o
          BY <1>1, <2>1 DEF D
        <4> HIDE DEF o
        <4>2. Len(c) = o - 0 /\ \A i \in 1..(o - 0) : c[i] = Delimiter[0 + i]
          BY <1>1, <4>1, Slice
        <4>3. Len(c) = o /\ \A i \in 1..o : c[i] = Delimiter[i]
          <5>1. \A i \in 1..o : 0 + i = i
            BY <4>1
          <5> HIDE DEF c
          <5> QED BY <4>1, <4>2, <5>1
        <4>4. c = s
          BY DEF o
        <4>5. Matched(x) = o
          BY <2>1 DEF o
        <4> HIDE DEF s, c
        <4> QED BY <4>3, <4>4, <4>5
      <3> HIDE DEF s
      <3>3. d # Delimiter[Matched(x) + 1]
        BY <2>4, <2>5
      <3> QED BY <3>1, <3>2, <3>3 DEF Scans, y, Back
    <2>6. CASE d = Boundary[p + 1] /\ p = L - 1
      <3>1. y = EndOfPart(x)
        BY <2>3, <2>6
      <3>2. Matched(x) = D - 1
        <4> HIDE DEF p
        <4> QED BY <1>1, <2>1, <2>6
      <3> QED BY <2>4, <2>6, <3>1, <3>2 DEF Scans, y
    <2>7. CASE d = Boundary[p + 1] /\ p # L - 1
      <3>1. y = [x EXCEPT !.boundaryPosition = @ + 1]
        BY <2>3, <2>7
      <3>2. /\ Same(x, y, {"multi", "boundaryPosition"})
            /\ y.multi = "DATA" /\ y.boundaryPosition = p + 1
        BY <1>7, <3>1, FieldsAre DEF Same
      <3>3. y.multi \in Scanning /\ Matched(y) = Matched(x) + 1
            /\ y.boundaryPosition \in Nat /\ Matched(x) # D - 1
        <4>1. Matched(y) = 4 + y.boundaryPosition
          BY <3>2 DEF Matched
        <4>2. y.multi \in Scanning
          BY <3>2 DEF Scanning
        <4> HIDE DEF p
        <4> QED BY <1>1, <2>1, <2>7, <3>2, <4>1, <4>2
      <3> QED BY <2>4, <2>7, <3>2, <3>3 DEF Scans, y
    <2> QED BY <2>5, <2>6, <2>7
  <1> QED BY <1>3, <1>4, <1>5, <1>6, <1>7 DEF Scanning

(* The part is complete.                                                   *)
LEMMA EndOfPartDoes ==
  ASSUME NEW x, DOMAIN x = Members, NEW f \in Seq(Byte), NEW w \in Seq(Byte),
         Written(x, f, w)
  PROVE  /\ Same(x, EndOfPart(x), {"multi", "params", "upload", "buffer", "torn"})
         /\ EndOfPart(x).multi = "RETURN2"
         /\ ~EndOfPart(x).torn /\ EndOfPart(x).buffer = <<>>
         /\ EndOfPart(x).upload = IF x.isFile THEN f \o w ELSE f
         /\ EndOfPart(x).params = WithPart(x, w)
  <1> DEFINE y == [x EXCEPT !.multi = "RETURN2"]
             e == EndOfPart(x)
             S == {"multi", "params", "upload", "buffer", "torn"}
  <1>1. /\ x.size = Len(w) /\ ~x.torn /\ x.upload \in Seq(Byte) /\ x.buffer \in Seq(Byte)
        /\ Len(x.buffer) <= x.size
        /\ IF x.isFile THEN x.from = Len(f) /\ x.upload \o x.buffer = f \o w
           ELSE x.upload = f /\ x.buffer = <<>> /\ x.value = w
    BY DEF Written
  <1>2. Same(x, y, {"multi"}) /\ y.multi = "RETURN2"
    BY FieldsAre DEF Same
  <1>3. e = IF ~y.isFile THEN AddParam(y, y.name, y.value, TRUE, FALSE, 0)
            ELSE IF y.size > 0
                 THEN AddParam(HandleUpload(y), y.name, <<>>, TRUE, TRUE, y.size)
                 ELSE y
    BY DEF EndOfPart
  <1> HIDE DEF y, e
  <1>4. /\ DOMAIN y = Members /\ y.isFile = x.isFile /\ y.size = x.size /\ ~y.torn
        /\ y.upload = x.upload /\ y.buffer = x.buffer /\ y.from = x.from
        /\ y.name = x.name /\ y.value = x.value /\ y.params = x.params
    BY <1>1, <1>2, FieldsAre DEF Same
  <1>5. Len(w) \in Nat /\ Len(x.buffer) \in Nat
    BY <1>1, LenProperties
  <1>6. CASE ~x.isFile
    <2>1. e = AddParam(y, y.name, y.value, TRUE, FALSE, 0)
      BY <1>3, <1>4, <1>6
    <2>2. Same(y, e, {"params"})
          /\ e.params = Append(y.params, Param(y.name, y.value, TRUE, FALSE, 0))
      <3> DEFINE a == AddParam(y, y.name, y.value, TRUE, FALSE, 0)
      <3>1. /\ Same(y, a, {"params"})
            /\ a.params = Append(y.params, Param(y.name, y.value, TRUE, FALSE, 0))
        BY <1>4, FieldsAre DEF AddParam, Same
      <3> QED BY <2>1, <3>1
    <2>3. /\ Same(x, e, S) /\ e.multi = "RETURN2" /\ ~e.torn
          /\ e.upload = x.upload /\ e.buffer = x.buffer
      BY <1>2, <1>4, <2>2, FieldsAre DEF Same
    <2>4. e.params = WithPart(x, w)
      BY <1>1, <1>4, <1>6, <2>2 DEF WithPart
    <2> QED BY <1>1, <1>6, <2>3, <2>4 DEF e
  <1>7. CASE x.isFile /\ x.size > 0
    <2> DEFINE h == HandleUpload(y)
    <2>1. e = AddParam(h, y.name, <<>>, TRUE, TRUE, y.size)
      BY <1>3, <1>4, <1>7
    <2>2. Uploaded(y, h, f \o w)
      BY <1>1, <1>4, <1>7, UploadDoes
    <2> HIDE DEF h
    <2>3. DOMAIN h = Members
      BY <2>2 DEF Uploaded, Same
    <2>4. Same(h, e, {"params"})
          /\ e.params = Append(h.params, Param(y.name, <<>>, TRUE, TRUE, y.size))
      <3> DEFINE a == AddParam(h, y.name, <<>>, TRUE, TRUE, y.size)
      <3>1. /\ Same(h, a, {"params"})
            /\ a.params = Append(h.params, Param(y.name, <<>>, TRUE, TRUE, y.size))
        BY <2>3, FieldsAre DEF AddParam, Same
      <3> QED BY <2>1, <3>1
    <2>5. /\ Same(x, e, S) /\ e.multi = "RETURN2" /\ ~e.torn
          /\ e.upload = f \o w /\ e.buffer = <<>>
      BY <1>2, <2>2, <2>4, FieldsAre DEF Same, Uploaded
    <2>6. e.params = WithPart(x, w)
      <3>1. h.params = x.params
        BY <1>4, <2>2, FieldsAre DEF Same, Uploaded
      <3>2. w # <<>>
        <4>1. Len(<<>>) = 0
          OBVIOUS
        <4> QED BY <1>1, <1>7, <4>1
      <3> QED BY <1>1, <1>4, <1>7, <2>4, <3>1, <3>2 DEF WithPart
    <2> QED BY <1>7, <2>5, <2>6 DEF e
  <1>8. CASE x.isFile /\ ~(x.size > 0)
    <2>1. e = y
      BY <1>3, <1>4, <1>8
    <2>2. x.buffer = <<>>
      <3>1. Len(x.buffer) = 0
        BY <1>1, <1>5, <1>8
      <3> QED BY <1>1, <3>1, EmptySeq
    <2>3. x.upload = f \o w
      BY <1>1, <1>8, <2>2, ConcatEmptySeq
    <2>4. Same(x, e, S)
      BY <1>2, <2>1 DEF Same
    <2>5. e.params = WithPart(x, w)
      <3>1. w = <<>>
        BY <1>1, <1>5, <1>8, EmptySeq
      <3> QED BY <1>4, <1>8, <2>1, <3>1 DEF WithPart
    <2> QED BY <1>2, <1>4, <1>8, <2>1, <2>2, <2>3, <2>4, <2>5 DEF e
  <1> QED BY <1>6, <1>7, <1>8

(* What a byte of a multipart body may change.                             *)
PartFields == {"multi", "boundaryPosition", "size", "buffer", "upload", "torn", "value",
               "params", "temp", "name", "isFile", "from", "part"}

PartByteRead(x, y, c) == Same(x, y, PartFields) /\ InMultipart(y, c)

(* A byte of a value, or of the delimiter behind it, wherever the packet   *)
(* ends.                                                                   *)
LEMMA ValueByte ==
  ASSUME request \in Requests, request.kind = "multipart", NEW k \in 1..N,
         NEW x, DOMAIN x = Members, NEW b, InValue(x, b, k), x.temp = <<>>,
         NEW last \in BOOLEAN, NEW c \in Nat, b \in Nat, c = b + 1
  PROVE  PartByteRead(x, ParseMultipartPostByte(x, B[c], last), c)
  <1> DEFINE s == Scanned(k)
             v == request.parts[k].value
             n == Len(v)
             j == b - ValueStart(k)
             m == Matched(x)
             f == Files(k - 1)
             d == B[c]
             y == ParseMultipartPostByte(x, d, last)
             V == ValueStart(k)
  <1>1. /\ V \in Nat /\ s \in Seq(Byte) /\ n \in Nat /\ Len(s) = n + D /\ D \in Nat /\ D >= 5
        /\ \A i \in 1..n : s[i] = v[i]
        /\ \A i \in 1..(n + D) : B[V + i] = s[i]
        /\ PartStart(k + 1) = V + n + 2
        /\ v \in Seq(Byte)
    <2>1. PartAt(k)
      BY PartIs
    <2>2. L \in Nat /\ D \in Nat /\ D >= 5
      BY DelimiterIs
    <2>3. v \in Seq(Byte)
      BY FromIs DEF Part
    <2>4. V \in Nat
      <3>1. PartStart(k) \in Nat /\ PartHead(k) = PartStart(k) + L + 4
            /\ V = PartHead(k) + (IF request.parts[k].file THEN 9 ELSE 5)
        BY <2>1 DEF PartAt
      <3> QED BY <2>2, <3>1
    <2> QED BY <2>1, <2>2, <2>3, <2>4 DEF PartAt
  <1>2. f \in Seq(Byte)
    <2>1. N \in Nat /\ k - 1 \in 0..N
      BY FromIs
    <2> QED BY <2>1, FilesAre
  <1>3. /\ x.multi \in Scanning /\ x.isFile = request.parts[k].file
        /\ x.multi = "DATA" => x.boundaryPosition \in Nat
        /\ b \in V..(V + Len(s) - 1)
        /\ m \in 0..(D - 1) /\ m <= j /\ Ends(s, j, m) /\ Unique(s, j, m)
        /\ Written(x, f, SubSeq(s, 1, j - m))
        /\ x.name = <<request.parts[k].name>> /\ Known(x, k - 1)
        /\ x.part = k /\ k <= Read
    BY DEF InValue, Scanned, D, Unique
  <1> HIDE DEF s, n, m, f, y, V
  <1>4. /\ j \in Nat /\ j < Len(s) /\ c = V + (j + 1) /\ j - m \in Nat
        /\ j - m <= Len(s) /\ m \in Nat
    <2>1. j = b - V
      BY DEF V
    <2>2. /\ V \in Nat /\ n \in Nat /\ D \in Nat /\ Len(s) = n + D
          /\ b \in V..(V + Len(s) - 1) /\ m \in 0..(D - 1) /\ m <= j
      BY <1>1, <1>3
    <2> HIDE DEF j
    <2>3. j \in Nat /\ j < Len(s) /\ c = V + (j + 1)
      BY <2>1, <2>2
    <2> QED BY <2>2, <2>3
  <1> HIDE DEF j
  <1>5. PICK o \in Nat : o = j + 1
    BY <1>4
  <1>6. /\ j \in Nat /\ j < Len(s) /\ o \in 1..(n + D) /\ c = V + o /\ o = j + 1
        /\ j - m \in Nat /\ j - m <= Len(s) /\ m \in Nat /\ o \in Nat /\ o - 1 = j
    BY <1>1, <1>4, <1>5
  <1> HIDE DEF d
  <1>7. d = s[o] /\ d \in Byte
    <2>1. d = s[o]
      BY <1>1, <1>6 DEF d
    <2>2. o \in 1..Len(s)
      BY <1>1, <1>6
    <2> QED BY <1>1, <2>1, <2>2, ElementOfSeq
  <1>8. Scans(x, y, d, last)
    BY <1>3, ScanDoes DEF m, y
  <1>9. SubSeq(s, 1, j - m) \in Seq(Byte)
    <2> PICK e : e = j - m
      OBVIOUS
    <2>1. 0 \in Nat /\ e \in Nat /\ 0 <= e /\ e <= Len(s) /\ 0 + 1 = 1
      BY <1>6
    <2>2. SubSeq(s, 0 + 1, e) \in Seq(Byte)
      BY <1>1, <2>1, Slice
    <2> QED BY <2>1, <2>2
  <1>10. /\ d = Delimiter[m + 1] => Ends(s, o, m + 1) /\ Unique(s, o, m + 1)
         /\ d # Delimiter[m + 1] /\ d = "CR" => Ends(s, o, 1) /\ Unique(s, o, 1)
         /\ d # Delimiter[m + 1] /\ d # "CR" => Ends(s, o, 0) /\ Unique(s, o, 0)
    BY <1>3, <1>6, <1>7, EndsNext
  <1>11. d # Delimiter[m + 1] \/ m # D - 1 => o < Len(s)
    BY <1>3, <1>6, <1>7, Inside DEF s
  <1>12. ASSUME NEW z, NEW l, Same(x, z, PartFields), z.isFile = x.isFile, z.temp = x.temp,
                z.name = x.name, z.params = x.params, z.part = x.part,
                z.multi \in Scanning, z.multi = "DATA" => z.boundaryPosition \in Nat,
                Matched(z) = l, l \in 0..(D - 1), l <= o, o < Len(s),
                Ends(s, o, l), Unique(s, o, l),
                Written(z, f, SubSeq(s, 1, o - l))
         PROVE  PartByteRead(x, z, c)
    <2>1. InValue(z, c, k)
      <3>1. c - V = o /\ c \in V..(V + Len(s) - 1)
        <4>1. /\ V \in Nat /\ Len(s) \in Nat /\ c = V + o /\ o \in Nat
              /\ o < Len(s)
          BY <1>1, <1>6, <1>12
        <4> QED BY <4>1
      <3>2. z.multi \in Scanning /\ z.isFile = request.parts[k].file
        BY <1>3, <1>12
      <3>3. /\ l \in 0..(D - 1) /\ l <= o /\ Ends(s, o, l) /\ Unique(s, o, l)
            /\ Written(z, f, SubSeq(s, 1, o - l)) /\ Matched(z) = l
        BY <1>12
      <3>4. \A i \in 1..D : i <= o /\ Ends(s, o, i) => i = l
        BY <3>3 DEF Unique
      <3>5. /\ z.name = <<request.parts[k].name>> /\ Known(z, k - 1)
            /\ z.part = k /\ k <= Read
        BY <1>3, <1>12 DEF Known
      <3> QED BY <1>12, <3>1, <3>2, <3>3, <3>4, <3>5 DEF InValue, s, f, D, V, Scanned
    <2>2. ~z.torn
      BY <1>12 DEF Written
    <2>3. k \in 1..Len(request.parts)
      BY DEF N
    <2>4. InMultipart(z, c)
      BY <1>12, <2>1, <2>2, <2>3 DEF InMultipart
    <2> QED BY <1>12, <2>4 DEF PartByteRead
  <1>13. CASE d = Delimiter[m + 1] /\ m # D - 1
    <2>1. /\ Same(x, y, {"multi", "boundaryPosition"})
          /\ y.multi \in Scanning /\ Matched(y) = m + 1
          /\ y.multi = "DATA" => y.boundaryPosition \in Nat
      BY <1>8, <1>13 DEF Scans, m
    <2>2. /\ Same(x, y, PartFields) /\ y.isFile = x.isFile /\ y.temp = x.temp
          /\ y.name = x.name /\ y.params = x.params /\ y.part = x.part
          /\ Written(y, f, SubSeq(s, 1, j - m))
      <3> DEFINE pre == SubSeq(s, 1, j - m)
      <3> HIDE DEF pre
      <3>1. /\ y.isFile = x.isFile /\ y.temp = x.temp /\ y.size = x.size
            /\ y.torn = x.torn /\ y.upload = x.upload /\ y.buffer = x.buffer
            /\ y.from = x.from /\ y.value = x.value
            /\ y.name = x.name /\ y.params = x.params /\ y.part = x.part
        BY <2>1, FieldsAre DEF Same
      <3>2. Same(x, y, PartFields)
        BY <2>1, FieldsAre DEF Same, PartFields
      <3>3. Written(x, f, pre)
        BY <1>3 DEF pre
      <3>4. Written(y, f, pre)
        BY <3>1, <3>3 DEF Written
      <3> QED BY <3>1, <3>2, <3>4 DEF pre
    <2>3. PICK l \in Nat : l = m + 1
      BY <1>6
    <2>4. l \in 0..(D - 1) /\ l <= o /\ o - l = j - m
      BY <1>1, <1>3, <1>6, <1>13, <2>3
    <2>5. Written(y, f, SubSeq(s, 1, o - l)) /\ Matched(y) = l
      BY <2>1, <2>2, <2>3, <2>4
    <2>6. Ends(s, o, l) /\ Unique(s, o, l)
      BY <1>10, <1>13, <2>3
    <2>7. o < Len(s)
      BY <1>11, <1>13
    <2> QED BY <1>12, <2>1, <2>2, <2>4, <2>5, <2>6, <2>7 DEF y, d
  <1>14. CASE d = Delimiter[m + 1] /\ m = D - 1
    <2>1. y = EndOfPart(x)
      BY <1>8, <1>14 DEF Scans, m
    <2>2. o = Len(s)
      <3>1. m + 1 = D
        BY <1>1, <1>14
      <3>2. Ends(s, o, D) /\ o \in D..Len(s)
        BY <1>1, <1>3, <1>6, <1>10, <1>14, <3>1
      <3> QED BY <3>2, NotInside DEF s
    <2>3. SubSeq(s, 1, j - m) = v
      <3>1. j - m = n
        <4>1. n \in Nat /\ D \in Nat /\ Len(s) = n + D /\ m \in Nat
          BY <1>1, <1>6
        <4>2. o = n + D /\ m = D - 1 /\ o = j + 1 /\ j \in Nat
          BY <1>6, <1>14, <2>2, <4>1
        <4> QED BY <4>1, <4>2
      <3>2. 0 \in Nat /\ n \in Nat /\ 0 <= n /\ n <= Len(s) /\ 0 + 1 = 1 /\ n - 0 = n
            /\ \A i \in 1..n : 0 + i = i
        BY <1>1
      <3> DEFINE e == SubSeq(s, 0 + 1, n)
      <3>3. e \in Seq(Byte) /\ Len(e) = n - 0 /\ \A i \in 1..(n - 0) : e[i] = s[0 + i]
        BY <1>1, <3>2, Slice
      <3> HIDE DEF e
      <3>4. \A i \in 1..n : e[i] = v[i]
        BY <1>1, <3>2, <3>3
      <3>5. e = v
        <4>1. Len(e) = n /\ Len(v) = n
          BY <3>2, <3>3 DEF n
        <4> QED BY <1>1, <3>3, <3>4, <4>1, SeqEqual
      <3> QED BY <3>1, <3>2, <3>5 DEF e
    <2>4. /\ Same(x, y, {"multi", "params", "upload", "buffer", "torn"})
          /\ y.multi = "RETURN2" /\ ~y.torn /\ y.buffer = <<>>
          /\ y.upload = IF x.isFile THEN f \o v ELSE f
          /\ y.params = WithPart(x, v)
      <3>1. Written(x, f, v)
        BY <1>3, <2>3
      <3> QED BY <1>1, <1>2, <2>1, <3>1, EndOfPartDoes
    <2>5. y.upload = Files(k)
      BY <1>3, <2>4, FilesAre DEF f
    <2>6. y.temp = <<>> /\ y.part = k /\ Same(x, y, PartFields)
      BY <1>3, <2>4, FieldsAre DEF Same, PartFields
    <2>7. c - PartStart(k + 1) - Len(Boundary) - 2 = 0
      <3>1. D = Len(Boundary) + 4 /\ Len(Boundary) \in Nat
        BY DelimiterIs DEF L
      <3>2. /\ V \in Nat /\ n \in Nat /\ PartStart(k + 1) = V + n + 2
            /\ c = V + (n + D)
        BY <1>1, <1>6, <2>2
      <3> PICK p : p = PartStart(k + 1)
        OBVIOUS
      <3>3. c - p - Len(Boundary) - 2 = 0
        BY <3>1, <3>2
      <3> QED BY <3>3
    <2>8. AfterPart(y, c, k)
      <3>1. Given(y, k) /\ y.multi = "RETURN2"
        <4>1. Known(y, k)
          <5>1. WithPart(x, v) = InQuery \o Params(k)
            BY <1>3, KnownNext
          <5> QED BY <2>4, <5>1 DEF Known, Params
        <4> QED BY <2>4, <2>5, <4>1 DEF Given
      <3> QED BY <1>3, <2>6, <2>7, <3>1 DEF AfterPart
    <2>9. k \in 1..Len(request.parts)
      BY DEF N
    <2>10. InMultipart(y, c)
      BY <2>4, <2>6, <2>8, <2>9 DEF InMultipart
    <2> QED BY <2>6, <2>10 DEF PartByteRead, y, d
  <1>15. CASE d # Delimiter[m + 1]
    <2>1. PICK w : /\ Len(w) = m /\ \A i \in 1..m : w[i] = Delimiter[i]
                   /\ y = WaitForReturn(ItemWrite(x, w, last), d, last)
      BY <1>8, <1>15 DEF Scans, m
    <2> DEFINE z == ItemWrite(x, w, last)
    <2>2. Wrote(x, z, f, SubSeq(s, 1, j))
      <3> PICK e : e = j - m
        OBVIOUS
      <3>1. e \in Nat /\ Len(w) \in Nat /\ e + Len(w) <= Len(s) /\ e + Len(w) = j
        BY <1>6, <2>1
      <3>2. \A i \in 1..Len(w) : w[i] = s[e + i]
        BY <1>3, <2>1 DEF Ends
      <3>3. Written(x, f, SubSeq(s, 1, e))
        BY <1>3
      <3>4. Wrote(x, z, f, SubSeq(s, 1, e + Len(w)))
        BY <1>1, <1>2, <3>1, <3>2, <3>3, WriteDoes
      <3> QED BY <3>1, <3>4
    <2> HIDE DEF z
    <2>3. /\ DOMAIN z = Members /\ Same(x, z, PartFields) /\ z.isFile = x.isFile
          /\ z.name = x.name /\ z.params = x.params /\ z.part = x.part
          /\ z.temp = x.temp /\ Written(z, f, SubSeq(s, 1, j))
      BY <2>2, FieldsAre DEF Wrote, Same, PartFields
    <2>4. y = IF d = "CR" THEN [z EXCEPT !.multi = "FEED1"]
              ELSE ItemWriteByte([z EXCEPT !.multi = "RETURN1"], d, last)
      BY <2>1 DEF WaitForReturn, z, y
    <2>5. CASE d = "CR"
      <3>1. Same(z, y, {"multi"}) /\ y.multi = "FEED1"
        BY <2>3, <2>4, <2>5, FieldsAre DEF Same
      <3>2. /\ Same(x, y, PartFields) /\ y.isFile = x.isFile /\ y.temp = x.temp
            /\ y.name = x.name /\ y.params = x.params /\ y.part = x.part
            /\ Written(y, f, SubSeq(s, 1, j))
        <4>1. /\ y.size = z.size /\ y.torn = z.torn /\ y.upload = z.upload
              /\ y.buffer = z.buffer /\ y.from = z.from /\ y.isFile = z.isFile
              /\ y.temp = z.temp /\ y.value = z.value
              /\ y.name = z.name /\ y.params = z.params /\ y.part = z.part
          BY <3>1, FieldsAre DEF Same
        <4>2. Same(x, y, PartFields)
          BY <2>3, <3>1 DEF Same, PartFields
        <4> DEFINE pre == SubSeq(s, 1, j)
        <4>3. Written(z, f, pre)
          BY <2>3
        <4> HIDE DEF pre
        <4>4. Written(y, f, pre)
          BY <4>1, <4>3 DEF Written
        <4> QED BY <2>3, <4>1, <4>2, <4>4 DEF pre
      <3>3. y.multi \in Scanning /\ Matched(y) = 1 /\ y.multi # "DATA"
        BY <3>1 DEF Scanning, Matched
      <3>4. 1 \in 0..(D - 1) /\ 1 <= o /\ o - 1 = j
        BY <1>1, <1>6
      <3>5. Written(y, f, SubSeq(s, 1, o - 1))
        BY <3>2, <3>4
      <3>6. Ends(s, o, 1) /\ Unique(s, o, 1) /\ o < Len(s)
        BY <1>10, <1>11, <1>15, <2>5
      <3>7. PartByteRead(x, y, c)
        BY <1>12, <3>2, <3>3, <3>4, <3>5, <3>6
      <3> QED BY <3>7 DEF y, d
    <2>6. CASE d # "CR"
      <3> DEFINE u == [z EXCEPT !.multi = "RETURN1"]
                 e == SubSeq(s, 1, j)
      <3>1. /\ Same(z, u, {"multi"}) /\ u.multi = "RETURN1" /\ y = ItemWriteByte(u, d, last)
        BY <2>3, <2>4, <2>6, FieldsAre DEF Same
      <3> HIDE DEF u
      <3>2. Written(u, f, e) /\ DOMAIN u = Members
        <4> HIDE DEF e
        <4>1. /\ u.size = z.size /\ u.torn = z.torn /\ u.upload = z.upload
              /\ u.buffer = z.buffer /\ u.from = z.from /\ u.isFile = z.isFile
              /\ u.value = z.value /\ DOMAIN u = Members
          BY <3>1, FieldsAre DEF Same
        <4>2. Written(z, f, e)
          BY <2>3 DEF e
        <4> QED BY <4>1, <4>2 DEF Written
      <3>3. e \in Seq(Byte) /\ SubSeq(s, 1, o) = Append(e, d)
        <4>1. 0 \in Nat /\ 0 <= j /\ j <= Len(s) /\ 0 + 1 = 1
          BY <1>6
        <4>2. SubSeq(s, 0 + 1, j) \in Seq(Byte)
          BY <1>1, <1>6, <4>1, Slice
        <4>3. e \in Seq(Byte)
          BY <4>1, <4>2
        <4>4. 1 \in 1..Len(s) /\ o \in 1..Len(s) /\ o - 1 = j
          BY <1>1, <1>6
        <4>5. SubSeq(s, 1, o) = SubSeq(s, 1, o - 1) \o <<s[o]>>
          BY <1>1, <4>4, SubSeqRecursiveSecond
        <4> HIDE DEF e
        <4>6. Append(e, d) = e \o <<d>>
          BY <1>7, <4>3, AppendIsConcat
        <4>7. SubSeq(s, 1, o) = Append(e, d)
          BY <1>7, <4>4, <4>5, <4>6 DEF e
        <4> QED BY <4>3, <4>7
      <3> HIDE DEF e
      <3>4. Wrote(u, y, f, Append(e, d))
        BY <1>2, <1>7, <3>1, <3>2, <3>3, WriteByteDoes
      <3>5. /\ Same(x, y, PartFields) /\ y.isFile = x.isFile /\ y.temp = x.temp
            /\ y.name = x.name /\ y.params = x.params /\ y.part = x.part
            /\ y.multi = "RETURN1" /\ Written(y, f, SubSeq(s, 1, o))
        <4>1. Written(y, f, SubSeq(s, 1, o))
          BY <3>3, <3>4 DEF Wrote
        <4>2. /\ Same(z, u, {"multi"}) /\ u.multi = "RETURN1" /\ Same(x, z, PartFields)
              /\ Same(u, y, {"size", "buffer", "upload", "torn", "value"})
          BY <2>3, <3>1, <3>4 DEF Wrote
        <4>3. /\ y.isFile = x.isFile /\ y.temp = x.temp /\ y.multi = "RETURN1"
              /\ y.name = x.name /\ y.params = x.params /\ y.part = x.part
          <5>1. /\ z.isFile = x.isFile /\ z.temp = x.temp
                /\ z.name = x.name /\ z.params = x.params /\ z.part = x.part
                /\ u.isFile = z.isFile /\ u.temp = z.temp
                /\ u.name = z.name /\ u.params = z.params /\ u.part = z.part
            BY <2>3, <4>2, FieldsAre DEF Same
          <5>2. /\ y.isFile = u.isFile /\ y.temp = u.temp /\ y.multi = u.multi
                /\ y.name = u.name /\ y.params = u.params /\ y.part = u.part
            BY <4>2, FieldsAre DEF Same
          <5> QED BY <4>2, <5>1, <5>2
        <4>4. Same(x, y, PartFields)
          BY <4>2 DEF Same, PartFields
        <4> QED BY <4>1, <4>3, <4>4
      <3>6. y.multi \in Scanning /\ Matched(y) = 0 /\ y.multi # "DATA"
        BY <3>5 DEF Scanning, Matched
      <3>7. 0 \in 0..(D - 1) /\ 0 <= o /\ o - 0 = o
        BY <1>1, <1>6
      <3>8. Written(y, f, SubSeq(s, 1, o - 0))
        BY <3>5, <3>7
      <3>9. Ends(s, o, 0) /\ Unique(s, o, 0) /\ o < Len(s)
        BY <1>10, <1>11, <1>15, <2>6
      <3>10. PartByteRead(x, y, c)
        BY <1>12, <3>5, <3>6, <3>7, <3>8, <3>9
      <3> QED BY <3>10 DEF y, d
    <2> QED BY <2>5, <2>6
  <1> QED BY <1>13, <1>14, <1>15

(* A byte of the head of a part.                                           *)
LEMMA PartHeadByte ==
  ASSUME request \in Requests, request.kind = "multipart", NEW k \in 1..N,
         NEW x, DOMAIN x = Members, NEW b \in Nat, InPartHead(x, b, k), ~x.torn,
         NEW last, NEW c \in Nat, c = b + 1
  PROVE  PartByteRead(x, ParseMultipartPostByte(x, B[c], last), c)
  <1> DEFINE p == request.parts[k]
             h == HeadOf(p)
             m == IF p.file THEN 9 ELSE 5
             P == PartHead(k)
             d == B[c]
             y == ParseMultipartPostByte(x, d, last)
             f == Files(k - 1)
             Flag(i) == p.file /\ i >= 4
             Named(i) == i >= (IF p.file THEN 4 ELSE 3)
             Temp(i) == IF p.file
                        THEN CASE i = 1 -> <<p.name>>
                               [] i \in {2, 3} -> <<p.name, "filename">>
                               [] i \in {5, 6} -> <<"type">> [] OTHER -> <<>>
                        ELSE IF i \in {1, 2} THEN <<p.name>> ELSE <<>>
  <1>1. /\ P \in Nat /\ ValueStart(k) = P + m /\ m \in {5, 9}
        /\ \A i \in 1..m : B[P + i] = h[i]
        /\ p \in Part
    <2>1. PartAt(k)
      BY PartIs
    <2>2. P \in Nat
      <3>1. PartStart(k) \in Nat /\ P = PartStart(k) + L + 4
        BY <2>1 DEF PartAt
      <3>2. L \in Nat
        BY DelimiterIs
      <3> QED BY <3>1, <3>2
    <2> QED BY <2>1, <2>2 DEF PartAt
  <1>2. /\ x.multi = "HEADERS" /\ b \in P..(ValueStart(k) - 1)
        /\ x.isFile = Flag(b - P) /\ Given(x, k - 1)
        /\ x.part = k - 1 /\ k - 1 <= Read
        /\ x.temp = Temp(b - P)
        /\ Named(b - P) => x.name = <<p.name>>
    BY DEF InPartHead
  <1>3. PICK i \in 0..(m - 1) : i = b - P /\ c = P + (i + 1)
    <2> HIDE DEF m, P
    <2>1. b \in P..(P + m - 1)
      BY <1>1, <1>2
    <2> QED BY <1>1, <2>1
  <1>4. d = h[i + 1]
    <2> HIDE DEF m, P, h
    <2>1. i + 1 \in 1..m
      BY <1>1
    <2> QED BY <1>1, <1>3, <2>1
  <1>5. /\ x.isFile = Flag(i) /\ x.temp = Temp(i)
        /\ Named(i) => x.name = <<p.name>>
    BY <1>2, <1>3
  <1>6. /\ p.name \in Byte /\ p.name # "CR" /\ p.name # "LF" /\ p.name # "type"
        /\ p.file \in BOOLEAN
    BY <1>1 DEF Part
  <1>7. y = IF d = "CR" THEN x
            ELSE IF d # "LF" THEN [x EXCEPT !.temp = Append(@, d)]
            ELSE IF x.temp # <<>> THEN PartHeader(x)
            ELSE [x EXCEPT !.size = 0, !.value = <<>>, !.buffer = <<>>,
                           !.from = Len(x.upload), !.part = @ + 1,
                           !.multi = IF x.isFile /\ x.part + 1 = request.refused
                                     THEN "ERROR" ELSE "RETURN1"]
    BY <1>2 DEF ParseMultipartPostByte, ParseHeaders
  <1>8. k \in 1..Len(request.parts)
    BY DEF N
  <1> HIDE DEF y, d
  <1>9. ASSUME Named(i + 1) PROVE y.name = <<p.name>>
    <2>1. y.name = IF d = "LF" /\ x.temp # <<>> /\ x.temp # <<"type">>
                   THEN <<x.temp[1]>> ELSE x.name
      BY <1>7, FieldsAre DEF PartHeader
    <2>2. /\ Len(<<>>) = 0 /\ Len(<<p.name>>) = 1 /\ Len(<<"type">>) = 1
          /\ Len(<<p.name, "filename">>) = 2 /\ <<p.name, "filename">>[1] = p.name
          /\ <<p.name>>[1] = p.name /\ <<"type">>[1] = "type"
      OBVIOUS
    <2>3. CASE p.file
      <3>1. i \in 3..8 /\ h[4] = "LF"
        BY <1>9, <2>3 DEF HeadOf
      <3>2. CASE i = 3
        <4>1. d = "LF" /\ x.temp = <<p.name, "filename">>
          BY <1>4, <1>5, <2>3, <3>1, <3>2
        <4> QED BY <2>1, <2>2, <4>1
      <3>3. CASE i \in 4..8
        <4>1. x.name = <<p.name>>
          BY <1>5, <2>3, <3>3
        <4>2. x.temp = <<>> \/ x.temp = <<"type">>
          <5>1. i \notin {1, 2, 3}
            BY <3>3
          <5> QED BY <1>5, <2>3, <5>1
        <4> QED BY <2>1, <4>1, <4>2
      <3> QED BY <3>1, <3>2, <3>3
    <2>4. CASE ~p.file
      <3>1. i \in 2..4 /\ h[3] = "LF"
        BY <1>9, <2>4 DEF HeadOf
      <3>2. CASE i = 2
        <4>1. d = "LF" /\ x.temp = <<p.name>>
          BY <1>4, <1>5, <2>4, <3>1, <3>2
        <4> QED BY <1>6, <2>1, <2>2, <4>1
      <3>3. CASE i \in 3..4
        <4>1. x.name = <<p.name>> /\ x.temp = <<>>
          BY <1>5, <2>4, <3>3
        <4> QED BY <2>1, <4>1
      <3> QED BY <3>1, <3>2, <3>3
    <2> QED BY <2>3, <2>4
  <1>10. ASSUME NEW j \in 0..(m - 1), j = i + 1, Same(x, y, {"temp", "name", "isFile"}),
                y.isFile = Flag(j), y.temp = Temp(j)
         PROVE  PartByteRead(x, y, c)
    <2>1. c - P = j /\ c \in P..(ValueStart(k) - 1)
      <3> HIDE DEF m, P
      <3>1. c = P + j /\ j < m /\ P \in Nat /\ m \in Nat
        <4>1. P \in Nat /\ m \in Nat /\ i \in Nat /\ c = P + (i + 1)
          BY <1>1, <1>3
        <4>2. j \in 0..(m - 1) /\ j = i + 1
          BY <1>10
        <4> QED BY <4>1, <4>2
      <3> QED BY <1>1, <3>1
    <2>2. /\ y.multi = "HEADERS" /\ Given(y, k - 1) /\ ~y.torn
          /\ Same(x, y, PartFields) /\ y.part = k - 1 /\ k - 1 <= Read
      BY <1>2, <1>10, FieldsAre DEF Same, Given, Known, PartFields
    <2>3. Named(c - P) => y.name = <<p.name>>
      BY <1>10, <1>9, <2>1
    <2> HIDE DEF P
    <2>4. InPartHead(y, c, k)
      BY <1>10, <2>1, <2>2, <2>3 DEF InPartHead, P
    <2>5. InMultipart(y, c)
      BY <1>8, <2>2, <2>4 DEF InMultipart
    <2> QED BY <2>2, <2>5 DEF PartByteRead
  <1>11. ASSUME i + 1 = m, d = "LF", x.temp = <<>>, x.isFile = p.file
         PROVE  PartByteRead(x, y, c)
    <2> DEFINE r == p.file /\ k = request.refused
    <2>1. /\ Same(x, y, {"multi", "size", "value", "buffer", "from", "part"})
          /\ y.size = 0 /\ y.value = <<>> /\ y.buffer = <<>>
          /\ y.from = Len(x.upload) /\ y.part = k
          /\ y.multi = IF r THEN "ERROR" ELSE "RETURN1"
      <3> DEFINE e == IF x.isFile /\ x.part + 1 = request.refused
                      THEN "ERROR" ELSE "RETURN1"
      <3>1. y = [x EXCEPT !.size = 0, !.value = <<>>, !.buffer = <<>>,
                          !.from = Len(x.upload), !.part = @ + 1, !.multi = e]
        BY <1>7, <1>11
      <3>2. x.part + 1 = k /\ e = IF r THEN "ERROR" ELSE "RETURN1"
        BY <1>2, <1>11
      <3> HIDE DEF e, r
      <3> QED BY <3>1, <3>2, FieldsAre DEF Same
    <2> HIDE DEF r
    <2>2. /\ y.isFile = p.file /\ y.temp = <<>> /\ ~y.torn /\ y.upload = f
          /\ y.from = Len(f)
      <3>1. /\ y.isFile = x.isFile /\ y.temp = x.temp /\ y.torn = x.torn
            /\ y.upload = x.upload
        BY <2>1, FieldsAre DEF Same
      <3>2. x.upload = f
        BY <1>2 DEF Given
      <3> QED BY <1>11, <2>1, <3>1, <3>2
    <2>3. Known(y, k - 1)
      <3>1. y.params = x.params
        BY <2>1, FieldsAre DEF Same
      <3>2. Known(x, k - 1)
        BY <1>2 DEF Given
      <3> QED BY <3>1, <3>2 DEF Known
    <2>4. y.name = <<p.name>>
      <3>1. Named(i + 1)
        BY <1>11
      <3> QED BY <1>9, <3>1
    <2>5. f \in Seq(Byte)
      <3>1. N \in Nat /\ k - 1 \in 0..N
        BY FromIs
      <3> QED BY <3>1, FilesAre
    <2>6. Written(y, f, <<>>)
      <3>1. <<>> \in Seq(Byte) /\ Len(<<>>) = 0 /\ BufSize > 0
        BY RequestAssumption
      <3> HIDE DEF f
      <3> QED BY <2>1, <2>2, <2>5, <3>1 DEF Written
    <2> DEFINE s == p.value \o Delimiter
    <2>7. c - ValueStart(k) = 0 /\ ValueStart(k) \in Nat /\ c = ValueStart(k)
      <3> HIDE DEF m, P
      <3> QED BY <1>1, <1>3, <1>11
    <2>8. SubSeq(s, 1, 0 - 0) = <<>>
      BY SubSeqEmpty
    <2>9. Len(s) \in Nat /\ Len(s) > 0 /\ Len(Delimiter) \in Nat /\ Len(Delimiter) > 0
      <3>1. Len(s) = Len(p.value) + D /\ Len(p.value) \in Nat
        BY PartIs DEF PartAt, Scanned
      <3>2. D \in Nat /\ D > 0 /\ D = Len(Delimiter)
        BY DelimiterIs DEF D
      <3> HIDE DEF s
      <3> QED BY <3>1, <3>2
    <2> HIDE DEF s
    <2>10. Ends(s, 0, 0)
      BY DEF Ends
    <2>11. ~r => Matched(y) = 0 /\ y.multi \in Scanning /\ y.multi # "DATA"
      BY <2>1 DEF Matched, Scanning
    <2>12. c \in ValueStart(k)..(ValueStart(k) + Len(s) - 1)
      BY <2>7, <2>9
    <2>13. \A l \in 1..Len(Delimiter) : ~(l <= 0)
      OBVIOUS
    <2>14. 0 \in 0..(Len(Delimiter) - 1) /\ 0 <= 0
      BY <2>9
    <2>15. /\ r => Read = k - 1
           /\ ~r => k <= Read
      <3>1. /\ Read \in 0..Len(request.parts)
            /\ \A g \in 1..Len(request.parts) :
                 g <= Read + 1 => (g = request.refused <=> Read = g - 1)
        BY BodyIs
      <3>2. k \in Nat /\ k - 1 <= Read /\ Read \in Nat /\ k <= Read + 1
        BY <1>2, <1>8, <3>1
      <3>3. k = request.refused <=> Read = k - 1
        BY <1>8, <3>1, <3>2
      <3>4. k = request.refused => p.file
        <4>1. request.refused = 0 \/ request.parts[request.refused].file
          BY RequestIs DEF WellFormed
        <4> QED BY <1>8, <4>1
      <3> QED BY <3>2, <3>3, <3>4 DEF r
    <2>16. ASSUME ~r PROVE InMultipart(y, c)
      <3>1. InValue(y, c, k)
        BY <2>1, <2>2, <2>3, <2>4, <2>6, <2>7, <2>8, <2>10, <2>11, <2>12, <2>13, <2>14,
           <2>15, <2>16 DEF InValue, s
      <3> QED BY <1>8, <2>2, <3>1 DEF InMultipart
    <2>17. ASSUME r PROVE InMultipart(y, c)
      <3>1. Given(y, k - 1) /\ y.multi = "ERROR"
        BY <2>1, <2>2, <2>3, <2>17 DEF Given
      <3>2. GivenUp(y)
        BY <2>2, <2>15, <2>17, <3>1 DEF GivenUp
      <3> QED BY <2>2, <3>2 DEF InMultipart
    <2>18. Same(x, y, PartFields)
      BY <2>1, FieldsAre DEF Same, PartFields
    <2> QED BY <2>16, <2>17, <2>18 DEF PartByteRead
  <1>12. Same(x, x, {"temp", "name", "isFile"})
    BY DEF Same
  <1>13. ASSUME d = "CR" PROVE y = x
    BY <1>7, <1>13
  <1>14. ASSUME d # "CR", d # "LF"
         PROVE  /\ Same(x, y, {"temp", "name", "isFile"}) /\ y.isFile = x.isFile
                /\ y.temp = Append(x.temp, d)
    BY <1>7, <1>14, FieldsAre DEF Same
  <1>15. ASSUME d = "LF", x.temp # <<>>
         PROVE  /\ Same(x, y, {"temp", "name", "isFile"}) /\ y.temp = <<>>
                /\ y.isFile = IF x.temp = <<"type">> THEN TRUE
                              ELSE x.isFile \/ Len(x.temp) > 1
    <2>1. y = PartHeader(x)
      BY <1>7, <1>15
    <2> QED BY <2>1, FieldsAre DEF Same, PartHeader
  <1>16. ASSUME p.file PROVE PartByteRead(x, y, c)
    <2>1. p.file = TRUE
      BY <1>6, <1>16
    <2>2. m = 9 /\ i \in 0..8
      BY <1>16
    <2>3. /\ h[1] = p.name /\ h[2] = "filename" /\ h[3] = "CR" /\ h[4] = "LF"
          /\ h[5] = "type" /\ h[6] = "CR" /\ h[7] = "LF" /\ h[8] = "CR" /\ h[9] = "LF"
      BY <1>16 DEF HeadOf
    <2>4. /\ Temp(0) = <<>> /\ Temp(1) = <<p.name>> /\ Temp(2) = <<p.name, "filename">>
          /\ Temp(3) = <<p.name, "filename">> /\ Temp(4) = <<>> /\ Temp(5) = <<"type">>
          /\ Temp(6) = <<"type">> /\ Temp(7) = <<>> /\ Temp(8) = <<>>
          /\ Flag(0) = FALSE /\ Flag(1) = FALSE /\ Flag(2) = FALSE /\ Flag(3) = FALSE
          /\ Flag(4) = TRUE /\ Flag(5) = TRUE /\ Flag(6) = TRUE /\ Flag(7) = TRUE
          /\ Flag(8) = TRUE
      BY <1>16
    <2> HIDE DEF Temp, Flag, Named, h, m
    <2>5. CASE i = 0
      <3>1. d = p.name /\ x.temp = <<>> /\ x.isFile = FALSE
        BY <1>4, <1>5, <2>3, <2>4, <2>5
      <3>2. 1 \in 0..(m - 1) /\ 1 = i + 1
        BY <2>2, <2>5
      <3>3. Append(x.temp, d) = <<p.name>>
        BY <3>1
      <3>4. /\ Same(x, y, {"temp", "name", "isFile"}) /\ y.isFile = x.isFile
            /\ y.temp = Append(x.temp, d)
        BY <1>6, <1>14, <3>1
      <3>5. y.temp = Temp(1) /\ y.isFile = Flag(1)
        BY <2>4, <3>1, <3>3, <3>4
      <3> QED BY <1>10, <3>2, <3>4, <3>5
    <2>6. CASE i = 1
      <3>1. d = "filename" /\ x.temp = <<p.name>> /\ x.isFile = FALSE
        BY <1>4, <1>5, <2>3, <2>4, <2>6
      <3>2. 2 \in 0..(m - 1) /\ 2 = i + 1
        BY <2>2, <2>6
      <3>3. Append(x.temp, d) = <<p.name, "filename">>
        <4>1. \A a, e \in Byte : Append(<<a>>, e) = <<a>> \o <<e>>
          BY Single, AppendIsConcat
        <4>2. ASSUME NEW a \in Byte, NEW e \in Byte
              PROVE  <<a>> \o <<e>> = <<a, e>>
          <5> DEFINE u == <<a>> \o <<e>>
                     w == <<a, e>>
          <5>1. u \in Seq(Byte) /\ Len(u) = 2 /\ u[1] = a /\ u[2] = e
            <6>1. <<a>> \in Seq(Byte) /\ Len(<<a>>) = 1 /\ <<a>>[1] = a
              BY Single
            <6>2. <<e>> \in Seq(Byte) /\ Len(<<e>>) = 1 /\ <<e>>[1] = e
              BY Single
            <6> DEFINE s == <<a>>
                       t == <<e>>
            <6> HIDE DEF s, t
            <6>3. Joins(s \o t, s, t, 1, 1)
              BY <6>1, <6>2, Chains DEF s, t
            <6>4. 1 \in 1..1 /\ 1 + 1 = 2
              OBVIOUS
            <6> QED BY <6>1, <6>2, <6>3, <6>4 DEF Joins, s, t
          <5>2. w \in Seq(Byte) /\ Len(w) = 2 /\ w[1] = a /\ w[2] = e
            OBVIOUS
          <5> HIDE DEF u, w
          <5>3. \A o \in 1..Len(u) : u[o] = w[o]
            BY <5>1, <5>2
          <5>4. u = w
            BY <5>1, <5>2, <5>3, SeqEqual
          <5> QED BY <5>4 DEF u, w
        <4> QED BY <1>6, <3>1, <4>1, <4>2, Words
      <3>4. /\ Same(x, y, {"temp", "name", "isFile"}) /\ y.isFile = x.isFile
            /\ y.temp = Append(x.temp, d)
        BY <1>6, <1>14, <3>1
      <3>5. y.temp = Temp(2) /\ y.isFile = Flag(2)
        BY <2>4, <3>1, <3>3, <3>4
      <3> QED BY <1>10, <3>2, <3>4, <3>5
    <2>7. CASE i = 2
      <3>1. d = "CR" /\ x.temp = <<p.name, "filename">> /\ x.isFile = FALSE
        BY <1>4, <1>5, <2>3, <2>4, <2>7
      <3>2. 3 \in 0..(m - 1) /\ 3 = i + 1
        BY <2>2, <2>7
      <3>3. y = x
        BY <1>13, <3>1
      <3>4. y.temp = Temp(3) /\ y.isFile = Flag(3)
        BY <2>4, <3>1, <3>3
      <3> QED BY <1>10, <1>12, <3>2, <3>3, <3>4
    <2>8. CASE i = 3
      <3>1. d = "LF" /\ x.temp = <<p.name, "filename">> /\ x.isFile = FALSE
        BY <1>4, <1>5, <2>3, <2>4, <2>8
      <3>2. 4 \in 0..(m - 1) /\ 4 = i + 1
        BY <2>2, <2>8
      <3>3. x.temp # <<>> /\ x.temp # <<"type">> /\ Len(x.temp) > 1
        <4>1. Len(<<p.name, "filename">>) = 2 /\ Len(<<>>) = 0 /\ Len(<<"type">>) = 1
          OBVIOUS
        <4> QED BY <3>1, <4>1
      <3>4. /\ Same(x, y, {"temp", "name", "isFile"}) /\ y.temp = <<>>
            /\ y.isFile = TRUE
        BY <1>15, <3>1, <3>3
      <3>5. y.temp = Temp(4) /\ y.isFile = Flag(4)
        BY <2>4, <3>4
      <3> QED BY <1>10, <3>2, <3>4, <3>5
    <2>9. CASE i = 4
      <3>1. d = "type" /\ x.temp = <<>> /\ x.isFile = TRUE
        BY <1>4, <1>5, <2>3, <2>4, <2>9
      <3>2. 5 \in 0..(m - 1) /\ 5 = i + 1
        BY <2>2, <2>9
      <3>3. Append(x.temp, d) = <<"type">>
        BY <3>1
      <3>4. /\ Same(x, y, {"temp", "name", "isFile"}) /\ y.isFile = x.isFile
            /\ y.temp = Append(x.temp, d)
        BY <1>6, <1>14, <3>1
      <3>5. y.temp = Temp(5) /\ y.isFile = Flag(5)
        BY <2>4, <3>1, <3>3, <3>4
      <3> QED BY <1>10, <3>2, <3>4, <3>5
    <2>10. CASE i = 5
      <3>1. d = "CR" /\ x.temp = <<"type">> /\ x.isFile = TRUE
        BY <1>4, <1>5, <2>3, <2>4, <2>10
      <3>2. 6 \in 0..(m - 1) /\ 6 = i + 1
        BY <2>2, <2>10
      <3>3. y = x
        BY <1>13, <3>1
      <3>4. y.temp = Temp(6) /\ y.isFile = Flag(6)
        BY <2>4, <3>1, <3>3
      <3> QED BY <1>10, <1>12, <3>2, <3>3, <3>4
    <2>11. CASE i = 6
      <3>1. d = "LF" /\ x.temp = <<"type">> /\ x.isFile = TRUE
        BY <1>4, <1>5, <2>3, <2>4, <2>11
      <3>2. 7 \in 0..(m - 1) /\ 7 = i + 1
        BY <2>2, <2>11
      <3>3. x.temp # <<>> /\ x.temp = <<"type">>
        <4>1. Len(<<"type">>) = 1 /\ Len(<<>>) = 0
          OBVIOUS
        <4> QED BY <3>1, <4>1
      <3>4. /\ Same(x, y, {"temp", "name", "isFile"}) /\ y.temp = <<>>
            /\ y.isFile = TRUE
        BY <1>15, <3>1, <3>3
      <3>5. y.temp = Temp(7) /\ y.isFile = Flag(7)
        BY <2>4, <3>4
      <3> QED BY <1>10, <3>2, <3>4, <3>5
    <2>12. CASE i = 7
      <3>1. d = "CR" /\ x.temp = <<>> /\ x.isFile = TRUE
        BY <1>4, <1>5, <2>3, <2>4, <2>12
      <3>2. 8 \in 0..(m - 1) /\ 8 = i + 1
        BY <2>2, <2>12
      <3>3. y = x
        BY <1>13, <3>1
      <3>4. y.temp = Temp(8) /\ y.isFile = Flag(8)
        BY <2>4, <3>1, <3>3
      <3> QED BY <1>10, <1>12, <3>2, <3>3, <3>4
    <2>13. CASE i = 8
      <3>1. d = "LF" /\ x.temp = <<>> /\ x.isFile = TRUE
        BY <1>4, <1>5, <2>3, <2>4, <2>13
      <3>2. x.isFile = p.file
        BY <2>1, <3>1
      <3>3. i + 1 = m
        BY <2>2, <2>13
      <3> QED BY <1>11, <3>1, <3>2, <3>3
    <2> QED BY <2>2, <2>5, <2>6, <2>7, <2>8, <2>9, <2>10, <2>11, <2>12, <2>13
  <1>17. ASSUME ~p.file PROVE PartByteRead(x, y, c)
    <2>1. p.file = FALSE
      BY <1>6, <1>17
    <2>2. m = 5 /\ i \in 0..4
      BY <1>17
    <2>3. h[1] = p.name /\ h[2] = "CR" /\ h[3] = "LF" /\ h[4] = "CR" /\ h[5] = "LF"
      BY <1>17 DEF HeadOf
    <2>4. /\ Temp(0) = <<>> /\ Temp(1) = <<p.name>> /\ Temp(2) = <<p.name>>
          /\ Temp(3) = <<>> /\ Temp(4) = <<>>
          /\ Flag(0) = FALSE /\ Flag(1) = FALSE /\ Flag(2) = FALSE /\ Flag(3) = FALSE
          /\ Flag(4) = FALSE
      BY <1>17
    <2> HIDE DEF Temp, Flag, Named, h, m
    <2>5. CASE i = 0
      <3>1. d = p.name /\ x.temp = <<>> /\ x.isFile = FALSE
        BY <1>4, <1>5, <2>3, <2>4, <2>5
      <3>2. 1 \in 0..(m - 1) /\ 1 = i + 1
        BY <2>2, <2>5
      <3>3. Append(x.temp, d) = <<p.name>>
        BY <3>1
      <3>4. /\ Same(x, y, {"temp", "name", "isFile"}) /\ y.isFile = x.isFile
            /\ y.temp = Append(x.temp, d)
        BY <1>6, <1>14, <3>1
      <3>5. y.temp = Temp(1) /\ y.isFile = Flag(1)
        BY <2>4, <3>1, <3>3, <3>4
      <3> QED BY <1>10, <3>2, <3>4, <3>5
    <2>6. CASE i = 1
      <3>1. d = "CR" /\ x.temp = <<p.name>> /\ x.isFile = FALSE
        BY <1>4, <1>5, <2>3, <2>4, <2>6
      <3>2. 2 \in 0..(m - 1) /\ 2 = i + 1
        BY <2>2, <2>6
      <3>3. y = x
        BY <1>13, <3>1
      <3>4. y.temp = Temp(2) /\ y.isFile = Flag(2)
        BY <2>4, <3>1, <3>3
      <3> QED BY <1>10, <1>12, <3>2, <3>3, <3>4
    <2>7. CASE i = 2
      <3>1. d = "LF" /\ x.temp = <<p.name>> /\ x.isFile = FALSE
        BY <1>4, <1>5, <2>3, <2>4, <2>7
      <3>2. 3 \in 0..(m - 1) /\ 3 = i + 1
        BY <2>2, <2>7
      <3>3. x.temp # <<>> /\ x.temp # <<"type">> /\ ~(Len(x.temp) > 1)
        <4>1. /\ Len(<<p.name>>) = 1 /\ Len(<<>>) = 0 /\ <<p.name>>[1] = p.name
              /\ <<"type">>[1] = "type"
          OBVIOUS
        <4> QED BY <1>6, <3>1, <4>1
      <3>4. /\ Same(x, y, {"temp", "name", "isFile"}) /\ y.temp = <<>>
            /\ y.isFile = FALSE
        BY <1>15, <3>1, <3>3
      <3>5. y.temp = Temp(3) /\ y.isFile = Flag(3)
        BY <2>4, <3>4
      <3> QED BY <1>10, <3>2, <3>4, <3>5
    <2>8. CASE i = 3
      <3>1. d = "CR" /\ x.temp = <<>> /\ x.isFile = FALSE
        BY <1>4, <1>5, <2>3, <2>4, <2>8
      <3>2. 4 \in 0..(m - 1) /\ 4 = i + 1
        BY <2>2, <2>8
      <3>3. y = x
        BY <1>13, <3>1
      <3>4. y.temp = Temp(4) /\ y.isFile = Flag(4)
        BY <2>4, <3>1, <3>3
      <3> QED BY <1>10, <1>12, <3>2, <3>3, <3>4
    <2>9. CASE i = 4
      <3>1. d = "LF" /\ x.temp = <<>> /\ x.isFile = FALSE
        BY <1>4, <1>5, <2>3, <2>4, <2>9
      <3>2. x.isFile = p.file
        BY <2>1, <3>1
      <3>3. i + 1 = m
        BY <2>2, <2>9
      <3> QED BY <1>11, <3>1, <3>2, <3>3
    <2> QED BY <2>2, <2>5, <2>6, <2>7, <2>8, <2>9
  <1>18. PartByteRead(x, y, c)
    <2>1. p.file \/ ~p.file
      OBVIOUS
    <2> QED BY <1>16, <1>17, <2>1
  <1> QED BY <1>18 DEF y, d

(* The head of a part begins.                                              *)
LEMMA HeadBegins ==
  ASSUME request \in Requests, request.kind = "multipart", NEW k \in 1..N,
         NEW y, y.multi = "HEADERS", y.isFile = FALSE, y.temp = <<>>, ~y.torn,
         Given(y, k - 1), y.part = k - 1, k - 1 <= Read, NEW c, c = PartHead(k)
  PROVE  InMultipart(y, c)
  <1> DEFINE p == request.parts[k]
             m == IF p.file THEN 9 ELSE 5
             P == PartHead(k)
  <1>1. P \in Nat /\ ValueStart(k) = P + m /\ m \in {5, 9}
    <2>1. PartAt(k)
      BY PartIs
    <2>2. PartStart(k) \in Nat /\ P = PartStart(k) + L + 4
      BY <2>1 DEF PartAt
    <2>3. P \in Nat
      <3>1. L \in Nat
        BY DelimiterIs
      <3> QED BY <2>2, <3>1
    <2> QED BY <2>1, <2>3 DEF PartAt
  <1>2. c - P = 0 /\ c \in P..(ValueStart(k) - 1)
    <2> HIDE DEF P, m
    <2> QED BY <1>1 DEF P
  <1> HIDE DEF P
  <1>3. y.isFile = (p.file /\ 0 >= 4)
    <2>1. (p.file /\ 0 >= 4) = FALSE
      OBVIOUS
    <2> QED BY <2>1, Zenon
  <1>4. y.temp = IF p.file
                 THEN CASE 0 = 1 -> <<p.name>>
                        [] 0 \in {2, 3} -> <<p.name, "filename">>
                        [] 0 \in {5, 6} -> <<"type">> [] OTHER -> <<>>
                 ELSE IF 0 \in {1, 2} THEN <<p.name>> ELSE <<>>
    OBVIOUS
  <1>5. InPartHead(y, c, k)
    BY <1>2, <1>3, <1>4 DEF InPartHead, P
  <1>6. k \in 1..Len(request.parts)
    BY DEF N
  <1> QED BY <1>5, <1>6 DEF InMultipart

(* A byte of the opening delimiter.                                        *)
LEMMA OpeningByte ==
  ASSUME request \in Requests, request.kind = "multipart",
         NEW x, DOMAIN x = Members, NEW b \in Nat, b < L + 4, x.multi = "BOUNDARY",
         Given(x, 0), x.part = 0, x.temp = <<>>, ~x.torn, x.parsedLength = b,
         NEW last, NEW c \in Nat, c = b + 1
  PROVE  PartByteRead(x, ParseMultipartPostByte(x, B[c], last), c)
  <1> DEFINE d == B[c]
             y == ParseMultipartPostByte(x, d, last)
  <1>1. 1 \in 1..N /\ L \in Nat
    BY FromIs, BodyIs, DelimiterIs DEF N
  <1>2. PartAt(1)
    BY <1>1, PartIs
  <1>3. PartStart(1) = 0 /\ \A i \in 1..(L + 4) : B[PartStart(1) + i] = Opening[i]
    BY <1>2 DEF PartAt
  <1>4. PartHead(1) = L + 4
    <2>1. PartHead(1) = PartStart(1) + L + 4
      BY <1>2 DEF PartAt
    <2> QED BY <1>1, <1>3, <2>1
  <1>5. Opening[c] = d
    <2>1. c \in 1..(L + 4) /\ 0 + c = c
      BY <1>1
    <2> QED BY <1>3, <2>1
  <1>6. Len(Opening) = L + 4
    BY OpeningIs
  <1>7. y = IF Opening[c] # d THEN [x EXCEPT !.multi = "ERROR"]
            ELSE IF c = Len(Opening) THEN [x EXCEPT !.multi = "HEADERS", !.isFile = FALSE]
            ELSE x
    BY DEF ParseMultipartPostByte, ExpectBoundary, Opening
  <1> HIDE DEF y, d
  <1>8. CASE c = L + 4
    <2>1. y = [x EXCEPT !.multi = "HEADERS", !.isFile = FALSE]
      BY <1>5, <1>6, <1>7, <1>8
    <2>2. /\ Same(x, y, PartFields) /\ y.multi = "HEADERS" /\ y.isFile = FALSE
          /\ y.temp = <<>> /\ ~y.torn /\ Given(y, 0) /\ y.part = 0
      BY <2>1, FieldsAre DEF Same, PartFields, Given, Known
    <2>3. InMultipart(y, c)
      <3>1. 1 - 1 = 0 /\ 0 <= Read
        BY BodyIs
      <3> QED BY <3>1, <1>1, <1>4, <1>8, <2>2, HeadBegins
    <2> QED BY <2>2, <2>3 DEF PartByteRead, y, d
  <1>9. CASE c # L + 4
    <2>1. y = x
      BY <1>5, <1>6, <1>7, <1>9
    <2>2. c < L + 4
      BY <1>1, <1>9
    <2>3. InMultipart(x, c)
      BY <2>2 DEF InMultipart, L
    <2>4. Same(x, x, PartFields)
      BY DEF Same
    <2> QED BY <2>1, <2>3, <2>4 DEF PartByteRead, y, d
  <1> QED BY <1>8, <1>9

(* A byte behind the delimiter of a part.                                  *)
LEMMA AfterPartByte ==
  ASSUME request \in Requests, request.kind = "multipart", NEW k \in 1..N,
         NEW x, DOMAIN x = Members, NEW b \in Nat, AfterPart(x, b, k),
         x.temp = <<>>, ~x.torn, x.parsedLength = b,
         x.contentLength = Len(B), NEW last, NEW c \in Nat, c = b + 1
  PROVE  PartByteRead(x, ParseMultipartPostByte(x, B[c], last), c)
  <1> DEFINE d == B[c]
             y == ParseMultipartPostByte(x, d, last)
             next == PartStart(k + 1)
  <1>1. N \in Nat /\ L \in Nat /\ k \in 1..Len(request.parts) /\ N = Len(request.parts)
    BY FromIs, DelimiterIs DEF N
  <1>2. /\ next \in Nat
        /\ k < N => B[next + L + 3] = "CR" /\ B[next + L + 4] = "LF"
        /\ k = N => B[next + L + 3] = "-" /\ next + L + 6 = Len(B)
    <2>1. k + 1 \in 1..(N + 1)
      BY <1>1
    <2>2. next \in Nat
      BY <2>1, PlacesAre
    <2>3. PartAt(k)
      BY PartIs
    <2> QED BY <2>2, <2>3 DEF PartAt
  <1>3. /\ Given(x, k) /\ x.part = k /\ k <= Read
        /\ \/ x.multi = "RETURN2" /\ b - next - L - 2 = 0
           \/ x.multi = "FEED2" /\ b - next - L - 2 = 1 /\ k < N
           \/ x.multi = "FINISHED" /\ b - next - L - 2 > 0 /\ k = N
    BY DEF AfterPart, L, N
  <1> HIDE DEF next, y, d
  <1>4. ASSUME Same(x, y, PartFields), y.temp = <<>>, ~y.torn, Given(y, k), y.part = k,
               \/ y.multi = "FEED2" /\ c - next - L - 2 = 1 /\ k < N
               \/ y.multi = "FINISHED" /\ c - next - L - 2 > 0 /\ k = N
        PROVE  PartByteRead(x, y, c)
    <2>1. AfterPart(y, c, k)
      BY <1>3, <1>4 DEF AfterPart, L, N, next
    <2>2. InMultipart(y, c)
      BY <1>1, <1>4, <2>1 DEF InMultipart
    <2> QED BY <1>4, <2>2 DEF PartByteRead
  <1>5. CASE x.multi = "RETURN2" /\ b - next - L - 2 = 0
    <2>1. c = next + L + 3 /\ c - next - L - 2 = 1 /\ b = next + L + 2
      BY <1>1, <1>2, <1>5
    <2>2. y = IF d = "-" THEN [x EXCEPT !.contentLength = x.parsedLength + 4,
                                        !.multi = "FINISHED"]
              ELSE IF d = "CR" THEN [x EXCEPT !.multi = "FEED2"]
              ELSE NotBoundary(x, Delimiter, d, last)
      BY <1>5 DEF ParseMultipartPostByte, DashOrReturn, y
    <2>3. CASE k < N
      <3>1. d = "CR"
        BY <1>2, <2>1, <2>3 DEF d
      <3>2. y = [x EXCEPT !.multi = "FEED2"]
        BY <2>2, <3>1
      <3>3. /\ Same(x, y, PartFields) /\ y.multi = "FEED2" /\ y.temp = <<>>
            /\ ~y.torn /\ Given(y, k) /\ y.part = k
        BY <1>3, <3>2, FieldsAre DEF Same, PartFields, Given, Known
      <3> QED BY <1>4, <2>1, <2>3, <3>3 DEF y, d
    <2>4. CASE ~(k < N)
      <3>1. k = N
        BY <1>1, <2>4
      <3>2. d = "-" /\ next + L + 6 = Len(B)
        BY <1>2, <2>1, <3>1 DEF d
      <3>3. b + 4 = Len(B)
        BY <1>1, <1>2, <2>1, <3>2
      <3>4. y = [x EXCEPT !.contentLength = Len(B), !.multi = "FINISHED"]
        BY <2>2, <3>2, <3>3
      <3>5. /\ Same(x, y, PartFields) /\ y.multi = "FINISHED" /\ y.temp = <<>>
            /\ ~y.torn /\ Given(y, k) /\ y.part = k
        BY <1>3, <3>4, FieldsAre DEF Same, PartFields, Given, Known
      <3>6. c - next - L - 2 > 0
        BY <2>1
      <3> QED BY <1>4, <3>1, <3>5, <3>6 DEF y, d
    <2> QED BY <2>3, <2>4
  <1>6. CASE x.multi = "FEED2" /\ b - next - L - 2 = 1 /\ k < N
    <2>1. c = next + L + 4
      BY <1>1, <1>2, <1>6
    <2>2. d = "LF"
      BY <1>2, <1>6, <2>1 DEF d
    <2>3. y = [x EXCEPT !.multi = "HEADERS", !.isFile = FALSE]
      BY <1>6, <2>2 DEF ParseMultipartPostByte, y
    <2>4. PICK j \in 1..N : j = k + 1
      BY <1>1, <1>6
    <2>5. c = PartHead(j)
      <3>1. PartHead(j) = PartStart(j) + L + 4
        BY <2>4, PartIs DEF PartAt
      <3> QED BY <2>1, <2>4, <3>1 DEF next
    <2>6. k = j - 1
      BY <2>4
    <2>7. /\ Same(x, y, PartFields) /\ y.multi = "HEADERS" /\ y.isFile = FALSE
          /\ y.temp = <<>> /\ ~y.torn /\ Given(y, k) /\ y.part = k
      BY <1>3, <2>3, FieldsAre DEF Same, PartFields, Given, Known
    <2>8. InMultipart(y, c)
      BY <1>3, <2>5, <2>6, <2>7, HeadBegins
    <2> QED BY <2>7, <2>8 DEF PartByteRead, y, d
  <1>7. CASE x.multi = "FINISHED" /\ b - next - L - 2 > 0 /\ k = N
    <2>1. y = x
      BY <1>7 DEF ParseMultipartPostByte, y
    <2>2. c - next - L - 2 > 0
      BY <1>1, <1>2, <1>7
    <2>3. Same(x, x, PartFields)
      BY DEF Same
    <2> QED BY <1>3, <1>4, <1>7, <2>1, <2>2, <2>3 DEF y, d
  <1> QED BY <1>3, <1>5, <1>6, <1>7

(* A byte of a multipart body, and its end.                                *)
LEMMA PartByte ==
  ASSUME request \in Requests, request.kind = "multipart",
         NEW x, DOMAIN x = Members, NEW b \in Nat, InMultipart(x, b),
         x.parsedLength = b, x.contentLength = Len(B), NEW last \in BOOLEAN,
         NEW c \in Nat, c = b + 1
  PROVE  PartByteRead(x, ParseMultipartPostByte(x, B[c], last), c)
  <1>1. ~x.torn
    BY DEF InMultipart
  <1>2. CASE x.multi = "BOUNDARY" /\ b < Len(Boundary) + 4 /\ Given(x, 0) /\ x.temp = <<>>
               /\ x.part = 0
    BY <1>1, <1>2, OpeningByte DEF L
  <1>3. ASSUME NEW k \in 1..Len(request.parts), InPartHead(x, b, k)
        PROVE  PartByteRead(x, ParseMultipartPostByte(x, B[c], last), c)
    BY <1>1, <1>3, PartHeadByte DEF N
  <1>4. ASSUME NEW k \in 1..Len(request.parts), InValue(x, b, k), x.temp = <<>>
        PROVE  PartByteRead(x, ParseMultipartPostByte(x, B[c], last), c)
    BY <1>4, ValueByte DEF N
  <1>5. ASSUME NEW k \in 1..Len(request.parts), AfterPart(x, b, k), x.temp = <<>>
        PROVE  PartByteRead(x, ParseMultipartPostByte(x, B[c], last), c)
    BY <1>1, <1>5, AfterPartByte DEF N
  <1>6. CASE GivenUp(x)
    <2>1. ParseMultipartPostByte(x, B[c], last) = x
      BY <1>6 DEF GivenUp, ParseMultipartPostByte
    <2>2. InMultipart(x, c) /\ Same(x, x, PartFields)
      BY <1>1, <1>6 DEF InMultipart, Same
    <2> QED BY <2>1, <2>2 DEF PartByteRead
  <1> QED BY <1>2, <1>3, <1>4, <1>5, <1>6 DEF InMultipart

(* All the parts have been read at the end of the body, or those before    *)
(* the one refused.                                                        *)
LEMMA PartsEnd ==
  ASSUME request \in Requests, request.kind = "multipart",
         NEW x, InMultipart(x, Len(B))
  PROVE  Given(x, Read) /\ ~x.torn
  <1> DEFINE b == Len(B)
  <1>1. N \in Nat /\ N >= 1 /\ L \in Nat /\ D = L + 4 /\ N = Len(request.parts)
    BY FromIs, BodyIs, DelimiterIs DEF N
  <1>2. ASSUME NEW k \in 1..N
        PROVE  /\ ValueStart(k) \in Nat /\ PartStart(k + 1) \in Nat /\ b \in Nat
               /\ Len(request.parts[k].value) \in Nat
               /\ PartStart(k + 1) = ValueStart(k) + Len(request.parts[k].value) + 2
               /\ PartStart(k + 1) + L + 4 < b
               /\ Len(request.parts[k].value \o Delimiter)
                    = Len(request.parts[k].value) + D
    <2>1. PartAt(k) /\ k + 1 \in 1..(N + 1)
      BY <1>1, PartIs
    <2>2. PartStart(k + 1) \in Nat /\ b \in Nat
      BY <2>1, PlacesAre, RequestIs
    <2>3. /\ k < N => PartStart(k + 1) + L + 4 < b
          /\ k = N => PartStart(k + 1) + L + 6 = b
          /\ PartStart(k + 1) = ValueStart(k) + Len(request.parts[k].value) + 2
          /\ Len(request.parts[k].value) \in Nat
          /\ Len(request.parts[k].value \o Delimiter)
                    = Len(request.parts[k].value) + D
      BY <2>1 DEF PartAt, Scanned
    <2>4. PartStart(k + 1) + L + 4 < b
      <3> PICK p : p = PartStart(k + 1)
        OBVIOUS
      <3> HIDE DEF b
      <3>1. k < N \/ k = N
        BY <1>1
      <3> QED BY <1>1, <2>2, <2>3, <3>1
    <2>5. ValueStart(k) \in Nat
      <3>1. PartStart(k) \in Nat /\ PartHead(k) = PartStart(k) + L + 4
            /\ ValueStart(k) = PartHead(k) + (IF request.parts[k].file THEN 9 ELSE 5)
        BY <2>1 DEF PartAt
      <3> QED BY <1>1, <3>1
    <2> QED BY <2>2, <2>3, <2>4, <2>5
  <1> HIDE DEF b
  <1>3. ~x.torn
    BY DEF InMultipart
  <1>4. ~(b < Len(Boundary) + 4)
    <2>1. 1 \in 1..N /\ 1 + 1 = 2 /\ L = Len(Boundary)
      BY <1>1 DEF L
    <2>2. PartStart(2) \in Nat /\ PartStart(2) + L + 4 < b /\ b \in Nat
      BY <1>2, <2>1
    <2> QED BY <1>1, <2>1, <2>2
  <1>5. ASSUME NEW k \in 1..N PROVE ~InPartHead(x, b, k)
    <2>1. InPartHead(x, b, k) => b <= ValueStart(k) - 1 /\ b \in Int
      <3>1. PartHead(k) \in Int
        <4>1. PartStart(k) \in Nat /\ PartHead(k) = PartStart(k) + L + 4
          BY PartIs DEF PartAt
        <4> QED BY <1>1, <4>1
      <3>2. ValueStart(k) \in Nat
        BY <1>2
      <3> QED BY <3>1, <3>2 DEF InPartHead
    <2> PICK n : n = Len(request.parts[k].value)
      OBVIOUS
    <2> PICK v : v = ValueStart(k)
      OBVIOUS
    <2> PICK p : p = PartStart(k + 1)
      OBVIOUS
    <2>2. v \in Nat /\ n \in Nat /\ p = v + n + 2 /\ p + L + 4 < b /\ b \in Nat
      BY <1>2
    <2>3. L \in Nat
      BY <1>1
    <2>4. ~(b <= v - 1)
      <3>1. \A e, g, h, l \in Nat : e + h + 2 + l + 4 < g => ~(g <= e - 1)
        OBVIOUS
      <3> QED BY <2>2, <2>3, <3>1
    <2> QED BY <2>1, <2>4
  <1>6. ASSUME NEW k \in 1..N PROVE ~InValue(x, b, k)
    <2> DEFINE s == request.parts[k].value \o Delimiter
    <2>1. InValue(x, b, k) => b \in ValueStart(k)..(ValueStart(k) + Len(s) - 1)
      BY DEF InValue
    <2>2. Len(s) = Len(request.parts[k].value) + D
      BY <1>2
    <2> HIDE DEF s
    <2> PICK n : n = Len(request.parts[k].value)
      OBVIOUS
    <2> PICK v : v = ValueStart(k)
      OBVIOUS
    <2> PICK p : p = PartStart(k + 1)
      OBVIOUS
    <2>3. v \in Nat /\ n \in Nat /\ p = v + n + 2 /\ p + L + 4 < b /\ b \in Nat
      BY <1>2
    <2>4. ~(b \in v..(v + (n + D) - 1))
      <3>1. L \in Nat /\ D \in Nat /\ D = L + 4
        BY <1>1
      <3>2. \A e, g, h, l \in Nat :
              e + h + 2 + l + 4 < g =>
                ~(g <= e + (h + (l + 4)) - 1) /\ e + (h + (l + 4)) - 1 \in Int
        OBVIOUS
      <3>3. ~(b <= v + (n + D) - 1) /\ v + (n + D) - 1 \in Int
        BY <2>3, <3>1, <3>2
      <3> QED BY <2>3, <3>3
    <2> QED BY <2>1, <2>2, <2>4
  <1>7. ASSUME NEW k \in 1..N, AfterPart(x, b, k)
        PROVE  Given(x, Read)
    <2> PICK p : p = PartStart(k + 1)
      OBVIOUS
    <2>1. p \in Nat /\ p + L + 4 < b /\ b \in Nat
      BY <1>2
    <2>2. b - p - L - 2 # 0 /\ b - p - L - 2 # 1
      BY <1>1, <2>1
    <2>3. Given(x, k) /\ k <= Read /\ k = N
      BY <1>1, <1>7, <2>2 DEF AfterPart, L
    <2>4. Read \in 0..N
      BY BodyIs DEF N
    <2>5. Read = N
      BY <1>1, <2>3, <2>4
    <2> QED BY <2>3, <2>5
  <1>8. InMultipart(x, b)
    BY DEF b
  <1> QED BY <1>1, <1>3, <1>4, <1>5, <1>6, <1>7, <1>8 DEF InMultipart, GivenUp

----------------------------------------------------------------------------
(* The body                                                                *)

InBytes(x, b) ==
  /\ DOMAIN x = Members /\ x.parse = "BODY" /\ Routed(x) /\ InBody(x, b)
  /\ b = Len(B) => x.params = IF Raw(x) THEN InQuery ELSE Expected

(* The body is read byte by byte.                                          *)
InPost(x, b) == InBytes(x, b) /\ (request.kind = "multipart" \/ x.plainPost)

(* What is not looked at.                                                  *)
LEMMA PartsOnly ==
  ASSUME NEW y, DOMAIN y = Members, NEW z, NEW c,
         Same(y, z, {"parsedLength", "plainPost"}), InMultipart(y, c)
  PROVE  InMultipart(z, c)
  <1>1. /\ z.multi = y.multi /\ z.torn = y.torn /\ z.upload = y.upload
        /\ z.buffer = y.buffer /\ z.temp = y.temp /\ z.isFile = y.isFile
        /\ z.size = y.size /\ z.from = y.from /\ z.value = y.value
        /\ z.name = y.name /\ z.params = y.params
        /\ z.boundaryPosition = y.boundaryPosition /\ z.part = y.part
    BY FieldsAre DEF Same
  <1>2. \A k : (Given(z, k) <=> Given(y, k)) /\ (Known(z, k) <=> Known(y, k))
    BY <1>1 DEF Given, Known
  <1>3. Matched(z) = Matched(y)
    BY <1>1 DEF Matched
  <1>4. \A f, w : Written(y, f, w) => Written(z, f, w)
    BY <1>1 DEF Written
  <1>5. ASSUME NEW k, InPartHead(y, c, k) PROVE InPartHead(z, c, k)
    BY <1>1, <1>2, <1>5 DEF InPartHead
  <1>6. ASSUME NEW k, InValue(y, c, k) PROVE InValue(z, c, k)
    BY <1>1, <1>2, <1>3, <1>4, <1>6 DEF InValue
  <1>7. ASSUME NEW k, AfterPart(y, c, k) PROVE AfterPart(z, c, k)
    BY <1>1, <1>2, <1>7 DEF AfterPart
  <1> QED BY <1>1, <1>2, <1>5, <1>6, <1>7 DEF InMultipart, GivenUp

(* A byte of a form: it is of the item that is read, or the item ends.     *)
FormRead(x, y, b) ==
  /\ Same(x, y, {"parsedLength", "temp", "params"}) /\ y.parsedLength = b + 1
  /\ InForm(y, b + 1) /\ (b + 1 = Len(B) => y.params = Expected)

(* It keeps InForm, and with the last byte nothing is left to be found.    *)
LEMMA FormByte ==
  ASSUME request \in Requests, request.kind \in {"form", "text"}, NEW x, NEW b \in Nat,
         b < Len(B), DOMAIN x = Members, InForm(x, b),
         x.contentLength = Len(B), x.parsedLength = b
  PROVE  FormRead(x, ParsePlainPostChar([x EXCEPT !.parsedLength = @ + 1], B[b + 1]), b)
  <1> DEFINE d == B[b + 1]
             p == x.params
             t == x.temp
             g == Form[b + 1]
             ends == d \in {"&", "NUL"}
             r == SubSeq(Form, b + 1 + 1, Len(Form))
             a == IF ends THEN t ELSE Append(t, d)
             o == ParamOf(a, TRUE)
             y == ParsePlainPostChar([x EXCEPT !.parsedLength = @ + 1], d)
             done == ends \/ b + 1 = Len(B)
  <1>1. /\ B \in Seq(Byte) /\ Len(B) \in Nat /\ b + 1 \in 1..Len(B) /\ d \in Byte
    <2>1. B \in Seq(Byte) /\ Len(B) \in Nat
      BY RequestIs
    <2>2. b + 1 \in 1..Len(B)
      BY <2>1
    <2> QED BY <2>1, <2>2, ElementOfSeq
  <1>2. /\ Same(x, y, {"parsedLength", "temp", "params"}) /\ y.parsedLength = b + 1
        /\ y.temp = (IF done THEN <<>> ELSE a)
        /\ y.params = IF done THEN Append(p, o) ELSE p
    <2> DEFINE u == [x EXCEPT !.parsedLength = @ + 1]
               z == IF ends THEN u ELSE [u EXCEPT !.temp = Append(@, d)]
    <2>1. /\ Same(x, z, {"parsedLength", "temp"}) /\ z.parsedLength = b + 1
          /\ z.temp = a /\ z.params = p /\ u.parsedLength = b + 1
          /\ u.contentLength = Len(B)
      BY FieldsAre DEF Same
    <2>2. y = IF done THEN [z EXCEPT !.params = Append(@, o), !.temp = <<>>] ELSE z
      <3> DEFINE e == IndexOf(z.temp, "=")
                 named == e \in 2..Len(z.temp) /\ z.temp[1] \notin {"{", "["}
                 n == IF named THEN SubSeq(z.temp, 1, e - 1) ELSE <<"body">>
                 v == IF named THEN SubSeq(z.temp, e + 1, Len(z.temp)) ELSE z.temp
      <3>1. y = IF ends \/ u.parsedLength = u.contentLength
                THEN [AddParam(z, UrlDecode(n), UrlDecode(v), TRUE, FALSE, 0)
                        EXCEPT !.temp = <<>>]
                ELSE z
        BY DEF ParsePlainPostChar
      <3>2. o = Param(UrlDecode(n), UrlDecode(v), TRUE, FALSE, 0)
        <4>1. a = z.temp
          BY <2>1
        <4> HIDE DEF a, z
        <4> QED BY <4>1 DEF ParamOf
      <3> HIDE DEF n, v, z, u, o
      <3> QED BY <2>1, <3>1, <3>2 DEF AddParam
    <2> HIDE DEF z, u, o, a, y
    <2> QED BY <2>1, <2>2, FieldsAre DEF Same
  <1>3. /\ p \in Seq(Range(p)) /\ t \in Seq(Byte \ {"&"}) /\ t \in Seq(Byte)
        /\ p \o ParamsOf(t \o SubSeq(Form, b + 1, Len(Form)), TRUE) = Expected
    <2>1. /\ p \in Seq(Range(p)) /\ t \in Seq(Byte \ {"&"})
          /\ p \o ParamsOf(t \o SubSeq(Form, b + 1, Len(Form)), TRUE) = Expected
      BY DEF InForm, Form
    <2> HIDE DEF t, p
    <2> QED BY <2>1, SeqMonotonic
  <1>9. /\ Form \in Seq(Byte) /\ Len(Form) = Len(B) /\ (ends => g = "&")
        /\ (~ends => g = d /\ d # "&")
    <2>1. IF g = "&" THEN d \in {"&", "NUL"} ELSE d = g /\ d \notin {"&", "NUL"}
      BY <1>1, FormIs
    <2>2. Form \in Seq(Byte) /\ Len(Form) = Len(B)
      BY FormIs
    <2> HIDE DEF d, g
    <2> QED BY <2>1, <2>2
  <1> HIDE DEF d, p, t, y, r, g, ends
  <1>4. SubSeq(Form, b + 1, Len(Form)) = <<g>> \o r /\ r \in Seq(Byte)
        /\ (b + 1 = Len(B) => r = <<>>)
    <2>1. PICK k : k = b + 1
      OBVIOUS
    <2> DEFINE F == Form
    <2>6. F \in Seq(Byte) /\ Len(F) = Len(B) /\ Len(B) \in Nat
      BY <1>1, <1>9
    <2>7. F = Form
      OBVIOUS
    <2> HIDE DEF F
    <2>2. k \in 1..Len(F) /\ Len(F) \in k..Len(F)
      BY <1>1, <2>1, <2>6
    <2>3. SubSeq(F, k, Len(F)) = <<F[k]>> \o SubSeq(F, k + 1, Len(F))
      BY <2>2, <2>6, SubSeqRecursiveFirst
    <2>4. SubSeq(F, k + 1, Len(F)) \in Seq(Byte)
      <3>1. k \in Nat /\ Len(F) \in Nat /\ k <= Len(F)
        BY <2>2, <2>6
      <3> QED BY <2>6, <3>1, Slice
    <2>5. k = Len(F) => SubSeq(F, k + 1, Len(F)) = <<>>
      BY <2>6, SubSeqEmpty
    <2> QED BY <2>1, <2>3, <2>4, <2>5, <2>6, <2>7 DEF g, r
  <1> DEFINE U == Range(p) \cup AllParams
  <1>5. /\ p \in Seq(U) /\ o \in U /\ <<o>> \in Seq(U) /\ ParamsOf(r, TRUE) \in Seq(U)
        /\ a \in Seq(Byte)
    <2>1. a \in Seq(Byte)
      BY <1>1, <1>3, AppendProperties
    <2> HIDE DEF a
    <2>2. o \in AllParams
      BY <2>1 DEF AllParams
    <2>3. ParamsOf(r, TRUE) \in Seq(AllParams)
      BY <1>4, ParamsType
    <2> HIDE DEF o
    <2>4. o \in U /\ <<o>> \in Seq(U)
      BY <2>2
    <2>5. \A V, W : V \subseteq W => Seq(V) \subseteq Seq(W)
      BY SeqMonotonic
    <2>6. Range(p) \subseteq U /\ AllParams \subseteq U
      OBVIOUS
    <2> HIDE DEF U
    <2> QED BY <1>3, <2>1, <2>3, <2>4, <2>5, <2>6
  <1> HIDE DEF U
  <1>6. Append(p, o) = p \o <<o>> /\ Append(p, o) \in Seq(Range(Append(p, o)))
    <2> HIDE DEF o
    <2>1. Append(p, o) = p \o <<o>> /\ Append(p, o) \in Seq(U)
      BY <1>5, AppendIsConcat, AppendProperties
    <2> QED BY <2>1, SeqOfRange
  <1>7. CASE ends
    <2>1. a = t
      BY <1>7
    <2>2. ParamsOf(t \o (<<"&">> \o r), TRUE) = <<o>> \o ParamsOf(r, TRUE)
      <3>1. ParamsOf(t \o (<<"&">> \o r), TRUE) = <<ParamOf(t, TRUE)>> \o ParamsOf(r, TRUE)
        BY <1>3, <1>4, ListMore
      <3> QED BY <2>1, <3>1
    <2> HIDE DEF o
    <2>3. p \o (<<o>> \o ParamsOf(r, TRUE)) = Expected
      BY <1>3, <1>4, <1>7, <1>9, <2>2
    <2>4. Append(p, o) \o ParamsOf(r, TRUE) = Expected
      <3> DEFINE l == ParamsOf(r, TRUE)
      <3> HIDE DEF l
      <3>1. (p \o <<o>>) \o l = p \o (<<o>> \o l)
        <4>1. p \in Seq(U) /\ <<o>> \in Seq(U) /\ l \in Seq(U)
          BY <1>5 DEF l
        <4> DEFINE k == <<o>>
        <4> HIDE DEF k
        <4>2. Regrouped(p, k, l)
          BY <4>1, Regroup DEF k
        <4> QED BY <4>2 DEF Regrouped, k
      <3> QED BY <1>6, <2>3, <3>1 DEF l
    <2>5. y.params = Append(p, o) /\ y.temp = <<>>
      BY <1>2, <1>7
    <2>6. ASSUME b + 1 = Len(B) PROVE y.params = Expected
      <3>1. ParamsOf(r, TRUE) = <<>>
        BY <1>4, <2>6, ListNone
      <3>2. Append(p, o) \o <<>> = Append(p, o)
        BY <1>6, ConcatEmptySeq
      <3> QED BY <2>4, <2>5, <3>1, <3>2
    <2>7. InForm(y, b + 1)
      <3>1. <<>> \o r = r
        BY <1>4, ConcatEmptySeq
      <3>2. y.temp \in Seq(Byte \ {"&"}) /\ y.params \in Seq(Range(y.params))
        <4>1. <<>> \in Seq(Byte \ {"&"})
          BY EmptySeq
        <4> QED BY <1>6, <2>5, <4>1
      <3>3. y.params \o ParamsOf(y.temp \o r, TRUE) = Expected
        BY <2>4, <2>5, <3>1
      <3> QED BY <3>2, <3>3 DEF InForm, Form, r
    <2> QED BY <1>2, <2>6, <2>7 DEF FormRead, y, d
  <1>8. CASE ~ends
    <2>1. a = Append(t, d)
      BY <1>8
    <2>2. a \in Seq(Byte \ {"&"}) /\ a # <<>> /\ a = t \o <<d>>
      <3>1. d \in Byte \ {"&"}
        BY <1>1, <1>8, <1>9
      <3>2. Append(t, d) \in Seq(Byte \ {"&"}) /\ Append(t, d) # <<>>
            /\ Append(t, d) = t \o <<d>>
        BY <1>3, <3>1, AppendProperties, AppendIsConcat
      <3> QED BY <2>1, <3>2
    <2>3. t \o (<<d>> \o r) = a \o r
      <3>1. <<d>> \in Seq(Byte)
        BY <1>1
      <3> HIDE DEF a
      <3> DEFINE k == <<d>>
      <3> HIDE DEF k
      <3>2. Regrouped(t, k, r)
        BY <1>3, <1>4, <3>1, Regroup DEF k
      <3> QED BY <2>2, <3>2 DEF Regrouped, k
    <2> HIDE DEF a
    <2>4. p \o ParamsOf(a \o r, TRUE) = Expected
      BY <1>3, <1>4, <1>8, <1>9, <2>3
    <2>5. CASE b + 1 = Len(B)
      <3>1. a \o r = a
        BY <1>4, <2>2, <2>5, ConcatEmptySeq
      <3>2. ParamsOf(a, TRUE) = <<o>>
        BY <2>2, ListLast
      <3> HIDE DEF o
      <3>3. y.params = Append(p, o) /\ y.temp = <<>>
        BY <1>2, <2>5
      <3>4. y.params = Expected
        BY <1>6, <2>4, <3>1, <3>2, <3>3
      <3>5. y.temp \o r = <<>>
        <4>1. <<>> \o r = r /\ r = <<>>
          BY <1>4, <2>5, ConcatEmptySeq
        <4> QED BY <3>3, <4>1
      <3>6. ParamsOf(<<>>, TRUE) = <<>>
        BY ListNone
      <3>7. y.params \in Seq(Range(y.params))
        BY <1>6, <3>3
      <3>8. y.params \o <<>> = y.params
        BY <3>7, ConcatEmptySeq
      <3>9. y.temp \in Seq(Byte \ {"&"})
        <4>1. <<>> \in Seq(Byte \ {"&"})
          BY EmptySeq
        <4> QED BY <3>3, <4>1
      <3>10. InForm(y, b + 1)
        BY <3>4, <3>5, <3>6, <3>7, <3>8, <3>9 DEF InForm, Form, r
      <3> QED BY <1>2, <3>4, <3>10 DEF FormRead, y, d
    <2>6. CASE b + 1 # Len(B)
      <3>1. y.params = p /\ y.temp = a
        BY <1>2, <1>8, <2>6
      <3>2. InForm(y, b + 1)
        BY <1>3, <2>2, <2>4, <3>1 DEF InForm, Form, r
      <3> QED BY <1>2, <2>6, <3>2 DEF FormRead, y, d
    <2> QED BY <2>5, <2>6
  <1> QED BY <1>7, <1>8

(* A byte of a form or of a multipart body.                                *)
LEMMA BodyByteDoes ==
  ASSUME request \in Requests, NEW x, NEW b \in Nat, InPost(x, b), b < Len(B),
         NEW last \in BOOLEAN, NEW c \in Nat, c = b + 1
  PROVE  InPost(BodyByte(x, B[c], last), c)
  <1> DEFINE d == B[c]
             z == BodyByte(x, d, last)
  <1>1. /\ DOMAIN x = Members /\ x.parse = "BODY" /\ Routed(x)
        /\ x.parsedLength = b /\ x.handled = 0 /\ x.contentLength = Len(B)
        /\ x.multipart = (request.kind = "multipart") /\ IsKind(x) /\ Told(x, b)
        /\ request.kind # "multipart" => x.plainPost
    BY DEF InPost, InBytes, InBody, IsKind, B
  <1>2. ASSUME NEW u, Same(x, u, PartFields \cup {"parsedLength"}), u.parsedLength = c
        PROVE  /\ DOMAIN u = Members /\ u.parse = "BODY" /\ Routed(u)
               /\ u.parsedLength = c /\ u.handled = 0 /\ u.contentLength = Len(B)
               /\ IsKind(u) /\ u.raw = x.raw /\ Told(u, c)
               /\ u.plainPost = x.plainPost
    <2>1. /\ DOMAIN u = Members /\ u.parse = x.parse /\ u.handler = x.handler
          /\ u.handled = x.handled /\ u.contentLength = x.contentLength
          /\ u.multipart = x.multipart /\ u.form = x.form /\ u.plain = x.plain
          /\ u.raw = x.raw /\ u.plainPost = x.plainPost
      BY <1>2, FieldsAre DEF Same, PartFields
    <2>2. IsKind(u)
      BY <1>1, <2>1 DEF IsKind
    <2>3. Told(u, c)
      BY <1>1, <2>1 DEF Told
    <2> QED BY <1>1, <1>2, <2>1, <2>2, <2>3 DEF Routed
  <1>3. CASE request.kind = "multipart"
    <2> DEFINE y == ParseMultipartPostByte(x, d, last)
    <2>1. InMultipart(x, b) /\ x.raw = <<>>
      BY <1>3 DEF InPost, InBytes, InBody
    <2>2. PartByteRead(x, y, c)
      BY <1>1, <1>3, <2>1, PartByte
    <2>3. z = [y EXCEPT !.parsedLength = @ + 1]
      BY <1>1, <1>3 DEF BodyByte
    <2> HIDE DEF y, z
    <2>4. Same(x, y, PartFields) /\ InMultipart(y, c) /\ DOMAIN y = Members
      BY <2>2 DEF PartByteRead, Same
    <2>5. /\ Same(y, z, {"parsedLength"}) /\ Same(y, z, {"parsedLength", "plainPost"})
          /\ z.parsedLength = y.parsedLength + 1
      BY <2>3, <2>4, FieldsAre DEF Same
    <2>6. y.parsedLength = b
      BY <1>1, <2>4, FieldsAre DEF Same, PartFields
    <2>7. Same(x, z, PartFields \cup {"parsedLength"}) /\ z.parsedLength = c
      BY <2>4, <2>5, <2>6 DEF Same
    <2>8. InMultipart(z, c)
      BY <2>4, <2>5, PartsOnly
    <2>9. c = Len(B) => z.params = Expected
      <3> SUFFICES ASSUME c = Len(B) PROVE z.params = Expected
        OBVIOUS
      <3>1. Known(z, Read)
        <4>1. InMultipart(z, Len(B))
          BY <2>8
        <4>2. Given(z, Read)
          BY <1>3, <4>1, PartsEnd
        <4> QED BY <4>2 DEF Given
      <3> QED BY <1>3, <3>1 DEF Known, Expected
    <2>10. ~Raw(z)
      BY <1>3 DEF Raw
    <2>11. InBytes(z, c)
      BY <1>2, <1>3, <2>1, <2>7, <2>8, <2>9, <2>10 DEF InBytes, InBody, B
    <2> QED BY <1>3, <2>11 DEF InPost, z
  <1>4. CASE request.kind # "multipart"
    <2> DEFINE y == [x EXCEPT !.parsedLength = @ + 1]
    <2>1. x.plainPost /\ request.kind \in {"form", "text"}
      BY <1>1, <1>4 DEF Told
    <2>2. z = ParsePlainPostChar(y, d)
      BY <1>1, <2>1 DEF BodyByte
    <2>3. x.upload = <<>> /\ x.buffer = <<>> /\ ~x.torn /\ x.raw = <<>>
      BY <1>4, <2>1 DEF InPost, InBytes, InBody
    <2>4. InForm(x, b)
      BY <1>4, <2>1 DEF InPost, InBytes, InBody
    <2>5. FormRead(x, z, b)
      <3>1. FormRead(x, ParsePlainPostChar(y, B[b + 1]), b)
        BY <1>1, <2>1, <2>4, FormByte
      <3> QED BY <2>2, <3>1
    <2> HIDE DEF y, z
    <2>6. /\ Same(x, z, PartFields \cup {"parsedLength"}) /\ z.parsedLength = c
          /\ z.upload = <<>> /\ z.buffer = <<>> /\ ~z.torn
          /\ InForm(z, c) /\ (c = Len(B) => z.params = Expected)
      <3>1. /\ Same(x, z, {"parsedLength", "temp", "params"}) /\ z.parsedLength = c
            /\ InForm(z, c) /\ (c = Len(B) => z.params = Expected)
        BY <2>5 DEF FormRead
      <3>2. z.upload = x.upload /\ z.buffer = x.buffer /\ z.torn = x.torn
        BY <3>1, FieldsAre DEF Same
      <3>3. Same(x, z, PartFields \cup {"parsedLength"})
        BY <3>1 DEF Same, PartFields
      <3> QED BY <2>3, <3>1, <3>2, <3>3
    <2>7. z.plainPost = x.plainPost /\ z.raw = <<>>
      BY <1>2, <2>3, <2>6
    <2>8. ~Raw(z)
      BY <2>1, <2>7 DEF Raw
    <2>9. InBytes(z, c)
      BY <1>2, <1>4, <2>1, <2>6, <2>7, <2>8 DEF InBytes, InBody, B
    <2> QED BY <2>1, <2>7, <2>9 DEF InPost, z
  <1> QED BY <1>3, <1>4

(* The bytes of a packet that are of the body.                             *)
OfBody(buf, b, n) ==
  /\ buf \in Seq(Byte) /\ Len(buf) = n /\ b + n <= Len(B)
  /\ \A i \in 1..n : buf[i] = B[b + i]

(* A piece of a request behind its head is a piece of its body.            *)
LEMMA BodyPlaces ==
  ASSUME request \in Requests, NEW p \in Nat, NEW r \in Nat,
         HeadEnd <= p, p <= r, r <= Len(A), NEW b \in Nat, p = HeadEnd + b,
         NEW n \in Nat, r = p + n
  PROVE  OfBody(SubSeq(A, p + 1, r), b, n)
  <1>1. /\ A \in Seq(Byte) /\ HeadEnd \in Nat /\ Len(B) \in Nat /\ Len(A) = HeadEnd + Len(B)
        /\ \A i \in 1..Len(B) : A[HeadEnd + i] = B[i]
    BY BytesAre, NoLineEnd, RequestIs
  <1> DEFINE buf == SubSeq(A, p + 1, r)
  <1>2. buf \in Seq(Byte) /\ Len(buf) = r - p /\ \A i \in 1..(r - p) : buf[i] = A[p + i]
    BY <1>1, Slice
  <1>3. r - p = n /\ b + n <= Len(B)
    BY <1>1
  <1> HIDE DEF buf
  <1>4. ASSUME NEW i \in 1..n PROVE buf[i] = B[b + i]
    <2>1. b + i \in 1..Len(B) /\ p + i = HeadEnd + (b + i)
      BY <1>1, <1>3
    <2>2. A[HeadEnd + (b + i)] = B[b + i]
      BY <1>1, <2>1
    <2>3. buf[i] = A[p + i]
      BY <1>2, <1>3
    <2> QED BY <2>1, <2>2, <2>3
  <1> QED BY <1>1, <1>2, <1>3, <1>4 DEF buf, OfBody

(* The bytes of a form or of a multipart body, by induction on their       *)
(* number.                                                                 *)
LEMMA OnBytesDoes ==
  ASSUME request \in Requests, NEW x, NEW b \in Nat, InPost(x, b),
         NEW buf, NEW n \in Nat, Len(buf) = n, b + n <= Len(B),
         \A i \in 1..n : buf[i] = B[b + i]
  PROVE  InPost(OnBytes(x, buf), b + n)
  <1>1. PICK g : /\ g[0] = x /\ OnBytes(x, buf) = g[n]
                 /\ \A i \in 1..n : g[i] = BodyByte(g[i - 1], buf[i], i = n)
    <2>1. BytesSteps(x, buf)
      BY BytesLoop
    <2> QED BY <2>1 DEF BytesSteps
  <1> DEFINE T == {i \in Nat : i <= n => InPost(g[i], b + i)}
  <1>2. 0 \in T
    <2>1. b + 0 = b
      OBVIOUS
    <2> QED BY <1>1, <2>1
  <1>3. ASSUME NEW i \in T PROVE i + 1 \in T
    <2> SUFFICES ASSUME i + 1 <= n PROVE InPost(g[i + 1], b + (i + 1))
      OBVIOUS
    <2> PICK j : j = i + 1
      OBVIOUS
    <2>1. j \in 1..n /\ j - 1 = i /\ i <= n
      OBVIOUS
    <2>2. InPost(g[i], b + i)
      BY <2>1
    <2> DEFINE c == b + j
               last == j = n
    <2>3. g[j] = BodyByte(g[i], B[c], last)
      BY <1>1, <2>1
    <2>4. /\ c \in Nat /\ b + i \in Nat /\ c = b + i + 1 /\ last \in BOOLEAN
          /\ b + i < Len(B)
      <3>1. Len(B) \in Nat
        BY RequestIs
      <3> QED BY <2>1, <3>1
    <2> HIDE DEF c, last
    <2>5. InPost(g[j], c)
      BY <2>2, <2>3, <2>4, BodyByteDoes
    <2> QED BY <2>5 DEF c
  <1>4. T = Nat
    <2>1. T \in SUBSET Nat
      OBVIOUS
    <2> HIDE DEF T
    <2> QED BY <1>2, <1>3, <2>1, Induction
  <1>5. InPost(g[n], b + n)
    <2>1. n \in T
      BY <1>4
    <2> QED BY <2>1
  <1> QED BY <1>1, <1>5

(* A piece of a body that is given as it comes.                            *)
LEMMA OnRawDoes ==
  ASSUME request \in Requests, NEW x, Raw(x), NEW b \in Nat, InBytes(x, b), NEW n \in Nat, b + n <= Len(B),
         NEW buf \in Seq(Byte), Len(buf) = n, \A i \in 1..n : buf[i] = B[b + i]
  PROVE  InBytes(OnRaw(x, buf), b + n)
  <1> DEFINE z == OnRaw(x, buf)
             s == SubSeq(B, 1, b)
  <1>1. /\ DOMAIN x = Members /\ x.parse = "BODY" /\ Routed(x)
        /\ x.parsedLength = b /\ x.handled = 0 /\ x.contentLength = Len(B)
        /\ IsKind(x) /\ x.upload = <<>> /\ x.buffer = <<>> /\ ~x.torn /\ x.raw = s
        /\ x.params = InQuery /\ (request.kind = "text" => x.temp = <<>>)
        /\ Told(x, b) /\ x.plainPost = FALSE
    <2>1. request.kind \notin {"form", "multipart"} /\ Told(x, b)
      BY DEF InBytes, InBody, Raw
    <2>2. x.plainPost = FALSE
      BY <2>1 DEF Told, Raw
    <2> QED BY <2>1, <2>2 DEF InBytes, InBody, InRaw, B
  <1>2. B \in Seq(Byte) /\ Len(B) \in Nat
    BY RequestIs
  <1>3. s \in Seq(Byte) /\ Len(s) = b /\ \A i \in 1..b : s[i] = B[i]
    <2>1. 0 \in Nat /\ 0 <= b /\ b <= Len(B) /\ 0 + 1 = 1 /\ b - 0 = b
          /\ \A i \in 1..b : 0 + i = i
      BY <1>2
    <2>2. /\ SubSeq(B, 0 + 1, b) \in Seq(Byte) /\ Len(SubSeq(B, 0 + 1, b)) = b - 0
          /\ \A i \in 1..(b - 0) : SubSeq(B, 0 + 1, b)[i] = B[0 + i]
      BY <1>2, <2>1, Slice
    <2> DEFINE u == SubSeq(B, 0 + 1, b)
    <2>3. u = s
      BY <2>1
    <2> HIDE DEF u, s
    <2>4. u \in Seq(Byte) /\ Len(u) = b - 0 /\ \A i \in 1..(b - 0) : u[i] = B[0 + i]
      BY <2>2 DEF u
    <2> QED BY <2>1, <2>3, <2>4
  <1>4. s \o buf = SubSeq(B, 1, b + n)
    <2> PICK e : e = b + n
      OBVIOUS
    <2> DEFINE u == SubSeq(B, 0 + 1, e)
               w == s \o buf
    <2>1. 0 \in Nat /\ e \in Nat /\ 0 <= e /\ e <= Len(B) /\ 0 + 1 = 1 /\ e - 0 = e
          /\ \A i \in 1..e : 0 + i = i
      BY <1>2
    <2>2. u \in Seq(Byte) /\ Len(u) = e - 0 /\ \A i \in 1..(e - 0) : u[i] = B[0 + i]
      BY <1>2, <2>1, Slice
    <2> HIDE DEF s, u
    <2>3. Joins(w, s, buf, b, n)
      BY <1>3, Chains
    <2>4. w \in Seq(Byte) /\ Len(w) = e
      BY <2>3 DEF Joins
    <2> HIDE DEF w
    <2>5. ASSUME NEW i \in 1..e PROVE w[i] = B[i]
      <3>1. CASE i \in 1..b
        BY <1>3, <2>3, <3>1 DEF Joins
      <3>2. CASE i \in (b + 1)..e
        <4>1. PICK j : j = i - b
          OBVIOUS
        <4>2. j \in 1..n /\ i = b + j
          BY <3>2, <4>1
        <4> QED BY <2>3, <4>2 DEF Joins
      <3> QED BY <2>1, <3>1, <3>2
    <2>6. \A i \in 1..Len(w) : w[i] = u[i]
      BY <2>1, <2>2, <2>4, <2>5
    <2>7. w = u
      BY <2>1, <2>2, <2>4, <2>6, SeqEqual
    <2> QED BY <2>1, <2>7 DEF u, w
  <1>5. /\ Same(x, z, {"raw", "torn", "parsedLength"}) /\ z.raw = x.raw \o buf
        /\ z.torn = (x.torn \/ x.parsedLength # Len(x.raw))
        /\ z.parsedLength = x.parsedLength + Len(buf)
    BY <1>1, FieldsAre DEF OnRaw, Same
  <1> HIDE DEF z, s
  <1>6. /\ z.raw = SubSeq(B, 1, b + n) /\ ~z.torn /\ z.parsedLength = b + n
    <2>1. z.raw = SubSeq(B, 1, b + n)
      BY <1>1, <1>4, <1>5
    <2>2. z.parsedLength = b + n
      BY <1>1, <1>5
    <2>3. x.parsedLength = Len(x.raw)
      BY <1>1, <1>3
    <2>4. ~z.torn
      BY <1>1, <1>5, <2>3, Zenon
    <2> QED BY <2>1, <2>2, <2>4
  <1>7. /\ DOMAIN z = Members /\ z.parse = "BODY" /\ Routed(z) /\ z.handled = 0
        /\ z.contentLength = Len(B) /\ IsKind(z) /\ z.upload = <<>> /\ z.buffer = <<>>
        /\ z.params = InQuery /\ z.plainPost = FALSE
        /\ (request.kind = "text" => z.temp = <<>>)
    <2>1. /\ DOMAIN z = Members /\ z.parse = x.parse /\ z.handler = x.handler
          /\ z.handled = x.handled /\ z.contentLength = x.contentLength
          /\ z.multipart = x.multipart /\ z.form = x.form /\ z.upload = x.upload
          /\ z.buffer = x.buffer /\ z.params = x.params /\ z.plain = x.plain
          /\ z.plainPost = x.plainPost /\ z.temp = x.temp
      BY <1>5, FieldsAre DEF Same
    <2> QED BY <1>1, <2>1 DEF Routed, IsKind
  <1>8. request.kind # "multipart" /\ request.kind # "form"
    BY DEF Raw
  <1>9. Told(z, b + n) /\ Raw(z)
    BY <1>7, <1>8 DEF Told, Raw
  <1>10. InRaw(z, b + n)
    BY <1>6, <1>7 DEF InRaw, B
  <1>11. InBody(z, b + n)
    BY <1>6, <1>7, <1>8, <1>9, <1>10 DEF InBody, B
  <1>12. InBytes(z, b + n)
    BY <1>7, <1>9, <1>11 DEF InBytes
  <1> QED BY <1>12 DEF z

(* The body ends: the request is handled.                                  *)
LEMMA BodyEnds ==
  ASSUME request \in Requests, NEW y, NEW b, InBytes(y, b), b = Len(B),
         NEW r, r = Len(A)
  PROVE  Understood(HandleRequest(y), r)
  <1> DEFINE z == HandleRequest(y)
  <1>1. /\ DOMAIN y = Members /\ Routed(y) /\ y.handled = 0
        /\ y.params = IF Raw(y) THEN InQuery ELSE Expected
    BY DEF InBytes, InBody
  <1>2. Same(y, z, {"parse", "handled"}) /\ z.parse = "END" /\ z.handled = 0 + 1
    BY <1>1, HandleDoes
  <1> HIDE DEF z
  <1>3. /\ DOMAIN z = Members /\ z.handler = y.handler /\ z.torn = y.torn
        /\ z.buffer = y.buffer /\ z.upload = y.upload /\ z.raw = y.raw
        /\ z.params = y.params /\ z.plainPost = y.plainPost
    BY <1>2, FieldsAre DEF Same
  <1>4. /\ ~y.torn /\ y.buffer = <<>> /\ y.upload = Files(Read)
        /\ y.raw = IF Raw(y) THEN B ELSE <<>>
    <2>1. CASE request.kind = "multipart"
      <3>1. InMultipart(y, Len(B)) /\ y.raw = <<>>
        BY <2>1 DEF InBytes, InBody
      <3>2. Given(y, Read) /\ ~y.torn
        BY <2>1, <3>1, PartsEnd
      <3> QED BY <2>1, <3>1, <3>2 DEF Given, Raw
    <2>2. CASE request.kind # "multipart"
      <3>1. /\ y.upload = <<>> /\ y.buffer = <<>> /\ ~y.torn
            /\ IF request.kind = "form" \/ y.plainPost THEN y.raw = <<>>
               ELSE y.raw = SubSeq(B, 1, Len(B))
        BY <2>2 DEF InBytes, InBody, InRaw, B
      <3>2. B \in Seq(Byte)
        BY RequestIs
      <3>3. SubSeq(B, 1, Len(B)) = B
        BY <3>2, SubSeqFull
      <3>4. Read = 0 /\ Files(0) = <<>>
        <4>1. Len(<<>>) = 0
          OBVIOUS
        <4>2. Len(request.parts) = 0 /\ Read \in 0..Len(request.parts)
          BY <2>2, <4>1, BodyIs
        <4> QED BY <4>2, BodyIs
      <3>5. CASE Raw(y)
        <4>1. request.kind # "form" /\ ~y.plainPost
          BY <3>5 DEF InBytes, InBody, Told, Raw
        <4> QED BY <3>1, <3>3, <3>4, <3>5, <4>1
      <3>6. CASE ~Raw(y)
        <4>1. CASE request.kind = "form" \/ y.plainPost
          BY <3>1, <3>4, <3>6, <4>1
        <4>2. CASE ~(request.kind = "form" \/ y.plainPost)
          <5>1. request.kind = "get"
            BY <2>2, <3>6, <4>2, RequestIs DEF Raw, WellFormed, Kinds
          <5>2. B = <<>> /\ y.raw = SubSeq(B, 1, Len(B))
            BY <3>1, <4>2, <5>1, BodyIs
          <5> QED BY <3>1, <3>3, <3>4, <3>6, <5>2
        <4> QED BY <4>1, <4>2
      <3> QED BY <3>5, <3>6
    <2> QED BY <2>1, <2>2
  <1>5. Routed(z)
    BY <1>1, <1>3 DEF Routed
  <1>7. Raw(z) <=> Raw(y)
    BY <1>3 DEF Raw
  <1>6. AtEnd(z, r)
    BY <1>1, <1>2, <1>3, <1>4, <1>5, <1>7 DEF AtEnd, A, B
  <1> QED BY <1>3, <1>6 DEF Understood, Members, z

(* The first packet of a body tells whether it is read as a form.          *)
LEMMA PlainPostDoes ==
  ASSUME request \in Requests, NEW x, NEW b \in Nat, InBytes(x, b), b # Len(B), NEW buf
  PROVE  /\ InBytes(PlainPost(x, buf), b)
         /\ request.kind = "form" => PlainPost(x, buf).plainPost
  <1> DEFINE y == PlainPost(x, buf)
             k == request.kind
  <1>1. /\ DOMAIN x = Members /\ x.parse = "BODY" /\ Routed(x)
        /\ x.parsedLength = b /\ x.handled = 0 /\ x.contentLength = Len(B)
        /\ IsKind(x) /\ Told(x, b)
    BY DEF InBytes, InBody, B
  <1>2. x.form = (k = "form") /\ x.plain = (k = "text")
    BY <1>1 DEF IsKind
  <1>3. /\ Same(x, y, {"plainPost"})
        /\ y.plainPost = (x.plainPost \/ (b = 0 /\ (x.form \/ (x.plain /\ LooksNamed(buf)))))
    BY <1>1, FieldsAre DEF PlainPost, Same
  <1> HIDE DEF y
  <1>4. /\ DOMAIN y = Members /\ y.parse = x.parse /\ y.handler = x.handler
        /\ y.parsedLength = x.parsedLength /\ y.handled = x.handled
        /\ y.contentLength = x.contentLength /\ y.multipart = x.multipart
        /\ y.form = x.form /\ y.plain = x.plain /\ y.upload = x.upload
        /\ y.buffer = x.buffer /\ y.torn = x.torn /\ y.raw = x.raw
        /\ y.temp = x.temp /\ y.params = x.params
    BY <1>3, FieldsAre DEF Same
  <1>5. /\ y.plainPost \in BOOLEAN
        /\ y.plainPost => x.plainPost \/ (b = 0 /\ k \in {"form", "text"})
        /\ x.plainPost => y.plainPost
        /\ k = "form" /\ b = 0 => y.plainPost
    BY <1>2, <1>3, Zenon
  <1>6. k = "form" => y.plainPost
    BY <1>1, <1>5 DEF Told
  <1>7. Told(y, b)
    BY <1>1, <1>5, <1>6 DEF Told
  <1>8. Routed(y) /\ IsKind(y)
    BY <1>1, <1>4 DEF Routed, IsKind
  <1>9. CASE k = "multipart"
    <2>1. InMultipart(x, b) /\ x.raw = <<>>
      BY <1>9 DEF InBytes, InBody
    <2>2. Same(x, y, {"parsedLength", "plainPost"})
      BY <1>3 DEF Same
    <2>3. InMultipart(y, b)
      BY <1>1, <2>1, <2>2, PartsOnly
    <2>4. InBody(y, b)
      BY <1>1, <1>4, <1>7, <1>8, <1>9, <2>1, <2>3 DEF InBody, B
    <2> QED BY <1>1, <1>4, <1>6, <1>8, <2>4 DEF InBytes, y
  <1>10. CASE k # "multipart"
    <2>1. /\ x.upload = <<>> /\ x.buffer = <<>> /\ ~x.torn
          /\ IF k = "form" \/ x.plainPost THEN InForm(x, b) /\ x.raw = <<>> ELSE InRaw(x, b)
      BY <1>10 DEF InBytes, InBody
    <2>2. (InForm(x, b) => InForm(y, b)) /\ (InRaw(x, b) => InRaw(y, b))
      BY <1>4 DEF InForm, InRaw
    <2>3. ASSUME InRaw(x, b), b = 0, k = "text" PROVE InForm(y, b) /\ y.raw = <<>>
      <3> DEFINE F == Form
                 i == InQuery
      <3>1. x.temp = <<>> /\ x.params = InQuery /\ x.raw = SubSeq(B, 1, 0)
        BY <2>3 DEF InRaw, B
      <3>2. F \in Seq(Byte)
        BY <2>3, FormIs
      <3>3. i \in Seq(Range(i)) /\ Expected = i \o ParamsOf(F, TRUE)
        BY <2>3, BeforeBody
      <3>4. SubSeq(B, 1, 0) = <<>>
        BY RequestIs, SubSeqEmpty
      <3>5. y.temp = <<>> /\ y.params = i /\ y.raw = <<>>
        BY <1>4, <3>1, <3>4
      <3> HIDE DEF F, i
      <3>6. <<>> \o SubSeq(F, 0 + 1, Len(F)) = F
        <4>1. 0 + 1 = 1 /\ SubSeq(F, 1, Len(F)) = F /\ <<>> \o F = F
          BY <3>2, SubSeqFull, ConcatEmptySeq
        <4> QED BY <4>1
      <3>7. y.temp \in Seq(Byte \ {"&"})
        <4>1. <<>> \in Seq(Byte \ {"&"})
          BY EmptySeq
        <4> QED BY <3>5, <4>1
      <3>8. InForm(y, b)
        BY <2>3, <3>3, <3>5, <3>6, <3>7 DEF InForm, F, Form
      <3> QED BY <3>5, <3>8
    <2>4. IF k = "form" \/ y.plainPost THEN InForm(y, b) /\ y.raw = <<>> ELSE InRaw(y, b)
      <3>1. CASE k = "form" \/ x.plainPost
        BY <1>4, <1>5, <2>1, <2>2, <3>1
      <3>2. CASE ~(k = "form" \/ x.plainPost) /\ y.plainPost
        BY <1>5, <2>1, <2>3, <3>2
      <3>3. CASE ~(k = "form" \/ x.plainPost) /\ ~y.plainPost
        BY <2>1, <2>2, <3>3
      <3> QED BY <3>1, <3>2, <3>3
    <2>5. InBody(y, b)
      BY <1>1, <1>4, <1>7, <1>8, <1>10, <2>1, <2>4 DEF InBody, B
    <2> QED BY <1>1, <1>4, <1>6, <1>8, <2>5 DEF InBytes, y
  <1> QED BY <1>9, <1>10

(* A turn in the body: the request is handled when the last byte is read.  *)
LEMMA BodyTurn ==
  ASSUME request \in Requests, NEW x, DOMAIN x = Members,
         NEW p \in Nat, NEW r \in Nat, p < r, r <= Len(A), AtBody(x, p)
  PROVE  Turned(Turn(<<x, SubSeq(A, p + 1, r)>>), p, r)
  <1> DEFINE buf == SubSeq(A, p + 1, r)
             t == Turn(<<x, buf>>)
             w == PlainPost(x, buf)
             y == IF w.multipart \/ w.plainPost THEN OnBytes(w, buf) ELSE OnRaw(w, buf)
  <1>1. /\ HeadEnd \in Nat /\ Len(B) \in Nat /\ Len(A) = HeadEnd + Len(B)
        /\ p \in HeadEnd..(HeadEnd + Len(B) - 1)
    BY NoLineEnd, RequestIs, BytesAre DEF AtBody, B
  <1>2. PICK b \in Nat : b = p - HeadEnd
    BY <1>1
  <1>3. PICK n \in Nat : n = r - p
    OBVIOUS
  <1>4. /\ p = HeadEnd + b /\ r = p + n /\ n > 0 /\ r = HeadEnd + (b + n) /\ b + n \in Nat
    BY <1>1, <1>2, <1>3
  <1>5. /\ buf \in Seq(Byte) /\ Len(buf) = n /\ b + n <= Len(B)
        /\ \A i \in 1..n : buf[i] = B[b + i]
    <2>1. HeadEnd <= p /\ p <= r
      BY <1>1
    <2>2. p = HeadEnd + b /\ r = p + n
      BY <1>4
    <2>3. OfBody(SubSeq(A, p + 1, r), b, n)
      <3> HIDE DEF buf
      <3> QED BY <2>1, <2>2, BodyPlaces
    <2> QED BY <2>3 DEF OfBody
  <1>6. InBytes(x, b) /\ x.parse = "BODY"
    <2>1. b # Len(B)
      BY <1>4, <1>5
    <2> QED BY <1>2, <2>1 DEF AtBody, InBytes
  <1>7. /\ InBytes(w, b) /\ (request.kind = "form" => w.plainPost)
        /\ w.multipart = (request.kind = "multipart")
    <2>1. b # Len(B)
      BY <1>4, <1>5
    <2> HIDE DEF buf
    <2>2. InBytes(w, b) /\ (request.kind = "form" => w.plainPost)
      BY <1>6, <2>1, PlainPostDoes
    <2> HIDE DEF w
    <2> QED BY <2>2 DEF InBytes, InBody, IsKind
  <1>8. t = <<OnBody(x, buf), <<>>>>
    <2>1. buf # <<>>
      <3>1. Len(<<>>) = 0
        OBVIOUS
      <3> HIDE DEF buf
      <3>2. Len(buf) = n /\ n # 0
        BY <1>4, <1>5
      <3> QED BY <3>1, <3>2
    <2>2. x.parse # "END"
      BY <1>6
    <2> HIDE DEF buf
    <2> QED BY <1>6, <2>1, <2>2 DEF Turn
  <1>9. OnBody(x, buf) = IF y.parsedLength = y.contentLength THEN HandleRequest(y) ELSE y
    BY Zenon DEF OnBody
  <1> HIDE DEF buf, w
  <1>10. InBytes(y, b + n)
    <2>1. CASE w.multipart \/ w.plainPost
      <3>1. InPost(w, b)
        BY <1>7, <2>1 DEF InPost
      <3>2. InPost(OnBytes(w, buf), b + n)
        BY <1>5, <3>1, OnBytesDoes
      <3> QED BY <2>1, <3>2 DEF InPost
    <2>2. CASE ~(w.multipart \/ w.plainPost)
      <3>1. Raw(w)
        <4>1. request.kind \in Kinds
          BY RequestIs DEF WellFormed
        <4>2. request.kind # "get"
          <5>1. Len(B) > 0
            BY <1>1
          <5>2. Len(<<>>) = 0
            OBVIOUS
          <5> QED BY <5>1, <5>2, BodyIs
        <4> QED BY <1>7, <2>2, <4>1, <4>2 DEF Kinds, Raw
      <3> QED BY <1>5, <1>7, <2>2, <3>1, OnRawDoes
    <2> QED BY <2>1, <2>2
  <1> HIDE DEF y, t
  <1> PICK e : e = b + n
    OBVIOUS
  <1>11. y.parsedLength = e /\ y.contentLength = Len(B) /\ DOMAIN y = Members
    BY <1>10 DEF InBytes, InBody, B
  <1>12. SubSeq(A, r + 1, r) = <<>> /\ r \in p..r
    BY SubSeqEmpty
  <1>13. ASSUME NEW z, t = <<z, <<>>>>, Understood(z, r)
         PROVE  Turned(t, p, r)
    BY <1>12, <1>13 DEF Turned
  <1>14. CASE e = Len(B)
    <2>1. Understood(HandleRequest(y), r)
      <3>1. r = Len(A)
        BY <1>1, <1>4, <1>14
      <3> QED BY <1>10, <1>14, <3>1, BodyEnds
    <2>2. t = <<HandleRequest(y), <<>>>>
      BY <1>8, <1>9, <1>11, <1>14
    <2> QED BY <1>13, <2>1, <2>2 DEF t, buf
  <1>15. CASE e # Len(B)
    <2>1. AtBody(y, r)
      <3>1. r \in HeadEnd..(HeadEnd + Len(B) - 1) /\ r - HeadEnd = e
        BY <1>1, <1>4, <1>5, <1>15
      <3> QED BY <1>10, <3>1 DEF AtBody, InBytes, B
    <2>2. Understood(y, r)
      BY <1>11, <2>1 DEF Understood, Members
    <2>3. t = <<y, <<>>>>
      BY <1>8, <1>9, <1>11, <1>15
    <2> QED BY <1>13, <2>2, <2>3 DEF t, buf
  <1> QED BY <1>14, <1>15

----------------------------------------------------------------------------
(* A packet                                                                *)

(* A turn, wherever the parser is.                                         *)
LEMMA OneTurn ==
  ASSUME request \in Requests, NEW x, NEW p \in Nat, NEW r \in Nat, p <= r, r <= Len(A),
         Understood(x, p)
  PROVE  Turned(Turn(<<x, SubSeq(A, p + 1, r)>>), p, r)
  <1>1. /\ DOMAIN x = Members
        /\ AtStart(x, p) \/ AtHeaders(x, p) \/ AtBody(x, p) \/ AtEnd(x, p)
    BY DEF Understood, Members
  <1>2. CASE p < r
    <2>1. ~AtEnd(x, p)
      <3>1. Len(A) \in Nat /\ p # Len(A)
        BY <1>2, BytesAre, LenProperties
      <3> QED BY <3>1 DEF AtEnd, A
    <2> QED BY <1>1, <1>2, <2>1, StartTurn, HeadersTurn, BodyTurn
  <1>3. CASE p = r
    <2> DEFINE buf == SubSeq(A, p + 1, r)
               t == Turn(<<x, buf>>)
    <2>1. buf = <<>>
      BY <1>3, SubSeqEmpty
    <2>2. t = <<x, <<>>>>
      <3> HIDE DEF buf
      <3> QED BY <2>1 DEF Turn
    <2>3. t[1] = x /\ t[2] = SubSeq(A, p + 1, r)
      <3> HIDE DEF t
      <3> QED BY <2>1, <2>2
    <2> HIDE DEF t
    <2>4. p \in p..r
      OBVIOUS
    <2> QED BY <1>3, <2>3, <2>4 DEF Turned, t
  <1> QED BY <1>2, <1>3

(* How far the turns have come.                                            *)
Reached(t, p, r, s) ==
  \E p2 \in p..r : /\ t[2] = SubSeq(A, p2 + 1, r) /\ Understood(t[1], p2)
                   /\ p2 = r \/ p2 >= s

(* A turn leaves at most the lines behind the one it has read.             *)
LEMMA NextTurn ==
  ASSUME request \in Requests, NEW p \in Nat, NEW r \in Nat, p <= r, r <= Len(A),
         NEW s \in Nat, NEW s2 \in Nat, \A e \in Stops : e > s => e >= s2,
         NEW t, Reached(t, p, r, s)
  PROVE  Reached(Turn(t), p, r, s2)
  <1>1. PICK p2 \in p..r : /\ t[2] = SubSeq(A, p2 + 1, r) /\ Understood(t[1], p2)
                           /\ p2 = r \/ p2 >= s
    BY DEF Reached
  <1>2. Turn(t) = Turn(<<t[1], SubSeq(A, p2 + 1, r)>>)
    BY <1>1 DEF Turn
  <1>3. Turned(Turn(t), p2, r)
    BY <1>1, <1>2, OneTurn
  <1> DEFINE u == Turn(t)
  <1> HIDE DEF u
  <1>4. PICK p3 \in p2..r : /\ u[2] = SubSeq(A, p3 + 1, r) /\ Understood(u[1], p3)
                            /\ p3 = r \/ (p3 > p2 /\ p3 \in Stops)
    BY <1>3 DEF Turned, u
  <1>5. p3 \in p..r
    OBVIOUS
  <1>6. p3 = r \/ p3 >= s2
    <2>1. ASSUME p3 # r PROVE p3 >= s2
      <3>1. p3 > p2 /\ p3 \in Stops
        BY <1>4, <2>1
      <3>2. p2 # r
        BY <3>1
      <3>3. p2 >= s
        BY <1>1, <3>2
      <3>4. p3 > s
        BY <3>1, <3>3
      <3> QED BY <3>1, <3>4
    <2> QED BY <2>1
  <1> QED BY <1>4, <1>5, <1>6 DEF Reached, u

(* _onData: five turns read the whole packet.                              *)
LEMMA OnDataDoes ==
  ASSUME request \in Requests, NEW x, NEW p \in Nat, NEW r \in Nat, p <= r, r <= Len(A),
         Understood(x, p)
  PROVE  Understood(OnData(x, SubSeq(A, p + 1, r)), r)
  <1> DEFINE buf == SubSeq(A, p + 1, r)
             F == FirstLine
             get == request.kind = "get"
  <1>1. F \in Nat /\ HeadEnd = F + IF get THEN 1 ELSE 7
    BY NoLineEnd
  <1>2. PICK g : /\ g[0] = <<x, buf>> /\ OnData(x, buf) = g[5][1]
                 /\ \A i \in 1..5 : g[i] = Turn(g[i - 1])
    <2> HIDE DEF buf
    <2>1. TurnSteps(x, buf)
      BY TurnLoop
    <2> QED BY <2>1 DEF TurnSteps
  <1> DEFINE s2 == F + IF get THEN 1 ELSE 3
             s3 == F + IF get THEN 3 ELSE 6
             s4 == F + IF get THEN 6 ELSE 7
  <1>3. s2 \in Nat /\ s3 \in Nat /\ s4 \in Nat
    BY <1>1
  <1>4. \A e \in Stops : e > 0 => e >= F
    BY <1>1 DEF Stops
  <1>5. \A e \in Stops : e > F => e >= s2
    BY <1>1 DEF Stops
  <1>6. \A e \in Stops : e > s2 => e >= s3
    BY <1>1 DEF Stops
  <1>7. \A e \in Stops : e > s3 => e >= s4
    BY <1>1 DEF Stops
  <1>8. \A e \in Stops : e > s4 => e >= r
    BY <1>1 DEF Stops
  <1> HIDE DEF s2, s3, s4, F, get
  <1>9. g[1] = Turn(g[0]) /\ g[2] = Turn(g[1]) /\ g[3] = Turn(g[2])
        /\ g[4] = Turn(g[3]) /\ g[5] = Turn(g[4])
    <2>1. /\ 1 \in 1..5 /\ 2 \in 1..5 /\ 3 \in 1..5 /\ 4 \in 1..5 /\ 5 \in 1..5
          /\ 1 - 1 = 0 /\ 2 - 1 = 1 /\ 3 - 1 = 2 /\ 4 - 1 = 3 /\ 5 - 1 = 4
      OBVIOUS
    <2> QED BY <1>2, <2>1
  <1>10. Reached(g[0], p, r, 0)
    <2> HIDE DEF buf
    <2>1. g[0][1] = x /\ g[0][2] = buf
      BY <1>2
    <2>2. p \in p..r /\ p >= 0
      OBVIOUS
    <2> QED BY <2>1, <2>2 DEF Reached, buf
  <1>11. Reached(g[1], p, r, F)
    BY <1>1, <1>9, <1>10, <1>4, NextTurn
  <1>12. Reached(g[2], p, r, s2)
    BY <1>1, <1>3, <1>9, <1>11, <1>5, NextTurn
  <1>13. Reached(g[3], p, r, s3)
    BY <1>3, <1>9, <1>12, <1>6, NextTurn
  <1>14. Reached(g[4], p, r, s4)
    BY <1>3, <1>9, <1>13, <1>7, NextTurn
  <1>15. Reached(g[5], p, r, r)
    BY <1>3, <1>9, <1>14, <1>8, NextTurn
  <1>16. Understood(g[5][1], r)
    BY <1>15 DEF Reached
  <1> QED BY <1>2, <1>16

----------------------------------------------------------------------------
(* The invariant                                                           *)

(* A new request has understood nothing.                                   *)
LEMMA InitDoes == Init => ParserInv
  <1> SUFFICES ASSUME Init PROVE ParserInv
    OBVIOUS
  <1>1. request \in Requests /\ rest = A /\ q = New
    BY DEF Init, A
  <1>2. /\ A \in Seq(Byte) /\ Len(A) \in Nat /\ Len(A) - Len(rest) = 0
        /\ FirstLine \in Nat /\ FirstLine >= 3
    BY <1>1, BytesAre, LenProperties, NoLineEnd
  <1>3. SubSeq(A, 1, 0) = <<>> /\ SubSeq(A, 1, Len(A)) = A
    BY <1>2, SubSeqEmpty, SubSeqFull
  <1>4. AtStart(q, 0)
    <2>1. 0 \in 0..(FirstLine - 1)
      BY <1>2
    <2> QED BY <1>1, <1>3, <2>1 DEF AtStart, Unread, NoKind, New, A
  <1>5. Understood(q, 0)
    BY <1>1, <1>4 DEF Understood
  <1>6. 0 \in 0..Len(A) /\ 0 + 1 = 1
    BY <1>2
  <1> QED BY <1>1, <1>2, <1>3, <1>5, <1>6 DEF ParserInv, A

(* What the parser knows of a request.                                     *)
LEMMA SameRequest ==
  ASSUME request' = request, NEW e, Understood(q', e)
  PROVE  Understood(q, e)'
  <1>1. FirstLine' = FirstLine /\ Body(request)' = Body(request)
        /\ Bytes(request)' = Bytes(request) /\ InQuery' = InQuery
        /\ Expected' = Expected /\ Read' = Read /\ Method' = Method
        /\ FormText(request)' = FormText(request)
    <2>1. InQuery' = InQuery
      BY DEF InQuery
    <2>2. Read' = Read
      BY DEF Read
    <2>3. Expected' = Expected
      BY <2>1, <2>2 DEF Expected
    <2>4. FormText(request)' = FormText(request)
      BY DEF FormText
    <2> QED BY <2>1, <2>2, <2>3, <2>4 DEF FirstLine, Method
  <1>2. HeadEnd' = HeadEnd
    BY <1>1 DEF HeadEnd
  <1>3. ASSUME NEW k
        PROVE  /\ PartStart(k)' = PartStart(k) /\ PartHead(k)' = PartHead(k)
               /\ ValueStart(k)' = ValueStart(k) /\ Files(k)' = Files(k)
    <2>1. PartStart(k)' = PartStart(k)
      BY DEF PartStart
    <2>2. PartHead(k)' = PartHead(k)
      BY <2>1 DEF PartHead
    <2> QED BY <2>1, <2>2 DEF ValueStart, Files
  <1>4. /\ Unread(q') <=> Unread(q)'
        /\ IsKind(q') <=> IsKind(q)'
        /\ NoKind(q') <=> NoKind(q)'
        /\ Routed(q') <=> Routed(q)'
        /\ Matched(q') = Matched(q)'
    <2>1. Unread(q') <=> Unread(q)'
      BY DEF Unread
    <2>2. IsKind(q') <=> IsKind(q)'
      BY DEF IsKind
    <2>5. NoKind(q') <=> NoKind(q)'
      BY DEF NoKind
    <2>3. Routed(q') <=> Routed(q)'
      BY <1>1 DEF Routed
    <2>4. Matched(q') = Matched(q)'
      BY DEF Matched
    <2> QED BY <2>1, <2>2, <2>3, <2>4, <2>5
  <1>5. ASSUME NEW k
        PROVE  /\ Given(q', k) <=> Given(q, k)'
               /\ Known(q', k) <=> Known(q, k)'
    <2>1. Known(q', k) <=> Known(q, k)'
      BY <1>1 DEF Known
    <2> QED BY <1>3, <2>1 DEF Given
  <1>6. ASSUME NEW b, InMultipart(q', b) PROVE InMultipart(q, b)'
    <2>1. ASSUME NEW k, InPartHead(q', b, k) PROVE InPartHead(q, b, k)'
      BY <1>1, <1>3, <1>5, <2>1 DEF InPartHead
    <2>2. ASSUME NEW k, InValue(q', b, k) PROVE InValue(q, b, k)'
      BY <1>1, <1>3, <1>4, <1>5, <2>2 DEF InValue
    <2>3. ASSUME NEW k, AfterPart(q', b, k) PROVE AfterPart(q, b, k)'
      BY <1>1, <1>3, <1>5, <2>3 DEF AfterPart
    <2>4. GivenUp(q') => GivenUp(q)'
      BY <1>1, <1>5 DEF GivenUp
    <2> QED BY <1>5, <1>6, <2>1, <2>2, <2>3, <2>4 DEF InMultipart
  <1>7. ASSUME NEW b, InBody(q', b) PROVE InBody(q, b)'
    <2>1. InForm(q', b) => InForm(q, b)'
      BY <1>1 DEF InForm
    <2>2. InRaw(q', b) => InRaw(q, b)'
      BY <1>1 DEF InRaw
    <2>3. Told(q', b) => Told(q, b)'
      BY DEF Told
    <2> QED BY <1>1, <1>4, <1>6, <1>7, <2>1, <2>2, <2>3 DEF InBody
  <1>12. Raw(q') <=> Raw(q)'
    BY DEF Raw
  <1>8. AtStart(q', e) => AtStart(q, e)'
    BY <1>1, <1>4 DEF AtStart
  <1>9. AtHeaders(q', e) => AtHeaders(q, e)'
    BY <1>1, <1>2, <1>4 DEF AtHeaders
  <1>10. AtBody(q', e) => AtBody(q, e)'
    BY <1>2, <1>4, <1>7 DEF AtBody
  <1>11. AtEnd(q', e) => AtEnd(q, e)'
    BY <1>1, <1>3, <1>4, <1>12 DEF AtEnd
  <1> QED BY <1>8, <1>9, <1>10, <1>11 DEF Understood

(* A packet keeps ParserInv.                                               *)
LEMMA PacketDoes ==
  ASSUME ParserInv, NEW n \in Nat, Packet(n)
  PROVE  ParserInv'
  <1>1. PICK p : p = Len(A) - Len(rest)
    OBVIOUS
  <1>2. /\ p \in 0..Len(A) /\ request \in Requests
        /\ rest = SubSeq(A, p + 1, Len(A)) /\ Understood(q, p)
    BY <1>1 DEF ParserInv, A
  <1>3. A \in Seq(Byte) /\ Len(A) \in Nat
    BY <1>2, BytesAre, LenProperties
  <1>4. Len(rest) = Len(A) - p
    <2>1. p \in Nat /\ p <= Len(A)
      BY <1>2, <1>3
    <2> DEFINE e == Len(A)
    <2>2. Len(SubSeq(A, p + 1, e)) = e - p
      <3>1. e \in Nat /\ p <= e /\ e <= Len(A)
        BY <1>3, <2>1
      <3> HIDE DEF e
      <3> QED BY <1>3, <2>1, <3>1, Slice
    <2> QED BY <1>2, <2>2
  <1>5. PICK r : r = p + n
    OBVIOUS
  <1>6. /\ q' = OnData(q, SubSeq(rest, 1, n)) /\ n <= Len(rest)
        /\ rest' = SubSeq(rest, n + 1, Len(rest)) /\ request' = request
    BY DEF Packet
  <1>7. p \in Nat /\ r \in Nat /\ p <= r /\ r <= Len(A)
    BY <1>2, <1>3, <1>4, <1>5, <1>6
  <1>8. SubSeq(rest, 1, n) = SubSeq(A, p + 1, r)
    <2> DEFINE e == Len(A)
    <2>1. e \in Nat /\ p <= e /\ e <= Len(A) /\ 0 \in Nat /\ 0 <= n /\ n <= e - p
          /\ 0 + 1 = 1 /\ p + 0 + 1 = p + 1
      BY <1>3, <1>4, <1>6, <1>7
    <2>2. rest = SubSeq(A, p + 1, e)
      BY <1>2
    <2> HIDE DEF e
    <2>3. SubSeq(SubSeq(A, p + 1, e), 0 + 1, n) = SubSeq(A, p + 0 + 1, p + n)
      BY <1>3, <1>7, <2>1, SliceOfSlice
    <2> QED BY <1>5, <2>1, <2>2, <2>3
  <1>9. rest' = SubSeq(A, r + 1, Len(A))
    <2> DEFINE e == Len(A)
               m == e - p
    <2>1. e \in Nat /\ p <= e /\ e <= Len(A) /\ m \in Nat /\ n <= m /\ m <= e - p
          /\ p + m = e
      BY <1>3, <1>4, <1>6, <1>7
    <2>2. rest = SubSeq(A, p + 1, e) /\ Len(rest) = m
      BY <1>2, <1>4
    <2> HIDE DEF e, m
    <2>3. SubSeq(SubSeq(A, p + 1, e), n + 1, m) = SubSeq(A, p + n + 1, p + m)
      BY <1>3, <1>7, <2>1, SliceOfSlice
    <2>4. rest' = SubSeq(A, r + 1, e)
      BY <1>5, <1>6, <2>1, <2>2, <2>3
    <2> QED BY <2>4 DEF e
  <1>10. Understood(q', r)
    BY <1>2, <1>6, <1>7, <1>8, OnDataDoes
  <1>11. A' = A
    BY <1>6 DEF A
  <1>12. Understood(q, r)'
    BY <1>6, <1>10, SameRequest
  <1>13. Len(rest') = Len(A) - r
    <2> DEFINE e == Len(A)
    <2>1. e \in Nat /\ r <= e /\ e <= Len(A)
      BY <1>3, <1>7
    <2>2. rest' = SubSeq(A, r + 1, e)
      BY <1>9
    <2> HIDE DEF e
    <2>3. Len(SubSeq(A, r + 1, e)) = e - r
      BY <1>3, <1>7, <2>1, Slice
    <2> QED BY <2>2, <2>3 DEF e
  <1>14. Len(A) - Len(rest') = r /\ r \in 0..Len(A)
    BY <1>3, <1>7, <1>13
  <1> QED BY <1>2, <1>6, <1>9, <1>11, <1>12, <1>14 DEF ParserInv, A

(* Each step keeps ParserInv.                                              *)
LEMMA StepDoes == ParserInv /\ [Next]_vars => ParserInv'
  <1> SUFFICES ASSUME ParserInv, [Next]_vars PROVE ParserInv'
    OBVIOUS
  <1>1. CASE Next
    <2>1. PICK n \in 1..MaxPacket \cup {Len(rest)} : n > 0 /\ Packet(n)
      BY <1>1 DEF Next
    <2>2. n \in Nat
      <3>1. MaxPacket \in Nat
        BY RequestAssumption
      <3>2. Len(rest) \in Nat
        <4>1. request \in Requests /\ \E p : rest = SubSeq(A, p + 1, Len(A))
          BY DEF ParserInv, A
        <4>2. \E p : rest = SubSeq(A, p + 1, Len(A)) /\ p \in 0..Len(A)
          BY DEF ParserInv, A
        <4>3. A \in Seq(Byte) /\ Len(A) \in Nat
          BY <4>1, BytesAre, LenProperties
        <4>4. PICK p : rest = SubSeq(A, p + 1, Len(A)) /\ p \in 0..Len(A)
          BY <4>2
        <4> DEFINE e == Len(A)
        <4>5. e \in Nat /\ p \in Nat /\ p <= e /\ e <= Len(A)
          BY <4>3, <4>4
        <4>6. rest = SubSeq(A, p + 1, e)
          BY <4>4
        <4> HIDE DEF e
        <4>7. rest \in Seq(Byte)
          BY <4>3, <4>5, <4>6, Slice
        <4> QED BY <4>7, LenProperties
      <3> QED BY <2>1, <3>1, <3>2
    <2> QED BY <2>1, <2>2, PacketDoes
  <1>2. CASE UNCHANGED vars
    <2>1. request' = request /\ rest' = rest /\ q' = q
      BY <1>2 DEF vars
    <2> PICK p : p = Len(A) - Len(rest)
      OBVIOUS
    <2>2. /\ p \in 0..Len(A) /\ request \in Requests
          /\ rest = SubSeq(A, p + 1, Len(A)) /\ Understood(q, p)
          /\ Len(A) - Len(rest) = p
      BY DEF ParserInv, A
    <2>3. Understood(q', p)
      BY <2>1, <2>2
    <2>4. Understood(q, p)'
      BY <2>1, <2>3, SameRequest
    <2>5. A' = A
      BY <2>1 DEF A
    <2> QED BY <2>1, <2>2, <2>4, <2>5 DEF ParserInv, A
  <1> QED BY <1>1, <1>2

(* What the parser has understood depends on the bytes that it has read    *)
(* and not on where TCP has cut them, but for a text/plain body, a form or *)
(* given as it comes as its first packet tells; for every well formed      *)
(* request, boundary, size of a packet, and size of the buffer of a file,  *)
(* that malloc may refuse.                                                 *)
THEOREM ParserHolds == Spec => []ParserInv
  <1> QED BY InitDoes, StepDoes, PTL DEF Spec

(* The parameters of the query come first, those of the body behind them.  *)
QueryThenBody(i, r, S) ==
  /\ i = InQuery /\ i \in Seq(S) /\ r \in Seq(S) /\ Expected = i \o r
  /\ \A k \in 1..Len(i) : i[k].post = FALSE /\ i[k].file = FALSE
  /\ \A k \in 1..Len(r) : r[k].post = TRUE

(* Those of the query are not posted, and no files; those of the body are. *)
LEMMA QueryComesFirst ==
  ASSUME request \in Requests
  PROVE  \E r, S : QueryThenBody(InQuery, r, S)
  <1> DEFINE i == InQuery
             parts == PartsUpTo(request.parts)[Read]
             fields == Meaning(request.form, TRUE)
  <1>1. i \in Seq(AllParams) /\ fields \in Seq(AllParams)
    <2>1. i \in Seq(AllParams)
      BY QueryFound
    <2>2. ItemsFrom(request.form)[1] \in Seq(Byte)
          /\ ParamsOf(ItemsFrom(request.form)[1], TRUE) = fields
      BY RequestIs, ItemsFound DEF WellFormed
    <2> QED BY <2>1, <2>2, ParamsType
  <1>2. ASSUME NEW items, NEW form \in BOOLEAN, NEW k \in DOMAIN Meaning(items, form)
        PROVE  Meaning(items, form)[k].post = form /\ Meaning(items, form)[k].file = FALSE
    <2>1. Meaning(items, form)[k] = ItemMeaning(items[k], form)
      BY <1>2 DEF Meaning
    <2> QED BY <2>1 DEF ItemMeaning, Sent
  <1>3. \A k \in 1..Len(i) : i[k].post = FALSE /\ i[k].file = FALSE
    <2>1. DOMAIN i = 1..Len(i)
      BY <1>1
    <2>2. \A k \in DOMAIN i : i[k].post = FALSE /\ i[k].file = FALSE
      BY <1>2 DEF InQuery
    <2> QED BY <2>1, <2>2
  <1>4. \A k \in 1..Len(fields) : fields[k].post = TRUE
    <2>1. DOMAIN fields = 1..Len(fields)
      <3> HIDE DEF fields
      <3> QED BY <1>1
    <2>2. \A k \in DOMAIN fields : fields[k].post = TRUE
      BY <1>2
    <2> QED BY <2>1, <2>2
  <1>5. parts \in Seq(OfParts) /\ \A k \in 1..Len(parts) : parts[k].post = TRUE
    <2>1. parts \in Seq(OfParts)
      <3>1. N \in Nat /\ Read \in 0..N
        BY BodyIs DEF N
      <3> QED BY <3>1, ParamsAre DEF Params, N
    <2>2. \A o \in OfParts : o.post = TRUE
      BY DEF OfParts, PartMeaning, Sent
    <2> HIDE DEF parts
    <2> QED BY <2>1, <2>2, ElementOfSeq
  <1> DEFINE U == AllParams \cup OfParts
  <1>6. i \in Seq(U) /\ fields \in Seq(U) /\ parts \in Seq(U)
    <2>1. \A V, W : V \subseteq W => Seq(V) \subseteq Seq(W)
      BY SeqMonotonic
    <2>2. AllParams \subseteq U /\ OfParts \subseteq U
      OBVIOUS
    <2> HIDE DEF U, i, fields, parts
    <2> QED BY <1>1, <1>5, <2>1, <2>2
  <1> DEFINE r == CASE request.kind = "multipart" -> parts
                    [] request.kind \in {"form", "text"} -> fields
                    [] OTHER -> <<>>
  <1>7. Expected = i \o r
    BY DEF Expected
  <1> HIDE DEF U, i, fields, parts
  <1>8. r \in Seq(U) /\ \A k \in 1..Len(r) : r[k].post = TRUE
    <2>1. CASE request.kind = "multipart"
      BY <1>5, <1>6, <2>1
    <2>2. CASE request.kind \in {"form", "text"}
      BY <1>4, <1>6, <2>2
    <2>3. CASE request.kind \notin {"multipart", "form", "text"}
      <3>1. r = <<>>
        BY <2>3
      <3>2. <<>> \in Seq(U) /\ Len(<<>>) = 0
        OBVIOUS
      <3> HIDE DEF r
      <3> QED BY <3>1, <3>2
    <2> QED BY <2>1, <2>2, <2>3
  <1> HIDE DEF r
  <1>9. QueryThenBody(i, r, U)
    BY <1>3, <1>6, <1>7, <1>8 DEF QueryThenBody, i
  <1> QED BY <1>9 DEF i

(* Those of a name that hasParam and getParam find are those of the query. *)
LooksUp(x, n) ==
  LET same == {i \in DOMAIN InQuery : InQuery[i].name = n}
  IN /\ Found(x, n, FALSE, FALSE) = same
     /\ same # {} => x.params[Min(same)] = InQuery[Min(same)]

(* They do once the parameters are those that were sent.                   *)
LEMMA FoundInQuery ==
  ASSUME request \in Requests, NEW x, x.params \in {InQuery, Expected}, NEW n
  PROVE  LooksUp(x, n)
  <1> PICK i, t, S : QueryThenBody(i, t, S) /\ i = InQuery
    BY QueryComesFirst
  <1>8. /\ i \in Seq(S) /\ t \in Seq(S) /\ Expected = i \o t
        /\ \A k \in 1..Len(i) : i[k].post = FALSE /\ i[k].file = FALSE
        /\ \A k \in 1..Len(t) : t[k].post = TRUE
    BY DEF QueryThenBody
  <1>9. \E r \in Seq(S) : x.params = i \o r /\ \A k \in 1..Len(r) : r[k].post = TRUE
    <2>1. CASE x.params = Expected
      BY <1>8, <2>1
    <2>2. CASE x.params = InQuery
      <3>1. PICK r : r = <<>>
        OBVIOUS
      <3>2. r \in Seq(S) /\ i \o r = i /\ Len(r) = 0
        <4>1. Len(<<>>) = 0 /\ <<>> \in Seq(S) /\ i \o <<>> = i
          BY <1>8, EmptySeq, ConcatEmptySeq
        <4> QED BY <3>1, <4>1
      <3>3. x.params = i \o r /\ \A k \in 1..Len(r) : r[k].post = TRUE
        BY <2>2, <3>2
      <3> QED BY <3>2, <3>3
    <2> QED BY <2>1, <2>2
  <1> PICK r \in Seq(S) : x.params = i \o r /\ \A k \in 1..Len(r) : r[k].post = TRUE
    BY <1>9
  <1>1. /\ i \in Seq(S) /\ r \in Seq(S) /\ x.params = i \o r
        /\ \A k \in 1..Len(i) : i[k].post = FALSE /\ i[k].file = FALSE
        /\ \A k \in 1..Len(r) : r[k].post = TRUE
    BY <1>8
  <1> DEFINE e == x.params
             same == {k \in DOMAIN i : i[k].name = n}
  <1>2. /\ Len(i) \in Nat /\ Len(r) \in Nat /\ Len(e) = Len(i) + Len(r)
        /\ e \in Seq(S)
        /\ \A k \in 1..Len(i) : e[k] = i[k]
        /\ \A k \in 1..Len(r) : e[Len(i) + k] = r[k]
    BY <1>1, Chain
  <1>3. DOMAIN i = 1..Len(i) /\ DOMAIN e = 1..Len(e)
    BY <1>1, <1>2
  <1> HIDE DEF e
  <1>4. \A k \in 1..Len(i) : k \in 1..Len(e) /\ e[k].post = FALSE /\ e[k].file = FALSE
    BY <1>1, <1>2
  <1>5. ASSUME NEW k \in 1..Len(e), k \notin 1..Len(i) PROVE e[k].post = TRUE
    <2>1. PICK j : j = k - Len(i)
      OBVIOUS
    <2>2. j \in 1..Len(r) /\ k = Len(i) + j
      BY <1>2, <1>5, <2>1
    <2> QED BY <1>1, <1>2, <2>2
  <1>6. Found(x, n, FALSE, FALSE) = same
    <2>1. Found(x, n, FALSE, FALSE) =
            {k \in 1..Len(e) : e[k].name = n /\ e[k].post = FALSE /\ e[k].file = FALSE}
      BY <1>3 DEF Found, e
    <2>2. \A k \in 1..Len(e) : e[k].post = FALSE => k \in 1..Len(i)
      BY <1>5
    <2>3. \A k \in 1..Len(i) : e[k].name = i[k].name
      BY <1>2
    <2> QED BY <1>3, <1>4, <2>1, <2>2, <2>3
  <1>7. ASSUME same # {} PROVE e[Min(same)] = i[Min(same)]
    <2>1. same \in SUBSET Nat
      <3>1. same \subseteq 1..Len(i)
        BY <1>3
      <3>2. 1..Len(i) \subseteq Nat
        BY <1>2
      <3> HIDE DEF same
      <3> QED BY <3>1, <3>2
    <2>2. Min(same) \in same
      <3> HIDE DEF same
      <3> QED BY <1>7, <2>1, Least
    <2>3. Min(same) \in 1..Len(i)
      BY <1>3, <2>2
    <2> QED BY <1>2, <2>3
  <1> QED BY <1>6, <1>7 DEF e, LooksUp

(* When the handler is called it finds the parameters that were sent, in   *)
(* their order, and no others, wherever TCP has cut the request, whatever  *)
(* their values contain; of a text/plain body all or none, as its first    *)
(* packet tells, and none of the parts from a file without a buffer on.    *)
(* It looks up those of the query, the first of a name, and none of a form.*)
THEOREM SentIsParsed == Spec => []ParsedAsSent
  <1>1. ParserInv => ParsedAsSent
    <2> SUFFICES ASSUME ParserInv, q.handled = 1 PROVE ParsedAsSent
      BY DEF ParsedAsSent
    <2> PICK p : p = Len(A) - Len(rest)
      OBVIOUS
    <2>1. request \in Requests /\ Understood(q, p)
      BY DEF ParserInv, A
    <2>2. q.params = IF GivenRaw THEN InQuery ELSE Expected
      <3>1. ~AtStart(q, p) /\ ~AtHeaders(q, p) /\ ~AtBody(q, p)
        BY DEF AtStart, AtHeaders, AtBody, Unread, InBody
      <3>2. AtEnd(q, p)
        BY <2>1, <3>1 DEF Understood
      <3> QED BY <3>2 DEF AtEnd, Raw, GivenRaw
    <2>3. ASSUME NEW n
          PROVE  LET same == {i \in DOMAIN InQuery : InQuery[i].name = n}
                 IN /\ HasParam(q, n, FALSE, FALSE) <=> same # {}
                    /\ same # {} => GetParam(q, n, FALSE, FALSE)
                                      = InQuery[Min(same)].value
      <3> DEFINE same == {i \in DOMAIN InQuery : InQuery[i].name = n}
                 found == Found(q, n, FALSE, FALSE)
      <3>1. /\ found = same
            /\ same # {} => q.params[Min(same)] = InQuery[Min(same)]
        <4>1. LooksUp(q, n)
          BY <2>1, <2>2, FoundInQuery
        <4> QED BY <4>1 DEF LooksUp
      <3>2. HasParam(q, n, FALSE, FALSE) <=> found # {}
        BY DEF HasParam
      <3>3. GetParam(q, n, FALSE, FALSE) = q.params[Min(found)].value
        BY DEF GetParam
      <3> HIDE DEF same, found
      <3>4. /\ HasParam(q, n, FALSE, FALSE) <=> same # {}
            /\ same # {} => GetParam(q, n, FALSE, FALSE) = InQuery[Min(same)].value
        BY <3>1, <3>2, <3>3
      <3> QED BY <3>4 DEF same
    <2> QED BY <2>2, <2>3 DEF ParsedAsSent
  <1> QED BY <1>1, ParserHolds, PTL

(* The buffer of a file is never full between two bytes.                   *)
LEMMA PartsBuffer ==
  ASSUME NEW x, NEW b, InMultipart(x, b), BufSize \in Nat \ {0}
  PROVE  ~x.torn /\ Len(x.buffer) < BufSize
  <1>1. Len(<<>>) = 0
    OBVIOUS
  <1>2. ASSUME x.buffer = <<>> PROVE Len(x.buffer) < BufSize
    BY <1>1, <1>2
  <1>3. ASSUME NEW k, InPartHead(x, b, k) PROVE Len(x.buffer) < BufSize
    BY <1>2, <1>3 DEF InPartHead, Given
  <1>4. ASSUME NEW k, InValue(x, b, k) PROVE Len(x.buffer) < BufSize
    BY <1>4 DEF InValue, Written
  <1>5. ASSUME NEW k, AfterPart(x, b, k) PROVE Len(x.buffer) < BufSize
    BY <1>2, <1>5 DEF AfterPart, Given
  <1> QED BY <1>2, <1>3, <1>4, <1>5 DEF InMultipart, GivenUp, Given

(* A piece of a body or of a file is at the index it says, together they   *)
(* are the whole, and the buffer of the files never overflows, for every   *)
(* request and however TCP has cut it; of the files, those before the one  *)
(* whose buffer malloc refuses, and of a text/plain body, all of it or, if *)
(* its first packet looks like a form, nothing.                            *)
THEOREM PiecesWhole == Spec => []PiecesAreWhole
  <1>1. ParserInv => PiecesAreWhole
    <2> SUFFICES ASSUME ParserInv PROVE PiecesAreWhole
      OBVIOUS
    <2> PICK p : Understood(q, p)
      BY DEF ParserInv
    <2>1. BufSize \in Nat \ {0} /\ Len(<<>>) = 0
      BY RequestAssumption
    <2>2. CASE q.buffer = <<>> /\ ~q.torn /\ q.handled = 0
      BY <2>1, <2>2 DEF PiecesAreWhole
    <2>3. CASE AtStart(q, p) \/ AtHeaders(q, p)
      BY <2>2, <2>3 DEF AtStart, AtHeaders, Unread
    <2>4. CASE AtBody(q, p)
      <3>1. q.handled = 0 /\ InBody(q, p - HeadEnd)
        BY <2>4 DEF AtBody, InBody
      <3>2. CASE request.kind = "multipart"
        <4>1. InMultipart(q, p - HeadEnd)
          BY <3>1, <3>2 DEF InBody
        <4> QED BY <2>1, <3>1, <4>1, PartsBuffer DEF PiecesAreWhole
      <3>3. CASE request.kind # "multipart"
        BY <2>2, <3>1, <3>3 DEF InBody
      <3> QED BY <3>2, <3>3
    <2>5. CASE AtEnd(q, p)
      <3>1. /\ ~q.torn /\ q.buffer = <<>> /\ q.upload = Files(Read)
            /\ q.raw = IF GivenRaw THEN Body(request) ELSE <<>>
        BY <2>5 DEF AtEnd, Raw, GivenRaw
      <3> QED BY <2>1, <3>1 DEF PiecesAreWhole, Files
    <2> QED BY <2>3, <2>4, <2>5 DEF Understood
  <1> QED BY <1>1, ParserHolds, PTL

----------------------------------------------------------------------------
(* The routes                                                              *)

(* The words that the URLs of the routes begin with.                       *)
Pages ==
  <<"", "index.html", "configuration.html", "main.html", "admin.html", "boost.html",
    "credits.html", "wizard.html", "maj.html", "graph.html", "maxpv.css", "favicon.ico",
    "DLconfig", "DLindex">>
Calls == <<"action", "get", "set", "history">>

(* The routes are those of the pages, for every method, then those of the  *)
(* API, for GET, and those of the update, of which two have one URL.       *)
LEMMA RoutesAre ==
  /\ DOMAIN Routes = 1..21
  /\ \A i \in 1..21 : Routes[i].method \in {"ANY", "GET", "POST"}
  /\ \A i \in 1..14 : Routes[i].uri = <<Pages[i]>>
  /\ \A i \in 15..18 : Routes[i].uri = <<"api", Calls[i - 14]>>
  /\ Routes[19].uri = <<"update", "identity">>
  /\ Routes[20].uri = <<"update">> /\ Routes[20].method = "GET"
  /\ Routes[21].uri = <<"update">> /\ Routes[21].method = "POST"
  <1>1. DOMAIN Routes = 1..21
    BY DEF Routes
  <1>2. ASSUME NEW u, NEW m, NEW a
        PROVE  Route(u, m, a).uri = u /\ Route(u, m, a).method = m
    BY DEF Route
  <1>3. Routes[1].uri = <<Pages[1]>> /\ Routes[1].method = "ANY"
    <2>1. PICK u : u = <<"">>
      OBVIOUS
    <2>2. Routes[1] = Route(u, "ANY", "main.html")
      BY <2>1 DEF Routes
    <2>3. u = <<Pages[1]>>
      BY <2>1 DEF Pages
    <2> QED BY <1>2, <2>2, <2>3
  <1>4. Routes[2].uri = <<Pages[2]>> /\ Routes[2].method = "ANY"
    <2>1. PICK u : u = <<"index.html">>
      OBVIOUS
    <2>2. Routes[2] = Route(u, "ANY", "index.html")
      BY <2>1 DEF Routes, File
    <2>3. u = <<Pages[2]>>
      BY <2>1 DEF Pages
    <2> QED BY <1>2, <2>2, <2>3
  <1>5. Routes[3].uri = <<Pages[3]>> /\ Routes[3].method = "ANY"
    <2>1. PICK u : u = <<"configuration.html">>
      OBVIOUS
    <2>2. Routes[3] = Route(u, "ANY", "configuration.html")
      BY <2>1 DEF Routes, File
    <2>3. u = <<Pages[3]>>
      BY <2>1 DEF Pages
    <2> QED BY <1>2, <2>2, <2>3
  <1>6. Routes[4].uri = <<Pages[4]>> /\ Routes[4].method = "ANY"
    <2>1. PICK u : u = <<"main.html">>
      OBVIOUS
    <2>2. Routes[4] = Route(u, "ANY", "main.html")
      BY <2>1 DEF Routes, File
    <2>3. u = <<Pages[4]>>
      BY <2>1 DEF Pages
    <2> QED BY <1>2, <2>2, <2>3
  <1>7. Routes[5].uri = <<Pages[5]>> /\ Routes[5].method = "ANY"
    <2>1. PICK u : u = <<"admin.html">>
      OBVIOUS
    <2>2. Routes[5] = Route(u, "ANY", "admin.html")
      BY <2>1 DEF Routes, File
    <2>3. u = <<Pages[5]>>
      BY <2>1 DEF Pages
    <2> QED BY <1>2, <2>2, <2>3
  <1>8. Routes[6].uri = <<Pages[6]>> /\ Routes[6].method = "ANY"
    <2>1. PICK u : u = <<"boost.html">>
      OBVIOUS
    <2>2. Routes[6] = Route(u, "ANY", "boost.html")
      BY <2>1 DEF Routes, File
    <2>3. u = <<Pages[6]>>
      BY <2>1 DEF Pages
    <2> QED BY <1>2, <2>2, <2>3
  <1>9. Routes[7].uri = <<Pages[7]>> /\ Routes[7].method = "ANY"
    <2>1. PICK u : u = <<"credits.html">>
      OBVIOUS
    <2>2. Routes[7] = Route(u, "ANY", "credits.html")
      BY <2>1 DEF Routes, File
    <2>3. u = <<Pages[7]>>
      BY <2>1 DEF Pages
    <2> QED BY <1>2, <2>2, <2>3
  <1>10. Routes[8].uri = <<Pages[8]>> /\ Routes[8].method = "ANY"
    <2>1. PICK u : u = <<"wizard.html">>
      OBVIOUS
    <2>2. Routes[8] = Route(u, "ANY", "wizard.html")
      BY <2>1 DEF Routes, File
    <2>3. u = <<Pages[8]>>
      BY <2>1 DEF Pages
    <2> QED BY <1>2, <2>2, <2>3
  <1>11. Routes[9].uri = <<Pages[9]>> /\ Routes[9].method = "ANY"
    <2>1. PICK u : u = <<"maj.html">>
      OBVIOUS
    <2>2. \E a : Routes[9] = Route(u, "ANY", a)
      BY <2>1 DEF Routes
    <2>3. u = <<Pages[9]>>
      BY <2>1 DEF Pages
    <2> QED BY <1>2, <2>2, <2>3
  <1>12. Routes[10].uri = <<Pages[10]>> /\ Routes[10].method = "ANY"
    <2>1. PICK u : u = <<"graph.html">>
      OBVIOUS
    <2>2. Routes[10] = Route(u, "ANY", "graph.html")
      BY <2>1 DEF Routes, File
    <2>3. u = <<Pages[10]>>
      BY <2>1 DEF Pages
    <2> QED BY <1>2, <2>2, <2>3
  <1>13. Routes[11].uri = <<Pages[11]>> /\ Routes[11].method = "ANY"
    <2>1. PICK u : u = <<"maxpv.css">>
      OBVIOUS
    <2>2. Routes[11] = Route(u, "ANY", "maxpv.css")
      BY <2>1 DEF Routes, File
    <2>3. u = <<Pages[11]>>
      BY <2>1 DEF Pages
    <2> QED BY <1>2, <2>2, <2>3
  <1>14. Routes[12].uri = <<Pages[12]>> /\ Routes[12].method = "ANY"
    <2>1. PICK u : u = <<"favicon.ico">>
      OBVIOUS
    <2>2. Routes[12] = Route(u, "ANY", "favicon.ico")
      BY <2>1 DEF Routes, File
    <2>3. u = <<Pages[12]>>
      BY <2>1 DEF Pages
    <2> QED BY <1>2, <2>2, <2>3
  <1>15. Routes[13].uri = <<Pages[13]>> /\ Routes[13].method = "ANY"
    <2>1. PICK u : u = <<"DLconfig">>
      OBVIOUS
    <2>2. Routes[13] = Route(u, "ANY", "config.json")
      BY <2>1 DEF Routes
    <2>3. u = <<Pages[13]>>
      BY <2>1 DEF Pages
    <2> QED BY <1>2, <2>2, <2>3
  <1>16. Routes[14].uri = <<Pages[14]>> /\ Routes[14].method = "ANY"
    <2>1. PICK u : u = <<"DLindex">>
      OBVIOUS
    <2>2. Routes[14] = Route(u, "ANY", "index.json")
      BY <2>1 DEF Routes
    <2>3. u = <<Pages[14]>>
      BY <2>1 DEF Pages
    <2> QED BY <1>2, <2>2, <2>3
  <1>17. Routes[15].uri = <<"api", Calls[1]>> /\ Routes[15].method = "GET"
    <2>1. PICK u : u = <<"api", "action">>
      OBVIOUS
    <2>2. Routes[15] = Route(u, "GET", "action")
      BY <2>1 DEF Routes
    <2>3. u = <<"api", Calls[1]>>
      BY <2>1 DEF Calls
    <2> QED BY <1>2, <2>2, <2>3
  <1>18. Routes[16].uri = <<"api", Calls[2]>> /\ Routes[16].method = "GET"
    <2>1. PICK u : u = <<"api", "get">>
      OBVIOUS
    <2>2. Routes[16] = Route(u, "GET", "get")
      BY <2>1 DEF Routes
    <2>3. u = <<"api", Calls[2]>>
      BY <2>1 DEF Calls
    <2> QED BY <1>2, <2>2, <2>3
  <1>19. Routes[17].uri = <<"api", Calls[3]>> /\ Routes[17].method = "GET"
    <2>1. PICK u : u = <<"api", "set">>
      OBVIOUS
    <2>2. Routes[17] = Route(u, "GET", "set")
      BY <2>1 DEF Routes
    <2>3. u = <<"api", Calls[3]>>
      BY <2>1 DEF Calls
    <2> QED BY <1>2, <2>2, <2>3
  <1>20. Routes[18].uri = <<"api", Calls[4]>> /\ Routes[18].method = "GET"
    <2>1. PICK u : u = <<"api", "history">>
      OBVIOUS
    <2>2. Routes[18] = Route(u, "GET", "history")
      BY <2>1 DEF Routes
    <2>3. u = <<"api", Calls[4]>>
      BY <2>1 DEF Calls
    <2> QED BY <1>2, <2>2, <2>3
  <1>24. Routes[19].uri = <<"update", "identity">> /\ Routes[19].method = "GET"
    <2>1. PICK u : u = <<"update", "identity">>
      OBVIOUS
    <2>2. Routes[19] = Route(u, "GET", "identity")
      BY <2>1 DEF Routes
    <2> QED BY <1>2, <2>1, <2>2
  <1>25. Routes[20].uri = <<"update">> /\ Routes[20].method = "GET"
    <2>1. PICK u : u = <<"update">>
      OBVIOUS
    <2>2. Routes[20] = Route(u, "GET", "page")
      BY <2>1 DEF Routes
    <2> QED BY <1>2, <2>1, <2>2
  <1>26. Routes[21].uri = <<"update">> /\ Routes[21].method = "POST"
    <2>1. PICK u : u = <<"update">>
      OBVIOUS
    <2>2. Routes[21] = Route(u, "POST", "update")
      BY <2>1 DEF Routes
    <2> QED BY <1>2, <2>1, <2>2
  <1>21. \A i \in 1..21 : Routes[i].method \in {"ANY", "GET", "POST"}
    <2>1. \A i \in 1..18 : Routes[i].method \in {"ANY", "GET", "POST"}
      BY <1>3, <1>4, <1>5, <1>6, <1>7, <1>8, <1>9, <1>10, <1>11, <1>12, <1>13,
         <1>14, <1>15, <1>16, <1>17, <1>18, <1>19, <1>20
    <2> QED BY <1>24, <1>25, <1>26, <2>1
  <1>22. \A i \in 1..14 : Routes[i].uri = <<Pages[i]>>
    BY <1>3, <1>4, <1>5, <1>6, <1>7, <1>8, <1>9, <1>10, <1>11, <1>12, <1>13,
       <1>14, <1>15, <1>16
  <1>23. \A i \in 15..18 : Routes[i].uri = <<"api", Calls[i - 14]>>
    BY <1>17, <1>18, <1>19, <1>20
  <1> QED BY <1>1, <1>21, <1>22, <1>23, <1>24, <1>25, <1>26

(* No two pages and no two calls of the API have one name.                 *)
LEMMA PagesDiffer ==
  /\ \A i, j \in 1..14 : Pages[i] = Pages[j] => i = j
  /\ \A i \in 1..14 : Pages[i] \notin {"api", "update"}
  /\ \A i, j \in 1..4 : Calls[i] = Calls[j] => i = j
  <1>1. PICK e : e = ""
    OBVIOUS
  <1>2. e \notin {"index.html", "configuration.html", "main.html", "admin.html",
                 "boost.html", "credits.html", "wizard.html", "maj.html", "graph.html",
                 "maxpv.css", "favicon.ico", "DLconfig", "DLindex", "api", "update"}
    BY <1>1
  <1>3. /\ Pages[1] = e /\ Pages[2] = "index.html"
        /\ Pages[3] = "configuration.html" /\ Pages[4] = "main.html"
        /\ Pages[5] = "admin.html" /\ Pages[6] = "boost.html"
        /\ Pages[7] = "credits.html" /\ Pages[8] = "wizard.html"
        /\ Pages[9] = "maj.html" /\ Pages[10] = "graph.html"
        /\ Pages[11] = "maxpv.css" /\ Pages[12] = "favicon.ico"
        /\ Pages[13] = "DLconfig" /\ Pages[14] = "DLindex"
    BY <1>1 DEF Pages
  <1>4. ASSUME NEW i \in 1..14, NEW j \in 1..14, Pages[i] = Pages[j] PROVE i = j
    <2>1. CASE i = 1
      BY <1>2, <1>3, <1>4, <2>1
    <2>2. CASE i = 2
      BY <1>2, <1>3, <1>4, <2>2
    <2>3. CASE i = 3
      BY <1>2, <1>3, <1>4, <2>3
    <2>4. CASE i = 4
      BY <1>2, <1>3, <1>4, <2>4
    <2>5. CASE i = 5
      BY <1>2, <1>3, <1>4, <2>5
    <2>6. CASE i = 6
      BY <1>2, <1>3, <1>4, <2>6
    <2>7. CASE i = 7
      BY <1>2, <1>3, <1>4, <2>7
    <2>8. CASE i = 8
      BY <1>2, <1>3, <1>4, <2>8
    <2>9. CASE i = 9
      BY <1>2, <1>3, <1>4, <2>9
    <2>10. CASE i = 10
      BY <1>2, <1>3, <1>4, <2>10
    <2>11. CASE i = 11
      BY <1>2, <1>3, <1>4, <2>11
    <2>12. CASE i = 12
      BY <1>2, <1>3, <1>4, <2>12
    <2>13. CASE i = 13
      BY <1>2, <1>3, <1>4, <2>13
    <2>14. CASE i = 14
      BY <1>2, <1>3, <1>4, <2>14
    <2> QED BY <2>1, <2>2, <2>3, <2>4, <2>5, <2>6, <2>7, <2>8, <2>9, <2>10, <2>11,
               <2>12, <2>13, <2>14
  <1>5. ASSUME NEW i \in 1..14 PROVE Pages[i] \notin {"api", "update"}
    BY <1>2, <1>3
  <1>6. \A i, j \in 1..4 : Calls[i] = Calls[j] => i = j
    BY DEF Calls
  <1> QED BY <1>4, <1>5, <1>6

(* A URL that begins with some words.                                      *)
LEMMA PrefixIs ==
  ASSUME NEW S, NEW s \in Seq(S), NEW u \in Seq(Byte), Len(s) <= Len(u)
  PROVE  /\ IsPrefix(s, u) <=> s = SubSeq(u, 1, Len(s))
         /\ IsPrefix(s, u) => \A i \in 1..Len(s) : s[i] = u[i]
  <1> DEFINE n == Len(s)
             v == SubSeq(u, 0 + 1, n)
  <1>1. n \in Nat /\ Len(u) \in Nat
    BY LenProperties
  <1>2. SubSeq(s, 1, n) = s
    BY SubSeqFull
  <1>3. 0 \in Nat /\ 0 <= n /\ n <= Len(u) /\ 0 + 1 = 1 /\ n - 0 = n
        /\ \A i \in 1..n : 0 + i = i
    BY <1>1
  <1>4. v = SubSeq(u, 1, n)
    BY <1>3
  <1> HIDE DEF n
  <1>5. \A i \in 1..(n - 0) : v[i] = u[0 + i]
    BY <1>1, <1>3, Slice
  <1> HIDE DEF v
  <1>6. \A i \in 1..n : v[i] = u[i]
    BY <1>3, <1>5
  <1>7. IsPrefix(s, u) <=> s = v
    BY <1>2, <1>4 DEF IsPrefix, n
  <1>8. s = v => \A i \in 1..n : s[i] = u[i]
    BY <1>6
  <1> QED BY <1>4, <1>7, <1>8 DEF n

(* The words of a route: how many, and which are first.                    *)
Uri(i, s, S) ==
  /\ s \in Seq(S) /\ Len(s) = IF i \in 15..19 THEN 2 ELSE 1
  /\ i \in 1..14 => s[1] = Pages[i]
  /\ i \in 15..18 => s[1] = "api" /\ s[2] = Calls[i - 14]
  /\ i \in 19..21 => s[1] = "update"

(* Each route has such words.                                              *)
LEMMA UriIs ==
  ASSUME NEW i \in 1..21
  PROVE  \E S : Uri(i, Routes[i].uri, S)
  <1> DEFINE s == Routes[i].uri
  <1>1. \A S : \A a, b \in S : /\ <<a, b>> \in Seq(S) /\ Len(<<a, b>>) = 2
                               /\ <<a, b>>[1] = a /\ <<a, b>>[2] = b
    OBVIOUS
  <1>2. ASSUME NEW a, NEW b
        PROVE  /\ <<a, b>> \in Seq({a, b}) /\ Len(<<a, b>>) = 2
               /\ <<a, b>>[1] = a /\ <<a, b>>[2] = b
    <2>1. a \in {a, b} /\ b \in {a, b}
      OBVIOUS
    <2> QED BY <1>1, <2>1
  <1>3. CASE i \in 1..14
    <2>1. s = <<Pages[i]>>
      BY <1>3, RoutesAre
    <2> HIDE DEF s
    <2>2. s \in Seq({Pages[i]}) /\ Len(s) = 1 /\ s[1] = Pages[i]
      BY <2>1, Single
    <2>3. i \notin 15..21
      BY <1>3
    <2> QED BY <1>3, <2>2, <2>3 DEF Uri, s
  <1>4. CASE i \in 15..18
    <2> PICK c : c = Calls[i - 14]
      OBVIOUS
    <2>1. s = <<"api", c>>
      BY <1>4, RoutesAre
    <2> HIDE DEF s
    <2>2. s \in Seq({"api", c}) /\ Len(s) = 2 /\ s[1] = "api" /\ s[2] = c
      BY <1>2, <2>1
    <2>3. i \in 15..19 /\ i \notin 1..14 /\ i \notin 19..21
      BY <1>4
    <2> QED BY <2>2, <2>3 DEF Uri, s
  <1>5. CASE i = 19
    <2>1. s = <<"update", "identity">>
      BY <1>5, RoutesAre
    <2> HIDE DEF s
    <2>2. s \in Seq({"update", "identity"}) /\ Len(s) = 2 /\ s[1] = "update"
      BY <1>2, <2>1
    <2>3. i \in 15..19 /\ i \notin 1..14 /\ i \notin 15..18
      BY <1>5
    <2> QED BY <2>2, <2>3 DEF Uri, s
  <1>6. CASE i \in 20..21
    <2>1. s = <<"update">>
      BY <1>6, RoutesAre
    <2> HIDE DEF s
    <2>2. s \in Seq({"update"}) /\ Len(s) = 1 /\ s[1] = "update"
      BY <2>1, Single
    <2>3. i \notin 15..19 /\ i \notin 1..14 /\ i \notin 15..18
      BY <1>6
    <2> QED BY <2>2, <2>3 DEF Uri, s
  <1> QED BY <1>3, <1>4, <1>5, <1>6

(* A URL is under one route at most, but for those of the update.          *)
LEMMA RoutesDiffer ==
  ASSUME NEW i \in 1..21, NEW j \in 1..21, NEW u \in Seq(Byte),
         IsPrefix(Routes[i].uri, u), IsPrefix(Routes[j].uri, u)
  PROVE  i = j \/ (i \in 19..21 /\ j \in 19..21)
  <1>1. ASSUME NEW k \in 1..21, IsPrefix(Routes[k].uri, u)
        PROVE  /\ k \in 1..14 => u[1] = Pages[k]
               /\ k \in 15..18 => u[1] = "api" /\ u[2] = Calls[k - 14]
               /\ k \in 19..21 => u[1] = "update"
    <2> DEFINE s == Routes[k].uri
    <2>1. Len(s) <= Len(u)
      BY <1>1 DEF IsPrefix
    <2> PICK S : Uri(k, s, S)
      BY UriIs
    <2> HIDE DEF s
    <2>2. s \in Seq(S) /\ Len(s) = IF k \in 15..19 THEN 2 ELSE 1
      BY DEF Uri
    <2>3. \A e \in 1..Len(s) : s[e] = u[e]
      BY <1>1, <2>1, <2>2, PrefixIs DEF s
    <2>4. 1 \in 1..Len(s) /\ (k \in 15..18 => 2 \in 1..Len(s))
      BY <2>2
    <2> QED BY <2>3, <2>4 DEF Uri
  <1>2. /\ i \in 1..14 => u[1] = Pages[i]
        /\ i \in 15..18 => u[1] = "api" /\ u[2] = Calls[i - 14]
        /\ i \in 19..21 => u[1] = "update"
    BY <1>1
  <1>3. /\ j \in 1..14 => u[1] = Pages[j]
        /\ j \in 15..18 => u[1] = "api" /\ u[2] = Calls[j - 14]
        /\ j \in 19..21 => u[1] = "update"
    BY <1>1
  <1>4. CASE i \in 1..14 /\ j \in 1..14
    BY <1>2, <1>3, <1>4, PagesDiffer
  <1>5. CASE i \in 15..18 /\ j \in 15..18
    <2>1. Calls[i - 14] = Calls[j - 14] /\ i - 14 \in 1..4 /\ j - 14 \in 1..4
      BY <1>2, <1>3, <1>5
    <2>2. i - 14 = j - 14
      BY <2>1, PagesDiffer
    <2> QED BY <1>5, <2>2
  <1>6. CASE i \in 1..14 /\ j \notin 1..14
    <2>1. u[1] = Pages[i] /\ Pages[i] \notin {"api", "update"}
      BY <1>2, <1>6, PagesDiffer
    <2>2. j \in 15..18 \/ j \in 19..21
      BY <1>6
    <2> QED BY <1>3, <2>1, <2>2
  <1>7. CASE i \notin 1..14 /\ j \in 1..14
    <2>1. u[1] = Pages[j] /\ Pages[j] \notin {"api", "update"}
      BY <1>3, <1>7, PagesDiffer
    <2>2. i \in 15..18 \/ i \in 19..21
      BY <1>7
    <2> QED BY <1>2, <2>1, <2>2
  <1>8. CASE (i \in 15..18 /\ j \in 19..21) \/ (i \in 19..21 /\ j \in 15..18)
    BY <1>2, <1>3, <1>8
  <1>9. CASE i \in 19..21 /\ j \in 19..21
    BY <1>9
  <1> QED BY <1>4, <1>5, <1>6, <1>7, <1>8, <1>9

(* A route takes the request just when it is registered for it.            *)
LEMMA RegisteredIs ==
  ASSUME request \in Requests, NEW i \in 1..21, NEW z,
         z.url = request.url, z.method = Method
  PROVE  Routes[i] \in Registered <=> CanHandle(Routes[i], z)
  <1> DEFINE r == Routes[i]
             u == request.url
  <1>1. u \in Seq(Byte)
    BY RequestIs
  <1>2. \E S : r.uri \in Seq(S)
    BY UriIs DEF Uri
  <1>3. r.method \in {"ANY", "GET", "POST"} /\ r \in Range(Routes)
    <2>1. i \in DOMAIN Routes /\ r.method \in {"ANY", "GET", "POST"}
      BY RoutesAre
    <2> QED BY <2>1 DEF Range
  <1> HIDE DEF r, u
  <1>4. IsPrefix(r.uri, u) <=> Len(r.uri) <= Len(u) /\ r.uri = SubSeq(u, 1, Len(r.uri))
    <2>1. IsPrefix(r.uri, u) => Len(r.uri) <= Len(u)
      BY DEF IsPrefix
    <2> PICK S : r.uri \in Seq(S)
      BY <1>2
    <2>2. Len(r.uri) <= Len(u) => (IsPrefix(r.uri, u) <=> r.uri = SubSeq(u, 1, Len(r.uri)))
      BY <1>1, PrefixIs
    <2> QED BY <2>1, <2>2
  <1>5. (r.method = "ANY" \/ z.method \in {"ANY", r.method})
          <=> (r.method \in {"ANY", request.method} \/ request.method \notin Methods)
    BY <1>3 DEF Method, Methods
  <1> QED BY <1>3, <1>4, <1>5 DEF Registered, CanHandle, r, u

(* The handler is of a nearest route, which for a known method is the only *)
(* one.                                                                    *)
LEMMA RoutedIs ==
  ASSUME request \in Requests, NEW x, Routed(x)
  PROVE  \/ Registered = {} /\ x.handler = "redirect /"
         \/ \E r \in Nearest : /\ x.handler = r.answer
                               /\ request.method \in Methods => Nearest = {r}
  <1> DEFINE z == [url |-> request.url, method |-> Method, handler |-> "none"]
             can == {i \in DOMAIN Routes : CanHandle(Routes[i], z)}
  <1>1. x.handler = IF can = {} THEN "redirect /" ELSE Routes[Min(can)].answer
    <2>1. x.handler = AttachHandler(z).handler
      BY DEF Routed
    <2> QED BY <2>1 DEF AttachHandler
  <1>2. z.url = request.url /\ z.method = Method
    OBVIOUS
  <1> HIDE DEF z
  <1>3. can = {i \in 1..21 : CanHandle(Routes[i], z)}
    BY RoutesAre
  <1>4. \A i \in 1..21 : Routes[i] \in Registered <=> i \in can
    BY <1>2, <1>3, RegisteredIs
  <1>5. \A r \in Registered : \E i \in can : r = Routes[i]
    <2>1. \A r \in Registered : \E i \in 1..21 : r = Routes[i]
      BY RoutesAre DEF Registered, Range
    <2> QED BY <1>4, <2>1
  <1>6. \A i, j \in can : i = j \/ (i \in 19..21 /\ j \in 19..21)
    <2> SUFFICES ASSUME NEW i \in can, NEW j \in can
                 PROVE  i = j \/ (i \in 19..21 /\ j \in 19..21)
      OBVIOUS
    <2>1. /\ i \in 1..21 /\ j \in 1..21
          /\ IsPrefix(Routes[i].uri, request.url) /\ IsPrefix(Routes[j].uri, request.url)
      BY <1>2, <1>3 DEF CanHandle
    <2>2. request.url \in Seq(Byte)
      BY RequestIs
    <2> QED BY <2>1, <2>2, RoutesDiffer
  <1>7. can \in SUBSET Nat /\ can \subseteq 1..21
    BY <1>3
  <1>8. request.method \in Methods => ~(20 \in can /\ 21 \in can)
    <2> SUFFICES ASSUME request.method \in Methods, 20 \in can, 21 \in can PROVE FALSE
      OBVIOUS
    <2>1. z.method = request.method /\ request.method # "ANY"
      BY <1>2 DEF Method, Methods
    <2>2. CanHandle(Routes[20], z) /\ CanHandle(Routes[21], z)
      BY <1>3
    <2>3. Routes[20].method = "GET" /\ Routes[21].method = "POST"
      BY RoutesAre
    <2> QED BY <2>1, <2>2, <2>3 DEF CanHandle
  <1> HIDE DEF can
  <1>9. \A i \in 1..21 : Len(Routes[i].uri) = IF i \in 15..19 THEN 2 ELSE 1
    BY UriIs DEF Uri
  <1>10. CASE can = {}
    <2>1. Registered = {}
      BY <1>5, <1>10
    <2> QED BY <1>1, <1>10, <2>1
  <1>11. CASE can # {}
    <2>1. PICK i : i = Min(can)
      OBVIOUS
    <2>2. i \in can /\ i \in 1..21 /\ \A j \in can : i <= j
      BY <1>7, <1>11, <2>1, Least
    <2> PICK r : r = Routes[i]
      OBVIOUS
    <2>3. r \in Registered /\ x.handler = r.answer
      BY <1>1, <1>4, <1>11, <2>1, <2>2
    <2>4. ASSUME NEW j \in can PROVE Len(Routes[j].uri) <= Len(r.uri)
      <3>1. j \in 1..21 /\ i <= j /\ (i = j \/ (i \in 19..21 /\ j \in 19..21))
        BY <1>6, <1>7, <2>2
      <3>2. /\ Len(Routes[j].uri) = IF j \in 15..19 THEN 2 ELSE 1
            /\ Len(r.uri) = IF i \in 15..19 THEN 2 ELSE 1
        BY <1>9, <2>2, <3>1
      <3> DEFINE m == Len(Routes[j].uri)
                 n == Len(r.uri)
      <3> HIDE DEF m, n
      <3>3. m = (IF j \in 15..19 THEN 2 ELSE 1) /\ n = (IF i \in 15..19 THEN 2 ELSE 1)
        BY <3>2 DEF m, n
      <3>4. m <= n
        BY <2>2, <3>1, <3>3
      <3> QED BY <3>4 DEF m, n
    <2>5. r \in Nearest
      BY <1>5, <2>3, <2>4 DEF Nearest
    <2>6. ASSUME request.method \in Methods, NEW s \in Nearest PROVE s = r
      <3>1. s \in Registered /\ Len(r.uri) <= Len(s.uri)
        BY <2>3 DEF Nearest
      <3>2. PICK j \in can : s = Routes[j]
        BY <1>5, <3>1
      <3>3. j \in 1..21 /\ i <= j /\ (i = j \/ (i \in 19..21 /\ j \in 19..21))
        BY <1>6, <1>7, <2>2
      <3>4. ~(i = 19 /\ j \in 20..21)
        <4> SUFFICES ASSUME i = 19, j \in 20..21 PROVE FALSE
          OBVIOUS
        <4>1. Len(r.uri) = 2 /\ Len(s.uri) = 1
          BY <1>9, <2>2, <3>2
        <4> DEFINE m == Len(r.uri)
                   n == Len(s.uri)
        <4>2. m = 2 /\ n = 1 /\ m <= n
          BY <3>1, <4>1
        <4> HIDE DEF m, n
        <4> QED BY <4>2
      <3>5. i = j
        BY <1>8, <2>2, <2>6, <3>3, <3>4
      <3> QED BY <3>2, <3>5
    <2> QED BY <2>3, <2>5, <2>6
  <1> QED BY <1>10, <1>11

(* The handler of the request is called once, with the last byte, wherever *)
(* TCP has cut it, and it is the one registered for its method and for the *)
(* longest beginning of its URL; for a method that the server does not     *)
(* know, one of that URL.                                                  *)
THEOREM OnceHandled == Spec => []HandledOnce
  <1>1. ParserInv => HandledOnce
    <2> SUFFICES ASSUME ParserInv PROVE HandledOnce
      OBVIOUS
    <2> PICK p : p = Len(A) - Len(rest)
      OBVIOUS
    <2>1. /\ p \in 0..Len(A) /\ request \in Requests
          /\ rest = SubSeq(A, p + 1, Len(A)) /\ Understood(q, p)
      BY DEF ParserInv, A
    <2>2. /\ A \in Seq(Byte) /\ Len(A) \in Nat /\ HeadEnd \in Nat /\ FirstLine \in Nat
          /\ FirstLine < HeadEnd /\ Len(A) = HeadEnd + Len(B) /\ Len(B) \in Nat
      BY <2>1, BytesAre, LenProperties, NoLineEnd, RequestIs
    <2>3. /\ p \in Nat /\ Len(rest) = Len(A) - p
          /\ p = Len(A) => rest = <<>>
          /\ p # Len(A) => rest # <<>>
      <3> PICK e : e = Len(A)
        OBVIOUS
      <3>1. e \in Nat
        BY <2>2
      <3>2. p \in 0..e /\ rest = SubSeq(A, p + 1, e)
        BY <2>1
      <3>3. p \in Nat /\ p <= e
        BY <3>1, <3>2
      <3>4. e <= Len(A)
        BY <3>1
      <3>5. Len(rest) = e - p
        BY <2>2, <3>1, <3>2, <3>3, <3>4, Slice
      <3>6. ASSUME p = e PROVE rest = <<>>
        BY <3>1, <3>2, <3>6, SubSeqEmpty
      <3>7. Len(<<>>) = 0
        OBVIOUS
      <3>8. p # e => e - p # 0
        BY <3>1, <3>3
      <3>9. p # e => rest # <<>>
        BY <3>5, <3>7, <3>8
      <3> QED BY <3>3, <3>5, <3>6, <3>9
    <2>4. CASE AtEnd(q, p)
      <3>1. q.handled = 1 /\ rest = <<>> /\ Routed(q)
        BY <2>3, <2>4 DEF AtEnd, A
      <3> QED BY <2>1, <3>1, RoutedIs DEF HandledOnce
    <2>5. CASE ~AtEnd(q, p)
      <3>1. q.handled = 0 /\ p # Len(A)
        <4>1. CASE AtStart(q, p)
          BY <2>2, <4>1 DEF AtStart, Unread
        <4>2. CASE AtHeaders(q, p)
          BY <2>2, <4>2 DEF AtHeaders, Unread
        <4>3. CASE AtBody(q, p)
          BY <2>2, <4>3 DEF AtBody, InBody, B
        <4> QED BY <2>1, <2>5, <4>1, <4>2, <4>3 DEF Understood
      <3> QED BY <2>3, <3>1 DEF HandledOnce
    <2> QED BY <2>4, <2>5
  <1> QED BY <1>1, ParserHolds, PTL
=============================================================================
