------------------------------ MODULE Request ------------------------------
(***************************************************************************)
(* The parser of requests of the web server of MaxPV (WebRequest.cpp): the *)
(* lines of the head, the parameters of the URL, the body of a form, the   *)
(* parts of a multipart body, and a body given as it comes to the handler, *)
(* which is the one of the route that MaxPV has registered (WebServer.cpp, *)
(* MaxPV3.ino).  TCP may cut the request anywhere; _onData keeps the state *)
(* of the parser from one packet to the next.                              *)
(*                                                                         *)
(* A byte is a symbol, and so is a word nothing looks into.  The headers   *)
(* that only handlers read are left out.                                   *)
(***************************************************************************)
EXTENDS Integers, Sequences, SequencesExt, FiniteSetsExt

CONSTANTS
  Byte,          \* the bytes, and the words
  Boundary,      \* of the multipart bodies
  BufSize,       \* of _itemBuffer, 1460 bytes
  MaxPacket,     \* bytes of a packet that is not the last
  Requests       \* requests: [method, url, query, kind, form, nul, parts, body,
                 \* refused]

VARIABLES
  request,       \* the request on its way
  rest,          \* its bytes that have not arrived
  q              \* the AsyncWebServerRequest

vars == <<request, rest, q>>

----------------------------------------------------------------------------
(* What a browser or another client sends: a body is a form, one sent as   *)
(* text/plain, a multipart one, or of a type the parser does not know.     *)
Kinds == {"get", "form", "text", "multipart", "raw"}
Methods == {"GET", "POST", "DELETE", "PUT", "PATCH", "HEAD", "OPTIONS"}

(* An item of a query or of a form: [name, value, sign, plain].  It has a  *)
(* value behind a sign, or a name only, and comes as it is or encoded.     *)
Code(c) ==
  CASE c = "&" -> <<"%", "2", "6">> [] c = "=" -> <<"%", "3", "D">>
    [] c = "%" -> <<"%", "2", "5">> [] c = "+" -> <<"%", "2", "B">>
    [] c = "?" -> <<"%", "3", "F">> [] c = " " -> <<"+">>
    [] OTHER -> <<c>>

Encode(s) ==
  LET from[i \in 1..(Len(s) + 1)] ==
        IF i > Len(s) THEN <<>> ELSE Code(s[i]) \o from[i + 1]
  IN from[1]

Items ==
  {t \in [name : Seq(Byte), value : Seq(Byte), sign : BOOLEAN, plain : BOOLEAN] :
     /\ ~t.sign => t.value = <<>>
     /\ t.plain => /\ t.name \in Seq(Byte \ {"&", "%", "+", "="})
                   /\ t.value \in Seq(Byte \ {"&", "%", "+"})}

Text(t) ==
  LET Coded(s) == IF t.plain THEN s ELSE Encode(s)
  IN Coded(t.name) \o IF t.sign THEN <<"=">> \o Coded(t.value) ELSE <<>>

(* The items with "&" between them, from each of them to the end.          *)
ItemsFrom(items) ==
  LET from[i \in 1..(Len(items) + 1)] ==
        IF i > Len(items) THEN <<>>
        ELSE Text(items[i])
               \o (IF i = Len(items) THEN <<>> ELSE <<"&">>) \o from[i + 1]
  IN from

Url(r)   == Encode(r.url)
Query(r) == ItemsFrom(r.query)[1]

(* The items of a form end with "&", or with NUL at the places nul.        *)
FormText(r) == ItemsFrom(r.form)[1]
FormBody(r) ==
  [i \in DOMAIN FormText(r) |-> IF i \in r.nul THEN "NUL" ELSE FormText(r)[i]]

(* A part is a field or a file: [name, file, value].                       *)
PartBytes(p) ==
  <<"-", "-">> \o Boundary \o <<"CR", "LF">>
    \o (IF p.file THEN <<p.name, "filename", "CR", "LF", "type", "CR", "LF">>
        ELSE <<p.name, "CR", "LF">>)
    \o <<"CR", "LF">> \o p.value \o <<"CR", "LF">>

(* The body, from each of its parts to its end.                            *)
PartsFrom(parts) ==
  LET from[i \in 1..(Len(parts) + 1)] ==
        IF i > Len(parts) THEN <<"-", "-">> \o Boundary \o <<"-", "-", "CR", "LF">>
        ELSE PartBytes(parts[i]) \o from[i + 1]
  IN from

Body(r) ==
  IF r.kind \in {"form", "text"} THEN FormBody(r)
  ELSE IF r.kind = "multipart" THEN PartsFrom(r.parts)[1] ELSE r.body

Bytes(r) ==
  <<r.method>> \o Url(r) \o <<"?">> \o Query(r) \o <<"LF">>
    \o (IF r.kind = "get" THEN <<>>
        ELSE <<"Content", "Length", "LF", "Content", r.kind, "LF">>)
    \o <<"LF">> \o Body(r)

(* Lines end with LF and parts with the boundary, which has no CR and is   *)
(* not in their values (RFC 2046); a multipart body has a part.  The       *)
(* server has no memory for the buffer of the part "refused", a file.      *)
Delimiter == <<"CR", "LF", "-", "-">> \o Boundary

WellFormed(r) ==
  /\ r.kind \in Kinds
  /\ r.method \in Byte \ {"LF", "?"} /\ r.url \in Seq(Byte)
  /\ Url(r) \in Seq(Byte \ {"CR", "LF", " ", "?", "NUL"})
  /\ r.query \in Seq(Items) /\ r.form \in Seq(Items)
  /\ Query(r) \in Seq(Byte \ {"CR", "LF", " ", "NUL"}) /\ Body(r) \in Seq(Byte)
  /\ FormText(r) \in Seq(Byte \ {"NUL"})
  /\ \A i \in r.nul : i \in DOMAIN FormText(r) /\ FormText(r)[i] = "&"
  /\ r.kind = "get" => r.body = <<>>
  /\ r.parts # <<>> <=> r.kind = "multipart"
  /\ r.parts \in Seq([name : Byte \ {"CR", "LF", "type"}, file : BOOLEAN,
                      value : Seq(Byte)])
  /\ r.refused = 0 \/ (r.refused \in DOMAIN r.parts /\ r.parts[r.refused].file)
  /\ \A i \in DOMAIN r.parts :
       LET v == r.parts[i].value  n == Len(Delimiter)
       IN \A j \in 1..(Len(v) - n + 1) : SubSeq(v, j, j + n - 1) # Delimiter

ASSUME RequestAssumption ==
  /\ Kinds \cup {"CR", "LF", "-", "?", "Content", "Length", "filename", "type"}
       \subseteq Byte
  /\ {"&", "=", "%", "+", "2", "3", "5", "6", "B", "D", "F"} \subseteq Byte
  /\ Boundary \in Seq(Byte \ {"CR"}) \ {<<>>}
  /\ BufSize \in Nat \ {0} /\ MaxPacket \in Nat \ {0}
  /\ \A r \in Requests : WellFormed(r)

----------------------------------------------------------------------------
(* A new request.                                                          *)
New ==
  [parse |-> "START", temp |-> <<>>, params |-> <<>>,
   method |-> "ANY", url |-> <<>>, handler |-> "none",
   contentLength |-> 0, parsedLength |-> 0,
   multipart |-> FALSE,                        \* _isMultipart
   form |-> FALSE, plain |-> FALSE,            \* content type
   plainPost |-> FALSE,                        \* _isPlainPost
   multi |-> "BOUNDARY",                       \* _multiParseState
   boundaryPosition |-> 0,
   name |-> <<>>, isFile |-> FALSE,              \* _item...
   size |-> 0, value |-> <<>>, buffer |-> <<>>,
   part |-> 0,                     \* history: parts whose value has begun
   from |-> 0,                     \* history: upload before this part
   handled |-> 0,                  \* calls of handleRequest
   upload |-> <<>>,                \* history: what handleUpload was given
   raw |-> <<>>,                   \* history: what handleBody was given
   torn |-> FALSE]                 \* history: a piece at another index

Init ==
  \E r \in Requests : request = r /\ rest = Bytes(r) /\ q = New

(* The place of the first t in s, or the one after the end.                *)
IndexOf(s, t) == Min({i \in 1..Len(s) : s[i] = t} \cup {Len(s) + 1})

Param(n, v, post, file, size) ==
  [name |-> n, value |-> v, post |-> post, file |-> file, size |-> size]

AddParam(x, n, v, post, file, size) ==
  [x EXCEPT !.params = Append(@, Param(n, v, post, file, size))]

(* urlDecode: "%" and two digits, if they are there.                       *)
Char(a, b) ==
  CASE <<a, b>> = <<"2", "6">> -> "&" [] <<a, b>> = <<"3", "D">> -> "="
    [] <<a, b>> = <<"2", "5">> -> "%" [] <<a, b>> = <<"2", "B">> -> "+"
    [] <<a, b>> = <<"3", "F">> -> "?" [] OTHER -> "NUL"

UrlDecode(s) ==
  LET from[i \in 1..(Len(s) + 1)] ==
        IF i > Len(s) THEN <<>>
        ELSE IF s[i] = "%" /\ i + 2 <= Len(s)
        THEN <<Char(s[i + 1], s[i + 2])>> \o from[i + 3]
        ELSE <<IF s[i] = "+" THEN " " ELSE s[i]>> \o from[i + 1]
  IN from[1]

(* name=value, or name.                                                    *)
Pair(s) ==
  LET e == IndexOf(s, "=")
  IN <<UrlDecode(SubSeq(s, 1, e - 1)), UrlDecode(SubSeq(s, e + 1, Len(s)))>>

AddGetParams(x, s) ==
  LET End(i) == i + IndexOf(SubSeq(s, i, Len(s)), "&") - 1
      Named(p) == Param(p[1], p[2], FALSE, FALSE, 0)
      from[i \in 1..(Len(s) + 2)] ==
        IF i > Len(s) THEN <<>>
        ELSE <<Named(Pair(SubSeq(s, i, End(i) - 1)))>> \o from[End(i) + 1]
  IN [x EXCEPT !.params = @ \o from[1]]

(* hasParam and getParam; MaxPV asks for the parameters of the query.      *)
Found(x, n, post, file) ==
  {i \in DOMAIN x.params : x.params[i].name = n /\ x.params[i].post = post
                             /\ x.params[i].file = file}
HasParam(x, n, post, file) == Found(x, n, post, file) # {}
GetParam(x, n, post, file) == x.params[Min(Found(x, n, post, file))].value

----------------------------------------------------------------------------
(* The routes of MaxPV in their order, and those of AsyncElegantOTA.begin; *)
(* a URL is its words between "/".                                         *)
Route(u, m, a) == [uri |-> u, method |-> m, answer |-> a]
File(f) == Route(<<f>>, "ANY", f)

Routes ==
  <<Route(<<"">>, "ANY", "main.html"), File("index.html"),
    File("configuration.html"), File("main.html"), File("admin.html"),
    File("boost.html"), File("credits.html"), File("wizard.html"),
    Route(<<"maj.html">>, "ANY", "redirect /update"), File("graph.html"),
    File("maxpv.css"), File("favicon.ico"),
    Route(<<"DLconfig">>, "ANY", "config.json"),
    Route(<<"DLindex">>, "ANY", "index.json"),
    Route(<<"api", "action">>, "GET", "action"),
    Route(<<"api", "get">>, "GET", "get"), Route(<<"api", "set">>, "GET", "set"),
    Route(<<"api", "history">>, "GET", "history"),
    Route(<<"update", "identity">>, "GET", "identity"),
    Route(<<"update">>, "GET", "page"), Route(<<"update">>, "POST", "update")>>

(* canHandle: the URL, or one that goes on behind it; the methods are bits *)
(* and "ANY" is all of them, on both sides.                                *)
CanHandle(r, x) ==
  /\ r.method = "ANY" \/ x.method \in {"ANY", r.method}
  /\ IsPrefix(r.uri, x.url)

(* _attachHandler: the first that can; onNotFound redirects.               *)
AttachHandler(x) ==
  LET can == {i \in DOMAIN Routes : CanHandle(Routes[i], x)}
  IN [x EXCEPT !.handler = IF can = {} THEN "redirect /" ELSE Routes[Min(can)].answer]

----------------------------------------------------------------------------
(* _parseReqHead: method, which stays "ANY" when it is none of these, URL  *)
(* and what is behind its question mark.                                   *)
ParseReqHead(x) ==
  LET e == IndexOf(x.temp, "?")
  IN [AddGetParams(x, SubSeq(x.temp, e + 1, Len(x.temp))) EXCEPT
        !.parse = "HEADERS", !.temp = <<>>,
        !.method = IF x.temp[1] \in Methods THEN x.temp[1] ELSE @,
        !.url = UrlDecode(SubSeq(x.temp, 2, e - 1))]

(* _parseReqHeader, the headers that matter here.                          *)
ParseReqHeader(x) ==
  [x EXCEPT !.temp = <<>>,
     !.contentLength = IF x.temp[2] = "Length" THEN Len(Body(request)) ELSE @,
     !.multipart = @ \/ x.temp[2] = "multipart",
     !.form      = @ \/ x.temp[2] = "form",
     !.plain     = @ \/ x.temp[2] = "text"]

HandleRequest(x) == [x EXCEPT !.parse = "END", !.handled = @ + 1]

(* _parseLine.                                                             *)
ParseLine(x) ==
  IF x.parse = "START" THEN ParseReqHead(x)
  ELSE IF x.temp # <<>> THEN ParseReqHeader(x)
  ELSE IF x.contentLength > 0 THEN [AttachHandler(x) EXCEPT !.parse = "BODY"]
  ELSE HandleRequest(AttachHandler(x))

----------------------------------------------------------------------------
(* Forms: a parameter ends with "&", with NUL or with the body.            *)
(* _parsePlainPostChar.                                                    *)
ParsePlainPostChar(x, d) ==
  LET ends == d \in {"&", "NUL"}
      y == IF ends THEN x ELSE [x EXCEPT !.temp = Append(@, d)]
      e == IndexOf(y.temp, "=")
      named == e \in 2..Len(y.temp) /\ y.temp[1] \notin {"{", "["}
      n == IF named THEN SubSeq(y.temp, 1, e - 1) ELSE <<"body">>
      v == IF named THEN SubSeq(y.temp, e + 1, Len(y.temp)) ELSE y.temp
  IN IF ends \/ x.parsedLength = x.contentLength
     THEN [AddParam(y, UrlDecode(n), UrlDecode(v), TRUE, FALSE, 0)
             EXCEPT !.temp = <<>>]
     ELSE y

----------------------------------------------------------------------------
(* Multipart: an automaton that looks for CR LF - - boundary in the value  *)
(* of a part, and writes what it had taken for it when it is not.          *)

UploadMutant(x) ==   \* the buffer is not emptied
  [x EXCEPT !.upload = @ \o x.buffer,
            !.torn = @ \/ x.size - Len(x.buffer) # Len(x.upload) - x.from]

(* handleUpload with what the buffer holds.                                *)
HandleUpload(x) ==
  [x EXCEPT !.upload = @ \o x.buffer, !.buffer = <<>>,
            !.torn = @ \/ x.size - Len(x.buffer) # Len(x.upload) - x.from]

HandleUploadByte(x, d, last) ==
  LET y == [x EXCEPT !.buffer = Append(@, d)]
  IN IF last \/ Len(y.buffer) = BufSize THEN HandleUpload(y) ELSE y

(* itemWriteByte, for each of the bytes.                                   *)
ItemWriteByte(x, d, last) ==
  LET y == [x EXCEPT !.size = @ + 1]
  IN IF y.isFile THEN HandleUploadByte(y, d, last)
     ELSE [y EXCEPT !.value = Append(@, d)]

ItemWrite(x, s, last) ==
  LET written[i \in 0..Len(s)] ==
        IF i = 0 THEN x ELSE ItemWriteByte(written[i - 1], s[i], last)
  IN written[Len(s)]

(* WAIT_FOR_RETURN1.                                                       *)
WaitForReturn(x, d, last) ==
  IF d = "CR" THEN [x EXCEPT !.multi = "FEED1"]
  ELSE ItemWriteByte([x EXCEPT !.multi = "RETURN1"], d, last)

(* It was not the boundary: the bytes s were of the value, and d is looked *)
(* at anew.                                                                *)
NotMutant(x, s, d, last) ==   \* the byte is written
  ItemWriteByte(ItemWrite([x EXCEPT !.multi = "RETURN1"], s, last), d, last)

NotBoundary(x, s, d, last) == WaitForReturn(ItemWrite(x, s, last), d, last)

(* EXPECT_BOUNDARY, at the beginning of the body.                          *)
ExpectBoundary(x, d) ==
  LET first == <<"-", "-">> \o Boundary \o <<"CR", "LF">>
      p == x.parsedLength + 1
  IN IF first[p] # d THEN [x EXCEPT !.multi = "ERROR"]
     ELSE IF p = Len(first) THEN [x EXCEPT !.multi = "HEADERS", !.isFile = FALSE]
     ELSE x

(* PARSE_HEADERS: the name of the part; a file has a name or a type, and a *)
(* buffer, if malloc gives it one: nothing is read of the body otherwise.  *)
PartHeader(x) ==
  IF x.temp = <<"type">> THEN [x EXCEPT !.isFile = TRUE, !.temp = <<>>]
  ELSE [x EXCEPT !.name = <<x.temp[1]>>, !.isFile = @ \/ Len(x.temp) > 1, !.temp = <<>>]

ParseHeaders(x, d) ==
  IF d = "CR" THEN x
  ELSE IF d # "LF" THEN [x EXCEPT !.temp = Append(@, d)]
  ELSE IF x.temp # <<>> THEN PartHeader(x)
  ELSE [x EXCEPT !.size = 0, !.value = <<>>, !.buffer = <<>>,
                 !.from = Len(x.upload), !.part = @ + 1,
                 !.multi = IF x.isFile /\ x.part + 1 = request.refused
                           THEN "ERROR" ELSE "RETURN1"]

(* The boundary is there: the part is complete.                            *)
EndOfPart(x) ==
  LET y == [x EXCEPT !.multi = "RETURN2"]
  IN IF ~y.isFile THEN AddParam(y, y.name, y.value, TRUE, FALSE, 0)
     ELSE IF y.size > 0 THEN AddParam(HandleUpload(y), y.name, <<>>, TRUE, TRUE, y.size)
     ELSE y

BoundaryOrData(x, d, last) ==
  LET p == x.boundaryPosition
  IN IF Boundary[p + 1] # d
     THEN NotBoundary(x, SubSeq(Delimiter, 1, p + 4), d, last)
     ELSE IF p = Len(Boundary) - 1 THEN EndOfPart(x)
     ELSE [x EXCEPT !.boundaryPosition = @ + 1]

(* DASH3_OR_RETURN2: "lets close the request gracefully".                  *)
DashOrReturn(x, d, last) ==
  IF d = "-"
  THEN [x EXCEPT !.contentLength = x.parsedLength + 4, !.multi = "FINISHED"]
  ELSE IF d = "CR" THEN [x EXCEPT !.multi = "FEED2"]
  ELSE NotBoundary(x, Delimiter, d, last)

(* _parseMultipartPostByte.                                                *)
ParseMultipartPostByte(x, d, last) ==
  CASE x.multi = "RETURN1"  -> WaitForReturn(x, d, last)
       [] x.multi = "BOUNDARY" -> ExpectBoundary(x, d)
       [] x.multi = "HEADERS"  -> ParseHeaders(x, d)
       [] x.multi = "FEED1" ->
            IF d = "LF" THEN [x EXCEPT !.multi = "DASH1"]
            ELSE NotBoundary(x, <<"CR">>, d, last)
       [] x.multi = "DASH1" ->
            IF d = "-" THEN [x EXCEPT !.multi = "DASH2"]
            ELSE NotBoundary(x, <<"CR", "LF">>, d, last)
       [] x.multi = "DASH2" ->
            IF d = "-" THEN [x EXCEPT !.multi = "DATA", !.boundaryPosition = 0]
            ELSE NotBoundary(x, <<"CR", "LF", "-">>, d, last)
       [] x.multi = "DATA"    -> BoundaryOrData(x, d, last)
       [] x.multi = "RETURN2" -> DashOrReturn(x, d, last)
       [] x.multi = "FEED2" ->
            IF d = "LF" THEN [x EXCEPT !.multi = "HEADERS", !.isFile = FALSE]
            ELSE NotBoundary(x, Delimiter \o <<"CR">>, d, last)
       [] OTHER -> x

----------------------------------------------------------------------------
(* _onData: the bytes of a multipart body or of a form, one by one.        *)
BodyByte(x, d, last) ==
  IF x.multipart
  THEN [ParseMultipartPostByte(x, d, last) EXCEPT !.parsedLength = @ + 1]
  ELSE ParsePlainPostChar([x EXCEPT !.parsedLength = @ + 1], d)

OnBytes(x, buf) ==
  LET parsed[i \in 0..Len(buf)] ==
        IF i = 0 THEN x ELSE BodyByte(parsed[i - 1], buf[i], i = Len(buf))
  IN parsed[Len(buf)]

(* handleBody.                                                             *)
OnRaw(x, buf) ==
  [x EXCEPT !.raw = @ \o buf, !.torn = @ \/ x.parsedLength # Len(x.raw),
            !.parsedLength = @ + Len(buf)]

(* A text/plain body is read as a form if its first bytes to come are a    *)
(* name, "=" and something behind it.                                      *)
LooksNamed(buf) ==
  LET e == IndexOf(buf, "=")
  IN /\ e \in 2..(Len(buf) - 1)
     /\ \A i \in 1..(e - 1) : buf[i] \notin {"NUL", "{", "[", "&"}

PlainPost(x, buf) ==
  LET asForm == x.form \/ (x.plain /\ LooksNamed(buf))
  IN [x EXCEPT !.plainPost = @ \/ (x.parsedLength = 0 /\ asForm)]

OnBody(x, buf) ==
  LET y == PlainPost(x, buf)
      z == IF y.multipart \/ y.plainPost THEN OnBytes(y, buf) ELSE OnRaw(y, buf)
  IN IF z.parsedLength = z.contentLength THEN HandleRequest(z) ELSE z

(* A turn of its loop, with the request and what is left of the packet: a  *)
(* line, the beginning of one, which waits for its end, or the body.       *)
TurnMutant(t) ==   \* what follows a line in the packet is dropped
  LET x == t[1]  buf == t[2]
      i == IndexOf(buf, "LF")
      y == [x EXCEPT !.temp = @ \o SubSeq(buf, 1, i - 1)]
  IN IF buf = <<>> \/ x.parse = "END" THEN <<x, <<>>>>
     ELSE IF x.parse = "BODY" THEN <<OnBody(x, buf), <<>>>>
     ELSE IF i > Len(buf) THEN <<y, <<>>>>
     ELSE <<ParseLine(y), <<>>>>
Turn(t) ==
  LET x == t[1]  buf == t[2]
      i == IndexOf(buf, "LF")
      y == [x EXCEPT !.temp = @ \o SubSeq(buf, 1, i - 1)]
  IN IF buf = <<>> \/ x.parse = "END" THEN <<x, <<>>>>
     ELSE IF x.parse = "BODY" THEN <<OnBody(x, buf), <<>>>>
     ELSE IF i > Len(buf) THEN <<y, <<>>>>
     ELSE <<ParseLine(y), SubSeq(buf, i + 1, Len(buf))>>

(* A packet takes a turn for each line of a head, four at most, and one    *)
(* for what comes after it.                                                *)
OnData(x, buf) ==
  LET turns[i \in 0..5] == IF i = 0 THEN <<x, buf>> ELSE Turn(turns[i - 1])
  IN turns[5][1]

(* A packet of some bytes, or of all that is left.                         *)
Packet(n) ==
  /\ n <= Len(rest)
  /\ q' = OnData(q, SubSeq(rest, 1, n))
  /\ rest' = SubSeq(rest, n + 1, Len(rest))
  /\ UNCHANGED request

Next == \E n \in 1..MaxPacket \cup {Len(rest)} : n > 0 /\ Packet(n)

Spec == Init /\ [][Next]_vars

----------------------------------------------------------------------------
(* Properties *)

(* Reference: the parameters that the request stands for; the last item    *)
(* when it is not empty, and a text of a form without a name as "body".    *)
Sent(n, v, post) ==
  [name |-> n, value |-> v, post |-> post, file |-> FALSE, size |-> 0]

Unnamed(t) == ~t.sign \/ t.name = <<>> \/ t.name[1] \in {"{", "["}

ItemMeaning(t, form) ==
  IF form /\ Unnamed(t)
  THEN Sent(<<"body">>, t.name \o IF t.sign THEN <<"=">> \o t.value ELSE <<>>, form)
  ELSE Sent(t.name, t.value, form)

Meaning(items, form) ==
  LET n == Len(items)
      given == IF n > 0 /\ Text(items[n]) = <<>> THEN 1..(n - 1) ELSE 1..n
  IN [k \in given |-> ItemMeaning(items[k], form)]

(* Of the first parts; a file without contents is none.                    *)
PartMeaning(p) ==
  IF p.file
  THEN [name |-> <<p.name>>, value |-> <<>>, post |-> TRUE, file |-> TRUE,
        size |-> Len(p.value)]
  ELSE Sent(<<p.name>>, p.value, TRUE)

PartsUpTo(parts) ==
  LET upTo[i \in 0..Len(parts)] ==
        IF i = 0 THEN <<>>
        ELSE upTo[i - 1] \o IF parts[i].file /\ parts[i].value = <<>> THEN <<>>
                            ELSE <<PartMeaning(parts[i])>>
  IN upTo

InQuery == Meaning(request.query, FALSE)

(* The parts that are read: all, or those before the one refused.          *)
Read == IF request.refused = 0 THEN Len(request.parts) ELSE request.refused - 1

Expected ==
  InQuery
    \o CASE request.kind = "multipart"         -> PartsUpTo(request.parts)[Read]
         [] request.kind \in {"form", "text"} -> Meaning(request.form, TRUE)
         [] OTHER                              -> <<>>

(* A body that goes to handleBody: which one a text/plain body is depends  *)
(* on its first packet.                                                    *)
GivenRaw ==
  request.kind = "raw" \/ (request.kind = "text" /\ ~q.plainPost)

(* The handler is called once, with the last byte of the request and not   *)
(* before, wherever TCP has cut it and whatever malloc has refused; and it *)
(* is the only one registered for this method and the longest beginning of *)
(* this URL: the order of the routes does not matter, no route hides       *)
(* another, a POST to the API changes nothing and one to /update does not  *)
(* get its page.  A method that the server does not know has one of those  *)
(* routes, whatever its method.                                            *)
Registered ==
  {r \in Range(Routes) : /\ Len(r.uri) <= Len(request.url)
                         /\ r.uri = SubSeq(request.url, 1, Len(r.uri))
                         /\ \/ r.method \in {"ANY", request.method}
                            \/ request.method \notin Methods}
Nearest == {r \in Registered : \A s \in Registered : Len(s.uri) <= Len(r.uri)}
HandledOnce ==
  /\ q.handled = IF rest = <<>> THEN 1 ELSE 0
  /\ q.handled = 1 =>
       \/ Registered = {} /\ q.handler = "redirect /"
       \/ \E r \in Nearest : /\ q.handler = r.answer
                             /\ request.method \in Methods => Nearest = {r}

(* It finds the parameters that were sent, in their order, and no others,  *)
(* whatever pieces of a boundary or signs of a query their values contain; *)
(* of a name that comes twice, the first in the query, and none of a form. *)
(* Of a text/plain body it finds all or none (GivenRaw), and none of the   *)
(* parts from a file on whose buffer malloc refuses (Read).                *)
ParsedAsSent ==
  q.handled = 1 =>
    /\ q.params = IF GivenRaw THEN InQuery ELSE Expected
    /\ \A n \in {p.name : p \in Range(Expected)} :
         LET same == {i \in DOMAIN InQuery : InQuery[i].name = n} IN
         /\ HasParam(q, n, FALSE, FALSE) <=> same # {}
         /\ same # {} => GetParam(q, n, FALSE, FALSE) = InQuery[Min(same)].value

(* The contents of the files among the first parts.                        *)
FilesUpTo(parts) ==
  LET upTo[i \in 0..Len(parts)] ==
        IF i = 0 THEN <<>>
        ELSE upTo[i - 1] \o IF parts[i].file THEN parts[i].value ELSE <<>>
  IN upTo

(* A file or a body given in pieces is the one that was sent: each piece   *)
(* is at the place it says, and together they are the whole; the buffer    *)
(* that collects them never overflows.  A body read as parameters is not   *)
(* given, and nothing of a file without a buffer is (Read).                *)
PiecesAreWhole ==
  /\ ~q.torn /\ Len(q.buffer) < BufSize
  /\ q.handled = 1 =>
       /\ q.raw = IF GivenRaw THEN Body(request) ELSE <<>>
       /\ q.upload = FilesUpTo(request.parts)[Read]
=============================================================================
