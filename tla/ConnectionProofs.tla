-------------------------- MODULE ConnectionProofs --------------------------
(***************************************************************************)
(* The connections of MaxPV, for any sizes of responses and of the send    *)
(* buffer, any cutting of the acknowledgements and any refusal of lwIP:    *)
(* nothing is used after its end, the counters are those of lwIP, and what *)
(* is sent is the response.  Whatever lwIP refuses, the send buffer is     *)
(* never over its room.  At the end of the module, what the broker holds   *)
(* about MaxPV over the connection to it, and the types of the session.    *)
(*                                                                         *)
(* A function of the library is an operator from a record to a record: the *)
(* first part says which fields each changes, and how.  Then one lemma per *)
(* action, for each of the two inductive invariants.                       *)
(***************************************************************************)
EXTENDS Connection, Mqtt, SequenceTheorems, TLAPS

----------------------------------------------------------------------------
(* What the operators change                                               *)

(* y is x but for some of its fields.                                      *)
Frame(x, y, S) ==
  DOMAIN y = Fields /\ \A f \in Fields \ S : y[f] = x[f]

(* The fields of a client, by name.                                        *)
LEMMA FieldsAre ==
  Fields = {"alive", "request", "owner", "link", "connects", "pcb", "busy",
              "closing", "unacked", "unsent", "acked", "sentAge", "rxAge",
              "rxTimeout", "errored", "closeError", "parse", "response",
              "kind", "front", "size", "length", "sent", "head", "left",
              "written", "ackedLength", "ret", "lwip", "queued", "flight",
              "put", "gap", "failed", "aborts", "told", "refused", "bad",
              "packets"}
  BY DEF Fields, Client

(* The error is kept, unless one has been told to lwIP already.            *)
LEMMA SetCloseErrorDoes ==
  ASSUME NEW x, DOMAIN x = Fields, NEW e
  PROVE  /\ Frame(x, SetCloseError(x, e), {"closeError"})
         /\ SetCloseError(x, e).closeError = IF x.errored THEN x.closeError ELSE e
  BY FieldsAre DEF Frame, SetCloseError

(* A callback tells lwIP of an abort when it returns.                      *)
LEMMA ReturnedDoes ==
  ASSUME NEW x, DOMAIN x = Fields
  PROVE  /\ Frame(x, Returned(x), {"errored", "told"})
         /\ IF ~x.errored /\ x.closeError = "ABRT"
            THEN Returned(x).errored /\ Returned(x).told = x.told + 1
            ELSE Returned(x) = x
  BY FieldsAre DEF Frame, Returned

(* The server discards its client, MQTT its link.                          *)
LEMMA DiscardDoes ==
  ASSUME NEW x, DOMAIN x = Fields
  PROVE  /\ x.owner = "mqtt" =>
              /\ Frame(x, Discard(x), {"link", "bad"})
              /\ Discard(x).link = "none"
              /\ ~x.bad /\ x.link # "none" => ~Discard(x).bad
         /\ x.owner # "mqtt" =>
              /\ Frame(x, Discard(x), {"alive", "request", "response", "bad"})
              /\ ~Discard(x).alive /\ ~Discard(x).request
              /\ Discard(x).response = "NONE"
              /\ ~x.bad /\ x.alive /\ x.request => ~Discard(x).bad
  BY FieldsAre DEF Frame, Discard

(* An abort ends the pcb, and is counted.                                  *)
LEMMA AbortDoes ==
  ASSUME NEW x, DOMAIN x = Fields
  PROVE  /\ Frame(x, Abort(x), {"lwip", "pcb", "aborts", "closeError"})
         /\ Abort(x).lwip = "free" /\ ~Abort(x).pcb
         /\ Abort(x).aborts = x.aborts + 1
         /\ Abort(x).closeError = IF x.errored THEN x.closeError ELSE "ABRT"
<1> DEFINE y == [x EXCEPT !.lwip = "free", !.pcb = FALSE, !.aborts = @ + 1]
<1>1. /\ Frame(x, y, {"lwip", "pcb", "aborts"})
      /\ y.lwip = "free" /\ ~y.pcb /\ y.aborts = x.aborts + 1
  BY FieldsAre DEF Frame
<1>2. Abort(x) = SetCloseError(y, "ABRT")
  BY DEF Abort
<1> HIDE DEF y
<1>3. /\ Frame(y, Abort(x), {"closeError"})
      /\ Abort(x).closeError = IF y.errored THEN y.closeError ELSE "ABRT"
  BY <1>1, <1>2, SetCloseErrorDoes DEF Frame
<1> QED
  BY <1>1, <1>3, FieldsAre DEF Frame

(* Closing ends the pcb, and then the request and the client of the        *)
(* server; the client to the broker is told.                               *)
LEMMA CloseNowDoes ==
  ASSUME NEW x, DOMAIN x = Fields, x.pcb, NEW f
  PROVE  LET y == CloseNow(x, f) IN
         /\ DOMAIN y = Fields /\ ~y.pcb
         /\ IF f = "close"
            THEN /\ y.lwip = "free" /\ y.aborts = x.aborts + 1
                 /\ y.closeError = IF x.errored THEN x.closeError ELSE "ABRT"
            ELSE /\ y.lwip = "closed" /\ y.aborts = x.aborts
                 /\ y.closeError = IF x.errored THEN x.closeError ELSE "OK"
         /\ x.owner = "mqtt" =>
              /\ y.link = "none"
              /\ ~x.bad /\ x.link # "none" => ~y.bad
              /\ Frame(x, y, {"pcb", "lwip", "aborts", "closeError", "link", "bad"})
         /\ x.owner # "mqtt" =>
              /\ ~y.alive /\ ~y.request /\ y.response = "NONE"
              /\ ~x.bad /\ x.alive /\ x.request => ~y.bad
              /\ Frame(x, y, {"pcb", "lwip", "aborts", "closeError", "alive",
                              "request", "response", "bad"})
<1> DEFINE v == IF f = "close" THEN Abort(x)
                ELSE SetCloseError([x EXCEPT !.lwip = "closed"], "OK")
           w == [v EXCEPT !.pcb = FALSE]
<1>1. /\ Frame(x, v, {"lwip", "pcb", "aborts", "closeError"})
      /\ IF f = "close"
            THEN /\ v.lwip = "free" /\ v.aborts = x.aborts + 1
                 /\ v.closeError = IF x.errored THEN x.closeError ELSE "ABRT"
            ELSE /\ v.lwip = "closed" /\ v.aborts = x.aborts
                 /\ v.closeError = IF x.errored THEN x.closeError ELSE "OK"
  <2>1. CASE f = "close"
    BY <2>1, AbortDoes
  <2>2. CASE f # "close"
    <3> DEFINE u == [x EXCEPT !.lwip = "closed"]
    <3>1. Frame(x, u, {"lwip"}) /\ u.lwip = "closed"
      BY FieldsAre DEF Frame
    <3> HIDE DEF u
    <3>2. /\ Frame(u, SetCloseError(u, "OK"), {"closeError"})
          /\ SetCloseError(u, "OK").closeError
               = IF u.errored THEN u.closeError ELSE "OK"
      BY <3>1, SetCloseErrorDoes DEF Frame
    <3>3. v = SetCloseError(u, "OK")
      BY <2>2 DEF u
    <3> HIDE DEF v
    <3> QED
      BY <2>2, <3>1, <3>2, <3>3, FieldsAre DEF Frame
  <2> QED
    BY <2>1, <2>2
<1> HIDE DEF v
<1>2. Frame(v, w, {"pcb"}) /\ ~w.pcb
  BY <1>1, FieldsAre DEF Frame
<1>3. CloseNow(x, f) = Discard(w)
  BY DEF CloseNow, w, v
<1> HIDE DEF w
<1>4. /\ Frame(x, w, {"lwip", "pcb", "aborts", "closeError"})
      /\ w.lwip = v.lwip /\ w.aborts = v.aborts /\ w.closeError = v.closeError
  BY <1>1, <1>2, FieldsAre DEF Frame
<1>5. DOMAIN w = Fields
  BY <1>4 DEF Frame
<1>6. CASE x.owner = "mqtt"
  <2>1. w.owner = "mqtt" /\ w.link = x.link /\ w.bad = x.bad
    BY <1>4, <1>6, FieldsAre DEF Frame
  <2>2. /\ Frame(w, Discard(w), {"link", "bad"}) /\ Discard(w).link = "none"
        /\ ~w.bad /\ w.link # "none" => ~Discard(w).bad
    BY <1>5, <2>1, DiscardDoes
  <2> QED
    BY <1>1, <1>2, <1>3, <1>4, <1>6, <2>1, <2>2, FieldsAre DEF Frame
<1>7. CASE x.owner # "mqtt"
  <2>1. /\ w.owner # "mqtt" /\ w.alive = x.alive /\ w.request = x.request
        /\ w.bad = x.bad
    BY <1>4, <1>7, FieldsAre DEF Frame
  <2>2. /\ Frame(w, Discard(w), {"alive", "request", "response", "bad"})
        /\ ~Discard(w).alive /\ ~Discard(w).request
        /\ Discard(w).response = "NONE"
        /\ ~w.bad /\ w.alive /\ w.request => ~Discard(w).bad
    BY <1>5, <2>1, DiscardDoes
  <2> QED
    BY <1>1, <1>2, <1>3, <1>4, <1>7, <2>1, <2>2, FieldsAre DEF Frame
<1> QED
  BY <1>6, <1>7

(* What write() and send() count.  What lwIP refuses is on record.         *)
Sends  == {"busy", "unacked", "unsent", "sentAge", "flight", "queued", "failed"}
Writes == Sends \cup {"put", "gap", "ret", "written"}

(* send() takes all that is queued.                                        *)
LEMMA SendDoes ==
  ASSUME NEW x, DOMAIN x = Fields, NEW f
  PROVE  LET y == Send(x, f) IN
         /\ Frame(x, y, Sends)
         /\ y.failed <=> x.failed \/ f = "output"
         /\ f # "output" =>
              /\ y.busy /\ y.sentAge = 0 /\ y.unsent = 0 /\ y.queued = 0
              /\ y.unacked = x.unacked + x.unsent
              /\ y.flight = x.flight + x.queued
  BY FieldsAre DEF Frame, Sends, Send

(* k bytes are given to lwIP, and sent; or the refusal is on record.       *)
LEMMA WriteDoes ==
  ASSUME NEW x, DOMAIN x = Fields, NEW n, NEW from, NEW f
  PROVE  LET y == Write(x, n, from, f)
             k == Least(n, Space(x)) IN
         /\ Frame(x, y, Writes)
         /\ ~y.failed =>
              /\ ~x.failed
              /\ k = 0 => Frame(x, y, {"ret"})
              /\ k # 0 =>
                   /\ y.busy /\ y.sentAge = 0 /\ y.unsent = 0 /\ y.queued = 0
                   /\ y.unacked = x.unacked + (x.unsent + k)
                   /\ y.flight = x.flight + (x.queued + k)
                   /\ y.put = IF from = x.put THEN x.put + k ELSE x.put
                   /\ from = x.put /\ ~x.gap => ~y.gap
<1> DEFINE k == Least(n, Space(x))
           u == [x EXCEPT !.queued = @ + k, !.unsent = @ + k,
                          !.put = IF from = @ THEN @ + k ELSE @,
                          !.gap = @ \/ from # x.put]
           s == Send(u, f)
           y == Write(x, n, from, f)
<1> HIDE DEF k
<1>1. CASE k = 0
  <2>1. y = [x EXCEPT !.ret = 0]
    BY <1>1 DEF Write, k
  <2>2. Frame(x, y, {"ret"}) /\ y.failed = x.failed
    BY <2>1, FieldsAre DEF Frame
  <2>3. Frame(x, y, Writes)
    BY <2>2 DEF Frame, Writes
  <2> HIDE DEF y
  <2> QED
    BY <1>1, <2>2, <2>3 DEF k, y
<1>2. CASE k # 0 /\ f = "write"
  <2>1. y = [x EXCEPT !.ret = 0, !.failed = TRUE]
    BY <1>2 DEF Write, k
  <2>2. Frame(x, y, Writes) /\ y.failed
    BY <2>1, FieldsAre DEF Frame, Writes, Sends
  <2> QED
    BY <1>2, <2>2
<1>3. CASE k # 0 /\ f # "write"
  <2>1. y = [s EXCEPT !.ret = IF f = "output" THEN 0 ELSE k]
    BY <1>3 DEF Write, k
  <2>2. /\ Frame(x, u, {"queued", "unsent", "put", "gap"})
        /\ u.queued = x.queued + k /\ u.unsent = x.unsent + k
        /\ u.put = IF from = x.put THEN x.put + k ELSE x.put
    BY FieldsAre DEF Frame
  <2>3. from = x.put /\ ~x.gap => ~u.gap
    BY FieldsAre
  <2> HIDE DEF u
  <2>4. /\ Frame(u, s, Sends)
        /\ s.failed <=> u.failed \/ f = "output"
        /\ f # "output" =>
             /\ s.busy /\ s.sentAge = 0 /\ s.unsent = 0 /\ s.queued = 0
             /\ s.unacked = u.unacked + u.unsent
             /\ s.flight = u.flight + u.queued
    BY <2>2, SendDoes DEF Frame
  <2> HIDE DEF s
  <2>5. Frame(s, y, {"ret"})
    BY <2>1, <2>4, FieldsAre DEF Frame
  <2>6. Frame(x, y, Writes)
    BY <2>2, <2>4, <2>5 DEF Frame, Writes, Sends
  <2> HIDE DEF y
  <2>7. ASSUME ~y.failed
        PROVE  /\ ~x.failed /\ y.busy /\ y.sentAge = 0 /\ y.unsent = 0
               /\ y.queued = 0
               /\ y.unacked = x.unacked + (x.unsent + k)
               /\ y.flight = x.flight + (x.queued + k)
               /\ y.put = IF from = x.put THEN x.put + k ELSE x.put
               /\ from = x.put /\ ~x.gap => ~y.gap
    <3>1. ~s.failed /\ ~x.failed /\ f # "output"
      BY <2>2, <2>4, <2>5, <2>7, FieldsAre DEF Frame
    <3>2. /\ y.busy = s.busy /\ y.sentAge = s.sentAge /\ y.unsent = s.unsent
          /\ y.queued = s.queued /\ y.unacked = s.unacked
          /\ y.flight = s.flight /\ y.put = s.put /\ y.gap = s.gap
      BY <2>5, FieldsAre DEF Frame
    <3>3. s.put = u.put /\ s.gap = u.gap
      BY <2>4, FieldsAre DEF Frame, Sends
    <3>4. u.unacked = x.unacked /\ u.flight = x.flight
      BY <2>2, FieldsAre DEF Frame
    <3> QED
      BY <2>2, <2>3, <2>4, <3>1, <3>2, <3>3, <3>4
  <2> QED
    BY <1>3, <2>6, <2>7 DEF y, k
<1> QED
  BY <1>1, <1>2, <1>3 DEF k

(* The same for a response, which counts what it has written too.          *)
LEMMA WriteOutDoes ==
  ASSUME NEW x, DOMAIN x = Fields, NEW n, NEW from, NEW f
  PROVE  LET y == WriteOut(x, n, from, f)
             k == Least(n, Space(x)) IN
         /\ Frame(x, y, Writes)
         /\ ~y.failed =>
              /\ ~x.failed
              /\ k = 0 => Frame(x, y, {"ret", "written"})
              /\ k # 0 =>
                   /\ y.busy /\ y.sentAge = 0 /\ y.unsent = 0 /\ y.queued = 0
                   /\ y.unacked = x.unacked + (x.unsent + k)
                   /\ y.flight = x.flight + (x.queued + k)
                   /\ y.put = IF from = x.put THEN x.put + k ELSE x.put
                   /\ from = x.put /\ ~x.gap => ~y.gap
<1> DEFINE k == Least(n, Space(x))
           w == Write(x, n, from, f)
           y == WriteOut(x, n, from, f)
<1>1. /\ Frame(x, w, Writes)
      /\ ~w.failed =>
           /\ ~x.failed
           /\ k = 0 => Frame(x, w, {"ret"})
           /\ k # 0 =>
                /\ w.busy /\ w.sentAge = 0 /\ w.unsent = 0 /\ w.queued = 0
                /\ w.unacked = x.unacked + (x.unsent + k)
                /\ w.flight = x.flight + (x.queued + k)
                /\ w.put = IF from = x.put THEN x.put + k ELSE x.put
                /\ from = x.put /\ ~x.gap => ~w.gap
  BY WriteDoes
<1>2. y = [w EXCEPT !.written = @ + w.ret]
  BY DEF WriteOut
<1> HIDE DEF k, w, y
<1>3. Frame(w, y, {"written"})
  BY <1>1, <1>2, FieldsAre DEF Frame
<1>4. Frame(x, y, Writes)
  BY <1>1, <1>3 DEF Frame, Writes
<1>5. /\ y.busy = w.busy /\ y.sentAge = w.sentAge /\ y.unsent = w.unsent
      /\ y.queued = w.queued /\ y.unacked = w.unacked /\ y.failed = w.failed
      /\ y.flight = w.flight /\ y.put = w.put /\ y.gap = w.gap
  BY <1>3, FieldsAre DEF Frame
<1>6. Frame(x, w, {"ret"}) => Frame(x, y, {"ret", "written"})
  BY <1>3 DEF Frame
<1> QED
  BY <1>1, <1>4, <1>5, <1>6 DEF k, y

(* What a response writes of its connection, and what the making of one:   *)
(* nothing of the objects.                                                 *)
Replies ==
  Writes \cup {"response", "left", "length", "sent", "head", "ackedLength"}

Responds == Replies \cup {"kind", "front", "size", "rxTimeout"}

(* y has gone on from x, and forgets no refusal.                           *)
Adds(x, y) == Frame(x, y, Replies) /\ (~y.failed => ~x.failed)

(* A further write adds to them.                                           *)
LEMMA WriteAfter ==
  ASSUME NEW x, NEW u, Adds(x, u), NEW n, NEW from, NEW f
  PROVE  Adds(x, WriteOut(u, n, from, f))
<1>1. DOMAIN u = Fields
  BY DEF Adds, Frame
<1>2. /\ Frame(u, WriteOut(u, n, from, f), Writes)
      /\ ~WriteOut(u, n, from, f).failed => ~u.failed
  BY <1>1, WriteOutDoes
<1> QED
  BY <1>2 DEF Adds, Frame, Replies

(* The responses change nothing of the objects, whatever their kind.       *)
LEMMA RespondBasicFrame ==
  ASSUME NEW x, DOMAIN x = Fields, NEW f
  PROVE  Adds(x, RespondBasic(x, f))
<1> DEFINE z == [x EXCEPT !.response = "CONTENT"]
           Rest(n) == [z EXCEPT !.left = Total(x) - n, !.length = @ + x.front - n]
           s == Space(x)
           w == [x EXCEPT !.response = "WAIT_ACK"]
           v == [z EXCEPT !.sent = s - x.front, !.left = Total(x) - s]
<1>1. \A n : Adds(x, Rest(n))
  BY FieldsAre DEF Adds, Frame, Replies, Writes, Sends
<1>2. Adds(x, w) /\ Adds(x, v)
  BY FieldsAre DEF Adds, Frame, Replies, Writes, Sends
<1>3. RespondBasic(x, f) \in
        {WriteOut(w, Total(x), 0, f), WriteOut(Rest(s), s, 0, f),
         WriteOut(v, s, 0, f), Rest(0)}
  BY DEF RespondBasic
<1> HIDE DEF Rest, w, v, s
<1> QED
  BY <1>1, <1>2, <1>3, WriteAfter

LEMMA AckBasicFrame ==
  ASSUME NEW x, DOMAIN x = Fields, NEW f
  PROVE  Adds(x, AckBasic(x, f))
<1> DEFINE s == Space(x)
           from == Total(x) - x.left
           u == [x EXCEPT !.left = 0, !.response = "WAIT_ACK"]
           v == [x EXCEPT !.left = @ - Least(s, @), !.sent = @ + s]
<1>1. Adds(x, u) /\ Adds(x, v)
  BY FieldsAre DEF Adds, Frame, Replies, Writes, Sends
<1>2. AckBasic(x, f) \in
        {WriteOut(u, x.length - x.sent, from, f), WriteOut(v, s, from, f)}
  BY DEF AckBasic
<1> HIDE DEF u, v, s, from
<1> QED
  BY <1>1, <1>2, WriteAfter

LEMMA AckHeadFrame ==
  ASSUME NEW x, DOMAIN x = Fields, NEW f
  PROVE  Adds(x, AckHead(x, f))
<1> DEFINE s == Space(x)
           u == [x EXCEPT !.head = @ - s]
<1>1. Adds(x, u)
  BY FieldsAre DEF Adds, Frame, Replies, Writes, Sends
<1>2. AckHead(x, f) = WriteOut(u, s, x.front - x.head, f)
  BY DEF AckHead
<1> HIDE DEF u, s
<1> QED
  BY <1>1, <1>2, WriteAfter

LEMMA AckContentFrame ==
  ASSUME NEW x, DOMAIN x = Fields, NEW f
  PROVE  Adds(x, AckContent(x, f))
<1> DEFINE s   == IF x.response = "HEADERS" THEN Space(x) - x.head ELSE Space(x)
           out == IF x.kind = "file" THEN Least(x.length - x.sent, s) ELSE s
           n   == FillBuffer(x, out)
           y   == [x EXCEPT !.response = "CONTENT"]
           u   == [y EXCEPT !.left = @ - n, !.head = 0]
           w   == WriteOut(u, x.head + n, Total(x) - x.left - x.head, f)
           z   == [w EXCEPT !.sent = @ + n]
<1>1. Adds(x, y) /\ Adds(x, u)
  BY FieldsAre DEF Adds, Frame, Replies, Writes, Sends
<1>2. Adds(x, w)
  <2> HIDE DEF u, n
  <2> QED
    BY <1>1, WriteAfter
<1> HIDE DEF w, n
<1>3. Adds(x, z) /\ Adds(x, [z EXCEPT !.response = "WAIT_ACK"])
  BY <1>2, FieldsAre DEF Adds, Frame, Replies, Writes, Sends
<1>4. Adds(x, [y EXCEPT !.failed = TRUE])
  BY <1>1, FieldsAre DEF Adds, Frame, Replies, Writes, Sends
<1>5. AckContent(x, f) \in
        {[y EXCEPT !.failed = TRUE], [z EXCEPT !.response = "WAIT_ACK"], z}
  BY DEF AckContent, w, n
<1> QED
  BY <1>3, <1>4, <1>5

LEMMA AckAbstractFrame ==
  ASSUME NEW x, DOMAIN x = Fields, NEW f
  PROVE  Adds(x, AckAbstract(x, f))
  BY AckHeadFrame, AckContentFrame DEF AckAbstract

LEMMA SendResponseFrame ==
  ASSUME NEW x, DOMAIN x = Fields, NEW k \in Kinds, NEW h, NEW n, NEW f
  PROVE  /\ Frame(x, SendResponse(x, k, h, n, f), Responds)
         /\ ~SendResponse(x, k, h, n, f).failed => ~x.failed
<1> DEFINE y == [x EXCEPT !.rxTimeout = FALSE]
           b == BasicResponse(y, h, n)
           p == [FileResponse(y, h, n) EXCEPT !.head = h]
           o == [CallbackResponse(y, h, n) EXCEPT !.head = h]
<1>1. /\ Frame(x, b, Responds) /\ Frame(x, p, Responds) /\ Frame(x, o, Responds)
      /\ b.failed = x.failed /\ p.failed = x.failed /\ o.failed = x.failed
  BY FieldsAre DEF Frame, Responds, Replies, Writes, Sends, BasicResponse,
     FileResponse, CallbackResponse, Made
<1>2. SendResponse(x, k, h, n, f) \in
        {RespondBasic(b, f), AckAbstract(p, f), AckAbstract(o, f)}
  BY DEF SendResponse, Kinds
<1> HIDE DEF b, p, o
<1>3. /\ Adds(b, RespondBasic(b, f))
      /\ Adds(p, AckAbstract(p, f))
      /\ Adds(o, AckAbstract(o, f))
  <2>1. DOMAIN b = Fields /\ DOMAIN p = Fields /\ DOMAIN o = Fields
    BY <1>1 DEF Frame
  <2> QED
    BY <2>1, RespondBasicFrame, AckAbstractFrame
<1> QED
  BY <1>1, <1>2, <1>3 DEF Adds, Frame, Responds

----------------------------------------------------------------------------
(* Who exists together                                                     *)

Lifecycle == {"alive", "request", "owner", "link", "pcb", "lwip", "errored",
              "closeError", "aborts", "told", "refused", "bad"}

(* An open connection of the server; one to the broker.                    *)
Serving(x) ==
  /\ DOMAIN x = Fields /\ ~x.bad
  /\ x.owner = "server" /\ x.link = "none"
  /\ x.alive /\ x.request /\ x.pcb /\ x.lwip = "open"
  /\ ~x.errored /\ x.closeError # "ABRT" /\ x.aborts = 0 /\ x.told = 0

Linked(x) ==
  /\ DOMAIN x = Fields /\ ~x.bad
  /\ x.owner = "mqtt" /\ x.link = "up"
  /\ x.alive /\ ~x.request /\ x.response = "NONE" /\ x.pcb /\ x.lwip = "open"

(* The same when a callback has closed it and has not returned yet.        *)
Ended(x) ==
  /\ DOMAIN x = Fields /\ ~x.bad
  /\ x.owner = "server" /\ x.link = "none"
  /\ ~x.alive /\ ~x.request /\ x.response = "NONE"
  /\ x.lwip \in {"closed", "free"}
  /\ ~x.errored /\ x.told = 0
  /\ x.aborts = IF x.closeError = "ABRT" THEN 1 ELSE 0

Cut(x) ==
  /\ DOMAIN x = Fields /\ ~x.bad
  /\ x.owner = "mqtt" /\ x.link = "none"
  /\ x.alive /\ ~x.request /\ x.response = "NONE"
  /\ ~x.pcb /\ x.lwip \notin {"open", "connecting"}

Live(x)   == Serving(x) \/ Linked(x)
InCall(x) == Live(x) \/ Ended(x) \/ Cut(x)

(* A connection that lwIP has open is live when a callback starts.         *)
LEMMA OwnedIsLive ==
  ASSUME NEW x, Owned(x), x.alive, x.lwip = "open"
  PROVE  Live(x)
  BY DEF Owned, ServerOwned, BrokerOwned, Live, Serving, Linked

(* What changes nothing of the objects keeps it live.                      *)
LEMMA KeptIsLive ==
  ASSUME NEW x, Live(x), NEW S, NEW y, Frame(x, y, S), S \cap Lifecycle = {},
         x.owner = "mqtt" => y.response = "NONE"
  PROVE  Live(y) /\ y.owner = x.owner
<1>1. \A f \in Lifecycle : y[f] = x[f]
  BY FieldsAre DEF Frame, Lifecycle
<1>2. DOMAIN y = Fields
  BY DEF Frame
<1> QED
  BY <1>1, <1>2 DEF Live, Serving, Linked, Lifecycle

(* Closing ends a live connection.                                         *)
LEMMA ClosedInCall ==
  ASSUME NEW x, Live(x), NEW f
  PROVE  InCall(CloseNow(x, f))
<1> DEFINE y == CloseNow(x, f)
<1>1. DOMAIN x = Fields /\ x.pcb
  BY DEF Live, Serving, Linked
<1>2. /\ DOMAIN y = Fields /\ ~y.pcb
      /\ IF f = "close"
         THEN /\ y.lwip = "free" /\ y.aborts = x.aborts + 1
              /\ y.closeError = IF x.errored THEN x.closeError ELSE "ABRT"
         ELSE /\ y.lwip = "closed" /\ y.aborts = x.aborts
              /\ y.closeError = IF x.errored THEN x.closeError ELSE "OK"
      /\ x.owner = "mqtt" =>
           /\ y.link = "none"
           /\ ~x.bad /\ x.link # "none" => ~y.bad
           /\ Frame(x, y, {"pcb", "lwip", "aborts", "closeError", "link", "bad"})
      /\ x.owner # "mqtt" =>
           /\ ~y.alive /\ ~y.request /\ y.response = "NONE"
           /\ ~x.bad /\ x.alive /\ x.request => ~y.bad
           /\ Frame(x, y, {"pcb", "lwip", "aborts", "closeError", "alive",
                           "request", "response", "bad"})
  BY <1>1, CloseNowDoes
<1> HIDE DEF y
<1>3. CASE Serving(x)
  <2>1. y.owner = x.owner /\ y.link = x.link /\ y.errored = x.errored
        /\ y.told = x.told
    BY <1>2, <1>3, FieldsAre DEF Serving, Frame
  <2>2. Ended(y)
    BY <1>2, <1>3, <2>1 DEF Serving, Ended
  <2> QED
    BY <2>2 DEF InCall, y
<1>4. CASE Linked(x)
  <2>1. y.owner = x.owner /\ y.alive = x.alive /\ y.request = x.request
        /\ y.response = x.response
    BY <1>2, <1>4, FieldsAre DEF Linked, Frame
  <2>2. Cut(y)
    BY <1>2, <1>4, <2>1 DEF Linked, Cut
  <2> QED
    BY <2>2 DEF InCall, y
<1> QED
  BY <1>3, <1>4 DEF Live

(* The callback returns, and says ERR_ABRT if it has aborted.              *)
LEMMA ReturnOwned ==
  ASSUME NEW x, InCall(x)
  PROVE  Owned(Returned(x))
<1> DEFINE y == Returned(x)
<1>1. /\ Frame(x, y, {"errored", "told"})
      /\ IF ~x.errored /\ x.closeError = "ABRT"
         THEN y.errored /\ y.told = x.told + 1 ELSE y = x
  BY ReturnedDoes DEF InCall, Live, Serving, Linked, Ended, Cut
<1>2. DOMAIN y = Fields
  BY <1>1 DEF Frame
<1>3. /\ y.owner = x.owner /\ y.link = x.link /\ y.alive = x.alive
      /\ y.request = x.request /\ y.pcb = x.pcb /\ y.lwip = x.lwip
      /\ y.closeError = x.closeError /\ y.aborts = x.aborts
      /\ y.bad = x.bad /\ y.response = x.response
  BY <1>1, FieldsAre DEF Frame
<1> HIDE DEF y
<1>4. CASE Serving(x)
  BY <1>1, <1>2, <1>3, <1>4 DEF Serving, Owned, ServerOwned, y
<1>5. CASE Linked(x)
  BY <1>2, <1>3, <1>5 DEF Linked, Owned, BrokerOwned, y
<1>6. CASE Ended(x)
  <2>1. y.told = x.aborts
    BY <1>1, <1>6 DEF Ended
  <2> QED
    BY <1>2, <1>3, <1>6, <2>1 DEF Ended, Owned, ServerOwned, y
<1>7. CASE Cut(x)
  BY <1>2, <1>3, <1>7 DEF Cut, Owned, BrokerOwned, y
<1> QED
  BY <1>4, <1>5, <1>6, <1>7 DEF InCall, Live

(* SetCloseError with "OK" takes nothing from a live connection.           *)
LEMMA OkIsLive ==
  ASSUME NEW x, Live(x)
  PROVE  /\ Live(SetCloseError(x, "OK"))
         /\ Frame(x, SetCloseError(x, "OK"), {"closeError"})
<1> DEFINE y == SetCloseError(x, "OK")
<1>1. /\ Frame(x, y, {"closeError"})
      /\ y.closeError = IF x.errored THEN x.closeError ELSE "OK"
  BY SetCloseErrorDoes DEF Live, Serving, Linked
<1>2. \A f \in (Lifecycle \cup {"response"}) \ {"closeError"} : y[f] = x[f]
  BY <1>1, FieldsAre DEF Frame, Lifecycle
<1>3. DOMAIN y = Fields
  BY <1>1 DEF Frame
<1> HIDE DEF y
<1> QED
  BY <1>1, <1>2, <1>3 DEF Live, Serving, Linked, Lifecycle, y

(* The marks of a use after the end stay off what is live.                 *)
LEMMA TouchIsLive ==
  ASSUME NEW x, Live(x)
  PROVE  /\ Live(Touch(x)) /\ Frame(x, Touch(x), {"bad"})
         /\ Live(TouchPcb(x)) /\ Frame(x, TouchPcb(x), {"bad"})
<1>1. ASSUME NEW y, Frame(x, y, {"bad"}), ~y.bad
      PROVE  Live(y)
  <2>1. \A f \in (Lifecycle \cup {"response"}) \ {"bad"} : y[f] = x[f]
    BY <1>1, FieldsAre DEF Frame, Lifecycle
  <2>2. DOMAIN y = Fields
    BY <1>1 DEF Frame
  <2> QED
    BY <1>1, <2>1, <2>2 DEF Live, Serving, Linked, Lifecycle
<1>2. DOMAIN x = Fields /\ ~x.bad /\ x.alive /\ x.lwip = "open"
  BY DEF Live, Serving, Linked
<1>3. Frame(x, Touch(x), {"bad"}) /\ ~Touch(x).bad
  BY <1>2, FieldsAre DEF Frame, Touch
<1>4. Frame(x, TouchPcb(x), {"bad"}) /\ ~TouchPcb(x).bad
  BY <1>2, FieldsAre DEF Frame, TouchPcb
<1> QED
  BY <1>1, <1>3, <1>4

(* A response that is made and written leaves the objects alone.           *)
LEMMA RespondsIsLive ==
  ASSUME NEW x, Serving(x), NEW y, Frame(x, y, Replies) \/ Frame(x, y, Responds)
  PROVE  Serving(y)
<1>1. \A f \in Lifecycle : y[f] = x[f]
  BY FieldsAre DEF Frame, Lifecycle, Responds, Replies, Writes, Sends
<1>2. DOMAIN y = Fields
  BY DEF Frame
<1> QED
  BY <1>1, <1>2 DEF Serving, Lifecycle

(* A response may close its connection, when it has no length.             *)
LEMMA AckInCall ==
  ASSUME NEW x, Serving(x), NEW n, NEW f
  PROVE  InCall(Ack(x, n, f))
<1> DEFINE y == [x EXCEPT !.ackedLength = @ + n]
           z == [y EXCEPT !.response = "END"]
<1>1. Frame(x, y, {"ackedLength"})
  BY FieldsAre DEF Serving, Frame
<1>2. Frame(y, z, {"response"})
  BY <1>1, FieldsAre DEF Frame
<1>3. Ack(x, n, f) \in {AckWait(y, f), AckBasic(y, f), AckAbstract(y, f)}
  BY DEF Ack
<1>4. AckWait(y, f) \in {CloseNow(z, f), z, y}
  BY DEF AckWait
<1> HIDE DEF y, z
<1>5. Serving(y)
  BY <1>1, RespondsIsLive DEF Frame, Replies
<1>6. Serving(z)
  BY <1>2, <1>5, RespondsIsLive DEF Frame, Replies
<1>7. InCall(CloseNow(z, f))
  BY <1>6, ClosedInCall DEF Live
<1>8. Serving(AckBasic(y, f)) /\ Serving(AckAbstract(y, f))
  BY <1>5, AckBasicFrame, AckAbstractFrame, RespondsIsLive DEF Serving, Adds
<1> QED
  BY <1>3, <1>4, <1>5, <1>6, <1>7, <1>8 DEF InCall, Live

(* Only a client of the server sends a response.                           *)
LEMMA SendingIsServing ==
  ASSUME NEW x, Live(x), Sending(x)
  PROVE  Serving(x)
  BY DEF Live, Linked, Sending

(* An answer of the peer and a poll may close, and end nothing twice.      *)
LEMMA OnAckInCall ==
  ASSUME NEW x, Live(x), NEW n, NEW f
  PROVE  InCall(OnAck(x, n, f))
<1>1. CASE Sending(x)
  BY <1>1, SendingIsServing, AckInCall DEF OnAck
<1>2. CASE ~Sending(x) /\ x.response = "END"
  <2> DEFINE y == [x EXCEPT !.response = "NONE"]
  <2>1. Frame(x, y, {"response"}) /\ y.response = "NONE"
    BY FieldsAre DEF Frame, Live, Serving, Linked
  <2>2. OnAck(x, n, f) = y
    BY <1>2 DEF OnAck
  <2> HIDE DEF y
  <2>3. Live(y)
    BY <2>1, KeptIsLive DEF Lifecycle
  <2> QED
    BY <2>2, <2>3 DEF InCall
<1>3. CASE ~Sending(x) /\ x.response # "END"
  BY <1>3, TouchIsLive DEF OnAck, InCall
<1> QED
  BY <1>1, <1>2, <1>3

LEMMA OnPollInCall ==
  ASSUME NEW x, Live(x), NEW f
  PROVE  InCall(OnPoll(x, f))
<1>1. CASE Sending(x) /\ CanSend(x)
  BY <1>1, SendingIsServing, AckInCall DEF OnPoll
<1>2. CASE ~(Sending(x) /\ CanSend(x))
  BY <1>2, TouchIsLive DEF OnPoll, InCall
<1> QED
  BY <1>1, <1>2

----------------------------------------------------------------------------
(* The callbacks                                                           *)

(* The end of the callbacks that receive.                                  *)
LEMMA OwnedRecv ==
  ASSUME NEW x, Live(x), Recv(x)
  PROVE  OwnedInv'
<1>1. c' = Returned(IF x.alive THEN TouchPcb(x) ELSE x)
  BY DEF Recv
<1>2. InCall(IF x.alive THEN TouchPcb(x) ELSE x)
  BY TouchIsLive DEF InCall
<1> QED
  BY <1>1, <1>2, ReturnOwned DEF OwnedInv

(* What is received is taken by a live connection.                         *)
LEMMA ReceivedIsLive ==
  ASSUME Live(c)
  PROVE  /\ Live(Received)
         /\ Frame(c, Received, {"rxAge", "packets", "closeError"})
<1> DEFINE x == [c EXCEPT !.rxAge = 0, !.packets = @ + 1]
<1>1. Frame(c, x, {"rxAge", "packets"})
  BY FieldsAre DEF Frame, Live, Serving, Linked
<1>2. x.response = c.response
  BY <1>1, FieldsAre DEF Frame
<1>3. Received = SetCloseError(x, "OK")
  BY DEF Received
<1> HIDE DEF x
<1>4. Live(x)
  BY <1>1, <1>2, KeptIsLive DEF Lifecycle, Live, Serving, Linked
<1>5. Live(Received) /\ Frame(x, Received, {"closeError"})
  BY <1>3, <1>4, OkIsLive
<1> QED
  BY <1>1, <1>5 DEF Frame

(* One lemma per action from here on.                                      *)
LEMMA OwnedRecvs ==
  ASSUME OwnedInv,
         \/ RecvPart \/ RecvBad
         \/ \E k \in Kinds, h \in Heads, n \in Sizes, f \in Faults :
              RecvWhole(k, h, n, f)
  PROVE  OwnedInv'
<1>1. Live(c)
  BY OwnedIsLive DEF OwnedInv, RecvPart, RecvBad, RecvWhole, Recv
<1>2. Live(Received) /\ Received.response = c.response
      /\ DOMAIN Received = Fields /\ Received.request = c.request
  BY <1>1, ReceivedIsLive, FieldsAre DEF Frame
<1>3. CASE RecvPart
  BY <1>2, <1>3, OwnedRecv DEF RecvPart
<1>4. CASE RecvBad
  <2> DEFINE r == Received
             y == [r EXCEPT !.parse = "FAIL"]
             z == Close(y)
  <2>0. Live(r) /\ DOMAIN r = Fields
    BY <1>2
  <2>1. Recv(z)
    BY <1>4 DEF RecvBad
  <2> HIDE DEF r
  <2>2. Frame(r, y, {"parse"})
    BY <2>0, FieldsAre DEF Frame
  <2> HIDE DEF y
  <2>3. Frame(y, z, {"closing"})
    BY <2>2, FieldsAre DEF Frame, Close
  <2>4. Frame(r, z, {"parse", "closing"})
    BY <2>2, <2>3 DEF Frame
  <2>5. z.response = r.response
    BY <2>4, FieldsAre DEF Frame
  <2> HIDE DEF z
  <2>6. Live(z)
    BY <2>0, <2>4, <2>5, KeptIsLive DEF Lifecycle, Live, Linked, Serving
  <2> QED
    BY <2>1, <2>6, OwnedRecv
<1>5. ASSUME NEW k \in Kinds, NEW h \in Heads, NEW n \in Sizes,
             NEW f \in Faults, RecvWhole(k, h, n, f)
      PROVE  OwnedInv'
  <2> DEFINE r == Received
             y == [r EXCEPT !.parse = "END"]
  <2>0. Serving(r)
    BY <1>2, <1>5 DEF RecvWhole, Live, Linked
  <2>1. Recv(SendResponse(y, k, h, n, f))
    BY <1>5 DEF RecvWhole
  <2> HIDE DEF r
  <2>2. Frame(r, y, {"parse"}) /\ r.owner # "mqtt"
    BY <2>0, FieldsAre DEF Frame, Serving
  <2>3. Live(y) /\ y.owner = r.owner
    BY <2>0, <2>2, KeptIsLive DEF Lifecycle, Live
  <2> HIDE DEF y
  <2>4. Serving(y)
    BY <2>2, <2>3 DEF Live, Linked
  <2>5. Serving(SendResponse(y, k, h, n, f))
    BY <2>4, SendResponseFrame, RespondsIsLive DEF Serving
  <2> QED
    BY <2>1, <2>5, OwnedRecv DEF Live
<1> QED
  BY <1>3, <1>4, <1>5

LEMMA OwnedFin ==
  ASSUME OwnedInv, NEW f, RecvFin(f)
  PROVE  OwnedInv'
  BY OwnedIsLive, ClosedInCall, ReturnOwned DEF RecvFin, OwnedInv

LEMMA OwnedSent ==
  ASSUME OwnedInv, NEW n, NEW f, Sent(n, f)
  PROVE  OwnedInv'
<1> DEFINE x == [c EXCEPT !.rxAge = 0, !.flight = @ - n, !.unacked = @ - n,
                          !.acked = @ + n]
           b == [x EXCEPT !.busy = FALSE]
           o == SetCloseError(b, "OK")
           y == OnAck(o, x.acked, f)
           t == Touch(y)
           z == [t EXCEPT !.acked = 0]
<1>1. Live(c)
  BY OwnedIsLive DEF OwnedInv, Sent
<1>2. c' = Returned(IF x.unacked # 0 THEN x ELSE IF y.alive THEN z ELSE y)
  BY DEF Sent
<1>3. Frame(c, x, {"rxAge", "flight", "unacked", "acked"})
  BY <1>1, FieldsAre DEF Frame, Live, Serving, Linked
<1> HIDE DEF x
<1>4. Frame(c, b, {"rxAge", "flight", "unacked", "acked", "busy"})
  BY <1>3, FieldsAre DEF Frame
<1> HIDE DEF b
<1>5. x.response = c.response /\ b.response = c.response
  BY <1>3, <1>4, FieldsAre DEF Frame
<1>6. Live(x) /\ Live(b)
  BY <1>1, <1>3, <1>4, <1>5, KeptIsLive DEF Lifecycle, Live, Serving, Linked
<1>7. InCall(y)
  BY <1>6, OkIsLive, OnAckInCall
<1> HIDE DEF o, y
<1>8. ASSUME y.alive
      PROVE  InCall(z)
  <2>1. CASE Cut(y)
    <3>1. Frame(y, t, {"bad"}) /\ ~t.bad
      BY <1>8, <2>1, FieldsAre DEF Frame, Cut, Touch
    <3> HIDE DEF t
    <3>2. Frame(t, z, {"acked"})
      BY <3>1, FieldsAre DEF Frame
    <3> HIDE DEF z
    <3>3. /\ DOMAIN z = Fields /\ ~z.bad
          /\ \A f_1 \in (Lifecycle \cup {"response"}) \ {"bad"} : z[f_1] = y[f_1]
      BY <3>1, <3>2, FieldsAre DEF Frame, Lifecycle
    <3>4. Cut(z)
      BY <2>1, <3>3 DEF Cut, Lifecycle
    <3> QED
      BY <3>4 DEF InCall
  <2>2. CASE ~Cut(y)
    <3>1. Live(y)
      BY <1>7, <1>8, <2>2 DEF InCall, Ended
    <3>2. Live(t)
      BY <3>1, TouchIsLive
    <3> HIDE DEF t
    <3>3. Frame(t, z, {"acked"}) /\ z.response = t.response
      BY <3>2, FieldsAre DEF Frame, Live, Serving, Linked
    <3> HIDE DEF z
    <3>4. Live(z)
      BY <3>2, <3>3, KeptIsLive DEF Lifecycle, Live, Serving, Linked
    <3> QED
      BY <3>4 DEF InCall
  <2> QED
    BY <2>1, <2>2
<1> HIDE DEF z
<1>9. InCall(IF x.unacked # 0 THEN x ELSE IF y.alive THEN z ELSE y)
  BY <1>6, <1>7, <1>8 DEF InCall
<1> QED
  BY <1>2, <1>9, ReturnOwned DEF OwnedInv

(* The timers of a poll leave the objects alone.                           *)
LEMMA PolledIsLive ==
  ASSUME Live(c)
  PROVE  /\ Live(Polled)
         /\ Frame(c, Polled, {"sentAge", "rxAge", "closeError"})
<1> DEFINE x == [c EXCEPT
                   !.sentAge = IF c.busy THEN Least(@ + 1, AckTimeout) ELSE @,
                   !.rxAge = IF c.rxTimeout THEN Least(@ + 1, RxTimeout) ELSE @]
<1>1. Frame(c, x, {"sentAge", "rxAge"})
  BY FieldsAre DEF Frame, Live, Serving, Linked
<1>2. x.response = c.response
  BY <1>1, FieldsAre DEF Frame
<1>3. Polled = SetCloseError(x, "OK")
  BY DEF Polled
<1> HIDE DEF x
<1>4. Live(x)
  BY <1>1, <1>2, KeptIsLive DEF Lifecycle, Live, Serving, Linked
<1>5. Live(Polled) /\ Frame(x, Polled, {"closeError"})
  BY <1>3, <1>4, OkIsLive
<1> QED
  BY <1>1, <1>5 DEF Frame

LEMMA OwnedPoll ==
  ASSUME OwnedInv, NEW f, Poll(f)
  PROVE  OwnedInv'
<1> DEFINE x == Polled
           v == [x EXCEPT !.closing = FALSE]
           b == [x EXCEPT !.busy = FALSE]
           t == OnTimeout(b)
<1>1. Live(c)
  BY OwnedIsLive DEF OwnedInv, Poll
<1>2. \E r \in {CloseNow(v, f), t, CloseNow(x, f), OnPoll(x, f)} :
        c' = Returned(r)
  BY DEF Poll
<1>3. Live(x)
  BY <1>1, PolledIsLive
<1> HIDE DEF x
<1>4. Frame(x, v, {"closing"}) /\ Frame(x, b, {"busy"})
      /\ v.response = x.response /\ b.response = x.response
  BY <1>3, FieldsAre DEF Frame, Live, Serving, Linked
<1> HIDE DEF v, b
<1>5. Live(v) /\ Live(b)
  BY <1>3, <1>4, KeptIsLive DEF Lifecycle, Live, Serving, Linked
<1>6. Live(t)
  <2> DEFINE u == [b EXCEPT !.closing = TRUE]
  <2>1. t \in {u, b}
    BY DEF OnTimeout, Close
  <2>2. Frame(b, u, {"closing"}) /\ u.response = b.response
    BY <1>5, FieldsAre DEF Frame, Live, Serving, Linked
  <2> HIDE DEF t, u
  <2>3. Live(u)
    BY <1>5, <2>2, KeptIsLive DEF Lifecycle, Live, Serving, Linked
  <2> QED
    BY <1>5, <2>1, <2>3
<1> HIDE DEF t
<1>7. \A r \in {CloseNow(v, f), t, CloseNow(x, f), OnPoll(x, f)} : InCall(r)
  BY <1>3, <1>5, <1>6, ClosedInCall, OnPollInCall DEF InCall
<1> QED
  BY <1>2, <1>7, ReturnOwned DEF OwnedInv

LEMMA OwnedError ==
  ASSUME OwnedInv, Error
  PROVE  OwnedInv'
<1> DEFINE s == SetCloseError(c, "ERR")
           x == [s EXCEPT !.errored = TRUE, !.lwip = "free"]
           y == [x EXCEPT !.pcb = FALSE]
<1>1. c' = Discard(y) /\ c.alive /\ c.lwip \in {"open", "connecting"}
  BY DEF Error
<1>2. /\ Frame(c, s, {"closeError"})
      /\ s.closeError = IF c.errored THEN c.closeError ELSE "ERR"
  BY SetCloseErrorDoes DEF OwnedInv, Owned
<1> HIDE DEF s
<1>3. Frame(s, x, {"errored", "lwip"}) /\ x.errored /\ x.lwip = "free"
  BY <1>2, FieldsAre DEF Frame
<1> HIDE DEF x
<1>4. Frame(x, y, {"pcb"}) /\ ~y.pcb
  BY <1>3, FieldsAre DEF Frame
<1> HIDE DEF y
<1>5. /\ Frame(c, y, {"closeError", "errored", "lwip", "pcb"})
      /\ y.errored /\ y.lwip = "free" /\ ~y.pcb
  BY <1>2, <1>3, <1>4, FieldsAre DEF Frame
<1>6. /\ DOMAIN y = Fields /\ y.owner = c.owner /\ y.alive = c.alive
      /\ y.request = c.request /\ y.link = c.link /\ y.bad = c.bad
      /\ y.aborts = c.aborts /\ y.told = c.told /\ y.response = c.response
  BY <1>5, FieldsAre DEF Frame
<1>7. CASE c.owner = "server"
  <2>1. /\ Frame(y, c', {"alive", "request", "response", "bad"})
        /\ ~c'.alive /\ ~c'.request /\ ~c'.bad /\ c'.response = "NONE"
    BY <1>1, <1>6, <1>7, DiscardDoes DEF OwnedInv, Owned, ServerOwned
  <2>2. /\ c'.owner = y.owner /\ c'.link = y.link /\ c'.lwip = y.lwip
        /\ c'.aborts = y.aborts /\ c'.told = y.told
    BY <2>1, FieldsAre DEF Frame
  <2>3. DOMAIN c' = Fields
    BY <2>1 DEF Frame
  <2> QED
    BY <1>1, <1>5, <1>6, <1>7, <2>1, <2>2, <2>3 DEF OwnedInv, Owned, ServerOwned
<1>8. CASE c.owner = "mqtt"
  <2>1. c.link # "none"
    BY <1>1, <1>8 DEF OwnedInv, Owned, BrokerOwned
  <2>2. Frame(y, c', {"link", "bad"}) /\ c'.link = "none" /\ ~c'.bad
    BY <1>1, <1>6, <1>8, <2>1, DiscardDoes DEF OwnedInv, Owned
  <2>3. /\ c'.owner = y.owner /\ c'.lwip = y.lwip /\ c'.pcb = y.pcb
        /\ c'.alive = y.alive /\ c'.request = y.request
        /\ c'.response = y.response
    BY <2>2, FieldsAre DEF Frame
  <2>4. DOMAIN c' = Fields
    BY <2>2 DEF Frame
  <2> QED
    BY <1>1, <1>5, <1>6, <1>8, <2>2, <2>3, <2>4 DEF OwnedInv, Owned, BrokerOwned
<1> QED
  BY <1>7, <1>8 DEF OwnedInv, Owned

LEMMA OwnedOutput ==
  ASSUME OwnedInv, Output
  PROVE  OwnedInv'
<1>1. c' = [c EXCEPT !.flight = @ + c.queued, !.queued = 0]
  BY DEF Output
<1>2. Frame(c, c', {"flight", "queued"})
  BY <1>1, FieldsAre DEF Frame, OwnedInv, Owned
<1>3. \A f \in Lifecycle \cup {"response"} : c'[f] = c[f]
  BY <1>2, FieldsAre DEF Frame, Lifecycle
<1>4. DOMAIN c' = Fields
  BY <1>2 DEF Frame
<1> QED
  BY <1>3, <1>4 DEF Lifecycle, OwnedInv, Owned, ServerOwned, BrokerOwned

(* The connection to the broker while it is down.                          *)
Down(x) ==
  /\ DOMAIN x = Fields /\ ~x.bad
  /\ x.owner = "mqtt" /\ x.link \in {"none", "dns"}
  /\ x.alive /\ ~x.request /\ x.response = "NONE"
  /\ ~x.pcb /\ x.lwip \notin {"open", "connecting"}

(* connect(): lwIP connects the pcb, or refuses.                           *)
LEMMA ConnectToDoes ==
  ASSUME NEW x, DOMAIN x = Fields, ~x.pcb, NEW f
  PROVE  LET y == ConnectTo(x, f) IN
         /\ Frame(x, y, {"ret", "failed", "lwip", "queued", "flight"})
         /\ \/ y.ret = 0 /\ y.lwip = x.lwip /\ y.failed
            \/ /\ y.ret = 1 /\ y.lwip = "connecting" /\ y.failed = x.failed
               /\ y.queued = 0 /\ y.flight = 0
  BY FieldsAre DEF Frame, ConnectTo

LEMMA OwnedConnect ==
  ASSUME OwnedInv, NEW f, Connect(f)
  PROVE  OwnedInv'
<1> DEFINE x == IF c.alive THEN c
                ELSE [Client EXCEPT !.owner = "mqtt", !.pcb = FALSE,
                                      !.lwip = "free"]
           u == [x EXCEPT !.connects = @ + 1, !.packets = 0]
           y == ConnectTo(u, f)
           v == [y EXCEPT !.link = IF y.ret = 1 THEN "connecting" ELSE "none"]
           w == [x EXCEPT !.connects = @ + 1, !.packets = 0, !.link = "dns"]
<1>1. c' \in {v, w} /\ (c.alive => c.owner = "mqtt" /\ c.link = "none")
  BY DEF Connect
<1>2. Down(x)
  <2>1. CASE c.alive
    <3>1. c.lwip # "connecting" /\ c.lwip # "open" /\ ~c.pcb
      BY <1>1, <2>1 DEF OwnedInv, Owned, BrokerOwned
    <3> QED
      BY <1>1, <2>1, <3>1 DEF Down, OwnedInv, Owned, BrokerOwned
  <2>2. CASE ~c.alive
    BY <2>2 DEF Down, Client, Fields
  <2> QED
    BY <2>1, <2>2
<1> HIDE DEF x
<1>3. Frame(x, u, {"connects", "packets"})
      /\ Frame(x, w, {"connects", "packets", "link"}) /\ w.link = "dns"
  BY <1>2, FieldsAre DEF Frame, Down
<1> HIDE DEF u, w
<1>4. \A g \in (Lifecycle \cup {"response"}) \ {"link"} :
        u[g] = x[g] /\ w[g] = x[g]
  BY <1>3, FieldsAre DEF Frame, Lifecycle
<1>5. DOMAIN u = Fields /\ DOMAIN w = Fields /\ ~u.pcb
  BY <1>2, <1>3, <1>4 DEF Frame, Down, Lifecycle
<1>6. /\ Frame(u, y, {"ret", "failed", "lwip", "queued", "flight"})
      /\ \/ y.ret = 0 /\ y.lwip = u.lwip
         \/ y.ret = 1 /\ y.lwip = "connecting"
  BY <1>5, ConnectToDoes
<1> HIDE DEF y
<1>7. Frame(y, v, {"link"})
      /\ v.link = IF y.ret = 1 THEN "connecting" ELSE "none"
  BY <1>6, FieldsAre DEF Frame
<1> HIDE DEF v
<1>8. /\ DOMAIN v = Fields /\ v.lwip = y.lwip
      /\ \A g \in (Lifecycle \cup {"response"}) \ {"link", "lwip"} : v[g] = u[g]
  BY <1>6, <1>7, FieldsAre DEF Frame, Lifecycle
<1>9. Owned(w)
  BY <1>2, <1>3, <1>4, <1>5 DEF Down, Lifecycle, Owned, BrokerOwned
<1>10. Owned(v)
  BY <1>2, <1>4, <1>6, <1>7, <1>8 DEF Down, Lifecycle, Owned, BrokerOwned
<1> QED
  BY <1>1, <1>9, <1>10 DEF OwnedInv

LEMMA OwnedDns ==
  ASSUME OwnedInv, DnsUnknown \/ \E f \in Faults : DnsFound(f)
  PROVE  OwnedInv'
<1>1. c.link = "dns"
  BY DEF DnsUnknown, DnsFound
<1>2. /\ c.owner = "mqtt" /\ BrokerOwned(c) /\ c.lwip # "open" /\ ~c.pcb
      /\ c.lwip # "connecting" /\ DOMAIN c = Fields /\ ~c.bad
  BY <1>1 DEF OwnedInv, Owned, BrokerOwned, ServerOwned
<1>3. CASE DnsUnknown
  <2>1. Frame(c, c', {"link", "bad"}) /\ c'.link = "none" /\ ~c'.bad
    BY <1>1, <1>2, <1>3, DiscardDoes DEF DnsUnknown
  <2>2. /\ DOMAIN c' = Fields
        /\ \A g \in (Lifecycle \cup {"response"}) \ {"link", "bad"} : c'[g] = c[g]
    BY <2>1, FieldsAre DEF Frame, Lifecycle
  <2> QED
    BY <1>2, <2>1, <2>2 DEF Lifecycle, OwnedInv, Owned, BrokerOwned
<1>4. ASSUME NEW f \in Faults, DnsFound(f)
      PROVE  OwnedInv'
  <2> DEFINE y == ConnectTo(c, f)
  <2>1. c' = [y EXCEPT !.link = "connecting"]
    BY <1>4 DEF DnsFound
  <2>2. /\ Frame(c, y, {"ret", "failed", "lwip", "queued", "flight"})
        /\ y.lwip \in {c.lwip, "connecting"}
    BY <1>2, ConnectToDoes
  <2> HIDE DEF y
  <2>3. Frame(y, c', {"link"}) /\ c'.link = "connecting"
    BY <2>1, <2>2, FieldsAre DEF Frame
  <2>4. /\ DOMAIN c' = Fields /\ c'.lwip = y.lwip
        /\ \A g \in (Lifecycle \cup {"response"}) \ {"link", "lwip"} : c'[g] = c[g]
    BY <2>2, <2>3, FieldsAre DEF Frame, Lifecycle
  <2> QED
    BY <1>2, <2>2, <2>3, <2>4 DEF Lifecycle, OwnedInv, Owned, BrokerOwned
<1> QED
  BY <1>3, <1>4

LEMMA OwnedConnected ==
  ASSUME OwnedInv, Connected
  PROVE  OwnedInv'
<1> DEFINE x == [c EXCEPT !.lwip = "open", !.pcb = TRUE, !.busy = FALSE,
                          !.rxAge = 0, !.link = "up"]
<1>1. c.lwip = "connecting" /\ c' = Returned(x)
  BY DEF Connected
<1>2. DOMAIN c = Fields /\ ~c.bad /\ c.owner = "mqtt" /\ BrokerOwned(c)
  BY <1>1 DEF OwnedInv, Owned, ServerOwned, BrokerOwned
<1>3. Frame(c, x, {"lwip", "pcb", "busy", "rxAge", "link"})
      /\ x.lwip = "open" /\ x.link = "up"
  BY <1>2, FieldsAre DEF Frame
<1>4. x.pcb
  BY <1>2, FieldsAre
<1>5. /\ DOMAIN x = Fields
      /\ \A g \in (Lifecycle \cup {"response"}) \ {"lwip", "pcb", "link"} :
           x[g] = c[g]
  BY <1>3, FieldsAre DEF Frame, Lifecycle
<1> HIDE DEF x
<1>6. Linked(x)
  BY <1>2, <1>3, <1>4, <1>5 DEF Lifecycle, Linked, BrokerOwned
<1> QED
  BY <1>1, <1>6, ReturnOwned DEF OwnedInv, InCall, Live

LEMMA OwnedPublish ==
  ASSUME OwnedInv, NEW n, NEW f, Publish(n, f)
  PROVE  OwnedInv'
<1> DEFINE x == [c EXCEPT !.put = 0, !.packets = @ + 1]
           y == Write(x, n, 0, f)
<1>1. c.link = "up" /\ c' = [y EXCEPT !.put = 0]
  BY DEF Publish
<1>2. Linked(c)
  BY <1>1 DEF OwnedInv, Owned, ServerOwned, BrokerOwned, Linked
<1>3. Frame(c, x, {"put", "packets"})
  BY <1>2, FieldsAre DEF Frame, Linked
<1> HIDE DEF x
<1>4. Frame(x, y, Writes)
  BY <1>3, WriteDoes DEF Frame
<1> HIDE DEF y
<1>5. Frame(y, c', {"put"})
  BY <1>1, <1>4, FieldsAre DEF Frame
<1>6. /\ DOMAIN c' = Fields
      /\ \A g \in Lifecycle \cup {"response"} : c'[g] = c[g]
  BY <1>3, <1>4, <1>5, FieldsAre DEF Frame, Lifecycle, Writes, Sends
<1> QED
  BY <1>6 DEF Lifecycle, OwnedInv, Owned, BrokerOwned, ServerOwned

LEMMA OwnedDisconnect ==
  ASSUME OwnedInv, NEW f, Disconnect(f)
  PROVE  OwnedInv'
<1>1. Linked(c) /\ c' = CloseNow(c, f)
  BY DEF Disconnect, OwnedInv, Owned, ServerOwned, BrokerOwned, Linked
<1>2. InCall(c') /\ c'.owner = "mqtt" /\ ~c'.pcb
  <2>1. InCall(c')
    BY <1>1, ClosedInCall DEF Live
  <2>2. /\ Frame(c, c', {"pcb", "lwip", "aborts", "closeError", "link", "bad"})
        /\ ~c'.pcb
    BY <1>1, CloseNowDoes DEF Linked
  <2>3. c'.owner = "mqtt"
    BY <1>1, <2>2, FieldsAre DEF Linked, Frame
  <2> QED
    BY <2>1, <2>2, <2>3
<1>3. Cut(c')
  BY <1>2 DEF InCall, Live, Serving, Linked, Ended
<1> QED
  BY <1>3 DEF Cut, OwnedInv, Owned, BrokerOwned

(* The first connection, and the next one accepted.                        *)
LEMMA OwnedStart ==
  /\ Init => OwnedInv
  /\ \A f : Accept(f) => OwnedInv'
<1>1. Owned(Nothing)
  BY FieldsAre DEF Owned, ServerOwned, Nothing, Client
<1>2. Owned(New)
  BY FieldsAre DEF Owned, ServerOwned, New, Client
<1>3. ASSUME NEW f
      PROVE  Owned(TurnedAway(f))
  BY FieldsAre DEF Owned, ServerOwned, TurnedAway, TouchPcb, Nothing, Client
<1> QED
  BY <1>1, <1>2, <1>3 DEF Init, Accept, OwnedInv

(* Every step keeps it.                                                    *)
LEMMA OwnedStep ==
  ASSUME OwnedInv, [Next]_vars
  PROVE  OwnedInv'
<1>1. CASE Begin \/ End \/ UNCHANGED vars
  BY <1>1 DEF Begin, End, vars, OwnedInv
<1>2. CASE Outgoing
  <2>1. DnsUnknown \/ Connected \/ \E f \in Faults :
          \/ Connect(f) \/ DnsFound(f) \/ Disconnect(f)
          \/ \E n \in 1..SndBuf : Publish(n, f)
    BY <1>2 DEF Outgoing
  <2> QED
    BY <2>1, OwnedDns, OwnedConnected, OwnedConnect, OwnedDisconnect, OwnedPublish
<1>3. CASE \E f \in Faults :
             \/ \E k \in Kinds, h \in Heads, n \in Sizes : RecvWhole(k, h, n, f)
             \/ \E n \in 1..SndBuf : Sent(n, f)
             \/ Accept(f) \/ Poll(f) \/ RecvFin(f)
  BY <1>3, OwnedStart, OwnedRecvs, OwnedSent, OwnedPoll, OwnedFin
<1> QED
  BY <1>1, <1>2, <1>3, OwnedError, OwnedOutput, OwnedRecvs DEF Next

LEMMA OwnedNeverBad == OwnedInv => NoUseAfterEnd
  BY DEF OwnedInv, Owned, ServerOwned, NoUseAfterEnd

(* For any buffer, any responses and any refusal of lwIP: no callback,     *)
(* handler or response uses a client, a request or a pcb after its end,    *)
(* and none is ended twice (AsyncClient::_close, abort, _error; the        *)
(* onDisconnect of the request that deletes both), except the pcb whose    *)
(* client could not be made in _accept: that one is closed twice.          *)
THEOREM ObjectsEndOnce == Spec => []NoUseAfterEnd
<1>1. Init => OwnedInv
  BY OwnedStart
<1>2. OwnedInv /\ [Next]_vars => OwnedInv'
  BY OwnedStep
<1> QED
  BY <1>1, <1>2, OwnedNeverBad, PTL DEF Spec

----------------------------------------------------------------------------
(* The response in order                                                   *)

(* The constants one by one.                                               *)
LEMMA RoomAndPatience ==
  /\ SndBuf \in Nat /\ SndBuf > 0 /\ AckTimeout \in Nat /\ AckTimeout > 0
  /\ \A h \in Heads : h \in Nat /\ h > 0
  /\ \A n \in Sizes : n \in Nat
  BY ConnectionAssumption

(* A multiple of the send buffer, and the next one.                        *)
LEMMA MultipleHasNoRest ==
  ASSUME NEW q \in Nat, NEW b \in Nat, b > 0
  PROVE  (q * b) % b = 0
  OBVIOUS

LEMMA NextMultiple ==
  ASSUME NEW a \in Nat, NEW b \in Nat, b > 0, a % b = 0
  PROVE  (a + b) % b = 0
<1>1. a = (a \div b) * b + (a % b) /\ a \div b \in Nat
  OBVIOUS
<1>2. PICK q \in Nat : a = q * b
  BY <1>1
<1>3. a + b = (q + 1) * b /\ q + 1 \in Nat
  BY <1>2
<1>4. ((q + 1) * b) % b = 0
  BY <1>3, MultipleHasNoRest
<1> QED
  BY <1>3, <1>4

(* Nothing waits to be sent or acknowledged: the whole buffer is free.     *)
Ready(x) ==
  /\ DOMAIN x = Fields /\ x.pcb /\ ~x.busy /\ ~x.gap
  /\ x.unacked = 0 /\ x.unsent = 0 /\ x.queued = 0 /\ x.flight = 0
  /\ x.put \in Nat /\ x.sentAge \in Nat

(* What a response that has written leaves.                                *)
Flowing(x) ==
  /\ ~x.gap /\ x.queued = 0 /\ x.unsent = 0
  /\ x.unacked \in 0..SndBuf /\ x.flight = x.unacked /\ x.sentAge \in Nat
  /\ x.busy <=> x.unacked > 0
  /\ x.busy => x.sentAge < AckTimeout

(* It is so as long as none of its fields changes.                         *)
LEMMA ReadyFrame ==
  ASSUME NEW x, Ready(x), NEW S, NEW y, Frame(x, y, S),
         S \cap {"pcb", "busy", "gap", "unacked", "unsent", "queued",
                 "flight", "put", "sentAge"} = {}
  PROVE  Ready(y) /\ y.put = x.put
<1>1. \A f \in {"pcb", "busy", "gap", "unacked", "unsent", "queued",
                "flight", "put", "sentAge"} : y[f] = x[f]
  BY FieldsAre DEF Frame
<1>2. DOMAIN y = Fields
  BY DEF Frame
<1> QED
  BY <1>1, <1>2 DEF Ready

(* A ready connection flows, with all its room.                            *)
LEMMA ReadyFlows ==
  ASSUME NEW x, Ready(x)
  PROVE  Flowing(x) /\ Space(x) = SndBuf
  BY RoomAndPatience DEF Ready, Flowing, Space

(* n bytes at the right place, into a free buffer.                         *)
LEMMA WriteReady ==
  ASSUME NEW x, Ready(x), NEW n \in 0..SndBuf, NEW f
  PROVE  LET y == WriteOut(x, n, x.put, f) IN
         /\ Frame(x, y, Writes)
         /\ ~y.failed => ~x.failed /\ Flowing(y) /\ y.put = x.put + n
<1> DEFINE y == WriteOut(x, n, x.put, f)
<1>1. SndBuf \in Nat /\ SndBuf > 0 /\ AckTimeout \in Nat /\ AckTimeout > 0
  BY RoomAndPatience
<1>2. Least(n, Space(x)) = n /\ DOMAIN x = Fields
  BY <1>1, ReadyFlows DEF Least, Ready
<1>3. /\ Frame(x, y, Writes)
      /\ ~y.failed =>
           /\ ~x.failed
           /\ n = 0 => Frame(x, y, {"ret", "written"})
           /\ n # 0 =>
                /\ y.busy /\ y.sentAge = 0 /\ y.unsent = 0 /\ y.queued = 0
                /\ y.unacked = x.unacked + (x.unsent + n)
                /\ y.flight = x.flight + (x.queued + n)
                /\ y.put = x.put + n
                /\ ~x.gap => ~y.gap
  BY <1>2, WriteOutDoes
<1> HIDE DEF y
<1>4. ASSUME ~y.failed, n = 0
      PROVE  Flowing(y) /\ y.put = x.put + n
  <2>1. Ready(y) /\ y.put = x.put
    BY <1>3, <1>4, ReadyFrame
  <2> QED
    BY <2>1, <1>4, ReadyFlows DEF Ready
<1>5. ASSUME ~y.failed, n # 0
      PROVE  Flowing(y)
  <2>1. y.unacked = n /\ y.flight = n
    BY <1>3, <1>5 DEF Ready
  <2> QED
    BY <1>1, <1>3, <1>5, <2>1 DEF Ready, Flowing
<1> QED
  BY <1>3, <1>4, <1>5 DEF y

(* The sizes of a response.                                                *)
Sized(x) ==
  \A g \in {"front", "size", "left", "head", "put", "sent", "length"} : x[g] \in Nat

(* Where a response may be, by its state.                                  *)
Replying(x) ==
  /\ Sized(x) /\ Flowing(x)
  /\ \/ x.response = "HEADERS" /\ InHeaders(x)
     \/ x.response = "CONTENT" /\ InContent(x)
     \/ x.response \in {"WAIT_ACK", "END"} /\ Given(x)

(* A response kept in memory: its first piece.                             *)
LEMMA RespondBasicInOrder ==
  ASSUME NEW x, Ready(x), NEW f,
         Sized(x), x.kind = "basic", x.put = 0, x.sent = 0,
         x.left = x.size, x.length = x.size, ~RespondBasic(x, f).failed
  PROVE  Replying(RespondBasic(x, f))
<1> DEFINE y == RespondBasic(x, f)
           T == Total(x)
           z == [x EXCEPT !.response = "CONTENT"]
           w == [x EXCEPT !.response = "WAIT_ACK"]
           a == [z EXCEPT !.left = T - SndBuf, !.length = @ + x.front - SndBuf]
           b == [z EXCEPT !.left = T - 0, !.length = @ + x.front - 0]
           v == [z EXCEPT !.sent = SndBuf - x.front, !.left = T - SndBuf]
<1>1. SndBuf \in Nat /\ SndBuf > 0 /\ Space(x) = SndBuf
  BY RoomAndPatience, ReadyFlows
<1>2. /\ x.front \in Nat /\ x.size \in Nat /\ T = x.front + x.size /\ T \in Nat
      /\ x.length = x.size /\ DOMAIN x = Fields
  BY DEF Sized, Total, Ready
<1> HIDE DEF T
<1>3. CASE SndBuf >= T
  <2>1. y = WriteOut(w, T, 0, f)
    BY <1>1, <1>3 DEF RespondBasic, T
  <2>2. Frame(x, w, {"response"}) /\ w.response = "WAIT_ACK"
    BY <1>2, FieldsAre DEF Frame
  <2> HIDE DEF w
  <2>3. Ready(w) /\ w.put = 0
    BY <2>2, ReadyFrame
  <2>4. Frame(w, y, Writes) /\ Flowing(y) /\ y.put = T
    BY <1>1, <1>2, <1>3, <2>1, <2>3, WriteReady
  <2> HIDE DEF y
  <2>5. /\ y.response = "WAIT_ACK" /\ y.front = x.front /\ y.size = x.size
        /\ y.left = x.left /\ y.head = x.head /\ y.sent = x.sent
        /\ y.length = x.length
    BY <2>2, <2>4, FieldsAre DEF Frame, Writes, Sends
  <2>6. Sized(y)
    BY <1>2, <2>4, <2>5 DEF Sized
  <2>7. Given(y)
    BY <1>2, <2>4, <2>5 DEF Given, Total
  <2> QED
    BY <2>4, <2>5, <2>6, <2>7 DEF Replying, y
<1>4. CASE SndBuf < T /\ SndBuf < x.front
  <2>1. y = WriteOut(a, SndBuf, 0, f)
    BY <1>1, <1>2, <1>4 DEF RespondBasic, T
  <2>2. /\ Frame(x, a, {"response", "left", "length"}) /\ a.response = "CONTENT"
        /\ a.left = T - SndBuf /\ a.length = x.length + x.front - SndBuf
    BY <1>2, FieldsAre DEF Frame
  <2> HIDE DEF a
  <2>3. Ready(a) /\ a.put = 0
    BY <2>2, ReadyFrame
  <2>4. Frame(a, y, Writes) /\ Flowing(y) /\ y.put = SndBuf
    BY <1>1, <2>1, <2>3, WriteReady
  <2> HIDE DEF y
  <2>5. /\ y.response = "CONTENT" /\ y.front = x.front /\ y.size = x.size
        /\ y.left = a.left /\ y.head = x.head /\ y.sent = x.sent
        /\ y.length = a.length /\ y.kind = "basic"
    BY <2>2, <2>4, FieldsAre DEF Frame, Writes, Sends
  <2>6. Sized(y)
    BY <1>1, <1>2, <1>4, <2>2, <2>4, <2>5 DEF Sized
  <2>7. InContent(y)
    BY <1>1, <1>2, <1>4, <2>2, <2>4, <2>5 DEF InContent, Total
  <2> QED
    BY <2>4, <2>5, <2>6, <2>7 DEF Replying, y
<1>5. CASE SndBuf < T /\ SndBuf > x.front
  <2>1. y = WriteOut(v, SndBuf, 0, f)
    BY <1>1, <1>2, <1>5 DEF RespondBasic, T
  <2>2. /\ Frame(x, v, {"response", "left", "sent"}) /\ v.response = "CONTENT"
        /\ v.left = T - SndBuf /\ v.sent = SndBuf - x.front
    BY <1>2, FieldsAre DEF Frame
  <2> HIDE DEF v
  <2>3. Ready(v) /\ v.put = 0
    BY <2>2, ReadyFrame
  <2>4. Frame(v, y, Writes) /\ Flowing(y) /\ y.put = SndBuf
    BY <1>1, <2>1, <2>3, WriteReady
  <2> HIDE DEF y
  <2>5. /\ y.response = "CONTENT" /\ y.front = x.front /\ y.size = x.size
        /\ y.left = v.left /\ y.head = x.head /\ y.sent = v.sent
        /\ y.length = x.length /\ y.kind = "basic"
    BY <2>2, <2>4, FieldsAre DEF Frame, Writes, Sends
  <2>6. Sized(y)
    BY <1>1, <1>2, <1>5, <2>2, <2>4, <2>5 DEF Sized
  <2>7. InContent(y)
    BY <1>1, <1>2, <1>5, <2>2, <2>4, <2>5 DEF InContent, Total
  <2> QED
    BY <2>4, <2>5, <2>6, <2>7 DEF Replying, y
<1>6. CASE SndBuf < T /\ SndBuf = x.front
  <2>1. y = b
    BY <1>1, <1>2, <1>6 DEF RespondBasic, T
  <2>a. /\ Frame(x, b, {"response", "left", "length"}) /\ b.response = "CONTENT"
        /\ b.left = T - 0 /\ b.length = x.length + x.front - 0
    BY <1>2, FieldsAre DEF Frame
  <2> HIDE DEF b
  <2>2. /\ Frame(x, b, {"response", "left", "length"}) /\ b.response = "CONTENT"
        /\ b.left = T /\ b.length = x.length + x.front
    BY <1>2, <2>a
  <2>3. Flowing(b) /\ b.put = 0
    BY <2>2, ReadyFrame, ReadyFlows
  <2>4. /\ b.front = x.front /\ b.size = x.size /\ b.head = x.head
        /\ b.sent = x.sent /\ b.kind = "basic"
    BY <2>2, FieldsAre DEF Frame
  <2>5. Sized(b)
    BY <1>2, <2>2, <2>3, <2>4 DEF Sized
  <2>6. InContent(b)
    BY <1>2, <2>2, <2>3, <2>4 DEF InContent, Total
  <2> QED
    BY <2>1, <2>2, <2>3, <2>5, <2>6 DEF Replying
<1> QED
  BY <1>1, <1>2, <1>3, <1>4, <1>5, <1>6

(* Its next pieces.                                                        *)
LEMMA AckBasicInOrder ==
  ASSUME NEW x, Ready(x), NEW f, Sized(x),
         x.kind = "basic", InContent(x), x.response = "CONTENT",
         ~AckBasic(x, f).failed
  PROVE  Replying(AckBasic(x, f))
<1> DEFINE y == AckBasic(x, f)
           w == [x EXCEPT !.left = 0, !.response = "WAIT_ACK"]
           v == [x EXCEPT !.left = @ - Least(SndBuf, @), !.sent = @ + SndBuf]
<1>1. SndBuf \in Nat /\ SndBuf > 0 /\ Space(x) = SndBuf
  BY RoomAndPatience, ReadyFlows
<1>2. /\ x.front \in Nat /\ x.size \in Nat /\ x.left \in Nat /\ x.put \in Nat
      /\ x.sent \in Nat /\ x.length \in Nat /\ DOMAIN x = Fields
  BY DEF Sized, Ready
<1>3. /\ x.put = Total(x) - x.left /\ x.length - x.sent = x.left
      /\ x.left <= x.size + x.front
  BY DEF InContent
<1>4. CASE SndBuf > x.left
  <2>1. y = WriteOut(w, x.left, x.put, f)
    BY <1>1, <1>3, <1>4 DEF AckBasic
  <2>2. Frame(x, w, {"response", "left"}) /\ w.response = "WAIT_ACK" /\ w.left = 0
    BY <1>2, FieldsAre DEF Frame
  <2> HIDE DEF w
  <2>3. Ready(w) /\ w.put = x.put
    BY <2>2, ReadyFrame
  <2>4. Frame(w, y, Writes) /\ Flowing(y) /\ y.put = x.put + x.left
    BY <1>1, <1>2, <1>4, <2>1, <2>3, WriteReady
  <2> HIDE DEF y
  <2>5. /\ y.response = "WAIT_ACK" /\ y.front = x.front /\ y.size = x.size
        /\ y.left = 0 /\ y.head = x.head /\ y.sent = x.sent
        /\ y.length = x.length
    BY <2>2, <2>4, FieldsAre DEF Frame, Writes, Sends
  <2>6. Sized(y)
    BY <1>2, <2>4, <2>5 DEF Sized
  <2>7. Given(y)
    BY <1>2, <1>3, <2>4, <2>5 DEF Given, Total
  <2> QED
    BY <2>4, <2>5, <2>6, <2>7 DEF Replying, y
<1>5. CASE SndBuf <= x.left
  <2>1. y = WriteOut(v, SndBuf, x.put, f)
    BY <1>1, <1>2, <1>3, <1>5 DEF AckBasic
  <2>2. /\ Frame(x, v, {"left", "sent"})
        /\ v.left = x.left - SndBuf /\ v.sent = x.sent + SndBuf
    <3>1. Least(SndBuf, x.left) = SndBuf
      BY <1>1, <1>2, <1>5 DEF Least
    <3> QED
      BY <1>2, <3>1, FieldsAre DEF Frame
  <2> HIDE DEF v
  <2>3. Ready(v) /\ v.put = x.put
    BY <2>2, ReadyFrame
  <2>4. Frame(v, y, Writes) /\ Flowing(y) /\ y.put = x.put + SndBuf
    BY <1>1, <2>1, <2>3, WriteReady
  <2> HIDE DEF y
  <2>5. /\ y.response = "CONTENT" /\ y.front = x.front /\ y.size = x.size
        /\ y.left = v.left /\ y.head = x.head /\ y.sent = v.sent
        /\ y.length = x.length /\ y.kind = "basic"
    BY <2>2, <2>4, FieldsAre DEF Frame, Writes, Sends
  <2>6. Sized(y)
    BY <1>1, <1>2, <1>5, <2>2, <2>4, <2>5 DEF Sized
  <2>7. InContent(y)
    BY <1>1, <1>2, <1>3, <1>5, <2>2, <2>4, <2>5 DEF InContent, Total
  <2> QED
    BY <2>4, <2>5, <2>6, <2>7 DEF Replying, y
<1> QED
  BY <1>1, <1>2, <1>4, <1>5

(* The head of a response, larger than the buffer.                         *)
LEMMA AckHeadInOrder ==
  ASSUME NEW x, Ready(x), NEW f, Sized(x),
         x.response = "HEADERS", InHeaders(x), Space(x) < x.head,
         ~AckHead(x, f).failed
  PROVE  Replying(AckHead(x, f))
<1> DEFINE y == AckHead(x, f)
           u == [x EXCEPT !.head = @ - SndBuf]
<1>1. SndBuf \in Nat /\ SndBuf > 0 /\ Space(x) = SndBuf
  BY RoomAndPatience, ReadyFlows
<1>2. /\ x.front \in Nat /\ x.size \in Nat /\ x.left \in Nat /\ x.put \in Nat
      /\ x.sent \in Nat /\ x.length \in Nat /\ x.head \in Nat
      /\ DOMAIN x = Fields
  BY DEF Sized, Ready
<1>3. x.put = x.front - x.head /\ x.head \in 1..x.front /\ SndBuf < x.head
  BY <1>1 DEF InHeaders
<1>4. y = WriteOut(u, SndBuf, x.put, f)
  BY <1>1, <1>3 DEF AckHead
<1>5. Frame(x, u, {"head"}) /\ u.head = x.head - SndBuf
  BY <1>1, <1>2, FieldsAre DEF Frame
<1> HIDE DEF u
<1>6. Ready(u) /\ u.put = x.put
  BY <1>5, ReadyFrame
<1>7. Frame(u, y, Writes) /\ Flowing(y) /\ y.put = x.put + SndBuf
  BY <1>1, <1>4, <1>6, WriteReady
<1> HIDE DEF y
<1>8. /\ y.response = x.response /\ y.front = x.front /\ y.size = x.size
      /\ y.left = x.left /\ y.head = u.head /\ y.sent = x.sent
      /\ y.length = x.length /\ y.kind = x.kind
  BY <1>5, <1>7, FieldsAre DEF Frame, Writes, Sends
<1>9. Sized(y)
  BY <1>1, <1>2, <1>3, <1>5, <1>7, <1>8 DEF Sized
<1>10. x.kind = "open" => (y.front - y.head) % SndBuf = 0
  <2>1. x.front - x.head \in Nat
    BY <1>2, <1>3
  <2>2. y.front - y.head = (x.front - x.head) + SndBuf
    BY <1>1, <1>2, <1>5, <1>8
  <2>3. x.kind = "open" => (x.front - x.head) % SndBuf = 0
    BY DEF InHeaders
  <2> QED
    BY <1>1, <2>1, <2>2, <2>3, NextMultiple
<1>11. y.head \in 1..y.front /\ y.put = y.front - y.head
  BY <1>1, <1>2, <1>3, <1>5, <1>7, <1>8
<1>12. InHeaders(y)
  BY <1>8, <1>10, <1>11 DEF InHeaders
<1> QED
  BY <1>7, <1>8, <1>9, <1>12 DEF Replying, y

(* With content, from either state: n bytes of it, after what is left of   *)
(* the head.                                                               *)
LEMMA AckContentInOrder ==
  ASSUME NEW x, Ready(x), NEW f, Sized(x),
         x.kind \in {"file", "open"},
         \/ x.response = "HEADERS" /\ InHeaders(x) /\ x.head <= Space(x)
         \/ x.response = "CONTENT" /\ InContent(x),
         ~AckContent(x, f).failed
  PROVE  Replying(AckContent(x, f))
<1> DEFINE s   == IF x.response = "HEADERS" THEN Space(x) - x.head ELSE Space(x)
           out == IF x.kind = "file" THEN Least(x.length - x.sent, s) ELSE s
           n   == FillBuffer(x, out)
           y   == [x EXCEPT !.response = "CONTENT"]
           u   == [y EXCEPT !.left = @ - n, !.head = 0]
           w   == WriteOut(u, x.head + n, Total(x) - x.left - x.head, f)
           z   == [w EXCEPT !.sent = @ + n]
           r   == [z EXCEPT !.response = "WAIT_ACK"]
           end == z.sent = z.length \/ (x.kind = "open" /\ x.head + n = 0)
           a   == AckContent(x, f)
<1>1. SndBuf \in Nat /\ SndBuf > 0 /\ Space(x) = SndBuf
  BY RoomAndPatience, ReadyFlows
<1>2. /\ x.front \in Nat /\ x.size \in Nat /\ x.left \in Nat /\ x.put \in Nat
      /\ x.sent \in Nat /\ x.length \in Nat /\ x.head \in Nat
      /\ DOMAIN x = Fields
  BY DEF Sized, Ready
<1>3. /\ x.head <= SndBuf /\ s = SndBuf - x.head
      /\ x.put = x.front + x.size - x.left - x.head
      /\ x.left <= x.size + x.front
      /\ x.kind = "file" => x.length - x.sent = x.left
      /\ x.kind = "open" => x.length = 0
      /\ x.sent = 0 /\ x.kind = "open" => (x.front - x.head) % SndBuf = 0
      /\ x.kind = "open" /\ x.head = 0 => x.sent > 0
  <2>1. CASE x.response = "HEADERS"
    BY <1>1, <1>2, <2>1 DEF InHeaders
  <2>2. CASE x.response = "CONTENT"
    BY <1>1, <1>2, <2>2 DEF InContent, Total
  <2> QED
    BY <2>1, <2>2
<1> HIDE DEF s
<1>4. n \in Nat /\ n <= s /\ n <= x.left /\ (n = s \/ n = x.left)
  <2>1. CASE x.kind = "file"
    BY <1>1, <1>2, <1>3, <2>1 DEF FillBuffer, Least
  <2>2. CASE x.kind = "open"
    BY <1>1, <1>2, <1>3, <2>2 DEF FillBuffer, Least
  <2> QED
    BY <2>1, <2>2
<1>5. a = IF f = "malloc" THEN [y EXCEPT !.failed = TRUE] ELSE IF end THEN r ELSE z
  BY DEF AckContent, s
<1> HIDE DEF n
<1>6. f # "malloc"
  <2>1. f = "malloc" => a.failed
    BY <1>2, <1>5, FieldsAre
  <2> QED
    BY <2>1
<1>7. /\ Frame(x, u, {"response", "left", "head"})
      /\ u.response = "CONTENT" /\ u.left = x.left - n /\ u.head = 0
  BY <1>2, FieldsAre DEF Frame
<1> HIDE DEF u
<1>8. Ready(u) /\ u.put = x.put
  BY <1>7, ReadyFrame
<1>9. x.head + n \in 0..SndBuf /\ Total(x) - x.left - x.head = x.put
  BY <1>1, <1>2, <1>3, <1>4 DEF Total
<1>10. /\ Frame(u, w, Writes)
       /\ ~w.failed => Flowing(w) /\ w.put = x.put + (x.head + n)
  BY <1>8, <1>9, WriteReady
<1> HIDE DEF w
<1>11. /\ Frame(w, z, {"sent"}) /\ z.sent = w.sent + n
  BY <1>10, FieldsAre DEF Frame
<1> HIDE DEF z
<1>12. Frame(z, r, {"response"}) /\ r.response = "WAIT_ACK"
  BY <1>11, FieldsAre DEF Frame
<1> HIDE DEF r
<1>13. ~w.failed
  BY <1>5, <1>6, <1>11, <1>12, FieldsAre DEF Frame
<1>14. /\ z.response = "CONTENT" /\ z.front = x.front /\ z.size = x.size
       /\ z.left = x.left - n /\ z.head = 0 /\ z.sent = x.sent + n
       /\ z.length = x.length /\ z.kind = x.kind
       /\ z.put = x.put + (x.head + n)
  BY <1>7, <1>10, <1>11, <1>13, FieldsAre DEF Frame, Writes, Sends
<1>15. /\ r.front = z.front /\ r.size = z.size /\ r.left = z.left
       /\ r.head = z.head /\ r.sent = z.sent /\ r.length = z.length
       /\ r.kind = z.kind /\ r.put = z.put
  BY <1>12, FieldsAre DEF Frame
<1>16. Flowing(z) /\ Flowing(r)
  <2>1. \A g \in {"gap", "queued", "unsent", "unacked", "flight", "busy", "sentAge"} :
          z[g] = w[g] /\ r[g] = w[g]
    BY <1>11, <1>12, FieldsAre DEF Frame
  <2> QED
    BY <1>10, <1>13, <2>1 DEF Flowing
<1>17. Sized(z)
  BY <1>1, <1>2, <1>3, <1>4, <1>14 DEF Sized
<1>18. Sized(r)
  BY <1>15, <1>17 DEF Sized
<1>19. x.kind = "open" /\ x.head = 0 => x.sent + n # 0
  BY <1>2, <1>3, <1>4
<1>20. CASE end
  <2>1. CASE n = x.left
    <3>1. r.put = r.front + r.size
      BY <1>2, <1>3, <1>4, <1>14, <1>15, <2>1
    <3> QED
      BY <1>5, <1>6, <1>12, <1>16, <1>18, <1>20, <3>1 DEF Replying, Given, Total
  <2>2. CASE n # x.left /\ x.kind = "file"
    BY <1>2, <1>3, <1>4, <1>14, <1>20, <2>2
  <2>3. CASE n # x.left /\ x.kind = "open"
    <3>1. n = 0 /\ x.sent = 0
      BY <1>1, <1>2, <1>3, <1>4, <1>14, <1>20, <2>3
    <3>2. x.head = SndBuf /\ (x.front - SndBuf) % SndBuf = 0
      BY <1>1, <1>2, <1>3, <1>4, <2>3, <3>1
    <3>3. x.front - SndBuf \in Nat
      <4>1. x.response = "HEADERS"
        BY <1>1, <3>2 DEF InContent
      <4> QED
        BY <1>1, <1>2, <3>2, <4>1 DEF InHeaders
    <3>4. x.front % SndBuf = 0
      <4>1. ((x.front - SndBuf) + SndBuf) % SndBuf = 0
        BY <1>1, <3>2, <3>3, NextMultiple
      <4>2. (x.front - SndBuf) + SndBuf = x.front
        BY <1>1, <1>2
      <4> QED
        BY <4>1, <4>2
    <3> QED
      BY <1>5, <1>6, <1>12, <1>14, <1>15, <1>16, <1>18, <1>20, <2>3, <3>4
      DEF Replying, Given
  <2> QED
    BY <2>1, <2>2, <2>3
<1>21. CASE ~end
  <2>1. z.sent # z.length
    BY <1>21
  <2>2. /\ z.left <= z.size + z.front
        /\ z.put = z.front + z.size - z.left
        /\ z.kind = "file" => z.length - z.sent = z.left
        /\ z.kind = "open" => z.length = 0 /\ z.sent > 0
    <3>1. /\ z.left <= z.size + z.front
          /\ z.put = z.front + z.size - z.left
      BY <1>1, <1>2, <1>3, <1>4, <1>14
    <3>2. x.kind = "file" => z.length - z.sent = z.left
      BY <1>2, <1>3, <1>4, <1>14
    <3>3. x.kind = "open" => z.length = 0
      BY <1>3, <1>14
    <3>4. x.kind = "open" => z.sent > 0
      BY <1>17, <2>1, <3>3 DEF Sized
    <3> QED
      BY <1>14, <3>1, <3>2, <3>3, <3>4
  <2>3. InContent(z)
    <3>1. z.kind # "basic" /\ z.head = 0
      BY <1>14
    <3>2. z.put = Total(z) - z.left
      BY <1>17, <2>2 DEF Total, Sized
    <3>3. z.kind = "file" => z.length - z.sent = z.left
      BY <2>2
    <3>4. z.kind = "open" => z.length = 0 /\ z.sent > 0
      BY <2>2
    <3> QED
      BY <2>2, <3>1, <3>2, <3>3, <3>4 DEF InContent
  <2> QED
    BY <1>5, <1>6, <1>14, <1>16, <1>17, <1>21, <2>3 DEF Replying
<1> QED
  BY <1>20, <1>21

(* An answer of the peer, while a response is sent: the next piece, or its *)
(* end, or the end of the connection.                                      *)
LEMMA AckInOrder ==
  ASSUME NEW x, Ready(x), NEW n, NEW f, Sized(x),
         x.kind \in Kinds,
         \/ x.response = "HEADERS" /\ InHeaders(x)
         \/ x.response = "CONTENT" /\ InContent(x)
         \/ x.response = "WAIT_ACK" /\ Given(x),
         x.owner = "server", x.alive,
         ~Ack(x, n, f).failed
  PROVE  LET y == Ack(x, n, f) IN
         \/ Replying(y) /\ Adds(x, y)
         \/ /\ ~y.alive /\ y.owner = x.owner /\ y.connects = x.connects
            /\ y.response = "NONE" /\ ~y.gap /\ y.kind = x.kind
            /\ y.failed = x.failed /\ \A g \in Numbers : y[g] = x[g]
<1> DEFINE u == [x EXCEPT !.ackedLength = @ + n]
           e == [u EXCEPT !.response = "END"]
           y == Ack(x, n, f)
<1>1. Frame(x, u, {"ackedLength"})
  BY FieldsAre DEF Frame, Ready
<1>2. /\ y = IF u.response = "WAIT_ACK" THEN AckWait(u, f)
             ELSE IF u.kind = "basic" THEN AckBasic(u, f)
             ELSE AckAbstract(u, f)
  BY DEF Ack
<1>3. AckWait(u, f) \in
        {IF u.kind = "open" THEN CloseNow(e, f) ELSE e, e, u}
      /\ (u.kind # "open" => AckWait(u, f) \in {e, u})
      /\ (u.kind = "open" => AckWait(u, f) = CloseNow(e, f))
  BY DEF AckWait
<1>4. Ready(u)
  BY <1>1, ReadyFrame
<1>5. /\ u.front = x.front /\ u.size = x.size /\ u.left = x.left
      /\ u.head = x.head /\ u.sent = x.sent /\ u.length = x.length
      /\ u.kind = x.kind /\ u.put = x.put /\ u.response = x.response
  BY <1>1, FieldsAre DEF Frame
<1>6. Sized(u) /\ (InHeaders(x) => InHeaders(u))
      /\ (InContent(x) => InContent(u)) /\ (Given(x) => Given(u))
  BY <1>5 DEF Sized, InHeaders, InContent, Given, Total
<1> HIDE DEF u
<1>7. ASSUME NEW v, Adds(u, v)
      PROVE  Adds(x, v)
  BY <1>1, <1>7, FieldsAre DEF Adds, Frame, Replies, Writes, Sends
<1>8. CASE u.response = "WAIT_ACK"
  <2>1. Frame(u, e, {"response"}) /\ e.response = "END"
    BY <1>1, FieldsAre DEF Frame
  <2> HIDE DEF e
  <2>2. Ready(e) /\ e.put = u.put
    BY <1>4, <2>1, ReadyFrame
  <2>3. /\ e.front = u.front /\ e.size = u.size /\ e.left = u.left
        /\ e.head = u.head /\ e.sent = u.sent /\ e.length = u.length
        /\ e.kind = u.kind /\ e.owner = x.owner
    BY <1>1, <2>1, FieldsAre DEF Frame
  <2>4. Given(u)
    BY <1>5, <1>6, <1>8
  <2>5. Sized(e) /\ Given(e)
    BY <1>6, <2>2, <2>3, <2>4 DEF Sized, Given, Total
  <2>6. Replying(e) /\ Replying(u)
    BY <1>4, <1>6, <1>8, <2>1, <2>2, <2>4, <2>5, ReadyFlows DEF Replying
  <2>7. Adds(x, u) /\ Adds(x, e)
    BY <1>1, <2>1, FieldsAre DEF Adds, Frame, Replies, Writes, Sends
  <2>8. CASE u.kind # "open"
    BY <1>2, <1>3, <1>8, <2>6, <2>7, <2>8
  <2>9. CASE u.kind = "open"
    <3>1. y = CloseNow(e, f)
      BY <1>2, <1>3, <1>8, <2>9
    <3>2. /\ Frame(e, y, {"pcb", "lwip", "aborts", "closeError", "alive",
                          "request", "response", "bad"})
          /\ ~y.alive /\ y.response = "NONE"
      BY <2>2, <2>3, <3>1, CloseNowDoes DEF Ready
    <3> HIDE DEF y
    <3>3. \A g \in Numbers \cup {"owner", "gap", "kind", "failed"} : y[g] = x[g]
      BY <1>1, <2>1, <3>2, FieldsAre DEF Frame, Numbers
    <3> QED
      BY <3>2, <3>3 DEF Numbers, Ready, y
  <2> QED
    BY <2>8, <2>9
<1>9. CASE u.response # "WAIT_ACK" /\ u.kind = "basic"
  <2>1. y = AckBasic(u, f)
    BY <1>2, <1>9
  <2>2. u.response = "CONTENT" /\ InContent(u)
    BY <1>5, <1>6, <1>9 DEF InHeaders
  <2>3. Replying(y)
    BY <1>4, <1>6, <1>9, <2>1, <2>2, AckBasicInOrder
  <2>4. Adds(u, y)
    BY <1>4, <2>1, AckBasicFrame DEF Ready
  <2> QED
    BY <1>7, <2>3, <2>4
<1>10. CASE u.response # "WAIT_ACK" /\ u.kind # "basic"
  <2>1. y = AckAbstract(u, f)
    BY <1>2, <1>10
  <2>2. u.kind \in {"file", "open"}
    BY <1>5, <1>10 DEF Kinds
  <2>3. \/ u.response = "HEADERS" /\ InHeaders(u)
        \/ u.response = "CONTENT" /\ InContent(u)
    BY <1>5, <1>6, <1>10
  <2>4. Space(u) \in Nat /\ u.head \in Nat
    BY <1>4, <1>6, ReadyFlows, RoomAndPatience DEF Sized
  <2>5. Replying(y)
    <3>1. CASE u.response = "HEADERS" /\ Space(u) < u.head
      BY <1>4, <1>6, <2>1, <2>3, <3>1, AckHeadInOrder DEF AckAbstract
    <3>2. CASE ~(u.response = "HEADERS" /\ Space(u) < u.head)
      BY <1>4, <1>6, <2>1, <2>2, <2>3, <2>4, <3>2, AckContentInOrder
      DEF AckAbstract
    <3> QED
      BY <3>1, <3>2
  <2>6. Adds(u, y)
    BY <1>4, <2>1, AckAbstractFrame DEF Ready
  <2> QED
    BY <1>7, <2>5, <2>6
<1> QED
  BY <1>8, <1>9, <1>10

(* A handler sends its response: the first piece.                          *)
LEMMA SendResponseInOrder ==
  ASSUME NEW x, Ready(x), x.put = 0, x.sent = 0,
         x.head \in Nat,
         NEW k \in Kinds, NEW h \in Heads, NEW n \in Sizes, NEW f,
         ~SendResponse(x, k, h, n, f).failed
  PROVE  /\ Replying(SendResponse(x, k, h, n, f))
         /\ SendResponse(x, k, h, n, f).kind = k
<1> DEFINE y == [x EXCEPT !.rxTimeout = FALSE]
           b == BasicResponse(y, h, n)
           p == [FileResponse(y, h, n) EXCEPT !.head = h]
           o == [CallbackResponse(y, h, n) EXCEPT !.head = h]
           M == {"rxTimeout", "front", "size", "left", "response", "kind",
                 "length", "head"}
<1>1. /\ SndBuf \in Nat /\ SndBuf > 0 /\ h \in Nat /\ h > 0 /\ n \in Nat
      /\ DOMAIN x = Fields
  BY RoomAndPatience DEF Ready
<1>2. /\ Frame(x, b, M) /\ b.kind = "basic" /\ b.length = n /\ b.head = x.head
      /\ b.front = h /\ b.size = n /\ b.left = n
  BY <1>1, FieldsAre DEF Frame, BasicResponse, Made
<1>3. /\ Frame(x, p, M) /\ p.kind = "file" /\ p.length = n /\ p.head = h
      /\ p.front = h /\ p.size = n /\ p.left = n /\ p.response = "HEADERS"
  BY <1>1, FieldsAre DEF Frame, FileResponse, Made
<1>4. /\ Frame(x, o, M) /\ o.kind = "open" /\ o.length = 0 /\ o.head = h
      /\ o.front = h /\ o.size = n /\ o.left = n /\ o.response = "HEADERS"
  BY <1>1, FieldsAre DEF Frame, CallbackResponse, Made
<1>5. SendResponse(x, k, h, n, f) =
        IF k = "basic" THEN RespondBasic(b, f)
        ELSE IF k = "file" THEN AckAbstract(p, f) ELSE AckAbstract(o, f)
  BY DEF SendResponse, Kinds
<1> HIDE DEF b, p, o
<1>6. /\ Ready(b) /\ Ready(p) /\ Ready(o)
      /\ b.put = 0 /\ p.put = 0 /\ o.put = 0
      /\ b.sent = 0 /\ p.sent = 0 /\ o.sent = 0
  <2>1. b.sent = 0 /\ p.sent = 0 /\ o.sent = 0
    BY <1>2, <1>3, <1>4, FieldsAre DEF Frame
  <2> QED
    BY <1>2, <1>3, <1>4, <2>1, ReadyFrame
<1>7. Sized(b) /\ Sized(p) /\ Sized(o)
  BY <1>1, <1>2, <1>3, <1>4, <1>6 DEF Sized
<1>8. CASE k = "basic"
  <2>1. Replying(RespondBasic(b, f))
    BY <1>2, <1>5, <1>6, <1>7, <1>8, RespondBasicInOrder
  <2>2. RespondBasic(b, f).kind = "basic"
    <3>1. Adds(b, RespondBasic(b, f))
      BY <1>6, RespondBasicFrame DEF Ready
    <3> QED
      BY <1>2, <3>1, FieldsAre DEF Adds, Frame, Replies, Writes, Sends
  <2> QED
    BY <1>5, <1>8, <2>1, <2>2
<1>9. ASSUME NEW v \in {p, o}, v.kind = k,
             SendResponse(x, k, h, n, f) = AckAbstract(v, f)
      PROVE  /\ Replying(SendResponse(x, k, h, n, f))
             /\ SendResponse(x, k, h, n, f).kind = k
  <2>1. /\ Ready(v) /\ v.put = 0 /\ v.sent = 0 /\ Sized(v)
        /\ v.kind \in {"file", "open"} /\ v.head = h /\ v.front = h
        /\ v.size = n /\ v.left = n /\ v.response = "HEADERS"
        /\ v.length = IF v.kind = "file" THEN n ELSE 0
    BY <1>3, <1>4, <1>6, <1>7, <1>9
  <2> HIDE DEF p, o
  <2>2. InHeaders(v)
    <3>1. 0 % SndBuf = 0
      BY <1>1
    <3>2. v.front - v.head = 0 /\ v.head \in 1..v.front
      BY <1>1, <2>1
    <3> QED
      BY <1>1, <2>1, <3>1, <3>2 DEF InHeaders
  <2>3. Space(v) \in Nat /\ v.head \in Nat
    BY <1>1, <2>1, ReadyFlows
  <2>4. Replying(AckAbstract(v, f))
    <3>1. CASE Space(v) < v.head
      BY <1>9, <2>1, <2>2, <3>1, AckHeadInOrder DEF AckAbstract
    <3>2. CASE ~(Space(v) < v.head)
      BY <1>9, <2>1, <2>2, <2>3, <3>2, AckContentInOrder DEF AckAbstract
    <3> QED
      BY <3>1, <3>2
  <2>5. Adds(v, AckAbstract(v, f))
    BY <2>1, AckAbstractFrame DEF Ready
  <2>6. AckAbstract(v, f).kind = v.kind
    BY <2>5, FieldsAre DEF Adds, Frame, Replies, Writes, Sends
  <2> QED
    BY <1>9, <2>4, <2>6
<1> QED
  BY <1>3, <1>4, <1>5, <1>8, <1>9 DEF Kinds

----------------------------------------------------------------------------
(* The counters and the response in step with lwIP, whatever comes         *)

(* What InStep looks at.                                                   *)
Steps ==
  Numbers \cup {"alive", "owner", "lwip", "link", "busy", "closing",
                  "failed", "gap", "kind", "parse", "response"}

(* It depends on these fields only.                                        *)
LEMMA SameInStep ==
  ASSUME NEW x, InStep(x), NEW y, \A g \in Steps : y[g] = x[g]
  PROVE  InStep(y)
<1>1. /\ \A g \in Numbers : y[g] = x[g]
      /\ y.connects = x.connects /\ y.unacked = x.unacked /\ y.unsent = x.unsent
      /\ y.queued = x.queued /\ y.flight = x.flight /\ y.sentAge = x.sentAge
      /\ y.front = x.front /\ y.size = x.size /\ y.left = x.left
      /\ y.head = x.head /\ y.put = x.put /\ y.sent = x.sent
      /\ y.length = x.length
  BY DEF Steps, Numbers
<1>2. /\ y.alive = x.alive /\ y.owner = x.owner /\ y.lwip = x.lwip
      /\ y.link = x.link /\ y.busy = x.busy /\ y.closing = x.closing
      /\ y.failed = x.failed /\ y.gap = x.gap /\ y.kind = x.kind
      /\ y.parse = x.parse /\ y.response = x.response
  BY DEF Steps
<1>3. Counted(x) => Counted(y)
  BY <1>1, <1>2 DEF Counted
<1>4. InHeaders(x) => InHeaders(y)
  BY <1>1, <1>2 DEF InHeaders
<1>5. InContent(x) => InContent(y)
  BY <1>1, <1>2 DEF InContent, Total
<1>6. Given(x) => Given(y)
  BY <1>1, <1>2 DEF Given, Total
<1>7. Begun(x) => Begun(y)
  BY <1>1, <1>2 DEF Begun
<1>8. Composed(x) => Composed(y)
  BY <1>1, <1>2, <1>4, <1>5, <1>6, <1>7 DEF Composed
<1> QED
  BY <1>1, <1>2, <1>3, <1>8 DEF InStep

(* So a change of the others keeps it.                                     *)
LEMMA FrameInStep ==
  ASSUME NEW x, InStep(x), NEW S, NEW y, Frame(x, y, S), S \cap Steps = {}
  PROVE  InStep(y)
<1>1. Steps \subseteq Fields
  BY FieldsAre DEF Steps, Numbers
<1>2. \A g \in Steps : y[g] = x[g]
  BY <1>1 DEF Frame
<1> QED
  BY <1>2, SameInStep

(* What stays true while a callback of lwIP changes the rest.              *)
Sound(x) ==
  ~x.failed =>
    /\ \A n \in Numbers : x[n] \in Nat
    /\ x.alive => /\ x.queued = 0 /\ x.unsent = 0
                  /\ x.flight <= SndBuf /\ x.flight <= x.unacked
    /\ ~x.gap /\ x.kind \in Kinds
    /\ x.owner = "server" => x.connects = 0
    /\ x.owner = "mqtt" => x.put = 0 /\ x.connects >= 1

LEMMA InStepIsSound == \A x : InStep(x) => Sound(x)
  BY DEF InStep, Counted, Composed, Sound

(* The end of a connection keeps it.                                       *)
LEMMA EndInStep ==
  ASSUME NEW x, Sound(x), NEW y,
         \A g \in Numbers \cup {"failed", "gap", "kind", "owner"} : y[g] = x[g],
         y.alive => x.alive,
         y.alive => /\ y.owner # "server" /\ y.lwip # "open"
                    /\ y.link \notin {"dns", "connecting"}
  PROVE  InStep(y)
<1>1. /\ \A g \in Numbers : y[g] = x[g]
      /\ y.connects = x.connects /\ y.unacked = x.unacked /\ y.unsent = x.unsent
      /\ y.queued = x.queued /\ y.flight = x.flight /\ y.put = x.put
      /\ y.failed = x.failed /\ y.gap = x.gap /\ y.kind = x.kind
      /\ y.owner = x.owner
  BY DEF Numbers
<1>2. ASSUME ~y.failed
      PROVE  Counted(y)
  BY <1>1, <1>2 DEF Sound, Counted
<1>3. ASSUME ~y.failed
      PROVE  Composed(y)
  BY <1>1, <1>3 DEF Sound, Composed
<1>4. ASSUME ~y.failed
      PROVE  \A n \in Numbers : y[n] \in Nat
  BY <1>1, <1>4 DEF Sound
<1> QED
  BY <1>2, <1>3, <1>4 DEF InStep

(* Closing keeps it.                                                       *)
LEMMA ClosedInStep ==
  ASSUME NEW x, Live(x), Sound(x), NEW f
  PROVE  InStep(CloseNow(x, f))
<1> DEFINE y == CloseNow(x, f)
<1>1. DOMAIN x = Fields /\ x.pcb /\ x.alive
  BY DEF Live, Serving, Linked
<1>2. /\ y.lwip \in {"free", "closed"}
      /\ x.owner = "mqtt" =>
           /\ y.link = "none"
           /\ Frame(x, y, {"pcb", "lwip", "aborts", "closeError", "link", "bad"})
      /\ x.owner # "mqtt" =>
           /\ ~y.alive
           /\ Frame(x, y, {"pcb", "lwip", "aborts", "closeError", "alive",
                           "request", "response", "bad"})
  BY <1>1, CloseNowDoes
<1> HIDE DEF y
<1>3. \A g \in Numbers \cup {"failed", "gap", "kind", "owner"} : y[g] = x[g]
  <2>1. CASE x.owner = "mqtt"
    BY <1>2, <2>1, FieldsAre DEF Frame, Numbers
  <2>2. CASE x.owner # "mqtt"
    BY <1>2, <2>2, FieldsAre DEF Frame, Numbers
  <2> QED
    BY <2>1, <2>2
<1>4. y.owner = x.owner
  BY <1>3
<1>5. y.alive => y.owner # "server"
  BY <1>2, <1>4
<1>6. y.alive => y.link \notin {"dns", "connecting"}
  BY <1>2
<1> QED
  BY <1>1, <1>2, <1>3, <1>5, <1>6, EndInStep DEF y

LEMMA ReturnInStep ==
  ASSUME NEW x, DOMAIN x = Fields, InStep(x)
  PROVE  InStep(Returned(x))
<1>1. Frame(x, Returned(x), {"errored", "told"})
  BY ReturnedDoes
<1>2. {"errored", "told"} \cap Steps = {}
  BY DEF Steps, Numbers
<1> QED
  BY <1>1, <1>2, FrameInStep

(* A connection of the server with everything acknowledged is ready.       *)
LEMMA SettledIsReady ==
  ASSUME NEW x, Serving(x), InStep(x), ~x.failed, ~x.busy, x.unacked = 0
  PROVE  Ready(x) /\ Sized(x)
<1>1. /\ x.unacked \in Nat /\ x.unsent \in Nat /\ x.queued \in Nat
      /\ x.flight \in Nat /\ x.put \in Nat /\ x.sentAge \in Nat
      /\ Sized(x)
  BY DEF InStep, Numbers, Sized
<1>2. x.queued = 0 /\ x.unsent = 0 /\ x.flight <= x.unacked /\ ~x.gap
  BY DEF InStep, Counted, Composed, Serving
<1> QED
  BY <1>1, <1>2 DEF Ready, Serving

(* What a response leaves is in step.                                      *)
LEMMA ReplyInStep ==
  ASSUME NEW y, y.connects = 0, y.kind \in Kinds,
         y.parse # "HEAD", y.owner = "server", y.link = "none",
         Replying(y)
  PROVE  InStep(y)
<1>1. SndBuf \in Nat /\ AckTimeout \in Nat
  BY RoomAndPatience
<1>2. \A n \in Numbers : y[n] \in Nat
  BY <1>1 DEF Replying, Sized, Flowing, Numbers
<1>3. Counted(y)
  BY <1>1 DEF Replying, Flowing, Counted
<1>4. ~y.gap
  BY DEF Replying, Flowing
<1>5. /\ y.response = "HEADERS" => InHeaders(y)
      /\ y.response = "CONTENT" => InContent(y)
      /\ y.response \in {"WAIT_ACK", "END"} => Given(y)
  BY DEF Replying
<1>6. Composed(y)
  BY <1>4, <1>5 DEF Composed, Begun
<1> QED
  BY <1>2, <1>3, <1>6 DEF InStep

(* Ack, by a callback that finds everything acknowledged.                  *)
LEMMA AckInStep ==
  ASSUME NEW x, Serving(x), InStep(x),
         Sending(x), ~x.failed => ~x.busy /\ x.unacked = 0, NEW n, NEW f
  PROVE  InStep(Ack(x, n, f))
<1> DEFINE y == Ack(x, n, f)
<1>1. ~y.failed => ~x.failed
  <2> DEFINE u == [x EXCEPT !.ackedLength = @ + n]
             e == [u EXCEPT !.response = "END"]
  <2>1. Frame(x, u, {"ackedLength"}) /\ u.failed = x.failed
    BY FieldsAre DEF Serving, Frame
  <2>2. Frame(u, e, {"response"}) /\ e.failed = x.failed
    BY <2>1, FieldsAre DEF Frame
  <2>3. y \in {CloseNow(e, f), e, u, AckBasic(u, f), AckAbstract(u, f)}
    BY DEF Ack, AckWait
  <2> HIDE DEF e, u, y
  <2>4. /\ ~AckBasic(u, f).failed => ~u.failed
        /\ ~AckAbstract(u, f).failed => ~u.failed
    BY <2>1, AckBasicFrame, AckAbstractFrame DEF Adds, Frame
  <2>5. Serving(e)
    <3>1. Serving(u)
      BY <2>1, RespondsIsLive DEF Frame, Replies
    <3> QED
      BY <2>2, <3>1, RespondsIsLive DEF Frame, Replies
  <2>6. CloseNow(e, f).failed = e.failed
    <3>1. Frame(e, CloseNow(e, f),
                {"pcb", "lwip", "aborts", "closeError", "alive", "request",
                 "response", "bad"})
      BY <2>5, CloseNowDoes DEF Serving
    <3> QED
      BY <3>1, FieldsAre DEF Frame
  <2> QED
    BY <2>1, <2>2, <2>3, <2>4, <2>6
<1>2. CASE y.failed
  BY <1>2 DEF InStep
<1>3. CASE ~y.failed
  <2>1. Ready(x) /\ Sized(x)
    BY <1>1, <1>3, SettledIsReady
  <2>2. /\ x.kind \in Kinds /\ x.connects = 0 /\ x.parse # "HEAD"
        /\ x.owner = "server" /\ x.alive /\ x.link = "none"
        /\ \A g \in Numbers : x[g] \in Nat
    BY <1>1, <1>3 DEF InStep, Composed, Begun, Sending, Serving
  <2>3. \/ x.response = "HEADERS" /\ InHeaders(x)
        \/ x.response = "CONTENT" /\ InContent(x)
        \/ x.response = "WAIT_ACK" /\ Given(x)
    BY <1>1, <1>3 DEF InStep, Composed, Sending, Serving
  <2>4. \/ Replying(y) /\ Adds(x, y)
        \/ /\ ~y.alive /\ y.owner = x.owner /\ y.connects = x.connects
           /\ y.response = "NONE" /\ ~y.gap /\ y.kind = x.kind
           /\ y.failed = x.failed /\ \A g \in Numbers : y[g] = x[g]
    BY <1>3, <2>1, <2>2, <2>3, AckInOrder
  <2> HIDE DEF y
  <2>5. CASE Replying(y) /\ Adds(x, y)
    <3>1. /\ y.connects = 0 /\ y.kind \in Kinds /\ y.parse # "HEAD"
          /\ y.owner = "server" /\ y.link = "none"
      BY <2>2, <2>5, FieldsAre DEF Adds, Frame, Replies, Writes, Sends
    <3> QED
      BY <2>5, <3>1, ReplyInStep DEF y
  <2>6. CASE /\ ~y.alive /\ y.owner = x.owner /\ y.connects = x.connects
             /\ y.response = "NONE" /\ ~y.gap /\ y.kind = x.kind
             /\ y.failed = x.failed /\ \A g \in Numbers : y[g] = x[g]
    <3>1. \A g \in Numbers : y[g] \in Nat
      BY <2>2, <2>6
    <3>2. Counted(y)
      BY <2>6 DEF Counted
    <3>3. Composed(y)
      BY <2>2, <2>6 DEF Composed
    <3> QED
      BY <3>1, <3>2, <3>3 DEF InStep, y
  <2> QED
    BY <2>4, <2>5, <2>6
<1> QED
  BY <1>2, <1>3

(* And so does the mark of a use after the end.                            *)
LEMMA TouchInStep ==
  ASSUME NEW x, Live(x), InStep(x)
  PROVE  InStep(Touch(x)) /\ InStep(TouchPcb(x))
<1>1. {"bad"} \cap Steps = {}
  BY DEF Steps, Numbers
<1> QED
  BY <1>1, TouchIsLive, FrameInStep

LEMMA OnAckInStep ==
  ASSUME NEW x, Live(x), InStep(x),
         ~x.failed => ~x.busy /\ x.unacked = 0, NEW n, NEW f
  PROVE  InStep(OnAck(x, n, f))
<1>1. CASE Sending(x)
  BY <1>1, SendingIsServing, AckInStep DEF OnAck
<1>2. CASE ~Sending(x) /\ x.response = "END"
  <2> DEFINE y == [x EXCEPT !.response = "NONE"]
  <2>1. Frame(x, y, {"response"}) /\ y.response = "NONE"
    BY FieldsAre DEF Frame, Live, Serving, Linked
  <2>2. OnAck(x, n, f) = y
    BY <1>2 DEF OnAck
  <2> HIDE DEF y
  <2>3. \A g \in Steps \ {"response"} : y[g] = x[g]
    BY <2>1, FieldsAre DEF Frame, Steps, Numbers
  <2>4. /\ \A g \in Numbers : y[g] = x[g]
        /\ y.failed = x.failed /\ y.parse = x.parse /\ y.put = x.put
        /\ y.gap = x.gap /\ y.kind = x.kind /\ y.owner = x.owner
        /\ y.connects = x.connects /\ y.sent = x.sent
        /\ y.alive = x.alive /\ y.unacked = x.unacked
    BY <2>3 DEF Steps, Numbers
  <2>5. Counted(x) => Counted(y)
    BY <2>3 DEF Counted, Steps, Numbers
  <2>6. Composed(x) => Composed(y)
    BY <2>1, <2>4 DEF Composed, Begun
  <2>7. InStep(y)
    BY <2>4, <2>5, <2>6 DEF InStep
  <2> QED
    BY <2>2, <2>7
<1>3. CASE ~Sending(x) /\ x.response # "END"
  BY <1>3, TouchInStep DEF OnAck
<1> QED
  BY <1>1, <1>2, <1>3

LEMMA OnPollInStep ==
  ASSUME NEW x, Live(x), InStep(x), ~x.closing, NEW f
  PROVE  InStep(OnPoll(x, f))
<1>1. CASE Sending(x) /\ CanSend(x)
  <2>1. Serving(x) /\ ~x.busy
    BY <1>1, SendingIsServing DEF CanSend
  <2>2. ~x.failed => x.unacked = 0
    <3>1. ~x.failed => x.unacked \in Nat /\ ~(x.unacked > 0)
      BY <2>1 DEF InStep, Counted, Composed, Numbers, Serving
    <3> QED
      BY <3>1
  <2> QED
    BY <1>1, <2>1, <2>2, AckInStep DEF OnPoll
<1>2. CASE ~(Sending(x) /\ CanSend(x))
  BY <1>2, TouchInStep DEF OnPoll
<1> QED
  BY <1>1, <1>2

(* The two invariants together, of a connection that a callback finds.     *)
LEMMA StepLive ==
  ASSUME OwnedInv, InStepInv, c.alive, c.lwip = "open"
  PROVE  /\ Live(c) /\ InStep(c) /\ DOMAIN c = Fields
         /\ c.owner \in {"server", "mqtt"}
  BY OwnedIsLive DEF OwnedInv, InStepInv, Owned

LEMMA InStepRecv ==
  ASSUME NEW x, Live(x), InStep(x), Recv(x)
  PROVE  InStepInv'
<1> DEFINE y == IF x.alive THEN TouchPcb(x) ELSE x
<1>1. c' = Returned(y)
  BY DEF Recv
<1>2. Live(y) /\ InStep(y)
  BY TouchInStep, TouchIsLive
<1> HIDE DEF y
<1> QED
  BY <1>1, <1>2, ReturnInStep DEF InStepInv, Live, Serving, Linked

LEMMA InStepRecvs ==
  ASSUME OwnedInv, InStepInv,
         \/ RecvPart \/ RecvBad
         \/ \E k \in Kinds, h \in Heads, n \in Sizes, f \in Faults :
              RecvWhole(k, h, n, f)
  PROVE  InStepInv'
<1> DEFINE r == Received
<1>1. Live(c) /\ InStep(c) /\ DOMAIN c = Fields
  BY StepLive DEF RecvPart, RecvBad, RecvWhole, Recv
<1>2. Live(r) /\ Frame(c, r, {"rxAge", "packets", "closeError"})
  BY <1>1, ReceivedIsLive
<1>3. InStep(r) /\ DOMAIN r = Fields
  <2>1. {"rxAge", "packets", "closeError"} \cap Steps = {}
    BY DEF Steps, Numbers
  <2> QED
    BY <1>1, <1>2, <2>1, FrameInStep DEF Frame
<1>4. /\ r.request = c.request /\ r.parse = c.parse
  BY <1>2, FieldsAre DEF Frame
<1>5. CASE RecvPart
  BY <1>2, <1>3, <1>5, InStepRecv DEF RecvPart
<1>6. CASE RecvBad
  <2> DEFINE y == [r EXCEPT !.parse = "FAIL"]
             z == Close(y)
  <2>1. Recv(z) /\ c.request
    BY <1>6 DEF RecvBad
  <2> HIDE DEF r
  <2>2. Serving(r)
    BY <1>2, <1>4, <2>1 DEF Live, Linked
  <2>3. Frame(r, y, {"parse"}) /\ y.parse = "FAIL"
    BY <1>3, FieldsAre DEF Frame
  <2> HIDE DEF y
  <2>4. Frame(y, z, {"closing"}) /\ z.closing
    BY <2>3, FieldsAre DEF Frame, Close
  <2> HIDE DEF z
  <2>5. /\ Frame(r, z, {"parse", "closing"}) /\ z.parse = "FAIL" /\ z.closing
        /\ z.response = r.response
    BY <2>3, <2>4, FieldsAre DEF Frame
  <2>6. Live(z)
    BY <1>2, <2>2, <2>5, KeptIsLive DEF Lifecycle, Live, Linked, Serving
  <2>7. \A g \in Steps \ {"parse", "closing"} : z[g] = r[g]
    BY <2>5, FieldsAre DEF Frame, Steps, Numbers
  <2>8. \A g \in Numbers : z[g] = r[g]
    BY <2>7 DEF Steps, Numbers
  <2>9. Counted(r) => Counted(z)
    BY <2>5, <2>7 DEF Counted, Steps, Numbers
  <2>10. /\ InHeaders(r) => InHeaders(z)
         /\ InContent(r) => InContent(z)
         /\ Given(r) => Given(z)
    BY <2>7 DEF InHeaders, InContent, Given, Total, Steps, Numbers
  <2>11. /\ z.gap = r.gap /\ z.kind = r.kind /\ z.owner = r.owner
         /\ z.connects = r.connects /\ z.alive = r.alive
         /\ z.put = r.put /\ z.failed = r.failed
    BY <2>7 DEF Steps, Numbers
  <2>12. Composed(r) => Composed(z)
    BY <2>5, <2>10, <2>11 DEF Composed, Begun
  <2>13. InStep(z)
    BY <1>3, <2>8, <2>9, <2>11, <2>12 DEF InStep
  <2> QED
    BY <2>1, <2>6, <2>13, InStepRecv
<1>7. ASSUME NEW k \in Kinds, NEW h \in Heads, NEW n \in Sizes,
             NEW f \in Faults, RecvWhole(k, h, n, f)
      PROVE  InStepInv'
  <2> DEFINE y == [r EXCEPT !.parse = "END"]
             z == SendResponse(y, k, h, n, f)
  <2>1. Recv(z) /\ c.request /\ c.parse = "HEAD"
    BY <1>7 DEF RecvWhole
  <2> HIDE DEF r
  <2>2. Serving(r)
    BY <1>2, <1>4, <2>1 DEF Live, Linked
  <2>3. Frame(r, y, {"parse"}) /\ y.parse = "END"
    BY <1>3, FieldsAre DEF Frame
  <2> HIDE DEF y
  <2>4. Serving(y)
    BY <2>2, <2>3, KeptIsLive DEF Lifecycle, Live, Linked, Serving
  <2>5. /\ Frame(y, z, Responds)
        /\ ~z.failed => ~y.failed
    BY <2>4, SendResponseFrame DEF Serving
  <2>6. Serving(z)
    BY <2>4, <2>5, RespondsIsLive
  <2>7. CASE z.failed
    BY <2>1, <2>6, <2>7, InStepRecv DEF Live, InStep
  <2>8. CASE ~z.failed
    <3>1. ~r.failed
      BY <2>3, <2>5, <2>8, FieldsAre DEF Frame
    <3>2. r.put = 0 /\ r.sent = 0 /\ r.unacked = 0 /\ r.connects = 0
      BY <1>3, <1>4, <2>1, <2>2, <3>1 DEF InStep, Composed, Begun, Serving
    <3>3. ~r.busy
      BY <1>3, <2>2, <3>1, <3>2 DEF InStep, Counted, Serving
    <3>4. Ready(r) /\ Sized(r)
      BY <1>3, <2>2, <3>1, <3>2, <3>3, SettledIsReady
    <3>5. Ready(y) /\ y.put = 0
      BY <2>3, <3>2, <3>4, ReadyFrame
    <3>6. y.sent = 0 /\ y.head \in Nat /\ y.connects = 0
      BY <2>3, <3>2, <3>4, FieldsAre DEF Frame, Sized
    <3>7. Replying(z) /\ z.kind = k
      BY <2>8, <3>5, <3>6, SendResponseInOrder
    <3> HIDE DEF z
    <3>8. z.connects = 0 /\ z.parse = "END"
      BY <2>3, <2>5, <3>6, FieldsAre DEF Frame, Responds, Replies, Writes, Sends
    <3>9. InStep(z)
      BY <2>6, <3>7, <3>8, ReplyInStep DEF Serving
    <3> QED
      BY <2>1, <2>6, <3>9, InStepRecv DEF Live, z
  <2> QED
    BY <2>7, <2>8
<1> QED
  BY <1>5, <1>6, <1>7

LEMMA InStepFin ==
  ASSUME OwnedInv, InStepInv, NEW f, RecvFin(f)
  PROVE  InStepInv'
<1>1. c' = Returned(CloseNow(c, f)) /\ c.alive /\ c.lwip = "open"
  BY DEF RecvFin
<1>2. Live(c) /\ InStep(CloseNow(c, f))
  BY <1>1, StepLive, InStepIsSound, ClosedInStep
<1>3. DOMAIN CloseNow(c, f) = Fields
  BY <1>2, CloseNowDoes DEF Live, Serving, Linked
<1> QED
  BY <1>1, <1>2, <1>3, ReturnInStep DEF InStepInv

LEMMA InStepSent ==
  ASSUME OwnedInv, InStepInv,
         NEW n \in 1..SndBuf, NEW f, Sent(n, f)
  PROVE  InStepInv'
<1> DEFINE x == [c EXCEPT !.rxAge = 0, !.flight = @ - n, !.unacked = @ - n,
                          !.acked = @ + n]
           b == [x EXCEPT !.busy = FALSE]
           o == SetCloseError(b, "OK")
           y == OnAck(o, x.acked, f)
           t == Touch(y)
           z == [t EXCEPT !.acked = 0]
<1>1. /\ Live(c) /\ InStep(c) /\ DOMAIN c = Fields
      /\ n \in 1..c.flight /\ c.owner \in {"server", "mqtt"}
      /\ c.alive /\ c.lwip = "open"
  BY StepLive DEF Sent
<1>2. c' = Returned(IF x.unacked # 0 THEN x ELSE IF y.alive THEN z ELSE y)
  BY DEF Sent
<1>3. /\ Frame(c, x, {"rxAge", "flight", "unacked", "acked"})
      /\ x.flight = c.flight - n /\ x.unacked = c.unacked - n
  BY <1>1, FieldsAre DEF Frame
<1> HIDE DEF x
<1>4. \A g \in (Steps \cup {"response"}) \ {"flight", "unacked"} : x[g] = c[g]
  BY <1>3, FieldsAre DEF Frame, Steps, Numbers
<1>5. /\ x.queued = c.queued /\ x.unsent = c.unsent /\ x.connects = c.connects
      /\ x.lwip = c.lwip /\ x.link = c.link /\ x.busy = c.busy
      /\ x.sentAge = c.sentAge /\ x.owner = c.owner /\ x.closing = c.closing
      /\ x.alive = c.alive /\ x.failed = c.failed /\ x.gap = c.gap
      /\ x.kind = c.kind /\ x.put = c.put /\ x.sent = c.sent
      /\ x.parse = c.parse /\ x.response = c.response
  BY <1>4 DEF Steps, Numbers
<1>6. ASSUME ~c.failed
      PROVE  /\ c.unacked \in Nat /\ c.flight \in Nat /\ c.flight <= c.unacked
             /\ c.flight <= SndBuf /\ c.queued = 0 /\ c.unsent = 0
             /\ \A g \in Numbers : c[g] \in Nat
             /\ Counted(c) /\ Composed(c)
  BY <1>1, <1>6 DEF InStep, Numbers, Counted
<1>7. ASSUME ~c.failed
      PROVE  /\ \A g \in Numbers : x[g] \in Nat
             /\ x.unacked \in Nat /\ x.flight \in Nat /\ x.flight <= x.unacked
             /\ x.flight <= SndBuf
  <2>1. /\ x.unacked \in Nat /\ x.flight \in Nat /\ x.flight <= x.unacked
        /\ x.flight <= SndBuf
    BY <1>1, <1>3, <1>6, <1>7, RoomAndPatience
  <2>2. \A g \in Numbers \ {"unacked", "flight"} : x[g] \in Nat
    BY <1>4, <1>6, <1>7 DEF Steps
  <2> QED
    BY <2>1, <2>2 DEF Numbers
<1>8. ASSUME ~c.failed
      PROVE  Composed(x)
  <2>1. Begun(c) => Begun(x)
    <3>1. ASSUME c.parse = "HEAD", Begun(c)
          PROVE  FALSE
      BY <1>1, <1>6, <1>8, <3>1 DEF Begun
    <3> QED
      BY <1>5, <3>1 DEF Begun
  <2>2. /\ InHeaders(c) => InHeaders(x)
        /\ InContent(c) => InContent(x)
        /\ Given(c) => Given(x)
    BY <1>4 DEF InHeaders, InContent, Given, Total, Steps, Numbers
  <2> QED
    BY <1>5, <1>6, <1>8, <2>1, <2>2 DEF Composed
<1>9. CASE x.unacked # 0
  <2>1. ASSUME ~c.failed
        PROVE  Counted(x)
    <3>1. c.unacked > 0 /\ x.unacked > 0
      BY <1>1, <1>6, <1>7, <1>9, <2>1
    <3>2. x.connects <= 1 => x.unacked = x.flight
      BY <1>1, <1>3, <1>5, <1>6, <2>1 DEF Counted
    <3>3. x.connects <= 1 => /\ x.busy <=> x.sentAge < AckTimeout
                             /\ x.owner = "server" /\ ~x.busy => x.closing
      BY <1>1, <1>5, <1>6, <2>1, <3>1 DEF Counted
    <3>4. x.link \notin {"dns", "connecting"}
      BY <1>1, <1>5 DEF Live, Serving, Linked
    <3> QED
      BY <1>5, <1>6, <1>7, <2>1, <3>1, <3>2, <3>3, <3>4 DEF Counted
  <2>2. InStep(x)
    BY <1>5, <1>7, <1>8, <2>1 DEF InStep
  <2>3. DOMAIN x = Fields
    BY <1>3 DEF Frame
  <2> QED
    BY <1>2, <1>9, <2>2, <2>3, ReturnInStep DEF InStepInv
<1>10. CASE x.unacked = 0
  <2>1. Frame(x, b, {"busy"})
    BY <1>3, FieldsAre DEF Frame
  <2>2. ~b.busy
    BY <1>3, FieldsAre DEF Frame
  <2> HIDE DEF b
  <2>3. \A g \in Steps \ {"busy"} : b[g] = x[g]
    BY <2>1, FieldsAre DEF Frame, Steps, Numbers
  <2>4. /\ \A g \in Numbers : b[g] = x[g]
        /\ b.queued = x.queued /\ b.unsent = x.unsent /\ b.connects = x.connects
        /\ b.lwip = x.lwip /\ b.link = x.link /\ b.unacked = x.unacked
        /\ b.flight = x.flight /\ b.owner = x.owner /\ b.alive = x.alive
        /\ b.failed = x.failed /\ b.gap = x.gap /\ b.kind = x.kind
        /\ b.put = x.put /\ b.sent = x.sent /\ b.parse = x.parse
        /\ b.response = x.response
    BY <2>3 DEF Steps, Numbers
  <2>5. ASSUME ~c.failed
        PROVE  Counted(b)
    <3>1. b.flight = 0 /\ b.unacked = 0
      BY <1>7, <1>10, <2>4, <2>5
    <3> QED
      BY <1>5, <1>6, <2>2, <2>4, <2>5, <3>1, RoomAndPatience DEF Counted
  <2>6. ASSUME ~c.failed
        PROVE  Composed(b)
    <3>1. /\ InHeaders(x) => InHeaders(b)
          /\ InContent(x) => InContent(b)
          /\ Given(x) => Given(b)
          /\ Begun(x) => Begun(b)
      BY <2>3 DEF InHeaders, InContent, Given, Total, Begun, Steps,
         Numbers
    <3>2. Composed(x)
      BY <1>8, <2>6
    <3>3. /\ b.owner = x.owner /\ b.alive = x.alive /\ b.gap = x.gap
          /\ b.kind = x.kind /\ b.put = x.put /\ b.connects = x.connects
          /\ b.response = x.response
      BY <2>4
    <3> QED
      BY <3>1, <3>2, <3>3 DEF Composed
  <2>7. InStep(b)
    BY <1>5, <1>7, <2>4, <2>5, <2>6 DEF InStep
  <2>8. Live(b)
    <3>1. Live(x)
      BY <1>1, <1>3, <1>5, KeptIsLive DEF Lifecycle, Live, Serving, Linked
    <3> QED
      BY <2>1, <2>4, <3>1, KeptIsLive DEF Lifecycle, Live, Serving, Linked
  <2>9. /\ Live(o) /\ InStep(o) /\ o.busy = b.busy /\ o.unacked = b.unacked
    <3>1. Live(o) /\ Frame(b, o, {"closeError"})
      BY <2>8, OkIsLive
    <3>2. {"closeError"} \cap Steps = {}
      BY DEF Steps, Numbers
    <3> QED
      BY <2>7, <3>1, <3>2, FrameInStep, FieldsAre DEF Frame
  <2> HIDE DEF o
  <2>10. InCall(y) /\ InStep(y)
    BY <1>10, <2>2, <2>4, <2>9, OnAckInCall, OnAckInStep
  <2> HIDE DEF y
  <2>11. DOMAIN y = Fields
    BY <2>10 DEF InCall, Live, Serving, Linked, Ended, Cut
  <2>12. DOMAIN z = Fields /\ InStep(z)
    <3>1. Frame(y, t, {"bad"})
      BY <2>11, FieldsAre DEF Frame, Touch
    <3> HIDE DEF t
    <3>2. Frame(t, z, {"acked"})
      BY <3>1, FieldsAre DEF Frame
    <3> HIDE DEF z
    <3>3. Frame(y, z, {"bad", "acked"})
      BY <3>1, <3>2 DEF Frame
    <3>4. {"bad", "acked"} \cap Steps = {}
      BY DEF Steps, Numbers
    <3> QED
      BY <2>10, <3>3, <3>4, FrameInStep DEF Frame
  <2> HIDE DEF z
  <2>13. InStep(Returned(z)) /\ InStep(Returned(y))
    BY <2>10, <2>11, <2>12, ReturnInStep
  <2> QED
    BY <1>2, <1>10, <2>13 DEF InStepInv
<1> QED
  BY <1>9, <1>10

LEMMA InStepPoll ==
  ASSUME OwnedInv, InStepInv, NEW f, Poll(f)
  PROVE  InStepInv'
<1> DEFINE x == Polled
           v == [x EXCEPT !.closing = FALSE]
           b == [x EXCEPT !.busy = FALSE]
           t == OnTimeout(b)
<1>1. /\ Live(c) /\ InStep(c) /\ DOMAIN c = Fields
      /\ c.alive /\ c.lwip = "open" /\ c.owner \in {"server", "mqtt"}
  BY StepLive DEF Poll
<1>2. c' = Returned(
             IF x.closing THEN CloseNow(v, f)
             ELSE IF x.busy /\ x.sentAge >= AckTimeout THEN t
             ELSE IF x.rxTimeout /\ x.rxAge >= RxTimeout THEN CloseNow(x, f)
             ELSE OnPoll(x, f))
  BY DEF Poll
<1>3. Live(x) /\ Frame(c, x, {"sentAge", "rxAge", "closeError"})
  BY <1>1, PolledIsLive
<1>4. x.sentAge = IF c.busy THEN Least(c.sentAge + 1, AckTimeout) ELSE c.sentAge
  <2> DEFINE u == [c EXCEPT
                     !.sentAge = IF c.busy THEN Least(@ + 1, AckTimeout) ELSE @,
                     !.rxAge = IF c.rxTimeout THEN Least(@ + 1, RxTimeout) ELSE @]
  <2>1. /\ DOMAIN u = Fields
        /\ u.sentAge = IF c.busy THEN Least(c.sentAge + 1, AckTimeout)
                       ELSE c.sentAge
    BY <1>1, FieldsAre
  <2>2. x = SetCloseError(u, "OK")
    BY DEF Polled
  <2> HIDE DEF u, x
  <2>3. Frame(u, x, {"closeError"})
    BY <2>1, <2>2, SetCloseErrorDoes
  <2> QED
    BY <2>1, <2>3, FieldsAre DEF Frame
<1> HIDE DEF x
<1>5. \A g \in Steps \ {"sentAge"} : x[g] = c[g]
  BY <1>3, FieldsAre DEF Frame, Steps, Numbers
<1>6. /\ x.queued = c.queued /\ x.unsent = c.unsent /\ x.connects = c.connects
      /\ x.lwip = c.lwip /\ x.link = c.link /\ x.unacked = c.unacked
      /\ x.flight = c.flight /\ x.owner = c.owner /\ x.alive = c.alive
      /\ x.failed = c.failed /\ x.gap = c.gap /\ x.kind = c.kind
      /\ x.put = c.put /\ x.response = c.response /\ x.busy = c.busy
      /\ x.closing = c.closing
  BY <1>5 DEF Steps, Numbers
<1>7. ASSUME ~c.failed
      PROVE  /\ c.unacked \in Nat /\ c.sentAge \in Nat
             /\ \A g \in Numbers : c[g] \in Nat
             /\ Counted(c) /\ Composed(c)
  BY <1>1, <1>7 DEF InStep, Numbers
<1>8. ASSUME ~c.failed
      PROVE  x.sentAge \in Nat /\ \A g \in Numbers : x[g] \in Nat
  <2>1. x.sentAge \in Nat
    BY <1>4, <1>7, <1>8, RoomAndPatience DEF Least
  <2> QED
    BY <1>5, <1>7, <1>8, <2>1 DEF Steps
<1>9. ASSUME ~c.failed
      PROVE  Composed(x)
  <2>1. /\ InHeaders(c) => InHeaders(x)
        /\ InContent(c) => InContent(x)
        /\ Given(c) => Given(x)
        /\ Begun(c) => Begun(x)
    BY <1>5 DEF InHeaders, InContent, Given, Total, Begun, Steps,
       Numbers
  <2>2. Composed(c)
    BY <1>7, <1>9
  <2>3. /\ x.owner = c.owner /\ x.alive = c.alive /\ x.gap = c.gap
        /\ x.kind = c.kind /\ x.put = c.put /\ x.connects = c.connects
        /\ x.response = c.response
    BY <1>6
  <2> QED
    BY <2>1, <2>2, <2>3 DEF Composed
<1>10. Sound(x)
  <2>1. ASSUME ~c.failed
        PROVE  x.alive => /\ x.queued = 0 /\ x.unsent = 0
                          /\ x.flight <= SndBuf /\ x.flight <= x.unacked
    BY <1>6, <1>7, <2>1 DEF Counted
  <2> QED
    BY <1>6, <1>8, <1>9, <2>1 DEF Sound, Composed
<1>11. DOMAIN x = Fields
  BY <1>3 DEF Frame
<1>12. CASE x.closing
  <2>1. Frame(x, v, {"closing"})
    BY <1>11, FieldsAre DEF Frame
  <2> HIDE DEF v
  <2>2. \A g \in Steps \ {"closing"} : v[g] = x[g]
    BY <2>1, FieldsAre DEF Frame, Steps, Numbers
  <2>3. Sound(v)
    <3>1. /\ \A g \in Numbers : v[g] = x[g]
          /\ v.failed = x.failed /\ v.alive = x.alive /\ v.queued = x.queued
          /\ v.unsent = x.unsent /\ v.flight = x.flight /\ v.unacked = x.unacked
          /\ v.gap = x.gap /\ v.kind = x.kind /\ v.owner = x.owner
          /\ v.connects = x.connects /\ v.put = x.put
      BY <2>2 DEF Steps, Numbers
    <3> QED
      BY <1>10, <3>1 DEF Sound
  <2>4. Live(v)
    <3>1. v.response = x.response
      BY <2>1, FieldsAre DEF Frame
    <3> QED
      BY <1>3, <2>1, <3>1, KeptIsLive DEF Lifecycle, Live, Serving, Linked
  <2>5. InStep(CloseNow(v, f)) /\ DOMAIN CloseNow(v, f) = Fields
    BY <2>3, <2>4, ClosedInStep, CloseNowDoes DEF Live, Serving, Linked
  <2> QED
    BY <1>2, <1>12, <2>5, ReturnInStep DEF InStepInv
<1>13. CASE ~x.closing /\ x.busy /\ x.sentAge >= AckTimeout
  <2>1. Frame(x, b, {"busy"}) /\ ~b.busy
    BY <1>11, FieldsAre DEF Frame
  <2> HIDE DEF b
  <2>2. /\ Frame(b, t, {"closing"})
        /\ b.owner = "server" => t.closing
    BY <2>1, FieldsAre DEF Frame, OnTimeout, Close
  <2> HIDE DEF t
  <2>3. \A g \in Steps \ {"busy", "closing"} : t[g] = x[g]
    BY <2>1, <2>2, FieldsAre DEF Frame, Steps, Numbers
  <2>4. ~t.busy /\ (t.owner = "server" => t.closing)
    BY <2>1, <2>2, FieldsAre DEF Frame
  <2>5. /\ t.queued = c.queued /\ t.unsent = c.unsent /\ t.connects = c.connects
        /\ t.lwip = c.lwip /\ t.link = c.link /\ t.unacked = c.unacked
        /\ t.flight = c.flight /\ t.owner = c.owner /\ t.alive = c.alive
        /\ t.failed = c.failed /\ t.gap = x.gap /\ t.kind = x.kind
        /\ t.put = x.put /\ t.response = x.response /\ t.sentAge = x.sentAge
        /\ \A g \in Numbers : t[g] = x[g]
    BY <1>6, <2>3 DEF Steps, Numbers
  <2>6. ASSUME ~c.failed
        PROVE  Counted(t)
    <3>1. ~(t.sentAge < AckTimeout)
      BY <1>8, <1>13, <2>5, <2>6, RoomAndPatience
    <3>2. t.link \notin {"dns", "connecting"}
      BY <1>1, <2>5 DEF Live, Serving, Linked
    <3>3. /\ t.queued = 0 /\ t.unsent = 0 /\ t.flight <= SndBuf
          /\ t.flight <= t.unacked
          /\ t.connects <= 1 => t.unacked = t.flight
      BY <1>1, <1>7, <2>5, <2>6 DEF Counted
    <3> QED
      BY <2>4, <3>1, <3>2, <3>3 DEF Counted
  <2>7. ASSUME ~c.failed
        PROVE  Composed(t)
    <3>1. /\ InHeaders(x) => InHeaders(t)
          /\ InContent(x) => InContent(t)
          /\ Given(x) => Given(t)
          /\ Begun(x) => Begun(t)
      BY <2>3 DEF InHeaders, InContent, Given, Total, Begun, Steps,
         Numbers
    <3>2. Composed(x)
      BY <1>9, <2>7
    <3>3. /\ t.owner = x.owner /\ t.alive = x.alive /\ t.gap = x.gap
          /\ t.kind = x.kind /\ t.put = x.put /\ t.connects = x.connects
          /\ t.response = x.response
      BY <1>6, <2>5
    <3> QED
      BY <3>1, <3>2, <3>3 DEF Composed
  <2>8. InStep(t)
    BY <1>8, <2>5, <2>6, <2>7 DEF InStep
  <2>9. DOMAIN t = Fields
    BY <2>2 DEF Frame
  <2> QED
    BY <1>2, <1>13, <2>8, <2>9, ReturnInStep DEF InStepInv
<1>14. CASE /\ ~x.closing /\ ~(x.busy /\ x.sentAge >= AckTimeout)
            /\ x.rxTimeout /\ x.rxAge >= RxTimeout
  <2>1. InStep(CloseNow(x, f)) /\ DOMAIN CloseNow(x, f) = Fields
    BY <1>3, <1>10, ClosedInStep, CloseNowDoes DEF Live, Serving, Linked
  <2> QED
    BY <1>2, <1>14, <2>1, ReturnInStep DEF InStepInv
<1>15. CASE /\ ~x.closing /\ ~(x.busy /\ x.sentAge >= AckTimeout)
            /\ ~(x.rxTimeout /\ x.rxAge >= RxTimeout)
  <2>1. ASSUME ~c.failed
        PROVE  Counted(x)
    <3>1. c.busy => x.sentAge < AckTimeout
      BY <1>6, <1>8, <1>15, <2>1, RoomAndPatience
    <3>2. ~c.busy => x.sentAge = c.sentAge
      BY <1>4
    <3>3. /\ x.queued = 0 /\ x.unsent = 0 /\ x.flight <= SndBuf
          /\ x.flight <= x.unacked
      BY <1>1, <1>6, <1>7, <2>1 DEF Counted
    <3>4. x.connects <= 1 =>
            /\ x.unacked = x.flight
            /\ c.busy <=> c.unacked > 0 /\ c.sentAge < AckTimeout
            /\ x.owner = "server" /\ x.unacked > 0 /\ ~x.busy => x.closing
      BY <1>1, <1>6, <1>7, <2>1 DEF Counted
    <3>5. x.connects <= 1 => (x.busy <=> x.unacked > 0 /\ x.sentAge < AckTimeout)
      BY <1>6, <3>1, <3>2, <3>4
    <3>6. x.link \notin {"dns", "connecting"}
      BY <1>1, <1>6 DEF Live, Serving, Linked
    <3> QED
      BY <3>3, <3>4, <3>5, <3>6 DEF Counted
  <2>2. InStep(x)
    BY <1>6, <1>8, <1>9, <2>1 DEF InStep
  <2>3. InStep(OnPoll(x, f)) /\ InCall(OnPoll(x, f))
    BY <1>3, <1>15, <2>2, OnPollInStep, OnPollInCall
  <2>4. DOMAIN OnPoll(x, f) = Fields
    BY <2>3 DEF InCall, Live, Serving, Linked, Ended, Cut
  <2> QED
    BY <1>2, <1>15, <2>3, <2>4, ReturnInStep DEF InStepInv
<1> QED
  BY <1>12, <1>13, <1>14, <1>15

LEMMA InStepError ==
  ASSUME OwnedInv, InStepInv, Error
  PROVE  InStepInv'
<1> DEFINE s == SetCloseError(c, "ERR")
           x == [s EXCEPT !.errored = TRUE, !.lwip = "free"]
           y == [x EXCEPT !.pcb = FALSE]
<1>1. c' = Discard(y) /\ c.alive
  BY DEF Error
<1>2. DOMAIN c = Fields /\ InStep(c) /\ c.owner \in {"server", "mqtt"}
  BY DEF OwnedInv, Owned, InStepInv
<1>3. Frame(c, s, {"closeError"})
  BY <1>2, SetCloseErrorDoes
<1> HIDE DEF s
<1>4. Frame(s, x, {"errored", "lwip"}) /\ x.lwip = "free"
  BY <1>3, FieldsAre DEF Frame
<1> HIDE DEF x
<1>5. Frame(x, y, {"pcb"})
  BY <1>4, FieldsAre DEF Frame
<1> HIDE DEF y
<1>6. Frame(c, y, {"closeError", "errored", "lwip", "pcb"}) /\ y.lwip = "free"
      /\ y.owner = c.owner
  BY <1>3, <1>4, <1>5, FieldsAre DEF Frame
<1>7. \A g \in Numbers \cup {"failed", "gap", "kind", "owner"} : y[g] = c[g]
  BY <1>6, FieldsAre DEF Frame, Numbers
<1>8. /\ y.owner = "mqtt" => Frame(y, c', {"link", "bad"}) /\ c'.link = "none"
      /\ y.owner # "mqtt" => /\ Frame(y, c', {"alive", "request", "response", "bad"})
                             /\ ~c'.alive
  BY <1>1, <1>6, DiscardDoes DEF Frame
<1>9. \A g \in Numbers \cup {"failed", "gap", "kind", "owner"} : c'[g] = c[g]
  <2>1. CASE y.owner = "mqtt"
    BY <1>7, <1>8, <2>1, FieldsAre DEF Frame, Numbers
  <2>2. CASE y.owner # "mqtt"
    BY <1>7, <1>8, <2>2, FieldsAre DEF Frame, Numbers
  <2> QED
    BY <2>1, <2>2
<1>10. c'.alive => /\ c'.owner # "server" /\ c'.lwip # "open"
                   /\ c'.link \notin {"dns", "connecting"}
  <2>1. c'.owner = c.owner
    BY <1>9
  <2>2. CASE y.owner = "mqtt"
    <3>1. c'.lwip = y.lwip
      BY <1>8, <2>2, FieldsAre DEF Frame
    <3> QED
      BY <1>6, <1>8, <2>1, <2>2, <3>1
  <2>3. CASE y.owner # "mqtt"
    BY <1>8, <2>3
  <2> QED
    BY <2>2, <2>3
<1>11. InStep(c')
  BY <1>1, <1>2, <1>9, <1>10, InStepIsSound, EndInStep
<1> QED
  BY <1>11 DEF InStepInv

LEMMA InStepOutput ==
  ASSUME OwnedInv, InStepInv, Output
  PROVE  InStepInv'
<1>1. /\ c' = [c EXCEPT !.flight = @ + c.queued, !.queued = 0]
      /\ c.alive /\ c.queued > 0
  BY DEF Output
<1>2. c'.failed = c.failed
  <2>1. Frame(c, c', {"flight", "queued"})
    BY <1>1, FieldsAre DEF Frame, OwnedInv, Owned
  <2> QED
    BY <2>1, FieldsAre DEF Frame
<1>3. c.failed
  BY <1>1 DEF InStepInv, InStep, Counted
<1> QED
  BY <1>2, <1>3 DEF InStepInv, InStep

(* The connection to the broker, while it is made.                         *)
Calling(x) ==
  ~x.failed =>
    /\ \A n \in Numbers : x[n] \in Nat
    /\ x.queued = 0 /\ x.unsent = 0 /\ x.flight <= SndBuf /\ x.flight <= x.unacked
    /\ ~x.gap /\ x.kind \in Kinds /\ x.put = 0 /\ x.connects >= 1
    /\ x.connects <= 1 => x.unacked = 0 /\ ~x.busy

LEMMA CallingInStep ==
  ASSUME NEW x, x.owner = "mqtt", x.lwip # "open", Calling(x)
  PROVE  InStep(x)
<1>1. ASSUME ~x.failed
      PROVE  Counted(x)
  BY <1>1 DEF Calling, Counted
<1>2. ASSUME ~x.failed
      PROVE  Composed(x)
  BY <1>2 DEF Calling, Composed
<1>3. ASSUME ~x.failed
      PROVE  \A n \in Numbers : x[n] \in Nat
  BY <1>3 DEF Calling
<1> QED
  BY <1>1, <1>2, <1>3 DEF InStep

(* lwIP connects the pcb, or the refusal is on record.                     *)
LEMMA ConnectToCalls ==
  ASSUME NEW x, DOMAIN x = Fields, ~x.pcb, Calling(x), NEW f
  PROVE  Calling(ConnectTo(x, f))
<1> DEFINE y == ConnectTo(x, f)
<1>1. /\ Frame(x, y, {"ret", "failed", "lwip", "queued", "flight"})
      /\ \/ y.ret = 0 /\ y.lwip = x.lwip /\ y.failed
         \/ /\ y.ret = 1 /\ y.lwip = "connecting" /\ y.failed = x.failed
            /\ y.queued = 0 /\ y.flight = 0
  BY ConnectToDoes
<1> HIDE DEF y
<1>2. CASE y.failed
  BY <1>2 DEF Calling, y
<1>3. CASE ~y.failed
  <2>1. ~x.failed /\ y.queued = 0 /\ y.flight = 0
    BY <1>1, <1>3
  <2>2. \A g \in Numbers \ {"queued", "flight"} : y[g] = x[g]
    BY <1>1, FieldsAre DEF Frame, Numbers
  <2>3. /\ y.unsent = x.unsent /\ y.unacked = x.unacked /\ y.gap = x.gap
        /\ y.kind = x.kind /\ y.put = x.put /\ y.connects = x.connects
        /\ y.busy = x.busy
    BY <1>1, FieldsAre DEF Frame
  <2>4. \A n \in Numbers : y[n] \in Nat
    BY <2>1, <2>2 DEF Calling, Numbers
  <2>5. x.unacked \in Nat /\ SndBuf \in Nat
    BY <2>1, RoomAndPatience DEF Calling, Numbers
  <2> QED
    BY <2>1, <2>3, <2>4, <2>5 DEF Calling, y
<1> QED
  BY <1>2, <1>3

(* A new client counts from 0.                                             *)
LEMMA ClientFresh ==
  /\ DOMAIN Client = Fields
  /\ \A g \in Numbers : Client[g] = 0
  /\ Client.owner = "server" /\ Client.kind = "basic"
  /\ Client.response = "NONE" /\ Client.link = "none"
  /\ ~Client.gap /\ ~Client.busy
<1>1. /\ Client.connects = 0 /\ Client.unacked = 0 /\ Client.unsent = 0
      /\ Client.queued = 0 /\ Client.flight = 0 /\ Client.sentAge = 0
      /\ Client.front = 0 /\ Client.size = 0 /\ Client.left = 0
      /\ Client.head = 0 /\ Client.put = 0 /\ Client.sent = 0
      /\ Client.length = 0
  BY DEF Client
<1>2. /\ Client.owner = "server" /\ Client.kind = "basic"
      /\ Client.response = "NONE" /\ Client.link = "none"
  BY DEF Client
<1>3. Client.gap = FALSE /\ Client.busy = FALSE
  BY DEF Client
<1>4. DOMAIN Client = Fields
  BY DEF Fields
<1> QED
  BY <1>1, <1>2, <1>3, <1>4 DEF Numbers

LEMMA InStepConnect ==
  ASSUME OwnedInv, InStepInv, NEW f, Connect(f)
  PROVE  InStepInv'
<1> DEFINE x == IF c.alive THEN c
                ELSE [Client EXCEPT !.owner = "mqtt", !.pcb = FALSE,
                                      !.lwip = "free"]
           u == [x EXCEPT !.connects = @ + 1, !.packets = 0]
           y == ConnectTo(u, f)
           v == [y EXCEPT !.link = IF y.ret = 1 THEN "connecting" ELSE "none"]
           w == [x EXCEPT !.connects = @ + 1, !.packets = 0, !.link = "dns"]
<1>1. c' \in {v, w} /\ (c.alive => c.owner = "mqtt" /\ c.link = "none")
  BY DEF Connect
<1>2. /\ DOMAIN x = Fields /\ ~x.pcb /\ x.owner = "mqtt" /\ x.lwip # "open"
      /\ ~x.failed =>
           /\ \A n \in Numbers : x[n] \in Nat
           /\ x.queued = 0 /\ x.unsent = 0 /\ x.flight <= SndBuf
           /\ x.flight <= x.unacked
           /\ ~x.gap /\ x.kind \in Kinds /\ x.put = 0
           /\ x.connects >= 1 \/ (x.connects = 0 /\ x.unacked = 0 /\ ~x.busy)
  <2>1. CASE c.alive
    <3>1. ~c.pcb /\ c.lwip # "open" /\ DOMAIN c = Fields /\ c.owner = "mqtt"
      BY <1>1, <2>1 DEF OwnedInv, Owned, BrokerOwned
    <3> QED
      BY <2>1, <3>1 DEF InStepInv, InStep, Counted, Composed
  <2>2. CASE ~c.alive
    <3>1. x = [Client EXCEPT !.owner = "mqtt", !.pcb = FALSE, !.lwip = "free"]
      BY <2>2
    <3> HIDE DEF x
    <3>2. Frame(Client, x, {"owner", "pcb", "lwip"})
      BY <3>1, ClientFresh, FieldsAre DEF Frame
    <3>3. x.owner = "mqtt" /\ x.lwip # "open"
      BY <3>1, ClientFresh, FieldsAre
    <3>4. ~x.pcb
      BY <3>1, ClientFresh, FieldsAre
    <3>5. \A n \in Numbers : x[n] = 0
      BY <3>2, ClientFresh, FieldsAre DEF Frame, Numbers
    <3>6. x.kind = "basic" /\ ~x.gap /\ ~x.busy
      BY <3>2, ClientFresh, FieldsAre DEF Frame
    <3>7. DOMAIN x = Fields
      BY <3>2 DEF Frame
    <3>8. /\ x.queued = 0 /\ x.unsent = 0 /\ x.flight = 0 /\ x.unacked = 0
          /\ x.put = 0 /\ x.connects = 0
      BY <3>5 DEF Numbers
    <3> QED
      BY <3>3, <3>4, <3>5, <3>6, <3>7, <3>8, RoomAndPatience DEF x, Kinds
  <2> QED
    BY <2>1, <2>2
<1> HIDE DEF x
<1>3. /\ Frame(x, u, {"connects", "packets"})
      /\ Frame(x, w, {"connects", "packets", "link"})
      /\ u.connects = x.connects + 1 /\ w.connects = x.connects + 1
  BY <1>2, FieldsAre DEF Frame
<1> HIDE DEF u, w
<1>4. ASSUME NEW r \in {u, w}
      PROVE  /\ DOMAIN r = Fields /\ ~r.pcb /\ r.owner = "mqtt"
             /\ r.lwip # "open" /\ Calling(r)
  <2>1. /\ Frame(x, r, {"connects", "packets", "link"})
        /\ r.connects = x.connects + 1
    <3>1. CASE r = u
      BY <1>3, <3>1 DEF Frame
    <3>2. CASE r = w
      BY <1>3, <3>2
    <3> QED
      BY <3>1, <3>2
  <2>2. /\ DOMAIN r = Fields /\ r.pcb = x.pcb /\ r.owner = x.owner
        /\ r.lwip = x.lwip /\ r.failed = x.failed /\ r.queued = x.queued
        /\ r.unsent = x.unsent /\ r.flight = x.flight /\ r.unacked = x.unacked
        /\ r.gap = x.gap /\ r.kind = x.kind /\ r.put = x.put /\ r.busy = x.busy
        /\ \A g \in Numbers \ {"connects"} : r[g] = x[g]
    BY <2>1, FieldsAre DEF Frame, Numbers
  <2>3. ASSUME ~x.failed
        PROVE  x.connects \in Nat /\ r.connects \in Nat /\ r.connects >= 1
    <3>1. x.connects \in Nat
      BY <1>2, <2>3 DEF Numbers
    <3> QED
      BY <2>1, <3>1
  <2>4. ASSUME ~x.failed
        PROVE  \A n \in Numbers : r[n] \in Nat
    BY <1>2, <2>2, <2>3, <2>4
  <2>5. ASSUME ~x.failed, r.connects <= 1
        PROVE  r.unacked = 0 /\ ~r.busy
    <3>1. x.connects = 0
      BY <2>1, <2>3, <2>5
    <3> QED
      BY <1>2, <2>2, <2>5, <3>1
  <2> QED
    BY <1>2, <2>2, <2>3, <2>4, <2>5 DEF Calling
<1>5. InStep(w)
  BY <1>4, CallingInStep
<1>6. Calling(y)
  BY <1>4, ConnectToCalls
<1>7. /\ Frame(u, y, {"ret", "failed", "lwip", "queued", "flight"})
      /\ y.lwip \in {u.lwip, "connecting"}
  BY <1>4, ConnectToDoes
<1> HIDE DEF y
<1>8. Frame(y, v, {"link"})
  BY <1>7, FieldsAre DEF Frame
<1> HIDE DEF v
<1>9. Calling(v)
  <2>1. /\ v.failed = y.failed /\ v.queued = y.queued /\ v.unsent = y.unsent
        /\ v.flight = y.flight /\ v.unacked = y.unacked /\ v.gap = y.gap
        /\ v.kind = y.kind /\ v.put = y.put /\ v.busy = y.busy
        /\ v.connects = y.connects /\ \A g \in Numbers : v[g] = y[g]
    BY <1>8, FieldsAre DEF Frame, Numbers
  <2> QED
    BY <1>6, <2>1 DEF Calling
<1>10. v.owner = "mqtt" /\ v.lwip # "open"
  <2>1. v.owner = u.owner /\ v.lwip = y.lwip
    BY <1>7, <1>8, FieldsAre DEF Frame
  <2> QED
    BY <1>4, <1>7, <2>1
<1>11. InStep(v)
  BY <1>9, <1>10, CallingInStep
<1> QED
  BY <1>1, <1>5, <1>11 DEF InStepInv

LEMMA InStepDns ==
  ASSUME OwnedInv, InStepInv,
         DnsUnknown \/ \E f \in Faults : DnsFound(f)
  PROVE  InStepInv'
<1>1. c.link = "dns"
  BY DEF DnsUnknown, DnsFound
<1>2. /\ c.owner = "mqtt" /\ c.alive /\ c.lwip # "open" /\ ~c.pcb
      /\ DOMAIN c = Fields /\ InStep(c)
  BY <1>1 DEF OwnedInv, Owned, BrokerOwned, ServerOwned, InStepInv
<1>3. CASE DnsUnknown
  <2>1. Frame(c, c', {"link", "bad"}) /\ c'.link = "none"
    BY <1>2, <1>3, DiscardDoes DEF DnsUnknown
  <2>2. \A g \in Numbers \cup {"failed", "gap", "kind", "owner", "lwip"} :
          c'[g] = c[g]
    BY <2>1, FieldsAre DEF Frame, Numbers
  <2>3. c'.owner = c.owner /\ c'.lwip = c.lwip
    BY <2>2
  <2>4. InStep(c')
    BY <1>2, <2>1, <2>2, <2>3, InStepIsSound, EndInStep
  <2> QED
    BY <2>4 DEF InStepInv
<1>4. ASSUME NEW f \in Faults, DnsFound(f)
      PROVE  InStepInv'
  <2> DEFINE y == ConnectTo(c, f)
  <2>1. c' = [y EXCEPT !.link = "connecting"]
    BY <1>4 DEF DnsFound
  <2>2. Calling(c)
    BY <1>1, <1>2 DEF InStep, Counted, Composed, Calling
  <2>3. Calling(y)
    BY <1>2, <2>2, ConnectToCalls
  <2>4. /\ Frame(c, y, {"ret", "failed", "lwip", "queued", "flight"})
        /\ y.lwip \in {c.lwip, "connecting"}
    BY <1>2, ConnectToDoes
  <2> HIDE DEF y
  <2>5. Frame(y, c', {"link"})
    BY <2>1, <2>4, FieldsAre DEF Frame
  <2>6. /\ c'.failed = y.failed /\ c'.queued = y.queued /\ c'.unsent = y.unsent
        /\ c'.flight = y.flight /\ c'.unacked = y.unacked /\ c'.gap = y.gap
        /\ c'.kind = y.kind /\ c'.put = y.put /\ c'.busy = y.busy
        /\ c'.connects = y.connects /\ \A g \in Numbers : c'[g] = y[g]
        /\ c'.lwip = y.lwip /\ c'.owner = y.owner /\ y.owner = c.owner
    BY <2>4, <2>5, FieldsAre DEF Frame, Numbers
  <2>7. Calling(c')
    BY <2>3, <2>6 DEF Calling
  <2> QED
    BY <1>2, <2>4, <2>6, <2>7, CallingInStep DEF InStepInv
<1> QED
  BY <1>3, <1>4

(* The counters of a connection to the broker that is there.               *)
Calm(x) ==
  ~x.failed =>
    /\ \A n \in Numbers : x[n] \in Nat
    /\ x.queued = 0 /\ x.unsent = 0 /\ x.flight <= SndBuf /\ x.flight <= x.unacked
    /\ ~x.gap /\ x.kind \in Kinds /\ x.put = 0 /\ x.connects >= 1
    /\ x.connects <= 1 => /\ x.unacked = x.flight
                          /\ x.busy <=> x.unacked > 0 /\ x.sentAge < AckTimeout

LEMMA CalmInStep ==
  ASSUME NEW x, x.owner = "mqtt", x.link = "up", x.alive, x.lwip = "open"
  PROVE  InStep(x) <=> Calm(x)
  BY DEF Calm, InStep, Counted, Composed

LEMMA InStepConnected ==
  ASSUME OwnedInv, InStepInv, Connected
  PROVE  InStepInv'
<1> DEFINE x == [c EXCEPT !.lwip = "open", !.pcb = TRUE, !.busy = FALSE,
                          !.rxAge = 0, !.link = "up"]
<1>1. c.lwip = "connecting" /\ c' = Returned(x)
  BY DEF Connected
<1>2. /\ DOMAIN c = Fields /\ c.owner = "mqtt" /\ c.alive
      /\ c.link = "connecting" /\ InStep(c)
  BY <1>1 DEF OwnedInv, Owned, ServerOwned, BrokerOwned, InStepInv
<1>3. Frame(c, x, {"lwip", "pcb", "busy", "rxAge", "link"})
      /\ x.lwip = "open" /\ x.link = "up"
  BY <1>2, FieldsAre DEF Frame
<1>4. ~x.busy
  BY <1>2, FieldsAre
<1> HIDE DEF x
<1>5. /\ x.failed = c.failed /\ x.queued = c.queued /\ x.unsent = c.unsent
      /\ x.flight = c.flight /\ x.unacked = c.unacked /\ x.gap = c.gap
      /\ x.kind = c.kind /\ x.put = c.put /\ x.alive = c.alive
      /\ x.connects = c.connects /\ \A g \in Numbers : x[g] = c[g]
      /\ x.owner = c.owner /\ DOMAIN x = Fields
  BY <1>3, FieldsAre DEF Frame, Numbers
<1>6. Calm(x)
  <2>1. ASSUME ~c.failed
        PROVE  /\ \A n \in Numbers : c[n] \in Nat
               /\ c.queued = 0 /\ c.unsent = 0 /\ c.flight <= SndBuf
               /\ c.flight <= c.unacked /\ c.unacked \in Nat /\ c.flight \in Nat
               /\ ~c.gap /\ c.kind \in Kinds /\ c.put = 0 /\ c.connects >= 1
               /\ c.connects <= 1 => c.unacked = 0
    BY <1>2, <2>1 DEF InStep, Counted, Composed, Numbers
  <2>2. ASSUME ~c.failed, x.connects <= 1
        PROVE  x.unacked = x.flight /\ ~(x.unacked > 0)
    BY <1>5, <2>1, <2>2
  <2> QED
    BY <1>4, <1>5, <2>1, <2>2 DEF Calm
<1>7. InStep(x)
  BY <1>2, <1>3, <1>5, <1>6, CalmInStep
<1> QED
  BY <1>1, <1>5, <1>7, ReturnInStep DEF InStepInv

LEMMA InStepPublish ==
  ASSUME OwnedInv, InStepInv, NEW n \in 1..SndBuf,
         NEW f, Publish(n, f)
  PROVE  InStepInv'
<1> DEFINE x == [c EXCEPT !.put = 0, !.packets = @ + 1]
           y == Write(x, n, 0, f)
           k == Least(n, Space(x))
<1>1. c.link = "up" /\ c' = [y EXCEPT !.put = 0]
  BY DEF Publish
<1>2. Linked(c) /\ InStep(c) /\ Calm(c) /\ DOMAIN c = Fields
  <2>1. Linked(c)
    BY <1>1 DEF OwnedInv, Owned, ServerOwned, BrokerOwned, Linked
  <2> QED
    BY <2>1, CalmInStep DEF Linked, InStepInv
<1>3. Frame(c, x, {"put", "packets"}) /\ x.put = 0
  BY <1>2, FieldsAre DEF Frame
<1> HIDE DEF x
<1>4. /\ Frame(x, y, Writes)
      /\ ~y.failed =>
           /\ ~x.failed
           /\ k = 0 => Frame(x, y, {"ret"})
           /\ k # 0 =>
                /\ y.busy /\ y.sentAge = 0 /\ y.unsent = 0 /\ y.queued = 0
                /\ y.unacked = x.unacked + (x.unsent + k)
                /\ y.flight = x.flight + (x.queued + k)
                /\ 0 = x.put /\ ~x.gap => ~y.gap
  BY <1>3, WriteDoes DEF Frame
<1> HIDE DEF y
<1>5. Frame(y, c', {"put"}) /\ c'.put = 0
  BY <1>1, <1>4, FieldsAre DEF Frame
<1>6. /\ c'.owner = "mqtt" /\ c'.link = "up" /\ c'.alive /\ c'.lwip = "open"
      /\ c'.kind = c.kind /\ c'.connects = c.connects
      /\ \A g \in {"front", "size", "left", "head", "sent", "length"} : c'[g] = c[g]
  BY <1>2, <1>3, <1>4, <1>5, FieldsAre DEF Frame, Linked, Writes, Sends
<1>7. /\ x.failed = c.failed /\ x.unacked = c.unacked /\ x.unsent = c.unsent
      /\ x.flight = c.flight /\ x.queued = c.queued /\ x.gap = c.gap
      /\ x.pcb = c.pcb /\ x.busy = c.busy /\ x.sentAge = c.sentAge
  BY <1>3, FieldsAre DEF Frame
<1>8. /\ c'.failed = y.failed /\ c'.unacked = y.unacked /\ c'.unsent = y.unsent
      /\ c'.flight = y.flight /\ c'.queued = y.queued /\ c'.gap = y.gap
      /\ c'.busy = y.busy /\ c'.sentAge = y.sentAge
  BY <1>5, FieldsAre DEF Frame
<1>9. CASE y.failed
  BY <1>8, <1>9 DEF InStepInv, InStep
<1>10. CASE ~y.failed
  <2>1. /\ ~c.failed /\ \A g \in Numbers : c[g] \in Nat
        /\ c.queued = 0 /\ c.unsent = 0 /\ c.flight <= SndBuf
        /\ c.flight <= c.unacked /\ c.flight \in Nat /\ c.unacked \in Nat
        /\ c.sentAge \in Nat /\ c.connects \in Nat
        /\ ~c.gap /\ c.kind \in Kinds /\ c.connects >= 1
        /\ c.connects <= 1 => c.unacked = c.flight
    BY <1>2, <1>4, <1>7, <1>10 DEF Calm, Numbers
  <2>2. c.connects <= 1 => (c.busy <=> c.unacked > 0 /\ c.sentAge < AckTimeout)
    BY <1>2, <2>1 DEF Calm
  <2>3. k \in 0..(SndBuf - c.flight)
    <3>1. Space(x) = SndBuf - c.flight
      BY <1>2, <1>7, <2>1, RoomAndPatience DEF Space, Linked
    <3> QED
      BY <2>1, <3>1, RoomAndPatience DEF Least
  <2> HIDE DEF k
  <2>4. CASE k = 0
    <3>1. /\ y.unacked = c.unacked /\ y.unsent = c.unsent /\ y.flight = c.flight
          /\ y.queued = c.queued /\ y.gap = c.gap /\ y.busy = c.busy
          /\ y.sentAge = c.sentAge
      BY <1>4, <1>7, <1>10, <2>4, FieldsAre DEF Frame
    <3>2. \A g \in Numbers : c'[g] \in Nat
      BY <1>5, <1>6, <1>8, <2>1, <3>1 DEF Numbers
    <3>3. Calm(c')
      BY <1>5, <1>6, <1>8, <2>1, <2>2, <3>1, <3>2 DEF Calm
    <3> QED
      BY <1>6, <3>3, CalmInStep DEF InStepInv
  <2>5. CASE k # 0
    <3>1. /\ c'.unacked = c.unacked + k /\ c'.flight = c.flight + k
          /\ c'.unacked \in Nat /\ c'.flight \in Nat /\ c'.unacked > 0
          /\ c'.flight <= SndBuf /\ c'.flight <= c'.unacked
          /\ c'.queued = 0 /\ c'.unsent = 0 /\ c'.sentAge = 0
      BY <1>4, <1>7, <1>8, <1>10, <2>1, <2>3, <2>5, RoomAndPatience
    <3>2. c'.busy /\ ~c'.gap
      BY <1>3, <1>4, <1>7, <1>8, <1>10, <2>1, <2>5
    <3>3. \A g \in Numbers : c'[g] \in Nat
      BY <1>5, <1>6, <2>1, <3>1 DEF Numbers
    <3>4. c'.connects <= 1 => c'.unacked = c'.flight
      BY <1>6, <2>1, <3>1
    <3>5. c'.sentAge < AckTimeout
      BY <3>1, RoomAndPatience
    <3>6. Calm(c')
      BY <1>5, <1>6, <2>1, <3>1, <3>2, <3>3, <3>4, <3>5 DEF Calm
    <3> QED
      BY <1>6, <3>6, CalmInStep DEF InStepInv
  <2> QED
    BY <2>4, <2>5
<1> QED
  BY <1>9, <1>10

LEMMA InStepDisconnect ==
  ASSUME OwnedInv, InStepInv, NEW f, Disconnect(f)
  PROVE  InStepInv'
<1>1. Linked(c) /\ c' = CloseNow(c, f)
  BY DEF Disconnect, OwnedInv, Owned, ServerOwned, BrokerOwned, Linked
<1> QED
  BY <1>1, InStepIsSound, ClosedInStep DEF Live, InStepInv

(* The first connection, and the next one accepted.                        *)
LEMMA InStepStart ==
  /\ Init => InStepInv
  /\ \A f : Accept(f) => InStepInv'
<1>1. ASSUME NEW f, NEW x \in {Nothing, New, TurnedAway(f)}
      PROVE  InStep(x)
  <2>0. Frame(Client, x, {"alive", "pcb", "lwip", "request", "rxTimeout",
                          "refused", "aborts", "told", "bad"})
    BY <1>1, ClientFresh, FieldsAre
    DEF Frame, Nothing, New, TurnedAway, TouchPcb
  <2>1. /\ \A n \in Numbers : x[n] = 0
        /\ x.owner = "server" /\ x.kind = "basic" /\ x.response = "NONE"
        /\ x.link = "none"
    BY <2>0, ClientFresh, FieldsAre DEF Frame, Numbers
  <2>2. ~x.gap /\ ~x.busy
    BY <2>0, ClientFresh, FieldsAre DEF Frame
  <2>3. /\ x.connects = 0 /\ x.queued = 0 /\ x.unsent = 0 /\ x.flight = 0
        /\ x.unacked = 0 /\ x.put = 0 /\ x.sent = 0
    BY <2>1 DEF Numbers
  <2>4. Counted(x)
    BY <2>1, <2>2, <2>3, RoomAndPatience DEF Counted
  <2>5. Composed(x)
    BY <2>1, <2>2, <2>3 DEF Composed, Begun, Kinds
  <2> QED
    BY <2>1, <2>4, <2>5 DEF InStep
<1> QED
  BY <1>1 DEF Init, Accept, InStepInv

(* Every step keeps it.                                                    *)
LEMMA InStepStep ==
  ASSUME OwnedInv, InStepInv, [Next]_vars
  PROVE  InStepInv'
<1>1. CASE Begin \/ End \/ UNCHANGED vars
  BY <1>1 DEF Begin, End, vars, InStepInv
<1>2. CASE Outgoing
  <2>1. DnsUnknown \/ Connected \/ \E f \in Faults :
          \/ Connect(f) \/ DnsFound(f) \/ Disconnect(f)
          \/ \E n \in 1..SndBuf : Publish(n, f)
    BY <1>2 DEF Outgoing
  <2> QED
    BY <2>1, InStepDns, InStepConnected, InStepConnect, InStepDisconnect,
       InStepPublish
<1>3. CASE \E f \in Faults :
             \/ \E k \in Kinds, h \in Heads, n \in Sizes : RecvWhole(k, h, n, f)
             \/ \E n \in 1..SndBuf : Sent(n, f)
             \/ Accept(f) \/ Poll(f) \/ RecvFin(f)
  BY <1>3, InStepStart, InStepRecvs, InStepSent, InStepPoll, InStepFin
<1> QED
  BY <1>1, <1>2, <1>3, InStepError, InStepOutput, InStepRecvs DEF Next

(* Both invariants always hold: the second one needs the first.            *)
LEMMA InStepAlways ==
  Spec => [](OwnedInv /\ InStepInv)
<1>1. Init => OwnedInv /\ InStepInv
  BY OwnedStart, InStepStart
<1>2. /\ OwnedInv /\ InStepInv /\ [Next]_vars
      => OwnedInv' /\ InStepInv'
  BY OwnedStep, InStepStep
<1> QED
  BY <1>1, <1>2, PTL DEF Spec

(* For any cutting of the acknowledgements, and as long as lwIP has        *)
(* refused nothing: on its first connection a client counts as             *)
(* unacknowledged what lwIP has in flight, and it is busy exactly while    *)
(* something is and has not been waited for too long (AsyncClient::add,    *)
(* send, _sent and _poll).                                                 *)
THEOREM CountersAreTrue ==
  Spec => []CountersAgree
<1>1. OwnedInv /\ InStepInv => CountersAgree
  BY DEF OwnedInv, InStepInv, InStep, Counted, CountersAgree
<1> QED
  BY <1>1, InStepAlways, PTL

(* For any size of head and content, and as long as lwIP and malloc have   *)
(* refused nothing: the bytes given to lwIP are those of the response, in  *)
(* order and without a hole, and a response that waits for its last        *)
(* acknowledgement has given them all, but for one without a length whose  *)
(* head just fits (_respond and _ack of AsyncBasicResponse and             *)
(* AsyncAbstractResponse).                                                 *)
THEOREM ResponseWhole ==
  Spec => []InOrder
<1>1. OwnedInv /\ InStepInv => InOrder
  <2> SUFFICES ASSUME OwnedInv, InStepInv, ~c.failed
               PROVE  /\ ~c.gap
                      /\ c.response \in {"WAIT_ACK", "END"} => Given(c)
    BY DEF InOrder, Given
  <2>1. Composed(c)
    BY DEF InStepInv, InStep
  <2>2. c.response # "NONE" => c.owner = "server" /\ c.alive
    BY DEF OwnedInv, Owned, ServerOwned, BrokerOwned
  <2> QED
    BY <2>1, <2>2 DEF Composed
<1> QED
  BY <1>1, InStepAlways, PTL

----------------------------------------------------------------------------
(* The room of the send buffer, whatever is refused                        *)

Buffer(x) ==
  /\ x.queued \in Nat /\ x.flight \in Nat
  /\ x.queued + x.flight <= SndBuf

(* write() gives lwIP no more than its room, and no more than it is given; *)
(* what is refused is at most queued.                                      *)
LEMMA WriteFits ==
  ASSUME NEW x, DOMAIN x = Fields, Buffer(x), NEW n \in Nat, NEW from, NEW f
  PROVE  LET y == Write(x, n, from, f) IN
         /\ Buffer(y)
         /\ \/ y.put = x.put
            \/ from = x.put /\ \E k \in 0..n : y.put = x.put + k
<1> DEFINE k == Least(n, Space(x))
           u == [x EXCEPT !.queued = @ + k, !.unsent = @ + k,
                          !.put = IF from = @ THEN @ + k ELSE @,
                          !.gap = @ \/ from # x.put]
           s == Send(u, f)
           y == Write(x, n, from, f)
<1>1. /\ k \in 0..n
      /\ (x.queued + k) \in Nat /\ x.queued + k + x.flight <= SndBuf
  BY RoomAndPatience DEF Buffer, Least, Space
<1> HIDE DEF k
<1>2. CASE k = 0 \/ f = "write"
  <2>1. y = [x EXCEPT !.ret = 0] \/ y = [x EXCEPT !.ret = 0, !.failed = TRUE]
    BY <1>2 DEF Write, k
  <2>2. y.queued = x.queued /\ y.flight = x.flight /\ y.put = x.put
    BY <2>1, FieldsAre
  <2> HIDE DEF y
  <2> QED
    BY <2>2 DEF Buffer, y
<1>3. CASE k # 0 /\ f # "write"
  <2>1. y = [s EXCEPT !.ret = IF f = "output" THEN 0 ELSE k]
    BY <1>3 DEF Write, k
  <2>2. /\ DOMAIN u = Fields /\ u.queued = x.queued + k
        /\ u.flight = x.flight
        /\ u.put = IF from = x.put THEN x.put + k ELSE x.put
    BY FieldsAre
  <2> HIDE DEF u
  <2>3. /\ DOMAIN s = Fields /\ s.put = u.put
        /\ \/ s.queued = u.queued /\ s.flight = u.flight
           \/ s.queued = 0 /\ s.flight = u.flight + u.queued
    BY <2>2, FieldsAre DEF Send
  <2> HIDE DEF s
  <2>4. y.put = s.put /\ y.queued = s.queued /\ y.flight = s.flight
    BY <2>1, <2>3, FieldsAre
  <2> HIDE DEF y
  <2>5. Buffer(y)
    BY <1>1, <2>2, <2>3, <2>4, RoomAndPatience DEF Buffer
  <2>6. y.put = x.put \/ (from = x.put /\ y.put = x.put + k)
    BY <2>2, <2>3, <2>4
  <2> QED
    BY <1>1, <2>5, <2>6 DEF y
<1> QED
  BY <1>2, <1>3

(* The same for a response, which writes at its place no more than is left *)
(* of it.                                                                  *)
LEMMA WriteOutBounded ==
  ASSUME NEW x, Bounded(x), x.parse # "HEAD", NEW n \in Nat, NEW from, NEW f,
         from = x.put => from + n <= Total(x)
  PROVE  LET y == WriteOut(x, n, from, f) IN
         Bounded(y) /\ Frame(x, y, Writes)
<1> DEFINE w == Write(x, n, from, f)
           y == WriteOut(x, n, from, f)
<1>1. /\ DOMAIN x = Fields /\ Buffer(x) /\ x.put \in Nat
      /\ x.front \in Nat /\ x.size \in Nat /\ x.put <= Total(x)
  BY DEF Bounded, Buffer, Counts
<1>2. /\ Buffer(w)
      /\ \/ w.put = x.put
         \/ from = x.put /\ \E k \in 0..n : w.put = x.put + k
  BY <1>1, WriteFits
<1>3. Frame(x, y, Writes)
  BY <1>1, WriteOutDoes
<1>4. DOMAIN w = Fields
  BY <1>1, WriteDoes DEF Frame
<1>5. y = [w EXCEPT !.written = @ + w.ret]
  BY DEF WriteOut
<1> HIDE DEF w, y
<1>6. y.put = w.put /\ y.queued = w.queued /\ y.flight = w.flight
  BY <1>4, <1>5, FieldsAre
<1>7. w.put \in Nat /\ w.put <= x.front + x.size
  BY <1>1, <1>2 DEF Total
<1>8. /\ y.front = x.front /\ y.size = x.size /\ y.length = x.length
      /\ y.left = x.left /\ y.head = x.head /\ y.sent = x.sent
      /\ y.kind = x.kind /\ y.response = x.response /\ y.parse = x.parse
  BY <1>3, FieldsAre DEF Frame, Writes, Sends
<1>9. Bounded(y)
  <2>1. y.put \in Nat /\ y.put <= Total(y)
    BY <1>6, <1>7, <1>8 DEF Total
  <2>2. \A g \in Counts : y[g] \in Nat
    BY <1>2, <1>6, <1>8, <2>1 DEF Bounded, Buffer, Counts
  <2> QED
    BY <1>2, <1>3, <1>6, <1>8, <2>1, <2>2 DEF Bounded, Buffer, Frame
<1> QED
  BY <1>3, <1>9 DEF y

(* It is so for a connection whose response is at the same place, or over. *)
Placed == {"kind", "front", "size", "length", "left", "head", "put", "sent"}

LEMMA PlacedFits ==
  ASSUME NEW x, Bounded(x), Fitting(x), NEW y, DOMAIN y = Fields, Buffer(y),
         \A g \in Placed : y[g] = x[g],
         y.parse \in {x.parse, "END", "FAIL"},
         \/ y.response = x.response
         \/ y.response = "NONE"
         \/ x.response # "NONE" /\ y.response \in {"WAIT_ACK", "END"}
  PROVE  Bounded(y) /\ Fitting(y)
<1>1. /\ y.kind = x.kind /\ y.front = x.front /\ y.size = x.size
      /\ y.length = x.length /\ y.left = x.left /\ y.head = x.head
      /\ y.put = x.put /\ y.sent = x.sent
  BY DEF Placed
<1>2. Total(y) = Total(x)
  BY <1>1 DEF Total
<1>3. \A g \in Counts : y[g] \in Nat
  BY DEF Counts, Placed, Bounded, Buffer
<1>4. y.response \in Responses
  BY DEF Bounded, Responses
<1>5. y.parse = "HEAD" => y.response = "NONE" /\ y.put = 0 /\ y.sent = 0
  BY <1>1 DEF Bounded
<1>6. Fitting(y)
  BY <1>1, <1>2 DEF Fitting
<1> QED
  BY <1>1, <1>2, <1>3, <1>4, <1>5, <1>6 DEF Bounded, Buffer

(* In particular when y is x but for other fields.                         *)
LEMMA FrameFits ==
  ASSUME NEW x, Bounded(x), Fitting(x), NEW y, NEW S, Frame(x, y, S),
         S \cap (Placed \cup {"queued", "flight", "parse"}) = {},
         "response" \in S => y.response \in {x.response, "NONE"}
  PROVE  Bounded(y) /\ Fitting(y)
<1>1. DOMAIN y = Fields
  BY DEF Frame
<1>2. /\ \A g \in Placed : y[g] = x[g]
      /\ y.queued = x.queued /\ y.flight = x.flight /\ y.parse = x.parse
      /\ y.response \in {x.response, "NONE"}
  BY FieldsAre DEF Frame, Placed
<1>3. Buffer(y)
  BY <1>2 DEF Buffer, Bounded, Counts
<1> QED
  BY <1>1, <1>2, <1>3, PlacedFits

(* The responses stay within what they are made of.                        *)
LEMMA RespondBasicFits ==
  ASSUME NEW x, Bounded(x), x.parse # "HEAD", x.kind = "basic", x.sent = 0,
         x.length = x.size, NEW f
  PROVE  Bounded(RespondBasic(x, f)) /\ Fitting(RespondBasic(x, f))
<1> DEFINE z == [x EXCEPT !.response = "CONTENT"]
           Rest(n) == [z EXCEPT !.left = Total(x) - n, !.length = @ + x.front - n]
           s == Space(x)
           w == [x EXCEPT !.response = "WAIT_ACK"]
           v == [z EXCEPT !.sent = s - x.front, !.left = Total(x) - s]
<1>1. /\ DOMAIN x = Fields /\ x.front \in Nat /\ x.size \in Nat
      /\ \A g \in Counts : x[g] \in Nat
      /\ x.queued + x.flight <= SndBuf /\ x.put <= Total(x)
      /\ Total(x) \in Nat /\ s \in Nat
  BY RoomAndPatience DEF Bounded, Counts, Total, Space
<1>2. CASE s >= Total(x)
  <2>1. RespondBasic(x, f) = WriteOut(w, Total(x), 0, f)
    BY <1>2 DEF RespondBasic
  <2>2. Frame(x, w, {"response"}) /\ w.response = "WAIT_ACK"
    BY <1>1, FieldsAre DEF Frame
  <2> HIDE DEF w
  <2>3. Bounded(w) /\ Total(w) = Total(x) /\ w.parse = x.parse
    BY <1>1, <2>2, FieldsAre
    DEF Frame, Bounded, Total, Counts, Responses
  <2> DEFINE y == WriteOut(w, Total(x), 0, f)
  <2>4. Bounded(y) /\ Frame(w, y, Writes)
    BY <1>1, <2>3, WriteOutBounded
  <2> HIDE DEF y
  <2>5. y.response = "WAIT_ACK"
    BY <2>2, <2>4, FieldsAre DEF Frame, Writes, Sends
  <2> QED
    BY <2>1, <2>4, <2>5 DEF Fitting, y
<1>3. \A n \in 0..Total(x) :
        n <= x.front => Bounded(Rest(n)) /\ Fitting(Rest(n))
                        /\ Rest(n).parse = x.parse /\ Total(Rest(n)) = Total(x)
                        /\ DOMAIN Rest(n) = Fields
  <2> TAKE n \in 0..Total(x)
  <2> HAVE n <= x.front
  <2> DEFINE r == Rest(n)
  <2>1. /\ Frame(x, r, {"response", "left", "length"})
        /\ r.response = "CONTENT" /\ r.left = Total(x) - n
        /\ r.length = x.length + x.front - n
    BY <1>1, FieldsAre DEF Frame
  <2> HIDE DEF r
  <2>2. /\ r.kind = "basic" /\ r.sent = 0 /\ r.front = x.front
        /\ r.size = x.size /\ r.put = x.put /\ r.parse = x.parse
        /\ r.queued = x.queued /\ r.flight = x.flight /\ r.head = x.head
    BY <2>1, FieldsAre DEF Frame
  <2>3. /\ r.left \in Nat /\ r.left <= Total(x)
        /\ r.length \in Nat /\ r.length = r.left
    BY <1>1, <2>1 DEF Total
  <2>4. Bounded(r) /\ Fitting(r) /\ Total(r) = Total(x)
    BY <1>1, <2>1, <2>2, <2>3
    DEF Frame, Bounded, Fitting, Total, Counts, Responses
  <2>5. DOMAIN r = Fields /\ r.parse = x.parse
    BY <2>1, <2>2 DEF Frame
  <2> QED
    BY <2>4, <2>5 DEF r
<1>4. CASE RespondBasic(x, f) = WriteOut(Rest(s), s, 0, f)
           /\ s < x.front /\ s <= Total(x)
  <2> DEFINE r == Rest(s)
             y == WriteOut(r, s, 0, f)
  <2>1. s \in 0..Total(x) /\ s <= x.front
    BY <1>1, <1>4
  <2>2. /\ Bounded(r) /\ Fitting(r) /\ DOMAIN r = Fields
        /\ r.parse = x.parse /\ Total(r) = Total(x)
    <3> HIDE DEF Rest, s
    <3> QED
      BY <1>3, <2>1
  <2> HIDE DEF r
  <2>3. Bounded(y) /\ Frame(r, y, Writes)
    BY <1>1, <1>4, <2>2, WriteOutBounded
  <2> HIDE DEF y
  <2>4. Fitting(y)
    BY <2>2, <2>3, FieldsAre DEF Frame, Writes, Sends, Fitting, Total
  <2> QED
    BY <1>4, <2>3, <2>4 DEF y, r
<1>5. CASE RespondBasic(x, f) = WriteOut(v, s, 0, f)
           /\ s > x.front /\ s <= Total(x)
  <2> DEFINE y == WriteOut(v, s, 0, f)
  <2>1. /\ Frame(x, v, {"response", "sent", "left"}) /\ v.response = "CONTENT"
        /\ v.sent = s - x.front /\ v.left = Total(x) - s
    BY <1>1, FieldsAre DEF Frame
  <2> HIDE DEF v
  <2>2. /\ v.kind = "basic" /\ v.length = x.size /\ v.front = x.front
        /\ v.size = x.size /\ v.put = x.put /\ v.parse = x.parse
        /\ v.queued = x.queued /\ v.flight = x.flight /\ v.head = x.head
    BY <2>1, FieldsAre DEF Frame
  <2>3. /\ v.left \in Nat /\ v.left <= Total(x) /\ v.sent \in Nat
        /\ v.length = v.sent + v.left
    <3>1. /\ s \in Nat /\ s > x.front /\ s <= x.front + x.size
          /\ v.sent = s - x.front /\ v.left = x.front + x.size - s
          /\ v.length = x.size /\ x.front \in Nat /\ x.size \in Nat
      BY <1>1, <1>5, <2>1, <2>2 DEF Total
    <3> HIDE DEF s
    <3> QED
      BY <3>1 DEF Total
  <2>4. Bounded(v) /\ Fitting(v) /\ Total(v) = Total(x)
    BY <1>1, <2>1, <2>2, <2>3
    DEF Frame, Bounded, Fitting, Total, Counts, Responses
  <2>5. Bounded(y) /\ Frame(v, y, Writes)
    BY <1>1, <1>5, <2>2, <2>4, WriteOutBounded
  <2> HIDE DEF y
  <2>6. Fitting(y)
    BY <2>4, <2>5, FieldsAre DEF Frame, Writes, Sends, Fitting, Total
  <2> QED
    BY <1>5, <2>5, <2>6 DEF y
<1>6. CASE RespondBasic(x, f) = Rest(0)
  <2>1. 0 \in 0..Total(x) /\ 0 <= x.front
    BY <1>1
  <2>2. Bounded(Rest(0)) /\ Fitting(Rest(0))
    <3> HIDE DEF Rest
    <3> QED
      BY <1>3, <2>1
  <2> HIDE DEF Rest
  <2> QED
    BY <1>6, <2>2
<1>7. \/ s >= Total(x)
      \/ RespondBasic(x, f) = WriteOut(Rest(s), s, 0, f) /\ s < x.front
         /\ s <= Total(x)
      \/ RespondBasic(x, f) = WriteOut(v, s, 0, f) /\ s > x.front
         /\ s <= Total(x)
      \/ RespondBasic(x, f) = Rest(0)
  <2>1. s \in Nat /\ Total(x) \in Nat
    BY <1>1
  <2>2. s >= Total(x) \/ s <= Total(x)
    BY <2>1
  <2> HIDE DEF Rest, v
  <2>3. \/ s >= Total(x)
        \/ RespondBasic(x, f) = WriteOut(Rest(s), s, 0, f) /\ s < x.front
        \/ RespondBasic(x, f) = WriteOut(v, s, 0, f) /\ s > x.front
        \/ RespondBasic(x, f) = Rest(0)
    BY DEF RespondBasic, Rest, v
  <2> QED
    BY <2>2, <2>3
<1> HIDE DEF Rest, v, s
<1> QED
  BY <1>2, <1>4, <1>5, <1>6, <1>7

LEMMA AckBasicFits ==
  ASSUME NEW x, Bounded(x), Fitting(x), x.kind = "basic",
         x.response = "CONTENT", NEW f
  PROVE  Bounded(AckBasic(x, f)) /\ Fitting(AckBasic(x, f))
<1> DEFINE s == Space(x)
           from == Total(x) - x.left
           u == [x EXCEPT !.left = 0, !.response = "WAIT_ACK"]
           v == [x EXCEPT !.left = @ - Least(s, @), !.sent = @ + s]
<1>1. /\ DOMAIN x = Fields /\ x.front \in Nat /\ x.size \in Nat
      /\ \A g \in Counts : x[g] \in Nat
      /\ x.queued + x.flight <= SndBuf /\ x.put <= Total(x)
      /\ x.length = x.sent + x.left /\ x.left \in Nat /\ x.sent \in Nat
      /\ x.left <= Total(x) /\ x.parse # "HEAD"
      /\ Total(x) \in Nat /\ s \in Nat
  BY RoomAndPatience DEF Bounded, Fitting, Counts, Total, Space
<1>2. x.length - x.sent = x.left /\ from \in Int /\ from + x.left = Total(x)
  BY <1>1
<1>3. CASE s > x.left
  <2> DEFINE y == WriteOut(u, x.left, from, f)
  <2>1. AckBasic(x, f) = y
    BY <1>2, <1>3 DEF AckBasic
  <2>2. Frame(x, u, {"response", "left"}) /\ u.response = "WAIT_ACK" /\ u.left = 0
    BY <1>1, FieldsAre DEF Frame
  <2> HIDE DEF u
  <2>3. Bounded(u) /\ Total(u) = Total(x) /\ u.parse = x.parse
    BY <1>1, <2>2, FieldsAre
    DEF Frame, Bounded, Total, Counts, Responses
  <2> HIDE DEF from
  <2>4. Bounded(y) /\ Frame(u, y, Writes)
    BY <1>1, <1>2, <2>3, WriteOutBounded
  <2> HIDE DEF y
  <2>5. y.response = "WAIT_ACK"
    BY <2>2, <2>4, FieldsAre DEF Frame, Writes, Sends
  <2> QED
    BY <2>1, <2>4, <2>5 DEF Fitting
<1>4. CASE s <= x.left
  <2> DEFINE y == WriteOut(v, s, from, f)
  <2>1. AckBasic(x, f) = y
    BY <1>1, <1>2, <1>4 DEF AckBasic
  <2>2. /\ Frame(x, v, {"sent", "left"})
        /\ v.left = x.left - Least(s, x.left) /\ v.sent = x.sent + s
    BY <1>1, FieldsAre DEF Frame
  <2> HIDE DEF v
  <2>3. /\ v.left \in Nat /\ v.left <= Total(x) /\ v.sent \in Nat
        /\ x.length = v.sent + v.left
    BY <1>1, <1>4, <2>2 DEF Least
  <2>4. /\ v.kind = "basic" /\ v.length = x.length /\ v.front = x.front
        /\ v.size = x.size /\ v.put = x.put /\ v.parse = x.parse
        /\ v.queued = x.queued /\ v.flight = x.flight /\ v.head = x.head
        /\ v.response = "CONTENT"
    BY <2>2, FieldsAre DEF Frame
  <2>5. Bounded(v) /\ Fitting(v) /\ Total(v) = Total(x)
    BY <1>1, <2>2, <2>3, <2>4
    DEF Frame, Bounded, Fitting, Total, Counts, Responses
  <2>6. from = v.put => from + s <= Total(v)
    BY <1>1, <1>2, <1>4, <2>5
  <2> HIDE DEF from
  <2>7. Bounded(y) /\ Frame(v, y, Writes)
    BY <1>1, <2>4, <2>5, <2>6, WriteOutBounded
  <2> HIDE DEF y
  <2>8. Fitting(y)
    BY <2>5, <2>7, FieldsAre DEF Frame, Writes, Sends, Fitting, Total
  <2> QED
    BY <2>1, <2>7, <2>8
<1> QED
  BY <1>1, <1>3, <1>4

LEMMA AckHeadFits ==
  ASSUME NEW x, Bounded(x), Fitting(x), x.kind # "basic",
         x.response = "HEADERS", Space(x) < x.head, NEW f
  PROVE  Bounded(AckHead(x, f)) /\ Fitting(AckHead(x, f))
<1> DEFINE s == Space(x)
           u == [x EXCEPT !.head = @ - s]
           from == x.front - x.head
           y == WriteOut(u, s, from, f)
<1>1. /\ DOMAIN x = Fields /\ x.front \in Nat /\ x.size \in Nat
      /\ \A g \in Counts : x[g] \in Nat
      /\ x.queued + x.flight <= SndBuf
      /\ x.parse # "HEAD" /\ x.head <= x.front /\ x.head \in Nat
      /\ s \in Nat /\ s < x.head
  BY RoomAndPatience DEF Bounded, Fitting, Counts, Total, Space
<1>2. Frame(x, u, {"head"}) /\ u.head = x.head - s
  BY <1>1, FieldsAre DEF Frame
<1>3. AckHead(x, f) = y
  BY DEF AckHead
<1> HIDE DEF u
<1>4. u.head \in Nat /\ u.head <= x.front
  BY <1>1, <1>2
<1>5. /\ u.kind = x.kind /\ u.length = x.length /\ u.front = x.front
      /\ u.size = x.size /\ u.put = x.put /\ u.parse = x.parse
      /\ u.queued = x.queued /\ u.flight = x.flight /\ u.left = x.left
      /\ u.response = x.response /\ u.sent = x.sent
  BY <1>2, FieldsAre DEF Frame
<1>6. Bounded(u) /\ Fitting(u)
  BY <1>1, <1>2, <1>4, <1>5
  DEF Frame, Bounded, Fitting, Total, Counts, Responses
<1>7. from + s <= Total(u)
  BY <1>1, <1>5 DEF Total
<1> HIDE DEF from
<1>8. Bounded(y) /\ Frame(u, y, Writes)
  BY <1>1, <1>5, <1>6, <1>7, WriteOutBounded
<1> HIDE DEF y
<1>9. Fitting(y)
  BY <1>6, <1>8, FieldsAre DEF Frame, Writes, Sends, Fitting, Total
<1> QED
  BY <1>3, <1>8, <1>9

LEMMA AckContentFits ==
  ASSUME NEW x, Bounded(x), Fitting(x), x.kind # "basic",
         x.response \in {"HEADERS", "CONTENT"},
         x.response = "HEADERS" => Space(x) >= x.head, NEW f
  PROVE  Bounded(AckContent(x, f)) /\ Fitting(AckContent(x, f))
<1> DEFINE s   == IF x.response = "HEADERS" THEN Space(x) - x.head ELSE Space(x)
           out == IF x.kind = "file" THEN Least(x.length - x.sent, s) ELSE s
           n   == FillBuffer(x, out)
           from == Total(x) - x.left - x.head
           y   == [x EXCEPT !.response = "CONTENT"]
           u   == [y EXCEPT !.left = @ - n, !.head = 0]
           w   == WriteOut(u, x.head + n, from, f)
           z   == [w EXCEPT !.sent = @ + n]
<1>1. /\ DOMAIN x = Fields /\ x.front \in Nat /\ x.size \in Nat
      /\ \A g \in Counts : x[g] \in Nat
      /\ x.queued + x.flight <= SndBuf /\ x.put <= Total(x)
      /\ x.left <= x.size /\ x.left \in Nat /\ x.sent \in Nat
      /\ x.parse # "HEAD" /\ x.head <= x.front /\ x.head \in Nat
      /\ x.length \in Nat /\ x.kind \in Kinds
  BY DEF Bounded, Fitting, Counts
<1>2. x.kind = "file" => x.length = x.sent + x.left
  BY DEF Fitting
<1>3. s \in Nat
  BY <1>1, RoomAndPatience DEF Space, Counts
<1>4. n \in 0..x.left
  <2> HIDE DEF s
  <2>1. out \in Nat
    BY <1>1, <1>2, <1>3 DEF Least
  <2> HIDE DEF out
  <2> QED
    BY <1>1, <2>1 DEF FillBuffer, Least
<1> HIDE DEF n
<1>5. /\ x.head + n \in Nat /\ x.left - n \in Nat /\ x.left - n <= x.size
      /\ from \in Int /\ from + (x.head + n) <= Total(x)
  BY <1>1, <1>4 DEF Total
<1>6. /\ Frame(x, u, {"response", "left", "head"}) /\ u.response = "CONTENT"
      /\ u.left = x.left - n /\ u.head = 0
  BY <1>1, FieldsAre DEF Frame
<1> HIDE DEF u
<1>7. /\ u.kind = x.kind /\ u.length = x.length /\ u.front = x.front
      /\ u.size = x.size /\ u.put = x.put /\ u.parse = x.parse
      /\ u.queued = x.queued /\ u.flight = x.flight /\ u.sent = x.sent
  BY <1>6, FieldsAre DEF Frame
<1>8. Bounded(u) /\ Total(u) = Total(x)
  BY <1>1, <1>5, <1>6, <1>7 DEF Frame, Bounded, Total, Counts, Responses
<1> HIDE DEF from
<1>9. Bounded(w) /\ Frame(u, w, Writes)
  BY <1>1, <1>5, <1>7, <1>8, WriteOutBounded
<1> HIDE DEF w
<1>10. /\ w.kind = x.kind /\ w.length = x.length /\ w.front = x.front
       /\ w.size = x.size /\ w.parse = x.parse /\ w.sent = x.sent
       /\ w.left = x.left - n /\ w.head = 0 /\ w.response = "CONTENT"
  BY <1>6, <1>7, <1>9, FieldsAre DEF Frame, Writes, Sends
<1>11. Frame(w, z, {"sent"}) /\ z.sent = x.sent + n
  BY <1>9, <1>10, FieldsAre DEF Frame
<1> HIDE DEF z
<1>12. /\ z.kind = x.kind /\ z.length = x.length /\ z.front = x.front
       /\ z.size = x.size /\ z.parse = x.parse /\ z.put = w.put
       /\ z.queued = w.queued /\ z.flight = w.flight
       /\ z.left = x.left - n /\ z.head = 0 /\ z.response = "CONTENT"
  BY <1>10, <1>11, FieldsAre DEF Frame
<1>13. z.sent \in Nat /\ (x.kind = "file" => z.length = z.sent + z.left)
  BY <1>1, <1>2, <1>4, <1>11, <1>12
<1>14. Bounded(z)
  <2>1. \A g \in Counts : z[g] \in Nat
    BY <1>1, <1>5, <1>9, <1>12, <1>13 DEF Bounded, Counts
  <2> QED
    BY <1>1, <1>9, <1>10, <1>11, <1>12, <2>1
    DEF Bounded, Total, Frame, Responses
<1>15. Fitting(z)
  BY <1>1, <1>5, <1>12, <1>13 DEF Fitting
<1>16. /\ Bounded([z EXCEPT !.response = "WAIT_ACK"])
       /\ Fitting([z EXCEPT !.response = "WAIT_ACK"])
  <2> DEFINE e == [z EXCEPT !.response = "WAIT_ACK"]
  <2>1. Frame(z, e, {"response"}) /\ e.response = "WAIT_ACK"
    BY <1>11, FieldsAre DEF Frame
  <2> HIDE DEF e
  <2>2. /\ \A g \in Placed : e[g] = z[g]
        /\ e.queued = z.queued /\ e.flight = z.flight /\ e.parse = z.parse
    BY <2>1, FieldsAre DEF Frame, Placed
  <2>3. Buffer(e) /\ DOMAIN e = Fields
    BY <1>14, <2>1, <2>2 DEF Buffer, Bounded, Counts, Frame
  <2>4. Bounded(e) /\ Fitting(e)
    BY <1>12, <1>14, <1>15, <2>1, <2>2, <2>3, PlacedFits
  <2> QED
    BY <2>4 DEF e
<1>17. /\ Bounded([y EXCEPT !.failed = TRUE])
       /\ Fitting([y EXCEPT !.failed = TRUE])
  <2> DEFINE e == [y EXCEPT !.failed = TRUE]
  <2>1. Frame(x, e, {"response", "failed"}) /\ e.response = "CONTENT"
    BY <1>1, FieldsAre DEF Frame
  <2> HIDE DEF e
  <2>2. /\ e.kind = x.kind /\ e.length = x.length /\ e.front = x.front
        /\ e.size = x.size /\ e.put = x.put /\ e.parse = x.parse
        /\ e.queued = x.queued /\ e.flight = x.flight /\ e.sent = x.sent
        /\ e.left = x.left /\ e.head = x.head
    BY <2>1, FieldsAre DEF Frame
  <2>3. Bounded(e)
    BY <1>1, <2>1, <2>2 DEF Bounded, Counts, Total, Frame, Responses
  <2>4. Fitting(e)
    BY <1>1, <1>2, <2>1, <2>2 DEF Fitting
  <2> QED
    BY <2>3, <2>4 DEF e
<1>18. AckContent(x, f) \in
        {[y EXCEPT !.failed = TRUE], [z EXCEPT !.response = "WAIT_ACK"], z}
  BY DEF AckContent, z, w, u, from, n
<1> QED
  BY <1>14, <1>15, <1>16, <1>17, <1>18

LEMMA AckAbstractFits ==
  ASSUME NEW x, Bounded(x), Fitting(x), x.kind # "basic",
         x.response \in {"HEADERS", "CONTENT"}, NEW f
  PROVE  Bounded(AckAbstract(x, f)) /\ Fitting(AckAbstract(x, f))
<1>1. Space(x) \in Int /\ x.head \in Nat
  BY RoomAndPatience DEF Bounded, Counts, Space
<1>2. CASE x.response = "HEADERS" /\ Space(x) < x.head
  BY <1>2, AckHeadFits DEF AckAbstract
<1>3. CASE ~(x.response = "HEADERS" /\ Space(x) < x.head)
  <2>1. x.response = "HEADERS" => Space(x) >= x.head
    BY <1>1, <1>3
  <2> QED
    BY <1>3, <2>1, AckContentFits DEF AckAbstract
<1> QED
  BY <1>2, <1>3

(* Closing, an acknowledgement, a new response.                            *)
LEMMA CloseFits ==
  ASSUME NEW x, Room(x), NEW f
  PROVE  Room(CloseNow(x, f)) /\ CloseNow(x, f).parse = x.parse
<1> DEFINE y == CloseNow(x, f)
           A == {"pcb", "lwip", "aborts", "closeError", "link", "bad"}
           B == {"pcb", "lwip", "aborts", "closeError", "alive", "request",
                 "response", "bad"}
<1>1. DOMAIN x = Fields
  BY DEF Room, Bounded
<1>2. CASE ~x.pcb
  BY <1>2 DEF CloseNow
<1>3. CASE x.pcb
  <2>1. Frame(x, y, A) \/ (Frame(x, y, B) /\ y.response = "NONE")
    BY <1>1, <1>3, CloseNowDoes
  <2> HIDE DEF y
  <2>2. y.parse = x.parse
    BY <2>1, FieldsAre DEF Frame
  <2>3. Frame(x, y, A) => Bounded(y) /\ Fitting(y)
    BY FrameFits DEF Room, Placed
  <2>4. Frame(x, y, B) /\ y.response = "NONE" => Bounded(y) /\ Fitting(y)
    BY FrameFits DEF Room, Placed
  <2> QED
    BY <2>1, <2>2, <2>3, <2>4 DEF y, Room
<1> QED
  BY <1>2, <1>3

LEMMA AckFits ==
  ASSUME NEW x, Room(x), Sending(x), NEW n, NEW f
  PROVE  Room(Ack(x, n, f))
<1> DEFINE y == [x EXCEPT !.ackedLength = @ + n]
           e == [y EXCEPT !.response = "END"]
<1>1. DOMAIN x = Fields
  BY DEF Room, Bounded
<1>2. Frame(x, y, {"ackedLength"})
  BY <1>1, FieldsAre DEF Frame
<1>3. Ack(x, n, f) = IF y.response = "WAIT_ACK" THEN AckWait(y, f)
                     ELSE IF y.kind = "basic" THEN AckBasic(y, f)
                     ELSE AckAbstract(y, f)
  BY DEF Ack
<1> HIDE DEF y
<1>4. /\ Bounded(y) /\ Fitting(y) /\ DOMAIN y = Fields
      /\ y.response \in {"HEADERS", "CONTENT", "WAIT_ACK"}
  <2>1. Bounded(y) /\ Fitting(y)
    BY <1>2, FrameFits DEF Room, Placed
  <2>2. y.response = x.response
    BY <1>2, FieldsAre DEF Frame
  <2> QED
    BY <1>2, <2>1, <2>2 DEF Sending, Frame
<1>5. CASE y.response = "WAIT_ACK"
  <2>1. Frame(y, e, {"response"}) /\ e.response = "END"
    BY <1>4, FieldsAre DEF Frame
  <2>2. AckWait(y, f) \in {CloseNow(e, f), e, y}
    BY DEF AckWait
  <2> HIDE DEF e
  <2>3. /\ \A g \in Placed : e[g] = y[g]
        /\ e.queued = y.queued /\ e.flight = y.flight /\ e.parse = y.parse
    BY <2>1, FieldsAre DEF Frame, Placed
  <2>4. Buffer(e) /\ DOMAIN e = Fields
    BY <1>4, <2>1, <2>3 DEF Buffer, Bounded, Counts, Frame
  <2>5. Room(e)
    BY <1>4, <1>5, <2>1, <2>3, <2>4, PlacedFits DEF Room
  <2>6. Room(CloseNow(e, f))
    BY <2>5, CloseFits
  <2> QED
    BY <1>3, <1>4, <1>5, <2>2, <2>5, <2>6 DEF Room
<1>6. CASE y.response # "WAIT_ACK" /\ y.kind = "basic"
  <2>1. y.response = "CONTENT"
    BY <1>4, <1>6 DEF Fitting
  <2> QED
    BY <1>3, <1>4, <1>6, <2>1, AckBasicFits DEF Room
<1>7. CASE y.response # "WAIT_ACK" /\ y.kind # "basic"
  <2>1. y.response \in {"HEADERS", "CONTENT"}
    BY <1>4, <1>7
  <2>2. Bounded(AckAbstract(y, f)) /\ Fitting(AckAbstract(y, f))
    BY <1>4, <1>7, <2>1, AckAbstractFits
  <2> QED
    BY <1>3, <1>7, <2>2 DEF Room
<1> QED
  BY <1>5, <1>6, <1>7

LEMMA SendResponseFits ==
  ASSUME NEW x, Room(x), x.parse # "HEAD", x.put = 0, x.sent = 0,
         NEW k \in Kinds, NEW h \in Heads, NEW n \in Sizes, NEW f
  PROVE  Room(SendResponse(x, k, h, n, f))
<1> DEFINE y == [x EXCEPT !.rxTimeout = FALSE]
           b == BasicResponse(y, h, n)
           p == [FileResponse(y, h, n) EXCEPT !.head = h]
           o == [CallbackResponse(y, h, n) EXCEPT !.head = h]
           Fresh == {"rxTimeout", "front", "size", "left", "response", "kind",
                     "length", "head"}
<1>1. /\ DOMAIN x = Fields /\ h \in Nat /\ n \in Nat
      /\ \A g \in Counts : x[g] \in Nat
      /\ x.queued + x.flight <= SndBuf
  BY RoomAndPatience DEF Room, Bounded
<1>2. /\ Frame(x, b, Fresh \ {"head"}) /\ b.kind = "basic" /\ b.length = n
      /\ b.front = h /\ b.size = n /\ b.left = n /\ b.response = "HEADERS"
  BY <1>1, FieldsAre DEF Frame, BasicResponse, Made
<1>3. /\ Frame(x, p, Fresh) /\ p.kind = "file" /\ p.length = n /\ p.head = h
      /\ p.front = h /\ p.size = n /\ p.left = n /\ p.response = "HEADERS"
  BY <1>1, FieldsAre DEF Frame, FileResponse, Made
<1>4. /\ Frame(x, o, Fresh) /\ o.kind = "open" /\ o.length = 0 /\ o.head = h
      /\ o.front = h /\ o.size = n /\ o.left = n /\ o.response = "HEADERS"
  BY <1>1, FieldsAre DEF Frame, CallbackResponse, Made
<1>5. ASSUME NEW r, Frame(x, r, Fresh), r.kind \in Kinds, r.length \in {0, n},
             r.head \in Nat, r.front = h, r.size = n, r.left = n,
             r.response = "HEADERS"
      PROVE  Bounded(r) /\ r.put = 0 /\ r.sent = 0 /\ r.parse # "HEAD"
  <2>1. /\ r.put = 0 /\ r.sent = 0 /\ r.parse = x.parse
        /\ r.queued = x.queued /\ r.flight = x.flight
    BY <1>5, FieldsAre DEF Frame
  <2>2. \A g \in Counts : r[g] \in Nat
    BY <1>1, <1>5, <2>1 DEF Counts
  <2> QED
    BY <1>1, <1>5, <2>1, <2>2 DEF Bounded, Total, Responses, Frame
<1>6. SendResponse(x, k, h, n, f) \in
        {RespondBasic(b, f), AckAbstract(p, f), AckAbstract(o, f)}
  BY DEF SendResponse, Kinds
<1> HIDE DEF b, p, o
<1>7. Room(RespondBasic(b, f))
  <2>1. Frame(x, b, Fresh)
    BY <1>2 DEF Frame
  <2>2. b.head \in Nat
    BY <1>1, <1>2, FieldsAre DEF Frame, Counts
  <2>3. Bounded(b) /\ b.put = 0 /\ b.sent = 0 /\ b.parse # "HEAD"
    BY <1>2, <1>5, <2>1, <2>2 DEF Kinds
  <2> QED
    BY <1>2, <2>3, RespondBasicFits DEF Room
<1>8. Room(AckAbstract(p, f))
  <2>1. Bounded(p) /\ p.put = 0 /\ p.sent = 0
    BY <1>1, <1>3, <1>5 DEF Kinds
  <2>2. Fitting(p)
    BY <1>1, <1>3, <2>1 DEF Fitting
  <2> QED
    BY <1>3, <2>1, <2>2, AckAbstractFits DEF Room
<1>9. Room(AckAbstract(o, f))
  <2>1. Bounded(o) /\ o.put = 0 /\ o.sent = 0
    BY <1>1, <1>4, <1>5 DEF Kinds
  <2>2. Fitting(o)
    BY <1>1, <1>4, <2>1 DEF Fitting
  <2> QED
    BY <1>4, <2>1, <2>2, AckAbstractFits DEF Room
<1> QED
  BY <1>6, <1>7, <1>8, <1>9

LEMMA ReturnFits ==
  ASSUME NEW x, Room(x)
  PROVE  /\ Room(Returned(x)) /\ Room(Touch(x)) /\ Room(TouchPcb(x))
         /\ \A e : Room(SetCloseError(x, e)) /\ SetCloseError(x, e).parse = x.parse
         /\ Room(Close(x)) /\ Room(Discard(x))
<1>1. DOMAIN x = Fields
  BY DEF Room, Bounded
<1>2. Room(Returned(x))
  <2>1. Frame(x, Returned(x), {"errored", "told"})
    BY <1>1, ReturnedDoes
  <2> QED
    BY <2>1, FrameFits DEF Room, Placed
<1>3. Room(Touch(x)) /\ Room(TouchPcb(x))
  <2>1. Frame(x, Touch(x), {"bad"}) /\ Frame(x, TouchPcb(x), {"bad"})
    BY <1>1, FieldsAre DEF Frame, Touch, TouchPcb
  <2> QED
    BY <2>1, FrameFits DEF Room, Placed
<1>4. ASSUME NEW e
      PROVE  Room(SetCloseError(x, e)) /\ SetCloseError(x, e).parse = x.parse
  <2>1. Frame(x, SetCloseError(x, e), {"closeError"})
    BY <1>1, SetCloseErrorDoes
  <2>2. SetCloseError(x, e).parse = x.parse
    BY <2>1, FieldsAre DEF Frame
  <2> QED
    BY <2>1, <2>2, FrameFits DEF Room, Placed
<1>5. Room(Close(x))
  <2>1. Frame(x, Close(x), {"closing"})
    BY <1>1, FieldsAre DEF Frame, Close
  <2> QED
    BY <2>1, FrameFits DEF Room, Placed
<1>6. Room(Discard(x))
  <2> DEFINE y == Discard(x)
             A == {"link", "bad"}
             B == {"alive", "request", "response", "bad"}
  <2>1. Frame(x, y, A) \/ (Frame(x, y, B) /\ y.response = "NONE")
    BY <1>1, DiscardDoes
  <2> HIDE DEF y
  <2>2. Frame(x, y, A) => Bounded(y) /\ Fitting(y)
    BY FrameFits DEF Room, Placed
  <2>3. Frame(x, y, B) /\ y.response = "NONE" => Bounded(y) /\ Fitting(y)
    BY FrameFits DEF Room, Placed
  <2> QED
    BY <2>1, <2>2, <2>3 DEF y, Room
<1> QED
  BY <1>2, <1>3, <1>4, <1>5, <1>6

LEMMA OnAckFits ==
  ASSUME NEW x, Room(x), NEW n, NEW f
  PROVE  Room(OnAck(x, n, f)) /\ Room(OnPoll(x, f))
<1> DEFINE y == [x EXCEPT !.response = "NONE"]
<1>1. DOMAIN x = Fields
  BY DEF Room, Bounded
<1>2. Frame(x, y, {"response"}) /\ y.response = "NONE"
  BY <1>1, FieldsAre DEF Frame
<1>3. /\ OnAck(x, n, f) = IF Sending(x) THEN Ack(x, n, f)
                          ELSE IF x.response = "END" THEN y ELSE Touch(x)
      /\ OnPoll(x, f) = IF Sending(x) /\ CanSend(x) THEN Ack(x, 0, f)
                        ELSE Touch(x)
  BY DEF OnAck, OnPoll
<1> HIDE DEF y
<1>4. Room(y)
  BY <1>2, FrameFits DEF Room, Placed
<1> QED
  BY <1>3, <1>4, AckFits, ReturnFits

(* The actions.                                                            *)
LEMMA RoomStart ==
  (Init => RoomInv) /\ (\A f : Accept(f) => RoomInv')
<1>1. Room(Nothing)
  BY RoomAndPatience, FieldsAre
  DEF Room, Bounded, Fitting, Nothing, Client, Counts, Kinds, Responses, Total
<1>2. Room(New)
  BY RoomAndPatience, FieldsAre
  DEF Room, Bounded, Fitting, New, Client, Counts, Kinds, Responses, Total
<1>3. ASSUME NEW f
      PROVE  Room(TurnedAway(f))
  BY RoomAndPatience, FieldsAre
  DEF Room, Bounded, Fitting, TurnedAway, TouchPcb, Nothing, Client, Counts,
      Kinds, Responses, Total
<1> QED
  BY <1>1, <1>2, <1>3 DEF Init, Accept, RoomInv

LEMMA RoomRecv ==
  ASSUME RoomInv,
         \/ RecvPart \/ RecvBad
         \/ \E k \in Kinds, h \in Heads, n \in Sizes, f \in Faults :
              RecvWhole(k, h, n, f)
  PROVE  RoomInv'
<1> DEFINE u == [c EXCEPT !.rxAge = 0, !.packets = @ + 1]
           r == Received
<1>1. Room(c) /\ DOMAIN c = Fields
  BY DEF RoomInv, Room, Bounded
<1>2. Frame(c, u, {"rxAge", "packets"}) /\ r = SetCloseError(u, "OK")
  BY <1>1, FieldsAre DEF Frame, Received
<1> HIDE DEF u, r
<1>3. Room(u) /\ u.parse = c.parse
  <2>1. Room(u)
    BY <1>1, <1>2, FrameFits DEF Room, Placed
  <2>2. u.parse = c.parse
    BY <1>2, FieldsAre DEF Frame
  <2> QED
    BY <2>1, <2>2
<1>4. Room(r) /\ r.parse = c.parse
  BY <1>2, <1>3, ReturnFits
<1>5. DOMAIN r = Fields
  BY <1>4 DEF Room, Bounded
<1>6. \A x : Room(x) /\ Recv(x) => RoomInv'
  BY ReturnFits DEF Recv, RoomInv
<1>7. CASE RecvPart
  BY <1>4, <1>6, <1>7 DEF RecvPart, r
<1>8. CASE RecvBad
  <2> DEFINE y == [r EXCEPT !.parse = "FAIL"]
  <2>1. Frame(r, y, {"parse"}) /\ y.parse = "FAIL"
    BY <1>5, FieldsAre DEF Frame
  <2>2. Recv(Close(y))
    BY <1>8 DEF RecvBad, r
  <2> HIDE DEF y
  <2>3. /\ \A g \in Placed : y[g] = r[g]
        /\ y.queued = r.queued /\ y.flight = r.flight
        /\ y.response = r.response
    BY <2>1, FieldsAre DEF Frame, Placed
  <2>4. Buffer(y) /\ DOMAIN y = Fields
    BY <1>4, <2>1, <2>3 DEF Buffer, Room, Bounded, Counts, Frame
  <2>5. Room(y)
    BY <1>4, <2>1, <2>3, <2>4, PlacedFits DEF Room
  <2> QED
    BY <1>6, <2>2, <2>5, ReturnFits
<1>9. ASSUME NEW k \in Kinds, NEW h \in Heads, NEW n \in Sizes,
             NEW f \in Faults, RecvWhole(k, h, n, f)
      PROVE  RoomInv'
  <2> DEFINE y == [r EXCEPT !.parse = "END"]
  <2>1. Frame(r, y, {"parse"}) /\ y.parse = "END"
    BY <1>5, FieldsAre DEF Frame
  <2>2. Recv(SendResponse(y, k, h, n, f)) /\ c.parse = "HEAD"
    BY <1>9 DEF RecvWhole, r
  <2> HIDE DEF y
  <2>3. /\ \A g \in Placed : y[g] = r[g]
        /\ y.queued = r.queued /\ y.flight = r.flight
        /\ y.response = r.response
    BY <2>1, FieldsAre DEF Frame, Placed
  <2>4. Buffer(y) /\ DOMAIN y = Fields
    BY <1>4, <2>1, <2>3 DEF Buffer, Room, Bounded, Counts, Frame
  <2>5. Room(y)
    BY <1>4, <2>1, <2>3, <2>4, PlacedFits DEF Room
  <2>6. y.put = 0 /\ y.sent = 0
    BY <1>4, <2>2, <2>3 DEF Placed, Room, Bounded
  <2>7. Room(SendResponse(y, k, h, n, f))
    BY <2>1, <2>5, <2>6, SendResponseFits
  <2> QED
    BY <1>6, <2>2, <2>7
<1> QED
  BY <1>7, <1>8, <1>9

LEMMA RoomSent ==
  ASSUME RoomInv, NEW n \in 1..SndBuf, NEW f, Sent(n, f)
  PROVE  RoomInv'
<1> DEFINE x == [c EXCEPT !.rxAge = 0, !.flight = @ - n, !.unacked = @ - n,
                          !.acked = @ + n]
           b == [x EXCEPT !.busy = FALSE]
           y == OnAck(SetCloseError(b, "OK"), x.acked, f)
           t == Touch(y)
           z == [t EXCEPT !.acked = 0]
<1>1. /\ Room(c) /\ DOMAIN c = Fields /\ n \in 1..c.flight
      /\ c.queued \in Nat /\ c.flight \in Nat /\ c.queued + c.flight <= SndBuf
  BY DEF RoomInv, Room, Bounded, Counts, Sent
<1>2. c' = Returned(IF x.unacked # 0 THEN x ELSE IF y.alive THEN z ELSE y)
  BY DEF Sent
<1>3. /\ Frame(c, x, {"rxAge", "flight", "unacked", "acked"})
      /\ x.flight = c.flight - n
  BY <1>1, FieldsAre DEF Frame
<1> HIDE DEF x
<1>4. Room(x)
  <2>1. /\ \A g \in Placed : x[g] = c[g]
        /\ x.queued = c.queued /\ x.parse = c.parse /\ x.response = c.response
    BY <1>3, FieldsAre DEF Frame, Placed
  <2>2. Buffer(x) /\ DOMAIN x = Fields
    BY <1>1, <1>3, <2>1, RoomAndPatience DEF Buffer, Frame
  <2> QED
    BY <1>1, <2>1, <2>2, PlacedFits DEF Room
<1>5. Frame(x, b, {"busy"})
  BY <1>3, FieldsAre DEF Frame
<1> HIDE DEF b
<1>6. Room(b)
  BY <1>4, <1>5, FrameFits DEF Room, Placed
<1>7. Room(y)
  BY <1>6, ReturnFits, OnAckFits
<1> HIDE DEF y
<1>8. Room(t)
  BY <1>7, ReturnFits
<1> HIDE DEF t
<1>9. Room(z)
  <2>1. Frame(t, z, {"acked"})
    BY <1>8, FieldsAre DEF Frame, Room, Bounded
  <2> QED
    BY <1>8, <2>1, FrameFits DEF Room, Placed
<1> HIDE DEF z
<1> QED
  BY <1>2, <1>4, <1>7, <1>9, ReturnFits DEF RoomInv

LEMMA RoomPoll ==
  ASSUME RoomInv, NEW f, Poll(f)
  PROVE  RoomInv'
<1> DEFINE x == Polled
           u == [c EXCEPT
                   !.sentAge = IF c.busy THEN Least(@ + 1, AckTimeout) ELSE @,
                   !.rxAge = IF c.rxTimeout THEN Least(@ + 1, RxTimeout) ELSE @]
           v == [x EXCEPT !.closing = FALSE]
           b == [x EXCEPT !.busy = FALSE]
<1>1. Room(c) /\ DOMAIN c = Fields
  BY DEF RoomInv, Room, Bounded
<1>2. c' = Returned(
             IF x.closing THEN CloseNow(v, f)
             ELSE IF x.busy /\ x.sentAge >= AckTimeout THEN OnTimeout(b)
             ELSE IF x.rxTimeout /\ x.rxAge >= RxTimeout THEN CloseNow(x, f)
             ELSE OnPoll(x, f))
  BY DEF Poll
<1>3. Frame(c, u, {"sentAge", "rxAge"}) /\ x = SetCloseError(u, "OK")
  BY <1>1, FieldsAre DEF Frame, Polled
<1> HIDE DEF u, x
<1>4. Room(x)
  BY <1>1, <1>3, FrameFits, ReturnFits DEF Room, Placed
<1>5. Frame(x, v, {"closing"}) /\ Frame(x, b, {"busy"})
  BY <1>4, FieldsAre DEF Frame, Room, Bounded
<1> HIDE DEF v, b
<1>6. Room(v) /\ Room(b)
  BY <1>4, <1>5, FrameFits DEF Room, Placed
<1>7. Room(OnTimeout(b))
  BY <1>6, ReturnFits DEF OnTimeout
<1> QED
  BY <1>2, <1>4, <1>6, <1>7, CloseFits, OnAckFits, ReturnFits DEF RoomInv

LEMMA RoomEnds ==
  ASSUME RoomInv,
         \/ Error \/ DnsUnknown
         \/ \E f \in Faults : RecvFin(f) \/ Disconnect(f)
  PROVE  RoomInv'
<1>1. Room(c) /\ DOMAIN c = Fields
  BY DEF RoomInv, Room, Bounded
<1>2. CASE Error
  <2> DEFINE e == SetCloseError(c, "ERR")
             x == [e EXCEPT !.errored = TRUE, !.lwip = "free"]
             y == [x EXCEPT !.pcb = FALSE]
  <2>1. c' = Discard(y)
    BY <1>2 DEF Error
  <2>2. Room(e) /\ DOMAIN e = Fields
    BY <1>1, ReturnFits DEF Room, Bounded
  <2> HIDE DEF e
  <2>3. Frame(e, x, {"errored", "lwip"})
    BY <2>2, FieldsAre DEF Frame
  <2> HIDE DEF x
  <2>4. Frame(x, y, {"pcb"})
    BY <2>3, FieldsAre DEF Frame
  <2> HIDE DEF y
  <2>5. Room(x)
    BY <2>2, <2>3, FrameFits DEF Room, Placed
  <2>6. Room(y)
    BY <2>4, <2>5, FrameFits DEF Room, Placed
  <2> QED
    BY <2>1, <2>6, ReturnFits DEF RoomInv
<1> QED
  BY <1>1, <1>2, CloseFits, ReturnFits
  DEF DnsUnknown, RecvFin, Disconnect, RoomInv

LEMMA RoomOutput ==
  ASSUME RoomInv, Output
  PROVE  RoomInv'
<1>1. /\ Room(c) /\ DOMAIN c = Fields
      /\ c.queued \in Nat /\ c.flight \in Nat /\ c.queued + c.flight <= SndBuf
  BY DEF RoomInv, Room, Bounded, Counts
<1> DEFINE y == [c EXCEPT !.flight = @ + c.queued, !.queued = 0]
<1>2. /\ Frame(c, y, {"flight", "queued"})
      /\ y.flight = c.flight + c.queued /\ y.queued = 0
  BY <1>1, FieldsAre DEF Frame
<1>3. c' = y
  BY DEF Output
<1> HIDE DEF y
<1>4. /\ \A g \in Placed : y[g] = c[g]
      /\ y.parse = c.parse /\ y.response = c.response
  BY <1>2, FieldsAre DEF Frame, Placed
<1>5. Buffer(y) /\ DOMAIN y = Fields
  BY <1>1, <1>2, RoomAndPatience DEF Buffer, Frame
<1> QED
  BY <1>1, <1>3, <1>4, <1>5, PlacedFits DEF Room, RoomInv

LEMMA ConnectToFits ==
  ASSUME NEW x, Room(x), NEW f
  PROVE  Room(ConnectTo(x, f))
<1> DEFINE a == [x EXCEPT !.ret = 0]
           b == [x EXCEPT !.ret = 0, !.failed = TRUE]
           d == [x EXCEPT !.ret = 1, !.lwip = "connecting", !.queued = 0,
                          !.flight = 0]
<1>1. DOMAIN x = Fields
  BY DEF Room, Bounded
<1>2. /\ Frame(x, a, {"ret"}) /\ Frame(x, b, {"ret", "failed"})
      /\ Frame(x, d, {"ret", "lwip", "queued", "flight"})
      /\ d.queued = 0 /\ d.flight = 0
  BY <1>1, FieldsAre DEF Frame
<1>3. ConnectTo(x, f) \in {a, b, d}
  BY DEF ConnectTo
<1> HIDE DEF a, b, d
<1>4. Room(a) /\ Room(b)
  BY <1>2, FrameFits DEF Room, Placed
<1>5. Room(d)
  <2>1. /\ \A g \in Placed : d[g] = x[g]
        /\ d.parse = x.parse /\ d.response = x.response
    BY <1>2, FieldsAre DEF Frame, Placed
  <2>2. Buffer(d) /\ DOMAIN d = Fields
    BY <1>2, RoomAndPatience DEF Buffer, Frame
  <2> QED
    BY <2>1, <2>2, PlacedFits DEF Room
<1> QED
  BY <1>3, <1>4, <1>5

LEMMA RoomConnect ==
  ASSUME RoomInv, NEW f, Connect(f) \/ DnsFound(f)
  PROVE  RoomInv'
<1>1. Room(c) /\ DOMAIN c = Fields
  BY DEF RoomInv, Room, Bounded
<1>2. CASE DnsFound(f)
  <2> DEFINE y == ConnectTo(c, f)
  <2>1. c' = [y EXCEPT !.link = "connecting"]
    BY <1>2 DEF DnsFound
  <2>2. Room(y) /\ DOMAIN y = Fields
    BY <1>1, ConnectToFits DEF Room, Bounded
  <2> HIDE DEF y
  <2>3. Frame(y, c', {"link"})
    BY <2>1, <2>2, FieldsAre DEF Frame
  <2> QED
    BY <2>2, <2>3, FrameFits DEF Room, Placed, RoomInv
<1>3. CASE Connect(f)
  <2> DEFINE d == [Client EXCEPT !.owner = "mqtt", !.pcb = FALSE, !.lwip = "free"]
             x == IF c.alive THEN c ELSE d
             u == [x EXCEPT !.connects = @ + 1, !.packets = 0]
             y == ConnectTo(u, f)
             v == [y EXCEPT !.link = IF y.ret = 1 THEN "connecting" ELSE "none"]
             w == [x EXCEPT !.connects = @ + 1, !.packets = 0, !.link = "dns"]
  <2>1. c' \in {v, w}
    BY <1>3 DEF Connect
  <2>2. Room(d)
    BY RoomAndPatience, FieldsAre
    DEF Room, Bounded, Fitting, Client, Counts, Kinds, Responses, Total
  <2> HIDE DEF d
  <2>3. Room(x) /\ DOMAIN x = Fields
    BY <1>1, <2>2 DEF Room, Bounded
  <2> HIDE DEF x
  <2>4. /\ Frame(x, u, {"connects", "packets"})
        /\ Frame(x, w, {"connects", "packets", "link"})
    BY <2>3, FieldsAre DEF Frame
  <2> HIDE DEF u, w
  <2>5. Room(u) /\ Room(w)
    BY <2>3, <2>4, FrameFits DEF Room, Placed
  <2>6. Room(y) /\ DOMAIN y = Fields
    BY <2>5, ConnectToFits DEF Room, Bounded
  <2> HIDE DEF y
  <2>7. Frame(y, v, {"link"})
    BY <2>6, FieldsAre DEF Frame
  <2> HIDE DEF v
  <2>8. Room(v)
    BY <2>6, <2>7, FrameFits DEF Room, Placed
  <2> QED
    BY <2>1, <2>5, <2>8 DEF RoomInv
<1> QED
  BY <1>2, <1>3

LEMMA RoomConnected ==
  ASSUME RoomInv, Connected
  PROVE  RoomInv'
<1> DEFINE y == [c EXCEPT !.lwip = "open", !.pcb = TRUE, !.busy = FALSE,
                          !.rxAge = 0, !.link = "up"]
<1>1. Room(c) /\ DOMAIN c = Fields /\ c' = Returned(y)
  BY DEF RoomInv, Room, Bounded, Connected
<1>2. Frame(c, y, {"lwip", "pcb", "busy", "rxAge", "link"})
  BY <1>1, FieldsAre DEF Frame
<1> HIDE DEF y
<1>3. Room(y)
  BY <1>1, <1>2, FrameFits DEF Room, Placed
<1> QED
  BY <1>1, <1>3, ReturnFits DEF RoomInv

LEMMA RoomPublish ==
  ASSUME RoomInv, NEW n \in 1..SndBuf, NEW f, Publish(n, f)
  PROVE  RoomInv'
<1> DEFINE u == [c EXCEPT !.put = 0, !.packets = @ + 1]
           w == Write(u, n, 0, f)
           y == [w EXCEPT !.put = 0]
<1>1. Room(c) /\ DOMAIN c = Fields /\ c' = y /\ n \in Nat
  BY RoomAndPatience DEF RoomInv, Room, Bounded, Publish
<1>2. Frame(c, u, {"put", "packets"}) /\ u.put = 0
  BY <1>1, FieldsAre DEF Frame
<1> HIDE DEF u
<1>3. DOMAIN u = Fields /\ Buffer(u)
  <2>1. u.queued = c.queued /\ u.flight = c.flight
    BY <1>2, FieldsAre DEF Frame
  <2> QED
    BY <1>1, <1>2, <2>1 DEF Frame, Room, Bounded, Counts, Buffer
<1>4. Frame(u, w, Writes) /\ Buffer(w)
  BY <1>1, <1>3, WriteFits, WriteDoes
<1> HIDE DEF w
<1>5. Frame(w, y, {"put"}) /\ y.put = 0
  BY <1>4, FieldsAre DEF Frame
<1> HIDE DEF y
<1>6. /\ y.kind = c.kind /\ y.front = c.front /\ y.size = c.size
      /\ y.length = c.length /\ y.left = c.left /\ y.head = c.head
      /\ y.sent = c.sent /\ y.parse = c.parse /\ y.response = c.response
      /\ y.queued = w.queued /\ y.flight = w.flight
  BY <1>2, <1>4, <1>5, FieldsAre DEF Frame, Writes, Sends
<1>7. Bounded(y)
  <2>1. Total(y) = Total(c) /\ Total(c) \in Nat
    BY <1>1, <1>6 DEF Total, Room, Bounded, Counts
  <2>2. \A g \in Counts : y[g] \in Nat
    BY <1>1, <1>4, <1>5, <1>6 DEF Room, Bounded, Counts, Buffer
  <2> QED
    BY <1>1, <1>4, <1>5, <1>6, <2>1, <2>2 DEF Room, Bounded, Buffer, Frame
<1>8. Fitting(y)
  BY <1>1, <1>6 DEF Room, Fitting, Total
<1> QED
  BY <1>1, <1>7, <1>8 DEF Room, RoomInv

LEMMA RoomStep ==
  ASSUME RoomInv, [Next]_vars
  PROVE  RoomInv'
<1>1. CASE Begin \/ End \/ UNCHANGED vars
  BY <1>1 DEF Begin, End, vars, RoomInv
<1>2. CASE Outgoing
  BY <1>2, RoomEnds, RoomConnect, RoomConnected, RoomPublish DEF Outgoing
<1>3. CASE \E f \in Faults :
             \/ \E k \in Kinds, h \in Heads, n \in Sizes : RecvWhole(k, h, n, f)
             \/ \E n \in 1..SndBuf : Sent(n, f)
             \/ Accept(f) \/ Poll(f) \/ RecvFin(f)
  BY <1>3, RoomStart, RoomRecv, RoomSent, RoomPoll, RoomEnds
<1> QED
  BY <1>1, <1>2, <1>3, RoomRecv, RoomEnds, RoomOutput DEF Next

(* For any buffer, any responses and any refusal of lwIP or of malloc, the *)
(* counters of a connection keep their type: the send buffer never holds   *)
(* more than its room (space(), add(), AsyncClient::write), and the pieces *)
(* of a response given in order to it are never more than the response     *)
(* (the _ack of the responses, whose unsigned lengths never pass zero).    *)
THEOREM ConnectionTyping == Spec => []TypeOK
<1> DEFINE Switches == listening \in BOOLEAN /\ polls \in {0, 1}
<1>1. Init => RoomInv /\ Switches
  BY RoomStart DEF Init
<1>2. RoomInv /\ Switches /\ [Next]_vars => RoomInv' /\ Switches'
  <2>1. RoomInv /\ [Next]_vars => RoomInv'
    BY RoomStep
  <2>2. ASSUME [Next]_vars
        PROVE  /\ listening' \in {listening, TRUE, FALSE}
               /\ polls' \in {polls, 1 - polls}
    <3>1. CASE Begin \/ End \/ UNCHANGED vars
      BY <3>1 DEF Begin, End, vars
    <3>2. CASE Error \/ Output \/ RecvPart \/ RecvBad
      BY <3>2 DEF Error, Output, RecvPart, RecvBad, Recv
    <3>3. CASE Outgoing
      BY <3>3
      DEF Outgoing, DnsUnknown, Connected, Connect, DnsFound, Disconnect,
          Publish
    <3>4. CASE \E f \in Faults :
                 \/ \E k \in Kinds, h \in Heads, n \in Sizes :
                      RecvWhole(k, h, n, f)
                 \/ \E n \in 1..SndBuf : Sent(n, f)
                 \/ Accept(f) \/ Poll(f) \/ RecvFin(f)
      BY <3>4 DEF RecvWhole, Recv, Sent, Accept, Poll, RecvFin
    <3> QED
      BY <2>2, <3>1, <3>2, <3>3, <3>4 DEF Next
  <2>3. ASSUME Switches, [Next]_vars
        PROVE  Switches'
    <3>1. listening' \in BOOLEAN
      BY <2>2, <2>3, Zenon
    <3>2. polls' \in {0, 1}
      <4>1. polls \in {0, 1} /\ polls' \in {polls, 1 - polls}
        BY <2>2, <2>3
      <4> QED
        BY <4>1
    <3> QED
      BY <3>1, <3>2
  <2> QED
    BY <2>1, <2>3
<1>3. RoomInv /\ Switches => TypeOK
  BY DEF RoomInv, Room, Bounded, Counts, Responses, TypeOK
<1> QED
  BY <1>1, <1>2, <1>3, PTL DEF Spec

----------------------------------------------------------------------------
(* The broker                                                              *)
(* The tuples UNCHANGED is stated with.                                    *)
USE DEF net, broker, device, settings, mqttVars

(* A transmission that holds only states.                                  *)
Quiet(parts) ==
  \A i \in 1..Len(parts) : parts[i].what \notin {"subscribe", "state", "config"}

(* It changes nothing else than the states, and may cut the link.          *)
LEMMA QuietPublish ==
  ASSUME NEW parts, Quiet(parts), PublishParts(parts)
  PROVE  UNCHANGED <<subscribed, configs, state>> /\ (link' => link)
  <1> PICK k \in 0..Len(parts) :
        /\ link' = (link /\ k = Len(parts))
        /\ IF link
           THEN /\ subscribed' = subscribed \cup Arrived(parts, k, "subscribe")
                /\ configs' = configs \cup Arrived(parts, k, "config")
                /\ state' = IF Arrived(parts, k, "state") = {} THEN state
                            ELSE "connected"
           ELSE UNCHANGED broker
    BY DEF PublishParts
  <1>1. ASSUME NEW what \in {"subscribe", "state", "config"}
        PROVE  Arrived(parts, k, what) = {}
    <2>1. \A i \in 1..k : i \in 1..Len(parts)
      OBVIOUS
    <2>2. {j \in 1..k : parts[j].what = what} = {}
      BY <2>1 DEF Quiet
    <2> QED BY <2>2 DEF Arrived
  <1> QED BY <1>1

(* mqttTransmit, and the states published after an order, are such.        *)
LEMMA QuietTransmission == Quiet(Transmission)
  BY DEF Quiet, Transmission, Part

LEMMA QuietShown == \A v : Quiet(<<Part("shown", {v})>>)
  BY DEF Quiet, Part

(* The greeting in order: no state before all the commands are subscribed, *)
(* and the state if it arrives whole.                                      *)
LEMMA GreetingOrder ==
  ASSUME NEW k \in 0..Len(Greeting)
  PROVE  /\ Arrived(Greeting, k, "state") = {}
              \/ Commands \subseteq Arrived(Greeting, k, "subscribe")
         /\ k = Len(Greeting) => Arrived(Greeting, k, "state") # {}
         /\ Arrived(Greeting, k, "config") \subseteq Announced
  <1>1. /\ Len(Greeting) \in 4..5
        /\ Greeting[1] = Part("subscribe", Commands)
        /\ Greeting[2] = Part("state", {"connected"})
        /\ \A i \in 3..Len(Greeting) :
             Greeting[i].what = "config" /\ Greeting[i].set \subseteq Announced
    BY DEF Greeting, Announced, Part
  <1> HIDE DEF Greeting
  <1>2. \A i \in 1..k : i = 1 \/ i = 2 \/ i \in 3..Len(Greeting)
    BY <1>1
  <1>3. Arrived(Greeting, k, "config") \subseteq Announced
    <2>1. \A j \in 1..k : Greeting[j].what = "config" => j \in 3..Len(Greeting)
      BY <1>1, <1>2 DEF Part
    <2> QED BY <1>1, <2>1 DEF Arrived
  <1>4. CASE k < 2
    <2>1. \A j \in 1..k : Greeting[j].what # "state"
      BY <1>1, <1>4 DEF Part
    <2>2. Arrived(Greeting, k, "state") = {}
      BY <2>1 DEF Arrived
    <2> QED BY <1>1, <1>3, <1>4, <2>2
  <1>5. CASE k >= 2
    <2>1. 1 \in 1..k /\ 2 \in 1..k
      BY <1>5
    <2>2. Commands \subseteq Arrived(Greeting, k, "subscribe")
      BY <1>1, <2>1 DEF Arrived, Part
    <2>3. "connected" \in Arrived(Greeting, k, "state")
      BY <1>1, <2>1 DEF Arrived, Part
    <2> QED BY <1>3, <2>2, <2>3
  <1> QED BY <1>4, <1>5

(* The invariant: a state "connected" comes with every command subscribed, *)
(* in the session that is the broker's.                                    *)
BrokerInv ==
  /\ link => session
  /\ state = "connected" => session /\ Commands \subseteq subscribed
  /\ configs \subseteq Announced
  /\ client = "connected" /\ link => state = "connected"

(* The steps that leave the session alone and send states at most.         *)
LEMMA StatesSent ==
  ASSUME BrokerInv, UNCHANGED <<client, session>>,
         NoPublish \/ \E parts : Quiet(parts) /\ PublishParts(parts)
  PROVE  BrokerInv'
  <1>1. UNCHANGED <<subscribed, configs, state>> /\ (link' => link)
    BY QuietPublish DEF NoPublish
  <1> QED BY <1>1 DEF BrokerInv

LEMMA ShownSent ==
  ASSUME NEW v, PublishShown(v)
  PROVE  NoPublish \/ \E parts : Quiet(parts) /\ PublishParts(parts)
  BY QuietShown DEF PublishShown, NoPublish

LEMMA BrokerStep == BrokerInv /\ [MqttNext]_mqttVars => BrokerInv'
  <1> SUFFICES ASSUME BrokerInv, [MqttNext]_mqttVars PROVE BrokerInv'
    OBVIOUS
  <1>1. CASE MqttConnect
    BY <1>1 DEF MqttConnect, BrokerInv
  <1>2. CASE BrokerAccepts
    BY <1>2 DEF BrokerAccepts, BrokerInv
  <1>3. CASE OnMqttConnect
    <2> PICK k \in 0..Len(Greeting) :
          /\ link' = (link /\ k = Len(Greeting))
          /\ IF link
             THEN /\ subscribed' = subscribed \cup Arrived(Greeting, k, "subscribe")
                  /\ configs' = configs \cup Arrived(Greeting, k, "config")
                  /\ state' = IF Arrived(Greeting, k, "state") = {} THEN state
                              ELSE "connected"
             ELSE UNCHANGED broker
      BY <1>3 DEF OnMqttConnect, PublishParts
    <2>1. link /\ session /\ session' = session
      BY <1>3 DEF OnMqttConnect, BrokerInv
    <2>2. configs' \subseteq Announced
      BY <2>1, GreetingOrder DEF BrokerInv
    <2>3. state' = "connected" => Commands \subseteq subscribed'
      BY <2>1, GreetingOrder DEF BrokerInv
    <2>4. link' => state' = "connected"
      BY <2>1, GreetingOrder
    <2> QED BY <2>1, <2>2, <2>3, <2>4 DEF BrokerInv
  <1>4. CASE LinkBreaks
    BY <1>4 DEF LinkBreaks, BrokerInv
  <1>5. CASE OnMqttDisconnect
    BY <1>5 DEF OnMqttDisconnect, BrokerInv
  <1>6. CASE SessionEnds
    BY <1>6 DEF SessionEnds, Will, BrokerInv
  <1>7. CASE BrokerRestarts
    BY <1>7 DEF BrokerRestarts, BrokerInv
  <1>8. CASE MqttTransmit
    BY <1>8, StatesSent, QuietTransmission DEF MqttTransmit
  <1>9. CASE BoostAtZero
    BY <1>9, StatesSent, ShownSent DEF BoostAtZero
  <1>10. CASE OnMqttMessage \/ PageOrders
    <2>1. UNCHANGED <<client, session>>
      BY <1>10 DEF OnMqttMessage, PageOrders
    <2>2. NoPublish \/ \E v : PublishShown(v)
      BY <1>10 DEF OnMqttMessage, PageOrders, RelayModeEcoPV, SSRModeEcoPV,
         BoostON, BoostOFF
    <2> QED BY <2>1, <2>2, StatesSent, ShownSent
  <1>11. CASE \/ Stats \/ SerialRequest \/ ConfigMaxPV \/ ModeChanges
              \/ \E v \in Values("boost") : BoostTime(v)
    BY <1>11, StatesSent
       DEF Stats, SerialRequest, ConfigMaxPV, ModeChanges, BoostTime
  <1>12. CASE RestartESP
    BY <1>12 DEF RestartESP, BrokerInv
  <1>13. CASE UNCHANGED mqttVars
    BY <1>13 DEF BrokerInv
  <1> QED
    BY <1>1, <1>2, <1>3, <1>4, <1>5, <1>6, <1>7, <1>8, <1>9, <1>10, <1>11,
       <1>12, <1>13 DEF MqttNext, Link

LEMMA BrokerHolds == MqttSpec => []BrokerInv
  <1>1. MqttInit => BrokerInv
    BY DEF MqttInit, BrokerInv
  <1> QED BY <1>1, BrokerStep, PTL DEF MqttSpec

(* The availability topic tells the truth, wherever the messages are cut.  *)
THEOREM AvailabilityIsTrue == MqttSpec => []Availability
  <1>1. BrokerInv => Availability
    BY DEF BrokerInv, Availability
  <1> QED BY <1>1, BrokerHolds, PTL

(* What Home Assistant shows as available it can command.                  *)
THEOREM AvailableIsCommandable == MqttSpec => []Commandable
  <1>1. \A e \in Announced : e.cmd_t = "none" \/ e.cmd_t \in Commands
    BY DEF Announced, DetailedSensors, Sensors, Controls, Sensor, Control, Commands
  <1>2. BrokerInv => Commandable
    BY <1>1 DEF BrokerInv, Commandable
  <1> QED BY <1>2, BrokerHolds, PTL

----------------------------------------------------------------------------
(* The types of MaxPV's session and of what the broker holds.             *)

(* What a transmission may carry.                                          *)
Displays == {"none", "stop", "force", "auto", "on", "off"} \cup Orders

Proper(parts) ==
  \A i \in 1..Len(parts) :
    /\ parts[i].what = "subscribe" => parts[i].set \subseteq Commands
    /\ parts[i].what = "config" => parts[i].set \subseteq Announced
    /\ parts[i].what = "shown" => parts[i].set \subseteq Displays

HeldTypeOK ==
  /\ subscribed \subseteq Commands /\ configs \subseteq Announced
  /\ state \in {"none", "connected", "disconnected"} /\ shown \in Displays

LEMMA ProperPublish ==
  ASSUME NEW parts, Proper(parts), PublishParts(parts), HeldTypeOK,
         link \in BOOLEAN
  PROVE  HeldTypeOK' /\ link' \in BOOLEAN
  <1> PICK k \in 0..Len(parts) :
        /\ link' = (link /\ k = Len(parts))
        /\ IF link
           THEN /\ subscribed' = subscribed \cup Arrived(parts, k, "subscribe")
                /\ configs' = configs \cup Arrived(parts, k, "config")
                /\ state' = IF Arrived(parts, k, "state") = {} THEN state
                            ELSE "connected"
                /\ shown' = IF Arrived(parts, k, "shown") = {} THEN shown
                            ELSE CHOOSE v \in Arrived(parts, k, "shown") : TRUE
           ELSE UNCHANGED broker
    BY DEF PublishParts
  <1>1. ASSUME NEW what, NEW S,
               \A i \in 1..Len(parts) :
                 parts[i].what = what => parts[i].set \subseteq S
        PROVE  Arrived(parts, k, what) \subseteq S
    <2>1. \A i \in 1..k : i \in 1..Len(parts)
      OBVIOUS
    <2> QED BY <1>1, <2>1 DEF Arrived
  <1>2. /\ Arrived(parts, k, "subscribe") \subseteq Commands
        /\ Arrived(parts, k, "config") \subseteq Announced
        /\ Arrived(parts, k, "shown") \subseteq Displays
    BY <1>1 DEF Proper
  <1>3. Arrived(parts, k, "shown") # {} =>
          (CHOOSE v \in Arrived(parts, k, "shown") : TRUE) \in Displays
    BY <1>2
  <1>4. HeldTypeOK'
    BY <1>2, <1>3 DEF HeldTypeOK
  <1>5. link' \in BOOLEAN
    OBVIOUS
  <1> QED BY <1>4, <1>5

LEMMA ProperGreeting == Proper(Greeting)
  <1>1. /\ Len(Greeting) \in 4..5
        /\ Greeting[1] = Part("subscribe", Commands)
        /\ Greeting[2] = Part("state", {"connected"})
        /\ \A i \in 3..Len(Greeting) :
             Greeting[i].what = "config" /\ Greeting[i].set \subseteq Announced
    BY DEF Greeting, Announced, Part
  <1>2. \A i \in 1..Len(Greeting) : i = 1 \/ i = 2 \/ i \in 3..Len(Greeting)
    BY <1>1
  <1> HIDE DEF Greeting
  <1> QED BY <1>1, <1>2 DEF Proper, Part

LEMMA NameShown == \A d, v : Name(d, v) \in Displays
  BY DEF Name, Displays

LEMMA ProperTransmission == Proper(Transmission)
  <1>1. Name(dev, Known) \in Displays
    BY NameShown
  <1> DEFINE n == Name(dev, Known)
  <1> HIDE DEF n
  <1>2. Transmission =
          (IF mqttDet THEN <<Part("fed", Detailed \cup {"STATUS_BYTE"})>> ELSE <<>>)
            \o <<Part("fed", (Measured \ MayBeSilent) \cup Range(StateTopic)),
                 Part("shown", {n})>>
    BY DEF Transmission, n
  <1> QED BY <1>1, <1>2 DEF Proper, Part, n

LEMMA ProperShown == \A v \in Displays : Proper(<<Part("shown", {v})>>)
  BY DEF Proper, Part

(* The device: what is on the line is for the Arduino.                     *)
DeviceTypeOK ==
  /\ dev \in Devices /\ mode \in Values(dev)
  /\ line \in Seq(Orders) /\ Len(line) <= MaxCmds
  /\ line # <<>> => dev \in Arduino
  /\ stats \in {""} \cup Values(dev)

LEMMA Capacity == MaxCmds \in Nat /\ MaxCmds > 0
  <1>1. MaxCmds \in Nat \ {0}
    BY MqttAssumption
  <1> QED BY <1>1

LEMMA LineIs ==
  ASSUME DeviceTypeOK
  PROVE  line \in Seq(Orders) /\ Len(line) <= MaxCmds /\ Len(line) \in Nat
  <1>1. line \in Seq(Orders) /\ Len(line) <= MaxCmds
    BY DEF DeviceTypeOK
  <1>2. Len(line) \in Nat
    BY <1>1, LenProperties
  <1> QED BY <1>1, <1>2

LEMMA OrderSent ==
  ASSUME NEW v \in Orders, DeviceTypeOK, dev \in Arduino, SendEcoPV(v),
         UNCHANGED <<dev, mode, stats>>
  PROVE  DeviceTypeOK'
  <1>1. line' = line \/ (Len(line) < MaxCmds /\ line' = Append(line, v))
    BY DEF SendEcoPV
  <1>2. line' \in Seq(Orders) /\ Len(line') <= MaxCmds
    <2>1. line \in Seq(Orders) /\ Len(line) <= MaxCmds /\ Len(line) \in Nat
      BY LineIs
    <2>2. /\ Append(line, v) \in Seq(Orders)
          /\ Len(Append(line, v)) = Len(line) + 1
      BY <2>1, AppendProperties
    <2> HIDE DEF Orders
    <2> QED BY <1>1, <2>1, <2>2, Capacity
  <1> QED BY <1>2 DEF DeviceTypeOK

LEMMA DeviceStep == DeviceTypeOK /\ [MqttNext]_mqttVars => DeviceTypeOK'
  <1> SUFFICES ASSUME DeviceTypeOK, [MqttNext]_mqttVars PROVE DeviceTypeOK'
    OBVIOUS
  <1>1. CASE UNCHANGED device
    BY <1>1 DEF DeviceTypeOK
  <1>2. CASE Stats
    BY <1>2 DEF Stats, NewStats, DeviceTypeOK
  <1>3. CASE ModeChanges
    BY <1>3 DEF ModeChanges, DeviceTypeOK
  <1>4. CASE \E v \in Values("boost") : BoostTime(v)
    BY <1>4 DEF BoostTime, DeviceTypeOK
  <1>5. CASE SerialRequest
    <2>1. /\ line' = Tail(line) /\ mode' = Head(line) /\ line # <<>>
          /\ UNCHANGED <<dev, stats>>
      BY <1>5 DEF SerialRequest
    <2>2. /\ Head(line) \in Orders /\ Tail(line) \in Seq(Orders)
          /\ Len(Tail(line)) <= MaxCmds
      <3>1. /\ line \in Seq(Orders) /\ Len(line) <= MaxCmds
            /\ Len(line) \in Nat
        BY LineIs
      <3>2. /\ Head(line) \in Orders /\ Tail(line) \in Seq(Orders)
            /\ Len(Tail(line)) = Len(line) - 1
        BY <2>1, <3>1, HeadTailProperties
      <3> QED BY <3>1, <3>2, Capacity
    <2>3. dev \in Arduino /\ Values(dev) = Orders
      BY <2>1 DEF DeviceTypeOK, Values, Orders, Arduino
    <2> QED BY <2>1, <2>2, <2>3 DEF DeviceTypeOK
  <1>6. CASE RestartESP
    BY <1>6 DEF RestartESP, DeviceTypeOK, Values, Devices, Arduino
  <1>7. CASE OnMqttMessage \/ PageOrders
    <2>1. UNCHANGED <<dev, stats>>
      BY <1>7 DEF OnMqttMessage, PageOrders
    <2>2. \/ \E v \in Orders : /\ dev \in Arduino /\ SendEcoPV(v)
                               /\ UNCHANGED mode
          \/ /\ UNCHANGED line
             /\ \/ mode' = mode
                \/ dev = "dimmer" /\ mode' \in Orders
                \/ dev = "boost" /\ mode' \in {"0", "n", "-1"}
      BY <1>7 DEF OnMqttMessage, PageOrders, RelayModeEcoPV, SSRModeEcoPV,
         DimmerMode, BoostON, BoostOFF, Arduino
    <2>3. CASE \E v \in Orders : /\ dev \in Arduino /\ SendEcoPV(v)
                                 /\ UNCHANGED mode
      BY <2>1, <2>3, OrderSent
    <2>4. CASE /\ UNCHANGED line
               /\ \/ mode' = mode
                  \/ dev = "dimmer" /\ mode' \in Orders
                  \/ dev = "boost" /\ mode' \in {"0", "n", "-1"}
      BY <2>1, <2>4 DEF DeviceTypeOK, Values, Orders
    <2> QED BY <2>2, <2>3, <2>4
  <1> QED
    BY <1>1, <1>2, <1>3, <1>4, <1>5, <1>6, <1>7
    DEF MqttNext, Link, MqttConnect, BrokerAccepts, OnMqttConnect, LinkBreaks,
        OnMqttDisconnect, SessionEnds, BrokerRestarts, MqttTransmit,
        BoostAtZero, ConfigMaxPV

(* The session.                                                            *)
SessionTypeOK ==
  /\ mqttActive \in BOOLEAN /\ mqttDet \in BOOLEAN
  /\ client \in {"idle", "connecting", "accepted", "connected"}
  /\ session \in BOOLEAN /\ link \in BOOLEAN

LEMMA TypedSent ==
  ASSUME SessionTypeOK, HeldTypeOK, UNCHANGED <<settings, session>>,
         client' \in {client, "connected"},
         NoPublish \/ \E parts : Proper(parts) /\ PublishParts(parts)
  PROVE  SessionTypeOK' /\ HeldTypeOK'
  <1>1. HeldTypeOK' /\ link' \in BOOLEAN
    BY ProperPublish DEF NoPublish, HeldTypeOK, SessionTypeOK
  <1> QED BY <1>1 DEF SessionTypeOK

LEMMA SessionStep ==
  SessionTypeOK /\ HeldTypeOK /\ [MqttNext]_mqttVars
    => SessionTypeOK' /\ HeldTypeOK'
  <1> SUFFICES ASSUME SessionTypeOK, HeldTypeOK, [MqttNext]_mqttVars
               PROVE  SessionTypeOK' /\ HeldTypeOK'
    OBVIOUS
  <1>1. CASE MqttConnect \/ LinkBreaks \/ OnMqttDisconnect \/ RestartESP
    BY <1>1 DEF MqttConnect, LinkBreaks, OnMqttDisconnect, RestartESP,
       SessionTypeOK, HeldTypeOK
  <1>2. CASE BrokerAccepts
    BY <1>2 DEF BrokerAccepts, SessionTypeOK, HeldTypeOK
  <1>3. CASE SessionEnds
    BY <1>3 DEF SessionEnds, Will, SessionTypeOK, HeldTypeOK
  <1>4. CASE BrokerRestarts
    BY <1>4 DEF BrokerRestarts, SessionTypeOK, HeldTypeOK, Displays
  <1>5. CASE OnMqttConnect
    BY <1>5, TypedSent, ProperGreeting DEF OnMqttConnect
  <1>6. CASE MqttTransmit
    BY <1>6, TypedSent, ProperTransmission DEF MqttTransmit
  <1>7. CASE ConfigMaxPV
    BY <1>7 DEF ConfigMaxPV, NoPublish, SessionTypeOK, HeldTypeOK
  <1>8. CASE Stats \/ SerialRequest \/ ModeChanges
             \/ \E v \in Values("boost") : BoostTime(v)
    BY <1>8, TypedSent DEF Stats, SerialRequest, ModeChanges, BoostTime
  <1>9. ASSUME NEW v \in Displays, PublishShown(v)
        PROVE  NoPublish \/ \E parts : Proper(parts) /\ PublishParts(parts)
    BY <1>9, ProperShown DEF PublishShown, NoPublish
  <1>10. CASE BoostAtZero
    BY <1>9, <1>10, TypedSent DEF BoostAtZero, Displays
  <1>11. CASE OnMqttMessage \/ PageOrders
    <2>1. UNCHANGED <<settings, client, session>>
      BY <1>11 DEF OnMqttMessage, PageOrders
    <2>2. NoPublish \/ \E v \in Displays : PublishShown(v)
      <3>1. Orders \subseteq Displays /\ "on" \in Displays /\ "off" \in Displays
        BY DEF Displays
      <3> QED
        BY <1>11, <3>1, NameShown
        DEF OnMqttMessage, PageOrders, RelayModeEcoPV, SSRModeEcoPV,
            BoostON, BoostOFF
    <2> QED BY <1>9, <2>1, <2>2, TypedSent
  <1>12. CASE UNCHANGED mqttVars
    BY <1>12 DEF SessionTypeOK, HeldTypeOK
  <1> QED
    BY <1>1, <1>2, <1>3, <1>4, <1>5, <1>6, <1>7, <1>8, <1>10, <1>11, <1>12
       DEF MqttNext, Link

(* Every variable keeps its type; a command is on the line for the Arduino *)
(* only, and no more of them than its buffer holds.                        *)
THEOREM MqttTyping == MqttSpec => []MqttTypeOK
  <1>1. MqttInit => DeviceTypeOK /\ SessionTypeOK /\ HeldTypeOK
    <2>1. <<>> \in Seq(Orders) /\ Len(<<>>) = 0 /\ 0 <= MaxCmds
      BY Capacity, EmptySeq
    <2>2. MqttInit => DeviceTypeOK
      BY <2>1 DEF MqttInit, DeviceTypeOK
    <2>3. MqttInit => SessionTypeOK /\ HeldTypeOK
      BY DEF MqttInit, SessionTypeOK, HeldTypeOK, Displays
    <2> QED BY <2>2, <2>3
  <1>2. DeviceTypeOK /\ SessionTypeOK /\ HeldTypeOK => MqttTypeOK
    <2> SUFFICES ASSUME DeviceTypeOK, SessionTypeOK, HeldTypeOK
                 PROVE  MqttTypeOK
      OBVIOUS
    <2>1. line \in BoundedSeq(Orders, MaxCmds)
      <3>1. line \in [1..Len(line) -> Orders] /\ Len(line) \in 0..MaxCmds
        <4>1. /\ line \in Seq(Orders) /\ Len(line) <= MaxCmds
              /\ Len(line) \in Nat
          BY LineIs
        <4> QED BY <4>1, Capacity, LenProperties
      <3> QED BY <3>1 DEF BoundedSeq, SeqOf
    <2> QED
      BY <2>1 DEF DeviceTypeOK, SessionTypeOK, HeldTypeOK, Displays, MqttTypeOK
  <1> QED BY <1>1, <1>2, DeviceStep, SessionStep, PTL DEF MqttSpec

=============================================================================
