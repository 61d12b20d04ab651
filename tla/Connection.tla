----------------------------- MODULE Connection -----------------------------
(***************************************************************************)
(* One connection of the web server of MaxPV, from its acceptance to the   *)
(* deletion of its objects: AsyncServer and AsyncClient (ESPAsyncTCP.cpp), *)
(* the AsyncWebServerRequest that owns the client (WebRequest.cpp), and    *)
(* the response it sends piece by piece as the peer acknowledges           *)
(* (WebResponses.cpp).  Everything runs in the callbacks of lwIP, one at a *)
(* time; a callback may delete the objects it runs in.                     *)
(*                                                                         *)
(* The connection is a record; a function of the library is an operator    *)
(* from a record to a record.  lwIP and the peer are external.  The parser *)
(* of the request is module Request.  TLS is not compiled.  The connection *)
(* may also be the one to the MQTT broker, whose AsyncClient connects,     *)
(* lives on and connects again: its owner, AsyncMqttClient, is external.   *)
(***************************************************************************)
EXTENDS Integers

CONSTANTS
  Heads,         \* lengths of a response's head
  Sizes,         \* lengths of a response's content
  SndBuf,        \* room of lwIP's send buffer
  AckTimeout,    \* polls to _ack_timeout
  RxTimeout,     \* polls to the 3 seconds of setRxTimeout
  Packets,       \* bound: packets of a request, or to and from the broker
  Connects       \* bound: connections to the broker

ASSUME ConnectionAssumption ==
  /\ {SndBuf, AckTimeout, RxTimeout} \cup Heads \subseteq Nat \ {0}
  /\ Sizes \subseteq Nat /\ {Packets, Connects} \subseteq Nat

VARIABLES
  listening,     \* AsyncServer::_pcb
  c,             \* the connection
  polls          \* history: changes with each poll

vars == <<listening, c, polls>>

(* Responses: a text, a file or a stream, a callback without a length.     *)
Kinds == {"basic", "file", "open"}

(* A new AsyncClient.                                                      *)
Client ==
  [alive |-> TRUE, request |-> FALSE,           \* the objects exist
   owner |-> "server",                          \* or "mqtt"
   link |-> "none",                             \* what "mqtt" is told
   connects |-> 0,
   pcb |-> TRUE,                                \* _pcb, and its callbacks
   busy |-> FALSE, closing |-> FALSE,           \* _pcb_busy, _close_pcb
   unacked |-> 0, unsent |-> 0, acked |-> 0,    \* _tx_..._len
   sentAge |-> 0, rxAge |-> 0,                  \* polls since _pcb_sent_at...
   rxTimeout |-> FALSE,
   errored |-> FALSE, closeError |-> "OK",      \* ACErrorTracker
   parse |-> "HEAD",                            \* or "END", "FAIL"
   response |-> "NONE",                         \* or its _state
   kind |-> "basic", front |-> 0, size |-> 0,   \* what it is made of
   length |-> 0, sent |-> 0,                    \* _contentLength, _sentLength
   head |-> 0, left |-> 0,                      \* of _head; of the content
   written |-> 0, ackedLength |-> 0, ret |-> 0, \* ret: result of write
   lwip |-> "open", queued |-> 0, flight |-> 0, \* the pcb in lwIP
   put |-> 0, gap |-> FALSE,      \* history: in order so far; a hole
   failed |-> FALSE,              \* history: lwIP or malloc has refused
   aborts |-> 0, told |-> 0,      \* history: tcp_abort; ERR_ABRT returned
   refused |-> FALSE,             \* history: no memory for its client
   bad |-> FALSE,                 \* history: an object used after its end
   packets |-> 0]

(* The server makes the request that owns it, and gives it 3 seconds.      *)
New == [Client EXCEPT !.request = TRUE, !.rxTimeout = TRUE]

Nothing == [Client EXCEPT !.alive = FALSE, !.pcb = FALSE, !.lwip = "free"]

Init == listening = FALSE /\ c = Nothing /\ polls = 0

----------------------------------------------------------------------------
(* AsyncClient.                                                            *)

Touch(x)    == [x EXCEPT !.bad = @ \/ ~x.alive]
TouchPcb(x) == [x EXCEPT !.bad = @ \/ x.lwip # "open"]

SetCloseError(x, e) == IF x.errored THEN x ELSE [x EXCEPT !.closeError = e]

(* The value the callback gives to lwIP; ERR_ABRT is said once.            *)
Returned(x) ==
  IF ~x.errored /\ x.closeError = "ABRT"
  THEN [x EXCEPT !.errored = TRUE, !.told = @ + 1] ELSE x

(* _discard_cb: the MQTT client is told; _onDisconnect of a request        *)
(* deletes it, with its response, and then the client.                     *)
Discard(x) ==
  IF x.owner = "mqtt"
  THEN [x EXCEPT !.link = "none", !.bad = @ \/ x.link = "none"]
  ELSE [x EXCEPT !.alive = FALSE, !.request = FALSE, !.response = "NONE",
                 !.bad = @ \/ ~x.alive \/ ~x.request]

Abort(x) ==
  SetCloseError([x EXCEPT !.lwip = "free", !.pcb = FALSE, !.aborts = @ + 1],
                "ABRT")

(* _close: lwIP may refuse tcp_close for want of memory.                   *)
CloseNow(x, f) ==
  IF ~x.pcb THEN x
  ELSE LET y == IF f = "close" THEN Abort(x)
                ELSE SetCloseError([x EXCEPT !.lwip = "closed"], "OK")
       IN Discard([y EXCEPT !.pcb = FALSE])

(* close(): at the next poll.                                              *)
Close(x) == [x EXCEPT !.closing = TRUE]

Space(x) == IF x.pcb THEN SndBuf - x.queued - x.flight ELSE 0

CanSend(x) == ~x.busy /\ Space(x) > 0

SendMutant(x, f) ==   \* the bytes are counted at each output
  IF f = "output" THEN [x EXCEPT !.unsent = 0, !.failed = TRUE]
  ELSE [x EXCEPT !.busy = TRUE, !.sentAge = 0, !.unacked = @ + x.unsent,
                 !.flight = @ + x.queued, !.queued = 0]

(* send: if tcp_output fails, lwIP keeps the bytes for later.              *)
Send(x, f) ==
  IF f = "output" THEN [x EXCEPT !.unsent = 0, !.failed = TRUE]
  ELSE [x EXCEPT !.busy = TRUE, !.sentAge = 0, !.unacked = @ + x.unsent,
                 !.unsent = 0, !.flight = @ + x.queued, !.queued = 0]

(* write(): n bytes of the response, the first at the place from.          *)
Least(a, b) == IF a < b THEN a ELSE b

Write(x, n, from, f) ==
  LET k == Least(n, Space(x))
      y == [x EXCEPT !.queued = @ + k, !.unsent = @ + k,
                     !.put = IF from = @ THEN @ + k ELSE @,
                     !.gap = @ \/ from # x.put]
  IN IF k = 0 THEN [x EXCEPT !.ret = 0]
     ELSE IF f = "write" THEN [x EXCEPT !.ret = 0, !.failed = TRUE]
     ELSE [Send(y, f) EXCEPT !.ret = IF f = "output" THEN 0 ELSE k]

(* _writtenLength += write(...)                                            *)
WriteOut(x, n, from, f) ==
  LET y == Write(x, n, from, f) IN [y EXCEPT !.written = @ + y.ret]

----------------------------------------------------------------------------
(* Responses.                                                              *)
Total(x) == x.front + x.size

(* AsyncBasicResponse::_respond: at once if it fits.                       *)
RespondBasic(x, f) ==
  LET s == Space(x)
      z == [x EXCEPT !.response = "CONTENT"]
      Rest(n) == [z EXCEPT !.left = Total(x) - n, !.length = @ + x.front - n]
  IN IF s >= Total(x)
     THEN WriteOut([x EXCEPT !.response = "WAIT_ACK"], Total(x), 0, f)
     ELSE IF s > 0 /\ s < x.front THEN WriteOut(Rest(s), s, 0, f)
     ELSE IF s > x.front
     THEN WriteOut([z EXCEPT !.sent = s - x.front, !.left = Total(x) - s], s, 0, f)
     ELSE Rest(0)

AckBasicMutant(x, f) ==   \* the piece is sent again
  LET s == Space(x)
      from == Total(x) - x.left
  IN IF s > x.length - x.sent
     THEN WriteOut([x EXCEPT !.response = "WAIT_ACK"], x.length - x.sent, from, f)
     ELSE WriteOut([x EXCEPT !.sent = @ + s], s, from, f)

(* AsyncBasicResponse::_ack, in RESPONSE_CONTENT.                          *)
AckBasic(x, f) ==
  LET s == Space(x)
      from == Total(x) - x.left
  IN IF s > x.length - x.sent
     THEN WriteOut([x EXCEPT !.left = 0, !.response = "WAIT_ACK"],
                   x.length - x.sent, from, f)
     ELSE WriteOut([x EXCEPT !.left = @ - Least(s, @), !.sent = @ + s], s, from, f)

(* AsyncAbstractResponse::_ack, while its head does not fit.               *)
AckHead(x, f) ==
  LET s == Space(x)
  IN WriteOut([x EXCEPT !.head = @ - s], s, x.front - x.head, f)

(* _fillBuffer: at most n bytes of the content.                            *)
FillBuffer(x, n) == Least(n, x.left)

(* The same, with content: the room left by the head, when it comes from   *)
(* RESPONSE_HEADERS.  Without memory for the buffer it returns there.      *)
AckContent(x, f) ==
  LET s   == IF x.response = "HEADERS" THEN Space(x) - x.head ELSE Space(x)
      out == IF x.kind = "file" THEN Least(x.length - x.sent, s) ELSE s
      n   == FillBuffer(x, out)
      y   == [x EXCEPT !.response = "CONTENT"]
      z   == [WriteOut([y EXCEPT !.left = @ - n, !.head = 0], x.head + n,
                       Total(x) - x.left - x.head, f) EXCEPT !.sent = @ + n]
      end == z.sent = z.length \/ (x.kind = "open" /\ x.head + n = 0)
  IN IF f = "malloc" THEN [y EXCEPT !.failed = TRUE]
     ELSE IF end THEN [z EXCEPT !.response = "WAIT_ACK"] ELSE z

AckAbstract(x, f) ==
  IF x.response = "HEADERS" /\ Space(x) < x.head THEN AckHead(x, f)
  ELSE AckContent(x, f)

(* RESPONSE_WAIT_ACK; without a length it is the end of the connection     *)
(* that ends the content.                                                  *)
AckWait(x, f) ==
  IF x.kind = "open" THEN CloseNow([x EXCEPT !.response = "END"], f)
  ELSE IF x.ackedLength >= x.written THEN [x EXCEPT !.response = "END"]
  ELSE x

Ack(x, n, f) ==
  LET y == [x EXCEPT !.ackedLength = @ + n]
  IN IF y.response = "WAIT_ACK" THEN AckWait(y, f)
     ELSE IF y.kind = "basic" THEN AckBasic(y, f) ELSE AckAbstract(y, f)

(* The responses that a handler makes, with a head of h bytes and a        *)
(* content of n: a text; a file, or what was printed on a stream before it *)
(* was sent; the answer of a callback, whose length is not known.          *)
Made(x, h, n) ==
  [x EXCEPT !.front = h, !.size = n, !.left = n, !.response = "HEADERS"]

BasicResponse(x, h, n)    == [Made(x, h, n) EXCEPT !.kind = "basic", !.length = n]
FileResponse(x, h, n)     == [Made(x, h, n) EXCEPT !.kind = "file", !.length = n]
CallbackResponse(x, h, n) == [Made(x, h, n) EXCEPT !.kind = "open", !.length = 0]

(* send(response): no timeout on reception any more.                       *)
SendResponse(x, k, h, n, f) ==
  LET y == [x EXCEPT !.rxTimeout = FALSE]
      Head(z) == [z EXCEPT !.head = h]
  IN CASE k = "basic" -> RespondBasic(BasicResponse(y, h, n), f)
       [] k = "file"  -> AckAbstract(Head(FileResponse(y, h, n)), f)
       [] k = "open"  -> AckAbstract(Head(CallbackResponse(y, h, n)), f)

----------------------------------------------------------------------------
(* The request, called back by the client.                                 *)
Sending(x) == x.response \in {"HEADERS", "CONTENT", "WAIT_ACK"}

(* _onAck: the acknowledgement after the end deletes the response.         *)
OnAck(x, n, f) ==
  IF Sending(x) THEN Ack(x, n, f)
  ELSE IF x.response = "END" THEN [x EXCEPT !.response = "NONE"] ELSE Touch(x)

OnPoll(x, f) ==
  IF Sending(x) /\ CanSend(x) THEN Ack(x, 0, f) ELSE Touch(x)

OnTimeoutMutant(x) == x   \* the connection is not closed
OnTimeout(x) == IF x.owner = "server" THEN Close(x) ELSE x

----------------------------------------------------------------------------
(* The callbacks of lwIP.                                                  *)
Faults == {"none", "write", "output", "malloc", "close"}

Begin == ~listening /\ listening' = TRUE /\ UNCHANGED <<c, polls>>

End == listening /\ listening' = FALSE /\ UNCHANGED <<c, polls>>

(* No memory for the client: the pcb is closed, or aborted if lwIP refuses *)
(* that; the code that follows is the one for a server without a handler   *)
(* of connections: it closes the pcb that has just been given up.          *)
TurnedAway(f) ==
  LET x == [Nothing EXCEPT !.lwip = "closed", !.refused = TRUE]
  IN IF f = "close" THEN [x EXCEPT !.lwip = "free", !.aborts = 1, !.told = 1]
     ELSE TouchPcb(x)

(* _accept, and the request the server makes for it.                       *)
Accept(f) ==
  /\ listening /\ ~c.alive /\ c' \in {New, TurnedAway(f)}
  /\ UNCHANGED <<listening, polls>>

(* _recv: a packet.  _onData finds the request incomplete, or has parsed   *)
(* it before; refuses it; or it is whole and its handler sends a response. *)
Received == SetCloseError([c EXCEPT !.rxAge = 0, !.packets = @ + 1], "OK")

Recv(y) ==
  /\ c.alive /\ c.lwip = "open" /\ c.packets < Packets
  /\ c' = Returned(IF y.alive THEN TouchPcb(y) ELSE y)
  /\ UNCHANGED <<listening, polls>>

RecvPart == Recv(Received)

RecvBad ==
  c.request /\ c.parse = "HEAD" /\ Recv(Close([Received EXCEPT !.parse = "FAIL"]))

RecvWhole(k, h, n, f) ==
  /\ c.request /\ c.parse = "HEAD"
  /\ Recv(SendResponse([Received EXCEPT !.parse = "END"], k, h, n, f))

RecvFin(f) ==
  /\ c.alive /\ c.lwip = "open"
  /\ c' = Returned(CloseNow(c, f))
  /\ UNCHANGED <<listening, polls>>

(* _sent: the peer has acknowledged n bytes; the owner is told when        *)
(* nothing is waited for, and may delete the client.                       *)
Sent(n, f) ==
  LET x == [c EXCEPT !.rxAge = 0, !.flight = @ - n, !.unacked = @ - n, !.acked = @ + n]
      y == OnAck(SetCloseError([x EXCEPT !.busy = FALSE], "OK"), x.acked, f)
  IN /\ c.alive /\ c.lwip = "open" /\ n \in 1..c.flight
     /\ c' = Returned(IF x.unacked # 0 THEN x
                      ELSE IF y.alive THEN [Touch(y) EXCEPT !.acked = 0]
                      ELSE y)
     /\ UNCHANGED <<listening, polls>>

(* Half a second later; what is not waited for has no age.                 *)
Polled ==
  SetCloseError(
    [c EXCEPT !.sentAge = IF c.busy THEN Least(@ + 1, AckTimeout) ELSE @,
              !.rxAge   = IF c.rxTimeout THEN Least(@ + 1, RxTimeout) ELSE @], "OK")

PollMutant(f) ==   \* without the return after _close
  LET x == Polled
  IN /\ c.alive /\ c.lwip = "open"
     /\ c' = Returned(
          IF x.closing THEN OnPoll(CloseNow([x EXCEPT !.closing = FALSE], f), f)
          ELSE OnPoll(x, f))
     /\ polls' = 1 - polls /\ UNCHANGED listening
(* _poll, twice a second.                                                  *)
Poll(f) ==
  LET x == Polled
  IN /\ c.alive /\ c.lwip = "open"
     /\ c' = Returned(
          IF x.closing THEN CloseNow([x EXCEPT !.closing = FALSE], f)
          ELSE IF x.busy /\ x.sentAge >= AckTimeout
          THEN OnTimeout([x EXCEPT !.busy = FALSE])
          ELSE IF x.rxTimeout /\ x.rxAge >= RxTimeout THEN CloseNow(x, f)
          ELSE OnPoll(x, f))
     /\ polls' = 1 - polls /\ UNCHANGED listening

(* _s_error: lwIP has freed the pcb.                                       *)
Error ==
  /\ c.alive /\ c.lwip \in {"open", "connecting"}
  /\ LET x == [SetCloseError(c, "ERR") EXCEPT !.errored = TRUE, !.lwip = "free"]
     IN c' = Discard([x EXCEPT !.pcb = FALSE])
  /\ UNCHANGED <<listening, polls>>

----------------------------------------------------------------------------
(* The connection to the broker.                                           *)

(* connect() to an address.  A pcb that lwIP refuses to connect is lost.   *)
ConnectTo(x, f) ==
  IF x.pcb THEN [x EXCEPT !.ret = 0]
  ELSE IF f \in {"malloc", "output"} THEN [x EXCEPT !.ret = 0, !.failed = TRUE]
  ELSE [x EXCEPT !.ret = 1, !.lwip = "connecting", !.queued = 0, !.flight = 0]

(* connect() to an address or a name: AsyncMqttClient calls it when it has *)
(* been told that it is not connected.                                     *)
Connect(f) ==
  LET x == IF c.alive THEN c
           ELSE [Client EXCEPT !.owner = "mqtt", !.pcb = FALSE, !.lwip = "free"]
      y == ConnectTo([x EXCEPT !.connects = @ + 1, !.packets = 0], f)
  IN /\ c.alive => c.owner = "mqtt" /\ c.link = "none"
     /\ x.connects < Connects
     /\ \/ c' = [y EXCEPT !.link = IF y.ret = 1 THEN "connecting" ELSE "none"]
        \/ c' = [x EXCEPT !.connects = @ + 1, !.packets = 0, !.link = "dns"]
     /\ UNCHANGED <<listening, polls>>

(* _dns_found: connect() again, whose answer is not looked at.             *)
DnsFound(f) ==
  /\ c.link = "dns"
  /\ c' = [ConnectTo(c, f) EXCEPT !.link = "connecting"]
  /\ UNCHANGED <<listening, polls>>

DnsUnknown ==
  /\ c.link = "dns" /\ c' = Discard(c)
  /\ UNCHANGED <<listening, polls>>

(* _connected: the counters and the error of the connection before stay.   *)
Connected ==
  /\ c.lwip = "connecting"
  /\ c' = Returned([c EXCEPT !.lwip = "open", !.pcb = TRUE, !.busy = FALSE,
                             !.rxAge = 0, !.link = "up"])
  /\ UNCHANGED <<listening, polls>>

(* AsyncMqttClient writes, or closes.                                      *)
Publish(n, f) ==
  /\ c.link = "up" /\ CanSend(c) /\ c.packets < Packets
  /\ c' = [Write([c EXCEPT !.put = 0, !.packets = @ + 1], n, 0, f)
             EXCEPT !.put = 0]
  /\ UNCHANGED <<listening, polls>>

Disconnect(f) ==
  /\ c.link = "up" /\ c' = CloseNow(c, f)
  /\ UNCHANGED <<listening, polls>>

Outgoing ==
  \/ DnsUnknown \/ Connected
  \/ \E f \in Faults :
       \/ Connect(f) \/ DnsFound(f) \/ Disconnect(f)
       \/ \E n \in 1..SndBuf : Publish(n, f)

----------------------------------------------------------------------------
(* lwIP sends by itself what an output had left.                           *)
Output ==
  /\ c.alive /\ c.lwip = "open" /\ c.queued > 0
  /\ c' = [c EXCEPT !.flight = @ + c.queued, !.queued = 0]
  /\ UNCHANGED <<listening, polls>>

(* The peer closes once it has the whole response: "Connection: close".    *)
Served == c.put = Total(c) /\ c.parse = "END" /\ c.queued + c.flight = 0

PeerCloses == Served /\ RecvFin("none")

Next ==
  \/ Begin \/ End \/ Error \/ Output \/ RecvPart \/ RecvBad \/ Outgoing
  \/ \E f \in Faults :
       \/ \E k \in Kinds, h \in Heads, n \in Sizes : RecvWhole(k, h, n, f)
       \/ \E n \in 1..SndBuf : Sent(n, f)
       \/ Accept(f) \/ Poll(f) \/ RecvFin(f)

(* The timer of lwIP runs as long as the pcb is open; a peer that has      *)
(* everything closes; a name is found or not, and so is the peer: lwIP     *)
(* gives up a connection after some attempts.                              *)
TimerRuns == c.alive /\ c.lwip = "open" /\ polls' = 1 - polls

Answered ==
  \/ DnsUnknown \/ \E f \in Faults : DnsFound(f)
  \/ Connected \/ (c.lwip = "connecting" /\ Error)

Fairness == WF_polls(TimerRuns) /\ WF_vars(PeerCloses) /\ WF_vars(Answered)

Spec     == Init /\ [][Next]_vars
FairSpec == Spec /\ Fairness

----------------------------------------------------------------------------
(* Properties *)

TypeOK ==
  /\ listening \in BOOLEAN /\ polls \in {0, 1}
  /\ c.response \in {"NONE", "HEADERS", "CONTENT", "WAIT_ACK", "END"}
  /\ {c.queued, c.flight, c.head, c.left, c.sent, c.put} \subseteq Nat
  /\ c.queued + c.flight <= SndBuf /\ c.put <= Total(c)

(* No callback uses a client, a request or a pcb after its end, and none   *)
(* of them is deleted, nor its end told, twice, though closing from a      *)
(* callback deletes the objects that callback runs in; and, as the library *)
(* promises, "only one tcp_abort() call is made and only one CB returns    *)
(* with ERR_ABORT", the one during which it was made: lwIP would use the   *)
(* freed pcb otherwise.  (A client that connects again keeps the error of  *)
(* its last connection: the promise is one of the server's clients only.)  *)
(* It is said of clients that exist: a pcb for which _accept gets no       *)
(* client ("connection aborted!") is closed twice.                         *)
NoUseAfterEnd ==
  /\ c.bad => c.refused
  /\ c.owner = "server" => c.aborts = c.told /\ c.aborts <= 1

(* _tx_unacked_len is what is in flight, and the connection is busy as     *)
(* long as it is not 0 and no acknowledgement is overdue, unless lwIP has  *)
(* refused something.  (The bytes in flight when a connection breaks stay  *)
(* counted if the client connects again.)                                  *)
CountersAgree ==
  c.alive /\ c.lwip = "open" /\ c.connects <= 1 /\ ~c.failed =>
    /\ c.unacked = c.flight
    /\ c.busy <=> c.unacked > 0 /\ c.sentAge < AckTimeout

(* What is given to lwIP is the response in order without a hole, and it   *)
(* is all there when nothing more will be written, however the room of the *)
(* send buffer cuts it; unless lwIP or malloc has refused something, or    *)
(* there is no length and the head just fits: _sentLength = _contentLength *)
(* = 0 ends that response before its content (MaxPV sends none like it).   *)
InOrder ==
  ~c.failed =>
    /\ ~c.gap
    /\ c.response \in {"WAIT_ACK", "END"} =>
         c.put = Total(c) \/ (c.kind = "open" /\ c.front % SndBuf = 0)

(* No connection to the server stays for ever: a request that does not     *)
(* come, a peer that does not acknowledge are closed by the timeouts.  One *)
(* to the broker does not stay half made: its owner, who does not connect  *)
(* while it waits, is told that it is there or that it is not.             *)
ConnectionEnds ==
  /\ c.request ~> (~c.request \/ c.failed)
  /\ c.link \in {"dns", "connecting"} ~> (c.link \in {"none", "up"} \/ c.failed)

----------------------------------------------------------------------------
(* The inductive invariant behind NoUseAfterEnd: who exists together.  A   *)
(* client of the server exists with its request and its pcb, which end     *)
(* together; the one to the broker never ends, and its link tells its pcb. *)
Fields == DOMAIN Client

ServerOwned(x) ==
  /\ x.link = "none"
  /\ x.alive => /\ x.request /\ x.pcb /\ x.lwip = "open"
                /\ ~x.errored /\ x.closeError # "ABRT"
                /\ x.aborts = 0 /\ x.told = 0
  /\ ~x.alive => /\ ~x.request /\ x.response = "NONE"
                 /\ x.lwip \in {"closed", "free"}
                 /\ x.aborts \in 0..1 /\ x.told = x.aborts

BrokerOwned(x) ==
  /\ x.alive /\ ~x.request /\ x.response = "NONE"
  /\ x.pcb <=> x.lwip = "open"
  /\ x.lwip = "open" <=> x.link = "up"
  /\ x.lwip = "connecting" => x.link = "connecting"

Owned(x) ==
  /\ DOMAIN x = Fields /\ (x.bad => x.refused /\ ~x.alive)
  /\ \/ x.owner = "server" /\ ServerOwned(x)
     \/ x.owner = "mqtt" /\ BrokerOwned(x)

OwnedInv == Owned(c)

(* The inductive invariant behind CountersAgree and InOrder, as long as    *)
(* nothing was refused.  On its first connection a client counts what is   *)
(* in flight, and what is not yet acknowledged has an age or is given up.  *)
Numbers == {"connects", "unacked", "unsent", "queued", "flight", "sentAge",
            "front", "size", "left", "head", "put", "sent", "length"}

Counted(x) ==
  x.alive =>
    /\ x.queued = 0 /\ x.unsent = 0
    /\ x.flight <= SndBuf /\ x.flight <= x.unacked
    /\ x.connects <= 1 =>
         /\ x.lwip = "open" =>
              /\ x.unacked = x.flight
              /\ x.busy <=> x.unacked > 0 /\ x.sentAge < AckTimeout
              /\ x.owner = "server" /\ x.unacked > 0 /\ ~x.busy => x.closing
         /\ x.link \in {"dns", "connecting"} => x.unacked = 0 /\ ~x.busy

(* Where a response is: what of its head and of its content is given to    *)
(* lwIP, what is left, and how much its own counter tells to write.        *)
Begun(x) ==
  x.parse = "HEAD" =>
    /\ x.response = "NONE" /\ x.put = 0 /\ x.sent = 0
    /\ x.unacked = 0

InHeaders(x) ==
  /\ x.kind \in {"file", "open"} /\ x.head \in 1..x.front
  /\ x.left = x.size /\ x.sent = 0 /\ x.put = x.front - x.head
  /\ x.length = IF x.kind = "file" THEN x.size ELSE 0
  /\ x.kind = "open" => (x.front - x.head) % SndBuf = 0

InContent(x) ==
  /\ x.left <= x.size + x.front /\ x.put = Total(x) - x.left
  /\ x.kind \in {"basic", "file"} => x.length - x.sent = x.left
  /\ x.kind = "file" => x.head = 0
  /\ x.kind = "open" => x.head = 0 /\ x.length = 0 /\ x.sent > 0

Given(x) ==
  x.put = Total(x) \/ (x.kind = "open" /\ x.front % SndBuf = 0)

Composed(x) ==
  /\ ~x.gap /\ x.kind \in Kinds
  /\ x.owner = "server" => x.connects = 0
  /\ x.owner = "server" /\ x.alive =>
       /\ Begun(x)
       /\ x.response = "HEADERS" => InHeaders(x)
       /\ x.response = "CONTENT" => InContent(x)
       /\ x.response \in {"WAIT_ACK", "END"} => Given(x)
  /\ x.owner = "mqtt" => x.put = 0 /\ x.connects >= 1

InStep(x) ==
  ~x.failed => /\ \A n \in Numbers : x[n] \in Nat
               /\ Counted(x) /\ Composed(x)

InStepInv == InStep(c)

(* The inductive invariant behind TypeOK, whatever lwIP or malloc refuses: *)
(* the send buffer holds what is queued and in flight, and what a response *)
(* has left, with what its counter tells, is no more than it is made of.   *)
Counts == {"queued", "flight", "front", "size", "length", "left", "head",
           "put", "sent"}

Responses == {"NONE", "HEADERS", "CONTENT", "WAIT_ACK", "END"}

Bounded(x) ==
  /\ DOMAIN x = Fields /\ \A n \in Counts : x[n] \in Nat
  /\ x.queued + x.flight <= SndBuf
  /\ x.put <= Total(x)
  /\ x.kind \in Kinds /\ x.response \in Responses
  /\ x.parse = "HEAD" => x.response = "NONE" /\ x.put = 0 /\ x.sent = 0

Fitting(x) ==
  x.response \in {"HEADERS", "CONTENT"} =>
    /\ IF x.kind = "basic"
       THEN x.response = "CONTENT" /\ x.left <= Total(x)
       ELSE x.head <= x.front /\ x.left <= x.size
    /\ x.kind \in {"basic", "file"} => x.length = x.sent + x.left

Room(x) == Bounded(x) /\ Fitting(x)

RoomInv == Room(c)
=============================================================================
