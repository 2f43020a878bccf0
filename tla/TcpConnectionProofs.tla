------------------------- MODULE TcpConnectionProofs -------------------------
(***************************************************************************)
(* Proofs about the TCP connection, for all timeouts, sizes and servers.   *)
(***************************************************************************)
EXTENDS TcpConnection, ConnectionProofs

(* The caller, the handlers and the network move the socket only by the    *)
(* operations of AsioSocket.                                               *)
LEMMA CallerStep ==
  ASSUME Caller
  PROVE  [SockNext]_sock
<1>1. CASE Open
  BY <1>1, TimeoutAssumption, Zenon DEF Open, SockNext
<1>2. CASE Write
  BY <1>2, TimeoutAssumption, Zenon DEF Write, SockNext
<1>3. CASE ReadHeader
  BY <1>3, TimeoutAssumption, Zenon DEF ReadHeader, SockNext
<1>4. CASE TakeBody
  BY <1>4, Zenon DEF TakeBody
<1>5. CASE ReadBody
  BY <1>5, TimeoutAssumption, Zenon DEF ReadBody, SockNext
<1>6. CASE Return
  BY <1>6, Zenon DEF Return, Drop, SockNext
<1> QED BY <1>1, <1>2, <1>3, <1>4, <1>5, <1>6, Zenon DEF Caller

LEMMA HandlerStep ==
  ASSUME RunDeadline \/ CallHandler
  PROVE  [SockNext]_sock
<1>1. CASE RunDeadline
  BY <1>1, Zenon DEF RunDeadline, SockNext
<1>2. CASE ContinueCall
  BY <1>2, Zenon DEF ContinueCall, SockNext
<1>3. CASE Failed
  BY <1>3, Zenon DEF Failed, Throw, Drop, SockNext
<1>4. CASE Connected
  BY <1>4, Zenon DEF Connected, Throw, Drop, SockNext
<1>5. CASE Written \/ HeaderRead \/ BodyRead
  BY <1>5, Zenon DEF Written, HeaderRead, BodyRead, SockNext
<1> QED BY <1>1, <1>2, <1>3, <1>4, <1>5, Zenon DEF CallHandler

LEMMA NetworkStep ==
  ASSUME Network \/ TimePasses
  PROVE  [SockNext]_sock
<1> DEFINE Becomes == \E how \in {"partial", "done", "failed"} : CallBecomes(how)
<1>1. CASE Arrives \/ Sent \/ Partly \/ Broken
  <2>1. Becomes
    BY <1>1, Zenon DEF Arrives, Sent, Partly, Broken
  <2> QED BY <2>1, Zenon DEF SockNext
<1>2. CASE Received
  <2>1. CallBecomes("done") \/ CallBecomes("partial")
    BY <1>2, Zenon DEF Received
  <2> QED BY <2>1, Zenon DEF SockNext
<1>3. CASE PeerCloses
  BY <1>3, Zenon DEF PeerCloses
<1>4. CASE TimePasses
  BY <1>4, Zenon DEF TimePasses, SockNext
<1> QED BY <1>1, <1>2, <1>3, <1>4, Zenon DEF Network

LEMMA TcpStep ==
  ASSUME [Next]_vars
  PROVE  [SockNext]_sock
  BY CallerStep, HandlerStep, NetworkStep, Zenon DEF Next, vars

(* Every behaviour of a TCP connection is one of the socket.               *)
THEOREM TcpUsesSocket == Spec => SockSpec
<1>1. Init => SockInit
  BY Zenon DEF Init
<1>2. [Next]_vars => [SockNext]_sock
  BY TcpStep
<1> QED BY <1>1, <1>2, PTL DEF Spec, SockSpec

(* A TCP connection never runs out of deadline handlers and never has one  *)
(* that closes a socket before its time: handle_deadline() and             *)
(* set_deadline() cancel and renew each other's waits.                     *)
THEOREM TcpOneWait == Spec => []OneWait
  BY TcpUsesSocket, SocketSafe, PTL

(* A timeout that a TCP connection throws is one of this very operation.   *)
THEOREM TcpTimeout == Spec => []TimeoutMeansDeadline
  BY TcpUsesSocket, SocketSafe, PTL

(* And no call of it is pending without a deadline.                        *)
THEOREM TcpDeadline == Spec => []PendingHasDeadline
  BY TcpUsesSocket, SocketSafe, PTL

(* Whatever the deadline does while the connection is made, the            *)
(* constructor returns only one with an open socket.                       *)
THEOREM TcpConnected == Spec => ConnectedIsOpen
<1>1. ASSUME Next, pc = "connect", pc' = "idle"
      PROVE  open
  <2>1. ~Caller
    BY <1>1, Zenon DEF Caller, Open, Write, ReadHeader, TakeBody, ReadBody, Return
  <2>2. ~(RunDeadline \/ Network \/ TimePasses)
    BY <1>1, Zenon DEF RunDeadline, Network, TimePasses, Arrives, Sent, Received,
                       Partly, Broken, PeerCloses, parser
  <2>3. ~(ContinueCall \/ Failed \/ Written \/ HeaderRead \/ BodyRead)
    BY <1>1, Zenon DEF ContinueCall, Failed, Throw, Drop, Written, HeaderRead,
                       BodyRead, parser
  <2>4. Connected
    BY <1>1, <2>1, <2>2, <2>3, Zenon DEF Next, CallHandler
  <2> QED BY <1>1, <2>4, Zenon DEF Connected, Throw, Drop
<1>2. [Next]_vars => [pc = "connect" /\ pc' = "idle" => open]_vars
  BY <1>1, Zenon
<1> QED BY <1>2, PTL DEF Spec, ConnectedIsOpen

-----------------------------------------------------------------------------
(* What is read for a request.  The data under way, in the input buffer    *)
(* and on the wire, is the rest of one response to the current request,    *)
(* and the header at its front, or the code and size that were read of it, *)
(* announce all of it: so the body is taken to its end and nothing of a    *)
(* response that was understood is there when the next request leaves.     *)

(* Only the current request's response is read, buffered or under way.     *)
StreamOK ==
    /\ input \in Seq(Pieces({req}))
    /\ wire \in Seq(Pieces({req}))
    /\ got \subseteq {req}

(* A header at the front of what is under way announces all that follows.  *)
Announces(header, rest) ==
    /\ header.code \in DOMAIN Value
    /\ header.bytes \in Nat
    /\ Tells(cmd, header.code, served)
    /\ Understood(header.code) => rest <= 1 + header.bytes

First == IF input # <<>> THEN input[1].unit ELSE wire[1].unit

HeaderAhead ==
    input # <<>> \/ wire # <<>> =>
        /\ proto = "txt" => First.kind = "line"
        /\ Announces(DeserializeHeader(proto, cmd, First), Len(input) + Len(wire))

CodeTells == code \in DOMAIN Value /\ Tells(cmd, code, served)

FlowOK ==
    /\ pc \in {"none", "connect", "idle", "write", "written"} => input = <<>>
    /\ pc \in {"none", "connect", "idle"} => wire = <<>>
    /\ pc = "write" /\ op # "done" => wire = <<>>
    /\ pc \in {"write", "written", "header", "parsed", "body", "answered"} => cmd \in Commands
    /\ pc \in {"write", "written", "header"} => HeaderAhead
    /\ pc \in {"parsed", "body", "answered"} => CodeTells
    /\ pc \in {"parsed", "body"} /\ Understood(code) => Len(input) + Len(wire) <= body
    /\ pc = "body" /\ op = "done" => body <= Len(input)
    /\ pc = "answered" /\ Understood(code) => input = <<>> /\ wire = <<>>

IInv == SockInv /\ TypeOK /\ StreamOK /\ FlowOK

LEMMA SockKept ==
    ASSUME IInv, Next
    PROVE  SockInv' /\ SockTypeOK'
<1>1. SockInv'
  BY TcpStep, StepSock DEF IInv
<1> QED BY <1>1 DEF SockInv

(* A response on the wire.                                                 *)
LEMMA FrameIs ==
    ASSUME NEW r, NEW reply \in Seq(Units), Len(reply) > 0
    PROVE  /\ Frame(r, reply) \in Seq(Pieces({r}))
           /\ Len(Frame(r, reply)) = Len(reply)
           /\ Frame(r, reply)[1].unit = reply[1]
<1>1. reply # <<>>
  BY EmptySeq
<1> QED BY <1>1, StampIs DEF Frame

LEMMA InitInv == Init => IInv
<1> SUFFICES ASSUME Init PROVE IInv
  OBVIOUS
<1>1. SockInv
  BY InitSock DEF Init
<1>2. /\ pc = "none" /\ cmd = "none" /\ code = "none" /\ body = 0 /\ input = <<>>
      /\ result = "none" /\ wire = <<>> /\ req = 0 /\ got = {} /\ proto \in Protocols
  BY DEF Init
<1>3. op = "none" /\ alive = FALSE
  BY Zenon DEF Init, SockInit
<1>4. TypeOK
  BY <1>1, <1>2, <1>3, BoundAssumption DEF TypeOK, SockInv, Running
<1>5. StreamOK
  BY <1>2, EmptySeq DEF StreamOK
<1>6. FlowOK
  BY <1>2, <1>3 DEF FlowOK
<1> QED BY <1>1, <1>4, <1>5, <1>6 DEF IInv

(* Steps that move no data.                                                *)
LEMMA QuietKeeps ==
    ASSUME IInv, SockInv', UNCHANGED <<parser, input, result, served, ghosts, alive>>,
           wire' \in {wire, <<>>},
           op' = "none" <=> op = "none",
           pc = "write" /\ op = "done" => op' = "done" \/ wire' = <<>>,
           pc = "body" /\ op' = "done" => op = "done"
    PROVE  IInv'
<1>1. UNCHANGED <<proto, pc, cmd, code, body, input, result, served, req, got>>
  BY DEF parser, ghosts
<1>2. TypeOK'
  <2>1. SockTypeOK'
    BY DEF SockInv
  <2>2. (Running <=> pc \in {"connect", "write", "header", "body"})'
    BY <1>1, Zenon DEF IInv, TypeOK, Running
  <2>3. (alive <=> pc # "none")'
    BY <1>1, Zenon DEF IInv, TypeOK
  <2> QED BY <1>1, <2>1, <2>2, <2>3, Zenon DEF IInv, TypeOK
<1>3. StreamOK'
  BY <1>1, EmptySeq DEF IInv, StreamOK
<1>4. Len(wire') <= Len(wire) /\ Len(wire') \in Nat /\ Len(wire) \in Nat
      /\ Len(input) \in Nat
  BY <1>3, EmptySeq, LenIs DEF IInv, StreamOK
<1>5. HeaderAhead => HeaderAhead'
  <2> SUFFICES ASSUME HeaderAhead, (input # <<>> \/ wire # <<>>)'
               PROVE  /\ proto = "txt" => First'.kind = "line"
                      /\ Announces(DeserializeHeader(proto, cmd, First), Len(input) + Len(wire))'
    BY <1>1 DEF HeaderAhead
  <2>1. First' = First
    BY <1>1 DEF First
  <2> DEFINE header == DeserializeHeader(proto, cmd, First)
  <2>2. header' = header
    BY <1>1, <2>1
  <2>3. /\ proto = "txt" => First.kind = "line"
        /\ Announces(header, Len(input) + Len(wire))
    BY <1>1 DEF HeaderAhead
  <2> HIDE DEF header
  <2>4. Announces(header, Len(input) + Len(wire))'
    BY <1>1, <1>4, <2>2, <2>3 DEF Announces
  <2> QED BY <2>1, <2>3, <2>4 DEF header
<1>6. FlowOK'
  <2>1. wire = <<>> => wire' = <<>>
    OBVIOUS
  <2>2. pc = "write" /\ op' # "done" => wire' = <<>>
    BY <2>1, Zenon DEF IInv, FlowOK
  <2>3. CodeTells => CodeTells'
    BY <1>1, Zenon DEF CodeTells
  <2>4. pc = "body" /\ op' = "done" => body <= Len(input)
    BY Zenon DEF IInv, FlowOK
  <2>5. pc \in {"parsed", "body"} /\ Understood(code) => Len(input) + Len(wire') <= body
    <3>1. body \in Nat
      BY DEF IInv, TypeOK
    <3> QED BY <1>4, <3>1 DEF IInv, FlowOK
  <2> QED BY <1>1, <1>5, <2>1, <2>2, <2>3, <2>4, <2>5, Zenon DEF IInv, FlowOK
<1> QED BY <1>2, <1>3, <1>6 DEF IInv

(* The deadline, pieces of units and a server that goes away: what is left *)
(* of the data may be lost with it, and no more.                           *)
LEMMA QuietSteps ==
    ASSUME IInv, Next,
           \/ RunDeadline \/ ContinueCall \/ Arrives \/ Partly \/ Broken
           \/ PeerCloses \/ TimePasses
    PROVE  IInv'
<1>1. UNCHANGED <<parser, input, result, served, ghosts, alive>>
  BY Zenon DEF RunDeadline, HandleDeadline, ContinueCall, GoOn, Arrives, Partly,
               Broken, PeerCloses, TimePasses, CallBecomes, Tick, DeadlinePasses,
               net, socket, sock
<1>2. CASE RunDeadline \/ ContinueCall \/ Arrives \/ Partly \/ Broken \/ TimePasses
  <2>1. wire' = wire
    BY <1>2, Zenon DEF RunDeadline, ContinueCall, Arrives, Partly, Broken, TimePasses, net
  <2>2. \/ op' = op
        \/ op = "pending" /\ op' \in {"failed", "partial"}
        \/ op = "partial" /\ op' \in {"failed", "pending"}
        \/ op = "pending" /\ op' = "done" /\ pc = "connect"
    BY <1>2, Zenon DEF RunDeadline, HandleDeadline, ContinueCall, GoOn, StartCall,
          Arrives, Partly, Broken, TimePasses, CallBecomes, Tick, DeadlinePasses
  <2> QED BY <1>1, <2>1, <2>2, SockKept, QuietKeeps
<1>3. CASE PeerCloses
  <2>1. op' = op /\ wire' \in {wire, <<>>}
    BY <1>3, Zenon DEF PeerCloses, sock
  <2>2. pc = "write" /\ op = "done" => op' = "done"
    BY <2>1
  <2> QED BY <1>1, <2>1, <2>2, SockKept, QuietKeeps
<1> QED BY <1>2, <1>3

(* Nothing is left of a dropped connection.                                *)
LEMMA DropKeeps ==
    ASSUME IInv, Next, Drop, Forget, UNCHANGED <<proto, req, got>>,
           result' \in {"none", "yes", "no", "throws", "timeout", "io_error"}
    PROVE  IInv'
<1>1. /\ pc' = "none" /\ cmd' = "none" /\ code' = "none" /\ body' = 0
      /\ input' = <<>> /\ wire' = <<>> /\ proto' = proto /\ req' = req /\ got' = got
  BY DEF Drop, Forget
<1>2. op' = "none" /\ alive' = FALSE
  BY Zenon DEF Drop, Destroy
<1>3. TypeOK'
  BY <1>1, <1>2, SockKept DEF IInv, TypeOK, Running
<1>4. StreamOK'
  BY <1>1, EmptySeq DEF IInv, StreamOK
<1>5. FlowOK'
  BY <1>1 DEF FlowOK
<1> QED BY <1>3, <1>4, <1>5, SockKept DEF IInv

LEMMA ThrowKeeps ==
    ASSUME IInv, Next, Throw
    PROVE  IInv'
<1>1. Drop /\ Forget /\ result' \in {"timeout", "io_error"}
  BY Zenon DEF Throw, Kind
<1>2. UNCHANGED <<proto, req, got>>
  BY DEF Throw, ghosts
<1> QED BY <1>1, <1>2, DropKeeps

LEMMA ConnectSteps ==
    ASSUME IInv, Next, Open \/ Connected
    PROVE  IInv'
<1>1. CASE Open
  <2>1. /\ pc' = "connect" /\ result' = "none" /\ pc = "none"
        /\ UNCHANGED <<proto, cmd, code, body, input, wire, req, got>>
    BY <1>1 DEF Open, ghosts
  <2>2. op' = "pending" /\ alive' = TRUE
    BY <1>1, Zenon DEF Open, Connect
  <2>3. TypeOK'
    BY <2>1, <2>2, SockKept DEF IInv, TypeOK, Running
  <2>4. StreamOK'
    BY <2>1 DEF IInv, StreamOK
  <2>5. FlowOK'
    BY <2>1 DEF IInv, FlowOK
  <2> QED BY <2>3, <2>4, <2>5, SockKept DEF IInv
<1>2. CASE Connected /\ open
  <2>1. /\ pc' = "idle" /\ pc = "connect"
        /\ UNCHANGED <<proto, cmd, code, body, input, wire, req, got, result, alive>>
        /\ op' = "none"
    BY <1>2, Zenon DEF Connected, net, ghosts, End, socket
  <2>2. TypeOK'
    <3>1. alive'
      BY <2>1, Zenon DEF IInv, TypeOK
    <3> QED BY <2>1, <3>1, SockKept, Zenon DEF IInv, TypeOK, Running
  <2>3. StreamOK'
    BY <2>1 DEF IInv, StreamOK
  <2>4. FlowOK'
    BY <2>1 DEF IInv, FlowOK
  <2> QED BY <2>2, <2>3, <2>4, SockKept DEF IInv
<1>3. CASE Connected /\ ~open
  <2>1. Throw
    BY <1>3, Zenon DEF Connected
  <2> QED BY <2>1, ThrowKeeps
<1> QED BY <1>1, <1>2, <1>3

LEMMA Begun ==
    ASSUME NEW timeout \in Nat, Begin(timeout)
    PROVE  alive' = alive /\ op' \in {"pending", "failed"}
  BY Zenon DEF Begin, StartCall, socket

LEMMA WriteKeeps ==
    ASSUME IInv, Next, Write
    PROVE  IInv'
<1>1. /\ pc = "idle" /\ pc' = "write" /\ cmd' \in Commands /\ result' = "none"
      /\ req' = (req + 1) % Ids /\ got' = {}
      /\ UNCHANGED <<proto, code, body, input, wire>>
  BY DEF Write
<1>2. alive' = alive /\ op' \in {"pending", "failed"}
  BY Begun, TimeoutAssumption, Zenon DEF Write
<1>3. input' = <<>> /\ wire' = <<>>
  BY <1>1 DEF IInv, FlowOK
<1>4. TypeOK'
  <2>1. req' \in 0 .. Ids - 1
    BY <1>1, BoundAssumption DEF IInv, TypeOK
  <2>2. alive'
    BY <1>1, <1>2, Zenon DEF IInv, TypeOK
  <2> QED BY <1>1, <1>2, <2>1, <2>2, SockKept DEF IInv, TypeOK, Running
<1>5. StreamOK'
  BY <1>1, <1>3, EmptySeq DEF StreamOK
<1>6. HeaderAhead'
  BY <1>3 DEF HeaderAhead
<1>7. FlowOK'
  BY <1>1, <1>3, <1>6 DEF FlowOK
<1> QED BY <1>4, <1>5, <1>7, SockKept DEF IInv

(* The response to the request that leaves, if anybody is there.           *)
LEMMA SentKeeps ==
    ASSUME IInv, Next, Sent
    PROVE  IInv'
<1>1. /\ pc = "write" /\ op = "pending" /\ op' = "done"
      /\ UNCHANGED <<proto, pc, cmd, code, body, input, result, req, got, alive>>
  BY DEF Sent, CallBecomes, parser, ghosts, socket
<1>2. input = <<>> /\ wire = <<>> /\ cmd \in Commands
  BY <1>1 DEF IInv, FlowOK
<1>3. TypeOK'
  BY <1>1, SockKept, Zenon DEF IInv, TypeOK, Running
<1>4. CASE ~peer
  <2>1. wire' = <<>> /\ input' = <<>>
    BY <1>1, <1>2, <1>4 DEF Sent
  <2>2. StreamOK'
    BY <1>1, <2>1, EmptySeq DEF IInv, StreamOK
  <2>3. FlowOK'
    BY <1>1, <1>2, <2>1 DEF FlowOK, HeaderAhead
  <2> QED BY <1>3, <2>2, <2>3, SockKept DEF IInv
<1>5. CASE peer
  <2>1. PICK outcome \in Outcomes(cmd), n \in 0 .. MaxData :
           \E reply \in Replies(proto, cmd, outcome, n) :
              wire' = wire \o Frame(req, reply) /\ served' = outcome
    BY <1>5 DEF Sent
  <2>2. PICK reply \in Replies(proto, cmd, outcome, n) :
           wire' = wire \o Frame(req, reply) /\ served' = outcome
    BY <2>1
  <2>3. Reply(proto, cmd, outcome, reply)
    BY <1>2, ReplyIs, BoundAssumption DEF IInv, TypeOK
  <2>4. reply \in Seq(Units) /\ Len(reply) > 0 /\ Len(reply) \in Nat
    BY <2>3, LenIs DEF Reply
  <2>5. /\ Frame(req, reply) \in Seq(Pieces({req}))
        /\ Len(Frame(req, reply)) = Len(reply)
        /\ Frame(req, reply)[1].unit = reply[1]
    BY <2>4, FrameIs
  <2>6. wire' = Frame(req, reply)
    BY <1>2, <2>2, <2>5, ConcatEmptySeq
  <2>7. StreamOK'
    BY <1>1, <2>5, <2>6 DEF IInv, StreamOK
  <2>8. First' = reply[1] /\ Len(wire') = Len(reply) /\ Len(input') = 0
    BY <1>1, <1>2, <2>5, <2>6 DEF First
  <2>9. HeaderAhead'
    <3> DEFINE header == DeserializeHeader(proto, cmd, reply[1])
    <3>1. /\ header.code \in DOMAIN Value /\ header.bytes \in Nat
          /\ Understood(header.code) => header.bytes = Len(reply) - 1
          /\ Tells(cmd, header.code, outcome)
          /\ proto = "txt" => reply[1].kind = "line"
      BY <2>3 DEF Reply, Means
    <3>2. DeserializeHeader(proto, cmd, First)' = header
      BY <1>1, <2>8
    <3> HIDE DEF header
    <3>3. Announces(DeserializeHeader(proto, cmd, First), Len(input) + Len(wire))'
      BY <1>1, <2>2, <2>4, <2>8, <3>1, <3>2 DEF Announces
    <3>4. (proto = "txt" => First.kind = "line")'
      BY <1>1, <2>8, <3>1
    <3> QED BY <3>3, <3>4 DEF HeaderAhead
  <2>10. FlowOK'
    BY <1>1, <1>2, <2>9 DEF FlowOK
  <2> QED BY <1>3, <2>7, <2>10, SockKept DEF IInv
<1> QED BY <1>4, <1>5

LEMMA WrittenKeeps ==
    ASSUME IInv, Next, Written
    PROVE  IInv'
<1>1. /\ pc = "write" /\ pc' = "written" /\ op' = "none"
      /\ UNCHANGED <<proto, cmd, code, body, input, result, wire, served, req, got, alive>>
  BY DEF Written, End, socket, net, ghosts
<1>2. TypeOK'
  <2>1. alive'
    BY <1>1, Zenon DEF IInv, TypeOK
  <2> QED BY <1>1, <2>1, SockKept DEF IInv, TypeOK, Running
<1>3. StreamOK'
  BY <1>1 DEF IInv, StreamOK
<1>4. HeaderAhead' = HeaderAhead
  BY <1>1 DEF HeaderAhead, First, Announces
<1>5. FlowOK'
  BY <1>1, <1>4 DEF IInv, FlowOK
<1> QED BY <1>2, <1>3, <1>5, SockKept DEF IInv

(* Nothing is buffered when a header is asked for.                         *)
LEMMA ReadHeaderKeeps ==
    ASSUME IInv, Next, ReadHeader
    PROVE  IInv'
<1>1. pc = "written" /\ input = <<>>
  BY DEF ReadHeader, IInv, FlowOK
<1>2. HeaderEnds(input) = {}
  BY <1>1 DEF HeaderEnds
<1>3. /\ pc' = "header" /\ Begin(ReadTimeout)
      /\ UNCHANGED <<proto, cmd, code, body, input, result, wire, served, req, got>>
  BY <1>2 DEF ReadHeader, net
<1>4. alive' = alive /\ op' \in {"pending", "failed"}
  BY <1>3, Begun, TimeoutAssumption
<1>5. TypeOK'
  <2>1. alive'
    BY <1>1, <1>4, Zenon DEF IInv, TypeOK
  <2> QED BY <1>3, <1>4, <2>1, SockKept DEF IInv, TypeOK, Running
<1>6. StreamOK'
  BY <1>3 DEF IInv, StreamOK
<1>7. HeaderAhead' = HeaderAhead
  BY <1>3 DEF HeaderAhead, First, Announces
<1>8. FlowOK'
  BY <1>1, <1>3, <1>7 DEF IInv, FlowOK
<1> QED BY <1>5, <1>6, <1>8, SockKept DEF IInv

(* What is taken from the front of the buffer is of the current request.   *)
LEMMA TakeIs ==
    ASSUME IInv, NEW n \in 0 .. Len(input), Take(n)
    PROVE  /\ input' \in Seq(Pieces({req}))
           /\ Len(input') = Len(input) - n
           /\ n = Len(input) => input' = <<>>
           /\ got' \subseteq {req}
<1>1. input \in Seq(Pieces({req})) /\ got \subseteq {req}
  BY DEF IInv, StreamOK
<1>2. Len(input) \in Nat /\ \A i \in 1 .. n : input[i] \in Pieces({req})
  BY <1>1, LenIs
<1>3. \A i \in 1 .. n : input[i].of = req
  BY <1>2 DEF Pieces
<1>4. got' \subseteq {req}
  BY <1>1, <1>3 DEF Take
<1>5. input' = SubSeq(input, n + 1, Len(input))
  BY DEF Take
<1> QED BY <1>1, <1>4, <1>5, Consumed

(* Data moves from the wire to the buffer, in order.                       *)
LEMMA ReceivedKeeps ==
    ASSUME IInv, Next, Received
    PROVE  IInv'
<1>1. /\ pc \in {"header", "body"} /\ op = "pending" /\ op' \in {"done", "partial"}
      /\ op' = "done" => Satisfied(input')
      /\ UNCHANGED <<proto, pc, cmd, code, body, result, served, req, got, alive>>
  BY DEF Received, CallBecomes, parser, ghosts, socket
<1>2. PICK n \in 1 .. Len(wire) :
         /\ input' = input \o SubSeq(wire, 1, n)
         /\ wire' = SubSeq(wire, n + 1, Len(wire))
  BY DEF Received
<1>3. input \in Seq(Pieces({req})) /\ wire \in Seq(Pieces({req}))
  BY DEF IInv, StreamOK
<1>4. Len(input) \in Nat /\ Len(wire) \in Nat /\ n \in 0 .. Len(wire)
  BY <1>3, LenIs
<1>5. /\ SubSeq(wire, 1, n) \in Seq(Pieces({req}))
      /\ Len(SubSeq(wire, 1, n)) = n
      /\ SubSeq(wire, 1, n)[1] = wire[1]
  BY <1>3, Front
<1>6. wire' \in Seq(Pieces({req})) /\ Len(wire') = Len(wire) - n
  BY <1>2, <1>3, <1>4, Consumed
<1>7. /\ input' \in Seq(Pieces({req})) /\ Len(input') = Len(input) + n
      /\ input # <<>> => input'[1] = input[1]
      /\ input = <<>> => input'[1] = wire[1]
  <2> DEFINE front == SubSeq(wire, 1, n)
  <2>1. input' = input \o front
    BY <1>2
  <2>2. front \in Seq(Pieces({req})) /\ Len(front) = n /\ front[1] = wire[1]
    BY <1>5
  <2> HIDE DEF front
  <2>3. /\ input \o front \in Seq(Pieces({req}))
        /\ Len(input \o front) = Len(input) + Len(front)
        /\ input # <<>> => (input \o front)[1] = input[1]
        /\ input = <<>> => input \o front = front
    BY <1>3, <2>2, Joined
  <2> QED BY <2>1, <2>2, <2>3
<1>8. input' # <<>> /\ Len(input') + Len(wire') = Len(input) + Len(wire)
      /\ (input # <<>> \/ wire # <<>>)
  BY <1>4, <1>6, <1>7, LenIs
<1>9. TypeOK'
  BY <1>1, SockKept, Zenon DEF IInv, TypeOK, Running
<1>10. StreamOK'
  BY <1>1, <1>6, <1>7 DEF IInv, StreamOK
<1>11. HeaderAhead => HeaderAhead'
  <2>1. First' = First
    BY <1>7, <1>8 DEF First
  <2>2. DeserializeHeader(proto, cmd, First)' = DeserializeHeader(proto, cmd, First)
    BY <1>1, <2>1
  <2> QED BY <1>1, <1>8, <2>1, <2>2 DEF HeaderAhead, Announces
<1>12. FlowOK'
  <2>1. pc = "body" /\ op' = "done" => body <= Len(input')
    BY <1>1, <1>4, <1>7 DEF Satisfied, IInv, TypeOK
  <2>2. CodeTells' = CodeTells
    BY <1>1 DEF CodeTells
  <2> QED BY <1>1, <1>8, <1>11, <2>1, <2>2 DEF IInv, FlowOK
<1> QED BY <1>9, <1>10, <1>12, SockKept DEF IInv

(* The first unit is the header: the code it gives tells what the server   *)
(* did, and no more than the body it announces is left.                    *)
LEMMA HeaderReadKeeps ==
    ASSUME IInv, Next, HeaderRead
    PROVE  IInv'
<1>1. /\ pc = "header" /\ pc' = "parsed" /\ op' = "none"
      /\ UNCHANGED <<proto, cmd, result, wire, served, req, alive>>
  BY DEF HeaderRead, TakeHeader, End, socket, net
<1> DEFINE header == DeserializeHeader(proto, cmd, Head(input).unit)
<1>2. code' = header.code /\ body' = header.bytes
  BY DEF HeaderRead, TakeHeader
<1>3. PICK n \in HeaderEnds(input) :
         (\A m \in HeaderEnds(input) : n <= m) /\ Take(n)
  BY DEF HeaderRead, TakeHeader
<1>4. input \in Seq(Pieces({req})) /\ wire \in Seq(Pieces({req}))
  BY DEF IInv, StreamOK
<1>5. DOMAIN input = 1 .. Len(input) /\ Len(input) \in Nat /\ Len(wire) \in Nat
  BY <1>4, LenIs
<1>6. n \in 1 .. Len(input)
  BY <1>3, <1>5 DEF HeaderEnds
<1>7. input # <<>> /\ Head(input) = input[1]
  BY <1>4, <1>5, <1>6, LenIs
<1>8. /\ proto = "txt" => input[1].unit.kind = "line"
      /\ Announces(header, Len(input) + Len(wire))
  BY <1>1, <1>7 DEF IInv, FlowOK, HeaderAhead, First
<1>9. n = 1
  <2>1. 1 \in HeaderEnds(input)
    BY <1>3, <1>5, <1>6, <1>8 DEF HeaderEnds
  <2> QED BY <1>3, <1>6, <2>1
<1>10. /\ input' \in Seq(Pieces({req})) /\ Len(input') = Len(input) - 1
       /\ got' \subseteq {req}
  <2>1. 1 \in 0 .. Len(input) /\ Take(1)
    BY <1>3, <1>5, <1>6, <1>9
  <2> QED BY <2>1, TakeIs
<1>11. cmd \in Commands
  BY <1>1 DEF IInv, FlowOK
<1> HIDE DEF header
<1>12. /\ code' \in DOMAIN Value /\ body' \in Nat /\ Tells(cmd, code', served)
       /\ Understood(code') => Len(input') + Len(wire) <= body'
  BY <1>2, <1>5, <1>8, <1>10 DEF Announces
<1>13. TypeOK'
  <2>1. alive'
    BY <1>1, Zenon DEF IInv, TypeOK
  <2>2. got' \subseteq 0 .. Ids - 1
    BY <1>10 DEF IInv, TypeOK
  <2> QED BY <1>1, <1>12, <2>1, <2>2, SockKept DEF IInv, TypeOK, Running
<1>14. StreamOK'
  BY <1>1, <1>10 DEF IInv, StreamOK
<1>15. CodeTells'
  BY <1>1, <1>12 DEF CodeTells
<1>16. FlowOK'
  BY <1>1, <1>11, <1>12, <1>15 DEF FlowOK
<1> QED BY <1>13, <1>14, <1>16, SockKept DEF IInv

LEMMA ReadBodyKeeps ==
    ASSUME IInv, Next, ReadBody
    PROVE  IInv'
<1>1. /\ pc = "parsed" /\ pc' = "body" /\ Begin(ReadTimeout)
      /\ UNCHANGED <<proto, cmd, code, body, input, result, wire, served, req, got>>
  BY DEF ReadBody, net, ghosts
<1>2. alive' = alive /\ op' \in {"pending", "failed"}
  BY <1>1, Begun, TimeoutAssumption
<1>3. TypeOK'
  <2>1. alive'
    BY <1>1, <1>2, Zenon DEF IInv, TypeOK
  <2> QED BY <1>1, <1>2, <2>1, SockKept DEF IInv, TypeOK, Running
<1>4. StreamOK'
  BY <1>1 DEF IInv, StreamOK
<1>5. CodeTells' = CodeTells
  BY <1>1 DEF CodeTells
<1>6. FlowOK'
  BY <1>1, <1>2, <1>5 DEF IInv, FlowOK
<1> QED BY <1>3, <1>4, <1>6, SockKept DEF IInv

(* All that the header announced has been taken: nothing is left of the    *)
(* response.                                                               *)
LEMMA AnsweredKeeps ==
    ASSUME IInv, Next, TakeBody \/ BodyRead
    PROVE  IInv'
<1>1. /\ pc \in {"parsed", "body"} /\ pc' = "answered" /\ Take(body)
      /\ op' = "none" /\ body <= Len(input)
      /\ UNCHANGED <<proto, cmd, code, body, result, wire, served, req, alive>>
  <2>1. CASE TakeBody
    BY <2>1 DEF TakeBody, net, sock, socket, IInv, TypeOK, Running
  <2>2. CASE BodyRead
    BY <2>2 DEF BodyRead, End, net, socket, IInv, FlowOK
  <2> QED BY <2>1, <2>2
<1>2. Len(input) \in Nat /\ Len(wire) \in Nat /\ (wire = <<>> <=> Len(wire) = 0)
  BY LenIs DEF IInv, StreamOK
<1>3. body \in 0 .. Len(input)
  BY <1>1, <1>2 DEF IInv, TypeOK
<1>4. /\ input' \in Seq(Pieces({req})) /\ Len(input') = Len(input) - body
      /\ body = Len(input) => input' = <<>>
      /\ got' \subseteq {req}
  BY <1>1, <1>3, TakeIs
<1>5. TypeOK'
  <2>1. alive'
    BY <1>1, Zenon DEF IInv, TypeOK
  <2>2. got' \subseteq 0 .. Ids - 1
    BY <1>4 DEF IInv, TypeOK
  <2> QED BY <1>1, <2>1, <2>2, SockKept DEF IInv, TypeOK, Running
<1>6. StreamOK'
  BY <1>1, <1>4 DEF IInv, StreamOK
<1>7. CodeTells /\ CodeTells' = CodeTells
  BY <1>1 DEF IInv, FlowOK, CodeTells
<1>8. Understood(code) => input' = <<>> /\ wire' = <<>>
  <2>1. Understood(code) => Len(input) + Len(wire) <= body
    BY <1>1 DEF IInv, FlowOK
  <2> QED BY <1>1, <1>2, <1>3, <1>4, <2>1
<1>9. FlowOK'
  BY <1>1, <1>7, <1>8 DEF IInv, FlowOK
<1> QED BY <1>5, <1>6, <1>9, SockKept DEF IInv

LEMMA ReturnKeeps ==
    ASSUME IInv, Next, Return
    PROVE  IInv'
<1>1. /\ pc = "answered" /\ Forget /\ result' = Told(cmd, code)
      /\ UNCHANGED <<proto, req, got>>
  BY DEF Return, ghosts
<1>2. result' \in {"yes", "no", "throws"}
  BY <1>1 DEF IInv, FlowOK, CodeTells, Tells
<1>3. CASE Understood(code)
  <2>1. pc' = "idle" /\ UNCHANGED <<sock, input, wire>>
    BY <1>3 DEF Return
  <2>2. cmd' = "none" /\ code' = "none" /\ body' = 0
    BY <1>1 DEF Forget
  <2>3. input' = <<>> /\ wire' = <<>>
    BY <1>1, <1>3, <2>1 DEF IInv, FlowOK
  <2>4. TypeOK'
    <3>1. alive'
      BY <1>1, <2>1, Zenon DEF IInv, TypeOK, sock, socket
    <3>2. op' = "none"
      BY <1>1, <2>1 DEF IInv, TypeOK, Running, sock
    <3> QED BY <1>1, <1>2, <2>1, <2>2, <3>1, <3>2, SockKept DEF IInv, TypeOK, Running
  <2>5. StreamOK'
    BY <1>1, <2>3, EmptySeq DEF IInv, StreamOK
  <2>6. FlowOK'
    BY <2>1, <2>3 DEF FlowOK
  <2> QED BY <2>4, <2>5, <2>6, SockKept DEF IInv
<1>4. CASE ~Understood(code)
  <2>1. Drop
    BY <1>4 DEF Return
  <2> QED BY <1>1, <1>2, <2>1, DropKeeps
<1> QED BY <1>3, <1>4

LEMMA StepInv ==
    ASSUME IInv, [Next]_vars
    PROVE  IInv'
<1>1. CASE Next
  <2>1. CASE Open \/ Connected
    BY <1>1, <2>1, ConnectSteps
  <2>2. CASE Failed
    BY <1>1, <2>2, ThrowKeeps DEF Failed
  <2> QED
    BY <1>1, <2>1, <2>2, WriteKeeps, ReadHeaderKeeps, AnsweredKeeps, ReadBodyKeeps,
       ReturnKeeps, WrittenKeeps, HeaderReadKeeps, SentKeeps, ReceivedKeeps,
       QuietSteps, Zenon DEF Next, Caller, CallHandler, Network
<1>2. CASE UNCHANGED vars
  <2>1. SockInv'
    BY <1>2, CallKeeps DEF IInv, vars
  <2>2. UNCHANGED <<parser, input, result, served, ghosts, alive>>
        /\ wire' = wire /\ op' = op
    BY <1>2, Zenon DEF vars, net, sock, socket
  <2> QED BY <2>1, <2>2, QuietKeeps
<1> QED BY <1>1, <1>2

(* The stream and the parser agree in every state, for values of any       *)
(* length, any timeouts and any way the bytes arrive.                      *)
THEOREM TcpInvariant == Spec => []IInv
<1>1. IInv /\ [Next]_vars => IInv'
  BY StepInv
<1> QED BY <1>1, InitInv, PTL DEF Spec

(* Every variable keeps its type; a connection is alive unless pc is       *)
(* "none", and handlers run in the operations only.                        *)
THEOREM TcpTypeCorrect == Spec => []TypeOK
<1>1. IInv => TypeOK
  BY DEF IInv
<1> QED BY <1>1, TcpInvariant, PTL

(* However much a call buffers ahead and wherever the deadline or the      *)
(* server ends an exchange, what is read for a request was sent for it,    *)
(* and a pooled connection has nothing left to be read.                    *)
THEOREM TcpResponseOfRequest == Spec => []ResponseOfRequest
<1>1. IInv => ResponseOfRequest
  BY DEF IInv, StreamOK, FlowOK, ResponseOfRequest
<1> QED BY <1>1, TcpInvariant, PTL

(* In both protocols the client tells of a command what the server did.    *)
THEOREM TcpResultMeansOutcome == Spec => ResultMeansOutcome
<1>1. ASSUME IInv, Next, pc = "answered", pc' # "answered"
      PROVE  result' = Told(cmd, code) /\ Tells(cmd, code, served)
  <2>1. Return
    <3>1. ~(Open \/ Write \/ ReadHeader \/ TakeBody \/ ReadBody)
      BY <1>1, Zenon DEF Open, Write, ReadHeader, TakeBody, ReadBody
    <3>2. ~Running
      BY <1>1 DEF IInv, TypeOK
    <3>3. ~(RunDeadline \/ CallHandler)
      BY <1>1, <3>2, Zenon DEF RunDeadline, HandleDeadline, CallHandler, ContinueCall,
         GoOn, Failed, Connected, Written, HeaderRead, BodyRead, Running
    <3>4. ~(Network \/ TimePasses)
      BY <1>1, Zenon DEF Network, TimePasses, Arrives, Sent, Received, Partly,
         Broken, PeerCloses, parser
    <3> QED BY <1>1, <3>1, <3>3, <3>4 DEF Next, Caller
  <2> QED BY <1>1, <2>1 DEF Return, IInv, FlowOK, CodeTells
<1> DEFINE Truth == pc = "answered" /\ pc' # "answered" =>
        /\ result' = "yes" <=> served = "done"
        /\ cmd \notin {"replace", "flush_all"} =>
              (result' = "no" <=> served \in {"missing", "present"})
<1>2. IInv /\ [Next]_vars => [Truth]_vars
  BY <1>1 DEF Tells
<1> QED BY <1>2, TcpInvariant, PTL DEF Spec, ResultMeansOutcome

=============================================================================
