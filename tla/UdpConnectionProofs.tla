------------------------- MODULE UdpConnectionProofs -------------------------
(***************************************************************************)
(* Proofs about the UDP connection, for all timeouts, ids and servers.     *)
(***************************************************************************)
EXTENDS UdpConnection, ConnectionProofs

(* An exchange touches the socket where it receives the next datagram and  *)
(* where an error drops the connection.                                    *)
LEMMA ExchangeStep ==
  ASSUME Open \/ Write \/ InExchange
  PROVE  [SockNext]_sock
<1>1. CASE Open
  BY <1>1, TimeoutAssumption, Zenon DEF Open, SockNext
<1>2. CASE Write
  BY <1>2, TimeoutAssumption, Zenon DEF Write, SockNext
<1>3. CASE ReadHeader \/ ReadBody \/ NoBody
  BY <1>3, Zenon DEF ReadHeader, ReadBody, Read, NoBody
<1>4. CASE Receive
  BY <1>4, TimeoutAssumption, Zenon DEF Receive, SockNext
<1>5. CASE TakeHeader \/ TakeBody
  BY <1>5, Zenon DEF TakeHeader, TakeBody
<1>6. CASE PartialInput
  BY <1>6, Zenon DEF PartialInput, Throw, Drop, SockNext
<1>7. CASE Return
  BY <1>7, Zenon DEF Return, Drop, SockNext
<1> QED
  BY <1>1, <1>2, <1>3, <1>4, <1>5, <1>6, <1>7, Zenon DEF InExchange

LEMMA HandlerStep ==
  ASSUME RunDeadline \/ CallHandler
  PROVE  [SockNext]_sock
<1>1. CASE RunDeadline
  BY <1>1, Zenon DEF RunDeadline, SockNext
<1>2. CASE Failed \/ PacketRefused
  BY <1>2, Zenon DEF Failed, PacketRefused, Throw, Drop, SockNext
<1>3. CASE Connected
  BY <1>3, Zenon DEF Connected, Throw, Drop, SockNext
<1>4. CASE Written \/ PacketAccepted
  BY <1>4, Zenon DEF Written, PacketAccepted, SockNext
<1> QED BY <1>1, <1>2, <1>3, <1>4, Zenon DEF CallHandler

LEMMA NetworkStep ==
  ASSUME Network \/ TimePasses
  PROVE  [SockNext]_sock
<1> DEFINE Becomes == \E how \in {"partial", "done", "failed"} : CallBecomes(how)
<1>1. CASE Arrives \/ Sent \/ Received \/ Broken
  <2>1. Becomes
    BY <1>1, Zenon DEF Arrives, Sent, Received, Broken
  <2> QED BY <2>1, Zenon DEF SockNext
<1>2. CASE Served
  BY <1>2, Zenon DEF Served
<1>3. CASE TimePasses
  BY <1>3, Zenon DEF TimePasses, SockNext
<1> QED BY <1>1, <1>2, <1>3, Zenon DEF Network

(* Every behaviour of a UDP connection is one of the socket.               *)
THEOREM UdpUsesSocket == Spec => SockSpec
<1>1. Init => SockInit
  BY Zenon DEF Init
<1>2. [Next]_vars => [SockNext]_sock
  BY ExchangeStep, HandlerStep, NetworkStep, Zenon DEF Next, vars
<1> QED BY <1>1, <1>2, PTL DEF Spec, SockSpec

(* So a UDP connection, whose code repeats that of the TCP connection, has *)
(* one deadline handler, throws no timeout of an earlier operation and     *)
(* waits for no datagram without a deadline.                               *)
THEOREM UdpSafe ==
  Spec => [](OneWait /\ TimeoutMeansDeadline /\ PendingHasDeadline)
  BY UdpUsesSocket, SocketSafe, PTL

-----------------------------------------------------------------------------
(* What is read for a request.  With an id that nothing under way carries, *)
(* an answer to the request is all that fill() accepts.  The answer is     *)
(* there in one or two parts: as many as were accepted are in the buffer,  *)
(* in order, and its first unit announces the rest.  A datagram that is    *)
(* refused ends the connection, so it is never read though it is buffered. *)

(* What a server sends: a response is one datagram or two.                 *)
Datums ==
    [of : {0, 1}, id : PacketIds, seq : {0, 1}, count : {1, 2}, units : Seq(Units)]

(* The types the proof needs beyond TypeOK.                                *)
NetOK ==
    /\ wire \subseteq Datums
    /\ packet.count \in 0 .. 2
    /\ place \in Nat
    /\ buffer \in Seq(Pieces({0, 1}))
    /\ pc \notin {"none", "connect", "idle"} => cmd \in Commands /\ cmd \in Calls

(* fill() has a datagram to look at.                                       *)
Filled == pc = "fill" /\ op = "done"

(* The id tells what is under way for the current request from the rest.   *)
Fresh == \A d \in wire \cup asked : d.id = id <=> d.of = req

(* The buffer holds so many units for the current request, from this one.  *)
Holds(units) ==
    /\ buffer \in Seq(Pieces({req}))
    /\ Len(buffer) = Len(units)
    /\ units # <<>> => buffer[1].unit = units[1]

(* No datagram of a response has been accepted.                            *)
Nothing == buffer = <<>> /\ place = 0

(* The server has not answered yet: nothing that comes is accepted.        *)
Unserved ==
    /\ \A d \in wire : d.of # req
    /\ \A r \in asked : r.of = req => r.cmd = cmd
    /\ IF Filled THEN ~Expected ELSE Nothing
    /\ pc \in {"receive", "fill"} => part = "header"
    /\ pc # "filled"

(* The datagrams of a response whose parts are a and b; b is empty where   *)
(* it came in one piece.                                                   *)
Of(d, a, b) ==
    /\ d.count = IF b = <<>> THEN 1 ELSE 2
    /\ \/ d.seq = 0 /\ d.units = a
       \/ b # <<>> /\ d.seq = 1 /\ d.units = b

(* What is buffered of it: nothing, the first part, or all that was sent.  *)
Progress(a, b) ==
    /\ pc \in {"write", "written"} => Nothing
    /\ pc \in {"receive", "fill"} => part = "header"
    /\ pc \in {"receive", "fill"} /\ ~Filled =>
          IF place = 0 THEN buffer = <<>> ELSE b # <<>> /\ Holds(a)
    /\ Filled /\ Expected =>
          /\ packet.count = IF b = <<>> THEN 1 ELSE 2
          /\ IF place = 0 THEN Holds(a) ELSE b # <<>> /\ Holds(a \o b)
    /\ pc = "filled" => Holds(a \o b)

(* The server answered, in these parts.                                    *)
Answer(a, b) ==
    /\ a # <<>>
    /\ Reply(proto, cmd, served, a \o b)
    /\ \A d \in wire : d.of = req => Of(d, a, b)
    /\ \A r \in asked : r.of # req
    /\ Progress(a, b)

(* The request is out and its header is not read yet.                      *)
Awaited ==
    \/ pc = "write" /\ op = "done"
    \/ pc \in {"written", "receive", "fill"}
    \/ pc = "filled" /\ part = "header"

(* The header is read, the body not.                                       *)
InBody == pc = "parsed" \/ (pc = "filled" /\ part = "body")

(* The code that was read tells what the server did.                       *)
CodeTells ==
    /\ Tells(cmd, code, served)
    /\ code \in DOMAIN Value
    /\ buffer \in Seq(Pieces({req}))
    /\ \A r \in asked : r.of # req

(* What holds unless an id was drawn again while still in use.             *)
Ours ==
    /\ Fresh
    /\ got \subseteq {req}
    /\ pc \in {"none", "connect", "idle"} => Nothing
    /\ pc = "write" => Nothing
    /\ pc = "write" /\ op # "done" => \A d \in wire \cup asked : d.of # req
    /\ Awaited => Unserved \/ \E a, b \in Seq(Units) : Answer(a, b)
    /\ InBody => /\ body <= Len(buffer)
                 /\ Understood(code) => body = Len(buffer)
    /\ InBody \/ pc = "answered" => CodeTells
    /\ pc = "answered" /\ Understood(code) => buffer = <<>>

IInv == SockInv /\ TypeOK /\ NetOK /\ (~ambiguous => Ours)

LEMMA SockKept ==
    ASSUME IInv, Next
    PROVE  SockInv' /\ SockTypeOK'
<1>1. [SockNext]_sock
  BY ExchangeStep, HandlerStep, NetworkStep, Zenon DEF Next
<1>2. SockInv'
  BY <1>1, StepSock DEF IInv
<1> QED BY <1>2 DEF SockInv

(* A connection that is not there has read nothing.                        *)
LEMMA InitInv == Init => IInv
<1> SUFFICES ASSUME Init PROVE IInv
  OBVIOUS
<1>1. SockInv
  BY InitSock DEF Init
<1>2. /\ pc = "none" /\ part = "header" /\ cmd = "none" /\ code = "none" /\ body = 0
      /\ result = "none" /\ buffer = <<>> /\ id \in PacketIds /\ place = 0 /\ count = 0
      /\ asked = {} /\ wire = {} /\ req = 0 /\ got = {} /\ ambiguous = FALSE
      /\ proto \in Protocols /\ packet.count = 0
  BY DEF Init, NoPacket
<1>3. op = "none" /\ alive = FALSE
  BY Zenon DEF Init, SockInit
<1>4. TypeOK
  <2>1. ambiguous \in BOOLEAN /\ asked \subseteq Requests /\ got \subseteq {0, 1}
    BY <1>2, Zenon
  <2>2. (Running <=> pc \in {"connect", "write", "fill"}) /\ (alive <=> pc # "none")
    BY <1>2, <1>3 DEF Running
  <2> QED BY <1>1, <1>2, <2>1, <2>2 DEF TypeOK, SockInv
<1>5. NetOK
  BY <1>2, EmptySeq DEF NetOK
<1>6. Ours
  BY <1>2 DEF Ours, Fresh, Nothing, Awaited, InBody
<1> QED BY <1>1, <1>4, <1>5, <1>6 DEF IInv

(* Steps that move no data.                                                *)
LEMMA QuietKeeps ==
    ASSUME IInv, SockInv',
           UNCHANGED <<parser, result, buffer, id, filling, net, ghosts, alive>>,
           op' = "none" <=> op = "none",
           (op' = "done" <=> op = "done") \/ pc = "connect"
    PROVE  IInv'
<1>1. UNCHANGED <<proto, pc, part, cmd, code, body, result, buffer, id, packet, place,
                  count, asked, wire, served, req, got, ambiguous>>
  BY DEF parser, filling, net, ghosts
<1>2. TypeOK'
  <2>1. SockTypeOK'
    BY DEF SockInv
  <2>2. (Running <=> pc \in {"connect", "write", "fill"})'
    BY <1>1, Zenon DEF IInv, TypeOK, Running
  <2>3. (alive <=> pc # "none")'
    BY <1>1, Zenon DEF IInv, TypeOK
  <2> QED BY <1>1, <2>1, <2>2, <2>3, Zenon DEF IInv, TypeOK
<1>3. NetOK'
  BY <1>1 DEF IInv, NetOK
<1>4. /\ Filled' <=> Filled
      /\ (pc = "write" /\ op = "done")' <=> (pc = "write" /\ op = "done")
  BY <1>1 DEF Filled
<1>5. /\ Fresh' = Fresh /\ Nothing' = Nothing /\ CodeTells' = CodeTells /\ Expected' = Expected
      /\ InBody' = InBody
  BY <1>1 DEF Fresh, Nothing, CodeTells, Expected, InBody
<1>6. Unserved => Unserved'
  BY <1>1, <1>4, <1>5 DEF Unserved
<1>7. ASSUME NEW a \in Seq(Units), NEW b \in Seq(Units), Answer(a, b)
      PROVE  Answer(a, b)'
  <2>1. Progress(a, b)'
    BY <1>1, <1>4, <1>5, <1>7 DEF Answer, Progress, Holds
  <2> QED BY <1>1, <1>7, <2>1 DEF Answer
<1>8. Awaited' => Awaited
  BY <1>1, <1>4 DEF Awaited
<1>9. Ours => Ours'
  BY <1>1, <1>4, <1>5, <1>6, <1>7, <1>8 DEF Ours
<1> QED BY <1>1, <1>2, <1>3, <1>9 DEF IInv

(* The deadline, the connect and a broken socket change the operation.     *)
LEMMA QuietSteps ==
    ASSUME IInv, Next, RunDeadline \/ Arrives \/ Broken \/ TimePasses
    PROVE  IInv'
<1>1. UNCHANGED <<parser, result, buffer, id, filling, net, ghosts, alive>>
  BY Zenon DEF RunDeadline, HandleDeadline, Arrives, Broken, TimePasses, CallBecomes,
               Tick, DeadlinePasses, socket
<1>2. \/ op' = op
      \/ op = "pending" /\ op' = "failed"
      \/ op = "pending" /\ op' = "done" /\ pc = "connect"
  BY Zenon DEF RunDeadline, HandleDeadline, Arrives, Broken, TimePasses, CallBecomes,
               Tick, DeadlinePasses
<1> QED BY <1>1, <1>2, SockKept, QuietKeeps

(* Nothing is left of a dropped connection.                                *)
LEMMA DropKeeps ==
    ASSUME IInv, Next, Drop, Forget, UNCHANGED <<proto, id, req>>,
           result' \in {"none", "yes", "no", "throws", "timeout", "io_error"}
    PROVE  IInv'
<1>1. /\ pc' = "none" /\ part' = "header" /\ cmd' = "none" /\ code' = "none"
      /\ body' = 0 /\ buffer' = <<>> /\ asked' = {} /\ wire' = {} /\ got' = {}
      /\ place' = 0 /\ packet' = NoPacket
  BY DEF Drop, Forget
<1>2. op' = "none" /\ alive' = FALSE /\ ambiguous' = FALSE
  BY Zenon DEF Drop, Destroy
<1>3. TypeOK'
  <2>1. ambiguous' \in BOOLEAN /\ asked' \subseteq Requests /\ got' \subseteq {0, 1}
    BY <1>1, <1>2, Zenon
  <2> QED BY <1>1, <1>2, <2>1, SockKept DEF IInv, TypeOK, Running
<1>4. NetOK'
  BY <1>1, EmptySeq DEF NetOK, NoPacket
<1>5. Ours'
  BY <1>1 DEF Ours, Fresh, Nothing, Awaited, InBody
<1> QED BY <1>3, <1>4, <1>5, SockKept DEF IInv

(* A throw drops it.                                                       *)
LEMMA ThrowKeeps ==
    ASSUME IInv, Next, NEW kind \in {"timeout", "io_error"}, Throw(kind)
    PROVE  IInv'
<1>1. Drop /\ Forget /\ result' = kind /\ UNCHANGED <<proto, id, req>>
  BY DEF Throw
<1> QED BY <1>1, DropKeeps

(* Every error throws.                                                     *)
LEMMA Throws ==
    ASSUME IInv, Next,
           PartialInput \/ Failed \/ PacketRefused \/ (Connected /\ ~open)
    PROVE  IInv'
<1>1. Kind \in {"timeout", "io_error"}
  BY DEF Kind
<1>2. \E kind \in {"timeout", "io_error"} : Throw(kind)
  BY <1>1, Zenon DEF PartialInput, Failed, PacketRefused, Connected
<1> QED BY <1>2, ThrowKeeps

(* A new connection, and one that is made.                                 *)
LEMMA ConnectSteps ==
    ASSUME IInv, Next, Open \/ (Connected /\ open)
    PROVE  IInv'
<1>1. /\ \/ pc = "none" /\ pc' = "connect" /\ op' = "pending"
         \/ pc = "connect" /\ pc' = "idle" /\ op' = "none"
      /\ result' = "none" \/ result' = result
      /\ UNCHANGED <<proto, part, cmd, code, body, buffer, id, packet, place, count,
                     asked, wire, req, got, ambiguous>>
  <2>1. CASE Open
    BY <2>1, Zenon DEF Open, Connect, filling, net, ghosts
  <2>2. CASE Connected /\ open
    BY <2>2, Zenon DEF Connected, End, socket, filling, net, ghosts
  <2> QED BY <2>1, <2>2
<1>2. TypeOK'
  <2>1. alive'
    <3>1. pc = "connect" => alive
      BY Zenon DEF IInv, TypeOK
    <3>2. CASE Open
      BY <3>2, Zenon DEF Open, Connect
    <3>3. CASE Connected /\ open
      BY <3>1, <3>3, Zenon DEF Connected, End, socket
    <3> QED BY <3>2, <3>3
  <2>2. ambiguous' \in BOOLEAN
    BY <1>1, Zenon DEF IInv, TypeOK
  <2> QED BY <1>1, <2>1, <2>2, SockKept DEF IInv, TypeOK, Running
<1>3. NetOK'
  BY <1>1 DEF IInv, NetOK
<1>4. Ours => Ours'
  BY <1>1 DEF Ours, Fresh, Nothing, Awaited, InBody
<1> QED BY <1>1, <1>2, <1>3, <1>4, SockKept DEF IInv

(* An operation begins on a connection and changes nothing else.           *)
LEMMA Begun ==
    ASSUME NEW timeout \in Nat, Begin(timeout)
    PROVE  alive' = alive /\ op = "none" /\ op' \in {"pending", "failed"}
  BY Zenon DEF Begin, StartCall, socket

(* The id of a request is drawn: unless it is in use, all that is received *)
(* with it from now on is an answer to this request.                       *)
LEMMA WriteKeeps ==
    ASSUME IInv, Next, Write
    PROVE  IInv'
<1>1. /\ pc = "idle" /\ pc' = "write" /\ cmd' \in Calls /\ id' \in PacketIds
      /\ result' = "none" /\ req' = 1 - req /\ got' = {}
      /\ asked' = {r \in asked : r.of = req}
      /\ UNCHANGED <<proto, part, code, body, buffer, packet, place, count>>
  BY DEF Write, filling
<1>2. wire' \subseteq {d \in wire : d.of = req}
  BY DEF Write
<1>3. /\ ambiguous' \in BOOLEAN
      /\ ~ambiguous' => ~ambiguous /\ \A d \in asked' \cup wire' : d.id # id'
  BY DEF Write
<1>4. alive' = alive /\ op' \in {"pending", "failed"}
  BY Begun, TimeoutAssumption, Zenon DEF Write
<1>5. TypeOK'
  <2>1. alive'
    BY <1>1, <1>4, Zenon DEF IInv, TypeOK
  <2>2. asked' \subseteq Requests
    BY <1>1 DEF IInv, TypeOK
  <2> QED BY <1>1, <1>3, <1>4, <2>1, <2>2, SockKept DEF IInv, TypeOK, Running
<1>6. NetOK'
  BY <1>1, <1>2, BoundAssumption DEF IInv, NetOK
<1>7. \A d \in wire' \cup asked' : d.of # req'
  <2>1. \A d \in wire' \cup asked' : d.of = req
    BY <1>1, <1>2
  <2>2. req # req'
    BY <1>1 DEF IInv, TypeOK
  <2> QED BY <2>1, <2>2
<1>8. Ours => Nothing'
  BY <1>1 DEF Ours, Nothing
<1>9. ~ambiguous' => Ours'
  BY <1>1, <1>3, <1>4, <1>7, <1>8 DEF IInv, Ours, Fresh, Awaited, InBody
<1> QED BY <1>5, <1>6, <1>9, SockKept DEF IInv

(* The request leaves.                                                     *)
LEMMA SentKeeps ==
    ASSUME IInv, Next, Sent
    PROVE  IInv'
<1>1. /\ pc = "write" /\ op = "pending" /\ op' = "done"
      /\ UNCHANGED <<proto, pc, part, cmd, code, body, result, buffer, id, packet, place,
                     count, wire, served, req, got, ambiguous, alive>>
  BY DEF Sent, CallBecomes, parser, filling, ghosts, socket
<1>2. asked' = asked \cup {[of |-> req, id |-> id, cmd |-> cmd]}
  BY DEF Sent
<1>3. TypeOK'
  <2>1. cmd \in Calls
    BY <1>1 DEF IInv, NetOK
  <2>2. asked' \subseteq Requests
    BY <1>2, <2>1 DEF IInv, TypeOK, Requests
  <2>3. ambiguous' \in BOOLEAN
    BY <1>1, Zenon DEF IInv, TypeOK
  <2>4. (alive <=> pc # "none")'
    BY <1>1, Zenon DEF IInv, TypeOK
  <2> QED BY <1>1, <2>2, <2>3, <2>4, SockKept DEF IInv, TypeOK, Running
<1>4. NetOK'
  BY <1>1 DEF IInv, NetOK
<1>5. ASSUME Ours PROVE Ours'
  <2>1. /\ Nothing /\ Fresh /\ got \subseteq {req}
        /\ \A d \in wire \cup asked : d.of # req
    BY <1>1, <1>5 DEF Ours
  <2>2. Fresh'
    BY <1>1, <1>2, <2>1 DEF Fresh
  <2>3. Nothing'
    BY <1>1, <2>1 DEF Nothing
  <2>4. Unserved'
    BY <1>1, <1>2, <2>1, <2>3 DEF Unserved, Filled
  <2> QED BY <1>1, <2>1, <2>2, <2>3, <2>4 DEF Ours, InBody
<1> QED BY <1>1, <1>3, <1>4, <1>5, SockKept DEF IInv

(* The caller goes on to read.                                             *)
LEMMA WrittenKeeps ==
    ASSUME IInv, Next, Written
    PROVE  IInv'
<1>1. /\ pc = "write" /\ op = "done" /\ pc' = "written" /\ op' = "none"
      /\ UNCHANGED <<proto, part, cmd, code, body, result, buffer, id, packet, place,
                     count, asked, wire, served, req, got, ambiguous, alive>>
  BY DEF Written, End, socket, filling, net, ghosts
<1>2. TypeOK'
  <2>1. alive' /\ ambiguous' \in BOOLEAN
    BY <1>1, Zenon DEF IInv, TypeOK
  <2> QED BY <1>1, <2>1, SockKept DEF IInv, TypeOK, Running
<1>3. NetOK'
  BY <1>1 DEF IInv, NetOK
<1>4. ASSUME Ours PROVE Ours'
  <2>1. /\ Nothing /\ Fresh /\ got \subseteq {req}
        /\ Unserved \/ \E a, b \in Seq(Units) : Answer(a, b)
    BY <1>1, <1>4 DEF Ours, Awaited
  <2>2. Nothing' /\ Fresh' /\ ~Filled /\ ~Filled'
    BY <1>1, <2>1 DEF Nothing, Fresh, Filled
  <2>3. Unserved => Unserved'
    BY <1>1, <2>2 DEF Unserved
  <2>4. ASSUME NEW a \in Seq(Units), NEW b \in Seq(Units), Answer(a, b)
        PROVE  Answer(a, b)'
    BY <1>1, <2>2, <2>4 DEF Answer, Progress
  <2> QED BY <1>1, <2>1, <2>2, <2>3, <2>4 DEF Ours, InBody
<1> QED BY <1>1, <1>2, <1>3, <1>4, SockKept DEF IInv

(* Nothing is buffered when a header is asked for.                         *)
LEMMA ReadHeaderKeeps ==
    ASSUME IInv, Next, ReadHeader
    PROVE  IInv'
<1>1. /\ pc = "written" /\ part' = "header" /\ body' = 0
      /\ pc' = IF buffer = <<>> THEN "receive" ELSE "filled"
      /\ UNCHANGED <<proto, cmd, code, result, buffer, id, packet, place,
                     count, asked, wire, served, req, got, ambiguous, alive, op>>
  BY DEF ReadHeader, Read, sock, socket, filling, net, ghosts
<1>2. TypeOK'
  <2>1. alive' /\ ambiguous' \in BOOLEAN
    BY <1>1, Zenon DEF IInv, TypeOK
  <2> QED BY <1>1, <2>1, SockKept DEF IInv, TypeOK, Running
<1>3. NetOK'
  BY <1>1 DEF IInv, NetOK
<1>4. ASSUME Ours PROVE Ours'
  <2>1. /\ Fresh /\ got \subseteq {req}
        /\ Unserved \/ \E a, b \in Seq(Units) : Answer(a, b)
    BY <1>1, <1>4 DEF Ours, Awaited
  <2>2. Fresh' /\ ~Filled /\ ~Filled'
    BY <1>1, <2>1 DEF Fresh, Filled
  <2>3. Nothing
    BY <1>1, <2>1, <2>2 DEF Unserved, Answer, Progress
  <2>4. pc' = "receive" /\ Nothing'
    BY <1>1, <2>3 DEF Nothing
  <2>5. Unserved => Unserved'
    BY <1>1, <2>2, <2>4 DEF Unserved
  <2>6. ASSUME NEW a \in Seq(Units), NEW b \in Seq(Units), Answer(a, b)
        PROVE  Answer(a, b)'
    BY <1>1, <2>2, <2>4, <2>6 DEF Answer, Progress, Nothing
  <2> QED BY <1>1, <2>1, <2>2, <2>4, <2>5, <2>6 DEF Ours, InBody
<1> QED BY <1>1, <1>2, <1>3, <1>4, SockKept DEF IInv

(* The next datagram is waited for.                                        *)
LEMMA ReceiveKeeps ==
    ASSUME IInv, Next, Receive
    PROVE  IInv'
<1>1. /\ pc = "receive" /\ pc' = "fill" /\ Begin(ReadTimeout)
      /\ UNCHANGED <<proto, part, cmd, code, body, result, buffer, id, packet, place,
                     count, asked, wire, served, req, got, ambiguous>>
  BY DEF Receive, filling, net, ghosts
<1>2. alive' = alive /\ op' \in {"pending", "failed"}
  BY <1>1, Begun, TimeoutAssumption
<1>3. TypeOK'
  <2>1. alive' /\ ambiguous' \in BOOLEAN
    BY <1>1, <1>2, Zenon DEF IInv, TypeOK
  <2> QED BY <1>1, <1>2, <2>1, SockKept DEF IInv, TypeOK, Running
<1>4. NetOK'
  BY <1>1 DEF IInv, NetOK
<1>5. ASSUME Ours PROVE Ours'
  <2>1. /\ Fresh /\ got \subseteq {req}
        /\ Unserved \/ \E a, b \in Seq(Units) : Answer(a, b)
    BY <1>1, <1>5 DEF Ours, Awaited
  <2>2. Fresh' /\ ~Filled /\ ~Filled'
    BY <1>1, <1>2, <2>1 DEF Fresh, Filled
  <2>3. Unserved => Unserved'
    BY <1>1, <2>2 DEF Unserved, Nothing
  <2>4. ASSUME NEW a \in Seq(Units), NEW b \in Seq(Units), Answer(a, b)
        PROVE  Answer(a, b)'
    <3>1. Holds(a)' = Holds(a)
      BY <1>1 DEF Holds
    <3> QED BY <1>1, <2>2, <2>4, <3>1 DEF Answer, Progress
  <2> QED BY <1>1, <2>1, <2>2, <2>3, <2>4 DEF Ours, InBody
<1> QED BY <1>1, <1>3, <1>4, <1>5, SockKept DEF IInv

(* The body has come with its header.                                      *)
LEMMA ReadBodyKeeps ==
    ASSUME IInv, Next, ReadBody
    PROVE  IInv'
<1>1. /\ pc = "parsed" /\ part' = "body" /\ body' = body /\ body > 0
      /\ pc' = IF buffer = <<>> THEN "receive" ELSE "filled"
      /\ UNCHANGED <<proto, cmd, code, result, buffer, id, packet, place,
                     count, asked, wire, served, req, got, ambiguous, alive, op>>
  BY DEF ReadBody, Read, sock, socket, filling, net, ghosts
<1>2. TypeOK'
  <2>1. alive' /\ ambiguous' \in BOOLEAN
    BY <1>1, Zenon DEF IInv, TypeOK
  <2> QED BY <1>1, <2>1, SockKept DEF IInv, TypeOK, Running
<1>3. NetOK'
  BY <1>1 DEF IInv, NetOK
<1>4. ASSUME Ours PROVE Ours'
  <2>1. /\ Fresh /\ got \subseteq {req} /\ CodeTells
        /\ body <= Len(buffer)
        /\ Understood(code) => body = Len(buffer)
    BY <1>1, <1>4 DEF Ours, InBody
  <2>2. Fresh' /\ CodeTells'
    BY <1>1, <2>1 DEF Fresh, CodeTells
  <2>3. pc' = "filled"
    <3>1. body \in Nat /\ (buffer = <<>> => Len(buffer) = 0)
      BY LenIs DEF IInv, TypeOK, NetOK
    <3> QED BY <1>1, <2>1, <3>1
  <2> QED BY <1>1, <2>1, <2>2, <2>3 DEF Ours, InBody, Awaited
<1> QED BY <1>1, <1>2, <1>3, <1>4, SockKept DEF IInv

(* What is taken from the front of the buffer is of the current request.   *)
LEMMA TakeIs ==
    ASSUME NEW requests, buffer \in Seq(Pieces(requests)), got \subseteq requests,
           NEW n \in 0 .. Len(buffer), Take(n)
    PROVE  /\ buffer' \in Seq(Pieces(requests))
           /\ Len(buffer') = Len(buffer) - n
           /\ n = Len(buffer) => buffer' = <<>>
           /\ got' \subseteq requests
<1>1. Len(buffer) \in Nat /\ \A i \in 1 .. n : buffer[i] \in Pieces(requests)
  BY LenIs
<1>2. \A i \in 1 .. n : buffer[i].of \in requests
  BY <1>1 DEF Pieces
<1>3. got' \subseteq requests
  BY <1>2 DEF Take
<1>4. buffer' = SubSeq(buffer, n + 1, Len(buffer))
  BY DEF Take
<1> QED BY <1>3, <1>4, Consumed

(* All that was sent has been taken where the header was understood.       *)
LEMMA AnsweredKeeps ==
    ASSUME IInv, Next, NoBody \/ TakeBody
    PROVE  IInv'
<1>1. /\ InBody /\ pc' = "answered" /\ body <= Len(buffer)
      /\ UNCHANGED <<proto, part, cmd, code, body, result, id, packet, place,
                     count, asked, wire, served, req, ambiguous, alive, op>>
  <2>1. CASE NoBody
    <3>1. Len(buffer) \in Nat
      BY LenIs DEF IInv, NetOK
    <3> QED BY <2>1, <3>1 DEF NoBody, InBody, sock, socket, filling, net, ghosts
  <2>2. CASE TakeBody
    BY <2>2 DEF TakeBody, InBody, sock, socket, filling, net
  <2> QED BY <2>1, <2>2
<1>2. body \in 0 .. Len(buffer) /\ Len(buffer) \in Nat
  <2>1. Len(buffer) \in Nat
    BY LenIs DEF IInv, NetOK
  <2> QED BY <1>1, <2>1 DEF IInv, TypeOK
<1>3. ASSUME NEW requests, buffer \in Seq(Pieces(requests)), got \subseteq requests
      PROVE  /\ buffer' \in Seq(Pieces(requests))
             /\ body = Len(buffer) => buffer' = <<>>
             /\ got' \subseteq requests
  <2>1. CASE NoBody
    <3>1. UNCHANGED <<buffer, got>> /\ body = 0
      BY <2>1 DEF NoBody, ghosts
    <3> QED BY <1>3, <3>1, EmptySeq
  <2>2. CASE TakeBody
    <3>1. Take(body)
      BY <2>2 DEF TakeBody
    <3> QED BY <1>2, <1>3, <3>1, TakeIs
  <2> QED BY <2>1, <2>2
<1>4. TypeOK'
  <2>1. alive' /\ ambiguous' \in BOOLEAN
    BY <1>1, Zenon DEF IInv, TypeOK, InBody
  <2>2. got' \subseteq {0, 1}
    BY <1>3 DEF IInv, TypeOK, NetOK
  <2>3. op = "none"
    BY <1>1 DEF IInv, TypeOK, Running, InBody
  <2> QED BY <1>1, <2>1, <2>2, <2>3, SockKept DEF IInv, TypeOK, Running
<1>5. NetOK'
  BY <1>1, <1>3 DEF IInv, NetOK, TypeOK, InBody
<1>6. ASSUME Ours PROVE Ours'
  <2>1. /\ Fresh /\ got \subseteq {req} /\ CodeTells
        /\ Understood(code) => body = Len(buffer)
    BY <1>1, <1>6 DEF Ours
  <2>2. Fresh'
    BY <1>1, <2>1 DEF Fresh
  <2>3. CodeTells' /\ got' \subseteq {req'}
    BY <1>1, <1>3, <2>1 DEF CodeTells
  <2>4. Understood(code) => buffer' = <<>>
    BY <1>3, <2>1 DEF CodeTells
  <2> QED BY <1>1, <2>2, <2>3, <2>4 DEF Ours, InBody, Awaited
<1> QED BY <1>1, <1>4, <1>5, <1>6, SockKept DEF IInv

(* The result is told, the connection kept or dropped.                     *)
LEMMA ReturnKeeps ==
    ASSUME IInv, Next, Return
    PROVE  IInv'
<1>1. /\ pc = "answered" /\ Forget /\ result' = Told(cmd, code)
      /\ UNCHANGED <<proto, id, req, served>>
  BY DEF Return
<1>2. result' \in {"yes", "no", "throws"}
  BY <1>1 DEF Told
<1>3. CASE Understood(code)
  <2>1. pc' = "idle" /\ UNCHANGED <<alive, op, buffer, asked, wire, got, ambiguous>>
    BY <1>3 DEF Return, sock, socket
  <2>2. /\ cmd' = "none" /\ code' = "none" /\ body' = 0 /\ part' = "header"
        /\ packet' = NoPacket /\ place' = 0 /\ count' = 0
    BY <1>1 DEF Forget
  <2>3. TypeOK'
    <3>1. alive' /\ ambiguous' \in BOOLEAN
      BY <1>1, <2>1, Zenon DEF IInv, TypeOK
    <3>2. op' = "none"
      BY <1>1, <2>1 DEF IInv, TypeOK, Running
    <3> QED BY <1>1, <1>2, <2>1, <2>2, <3>1, <3>2, SockKept DEF IInv, TypeOK, Running
  <2>4. NetOK'
    BY <2>1, <2>2 DEF IInv, NetOK, NoPacket
  <2>5. Ours => Ours'
    BY <1>1, <1>3, <2>1, <2>2 DEF Ours, Fresh, Nothing, Awaited, InBody
  <2> QED BY <2>1, <2>3, <2>4, <2>5, SockKept DEF IInv
<1>4. CASE ~Understood(code)
  <2>1. Drop
    BY <1>4 DEF Return
  <2> QED BY <1>1, <1>2, <2>1, DropKeeps
<1> QED BY <1>3, <1>4

(* Without its delimiter a line keeps all but an empty word.               *)
LEMMA BareIs ==
    ASSUME NEW unit \in Units
    PROVE  /\ unit.kind # "line" => Bare(unit) = unit
           /\ unit.kind = "line" =>
                 /\ Bare(unit).kind = "line"
                 /\ Bare(unit).bytes = unit.bytes
                 /\ unit.bytes \in Nat \cup {NotANumber}
                 /\ unit.word # "\r\n" => Bare(unit) = unit
                 /\ unit.word = "\r\n" => Bare(unit).word = ""
           /\ unit.kind = "head" => unit.body \in Nat
  BY DEF Bare, Units

(* Whatever is at the front of the buffer is a header of some kind.        *)
LEMMA HeaderTyped ==
    ASSUME cmd \in Commands, NEW unit \in Units
    PROVE  LET header == DeserializeHeader(proto, cmd, Bare(unit))
           IN  header.code \in DOMAIN Value /\ header.bytes \in Nat
<1> DEFINE u == Bare(unit)
<1>1. u.kind = "line" => u.bytes \in Nat \cup {NotANumber}
  BY BareIs
<1>2. u.kind = "head" => u.body \in Nat
  BY BareIs
<1> HIDE DEF u
<1>3. TxtHeader(cmd, u).code \in DOMAIN Value /\ TxtHeader(cmd, u).bytes \in Nat
  BY <1>1, TxtHeaderTyped
<1>4. BinHeader(cmd, u).code \in DOMAIN Value /\ BinHeader(cmd, u).bytes \in Nat
  BY <1>2, BinHeaderTyped
<1>5. LET header == DeserializeHeader(proto, cmd, u)
      IN  header.code \in DOMAIN Value /\ header.bytes \in Nat
  BY <1>3, <1>4 DEF DeserializeHeader
<1> QED BY <1>5 DEF u

(* To be read without its delimiter changes the meaning of no response.    *)
LEMMA BareMeans ==
    ASSUME proto \in Protocols, cmd \in Commands, NEW outcome, NEW reply,
           Reply(proto, cmd, outcome, reply)
    PROVE  Means(cmd, outcome, DeserializeHeader(proto, cmd, Bare(reply[1])),
                 Len(reply) - 1)
<1> DEFINE unit == reply[1]
           rest == Len(reply) - 1
<1>1. /\ unit \in Units /\ rest \in Nat
      /\ proto = "txt" => unit.kind = "line" /\ (unit.word = "\r\n" => outcome = "garbled")
      /\ Means(cmd, outcome, DeserializeHeader(proto, cmd, unit), rest)
  BY LenIs DEF Reply
<1> HIDE DEF unit, rest
<1>2. CASE Bare(unit) = unit
  BY <1>1, <1>2 DEF unit, rest
<1>3. CASE Bare(unit) # unit
  <2>1. /\ unit.kind = "line" /\ unit.word = "\r\n"
        /\ Bare(unit).kind = "line" /\ Bare(unit).word = ""
    BY <1>1, <1>3, BareIs
  <2>2. CASE proto = "txt"
    <3>1. DeserializeHeader(proto, cmd, Bare(unit)) = Parsed("empty", 0)
      BY <2>1, <2>2, WordsKnown DEF DeserializeHeader, TxtHeader
    <3>2. Tells(cmd, "empty", outcome)
      BY <1>1, <2>1, <2>2, ErrorTold, Codes
    <3> QED BY <1>1, <3>1, <3>2, Codes DEF Means, Parsed, unit, rest
  <2>3. CASE proto = "bin"
    <3>1. DeserializeHeader(proto, cmd, Bare(unit)) = DeserializeHeader(proto, cmd, unit)
      BY <2>1, <2>3 DEF DeserializeHeader, BinHeader
    <3> QED BY <1>1, <3>1 DEF unit, rest
  <2> QED BY <2>2, <2>3 DEF Protocols
<1> QED BY <1>2, <1>3

(* The header is the first unit of the response.                           *)
LEMMA TakeHeaderKeeps ==
    ASSUME IInv, Next, TakeHeader
    PROVE  IInv'
<1> DEFINE header == DeserializeHeader(proto, cmd, Bare(Head(buffer).unit))
<1>1. /\ pc = "filled" /\ part = "header" /\ pc' = "parsed"
      /\ code' = header.code /\ body' = header.bytes
      /\ UNCHANGED <<proto, part, cmd, result, id, packet, place,
                     count, asked, wire, served, req, ambiguous, alive, op>>
  BY DEF TakeHeader, sock, socket, filling, net
<1>2. PICK n \in HeaderEnds : (\A m \in HeaderEnds : n <= m) /\ Take(n)
  BY DEF TakeHeader
<1>3. /\ buffer \in Seq(Pieces({0, 1})) /\ Len(buffer) \in Nat
      /\ DOMAIN buffer = 1 .. Len(buffer)
      /\ cmd \in Commands /\ got \subseteq {0, 1} /\ proto \in Protocols
  BY <1>1, LenIs DEF IInv, NetOK, TypeOK
<1>4. n \in 1 .. Len(buffer)
  BY <1>2, <1>3 DEF HeaderEnds
<1>5. Head(buffer) = buffer[1] /\ buffer[1].unit \in Units
  <2>1. buffer[1] \in Pieces({0, 1})
    BY <1>3, <1>4, LenIs
  <2> QED BY <1>3, <1>4, <2>1, LenIs DEF Pieces
<1>6. header.code \in DOMAIN Value /\ header.bytes \in Nat
  BY <1>3, <1>5, HeaderTyped
<1> HIDE DEF header
<1>7. buffer' \in Seq(Pieces({0, 1})) /\ got' \subseteq {0, 1}
  <2>1. n \in 0 .. Len(buffer) /\ Take(n)
    BY <1>2, <1>4
  <2> QED BY <1>3, <2>1, TakeIs
<1>8. TypeOK'
  <2>1. alive' /\ ambiguous' \in BOOLEAN
    BY <1>1, Zenon DEF IInv, TypeOK
  <2> QED BY <1>1, <1>6, <1>7, <2>1, SockKept DEF IInv, TypeOK, Running
<1>9. NetOK'
  BY <1>1, <1>7 DEF IInv, NetOK
<1>10. ASSUME Ours PROVE Ours'
  <2>1. Fresh /\ got \subseteq {req} /\ \E a, b \in Seq(Units) : Answer(a, b)
    BY <1>1, <1>10 DEF Ours, Awaited, Unserved
  <2>2. PICK a \in Seq(Units), b \in Seq(Units) : Answer(a, b)
    BY <2>1
  <2> DEFINE whole == a \o b
  <2>3. /\ Reply(proto, cmd, served, whole) /\ Holds(whole)
        /\ \A r \in asked : r.of # req
    BY <1>1, <2>2 DEF Answer, Progress
  <2> HIDE DEF whole
  <2>4. /\ Len(whole) > 0 /\ whole # <<>>
        /\ proto = "txt" => whole[1].kind = "line"
    BY <2>3, EmptySeq DEF Reply
  <2>5. /\ buffer \in Seq(Pieces({req})) /\ Len(buffer) = Len(whole)
        /\ buffer[1].unit = whole[1]
    BY <2>3, <2>4 DEF Holds
  <2>6. n = 1
    <3>1. 1 \in HeaderEnds
      BY <1>2, <1>3, <1>4, <2>4, <2>5 DEF HeaderEnds
    <3> QED BY <1>2, <1>4, <3>1
  <2>7. /\ buffer' \in Seq(Pieces({req})) /\ Len(buffer') = Len(whole) - 1
        /\ got' \subseteq {req}
    <3>1. 1 \in 0 .. Len(buffer) /\ Take(1)
      BY <1>2, <1>3, <1>4, <2>6
    <3> QED BY <2>1, <2>5, <3>1, TakeIs
  <2>8. Means(cmd, served, header, Len(whole) - 1)
    BY <1>3, <1>5, <2>3, <2>5, BareMeans DEF header
  <2>9. Fresh'
    BY <1>1, <2>1 DEF Fresh
  <2>10. CodeTells'
    BY <1>1, <2>3, <2>7, <2>8 DEF CodeTells, Means
  <2>11. body' <= Len(buffer') /\ (Understood(code') => body' = Len(buffer'))
    BY <1>1, <2>7, <2>8 DEF Means
  <2> QED BY <1>1, <2>7, <2>9, <2>10, <2>11 DEF Ours, Awaited, InBody
<1> QED BY <1>1, <1>8, <1>9, <1>10, SockKept DEF IInv

(* A datagram that is expected is the next of the response.                *)
LEMMA PacketAcceptedKeeps ==
    ASSUME IInv, Next, PacketAccepted
    PROVE  IInv'
<1>1. /\ pc = "fill" /\ op = "done" /\ Expected /\ op' = "none"
      /\ packet' = NoPacket
      /\ IF place + 1 < packet.count
         THEN pc' = "receive" /\ place' = place + 1 /\ count' = packet.count
         ELSE pc' = "filled" /\ place' = 0 /\ count' = 0
      /\ UNCHANGED <<proto, part, cmd, code, body, result, buffer, id,
                     asked, wire, served, req, got, ambiguous, alive>>
  BY DEF PacketAccepted, End, socket, net, ghosts
<1>2. packet.count \in 0 .. 2 /\ place \in Nat
  BY DEF IInv, NetOK
<1>3. TypeOK'
  <2>1. alive' /\ ambiguous' \in BOOLEAN
    BY <1>1, Zenon DEF IInv, TypeOK
  <2>2. place' < 2 /\ (place' = 0 \/ place' < count')
    BY <1>1, <1>2
  <2> QED BY <1>1, <2>1, <2>2, SockKept DEF IInv, TypeOK, Running
<1>4. NetOK'
  BY <1>1, <1>2 DEF IInv, NetOK, NoPacket
<1>5. ASSUME Ours PROVE Ours'
  <2>1. Fresh /\ got \subseteq {req} /\ \E a, b \in Seq(Units) : Answer(a, b)
    BY <1>1, <1>5 DEF Ours, Awaited, Unserved, Filled
  <2>2. PICK a \in Seq(Units), b \in Seq(Units) : Answer(a, b)
    BY <2>1
  <2>3. /\ packet.count = IF b = <<>> THEN 1 ELSE 2
        /\ IF place = 0 THEN Holds(a) ELSE b # <<>> /\ Holds(a \o b)
        /\ part = "header"
    BY <1>1, <2>2 DEF Answer, Progress, Filled
  <2>4. \A units : Holds(units)' <=> Holds(units)
    BY <1>1 DEF Holds
  <2>5. b = <<>> => a \o b = a
    BY ConcatEmptySeq
  <2>6. Progress(a, b)'
    <3>1. CASE place + 1 < packet.count
      BY <1>1, <1>2, <2>3, <2>4, <3>1 DEF Progress, Filled
    <3>2. CASE ~(place + 1 < packet.count)
      <4>1. Holds(a \o b)
        <5>1. CASE place = 0
          <6>1. b = <<>>
            BY <2>3, <3>2, <5>1
          <6>2. a \o b = a
            BY <2>5, <6>1
          <6> QED BY <2>3, <5>1, <6>2
        <5>2. CASE place # 0
          BY <2>3, <5>2
        <5> QED BY <5>1, <5>2
      <4> QED BY <1>1, <2>4, <3>2, <4>1 DEF Progress, Filled
    <3> QED BY <3>1, <3>2
  <2>7. Answer(a, b)'
    BY <1>1, <2>2, <2>6 DEF Answer
  <2>8. Fresh'
    BY <1>1, <2>1 DEF Fresh
  <2> QED BY <1>1, <2>1, <2>3, <2>7, <2>8 DEF Ours, InBody
<1> QED BY <1>1, <1>3, <1>4, <1>5, SockKept DEF IInv

(* A datagram is appended whoever sent it; only the next of the current    *)
(* response will be accepted.                                              *)
LEMMA ReceivedKeeps ==
    ASSUME IInv, Next, Received
    PROVE  IInv'
<1>1. /\ pc = "fill" /\ op = "pending" /\ op' = "done"
      /\ UNCHANGED <<proto, pc, part, cmd, code, body, result, id, place, count,
                     asked, served, req, got, ambiguous, alive>>
  BY DEF Received, CallBecomes, parser, socket, ghosts
<1>2. PICK d \in wire :
         /\ packet' = Header(d)
         /\ buffer' = buffer \o [i \in DOMAIN d.units |->
                                    [of |-> d.of, unit |-> d.units[i]]]
         /\ wire' \in {wire, wire \ {d}}
  BY DEF Received
<1> DEFINE units == d.units
           new == [i \in DOMAIN units |-> [of |-> d.of, unit |-> units[i]]]
<1>3. d \in Datums /\ buffer \in Seq(Pieces({0, 1}))
  BY DEF IInv, NetOK
<1>4. /\ packet'.id = d.id /\ packet'.seq = d.seq /\ packet'.count = d.count
      /\ d.of \in {0, 1} /\ d.seq \in {0, 1} /\ d.count \in {1, 2} /\ units \in Seq(Units)
  BY <1>2, <1>3 DEF Header, Datums
<1>5. /\ new \in Seq(Pieces({d.of})) /\ Len(new) = Len(units)
      /\ units # <<>> => new[1].unit = units[1]
  BY <1>4, StampIs
<1> HIDE DEF new
<1>6. buffer' = buffer \o new
  BY <1>2 DEF new
<1> HIDE DEF units
<1>7. TypeOK'
  <2>1. (alive <=> pc # "none")' /\ ambiguous' \in BOOLEAN
    BY <1>1, Zenon DEF IInv, TypeOK
  <2> QED BY <1>1, <2>1, SockKept DEF IInv, TypeOK, Running
<1>8. NetOK'
  <2>1. new \in Seq(Pieces({0, 1}))
    <3>1. Pieces({d.of}) \subseteq Pieces({0, 1})
      BY <1>4 DEF Pieces
    <3> QED BY <1>5, <3>1, SeqMonotonic
  <2>2. buffer' \in Seq(Pieces({0, 1}))
    BY <1>3, <1>6, <2>1, Joined
  <2> QED BY <1>1, <1>2, <1>4, <2>2 DEF IInv, NetOK
<1>9. ASSUME Ours PROVE Ours'
  <2>1. /\ Fresh /\ got \subseteq {req} /\ ~Filled /\ Filled'
        /\ Unserved \/ \E a, b \in Seq(Units) : Answer(a, b)
    BY <1>1, <1>9 DEF Ours, Awaited, Filled
  <2>2. Fresh'
    BY <1>1, <1>2, <2>1 DEF Fresh
  <2>3. Unserved => Unserved'
    <3> SUFFICES ASSUME Unserved PROVE Unserved'
      OBVIOUS
    <3>1. d.of # req /\ d.id # id
      BY <2>1 DEF Unserved, Fresh
    <3>2. ~Expected'
      BY <1>1, <1>4, <3>1 DEF Expected
    <3> QED BY <1>1, <1>2, <2>1, <3>2 DEF Unserved
  <2>4. ASSUME NEW a \in Seq(Units), NEW b \in Seq(Units), Answer(a, b)
        PROVE  Answer(a, b)'
    <3>1. /\ a # <<>> /\ part = "header"
          /\ IF place = 0 THEN buffer = <<>> ELSE b # <<>> /\ Holds(a)
      BY <1>1, <2>1, <2>4 DEF Answer, Progress
    <3>2. ASSUME Expected'
          PROVE  /\ packet'.count = IF b = <<>> THEN 1 ELSE 2
                 /\ IF place = 0 THEN Holds(a)' ELSE b # <<>> /\ Holds(a \o b)'
      <4>1. d.id = id /\ d.seq = place
        BY <1>1, <1>4, <3>2 DEF Expected
      <4>2. d.of = req /\ Of(d, a, b)
        BY <2>1, <2>4, <4>1 DEF Fresh, Answer
      <4>3. CASE place = 0
        <5>1. units = a
          BY <4>1, <4>2, <4>3 DEF Of, units
        <5>2. buffer' = new
          BY <1>5, <1>6, <3>1, <4>3, ConcatEmptySeq
        <5>3. Holds(a)'
          BY <1>1, <1>5, <4>2, <5>1, <5>2 DEF Holds
        <5> QED BY <1>4, <4>2, <4>3, <5>3 DEF Of
      <4>4. CASE place # 0
        <5>1. units = b /\ b # <<>> /\ Holds(a)
          BY <1>4, <3>1, <4>1, <4>2, <4>4 DEF Of, units
        <5>2. /\ buffer \in Seq(Pieces({req})) /\ new \in Seq(Pieces({req}))
              /\ Len(buffer) = Len(a) /\ buffer # <<>> /\ buffer[1].unit = a[1]
          BY <1>5, <3>1, <4>2, <5>1, LenIs, EmptySeq DEF Holds
        <5>3. /\ buffer' \in Seq(Pieces({req})) /\ Len(buffer') = Len(a) + Len(b)
              /\ buffer'[1] = buffer[1]
          <6>1. Len(new) = Len(b)
            BY <1>5, <5>1
          <6>2. /\ buffer \o new \in Seq(Pieces({req}))
                /\ Len(buffer \o new) = Len(buffer) + Len(new)
                /\ (buffer \o new)[1] = buffer[1]
            BY <5>2, Joined
          <6> QED BY <1>6, <5>2, <6>1, <6>2
        <5>4. Len(a \o b) = Len(a) + Len(b) /\ (a \o b)[1] = a[1]
          BY <3>1, Joined
        <5>5. Holds(a \o b)'
          BY <1>1, <5>2, <5>3, <5>4 DEF Holds
        <5> QED BY <1>4, <4>2, <4>4, <5>1, <5>5 DEF Of
      <4> QED BY <4>3, <4>4
    <3>3. Progress(a, b)'
      BY <1>1, <2>1, <3>1, <3>2 DEF Progress
    <3> QED BY <1>1, <1>2, <2>4, <3>3 DEF Answer
  <2> QED BY <1>1, <2>1, <2>2, <2>3, <2>4 DEF Ours, InBody
<1> QED BY <1>1, <1>7, <1>8, <1>9, SockKept DEF IInv

(* The datagrams carry the response to the request.                        *)
Carried(reply, request, datagrams) ==
    \E a, b \in Seq(Units) :
       /\ a # <<>> /\ a \o b = reply
       /\ \A d \in datagrams : /\ d \in Datums /\ Of(d, a, b)
                              /\ d.of = request.of /\ d.id = request.id

(* However a response is split, its datagrams are the parts of it.         *)
LEMMA SplitIs ==
    ASSUME NEW reply, NEW parts, NEW request,
           reply \in Seq(Units), Len(reply) > 0, parts \in Splits(reply),
           request.of \in {0, 1}, request.id \in PacketIds
    PROVE  Carried(reply, request, Datagrams(request, parts))
<1>1. CASE parts = <<reply>>
  <2>1. /\ reply # <<>> /\ reply \o <<>> = reply /\ <<>> \in Seq(Units)
    BY EmptySeq, ConcatEmptySeq
  <2>2. \A d \in Datagrams(request, parts) :
           d = [of |-> request.of, id |-> request.id, seq |-> 0, count |-> 1, units |-> reply]
    BY <1>1 DEF Datagrams
  <2>3. \A d \in Datagrams(request, parts) :
           /\ d \in Datums /\ Of(d, reply, <<>>)
           /\ d.of = request.of /\ d.id = request.id
    BY <2>2 DEF Datums, Of
  <2> QED BY <2>1, <2>3 DEF Carried
<1>2. ASSUME NEW i \in 1 .. Len(reply) - 1,
             parts = <<SubSeq(reply, 1, i), SubSeq(reply, i + 1, Len(reply))>>
      PROVE  Carried(reply, request, Datagrams(request, parts))
  <2> DEFINE a == SubSeq(reply, 1, i)
             b == SubSeq(reply, i + 1, Len(reply))
  <2>1. Len(reply) \in Nat /\ i \in 1 .. Len(reply) /\ i \in 0 .. Len(reply)
    BY LenIs
  <2>2. a \in Seq(Units) /\ Len(a) = i
    BY <2>1, Front
  <2>3. b \in Seq(Units) /\ Len(b) = Len(reply) - i
    BY <2>1, Consumed
  <2>4. a \o b = reply
    BY <2>1, ConcatAdjacentSubSeq, SubSeqFull
  <2>5. parts = <<a, b>>
    BY <1>2
  <2> HIDE DEF a, b
  <2>6. a # <<>> /\ b # <<>>
    BY <2>1, <2>2, <2>3, EmptySeq
  <2>7. \A d \in Datagrams(request, parts) :
           \/ d = [of |-> request.of, id |-> request.id, seq |-> 0, count |-> 2, units |-> a]
           \/ d = [of |-> request.of, id |-> request.id, seq |-> 1, count |-> 2, units |-> b]
    BY <2>5 DEF Datagrams
  <2>8. \A d \in Datagrams(request, parts) :
           /\ d \in Datums /\ Of(d, a, b)
           /\ d.of = request.of /\ d.id = request.id
    BY <2>2, <2>3, <2>6, <2>7 DEF Datums, Of
  <2> QED BY <2>2, <2>3, <2>4, <2>6, <2>8 DEF Carried
<1> QED BY <1>1, <1>2 DEF Splits

(* Only the current request is answered with the id that is awaited.       *)
LEMMA ServedKeeps ==
    ASSUME IInv, Next, Served
    PROVE  IInv'
<1>1. UNCHANGED <<proto, pc, part, cmd, code, body, result, buffer, id, packet, place,
                  count, req, got, ambiguous, alive, op>>
  BY DEF Served, sock, socket, parser, filling, ghosts
<1>2. PICK request \in asked :
         /\ \E outcome \in Outcomes(request.cmd) \cap Happens, n \in 0 .. MaxData :
            \E reply \in Replies(proto, request.cmd, outcome, n) :
            \E parts \in Splits(reply) :
               /\ wire' = wire \cup Datagrams(request, parts)
               /\ served' = IF request.of = req THEN outcome ELSE served
         /\ asked' = asked \ {request}
  BY DEF Served
<1>3. PICK outcome \in Outcomes(request.cmd), n \in 0 .. MaxData :
         \E reply \in Replies(proto, request.cmd, outcome, n) :
         \E parts \in Splits(reply) :
            /\ wire' = wire \cup Datagrams(request, parts)
            /\ served' = IF request.of = req THEN outcome ELSE served
  BY <1>2
<1> PICK reply \in Replies(proto, request.cmd, outcome, n) :
         \E parts \in Splits(reply) :
            /\ wire' = wire \cup Datagrams(request, parts)
            /\ served' = IF request.of = req THEN outcome ELSE served
  BY <1>3
<1>4. PICK parts \in Splits(reply) :
         /\ wire' = wire \cup Datagrams(request, parts)
         /\ served' = IF request.of = req THEN outcome ELSE served
  OBVIOUS
<1>5. /\ request.of \in {0, 1} /\ request.id \in PacketIds
      /\ request.cmd \in Commands /\ proto \in Protocols
  BY <1>2, BoundAssumption DEF IInv, TypeOK, Requests
<1>6. Reply(proto, request.cmd, outcome, reply)
  BY <1>5, ReplyIs, BoundAssumption
<1>7. reply \in Seq(Units) /\ Len(reply) > 0
  BY <1>6 DEF Reply
<1>12. Carried(reply, request, Datagrams(request, parts))
  <2>1. parts \in Splits(reply) /\ reply \in Seq(Units) /\ Len(reply) > 0
    BY <1>4, <1>7
  <2>2. request.of \in {0, 1} /\ request.id \in PacketIds
    BY <1>5
  <2> QED BY <2>1, <2>2, SplitIs, Zenon
<1>8. PICK a \in Seq(Units), b \in Seq(Units) :
         /\ a # <<>> /\ a \o b = reply
         /\ \A d \in Datagrams(request, parts) :
               /\ d \in Datums /\ Of(d, a, b)
               /\ d.of = request.of /\ d.id = request.id
  BY <1>12 DEF Carried
<1>9. TypeOK'
  <2>1. (alive <=> pc # "none")' /\ ambiguous' \in BOOLEAN /\ (Running' <=> Running)
    BY <1>1, Zenon DEF IInv, TypeOK, Running
  <2>2. asked' \subseteq Requests
    BY <1>2 DEF IInv, TypeOK
  <2> QED BY <1>1, <2>1, <2>2, SockKept DEF IInv, TypeOK
<1>10. NetOK'
  BY <1>1, <1>4, <1>8 DEF IInv, NetOK
<1>11. ASSUME Ours PROVE Ours'
  <2>1. Fresh /\ got \subseteq {req}
    BY <1>11 DEF Ours
  <2>2. Fresh'
    BY <1>1, <1>2, <1>4, <1>8, <2>1 DEF Fresh
  <2>3. /\ Filled' = Filled /\ Expected' = Expected /\ Nothing' = Nothing
        /\ Awaited' = Awaited /\ InBody' = InBody
        /\ \A units : Holds(units)' <=> Holds(units)
    BY <1>1 DEF Filled, Expected, Nothing, Awaited, InBody, Holds
  <2>4. Unserved /\ request.of # req => Unserved'
    BY <1>1, <1>2, <1>4, <1>8, <2>3 DEF Unserved
  <2>5. Unserved /\ request.of = req => Answer(a, b)'
    <3> SUFFICES ASSUME Unserved, request.of = req PROVE Answer(a, b)'
      OBVIOUS
    <3>1. request.cmd = cmd /\ served' = outcome
      BY <1>2, <1>4 DEF Unserved
    <3>2. Reply(proto, cmd, served, a \o b)'
      BY <1>1, <1>6, <1>8, <3>1
    <3>3. \A d \in wire' : d.of = req => Of(d, a, b)
      BY <1>4, <1>8 DEF Unserved
    <3>4. \A r \in asked' : r.of # req
      <4>1. ASSUME NEW r \in asked, r.of = req PROVE r = request
        <5>1. r \in Requests /\ request \in Requests
          BY <1>2 DEF IInv, TypeOK
        <5>2. r.id = id /\ request.id = id /\ r.cmd = cmd /\ request.cmd = cmd
          BY <1>2, <2>1, <4>1 DEF Fresh, Unserved
        <5> QED BY <4>1, <5>1, <5>2 DEF Requests
      <4> QED BY <1>2, <4>1
    <3>5. Progress(a, b)'
      <4>1. /\ Filled \/ Nothing
            /\ Filled => ~Expected
            /\ pc \in {"receive", "fill"} => part = "header"
            /\ pc # "filled"
        BY DEF Unserved
      <4>2. pc \in {"write", "written", "receive"} => ~Filled
        BY DEF Filled
      <4>3. Nothing => place = 0 /\ buffer = <<>>
        BY DEF Nothing
      <4>4. Progress(a, b)
        BY <4>1, <4>2, <4>3 DEF Progress
      <4> QED BY <1>1, <2>3, <4>4 DEF Progress
    <3> QED BY <1>1, <1>8, <3>2, <3>3, <3>4, <3>5 DEF Answer
  <2>6. ASSUME \A r \in asked : r.of # req
        PROVE  /\ served' = served
               /\ \A r \in asked' : r.of # req
               /\ \A d \in wire' : d.of = req => d \in wire
    BY <1>2, <1>4, <1>8, <2>6
  <2>7. ASSUME NEW x \in Seq(Units), NEW y \in Seq(Units), Answer(x, y)
        PROVE  Answer(x, y)'
    <3>1. \A r \in asked : r.of # req
      BY <2>7 DEF Answer
    <3>2. Progress(x, y)'
      BY <1>1, <2>3, <2>7 DEF Answer, Progress
    <3> QED BY <1>1, <2>6, <2>7, <3>1, <3>2 DEF Answer
  <2>8. CodeTells => CodeTells'
    <3> SUFFICES ASSUME CodeTells PROVE CodeTells'
      OBVIOUS
    <3>1. \A r \in asked : r.of # req
      BY DEF CodeTells
    <3> QED BY <1>1, <2>6, <3>1 DEF CodeTells
  <2>9. Awaited => Unserved' \/ \E x, y \in Seq(Units) : Answer(x, y)'
    <3>1. Awaited => Unserved \/ \E x, y \in Seq(Units) : Answer(x, y)
      BY <1>11 DEF Ours
    <3> QED BY <1>8, <2>4, <2>5, <2>7, <3>1
  <2>10. pc = "write" /\ op # "done" => \A d \in wire' \cup asked' : d.of # req
    <3>1. pc = "write" /\ op # "done" => request.of # req
      BY <1>2, <1>11 DEF Ours
    <3> QED BY <1>2, <1>4, <1>8, <1>11, <3>1 DEF Ours
  <2> QED BY <1>1, <1>11, <2>2, <2>3, <2>8, <2>9, <2>10 DEF Ours
<1> QED BY <1>1, <1>9, <1>10, <1>11, SockKept DEF IInv

(* Every step keeps the invariant.                                         *)
LEMMA StepInv ==
    ASSUME IInv, [Next]_vars
    PROVE  IInv'
<1>1. CASE Next
  <2>1. Connected => open \/ ~open
    OBVIOUS
  <2> QED
    BY <1>1, <2>1, ConnectSteps, WriteKeeps, ReadHeaderKeeps, ReadBodyKeeps, AnsweredKeeps,
       ReceiveKeeps, TakeHeaderKeeps, Throws, ReturnKeeps, WrittenKeeps,
       PacketAcceptedKeeps, SentKeeps, ServedKeeps, ReceivedKeeps, QuietSteps, Zenon
       DEF Next, InExchange, CallHandler, Network
<1>2. CASE UNCHANGED vars
  <2>1. SockInv'
    BY <1>2, CallKeeps DEF IInv, vars
  <2>2. /\ UNCHANGED <<parser, result, buffer, id, filling, net, ghosts, alive>>
        /\ op' = op
    BY <1>2, Zenon DEF vars, sock, socket
  <2> QED BY <2>1, <2>2, QuietKeeps
<1> QED BY <1>1, <1>2

(* Ids, datagrams and the buffer agree in every state, for any ids, values *)
(* of any length, any timeouts and any late or repeated datagrams.         *)
THEOREM UdpInvariant == Spec => []IInv
<1>1. IInv /\ [Next]_vars => IInv'
  BY StepInv
<1> QED BY <1>1, InitInv, PTL DEF Spec

(* Every variable keeps its type; a connection is alive unless pc is       *)
(* "none", and handlers run in the operations only.                        *)
THEOREM UdpTypeCorrect == Spec => []TypeOK
<1>1. IInv => TypeOK
  BY DEF IInv
<1> QED BY <1>1, UdpInvariant, PTL

(* Unless an id is drawn that late datagrams still carry, what is read for *)
(* a request was sent for it, and a pooled connection has nothing left.    *)
THEOREM UdpResponseOfRequest == Spec => []ResponseOfRequest
<1>1. IInv => ResponseOfRequest
  BY DEF IInv, Ours, Nothing, ResponseOfRequest
<1> QED BY <1>1, UdpInvariant, PTL

(* With the same reservation the client tells of a command what the server *)
(* did, in both protocols.                                                 *)
THEOREM UdpResultMeansOutcome == Spec => ResultMeansOutcome
<1>1. ASSUME IInv, Next, pc = "answered", pc' # "answered", ~ambiguous
      PROVE  result' = Told(cmd, code) /\ Tells(cmd, code, served)
  <2>1. Return
    <3>1. ~(Open \/ Write \/ ReadHeader \/ ReadBody \/ NoBody \/ Receive \/ TakeHeader
            \/ TakeBody \/ PartialInput)
      BY <1>1, Zenon DEF Open, Write, ReadHeader, ReadBody, Read, NoBody, Receive,
         TakeHeader, TakeBody, PartialInput
    <3>2. ~Running
      BY <1>1 DEF IInv, TypeOK
    <3>3. ~(RunDeadline \/ CallHandler)
      BY <1>1, <3>2, Zenon DEF RunDeadline, HandleDeadline, CallHandler,
         Failed, Connected, Written, PacketAccepted, PacketRefused, Running
    <3>4. ~(Network \/ TimePasses)
      BY <1>1, Zenon DEF Network, TimePasses, Arrives, Sent, Served, Received,
         Broken, parser
    <3> QED BY <1>1, <3>1, <3>3, <3>4 DEF Next, InExchange
  <2> QED BY <1>1, <2>1 DEF Return, IInv, Ours, CodeTells
<1> DEFINE Truth == pc = "answered" /\ pc' # "answered" /\ ~ambiguous =>
        /\ result' = "yes" <=> served = "done"
        /\ cmd \notin {"replace", "flush_all"} =>
              (result' = "no" <=> served \in {"missing", "present"})
<1>2. IInv /\ [Next]_vars => [Truth]_vars
  BY <1>1 DEF Tells
<1> QED BY <1>2, UdpInvariant, PTL DEF Spec, ResultMeansOutcome

=============================================================================
