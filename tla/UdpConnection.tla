---------------------------- MODULE UdpConnection ----------------------------
(***************************************************************************)
(* One UDP connection (udp::connection_t, src/io/connection.cc): every     *)
(* request is a datagram with an id, a response comes in one or more, and  *)
(* fill() puts them together.  The network may delay and lose requests and *)
(* responses, reorder and duplicate responses; a datagram that is never    *)
(* received is lost.                                                       *)
(*                                                                         *)
(* Socket, deadline, parser and pool are as in TcpConnection.              *)
(***************************************************************************)
EXTENDS AsioSocket, Protocol, FiniteSets

CONSTANTS
    ConnectTimeout,   \* opts_t::timeouts
    WriteTimeout,
    ReadTimeout,
    Calls,            \* bound: commands that are used
    Happens,          \* bound: what may become of them at the server
    PacketIds,        \* values of packet_t::id
    MaxData,          \* the longest value
    MaxLate           \* bound: late datagrams

ASSUME TimeoutAssumption == /\ ConnectTimeout \in Nat
                            /\ WriteTimeout \in Nat
                            /\ ReadTimeout \in Nat
ASSUME BoundAssumption == /\ Calls \subseteq Commands
                          /\ MaxData \in Nat
                          /\ MaxLate \in Nat

VARIABLES
    proto,   \* the client's protocol
    pc,      \* where parser.send() is: an operation or between two
    part,    \* what it reads: "header" or "body"
    cmd,     \* the command
    code,    \* the code of its response
    body,    \* the size of the response's body
    result,  \* what the client tells of the command
    buffer,  \* connection_t::buffer
    id,      \* connection_t::id
    packet,  \* header of the datagram received last
    place,   \* the sequence number fill() waits for
    count,   \* the number of datagrams it waits for
    asked,   \* requests under way to the server
    wire,    \* datagrams under way from it
    served,  \* history: what the server did
    req,     \* history: number of the request, 0 or 1
    got,     \* history: requests that what was read for this one answers
    ambiguous \* history: a request got an id that was still in use

parser == <<proto, pc, part, cmd, code, body>>
filling == <<packet, place, count>>
net    == <<asked, wire, served>>
ghosts == <<req, got, ambiguous>>
vars   == <<sock, parser, result, buffer, id, filling, net, ghosts>>

NoPacket == [id |-> 0, seq |-> 0, count |-> 0]
Header(d) == [id |-> d.id, seq |-> d.seq, count |-> d.count]

Init ==
    /\ SockInit
    /\ proto \in Protocols
    /\ pc = "none"
    /\ part = "header"
    /\ cmd = "none"
    /\ code = "none"
    /\ body = 0
    /\ result = "none"
    /\ buffer = <<>>
    /\ id \in PacketIds
    /\ packet = NoPacket
    /\ place = 0
    /\ count = 0
    /\ asked = {}
    /\ wire = {}
    /\ served = "none"
    /\ req = 0
    /\ got = {}
    /\ ambiguous = FALSE

-----------------------------------------------------------------------------
(* The operations up to their run_one(), and what needs none.              *)

Open ==
    /\ pc = "none"
    /\ pc' = "connect"
    /\ Connect(ConnectTimeout)
    /\ result' = "none"
    /\ UNCHANGED <<proto, part, cmd, code, body, buffer, id, filling, net, ghosts>>

(* packet_t gives the request an id at random.  Bound: all but MaxLate     *)
(* datagrams that were under way are lost by now.                          *)
Write ==
    /\ pc = "idle"
    /\ pc' = "write"
    /\ cmd' \in Calls
    /\ id' \in PacketIds
    /\ Begin(WriteTimeout)
    /\ result' = "none"
    /\ served' = "none"
    /\ req' = 1 - req
    /\ got' = {}
    /\ asked' = {r \in asked : r.of = req}
    /\ wire' \in {late \in SUBSET {d \in wire : d.of = req} :
                    Cardinality(late) <= MaxLate}
    /\ ambiguous' = (ambiguous \/ \E d \in asked' \cup wire' : d.id = id')
    /\ UNCHANGED <<proto, part, code, body, buffer, filling>>

(* A read finds something in the buffer, or has fill() called.             *)
Read(from, what, n) ==
    /\ pc = from
    /\ part' = what
    /\ body' = n
    /\ pc' = IF buffer = <<>> THEN "receive" ELSE "filled"
    /\ UNCHANGED <<sock, proto, cmd, code, result, buffer, id, filling, net, ghosts>>

ReadHeader == Read("written", "header", 0)

ReadBody == body > 0 /\ Read("parsed", "body", body)

NoBody ==
    /\ pc = "parsed"
    /\ body = 0
    /\ pc' = "answered"
    /\ UNCHANGED <<sock, proto, part, cmd, code, body, result, buffer, id,
                   filling, net, ghosts>>

Receive ==
    /\ pc = "receive"
    /\ pc' = "fill"
    /\ Begin(ReadTimeout)
    /\ UNCHANGED <<proto, part, cmd, code, body, result, buffer, id, filling,
                   net, ghosts>>

-----------------------------------------------------------------------------
(* How an exchange ends.                                                   *)

Forget ==
    /\ cmd' = "none"
    /\ code' = "none"
    /\ body' = 0
    /\ part' = "header"
    /\ packet' = NoPacket
    /\ place' = 0
    /\ count' = 0

(* Nothing of the connection is left; the port is another next time.       *)
Drop ==
    /\ Destroy
    /\ pc' = "none"
    /\ buffer' = <<>>
    /\ asked' = {}
    /\ wire' = {}
    /\ got' = {}
    /\ ambiguous' = FALSE

(* io::error_t                                                             *)
Throw(kind) ==
    /\ result' = kind
    /\ Drop
    /\ Forget
    /\ UNCHANGED <<proto, id, served, req>>

(* A response that is an error is the connection's last one.               *)
Return ==
    /\ pc = "answered"
    /\ result' = Told(cmd, code)
    /\ IF Understood(code)
       THEN pc' = "idle" /\ UNCHANGED <<sock, buffer, asked, wire, got, ambiguous>>
       ELSE Drop
    /\ Forget
    /\ UNCHANGED <<proto, id, served, req>>

-----------------------------------------------------------------------------
(* The buffer                                                              *)

HeaderEnds ==
    IF proto = "txt" THEN {i \in DOMAIN buffer : buffer[i].unit.kind = "line"}
    ELSE DOMAIN buffer \cap {1}

Take(n) ==
    /\ got' = got \cup {buffer[i].of : i \in 1 .. n}
    /\ buffer' = SubSeq(buffer, n + 1, Len(buffer))

(* A line is handed over without its delimiter.                            *)
Bare(unit) ==
    IF unit.kind = "line" /\ unit.word = "\r\n" THEN [unit EXCEPT !.word = ""]
                                                ELSE unit

TakeHeader ==
    LET header == DeserializeHeader(proto, cmd, Bare(Head(buffer).unit))
    IN /\ pc = "filled"
       /\ part = "header"
       /\ \E n \in HeaderEnds :
             (\A m \in HeaderEnds : n <= m) /\ Take(n)
       /\ pc' = "parsed"
       /\ code' = header.code
       /\ body' = header.bytes
       /\ UNCHANGED <<sock, proto, part, cmd, result, id, filling, net, req,
                      ambiguous>>

TakeBody ==
    /\ pc = "filled"
    /\ part = "body"
    /\ body <= Len(buffer)
    /\ pc' = "answered"
    /\ Take(body)
    /\ UNCHANGED <<sock, proto, part, cmd, code, body, result, id, filling, net,
                   req, ambiguous>>

(* Nobody waits for more than the one message.                             *)
PartialInput ==
    /\ pc = "filled"
    /\ IF part = "header" THEN HeaderEnds = {} ELSE body > Len(buffer)
    /\ Throw("io_error")

-----------------------------------------------------------------------------
(* The handlers, run by run_one().                                         *)

RunDeadline ==
    /\ HandleDeadline
    /\ UNCHANGED <<parser, result, buffer, id, filling, net, ghosts>>

(* Fault: the error of a call is not looked at.                            *)
FailedQuietly ==
    /\ op = "failed"
    /\ op' = "none"
    /\ UNCHANGED <<socket, deadline, parser, result, buffer, id, filling, net,
                   ghosts>>

Failed == op = "failed" /\ Throw(Kind)

Connected ==
    /\ pc = "connect"
    /\ op = "done"
    /\ IF open
       THEN /\ pc' = "idle"
            /\ End
            /\ UNCHANGED <<proto, part, cmd, code, body, result, buffer, id,
                           filling, net, ghosts>>
       ELSE Throw(Kind)

Written ==
    /\ pc = "write"
    /\ pc' = "written"
    /\ End
    /\ UNCHANGED <<proto, part, cmd, code, body, result, buffer, id, filling,
                   net, ghosts>>

(* Faults: one of the checks of fill() is missing.                         *)
ExpectedAnyId ==
    packet.seq = place /\ (place > 0 => packet.count = count)

ExpectedAnySeq ==
    packet.id = id /\ (place > 0 => packet.count = count)

Expected ==
    /\ packet.seq = place
    /\ packet.id = id
    /\ place > 0 => packet.count = count

PacketAccepted ==
    /\ pc = "fill"
    /\ Expected
    /\ End
    /\ IF place + 1 < packet.count
       THEN /\ pc' = "receive"
            /\ place' = place + 1
            /\ count' = packet.count
       ELSE /\ pc' = "filled"
            /\ place' = 0
            /\ count' = 0
    /\ packet' = NoPacket
    /\ UNCHANGED <<proto, part, cmd, code, body, result, buffer, id, net, ghosts>>

PacketRefused ==
    /\ pc = "fill"
    /\ op = "done"
    /\ ~Expected
    /\ Throw("io_error")

-----------------------------------------------------------------------------
(* The network and the server.                                             *)

Arrives ==
    /\ pc = "connect"
    /\ CallBecomes("done")
    /\ UNCHANGED <<parser, result, buffer, id, filling, net, ghosts>>

Sent ==
    /\ pc = "write"
    /\ CallBecomes("done")
    /\ asked' = asked \cup {[of |-> req, id |-> id, cmd |-> cmd]}
    /\ UNCHANGED <<parser, result, buffer, id, filling, wire, served, ghosts>>

(* Bound: a response is split in two at most.                              *)
Splits(reply) ==
    {<<reply>>} \cup
    {<<SubSeq(reply, 1, i), SubSeq(reply, i + 1, Len(reply))>> :
        i \in 1 .. Len(reply) - 1}

Datagrams(request, parts) ==
    {[of |-> request.of, id |-> request.id, seq |-> i - 1, count |-> Len(parts),
      units |-> parts[i]] : i \in DOMAIN parts}

(* A request arrives, late maybe, and is answered.                         *)
Served ==
    /\ \E request \in asked :
          /\ \E outcome \in Outcomes(request.cmd) \cap Happens, n \in 0 .. MaxData :
             \E reply \in Replies(proto, request.cmd, outcome, n) :
             \E parts \in Splits(reply) :
                /\ wire' = wire \cup Datagrams(request, parts)
                /\ served' = IF request.of = req THEN outcome ELSE served
          /\ asked' = asked \ {request}
    /\ UNCHANGED <<sock, parser, result, buffer, id, filling, ghosts>>

(* A datagram arrives, maybe not for the last time.  The server gives      *)
(* every one a whole header, so none is shorter than that.                 *)
Received ==
    /\ pc = "fill"
    /\ \E d \in wire :
          /\ packet' = Header(d)
          /\ buffer' = buffer \o [i \in DOMAIN d.units |->
                                     [of |-> d.of, unit |-> d.units[i]]]
          /\ wire' \in {wire, wire \ {d}}
    /\ CallBecomes("done")
    /\ UNCHANGED <<parser, result, id, place, count, asked, served, ghosts>>

(* The server's host is not there or refuses.                              *)
Broken ==
    /\ CallBecomes("failed")
    /\ UNCHANGED <<parser, result, buffer, id, filling, net, ghosts>>

TimePasses ==
    /\ Tick \/ DeadlinePasses
    /\ UNCHANGED <<parser, result, buffer, id, filling, net, ghosts>>

-----------------------------------------------------------------------------
InExchange ==
    \/ ReadHeader
    \/ ReadBody
    \/ NoBody
    \/ Receive
    \/ TakeHeader
    \/ TakeBody
    \/ PartialInput
    \/ Return

CallHandler ==
    \/ Failed
    \/ Connected
    \/ Written
    \/ PacketAccepted
    \/ PacketRefused

Network ==
    \/ Arrives
    \/ Sent
    \/ Served
    \/ Received
    \/ Broken

Next == Open \/ Write \/ InExchange \/ RunDeadline \/ CallHandler \/ Network \/ TimePasses

Spec == Init /\ [][Next]_vars

(* The thread in send() goes on, the handlers that are ready are run, and  *)
(* time passes.  Nothing is assumed of the network.                        *)
FairSpec ==
    /\ Spec
    /\ WF_vars(InExchange)
    /\ WF_vars(RunDeadline)
    /\ WF_vars(CallHandler)
    /\ WF_vars(TimePasses)

-----------------------------------------------------------------------------
Requests == [of : {0, 1}, id : PacketIds, cmd : Calls]

TypeOK ==
    /\ SockTypeOK
    /\ proto \in Protocols
    /\ pc \in {"none", "idle", "written", "receive", "filled", "parsed",
               "answered", "connect", "write", "fill"}
    /\ Running <=> pc \in {"connect", "write", "fill"}
    /\ alive <=> pc # "none"
    /\ part \in {"header", "body"}
    /\ cmd \in Calls \cup {"none"}
    /\ code \in DOMAIN Value \cup {"none"}
    /\ body \in Nat
    /\ result \in {"none", "yes", "no", "throws", "timeout", "io_error"}
    /\ id \in PacketIds
    /\ place < 2 /\ (place = 0 \/ place < count)
    /\ asked \subseteq Requests
    /\ req \in {0, 1}
    /\ got \subseteq {0, 1}
    /\ ambiguous \in BOOLEAN

(* A response is put together of datagrams for this very request, all of   *)
(* them, and a connection that goes back to its pool has nothing buffered, *)
(* however the network mixes late and repeated datagrams: unless the id of *)
(* a request, drawn at random, is that of something still under way.       *)
ResponseOfRequest ==
    ~ambiguous =>
        /\ got \subseteq {req}
        /\ pc = "idle" => buffer = <<>>

(* And then what the client tells of a command is what the server did; the *)
(* two exceptions are those of TcpConnection.                              *)
ResultMeansOutcome ==
    [][ pc = "answered" /\ pc' # "answered" /\ ~ambiguous =>
        /\ result' = "yes" <=> served = "done"
        /\ cmd \notin {"replace", "flush_all"} =>
              (result' = "no" <=> served \in {"missing", "present"}) ]_vars

(* Every exchange ends, though each datagram of a response has a deadline  *)
(* of its own.                                                             *)
ExchangeEnds == pc \notin {"none", "idle"} ~> pc \in {"none", "idle"}

=============================================================================
