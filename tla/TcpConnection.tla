---------------------------- MODULE TcpConnection ----------------------------
(***************************************************************************)
(* One TCP connection (tcp::connection_t, src/io/connection.cc) from its   *)
(* construction over many exchanges to the error that drops it, driven by  *)
(* command_parser_t::send (parser.h) and put back into its pool in between *)
(* as server_proxy_t::send does it.  The socket and its deadline are those *)
(* of AsioSocket, the commands those of Protocol.                          *)
(***************************************************************************)
EXTENDS AsioSocket, Protocol

CONSTANTS
    ConnectTimeout,   \* opts_t::timeouts
    WriteTimeout,
    ReadTimeout,
    Ids,              \* requests are numbered modulo Ids
    MaxData           \* the longest value

ASSUME TimeoutAssumption == /\ ConnectTimeout \in Nat
                            /\ WriteTimeout \in Nat
                            /\ ReadTimeout \in Nat
ASSUME BoundAssumption == Ids \in Nat \ {0} /\ MaxData \in Nat

VARIABLES
    proto,   \* the client's protocol
    pc,      \* where parser.send() is: an operation or between two
    cmd,     \* the command
    code,    \* the code of its response
    body,    \* the size of the response's body
    input,   \* the input buffer
    result,  \* what the client tells of the command
    wire,    \* what the server has sent and the socket not received
    peer,    \* is the server there
    served,  \* history: what the server did
    req,     \* history: number of the request
    got      \* history: what the units read for it answer

parser == <<proto, pc, cmd, code, body>>
net    == <<wire, peer, served>>
ghosts == <<req, got>>
vars   == <<sock, parser, input, result, net, ghosts>>

(* A unit of a response and the request it answers.                        *)
Frame(r, reply) == [i \in DOMAIN reply |-> [of |-> r, unit |-> reply[i]]]

Init ==
    /\ SockInit
    /\ proto \in Protocols
    /\ pc = "none"
    /\ cmd = "none"
    /\ code = "none"
    /\ body = 0
    /\ input = <<>>
    /\ result = "none"
    /\ wire = <<>>
    /\ peer = FALSE
    /\ served = "none"
    /\ req = 0
    /\ got = {}

-----------------------------------------------------------------------------
(* The operations up to their run_one(), and what needs none.              *)

Open ==
    /\ pc = "none"
    /\ pc' = "connect"
    /\ Connect(ConnectTimeout)
    /\ peer' = TRUE
    /\ result' = "none"
    /\ UNCHANGED <<proto, cmd, code, body, input, wire, served, ghosts>>

Write ==
    /\ pc = "idle"
    /\ pc' = "write"
    /\ cmd' \in Commands
    /\ result' = "none"
    /\ served' = "none"
    /\ req' = (req + 1) % Ids
    /\ got' = {}
    /\ Begin(WriteTimeout)
    /\ UNCHANGED <<proto, code, body, input, wire, peer>>

(* Where in a buffer the header ends: a line, or 24 bytes.                 *)
HeaderEnds(buffer) ==
    IF proto = "txt" THEN {i \in DOMAIN buffer : buffer[i].unit.kind = "line"}
    ELSE DOMAIN buffer \cap {1}

Take(n) ==
    /\ got' = got \cup {input[i].of : i \in 1 .. n}
    /\ input' = SubSeq(input, n + 1, Len(input))

TakeHeader ==
    LET header == DeserializeHeader(proto, cmd, Head(input).unit)
    IN /\ \E n \in HeaderEnds(input) :
             (\A m \in HeaderEnds(input) : n <= m) /\ Take(n)
       /\ pc' = "parsed"
       /\ code' = header.code
       /\ body' = header.bytes

(* read(24) is satisfied at once with what is buffered, read_until by its  *)
(* handler.                                                                *)
ReadHeader ==
    /\ pc = "written"
    /\ IF HeaderEnds(input) = {}
       THEN /\ pc' = "header"
            /\ Begin(ReadTimeout)
            /\ UNCHANGED <<code, body, input, got>>
       ELSE IF proto = "txt"
       THEN /\ pc' = "header"
            /\ BeginWithInput(ReadTimeout)
            /\ UNCHANGED <<code, body, input, got>>
       ELSE TakeHeader /\ UNCHANGED sock
    /\ UNCHANGED <<proto, cmd, result, net, req>>

TakeBody ==
    /\ pc = "parsed"
    /\ body <= Len(input)
    /\ pc' = "answered"
    /\ Take(body)
    /\ UNCHANGED <<sock, proto, cmd, code, body, result, net, req>>

ReadBody ==
    /\ pc = "parsed"
    /\ body > Len(input)
    /\ pc' = "body"
    /\ Begin(ReadTimeout)
    /\ UNCHANGED <<proto, cmd, code, body, input, result, net, ghosts>>

-----------------------------------------------------------------------------
(* How an exchange ends.                                                   *)

(* Nothing of the connection is left.                                      *)
Drop ==
    /\ Destroy
    /\ pc' = "none"
    /\ input' = <<>>
    /\ wire' = <<>>
    /\ peer' = FALSE

Forget == cmd' = "none" /\ code' = "none" /\ body' = 0

(* A response that is an error is the connection's last one.               *)
Return ==
    /\ pc = "answered"
    /\ result' = Told(cmd, code)
    /\ IF Understood(code)
       THEN pc' = "idle" /\ UNCHANGED <<sock, input, wire, peer>>
       ELSE Drop
    /\ Forget
    /\ UNCHANGED <<proto, served, ghosts>>

(* io::error_t                                                             *)
Throw ==
    /\ result' = Kind
    /\ Drop
    /\ Forget
    /\ UNCHANGED <<proto, served, ghosts>>

-----------------------------------------------------------------------------
(* The handlers, run by run_one().                                         *)

RunDeadline ==
    /\ HandleDeadline
    /\ UNCHANGED <<parser, input, result, net, ghosts>>

(* Fault: a deadline for each piece of the data.                           *)
ContinueWithTime ==
    /\ op = "partial"
    /\ SetDeadline(ReadTimeout)
    /\ StartCall
    /\ UNCHANGED <<socket, parser, input, result, net, ghosts>>

ContinueCall ==
    /\ GoOn
    /\ UNCHANGED <<parser, input, result, net, ghosts>>

(* Fault: the error of a call is not looked at.                            *)
FailedQuietly ==
    /\ op = "failed"
    /\ op' = "none"
    /\ UNCHANGED <<socket, deadline, parser, input, result, net, ghosts>>

Failed == op = "failed" /\ Throw

(* The deadline may have closed the socket under a call that succeeded.    *)
Connected ==
    /\ pc = "connect"
    /\ op = "done"
    /\ IF open
       THEN /\ pc' = "idle"
            /\ End
            /\ UNCHANGED <<proto, cmd, code, body, input, result, net, ghosts>>
       ELSE Throw

Written ==
    /\ pc = "write"
    /\ pc' = "written"
    /\ End
    /\ UNCHANGED <<proto, cmd, code, body, input, result, net, ghosts>>

HeaderRead ==
    /\ pc = "header"
    /\ End
    /\ TakeHeader
    /\ UNCHANGED <<proto, cmd, result, net, req>>

BodyRead ==
    /\ pc = "body"
    /\ pc' = "answered"
    /\ End
    /\ Take(body)
    /\ UNCHANGED <<proto, cmd, code, body, result, net, req>>

-----------------------------------------------------------------------------
(* The network and the server.                                             *)

Arrives ==
    /\ pc = "connect"
    /\ CallBecomes("done")
    /\ UNCHANGED <<parser, input, result, net, ghosts>>

(* The request leaves, though maybe for a server that is gone.             *)
Sent ==
    /\ pc = "write"
    /\ CallBecomes("done")
    /\ \/ /\ peer
          /\ \E outcome \in Outcomes(cmd), n \in 0 .. MaxData :
                \E reply \in Replies(proto, cmd, outcome, n) :
                   /\ wire' = wire \o Frame(req, reply)
                   /\ served' = outcome
       \/ ~peer /\ UNCHANGED <<wire, served>>
    /\ UNCHANGED <<parser, input, result, peer, ghosts>>

Satisfied(buffer) ==
    IF pc = "header" THEN HeaderEnds(buffer) # {} ELSE Len(buffer) >= body

(* The call takes all that is there of it, wanted or not.                  *)
Received ==
    /\ pc \in {"header", "body"}
    /\ \E n \in 1 .. Len(wire) :
          /\ input' = input \o SubSeq(wire, 1, n)
          /\ wire' = SubSeq(wire, n + 1, Len(wire))
    /\ CallBecomes(IF Satisfied(input') THEN "done" ELSE "partial")
    /\ UNCHANGED <<parser, result, peer, served, ghosts>>

(* Less than a unit was moved.                                             *)
Partly ==
    /\ pc \in {"write", "header", "body"}
    /\ CallBecomes("partial")
    /\ UNCHANGED <<parser, input, result, net, ghosts>>

(* Nobody there, a reset, or the end of the stream.                        *)
Broken ==
    /\ ~peer
    /\ pc \in {"header", "body"} => wire = <<>>
    /\ CallBecomes("failed")
    /\ UNCHANGED <<parser, input, result, net, ghosts>>

PeerCloses ==
    /\ peer
    /\ peer' = FALSE
    /\ wire' \in {wire, <<>>}
    /\ UNCHANGED <<sock, parser, input, result, served, ghosts>>

TimePasses ==
    /\ Tick \/ DeadlinePasses
    /\ UNCHANGED <<parser, input, result, net, ghosts>>

-----------------------------------------------------------------------------
Caller == Open \/ Write \/ ReadHeader \/ TakeBody \/ ReadBody \/ Return

CallHandler ==
    \/ ContinueCall
    \/ Failed
    \/ Connected
    \/ Written
    \/ HeaderRead
    \/ BodyRead

Network ==
    \/ Arrives
    \/ Sent
    \/ Received
    \/ Partly
    \/ Broken
    \/ PeerCloses

Next == Caller \/ RunDeadline \/ CallHandler \/ Network \/ TimePasses

Spec == Init /\ [][Next]_vars

(* The thread that is in an operation goes on running the handlers that    *)
(* are ready, none of them is passed over for ever, and time passes.       *)
(* Nothing is assumed of the server.                                       *)
FairSpec ==
    /\ Spec
    /\ WF_vars(RunDeadline)
    /\ WF_vars(CallHandler)
    /\ WF_vars(TimePasses)

-----------------------------------------------------------------------------
TypeOK ==
    /\ SockTypeOK
    /\ proto \in Protocols
    /\ pc \in {"none", "idle", "written", "parsed", "answered",
               "connect", "write", "header", "body"}
    /\ Running <=> pc \in {"connect", "write", "header", "body"}
    /\ alive <=> pc # "none"
    /\ cmd \in Commands \cup {"none"}
    /\ code \in DOMAIN Value \cup {"none"}
    /\ body \in Nat
    /\ result \in {"none", "yes", "no", "throws", "timeout", "io_error"}
    /\ req \in 0 .. Ids - 1
    /\ got \subseteq 0 .. Ids - 1

(* What is read for a request was sent for it, and a connection that goes  *)
(* back to its pool has nothing left to be read: whatever a call buffers   *)
(* ahead, and whatever the header tells of the body, no response is taken  *)
(* for that of a later request.                                            *)
ResponseOfRequest ==
    /\ got \subseteq {req}
    /\ pc = "idle" => input = <<>> /\ wire = <<>>

(* What the client tells of a command is what the server did with it, in   *)
(* both protocols: a yes means done and done a yes; an item that was not   *)
(* there, or was, is told with a no and not as an exception, and nothing   *)
(* else is.  For replace see ReplaceTellsFalse; flush_all tells no of an   *)
(* error.                                                                  *)
ResultMeansOutcome ==
    [][ pc = "answered" /\ pc' # "answered" =>
        /\ result' = "yes" <=> served = "done"
        /\ cmd \notin {"replace", "flush_all"} =>
              (result' = "no" <=> served \in {"missing", "present"}) ]_vars

(* replace returns "true if value was replaced" (client.h:217): the answer *)
(* that there is nothing to replace is a no.                               *)
ReplaceTellsFalse ==
    [][ pc = "answered" /\ pc' # "answered" /\ cmd = "replace" /\ served = "missing"
        => result' = "no" ]_vars

(* A connection that comes out of its constructor has an open socket, even *)
(* if the deadline passed as the connection was made.                      *)
ConnectedIsOpen == [][pc = "connect" /\ pc' = "idle" => open]_vars

(* Every operation ends, whatever the server does: one that sends a few    *)
(* bytes from time to time does not put the deadline off.                  *)
OperationEnds == Running ~> ~Running

=============================================================================
