------------------------------ MODULE ClientRun ------------------------------
(***************************************************************************)
(* The client (client.h): every operation on a key serialises one command  *)
(* and gives it to run(), which walks the consistent hashing ring from the *)
(* node of the key until a server answers; flush_all goes to every server. *)
(*                                                                         *)
(* All commands are about one key.  The server proxies of module           *)
(* ServerProxy appear with their two functions as one step each: callable()*)
(* decides at once, send() is in progress for a while and takes effect     *)
(* when its outcome is known.  Times are relative to the present, as there.*)
(***************************************************************************)
EXTENDS HashRing, FiniteSets

CONSTANTS
    Clients,       \* threads that call the client
    Nodes,         \* virtual nodes of each address
    KeyHashes,     \* hashes the key may have
    Commands,      \* commands the application gives: [kind, data, cas]
    Data,          \* values of the key
    Tokens,        \* cas identifiers
    MaxContinues,  \* client_config_t::max_continues
    H404,          \* client_config_t::h404_duration
    Interval,      \* server_proxy_config_t::restoration_interval
    FailLimit,     \* server_proxy_config_t::fail_limit
    MaxDelay,      \* bound: how long send() may be in progress
    MaxLate,       \* bound: servers with a command that is late
    NoItem,        \* what a server has of a key it does not know
    None           \* no command, no result

ASSUME LimitAssumption == /\ KeyHashes \subseteq Hashes
                          /\ MaxContinues \in Nat
                          /\ H404 \in Nat
                          /\ Interval \in Nat
                          /\ FailLimit \in Nat
                          /\ MaxDelay \in Nat
                          /\ MaxLate \in Nat

ASSUME NodesAssumption == Nodes \in Seq(SUBSET Hashes)

Servers == 0 .. Len(Nodes) - 1
ring == Ring(Nodes)
Items == [data : Data, cas : Tokens]

ASSUME CommandsAssumption ==
    \A command \in Commands :
       command.kind \in {"set", "add", "cas"} => command.data \in Data

(* No server has the null of prev, and no command is the null of cmd.      *)
ASSUME NoneAssumption ==
    None \notin Servers /\ None \notin Commands /\ None # [kind |-> "flush_all"]

ASSUME ItemAssumption == NoItem \notin Items

VARIABLES
    key,          \* hash of the key
    dead,         \* is the proxy of the server marked dead
    restoration,  \* when it is to be tried again
    fails,        \* its count of network errors
    item,         \* what the server has of the key
    late,         \* a command given up by its client that may yet reach it
    pc,           \* what a client does next
    cmd,          \* the command it runs
    it,           \* iidx of run(), the index of run_all()
    prev,         \* prev of run()
    conts,        \* conts of run()
    outOfServers, \* out_of_servers of run()
    age,          \* how long its send() has been in progress
    result,       \* the response of its last command
    log           \* history: servers visited by the command, and outcomes

proxies == <<key, dead, restoration, fails>>
servers == <<item, late>>
loop    == <<it, prev, conts, outOfServers>>
vars    == <<proxies, servers, pc, cmd, loop, age, result, log>>

-----------------------------------------------------------------------------
Least(a, b) == IF a <= b THEN a ELSE b
Most(a, b)  == IF a <= b THEN b ELSE a

(* Past this a lifespan is over h404_duration and grows no further.        *)
Floor == -Most(0, H404 - Interval)
Never == Floor - 1

(* Time since the last dead mark or probe; since the epoch if there is none*)
Lifespan(s) ==
    IF restoration[s] = Never THEN H404
                              ELSE Most(0, Interval - restoration[s])

Get == {"get", "gets"}

(* What memcached answers to a command of the binary protocol, and what it *)
(* has of the key then; a changed item gets a cas identifier.              *)
Reply(code) == [code |-> code, item |-> NoItem]
Stored(c, k) == [data |-> c.data, cas |-> k]

Serve(c, i, k) ==
    CASE c.kind \in Get /\ i # NoItem -> <<[code |-> "ok", item |-> i], i>>
      [] c.kind = "set" -> <<Reply("stored"), Stored(c, k)>>
      [] c.kind = "add" /\ i = NoItem -> <<Reply("stored"), Stored(c, k)>>
      [] c.kind = "add" /\ i # NoItem -> <<Reply("exists"), i>>
      [] c.kind = "cas" /\ i # NoItem ->
           IF i.cas = c.cas THEN <<Reply("stored"), Stored(c, k)>>
                            ELSE <<Reply("exists"), i>>
      [] c.kind = "delete" /\ i # NoItem -> <<Reply("deleted"), NoItem>>
      [] c.kind = "flush_all" -> <<Reply("ok"), NoItem>>
      [] OTHER -> <<Reply("not_found"), i>>

(* It may also refuse the command, out of memory for one.                  *)
Answers(c, i, k) == {Serve(c, i, k), <<Reply("server_error"), i>>}

-----------------------------------------------------------------------------
Init ==
    /\ key \in KeyHashes
    /\ dead = [s \in Servers |-> FALSE]
    /\ restoration = [s \in Servers |-> Never]
    /\ fails = [s \in Servers |-> 0]
    /\ item = [s \in Servers |-> NoItem]
    /\ late = [s \in Servers |-> None]
    /\ pc = [c \in Clients |-> "idle"]
    /\ cmd = [c \in Clients |-> None]
    /\ it = [c \in Clients |-> None]
    /\ prev = [c \in Clients |-> None]
    /\ conts = [c \in Clients |-> 0]
    /\ outOfServers = [c \in Clients |-> TRUE]
    /\ age = [c \in Clients |-> 0]
    /\ result = [c \in Clients |-> None]
    /\ log = [c \in Clients |-> <<>>]

Log(c, s, outcome) == log' = [log EXCEPT ![c] = Append(@, <<s, outcome>>)]

(* An operation of the client: run() starts at the node of the key.        *)
Start(c, command) ==
    /\ pc[c] = "idle"
    /\ command.kind # "flush_all"
    /\ cmd' = [cmd EXCEPT ![c] = command]
    /\ pc' = [pc EXCEPT ![c] = "loop"]
    /\ it' = [it EXCEPT ![c] = Choose(ring, key)]
    /\ prev' = [prev EXCEPT ![c] = None]
    /\ conts' = [conts EXCEPT ![c] = 0]
    /\ outOfServers' = [outOfServers EXCEPT ![c] = TRUE]
    /\ result' = [result EXCEPT ![c] = None]
    /\ UNCHANGED <<proxies, servers, age, log>>

(* The result of a finished command; the rest goes with the stack frame.   *)
Finish(c, response) ==
    /\ pc' = [pc EXCEPT ![c] = "idle"]
    /\ result' = [result EXCEPT ![c] = response]
    /\ cmd' = [cmd EXCEPT ![c] = None]
    /\ it' = [it EXCEPT ![c] = None]
    /\ prev' = [prev EXCEPT ![c] = None]
    /\ conts' = [conts EXCEPT ![c] = 0]
    /\ outOfServers' = [outOfServers EXCEPT ![c] = TRUE]
    /\ log' = [log EXCEPT ![c] = <<>>]

(* Fault: one continue too many.                                           *)
InLoopOnceMore(c) ==
    /\ pc[c] = "loop"
    /\ ~AtEnd(it[c])
    /\ conts[c] <= MaxContinues

InLoop(c) ==
    /\ pc[c] = "loop"
    /\ ~AtEnd(it[c])
    /\ conts[c] < MaxContinues

(* Fault: running out of continues counts as running out of servers.       *)
ExhaustedByCount(c) ==
    /\ pc[c] = "loop"
    /\ ~InLoop(c)
    /\ Finish(c, Reply(IF conts[c] >= MaxContinues THEN "out_of_servers"
                                                   ELSE "not_found"))
    /\ UNCHANGED <<proxies, servers, age>>

(* The loop is over: nobody's answer was good enough.                      *)
Exhausted(c) ==
    /\ pc[c] = "loop"
    /\ ~InLoop(c)
    /\ Finish(c, Reply(IF outOfServers[c] THEN "out_of_servers" ELSE "not_found"))
    /\ UNCHANGED <<proxies, servers, age>>

(* The next node is one of the server just visited.                        *)
SkipPrevious(c) ==
    /\ InLoop(c)
    /\ Deref(ring, it[c]) = prev[c]
    /\ it' = [it EXCEPT ![c] = Increment(ring, @)]
    /\ UNCHANGED <<proxies, servers, pc, cmd, prev, conts, outOfServers, age,
                   result, log>>

(* The server in question: of the ring in run(), in turn in run_all().     *)
Target(c) == IF cmd[c].kind = "flush_all" THEN it[c] ELSE Deref(ring, it[c])

(* Another client is inside the proxy of s and may hold its lock.          *)
Contended(c, s) ==
    \E d \in Clients \ {c} : pc[d] \in {"send", "sendAll"} /\ Target(d) = s

(* Fault: the probe is not put off.                                        *)
ProceedAtOnce(c, s) ==
    /\ ~dead[s] \/ restoration[s] <= 0 \/ Contended(c, s)
    /\ UNCHANGED proxies

(* callable() says yes: alive, or dead and due, which is put off.  A client*)
(* may have found it due just before another one put it off.               *)
Proceed(c, s) ==
    \/ ~dead[s] /\ UNCHANGED proxies
    \/ /\ dead[s]
       /\ restoration[s] <= 0 \/ Contended(c, s)
       /\ restoration' = [restoration EXCEPT ![s] = Interval]
       /\ UNCHANGED <<key, dead, fails>>

(* callable() says no: dead and not due, or its lock was not to be had.    *)
Decline(c, s) ==
    /\ dead[s]
    /\ restoration[s] > 0 \/ Contended(c, s)
    /\ UNCHANGED proxies

Continue(c) ==
    /\ conts' = [conts EXCEPT ![c] = @ + 1]
    /\ it' = [it EXCEPT ![c] = Increment(ring, @)]
    /\ pc' = [pc EXCEPT ![c] = "loop"]

Visit(c) ==
    LET s == Target(c) IN
    /\ InLoop(c)
    /\ s # prev[c]
    /\ prev' = [prev EXCEPT ![c] = s]
    /\ \/ /\ Proceed(c, s)
          /\ pc' = [pc EXCEPT ![c] = "send"]
          /\ UNCHANGED <<it, conts, log>>
       \/ /\ Decline(c, s)
          /\ Continue(c)
          /\ Log(c, s, "no_answer")
    /\ UNCHANGED <<servers, cmd, outOfServers, age, result>>

-----------------------------------------------------------------------------
(* send() got an answer: the proxy is alive.  A server that is down is one *)
(* that every send() fails with, so it needs no state of its own.          *)
Deliver(c, s, answer) ==
    /\ item' = [item EXCEPT ![s] = answer[2]]
    /\ dead' = [dead EXCEPT ![s] = FALSE]
    /\ fails' = [fails EXCEPT ![s] = 0]
    /\ age' = [age EXCEPT ![c] = 0]
    /\ UNCHANGED <<key, restoration, late>>

(* send() failed, and the command was lost, or took effect although the    *)
(* answer did not come in time, or is still on its way.                    *)
Undelivered(c, s, k) ==
    \/ UNCHANGED servers
    \/ /\ item' = [item EXCEPT ![s] = Serve(cmd[c], @, k)[2]]
       /\ UNCHANGED late
    \/ /\ late[s] = None
       /\ Cardinality({r \in Servers : late[r] # None}) < MaxLate
       /\ cmd[c].kind \notin Get
       /\ late' = [late EXCEPT ![s] = cmd[c]]
       /\ UNCHANGED item

(* The failure is counted unless the lock was not to be had.               *)
Lose(c, s, k) ==
    LET count == Least(FailLimit, fails[s] + 1) IN
    /\ Undelivered(c, s, k)
    /\ \/ Contended(c, s) /\ UNCHANGED proxies
       \/ /\ UNCHANGED key
          /\ fails' = [fails EXCEPT ![s] = count]
          /\ dead' = [dead EXCEPT ![s] = @ \/ count >= FailLimit]
          /\ restoration' =
               [restoration EXCEPT ![s] = IF count >= FailLimit THEN Interval ELSE @]
    /\ age' = [age EXCEPT ![c] = 0]

(* A 404 of the first server is not the last word on a get if that server  *)
(* has been restored a short time ago.                                     *)
TryNeighbour(c, s, response) ==
    /\ response.code = "not_found"
    /\ cmd[c].kind \in Get
    /\ conts[c] = 0
    /\ Lifespan(s) < H404

Respond(c, k) ==
    LET s == Target(c) IN
    /\ pc[c] = "send"
    /\ \E answer \in Answers(cmd[c], item[s], k) :
         LET response == answer[1] IN
         /\ Deliver(c, s, answer)
         /\ IF TryNeighbour(c, s, response)
            THEN /\ outOfServers' = [outOfServers EXCEPT ![c] = FALSE]
                 /\ Continue(c)
                 /\ Log(c, s, response.code)
                 /\ UNCHANGED <<cmd, prev, result>>
            ELSE Finish(c, response)

Fail(c, k) ==
    LET s == Target(c) IN
    /\ pc[c] = "send"
    /\ Lose(c, s, k)
    /\ Log(c, s, "no_answer")
    /\ Continue(c)
    /\ UNCHANGED <<cmd, prev, outOfServers, result>>

(* send() throws what is no io::error_t, before the command leaves: its    *)
(* key is bad, or the server's name was not resolved.  Nobody catches it.  *)
Escape(c) ==
    /\ pc[c] \in {"send", "sendAll"}
    /\ Finish(c, Reply("exception"))
    /\ age' = [age EXCEPT ![c] = 0]
    /\ UNCHANGED <<proxies, servers>>

-----------------------------------------------------------------------------
(* flush_all: run_all() asks every server in turn.                         *)
StartAll(c) ==
    /\ pc[c] = "idle"
    /\ cmd' = [cmd EXCEPT ![c] = [kind |-> "flush_all"]]
    /\ pc' = [pc EXCEPT ![c] = "all"]
    /\ it' = [it EXCEPT ![c] = 0]
    /\ result' = [result EXCEPT ![c] = None]
    /\ UNCHANGED <<proxies, servers, prev, conts, outOfServers, age, log>>

NextServer(c) ==
    /\ it' = [it EXCEPT ![c] = @ + 1]
    /\ pc' = [pc EXCEPT ![c] = "all"]

(* Fault: a dead server has no response.                                   *)
VisitAllOnlyAlive(c) ==
    LET s == Target(c) IN
    /\ pc[c] = "all"
    /\ s \in Servers
    /\ \/ /\ Proceed(c, s)
          /\ pc' = [pc EXCEPT ![c] = "sendAll"]
          /\ UNCHANGED it
       \/ /\ Decline(c, s)
          /\ NextServer(c)
    /\ UNCHANGED <<servers, cmd, prev, conts, outOfServers, age, result, log>>

(* A dead server is answered for with an error.                            *)
VisitAll(c) ==
    LET s == Target(c) IN
    /\ pc[c] = "all"
    /\ s \in Servers
    /\ \/ /\ Proceed(c, s)
          /\ pc' = [pc EXCEPT ![c] = "sendAll"]
          /\ UNCHANGED <<it, log>>
       \/ /\ Decline(c, s)
          /\ NextServer(c)
          /\ Log(c, s, "no_answer")
    /\ UNCHANGED <<servers, cmd, prev, conts, outOfServers, age, result>>

RespondAll(c, k) ==
    LET s == Target(c) IN
    /\ pc[c] = "sendAll"
    /\ \/ \E answer \in Answers(cmd[c], item[s], k) :
             Deliver(c, s, answer) /\ Log(c, s, answer[1].code)
       \/ Lose(c, s, k) /\ Log(c, s, "no_answer")
    /\ NextServer(c)
    /\ UNCHANGED <<cmd, prev, conts, outOfServers, result>>

(* The result is true if no response is anything but ok.                   *)
FinishAll(c) ==
    /\ pc[c] = "all"
    /\ it[c] \notin Servers
    /\ Finish(c, Reply(IF \A i \in DOMAIN log[c] : log[c][i][2] = "ok"
                       THEN "ok" ELSE "error"))
    /\ UNCHANGED <<proxies, servers, age>>

-----------------------------------------------------------------------------
(* The environment.                                                        *)

Tick ==
    /\ \A c \in Clients : pc[c] \in {"send", "sendAll"} => age[c] < MaxDelay
    /\ age' = [c \in Clients |->
                  IF pc[c] \in {"send", "sendAll"} THEN age[c] + 1 ELSE 0]
    /\ restoration' =
         [s \in Servers |-> IF restoration[s] > Floor THEN restoration[s] - 1
                                                      ELSE restoration[s]]
    /\ UNCHANGED <<key, dead, fails, servers, pc, cmd, loop, result, log>>

(* The item expires, is evicted, or was lost in a restart of the server.   *)
Evict(s) ==
    /\ item[s] # NoItem
    /\ item' = [item EXCEPT ![s] = NoItem]
    /\ UNCHANGED <<proxies, late, pc, cmd, loop, age, result, log>>

(* A command whose client has given it up reaches the server.              *)
LateEffect(s, k) ==
    /\ late[s] # None
    /\ item' = [item EXCEPT ![s] = Serve(late[s], @, k)[2]]
    /\ late' = [late EXCEPT ![s] = None]
    /\ UNCHANGED <<proxies, pc, cmd, loop, age, result, log>>

LateLost(s) ==
    /\ late[s] # None
    /\ late' = [late EXCEPT ![s] = None]
    /\ UNCHANGED <<proxies, item, pc, cmd, loop, age, result, log>>

-----------------------------------------------------------------------------
(* What a client does inside a call; fresh is what cas identifiers a server*)
(* may give to an item it stores.                                          *)
RunStep(c, fresh(_)) ==
    \/ Exhausted(c)
    \/ SkipPrevious(c)
    \/ Visit(c)
    \/ pc[c] = "send" /\ Escape(c)
    \/ /\ pc[c] = "send"
       /\ \E k \in fresh(Target(c)) : Respond(c, k) \/ Fail(c, k)

RunAllStep(c) ==
    \/ VisitAll(c)
    \/ \E k \in Tokens : RespondAll(c, k)
    \/ FinishAll(c)
    \/ pc[c] = "sendAll" /\ Escape(c)

ServerStep(s, fresh(_)) ==
    \/ Evict(s)
    \/ LateLost(s)
    \/ \E k \in fresh(s) : LateEffect(s, k)

AnyToken(s) == Tokens

Calls(c) == StartAll(c) \/ \E command \in Commands : Start(c, command)

Step ==
    \/ \E c \in Clients : Calls(c) \/ RunStep(c, AnyToken) \/ RunAllStep(c)
    \/ \E s \in Servers : ServerStep(s, AnyToken)

Next == Step \/ Tick

Spec == Init /\ [][Next]_vars

-----------------------------------------------------------------------------
Iterators == [node : DOMAIN ring \cup {End}, stop : BOOLEAN]
Outcomes == {"no_answer", "server_error", "ok", "stored", "exists",
             "deleted", "not_found"}
Replies == [code : Outcomes \cup {"error", "out_of_servers", "exception"},
            item : Items \cup {NoItem}]

(* No response is the null of result.                                      *)
ASSUME ResultAssumption == None \notin Replies

(* Types of the variables; a client that sends has a server to send to.    *)
TypeOK ==
    /\ key \in KeyHashes
    /\ dead \in [Servers -> BOOLEAN]
    /\ restoration \in [Servers -> Never .. Interval]
    /\ fails \in [Servers -> 0 .. FailLimit]
    /\ late \in [Servers -> Commands \cup {[kind |-> "flush_all"], None}]
    /\ item \in [Servers -> Items \cup {NoItem}]
    /\ conts \in [Clients -> 0 .. MaxContinues]
    /\ outOfServers \in [Clients -> BOOLEAN]
    /\ age \in [Clients -> 0 .. MaxDelay]
    /\ result \in [Clients -> Replies \cup {None}]
    /\ \A c \in Clients :
         /\ pc[c] \in {"idle", "loop", "send", "all", "sendAll"}
         /\ pc[c] \in {"loop", "send"} => it[c] \in Iterators
         /\ pc[c] \in {"send", "sendAll"} => Target(c) \in Servers
         /\ \A i \in DOMAIN log[c] : log[c][i] \in Servers \X Outcomes

Visited(c) == {log[c][i][1] : i \in DOMAIN log[c]}
Answered(c) == \E i \in DOMAIN log[c] : log[c][i][2] # "no_answer"

(* A command of kind run() or run_all() ends with this code; log is that   *)
(* of the command then, short of an answer that was the last word.         *)
Returns(c, code) == cmd[c] # None /\ cmd'[c] = None /\ result'[c].code = code
IsFlush(c) == cmd[c].kind = "flush_all"

(* out_of_servers is thrown only when no server answered: a 404 the loop   *)
(* went on after is not forgotten when the neighbours are dead, and no     *)
(* other command is told not_found for want of servers.                    *)
OutOfServersMeansNoAnswer ==
    [][\A c \in Clients :
          /\ Returns(c, "out_of_servers") => ~Answered(c)
          /\ Returns(c, "not_found") => Answered(c) \/ pc[c] = "send"]_vars

(* run() gives up after max_continues servers or when every server that    *)
(* has a node was visited: the walk wraps, and skipping the server just    *)
(* visited leaves none out.                                                *)
EveryServerTried ==
    [][\A c \in Clients :
          Returns(c, "out_of_servers") /\ Len(log[c]) < MaxContinues
            => Visited(c) = {ring[p] : p \in DOMAIN ring}]_vars

(* flush_all returns true only if every server said it did it, the dead    *)
(* ones that were not asked included.                                      *)
FlushedEverywhere ==
    [][\A c \in Clients :
          Returns(c, "ok") /\ IsFlush(c)
            => \A s \in Servers : \E i \in DOMAIN log[c] : log[c][i] = <<s, "ok">>]_vars

=============================================================================
