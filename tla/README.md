# Verification of the Seznam memcache client

TLA+ models of the memcache client library in this repository, the TLC runs
that check them and theorems proved with TLAPS. The library is in `src/`; the
paths below are relative to it, so `include/mcache/client.h` is
`src/include/mcache/client.h`.

## 1. The system

An application calls `mc::thread::client_t` or `mc::ipc::client_t`. A command
on a key is hashed to a place on a ring of virtual nodes, and offered to the
server there through a *server proxy*. The proxy says whether the server is
worth calling; if it is, the command is serialised, sent on a pooled
connection and its response parsed. If the server is dead or the call fails,
the client goes on to the next server of the ring.

    application threads
        |  get/set/cas/... atomic_update, flush_all
    client_template_t      run(), run_all()      include/mcache/client.h
        |  choose(key), ++iterator
    consistent_hashing_pool_t / mod_pool_t       include/mcache/pool/*.h
        |  callable(), send(), lifespan()
    server_proxy_t + shared_t                    include/mcache/server-proxy.h
        |  pick(), push_back(), clear()          (shared_t: server-proxies.h)
    connection pools                             include/mcache/io/connections.h
        |  write(), read()
    tcp / udp connection_t                       src/io/connection.cc
        |  requests and responses                src/proto/{txt,binary}.cc
    memcache servers

| component | state | operations | what makes it correct |
|---|---|---|---|
| server proxy | `shared_t`: `dead`, `restoration`, `fails`, `lock`, seen by every thread or process | `callable`, `send`, `lifespan` | an outage is noticed, a recovery too; a dead server is probed rarely; no call waits for another |
| shared memory | one `shared_t` per address, on the heap or in an anonymous shared region | construction | a crash of a process leaves what the others can live with |
| connection pools | stack, queue or single pointer | `pick`, `push_back`, `clear` | one user per connection; never more than `max_connections_in_pool` |
| consistent hashing pool | the ring, a constant after construction; the iterator | c'tor, `choose`, `++`, `==` | every server is offered, the walk ends; a lost or added server moves only its own keys |
| mod pool | number of addresses | the same | a walk of one server |
| client loop | locals of `run` and `run_all` | all commands, `flush_all` | what the result codes and exceptions tell is true; each command is tried where it should be |
| `atomic_update` | locals, and the item at the server | the loop of `gets`, callback, `cas`/`add` | no lost and no doubled update |
| tcp connection | socket, deadline timer, `timeouted`, input buffer | c'tor, `write`, `read` | an operation ends by its deadline; what is read belongs to the request |
| udp connection | socket, timer, buffer, 16-bit request id | `write`, `read`, `fill` | a datagram of another request is not taken for an answer |
| commands, parser | none; the framing of a request and its response | `serialize`, `deserialize_header`, `set_body` | a response is read to its last byte; both protocols tell the same codes |
| conversions, zlib | none | numbers to text and back, `compress`, `uncompress` | what is read is what was stored |
| Python wrapper | the marks it puts in an item's flags; locals of `atomic_update` | `set*`, `add*`, ..., `gets`, `incr*`, `decr*`, `atomic_update` | an object comes back with its type, whoever changed the item in between |
| init, hashes, logger | (almost) none | | |

Interactions: threads of one process share a proxy with its pool, processes
share only `shared_t`; everything a proxy does to `shared_t` is one atomic
access at a time, with a lock that is only ever *tried*. The client calls
`callable()` and then `send()`, and acts on `lifespan()` afterwards: three
separate looks at state that others change in between. The servers are outside
of the library's control: they stop, stall, restart empty, and execute a
command whose answer is lost.

The behaviours that are hard, each at its line in `PROJECT.json` under
`hazards`: interleavings of `callable()`, of a success and of a failure
handler in different threads; a lock that the losers of `try_lock` release and
that a dead process may hold for ever; failures that are not counted because
`try_lock` lost; stale pooled connections; the wrapped walk and its three ways
to end; a 404 by a server that was just restored; a swap at another server
than the one that was read; a command that takes effect after its caller was
told it failed; a deadline that fires together with the completion; bytes or
datagrams left over from an earlier exchange; a `clear()` of the lock-free
queue among picks and pushes; an append to compressed data, or a count beyond
a signed number, between two programs that read one item differently.

## 2. Modules

| module | models | by |
|---|---|---|
| `ServerProxy` | `server-proxy.h`, `lock.h`, the locking pool of `io/connections.h` | one action per access to shared memory |
| `ServerProxyAudit` | nothing: history variables and what the documentation says of several calls | |
| `ServerProxyProofs` | nothing: theorems about `ServerProxy` and `ServerProxyAudit` | |
| `HashRing` | `pool/consistent-hashing.h` | operators: ring, `choose`, iterator |
| `ModPool` | `pool/mod.h` | operators: `choose`, iterator |
| `RingWalk` | one walk of `run()` over either pool | extends `HashRing`, `ModPool` |
| `RingWalkProofs` | nothing: theorems about `RingWalk` | |
| `PoolTests` | `src/pool/test-pool.cc`, `src/pool/test-consistent-hashing.cc` | each test an assumption about `ModPool` and `HashRing` |
| `Pool` | nothing: the abstract specification of a connection pool | |
| `ConnectionPool` | the four pools of `io/connections.h` | one action per method, `clear()` an element at a time |
| `ConnectionPoolProofs` | nothing: theorems about `ConnectionPool`, the refinement of `Pool` among them | |
| `ClientRun` | `run`, `run_all`, `flush_all` and the commands of `client.h`, over `HashRing`, the proxies, and memcache servers | one action per branch of the loop |
| `ClientRunAudit` | nothing: a history variable for the h404 window | |
| `AtomicRegister` | nothing: the abstract specification of `atomic_update` | |
| `AtomicUpdate` | `atomic_update` over all of `ClientRun` | extends `ClientRun` |
| `ClientProofs` | nothing: theorems about `ClientRun`, `ClientRunAudit` and `AtomicUpdate`, the refinement of `AtomicRegister` among them | |
| `AsioSocket` | what `tcp::` and `udp::pimple_connection_t` of `src/io/connection.cc` have alike: socket, deadline timer, io_context | one action per handler |
| `Protocol` | `src/proto/txt.cc`, `src/proto/binary.cc`, the switch of each method of `client.h` | operators: a response's header to a code and a body size, a code to what is told |
| `TcpConnection` | `tcp::connection_t` driven by `command_parser_t::send` (`proto/parser.h`), a server at the other end | extends `AsioSocket`, `Protocol` |
| `UdpConnection` | `udp::connection_t` with `fill()`, likewise, and a network of datagrams | extends `AsioSocket`, `Protocol` |
| `Commands` | `proto/txt.h`, `proto/binary.h`, `proto/response.h`, `conversion.h`, `zlib.cc`, and the parts of `txt.cc` and `binary.cc` that `Protocol` leaves out | operators on top of `Protocol`: arguments to a command, a command to a request, a response to data |
| `ProtocolTests` | `src/proto/test-txt.cc`, `src/proto/test-binary.cc` | each case a record; three assumptions that all of them pass |
| `TypedValues` | `python/mcache.cc` and the methods of `client.h` with their conversions, around one item of a server | one action per method; extends `Commands` |
| `TypedValuesProofs` | nothing: theorems about `TypedValues`, and lemmas about the conversions and responses of `Commands` and `Protocol` | |
| `ConnectionProofs` | nothing: theorems about `AsioSocket` and `Protocol`, which the two connections share | |
| `TcpConnectionProofs`, `UdpConnectionProofs` | nothing: theorems about the two | extend `ConnectionProofs` |
| `MC*` | instances for TLC | |

Actions named `...` with the comment `Fault:` are not part of any
specification. They are plausible bugs (a missing `pop()`, an unguarded
constructor, a loop that runs once more) put in the place of the definition
that follows them to see that a property notices: each property of a passing
run is violated under one of them (`mutants` in `PROJECT.json`).

### ServerProxy

`pc[t]` is where a thread is. The order of the steps is the order of the
atomic accesses in `callable()` (`LoadDead`, `ReadClock`, `CheckRestoration`,
`TryLock`, `EnlargeRestoration`, `UnlockRaised`), in `send()` (`Pick`,
`Connect`, the exchange with its three outcomes, `Revive`, `Forgive`,
`ReturnConn`) and in the handler of `io::error_t` (`TryLock`, `CountFail`,
`ReadClock`, `ClearPool`, `Rearm`, `MarkDead`, `UnlockFailed`). The scope guard is part of
it as it is written (`lock.h:42`): it unlocks although `try_lock` failed, the
step `LoserUnlock`. The exchange with a server is one step that ends in an
answer, in an `io::error_t` or in another exception; a connection that cannot
be made may end in another one as well (`Unresolved`: the resolver throws a
`system_error`, which no handler of `send()` takes).

`Procs` and `ProcOf` tell `thread::client` (one process) from `ipc::client`
(one thread per process, a pool of one connection each). `ProcCrash` kills a
process anywhere; the shared memory survives, lock included.

Time is relative to the present so that the clock needs no bound: `now[t]` is
the age of a clock reading (0 or negative), `restoration` what is left of the
interval. `Tick` ages both. `fails` matters up to `FailLimit` and stays there.

`ServerProxyAudit` adds one history variable and no step.

### HashRing, ModPool and RingWalk

A ring is a function from the hashes of virtual nodes to indexes of addresses,
what `std::map<uint32_t, uint32_t>` is. The nodes of an address are the chain
of hashes the constructor makes, each the seed of the next, and of addresses
that meet in a node the first keeps it, as `map::insert` does. The iterator has
the `stop` flag of the code. `RingWalk` starts with any ring and any key, or a
mod pool and any key. The hash functions themselves are not modelled: *every*
function of the small range is checked. A chain is written as a sequence in
which equal seeds have equal successors (`Chains`), which can be proved about;
`MCRingWalk` assumes, and TLC evaluates, that these are the chains of all hash
functions (`NodesOf`).

`PoolTests` has the unit tests with hash functions of its own, since no test
depends on what murmur3 computes: five virtual nodes in place of 20 and of 200,
nine servers at most. The fake hash of the distribution test is as it is there.

### ConnectionPool and Pool

`kind` says which of the four pools it is; `Users` that a single-connection
pool has one user. `pick` is `Pick`, or `PickNone` and then `Create` or
`CreateThrows` after the mutex was released; `push_back` is `PushBack`; a
connection whose user got an error is dropped (`Drop`). A `clear()` is
`StartClear`, any number of `ClearOne` and `EndClear`: under the mutex of the
locking pool nobody else gets in, while the mutex of the tbb pool keeps only
other `clear()`s away, and `try_pop` and `try_push` go on in between.
`stale` is a history variable: what was pooled at the call of `clear()`.

`Pool` is what all four promise: a connection has one user, a new one is opened
only if none was idle, no more than `capacity` are kept, and a `clear()` that
returns has seen everything leave that was idle at its call. It does *not*
promise an empty pool afterwards, which the queue does not give.

### ClientRun

The loop of `run()`: `SkipPrevious`, `Visit` (which calls `callable()`),
`Respond` and `Fail` (the two ends of `send()`), `Exhausted`; likewise for
`run_all()`. `callable()` is one step here and `send()` two, its beginning and
its end, with up to `MaxDelay` time units and any number of steps of the
others in between. What the finer model shows of races inside the proxy is
kept: while another client is inside the proxy of the same server
(`Contended`), `callable()` may decline for the lock or proceed although the
time was moved, and a failure may go uncounted. A server that is down is one
whose every `send()` fails, so it needs no variable: `Fail` is always
possible. A failed command was lost, or executed, or is `late` and executed at
some later time.

The item of one key is modelled, with what memcached answers to each command
(external to this repository). The key's place on the ring is chosen at the
start and fixed. When a command is over, the locals of its frame and its log
are cleared, which changes nothing and saves states.

### AtomicUpdate and AtomicRegister

`atomic_update` is one iteration after the other of `Gets`, then `Swap` or
`AddNew`, then `Succeed`, `Again`, `Unable` or `Throw`. A server gives an item
a cas identifier nobody remembers: memcached counts them in 64 bits. With one
server the least free one is taken, since identifiers are only compared.

`AtomicRegister` is what the function promises: the value becomes what the
callback makes of it in one step, once if the call returns and at most once if
it throws; a cache may forget at any time; a command that was given up with
the server out of reach may yet take effect. The refinement mapping takes the
value from the server's item and the stage of an update from a history
variable that says whether the item was changed by it.

### AsioSocket

An operation of a connection sets the deadline, starts an asynchronous call and
runs handlers, one after the other, until that of the call has run. So there
are two handlers: the call's, whose state is `op` (`"pending"`, `"partial"`,
`"done"`, `"failed"`), and `handle_deadline`, which is in the timer's queue
(`waits`) or ready (`fired`). `SetDeadline` is `expires_from_now`: it takes the
wait away and makes its handler ready, which the code does not tell from one
that expired (its error code is not looked at); the handler looks at the time
(`left`) instead. When both handlers are ready either may run first, which is
where the hazards are: the deadline may close the socket of a call that is
`"done"` already. `passed` is a history variable. Time passes in units, and
what is left over from one operation is there in the next one: nobody runs
handlers in between.

### Protocol

A response is a sequence of *units*: a line of the text protocol, the head of a
binary one, the fields of a body, one unit for each byte of a value. A size is
a number of units. `DeserializeHeader` is what each command class makes of a
header, with the codes of `proto/error.h`; `Told` what each method of
`client.h` makes of the code. `Outcomes` and `Replies` are the server's side:
what may become of a command there (done, missing, present, changed, refused,
garbled) and the responses that say so in either protocol, external to this
repository.

### TcpConnection

`pc` is the place in `parser.send()`: in one of the four operations (connect,
write, read the header, read the body) or between two. `Open`, `Write`,
`ReadHeader`, `ReadBody` are the operations up to their `run_one()`; `Connected`,
`Written`, `HeaderRead`, `BodyRead` and `Failed` what follows the call's handler.
`Return` is the end of an exchange, with what `server_proxy_t::send` does: the
connection is used again or is dropped with its last pointer. The network hands
over any part of what the server sent, less than a unit included (`Partly`),
and `read_until` takes what is there beyond the line into `input`. The server
closes at any time, with or without what was on its way.

### UdpConnection

Requests and responses are sets of datagrams. `fill()` is `Receive`, then
`PacketAccepted` once per datagram or `PacketRefused`, with `place` and `count`
for the locals. `PartialInput` is the error of a message that ends too early.
Datagrams may be lost, repeated, late or out of order; requests lost or late.
The constructor of `packet_t` draws an identifier, here any one of `PacketIds`;
where it is that of a request or a response still under way no client could
tell them apart, and `ambiguous` says so.

### Commands and ProtocolTests

A command is a record of what its constructor keeps. `TxtRequest` and
`BinRequest` are `serialize()` with its lengths, opcodes and extras;
`Serializes` is `check_key`. `Receive` is `deserialize_response` and
`deserialize_body` on the units of a reply, with `set_body` of each class: the
footer, the flags and a key are cut off, compressed data are inflated. `opts_t`
has one field for cas, iterations and initial value, as its union does. A
number's text and its conversions have the width of a word as a parameter
(`MaxWord`), so that a run may go over the edge of a signed number.
`IsBlock`/`Uncompress` keep of zlib what matters here: a block has a begin and
an end, and what follows the end is not looked at.

`ProtocolTests` is every case of the two test programs: the request that must be
written, the reply, the code, what must be left in the connection and, where
the test looks at it, data, flags and cas. Numbers of 32 bits and more are
small ones here.

### TypedValues

One item of one server (`item`: data, flags, cas identifier) is stored, joined,
counted, deleted and updated by Python programs and by C++ programs of either
protocol. A call of a method is one step; `atomic_update` of Python is three,
between which the others go on. `Marked`, `Markable` and `DataFromString` are
the wrapper's `to_string` and `data_from_string` with the marks in the upper
bits of the flags; `OptsFromDict` is the converter of the options. What the
server does with a request is external (`TxtEffect`, `BinEffect`).
`meaning` is a history variable: the object the item stands for and which
program stored it, or `Unknown` where nobody could say (a number beyond a
signed one, text joined to a number). `blended` is another: compressed data were
joined, or something was joined to them. `Characters` are what strings consist
of; the end of a compressed block is none of them: where deflated data end is
in the stream itself, and no text that was deflated can end it early.

## 3. Runs

| run | instance | states | shows |
|---|---|---|---|
| `proxy_threads` | 3 threads, 1 process, 4 connections, pool of 1, `FailLimit` 2, `Interval` 2, `MaxStall` 1 | 1.44M | `TypeOK`, `ConnExclusive`, `PoolBounded`, `DeadHasDeadline`, `LockNotLeaked`, `NextReconnectAhead`, `OneProbePerInterval` |
| `proxy_crash` | 2 processes, one crash, `FailLimit` 2, `Interval` 1 | 481k | `OutageIsNoticed` and `RecoveryIsNoticed` with a crash between any two steps |
| `ring_walk` | hashes 0..4, 3 addresses, chains of 2 nodes, every key; a mod pool of 3 | 116k | `TypeOK`, `WholeRing`, `WalkEnds`, `NoKeyTravels`, `AddMovesOnlyToNew`, `FailoverIsRemoval` |
| `client_run` | 2 clients, 2 servers with nodes 1, 2, 3 on the ring, keys at the first and at the last node, `max_continues` 4 | 646k | `TypeOK`, `OutOfServersMeansNoAnswer`, `EveryServerTried`, `FlushedEverywhere`, `RestoredServerFallsBack` |
| `atomic_update` | 2 clients, 1 server, 2 iterations, values modulo 2, one late command | 1.38M | `NoIterationInVain`, `ImplementsRegister` |
| `connection_pool` | 3 threads, each of the four pools, 5 connections, `MaxPool` 2 | 5k | `TypeOK`, `ImplementsPool`; the assumptions of `PoolTests` |
| `tcp_connection` | all commands of both protocols, values up to 2, timeouts 1, 1, 2 | 104k | `TypeOK`, `OneWait`, `TimeoutMeansDeadline`, `PendingHasDeadline`, `ResponseOfRequest`, `ResultMeansOutcome`, `OperationEnds` |
| `udp_connection` | get and add of both protocols, 2 identifiers, values up to 1, responses of 1 or 2 datagrams, one late datagram | 1.03M | `TypeOK`, `ResponseOfRequest`, `ResultMeansOutcome`, `ExchangeEnds` |
| `typed_values` | words of 0..23, items of 3 characters, 2 iterations | 142k | `TypeOK`, `TypedRead`, `IncrTells`, `UpdateSeesItem`; the assumptions of `ProtocolTests` |
| `reconnect_exclusion` | 2 threads, `FailLimit` 1 | | violation, section 5 |
| `replace_missing` | as `tcp_connection` | | violation, section 5 |
| `append_compressed` | as `typed_values` | | violation, section 5 |

Why the bounds are enough:

* Three threads are one inside the critical section, one that loses
  `try_lock` and frees it, and one that then enters. Four connections are one
  for each thread and one in the pool; a pool of one is full at once and with
  three threads outgrown at once if the test were wrong.
* `FailLimit` 2 has a failure that is counted and does not kill; `FailLimit` 1
  makes every failure decisive. `Interval` 2 leaves a unit of time in the
  middle of an interval. A thread may be suspended between reading the clock
  and its last use of the reading, for `MaxStall` of the intervals' units:
  without that bound a restoration time may be stored arbitrarily late and
  every statement about intervals is false. It is the only assumption on
  scheduling that the safety properties make, and the theorems hold for any
  `MaxStall`.
* `MaxCrashes` 1: one crash is enough to leave the lock taken for ever, or a
  dead mark half made; the properties are about what follows.
* In `ring_walk` five hashes are enough for three addresses whose chains of
  two collide with one another, run into their own cycles, wrap, and leave a
  key past the last node; a ring of one node and an address without a node
  occur.
* In `connection_pool` two pooled connections are one that a `clear()` has
  seen and one that is pushed meanwhile; a third thread picks.
* In `typed_values` 23 is the largest word and 11 the largest signed number:
  amounts of 8 reach both edges, and have two digits and one. Strings of no
  character and of one, one float that is rounded when it is printed, -1 (no
  number to the server) and 5; flags that are a mark of the wrapper's, the
  compress bit, or none. Three characters (`MaxLen`) hold a compressed
  character, string or number, a float or a string with two joins; counts make
  the numbers of two digits. What is joined is strings
  (`Storable`); calls that come between two steps of `atomic_update` have no
  options (`DictsNow`), and `atomic_update` itself is not given a cas or an
  initial value, which it would take for a number of iterations
  (`UpdateDicts`).
* In `client_run` the key at the first node meets five changes of server in
  the walk, more than `max_continues` 4, so the loop ends by the count; the
  key at the last node meets three, so it ends with the walk. `H404` 2 and
  `MaxDelay` 1 leave a window of one unit to be told from its end. `get` is
  the command with the h404 rule, `set` stands for those without it.
* In `tcp_connection` two numbers of requests tell a response from that of the
  request before; a value of no unit, of one and of two leaves a rest in the
  buffer, fits, or comes in pieces. A timeout of 2 for reads lets a call make
  progress before its deadline; timeouts of 1 leave one moment before it.
* In `udp_connection` `get` has a response with a body and `add` answers that
  differ between the protocols; two datagrams have a first and a last one, and
  a late one of the request before can be put in the place of either. Timeouts
  of 0 for connect and write (in whose place the deadline may thus fire at
  once) and of 1 for reads keep the run small: what deadlines do is the subject
  of `tcp_connection` and of the theorems.
* In `atomic_update` values count modulo two, so that a callback applied twice
  or to the wrong value shows; two iterations are one that is lost and a last
  one. Five cas identifiers are more than two clients, one late command and
  the item can remember, so a fresh one always exists.

`CHECK_DEADLOCK FALSE` is given where the model really stops: a walk that has
ended, and clients under a `MaxDelay` bound.

### Fairness

* `Scheduling`: each thread that can step does (weak fairness). Nothing in the
  proxy blocks: the lock is tried, the pool's mutex is held for a few
  instructions and is part of a step. The threads keep calling: a proxy
  notices nothing by itself.
* Weak fairness of `Tick`: time passes.
* `GoodCommands`: strong fairness of `Answered`. A thread that can talk to its
  server over and over is answered at some time; without it every command
  could be one that `serialize` refuses (a bad key), and a server that hangs
  on every command would count as one that is up. `GoodNames`: likewise strong
  fairness of `Connect`; a server whose name is never resolved is not marked
  dead, see section 5.
* `RingWalk`: weak fairness of the loop's step.
* Connections: the thread that is in an operation runs the handlers that are
  ready (weak fairness of the two handlers each, so asio passes neither over
  for ever) and time passes. For `ExchangeEnds` the thread also goes on between
  two operations. Nothing is assumed of servers and networks: what makes an
  operation end is its deadline.

No other liveness is claimed. `client_run` and `atomic_update` are checked for
safety only.

## 4. Proofs

`ServerProxyProofs` proves for any set of threads, processes and connections,
any assignment of threads to processes, any limits and any stall bound:

| theorem | states | by |
|---|---|---|
| `TypeCorrect` | `Spec => []TypeOK` | inductive with `UserHasConn`: a thread in the exchange, and until its connection is returned, has one |
| `ConnectionsExclusive` | `Spec => []ConnExclusive` | `PoolInv`: types, exclusiveness and the bound together; only `Pick`, `Connect`, `ReturnConn` and `ProcCrash` give connections away |
| `PoolsBounded` | `Spec => []PoolBounded` | the same; finiteness of a pool is part of the invariant since cardinality says nothing otherwise |
| `DeadServersHaveDeadline` | `Spec => []DeadHasDeadline` | `DeadlineInv`: besides a dead server, a thread that is about to store `dead` has stored `restoration`, and no step puts back the initial time |
| `ReconnectsAreAhead` | `Spec => NextReconnectAhead` | an action property from the types: a reading is never older than `MaxStall` |
| `ProbesAreApart` | if `Interval > MaxStall`, `AuditSpec => OneProbePerInterval` | an action property from `ProbedWait`: while anybody has probed in this interval `restoration` is ahead, and none of those who have is past the check of it; the lock is not needed. With `Interval <= MaxStall` it is false: a reading may be so old that the time stored is over already |
| `LockGivenBack` | with one process, `Spec => []LockNotLeaked` | every step that takes the lock enters the section and every step that leaves it frees the lock; false with several processes, since one may die inside |

`RingWalkProofs` proves all five invariants of `ring_walk`, for any range of
hashes, any number of virtual nodes and of addresses, any chains and any key:

| theorem | states | by |
|---|---|---|
| `TypeCorrect` | `Spec => []TypeOK` | `RingVisits`: how often the walk has been at a node follows from where it began, where it is and whether it wrapped; `TypeOK` alone cannot say that no node is visited a third time |
| `WalksAreWhole` | `Spec => []WholeRing` | `RingVisits` at the end of the walk, and `ChooseIs`: where a walk begins |
| `ModOffersOne` | `Spec => []NoKeyTravels` | `ModVisits` |
| `OnlyNewTakesOver` | `Spec => []AddMovesOnlyToNew` | `OneMoreServer`: the ring of more addresses extends that of fewer |
| `FailoverRemoves` | `Spec => []FailoverIsRemoval` | `RingVisits`: what has not been visited is behind or ahead of the walk |

The lemmas below them (`LowerBoundIs`, `BeginIsFirst`, `NextNode`, `ChooseIs`,
`RingIs`) are about any ring; they rest on the least element of a set of natural
numbers, which the library's well-founded induction gives (`Minimum`). That a
walk ends is liveness and stays with TLC.

`ConnectionPoolProofs` proves of each of the four pools, for any threads,
connections and capacity:

| theorem | states | by |
|---|---|---|
| `TypeCorrect` | `Spec => []TypeOK`, the bound of the pool included | `IInv`: a thread holds a connection exactly while it uses one, and the single pointer is empty while its user has the connection |
| `PoolsImplement` | `Spec => ImplementsPool` | every step is one of `Pool` or changes none of its variables; `StaleIsPooled`: what a `clear()` has yet to see leaving is in the pool, so an empty pool owes nothing |

The socket's theorems are proved of the socket alone first, under any use of
its operations (`SockSpec`), and carried over to the two connections by showing
that each of their steps is one of the socket or leaves it alone
(`TcpUsesSocket`, `UdpUsesSocket`): for all timeouts, sizes, servers and
networks.

| theorem | states | by |
|---|---|---|
| `SocketSafe` | `SockSpec => [](OneWait /\ TimeoutMeansDeadline /\ PendingHasDeadline)` | `SockInv`: besides the types and `OneWait`, a deadline that is due has passed, one acted upon is gone, and an open socket has one |
| `TcpOneWait`, `TcpTimeout`, `TcpDeadline` | each of the three, of `TcpConnection` | `TcpUsesSocket` |
| `TcpConnected` | `Spec => ConnectedIsOpen` | an action property: no other step ends a connect |
| `UdpSafe` | the three of `UdpConnection` | `UdpUsesSocket` |

`PendingHasDeadline` is not inductive: a deadline handler that finds `left` = 0
is told from one of an operation before only by `DeadlineOK`.

What is read for a request is proved on top of `ReplyIs`, about the functions
of `Protocol`: every response that a server may give to a command, in either
protocol and of any size, begins with a line or a head whose header tells what
became of the command and, if the code was understood, announces all the units
that follow.

| theorem | states | by |
|---|---|---|
| `TcpInvariant` | `Spec => []TcpInv` | `TcpInv`: what is in the input buffer and on the wire is the rest of one response to the current request (`StreamOK`), and the header at its front, or the code and size read of it, announce that rest (`FlowOK`) |
| `TcpTypeCorrect`, `TcpResponseOfRequest` | `Spec => []TypeOK`, `Spec => []ResponseOfRequest` | `TcpInvariant` |
| `TcpResultMeansOutcome` | `Spec => ResultMeansOutcome` | an action property: only `Return` tells the client, and `TcpInv` says what the code stands for then |
| `UdpInvariant` | `Spec => []UdpInv` | `UdpInv`: unless `ambiguous`, the identifier tells what is under way for the current request from the rest; nothing of it has been accepted before the server answered (`Unserved`), and then the datagrams are the parts of one response, of which the buffer has the first ones in order (`Answer`, `Progress`) |
| `UdpTypeCorrect`, `UdpResponseOfRequest`, `UdpResultMeansOutcome` | as for TCP, the last two unless `ambiguous` | `UdpInvariant` |

`ResponseOfRequest` is not inductive in either. A connection returned to its
pool has nothing buffered because the *header* announced everything, which has
to be known from the moment the server answered; and over UDP a datagram is put
into the buffer before `fill()` looks at it, so the buffer is that of the
response only outside of that step (`Filled`).

`ClientProofs` proves of the client, for any ring (empty addresses, collisions
and a single server included), any clients, commands, limits and durations:

| theorem | states | by |
|---|---|---|
| `ClientInvariant` | `Spec => []IInv` | `Running`: the servers of all nodes the iterator is past are in the log, the log has a visit for every continue, and `out_of_servers` is set exactly while no visit had an answer; `RunningAll`: the log of `run_all` has the servers below its index |
| `ClientTypeCorrect` | `Spec => []TypeOK` | `ClientInvariant`; that a client which sends has a server needs `Sending`: the iterator is not at the end |
| `ClientTellsOutOfServers` | `Spec => OutOfServersMeansNoAnswer` | an action property from `Returning`, the ways a command ends |
| `ClientTriesAll` | `Spec => EveryServerTried` | the loop ended with the walk, which is past every node then (`EndIsPast`) |
| `ClientFlushesAll` | `Spec => FlushedEverywhere` | `RunningAll` at the last index |
| `AuditInvariant` | `AuditSpec => []AInv` | with the history variable: a dead server that is being asked was declared dead or probed since its client came to it (`ProbeOK`), so a live one was probed no longer before its restoration than a request takes (`RevivedOK`) |
| `RestoredFallsBack` | `AuditSpec => RestoredServerFallsBack` | `AuditInvariant`: `lifespan()` is short enough inside the window, and the loop goes on |

What a walk has been past is stated with where it began, where it is and
whether it wrapped (`Past`), and rests on the least node above a hash, as the
lemmas of `RingWalkProofs` do; `ClientProofs` has the few it needs.

And of `atomic_update`, for any number of clients and iterations, any callback
that is a function of the value, any cas identifiers and any limits, with one
server:

| theorem | states | by |
|---|---|---|
| `UpdateInvariant` | `Len(Nodes) = 1 => (USpec => []UpdateInv)` | `MatchOK`: if the item has the cas identifier a client holds it is the item the callback was given; `LateOK`: the same of a late command; `AppliedOK`: what changed the item is the last command of its update, whose answer is lost or positive; `VisitOK`: the one server is visited once in a command |
| `UpdatesNotInVain` | `... => []NoIterationInVain` | `VainOK`: an iteration has had its change, or nothing stands in its way yet (`Steady`) |
| `UpdateImplementsRegister` | `... => ImplementsRegister` | each step is one of the register or of nothing. Every step of `run()` is one of five (`RunDigest`): it stays, goes on without an answer, goes on after a 404, gives up, or is told. Where one of them changes the item, `MatchOK` makes the new value `Callback` of the present one, so the step is `Apply`; where the server was out of reach it is `GiveUp`. A server's step is `Forget`, `LoseLoose` or `ApplyLoose` (`ServerDigest`) |

The refinement needs the invariant in every one of its steps: `cas` compares
identifiers, and only `MatchOK` says that an equal identifier means the value
the callback saw. `MatchOK` is inductive only because a new identifier is one
that nobody remembers (`FreshIs`), among them the reader, the waiting command
and the late one. `Len(Nodes) = 1` is not for convenience: with several servers
both statements are false of the code, which chooses the server of `gets` and
of `cas` independently (section 5).

`TypedValuesProofs` proves of an item and its programs, for any strings, longs,
floats, amounts and flags, any number of iterations and words of any width:

| theorem | states | by |
|---|---|---|
| `Inductive` | `Spec => []IInv` | `ItemOK`: where data are compressed, or were joined to compressed data, a block begins, so a server never takes them for a number; `MeaningOK`: unless blended, the data are some text, compressed if the flags say so, and the text represents the object the item stands for, whose mark the item has if Python stored it; `ToldOK`; `UpdateOK`: an item that has the identifier `atomic_update` holds is what its callback was given |
| `TypeCorrect` | `Spec => []TypeOK` | `Inductive`; one mark at most, since `to_string` refuses flags that have one |
| `ToldIsCounted` | `Spec => []IncrTells` | `ToldOK` |
| `WhatWasStoredIsRead` | `Spec => []TypedRead` | `MeaningOK` and `ReadBack`: a text that represents an object is converted to that object |
| `UpdateSeesWhatItReplaces` | `Spec => UpdateSeesItem` | an action property from `UpdateOK`: `cas` succeeds only for the item seen, `add` only where there is none |

None of the four holds by itself from step to step. `TypedRead` says what a
reader makes of the item, but after an append or a count only the text tells
what the next reader will make of it; `IncrTells` would break if `incr` counted
compressed data; `UpdateSeesItem` needs that an identifier is given to one item
only, which `Stored` keeps by taking one that neither the item nor a reader
has.

Below them are lemmas about what the code computes. Printing a number and
reading it are inverse (`TextReads`, `NumberIs`, `AsSignedIs`, `AsFloatIs`), for
every number of the word: an induction over digits, written as the least
counterexample of a set of numbers that has none (`Descent`). Deflating and
inflating are inverse (`CompressIs`). Whatever the protocol, `gets` delivers the
item's data and flags (`FoundIs`), a command that changed nothing is told as such
(`FailureIs`), and storing and counting are told as done exactly if they were
(`StoredIs`, `StoreIs`, `CountIs`). What `decr` leaves in the text protocol, a
number with spaces behind it, still reads as that number.

The assumptions are those of the modules: `ProcOf` is a function of threads to
processes, the null connection is not a connection, the limits are natural
numbers, and so are the timeouts; a pool of addresses has one at least, and no
more than there are hashes; the nodes of an address are hashes; `None` and
`NoItem`, which stand for null pointers and a key a server does not know, are no
server, command, response or item; commands store data the model has; the
callback makes data of data; and the commands of `atomic_update` are among those
the client can be given. Of typed values: the largest word is odd, as that of
any number of bits is; longs are signed numbers of that width, amounts, initial
values and identifiers unsigned ones, floats not negative; strings do not hold
the end of a block; and an item has room for the text of any number. No constant
has to be finite. TLC evaluates each
assumption in the runs.

`TypeOK` of the proxy is not inductive alone: `ReturnConn` pushes `conn[t]` into
a pool and only `UserHasConn` says that this is not null. `DeadHasDeadline` is
not either: `MarkDead` would break it from a state where restoration was never
stored.

Only model-checked: liveness, for the prover has no fairness. That is
`WalkEnds`, `OutageIsNoticed`, `RecoveryIsNoticed`, `OperationEnds` and
`ExchangeEnds`. Every other property of a passing run is stated by a theorem.
The assumptions of `PoolTests` and `ProtocolTests` are evaluated by TLC.

## 5. Where the code and its documentation part

Each of these is a run that TLC must find violated.

* `reconnect_exclusion`. `shared_t::lock` is "for reconnect critical sec"
  (`server-proxy.h:104`). `scope_guard_t` unlocks whatever `try_lock`
  returned, so a thread that lost frees the lock of the thread inside and a
  third thread, or the loser's next call, enters. `proxy_threads` shows that
  the safety properties survive that, and `proxy_crash` that the same slip is
  what saves the library when a process dies inside the section: with the slip
  mended, the lock is never free again and a dead server stays dead
  (the fault `LoserLeaves`).
* `replace_missing`. `replace` returns "true if value was replaced"
  (`client.h:217`), and false in the text protocol for a key that is not there.
  In the binary protocol a server answers such a replace with "not found", which
  the method does not know: it throws.
* `append_compressed`. `append` returns "true if value was appended"
  (`client.h:257`). To an item that was stored compressed the server appends
  behind the block and leaves the flags alone; `uncompress` stops at the end of
  the block (`zlib.cc:82`), so nobody ever reads what was appended. After a
  `prepend` the item begins with no block, and reading it throws. `TypedRead`
  leaves such items out.

Seen as well, without a run of their own:

* A server is marked dead on a network error or an error of the protocol
  (`doc/index.txt:156`). Only `io::error_t` is handled: a response that does
  not parse counts as a success and resets `fails` (`server-proxy.h:167`).
* `cas` chooses its server anew. A `cas` of `atomic_update` that fails at the
  server that was read goes on to the next one (`client.h:636`), and compares an
  identifier of one server at another: if the two are equal, a value is replaced
  that the callback was never given.
* For the same reason `atomic_update` may use up its iterations without
  contention: within the h404 window `gets` is answered by a neighbour, and
  `cas` by the primary server.
* `incr` and `decr` read the number they tell with `atoll`: above the largest
  signed number they tell that one and not the item's. `IncrTells` says just so
  much.
* In Python `incr` of a missing key makes an item without a mark, which `get`
  then returns as a string; `atomic_update` stores without the flags that the
  item had or that the caller gave, compression included; the callback is given
  `None` for an item that is there, empty and without flags; a float keeps six
  decimals; and the entries `cas`, `iters` and `initial` of a dict of options
  share a field, so that an initial value given to `set` is sent as a cas
  identifier.
* One thread or process is chosen to try a dead server (`doc/index.txt:158`).
  The time is checked before the lock is taken and not again under it, so
  several threads that passed the check probe in turn. What does hold is
  `OneProbePerInterval`: the same thread does not probe twice.
* The number of hops is limited by the number of servers
  (`doc/index.txt:152-154`). It is limited by `max_continues` and by the nodes
  of the ring; the server just visited is skipped, one visited before is not.
* A failure whose `try_lock` loses is not counted in `fails`, against
  `doc/index.txt:328`; `OutageIsNoticed` shows that the others are enough.
* A name that is not resolved is no `io::error_t`: such a server is never
  marked dead and every command for it ends in an exception (`Unresolved`,
  `Escape`).

## 6. Not modelled, and the plan

Not modelled for good:

* the hash functions (`src/hash`): third-party arithmetic on words of 32 and 64
  bits. The ring is checked and proved for every hash function instead;
* `init.cc`: a flag, tested and set without synchronization, that the
  documentation asks to be set once before any thread starts;
* the logger and the texts of errors, packaging and the powertest script;
* FRPC and protobuf conversions, `to_mcache`/`from_mcache`: code of the
  applications or of libraries outside this repository;
* boost::python's registration, `touch`, `delete` and the defaults of `get` in
  the wrapper: they add nothing to the client's methods.

Simplifications that a reader should know: the clock only moves forward; in
`ServerProxy` a `clear()` is atomic as that of the locking pool is (that of the
tbb queue is in `ConnectionPool`, where the library's `clear()` is taken to be a
loop of `try_pop`); memcached takes any binary storage command with an
identifier for a `cas`, and gives every datagram its whole header (`receive()`
does not check that, `connection.cc:446`); `ClientRun` has the codes of the binary
protocol and lets `incr`, `decr`, `touch`, `replace`, `append` and `prepend` go
through `run()` as `set` does (their requests, framing and codes are in
`Commands` and `Protocol`, their effect on an item in `TypedValues`); expirations
are sent and never run out; floats are not negative and have one decimal; a key
is its length and whether it is free of spaces; a request duplicated by the
network is executed once, since its two responses carry one identifier.

Done: the proxy, both kinds of pools, the client loop, `atomic_update`, both
connections, requests and responses of both protocols, typed values and the
wrapper, the unit tests of protocols and of pools of addresses. What is left, in
this order:

1. Liveness of `run()`: every command returns, under the fairness of `send()`.
2. `ClientRun` over a mod pool.
3. What of `atomic_update` holds over several servers whose identifiers never
   coincide.
4. `RecoveryIsNoticed` with two threads on one pool, one of which returns a
   connection after the other has cleared the pool: `proxy_crash` has one thread
   per process.
