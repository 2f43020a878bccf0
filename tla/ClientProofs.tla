---------------------------- MODULE ClientProofs ----------------------------
(***************************************************************************)
(* Theorems about the client, for any ring, servers, clients and limits:   *)
(* run() and run_all() of client.h, the fallback after a restoration, and  *)
(* atomic_update with one server as an atomic register.                    *)
(***************************************************************************)
EXTENDS AtomicUpdate, ClientRunAudit, FiniteSetTheorems, SequenceTheorems,
        WellFoundedInduction, TLAPS

-----------------------------------------------------------------------------
(* The inductive invariant of the client.                                  *)

(* Where walks of the key start.                                           *)
From == Choose(ring, key).node

(* The walk that is at i has been past node p.                             *)
Past(i, p) ==
    \/ From <= p /\ (i.stop \/ p < i.node)
    \/ i.stop /\ p < i.node

(* A walk that has not wrapped is past no node before its start, and only  *)
(* one that has wrapped ends.                                              *)
WalkOK(i) ==
    /\ i \in Iterators
    /\ ~i.stop => From <= i.node
    /\ i.node = End /\ DOMAIN ring # {} => i.stop

(* run(): the log has a visit for every continue, and the servers of all   *)
(* nodes the walk is past.                                                 *)
Running(c) ==
    /\ cmd[c] \in Commands /\ cmd[c].kind # "flush_all"
    /\ WalkOK(it[c])
    /\ \A p \in DOMAIN ring : Past(it[c], p) => ring[p] \in Visited(c)
    /\ \A s \in Visited(c) : \E p \in DOMAIN ring : s = ring[p]
    /\ conts[c] = Len(log[c])
    /\ outOfServers[c] <=> ~Answered(c)

Looping(c) ==
    /\ Running(c)
    /\ prev[c] # None => prev[c] \in Visited(c)

Sending(c) ==
    /\ Running(c)
    /\ it[c].node # End
    /\ prev[c] = Deref(ring, it[c])
    /\ conts[c] < MaxContinues

(* run_all(): the log has one visit for each server there was.             *)
RunningAll(c) ==
    /\ cmd[c] = [kind |-> "flush_all"]
    /\ it[c] \in 0 .. Len(Nodes)
    /\ Len(log[c]) = it[c]
    /\ \A i \in 1 .. it[c] : log[c][i][1] = i - 1

ClientOK(c) ==
    /\ pc[c] \in {"idle", "loop", "send", "all", "sendAll"}
    /\ log[c] \in Seq(Servers \X Outcomes)
    /\ conts[c] \in 0 .. MaxContinues
    /\ outOfServers[c] \in BOOLEAN
    /\ age[c] \in 0 .. MaxDelay
    /\ result[c] \in Replies \cup {None}
    /\ pc[c] = "idle" => cmd[c] = None /\ log[c] = <<>>
    /\ pc[c] = "loop" => Looping(c)
    /\ pc[c] = "send" => Sending(c)
    /\ pc[c] \in {"all", "sendAll"} => RunningAll(c)
    /\ pc[c] = "sendAll" => it[c] \in Servers

ByClient(f) == f = [c \in Clients |-> f[c]]

Framed ==
    /\ ByClient(pc) /\ ByClient(cmd) /\ ByClient(it) /\ ByClient(prev)
    /\ ByClient(conts) /\ ByClient(outOfServers) /\ ByClient(age)
    /\ ByClient(result) /\ ByClient(log)

ServersOK ==
    /\ key \in KeyHashes
    /\ dead \in [Servers -> BOOLEAN]
    /\ restoration \in [Servers -> Never .. Interval]
    /\ fails \in [Servers -> 0 .. FailLimit]
    /\ late \in [Servers -> Commands \cup {[kind |-> "flush_all"], None}]
    /\ item \in [Servers -> Items \cup {NoItem}]

IInv == ServersOK /\ Framed /\ \A c \in Clients : ClientOK(c)

(* A dead server that is being asked was declared dead, or probed, since   *)
(* the client came to it: send() is in progress for no shorter time.       *)
ProbeOK ==
    \A c \in Clients :
       pc[c] \in {"send", "sendAll"} /\ dead[Target(c)]
          => Interval - restoration[Target(c)] <= age[c]

(* What a server that was restored knows of the time since.                *)
RevivedOK ==
    /\ revived \in [Servers -> Int]
    /\ \A s \in Servers :
          ~dead[s] /\ revived[s] < Window
             => Interval - restoration[s] <= revived[s] + MaxDelay

-----------------------------------------------------------------------------
(* The ring and its walks.                                                 *)

(* A set of natural numbers has a least element.                           *)
LEMMA Minimum ==
    ASSUME NEW T, T \subseteq Nat, T # {}
    PROVE  \E x \in T : \A y \in T : x <= y
<1>1. PICK x \in T : \A y \in T : <<y, x>> \notin OpToRel(<, Nat)
  BY WFMin, NatLessThanWellFounded
<1>2. \A y \in T : x \in Nat /\ y \in Nat /\ ~(y < x)
  BY <1>1 DEF OpToRel
<1> QED BY <1>2

(* The positions of the ring are hashes, and its nodes belong to servers.  *)
LEMMA RingFacts ==
    /\ DOMAIN ring \subseteq Hashes
    /\ \A p \in DOMAIN ring : p \in Nat /\ p < End /\ ring[p] \in Servers
    /\ End \in Nat /\ Len(Nodes) \in Nat
<1>1. Len(Nodes) \in Nat /\ Nodes \in [1 .. Len(Nodes) -> SUBSET Hashes]
  BY NodesAssumption
<1>2. DOMAIN ring = UNION {Nodes[i] : i \in 1 .. Len(Nodes)}
  BY <1>1 DEF ring, Ring
<1>3. ASSUME NEW p \in DOMAIN ring PROVE ring[p] \in Servers
  <2> DEFINE first(i) == p \in Nodes[i] /\ \A j \in 1 .. i - 1 : p \notin Nodes[j]
             at == {i \in 1 .. Len(Nodes) : p \in Nodes[i]}
             c == CHOOSE i \in 1 .. Len(Nodes) : first(i)
  <2>1. at \subseteq Nat /\ at # {}
    BY <1>2
  <2>2. PICK i \in at : \A j \in at : i <= j
    BY <2>1, Minimum
  <2>3. c \in 1 .. Len(Nodes)
    BY <2>2
  <2>4. ring[p] = c - 1
    BY <1>1, <1>2 DEF ring, Ring
  <2> QED BY <1>1, <2>3, <2>4 DEF Servers
<1> QED BY <1>1, <1>2, <1>3, HashAssumption DEF Hashes, End

(* The lower bound of a number is the first node not before it, if any.    *)
LEMMA LowerBoundIs ==
    ASSUME NEW h \in Nat
    PROVE  LET first == LowerBound(ring, h)
           IN  /\ first \in DOMAIN ring \cup {End}
               /\ \A p \in DOMAIN ring : h <= p <=> first <= p
               /\ first # End => h <= first
<1> DEFINE above == {p \in DOMAIN ring : h <= p}
<1>1. CASE above # {}
  <2>1. PICK p \in above : \A q \in above : p <= q
    BY <1>1, RingFacts, Minimum
  <2>2. IsLowerBound(ring, h, p)
    BY <2>1 DEF IsLowerBound
  <2>3. IsLowerBound(ring, h, LowerBound(ring, h)) /\ LowerBound(ring, h) \in DOMAIN ring
    BY <1>1, <2>2 DEF LowerBound, IsLowerBound
  <2> HIDE DEF above
  <2> QED BY <2>3, RingFacts DEF IsLowerBound
<1>2. CASE above = {}
  <2>1. LowerBound(ring, h) = End
    BY <1>2 DEF LowerBound
  <2> QED BY <1>2, <2>1, RingFacts
<1> QED BY <1>1, <1>2

(* The hash of the key is one of the hashes of the ring.                   *)
LEMMA KeyHash == key \in KeyHashes => key \in Hashes /\ key \in Nat
  BY LimitAssumption, HashAssumption DEF Hashes

(* The first node of all, where a walk wraps.                              *)
LEMMA BeginIsFirst ==
    ASSUME DOMAIN ring # {}
    PROVE  Begin(ring) \in DOMAIN ring /\ \A p \in DOMAIN ring : Begin(ring) <= p
<1> DEFINE first == Begin(ring)
<1>1. first \in DOMAIN ring \cup {End} /\ \A p \in DOMAIN ring : 0 <= p <=> first <= p
  BY LowerBoundIs, 0 \in Nat DEF Begin
<1> HIDE DEF first
<1>2. \A p \in DOMAIN ring : first <= p /\ first # End
  BY <1>1, RingFacts
<1> QED BY <1>1, <1>2 DEF first

(* Where choose() starts a walk of the key.                                *)
LEMMA ChooseIs ==
    ASSUME key \in KeyHashes
    PROVE  /\ Choose(ring, key) = [node |-> From, stop |-> FALSE]
           /\ DOMAIN ring = {} => From = End
           /\ DOMAIN ring # {} => From \in DOMAIN ring
<1> DEFINE first == LowerBound(ring, key)
<1>1. Choose(ring, key) = [node |-> IF first = End THEN Begin(ring) ELSE first,
                           stop |-> FALSE]
  BY DEF Choose, Iter
<1>2. first \in DOMAIN ring \cup {End} /\ Begin(ring) \in DOMAIN ring \cup {End}
  BY KeyHash, LowerBoundIs, 0 \in Nat DEF Begin
<1> QED BY <1>1, <1>2, BeginIsFirst DEF From

(* A walk starts past no node: choose() gives the first one at or after    *)
(* the key.                                                                *)
LEMMA ChooseWalks ==
    ASSUME key \in KeyHashes
    PROVE  /\ WalkOK(Choose(ring, key))
           /\ \A p \in DOMAIN ring : ~Past(Choose(ring, key), p)
<1>1. /\ Choose(ring, key) = [node |-> From, stop |-> FALSE]
      /\ DOMAIN ring = {} => From = End
      /\ DOMAIN ring # {} => From \in DOMAIN ring
  BY ChooseIs
<1>2. From \in DOMAIN ring \cup {End} /\ From \in Nat
  BY <1>1, RingFacts
<1> HIDE DEF From
<1>3. WalkOK(Choose(ring, key))
  BY <1>1, <1>2, RingFacts DEF WalkOK, Iterators
<1>4. \A p \in DOMAIN ring : ~Past(Choose(ring, key), p)
  BY <1>1, <1>2, RingFacts DEF Past
<1> QED BY <1>3, <1>4

(* On a ring with a node, walks start at a node.                           *)
LEMMA FromIs ==
    ASSUME key \in KeyHashes, DOMAIN ring # {}
    PROVE  From \in DOMAIN ring /\ From \in Nat
  BY RingFacts, ChooseIs

(* The increment of the iterator passes the node it was at, and no other.  *)
LEMMA IncrementWalks ==
    ASSUME key \in KeyHashes, NEW i, WalkOK(i), i.node # End
    PROVE  /\ WalkOK(Increment(ring, i))
           /\ \A p \in DOMAIN ring :
                 Past(Increment(ring, i), p) => Past(i, p) \/ p = i.node
<1> DEFINE next == LowerBound(ring, i.node + 1)
           j == Increment(ring, i)
<1>1. i \in Iterators /\ i.node \in DOMAIN ring /\ i.stop \in BOOLEAN
  BY DEF WalkOK, Iterators
<1>2. i.node \in Nat /\ From \in Nat /\ From \in DOMAIN ring
  BY <1>1, RingFacts, FromIs
<1>3. \/ next = End /\ \A p \in DOMAIN ring : p <= i.node
      \/ /\ next \in DOMAIN ring
         /\ i.node < next
         /\ \A p \in DOMAIN ring : p <= next <=> p <= i.node \/ p = next
  <2>1. /\ next \in DOMAIN ring \cup {End}
        /\ \A p \in DOMAIN ring : i.node + 1 <= p <=> next <= p
        /\ next # End => i.node + 1 <= next
    BY <1>2, LowerBoundIs, i.node + 1 \in Nat
  <2> HIDE DEF next
  <2> QED BY <1>2, <2>1, RingFacts
<1>4. ~i.stop => From <= i.node
  BY DEF WalkOK
<1> HIDE DEF next
<1>5. CASE next = End /\ ~i.stop
  <2>1. j = [node |-> Begin(ring), stop |-> TRUE]
    BY <1>5 DEF Increment, next
  <2>2. Begin(ring) \in DOMAIN ring /\ \A p \in DOMAIN ring : Begin(ring) <= p
    BY <1>1, RingFacts, BeginIsFirst
  <2>3. WalkOK(j)
    BY <2>1, <2>2, RingFacts DEF WalkOK, Iterators
  <2>4. ASSUME NEW p \in DOMAIN ring, Past(j, p) PROVE Past(i, p) \/ p = i.node
    <3>1. p \in Nat /\ Begin(ring) \in Nat /\ p <= i.node /\ From <= p
      BY <1>3, <1>5, <2>1, <2>2, <2>4, RingFacts DEF Past
    <3> QED BY <1>2, <1>5, <3>1 DEF Past
  <2> QED BY <2>3, <2>4
<1>6. CASE next = End /\ i.stop
  <2>1. j = [i EXCEPT !.node = End]
    BY <1>6 DEF Increment, next
  <2>2. j.node = End /\ j.stop = i.stop /\ j \in Iterators
    BY <1>1, <2>1 DEF Iterators
  <2>3. WalkOK(j)
    BY <1>6, <2>2 DEF WalkOK
  <2>4. ASSUME NEW p \in DOMAIN ring PROVE Past(i, p) \/ p = i.node
    BY <1>2, <1>3, <1>6, RingFacts DEF Past
  <2> QED BY <2>3, <2>4
<1>7. CASE next # End
  <2>1. /\ next \in DOMAIN ring /\ i.node < next /\ next \in Nat
        /\ \A p \in DOMAIN ring : p <= next <=> p <= i.node \/ p = next
    BY <1>3, <1>7, RingFacts
  <2>2. j = [i EXCEPT !.node = next]
    BY <1>7 DEF Increment, next
  <2>3. j.node = next /\ j.stop = i.stop /\ j \in Iterators
    BY <1>1, <2>1, <2>2 DEF Iterators
  <2>4. WalkOK(j)
    BY <1>2, <1>4, <1>7, <2>1, <2>3 DEF WalkOK
  <2>5. ASSUME NEW p \in DOMAIN ring, Past(j, p) PROVE Past(i, p) \/ p = i.node
    <3>1. p \in Nat
      BY RingFacts
    <3>2. p < next => p <= i.node
      BY <2>1, <3>1
    <3> QED BY <1>1, <1>2, <2>1, <2>3, <2>5, <3>1, <3>2 DEF Past
  <2> QED BY <2>4, <2>5
<1> QED BY <1>1, <1>5, <1>6, <1>7

(* A walk that has ended has been past every node.                         *)
LEMMA EndIsPast ==
    ASSUME key \in KeyHashes, NEW i, WalkOK(i), i.node = End, NEW p \in DOMAIN ring
    PROVE  Past(i, p)
<1>1. i.stop /\ p \in Nat /\ p < End /\ From \in Nat
  BY RingFacts, FromIs DEF WalkOK
<1> QED BY <1>1 DEF Past

-----------------------------------------------------------------------------
(* The proxies and the servers.                                            *)

Given == Commands \cup {[kind |-> "flush_all"]}

(* The bounds of restoration, as numbers.                                  *)
LEMMA Times ==
    /\ Floor \in Int /\ Never \in Int /\ Never = Floor - 1 /\ Floor <= 0
    /\ Floor <= Interval - H404 /\ (Floor = 0 \/ Floor = Interval - H404)
    /\ Interval \in Nat /\ H404 \in Nat /\ MaxDelay \in Nat /\ FailLimit \in Nat
<1> DEFINE m == Most(0, H404 - Interval)
<1>1. /\ Interval \in Nat /\ H404 \in Nat /\ MaxDelay \in Nat /\ FailLimit \in Nat
  BY LimitAssumption
<1>2. m \in Nat /\ m >= H404 - Interval /\ (m = 0 \/ m = H404 - Interval)
  BY <1>1 DEF Most
<1>3. Floor = -m /\ Never = Floor - 1
  BY DEF Floor, Never
<1> HIDE DEF m
<1> QED BY <1>1, <1>2, <1>3

(* What a server answers, and has then, is of the right type.              *)
LEMMA ServeIs ==
    ASSUME NEW c \in Given, NEW i \in Items \cup {NoItem}, NEW k \in Tokens
    PROVE  /\ Serve(c, i, k)[1].code \in
                 {"ok", "stored", "exists", "deleted", "not_found"}
           /\ Serve(c, i, k)[1] \in Replies
           /\ Serve(c, i, k)[2] \in Items \cup {NoItem}
<1> DEFINE stored == <<Reply("stored"), Stored(c, k)>>
           exists == <<Reply("exists"), i>>
<1>1. c.kind \in {"set", "add", "cas"} => Stored(c, k) \in Items
  BY CommandsAssumption DEF Given, Stored, Items
<1>2. \/ i # NoItem /\ Serve(c, i, k) = <<[code |-> "ok", item |-> i], i>>
      \/ c.kind \in {"set", "add", "cas"} /\ Serve(c, i, k) = stored
      \/ Serve(c, i, k) = exists
      \/ Serve(c, i, k) = <<Reply("deleted"), NoItem>>
      \/ Serve(c, i, k) = <<Reply("ok"), NoItem>>
      \/ Serve(c, i, k) = <<Reply("not_found"), i>>
  BY DEF Serve
<1>3. \A code \in Outcomes : Reply(code) \in Replies /\ Reply(code).code = code
  BY DEF Reply, Replies
<1>4. [code |-> "ok", item |-> i] \in Replies
  BY DEF Replies, Outcomes
<1> QED BY <1>1, <1>2, <1>3, <1>4 DEF Outcomes

(* The same if it may refuse the command.                                  *)
LEMMA AnswersAre ==
    ASSUME NEW c \in Given, NEW i \in Items \cup {NoItem}, NEW k \in Tokens,
           NEW answer \in Answers(c, i, k)
    PROVE  /\ answer[1].code \in Outcomes \ {"no_answer"}
           /\ answer[1] \in Replies
           /\ answer[2] \in Items \cup {NoItem}
<1>1. CASE answer = Serve(c, i, k)
  BY <1>1, ServeIs DEF Outcomes
<1>2. CASE answer = <<Reply("server_error"), i>>
  BY <1>2 DEF Reply, Replies, Outcomes
<1> QED BY <1>1, <1>2 DEF Answers

(* callable() keeps the types of what the proxies and servers have.        *)
LEMMA ProceedServers ==
    ASSUME ServersOK, NEW c, NEW s \in Servers, Proceed(c, s) \/ Decline(c, s),
           UNCHANGED servers
    PROVE  ServersOK' /\ key' = key
<1>1. Interval \in Never .. Interval
  BY Times
<1>2. CASE UNCHANGED proxies
  BY <1>2 DEF ServersOK, proxies, servers
<1>3. CASE /\ restoration' = [restoration EXCEPT ![s] = Interval]
           /\ UNCHANGED <<key, dead, fails>>
  BY <1>1, <1>3 DEF ServersOK, servers
<1> QED BY <1>2, <1>3 DEF Proceed, Decline

(* So does an answer.                                                      *)
LEMMA DeliverServers ==
    ASSUME ServersOK, NEW c, NEW s \in Servers, NEW answer, Deliver(c, s, answer),
           answer[2] \in Items \cup {NoItem}
    PROVE  ServersOK' /\ key' = key
<1>1. dead' \in [Servers -> BOOLEAN]
  BY DEF ServersOK, Deliver
<1> QED BY <1>1, Times DEF ServersOK, Deliver

(* So does a failure of send(), whatever became of the command.            *)
LEMMA LoseServers ==
    ASSUME ServersOK, NEW c \in Clients, NEW s \in Servers, NEW k \in Tokens,
           cmd[c] \in Given, Lose(c, s, k)
    PROVE  ServersOK' /\ key' = key
<1>1. /\ item' \in [Servers -> Items \cup {NoItem}]
      /\ late' \in [Servers -> Commands \cup {[kind |-> "flush_all"], None}]
  <2>1. CASE UNCHANGED servers
    BY <2>1 DEF ServersOK, servers
  <2>2. CASE /\ item' = [item EXCEPT ![s] = Serve(cmd[c], @, k)[2]]
             /\ UNCHANGED late
    <3>1. Serve(cmd[c], item[s], k)[2] \in Items \cup {NoItem}
      BY ServeIs DEF ServersOK
    <3> QED BY <2>2, <3>1 DEF ServersOK
  <2>3. CASE late' = [late EXCEPT ![s] = cmd[c]] /\ UNCHANGED item
    BY <2>3 DEF ServersOK, Given
  <2> QED BY <2>1, <2>2, <2>3 DEF Lose, Undelivered
<1>2. CASE UNCHANGED proxies
  BY <1>1, <1>2 DEF ServersOK, proxies
<1>3. CASE ~UNCHANGED proxies
  <2> DEFINE count == Least(FailLimit, fails[s] + 1)
  <2>1. count \in 0 .. FailLimit /\ Interval \in Never .. Interval
    BY Times DEF ServersOK, Least
  <2> HIDE DEF count
  <2>2. /\ UNCHANGED key
        /\ fails' = [fails EXCEPT ![s] = count]
        /\ dead' = [dead EXCEPT ![s] = @ \/ count >= FailLimit]
        /\ restoration' = [restoration EXCEPT ![s] =
                             IF count >= FailLimit THEN Interval ELSE @]
    BY <1>3 DEF Lose, count
  <2>3. dead' \in [Servers -> BOOLEAN]
    <3>1. (dead[s] \/ count >= FailLimit) \in BOOLEAN
      OBVIOUS
    <3> QED BY <2>2, <3>1, Zenon DEF ServersOK
  <2> QED BY <1>1, <2>1, <2>2, <2>3 DEF ServersOK
<1> QED BY <1>2, <1>3

(* So does what a server does by itself, which no client sees.             *)
LEMMA ServerSteps ==
    ASSUME ServersOK, NEW s \in Servers, ServerStep(s, AnyToken)
    PROVE  ServersOK' /\ UNCHANGED <<key, pc, cmd, loop, age, result, log>>
<1>1. CASE Evict(s)
  BY <1>1 DEF Evict, ServersOK, proxies
<1>2. CASE LateLost(s)
  BY <1>2 DEF LateLost, ServersOK, proxies
<1>3. ASSUME NEW k \in Tokens, LateEffect(s, k)
      PROVE  ServersOK' /\ UNCHANGED <<key, pc, cmd, loop, age, result, log>>
  <2>1. late[s] \in Given
    BY <1>3 DEF LateEffect, ServersOK, Given
  <2>2. Serve(late[s], item[s], k)[2] \in Items \cup {NoItem}
    BY <2>1, ServeIs DEF ServersOK
  <2> QED BY <1>3, <2>2 DEF LateEffect, ServersOK, proxies
<1> QED BY <1>1, <1>2, <1>3 DEF ServerStep, AnyToken

(* So does the clock.                                                      *)
LEMMA TickServers ==
    ASSUME ServersOK, Tick
    PROVE  ServersOK' /\ key' = key
<1>1. ASSUME NEW s \in Servers
      PROVE  (IF restoration[s] > Floor THEN restoration[s] - 1 ELSE restoration[s])
               \in Never .. Interval
  BY Times DEF ServersOK
<1> QED BY <1>1 DEF Tick, ServersOK, servers

-----------------------------------------------------------------------------
(* One client and its log.                                                 *)

Visits == Servers \X Outcomes

Others(c) ==
    \A d \in Clients \ {c} :
       UNCHANGED <<pc[d], cmd[d], it[d], prev[d], conts[d], outOfServers[d], age[d],
                   result[d], log[d]>>

(* A step of one client.                                                   *)
LEMMA OneClient ==
    ASSUME IInv, NEW c \in Clients, Others(c), key' = key, ServersOK', Framed',
           ClientOK(c)'
    PROVE  IInv'
<1>1. ASSUME NEW d \in Clients \ {c} PROVE ClientOK(d)'
  <2>1. UNCHANGED <<pc[d], cmd[d], it[d], prev[d], conts[d], outOfServers[d], age[d],
                   result[d], log[d]>>
    BY DEF Others
  <2>2. ClientOK(d)
    BY DEF IInv
  <2>3. Visited(d)' = Visited(d) /\ Answered(d)' = Answered(d)
    BY <2>1 DEF Visited, Answered
  <2>4. \A i, p : WalkOK(i)' = WalkOK(i) /\ Past(i, p)' = Past(i, p)
    BY DEF WalkOK, Past, From
  <2>5. /\ Running(d) => Running(d)'
        /\ RunningAll(d) => RunningAll(d)'
    BY <2>1, <2>3, <2>4 DEF Running, RunningAll
  <2> QED BY <2>1, <2>2, <2>3, <2>5 DEF ClientOK, Looping, Sending
<1> QED BY <1>1 DEF IInv

(* One more visit in the log of a command.                                 *)
LEMMA LogIs ==
    ASSUME NEW c, log[c] \in Seq(Visits), NEW s \in Servers, NEW o \in Outcomes,
           log'[c] = Append(log[c], <<s, o>>)
    PROVE  /\ log'[c] \in Seq(Visits) /\ Len(log[c]) \in Nat
           /\ Len(log'[c]) = Len(log[c]) + 1
           /\ \A i \in 1 .. Len(log[c]) : log'[c][i] = log[c][i]
           /\ log'[c][Len(log[c]) + 1] = <<s, o>>
           /\ Visited(c)' = Visited(c) \cup {s}
           /\ Answered(c)' <=> Answered(c) \/ o # "no_answer"
<1> DEFINE l == log[c]
           m == log'[c]
           n == Len(log[c])
<1>1. n \in Nat /\ DOMAIN l = 1 .. n
  OBVIOUS
<1>2. /\ m \in Seq(Visits) /\ Len(m) = n + 1 /\ DOMAIN m = 1 .. n + 1
      /\ \A i \in 1 .. n : m[i] = l[i]
      /\ m[n + 1] = <<s, o>>
  <2>1. <<s, o>> \in Visits
    BY DEF Visits
  <2> QED BY <2>1, AppendProperties
<1>3. Visited(c) = {l[i][1] : i \in 1 .. n} /\ Visited(c)' = {m[i][1] : i \in 1 .. n + 1}
  BY <1>1, <1>2 DEF Visited
<1>4. /\ Answered(c) <=> \E i \in 1 .. n : l[i][2] # "no_answer"
      /\ Answered(c)' <=> \E i \in 1 .. n + 1 : m[i][2] # "no_answer"
  BY <1>1, <1>2 DEF Answered
<1> HIDE DEF l, m, n
<1>5. \A i : i \in 1 .. n + 1 <=> i \in 1 .. n \/ i = n + 1
  BY <1>1
<1>6. Visited(c)' = Visited(c) \cup {s}
  <2>1. m[n + 1][1] = s /\ \A i \in 1 .. n : m[i][1] = l[i][1]
    BY <1>2
  <2>2. ASSUME NEW x PROVE x \in Visited(c)' <=> x \in Visited(c) \/ x = s
    <3>1. x \in Visited(c)' <=> \E i \in 1 .. n + 1 : x = m[i][1]
      BY <1>3
    <3>2. x \in Visited(c) <=> \E i \in 1 .. n : x = l[i][1]
      BY <1>3
    <3> QED BY <1>5, <2>1, <3>1, <3>2
  <2> QED BY <2>2
<1>7. Answered(c)' <=> Answered(c) \/ o # "no_answer"
  <2>1. m[n + 1][2] = o /\ \A i \in 1 .. n : m[i][2] = l[i][2]
    BY <1>2
  <2>2. Answered(c)' <=> (\E i \in 1 .. n : m[i][2] # "no_answer")
                         \/ m[n + 1][2] # "no_answer"
    BY <1>4, <1>5, Zenon
  <2> QED BY <1>4, <2>1, <2>2, Zenon
<1>8. /\ log'[c] \in Seq(Visits) /\ Len(log[c]) \in Nat
      /\ Len(log'[c]) = Len(log[c]) + 1
      /\ log'[c][Len(log[c]) + 1] = <<s, o>>
  <2>1. l = log[c] /\ m = log'[c] /\ n = Len(log[c])
    BY Zenon DEF l, m, n
  <2> QED BY <1>1, <1>2, <2>1, Zenon
<1>9. \A i \in 1 .. Len(log[c]) : log'[c][i] = log[c][i]
  <2>1. l = log[c] /\ m = log'[c] /\ n = Len(log[c])
    BY Zenon DEF l, m, n
  <2> QED BY <1>2, <2>1, Zenon
<1> QED BY <1>6, <1>7, <1>8, <1>9, Zenon

(* A client whose command has ended is idle and clean.                     *)
LEMMA Finished ==
    ASSUME IInv, NEW c \in Clients, NEW response \in Replies, Finish(c, response),
           age' = age \/ age' = [age EXCEPT ![c] = 0]
    PROVE  /\ Framed' /\ Others(c) /\ ClientOK(c)'
           /\ cmd'[c] = None /\ result'[c] = response
<1>1. Framed' /\ Others(c)
  BY DEF IInv, Framed, ByClient, Finish, Others
<1>2. /\ pc'[c] = "idle" /\ result'[c] = response /\ cmd'[c] = None /\ conts'[c] = 0
      /\ outOfServers'[c] = TRUE /\ log'[c] = <<>>
      /\ age'[c] = age[c] \/ age'[c] = 0
  BY DEF IInv, Framed, ByClient, Finish
<1>3. age'[c] \in 0 .. MaxDelay
  BY <1>2, LimitAssumption DEF IInv, ClientOK
<1>4. ClientOK(c)'
  <2>1. <<>> \in Seq(Visits) /\ 0 \in 0 .. MaxContinues
    BY EmptySeq, LimitAssumption
  <2> QED BY <1>2, <1>3, <2>1 DEF ClientOK, Visits
<1> QED BY <1>1, <1>2, <1>4

(* After a continue the walk is past the node of the server just visited,  *)
(* which the log has.                                                      *)
LEMMA Continued ==
    ASSUME key \in KeyHashes, key' = key, NEW c, Running(c), it[c].node # End,
           NEW o \in Outcomes, log[c] \in Seq(Visits),
           cmd'[c] = cmd[c], it'[c] = Increment(ring, it[c]), conts'[c] = conts[c] + 1,
           log'[c] = Append(log[c], <<Deref(ring, it[c]), o>>),
           outOfServers'[c] <=> outOfServers[c] /\ o = "no_answer"
    PROVE  /\ Running(c)' /\ log'[c] \in Seq(Visits)
           /\ Deref(ring, it[c]) \in Visited(c)'
<1> DEFINE s == Deref(ring, it[c])
<1>1. it[c].node \in DOMAIN ring /\ s \in Servers
  BY RingFacts DEF Running, WalkOK, Iterators, Deref
<1>2. /\ log'[c] \in Seq(Visits) /\ Len(log'[c]) = Len(log[c]) + 1
      /\ Visited(c)' = Visited(c) \cup {s}
      /\ Answered(c)' <=> Answered(c) \/ o # "no_answer"
  BY <1>1, LogIs
<1>3. WalkOK(it[c]) /\ \A p \in DOMAIN ring : Past(it[c], p) => ring[p] \in Visited(c)
  BY DEF Running
<1>4. /\ WalkOK(it'[c])
      /\ \A p \in DOMAIN ring : Past(it'[c], p) => Past(it[c], p) \/ p = it[c].node
  BY <1>3, IncrementWalks
<1>5. \A p \in DOMAIN ring : Past(it'[c], p) => ring[p] \in Visited(c)'
  BY <1>2, <1>3, <1>4 DEF Deref
<1>6. \A i, p : WalkOK(i)' = WalkOK(i) /\ Past(i, p)' = Past(i, p)
  BY DEF WalkOK, Past, From
<1>7. WalkOK(it[c])' /\ \A p \in DOMAIN ring : Past(it[c], p)' => ring[p] \in Visited(c)'
  BY <1>4, <1>5 DEF WalkOK, Past, From
<1>8. \A x \in Visited(c)' : \E p \in DOMAIN ring : x = ring[p]
  BY <1>1, <1>2 DEF Running, Deref
<1> QED BY <1>2, <1>7, <1>8 DEF Running

-----------------------------------------------------------------------------
(* run().                                                                  *)

(* The invariant, action by action: an operation begins.                   *)
LEMMA StartKeeps ==
    ASSUME IInv, NEW c \in Clients, NEW command \in Commands, Start(c, command)
    PROVE  IInv'
<1>1. ServersOK' /\ key' = key
  BY DEF IInv, ServersOK, Start, proxies, servers
<1>2. Framed' /\ Others(c)
  BY DEF IInv, Framed, ByClient, Start, Others
<1>3. /\ pc[c] = "idle" /\ pc'[c] = "loop" /\ cmd'[c] = command /\ command.kind # "flush_all"
      /\ it'[c] = Choose(ring, key) /\ prev'[c] = None /\ conts'[c] = 0
      /\ outOfServers'[c] = TRUE /\ result'[c] = None
      /\ age'[c] = age[c] /\ log'[c] = log[c]
  BY DEF IInv, Framed, ByClient, Start
<1>4. log[c] = <<>> /\ log[c] \in Seq(Visits) /\ age[c] \in 0 .. MaxDelay
  BY <1>3 DEF IInv, ClientOK, Visits
<1>5. WalkOK(Choose(ring, key)) /\ \A p \in DOMAIN ring : ~Past(Choose(ring, key), p)
  BY ChooseWalks DEF IInv, ServersOK
<1>6. /\ WalkOK(it[c])' /\ \A p \in DOMAIN ring : ~Past(it[c], p)'
  BY <1>1, <1>3, <1>5 DEF WalkOK, Past, From
<1>7. ~Answered(c)' /\ Len(log'[c]) = 0 /\ Visited(c)' = {}
  BY <1>3, <1>4, EmptySeq DEF Answered, Visited
<1>8. Running(c)'
  BY <1>3, <1>6, <1>7 DEF Running
<1>9. ClientOK(c)'
  <2>1. 0 \in 0 .. MaxContinues
    BY LimitAssumption
  <2> QED BY <1>3, <1>4, <1>8, <2>1 DEF ClientOK, Looping, Visits
<1> QED BY <1>1, <1>2, <1>9, OneClient

(* The loop of run() ends.                                                 *)
LEMMA ExhaustedKeeps ==
    ASSUME IInv, NEW c \in Clients, Exhausted(c)
    PROVE  IInv'
<1>1. ServersOK' /\ key' = key
  BY DEF IInv, ServersOK, Exhausted, proxies, servers
<1>2. \A code \in {"out_of_servers", "not_found"} : Reply(code) \in Replies
  BY DEF Reply, Replies, Outcomes
<1>3. PICK code \in {"out_of_servers", "not_found"} : Finish(c, Reply(code))
  BY DEF Exhausted
<1> QED BY <1>1, <1>2, <1>3, Finished, OneClient DEF Exhausted

(* An exception passes through run() and run_all().                        *)
LEMMA EscapeKeeps ==
    ASSUME IInv, NEW c \in Clients, Escape(c)
    PROVE  IInv'
<1>1. ServersOK' /\ key' = key
  BY DEF IInv, ServersOK, Escape, proxies, servers
<1>2. Reply("exception") \in Replies
  BY DEF Reply, Replies
<1> QED BY <1>1, <1>2, Finished, OneClient DEF Escape

(* A node of the server just visited is skipped: the log has that server.  *)
LEMMA SkipPreviousKeeps ==
    ASSUME IInv, NEW c \in Clients, SkipPrevious(c)
    PROVE  IInv'
<1>1. ServersOK' /\ key' = key
  BY DEF IInv, ServersOK, SkipPrevious, proxies, servers
<1>2. Framed' /\ Others(c)
  BY DEF IInv, Framed, ByClient, SkipPrevious, Others
<1>3. /\ pc[c] = "loop" /\ it[c].node # End /\ Deref(ring, it[c]) = prev[c]
      /\ it'[c] = Increment(ring, it[c])
      /\ UNCHANGED <<pc[c], cmd[c], prev[c], conts[c], outOfServers[c], age[c],
                     result[c], log[c]>>
  BY DEF IInv, Framed, ByClient, SkipPrevious, InLoop, AtEnd
<1>4. ClientOK(c) /\ Running(c) /\ (prev[c] # None => prev[c] \in Visited(c))
  BY <1>3 DEF IInv, ClientOK, Looping
<1>5. Visited(c)' = Visited(c) /\ Answered(c)' = Answered(c)
  BY <1>3 DEF Visited, Answered
<1>6. ring[it[c].node] \in Visited(c)
  <2>1. ring[it[c].node] \in Servers
    BY <1>3, <1>4, RingFacts DEF Running, WalkOK, Iterators
  <2> QED BY <1>3, <1>4, <2>1, NoneAssumption DEF Deref
<1>7. WalkOK(it[c]) /\ \A p \in DOMAIN ring : Past(it[c], p) => ring[p] \in Visited(c)
  BY <1>4 DEF Running
<1>8. /\ WalkOK(it'[c])
      /\ \A p \in DOMAIN ring : Past(it'[c], p) => Past(it[c], p) \/ p = it[c].node
  BY <1>3, <1>7, IncrementWalks DEF IInv, ServersOK
<1>9. WalkOK(it[c])' /\ \A p \in DOMAIN ring : Past(it[c], p)' => ring[p] \in Visited(c)'
  <2>1. \A p \in DOMAIN ring : Past(it'[c], p) => ring[p] \in Visited(c)'
    BY <1>5, <1>6, <1>7, <1>8
  <2> QED BY <1>1, <1>8, <2>1 DEF WalkOK, Past, From
<1>10. Running(c)'
  BY <1>3, <1>4, <1>5, <1>9 DEF Running
<1>11. ClientOK(c)'
  BY <1>3, <1>4, <1>5, <1>10 DEF ClientOK, Looping
<1> QED BY <1>1, <1>2, <1>11, OneClient

(* The server a client is at exists, and is that of its iterator.          *)
LEMMA TargetIs ==
    ASSUME IInv, NEW c \in Clients
    PROVE  /\ pc[c] = "send" \/ InLoop(c) =>
                 /\ Running(c) /\ Target(c) = Deref(ring, it[c]) /\ Target(c) \in Servers
                 /\ it[c].node # End /\ conts[c] < MaxContinues
           /\ pc[c] \in {"all", "sendAll"} => Target(c) = it[c] /\ RunningAll(c)
           /\ pc[c] = "sendAll" => Target(c) \in Servers
           /\ pc[c] # "idle" => cmd[c] \in Given
<1>1. ClientOK(c)
  BY DEF IInv
<1>2. ASSUME pc[c] = "send" \/ InLoop(c)
      PROVE  /\ Running(c) /\ Target(c) = Deref(ring, it[c]) /\ Target(c) \in Servers
             /\ it[c].node # End /\ conts[c] < MaxContinues
  <2>1. Running(c) /\ it[c].node # End /\ conts[c] < MaxContinues
    BY <1>1, <1>2 DEF ClientOK, InLoop, Looping, Sending, AtEnd
  <2>2. Target(c) = Deref(ring, it[c])
    BY <2>1 DEF Running, Target
  <2>3. it[c].node \in DOMAIN ring
    BY <2>1 DEF Running, WalkOK, Iterators
  <2> QED BY <2>1, <2>2, <2>3, RingFacts DEF Deref
<1>3. pc[c] \in {"all", "sendAll"} => Target(c) = it[c] /\ RunningAll(c)
  BY <1>1 DEF ClientOK, RunningAll, Target
<1> QED BY <1>1, <1>2, <1>3 DEF ClientOK, Given, RunningAll, Running, Looping, Sending

(* The proxy is asked whether it is callable.                              *)
LEMMA VisitKeeps ==
    ASSUME IInv, NEW c \in Clients, Visit(c)
    PROVE  IInv'
<1> DEFINE s == Target(c)
<1>1. /\ Running(c) /\ s = Deref(ring, it[c]) /\ s \in Servers
      /\ it[c].node # End /\ conts[c] < MaxContinues /\ pc[c] = "loop"
  BY TargetIs DEF Visit, InLoop
<1>2. ClientOK(c) /\ log[c] \in Seq(Visits)
  BY DEF IInv, ClientOK, Visits
<1> HIDE DEF s
<1>3. CASE Proceed(c, s) /\ pc' = [pc EXCEPT ![c] = "send"] /\ UNCHANGED <<it, conts, log>>
  <2>1. ServersOK' /\ key' = key
    BY <1>1, <1>3, ProceedServers DEF IInv, Visit
  <2>2. Framed' /\ Others(c)
    BY <1>3 DEF IInv, Framed, ByClient, Visit, Others
  <2>3. /\ pc'[c] = "send"
        /\ prev'[c] = s
        /\ UNCHANGED <<it[c], cmd[c], conts[c], outOfServers[c], age[c], result[c], log[c]>>
    BY <1>3 DEF IInv, Framed, ByClient, Visit, s
  <2>4. Running(c)'
    <3>1. Visited(c)' = Visited(c) /\ Answered(c)' = Answered(c)
      BY <2>3 DEF Visited, Answered
    <3>2. \A i, p : WalkOK(i)' = WalkOK(i) /\ Past(i, p)' = Past(i, p)
      BY <2>1 DEF WalkOK, Past, From
    <3> QED BY <1>1, <2>3, <3>1, <3>2 DEF Running
  <2>5. ClientOK(c)'
    BY <1>1, <1>2, <2>3, <2>4 DEF ClientOK, Sending, Deref
  <2> QED BY <2>1, <2>2, <2>5, OneClient
<1>4. CASE Decline(c, s) /\ Continue(c) /\ Log(c, s, "no_answer")
  <2>1. ServersOK' /\ key' = key
    BY <1>1, <1>4, ProceedServers DEF IInv, Visit
  <2>2. Framed' /\ Others(c)
    BY <1>4 DEF IInv, Framed, ByClient, Visit, Others, Continue, Log
  <2>3. /\ pc'[c] = "loop" /\ it'[c] = Increment(ring, it[c]) /\ conts'[c] = conts[c] + 1
        /\ prev'[c] = s /\ log'[c] = Append(log[c], <<s, "no_answer">>)
        /\ UNCHANGED <<cmd[c], outOfServers[c], age[c], result[c]>>
    BY <1>4 DEF IInv, Framed, ByClient, Visit, Continue, Log, s
  <2>4. Running(c)' /\ log'[c] \in Seq(Visits) /\ s \in Visited(c)'
    BY <1>1, <1>2, <2>1, <2>3, Continued DEF IInv, ServersOK, Outcomes
  <2>5. conts'[c] \in 0 .. MaxContinues
    BY <1>1, <1>2, <2>3, LimitAssumption DEF ClientOK
  <2>6. ClientOK(c)'
    BY <1>1, <1>2, <2>3, <2>4, <2>5 DEF ClientOK, Looping, Visits
  <2> QED BY <2>1, <2>2, <2>6, OneClient
<1> QED BY <1>3, <1>4 DEF Visit, s

(* send() fails, and run() continues.                                      *)
LEMMA FailKeeps ==
    ASSUME IInv, NEW c \in Clients, NEW k \in Tokens, Fail(c, k)
    PROVE  IInv'
<1> DEFINE s == Target(c)
<1>1. /\ Running(c) /\ s = Deref(ring, it[c]) /\ s \in Servers /\ cmd[c] \in Given
      /\ it[c].node # End /\ conts[c] < MaxContinues /\ pc[c] = "send"
  BY TargetIs DEF Fail
<1>2. ClientOK(c) /\ log[c] \in Seq(Visits)
  BY DEF IInv, ClientOK, Visits
<1> HIDE DEF s
<1>3. Lose(c, s, k) /\ Continue(c) /\ Log(c, s, "no_answer")
  BY DEF Fail, s
<1>4. ServersOK' /\ key' = key
  BY <1>1, <1>3, LoseServers DEF IInv
<1>5. Framed' /\ Others(c)
  BY <1>3 DEF IInv, Framed, ByClient, Fail, Others, Continue, Log, Lose
<1>6. /\ pc'[c] = "loop" /\ it'[c] = Increment(ring, it[c]) /\ conts'[c] = conts[c] + 1
      /\ log'[c] = Append(log[c], <<s, "no_answer">>) /\ age'[c] = 0
      /\ UNCHANGED <<cmd[c], outOfServers[c], prev[c], result[c]>>
  BY <1>3 DEF IInv, Framed, ByClient, Fail, Continue, Log, Lose
<1>7. Running(c)' /\ log'[c] \in Seq(Visits) /\ s \in Visited(c)'
  BY <1>1, <1>2, <1>4, <1>6, Continued DEF IInv, ServersOK, Outcomes
<1>8. prev'[c] = s
  BY <1>1, <1>2, <1>6 DEF ClientOK, Sending
<1>9. conts'[c] \in 0 .. MaxContinues /\ age'[c] \in 0 .. MaxDelay
  BY <1>1, <1>2, <1>6, LimitAssumption DEF ClientOK
<1>10. ClientOK(c)'
  BY <1>1, <1>2, <1>6, <1>7, <1>8, <1>9 DEF ClientOK, Looping, Visits
<1> QED BY <1>4, <1>5, <1>10, OneClient

(* send() has an answer, which may be the last word or not.                *)
LEMMA RespondKeeps ==
    ASSUME IInv, NEW c \in Clients, NEW k \in Tokens, Respond(c, k)
    PROVE  IInv'
<1> DEFINE s == Target(c)
<1>1. /\ Running(c) /\ s = Deref(ring, it[c]) /\ s \in Servers /\ cmd[c] \in Given
      /\ it[c].node # End /\ conts[c] < MaxContinues /\ pc[c] = "send"
  BY TargetIs DEF Respond
<1>2. ClientOK(c) /\ log[c] \in Seq(Visits)
  BY DEF IInv, ClientOK, Visits
<1> HIDE DEF s
<1>3. PICK answer \in Answers(cmd[c], item[s], k) :
         /\ Deliver(c, s, answer)
         /\ IF TryNeighbour(c, s, answer[1])
            THEN /\ outOfServers' = [outOfServers EXCEPT ![c] = FALSE]
                 /\ Continue(c)
                 /\ Log(c, s, answer[1].code)
                 /\ UNCHANGED <<cmd, prev, result>>
            ELSE Finish(c, answer[1])
  BY DEF Respond, s
<1>4. /\ answer[1].code \in Outcomes \ {"no_answer"} /\ answer[1] \in Replies
      /\ answer[2] \in Items \cup {NoItem}
  BY <1>1, AnswersAre DEF IInv, ServersOK
<1>5. ServersOK' /\ key' = key
  BY <1>1, <1>3, <1>4, DeliverServers DEF IInv
<1>6. CASE TryNeighbour(c, s, answer[1])
  <2> DEFINE o == answer[1].code
  <2>1. /\ outOfServers' = [outOfServers EXCEPT ![c] = FALSE] /\ Continue(c)
        /\ Log(c, s, o) /\ UNCHANGED <<cmd, prev, result>> /\ Deliver(c, s, answer)
    BY <1>3, <1>6
  <2> HIDE DEF o
  <2>2. Framed' /\ Others(c)
    BY <2>1 DEF IInv, Framed, ByClient, Others, Continue, Log, Deliver
  <2>3. /\ pc'[c] = "loop" /\ it'[c] = Increment(ring, it[c]) /\ conts'[c] = conts[c] + 1
        /\ log'[c] = Append(log[c], <<s, o>>) /\ age'[c] = 0
        /\ outOfServers'[c] = FALSE
        /\ UNCHANGED <<cmd[c], prev[c], result[c]>>
    BY <2>1 DEF IInv, Framed, ByClient, Continue, Log, Deliver
  <2>4. o \in Outcomes /\ o # "no_answer"
    BY <1>4 DEF o
  <2>5. Running(c)' /\ log'[c] \in Seq(Visits) /\ s \in Visited(c)'
    BY <1>1, <1>2, <1>5, <2>3, <2>4, Continued DEF IInv, ServersOK
  <2>6. prev'[c] = s
    BY <1>1, <1>2, <2>3 DEF ClientOK, Sending
  <2>7. conts'[c] \in 0 .. MaxContinues /\ age'[c] \in 0 .. MaxDelay
    BY <1>1, <1>2, <2>3, LimitAssumption DEF ClientOK
  <2>8. ClientOK(c)'
    BY <1>1, <1>2, <2>3, <2>5, <2>6, <2>7 DEF ClientOK, Looping, Visits
  <2> QED BY <1>5, <2>2, <2>8, OneClient
<1>7. CASE ~TryNeighbour(c, s, answer[1])
  <2>1. Finish(c, answer[1]) /\ age' = [age EXCEPT ![c] = 0]
    BY <1>3, <1>7 DEF Deliver
  <2> QED BY <1>4, <1>5, <2>1, Finished, OneClient
<1> QED BY <1>6, <1>7

-----------------------------------------------------------------------------
(* run_all(), the environment, and the invariant.                          *)

(* flush_all begins.                                                       *)
LEMMA StartAllKeeps ==
    ASSUME IInv, NEW c \in Clients, StartAll(c)
    PROVE  IInv'
<1>1. ServersOK' /\ key' = key
  BY DEF IInv, ServersOK, StartAll, proxies, servers
<1>2. Framed' /\ Others(c)
  BY DEF IInv, Framed, ByClient, StartAll, Others
<1>3. /\ pc[c] = "idle" /\ pc'[c] = "all" /\ cmd'[c] = [kind |-> "flush_all"]
      /\ it'[c] = 0 /\ result'[c] = None
      /\ UNCHANGED <<conts[c], outOfServers[c], age[c], log[c]>>
  BY DEF IInv, Framed, ByClient, StartAll
<1>4. ClientOK(c) /\ log[c] = <<>>
  BY <1>3 DEF IInv, ClientOK
<1>5. RunningAll(c)'
  BY <1>3, <1>4, RingFacts, EmptySeq DEF RunningAll
<1>6. ClientOK(c)'
  BY <1>3, <1>4, <1>5 DEF ClientOK
<1> QED BY <1>1, <1>2, <1>6, OneClient

(* The next server of run_all().                                           *)
LEMMA NextKeeps ==
    ASSUME IInv, NEW c \in Clients, pc[c] \in {"all", "sendAll"}, it[c] \in Servers,
           NEW o \in Outcomes, NextServer(c), Log(c, it[c], o), ServersOK', key' = key,
           UNCHANGED <<cmd, prev, conts, outOfServers, result>>,
           age' = age \/ age' = [age EXCEPT ![c] = 0]
    PROVE  IInv'
<1>1. Framed' /\ Others(c)
  BY DEF IInv, Framed, ByClient, NextServer, Log, Others
<1>2. /\ pc'[c] = "all" /\ it'[c] = it[c] + 1 /\ log'[c] = Append(log[c], <<it[c], o>>)
      /\ UNCHANGED <<cmd[c], conts[c], outOfServers[c], result[c]>>
      /\ age'[c] = age[c] \/ age'[c] = 0
  BY DEF IInv, Framed, ByClient, NextServer, Log
<1>3. ClientOK(c) /\ log[c] \in Seq(Visits) /\ RunningAll(c)
  BY DEF IInv, ClientOK, Visits
<1>4. /\ log'[c] \in Seq(Visits)
      /\ Len(log[c]) \in Nat /\ Len(log'[c]) = Len(log[c]) + 1
      /\ \A i \in 1 .. Len(log[c]) : log'[c][i] = log[c][i]
      /\ log'[c][Len(log[c]) + 1] = <<it[c], o>>
  <2>1. PICK s \in Servers : s = it[c]
    OBVIOUS
  <2>2. log'[c] = Append(log[c], <<s, o>>)
    BY <1>2, <2>1
  <2> QED BY <1>3, <2>1, <2>2, LogIs
<1>5. it[c] \in Nat /\ it'[c] \in 0 .. Len(Nodes) /\ Len(log'[c]) = it'[c]
  <2>1. Len(Nodes) \in Nat /\ it[c] \in 0 .. Len(Nodes) - 1 /\ Len(log[c]) = it[c]
    BY <1>3, RingFacts DEF RunningAll, Servers
  <2>2. it'[c] = it[c] + 1 /\ Len(log'[c]) = Len(log[c]) + 1
    BY <1>2, <1>4
  <2> QED BY <2>1, <2>2
<1>6. ASSUME NEW i \in 1 .. it'[c] PROVE log'[c][i][1] = i - 1
  <2>1. CASE i \in 1 .. it[c]
    BY <1>3, <1>4, <2>1 DEF RunningAll
  <2>2. CASE i = it[c] + 1
    <3>1. log'[c][i] = <<it[c], o>>
      BY <1>3, <1>4, <2>2 DEF RunningAll
    <3> QED BY <1>5, <2>2, <3>1
  <2> QED BY <1>2, <1>5, <2>1, <2>2
<1>7. RunningAll(c)'
  BY <1>2, <1>3, <1>5, <1>6 DEF RunningAll
<1>8. age'[c] \in 0 .. MaxDelay
  BY <1>2, <1>3, LimitAssumption DEF ClientOK
<1>9. ClientOK(c)'
  BY <1>2, <1>3, <1>4, <1>7, <1>8 DEF ClientOK, Visits
<1> QED BY <1>1, <1>9, OneClient

(* run_all() asks a proxy whether it is callable.                          *)
LEMMA VisitAllKeeps ==
    ASSUME IInv, NEW c \in Clients, VisitAll(c)
    PROVE  IInv'
<1>1. /\ pc[c] = "all" /\ Target(c) = it[c] /\ it[c] \in Servers /\ RunningAll(c)
  BY TargetIs DEF VisitAll
<1>2. CASE Decline(c, it[c]) /\ NextServer(c) /\ Log(c, it[c], "no_answer")
  <2>1. ServersOK' /\ key' = key
    BY <1>1, <1>2, ProceedServers DEF IInv, VisitAll
  <2>2. "no_answer" \in Outcomes
    BY DEF Outcomes
  <2> QED BY <1>1, <1>2, <2>1, <2>2, NextKeeps DEF VisitAll
<1>3. CASE Proceed(c, it[c]) /\ pc' = [pc EXCEPT ![c] = "sendAll"] /\ UNCHANGED <<it, log>>
  <2>1. ServersOK' /\ key' = key
    BY <1>1, <1>3, ProceedServers DEF IInv, VisitAll
  <2>2. Framed' /\ Others(c)
    BY <1>3 DEF IInv, Framed, ByClient, VisitAll, Others
  <2>3. /\ pc'[c] = "sendAll"
        /\ UNCHANGED <<it[c], cmd[c], conts[c], outOfServers[c], age[c], result[c], log[c]>>
    BY <1>3 DEF IInv, Framed, ByClient, VisitAll
  <2>4. RunningAll(c)'
    BY <1>1, <2>3 DEF RunningAll
  <2>5. ClientOK(c)'
    BY <1>1, <2>3, <2>4 DEF IInv, ClientOK
  <2> QED BY <2>1, <2>2, <2>5, OneClient
<1> QED BY <1>1, <1>2, <1>3 DEF VisitAll

(* send() of run_all() ends, with an answer or without.                    *)
LEMMA RespondAllKeeps ==
    ASSUME IInv, NEW c \in Clients, NEW k \in Tokens, RespondAll(c, k)
    PROVE  IInv'
<1>1. /\ pc[c] = "sendAll" /\ Target(c) = it[c] /\ it[c] \in Servers /\ cmd[c] \in Given
  BY TargetIs DEF RespondAll
<1>2. NextServer(c) /\ UNCHANGED <<cmd, prev, conts, outOfServers, result>>
  BY DEF RespondAll
<1>3. ASSUME NEW answer \in Answers(cmd[c], item[it[c]], k),
             Deliver(c, it[c], answer), Log(c, it[c], answer[1].code)
      PROVE  IInv'
  <2>1. answer[1].code \in Outcomes /\ answer[2] \in Items \cup {NoItem}
    BY <1>1, AnswersAre DEF IInv, ServersOK
  <2>2. ServersOK' /\ key' = key
    BY <1>1, <1>3, <2>1, DeliverServers DEF IInv
  <2>3. age' = [age EXCEPT ![c] = 0]
    BY <1>3 DEF Deliver
  <2> QED BY <1>1, <1>2, <1>3, <2>1, <2>2, <2>3, NextKeeps
<1>4. ASSUME Lose(c, it[c], k), Log(c, it[c], "no_answer")
      PROVE  IInv'
  <2>1. ServersOK' /\ key' = key
    BY <1>1, <1>4, LoseServers DEF IInv
  <2>2. age' = [age EXCEPT ![c] = 0] /\ "no_answer" \in Outcomes
    BY <1>4 DEF Lose, Outcomes
  <2> QED BY <1>1, <1>2, <1>4, <2>1, <2>2, NextKeeps
<1> QED BY <1>1, <1>3, <1>4 DEF RespondAll

(* flush_all ends.                                                         *)
LEMMA FinishAllKeeps ==
    ASSUME IInv, NEW c \in Clients, FinishAll(c)
    PROVE  IInv'
<1>1. ServersOK' /\ key' = key
  BY DEF IInv, ServersOK, FinishAll, proxies, servers
<1>2. \A code \in {"ok", "error"} : Reply(code) \in Replies
  BY DEF Reply, Replies, Outcomes
<1>3. PICK code \in {"ok", "error"} : Finish(c, Reply(code))
  BY DEF FinishAll
<1> QED BY <1>1, <1>2, <1>3, Finished, OneClient DEF FinishAll

(* The clock moves.                                                        *)
LEMMA TickKeeps ==
    ASSUME IInv, Tick
    PROVE  IInv'
<1>1. ServersOK' /\ key' = key
  BY TickServers DEF IInv
<1>2. UNCHANGED <<pc, cmd, it, prev, conts, outOfServers, result, log>>
  BY DEF Tick, loop
<1>3. Framed'
  BY <1>2 DEF IInv, Framed, ByClient, Tick
<1>4. ASSUME NEW c \in Clients PROVE ClientOK(c)'
  <2>1. ClientOK(c)
    BY DEF IInv
  <2>2. age'[c] \in 0 .. MaxDelay
    BY <2>1, LimitAssumption DEF Tick, ClientOK
  <2>3. Visited(c)' = Visited(c) /\ Answered(c)' = Answered(c)
    BY <1>2 DEF Visited, Answered
  <2>4. \A i, p : WalkOK(i)' = WalkOK(i) /\ Past(i, p)' = Past(i, p)
    BY <1>1 DEF WalkOK, Past, From
  <2>5. /\ Running(c) => Running(c)'
        /\ RunningAll(c) => RunningAll(c)'
    BY <1>2, <2>3, <2>4 DEF Running, RunningAll
  <2> QED BY <1>2, <2>1, <2>2, <2>3, <2>5 DEF ClientOK, Looping, Sending
<1> QED BY <1>1, <1>3, <1>4 DEF IInv

(* Steps that leave the clients alone.                                     *)
LEMMA OtherSteps ==
    ASSUME IInv, ServersOK', UNCHANGED <<key, pc, cmd, loop, age, result, log>>
    PROVE  IInv'
<1>1. UNCHANGED <<pc, cmd, it, prev, conts, outOfServers, age, result, log>>
  BY DEF loop
<1>2. Framed'
  BY <1>1 DEF IInv, Framed, ByClient
<1>3. ASSUME NEW c \in Clients PROVE ClientOK(c)'
  <2>1. ClientOK(c)
    BY DEF IInv
  <2>3. Visited(c)' = Visited(c) /\ Answered(c)' = Answered(c)
    BY <1>1 DEF Visited, Answered
  <2>4. \A i, p : WalkOK(i)' = WalkOK(i) /\ Past(i, p)' = Past(i, p)
    BY DEF WalkOK, Past, From
  <2>5. /\ Running(c) => Running(c)'
        /\ RunningAll(c) => RunningAll(c)'
    BY <1>1, <2>3, <2>4 DEF Running, RunningAll
  <2> QED BY <1>1, <2>1, <2>3, <2>5 DEF ClientOK, Looping, Sending
<1> QED BY <1>2, <1>3 DEF IInv

(* The invariant holds at first.                                           *)
LEMMA InitInv == Init => IInv
<1> SUFFICES ASSUME Init PROVE IInv
  OBVIOUS
<1>1. ServersOK
  <2>1. 0 \in 0 .. FailLimit /\ Never \in Never .. Interval
    BY Times
  <2> QED BY <2>1 DEF Init, ServersOK
<1>2. Framed
  BY DEF Init, Framed, ByClient
<1>3. ASSUME NEW c \in Clients PROVE ClientOK(c)
  <2>1. <<>> \in Seq(Servers \X Outcomes) /\ 0 \in 0 .. MaxContinues /\ 0 \in 0 .. MaxDelay
    BY EmptySeq, LimitAssumption
  <2> QED BY <2>1 DEF Init, ClientOK
<1> QED BY <1>1, <1>2, <1>3 DEF IInv

(* Every step keeps the invariant.                                         *)
LEMMA StepInv ==
    ASSUME IInv, [Next]_vars
    PROVE  IInv'
<1>1. ASSUME NEW c \in Clients, Calls(c) PROVE IInv'
  BY <1>1, StartAllKeeps, StartKeeps DEF Calls
<1>2. ASSUME NEW c \in Clients, RunStep(c, AnyToken) PROVE IInv'
  BY <1>2, ExhaustedKeeps, SkipPreviousKeeps, VisitKeeps, EscapeKeeps, RespondKeeps,
     FailKeeps DEF RunStep, AnyToken
<1>3. ASSUME NEW c \in Clients, RunAllStep(c) PROVE IInv'
  BY <1>3, VisitAllKeeps, RespondAllKeeps, FinishAllKeeps, EscapeKeeps DEF RunAllStep
<1>4. ASSUME NEW s \in Servers, ServerStep(s, AnyToken) PROVE IInv'
  BY <1>4, ServerSteps, OtherSteps DEF IInv
<1>5. CASE UNCHANGED vars
  <2>1. ServersOK' /\ UNCHANGED <<key, pc, cmd, loop, age, result, log>>
    BY <1>5 DEF vars, proxies, servers, IInv, ServersOK
  <2> QED BY <2>1, OtherSteps
<1> QED BY <1>1, <1>2, <1>3, <1>4, <1>5, TickKeeps DEF Next, Step

(* The inductive invariant of the client: what run() and run_all() have    *)
(* visited is where their iterators have been, in whatever order the steps *)
(* of the clients and the servers come.                                    *)
THEOREM ClientInvariant == Spec => []IInv
<1>1. IInv /\ [Next]_vars => IInv'
  BY StepInv
<1> QED BY <1>1, InitInv, PTL DEF Spec

(* Type correctness of the client, and a client that sends has a server:   *)
(* the iterator of run() is never at the end of the ring when it is        *)
(* dereferenced.                                                           *)
THEOREM ClientTypeCorrect == Spec => []TypeOK
<1>1. ASSUME IInv PROVE TypeOK
  <2>1. /\ conts \in [Clients -> 0 .. MaxContinues]
        /\ outOfServers \in [Clients -> BOOLEAN]
        /\ age \in [Clients -> 0 .. MaxDelay]
        /\ result \in [Clients -> Replies \cup {None}]
    BY <1>1 DEF IInv, Framed, ByClient, ClientOK
  <2>2. ASSUME NEW c \in Clients
        PROVE  /\ pc[c] \in {"idle", "loop", "send", "all", "sendAll"}
               /\ pc[c] \in {"loop", "send"} => it[c] \in Iterators
               /\ pc[c] \in {"send", "sendAll"} => Target(c) \in Servers
               /\ \A i \in DOMAIN log[c] : log[c][i] \in Servers \X Outcomes
    <3>1. ClientOK(c)
      BY <1>1 DEF IInv
    <3>2. \A i \in DOMAIN log[c] : log[c][i] \in Servers \X Outcomes
      <4>1. log[c] \in Seq(Servers \X Outcomes)
        BY <3>1 DEF ClientOK
      <4> QED BY <4>1
    <3> QED BY <1>1, <3>1, <3>2, TargetIs DEF ClientOK, Looping, Sending, Running, WalkOK
  <2> QED BY <1>1, <2>1, <2>2 DEF TypeOK, IInv, ServersOK
<1> QED BY <1>1, ClientInvariant, PTL

-----------------------------------------------------------------------------
(* How commands end.                                                       *)

(* How a command ends with this code.                                      *)
LastWord(c, code) ==
    \E k \in Tokens : \E answer \in Answers(cmd[c], item[Target(c)], k) :
       /\ Deliver(c, Target(c), answer)
       /\ ~TryNeighbour(c, Target(c), answer[1])
       /\ code = answer[1].code

(* Finish() ends the command of its client and no other.                   *)
LEMMA Finishes ==
    ASSUME IInv, NEW c \in Clients, NEW response, Finish(c, response)
    PROVE  /\ cmd'[c] = None /\ result'[c] = response
           /\ \A d \in Clients \ {c} : cmd'[d] = cmd[d]
  BY DEF IInv, Framed, ByClient, Finish

(* What ends a command.                                                    *)
LEMMA Ends ==
    ASSUME IInv, NEW c \in Clients, NEW d \in Clients,
           Calls(d) \/ RunStep(d, AnyToken) \/ RunAllStep(d),
           cmd[c] # None, cmd'[c] = None
    PROVE  /\ d = c
           /\ \/ Exhausted(c)
              \/ pc[c] = "send" /\ \E k \in Tokens : Respond(c, k)
              \/ Escape(c)
              \/ FinishAll(c)
<1>1. CASE Calls(d)
  <2>1. PICK command \in Given : cmd' = [cmd EXCEPT ![d] = command]
    BY <1>1 DEF Calls, StartAll, Start, Given
  <2>2. command # None
    BY NoneAssumption DEF Given
  <2> QED BY <2>1, <2>2 DEF IInv, Framed, ByClient
<1>2. ASSUME \E response : Finish(d, response) PROVE d = c
  BY <1>2, Finishes
<1>3. cmd' # cmd
  OBVIOUS
<1>4. CASE RunStep(d, AnyToken)
  <2>1. \/ Exhausted(d)
        \/ pc[d] = "send" /\ \E k \in Tokens : Respond(d, k)
        \/ Escape(d)
    BY <1>3, <1>4 DEF RunStep, AnyToken, SkipPrevious, Visit, Fail
  <2>2. ASSUME NEW k \in Tokens, Respond(d, k) PROVE \E response : Finish(d, response)
    BY <1>3, <2>2 DEF Respond
  <2>3. \E response : Finish(d, response)
    BY <2>1, <2>2 DEF Exhausted, Escape
  <2> QED BY <1>2, <2>1, <2>3
<1>5. CASE RunAllStep(d)
  <2>1. Escape(d) \/ FinishAll(d)
    BY <1>3, <1>5 DEF RunAllStep, VisitAll, RespondAll
  <2>2. \E response : Finish(d, response)
    BY <2>1 DEF FinishAll, Escape
  <2> QED BY <1>2, <2>1, <2>2
<1> QED BY <1>1, <1>4, <1>5

(* With what code a command ends.                                          *)
LEMMA Returning ==
    ASSUME IInv, Next, NEW c \in Clients, NEW code, Returns(c, code)
    PROVE  \/ /\ pc[c] = "loop" /\ ~InLoop(c)
              /\ code = IF outOfServers[c] THEN "out_of_servers" ELSE "not_found"
           \/ pc[c] = "send" /\ LastWord(c, code)
           \/ code = "exception"
           \/ /\ pc[c] = "all" /\ it[c] \notin Servers
              /\ code = IF \A i \in DOMAIN log[c] : log[c][i][2] = "ok"
                        THEN "ok" ELSE "error"
<1>1. cmd[c] # None /\ cmd'[c] = None /\ result'[c].code = code
  BY DEF Returns
<1>2. ~Tick /\ \A s \in Servers : ~ServerStep(s, AnyToken)
  BY <1>1, ServerSteps DEF Tick, IInv
<1>3. PICK d \in Clients : Calls(d) \/ RunStep(d, AnyToken) \/ RunAllStep(d)
  BY <1>2 DEF Next, Step
<1>4. \/ Exhausted(c)
      \/ pc[c] = "send" /\ \E k \in Tokens : Respond(c, k)
      \/ Escape(c)
      \/ FinishAll(c)
  BY <1>1, <1>3, Ends
<1>5. \A r : Reply(r).code = r
  BY DEF Reply
<1>6. CASE Exhausted(c)
  <2>1. Finish(c, Reply(IF outOfServers[c] THEN "out_of_servers" ELSE "not_found"))
    BY <1>6 DEF Exhausted
  <2>2. code = IF outOfServers[c] THEN "out_of_servers" ELSE "not_found"
    BY <1>1, <1>5, <2>1, Finishes
  <2> QED BY <1>6, <2>2 DEF Exhausted
<1>7. CASE Escape(c)
  BY <1>1, <1>5, <1>7, Finishes DEF Escape
<1>8. CASE FinishAll(c)
  <2>1. Finish(c, Reply(IF \A i \in DOMAIN log[c] : log[c][i][2] = "ok"
                        THEN "ok" ELSE "error"))
    BY <1>8 DEF FinishAll
  <2>2. code = IF \A i \in DOMAIN log[c] : log[c][i][2] = "ok" THEN "ok" ELSE "error"
    BY <1>1, <1>5, <2>1, Finishes
  <2> QED BY <1>8, <2>2 DEF FinishAll
<1>9. ASSUME NEW k \in Tokens, Respond(c, k), pc[c] = "send" PROVE LastWord(c, code)
  <2>1. PICK answer \in Answers(cmd[c], item[Target(c)], k) :
           /\ Deliver(c, Target(c), answer)
           /\ ~TryNeighbour(c, Target(c), answer[1])
           /\ Finish(c, answer[1])
    BY <1>1, <1>9 DEF Respond
  <2>2. result'[c] = answer[1]
    BY <2>1, Finishes
  <2> QED BY <1>1, <2>1, <2>2 DEF LastWord
<1> QED BY <1>4, <1>6, <1>7, <1>8, <1>9

(* run() throws out_of_servers only if no server answered, and tells       *)
(* not_found only if one did, whatever the servers and the other clients   *)
(* do.                                                                     *)
THEOREM ClientTellsOutOfServers == Spec => OutOfServersMeansNoAnswer
<1> DEFINE Tells(c) ==
        /\ Returns(c, "out_of_servers") => ~Answered(c)
        /\ Returns(c, "not_found") => Answered(c) \/ pc[c] = "send"
<1>1. ASSUME IInv, Next, NEW c \in Clients PROVE Tells(c)
  <2>1. ClientOK(c)
    BY <1>1 DEF IInv
  <2>2. pc[c] = "loop" => (outOfServers[c] <=> ~Answered(c))
    BY <2>1 DEF ClientOK, Looping, Running
  <2>3. ASSUME NEW code, pc[c] = "send", LastWord(c, code) PROVE code # "out_of_servers"
    <3>1. cmd[c] \in Given /\ item[Target(c)] \in Items \cup {NoItem}
      BY <1>1, <2>3, TargetIs DEF IInv, ServersOK
    <3> QED BY <2>3, <3>1, AnswersAre DEF LastWord, Outcomes
  <2>4. Returns(c, "out_of_servers") => ~Answered(c)
    BY <1>1, <2>2, <2>3, Returning
  <2>5. Returns(c, "not_found") => Answered(c) \/ pc[c] = "send"
    BY <1>1, <2>2, Returning
  <2> QED BY <2>4, <2>5
<1>2. IInv /\ [Next]_vars => [\A c \in Clients : Tells(c)]_vars
  BY <1>1
<1> QED BY <1>2, ClientInvariant, PTL DEF Spec, OutOfServersMeansNoAnswer

(* run() that gives up short of max_continues has visited every server     *)
(* that has a node: wrapping and skipping the previous server leaves none  *)
(* out, on any ring.                                                       *)
THEOREM ClientTriesAll == Spec => EveryServerTried
<1> DEFINE All(c) == Returns(c, "out_of_servers") /\ Len(log[c]) < MaxContinues
                       => Visited(c) = {ring[p] : p \in DOMAIN ring}
<1>1. ASSUME IInv, Next, NEW c \in Clients PROVE All(c)
  <2> SUFFICES ASSUME Returns(c, "out_of_servers"), Len(log[c]) < MaxContinues
               PROVE  Visited(c) = {ring[p] : p \in DOMAIN ring}
    OBVIOUS
  <2>1. ClientOK(c) /\ key \in KeyHashes
    BY <1>1 DEF IInv, ServersOK
  <2>2. ASSUME NEW code, pc[c] = "send", LastWord(c, code) PROVE code # "out_of_servers"
    <3>1. cmd[c] \in Given /\ item[Target(c)] \in Items \cup {NoItem}
      BY <1>1, <2>2, TargetIs DEF IInv, ServersOK
    <3> QED BY <2>2, <3>1, AnswersAre DEF LastWord, Outcomes
  <2>3. pc[c] = "loop" /\ ~InLoop(c)
    BY <1>1, <2>2, Returning
  <2>4. Running(c) /\ it[c].node = End
    BY <2>1, <2>3 DEF ClientOK, Looping, Running, InLoop, AtEnd
  <2>5. \A p \in DOMAIN ring : ring[p] \in Visited(c)
    BY <2>1, <2>4, EndIsPast DEF Running
  <2>6. \A s \in Visited(c) : \E p \in DOMAIN ring : s = ring[p]
    BY <2>4 DEF Running
  <2> QED BY <2>5, <2>6
<1>2. IInv /\ [Next]_vars => [\A c \in Clients : All(c)]_vars
  BY <1>1
<1> QED BY <1>2, ClientInvariant, PTL DEF Spec, EveryServerTried

(* flush_all returns true only if every server said ok.                    *)
THEOREM ClientFlushesAll == Spec => FlushedEverywhere
<1> DEFINE Flushed(c) ==
        Returns(c, "ok") /\ IsFlush(c)
          => \A s \in Servers : \E i \in DOMAIN log[c] : log[c][i] = <<s, "ok">>
<1>1. ASSUME IInv, Next, NEW c \in Clients PROVE Flushed(c)
  <2> SUFFICES ASSUME Returns(c, "ok"), IsFlush(c), NEW s \in Servers
               PROVE  \E i \in DOMAIN log[c] : log[c][i] = <<s, "ok">>
    OBVIOUS
  <2>1. ClientOK(c) /\ log[c] \in Seq(Visits)
    BY <1>1 DEF IInv, ClientOK, Visits
  <2>2. pc[c] # "send"
    BY <2>1 DEF ClientOK, Sending, Running, IsFlush
  <2>3. /\ pc[c] = "all" /\ it[c] \notin Servers
        /\ \A i \in DOMAIN log[c] : log[c][i][2] = "ok"
    BY <1>1, <2>2, Returning
  <2>4. /\ it[c] = Len(Nodes) /\ Len(log[c]) = it[c]
        /\ \A i \in 1 .. it[c] : log[c][i][1] = i - 1
    <3>1. RunningAll(c)
      BY <2>1, <2>3 DEF ClientOK
    <3>2. Len(log[c]) = it[c] /\ it[c] \in 0 .. Len(Nodes)
      BY <3>1 DEF RunningAll
    <3>3. it[c] = Len(Nodes)
      BY <2>3, <3>2, RingFacts DEF Servers
    <3> QED BY <3>1, <3>2, <3>3 DEF RunningAll
  <2>5. s + 1 \in 1 .. it[c] /\ s + 1 \in DOMAIN log[c] /\ (s + 1) - 1 = s
    BY <2>1, <2>4, RingFacts DEF Servers
  <2>6. log[c][s + 1] \in Visits /\ log[c][s + 1][1] = s /\ log[c][s + 1][2] = "ok"
    BY <2>1, <2>3, <2>4, <2>5
  <2>7. log[c][s + 1] = <<s, "ok">>
    BY <2>6 DEF Visits
  <2> QED BY <2>5, <2>7
<1>2. IInv /\ [Next]_vars => [\A c \in Clients : Flushed(c)]_vars
  BY <1>1
<1> QED BY <1>2, ClientInvariant, PTL DEF Spec, FlushedEverywhere

-----------------------------------------------------------------------------
(* What keeps the marks of the proxies.                                    *)

(* What a step other than a tick of the clock does to the marks of s.      *)
Moved(s) ==
    \/ UNCHANGED <<dead[s], restoration[s]>>
    \/ dead'[s] /\ restoration'[s] = Interval
    \/ ~dead'[s] /\ restoration'[s] = restoration[s]

(* callable() may only put a probe off.                                    *)
LEMMA ProceedMoves ==
    ASSUME ServersOK, NEW c, NEW s \in Servers, Proceed(c, s) \/ Decline(c, s)
    PROVE  \A r \in Servers : Moved(r)
<1>1. CASE UNCHANGED proxies
  BY <1>1 DEF Moved, proxies
<1>2. CASE /\ dead[s]
           /\ restoration' = [restoration EXCEPT ![s] = Interval]
           /\ UNCHANGED <<key, dead, fails>>
  BY <1>2 DEF ServersOK, Moved
<1> QED BY <1>1, <1>2 DEF Proceed, Decline

(* An answer may only make the proxy alive.                                *)
LEMMA DeliverMoves ==
    ASSUME ServersOK, NEW c, NEW s \in Servers, NEW answer, Deliver(c, s, answer)
    PROVE  \A r \in Servers : Moved(r)
  BY DEF ServersOK, Deliver, Moved

(* A failure may only make it dead, to be tried an interval later.         *)
LEMMA LoseMoves ==
    ASSUME ServersOK, NEW c \in Clients, NEW s \in Servers, NEW k, Lose(c, s, k)
    PROVE  \A r \in Servers : Moved(r)
<1>1. CASE UNCHANGED proxies
  BY <1>1 DEF Moved, proxies
<1>2. CASE ~UNCHANGED proxies
  <2> DEFINE count == Least(FailLimit, fails[s] + 1)
             many == count >= FailLimit
  <2>1. /\ dead' = [dead EXCEPT ![s] = @ \/ many]
        /\ restoration' = [restoration EXCEPT ![s] = IF many THEN Interval ELSE @]
    BY <1>2 DEF Lose
  <2> HIDE DEF many
  <2>2. \A r \in Servers \ {s} : UNCHANGED <<dead[r], restoration[r]>>
    BY <2>1 DEF ServersOK
  <2>3. CASE many
    <3>1. dead'[s] /\ restoration'[s] = Interval
      BY <2>1, <2>3 DEF ServersOK
    <3> QED BY <2>2, <3>1 DEF Moved
  <2>4. CASE ~many
    <3>1. (dead[s] \/ many) = dead[s]
      BY <2>4, Zenon DEF ServersOK
    <3>2. dead'[s] = dead[s]
      BY <2>1, <3>1, Zenon DEF ServersOK
    <3>3. restoration'[s] = restoration[s]
      BY <2>1, <2>4 DEF ServersOK
    <3> QED BY <2>2, <3>2, <3>3 DEF Moved
  <2> QED BY <2>3, <2>4
<1> QED BY <1>1, <1>2

(* No other step than a tick does more than these to the marks.            *)
LEMMA StepMoves ==
    ASSUME IInv, Step
    PROVE  \A s \in Servers : Moved(s)
<1>1. CASE UNCHANGED proxies
  BY <1>1 DEF Moved, proxies
<1>2. ASSUME NEW c \in Clients, Visit(c) \/ VisitAll(c) PROVE \A s \in Servers : Moved(s)
  <2>1. Target(c) \in Servers /\ (Proceed(c, Target(c)) \/ Decline(c, Target(c)))
    BY <1>2, TargetIs DEF Visit, VisitAll
  <2> QED BY <2>1, ProceedMoves DEF IInv
<1>3. ASSUME NEW c \in Clients, NEW k \in Tokens, Respond(c, k) \/ Fail(c, k) \/ RespondAll(c, k)
      PROVE  \A s \in Servers : Moved(s)
  <2>1. /\ Target(c) \in Servers
        /\ Lose(c, Target(c), k) \/ \E answer : Deliver(c, Target(c), answer)
    BY <1>3, TargetIs DEF Respond, Fail, RespondAll
  <2> QED BY <2>1, DeliverMoves, LoseMoves DEF IInv
<1>4. ASSUME NEW c \in Clients,
             Calls(c) \/ Exhausted(c) \/ SkipPrevious(c) \/ Escape(c) \/ FinishAll(c)
      PROVE  UNCHANGED proxies
  BY <1>4 DEF Calls, Start, StartAll, Exhausted, SkipPrevious, Escape, FinishAll, proxies
<1>5. ASSUME NEW s \in Servers, ServerStep(s, AnyToken) PROVE UNCHANGED proxies
  BY <1>5 DEF ServerStep, Evict, LateLost, LateEffect, proxies
<1> QED BY <1>1, <1>2, <1>3, <1>4, <1>5 DEF Step, RunStep, RunAllStep, AnyToken

(* A step of one client leaves the local variables of the others alone.    *)
LEMMA OthersKept ==
    ASSUME IInv, NEW c \in Clients,
           Calls(c) \/ RunStep(c, AnyToken) \/ RunAllStep(c)
    PROVE  Others(c)
<1>1. ASSUME NEW response, Finish(c, response),
             age' = age \/ age' = [age EXCEPT ![c] = 0]
      PROVE  Others(c)
  BY <1>1 DEF IInv, Framed, ByClient, Finish, Others
<1>2. CASE Exhausted(c) \/ Escape(c) \/ FinishAll(c)
  <2>1. \E response : Finish(c, response)
    BY <1>2 DEF Exhausted, Escape, FinishAll
  <2>2. age' = age \/ age' = [age EXCEPT ![c] = 0]
    BY <1>2 DEF Exhausted, Escape, FinishAll
  <2> QED BY <1>1, <2>1, <2>2
<1>3. CASE StartAll(c) \/ \E command \in Commands : Start(c, command)
  BY <1>3 DEF IInv, Framed, ByClient, StartAll, Start, Others
<1>4. CASE SkipPrevious(c)
  BY <1>4 DEF IInv, Framed, ByClient, SkipPrevious, Others
<1>5. CASE Visit(c)
  BY <1>5 DEF IInv, Framed, ByClient, Visit, Continue, Log, Others
<1>6. CASE VisitAll(c)
  BY <1>6 DEF IInv, Framed, ByClient, VisitAll, NextServer, Log, Others
<1>7. ASSUME NEW k \in Tokens, Fail(c, k) PROVE Others(c)
  BY <1>7 DEF IInv, Framed, ByClient, Fail, Continue, Log, Lose, Others
<1>8. ASSUME NEW k \in Tokens, RespondAll(c, k) PROVE Others(c)
  BY <1>8 DEF IInv, Framed, ByClient, RespondAll, NextServer, Log, Lose, Deliver, Others
<1>9. ASSUME NEW k \in Tokens, Respond(c, k) PROVE Others(c)
  <2>1. PICK answer : /\ Deliver(c, Target(c), answer)
                      /\ \/ /\ outOfServers' = [outOfServers EXCEPT ![c] = FALSE]
                            /\ Continue(c)
                            /\ Log(c, Target(c), answer[1].code)
                            /\ UNCHANGED <<cmd, prev, result>>
                         \/ Finish(c, answer[1])
    BY <1>9 DEF Respond
  <2>2. age' = [age EXCEPT ![c] = 0]
    BY <2>1 DEF Deliver
  <2>3. CASE Finish(c, answer[1])
    BY <1>1, <2>2, <2>3
  <2>4. CASE ~Finish(c, answer[1])
    BY <2>1, <2>2, <2>4 DEF IInv, Framed, ByClient, Continue, Log, Others
  <2> QED BY <2>3, <2>4
<1> QED BY <1>2, <1>3, <1>4, <1>5, <1>6, <1>7, <1>8, <1>9
       DEF Calls, RunStep, RunAllStep, AnyToken

(* A client whose send() is in progress was so before, or has just been    *)
(* told that the server is callable.                                       *)
LEMMA Entered ==
    ASSUME IInv, Step, NEW c \in Clients, pc'[c] \in {"send", "sendAll"}
    PROVE  /\ UNCHANGED <<cmd[c], it[c], age[c]>>
           /\ \/ pc[c] \in {"send", "sendAll"}
              \/ Target(c) \in Servers /\ Proceed(c, Target(c))
<1>1. ASSUME NEW d \in Clients \ {c}, Calls(d) \/ RunStep(d, AnyToken) \/ RunAllStep(d)
      PROVE  /\ UNCHANGED <<cmd[c], it[c], age[c]>>
             /\ pc[c] \in {"send", "sendAll"}
  BY <1>1, OthersKept DEF Others
<1>2. ASSUME NEW s \in Servers, ServerStep(s, AnyToken)
      PROVE  /\ UNCHANGED <<cmd[c], it[c], age[c]>>
             /\ pc[c] \in {"send", "sendAll"}
  BY <1>2, ServerSteps DEF IInv, loop
<1>3. ASSUME Calls(c) \/ RunStep(c, AnyToken) \/ RunAllStep(c)
      PROVE  SkipPrevious(c) \/ Visit(c) \/ VisitAll(c)
  <2>1. ASSUME NEW response, Finish(c, response) PROVE FALSE
    BY <2>1 DEF IInv, Framed, ByClient, Finish
  <2>2. ~(Exhausted(c) \/ Escape(c) \/ FinishAll(c))
    BY <2>1 DEF Exhausted, Escape, FinishAll
  <2>3. ~(Continue(c) \/ NextServer(c))
    BY DEF IInv, Framed, ByClient, Continue, NextServer
  <2>4. ASSUME NEW k \in Tokens PROVE ~(Fail(c, k) \/ Respond(c, k) \/ RespondAll(c, k))
    BY <2>1, <2>3 DEF Fail, Respond, RespondAll
  <2>5. ~Calls(c)
    BY DEF IInv, Framed, ByClient, Calls, StartAll, Start
  <2> QED BY <1>3, <2>2, <2>4, <2>5 DEF RunStep, RunAllStep, AnyToken
<1>4. CASE SkipPrevious(c)
  BY <1>4 DEF SkipPrevious, InLoop
<1>5. CASE Visit(c) \/ VisitAll(c)
  <2>1. ~(Continue(c) \/ NextServer(c))
    BY DEF IInv, Framed, ByClient, Continue, NextServer
  <2>2. /\ UNCHANGED <<cmd, it, age>> /\ Proceed(c, Target(c))
    BY <1>5, <2>1 DEF Visit, VisitAll
  <2>3. Target(c) \in Servers
    BY <1>5, TargetIs DEF Visit, VisitAll
  <2> QED BY <2>2, <2>3
<1> QED BY <1>1, <1>2, <1>3, <1>4, <1>5 DEF Step

(* Every step keeps what is known of dead servers that are asked.          *)
LEMMA ProbeKeeps ==
    ASSUME IInv, ProbeOK, Next
    PROVE  ProbeOK'
<1> SUFFICES ASSUME NEW c \in Clients, pc'[c] \in {"send", "sendAll"}, dead'[Target(c)']
             PROVE  Interval - restoration'[Target(c)'] <= age'[c]
  BY DEF ProbeOK
<1>1. age[c] \in Nat /\ \A s \in Servers : restoration[s] \in Int
  BY Times, LimitAssumption DEF IInv, ClientOK, ServersOK
<1>2. CASE Step
  <2>1. /\ UNCHANGED <<cmd[c], it[c], age[c]>>
        /\ \/ pc[c] \in {"send", "sendAll"}
           \/ Target(c) \in Servers /\ Proceed(c, Target(c))
    BY <1>2, Entered
  <2>2. Target(c)' = Target(c) /\ Target(c) \in Servers
    BY <2>1, TargetIs DEF Target
  <2>3. PICK s \in Servers : s = Target(c)
    BY <2>2
  <2>4. dead'[s] /\ age'[c] = age[c]
    BY <2>1, <2>2, <2>3
  <2>5. CASE restoration'[s] = Interval
    <3>1. Interval - restoration'[s] <= age'[c]
      BY <1>1, <2>4, <2>5, Times
    <3> QED BY <2>2, <2>3, <3>1
  <2>6. CASE pc[c] \in {"send", "sendAll"} /\ restoration'[s] # Interval
    <3>1. dead[s] /\ restoration'[s] = restoration[s]
      <4>1. Moved(s)
        BY <1>2, StepMoves
      <4> QED BY <2>4, <2>6, <4>1 DEF Moved
    <3>2. Interval - restoration[s] <= age[c]
      BY <2>3, <2>6, <3>1 DEF ProbeOK
    <3> QED BY <2>2, <2>3, <2>4, <3>1, <3>2
  <2>7. CASE Proceed(c, s)
    <3>1. restoration'[s] = Interval
      BY <2>4, <2>7 DEF Proceed, IInv, ServersOK, proxies
    <3> QED BY <2>5, <3>1
  <2> QED BY <2>1, <2>3, <2>5, <2>6, <2>7
<1>3. CASE Tick
  <2>1. UNCHANGED <<pc, cmd, it, dead>>
    BY <1>3 DEF Tick, loop
  <2>2. Target(c)' = Target(c) /\ Target(c) \in Servers
    BY <2>1, TargetIs DEF Target
  <2>3. PICK s \in Servers : s = Target(c)
    BY <2>2
  <2>4. Interval - restoration[s] <= age[c]
    BY <2>1, <2>2, <2>3 DEF ProbeOK
  <2>5. age'[c] = age[c] + 1 /\ restoration'[s] >= restoration[s] - 1 /\ restoration'[s] \in Int
    BY <1>1, <1>3, <2>1 DEF Tick
  <2>6. Interval - restoration'[s] <= age'[c]
    BY <1>1, <2>4, <2>5, Times
  <2> QED BY <2>2, <2>3, <2>6
<1> QED BY <1>2, <1>3 DEF Next

-----------------------------------------------------------------------------
(* Restored servers.                                                       *)

(* A server is restored by a client that was sending to it.                *)
LEMMA Reviver ==
    ASSUME IInv, Step, NEW s \in Servers, dead[s], ~dead'[s]
    PROVE  \E c \in Clients : pc[c] \in {"send", "sendAll"} /\ Target(c) = s
<1>1. ~UNCHANGED proxies /\ dead' # dead
  BY DEF proxies
<1>2. ASSUME NEW c \in Clients, Visit(c) \/ VisitAll(c) PROVE FALSE
  BY <1>1, <1>2 DEF Visit, VisitAll, Proceed, Decline, proxies
<1>3. ASSUME NEW c \in Clients, NEW k \in Tokens, Respond(c, k) \/ Fail(c, k) \/ RespondAll(c, k)
      PROVE  pc[c] \in {"send", "sendAll"} /\ Target(c) = s
  <2>1. /\ pc[c] \in {"send", "sendAll"} /\ Target(c) \in Servers
        /\ Lose(c, Target(c), k) \/ \E answer : Deliver(c, Target(c), answer)
    BY <1>3, TargetIs DEF Respond, Fail, RespondAll
  <2>2. PICK b : dead' = [dead EXCEPT ![Target(c)] = b]
    BY <1>1, <2>1 DEF Lose, Deliver
  <2>3. dead \in [Servers -> BOOLEAN]
    BY DEF IInv, ServersOK
  <2> QED BY <2>1, <2>2, <2>3
<1>4. ASSUME NEW c \in Clients,
             Calls(c) \/ Exhausted(c) \/ SkipPrevious(c) \/ Escape(c) \/ FinishAll(c)
      PROVE  FALSE
  BY <1>1, <1>4 DEF Calls, Start, StartAll, Exhausted, SkipPrevious, Escape, FinishAll
<1>5. ASSUME NEW r \in Servers, ServerStep(r, AnyToken) PROVE FALSE
  BY <1>1, <1>5 DEF ServerStep, Evict, LateLost, LateEffect
<1> QED BY <1>2, <1>3, <1>4, <1>5 DEF Step, RunStep, RunAllStep, AnyToken

AuditNext ==
    \/ Step /\ revived' = Revived
    \/ Tick /\ revived' = Older

AInv == IInv /\ ProbeOK /\ RevivedOK

(* The time of h404_duration that is left of a request.                    *)
LEMMA WindowIs == Window \in Int /\ Window = H404 - MaxDelay
  BY Times DEF Window

(* Every step keeps what is known of restored servers.                     *)
LEMMA RevivedKeeps ==
    ASSUME AInv, AuditNext
    PROVE  RevivedOK'
<1> USE WindowIs, Times
<1>1. /\ revived \in [Servers -> Int]
      /\ dead \in [Servers -> BOOLEAN]
      /\ \A s \in Servers : restoration[s] \in Int
  BY DEF AInv, RevivedOK, IInv, ServersOK
<1>2. revived' \in [Servers -> Int]
  <2>1. \A s \in Servers : Least(Window, revived[s] + 1) \in Int
    BY <1>1 DEF Least
  <2> QED BY <1>1, <2>1 DEF AuditNext, Revived, Older
<1>3. ASSUME NEW s \in Servers, ~dead'[s], revived'[s] < Window
      PROVE  Interval - restoration'[s] <= revived'[s] + MaxDelay
  <2>1. CASE Step /\ revived' = Revived
    <3>1. restoration'[s] = restoration[s]
      <4>1. Moved(s)
        BY <2>1, StepMoves DEF AInv
      <4> QED BY <1>3, <4>1 DEF Moved
    <3>2. CASE dead[s]
      <4>1. PICK c \in Clients : pc[c] \in {"send", "sendAll"} /\ Target(c) = s
        BY <1>3, <2>1, <3>2, Reviver DEF AInv
      <4>2. Interval - restoration[s] <= age[c]
        BY <3>2, <4>1 DEF AInv, ProbeOK
      <4>3. age[c] \in 0 .. MaxDelay
        BY DEF AInv, IInv, ClientOK
      <4>4. revived'[s] = 0
        BY <1>3, <2>1, <3>2 DEF Revived
      <4> QED BY <1>1, <3>1, <4>2, <4>3, <4>4
    <3>3. CASE ~dead[s]
      <4>1. revived'[s] = revived[s]
        BY <2>1, <3>3 DEF Revived
      <4>2. Interval - restoration[s] <= revived[s] + MaxDelay
        BY <1>3, <3>3, <4>1 DEF AInv, RevivedOK
      <4> QED BY <3>1, <4>1, <4>2
    <3> QED BY <3>2, <3>3
  <2>2. CASE Tick /\ revived' = Older
    <3>1. /\ dead' = dead
          /\ restoration'[s] \in Int /\ restoration'[s] >= restoration[s] - 1
      BY <1>1, <2>2 DEF Tick
    <3>2. revived[s] \in Int /\ revived'[s] = revived[s] + 1 /\ revived[s] < Window
      BY <1>1, <1>3, <2>2 DEF Older, Least
    <3>3. ~dead[s]
      BY <1>3, <3>1, Zenon
    <3>4. Interval - restoration[s] <= revived[s] + MaxDelay
      BY <3>2, <3>3 DEF AInv, RevivedOK
    <3> QED BY <1>1, <3>1, <3>2, <3>4
  <2> QED BY <2>1, <2>2 DEF AuditNext
<1> QED BY <1>2, <1>3 DEF RevivedOK

(* Every step keeps the invariant with the history.                        *)
LEMMA AuditStepInv ==
    ASSUME AInv, [AuditNext]_<<vars, revived>>
    PROVE  AInv'
<1>1. IInv'
  BY StepInv DEF AInv, AuditNext, Next
<1>2. CASE AuditNext
  BY <1>1, <1>2, ProbeKeeps, RevivedKeeps DEF AInv, AuditNext, Next
<1>3. CASE UNCHANGED <<vars, revived>>
  <2>1. UNCHANGED <<pc, cmd, it, age, dead, restoration, revived>>
    BY <1>3 DEF vars, proxies, loop
  <2>2. \A c : Target(c)' = Target(c)
    BY <2>1 DEF Target
  <2>3. ProbeOK' /\ RevivedOK'
    BY <2>1, <2>2 DEF AInv, ProbeOK, RevivedOK
  <2> QED BY <1>1, <2>3 DEF AInv
<1> QED BY <1>2, <1>3

(* It holds at first.                                                      *)
LEMMA AuditInitInv == AuditInit => AInv
<1> SUFFICES ASSUME AuditInit PROVE AInv
  OBVIOUS
<1>1. IInv
  BY InitInv DEF AuditInit
<1>2. ProbeOK
  BY DEF AuditInit, Init, ProbeOK
<1>3. RevivedOK
  <2>1. revived = [s \in Servers |-> Window]
    BY DEF AuditInit
  <2> QED BY <2>1, WindowIs DEF RevivedOK
<1> QED BY <1>1, <1>2, <1>3 DEF AInv

(* The inductive invariant with the time since the restoration of each     *)
(* server: the lifespan run() looks at is not longer than that time and    *)
(* the time a request may take.                                            *)
THEOREM AuditInvariant == AuditSpec => []AInv
<1>1. AInv /\ [AuditNext]_<<vars, revived>> => AInv'
  BY AuditStepInv
<1> QED BY <1>1, AuditInitInv, PTL DEF AuditSpec, AuditNext

(* A lifespan of h404_duration or more.                                    *)
LEMMA LongLifespan ==
    ASSUME NEW s \in Servers, restoration[s] \in Never .. Interval, Lifespan(s) >= H404
    PROVE  H404 <= Interval - restoration[s]
<1>1. restoration[s] \in Int /\ restoration[s] <= Interval
  BY Times
<1>2. CASE restoration[s] = Never
  BY <1>1, <1>2, Times
<1>3. CASE restoration[s] # Never
  <2>1. Most(0, Interval - restoration[s]) >= H404
    BY <1>3 DEF Lifespan
  <2> QED BY <1>1, <2>1, Times DEF Most
<1> QED BY <1>2, <1>3

(* The 404 of a server restored within h404_duration, less the time of a   *)
(* request, is never the last word on a get: run() goes on to the          *)
(* neighbour, whichever client restored the server.                        *)
THEOREM RestoredFallsBack == AuditSpec => RestoredServerFallsBack
<1> DEFINE Falls(c) == NotFoundByOne(c) => revived'[Target(c)] >= Window
<1>1. ASSUME AInv, AuditNext, NEW c \in Clients PROVE Falls(c)
  <2> SUFFICES ASSUME NotFoundByOne(c) PROVE revived'[Target(c)] >= Window
    OBVIOUS
  <2>1. /\ IInv /\ ProbeOK /\ RevivedOK /\ Next
        /\ Returns(c, "not_found") /\ cmd[c].kind \in Get /\ log[c] = <<>> /\ pc[c] = "send"
    BY <1>1 DEF AInv, AuditNext, Next, NotFoundByOne
  <2>2. LastWord(c, "not_found")
    BY <2>1, Returning
  <2>3. ~Tick
    BY <2>1 DEF Tick, Returns
  <2>4. Step /\ revived' = Revived
    BY <1>1, <2>3 DEF AuditNext
  <2>5. Running(c) /\ Target(c) \in Servers /\ conts[c] = 0
    BY <2>1, TargetIs DEF Running
  <2>6. PICK s \in Servers : s = Target(c)
    BY <2>5
  <2>7. /\ ~dead'[s]
        /\ ~(Lifespan(s) < H404)
    BY <2>1, <2>2, <2>5, <2>6 DEF LastWord, TryNeighbour, Deliver, IInv, ServersOK
  <2>8. restoration[s] \in Never .. Interval /\ restoration[s] \in Int /\ revived[s] \in Int
    BY <2>1, Times DEF IInv, ServersOK, RevivedOK
  <2>9. Lifespan(s) \in Int
    BY <2>8, Times DEF Lifespan, Most
  <2>10. H404 <= Interval - restoration[s]
    BY <2>7, <2>8, <2>9, LongLifespan, Times
  <2>11. CASE dead[s]
    <3>1. Interval - restoration[s] <= age[c] /\ age[c] \in 0 .. MaxDelay
      BY <2>1, <2>6, <2>11 DEF ProbeOK, IInv, ClientOK
    <3>2. revived'[s] = 0
      BY <2>4, <2>7, <2>11 DEF Revived
    <3>3. 0 >= Window
      BY <2>8, <2>10, <3>1, Times, WindowIs
    <3> QED BY <2>6, <3>2, <3>3
  <2>12. CASE ~dead[s]
    <3>1. revived'[s] = revived[s]
      BY <2>4, <2>12 DEF Revived
    <3>2. ASSUME revived[s] < Window PROVE FALSE
      <4>1. Interval - restoration[s] <= revived[s] + MaxDelay
        BY <2>1, <2>12, <3>2 DEF RevivedOK
      <4> QED BY <2>8, <2>10, <3>2, <4>1, Times, WindowIs
    <3>3. revived[s] >= Window
      BY <2>8, <3>2, WindowIs
    <3> QED BY <2>6, <3>1, <3>3
  <2> QED BY <2>11, <2>12
<1>2. AInv /\ [AuditNext]_<<vars, revived>> => [\A c \in Clients : Falls(c)]_<<vars, revived>>
  BY <1>1
<1> QED BY <1>2, AuditInvariant, PTL DEF AuditSpec, AuditNext, RestoredServerFallsBack

-----------------------------------------------------------------------------
(* atomic_update, with one server.                                         *)

Value == item[TheServer]

(* What an update knows of the state of its client.                        *)
ShapeOK(c) ==
    /\ upd[c] \in {"none", "gets", "cas", "add"}
    /\ iters[c] \in 0 .. Iters
    /\ changes[c] \in 0 .. Iters
    /\ applied[c] \in BOOLEAN
    /\ pc[c] \in {"idle", "loop", "send"}
    /\ upd[c] = "none" => pc[c] = "idle" /\ result[c] = None /\ ~applied[c]
    /\ upd[c] # "none" => iters[c] >= 1
    /\ pc[c] # "idle" /\ upd[c] = "gets" => cmd[c] = [kind |-> "gets"]
    /\ pc[c] # "idle" /\ upd[c] \in {"cas", "add"} =>
          outOfServers[c] /\ cmd[c].kind = upd[c] /\ cmd[c].data = new[c]
    /\ pc[c] # "idle" /\ upd[c] = "cas" => source[c] = TheServer
    /\ pc[c] # "idle" /\ upd[c] = "add" => cmd[c].data = Callback(NoItem)

(* The one server is visited once.                                         *)
VisitOK(c) ==
    /\ pc[c] = "loop" /\ prev[c] = None => log[c] = <<>>
    /\ pc[c] = "send" => log[c] = <<>>
    /\ log[c] = <<>> \/ \E o \in Outcomes : log[c] = <<<<TheServer, o>>>>

(* What came back.                                                         *)
BackOK(c) ==
    Back(c) =>
       /\ upd[c] = "gets" /\ result[c].code = "ok" =>
             result[c].item \in Items /\ source[c] = TheServer
       /\ upd[c] \in {"cas", "add"} =>
             result[c].code # "ok" /\ (result[c].code = "stored" => applied[c])

(* An item is changed by the last command of an update.                    *)
AppliedOK(c) ==
    applied[c] =>
       /\ upd[c] \in {"cas", "add"}
       /\ pc[c] # "idle" => log[c] # <<>>
       /\ Back(c) => result[c].code \in {"stored", "out_of_servers"}

(* An item with the cas identifier that was read is the one that was read. *)
MatchOK(c) ==
    Value # NoItem =>
       /\ upd[c] = "gets" /\ Back(c) /\ result[c].code = "ok" =>
             (result[c].item.cas = Value.cas => result[c].item.data = Value.data)
       /\ pc[c] # "idle" /\ upd[c] = "cas" /\ cmd[c].cas = Value.cas
             => cmd[c].data = Callback(Value.data)

LateOK ==
    LET l == late[TheServer] IN
    l # None =>
       /\ MaxLate >= 1
       /\ \/ l.kind = "add" /\ l.data = Callback(NoItem)
          \/ /\ l.kind = "cas"
             /\ (Value # NoItem /\ l.cas = Value.cas => l.data = Callback(Value.data))

(* There was a change for this iteration already.                          *)
Excused(c) == Iters - iters[c] + 1 <= changes[c]

(* Without one this is how the item is.                                    *)
Steady(c) ==
    /\ upd[c] = "gets" =>
          /\ pc[c] # "idle" /\ ~outOfServers[c] => Value = NoItem
          /\ Back(c) /\ result[c].code = "not_found" => Value = NoItem
          /\ Back(c) /\ result[c].code = "ok" => Value = result[c].item
    /\ upd[c] = "cas" =>
          /\ pc[c] # "idle" => Value # NoItem /\ Value.cas = cmd[c].cas
          /\ Back(c) => result[c].code \notin {"exists", "not_found"}
    /\ upd[c] = "add" =>
          /\ pc[c] # "idle" => Value = NoItem
          /\ Back(c) => result[c].code # "exists"

VainOK(c) ==
    upd[c] # "none" => /\ Iters - iters[c] <= changes[c]
                       /\ Excused(c) \/ Steady(c)

UFramed ==
    /\ ByClient(upd) /\ ByClient(iters) /\ ByClient(new) /\ ByClient(outcome)
    /\ ByClient(source) /\ ByClient(applied) /\ ByClient(changes)

UpdateInv ==
    /\ IInv /\ UFramed /\ LateOK
    /\ \A c \in Clients :
          ShapeOK(c) /\ VisitOK(c) /\ BackOK(c) /\ AppliedOK(c) /\ MatchOK(c)

Now == IF Value = NoItem THEN NoItem ELSE Value.data

-----------------------------------------------------------------------------
(* What a command of an update does to the server.                         *)
Kept == UNCHANGED servers

Puts(c) ==
    /\ upd[c] \in {"cas", "add"}
    /\ new[c] = Callback(Now)
    /\ UNCHANGED late
    /\ \E k \in Fresh(TheServer) : Value' = [data |-> new[c], cas |-> k]

Postpones(c) ==
    /\ UNCHANGED item
    /\ upd[c] \in {"cas", "add"}
    /\ MaxLate >= 1
    /\ late[TheServer] = None
    /\ late'[TheServer] = cmd[c]

(* A step of run() that does not end it.                                   *)
Stays(c) ==
    /\ pc[c] = "loop" /\ pc'[c] \in {"loop", "send"}
    /\ UNCHANGED <<cmd[c], outOfServers[c], result[c], log[c]>>
    /\ pc'[c] = "send" => log[c] = <<>>
    /\ pc'[c] = "loop" /\ prev'[c] = None => prev[c] = None
    /\ Kept

GoesOn(c, outcome1) ==
    /\ pc[c] \in {"loop", "send"} /\ pc'[c] = "loop"
    /\ UNCHANGED <<cmd[c], result[c]>>
    /\ prev'[c] # None
    /\ log[c] = <<>> /\ log'[c] = <<<<TheServer, outcome1>>>>

NoAnswer(c) ==
    /\ GoesOn(c, "no_answer")
    /\ UNCHANGED outOfServers[c]
    /\ Kept \/ (pc[c] = "send" /\ (Puts(c) \/ Postpones(c)))

Misses(c) ==
    /\ GoesOn(c, "not_found")
    /\ upd[c] = "gets" /\ Value = NoItem
    /\ ~outOfServers'[c]
    /\ Kept

Ending(c, response) ==
    /\ pc'[c] = "idle" /\ cmd'[c] = None /\ result'[c] = response /\ log'[c] = <<>>

GivesUp(c) ==
    /\ pc[c] = "loop"
    /\ Ending(c, Reply(IF outOfServers[c] THEN "out_of_servers" ELSE "not_found"))
    /\ Kept

IsTold(c) ==
    /\ pc[c] = "send"
    /\ \/ Ending(c, Reply("stored")) /\ Puts(c)
       \/ /\ Kept
          /\ \/ /\ upd[c] = "gets" /\ Value # NoItem
                /\ Ending(c, [code |-> "ok", item |-> Value])
             \/ /\ upd[c] = "cas" /\ Value # NoItem /\ Value.cas # cmd[c].cas
                /\ Ending(c, Reply("exists"))
             \/ /\ upd[c] = "add" /\ Value # NoItem
                /\ Ending(c, Reply("exists"))
             \/ /\ upd[c] \in {"gets", "cas"} /\ Value = NoItem
                /\ Ending(c, Reply("not_found"))
             \/ \E code \in {"server_error", "exception"} : Ending(c, Reply(code))

RunDoes(c) == Stays(c) \/ NoAnswer(c) \/ Misses(c) \/ GivesUp(c) \/ IsTold(c)

-----------------------------------------------------------------------------
(* What the server makes of the commands of an update.                     *)

(* There is one server.                                                    *)
LEMMA OneServer ==
    ASSUME Len(Nodes) = 1
    PROVE  Servers = {TheServer} /\ TheServer \in Servers
  BY DEF Servers, TheServer

(* A new cas identifier is not one that is remembered: by the server, by a *)
(* client that has read the item or is to compare it, or in a late         *)
(* command.                                                                *)
LEMMA FreshIs ==
    ASSUME UpdateInv, Len(Nodes) = 1, NEW k \in Fresh(TheServer)
    PROVE  /\ k \in Tokens
           /\ Value # NoItem => Value.cas # k
           /\ \A d \in Clients :
                 /\ upd[d] = "gets" /\ Back(d) /\ result[d].code = "ok"
                       => result[d].item.cas # k
                 /\ pc[d] # "idle" /\ upd[d] = "cas" => cmd[d].cas # k
           /\ late[TheServer] # None /\ late[TheServer].kind = "cas"
                 => late[TheServer].cas # k
<1>1. k \in Tokens /\ k \notin Remembered(TheServer)
  BY DEF Fresh
<1>2. TheServer \in Servers
  BY OneServer
<1>3. Value # NoItem => Value.cas \in Remembered(TheServer)
  BY DEF Remembered, Value
<1>4. ASSUME NEW d \in Clients, upd[d] = "gets", Back(d), result[d].code = "ok"
      PROVE  result[d].item.cas \in Remembered(TheServer)
  <2>1. source[d] = TheServer /\ result[d].item \in Items /\ result[d] # None
    BY <1>4 DEF UpdateInv, BackOK, Back
  <2> QED BY <2>1, ItemAssumption DEF Remembered
<1>5. ASSUME NEW d \in Clients, pc[d] # "idle", upd[d] = "cas"
      PROVE  cmd[d].cas \in Remembered(TheServer)
  <2>1. source[d] = TheServer /\ cmd[d].kind = "cas"
    BY <1>5 DEF UpdateInv, ShapeOK
  <2>2. cmd[d] # None
    BY <1>5, TargetIs, NoneAssumption DEF UpdateInv, Given
  <2> QED BY <2>1, <2>2 DEF Remembered
<1>6. ASSUME late[TheServer] # None, late[TheServer].kind = "cas"
      PROVE  late[TheServer].cas \in Remembered(TheServer)
  BY <1>2, <1>6 DEF Remembered
<1> QED BY <1>1, <1>3, <1>4, <1>5, <1>6

(* What the server makes of the commands of an update.                     *)
LEMMA ServesGets ==
    ASSUME NEW c, NEW i, NEW k, c = [kind |-> "gets"], NEW answer \in Answers(c, i, k)
    PROVE  \/ i # NoItem /\ answer = <<[code |-> "ok", item |-> i], i>>
           \/ i = NoItem /\ answer = <<Reply("not_found"), i>>
           \/ answer = <<Reply("server_error"), i>>
<1>1. c.kind = "gets" /\ "gets" \in Get
  BY DEF Get
<1> QED BY <1>1 DEF Answers, Serve

(* To cas.                                                                 *)
LEMMA ServesCas ==
    ASSUME NEW c, NEW i, NEW k, c.kind = "cas", NEW answer \in Answers(c, i, k)
    PROVE  \/ i # NoItem /\ i.cas = c.cas /\ answer = <<Reply("stored"), Stored(c, k)>>
           \/ i # NoItem /\ i.cas # c.cas /\ answer = <<Reply("exists"), i>>
           \/ i = NoItem /\ answer = <<Reply("not_found"), i>>
           \/ answer = <<Reply("server_error"), i>>
  BY DEF Answers, Serve, Get

(* To add.                                                                 *)
LEMMA ServesAdd ==
    ASSUME NEW c, NEW i, NEW k, c.kind = "add", NEW answer \in Answers(c, i, k)
    PROVE  \/ i = NoItem /\ answer = <<Reply("stored"), Stored(c, k)>>
           \/ i # NoItem /\ answer = <<Reply("exists"), i>>
           \/ answer = <<Reply("server_error"), i>>
  BY DEF Answers, Serve, Get

(* The server stores what an update gives it only if it is what the        *)
(* callback makes of the present value.                                    *)
LEMMA PutIs ==
    ASSUME UpdateInv, Len(Nodes) = 1, NEW c \in Clients, pc[c] # "idle",
           \/ upd[c] = "cas" /\ Value # NoItem /\ Value.cas = cmd[c].cas
           \/ upd[c] = "add" /\ Value = NoItem,
           NEW k \in Fresh(TheServer), UNCHANGED late,
           item' = [item EXCEPT ![TheServer] = Stored(cmd[c], k)]
    PROVE  Puts(c)
<1>1. item \in [Servers -> Items \cup {NoItem}] /\ TheServer \in Servers
  BY OneServer DEF UpdateInv, IInv, ServersOK
<1>2. cmd[c].data = new[c]
  BY DEF UpdateInv, ShapeOK
<1>3. Value' = [data |-> new[c], cas |-> k]
  BY <1>1, <1>2 DEF Value, Stored
<1>4. new[c] = Callback(Now)
  BY <1>2 DEF UpdateInv, ShapeOK, MatchOK, Now
<1> QED BY <1>3, <1>4 DEF Puts

(* What send() that failed has done: nothing, the same as one that         *)
(* succeeds, or left a late command.                                       *)
LEMMA UndeliveredIs ==
    ASSUME UpdateInv, Len(Nodes) = 1, NEW c \in Clients, pc[c] # "idle", upd[c] # "none",
           NEW k \in Fresh(TheServer), Undelivered(c, TheServer, k)
    PROVE  Kept \/ Puts(c) \/ Postpones(c)
<1>1. item \in [Servers -> Items \cup {NoItem}] /\ TheServer \in Servers
  BY OneServer DEF UpdateInv, IInv, ServersOK
<1>2. /\ upd[c] = "gets" => cmd[c] = [kind |-> "gets"]
      /\ upd[c] \in {"cas", "add"} => cmd[c].kind = upd[c]
      /\ upd[c] \in {"gets", "cas", "add"}
  BY DEF UpdateInv, ShapeOK
<1>3. CASE /\ item' = [item EXCEPT ![TheServer] = Serve(cmd[c], @, k)[2]]
           /\ UNCHANGED late
  <2> DEFINE answer == Serve(cmd[c], Value, k)
  <2>1. answer \in Answers(cmd[c], Value, k) /\ item' = [item EXCEPT ![TheServer] = answer[2]]
    BY <1>3 DEF Answers, Value
  <2> HIDE DEF answer
  <2>2. CASE answer[2] = Value
    <3>1. item' = item
      BY <1>1, <2>1, <2>2 DEF Value
    <3> QED BY <1>3, <3>1 DEF Kept, servers
  <2>3. CASE upd[c] = "gets"
    <3>1. answer[2] = Value
      BY <1>2, <2>1, <2>3, ServesGets
    <3> QED BY <2>2, <3>1
  <2>4. CASE upd[c] = "cas" /\ answer[2] # Value
    <3>1. Value # NoItem /\ Value.cas = cmd[c].cas /\ answer[2] = Stored(cmd[c], k)
      BY <1>2, <2>1, <2>4, ServesCas
    <3> QED BY <1>3, <2>1, <2>4, <3>1, PutIs
  <2>5. CASE upd[c] = "add" /\ answer[2] # Value
    <3>1. Value = NoItem /\ answer[2] = Stored(cmd[c], k)
      BY <1>2, <2>1, <2>5, ServesAdd
    <3> QED BY <1>3, <2>1, <2>5, <3>1, PutIs
  <2> QED BY <1>2, <2>2, <2>3, <2>4, <2>5
<1>4. CASE /\ late[TheServer] = None
           /\ Cardinality({r \in Servers : late[r] # None}) < MaxLate
           /\ cmd[c].kind \notin Get
           /\ late' = [late EXCEPT ![TheServer] = cmd[c]]
           /\ UNCHANGED item
  <2>1. upd[c] # "gets"
    BY <1>2, <1>4 DEF Get
  <2>2. {r \in Servers : late[r] # None} = {}
    BY <1>4, OneServer
  <2>3. Cardinality({r \in Servers : late[r] # None}) = 0
    BY <2>2, FS_EmptySet
  <2>4. MaxLate >= 1
    BY <1>4, <2>3, LimitAssumption
  <2>5. late'[TheServer] = cmd[c]
    BY <1>1, <1>4 DEF UpdateInv, IInv, ServersOK
  <2> QED BY <1>2, <1>4, <2>1, <2>4, <2>5 DEF Postpones
<1>5. CASE UNCHANGED servers
  BY <1>5 DEF Kept
<1> QED BY <1>3, <1>4, <1>5 DEF Undelivered

-----------------------------------------------------------------------------
(* What a step of run() does.                                              *)

(* The steps of AtomicUpdate are steps of ClientRun.                       *)
LEMMA FreshSteps ==
    /\ \A s : Fresh(s) \subseteq Tokens
    /\ \A c : RunStep(c, Fresh) => RunStep(c, AnyToken)
    /\ \A s : ServerStep(s, Fresh) => ServerStep(s, AnyToken)
<1>1. \A s : Fresh(s) \subseteq Tokens
  BY DEF Fresh
<1> QED BY <1>1 DEF RunStep, ServerStep, AnyToken

(* A client inside run() is in an update.                                  *)
LEMMA RunsUpdate ==
    ASSUME UpdateInv, NEW c \in Clients, pc[c] # "idle"
    PROVE  /\ upd[c] \in {"gets", "cas", "add"} /\ pc[c] \in {"loop", "send"}
           /\ upd[c] = "gets" => cmd[c] = [kind |-> "gets"]
           /\ upd[c] \in {"cas", "add"} => cmd[c].kind = upd[c] /\ outOfServers[c]
           /\ ClientOK(c) /\ Running(c)
           /\ ShapeOK(c) /\ VisitOK(c) /\ AppliedOK(c)
<1>1. ClientOK(c) /\ ShapeOK(c) /\ VisitOK(c) /\ AppliedOK(c)
  BY DEF UpdateInv, IInv
<1> QED BY <1>1 DEF ShapeOK, ClientOK, Looping, Sending

(* The server of a visit, and that there was none before.                  *)
LEMMA FirstVisit ==
    ASSUME UpdateInv, Len(Nodes) = 1, NEW c \in Clients,
           pc[c] = "send" \/ (InLoop(c) /\ Target(c) # prev[c])
    PROVE  Target(c) = TheServer /\ log[c] = <<>> /\ (pc[c] = "loop" => prev[c] = None)
<1>1. Target(c) \in Servers /\ Running(c)
  BY TargetIs DEF UpdateInv
<1>2. Target(c) = TheServer
  BY <1>1, OneServer
<1>3. CASE pc[c] = "send"
  BY <1>2, <1>3 DEF UpdateInv, VisitOK
<1>4. CASE InLoop(c) /\ Target(c) # prev[c]
  <2>1. pc[c] = "loop" /\ ClientOK(c)
    BY <1>4 DEF InLoop, UpdateInv, IInv
  <2>2. prev[c] # None => prev[c] \in Visited(c)
    BY <2>1 DEF ClientOK, Looping
  <2>3. Visited(c) \subseteq Servers
    BY <1>1, RingFacts DEF Running
  <2>4. prev[c] = None
    BY <1>2, <1>4, <2>2, <2>3, OneServer
  <2> QED BY <1>2, <2>1, <2>4 DEF UpdateInv, VisitOK
<1> QED BY <1>3, <1>4

(* run() continues after the one visit.                                    *)
LEMMA GoingOn ==
    ASSUME UpdateInv, Len(Nodes) = 1, NEW c \in Clients, NEW o \in Outcomes,
           pc[c] \in {"loop", "send"}, log[c] = <<>>, Log(c, TheServer, o), Continue(c),
           UNCHANGED <<cmd, result>>,
           \/ pc[c] = "send" /\ UNCHANGED prev
           \/ prev' = [prev EXCEPT ![c] = TheServer]
    PROVE  GoesOn(c, o)
<1>1. /\ pc'[c] = "loop" /\ UNCHANGED <<cmd[c], result[c]>>
      /\ log'[c] = Append(log[c], <<TheServer, o>>)
  BY DEF UpdateInv, IInv, Framed, ByClient, Log, Continue
<1>2. log'[c] = <<<<TheServer, o>>>>
  BY <1>1
<1>3. prev'[c] = TheServer
  <2>1. CASE pc[c] = "send" /\ UNCHANGED prev
    <3>1. Target(c) = TheServer /\ ClientOK(c)
      BY <2>1, FirstVisit DEF UpdateInv, IInv
    <3>2. prev[c] = Deref(ring, it[c]) /\ Target(c) = Deref(ring, it[c])
      BY <2>1, <3>1, TargetIs DEF ClientOK, Sending, UpdateInv
    <3> QED BY <2>1, <3>1, <3>2
  <2> QED BY <2>1 DEF UpdateInv, IInv, Framed, ByClient
<1>4. TheServer # None
  BY OneServer, NoneAssumption
<1> QED BY <1>1, <1>2, <1>3, <1>4 DEF GoesOn

(* run() ends.                                                             *)
LEMMA EndingIs ==
    ASSUME IInv, NEW c \in Clients, NEW response, Finish(c, response)
    PROVE  Ending(c, response)
  BY DEF IInv, Framed, ByClient, Finish, Ending

(* What an answer of the server does.                                      *)
LEMMA AnswerDoes ==
    ASSUME UpdateInv, Len(Nodes) = 1, NEW c \in Clients, NEW k \in Fresh(TheServer),
           Respond(c, k)
    PROVE  Misses(c) \/ IsTold(c)
<1>1. /\ pc[c] = "send" /\ Target(c) = TheServer /\ log[c] = <<>>
      /\ item \in [Servers -> Items \cup {NoItem}] /\ TheServer \in Servers /\ IInv
  BY OneServer, FirstVisit DEF Respond, UpdateInv, IInv, ServersOK
<1>2. PICK answer \in Answers(cmd[c], Value, k) :
         /\ Deliver(c, TheServer, answer)
         /\ IF TryNeighbour(c, TheServer, answer[1])
            THEN /\ outOfServers' = [outOfServers EXCEPT ![c] = FALSE]
                 /\ Continue(c)
                 /\ Log(c, TheServer, answer[1].code)
                 /\ UNCHANGED <<cmd, prev, result>>
            ELSE Finish(c, answer[1])
  BY <1>1 DEF Respond, Value
<1>3. item' = [item EXCEPT ![TheServer] = answer[2]] /\ UNCHANGED late
  BY <1>2 DEF Deliver
<1>4. answer[2] = Value => Kept
  BY <1>1, <1>3 DEF Value, Kept, servers
<1>5. /\ upd[c] \in {"gets", "cas", "add"}
      /\ upd[c] = "gets" => cmd[c] = [kind |-> "gets"]
      /\ upd[c] \in {"cas", "add"} => cmd[c].kind = upd[c]
  BY <1>1, RunsUpdate
<1>6. \A r : Reply(r).code = r
  BY DEF Reply
<1>7. CASE TryNeighbour(c, TheServer, answer[1])
  <2>1. /\ answer[1].code = "not_found" /\ upd[c] = "gets"
    BY <1>5, <1>7 DEF TryNeighbour, Get
  <2>2. Value = NoItem /\ answer[2] = Value
    BY <1>5, <1>6, <2>1, ServesGets
  <2>3. GoesOn(c, "not_found")
    BY <1>1, <1>2, <1>7, <2>1, GoingOn DEF Outcomes
  <2>4. ~outOfServers'[c]
    BY <1>1, <1>2, <1>7 DEF IInv, Framed, ByClient
  <2> QED BY <1>4, <2>1, <2>2, <2>3, <2>4 DEF Misses
<1>8. CASE ~TryNeighbour(c, TheServer, answer[1])
  <2>1. Ending(c, answer[1])
    BY <1>1, <1>2, <1>8, EndingIs
  <2>2. CASE answer = <<Reply("server_error"), Value>>
    BY <1>1, <1>4, <2>1, <2>2 DEF IsTold
  <2>3. CASE upd[c] = "gets"
    <3>1. \/ Value # NoItem /\ answer = <<[code |-> "ok", item |-> Value], Value>>
          \/ Value = NoItem /\ answer = <<Reply("not_found"), Value>>
          \/ answer = <<Reply("server_error"), Value>>
      BY <1>5, <2>3, ServesGets
    <3> QED BY <1>1, <1>4, <2>1, <2>2, <2>3, <3>1 DEF IsTold
  <2>4. CASE upd[c] = "cas"
    <3>1. \/ /\ Value # NoItem /\ Value.cas = cmd[c].cas
             /\ answer = <<Reply("stored"), Stored(cmd[c], k)>>
          \/ Value # NoItem /\ Value.cas # cmd[c].cas /\ answer = <<Reply("exists"), Value>>
          \/ Value = NoItem /\ answer = <<Reply("not_found"), Value>>
          \/ answer = <<Reply("server_error"), Value>>
      BY <1>5, <2>4, ServesCas
    <3>2. ASSUME Value # NoItem, Value.cas = cmd[c].cas,
                 answer = <<Reply("stored"), Stored(cmd[c], k)>>
          PROVE  IsTold(c)
      <4>1. Puts(c)
        BY <1>1, <1>3, <2>4, <3>2, PutIs
      <4> QED BY <1>1, <2>1, <3>2, <4>1 DEF IsTold
    <3> QED BY <1>1, <1>4, <2>1, <2>2, <2>4, <3>1, <3>2 DEF IsTold
  <2>5. CASE upd[c] = "add"
    <3>1. \/ Value = NoItem /\ answer = <<Reply("stored"), Stored(cmd[c], k)>>
          \/ Value # NoItem /\ answer = <<Reply("exists"), Value>>
          \/ answer = <<Reply("server_error"), Value>>
      BY <1>5, <2>5, ServesAdd
    <3>2. ASSUME Value = NoItem, answer = <<Reply("stored"), Stored(cmd[c], k)>>
          PROVE  IsTold(c)
      <4>1. Puts(c)
        BY <1>1, <1>3, <2>5, <3>2, PutIs
      <4> QED BY <1>1, <2>1, <3>2, <4>1 DEF IsTold
    <3> QED BY <1>1, <1>4, <2>1, <2>2, <2>5, <3>1, <3>2 DEF IsTold
  <2> QED BY <1>5, <2>3, <2>4, <2>5
<1> QED BY <1>7, <1>8

(* Every step of run() is one of the five.                                 *)
LEMMA RunDigest ==
    ASSUME UpdateInv, Len(Nodes) = 1, NEW c \in Clients, RunStep(c, Fresh)
    PROVE  RunDoes(c) /\ pc[c] # "idle"
<1>1. IInv
  BY DEF UpdateInv
<1>2. CASE Exhausted(c)
  <2>1. pc[c] = "loop" /\ Kept
    BY <1>2 DEF Exhausted, Kept
  <2>2. Ending(c, Reply(IF outOfServers[c] THEN "out_of_servers" ELSE "not_found"))
    BY <1>1, <1>2, EndingIs DEF Exhausted
  <2> QED BY <2>1, <2>2 DEF GivesUp, RunDoes
<1>3. CASE SkipPrevious(c)
  <2>1. /\ pc[c] = "loop" /\ Kept
        /\ UNCHANGED <<pc[c], cmd[c], outOfServers[c], result[c], log[c], prev[c]>>
    BY <1>3 DEF SkipPrevious, InLoop, Kept
  <2> QED BY <2>1 DEF Stays, RunDoes
<1>4. CASE Visit(c)
  <2>1. /\ pc[c] = "loop" /\ Target(c) = TheServer /\ log[c] = <<>> /\ Kept
        /\ prev' = [prev EXCEPT ![c] = TheServer]
        /\ UNCHANGED <<cmd, outOfServers, result>>
    BY <1>4, FirstVisit DEF Visit, InLoop, Kept
  <2>2. CASE pc' = [pc EXCEPT ![c] = "send"] /\ UNCHANGED log
    <3>1. pc'[c] = "send"
      BY <1>1, <2>2 DEF IInv, Framed, ByClient
    <3> QED BY <2>1, <2>2, <3>1 DEF Stays, RunDoes
  <2>3. CASE Continue(c) /\ Log(c, TheServer, "no_answer")
    <3>1. GoesOn(c, "no_answer")
      BY <2>1, <2>3, GoingOn DEF Outcomes
    <3> QED BY <2>1, <3>1 DEF NoAnswer, RunDoes
  <2> QED BY <1>4, <2>1, <2>2, <2>3 DEF Visit
<1>5. CASE pc[c] = "send" /\ Escape(c)
  <2>1. Ending(c, Reply("exception")) /\ Kept
    BY <1>1, <1>5, EndingIs DEF Escape, Kept
  <2> QED BY <1>5, <2>1 DEF IsTold, RunDoes
<1>6. CASE pc[c] = "send" /\ \E k \in Fresh(Target(c)) : Respond(c, k) \/ Fail(c, k)
  <2>1. PICK k \in Fresh(TheServer) : Respond(c, k) \/ Fail(c, k)
    BY <1>6, FirstVisit
  <2>2. CASE Respond(c, k)
    BY <1>6, <2>2, AnswerDoes DEF RunDoes
  <2>3. CASE Fail(c, k)
    <3>1. /\ Target(c) = TheServer /\ log[c] = <<>>
          /\ Lose(c, TheServer, k) /\ Log(c, TheServer, "no_answer") /\ Continue(c)
          /\ UNCHANGED <<cmd, prev, outOfServers, result>>
      BY <1>6, <2>3, FirstVisit DEF Fail
    <3>2. GoesOn(c, "no_answer")
      BY <1>6, <3>1, GoingOn DEF Outcomes
    <3>3. Kept \/ Puts(c) \/ Postpones(c)
      BY <1>6, <3>1, RunsUpdate, UndeliveredIs DEF Lose
    <3> QED BY <1>6, <3>1, <3>2, <3>3 DEF NoAnswer, RunDoes
  <2> QED BY <1>6, <2>1, <2>2, <2>3
<1> QED BY <1>2, <1>3, <1>4, <1>5, <1>6 DEF RunStep, Exhausted, SkipPrevious, Visit, InLoop

-----------------------------------------------------------------------------
(* What a client knows of the item.                                        *)

Knows(c) == ShapeOK(c) /\ VisitOK(c) /\ BackOK(c) /\ AppliedOK(c) /\ MatchOK(c)

(* The item is as it was, or gone, or has an identifier nobody remembers.  *)
Renewed ==
    \/ Value' = Value
    \/ Value' = NoItem
    \/ \E k \in Fresh(TheServer) : Value'.cas = k

(* The type of the present value.                                          *)
LEMMA ValueIs ==
    ASSUME UpdateInv, Len(Nodes) = 1
    PROVE  /\ Value \in Items \cup {NoItem}
           /\ Value # NoItem => Value.data \in Data /\ Value.cas \in Tokens
           /\ Now \in Data \cup {NoItem}
<1>1. Value \in Items \cup {NoItem}
  BY OneServer DEF UpdateInv, IInv, ServersOK, Value
<1>2. Value # NoItem => Value.data \in Data /\ Value.cas \in Tokens
  BY <1>1 DEF Items
<1> QED BY <1>1, <1>2 DEF Now

(* An update that is stored changes the item, to what the callback makes   *)
(* of the present value.                                                   *)
LEMMA PutChanges ==
    ASSUME UpdateInv, Len(Nodes) = 1, NEW c \in Clients, Puts(c)
    PROVE  /\ Value' \in Items /\ Value' # NoItem /\ Value' # Value
           /\ Value'.data = new[c] /\ new[c] = Callback(Now) /\ new[c] \in Data
           /\ Value'.cas \in Fresh(TheServer)
           /\ item' # item
           /\ Renewed
<1>1. PICK k \in Fresh(TheServer) : Value' = [data |-> new[c], cas |-> k]
  BY DEF Puts
<1>2. new[c] = Callback(Now) /\ new[c] \in Data
  BY ValueIs, CallbackAssumption DEF Puts
<1>3. k \in Tokens /\ (Value # NoItem => Value.cas # k)
  BY FreshIs
<1>4. Value' \in Items /\ Value'.data = new[c] /\ Value'.cas = k
  BY <1>1, <1>2, <1>3 DEF Items
<1>5. Value' # NoItem
  BY <1>4, ItemAssumption
<1>6. Value' # Value
  BY <1>3, <1>4, <1>5
<1>7. item' # item
  BY <1>6 DEF Value
<1> QED BY <1>1, <1>2, <1>4, <1>5, <1>6, <1>7 DEF Renewed

(* A client that a step leaves alone.                                      *)
LEMMA Bystander ==
    ASSUME UpdateInv, Len(Nodes) = 1, NEW d \in Clients, Renewed,
           UNCHANGED <<pc[d], cmd[d], prev[d], outOfServers[d], result[d], log[d],
                       upd[d], iters[d], new[d], source[d], applied[d]>>,
           changes'[d] \in 0 .. Iters
    PROVE  Knows(d)'
<1>1. ShapeOK(d) /\ VisitOK(d) /\ BackOK(d) /\ AppliedOK(d) /\ MatchOK(d)
  BY DEF UpdateInv
<1>2. ShapeOK(d)'
  BY <1>1 DEF ShapeOK
<1>3. VisitOK(d)'
  BY <1>1 DEF VisitOK
<1>4. BackOK(d)' /\ AppliedOK(d)'
  BY <1>1 DEF BackOK, AppliedOK, Back
<1>5. MatchOK(d)'
  <2>1. CASE Value' = Value \/ Value' = NoItem
    BY <1>1, <2>1 DEF MatchOK, Back
  <2>2. ASSUME NEW k \in Fresh(TheServer), Value'.cas = k PROVE MatchOK(d)'
    <3>1. /\ upd[d] = "gets" /\ Back(d) /\ result[d].code = "ok" => result[d].item.cas # k
          /\ pc[d] # "idle" /\ upd[d] = "cas" => cmd[d].cas # k
      BY FreshIs
    <3> QED BY <2>2, <3>1 DEF MatchOK, Back
  <2> QED BY <2>1, <2>2 DEF Renewed
<1> QED BY <1>2, <1>3, <1>4, <1>5 DEF Knows

(* A late command stays one that fits the item or is refused.              *)
LEMMA LateKept ==
    ASSUME UpdateInv, Len(Nodes) = 1, Renewed,
           late'[TheServer] = late[TheServer] \/ late'[TheServer] = None
    PROVE  LateOK'
<1>1. LateOK
  BY DEF UpdateInv
<1>2. CASE late'[TheServer] = None
  BY <1>2 DEF LateOK
<1>3. CASE late'[TheServer] = late[TheServer]
  <2>1. CASE Value' = Value \/ Value' = NoItem
    BY <1>1, <1>3, <2>1 DEF LateOK
  <2>2. ASSUME NEW k \in Fresh(TheServer), Value'.cas = k PROVE LateOK'
    <3>1. late[TheServer] # None /\ late[TheServer].kind = "cas" => late[TheServer].cas # k
      BY FreshIs
    <3> QED BY <1>1, <1>3, <2>2, <3>1 DEF LateOK
  <2> QED BY <2>1, <2>2 DEF Renewed
<1> QED BY <1>2, <1>3

(* A step that keeps the servers keeps the item.                           *)
LEMMA KeptRenews == Kept => Renewed /\ Value' = Value /\ item' = item /\ late' = late
  BY DEF Kept, servers, Renewed, Value

(* A command of an update that becomes late.                               *)
LEMMA LatePostponed ==
    ASSUME UpdateInv, NEW c \in Clients, pc[c] # "idle", Postpones(c)
    PROVE  LateOK' /\ Renewed /\ Value' = Value /\ item' = item
<1>1. Value' = Value /\ Renewed
  BY DEF Postpones, Value, Renewed
<1>2. ShapeOK(c) /\ MatchOK(c)
  BY DEF UpdateInv
<1>3. LateOK'
  BY <1>1, <1>2 DEF Postpones, LateOK, ShapeOK, MatchOK
<1> QED BY <1>1, <1>3 DEF Postpones

(* The frame of a step of run().                                           *)
RunFrame(c) ==
    /\ UNCHANGED <<upd[c], iters[c], new[c], outcome[c]>>
    /\ source'[c] = IF pc[c] = "send" /\ upd[c] = "gets" THEN TheServer ELSE source[c]
    /\ applied'[c] \in BOOLEAN
    /\ applied'[c] <=> applied[c] \/ item' # item
    /\ changes'[c] \in 0 .. Iters

(* The client that makes a step of run() keeps its part of the invariant.  *)
LEMMA RunnerKnows ==
    ASSUME UpdateInv, Len(Nodes) = 1, NEW c \in Clients, RunDoes(c), RunFrame(c),
           pc[c] # "idle"
    PROVE  Knows(c)' /\ LateOK' /\ Renewed
<1> USE DEF RunFrame
<1>1. /\ ShapeOK(c) /\ VisitOK(c) /\ BackOK(c) /\ AppliedOK(c) /\ MatchOK(c) /\ LateOK
      /\ upd[c] \in {"gets", "cas", "add"} /\ pc[c] \in {"loop", "send"}
  BY RunsUpdate DEF UpdateInv
<1>2. \A r : Reply(r).code = r
  BY DEF Reply
<1>3. CASE Stays(c)
  <2>1. Renewed /\ Value' = Value /\ item' = item /\ late' = late
    BY <1>3, KeptRenews DEF Stays
  <2>2. ShapeOK(c)' /\ VisitOK(c)'
    BY <1>1, <1>3, <2>1 DEF Stays, ShapeOK, VisitOK
  <2>3. BackOK(c)' /\ AppliedOK(c)'
    BY <1>1, <1>3, <2>1 DEF Stays, BackOK, AppliedOK, Back
  <2>4. MatchOK(c)'
    BY <1>1, <1>3, <2>1 DEF Stays, MatchOK, Back
  <2>5. LateOK'
    BY <2>1, LateKept
  <2> QED BY <2>1, <2>2, <2>3, <2>4, <2>5 DEF Knows
<1>4. ASSUME NEW o \in Outcomes, GoesOn(c, o), Renewed, LateOK',
             upd[c] \in {"cas", "add"} => UNCHANGED outOfServers[c],
             Value' = Value \/ Puts(c), item' # item => upd[c] \in {"cas", "add"}
      PROVE  Knows(c)' /\ LateOK' /\ Renewed
  <2>1. ShapeOK(c)' /\ VisitOK(c)'
    BY <1>1, <1>4 DEF GoesOn, ShapeOK, VisitOK
  <2>2. BackOK(c)' /\ AppliedOK(c)'
    BY <1>1, <1>4 DEF GoesOn, BackOK, AppliedOK, Back
  <2>3. MatchOK(c)'
    <3>1. CASE Value' = Value
      BY <1>1, <1>4, <3>1 DEF GoesOn, MatchOK, Back
    <3>2. CASE Puts(c)
      <4>1. Value'.cas \in Fresh(TheServer)
        BY <3>2, PutChanges
      <4>2. upd[c] = "cas" => cmd[c].cas # Value'.cas
        BY <1>1, <4>1, FreshIs
      <4> QED BY <1>1, <1>4, <4>2 DEF GoesOn, MatchOK, Back
    <3> QED BY <1>4, <3>1, <3>2
  <2> QED BY <1>4, <2>1, <2>2, <2>3 DEF Knows
<1>5. CASE NoAnswer(c)
  <2>1. "no_answer" \in Outcomes
    BY DEF Outcomes
  <2>2. CASE Kept
    BY <1>4, <1>5, <2>1, <2>2, KeptRenews, LateKept DEF NoAnswer
  <2>3. CASE Puts(c)
    <3>1. Renewed
      BY <2>3, PutChanges
    <3>2. LateOK'
      BY <2>3, <3>1, LateKept DEF Puts
    <3> QED BY <1>4, <1>5, <2>1, <2>3, <3>1, <3>2 DEF NoAnswer, Puts
  <2>4. CASE Postpones(c)
    BY <1>4, <1>5, <2>1, <2>4, LatePostponed DEF NoAnswer
  <2> QED BY <1>5, <2>2, <2>3, <2>4 DEF NoAnswer
<1>6. CASE Misses(c)
  <2>1. "not_found" \in Outcomes
    BY DEF Outcomes
  <2> QED BY <1>4, <1>6, <2>1, KeptRenews, LateKept DEF Misses
<1>7. ASSUME NEW response, Ending(c, response), Renewed, LateOK',
             /\ upd[c] = "gets" /\ response.code = "ok" =>
                   /\ pc[c] = "send" /\ response.item \in Items
                   /\ response.item = Value /\ Value' = Value
             /\ upd[c] \in {"cas", "add"} =>
                   response.code # "ok" /\ (response.code = "stored" => applied'[c])
             /\ applied'[c] => /\ upd[c] \in {"cas", "add"}
                               /\ response.code \in {"stored", "out_of_servers"}
      PROVE  Knows(c)' /\ LateOK' /\ Renewed
  <2>1. ShapeOK(c)' /\ VisitOK(c)'
    BY <1>1, <1>7 DEF Ending, ShapeOK, VisitOK
  <2>2. BackOK(c)'
    BY <1>1, <1>7 DEF Ending, BackOK, Back
  <2>3. AppliedOK(c)'
    BY <1>7 DEF Ending, AppliedOK, Back
  <2>4. MatchOK(c)'
    BY <1>7 DEF Ending, MatchOK, Back
  <2> QED BY <1>7, <2>1, <2>2, <2>3, <2>4 DEF Knows
<1>8. CASE GivesUp(c)
  <2> DEFINE response == Reply(IF outOfServers[c] THEN "out_of_servers" ELSE "not_found")
  <2>1. Renewed /\ item' = item /\ LateOK' /\ Ending(c, response)
    BY <1>8, KeptRenews, LateKept DEF GivesUp
  <2>2. /\ response.code \in {"out_of_servers", "not_found"}
        /\ outOfServers[c] => response.code = "out_of_servers"
    BY <1>2
  <2>3. upd[c] \in {"cas", "add"} => outOfServers[c]
    BY <1>1 DEF ShapeOK
  <2>4. applied'[c] => upd[c] \in {"cas", "add"}
    BY <1>1, <2>1 DEF AppliedOK
  <2> HIDE DEF response
  <2> QED BY <1>7, <2>1, <2>2, <2>3, <2>4
<1>9. CASE IsTold(c)
  <2>1. pc[c] = "send" /\ ~applied[c]
    BY <1>1, <1>9 DEF IsTold, AppliedOK, VisitOK
  <2>2. ASSUME Ending(c, Reply("stored")), Puts(c)
        PROVE  Knows(c)' /\ LateOK' /\ Renewed
    <3>1. Renewed /\ item' # item
      BY <2>2, PutChanges
    <3>2. LateOK'
      BY <2>2, <3>1, LateKept DEF Puts
    <3> QED BY <1>2, <1>7, <2>2, <3>1, <3>2 DEF Puts
  <2>3. ASSUME Kept, upd[c] = "gets", Value # NoItem,
               Ending(c, [code |-> "ok", item |-> Value])
        PROVE  Knows(c)' /\ LateOK' /\ Renewed
    <3>1. Renewed /\ item' = item /\ LateOK' /\ Value' = Value /\ Value \in Items
      BY <2>3, KeptRenews, LateKept, ValueIs
    <3> QED BY <1>7, <2>1, <2>3, <3>1
  <2>4. ASSUME Kept, NEW code \in {"exists", "not_found", "server_error", "exception"},
               Ending(c, Reply(code))
        PROVE  Knows(c)' /\ LateOK' /\ Renewed
    <3>1. Renewed /\ item' = item /\ LateOK'
      BY <2>4, KeptRenews, LateKept
    <3>2. Reply(code).code = code
      BY <1>2
    <3> QED BY <1>7, <2>1, <2>4, <3>1, <3>2
  <2> QED BY <1>9, <2>2, <2>3, <2>4 DEF IsTold
<1> QED BY <1>3, <1>5, <1>6, <1>8, <1>9 DEF RunDoes

-----------------------------------------------------------------------------
(* The servers, and a command begun.                                       *)

(* What the server does by itself.                                         *)
Forgets == Value' = NoItem /\ UNCHANGED late
LateDone == late[TheServer] # None /\ late'[TheServer] = None /\ UNCHANGED item
LatePut ==
    /\ late[TheServer] # None /\ late'[TheServer] = None
    /\ Value' \in Items /\ Value'.data = Callback(Now)
    /\ Value'.cas \in Fresh(TheServer)

(* Every step of the server is one of the three: a late command has an     *)
(* effect only if that is what the callback makes of the present value.    *)
LEMMA ServerDigest ==
    ASSUME UpdateInv, Len(Nodes) = 1, NEW s \in Servers, ServerStep(s, Fresh)
    PROVE  Forgets \/ LateDone \/ LatePut
<1>1. /\ s = TheServer
      /\ item \in [Servers -> Items \cup {NoItem}] /\ late[s] = late[TheServer]
      /\ late \in [Servers -> Commands \cup {[kind |-> "flush_all"], None}]
  BY OneServer DEF UpdateInv, IInv, ServersOK
<1>2. CASE Evict(s)
  BY <1>1, <1>2 DEF Evict, Forgets, Value
<1>3. CASE LateLost(s)
  BY <1>1, <1>3 DEF LateLost, LateDone
<1>4. ASSUME NEW k \in Fresh(s), LateEffect(s, k) PROVE LateDone \/ LatePut
  <2> DEFINE l == late[TheServer]
             answer == Serve(l, Value, k)
  <2>1. /\ l # None /\ late'[TheServer] = None
        /\ item' = [item EXCEPT ![TheServer] = answer[2]]
        /\ answer \in Answers(l, Value, k)
    BY <1>1, <1>4 DEF LateEffect, Value, Answers
  <2>2. \/ l.kind = "add" /\ l.data = Callback(NoItem)
        \/ /\ l.kind = "cas"
           /\ (Value # NoItem /\ l.cas = Value.cas => l.data = Callback(Value.data))
    BY <2>1 DEF UpdateInv, LateOK
  <2>3. k \in Fresh(TheServer) /\ k \in Tokens
    BY <1>1, FreshIs
  <2> HIDE DEF answer, l
  <2>4. CASE answer[2] = Value
    <3>1. item' = item
      BY <1>1, <2>1, <2>4 DEF Value
    <3> QED BY <2>1, <3>1 DEF LateDone, l
  <2>5. ASSUME answer[2] = Stored(l, k), l.data = Callback(Now) PROVE LatePut
    <3>1. Value' = [data |-> Callback(Now), cas |-> k]
      BY <1>1, <2>1, <2>5 DEF Value, Stored
    <3>2. Callback(Now) \in Data
      BY ValueIs, CallbackAssumption
    <3>3. Value' \in Items /\ Value'.data = Callback(Now) /\ Value'.cas = k
      BY <2>3, <3>1, <3>2 DEF Items
    <3> QED BY <2>1, <2>3, <3>3 DEF LatePut, l
  <2>6. CASE l.kind = "add" /\ l.data = Callback(NoItem) /\ answer[2] # Value
    <3>1. Value = NoItem /\ answer[2] = Stored(l, k)
      BY <2>1, <2>6, ServesAdd
    <3> QED BY <2>5, <2>6, <3>1 DEF Now
  <2>7. CASE /\ l.kind = "cas"
             /\ (Value # NoItem /\ l.cas = Value.cas => l.data = Callback(Value.data))
             /\ answer[2] # Value
    <3>1. Value # NoItem /\ Value.cas = l.cas /\ answer[2] = Stored(l, k)
      BY <2>1, <2>7, ServesCas
    <3> QED BY <2>5, <2>7, <3>1 DEF Now
  <2> QED BY <2>2, <2>4, <2>6, <2>7
<1> QED BY <1>2, <1>3, <1>4 DEF ServerStep

(* None of them brings back an item that was read.                         *)
LEMMA ServerRenews ==
    ASSUME UpdateInv, Len(Nodes) = 1, Forgets \/ LateDone \/ LatePut
    PROVE  Renewed /\ LateOK'
<1>1. Renewed
  BY DEF Forgets, LateDone, LatePut, Renewed, Value
<1>2. late'[TheServer] = late[TheServer] \/ late'[TheServer] = None
  BY DEF Forgets, LateDone, LatePut
<1> QED BY <1>1, <1>2, LateKept

(* A command of an update is begun.                                        *)
LEMMA StartIs ==
    ASSUME IInv, NEW c \in Clients, NEW command, Start(c, command)
    PROVE  /\ pc[c] = "idle" /\ pc'[c] = "loop" /\ cmd'[c] = command
           /\ prev'[c] = None /\ outOfServers'[c] = TRUE /\ result'[c] = None
           /\ log[c] = <<>> /\ log'[c] = log[c]
           /\ Kept /\ Others(c)
<1>1. pc[c] = "idle" /\ ClientOK(c)
  BY DEF Start, IInv
<1>2. log[c] = <<>>
  BY <1>1 DEF ClientOK
<1>3. Kept
  BY DEF Start, Kept
<1> QED BY <1>1, <1>2, <1>3 DEF IInv, Framed, ByClient, Start, Others

(* A client that begins a command keeps its part of the invariant.         *)
LEMMA StarterKnows ==
    ASSUME UpdateInv, Len(Nodes) = 1, NEW c \in Clients, NEW command \in UpdateCommands,
           Start(c, command), upd'[c] = command.kind,
           iters'[c] \in 1 .. Iters, changes'[c] = changes[c],
           ~applied[c], applied'[c] = applied[c],
           command.kind \in {"add", "cas"} => command.data = new'[c],
           command.kind = "add" => command.data = Callback(NoItem),
           command.kind = "cas" =>
              /\ source'[c] = TheServer
              /\ Value # NoItem /\ command.cas = Value.cas
                    => command.data = Callback(Value.data)
    PROVE  Knows(c)' /\ LateOK' /\ Renewed
<1>1. /\ pc'[c] = "loop" /\ cmd'[c] = command /\ prev'[c] = None
      /\ outOfServers'[c] = TRUE /\ result'[c] = None /\ log'[c] = <<>> /\ Kept
  BY StartIs DEF UpdateInv
<1>2. Renewed /\ Value' = Value /\ LateOK'
  BY <1>1, KeptRenews, LateKept
<1>3. \/ command = [kind |-> "gets"]
      \/ command.kind = "add"
      \/ command.kind = "cas"
  BY DEF UpdateCommands
<1>4. changes'[c] \in 0 .. Iters /\ iters'[c] \in 0 .. Iters /\ iters'[c] >= 1
  BY IterAssumption DEF UpdateInv, ShapeOK
<1>5. ShapeOK(c)'
  <2>1. applied'[c] \in BOOLEAN
    BY DEF UpdateInv, ShapeOK
  <2>2. command.kind \in {"gets", "cas", "add"}
    BY <1>3
  <2> QED BY <1>1, <1>3, <1>4, <2>1, <2>2 DEF ShapeOK
<1>6. VisitOK(c)' /\ BackOK(c)' /\ AppliedOK(c)'
  BY <1>1 DEF VisitOK, BackOK, AppliedOK, Back
<1>7. MatchOK(c)'
  BY <1>1, <1>2, <1>3 DEF MatchOK, Back
<1> QED BY <1>2, <1>5, <1>6, <1>7 DEF Knows

(* The frames of the other clients' updates.                               *)
OthersUpdates(c) ==
    \A d \in Clients \ {c} :
       UNCHANGED <<upd[d], iters[d], new[d], outcome[d], source[d], applied[d]>>

(* The invariant after a step of one client.                               *)
LEMMA OneUpdate ==
    ASSUME UpdateInv, Len(Nodes) = 1, NEW c \in Clients, IInv', UFramed',
           Knows(c)', LateOK', Renewed, Others(c), OthersUpdates(c),
           \A d \in Clients : changes'[d] \in 0 .. Iters
    PROVE  UpdateInv'
<1>1. ASSUME NEW d \in Clients \ {c} PROVE Knows(d)'
  BY Bystander DEF Others, OthersUpdates
<1> QED BY <1>1 DEF UpdateInv, Knows

(* The count of changes.                                                   *)
LEMMA ChangesAre ==
    ASSUME UpdateInv, NEW d \in Clients, CountChanges \/ UNCHANGED changes
    PROVE  /\ changes'[d] \in 0 .. Iters /\ changes'[d] >= changes[d]
           /\ CountChanges /\ upd[d] # "none" /\ item' # item
                 => changes'[d] = Least(Iters, changes[d] + 1)
<1>1. changes[d] \in 0 .. Iters /\ Iters \in Nat
  BY IterAssumption DEF UpdateInv, ShapeOK
<1>2. CASE CountChanges
  <2>1. changes'[d] = IF upd[d] # "none" /\ item' # item
                      THEN Least(Iters, changes[d] + 1) ELSE changes[d]
    BY <1>2 DEF CountChanges
  <2> QED BY <1>1, <2>1 DEF Least
<1>3. CASE ~CountChanges
  BY <1>1, <1>3
<1> QED BY <1>2, <1>3

(* A step of run() as part of an update.                                   *)
LEMMA RunIs ==
    ASSUME UpdateInv, Len(Nodes) = 1, NEW c \in Clients, Run(c)
    PROVE  /\ RunDoes(c) /\ pc[c] # "idle" /\ RunFrame(c)
           /\ RunStep(c, AnyToken) /\ Others(c) /\ OthersUpdates(c) /\ UFramed'
           /\ \A d \in Clients : changes'[d] \in 0 .. Iters
<1>1. RunStep(c, Fresh) /\ RunStep(c, AnyToken) /\ RunDoes(c) /\ pc[c] # "idle"
  BY RunDigest, FreshSteps DEF Run
<1>2. Others(c)
  BY <1>1, OthersKept DEF UpdateInv
<1>3. \A d \in Clients : changes'[d] \in 0 .. Iters
  BY ChangesAre DEF Run
<1>4. UFramed' /\ OthersUpdates(c)
  BY DEF UpdateInv, UFramed, ByClient, OthersUpdates, Run, update, CountChanges
<1>5. /\ UNCHANGED <<upd[c], iters[c], new[c], outcome[c]>>
      /\ source'[c] = IF pc[c] = "send" /\ upd[c] = "gets" THEN Target(c) ELSE source[c]
  BY DEF Run, update, UpdateInv, UFramed, ByClient
<1>6. applied'[c] = (applied[c] \/ item' # item)
  BY Zenon DEF Run, UpdateInv, UFramed, ByClient
<1>7. pc[c] = "send" => Target(c) = TheServer
  BY FirstVisit
<1>8. RunFrame(c)
  BY <1>3, <1>5, <1>6, <1>7 DEF RunFrame
<1> QED BY <1>1, <1>2, <1>3, <1>4, <1>8

-----------------------------------------------------------------------------
(* The invariant of atomic_update.                                         *)

(* Every step of run() keeps the invariant.                                *)
LEMMA RunKeeps ==
    ASSUME UpdateInv, Len(Nodes) = 1, NEW c \in Clients, Run(c)
    PROVE  UpdateInv'
<1>1. /\ RunDoes(c) /\ pc[c] # "idle" /\ RunFrame(c)
      /\ RunStep(c, AnyToken) /\ Others(c) /\ OthersUpdates(c) /\ UFramed'
      /\ \A d \in Clients : changes'[d] \in 0 .. Iters
  BY RunIs
<1>2. IInv'
  BY <1>1, StepInv DEF UpdateInv, Next, Step
<1>3. Knows(c)' /\ LateOK' /\ Renewed
  BY <1>1, RunnerKnows
<1> QED BY <1>1, <1>2, <1>3, OneUpdate

(* The commands of an update are commands of the client.                   *)
LEMMA StartUpdates ==
    ASSUME UpdateInv, NEW c \in Clients, NEW command \in UpdateCommands, Start(c, command)
    PROVE  IInv' /\ Others(c)
<1>1. command \in Commands
  BY UpdateAssumption
<1> QED BY <1>1, StartKeeps, StartIs DEF UpdateInv

(* So does the call of atomic_update,                                      *)
LEMMA CallKeeps ==
    ASSUME UpdateInv, Len(Nodes) = 1, NEW c \in Clients, Call(c)
    PROVE  UpdateInv'
<1> DEFINE command == [kind |-> "gets"]
<1>1. command \in UpdateCommands /\ Start(c, command)
  BY DEF UpdateCommands, Call, Gets
<1>2. IInv' /\ Others(c)
  BY <1>1, StartUpdates
<1>3. UFramed' /\ OthersUpdates(c)
  BY DEF UpdateInv, UFramed, ByClient, OthersUpdates, Call, history
<1>4. /\ upd[c] = "none" /\ upd'[c] = "gets" /\ iters'[c] = Iters
      /\ applied'[c] = applied[c] /\ UNCHANGED changes
  BY DEF Call, history, UpdateInv, UFramed, ByClient
<1>5. ~applied[c] /\ iters'[c] \in 1 .. Iters
  BY <1>4, IterAssumption DEF UpdateInv, ShapeOK
<1>6. \A d \in Clients : changes'[d] \in 0 .. Iters
  BY <1>4, ChangesAre
<1>7. Knows(c)' /\ LateOK' /\ Renewed
  <2>1. upd'[c] = command.kind /\ command.kind = "gets"
    BY <1>4
  <2> HIDE DEF command
  <2> QED BY <1>1, <1>4, <1>5, <2>1, StarterKnows
<1> QED BY <1>2, <1>3, <1>6, <1>7, OneUpdate

(* and cas: the item it compares with is the one the callback was given,   *)
LEMMA SwapKeeps ==
    ASSUME UpdateInv, Len(Nodes) = 1, NEW c \in Clients, Swap(c)
    PROVE  UpdateInv'
<1> DEFINE got == result[c].item
           command == [kind |-> "cas", data |-> Callback(got.data), cas |-> got.cas]
<1>1. /\ upd[c] = "gets" /\ Back(c) /\ result[c].code = "ok"
      /\ upd'[c] = "cas" /\ new'[c] = Callback(got.data) /\ Start(c, command)
      /\ UNCHANGED <<iters, changes, applied, source>>
  BY DEF Swap, history, UpdateInv, UFramed, ByClient
<1>2. /\ got \in Items /\ source[c] = TheServer
      /\ ~applied[c] /\ iters[c] \in 1 .. Iters
      /\ Value # NoItem /\ got.cas = Value.cas => got.data = Value.data
  BY <1>1, IterAssumption DEF UpdateInv, BackOK, AppliedOK, ShapeOK, MatchOK
<1>3. command \in UpdateCommands
  <2>1. got.data \in Data /\ got.cas \in Tokens /\ Callback(got.data) \in Data
    BY <1>2, CallbackAssumption DEF Items
  <2> QED BY <2>1 DEF UpdateCommands
<1>4. IInv' /\ Others(c)
  BY <1>1, <1>3, StartUpdates
<1>5. UFramed' /\ OthersUpdates(c)
  BY DEF UpdateInv, UFramed, ByClient, OthersUpdates, Swap, history
<1>6. \A d \in Clients : changes'[d] \in 0 .. Iters
  BY <1>1, ChangesAre
<1>7. Knows(c)' /\ LateOK' /\ Renewed
  <2>1. /\ command.kind = "cas" /\ command.data = new'[c]
        /\ Value # NoItem /\ command.cas = Value.cas => command.data = Callback(Value.data)
    BY <1>1, <1>2
  <2> HIDE DEF command
  <2> QED BY <1>1, <1>2, <1>3, <2>1, StarterKnows
<1> QED BY <1>4, <1>5, <1>6, <1>7, OneUpdate

(* and add,                                                                *)
LEMMA AddNewKeeps ==
    ASSUME UpdateInv, Len(Nodes) = 1, NEW c \in Clients, AddNew(c)
    PROVE  UpdateInv'
<1> DEFINE command == [kind |-> "add", data |-> Callback(NoItem)]
<1>1. /\ upd[c] = "gets" /\ upd'[c] = "add" /\ new'[c] = Callback(NoItem)
      /\ Start(c, command) /\ UNCHANGED <<iters, changes, applied, source>>
  BY DEF AddNew, history, UpdateInv, UFramed, ByClient
<1>2. ~applied[c] /\ iters[c] \in 1 .. Iters
  BY <1>1, IterAssumption DEF UpdateInv, AppliedOK, ShapeOK
<1>3. command \in UpdateCommands
  BY CallbackAssumption DEF UpdateCommands
<1>4. IInv' /\ Others(c)
  BY <1>1, <1>3, StartUpdates
<1>5. UFramed' /\ OthersUpdates(c)
  BY DEF UpdateInv, UFramed, ByClient, OthersUpdates, AddNew, history
<1>6. \A d \in Clients : changes'[d] \in 0 .. Iters
  BY <1>1, ChangesAre
<1>7. Knows(c)' /\ LateOK' /\ Renewed
  <2>1. command.kind = "add" /\ command.data = new'[c] /\ command.data = Callback(NoItem)
    BY <1>1
  <2> HIDE DEF command
  <2> QED BY <1>1, <1>2, <1>3, <2>1, StarterKnows
<1> QED BY <1>4, <1>5, <1>6, <1>7, OneUpdate

(* (an update that was beaten has not changed the item)                    *)
LEMMA BeatenIs ==
    ASSUME UpdateInv, NEW c \in Clients, Beaten(c)
    PROVE  /\ ~applied[c] /\ upd[c] \in {"cas", "add"} /\ Back(c)
           /\ upd[c] = "cas" => result[c].code \in {"exists", "not_found"}
           /\ upd[c] = "add" => result[c].code = "exists"
<1>1. /\ upd[c] \in {"cas", "add"} /\ Back(c) /\ AppliedOK(c) /\ ClientOK(c)
      /\ Negative(c) \/ Caught(c)
  BY DEF Beaten, UpdateInv, IInv
<1>2. result[c].code # "not_stored"
  BY <1>1 DEF ClientOK, Replies, Outcomes, Back
<1> QED BY <1>1, <1>2 DEF Negative, Caught, AppliedOK

(* and one more iteration,                                                 *)
LEMMA AgainKeeps ==
    ASSUME UpdateInv, Len(Nodes) = 1, NEW c \in Clients, Again(c)
    PROVE  UpdateInv'
<1> DEFINE command == [kind |-> "gets"]
<1>1. command \in UpdateCommands /\ Start(c, command)
  BY DEF UpdateCommands, Again, Gets
<1>2. IInv' /\ Others(c)
  BY <1>1, StartUpdates
<1>3. UFramed' /\ OthersUpdates(c)
  BY DEF UpdateInv, UFramed, ByClient, OthersUpdates, Again
<1>4. /\ Beaten(c) /\ iters[c] > 1 /\ upd'[c] = "gets" /\ iters'[c] = iters[c] - 1
      /\ applied'[c] = applied[c] /\ UNCHANGED changes
  BY DEF Again, UpdateInv, UFramed, ByClient
<1>5. ~applied[c] /\ iters'[c] \in 1 .. Iters
  BY <1>4, BeatenIs, IterAssumption DEF UpdateInv, ShapeOK
<1>6. \A d \in Clients : changes'[d] \in 0 .. Iters
  BY <1>4, ChangesAre
<1>7. Knows(c)' /\ LateOK' /\ Renewed
  <2>1. upd'[c] = command.kind /\ command.kind = "gets"
    BY <1>4
  <2> HIDE DEF command
  <2> QED BY <1>1, <1>4, <1>5, <2>1, StarterKnows
<1> QED BY <1>2, <1>3, <1>6, <1>7, OneUpdate

(* and the end of atomic_update,                                           *)
LEMMA ReturnKeeps ==
    ASSUME UpdateInv, Len(Nodes) = 1, NEW c \in Clients, NEW end, Back(c), Return(c, end)
    PROVE  UpdateInv'
<1>1. IInv /\ pc[c] = "idle" /\ ClientOK(c)
  BY DEF Back, UpdateInv, IInv
<1>2. /\ Framed' /\ Others(c) /\ Kept /\ ServersOK' /\ key' = key
      /\ pc'[c] = "idle" /\ result'[c] = None
      /\ UNCHANGED <<cmd[c], conts[c], outOfServers[c], age[c], log[c]>>
  BY <1>1 DEF Return, IInv, ServersOK, Framed, ByClient, Others, Kept, proxies, servers, loop
<1>3. ClientOK(c)'
  BY <1>1, <1>2 DEF ClientOK
<1>4. IInv'
  BY <1>1, <1>2, <1>3, OneClient
<1>5. UFramed' /\ OthersUpdates(c)
  BY DEF UpdateInv, UFramed, ByClient, OthersUpdates, Return
<1>6. /\ upd'[c] = "none" /\ iters'[c] = 0 /\ changes'[c] = 0
      /\ ~applied'[c] /\ applied'[c] \in BOOLEAN
  BY DEF UpdateInv, UFramed, ByClient, Return
<1>7. \A d \in Clients : changes'[d] \in 0 .. Iters
  BY IterAssumption DEF UpdateInv, UFramed, ByClient, ShapeOK, Return
<1>8. Renewed /\ LateOK'
  BY <1>2, KeptRenews, LateKept
<1>9. Knows(c)'
  <2>1. ShapeOK(c)'
    BY <1>2, <1>6, IterAssumption DEF ShapeOK
  <2>2. log[c] = <<>>
    BY <1>1 DEF ClientOK
  <2>3. VisitOK(c)'
    BY <1>2, <2>2 DEF VisitOK
  <2>4. BackOK(c)' /\ AppliedOK(c)' /\ MatchOK(c)'
    BY <1>2, <1>6 DEF BackOK, AppliedOK, MatchOK, Back
  <2> QED BY <2>1, <2>3, <2>4 DEF Knows
<1> QED BY <1>2, <1>4, <1>5, <1>7, <1>8, <1>9, OneUpdate

(* and what the clients have no part in.                                   *)
LEMMA OtherKeeps ==
    ASSUME UpdateInv, Len(Nodes) = 1, IInv', Renewed, LateOK',
           UNCHANGED <<pc, cmd, loop, result, log, update, source, applied>>,
           CountChanges \/ UNCHANGED changes
    PROVE  UpdateInv'
<1>1. \A d \in Clients : changes'[d] \in 0 .. Iters
  BY ChangesAre
<1>2. UNCHANGED <<pc, cmd, prev, outOfServers, result, log, upd, iters, new, outcome,
                  source, applied>>
  BY DEF loop, update
<1>3. UFramed'
  BY <1>2 DEF UpdateInv, UFramed, ByClient, CountChanges
<1>4. ASSUME NEW d \in Clients PROVE Knows(d)'
  BY <1>1, <1>2, Bystander
<1> QED BY <1>3, <1>4 DEF UpdateInv, Knows

(* Every step keeps the invariant of updates.                              *)
LEMMA UpdateStepInv ==
    ASSUME UpdateInv, Len(Nodes) = 1, [UNext]_allVars
    PROVE  UpdateInv'
<1>1. ASSUME NEW c \in Clients, Succeed(c) \/ Unable(c) \/ Throw(c) PROVE UpdateInv'
  BY <1>1, ReturnKeeps DEF Succeed, Unable, Throw, Beaten
<1>2. ASSUME NEW c \in Clients, Call(c) \/ InUpdate(c) PROVE UpdateInv'
  BY <1>1, <1>2, CallKeeps, SwapKeeps, AddNewKeeps, AgainKeeps, RunKeeps DEF InUpdate
<1>3. CASE ServersAct
  <2>1. PICK s \in Servers : ServerStep(s, Fresh)
    BY <1>3 DEF ServersAct
  <2>2. ServerStep(s, AnyToken)
    BY <2>1, FreshSteps
  <2>3. IInv' /\ UNCHANGED <<pc, cmd, loop, result, log>>
    BY <2>2, ServerSteps, OtherSteps DEF UpdateInv, IInv
  <2>4. Renewed /\ LateOK'
    BY <2>1, ServerDigest, ServerRenews
  <2> QED BY <1>3, <2>3, <2>4, OtherKeeps DEF ServersAct
<1>4. CASE UTick
  <2>1. IInv' /\ Kept /\ UNCHANGED <<pc, cmd, loop, result, log>>
    BY <1>4, TickKeeps DEF UTick, Tick, UpdateInv, Kept
  <2>2. Renewed /\ LateOK'
    BY <2>1, KeptRenews, LateKept
  <2> QED BY <1>4, <2>1, <2>2, OtherKeeps DEF UTick, history
<1>5. CASE UNCHANGED allVars
  <2>1. IInv'
    BY <1>5, StepInv DEF UpdateInv, allVars
  <2>2. Kept /\ UNCHANGED <<pc, cmd, loop, result, log, update, source, applied, changes>>
    BY <1>5 DEF allVars, vars, Kept, history
  <2>3. Renewed /\ LateOK'
    BY <2>2, KeptRenews, LateKept
  <2> QED BY <2>1, <2>2, <2>3, OtherKeeps
<1> QED BY <1>2, <1>3, <1>4, <1>5 DEF UNext

(* It holds at first.                                                      *)
LEMMA UpdateInitInv ==
    ASSUME Len(Nodes) = 1, UInit
    PROVE  UpdateInv
<1>1. IInv
  BY InitInv DEF UInit
<1>2. UFramed
  BY DEF UInit, UFramed, ByClient
<1>3. LateOK
  BY OneServer DEF UInit, Init, LateOK
<1>4. ASSUME NEW c \in Clients
      PROVE  ShapeOK(c) /\ VisitOK(c) /\ BackOK(c) /\ AppliedOK(c) /\ MatchOK(c)
  <2>1. /\ pc[c] = "idle" /\ result[c] = None /\ log[c] = <<>>
        /\ upd[c] = "none" /\ iters[c] = 0 /\ changes[c] = 0
        /\ ~applied[c] /\ applied[c] \in BOOLEAN
    BY DEF UInit, Init
  <2> QED BY <2>1, IterAssumption
         DEF ShapeOK, VisitOK, BackOK, AppliedOK, MatchOK, Back
<1> QED BY <1>1, <1>2, <1>3, <1>4 DEF UpdateInv

(* The inductive invariant of atomic_update with one server: an item with  *)
(* the cas identifier a client holds is the item its callback was given,   *)
(* and what has changed the item is the last command of an update.         *)
THEOREM UpdateInvariant == Len(Nodes) = 1 => (USpec => []UpdateInv)
<1> SUFFICES ASSUME Len(Nodes) = 1 PROVE USpec => []UpdateInv
  OBVIOUS
<1>1. UInit => UpdateInv
  BY UpdateInitInv
<1>2. UpdateInv /\ [UNext]_allVars => UpdateInv'
  BY UpdateStepInv
<1> QED BY <1>1, <1>2, PTL DEF USpec

-----------------------------------------------------------------------------
(* No iteration in vain.                                                   *)

VainInv == UpdateInv /\ \A c \in Clients : VainOK(c)

(* A client whose update stays where it is.                                *)
LEMMA VainKept ==
    ASSUME VainInv, NEW d \in Clients, UNCHANGED <<upd[d], iters[d]>>,
           CountChanges \/ (item' = item /\ UNCHANGED changes),
           upd[d] # "none" /\ item' = item /\ Steady(d) => Steady(d)'
    PROVE  VainOK(d)'
<1> SUFFICES ASSUME upd[d] # "none"
             PROVE  Iters - iters[d] <= changes'[d] /\ (Excused(d)' \/ Steady(d)')
  BY DEF VainOK
<1>1. /\ changes[d] \in 0 .. Iters /\ iters[d] \in 0 .. Iters /\ iters[d] >= 1
      /\ Iters \in Nat
      /\ Iters - iters[d] <= changes[d] /\ (Excused(d) \/ Steady(d))
  BY IterAssumption DEF VainInv, UpdateInv, ShapeOK, VainOK
<1>2. changes'[d] \in 0 .. Iters /\ changes'[d] >= changes[d]
  BY ChangesAre DEF VainInv
<1>3. CASE item' # item
  <2>1. changes'[d] = Least(Iters, changes[d] + 1)
    BY <1>3, ChangesAre DEF VainInv
  <2> QED BY <1>1, <2>1 DEF Least, Excused
<1>4. CASE item' = item
  BY <1>1, <1>2, <1>4 DEF Excused
<1> QED BY <1>3, <1>4

(* A step of run() that does not change the item does not surprise its     *)
(* client either.                                                          *)
LEMMA RunnerSteady ==
    ASSUME UpdateInv, Len(Nodes) = 1, NEW c \in Clients, RunDoes(c), pc[c] # "idle",
           RunFrame(c), item' = item, Steady(c)
    PROVE  Steady(c)'
<1>1. Value' = Value /\ upd'[c] = upd[c]
  BY DEF Value, RunFrame
<1>2. /\ upd[c] \in {"gets", "cas", "add"} /\ pc[c] \in {"loop", "send"}
      /\ upd[c] \in {"cas", "add"} => outOfServers[c]
  BY RunsUpdate
<1>3. \A r : Reply(r).code = r
  BY DEF Reply
<1>4. ~Puts(c)
  BY PutChanges
<1>5. CASE Stays(c)
  BY <1>1, <1>2, <1>5 DEF Stays, Steady, Back
<1>6. CASE NoAnswer(c)
  BY <1>1, <1>2, <1>6 DEF NoAnswer, GoesOn, Steady, Back
<1>7. CASE Misses(c)
  BY <1>1, <1>2, <1>7 DEF Misses, GoesOn, Steady, Back
<1>8. ASSUME NEW code, Ending(c, Reply(code)), code # "ok",
             upd[c] = "gets" /\ code = "not_found" => Value = NoItem,
             upd[c] = "cas" => code \notin {"exists", "not_found"},
             upd[c] = "add" => code # "exists"
      PROVE  Steady(c)'
  <2>1. pc'[c] = "idle" /\ result'[c].code = code
    BY <1>3, <1>8 DEF Ending
  <2> QED BY <1>1, <1>8, <2>1 DEF Steady, Back
<1>9. CASE GivesUp(c)
  <2>1. CASE outOfServers[c]
    BY <1>8, <1>9, <2>1 DEF GivesUp
  <2>2. CASE ~outOfServers[c]
    <3>1. upd[c] = "gets" /\ Value = NoItem
      BY <1>2, <2>2 DEF Steady
    <3> QED BY <1>8, <1>9, <2>2, <3>1 DEF GivesUp
  <2> QED BY <2>1, <2>2
<1>10. CASE IsTold(c)
  <2>1. ASSUME upd[c] = "gets", Ending(c, [code |-> "ok", item |-> Value]) PROVE Steady(c)'
    BY <1>1, <2>1 DEF Ending, Steady, Back
  <2>2. ASSUME Ending(c, Reply("exists")),
               \/ upd[c] = "cas" /\ Value.cas # cmd[c].cas
               \/ upd[c] = "add" /\ Value # NoItem
        PROVE  Steady(c)'
    BY <1>2, <2>2 DEF Steady
  <2>3. ASSUME Ending(c, Reply("not_found")), upd[c] \in {"gets", "cas"}, Value = NoItem
        PROVE  Steady(c)'
    BY <1>2, <1>8, <2>3 DEF Steady
  <2>4. ASSUME NEW code \in {"server_error", "exception"}, Ending(c, Reply(code))
        PROVE  Steady(c)'
    BY <1>8, <2>4
  <2> QED BY <1>4, <1>10, <2>1, <2>2, <2>3, <2>4 DEF IsTold
<1> QED BY <1>5, <1>6, <1>7, <1>9, <1>10 DEF RunDoes

(* Nor does the beginning of a command, unless there was a change for this *)
(* iteration.                                                              *)
LEMMA StarterVain ==
    ASSUME VainInv, Len(Nodes) = 1, NEW c \in Clients, NEW command,
           Start(c, command), upd'[c] = command.kind, OthersUpdates(c),
           UNCHANGED changes,
           Iters - iters'[c] <= changes[c],
           \/ command.kind = "gets"
           \/ iters'[c] = iters[c] /\ Excused(c)
           \/ command.kind = "cas" /\ Value # NoItem /\ Value.cas = command.cas
           \/ command.kind = "add" /\ Value = NoItem
    PROVE  \A d \in Clients : VainOK(d)'
<1>1. /\ pc'[c] = "loop" /\ cmd'[c] = command /\ outOfServers'[c] = TRUE
      /\ Kept /\ Others(c)
  BY StartIs DEF VainInv, UpdateInv
<1>2. Value' = Value /\ item' = item
  BY <1>1, KeptRenews
<1>3. ASSUME NEW d \in Clients \ {c} PROVE VainOK(d)'
  <2>1. UNCHANGED <<pc[d], cmd[d], outOfServers[d], result[d], upd[d], iters[d]>>
    BY <1>1 DEF Others, OthersUpdates
  <2>2. Steady(d) => Steady(d)'
    BY <1>2, <2>1 DEF Steady, Back
  <2> QED BY <1>2, <2>1, <2>2, VainKept
<1>4. VainOK(c)'
  <2>1. CASE iters'[c] = iters[c] /\ Excused(c)
    BY <2>1 DEF VainOK, Excused
  <2>2. CASE command.kind = "gets"
    BY <1>1, <2>2 DEF VainOK, Steady, Back
  <2>3. CASE command.kind = "cas" /\ Value # NoItem /\ Value.cas = command.cas
    BY <1>1, <1>2, <2>3 DEF VainOK, Steady, Back
  <2>4. CASE command.kind = "add" /\ Value = NoItem
    BY <1>1, <1>2, <2>4 DEF VainOK, Steady, Back
  <2> QED BY <2>1, <2>2, <2>3, <2>4
<1> QED BY <1>3, <1>4

(* Every step keeps VainOK.                                                *)
LEMMA VainStep ==
    ASSUME VainInv, Len(Nodes) = 1, UNext, NEW d \in Clients
    PROVE  VainOK(d)'
<1>1. UpdateInv /\ VainOK(d)
  BY DEF VainInv
<1>2. ASSUME NEW c \in Clients, Call(c) PROVE VainOK(d)'
  <2> DEFINE command == [kind |-> "gets"]
  <2>1. /\ Start(c, command) /\ upd'[c] = "gets" /\ iters'[c] = Iters /\ UNCHANGED changes
        /\ OthersUpdates(c)
    BY <1>1, <1>2 DEF Call, Gets, history, UpdateInv, UFramed, ByClient, OthersUpdates
  <2>2. Iters - iters'[c] <= changes[c]
    BY <1>1, <2>1, IterAssumption DEF UpdateInv, ShapeOK
  <2> QED BY <2>1, <2>2, StarterVain
<1>3. ASSUME NEW c \in Clients, Swap(c) PROVE VainOK(d)'
  <2> DEFINE got == result[c].item
             command == [kind |-> "cas", data |-> Callback(got.data), cas |-> got.cas]
  <2>1. /\ upd[c] = "gets" /\ Back(c) /\ result[c].code = "ok"
        /\ Start(c, command) /\ upd'[c] = "cas" /\ UNCHANGED <<iters, changes>>
        /\ OthersUpdates(c)
    BY <1>1, <1>3 DEF Swap, history, UpdateInv, UFramed, ByClient, OthersUpdates
  <2>2. VainOK(c) /\ got \in Items
    BY <1>1, <2>1 DEF VainInv, UpdateInv, BackOK
  <2>3. Excused(c) \/ (Value # NoItem /\ Value.cas = got.cas)
    BY <2>1, <2>2, ItemAssumption DEF VainOK, Steady
  <2>4. Iters - iters'[c] <= changes[c]
    BY <2>1, <2>2 DEF VainOK
  <2>5. command.kind = "cas" /\ command.cas = got.cas
    OBVIOUS
  <2> HIDE DEF command
  <2> QED BY <2>1, <2>3, <2>4, <2>5, StarterVain
<1>4. ASSUME NEW c \in Clients, AddNew(c) PROVE VainOK(d)'
  <2> DEFINE command == [kind |-> "add", data |-> Callback(NoItem)]
  <2>1. /\ upd[c] = "gets" /\ Back(c) /\ result[c].code = "not_found"
        /\ Start(c, command) /\ upd'[c] = "add" /\ UNCHANGED <<iters, changes>>
        /\ OthersUpdates(c)
    BY <1>1, <1>4 DEF AddNew, history, UpdateInv, UFramed, ByClient, OthersUpdates
  <2>2. VainOK(c)
    BY DEF VainInv
  <2>3. Excused(c) \/ Value = NoItem
    BY <2>1, <2>2 DEF VainOK, Steady
  <2>4. Iters - iters'[c] <= changes[c]
    BY <2>1, <2>2 DEF VainOK
  <2>5. command.kind = "add"
    OBVIOUS
  <2> HIDE DEF command
  <2> QED BY <2>1, <2>3, <2>4, <2>5, StarterVain
<1>5. ASSUME NEW c \in Clients, Again(c) PROVE VainOK(d)'
  <2> DEFINE command == [kind |-> "gets"]
  <2>1. /\ Beaten(c) /\ Start(c, command) /\ upd'[c] = "gets" /\ UNCHANGED changes
        /\ iters'[c] = iters[c] - 1 /\ OthersUpdates(c)
    BY <1>1, <1>5 DEF Again, Gets, UpdateInv, UFramed, ByClient, OthersUpdates
  <2>2. VainOK(c) /\ iters[c] \in Int /\ changes[c] \in Int /\ Iters \in Int
    BY <1>1, IterAssumption DEF VainInv, UpdateInv, ShapeOK
  <2>3. Excused(c)
    BY <1>1, <2>1, <2>2, BeatenIs DEF VainOK, Steady
  <2>4. Iters - iters'[c] <= changes[c]
    BY <2>1, <2>2, <2>3 DEF Excused
  <2> QED BY <2>1, <2>4, StarterVain
<1>6. ASSUME NEW c \in Clients, Succeed(c) \/ Unable(c) \/ Throw(c) PROVE VainOK(d)'
  <2>1. PICK end : Return(c, end)
    BY <1>6 DEF Succeed, Unable, Throw
  <2>2. CASE d = c
    BY <1>1, <2>1, <2>2 DEF Return, UpdateInv, UFramed, ByClient, VainOK
  <2>3. CASE d # c
    <3>1. /\ UNCHANGED <<pc[d], cmd[d], outOfServers[d], result[d], upd[d], iters[d],
                         changes[d], item>>
      BY <1>1, <2>1, <2>3
         DEF Return, UpdateInv, UFramed, ByClient, IInv, Framed, servers, loop
    <3> QED BY <1>1, <3>1 DEF VainOK, Excused, Steady, Back, Value
  <2> QED BY <2>2, <2>3
<1>7. ASSUME NEW c \in Clients, Run(c) PROVE VainOK(d)'
  <2>1. /\ RunDoes(c) /\ pc[c] # "idle" /\ RunFrame(c) /\ Others(c) /\ OthersUpdates(c)
        /\ CountChanges
    BY <1>1, <1>7, RunIs DEF Run
  <2>2. CASE d = c
    <3>1. UNCHANGED <<upd[c], iters[c]>>
      BY <2>1 DEF RunFrame
    <3>2. item' = item /\ Steady(c) => Steady(c)'
      BY <1>1, <2>1, RunnerSteady
    <3> QED BY <2>1, <2>2, <3>1, <3>2, VainKept
  <2>3. CASE d # c
    <3>1. UNCHANGED <<pc[d], cmd[d], outOfServers[d], result[d], upd[d], iters[d]>>
      BY <2>1, <2>3 DEF Others, OthersUpdates
    <3>2. item' = item /\ Steady(d) => Steady(d)'
      BY <3>1 DEF Steady, Back, Value
    <3> QED BY <2>1, <3>1, <3>2, VainKept
  <2> QED BY <2>2, <2>3
<1>8. CASE ServersAct \/ UTick
  <2>1. UNCHANGED <<pc, cmd, loop, result, update>>
    <3>1. CASE ServersAct
      <4>1. PICK s \in Servers : ServerStep(s, AnyToken)
        BY <3>1, FreshSteps DEF ServersAct
      <4> QED BY <1>1, <3>1, <4>1, ServerSteps DEF ServersAct, UpdateInv, IInv
    <3>2. CASE UTick
      BY <3>2 DEF UTick, Tick
    <3> QED BY <1>8, <3>1, <3>2
  <2>2. UNCHANGED <<pc[d], cmd[d], outOfServers[d], result[d], upd[d], iters[d]>>
    BY <2>1 DEF loop, update
  <2>3. CountChanges \/ (item' = item /\ UNCHANGED changes)
    BY <1>8 DEF ServersAct, UTick, Tick, servers, history
  <2>4. item' = item /\ Steady(d) => Steady(d)'
    BY <2>2 DEF Steady, Back, Value
  <2> QED BY <2>2, <2>3, <2>4, VainKept
<1> QED BY <1>2, <1>3, <1>4, <1>5, <1>6, <1>7, <1>8 DEF UNext, InUpdate

(* atomic_update loses an iteration only to a change of the item since it  *)
(* was called: unable_cas is thrown for contention and for nothing else,   *)
(* whatever fails.                                                         *)
THEOREM UpdatesNotInVain == Len(Nodes) = 1 => (USpec => []NoIterationInVain)
<1> SUFFICES ASSUME Len(Nodes) = 1 PROVE USpec => []NoIterationInVain
  OBVIOUS
<1>1. UInit => VainInv
  <2> SUFFICES ASSUME UInit PROVE VainInv
    OBVIOUS
  <2>1. \A c \in Clients : VainOK(c)
    BY DEF UInit, VainOK
  <2> QED BY <2>1, UpdateInitInv DEF VainInv
<1>2. VainInv /\ [UNext]_allVars => VainInv'
  <2> SUFFICES ASSUME VainInv, [UNext]_allVars PROVE VainInv'
    OBVIOUS
  <2>1. UpdateInv'
    BY UpdateStepInv DEF VainInv
  <2>2. CASE UNext
    BY <2>1, <2>2, VainStep DEF VainInv
  <2>3. CASE UNCHANGED allVars
    <3>1. UNCHANGED <<pc, cmd, outOfServers, result, upd, iters, changes, item>>
      BY <2>3 DEF allVars, vars, loop, update, history, servers
    <3>2. \A c \in Clients : VainOK(c)'
      BY <3>1 DEF VainInv, VainOK, Excused, Steady, Back, Value
    <3> QED BY <2>1, <3>2 DEF VainInv
  <2> QED BY <2>2, <2>3
<1>3. VainInv => NoIterationInVain
  BY DEF VainInv, VainOK, NoIterationInVain
<1> QED BY <1>1, <1>2, <1>3, PTL DEF USpec

-----------------------------------------------------------------------------
(* The refinement: run().                                                  *)

(* The state of the register.                                              *)
Put(c) == IF applied[c] THEN new[c] ELSE NoItem
Stages == [c \in Clients |-> Stage(c)]
AllPut == [c \in Clients |-> Put(c)]
Loose == Cardinality({s \in Servers : late[s] # None})
LooseIf(l) == IF l = None THEN 0 ELSE 1

(* The number of late commands of one server.                              *)
LEMMA LooseIs ==
    ASSUME Len(Nodes) = 1, NEW f
    PROVE  Cardinality({s \in Servers : f[s] # None}) = LooseIf(f[TheServer])
<1>1. CASE f[TheServer] = None
  <2>1. {s \in Servers : f[s] # None} = {}
    BY <1>1, OneServer
  <2> QED BY <1>1, <2>1, FS_EmptySet DEF LooseIf
<1>2. CASE f[TheServer] # None
  <2>1. {s \in Servers : f[s] # None} = {TheServer}
    BY <1>2, OneServer
  <2> QED BY <1>2, <2>1, FS_Singleton DEF LooseIf
<1> QED BY <1>1, <1>2

(* It is within its bound.                                                 *)
LEMMA LooseBound ==
    ASSUME UpdateInv, Len(Nodes) = 1
    PROVE  Loose = LooseIf(late[TheServer]) /\ Loose \in Nat /\ Loose <= MaxLate
<1>1. Loose = LooseIf(late[TheServer])
  BY LooseIs DEF Loose
<1>2. MaxLate \in Nat /\ (late[TheServer] # None => MaxLate >= 1)
  BY LimitAssumption DEF UpdateInv, LateOK
<1> QED BY <1>1, <1>2 DEF LooseIf

(* The stage of an update in progress, from what the client knows.         *)
LEMMA StageIs ==
    ASSUME UpdateInv, NEW c \in Clients, upd[c] # "none"
    PROVE  /\ applied[c] => Stage(c) = "applied"
           /\ ~applied[c] /\ Unreachable(c) => Stage(c) = "failed"
           /\ ~applied[c] /\ ~Unreachable(c) => Stage(c) = "pending"
           /\ Stage(c) # "idle"
  BY DEF Stage

(* The stage depends on the state of the update and its command.           *)
LEMMA SameStage ==
    ASSUME NEW d, UNCHANGED <<pc[d], result[d], log[d], upd[d], new[d], applied[d]>>
    PROVE  Stage(d)' = Stage(d) /\ Put(d)' = Put(d)
  BY DEF Stage, Unreachable, Back, Put

OthersStay(c) ==
    \A d \in Clients \ {c} : Stage(d)' = Stage(d) /\ Put(d)' = Put(d)

(* A step of one client leaves the stages of the others alone.             *)
LEMMA StayingOthers ==
    ASSUME NEW c, Others(c), OthersUpdates(c)
    PROVE  OthersStay(c)
  BY SameStage DEF Others, OthersUpdates, OthersStay

(* The functions of the register when one client takes a step.             *)
LEMMA OneStage ==
    ASSUME NEW c \in Clients, OthersStay(c)
    PROVE  /\ Stages' = [Stages EXCEPT ![c] = Stage(c)']
           /\ AllPut' = [AllPut EXCEPT ![c] = Put(c)']
           /\ Stages[c] = Stage(c) /\ AllPut[c] = Put(c)
           /\ Stage(c)' = Stage(c) => Stages' = Stages
           /\ Put(c)' = Put(c) => AllPut' = AllPut
  BY DEF Stages, AllPut, OthersStay

Mapping == <<Now, Stages, AllPut, outcome, Loose>>

(* The variables of the register under the mapping.                        *)
LEMMA RegisterVars == UNCHANGED Mapping <=> UNCHANGED Register!vars
  BY DEF Mapping, Register!vars, Now, Value, Stages, AllPut, Put, Loose

RegisterStep == Register!Next \/ UNCHANGED Mapping

(* A step that keeps the servers keeps the value.                          *)
LEMMA KeptMaps ==
    ASSUME Kept
    PROVE  Now' = Now /\ Loose' = Loose
  BY DEF Kept, servers, Now, Value, Loose

(* The update of c is applied, or gets nowhere.                            *)
LEMMA Applies ==
    ASSUME UpdateInv, Len(Nodes) = 1, NEW c \in Clients, OthersStay(c), Puts(c),
           Stage(c) = "pending", Stage(c)' = "applied", Put(c)' = new[c],
           UNCHANGED outcome
    PROVE  RegisterStep
<1>1. Value' # NoItem /\ Value'.data = new[c] /\ new[c] = Callback(Now)
  BY PutChanges
<1>2. Now' = Callback(Now) /\ Now' = new[c]
  BY <1>1 DEF Now
<1>3. Loose' = Loose
  BY DEF Puts, Loose
<1>4. /\ Stages[c] = "pending" /\ Stages' = [Stages EXCEPT ![c] = "applied"]
      /\ AllPut' = [AllPut EXCEPT ![c] = Now']
  BY <1>2, OneStage
<1>5. Register!Apply(c)
  BY <1>2, <1>3, <1>4 DEF Register!Apply, Now, Value, Stages, AllPut, Put, Loose
<1> QED BY <1>5 DEF Register!Next, RegisterStep

(* The update of c fails: the server is out of reach.                      *)
LEMMA Fails ==
    ASSUME UpdateInv, Len(Nodes) = 1, NEW c \in Clients, OthersStay(c),
           Kept \/ Postpones(c),
           Stage(c) = "pending", Stage(c)' = "failed", Put(c)' = Put(c),
           UNCHANGED outcome
    PROVE  RegisterStep
<1>1. Now' = Now
  BY KeptMaps DEF Postpones, Now, Value
<1>2. Loose' \in {Loose, Loose + 1} /\ Loose' <= MaxLate
  <2>1. CASE Kept
    BY <2>1, KeptMaps, LooseBound
  <2>2. CASE Postpones(c)
    <3>1. Loose = LooseIf(late[TheServer]) /\ Loose' = LooseIf(late'[TheServer])
      BY LooseIs DEF Loose
    <3>2. MaxLate \in Nat /\ MaxLate >= 1 /\ late[TheServer] = None
      BY <2>2, LimitAssumption DEF Postpones
    <3> QED BY <3>1, <3>2 DEF LooseIf
  <2> QED BY <2>1, <2>2
<1>3. Stages[c] = "pending" /\ Stages' = [Stages EXCEPT ![c] = "failed"] /\ AllPut' = AllPut
  BY OneStage
<1>4. Register!GiveUp(c)
  BY <1>1, <1>2, <1>3 DEF Register!GiveUp, Now, Value, Stages, AllPut, Put, Loose
<1> QED BY <1>4 DEF Register!Next, RegisterStep

(* A step nobody sees in the register.                                     *)
LEMMA StaysPut ==
    ASSUME NEW c \in Clients, OthersStay(c), Kept,
           Stage(c)' = Stage(c), Put(c)' = Put(c), UNCHANGED outcome
    PROVE  RegisterStep
<1>1. Stages' = Stages /\ AllPut' = AllPut
  BY OneStage
<1> QED BY <1>1, KeptMaps DEF RegisterStep, Mapping

(* out_of_servers is a response.                                           *)
LEMMA ReplyIsSome == Reply("out_of_servers") # None
<1>1. Reply("out_of_servers") \in Replies
  BY DEF Reply, Replies
<1> QED BY <1>1, ResultAssumption

(* A step of run() is a step of the register or of nothing.                *)
LEMMA RunMaps ==
    ASSUME UpdateInv, Len(Nodes) = 1, NEW c \in Clients, Run(c)
    PROVE  RegisterStep
<1>1. /\ RunDoes(c) /\ pc[c] # "idle" /\ RunFrame(c) /\ OthersStay(c)
      /\ UNCHANGED outcome
  BY RunIs, StayingOthers DEF Run, update
<1>2. /\ ShapeOK(c) /\ VisitOK(c) /\ AppliedOK(c) /\ ClientOK(c) /\ Running(c)
      /\ upd[c] \in {"gets", "cas", "add"} /\ pc[c] \in {"loop", "send"}
  BY <1>1, RunsUpdate
<1>3. /\ upd[c] # "none" /\ upd'[c] = upd[c] /\ new'[c] = new[c]
      /\ applied[c] \in BOOLEAN /\ applied'[c] \in BOOLEAN
      /\ applied'[c] <=> applied[c] \/ item' # item
      /\ ~Back(c)
  BY <1>1, <1>2 DEF RunFrame, ShapeOK, Back
<1>4. Kept => item' = item
  BY DEF Kept, servers
<1>5. log[c] = <<>> => ~applied[c] /\ Stage(c) = "pending"
  <2>1. log[c] = <<>> => ~applied[c] /\ ~Unreachable(c)
    BY <1>1, <1>2, <1>3 DEF AppliedOK, Unreachable
  <2> QED BY <1>3, <2>1 DEF Stage
<1>6. \A r : Reply(r).code = r
  BY DEF Reply
<1>7. CASE Stays(c)
  <2>1. Kept /\ applied'[c] = applied[c]
    BY <1>3, <1>4, <1>7 DEF Stays
  <2>2. Unreachable(c)' = Unreachable(c)
    BY <1>3, <1>7 DEF Stays, Unreachable, Back
  <2>3. Stage(c)' = Stage(c) /\ Put(c)' = Put(c)
    BY <1>3, <2>1, <2>2 DEF Stage, Put
  <2> QED BY <1>1, <2>1, <2>3, StaysPut
<1>8. ASSUME Puts(c), log[c] = <<>> PROVE RegisterStep
  <2>1. applied'[c]
    BY <1>3, <1>8, PutChanges
  <2>2. Stage(c)' = "applied" /\ Put(c)' = new[c]
    BY <1>3, <2>1 DEF Stage, Put
  <2> QED BY <1>1, <1>5, <1>8, <2>2, Applies
<1>9. ASSUME item' = item, log[c] = <<>>
      PROVE  /\ Unreachable(c)' => Stage(c)' = "failed"
             /\ ~Unreachable(c)' => Stage(c)' = "pending"
             /\ Put(c)' = Put(c)
  <2>1. ~applied[c] /\ ~applied'[c]
    BY <1>3, <1>5, <1>9
  <2> QED BY <1>3, <2>1 DEF Stage, Put
<1>10. CASE NoAnswer(c)
  <2>1. log[c] = <<>> /\ log'[c] = <<<<TheServer, "no_answer">>>> /\ pc'[c] = "loop"
    BY <1>10 DEF NoAnswer, GoesOn
  <2>2. Unreachable(c)'
    <3>1. 1 \in DOMAIN log'[c] /\ log'[c][1][2] = "no_answer"
      BY <2>1
    <3> QED BY <3>1 DEF Unreachable
  <2>3. CASE Kept \/ Postpones(c)
    <3>1. item' = item
      BY <1>4, <2>3 DEF Postpones
    <3> QED BY <1>1, <1>5, <1>9, <2>1, <2>2, <2>3, <3>1, Fails
  <2> QED BY <1>8, <1>10, <2>1, <2>3 DEF NoAnswer
<1>11. CASE Misses(c)
  <2>1. /\ log[c] = <<>> /\ log'[c] = <<<<TheServer, "not_found">>>> /\ pc'[c] = "loop"
        /\ Kept
    BY <1>11 DEF Misses, GoesOn
  <2>2. ~Unreachable(c)'
    <3>1. \A i \in DOMAIN log'[c] : log'[c][i][2] # "no_answer"
      BY <2>1
    <3> QED BY <2>1, <3>1 DEF Unreachable, Back
  <2> QED BY <1>1, <1>4, <1>5, <1>9, <2>1, <2>2, StaysPut
<1>12. CASE GivesUp(c)
  <2>1. /\ Kept /\ pc'[c] = "idle" /\ log'[c] = <<>>
        /\ result'[c].code = IF outOfServers[c] THEN "out_of_servers" ELSE "not_found"
    BY <1>6, <1>12 DEF GivesUp, Ending
  <2>2. applied'[c] = applied[c]
    BY <1>3, <1>4, <2>1
  <2>3. Put(c)' = Put(c)
    BY <1>3, <2>2 DEF Put
  <2>4. outOfServers[c] <=> ~Answered(c)
    BY <1>2 DEF Running
  <2>5. CASE applied[c]
    <3>1. Stage(c)' = Stage(c)
      BY <1>3, <2>2, <2>5 DEF Stage
    <3> QED BY <1>1, <2>1, <2>3, <3>1, StaysPut
  <2>6. CASE ~applied[c] /\ outOfServers[c]
    <3>1. result'[c] # None
      BY <1>6, <1>12, <2>6, ReplyIsSome DEF GivesUp, Ending
    <3>2. Unreachable(c)'
      BY <2>1, <2>6, <3>1 DEF Unreachable, Back
    <3>3. Stage(c)' = "failed"
      BY <1>3, <2>2, <2>6, <3>2 DEF Stage
    <3>4. Stage(c) \in {"pending", "failed"}
      BY <1>3, <2>6 DEF Stage
    <3> QED BY <1>1, <2>1, <2>3, <3>3, <3>4, StaysPut, Fails
  <2>7. CASE ~applied[c] /\ ~outOfServers[c]
    <3>1. ~Unreachable(c)'
      BY <2>1, <2>7 DEF Unreachable
    <3>2. PICK o \in Outcomes : log[c] = <<<<TheServer, o>>>> /\ o # "no_answer"
      BY <1>2, <2>4, <2>7 DEF Answered, VisitOK
    <3>3. ~Unreachable(c)
      BY <1>3, <3>2 DEF Unreachable
    <3>4. Stage(c)' = "pending" /\ Stage(c) = "pending"
      BY <1>3, <2>2, <2>7, <3>1, <3>3 DEF Stage
    <3> QED BY <1>1, <2>1, <2>3, <3>4, StaysPut
  <2> QED BY <2>5, <2>6, <2>7
<1>13. CASE IsTold(c)
  <2>1. log[c] = <<>>
    BY <1>2, <1>13 DEF IsTold, VisitOK
  <2>2. ASSUME NEW response, Ending(c, response), response.code # "out_of_servers", Kept
        PROVE  RegisterStep
    <3>1. ~Unreachable(c)'
      BY <2>2 DEF Ending, Unreachable
    <3> QED BY <1>1, <1>4, <1>5, <1>9, <2>1, <2>2, <3>1, StaysPut
  <2> QED BY <1>6, <1>8, <1>13, <2>1, <2>2 DEF IsTold
<1> QED BY <1>1, <1>7, <1>10, <1>11, <1>12, <1>13 DEF RunDoes

-----------------------------------------------------------------------------
(* The refinement: the other steps.                                        *)

(* The stage of an update whose next command is begun.                     *)
LEMMA StageOfStarted ==
    ASSUME IInv, NEW c \in Clients, NEW command, Start(c, command),
           upd'[c] # "none", ~applied'[c]
    PROVE  Stage(c)' = "pending" /\ Put(c)' = NoItem /\ Kept /\ Others(c)
<1>1. pc'[c] = "loop" /\ log'[c] = <<>> /\ Kept /\ Others(c)
  BY StartIs
<1>2. ~Unreachable(c)'
  BY <1>1 DEF Unreachable, Back
<1> QED BY <1>1, <1>2 DEF Stage, Put

(* The stage of an update whose command has come back.                     *)
LEMMA StageOfBack ==
    ASSUME UpdateInv, NEW c \in Clients, upd[c] # "none", Back(c), ~applied[c],
           result[c].code # "out_of_servers"
    PROVE  Stage(c) = "pending" /\ Put(c) = NoItem
<1>1. log[c] = <<>>
  BY DEF UpdateInv, IInv, ClientOK, Back
<1>2. ~Unreachable(c)
  BY <1>1 DEF Unreachable
<1> QED BY <1>2 DEF Stage, Put

(* The call of atomic_update is that of the register.                      *)
LEMMA CallMaps ==
    ASSUME UpdateInv, Len(Nodes) = 1, NEW c \in Clients, Call(c)
    PROVE  RegisterStep
<1>1. /\ upd[c] = "none" /\ ~applied[c] /\ Start(c, [kind |-> "gets"]) /\ IInv
      /\ upd'[c] = "gets" /\ applied' = applied
      /\ outcome' = [outcome EXCEPT ![c] = "none"] /\ OthersUpdates(c)
  BY DEF Call, Gets, history, UpdateInv, UFramed, ByClient, ShapeOK, OthersUpdates
<1>2. Stage(c)' = "pending" /\ Put(c)' = NoItem /\ Kept /\ Others(c)
  BY <1>1, StageOfStarted
<1>3. Stage(c) = "idle" /\ Put(c) = NoItem
  BY <1>1 DEF Stage, Put
<1>4. OthersStay(c)
  BY <1>1, <1>2, SameStage DEF Others, OthersUpdates, OthersStay
<1>5. /\ Stages[c] = "idle" /\ Stages' = [Stages EXCEPT ![c] = "pending"]
      /\ AllPut' = AllPut
  BY <1>2, <1>3, <1>4, OneStage
<1>6. Register!Call(c)
  BY <1>1, <1>2, <1>5, KeptMaps DEF Register!Call, Now, Value, Stages, AllPut, Put, Loose
<1> QED BY <1>6 DEF Register!Next, RegisterStep

(* One of several commands of an update is begun.                          *)
LEMMA GoesOnMaps ==
    ASSUME UpdateInv, Len(Nodes) = 1, NEW c \in Clients, NEW command, Start(c, command),
           Back(c), upd[c] # "none", upd'[c] # "none", ~applied[c], UNCHANGED applied,
           result[c].code # "out_of_servers", UNCHANGED outcome, OthersUpdates(c)
    PROVE  RegisterStep
<1>1. Stage(c)' = "pending" /\ Put(c)' = NoItem /\ Kept /\ Others(c)
  BY StageOfStarted DEF UpdateInv
<1>2. Stage(c) = "pending" /\ Put(c) = NoItem
  BY StageOfBack
<1>3. OthersStay(c)
  BY <1>1, SameStage DEF Others, OthersUpdates, OthersStay
<1> QED BY <1>1, <1>2, <1>3, StaysPut

(* The later commands are begun unseen.                                    *)
LEMMA BegunMaps ==
    ASSUME UpdateInv, Len(Nodes) = 1, NEW c \in Clients, Swap(c) \/ AddNew(c) \/ Again(c)
    PROVE  RegisterStep
<1>1. PICK command : Start(c, command)
  BY DEF Swap, AddNew, Again, Gets
<1>2. /\ Back(c) /\ upd[c] # "none" /\ upd'[c] # "none" /\ UNCHANGED <<applied, outcome>>
      /\ OthersUpdates(c)
  BY DEF Swap, AddNew, Again, Beaten, history, UpdateInv, UFramed, ByClient, OthersUpdates
<1>3. ~applied[c] /\ result[c].code # "out_of_servers"
  <2>1. CASE upd[c] = "gets"
    BY <2>1, <1>2 DEF Swap, AddNew, Again, Beaten, UpdateInv, AppliedOK
  <2>2. CASE Again(c)
    BY <2>2, BeatenIs DEF Again
  <2> QED BY <2>1, <2>2 DEF Swap, AddNew
<1> QED BY <1>1, <1>2, <1>3, GoesOnMaps

(* An update ends.                                                         *)
LEMMA ReturnMaps ==
    ASSUME UpdateInv, Len(Nodes) = 1, NEW c \in Clients, NEW end, Return(c, end), Back(c)
    PROVE  /\ Stages' = [Stages EXCEPT ![c] = "idle"]
           /\ AllPut' = [AllPut EXCEPT ![c] = NoItem]
           /\ outcome' = [outcome EXCEPT ![c] = end]
           /\ Now' = Now /\ Loose' = Loose
<1>1. /\ upd'[c] = "none" /\ ~applied'[c] /\ Kept /\ OthersUpdates(c) /\ Others(c)
  BY DEF Return, UpdateInv, UFramed, ByClient, OthersUpdates, IInv, Framed, Others, Kept, loop
<1>2. Stage(c)' = "idle" /\ Put(c)' = NoItem
  BY <1>1 DEF Stage, Put
<1>3. OthersStay(c)
  BY <1>1, SameStage DEF Others, OthersUpdates, OthersStay
<1> QED BY <1>1, <1>2, <1>3, OneStage, KeptMaps DEF Return

(* atomic_update returns, or throws.                                       *)
LEMMA EndMaps ==
    ASSUME UpdateInv, Len(Nodes) = 1, NEW c \in Clients, Succeed(c) \/ Unable(c) \/ Throw(c)
    PROVE  RegisterStep
<1>1. CASE Succeed(c)
  <2>1. /\ upd[c] \in {"cas", "add"} /\ Back(c) /\ result[c].code \in {"ok", "stored"}
        /\ Return(c, "returned")
    BY <1>1 DEF Succeed, Positive
  <2>2. applied[c]
    BY <2>1 DEF UpdateInv, BackOK
  <2>3. Stages[c] = "applied"
    BY <2>1, <2>2 DEF Stages, Stage
  <2>4. Register!Succeed(c)
    BY <2>1, <2>3, ReturnMaps DEF Register!Succeed, Now, Value, Stages, AllPut, Put, Loose
  <2> QED BY <2>4 DEF Register!Next, RegisterStep
<1>2. CASE Unable(c) \/ Throw(c)
  <2>1. upd[c] # "none" /\ Back(c) /\ Return(c, "thrown")
    BY <1>2 DEF Unable, Throw, Beaten
  <2>2. Stages[c] # "idle"
    BY <2>1 DEF Stages, Stage
  <2>3. Register!Fail(c)
    BY <2>1, <2>2, ReturnMaps DEF Register!Fail, Now, Value, Stages, AllPut, Put, Loose
  <2> QED BY <2>3 DEF Register!Next, RegisterStep
<1> QED BY <1>1, <1>2

(* What the servers do changes no update.                                  *)
LEMMA ServersMap ==
    ASSUME UpdateInv, Len(Nodes) = 1, ServersAct
    PROVE  RegisterStep
<1>1. PICK s \in Servers : ServerStep(s, Fresh) /\ ServerStep(s, AnyToken)
  BY FreshSteps DEF ServersAct
<1>2. UNCHANGED <<pc, result, log, upd, new, applied, outcome>>
  BY <1>1, ServerSteps DEF ServersAct, update, UpdateInv, IInv
<1>3. Stages' = Stages /\ AllPut' = AllPut
  BY <1>2, SameStage DEF Stages, AllPut
<1>4. Forgets \/ LateDone \/ LatePut
  BY <1>1, ServerDigest
<1>5. Loose = LooseIf(late[TheServer]) /\ Loose' = LooseIf(late'[TheServer])
  BY LooseIs DEF Loose
<1>6. CASE Forgets
  <2>1. Now' = NoItem /\ Loose' = Loose
    BY <1>6 DEF Forgets, Now, Loose
  <2>2. Register!Forget
    BY <1>2, <1>3, <2>1 DEF Register!Forget, Now, Value, Stages, AllPut, Put, Loose
  <2> QED BY <2>2 DEF Register!Next, RegisterStep
<1>7. CASE LateDone
  <2>1. Now' = Now /\ Loose > 0 /\ Loose' = Loose - 1
    BY <1>5, <1>7 DEF LateDone, Now, Value, LooseIf
  <2>2. Register!LoseLoose
    BY <1>2, <1>3, <2>1 DEF Register!LoseLoose, Now, Value, Stages, AllPut, Put, Loose
  <2> QED BY <2>2 DEF Register!Next, RegisterStep
<1>8. CASE LatePut
  <2>1. Value' # NoItem
    BY <1>8, ItemAssumption DEF LatePut
  <2>2. Now' = Callback(Now) /\ Loose > 0 /\ Loose' = Loose - 1
    BY <1>5, <1>8, <2>1 DEF LatePut, Now, LooseIf
  <2>3. Register!ApplyLoose
    BY <1>2, <1>3, <2>2 DEF Register!ApplyLoose, Now, Value, Stages, AllPut, Put, Loose
  <2> QED BY <2>3 DEF Register!Next, RegisterStep
<1> QED BY <1>4, <1>6, <1>7, <1>8

(* The clock changes nothing of the register.                              *)
LEMMA StillMaps ==
    ASSUME UTick \/ UNCHANGED allVars
    PROVE  UNCHANGED Mapping
<1>1. /\ UNCHANGED <<pc, result, log, upd, new, applied, outcome>> /\ Kept
  BY DEF UTick, Tick, allVars, vars, update, history, Kept
<1>2. Stages' = Stages /\ AllPut' = AllPut
  BY <1>1, SameStage DEF Stages, AllPut
<1> QED BY <1>1, <1>2, KeptMaps DEF Mapping

(* The register is empty at first.                                         *)
LEMMA InitMaps ==
    ASSUME Len(Nodes) = 1, UInit
    PROVE  Register!Init
<1>1. TheServer \in Servers
  BY OneServer
<1>2. Value = NoItem /\ late[TheServer] = None /\ outcome = [c \in Clients |-> "none"]
  BY <1>1 DEF UInit, Init, Value
<1>3. Now = NoItem
  BY <1>2 DEF Now
<1>4. Loose = 0
  BY <1>2, LooseIs DEF Loose, LooseIf
<1>5. \A c \in Clients : Stage(c) = "idle" /\ Put(c) = NoItem
  BY DEF UInit, Stage, Put
<1>6. /\ Stages = [c \in Clients |-> "idle"]
      /\ AllPut = [c \in Clients |-> NoItem]
  BY <1>5 DEF Stages, AllPut
<1> QED BY <1>2, <1>3, <1>4, <1>6
        DEF Register!Init, Now, Value, Stages, AllPut, Put, Loose

(* atomic_update with one server is an atomic register: an update that     *)
(* returns has put what the callback made of the value in its place in one *)
(* step, once, and one that throws has done so at most once, or is yet to. *)
(* Every step of run(), of the server and of a late command is a step of   *)
(* the register or of nothing.                                             *)
THEOREM UpdateImplementsRegister == Len(Nodes) = 1 => (USpec => ImplementsRegister)
<1> SUFFICES ASSUME Len(Nodes) = 1 PROVE USpec => ImplementsRegister
  OBVIOUS
<1>1. UInit => Register!Init
  BY InitMaps
<1>2. UpdateInv /\ [UNext]_allVars => [Register!Next]_(Register!vars)
  <2> SUFFICES ASSUME UpdateInv, [UNext]_allVars
               PROVE  Register!Next \/ UNCHANGED Register!vars
    OBVIOUS
  <2>1. ASSUME NEW c \in Clients, Call(c) \/ InUpdate(c) PROVE RegisterStep
    BY <2>1, CallMaps, BegunMaps, EndMaps, RunMaps DEF InUpdate
  <2>2. ServersAct => RegisterStep
    BY ServersMap
  <2>3. (UTick \/ UNCHANGED allVars) => RegisterStep
    BY StillMaps DEF RegisterStep
  <2> QED BY <2>1, <2>2, <2>3, RegisterVars DEF UNext, RegisterStep
<1>3. USpec => []UpdateInv
  BY UpdateInvariant
<1> QED BY <1>1, <1>2, <1>3, PTL DEF USpec, ImplementsRegister, Register!Spec

=============================================================================
