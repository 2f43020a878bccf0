---------------------------- MODULE AtomicUpdate ----------------------------
(***************************************************************************)
(* atomic_update (client.h): gets the item, calls the callback and gives   *)
(* the outcome to cas, or to add if there was no item, and does so again   *)
(* as long as another one was faster.  Every command goes through run() of *)
(* module ClientRun, with everything that can happen to it there.          *)
(*                                                                         *)
(* A server never gives a cas identifier twice while somebody remembers    *)
(* the first: memcached counts them in 64 bits.                            *)
(***************************************************************************)
EXTENDS ClientRun

CONSTANTS
    Callback(_),  \* what the callback makes of the data, or of NoItem
    Iters         \* opts_t::iters

ASSUME IterAssumption == Iters \in Nat \ {0} /\ Tokens \subseteq Nat

ASSUME CallbackAssumption == \A d \in Data \cup {NoItem} : Callback(d) \in Data

(* What atomic_update gives to run().                                      *)
UpdateCommands ==
    {[kind |-> "gets"]}
    \cup {[kind |-> "add", data |-> d] : d \in Data}
    \cup {[kind |-> "cas", data |-> d, cas |-> k] : d \in Data, k \in Tokens}

ASSUME UpdateAssumption == UpdateCommands \subseteq Commands

VARIABLES
    upd,      \* the command atomic_update is at
    iters,    \* iterations left
    new,      \* new_data
    outcome,  \* how the last one ended: "returned", "thrown", or "none"
    source,   \* history: server whose cas identifier the client has
    applied,  \* history: has the update changed the item
    changes   \* history: changes of items since the update was called

history == <<source, applied, changes>>
update  == <<upd, iters, new, outcome>>
allVars == <<vars, update, history>>

UInit ==
    /\ Init
    /\ upd = [c \in Clients |-> "none"]
    /\ iters = [c \in Clients |-> 0]
    /\ new = [c \in Clients |-> NoItem]
    /\ outcome = [c \in Clients |-> "none"]
    /\ source = [c \in Clients |-> None]
    /\ applied = [c \in Clients |-> FALSE]
    /\ changes = [c \in Clients |-> 0]

-----------------------------------------------------------------------------
Gets(c) == Start(c, [kind |-> "gets"])

(* What the methods of the client make of the responses to cas and add.    *)
Positive(c) == result[c].code \in {"ok", "stored"}
Negative(c) ==
    \/ upd[c] = "cas" /\ result[c].code = "not_found"
    \/ upd[c] = "add" /\ result[c].code \in {"exists", "not_stored"}
(* cas throws for exists, and atomic_update catches that one.              *)
Caught(c) == upd[c] = "cas" /\ result[c].code = "exists"

Back(c) == pc[c] = "idle" /\ result[c] # None

Return(c, end) ==
    /\ upd' = [upd EXCEPT ![c] = "none"]
    /\ outcome' = [outcome EXCEPT ![c] = end]
    /\ result' = [result EXCEPT ![c] = None]
    /\ iters' = [iters EXCEPT ![c] = 0]
    /\ new' = [new EXCEPT ![c] = NoItem]
    /\ source' = [source EXCEPT ![c] = None]
    /\ applied' = [applied EXCEPT ![c] = FALSE]
    /\ changes' = [changes EXCEPT ![c] = 0]
    /\ UNCHANGED <<proxies, servers, pc, cmd, loop, age, log>>

(* Fault: while (--iters), one iteration too few.                          *)
CallOneLess(c) ==
    /\ upd[c] = "none"
    /\ Gets(c)
    /\ upd' = [upd EXCEPT ![c] = "gets"]
    /\ iters' = [iters EXCEPT ![c] = Iters - 1]
    /\ outcome' = [outcome EXCEPT ![c] = "none"]
    /\ UNCHANGED <<new, history>>

Call(c) ==
    /\ upd[c] = "none"
    /\ Gets(c)
    /\ upd' = [upd EXCEPT ![c] = "gets"]
    /\ iters' = [iters EXCEPT ![c] = Iters]
    /\ outcome' = [outcome EXCEPT ![c] = "none"]
    /\ UNCHANGED <<new, history>>

(* Fault: the cas identifier is not put in the options.                    *)
SwapBlind(c) ==
    /\ upd[c] = "gets"
    /\ Back(c)
    /\ result[c].code = "ok"
    /\ new' = [new EXCEPT ![c] = Callback(result[c].item.data)]
    /\ Start(c, [kind |-> "set", data |-> new'[c]])
    /\ upd' = [upd EXCEPT ![c] = "cas"]
    /\ UNCHANGED <<iters, outcome, history>>

(* gets found the item: compare and swap.                                  *)
Swap(c) ==
    /\ upd[c] = "gets"
    /\ Back(c)
    /\ result[c].code = "ok"
    /\ LET got == result[c].item IN
       /\ new' = [new EXCEPT ![c] = Callback(got.data)]
       /\ Start(c, [kind |-> "cas", data |-> new'[c], cas |-> got.cas])
    /\ upd' = [upd EXCEPT ![c] = "cas"]
    /\ UNCHANGED <<iters, outcome, history>>

(* gets found nothing: add.                                                *)
AddNew(c) ==
    /\ upd[c] = "gets"
    /\ Back(c)
    /\ result[c].code = "not_found"
    /\ new' = [new EXCEPT ![c] = Callback(NoItem)]
    /\ Start(c, [kind |-> "add", data |-> new'[c]])
    /\ upd' = [upd EXCEPT ![c] = "add"]
    /\ UNCHANGED <<iters, outcome, history>>

Succeed(c) ==
    /\ upd[c] \in {"cas", "add"}
    /\ Back(c)
    /\ Positive(c)
    /\ Return(c, "returned")

(* Another client was faster: once more, if there is an iteration left.    *)
Beaten(c) ==
    /\ upd[c] \in {"cas", "add"}
    /\ Back(c)
    /\ Negative(c) \/ Caught(c)

Again(c) ==
    /\ Beaten(c)
    /\ iters[c] > 1
    /\ iters' = [iters EXCEPT ![c] = @ - 1]
    /\ Gets(c)
    /\ upd' = [upd EXCEPT ![c] = "gets"]
    /\ new' = [new EXCEPT ![c] = NoItem]
    /\ source' = [source EXCEPT ![c] = None]
    /\ UNCHANGED <<outcome, applied, changes>>

Unable(c) ==
    /\ Beaten(c)
    /\ iters[c] = 1
    /\ Return(c, "thrown")

(* Any other response is an exception out of gets, cas or add.             *)
Throw(c) ==
    /\ upd[c] # "none"
    /\ Back(c)
    /\ IF upd[c] = "gets" THEN result[c].code \notin {"ok", "not_found"}
                          ELSE ~(Positive(c) \/ Negative(c) \/ Caught(c))
    /\ Return(c, "thrown")

-----------------------------------------------------------------------------
Remembered(s) ==
    {item[r].cas : r \in {q \in {s} : item[q] # NoItem}}
    \cup {result[c].item.cas :
            c \in {d \in Clients : /\ source[d] = s
                                   /\ result[d] # None
                                   /\ result[d].item # NoItem}}
    \cup {cmd[c].cas :
            c \in {d \in Clients : /\ source[d] = s
                                   /\ cmd[d] # None
                                   /\ cmd[d].kind = "cas"}}
    \cup {late[r].cas :
            r \in {q \in Servers : late[q] # None /\ late[q].kind = "cas"}}

(* The identifiers of one server are only compared for equality, so the    *)
(* least will do; those of two servers may be equal or not.                *)
Fresh(s) ==
    LET free == Tokens \ Remembered(s)
    IN  {k \in free : Len(Nodes) = 1 => \A j \in free : k <= j}

CountChanges ==
    changes' = [c \in Clients |->
                  IF upd[c] # "none" /\ item' # item THEN Least(Iters, changes[c] + 1)
                                                   ELSE changes[c]]

Run(c) ==
    /\ RunStep(c, Fresh)
    /\ source' = [source EXCEPT ![c] =
                    IF pc[c] = "send" /\ upd[c] = "gets" THEN Target(c) ELSE @]
    /\ applied' = [applied EXCEPT ![c] = @ \/ item' # item]
    /\ CountChanges
    /\ UNCHANGED update

ServersAct ==
    /\ \E s \in Servers : ServerStep(s, Fresh)
    /\ CountChanges
    /\ UNCHANGED <<update, source, applied>>

UTick == Tick /\ UNCHANGED <<update, history>>

InUpdate(c) ==
    \/ Swap(c)
    \/ AddNew(c)
    \/ Succeed(c)
    \/ Again(c)
    \/ Unable(c)
    \/ Throw(c)
    \/ Run(c)

UNext ==
    \/ \E c \in Clients : Call(c) \/ InUpdate(c)
    \/ ServersAct
    \/ UTick

USpec == UInit /\ [][UNext]_allVars

-----------------------------------------------------------------------------
(* An iteration is lost only to a change of the item by somebody else, or  *)
(* to its loss, between gets and the answer to cas or add: unable_cas      *)
(* means contention.                                                       *)
NoIterationInVain ==
    \A c \in Clients : upd[c] # "none" => Iters - iters[c] <= changes[c]

-----------------------------------------------------------------------------
(* With a single server this is an atomic register.                        *)
TheServer == 0

Unreachable(c) ==
    \/ \E i \in DOMAIN log[c] : log[c][i][2] = "no_answer"
    \/ Back(c) /\ result[c].code = "out_of_servers"

Stage(c) ==
    IF upd[c] = "none" THEN "idle"
    ELSE IF applied[c] THEN "applied"
    ELSE IF Unreachable(c) THEN "failed" ELSE "pending"

Register == INSTANCE AtomicRegister WITH
    Nothing <- NoItem,
    MaxLoose <- MaxLate,
    value <- IF item[TheServer] = NoItem THEN NoItem ELSE item[TheServer].data,
    stage <- [c \in Clients |-> Stage(c)],
    put <- [c \in Clients |-> IF applied[c] THEN new[c] ELSE NoItem],
    told <- outcome,
    loose <- Cardinality({s \in Servers : late[s] # None})

(* atomic_update implements it, whatever fails.                            *)
ImplementsRegister == Register!Spec

=============================================================================
