--------------------------- MODULE AtomicRegister ---------------------------
(***************************************************************************)
(* What atomic_update promises: the value is replaced by what the callback *)
(* makes of it in one step, once for an update that succeeds and at most   *)
(* once for one that throws.  A cache forgets, at any time; an update that *)
(* failed with the server out of reach may take effect later.              *)
(***************************************************************************)
EXTENDS Naturals

CONSTANTS
    Clients,
    Nothing,      \* there is no value
    Callback(_),  \* what an update makes of a value, or of nothing
    MaxLoose      \* bound: failed updates that may yet take effect

VARIABLES
    value,   \* the value of the key
    stage,   \* how far the update of a client is
    put,     \* what it made of the value
    told,    \* how the last update of a client ended, or "none"
    loose    \* number of failed updates that may yet take effect

vars == <<value, stage, put, told, loose>>

Init ==
    /\ value = Nothing
    /\ stage = [c \in Clients |-> "idle"]
    /\ put = [c \in Clients |-> Nothing]
    /\ told = [c \in Clients |-> "none"]
    /\ loose = 0

Call(c) ==
    /\ stage[c] = "idle"
    /\ stage' = [stage EXCEPT ![c] = "pending"]
    /\ told' = [told EXCEPT ![c] = "none"]
    /\ UNCHANGED <<value, put, loose>>

Apply(c) ==
    /\ stage[c] = "pending"
    /\ stage' = [stage EXCEPT ![c] = "applied"]
    /\ value' = Callback(value)
    /\ put' = [put EXCEPT ![c] = value']
    /\ UNCHANGED <<told, loose>>

GiveUp(c) ==
    /\ stage[c] = "pending"
    /\ stage' = [stage EXCEPT ![c] = "failed"]
    /\ loose' \in {loose, loose + 1}
    /\ loose' <= MaxLoose
    /\ UNCHANGED <<value, put, told>>

Succeed(c) ==
    /\ stage[c] = "applied"
    /\ stage' = [stage EXCEPT ![c] = "idle"]
    /\ told' = [told EXCEPT ![c] = "returned"]
    /\ put' = [put EXCEPT ![c] = Nothing]
    /\ UNCHANGED <<value, loose>>

(* An update that was applied may look failed to its caller.               *)
Fail(c) ==
    /\ stage[c] # "idle"
    /\ stage' = [stage EXCEPT ![c] = "idle"]
    /\ told' = [told EXCEPT ![c] = "thrown"]
    /\ put' = [put EXCEPT ![c] = Nothing]
    /\ UNCHANGED <<value, loose>>

ApplyLoose ==
    /\ loose > 0
    /\ loose' = loose - 1
    /\ value' = Callback(value)
    /\ UNCHANGED <<stage, put, told>>

LoseLoose ==
    /\ loose > 0
    /\ loose' = loose - 1
    /\ UNCHANGED <<value, stage, put, told>>

Forget ==
    /\ value' = Nothing
    /\ UNCHANGED <<stage, put, told, loose>>

Next ==
    \/ \E c \in Clients : \/ Call(c)
                          \/ Apply(c)
                          \/ GiveUp(c)
                          \/ Succeed(c)
                          \/ Fail(c)
    \/ ApplyLoose
    \/ LoseLoose
    \/ Forget

Spec == Init /\ [][Next]_vars

=============================================================================
