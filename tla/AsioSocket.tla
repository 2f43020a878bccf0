----------------------------- MODULE AsioSocket -----------------------------
(***************************************************************************)
(* The socket, the timer and the io_context of one connection, which the   *)
(* tcp and the udp connection of src/io/connection.cc have alike.          *)
(*                                                                         *)
(* An operation sets the deadline, starts an asynchronous call and runs    *)
(* handlers until the one of the call has run.  Nobody runs handlers       *)
(* between operations.  There are two of them: the call's, which op        *)
(* describes, and the deadline's, which waits in the timer queue (waits)   *)
(* or is ready to run (fired).  Which of two ready handlers runs first is  *)
(* left open.                                                              *)
(***************************************************************************)
EXTENDS Integers

VARIABLES
    alive,      \* has the connection been made and not dropped
    open,       \* is the socket open
    left,       \* time left until the deadline, or Infinite
    timeouted,  \* has the deadline closed the socket in this operation
    waits,      \* deadline handlers in the timer queue
    fired,      \* deadline handlers that are ready to run
    op,         \* the asynchronous call, and its handler
    passed      \* history: did the last deadline pass

socket   == <<alive, open>>
deadline == <<left, timeouted, waits, fired, passed>>
sock     == <<socket, deadline, op>>

Infinite == -1

SockInit ==
    /\ alive = FALSE
    /\ open = FALSE
    /\ left = Infinite
    /\ timeouted = FALSE
    /\ waits = 0
    /\ fired = 0
    /\ op = "none"
    /\ passed = FALSE

-----------------------------------------------------------------------------
(* Fault: the flag keeps what an earlier operation left in it.             *)
SetDeadlineOnly(timeout) ==
    /\ UNCHANGED timeouted
    /\ left' = timeout
    /\ fired' = fired + waits
    /\ waits' = 0
    /\ passed' = (timeout = 0)

(* expires_from_now cancels the wait: its handler is ready, and runs as if *)
(* the time were up, since it does not look at its error code.             *)
SetDeadline(timeout) ==
    /\ timeouted' = FALSE
    /\ left' = timeout
    /\ fired' = fired + waits
    /\ waits' = 0
    /\ passed' = (timeout = 0)

(* An asynchronous call on a closed socket fails at once, by its handler.  *)
StartCall == op' = IF open THEN "pending" ELSE "failed"

(* The constructor up to its run_one(): handle_deadline() starts the first *)
(* wait, which set_deadline() cancels.                                     *)
Connect(timeout) ==
    /\ ~alive
    /\ alive' = TRUE
    /\ open' = TRUE
    /\ timeouted' = FALSE
    /\ left' = timeout
    /\ fired' = 1
    /\ waits' = 0
    /\ passed' = (timeout = 0)
    /\ op' = "pending"

(* An operation up to its run_one().                                       *)
Begin(timeout) ==
    /\ alive
    /\ op = "none"
    /\ SetDeadline(timeout)
    /\ StartCall
    /\ UNCHANGED socket

(* One that finds what it is to read in the input buffer.                  *)
BeginWithInput(timeout) ==
    /\ alive
    /\ op = "none"
    /\ SetDeadline(timeout)
    /\ op' = "done"
    /\ UNCHANGED socket

(* The last pointer to the connection goes away.                           *)
Destroy ==
    /\ alive
    /\ alive' = FALSE
    /\ open' = FALSE
    /\ left' = Infinite
    /\ timeouted' = FALSE
    /\ waits' = 0
    /\ fired' = 0
    /\ op' = "none"
    /\ UNCHANGED passed

-----------------------------------------------------------------------------
(* The handlers, run by run_one() of an operation.                         *)

Running == op # "none"

(* Fault: a deadline that has passed needs no further wait.                *)
HandleDeadlineLast ==
    /\ Running
    /\ fired > 0
    /\ IF left = 0
       THEN /\ open' = FALSE
            /\ op' = IF op = "pending" THEN "failed" ELSE op
            /\ left' = Infinite
            /\ timeouted' = TRUE
            /\ fired' = fired - 1 + waits
            /\ waits' = 0
       ELSE /\ fired' = fired - 1
            /\ waits' = waits + 1
            /\ UNCHANGED <<open, op, left, timeouted>>
    /\ UNCHANGED <<alive, passed>>

(* Fault: the socket is left open.                                         *)
HandleDeadlineOpen ==
    /\ Running
    /\ fired > 0
    /\ IF left = 0
       THEN /\ left' = Infinite
            /\ timeouted' = TRUE
            /\ fired' = fired - 1 + waits
            /\ waits' = 1
       ELSE /\ fired' = fired - 1
            /\ waits' = waits + 1
            /\ UNCHANGED <<left, timeouted>>
    /\ UNCHANGED <<socket, op, passed>>

(* Closing the socket fails the call unless its handler is ready already;  *)
(* expires_at cancels waits, and one is started in any case.               *)
HandleDeadline ==
    /\ Running
    /\ fired > 0
    /\ IF left = 0
       THEN /\ open' = FALSE
            /\ op' = IF op = "pending" THEN "failed" ELSE op
            /\ left' = Infinite
            /\ timeouted' = TRUE
            /\ fired' = fired - 1 + waits
            /\ waits' = 1
       ELSE /\ fired' = fired - 1
            /\ waits' = waits + 1
            /\ UNCHANGED <<open, op, left, timeouted>>
    /\ UNCHANGED <<alive, passed>>

(* Some bytes were moved, not all: the composed call goes on.              *)
GoOn ==
    /\ op = "partial"
    /\ StartCall
    /\ UNCHANGED <<socket, deadline>>

(* The handler of the call ends the operation.                             *)
End ==
    /\ op = "done"
    /\ op' = "none"
    /\ UNCHANGED <<socket, deadline>>

(* The error that is thrown; the connection is dropped for it.             *)
Kind == IF timeouted THEN "timeout" ELSE "io_error"

-----------------------------------------------------------------------------
(* What makes handlers ready.                                              *)

(* The timer queue is looked at while handlers are run.                    *)
DeadlinePasses ==
    /\ Running
    /\ left = 0
    /\ waits > 0
    /\ waits' = waits - 1
    /\ fired' = fired + 1
    /\ UNCHANGED <<socket, left, timeouted, passed, op>>

CallBecomes(how) ==
    /\ op = "pending"
    /\ op' = how
    /\ UNCHANGED <<socket, deadline>>

Tick ==
    /\ left > 0
    /\ left' = left - 1
    /\ passed' = (left = 1)
    /\ UNCHANGED <<socket, timeouted, waits, fired, op>>

-----------------------------------------------------------------------------
(* The socket under whatever uses it.                                      *)
SockNext ==
    \/ \E timeout \in Nat : \/ Connect(timeout)
                            \/ Begin(timeout)
                            \/ BeginWithInput(timeout)
    \/ Destroy
    \/ HandleDeadline
    \/ GoOn
    \/ End
    \/ DeadlinePasses
    \/ \E how \in {"partial", "done", "failed"} : CallBecomes(how)
    \/ Tick

SockSpec == SockInit /\ [][SockNext]_sock

-----------------------------------------------------------------------------
SockTypeOK ==
    /\ alive \in BOOLEAN
    /\ open \in BOOLEAN
    /\ left \in Nat \cup {Infinite}
    /\ timeouted \in BOOLEAN
    /\ waits \in Nat
    /\ fired \in Nat
    /\ op \in {"none", "pending", "partial", "done", "failed"}
    /\ passed \in BOOLEAN

(* However cancelled waits, expired ones and calls that win against them   *)
(* follow each other, a living connection has exactly one deadline         *)
(* handler: with none run_one() has nothing to run for a silent server,    *)
(* and each one too many closes a socket that has a deadline ahead.        *)
OneWait == waits + fired = IF alive THEN 1 ELSE 0

(* A call is called timed out only if the deadline of this very operation  *)
(* has passed, not one of an operation before that succeeded all the same. *)
TimeoutMeansDeadline == timeouted => passed

(* No call is pending on a socket that was closed under it: it would have  *)
(* no deadline, and an operation would never end.                          *)
PendingHasDeadline == op = "pending" => open /\ left # Infinite

=============================================================================
