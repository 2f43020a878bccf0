-------------------------- MODULE ServerProxyAudit --------------------------
(***************************************************************************)
(* What the documentation promises of a server proxy over several calls of *)
(* several threads, stated with a history variable beside ServerProxy: it  *)
(* observes its steps and constrains none of them.                         *)
(***************************************************************************)
EXTENDS ServerProxy

VARIABLE
    probed    \* threads that raised restoration since it last ran out

auditVars == <<vars, probed>>

Moves(t, from, to) == pc[t] = from /\ pc'[t] = to

AuditInit ==
    /\ Init
    /\ probed = {}

Observe ==
    probed' = IF ~dead' \/ (restoration > 0 /\ restoration' <= 0)
              THEN {}
              ELSE probed \cup {t \in Threads : Moves(t, "enlarge", "raised")}

AuditNext == Next /\ Observe

AuditSpec == AuditInit /\ [][AuditNext]_auditVars

-----------------------------------------------------------------------------
(* While a dead server stays dead a thread probes it at most once in one   *)
(* restoration interval, whatever the other threads do to the shared       *)
(* restoration time, so long as no thread sleeps through an interval       *)
(* between its clock reading and its store.                                *)
OneProbePerInterval ==
    [][\A t \in Threads : Moves(t, "enlarge", "raised") => t \notin probed]_auditVars

(* The comment on shared_t::lock calls what it guards a critical section:  *)
(* two threads are never inside it.                                        *)
ReconnectExclusion ==
    \A t, u \in Threads : pc[t] \in Critical /\ pc[u] \in Critical => t = u

=============================================================================
