--------------------------- MODULE ClientRunAudit ---------------------------
(* ClientRun with the time since each server was restored, a history       *)
(* variable, for what h404_duration promises.                              *)
EXTENDS ClientRun

VARIABLE revived   \* time since the server was last found alive again,
                   \* Window if that is long ago or never was

Window == H404 - MaxDelay

Revived ==
    [s \in Servers |-> IF dead[s] /\ ~dead'[s] THEN 0 ELSE revived[s]]
Older == [s \in Servers |-> Least(Window, revived[s] + 1)]

AuditInit == Init /\ revived = [s \in Servers |-> Window]

AuditSpec ==
    /\ AuditInit
    /\ [][\/ Step /\ revived' = Revived
          \/ Tick /\ revived' = Older]_<<vars, revived>>

-----------------------------------------------------------------------------
NotFoundByOne(c) ==
    /\ Returns(c, "not_found")
    /\ cmd[c].kind \in Get
    /\ log[c] = <<>>
    /\ pc[c] = "send"

(* For h404_duration after a server was restored, less the time a request  *)
(* may take, its 404 alone never answers a get, whichever client restored  *)
(* it and whatever the others do to the proxy in the meantime.             *)
RestoredServerFallsBack ==
    [][\A c \in Clients :
          NotFoundByOne(c) => revived'[Target(c)] >= Window
      ]_<<vars, revived>>

=============================================================================
