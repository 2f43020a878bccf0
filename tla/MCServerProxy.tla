--------------------------- MODULE MCServerProxy ---------------------------
(* An instance of ServerProxy: ipc::client has one thread per process.     *)
EXTENDS ServerProxy

ProcPerThread == [t \in Threads |-> t]

=============================================================================
