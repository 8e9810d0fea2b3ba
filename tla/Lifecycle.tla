------------------------------ MODULE Lifecycle ------------------------------
(***************************************************************************)
(* The two ways a process runs redimos, and how each is taken down: as the *)
(* TCP server, whose main goroutine drains the connections and stops the   *)
(* workers (Shutdown), or embedded behind an in-memory go-redis client,    *)
(* whose closer severs the connections (InProc).  A process does one of    *)
(* the two; the variables of the other stay as they are.                   *)
(***************************************************************************)
EXTENDS Shutdown, InProc

VARIABLE deployment

lifecycleVars == <<deployment, vars, embeddedVars>>

LifecycleInit == deployment \in {"server", "embedded"} /\ Init /\ EmbeddedInit

LifecycleNext ==
    /\ \/ deployment = "server" /\ Next /\ UNCHANGED embeddedVars
       \/ deployment = "embedded" /\ EmbeddedNext /\ UNCHANGED vars
    /\ UNCHANGED deployment

LifecycleSpec ==
    /\ LifecycleInit /\ [][LifecycleNext]_lifecycleVars
    /\ \/ deployment = "server" /\ Fairness
       \/ deployment = "embedded" /\ EmbeddedFairness

-----------------------------------------------------------------------------
\* Every variable has its type, whichever deployment runs; the deleter's queue is
\* bounded, and only a reader in its loop sleeps on a pipe.
LifecycleTypeOK == deployment \in {"server", "embedded"} /\ TypeOK /\ EmbeddedTypeOK
=============================================================================
