------------------------------- MODULE MCLocks -------------------------------
(* The instance TLC checks of the system's two locks, the run lock of the  *)
(* server's handlers and the lock file of the Catho collector.  They share *)
(* nothing; each machine is explored on its own, in one run.               *)
EXTENDS ServerRuns, CathoLock
CONSTANTS h1, h2, stale, missed, impact, \* handlers; conditions alerts are about
          c1, c2                         \* collector processes

VARIABLE machine
MCInit == machine \in {"server", "collector"} /\ ServerInit /\ Init
MCNext == /\ UNCHANGED machine
          /\ \/ machine = "server"    /\ ServerNext /\ UNCHANGED vars
             \/ machine = "collector" /\ Next       /\ UNCHANGED serverVars
\* The fairness of each, while it is the one explored.
MCFairness ==
  /\ \A j \in Jobs : WF_serverVars(machine = "server" /\ Progress(j))
  /\ SF_serverVars(machine = "server" /\ \E j \in Jobs : Tick(j, "collect"))
  /\ WF_vars(machine = "collector" /\ LockGoesStale) /\ WF_vars(machine = "collector" /\ MutexGoesStale)
  /\ \A p \in Procs : WF_vars(/\ machine = "collector"
                              /\ Acquire(p) \/ Refresh(p) \/ Release(p) \/ DropMutex(p))
MCSpec == MCInit /\ [][MCNext]_<<serverVars, vars, machine>> /\ MCFairness
=============================================================================
