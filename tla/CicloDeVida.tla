------------------------------ MODULE CicloDeVida ------------------------------
(***************************************************************************)
(* What the kernel promises about the states of its processes, whatever    *)
(* threads, queues, locks, timers and interrupts move them: one process at *)
(* a time moves, along the seven-state diagram.  A process that is swapped *)
(* out never runs before it has come back through READY, and one that ends *)
(* does so once.                                                           *)
(***************************************************************************)
CONSTANT Procs      \* pids
VARIABLE estado     \* of each process

(* Where a process may go from each state.                                  *)
Siguientes(e) ==
    CASE e = "NO_CREADO" -> {"NEW"}
      [] e = "NEW" -> {"READY"}
      [] e = "READY" -> {"EXECUTE"}
      [] e = "EXECUTE" -> {"READY", "BLOCKED", "EXIT"}
      [] e = "BLOCKED" -> {"READY", "BLOCKED_SUSPENDED", "EXIT"}
      [] e = "BLOCKED_SUSPENDED" -> {"READY_SUSPENDED", "EXIT"}
      [] e = "READY_SUSPENDED" -> {"READY"}
      [] e = "EXIT" -> {"ELIMINADO"}
      [] OTHER -> {}

Init == estado \in [Procs -> {"NO_CREADO", "NEW"}]

Mover(p) == \E e \in Siguientes(estado[p]) : estado' = [estado EXCEPT ![p] = e]

Next == \E p \in Procs : Mover(p)

Spec == Init /\ [][Next]_estado
=============================================================================
