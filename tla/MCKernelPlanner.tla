--------------------------- MODULE MCKernelPlanner ---------------------------
(* Small instances of KernelPlanner: what the processes run, and the sizes. *)
EXTENDS KernelPlanner, TLC

CONSTANTS p1, p2, p3, c1, c2, io1, io2

UnaCpu == <<c1>>
DosCpus == <<c1, c2>>

(* With two frames: two of the processes fit at once, or only p2 and p3,    *)
(* which go before p1 in the queues of PMCP.                                *)
TamanioIgual == [p \in Procs |-> 1]
TamanioMixto == [p \in Procs |-> IF p = p1 THEN 2 ELSE 1]

Crea(q) == [op |-> "INIT_PROC", pid |-> q]
Llama(op) == [op |-> op, pid |-> p1]

(* p1 creates the others before it does anything else.                      *)
Creacion == <<Crea(p2), Crea(p3)>>
Con(s1, s2, s3) ==
    [p \in Procs |-> CASE p = p1 -> Creacion \o s1 [] p = p2 -> s2 [] OTHER -> s3]

Bloqueos == { <<>>, <<Llama("IO")>> }
ConIO ==
    { Con(s1, s2, s3) : s1 \in Bloqueos, s2 \in Bloqueos, s3 \in Bloqueos }
ConDump ==
    { Con(<<Llama("IO")>>, s2, <<>>) : s2 \in { <<Llama("DUMP"), Llama("IO")>>, <<Llama("DUMP_FALLA")>> } }
ConUnaFalla ==
    (ConIO \ { Con(<<Llama("IO")>>, <<Llama("IO")>>, <<Llama("IO")>>) }) \cup
    { Con(<<Llama("IO_FALLA")>>, s2, s3) : s2 \in Bloqueos, s3 \in Bloqueos }
=============================================================================
