----------------------------- MODULE MCKernelIO -----------------------------
(* Small instances of KernelIO: all the connections are instances of one    *)
(* device, or one of them of another; every process uses the first.         *)
EXTENDS KernelIO, TLC

CONSTANTS Otra, Disco, Impresora

NombreComun == [x \in Conexiones |-> IF x = Otra THEN Impresora ELSE Disco]
UsanDisco == [p \in Procs |-> Disco]

Simetria == Permutations(Procs)
=============================================================================
