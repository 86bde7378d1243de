------------------------------ MODULE MCMemoria ------------------------------
(* Small instances of Memoria for TLC.                                      *)
EXTENDS Memoria, TLC

(* One process of two pages and the others of one: in MemoriaPedidos there  *)
(* is a frame left for a second INIT_PROC of the small one.                 *)
TamanioUno == [p \in Procs |-> 1]
CONSTANT Grande
TamanioMixto == [p \in Procs |-> IF p = Grande THEN 2 ELSE 1]
=============================================================================
