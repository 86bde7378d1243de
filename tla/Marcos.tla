------------------------------- MODULE Marcos -------------------------------
(***************************************************************************)
(* How Memoria picks the frames of a process: the bitmap of frames and the *)
(* first-fit search over it (memoria-user-spaces.c).  The bitmap is the    *)
(* set of the frames whose bit is 1.                                       *)
(***************************************************************************)
EXTENDS Integers

CONSTANT CantMarcos      \* quantity_frames = TAM_MEMORIA / TAM_PAGINA

ASSUME CantMarcosAssumption == CantMarcos \in Nat

Marco == 0..(CantMarcos - 1)

Libres(bitmap) == Marco \ bitmap

(* The lists of n frames is_memory_sufficient can return: the n free frames *)
(* of lowest index, in ascending order.  There is one such list when at     *)
(* least n frames are free, and none otherwise, which is the NULL answer.   *)
MarcosParaProceso(bitmap, n) ==
    { lista \in [1..n -> Libres(bitmap)] :
        /\ \A i, j \in 1..n : i < j => lista[i] < lista[j]
        /\ \A i \in 1..n : \A m \in Libres(bitmap) :
              m < lista[i] => \E j \in 1..n : lista[j] = m }

HayMemoria(bitmap, n) == MarcosParaProceso(bitmap, n) # {}

MarcosDe(lista) == { lista[i] : i \in DOMAIN lista }
=============================================================================
