----------------------------- MODULE MemoriaPlana -----------------------------
(***************************************************************************)
(* What a process is promised about its memory, whatever stands between it *)
(* and its bytes (cache, TLB, page tables, frames, swap): a READ gives     *)
(* what the process last wrote there.  A byte never written is Nulo.       *)
(* The promise is made to a process until something breaks it for good.    *)
(***************************************************************************)
EXTENDS Integers, Sequences

CONSTANTS
    Procs,      \* pids
    Tamanio,    \* pages each process asks for
    Letra,      \* what a process can write in a byte
    Nulo,       \* the byte 0
    TamPagina   \* TAM_PAGINA, in bytes

VARIABLES
    texto,      \* what each process would read in each page
    rotos       \* processes the promise is no longer made to

Posicion == 0..(TamPagina - 1)
Pagina == [Posicion -> Letra \cup {Nulo}]
PaginaNula == [k \in Posicion |-> Nulo]

(* A page once the letters of t are written from position d on.             *)
Encima(pagina, d, t) ==
    [k \in Posicion |-> IF k \in d..(d + Len(t) - 1) THEN t[k - d + 1] ELSE pagina[k]]

Init ==
    /\ texto = [p \in Procs |-> <<>>]
    /\ rotos = {}

Cargar(p) ==
    /\ texto[p] = <<>>
    /\ \E n \in 0..Tamanio[p] : texto'[p] = [i \in 1..n |-> PaginaNula]

Escribir(p) ==
    \E i \in DOMAIN texto[p], d \in Posicion :
      \E t \in UNION { [1..n -> Letra] : n \in 1..(TamPagina - d) } :
         texto'[p] = [texto[p] EXCEPT ![i] = Encima(@, d, t)]

Terminar(p) == texto'[p] = <<>>

(* Processes are isolated: what happens to the memory of one is one of its  *)
(* own steps, or nothing, whatever the others and the system do.            *)
Next ==
    /\ rotos \subseteq rotos'
    /\ \A p \in Procs \ rotos' :
          texto'[p] = texto[p] \/ Cargar(p) \/ Escribir(p) \/ Terminar(p)

Spec == Init /\ [][Next]_<<texto, rotos>>
=============================================================================
