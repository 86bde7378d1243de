------------------------------- MODULE MCCpu -------------------------------
(* Small instances of Cpu for TLC.                                          *)
EXTENDS Cpu, TLC
CONSTANTS Grande, PaginasGrande
TamanioCpu == [p \in Procs |-> IF p = Grande THEN PaginasGrande ELSE 1]
ValorCpu == Pagina
PaginaCero == PaginaNula

(* Every text starts its page.                                              *)
CONSTANT a
Escribe(i, d, n) == [pagina |-> i, desde |-> d, texto |-> [k \in 1..n |-> a]]
DesdeElPrincipio ==
    [p \in Procs |-> IF p = Grande THEN { Escribe(1, 0, 1), Escribe(2, 0, 1) }
                                   ELSE { Escribe(1, 0, 1), Escribe(1, 0, 2) }]

(* A text that does not.                                                    *)
EnElMedio == [p \in Procs |-> { Escribe(1, 0, 1), Escribe(1, 1, 1) }]

Configuracion(t, at, c, ac) ==
    [entradasTlb |-> t, reemplazoTlb |-> at, entradasCache |-> c, reemplazoCache |-> ac]
Clock == { Configuracion(0, "FIFO", 2, "CLOCK") }
ClockM == { Configuracion(0, "FIFO", 2, "CLOCK-M") }
SoloTlb == { Configuracion(2, "LRU", 0, "CLOCK"), Configuracion(2, "FIFO", 0, "CLOCK") }
Ambas == { Configuracion(1, "FIFO", 1, "CLOCK") }
Todas == Clock \cup ClockM \cup SoloTlb \cup Ambas

-----------------------------------------------------------------------------
(* The loops of elegir_victima_cache as the code runs them, one turn of the *)
(* hand at a time.                                                          *)
Apunta(c) == c.entradas[c.puntero]
Gira(c) == [c EXCEPT !.puntero = Avanzar(@, Len(c.entradas))]
SinUso(c) == [c EXCEPT !.entradas[c.puntero].uso = FALSE]
Elige(c) == [victima |-> c.puntero, cache |-> Gira(c)]

RECURSIVE BucleClock(_)
BucleClock(c) == IF ~Apunta(c).uso THEN Elige(c) ELSE BucleClock(Gira(SinUso(c)))

RECURSIVE Pasada(_, _, _)
Pasada(c, modificadas, i) ==
    CASE i > Len(c.entradas) -> Pasada(c, ~modificadas, 1)
      [] i <= Len(c.entradas) /\ ~Apunta(c).uso /\ Apunta(c).modificado = modificadas -> Elige(c)
      [] OTHER -> Pasada(Gira(IF modificadas THEN SinUso(c) ELSE c), modificadas, i + 1)

BucleClockM(c) == Pasada(c, FALSE, 1)

(* In every full cache of up to three entries the loops and the definitions *)
(* of Reemplazo choose the same victim and leave the same bits and hand.    *)
CachesDe(n) == [entradas : [1..n -> [uso : BOOLEAN, modificado : BOOLEAN]], puntero : 1..n]

VictimaComoElBucle ==
    cargados = {} =>
      \A algoritmo \in {"CLOCK", "CLOCK-M"} : \A c \in UNION { CachesDe(n) : n \in 1..3 } :
        [victima |-> VictimaCache(c, algoritmo), cache |-> TrasElegir(c, algoritmo)]
          = IF algoritmo = "CLOCK" THEN BucleClock(c) ELSE BucleClockM(c)
-----------------------------------------------------------------------------
Tablas == INSTANCE TablasDePaginas

(* The trees of up to ten pages, with one to three entries in a table and   *)
(* one to three levels: with most of them the pages need several tables of  *)
(* a level, and with the smallest not all of them fit.                      *)
ArbolesHastaDiez ==
    \A e, n \in 1..3 : \A k \in 0..10 : Tablas!ArbolComoTabla(e, n, [i \in 1..k |-> i])

(* Whenever Memoria builds a page table, the tree of lists it makes of the  *)
(* frames, with two levels of two entries, is the flat table of the model:  *)
(* page by page as the MMU asks for it, and as a list.  The third page of   *)
(* the large process is in the second table of its level.                   *)
ArbolAlDia(p, marcos) ==
    LET raiz == Tablas!Arbol(2, 2, marcos)
    IN /\ tabla'[p] = Tablas!Aplanar(2, raiz, 1)
       /\ \A i \in DOMAIN tabla'[p] :
            tabla'[p][i] = Tablas!Buscar(raiz, Tablas!EntradasPorNivel(2, 2, i - 1))

TablasPorNiveles ==
    [][\A p \in Procs :
         tabla'[p] \notin {<<>>, tabla[p]} =>
           /\ \E marcos \in MarcosParaProceso(bitmap, Tamanio[p]) : ArbolAlDia(p, marcos)
           /\ cargados = {} => ArbolesHastaDiez]_todas
=============================================================================
