------------------------------- MODULE Reemplazo -------------------------------
(***************************************************************************)
(* The two small memories of a CPU, the TLB and the page cache, and how    *)
(* each one picks the entry it gives up: FIFO and LRU (cpu-tlb.c), CLOCK   *)
(* and CLOCK-M (cpu-cache.c).                                              *)
(*                                                                         *)
(* Both are [entradas, puntero].  Entries are taken in order and none      *)
(* becomes free while the process is on the CPU, so entradas is the        *)
(* sequence of the ones in use and the first free one comes right after.   *)
(* puntero is puntero_fifo or puntero_clock, counted from 1.  A timestamp  *)
(* only matters for its order: rango is its position among the others.     *)
(***************************************************************************)
EXTENDS Integers, Sequences

(* t_entrada_tlb and t_entrada_cache, n of them at most.                    *)
EntradaTlb(marcos) == [pagina : Nat, marco : marcos, rango : Nat]
EntradaCache(paginas) ==
    [pagina : Nat, contenido : paginas, uso : BOOLEAN, modificado : BOOLEAN]

Puntero(n) == 1..(IF n = 0 THEN 1 ELSE n)

Tlbs(n, marcos) ==
    { t \in [entradas : Seq(EntradaTlb(marcos)), puntero : Puntero(n)] : Len(t.entradas) <= n }
Caches(n, paginas) ==
    { c \in [entradas : Seq(EntradaCache(paginas)), puntero : Puntero(n)] : Len(c.entradas) <= n }

(* inicializar_tlb and inicializar_cache.                                   *)
Vacia == [entradas |-> <<>>, puntero |-> 1]

Llena(m, n) == Len(m.entradas) = n

EntradasConMenosUna(m, pagina) ==
    { e \in DOMAIN m.entradas : e < Len(m.entradas) /\ m.entradas[e].pagina = pagina }
EntradasCon(m, pagina) == { e \in DOMAIN m.entradas : m.entradas[e].pagina = pagina }

Esta(m, pagina) == EntradasCon(m, pagina) # {}

(* The loops of buscar_frame_tlb and buscar_pagina_cache stop at the first. *)
EntradaDe(m, pagina) ==
    CHOOSE e \in EntradasCon(m, pagina) : \A f \in EntradasCon(m, pagina) : e <= f

(* aumentar_puntero_clock, and the same step of puntero_fifo.               *)
AvanzarSinVuelta(puntero, n) == puntero + 1
Avanzar(puntero, n) == (puntero % n) + 1
-----------------------------------------------------------------------------
(* actualizar_timestamp.                                                    *)
Rejuvenecer(entradas, e) ==
    [j \in DOMAIN entradas |->
        [entradas[j] EXCEPT !.rango =
            IF j = e THEN Len(entradas)
            ELSE IF @ > entradas[e].rango THEN @ - 1 ELSE @]]

(* elegir_victima_tlb.                                                      *)
VictimaTlb(tlb, algoritmo) ==
    IF algoritmo = "FIFO"
    THEN tlb.puntero
    ELSE CHOOSE e \in DOMAIN tlb.entradas :
            \A f \in DOMAIN tlb.entradas : tlb.entradas[e].rango <= tlb.entradas[f].rango

(* agregar_a_tlb: the first free entry, or the victim's.                    *)
AgregarATlb(tlb, n, algoritmo, pagina, marco) ==
    IF ~Llena(tlb, n)
    THEN [tlb EXCEPT !.entradas =
            Append(@, [pagina |-> pagina, marco |-> marco, rango |-> Len(@) + 1])]
    ELSE LET e == VictimaTlb(tlb, algoritmo)
         IN [entradas |-> Rejuvenecer([tlb.entradas EXCEPT ![e] =
                            [pagina |-> pagina, marco |-> marco, rango |-> @.rango]], e),
             puntero |-> IF algoritmo = "FIFO" THEN Avanzar(tlb.puntero, n)
                                               ELSE tlb.puntero]
-----------------------------------------------------------------------------
(* How many entries the hand of the clock passes before it reaches e.       *)
Distancia(cache, e) ==
    (e - cache.puntero + Len(cache.entradas)) % Len(cache.entradas)

MasCercana(cache, S) ==
    CHOOSE e \in S : \A f \in S : Distancia(cache, e) <= Distancia(cache, f)

NoUsadas(cache) == { e \in DOMAIN cache.entradas : ~cache.entradas[e].uso }
NoModificadas(cache) == { e \in DOMAIN cache.entradas : ~cache.entradas[e].modificado }
LimpiasNoUsadas(cache) == NoUsadas(cache) \cap NoModificadas(cache)

(* elegir_victima_cache.  When every entry is in use the first turn clears  *)
(* their bits, and the second one finds the victim: for CLOCK the entry the *)
(* hand started from, for CLOCK-M the first one that is not modified.       *)
VictimaClock(cache) ==
    IF NoUsadas(cache) # {} THEN MasCercana(cache, NoUsadas(cache)) ELSE cache.puntero

VictimaClockMSinModificado(cache) == VictimaClock(cache)
VictimaClockM(cache) ==
    CASE LimpiasNoUsadas(cache) # {} -> MasCercana(cache, LimpiasNoUsadas(cache))
      [] LimpiasNoUsadas(cache) = {} /\ NoUsadas(cache) # {} -> VictimaClock(cache)
      [] NoUsadas(cache) = {} /\ NoModificadas(cache) # {} ->
            MasCercana(cache, NoModificadas(cache))
      [] OTHER -> cache.puntero

VictimaCache(cache, algoritmo) ==
    IF algoritmo = "CLOCK" THEN VictimaClock(cache) ELSE VictimaClockM(cache)

(* The entries whose bit_uso the search clears: the ones it passes over,    *)
(* all of them in a full turn; the first turn of CLOCK-M clears none.       *)
PierdenUso(cache, algoritmo) ==
    IF algoritmo = "CLOCK-M" /\ LimpiasNoUsadas(cache) # {}
    THEN {}
    ELSE { e \in DOMAIN cache.entradas :
             \A f \in NoUsadas(cache) : Distancia(cache, e) < Distancia(cache, f) }

TrasElegir(cache, algoritmo) ==
    [entradas |-> [e \in DOMAIN cache.entradas |->
        [cache.entradas[e] EXCEPT !.uso = @ /\ e \notin PierdenUso(cache, algoritmo)]],
     puntero |-> Avanzar(VictimaCache(cache, algoritmo), Len(cache.entradas))]

(* conseguir_entrada_libre and agregar_en_entrada_cache.                    *)
AgregarACache(cache, n, algoritmo, pagina, contenido) ==
    LET nueva == [pagina |-> pagina, contenido |-> contenido,
                  uso |-> TRUE, modificado |-> FALSE]
    IN IF ~Llena(cache, n)
       THEN [cache EXCEPT !.entradas = Append(@, nueva)]
       ELSE [TrasElegir(cache, algoritmo) EXCEPT
                !.entradas[VictimaCache(cache, algoritmo)] = nueva]
=============================================================================
