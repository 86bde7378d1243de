---------------------------- MODULE TablasDePaginas ----------------------------
(***************************************************************************)
(* The page tables of a process as Memoria really keeps them: a tree of    *)
(* lists, one level of lists per level of the configuration, built frame   *)
(* by frame (memoria-page-tables.c) and walked with the entries the MMU of *)
(* a CPU computes (mmu.c).  Memoria.tla keeps the flat table instead: here *)
(* is what shows that it may.                                              *)
(*   e is ENTRADAS_POR_TABLA, n is CANTIDAD_NIVELES.                       *)
(***************************************************************************)
EXTENDS Integers, Sequences, SequencesExt

(* obtener_entradas_por_nivel: the entry of a page at each level.  Pages    *)
(* and entries are counted from 0.                                          *)
EntradasPorNivel(e, n, pagina) ==
    [nivel \in 1..n |-> (pagina \div e ^ (n - nivel)) % e]

(* precompute_divisors and calculate_index: the child in which Memoria puts *)
(* a page at a level.                                                       *)
DivisorAscendente(e, n, nivel) == e ^ (nivel - 1)
Divisor(e, n, nivel) == e ^ (n - nivel)

Indice(e, n, pagina, nivel) == (pagina \div Divisor(e, n, nivel)) % e

(* insert_frame_in_table and get_or_create_child: a child that is not there *)
(* is added at the end of its parent, whatever its index; the frame goes at *)
(* the end of its leaf, unless the leaf is full.                            *)
EnLaHoja(e, hoja, marco) == IF Len(hoja) < e THEN Append(hoja, marco) ELSE hoja

RECURSIVE Insertar(_, _, _, _, _, _)
Insertar(e, n, nodo, nivel, pagina, marco) ==
    IF nivel = n
    THEN EnLaHoja(e, nodo, marco)
    ELSE LET k == Indice(e, n, pagina, nivel) + 1
         IN IF k <= Len(nodo)
            THEN [nodo EXCEPT ![k] = Insertar(e, n, @, nivel + 1, pagina, marco)]
            ELSE Append(nodo, Insertar(e, n, <<>>, nivel + 1, pagina, marco))

(* insert_each_frame.                                                       *)
Arbol(e, n, marcos) ==
    FoldLeft(LAMBDA raiz, i : Insertar(e, n, raiz, 1, i - 1, marcos[i]),
             <<>>, [i \in DOMAIN marcos |-> i])

(* find_frame_from_entries.                                                 *)
Buscar(raiz, entradas) == FoldLeft(LAMBDA nodo, k : nodo[k + 1], raiz, entradas)

(* get_occupied_frames_from_page_table.                                     *)
RECURSIVE Aplanar(_, _, _)
Aplanar(n, nodo, nivel) ==
    IF nivel = n THEN nodo
    ELSE FlattenSeq([k \in DOMAIN nodo |-> Aplanar(n, nodo[k], nivel + 1)])

(* The tree says what the flat table of the first e^n frames says, to the   *)
(* walk that looks for a page and to the one that lists them all.           *)
ArbolComoTabla(e, n, marcos) ==
    LET raiz == Arbol(e, n, marcos)
        tabla == [i \in { j \in DOMAIN marcos : j <= e ^ n } |-> marcos[i]]
    IN /\ Aplanar(n, raiz, 1) = tabla
       /\ \A i \in DOMAIN tabla : Buscar(raiz, EntradasPorNivel(e, n, i - 1)) = tabla[i]
=============================================================================
