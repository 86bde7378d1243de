--------------------------- MODULE CpuCacheProofs ---------------------------
(***************************************************************************)
(* Proofs about what the TLB and the cache of a CPU hold: no page twice,   *)
(* and nothing in a page that may be given up that its frame does not have.*)
(***************************************************************************)
EXTENDS CpuProofs

(* No page is in two entries.                                               *)
Distintas(m) ==
    \A e, f \in DOMAIN m.entradas : m.entradas[e].pagina = m.entradas[f].pagina => e = f

(* The inductive invariant of SinDuplicados.                                *)
IInvDistintas == IInvCpu /\ Distintas(tlb) /\ Distintas(cache)

(* The same pages in the same entries.                                      *)
LEMMA MismasPaginas ==
    ASSUME NEW m, NEW r, Distintas(m), DOMAIN r.entradas = DOMAIN m.entradas,
           \A j \in DOMAIN m.entradas : r.entradas[j].pagina = m.entradas[j].pagina
    PROVE  Distintas(r)
BY DEF Distintas

(* A page that was not there comes into one entry, the rest was there.      *)
LEMMA PaginaNueva ==
    ASSUME NEW m, NEW r, NEW i, Distintas(m), ~Esta(m, i),
           \E e \in DOMAIN r.entradas :
             /\ r.entradas[e].pagina = i
             /\ \A j \in DOMAIN r.entradas \ {e} :
                  j \in DOMAIN m.entradas /\ r.entradas[j].pagina = m.entradas[j].pagina
    PROVE  Distintas(r)
<1>1. \A j \in DOMAIN m.entradas : m.entradas[j].pagina # i
  BY DEF Esta, EntradasCon
<1> QED
  BY <1>1 DEF Distintas

LEMMA TlbTrasDistintas ==
    ASSUME EnCpu, NEW t \in Tlbs(config.entradasTlb, Marco), Distintas(t),
           NEW i \in DOMAIN tabla[pid]
    PROVE  Distintas(TlbTras(t, i))
<1> DEFINE n == config.entradasTlb
<1>0. /\ n \in Nat /\ t.entradas \in Seq(EntradaTlb(Marco))
      /\ t = [entradas |-> t.entradas, puntero |-> t.puntero]
  BY TiposEnCpu DEF Tlbs
<1>1. i \in Nat /\ tabla[pid][i] \in Marco
  BY TiposEnCpu, ElementoDe
<1>2. CASE n = 0
  BY <1>2 DEF TlbTras
<1>3. CASE n # 0 /\ Esta(t, i)
  <2> DEFINE e == EntradaDe(t, i)
             nuevas == Rejuvenecer(t.entradas, e)
  <2>1. e \in DOMAIN t.entradas
    BY <1>0, <1>3, EntradaDePagina
  <2>2. TlbTras(t, i) = [entradas |-> nuevas, puntero |-> t.puntero]
    BY <1>0, <1>3 DEF TlbTras
  <2> HIDE DEF e
  <2>3. /\ DOMAIN nuevas = DOMAIN t.entradas
        /\ \A j \in DOMAIN t.entradas : nuevas[j].pagina = t.entradas[j].pagina
    BY <1>0, <2>1, RejuvenecerTipo
  <2> HIDE DEF nuevas
  <2>4. TlbTras(t, i).entradas = nuevas
    BY <2>2
  <2> QED
    BY <2>3, <2>4, MismasPaginas
<1>4. CASE n # 0 /\ ~Esta(t, i)
  <2>1. PICK m \in Marco : m = tabla[pid][i]
    BY <1>1
  <2>2. PICK algoritmo : algoritmo = config.reemplazoTlb
    OBVIOUS
  <2>3. PICK r : r = TlbTras(t, i)
    OBVIOUS
  <2>4. r = AgregarATlb(t, n, algoritmo, i, m)
    BY <1>4, <2>1, <2>2, <2>3 DEF TlbTras, MarcoEnTabla
  <2>5. n \in Nat \ {0} /\ t \in Tlbs(n, Marco) /\ i \in Nat
    BY <1>0, <1>1, <1>4
  <2> HIDE DEF n
  <2>6. \E e \in DOMAIN r.entradas :
          /\ r.entradas[e].pagina = i
          /\ \A j \in DOMAIN r.entradas \ {e} :
               j \in DOMAIN t.entradas /\ r.entradas[j].pagina = t.entradas[j].pagina
    BY <2>4, <2>5, AgregarATlbTipo
  <2> QED
    BY <1>4, <2>3, <2>6, PaginaNueva
<1> QED
  BY <1>2, <1>3, <1>4

LEMMA TlbTrasBuscarDistintas ==
    ASSUME EnCpu, ConCache, Distintas(tlb), NEW i \in DOMAIN tabla[pid]
    PROVE  Distintas(TlbTrasBuscar(i))
<1>1. /\ TlbTrasGuardar(i) \in Tlbs(config.entradasTlb, Marco)
      /\ Distintas(TlbTrasGuardar(i))
  <2>1. CASE Guarda(i)
    <3>1. Sale(cache).pagina \in DOMAIN tabla[pid]
      BY <2>1, SalePropia DEF Guarda
    <3> QED
      BY <2>1, <3>1, TlbTrasFiel, TlbTrasDistintas, TiposEnCpu DEF TlbTrasGuardar
  <2>2. CASE ~Guarda(i)
    BY <2>2, TiposEnCpu DEF TlbTrasGuardar
  <2> QED
    BY <2>1, <2>2
<1> QED
  BY <1>1, TlbTrasDistintas DEF TlbTrasBuscar
-----------------------------------------------------------------------------
(* busqueda_cache of a page that is there only sets its bit_uso...          *)
MismasEntradas(c, r) ==
    /\ DOMAIN r.entradas = DOMAIN c.entradas
    /\ \A j \in DOMAIN c.entradas :
         /\ r.entradas[j].pagina = c.entradas[j].pagina
         /\ r.entradas[j].contenido = c.entradas[j].contenido
         /\ r.entradas[j].modificado = c.entradas[j].modificado

LEMMA BuscarEncuentra ==
    ASSUME EnCpu, NEW i, Esta(cache, i), NEW c \in CachesTrasBuscar(i)
    PROVE  MismasEntradas(cache, c)
<1> DEFINE e == EntradaDe(cache, i)
           usada == [cache.entradas[e] EXCEPT !.uso = TRUE]
           nuevas == [cache.entradas EXCEPT ![e] = usada]
<1>0. /\ cache.entradas \in Seq(EntradaCache(Pagina))
      /\ cache = [entradas |-> cache.entradas, puntero |-> cache.puntero]
  BY TiposEnCpu DEF Caches
<1>1. e \in DOMAIN cache.entradas
  BY <1>0, EntradaDePagina
<1>2. c = [entradas |-> nuevas, puntero |-> cache.puntero]
  BY <1>0 DEF CachesTrasBuscar
<1>3. /\ usada.pagina = cache.entradas[e].pagina
      /\ usada.contenido = cache.entradas[e].contenido
      /\ usada.modificado = cache.entradas[e].modificado
  <2>1. cache.entradas[e] \in EntradaCache(Pagina)
    BY <1>0, <1>1, ElementoDe
  <2> QED
    BY <2>1 DEF EntradaCache
<1> HIDE DEF e, usada
<1>4. c.entradas = nuevas
  BY <1>2
<1>5. /\ DOMAIN nuevas = DOMAIN cache.entradas
      /\ \A j \in DOMAIN cache.entradas :
            nuevas[j] = IF j = e THEN usada ELSE cache.entradas[j]
  BY <1>0, <1>1
<1> HIDE DEF nuevas
<1> QED
  BY <1>3, <1>4, <1>5 DEF MismasEntradas

(* ... and of one that is not brings it into one entry, the one of the      *)
(* victim when the cache is full.                                           *)
LEMMA BuscarTrae ==
    ASSUME EnCpu, ConCache, NEW i \in DOMAIN tabla[pid], ~Esta(cache, i),
           NEW c \in CachesTrasBuscar(i)
    PROVE  \E q \in PaginasLeidas(MarcoLeido(i)) : \E e \in DOMAIN c.entradas :
             /\ Agregada(cache, c, e, i, q)
             /\ IF Llena(cache, config.entradasCache)
                THEN e = VictimaCache(cache, config.reemplazoCache)
                ELSE e \notin DOMAIN cache.entradas
<1>1. PICK n \in Nat \ {0} : n = config.entradasCache
  BY TiposEnCpu DEF ConCache
<1>2. PICK k \in Caches(n, Pagina) : k = cache
  BY <1>1, TiposEnCpu
<1>3. PICK algoritmo : algoritmo = config.reemplazoCache
  OBVIOUS
<1>4. PICK q \in PaginasLeidas(MarcoLeido(i)) : c = AgregarACache(k, n, algoritmo, i, q)
  BY <1>1, <1>2, <1>3 DEF CachesTrasBuscar
<1>5. q \in Pagina /\ i \in Nat
  BY TiposEnCpu DEF PaginasLeidas
<1>6. \E e \in DOMAIN c.entradas :
        /\ Agregada(k, c, e, i, q)
        /\ IF Llena(k, n) THEN e = VictimaCache(k, algoritmo) ELSE e \notin DOMAIN k.entradas
  BY <1>4, <1>5, AgregarACacheTipo
<1> QED
  BY <1>1, <1>2, <1>3, <1>6

LEMMA CacheTrasBuscarDistintas ==
    ASSUME EnCpu, ConCache, Distintas(cache), NEW i \in DOMAIN tabla[pid],
           NEW c \in CachesTrasBuscar(i)
    PROVE  Distintas(c)
<1>1. CASE Esta(cache, i)
  BY <1>1, BuscarEncuentra, MismasPaginas DEF MismasEntradas
<1>2. CASE ~Esta(cache, i)
  <2>1. PICK q \in PaginasLeidas(MarcoLeido(i)), e \in DOMAIN c.entradas :
           Agregada(cache, c, e, i, q)
    BY <1>2, BuscarTrae
  <2> QED
    BY <1>2, <2>1, PaginaNueva DEF Agregada
<1> QED
  BY <1>1, <1>2
-----------------------------------------------------------------------------
(* escribir_pagina_cache changes the contents of the entry of the page and  *)
(* marks it; the other entries stay as they were.                           *)
Escrita(c, r, e, i, d, t) ==
    /\ DOMAIN r.entradas = DOMAIN c.entradas
    /\ c.entradas[e].pagina = i
    /\ r.entradas[e].pagina = i
    /\ r.entradas[e].modificado
    /\ r.entradas[e].contenido = Encima(c.entradas[e].contenido, d, t)
    /\ \A j \in DOMAIN c.entradas \ {e} : r.entradas[j] = c.entradas[j]

LEMMA ModificadaEntradas ==
    ASSUME NEW n, NEW c \in Caches(n, Pagina), NEW i, Esta(c, i),
           NEW d \in Nat, NEW t \in Seq(Letra),
           NEW r, r = Modificada(c, i, d, t)
    PROVE  \E e \in DOMAIN c.entradas : Escrita(c, r, e, i, d, t)
<1> DEFINE e == EntradaDe(c, i)
           x == c.entradas[e]
           nueva == ConTexto(x, d, t)
<1>1. /\ c.entradas \in Seq(EntradaCache(Pagina))
      /\ c = [entradas |-> c.entradas, puntero |-> c.puntero]
  BY DEF Caches
<1>2. e \in DOMAIN c.entradas /\ x.pagina = i
  BY <1>1, EntradaDePagina
<1>3. x \in EntradaCache(Pagina)
  BY <1>1, <1>2, ElementoDe
<1>4. /\ nueva.pagina = i /\ nueva.modificado = TRUE
      /\ nueva.contenido = Encima(x.contenido, d, t)
  <2> HIDE DEF x
  <2> QED
    BY <1>2, <1>3 DEF EntradaCache, ConTexto
<1>5. r = [c EXCEPT !.entradas[e] = nueva]
  BY DEF Modificada
<1> HIDE DEF e, nueva
<1>6. r.entradas = [c.entradas EXCEPT ![e] = nueva]
  BY <1>1, <1>5
<1>7. /\ DOMAIN r.entradas = DOMAIN c.entradas
      /\ r.entradas[e] = nueva
      /\ \A j \in DOMAIN c.entradas \ {e} : r.entradas[j] = c.entradas[j]
  BY <1>1, <1>2, <1>6
<1>8. Escrita(c, r, e, i, d, t)
  BY <1>2, <1>4, <1>7 DEF Escrita
<1> QED
  BY <1>2, <1>8

(* After busqueda_cache the page it looked for is there.                    *)
LEMMA BuscadaEsta ==
    ASSUME EnCpu, ConCache, NEW i \in DOMAIN tabla[pid], NEW c \in CachesTrasBuscar(i)
    PROVE  Esta(c, i)
<1>1. CASE Esta(cache, i)
  BY <1>1, BuscarEncuentra DEF MismasEntradas, Esta, EntradasCon
<1>2. CASE ~Esta(cache, i)
  BY <1>2, BuscarTrae DEF Agregada, Esta, EntradasCon
<1> QED
  BY <1>1, <1>2

(* What a WRITE with a cache does to it, entry by entry.                    *)
LEMMA EscribirCache ==
    ASSUME EnCpu, ConCache, NEW w \in Escrituras[pid], w.pagina \in DOMAIN tabla[pid],
           NEW c \in CachesTrasBuscar(w.pagina),
           NEW r, r = Modificada(c, w.pagina, w.desde, w.texto)
    PROVE  \E e \in DOMAIN c.entradas : Escrita(c, r, e, w.pagina, w.desde, w.texto)
<1>1. w.desde \in Nat /\ w.texto \in Seq(Letra)
  BY TiposEnCpu, EscriturasAssumption, TamPaginaAssumption DEF Posicion
<1>2. c \in Caches(config.entradasCache, Pagina) /\ Esta(c, w.pagina)
  BY BuscarDeja, BuscadaEsta
<1>3. PICK i : i = w.pagina
  OBVIOUS
<1>4. PICK d \in Nat : d = w.desde
  BY <1>1
<1>5. PICK t \in Seq(Letra) : t = w.texto
  BY <1>1
<1>6. PICK n : n = config.entradasCache
  OBVIOUS
<1>7. c \in Caches(n, Pagina) /\ Esta(c, i) /\ r = Modificada(c, i, d, t)
  BY <1>2, <1>3, <1>4, <1>5, <1>6
<1>8. \E e \in DOMAIN c.entradas : Escrita(c, r, e, i, d, t)
  BY <1>7, ModificadaEntradas
<1> QED
  BY <1>3, <1>4, <1>5, <1>8
-----------------------------------------------------------------------------
LEMMA LeerDistintas ==
    ASSUME IInvDistintas, NEW i, Leer(i)
    PROVE  Distintas(tlb)' /\ Distintas(cache)'
<1>0. EnCpu /\ i \in DOMAIN tabla[pid] /\ Distintas(tlb) /\ Distintas(cache)
  BY DEF Leer, Ejecuta, EnCpu, IInvDistintas
<1>1. CASE ConCache
  <2>1. tlb' = TlbTrasBuscar(i) /\ cache' \in CachesTrasBuscar(i)
    BY <1>1 DEF Leer, Buscar
  <2>2. Distintas(tlb')
    BY <1>0, <1>1, <2>1, TlbTrasBuscarDistintas
  <2>3. Distintas(cache')
    BY <1>0, <1>1, <2>1, CacheTrasBuscarDistintas
  <2> QED
    BY <2>2, <2>3 DEF Distintas
<1>2. CASE ~ConCache
  <2>1. tlb' = TlbTras(tlb, i) /\ cache' = cache
    BY <1>2 DEF Leer
  <2>2. Distintas(tlb')
    BY <1>0, <2>1, TlbTrasDistintas, TiposEnCpu
  <2> QED
    BY <1>0, <2>1, <2>2 DEF Distintas
<1> QED
  BY <1>1, <1>2

LEMMA EscribirDistintas ==
    ASSUME IInvDistintas, NEW w \in EscriturasDelProceso,
           Escribir(w.pagina, w.desde, w.texto)
    PROVE  Distintas(tlb)' /\ Distintas(cache)'
<1>0. /\ EnCpu /\ w.pagina \in DOMAIN tabla[pid] /\ w \in Escrituras[pid]
      /\ Distintas(tlb) /\ Distintas(cache)
  BY DEF Escribir, Ejecuta, EnCpu, IInvDistintas, EscriturasDelProceso
<1>1. CASE ConCache
  <2>1. tlb' = TlbTrasBuscar(w.pagina)
    BY <1>1 DEF Escribir, Buscar
  <2>2. PICK c \in CachesTrasBuscar(w.pagina) :
           cache' = Modificada(c, w.pagina, w.desde, w.texto)
    BY <1>1 DEF Escribir
  <2>3. PICK r : r = cache'
    OBVIOUS
  <2>4. Distintas(c)
    BY <1>0, <1>1, CacheTrasBuscarDistintas
  <2>5. /\ DOMAIN r.entradas = DOMAIN c.entradas
        /\ \A j \in DOMAIN c.entradas : r.entradas[j].pagina = c.entradas[j].pagina
    <3>1. r = Modificada(c, w.pagina, w.desde, w.texto)
      BY <2>2, <2>3
    <3>2. PICK e \in DOMAIN c.entradas : Escrita(c, r, e, w.pagina, w.desde, w.texto)
      BY <1>0, <1>1, <3>1, EscribirCache
    <3> QED
      BY <3>2 DEF Escrita
  <2>6. Distintas(r)
    BY <2>4, <2>5, MismasPaginas
  <2>7. Distintas(tlb')
    BY <1>0, <1>1, <2>1, TlbTrasBuscarDistintas
  <2> QED
    BY <2>3, <2>6, <2>7 DEF Distintas
<1>2. CASE ~ConCache
  <2>1. tlb' = TlbTras(tlb, w.pagina) /\ cache' = cache
    BY <1>2 DEF Escribir
  <2>2. Distintas(tlb')
    BY <1>0, <2>1, TlbTrasDistintas, TiposEnCpu
  <2> QED
    BY <1>0, <2>1, <2>2 DEF Distintas
<1> QED
  BY <1>1, <1>2

LEMMA GuardarDistintas ==
    ASSUME IInvDistintas, Guardar
    PROVE  Distintas(tlb)' /\ Distintas(cache)'
<1> DEFINE e == cache.entradas[guardando]
<1>0. guardando \in DOMAIN cache.entradas /\ cache' = cache
  BY DEF Guardar
<1>1. EnCpu
  BY <1>0 DEF EnCpu, IInvDistintas, IInvCpu, Vacia
<1>2. e.pagina \in DOMAIN tabla[pid]
  BY <1>0, <1>1, TiposEnCpu DEF PaginasPropias
<1>3. tlb' = TlbTras(tlb, e.pagina) \/ tlb' = tlb
  BY DEF Guardar
<1>4. Distintas(tlb')
  BY <1>1, <1>2, <1>3, TlbTrasDistintas, TiposEnCpu DEF IInvDistintas
<1> QED
  BY <1>0, <1>4 DEF IInvDistintas, Distintas

LEMMA DistintasPaso ==
    ASSUME IInvDistintas, [NextCpu]_todas
    PROVE  IInvDistintas'
<1>1. Distintas(Vacia)
  BY DEF Distintas, Vacia
<1>2. ASSUME tlb' \in {tlb, Vacia}, cache' \in {cache, Vacia}
      PROVE  Distintas(tlb)' /\ Distintas(cache)'
  <2>1. Distintas(tlb') /\ Distintas(cache')
    BY <1>1, <1>2 DEF IInvDistintas
  <2> QED
    BY <2>1 DEF Distintas
<1>3. Distintas(tlb)' /\ Distintas(cache)'
  <2>1. CASE UNCHANGED todas
    BY <1>2, <2>1 DEF todas, varsCpu
  <2>2. CASE \E p \in Procs : Recibir(p) \/ Cargar(p) \/ Pedir(p) \/ Finalizar(p)
    <3>1. tlb' \in {tlb, Vacia} /\ cache' \in {cache, Vacia}
      BY <2>2 DEF Recibir, Cargar, Pedir, Finalizar, TlbNueva, CacheNueva, varsCpu
    <3> QED
      BY <1>2, <3>1
  <2>3. CASE Frenar \/ Devolver
    BY <1>2, <2>3 DEF Frenar, Devolver, TlbNueva, CacheNueva
  <2> QED
    BY <2>1, <2>2, <2>3, LeerDistintas, EscribirDistintas, GuardarDistintas DEF NextCpu
<1>4. IInvCpu'
  BY CpuPaso, IInvPaso DEF IInvDistintas, IInvCpu, CpuBien
<1> QED
  BY <1>3, <1>4 DEF IInvDistintas

LEMMA IInvDistintasSiempre == SpecCpu => []IInvDistintas
<1>1. SpecCpu => []IInvCpu
  BY IInvCpuSiempre
<1>2. InitCpu => Distintas(tlb) /\ Distintas(cache)
  BY DEF InitCpu, Distintas, Vacia
<1>3. InitCpu /\ IInvCpu => IInvDistintas
  BY <1>2 DEF IInvDistintas
<1>4. IInvDistintas /\ [NextCpu]_todas => IInvDistintas'
  BY DistintasPaso
<1> QED
  BY <1>1, <1>3, <1>4, PTL DEF SpecCpu

(* Whatever the sizes and the replacement algorithms, no page is in two     *)
(* entries of the TLB or of the cache.                                      *)
THEOREM SinDuplicadosSiempre == SpecCpu => []SinDuplicados
<1>1. IInvDistintas => SinDuplicados
  BY DEF IInvDistintas, Distintas, SinDuplicados
<1> QED
  BY <1>1, IInvDistintasSiempre, PTL
-----------------------------------------------------------------------------
(* The text of a page ends at its first 0, or with the page.                *)
LEMMA LargoDe ==
    ASSUME NEW m \in Pagina
    PROVE  /\ Largo(m) \in 0..TamPagina
           /\ \A k \in 0..(Largo(m) - 1) : m[k] # Nulo
           /\ Largo(m) < TamPagina => m[Largo(m)] = Nulo
<1> DEFINE T == { k \in Posicion : m[k] = Nulo } \cup {TamPagina}
<1>1. T \in SUBSET Nat /\ T # {}
  BY TamPaginaAssumption DEF Posicion
<1>2. PICK n \in T : \A k \in T : n <= k
  BY <1>1, MinimoNat
<1>3. n \in 0..TamPagina
  BY <1>2, TamPaginaAssumption DEF Posicion
<1>4. \A k \in 0..(n - 1) : m[k] # Nulo
  BY <1>2, <1>3, TamPaginaAssumption DEF Posicion
<1>5. n < TamPagina => m[n] = Nulo
  BY <1>2, <1>3, TamPaginaAssumption
<1> QED
  BY <1>3, <1>4, <1>5 DEF Largo

LEMMA LargoUnico ==
    ASSUME NEW m \in Pagina, NEW n \in 0..TamPagina,
           \A k \in 0..(n - 1) : m[k] # Nulo, n < TamPagina => m[n] = Nulo
    PROVE  Largo(m) = n
<1>1. /\ Largo(m) \in 0..TamPagina
      /\ \A k \in 0..(Largo(m) - 1) : m[k] # Nulo
      /\ Largo(m) < TamPagina => m[Largo(m)] = Nulo
  BY LargoDe
<1>2. ~ (Largo(m) < n)
  BY <1>1, TamPaginaAssumption
<1>3. ~ (n < Largo(m))
  BY <1>1, TamPaginaAssumption
<1> QED
  BY <1>1, <1>2, <1>3, TamPaginaAssumption

(* A page that is read comes with its text.                                 *)
LEMMA TextoLeido ==
    ASSUME NEW m \in Pagina, NEW q \in PaginasLeidas(m)
    PROVE  Largo(q) = Largo(m) /\ TextoDe(q) = TextoDe(m)
<1>1. PICK n \in 0..TamPagina :
        /\ n = Largo(m)
        /\ \A k \in 0..(n - 1) : m[k] # Nulo
        /\ n < TamPagina => m[n] = Nulo
  BY LargoDe
<1>2. /\ q \in Pagina
      /\ \A k \in Posicion : k < n => q[k] = m[k]
      /\ \A k \in Posicion : k \in {n, n + 1} => q[k] = Nulo
  BY <1>1 DEF PaginasLeidas
<1>3. \A k \in 0..(n - 1) : k \in Posicion /\ q[k] = m[k]
  <2>1. \A k \in 0..(n - 1) : k \in Posicion /\ k < n
    BY TamPaginaAssumption DEF Posicion
  <2> QED
    BY <1>2, <2>1
<1>4. n < TamPagina => q[n] = Nulo
  BY <1>2, TamPaginaAssumption DEF Posicion
<1>5. Largo(q) = n
  BY <1>1, <1>2, <1>3, <1>4, LargoUnico
<1> QED
  BY <1>1, <1>3, <1>5 DEF TextoDe
-----------------------------------------------------------------------------
(* What a cache may give up is in the frames u of the process.              *)
Respaldada(c, u) ==
    \A e \in DOMAIN c.entradas :
        ~c.entradas[e].modificado =>
          TextoDe(c.entradas[e].contenido) = TextoDe(u[tabla[pid][c.entradas[e].pagina]])

(* The inductive invariant of CacheAlDia.                                   *)
IInvCache == IInvDistintas /\ CacheAlDia

(* What the lemmas about an instruction start from, until the first swap_in.*)
Respaldo == IInvDistintas /\ pid # Nadie /\ ~huboSwapIn /\ Respaldada(cache, contenido)

(* Writing the page of a modified entry back disturbs the frame of no other *)
(* page that is cached.                                                     *)
LEMMA OtraRespaldada ==
    ASSUME Respaldo, NEW e \in DOMAIN cache.entradas, NEW v,
           NEW j \in DOMAIN cache.entradas, j # e, ~cache.entradas[j].modificado
    PROVE  LET u == [contenido EXCEPT ![tabla[pid][cache.entradas[e].pagina]] = v]
           IN TextoDe(cache.entradas[j].contenido) =
                TextoDe(u[tabla[pid][cache.entradas[j].pagina]])
<1> DEFINE a == cache.entradas[e].pagina
           b == cache.entradas[j].pagina
           u == [contenido EXCEPT ![tabla[pid][a]] = v]
<1>1. EnCpu /\ a \in DOMAIN tabla[pid] /\ b \in DOMAIN tabla[pid]
  BY TiposEnCpu DEF Respaldo, IInvDistintas, EnCpu, PaginasPropias
<1>2. a # b
  BY DEF Respaldo, IInvDistintas, Distintas
<1>3. tabla[pid][a] # tabla[pid][b]
  BY <1>1, <1>2, TiposEnCpu DEF Respaldo, EnCpu, IInvCpu, IInv, MarcosExclusivos
<1>4. tabla[pid][a] \in Marco /\ tabla[pid][b] \in Marco
  BY <1>1, TiposEnCpu, ElementoDe
<1>5. u[tabla[pid][b]] = contenido[tabla[pid][b]]
  BY <1>1, <1>3, <1>4, TiposEnCpu
<1>6. TextoDe(cache.entradas[j].contenido) = TextoDe(contenido[tabla[pid][b]])
  BY DEF Respaldo, Respaldada
<1> QED
  BY <1>5, <1>6

LEMMA ContenidoTrasGuardarTipo ==
    ASSUME EnCpu, ConCache, NEW i
    PROVE  /\ ContenidoTrasGuardar(i) \in [Marco -> Pagina]
           /\ Guarda(i) =>
                ContenidoTrasGuardar(i) =
                  [contenido EXCEPT ![tabla[pid][Sale(cache).pagina]] =
                     CopiarTexto(@, Sale(cache).contenido)]
<1>1. CASE ~Guarda(i)
  BY <1>1, TiposEnCpu DEF ContenidoTrasGuardar
<1>2. CASE Guarda(i)
  <2> DEFINE j == Sale(cache).pagina
  <2>1. j \in DOMAIN tabla[pid] /\ Sale(cache).contenido \in Pagina
    BY <1>2, SalePropia DEF Guarda
  <2>2. MarcoDe(tlb, j) = tabla[pid][j]
    BY TiposEnCpu, MarcoDeTabla
  <2>3. tabla[pid][j] \in Marco
    BY <2>1, TiposEnCpu, ElementoDe
  <2>4. CopiarTexto(contenido[tabla[pid][j]], Sale(cache).contenido) \in Pagina
    BY <2>1, <2>3, TiposEnCpu, PaginasEscritas
  <2> HIDE DEF j
  <2> QED
    BY <1>2, <2>2, <2>4, TiposEnCpu DEF ContenidoTrasGuardar, j
<1> QED
  BY <1>1, <1>2

(* After busqueda_cache what may be given up is in the frames it leaves.    *)
LEMMA BuscarRespaldada ==
    ASSUME Respaldo, ConCache, NEW i \in DOMAIN tabla[pid], NEW c \in CachesTrasBuscar(i)
    PROVE  Respaldada(c, ContenidoTrasGuardar(i))
<1> DEFINE u == ContenidoTrasGuardar(i)
<1>0. EnCpu
  BY DEF Respaldo, IInvDistintas, EnCpu
<1>1. CASE Esta(cache, i)
  <2>1. u = contenido
    BY <1>1 DEF ContenidoTrasGuardar, Guarda
  <2>2. MismasEntradas(cache, c)
    BY <1>0, <1>1, BuscarEncuentra
  <2> QED
    BY <2>1, <2>2 DEF Respaldo, Respaldada, MismasEntradas
<1>2. CASE ~Esta(cache, i)
  <2>1. PICK q \in PaginasLeidas(MarcoLeido(i)), e \in DOMAIN c.entradas :
          /\ Agregada(cache, c, e, i, q)
          /\ IF Llena(cache, config.entradasCache)
             THEN e = VictimaCache(cache, config.reemplazoCache)
             ELSE e \notin DOMAIN cache.entradas
    BY <1>0, <1>2, BuscarTrae
  <2>2. TextoDe(q) = TextoDe(u[tabla[pid][i]])
    <3>1. TlbTrasGuardar(i) \in Tlbs(config.entradasTlb, Marco) /\ TlbFiel(TlbTrasGuardar(i))
      <4>1. CASE Guarda(i)
        <5>1. Sale(cache).pagina \in DOMAIN tabla[pid]
          BY <1>0, <4>1, SalePropia DEF Guarda
        <5> QED
          BY <1>0, <4>1, <5>1, TlbTrasFiel, TiposEnCpu DEF TlbTrasGuardar
      <4>2. CASE ~Guarda(i)
        BY <1>0, <4>2, TiposEnCpu DEF TlbTrasGuardar
      <4> QED
        BY <4>1, <4>2
    <3>2. MarcoLeido(i) = u[tabla[pid][i]]
      BY <3>1, MarcoDeTabla DEF MarcoLeido
    <3>3. u[tabla[pid][i]] \in Pagina
      <4>1. tabla[pid][i] \in Marco
        BY <1>0, TiposEnCpu, ElementoDe
      <4> QED
        BY <1>0, <4>1, ContenidoTrasGuardarTipo
    <3> QED
      BY <2>1, <3>2, <3>3, TextoLeido
  <2>3. ASSUME NEW j \in DOMAIN c.entradas \ {e}, ~c.entradas[j].modificado
        PROVE  TextoDe(c.entradas[j].contenido) = TextoDe(u[tabla[pid][c.entradas[j].pagina]])
    <3>1. /\ j \in DOMAIN cache.entradas
          /\ c.entradas[j].pagina = cache.entradas[j].pagina
          /\ c.entradas[j].contenido = cache.entradas[j].contenido
          /\ ~cache.entradas[j].modificado
      BY <2>1, <2>3 DEF Agregada
    <3>2. CASE ~Guarda(i)
      BY <3>1, <3>2 DEF ContenidoTrasGuardar, Respaldo, Respaldada
    <3>3. CASE Guarda(i)
      <4> DEFINE v == VictimaCache(cache, config.reemplazoCache)
                 x == CopiarTexto(contenido[tabla[pid][cache.entradas[v].pagina]],
                                  cache.entradas[v].contenido)
      <4>1. v \in DOMAIN cache.entradas /\ j # v
        BY <1>0, <2>1, <3>3, SalePropia DEF Guarda
      <4>2. u = [contenido EXCEPT ![tabla[pid][cache.entradas[v].pagina]] = x]
        BY <1>0, <3>3, ContenidoTrasGuardarTipo DEF Sale
      <4> HIDE DEF x, v, u
      <4>3. TextoDe(cache.entradas[j].contenido) = TextoDe(u[tabla[pid][cache.entradas[j].pagina]])
        BY <3>1, <4>1, <4>2, OtraRespaldada
      <4> QED
        BY <3>1, <4>3 DEF u
    <3> QED
      BY <3>2, <3>3
  <2> HIDE DEF u
  <2>4. Respaldada(c, u)
    BY <2>1, <2>2, <2>3 DEF Respaldada, Agregada
  <2> QED
    BY <2>4 DEF u
<1> QED
  BY <1>1, <1>2
-----------------------------------------------------------------------------
LEMMA RespaldoInicial ==
    ASSUME IInvCache, EnCpu, ~huboSwapIn, ~desbordo
    PROVE  Respaldo
BY DEF IInvCache, CacheAlDia, EnCpu, Respaldo, Respaldada

LEMMA RespaldoFinal ==
    ASSUME pid' = pid, tabla'[pid] = tabla[pid], Respaldada(cache', contenido')
    PROVE  CacheAlDia'
BY DEF CacheAlDia, Respaldada

(* Without a cache there is nothing to give up.                             *)
LEMMA SinCacheRespaldada ==
    ASSUME EnCpu, ~ConCache, NEW u
    PROVE  Respaldada(cache, u)
<1>1. /\ cache.entradas \in Seq(EntradaCache(Pagina)) /\ Len(cache.entradas) <= 0
  BY TiposEnCpu DEF ConCache, Caches
<1>2. DOMAIN cache.entradas = {}
  BY <1>1
<1> QED
  BY <1>2 DEF Respaldada

LEMMA LeerAlDia ==
    ASSUME IInvCache, NEW i, Leer(i)
    PROVE  CacheAlDia'
<1> SUFFICES ASSUME ~huboSwapIn PROVE CacheAlDia'
  BY DEF Leer, Memoria_sin_contenido, CacheAlDia
<1>0. /\ EnCpu /\ i \in DOMAIN tabla[pid] /\ ~desbordo
      /\ pid' = pid /\ tabla' = tabla
  BY DEF Leer, Ejecuta, Sigue, EnCpu, IInvCache, IInvDistintas, Memoria_sin_contenido
<1>1. Respaldo
  BY <1>0, RespaldoInicial
<1>2. CASE ConCache
  <2>1. contenido' = ContenidoTrasGuardar(i) /\ cache' \in CachesTrasBuscar(i)
    BY <1>2 DEF Leer, Buscar
  <2> QED
    BY <1>0, <1>1, <1>2, <2>1, BuscarRespaldada, RespaldoFinal
<1>3. CASE ~ConCache
  <2>1. contenido' = contenido /\ cache' = cache
    BY <1>3 DEF Leer
  <2> QED
    BY <1>0, <1>3, <2>1, SinCacheRespaldada, RespaldoFinal
<1> QED
  BY <1>2, <1>3

LEMMA EscribirAlDia ==
    ASSUME IInvCache, NEW w \in EscriturasDelProceso,
           Escribir(w.pagina, w.desde, w.texto)
    PROVE  CacheAlDia'
<1> SUFFICES ASSUME ~huboSwapIn PROVE CacheAlDia'
  BY DEF Escribir, Memoria_sin_contenido, CacheAlDia
<1>0. /\ EnCpu /\ w.pagina \in DOMAIN tabla[pid] /\ ~desbordo /\ w \in Escrituras[pid]
      /\ pid' = pid /\ tabla' = tabla
  BY DEF Escribir, Ejecuta, Sigue, EnCpu, IInvCache, IInvDistintas, Memoria_sin_contenido,
     EscriturasDelProceso
<1>1. Respaldo
  BY <1>0, RespaldoInicial
<1>2. CASE ConCache
  <2>1. contenido' = ContenidoTrasGuardar(w.pagina)
    BY <1>2 DEF Escribir, Buscar
  <2>2. PICK c \in CachesTrasBuscar(w.pagina) :
           cache' = Modificada(c, w.pagina, w.desde, w.texto)
    BY <1>2 DEF Escribir
  <2>3. PICK u : u = contenido'
    OBVIOUS
  <2>4. Respaldada(c, u)
    BY <1>0, <1>1, <1>2, <2>1, <2>3, BuscarRespaldada
  <2>5. PICK r : r = cache'
    OBVIOUS
  <2>6. r = Modificada(c, w.pagina, w.desde, w.texto)
    BY <2>2, <2>5
  <2>7. PICK e \in DOMAIN c.entradas : Escrita(c, r, e, w.pagina, w.desde, w.texto)
    BY <1>0, <1>2, <2>6, EscribirCache
  <2>8. Respaldada(r, u)
    BY <2>4, <2>7 DEF Respaldada, Escrita
  <2> QED
    BY <1>0, <2>3, <2>5, <2>8, RespaldoFinal
<1>3. CASE ~ConCache
  <2>1. cache' = cache
    BY <1>3 DEF Escribir
  <2> QED
    BY <1>0, <1>3, <2>1, SinCacheRespaldada, RespaldoFinal
<1> QED
  BY <1>2, <1>3

LEMMA GuardarAlDia ==
    ASSUME IInvCache, Guardar
    PROVE  CacheAlDia'
<1> SUFFICES ASSUME ~huboSwapIn PROVE CacheAlDia'
  BY DEF Guardar, Memoria_sin_contenido, CacheAlDia
<1> DEFINE e == cache.entradas[guardando]
<1>0. /\ guardando \in DOMAIN cache.entradas /\ cache' = cache /\ ~desbordo
      /\ pid' = pid /\ tabla' = tabla
  BY DEF Guardar, Sigue, Memoria_sin_contenido
<1>1. EnCpu
  BY <1>0 DEF EnCpu, IInvCache, IInvDistintas, IInvCpu, Vacia
<1>2. Respaldo
  BY <1>0, <1>1, RespaldoInicial
<1>3. CASE e.modificado
  <2>1. contenido' = [contenido EXCEPT ![MarcoDe(tlb, e.pagina)] = CopiarTexto(@, e.contenido)]
    BY <1>3 DEF Guardar
  <2>2. MarcoDe(tlb, e.pagina) = tabla[pid][e.pagina]
    BY <1>1, TiposEnCpu, MarcoDeTabla
  <2>3. PICK v : contenido' = [contenido EXCEPT ![tabla[pid][e.pagina]] = v]
    BY <2>1, <2>2
  <2>4. ASSUME NEW j \in DOMAIN cache.entradas, ~cache.entradas[j].modificado
        PROVE  TextoDe(cache.entradas[j].contenido) =
                 TextoDe(contenido'[tabla[pid][cache.entradas[j].pagina]])
    <3>1. j # guardando
      BY <1>3, <2>4
    <3> QED
      BY <1>0, <1>2, <2>3, <2>4, <3>1, OtraRespaldada
  <2>5. Respaldada(cache, contenido')
    BY <2>4 DEF Respaldada
  <2> QED
    BY <1>0, <2>5, RespaldoFinal
<1>4. CASE ~e.modificado
  <2>1. contenido' = contenido
    BY <1>4 DEF Guardar
  <2> QED
    BY <1>0, <1>2, <2>1, RespaldoFinal DEF Respaldo
<1> QED
  BY <1>3, <1>4

LEMMA KernelAlDia ==
    ASSUME IInvCache, NEW p \in Procs, Cargar(p) \/ Pedir(p) \/ Finalizar(p)
    PROVE  CacheAlDia'
<1> SUFFICES ASSUME pid' # Nadie, ~huboSwapIn', ~desbordo' PROVE CacheAlDia'
  BY DEF CacheAlDia
<1>1. pid' = pid /\ cache' = cache /\ desbordo' = desbordo
  BY DEF Cargar, Pedir, Finalizar, varsCpu
<1>2. IInvCpu /\ EnCpu
  BY <1>1 DEF EnCpu, IInvCache, IInvDistintas
<1>3. tabla'[pid] = tabla[pid]
  BY <1>1, <1>2, TablaQuieta DEF Cargar, Pedir, Finalizar
<1>4. contenido' = contenido /\ huboSwapIn' = huboSwapIn
  BY DEF Cargar, Pedir, Finalizar, InitProcess, SuspendProcess, SwapIn, DumpProcess,
     FinishProcess
<1>5. Respaldo
  BY <1>1, <1>2, <1>4, RespaldoInicial
<1> QED
  BY <1>1, <1>3, <1>4, <1>5, RespaldoFinal DEF Respaldo

LEMMA CacheAlDiaPaso ==
    ASSUME IInvCache, [NextCpu]_todas
    PROVE  IInvCache'
<1>1. IInvDistintas'
  BY DistintasPaso DEF IInvCache
<1>2. CacheAlDia'
  <2>1. CASE UNCHANGED todas
    BY <2>1 DEF todas, vars, varsCpu, IInvCache, CacheAlDia
  <2>2. ASSUME NEW p \in Procs, Recibir(p) PROVE CacheAlDia'
    <3>1. cache'.entradas = <<>>
      BY <2>2 DEF Recibir, CacheNueva, Vacia
    <3> QED
      BY <3>1 DEF CacheAlDia
  <2>3. CASE Frenar
    BY <2>3 DEF Frenar, vars, IInvCache, CacheAlDia
  <2>4. CASE Devolver
    BY <2>4 DEF Devolver, CacheAlDia
  <2> QED
    BY <2>1, <2>2, <2>3, <2>4, KernelAlDia, LeerAlDia, EscribirAlDia, GuardarAlDia DEF NextCpu
<1> QED
  BY <1>1, <1>2 DEF IInvCache

(* Until a process comes back from swap, a page that busqueda_cache gives   *)
(* up without writing it back has nothing its frame does not have, whatever *)
(* the replacement algorithm and the texts.                                 *)
THEOREM CacheSiempreAlDia == SpecCpu => []CacheAlDia
<1>1. SpecCpu => []IInvDistintas
  BY IInvDistintasSiempre
<1>2. InitCpu => CacheAlDia
  BY DEF InitCpu, CacheAlDia
<1>3. InitCpu /\ IInvDistintas => IInvCache
  BY <1>2 DEF IInvCache
<1>4. IInvCache /\ [NextCpu]_todas => IInvCache'
  BY CacheAlDiaPaso
<1>5. IInvCache => CacheAlDia
  BY DEF IInvCache
<1> QED
  BY <1>1, <1>3, <1>4, <1>5, PTL DEF SpecCpu
=============================================================================
