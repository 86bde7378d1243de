--------------------------- MODULE CpuPlanaProofs ---------------------------
(***************************************************************************)
(* The refinement: a process on a CPU with a cache and a TLB, in front of  *)
(* frames and a swap file, reads what it wrote.  For any number of         *)
(* processes, frames and entries, either algorithm, and any texts that     *)
(* leave no byte 0 in the middle of a page.                                *)
(***************************************************************************)
EXTENDS CpuCacheProofs

(* pagina holds what a program wrote in the page escrita.                   *)
Conserva(pagina, escrita) ==
    \A k \in Posicion : escrita[k] # Nulo => pagina[k] = escrita[k]

(* What a program wrote in its pages leaves no byte unwritten before one    *)
(* that is written: what goes as a C string goes whole.                     *)
Corrida(escrita) == \A k \in Posicion : escrita[k] # Nulo => \A j \in 0..k : escrita[j] # Nulo

SinHuecos == \A p \in Procs : \A i \in DOMAIN programa[p] : Corrida(programa[p][i])

(* Page i is in a modified entry of c that guardado_cache_por_desalojo,     *)
(* which is at entry g, has not written back yet.                           *)
PendienteEn(c, g, i) ==
    \E e \in DOMAIN c.entradas :
        /\ c.entradas[e].pagina = i
        /\ c.entradas[e].modificado
        /\ e >= g

(* Cache, frames and swap file hold what the programs wrote.                *)
CacheConserva(c) ==
    \A e \in DOMAIN c.entradas :
        Conserva(c.entradas[e].contenido, programa[pid][c.entradas[e].pagina])

MarcosConservan(u, c, g) ==
    \A p \in conTabla : \A i \in DOMAIN tabla[p] :
        ~(p = pid /\ PendienteEn(c, g, i)) => Conserva(u[tabla[p][i]], programa[p][i])

SwapConserva ==
    \A p \in enSwap : \A i \in DOMAIN offsets[p] :
        Conserva(archivoSwap[offsets[p][i]], programa[p][i])

TodoConservado ==
    /\ CacheConserva(cache)
    /\ MarcosConservan(contenido, cache, guardando)
    /\ SwapConserva

(* A loaded process has a frame, or a page of the swap file, for each page. *)
Dominios ==
    /\ \A p \in conTabla : DOMAIN tabla[p] = DOMAIN programa[p]
    /\ \A p \in enSwap : DOMAIN offsets[p] = DOMAIN programa[p]
    /\ \A p \in Procs : Len(programa[p]) <= PaginasPorTabla
    /\ \A p \in Procs \ cargados : programa[p] = <<>>

(* The inductive invariant of the refinement, as long as no program leaves  *)
(* a hole in a page.                                                        *)
IInvPlana ==
    /\ IInvDistintas
    /\ IInvASolas
    /\ Dominios
    /\ ~Roto => TodoConservado
-----------------------------------------------------------------------------
(* A state of Cpu is one of MemoriaPlana, and what its steps do to programa *)
(* are steps of MemoriaPlana.                                               *)
PlanaCargar(p) ==
    /\ programa[p] = <<>>
    /\ \E n \in 0..Tamanio[p] : programa'[p] = [i \in 1..n |-> PaginaNula]

PlanaEscribir(p) ==
    \E i \in DOMAIN programa[p], d \in Posicion :
      \E t \in UNION { [1..n -> Letra] : n \in 1..(TamPagina - d) } :
         programa'[p] = [programa[p] EXCEPT ![i] = Encima(@, d, t)]

PasoPlano(p) ==
    \/ programa'[p] = programa[p]
    \/ PlanaCargar(p)
    \/ PlanaEscribir(p)
    \/ programa'[p] = <<>>

LEMMA PlanaInicial ==
    ASSUME Texto = [p \in Procs |-> <<>>], Rotos = {}
    PROVE  Plana!Init
BY DEF Plana!Init

LEMMA PlanaPaso ==
    ASSUME Rotos = {}, Texto = programa, Texto' = programa', \A p \in Procs : PasoPlano(p)
    PROVE  Plana!Next
<1>1. \A p \in Procs : PlanaCargar(p) => Plana!Cargar(p)
  BY DEF PlanaCargar, Plana!Cargar, PaginaNula, Plana!PaginaNula, Posicion, Plana!Posicion
<1>2. ASSUME NEW p \in Procs, PlanaEscribir(p) PROVE Plana!Escribir(p)
  <2>1. PICK i \in DOMAIN programa[p], d \in Posicion :
          \E t \in UNION { [1..n -> Letra] : n \in 1..(TamPagina - d) } :
             programa'[p] = [programa[p] EXCEPT ![i] = Encima(@, d, t)]
    BY <1>2 DEF PlanaEscribir
  <2>2. PICK t \in UNION { [1..n -> Letra] : n \in 1..(TamPagina - d) } :
             programa'[p] = [programa[p] EXCEPT ![i] = Encima(@, d, t)]
    BY <2>1
  <2>3. Posicion = Plana!Posicion
    BY DEF Posicion, Plana!Posicion
  <2>4. Encima(programa[p][i], d, t) = Plana!Encima(programa[p][i], d, t)
    BY <2>3 DEF Encima, Plana!Encima
  <2>5. programa'[p] = [programa[p] EXCEPT ![i] = Plana!Encima(programa[p][i], d, t)]
    BY <2>2, <2>4
  <2> QED
    BY <2>3, <2>5 DEF Plana!Escribir
<1> QED
  BY <1>1, <1>2 DEF Plana!Next, Plana!Terminar, PasoPlano
-----------------------------------------------------------------------------
(* A page that holds what was written, without holes, holds it in its text: *)
(* reading the page and copying its text to another keep it.                *)
LEMMA EscritoEnElTexto ==
    ASSUME NEW m \in Pagina, NEW g, Conserva(m, g), Corrida(g),
           NEW k \in Posicion, g[k] # Nulo
    PROVE  k < Largo(m)
<1>1. /\ Largo(m) \in 0..TamPagina
      /\ Largo(m) < TamPagina => m[Largo(m)] = Nulo
  BY LargoDe
<1>2. SUFFICES ASSUME Largo(m) <= k PROVE FALSE
  BY <1>1, TamPaginaAssumption DEF Posicion
<1>3. Largo(m) \in 0..k /\ Largo(m) < TamPagina /\ Largo(m) \in Posicion
  BY <1>1, <1>2, TamPaginaAssumption DEF Posicion
<1>4. g[Largo(m)] # Nulo
  BY <1>3 DEF Corrida
<1>5. m[Largo(m)] # Nulo
  BY <1>3, <1>4 DEF Conserva
<1> QED
  BY <1>1, <1>3, <1>5

LEMMA LeerConserva ==
    ASSUME NEW m \in Pagina, NEW g, Conserva(m, g), Corrida(g), NEW q \in PaginasLeidas(m)
    PROVE  Conserva(q, g)
<1> SUFFICES ASSUME NEW k \in Posicion, g[k] # Nulo PROVE q[k] = g[k]
  BY DEF Conserva
<1>1. k < Largo(m)
  BY EscritoEnElTexto
<1> QED
  BY <1>1 DEF PaginasLeidas, Conserva

LEMMA CopiarConserva ==
    ASSUME NEW m, NEW q \in Pagina, NEW g, Conserva(q, g), Corrida(g)
    PROVE  Conserva(CopiarTexto(m, q), g)
<1> SUFFICES ASSUME NEW k \in Posicion, g[k] # Nulo PROVE CopiarTexto(m, q)[k] = g[k]
  BY DEF Conserva
<1>1. k < Largo(q)
  BY EscritoEnElTexto
<1> QED
  BY <1>1 DEF CopiarTexto, Conserva

LEMMA EncimaConserva ==
    ASSUME NEW x, NEW g, Conserva(x, g), NEW d, NEW t
    PROVE  Conserva(Encima(x, d, t), Encima(g, d, t))
BY DEF Conserva, Encima
-----------------------------------------------------------------------------
LEMMA TiposPlana ==
    ASSUME IInvPlana
    PROVE  /\ programa \in [Procs -> Seq(Pagina)]
           /\ \A p \in Procs : \A i \in DOMAIN programa[p] : programa[p][i] \in Pagina
           /\ contenido \in [Marco -> Pagina]
           /\ tabla \in [Procs -> Seq(Marco)]
           /\ conTabla \subseteq Procs /\ enSwap \subseteq Procs
           /\ conTabla \cap enSwap = {} /\ conTabla \cup enSwap = cargados
           /\ readmitidos = {}
           /\ \A p \in conTabla : \A i \in DOMAIN tabla[p] : tabla[p][i] \in Marco
<1>1. programa \in [Procs -> Seq(Pagina)]
  BY DEF IInvPlana, IInvDistintas, IInvCpu, TypeOKCpu
<1>2. /\ contenido \in [Marco -> Pagina] /\ tabla \in [Procs -> Seq(Marco)]
      /\ conTabla \subseteq Procs /\ enSwap \subseteq Procs
  BY ValorAssumption DEF IInvPlana, IInvASolas, TypeOK
<1>3. \A p \in Procs : \A i \in DOMAIN programa[p] : programa[p][i] \in Pagina
  BY <1>1, ElementoDe
<1>4. \A p \in conTabla : \A i \in DOMAIN tabla[p] : tabla[p][i] \in Marco
  BY <1>2, ElementoDe
<1>5. readmitidos = {}
  BY NadieReadmitido DEF IInvPlana, IInvASolas
<1>6. conTabla \cap enSwap = {} /\ conTabla \cup enSwap = cargados
  BY <1>5 DEF IInvPlana, IInvASolas, EnMemoriaOEnSwap
<1> QED
  BY <1>1, <1>2, <1>3, <1>4, <1>5, <1>6

(* The view of MemoriaPlana is what the programs wrote.                     *)
LEMMA TextoEsPrograma ==
    ASSUME IInvPlana, ~Roto
    PROVE  Texto = programa
<1>0. TodoConservado
  BY DEF IInvPlana
<1>1. ASSUME NEW p \in Procs, NEW i \in DOMAIN programa[p]
      PROVE  Conserva(Vista(p, i), programa[p][i])
  <2>1. p \in cargados
    BY <1>1, TiposPlana DEF IInvPlana, Dominios
  <2>2. CASE p = pid /\ Esta(cache, i)
    <3>1. cache.entradas \in Seq(EntradaCache(Pagina))
      BY DEF IInvPlana, IInvDistintas, IInvCpu, TypeOKCpu, Caches
    <3>2. /\ EntradaDe(cache, i) \in DOMAIN cache.entradas
          /\ cache.entradas[EntradaDe(cache, i)].pagina = i
      BY <2>2, <3>1, EntradaDePagina
    <3>3. Vista(p, i) = cache.entradas[EntradaDe(cache, i)].contenido
      BY <2>2 DEF Vista
    <3> QED
      BY <1>0, <2>2, <3>2, <3>3 DEF TodoConservado, CacheConserva
  <2>3. CASE p \in conTabla /\ ~(p = pid /\ Esta(cache, i))
    <3>1. Vista(p, i) = contenido[tabla[p][i]] /\ i \in DOMAIN tabla[p]
      BY <1>1, <2>3 DEF Vista, IInvPlana, Dominios
    <3>2. ~(p = pid /\ PendienteEn(cache, guardando, i))
      BY <2>3 DEF PendienteEn, Esta, EntradasCon
    <3> QED
      BY <1>0, <2>3, <3>1, <3>2 DEF TodoConservado, MarcosConservan
  <2>4. CASE p \notin conTabla /\ ~(p = pid /\ Esta(cache, i))
    <3>1. p \in enSwap
      BY <2>1, <2>4, TiposPlana
    <3>2. Vista(p, i) = archivoSwap[offsets[p][i]] /\ i \in DOMAIN offsets[p]
      BY <1>1, <2>4, <3>1 DEF Vista, IInvPlana, Dominios
    <3> QED
      BY <1>0, <3>1, <3>2 DEF TodoConservado, SwapConserva
  <2> QED
    BY <2>2, <2>3, <2>4
<1>2. ASSUME NEW p \in Procs
      PROVE  [i \in DOMAIN programa[p] |->
               [k \in Posicion |-> IF programa[p][i][k] = Nulo THEN Nulo ELSE Vista(p, i)[k]]]
               = programa[p]
  <2>1. ASSUME NEW i \in DOMAIN programa[p]
        PROVE  [k \in Posicion |-> IF programa[p][i][k] = Nulo THEN Nulo ELSE Vista(p, i)[k]]
                 = programa[p][i]
    <3>1. programa[p][i] \in Pagina
      BY TiposPlana
    <3>2. \A k \in Posicion : programa[p][i][k] # Nulo => Vista(p, i)[k] = programa[p][i][k]
      BY <1>1 DEF Conserva
    <3> QED
      BY <3>1, <3>2 DEF Pagina
  <2>2. programa[p] = [i \in DOMAIN programa[p] |-> programa[p][i]]
    BY TiposPlana
  <2> QED
    BY <2>1, <2>2
<1>3. programa = [p \in Procs |-> programa[p]]
  BY TiposPlana
<1> QED
  BY <1>2, <1>3 DEF Texto
-----------------------------------------------------------------------------
(* Once a process has come back from swap and the promise still holds, no   *)
(* other one is or was loaded...                                            *)
LEMMA UnoSolo ==
    ASSUME ~Roto, huboSwapIn, NEW p \in cargados
    PROVE  SinVecinos(p)
BY DEF Roto, SinVecinos

(* ... so no frame is in two pages, before and after.                       *)
LEMMA MarcosPropios ==
    ASSUME IInvPlana, ~Roto
    PROVE  \A p, q \in conTabla : \A i \in DOMAIN tabla[p], j \in DOMAIN tabla[q] :
              tabla[p][i] = tabla[q][j] => p = q /\ i = j
<1>1. CASE ~huboSwapIn
  BY <1>1 DEF IInvPlana, IInvDistintas, IInvCpu, IInv, MarcosExclusivos
<1>2. CASE huboSwapIn
  <2>1. ASSUME NEW p \in conTabla PROVE SinVecinos(p) /\ Sola(p)
    <3>1. p \in cargados /\ p \in Procs \ readmitidos
      BY TiposPlana
    <3> QED
      BY <1>2, <3>1, UnoSolo DEF IInvPlana, IInvASolas
  <2> QED
    BY <2>1, TiposPlana DEF SinVecinos, Sola
<1> QED
  BY <1>1, <1>2

(* A write of the process on the CPU in one of its pages is seen in no      *)
(* other page.                                                              *)
ConPagina(u, j, v) == u = [contenido EXCEPT ![tabla[pid][j]] = v]

LEMMA OtroMarco ==
    ASSUME IInvPlana, ~Roto, EnCpu, NEW j \in DOMAIN tabla[pid], NEW v,
           NEW u, ConPagina(u, j, v)
    PROVE  /\ u[tabla[pid][j]] = v
           /\ \A p \in conTabla : \A i \in DOMAIN tabla[p] :
                (p # pid \/ i # j) => u[tabla[p][i]] = contenido[tabla[p][i]]
<1>1. pid \in conTabla /\ tabla[pid][j] \in Marco
  BY TiposEnCpu, TiposPlana
<1> QED
  BY <1>1, MarcosPropios, TiposPlana DEF ConPagina
-----------------------------------------------------------------------------
(* What the lemmas about an instruction start from.                         *)
Cumple == IInvPlana /\ ~Roto /\ SinHuecos /\ EnCpu

LEMMA EscritoEnPagina ==
    ASSUME Cumple, NEW i \in DOMAIN tabla[pid]
    PROVE  /\ pid \in Procs /\ pid \in conTabla
           /\ tabla[pid][i] \in Marco
           /\ programa[pid][i] \in Pagina
           /\ Corrida(programa[pid][i])
<1>1. pid \in conTabla /\ pid \in Procs
  BY TiposEnCpu DEF Cumple
<1>2. i \in DOMAIN programa[pid]
  BY <1>1 DEF Cumple, IInvPlana, Dominios
<1> QED
  BY <1>1, <1>2, TiposPlana DEF Cumple, SinHuecos

(* Writing the page that leaves the cache back keeps what is in the frames, *)
(* its own frame included.                                                  *)
LEMMA GuardarVictimaConserva ==
    ASSUME Cumple, ConCache, NEW i, Guarda(i)
    PROVE  LET v == VictimaCache(cache, config.reemplazoCache)
               u == ContenidoTrasGuardar(i)
           IN \A p \in conTabla : \A j \in DOMAIN tabla[p] :
                ~(p = pid /\ \E e \in DOMAIN cache.entradas \ {v} :
                               cache.entradas[e].pagina = j /\ cache.entradas[e].modificado)
                  => Conserva(u[tabla[p][j]], programa[p][j])
<1> DEFINE v == VictimaCache(cache, config.reemplazoCache)
           u == ContenidoTrasGuardar(i)
           a == cache.entradas[v].pagina
           t == cache.entradas[v].contenido
<1>1. /\ v \in DOMAIN cache.entradas /\ a \in DOMAIN tabla[pid] /\ t \in Pagina
      /\ TodoConservado /\ EnCpu /\ IInvPlana /\ ~Roto
  BY SalePropia DEF Guarda, Sale, Cumple, IInvPlana
<1>2. u = [contenido EXCEPT ![tabla[pid][a]] = CopiarTexto(contenido[tabla[pid][a]], t)]
  BY <1>1, ContenidoTrasGuardarTipo DEF Sale
<1> HIDE DEF v, u, a, t
<1>3. /\ u[tabla[pid][a]] = CopiarTexto(contenido[tabla[pid][a]], t)
      /\ \A p \in conTabla : \A j \in DOMAIN tabla[p] :
           (p # pid \/ j # a) => u[tabla[p][j]] = contenido[tabla[p][j]]
  <2>1. PICK x : x = CopiarTexto(contenido[tabla[pid][a]], t)
    OBVIOUS
  <2>2. PICK b \in DOMAIN tabla[pid] : b = a
    BY <1>1
  <2>3. PICK w : w = u
    OBVIOUS
  <2>4. ConPagina(w, b, x)
    BY <1>2, <2>1, <2>2, <2>3 DEF ConPagina
  <2>5. /\ w[tabla[pid][b]] = x
        /\ \A p \in conTabla : \A j \in DOMAIN tabla[p] :
             (p # pid \/ j # b) => w[tabla[p][j]] = contenido[tabla[p][j]]
    BY <1>1, <2>4, OtroMarco
  <2> QED
    BY <2>1, <2>2, <2>3, <2>5
<1>4. Conserva(CopiarTexto(contenido[tabla[pid][a]], t), programa[pid][a])
  <2>1. Conserva(t, programa[pid][a])
    BY <1>1 DEF TodoConservado, CacheConserva, a, t
  <2> QED
    BY <1>1, <2>1, EscritoEnPagina, CopiarConserva
<1>5. SUFFICES ASSUME NEW p \in conTabla, NEW j \in DOMAIN tabla[p],
                      ~(p = pid /\ \E e \in DOMAIN cache.entradas \ {v} :
                          cache.entradas[e].pagina = j /\ cache.entradas[e].modificado)
               PROVE  Conserva(u[tabla[p][j]], programa[p][j])
  BY DEF u, v
<1>6. CASE p = pid /\ j = a
  BY <1>3, <1>4, <1>6
<1>7. CASE ~(p = pid /\ j = a)
  <2>1. ~(p = pid /\ PendienteEn(cache, guardando, j))
    BY <1>5, <1>7 DEF PendienteEn, a
  <2>2. Conserva(contenido[tabla[p][j]], programa[p][j])
    BY <1>1, <2>1 DEF TodoConservado, MarcosConservan
  <2> QED
    BY <1>3, <1>7, <2>2
<1> QED
  BY <1>6, <1>7

(* The page that busqueda_cache brings has what was written in it: it was   *)
(* not cached, so its frame has it, before and after the victim is written  *)
(* back.                                                                    *)
LEMMA MarcoLeidoConserva ==
    ASSUME Cumple, ConCache, NEW i \in DOMAIN tabla[pid], ~Esta(cache, i),
           NEW q \in PaginasLeidas(MarcoLeido(i))
    PROVE  Conserva(q, programa[pid][i])
<1>0. EnCpu /\ TodoConservado
  BY DEF Cumple, IInvPlana
<1>1. TlbTrasGuardar(i) \in Tlbs(config.entradasTlb, Marco) /\ TlbFiel(TlbTrasGuardar(i))
  <2>1. CASE Guarda(i)
    <3>1. Sale(cache).pagina \in DOMAIN tabla[pid]
      BY <1>0, <2>1, SalePropia DEF Guarda
    <3> QED
      BY <1>0, <2>1, <3>1, TlbTrasFiel, TiposEnCpu DEF TlbTrasGuardar
  <2>2. CASE ~Guarda(i)
    BY <1>0, <2>2, TiposEnCpu DEF TlbTrasGuardar
  <2> QED
    BY <2>1, <2>2
<1> DEFINE m == ContenidoTrasGuardar(i)[tabla[pid][i]]
<1>2. MarcoLeido(i) = m
  BY <1>1, MarcoDeTabla DEF MarcoLeido
<1>3. m \in Pagina
  BY <1>0, EscritoEnPagina, ContenidoTrasGuardarTipo
<1>4. \A e \in DOMAIN cache.entradas : cache.entradas[e].pagina # i
  BY DEF Esta, EntradasCon
<1>5. Conserva(m, programa[pid][i])
  <2>1. CASE Guarda(i)
    BY <1>4, <2>1, GuardarVictimaConserva, EscritoEnPagina
  <2>2. CASE ~Guarda(i)
    <3>1. ~PendienteEn(cache, guardando, i)
      BY <1>4 DEF PendienteEn
    <3> QED
      BY <1>0, <2>2, <3>1, EscritoEnPagina DEF TodoConservado, MarcosConservan, ContenidoTrasGuardar
  <2> QED
    BY <2>1, <2>2
<1> HIDE DEF m
<1> QED
  BY <1>2, <1>3, <1>5, EscritoEnPagina, LeerConserva

LEMMA BuscarConserva ==
    ASSUME Cumple, guardando = 0, ConCache,
           NEW i \in DOMAIN tabla[pid], NEW c \in CachesTrasBuscar(i)
    PROVE  CacheConserva(c) /\ MarcosConservan(ContenidoTrasGuardar(i), c, 0)
<1> DEFINE u == ContenidoTrasGuardar(i)
<1>0. EnCpu /\ TodoConservado
  BY DEF Cumple, IInvPlana
<1>1. CASE Esta(cache, i)
  <2>1. u = contenido
    BY <1>1 DEF ContenidoTrasGuardar, Guarda
  <2>2. MismasEntradas(cache, c)
    BY <1>0, <1>1, BuscarEncuentra
  <2>3. CacheConserva(c)
    BY <1>0, <2>2 DEF TodoConservado, CacheConserva, MismasEntradas
  <2>4. \A j : PendienteEn(cache, 0, j) => PendienteEn(c, 0, j)
    BY <2>2 DEF PendienteEn, MismasEntradas
  <2> QED
    BY <1>0, <2>1, <2>3, <2>4 DEF TodoConservado, MarcosConservan
<1>2. CASE ~Esta(cache, i)
  <2>1. PICK q \in PaginasLeidas(MarcoLeido(i)), e \in DOMAIN c.entradas :
          /\ Agregada(cache, c, e, i, q)
          /\ IF Llena(cache, config.entradasCache)
             THEN e = VictimaCache(cache, config.reemplazoCache)
             ELSE e \notin DOMAIN cache.entradas
    BY <1>0, <1>2, BuscarTrae
  <2>2. Conserva(q, programa[pid][i])
    BY <1>2, MarcoLeidoConserva
  <2>3. CacheConserva(c)
    BY <1>0, <2>1, <2>2 DEF TodoConservado, CacheConserva, Agregada
  <2>4. ASSUME NEW j, NEW f \in DOMAIN cache.entradas \ {e},
               cache.entradas[f].pagina = j, cache.entradas[f].modificado
        PROVE  PendienteEn(c, 0, j)
    <3>1. f \in DOMAIN c.entradas \ {e} /\ f >= 0
      <4>1. cache.entradas \in Seq(EntradaCache(Pagina))
        BY <1>0, TiposEnCpu DEF Caches
      <4>2. f \in Nat
        BY <4>1
      <4> QED
        BY <2>1, <4>2 DEF Agregada
    <3> QED
      BY <2>1, <2>4, <3>1 DEF PendienteEn, Agregada
  <2>5. ASSUME NEW p \in conTabla, NEW j \in DOMAIN tabla[p],
               ~(p = pid /\ PendienteEn(c, 0, j))
        PROVE  Conserva(u[tabla[p][j]], programa[p][j])
    <3>1. CASE Guarda(i)
      <4>1. e = VictimaCache(cache, config.reemplazoCache)
        BY <2>1, <3>1 DEF Guarda
      <4>2. ~(p = pid /\ \E f \in DOMAIN cache.entradas \ {e} :
                           cache.entradas[f].pagina = j /\ cache.entradas[f].modificado)
        BY <2>4, <2>5
      <4> QED
        BY <3>1, <4>1, <4>2, GuardarVictimaConserva
    <3>2. CASE ~Guarda(i)
      <4>1. e \in DOMAIN cache.entradas => ~cache.entradas[e].modificado
        BY <1>2, <2>1, <3>2 DEF Guarda, Sale
      <4>2. ~(p = pid /\ PendienteEn(cache, guardando, j))
        BY <2>4, <2>5, <4>1 DEF PendienteEn
      <4> QED
        BY <1>0, <3>2, <4>2 DEF TodoConservado, MarcosConservan, ContenidoTrasGuardar
    <3> QED
      BY <3>1, <3>2
  <2> HIDE DEF u
  <2>6. MarcosConservan(u, c, 0)
    BY <2>5 DEF MarcosConservan
  <2> QED
    BY <2>3, <2>6 DEF u
<1> QED
  BY <1>1, <1>2
-----------------------------------------------------------------------------
(* A step that leaves the tables, the swap file and the programs alone.     *)
LEMMA PasoDeCpu ==
    ASSUME IInvPlana, ~Roto, UNCHANGED Memoria_sin_contenido, pid' = pid,
           programa' = programa, CacheConserva(cache'),
           MarcosConservan(contenido', cache', guardando')
    PROVE  TodoConservado'
<1>1. SwapConserva
  BY DEF IInvPlana, TodoConservado
<1>2. UNCHANGED <<conTabla, tabla, enSwap, offsets, archivoSwap>>
  BY DEF Memoria_sin_contenido
<1>3. SwapConserva'
  BY <1>1, <1>2 DEF SwapConserva
<1>4. CacheConserva(cache)'
  BY DEF CacheConserva
<1>5. MarcosConservan(contenido, cache, guardando)'
  BY <1>2 DEF MarcosConservan
<1> QED
  BY <1>3, <1>4, <1>5 DEF TodoConservado

(* A CPU without a cache has nothing in it.                                 *)
LEMMA SinCacheVacia ==
    ASSUME EnCpu, ~ConCache
    PROVE  DOMAIN cache.entradas = {}
<1>1. /\ cache.entradas \in Seq(EntradaCache(Pagina)) /\ Len(cache.entradas) <= 0
  BY TiposEnCpu DEF ConCache, Caches
<1> QED
  BY <1>1

LEMMA LeerConservado ==
    ASSUME IInvPlana, ~Roto, SinHuecos, NEW i, Leer(i)
    PROVE  TodoConservado'
<1>0. /\ Cumple /\ guardando = 0 /\ i \in DOMAIN tabla[pid] /\ TodoConservado /\ EnCpu
      /\ UNCHANGED Memoria_sin_contenido
      /\ pid' = pid /\ programa' = programa /\ guardando' = 0
  BY DEF Leer, Ejecuta, EnCpu, Cumple, IInvPlana, IInvDistintas
<1>1. CASE ConCache
  <2>1. contenido' = ContenidoTrasGuardar(i) /\ cache' \in CachesTrasBuscar(i)
    BY <1>1 DEF Leer, Buscar
  <2>2. CacheConserva(cache') /\ MarcosConservan(contenido', cache', 0)
    BY <1>0, <1>1, <2>1, BuscarConserva
  <2> QED
    BY <1>0, <2>2, PasoDeCpu
<1>2. CASE ~ConCache
  <2>1. contenido' = contenido /\ cache' = cache
    BY <1>2 DEF Leer
  <2> QED
    BY <1>0, <2>1, PasoDeCpu DEF TodoConservado
<1> QED
  BY <1>1, <1>2

(* What a WRITE does to what the program wrote.                             *)
LEMMA EscribirPrograma ==
    ASSUME IInvPlana, NEW i, NEW d, NEW t, Escribir(i, d, t)
    PROVE  /\ programa'[pid][i] = Encima(programa[pid][i], d, t)
           /\ \A p \in Procs : \A j \in DOMAIN programa[p] :
                (p # pid \/ j # i) => programa'[p][j] = programa[p][j]
           /\ \A p \in Procs : DOMAIN programa'[p] = DOMAIN programa[p]
<1>0. EnCpu /\ i \in DOMAIN tabla[pid]
  BY DEF Escribir, Ejecuta, EnCpu, IInvPlana, IInvDistintas
<1>1. pid \in Procs /\ pid \in conTabla /\ i \in DOMAIN programa[pid]
  BY <1>0, TiposEnCpu DEF IInvPlana, Dominios
<1>2. programa' = [programa EXCEPT ![pid] = [@ EXCEPT ![i] = Encima(programa[pid][i], d, t)]]
  BY DEF Escribir
<1>3. programa \in [Procs -> Seq(Pagina)]
  BY TiposPlana
<1>4. PICK v : v = Encima(programa[pid][i], d, t)
  OBVIOUS
<1>5. PICK s \in Seq(Pagina) : s = programa[pid]
  BY <1>1, <1>3
<1>6. PICK r : r = [s EXCEPT ![i] = v]
  OBVIOUS
<1>7. DOMAIN r = DOMAIN s /\ r[i] = v /\ \A j \in DOMAIN s \ {i} : r[j] = s[j]
  BY <1>1, <1>5, <1>6
<1>8. programa' = [programa EXCEPT ![pid] = r]
  BY <1>2, <1>4, <1>5, <1>6
<1>9. programa'[pid] = r /\ \A p \in Procs \ {pid} : programa'[p] = programa[p]
  BY <1>1, <1>3, <1>8
<1>10. programa'[pid][i] = Encima(programa[pid][i], d, t)
  BY <1>4, <1>7, <1>9
<1>11. \A p \in Procs : \A j \in DOMAIN programa[p] :
          (p # pid \/ j # i) => programa'[p][j] = programa[p][j]
  BY <1>5, <1>7, <1>9
<1>12. \A p \in Procs : DOMAIN programa'[p] = DOMAIN programa[p]
  BY <1>5, <1>7, <1>9
<1> QED
  BY <1>10, <1>11, <1>12

LEMMA EscribirConservado ==
    ASSUME IInvPlana, ~Roto, SinHuecos, NEW w \in EscriturasDelProceso,
           Escribir(w.pagina, w.desde, w.texto)
    PROVE  TodoConservado'
<1>i. PICK i, d, t : i = w.pagina /\ d = w.desde /\ t = w.texto
  OBVIOUS
<1>e. Escribir(i, d, t)
  BY <1>i
<1>0. /\ Cumple /\ guardando = 0 /\ i \in DOMAIN tabla[pid] /\ TodoConservado /\ EnCpu
      /\ w \in Escrituras[pid] /\ pid' = pid /\ guardando' = 0
      /\ UNCHANGED <<conTabla, tabla, enSwap, offsets, archivoSwap>>
  BY <1>e DEF Escribir, Ejecuta, EnCpu, Cumple, IInvPlana, IInvDistintas, EscriturasDelProceso,
     Memoria_sin_contenido
<1>1. /\ pid \in Procs /\ pid \in conTabla /\ conTabla \subseteq Procs /\ enSwap \subseteq Procs
      /\ pid \notin enSwap
  BY <1>0, TiposEnCpu, TiposPlana
<1>2. /\ programa'[pid][i] = Encima(programa[pid][i], d, t)
      /\ \A p \in Procs : \A j \in DOMAIN programa[p] :
           (p # pid \/ j # i) => programa'[p][j] = programa[p][j]
  BY <1>e, EscribirPrograma
<1>d. /\ \A p \in conTabla : DOMAIN tabla[p] = DOMAIN programa[p]
      /\ \A p \in enSwap : DOMAIN offsets[p] = DOMAIN programa[p]
  BY DEF IInvPlana, Dominios
<1>3. SwapConserva'
  BY <1>0, <1>1, <1>2, <1>d DEF TodoConservado, SwapConserva
<1>4. CASE ConCache
  <2>1. PICK u : u = contenido'
    OBVIOUS
  <2>2. PICK r : r = cache'
    OBVIOUS
  <2>3. PICK c \in CachesTrasBuscar(i) : r = Modificada(c, i, d, t)
    BY <1>4, <1>e, <2>2 DEF Escribir
  <2>4. CacheConserva(c) /\ MarcosConservan(u, c, 0)
    <3>1. u = ContenidoTrasGuardar(i)
      BY <1>4, <1>e, <2>1 DEF Escribir, Buscar
    <3> QED
      BY <1>0, <1>4, <3>1, BuscarConserva
  <2>5. PICK e \in DOMAIN c.entradas : Escrita(c, r, e, i, d, t)
    BY <1>0, <1>4, <1>i, <2>3, EscribirCache
  <2>6. Distintas(c) /\ e \in Nat
    <3>1. Distintas(c)
      BY <1>0, <1>4, CacheTrasBuscarDistintas DEF IInvPlana, IInvDistintas
    <3>2. c.entradas \in Seq(EntradaCache(Pagina))
      BY <1>0, <1>4, BuscarDeja DEF Caches
    <3> QED
      BY <3>1, <3>2
  <2>7. ASSUME NEW j \in DOMAIN r.entradas
        PROVE  Conserva(r.entradas[j].contenido, programa'[pid][r.entradas[j].pagina])
    <3>1. CASE j = e
      <4>1. Conserva(c.entradas[e].contenido, programa[pid][i])
        BY <2>4, <2>5 DEF CacheConserva, Escrita
      <4>2. Conserva(Encima(c.entradas[e].contenido, d, t), Encima(programa[pid][i], d, t))
        BY <4>1, EncimaConserva
      <4> QED
        BY <1>2, <2>5, <3>1, <4>2 DEF Escrita
    <3>2. CASE j # e
      <4>1. r.entradas[j] = c.entradas[j] /\ j \in DOMAIN c.entradas
        BY <2>5, <2>7, <3>2 DEF Escrita
      <4>2. c.entradas[j].pagina # i
        BY <2>5, <2>6, <3>2, <4>1 DEF Distintas, Escrita
      <4>3. Conserva(c.entradas[j].contenido, programa[pid][c.entradas[j].pagina])
        BY <2>4, <4>1 DEF CacheConserva
      <4>4. c.entradas[j].pagina \in DOMAIN tabla[pid]
        BY <1>0, <1>4, <4>1, BuscarDeja DEF PaginasPropias
      <4> QED
        BY <1>1, <1>2, <1>d, <4>1, <4>2, <4>3, <4>4
    <3> QED
      BY <3>1, <3>2
  <2>8. ASSUME NEW p \in conTabla, NEW j \in DOMAIN tabla[p],
               ~(p = pid /\ PendienteEn(r, 0, j))
        PROVE  Conserva(u[tabla[p][j]], programa'[p][j])
    <3>1. PendienteEn(r, 0, i)
      BY <2>5, <2>6 DEF PendienteEn, Escrita
    <3>2. PendienteEn(c, 0, j) => PendienteEn(r, 0, j)
      BY <2>5, <2>6 DEF PendienteEn, Escrita
    <3>3. Conserva(u[tabla[p][j]], programa[p][j])
      BY <2>4, <2>8, <3>2 DEF MarcosConservan
    <3> QED
      BY <1>1, <1>2, <1>d, <2>8, <3>1, <3>3
  <2>9. CacheConserva(cache)'
    BY <1>0, <2>2, <2>7 DEF CacheConserva
  <2>10. MarcosConservan(contenido, cache, guardando)'
    BY <1>0, <2>1, <2>2, <2>8 DEF MarcosConservan
  <2> QED
    BY <1>3, <2>9, <2>10 DEF TodoConservado
<1>5. CASE ~ConCache
  <2>1. cache' = cache /\ DOMAIN cache.entradas = {}
    BY <1>0, <1>5, SinCacheVacia DEF Escribir
  <2>2. PICK x : x = Encima(contenido[tabla[pid][i]], d, t)
    OBVIOUS
  <2>3. PICK u : u = contenido'
    OBVIOUS
  <2>4. u = [contenido EXCEPT ![tabla[pid][i]] = x]
    <3>1. contenido' = [contenido EXCEPT ![MarcoDe(tlb, i)] = Encima(@, d, t)]
      BY <1>5, <1>e DEF Escribir
    <3>2. MarcoDe(tlb, i) = tabla[pid][i]
      BY <1>0, TiposEnCpu, MarcoDeTabla
    <3> QED
      BY <2>2, <2>3, <3>1, <3>2
  <2>5. /\ u[tabla[pid][i]] = x
        /\ \A p \in conTabla : \A j \in DOMAIN tabla[p] :
             (p # pid \/ j # i) => u[tabla[p][j]] = contenido[tabla[p][j]]
    <3>1. PICK b \in DOMAIN tabla[pid] : b = i
      BY <1>0
    <3>2. ConPagina(u, b, x)
      BY <2>4, <3>1 DEF ConPagina
    <3>3. IInvPlana /\ ~Roto /\ EnCpu
      BY <1>0 DEF Cumple
    <3>4. /\ u[tabla[pid][b]] = x
          /\ \A p \in conTabla : \A j \in DOMAIN tabla[p] :
               (p # pid \/ j # b) => u[tabla[p][j]] = contenido[tabla[p][j]]
      BY <3>2, <3>3, OtroMarco
    <3> QED
      BY <3>1, <3>4
  <2>6. \A j : ~PendienteEn(cache, guardando, j)
    BY <2>1 DEF PendienteEn
  <2>7. ASSUME NEW p \in conTabla, NEW j \in DOMAIN tabla[p]
        PROVE  Conserva(u[tabla[p][j]], programa'[p][j])
    <3>1. Conserva(contenido[tabla[p][j]], programa[p][j])
      BY <1>0, <2>6 DEF TodoConservado, MarcosConservan
    <3>2. CASE p = pid /\ j = i
      BY <1>2, <2>2, <2>5, <3>1, <3>2, EncimaConserva
    <3>3. CASE ~(p = pid /\ j = i)
      BY <1>1, <1>2, <1>d, <2>5, <3>1, <3>3
    <3> QED
      BY <3>2, <3>3
  <2>8. CacheConserva(cache)'
    BY <2>1 DEF CacheConserva
  <2>9. MarcosConservan(contenido, cache, guardando)'
    BY <1>0, <2>3, <2>7 DEF MarcosConservan
  <2> QED
    BY <1>3, <2>8, <2>9 DEF TodoConservado
<1> QED
  BY <1>4, <1>5

LEMMA GuardarConservado ==
    ASSUME IInvPlana, ~Roto, SinHuecos, Guardar
    PROVE  TodoConservado'
<1> DEFINE e == cache.entradas[guardando]
           a == e.pagina
           t == e.contenido
<1>0. /\ guardando \in DOMAIN cache.entradas /\ guardando' = guardando + 1
      /\ cache' = cache /\ pid' = pid /\ programa' = programa
      /\ UNCHANGED Memoria_sin_contenido /\ TodoConservado
  BY DEF Guardar, IInvPlana
<1>1. EnCpu /\ Cumple
  BY <1>0 DEF EnCpu, Cumple, IInvPlana, IInvDistintas, IInvCpu, Vacia
<1>2. cache.entradas \in Seq(EntradaCache(Pagina))
  BY <1>1, TiposEnCpu DEF Caches
<1>3. /\ a \in DOMAIN tabla[pid] /\ t \in Pagina /\ guardando \in Nat
      /\ Conserva(t, programa[pid][a])
  <2>1. e \in EntradaCache(Pagina)
    BY <1>0, <1>2, ElementoDe
  <2>2. t \in Pagina
    BY <2>1 DEF EntradaCache
  <2>3. a \in DOMAIN tabla[pid]
    BY <1>0, <1>1, TiposEnCpu DEF PaginasPropias
  <2>4. Conserva(t, programa[pid][a])
    BY <1>0 DEF TodoConservado, CacheConserva
  <2>5. guardando \in Nat
    BY <1>0, <1>2
  <2> QED
    BY <2>2, <2>3, <2>4, <2>5
<1>4. \A j : PendienteEn(cache, guardando, j) /\ (j # a \/ ~e.modificado)
                => PendienteEn(cache, guardando + 1, j)
  <2>1. \A f \in DOMAIN cache.entradas : f >= guardando /\ f # guardando => f >= guardando + 1
    BY <1>2, <1>3
  <2> QED
    BY <2>1 DEF PendienteEn
<1>5. CacheConserva(cache')
  BY <1>0 DEF TodoConservado, CacheConserva
<1>6. PICK u : u = contenido'
  OBVIOUS
<1>7. ASSUME NEW p \in conTabla, NEW j \in DOMAIN tabla[p],
             ~(p = pid /\ PendienteEn(cache, guardando + 1, j))
      PROVE  Conserva(u[tabla[p][j]], programa[p][j])
  <2>1. CASE e.modificado
    <3>1. PICK x : x = CopiarTexto(contenido[tabla[pid][a]], t)
      OBVIOUS
    <3>2. PICK b \in DOMAIN tabla[pid] : b = a
      BY <1>3
    <3>3. ConPagina(u, b, x)
      <4>1. MarcoDe(tlb, a) = tabla[pid][a]
        BY <1>1, TiposEnCpu, MarcoDeTabla
      <4>2. contenido' = [contenido EXCEPT ![MarcoDe(tlb, a)] = CopiarTexto(@, t)]
        BY <2>1 DEF Guardar
      <4> QED
        BY <1>6, <3>1, <3>2, <4>1, <4>2 DEF ConPagina
    <3>4. /\ u[tabla[pid][b]] = x
          /\ \A q \in conTabla : \A k \in DOMAIN tabla[q] :
               (q # pid \/ k # b) => u[tabla[q][k]] = contenido[tabla[q][k]]
      BY <1>1, <3>3, OtroMarco
    <3>5. Conserva(x, programa[pid][b])
      BY <1>1, <1>3, <3>1, <3>2, EscritoEnPagina, CopiarConserva
    <3>6. CASE p = pid /\ j = b
      BY <3>4, <3>5, <3>6
    <3>7. CASE ~(p = pid /\ j = b)
      <4>1. ~(p = pid /\ PendienteEn(cache, guardando, j))
        BY <1>4, <1>7, <3>2, <3>7
      <4>2. Conserva(contenido[tabla[p][j]], programa[p][j])
        BY <1>0, <4>1 DEF TodoConservado, MarcosConservan
      <4> QED
        BY <3>4, <3>7, <4>2
    <3> QED
      BY <3>6, <3>7
  <2>2. CASE ~e.modificado
    <3>1. u = contenido
      BY <1>6, <2>2 DEF Guardar
    <3>2. ~(p = pid /\ PendienteEn(cache, guardando, j))
      BY <1>4, <1>7, <2>2
    <3> QED
      BY <1>0, <3>1, <3>2 DEF TodoConservado, MarcosConservan
  <2> QED
    BY <2>1, <2>2
<1>8. MarcosConservan(contenido', cache', guardando')
  BY <1>0, <1>6, <1>7 DEF MarcosConservan
<1> QED
  BY <1>0, <1>5, <1>8, PasoDeCpu

(* A process comes and goes with the cache empty or written back.           *)
LEMMA RecibirConservado ==
    ASSUME IInvPlana, ~Roto, NEW p \in Procs, Recibir(p)
    PROVE  TodoConservado'
<1>0. /\ pid = Nadie /\ pid' = p /\ cache' = Vacia /\ cache = Vacia
      /\ guardando' = guardando /\ programa' = programa
      /\ UNCHANGED <<conTabla, tabla, enSwap, offsets, archivoSwap, contenido>>
      /\ TodoConservado
  BY DEF Recibir, CacheNueva, vars, IInvPlana, IInvDistintas, IInvCpu
<1>1. \A g, j : ~PendienteEn(Vacia, g, j)
  BY DEF PendienteEn, Vacia
<1>2. MarcosConservan(contenido, cache, guardando)'
  BY <1>0, <1>1 DEF TodoConservado, MarcosConservan
<1>3. CacheConserva(cache)'
  BY <1>0 DEF CacheConserva, Vacia
<1>4. SwapConserva'
  BY <1>0 DEF TodoConservado, SwapConserva
<1> QED
  BY <1>2, <1>3, <1>4 DEF TodoConservado

LEMMA FrenarConservado ==
    ASSUME IInvPlana, ~Roto, Frenar
    PROVE  TodoConservado'
<1>0. /\ guardando = 0 /\ guardando' = 1 /\ cache' = cache /\ pid' = pid /\ programa' = programa
      /\ UNCHANGED vars /\ TodoConservado /\ EnCpu
  BY DEF Frenar, IInvPlana, EnCpu, IInvDistintas
<1>1. \A e \in DOMAIN cache.entradas : e >= 1
  <2>1. cache.entradas \in Seq(EntradaCache(Pagina))
    BY <1>0, TiposEnCpu DEF Caches
  <2> QED
    BY <2>1
<1>2. \A j : PendienteEn(cache, 0, j) => PendienteEn(cache, 1, j)
  BY <1>1 DEF PendienteEn
<1>3. MarcosConservan(contenido', cache', guardando')
  BY <1>0, <1>2 DEF TodoConservado, MarcosConservan, vars
<1>4. CacheConserva(cache')
  BY <1>0 DEF TodoConservado
<1>5. UNCHANGED Memoria_sin_contenido
  BY <1>0 DEF vars, Memoria_sin_contenido
<1> QED
  BY <1>0, <1>3, <1>4, <1>5, PasoDeCpu

LEMMA DevolverConservado ==
    ASSUME IInvPlana, ~Roto, Devolver
    PROVE  TodoConservado'
<1>0. /\ guardando = Len(cache.entradas) + 1 /\ pid' = Nadie /\ cache' = Vacia
      /\ programa' = programa
      /\ UNCHANGED <<conTabla, tabla, enSwap, offsets, archivoSwap, contenido>>
      /\ TodoConservado
  BY DEF Devolver, CacheNueva, vars, IInvPlana
<1>1. cache.entradas \in Seq(EntradaCache(Pagina))
  BY DEF IInvPlana, IInvDistintas, IInvCpu, TypeOKCpu, Caches
<1>2. \A j : ~PendienteEn(cache, guardando, j)
  BY <1>0, <1>1 DEF PendienteEn
<1>3. \A g, j : ~PendienteEn(Vacia, g, j)
  BY DEF PendienteEn, Vacia
<1>4. MarcosConservan(contenido, cache, guardando)'
  BY <1>0, <1>2, <1>3 DEF TodoConservado, MarcosConservan
<1>5. CacheConserva(cache)'
  BY <1>0 DEF CacheConserva, Vacia
<1>6. SwapConserva'
  BY <1>0 DEF TodoConservado, SwapConserva
<1> QED
  BY <1>4, <1>5, <1>6 DEF TodoConservado
-----------------------------------------------------------------------------
(* A request of the kernel about p touches no page of another process, and  *)
(* what it leaves of p has what p wrote.                                    *)
OtrosQuietos(p) ==
    /\ UNCHANGED <<pid, cache, guardando>>
    /\ conTabla' \subseteq conTabla \cup {p}
    /\ enSwap' \subseteq enSwap \cup {p}
    /\ \A q \in Procs \ {p} :
         /\ programa'[q] = programa[q]
         /\ tabla'[q] = tabla[q]
         /\ offsets'[q] = offsets[q]
    /\ \A q \in conTabla \ {p} : \A i \in DOMAIN tabla[q] :
         contenido'[tabla[q][i]] = contenido[tabla[q][i]]
    /\ \A q \in enSwap \ {p} : \A i \in DOMAIN offsets[q] :
         archivoSwap'[offsets[q][i]] = archivoSwap[offsets[q][i]]

SuyasConservadas(p) ==
    /\ p \in conTabla' => \A i \in DOMAIN tabla'[p] :
                            Conserva(contenido'[tabla'[p][i]], programa'[p][i])
    /\ p \in enSwap' => \A i \in DOMAIN offsets'[p] :
                          Conserva(archivoSwap'[offsets'[p][i]], programa'[p][i])

LEMMA KernelConserva ==
    ASSUME IInvPlana, ~Roto, NEW p \in Procs, p # pid, OtrosQuietos(p), SuyasConservadas(p)
    PROVE  TodoConservado'
<1>0. /\ TodoConservado /\ pid' = pid /\ cache' = cache /\ guardando' = guardando
      /\ conTabla \subseteq Procs /\ enSwap \subseteq Procs
  BY TiposPlana DEF IInvPlana, OtrosQuietos
<1>1. CacheConserva(cache)'
  <2>1. CASE pid = Nadie
    BY <1>0, <2>1 DEF IInvPlana, IInvDistintas, IInvCpu, Vacia, CacheConserva
  <2>2. CASE pid # Nadie
    <3>1. programa'[pid] = programa[pid]
      BY <1>0, <2>2 DEF OtrosQuietos, IInvPlana, IInvDistintas, IInvCpu
    <3> QED
      BY <1>0, <3>1 DEF TodoConservado, CacheConserva
  <2> QED
    BY <2>1, <2>2
<1>2. ASSUME NEW q \in conTabla', NEW i \in DOMAIN tabla'[q],
             ~(q = pid /\ PendienteEn(cache, guardando, i))
      PROVE  Conserva(contenido'[tabla'[q][i]], programa'[q][i])
  <2>1. CASE q = p
    BY <1>2, <2>1 DEF SuyasConservadas
  <2>2. CASE q # p
    <3>1. /\ q \in conTabla \ {p} /\ q \in Procs \ {p}
          /\ tabla'[q] = tabla[q] /\ programa'[q] = programa[q]
      BY <1>0, <1>2, <2>2 DEF OtrosQuietos
    <3>2. Conserva(contenido[tabla[q][i]], programa[q][i])
      BY <1>0, <1>2, <3>1 DEF TodoConservado, MarcosConservan
    <3>3. contenido'[tabla[q][i]] = contenido[tabla[q][i]]
      BY <1>2, <3>1 DEF OtrosQuietos
    <3> QED
      BY <3>1, <3>2, <3>3
  <2> QED
    BY <2>1, <2>2
<1>3. ASSUME NEW q \in enSwap', NEW i \in DOMAIN offsets'[q]
      PROVE  Conserva(archivoSwap'[offsets'[q][i]], programa'[q][i])
  <2>1. CASE q = p
    BY <1>3, <2>1 DEF SuyasConservadas
  <2>2. CASE q # p
    <3>1. /\ q \in enSwap \ {p} /\ q \in Procs \ {p}
          /\ offsets'[q] = offsets[q] /\ programa'[q] = programa[q]
      BY <1>0, <1>3, <2>2 DEF OtrosQuietos
    <3>2. Conserva(archivoSwap[offsets[q][i]], programa[q][i])
      BY <1>0, <1>3, <3>1 DEF TodoConservado, SwapConserva
    <3>3. archivoSwap'[offsets[q][i]] = archivoSwap[offsets[q][i]]
      BY <1>3, <3>1 DEF OtrosQuietos
    <3> QED
      BY <3>1, <3>2, <3>3
  <2> QED
    BY <2>1, <2>2
<1>4. MarcosConservan(contenido, cache, guardando)'
  BY <1>0, <1>2 DEF MarcosConservan
<1>5. SwapConserva'
  BY <1>3 DEF SwapConserva
<1> QED
  BY <1>1, <1>4, <1>5 DEF TodoConservado

LEMMA CargarConservado ==
    ASSUME IInvPlana, ~Roto, NEW p \in Procs, Cargar(p)
    PROVE  TodoConservado'
<1>0. /\ programa' = [programa EXCEPT ![p] = [i \in DOMAIN tabla'[p] |-> PaginaNula]]
      /\ UNCHANGED <<pid, cache, guardando>>
      /\ p \notin cargados /\ conTabla' = conTabla \cup {p}
      /\ UNCHANGED <<contenido, enSwap, offsets, archivoSwap>>
  BY PrimeraAdmision DEF Cargar, InitProcess
<1>1. PICK t : tabla' = [tabla EXCEPT ![p] = t]
  BY DEF Cargar, InitProcess
<1>2. programa'[p] = [i \in DOMAIN tabla'[p] |-> PaginaNula]
  BY <1>0, TiposPlana
<1>3. p # pid /\ p \notin enSwap'
  BY <1>0, TiposPlana, NadieAssumption DEF IInvPlana, IInvDistintas, IInvCpu
<1>4. OtrosQuietos(p)
  BY <1>0, <1>1, TiposPlana DEF OtrosQuietos
<1>5. SuyasConservadas(p)
  BY <1>2, <1>3 DEF SuyasConservadas, Conserva, PaginaNula
<1> QED
  BY <1>3, <1>4, <1>5, KernelConserva

LEMMA FinalizarConservado ==
    ASSUME IInvPlana, ~Roto, NEW p \in Procs, Finalizar(p)
    PROVE  TodoConservado'
<1>0. /\ programa' = [programa EXCEPT ![p] = <<>>]
      /\ UNCHANGED <<pid, cache, guardando>> /\ p # pid
      /\ enSwap' = enSwap \ {p} /\ offsets' = [offsets EXCEPT ![p] = <<>>]
      /\ UNCHANGED <<contenido, archivoSwap>>
  BY DEF Finalizar, FinishProcess
<1>1. conTabla' = conTabla \ {p}
  BY TiposPlana DEF Finalizar, FinishProcess
<1>2. \A q \in Procs \ {p} : tabla'[q] = tabla[q]
  BY TiposPlana DEF Finalizar, FinishProcess
<1>3. \A q \in Procs \ {p} : offsets'[q] = offsets[q] /\ programa'[q] = programa[q]
  BY <1>0, TiposPlana DEF IInvPlana, IInvASolas, TypeOK
<1>4. OtrosQuietos(p)
  BY <1>0, <1>1, <1>2, <1>3 DEF OtrosQuietos
<1>5. SuyasConservadas(p)
  BY <1>0, <1>1 DEF SuyasConservadas
<1> QED
  BY <1>0, <1>4, <1>5, KernelConserva

(* SUSPENDER_PROCESO writes after what any other process has in the file.   *)
LEMMA SuspenderConservado ==
    ASSUME IInvPlana, ~Roto, NEW p \in Procs, p # pid, SuspendProcess(p), UNCHANGED varsCpu
    PROVE  TodoConservado'
<1> DEFINE n == Len(tabla[p])
<1>0. /\ UNCHANGED <<pid, cache, guardando, programa>>
      /\ p \in conTabla /\ conTabla' = conTabla \ {p} /\ enSwap' = enSwap \cup {p}
      /\ posicion + n <= MaxSwap
      /\ archivoSwap' = ArchivoTrasEscribir(tabla[p])
      /\ offsets' = [offsets EXCEPT ![p] = [i \in 1..n |-> posicion + i - 1]]
      /\ tabla' = [tabla EXCEPT ![p] = <<>>]
      /\ contenido' = contenido /\ TodoConservado
  BY DEF SuspendProcess, varsCpu, IInvPlana
<1>1. /\ tabla \in [Procs -> Seq(Marco)] /\ offsets \in [Procs -> Seq(Slot)]
      /\ posicion \in Nat /\ n \in Nat
  BY MaxSwapAssumption DEF IInvPlana, IInvASolas, TypeOK
<1>2. \A s \in Slot : archivoSwap'[s] = IF s \in posicion..(posicion + n - 1)
                                        THEN contenido[tabla[p][s - posicion + 1]]
                                        ELSE archivoSwap[s]
  BY <1>0 DEF ArchivoTrasEscribir
<1>3. ASSUME NEW q \in enSwap \ {p}, NEW i \in DOMAIN offsets[q]
      PROVE  archivoSwap'[offsets[q][i]] = archivoSwap[offsets[q][i]]
  <2>1. q \in cargados /\ p \in cargados /\ q \in Procs
    BY <1>0, TiposPlana
  <2>2. ~huboSwapIn
    BY <2>1, UnoSolo DEF SinVecinos
  <2>3. offsets[q][i] < posicion
    BY <2>2 DEF IInvPlana, IInvDistintas, IInvCpu, IInv, ArchivoAcumulado
  <2>4. offsets[q][i] \in Slot
    BY <1>1, <2>1, ElementoDe
  <2> QED
    BY <1>1, <1>2, <2>3, <2>4 DEF Slot
<1>4. OtrosQuietos(p)
  BY <1>0, <1>1, <1>3 DEF OtrosQuietos
<1>5. ASSUME NEW i \in DOMAIN offsets'[p]
      PROVE  Conserva(archivoSwap'[offsets'[p][i]], programa'[p][i])
  <2>1. offsets'[p] = [j \in 1..n |-> posicion + j - 1]
    BY <1>0, <1>1
  <2>2. i \in 1..n /\ offsets'[p][i] = posicion + i - 1
    BY <1>5, <2>1
  <2>3. posicion + i - 1 \in Slot /\ (posicion + i - 1) - posicion + 1 = i
        /\ posicion + i - 1 \in posicion..(posicion + n - 1)
    BY <1>0, <1>1, <2>2, MaxSwapAssumption DEF Slot
  <2>4. archivoSwap'[posicion + i - 1] = contenido[tabla[p][i]]
    BY <1>2, <2>3
  <2>5. i \in DOMAIN tabla[p]
    BY <1>1, <2>2
  <2>6. Conserva(contenido[tabla[p][i]], programa[p][i])
    BY <1>0, <2>5 DEF TodoConservado, MarcosConservan
  <2> QED
    BY <1>0, <2>2, <2>4, <2>6
<1>6. SuyasConservadas(p)
  BY <1>0, <1>5 DEF SuyasConservadas
<1> QED
  BY <1>4, <1>6, KernelConserva

(* DESUSPENDER_PROCESO of the only process there has been.                  *)
LEMMA VolverConservado ==
    ASSUME IInvPlana, ~Roto, ~Roto', NEW p \in Procs, p # pid, SwapIn(p), UNCHANGED varsCpu
    PROVE  TodoConservado'
<1>0. /\ UNCHANGED <<pid, cache, guardando, programa>>
      /\ p \in enSwap /\ conTabla' = conTabla \cup {p} /\ enSwap' = enSwap \ {p}
      /\ offsets' = [offsets EXCEPT ![p] = <<>>]
      /\ archivoSwap' = archivoSwap /\ cargados' = cargados /\ finalizados' = finalizados
      /\ huboSwapIn' /\ TodoConservado
  BY DEF SwapIn, varsCpu, IInvPlana
<1>1. /\ offsets \in [Procs -> Seq(Slot)] /\ tabla \in [Procs -> Seq(Marco)]
      /\ Len(offsets[p]) \in Nat
  BY DEF IInvPlana, IInvASolas, TypeOK
<1>2. conTabla \ {p} = {}
  BY <1>0, TiposPlana DEF Roto
<1>3. PICK marcos \in MarcosParaProceso(bitmap, Len(offsets[p])) :
        /\ contenido' = ContenidoTrasLeer(marcos, offsets[p])
        /\ tabla' = [tabla EXCEPT ![p] = TablaCon(marcos)]
  BY DEF SwapIn
<1>4. /\ marcos \in Seq(Marco) /\ Len(marcos) = Len(offsets[p])
      /\ \A i, j \in DOMAIN marcos : marcos[i] = marcos[j] => i = j
  BY <1>1, MarcosElegidos
<1>5. /\ DOMAIN TablaCon(marcos) \subseteq DOMAIN marcos
      /\ \A i \in DOMAIN TablaCon(marcos) : TablaCon(marcos)[i] = marcos[i]
  BY <1>4, TablaConPrefijo
<1>6. tabla'[p] = TablaCon(marcos) /\ \A q \in Procs \ {p} : tabla'[q] = tabla[q]
  BY <1>1, <1>3
<1>7. OtrosQuietos(p)
  BY <1>0, <1>1, <1>2, <1>6 DEF OtrosQuietos
<1>8. ASSUME NEW i \in DOMAIN tabla'[p]
      PROVE  Conserva(contenido'[tabla'[p][i]], programa'[p][i])
  <2>1. i \in DOMAIN marcos /\ tabla'[p][i] = marcos[i] /\ i \in DOMAIN offsets[p]
    BY <1>1, <1>4, <1>5, <1>6, <1>8
  <2>2. contenido'[marcos[i]] = archivoSwap[offsets[p][i]]
    BY <1>3, <1>4, <2>1, PaginasLeidasDelArchivo
  <2>3. Conserva(archivoSwap[offsets[p][i]], programa[p][i])
    BY <1>0, <2>1 DEF TodoConservado, SwapConserva
  <2> QED
    BY <1>0, <2>1, <2>2, <2>3
<1>9. SuyasConservadas(p)
  BY <1>0, <1>8 DEF SuyasConservadas
<1> QED
  BY <1>7, <1>9, KernelConserva

LEMMA VolcarConservado ==
    ASSUME IInvPlana, ~Roto, NEW p \in Procs, DumpProcess(p), UNCHANGED varsCpu
    PROVE  TodoConservado'
<1>1. TodoConservado
  BY DEF IInvPlana
<1>2. /\ UNCHANGED <<conTabla, tabla, contenido, enSwap, offsets, archivoSwap>>
      /\ UNCHANGED <<pid, cache, guardando, programa>>
  BY DEF DumpProcess, varsCpu
<1> QED
  BY <1>1, <1>2 DEF TodoConservado, CacheConserva, MarcosConservan, SwapConserva
-----------------------------------------------------------------------------
LEMMA TablaConLargo ==
    ASSUME NEW S, NEW marcos \in Seq(S)
    PROVE  /\ Len(TablaCon(marcos)) \in Nat
           /\ Len(TablaCon(marcos)) <= PaginasPorTabla
           /\ Len(TablaCon(marcos)) <= Len(marcos)
<1>1. PICK t : t = TablaCon(marcos)
  OBVIOUS
<1>2. t \in Seq(S) /\ DOMAIN t = { j \in DOMAIN marcos : j <= PaginasPorTabla }
  BY <1>1, TablaConPrefijo DEF TablaCon
<1>3. CASE Len(t) = 0
  BY <1>1, <1>2, <1>3, PaginasAssumption
<1>4. CASE Len(t) # 0
  <2>1. Len(t) \in DOMAIN t
    BY <1>2, <1>4
  <2>2. Len(t) \in DOMAIN marcos /\ Len(t) <= PaginasPorTabla
    BY <1>2, <2>1
  <2> QED
    BY <1>1, <2>2
<1> QED
  BY <1>3, <1>4

(* What INIT_PROC gives a process.                                          *)
Nulas(n) == [i \in 1..n |-> PaginaNula]

LEMMA CargarPaginas ==
    ASSUME IInvPlana, NEW p \in Procs, Cargar(p)
    PROVE  /\ \E n \in Nat :
                /\ n <= PaginasPorTabla /\ n <= Tamanio[p]
                /\ DOMAIN tabla'[p] = 1..n
                /\ programa'[p] = Nulas(n)
           /\ \A q \in Procs \ {p} : programa'[q] = programa[q] /\ tabla'[q] = tabla[q]
<1>1. PICK marcos \in MarcosParaProceso(bitmap, Tamanio[p]) :
        tabla' = [tabla EXCEPT ![p] = TablaCon(marcos)]
  BY DEF Cargar, InitProcess
<1>2. marcos \in Seq(Marco) /\ Len(marcos) = Tamanio[p] /\ Tamanio[p] \in Nat
  BY MarcosElegidos, TamanioAssumption
<1>3. PICK t : t = TablaCon(marcos)
  OBVIOUS
<1>4. t \in Seq(Marco) /\ Len(t) <= PaginasPorTabla /\ Len(t) <= Len(marcos) /\ Len(t) \in Nat
  BY <1>2, <1>3, TablaConPrefijo, TablaConLargo
<1>5. tabla'[p] = t /\ \A q \in Procs \ {p} : tabla'[q] = tabla[q]
  BY <1>1, <1>3, TiposPlana
<1>6. /\ programa'[p] = [i \in DOMAIN tabla'[p] |-> PaginaNula]
      /\ \A q \in Procs \ {p} : programa'[q] = programa[q]
  BY TiposPlana DEF Cargar
<1>7. DOMAIN tabla'[p] = 1..Len(t)
  BY <1>4, <1>5
<1>8. programa'[p] = Nulas(Len(t))
  BY <1>6, <1>7 DEF Nulas
<1> QED
  BY <1>2, <1>4, <1>5, <1>6, <1>7, <1>8

(* A request of the kernel keeps each page of a process in one place.       *)
LEMMA CargarDominios ==
    ASSUME IInvPlana, NEW p \in Procs, Cargar(p)
    PROVE  Dominios'
<1>0. /\ conTabla' = conTabla \cup {p} /\ cargados' = cargados \cup {p} /\ p \notin cargados
      /\ UNCHANGED <<enSwap, offsets>> /\ Dominios /\ conTabla \subseteq Procs
      /\ enSwap \subseteq Procs /\ p \notin enSwap
  BY TiposPlana, PrimeraAdmision DEF Cargar, InitProcess, IInvPlana
<1>1. PICK n \in Nat : /\ n <= PaginasPorTabla
                       /\ DOMAIN tabla'[p] = 1..n
                       /\ programa'[p] = Nulas(n)
  BY CargarPaginas
<1>2. Len(programa'[p]) = n /\ DOMAIN programa'[p] = DOMAIN tabla'[p]
  <2>1. Nulas(n) \in Seq({PaginaNula}) /\ DOMAIN Nulas(n) = 1..n
    BY DEF Nulas
  <2> QED
    BY <1>1, <2>1
<1>3. \A q \in Procs \ {p} : programa'[q] = programa[q] /\ tabla'[q] = tabla[q]
  BY CargarPaginas
<1> QED
  BY <1>0, <1>1, <1>2, <1>3 DEF Dominios

LEMMA SuspenderDominios ==
    ASSUME IInvPlana, NEW p \in Procs, SuspendProcess(p), UNCHANGED varsCpu
    PROVE  Dominios'
<1> DEFINE n == Len(tabla[p])
<1>0. /\ conTabla' = conTabla \ {p} /\ enSwap' = enSwap \cup {p} /\ p \in conTabla
      /\ tabla' = [tabla EXCEPT ![p] = <<>>]
      /\ offsets' = [offsets EXCEPT ![p] = [i \in 1..n |-> posicion + i - 1]]
      /\ cargados' = cargados /\ programa' = programa /\ Dominios
  BY DEF SuspendProcess, varsCpu, IInvPlana
<1>1. /\ tabla \in [Procs -> Seq(Marco)] /\ offsets \in [Procs -> Seq(Slot)]
      /\ conTabla \subseteq Procs /\ enSwap \subseteq Procs /\ DOMAIN tabla[p] = 1..n
  BY DEF IInvPlana, IInvASolas, TypeOK
<1>2. PICK o : o = [i \in 1..n |-> posicion + i - 1]
  OBVIOUS
<1>3. DOMAIN o = 1..n /\ offsets'[p] = o /\ \A q \in Procs \ {p} : offsets'[q] = offsets[q]
  BY <1>0, <1>1, <1>2
<1>4. \A q \in Procs \ {p} : tabla'[q] = tabla[q]
  BY <1>0, <1>1
<1> QED
  BY <1>0, <1>1, <1>3, <1>4 DEF Dominios

LEMMA VolverDominios ==
    ASSUME IInvPlana, NEW p \in Procs, SwapIn(p), UNCHANGED varsCpu
    PROVE  Dominios'
<1>0. /\ conTabla' = conTabla \cup {p} /\ enSwap' = enSwap \ {p} /\ p \in enSwap
      /\ offsets' = [offsets EXCEPT ![p] = <<>>]
      /\ cargados' = cargados /\ programa' = programa /\ Dominios
  BY DEF SwapIn, varsCpu, IInvPlana
<1>1. /\ tabla \in [Procs -> Seq(Marco)] /\ offsets \in [Procs -> Seq(Slot)]
      /\ conTabla \subseteq Procs /\ enSwap \subseteq Procs
      /\ Len(offsets[p]) \in Nat /\ DOMAIN offsets[p] = 1..Len(offsets[p])
      /\ programa[p] \in Seq(Pagina)
  BY TiposPlana DEF IInvPlana, IInvASolas, TypeOK
<1>2. PICK marcos \in MarcosParaProceso(bitmap, Len(offsets[p])) :
        tabla' = [tabla EXCEPT ![p] = TablaCon(marcos)]
  BY DEF SwapIn
<1>3. marcos \in Seq(Marco) /\ Len(marcos) = Len(offsets[p])
  BY <1>1, MarcosElegidos
<1>4. Len(marcos) <= PaginasPorTabla
  <2>1. DOMAIN offsets[p] = DOMAIN programa[p] /\ Len(programa[p]) <= PaginasPorTabla
    BY <1>0 DEF Dominios
  <2>2. Len(offsets[p]) = Len(programa[p])
    BY <1>1, <2>1
  <2> QED
    BY <1>3, <2>1, <2>2
<1>5. TablaCon(marcos) = marcos
  BY <1>3, <1>4, TablaConPrefijo
<1>6. /\ tabla'[p] = marcos /\ DOMAIN marcos = DOMAIN offsets[p]
      /\ \A q \in Procs \ {p} : tabla'[q] = tabla[q] /\ offsets'[q] = offsets[q]
  BY <1>0, <1>1, <1>2, <1>3, <1>5
<1> QED
  BY <1>0, <1>1, <1>6 DEF Dominios

LEMMA FinalizarDominios ==
    ASSUME IInvPlana, NEW p \in Procs, Finalizar(p)
    PROVE  Dominios'
<1>0. /\ enSwap' = enSwap \ {p} /\ cargados' = cargados \ {p}
      /\ offsets' = [offsets EXCEPT ![p] = <<>>]
      /\ programa' = [programa EXCEPT ![p] = <<>>] /\ Dominios
  BY DEF Finalizar, FinishProcess, IInvPlana
<1>1. /\ offsets \in [Procs -> Seq(Slot)] /\ tabla \in [Procs -> Seq(Marco)]
      /\ conTabla \subseteq Procs /\ enSwap \subseteq Procs
  BY DEF IInvPlana, IInvASolas, TypeOK
<1>2. conTabla' = conTabla \ {p} /\ \A q \in Procs \ {p} : tabla'[q] = tabla[q]
  BY <1>1, TiposPlana DEF Finalizar, FinishProcess
<1>3. /\ programa'[p] = <<>>
      /\ \A q \in Procs \ {p} : offsets'[q] = offsets[q] /\ programa'[q] = programa[q]
  BY <1>0, <1>1, TiposPlana
<1>4. Len(programa'[p]) <= PaginasPorTabla
  BY <1>3, PaginasAssumption
<1> QED
  BY <1>0, <1>1, <1>2, <1>3, <1>4 DEF Dominios

LEMMA DominiosPaso ==
    ASSUME IInvPlana, [NextCpu]_todas
    PROVE  Dominios'
<1>0. Dominios
  BY DEF IInvPlana
<1>1. ASSUME UNCHANGED <<conTabla, tabla, enSwap, offsets, cargados, programa>>
      PROVE  Dominios'
  BY <1>0, <1>1 DEF Dominios
<1>2. CASE UNCHANGED todas
  BY <1>1, <1>2 DEF todas, vars, varsCpu
<1>3. ASSUME NEW p \in Procs, Recibir(p) PROVE Dominios'
  BY <1>1, <1>3 DEF Recibir, vars
<1>4. ASSUME NEW p \in Procs, Pedir(p) PROVE Dominios'
  <2>1. CASE DumpProcess(p)
    BY <1>1, <1>4, <2>1 DEF Pedir, DumpProcess, varsCpu
  <2> QED
    BY <1>4, <2>1, SuspenderDominios, VolverDominios DEF Pedir
<1>5. ASSUME NEW i, Leer(i) PROVE Dominios'
  BY <1>1, <1>5 DEF Leer, Memoria_sin_contenido
<1>6. ASSUME NEW w \in EscriturasDelProceso, Escribir(w.pagina, w.desde, w.texto)
      PROVE  Dominios'
  <2>1. UNCHANGED <<conTabla, tabla, enSwap, offsets, cargados>>
    BY <1>6 DEF Escribir, Memoria_sin_contenido
  <2>2. \A p \in Procs : DOMAIN programa'[p] = DOMAIN programa[p]
    BY <1>6, EscribirPrograma
  <2>3. \A p \in Procs : programa'[p] \in Seq(Pagina) /\ programa[p] \in Seq(Pagina)
    BY DistintasPaso DEF IInvPlana, IInvDistintas, IInvCpu, TypeOKCpu
  <2>4. \A p \in Procs : Len(programa'[p]) = Len(programa[p])
    BY <2>2, <2>3
  <2>5. \A p \in Procs \ cargados : programa'[p] = <<>>
    BY <1>0, <2>3, <2>4 DEF Dominios
  <2>6. conTabla \subseteq Procs /\ enSwap \subseteq Procs
    BY TiposPlana
  <2> QED
    BY <1>0, <2>1, <2>2, <2>4, <2>5, <2>6 DEF Dominios
<1>7. CASE Frenar \/ Devolver
  BY <1>1, <1>7 DEF Frenar, Devolver, vars
<1>8. CASE Guardar
  BY <1>1, <1>8 DEF Guardar, Memoria_sin_contenido
<1> QED
  BY <1>2, <1>3, <1>4, <1>5, <1>6, <1>7, <1>8, CargarDominios, FinalizarDominios DEF NextCpu
-----------------------------------------------------------------------------
(* What breaks the promise breaks it for good.                              *)
LEMMA RotoQueda ==
    ASSUME IInvCpu, [NextCpu]_todas, Roto
    PROVE  Roto'
<1>1. CASE UNCHANGED todas
  BY <1>1 DEF todas, vars, varsCpu, Roto
<1>2. CASE NextCpu
  <2>1. Sigue
    BY <1>2 DEF NextCpu, Recibir, Cargar, Pedir, Finalizar, Leer, Escribir, Ejecuta, Frenar,
       Guardar, Devolver
  <2>2. huboSwapIn /\ \E p, q \in cargados \cup finalizados : p # q
    BY <2>1 DEF Roto, Sigue
  <2>3. [Next]_vars
    BY CpuPaso
  <2>4. cargados \cup finalizados \subseteq cargados' \cup finalizados' /\ (huboSwapIn => huboSwapIn')
    BY <2>3 DEF Next, vars, InitProcess, WriteMemory, SuspendProcess, SwapIn, FinishProcess,
       DumpProcess
  <2> QED
    BY <2>2, <2>4 DEF Roto
<1> QED
  BY <1>1, <1>2

LEMMA ConservadoPaso ==
    ASSUME IInvPlana, SinHuecos, ~Roto, ~Roto', [NextCpu]_todas
    PROVE  TodoConservado'
<1>1. CASE UNCHANGED todas
  BY <1>1 DEF todas, vars, varsCpu, IInvPlana, TodoConservado, CacheConserva, MarcosConservan,
     SwapConserva
<1>2. ASSUME NEW p \in Procs, Pedir(p) PROVE TodoConservado'
  BY <1>2, SuspenderConservado, VolverConservado, VolcarConservado DEF Pedir
<1> QED
  BY <1>1, <1>2, RecibirConservado, CargarConservado, FinalizarConservado, LeerConservado,
     EscribirConservado, FrenarConservado, GuardarConservado, DevolverConservado DEF NextCpu

LEMMA IInvPlanaPaso ==
    ASSUME IInvPlana, SinHuecos, [NextCpu]_todas
    PROVE  IInvPlana'
<1>1. IInvDistintas'
  BY DistintasPaso DEF IInvPlana
<1>2. IInvASolas'
  BY CpuPaso, IInvASolasPaso DEF IInvPlana, IInvDistintas
<1>3. ~Roto' => TodoConservado'
  BY RotoQueda, ConservadoPaso DEF IInvPlana, IInvDistintas
<1> QED
  BY <1>1, <1>2, <1>3, DominiosPaso DEF IInvPlana
-----------------------------------------------------------------------------
(* A WRITE is one of MemoriaPlana, or nothing when the text is empty.       *)
LEMMA EscribirPlano ==
    ASSUME IInvPlana, NEW w \in EscriturasDelProceso, Escribir(w.pagina, w.desde, w.texto),
           NEW p \in Procs
    PROVE  PasoPlano(p)
<1>i. PICK i, d, t : i = w.pagina /\ d = w.desde /\ t = w.texto
  OBVIOUS
<1>e. Escribir(i, d, t)
  BY <1>i
<1>0. EnCpu /\ i \in DOMAIN tabla[pid] /\ w \in Escrituras[pid]
  BY <1>e DEF Escribir, Ejecuta, EnCpu, IInvPlana, IInvDistintas, EscriturasDelProceso
<1>1. pid \in Procs /\ i \in DOMAIN programa[pid] /\ programa[pid][i] \in Pagina
  BY <1>0, TiposEnCpu, TiposPlana DEF IInvPlana, Dominios
<1>2. d \in Posicion /\ t \in Seq(Letra) /\ d + Len(t) <= TamPagina
  BY <1>i, <1>0, <1>1, EscriturasAssumption
<1>3. programa' = [programa EXCEPT ![pid] = [@ EXCEPT ![i] = Encima(programa[pid][i], d, t)]]
  BY <1>e DEF Escribir
<1>4. programa \in [Procs -> Seq(Pagina)]
  BY TiposPlana
<1>5. CASE p # pid
  <2>1. programa'[p] = programa[p]
    BY <1>3, <1>4, <1>5
  <2> QED
    BY <2>1 DEF PasoPlano
<1>6. CASE p = pid
  <2>1. PICK x : x = Encima(programa[pid][i], d, t)
    OBVIOUS
  <2>2. programa'[pid] = [programa[pid] EXCEPT ![i] = x]
    BY <1>1, <1>3, <1>4, <2>1
  <2>3. CASE Len(t) = 0
    <3>1. \A k \in Posicion : k \notin d..(d + Len(t) - 1)
      BY <1>2, <2>3, TamPaginaAssumption DEF Posicion
    <3>2. x = programa[pid][i]
      BY <1>1, <2>1, <3>1 DEF Encima, Pagina
    <3>3. PICK s \in Seq(Pagina) : s = programa[pid]
      BY <1>1, <1>4
    <3>4. [s EXCEPT ![i] = s[i]] = s
      BY <3>3
    <3>5. programa'[pid] = programa[pid]
      BY <2>2, <3>2, <3>3, <3>4
    <3> QED
      BY <1>6, <3>5 DEF PasoPlano
  <2>4. CASE Len(t) # 0
    <3>1. Len(t) \in 1..(TamPagina - d) /\ t \in [1..Len(t) -> Letra]
      BY <1>2, <2>4, TamPaginaAssumption DEF Posicion
    <3>2. t \in UNION { [1..n -> Letra] : n \in 1..(TamPagina - d) }
      BY <3>1
    <3>3. PlanaEscribir(pid)
      BY <1>1, <1>2, <2>1, <2>2, <3>2 DEF PlanaEscribir
    <3> QED
      BY <1>6, <3>3 DEF PasoPlano
  <2> QED
    BY <2>3, <2>4
<1> QED
  BY <1>5, <1>6

LEMMA CargarPlano ==
    ASSUME IInvPlana, NEW q \in Procs, Cargar(q), NEW p \in Procs
    PROVE  PasoPlano(p)
<1>1. PICK n \in Nat : n <= Tamanio[q] /\ programa'[q] = Nulas(n)
  BY CargarPaginas
<1>2. \A r \in Procs \ {q} : programa'[r] = programa[r]
  BY CargarPaginas
<1>3. programa[q] = <<>>
  BY PrimeraAdmision DEF Cargar, IInvPlana, Dominios
<1>4. n \in 0..Tamanio[q]
  BY <1>1, TamanioAssumption
<1>5. PlanaCargar(q)
  BY <1>1, <1>3, <1>4 DEF PlanaCargar, Nulas
<1> QED
  BY <1>2, <1>5 DEF PasoPlano

LEMMA PlanoPaso ==
    ASSUME IInvPlana, [NextCpu]_todas, NEW p \in Procs
    PROVE  PasoPlano(p)
<1>1. ASSUME programa' = programa PROVE PasoPlano(p)
  BY <1>1 DEF PasoPlano
<1>2. CASE UNCHANGED todas
  BY <1>1, <1>2 DEF todas, varsCpu
<1>3. ASSUME NEW q \in Procs, Recibir(q) \/ Pedir(q) PROVE PasoPlano(p)
  BY <1>1, <1>3 DEF Recibir, Pedir, varsCpu
<1>4. ASSUME NEW q \in Procs, Finalizar(q) PROVE PasoPlano(p)
  <2>1. programa'[q] = <<>> /\ \A r \in Procs \ {q} : programa'[r] = programa[r]
    BY <1>4, TiposPlana DEF Finalizar
  <2> QED
    BY <2>1 DEF PasoPlano
<1>5. ASSUME NEW i, Leer(i) PROVE PasoPlano(p)
  BY <1>1, <1>5 DEF Leer
<1>6. CASE Frenar \/ Guardar \/ Devolver
  BY <1>1, <1>6 DEF Frenar, Guardar, Devolver
<1> QED
  BY <1>2, <1>3, <1>4, <1>5, <1>6, CargarPlano, EscribirPlano DEF NextCpu

LEMMA TextoAntesYDespues ==
    /\ IInvPlana /\ ~Roto => Texto = programa
    /\ (IInvPlana /\ ~Roto => Texto = programa)'
<1>1. IInvPlana /\ ~Roto => Texto = programa
  BY TextoEsPrograma
<1> QED
  BY <1>1, PTL

LEMMA RefinaPaso ==
    ASSUME IInvPlana, IInvPlana', [NextCpu]_todas
    PROVE  Plana!Next
<1>1. CASE Roto'
  <2>1. Rotos' = Procs /\ Rotos \subseteq Procs
    BY <1>1 DEF Rotos
  <2> QED
    BY <2>1 DEF Plana!Next
<1>2. CASE ~Roto'
  <2>1. ~Roto
    BY <1>2, RotoQueda DEF IInvPlana, IInvDistintas
  <2>2. Rotos = {}
    BY <2>1 DEF Rotos
  <2>3. Texto = programa /\ Texto' = programa'
    BY <1>2, <2>1, TextoAntesYDespues
  <2> QED
    BY <2>2, <2>3, PlanoPaso, PlanaPaso
<1> QED
  BY <1>1, <1>2

LEMMA PlanaInicio ==
    ASSUME InitCpu, IInvDistintas
    PROVE  IInvPlana /\ SinHuecos /\ Plana!Init
<1>0. /\ conTabla = {} /\ enSwap = {} /\ cargados = {} /\ cache = Vacia
      /\ programa = [p \in Procs |-> <<>>]
  BY DEF InitCpu, Init
<1>1. IInvASolas
  BY <1>0, InitTipo DEF InitCpu, IInvASolas, EnMemoriaOEnSwap, Sola, PaginasDe
<1>2. \A p \in Procs : Len(programa[p]) <= PaginasPorTabla /\ DOMAIN programa[p] = {}
  BY <1>0, PaginasAssumption
<1>3. Dominios
  BY <1>0, <1>2 DEF Dominios
<1>4. TodoConservado
  BY <1>0 DEF TodoConservado, CacheConserva, MarcosConservan, SwapConserva, Vacia
<1>5. ~Roto
  BY DEF InitCpu, Init, Roto
<1>6. IInvPlana /\ SinHuecos
  BY <1>1, <1>2, <1>3, <1>4 DEF IInvPlana, SinHuecos
<1>7. Texto = [p \in Procs |-> <<>>] /\ Rotos = {}
  BY <1>0, <1>5, <1>6, TextoEsPrograma DEF Rotos
<1> QED
  BY <1>6, <1>7, PlanaInicial

LEMMA PlanaSpec == Plana!Init /\ [][Plana!Next]_<<Texto, Rotos>> => LeeLoQueEscribio
  BY PTL DEF LeeLoQueEscribio, Plana!Spec

(* Behind cache, TLB, page tables, frames and swap file a process reads     *)
(* what it wrote, whatever the sizes, the replacement algorithms and the    *)
(* interleaving of its instructions with the requests of the kernel, as     *)
(* long as no program leaves an unwritten byte before a written one: what   *)
(* is past it does not go between CPU and Memoria.                          *)
THEOREM LeeLoEscrito == SpecCpu /\ []SinHuecos => LeeLoQueEscribio
<1>1. SpecCpu => []IInvDistintas
  BY IInvDistintasSiempre
<1>2. InitCpu /\ IInvDistintas => IInvPlana /\ Plana!Init
  BY PlanaInicio
<1>3. IInvPlana /\ SinHuecos /\ [NextCpu]_todas => IInvPlana'
  BY IInvPlanaPaso
<1>4. IInvPlana /\ IInvPlana' /\ [NextCpu]_todas => [Plana!Next]_<<Texto, Rotos>>
  BY RefinaPaso
<1>5. SpecCpu /\ []SinHuecos => Plana!Init /\ [][Plana!Next]_<<Texto, Rotos>>
  BY <1>1, <1>2, <1>3, <1>4, PTL DEF SpecCpu
<1> QED
  BY <1>5, PlanaSpec, PTL
-----------------------------------------------------------------------------
(* Programs whose WRITEs all begin at the first byte of a page leave no     *)
(* hole...                                                                  *)
TodosDesdeElPrincipio == \A p \in Procs : \A w \in Escrituras[p] : w.desde = 0

LEMMA EncimaCorrida ==
    ASSUME NEW g, Corrida(g), NEW t \in Seq(Letra)
    PROVE  Corrida(Encima(g, 0, t))
<1> SUFFICES ASSUME NEW k \in Posicion, Encima(g, 0, t)[k] # Nulo, NEW j \in 0..k
             PROVE  Encima(g, 0, t)[j] # Nulo
  BY DEF Corrida
<1>1. j \in Posicion /\ j \in Nat /\ k \in Nat /\ j <= k
  BY TamPaginaAssumption DEF Posicion
<1>2. CASE j \in 0..(Len(t) - 1)
  <2>1. t[j + 1] \in Letra
    BY <1>1, <1>2
  <2>2. Encima(g, 0, t)[j] = t[j - 0 + 1] /\ j - 0 + 1 = j + 1
    BY <1>1, <1>2 DEF Encima
  <2> QED
    BY <2>1, <2>2, LetraAssumption
<1>3. CASE j \notin 0..(Len(t) - 1)
  <2>1. k \notin 0..(0 + Len(t) - 1) /\ j \notin 0..(0 + Len(t) - 1)
    BY <1>1, <1>3
  <2>2. Encima(g, 0, t)[k] = g[k] /\ Encima(g, 0, t)[j] = g[j]
    BY <1>1, <2>1 DEF Encima
  <2> QED
    BY <2>2 DEF Corrida
<1> QED
  BY <1>2, <1>3

LEMMA SinHuecosPaso ==
    ASSUME TodosDesdeElPrincipio, IInvPlana, SinHuecos, [NextCpu]_todas
    PROVE  SinHuecos'
<1>1. ASSUME programa' = programa PROVE SinHuecos'
  BY <1>1 DEF SinHuecos
<1>2. CASE UNCHANGED todas
  BY <1>1, <1>2 DEF todas, varsCpu
<1>3. ASSUME NEW p \in Procs, Recibir(p) \/ Pedir(p) PROVE SinHuecos'
  BY <1>1, <1>3 DEF Recibir, Pedir, varsCpu
<1>4. ASSUME NEW p \in Procs, Cargar(p) PROVE SinHuecos'
  <2>1. PICK n \in Nat : programa'[p] = Nulas(n)
    BY <1>4, CargarPaginas
  <2>2. \A q \in Procs \ {p} : programa'[q] = programa[q]
    BY <1>4, CargarPaginas
  <2>3. \A i \in DOMAIN Nulas(n) : Corrida(Nulas(n)[i])
    BY DEF Nulas, PaginaNula, Corrida
  <2> QED
    BY <2>1, <2>2, <2>3 DEF SinHuecos
<1>5. ASSUME NEW p \in Procs, Finalizar(p) PROVE SinHuecos'
  <2>1. programa'[p] = <<>> /\ \A q \in Procs \ {p} : programa'[q] = programa[q]
    BY <1>5, TiposPlana DEF Finalizar
  <2> QED
    BY <2>1 DEF SinHuecos
<1>6. ASSUME NEW i, Leer(i) PROVE SinHuecos'
  BY <1>1, <1>6 DEF Leer
<1>7. ASSUME NEW w \in EscriturasDelProceso, Escribir(w.pagina, w.desde, w.texto)
      PROVE  SinHuecos'
  <2>1. PICK i, d, t : i = w.pagina /\ d = w.desde /\ t = w.texto
    OBVIOUS
  <2>2. Escribir(i, d, t)
    BY <1>7, <2>1
  <2>3. /\ EnCpu /\ i \in DOMAIN tabla[pid] /\ w \in Escrituras[pid]
    BY <1>7, <2>2 DEF Escribir, Ejecuta, EnCpu, IInvPlana, IInvDistintas, EscriturasDelProceso
  <2>4. pid \in Procs /\ i \in DOMAIN programa[pid]
    BY <2>3, TiposEnCpu DEF IInvPlana, Dominios
  <2>5. d = 0 /\ t \in Seq(Letra)
    BY <2>1, <2>3, <2>4, EscriturasAssumption DEF TodosDesdeElPrincipio
  <2>6. /\ programa'[pid][i] = Encima(programa[pid][i], d, t)
        /\ \A p \in Procs : \A j \in DOMAIN programa[p] :
             (p # pid \/ j # i) => programa'[p][j] = programa[p][j]
        /\ \A p \in Procs : DOMAIN programa'[p] = DOMAIN programa[p]
    BY <2>2, EscribirPrograma
  <2>7. Corrida(Encima(programa[pid][i], d, t))
    BY <2>4, <2>5, EncimaCorrida DEF SinHuecos
  <2> QED
    BY <2>4, <2>6, <2>7 DEF SinHuecos
<1>8. CASE Frenar \/ Guardar \/ Devolver
  BY <1>1, <1>8 DEF Frenar, Guardar, Devolver
<1> QED
  BY <1>2, <1>3, <1>4, <1>5, <1>6, <1>7, <1>8 DEF NextCpu

(* ... so they read what they wrote.                                        *)
THEOREM LeeLoEscritoDesdeElPrincipio ==
    ASSUME TodosDesdeElPrincipio
    PROVE  SpecCpu => LeeLoQueEscribio
<1>1. SpecCpu => []IInvDistintas
  BY IInvDistintasSiempre
<1>2. InitCpu /\ IInvDistintas => IInvPlana /\ SinHuecos
  BY PlanaInicio
<1>3. IInvPlana /\ SinHuecos /\ [NextCpu]_todas => IInvPlana' /\ SinHuecos'
  BY IInvPlanaPaso, SinHuecosPaso
<1>4. SpecCpu => []SinHuecos
  BY <1>1, <1>2, <1>3, PTL DEF SpecCpu
<1> QED
  BY <1>4, LeeLoEscrito, PTL
=============================================================================
