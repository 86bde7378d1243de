--------------------------------- MODULE Cpu ---------------------------------
(***************************************************************************)
(* A CPU between a process and Memoria: instruction cycle, MMU, TLB and    *)
(* page cache, composed with the Memoria module.  Each instruction is one  *)
(* action, with every request it makes: they only touch the frames of the  *)
(* process on the CPU.  Saving the cache when the process leaves is one    *)
(* action per entry.  The kernel suspends, brings back, dumps or ends only *)
(* a process that is not on the CPU.                                       *)
(*                                                                         *)
(* What goes between CPU and Memoria goes as a C string, up to its first   *)
(* byte 0, so a page is a function of its bytes.  Instructions access the  *)
(* pages of their process, each within one page.                           *)
(***************************************************************************)
EXTENDS Memoria, Reemplazo

CONSTANTS
    Letra,      \* bytes a program can write
    Nulo,       \* the byte 0
    TamPagina,  \* TAM_PAGINA
    Escrituras, \* the WRITE instructions of each process: [pagina, desde, texto]
    Configs,    \* configurations of a CPU
    Nadie       \* no process on the CPU

Posicion == 0..(TamPagina - 1)
Pagina == [Posicion -> Letra \cup {Nulo}]
PaginaNula == [k \in Posicion |-> Nulo]

ASSUME TamPaginaAssumption == TamPagina \in Nat \ {0}
ASSUME LetraAssumption == Nulo \notin Letra
ASSUME ValorAssumption == Valor = Pagina
ASSUME EscriturasAssumption ==
    \A p \in Procs : \A w \in Escrituras[p] :
        /\ w.pagina \in Nat
        /\ w.desde \in Posicion
        /\ w.texto \in Seq(Letra)
        /\ w.desde + Len(w.texto) <= TamPagina
ASSUME ConfigsAssumption ==
    Configs \subseteq [entradasTlb : Nat, reemplazoTlb : {"FIFO", "LRU"},
                       entradasCache : Nat, reemplazoCache : {"CLOCK", "CLOCK-M"}]

(* The kernel is assumed to admit each process once: a second INIT_PROC     *)
(* would change the page table of a process behind the TLB.                 *)
ASSUME UnaAdmisionAssumption == Repiten = {}
ASSUME NadieAssumption == Nadie \notin Procs

VARIABLES
    config,     \* config_cpu: never changes
    pid,        \* contexto->pid, or Nadie between two processes
    tlb,        \* tlb and puntero_fifo
    cache,      \* cache and puntero_clock
    guardando,  \* next entry guardado_cache_por_desalojo looks at; 0: executing
    desbordo,   \* a string with no byte 0 has been read past its end
    programa    \* history: what each process wrote in its pages, or Nulo

varsCpu == <<config, pid, tlb, cache, guardando, desbordo, programa>>
todas == <<vars, varsCpu>>
-----------------------------------------------------------------------------
(* string_length of a page: the bytes before its first 0.  A page without   *)
(* one is read past its end.                                                *)
Largo(pagina) ==
    CHOOSE n \in 0..TamPagina : /\ \A k \in 0..(n - 1) : pagina[k] # Nulo
                                /\ n < TamPagina => pagina[n] = Nulo

SinFin(pagina) == \A k \in Posicion : pagina[k] # Nulo

(* escribir_en_memoria of a page: write_memory copies its text only.        *)
CopiarTexto(marco, pagina) ==
    [k \in Posicion |-> IF k < Largo(pagina) THEN pagina[k] ELSE marco[k]]

(* A page once t is written from position d on.                             *)
Encima(pagina, d, t) ==
    [k \in Posicion |-> IF k \in d..(d + Len(t) - 1) THEN t[k - d + 1] ELSE pagina[k]]

(* leer_en_memoria of a whole page: the text comes with its 0, another one  *)
(* is added, and the rest of what agregar_en_entrada_cache copies is        *)
(* whatever malloc left there.                                              *)
PaginasLeidas(marco) ==
    { q \in Pagina : \A k \in Posicion :
        /\ k < Largo(marco) => q[k] = marco[k]
        /\ k \in {Largo(marco), Largo(marco) + 1} => q[k] = Nulo }
-----------------------------------------------------------------------------
(* GET_FRAME: Memoria walks the page table.                                 *)
MarcoEnTabla(i) == tabla[pid][i]

(* obtener_direccion_fisica: the frame of a page and the TLB afterwards.    *)
MarcoDelPrimero(t, i) ==
    IF Esta(t, i) THEN t.entradas[1].marco ELSE MarcoEnTabla(i)
MarcoDe(t, i) ==
    IF Esta(t, i) THEN t.entradas[EntradaDe(t, i)].marco ELSE MarcoEnTabla(i)

TlbSinMirar(t, i) ==
    IF config.entradasTlb = 0 THEN t
    ELSE AgregarATlb(t, config.entradasTlb, config.reemplazoTlb, i, MarcoEnTabla(i))
TlbTras(t, i) ==
    CASE config.entradasTlb = 0 -> t
      [] config.entradasTlb # 0 /\ Esta(t, i) ->
            [t EXCEPT !.entradas = Rejuvenecer(@, EntradaDe(t, i))]
      [] OTHER -> AgregarATlb(t, config.entradasTlb, config.reemplazoTlb, i, MarcoEnTabla(i))

(* busqueda_cache(i): the page that leaves, the one that is written back,   *)
(* and TLB, frames and caches afterwards.                                   *)
Sale(c) == c.entradas[VictimaCache(c, config.reemplazoCache)]

Guarda(i) == ~Esta(cache, i) /\ Llena(cache, config.entradasCache) /\ Sale(cache).modificado

TlbTrasGuardar(i) == IF Guarda(i) THEN TlbTras(tlb, Sale(cache).pagina) ELSE tlb

TlbTrasBuscar(i) == IF Esta(cache, i) THEN tlb ELSE TlbTras(TlbTrasGuardar(i), i)

ContenidoGuardadoDondeEntra(i) ==
    IF Guarda(i)
    THEN [contenido EXCEPT ![MarcoDe(tlb, i)] = CopiarTexto(@, Sale(cache).contenido)]
    ELSE contenido
ContenidoTrasGuardar(i) ==
    IF Guarda(i)
    THEN [contenido EXCEPT ![MarcoDe(tlb, Sale(cache).pagina)] =
             CopiarTexto(@, Sale(cache).contenido)]
    ELSE contenido

MarcoLeido(i) == ContenidoTrasGuardar(i)[MarcoDe(TlbTrasGuardar(i), i)]

CachesTrasBuscar(i) ==
    IF Esta(cache, i)
    THEN { [cache EXCEPT !.entradas[EntradaDe(cache, i)].uso = TRUE] }
    ELSE { AgregarACache(cache, config.entradasCache, config.reemplazoCache, i, q) :
             q \in PaginasLeidas(MarcoLeido(i)) }

DesbordaAlBuscar(i) ==
    ~Esta(cache, i) /\ \/ Guarda(i) /\ SinFin(Sale(cache).contenido)
                       \/ SinFin(MarcoLeido(i))

Buscar(i) ==
    /\ contenido' = ContenidoTrasGuardar(i)
    /\ escrito' = IF Guarda(i)
                  THEN [escrito EXCEPT ![pid] = [@ EXCEPT ![Sale(cache).pagina] =
                           CopiarTexto(contenido[MarcoDe(tlb, Sale(cache).pagina)],
                                       Sale(cache).contenido)]]
                  ELSE escrito
    /\ tlb' = TlbTrasBuscar(i)
    /\ desbordo' = DesbordaAlBuscar(i)

(* escribir_pagina_cache.                                                   *)
ConTextoSinMarcar(entrada, d, t) ==
    [entrada EXCEPT !.contenido = Encima(@, d, t), !.uso = TRUE]
ConTexto(entrada, d, t) ==
    [entrada EXCEPT !.contenido = Encima(@, d, t), !.modificado = TRUE, !.uso = TRUE]

Modificada(c, i, d, t) == [c EXCEPT !.entradas[EntradaDe(c, i)] = ConTexto(@, d, t)]
-----------------------------------------------------------------------------
Memoria_sin_contenido == <<bitmap, conTabla, tabla, enSwap, offsets, archivoSwap,
                           posicion, cargados, finalizados, caida, huboSwapIn,
                           readmitidos>>

Sigue == ~caida /\ ~desbordo

Ejecuta(i) == Sigue /\ pid # Nadie /\ guardando = 0 /\ i \in DOMAIN tabla[pid]

ConCache == config.entradasCache > 0

(* READ of page i.                                                          *)
Leer(i) ==
    /\ Ejecuta(i)
    /\ IF ConCache
       THEN Buscar(i) /\ cache' \in CachesTrasBuscar(i)
       ELSE /\ tlb' = TlbTras(tlb, i)
            /\ UNCHANGED <<contenido, escrito, cache, desbordo>>
    /\ UNCHANGED Memoria_sin_contenido
    /\ UNCHANGED <<config, pid, guardando, programa>>

(* WRITE of text t at position d of page i.                                 *)
Escribir(i, d, t) ==
    /\ Ejecuta(i)
    /\ IF ConCache
       THEN /\ Buscar(i)
            /\ \E c \in CachesTrasBuscar(i) : cache' = Modificada(c, i, d, t)
       ELSE /\ tlb' = TlbTras(tlb, i)
            /\ contenido' = [contenido EXCEPT ![MarcoDe(tlb, i)] = Encima(@, d, t)]
            /\ escrito' = [escrito EXCEPT ![pid] = [@ EXCEPT ![i] =
                              Encima(contenido[MarcoDe(tlb, i)], d, t)]]
            /\ UNCHANGED <<cache, desbordo>>
    /\ programa' = [programa EXCEPT ![pid] = [@ EXCEPT ![i] =
                       Encima(programa[pid][i], d, t)]]
    /\ UNCHANGED Memoria_sin_contenido
    /\ UNCHANGED <<config, pid, guardando>>

(* inicializar_tlb and inicializar_cache when a process comes, limpiar_tlb  *)
(* and limpiar_cache when it leaves.                                        *)
TlbSinLimpiar == tlb
TlbNueva == Vacia

CacheNueva == Vacia

(* The context of a process that is in memory comes from the kernel.        *)
Recibir(p) ==
    /\ Sigue
    /\ pid = Nadie
    /\ p \in conTabla
    /\ pid' = p
    /\ tlb' = TlbNueva
    /\ cache' = CacheNueva
    /\ UNCHANGED <<vars, config, guardando, desbordo, programa>>

(* IO, DUMP_MEMORY, EXIT, or an interrupt after any other instruction:      *)
(* guardado_cache_por_desalojo begins.                                      *)
Frenar ==
    /\ Sigue
    /\ pid # Nadie
    /\ guardando = 0
    /\ guardando' = 1
    /\ UNCHANGED <<vars, config, pid, tlb, cache, desbordo, programa>>

(* guardado_de_cache: bit_modificado stays set.                             *)
Guardar ==
    LET e == cache.entradas[guardando]
        m == MarcoDe(tlb, e.pagina)
    IN
    /\ Sigue
    /\ guardando \in DOMAIN cache.entradas
    /\ guardando' = guardando + 1
    /\ IF e.modificado
       THEN /\ contenido' = [contenido EXCEPT ![m] = CopiarTexto(@, e.contenido)]
            /\ escrito' = [escrito EXCEPT ![pid] = [@ EXCEPT ![e.pagina] =
                              CopiarTexto(contenido[m], e.contenido)]]
            /\ tlb' = TlbTras(tlb, e.pagina)
            /\ desbordo' = SinFin(e.contenido)
       ELSE UNCHANGED <<contenido, escrito, tlb, desbordo>>
    /\ UNCHANGED Memoria_sin_contenido
    /\ UNCHANGED <<config, pid, cache, programa>>

(* The context goes to the kernel.                                          *)
Devolver ==
    /\ Sigue
    /\ guardando = Len(cache.entradas) + 1
    /\ guardando' = 0
    /\ pid' = Nadie
    /\ tlb' = TlbNueva
    /\ cache' = CacheNueva
    /\ UNCHANGED <<vars, config, desbordo, programa>>
-----------------------------------------------------------------------------
(* The kernel's requests to Memoria.                                        *)
Cargar(p) ==
    /\ Sigue
    /\ InitProcess(p)
    /\ programa' = [programa EXCEPT ![p] = [i \in DOMAIN tabla'[p] |-> PaginaNula]]
    /\ UNCHANGED <<config, pid, tlb, cache, guardando, desbordo>>

Pedir(p) ==
    /\ Sigue
    /\ p # pid
    /\ SuspendProcess(p) \/ SwapIn(p) \/ DumpProcess(p)
    /\ UNCHANGED varsCpu

Finalizar(p) ==
    /\ Sigue
    /\ p # pid
    /\ FinishProcess(p)
    /\ programa' = [programa EXCEPT ![p] = <<>>]
    /\ UNCHANGED <<config, pid, tlb, cache, guardando, desbordo>>

InitCpu ==
    /\ Init
    /\ config \in Configs
    /\ pid = Nadie
    /\ tlb = Vacia
    /\ cache = Vacia
    /\ guardando = 0
    /\ desbordo = FALSE
    /\ programa = [p \in Procs |-> <<>>]

PaginasDelProceso == IF pid = Nadie THEN {} ELSE DOMAIN tabla[pid]
EscriturasDelProceso == IF pid = Nadie THEN {} ELSE Escrituras[pid]

NextCpu ==
    \/ \E p \in Procs : Recibir(p) \/ Cargar(p) \/ Pedir(p) \/ Finalizar(p)
    \/ \E i \in PaginasDelProceso : Leer(i)
    \/ \E w \in EscriturasDelProceso : Escribir(w.pagina, w.desde, w.texto)
    \/ Frenar
    \/ Guardar
    \/ Devolver

SpecCpu == InitCpu /\ [][NextCpu]_todas
-----------------------------------------------------------------------------
TypeOKCpu ==
    /\ config \in Configs
    /\ pid \in Procs \cup {Nadie}
    /\ tlb \in Tlbs(config.entradasTlb, Marco)
    /\ cache \in Caches(config.entradasCache, Pagina)
    /\ guardando \in 0..(config.entradasCache + 1)
    /\ desbordo \in BOOLEAN
    /\ programa \in [Procs -> Seq(Pagina)]

(* While a process is on the CPU its page table does not change behind the  *)
(* TLB: every translation the TLB holds is the one of the page table.  What *)
(* the cache would be written back to depends on it.                        *)
TlbAlDia ==
    pid # Nadie =>
      \A e \in DOMAIN tlb.entradas :
        /\ tlb.entradas[e].pagina \in DOMAIN tabla[pid]
        /\ tlb.entradas[e].marco = tabla[pid][tlb.entradas[e].pagina]

(* A page is in one entry of the cache and in one of the TLB, whatever the  *)
(* replacement algorithm: two copies of a page would answer differently.    *)
SinDuplicados ==
    \A m \in {tlb, cache} : \A e, f \in DOMAIN m.entradas :
        m.entradas[e].pagina = m.entradas[f].pagina => e = f

(* The text of a cached page that is not modified is the text of its frame: *)
(* giving it up loses nothing, which is why busqueda_cache does not write   *)
(* it back.  Until a process comes back from swap.                          *)
TextoDe(pagina) == [k \in 0..(Largo(pagina) - 1) |-> pagina[k]]

CacheAlDia ==
    (pid # Nadie /\ ~huboSwapIn /\ ~desbordo) =>
      \A e \in DOMAIN cache.entradas :
        LET c == cache.entradas[e]
        IN ~c.modificado => TextoDe(c.contenido) = TextoDe(contenido[tabla[pid][c.pagina]])

(* Memoria sees from a CPU only what it would from a process that writes    *)
(* its own pages.                                                           *)
MemoriaCumple == Spec
-----------------------------------------------------------------------------
(* What a process would read now: in the cache, in its frame or in swap.    *)
Vista(p, i) ==
    CASE p = pid /\ Esta(cache, i) -> cache.entradas[EntradaDe(cache, i)].contenido
      [] p \in conTabla /\ ~(p = pid /\ Esta(cache, i)) -> contenido[tabla[p][i]]
      [] OTHER -> archivoSwap[offsets[p][i]]

(* The promise does not outlive a page full of text (desbordo), a crash of  *)
(* Memoria, or frames that swap_in hands out while others are loaded.       *)
Roto ==
    \/ desbordo \/ caida
    \/ huboSwapIn /\ \E p, q \in cargados \cup finalizados : p # q

(* A byte a process has not written counts as Nulo, whatever is there.      *)
Texto ==
    [p \in Procs |-> [i \in DOMAIN programa[p] |->
        [k \in Posicion |-> IF programa[p][i][k] = Nulo THEN Nulo ELSE Vista(p, i)[k]]]]

Rotos == IF Roto THEN Procs ELSE {}

Plana == INSTANCE MemoriaPlana WITH texto <- Texto, rotos <- Rotos

(* Whatever cache, TLB, frames and swap do, a process reads what it wrote.  *)
LeeLoQueEscribio == Plana!Spec
=============================================================================
