------------------------------- MODULE Memoria -------------------------------
(***************************************************************************)
(* The memory module: frames bitmap, page tables, user space and swap      *)
(* file, and the requests the kernel and the CPUs make of them.  The       *)
(* kernel sends one request at a time (mutex_memoria) and Memoria answers  *)
(* after its last change, so every handler is one action.  Memory is       *)
(* counted in pages: sizes, swap offsets and addresses are all multiples   *)
(* of TAM_PAGINA, and the contents of a page is a member of Valor.         *)
(***************************************************************************)
EXTENDS Marcos, Sequences

CONSTANTS
    Procs,          \* pids
    Tamanio,        \* pages each process asks for
    Valor,          \* what a page can hold
    Basura,         \* what fresh memory holds
    PaginasPorTabla,\* ENTRADAS_POR_TABLA ^ CANTIDAD_NIVELES
    Repiten,        \* bound: pids INIT_PROC may come for more than once
    MaxSwap         \* bound: pages the swap file may grow to

ASSUME TamanioAssumption == Tamanio \in [Procs -> Nat]
ASSUME BasuraAssumption == Basura \in Valor
ASSUME PaginasAssumption == PaginasPorTabla \in Nat
ASSUME RepitenAssumption == Repiten \subseteq Procs
ASSUME MaxSwapAssumption == MaxSwap \in Nat

VARIABLES
    bitmap,       \* frames_bitmap: frames marked busy
    conTabla,     \* pids with a key in all_process_page_tables
    tabla,        \* frame of each page of a process with a table
    contenido,    \* espacio_usuario: what each frame holds
    enSwap,       \* pids with a key in diccionario_swap_metadata
    offsets,      \* offset_swap of each page of a suspended process
    archivoSwap,  \* pages of archivo_swap
    posicion,     \* stream position of archivo_swap
    cargados,     \* pids with a key in instrucciones_por_procesos
    finalizados,  \* pids Memoria has answered a finish for
    caida,        \* Memoria dereferenced a table that is not there
    huboSwapIn,   \* history: some process has been brought back from swap
    readmitidos,  \* history: pids accepted again while they were loaded
    escrito       \* history: what each process last wrote in each page;
                  \* nothing once it is readmitted

vars == <<bitmap, conTabla, tabla, contenido, enSwap, offsets, archivoSwap,
          posicion, cargados, finalizados, caida, huboSwapIn, readmitidos,
          escrito>>

Slot == 0..(MaxSwap - 1)

TypeOK ==
    /\ bitmap \in SUBSET Marco
    /\ conTabla \in SUBSET Procs
    /\ tabla \in [Procs -> Seq(Marco)]
    /\ contenido \in [Marco -> Valor]
    /\ enSwap \in SUBSET Procs
    /\ offsets \in [Procs -> Seq(Slot)]
    /\ archivoSwap \in [Slot -> Valor]
    /\ posicion \in 0..MaxSwap
    /\ cargados \in SUBSET Procs
    /\ finalizados \in SUBSET Procs
    /\ caida \in BOOLEAN
    /\ huboSwapIn \in BOOLEAN
    /\ readmitidos \in SUBSET Repiten
    /\ escrito \in [Procs -> Seq(Valor)]
-----------------------------------------------------------------------------
Init ==
    /\ bitmap = {}
    /\ conTabla = {}
    /\ tabla = [p \in Procs |-> <<>>]
    /\ contenido = [m \in Marco |-> Basura]
    /\ enSwap = {}
    /\ offsets = [p \in Procs |-> <<>>]
    /\ archivoSwap = [s \in Slot |-> Basura]
    /\ posicion = 0
    /\ cargados = {}
    /\ finalizados = {}
    /\ caida = FALSE
    /\ huboSwapIn = FALSE
    /\ readmitidos = {}
    /\ escrito = [p \in Procs |-> <<>>]

(* mark_frames_as_busy and mark_frames_as_free.                             *)
MarcarSinLosUltimos(lista) == bitmap \cup MarcosDe(Tail(lista))
MarcarOcupados(lista) == bitmap \cup MarcosDe(lista)

LiberarMenosElPrimero(lista) == bitmap \ MarcosDe(Tail(lista))
MarcarLibres(lista) == bitmap \ MarcosDe(lista)

(* setup_page_tables: page i gets the i-th frame until the last level has   *)
(* no room left; insert_frame_in_table drops the frames after that.         *)
TablaCon(marcos) ==
    [i \in { j \in DOMAIN marcos : j <= PaginasPorTabla } |-> marcos[i]]

(* What the process finds in its pages when it is loaded: Memoria leaves    *)
(* the frames as they were.                                                 *)
PaginasIniciales(marcos) ==
    [i \in DOMAIN TablaCon(marcos) |-> contenido[marcos[i]]]

(* The stream position after fwrite of n pages, and after fread of the      *)
(* pages at these offsets (fseek to each one first).                        *)
PosicionSinAvanzar(n) == posicion
PosicionTrasEscribir(n) == posicion + n

PosicionSinFseek(leidos) == posicion + Len(leidos)
PosicionTrasLeer(leidos) ==
    IF leidos = <<>> THEN posicion ELSE leidos[Len(leidos)] + 1

(* The swap file once the pages of these frames are written at the stream   *)
(* position, and the user space once these frames hold the pages read from  *)
(* these offsets.                                                           *)
ArchivoTrasEscribir(marcos) ==
    [s \in Slot |-> IF s \in posicion..(posicion + Len(marcos) - 1)
                    THEN contenido[marcos[s - posicion + 1]]
                    ELSE archivoSwap[s]]

ContenidoLeidoAlReves(marcos, leidos) ==
    [m \in Marco |->
        IF m \in MarcosDe(marcos)
        THEN archivoSwap[leidos[Len(leidos) + 1 - CHOOSE i \in DOMAIN marcos : marcos[i] = m]]
        ELSE contenido[m]]
ContenidoTrasLeer(marcos, leidos) ==
    [m \in Marco |->
        IF m \in MarcosDe(marcos)
        THEN archivoSwap[leidos[CHOOSE i \in DOMAIN marcos : marcos[i] = m]]
        ELSE contenido[m]]
-----------------------------------------------------------------------------
(* INIT_PROC.  A process that does not fit is refused and nothing changes.  *)
(* Memoria does not look whether the pid is loaded: if it is, the new table *)
(* takes the place of the one it has and nothing frees the frames of that.  *)
(* Which pids the kernel repeats is up to it: Repiten may be all of them.   *)
InitProcess(p) ==
    /\ ~caida
    /\ p \in cargados \cup finalizados => p \in Repiten
    /\ readmitidos' = readmitidos \cup ({p} \cap cargados)
    /\ \E marcos \in MarcosParaProceso(bitmap, Tamanio[p]) :
          /\ cargados' = cargados \cup {p}
          /\ tabla' = [tabla EXCEPT ![p] = TablaCon(marcos)]
          /\ conTabla' = conTabla \cup {p}
          /\ bitmap' = MarcarOcupados(marcos)
          /\ escrito' = [escrito EXCEPT ![p] = IF p \in readmitidos' THEN <<>>
                                               ELSE PaginasIniciales(marcos)]
    /\ UNCHANGED <<contenido, enSwap, offsets, archivoSwap, posicion,
                   finalizados, caida, huboSwapIn>>

(* A running process writes a page: the frame comes from its page table.    *)
WriteMemory(p, i, v) ==
    /\ ~caida
    /\ p \in conTabla
    /\ i \in DOMAIN tabla[p]
    /\ contenido' = [contenido EXCEPT ![tabla[p][i]] = v]
    /\ escrito' = [escrito EXCEPT ![p] = [@ EXCEPT ![i] = v]]
    /\ UNCHANGED <<bitmap, conTabla, tabla, enSwap, offsets, archivoSwap,
                   posicion, cargados, finalizados, caida, huboSwapIn, readmitidos>>

(* SUSPENDER_PROCESO: the pages go to the file at its current position, one *)
(* after another; the frames are freed and the page table is deleted.       *)
SuspendProcess(p) ==
    LET n == Len(tabla[p])
    IN
    /\ ~caida
    /\ p \in conTabla
    /\ posicion + n <= MaxSwap
    /\ archivoSwap' = ArchivoTrasEscribir(tabla[p])
    /\ offsets' = [offsets EXCEPT ![p] = [i \in 1..n |-> posicion + i - 1]]
    /\ posicion' = PosicionTrasEscribir(n)
    /\ bitmap' = MarcarLibres(tabla[p])
    /\ enSwap' = enSwap \cup {p}
    /\ conTabla' = conTabla \ {p}
    /\ tabla' = [tabla EXCEPT ![p] = <<>>]
    /\ UNCHANGED <<contenido, cargados, finalizados, caida, huboSwapIn,
                   readmitidos, escrito>>

(* DESUSPENDER_PROCESO accepted: the pages are read into free frames and a  *)
(* new page table is built.  The bitmap is not touched.  When refused the   *)
(* metadata taken out of the dictionary is put back, and nothing changes.   *)
SwapIn(p) ==
    /\ ~caida
    /\ p \in enSwap
    /\ \E marcos \in MarcosParaProceso(bitmap, Len(offsets[p])) :
          /\ contenido' = ContenidoTrasLeer(marcos, offsets[p])
          /\ tabla' = [tabla EXCEPT ![p] = TablaCon(marcos)]
    /\ posicion' = PosicionTrasLeer(offsets[p])
    /\ conTabla' = conTabla \cup {p}
    /\ enSwap' = enSwap \ {p}
    /\ offsets' = [offsets EXCEPT ![p] = <<>>]
    /\ huboSwapIn' = TRUE
    /\ UNCHANGED <<bitmap, archivoSwap, cargados, finalizados, caida,
                   readmitidos, escrito>>

(* FINALIZAR_PROCESO: a suspended process only loses its swap metadata.     *)
FinishProcess(p) ==
    /\ ~caida
    /\ p \in cargados
    /\ IF p \in enSwap
       THEN UNCHANGED <<bitmap, conTabla, tabla>>
       ELSE /\ bitmap' = MarcarLibres(tabla[p])
            /\ conTabla' = conTabla \ {p}
            /\ tabla' = [tabla EXCEPT ![p] = <<>>]
    /\ enSwap' = enSwap \ {p}
    /\ offsets' = [offsets EXCEPT ![p] = <<>>]
    /\ cargados' = cargados \ {p}
    /\ finalizados' = finalizados \cup {p}
    /\ escrito' = [escrito EXCEPT ![p] = <<>>]
    /\ UNCHANGED <<contenido, archivoSwap, posicion, caida, huboSwapIn, readmitidos>>

(* DUMP_MEMORY walks the page table and changes nothing, but the table of a *)
(* suspended process is gone: get_root_table gives NULL and the walk        *)
(* dereferences it.                                                         *)
DumpProcess(p) ==
    /\ ~caida
    /\ p \in cargados
    /\ caida' = (p \notin conTabla)
    /\ UNCHANGED <<bitmap, conTabla, tabla, contenido, enSwap, offsets,
                   archivoSwap, posicion, cargados, finalizados, huboSwapIn,
                   readmitidos, escrito>>

Next ==
    \E p \in Procs :
        \/ InitProcess(p)
        \/ \E i \in DOMAIN tabla[p], v \in Valor : WriteMemory(p, i, v)
        \/ SuspendProcess(p)
        \/ SwapIn(p)
        \/ FinishProcess(p)
        \/ DumpProcess(p)

Spec == Init /\ [][Next]_vars
-----------------------------------------------------------------------------
(* No frame is lost while no process is admitted twice: a frame marked busy *)
(* is in the page table of some process, however suspensions, returns and   *)
(* exits interleave, so that when every process has ended the whole memory  *)
(* is free again.  Of a loaded process that is initialised again the first  *)
(* frames stay busy for ever; the kernel can do that (queue_process).       *)
SinFugaDeMarcos ==
    readmitidos = {} => bitmap \subseteq UNION { MarcosDe(tabla[p]) : p \in conTabla }

(* Until a process comes back from swap (swap_in does not mark its frames   *)
(* busy), no frame is in two page tables or twice in one, and every frame   *)
(* in a table is marked busy: not even when a loaded process is initialised *)
(* again.                                                                   *)
MarcosExclusivos ==
    ~huboSwapIn =>
      /\ \A p \in conTabla : MarcosDe(tabla[p]) \subseteq bitmap
      /\ \A p, q \in conTabla : \A i \in DOMAIN tabla[p], j \in DOMAIN tabla[q] :
            tabla[p][i] = tabla[q][j] => p = q /\ i = j

(* What a process last wrote in each of its pages is in the frame of the    *)
(* page while it is in memory, and at the offset of the page in the swap    *)
(* file while it is suspended.                                              *)
PaginasDe(p) ==
    /\ p \in conTabla =>
         \A i \in DOMAIN tabla[p] : contenido[tabla[p][i]] = escrito[p][i]
    /\ p \in enSwap =>
         \A i \in DOMAIN offsets[p] : archivoSwap[offsets[p][i]] = escrito[p][i]

(* Until a process comes back from swap, every process finds its pages,     *)
(* unless it is initialised again while loaded; and that does not touch the *)
(* pages of the others.                                                     *)
PaginasHastaPrimerSwapIn ==
    ~huboSwapIn => \A p \in Procs \ readmitidos : PaginasDe(p)

(* A process that has had the memory to itself finds all its pages when it  *)
(* is brought back, however often it is suspended: suspend_process keeps    *)
(* the metadata "para permitir su futura restauracion".                     *)
SinVecinos(p) == \A q \in Procs \ {p} : q \notin cargados \cup finalizados

PaginasASolas == \A p \in Procs \ readmitidos : SinVecinos(p) => PaginasDe(p)

(* The bitmap says which frames are taken: no frame of a page table is free *)
(* for another process ("libres (0) u ocupados (1)").                       *)
BitmapFiel == \A p \in conTabla : MarcosDe(tabla[p]) \subseteq bitmap

(* Suspending one process never changes the pages another one has in swap.  *)
SuspendidosIntactos ==
    [][\A p \in enSwap \cap enSwap' : \A i \in DOMAIN offsets[p] :
          archivoSwap'[offsets[p][i]] = archivoSwap[offsets[p][i]]]_vars
-----------------------------------------------------------------------------
(* The invariants behind SinFugaDeMarcos, MarcosExclusivos and              *)
(* PaginasHastaPrimerSwapIn: a loaded process is in memory or in swap, and, *)
(* if it has been initialised once, in one of them and only while loaded;   *)
(* until the first swap_in the file is only appended to.                    *)
EnMemoriaOEnSwap ==
    /\ cargados \subseteq conTabla \cup enSwap
    /\ conTabla \cup enSwap \subseteq cargados \cup finalizados
    /\ (conTabla \cap enSwap) \subseteq readmitidos
    /\ (conTabla \cup enSwap) \ readmitidos \subseteq cargados

ArchivoAcumulado ==
    ~huboSwapIn =>
      /\ \A p \in enSwap : \A i \in DOMAIN offsets[p] : offsets[p][i] < posicion
      /\ \A p \in conTabla \ readmitidos : DOMAIN escrito[p] = DOMAIN tabla[p]

IInv ==
    /\ TypeOK
    /\ EnMemoriaOEnSwap
    /\ MarcosExclusivos
    /\ ArchivoAcumulado
    /\ PaginasHastaPrimerSwapIn

(* Every process fits in its page table.                                    *)
TablaSuficiente == \A p \in Procs : Tamanio[p] <= PaginasPorTabla
=============================================================================
