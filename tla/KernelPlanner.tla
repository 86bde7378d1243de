---------------------------- MODULE KernelPlanner ----------------------------
(***************************************************************************)
(* The kernel's planner: the seven states of a process, the queues, the    *)
(* mutexes and the threads that move processes between them.               *)
(*                                                                         *)
(* The kernel has a thread per CPU (kernel_server_dispatch_handler), a     *)
(* thread per IO connection (kernel_server_io_handler), a timer thread per *)
(* blocked process (timer_de_blockeo) and main, which creates the first    *)
(* process.  They all call queue_process, which calls itself and           *)
(* traer_proceso_a_MP, so each thread is a stack of tasks, pila[h]: a step *)
(* of thread h runs the task on top, up to the next point where another    *)
(* thread can be told apart, and replaces it by what is left to do.        *)
(*                                                                         *)
(* Memoria answers one request at a time (mutex_memoria) and is reduced to *)
(* its frames: see Memoria for the rest of it.  Short term is FIFO.        *)
(***************************************************************************)
EXTENDS Marcos, Sequences

CONSTANTS
    Procs,        \* pids
    Primero,      \* the process main creates
    Cpus,         \* the connected CPUs
    Conexiones,   \* the IO connections
    OrdenCpus,    \* list_cpus
    Tamanio,      \* pages of each process
    AlgoritmoIngreso, \* ALGORITMO_INGRESO_A_READY: "FIFO" or "PMCP"
    Retardo,      \* whether RETARDO_MEMORIA outlasts the kernel's own steps
    VenceTimer,   \* whether TIEMPO_SUSPENSION may elapse during the run
    Guiones,      \* the scripts the processes may run
    MaxTimers,    \* bound: timer threads a process may ever have
    Nadie         \* pid -1

Syscalls == {"IO", "IO_FALLA", "DUMP", "DUMP_FALLA", "INIT_PROC"}
Guion == Seq([op : Syscalls, pid : Procs])    \* pid: the process INIT_PROC creates

ASSUME PrimeroAssumption == Primero \in Procs
ASSUME NadieAssumption == Nadie \notin Procs
ASSUME OrdenAssumption ==
    OrdenCpus \in Seq(Cpus) /\ \A c \in Cpus : \E i \in DOMAIN OrdenCpus : OrdenCpus[i] = c
ASSUME TamanioAssumption == Tamanio \in [Procs -> Nat]
ASSUME GuionesAssumption == Guiones \subseteq [Procs -> Guion]
ASSUME MaxTimersAssumption == MaxTimers \in Nat
ASSUME TiempoAssumption == VenceTimer \in BOOLEAN /\ Retardo \in BOOLEAN

Main == <<"main">>
Cpu(c) == <<"cpu", c>>
Io(x) == <<"io", x>>
Timer(p, k) == <<"timer", p, k>>

Timers == { Timer(p, k) : p \in Procs, k \in 1..MaxTimers }
Hilos == {Main} \cup { Cpu(c) : c \in Cpus } \cup { Io(x) : x \in Conexiones } \cup Timers

VARIABLES
    pila,        \* tasks each thread has left
    estado,      \* queue_ESTADO_ACTUAL of each process
    cola,        \* the queues whose order matters
    cpuPid,      \* pid of each t_cpu; DISPONIBLE exactly when it is -1
    contexto,    \* contexts sent to each CPU; it is running the first
    pc,          \* pc of each PCB
    guion,       \* what each process runs
    enIO,        \* processes an IO device has yet to finish with
    mTraer,      \* mutex_traer is locked
    huerfanos,   \* mutexes left locked by a cancelled thread
    trabado,     \* processes whose mutex_estado is locked
    posible,     \* posible_suspension
    hiloActivo,  \* hilo_activo
    hiloBlock,   \* hilo_block: the last timer created
    cancelado,   \* timers with a pending pthread_cancel
    bitmap,      \* Memoria: frames marked busy
    marcos,      \* Memoria: frames in each page table
    residentes,  \* Memoria: processes with a page table
    suspendidos, \* Memoria: processes with swap metadata
    caido        \* the kernel or Memoria dereferenced NULL

planVars == <<estado, cola>>
cpuVars == <<cpuPid, contexto>>
mutexVars == <<mTraer, huerfanos, trabado>>
timerVars == <<posible, hiloActivo, hiloBlock, cancelado>>
memVars == <<bitmap, marcos, residentes, suspendidos>>
guionVars == <<pc, guion, enIO>>
otras == <<planVars, cpuVars, guionVars, mutexVars, timerVars, memVars, caido>>
vars == <<pila, otras>>

Estados == {"NEW", "READY", "EXECUTE", "BLOCKED", "BLOCKED_SUSPENDED",
            "READY_SUSPENDED", "EXIT", "NO_CREADO", "CREADO", "ELIMINADO"}
Colas == {"NEW", "READY", "READY_SUSPENDED"}
Ops == {"NEW", "NEW_TRAER", "NEW_INIT", "NEW_FIN", "READY", "READY_CPU",
        "EXECUTE", "ENVIAR", "BLOCKED", "BLOQUEAR", "JOIN", "CREAR_TIMER", "ENCOLAR_IO",
        "READY_SUSPENDED", "RS_VER", "EXIT", "EXIT_MEM", "LIBERAR_CPU",
        "TRAER", "TRAER_RS", "TRAER_NEW", "PEDIR_NEW",
        "MANDAR", "MANDAR_VER", "MANDAR_TOMAR",
        "DESBLOQUEO", "DUMP", "DUMP_FALLA", "DUMP_OK", "DUMP_ERROR", "DUMP_FIN",
        "DUMP_EXIT", "TIMER", "DORMIR", "REVISAR", "SUSPENDER", "SUSPENDER_MEM",
        "CANCELAR", "FIN_TIMER"}
Tarea == [op : Ops, pid : Procs \cup {Nadie}]

TypeOK ==
    /\ pila \in [Hilos -> Seq(Tarea)]
    /\ estado \in [Procs -> Estados]
    /\ cola \in [Colas -> Seq(Procs)]
    /\ cpuPid \in [Cpus -> Procs \cup {Nadie}]
    /\ contexto \in [Cpus -> Seq([pid : Procs, pc : Nat])]
    /\ pc \in [Procs -> Nat]
    /\ guion \in Guiones
    /\ enIO \in SUBSET Procs
    /\ mTraer \in BOOLEAN
    /\ huerfanos \in SUBSET {"mutex_memoria", "mutex_cpu"}
    /\ trabado \in SUBSET Procs
    /\ posible \in [Procs -> BOOLEAN]
    /\ hiloActivo \in [Procs -> BOOLEAN]
    /\ hiloBlock \in [Procs -> 0..MaxTimers]
    /\ cancelado \in SUBSET Timers
    /\ bitmap \in SUBSET Marco
    /\ marcos \in [Procs -> SUBSET Marco]
    /\ residentes \in SUBSET Procs
    /\ suspendidos \in SUBSET Procs
    /\ caido \in BOOLEAN
-----------------------------------------------------------------------------
(* Tasks of a thread.                                                       *)

Por(op, p) == [op |-> op, pid |-> p]
Sola(op) == [op |-> op, pid |-> Nadie]

(* Thread h is about to run op on process p.                                *)
Toca(h, op, p) ==
    /\ ~caido
    /\ pila[h] # <<>>
    /\ Head(pila[h]) = Por(op, p)

(* Thread h goes on with these tasks in place of the one it ran.            *)
Sigue(h, tareas) == pila' = [pila EXCEPT ![h] = tareas \o Tail(@)]

Solo(h, tareas) == Sigue(h, tareas) /\ UNCHANGED otras

(* Thread h may lock a mutex no dead thread holds; a thread with a pending  *)
(* cancel does not get through connect, send or recv.                       *)
PuedePedir(h) == "mutex_memoria" \notin huerfanos /\ h \notin cancelado
PuedeEnviar(h) == "mutex_cpu" \notin huerfanos /\ h \notin cancelado

-----------------------------------------------------------------------------
(* Queues: queue_FIFO, queue_PMCP and the first half of cambiar_estado.     *)

InsertarFIFO(p, lista) == Append(lista, p)

InsertarPMCP(p, lista) ==
    LET mayores == { i \in DOMAIN lista : Tamanio[p] < Tamanio[lista[i]] }
        i == CHOOSE i \in mayores : \A j \in mayores : i <= j
    IN IF mayores = {} THEN Append(lista, p)
       ELSE SubSeq(lista, 1, i - 1) \o <<p>> \o SubSeq(lista, i, Len(lista))

Insertar(c, p, lista) ==
    IF c # "READY" /\ AlgoritmoIngreso = "PMCP"
    THEN InsertarPMCP(p, lista)
    ELSE InsertarFIFO(p, lista)

(* list_remove_element: the first occurrence, if there is one.              *)
Quitar(p, lista) ==
    LET lugares == { i \in DOMAIN lista : lista[i] = p }
        i == CHOOSE i \in lugares : \A j \in lugares : i <= j
    IN IF lugares = {} THEN lista
       ELSE SubSeq(lista, 1, i - 1) \o SubSeq(lista, i + 1, Len(lista))

ColaTras(p, e, c) ==
    LET resto == IF estado[p] = c THEN Quitar(p, cola[c]) ELSE cola[c]
    IN IF c = e THEN Insertar(c, p, resto) ELSE resto

CambiarEstado(p, e) ==
    /\ estado' = [estado EXCEPT ![p] = e]
    /\ cola' = [c \in Colas |-> ColaTras(p, e, c)]

-----------------------------------------------------------------------------
(* CPUs: buscar_cpu_disponible and buscar_mi_cpu, first match in list_cpus. *)

CpusTodas == Cpus
CpusDisponibles == { c \in Cpus : cpuPid[c] = Nadie }
CpusDe(p) == { c \in Cpus : cpuPid[c] = p }

Primera(cs) ==
    OrdenCpus[CHOOSE i \in DOMAIN OrdenCpus :
                /\ OrdenCpus[i] \in cs
                /\ \A j \in DOMAIN OrdenCpus : OrdenCpus[j] \in cs => i <= j]

-----------------------------------------------------------------------------
(* Memoria, as the kernel can tell it: see module Memoria.                  *)

MarcosNuevos(p) ==
    MarcosDe(CHOOSE lista \in MarcosParaProceso(bitmap, Tamanio[p]) : TRUE)

Entra(p) == HayMemoria(bitmap, Tamanio[p])

(* memoria_init_proc, accepted.                                             *)
MemInit(p) ==
    /\ marcos' = [marcos EXCEPT ![p] = MarcosNuevos(p)]
    /\ bitmap' = bitmap \cup MarcosNuevos(p)
    /\ residentes' = residentes \cup {p}
    /\ UNCHANGED suspendidos

(* suspender_proceso; there must be a page table.                           *)
MemSuspender(p) ==
    /\ bitmap' = bitmap \ marcos[p]
    /\ marcos' = [marcos EXCEPT ![p] = {}]
    /\ residentes' = residentes \ {p}
    /\ suspendidos' = suspendidos \cup {p}

(* desuspender_proceso, accepted: swap_in leaves the bitmap as it was.      *)
MemDesuspender(p) ==
    /\ marcos' = [marcos EXCEPT ![p] = MarcosNuevos(p)]
    /\ residentes' = residentes \cup {p}
    /\ suspendidos' = suspendidos \ {p}
    /\ UNCHANGED bitmap

(* memoria_delete_process.                                                  *)
MemFinalizar(p) ==
    /\ bitmap' = IF p \in suspendidos THEN bitmap ELSE bitmap \ marcos[p]
    /\ marcos' = [marcos EXCEPT ![p] = {}]
    /\ residentes' = residentes \ {p}
    /\ suspendidos' = suspendidos \ {p}
-----------------------------------------------------------------------------
Init ==
    /\ pila = [h \in Hilos |-> IF h = Main THEN <<Por("NEW", Primero)>> ELSE <<>>]
    /\ estado = [p \in Procs |-> IF p = Primero THEN "CREADO" ELSE "NO_CREADO"]
    /\ cola = [c \in Colas |-> <<>>]
    /\ cpuPid = [c \in Cpus |-> Nadie]
    /\ contexto = [c \in Cpus |-> <<>>]
    /\ pc = [p \in Procs |-> 0]
    /\ guion \in Guiones
    /\ enIO = {}
    /\ mTraer = FALSE
    /\ huerfanos = {}
    /\ trabado = {}
    /\ posible = [p \in Procs |-> FALSE]
    /\ hiloActivo = [p \in Procs |-> FALSE]
    /\ hiloBlock = [p \in Procs |-> 0]
    /\ cancelado = {}
    /\ bitmap = {}
    /\ marcos = [p \in Procs |-> {}]
    /\ residentes = {}
    /\ suspendidos = {}
    /\ caido = FALSE

-----------------------------------------------------------------------------
(* queue_process(p, NEW).                                                   *)

New(h, p) ==
    /\ Toca(h, "NEW", p)
    /\ p \notin trabado
    /\ trabado' = trabado \cup {p}
    /\ CambiarEstado(p, "NEW")
    /\ Sigue(h, <<Por("NEW_TRAER", p)>>)
    /\ UNCHANGED <<cpuVars, guionVars, mTraer, huerfanos, timerVars, memVars, caido>>

(* Whether a process that has just entered NEW asks Memoria for room.       *)
PuedeAdmitir(p) ==
    /\ cola["READY_SUSPENDED"] = <<>>
    /\ \/ Len(cola["NEW"]) = 1
       \/ AlgoritmoIngreso = "PMCP" /\ Head(cola["NEW"]) = p

NewTraer(h, p) ==
    /\ Toca(h, "NEW_TRAER", p)
    /\ ~mTraer
    /\ mTraer' = TRUE
    /\ Sigue(h, <<Por(IF PuedeAdmitir(p) THEN "NEW_INIT" ELSE "NEW_FIN", p)>>)
    /\ UNCHANGED <<planVars, cpuVars, guionVars, huerfanos, trabado, timerVars, memVars, caido>>

(* Both mutexes are released before going on to READY, and once more after. *)
NewInit(h, p) ==
    /\ Toca(h, "NEW_INIT", p)
    /\ PuedePedir(h)
    /\ IF Entra(p)
       THEN /\ MemInit(p)
            /\ mTraer' = FALSE
            /\ trabado' = trabado \ {p}
            /\ Sigue(h, <<Por("READY", p), Por("NEW_FIN", p)>>)
       ELSE /\ Sigue(h, <<Por("NEW_FIN", p)>>)
            /\ UNCHANGED <<mTraer, trabado, memVars>>
    /\ UNCHANGED <<planVars, cpuVars, guionVars, huerfanos, timerVars, caido>>

NewFin(h, p) ==
    /\ Toca(h, "NEW_FIN", p)
    /\ mTraer' = FALSE
    /\ trabado' = trabado \ {p}
    /\ Sigue(h, <<>>)
    /\ UNCHANGED <<planVars, cpuVars, guionVars, huerfanos, timerVars, memVars, caido>>

-----------------------------------------------------------------------------
(* queue_process(p, READY) and (p, EXECUTE).                                *)

Ready(h, p) ==
    /\ Toca(h, "READY", p)
    /\ p \notin trabado
    /\ h \notin cancelado
    /\ trabado' = trabado \cup {p}
    /\ CambiarEstado(p, "READY")
    /\ Sigue(h, <<Por("READY_CPU", p)>>)
    /\ UNCHANGED <<cpuVars, guionVars, mTraer, huerfanos, timerVars, memVars, caido>>

ReadyCpu(h, p) ==
    /\ Toca(h, "READY_CPU", p)
    /\ "mutex_cpu" \notin huerfanos
    /\ trabado' = trabado \ {p}
    /\ IF CpusDisponibles # {}
       THEN /\ cpuPid' = [cpuPid EXCEPT ![Primera(CpusDisponibles)] = p]
            /\ Sigue(h, <<Por("EXECUTE", p)>>)
       ELSE /\ Sigue(h, <<>>)
            /\ UNCHANGED cpuPid
    /\ UNCHANGED <<planVars, contexto, guionVars, mTraer, huerfanos, timerVars, memVars, caido>>

Execute(h, p) ==
    /\ Toca(h, "EXECUTE", p)
    /\ p \notin trabado
    /\ h \notin cancelado
    /\ CambiarEstado(p, "EXECUTE")
    /\ Sigue(h, <<Por("ENVIAR", p)>>)
    /\ UNCHANGED <<cpuVars, guionVars, mutexVars, timerVars, memVars, caido>>

Enviar(h, p) ==
    /\ Toca(h, "ENVIAR", p)
    /\ PuedeEnviar(h)
    /\ IF CpusDe(p) # {}
       THEN /\ contexto' = [contexto EXCEPT ![Primera(CpusDe(p))] =
                               Append(@, [pid |-> p, pc |-> pc[p]])]
            /\ Sigue(h, <<>>)
       ELSE /\ Sigue(h, <<Por("READY", p)>>)
            /\ UNCHANGED contexto
    /\ UNCHANGED <<planVars, cpuPid, guionVars, mutexVars, timerVars, memVars, caido>>

-----------------------------------------------------------------------------
(* queue_process(p, BLOCKED) and bloquearProceso.                           *)

Blocked(h, p) ==
    /\ Toca(h, "BLOCKED", p)
    /\ p \notin trabado
    /\ posible' = [posible EXCEPT ![p] = TRUE]
    /\ CambiarEstado(p, "BLOCKED")
    /\ Sigue(h, <<Por("BLOQUEAR", p)>>)
    /\ UNCHANGED <<cpuVars, guionVars, mutexVars, hiloActivo, hiloBlock, cancelado, memVars,
                   caido>>

(* pthread_cancel of the last timer, if it says it is active.               *)
CancelarTimer(p) ==
    cancelado' = IF hiloActivo[p] THEN cancelado \cup {Timer(p, hiloBlock[p])}
                                  ELSE cancelado

Bloquear(h, p) ==
    /\ Toca(h, "BLOQUEAR", p)
    /\ CancelarTimer(p)
    /\ Sigue(h, IF hiloActivo[p] THEN <<Por("JOIN", p), Por("CREAR_TIMER", p)>>
                                 ELSE <<Por("CREAR_TIMER", p)>>)
    /\ UNCHANGED <<planVars, cpuVars, guionVars, mutexVars, posible, hiloActivo, hiloBlock,
                   memVars, caido>>

(* pthread_join of the last timer.                                          *)
Join(h, p) ==
    /\ Toca(h, "JOIN", p)
    /\ hiloBlock[p] > 0
    /\ pila[Timer(p, hiloBlock[p])] = <<>>
    /\ Solo(h, <<>>)

CrearTimer(h, p) ==
    LET k == hiloBlock[p] + 1
    IN
    /\ Toca(h, "CREAR_TIMER", p)
    /\ k <= MaxTimers
    /\ hiloBlock' = [hiloBlock EXCEPT ![p] = k]
    /\ pila' = [pila EXCEPT ![h] = Tail(@), ![Timer(p, k)] = <<Por("TIMER", p)>>]
    /\ UNCHANGED <<planVars, cpuVars, guionVars, mutexVars, posible, hiloActivo, cancelado,
                   memVars, caido>>

-----------------------------------------------------------------------------
(* timer_de_blockeo and queue_process(p, BLOCKED_SUSPENDED).                *)

TimerArranca(h, p) ==
    /\ Toca(h, "TIMER", p)
    /\ hiloActivo' = [hiloActivo EXCEPT ![p] = TRUE]
    /\ Sigue(h, <<Por("DORMIR", p)>>)
    /\ UNCHANGED <<planVars, cpuVars, guionVars, mutexVars, posible, hiloBlock, cancelado,
                   memVars, caido>>

(* Cancelled in usleep: only limpiar_hilo_activo is pushed by then.         *)
TimerCancelado(h, p) ==
    /\ Toca(h, "DORMIR", p)
    /\ h \in cancelado
    /\ hiloActivo' = [hiloActivo EXCEPT ![p] = FALSE]
    /\ cancelado' = cancelado \ {h}
    /\ Sigue(h, <<>>)
    /\ UNCHANGED <<planVars, cpuVars, guionVars, mutexVars, posible, hiloBlock, memVars, caido>>

(* The process may still be suspended: what the timer checks, twice, before *)
(* it asks for the suspension, and queue_process once more.                 *)
SigueBloqueado(p) == estado[p] = "BLOCKED"
Suspendible(p) == estado[p] = "BLOCKED" /\ posible[p]

TimerVence(h, p) ==
    /\ Toca(h, "DORMIR", p)
    /\ VenceTimer
    /\ h \notin cancelado
    /\ Solo(h, <<Por(IF Suspendible(p) /\ hiloActivo[p] THEN "REVISAR"
                                                        ELSE "FIN_TIMER", p)>>)

TimerRevisa(h, p) ==
    /\ Toca(h, "REVISAR", p)
    /\ p \notin trabado
    /\ Solo(h, IF Suspendible(p) THEN <<Por("SUSPENDER", p), Por("FIN_TIMER", p)>>
                                  ELSE <<Por("FIN_TIMER", p)>>)

(* mutex_estado stays locked until the timer ends, whatever the outcome.    *)
Suspender(h, p) ==
    /\ Toca(h, "SUSPENDER", p)
    /\ p \notin trabado
    /\ h \notin cancelado
    /\ trabado' = trabado \cup {p}
    /\ IF Suspendible(p)
       THEN /\ CambiarEstado(p, "BLOCKED_SUSPENDED")
            /\ Sigue(h, <<Por("SUSPENDER_MEM", p)>>)
       ELSE /\ Sigue(h, <<Por("CANCELAR", p)>>)
            /\ UNCHANGED planVars
    /\ UNCHANGED <<cpuVars, guionVars, mTraer, huerfanos, timerVars, memVars, caido>>

SuspenderMem(h, p) ==
    /\ Toca(h, "SUSPENDER_MEM", p)
    /\ PuedePedir(h)
    /\ caido' = (p \notin residentes)
    /\ MemSuspender(p)
    /\ Sigue(h, <<Sola("TRAER"), Por("CANCELAR", p)>>)
    /\ UNCHANGED <<planVars, cpuVars, guionVars, mutexVars, timerVars>>

(* The timer cancels and joins hilo_block, if it says it is active: itself, *)
(* which ends it, or a timer created after it.                              *)
TimerCancela(h, p) ==
    /\ Toca(h, "CANCELAR", p)
    /\ CancelarTimer(p)
    /\ Sigue(h, IF hiloActivo[p] /\ h # Timer(p, hiloBlock[p]) THEN <<Por("JOIN", p)>>
                                                             ELSE <<>>)
    /\ UNCHANGED <<planVars, cpuVars, guionVars, mutexVars, posible, hiloActivo, hiloBlock,
                   memVars, caido>>

(* The cleanup handlers: unlock mutex_estado, whoever holds it, and clear   *)
(* hilo_activo.                                                             *)
TimerTermina(h, p) ==
    /\ Toca(h, "FIN_TIMER", p)
    /\ trabado' = trabado \ {p}
    /\ hiloActivo' = [hiloActivo EXCEPT ![p] = FALSE]
    /\ cancelado' = cancelado \ {h}
    /\ Sigue(h, <<>>)
    /\ UNCHANGED <<planVars, cpuVars, guionVars, mTraer, huerfanos, posible, hiloBlock,
                   memVars, caido>>

(* A pending cancel acts in the first log_info, connect, send or recv the   *)
(* timer reaches, and the mutex held around it is never unlocked (its own   *)
(* mutex_estado is: see the cleanup handlers).  After a request was         *)
(* interrupted no other is possible, so whether it reached Memoria makes no *)
(* difference.                                                              *)
MutexDelPedido(op) ==
    CASE op \in {"SUSPENDER_MEM", "TRAER_RS", "PEDIR_NEW"} -> {"mutex_memoria"}
      [] op = "ENVIAR" -> {"mutex_cpu"}
      [] OTHER -> {}

EstadoDelPedido(t) == IF t.op \in {"READY", "EXECUTE", "SUSPENDER"} THEN {t.pid} ELSE {}

TimerMuere(p, k) ==
    LET h == Timer(p, k)
        m == MutexDelPedido(Head(pila[h]).op)
        e == EstadoDelPedido(Head(pila[h]))
    IN
    /\ ~caido
    /\ h \in cancelado
    /\ pila[h] # <<>>
    /\ m # {} \/ e # {}
    /\ m \cap huerfanos = {}
    /\ e \cap trabado = {}
    /\ huerfanos' = huerfanos \cup m
    /\ trabado' = (trabado \cup e) \ {p}
    /\ hiloActivo' = [hiloActivo EXCEPT ![p] = FALSE]
    /\ cancelado' = cancelado \ {h}
    /\ pila' = [pila EXCEPT ![h] = <<>>]
    /\ UNCHANGED <<planVars, cpuVars, guionVars, mTraer, posible, hiloBlock, memVars, caido>>

-----------------------------------------------------------------------------
(* queue_process(p, READY_SUSPENDED) and (p, EXIT).                         *)

ReadySuspended(h, p) ==
    /\ Toca(h, "READY_SUSPENDED", p)
    /\ p \notin trabado
    /\ IF estado[p] = "BLOCKED_SUSPENDED"
       THEN /\ CambiarEstado(p, "READY_SUSPENDED")
            /\ Sigue(h, <<Por("RS_VER", p)>>)
       ELSE /\ Sigue(h, <<>>)
            /\ UNCHANGED planVars
    /\ UNCHANGED <<cpuVars, guionVars, mutexVars, timerVars, memVars, caido>>

TraerSiHayOtro == IF Len(cola["READY_SUSPENDED"]) > 1 THEN <<Sola("TRAER")>> ELSE <<>>
TraerSiEsUnico == IF Len(cola["READY_SUSPENDED"]) = 1 THEN <<Sola("TRAER")>> ELSE <<>>

ReadySuspendedVer(h, p) ==
    /\ Toca(h, "RS_VER", p)
    /\ Solo(h, TraerSiEsUnico)

Exit(h, p) ==
    /\ Toca(h, "EXIT", p)
    /\ p \notin trabado
    /\ trabado' = trabado \cup {p}
    /\ CambiarEstado(p, "EXIT")
    /\ Sigue(h, <<Por("EXIT_MEM", p)>>)
    /\ UNCHANGED <<cpuVars, guionVars, mTraer, huerfanos, timerVars, memVars, caido>>

(* Memoria drops the process and carnicero the PCB, which cancels the timer *)
(* and detaches it; then what the exit made room for is brought in.         *)
NadaTrasElExit == <<>>
DespuesDelExit == <<Sola("TRAER")>>

ExitMem(h, p) ==
    /\ Toca(h, "EXIT_MEM", p)
    /\ PuedePedir(h)
    /\ caido' = (p \notin residentes \cup suspendidos)
    /\ MemFinalizar(p)
    /\ trabado' = trabado \ {p}
    /\ estado' = [estado EXCEPT ![p] = "ELIMINADO"]
    /\ CancelarTimer(p)
    /\ Sigue(h, DespuesDelExit)
    /\ UNCHANGED <<cola, cpuVars, guionVars, mTraer, huerfanos, posible, hiloActivo, hiloBlock>>
-----------------------------------------------------------------------------
(* traer_proceso_a_MP.                                                      *)

TraerEntra(h) ==
    /\ Toca(h, "TRAER", Nadie)
    /\ ~mTraer
    /\ mTraer' = TRUE
    /\ Sigue(h, <<Sola("TRAER_RS")>>)
    /\ UNCHANGED <<planVars, cpuVars, guionVars, huerfanos, trabado, timerVars, memVars, caido>>

(* The process the loops ask Memoria for.                                   *)
Ultimo(c) == cola[c][Len(cola[c])]
Elegido(c) == Head(cola[c])

(* Nothing to take: list_get gives NULL; no swap metadata: swap_in fails.   *)
(* Only the thread in this loop takes from READY_SUSPENDED, so seeing that  *)
(* it has a process and asking for it are one step.                         *)
TraerRS(h) ==
    LET rs == cola["READY_SUSPENDED"]
        p == Elegido("READY_SUSPENDED")
        siga == rs # <<>> /\ p \in suspendidos /\ Entra(p)
    IN
    /\ Toca(h, "TRAER_RS", Nadie)
    /\ rs # <<>> => PuedePedir(h)
    /\ caido' = (rs # <<>> /\ p \notin suspendidos)
    /\ Sigue(h, IF siga THEN <<Por("READY", p), Sola("TRAER_RS")>> ELSE <<Sola("TRAER_NEW")>>)
    /\ IF siga THEN MemDesuspender(p) ELSE UNCHANGED memVars
    /\ UNCHANGED <<planVars, cpuVars, guionVars, mutexVars, timerVars>>

(* The queue of NEW does not: queue_process(p, NEW) takes p to READY with   *)
(* mutex_traer released.                                                    *)
TraerVerNew(h) ==
    /\ Toca(h, "TRAER_NEW", Nadie)
    /\ Sigue(h, IF cola["NEW"] = <<>> THEN <<>> ELSE <<Sola("PEDIR_NEW")>>)
    /\ mTraer' = (mTraer /\ cola["NEW"] # <<>>)
    /\ UNCHANGED <<planVars, cpuVars, guionVars, huerfanos, trabado, timerVars, memVars, caido>>

TraerNew(h) ==
    LET p == Elegido("NEW")
        siga == cola["NEW"] # <<>> /\ Entra(p)
    IN
    /\ Toca(h, "PEDIR_NEW", Nadie)
    /\ PuedePedir(h)
    /\ caido' = (cola["NEW"] = <<>>)
    /\ Sigue(h, IF siga THEN <<Por("READY", p), Sola("TRAER_NEW")>> ELSE <<>>)
    /\ mTraer' = (mTraer /\ siga)
    /\ IF siga THEN MemInit(p) ELSE UNCHANGED memVars
    /\ UNCHANGED <<planVars, cpuVars, guionVars, huerfanos, trabado, timerVars>>

-----------------------------------------------------------------------------
(* mandar_procesos_a_execute.                                               *)

MandarEntra(h) ==
    /\ Toca(h, "MANDAR", Nadie)
    /\ ~mTraer
    /\ mTraer' = TRUE
    /\ Sigue(h, <<Sola("MANDAR_VER")>>)
    /\ UNCHANGED <<planVars, cpuVars, guionVars, huerfanos, trabado, timerVars, memVars, caido>>

MandarVer(h) ==
    /\ Toca(h, "MANDAR_VER", Nadie)
    /\ Sigue(h, IF cola["READY"] = <<>> THEN <<>> ELSE <<Sola("MANDAR_TOMAR")>>)
    /\ mTraer' = (mTraer /\ cola["READY"] # <<>>)
    /\ UNCHANGED <<planVars, cpuVars, guionVars, huerfanos, trabado, timerVars, memVars, caido>>

MandarTomar(h) ==
    LET p == Head(cola["READY"])
        siga == CpusDisponibles # {} /\ cola["READY"] # <<>>
    IN
    /\ Toca(h, "MANDAR_TOMAR", Nadie)
    /\ "mutex_cpu" \notin huerfanos
    /\ caido' = (CpusDisponibles # {} /\ cola["READY"] = <<>>)
    /\ Sigue(h, IF siga THEN <<Por("EXECUTE", p), Sola("MANDAR_VER")>> ELSE <<>>)
    /\ mTraer' = (mTraer /\ siga)
    /\ cpuPid' = IF siga THEN [cpuPid EXCEPT ![Primera(CpusDisponibles)] = p] ELSE cpuPid
    /\ UNCHANGED <<planVars, contexto, guionVars, huerfanos, trabado, timerVars, memVars>>

(* set_cpu(cpu_socket, DISPONIBLE, -1) at the end of EXIT_SYS.              *)
LiberarCpu(c) ==
    /\ Toca(Cpu(c), "LIBERAR_CPU", Nadie)
    /\ cpuPid' = [cpuPid EXCEPT ![c] = Nadie]
    /\ Sigue(Cpu(c), <<>>)
    /\ UNCHANGED <<planVars, contexto, guionVars, mutexVars, timerVars, memVars, caido>>

-----------------------------------------------------------------------------
(* kernel_server_io_handler, DESBLOQUEO_IO.  The devices and the queue of   *)
(* processes waiting for one are reduced to the set enIO.                   *)

(* list_procesos no longer holds a PCB there, but the address of a local    *)
(* variable carnicero has returned from.                                    *)
LeeEliminado(p) == IF estado[p] = "ELIMINADO" THEN BOOLEAN ELSE {FALSE}

DesbloqueoIO(x) ==
    /\ ~caido
    /\ pila[Io(x)] = <<>>
    /\ \E p \in enIO :
          /\ enIO' = enIO \ {p}
          /\ caido' \in LeeEliminado(p)
          /\ pila' = [pila EXCEPT ![Io(x)] =
                         IF estado[p] = "ELIMINADO" THEN <<>> ELSE <<Por("DESBLOQUEO", p)>>]
    /\ UNCHANGED <<planVars, cpuVars, pc, guion, mutexVars, timerVars, memVars>>

SiempreAReady(p) == "READY"
SiempreASuspendido(p) == "READY_SUSPENDED"
DestinoTrasIO(p) == IF estado[p] = "BLOCKED" THEN "READY" ELSE "READY_SUSPENDED"

Desbloqueo(h, p) ==
    /\ Toca(h, "DESBLOQUEO", p)
    /\ p \notin trabado
    /\ posible' = [posible EXCEPT ![p] = FALSE]
    /\ Sigue(h, <<Por(DestinoTrasIO(p), p)>>)
    /\ UNCHANGED <<planVars, cpuVars, guionVars, mutexVars, hiloActivo, hiloBlock,
                   cancelado, memVars, caido>>

EncolarIO(h, p) ==
    /\ Toca(h, "ENCOLAR_IO", p)
    /\ enIO' = enIO \cup {p}
    /\ Sigue(h, <<>>)
    /\ UNCHANGED <<planVars, cpuVars, pc, guion, mutexVars, timerVars, memVars, caido>>

-----------------------------------------------------------------------------
(* kernel_server_dispatch_handler, DUMP_MEMORY, once the process is BLOCKED.*)

Dump(h, p) ==
    /\ \E falla \in BOOLEAN :
          /\ Toca(h, IF falla THEN "DUMP_FALLA" ELSE "DUMP", p)
          /\ Sigue(h, <<Por(IF falla THEN "DUMP_ERROR" ELSE "DUMP_OK", p)>>)
    /\ PuedePedir(h)
    /\ caido' = (p \notin residentes)
    /\ UNCHANGED <<planVars, cpuVars, guionVars, mutexVars, timerVars, memVars>>

DumpOk(h, p) ==
    /\ Toca(h, "DUMP_OK", p)
    /\ posible' = [posible EXCEPT ![p] = FALSE]
    /\ CancelarTimer(p)
    /\ Sigue(h, <<Por("JOIN", p), Por("DUMP_FIN", p)>>)
    /\ UNCHANGED <<planVars, cpuVars, guionVars, mutexVars, hiloActivo, hiloBlock, memVars,
                   caido>>

DumpFin(h, p) ==
    /\ Toca(h, "DUMP_FIN", p)
    /\ Solo(h, <<Por(IF estado[p] = "BLOCKED_SUSPENDED" THEN "READY_SUSPENDED"
                                                         ELSE "READY", p)>>)

DumpError(h, p) ==
    /\ Toca(h, "DUMP_ERROR", p)
    /\ CancelarTimer(p)
    /\ Sigue(h, <<Por("JOIN", p), Por("DUMP_EXIT", p)>>)
    /\ UNCHANGED <<planVars, cpuVars, guionVars, mutexVars, posible, hiloActivo, hiloBlock,
                   memVars, caido>>

(* Locks mutex_estado and calls queue_process(p, EXIT), which locks it too. *)
DumpExit(h, p) ==
    /\ Toca(h, "DUMP_EXIT", p)
    /\ p \notin trabado
    /\ trabado' = trabado \cup {p}
    /\ Sigue(h, <<Por("EXIT", p)>>)
    /\ UNCHANGED <<planVars, cpuVars, guionVars, mTraer, huerfanos, timerVars, memVars, caido>>

-----------------------------------------------------------------------------
(* kernel_server_dispatch_handler: the CPU runs its script up to the next   *)
(* system call and the thread that serves it starts on the request.         *)

Corre(c) == Head(contexto[c])
Instruccion(c) ==
    IF Corre(c).pc < Len(guion[Corre(c).pid]) THEN guion[Corre(c).pid][Corre(c).pc + 1]
                                              ELSE Por("EXIT", Corre(c).pid)

(* What the handler does, on process p, for each of the calls that end the  *)
(* turn of the process.                                                     *)
TareasSinMandar(op, p) == IF op = "IO" THEN <<Por("BLOCKED", p), Por("ENCOLAR_IO", p)>>
                                      ELSE <<Por("EXIT", p), Sola("LIBERAR_CPU")>>
TareasDe(op, p) ==
    CASE op = "EXIT" -> (IF estado[p] = "ELIMINADO" THEN <<>> ELSE <<Por("EXIT", p)>>)
                            \o <<Sola("LIBERAR_CPU"), Sola("MANDAR")>>
      [] op = "IO" -> <<Por("BLOCKED", p), Por("ENCOLAR_IO", p), Sola("MANDAR")>>
      [] op = "IO_FALLA" -> <<Por("BLOCKED", p), Por("EXIT", p), Sola("MANDAR")>>
      [] OTHER -> <<Por("BLOCKED", p), Sola("MANDAR"), Por(op, p)>>

PidDe(c) == Corre(c).pid
PcAnterior(c) == Corre(c).pc - 1
PcSiguiente(c) == Corre(c).pc + 1

(* A CPU reads from Memoria before a process makes its first call: with     *)
(* Retardo, by then no thread is still in queue_process making it READY.    *)
Alcanza(c) ==
    Retardo => \A h \in Hilos : \A i \in DOMAIN pila[h] :
                 pila[h][i] \notin { Por("NEW_FIN", PidDe(c)), Por("READY_CPU", PidDe(c)) }

Pide(c, ops) ==
    /\ ~caido
    /\ pila[Cpu(c)] = <<>>
    /\ contexto[c] # <<>>
    /\ Instruccion(c).op \in ops
    /\ Alcanza(c)
    /\ caido' \in LeeEliminado(PidDe(c))

(* EXIT_SYS frees the CPU afterwards; the other calls free it first and     *)
(* bring the pc up to date.                                                 *)
SyscallExit(c) ==
    /\ Pide(c, {"EXIT"})
    /\ contexto' = [contexto EXCEPT ![c] = Tail(@)]
    /\ pila' = [pila EXCEPT ![Cpu(c)] = TareasDe("EXIT", PidDe(c))]
    /\ UNCHANGED <<planVars, cpuPid, guionVars, mutexVars, timerVars, memVars>>

SyscallBloqueante(c) ==
    /\ Pide(c, Syscalls \ {"INIT_PROC"})
    /\ contexto' = [contexto EXCEPT ![c] = Tail(@)]
    /\ cpuPid' = [cpuPid EXCEPT ![c] = Nadie]
    /\ pc' = [pc EXCEPT ![PidDe(c)] = PcSiguiente(c)]
    /\ pila' = [pila EXCEPT ![Cpu(c)] = TareasDe(Instruccion(c).op, PidDe(c))]
    /\ UNCHANGED <<planVars, guion, enIO, mutexVars, timerVars, memVars>>

(* recibir_y_crear_proceso; the process that asked goes on running.         *)
SyscallInitProc(c) ==
    LET q == Instruccion(c).pid
    IN
    /\ Pide(c, {"INIT_PROC"})
    /\ estado[q] = "NO_CREADO"
    /\ estado' = [estado EXCEPT ![q] = "CREADO"]
    /\ contexto' = [contexto EXCEPT ![c] = <<[Corre(c) EXCEPT !.pc = PcSiguiente(c)]>> \o Tail(@)]
    /\ pila' = [pila EXCEPT ![Cpu(c)] = <<Por("NEW", q)>>]
    /\ UNCHANGED <<cola, cpuPid, guionVars, mutexVars, timerVars, memVars>>

-----------------------------------------------------------------------------
DeProceso(h, p) ==
    \/ New(h, p) \/ NewTraer(h, p) \/ NewInit(h, p) \/ NewFin(h, p)
    \/ Ready(h, p) \/ ReadyCpu(h, p) \/ Execute(h, p) \/ Enviar(h, p)
    \/ Blocked(h, p) \/ Bloquear(h, p) \/ Join(h, p) \/ CrearTimer(h, p)
    \/ TimerArranca(h, p) \/ TimerCancelado(h, p) \/ TimerVence(h, p) \/ TimerRevisa(h, p)
    \/ Suspender(h, p) \/ SuspenderMem(h, p) \/ TimerCancela(h, p) \/ TimerTermina(h, p)
    \/ ReadySuspended(h, p) \/ ReadySuspendedVer(h, p) \/ Exit(h, p) \/ ExitMem(h, p)
    \/ Desbloqueo(h, p) \/ EncolarIO(h, p)
    \/ Dump(h, p) \/ DumpOk(h, p) \/ DumpFin(h, p) \/ DumpError(h, p) \/ DumpExit(h, p)

DePlanificador(h) ==
    \/ TraerEntra(h) \/ TraerRS(h) \/ TraerVerNew(h) \/ TraerNew(h)
    \/ MandarEntra(h) \/ MandarVer(h) \/ MandarTomar(h)

DeCpu(c) ==
    \/ LiberarCpu(c) \/ SyscallExit(c) \/ SyscallBloqueante(c) \/ SyscallInitProc(c)

PasoHilo(h) ==
    /\ pila[h] # <<>>
    /\ DePlanificador(h) \/ \E p \in Procs \cap {Head(pila[h]).pid} : DeProceso(h, p)
PasoMuere == \E p \in Procs, k \in 1..MaxTimers : TimerMuere(p, k)

(* Every process has ended and no thread has anything left to do.           *)
Durmiendo(h) == IF pila[h] = <<>> THEN TRUE ELSE Head(pila[h]).op = "DORMIR"
Reposo ==
    /\ \A h \in Hilos : Durmiendo(h)
    /\ \A p \in Procs : estado[p] = "ELIMINADO"
    /\ UNCHANGED vars

Next ==
    \/ \E h \in Hilos : PasoHilo(h)
    \/ PasoMuere
    \/ \E c \in Cpus : DeCpu(c)
    \/ \E x \in Conexiones : DesbloqueoIO(x)
    \/ Reposo

(* The kernel, a CPU or an IO device goes on while one of them can.         *)
Spec == Init /\ [][Next]_vars
SpecJusta == Spec /\ WF_vars(Next)

-----------------------------------------------------------------------------
(* Properties.                                                              *)

(* No thread has anything left to do: what is left are timers asleep.       *)
Quieto == ~caido /\ \A h \in Hilos : Durmiendo(h)

(* Tasks some thread still has to run for process p, asleep timers aside.   *)
Pendientes(p) ==
    { t \in UNION { { pila[h][i] : i \in DOMAIN pila[h] } : h \in Hilos } :
        t.pid = p /\ t.op \notin {"TIMER", "DORMIR"} }

(* No CPU is idle while a process waits in READY, once every thread is done *)
(* (mandar_procesos_a_execute sends processes while there are CPUs).        *)
CpusAprovechadas ==
    Quieto /\ cola["READY"] # <<>> => \A c \in Cpus : contexto[c] # <<>>

(* A CPU is never sent a context while it is running another, and no        *)
(* process runs on two CPUs: set_cpu reserves the CPU before the send.      *)
UnaSolaCpu ==
    /\ \A c \in Cpus : Len(contexto[c]) <= 1
    /\ \A c, d \in Cpus :
         c # d /\ contexto[c] # <<>> /\ contexto[d] # <<>> => PidDe(c) # PidDe(d)

(* A process in EXECUTE that no thread is moving is on a CPU (queue_process *)
(* puts back in READY the one that found none).                             *)
ExecuteEjecuta ==
    ~caido => \A p \in Procs : estado[p] = "EXECUTE" /\ Pendientes(p) = {} =>
        \E c \in Cpus : contexto[c] # <<>> /\ PidDe(c) = p

(* A process that no thread is moving is where its state says: in the page  *)
(* tables if it is READY, EXECUTE or BLOCKED, in swap if it is suspended.   *)
MemoriaDeAcuerdo ==
    ~caido => \A p \in Procs : Pendientes(p) = {} =>
        /\ p \in residentes <=> estado[p] \in {"READY", "EXECUTE", "BLOCKED"}
        /\ p \in suspendidos <=> estado[p] \in {"BLOCKED_SUSPENDED", "READY_SUSPENDED"}

(* The handler of a failed DUMP_MEMORY, which locks mutex_estado and then    *)
(* has queue_process(p, EXIT) left to do, which locks it again: it waits    *)
(* for itself, and the process is never taken out of BLOCKED.  After any    *)
(* other EXIT a handler has a CPU to free or to give.                       *)
EsperaASiMismo(c, p) == pila[Cpu(c)] = <<Por("EXIT", p)>> /\ p \in trabado

(* A blocked process, suspended meanwhile or not, is in the queue of an IO  *)
(* device or in the tasks of a thread that are a way out: the timer and     *)
(* DESBLOQUEO_IO, running at once, never lose it.  A process whose handler  *)
(* waits for itself has no way out.  This does not say that the thread gets *)
(* to that task: it may wait for a mutex that a cancelled timer left locked *)
(* (TimerMuere).                                                            *)
Despiertan == {"ENCOLAR_IO", "DESBLOQUEO", "READY", "READY_SUSPENDED", "EXIT", "DUMP",
               "DUMP_FALLA", "DUMP_OK", "DUMP_ERROR", "DUMP_FIN", "DUMP_EXIT"}
SiempreHayQuienDespierte ==
    ~caido => \A p \in Procs :
        /\ estado[p] \in {"BLOCKED", "BLOCKED_SUSPENDED"}
        /\ ~ \E c \in Cpus : EsperaASiMismo(c, p)
        => p \in enIO \/ \E t \in Pendientes(p) : t.op \in Despiertan

(* Once every thread is done no process waits outside memory for room that  *)
(* there is: the one that was asked for does not fit.  It is the first of   *)
(* READY_SUSPENDED, or of NEW when that is empty.  Under PMCP a smaller one *)
(* may come into READY_SUSPENDED ahead of it, and queue_process does not    *)
(* ask for it, since it is not alone there: what was asked for is the last. *)
PedidoSinLugar(c) ==
    IF c = "READY_SUSPENDED" /\ AlgoritmoIngreso = "PMCP" THEN cola[c][Len(cola[c])]
                                                          ELSE Head(cola[c])
AdmisionCompleta ==
    Quieto => LET c == IF cola["READY_SUSPENDED"] # <<>> THEN "READY_SUSPENDED" ELSE "NEW"
              IN cola[c] # <<>> => ~Entra(PedidoSinLugar(c))

(* Memoria is given a process from NEW only when it is the first of its     *)
(* queue: the ones behind it do not overtake it.                            *)
OrdenDeIngreso ==
    [][\A p \in residentes' \ residentes : estado[p] = "NEW" => p = Head(cola["NEW"])]_vars

(* The threads, locks, queues and timers implement CicloDeVida: whoever      *)
(* moves a process moves it along the seven states, one at a time.  A       *)
(* process that NEW has not put in its queue yet does not exist.            *)
Ciclo == INSTANCE CicloDeVida WITH
    estado <- [p \in Procs |-> IF estado[p] = "CREADO" THEN "NO_CREADO" ELSE estado[p]]
CumpleCiclo == Ciclo!Spec

(* Every process ends and is deleted.                                       *)
Terminan == <>(\A p \in Procs : estado[p] = "ELIMINADO")

=============================================================================
