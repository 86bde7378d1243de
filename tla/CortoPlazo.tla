----------------------------- MODULE CortoPlazo -----------------------------
(***************************************************************************)
(* The short term of the kernel under FIFO, SJFsD and SJFcD: estimates,    *)
(* queue_READY, dispatch, preemption, and the interrupts on their way to a *)
(* CPU that may have moved on to another process.                          *)
(*                                                                         *)
(* Threads are stacks of tasks, as in KernelPlanner: one per CPU, one per  *)
(* IO connection (here each process has its own device) and main.  Memory  *)
(* has room for every process and no suspension timer elapses: NEW goes on *)
(* to READY and BLOCKED back to it.                                        *)
(*                                                                         *)
(* Time passes in ticks, any number of them (up to MaxRafaga) between two  *)
(* steps.  A CPU fetches an instruction from Memoria before it does        *)
(* anything else: by then the thread that sent it the context has created  *)
(* the timer rafagaReal, in the next two lines.                            *)
(***************************************************************************)
EXTENDS Integers, Sequences, FiniteSets

CONSTANTS
    Procs,              \* pids
    Primero,            \* the process main creates
    OrdenCpus,          \* list_cpus
    Algoritmos,         \* values of ALGORITMO_CORTO_PLAZO
    AlfaNum, AlfaDen,   \* ALFA, as a fraction
    EstimacionInicial,  \* ESTIMACION_INICIAL
    Guiones,            \* the scripts the processes may run; EXIT follows
    MaxRafaga,          \* bound: ticks a process may be on a CPU at a time
    Nadie               \* pid -1

Cpus == { OrdenCpus[i] : i \in DOMAIN OrdenCpus }
Instrucciones == [op : {"NOOP", "IO", "INIT_PROC"}, pid : Procs]

ASSUME PrimeroAssumption == Primero \in Procs
ASSUME NadieAssumption == Nadie \notin Procs \cup Cpus
ASSUME CpusAssumption ==
    \A i, j \in DOMAIN OrdenCpus : OrdenCpus[i] = OrdenCpus[j] => i = j
ASSUME AlgoritmosAssumption == Algoritmos \subseteq {"FIFO", "SJFsD", "SJFcD"}
ASSUME AlfaAssumption == AlfaDen \in Nat \ {0} /\ AlfaNum \in 0..AlfaDen
ASSUME EstimacionAssumption == EstimacionInicial \in Nat
ASSUME GuionesAssumption == Guiones \subseteq [Procs -> Seq(Instrucciones)]
ASSUME RafagaAssumption == MaxRafaga \in Nat

(* The pid of a process is its place in list_procesos, from which nobody is *)
(* removed: whatever runs, a pid is created once.                           *)
ASSUME CreadosAssumption ==
    \A g \in Guiones : \A p, q \in Procs : \A i \in DOMAIN g[p], j \in DOMAIN g[q] :
        g[p][i].op = "INIT_PROC" =>
            /\ g[p][i].pid # Primero
            /\ g[q][j].op = "INIT_PROC" /\ g[q][j].pid = g[p][i].pid => p = q /\ i = j

Main == <<"main">>
Cpu(c) == <<"cpu", c>>
Io(p) == <<"io", p>>
Hilos == {Main} \cup { Cpu(c) : c \in Cpus } \cup { Io(p) : p \in Procs }

ASSUME HilosAssumption == Nadie \notin Hilos

VARIABLES
    algoritmo,  \* ALGORITMO_CORTO_PLAZO: never changes
    guion,      \* what each process runs: never changes
    pila,       \* tasks each thread has left
    estado,     \* queue_ESTADO_ACTUAL of each process
    ready,      \* queue_READY
    estimada,   \* rafagaEstimada
    ultima,     \* ultimaEstimacion
    total,      \* rafagaTotalReal
    crono,      \* rafagaReal: NULL, freed, or the ticks it has counted
    cpuPid,     \* pid of each t_cpu; DISPONIBLE exactly when it is -1
    contexto,   \* contexts sent to each CPU; it is running the first
    pc,         \* program counter of each process
    mensajes,   \* what each CPU has sent through dispatch
    interrupt,  \* words each CPU has yet to read from its interrupt socket
    enIO,       \* processes an IO device has yet to finish with
    trabado,    \* processes whose mutex_estado is locked
    mTraer,     \* mutex_traer is locked
    desalojo,   \* the thread that holds mutex_desalojo, and what it has read
    caido,      \* the kernel dereferenced NULL or a PCB that is gone
    colado      \* history: CPUs whose process is not there, or does not stay
                \* there, for its estimate: it came in ahead of others in READY,
                \* or a freed timer decided its preemption

fijas == <<algoritmo, guion>>
planVars == <<estado, ready, estimada, ultima, total, crono>>
cpuVars == <<cpuPid, colado>>
redVars == <<contexto, pc, mensajes, interrupt, enIO>>
vars == <<fijas, pila, planVars, cpuVars, redVars, trabado, mTraer, desalojo, caido>>

Nulo == -1
Liberado == -2
Sueltos == [hilo |-> Nadie, cpu |-> Nadie, victima |-> Nadie]
-----------------------------------------------------------------------------
Por(op, p) == [op |-> op, pid |-> p]
Sola(op) == [op |-> op, pid |-> Nadie]

(* Thread h is about to run op on process p, and goes on with these tasks.  *)
Toca(h, op, p) ==
    /\ ~caido
    /\ pila[h] # <<>>
    /\ Head(pila[h]) = Por(op, p)

Sigue(h, tareas) == pila' = [pila EXCEPT ![h] = tareas \o Tail(@)]
-----------------------------------------------------------------------------
(* queue_FIFO, queue_SJF and cambiar_estado.                                *)
Sjf == algoritmo # "FIFO"

PrimeroDe(lugares) == CHOOSE i \in lugares : \A j \in lugares : i <= j

Quitar(p, lista) ==
    LET lugares == { i \in DOMAIN lista : lista[i] = p }
        i == PrimeroDe(lugares)
    IN IF lugares = {} THEN lista
       ELSE SubSeq(lista, 1, i - 1) \o SubSeq(lista, i + 1, Len(lista))

(* The place of a process with estimate e, before the first longer one.     *)
InsertarAlFinal(p, e, lista) == Append(lista, p)
InsertarSJF(p, e, lista) ==
    LET mayores == { i \in DOMAIN lista : e < estimada[lista[i]] }
        i == PrimeroDe(mayores)
    IN IF mayores = {} THEN Append(lista, p)
       ELSE SubSeq(lista, 1, i - 1) \o <<p>> \o SubSeq(lista, i, Len(lista))

(* actualizar_rafagas_sjf: what is left of the estimate after n ticks.      *)
LoQueQuedaSinMax(e, n) == e - n
LoQueQueda(e, n) == IF e > n THEN e - n ELSE 0

(* The new estimate of queue_SJF, truncated to int64_t.                     *)
Reestimar(p, usado) ==
    (ultima[p] * (AlfaDen - AlfaNum) + usado * AlfaNum) \div AlfaDen

(* The timer of a process that leaves EXECUTE is stopped and freed.         *)
DejaCpu(p) == estado[p] = "EXECUTE" /\ Sjf /\ crono[p] # Nulo

(* How long it ran; a timer freed before counts anything at all.            *)
Rafagas(p) ==
    CASE ~DejaCpu(p) -> {0}
      [] DejaCpu(p) /\ crono[p] = Liberado -> 0..MaxRafaga
      [] OTHER -> {crono[p]}

SinReiniciarTotal(p, usado) == usado
TotalTrasReestimar(p, usado) == 0

(* Total and estimate once it ran n ticks; entering READY under SJF renews  *)
(* an estimate that is used up.                                             *)
CambiarEstado(p, e) ==
    \E n \in Rafagas(p) :
      LET usado == total[p] + n
          queda == IF DejaCpu(p) THEN LoQueQueda(estimada[p], n) ELSE estimada[p]
          renueva == e = "READY" /\ Sjf /\ queda = 0
          nueva == IF renueva THEN Reestimar(p, usado) ELSE queda
          resto == IF estado[p] = "READY" THEN Quitar(p, ready) ELSE ready
      IN
      /\ DejaCpu(p) => desalojo.hilo = Nadie
      /\ estimada' = [estimada EXCEPT ![p] = nueva]
      /\ ultima' = [ultima EXCEPT ![p] = IF renueva THEN nueva ELSE @]
      /\ total' = [total EXCEPT ![p] = IF renueva THEN TotalTrasReestimar(p, usado) ELSE usado]
      /\ crono' = [crono EXCEPT ![p] = IF DejaCpu(p) THEN Liberado ELSE @]
      /\ ready' = CASE e = "READY" /\ Sjf -> InsertarSJF(p, nueva, resto)
                    [] e = "READY" /\ ~Sjf -> Append(resto, p)
                    [] OTHER -> resto
      /\ estado' = [estado EXCEPT ![p] = e]
-----------------------------------------------------------------------------
(* list_cpus: buscar_cpu_disponible and buscar_mi_cpu, first match.         *)
Primera(cs) ==
    OrdenCpus[PrimeroDe({ i \in DOMAIN OrdenCpus : OrdenCpus[i] \in cs })]
CpusDisponibles == { c \in Cpus : cpuPid[c] = Nadie }
CpusDe(p) == { c \in Cpus : cpuPid[c] = p }

(* set_cpu(EJECUTANDO) for p.                                               *)
Reservar(p) ==
    LET c == Primera(CpusDisponibles)
    IN
    /\ cpuPid' = [cpuPid EXCEPT ![c] = p]
    /\ colado' = IF ready # <<>> /\ Head(ready) = p THEN colado \ {c} ELSE colado \cup {c}

(* cpu_mayor_rafaga: a free CPU, or the one whose process has the longest   *)
(* estimate.  The slot of a deleted process holds anything.                 *)
MayorRafaga ==
    Primera({ c \in Cpus : \A d \in Cpus : estimada[cpuPid[d]] <= estimada[cpuPid[c]] })

CpusElegibles ==
    CASE Len(OrdenCpus) > 1 /\ \E c \in Cpus : cpuPid[c] # Nadie /\ estado[cpuPid[c]] = "ELIMINADO"
            -> Cpus \cup {Nadie}
      [] CpusDisponibles # {} -> {Primera(CpusDisponibles)}
      [] OTHER -> {MayorRafaga}
-----------------------------------------------------------------------------
Init ==
    /\ algoritmo \in Algoritmos
    /\ guion \in Guiones
    /\ pila = [h \in Hilos |-> IF h = Main THEN <<Por("READY", Primero)>> ELSE <<>>]
    /\ estado = [p \in Procs |-> IF p = Primero THEN "NEW" ELSE "NO_CREADO"]
    /\ ready = <<>>
    /\ estimada = [p \in Procs |-> EstimacionInicial]
    /\ ultima = [p \in Procs |-> EstimacionInicial]
    /\ total = [p \in Procs |-> 0]
    /\ crono = [p \in Procs |-> Nulo]
    /\ cpuPid = [c \in Cpus |-> Nadie]
    /\ contexto = [c \in Cpus |-> <<>>]
    /\ pc = [p \in Procs |-> 0]
    /\ mensajes = [c \in Cpus |-> <<>>]
    /\ interrupt = [c \in Cpus |-> <<>>]
    /\ enIO = {}
    /\ trabado = {}
    /\ mTraer = FALSE
    /\ desalojo = Sueltos
    /\ caido = FALSE
    /\ colado = {}
-----------------------------------------------------------------------------
(* queue_process(p, READY).                                                 *)
Ready(h, p) ==
    /\ Toca(h, "READY", p)
    /\ p \notin trabado
    /\ trabado' = trabado \cup {p}
    /\ CambiarEstado(p, "READY")
    /\ Sigue(h, <<Por("READY_CPU", p)>>)
    /\ UNCHANGED <<fijas, cpuVars, redVars, mTraer, desalojo, caido>>

ReadyCpu(h, p) ==
    /\ Toca(h, "READY_CPU", p)
    /\ IF CpusDisponibles # {}
       THEN /\ Reservar(p)
            /\ trabado' = trabado \ {p}
            /\ Sigue(h, <<Por("EXECUTE", p)>>)
       ELSE /\ trabado' = IF algoritmo = "SJFcD" THEN trabado ELSE trabado \ {p}
            /\ Sigue(h, IF algoritmo = "SJFcD" THEN <<Por("READY_PRIMERO", p)>> ELSE <<>>)
            /\ UNCHANGED cpuVars
    /\ UNCHANGED <<fijas, planVars, redVars, mTraer, desalojo, caido>>

(* Only the process that comes first in READY tries to preempt.             *)
ReadyPrimero(h, p) ==
    /\ Toca(h, "READY_PRIMERO", p)
    /\ trabado' = trabado \ {p}
    /\ Sigue(h, IF ready # <<>> /\ Head(ready) = p THEN <<Por("DESALOJAR", p)>> ELSE <<>>)
    /\ UNCHANGED <<fijas, planVars, cpuVars, redVars, mTraer, desalojo, caido>>

(* desalojo_SJF(p), with mutex_desalojo: it chooses a CPU, sees later what  *)
(* that CPU runs, and later still how much of that is left.                 *)
Desalojar(h, p) ==
    /\ Toca(h, "DESALOJAR", p)
    /\ desalojo.hilo = Nadie
    /\ \E c \in CpusElegibles :
          IF c = Nadie
          THEN Sigue(h, <<>>) /\ UNCHANGED desalojo
          ELSE /\ desalojo' = [hilo |-> h, cpu |-> c, victima |-> Nadie]
               /\ Sigue(h, <<Por("MIRAR_CPU", p)>>)
    /\ UNCHANGED <<fijas, planVars, cpuVars, redVars, trabado, mTraer, caido>>

MirarCpu(h, p) ==
    LET v == cpuPid[desalojo.cpu]
    IN
    /\ Toca(h, "MIRAR_CPU", p)
    /\ IF v = Nadie
       THEN desalojo' = Sueltos /\ Sigue(h, <<>>)
       ELSE /\ desalojo' = [desalojo EXCEPT !.victima = v]
            /\ Sigue(h, <<Por("COMPARAR", p)>>)
    /\ UNCHANGED <<fijas, planVars, cpuVars, redVars, trabado, mTraer, caido>>

(* enviar_paquete sends the operation and the size of an empty buffer.      *)
EnviarInterrupt(c) ==
    interrupt' = [interrupt EXCEPT ![c] = @ \o <<"INTERRUPT", "TAMANIO">>]

ConvieneRestandoTotal(v, p) == LoQueQueda(estimada[v], total[v] + crono[v]) > estimada[p]
Conviene(v, p) == LoQueQueda(estimada[v], crono[v]) > estimada[p]

(* rafagaReal may be NULL or freed, and either process may be gone.         *)
Comparar(h, p) ==
    LET v == desalojo.victima
        perdido == "ELIMINADO" \in {estado[v], estado[p]}
    IN
    /\ Toca(h, "COMPARAR", p)
    /\ caido' = (perdido \/ crono[v] = Nulo)
    /\ colado' = IF crono[v] = Liberado THEN colado \cup {desalojo.cpu} ELSE colado
    /\ \E manda \in BOOLEAN :
          /\ ~perdido /\ crono[v] >= 0 => (manda = Conviene(v, p))
          /\ IF manda THEN EnviarInterrupt(desalojo.cpu) ELSE UNCHANGED interrupt
    /\ desalojo' = Sueltos
    /\ Sigue(h, <<>>)
    /\ UNCHANGED <<fijas, planVars, cpuPid, contexto, pc, mensajes, enIO, trabado, mTraer>>
-----------------------------------------------------------------------------
(* queue_process(p, EXECUTE).  The timer starts when the context is sent.   *)
Execute(h, p) ==
    /\ Toca(h, "EXECUTE", p)
    /\ p \notin trabado
    /\ CambiarEstado(p, "EXECUTE")
    /\ Sigue(h, <<Por("ENVIAR", p)>>)
    /\ UNCHANGED <<fijas, cpuVars, redVars, trabado, mTraer, desalojo, caido>>

Enviar(h, p) ==
    /\ Toca(h, "ENVIAR", p)
    /\ IF CpusDe(p) # {}
       THEN /\ contexto' = [contexto EXCEPT ![Primera(CpusDe(p))] = Append(@, p)]
            /\ crono' = IF Sjf THEN [crono EXCEPT ![p] = 0] ELSE crono
            /\ Sigue(h, <<>>)
       ELSE /\ Sigue(h, <<Por("READY", p)>>)
            /\ UNCHANGED <<contexto, crono>>
    /\ UNCHANGED <<fijas, estado, ready, estimada, ultima, total, cpuVars, pc, mensajes,
                   interrupt, enIO, trabado, mTraer, desalojo, caido>>

(* queue_process(p, BLOCKED); then gestionar_io gives it to its device.     *)
Blocked(h, p) ==
    /\ Toca(h, "BLOCKED", p)
    /\ p \notin trabado
    /\ CambiarEstado(p, "BLOCKED")
    /\ enIO' = enIO \cup {p}
    /\ Sigue(h, <<>>)
    /\ UNCHANGED <<fijas, cpuVars, contexto, pc, mensajes, interrupt, trabado, mTraer,
                   desalojo, caido>>

(* queue_process(p, EXIT), and carnicero once Memoria has answered.         *)
Exit(h, p) ==
    /\ Toca(h, "EXIT", p)
    /\ p \notin trabado
    /\ CambiarEstado(p, "EXIT")
    /\ Sigue(h, <<Por("ELIMINAR", p)>>)
    /\ UNCHANGED <<fijas, cpuVars, redVars, trabado, mTraer, desalojo, caido>>

Eliminar(h, p) ==
    /\ Toca(h, "ELIMINAR", p)
    /\ estado' = [estado EXCEPT ![p] = "ELIMINADO"]
    /\ Sigue(h, <<>>)
    /\ UNCHANGED <<fijas, ready, estimada, ultima, total, crono, cpuVars, redVars, trabado,
                   mTraer, desalojo, caido>>
-----------------------------------------------------------------------------
(* set_cpu(cpu_socket, DISPONIBLE, -1).                                     *)
Liberar(c) ==
    /\ Toca(Cpu(c), "LIBERAR_CPU", Nadie)
    /\ cpuPid' = [cpuPid EXCEPT ![c] = Nadie]
    /\ Sigue(Cpu(c), <<>>)
    /\ UNCHANGED <<fijas, planVars, colado, redVars, trabado, mTraer, desalojo, caido>>

(* mandar_procesos_a_execute.                                               *)
Mandar(h) ==
    /\ Toca(h, "MANDAR", Nadie)
    /\ ~mTraer
    /\ mTraer' = TRUE
    /\ Sigue(h, <<Sola("MANDAR_VER")>>)
    /\ UNCHANGED <<fijas, planVars, cpuVars, redVars, trabado, desalojo, caido>>

MandarVer(h) ==
    /\ Toca(h, "MANDAR_VER", Nadie)
    /\ mTraer' = (ready # <<>>)
    /\ Sigue(h, IF ready = <<>> THEN <<>> ELSE <<Sola("MANDAR_TOMAR")>>)
    /\ UNCHANGED <<fijas, planVars, cpuVars, redVars, trabado, desalojo, caido>>

MandarTomar(h) ==
    LET siga == CpusDisponibles # {} /\ ready # <<>>
    IN
    /\ Toca(h, "MANDAR_TOMAR", Nadie)
    /\ caido' = (CpusDisponibles # {} /\ ready = <<>>)
    /\ IF siga THEN Reservar(Head(ready)) ELSE UNCHANGED cpuVars
    /\ Sigue(h, IF siga THEN <<Por("EXECUTE", Head(ready)), Sola("MANDAR_VER")>> ELSE <<>>)
    /\ mTraer' = siga
    /\ UNCHANGED <<fijas, planVars, redVars, trabado, desalojo>>
-----------------------------------------------------------------------------
(* kernel_server_dispatch_handler: what the thread of a CPU does for each   *)
(* operation.                                                               *)
LiberarYMandar == <<Sola("LIBERAR_CPU"), Sola("MANDAR")>>
TareasSinLiberar(op, p) ==
    CASE op = "CONTEXTO_DESALOJO" -> <<Por("READY", p), Sola("MANDAR")>>
      [] op = "INIT_PROC" -> <<Por("READY", p)>>
      [] op = "IO" -> <<Por("BLOCKED", p), Sola("MANDAR")>>
      [] OTHER -> <<Por("EXIT", p), Sola("MANDAR")>>
TareasLiberandoSiempre(op, p) ==
    CASE op \in {"CONTEXTO_DESALOJO", "INIT_PROC"} -> <<Por("READY", p)>> \o LiberarYMandar
      [] op = "IO" -> <<Sola("LIBERAR_CPU"), Por("BLOCKED", p), Sola("MANDAR")>>
      [] OTHER -> <<Por("EXIT", p)>> \o LiberarYMandar
TareasDe(op, p) ==
    CASE op = "CONTEXTO_DESALOJO" -> <<Por("READY", p)>> \o LiberarYMandar
      [] op = "INIT_PROC" -> <<Por("READY", p)>>
      [] op = "IO" -> <<Sola("LIBERAR_CPU"), Por("BLOCKED", p), Sola("MANDAR")>>
      [] OTHER -> <<Por("EXIT", p)>> \o LiberarYMandar

Atender(c) ==
    LET m == Head(mensajes[c])
    IN
    /\ ~caido
    /\ pila[Cpu(c)] = <<>>
    /\ mensajes[c] # <<>>
    /\ mensajes' = [mensajes EXCEPT ![c] = Tail(@)]
    /\ caido' = (estado[m.pid] = "ELIMINADO")
    /\ estado' = IF m.op = "INIT_PROC" THEN [estado EXCEPT ![m.pid] = "NEW"] ELSE estado
    /\ pila' = [pila EXCEPT ![Cpu(c)] = TareasDe(m.op, m.pid)]
    /\ UNCHANGED <<fijas, ready, estimada, ultima, total, crono, cpuVars, contexto, pc,
                   interrupt, enIO, trabado, mTraer, desalojo>>

(* DESBLOQUEO_IO.                                                           *)
FinDeIO(p) ==
    /\ ~caido
    /\ pila[Io(p)] = <<>>
    /\ p \in enIO
    /\ enIO' = enIO \ {p}
    /\ pila' = [pila EXCEPT ![Io(p)] = <<Por("READY", p)>>]
    /\ UNCHANGED <<fijas, planVars, cpuVars, contexto, pc, mensajes, interrupt, trabado,
                   mTraer, desalojo, caido>>
-----------------------------------------------------------------------------
(* The CPU: one instruction and the poll that follows it, which reads one   *)
(* word of the interrupt socket, whatever the instruction was.              *)
Instruccion(p) ==
    IF pc[p] < Len(guion[p]) THEN guion[p][pc[p] + 1] ELSE Por("EXIT", p)

Corre(c) == Head(contexto[c])

HayInterrupcion(c) == interrupt[c] # <<>> /\ Head(interrupt[c]) = "INTERRUPT"
Frena(op) == op \in {"IO", "EXIT"}

EnviaLasDos(c) ==
    LET i == Instruccion(Corre(c))
    IN (IF i.op = "NOOP" THEN <<>>
        ELSE <<IF i.op = "INIT_PROC" THEN i ELSE Por(i.op, Corre(c))>>)
       \o (IF HayInterrupcion(c) THEN <<Por("CONTEXTO_DESALOJO", Corre(c))>> ELSE <<>>)
Envia(c) ==
    LET i == Instruccion(Corre(c))
    IN CASE Frena(i.op) -> <<Por(i.op, Corre(c))>>
         [] ~Frena(i.op) /\ HayInterrupcion(c) ->
                (IF i.op = "INIT_PROC" THEN <<i>> ELSE <<>>)
                    \o <<Por("CONTEXTO_DESALOJO", Corre(c))>>
         [] OTHER -> IF i.op = "INIT_PROC" THEN <<i>> ELSE <<>>

Ejecutar(c) ==
    LET p == Corre(c)
    IN
    /\ ~caido
    /\ contexto[c] # <<>>
    /\ pc' = [pc EXCEPT ![p] = @ + 1]
    /\ mensajes' = [mensajes EXCEPT ![c] = @ \o Envia(c)]
    /\ interrupt' = [interrupt EXCEPT ![c] = IF @ = <<>> THEN @ ELSE Tail(@)]
    /\ contexto' = [contexto EXCEPT ![c] =
                       IF Frena(Instruccion(p).op) \/ HayInterrupcion(c) THEN Tail(@) ELSE @]
    /\ UNCHANGED <<fijas, pila, planVars, cpuVars, enIO, trabado, mTraer, desalojo, caido>>

(* The timers that run count one more tick.                                 *)
Cronometrados == { p \in Procs : crono[p] >= 0 }
Tic ==
    /\ ~caido
    /\ Cronometrados # {}
    /\ \A p \in Cronometrados : crono[p] < MaxRafaga
    /\ crono' = [p \in Procs |-> IF p \in Cronometrados THEN crono[p] + 1 ELSE crono[p]]
    /\ UNCHANGED <<fijas, pila, estado, ready, estimada, ultima, total, cpuVars, redVars,
                   trabado, mTraer, desalojo, caido>>
-----------------------------------------------------------------------------
DeProceso(h, p) ==
    \/ Ready(h, p) \/ ReadyCpu(h, p) \/ ReadyPrimero(h, p)
    \/ Desalojar(h, p) \/ MirarCpu(h, p) \/ Comparar(h, p)
    \/ Execute(h, p) \/ Enviar(h, p) \/ Blocked(h, p) \/ Exit(h, p) \/ Eliminar(h, p)

(* All the processes have ended, or the kernel has crashed.                 *)
Reposo ==
    /\ caido \/ \A p \in Procs : estado[p] = "ELIMINADO"
    /\ UNCHANGED vars

Next ==
    \/ \E h \in Hilos : \/ \E p \in Procs : DeProceso(h, p)
                        \/ Mandar(h) \/ MandarVer(h) \/ MandarTomar(h)
    \/ \E c \in Cpus : Liberar(c) \/ Atender(c) \/ Ejecutar(c)
    \/ \E p \in Procs : FinDeIO(p)
    \/ Tic
    \/ Reposo

(* The kernel, a CPU, a device or the clock goes on while one of them can.  *)
Spec == Init /\ [][Next]_vars
SpecJusta == Spec /\ WF_vars(Next)
-----------------------------------------------------------------------------
Ops == {"READY", "READY_CPU", "READY_PRIMERO", "DESALOJAR", "MIRAR_CPU", "COMPARAR",
        "EXECUTE", "ENVIAR", "BLOCKED", "EXIT", "ELIMINAR", "LIBERAR_CPU", "MANDAR",
        "MANDAR_VER", "MANDAR_TOMAR"}

(* The estimates never go below 0, and no timer counts past its bound.      *)
TypeOK ==
    /\ algoritmo \in Algoritmos
    /\ guion \in Guiones
    /\ pila \in [Hilos -> Seq([op : Ops, pid : Procs \cup {Nadie}])]
    /\ estado \in [Procs -> {"NO_CREADO", "NEW", "READY", "EXECUTE", "BLOCKED", "EXIT",
                             "ELIMINADO"}]
    /\ ready \in Seq(Procs)
    /\ estimada \in [Procs -> Nat]
    /\ ultima \in [Procs -> Nat]
    /\ total \in [Procs -> Nat]
    /\ crono \in [Procs -> {Nulo, Liberado} \cup 0..MaxRafaga]
    /\ cpuPid \in [Cpus -> Procs \cup {Nadie}]
    /\ contexto \in [Cpus -> Seq(Procs)]
    /\ pc \in [Procs -> Nat]
    /\ mensajes \in [Cpus -> Seq([op : {"INIT_PROC", "IO", "EXIT", "CONTEXTO_DESALOJO"},
                                  pid : Procs])]
    /\ interrupt \in [Cpus -> Seq({"INTERRUPT", "TAMANIO"})]
    /\ enIO \in SUBSET Procs
    /\ trabado \in SUBSET Procs
    /\ mTraer \in BOOLEAN
    /\ desalojo \in [hilo : Hilos \cup {Nadie}, cpu : Cpus \cup {Nadie},
                     victima : Procs \cup {Nadie}]
    /\ caido \in BOOLEAN
    /\ colado \in SUBSET Cpus

Quieto == ~caido /\ \A h \in Hilos : pila[h] = <<>>

(* Under SJF the queue is in the order of the estimates, which do not       *)
(* change while their processes wait (queue_SJF compares them only when one *)
(* comes in).                                                               *)
ReadyOrdenada ==
    Sjf => \A i, j \in DOMAIN ready : i < j => estimada[ready[i]] <= estimada[ready[j]]

(* However often a process is preempted, its estimate and the time it has   *)
(* used add up to the estimate they were made from, until it is used up:    *)
(* only then queue_SJF makes another one from all the time it used.         *)
EstimacionCuadra ==
    \A p \in Procs :
        /\ estimada[p] > 0 => estimada[p] + total[p] = ultima[p]
        /\ estimada[p] = 0 => total[p] >= ultima[p]

(* A CPU the kernel takes for DISPONIBLE has nothing to run and nothing to  *)
(* say ("la cpu tiene que quedarse esperando"), with preemption too.        *)
LibreEspera ==
    ~caido => \A c \in Cpus : cpuPid[c] = Nadie => contexto[c] = <<>> /\ mensajes[c] = <<>>

(* What there is of a process: its places in READY, the tasks that move it, *)
(* its contexts, its messages and its device.                               *)
Tareas(h) == { <<h, i>> : i \in DOMAIN pila[h] }
Movidas == {"READY", "ENVIAR", "BLOCKED", "EXIT", "ELIMINAR"}
EnReady(p) == { <<"ready", i>> : i \in { j \in DOMAIN ready : ready[j] = p } }
EnTareas(p) ==
    { t \in UNION { Tareas(h) : h \in Hilos } :
        pila[t[1]][t[2]].pid = p /\ pila[t[1]][t[2]].op \in Movidas }
EnContextos(p) ==
    UNION { { <<"contexto", c, i>> : i \in { j \in DOMAIN contexto[c] : contexto[c][j] = p } }
              : c \in Cpus }
EnMensajes(p) ==
    UNION { { <<"mensaje", c, i>> : i \in { j \in DOMAIN mensajes[c] : mensajes[c][j].pid = p } }
              : c \in Cpus }
EnDispositivo(p) == { <<"io">> : i \in enIO \cap {p} }
Rastros(p) ==
    EnReady(p) \cup EnTareas(p) \cup EnContextos(p) \cup EnMensajes(p) \cup EnDispositivo(p)

(* The orders to dispatch it.                                               *)
Ordenes(p) ==
    { t \in UNION { Tareas(h) : h \in Hilos } : pila[t[1]][t[2]] = Por("EXECUTE", p) }

(* A process that has been created and has not ended is in one place, and   *)
(* in READY while somebody is about to dispatch it: it is neither lost nor  *)
(* run twice when a preemption, an arrival and a dispatch meet.             *)
UnLugar ==
    ~caido =>
      \A p \in Procs :
        /\ Cardinality(Rastros(p)) <= 1
        /\ estado[p] \notin {"NO_CREADO", "ELIMINADO"} => Rastros(p) # {}
        /\ Cardinality(Ordenes(p)) <= 1
        /\ Ordenes(p) # {} => estado[p] = "READY"

(* When the kernel has nothing left to do, no CPU is idle while a process   *)
(* waits in READY, whoever preempted whom.                                  *)
CpuOcupada ==
    Quieto /\ ready # <<>> => \A c \in Cpus : contexto[c] # <<>> \/ mensajes[c] # <<>>

(* SJF with preemption: when the kernel has nothing left to do, and has not *)
(* asked for the CPU, the process that runs has no more to run than any of  *)
(* those in READY, unless it got there without being compared (colado).     *)
MasCorto ==
    Quieto /\ algoritmo = "SJFcD" =>
      \A c \in Cpus \ colado :
        contexto[c] # <<>> /\ "INTERRUPT" \notin { interrupt[c][i] : i \in DOMAIN interrupt[c] } =>
          \A i \in DOMAIN ready :
             LoQueQueda(estimada[Corre(c)], crono[Corre(c)]) <= estimada[ready[i]]

(* Every process ends, however often it is preempted, unless the kernel     *)
(* crashes.                                                                 *)
Terminan == <>(caido \/ \A p \in Procs : estado[p] = "ELIMINADO")

(* Preemption and the short-term queues move each process along the seven   *)
(* states of CicloDeVida too.                                               *)
Ciclo == INSTANCE CicloDeVida
CumpleCiclo == Ciclo!Spec
=============================================================================
