-------------------------- MODULE CortoPlazoProofs --------------------------
(***************************************************************************)
(* The short term.  First the estimates of SJF, for any number of processes *)
(* and CPUs, any ALFA and any ESTIMACION_INICIAL; then, with one CPU, any   *)
(* number of processes, any scripts and the three algorithms, where each    *)
(* process is, what READY holds and when the CPU is free.  With two CPUs    *)
(* none of the latter holds (README, section 3).                            *)
(***************************************************************************)
EXTENDS CortoPlazo, SequenceTheorems, WellFoundedInduction, FiniteSetTheorems, TLAPS

(* What CambiarEstado needs of the counters it works with.                  *)
Contadores ==
    /\ estimada \in [Procs -> Nat]
    /\ ultima \in [Procs -> Nat]
    /\ total \in [Procs -> Nat]
    /\ crono \in [Procs -> Nat \cup {Nulo, Liberado}]

IInvCortoPlazo == Contadores /\ EstimacionCuadra

(* The new estimate is a weighted mean: a natural number.                   *)
LEMMA ReestimarNat ==
    ASSUME NEW p \in Procs, NEW usado \in Nat, ultima[p] \in Nat
    PROVE Reestimar(p, usado) \in Nat
<1>1. AlfaDen \in Nat /\ AlfaDen > 0 /\ AlfaNum \in Nat /\ AlfaDen - AlfaNum \in Nat
    BY AlfaAssumption
<1>2. ultima[p] * (AlfaDen - AlfaNum) \in Nat
    BY <1>1
<1>3. usado * AlfaNum \in Nat
    BY <1>1
<1>4. \A a \in Nat : a \div AlfaDen \in Nat
    BY <1>1
<1>5. ultima[p] * (AlfaDen - AlfaNum) + usado * AlfaNum \in Nat
    BY <1>2, <1>3
<1> QED
    BY <1>4, <1>5 DEF Reestimar

(* What a process ran is a natural number, even by a freed timer.           *)
LEMMA RafagasNat ==
    ASSUME Contadores, NEW p \in Procs, NEW n \in Rafagas(p)
    PROVE n \in Nat
<1>1. CASE ~DejaCpu(p)
    BY <1>1 DEF Rafagas
<1>2. CASE DejaCpu(p) /\ crono[p] = Liberado
    BY <1>2, RafagaAssumption DEF Rafagas
<1>3. CASE DejaCpu(p) /\ crono[p] # Liberado
  <2>1. n = crono[p]
      BY <1>3 DEF Rafagas
  <2> QED
      BY <2>1, <1>3 DEF Contadores, DejaCpu
<1> QED
    BY <1>1, <1>2, <1>3

(* A change of state keeps the accounts.                                    *)
LEMMA CambiarEstadoCuadra ==
    ASSUME IInvCortoPlazo, NEW p \in Procs, NEW e, CambiarEstado(p, e)
    PROVE IInvCortoPlazo'
<1>1. PICK n \in Rafagas(p) :
        LET usado == total[p] + n
            queda == IF DejaCpu(p) THEN LoQueQueda(estimada[p], n) ELSE estimada[p]
            renueva == e = "READY" /\ Sjf /\ queda = 0
            nueva == IF renueva THEN Reestimar(p, usado) ELSE queda
        IN
        /\ estimada' = [estimada EXCEPT ![p] = nueva]
        /\ ultima' = [ultima EXCEPT ![p] = IF renueva THEN nueva ELSE @]
        /\ total' = [total EXCEPT ![p] = IF renueva THEN TotalTrasReestimar(p, usado) ELSE usado]
        /\ crono' = [crono EXCEPT ![p] = IF DejaCpu(p) THEN Liberado ELSE @]
    BY DEF CambiarEstado
<1> DEFINE usado == total[p] + n
           queda == IF DejaCpu(p) THEN LoQueQueda(estimada[p], n) ELSE estimada[p]
           renueva == e = "READY" /\ Sjf /\ queda = 0
           nueva == IF renueva THEN Reestimar(p, usado) ELSE queda
<1>2. n \in Nat
    BY RafagasNat DEF IInvCortoPlazo
<1>3. estimada[p] \in Nat /\ ultima[p] \in Nat /\ total[p] \in Nat
    BY DEF IInvCortoPlazo, Contadores
<1>4. usado \in Nat /\ queda \in Nat
    BY <1>2, <1>3 DEF LoQueQueda
<1>5. nueva \in Nat
    BY <1>3, <1>4, ReestimarNat
<1>6. /\ estimada' = [estimada EXCEPT ![p] = nueva]
      /\ ultima' = [ultima EXCEPT ![p] = IF renueva THEN nueva ELSE @]
      /\ total' = [total EXCEPT ![p] = IF renueva THEN 0 ELSE usado]
      /\ crono' = [crono EXCEPT ![p] = IF DejaCpu(p) THEN Liberado ELSE @]
    BY <1>1 DEF TotalTrasReestimar
<1>7. Contadores'
  <2>1. estimada' \in [Procs -> Nat]
      BY <1>5, <1>6 DEF IInvCortoPlazo, Contadores
  <2>2. ultima' \in [Procs -> Nat]
      BY <1>5, <1>6 DEF IInvCortoPlazo, Contadores
  <2>3. total' \in [Procs -> Nat]
      BY <1>4, <1>6 DEF IInvCortoPlazo, Contadores
  <2>4. crono' \in [Procs -> Nat \cup {Nulo, Liberado}]
      BY <1>6 DEF IInvCortoPlazo, Contadores
  <2> QED
      BY <2>1, <2>2, <2>3, <2>4 DEF Contadores
<1>8. /\ queda > 0 => queda + usado = ultima[p]
      /\ queda = 0 => usado >= ultima[p]
  <2>1. /\ estimada[p] > 0 => estimada[p] + total[p] = ultima[p]
        /\ estimada[p] = 0 => total[p] >= ultima[p]
      BY DEF IInvCortoPlazo, EstimacionCuadra
  <2>2. CASE DejaCpu(p)
    <3>1. queda = IF estimada[p] > n THEN estimada[p] - n ELSE 0
        BY <2>2 DEF LoQueQueda
    <3> QED
        BY <3>1, <2>1, <1>2, <1>3
  <2>3. CASE ~DejaCpu(p)
    <3>1. n = 0 /\ queda = estimada[p]
        BY <2>3 DEF Rafagas
    <3> QED
        BY <3>1, <2>1, <1>3
  <2> QED
      BY <2>2, <2>3
<1>9. EstimacionCuadra'
  <2>1. ASSUME NEW q \in Procs
        PROVE /\ estimada'[q] > 0 => estimada'[q] + total'[q] = ultima'[q]
              /\ estimada'[q] = 0 => total'[q] >= ultima'[q]
    <3>1. CASE q # p
      <4>1. estimada'[q] = estimada[q] /\ total'[q] = total[q] /\ ultima'[q] = ultima[q]
          BY <3>1, <1>6 DEF IInvCortoPlazo, Contadores
      <4> QED
          BY <4>1 DEF IInvCortoPlazo, EstimacionCuadra
    <3>2. CASE q = p /\ renueva
      <4>1. estimada'[p] = nueva /\ total'[p] = 0 /\ ultima'[p] = nueva
          BY <3>2, <1>6 DEF IInvCortoPlazo, Contadores
      <4> HIDE DEF nueva
      <4> QED
          BY <4>1, <3>2, <1>5
    <3>3. CASE q = p /\ ~renueva
      <4>1. estimada'[p] = queda /\ total'[p] = usado /\ ultima'[p] = ultima[p]
          BY <3>3, <1>6 DEF IInvCortoPlazo, Contadores
      <4> HIDE DEF queda, usado
      <4> QED
          BY <4>1, <3>3, <1>8
    <3> QED
        BY <3>1, <3>2, <3>3
  <2> QED
      BY <2>1 DEF EstimacionCuadra
<1> QED
    BY <1>7, <1>9 DEF IInvCortoPlazo

(* A step that leaves the three accounts alone, and the timers legal.       *)
LEMMA SinTocarCuadra ==
    ASSUME IInvCortoPlazo, UNCHANGED <<estimada, ultima, total>>,
           crono' \in [Procs -> Nat \cup {Nulo, Liberado}]
    PROVE IInvCortoPlazo'
BY DEF IInvCortoPlazo, Contadores, EstimacionCuadra

LEMMA CuadraAlEmpezar == ASSUME Init PROVE IInvCortoPlazo
BY EstimacionAssumption
DEF Init, IInvCortoPlazo, Contadores, EstimacionCuadra, Nulo, Liberado

LEMMA CuadraPasoAPaso == IInvCortoPlazo /\ [Next]_vars => IInvCortoPlazo'
<1> SUFFICES ASSUME IInvCortoPlazo, [Next]_vars PROVE IInvCortoPlazo'
    OBVIOUS
<1>a. crono \in [Procs -> Nat \cup {Nulo, Liberado}]
    BY DEF IInvCortoPlazo, Contadores
<1>1. ASSUME NEW h \in Hilos, NEW p \in Procs, DeProceso(h, p) PROVE IInvCortoPlazo'
  <2>1. CASE Ready(h, p)
      BY <2>1, CambiarEstadoCuadra DEF Ready
  <2>2. CASE Execute(h, p)
      BY <2>2, CambiarEstadoCuadra DEF Execute
  <2>3. CASE Blocked(h, p)
      BY <2>3, CambiarEstadoCuadra DEF Blocked
  <2>4. CASE Exit(h, p)
      BY <2>4, CambiarEstadoCuadra DEF Exit
  <2>5. CASE Enviar(h, p)
    <3>1. crono' \in [Procs -> Nat \cup {Nulo, Liberado}]
        BY <2>5, <1>a DEF Enviar
    <3> QED
        BY <3>1, <2>5, SinTocarCuadra DEF Enviar
  <2>6. CASE ReadyCpu(h, p)
      BY <2>6, <1>a, SinTocarCuadra DEF ReadyCpu, planVars
  <2>7. CASE ReadyPrimero(h, p)
      BY <2>7, <1>a, SinTocarCuadra DEF ReadyPrimero, planVars
  <2>8. CASE Desalojar(h, p)
      BY <2>8, <1>a, SinTocarCuadra DEF Desalojar, planVars
  <2>9. CASE MirarCpu(h, p)
      BY <2>9, <1>a, SinTocarCuadra DEF MirarCpu, planVars
  <2>10. CASE Comparar(h, p)
      BY <2>10, <1>a, SinTocarCuadra DEF Comparar, planVars
  <2>11. CASE Eliminar(h, p)
      BY <2>11, <1>a, SinTocarCuadra DEF Eliminar
  <2> QED
      BY <1>1, <2>1, <2>2, <2>3, <2>4, <2>5, <2>6, <2>7, <2>8, <2>9, <2>10, <2>11 DEF DeProceso
<1>2. ASSUME NEW h \in Hilos, Mandar(h) PROVE IInvCortoPlazo'
    BY <1>2, <1>a, SinTocarCuadra DEF Mandar, planVars
<1>3. ASSUME NEW h \in Hilos, MandarVer(h) PROVE IInvCortoPlazo'
    BY <1>3, <1>a, SinTocarCuadra DEF MandarVer, planVars
<1>4. ASSUME NEW h \in Hilos, MandarTomar(h) PROVE IInvCortoPlazo'
    BY <1>4, <1>a, SinTocarCuadra DEF MandarTomar, planVars
<1>5. ASSUME NEW c \in Cpus, Liberar(c) PROVE IInvCortoPlazo'
    BY <1>5, <1>a, SinTocarCuadra DEF Liberar, planVars
<1>6. ASSUME NEW c \in Cpus, Atender(c) PROVE IInvCortoPlazo'
    BY <1>6, <1>a, SinTocarCuadra DEF Atender
<1>7. ASSUME NEW c \in Cpus, Ejecutar(c) PROVE IInvCortoPlazo'
    BY <1>7, <1>a, SinTocarCuadra DEF Ejecutar, planVars
<1>8. ASSUME NEW p \in Procs, FinDeIO(p) PROVE IInvCortoPlazo'
    BY <1>8, <1>a, SinTocarCuadra DEF FinDeIO, planVars
<1>9. CASE Tic
  <2>1. crono' \in [Procs -> Nat \cup {Nulo, Liberado}]
      BY <1>9, <1>a DEF Tic, Cronometrados, Nulo, Liberado
  <2> QED
      BY <2>1, <1>9, SinTocarCuadra DEF Tic
<1>10. CASE Reposo \/ UNCHANGED vars
    BY <1>10, <1>a, SinTocarCuadra DEF Reposo, vars, planVars
<1> QED
    BY <1>1, <1>2, <1>3, <1>4, <1>5, <1>6, <1>7, <1>8, <1>9, <1>10 DEF Next

(* The estimate of a process and what it has used add up to the estimate    *)
(* they were made from until it is used up, in queue_SJF, cambiar_estado    *)
(* and actualizar_rafagas_sjf, whoever interrupts them.                     *)
THEOREM EstimacionSiempreCuadra == Spec => []EstimacionCuadra
<1>1. Init => IInvCortoPlazo
    BY CuadraAlEmpezar
<1>2. IInvCortoPlazo /\ [Next]_vars => IInvCortoPlazo'
    BY CuadraPasoAPaso
<1>3. IInvCortoPlazo => EstimacionCuadra
    BY DEF IInvCortoPlazo
<1> QED
    BY <1>1, <1>2, <1>3, PTL DEF Spec
-----------------------------------------------------------------------------
(* The only CPU.                                                            *)
LaCpu == OrdenCpus[1]
SolaCpu == OrdenCpus = <<LaCpu>>

Servicio == {"LIBERAR_CPU", "MANDAR", "MANDAR_VER", "MANDAR_TOMAR"}
Mandan == {"MANDAR", "MANDAR_VER", "MANDAR_TOMAR"}
Movimientos == Ops \ Servicio

(* What there is in a list, and a task among those of a thread.             *)
Esta(x, lista) == \E i \in DOMAIN lista : lista[i] = x
SinRepetir(lista) == \A i, j \in DOMAIN lista : lista[i] = lista[j] => i = j
Hay(s, o, p) == Esta(Por(o, p), s)

(* A thread has at most one task about a process left, and then those that  *)
(* free its CPU and dispatch again.                                         *)
Colas == { <<>>, <<Sola("MANDAR")>>, <<Sola("MANDAR_VER")>>, <<Sola("MANDAR_TOMAR")>>,
           LiberarYMandar }
TrasLiberar(p) == <<Sola("LIBERAR_CPU"), Por("BLOCKED", p), Sola("MANDAR")>>
Forma(s) ==
    \/ s \in Colas
    \/ \E o \in Movimientos, p \in Procs, c \in Colas : s = <<Por(o, p)>> \o c
    \/ \E p \in Procs : s = TrasLiberar(p)

Formas == \A h \in Hilos : Forma(pila[h])
SoloLaCpu == \A h \in Hilos, o \in Servicio : Hay(pila[h], o, Nadie) => h = Cpu(LaCpu)

ReadyExacta ==
    /\ SinRepetir(ready)
    /\ \A p \in Procs : Esta(p, ready) <=> estado[p] = "READY"

(* Where a process is when a thread has a task about it.                    *)
Traba(s, p) == Hay(s, "READY_CPU", p) \/ Hay(s, "READY_PRIMERO", p)
TareaAlDia(h, p) ==
    /\ Hay(pila[h], "READY", p) =>
          \/ h = Main /\ p = Primero /\ estado[p] = "NEW"
          \/ h = Cpu(LaCpu) /\ p # Primero /\ estado[p] = "NEW"
          \/ h = Cpu(LaCpu) /\ estado[p] = "EXECUTE"
          \/ h = Io(p) /\ estado[p] = "BLOCKED" /\ p \notin enIO
    /\ Traba(pila[h], p) => p \in trabado /\ estado[p] = "READY"
    /\ Hay(pila[h], "EXECUTE", p) => estado[p] = "READY" /\ cpuPid[LaCpu] = p
    /\ Hay(pila[h], "ENVIAR", p) => estado[p] = "EXECUTE" /\ cpuPid[LaCpu] = p
    /\ Hay(pila[h], "BLOCKED", p) => h = Cpu(LaCpu) /\ estado[p] = "EXECUTE"
    /\ Hay(pila[h], "EXIT", p) => h = Cpu(LaCpu) /\ estado[p] = "EXECUTE"
    /\ Hay(pila[h], "ELIMINAR", p) => h = Cpu(LaCpu) /\ estado[p] = "EXIT"
TareasAlDia == \A h \in Hilos, p \in Procs : TareaAlDia(h, p)
UnaTraba == \A h, k \in Hilos, p \in Procs : Traba(pila[h], p) /\ Traba(pila[k], p) => h = k

(* A process that left the CPU and has not been moved yet is nowhere else.  *)
Parado(p) ==
    \/ Hay(pila[Cpu(LaCpu)], "READY", p)
    \/ Hay(pila[Cpu(LaCpu)], "BLOCKED", p)
    \/ Hay(pila[Cpu(LaCpu)], "EXIT", p)
Mensajes == mensajes[LaCpu]
Contexto == contexto[LaCpu]
Habla(p) == \E i \in DOMAIN Mensajes : Mensajes[i].pid = p
Parados ==
    \A p \in Procs : Parado(p) /\ estado[p] = "EXECUTE" =>
        /\ ~Esta(p, Contexto)
        /\ ~Habla(p)
        /\ \A h \in Hilos : ~Hay(pila[h], "ENVIAR", p)

(* The CPU is taken from the dispatch until the thread of the CPU frees it: *)
(* a dispatch, a context, a last message or the order to free it.           *)
Despacha(s) == \E p \in Procs : Hay(s, "EXECUTE", p) \/ Hay(s, "ENVIAR", p)
Libera(s) == Hay(s, "LIBERAR_CPU", Nadie)
Ocupa(s) == Despacha(s) \/ Libera(s)
UnOcupante ==
    /\ \A h, k \in Hilos : Ocupa(pila[h]) /\ Ocupa(pila[k]) => h = k
    /\ \A h \in Hilos : ~(Despacha(pila[h]) /\ Libera(pila[h]))
    /\ \A h \in Hilos : Ocupa(pila[h]) =>
          Contexto = <<>> /\ Mensajes = <<>> /\ cpuPid[LaCpu] # Nadie
    /\ Len(Contexto) <= 1
    /\ Contexto # <<>> \/ Mensajes # <<>> => cpuPid[LaCpu] # Nadie
    /\ \A i \in DOMAIN Mensajes :
          (Mensajes[i].op = "INIT_PROC") <=> (i < Len(Mensajes) \/ Contexto # <<>>)
    /\ cpuPid[LaCpu] # Nadie =>
          Contexto # <<>> \/ Mensajes # <<>> \/ \E h \in Hilos : Ocupa(pila[h])

Despierta ==
    cpuPid[LaCpu] = Nadie /\ ready # <<>> =>
        \/ \E h \in Hilos, p \in Procs : Hay(pila[h], "READY_CPU", p)
        \/ \E o \in Mandan : Hay(pila[Cpu(LaCpu)], o, Nadie)

LugarAlDia(p) ==
    /\ Esta(p, Contexto) => estado[p] = "EXECUTE"
    /\ \A i \in DOMAIN Mensajes : Mensajes[i].pid = p =>
          estado[p] = IF Mensajes[i].op = "INIT_PROC" THEN "NO_CREADO" ELSE "EXECUTE"
    /\ p \in enIO => estado[p] = "BLOCKED"
    /\ estado[p] = "NEW" => \E h \in Hilos : Hay(pila[h], "READY", p)
    /\ estado[p] = "EXECUTE" =>
          \/ \E h \in Hilos : Hay(pila[h], "ENVIAR", p)
          \/ Esta(p, Contexto)
          \/ Habla(p)
          \/ Parado(p)
    /\ estado[p] = "BLOCKED" => p \in enIO \/ Hay(pila[Io(p)], "READY", p)
    /\ estado[p] = "EXIT" => Hay(pila[Cpu(LaCpu)], "ELIMINAR", p)
LugaresAlDia == \A p \in Procs : LugarAlDia(p)

(* The processes that are yet to be created, once each.                     *)
PorCrear ==
    /\ estado[Primero] # "NO_CREADO"
    /\ \A i, j \in DOMAIN Mensajes : Mensajes[i].pid = Mensajes[j].pid => i = j
    /\ \A p \in Procs : \A i \in DOMAIN guion[p] :
          guion[p][i].op = "INIT_PROC" /\ i > pc[p] =>
              estado[guion[p][i].pid] = "NO_CREADO" /\ ~Habla(guion[p][i].pid)

(* The thread that compares holds mutex_desalojo, for a CPU.                *)
DesalojoAlDia ==
    \A h \in Hilos, p \in Procs :
        /\ Hay(pila[h], "MIRAR_CPU", p) => desalojo.hilo = h /\ desalojo.cpu \in Cpus
        /\ Hay(pila[h], "COMPARAR", p) =>
              desalojo.hilo = h /\ desalojo.cpu \in Cpus /\ desalojo.victima \in Procs

(* The inductive invariant.                                                 *)
IInvUnaCpu ==
    /\ TypeOK
    /\ Formas
    /\ SoloLaCpu
    /\ ReadyExacta
    /\ TareasAlDia
    /\ UnaTraba
    /\ Parados
    /\ UnOcupante
    /\ Despierta
    /\ LugaresAlDia
    /\ PorCrear
    /\ DesalojoAlDia
-----------------------------------------------------------------------------
(* Stacks.                                                                  *)
SoloTiene(s, o, p) == \A x : \A q \in Procs : Hay(s, x, q) <=> x = o /\ q = p
SinProceso(s) == \A x : \A q \in Procs : ~Hay(s, x, q)
MismoServicio(s, u) == \A x : Hay(s, x, Nadie) <=> Hay(u, x, Nadie)
Tarea == [op : Ops, pid : Procs \cup {Nadie}]

LEMMA EstaDelante ==
    ASSUME NEW S, NEW x \in S, NEW c \in Seq(S)
    PROVE  /\ <<x>> \o c \in Seq(S)
           /\ <<x>> \o c # <<>>
           /\ Head(<<x>> \o c) = x
           /\ Tail(<<x>> \o c) = c
           /\ \A y : Esta(y, <<x>> \o c) <=> y = x \/ Esta(y, c)
<1>1. /\ <<x>> \o c \in Seq(S)
      /\ Len(<<x>> \o c) = 1 + Len(c)
      /\ (<<x>> \o c)[1] = x
      /\ \A i \in 1..Len(c) : (<<x>> \o c)[i + 1] = c[i]
  OBVIOUS
<1>2. PICK s : s = <<x>> \o c
  OBVIOUS
<1>3. s # <<>> /\ Head(s) = x
  BY <1>1, <1>2
<1>4. Tail(s) = c
  <2>1. /\ Tail(s) \in Seq(S) /\ Len(Tail(s)) = Len(c)
        /\ \A i \in 1..Len(c) : Tail(s)[i] = c[i]
    BY <1>1, <1>2, <1>3, HeadTailProperties
  <2> QED
    BY <2>1, SeqEqual
<1>5. ASSUME NEW y PROVE Esta(y, s) <=> y = x \/ Esta(y, c)
  <2>1. ASSUME NEW i \in DOMAIN s, s[i] = y PROVE y = x \/ Esta(y, c)
    <3>1. i = 1 \/ (i - 1 \in 1..Len(c) /\ s[(i - 1) + 1] = c[i - 1])
      BY <1>1, <1>2, <2>1
    <3> QED
      BY <3>1, <2>1, <1>1, <1>2 DEF Esta
  <2>2. 1 \in DOMAIN s /\ s[1] = x
    BY <1>1, <1>2
  <2>3. ASSUME NEW i \in DOMAIN c PROVE i + 1 \in DOMAIN s /\ s[i + 1] = c[i]
    BY <1>1, <1>2
  <2> QED
    BY <2>1, <2>2, <2>3 DEF Esta
<1> QED
  BY <1>1, <1>2, <1>3, <1>4, <1>5

LEMMA EstaEnVacia == \A y : ~Esta(y, <<>>)
BY DEF Esta

LEMMA EstaEnUna == ASSUME NEW x PROVE \A y : Esta(y, <<x>>) <=> y = x
BY DEF Esta

LEMMA EstaEnDos == ASSUME NEW x, NEW z PROVE \A y : Esta(y, <<x, z>>) <=> y = x \/ y = z
<1>1. DOMAIN <<x, z>> = {1, 2} /\ <<x, z>>[1] = x /\ <<x, z>>[2] = z
  OBVIOUS
<1> QED
  BY <1>1 DEF Esta

LEMMA EstaEnTres ==
    ASSUME NEW x, NEW z, NEW w
    PROVE  \A y : Esta(y, <<x, z, w>>) <=> y = x \/ y = z \/ y = w
<1>1. /\ DOMAIN <<x, z, w>> = {1, 2, 3} /\ <<x, z, w>>[1] = x /\ <<x, z, w>>[2] = z
      /\ <<x, z, w>>[3] = w
  OBVIOUS
<1> QED
  BY <1>1 DEF Esta

LEMMA UnaTrasOtra == ASSUME NEW x, NEW z PROVE <<x, z>> = <<x>> \o <<z>>
<1> DEFINE S == {x, z}
<1>1. <<x, z>> \in Seq(S) /\ <<x>> \o <<z>> \in Seq(S)
  OBVIOUS
<1>2. Len(<<x, z>>) = 2 /\ Len(<<x>> \o <<z>>) = 2
  OBVIOUS
<1>3. \A i \in 1..2 : <<x, z>>[i] = (<<x>> \o <<z>>)[i]
  OBVIOUS
<1> QED
  BY <1>1, <1>2, <1>3, SeqEqual

LEMMA PorIgual == \A o, p, x, q : Por(o, p) = Por(x, q) <=> o = x /\ p = q
BY DEF Por

LEMMA SolaEsPor == \A o : Sola(o) = Por(o, Nadie)
BY DEF Sola, Por

LEMMA HayEnUna ==
    /\ \A o, p : \A x, q : Hay(<<Por(o, p)>>, x, q) <=> x = o /\ q = p
    /\ \A o : \A x, q : Hay(<<Sola(o)>>, x, q) <=> x = o /\ q = Nadie
BY EstaEnUna, SolaEsPor, PorIgual DEF Hay

LEMMA HayEnDos ==
    ASSUME NEW o, NEW p, NEW r
    PROVE  \A x, q : Hay(<<Por(o, p), Sola(r)>>, x, q) <=>
                         (x = o /\ q = p) \/ (x = r /\ q = Nadie)
BY EstaEnDos, SolaEsPor, PorIgual DEF Hay

LEMMA PorTarea ==
    /\ \A o \in Ops, p \in Procs \cup {Nadie} : Por(o, p) \in Tarea
    /\ \A o \in Ops : Sola(o) \in Tarea
BY DEF Por, Sola, Tarea

LEMMA ColaTipo ==
    ASSUME NEW c \in Colas
    PROVE  /\ c \in Seq(Tarea)
           /\ SinProceso(c)
           /\ \A x : Hay(c, x, Nadie) => x \in Servicio
<1>1. c \in Seq(Tarea)
  <2>1. \A o \in Servicio : Sola(o) \in Tarea
    BY PorTarea DEF Servicio, Ops
  <2>2. \A t \in Tarea : <<t>> \in Seq(Tarea)
    OBVIOUS
  <2>3. \A t, u \in Tarea : <<t, u>> \in Seq(Tarea)
    OBVIOUS
  <2>4. <<>> \in Seq(Tarea)
    OBVIOUS
  <2> QED
    BY <2>1, <2>2, <2>3, <2>4 DEF Colas, LiberarYMandar, Servicio
<1>2. ASSUME NEW x, NEW q, Hay(c, x, q) PROVE q = Nadie /\ x \in Servicio
  <2>1. \E o \in Servicio : Por(x, q) = Sola(o)
    BY <1>2, EstaEnVacia, EstaEnUna, EstaEnDos DEF Colas, LiberarYMandar, Hay, Servicio
  <2> QED
    BY <2>1, SolaEsPor, PorIgual
<1> QED
  BY <1>1, <1>2, NadieAssumption DEF SinProceso

(* A process task at the head: the rest is a cola.                          *)
LEMMA FormaProceso ==
    ASSUME NEW s, Forma(s), s # <<>>, NEW o, NEW p \in Procs, Head(s) = Por(o, p)
    PROVE  o \in Movimientos /\ \E c \in Colas : s = <<Por(o, p)>> \o c
<1>1. p # Nadie
  BY NadieAssumption
<1>2. s \notin Colas
  <2>1. s \in Colas => \E x : Head(s) = Por(x, Nadie)
    BY SolaEsPor DEF Colas, LiberarYMandar
  <2> QED
    BY <2>1, <1>1, PorIgual
<1>3. ~\E q \in Procs : s = TrasLiberar(q)
  <2>1. \A q \in Procs : Head(TrasLiberar(q)) = Por("LIBERAR_CPU", Nadie)
    BY SolaEsPor DEF TrasLiberar
  <2> QED
    BY <2>1, <1>1, PorIgual
<1>4. PICK x \in Movimientos, q \in Procs, c \in Colas : s = <<Por(x, q)>> \o c
  BY <1>2, <1>3 DEF Forma
<1>5. Por(x, q) \in Tarea
  BY PorTarea DEF Movimientos
<1>6. Head(s) = Por(x, q)
  BY <1>4, <1>5, ColaTipo, EstaDelante
<1> QED
  BY <1>4, <1>6, PorIgual

LEMMA FormaConProceso ==
    ASSUME NEW c \in Colas, NEW o \in Movimientos, NEW p \in Procs,
           NEW s, s = <<Por(o, p)>> \o c
    PROVE  /\ Forma(s) /\ s # <<>> /\ Tail(s) = c
           /\ SoloTiene(s, o, p)
           /\ MismoServicio(s, c)
<1>1. Por(o, p) \in Tarea
  BY PorTarea DEF Movimientos
<1>2. Forma(s)
  BY DEF Forma
<1>3. s # <<>> /\ Tail(s) = c /\ \A y : Esta(y, s) <=> y = Por(o, p) \/ Esta(y, c)
  BY <1>1, ColaTipo, EstaDelante
<1>4. p # Nadie
  BY NadieAssumption
<1>5. \A x, q : Hay(s, x, q) <=> (x = o /\ q = p) \/ Hay(c, x, q)
  BY <1>3, PorIgual DEF Hay
<1>6. SinProceso(c)
  BY ColaTipo
<1> QED
  BY <1>2, <1>3, <1>4, <1>5, <1>6 DEF SoloTiene, MismoServicio, SinProceso

(* The first task, about a process, ends...                                 *)
LEMMA ProcesoSale ==
    ASSUME NEW s, Forma(s), s # <<>>, NEW o, NEW p \in Procs, Head(s) = Por(o, p),
           NEW u, u = <<>> \o Tail(s)
    PROVE  /\ o \in Movimientos /\ SoloTiene(s, o, p)
           /\ Forma(u) /\ SinProceso(u) /\ MismoServicio(s, u)
<1>1. o \in Movimientos /\ \E c \in Colas : s = <<Por(o, p)>> \o c
  BY FormaProceso
<1>2. PICK c \in Colas : s = <<Por(o, p)>> \o c
  BY <1>1
<1>3. Tail(s) = c /\ SoloTiene(s, o, p) /\ MismoServicio(s, c)
  BY <1>1, <1>2, FormaConProceso
<1>4. u = c /\ SinProceso(c)
  BY <1>3, ColaTipo, ConcatEmptySeq
<1> QED
  BY <1>1, <1>3, <1>4 DEF Forma

(* ... or is followed by another one about it.                              *)
LEMMA ProcesoSigue ==
    ASSUME NEW s, Forma(s), s # <<>>, NEW o, NEW p \in Procs, Head(s) = Por(o, p),
           NEW r \in Movimientos, NEW u, u = <<Por(r, p)>> \o Tail(s)
    PROVE  /\ o \in Movimientos /\ SoloTiene(s, o, p)
           /\ Forma(u) /\ SoloTiene(u, r, p) /\ MismoServicio(s, u)
<1>1. o \in Movimientos /\ \E c \in Colas : s = <<Por(o, p)>> \o c
  BY FormaProceso
<1>2. PICK c \in Colas : s = <<Por(o, p)>> \o c
  BY <1>1
<1>3. Tail(s) = c /\ SoloTiene(s, o, p) /\ MismoServicio(s, c)
  BY <1>1, <1>2, FormaConProceso
<1>4. Forma(u) /\ SoloTiene(u, r, p) /\ MismoServicio(u, c)
  BY <1>3, FormaConProceso
<1> QED
  BY <1>1, <1>3, <1>4 DEF MismoServicio

(* A task of service at the head.                                           *)
LEMMA FormaMandar ==
    ASSUME NEW s, Forma(s), s # <<>>, NEW o \in Mandan, Head(s) = Por(o, Nadie)
    PROVE  s = <<Sola(o)>>
<1>1. \A x \in Movimientos, q \in Procs, c \in Colas : Head(<<Por(x, q)>> \o c) = Por(x, q)
  <2>1. \A x \in Movimientos, q \in Procs : Por(x, q) \in Tarea
    BY PorTarea DEF Movimientos
  <2> QED
    BY <2>1, ColaTipo, EstaDelante
<1>2. \A q \in Procs : Head(TrasLiberar(q)) = Sola("LIBERAR_CPU")
  BY DEF TrasLiberar
<1>3. Head(LiberarYMandar) = Sola("LIBERAR_CPU")
  BY DEF LiberarYMandar
<1>4. s \in Colas
  <2>1. ~\E x \in Movimientos, q \in Procs, c \in Colas : s = <<Por(x, q)>> \o c
    <3>1. ASSUME NEW x \in Movimientos, NEW q \in Procs, NEW c \in Colas, s = <<Por(x, q)>> \o c
          PROVE FALSE
      <4>1. Head(s) = Por(x, q)
        BY <1>1, <3>1
      <4> QED
        BY <4>1, PorIgual, NadieAssumption
    <3> QED
      BY <3>1
  <2>2. ~\E q \in Procs : s = TrasLiberar(q)
    BY <1>2, SolaEsPor, PorIgual DEF Mandan
  <2> QED
    BY <2>1, <2>2 DEF Forma
<1>5. s # LiberarYMandar
  BY <1>3, SolaEsPor, PorIgual DEF Mandan
<1>6. PICK x \in Mandan : s = <<Sola(x)>>
  BY <1>4, <1>5 DEF Colas, Mandan
<1>7. Head(s) = Sola(x)
  BY <1>6
<1> QED
  BY <1>6, <1>7, SolaEsPor, PorIgual

SoloMandar == <<Sola("MANDAR")>>
BloquearYMandar(p) == <<Por("BLOCKED", p), Sola("MANDAR")>>

LEMMA HaySoloMandar == \A x, q : Hay(SoloMandar, x, q) <=> x = "MANDAR" /\ q = Nadie
BY HayEnUna DEF SoloMandar

LEMMA HayBloquearYMandar ==
    ASSUME NEW p
    PROVE  \A x, q : Hay(BloquearYMandar(p), x, q) <=>
                         (x = "BLOCKED" /\ q = p) \/ (x = "MANDAR" /\ q = Nadie)
BY HayEnDos DEF BloquearYMandar

LEMMA FormaLiberar ==
    ASSUME NEW s, Forma(s), s # <<>>, Head(s) = Por("LIBERAR_CPU", Nadie),
           NEW u, u = <<>> \o Tail(s)
    PROVE  /\ Forma(u)
           /\ Hay(s, "LIBERAR_CPU", Nadie)
           /\ ~Hay(u, "LIBERAR_CPU", Nadie)
           /\ Hay(u, "MANDAR", Nadie)
           /\ \A x : \A q \in Procs : Hay(u, x, q) <=> Hay(s, x, q)
           /\ \A x : Hay(u, x, Nadie) => Hay(s, x, Nadie)
<1>1. \A x \in Movimientos, q \in Procs, c \in Colas : Head(<<Por(x, q)>> \o c) = Por(x, q)
  <2>1. \A x \in Movimientos, q \in Procs : Por(x, q) \in Tarea
    BY PorTarea DEF Movimientos
  <2> QED
    BY <2>1, ColaTipo, EstaDelante
<1>2. s = LiberarYMandar \/ \E q \in Procs : s = TrasLiberar(q)
  <2>1. s \in Colas \/ \E q \in Procs : s = TrasLiberar(q)
    <3>1. ~\E x \in Movimientos, q \in Procs, c \in Colas : s = <<Por(x, q)>> \o c
      <4>1. ASSUME NEW x \in Movimientos, NEW q \in Procs, NEW c \in Colas, s = <<Por(x, q)>> \o c
            PROVE FALSE
        <5>1. Head(s) = Por(x, q)
          BY <1>1, <4>1
        <5> QED
          BY <5>1, PorIgual, NadieAssumption
      <4> QED
        BY <4>1
    <3> QED
      BY <3>1 DEF Forma
  <2>2. ASSUME NEW o \in Mandan, s = <<Sola(o)>> PROVE FALSE
    <3>1. Head(s) = Sola(o)
      BY <2>2
    <3> QED
      BY <3>1, SolaEsPor, PorIgual DEF Mandan
  <2> QED
    BY <2>1, <2>2 DEF Colas, Mandan
<1>3. CASE s = LiberarYMandar
  <2>1. u = SoloMandar
    BY <1>3 DEF LiberarYMandar, SoloMandar
  <2>2. Forma(u)
    BY <2>1 DEF Forma, Colas, SoloMandar
  <2>3. \A x, q : Hay(u, x, q) <=> x = "MANDAR" /\ q = Nadie
    BY <2>1, HaySoloMandar
  <2>4. \A x, q : Hay(s, x, q) <=> x \in {"LIBERAR_CPU", "MANDAR"} /\ q = Nadie
    BY <1>3, EstaEnDos, SolaEsPor, PorIgual DEF Hay, LiberarYMandar
  <2> QED
    BY <2>2, <2>3, <2>4, NadieAssumption
<1>4. ASSUME NEW p \in Procs, s = TrasLiberar(p) PROVE
           /\ Forma(u)
           /\ Hay(s, "LIBERAR_CPU", Nadie)
           /\ ~Hay(u, "LIBERAR_CPU", Nadie)
           /\ Hay(u, "MANDAR", Nadie)
           /\ \A x : \A q \in Procs : Hay(u, x, q) <=> Hay(s, x, q)
           /\ \A x : Hay(u, x, Nadie) => Hay(s, x, Nadie)
  <2>1. u = BloquearYMandar(p)
    BY <1>4 DEF TrasLiberar, BloquearYMandar
  <2>2. BloquearYMandar(p) = <<Por("BLOCKED", p)>> \o <<Sola("MANDAR")>>
    BY UnaTrasOtra DEF BloquearYMandar
  <2>3. Forma(u)
    BY <2>1, <2>2 DEF Forma, Colas, Movimientos, Ops, Servicio
  <2>4. \A x, q : Hay(u, x, q) <=> (x = "BLOCKED" /\ q = p) \/ (x = "MANDAR" /\ q = Nadie)
    <3>1. \A x, q : Hay(BloquearYMandar(p), x, q) <=>
                        (x = "BLOCKED" /\ q = p) \/ (x = "MANDAR" /\ q = Nadie)
      BY HayBloquearYMandar
    <3> QED
      BY <2>1, <3>1
  <2>5. \A x, q : Hay(s, x, q) <=>
            (x = "BLOCKED" /\ q = p) \/ (x \in {"LIBERAR_CPU", "MANDAR"} /\ q = Nadie)
    BY <1>4, EstaEnTres, SolaEsPor, PorIgual DEF Hay, TrasLiberar
  <2> QED
    BY <2>3, <2>4, <2>5, NadieAssumption
<1> QED
  BY <1>2, <1>3, <1>4

LEMMA FormaTipo == ASSUME NEW s, Forma(s) PROVE s \in Seq(Tarea)
<1>1. CASE s \in Colas
  BY <1>1, ColaTipo
<1>2. CASE \E o \in Movimientos, p \in Procs, c \in Colas : s = <<Por(o, p)>> \o c
  <2>1. PICK o \in Movimientos, p \in Procs, c \in Colas : s = <<Por(o, p)>> \o c
    BY <1>2
  <2>2. Por(o, p) \in Tarea
    BY PorTarea DEF Movimientos
  <2> QED
    BY <2>1, <2>2, ColaTipo, EstaDelante
<1>3. ASSUME NEW p \in Procs, s = TrasLiberar(p) PROVE s \in Seq(Tarea)
  <2>1. Sola("LIBERAR_CPU") \in Tarea /\ Por("BLOCKED", p) \in Tarea /\ Sola("MANDAR") \in Tarea
    BY PorTarea DEF Ops
  <2>2. \A t, u, w \in Tarea : <<t, u, w>> \in Seq(Tarea)
    OBVIOUS
  <2> QED
    BY <1>3, <2>1, <2>2 DEF TrasLiberar
<1> QED
  BY <1>1, <1>2, <1>3 DEF Forma

(* The stacks that the threads are given.                                   *)
LEMMA PilaVacia == Forma(<<>>) /\ \A x, q : ~Hay(<<>>, x, q)
BY EstaEnVacia DEF Forma, Colas, Hay

LEMMA PilaDeServicio ==
    ASSUME NEW o \in Mandan
    PROVE  /\ Forma(<<Sola(o)>>)
           /\ \A x, q : Hay(<<Sola(o)>>, x, q) <=> x = o /\ q = Nadie
BY HayEnUna DEF Forma, Colas, Mandan

LEMMA PilaDeProceso ==
    ASSUME NEW o \in Movimientos, NEW p \in Procs
    PROVE  /\ Forma(<<Por(o, p)>>)
           /\ \A x, q : Hay(<<Por(o, p)>>, x, q) <=> x = o /\ q = p
<1>1. Por(o, p) \in Tarea
  BY PorTarea DEF Movimientos
<1>2. <<Por(o, p)>> = <<Por(o, p)>> \o <<>>
  BY <1>1
<1>3. <<>> \in Colas
  BY DEF Colas
<1>4. Forma(<<Por(o, p)>>)
  BY <1>2, <1>3 DEF Forma
<1> QED
  BY <1>4, HayEnUna

EjecutarYVer(p) == <<Por("EXECUTE", p), Sola("MANDAR_VER")>>

LEMMA PilaDeTomar ==
    ASSUME NEW p \in Procs
    PROVE  /\ Forma(EjecutarYVer(p))
           /\ \A x, q : Hay(EjecutarYVer(p), x, q) <=>
                            (x = "EXECUTE" /\ q = p) \/ (x = "MANDAR_VER" /\ q = Nadie)
<1>1. EjecutarYVer(p) = <<Por("EXECUTE", p)>> \o <<Sola("MANDAR_VER")>>
  BY UnaTrasOtra DEF EjecutarYVer
<1>2. "EXECUTE" \in Movimientos /\ <<Sola("MANDAR_VER")>> \in Colas
  BY DEF Movimientos, Ops, Servicio, Colas
<1>3. Forma(EjecutarYVer(p))
  BY <1>1, <1>2 DEF Forma
<1> QED
  BY <1>3, HayEnDos DEF EjecutarYVer

LEMMA PilaDeLiberar ==
    ASSUME NEW o \in Movimientos, NEW p \in Procs
    PROVE  /\ Forma(<<Por(o, p)>> \o LiberarYMandar)
           /\ \A x, q : Hay(<<Por(o, p)>> \o LiberarYMandar, x, q) <=>
                            (x = o /\ q = p) \/ (x \in {"LIBERAR_CPU", "MANDAR"} /\ q = Nadie)
<1>1. LiberarYMandar \in Colas
  BY DEF Colas
<1>2. PICK s : s = <<Por(o, p)>> \o LiberarYMandar
  OBVIOUS
<1>3. Forma(s)
  BY <1>1, <1>2 DEF Forma
<1>4. Por(o, p) \in Tarea /\ LiberarYMandar \in Seq(Tarea)
  BY <1>1, PorTarea, ColaTipo DEF Movimientos
<1>5. \A y : Esta(y, s) <=> y = Por(o, p) \/ Esta(y, LiberarYMandar)
  BY <1>2, <1>4, EstaDelante
<1>6. \A x, q : Hay(LiberarYMandar, x, q) <=> x \in {"LIBERAR_CPU", "MANDAR"} /\ q = Nadie
  BY EstaEnDos, SolaEsPor, PorIgual DEF Hay, LiberarYMandar
<1>7. \A x, q : Hay(s, x, q) <=>
                    (x = o /\ q = p) \/ (x \in {"LIBERAR_CPU", "MANDAR"} /\ q = Nadie)
  BY <1>5, <1>6, PorIgual DEF Hay
<1> QED
  BY <1>2, <1>3, <1>7

LEMMA PilaDeBloquear ==
    ASSUME NEW p \in Procs
    PROVE  /\ Forma(TrasLiberar(p))
           /\ \A x, q : Hay(TrasLiberar(p), x, q) <=>
                  (x = "BLOCKED" /\ q = p) \/ (x \in {"LIBERAR_CPU", "MANDAR"} /\ q = Nadie)
<1>1. Forma(TrasLiberar(p))
  BY DEF Forma
<1> QED
  BY <1>1, EstaEnTres, SolaEsPor, PorIgual DEF Hay, TrasLiberar
-----------------------------------------------------------------------------
(* queue_READY.                                                             *)
Insertada(r, lista, i, p) ==
    /\ r \in Seq(Procs)
    /\ Len(r) = Len(lista) + 1
    /\ i \in 1..Len(r)
    /\ \A j \in 1..Len(r) :
          r[j] = IF j < i THEN lista[j] ELSE IF j = i THEN p ELSE lista[j - 1]

Quitada(r, lista, i) ==
    /\ r \in Seq(Procs)
    /\ Len(r) = Len(lista) - 1
    /\ i \in 1..Len(lista)
    /\ \A j \in 1..Len(r) : r[j] = IF j < i THEN lista[j] ELSE lista[j + 1]

LEMMA InsertadaExacta ==
    ASSUME NEW lista \in Seq(Procs), NEW p \in Procs, NEW r, NEW i, Insertada(r, lista, i, p),
           SinRepetir(lista), ~Esta(p, lista)
    PROVE  /\ SinRepetir(r)
           /\ \A q : Esta(q, r) <=> Esta(q, lista) \/ q = p
<1>1. /\ Len(lista) \in Nat /\ DOMAIN lista = 1..Len(lista)
      /\ Len(r) = Len(lista) + 1 /\ DOMAIN r = 1..Len(r) /\ i \in 1..Len(r)
      /\ \A j \in 1..Len(r) :
            r[j] = IF j < i THEN lista[j] ELSE IF j = i THEN p ELSE lista[j - 1]
  BY DEF Insertada
<1>2. \A j \in 1..Len(lista) : lista[j] # p
  BY <1>1 DEF Esta
<1>3. SinRepetir(r)
  <2>1. ASSUME NEW j \in 1..Len(r), NEW k \in 1..Len(r), j < k, r[j] = r[k] PROVE FALSE
    <3>1. CASE j = i \/ k = i
      <4>1. CASE j = i
        <5>1. k - 1 \in 1..Len(lista) /\ r[k] = lista[k - 1] /\ r[j] = p
          BY <1>1, <2>1, <4>1
        <5> QED
          BY <1>2, <2>1, <5>1
      <4>2. CASE k = i
        <5>1. j \in 1..Len(lista) /\ r[j] = lista[j] /\ r[k] = p
          BY <1>1, <2>1, <4>2
        <5> QED
          BY <1>2, <2>1, <5>1
      <4> QED
        BY <3>1, <4>1, <4>2
    <3>2. CASE j # i /\ k # i
      <4>1. \E m, n \in 1..Len(lista) : m < n /\ r[j] = lista[m] /\ r[k] = lista[n]
        <5>1. CASE j < i /\ k < i
          BY <1>1, <2>1, <5>1
        <5>2. CASE j < i /\ k > i
          BY <1>1, <2>1, <5>2
        <5>3. CASE j > i /\ k > i
          BY <1>1, <2>1, <5>3
        <5> QED
          BY <1>1, <2>1, <3>2, <5>1, <5>2, <5>3
      <4>2. \A m, n \in 1..Len(lista) : lista[m] = lista[n] => m = n
        BY <1>1 DEF SinRepetir
      <4>3. PICK m \in 1..Len(lista), n \in 1..Len(lista) :
              m < n /\ r[j] = lista[m] /\ r[k] = lista[n]
        BY <4>1
      <4>4. m = n
        BY <2>1, <4>2, <4>3
      <4> QED
        BY <4>3, <4>4
    <3> QED
      BY <3>1, <3>2
  <2> QED
    BY <1>1, <2>1 DEF SinRepetir
<1>4. ASSUME NEW q, Esta(q, r) PROVE Esta(q, lista) \/ q = p
  <2>1. PICK j \in 1..Len(r) : r[j] = q
    BY <1>1, <1>4 DEF Esta
  <2>2. q = p \/ (j \in 1..Len(lista) /\ lista[j] = q) \/ (j - 1 \in 1..Len(lista) /\ lista[j - 1] = q)
    BY <1>1, <2>1
  <2> QED
    BY <1>1, <2>2 DEF Esta
<1>5. ASSUME NEW q, Esta(q, lista) PROVE Esta(q, r)
  <2>1. PICK j \in 1..Len(lista) : lista[j] = q
    BY <1>1, <1>5 DEF Esta
  <2>2. (j \in 1..Len(r) /\ r[j] = q) \/ (j + 1 \in 1..Len(r) /\ r[j + 1] = q)
    BY <1>1, <2>1
  <2> QED
    BY <1>1, <2>2 DEF Esta
<1>6. Esta(p, r)
  BY <1>1 DEF Esta
<1> QED
  BY <1>3, <1>4, <1>5, <1>6

LEMMA QuitadaExacta ==
    ASSUME NEW lista \in Seq(Procs), NEW p \in Procs, NEW r, NEW i, Quitada(r, lista, i),
           SinRepetir(lista), lista[i] = p
    PROVE  /\ SinRepetir(r)
           /\ \A q : Esta(q, r) <=> Esta(q, lista) /\ q # p
<1>1. /\ Len(lista) \in Nat /\ DOMAIN lista = 1..Len(lista)
      /\ Len(r) = Len(lista) - 1 /\ DOMAIN r = 1..Len(r) /\ i \in 1..Len(lista)
      /\ \A j \in 1..Len(r) : r[j] = IF j < i THEN lista[j] ELSE lista[j + 1]
  BY DEF Quitada
<1>2. \A j \in 1..Len(lista) : lista[j] = p => j = i
  BY <1>1 DEF SinRepetir
<1>3. SinRepetir(r)
  <2>1. ASSUME NEW j \in 1..Len(r), NEW k \in 1..Len(r), j < k, r[j] = r[k] PROVE FALSE
    <3>1. \E m, n \in 1..Len(lista) : m < n /\ r[j] = lista[m] /\ r[k] = lista[n]
      <4>1. CASE j < i /\ k < i
        BY <1>1, <2>1, <4>1
      <4>2. CASE j < i /\ k >= i
        BY <1>1, <2>1, <4>2
      <4>3. CASE j >= i
        BY <1>1, <2>1, <4>3
      <4> QED
        BY <1>1, <2>1, <4>1, <4>2, <4>3
    <3>2. \A m, n \in 1..Len(lista) : lista[m] = lista[n] => m = n
      BY <1>1 DEF SinRepetir
    <3>3. PICK m \in 1..Len(lista), n \in 1..Len(lista) :
            m < n /\ r[j] = lista[m] /\ r[k] = lista[n]
      BY <3>1
    <3>4. m = n
      BY <2>1, <3>2, <3>3
    <3> QED
      BY <3>3, <3>4
  <2> QED
    BY <1>1, <2>1 DEF SinRepetir
<1>4. ASSUME NEW q, Esta(q, r) PROVE Esta(q, lista) /\ q # p
  <2>1. PICK j \in 1..Len(r) : r[j] = q
    BY <1>1, <1>4 DEF Esta
  <2>2. \E k \in 1..Len(lista) : k # i /\ lista[k] = q
    BY <1>1, <2>1
  <2> QED
    BY <1>1, <1>2, <2>2 DEF Esta
<1>5. ASSUME NEW q, Esta(q, lista), q # p PROVE Esta(q, r)
  <2>1. PICK j \in 1..Len(lista) : lista[j] = q
    BY <1>1, <1>5 DEF Esta
  <2>2. (j \in 1..Len(r) /\ r[j] = q) \/ (j - 1 \in 1..Len(r) /\ r[j - 1] = q)
    BY <1>1, <1>5, <2>1
  <2> QED
    BY <1>1, <2>2 DEF Esta
<1> QED
  BY <1>3, <1>4, <1>5

(* The least of a set of places.                                            *)
Menor == { par \in Nat \X Nat : par[1] < par[2] }

LEMMA PrimeroDeMinimo ==
    ASSUME NEW T \in SUBSET Nat, T # {}
    PROVE  PrimeroDe(T) \in T /\ \A y \in T : PrimeroDe(T) <= y
<1>1. IsWellFoundedOn(Menor, Nat)
  BY NatLessThanWellFounded DEF OpToRel, Menor
<1>2. PICK x \in T : \A y \in T : ~ (<<y, x>> \in Menor)
  BY <1>1, WFMin
<1>3. \A y \in T : x <= y
  <2>1. \A y \in T : ~ (y < x)
    BY <1>2 DEF Menor
  <2> QED
    BY <2>1
<1> QED
  BY <1>3 DEF PrimeroDe

LEMMA AppendInserta ==
    ASSUME NEW lista \in Seq(Procs), NEW p \in Procs
    PROVE  Insertada(Append(lista, p), lista, Len(lista) + 1, p)
BY AppendProperties DEF Insertada

LEMMA SubSeqPartido ==
    ASSUME NEW lista \in Seq(Procs), NEW p \in Procs, NEW i \in 1..Len(lista)
    PROVE  Insertada(SubSeq(lista, 1, i - 1) \o <<p>> \o SubSeq(lista, i, Len(lista)),
                     lista, i, p)
<1>1. PICK a, b : a = SubSeq(lista, 1, i - 1) /\ b = SubSeq(lista, i, Len(lista))
  OBVIOUS
<1>2. Len(lista) \in Nat /\ i \in Nat /\ i - 1 \in Nat /\ i >= 1 /\ i <= Len(lista)
  OBVIOUS
<1>3. a \in Seq(Procs) /\ Len(a) = i - 1 /\ \A j \in 1..(i - 1) : a[j] = lista[j]
  <2>1. \A j \in 1..(i - 1) : lista[j] \in Procs
    BY <1>2
  <2> QED
    BY <1>1, <1>2, <2>1, SubSeqProperties
<1>4. /\ b \in Seq(Procs) /\ Len(b) = Len(lista) - i + 1
      /\ \A j \in 1..(Len(lista) - i + 1) : b[j] = lista[i + j - 1]
  <2>1. \A j \in i..Len(lista) : lista[j] \in Procs
    BY <1>2
  <2> QED
    BY <1>1, <1>2, <2>1, SubSeqProperties
<1>5. PICK c : c = a \o <<p>>
  OBVIOUS
<1>6. /\ c \in Seq(Procs) /\ Len(c) = i
      /\ \A j \in 1..i : c[j] = IF j < i THEN lista[j] ELSE p
  BY <1>2, <1>3, <1>5
<1>7. PICK r : r = c \o b
  OBVIOUS
<1>8. /\ r \in Seq(Procs) /\ Len(r) = Len(lista) + 1
      /\ \A j \in 1..Len(r) : r[j] = IF j <= i THEN c[j] ELSE b[j - i]
  <2>1. /\ c \o b \in Seq(Procs)
        /\ Len(c \o b) = Len(c) + Len(b)
        /\ \A j \in 1..Len(c) + Len(b) :
              (c \o b)[j] = IF j <= Len(c) THEN c[j] ELSE b[j - Len(c)]
    BY <1>4, <1>6, ConcatProperties
  <2>2. Len(c) = i /\ Len(c) + Len(b) = Len(lista) + 1
    BY <1>2, <1>4, <1>6
  <2> QED
    BY <1>7, <2>1, <2>2
<1>9. \A j \in 1..Len(r) :
          r[j] = IF j < i THEN lista[j] ELSE IF j = i THEN p ELSE lista[j - 1]
  <2>1. ASSUME NEW j \in 1..Len(r), j > i PROVE r[j] = lista[j - 1]
    <3>1. j - i \in 1..(Len(lista) - i + 1) /\ i + (j - i) - 1 = j - 1
      BY <1>2, <1>8, <2>1
    <3>2. ~(j <= i) /\ r[j] = b[j - i]
      BY <1>2, <1>8, <2>1
    <3>3. b[j - i] = lista[i + (j - i) - 1]
      BY <1>4, <3>1
    <3> QED
      BY <3>1, <3>2, <3>3
  <2>2. ASSUME NEW j \in 1..Len(r), j <= i PROVE r[j] = IF j < i THEN lista[j] ELSE p
    <3>1. j \in 1..i /\ r[j] = c[j]
      BY <1>2, <1>8, <2>2
    <3> QED
      BY <1>6, <3>1
  <2> QED
    BY <1>2, <1>8, <2>1, <2>2
<1>10. Insertada(r, lista, i, p)
  BY <1>2, <1>8, <1>9 DEF Insertada
<1> QED
  BY <1>1, <1>5, <1>7, <1>10

(* queue_SJF inserts where everything before is no longer than e and the    *)
(* one it goes before, if there is one, is longer.                          *)
LEMMA InsertarSJFInserta ==
    ASSUME NEW lista \in Seq(Procs), NEW p \in Procs, NEW e
    PROVE  \E i : /\ Insertada(InsertarSJF(p, e, lista), lista, i, p)
                  /\ \A j \in 1..(i - 1) : ~(e < estimada[lista[j]])
                  /\ i <= Len(lista) => e < estimada[lista[i]]
<1> DEFINE mayores == { i \in DOMAIN lista : e < estimada[lista[i]] }
<1>1. CASE mayores = {}
  <2>1. InsertarSJF(p, e, lista) = Append(lista, p)
    BY <1>1 DEF InsertarSJF
  <2>2. \A j \in 1..Len(lista) : ~(e < estimada[lista[j]])
    BY <1>1
  <2> QED
    BY <2>1, <2>2, AppendInserta
<1>2. CASE mayores # {}
  <2>1. mayores \in SUBSET Nat
    OBVIOUS
  <2>2. PICK i : i = PrimeroDe(mayores)
    OBVIOUS
  <2>3. i \in mayores /\ \A y \in mayores : i <= y
    BY <1>2, <2>1, <2>2, PrimeroDeMinimo
  <2>4. InsertarSJF(p, e, lista) = SubSeq(lista, 1, i - 1) \o <<p>> \o SubSeq(lista, i, Len(lista))
    BY <1>2, <2>2 DEF InsertarSJF
  <2>5. i \in 1..Len(lista) /\ Len(lista) \in Nat
    BY <2>3
  <2>6. \A j \in 1..(i - 1) : ~(e < estimada[lista[j]])
    BY <2>3, <2>5
  <2>7. Insertada(SubSeq(lista, 1, i - 1) \o <<p>> \o SubSeq(lista, i, Len(lista)), lista, i, p)
    BY <2>5, SubSeqPartido
  <2> QED
    BY <2>3, <2>4, <2>6, <2>7
<1> QED
  BY <1>1, <1>2

(* cambiar_estado, to READY...                                              *)
Cronos == [Procs -> {Nulo, Liberado} \cup 0..MaxRafaga]

EnSuSitio(e, i) ==
    /\ \A j \in 1..(i - 1) : ~(e < estimada[ready[j]])
    /\ i <= Len(ready) => e < estimada[ready[i]]

LEMMA CambiarAReady ==
    ASSUME TypeOK, NEW p \in Procs, estado[p] # "READY", CambiarEstado(p, "READY")
    PROVE  /\ estado' = [estado EXCEPT ![p] = "READY"]
           /\ crono' \in Cronos
           /\ \A q \in Procs \ {p} : estimada'[q] = estimada[q]
           /\ \E i : /\ Insertada(ready', ready, i, p)
                     /\ Sjf => EnSuSitio(estimada'[p], i)
<1>1. PICK n \in Rafagas(p) :
        LET usado == total[p] + n
            queda == IF DejaCpu(p) THEN LoQueQueda(estimada[p], n) ELSE estimada[p]
            renueva == "READY" = "READY" /\ Sjf /\ queda = 0
            nueva == IF renueva THEN Reestimar(p, usado) ELSE queda
            resto == IF estado[p] = "READY" THEN Quitar(p, ready) ELSE ready
        IN
        /\ estimada' = [estimada EXCEPT ![p] = nueva]
        /\ crono' = [crono EXCEPT ![p] = IF DejaCpu(p) THEN Liberado ELSE @]
        /\ ready' = CASE "READY" = "READY" /\ Sjf -> InsertarSJF(p, nueva, resto)
                      [] "READY" = "READY" /\ ~Sjf -> Append(resto, p)
                      [] OTHER -> resto
        /\ estado' = [estado EXCEPT ![p] = "READY"]
  BY DEF CambiarEstado
<1>2. PICK nueva :
        /\ estimada' = [estimada EXCEPT ![p] = nueva]
        /\ crono' = [crono EXCEPT ![p] = IF DejaCpu(p) THEN Liberado ELSE @]
        /\ ready' = IF Sjf THEN InsertarSJF(p, nueva, ready) ELSE Append(ready, p)
        /\ estado' = [estado EXCEPT ![p] = "READY"]
  BY <1>1
<1>3. ready \in Seq(Procs) /\ crono \in Cronos /\ estimada \in [Procs -> Nat]
  BY DEF TypeOK, Cronos
<1>4. crono' \in Cronos
  BY <1>2, <1>3 DEF Cronos
<1>5. estimada'[p] = nueva /\ \A q \in Procs \ {p} : estimada'[q] = estimada[q]
  BY <1>2, <1>3
<1>6. CASE Sjf
  <2>1. PICK i : /\ Insertada(InsertarSJF(p, nueva, ready), ready, i, p)
                 /\ \A j \in 1..(i - 1) : ~(nueva < estimada[ready[j]])
                 /\ i <= Len(ready) => nueva < estimada[ready[i]]
    BY <1>3, InsertarSJFInserta
  <2>2. EnSuSitio(estimada'[p], i)
    BY <1>5, <2>1 DEF EnSuSitio
  <2> QED
    BY <1>2, <1>4, <1>5, <1>6, <2>1, <2>2
<1>7. CASE ~Sjf
  <2>1. Insertada(ready', ready, Len(ready) + 1, p)
    BY <1>2, <1>3, <1>7, AppendInserta
  <2> QED
    BY <1>2, <1>4, <1>5, <1>7, <2>1
<1> QED
  BY <1>6, <1>7

LEMMA QuitarQuita ==
    ASSUME NEW lista \in Seq(Procs), NEW p \in Procs, Esta(p, lista)
    PROVE  \E i : Quitada(Quitar(p, lista), lista, i) /\ lista[i] = p
<1> DEFINE lugares == { i \in DOMAIN lista : lista[i] = p }
<1>1. lugares \in SUBSET Nat /\ lugares # {}
  BY DEF Esta
<1>2. PICK i : i = PrimeroDe(lugares)
  OBVIOUS
<1>3. i \in lugares
  BY <1>1, <1>2, PrimeroDeMinimo
<1>4. Len(lista) \in Nat /\ i \in 1..Len(lista) /\ lista[i] = p
  BY <1>3
<1>5. Quitar(p, lista) = SubSeq(lista, 1, i - 1) \o SubSeq(lista, i + 1, Len(lista))
  BY <1>1, <1>2 DEF Quitar
<1>6. PICK a, b : a = SubSeq(lista, 1, i - 1) /\ b = SubSeq(lista, i + 1, Len(lista))
  OBVIOUS
<1>7. a \in Seq(Procs) /\ Len(a) = i - 1 /\ \A j \in 1..(i - 1) : a[j] = lista[j]
  <2>1. \A j \in 1..(i - 1) : lista[j] \in Procs
    BY <1>4
  <2> QED
    BY <1>4, <1>6, <2>1, SubSeqProperties
<1>8. /\ b \in Seq(Procs) /\ Len(b) = Len(lista) - i
      /\ \A j \in 1..(Len(lista) - i) : b[j] = lista[i + j]
  <2>1. \A j \in (i + 1)..Len(lista) : lista[j] \in Procs
    BY <1>4
  <2> QED
    BY <1>4, <1>6, <2>1, SubSeqProperties
<1>9. PICK r : r = a \o b
  OBVIOUS
<1>10. /\ r \in Seq(Procs) /\ Len(r) = Len(lista) - 1
       /\ \A j \in 1..Len(r) : r[j] = IF j < i THEN lista[j] ELSE lista[j + 1]
  <2>1. /\ a \o b \in Seq(Procs)
        /\ Len(a \o b) = Len(a) + Len(b)
        /\ \A j \in 1..Len(a) + Len(b) :
              (a \o b)[j] = IF j <= Len(a) THEN a[j] ELSE b[j - Len(a)]
    BY <1>7, <1>8, ConcatProperties
  <2>2. Len(r) = Len(lista) - 1
    BY <1>4, <1>7, <1>8, <1>9, <2>1
  <2>3. ASSUME NEW j \in 1..Len(r) PROVE r[j] = IF j < i THEN lista[j] ELSE lista[j + 1]
    <3>1. CASE j < i
      BY <1>4, <1>7, <1>9, <2>1, <2>2, <2>3, <3>1
    <3>2. CASE j >= i
      <4>1. j - (i - 1) \in 1..(Len(lista) - i) /\ i + (j - (i - 1)) = j + 1
        BY <1>4, <2>2, <2>3, <3>2
      <4> QED
        BY SMTT(40), <1>4, <1>7, <1>8, <1>9, <2>1, <2>2, <2>3, <3>2, <4>1
    <3> QED
      BY <1>4, <2>2, <3>1, <3>2
  <2> QED
    BY <1>9, <2>1, <2>2, <2>3
<1>11. Quitada(r, lista, i)
  BY <1>4, <1>10 DEF Quitada
<1> QED
  BY <1>4, <1>5, <1>6, <1>9, <1>11

(* ... from READY to EXECUTE...                                             *)
LEMMA CambiarDesdeReady ==
    ASSUME TypeOK, NEW p \in Procs, estado[p] = "READY", Esta(p, ready),
           CambiarEstado(p, "EXECUTE")
    PROVE  /\ estado' = [estado EXCEPT ![p] = "EXECUTE"]
           /\ crono' \in Cronos
           /\ \A q \in Procs : estimada'[q] = estimada[q]
           /\ \E i : Quitada(ready', ready, i) /\ ready[i] = p
<1>1. ~DejaCpu(p)
  BY DEF DejaCpu
<1>2. /\ estimada' = [estimada EXCEPT ![p] = estimada[p]]
      /\ crono' = [crono EXCEPT ![p] = crono[p]]
      /\ ready' = Quitar(p, ready)
      /\ estado' = [estado EXCEPT ![p] = "EXECUTE"]
  BY <1>1 DEF CambiarEstado
<1>3. ready \in Seq(Procs) /\ crono \in Cronos /\ estimada \in [Procs -> Nat]
  BY DEF TypeOK, Cronos
<1>4. PICK i : Quitada(Quitar(p, ready), ready, i) /\ ready[i] = p
  BY <1>3, QuitarQuita
<1> QED
  BY <1>2, <1>3, <1>4 DEF Cronos

(* ... and from EXECUTE to the states whose lists nobody uses.              *)
LEMMA CambiarDesdeExecute ==
    ASSUME TypeOK, NEW p \in Procs, estado[p] = "EXECUTE", NEW e, e # "READY",
           CambiarEstado(p, e)
    PROVE  /\ estado' = [estado EXCEPT ![p] = e]
           /\ crono' \in Cronos
           /\ \A q \in Procs \ {p} : estimada'[q] = estimada[q]
           /\ ready' = ready
<1>1. PICK nueva :
        /\ estimada' = [estimada EXCEPT ![p] = nueva]
        /\ crono' = [crono EXCEPT ![p] = IF DejaCpu(p) THEN Liberado ELSE @]
        /\ ready' = ready
        /\ estado' = [estado EXCEPT ![p] = e]
  BY DEF CambiarEstado
<1>2. crono \in Cronos /\ estimada \in [Procs -> Nat]
  BY DEF TypeOK, Cronos
<1> QED
  BY <1>1, <1>2 DEF Cronos
-----------------------------------------------------------------------------
(* Threads and the CPU.                                                     *)
LEMMA HilosDistintos ==
    ASSUME SolaCpu
    PROVE  /\ Cpus = {LaCpu}
           /\ DOMAIN OrdenCpus = {1}
           /\ Main \in Hilos /\ Cpu(LaCpu) \in Hilos /\ \A p \in Procs : Io(p) \in Hilos
           /\ Main # Cpu(LaCpu)
           /\ \A p \in Procs : Main # Io(p) /\ Cpu(LaCpu) # Io(p)
           /\ \A p, q \in Procs : Io(p) = Io(q) => p = q
<1>1. DOMAIN OrdenCpus = {1}
  BY DEF SolaCpu
<1>2. Cpus = {LaCpu}
  BY <1>1 DEF Cpus, LaCpu
<1> QED
  BY <1>1, <1>2 DEF Hilos, Main, Cpu, Io

LEMMA PrimeraLaCpu ==
    ASSUME SolaCpu, NEW cs, LaCpu \in cs
    PROVE  Primera(cs) = LaCpu
<1>1. { i \in DOMAIN OrdenCpus : OrdenCpus[i] \in cs } = {1}
  BY HilosDistintos DEF LaCpu
<1>2. PrimeroDe({1}) = 1
  BY PrimeroDeMinimo
<1> QED
  BY <1>1, <1>2 DEF Primera, LaCpu

(* What a step does to the stacks: the thread h goes on with s.             *)
SiguePila(h, s) ==
    /\ pila' \in [Hilos -> Seq(Tarea)]
    /\ Formas'
    /\ pila'[h] = s
    /\ \A k \in Hilos \ {h} : pila'[k] = pila[k]

LEMMA PilaSigue ==
    ASSUME TypeOK, Formas, NEW h \in Hilos, NEW s, Forma(s), pila' = [pila EXCEPT ![h] = s]
    PROVE  SiguePila(h, s)
<1>1. pila \in [Hilos -> Seq(Tarea)]
  BY DEF TypeOK, Tarea
<1>2. s \in Seq(Tarea)
  BY FormaTipo
<1>3. pila' \in [Hilos -> Seq(Tarea)]
  BY <1>1, <1>2
<1>4. pila'[h] = s /\ \A k \in Hilos \ {h} : pila'[k] = pila[k]
  BY <1>1
<1>5. Formas'
  BY <1>4 DEF Formas
<1> QED
  BY <1>3, <1>4, <1>5 DEF SiguePila

(* The thread h ends a task about p...                                      *)
Sale(h, o, p) ==
    /\ o \in Movimientos
    /\ SoloTiene(pila[h], o, p)
    /\ SinProceso(pila'[h])
    /\ MismoServicio(pila[h], pila'[h])
    /\ pila' \in [Hilos -> Seq(Tarea)]
    /\ Formas'
    /\ \A k \in Hilos \ {h} : pila'[k] = pila[k]

(* ... or goes on with another one.                                         *)
Pasa(h, o, r, p) ==
    /\ o \in Movimientos
    /\ SoloTiene(pila[h], o, p)
    /\ SoloTiene(pila'[h], r, p)
    /\ MismoServicio(pila[h], pila'[h])
    /\ pila' \in [Hilos -> Seq(Tarea)]
    /\ Formas'
    /\ \A k \in Hilos \ {h} : pila'[k] = pila[k]

LEMMA PilaSale ==
    ASSUME TypeOK, Formas, NEW h \in Hilos, NEW o, NEW p \in Procs, Toca(h, o, p),
           Sigue(h, <<>>)
    PROVE  Sale(h, o, p)
<1>1. PICK s, u : s = pila[h] /\ u = <<>> \o Tail(s)
  OBVIOUS
<1>2. Forma(s) /\ s # <<>> /\ Head(s) = Por(o, p)
  BY <1>1 DEF Formas, Toca
<1>3. /\ o \in Movimientos /\ SoloTiene(s, o, p)
      /\ Forma(u) /\ SinProceso(u) /\ MismoServicio(s, u)
  BY <1>1, <1>2, ProcesoSale
<1>4. pila' = [pila EXCEPT ![h] = u]
  BY <1>1 DEF Sigue
<1>5. SiguePila(h, u)
  BY <1>3, <1>4, PilaSigue
<1> QED
  BY <1>1, <1>3, <1>5 DEF Sale, SiguePila

LEMMA PilaPasa ==
    ASSUME TypeOK, Formas, NEW h \in Hilos, NEW o, NEW p \in Procs, Toca(h, o, p),
           NEW r \in Movimientos, Sigue(h, <<Por(r, p)>>)
    PROVE  Pasa(h, o, r, p)
<1>1. PICK s, u : s = pila[h] /\ u = <<Por(r, p)>> \o Tail(s)
  OBVIOUS
<1>2. Forma(s) /\ s # <<>> /\ Head(s) = Por(o, p)
  BY <1>1 DEF Formas, Toca
<1>3. /\ o \in Movimientos /\ SoloTiene(s, o, p)
      /\ Forma(u) /\ SoloTiene(u, r, p) /\ MismoServicio(s, u)
  BY <1>1, <1>2, ProcesoSigue
<1>4. pila' = [pila EXCEPT ![h] = u]
  BY <1>1 DEF Sigue
<1>5. SiguePila(h, u)
  BY <1>3, <1>4, PilaSigue
<1> QED
  BY <1>1, <1>3, <1>5 DEF Pasa, SiguePila
-----------------------------------------------------------------------------
(* Facts that the steps share.                                              *)
LEMMA ServicioSigue ==
    ASSUME SoloLaCpu, NEW h \in Hilos, NEW o, NEW p \in Procs,
           Sale(h, o, p) \/ \E r : Pasa(h, o, r, p)
    PROVE  SoloLaCpu'
BY DEF SoloLaCpu, Sale, Pasa, MismoServicio, Servicio

(* The types that a step about a process has to account for.                *)
LEMMA TiposSiguen ==
    ASSUME TypeOK, IInvCortoPlazo', UNCHANGED <<fijas, interrupt, pc>>,
           pila' \in [Hilos -> Seq(Tarea)], crono' \in Cronos,
           estado' \in [Procs -> {"NO_CREADO", "NEW", "READY", "EXECUTE", "BLOCKED", "EXIT",
                                  "ELIMINADO"}],
           ready' \in Seq(Procs), cpuPid' \in [Cpus -> Procs \cup {Nadie}],
           contexto' \in [Cpus -> Seq(Procs)],
           mensajes' = mensajes, enIO' \in SUBSET Procs, trabado' \in SUBSET Procs,
           mTraer' \in BOOLEAN, caido' \in BOOLEAN, colado' \in SUBSET Cpus,
           desalojo' \in [hilo : Hilos \cup {Nadie}, cpu : Cpus \cup {Nadie},
                          victima : Procs \cup {Nadie}]
    PROVE  TypeOK'
BY DEF TypeOK, Tarea, Cronos, IInvCortoPlazo, Contadores, fijas

LEMMA GuionTipo ==
    ASSUME TypeOK
    PROVE  /\ guion \in Guiones
           /\ \A p \in Procs : /\ guion[p] \in Seq(Instrucciones)
                               /\ pc[p] \in Nat
                               /\ \A i \in DOMAIN guion[p] : guion[p][i].pid \in Procs
<1>1. guion \in Guiones /\ guion \in [Procs -> Seq(Instrucciones)] /\ pc \in [Procs -> Nat]
  BY GuionesAssumption DEF TypeOK
<1>2. ASSUME NEW p \in Procs, NEW i \in DOMAIN guion[p] PROVE guion[p][i] \in Instrucciones
  BY <1>1, <1>2
<1>3. \A x \in Instrucciones : x.pid \in Procs
  BY DEF Instrucciones
<1> QED
  BY <1>1, <1>2, <1>3

LEMMA ReadyMantiene ==
    ASSUME SolaCpu, IInvUnaCpu, IInvCortoPlazo', NEW h \in Hilos, NEW p \in Procs, Ready(h, p)
    PROVE  IInvUnaCpu'
<1> USE DEF IInvUnaCpu
<1>1. Pasa(h, "READY", "READY_CPU", p)
  <2>1. "READY_CPU" \in Movimientos
    BY DEF Movimientos, Ops, Servicio
  <2> QED
    BY <2>1, PilaPasa DEF Ready
<1>2. Hay(pila[h], "READY", p)
  BY <1>1 DEF Pasa, SoloTiene
<1>3. estado[p] \in {"NEW", "EXECUTE", "BLOCKED"} /\ estado[p] # "READY"
  BY <1>2 DEF TareasAlDia, TareaAlDia
<1>4. /\ estado' = [estado EXCEPT ![p] = "READY"]
      /\ crono' \in Cronos
      /\ \A q \in Procs \ {p} : estimada'[q] = estimada[q]
      /\ \E i : /\ Insertada(ready', ready, i, p)
                /\ Sjf => EnSuSitio(estimada'[p], i)
  BY <1>3, CambiarAReady DEF Ready
<1>5. /\ trabado' = trabado \cup {p} /\ p \notin trabado
      /\ UNCHANGED <<fijas, cpuVars, redVars, mTraer, desalojo, caido>>
  BY DEF Ready
<1>6. estado'[p] = "READY" /\ \A q \in Procs \ {p} : estado'[q] = estado[q]
  BY <1>4 DEF TypeOK
<1>7. Mensajes' = Mensajes /\ Contexto' = Contexto /\ cpuPid' = cpuPid /\ enIO' = enIO
  BY <1>5 DEF Mensajes, Contexto, redVars, cpuVars
<1>8. TypeOK'
  <2>1. ready' \in Seq(Procs)
    BY <1>4 DEF Insertada
  <2> QED
    BY <1>1, <1>4, <1>5, <2>1, TiposSiguen DEF Pasa, TypeOK, cpuVars, redVars
<1>9. Formas'
  BY <1>1 DEF Pasa
<1>10. SoloLaCpu'
  BY <1>1, ServicioSigue
<1>11. ReadyExacta'
  <2>1. ready \in Seq(Procs) /\ SinRepetir(ready) /\ ~Esta(p, ready)
    BY <1>3 DEF TypeOK, ReadyExacta
  <2>2. PICK i : Insertada(ready', ready, i, p)
    BY <1>4
  <2>3. SinRepetir(ready') /\ \A q : Esta(q, ready') <=> Esta(q, ready) \/ q = p
    BY <2>1, <2>2, InsertadaExacta
  <2> QED
    BY <1>6, <2>3 DEF ReadyExacta
<1>12. TareasAlDia'
  <2> SUFFICES ASSUME NEW k \in Hilos, NEW q \in Procs PROVE TareaAlDia(k, q)'
    BY DEF TareasAlDia
  <2>1. TareaAlDia(k, q) /\ TareaAlDia(h, p)
    BY DEF TareasAlDia
  <2> QED
    BY <2>1, <1>1, <1>2, <1>3, <1>5, <1>6, <1>7, HilosDistintos
    DEF TareaAlDia, Traba, Pasa, SoloTiene, Parados, Parado
<1>13. UnaTraba'
  BY SMTT(40), <1>1, <1>3, <1>5 DEF UnaTraba, Traba, Pasa, SoloTiene, TareasAlDia, TareaAlDia
<1>14. Parados'
  <2> SUFFICES ASSUME NEW q \in Procs, Parado(q)', estado'[q] = "EXECUTE"
               PROVE  /\ ~Esta(q, Contexto)
                      /\ ~Habla(q)
                      /\ \A k \in Hilos : ~Hay(pila'[k], "ENVIAR", q)
    BY <1>7 DEF Parados, Habla
  <2>1. q # p /\ estado[q] = "EXECUTE" /\ Parado(q)
    BY <1>1, <1>6, HilosDistintos DEF Parado, Pasa, SoloTiene
  <2> QED
    BY <2>1, <1>1 DEF Parados, Pasa, SoloTiene
<1>15. UnOcupante'
  BY <1>1, <1>7 DEF UnOcupante, Ocupa, Despacha, Libera, Pasa, SoloTiene, MismoServicio
<1>16. Despierta'
  BY <1>1 DEF Despierta, Pasa, SoloTiene
<1>17. LugaresAlDia'
  <2> SUFFICES ASSUME NEW q \in Procs PROVE LugarAlDia(q)'
    BY DEF LugaresAlDia
  <2>1. LugarAlDia(q) /\ TareaAlDia(h, p)
    BY DEF LugaresAlDia, TareasAlDia
  <2> QED
    BY ZenonT(60), <2>1, <1>1, <1>2, <1>3, <1>6, <1>7, HilosDistintos
    DEF LugarAlDia, TareaAlDia, Pasa, SoloTiene, Parados, Parado, Habla
<1>18. PorCrear'
  BY <1>3, <1>5, <1>6, <1>7, GuionTipo, PrimeroAssumption DEF PorCrear, Habla, fijas, redVars
<1>19. DesalojoAlDia'
  BY <1>1, <1>5 DEF DesalojoAlDia, Pasa, SoloTiene
<1> QED
  BY <1>8, <1>9, <1>10, <1>11, <1>12, <1>13, <1>14, <1>15, <1>16, <1>17, <1>18, <1>19

(* Tasks that move no process and give no CPU.                              *)
Consultas == {"READY_PRIMERO", "DESALOJAR", "MIRAR_CPU", "COMPARAR"}

IInvSinDesalojo ==
    /\ Formas
    /\ SoloLaCpu
    /\ ReadyExacta
    /\ TareasAlDia
    /\ UnaTraba
    /\ Parados
    /\ UnOcupante
    /\ Despierta
    /\ LugaresAlDia
    /\ PorCrear

LEMMA ConsultaMantiene ==
    ASSUME SolaCpu, IInvUnaCpu, NEW h \in Hilos, NEW p \in Procs,
           NEW o \in Consultas \cup {"READY_CPU"},
           \/ Sale(h, o, p)
           \/ \E r \in Consultas : /\ Pasa(h, o, r, p)
                                   /\ r = "READY_PRIMERO" => o = "READY_CPU" /\ p \in trabado',
           o = "READY_CPU" => cpuPid[LaCpu] # Nadie,
           trabado' = trabado \/ (trabado' = trabado \ {p} /\ o \in {"READY_CPU", "READY_PRIMERO"}),
           UNCHANGED <<fijas, estado, ready, cpuPid, contexto, pc, mensajes, enIO>>
    PROVE  IInvSinDesalojo'
<1> USE DEF IInvUnaCpu
<1>1. /\ SoloTiene(pila[h], o, p)
      /\ MismoServicio(pila[h], pila'[h])
      /\ \A k \in Hilos \ {h} : pila'[k] = pila[k]
      /\ Formas'
  BY DEF Sale, Pasa
<1>2. /\ \A x : \A q \in Procs : Hay(pila'[h], x, q) => x \in Consultas /\ q = p
      /\ Hay(pila'[h], "READY_PRIMERO", p) => o = "READY_CPU" /\ p \in trabado'
  BY DEF Sale, Pasa, SoloTiene, SinProceso
<1>3. Mensajes' = Mensajes /\ Contexto' = Contexto
  BY DEF Mensajes, Contexto
<1>4. \A k \in Hilos : \A q \in Procs : \A x \in Movimientos \ (Consultas \cup {"READY_CPU"}) :
          Hay(pila'[k], x, q) <=> Hay(pila[k], x, q)
  BY <1>1, <1>2 DEF SoloTiene
<1>5. \A k \in Hilos : \A x : Hay(pila'[k], x, Nadie) <=> Hay(pila[k], x, Nadie)
  BY <1>1 DEF MismoServicio
<1>6. /\ {"READY", "EXECUTE", "ENVIAR", "BLOCKED", "EXIT", "ELIMINAR"}
            \subseteq Movimientos \ (Consultas \cup {"READY_CPU"})
  BY DEF Movimientos, Ops, Servicio, Consultas
<1>7. \A k \in Hilos : \A q \in Procs :
          /\ Hay(pila'[k], "READY", q) <=> Hay(pila[k], "READY", q)
          /\ Hay(pila'[k], "EXECUTE", q) <=> Hay(pila[k], "EXECUTE", q)
          /\ Hay(pila'[k], "ENVIAR", q) <=> Hay(pila[k], "ENVIAR", q)
          /\ Hay(pila'[k], "BLOCKED", q) <=> Hay(pila[k], "BLOCKED", q)
          /\ Hay(pila'[k], "EXIT", q) <=> Hay(pila[k], "EXIT", q)
          /\ Hay(pila'[k], "ELIMINAR", q) <=> Hay(pila[k], "ELIMINAR", q)
  BY <1>4, <1>6
<1>8. \A k \in Hilos : \A q \in Procs :
          Traba(pila'[k], q) => Traba(pila[k], q) /\ q \in trabado'
  <2> SUFFICES ASSUME NEW k \in Hilos, NEW q \in Procs, Traba(pila'[k], q)
               PROVE  Traba(pila[k], q) /\ q \in trabado'
    OBVIOUS
  <2>1. CASE k = h
    BY <1>1, <1>2, <2>1 DEF Traba, SoloTiene, Consultas
  <2>2. CASE k # h
    <3>1. Traba(pila[k], q) /\ q \in trabado
      BY <1>1, <2>2 DEF Traba, TareasAlDia, TareaAlDia
    <3>2. ASSUME trabado' # trabado, q = p PROVE FALSE
      <4>1. Traba(pila[h], p)
        BY <1>1, <3>2 DEF Traba, SoloTiene
      <4> QED
        BY <2>2, <3>1, <3>2, <4>1 DEF UnaTraba
    <3> QED
      BY <3>1, <3>2
  <2> QED
    BY <2>1, <2>2
<1>9. SoloLaCpu'
  BY <1>5 DEF SoloLaCpu
<1>10. ReadyExacta'
  BY DEF ReadyExacta
<1>11. TareasAlDia'
  <2> SUFFICES ASSUME NEW k \in Hilos, NEW q \in Procs PROVE TareaAlDia(k, q)'
    BY DEF TareasAlDia
  <2>1. TareaAlDia(k, q)
    BY DEF TareasAlDia
  <2> QED
    BY <2>1, <1>7, <1>8 DEF TareaAlDia
<1>12. UnaTraba'
  BY <1>8 DEF UnaTraba
<1>13. Parados'
  BY <1>3, <1>7, HilosDistintos DEF Parados, Parado, Habla
<1>14. UnOcupante'
  BY <1>3, <1>5, <1>7 DEF UnOcupante, Ocupa, Despacha, Libera
<1>15. Despierta'
  BY <1>1, <1>5, HilosDistintos DEF Despierta, SoloTiene
<1>16. LugaresAlDia'
  <2> SUFFICES ASSUME NEW q \in Procs PROVE LugarAlDia(q)'
    BY DEF LugaresAlDia
  <2>1. LugarAlDia(q)
    BY DEF LugaresAlDia
  <2> QED
    BY <2>1, <1>3, <1>7, HilosDistintos DEF LugarAlDia, Parado, Habla
<1>17. PorCrear'
  BY <1>3 DEF PorCrear, Habla, fijas
<1> QED
  BY <1>1, <1>9, <1>10, <1>11, <1>12, <1>13, <1>14, <1>15, <1>16, <1>17 DEF IInvSinDesalojo

LEMMA LaDisponible ==
    ASSUME SolaCpu
    PROVE  CpusDisponibles = IF cpuPid[LaCpu] = Nadie THEN {LaCpu} ELSE {}
BY HilosDistintos DEF CpusDisponibles

LEMMA ReservarLaCpu ==
    ASSUME SolaCpu, TypeOK, cpuPid[LaCpu] = Nadie, NEW p \in Procs, Reservar(p)
    PROVE  /\ cpuPid' = [cpuPid EXCEPT ![LaCpu] = p]
           /\ cpuPid'[LaCpu] = p
           /\ cpuPid' \in [Cpus -> Procs \cup {Nadie}]
           /\ colado' \in SUBSET Cpus
<1>1. Primera(CpusDisponibles) = LaCpu
  BY LaDisponible, PrimeraLaCpu
<1>2. cpuPid' = [cpuPid EXCEPT ![LaCpu] = p] /\ colado' \in {colado \ {LaCpu}, colado \cup {LaCpu}}
  BY <1>1 DEF Reservar
<1>3. LaCpu \in Cpus /\ cpuPid \in [Cpus -> Procs \cup {Nadie}] /\ colado \in SUBSET Cpus
  BY HilosDistintos DEF TypeOK
<1> QED
  BY <1>2, <1>3

LEMMA ElegibleLaCpu ==
    ASSUME SolaCpu, TypeOK
    PROVE  CpusElegibles = {LaCpu}
<1>1. ~(Len(OrdenCpus) > 1)
  BY DEF SolaCpu
<1>2. CASE CpusDisponibles # {}
  <2>1. LaCpu \in CpusDisponibles
    BY <1>2, LaDisponible
  <2>2. Primera(CpusDisponibles) = LaCpu
    BY <2>1, PrimeraLaCpu
  <2> QED
    BY <1>1, <1>2, <2>2 DEF CpusElegibles
<1>3. CASE CpusDisponibles = {}
  <2>1. cpuPid[LaCpu] \in Procs /\ estimada[cpuPid[LaCpu]] \in Nat
    BY <1>3, LaDisponible, HilosDistintos DEF TypeOK
  <2>2. LaCpu \in { c \in Cpus : \A d \in Cpus : estimada[cpuPid[d]] <= estimada[cpuPid[c]] }
    BY <2>1, HilosDistintos
  <2>3. MayorRafaga = LaCpu
    BY <2>2, PrimeraLaCpu DEF MayorRafaga
  <2> QED
    BY <1>1, <1>3, <2>3 DEF CpusElegibles
<1> QED
  BY <1>2, <1>3

LEMMA ReadyPrimeroMantiene ==
    ASSUME SolaCpu, IInvUnaCpu, IInvCortoPlazo', NEW h \in Hilos, NEW p \in Procs,
           ReadyPrimero(h, p)
    PROVE  IInvUnaCpu'
<1> USE DEF IInvUnaCpu
<1>1. /\ trabado' = trabado \ {p}
      /\ UNCHANGED <<fijas, planVars, cpuVars, redVars, mTraer, desalojo, caido>>
  BY DEF ReadyPrimero
<1>2. Sale(h, "READY_PRIMERO", p) \/ Pasa(h, "READY_PRIMERO", "DESALOJAR", p)
  <2>1. "DESALOJAR" \in Movimientos
    BY DEF Movimientos, Ops, Servicio
  <2> QED
    BY <2>1, PilaSale, PilaPasa DEF ReadyPrimero
<1>3. IInvSinDesalojo'
  BY <1>1, <1>2, ConsultaMantiene DEF Consultas, planVars, cpuVars, redVars
<1>4. TypeOK'
  BY <1>1, <1>2, TiposSiguen DEF Sale, Pasa, TypeOK, Cronos, planVars, cpuVars, redVars
<1>5. DesalojoAlDia'
  BY <1>1, <1>2 DEF DesalojoAlDia, Sale, Pasa, SinProceso, SoloTiene
<1> QED
  BY <1>3, <1>4, <1>5 DEF IInvSinDesalojo

LEMMA DesalojarMantiene ==
    ASSUME SolaCpu, IInvUnaCpu, IInvCortoPlazo', NEW h \in Hilos, NEW p \in Procs,
           Desalojar(h, p)
    PROVE  IInvUnaCpu'
<1> USE DEF IInvUnaCpu
<1>1. UNCHANGED <<fijas, planVars, cpuVars, redVars, trabado, mTraer, caido>>
  BY DEF Desalojar
<1>2. LaCpu \in Cpus /\ LaCpu # Nadie
  BY HilosDistintos, NadieAssumption
<1>3. /\ desalojo.hilo = Nadie
      /\ desalojo' = [hilo |-> h, cpu |-> LaCpu, victima |-> Nadie]
      /\ Sigue(h, <<Por("MIRAR_CPU", p)>>)
  BY <1>2, ElegibleLaCpu DEF Desalojar
<1>4. Pasa(h, "DESALOJAR", "MIRAR_CPU", p)
  <2>1. "MIRAR_CPU" \in Movimientos
    BY DEF Movimientos, Ops, Servicio
  <2> QED
    BY <1>3, <2>1, PilaPasa DEF Desalojar
<1>5. IInvSinDesalojo'
  BY <1>1, <1>4, ConsultaMantiene DEF Consultas, planVars, cpuVars, redVars
<1>6. TypeOK'
  <2>1. desalojo' \in [hilo : Hilos \cup {Nadie}, cpu : Cpus \cup {Nadie},
                       victima : Procs \cup {Nadie}]
    BY <1>2, <1>3
  <2> QED
    BY <1>1, <1>4, <2>1, TiposSiguen DEF Pasa, TypeOK, Cronos, planVars, cpuVars, redVars
<1>7. DesalojoAlDia'
  <2>1. \A k \in Hilos, q \in Procs : ~Hay(pila[k], "MIRAR_CPU", q) /\ ~Hay(pila[k], "COMPARAR", q)
    BY <1>3, HilosAssumption DEF DesalojoAlDia
  <2>2. desalojo'.hilo = h /\ desalojo'.cpu \in Cpus
    BY <1>2, <1>3
  <2> QED
    BY <1>4, <2>1, <2>2 DEF DesalojoAlDia, Pasa, SoloTiene
<1> QED
  BY <1>5, <1>6, <1>7 DEF IInvSinDesalojo

LEMMA MirarCpuMantiene ==
    ASSUME SolaCpu, IInvUnaCpu, IInvCortoPlazo', NEW h \in Hilos, NEW p \in Procs,
           MirarCpu(h, p)
    PROVE  IInvUnaCpu'
<1> USE DEF IInvUnaCpu
<1>1. UNCHANGED <<fijas, planVars, cpuVars, redVars, trabado, mTraer, caido>>
  BY DEF MirarCpu
<1>2. PICK v : v = cpuPid[desalojo.cpu]
  OBVIOUS
<1>3. Toca(h, "MIRAR_CPU", p)
  BY DEF MirarCpu
<1>4. \/ /\ desalojo' = Sueltos
         /\ Sale(h, "MIRAR_CPU", p)
      \/ /\ v # Nadie
         /\ desalojo' = [desalojo EXCEPT !.victima = v]
         /\ Pasa(h, "MIRAR_CPU", "COMPARAR", p)
  <2>1. "COMPARAR" \in Movimientos
    BY DEF Movimientos, Ops, Servicio
  <2> QED
    BY <1>2, <1>3, <2>1, PilaSale, PilaPasa DEF MirarCpu
<1>5. Hay(pila[h], "MIRAR_CPU", p)
  BY <1>4 DEF Sale, Pasa, SoloTiene
<1>6. /\ desalojo.hilo = h /\ desalojo.cpu \in Cpus
      /\ v \in Procs \cup {Nadie}
      /\ \A k \in Hilos \ {h}, q \in Procs :
            ~Hay(pila[k], "MIRAR_CPU", q) /\ ~Hay(pila[k], "COMPARAR", q)
  BY <1>2, <1>5 DEF DesalojoAlDia, TypeOK
<1>7. IInvSinDesalojo'
  BY <1>1, <1>4, ConsultaMantiene DEF Consultas, planVars, cpuVars, redVars
<1>8. desalojo' \in [hilo : Hilos \cup {Nadie}, cpu : Cpus \cup {Nadie},
                     victima : Procs \cup {Nadie}]
  <2>1. desalojo \in [hilo : Hilos \cup {Nadie}, cpu : Cpus \cup {Nadie},
                      victima : Procs \cup {Nadie}]
    BY DEF TypeOK
  <2>2. Sueltos \in [hilo : Hilos \cup {Nadie}, cpu : Cpus \cup {Nadie},
                     victima : Procs \cup {Nadie}]
    BY DEF Sueltos
  <2> QED
    BY <1>4, <1>6, <2>1, <2>2
<1>9. TypeOK'
  BY <1>1, <1>4, <1>8, TiposSiguen DEF Sale, Pasa, TypeOK, Cronos, planVars, cpuVars, redVars
<1>10. DesalojoAlDia'
  <2>1. ASSUME v # Nadie, desalojo' = [desalojo EXCEPT !.victima = v]
        PROVE  desalojo'.hilo = h /\ desalojo'.cpu \in Cpus /\ desalojo'.victima \in Procs
    BY <1>6, <2>1 DEF TypeOK
  <2>2. CASE Sale(h, "MIRAR_CPU", p)
    BY <1>6, <2>2 DEF DesalojoAlDia, Sale, SinProceso
  <2>3. CASE v # Nadie /\ desalojo' = [desalojo EXCEPT !.victima = v]
             /\ Pasa(h, "MIRAR_CPU", "COMPARAR", p)
    BY <1>6, <2>1, <2>3 DEF DesalojoAlDia, Pasa, SoloTiene
  <2> QED
    BY <1>4, <2>2, <2>3
<1> QED
  BY <1>7, <1>9, <1>10 DEF IInvSinDesalojo

LEMMA CompararMantiene ==
    ASSUME SolaCpu, IInvUnaCpu, IInvCortoPlazo', NEW h \in Hilos, NEW p \in Procs,
           Comparar(h, p)
    PROVE  IInvUnaCpu'
<1> USE DEF IInvUnaCpu
<1>1. /\ desalojo' = Sueltos
      /\ caido' \in BOOLEAN
      /\ UNCHANGED <<fijas, planVars, cpuPid, contexto, pc, mensajes, enIO, trabado, mTraer>>
  BY DEF Comparar
<1>2. Sale(h, "COMPARAR", p)
  BY PilaSale DEF Comparar
<1>3. Hay(pila[h], "COMPARAR", p)
  BY <1>2 DEF Sale, SoloTiene
<1>4. /\ desalojo.cpu \in Cpus
      /\ \A k \in Hilos \ {h}, q \in Procs :
            ~Hay(pila[k], "MIRAR_CPU", q) /\ ~Hay(pila[k], "COMPARAR", q)
  BY <1>3 DEF DesalojoAlDia
<1>5. IInvSinDesalojo'
  BY <1>1, <1>2, ConsultaMantiene DEF Consultas, planVars
<1>6. TypeOK'
  <2>1. interrupt' \in [Cpus -> Seq({"INTERRUPT", "TAMANIO"})]
    <3>1. PICK c : c = desalojo.cpu
      OBVIOUS
    <3>2. interrupt \in [Cpus -> Seq({"INTERRUPT", "TAMANIO"})] /\ c \in Cpus
      BY <1>4, <3>1 DEF TypeOK
    <3>3. interrupt[c] \o <<"INTERRUPT", "TAMANIO">> \in Seq({"INTERRUPT", "TAMANIO"})
      BY <3>2
    <3>4. \/ interrupt' = interrupt
          \/ interrupt' = [interrupt EXCEPT ![c] = interrupt[c] \o <<"INTERRUPT", "TAMANIO">>]
      BY <3>1 DEF Comparar, EnviarInterrupt
    <3> QED
      BY <3>2, <3>3, <3>4
  <2>2. colado' \in SUBSET Cpus
    BY <1>4 DEF Comparar, TypeOK
  <2>3. desalojo' \in [hilo : Hilos \cup {Nadie}, cpu : Cpus \cup {Nadie},
                       victima : Procs \cup {Nadie}]
    BY <1>1 DEF Sueltos
  <2> QED
    BY <1>1, <1>2, <2>1, <2>2, <2>3 DEF TypeOK, Sale, Tarea, planVars, fijas
<1>7. DesalojoAlDia'
  BY <1>2, <1>4 DEF DesalojoAlDia, Sale, SinProceso
<1> QED
  BY <1>5, <1>6, <1>7 DEF IInvSinDesalojo

LEMMA ReadyCpuMantiene ==
    ASSUME SolaCpu, IInvUnaCpu, IInvCortoPlazo', NEW h \in Hilos, NEW p \in Procs,
           ReadyCpu(h, p)
    PROVE  IInvUnaCpu'
<1> USE DEF IInvUnaCpu
<1>1. UNCHANGED <<fijas, planVars, redVars, mTraer, desalojo, caido>>
  BY DEF ReadyCpu
<1>2. Toca(h, "READY_CPU", p) /\ p # Nadie
  BY NadieAssumption DEF ReadyCpu
<1>3. {"READY_PRIMERO", "EXECUTE"} \subseteq Movimientos
  BY DEF Movimientos, Ops, Servicio
<1>4. Mensajes' = Mensajes /\ Contexto' = Contexto
  BY <1>1 DEF Mensajes, Contexto, redVars
<1>5. CASE cpuPid[LaCpu] # Nadie
  <2>1. /\ UNCHANGED cpuVars
        /\ \/ trabado' = trabado \ {p} /\ Sigue(h, <<>>)
           \/ trabado' = trabado /\ Sigue(h, <<Por("READY_PRIMERO", p)>>)
    BY <1>5, LaDisponible DEF ReadyCpu
  <2>2. \/ trabado' = trabado \ {p} /\ Sale(h, "READY_CPU", p)
        \/ trabado' = trabado /\ Pasa(h, "READY_CPU", "READY_PRIMERO", p)
    BY <1>2, <1>3, <2>1, PilaSale, PilaPasa
  <2>3. p \in trabado
    BY <2>2 DEF Sale, Pasa, SoloTiene, TareasAlDia, TareaAlDia, Traba
  <2>4. IInvSinDesalojo'
    BY <1>1, <1>5, <2>1, <2>2, <2>3, ConsultaMantiene DEF Consultas, planVars, cpuVars, redVars
  <2>5. TypeOK'
    BY <1>1, <2>1, <2>2, TiposSiguen DEF Sale, Pasa, TypeOK, Cronos, planVars, cpuVars, redVars
  <2>6. DesalojoAlDia'
    BY <1>1, <2>2 DEF DesalojoAlDia, Sale, Pasa, SinProceso, SoloTiene
  <2> QED
    BY <2>4, <2>5, <2>6 DEF IInvSinDesalojo
<1>6. CASE cpuPid[LaCpu] = Nadie
  <2>1. /\ Reservar(p)
        /\ trabado' = trabado \ {p}
        /\ Sigue(h, <<Por("EXECUTE", p)>>)
    BY <1>6, LaDisponible DEF ReadyCpu
  <2>2. /\ cpuPid'[LaCpu] = p
        /\ cpuPid' \in [Cpus -> Procs \cup {Nadie}]
        /\ colado' \in SUBSET Cpus
    BY <1>6, <2>1, ReservarLaCpu
  <2>3. Pasa(h, "READY_CPU", "EXECUTE", p)
    BY <1>2, <1>3, <2>1, PilaPasa
  <2>4. Traba(pila[h], p)
    BY <2>3 DEF Pasa, SoloTiene, Traba
  <2>5. estado[p] = "READY" /\ p \in trabado
    BY <2>4 DEF TareasAlDia, TareaAlDia
  <2>6. Contexto = <<>> /\ Mensajes = <<>> /\ \A k \in Hilos : ~Ocupa(pila[k])
    BY <1>6 DEF UnOcupante
  <2>7. UNCHANGED <<estado, ready, enIO>>
    BY <1>1 DEF planVars, redVars
  <2>8. TypeOK'
    BY <1>1, <2>1, <2>2, <2>3, TiposSiguen DEF Pasa, TypeOK, Cronos, planVars, redVars
  <2>9. Formas' /\ SoloLaCpu'
    BY <2>3, ServicioSigue DEF Pasa
  <2>10. ReadyExacta'
    BY <2>7 DEF ReadyExacta
  <2>11. TareasAlDia'
    <3> SUFFICES ASSUME NEW k \in Hilos, NEW q \in Procs PROVE TareaAlDia(k, q)'
      BY DEF TareasAlDia
    <3>1. TareaAlDia(k, q)
      BY DEF TareasAlDia
    <3>2. ~Hay(pila[k], "EXECUTE", q) /\ ~Hay(pila[k], "ENVIAR", q)
      BY <2>6 DEF Ocupa, Despacha
    <3>3. k # h => ~Traba(pila[k], p)
      BY <2>4 DEF UnaTraba
    <3> QED
      BY <3>1, <3>2, <3>3, <2>1, <2>2, <2>3, <2>5, <2>7
      DEF TareaAlDia, Traba, Pasa, SoloTiene
  <2>12. UnaTraba'
    BY <2>3 DEF UnaTraba, Traba, Pasa, SoloTiene
  <2>13. Parados'
    <3> SUFFICES ASSUME NEW q \in Procs, Parado(q)', estado[q] = "EXECUTE"
                 PROVE  \A k \in Hilos : ~Hay(pila'[k], "ENVIAR", q)
      BY <1>4, <2>6, <2>7 DEF Parados, Habla, Esta
    <3> QED
      BY <2>3, <2>6 DEF Pasa, SoloTiene, Ocupa, Despacha
  <2>14. UnOcupante'
    <3>1. \A k \in Hilos : Ocupa(pila'[k]) <=> k = h
      BY <2>3, <2>6 DEF Ocupa, Despacha, Libera, Pasa, SoloTiene, MismoServicio
    <3>2. \A k \in Hilos : ~Libera(pila'[k])
      BY <2>3, <2>6 DEF Ocupa, Libera, Pasa, MismoServicio
    <3>3. \A i \in DOMAIN Mensajes' : FALSE
      BY <1>4, <2>6
    <3> QED
      BY <1>2, <1>4, <2>2, <2>6, <3>1, <3>2, <3>3 DEF UnOcupante
  <2>15. Despierta'
    BY <1>2, <2>2 DEF Despierta
  <2>16. LugaresAlDia'
    <3> SUFFICES ASSUME NEW q \in Procs PROVE LugarAlDia(q)'
      BY DEF LugaresAlDia
    <3>1. LugarAlDia(q)
      BY DEF LugaresAlDia
    <3> QED
      BY <3>1, <1>4, <2>3, <2>7, HilosDistintos
      DEF LugarAlDia, Pasa, SoloTiene, Parado, Habla
  <2>17. PorCrear'
    BY <1>1, <1>4, <2>7 DEF PorCrear, Habla, fijas, redVars
  <2>18. DesalojoAlDia'
    BY <1>1, <2>3 DEF DesalojoAlDia, Pasa, SoloTiene
  <2> QED
    BY <2>8, <2>9, <2>10, <2>11, <2>12, <2>13, <2>14, <2>15, <2>16, <2>17, <2>18
<1> QED
  BY <1>5, <1>6

LEMMA ExecuteMantiene ==
    ASSUME SolaCpu, IInvUnaCpu, IInvCortoPlazo', NEW h \in Hilos, NEW p \in Procs,
           Execute(h, p)
    PROVE  IInvUnaCpu'
<1> USE DEF IInvUnaCpu
<1>1. Pasa(h, "EXECUTE", "ENVIAR", p)
  <2>1. "ENVIAR" \in Movimientos
    BY DEF Movimientos, Ops, Servicio
  <2> QED
    BY <2>1, PilaPasa DEF Execute
<1>2. Hay(pila[h], "EXECUTE", p) /\ p # Nadie
  BY <1>1, NadieAssumption DEF Pasa, SoloTiene
<1>3. estado[p] = "READY" /\ cpuPid[LaCpu] = p /\ Esta(p, ready)
  BY <1>2 DEF TareasAlDia, TareaAlDia, ReadyExacta
<1>4. /\ p \notin trabado
      /\ UNCHANGED <<fijas, cpuVars, redVars, trabado, mTraer, desalojo, caido>>
  BY DEF Execute
<1>5. /\ estado' = [estado EXCEPT ![p] = "EXECUTE"]
      /\ crono' \in Cronos
      /\ \A q \in Procs : estimada'[q] = estimada[q]
      /\ \E i : Quitada(ready', ready, i) /\ ready[i] = p
  BY <1>3, CambiarDesdeReady DEF Execute
<1>6. estado'[p] = "EXECUTE" /\ \A q \in Procs \ {p} : estado'[q] = estado[q]
  BY <1>5 DEF TypeOK
<1>7. Mensajes' = Mensajes /\ Contexto' = Contexto /\ cpuPid' = cpuPid /\ enIO' = enIO
  BY <1>4 DEF Mensajes, Contexto, redVars, cpuVars
<1>8. TypeOK'
  <2>1. ready' \in Seq(Procs)
    BY <1>5 DEF Quitada
  <2> QED
    BY <1>1, <1>4, <1>5, <2>1, TiposSiguen DEF Pasa, TypeOK, cpuVars, redVars
<1>9. Formas' /\ SoloLaCpu'
  BY <1>1, ServicioSigue DEF Pasa
<1>10. ReadyExacta'
  <2>1. ready \in Seq(Procs) /\ SinRepetir(ready)
    BY DEF TypeOK, ReadyExacta
  <2>2. PICK i : Quitada(ready', ready, i) /\ ready[i] = p
    BY <1>5
  <2>3. SinRepetir(ready') /\ \A q : Esta(q, ready') <=> Esta(q, ready) /\ q # p
    BY <2>1, <2>2, QuitadaExacta
  <2> QED
    BY <1>6, <2>3 DEF ReadyExacta
<1>11. Ocupa(pila[h]) /\ Despacha(pila[h])
  BY <1>2 DEF Ocupa, Despacha
<1>12. Contexto = <<>> /\ Mensajes = <<>> /\ \A k \in Hilos \ {h} : ~Ocupa(pila[k])
  BY <1>11 DEF UnOcupante
<1>13. TareasAlDia'
  <2> SUFFICES ASSUME NEW k \in Hilos, NEW q \in Procs PROVE TareaAlDia(k, q)'
    BY DEF TareasAlDia
  <2>1. TareaAlDia(k, q)
    BY DEF TareasAlDia
  <2>2. k # h => ~Hay(pila[k], "EXECUTE", q) /\ ~Hay(pila[k], "ENVIAR", q)
    BY <1>12 DEF Ocupa, Despacha
  <2> QED
    BY <2>1, <2>2, <1>1, <1>3, <1>4, <1>6, <1>7 DEF TareaAlDia, Traba, Pasa, SoloTiene
<1>14. UnaTraba'
  BY <1>1 DEF UnaTraba, Traba, Pasa, SoloTiene
<1>15. Parados'
  <2> SUFFICES ASSUME NEW q \in Procs, Parado(q)', estado'[q] = "EXECUTE"
               PROVE  \A k \in Hilos : ~Hay(pila'[k], "ENVIAR", q)
    BY <1>7, <1>12 DEF Parados, Habla, Esta
  <2>1. Parado(q)
    <3>1. Cpu(LaCpu) # h
      BY <1>1 DEF Parado, Pasa, SoloTiene
    <3>2. pila'[Cpu(LaCpu)] = pila[Cpu(LaCpu)]
      BY <1>1, <3>1, HilosDistintos DEF Pasa
    <3> QED
      BY <3>2 DEF Parado
  <2>2. q # p
    BY <2>1, <1>3, HilosDistintos DEF Parado, TareasAlDia, TareaAlDia
  <2> QED
    BY <1>1, <1>12, <2>2 DEF Pasa, SoloTiene, Ocupa, Despacha
<1>16. UnOcupante'
  <2>1. \A k \in Hilos : Ocupa(pila'[k]) <=> k = h
    BY <1>1, <1>12 DEF Ocupa, Despacha, Pasa, SoloTiene
  <2>2. \A k \in Hilos : ~Libera(pila'[k])
    BY <1>1, <1>11, <1>12 DEF UnOcupante, Ocupa, Libera, Pasa, MismoServicio
  <2>3. \A i \in DOMAIN Mensajes' : FALSE
    BY <1>7, <1>12
  <2> QED
    BY <1>2, <1>3, <1>7, <1>12, <2>1, <2>2, <2>3 DEF UnOcupante
<1>17. Despierta'
  BY <1>2, <1>3, <1>7 DEF Despierta
<1>18. LugaresAlDia'
  <2> SUFFICES ASSUME NEW q \in Procs PROVE LugarAlDia(q)'
    BY DEF LugaresAlDia
  <2>1. LugarAlDia(q)
    BY DEF LugaresAlDia
  <2>2. Hay(pila'[h], "ENVIAR", p)
    BY <1>1 DEF Pasa, SoloTiene
  <2> QED
    BY ZenonT(60), <2>1, <2>2, <1>1, <1>3, <1>6, <1>7, <1>12, HilosDistintos
    DEF LugarAlDia, Pasa, SoloTiene, Parado, Habla, Esta
<1>19. PorCrear'
  BY <1>3, <1>4, <1>6, <1>7, GuionTipo, PrimeroAssumption DEF PorCrear, Habla, fijas, redVars
<1>20. DesalojoAlDia'
  BY <1>1, <1>4 DEF DesalojoAlDia, Pasa, SoloTiene
<1> QED
  BY <1>8, <1>9, <1>10, <1>13, <1>14, <1>15, <1>16, <1>17, <1>18, <1>19, <1>20

LEMMA EnviarMantiene ==
    ASSUME SolaCpu, IInvUnaCpu, IInvCortoPlazo', NEW h \in Hilos, NEW p \in Procs,
           Enviar(h, p)
    PROVE  IInvUnaCpu'
<1> USE DEF IInvUnaCpu
<1>1. Toca(h, "ENVIAR", p)
  BY DEF Enviar
<1>2. Hay(pila[h], "ENVIAR", p) /\ p # Nadie
  <2>1. PICK s : s = pila[h] /\ Forma(s) /\ s # <<>> /\ Head(s) = Por("ENVIAR", p)
    BY <1>1 DEF Toca, Formas
  <2>2. PICK u : u = <<>> \o Tail(s)
    OBVIOUS
  <2>3. SoloTiene(s, "ENVIAR", p)
    BY <2>1, <2>2, ProcesoSale
  <2> QED
    BY <2>1, <2>3, NadieAssumption DEF SoloTiene
<1>3. estado[p] = "EXECUTE" /\ cpuPid[LaCpu] = p
  BY <1>2 DEF TareasAlDia, TareaAlDia
<1>4. LaCpu \in CpusDe(p) /\ Primera(CpusDe(p)) = LaCpu
  BY <1>3, HilosDistintos, PrimeraLaCpu DEF CpusDe
<1>5. /\ contexto' = [contexto EXCEPT ![LaCpu] = Append(@, p)]
      /\ crono' = IF Sjf THEN [crono EXCEPT ![p] = 0] ELSE crono
      /\ Sigue(h, <<>>)
  BY <1>4 DEF Enviar
<1>6. UNCHANGED <<fijas, estado, ready, estimada, ultima, total, cpuVars, pc, mensajes,
                  interrupt, enIO, trabado, mTraer, desalojo, caido>>
  BY DEF Enviar
<1>7. Sale(h, "ENVIAR", p)
  BY <1>1, <1>5, PilaSale
<1>8. Despacha(pila[h]) /\ Ocupa(pila[h])
  BY <1>2 DEF Despacha, Ocupa
<1>9. /\ Contexto = <<>> /\ Mensajes = <<>> /\ ~Libera(pila[h])
      /\ \A k \in Hilos \ {h} : ~Ocupa(pila[k])
  BY <1>8 DEF UnOcupante
<1>10. /\ contexto' \in [Cpus -> Seq(Procs)]
       /\ Len(Contexto') = 1 /\ Contexto' # <<>>
       /\ \A q : Esta(q, Contexto') <=> q = p
  <2>1. LaCpu \in Cpus /\ contexto \in [Cpus -> Seq(Procs)]
    BY HilosDistintos DEF TypeOK
  <2>2. PICK s : s = Append(Contexto, p)
    OBVIOUS
  <2>3. contexto' = [contexto EXCEPT ![LaCpu] = s]
    BY <1>5, <2>2 DEF Contexto
  <2>4. s \in Seq(Procs) /\ Len(s) = 1 /\ DOMAIN s = {1} /\ s[1] = p
    BY <1>9, <2>2
  <2>5. Contexto' = s /\ contexto' \in [Cpus -> Seq(Procs)]
    BY <2>1, <2>3, <2>4 DEF Contexto
  <2>6. s # <<>>
    BY <1>9, <2>2
  <2>7. \A q : Esta(q, s) <=> q = p
    BY <2>4 DEF Esta
  <2> QED
    BY <2>4, <2>5, <2>6, <2>7
<1>11. Mensajes' = Mensajes /\ cpuPid' = cpuPid
  BY <1>6 DEF Mensajes, cpuVars
<1>12. TypeOK'
  <2>1. crono' \in Cronos
    BY <1>5, RafagaAssumption DEF TypeOK, Cronos
  <2> QED
    BY <1>6, <1>7, <1>10, <2>1, TiposSiguen DEF Sale, TypeOK, cpuVars
<1>13. Formas' /\ SoloLaCpu'
  BY <1>7, ServicioSigue DEF Sale
<1>14. ReadyExacta'
  BY <1>6 DEF ReadyExacta
<1>15. \A k \in Hilos : \A x : \A q \in Procs : Hay(pila'[k], x, q) => Hay(pila[k], x, q)
  BY <1>7 DEF Sale, SinProceso
<1>16. TareasAlDia'
  <2> SUFFICES ASSUME NEW k \in Hilos, NEW q \in Procs PROVE TareaAlDia(k, q)'
    BY DEF TareasAlDia
  <2>1. TareaAlDia(k, q)
    BY DEF TareasAlDia
  <2> QED
    BY <2>1, <1>6, <1>11, <1>15 DEF TareaAlDia, Traba
<1>17. UnaTraba'
  BY <1>15 DEF UnaTraba, Traba
<1>18. Parados'
  <2> SUFFICES ASSUME NEW q \in Procs, Parado(q)', estado[q] = "EXECUTE"
               PROVE  /\ q # p
                      /\ \A k \in Hilos : ~Hay(pila'[k], "ENVIAR", q)
    BY <1>6, <1>9, <1>10, <1>11 DEF Parados, Habla
  <2>1. Parado(q)
    BY <1>15, HilosDistintos DEF Parado
  <2> QED
    BY <1>2, <1>15, <2>1 DEF Parados
<1>19. UnOcupante'
  <2>1. \A k \in Hilos : ~Ocupa(pila'[k])
    BY <1>7, <1>9 DEF Ocupa, Despacha, Libera, Sale, SinProceso, MismoServicio
  <2>2. \A i \in DOMAIN Mensajes' : FALSE
    BY <1>9, <1>11
  <2>3. cpuPid'[LaCpu] # Nadie
    BY <1>2, <1>3, <1>11
  <2>4. \A k \in Hilos : ~Despacha(pila'[k])
    BY <2>1 DEF Ocupa
  <2>5. Len(Contexto') <= 1 /\ Contexto' # <<>>
    BY <1>10
  <2> QED
    BY <2>1, <2>2, <2>3, <2>4, <2>5 DEF UnOcupante
<1>20. Despierta'
  BY <1>2, <1>3, <1>11 DEF Despierta
<1>21. LugaresAlDia'
  <2> SUFFICES ASSUME NEW q \in Procs PROVE LugarAlDia(q)'
    BY DEF LugaresAlDia
  <2>1. LugarAlDia(q)
    BY DEF LugaresAlDia
  <2>2. \A k \in Hilos : \A x : x # "ENVIAR" \/ q # p =>
            (Hay(pila'[k], x, q) <=> Hay(pila[k], x, q))
    BY <1>7 DEF Sale, SinProceso, SoloTiene
  <2>3. \A k \in Hilos :
            /\ Hay(pila'[k], "READY", q) <=> Hay(pila[k], "READY", q)
            /\ Hay(pila'[k], "BLOCKED", q) <=> Hay(pila[k], "BLOCKED", q)
            /\ Hay(pila'[k], "EXIT", q) <=> Hay(pila[k], "EXIT", q)
            /\ Hay(pila'[k], "ELIMINAR", q) <=> Hay(pila[k], "ELIMINAR", q)
            /\ q # p => (Hay(pila'[k], "ENVIAR", q) <=> Hay(pila[k], "ENVIAR", q))
    BY <2>2
  <2> QED
    BY <2>1, <2>3, <1>3, <1>6, <1>9, <1>10, <1>11, HilosDistintos
    DEF LugarAlDia, Parado, Habla, Esta
<1>22. PorCrear'
  BY <1>6, <1>11 DEF PorCrear, Habla, fijas
<1>23. DesalojoAlDia'
  BY <1>6, <1>15 DEF DesalojoAlDia
<1> QED
  BY <1>12, <1>13, <1>14, <1>16, <1>17, <1>18, <1>19, <1>20, <1>21, <1>22, <1>23

(* The process that leaves the CPU to be blocked or to end.                 *)
LEMMA ParadoNoEsta ==
    ASSUME SolaCpu, IInvUnaCpu, NEW h \in Hilos, NEW p \in Procs, NEW o \in {"BLOCKED", "EXIT"},
           SoloTiene(pila[h], o, p)
    PROVE  /\ h = Cpu(LaCpu) /\ estado[p] = "EXECUTE"
           /\ ~Esta(p, Contexto) /\ ~Habla(p) /\ p \notin enIO
           /\ \A k \in Hilos \ {h} : \A x \in {"READY", "READY_CPU", "READY_PRIMERO", "EXECUTE",
                                               "ENVIAR", "BLOCKED", "EXIT", "ELIMINAR"} :
                  ~Hay(pila[k], x, p)
<1> USE DEF IInvUnaCpu
<1>1. Hay(pila[h], o, p)
  BY DEF SoloTiene
<1>2. h = Cpu(LaCpu) /\ estado[p] = "EXECUTE"
  BY <1>1 DEF TareasAlDia, TareaAlDia
<1>3. Parado(p)
  BY <1>1, <1>2 DEF Parado
<1>4. /\ ~Esta(p, Contexto) /\ ~Habla(p)
      /\ \A k \in Hilos : ~Hay(pila[k], "ENVIAR", p)
  BY <1>2, <1>3 DEF Parados
<1>5. p \notin enIO
  BY <1>2 DEF LugaresAlDia, LugarAlDia
<1>6. ASSUME NEW k \in Hilos \ {h}
      PROVE  \A x \in {"READY", "READY_CPU", "READY_PRIMERO", "EXECUTE", "BLOCKED", "EXIT",
                       "ELIMINAR"} : ~Hay(pila[k], x, p)
  <2>1. TareaAlDia(k, p)
    BY DEF TareasAlDia
  <2> QED
    BY <2>1, <1>2 DEF TareaAlDia, Traba
<1> QED
  BY <1>2, <1>4, <1>5, <1>6

LEMMA BlockedMantiene ==
    ASSUME SolaCpu, IInvUnaCpu, IInvCortoPlazo', NEW h \in Hilos, NEW p \in Procs,
           Blocked(h, p)
    PROVE  IInvUnaCpu'
<1> USE DEF IInvUnaCpu
<1>1. Sale(h, "BLOCKED", p)
  BY PilaSale DEF Blocked
<1>2. /\ h = Cpu(LaCpu) /\ estado[p] = "EXECUTE"
      /\ ~Esta(p, Contexto) /\ ~Habla(p)
      /\ \A k \in Hilos \ {h} : \A x \in {"READY", "READY_CPU", "READY_PRIMERO", "EXECUTE",
                                          "ENVIAR", "BLOCKED", "EXIT", "ELIMINAR"} :
             ~Hay(pila[k], x, p)
  BY <1>1, ParadoNoEsta DEF Sale
<1>3. /\ estado' = [estado EXCEPT ![p] = "BLOCKED"]
      /\ crono' \in Cronos
      /\ ready' = ready
  BY <1>2, CambiarDesdeExecute DEF Blocked
<1>4. /\ enIO' = enIO \cup {p}
      /\ UNCHANGED <<fijas, cpuVars, contexto, pc, mensajes, interrupt, trabado, mTraer,
                     desalojo, caido>>
  BY DEF Blocked
<1>5. estado'[p] = "BLOCKED" /\ \A q \in Procs \ {p} : estado'[q] = estado[q]
  BY <1>3 DEF TypeOK
<1>6. Mensajes' = Mensajes /\ Contexto' = Contexto /\ cpuPid' = cpuPid
  BY <1>4 DEF Mensajes, Contexto, cpuVars
<1>7. /\ \A x : \A q \in Procs : ~Hay(pila'[h], x, q)
      /\ \A x : \A q \in Procs : Hay(pila[h], x, q) => x = "BLOCKED" /\ q = p
      /\ \A k \in Hilos \ {h} : pila'[k] = pila[k]
      /\ \A x : Hay(pila'[h], x, Nadie) <=> Hay(pila[h], x, Nadie)
  BY <1>1 DEF Sale, SinProceso, SoloTiene, MismoServicio
<1>8. TypeOK'
  BY <1>1, <1>3, <1>4, TiposSiguen DEF Sale, TypeOK, cpuVars
<1>9. Formas' /\ SoloLaCpu'
  BY <1>1, ServicioSigue DEF Sale
<1>10. ReadyExacta'
  BY <1>2, <1>3, <1>5 DEF ReadyExacta
<1>11. TareasAlDia'
  <2> SUFFICES ASSUME NEW k \in Hilos \ {h}, NEW q \in Procs PROVE TareaAlDia(k, q)'
    BY <1>7 DEF TareasAlDia, TareaAlDia, Traba
  <2>1. TareaAlDia(k, q)
    BY DEF TareasAlDia
  <2>2. CASE q = p
    BY <1>2, <1>7, <2>2 DEF TareaAlDia, Traba
  <2>3. CASE q # p
    BY <2>1, <2>3, <1>4, <1>5, <1>6, <1>7 DEF TareaAlDia, Traba
  <2> QED
    BY <2>2, <2>3
<1>12. UnaTraba'
  BY <1>7 DEF UnaTraba, Traba
<1>13. Parados'
  BY <1>2, <1>7 DEF Parados, Parado
<1>14. UnOcupante'
  BY <1>6, <1>7 DEF UnOcupante, Ocupa, Despacha, Libera
<1>15. Despierta'
  BY <1>2, <1>3, <1>6, <1>7 DEF Despierta
<1>16. LugaresAlDia'
  <2> SUFFICES ASSUME NEW q \in Procs PROVE LugarAlDia(q)'
    BY DEF LugaresAlDia
  <2>1. LugarAlDia(q)
    BY DEF LugaresAlDia
  <2>2. CASE q = p
    BY <1>2, <1>4, <1>5, <1>6, <2>2 DEF LugarAlDia, Habla
  <2>3. CASE q # p
    BY <2>1, <2>3, <1>2, <1>4, <1>5, <1>6, <1>7, HilosDistintos
    DEF LugarAlDia, Parado, Habla
  <2> QED
    BY <2>2, <2>3
<1>17. PorCrear'
  BY <1>2, <1>4, <1>5, <1>6, GuionTipo, PrimeroAssumption DEF PorCrear, Habla, fijas
<1>18. DesalojoAlDia'
  BY <1>4, <1>7 DEF DesalojoAlDia
<1> QED
  BY <1>8, <1>9, <1>10, <1>11, <1>12, <1>13, <1>14, <1>15, <1>16, <1>17, <1>18

LEMMA ExitMantiene ==
    ASSUME SolaCpu, IInvUnaCpu, IInvCortoPlazo', NEW h \in Hilos, NEW p \in Procs,
           Exit(h, p)
    PROVE  IInvUnaCpu'
<1> USE DEF IInvUnaCpu
<1>1. Pasa(h, "EXIT", "ELIMINAR", p)
  <2>1. "ELIMINAR" \in Movimientos
    BY DEF Movimientos, Ops, Servicio
  <2> QED
    BY <2>1, PilaPasa DEF Exit
<1>2. /\ h = Cpu(LaCpu) /\ estado[p] = "EXECUTE"
      /\ ~Esta(p, Contexto) /\ ~Habla(p) /\ p \notin enIO
      /\ \A k \in Hilos \ {h} : \A x \in {"READY", "READY_CPU", "READY_PRIMERO", "EXECUTE",
                                          "ENVIAR", "BLOCKED", "EXIT", "ELIMINAR"} :
             ~Hay(pila[k], x, p)
  BY <1>1, ParadoNoEsta DEF Pasa
<1>3. /\ estado' = [estado EXCEPT ![p] = "EXIT"]
      /\ crono' \in Cronos
      /\ ready' = ready
  BY <1>2, CambiarDesdeExecute DEF Exit
<1>4. UNCHANGED <<fijas, cpuVars, redVars, trabado, mTraer, desalojo, caido>>
  BY DEF Exit
<1>5. estado'[p] = "EXIT" /\ \A q \in Procs \ {p} : estado'[q] = estado[q]
  BY <1>3 DEF TypeOK
<1>6. Mensajes' = Mensajes /\ Contexto' = Contexto /\ cpuPid' = cpuPid /\ enIO' = enIO
  BY <1>4 DEF Mensajes, Contexto, cpuVars, redVars
<1>7. /\ \A x : \A q \in Procs : Hay(pila'[h], x, q) <=> x = "ELIMINAR" /\ q = p
      /\ \A x : \A q \in Procs : Hay(pila[h], x, q) => x = "EXIT" /\ q = p
      /\ \A k \in Hilos \ {h} : pila'[k] = pila[k]
      /\ \A x : Hay(pila'[h], x, Nadie) <=> Hay(pila[h], x, Nadie)
  BY <1>1 DEF Pasa, SoloTiene, MismoServicio
<1>8. TypeOK'
  BY <1>1, <1>3, <1>4, TiposSiguen DEF Pasa, TypeOK, cpuVars, redVars
<1>9. Formas' /\ SoloLaCpu'
  BY <1>1, ServicioSigue DEF Pasa
<1>10. ReadyExacta'
  BY <1>2, <1>3, <1>5 DEF ReadyExacta
<1>11. TareasAlDia'
  <2> SUFFICES ASSUME NEW k \in Hilos, NEW q \in Procs PROVE TareaAlDia(k, q)'
    BY DEF TareasAlDia
  <2>1. TareaAlDia(k, q)
    BY DEF TareasAlDia
  <2>2. CASE k = h
    BY <1>2, <1>5, <1>7, <2>2 DEF TareaAlDia, Traba
  <2>3. CASE k # h /\ q = p
    BY <1>2, <1>7, <2>3 DEF TareaAlDia, Traba
  <2>4. CASE k # h /\ q # p
    BY <2>1, <2>4, <1>4, <1>5, <1>6, <1>7 DEF TareaAlDia, Traba
  <2> QED
    BY <2>2, <2>3, <2>4
<1>12. UnaTraba'
  BY <1>7 DEF UnaTraba, Traba
<1>13. Parados'
  BY <1>2, <1>7 DEF Parados, Parado
<1>14. UnOcupante'
  BY <1>6, <1>7 DEF UnOcupante, Ocupa, Despacha, Libera
<1>15. Despierta'
  BY <1>2, <1>3, <1>6, <1>7 DEF Despierta
<1>16. LugaresAlDia'
  <2> SUFFICES ASSUME NEW q \in Procs PROVE LugarAlDia(q)'
    BY DEF LugaresAlDia
  <2>1. LugarAlDia(q)
    BY DEF LugaresAlDia
  <2>2. CASE q = p
    BY <1>2, <1>5, <1>6, <1>7, <2>2 DEF LugarAlDia, Habla
  <2>3. CASE q # p
    BY <2>1, <2>3, <1>2, <1>5, <1>6, <1>7, HilosDistintos
    DEF LugarAlDia, Parado, Habla
  <2> QED
    BY <2>2, <2>3
<1>17. PorCrear'
  BY <1>2, <1>4, <1>5, <1>6, GuionTipo, PrimeroAssumption DEF PorCrear, Habla, fijas, redVars
<1>18. DesalojoAlDia'
  BY <1>4, <1>7 DEF DesalojoAlDia
<1> QED
  BY <1>8, <1>9, <1>10, <1>11, <1>12, <1>13, <1>14, <1>15, <1>16, <1>17, <1>18

LEMMA EliminarMantiene ==
    ASSUME SolaCpu, IInvUnaCpu, IInvCortoPlazo', NEW h \in Hilos, NEW p \in Procs,
           Eliminar(h, p)
    PROVE  IInvUnaCpu'
<1> USE DEF IInvUnaCpu
<1>1. Sale(h, "ELIMINAR", p)
  BY PilaSale DEF Eliminar
<1>2. Hay(pila[h], "ELIMINAR", p)
  BY <1>1 DEF Sale, SoloTiene
<1>3. h = Cpu(LaCpu) /\ estado[p] = "EXIT"
  BY <1>2 DEF TareasAlDia, TareaAlDia
<1>4. /\ estado' = [estado EXCEPT ![p] = "ELIMINADO"]
      /\ UNCHANGED <<fijas, ready, estimada, ultima, total, crono, cpuVars, redVars, trabado,
                     mTraer, desalojo, caido>>
  BY DEF Eliminar
<1>5. estado'[p] = "ELIMINADO" /\ \A q \in Procs \ {p} : estado'[q] = estado[q]
  BY <1>4 DEF TypeOK
<1>6. Mensajes' = Mensajes /\ Contexto' = Contexto /\ cpuPid' = cpuPid /\ enIO' = enIO
  BY <1>4 DEF Mensajes, Contexto, cpuVars, redVars
<1>7. /\ \A x : \A q \in Procs : ~Hay(pila'[h], x, q)
      /\ \A x : \A q \in Procs : Hay(pila[h], x, q) => x = "ELIMINAR" /\ q = p
      /\ \A k \in Hilos \ {h} : pila'[k] = pila[k]
      /\ \A x : Hay(pila'[h], x, Nadie) <=> Hay(pila[h], x, Nadie)
  BY <1>1 DEF Sale, SinProceso, SoloTiene, MismoServicio
<1>8. TypeOK'
  BY <1>1, <1>4, TiposSiguen DEF Sale, TypeOK, Cronos, cpuVars, redVars
<1>9. Formas' /\ SoloLaCpu'
  BY <1>1, ServicioSigue DEF Sale
<1>10. ReadyExacta'
  BY <1>3, <1>4, <1>5 DEF ReadyExacta
<1>11. TareasAlDia'
  <2> SUFFICES ASSUME NEW k \in Hilos \ {h}, NEW q \in Procs PROVE TareaAlDia(k, q)'
    BY <1>7 DEF TareasAlDia, TareaAlDia, Traba
  <2>1. TareaAlDia(k, q)
    BY DEF TareasAlDia
  <2> QED
    BY <2>1, <1>3, <1>4, <1>5, <1>6, <1>7 DEF TareaAlDia, Traba
<1>12. UnaTraba'
  BY <1>7 DEF UnaTraba, Traba
<1>13. Parados'
  BY <1>3, <1>7 DEF Parados, Parado
<1>14. UnOcupante'
  BY <1>6, <1>7 DEF UnOcupante, Ocupa, Despacha, Libera
<1>15. Despierta'
  BY <1>3, <1>4, <1>6, <1>7 DEF Despierta
<1>16. LugaresAlDia'
  <2> SUFFICES ASSUME NEW q \in Procs PROVE LugarAlDia(q)'
    BY DEF LugaresAlDia
  <2>1. LugarAlDia(q)
    BY DEF LugaresAlDia
  <2>2. CASE q = p
    BY <2>1, <1>3, <1>5, <1>6, <2>2 DEF LugarAlDia
  <2>3. CASE q # p
    BY <2>1, <2>3, <1>3, <1>5, <1>6, <1>7, HilosDistintos
    DEF LugarAlDia, Parado, Habla
  <2> QED
    BY <2>2, <2>3
<1>17. PorCrear'
  BY <1>3, <1>4, <1>5, <1>6, GuionTipo, PrimeroAssumption DEF PorCrear, Habla, fijas, redVars
<1>18. DesalojoAlDia'
  BY <1>4, <1>7 DEF DesalojoAlDia
<1> QED
  BY <1>8, <1>9, <1>10, <1>11, <1>12, <1>13, <1>14, <1>15, <1>16, <1>17, <1>18

(* Steps of service: no task about a process comes or goes.                 *)
LEMMA LoMismo ==
    ASSUME SolaCpu, IInvUnaCpu,
           \A k \in Hilos : \A x : \A q \in Procs : Hay(pila'[k], x, q) <=> Hay(pila[k], x, q),
           UNCHANGED <<fijas, estado, ready, contexto, pc, mensajes, enIO, trabado, desalojo>>,
           cpuPid' = cpuPid \/ \A k \in Hilos : ~Despacha(pila[k])
    PROVE  /\ ReadyExacta' /\ TareasAlDia' /\ UnaTraba' /\ Parados' /\ LugaresAlDia'
           /\ PorCrear' /\ DesalojoAlDia'
<1> USE DEF IInvUnaCpu
<1>1. Mensajes' = Mensajes /\ Contexto' = Contexto
  BY DEF Mensajes, Contexto
<1>2. ReadyExacta'
  BY DEF ReadyExacta
<1>3. TareasAlDia'
  <2> SUFFICES ASSUME NEW k \in Hilos, NEW q \in Procs PROVE TareaAlDia(k, q)'
    BY DEF TareasAlDia
  <2>1. TareaAlDia(k, q)
    BY DEF TareasAlDia
  <2> QED
    BY <2>1 DEF TareaAlDia, Traba, Despacha
<1>4. UnaTraba'
  BY DEF UnaTraba, Traba
<1>5. Parados'
  BY <1>1, HilosDistintos DEF Parados, Parado, Habla
<1>6. LugaresAlDia'
  <2> SUFFICES ASSUME NEW q \in Procs PROVE LugarAlDia(q)'
    BY DEF LugaresAlDia
  <2>1. LugarAlDia(q)
    BY DEF LugaresAlDia
  <2> QED
    BY <2>1, <1>1, HilosDistintos DEF LugarAlDia, Parado, Habla
<1>7. PorCrear'
  BY <1>1 DEF PorCrear, Habla, fijas
<1>8. DesalojoAlDia'
  BY DEF DesalojoAlDia
<1> QED
  BY <1>2, <1>3, <1>4, <1>5, <1>6, <1>7, <1>8

LEMMA LiberarMantiene ==
    ASSUME SolaCpu, IInvUnaCpu, IInvCortoPlazo', NEW c \in Cpus, Liberar(c)
    PROVE  IInvUnaCpu'
<1> USE DEF IInvUnaCpu
<1>1. c = LaCpu /\ LaCpu \in Cpus
  BY HilosDistintos
<1>2. PICK h \in Hilos : h = Cpu(LaCpu)
  BY HilosDistintos
<1>3. PICK s, u : s = pila[h] /\ u = <<>> \o Tail(s)
  OBVIOUS
<1>4. Forma(s) /\ s # <<>> /\ Head(s) = Por("LIBERAR_CPU", Nadie)
  BY <1>1, <1>2, <1>3 DEF Formas, Liberar, Toca
<1>5. /\ Forma(u)
      /\ Hay(s, "LIBERAR_CPU", Nadie)
      /\ ~Hay(u, "LIBERAR_CPU", Nadie)
      /\ Hay(u, "MANDAR", Nadie)
      /\ \A x : \A q \in Procs : Hay(u, x, q) <=> Hay(s, x, q)
      /\ \A x : Hay(u, x, Nadie) => Hay(s, x, Nadie)
  BY <1>3, <1>4, FormaLiberar
<1>6. SiguePila(h, u)
  <2>1. pila' = [pila EXCEPT ![h] = u]
    BY <1>1, <1>2, <1>3 DEF Liberar, Sigue
  <2> QED
    BY <1>5, <2>1, PilaSigue
<1>7. /\ cpuPid' = [cpuPid EXCEPT ![LaCpu] = Nadie]
      /\ UNCHANGED <<fijas, planVars, colado, redVars, trabado, mTraer, desalojo, caido>>
  BY <1>1 DEF Liberar
<1>8. cpuPid'[LaCpu] = Nadie /\ cpuPid' \in [Cpus -> Procs \cup {Nadie}]
  BY <1>1, <1>7 DEF TypeOK
<1>9. /\ Libera(pila[h]) /\ Ocupa(pila[h])
      /\ ~Libera(pila'[h])
      /\ \A k \in Hilos \ {h} : pila'[k] = pila[k]
  BY <1>3, <1>5, <1>6 DEF Libera, Ocupa, SiguePila
<1>10. /\ Contexto = <<>> /\ Mensajes = <<>> /\ ~Despacha(pila[h])
       /\ \A k \in Hilos \ {h} : ~Ocupa(pila[k])
  BY <1>9 DEF UnOcupante
<1>11. \A k \in Hilos : \A x : \A q \in Procs : Hay(pila'[k], x, q) <=> Hay(pila[k], x, q)
  BY <1>3, <1>5, <1>6 DEF SiguePila
<1>12. /\ ReadyExacta' /\ TareasAlDia' /\ UnaTraba' /\ Parados' /\ LugaresAlDia'
       /\ PorCrear' /\ DesalojoAlDia'
  <2>1. UNCHANGED <<fijas, estado, ready, contexto, pc, mensajes, enIO, trabado, desalojo>>
    BY <1>7 DEF planVars, redVars
  <2>2. \A k \in Hilos : ~Despacha(pila[k])
    BY <1>10 DEF Ocupa
  <2> QED
    BY <1>11, <2>1, <2>2, LoMismo
<1>13. TypeOK'
  BY <1>6, <1>7, <1>8, TiposSiguen DEF SiguePila, TypeOK, Cronos, planVars, redVars
<1>14. Formas'
  BY <1>6 DEF SiguePila
<1>15. SoloLaCpu'
  BY <1>2, <1>9 DEF SoloLaCpu
<1>16. UnOcupante'
  <2>1. \A k \in Hilos : ~Ocupa(pila'[k])
    BY <1>9, <1>10, <1>11 DEF Ocupa, Despacha
  <2>2. \A k \in Hilos : ~Despacha(pila'[k])
    BY <2>1 DEF Ocupa
  <2>3. Mensajes' = <<>> /\ Contexto' = <<>>
    BY <1>7, <1>10 DEF Mensajes, Contexto, redVars
  <2>4. Len(Contexto') <= 1 /\ \A i \in DOMAIN Mensajes' : FALSE
    BY <2>3
  <2> QED
    BY <1>8, <2>1, <2>2, <2>3, <2>4 DEF UnOcupante
<1>17. Despierta'
  BY <1>2, <1>5, <1>6 DEF Despierta, Mandan, SiguePila
<1> QED
  BY <1>12, <1>13, <1>14, <1>15, <1>16, <1>17

(* The only task of a thread that dispatches.                               *)
LEMMA SoloManda ==
    ASSUME IInvUnaCpu, NEW h \in Hilos, NEW o \in Mandan, Toca(h, o, Nadie),
           NEW s \in Seq(Tarea), Forma(s), Sigue(h, s)
    PROVE  /\ h = Cpu(LaCpu)
           /\ \A x, q : Hay(pila[h], x, q) <=> x = o /\ q = Nadie
           /\ SiguePila(h, s)
<1> USE DEF IInvUnaCpu
<1>1. PICK t : t = pila[h]
  OBVIOUS
<1>2. Forma(t) /\ t # <<>> /\ Head(t) = Por(o, Nadie)
  BY <1>1 DEF Formas, Toca
<1>3. t = <<Sola(o)>>
  BY <1>2, FormaMandar
<1>4. \A x, q : Hay(t, x, q) <=> x = o /\ q = Nadie
  BY <1>3, HayEnUna
<1>5. h = Cpu(LaCpu)
  BY <1>1, <1>4 DEF SoloLaCpu, Mandan, Servicio
<1>6. s \o Tail(t) = s
  <2>1. Tail(t) = <<>>
    BY <1>3
  <2> QED
    BY <2>1, ConcatEmptySeq
<1>7. SiguePila(h, s)
  BY <1>1, <1>6, PilaSigue DEF Sigue
<1> QED
  BY <1>1, <1>4, <1>5, <1>7

LEMMA PilasTarea ==
    /\ <<>> \in Seq(Tarea)
    /\ \A o \in Mandan : <<Sola(o)>> \in Seq(Tarea)
    /\ \A p \in Procs : EjecutarYVer(p) \in Seq(Tarea)
BY PilaVacia, PilaDeServicio, PilaDeTomar, FormaTipo

(* A dispatch that takes no process.                                        *)
LEMMA NadieMandado ==
    ASSUME SolaCpu, IInvUnaCpu, IInvCortoPlazo', NEW h \in Hilos,
           NEW o \in Mandan, Toca(h, o, Nadie),
           \/ Sigue(h, <<>>) /\ (cpuPid[LaCpu] # Nadie \/ ready = <<>>)
           \/ \E r \in Mandan : Sigue(h, <<Sola(r)>>),
           UNCHANGED <<fijas, planVars, cpuVars, redVars, trabado, desalojo>>,
           mTraer' \in BOOLEAN, caido' \in BOOLEAN
    PROVE  IInvUnaCpu'
<1> USE DEF IInvUnaCpu
<1>1. PICK s : /\ s \in Seq(Tarea) /\ Forma(s) /\ Sigue(h, s)
               /\ \A x, q : Hay(s, x, q) => q = Nadie /\ x \in Mandan
               /\ \/ cpuPid[LaCpu] # Nadie \/ ready = <<>>
                  \/ \E r \in Mandan : Hay(s, r, Nadie)
  <2>1. CASE Sigue(h, <<>>) /\ (cpuPid[LaCpu] # Nadie \/ ready = <<>>)
    BY <2>1, PilasTarea, PilaVacia
  <2>2. ASSUME NEW r \in Mandan, Sigue(h, <<Sola(r)>>)
        PROVE \E s : /\ s \in Seq(Tarea) /\ Forma(s) /\ Sigue(h, s)
                     /\ \A x, q : Hay(s, x, q) => q = Nadie /\ x \in Mandan
                     /\ \/ cpuPid[LaCpu] # Nadie \/ ready = <<>>
                        \/ \E r_1 \in Mandan : Hay(s, r_1, Nadie)
    <3>1. /\ <<Sola(r)>> \in Seq(Tarea) /\ Forma(<<Sola(r)>>)
          /\ \A x, q : Hay(<<Sola(r)>>, x, q) <=> x = r /\ q = Nadie
      BY PilasTarea, PilaDeServicio
    <3> QED
      BY <2>2, <3>1
  <2> QED
    BY <2>1, <2>2
<1>2. /\ h = Cpu(LaCpu)
      /\ \A x, q : Hay(pila[h], x, q) <=> x = o /\ q = Nadie
      /\ SiguePila(h, s)
  BY <1>1, SoloManda
<1>3. pila'[h] = s /\ \A k \in Hilos \ {h} : pila'[k] = pila[k]
  BY <1>2 DEF SiguePila
<1>4. \A k \in Hilos : \A x : \A q \in Procs : Hay(pila'[k], x, q) <=> Hay(pila[k], x, q)
  BY <1>1, <1>2, <1>3, NadieAssumption
<1>5. /\ ReadyExacta' /\ TareasAlDia' /\ UnaTraba' /\ Parados' /\ LugaresAlDia'
      /\ PorCrear' /\ DesalojoAlDia'
  BY <1>4, LoMismo DEF planVars, redVars, cpuVars
<1>6. TypeOK'
  BY <1>2, TiposSiguen DEF SiguePila, TypeOK, Cronos, planVars, redVars, cpuVars
<1>7. Formas'
  BY <1>2 DEF SiguePila
<1>8. SoloLaCpu'
  BY <1>2, <1>3 DEF SoloLaCpu
<1>9. UnOcupante'
  <2>1. \A k \in Hilos : Despacha(pila'[k]) <=> Despacha(pila[k])
    BY <1>4 DEF Despacha
  <2>2. \A k \in Hilos : Libera(pila'[k]) <=> Libera(pila[k])
    BY <1>1, <1>2, <1>3 DEF Libera, Mandan
  <2>3. Mensajes' = Mensajes /\ Contexto' = Contexto /\ cpuPid' = cpuPid
    BY DEF Mensajes, Contexto, redVars, cpuVars
  <2> QED
    BY <2>1, <2>2, <2>3 DEF UnOcupante, Ocupa
<1>10. Despierta'
  BY <1>1, <1>2, <1>3 DEF Despierta, planVars, cpuVars
<1> QED
  BY <1>5, <1>6, <1>7, <1>8, <1>9, <1>10

LEMMA MandarMantiene ==
    ASSUME SolaCpu, IInvUnaCpu, IInvCortoPlazo', NEW h \in Hilos, Mandar(h)
    PROVE  IInvUnaCpu'
<1>1. caido' \in BOOLEAN /\ mTraer' \in BOOLEAN
  BY DEF Mandar, IInvUnaCpu, TypeOK
<1> QED
  BY <1>1, NadieMandado DEF Mandar, Mandan

LEMMA MandarVerMantiene ==
    ASSUME SolaCpu, IInvUnaCpu, IInvCortoPlazo', NEW h \in Hilos, MandarVer(h)
    PROVE  IInvUnaCpu'
<1>1. caido' \in BOOLEAN /\ mTraer' \in BOOLEAN
  BY DEF MandarVer, IInvUnaCpu, TypeOK
<1> QED
  BY <1>1, NadieMandado DEF MandarVer, Mandan

LEMMA MandarTomarMantiene ==
    ASSUME SolaCpu, IInvUnaCpu, IInvCortoPlazo', NEW h \in Hilos, MandarTomar(h)
    PROVE  IInvUnaCpu'
<1> USE DEF IInvUnaCpu
<1>1. /\ Toca(h, "MANDAR_TOMAR", Nadie)
      /\ UNCHANGED <<fijas, planVars, redVars, trabado, desalojo>>
      /\ caido' \in BOOLEAN /\ mTraer' \in BOOLEAN
  BY DEF MandarTomar
<1>2. CASE ~(cpuPid[LaCpu] = Nadie /\ ready # <<>>)
  <2>1. Sigue(h, <<>>) /\ UNCHANGED cpuVars
    BY <1>2, LaDisponible DEF MandarTomar
  <2> QED
    BY <1>1, <1>2, <2>1, NadieMandado DEF Mandan
<1>3. CASE cpuPid[LaCpu] = Nadie /\ ready # <<>>
  <2>1. PICK p : p = Head(ready)
    OBVIOUS
  <2>2. p \in Procs /\ Esta(p, ready)
    BY <1>3, <2>1 DEF TypeOK, Esta
  <2>3. Reservar(p) /\ Sigue(h, EjecutarYVer(p))
    BY <1>3, <2>1, LaDisponible DEF MandarTomar, EjecutarYVer
  <2>4. /\ cpuPid'[LaCpu] = p /\ p # Nadie
        /\ cpuPid' \in [Cpus -> Procs \cup {Nadie}]
        /\ colado' \in SUBSET Cpus
    BY <1>3, <2>2, <2>3, ReservarLaCpu, NadieAssumption
  <2>5. /\ h = Cpu(LaCpu)
        /\ \A x, q : Hay(pila[h], x, q) <=> x = "MANDAR_TOMAR" /\ q = Nadie
        /\ SiguePila(h, EjecutarYVer(p))
    BY <1>1, <2>2, <2>3, SoloManda, PilasTarea, PilaDeTomar DEF Mandan
  <2>6. /\ \A k \in Hilos \ {h} : pila'[k] = pila[k]
        /\ \A x, q : Hay(pila'[h], x, q) <=>
                         (x = "EXECUTE" /\ q = p) \/ (x = "MANDAR_VER" /\ q = Nadie)
    BY <2>2, <2>5, PilaDeTomar DEF SiguePila
  <2>7. /\ \A x : \A q \in Procs : ~Hay(pila[h], x, q)
        /\ \A x : \A q \in Procs : Hay(pila'[h], x, q) <=> x = "EXECUTE" /\ q = p
    BY <2>5, <2>6, NadieAssumption
  <2>8. estado[p] = "READY"
    BY <2>2 DEF ReadyExacta
  <2>9. Contexto = <<>> /\ Mensajes = <<>> /\ \A k \in Hilos : ~Ocupa(pila[k])
    BY <1>3 DEF UnOcupante
  <2>10. UNCHANGED <<estado, ready, enIO>> /\ Mensajes' = Mensajes /\ Contexto' = Contexto
    BY <1>1 DEF planVars, redVars, Mensajes, Contexto
  <2>11. TypeOK'
    BY <1>1, <2>4, <2>5, TiposSiguen DEF SiguePila, TypeOK, Cronos, planVars, redVars
  <2>12. Formas'
    BY <2>5 DEF SiguePila
  <2>13. SoloLaCpu'
    BY <2>5, <2>6 DEF SoloLaCpu
  <2>14. ReadyExacta'
    BY <2>10 DEF ReadyExacta
  <2>15. TareasAlDia'
    <3> SUFFICES ASSUME NEW k \in Hilos, NEW q \in Procs PROVE TareaAlDia(k, q)'
      BY DEF TareasAlDia
    <3>1. TareaAlDia(k, q)
      BY DEF TareasAlDia
    <3>2. ~Hay(pila[k], "EXECUTE", q) /\ ~Hay(pila[k], "ENVIAR", q)
      BY <2>9 DEF Ocupa, Despacha
    <3> QED
      BY <3>1, <3>2, <1>1, <2>4, <2>6, <2>7, <2>8, <2>10 DEF TareaAlDia, Traba
  <2>16. UnaTraba'
    BY <2>6, <2>7 DEF UnaTraba, Traba
  <2>17. Parados'
    BY <2>5, <2>7 DEF Parados, Parado
  <2>18. UnOcupante'
    <3>1. \A k \in Hilos : Ocupa(pila'[k]) <=> k = h
      BY <2>2, <2>6, <2>9 DEF Ocupa, Despacha, Libera
    <3>2. \A k \in Hilos : ~Libera(pila'[k])
      BY <2>2, <2>6, <2>9 DEF Ocupa, Libera
    <3>3. Len(Contexto') <= 1 /\ \A i \in DOMAIN Mensajes' : FALSE
      BY <2>9, <2>10
    <3> QED
      BY <2>4, <2>9, <2>10, <3>1, <3>2, <3>3 DEF UnOcupante
  <2>19. Despierta'
    BY <2>4 DEF Despierta
  <2>20. LugaresAlDia'
    <3> SUFFICES ASSUME NEW q \in Procs PROVE LugarAlDia(q)'
      BY DEF LugaresAlDia
    <3>1. LugarAlDia(q)
      BY DEF LugaresAlDia
    <3>2. \A k \in Hilos : \A x : x # "EXECUTE" => (Hay(pila'[k], x, q) <=> Hay(pila[k], x, q))
      BY <2>6, <2>7
    <3>3. \A k \in Hilos :
              /\ Hay(pila'[k], "READY", q) <=> Hay(pila[k], "READY", q)
              /\ Hay(pila'[k], "ENVIAR", q) <=> Hay(pila[k], "ENVIAR", q)
              /\ Hay(pila'[k], "BLOCKED", q) <=> Hay(pila[k], "BLOCKED", q)
              /\ Hay(pila'[k], "EXIT", q) <=> Hay(pila[k], "EXIT", q)
              /\ Hay(pila'[k], "ELIMINAR", q) <=> Hay(pila[k], "ELIMINAR", q)
      BY <3>2
    <3> QED
      BY <3>1, <3>3, <2>10, HilosDistintos DEF LugarAlDia, Parado, Habla
  <2>21. PorCrear'
    BY <1>1, <2>10 DEF PorCrear, Habla, fijas, redVars
  <2>22. DesalojoAlDia'
    BY <1>1, <2>6, <2>7 DEF DesalojoAlDia
  <2> QED
    BY <2>11, <2>12, <2>13, <2>14, <2>15, <2>16, <2>17, <2>18, <2>19, <2>20, <2>21, <2>22
<1> QED
  BY <1>2, <1>3

LEMMA FinDeIOMantiene ==
    ASSUME SolaCpu, IInvUnaCpu, IInvCortoPlazo', NEW p \in Procs, FinDeIO(p)
    PROVE  IInvUnaCpu'
<1> USE DEF IInvUnaCpu
<1>1. PICK h \in Hilos : h = Io(p)
  BY HilosDistintos
<1>2. /\ p \in enIO /\ enIO' = enIO \ {p}
      /\ UNCHANGED <<fijas, planVars, cpuVars, contexto, pc, mensajes, interrupt, trabado,
                     mTraer, desalojo, caido>>
  BY DEF FinDeIO
<1>3. estado[p] = "BLOCKED"
  BY <1>2 DEF LugaresAlDia, LugarAlDia
<1>4. \A x, q : ~Hay(pila[h], x, q)
  <2>1. PICK s : s = pila[h]
    OBVIOUS
  <2>2. s = <<>>
    BY <1>1, <2>1 DEF FinDeIO
  <2> QED
    BY <2>1, <2>2, PilaVacia
<1>5. /\ SiguePila(h, <<Por("READY", p)>>)
      /\ \A x, q : Hay(<<Por("READY", p)>>, x, q) <=> x = "READY" /\ q = p
  <2>1. "READY" \in Movimientos
    BY DEF Movimientos, Ops, Servicio
  <2>2. /\ Forma(<<Por("READY", p)>>)
        /\ \A x, q : Hay(<<Por("READY", p)>>, x, q) <=> x = "READY" /\ q = p
    BY <2>1, PilaDeProceso
  <2>3. pila' = [pila EXCEPT ![h] = <<Por("READY", p)>>]
    BY <1>1 DEF FinDeIO
  <2> QED
    BY <2>2, <2>3, PilaSigue
<1>6. /\ \A x, q : Hay(pila'[h], x, q) <=> x = "READY" /\ q = p
      /\ \A k \in Hilos \ {h} : pila'[k] = pila[k]
  BY <1>5 DEF SiguePila
<1>7. /\ Mensajes' = Mensajes /\ Contexto' = Contexto /\ cpuPid' = cpuPid
      /\ estado' = estado /\ ready' = ready
  BY <1>2 DEF Mensajes, Contexto, cpuVars, planVars
<1>8. h # Cpu(LaCpu) /\ p # Nadie
  BY <1>1, HilosDistintos, NadieAssumption
<1>9. TypeOK'
  BY <1>2, <1>5, TiposSiguen DEF SiguePila, TypeOK, Cronos, cpuVars, planVars
<1>10. Formas'
  BY <1>5 DEF SiguePila
<1>11. SoloLaCpu'
  BY <1>6, <1>8 DEF SoloLaCpu
<1>12. ReadyExacta'
  BY <1>7 DEF ReadyExacta
<1>13. TareasAlDia'
  <2> SUFFICES ASSUME NEW k \in Hilos, NEW q \in Procs PROVE TareaAlDia(k, q)'
    BY DEF TareasAlDia
  <2>1. TareaAlDia(k, q)
    BY DEF TareasAlDia
  <2>2. CASE k = h
    BY <1>1, <1>2, <1>3, <1>6, <1>7, <2>2 DEF TareaAlDia, Traba
  <2>3. CASE k # h
    BY <1>2, <1>6, <1>7, <2>1, <2>3 DEF TareaAlDia, Traba
  <2> QED
    BY <2>2, <2>3
<1>14. UnaTraba'
  BY <1>6 DEF UnaTraba, Traba
<1>15. Parados'
  BY <1>6, <1>7, <1>8, HilosDistintos DEF Parados, Parado, Habla
<1>16. UnOcupante'
  <2>1. \A k \in Hilos : /\ Despacha(pila'[k]) <=> Despacha(pila[k])
                         /\ Libera(pila'[k]) <=> Libera(pila[k])
    BY <1>4, <1>6 DEF Despacha, Libera
  <2> QED
    BY <1>7, <2>1 DEF UnOcupante, Ocupa
<1>17. Despierta'
  BY <1>4, <1>6, <1>7, <1>8, HilosDistintos DEF Despierta
<1>18. LugaresAlDia'
  <2> SUFFICES ASSUME NEW q \in Procs PROVE LugarAlDia(q)'
    BY DEF LugaresAlDia
  <2>1. LugarAlDia(q)
    BY DEF LugaresAlDia
  <2>2. CASE q = p
    BY <1>1, <1>2, <1>3, <1>6, <1>7, <2>1, <2>2 DEF LugarAlDia, Habla
  <2>3. CASE q # p
    BY <1>1, <1>2, <1>4, <1>6, <1>7, <1>8, <2>1, <2>3, HilosDistintos
    DEF LugarAlDia, Parado, Habla
  <2> QED
    BY <2>2, <2>3
<1>19. PorCrear'
  BY <1>2, <1>7 DEF PorCrear, Habla, fijas
<1>20. DesalojoAlDia'
  BY <1>2, <1>6 DEF DesalojoAlDia
<1> QED
  BY <1>9, <1>10, <1>11, <1>12, <1>13, <1>14, <1>15, <1>16, <1>17, <1>18, <1>19, <1>20

LEMMA TicMantiene ==
    ASSUME SolaCpu, IInvUnaCpu, IInvCortoPlazo', Tic \/ UNCHANGED vars
    PROVE  IInvUnaCpu'
<1> USE DEF IInvUnaCpu
<1>1. /\ UNCHANGED <<fijas, pila, estado, ready, cpuVars, redVars, trabado, mTraer, desalojo,
                     caido>>
      /\ crono' \in Cronos
  <2>1. CASE Tic
    <3>1. \A p \in Procs : crono[p] \in {Nulo, Liberado} \cup 0..MaxRafaga
      BY DEF TypeOK
    <3>2. ASSUME NEW p \in Procs
          PROVE  (IF p \in Cronometrados THEN crono[p] + 1 ELSE crono[p])
                    \in {Nulo, Liberado} \cup 0..MaxRafaga
      BY <2>1, <3>1, RafagaAssumption DEF Tic, Cronometrados, Nulo, Liberado
    <3> QED
      BY <2>1, <3>2 DEF Tic, Cronos
  <2>2. CASE UNCHANGED vars
    BY <2>2 DEF vars, planVars, TypeOK, Cronos
  <2> QED
    BY <2>1, <2>2
<1>2. /\ ReadyExacta' /\ TareasAlDia' /\ UnaTraba' /\ Parados' /\ LugaresAlDia'
      /\ PorCrear' /\ DesalojoAlDia'
  BY <1>1, LoMismo DEF redVars, cpuVars
<1>3. TypeOK'
  BY <1>1, TiposSiguen DEF TypeOK, Tarea, redVars, cpuVars
<1>4. Formas' /\ SoloLaCpu'
  BY <1>1 DEF Formas, SoloLaCpu
<1>5. UnOcupante' /\ Despierta'
  BY <1>1 DEF UnOcupante, Ocupa, Despacha, Libera, Despierta, Mensajes, Contexto, redVars,
              cpuVars
<1> QED
  BY <1>2, <1>3, <1>4, <1>5
-----------------------------------------------------------------------------
(* What the CPU sends and its thread attends.                               *)
Paran == {"IO", "EXIT", "CONTEXTO_DESALOJO"}
Mensaje == [op : {"INIT_PROC", "IO", "EXIT", "CONTEXTO_DESALOJO"}, pid : Procs]

LEMMA MensajesTipo ==
    ASSUME SolaCpu, TypeOK
    PROVE  /\ LaCpu \in Cpus
           /\ Mensajes \in Seq(Mensaje) /\ Contexto \in Seq(Procs)
           /\ \A m \in Mensaje : m.pid \in Procs /\ (m.op = "INIT_PROC" \/ m.op \in Paran)
<1>1. LaCpu \in Cpus
  BY HilosDistintos
<1>2. mensajes \in [Cpus -> Seq(Mensaje)] /\ contexto \in [Cpus -> Seq(Procs)]
  BY DEF TypeOK, Mensaje
<1>3. \A m \in Mensaje : m.pid \in Procs /\ (m.op = "INIT_PROC" \/ m.op \in Paran)
  BY DEF Mensaje, Paran
<1> QED
  BY <1>1, <1>2, <1>3 DEF Mensajes, Contexto

(* The task about the process that each last message brings.                *)
Movida(o) == CASE o = "CONTEXTO_DESALOJO" -> "READY"
               [] o = "IO" -> "BLOCKED"
               [] OTHER -> "EXIT"

LEMMA TareasAtendidas ==
    ASSUME NEW o, NEW p \in Procs
    PROVE  /\ o = "INIT_PROC" =>
                 /\ Forma(TareasDe(o, p))
                 /\ \A x, q : Hay(TareasDe(o, p), x, q) <=> x = "READY" /\ q = p
           /\ o \in Paran =>
                 /\ Forma(TareasDe(o, p))
                 /\ \A x, q : Hay(TareasDe(o, p), x, q) <=>
                        (x = Movida(o) /\ q = p) \/ (x \in {"LIBERAR_CPU", "MANDAR"} /\ q = Nadie)
<1>1. {"READY", "BLOCKED", "EXIT"} \subseteq Movimientos
  BY DEF Movimientos, Ops, Servicio
<1>2. CASE o = "INIT_PROC"
  <2>1. TareasDe(o, p) = <<Por("READY", p)>> /\ o \notin Paran
    BY <1>2 DEF TareasDe, Paran
  <2> QED
    BY <1>1, <2>1, PilaDeProceso
<1>3. CASE o = "CONTEXTO_DESALOJO"
  <2>1. TareasDe(o, p) = <<Por("READY", p)>> \o LiberarYMandar
    BY <1>3 DEF TareasDe
  <2>2. Movida(o) = "READY" /\ o # "INIT_PROC"
    BY <1>3 DEF Movida
  <2> QED
    BY <1>1, <2>1, <2>2, PilaDeLiberar
<1>4. CASE o = "IO"
  <2>1. TareasDe(o, p) = TrasLiberar(p)
    BY <1>4 DEF TareasDe, TrasLiberar
  <2>2. Movida(o) = "BLOCKED" /\ o # "INIT_PROC"
    BY <1>4 DEF Movida
  <2> QED
    BY <2>1, <2>2, PilaDeBloquear
<1>5. CASE o = "EXIT"
  <2>1. TareasDe(o, p) = <<Por("EXIT", p)>> \o LiberarYMandar
    BY <1>5 DEF TareasDe
  <2>2. Movida(o) = "EXIT" /\ o # "INIT_PROC"
    BY <1>5 DEF Movida
  <2> QED
    BY <1>1, <2>1, <2>2, PilaDeLiberar
<1>6. CASE o # "INIT_PROC" /\ o \notin Paran
  BY <1>6
<1> QED
  BY <1>2, <1>3, <1>4, <1>5, <1>6 DEF Paran

(* INIT_PROC: the CPU goes on.                                              *)
LEMMA AtenderInit ==
    ASSUME SolaCpu, IInvUnaCpu, IInvCortoPlazo', Atender(LaCpu), Mensajes[1].op = "INIT_PROC"
    PROVE  IInvUnaCpu'
<1> USE DEF IInvUnaCpu
<1>1. PICK h \in Hilos : h = Cpu(LaCpu)
  BY HilosDistintos
<1>2. /\ LaCpu \in Cpus /\ Mensajes \in Seq(Mensaje) /\ Mensajes # <<>>
      /\ Len(Mensajes) \in Nat \ {0} /\ 1 \in DOMAIN Mensajes
      /\ DOMAIN Mensajes = 1..Len(Mensajes)
      /\ Mensajes[1] \in Mensaje /\ Head(Mensajes) = Mensajes[1]
  BY MensajesTipo DEF Atender, Mensajes
<1>3. PICK p \in Procs : p = Mensajes[1].pid
  BY <1>2, MensajesTipo
<1>4. /\ estado' = [estado EXCEPT ![p] = "NEW"]
      /\ pila' = [pila EXCEPT ![h] = TareasDe("INIT_PROC", p)]
      /\ mensajes' = [mensajes EXCEPT ![LaCpu] = Tail(@)]
      /\ caido' \in BOOLEAN
      /\ UNCHANGED <<fijas, ready, estimada, ultima, total, crono, cpuVars, contexto, pc,
                     interrupt, enIO, trabado, mTraer, desalojo>>
  BY <1>1, <1>2, <1>3 DEF Atender, Mensajes
<1>5. estado[p] = "NO_CREADO" /\ Habla(p) /\ p # Primero
  BY <1>2, <1>3 DEF LugaresAlDia, LugarAlDia, Habla, PorCrear
<1>6. estado'[p] = "NEW" /\ \A q \in Procs \ {p} : estado'[q] = estado[q]
  BY <1>4 DEF TypeOK
<1>7. \A x, q : ~Hay(pila[h], x, q)
  <2>1. PICK s : s = pila[h] /\ s = <<>>
    BY <1>1 DEF Atender
  <2> QED
    BY <2>1, PilaVacia
<1>8. SiguePila(h, TareasDe("INIT_PROC", p))
  <2>1. Forma(TareasDe("INIT_PROC", p))
    BY TareasAtendidas
  <2> QED
    BY <1>4, <2>1, PilaSigue
<1>9. /\ \A x, q : Hay(pila'[h], x, q) <=> x = "READY" /\ q = p
      /\ \A k \in Hilos \ {h} : pila'[k] = pila[k]
  BY <1>8, TareasAtendidas DEF SiguePila
<1>10. /\ Len(Mensajes') = Len(Mensajes) - 1
       /\ DOMAIN Mensajes' = 1..(Len(Mensajes) - 1)
       /\ \A i \in DOMAIN Mensajes' : Mensajes'[i] = Mensajes[i + 1] /\ i + 1 \in DOMAIN Mensajes
       /\ mensajes' \in [Cpus -> Seq(Mensaje)]
  <2>1. PICK t : t = Tail(Mensajes)
    OBVIOUS
  <2>2. /\ t \in Seq(Mensaje) /\ Len(t) = Len(Mensajes) - 1
        /\ \A i \in 1..Len(t) : t[i] = Mensajes[i + 1]
    BY <1>2, <2>1, HeadTailProperties
  <2>3. mensajes \in [Cpus -> Seq(Mensaje)] /\ mensajes' = [mensajes EXCEPT ![LaCpu] = t]
    BY <1>4, <2>1 DEF TypeOK, Mensaje, Mensajes
  <2>4. Mensajes' = t /\ mensajes' \in [Cpus -> Seq(Mensaje)]
    BY <1>2, <2>2, <2>3 DEF Mensajes
  <2>5. /\ DOMAIN t = 1..(Len(Mensajes) - 1)
        /\ \A i \in DOMAIN t : t[i] = Mensajes[i + 1] /\ i + 1 \in DOMAIN Mensajes
    BY <1>2, <2>2
  <2> QED
    BY <2>2, <2>4, <2>5
<1>11. /\ Contexto' = Contexto /\ cpuPid' = cpuPid /\ enIO' = enIO /\ ready' = ready
       /\ cpuPid[LaCpu] # Nadie
       /\ \A k \in Hilos : ~Ocupa(pila[k])
  BY <1>2, <1>4 DEF Contexto, cpuVars, UnOcupante
<1>12. \A q \in Procs : Habla(q)' <=> Habla(q) /\ q # p
  <2> SUFFICES ASSUME NEW q \in Procs PROVE Habla(q)' <=> Habla(q) /\ q # p
    OBVIOUS
  <2>1. ASSUME NEW i \in DOMAIN Mensajes', Mensajes'[i].pid = q PROVE Habla(q) /\ q # p
    <3>1. i + 1 \in DOMAIN Mensajes /\ Mensajes[i + 1].pid = q /\ i + 1 # 1
      BY <1>2, <1>10, <2>1
    <3> QED
      BY <1>2, <1>3, <3>1 DEF PorCrear, Habla
  <2>2. ASSUME NEW i \in DOMAIN Mensajes, Mensajes[i].pid = q, q # p PROVE Habla(q)'
    <3>1. i # 1 /\ i - 1 \in DOMAIN Mensajes' /\ Mensajes'[i - 1] = Mensajes[i]
      BY <1>2, <1>3, <1>10, <2>2
    <3> QED
      BY <2>2, <3>1 DEF Habla
  <2> QED
    BY <2>1, <2>2 DEF Habla
<1>13. TypeOK'
  <2>1. estado' \in [Procs -> {"NO_CREADO", "NEW", "READY", "EXECUTE", "BLOCKED", "EXIT",
                               "ELIMINADO"}]
    BY <1>4 DEF TypeOK
  <2>2. pila' \in [Hilos -> Seq(Tarea)]
    BY <1>8 DEF SiguePila
  <2> QED
    BY <1>4, <1>10, <2>1, <2>2 DEF TypeOK, Tarea, Mensaje, cpuVars, fijas
<1>14. Formas'
  BY <1>8 DEF SiguePila
<1>15. SoloLaCpu'
  BY <1>1, <1>9 DEF SoloLaCpu
<1>16. ReadyExacta'
  BY <1>5, <1>6, <1>11 DEF ReadyExacta
<1>17. TareasAlDia'
  <2> SUFFICES ASSUME NEW k \in Hilos, NEW q \in Procs PROVE TareaAlDia(k, q)'
    BY DEF TareasAlDia
  <2>1. TareaAlDia(k, q)
    BY DEF TareasAlDia
  <2>2. CASE k = h
    BY <1>1, <1>5, <1>6, <1>9, <2>2 DEF TareaAlDia, Traba
  <2>3. CASE k # h
    BY <1>4, <1>5, <1>6, <1>9, <1>11, <2>1, <2>3 DEF TareaAlDia, Traba
  <2> QED
    BY <2>2, <2>3
<1>18. UnaTraba'
  BY <1>9 DEF UnaTraba, Traba
<1>19. Parados'
  BY <1>1, <1>6, <1>9 DEF Parados, Parado
<1>20. UnOcupante'
  <2>1. \A k \in Hilos : ~Ocupa(pila'[k])
    BY <1>9, <1>11 DEF Ocupa, Despacha, Libera
  <2>2. \A k \in Hilos : ~Despacha(pila'[k])
    BY <2>1 DEF Ocupa
  <2>3. Mensajes[1].op = "INIT_PROC" /\ (1 < Len(Mensajes) \/ Contexto # <<>>)
    BY <1>2 DEF UnOcupante
  <2>4. Mensajes' # <<>> \/ Contexto' # <<>>
    BY <1>2, <1>10, <1>11, <2>3
  <2>5. ASSUME NEW i \in DOMAIN Mensajes'
        PROVE  (Mensajes'[i].op = "INIT_PROC") <=> (i < Len(Mensajes') \/ Contexto' # <<>>)
    <3>1. i + 1 < Len(Mensajes) <=> i < Len(Mensajes')
      BY <1>2, <1>10
    <3> QED
      BY <1>10, <1>11, <3>1 DEF UnOcupante
  <2>6. Len(Contexto') <= 1
    BY <1>11 DEF UnOcupante
  <2> QED
    BY <1>11, <2>1, <2>2, <2>4, <2>5, <2>6 DEF UnOcupante
<1>21. Despierta'
  BY <1>11 DEF Despierta
<1>22. LugaresAlDia'
  <2> SUFFICES ASSUME NEW q \in Procs PROVE LugarAlDia(q)'
    BY DEF LugaresAlDia
  <2>1. LugarAlDia(q)
    BY DEF LugaresAlDia
  <2>2. CASE q = p
    <3>1. Hay(pila'[h], "READY", p)
      BY <1>9
    <3>2. ~Habla(p)'
      BY <1>12
    <3> QED
      BY <1>5, <1>6, <1>11, <2>1, <2>2, <3>1, <3>2 DEF LugarAlDia, Habla
  <2>3. CASE q # p
    <3>1. Habla(q)' <=> Habla(q)
      BY <1>12, <2>3
    <3>2. \A i \in DOMAIN Mensajes' : Mensajes'[i].pid = q =>
              estado[q] = IF Mensajes'[i].op = "INIT_PROC" THEN "NO_CREADO" ELSE "EXECUTE"
      BY <1>10, <2>1 DEF LugarAlDia
    <3>3. ~Parado(q) /\ ~Hay(pila[Cpu(LaCpu)], "ELIMINAR", q)
      BY <1>1, <1>7 DEF Parado
    <3>4. \A k \in Hilos : \A x : Hay(pila[k], x, q) => Hay(pila'[k], x, q)
      BY <1>7, <1>9
    <3> QED
      BY <1>6, <1>11, <2>1, <2>3, <3>1, <3>2, <3>3, <3>4, HilosDistintos DEF LugarAlDia
  <2> QED
    BY <2>2, <2>3
<1>23. PorCrear'
  <2>1. estado'[Primero] # "NO_CREADO"
    BY <1>5, <1>6, PrimeroAssumption DEF PorCrear
  <2>2. \A i, j \in DOMAIN Mensajes' : Mensajes'[i].pid = Mensajes'[j].pid => i = j
    <3>1. ASSUME NEW i \in DOMAIN Mensajes', NEW j \in DOMAIN Mensajes',
                 Mensajes'[i].pid = Mensajes'[j].pid
          PROVE  i = j
      <4>1. i + 1 = j + 1
        BY <1>10, <3>1 DEF PorCrear
      <4> QED
        BY <1>2, <1>10, <3>1, <4>1
    <3> QED
      BY <3>1
  <2>3. ASSUME NEW q \in Procs, NEW i \in DOMAIN guion[q],
               guion[q][i].op = "INIT_PROC" /\ i > pc[q],
               NEW r, r = guion[q][i].pid
        PROVE  estado'[r] = "NO_CREADO" /\ ~Habla(r)'
    <3>1. r \in Procs
      BY <2>3, GuionTipo
    <3>2. estado[r] = "NO_CREADO" /\ ~Habla(r)
      BY <2>3 DEF PorCrear
    <3> QED
      BY <1>5, <1>6, <1>12, <3>1, <3>2
  <2>4. guion' = guion /\ pc' = pc
    BY <1>4 DEF fijas
  <2> QED
    BY <2>1, <2>2, <2>3, <2>4 DEF PorCrear, Habla
<1>24. DesalojoAlDia'
  BY <1>4, <1>9 DEF DesalojoAlDia
<1> QED
  BY <1>13, <1>14, <1>15, <1>16, <1>17, <1>18, <1>19, <1>20, <1>21, <1>22, <1>23, <1>24

(* The last message of a process: the CPU has nothing left to run.          *)
LEMMA AtenderParan ==
    ASSUME SolaCpu, IInvUnaCpu, IInvCortoPlazo', Atender(LaCpu), Mensajes[1].op \in Paran
    PROVE  IInvUnaCpu'
<1> USE DEF IInvUnaCpu
<1>1. PICK h \in Hilos : h = Cpu(LaCpu)
  BY HilosDistintos
<1>2. /\ LaCpu \in Cpus /\ Mensajes \in Seq(Mensaje) /\ Mensajes # <<>>
      /\ Len(Mensajes) \in Nat \ {0} /\ 1 \in DOMAIN Mensajes
      /\ DOMAIN Mensajes = 1..Len(Mensajes)
      /\ Mensajes[1] \in Mensaje /\ Head(Mensajes) = Mensajes[1]
  BY MensajesTipo DEF Atender, Mensajes
<1>3. PICK p \in Procs, o \in Paran : p = Mensajes[1].pid /\ o = Mensajes[1].op
  BY <1>2, MensajesTipo
<1>4. /\ estado' = estado
      /\ pila' = [pila EXCEPT ![h] = TareasDe(o, p)]
      /\ mensajes' = [mensajes EXCEPT ![LaCpu] = Tail(@)]
      /\ caido' \in BOOLEAN
      /\ UNCHANGED <<fijas, ready, estimada, ultima, total, crono, cpuVars, contexto, pc,
                     interrupt, enIO, trabado, mTraer, desalojo>>
  BY <1>1, <1>2, <1>3 DEF Atender, Mensajes, Paran
<1>5. estado[p] = "EXECUTE" /\ p # Nadie
  BY <1>2, <1>3, NadieAssumption DEF LugaresAlDia, LugarAlDia, Paran
<1>6. Len(Mensajes) = 1 /\ Contexto = <<>>
  <2>1. Mensajes[1].op # "INIT_PROC"
    BY DEF Paran
  <2>2. ~(1 < Len(Mensajes) \/ Contexto # <<>>)
    BY <1>2, <2>1 DEF UnOcupante
  <2> QED
    BY <1>2, <2>2
<1>7. \A x, q : ~Hay(pila[h], x, q)
  <2>1. PICK s : s = pila[h] /\ s = <<>>
    BY <1>1 DEF Atender
  <2> QED
    BY <2>1, PilaVacia
<1>8. SiguePila(h, TareasDe(o, p))
  <2>1. Forma(TareasDe(o, p))
    BY TareasAtendidas
  <2> QED
    BY <1>4, <2>1, PilaSigue
<1>9. /\ \A x, q : Hay(pila'[h], x, q) <=>
            (x = Movida(o) /\ q = p) \/ (x \in {"LIBERAR_CPU", "MANDAR"} /\ q = Nadie)
      /\ \A k \in Hilos \ {h} : pila'[k] = pila[k]
  BY <1>8, TareasAtendidas DEF SiguePila
<1>10. /\ Movida(o) \in {"READY", "BLOCKED", "EXIT"}
       /\ \A x : \A q \in Procs : Hay(pila'[h], x, q) <=> x = Movida(o) /\ q = p
  BY <1>9, NadieAssumption DEF Movida, Paran
<1>11. /\ Mensajes' = <<>>
       /\ mensajes' \in [Cpus -> Seq(Mensaje)]
  <2>1. PICK t : t = Tail(Mensajes)
    OBVIOUS
  <2>2. t \in Seq(Mensaje) /\ Len(t) = 0
    BY <1>2, <1>6, <2>1, HeadTailProperties
  <2>3. mensajes \in [Cpus -> Seq(Mensaje)] /\ mensajes' = [mensajes EXCEPT ![LaCpu] = t]
    BY <1>4, <2>1 DEF TypeOK, Mensaje, Mensajes
  <2>4. Mensajes' = t /\ mensajes' \in [Cpus -> Seq(Mensaje)]
    BY <1>2, <2>2, <2>3 DEF Mensajes
  <2> QED
    BY <2>2, <2>4
<1>12. /\ Contexto' = Contexto /\ cpuPid' = cpuPid /\ enIO' = enIO /\ ready' = ready
       /\ cpuPid[LaCpu] # Nadie
       /\ \A k \in Hilos : ~Ocupa(pila[k])
  BY <1>2, <1>4 DEF Contexto, cpuVars, UnOcupante
<1>13. \A q \in Procs : Habla(q) <=> q = p
  BY <1>2, <1>3, <1>6 DEF Habla
<1>14. \A q \in Procs : ~Habla(q)' /\ ~Esta(q, Contexto')
  BY <1>6, <1>11, <1>12 DEF Habla, Esta
<1>15. \A k \in Hilos : /\ Libera(pila'[k]) <=> k = h
                        /\ ~Despacha(pila'[k])
  BY <1>9, <1>10, <1>12 DEF Ocupa, Libera, Despacha
<1>16. TypeOK'
  <2>1. pila' \in [Hilos -> Seq(Tarea)]
    BY <1>8 DEF SiguePila
  <2> QED
    BY <1>4, <1>11, <2>1 DEF TypeOK, Tarea, Mensaje, cpuVars, fijas
<1>17. Formas'
  BY <1>8 DEF SiguePila
<1>18. SoloLaCpu'
  BY <1>1, <1>9 DEF SoloLaCpu
<1>19. ReadyExacta'
  BY <1>4 DEF ReadyExacta
<1>20. TareasAlDia'
  <2> SUFFICES ASSUME NEW k \in Hilos, NEW q \in Procs PROVE TareaAlDia(k, q)'
    BY DEF TareasAlDia
  <2>1. TareaAlDia(k, q)
    BY DEF TareasAlDia
  <2>2. CASE k = h
    BY <1>1, <1>4, <1>5, <1>10, <2>2 DEF TareaAlDia, Traba
  <2>3. CASE k # h
    BY <1>4, <1>9, <1>12, <2>1, <2>3 DEF TareaAlDia, Traba
  <2> QED
    BY <2>2, <2>3
<1>21. UnaTraba'
  BY <1>9, <1>10 DEF UnaTraba, Traba
<1>22. Parados'
  <2>1. \A k \in Hilos, q \in Procs : ~Hay(pila'[k], "ENVIAR", q)
    BY <1>15 DEF Despacha
  <2> QED
    BY <1>14, <2>1 DEF Parados
<1>23. UnOcupante'
  <2>1. Len(Contexto') <= 1 /\ Contexto' = <<>> /\ \A i \in DOMAIN Mensajes' : FALSE
    BY <1>6, <1>11, <1>12
  <2> QED
    BY <1>11, <1>12, <1>15, <2>1 DEF UnOcupante, Ocupa
<1>24. Despierta'
  BY <1>12 DEF Despierta
<1>25. LugaresAlDia'
  <2> SUFFICES ASSUME NEW q \in Procs PROVE LugarAlDia(q)'
    BY DEF LugaresAlDia
  <2>1. LugarAlDia(q)
    BY DEF LugaresAlDia
  <2>2. ~Habla(q)' /\ ~Esta(q, Contexto')
    BY <1>14
  <2>3. CASE q = p
    <3>1. Parado(p)'
      BY <1>1, <1>10 DEF Parado
    <3> QED
      BY <1>4, <1>5, <1>12, <2>1, <2>2, <2>3, <3>1 DEF LugarAlDia, Habla
  <2>4. CASE q # p
    <3>1. ~Habla(q) /\ ~Esta(q, Contexto)
      BY <1>13, <1>12, <2>2, <2>4
    <3>2. ~Parado(q) /\ ~Hay(pila[Cpu(LaCpu)], "ELIMINAR", q)
      BY <1>1, <1>7 DEF Parado
    <3>3. \A k \in Hilos : \A x : Hay(pila[k], x, q) => Hay(pila'[k], x, q)
      BY <1>7, <1>9
    <3> QED
      BY <1>4, <1>12, <2>1, <2>2, <3>1, <3>2, <3>3, HilosDistintos DEF LugarAlDia, Habla
  <2> QED
    BY <2>3, <2>4
<1>26. PorCrear'
  <2>1. \A i, j \in DOMAIN Mensajes' : i = j
    BY <1>11
  <2>2. ASSUME NEW q \in Procs, NEW i \in DOMAIN guion[q],
               guion[q][i].op = "INIT_PROC" /\ i > pc[q],
               NEW r, r = guion[q][i].pid
        PROVE  estado'[r] = "NO_CREADO" /\ ~Habla(r)'
    <3>1. r \in Procs
      BY <2>2, GuionTipo
    <3>2. estado[r] = "NO_CREADO"
      BY <2>2 DEF PorCrear
    <3> QED
      BY <1>4, <1>14, <3>1, <3>2
  <2>3. guion' = guion /\ pc' = pc
    BY <1>4 DEF fijas
  <2> QED
    BY <1>4, <2>1, <2>2, <2>3 DEF PorCrear, Habla
<1>27. DesalojoAlDia'
  BY <1>4, <1>9, <1>10 DEF DesalojoAlDia
<1> QED
  BY <1>16, <1>17, <1>18, <1>19, <1>20, <1>21, <1>22, <1>23, <1>24, <1>25, <1>26, <1>27

LEMMA AtenderMantiene ==
    ASSUME SolaCpu, IInvUnaCpu, IInvCortoPlazo', NEW c \in Cpus, Atender(c)
    PROVE  IInvUnaCpu'
<1>1. Atender(LaCpu) /\ Mensajes # <<>>
  BY HilosDistintos DEF Atender, Mensajes
<1>2. Mensajes[1] \in Mensaje
  BY <1>1, MensajesTipo DEF IInvUnaCpu
<1> QED
  BY <1>1, <1>2, MensajesTipo, AtenderInit, AtenderParan DEF IInvUnaCpu

(* What one instruction sends: the process to create, if it is INIT_PROC,   *)
(* and the last message of the process, if it stops.                        *)
LEMMA EnviaDosMensajes ==
    ASSUME SolaCpu, IInvUnaCpu, Contexto # <<>>
    PROVE  \E p \in Procs, x \in Mensaje, y \in Mensaje, m \in Seq(Mensaje) :
             /\ p = Corre(LaCpu) /\ Esta(p, Contexto)
             /\ \/ m = Mensajes
                \/ /\ m = Append(Mensajes, x)
                   /\ pc[p] + 1 \in DOMAIN guion[p]
                   /\ x = guion[p][pc[p] + 1] /\ x.op = "INIT_PROC"
             /\ \/ /\ Mensajes \o Envia(LaCpu) = m
                   /\ ~(Frena(Instruccion(p).op) \/ HayInterrupcion(LaCpu))
                \/ /\ Mensajes \o Envia(LaCpu) = Append(m, y)
                   /\ y.op \in Paran /\ y.pid = p
                   /\ Frena(Instruccion(p).op) \/ HayInterrupcion(LaCpu)
<1> USE DEF IInvUnaCpu
<1>1. Mensajes \in Seq(Mensaje) /\ Contexto \in Seq(Procs)
  BY MensajesTipo
<1>2. PICK p : p = Corre(LaCpu)
  OBVIOUS
<1>3. p \in Procs /\ Esta(p, Contexto)
  BY <1>1, <1>2 DEF Corre, Contexto, Esta
<1>4. PICK i : i = Instruccion(p)
  OBVIOUS
<1>5. \/ /\ pc[p] + 1 \in DOMAIN guion[p] /\ i = guion[p][pc[p] + 1]
         /\ i \in Instrucciones
      \/ i = Por("EXIT", p)
  <2>1. guion[p] \in Seq(Instrucciones) /\ pc[p] \in Nat
    BY <1>3, GuionTipo
  <2> QED
    BY <1>4, <2>1 DEF Instruccion
<1>6. \A o \in Paran : /\ Por(o, p) \in Mensaje
                       /\ Por(o, p).op = o /\ Por(o, p).pid = p
  BY <1>3 DEF Paran, Por, Mensaje
<1>7. i.op \in {"NOOP", "IO", "INIT_PROC", "EXIT"}
  BY <1>5 DEF Instrucciones, Por
<1>8. i.op = "INIT_PROC" =>
          /\ pc[p] + 1 \in DOMAIN guion[p] /\ i = guion[p][pc[p] + 1]
          /\ i \in Mensaje
  BY <1>5 DEF Instrucciones, Mensaje, Por
<1>9. PICK y0 : y0 = Por("CONTEXTO_DESALOJO", p) /\ y0 \in Mensaje /\ y0.op \in Paran
                /\ y0.pid = p
  BY <1>6 DEF Paran
<1>10. PICK e : e = Mensajes \o Envia(LaCpu)
  OBVIOUS
<1>11. CASE Frena(i.op)
  <2>1. i.op \in Paran
    BY <1>11 DEF Frena, Paran
  <2>2. PICK y \in Mensaje : y = Por(i.op, p) /\ y.op \in Paran /\ y.pid = p
    BY <2>1, <1>6
  <2>3. Envia(LaCpu) = <<y>>
    BY <1>2, <1>4, <1>11, <2>2 DEF Envia
  <2>4. Mensajes \o Envia(LaCpu) = Append(Mensajes, y)
    BY <1>1, <2>3, AppendIsConcat
  <2> QED
    BY <1>1, <1>2, <1>3, <1>4, <1>11, <2>2, <2>4
<1>12. CASE ~Frena(i.op) /\ HayInterrupcion(LaCpu)
  <2>1. CASE i.op = "INIT_PROC"
    <3>1. Envia(LaCpu) = <<i>> \o <<y0>>
      BY <1>2, <1>4, <1>9, <1>12, <2>1 DEF Envia
    <3>2. i \in Mensaje
      BY <1>8, <2>1
    <3>3. PICK m : m = Append(Mensajes, i)
      OBVIOUS
    <3>4. m \in Seq(Mensaje) /\ m = Mensajes \o <<i>>
      BY <1>1, <3>2, <3>3, AppendIsConcat, AppendProperties
    <3>5. <<i>> \in Seq(Mensaje) /\ <<y0>> \in Seq(Mensaje)
      BY <1>9, <3>2
    <3>6. Mensajes \o (<<i>> \o <<y0>>) = (Mensajes \o <<i>>) \o <<y0>>
      BY <1>1, <3>5, ConcatAssociative
    <3>7. Append(m, y0) = m \o <<y0>>
      BY <1>9, <3>4, AppendIsConcat
    <3>8. Mensajes \o Envia(LaCpu) = Append(m, y0)
      BY <3>1, <3>4, <3>6, <3>7
    <3> QED
      BY <1>2, <1>3, <1>4, <1>8, <1>9, <1>12, <2>1, <3>2, <3>3, <3>4, <3>8
  <2>2. CASE i.op # "INIT_PROC"
    <3>1. Envia(LaCpu) = <<>> \o <<y0>>
      BY <1>2, <1>4, <1>9, <1>12, <2>2 DEF Envia
    <3>2. <<>> \o <<y0>> = <<y0>>
      <4>1. <<y0>> \in Seq(Mensaje)
        BY <1>9
      <4> QED
        BY <4>1, ConcatEmptySeq
    <3>3. Mensajes \o Envia(LaCpu) = Append(Mensajes, y0)
      BY <1>1, <1>9, <3>1, <3>2, AppendIsConcat
    <3> QED
      BY <1>1, <1>2, <1>3, <1>4, <1>9, <1>12, <3>3
  <2> QED
    BY <2>1, <2>2
<1>13. CASE ~Frena(i.op) /\ ~HayInterrupcion(LaCpu)
  <2>1. CASE i.op = "INIT_PROC"
    <3>1. Envia(LaCpu) = <<i>>
      BY <1>2, <1>4, <1>13, <2>1 DEF Envia
    <3>2. i \in Mensaje
      BY <1>8, <2>1
    <3>3. PICK m : m = Append(Mensajes, i)
      OBVIOUS
    <3>4. m \in Seq(Mensaje) /\ m = Mensajes \o <<i>>
      BY <1>1, <3>2, <3>3, AppendIsConcat, AppendProperties
    <3>5. Mensajes \o Envia(LaCpu) = m
      BY <3>1, <3>4
    <3> QED
      BY <1>2, <1>3, <1>4, <1>8, <1>13, <2>1, <3>2, <3>3, <3>4, <3>5
  <2>2. CASE i.op # "INIT_PROC"
    <3>1. Envia(LaCpu) = <<>>
      BY <1>2, <1>4, <1>13, <2>2 DEF Envia
    <3>2. Mensajes \o Envia(LaCpu) = Mensajes
      BY <1>1, <3>1, ConcatEmptySeq
    <3> QED
      BY <1>1, <1>2, <1>3, <1>4, <1>9, <1>13, <3>2
  <2> QED
    BY <2>1, <2>2
<1> QED
  BY <1>11, <1>12, <1>13

(* A list with one more message.                                            *)
Aparece(lista, q) == \E i \in DOMAIN lista : lista[i].pid = q
Distintos(lista) == \A i, j \in DOMAIN lista : lista[i].pid = lista[j].pid => i = j

ConUnoMas(m, lista, x) ==
    /\ m \in Seq(Mensaje) /\ m # <<>>
    /\ Len(lista) \in Nat /\ Len(m) = Len(lista) + 1
    /\ DOMAIN lista = 1..Len(lista) /\ DOMAIN m = 1..Len(m)
    /\ \A i \in 1..Len(lista) : m[i] = lista[i]
    /\ m[Len(m)] = x
    /\ \A q : Aparece(m, q) <=> Aparece(lista, q) \/ q = x.pid
    /\ Distintos(lista) /\ ~Aparece(lista, x.pid) => Distintos(m)

LEMMA UnMensajeMas ==
    ASSUME NEW lista \in Seq(Mensaje), NEW x \in Mensaje, NEW m, m = Append(lista, x)
    PROVE  ConUnoMas(m, lista, x)
<1>1. /\ m \in Seq(Mensaje) /\ m # <<>>
      /\ Len(lista) \in Nat /\ Len(m) = Len(lista) + 1
      /\ DOMAIN lista = 1..Len(lista) /\ DOMAIN m = 1..Len(m)
      /\ \A i \in 1..Len(lista) : m[i] = lista[i]
      /\ m[Len(m)] = x
  BY AppendProperties
<1>2. \A q : Aparece(m, q) <=> Aparece(lista, q) \/ q = x.pid
  <2>1. ASSUME NEW i \in DOMAIN m PROVE Aparece(lista, m[i].pid) \/ m[i].pid = x.pid
    <3>1. i \in 1..Len(lista) \/ i = Len(m)
      BY <1>1
    <3> QED
      BY <1>1, <3>1 DEF Aparece
  <2>2. ASSUME NEW i \in DOMAIN lista PROVE i \in DOMAIN m /\ m[i] = lista[i]
    BY <1>1
  <2>3. Len(m) \in DOMAIN m
    BY <1>1
  <2> QED
    BY <1>1, <2>1, <2>2, <2>3 DEF Aparece
<1>3. ASSUME Distintos(lista), ~Aparece(lista, x.pid) PROVE Distintos(m)
  <2> SUFFICES ASSUME NEW i \in DOMAIN m, NEW j \in DOMAIN m, m[i].pid = m[j].pid PROVE i = j
    BY DEF Distintos
  <2>1. (i \in 1..Len(lista) \/ i = Len(m)) /\ (j \in 1..Len(lista) \/ j = Len(m))
    BY <1>1
  <2> QED
    BY <1>1, <1>3, <2>1 DEF Distintos, Aparece
<1> QED
  BY <1>1, <1>2, <1>3 DEF ConUnoMas

LEMMA UnoSolo ==
    ASSUME NEW S, NEW s \in Seq(S), s # <<>>, Len(s) <= 1
    PROVE  Len(s) \in Nat /\ Len(s) = 1 /\ Tail(s) = <<>>
<1>1. PICK n : n = Len(s)
  OBVIOUS
<1>2. n \in Nat \ {0}
  BY <1>1, EmptySeq
<1>3. n <= 1
  BY <1>1
<1>4. n = 1
  BY <1>2, <1>3
<1>5. PICK t : t = Tail(s)
  OBVIOUS
<1>6. t \in Seq(S) /\ Len(t) = n - 1
  BY <1>1, <1>5, HeadTailProperties
<1>7. t = <<>>
  BY <1>4, <1>6, EmptySeq
<1> QED
  BY <1>1, <1>4, <1>5, <1>7

LEMMA EjecutarMantiene ==
    ASSUME SolaCpu, IInvUnaCpu, IInvCortoPlazo', NEW c \in Cpus, Ejecutar(c)
    PROVE  IInvUnaCpu'
<1> USE DEF IInvUnaCpu
<1>1. c = LaCpu /\ LaCpu \in Cpus
  BY HilosDistintos
<1>2. /\ Contexto # <<>> /\ Contexto \in Seq(Procs) /\ Len(Contexto) \in Nat
      /\ Len(Contexto) = 1 /\ Tail(Contexto) = <<>> /\ Mensajes \in Seq(Mensaje)
      /\ \A q : Esta(q, Contexto) => q = Corre(LaCpu)
  <2>1. Contexto # <<>> /\ Contexto \in Seq(Procs) /\ Mensajes \in Seq(Mensaje)
    BY <1>1, MensajesTipo DEF Ejecutar, Contexto
  <2>2. Len(Contexto) <= 1
    BY DEF UnOcupante
  <2>3. Len(Contexto) = 1 /\ Len(Contexto) \in Nat /\ Tail(Contexto) = <<>>
    BY <2>1, <2>2, UnoSolo
  <2> QED
    BY <2>1, <2>3 DEF Esta, Corre, Contexto
<1>3. PICK p \in Procs, x \in Mensaje, y \in Mensaje, m \in Seq(Mensaje) :
        /\ p = Corre(LaCpu) /\ Esta(p, Contexto)
        /\ \/ m = Mensajes
           \/ /\ m = Append(Mensajes, x)
              /\ pc[p] + 1 \in DOMAIN guion[p]
              /\ x = guion[p][pc[p] + 1] /\ x.op = "INIT_PROC"
        /\ \/ /\ Mensajes \o Envia(LaCpu) = m
              /\ ~(Frena(Instruccion(p).op) \/ HayInterrupcion(LaCpu))
           \/ /\ Mensajes \o Envia(LaCpu) = Append(m, y)
              /\ y.op \in Paran /\ y.pid = p
              /\ Frena(Instruccion(p).op) \/ HayInterrupcion(LaCpu)
  BY <1>2, EnviaDosMensajes
<1>4. /\ pc' = [pc EXCEPT ![p] = @ + 1]
      /\ mensajes' = [mensajes EXCEPT ![LaCpu] = Mensajes \o Envia(LaCpu)]
      /\ interrupt' = [interrupt EXCEPT ![LaCpu] = IF @ = <<>> THEN @ ELSE Tail(@)]
      /\ contexto' = [contexto EXCEPT ![LaCpu] =
                         IF Frena(Instruccion(p).op) \/ HayInterrupcion(LaCpu)
                         THEN Tail(Contexto) ELSE Contexto]
      /\ UNCHANGED <<fijas, pila, planVars, cpuVars, enIO, trabado, mTraer, desalojo, caido>>
  BY <1>1, <1>3 DEF Ejecutar, Mensajes, Contexto
<1>5. Mensajes' = Mensajes \o Envia(LaCpu)
  BY <1>1, <1>4 DEF TypeOK, Mensajes
<1>6. /\ \/ m = Mensajes
         \/ /\ m = Append(Mensajes, x)
            /\ pc[p] + 1 \in DOMAIN guion[p]
            /\ x = guion[p][pc[p] + 1] /\ x.op = "INIT_PROC"
      /\ \/ Mensajes' = m /\ Contexto' = Contexto
         \/ /\ Mensajes' = Append(m, y) /\ y.op \in Paran /\ y.pid = p
            /\ Contexto' = <<>>
      /\ contexto' \in [Cpus -> Seq(Procs)]
  <2>1. /\ Frena(Instruccion(p).op) \/ HayInterrupcion(LaCpu) =>
              contexto' = [contexto EXCEPT ![LaCpu] = <<>>]
        /\ ~(Frena(Instruccion(p).op) \/ HayInterrupcion(LaCpu)) =>
              contexto' = [contexto EXCEPT ![LaCpu] = Contexto]
    BY <1>2, <1>4
  <2>2. contexto \in [Cpus -> Seq(Procs)]
    BY DEF TypeOK
  <2>3. PICK s : s = IF Frena(Instruccion(p).op) \/ HayInterrupcion(LaCpu)
                     THEN <<>> ELSE Contexto
    OBVIOUS
  <2>4. s \in Seq(Procs) /\ contexto' = [contexto EXCEPT ![LaCpu] = s]
    <3>1. <<>> \in Seq(Procs)
      OBVIOUS
    <3> QED
      BY <1>2, <2>1, <2>3, <3>1
  <2>5. Contexto' = s /\ contexto' \in [Cpus -> Seq(Procs)]
    BY <1>1, <2>2, <2>4 DEF Contexto
  <2> QED
    BY <1>3, <1>5, <2>3, <2>5
<1>7. estado[p] = "EXECUTE" /\ Esta(p, Contexto)
  BY <1>3 DEF LugaresAlDia, LugarAlDia
<1>8. /\ cpuPid[LaCpu] # Nadie
      /\ \A k \in Hilos : ~Ocupa(pila[k])
      /\ \A i \in DOMAIN Mensajes : Mensajes[i].op = "INIT_PROC"
  BY <1>2 DEF UnOcupante
<1>9. \A q \in Procs : Aparece(Mensajes, q) => estado[q] = "NO_CREADO"
  BY <1>8 DEF Aparece, LugaresAlDia, LugarAlDia
<1>10. m # Mensajes => /\ x.pid \in Procs /\ estado[x.pid] = "NO_CREADO"
                       /\ ~Aparece(Mensajes, x.pid)
  <2>1. pc[p] \in Nat /\ x.pid \in Procs
    BY GuionTipo DEF Mensaje
  <2>2. pc[p] + 1 > pc[p]
    BY <2>1
  <2> QED
    BY <1>6, <2>1, <2>2 DEF PorCrear, Habla, Aparece
<1>11. Distintos(Mensajes)
  BY DEF PorCrear, Distintos
<1>12. /\ Distintos(m)
       /\ \A q : Aparece(m, q) <=> Aparece(Mensajes, q) \/ (m # Mensajes /\ q = x.pid)
       /\ \A i \in DOMAIN m : m[i].op = "INIT_PROC"
       /\ DOMAIN m = 1..Len(m) /\ Len(m) \in Nat
  <2>1. CASE m = Mensajes
    BY <1>2, <1>8, <1>11, <2>1
  <2>2. CASE m # Mensajes
    <3>1. m = Append(Mensajes, x) /\ x.op = "INIT_PROC"
      BY <1>6, <2>2
    <3>2. /\ Len(Mensajes) \in Nat /\ Len(m) = Len(Mensajes) + 1
          /\ DOMAIN Mensajes = 1..Len(Mensajes) /\ DOMAIN m = 1..Len(m)
          /\ \A i \in 1..Len(Mensajes) : m[i] = Mensajes[i]
          /\ m[Len(m)] = x
          /\ \A q : Aparece(m, q) <=> Aparece(Mensajes, q) \/ q = x.pid
          /\ Distintos(Mensajes) /\ ~Aparece(Mensajes, x.pid) => Distintos(m)
      <4>1. ConUnoMas(m, Mensajes, x)
        BY <1>2, <3>1, UnMensajeMas
      <4> QED
        BY <4>1 DEF ConUnoMas
    <3>3. \A i \in DOMAIN m : m[i].op = "INIT_PROC"
      <4>1. \A i \in DOMAIN m : i \in DOMAIN Mensajes \/ i = Len(m)
        BY <3>2
      <4> QED
        BY <1>8, <3>1, <3>2, <4>1
    <3> QED
      BY <1>10, <1>11, <2>2, <3>2, <3>3
  <2> QED
    BY <2>1, <2>2
<1>13. \A q \in Procs : Aparece(m, q) => estado[q] = "NO_CREADO"
  BY <1>9, <1>10, <1>12
<1>14. ~Aparece(m, p)
  BY <1>7, <1>13
<1>15. /\ Distintos(Mensajes')
       /\ \A q : Aparece(Mensajes', q) <=> Aparece(m, q) \/ (Contexto' = <<>> /\ q = p)
       /\ \A i \in DOMAIN Mensajes' :
             /\ (Mensajes'[i].op = "INIT_PROC") <=> (i < Len(Mensajes') \/ Contexto' # <<>>)
             /\ Mensajes'[i].op = "INIT_PROC" => Aparece(m, Mensajes'[i].pid)
             /\ Mensajes'[i].op # "INIT_PROC" => Mensajes'[i].pid = p
       /\ Mensajes' \in Seq(Mensaje)
       /\ Contexto' # <<>> \/ Mensajes' # <<>>
  <2>1. CASE Mensajes' = m /\ Contexto' = Contexto
    BY <1>2, <1>12, <2>1 DEF Aparece
  <2>2. CASE Mensajes' = Append(m, y) /\ y.op \in Paran /\ y.pid = p /\ Contexto' = <<>>
    <3>1. PICK n : n = Append(m, y)
      OBVIOUS
    <3>2. /\ n \in Seq(Mensaje) /\ n # <<>>
          /\ Len(n) = Len(m) + 1 /\ DOMAIN n = 1..Len(n)
          /\ \A i \in 1..Len(m) : n[i] = m[i]
          /\ n[Len(n)] = y
          /\ \A q : Aparece(n, q) <=> Aparece(m, q) \/ q = y.pid
          /\ Distintos(m) /\ ~Aparece(m, y.pid) => Distintos(n)
      <4>1. ConUnoMas(n, m, y)
        BY <3>1, UnMensajeMas
      <4> QED
        BY <4>1 DEF ConUnoMas
    <3>3. ASSUME NEW i \in DOMAIN n
          PROVE  /\ (n[i].op = "INIT_PROC") <=> i < Len(n)
                 /\ n[i].op = "INIT_PROC" => Aparece(m, n[i].pid)
                 /\ n[i].op # "INIT_PROC" => n[i].pid = p
      <4>1. CASE i < Len(n)
        <5>1. i \in DOMAIN m /\ n[i] = m[i]
          BY <1>12, <3>2, <3>3, <4>1
        <5> QED
          BY <1>12, <4>1, <5>1 DEF Aparece
      <4>2. CASE ~(i < Len(n))
        <5>1. i = Len(n)
          BY <1>12, <3>2, <3>3, <4>2
        <5>2. n[i].op # "INIT_PROC" /\ n[i].pid = p
          BY <2>2, <3>2, <5>1 DEF Paran
        <5> QED
          BY <4>2, <5>2
      <4> QED
        BY <4>1, <4>2
    <3>4. Mensajes' = n /\ Contexto' = <<>>
      BY <2>2, <3>1
    <3> QED
      BY <1>12, <1>14, <2>2, <3>2, <3>3, <3>4
  <2> QED
    BY <1>6, <2>1, <2>2
<1>16. /\ cpuPid' = cpuPid /\ enIO' = enIO /\ ready' = ready /\ estado' = estado
       /\ pila' = pila /\ guion' = guion /\ trabado' = trabado /\ desalojo' = desalojo
  BY <1>4 DEF cpuVars, planVars, fijas
<1>17. \A q : Esta(q, Contexto') <=> (Contexto' # <<>> /\ q = p)
  BY <1>2, <1>3, <1>6, EstaEnVacia
<1>18. \A q : Habla(q)' <=> Aparece(Mensajes', q)
  BY DEF Habla, Aparece
<1>19. TypeOK'
  <2>1. mensajes' \in [Cpus -> Seq(Mensaje)]
    <3>1. mensajes \in [Cpus -> Seq(Mensaje)]
      BY DEF TypeOK, Mensaje
    <3>2. Mensajes \o Envia(LaCpu) \in Seq(Mensaje)
      BY <1>5, <1>15
    <3> QED
      BY <1>4, <3>1, <3>2
  <2>2. interrupt' \in [Cpus -> Seq({"INTERRUPT", "TAMANIO"})]
    BY <1>1, <1>4 DEF TypeOK
  <2>3. pc' \in [Procs -> Nat]
    BY SMTT(40), <1>4 DEF TypeOK
  <2> QED
    BY <1>4, <1>6, <2>1, <2>2, <2>3 DEF TypeOK, Mensaje, cpuVars, planVars, fijas
<1>20. Formas' /\ SoloLaCpu' /\ UnaTraba' /\ ReadyExacta'
  BY <1>16 DEF Formas, SoloLaCpu, UnaTraba, ReadyExacta
<1>21. TareasAlDia' /\ DesalojoAlDia'
  BY <1>16 DEF TareasAlDia, TareaAlDia, DesalojoAlDia
<1>22. Parados'
  <2> SUFFICES ASSUME NEW q \in Procs, Parado(q), estado[q] = "EXECUTE"
               PROVE  /\ ~Esta(q, Contexto') /\ ~Aparece(Mensajes', q)
                      /\ \A k \in Hilos : ~Hay(pila[k], "ENVIAR", q)
    BY <1>16, <1>18 DEF Parados, Parado
  <2>1. ~Esta(q, Contexto) /\ \A k \in Hilos : ~Hay(pila[k], "ENVIAR", q)
    BY DEF Parados
  <2>2. q # p
    BY <1>7, <2>1
  <2> QED
    BY <1>13, <1>15, <1>17, <2>1, <2>2
<1>23. UnOcupante'
  <2>1. Len(Contexto') <= 1
    <3>1. Contexto' = Contexto \/ Contexto' = <<>>
      BY <1>6
    <3>2. CASE Contexto' = Contexto
      <4>1. Len(Contexto') = Len(Contexto)
        BY <3>2
      <4> QED
        BY <1>2, <4>1
    <3>3. CASE Contexto' = <<>>
      BY <3>3
    <3> QED
      BY <3>1, <3>2, <3>3
  <2>2. \A k \in Hilos : ~Ocupa(pila'[k]) /\ ~Despacha(pila'[k])
    BY <1>8, <1>16 DEF Ocupa
  <2> QED
    BY <1>8, <1>15, <1>16, <2>1, <2>2 DEF UnOcupante
<1>24. Despierta'
  BY <1>8, <1>16 DEF Despierta
<1>25. LugaresAlDia'
  <2> SUFFICES ASSUME NEW q \in Procs PROVE LugarAlDia(q)'
    BY DEF LugaresAlDia
  <2>1. LugarAlDia(q)
    BY DEF LugaresAlDia
  <2>2. Esta(q, Contexto') => estado[q] = "EXECUTE"
    BY <1>7, <1>17
  <2>3. ASSUME NEW i \in DOMAIN Mensajes', Mensajes'[i].pid = q
        PROVE  estado[q] = IF Mensajes'[i].op = "INIT_PROC" THEN "NO_CREADO" ELSE "EXECUTE"
    BY <1>7, <1>13, <1>15, <2>3
  <2>4. estado[q] = "EXECUTE" /\ (Esta(q, Contexto) \/ Habla(q)) =>
            Esta(q, Contexto') \/ Habla(q)'
    <3>1. estado[q] = "EXECUTE" => ~Habla(q)
      BY <1>9 DEF Habla, Aparece
    <3>2. Esta(q, Contexto) => q = p
      BY <1>2, <1>3
    <3> QED
      BY <1>15, <1>17, <1>18, <3>1, <3>2
  <2> QED
    BY <1>16, <2>1, <2>2, <2>3, <2>4 DEF LugarAlDia, Parado
<1>26. PorCrear'
  <2>1. estado'[Primero] # "NO_CREADO"
    BY <1>16 DEF PorCrear
  <2>2. \A i, j \in DOMAIN Mensajes' : Mensajes'[i].pid = Mensajes'[j].pid => i = j
    BY <1>15 DEF Distintos
  <2>3. ASSUME NEW q \in Procs, NEW i \in DOMAIN guion[q],
               guion[q][i].op = "INIT_PROC" /\ i > pc'[q],
               NEW r, r = guion[q][i].pid
        PROVE  estado'[r] = "NO_CREADO" /\ ~Aparece(Mensajes', r)
    <3>1. r \in Procs /\ pc[q] \in Nat /\ pc[p] \in Nat /\ i \in Nat
      BY <2>3, GuionTipo
    <3>2. i > pc[q] /\ (q = p => i > pc[p] + 1)
      <4>1. pc \in [Procs -> Nat] /\ pc' = [pc EXCEPT ![p] = pc[p] + 1] /\ i > pc'[q]
        BY <1>4, <2>3 DEF TypeOK
      <4>2. CASE q = p
        <5>1. pc'[q] = pc[q] + 1
          BY <4>1, <4>2
        <5> QED
          BY <3>1, <4>1, <4>2, <5>1
      <4>3. CASE q # p
        BY <4>1, <4>3
      <4> QED
        BY <4>2, <4>3
    <3>3. estado[r] = "NO_CREADO" /\ ~Aparece(Mensajes, r)
      BY <2>3, <3>2 DEF PorCrear, Habla, Aparece
    <3>4. m # Mensajes => r # x.pid
      <4>1. ASSUME m # Mensajes, r = x.pid PROVE FALSE
        <5>1. pc[p] + 1 \in DOMAIN guion[p] /\ guion[p][pc[p] + 1].op = "INIT_PROC"
              /\ guion[p][pc[p] + 1].pid = r
          BY <1>6, <4>1
        <5>2. q = p /\ i = pc[p] + 1
          BY <2>3, <5>1, CreadosAssumption, GuionTipo
        <5> QED
          BY <3>1, <3>2, <5>2
      <4> QED
        BY <4>1
    <3> QED
      BY <1>7, <1>12, <1>15, <1>16, <3>3, <3>4
  <2> QED
    BY <1>16, <1>18, <2>1, <2>2, <2>3 DEF PorCrear, Habla, Aparece
<1> QED
  BY <1>19, <1>20, <1>21, <1>22, <1>23, <1>24, <1>25, <1>26
-----------------------------------------------------------------------------
(* The invariant holds at the start and through every step.                 *)
LEMMA UnaCpuAlEmpezar == ASSUME SolaCpu, Init PROVE IInvUnaCpu
<1>1. /\ \A x, q : Hay(pila[Main], x, q) <=> x = "READY" /\ q = Primero
      /\ \A h \in Hilos \ {Main} : \A x, q : ~Hay(pila[h], x, q)
      /\ \A h \in Hilos : Forma(pila[h])
      /\ pila \in [Hilos -> Seq(Tarea)]
  <2>1. "READY" \in Movimientos
    BY DEF Movimientos, Ops, Servicio
  <2>2. /\ Forma(<<Por("READY", Primero)>>)
        /\ \A x, q : Hay(<<Por("READY", Primero)>>, x, q) <=> x = "READY" /\ q = Primero
    BY <2>1, PilaDeProceso, PrimeroAssumption
  <2>3. PICK s : s = <<Por("READY", Primero)>>
    OBVIOUS
  <2>4. pila = [h \in Hilos |-> IF h = Main THEN s ELSE <<>>]
    BY <2>3 DEF Init
  <2>5. Main \in Hilos
    BY HilosDistintos
  <2>6. pila[Main] = s /\ \A h \in Hilos \ {Main} : pila[h] = <<>>
    BY <2>4, <2>5
  <2>7. s \in Seq(Tarea) /\ <<>> \in Seq(Tarea)
    BY <2>2, <2>3, PilaVacia, FormaTipo
  <2> QED
    BY <2>2, <2>3, <2>4, <2>6, <2>7, PilaVacia
<1>2. LaCpu \in Cpus /\ Primero # Nadie
  BY HilosDistintos, PrimeroAssumption, NadieAssumption
<1>3. /\ Mensajes = <<>> /\ Contexto = <<>> /\ ready = <<>> /\ enIO = {}
      /\ cpuPid[LaCpu] = Nadie /\ guion \in Guiones
      /\ estado = [p \in Procs |-> IF p = Primero THEN "NEW" ELSE "NO_CREADO"]
  BY <1>2 DEF Init, Mensajes, Contexto
<1>4. TypeOK
  <2>1. desalojo \in [hilo : Hilos \cup {Nadie}, cpu : Cpus \cup {Nadie},
                      victima : Procs \cup {Nadie}]
    BY DEF Init, Sueltos
  <2>2. pila \in [Hilos -> Seq([op : Ops, pid : Procs \cup {Nadie}])]
    BY <1>1 DEF Tarea
  <2>3. /\ contexto \in [Cpus -> Seq(Procs)] /\ ready \in Seq(Procs)
        /\ mensajes \in [Cpus -> Seq(Mensaje)]
        /\ interrupt \in [Cpus -> Seq({"INTERRUPT", "TAMANIO"})]
    <3>1. \A S : <<>> \in Seq(S)
      OBVIOUS
    <3> QED
      BY <3>1 DEF Init
  <2>4. /\ estimada \in [Procs -> Nat] /\ ultima \in [Procs -> Nat]
        /\ total \in [Procs -> Nat] /\ pc \in [Procs -> Nat]
        /\ crono \in [Procs -> {Nulo, Liberado} \cup 0..MaxRafaga]
    BY EstimacionAssumption DEF Init
  <2>5. /\ algoritmo \in Algoritmos /\ guion \in Guiones
        /\ estado \in [Procs -> {"NO_CREADO", "NEW", "READY", "EXECUTE", "BLOCKED", "EXIT",
                                  "ELIMINADO"}]
        /\ cpuPid \in [Cpus -> Procs \cup {Nadie}]
        /\ enIO \in SUBSET Procs /\ trabado \in SUBSET Procs /\ colado \in SUBSET Cpus
        /\ mTraer \in BOOLEAN /\ caido \in BOOLEAN
    BY DEF Init
  <2> QED
    BY <2>1, <2>2, <2>3, <2>4, <2>5 DEF TypeOK, Mensaje
<1>5. Formas /\ SoloLaCpu
  BY <1>1, <1>2 DEF Formas, SoloLaCpu
<1>6. ReadyExacta
  BY <1>3, EstaEnVacia DEF ReadyExacta, SinRepetir
<1>7. TareasAlDia
  <2> SUFFICES ASSUME NEW h \in Hilos, NEW p \in Procs PROVE TareaAlDia(h, p)
    BY DEF TareasAlDia
  <2> QED
    BY <1>1, <1>3, PrimeroAssumption DEF TareaAlDia, Traba
<1>8. UnaTraba
  BY <1>1 DEF UnaTraba, Traba
<1>9. Parados
  BY <1>1, HilosDistintos DEF Parados, Parado
<1>10. UnOcupante
  <2>1. \A h \in Hilos : ~Ocupa(pila[h]) /\ ~Despacha(pila[h])
    BY <1>1, <1>2 DEF Ocupa, Despacha, Libera
  <2>2. Len(Contexto) <= 1 /\ \A i \in DOMAIN Mensajes : FALSE
    BY <1>3
  <2> QED
    BY <1>3, <2>1, <2>2 DEF UnOcupante
<1>11. Despierta
  BY <1>3 DEF Despierta
<1>12. LugaresAlDia
  <2> SUFFICES ASSUME NEW p \in Procs PROVE LugarAlDia(p)
    BY DEF LugaresAlDia
  <2>1. ~Esta(p, Contexto) /\ \A i \in DOMAIN Mensajes : FALSE
    BY <1>3, EstaEnVacia
  <2>2. Main \in Hilos /\ Hay(pila[Main], "READY", Primero)
    BY <1>1, HilosDistintos
  <2>3. estado[p] = IF p = Primero THEN "NEW" ELSE "NO_CREADO"
    BY <1>3
  <2> QED
    BY <1>3, <2>1, <2>2, <2>3 DEF LugarAlDia
<1>13. PorCrear
  <2>1. estado[Primero] # "NO_CREADO" /\ \A i \in DOMAIN Mensajes : FALSE
    BY <1>3, PrimeroAssumption
  <2>2. ASSUME NEW p \in Procs, NEW i \in DOMAIN guion[p], guion[p][i].op = "INIT_PROC"
        PROVE  estado[guion[p][i].pid] = "NO_CREADO"
    <3>1. guion[p][i].pid \in Procs
      BY <1>4, GuionTipo
    <3>2. guion[p][i].pid # Primero
      BY <1>3, <2>2, CreadosAssumption
    <3> QED
      BY <1>3, <3>1, <3>2
  <2> QED
    BY <2>1, <2>2 DEF PorCrear, Habla
<1>14. DesalojoAlDia
  BY <1>1 DEF DesalojoAlDia
<1> QED
  BY <1>4, <1>5, <1>6, <1>7, <1>8, <1>9, <1>10, <1>11, <1>12, <1>13, <1>14 DEF IInvUnaCpu

LEMMA UnaCpuPasoAPaso ==
    ASSUME SolaCpu, IInvUnaCpu, IInvCortoPlazo', [Next]_vars
    PROVE  IInvUnaCpu'
<1>1. ASSUME NEW h \in Hilos, NEW p \in Procs, DeProceso(h, p) PROVE IInvUnaCpu'
  BY <1>1, ReadyMantiene, ReadyCpuMantiene, ReadyPrimeroMantiene, DesalojarMantiene,
     MirarCpuMantiene, CompararMantiene, ExecuteMantiene, EnviarMantiene, BlockedMantiene,
     ExitMantiene, EliminarMantiene DEF DeProceso
<1>2. ASSUME NEW h \in Hilos, Mandar(h) \/ MandarVer(h) \/ MandarTomar(h) PROVE IInvUnaCpu'
  BY <1>2, MandarMantiene, MandarVerMantiene, MandarTomarMantiene
<1>3. ASSUME NEW c \in Cpus, Liberar(c) \/ Atender(c) \/ Ejecutar(c) PROVE IInvUnaCpu'
  BY <1>3, LiberarMantiene, AtenderMantiene, EjecutarMantiene
<1>4. ASSUME NEW p \in Procs, FinDeIO(p) PROVE IInvUnaCpu'
  BY <1>4, FinDeIOMantiene
<1>5. CASE Tic \/ UNCHANGED vars
  BY <1>5, TicMantiene
<1>6. CASE Reposo
  BY <1>6, TicMantiene DEF Reposo
<1> QED
  BY <1>1, <1>2, <1>3, <1>4, <1>5, <1>6 DEF Next

LEMMA IInvUnaCpuSiempre == ASSUME SolaCpu PROVE Spec => [](IInvUnaCpu /\ IInvCortoPlazo)
<1>1. Init => IInvUnaCpu /\ IInvCortoPlazo
  BY UnaCpuAlEmpezar, CuadraAlEmpezar
<1>2. IInvUnaCpu /\ IInvCortoPlazo /\ [Next]_vars => (IInvUnaCpu /\ IInvCortoPlazo)'
  BY CuadraPasoAPaso, UnaCpuPasoAPaso
<1> QED
  BY <1>1, <1>2, PTL DEF Spec

(* Every variable of the short term keeps its type, the estimates and the   *)
(* clock of each process among them, with one CPU.                          *)
THEOREM TiposSiempre == ASSUME SolaCpu PROVE Spec => []TypeOK
<1>1. Spec => [](IInvUnaCpu /\ IInvCortoPlazo)
  BY IInvUnaCpuSiempre
<1>2. IInvUnaCpu => TypeOK
  BY DEF IInvUnaCpu
<1> QED
  BY <1>1, <1>2, PTL

(* buscar_cpu_disponible never picks a CPU that still has a context or a    *)
(* message of its own on the way (kernel-syscalls.c, set_cpu).              *)
THEOREM LaLibreEspera == ASSUME SolaCpu PROVE Spec => []LibreEspera
<1>1. Spec => [](IInvUnaCpu /\ IInvCortoPlazo)
  BY IInvUnaCpuSiempre
<1>2. IInvUnaCpu => LibreEspera
  BY HilosDistintos DEF IInvUnaCpu, UnOcupante, LibreEspera, Contexto, Mensajes
<1> QED
  BY <1>1, <1>2, PTL

(* Whatever preempts, blocks, ends or arrives, when the kernel has nothing  *)
(* left to do and a process is READY the CPU has one to run.                *)
THEOREM SiempreOcupada == ASSUME SolaCpu PROVE Spec => []CpuOcupada
<1>1. Spec => [](IInvUnaCpu /\ IInvCortoPlazo)
  BY IInvUnaCpuSiempre
<1>2. IInvUnaCpu => CpuOcupada
  <2> SUFFICES ASSUME IInvUnaCpu, Quieto, ready # <<>>
               PROVE  contexto[LaCpu] # <<>> \/ mensajes[LaCpu] # <<>>
    BY HilosDistintos DEF CpuOcupada
  <2>1. \A h \in Hilos : \A x, q : ~Hay(pila[h], x, q)
    <3> SUFFICES ASSUME NEW h \in Hilos PROVE \A x, q : ~Hay(pila[h], x, q)
      OBVIOUS
    <3>1. PICK s : s = pila[h] /\ s = <<>>
      BY DEF Quieto
    <3> QED
      BY <3>1, PilaVacia
  <2>2. cpuPid[LaCpu] # Nadie
    BY <2>1, HilosDistintos DEF IInvUnaCpu, Despierta
  <2>3. \A h \in Hilos : ~Ocupa(pila[h])
    BY <2>1 DEF Ocupa, Despacha, Libera
  <2> QED
    BY <2>2, <2>3 DEF IInvUnaCpu, UnOcupante, Contexto, Mensajes
<1> QED
  BY <1>1, <1>2, PTL
-----------------------------------------------------------------------------
(* queue_READY in the order of the estimates.                               *)
LEMMA TocaHay ==
    ASSUME IInvUnaCpu, NEW h \in Hilos, NEW o, NEW p \in Procs, Toca(h, o, p)
    PROVE  Hay(pila[h], o, p)
<1>1. PICK s, u : s = pila[h] /\ u = <<>> \o Tail(s)
  OBVIOUS
<1>2. Forma(s) /\ s # <<>> /\ Head(s) = Por(o, p)
  BY <1>1 DEF IInvUnaCpu, Formas, Toca
<1>3. SoloTiene(s, o, p)
  BY <1>1, <1>2, ProcesoSale
<1> QED
  BY <1>1, <1>3 DEF SoloTiene

EnOrden(f, lista) == \A j, k \in 1..Len(lista) : j < k => f[lista[j]] <= f[lista[k]]

LEMMA OrdenadaEnOrden ==
    ASSUME ready \in Seq(Procs)
    PROVE  ReadyOrdenada <=> (Sjf => EnOrden(estimada, ready))
BY DEF ReadyOrdenada, EnOrden

LEMMA InsertadaEnOrden ==
    ASSUME NEW f \in [Procs -> Nat], NEW lista \in Seq(Procs), NEW p \in Procs, NEW r, NEW i,
           Insertada(r, lista, i, p), EnOrden(f, lista),
           \A j \in 1..(i - 1) : ~(f[p] < f[lista[j]]),
           i <= Len(lista) => f[p] < f[lista[i]]
    PROVE  EnOrden(f, r)
<1>1. /\ Len(lista) \in Nat /\ Len(r) = Len(lista) + 1 /\ i \in 1..Len(r)
      /\ \A j \in 1..Len(r) :
            r[j] = IF j < i THEN lista[j] ELSE IF j = i THEN p ELSE lista[j - 1]
  BY DEF Insertada
<1>2. \A j \in 1..Len(lista) : f[lista[j]] \in Nat
  OBVIOUS
<1>3. \A j, k \in 1..Len(lista) : j <= k => f[lista[j]] <= f[lista[k]]
  BY <1>2 DEF EnOrden
<1>4. f[p] \in Nat
  OBVIOUS
<1>5. \A j \in 1..Len(lista) : j < i => f[lista[j]] <= f[p]
  BY <1>1, <1>2, <1>4
<1>6. \A k \in 1..Len(lista) : i <= k => f[p] <= f[lista[k]]
  <2> SUFFICES ASSUME NEW k \in 1..Len(lista), i <= k PROVE f[p] <= f[lista[k]]
    OBVIOUS
  <2>1. i \in 1..Len(lista) /\ f[p] < f[lista[i]]
    BY <1>1
  <2>2. f[lista[i]] <= f[lista[k]]
    BY <1>3, <2>1
  <2> QED
    BY <1>2, <1>4, <2>1, <2>2
<1> SUFFICES ASSUME NEW j \in 1..Len(r), NEW k \in 1..Len(r), j < k
             PROVE  f[r[j]] <= f[r[k]]
  BY DEF EnOrden
<1>7. CASE k < i
  <2>1. j \in 1..Len(lista) /\ k \in 1..Len(lista) /\ r[j] = lista[j] /\ r[k] = lista[k]
    BY <1>1, <1>7
  <2> QED
    BY <1>3, <2>1
<1>8. CASE k = i
  <2>1. j \in 1..Len(lista) /\ j < i /\ r[j] = lista[j] /\ r[k] = p
    BY <1>1, <1>8
  <2> QED
    BY <1>5, <2>1
<1>9. CASE k > i
  <2>1. k - 1 \in 1..Len(lista) /\ r[k] = lista[k - 1] /\ i <= k - 1
    BY <1>1, <1>9
  <2>2. CASE j < i
    <3>1. j \in 1..Len(lista) /\ r[j] = lista[j] /\ j <= k - 1
      BY <1>1, <2>1, <2>2
    <3> QED
      BY <1>3, <2>1, <3>1
  <2>3. CASE j = i
    <3>1. r[j] = p
      BY <1>1, <2>3
    <3> QED
      BY <1>6, <2>1, <3>1
  <2>4. CASE j > i
    <3>1. j - 1 \in 1..Len(lista) /\ j - 1 <= k - 1
      BY <1>1, <2>4
    <3>2. r[j] = lista[j - 1]
      BY <1>1, <2>4
    <3> QED
      BY <1>3, <2>1, <3>1, <3>2
  <2> QED
    BY <1>1, <2>2, <2>3, <2>4
<1> QED
  BY <1>1, <1>7, <1>8, <1>9

LEMMA QuitadaEnOrden ==
    ASSUME NEW f \in [Procs -> Nat], NEW lista \in Seq(Procs), NEW r, NEW i,
           Quitada(r, lista, i), EnOrden(f, lista)
    PROVE  EnOrden(f, r)
<1>1. /\ Len(lista) \in Nat /\ Len(r) = Len(lista) - 1 /\ i \in 1..Len(lista)
      /\ \A j \in 1..Len(r) : r[j] = IF j < i THEN lista[j] ELSE lista[j + 1]
  BY DEF Quitada
<1> SUFFICES ASSUME NEW j \in 1..Len(r), NEW k \in 1..Len(r), j < k
             PROVE  f[r[j]] <= f[r[k]]
  BY DEF EnOrden
<1>2. PICK a \in 1..Len(lista), b \in 1..Len(lista) :
        a < b /\ r[j] = lista[a] /\ r[k] = lista[b]
  <2>1. CASE k < i
    <3>1. j \in 1..Len(lista) /\ k \in 1..Len(lista) /\ j < i
      BY <1>1, <2>1
    <3>2. r[j] = lista[j] /\ r[k] = lista[k]
      BY <1>1, <2>1, <3>1
    <3> QED
      BY <3>1, <3>2
  <2>2. CASE j < i /\ k >= i
    <3>1. j \in 1..Len(lista) /\ k + 1 \in 1..Len(lista) /\ j < k + 1 /\ ~(k < i)
      BY <1>1, <2>2
    <3>2. r[j] = lista[j] /\ r[k] = lista[k + 1]
      BY <1>1, <2>2, <3>1
    <3> QED
      BY <3>1, <3>2
  <2>3. CASE j >= i
    <3>1. /\ j + 1 \in 1..Len(lista) /\ k + 1 \in 1..Len(lista) /\ j + 1 < k + 1
          /\ ~(j < i) /\ ~(k < i)
      BY <1>1, <2>3
    <3>2. r[j] = lista[j + 1] /\ r[k] = lista[k + 1]
      BY <1>1, <3>1
    <3> QED
      BY <3>1, <3>2
  <2> QED
    BY <1>1, <2>1, <2>2, <2>3
<1> QED
  BY <1>2 DEF EnOrden

LEMMA MismoOrden ==
    ASSUME NEW f \in [Procs -> Nat], NEW g \in [Procs -> Nat], NEW lista \in Seq(Procs),
           EnOrden(f, lista), \A q \in Procs : Esta(q, lista) => g[q] = f[q]
    PROVE  EnOrden(g, lista)
<1> SUFFICES ASSUME NEW j \in 1..Len(lista), NEW k \in 1..Len(lista), j < k
             PROVE  g[lista[j]] <= g[lista[k]]
  BY DEF EnOrden
<1>1. lista[j] \in Procs /\ lista[k] \in Procs /\ Esta(lista[j], lista) /\ Esta(lista[k], lista)
  BY DEF Esta
<1>2. f[lista[j]] <= f[lista[k]]
  BY DEF EnOrden
<1> QED
  BY <1>1, <1>2

LEMMA FijasSiguen == ASSUME [Next]_vars PROVE UNCHANGED fijas
<1>1. ASSUME NEW h \in Hilos, NEW p \in Procs, DeProceso(h, p) PROVE UNCHANGED fijas
  <2>1. CASE Ready(h, p) \/ ReadyCpu(h, p) \/ ReadyPrimero(h, p)
    BY <2>1 DEF Ready, ReadyCpu, ReadyPrimero
  <2>2. CASE Desalojar(h, p) \/ MirarCpu(h, p) \/ Comparar(h, p)
    BY <2>2 DEF Desalojar, MirarCpu, Comparar
  <2>3. CASE Execute(h, p) \/ Enviar(h, p) \/ Blocked(h, p) \/ Exit(h, p) \/ Eliminar(h, p)
    BY <2>3 DEF Execute, Enviar, Blocked, Exit, Eliminar
  <2> QED
    BY <1>1, <2>1, <2>2, <2>3 DEF DeProceso
<1>2. ASSUME NEW h \in Hilos, Mandar(h) \/ MandarVer(h) \/ MandarTomar(h) PROVE UNCHANGED fijas
  BY <1>2 DEF Mandar, MandarVer, MandarTomar
<1>3. ASSUME NEW c \in Cpus, Liberar(c) \/ Atender(c) \/ Ejecutar(c) PROVE UNCHANGED fijas
  BY <1>3 DEF Liberar, Atender, Ejecutar
<1>4. ASSUME NEW p \in Procs, FinDeIO(p) PROVE UNCHANGED fijas
  BY <1>4 DEF FinDeIO
<1>5. CASE Tic \/ Reposo \/ UNCHANGED vars
  BY <1>5 DEF Tic, Reposo, vars
<1> QED
  BY <1>1, <1>2, <1>3, <1>4, <1>5 DEF Next

LEMMA OrdenPasoAPaso ==
    ASSUME SolaCpu, IInvUnaCpu, IInvCortoPlazo, IInvCortoPlazo', IInvUnaCpu', ReadyOrdenada,
           [Next]_vars
    PROVE  ReadyOrdenada'
<1>1. /\ ready \in Seq(Procs) /\ ready' \in Seq(Procs)
      /\ estimada \in [Procs -> Nat] /\ estimada' \in [Procs -> Nat]
      /\ TypeOK
  BY DEF IInvUnaCpu, TypeOK
<1>2. (Sjf => EnOrden(estimada, ready)) /\ algoritmo' = algoritmo
  <2>1. algoritmo' = algoritmo
    BY FijasSiguen DEF fijas
  <2> QED
    BY <1>1, <2>1, OrdenadaEnOrden
<1>3. SUFFICES ASSUME Sjf PROVE EnOrden(estimada', ready')
  <2>1. Sjf' <=> Sjf
    BY <1>2 DEF Sjf
  <2>2. ReadyOrdenada' <=> (Sjf' => EnOrden(estimada', ready'))
    <3>1. DOMAIN ready' = 1..Len(ready')
      BY <1>1
    <3> QED
      BY <3>1 DEF ReadyOrdenada, EnOrden
  <2> QED
    BY <2>1, <2>2, <1>3
<1>4. EnOrden(estimada, ready)
  BY <1>2, <1>3
<1>5. (\A q \in Procs : Esta(q, ready) => estimada'[q] = estimada[q])
          => EnOrden(estimada', ready)
  <2>1. PICK f : f = estimada
    OBVIOUS
  <2>2. PICK g : g = estimada'
    OBVIOUS
  <2>3. f \in [Procs -> Nat] /\ g \in [Procs -> Nat] /\ EnOrden(f, ready)
    BY <1>1, <1>4, <2>1, <2>2
  <2>4. (\A q \in Procs : Esta(q, ready) => g[q] = f[q]) => EnOrden(g, ready)
    BY <1>1, <2>3, MismoOrden
  <2> QED
    BY <2>1, <2>2, <2>4
<1>6. ASSUME NEW h \in Hilos, NEW p \in Procs, Ready(h, p)
      PROVE  EnOrden(estimada', ready')
  <2>1. Hay(pila[h], "READY", p)
    BY <1>6, TocaHay DEF Ready
  <2>2. estado[p] # "READY"
    BY <2>1 DEF IInvUnaCpu, TareasAlDia, TareaAlDia
  <2>3. /\ \A q \in Procs \ {p} : estimada'[q] = estimada[q]
        /\ \E i : Insertada(ready', ready, i, p) /\ EnSuSitio(estimada'[p], i)
    BY <1>1, <1>3, <1>6, <2>2, CambiarAReady DEF Ready
  <2>4. ~Esta(p, ready)
    BY <2>2 DEF IInvUnaCpu, ReadyExacta
  <2>5. PICK i : Insertada(ready', ready, i, p) /\ EnSuSitio(estimada'[p], i)
    BY <2>3
  <2>6. EnOrden(estimada', ready)
    <3>1. \A q \in Procs : Esta(q, ready) => estimada'[q] = estimada[q]
      BY <2>3, <2>4
    <3> QED
      BY <3>1, <1>5
  <2>7. \A j \in 1..Len(ready) : estimada'[ready[j]] = estimada[ready[j]]
    BY <1>1, <2>3, <2>4 DEF Esta
  <2>8. i \in 1..(Len(ready) + 1) /\ Len(ready) \in Nat
    BY <1>1, <2>5 DEF Insertada
  <2>9. \A j \in 1..(i - 1) : ~(estimada'[p] < estimada'[ready[j]])
    BY <2>5, <2>7, <2>8 DEF EnSuSitio
  <2>10. i <= Len(ready) => estimada'[p] < estimada'[ready[i]]
    BY <2>5, <2>7, <2>8 DEF EnSuSitio
  <2> QED
    BY <1>1, <2>5, <2>6, <2>9, <2>10, InsertadaEnOrden
<1>7. ASSUME NEW h \in Hilos, NEW p \in Procs, Execute(h, p)
      PROVE  EnOrden(estimada', ready')
  <2>1. Hay(pila[h], "EXECUTE", p)
    BY <1>7, TocaHay DEF Execute
  <2>2. estado[p] = "READY" /\ Esta(p, ready)
    BY <2>1 DEF IInvUnaCpu, TareasAlDia, TareaAlDia, ReadyExacta
  <2>3. /\ \A q \in Procs : estimada'[q] = estimada[q]
        /\ \E i : Quitada(ready', ready, i)
    BY <1>1, <1>7, <2>2, CambiarDesdeReady DEF Execute
  <2>4. EnOrden(estimada', ready)
    <3>1. \A q \in Procs : Esta(q, ready) => estimada'[q] = estimada[q]
      BY <2>3
    <3> QED
      BY <3>1, <1>5
  <2> QED
    BY <1>1, <2>3, <2>4, QuitadaEnOrden
<1>8. ASSUME NEW h \in Hilos, NEW p \in Procs, Blocked(h, p) \/ Exit(h, p)
      PROVE  EnOrden(estimada', ready')
  <2>1. Hay(pila[h], "BLOCKED", p) \/ Hay(pila[h], "EXIT", p)
    BY <1>8, TocaHay DEF Blocked, Exit
  <2>2. estado[p] = "EXECUTE" /\ ~Esta(p, ready)
    BY <2>1 DEF IInvUnaCpu, TareasAlDia, TareaAlDia, ReadyExacta
  <2>3. /\ \A q \in Procs \ {p} : estimada'[q] = estimada[q]
        /\ ready' = ready
    BY <1>1, <1>8, <2>2, CambiarDesdeExecute DEF Blocked, Exit
  <2>4. EnOrden(estimada', ready)
    <3>1. \A q \in Procs : Esta(q, ready) => estimada'[q] = estimada[q]
      BY <2>2, <2>3
    <3> QED
      BY <3>1, <1>5
  <2> QED
    BY <2>3, <2>4
<1>9. CASE estimada' = estimada /\ ready' = ready
  BY <1>4, <1>9
<1>10. ASSUME NEW h \in Hilos, NEW p \in Procs, DeProceso(h, p)
      PROVE  EnOrden(estimada', ready')
  <2>1. CASE Ready(h, p)
    BY <1>6, <2>1
  <2>2. CASE Execute(h, p)
    BY <1>7, <2>2
  <2>3. CASE Blocked(h, p) \/ Exit(h, p)
    BY <1>8, <2>3
  <2>4. CASE ReadyCpu(h, p) \/ ReadyPrimero(h, p) \/ Desalojar(h, p) \/ MirarCpu(h, p)
             \/ Comparar(h, p) \/ Enviar(h, p) \/ Eliminar(h, p)
    BY <1>9, <2>4 DEF ReadyCpu, ReadyPrimero, Desalojar, MirarCpu, Comparar, Enviar, Eliminar,
                      planVars
  <2> QED
    BY <1>10, <2>1, <2>2, <2>3, <2>4 DEF DeProceso
<1>11. ASSUME NEW h \in Hilos, Mandar(h) \/ MandarVer(h) \/ MandarTomar(h)
       PROVE  EnOrden(estimada', ready')
  BY <1>9, <1>11 DEF Mandar, MandarVer, MandarTomar, planVars
<1>12. ASSUME NEW c \in Cpus, Liberar(c) \/ Atender(c) \/ Ejecutar(c)
       PROVE  EnOrden(estimada', ready')
  BY <1>9, <1>12 DEF Liberar, Atender, Ejecutar, planVars
<1>13. ASSUME NEW p \in Procs, FinDeIO(p) PROVE EnOrden(estimada', ready')
  BY <1>9, <1>13 DEF FinDeIO, planVars
<1>14. CASE Tic \/ Reposo \/ UNCHANGED vars
  BY <1>9, <1>14 DEF Tic, Reposo, vars, planVars
<1> QED
  BY <1>10, <1>11, <1>12, <1>13, <1>14 DEF Next

(* queue_SJF keeps the queue sorted although it only looks at the estimates *)
(* when a process comes in: nobody changes the estimate of one that waits,  *)
(* and no process is in the queue twice.                                    *)
THEOREM SiempreOrdenada == ASSUME SolaCpu PROVE Spec => []ReadyOrdenada
<1>1. Spec => [](IInvUnaCpu /\ IInvCortoPlazo)
  BY IInvUnaCpuSiempre
<1>2. Init => ReadyOrdenada
  BY DEF Init, ReadyOrdenada
<1>3. IInvUnaCpu /\ IInvCortoPlazo /\ (IInvUnaCpu /\ IInvCortoPlazo)' /\ ReadyOrdenada
      /\ [Next]_vars => ReadyOrdenada'
  BY OrdenPasoAPaso
<1> QED
  BY <1>1, <1>2, <1>3, PTL DEF Spec
-----------------------------------------------------------------------------
(* The seven-state diagram.                                                 *)
LEMMA PasosDelCiclo ==
    /\ "NEW" \in Ciclo!Siguientes("NO_CREADO")
    /\ \A e \in {"NEW", "EXECUTE", "BLOCKED"} : "READY" \in Ciclo!Siguientes(e)
    /\ "EXECUTE" \in Ciclo!Siguientes("READY")
    /\ \A e \in {"BLOCKED", "EXIT"} : e \in Ciclo!Siguientes("EXECUTE")
    /\ "ELIMINADO" \in Ciclo!Siguientes("EXIT")
BY DEF Ciclo!Siguientes

LEMMA MueveUno ==
    ASSUME NEW p \in Procs, NEW e, e \in Ciclo!Siguientes(estado[p]),
           estado' = [estado EXCEPT ![p] = e]
    PROVE  Ciclo!Next
BY DEF Ciclo!Next, Ciclo!Mover

(* The message of a thread that Atender takes.                              *)
LEMMA AtiendeAlPrimero ==
    ASSUME SolaCpu, IInvUnaCpu, NEW c \in Cpus, Atender(c)
    PROVE  \/ estado' = estado
           \/ \E p \in Procs : estado[p] = "NO_CREADO" /\ estado' = [estado EXCEPT ![p] = "NEW"]
<1>1. c = LaCpu
  BY HilosDistintos
<1>2. /\ Mensajes \in Seq(Mensaje) /\ Mensajes # <<>>
      /\ 1 \in DOMAIN Mensajes /\ Mensajes[1] \in Mensaje /\ Head(Mensajes) = Mensajes[1]
  BY <1>1, MensajesTipo DEF IInvUnaCpu, Atender, Mensajes
<1>3. PICK p \in Procs : p = Mensajes[1].pid
  BY <1>2, MensajesTipo DEF IInvUnaCpu
<1>4. estado' = IF Mensajes[1].op = "INIT_PROC" THEN [estado EXCEPT ![p] = "NEW"] ELSE estado
  BY <1>1, <1>2, <1>3 DEF Atender, Mensajes
<1>5. Mensajes[1].op = "INIT_PROC" => estado[p] = "NO_CREADO"
  BY <1>2, <1>3 DEF IInvUnaCpu, LugaresAlDia, LugarAlDia
<1> QED
  BY <1>4, <1>5

LEMMA CicloPasoAPaso ==
    ASSUME SolaCpu, IInvUnaCpu, [Next]_vars
    PROVE  [Ciclo!Next]_estado
<1>1. ASSUME NEW h \in Hilos, NEW p \in Procs, DeProceso(h, p)
      PROVE  Ciclo!Next \/ estado' = estado
  <2>1. TypeOK /\ TareaAlDia(h, p)
    BY DEF IInvUnaCpu, TareasAlDia
  <2>2. CASE Ready(h, p)
    <3>1. Hay(pila[h], "READY", p)
      BY <2>2, TocaHay DEF Ready
    <3>2. estado[p] \in {"NEW", "EXECUTE", "BLOCKED"}
      BY <2>1, <3>1 DEF TareaAlDia
    <3>3. estado' = [estado EXCEPT ![p] = "READY"]
      BY <2>1, <2>2, <3>2, CambiarAReady DEF Ready
    <3> QED
      BY <3>2, <3>3, PasosDelCiclo, MueveUno
  <2>3. CASE Execute(h, p)
    <3>1. Hay(pila[h], "EXECUTE", p)
      BY <2>3, TocaHay DEF Execute
    <3>2. estado[p] = "READY" /\ Esta(p, ready)
      BY <2>1, <3>1 DEF TareaAlDia, IInvUnaCpu, ReadyExacta
    <3>3. estado' = [estado EXCEPT ![p] = "EXECUTE"]
      BY <2>1, <2>3, <3>2, CambiarDesdeReady DEF Execute
    <3> QED
      BY <3>2, <3>3, PasosDelCiclo, MueveUno
  <2>4. ASSUME NEW e \in {"BLOCKED", "EXIT"}, Toca(h, e, p), CambiarEstado(p, e)
        PROVE  Ciclo!Next
    <3>1. Hay(pila[h], e, p)
      BY <2>4, TocaHay
    <3>2. estado[p] = "EXECUTE"
      BY <2>1, <3>1 DEF TareaAlDia
    <3>3. estado' = [estado EXCEPT ![p] = e]
      BY <2>1, <2>4, <3>2, CambiarDesdeExecute
    <3> QED
      BY <3>2, <3>3, PasosDelCiclo, MueveUno
  <2>5. CASE Blocked(h, p) \/ Exit(h, p)
    BY <2>4, <2>5 DEF Blocked, Exit
  <2>6. CASE Eliminar(h, p)
    <3>1. Hay(pila[h], "ELIMINAR", p) /\ estado' = [estado EXCEPT ![p] = "ELIMINADO"]
      BY <2>6, TocaHay DEF Eliminar
    <3>2. estado[p] = "EXIT"
      BY <2>1, <3>1 DEF TareaAlDia
    <3> QED
      BY <3>1, <3>2, PasosDelCiclo, MueveUno
  <2>7. CASE ReadyCpu(h, p) \/ ReadyPrimero(h, p) \/ Desalojar(h, p) \/ MirarCpu(h, p)
             \/ Comparar(h, p) \/ Enviar(h, p)
    BY <2>7 DEF ReadyCpu, ReadyPrimero, Desalojar, MirarCpu, Comparar, Enviar, planVars
  <2> QED
    BY <1>1, <2>2, <2>3, <2>5, <2>6, <2>7 DEF DeProceso
<1>2. ASSUME NEW h \in Hilos, Mandar(h) \/ MandarVer(h) \/ MandarTomar(h)
      PROVE  estado' = estado
  BY <1>2 DEF Mandar, MandarVer, MandarTomar, planVars
<1>3. ASSUME NEW c \in Cpus, Liberar(c) \/ Ejecutar(c) PROVE estado' = estado
  BY <1>3 DEF Liberar, Ejecutar, planVars
<1>4. ASSUME NEW c \in Cpus, Atender(c) PROVE Ciclo!Next \/ estado' = estado
  BY <1>4, AtiendeAlPrimero, PasosDelCiclo, MueveUno
<1>5. ASSUME NEW p \in Procs, FinDeIO(p) PROVE estado' = estado
  BY <1>5 DEF FinDeIO, planVars
<1>6. CASE Tic \/ Reposo \/ UNCHANGED vars
  BY <1>6 DEF Tic, Reposo, vars, planVars
<1> QED
  BY <1>1, <1>2, <1>3, <1>4, <1>5, <1>6 DEF Next

(* With one CPU, whatever preempts, blocks or dispatches, one process moves *)
(* at a time, along the seven-state diagram (cambiar_estado, carnicero,     *)
(* recibir_y_crear_proceso): the short term refines CicloDeVida.            *)
THEOREM CicloSiempreCumple == ASSUME SolaCpu PROVE Spec => CumpleCiclo
<1>1. Spec => [](IInvUnaCpu /\ IInvCortoPlazo)
  BY IInvUnaCpuSiempre
<1>2. Init => Ciclo!Init
  BY DEF Init, Ciclo!Init
<1>3. IInvUnaCpu /\ IInvCortoPlazo /\ [Next]_vars => [Ciclo!Next]_estado
  BY CicloPasoAPaso
<1> QED
  BY <1>1, <1>2, <1>3, PTL DEF Spec, CumpleCiclo, Ciclo!Spec
-----------------------------------------------------------------------------
(* Where there is something of a process.                                   *)
RastroReady(t, p) == \E i \in DOMAIN ready : ready[i] = p /\ t = <<"ready", i>>
RastroTarea(t, o, p) ==
    \E h \in Hilos : \E i \in DOMAIN pila[h] : pila[h][i] = Por(o, p) /\ t = <<h, i>>
RastroContexto(t, p) ==
    \E i \in DOMAIN Contexto : Contexto[i] = p /\ t = <<"contexto", LaCpu, i>>
RastroMensaje(t, p) ==
    \E i \in DOMAIN Mensajes : Mensajes[i].pid = p /\ t = <<"mensaje", LaCpu, i>>
RastroIo(t, p) == p \in enIO /\ t = <<"io">>

(* A thread has one task about processes at most.                           *)
LEMMA FormaUna ==
    ASSUME NEW s, Forma(s), NEW o, NEW x, NEW p \in Procs,
           NEW i \in DOMAIN s, NEW j \in DOMAIN s, s[i] = Por(o, p), s[j] = Por(x, p)
    PROVE  i = j
<1>1. Hay(s, o, p)
  BY DEF Hay, Esta
<1>2. s \notin Colas
  BY <1>1, ColaTipo DEF SinProceso
<1>3. ASSUME NEW r \in Movimientos, NEW q \in Procs, NEW c \in Colas, s = <<Por(r, q)>> \o c
      PROVE  i = j
  <2>1. /\ Por(r, q) \in Tarea /\ c \in Seq(Tarea) /\ SinProceso(c)
    BY ColaTipo, PorTarea DEF Movimientos
  <2>2. PICK t \in Tarea : t = Por(r, q)
    BY <2>1
  <2>3. DOMAIN s = 1..(1 + Len(c)) /\ \A k \in 1..Len(c) : s[k + 1] = c[k]
    BY <1>3, <2>1, <2>2
  <2>4. Len(c) \in Nat /\ DOMAIN c = 1..Len(c)
    BY <2>1
  <2>5. ASSUME NEW k \in DOMAIN s, k # 1, NEW y, s[k] = Por(y, p) PROVE FALSE
    <3>1. k - 1 \in 1..Len(c) /\ s[(k - 1) + 1] = c[k - 1] /\ (k - 1) + 1 = k
      BY <2>3, <2>4, <2>5
    <3> QED
      BY <2>1, <2>4, <2>5, <3>1 DEF SinProceso, Hay, Esta
  <2> QED
    BY <2>5
<1>4. ASSUME NEW q \in Procs, s = TrasLiberar(q) PROVE i = j
  <2>1. /\ DOMAIN s = {1, 2, 3} /\ s[1] = Por("LIBERAR_CPU", Nadie) /\ s[3] = Por("MANDAR", Nadie)
    BY <1>4, SolaEsPor DEF TrasLiberar
  <2>2. p # Nadie
    BY NadieAssumption
  <2>3. i # 1 /\ i # 3 /\ j # 1 /\ j # 3
    BY <2>1, <2>2, PorIgual
  <2> QED
    BY <2>1, <2>3
<1> QED
  BY <1>2, <1>3, <1>4 DEF Forma

LEMMA RastrosSon ==
    ASSUME SolaCpu, IInvUnaCpu, NEW p \in Procs, NEW t
    PROVE  t \in Rastros(p) <=>
               \/ RastroReady(t, p)
               \/ \E o \in Movidas : RastroTarea(t, o, p)
               \/ RastroContexto(t, p)
               \/ RastroMensaje(t, p)
               \/ RastroIo(t, p)
<1>1. t \in Rastros(p) <=>
          \/ t \in EnReady(p) \/ t \in EnTareas(p) \/ t \in EnContextos(p)
          \/ t \in EnMensajes(p) \/ t \in EnDispositivo(p)
  BY DEF Rastros
<1>2. t \in EnReady(p) <=> RastroReady(t, p)
  BY DEF RastroReady, EnReady
<1>3. t \in EnTareas(p) <=> \E o \in Movidas : RastroTarea(t, o, p)
  <2>1. ASSUME NEW h \in Hilos, NEW i \in DOMAIN pila[h]
        PROVE  \A o : pila[h][i] = Por(o, p) <=> pila[h][i].pid = p /\ pila[h][i].op = o
    <3>1. pila[h] \in Seq(Tarea)
      BY FormaTipo DEF IInvUnaCpu, Formas
    <3>2. PICK x \in Tarea : x = pila[h][i]
      BY <3>1
    <3> QED
      BY <3>2 DEF Tarea, Por
  <2>2. ASSUME t \in EnTareas(p) PROVE \E o \in Movidas : RastroTarea(t, o, p)
    <3>1. PICK h \in Hilos : t \in Tareas(h)
      BY <2>2 DEF EnTareas
    <3>2. PICK i \in DOMAIN pila[h] : t = <<h, i>>
      BY <3>1 DEF Tareas
    <3>3. t[1] = h /\ t[2] = i
      BY <3>2
    <3>4. pila[h][i].pid = p /\ pila[h][i].op \in Movidas
      BY <2>2, <3>3 DEF EnTareas
    <3> QED
      BY <2>1, <3>2, <3>4 DEF RastroTarea
  <2>3. ASSUME NEW o \in Movidas, RastroTarea(t, o, p) PROVE t \in EnTareas(p)
    <3>1. PICK h \in Hilos : \E i \in DOMAIN pila[h] : pila[h][i] = Por(o, p) /\ t = <<h, i>>
      BY <2>3 DEF RastroTarea
    <3>2. PICK i \in DOMAIN pila[h] : pila[h][i] = Por(o, p) /\ t = <<h, i>>
      BY <3>1
    <3>3. t[1] = h /\ t[2] = i /\ t \in Tareas(h)
      BY <3>2 DEF Tareas
    <3>4. pila[h][i].pid = p /\ pila[h][i].op \in Movidas
      BY <2>1, <3>2
    <3> QED
      BY <3>3, <3>4 DEF EnTareas
  <2> QED
    BY <2>2, <2>3
<1>4. t \in EnContextos(p) <=> RastroContexto(t, p)
  BY HilosDistintos DEF RastroContexto, Contexto, EnContextos
<1>5. t \in EnMensajes(p) <=> RastroMensaje(t, p)
  BY HilosDistintos DEF RastroMensaje, Mensajes, EnMensajes
<1>6. t \in EnDispositivo(p) <=> RastroIo(t, p)
  BY DEF RastroIo, EnDispositivo
<1> QED
  BY <1>1, <1>2, <1>3, <1>4, <1>5, <1>6

LEMMA TareaHay ==
    ASSUME NEW t, NEW o, NEW p, RastroTarea(t, o, p)
    PROVE  \E h \in Hilos : \E i \in DOMAIN pila[h] :
             t = <<h, i>> /\ pila[h][i] = Por(o, p) /\ Hay(pila[h], o, p)
<1>1. PICK h \in Hilos : \E i \in DOMAIN pila[h] : pila[h][i] = Por(o, p) /\ t = <<h, i>>
  BY DEF RastroTarea
<1>2. PICK i \in DOMAIN pila[h] : pila[h][i] = Por(o, p) /\ t = <<h, i>>
  BY <1>1
<1> QED
  BY <1>2 DEF Hay, Esta

(* What each trace says of the state of the process.                        *)
LEMMA TareaDice ==
    ASSUME SolaCpu, IInvUnaCpu, NEW p \in Procs, NEW h \in Hilos, NEW o \in Movidas,
           Hay(pila[h], o, p)
    PROVE  \/ o = "READY" /\ estado[p] = "NEW" /\ h = IF p = Primero THEN Main ELSE Cpu(LaCpu)
           \/ o = "READY" /\ estado[p] = "BLOCKED" /\ h = Io(p) /\ p \notin enIO
           \/ o = "ELIMINAR" /\ estado[p] = "EXIT" /\ h = Cpu(LaCpu)
           \/ o = "ENVIAR" /\ estado[p] = "EXECUTE" /\ ~Parado(p) /\ Ocupa(pila[h])
           \/ o # "ENVIAR" /\ estado[p] = "EXECUTE" /\ Parado(p) /\ h = Cpu(LaCpu)
<1>1. TareaAlDia(h, p)
  BY DEF IInvUnaCpu, TareasAlDia
<1>2. CASE o = "READY"
  BY <1>1, <1>2 DEF TareaAlDia, Parado
<1>3. CASE o = "ENVIAR"
  BY <1>1, <1>3 DEF TareaAlDia, IInvUnaCpu, Parados, Ocupa, Despacha
<1>4. CASE o = "BLOCKED" \/ o = "EXIT"
  BY <1>1, <1>4 DEF TareaAlDia, Parado
<1>5. CASE o = "ELIMINAR"
  BY <1>1, <1>5 DEF TareaAlDia
<1> QED
  BY <1>2, <1>3, <1>4, <1>5 DEF Movidas

LEMMA UnaTarea ==
    ASSUME SolaCpu, IInvUnaCpu, NEW p \in Procs, NEW t, NEW u,
           NEW o \in Movidas, NEW x \in Movidas, RastroTarea(t, o, p), RastroTarea(u, x, p)
    PROVE  t = u
<1>1. PICK h \in Hilos : \E i \in DOMAIN pila[h] :
        t = <<h, i>> /\ pila[h][i] = Por(o, p) /\ Hay(pila[h], o, p)
  BY TareaHay
<1>2. PICK i \in DOMAIN pila[h] : t = <<h, i>> /\ pila[h][i] = Por(o, p) /\ Hay(pila[h], o, p)
  BY <1>1
<1>3. PICK k \in Hilos : \E j \in DOMAIN pila[k] :
        u = <<k, j>> /\ pila[k][j] = Por(x, p) /\ Hay(pila[k], x, p)
  BY TareaHay
<1>4. PICK j \in DOMAIN pila[k] : u = <<k, j>> /\ pila[k][j] = Por(x, p) /\ Hay(pila[k], x, p)
  BY <1>3
<1>5. h = k
  <2>1. Ocupa(pila[h]) /\ Ocupa(pila[k]) => h = k
    BY DEF IInvUnaCpu, UnOcupante
  <2> QED
    BY <1>2, <1>4, <2>1, TareaDice
<1>6. Forma(pila[h])
  BY DEF IInvUnaCpu, Formas
<1>7. i = j
  BY <1>2, <1>4, <1>5, <1>6, FormaUna
<1> QED
  BY <1>2, <1>4, <1>5, <1>7

LEMMA RastrosDicen ==
    ASSUME SolaCpu, IInvUnaCpu, NEW p \in Procs, NEW t
    PROVE  /\ RastroReady(t, p) => estado[p] = "READY"
           /\ \A o \in Movidas : RastroTarea(t, o, p) =>
                 \/ estado[p] \in {"NEW", "EXIT"}
                 \/ estado[p] = "BLOCKED" /\ p \notin enIO
                 \/ estado[p] = "EXECUTE" /\ ~Esta(p, Contexto) /\ ~Habla(p)
           /\ RastroContexto(t, p) => estado[p] = "EXECUTE" /\ Esta(p, Contexto)
           /\ RastroMensaje(t, p) =>
                 /\ Habla(p)
                 /\ \/ estado[p] = "NO_CREADO"
                    \/ estado[p] = "EXECUTE" /\ ~Esta(p, Contexto)
           /\ RastroIo(t, p) => estado[p] = "BLOCKED" /\ p \in enIO
<1>1. RastroReady(t, p) => estado[p] = "READY"
  BY DEF RastroReady, IInvUnaCpu, ReadyExacta, Esta
<1>2. ASSUME NEW o \in Movidas, RastroTarea(t, o, p)
      PROVE  \/ estado[p] \in {"NEW", "EXIT"}
             \/ estado[p] = "BLOCKED" /\ p \notin enIO
             \/ estado[p] = "EXECUTE" /\ ~Esta(p, Contexto) /\ ~Habla(p)
  <2>1. PICK h \in Hilos : Hay(pila[h], o, p)
    BY <1>2, TareaHay
  <2>2. Ocupa(pila[h]) => ~Esta(p, Contexto) /\ ~Habla(p)
    <3>1. Ocupa(pila[h]) => Contexto = <<>> /\ Mensajes = <<>>
      BY DEF IInvUnaCpu, UnOcupante
    <3> QED
      BY <3>1 DEF Esta, Habla
  <2>3. Parado(p) /\ estado[p] = "EXECUTE" => ~Esta(p, Contexto) /\ ~Habla(p)
    BY DEF IInvUnaCpu, Parados
  <2> QED
    BY <2>1, <2>2, <2>3, TareaDice
<1>3. LugarAlDia(p)
  BY DEF IInvUnaCpu, LugaresAlDia
<1>4. RastroContexto(t, p) => estado[p] = "EXECUTE" /\ Esta(p, Contexto)
  BY <1>3 DEF RastroContexto, LugarAlDia, Esta
<1>5. ASSUME RastroMensaje(t, p)
      PROVE  /\ Habla(p)
             /\ \/ estado[p] = "NO_CREADO"
                \/ estado[p] = "EXECUTE" /\ ~Esta(p, Contexto)
  <2>1. PICK i \in DOMAIN Mensajes : Mensajes[i].pid = p
    BY <1>5 DEF RastroMensaje
  <2>2. Mensajes[i].op # "INIT_PROC" => Contexto = <<>>
    BY DEF IInvUnaCpu, UnOcupante
  <2>3. Contexto = <<>> => ~Esta(p, Contexto)
    BY DEF Esta
  <2> QED
    BY <1>3, <2>1, <2>2, <2>3 DEF LugarAlDia, Habla
<1>6. RastroIo(t, p) => estado[p] = "BLOCKED" /\ p \in enIO
  BY <1>3 DEF RastroIo, LugarAlDia
<1> QED
  BY <1>1, <1>2, <1>4, <1>5, <1>6

LEMMA UnRastro ==
    ASSUME SolaCpu, IInvUnaCpu, NEW p \in Procs, NEW t \in Rastros(p), NEW u \in Rastros(p)
    PROVE  t = u
<1>1. CASE RastroReady(t, p) /\ RastroReady(u, p)
  BY <1>1 DEF RastroReady, IInvUnaCpu, ReadyExacta, SinRepetir
<1>2. CASE (\E o \in Movidas : RastroTarea(t, o, p)) /\ (\E o \in Movidas : RastroTarea(u, o, p))
  BY <1>2, UnaTarea
<1>3. CASE RastroContexto(t, p) /\ RastroContexto(u, p)
  <2>1. Contexto \in Seq(Procs) /\ Len(Contexto) <= 1
    BY MensajesTipo DEF IInvUnaCpu, UnOcupante
  <2>2. \A i, j \in DOMAIN Contexto : i = j
    BY <2>1
  <2> QED
    BY <1>3, <2>2 DEF RastroContexto
<1>4. CASE RastroMensaje(t, p) /\ RastroMensaje(u, p)
  BY <1>4 DEF RastroMensaje, IInvUnaCpu, PorCrear
<1>5. CASE RastroIo(t, p) /\ RastroIo(u, p)
  BY <1>5 DEF RastroIo
<1> QED
  BY <1>1, <1>2, <1>3, <1>4, <1>5, RastrosSon, RastrosDicen

LEMMA AlgunRastro ==
    ASSUME SolaCpu, IInvUnaCpu, NEW p \in Procs, estado[p] \notin {"NO_CREADO", "ELIMINADO"}
    PROVE  Rastros(p) # {}
<1>1. LugarAlDia(p)
  BY DEF IInvUnaCpu, LugaresAlDia
<1>2. ASSUME NEW h \in Hilos, NEW o \in Movidas, Hay(pila[h], o, p) PROVE Rastros(p) # {}
  <2>1. PICK i \in DOMAIN pila[h] : pila[h][i] = Por(o, p)
    BY <1>2 DEF Hay, Esta
  <2>2. RastroTarea(<<h, i>>, o, p)
    BY <2>1 DEF RastroTarea
  <2> QED
    BY <2>2, RastrosSon
<1>3. ASSUME Esta(p, ready) PROVE Rastros(p) # {}
  <2>1. \E t : RastroReady(t, p)
    BY <1>3 DEF Esta, RastroReady
  <2> QED
    BY <2>1, RastrosSon
<1>4. ASSUME Esta(p, Contexto) PROVE Rastros(p) # {}
  <2>1. \E t : RastroContexto(t, p)
    BY <1>4 DEF Esta, RastroContexto
  <2> QED
    BY <2>1, RastrosSon
<1>5. ASSUME Habla(p) PROVE Rastros(p) # {}
  <2>1. \E t : RastroMensaje(t, p)
    BY <1>5 DEF Habla, RastroMensaje
  <2> QED
    BY <2>1, RastrosSon
<1>6. ASSUME p \in enIO PROVE Rastros(p) # {}
  BY <1>6, RastrosSon DEF RastroIo
<1>7. {"READY", "ENVIAR", "BLOCKED", "EXIT", "ELIMINAR"} = Movidas
  BY DEF Movidas
<1>8. Cpu(LaCpu) \in Hilos /\ Io(p) \in Hilos
  BY HilosDistintos
<1>9. CASE estado[p] = "READY"
  BY <1>3, <1>9 DEF IInvUnaCpu, ReadyExacta
<1>10. CASE estado[p] = "EXECUTE"
  BY <1>1, <1>2, <1>4, <1>5, <1>7, <1>8, <1>10 DEF LugarAlDia, Parado
<1>11. CASE estado[p] \in {"NEW", "BLOCKED", "EXIT"}
  BY <1>1, <1>2, <1>6, <1>7, <1>8, <1>11 DEF LugarAlDia
<1>12. estado[p] \in {"NO_CREADO", "NEW", "READY", "EXECUTE", "BLOCKED", "EXIT", "ELIMINADO"}
  BY DEF IInvUnaCpu, TypeOK
<1> QED
  BY <1>9, <1>10, <1>11, <1>12

(* The orders to dispatch it.                                               *)
LEMMA UnaOrden ==
    ASSUME SolaCpu, IInvUnaCpu, NEW p \in Procs, NEW t \in Ordenes(p)
    PROVE  estado[p] = "READY" /\ \A u \in Ordenes(p) : t = u
<1>1. ASSUME NEW u \in Ordenes(p)
      PROVE  \E h \in Hilos : \E i \in DOMAIN pila[h] :
               u = <<h, i>> /\ pila[h][i] = Por("EXECUTE", p) /\ Hay(pila[h], "EXECUTE", p)
  <2>1. PICK h \in Hilos : u \in Tareas(h)
    BY DEF Ordenes
  <2>2. PICK i \in DOMAIN pila[h] : u = <<h, i>>
    BY <2>1 DEF Tareas
  <2>3. u[1] = h /\ u[2] = i
    BY <2>2
  <2>4. pila[h][i] = Por("EXECUTE", p)
    BY <2>3 DEF Ordenes
  <2> QED
    BY <2>2, <2>4 DEF Hay, Esta
<1>2. PICK h \in Hilos : \E i \in DOMAIN pila[h] :
        t = <<h, i>> /\ pila[h][i] = Por("EXECUTE", p) /\ Hay(pila[h], "EXECUTE", p)
  BY <1>1
<1>3. PICK i \in DOMAIN pila[h] :
        t = <<h, i>> /\ pila[h][i] = Por("EXECUTE", p) /\ Hay(pila[h], "EXECUTE", p)
  BY <1>2
<1>4. estado[p] = "READY"
  BY <1>3 DEF IInvUnaCpu, TareasAlDia, TareaAlDia
<1>5. ASSUME NEW u \in Ordenes(p) PROVE t = u
  <2>1. PICK k \in Hilos : \E j \in DOMAIN pila[k] :
          u = <<k, j>> /\ pila[k][j] = Por("EXECUTE", p) /\ Hay(pila[k], "EXECUTE", p)
    BY <1>1
  <2>2. PICK j \in DOMAIN pila[k] :
          u = <<k, j>> /\ pila[k][j] = Por("EXECUTE", p) /\ Hay(pila[k], "EXECUTE", p)
    BY <2>1
  <2>3. h = k
    BY <1>3, <2>2 DEF IInvUnaCpu, UnOcupante, Ocupa, Despacha
  <2>4. Forma(pila[h])
    BY DEF IInvUnaCpu, Formas
  <2>5. i = j
    BY <1>3, <2>2, <2>3, <2>4, FormaUna
  <2> QED
    BY <1>3, <2>2, <2>3, <2>5
<1> QED
  BY <1>4, <1>5

LEMMA ComoMuchoUno ==
    ASSUME NEW S, \A t, u \in S : t = u
    PROVE  Cardinality(S) <= 1
<1>1. CASE S = {}
  BY <1>1, FS_EmptySet
<1>2. CASE S # {}
  <2>1. PICK x : x \in S
    BY <1>2
  <2>2. S = {x}
    BY <2>1
  <2>3. Cardinality({x}) = 1
    BY FS_Singleton
  <2> QED
    BY <2>2, <2>3
<1> QED
  BY <1>1, <1>2

(* queue_process, mandar_procesos_a_execute, desalojo_SJF and the handlers  *)
(* of the connections never lose a process that has not ended, nor have two *)
(* of them at once: it is in READY, with a thread, on its way to the CPU,   *)
(* running, on its way back or in a device, and in one of them only.        *)
THEOREM SiempreUnLugar == ASSUME SolaCpu PROVE Spec => []UnLugar
<1>1. Spec => [](IInvUnaCpu /\ IInvCortoPlazo)
  BY IInvUnaCpuSiempre
<1>2. IInvUnaCpu => UnLugar
  <2> SUFFICES ASSUME IInvUnaCpu, NEW p \in Procs
               PROVE  /\ Cardinality(Rastros(p)) <= 1
                      /\ estado[p] \notin {"NO_CREADO", "ELIMINADO"} => Rastros(p) # {}
                      /\ Cardinality(Ordenes(p)) <= 1
                      /\ Ordenes(p) # {} => estado[p] = "READY"
    BY DEF UnLugar
  <2>1. \A t, u \in Rastros(p) : t = u
    BY UnRastro
  <2>2. \A t, u \in Ordenes(p) : t = u
    BY UnaOrden
  <2>3. Ordenes(p) # {} => estado[p] = "READY"
    BY UnaOrden
  <2> QED
    BY <2>1, <2>2, <2>3, AlgunRastro, ComoMuchoUno
<1> QED
  BY <1>1, <1>2, PTL
-----------------------------------------------------------------------------
(* SJF with preemption: whom the CPU has been given to, what is left of its *)
(* estimate, and the thread that is on its way to compare with it.          *)
Elegido(r) ==
    \/ \E h \in Hilos : Hay(pila[h], "EXECUTE", r) \/ Hay(pila[h], "ENVIAR", r)
    \/ Esta(r, Contexto)

Resta(r) == IF Esta(r, Contexto) THEN LoQueQueda(estimada[r], crono[r]) ELSE estimada[r]

Avisada == Esta("INTERRUPT", interrupt[LaCpu])

Camino == {"READY_CPU", "READY_PRIMERO", "DESALOJAR", "MIRAR_CPU"}
Vela(h, p, r) ==
    \/ \E o \in Camino : Hay(pila[h], o, p)
    \/ Hay(pila[h], "COMPARAR", p) /\ desalojo.victima = r

(* A timer counts for a process that has been sent to the CPU and has not   *)
(* been moved from it, and for the one whose context is there.              *)
CronosAlDia ==
    \A p \in Procs : crono[p] >= 0 =>
        estado[p] = "EXECUTE" /\ \A h \in Hilos : ~Hay(pila[h], "ENVIAR", p)
ContextoAlDia == \A r \in Procs : Esta(r, Contexto) => cpuPid[LaCpu] = r

(* The first of READY is no shorter than what the CPU has been given, or    *)
(* the CPU has been asked for, or somebody is about to compare them.        *)
Comparado(r) ==
    \/ Resta(r) <= estimada[Head(ready)]
    \/ Avisada
    \/ \E h \in Hilos : Vela(h, Head(ready), r)
Comparados ==
    LaCpu \notin colado /\ ready # <<>> => \A r \in Procs : Elegido(r) => Comparado(r)

ElegidoAlDia == CronosAlDia /\ ContextoAlDia /\ Comparados
IInvMasCorto == ~caido /\ algoritmo = "SJFcD" => ElegidoAlDia

LEMMA ElegidoLaCpu ==
    ASSUME IInvUnaCpu, ContextoAlDia, NEW r \in Procs, Elegido(r)
    PROVE  cpuPid[LaCpu] = r /\ r # Nadie
BY NadieAssumption DEF IInvUnaCpu, TareasAlDia, TareaAlDia, Elegido, ContextoAlDia

LEMMA PrimeroDeReady ==
    ASSUME TypeOK, ready # <<>>
    PROVE  /\ Head(ready) \in Procs /\ Head(ready) = ready[1] /\ Esta(Head(ready), ready)
           /\ Len(ready) \in Nat /\ Len(ready) >= 1
<1>1. PICK r : r = ready /\ r \in Seq(Procs) /\ r # <<>>
  BY DEF TypeOK
<1>2. Len(r) \in Nat /\ Len(r) >= 1 /\ 1 \in DOMAIN r /\ Head(r) = r[1] /\ r[1] \in Procs
  BY <1>1
<1> QED
  BY <1>1, <1>2 DEF Esta

(* A step that gives the CPU to nobody, moves nobody in READY and loses no  *)
(* thread that was about to compare.                                        *)
LEMMA SigueComparado ==
    ASSUME SolaCpu, IInvUnaCpu, ElegidoAlDia,
           UNCHANGED <<ready, estimada, crono, contexto, interrupt, colado>>,
           \A p \in Procs : estado[p] = "EXECUTE" => estado'[p] = "EXECUTE",
           cpuPid' = cpuPid \/ Contexto = <<>>,
           \A h \in Hilos, p \in Procs : \A o \in {"EXECUTE", "ENVIAR"} :
              Hay(pila'[h], o, p) => Hay(pila[h], o, p),
           \A h \in Hilos, r \in Procs :
              ready # <<>> /\ Elegido(r) /\ Vela(h, Head(ready), r)
                  => \E k \in Hilos : Vela(k, Head(ready), r)'
    PROVE  ElegidoAlDia'
<1>1. Contexto' = Contexto /\ (Avisada' <=> Avisada)
  BY DEF Contexto, Avisada
<1>2. CronosAlDia'
  BY DEF ElegidoAlDia, CronosAlDia
<1>3. ContextoAlDia'
  <2>1. Contexto = <<>> => \A r \in Procs : ~Esta(r, Contexto)
    BY EstaEnVacia
  <2> QED
    BY <1>1, <2>1 DEF ElegidoAlDia, ContextoAlDia
<1>4. Comparados'
  <2> SUFFICES ASSUME LaCpu \notin colado, ready # <<>>, NEW r \in Procs, Elegido(r)'
               PROVE  Comparado(r)'
    BY DEF Comparados
  <2>1. Elegido(r)
    BY <1>1 DEF Elegido
  <2>2. Comparado(r)
    BY <2>1 DEF ElegidoAlDia, Comparados
  <2>3. Resta(r)' = Resta(r)
    BY <1>1 DEF Resta, LoQueQueda
  <2> QED
    BY <1>1, <2>1, <2>2, <2>3 DEF Comparado
<1> QED
  BY <1>2, <1>3, <1>4 DEF ElegidoAlDia

(* The same, of a step of h that only touches its own stack.                *)
LEMMA VelaDeOtro ==
    ASSUME NEW h \in Hilos, NEW k \in Hilos, NEW p, NEW r, h # k, pila'[k] = pila[k],
           desalojo' = desalojo \/ ~Hay(pila[k], "COMPARAR", p), Vela(k, p, r)
    PROVE  Vela(k, p, r)'
BY DEF Vela

(* Whoever compares holds mutex_desalojo.                                   *)
LEMMA UnoCompara ==
    ASSUME IInvUnaCpu, NEW k \in Hilos, NEW q \in Procs,
           Hay(pila[k], "MIRAR_CPU", q) \/ Hay(pila[k], "COMPARAR", q)
    PROVE  desalojo.hilo = k /\ desalojo.cpu \in Cpus
BY DEF IInvUnaCpu, DesalojoAlDia

(* A thread with one task about a process goes on with another one of those *)
(* that lead to comparing, or ends one that does not.                       *)
LEMMA PasaComparado ==
    ASSUME SolaCpu, IInvUnaCpu, ElegidoAlDia,
           UNCHANGED <<ready, estimada, crono, contexto, interrupt, colado, cpuPid>>,
           \A q \in Procs : estado[q] = "EXECUTE" => estado'[q] = "EXECUTE",
           NEW h \in Hilos, NEW o, NEW p \in Procs,
           \/ Sale(h, o, p)
           \/ \E x \in Camino \cup {"COMPARAR"} : Pasa(h, o, x, p),
           \A k \in Hilos \ {h}, q \in Procs :
              desalojo' = desalojo \/ ~Hay(pila[k], "COMPARAR", q),
           \A r \in Procs :
              ready # <<>> /\ p = Head(ready) /\ Elegido(r) /\ Vela(h, p, r) => Vela(h, p, r)'
    PROVE  ElegidoAlDia'
<1>1. \A k \in Hilos \ {h} : pila'[k] = pila[k]
  BY DEF Sale, Pasa
<1>2. \A k \in Hilos, q \in Procs : \A x \in {"EXECUTE", "ENVIAR"} :
          Hay(pila'[k], x, q) => Hay(pila[k], x, q)
  BY <1>1 DEF Sale, Pasa, SinProceso, SoloTiene, Camino
<1>3. ASSUME NEW k \in Hilos, NEW r \in Procs, ready # <<>>, Elegido(r), Vela(k, Head(ready), r)
      PROVE  \E j \in Hilos : Vela(j, Head(ready), r)'
  <2>1. PICK q \in Procs : q = Head(ready)
    BY <1>3, PrimeroDeReady DEF IInvUnaCpu
  <2>2. CASE k = h
    <3>1. q = p
      BY <1>3, <2>1, <2>2 DEF Vela, Sale, Pasa, SoloTiene
    <3>2. Vela(h, p, r)'
      BY <1>3, <2>1, <2>2, <3>1
    <3>3. ready' = ready
      OBVIOUS
    <3> QED
      BY <2>1, <3>1, <3>2, <3>3 DEF Vela
  <2>3. CASE k # h
    <3>1. Vela(k, q, r)'
      BY <1>1, <1>3, <2>1, <2>3 DEF Vela
    <3>2. ready' = ready
      OBVIOUS
    <3> QED
      BY <2>1, <3>1, <3>2 DEF Vela
  <2> QED
    BY <2>2, <2>3
<1> QED
  BY <1>2, <1>3, SigueComparado

LEMMA ReadyPrimeroCompara ==
    ASSUME SolaCpu, IInvUnaCpu, ElegidoAlDia, NEW h \in Hilos, NEW p \in Procs,
           ReadyPrimero(h, p)
    PROVE  ElegidoAlDia'
<1>1. UNCHANGED <<planVars, cpuVars, redVars, desalojo>>
  BY DEF ReadyPrimero
<1>2. IF ready # <<>> /\ Head(ready) = p
      THEN Pasa(h, "READY_PRIMERO", "DESALOJAR", p) ELSE Sale(h, "READY_PRIMERO", p)
  <2>1. "DESALOJAR" \in Movimientos
    BY DEF Movimientos, Ops, Servicio
  <2> QED
    BY <2>1, PilaSale, PilaPasa DEF ReadyPrimero, IInvUnaCpu
<1>3. ready # <<>> /\ p = Head(ready) => \A r \in Procs : Vela(h, p, r)'
  BY <1>2 DEF Vela, Pasa, SoloTiene, Camino
<1>4. Sale(h, "READY_PRIMERO", p) \/ \E x \in Camino \cup {"COMPARAR"} : Pasa(h, "READY_PRIMERO", x, p)
  BY <1>2 DEF Camino
<1> QED
  BY <1>1, <1>3, <1>4, PasaComparado DEF planVars, cpuVars, redVars

LEMMA DesalojarCompara ==
    ASSUME SolaCpu, IInvUnaCpu, ElegidoAlDia, NEW h \in Hilos, NEW p \in Procs,
           Desalojar(h, p)
    PROVE  ElegidoAlDia'
<1>1. UNCHANGED <<planVars, cpuVars, redVars>> /\ desalojo.hilo = Nadie
  BY DEF Desalojar
<1>2. Pasa(h, "DESALOJAR", "MIRAR_CPU", p)
  <2>1. "MIRAR_CPU" \in Movimientos /\ LaCpu # Nadie
    BY HilosDistintos, NadieAssumption DEF Movimientos, Ops, Servicio
  <2>2. Sigue(h, <<Por("MIRAR_CPU", p)>>)
    BY <2>1, ElegibleLaCpu DEF Desalojar, IInvUnaCpu
  <2> QED
    BY <2>1, <2>2, PilaPasa DEF Desalojar, IInvUnaCpu
<1>3. \A r \in Procs : Vela(h, p, r)'
  BY <1>2 DEF Vela, Pasa, SoloTiene, Camino
<1>4. \A k \in Hilos, q \in Procs : ~Hay(pila[k], "COMPARAR", q)
  BY <1>1, UnoCompara, HilosAssumption
<1>5. \E x \in Camino \cup {"COMPARAR"} : Pasa(h, "DESALOJAR", x, p)
  BY <1>2 DEF Camino
<1> QED
  BY <1>1, <1>3, <1>4, <1>5, PasaComparado DEF planVars, cpuVars, redVars

LEMMA MirarCpuCompara ==
    ASSUME SolaCpu, IInvUnaCpu, ElegidoAlDia, NEW h \in Hilos, NEW p \in Procs,
           MirarCpu(h, p)
    PROVE  ElegidoAlDia'
<1>1. UNCHANGED <<planVars, cpuVars, redVars>>
  BY DEF MirarCpu
<1>2. Hay(pila[h], "MIRAR_CPU", p)
  BY TocaHay DEF MirarCpu
<1>3. desalojo.hilo = h /\ desalojo.cpu = LaCpu
  BY <1>2, UnoCompara, HilosDistintos
<1>4. IF cpuPid[LaCpu] = Nadie
      THEN Sale(h, "MIRAR_CPU", p)
      ELSE /\ Pasa(h, "MIRAR_CPU", "COMPARAR", p)
           /\ desalojo' = [desalojo EXCEPT !.victima = cpuPid[LaCpu]]
  <2>1. "COMPARAR" \in Movimientos
    BY DEF Movimientos, Ops, Servicio
  <2> QED
    BY <1>3, <2>1, PilaSale, PilaPasa DEF MirarCpu, IInvUnaCpu
<1>5. \A k \in Hilos \ {h}, q \in Procs : ~Hay(pila[k], "COMPARAR", q)
  BY <1>3, UnoCompara
<1>6. ASSUME NEW r \in Procs, Elegido(r) PROVE Vela(h, p, r)'
  <2>1. cpuPid[LaCpu] = r /\ r # Nadie
    BY <1>6, ElegidoLaCpu DEF ElegidoAlDia
  <2>2. desalojo'.victima = r
    BY <1>4, <2>1 DEF IInvUnaCpu, TypeOK
  <2> QED
    BY <1>4, <2>1, <2>2 DEF Vela, Pasa, SoloTiene
<1>7. Sale(h, "MIRAR_CPU", p) \/ \E x \in Camino \cup {"COMPARAR"} : Pasa(h, "MIRAR_CPU", x, p)
  BY <1>4
<1> QED
  BY <1>1, <1>5, <1>6, <1>7, PasaComparado DEF planVars, cpuVars, redVars

LEMMA EliminarCompara ==
    ASSUME SolaCpu, IInvUnaCpu, ElegidoAlDia, NEW h \in Hilos, NEW p \in Procs,
           Eliminar(h, p)
    PROVE  ElegidoAlDia'
<1>1. /\ UNCHANGED <<ready, estimada, crono, cpuVars, redVars, desalojo>>
      /\ estado' = [estado EXCEPT ![p] = "ELIMINADO"]
  BY DEF Eliminar
<1>2. Sale(h, "ELIMINAR", p)
  BY PilaSale DEF Eliminar, IInvUnaCpu
<1>3. \A r : ~Vela(h, p, r)
  BY <1>2 DEF Vela, Sale, SoloTiene, Camino
<1>4. \A q \in Procs : estado[q] = "EXECUTE" => estado'[q] = "EXECUTE"
  <2>1. estado[p] = "EXIT"
    BY <1>2 DEF Sale, SoloTiene, IInvUnaCpu, TareasAlDia, TareaAlDia
  <2> QED
    BY <1>1, <2>1 DEF IInvUnaCpu, TypeOK
<1> QED
  BY <1>1, <1>2, <1>3, <1>4, PasaComparado DEF cpuVars, redVars

(* A thread with nothing about processes, or nothing at all, takes up other *)
(* tasks than dispatching.                                                  *)
LEMMA NuevaComparado ==
    ASSUME SolaCpu, IInvUnaCpu, ElegidoAlDia,
           UNCHANGED <<ready, estimada, crono, contexto, interrupt, colado, desalojo>>,
           cpuPid' = cpuPid \/ Contexto = <<>>,
           \A q \in Procs : estado[q] = "EXECUTE" => estado'[q] = "EXECUTE",
           NEW h \in Hilos,
           \A k \in Hilos \ {h} : pila'[k] = pila[k],
           \A q \in Procs : \A x \in {"EXECUTE", "ENVIAR"} :
              Hay(pila'[h], x, q) => Hay(pila[h], x, q),
           \A q \in Procs : \A x \in Camino \cup {"COMPARAR"} :
              Hay(pila[h], x, q) => Hay(pila'[h], x, q)
    PROVE  ElegidoAlDia'
<1>1. \A k \in Hilos, q \in Procs : \A x \in {"EXECUTE", "ENVIAR"} :
          Hay(pila'[k], x, q) => Hay(pila[k], x, q)
  OBVIOUS
<1>2. ASSUME NEW k \in Hilos, NEW r \in Procs, ready # <<>>, Vela(k, Head(ready), r)
      PROVE  Vela(k, Head(ready), r)'
  <2>1. PICK q \in Procs : q = Head(ready) /\ q = Head(ready')
    BY <1>2, PrimeroDeReady DEF IInvUnaCpu
  <2>2. Vela(k, q, r)'
    BY <1>2, <2>1 DEF Vela
  <2> QED
    BY <2>1, <2>2 DEF Vela
<1> QED
  BY <1>1, <1>2, SigueComparado

LEMMA NadieCompara ==
    ASSUME SolaCpu, IInvUnaCpu, ElegidoAlDia, NEW h \in Hilos,
           NEW o \in Mandan, Toca(h, o, Nadie),
           Sigue(h, <<>>) \/ \E r \in Mandan : Sigue(h, <<Sola(r)>>),
           UNCHANGED <<planVars, cpuVars, redVars, desalojo>>
    PROVE  ElegidoAlDia'
<1>1. PICK s : /\ s \in Seq(Tarea) /\ Forma(s) /\ Sigue(h, s)
               /\ \A x, q : Hay(s, x, q) => q = Nadie
  <2>1. CASE Sigue(h, <<>>)
    BY <2>1, PilasTarea, PilaVacia
  <2>2. ASSUME NEW r \in Mandan, Sigue(h, <<Sola(r)>>)
        PROVE  \E s : /\ s \in Seq(Tarea) /\ Forma(s) /\ Sigue(h, s)
                      /\ \A x, q : Hay(s, x, q) => q = Nadie
    BY <2>2, PilasTarea, PilaDeServicio
  <2> QED
    BY <2>1, <2>2
<1>2. /\ \A x, q : Hay(pila[h], x, q) <=> x = o /\ q = Nadie
      /\ SiguePila(h, s)
  BY <1>1, SoloManda
<1>3. /\ \A x : \A q \in Procs : ~Hay(pila[h], x, q) /\ ~Hay(pila'[h], x, q)
      /\ \A k \in Hilos \ {h} : pila'[k] = pila[k]
  BY <1>1, <1>2, NadieAssumption DEF SiguePila
<1> QED
  BY <1>3, NuevaComparado DEF planVars, cpuVars, redVars

LEMMA LiberarCompara ==
    ASSUME SolaCpu, IInvUnaCpu, ElegidoAlDia, NEW c \in Cpus, Liberar(c)
    PROVE  ElegidoAlDia'
<1>1. c = LaCpu
  BY HilosDistintos
<1>2. PICK h \in Hilos : h = Cpu(LaCpu)
  BY HilosDistintos
<1>3. PICK s, u : s = pila[h] /\ u = <<>> \o Tail(s)
  OBVIOUS
<1>4. Forma(s) /\ s # <<>> /\ Head(s) = Por("LIBERAR_CPU", Nadie)
  BY <1>1, <1>2, <1>3 DEF IInvUnaCpu, Formas, Liberar, Toca
<1>5. /\ Forma(u)
      /\ Hay(s, "LIBERAR_CPU", Nadie)
      /\ \A x : \A q \in Procs : Hay(u, x, q) <=> Hay(s, x, q)
  BY <1>3, <1>4, FormaLiberar
<1>6. SiguePila(h, u)
  <2>1. pila' = [pila EXCEPT ![h] = u]
    BY <1>1, <1>2, <1>3 DEF Liberar, Sigue
  <2> QED
    BY <1>5, <2>1, PilaSigue DEF IInvUnaCpu
<1>7. Contexto = <<>>
  BY <1>3, <1>5 DEF IInvUnaCpu, UnOcupante, Ocupa, Libera
<1>8. UNCHANGED <<planVars, colado, redVars, desalojo>>
  BY DEF Liberar
<1>9. /\ \A k \in Hilos \ {h} : pila'[k] = pila[k]
      /\ \A x : \A q \in Procs : Hay(pila'[h], x, q) <=> Hay(pila[h], x, q)
  BY <1>3, <1>5, <1>6 DEF SiguePila
<1> QED
  BY <1>7, <1>8, <1>9, NuevaComparado DEF planVars, redVars

LEMMA FinDeIOCompara ==
    ASSUME SolaCpu, IInvUnaCpu, ElegidoAlDia, NEW p \in Procs, FinDeIO(p)
    PROVE  ElegidoAlDia'
<1>1. PICK h \in Hilos : h = Io(p)
  BY HilosDistintos
<1>2. PICK s : s = <<Por("READY", p)>>
  OBVIOUS
<1>3. Forma(s) /\ \A x, q : Hay(s, x, q) <=> x = "READY" /\ q = p
  BY <1>2, PilaDeProceso DEF Movimientos, Ops, Servicio
<1>4. SiguePila(h, s)
  BY <1>1, <1>2, <1>3, PilaSigue DEF FinDeIO, IInvUnaCpu
<1>5. \A x, q : ~Hay(pila[h], x, q)
  <2>1. PICK u : u = pila[h] /\ u = <<>>
    BY <1>1 DEF FinDeIO
  <2> QED
    BY <2>1, PilaVacia
<1>6. /\ \A k \in Hilos \ {h} : pila'[k] = pila[k]
      /\ \A x, q : Hay(pila'[h], x, q) => x = "READY"
  BY <1>3, <1>4 DEF SiguePila
<1>7. UNCHANGED <<planVars, cpuVars, contexto, interrupt, desalojo>>
  BY DEF FinDeIO
<1> QED
  BY <1>5, <1>6, <1>7, NuevaComparado DEF planVars, cpuVars, Camino

LEMMA AtenderCompara ==
    ASSUME SolaCpu, IInvUnaCpu, ElegidoAlDia, NEW c \in Cpus, Atender(c)
    PROVE  ElegidoAlDia'
<1>1. c = LaCpu
  BY HilosDistintos
<1>2. PICK h \in Hilos : h = Cpu(LaCpu)
  BY HilosDistintos
<1>3. PICK m \in Mensaje : m = Head(Mensajes) /\ Mensajes # <<>> /\ m = Mensajes[1]
                           /\ 1 \in DOMAIN Mensajes
  <2>1. Mensajes # <<>> /\ Mensajes \in Seq(Mensaje)
    BY <1>1, MensajesTipo DEF Atender, Mensajes, IInvUnaCpu
  <2> QED
    BY <2>1
<1>4. m.pid \in Procs /\ (m.op = "INIT_PROC" \/ m.op \in Paran)
  BY <1>3, MensajesTipo DEF IInvUnaCpu
<1>5. PICK s : s = TareasDe(m.op, m.pid)
  OBVIOUS
<1>6. Forma(s) /\ \A x : \A q \in Procs : Hay(s, x, q) => x \in {"READY", "BLOCKED", "EXIT"}
  <2>1. CASE m.op = "INIT_PROC"
    BY <1>4, <1>5, <2>1, TareasAtendidas
  <2>2. CASE m.op \in Paran
    BY <1>4, <1>5, <2>2, TareasAtendidas, NadieAssumption DEF Movida
  <2> QED
    BY <1>4, <2>1, <2>2
<1>7. /\ pila' = [pila EXCEPT ![h] = s] /\ pila[h] = <<>>
      /\ estado' = IF m.op = "INIT_PROC" THEN [estado EXCEPT ![m.pid] = "NEW"] ELSE estado
      /\ UNCHANGED <<ready, estimada, crono, cpuVars, contexto, interrupt, desalojo>>
  BY <1>1, <1>2, <1>3, <1>5 DEF Atender, Mensajes
<1>8. SiguePila(h, s)
  BY <1>6, <1>7, PilaSigue DEF IInvUnaCpu
<1>9. \A x, q : ~Hay(pila[h], x, q)
  <2>1. PICK u : u = pila[h] /\ u = <<>>
    BY <1>7
  <2> QED
    BY <2>1, PilaVacia
<1>10. \A q \in Procs : estado[q] = "EXECUTE" => estado'[q] = "EXECUTE"
  <2>1. m.op = "INIT_PROC" => estado[m.pid] = "NO_CREADO"
    BY <1>3, <1>4 DEF IInvUnaCpu, LugaresAlDia, LugarAlDia
  <2> QED
    BY <1>4, <1>7, <2>1 DEF IInvUnaCpu, TypeOK
<1>11. /\ \A k \in Hilos \ {h} : pila'[k] = pila[k]
       /\ \A x : \A q \in Procs : Hay(pila'[h], x, q) => x \in {"READY", "BLOCKED", "EXIT"}
  BY <1>6, <1>8 DEF SiguePila
<1> QED
  BY <1>7, <1>9, <1>10, <1>11, NuevaComparado DEF cpuVars, Camino

(* The CPU is given to p: from READY's head, or p is known not to compare.  *)
LEMMA ReservaCompara ==
    ASSUME SolaCpu, IInvUnaCpu, ElegidoAlDia, cpuPid[LaCpu] = Nadie, NEW p \in Procs,
           Reservar(p), NEW h \in Hilos,
           \A k \in Hilos \ {h} : pila'[k] = pila[k],
           \A q \in Procs : \A x \in {"EXECUTE", "ENVIAR"} :
              Hay(pila'[h], x, q) => x = "EXECUTE" /\ q = p,
           UNCHANGED <<planVars, contexto, interrupt>>
    PROVE  ElegidoAlDia'
<1>1. Contexto = <<>> /\ Contexto' = <<>> /\ \A r : ~Esta(r, Contexto) /\ ~Esta(r, Contexto')
  BY EstaEnVacia DEF IInvUnaCpu, UnOcupante, Contexto
<1>2. UNCHANGED <<estado, ready, estimada, crono>>
  BY DEF planVars
<1>3. CronosAlDia'
  BY <1>2 DEF ElegidoAlDia, CronosAlDia
<1>4. ContextoAlDia'
  BY <1>1 DEF ContextoAlDia
<1>5. Comparados'
  <2> SUFFICES ASSUME LaCpu \notin colado', ready # <<>>, NEW r \in Procs, Elegido(r)'
               PROVE  Resta(r)' <= estimada[Head(ready)]
    BY <1>2 DEF Comparados, Comparado
  <2>1. Head(ready) = p
    <3>1. Primera(CpusDisponibles) = LaCpu
      BY LaDisponible, PrimeraLaCpu
    <3> QED
      BY <3>1 DEF Reservar
  <2>2. r = p
    <3>1. ~Elegido(r)
      BY ElegidoLaCpu DEF ElegidoAlDia
    <3> QED
      BY <1>1, <3>1 DEF Elegido
  <2>3. Resta(r)' = estimada[p]
    BY <1>1, <1>2, <2>2 DEF Resta
  <2>4. estimada[p] \in Nat
    BY DEF IInvUnaCpu, TypeOK
  <2> QED
    BY <2>1, <2>3, <2>4
<1> QED
  BY <1>3, <1>4, <1>5 DEF ElegidoAlDia

LEMMA ReadyCpuCompara ==
    ASSUME SolaCpu, IInvUnaCpu, ElegidoAlDia, algoritmo = "SJFcD", NEW h \in Hilos,
           NEW p \in Procs, ReadyCpu(h, p)
    PROVE  ElegidoAlDia'
<1>1. UNCHANGED <<planVars, redVars, desalojo>>
  BY DEF ReadyCpu
<1>2. {"READY_PRIMERO", "EXECUTE"} \subseteq Movimientos
  BY DEF Movimientos, Ops, Servicio
<1>3. CASE cpuPid[LaCpu] # Nadie
  <2>1. UNCHANGED cpuVars /\ Pasa(h, "READY_CPU", "READY_PRIMERO", p)
    BY <1>2, <1>3, LaDisponible, PilaPasa DEF ReadyCpu, IInvUnaCpu
  <2>2. \A r \in Procs : Vela(h, p, r)'
    BY <2>1 DEF Vela, Pasa, SoloTiene, Camino
  <2>3. \E x \in Camino \cup {"COMPARAR"} : Pasa(h, "READY_CPU", x, p)
    BY <2>1 DEF Camino
  <2> QED
    BY <1>1, <2>1, <2>2, <2>3, PasaComparado DEF planVars, cpuVars, redVars
<1>4. CASE cpuPid[LaCpu] = Nadie
  <2>1. Reservar(p) /\ Pasa(h, "READY_CPU", "EXECUTE", p)
    BY <1>2, <1>4, LaDisponible, PilaPasa DEF ReadyCpu, IInvUnaCpu
  <2>2. /\ \A k \in Hilos \ {h} : pila'[k] = pila[k]
        /\ \A q \in Procs : \A x : Hay(pila'[h], x, q) => x = "EXECUTE" /\ q = p
    BY <2>1 DEF Pasa, SoloTiene
  <2> QED
    BY <1>1, <1>4, <2>1, <2>2, ReservaCompara DEF redVars
<1> QED
  BY <1>3, <1>4

LEMMA MandarTomarCompara ==
    ASSUME SolaCpu, IInvUnaCpu, ElegidoAlDia, NEW h \in Hilos, MandarTomar(h)
    PROVE  ElegidoAlDia'
<1>1. /\ Toca(h, "MANDAR_TOMAR", Nadie)
      /\ UNCHANGED <<planVars, redVars, desalojo>>
  BY DEF MandarTomar
<1>2. CASE ~(cpuPid[LaCpu] = Nadie /\ ready # <<>>)
  <2>1. Sigue(h, <<>>) /\ UNCHANGED cpuVars
    BY <1>2, LaDisponible DEF MandarTomar
  <2> QED
    BY <1>1, <2>1, NadieCompara DEF Mandan
<1>3. CASE cpuPid[LaCpu] = Nadie /\ ready # <<>>
  <2>1. PICK p \in Procs : p = Head(ready)
    BY <1>3, PrimeroDeReady DEF IInvUnaCpu
  <2>2. Reservar(p) /\ Sigue(h, EjecutarYVer(p))
    BY <1>3, <2>1, LaDisponible DEF MandarTomar, EjecutarYVer
  <2>3. SiguePila(h, EjecutarYVer(p))
    BY <1>1, <2>2, SoloManda, PilasTarea, PilaDeTomar DEF Mandan
  <2>4. /\ \A k \in Hilos \ {h} : pila'[k] = pila[k]
        /\ \A q \in Procs : \A x : Hay(pila'[h], x, q) => x = "EXECUTE" /\ q = p
    BY <2>3, PilaDeTomar, NadieAssumption DEF SiguePila
  <2> QED
    BY <1>1, <1>3, <2>2, <2>4, ReservaCompara DEF redVars
<1> QED
  BY <1>2, <1>3

(* A timer that is not running any more counts nothing.                     *)
LEMMA CronoAlCambiar ==
    ASSUME TypeOK, Sjf, CronosAlDia, NEW p \in Procs, NEW e, CambiarEstado(p, e)
    PROVE  /\ ~(crono'[p] >= 0)
           /\ \A q \in Procs \ {p} : crono'[q] = crono[q]
<1>1. crono' = [crono EXCEPT ![p] = IF DejaCpu(p) THEN Liberado ELSE @]
  BY DEF CambiarEstado
<1>2. crono \in [Procs -> {Nulo, Liberado} \cup 0..MaxRafaga]
  BY DEF TypeOK
<1>3. \A q \in Procs \ {p} : crono'[q] = crono[q]
  BY <1>1, <1>2
<1>4. CASE DejaCpu(p)
  <2>1. crono'[p] = -2
    BY <1>1, <1>2, <1>4 DEF Liberado
  <2> QED
    BY <1>3, <2>1
<1>5. CASE ~DejaCpu(p)
  <2>1. crono'[p] = crono[p]
    BY <1>1, <1>2, <1>5
  <2>2. CASE estado[p] = "EXECUTE"
    <3>1. crono'[p] = -1
      BY <1>5, <2>1, <2>2 DEF DejaCpu, Nulo
    <3> QED
      BY <1>3, <3>1
  <2>3. CASE estado[p] # "EXECUTE"
    BY <1>3, <2>1, <2>3 DEF CronosAlDia
  <2> QED
    BY <2>2, <2>3
<1> QED
  BY <1>4, <1>5

(* A process that changes from another state than READY has not been given  *)
(* the CPU.                                                                 *)
LEMMA MovidoNoElegido ==
    ASSUME SolaCpu, IInvUnaCpu, NEW h \in Hilos, NEW p \in Procs, NEW o \in {"READY", "BLOCKED", "EXIT"},
           Hay(pila[h], o, p)
    PROVE  ~Elegido(p) /\ ~Esta(p, ready)
<1>1. estado[p] # "READY"
  BY DEF IInvUnaCpu, TareasAlDia, TareaAlDia
<1>2. \A k \in Hilos : ~Hay(pila[k], "EXECUTE", p)
  BY <1>1 DEF IInvUnaCpu, TareasAlDia, TareaAlDia
<1>3. CASE estado[p] = "EXECUTE"
  <2>1. Parado(p)
    BY <1>3, HilosDistintos DEF IInvUnaCpu, TareasAlDia, TareaAlDia, Parado
  <2> QED
    BY <1>1, <1>2, <1>3, <2>1 DEF IInvUnaCpu, Parados, Elegido, ReadyExacta
<1>4. CASE estado[p] # "EXECUTE"
  <2>1. ~Esta(p, Contexto) /\ \A k \in Hilos : ~Hay(pila[k], "ENVIAR", p)
    BY <1>4 DEF IInvUnaCpu, LugaresAlDia, LugarAlDia, TareasAlDia, TareaAlDia
  <2> QED
    BY <1>1, <1>2, <2>1 DEF IInvUnaCpu, Elegido, ReadyExacta
<1> QED
  BY <1>3, <1>4

(* What those changes of state have in common.                              *)
LEMMA MovidoSigue ==
    ASSUME SolaCpu, IInvUnaCpu, ElegidoAlDia, Sjf, NEW h \in Hilos, NEW p \in Procs,
           NEW o \in {"READY", "BLOCKED", "EXIT"}, NEW e, CambiarEstado(p, e),
           Sale(h, o, p) \/ \E x \in {"READY_CPU", "ELIMINAR"} : Pasa(h, o, x, p),
           estado' = [estado EXCEPT ![p] = e],
           \A q \in Procs \ {p} : estimada'[q] = estimada[q],
           UNCHANGED <<contexto, interrupt, cpuPid, colado, desalojo>>
    PROVE  /\ CronosAlDia' /\ ContextoAlDia'
           /\ Contexto' = Contexto /\ (Avisada' <=> Avisada)
           /\ \A r \in Procs : Elegido(r)' =>
                 Elegido(r) /\ r # p /\ Resta(r)' = Resta(r)
           /\ \A k \in Hilos, q \in Procs, r \in Procs : Vela(k, q, r) => Vela(k, q, r)'
<1>1. Contexto' = Contexto /\ (Avisada' <=> Avisada)
  BY DEF Contexto, Avisada
<1>2. /\ ~(crono'[p] >= 0)
      /\ \A q \in Procs \ {p} : crono'[q] = crono[q] /\ estado'[q] = estado[q]
  BY CronoAlCambiar DEF IInvUnaCpu, ElegidoAlDia, TypeOK
<1>3. /\ \A k \in Hilos \ {h} : pila'[k] = pila[k]
      /\ \A q \in Procs : \A x \in {"EXECUTE", "ENVIAR"} : ~Hay(pila'[h], x, q)
      /\ \A q \in Procs : \A x \in Camino \cup {"COMPARAR"} : ~Hay(pila[h], x, q)
      /\ Hay(pila[h], o, p)
  BY DEF Sale, Pasa, SinProceso, SoloTiene, Camino
<1>4. CronosAlDia'
  BY <1>2, <1>3 DEF ElegidoAlDia, CronosAlDia
<1>5. ContextoAlDia'
  BY <1>1 DEF ElegidoAlDia, ContextoAlDia
<1>6. ASSUME NEW r \in Procs, Elegido(r)' PROVE Elegido(r) /\ r # p /\ Resta(r)' = Resta(r)
  <2>1. Elegido(r)
    BY <1>1, <1>3, <1>6 DEF Elegido
  <2>2. r # p
    BY <1>3, <2>1, MovidoNoElegido
  <2> QED
    BY <1>1, <1>2, <2>1, <2>2 DEF Resta, LoQueQueda
<1>7. \A k \in Hilos, q \in Procs, r \in Procs : Vela(k, q, r) => Vela(k, q, r)'
  BY <1>3 DEF Vela
<1> QED
  BY <1>1, <1>4, <1>5, <1>6, <1>7

LEMMA ReadyCompara ==
    ASSUME SolaCpu, IInvUnaCpu, ElegidoAlDia, Sjf, NEW h \in Hilos, NEW p \in Procs, Ready(h, p)
    PROVE  ElegidoAlDia'
<1>1. UNCHANGED <<cpuVars, redVars, desalojo>> /\ CambiarEstado(p, "READY")
  BY DEF Ready
<1>2. Pasa(h, "READY", "READY_CPU", p)
  <2>1. "READY_CPU" \in Movimientos
    BY DEF Movimientos, Ops, Servicio
  <2> QED
    BY <2>1, PilaPasa DEF Ready, IInvUnaCpu
<1>3. Hay(pila[h], "READY", p) /\ estado[p] # "READY"
  BY <1>2 DEF Pasa, SoloTiene, IInvUnaCpu, TareasAlDia, TareaAlDia
<1>4. /\ estado' = [estado EXCEPT ![p] = "READY"]
      /\ \A q \in Procs \ {p} : estimada'[q] = estimada[q]
      /\ \E i : Insertada(ready', ready, i, p)
  BY <1>1, <1>3, CambiarAReady DEF IInvUnaCpu
<1>5. /\ CronosAlDia' /\ ContextoAlDia'
      /\ Contexto' = Contexto /\ (Avisada' <=> Avisada)
      /\ \A r \in Procs : Elegido(r)' =>
            Elegido(r) /\ r # p /\ Resta(r)' = Resta(r)
      /\ \A k \in Hilos, q \in Procs, r \in Procs : Vela(k, q, r) => Vela(k, q, r)'
  BY <1>1, <1>2, <1>4, MovidoSigue DEF cpuVars, redVars
<1>6. PICK i : Insertada(ready', ready, i, p)
  BY <1>4
<1>7. /\ ready \in Seq(Procs) /\ ready' \in Seq(Procs) /\ Len(ready) \in Nat
      /\ Len(ready') = Len(ready) + 1 /\ i \in 1..Len(ready')
      /\ ready'[1] = IF 1 < i THEN ready[1] ELSE p
      /\ Head(ready') = ready'[1]
  <2>1. /\ ready \in Seq(Procs) /\ ready' \in Seq(Procs) /\ Len(ready) \in Nat
        /\ Len(ready') = Len(ready) + 1 /\ i \in 1..Len(ready')
    BY <1>6 DEF Insertada, IInvUnaCpu, TypeOK
  <2>2. 1 \in 1..Len(ready')
    BY <2>1
  <2>3. ready'[1] = IF 1 < i THEN ready[1] ELSE IF 1 = i THEN p ELSE ready[1 - 1]
    BY <1>6, <2>2 DEF Insertada
  <2>4. 1 < i \/ 1 = i
    BY <2>1
  <2>5. Head(ready') = ready'[1]
    BY <2>1
  <2> QED
    BY <2>1, <2>3, <2>4, <2>5
<1>8. Comparados'
  <2> SUFFICES ASSUME LaCpu \notin colado, NEW r \in Procs, Elegido(r)'
               PROVE  Comparado(r)'
    BY <1>1 DEF Comparados, cpuVars
  <2>1. Elegido(r) /\ r # p /\ Resta(r)' = Resta(r)
    BY <1>5
  <2>2. CASE Head(ready') = p
    <3>1. Vela(h, p, r)'
      BY <1>2 DEF Vela, Pasa, SoloTiene, Camino
    <3> QED
      BY <2>2, <3>1 DEF Comparado, Vela
  <2>3. CASE Head(ready') # p
    <3>1. ready # <<>> /\ ready'[1] = ready[1]
      BY <1>7, <2>3
    <3>2. PICK q \in Procs : q = Head(ready) /\ q = Head(ready') /\ q # p
      BY <1>7, <2>3, <3>1, PrimeroDeReady DEF IInvUnaCpu
    <3>3. Comparado(r)
      BY <2>1, <3>1 DEF ElegidoAlDia, Comparados
    <3>4. estimada'[q] = estimada[q]
      BY <1>4, <3>2
    <3>5. \A k \in Hilos : Vela(k, q, r) => Vela(k, Head(ready), r)'
      BY <1>5, <3>2 DEF Vela
    <3> QED
      BY <1>5, <2>1, <3>2, <3>3, <3>4 DEF Comparado, Vela
  <2> QED
    BY <2>2, <2>3
<1> QED
  BY <1>5, <1>8 DEF ElegidoAlDia

LEMMA SacaCompara ==
    ASSUME SolaCpu, IInvUnaCpu, ElegidoAlDia, Sjf, NEW h \in Hilos, NEW p \in Procs,
           Blocked(h, p) \/ Exit(h, p)
    PROVE  ElegidoAlDia'
<1>1. PICK o \in {"BLOCKED", "EXIT"} :
        /\ CambiarEstado(p, o)
        /\ Sale(h, o, p) \/ \E x \in {"READY_CPU", "ELIMINAR"} : Pasa(h, o, x, p)
  <2>1. "ELIMINAR" \in Movimientos
    BY DEF Movimientos, Ops, Servicio
  <2> QED
    BY <2>1, PilaSale, PilaPasa DEF Blocked, Exit, IInvUnaCpu
<1>2. UNCHANGED <<cpuVars, contexto, interrupt, desalojo>>
  BY DEF Blocked, Exit, redVars
<1>3. Hay(pila[h], o, p)
  BY <1>1 DEF Sale, Pasa, SoloTiene
<1>4. estado[p] = "EXECUTE" /\ ~Esta(p, ready)
  BY <1>3, MovidoNoElegido DEF IInvUnaCpu, TareasAlDia, TareaAlDia
<1>5. /\ estado' = [estado EXCEPT ![p] = o]
      /\ \A q \in Procs \ {p} : estimada'[q] = estimada[q]
      /\ ready' = ready
  BY <1>1, <1>4, CambiarDesdeExecute DEF IInvUnaCpu
<1>6. /\ CronosAlDia' /\ ContextoAlDia'
      /\ Contexto' = Contexto /\ (Avisada' <=> Avisada)
      /\ \A r \in Procs : Elegido(r)' =>
            Elegido(r) /\ r # p /\ Resta(r)' = Resta(r)
      /\ \A k \in Hilos, q \in Procs, r \in Procs : Vela(k, q, r) => Vela(k, q, r)'
  BY <1>1, <1>2, <1>5, MovidoSigue DEF cpuVars
<1>7. Comparados'
  <2> SUFFICES ASSUME LaCpu \notin colado, ready # <<>>, NEW r \in Procs, Elegido(r)'
               PROVE  Comparado(r)'
    BY <1>2, <1>5 DEF Comparados, cpuVars
  <2>1. Elegido(r) /\ Resta(r)' = Resta(r)
    BY <1>6
  <2>2. Comparado(r)
    BY <2>1 DEF ElegidoAlDia, Comparados
  <2>3. PICK q \in Procs : q = Head(ready) /\ q = Head(ready') /\ q # p
    BY <1>4, <1>5, PrimeroDeReady DEF IInvUnaCpu
  <2>4. estimada'[q] = estimada[q]
    BY <1>5, <2>3
  <2> QED
    BY <1>6, <2>1, <2>2, <2>3, <2>4 DEF Comparado, Vela
<1> QED
  BY <1>6, <1>7 DEF ElegidoAlDia

(* The dispatch: p may not be the first any more, but those that came in    *)
(* ahead of it are about to compare.                                        *)
LEMMA ExecuteCompara ==
    ASSUME SolaCpu, IInvUnaCpu, ElegidoAlDia, ReadyOrdenada, Sjf, NEW h \in Hilos,
           NEW p \in Procs, Execute(h, p)
    PROVE  ElegidoAlDia'
<1>1. UNCHANGED <<cpuVars, redVars, desalojo>> /\ CambiarEstado(p, "EXECUTE")
  BY DEF Execute
<1>2. Pasa(h, "EXECUTE", "ENVIAR", p)
  <2>1. "ENVIAR" \in Movimientos
    BY DEF Movimientos, Ops, Servicio
  <2> QED
    BY <2>1, PilaPasa DEF Execute, IInvUnaCpu
<1>3. Hay(pila[h], "EXECUTE", p) /\ Elegido(p)
  BY <1>2 DEF Pasa, SoloTiene, Elegido
<1>4. estado[p] = "READY" /\ Esta(p, ready) /\ cpuPid[LaCpu] = p
  BY <1>3 DEF IInvUnaCpu, TareasAlDia, TareaAlDia, ReadyExacta
<1>5. /\ estado' = [estado EXCEPT ![p] = "EXECUTE"]
      /\ \A q \in Procs : estimada'[q] = estimada[q]
      /\ \E i : Quitada(ready', ready, i) /\ ready[i] = p
  BY <1>1, <1>4, CambiarDesdeReady DEF IInvUnaCpu
<1>6. Contexto = <<>> /\ Contexto' = <<>> /\ \A r : ~Esta(r, Contexto) /\ ~Esta(r, Contexto')
  <2>1. Contexto = <<>>
    BY <1>3 DEF IInvUnaCpu, UnOcupante, Ocupa, Despacha
  <2> QED
    BY <1>1, <2>1, EstaEnVacia DEF Contexto, redVars
<1>7. /\ ~(crono'[p] >= 0)
      /\ \A q \in Procs \ {p} : crono'[q] = crono[q] /\ estado'[q] = estado[q]
  BY <1>1, <1>5, CronoAlCambiar DEF IInvUnaCpu, ElegidoAlDia, TypeOK
<1>8. CronosAlDia'
  BY <1>2, <1>7 DEF ElegidoAlDia, CronosAlDia, Pasa, SoloTiene
<1>9. ContextoAlDia'
  BY <1>6 DEF ContextoAlDia
<1>10. \A r \in Procs : Elegido(r)' => r = p
  <2>1. \A r \in Procs : Elegido(r) => r = p
    BY <1>4, ElegidoLaCpu DEF ElegidoAlDia
  <2> QED
    BY <1>2, <1>6, <2>1 DEF Elegido, Pasa, SoloTiene
<1>11. PICK i : Quitada(ready', ready, i) /\ ready[i] = p
  BY <1>5
<1>12. /\ ready \in Seq(Procs) /\ ready' \in Seq(Procs) /\ Len(ready) \in Nat
       /\ Len(ready') = Len(ready) - 1 /\ i \in 1..Len(ready)
  BY <1>11 DEF Quitada, IInvUnaCpu, TypeOK
<1>13. Comparados'
  <2> SUFFICES ASSUME LaCpu \notin colado, ready' # <<>> PROVE Comparado(p)'
    BY <1>1, <1>10 DEF Comparados, cpuVars
  <2>1. Resta(p)' = estimada[p] /\ Resta(p) = estimada[p]
    BY <1>5, <1>6 DEF Resta
  <2>2. /\ Len(ready') >= 1 /\ Len(ready) >= 2 /\ 1 \in 1..Len(ready') /\ ready # <<>>
        /\ 2 \in DOMAIN ready /\ 1 \in DOMAIN ready
        /\ Head(ready') = ready'[1] /\ Head(ready) = ready[1]
    BY <1>12
  <2>3. ready'[1] = IF 1 < i THEN ready[1] ELSE ready[1 + 1]
    BY <1>11, <2>2 DEF Quitada
  <2>4. CASE i = 1
    <3>1. ready'[1] = ready[2] /\ ready[1] = p
      BY <1>11, <2>3, <2>4
    <3>2. estimada[ready[1]] <= estimada[ready[2]]
      BY <2>2 DEF ReadyOrdenada
    <3>3. Head(ready') \in Procs
      BY <1>12, <2>2
    <3>4. Resta(p)' <= estimada'[Head(ready')]
      BY <1>5, <2>1, <2>2, <3>1, <3>2, <3>3
    <3> QED
      BY <3>4 DEF Comparado
  <2>5. CASE i # 1
    <3>1. Head(ready') = Head(ready)
      BY <1>12, <2>2, <2>3, <2>5
    <3>2. PICK q \in Procs : q = Head(ready) /\ q = Head(ready')
      BY <2>2, <3>1, PrimeroDeReady DEF IInvUnaCpu
    <3>3. Comparado(p)
      BY <1>3, <2>2 DEF ElegidoAlDia, Comparados
    <3>4. \A k \in Hilos : Vela(k, q, p) => Vela(k, q, p)'
      BY <1>1, <1>2 DEF Vela, Pasa, SoloTiene, Camino
    <3>5. Avisada' <=> Avisada
      BY <1>1 DEF Avisada, redVars
    <3> QED
      BY <1>5, <2>1, <3>2, <3>3, <3>4, <3>5 DEF Comparado, Vela
  <2> QED
    BY <2>4, <2>5
<1> QED
  BY <1>8, <1>9, <1>13 DEF ElegidoAlDia

(* The timer starts with nothing counted.                                   *)
LEMMA EnviarCompara ==
    ASSUME SolaCpu, IInvUnaCpu, ElegidoAlDia, Sjf, NEW h \in Hilos, NEW p \in Procs, Enviar(h, p)
    PROVE  ElegidoAlDia'
<1>1. Hay(pila[h], "ENVIAR", p) /\ Elegido(p)
  BY TocaHay DEF Enviar, Elegido
<1>2. estado[p] = "EXECUTE" /\ cpuPid[LaCpu] = p
  BY <1>1 DEF IInvUnaCpu, TareasAlDia, TareaAlDia
<1>3. LaCpu \in CpusDe(p) /\ Primera(CpusDe(p)) = LaCpu
  BY <1>2, HilosDistintos, PrimeraLaCpu DEF CpusDe
<1>4. /\ contexto' = [contexto EXCEPT ![LaCpu] = Append(@, p)]
      /\ crono' = [crono EXCEPT ![p] = 0]
      /\ Sale(h, "ENVIAR", p)
      /\ UNCHANGED <<estado, ready, estimada, cpuVars, interrupt, desalojo>>
  BY <1>3, PilaSale DEF Enviar, IInvUnaCpu
<1>5. Contexto = <<>> /\ \A k \in Hilos \ {h} : ~Ocupa(pila[k])
  BY <1>1 DEF IInvUnaCpu, UnOcupante, Ocupa, Despacha
<1>6. \A r : Esta(r, Contexto') <=> r = p
  <2>1. PICK s : s = <<p>> /\ Append(<<>>, p) = s
    <3>1. Append(<<>>, p) = <<p>>
      OBVIOUS
    <3> QED
      BY <3>1
  <2>2. Contexto' = s
    BY <1>4, <1>5, <2>1, HilosDistintos DEF IInvUnaCpu, TypeOK, Contexto
  <2> QED
    BY <2>1, <2>2, EstaEnUna
<1>7. crono'[p] = 0 /\ \A q \in Procs \ {p} : crono'[q] = crono[q]
  BY <1>4 DEF IInvUnaCpu, TypeOK
<1>8. /\ \A k \in Hilos \ {h} : pila'[k] = pila[k]
      /\ \A k \in Hilos, q \in Procs : ~Hay(pila'[k], "EXECUTE", q) /\ ~Hay(pila'[k], "ENVIAR", q)
      /\ \A q \in Procs : \A x \in Camino \cup {"COMPARAR"} : ~Hay(pila[h], x, q)
  BY <1>4, <1>5 DEF Sale, SinProceso, SoloTiene, Camino, Ocupa, Despacha
<1>9. CronosAlDia'
  BY <1>2, <1>4, <1>7, <1>8 DEF ElegidoAlDia, CronosAlDia
<1>10. ContextoAlDia'
  BY <1>2, <1>4, <1>6 DEF ContextoAlDia, cpuVars
<1>11. Comparados'
  <2> SUFFICES ASSUME LaCpu \notin colado, ready # <<>> PROVE Comparado(p)'
    BY <1>4, <1>6, <1>8 DEF Comparados, cpuVars, Elegido
  <2>1. Comparado(p)
    BY <1>1 DEF ElegidoAlDia, Comparados
  <2>2. estimada[p] \in Nat
    BY DEF IInvUnaCpu, TypeOK
  <2>3. Resta(p) = estimada[p] /\ Resta(p)' = estimada[p]
    <3>1. LoQueQueda(estimada[p], 0) = estimada[p]
      BY <2>2 DEF LoQueQueda
    <3>2. Resta(p)' = LoQueQueda(estimada[p], 0)
      BY <1>4, <1>6, <1>7 DEF Resta, LoQueQueda
    <3> QED
      BY <1>5, <3>1, <3>2, EstaEnVacia DEF Resta
  <2>4. PICK q \in Procs : q = Head(ready) /\ q = Head(ready')
    BY <1>4, PrimeroDeReady DEF IInvUnaCpu
  <2>5. \A k \in Hilos : Vela(k, q, p) => Vela(k, q, p)'
    BY <1>4, <1>8 DEF Vela
  <2>6. Avisada' <=> Avisada
    BY <1>4 DEF Avisada
  <2> QED
    BY <1>4, <2>1, <2>3, <2>4, <2>5, <2>6 DEF Comparado, Vela
<1> QED
  BY <1>9, <1>10, <1>11 DEF ElegidoAlDia

(* The comparison.                                                          *)
LEMMA CompararCompara ==
    ASSUME SolaCpu, IInvUnaCpu, ElegidoAlDia, NEW h \in Hilos, NEW p \in Procs, Comparar(h, p),
           ~caido'
    PROVE  ElegidoAlDia'
<1>1. PICK v : v = desalojo.victima
  OBVIOUS
<1>2. /\ UNCHANGED <<planVars, cpuPid, contexto>>
      /\ Sale(h, "COMPARAR", p)
  BY PilaSale DEF Comparar, IInvUnaCpu
<1>3. Hay(pila[h], "COMPARAR", p)
  BY <1>2 DEF Sale, SoloTiene
<1>4. /\ desalojo.cpu = LaCpu /\ v \in Procs
      /\ \A k \in Hilos \ {h}, q \in Procs : ~Hay(pila[k], "COMPARAR", q)
  BY <1>1, <1>3, UnoCompara, HilosDistintos DEF IInvUnaCpu, DesalojoAlDia
<1>5. /\ estado[v] # "ELIMINADO" /\ estado[p] # "ELIMINADO" /\ crono[v] # Nulo
      /\ colado' = IF crono[v] = Liberado THEN colado \cup {LaCpu} ELSE colado
      /\ \E manda \in BOOLEAN :
            /\ crono[v] >= 0 => (manda = Conviene(v, p))
            /\ IF manda THEN EnviarInterrupt(LaCpu) ELSE UNCHANGED interrupt
  BY <1>1, <1>4 DEF Comparar
<1>6. Contexto' = Contexto
  BY <1>2 DEF Contexto
<1>7. CronosAlDia'
  BY <1>2 DEF ElegidoAlDia, CronosAlDia, Sale, SinProceso, planVars
<1>8. ContextoAlDia'
  BY <1>2, <1>6 DEF ElegidoAlDia, ContextoAlDia
<1>9. Comparados'
  <2> SUFFICES ASSUME LaCpu \notin colado', ready # <<>>, NEW r \in Procs, Elegido(r)'
               PROVE  Comparado(r)'
    BY <1>2 DEF Comparados, planVars
  <2>1. crono[v] # Liberado /\ LaCpu \notin colado
    BY <1>5
  <2>2. crono[v] >= 0 /\ crono[v] \in Nat
    BY <1>4, <1>5, <2>1 DEF IInvUnaCpu, TypeOK
  <2>3. CASE EnviarInterrupt(LaCpu)
    <3>1. PICK a : a = interrupt[LaCpu] /\ a \in Seq({"INTERRUPT", "TAMANIO"})
      BY HilosDistintos DEF IInvUnaCpu, TypeOK
    <3>2. PICK b : /\ b = <<"INTERRUPT", "TAMANIO">> /\ b \in Seq({"INTERRUPT", "TAMANIO"})
                   /\ Len(b) = 2 /\ b[1] = "INTERRUPT"
      <4>1. /\ <<"INTERRUPT", "TAMANIO">> \in Seq({"INTERRUPT", "TAMANIO"})
            /\ Len(<<"INTERRUPT", "TAMANIO">>) = 2
            /\ <<"INTERRUPT", "TAMANIO">>[1] = "INTERRUPT"
        OBVIOUS
      <4> QED
        BY <4>1
    <3>3. interrupt'[LaCpu] = a \o b
      BY <2>3, <3>1, <3>2, HilosDistintos DEF EnviarInterrupt, IInvUnaCpu, TypeOK
    <3>4. Len(a) + 1 \in DOMAIN (a \o b) /\ (a \o b)[Len(a) + 1] = "INTERRUPT"
      BY <3>1, <3>2
    <3> QED
      BY <3>3, <3>4 DEF Comparado, Avisada, Esta
  <2>4. CASE ~EnviarInterrupt(LaCpu)
    <3>1. interrupt' = interrupt /\ ~Conviene(v, p)
      BY <1>5, <2>2, <2>4
    <3>2. Elegido(r)
      BY <1>2, <1>6 DEF Elegido, Sale, SinProceso
    <3>3. Comparado(r)
      BY <2>1, <3>2 DEF ElegidoAlDia, Comparados
    <3>4. PICK q \in Procs : q = Head(ready) /\ q = Head(ready')
      BY <1>2, PrimeroDeReady DEF IInvUnaCpu, planVars
    <3>5. Resta(r)' = Resta(r) /\ estimada' = estimada /\ (Avisada' <=> Avisada)
      BY <1>2, <1>6, <3>1 DEF Resta, LoQueQueda, Avisada, planVars
    <3>6. ASSUME NEW k \in Hilos, Vela(k, q, r)
          PROVE  Vela(k, q, r)' \/ Resta(r) <= estimada[q]
      <4>1. CASE k # h
        BY <1>2, <1>4, <3>6, <4>1 DEF Vela, Sale
      <4>2. CASE k = h
        <5>1. q = p /\ r = v
          BY <1>1, <1>2, <3>6, <4>2 DEF Vela, Sale, SoloTiene, Camino
        <5>2. estado[r] = "EXECUTE" /\ \A j \in Hilos : ~Hay(pila[j], "ENVIAR", r)
          BY <2>2, <5>1 DEF ElegidoAlDia, CronosAlDia
        <5>3. \A j \in Hilos : ~Hay(pila[j], "EXECUTE", r)
          BY <5>2 DEF IInvUnaCpu, TareasAlDia, TareaAlDia
        <5>4. Esta(r, Contexto)
          BY <3>2, <5>2, <5>3 DEF Elegido
        <5>5. Resta(r) = LoQueQueda(estimada[v], crono[v])
          BY <5>1, <5>4 DEF Resta
        <5>6. LoQueQueda(estimada[v], crono[v]) \in Int /\ estimada[p] \in Nat
          <6>1. /\ estimada[v] \in Nat /\ crono[v] \in Nat
                /\ estimada[p] \in Nat
            BY <1>4, <2>2 DEF IInvUnaCpu, TypeOK
          <6> QED
            BY <6>1 DEF LoQueQueda
        <5> QED
          BY <3>1, <5>1, <5>5, <5>6 DEF Conviene
      <4> QED
        BY <4>1, <4>2
    <3> QED
      BY <3>3, <3>4, <3>5, <3>6 DEF Comparado, Vela
  <2> QED
    BY <2>3, <2>4
<1> QED
  BY <1>7, <1>8, <1>9 DEF ElegidoAlDia

(* An INTERRUPT that is read takes the process off the CPU.                 *)
LEMMA EjecutarCompara ==
    ASSUME SolaCpu, IInvUnaCpu, ElegidoAlDia, NEW c \in Cpus, Ejecutar(c)
    PROVE  ElegidoAlDia'
<1>1. c = LaCpu /\ LaCpu \in Cpus
  BY HilosDistintos
<1>2. Contexto # <<>> /\ Contexto \in Seq(Procs) /\ Len(Contexto) <= 1 /\ Tail(Contexto) = <<>>
  <2>1. Contexto # <<>> /\ Contexto \in Seq(Procs)
    BY <1>1, MensajesTipo DEF Ejecutar, Contexto, IInvUnaCpu
  <2>2. Len(Contexto) <= 1
    BY DEF IInvUnaCpu, UnOcupante
  <2> QED
    BY <2>1, <2>2, UnoSolo
<1>3. UNCHANGED <<pila, estado, ready, estimada, crono, cpuVars, desalojo>>
  BY DEF Ejecutar, planVars
<1>4. \A k \in Hilos, r \in Procs : ~Hay(pila[k], "EXECUTE", r) /\ ~Hay(pila[k], "ENVIAR", r)
  BY <1>2 DEF IInvUnaCpu, UnOcupante, Ocupa, Despacha
<1>5. \/ Contexto' = <<>>
      \/ Contexto' = Contexto /\ ~HayInterrupcion(LaCpu)
  BY <1>1, <1>2 DEF Ejecutar, Contexto, IInvUnaCpu, TypeOK
<1>6. CronosAlDia'
  BY <1>3 DEF ElegidoAlDia, CronosAlDia
<1>7. \A r : Esta(r, Contexto') => Contexto' = Contexto /\ ~HayInterrupcion(LaCpu)
  BY <1>5, EstaEnVacia
<1>8. ContextoAlDia'
  BY <1>3, <1>7 DEF ElegidoAlDia, ContextoAlDia, cpuVars
<1>9. Comparados'
  <2> SUFFICES ASSUME LaCpu \notin colado, ready # <<>>, NEW r \in Procs, Elegido(r)'
               PROVE  Comparado(r)'
    BY <1>3 DEF Comparados, cpuVars
  <2>1. Contexto' = Contexto /\ ~HayInterrupcion(LaCpu) /\ Elegido(r)
    BY <1>3, <1>4, <1>7 DEF Elegido
  <2>2. Comparado(r)
    BY <2>1 DEF ElegidoAlDia, Comparados
  <2>3. Avisada => Avisada'
    <3> SUFFICES ASSUME Avisada PROVE Avisada'
      OBVIOUS
    <3>1. PICK a : a = interrupt[LaCpu] /\ a \in Seq({"INTERRUPT", "TAMANIO"})
      BY <1>1 DEF IInvUnaCpu, TypeOK
    <3>2. PICK i \in DOMAIN a : a[i] = "INTERRUPT"
      BY <3>1 DEF Avisada, Esta
    <3>3. a # <<>> /\ Head(a) # "INTERRUPT" /\ Head(a) = a[1] /\ Len(a) \in Nat /\ i \in 1..Len(a)
      BY <2>1, <3>1, <3>2 DEF HayInterrupcion
    <3>4. interrupt'[LaCpu] = Tail(a)
      BY <1>1, <3>1, <3>3 DEF Ejecutar, IInvUnaCpu, TypeOK
    <3>5. i - 1 \in 1..Len(a) - 1 /\ (i - 1) + 1 = i
      BY <3>2, <3>3
    <3>6. i - 1 \in DOMAIN Tail(a) /\ Tail(a)[i - 1] = a[i]
      BY <3>1, <3>3, <3>5, HeadTailProperties
    <3> QED
      BY <3>2, <3>4, <3>6 DEF Avisada, Esta
  <2>4. Resta(r)' = Resta(r) /\ \A k \in Hilos : Vela(k, Head(ready), r) => Vela(k, Head(ready), r)'
    BY <1>3, <2>1 DEF Resta, LoQueQueda, Vela
  <2> QED
    BY <1>3, <2>2, <2>3, <2>4 DEF Comparado
<1> QED
  BY <1>6, <1>8, <1>9 DEF ElegidoAlDia

LEMMA RelojEntero == ASSUME TypeOK, NEW p \in Procs PROVE crono[p] \in Int /\ estimada[p] \in Nat
<1>1. estimada[p] \in Nat /\ crono[p] \in {Nulo, Liberado} \cup 0..MaxRafaga
  BY DEF TypeOK
<1>2. 0..MaxRafaga \subseteq Int /\ Nulo \in Int /\ Liberado \in Int
  BY RafagaAssumption DEF Nulo, Liberado
<1> QED
  BY <1>1, <1>2

(* Time only shortens what is left.                                         *)
LEMMA TicCompara ==
    ASSUME SolaCpu, IInvUnaCpu, ElegidoAlDia, Tic
    PROVE  ElegidoAlDia'
<1>1. /\ crono' = [p \in Procs |-> IF p \in Cronometrados THEN crono[p] + 1 ELSE crono[p]]
      /\ UNCHANGED <<pila, estado, ready, estimada, cpuVars, redVars, desalojo>>
  BY DEF Tic
<1>2. \A p \in Procs : crono[p] \in Int /\ estimada[p] \in Nat
  BY RelojEntero DEF IInvUnaCpu
<1>3. \A p \in Procs : crono'[p] \in Int /\ crono'[p] >= crono[p] /\ (crono'[p] >= 0 => crono[p] >= 0)
  BY <1>1, <1>2 DEF Cronometrados
<1>4. Contexto' = Contexto /\ (Avisada' <=> Avisada)
  BY <1>1 DEF Contexto, Avisada, redVars
<1>5. CronosAlDia'
  BY <1>1, <1>3 DEF ElegidoAlDia, CronosAlDia
<1>6. ContextoAlDia'
  BY <1>1, <1>4 DEF ElegidoAlDia, ContextoAlDia, cpuVars
<1>7. Comparados'
  <2> SUFFICES ASSUME LaCpu \notin colado, ready # <<>>, NEW r \in Procs, Elegido(r)'
               PROVE  Comparado(r)'
    BY <1>1 DEF Comparados, cpuVars
  <2>1. Elegido(r)
    BY <1>1, <1>4 DEF Elegido
  <2>2. Comparado(r)
    BY <2>1 DEF ElegidoAlDia, Comparados
  <2>3. Resta(r) \in Int /\ Resta(r)' \in Int /\ Resta(r)' <= Resta(r)
    <3>1. PICK e \in Nat, n \in Int, m \in Int :
            e = estimada[r] /\ e = estimada'[r] /\ n = crono[r] /\ m = crono'[r] /\ m >= n
      BY <1>1, <1>2, <1>3
    <3>2. /\ Resta(r) = IF Esta(r, Contexto) THEN LoQueQueda(e, n) ELSE e
          /\ Resta(r)' = IF Esta(r, Contexto) THEN LoQueQueda(e, m) ELSE e
      BY <1>4, <3>1 DEF Resta, LoQueQueda
    <3>3. LoQueQueda(e, n) \in Int /\ LoQueQueda(e, m) \in Int
          /\ LoQueQueda(e, m) <= LoQueQueda(e, n)
      BY <3>1 DEF LoQueQueda
    <3> QED
      BY <3>2, <3>3
  <2>4. PICK q \in Procs : q = Head(ready) /\ q = Head(ready') /\ estimada'[q] = estimada[q]
    BY <1>1, PrimeroDeReady DEF IInvUnaCpu
  <2>5. \A k \in Hilos : Vela(k, q, r) => Vela(k, q, r)'
    BY <1>1 DEF Vela
  <2>6. Resta(r) <= estimada[q] => Resta(r)' <= estimada'[q]
    <3>1. PICK a \in Int, b \in Int, d \in Int :
            a = Resta(r) /\ b = Resta(r)' /\ d = estimada[q] /\ b <= a
      BY <1>2, <2>3, <2>4
    <3> QED
      BY <2>4, <3>1
  <2> QED
    BY <1>4, <2>2, <2>4, <2>5, <2>6 DEF Comparado, Vela
<1> QED
  BY <1>5, <1>6, <1>7 DEF ElegidoAlDia

LEMMA NadaCompara == ASSUME ElegidoAlDia, UNCHANGED vars PROVE ElegidoAlDia'
<1>1. UNCHANGED <<pila, estado, ready, estimada, crono, cpuPid, colado, contexto, interrupt,
                  desalojo>>
  BY DEF vars, planVars, cpuVars, redVars
<1>2. /\ Contexto' = Contexto /\ (Avisada' <=> Avisada)
      /\ \A r : Elegido(r)' <=> Elegido(r)
      /\ \A h, p, r : Vela(h, p, r)' <=> Vela(h, p, r)
  BY <1>1 DEF Contexto, Avisada, Elegido, Vela
<1>3. \A r : Resta(r)' = Resta(r)
  BY <1>1, <1>2 DEF Resta, LoQueQueda
<1>4. \A r : Comparado(r)' <=> Comparado(r)
  BY <1>1, <1>2, <1>3 DEF Comparado, Vela
<1> QED
  BY <1>1, <1>2, <1>4 DEF ElegidoAlDia, CronosAlDia, ContextoAlDia, Comparados

(* The kernel does not get up again.                                        *)
LEMMA CaidoQueda == ASSUME [Next]_vars, ~caido' PROVE ~caido
<1> SUFFICES ASSUME caido PROVE FALSE
  OBVIOUS
<1>1. \A h, o, p : ~Toca(h, o, p)
  BY DEF Toca
<1>2. ASSUME NEW h \in Hilos, NEW p \in Procs PROVE ~DeProceso(h, p)
  BY <1>1 DEF DeProceso, Ready, ReadyCpu, ReadyPrimero, Desalojar, MirarCpu, Comparar, Execute,
              Enviar, Blocked, Exit, Eliminar
<1>3. ASSUME NEW h \in Hilos PROVE ~Mandar(h) /\ ~MandarVer(h) /\ ~MandarTomar(h)
  BY <1>1 DEF Mandar, MandarVer, MandarTomar
<1>4. ASSUME NEW c \in Cpus PROVE ~Liberar(c) /\ ~Atender(c) /\ ~Ejecutar(c)
  BY <1>1 DEF Liberar, Atender, Ejecutar
<1>5. ASSUME NEW p \in Procs PROVE ~FinDeIO(p)
  BY DEF FinDeIO
<1>6. ~Tic
  BY DEF Tic
<1>7. UNCHANGED vars
  BY <1>2, <1>3, <1>4, <1>5, <1>6 DEF Next, Reposo
<1> QED
  BY <1>7 DEF vars

LEMMA MasCortoPasoAPaso ==
    ASSUME SolaCpu, IInvUnaCpu, ReadyOrdenada, IInvMasCorto, [Next]_vars
    PROVE  IInvMasCorto'
<1> SUFFICES ASSUME ~caido', algoritmo' = "SJFcD" PROVE ElegidoAlDia'
  BY DEF IInvMasCorto
<1>1. algoritmo = "SJFcD" /\ Sjf
  BY FijasSiguen DEF fijas, Sjf
<1>2. ElegidoAlDia
  BY <1>1, CaidoQueda DEF IInvMasCorto
<1>3. ASSUME NEW h \in Hilos, NEW p \in Procs, DeProceso(h, p) PROVE ElegidoAlDia'
  BY <1>1, <1>2, <1>3, ReadyCompara, ReadyCpuCompara, ReadyPrimeroCompara, DesalojarCompara,
     MirarCpuCompara, CompararCompara, ExecuteCompara, EnviarCompara, SacaCompara,
     EliminarCompara DEF DeProceso
<1>4. ASSUME NEW h \in Hilos, Mandar(h) \/ MandarVer(h) \/ MandarTomar(h) PROVE ElegidoAlDia'
  <2>1. CASE Mandar(h)
    BY <1>2, <2>1, NadieCompara DEF Mandar, Mandan
  <2>2. CASE MandarVer(h)
    BY <1>2, <2>2, NadieCompara DEF MandarVer, Mandan
  <2>3. CASE MandarTomar(h)
    BY <1>2, <2>3, MandarTomarCompara
  <2> QED
    BY <1>4, <2>1, <2>2, <2>3
<1>5. ASSUME NEW c \in Cpus, Liberar(c) \/ Atender(c) \/ Ejecutar(c) PROVE ElegidoAlDia'
  BY <1>2, <1>5, LiberarCompara, AtenderCompara, EjecutarCompara
<1>6. ASSUME NEW p \in Procs, FinDeIO(p) PROVE ElegidoAlDia'
  BY <1>2, <1>6, FinDeIOCompara
<1>7. CASE Tic
  BY <1>2, <1>7, TicCompara
<1>8. CASE Reposo \/ UNCHANGED vars
  BY <1>2, <1>8, NadaCompara DEF Reposo
<1> QED
  BY <1>3, <1>4, <1>5, <1>6, <1>7, <1>8 DEF Next

LEMMA MasCortoAlEmpezar == ASSUME SolaCpu, Init PROVE IInvMasCorto
<1>1. /\ \A p \in Procs : ~(crono[p] >= 0)
      /\ ready = <<>>
      /\ Contexto = <<>>
  BY HilosDistintos DEF Init, Nulo, Contexto
<1> QED
  BY <1>1, EstaEnVacia DEF IInvMasCorto, ElegidoAlDia, CronosAlDia, ContextoAlDia, Comparados

(* desalojo_SJF: however arrivals, dispatches and comparisons meet, a       *)
(* process that a shorter one should have preempted does not keep the CPU   *)
(* unless it got there without being compared.                              *)
THEOREM SiempreMasCorto == ASSUME SolaCpu PROVE Spec => []MasCorto
<1>1. Spec => [](IInvUnaCpu /\ IInvCortoPlazo)
  BY IInvUnaCpuSiempre
<1>2. Spec => []ReadyOrdenada
  BY SiempreOrdenada
<1>3. Init => IInvMasCorto
  BY MasCortoAlEmpezar
<1>4. IInvUnaCpu /\ ReadyOrdenada /\ IInvMasCorto /\ [Next]_vars => IInvMasCorto'
  BY MasCortoPasoAPaso
<1>5. IInvUnaCpu /\ ReadyOrdenada /\ IInvMasCorto => MasCorto
  <2> SUFFICES ASSUME IInvUnaCpu, ReadyOrdenada, IInvMasCorto, Quieto, algoritmo = "SJFcD",
                      LaCpu \notin colado, Contexto # <<>>,
                      "INTERRUPT" \notin { interrupt[LaCpu][i] : i \in DOMAIN interrupt[LaCpu] },
                      NEW i \in DOMAIN ready
               PROVE  LoQueQueda(estimada[Corre(LaCpu)], crono[Corre(LaCpu)])
                          <= estimada[ready[i]]
    BY HilosDistintos DEF MasCorto, Contexto
  <2>1. \A h \in Hilos : \A x, q : ~Hay(pila[h], x, q)
    <3> SUFFICES ASSUME NEW h \in Hilos PROVE \A x, q : ~Hay(pila[h], x, q)
      OBVIOUS
    <3>1. PICK s : s = pila[h] /\ s = <<>>
      BY DEF Quieto
    <3> QED
      BY <3>1, PilaVacia
  <2>2. PICK r \in Procs : r = Corre(LaCpu) /\ Esta(r, Contexto)
    <3>1. Contexto \in Seq(Procs)
      BY MensajesTipo DEF IInvUnaCpu
    <3>2. Contexto[1] \in Procs /\ Head(Contexto) = Contexto[1] /\ 1 \in DOMAIN Contexto
      BY <3>1
    <3> QED
      BY <3>2 DEF Corre, Contexto, Esta
  <2>3. ready # <<>> /\ ready \in Seq(Procs) /\ 1 \in DOMAIN ready
    <3>1. PICK q : q = ready /\ q \in Seq(Procs)
      BY DEF IInvUnaCpu, TypeOK
    <3>2. q # <<>> /\ 1 \in DOMAIN q
      BY <3>1
    <3> QED
      BY <3>1, <3>2
  <2>4. Comparado(r)
    BY <2>2, <2>3 DEF IInvMasCorto, ElegidoAlDia, Comparados, Quieto, Elegido
  <2>5. ~Avisada /\ \A h \in Hilos : ~Vela(h, Head(ready), r)
    BY <2>1 DEF Avisada, Esta, Vela
  <2>6. LoQueQueda(estimada[r], crono[r]) <= estimada[ready[1]]
    BY <2>2, <2>3, <2>4, <2>5, PrimeroDeReady DEF Comparado, Resta, IInvUnaCpu
  <2>7. estimada[ready[1]] <= estimada[ready[i]]
    <3>1. i = 1 \/ 1 < i
      BY <2>3
    <3>2. estimada[ready[1]] \in Nat
      BY <2>3 DEF IInvUnaCpu, TypeOK
    <3> QED
      BY <2>3, <3>1, <3>2 DEF ReadyOrdenada, Sjf
  <2>8. /\ LoQueQueda(estimada[r], crono[r]) \in Int
        /\ estimada[ready[1]] \in Int /\ estimada[ready[i]] \in Int
    <3>1. crono[r] \in Int /\ estimada[r] \in Int
      BY RelojEntero DEF IInvUnaCpu
    <3> QED
      BY <2>3, <3>1 DEF IInvUnaCpu, TypeOK, LoQueQueda
  <2> QED
    BY <2>2, <2>6, <2>7, <2>8
<1> QED
  BY <1>1, <1>2, <1>3, <1>4, <1>5, PTL DEF Spec
=============================================================================
