------------------------------ MODULE KernelIO ------------------------------
(***************************************************************************)
(* The IO devices of the kernel: list_ios, the instances (connections) and *)
(* the waiting queue of each device, and the threads that use them: the    *)
(* handler of every IO connection and the one CPU handler that is inside   *)
(* gestionar_io (mutex_io lets one in at a time).                          *)
(*                                                                         *)
(* Each list has a mutex, but it is released between looking at a list and *)
(* using what was seen, so a thread is again a stack of tasks, and a step  *)
(* is what it does without letting another thread in.  The t_IO of a       *)
(* device is named by the connection that created it.                      *)
(***************************************************************************)
EXTENDS Integers, Sequences, FiniteSets

CONSTANTS
    Procs,        \* pids
    Conexiones,   \* the IO connections there may ever be
    Nombre,       \* name of the device each connection is an instance of
    Usa,          \* name of the device each process asks for
    IOTarda,      \* whether a device takes longer than lines 195-197
    MaxPedidos,   \* bound: calls each process makes
    Nadie,        \* -1: no process, no connection
    Tomada        \* 9999999: taken by buscar_instancia_libre

ASSUME NadieAssumption == Nadie \notin Procs \cup Conexiones /\ Tomada \notin Procs \cup {Nadie}
ASSUME IOTardaAssumption == IOTarda \in BOOLEAN
ASSUME MaxPedidosAssumption == MaxPedidos \in Nat
ASSUME ProcsAssumption == IsFiniteSet(Procs)

Gestor == <<"gestionar_io">>
Con(x) == <<"conexion", x>>
Hilos == {Gestor} \cup { Con(x) : x \in Conexiones }

VARIABLES
    pila,        \* tasks each thread has left
    lugar,       \* "CPU", "IO" (blocked) or "FIN" of each process
    pedidos,     \* calls each process has made
    ios,         \* list_ios
    instancias,  \* instancias_IO of each t_IO
    esperando,   \* procesos_esperando of each t_IO
    proceso,     \* proceso of each t_IO_instancia
    recibidos,   \* what each connection was sent; it works on the first
    conexion,    \* "NO", "ACTIVA" or "CERRADA"
    liberadas,   \* t_IO and t_IO_instancia that were freed
    caido        \* NULL or freed memory was dereferenced

vars == <<pila, lugar, pedidos, ios, instancias, esperando, proceso, recibidos,
          conexion, liberadas, caido>>
procVars == <<lugar, pedidos>>
listaVars == <<ios, instancias, liberadas>>
colaVars == <<esperando, recibidos>>

Ops == {"BUSCAR", "TOMAR", "VER", "ENCOLAR", "ENVIAR", "SACAR", "ANOTAR", "RECIBIR",
        "NUEVA_INSTANCIA", "NUEVA_IO", "LIBERAR", "DESPERTAR", "SALIR", "ELIMINAR",
        "QUITAR", "VACIA", "DESENCOLAR", "BORRAR"}
Tarea == [op : Ops, pid : Procs \cup {Nadie}, io : Conexiones \cup {Nadie},
          con : Conexiones \cup {Nadie}, n : Nat, k : Nat]

TypeOK ==
    /\ pila \in [Hilos -> Seq(Tarea)]
    /\ lugar \in [Procs -> {"CPU", "IO", "FIN"}]
    /\ pedidos \in [Procs -> 0..MaxPedidos]
    /\ ios \in Seq(Conexiones)
    /\ instancias \in [Conexiones -> Seq(Conexiones)]
    /\ esperando \in [Conexiones -> Seq(Procs)]
    /\ proceso \in [Conexiones -> Procs \cup {Nadie, Tomada}]
    /\ recibidos \in [Conexiones -> Seq(Procs)]
    /\ conexion \in [Conexiones -> {"NO", "ACTIVA", "CERRADA"}]
    /\ liberadas \subseteq { <<t, x>> : t \in {"IO", "INSTANCIA"}, x \in Conexiones }
    /\ caido \in BOOLEAN

Init ==
    /\ pila = [h \in Hilos |-> <<>>]
    /\ lugar = [p \in Procs |-> "CPU"]
    /\ pedidos = [p \in Procs |-> 0]
    /\ ios = <<>>
    /\ instancias = [x \in Conexiones |-> <<>>]
    /\ esperando = [x \in Conexiones |-> <<>>]
    /\ proceso = [x \in Conexiones |-> Nadie]
    /\ recibidos = [x \in Conexiones |-> <<>>]
    /\ conexion = [x \in Conexiones |-> "NO"]
    /\ liberadas = {}
    /\ caido = FALSE
-----------------------------------------------------------------------------
Nada == [op |-> "BUSCAR", pid |-> Nadie, io |-> Nadie, con |-> Nadie, n |-> 0, k |-> 0]
DePid(op, p) == [Nada EXCEPT !.op = op, !.pid = p]
DeCon(op, x) == [Nada EXCEPT !.op = op, !.con = x]
DeIO(op, d, p, x) == [Nada EXCEPT !.op = op, !.pid = p, !.io = d, !.con = x]

(* Thread h is about to run task t.                                         *)
Toca(h, t) == ~caido /\ pila[h] # <<>> /\ Head(pila[h]) = t
Sigue(h, tareas) == pila' = [pila EXCEPT ![h] = tareas \o Tail(@)]

IOLiberada(d) == <<"IO", d>> \in liberadas

(* desencolarProcesosEsperando leaves the mutex of procesos_esperando locked*)
(* after its last turn.                                                     *)
ColaTrabada(d) ==
    \E h \in Hilos : \E i \in DOMAIN pila[h] :
        pila[h][i].op = "DESENCOLAR" /\ pila[h][i].io = d /\ pila[h][i].con # Nadie

(* The scans of list_ios, each taken as one step: the first t_IO with that  *)
(* name, or with one of the instances looked for.  Everything before what   *)
(* is found is read too.                                                    *)
Primero(S) == CHOOSE i \in S : \A j \in S : i <= j
Lugar(S, lista) == { i \in DOMAIN lista : lista[i] \in S }
ConNombre(nombre) == { i \in DOMAIN ios : Nombre[ios[i]] = nombre }
ConInstancia(S) == { i \in DOMAIN ios : Lugar(S, instancias[ios[i]]) # {} }
Corriendo(p) == { x \in Conexiones : proceso[x] = p }

Recorre(lugares, lista) == { i \in DOMAIN lista : lugares = {} \/ i <= Primero(lugares) }
InstanciaLiberada(x) == <<"INSTANCIA", x>> \in liberadas
LeeInstancias(d, S) ==
    \E j \in Recorre(Lugar(S, instancias[d]), instancias[d]) : InstanciaLiberada(instancias[d][j])
LeeLiberada(S) ==
    \E i \in Recorre(ConInstancia(S), ios) : IOLiberada(ios[i]) \/ LeeInstancias(ios[i], S)
-----------------------------------------------------------------------------
(* gestionar_io, with mutex_io: the process is BLOCKED first.               *)
Pedir(p) ==
    /\ ~caido
    /\ pila[Gestor] = <<>>
    /\ lugar[p] = "CPU"
    /\ pedidos[p] < MaxPedidos
    /\ pedidos' = [pedidos EXCEPT ![p] = @ + 1]
    /\ lugar' = [lugar EXCEPT ![p] = "IO"]
    /\ pila' = [pila EXCEPT ![Gestor] = <<DePid("BUSCAR", p)>>]
    /\ UNCHANGED <<listaVars, colaVars, proceso, conexion, caido>>

(* buscar_io: with no such device the process goes to EXIT.                 *)
Buscar(p) ==
    LET lugares == ConNombre(Usa[p])
    IN
    /\ Toca(Gestor, DePid("BUSCAR", p))
    /\ caido' = \E i \in Recorre(lugares, ios) : IOLiberada(ios[i])
    /\ Sigue(Gestor, IF lugares = {} THEN <<DePid("SALIR", p)>>
                                     ELSE <<DeIO("TOMAR", ios[Primero(lugares)], p, Nadie)>>)
    /\ UNCHANGED <<procVars, listaVars, colaVars, proceso, conexion>>

(* buscar_instancia_libre: the first free instance is taken at once.        *)
Tomar(p, d) ==
    LET libres == Lugar(Corriendo(Nadie), instancias[d])
        x == IF libres = {} THEN Nadie ELSE instancias[d][Primero(libres)]
    IN
    /\ Toca(Gestor, DeIO("TOMAR", d, p, Nadie))
    /\ caido' = (IOLiberada(d) \/ LeeInstancias(d, Corriendo(Nadie)))
    /\ proceso' = IF x = Nadie THEN proceso ELSE [proceso EXCEPT ![x] = Tomada]
    /\ Sigue(Gestor, <<DeIO("VER", d, p, x)>>)
    /\ UNCHANGED <<procVars, listaVars, colaVars, conexion>>

(* The instance is used only if nobody is waiting; it is not given back.    *)
Ver(p, d, x) ==
    /\ Toca(Gestor, DeIO("VER", d, p, x))
    /\ caido' = IOLiberada(d)
    /\ Sigue(Gestor, IF x # Nadie /\ esperando[d] = <<>>
                     THEN <<DeIO("ENCOLAR", d, p, x), DeCon("ENVIAR", x)>>
                     ELSE <<DeIO("ENCOLAR", d, p, x)>>)
    /\ UNCHANGED <<procVars, listaVars, colaVars, proceso, conexion>>

(* The socket of the instance, if it is used, is read here.                 *)
Encolar(p, d, x) ==
    /\ Toca(Gestor, DeIO("ENCOLAR", d, p, x))
    /\ ~ColaTrabada(d)
    /\ caido' = (IOLiberada(d) \/ (Len(pila[Gestor]) > 1 /\ InstanciaLiberada(x)))
    /\ esperando' = [esperando EXCEPT ![d] = Append(@, p)]
    /\ Sigue(Gestor, <<>>)
    /\ UNCHANGED <<procVars, listaVars, recibidos, proceso, conexion>>
-----------------------------------------------------------------------------
(* enviar_proceso_io(x): the queue is looked at without its mutex, and then *)
(* its first is taken and sent; the instance is told last.                  *)
Enviar(h, x) ==
    LET lugares == ConInstancia({x})
        d == ios[Primero(lugares)]
    IN
    /\ Toca(h, DeCon("ENVIAR", x))
    /\ caido' = LeeLiberada({x})
    /\ Sigue(h, IF lugares # {} /\ esperando[d] # <<>> THEN <<DeIO("SACAR", d, Nadie, x)>>
                                                       ELSE <<>>)
    /\ UNCHANGED <<procVars, listaVars, colaVars, proceso, conexion>>

SinPrimero(cola) == SubSeq(cola, 1, Len(cola) - 1)
TrasSacar(cola) == Tail(cola)

Sacar(h, d, x) ==
    /\ Toca(h, DeIO("SACAR", d, Nadie, x))
    /\ ~ColaTrabada(d)
    /\ caido' = (IOLiberada(d) \/ esperando[d] = <<>>)
    /\ IF esperando[d] = <<>>
       THEN Sigue(h, <<>>) /\ UNCHANGED colaVars
       ELSE /\ esperando' = [esperando EXCEPT ![d] = TrasSacar(@)]
            /\ recibidos' = [recibidos EXCEPT ![x] = Append(@, Head(esperando[d]))]
            /\ Sigue(h, <<DeIO("ANOTAR", Nadie, Head(esperando[d]), x)>>)
    /\ UNCHANGED <<procVars, listaVars, proceso, conexion>>

Anotar(h, p, x) ==
    /\ Toca(h, DeIO("ANOTAR", Nadie, p, x))
    /\ caido' = InstanciaLiberada(x)
    /\ proceso' = [proceso EXCEPT ![x] = p]
    /\ Sigue(h, <<>>)
    /\ UNCHANGED <<procVars, listaVars, colaVars, conexion>>
-----------------------------------------------------------------------------
(* IDENTIFICAR_IO: recibir_io and then enviar_proceso_io.                   *)
Identificar(x) ==
    /\ ~caido
    /\ conexion[x] = "NO"
    /\ conexion' = [conexion EXCEPT ![x] = "ACTIVA"]
    /\ pila' = [pila EXCEPT ![Con(x)] = <<DeCon("RECIBIR", x), DeCon("ENVIAR", x)>>]
    /\ UNCHANGED <<procVars, listaVars, colaVars, proceso, caido>>

Recibir(x) ==
    LET lugares == ConNombre(Nombre[x])
    IN
    /\ Toca(Con(x), DeCon("RECIBIR", x))
    /\ caido' = \E i \in Recorre(lugares, ios) : IOLiberada(ios[i])
    /\ Sigue(Con(x), IF lugares = {} THEN <<DeCon("NUEVA_IO", x)>>
                     ELSE <<DeIO("NUEVA_INSTANCIA", ios[Primero(lugares)], Nadie, x)>>)
    /\ UNCHANGED <<procVars, listaVars, colaVars, proceso, conexion>>

NuevaInstancia(x, d) ==
    /\ Toca(Con(x), DeIO("NUEVA_INSTANCIA", d, Nadie, x))
    /\ caido' = IOLiberada(d)
    /\ instancias' = [instancias EXCEPT ![d] = <<x>> \o @]
    /\ Sigue(Con(x), <<>>)
    /\ UNCHANGED <<procVars, ios, liberadas, colaVars, proceso, conexion>>

NuevaIO(x) ==
    /\ Toca(Con(x), DeCon("NUEVA_IO", x))
    /\ instancias' = [instancias EXCEPT ![x] = <<x>>]
    /\ ios' = Append(ios, x)
    /\ Sigue(Con(x), <<>>)
    /\ UNCHANGED <<procVars, liberadas, colaVars, proceso, conexion, caido>>
-----------------------------------------------------------------------------
(* DESBLOQUEO_IO: the connection is done with the first process it was      *)
(* sent.  actualizarIO_a_libre, enviar_proceso_io, and the process leaves.  *)
SinLiberar(p, x) == <<DeCon("ENVIAR", x), DePid("DESPERTAR", p)>>
TareasDesbloqueo(p, x) == <<DePid("LIBERAR", p), DeCon("ENVIAR", x), DePid("DESPERTAR", p)>>

Desbloqueo(x) ==
    LET p == Head(recibidos[x])
    IN
    /\ ~caido
    /\ conexion[x] = "ACTIVA" /\ pila[Con(x)] = <<>> /\ recibidos[x] # <<>>
    /\ IOTarda => \A h \in Hilos : \A i \in DOMAIN pila[h] :
                     pila[h][i] # DeIO("ANOTAR", Nadie, p, x)
    /\ recibidos' = [recibidos EXCEPT ![x] = Tail(@)]
    /\ pila' = [pila EXCEPT ![Con(x)] = TareasDesbloqueo(p, x)]
    /\ UNCHANGED <<procVars, listaVars, esperando, proceso, conexion, caido>>

(* actualizarIO_a_libre: the first instance that is running p.              *)
Liberar(x, p) ==
    LET lugares == ConInstancia(Corriendo(p))
        d == ios[Primero(lugares)]
        j == Primero(Lugar(Corriendo(p), instancias[d]))
    IN
    /\ Toca(Con(x), DePid("LIBERAR", p))
    /\ caido' = LeeLiberada(Corriendo(p))
    /\ proceso' = IF lugares = {} THEN proceso
                                  ELSE [proceso EXCEPT ![instancias[d][j]] = Nadie]
    /\ Sigue(Con(x), <<>>)
    /\ UNCHANGED <<procVars, listaVars, colaVars, conexion>>

Despertar(x, p) ==
    /\ Toca(Con(x), DePid("DESPERTAR", p))
    /\ lugar' = [lugar EXCEPT ![p] = IF @ = "FIN" THEN "FIN" ELSE "CPU"]
    /\ Sigue(Con(x), <<>>)
    /\ UNCHANGED <<pedidos, listaVars, colaVars, proceso, conexion, caido>>
-----------------------------------------------------------------------------
(* FIN_CONEXION_DE_IO: the process the connection has begun ends, then      *)
(* eliminar_instancia; what else it was sent is lost with it.               *)
Desconectar(x) ==
    /\ ~caido
    /\ conexion[x] = "ACTIVA" /\ pila[Con(x)] = <<>>
    /\ conexion' = [conexion EXCEPT ![x] = "CERRADA"]
    /\ \E empezado \in BOOLEAN :
          IF empezado /\ recibidos[x] # <<>>
          THEN /\ recibidos' = [recibidos EXCEPT ![x] = Tail(@)]
               /\ pila' = [pila EXCEPT ![Con(x)] =
                              <<DePid("SALIR", Head(recibidos[x])), DeCon("ELIMINAR", x)>>]
          ELSE /\ pila' = [pila EXCEPT ![Con(x)] = <<DeCon("ELIMINAR", x)>>]
               /\ UNCHANGED recibidos
    /\ UNCHANGED <<procVars, listaVars, esperando, proceso, caido>>

Salir(h, p) ==
    /\ Toca(h, DePid("SALIR", p))
    /\ lugar' = [lugar EXCEPT ![p] = "FIN"]
    /\ Sigue(h, <<>>)
    /\ UNCHANGED <<pedidos, listaVars, colaVars, proceso, conexion, caido>>

(* The positions of the t_IO and of the instance are found, ...             *)
Eliminar(x) ==
    LET lugares == ConInstancia({x})
        i == Primero(lugares)
        d == ios[i]
        j == Primero(Lugar({x}, instancias[d]))
    IN
    /\ Toca(Con(x), DeCon("ELIMINAR", x))
    /\ caido' = LeeLiberada({x})
    /\ Sigue(Con(x), IF lugares = {} THEN <<>>
                     ELSE <<[DeIO("QUITAR", d, Nadie, x) EXCEPT !.n = j, !.k = i]>>)
    /\ UNCHANGED <<procVars, listaVars, colaVars, proceso, conexion>>

(* ... and what is there by now is removed: when it is another instance,    *)
(* the list is left with the one that is freed.  Past the end of the list   *)
(* list_remove dereferences NULL or takes nothing out, which depends on the *)
(* library.                                                                 *)
SinPosicion(lista, n) ==
    IF n \in DOMAIN lista THEN SubSeq(lista, 1, n - 1) \o SubSeq(lista, n + 1, Len(lista))
                          ELSE lista

Quitar(x, d, j, i) ==
    /\ Toca(Con(x), [DeIO("QUITAR", d, Nadie, x) EXCEPT !.n = j, !.k = i])
    /\ caido' \in {IOLiberada(d), IOLiberada(d) \/ j \notin DOMAIN instancias[d]}
    /\ instancias' = [instancias EXCEPT ![d] = SinPosicion(@, j)]
    /\ Sigue(Con(x), <<[DeIO("VACIA", d, Nadie, x) EXCEPT !.k = i]>>)
    /\ UNCHANGED <<procVars, ios, liberadas, colaVars, proceso, conexion>>

(* carnicero_de_instancias_io; the last instance takes the t_IO with it.    *)
Vacia(x, d, i) ==
    /\ Toca(Con(x), [DeIO("VACIA", d, Nadie, x) EXCEPT !.k = i])
    /\ caido' = IOLiberada(d)
    /\ liberadas' = liberadas \cup {<<"INSTANCIA", x>>}
    /\ Sigue(Con(x),
             IF instancias[d] = <<>>
             THEN <<[DeIO("DESENCOLAR", d, Nadie, Nadie) EXCEPT !.n = Len(esperando[d])],
                    [DeIO("BORRAR", d, Nadie, Nadie) EXCEPT !.k = i]>>
             ELSE <<>>)
    /\ UNCHANGED <<procVars, ios, instancias, colaVars, proceso, conexion>>

(* desencolarProcesosEsperando: as many turns as there were processes when  *)
(* it began.                                                                *)
UnTurnoDeMas(n) == n >= 0
QuedanTurnos(n) == n > 0

Desencolar(x, d, n) ==
    /\ Toca(Con(x), [DeIO("DESENCOLAR", d, Nadie, Nadie) EXCEPT !.n = n])
    /\ QuedanTurnos(n)
    /\ caido' = (esperando[d] = <<>>)
    /\ IF esperando[d] = <<>>
       THEN Sigue(Con(x), <<>>) /\ UNCHANGED esperando
       ELSE /\ esperando' = [esperando EXCEPT ![d] = Tail(@)]
            /\ Sigue(Con(x), <<DePid("SALIR", Head(esperando[d])),
                               [DeIO("DESENCOLAR", d, Nadie, IF n = 1 THEN x ELSE Nadie)
                                  EXCEPT !.n = n - 1]>>)
    /\ UNCHANGED <<procVars, listaVars, recibidos, proceso, conexion>>

(* carnicero_de_io, ...                                                     *)
Carnicero(x, d, y) ==
    /\ Toca(Con(x), DeIO("DESENCOLAR", d, Nadie, y))
    /\ caido' = IOLiberada(d)
    /\ liberadas' = liberadas \cup {<<"IO", d>>}
    /\ Sigue(Con(x), <<>>)
    /\ UNCHANGED <<procVars, ios, instancias, colaVars, proceso, conexion>>

(* ... and what is by now at that position of list_ios is taken out.        *)
Borrar(x, d, i) ==
    /\ Toca(Con(x), [DeIO("BORRAR", d, Nadie, Nadie) EXCEPT !.k = i])
    /\ caido' \in {FALSE, i \notin DOMAIN ios}
    /\ ios' = SinPosicion(ios, i)
    /\ Sigue(Con(x), <<>>)
    /\ UNCHANGED <<procVars, instancias, liberadas, colaVars, proceso, conexion>>
-----------------------------------------------------------------------------
Tope(h) == IF pila[h] = <<>> THEN {} ELSE {Head(pila[h])}

DelGestor ==
    \E t \in Tope(Gestor) :
        \/ Buscar(t.pid) \/ Tomar(t.pid, t.io)
        \/ Ver(t.pid, t.io, t.con) \/ Encolar(t.pid, t.io, t.con)

DeHilo(h) ==
    \E t \in Tope(h) :
        Enviar(h, t.con) \/ Sacar(h, t.io, t.con) \/ Anotar(h, t.pid, t.con) \/ Salir(h, t.pid)

DeConexion(x) ==
    \E t \in Tope(Con(x)) :
        \/ Recibir(x) \/ NuevaInstancia(x, t.io) \/ NuevaIO(x)
        \/ Liberar(x, t.pid) \/ Despertar(x, t.pid)
        \/ Eliminar(x) \/ Quitar(x, t.io, t.n, t.k) \/ Vacia(x, t.io, t.k)
        \/ Desencolar(x, t.io, t.n) \/ Carnicero(x, t.io, t.con) \/ Borrar(x, t.io, t.k)

Next ==
    \/ \E p \in Procs : Pedir(p)
    \/ DelGestor
    \/ \E h \in Hilos : DeHilo(h)
    \/ \E x \in Conexiones : Identificar(x) \/ Desbloqueo(x) \/ Desconectar(x) \/ DeConexion(x)

Spec == Init /\ [][Next]_vars
-----------------------------------------------------------------------------
(* Where the request of process p is: with a thread, in a queue, or with a  *)
(* connection it was sent to.                                               *)
ConPedido == {"BUSCAR", "TOMAR", "VER", "ENCOLAR", "DESPERTAR", "SALIR"}
EnPilas(p) ==
    { l \in Hilos \X (1..4) :
        /\ l[2] \in DOMAIN pila[l[1]]
        /\ pila[l[1]][l[2]].pid = p
        /\ pila[l[1]][l[2]].op \in ConPedido }
EnListas(t, listas, p) ==
    { l \in {t} \X Conexiones \X (1..Cardinality(Procs)) :
        l[3] \in DOMAIN listas[l[2]] /\ listas[l[2]][l[3]] = p }
Lugares(p) ==
    EnPilas(p) \cup EnListas("espera", esperando, p) \cup EnListas("recibido", recibidos, p)

(* A blocked process is waiting in exactly one place, whatever connects,    *)
(* ends or disconnects meanwhile: its request is neither lost by a thread   *)
(* nor given to two instances.                                              *)
Conservacion ==
    ~caido => \A p \in Procs : Cardinality(Lugares(p)) = IF lugar[p] = "IO" THEN 1 ELSE 0

(* An instance in list_ios marked with a process has that process still to  *)
(* finish, or its thread is about to free it: no DESBLOQUEO_IO leaves an    *)
(* instance marked with a process that is gone.                             *)
InstanciaAlDia ==
    ~caido => \A x \in Conexiones :
      proceso[x] \in Procs /\ conexion[x] = "ACTIVA" /\ ConInstancia({x}) # {} =>
        \/ \E i \in DOMAIN recibidos[x] : recibidos[x][i] = proceso[x]
        \/ \E i \in DOMAIN pila[Con(x)] : pila[Con(x)][i] = DePid("LIBERAR", proceso[x])

(* Once every thread is done no process waits for a device that has an      *)
(* instance with nothing to do ("Reviso la cola de bloqueados de esa IO, si *)
(* hay alguno lo mando").                                                   *)
AtiendeLaCola ==
    ~caido /\ (\A h \in Hilos : pila[h] = <<>>) =>
        \A i \in DOMAIN ios : esperando[ios[i]] # <<>> =>
            \A j \in DOMAIN instancias[ios[i]] : recibidos[instancias[ios[i]][j]] # <<>>
=============================================================================
