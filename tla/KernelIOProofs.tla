--------------------------- MODULE KernelIOProofs ---------------------------
(***************************************************************************)
(* The IO devices: where the request of each process is, and with which    *)
(* process each instance is marked, for any processes, connections and     *)
(* devices.                                                                *)
(***************************************************************************)
EXTENDS KernelIO, TLAPS, SequenceTheorems, WellFoundedInduction, FiniteSetTheorems

(* What is in a list, in any place.                                         *)
Rango(lista) == { lista[i] : i \in DOMAIN lista }
SinRepetir(lista) == \A i, j \in DOMAIN lista : lista[i] = lista[j] => i = j

(* The tasks of the threads, with what each kind carries.                   *)
ConPid == ConPedido \cup {"ANOTAR", "LIBERAR"}
ConDispositivo == {"TOMAR", "VER", "ENCOLAR", "SACAR", "NUEVA_INSTANCIA", "QUITAR", "VACIA",
                   "DESENCOLAR", "BORRAR"}
ConConexion == {"RECIBIR", "NUEVA_IO", "NUEVA_INSTANCIA", "ENVIAR", "SACAR", "ANOTAR",
                "ELIMINAR", "QUITAR", "VACIA"}
Completa(t) ==
    /\ t \in Tarea
    /\ t.op \in ConPid => t.pid \in Procs
    /\ t.op \in ConDispositivo => t.io \in Conexiones
    /\ t.op \in ConConexion => t.con \in Conexiones

(* What is left of a thread's work after the task t.                        *)
Ultimas == Ops \ {"RECIBIR", "NUEVA_IO", "NUEVA_INSTANCIA", "LIBERAR", "DESENCOLAR"}
Primeras == {"ENCOLAR", "RECIBIR", "NUEVA_IO", "NUEVA_INSTANCIA"}
Envios == {"ENVIAR", "SACAR", "ANOTAR"}
SoloBorra(c) ==
    c # <<>> /\ Completa(Head(c)) /\ Head(c).op = "BORRAR" /\ Tail(c) = <<>>
VaciaYBorra(c) ==
    c # <<>> /\ Completa(Head(c)) /\ Head(c).op = "DESENCOLAR" /\ SoloBorra(Tail(c))
Resto(t, c) ==
    \/ t.op \in Ultimas /\ c = <<>>
    \/ t.op \in Primeras /\ t.con \in Conexiones /\ c = <<DeCon("ENVIAR", t.con)>>
    \/ t.op \in Envios /\ \E p \in Procs : c = <<DePid("DESPERTAR", p)>>
    \/ t.op = "LIBERAR" /\ \E x \in Conexiones :
          c = <<DeCon("ENVIAR", x), DePid("DESPERTAR", t.pid)>>
    \/ t.op = "SALIR" /\ \E x \in Conexiones : c = <<DeCon("ELIMINAR", x)>>
    \/ t.op = "SALIR" /\ VaciaYBorra(c)
    \/ t.op = "DESENCOLAR" /\ SoloBorra(c)

Forma(s) == s = <<>> \/ (Completa(Head(s)) /\ Resto(Head(s), Tail(s)))
Formas == \A h \in Hilos : Forma(pila[h])
Calladas == \A x \in Conexiones : conexion[x] = "NO" => pila[Con(x)] = <<>>

(* Where the request of a process is: a thread, a queue or a connection.    *)
Pedidos(s) == { t.pid : t \in { u \in Rango(s) : u.op \in ConPedido } }
EnCola(d) == <<"espera", d>>
EnConexion(x) == <<"recibido", x>>
Sitios == Hilos \cup { EnCola(d) : d \in Conexiones } \cup { EnConexion(x) : x \in Conexiones }
Dentro(s) ==
    CASE s \in Hilos -> Pedidos(pila[s])
      [] s[1] = "espera" -> Rango(esperando[s[2]])
      [] OTHER -> Rango(recibidos[s[2]])
Reparto ==
    \A p \in Procs :
        /\ lugar[p] = "IO" <=> \E s \in Sitios : p \in Dentro(s)
        /\ \A s, u \in Sitios : p \in Dentro(s) /\ p \in Dentro(u) => s = u
Colas ==
    \A x \in Conexiones : SinRepetir(esperando[x]) /\ SinRepetir(recibidos[x])

IInvIO == TypeOK /\ Formas /\ Calladas /\ Reparto /\ Colas

(* A connection that is not in any list of instances yet.                   *)
Altas == {"RECIBIR", "NUEVA_IO", "NUEVA_INSTANCIA"}
DeAlta(s) == \E t \in Rango(s) : t.op \in Altas
Nueva(x) == conexion[x] = "NO" \/ DeAlta(pila[Con(x)])
Nuevas ==
    \A x \in Conexiones : Nueva(x) =>
        /\ proceso[x] = Nadie
        /\ \A d \in Conexiones : x \notin Rango(instancias[d])
        /\ \A t \in Rango(pila[Gestor]) : t.con # x
Propias ==
    \A x \in Conexiones : \A t \in Rango(pila[Con(x)]) : t.con \in {x, Nadie}

(* The process an instance is marked with, or is about to be, is with it,   *)
(* or ends because its connection was closed.                               *)
Listada(x) == \E i \in DOMAIN ios : x \in Rango(instancias[ios[i]])
Acabado(x, p) ==
    /\ conexion[x] = "CERRADA"
    /\ lugar[p] = "FIN" \/ DePid("SALIR", p) \in Rango(pila[Con(x)])
Marcada(x, p) ==
    proceso[x] = p /\ Listada(x) =>
        \/ p \in Rango(recibidos[x])
        \/ DePid("LIBERAR", p) \in Rango(pila[Con(x)])
        \/ Acabado(x, p)
PorMarcar(x, p) ==
    \A h \in Hilos : DeIO("ANOTAR", Nadie, p, x) \in Rango(pila[h]) =>
        p \in Rango(recibidos[x]) \/ Acabado(x, p)
Marcas == \A x \in Conexiones, p \in Procs : Marcada(x, p) /\ PorMarcar(x, p)

EnRegla == Nuevas /\ Propias /\ Marcas
IInvInstancias == IInvIO /\ EnRegla
-----------------------------------------------------------------------------
(* What is in a list made from others.                                      *)
LEMMA RangoTipo == ASSUME NEW S, NEW lista \in Seq(S) PROVE Rango(lista) \subseteq S
BY DEF Rango

LEMMA RangoDePocos ==
    /\ Rango(<<>>) = {}
    /\ \A x : Rango(<<x>>) = {x}
    /\ \A x, y : Rango(<<x, y>>) = {x, y}
    /\ \A x, y, z : Rango(<<x, y, z>>) = {x, y, z}
<1>1. Rango(<<>>) = {}
  BY DEF Rango
<1>2. ASSUME NEW x PROVE Rango(<<x>>) = {x}
  BY DEF Rango
<1>3. ASSUME NEW x, NEW y PROVE Rango(<<x, y>>) = {x, y}
  <2>1. DOMAIN <<x, y>> = {1, 2} /\ <<x, y>>[1] = x /\ <<x, y>>[2] = y
    OBVIOUS
  <2> QED
    BY <2>1 DEF Rango
<1>4. ASSUME NEW x, NEW y, NEW z PROVE Rango(<<x, y, z>>) = {x, y, z}
  <2>1. /\ DOMAIN <<x, y, z>> = {1, 2, 3}
        /\ <<x, y, z>>[1] = x /\ <<x, y, z>>[2] = y /\ <<x, y, z>>[3] = z
    OBVIOUS
  <2> QED
    BY <2>1 DEF Rango
<1> QED
  BY <1>1, <1>2, <1>3, <1>4

LEMMA RangoConcat ==
    ASSUME NEW S, NEW a \in Seq(S), NEW b \in Seq(S)
    PROVE  a \o b \in Seq(S) /\ Rango(a \o b) = Rango(a) \cup Rango(b)
<1>1. PICK c : c = a \o b
  OBVIOUS
<1>2. /\ c \in Seq(S) /\ Len(c) = Len(a) + Len(b)
      /\ \A i \in 1..Len(a) + Len(b) : c[i] = IF i <= Len(a) THEN a[i] ELSE b[i - Len(a)]
  BY <1>1, ConcatProperties
<1>3. DOMAIN c = 1..Len(c) /\ DOMAIN a = 1..Len(a) /\ DOMAIN b = 1..Len(b)
  BY <1>2, LenProperties
<1>4. Len(a) \in Nat /\ Len(b) \in Nat
  BY LenProperties
<1>5. ASSUME NEW i \in DOMAIN c PROVE c[i] \in Rango(a) \cup Rango(b)
  <2>1. CASE i <= Len(a)
    <3>1. i \in DOMAIN a /\ c[i] = a[i]
      BY <1>2, <1>3, <1>4, <2>1
    <3> QED
      BY <3>1 DEF Rango
  <2>2. CASE ~(i <= Len(a))
    <3>1. i - Len(a) \in DOMAIN b /\ c[i] = b[i - Len(a)]
      BY <1>2, <1>3, <1>4, <2>2
    <3> QED
      BY <3>1 DEF Rango
  <2> QED
    BY <2>1, <2>2
<1>6. ASSUME NEW i \in DOMAIN a PROVE a[i] \in Rango(c)
  <2>1. i \in DOMAIN c /\ c[i] = a[i]
    BY <1>2, <1>3, <1>4
  <2> QED
    BY <2>1 DEF Rango
<1>7. ASSUME NEW i \in DOMAIN b PROVE b[i] \in Rango(c)
  <2>1. i + Len(a) \in DOMAIN c /\ c[i + Len(a)] = b[i]
    BY <1>2, <1>3, <1>4
  <2> QED
    BY <2>1 DEF Rango
<1>8. Rango(c) = Rango(a) \cup Rango(b)
  BY <1>5, <1>6, <1>7 DEF Rango
<1> QED
  BY <1>1, <1>2, <1>8

LEMMA RangoHeadTail ==
    ASSUME NEW S, NEW a \in Seq(S), a # <<>>
    PROVE  /\ Head(a) \in S /\ Tail(a) \in Seq(S)
           /\ Rango(a) = {Head(a)} \cup Rango(Tail(a))
<1>1. PICK c : c = Tail(a)
  OBVIOUS
<1>2. /\ c \in Seq(S) /\ Head(a) \in S /\ Head(a) = a[1]
      /\ Len(c) = Len(a) - 1 /\ \A i \in 1..Len(c) : c[i] = a[i + 1]
  BY <1>1, HeadTailProperties
<1>3. DOMAIN c = 1..Len(c) /\ DOMAIN a = 1..Len(a) /\ Len(a) \in Nat \ {0}
  BY <1>2, LenProperties, EmptySeq
<1>4. ASSUME NEW i \in DOMAIN a, i # 1 PROVE a[i] \in Rango(c)
  <2>1. i - 1 \in DOMAIN c /\ c[i - 1] = a[i]
    BY <1>2, <1>3, <1>4
  <2> QED
    BY <2>1 DEF Rango
<1>5. ASSUME NEW i \in DOMAIN c PROVE c[i] \in Rango(a)
  <2>1. i + 1 \in DOMAIN a /\ c[i] = a[i + 1]
    BY <1>2, <1>3
  <2> QED
    BY <2>1 DEF Rango
<1>6. 1 \in DOMAIN a /\ a[1] \in Rango(a)
  BY <1>3 DEF Rango
<1>7. Rango(a) = {Head(a)} \cup Rango(c)
  BY <1>2, <1>4, <1>5, <1>6 DEF Rango
<1> QED
  BY <1>1, <1>2, <1>7

LEMMA RangoAppend ==
    ASSUME NEW S, NEW a \in Seq(S), NEW x \in S
    PROVE  Append(a, x) \in Seq(S) /\ Rango(Append(a, x)) = Rango(a) \cup {x}
<1>1. <<x>> \in Seq(S) /\ Append(a, x) = a \o <<x>>
  OBVIOUS
<1>2. Rango(<<x>>) = {x}
  BY RangoDePocos
<1>3. a \o <<x>> \in Seq(S) /\ Rango(a \o <<x>>) = Rango(a) \cup Rango(<<x>>)
  <2>1. PICK b : b = <<x>>
    OBVIOUS
  <2>2. b \in Seq(S)
    BY <1>1, <2>1
  <2>3. a \o b \in Seq(S) /\ Rango(a \o b) = Rango(a) \cup Rango(b)
    BY <2>2, RangoConcat
  <2> QED
    BY <2>1, <2>3
<1> QED
  BY <1>1, <1>2, <1>3

(* The first of a list without repetitions is not in the rest; one more     *)
(* does not repeat if it was not there.                                     *)
LEMMA RepetirAlSacar ==
    ASSUME NEW S, NEW a \in Seq(S), a # <<>>, SinRepetir(a)
    PROVE  SinRepetir(Tail(a)) /\ Head(a) \notin Rango(Tail(a))
<1>1. PICK c : c = Tail(a)
  OBVIOUS
<1>2. /\ c \in Seq(S) /\ Head(a) = a[1]
      /\ Len(c) = Len(a) - 1 /\ \A i \in 1..Len(c) : c[i] = a[i + 1]
  BY <1>1, HeadTailProperties
<1>3. DOMAIN c = 1..Len(c) /\ DOMAIN a = 1..Len(a) /\ Len(a) \in Nat \ {0}
  BY <1>2, LenProperties, EmptySeq
<1>4. ASSUME NEW i \in DOMAIN c, NEW j \in DOMAIN c, c[i] = c[j] PROVE i = j
  <2>1. i + 1 \in DOMAIN a /\ j + 1 \in DOMAIN a /\ a[i + 1] = a[j + 1]
    BY <1>2, <1>3, <1>4
  <2>2. i + 1 = j + 1
    BY <2>1 DEF SinRepetir
  <2> QED
    BY <1>3, <2>2
<1>5. ASSUME NEW i \in DOMAIN c, c[i] = a[1] PROVE FALSE
  <2>1. i + 1 \in DOMAIN a /\ a[i + 1] = a[1] /\ 1 \in DOMAIN a /\ i >= 1
    BY <1>2, <1>3, <1>5
  <2>2. i + 1 = 1
    BY <2>1 DEF SinRepetir
  <2> QED
    BY <1>3, <2>1, <2>2
<1>6. SinRepetir(c)
  BY <1>4 DEF SinRepetir
<1>7. a[1] \notin Rango(c)
  BY <1>5 DEF Rango
<1> QED
  BY <1>1, <1>2, <1>6, <1>7

LEMMA RepetirAlPoner ==
    ASSUME NEW S, NEW a \in Seq(S), NEW x \in S, SinRepetir(a), x \notin Rango(a)
    PROVE  SinRepetir(Append(a, x))
<1>1. PICK c : c = Append(a, x)
  OBVIOUS
<1>2. /\ Len(c) = Len(a) + 1 /\ DOMAIN c = 1..Len(a) + 1 /\ DOMAIN a = 1..Len(a)
      /\ Len(a) \in Nat
      /\ \A i \in 1..Len(a) : c[i] = a[i]
      /\ c[Len(a) + 1] = x
  BY <1>1
<1>3. ASSUME NEW i \in DOMAIN a PROVE a[i] # x
  BY <1>3 DEF Rango
<1>4. ASSUME NEW i \in DOMAIN c, NEW j \in DOMAIN c, c[i] = c[j] PROVE i = j
  <2>1. CASE i \in DOMAIN a /\ j \in DOMAIN a
    BY <1>2, <1>4, <2>1 DEF SinRepetir
  <2>2. CASE i = Len(a) + 1
    <3>1. j \notin DOMAIN a
      BY <1>2, <1>3, <1>4, <2>2
    <3> QED
      BY <1>2, <2>2, <3>1
  <2>3. CASE j = Len(a) + 1
    <3>1. i \notin DOMAIN a
      BY <1>2, <1>3, <1>4, <2>3
    <3> QED
      BY <1>2, <2>3, <3>1
  <2> QED
    BY <1>2, <2>1, <2>2, <2>3
<1> QED
  BY <1>1, <1>4 DEF SinRepetir

(* The least of a set of places.                                            *)
Menor == { par \in Nat \X Nat : par[1] < par[2] }

LEMMA PrimeroDeMinimo ==
    ASSUME NEW T \in SUBSET Nat, T # {}
    PROVE  Primero(T) \in T /\ \A y \in T : Primero(T) <= y
<1>1. IsWellFoundedOn(Menor, Nat)
  BY NatLessThanWellFounded DEF OpToRel, Menor
<1>2. PICK x \in T : \A y \in T : ~ (<<y, x>> \in Menor)
  BY <1>1, WFMin
<1>3. \A y \in T : x <= y
  <2>1. \A y \in T : ~ (y < x)
    BY <1>2 DEF Menor
  <2> QED
    BY <2>1
<1> QED
  BY <1>3 DEF Primero

(* What is left of a list when the place n is taken out of it.              *)
LEMMA SinPosicionTipo ==
    ASSUME NEW S, NEW a \in Seq(S), NEW n \in Nat
    PROVE  SinPosicion(a, n) \in Seq(S) /\ Rango(SinPosicion(a, n)) \subseteq Rango(a)
<1>1. CASE n \notin DOMAIN a
  BY <1>1 DEF SinPosicion
<1>2. CASE n \in DOMAIN a
  <2> DEFINE R == Rango(a)
  <2>1. PICK b, c : b = SubSeq(a, 1, n - 1) /\ c = SubSeq(a, n + 1, Len(a))
    OBVIOUS
  <2>2. DOMAIN a = 1..Len(a) /\ Len(a) \in Nat /\ n \in 1..Len(a) /\ R \subseteq S
    BY <1>2, LenProperties, RangoTipo
  <2>3. \A i \in 1..Len(a) : a[i] \in R
    BY <2>2 DEF Rango
  <2>4. b \in Seq(R)
    <3>1. \A i \in 1..(n - 1) : a[i] \in R
      BY <2>2, <2>3
    <3> QED
      BY <2>1, <2>2, <3>1, SubSeqProperties
  <2>5. c \in Seq(R)
    <3>1. \A i \in (n + 1)..Len(a) : a[i] \in R
      BY <2>2, <2>3
    <3> QED
      BY <2>1, <2>2, <3>1, SubSeqProperties
  <2>6. b \o c \in Seq(R)
    BY <2>4, <2>5, RangoConcat
  <2>7. SinPosicion(a, n) = b \o c
    BY <1>2, <2>1 DEF SinPosicion
  <2>8. SinPosicion(a, n) \in Seq(S)
    BY <2>2, <2>6, <2>7, SeqMonotonic
  <2>9. Rango(SinPosicion(a, n)) \subseteq R
    BY <2>6, <2>7, RangoTipo
  <2> QED
    BY <2>8, <2>9
<1> QED
  BY <1>1, <1>2
-----------------------------------------------------------------------------
(* The threads and the places are different from each other.                *)
LEMMA HilosDistintos ==
    /\ Gestor \in Hilos
    /\ \A x \in Conexiones : Con(x) \in Hilos /\ Con(x) # Gestor
    /\ \A x, y : Con(x) = Con(y) => x = y
    /\ \A h \in Hilos : h = Gestor \/ \E x \in Conexiones : h = Con(x)
BY DEF Hilos, Gestor, Con

LEMMA SitiosDistintos ==
    /\ \A d, e : EnCola(d) = EnCola(e) => d = e
    /\ \A x, y : EnConexion(x) = EnConexion(y) => x = y
    /\ \A d, x : EnCola(d) # EnConexion(x)
    /\ \A d : EnCola(d) \notin Hilos /\ EnConexion(d) \notin Hilos
    /\ \A h \in Hilos : h \in Sitios
    /\ \A x \in Conexiones : EnCola(x) \in Sitios /\ EnConexion(x) \in Sitios
    /\ \A s \in Sitios : \/ s \in Hilos
                         \/ \E x \in Conexiones : s = EnCola(x) \/ s = EnConexion(x)
BY DEF Sitios, EnCola, EnConexion, Hilos, Gestor, Con

LEMMA DentroDe ==
    /\ \A h \in Hilos : Dentro(h) = Pedidos(pila[h]) /\ Dentro(h)' = Pedidos(pila'[h])
    /\ \A d : Dentro(EnCola(d)) = Rango(esperando[d]) /\ Dentro(EnCola(d))' = Rango(esperando'[d])
    /\ \A x : /\ Dentro(EnConexion(x)) = Rango(recibidos[x])
              /\ Dentro(EnConexion(x))' = Rango(recibidos'[x])
<1>1. ASSUME NEW h \in Hilos
      PROVE  Dentro(h) = Pedidos(pila[h]) /\ Dentro(h)' = Pedidos(pila'[h])
  <2>1. h[1] # "espera"
    BY DEF Hilos, Gestor, Con
  <2>2. Dentro(h) = Pedidos(pila[h])
    BY <2>1 DEF Dentro
  <2>3. Dentro(h)' = Pedidos(pila'[h])
    BY <2>1 DEF Dentro, Pedidos, Rango
  <2> QED
    BY <2>2, <2>3
<1>2. ASSUME NEW d
      PROVE  Dentro(EnCola(d)) = Rango(esperando[d]) /\ Dentro(EnCola(d))' = Rango(esperando'[d])
  <2>1. EnCola(d) \notin Hilos /\ EnCola(d)[1] = "espera" /\ EnCola(d)[2] = d
    BY SitiosDistintos DEF EnCola
  <2> QED
    BY <2>1 DEF Dentro, Rango
<1>3. ASSUME NEW x
      PROVE  /\ Dentro(EnConexion(x)) = Rango(recibidos[x])
             /\ Dentro(EnConexion(x))' = Rango(recibidos'[x])
  <2>1. EnConexion(x) \notin Hilos /\ EnConexion(x)[1] = "recibido" /\ EnConexion(x)[2] = x
    BY SitiosDistintos DEF EnConexion
  <2> QED
    BY <2>1 DEF Dentro, Rango
<1> QED
  BY <1>1, <1>2, <1>3

(* A request that is now in one place at most, when the others did not move.*)
LEMMA Reubica ==
    ASSUME Reparto, NEW p \in Procs, NEW e \in Sitios,
           \A q \in Procs \ {p} : \A s \in Sitios : q \in Dentro(s)' <=> q \in Dentro(s),
           \A q \in Procs \ {p} : lugar'[q] = lugar[q],
           \A s \in Sitios \ {e} : p \notin Dentro(s)',
           lugar'[p] = "IO" <=> p \in Dentro(e)'
    PROVE  Reparto'
<1>1. ASSUME NEW q \in Procs, q # p
      PROVE  /\ lugar'[q] = "IO" <=> \E s \in Sitios : q \in Dentro(s)'
             /\ \A s, u \in Sitios : q \in Dentro(s)' /\ q \in Dentro(u)' => s = u
  BY <1>1 DEF Reparto
<1>2. /\ lugar'[p] = "IO" <=> \E s \in Sitios : p \in Dentro(s)'
      /\ \A s, u \in Sitios : p \in Dentro(s)' /\ p \in Dentro(u)' => s = u
  OBVIOUS
<1> QED
  BY <1>1, <1>2 DEF Reparto

LEMMA Quietos ==
    ASSUME Reparto, \A s \in Sitios : Dentro(s)' = Dentro(s), lugar' = lugar
    PROVE  Reparto'
BY DEF Reparto

(* What the tasks carry.                                                    *)
LEMMA TareaDePid ==
    ASSUME NEW o \in Ops, NEW p \in Procs \cup {Nadie}
    PROVE  /\ DePid(o, p) \in Tarea
           /\ DePid(o, p).op = o /\ DePid(o, p).pid = p
           /\ DePid(o, p).io = Nadie /\ DePid(o, p).con = Nadie
BY DEF DePid, Nada, Tarea, Ops

LEMMA TareaDeCon ==
    ASSUME NEW o \in Ops, NEW x \in Conexiones \cup {Nadie}
    PROVE  /\ DeCon(o, x) \in Tarea
           /\ DeCon(o, x).op = o /\ DeCon(o, x).pid = Nadie
           /\ DeCon(o, x).io = Nadie /\ DeCon(o, x).con = x
BY DEF DeCon, Nada, Tarea, Ops

LEMMA TareaDeIO ==
    ASSUME NEW o \in Ops, NEW d \in Conexiones \cup {Nadie}, NEW p \in Procs \cup {Nadie},
           NEW x \in Conexiones \cup {Nadie}
    PROVE  /\ DeIO(o, d, p, x) \in Tarea
           /\ DeIO(o, d, p, x).op = o /\ DeIO(o, d, p, x).pid = p
           /\ DeIO(o, d, p, x).io = d /\ DeIO(o, d, p, x).con = x
<1>1. Nada \in Tarea
  BY DEF Nada, Tarea, Ops
<1> QED
  BY <1>1 DEF DeIO, Tarea

(* What follows a task: it is a stack again, the request is in one task of  *)
(* it, and what adds a connection, frees or marks an instance is the head.  *)
LEMMA RestoForma ==
    ASSUME NEW t \in Tarea, Completa(t), NEW c \in Seq(Tarea), Resto(t, c)
    PROVE  /\ Forma(c)
           /\ t.op \in ConPedido => Pedidos(c) = {}
           /\ \A u \in Rango(c) : u.op \notin Altas \cup {"LIBERAR", "ANOTAR"}
<1> DEFINE Meta == /\ Forma(c)
                   /\ t.op \in ConPedido => Pedidos(c) = {}
                   /\ \A u \in Rango(c) : u.op \notin Altas \cup {"LIBERAR", "ANOTAR"}
<1>1. CASE c = <<>>
  <2>1. Rango(c) = {}
    BY <1>1, RangoDePocos
  <2> QED
    BY <1>1, <2>1 DEF Forma, Pedidos
<1>2. ASSUME NEW u, c # <<>>, u = Head(c), Tail(c) = <<>>, Completa(u), u.op \in Ultimas,
             u.op \notin Altas \cup {"LIBERAR", "ANOTAR"},
             t.op \in ConPedido => u.op \notin ConPedido
      PROVE  Meta
  <2>1. Rango(c) = {Head(c)} \cup Rango(Tail(c)) /\ Rango(<<>>) = {}
    BY <1>2, RangoHeadTail, RangoDePocos
  <2>2. Rango(c) = {u}
    BY <1>2, <2>1
  <2>3. Forma(c)
    BY <1>2 DEF Forma, Resto
  <2> QED
    BY <1>2, <2>2, <2>3 DEF Pedidos
<1>3. CASE t.op \in Primeras /\ t.con \in Conexiones /\ c = <<DeCon("ENVIAR", t.con)>>
  <2>1. PICK u : u = DeCon("ENVIAR", t.con)
    OBVIOUS
  <2>2. u \in Tarea /\ u.op = "ENVIAR" /\ u.con = t.con
    BY <1>3, <2>1, TareaDeCon DEF Ops
  <2>3. Completa(u) /\ u.op \in Ultimas
    BY <1>3, <2>2 DEF Completa, ConPid, ConDispositivo, ConPedido, Ultimas, Ops
  <2>4. c # <<>> /\ u = Head(c) /\ Tail(c) = <<>>
    BY <1>3, <2>1
  <2> QED
    BY <1>2, <2>2, <2>3, <2>4 DEF ConPedido, Altas
<1>4. CASE t.op \in Envios /\ \E p \in Procs : c = <<DePid("DESPERTAR", p)>>
  <2>1. PICK p \in Procs : c = <<DePid("DESPERTAR", p)>>
    BY <1>4
  <2>2. PICK u : u = DePid("DESPERTAR", p)
    OBVIOUS
  <2>3. u \in Tarea /\ u.op = "DESPERTAR" /\ u.pid = p
    BY <2>2, TareaDePid DEF Ops
  <2>4. Completa(u) /\ u.op \in Ultimas
    BY <2>3 DEF Completa, ConDispositivo, ConConexion, Ultimas, Ops
  <2>5. c # <<>> /\ u = Head(c) /\ Tail(c) = <<>>
    BY <2>1, <2>2
  <2> QED
    BY <1>2, <1>4, <2>3, <2>4, <2>5 DEF ConPedido, Altas, Envios
<1>5. CASE t.op = "LIBERAR" /\ \E x \in Conexiones :
              c = <<DeCon("ENVIAR", x), DePid("DESPERTAR", t.pid)>>
  <2>1. PICK x \in Conexiones : c = <<DeCon("ENVIAR", x), DePid("DESPERTAR", t.pid)>>
    BY <1>5
  <2>2. PICK u, v : u = DeCon("ENVIAR", x) /\ v = DePid("DESPERTAR", t.pid)
    OBVIOUS
  <2>3. t.pid \in Procs
    BY <1>5 DEF Completa, ConPid
  <2>4. u \in Tarea /\ u.op = "ENVIAR" /\ u.con = x
    BY <2>2, TareaDeCon DEF Ops
  <2>5. v \in Tarea /\ v.op = "DESPERTAR" /\ v.pid = t.pid
    BY <2>2, <2>3, TareaDePid DEF Ops
  <2>6. Rango(c) = {u, v}
    BY <2>1, <2>2, RangoDePocos
  <2>7. c # <<>> /\ Head(c) = u /\ Tail(c) = <<DePid("DESPERTAR", t.pid)>>
    BY <2>1, <2>2
  <2>8. Completa(u)
    BY <2>4 DEF Completa, ConPid, ConDispositivo, ConPedido
  <2>9. Resto(u, Tail(c))
    BY <2>3, <2>4, <2>7 DEF Resto, Envios
  <2> QED
    BY <1>5, <2>4, <2>5, <2>6, <2>7, <2>8, <2>9 DEF Forma, ConPedido, Altas
<1>6. CASE t.op = "SALIR" /\ \E x \in Conexiones : c = <<DeCon("ELIMINAR", x)>>
  <2>1. PICK x \in Conexiones : c = <<DeCon("ELIMINAR", x)>>
    BY <1>6
  <2>2. PICK u : u = DeCon("ELIMINAR", x)
    OBVIOUS
  <2>3. u \in Tarea /\ u.op = "ELIMINAR" /\ u.con = x
    BY <2>2, TareaDeCon DEF Ops
  <2>4. Completa(u) /\ u.op \in Ultimas
    BY <2>3 DEF Completa, ConPid, ConDispositivo, ConPedido, Ultimas, Ops
  <2>5. c # <<>> /\ u = Head(c) /\ Tail(c) = <<>>
    BY <2>1, <2>2
  <2> QED
    BY <1>2, <2>3, <2>4, <2>5 DEF ConPedido, Altas
<1>7. CASE t.op = "SALIR" /\ VaciaYBorra(c)
  <2>1. PICK u, b, v : u = Head(c) /\ b = Tail(c) /\ v = Head(b)
    OBVIOUS
  <2>2. /\ c # <<>> /\ Completa(u) /\ u.op = "DESENCOLAR" /\ SoloBorra(b)
        /\ b # <<>> /\ Completa(v) /\ v.op = "BORRAR" /\ Tail(b) = <<>>
    BY <1>7, <2>1 DEF VaciaYBorra, SoloBorra
  <2>3. b \in Seq(Tarea) /\ Rango(c) = {u} \cup Rango(b)
    BY <2>1, <2>2, RangoHeadTail
  <2>4. Rango(b) = {v}
    <3>1. Rango(b) = {Head(b)} \cup Rango(Tail(b)) /\ Rango(<<>>) = {}
      BY <2>2, <2>3, RangoHeadTail, RangoDePocos
    <3> QED
      BY <2>1, <2>2, <3>1
  <2>5. Forma(c)
    BY <2>1, <2>2 DEF Forma, Resto
  <2> QED
    BY <2>2, <2>3, <2>4, <2>5 DEF Pedidos, ConPedido, Altas
<1>8. CASE t.op = "DESENCOLAR" /\ SoloBorra(c)
  <2>1. PICK u : u = Head(c)
    OBVIOUS
  <2>2. c # <<>> /\ Completa(u) /\ u.op = "BORRAR" /\ Tail(c) = <<>>
    BY <1>8, <2>1 DEF SoloBorra
  <2> QED
    BY <1>2, <2>1, <2>2 DEF ConPedido, Altas, Ultimas, Ops
<1> QED
  BY <1>1, <1>3, <1>4, <1>5, <1>6, <1>7, <1>8 DEF Resto

(* The tasks of a stack, one at a time.                                     *)
LEMMA PedidosSon ==
    /\ Pedidos(<<>>) = {}
    /\ \A t : Pedidos(<<t>>) = IF t.op \in ConPedido THEN {t.pid} ELSE {}
    /\ \A s, a, b : Rango(s) = Rango(a) \cup Rango(b) => Pedidos(s) = Pedidos(a) \cup Pedidos(b)
<1>1. Pedidos(<<>>) = {}
  BY RangoDePocos DEF Pedidos
<1>2. ASSUME NEW t PROVE Pedidos(<<t>>) = IF t.op \in ConPedido THEN {t.pid} ELSE {}
  <2>1. Rango(<<t>>) = {t}
    BY RangoDePocos
  <2> QED
    BY <2>1 DEF Pedidos
<1>3. ASSUME NEW s, NEW a, NEW b, Rango(s) = Rango(a) \cup Rango(b)
      PROVE  Pedidos(s) = Pedidos(a) \cup Pedidos(b)
  BY <1>3 DEF Pedidos
<1> QED
  BY <1>1, <1>2, <1>3

LEMMA FormaDeUna ==
    ASSUME NEW a \in Tarea, NEW c \in Seq(Tarea), Completa(a), Resto(a, c)
    PROVE  Forma(<<a>> \o c)
<1>1. Head(<<a>> \o c) = a /\ Tail(<<a>> \o c) = c
  OBVIOUS
<1> QED
  BY <1>1 DEF Forma

LEMMA UnaTrasOtra == ASSUME NEW a, NEW b PROVE <<a, b>> = <<a>> \o <<b>>
<1> DEFINE S == {a, b}
<1>1. <<a, b>> \in Seq(S) /\ <<a>> \o <<b>> \in Seq(S)
  OBVIOUS
<1>2. Len(<<a, b>>) = 2 /\ Len(<<a>> \o <<b>>) = 2
  OBVIOUS
<1>3. \A i \in 1..2 : <<a, b>>[i] = (<<a>> \o <<b>>)[i]
  OBVIOUS
<1> QED
  BY <1>1, <1>2, <1>3, SeqEqual

LEMMA FormaDeDos ==
    ASSUME NEW a \in Tarea, NEW b \in Tarea, NEW c \in Seq(Tarea),
           Completa(a), Resto(a, <<b>> \o c)
    PROVE  Forma(<<a, b>> \o c)
<1>1. <<a, b>> = <<a>> \o <<b>>
  BY UnaTrasOtra
<1>2. (<<a>> \o <<b>>) \o c = <<a>> \o (<<b>> \o c)
  BY ConcatAssociative
<1>3. <<b>> \o c \in Seq(Tarea)
  OBVIOUS
<1> QED
  BY <1>1, <1>2, <1>3, FormaDeUna

(* The stack of a thread after its step.                                    *)
LEMMA PilaSigue ==
    ASSUME TypeOK, NEW h \in Hilos, NEW A \in Seq(Tarea), pila[h] # <<>>, Sigue(h, A)
    PROVE  /\ pila' \in [Hilos -> Seq(Tarea)]
           /\ \A k \in Hilos \ {h} : pila'[k] = pila[k]
           /\ pila'[h] = A \o Tail(pila[h])
           /\ Head(pila[h]) \in Tarea /\ Tail(pila[h]) \in Seq(Tarea)
           /\ Rango(pila[h]) = {Head(pila[h])} \cup Rango(Tail(pila[h]))
           /\ Rango(pila'[h]) = Rango(A) \cup Rango(Tail(pila[h]))
<1>1. pila \in [Hilos -> Seq(Tarea)] /\ pila[h] \in Seq(Tarea)
  BY DEF TypeOK
<1>2. PICK s, c : s = pila[h] /\ c = Tail(s)
  OBVIOUS
<1>3. Head(s) \in Tarea /\ c \in Seq(Tarea) /\ Rango(s) = {Head(s)} \cup Rango(c)
  BY <1>1, <1>2, RangoHeadTail
<1>4. PICK u : u = A \o c
  OBVIOUS
<1>5. u \in Seq(Tarea) /\ Rango(u) = Rango(A) \cup Rango(c)
  BY <1>3, <1>4, RangoConcat
<1>6. pila' = [pila EXCEPT ![h] = u]
  BY <1>2, <1>4 DEF Sigue
<1> QED
  BY <1>1, <1>2, <1>3, <1>4, <1>5, <1>6
LEMMA PilaSale ==
    ASSUME TypeOK, NEW h \in Hilos, pila[h] # <<>>, Sigue(h, <<>>)
    PROVE  /\ pila' \in [Hilos -> Seq(Tarea)]
           /\ \A k \in Hilos \ {h} : pila'[k] = pila[k]
           /\ pila'[h] = Tail(pila[h])
<1>1. PICK A : A = <<>> /\ A \in Seq(Tarea)
  BY EmptySeq
<1>2. /\ pila' \in [Hilos -> Seq(Tarea)]
      /\ \A k \in Hilos \ {h} : pila'[k] = pila[k]
      /\ pila'[h] = A \o Tail(pila[h]) /\ Tail(pila[h]) \in Seq(Tarea)
  BY <1>1, PilaSigue
<1>3. PICK c : c = Tail(pila[h])
  OBVIOUS
<1>4. A \o c = c
  BY <1>1, <1>2, <1>3, ConcatEmptySeq
<1> QED
  BY <1>2, <1>3, <1>4

(* What a step leaves alone keeps its type.                                 *)
LEMMA TiposQuietos ==
    ASSUME TypeOK, pila' \in [Hilos -> Seq(Tarea)], caido' \in BOOLEAN,
           ios' \in Seq(Conexiones), instancias' \in [Conexiones -> Seq(Conexiones)],
           proceso' \in [Conexiones -> Procs \cup {Nadie, Tomada}],
           liberadas' = liberadas,
           UNCHANGED <<lugar, pedidos, esperando, recibidos, conexion>>
    PROVE  TypeOK'
BY DEF TypeOK

LEMMA TiposIguales ==
    ASSUME TypeOK, pila' \in [Hilos -> Seq(Tarea)], caido' \in BOOLEAN,
           UNCHANGED <<lugar, pedidos, ios, instancias, liberadas, esperando, recibidos,
                       proceso, conexion>>
    PROVE  TypeOK'
BY DEF TypeOK

LEMMA TiposDeMover ==
    ASSUME TypeOK, pila' \in [Hilos -> Seq(Tarea)], caido' \in BOOLEAN,
           lugar' \in [Procs -> {"CPU", "IO", "FIN"}],
           conexion' \in [Conexiones -> {"NO", "ACTIVA", "CERRADA"}],
           esperando' \in [Conexiones -> Seq(Procs)],
           recibidos' \in [Conexiones -> Seq(Procs)],
           UNCHANGED <<pedidos, ios, instancias, liberadas, proceso>>
    PROVE  TypeOK'
BY DEF TypeOK

LEMMA TiposDePedidos ==
    ASSUME TypeOK
    PROVE  /\ lugar \in [Procs -> {"CPU", "IO", "FIN"}]
           /\ conexion \in [Conexiones -> {"NO", "ACTIVA", "CERRADA"}]
           /\ esperando \in [Conexiones -> Seq(Procs)]
           /\ recibidos \in [Conexiones -> Seq(Procs)]
           /\ caido \in BOOLEAN
BY DEF TypeOK

LEMMA TiposDeListas ==
    ASSUME TypeOK
    PROVE  /\ ios \in Seq(Conexiones) /\ instancias \in [Conexiones -> Seq(Conexiones)]
           /\ proceso \in [Conexiones -> Procs \cup {Nadie, Tomada}]
BY DEF TypeOK
-----------------------------------------------------------------------------
(* The steps of a thread after which every request is where it was.         *)
LEMMA Campos ==
    /\ \A o, p : DePid(o, p).op = o /\ DePid(o, p).pid = p /\ DePid(o, p).con = Nadie
    /\ \A o, x : DeCon(o, x).op = o /\ DeCon(o, x).pid = Nadie /\ DeCon(o, x).con = x
    /\ \A o, d, p, x : /\ DeIO(o, d, p, x).op = o /\ DeIO(o, d, p, x).io = d
                       /\ DeIO(o, d, p, x).pid = p /\ DeIO(o, d, p, x).con = x
    /\ \A o, d, p, x, j, i :
          LET t == [DeIO(o, d, p, x) EXCEPT !.n = j, !.k = i]
          IN  t.op = o /\ t.io = d /\ t.pid = p /\ t.con = x /\ t.n = j /\ t.k = i
    /\ \A o, d, p, x, j :
          LET t == [DeIO(o, d, p, x) EXCEPT !.n = j]
          IN  t.op = o /\ t.io = d /\ t.pid = p /\ t.con = x /\ t.n = j
    /\ \A o, d, p, x, i :
          LET t == [DeIO(o, d, p, x) EXCEPT !.k = i]
          IN  t.op = o /\ t.io = d /\ t.pid = p /\ t.con = x /\ t.k = i
BY DEF DePid, DeCon, DeIO, Nada

LEMMA TocaDice ==
    ASSUME TypeOK, Formas, NEW h \in Hilos, NEW t, Toca(h, t)
    PROVE  /\ pila[h] \in Seq(Tarea) /\ pila[h] # <<>> /\ Head(pila[h]) = t
           /\ t \in Tarea /\ Completa(t)
           /\ Tail(pila[h]) \in Seq(Tarea) /\ Resto(t, Tail(pila[h]))
           /\ Forma(Tail(pila[h]))
           /\ Rango(pila[h]) = {t} \cup Rango(Tail(pila[h]))
           /\ t.op \in ConPedido => Pedidos(Tail(pila[h])) = {} /\ Pedidos(pila[h]) = {t.pid}
           /\ t.op \notin ConPedido => Pedidos(pila[h]) = Pedidos(Tail(pila[h]))
           /\ \A u \in Rango(Tail(pila[h])) : u.op \notin Altas \cup {"LIBERAR", "ANOTAR"}
<1>1. pila[h] \in Seq(Tarea) /\ pila[h] # <<>> /\ Head(pila[h]) = t
  BY DEF TypeOK, Toca
<1>2. PICK s, c : s = pila[h] /\ c = Tail(s)
  OBVIOUS
<1>3. Completa(t) /\ Resto(t, c)
  BY <1>1, <1>2 DEF Formas, Forma
<1>4. t \in Tarea /\ c \in Seq(Tarea) /\ Rango(s) = {t} \cup Rango(c)
  BY <1>1, <1>2, RangoHeadTail
<1>5. /\ Forma(c)
      /\ t.op \in ConPedido => Pedidos(c) = {}
      /\ \A u \in Rango(c) : u.op \notin Altas \cup {"LIBERAR", "ANOTAR"}
  BY <1>3, <1>4, RestoForma
<1>6. Pedidos(s) = Pedidos(<<t>>) \cup Pedidos(c)
  <2>1. Rango(<<t>>) = {t}
    BY RangoDePocos
  <2> QED
    BY <1>4, <2>1, PedidosSon
<1>7. Pedidos(<<t>>) = IF t.op \in ConPedido THEN {t.pid} ELSE {}
  BY PedidosSon
<1> QED
  BY <1>1, <1>2, <1>3, <1>4, <1>5, <1>6, <1>7

LEMMA SigueFormas ==
    ASSUME TypeOK, Formas, Calladas, NEW h \in Hilos, NEW A \in Seq(Tarea),
           pila[h] # <<>>, Sigue(h, A), Forma(A \o Tail(pila[h])), conexion' = conexion
    PROVE  Formas' /\ Calladas'
<1>1. /\ \A k \in Hilos \ {h} : pila'[k] = pila[k]
      /\ pila'[h] = A \o Tail(pila[h])
  BY PilaSigue
<1>2. \A k \in Hilos : Forma(pila'[k])
  BY <1>1 DEF Formas
<1>3. Calladas'
  <2>1. ASSUME NEW x \in Conexiones, conexion[x] = "NO" PROVE pila'[Con(x)] = <<>>
    <3>1. pila[Con(x)] = <<>> /\ Con(x) \in Hilos
      BY <2>1, HilosDistintos DEF Calladas
    <3> QED
      BY <1>1, <3>1
  <2> QED
    BY <2>1 DEF Calladas
<1> QED
  BY <1>2, <1>3 DEF Formas

LEMMA SigueQuieta ==
    ASSUME IInvIO, TypeOK', NEW h \in Hilos, NEW A \in Seq(Tarea), NEW t, Toca(h, t),
           Sigue(h, A), Forma(A \o Tail(pila[h])),
           Pedidos(A) = IF t.op \in ConPedido THEN {t.pid} ELSE {},
           UNCHANGED <<lugar, esperando, recibidos, conexion>>
    PROVE  IInvIO'
<1> USE DEF IInvIO
<1>1. /\ pila[h] # <<>> /\ Rango(pila[h]) = {t} \cup Rango(Tail(pila[h]))
  BY TocaDice
<1>2. Formas' /\ Calladas'
  BY <1>1, SigueFormas
<1>3. Pedidos(pila'[h]) = Pedidos(pila[h])
  <2>1. Rango(pila'[h]) = Rango(A) \cup Rango(Tail(pila[h]))
    BY <1>1, PilaSigue
  <2>2. Pedidos(pila'[h]) = Pedidos(A) \cup Pedidos(Tail(pila[h]))
    <3>1. PICK s, c : s = pila'[h] /\ c = Tail(pila[h])
      OBVIOUS
    <3>2. Rango(s) = Rango(A) \cup Rango(c)
      BY <2>1, <3>1
    <3>3. Pedidos(s) = Pedidos(A) \cup Pedidos(c)
      BY <3>2, PedidosSon
    <3> QED
      BY <3>1, <3>3
  <2>3. PICK u : u = <<t>>
    OBVIOUS
  <2>4. Rango(pila[h]) = Rango(u) \cup Rango(Tail(pila[h]))
    BY <1>1, <2>3, RangoDePocos
  <2>5. Pedidos(pila[h]) = Pedidos(u) \cup Pedidos(Tail(pila[h]))
    BY <2>4, PedidosSon
  <2>6. Pedidos(u) = IF t.op \in ConPedido THEN {t.pid} ELSE {}
    BY <2>3, PedidosSon
  <2> QED
    BY <2>2, <2>5, <2>6
<1>4. \A k \in Hilos : Pedidos(pila'[k]) = Pedidos(pila[k])
  BY <1>1, <1>3, PilaSigue
<1>5. \A s \in Sitios : Dentro(s)' = Dentro(s)
  <2>1. ASSUME NEW s \in Hilos PROVE Dentro(s)' = Dentro(s)
    BY <1>4, DentroDe
  <2>2. ASSUME NEW x \in Conexiones
        PROVE  Dentro(EnCola(x))' = Dentro(EnCola(x)) /\ Dentro(EnConexion(x))' = Dentro(EnConexion(x))
    BY DentroDe
  <2> QED
    BY <2>1, <2>2, SitiosDistintos
<1>6. Reparto'
  BY <1>5, Quietos
<1>7. Colas'
  BY DEF Colas
<1> QED
  BY <1>2, <1>6, <1>7

LEMMA SigueNada ==
    ASSUME IInvIO, TypeOK', NEW h \in Hilos, NEW t, Toca(h, t), Sigue(h, <<>>),
           t.op \notin ConPedido,
           UNCHANGED <<lugar, esperando, recibidos, conexion>>
    PROVE  IInvIO'
<1>1. Tail(pila[h]) \in Seq(Tarea) /\ Forma(Tail(pila[h]))
  BY TocaDice DEF IInvIO
<1>2. PICK c : c = Tail(pila[h])
  OBVIOUS
<1>3. <<>> \in Seq(Tarea) /\ <<>> \o c = c
  BY <1>1, <1>2
<1>4. Forma(<<>> \o Tail(pila[h]))
  BY <1>1, <1>2, <1>3
<1>5. Pedidos(<<>>) = {}
  BY PedidosSon
<1> QED
  BY <1>3, <1>4, <1>5, SigueQuieta

LEMMA SigueUna ==
    ASSUME IInvIO, TypeOK', NEW h \in Hilos, NEW t, NEW a, Toca(h, t), Sigue(h, <<a>>),
           Completa(a), Resto(a, Tail(pila[h])),
           (a.op \in ConPedido) <=> (t.op \in ConPedido),
           a.op \in ConPedido => a.pid = t.pid,
           UNCHANGED <<lugar, esperando, recibidos, conexion>>
    PROVE  IInvIO'
<1>1. Tail(pila[h]) \in Seq(Tarea) /\ a \in Tarea /\ <<a>> \in Seq(Tarea)
  BY TocaDice DEF IInvIO, Completa
<1>2. Forma(<<a>> \o Tail(pila[h]))
  BY <1>1, FormaDeUna
<1>3. Pedidos(<<a>>) = IF t.op \in ConPedido THEN {t.pid} ELSE {}
  BY PedidosSon
<1> QED
  BY <1>1, <1>2, <1>3, SigueQuieta

LEMMA SigueDos ==
    ASSUME IInvIO, TypeOK', NEW h \in Hilos, NEW t, NEW a, NEW b, Toca(h, t),
           Sigue(h, <<a, b>>), Completa(a), b \in Tarea, Tail(pila[h]) = <<>>, Resto(a, <<b>>),
           b.op \notin ConPedido, (a.op \in ConPedido) <=> (t.op \in ConPedido),
           a.op \in ConPedido => a.pid = t.pid,
           UNCHANGED <<lugar, esperando, recibidos, conexion>>
    PROVE  IInvIO'
<1>1. a \in Tarea /\ <<a, b>> \in Seq(Tarea) /\ <<>> \in Seq(Tarea)
  BY DEF Completa
<1>2. <<b>> \o <<>> = <<b>>
  OBVIOUS
<1>3. Forma(<<a, b>> \o Tail(pila[h]))
  BY <1>1, <1>2, FormaDeDos
<1>4. Pedidos(<<a, b>>) = IF t.op \in ConPedido THEN {t.pid} ELSE {}
  <2>1. PICK r, u, v : r = <<a, b>> /\ u = <<a>> /\ v = <<b>>
    OBVIOUS
  <2>2. Rango(r) = Rango(u) \cup Rango(v)
    BY <2>1, RangoDePocos
  <2>3. Pedidos(r) = Pedidos(u) \cup Pedidos(v)
    BY <2>2, PedidosSon
  <2>4. Pedidos(u) = (IF a.op \in ConPedido THEN {a.pid} ELSE {}) /\ Pedidos(v) = {}
    BY <2>1, PedidosSon
  <2> QED
    BY <2>1, <2>3, <2>4
<1> QED
  BY <1>1, <1>3, <1>4, SigueQuieta
-----------------------------------------------------------------------------
(* What the scans find.                                                     *)
LEMMA PrimeroEn ==
    ASSUME NEW S, NEW lista \in Seq(S), NEW T \in SUBSET (DOMAIN lista), T # {}
    PROVE  /\ Primero(T) \in T /\ Primero(T) \in Nat
           /\ lista[Primero(T)] \in S /\ lista[Primero(T)] \in Rango(lista)
<1>1. DOMAIN lista = 1..Len(lista) /\ Len(lista) \in Nat
  BY LenProperties
<1>2. T \in SUBSET Nat
  BY <1>1
<1>3. Primero(T) \in T
  BY <1>2, PrimeroDeMinimo
<1> QED
  BY <1>1, <1>2, <1>3 DEF Rango

LEMMA ElLugar ==
    ASSUME NEW S, NEW lista \in Seq(Conexiones), Lugar(S, lista) # {}
    PROVE  /\ Primero(Lugar(S, lista)) \in Nat
           /\ lista[Primero(Lugar(S, lista))] \in Conexiones
           /\ lista[Primero(Lugar(S, lista))] \in Rango(lista)
           /\ lista[Primero(Lugar(S, lista))] \in S
<1>1. PICK T : T = Lugar(S, lista)
  OBVIOUS
<1>2. T \in SUBSET (DOMAIN lista) /\ \A i \in T : lista[i] \in S
  BY <1>1 DEF Lugar
<1>3. /\ Primero(T) \in T /\ Primero(T) \in Nat
      /\ lista[Primero(T)] \in Conexiones /\ lista[Primero(T)] \in Rango(lista)
  BY <1>1, <1>2, PrimeroEn
<1> QED
  BY <1>1, <1>2, <1>3

LEMMA ElDelNombre ==
    ASSUME TypeOK, NEW n, ConNombre(n) # {}
    PROVE  ios[Primero(ConNombre(n))] \in Conexiones
<1>1. ios \in Seq(Conexiones) /\ ConNombre(n) \in SUBSET (DOMAIN ios)
  BY DEF TypeOK, ConNombre
<1> QED
  BY <1>1, PrimeroEn

LEMMA ElDeLaInstancia ==
    ASSUME TypeOK, NEW S, ConInstancia(S) # {}
    PROVE  LET i == Primero(ConInstancia(S))
               d == ios[i]
               j == Primero(Lugar(S, instancias[d]))
           IN  /\ i \in DOMAIN ios /\ i \in Nat /\ d \in Conexiones /\ j \in Nat
               /\ instancias[d][j] \in Conexiones
               /\ instancias[d][j] \in S
               /\ instancias[d][j] \in Rango(instancias[d])
<1>1. PICK i, d, l : i = Primero(ConInstancia(S)) /\ d = ios[i] /\ l = instancias[d]
  OBVIOUS
<1>2. ios \in Seq(Conexiones) /\ ConInstancia(S) \in SUBSET (DOMAIN ios)
  BY DEF TypeOK, ConInstancia
<1>3. i \in ConInstancia(S) /\ i \in Nat /\ d \in Conexiones
  BY <1>1, <1>2, PrimeroEn
<1>4. Lugar(S, l) # {} /\ l \in Seq(Conexiones)
  <2>1. Lugar(S, instancias[ios[i]]) # {}
    BY <1>3 DEF ConInstancia
  <2>2. instancias[d] \in Seq(Conexiones)
    BY <1>3 DEF TypeOK
  <2> QED
    BY <1>1, <2>1, <2>2
<1>5. /\ Primero(Lugar(S, l)) \in Nat /\ l[Primero(Lugar(S, l))] \in Conexiones
      /\ l[Primero(Lugar(S, l))] \in Rango(l) /\ l[Primero(Lugar(S, l))] \in S
  BY <1>4, ElLugar
<1> QED
  BY <1>1, <1>2, <1>3, <1>5

(* The steps of gestionar_io that only look or take an instance.            *)
LEMMA BuscarMantiene == ASSUME IInvIO, NEW p, Buscar(p) PROVE IInvIO'
<1> USE DEF IInvIO
<1> DEFINE lugares == ConNombre(Usa[p])
           a == IF lugares = {} THEN DePid("SALIR", p)
                                ELSE DeIO("TOMAR", ios[Primero(lugares)], p, Nadie)
<1>1. PICK t : t = DePid("BUSCAR", p)
  OBVIOUS
<1>2. t.op = "BUSCAR" /\ t.pid = p
  BY <1>1, Campos
<1>3. Toca(Gestor, t) /\ Gestor \in Hilos
  BY <1>1, HilosDistintos DEF Buscar
<1>4. pila[Gestor] # <<>> /\ Completa(t) /\ Resto(t, Tail(pila[Gestor]))
  BY <1>3, TocaDice
<1>5. p \in Procs
  BY <1>2, <1>4 DEF Completa, ConPid, ConPedido
<1>6. Tail(pila[Gestor]) = <<>>
  BY <1>2, <1>4 DEF Resto, Primeras, Envios
<1>7. a.op \in {"SALIR", "TOMAR"} /\ a.pid = p /\ Completa(a)
  <2>1. CASE lugares = {}
    <3>1. a = DePid("SALIR", p)
      BY <2>1
    <3>2. a \in Tarea /\ a.op = "SALIR" /\ a.pid = p
      BY <1>5, <3>1, TareaDePid DEF Ops
    <3> QED
      BY <1>5, <3>2 DEF Completa, ConDispositivo, ConConexion
  <2>2. CASE lugares # {}
    <3>1. PICK d \in Conexiones : d = ios[Primero(lugares)]
      BY <2>2, ElDelNombre
    <3>2. a = DeIO("TOMAR", d, p, Nadie)
      BY <2>2, <3>1
    <3>3. a \in Tarea /\ a.op = "TOMAR" /\ a.pid = p /\ a.io = d
      BY <1>5, <3>2, TareaDeIO DEF Ops
    <3> QED
      BY <1>5, <3>3 DEF Completa, ConConexion
  <2> QED
    BY <2>1, <2>2
<1>8. Sigue(Gestor, <<a>>)
  BY DEF Buscar
<1>9. Resto(a, Tail(pila[Gestor]))
  BY <1>6, <1>7 DEF Resto, Ultimas, Ops
<1>10. TypeOK'
  <2>1. <<a>> \in Seq(Tarea)
    BY <1>7 DEF Completa
  <2>2. pila' \in [Hilos -> Seq(Tarea)]
    BY <1>3, <1>4, <1>8, <2>1, PilaSigue
  <2>3. caido' \in BOOLEAN
    BY DEF Buscar
  <2> QED
    BY <2>2, <2>3, TiposIguales DEF Buscar, procVars, listaVars, colaVars
<1>11. UNCHANGED <<lugar, esperando, recibidos, conexion>>
  BY DEF Buscar, procVars, colaVars
<1>12. (a.op \in ConPedido) <=> (t.op \in ConPedido)
  BY <1>2, <1>7 DEF ConPedido
<1> HIDE DEF a
<1> QED
  BY <1>2, <1>3, <1>7, <1>8, <1>9, <1>10, <1>11, <1>12, SigueUna

LEMMA TomarMantiene == ASSUME IInvIO, NEW p, NEW d, Tomar(p, d) PROVE IInvIO'
<1> USE DEF IInvIO
<1> DEFINE libres == Lugar(Corriendo(Nadie), instancias[d])
           x == IF libres = {} THEN Nadie ELSE instancias[d][Primero(libres)]
<1>1. PICK t, a : t = DeIO("TOMAR", d, p, Nadie) /\ a = DeIO("VER", d, p, x)
  OBVIOUS
<1>2. t.op = "TOMAR" /\ t.pid = p /\ t.io = d
  BY <1>1, Campos
<1>3. Toca(Gestor, t) /\ Gestor \in Hilos /\ Sigue(Gestor, <<a>>)
  BY <1>1, HilosDistintos DEF Tomar
<1>4. pila[Gestor] # <<>> /\ Completa(t) /\ Resto(t, Tail(pila[Gestor]))
  BY <1>3, TocaDice
<1>5. p \in Procs /\ d \in Conexiones
  BY <1>2, <1>4 DEF Completa, ConPid, ConPedido, ConDispositivo
<1>6. Tail(pila[Gestor]) = <<>>
  BY <1>2, <1>4 DEF Resto, Primeras, Envios
<1>7. x \in Conexiones \cup {Nadie}
  <2>1. instancias[d] \in Seq(Conexiones)
    BY <1>5 DEF TypeOK
  <2>2. libres # {} => instancias[d][Primero(libres)] \in Conexiones
    BY <2>1, ElLugar
  <2> QED
    BY <2>2
<1> HIDE DEF x
<1>8. a \in Tarea /\ a.op = "VER" /\ a.pid = p /\ a.io = d
  BY <1>1, <1>5, <1>7, TareaDeIO DEF Ops
<1>9. Completa(a)
  BY <1>5, <1>8 DEF Completa, ConConexion
<1>10. Resto(a, Tail(pila[Gestor]))
  BY <1>6, <1>8 DEF Resto, Ultimas, Ops
<1>11. TypeOK'
  <2>1. <<a>> \in Seq(Tarea)
    BY <1>8
  <2>2. pila' \in [Hilos -> Seq(Tarea)]
    BY <1>3, <1>4, <2>1, PilaSigue
  <2>3. caido' \in BOOLEAN
    BY DEF Tomar
  <2>4. proceso' \in [Conexiones -> Procs \cup {Nadie, Tomada}]
    BY <1>7 DEF Tomar, TypeOK, x
  <2> QED
    BY <2>2, <2>3, <2>4, TiposQuietos, TiposDeListas DEF Tomar, procVars, listaVars, colaVars
<1>12. UNCHANGED <<lugar, esperando, recibidos, conexion>>
  BY DEF Tomar, procVars, colaVars
<1>13. (a.op \in ConPedido) <=> (t.op \in ConPedido)
  BY <1>2, <1>8 DEF ConPedido
<1> QED
  BY <1>2, <1>3, <1>8, <1>9, <1>10, <1>11, <1>12, <1>13, SigueUna

LEMMA VerMantiene == ASSUME IInvIO, NEW p, NEW d, NEW x, Ver(p, d, x) PROVE IInvIO'
<1> USE DEF IInvIO
<1>1. PICK t, a, b : /\ t = DeIO("VER", d, p, x) /\ a = DeIO("ENCOLAR", d, p, x)
                     /\ b = DeCon("ENVIAR", x)
  OBVIOUS
<1>2. t.op = "VER" /\ t.pid = p /\ t.io = d /\ t.con = x
  BY <1>1, Campos
<1>3. Toca(Gestor, t) /\ Gestor \in Hilos
  BY <1>1, HilosDistintos DEF Ver
<1>4. pila[Gestor] # <<>> /\ Completa(t) /\ Resto(t, Tail(pila[Gestor]))
  BY <1>3, TocaDice
<1>5. p \in Procs /\ d \in Conexiones /\ x \in Conexiones \cup {Nadie}
  BY <1>2, <1>4 DEF Completa, ConPid, ConPedido, ConDispositivo, Tarea
<1>6. Tail(pila[Gestor]) = <<>>
  BY <1>2, <1>4 DEF Resto, Primeras, Envios
<1>7. a \in Tarea /\ a.op = "ENCOLAR" /\ a.pid = p /\ a.io = d /\ a.con = x
  BY <1>1, <1>5, TareaDeIO DEF Ops
<1>8. b \in Tarea /\ b.op = "ENVIAR" /\ b.con = x
  BY <1>1, <1>5, TareaDeCon DEF Ops
<1>9. Completa(a)
  BY <1>5, <1>7 DEF Completa, ConConexion
<1>10. \/ Sigue(Gestor, <<a>>)
       \/ Sigue(Gestor, <<a, b>>) /\ x # Nadie
  BY <1>1 DEF Ver
<1>11. TypeOK'
  <2>1. <<a>> \in Seq(Tarea) /\ <<a, b>> \in Seq(Tarea)
    BY <1>7, <1>8
  <2>2. pila' \in [Hilos -> Seq(Tarea)]
    BY <1>3, <1>4, <1>10, <2>1, PilaSigue
  <2>3. caido' \in BOOLEAN
    BY DEF Ver, IOLiberada
  <2> QED
    BY <2>2, <2>3 DEF Ver, TypeOK, procVars, listaVars, colaVars
<1>12. UNCHANGED <<lugar, esperando, recibidos, conexion>>
  BY DEF Ver, procVars, colaVars
<1>13. /\ (a.op \in ConPedido) <=> (t.op \in ConPedido)
       /\ b.op \notin ConPedido
  BY <1>2, <1>7, <1>8 DEF ConPedido
<1>14. CASE Sigue(Gestor, <<a>>)
  <2>1. Resto(a, Tail(pila[Gestor]))
    BY <1>6, <1>7 DEF Resto, Ultimas, Ops
  <2> QED
    BY <1>2, <1>3, <1>7, <1>9, <1>11, <1>12, <1>13, <1>14, <2>1, SigueUna
<1>15. CASE Sigue(Gestor, <<a, b>>) /\ x # Nadie
  <2>1. Resto(a, <<b>>)
    BY <1>1, <1>5, <1>7, <1>15 DEF Resto, Primeras
  <2> QED
    BY <1>2, <1>3, <1>6, <1>7, <1>8, <1>9, <1>11, <1>12, <1>13, <1>15, <2>1, SigueDos
<1> QED
  BY <1>10, <1>14, <1>15
-----------------------------------------------------------------------------
(* The other steps that leave every request where it was.                   *)
LEMMA EnviarMantiene == ASSUME IInvIO, NEW h \in Hilos, NEW x, Enviar(h, x) PROVE IInvIO'
<1> USE DEF IInvIO
<1>1. PICK t, d : t = DeCon("ENVIAR", x) /\ d = ios[Primero(ConInstancia({x}))]
  OBVIOUS
<1>2. PICK a : a = DeIO("SACAR", d, Nadie, x)
  OBVIOUS
<1>3. t.op = "ENVIAR" /\ t.con = x /\ Toca(h, t)
  BY <1>1, Campos DEF Enviar
<1>4. pila[h] # <<>> /\ Completa(t) /\ Resto(t, Tail(pila[h]))
  BY <1>3, TocaDice
<1>5. x \in Conexiones
  BY <1>3, <1>4 DEF Completa, ConConexion
<1>6. \/ Sigue(h, <<>>)
      \/ Sigue(h, <<a>>) /\ ConInstancia({x}) # {}
  BY <1>1, <1>2 DEF Enviar
<1>7. UNCHANGED <<lugar, esperando, recibidos, conexion>>
  BY DEF Enviar, procVars, colaVars
<1>8. ASSUME pila' \in [Hilos -> Seq(Tarea)] PROVE TypeOK'
  <2>1. caido' \in BOOLEAN
    BY DEF Enviar, LeeLiberada
  <2> QED
    BY <1>8, <2>1, TiposIguales DEF Enviar, procVars, listaVars, colaVars
<1>9. t.op \notin ConPedido
  BY <1>3 DEF ConPedido
<1>10. CASE Sigue(h, <<>>)
  <2>1. pila' \in [Hilos -> Seq(Tarea)]
    BY <1>4, <1>10, PilaSale
  <2> QED
    BY <1>3, <1>7, <1>8, <1>9, <1>10, <2>1, SigueNada
<1>11. CASE Sigue(h, <<a>>) /\ ConInstancia({x}) # {}
  <2>1. d \in Conexiones
    BY <1>1, <1>11, ElDeLaInstancia
  <2>2. a \in Tarea /\ a.op = "SACAR" /\ a.io = d /\ a.con = x
    BY <1>2, <1>5, <2>1, TareaDeIO DEF Ops
  <2>3. Completa(a)
    BY <1>5, <2>1, <2>2 DEF Completa, ConPid, ConPedido
  <2>4. Resto(a, Tail(pila[h]))
    BY <1>3, <1>4, <2>2 DEF Resto, Ultimas, Ops, Primeras, Envios
  <2>5. <<a>> \in Seq(Tarea)
    BY <2>2
  <2>6. pila' \in [Hilos -> Seq(Tarea)]
    BY <1>4, <1>11, <2>5, PilaSigue
  <2>7. a.op \notin ConPedido
    BY <2>2 DEF ConPedido
  <2> QED
    BY <1>3, <1>7, <1>8, <1>9, <1>11, <2>3, <2>4, <2>6, <2>7, SigueUna
<1> QED
  BY <1>6, <1>10, <1>11

LEMMA AnotarMantiene ==
    ASSUME IInvIO, NEW h \in Hilos, NEW p, NEW x, Anotar(h, p, x)
    PROVE  IInvIO'
<1> USE DEF IInvIO
<1>1. PICK t : t = DeIO("ANOTAR", Nadie, p, x)
  OBVIOUS
<1>2. t.op = "ANOTAR" /\ t.pid = p /\ t.con = x /\ Toca(h, t) /\ Sigue(h, <<>>)
  BY <1>1, Campos DEF Anotar
<1>3. pila[h] # <<>> /\ Completa(t)
  BY <1>2, TocaDice
<1>4. p \in Procs /\ x \in Conexiones
  BY <1>2, <1>3 DEF Completa, ConConexion, ConPid
<1>5. TypeOK'
  <2>1. pila' \in [Hilos -> Seq(Tarea)]
    BY <1>2, <1>3, PilaSale
  <2>2. caido' \in BOOLEAN
    BY DEF Anotar, InstanciaLiberada
  <2> QED
    BY <1>4, <2>1, <2>2 DEF Anotar, TypeOK, procVars, listaVars, colaVars
<1>6. UNCHANGED <<lugar, esperando, recibidos, conexion>>
  BY DEF Anotar, procVars, colaVars
<1>7. t.op \notin ConPedido
  BY <1>2 DEF ConPedido
<1> QED
  BY <1>2, <1>5, <1>6, <1>7, SigueNada

LEMMA RecibirMantiene == ASSUME IInvIO, NEW x \in Conexiones, Recibir(x) PROVE IInvIO'
<1> USE DEF IInvIO
<1> DEFINE lugares == ConNombre(Nombre[x])
           a == IF lugares = {} THEN DeCon("NUEVA_IO", x)
                ELSE DeIO("NUEVA_INSTANCIA", ios[Primero(lugares)], Nadie, x)
           h == Con(x)
<1>1. PICK t : t = DeCon("RECIBIR", x)
  OBVIOUS
<1>2. t.op = "RECIBIR" /\ t.con = x /\ Toca(h, t) /\ h \in Hilos
  BY <1>1, Campos, HilosDistintos DEF Recibir
<1>3. pila[h] # <<>> /\ Completa(t) /\ Resto(t, Tail(pila[h]))
  BY <1>2, TocaDice
<1>4. a.op \in {"NUEVA_IO", "NUEVA_INSTANCIA"} /\ a.con = x /\ Completa(a)
  <2>1. CASE lugares = {}
    <3>1. a = DeCon("NUEVA_IO", x)
      BY <2>1
    <3>2. a \in Tarea /\ a.op = "NUEVA_IO" /\ a.con = x
      BY <3>1, TareaDeCon DEF Ops
    <3> QED
      BY <3>2 DEF Completa, ConDispositivo, ConPid, ConPedido
  <2>2. CASE lugares # {}
    <3>1. PICK d \in Conexiones : d = ios[Primero(lugares)]
      BY <2>2, ElDelNombre
    <3>2. a = DeIO("NUEVA_INSTANCIA", d, Nadie, x)
      BY <2>2, <3>1
    <3>3. a \in Tarea /\ a.op = "NUEVA_INSTANCIA" /\ a.con = x /\ a.io = d
      BY <3>2, TareaDeIO DEF Ops
    <3> QED
      BY <3>3 DEF Completa, ConPid, ConPedido
  <2> QED
    BY <2>1, <2>2
<1>5. Sigue(h, <<a>>)
  BY DEF Recibir
<1>6. Resto(a, Tail(pila[h]))
  BY <1>2, <1>3, <1>4 DEF Resto, Ultimas, Primeras, Envios
<1>7. TypeOK'
  <2>1. <<a>> \in Seq(Tarea)
    BY <1>4 DEF Completa
  <2>2. pila' \in [Hilos -> Seq(Tarea)]
    BY <1>2, <1>3, <1>5, <2>1, PilaSigue
  <2>3. caido' \in BOOLEAN
    BY DEF Recibir
  <2> QED
    BY <2>2, <2>3, TiposIguales DEF Recibir, procVars, listaVars, colaVars
<1>8. UNCHANGED <<lugar, esperando, recibidos, conexion>>
  BY DEF Recibir, procVars, colaVars
<1>9. a.op \notin ConPedido /\ t.op \notin ConPedido
  BY <1>2, <1>4 DEF ConPedido
<1> HIDE DEF a, h
<1> QED
  BY <1>2, <1>4, <1>5, <1>6, <1>7, <1>8, <1>9, SigueUna

LEMMA NuevaInstanciaMantiene ==
    ASSUME IInvIO, NEW x \in Conexiones, NEW d, NuevaInstancia(x, d)
    PROVE  IInvIO'
<1> USE DEF IInvIO
<1>1. PICK t, h : t = DeIO("NUEVA_INSTANCIA", d, Nadie, x) /\ h = Con(x)
  OBVIOUS
<1>2. /\ t.op = "NUEVA_INSTANCIA" /\ t.io = d /\ h \in Hilos /\ Toca(h, t) /\ Sigue(h, <<>>)
  BY <1>1, Campos, HilosDistintos DEF NuevaInstancia
<1>3. pila[h] # <<>> /\ Completa(t)
  BY <1>2, TocaDice
<1>4. d \in Conexiones
  BY <1>2, <1>3 DEF Completa, ConDispositivo
<1>5. TypeOK'
  <2>1. pila' \in [Hilos -> Seq(Tarea)]
    BY <1>2, <1>3, PilaSale
  <2>2. caido' \in BOOLEAN
    BY DEF NuevaInstancia, IOLiberada
  <2>3. instancias' \in [Conexiones -> Seq(Conexiones)]
    <3>1. PICK l : l = <<x>> \o instancias[d]
      OBVIOUS
    <3>2. l \in Seq(Conexiones)
      BY <1>4, <3>1 DEF TypeOK
    <3>3. instancias' = [instancias EXCEPT ![d] = l]
      BY <3>1 DEF NuevaInstancia
    <3> QED
      BY <3>2, <3>3, TiposDeListas
  <2> QED
    BY <2>1, <2>2, <2>3 DEF NuevaInstancia, TypeOK, procVars, colaVars
<1>6. UNCHANGED <<lugar, esperando, recibidos, conexion>>
  BY DEF NuevaInstancia, procVars, colaVars
<1>7. t.op \notin ConPedido
  BY <1>2 DEF ConPedido
<1> QED
  BY <1>2, <1>5, <1>6, <1>7, SigueNada

LEMMA NuevaIOMantiene == ASSUME IInvIO, NEW x \in Conexiones, NuevaIO(x) PROVE IInvIO'
<1> USE DEF IInvIO
<1>1. PICK t, h : t = DeCon("NUEVA_IO", x) /\ h = Con(x)
  OBVIOUS
<1>2. t.op = "NUEVA_IO" /\ h \in Hilos /\ Toca(h, t) /\ Sigue(h, <<>>)
  BY <1>1, Campos, HilosDistintos DEF NuevaIO
<1>3. pila[h] # <<>>
  BY <1>2, TocaDice
<1>4. TypeOK'
  <2>1. pila' \in [Hilos -> Seq(Tarea)]
    BY <1>2, <1>3, PilaSale
  <2>2. instancias' \in [Conexiones -> Seq(Conexiones)] /\ ios' \in Seq(Conexiones)
    BY DEF NuevaIO, TypeOK
  <2> QED
    BY <2>1, <2>2 DEF NuevaIO, TypeOK, procVars, colaVars
<1>5. UNCHANGED <<lugar, esperando, recibidos, conexion>>
  BY DEF NuevaIO, procVars, colaVars
<1>6. t.op \notin ConPedido
  BY <1>2 DEF ConPedido
<1> QED
  BY <1>2, <1>4, <1>5, <1>6, SigueNada

LEMMA LiberarMantiene == ASSUME IInvIO, NEW x \in Conexiones, NEW p, Liberar(x, p) PROVE IInvIO'
<1> USE DEF IInvIO
<1>1. PICK t, h : t = DePid("LIBERAR", p) /\ h = Con(x)
  OBVIOUS
<1>2. t.op = "LIBERAR" /\ h \in Hilos /\ Toca(h, t) /\ Sigue(h, <<>>)
  BY <1>1, Campos, HilosDistintos DEF Liberar
<1>3. pila[h] # <<>>
  BY <1>2, TocaDice
<1>4. TypeOK'
  <2>1. pila' \in [Hilos -> Seq(Tarea)]
    BY <1>2, <1>3, PilaSale
  <2>2. caido' \in BOOLEAN
    BY DEF Liberar, LeeLiberada
  <2>3. PICK y : proceso' = proceso \/ proceso' = [proceso EXCEPT ![y] = Nadie]
    BY DEF Liberar
  <2>4. proceso' \in [Conexiones -> Procs \cup {Nadie, Tomada}]
    BY <2>3, TiposDeListas
  <2> QED
    BY <2>1, <2>2, <2>4, TiposQuietos, TiposDeListas DEF Liberar, procVars, listaVars, colaVars
<1>5. UNCHANGED <<lugar, esperando, recibidos, conexion>>
  BY DEF Liberar, procVars, colaVars
<1>6. t.op \notin ConPedido
  BY <1>2 DEF ConPedido
<1> QED
  BY <1>2, <1>4, <1>5, <1>6, SigueNada
LEMMA EliminarMantiene == ASSUME IInvIO, NEW x \in Conexiones, Eliminar(x) PROVE IInvIO'
<1> USE DEF IInvIO
<1> DEFINE lugares == ConInstancia({x})
           i == Primero(lugares)
           d == ios[i]
           j == Primero(Lugar({x}, instancias[d]))
<1>1. PICK t, h : t = DeCon("ELIMINAR", x) /\ h = Con(x)
  OBVIOUS
<1>2. PICK a : a = [DeIO("QUITAR", d, Nadie, x) EXCEPT !.n = j, !.k = i]
  OBVIOUS
<1>3. t.op = "ELIMINAR" /\ h \in Hilos /\ Toca(h, t)
  BY <1>1, Campos, HilosDistintos DEF Eliminar
<1>4. pila[h] # <<>> /\ Resto(t, Tail(pila[h]))
  BY <1>3, TocaDice
<1>5. \/ Sigue(h, <<>>)
      \/ Sigue(h, <<a>>) /\ lugares # {}
  BY <1>1, <1>2 DEF Eliminar
<1>6. UNCHANGED <<lugar, esperando, recibidos, conexion>>
  BY DEF Eliminar, procVars, colaVars
<1>7. ASSUME pila' \in [Hilos -> Seq(Tarea)] PROVE TypeOK'
  <2>1. caido' \in BOOLEAN
    BY DEF Eliminar, LeeLiberada
  <2> QED
    BY <1>7, <2>1, TiposIguales DEF Eliminar, procVars, listaVars, colaVars
<1>8. t.op \notin ConPedido
  BY <1>3 DEF ConPedido
<1>9. CASE Sigue(h, <<>>)
  <2>1. pila' \in [Hilos -> Seq(Tarea)]
    BY <1>3, <1>4, <1>9, PilaSale
  <2> QED
    BY <1>3, <1>6, <1>7, <1>8, <1>9, <2>1, SigueNada
<1>10. CASE Sigue(h, <<a>>) /\ lugares # {}
  <2>1. d \in Conexiones /\ i \in Nat /\ j \in Nat
    BY <1>10, ElDeLaInstancia
  <2> HIDE DEF d, i, j
  <2>2. a \in Tarea /\ a.op = "QUITAR" /\ a.io = d /\ a.con = x
    BY <1>2, <2>1 DEF DeIO, Nada, Tarea, Ops
  <2>3. Completa(a)
    BY <2>1, <2>2 DEF Completa, ConPid, ConPedido
  <2>4. Resto(a, Tail(pila[h]))
    BY <1>3, <1>4, <2>2 DEF Resto, Ultimas, Ops, Primeras, Envios
  <2>5. <<a>> \in Seq(Tarea)
    BY <2>2
  <2>6. pila' \in [Hilos -> Seq(Tarea)]
    BY <1>3, <1>4, <1>10, <2>5, PilaSigue
  <2>7. a.op \notin ConPedido
    BY <2>2 DEF ConPedido
  <2> QED
    BY <1>3, <1>6, <1>7, <1>8, <1>10, <2>3, <2>4, <2>6, <2>7, SigueUna
<1> QED
  BY <1>5, <1>9, <1>10

LEMMA QuitarMantiene ==
    ASSUME IInvIO, NEW x \in Conexiones, NEW d, NEW j, NEW i, Quitar(x, d, j, i)
    PROVE  IInvIO'
<1> USE DEF IInvIO
<1>1. PICK t, h, a : /\ t = [DeIO("QUITAR", d, Nadie, x) EXCEPT !.n = j, !.k = i] /\ h = Con(x)
                     /\ a = [DeIO("VACIA", d, Nadie, x) EXCEPT !.k = i]
  OBVIOUS
<1>2. /\ t.op = "QUITAR" /\ t.io = d /\ t.n = j /\ t.k = i /\ h \in Hilos
      /\ Toca(h, t) /\ Sigue(h, <<a>>)
  BY <1>1, Campos, HilosDistintos DEF Quitar
<1>3. pila[h] # <<>> /\ Completa(t) /\ t \in Tarea /\ Resto(t, Tail(pila[h]))
  BY <1>2, TocaDice
<1>4. d \in Conexiones /\ j \in Nat /\ i \in Nat
  BY <1>2, <1>3 DEF Completa, ConDispositivo, Tarea
<1>5. a \in Tarea /\ a.op = "VACIA" /\ a.io = d /\ a.con = x
  BY <1>1, <1>4 DEF DeIO, Nada, Tarea, Ops
<1>6. Completa(a)
  BY <1>4, <1>5 DEF Completa, ConPid, ConPedido
<1>7. Resto(a, Tail(pila[h]))
  BY <1>2, <1>3, <1>5 DEF Resto, Ultimas, Ops, Primeras, Envios
<1>8. TypeOK'
  <2>1. <<a>> \in Seq(Tarea)
    BY <1>5
  <2>2. pila' \in [Hilos -> Seq(Tarea)]
    BY <1>2, <1>3, <2>1, PilaSigue
  <2>3. caido' \in BOOLEAN
    <3>1. \/ caido' = IOLiberada(d)
          \/ caido' = (IOLiberada(d) \/ j \notin DOMAIN instancias[d])
      BY Zenon DEF Quitar
    <3>2. CASE caido' = IOLiberada(d)
      BY <3>2 DEF IOLiberada
    <3>3. CASE caido' = (IOLiberada(d) \/ j \notin DOMAIN instancias[d])
      BY <3>3
    <3> QED
      BY <3>1, <3>2, <3>3
  <2>4. instancias' \in [Conexiones -> Seq(Conexiones)]
    <3>1. PICK l : l = SinPosicion(instancias[d], j)
      OBVIOUS
    <3>2. l \in Seq(Conexiones)
      BY <1>4, <3>1, TiposDeListas, SinPosicionTipo
    <3>3. instancias' = [instancias EXCEPT ![d] = l]
      BY <3>1 DEF Quitar
    <3> QED
      BY <3>2, <3>3, TiposDeListas
  <2> QED
    BY <2>2, <2>3, <2>4, TiposQuietos, TiposDeListas DEF Quitar, procVars, colaVars
<1>9. UNCHANGED <<lugar, esperando, recibidos, conexion>>
  BY DEF Quitar, procVars, colaVars
<1>10. a.op \notin ConPedido /\ t.op \notin ConPedido
  BY <1>2, <1>5 DEF ConPedido
<1> QED
  BY <1>2, <1>6, <1>7, <1>8, <1>9, <1>10, SigueUna

LEMMA VaciaMantiene ==
    ASSUME IInvIO, NEW x \in Conexiones, NEW d, NEW i, Vacia(x, d, i)
    PROVE  IInvIO'
<1> USE DEF IInvIO
<1>1. PICK t, h : t = [DeIO("VACIA", d, Nadie, x) EXCEPT !.k = i] /\ h = Con(x)
  OBVIOUS
<1>2. PICK a, b : /\ a = [DeIO("DESENCOLAR", d, Nadie, Nadie) EXCEPT !.n = Len(esperando[d])]
                  /\ b = [DeIO("BORRAR", d, Nadie, Nadie) EXCEPT !.k = i]
  OBVIOUS
<1>3. t.op = "VACIA" /\ t.io = d /\ t.k = i /\ h \in Hilos /\ Toca(h, t)
  BY <1>1, Campos, HilosDistintos DEF Vacia
<1>4. pila[h] # <<>> /\ Completa(t) /\ t \in Tarea /\ Resto(t, Tail(pila[h]))
  BY <1>3, TocaDice
<1>5. d \in Conexiones /\ i \in Nat
  BY <1>3, <1>4 DEF Completa, ConDispositivo, Tarea
<1>6. Tail(pila[h]) = <<>>
  BY <1>3, <1>4 DEF Resto, Primeras, Envios
<1>7. Sigue(h, <<>>) \/ Sigue(h, <<a, b>>)
  BY <1>1, <1>2 DEF Vacia
<1>8. a \in Tarea /\ a.op = "DESENCOLAR" /\ a.io = d /\ b \in Tarea /\ b.op = "BORRAR" /\ b.io = d
  <2>1. Len(esperando[d]) \in Nat
    BY <1>5 DEF TypeOK
  <2> QED
    BY <1>2, <1>5, <2>1 DEF DeIO, Nada, Tarea, Ops
<1>9. Completa(a) /\ Completa(b)
  BY <1>5, <1>8 DEF Completa, ConPid, ConPedido, ConConexion
<1>10. ASSUME pila' \in [Hilos -> Seq(Tarea)] PROVE TypeOK'
  <2>1. caido' \in BOOLEAN
    BY DEF Vacia, IOLiberada
  <2>2. liberadas' \subseteq { <<q, y>> : q \in {"IO", "INSTANCIA"}, y \in Conexiones }
    BY DEF Vacia, TypeOK
  <2> QED
    BY <1>10, <2>1, <2>2 DEF Vacia, TypeOK, procVars, colaVars
<1>11. UNCHANGED <<lugar, esperando, recibidos, conexion>>
  BY DEF Vacia, procVars, colaVars
<1>12. t.op \notin ConPedido /\ a.op \notin ConPedido /\ b.op \notin ConPedido
  BY <1>3, <1>8 DEF ConPedido
<1>13. CASE Sigue(h, <<>>)
  <2>1. pila' \in [Hilos -> Seq(Tarea)]
    BY <1>3, <1>4, <1>13, PilaSale
  <2> QED
    BY <1>3, <1>10, <1>11, <1>12, <1>13, <2>1, SigueNada
<1>14. CASE Sigue(h, <<a, b>>)
  <2>1. <<a, b>> \in Seq(Tarea)
    BY <1>8
  <2>2. pila' \in [Hilos -> Seq(Tarea)]
    BY <1>3, <1>4, <1>14, <2>1, PilaSigue
  <2>3. SoloBorra(<<b>>)
    BY <1>8, <1>9 DEF SoloBorra
  <2>4. Resto(a, <<b>>)
    BY <1>8, <2>3 DEF Resto
  <2> QED
    BY <1>3, <1>6, <1>8, <1>9, <1>10, <1>11, <1>12, <1>14, <2>2, <2>4, SigueDos
<1> QED
  BY <1>7, <1>13, <1>14

LEMMA CarniceroMantiene ==
    ASSUME IInvIO, NEW x \in Conexiones, NEW d, NEW y, Carnicero(x, d, y)
    PROVE  IInvIO'
<1> USE DEF IInvIO
<1>1. PICK t, h : t = DeIO("DESENCOLAR", d, Nadie, y) /\ h = Con(x)
  OBVIOUS
<1>2. t.op = "DESENCOLAR" /\ t.io = d /\ h \in Hilos /\ Toca(h, t) /\ Sigue(h, <<>>)
  BY <1>1, Campos, HilosDistintos DEF Carnicero
<1>3. pila[h] # <<>> /\ Completa(t)
  BY <1>2, TocaDice
<1>4. d \in Conexiones
  BY <1>2, <1>3 DEF Completa, ConDispositivo
<1>5. TypeOK'
  <2>1. pila' \in [Hilos -> Seq(Tarea)]
    BY <1>2, <1>3, PilaSale
  <2>2. caido' \in BOOLEAN
    BY DEF Carnicero, IOLiberada
  <2>3. liberadas' \subseteq { <<q, z>> : q \in {"IO", "INSTANCIA"}, z \in Conexiones }
    BY <1>4 DEF Carnicero, TypeOK
  <2> QED
    BY <2>1, <2>2, <2>3 DEF Carnicero, TypeOK, procVars, colaVars
<1>6. UNCHANGED <<lugar, esperando, recibidos, conexion>>
  BY DEF Carnicero, procVars, colaVars
<1>7. t.op \notin ConPedido
  BY <1>2 DEF ConPedido
<1> QED
  BY <1>2, <1>5, <1>6, <1>7, SigueNada

LEMMA BorrarMantiene ==
    ASSUME IInvIO, NEW x \in Conexiones, NEW d, NEW i, Borrar(x, d, i)
    PROVE  IInvIO'
<1> USE DEF IInvIO
<1>1. PICK t, h : t = [DeIO("BORRAR", d, Nadie, Nadie) EXCEPT !.k = i] /\ h = Con(x)
  OBVIOUS
<1>2. t.op = "BORRAR" /\ t.k = i /\ h \in Hilos /\ Toca(h, t) /\ Sigue(h, <<>>)
  BY <1>1, Campos, HilosDistintos DEF Borrar
<1>3. pila[h] # <<>> /\ t \in Tarea
  BY <1>2, TocaDice
<1>4. i \in Nat
  BY <1>2, <1>3 DEF Tarea
<1>5. TypeOK'
  <2>1. pila' \in [Hilos -> Seq(Tarea)]
    BY <1>2, <1>3, PilaSale
  <2>2. caido' \in BOOLEAN
    BY DEF Borrar
  <2>3. ios' \in Seq(Conexiones)
    BY <1>4, TiposDeListas, SinPosicionTipo DEF Borrar
  <2> QED
    BY <2>1, <2>2, <2>3, TiposQuietos, TiposDeListas DEF Borrar, procVars, colaVars
<1>6. UNCHANGED <<lugar, esperando, recibidos, conexion>>
  BY DEF Borrar, procVars, colaVars
<1>7. t.op \notin ConPedido
  BY <1>2 DEF ConPedido
<1> QED
  BY <1>2, <1>5, <1>6, <1>7, SigueNada
-----------------------------------------------------------------------------
(* The steps that move a request.                                           *)
LEMMA MueveDe ==
    ASSUME Reparto, lugar \in [Procs -> {"CPU", "IO", "FIN"}], NEW p \in Procs,
           NEW c \in Sitios, NEW e \in Sitios, c # e, p \in Dentro(c),
           p \notin Dentro(c)', Dentro(c) = Dentro(c)' \cup {p},
           Dentro(e)' = Dentro(e) \cup {p},
           \A s \in Sitios \ {c, e} : Dentro(s)' = Dentro(s), lugar' = lugar
    PROVE  Reparto'
<1>1. \A s \in Sitios \ {c} : p \notin Dentro(s)
  BY DEF Reparto
<1>2. \A s \in Sitios \ {e} : p \notin Dentro(s)'
  BY <1>1
<1>3. \A q \in Procs \ {p} : \A s \in Sitios : q \in Dentro(s)' <=> q \in Dentro(s)
  OBVIOUS
<1>4. lugar'[p] = "IO" /\ p \in Dentro(e)'
  BY DEF Reparto
<1> QED
  BY <1>2, <1>3, <1>4, Reubica

LEMMA SaleDe ==
    ASSUME Reparto, lugar \in [Procs -> {"CPU", "IO", "FIN"}], NEW p \in Procs,
           NEW c \in Sitios, p \in Dentro(c),
           p \notin Dentro(c)', Dentro(c) = Dentro(c)' \cup {p},
           \A s \in Sitios \ {c} : Dentro(s)' = Dentro(s),
           NEW v, v # "IO", lugar' = [lugar EXCEPT ![p] = v]
    PROVE  Reparto'
<1>1. \A s \in Sitios \ {c} : p \notin Dentro(s)
  BY DEF Reparto
<1>2. \A s \in Sitios \ {c} : p \notin Dentro(s)'
  BY <1>1
<1>3. \A q \in Procs \ {p} : \A s \in Sitios : q \in Dentro(s)' <=> q \in Dentro(s)
  OBVIOUS
<1>4. lugar'[p] = v /\ \A q \in Procs \ {p} : lugar'[q] = lugar[q]
  OBVIOUS
<1> QED
  BY <1>2, <1>3, <1>4, Reubica

LEMMA EntraEn ==
    ASSUME Reparto, lugar \in [Procs -> {"CPU", "IO", "FIN"}], NEW p \in Procs,
           NEW e \in Sitios, lugar[p] # "IO",
           Dentro(e)' = Dentro(e) \cup {p},
           \A s \in Sitios \ {e} : Dentro(s)' = Dentro(s),
           lugar' = [lugar EXCEPT ![p] = "IO"]
    PROVE  Reparto'
<1>1. \A s \in Sitios : p \notin Dentro(s)
  BY DEF Reparto
<1>2. \A s \in Sitios \ {e} : p \notin Dentro(s)'
  BY <1>1
<1>3. \A q \in Procs \ {p} : \A s \in Sitios : q \in Dentro(s)' <=> q \in Dentro(s)
  OBVIOUS
<1>4. lugar'[p] = "IO" /\ \A q \in Procs \ {p} : lugar'[q] = lugar[q]
  OBVIOUS
<1> QED
  BY <1>2, <1>3, <1>4, Reubica

(* What a step leaves in each place.                                        *)
LEMMA OtrosHilos ==
    ASSUME NEW h \in Hilos, \A k \in Hilos \ {h} : pila'[k] = pila[k]
    PROVE  \A k \in Hilos \ {h} : Dentro(k)' = Dentro(k)
BY DentroDe

LEMMA OtrasColas ==
    ASSUME NEW S, \A d \in Conexiones \ S : esperando'[d] = esperando[d]
    PROVE  \A d \in Conexiones \ S : Dentro(EnCola(d))' = Dentro(EnCola(d))
BY DentroDe

LEMMA OtrasConexiones ==
    ASSUME NEW S, \A x \in Conexiones \ S : recibidos'[x] = recibidos[x]
    PROVE  \A x \in Conexiones \ S : Dentro(EnConexion(x))' = Dentro(EnConexion(x))
BY DentroDe

(* A thread that begins a piece of work.                                    *)
LEMMA Empieza ==
    ASSUME TypeOK, Formas, NEW h \in Hilos, pila[h] = <<>>, NEW B \in Seq(Tarea), Forma(B),
           pila' = [pila EXCEPT ![h] = B]
    PROVE  /\ pila' \in [Hilos -> Seq(Tarea)] /\ Formas'
           /\ \A k \in Hilos \ {h} : pila'[k] = pila[k]
           /\ Dentro(h) = {} /\ Dentro(h)' = Pedidos(B)
<1>1. pila \in [Hilos -> Seq(Tarea)]
  BY DEF TypeOK
<1>2. /\ pila' \in [Hilos -> Seq(Tarea)] /\ pila'[h] = B
      /\ \A k \in Hilos \ {h} : pila'[k] = pila[k]
  BY <1>1
<1>3. \A k \in Hilos : Forma(pila'[k])
  BY <1>2 DEF Formas
<1>4. Dentro(h) = {} /\ Dentro(h)' = Pedidos(B)
  BY <1>2, DentroDe, PedidosSon
<1> QED
  BY <1>2, <1>3, <1>4 DEF Formas

LEMMA PedirMantiene == ASSUME IInvIO, NEW p \in Procs, Pedir(p) PROVE IInvIO'
<1> USE DEF IInvIO
<1>1. PICK t, B : t = DePid("BUSCAR", p) /\ B = <<t>>
  OBVIOUS
<1>2. t \in Tarea /\ t.op = "BUSCAR" /\ t.pid = p /\ B \in Seq(Tarea)
  BY <1>1, TareaDePid DEF Ops
<1>3. Forma(B)
  <2>1. Completa(t)
    BY <1>2 DEF Completa, ConDispositivo, ConConexion
  <2>2. B # <<>> /\ Head(B) = t /\ Tail(B) = <<>>
    BY <1>1
  <2> QED
    BY <1>2, <2>1, <2>2 DEF Forma, Resto, Ultimas, Ops
<1>4. Pedidos(B) = {p}
  BY <1>1, <1>2, PedidosSon DEF ConPedido
<1>5. Gestor \in Hilos /\ Gestor \in Sitios /\ pila[Gestor] = <<>>
  BY HilosDistintos, SitiosDistintos DEF Pedir
<1>6. pila' = [pila EXCEPT ![Gestor] = B]
  BY <1>1 DEF Pedir
<1>7. /\ pila' \in [Hilos -> Seq(Tarea)] /\ Formas'
      /\ \A k \in Hilos \ {Gestor} : pila'[k] = pila[k]
      /\ Dentro(Gestor) = {} /\ Dentro(Gestor)' = {p}
  BY <1>2, <1>3, <1>4, <1>5, <1>6, Empieza
<1>8. UNCHANGED <<esperando, recibidos, conexion>>
  BY DEF Pedir, colaVars
<1>9. TypeOK'
  <2>1. pedidos' \in [Procs -> 0..MaxPedidos]
    BY MaxPedidosAssumption DEF Pedir, TypeOK
  <2>2. lugar' \in [Procs -> {"CPU", "IO", "FIN"}]
    BY DEF Pedir, TypeOK
  <2> QED
    BY <1>7, <2>1, <2>2 DEF Pedir, TypeOK, listaVars, colaVars
<1>10. Calladas'
  BY <1>7, <1>8, HilosDistintos DEF Calladas
<1>11. \A s \in Sitios \ {Gestor} : Dentro(s)' = Dentro(s)
  <2>1. \A k \in Hilos \ {Gestor} : Dentro(k)' = Dentro(k)
    BY <1>5, <1>7, OtrosHilos
  <2>2. \A x \in Conexiones : Dentro(EnCola(x))' = Dentro(EnCola(x))
    BY <1>8, DentroDe
  <2>3. \A x \in Conexiones : Dentro(EnConexion(x))' = Dentro(EnConexion(x))
    BY <1>8, DentroDe
  <2> QED
    BY <2>1, <2>2, <2>3, SitiosDistintos
<1>12. Reparto'
  <2>1. lugar \in [Procs -> {"CPU", "IO", "FIN"}]
    BY DEF TypeOK
  <2>2. lugar[p] # "IO" /\ lugar' = [lugar EXCEPT ![p] = "IO"]
    BY DEF Pedir
  <2>3. Dentro(Gestor)' = Dentro(Gestor) \cup {p}
    BY <1>7
  <2> QED
    BY <1>5, <1>11, <2>1, <2>2, <2>3, EntraEn
<1>13. Colas'
  BY <1>8 DEF Colas
<1> QED
  BY <1>7, <1>9, <1>10, <1>12, <1>13

LEMMA IdentificarMantiene == ASSUME IInvIO, NEW x \in Conexiones, Identificar(x) PROVE IInvIO'
<1> USE DEF IInvIO
<1>1. PICK t, u, B, h : /\ t = DeCon("RECIBIR", x) /\ u = DeCon("ENVIAR", x) /\ B = <<t, u>>
                        /\ h = Con(x)
  OBVIOUS
<1>2. /\ t \in Tarea /\ t.op = "RECIBIR" /\ t.con = x
      /\ u \in Tarea /\ u.op = "ENVIAR" /\ u.con = x /\ B \in Seq(Tarea)
  BY <1>1, TareaDeCon DEF Ops
<1>3. Forma(B)
  <2>1. Completa(t)
    BY <1>2 DEF Completa, ConPid, ConPedido, ConDispositivo
  <2>2. B # <<>> /\ Head(B) = t /\ Tail(B) = <<u>>
    BY <1>1
  <2>3. Resto(t, <<u>>)
    BY <1>1, <1>2 DEF Resto, Primeras
  <2> QED
    BY <2>1, <2>2, <2>3 DEF Forma
<1>4. Pedidos(B) = {}
  <2>1. Rango(B) = {t, u}
    BY <1>1, RangoDePocos
  <2> QED
    BY <1>2, <2>1 DEF Pedidos, ConPedido
<1>5. h \in Hilos /\ pila[h] = <<>>
  BY <1>1, HilosDistintos DEF Identificar, Calladas
<1>6. pila' = [pila EXCEPT ![h] = B]
  BY <1>1 DEF Identificar
<1>7. /\ pila' \in [Hilos -> Seq(Tarea)] /\ Formas'
      /\ \A k \in Hilos \ {h} : pila'[k] = pila[k]
      /\ Dentro(h) = {} /\ Dentro(h)' = {}
  BY <1>2, <1>3, <1>4, <1>5, <1>6, Empieza
<1>8. UNCHANGED <<lugar, esperando, recibidos>>
  BY DEF Identificar, colaVars, procVars
<1>9. conexion' \in [Conexiones -> {"NO", "ACTIVA", "CERRADA"}]
  BY DEF Identificar, TypeOK
<1>10. TypeOK'
  BY <1>7, <1>9 DEF Identificar, TypeOK, listaVars, colaVars, procVars
<1>11. Calladas'
  <2>1. ASSUME NEW y \in Conexiones, conexion'[y] = "NO" PROVE pila'[Con(y)] = <<>>
    <3>1. y # x /\ conexion[y] = "NO"
      BY <2>1 DEF Identificar, TypeOK
    <3>2. Con(y) \in Hilos \ {h} /\ pila[Con(y)] = <<>>
      BY <1>1, <3>1, HilosDistintos DEF Calladas
    <3> QED
      BY <1>7, <3>2
  <2> QED
    BY <2>1 DEF Calladas
<1>12. \A s \in Sitios : Dentro(s)' = Dentro(s)
  <2>1. \A k \in Hilos \ {h} : Dentro(k)' = Dentro(k)
    BY <1>5, <1>7, OtrosHilos
  <2>2. \A y \in Conexiones : Dentro(EnCola(y))' = Dentro(EnCola(y))
    BY <1>8, DentroDe
  <2>3. \A y \in Conexiones : Dentro(EnConexion(y))' = Dentro(EnConexion(y))
    BY <1>8, DentroDe
  <2> QED
    BY <1>7, <2>1, <2>2, <2>3, SitiosDistintos
<1>13. Reparto'
  BY <1>8, <1>12, Quietos
<1>14. Colas'
  BY <1>8 DEF Colas
<1> QED
  BY <1>7, <1>10, <1>11, <1>13, <1>14
LEMMA DentroSigue ==
    ASSUME TypeOK, Formas, NEW h \in Hilos, NEW A \in Seq(Tarea), NEW t, Toca(h, t), Sigue(h, A)
    PROVE  /\ pila' \in [Hilos -> Seq(Tarea)]
           /\ \A k \in Hilos \ {h} : Dentro(k)' = Dentro(k)
           /\ t.op \in ConPedido => Dentro(h) = {t.pid} /\ Dentro(h)' = Pedidos(A)
           /\ t.op \notin ConPedido => Dentro(h)' = Pedidos(A) \cup Dentro(h)
<1>1. pila[h] # <<>>
  BY TocaDice
<1>2. /\ pila' \in [Hilos -> Seq(Tarea)]
      /\ \A k \in Hilos \ {h} : pila'[k] = pila[k]
      /\ Rango(pila'[h]) = Rango(A) \cup Rango(Tail(pila[h]))
  BY <1>1, PilaSigue
<1>3. Pedidos(pila'[h]) = Pedidos(A) \cup Pedidos(Tail(pila[h]))
  <2>1. PICK s, c : s = pila'[h] /\ c = Tail(pila[h])
    OBVIOUS
  <2>2. Rango(s) = Rango(A) \cup Rango(c)
    BY <1>2, <2>1
  <2>3. Pedidos(s) = Pedidos(A) \cup Pedidos(c)
    BY <2>2, PedidosSon
  <2> QED
    BY <2>1, <2>3
<1>4. Dentro(h) = Pedidos(pila[h]) /\ Dentro(h)' = Pedidos(pila'[h])
  BY DentroDe
<1>5. /\ t.op \in ConPedido => Pedidos(Tail(pila[h])) = {} /\ Pedidos(pila[h]) = {t.pid}
      /\ t.op \notin ConPedido => Pedidos(pila[h]) = Pedidos(Tail(pila[h]))
  BY TocaDice
<1>6. \A k \in Hilos \ {h} : Dentro(k)' = Dentro(k)
  BY <1>2, OtrosHilos
<1> QED
  BY <1>2, <1>3, <1>4, <1>5, <1>6

LEMMA EncolarMantiene == ASSUME IInvIO, NEW p, NEW d, NEW x, Encolar(p, d, x) PROVE IInvIO'
<1> USE DEF IInvIO
<1>1. PICK t, h, A : t = DeIO("ENCOLAR", d, p, x) /\ h = Gestor /\ A = <<>> /\ A \in Seq(Tarea)
  BY EmptySeq
<1>2. t.op = "ENCOLAR" /\ t.pid = p /\ t.io = d /\ h \in Hilos /\ Toca(h, t) /\ Sigue(h, A)
  BY <1>1, Campos, HilosDistintos DEF Encolar
<1>3. pila[h] # <<>> /\ Completa(t) /\ t.op \in ConPedido
  BY <1>2, TocaDice DEF ConPedido
<1>4. p \in Procs /\ d \in Conexiones
  BY <1>2, <1>3 DEF Completa, ConPid, ConDispositivo
<1>5. /\ pila' \in [Hilos -> Seq(Tarea)]
      /\ \A k \in Hilos \ {h} : Dentro(k)' = Dentro(k)
      /\ Dentro(h) = {p} /\ Dentro(h)' = {}
  BY <1>1, <1>2, <1>3, DentroSigue, PedidosSon
<1>6. UNCHANGED <<lugar, recibidos, conexion>>
  BY DEF Encolar, procVars
<1>7. h \in Sitios /\ EnCola(d) \in Sitios /\ h # EnCola(d)
  BY <1>2, <1>4, SitiosDistintos
<1>8. p \notin Rango(esperando[d])
  BY <1>4, <1>5, <1>7, DentroDe DEF Reparto
<1>9. PICK c : c = Append(esperando[d], p)
  OBVIOUS
<1>10. /\ c \in Seq(Procs) /\ Rango(c) = Rango(esperando[d]) \cup {p} /\ SinRepetir(c)
  <2>1. esperando[d] \in Seq(Procs) /\ SinRepetir(esperando[d])
    BY <1>4 DEF TypeOK, Colas
  <2> QED
    BY <1>4, <1>8, <1>9, <2>1, RangoAppend, RepetirAlPoner
<1>11. /\ esperando' \in [Conexiones -> Seq(Procs)] /\ esperando'[d] = c
       /\ \A y \in Conexiones \ {d} : esperando'[y] = esperando[y]
  <2>1. esperando \in [Conexiones -> Seq(Procs)] /\ esperando' = [esperando EXCEPT ![d] = c]
    BY <1>9 DEF TypeOK, Encolar
  <2> QED
    BY <1>4, <1>10, <2>1
<1>12. TypeOK'
  <2>1. caido' \in BOOLEAN
    BY DEF Encolar, IOLiberada, InstanciaLiberada
  <2> QED
    BY <1>5, <1>11, <2>1 DEF Encolar, TypeOK, procVars, listaVars
<1>13. Formas' /\ Calladas'
  <2>1. Forma(Tail(pila[h])) /\ A \o Tail(pila[h]) = Tail(pila[h])
    <3>1. PICK s : s = Tail(pila[h])
      OBVIOUS
    <3>2. s \in Seq(Tarea) /\ Forma(s)
      BY <1>2, <3>1, TocaDice
    <3> QED
      BY <1>1, <3>1, <3>2, ConcatEmptySeq
  <2> QED
    BY <1>1, <1>2, <1>3, <1>6, <2>1, SigueFormas
<1>14. Dentro(EnCola(d))' = Dentro(EnCola(d)) \cup {p}
  BY <1>10, <1>11, DentroDe
<1>15. \A s \in Sitios \ {h, EnCola(d)} : Dentro(s)' = Dentro(s)
  <2>1. \A y \in Conexiones \ {d} : Dentro(EnCola(y))' = Dentro(EnCola(y))
    BY <1>11, DentroDe
  <2>2. \A y \in Conexiones : Dentro(EnConexion(y))' = Dentro(EnConexion(y))
    BY <1>6, DentroDe
  <2> QED
    BY <1>5, <2>1, <2>2, SitiosDistintos
<1>16. Reparto'
  <2>1. lugar \in [Procs -> {"CPU", "IO", "FIN"}]
    BY DEF TypeOK
  <2>2. p \in Dentro(h) /\ p \notin Dentro(h)' /\ Dentro(h) = Dentro(h)' \cup {p}
    BY <1>5
  <2> QED
    BY <1>4, <1>6, <1>7, <1>14, <1>15, <2>1, <2>2, MueveDe
<1>17. Colas'
  <2>1. \A y \in Conexiones : SinRepetir(esperando'[y]) /\ SinRepetir(recibidos'[y])
    BY <1>6, <1>10, <1>11 DEF Colas
  <2> QED
    BY <2>1 DEF Colas, SinRepetir
<1> QED
  BY <1>12, <1>13, <1>16, <1>17

LEMMA SacarMantiene ==
    ASSUME IInvIO, NEW h \in Hilos, NEW d, NEW x, Sacar(h, d, x)
    PROVE  IInvIO'
<1> USE DEF IInvIO
<1>1. PICK t : t = DeIO("SACAR", d, Nadie, x)
  OBVIOUS
<1>2. t.op = "SACAR" /\ t.io = d /\ t.con = x /\ Toca(h, t)
  BY <1>1, Campos DEF Sacar
<1>3. /\ pila[h] # <<>> /\ Completa(t) /\ t.op \notin ConPedido
      /\ Tail(pila[h]) \in Seq(Tarea) /\ Resto(t, Tail(pila[h]))
  BY <1>2, TocaDice DEF ConPedido
<1>4. d \in Conexiones /\ x \in Conexiones
  BY <1>2, <1>3 DEF Completa, ConDispositivo, ConConexion
<1>5. UNCHANGED <<lugar, conexion>>
  BY DEF Sacar, procVars
<1>6. caido' \in BOOLEAN
  BY DEF Sacar, IOLiberada
<1>7. CASE esperando[d] = <<>>
  <2>1. Sigue(h, <<>>) /\ UNCHANGED <<esperando, recibidos>>
    BY <1>7 DEF Sacar, colaVars
  <2>2. pila' \in [Hilos -> Seq(Tarea)]
    BY <1>3, <2>1, PilaSale
  <2>3. TypeOK'
    BY <1>5, <1>6, <2>1, <2>2, TiposIguales DEF Sacar, procVars, listaVars
  <2> QED
    BY <1>2, <1>3, <1>5, <2>1, <2>3, SigueNada
<1>8. CASE esperando[d] # <<>>
  <2>1. PICK p, a, A : p = Head(esperando[d]) /\ a = DeIO("ANOTAR", Nadie, p, x) /\ A = <<a>>
    OBVIOUS
  <2>2. PICK c, r : c = Tail(esperando[d]) /\ r = Append(recibidos[x], p)
    OBVIOUS
  <2>3. esperando[d] \in Seq(Procs) /\ SinRepetir(esperando[d])
    BY <1>4 DEF TypeOK, Colas
  <2>4. /\ p \in Procs /\ c \in Seq(Procs) /\ Rango(esperando[d]) = {p} \cup Rango(c)
        /\ SinRepetir(c) /\ p \notin Rango(c)
    BY <1>8, <2>1, <2>2, <2>3, RangoHeadTail, RepetirAlSacar
  <2>5. /\ EnCola(d) \in Sitios /\ EnConexion(x) \in Sitios /\ EnCola(d) # EnConexion(x)
        /\ h \in Sitios
    BY <1>4, SitiosDistintos
  <2>6. p \in Dentro(EnCola(d)) /\ p \notin Rango(recibidos[x])
    BY <2>4, <2>5, DentroDe DEF Reparto
  <2>7. r \in Seq(Procs) /\ Rango(r) = Rango(recibidos[x]) \cup {p} /\ SinRepetir(r)
    <3>1. recibidos[x] \in Seq(Procs) /\ SinRepetir(recibidos[x])
      BY <1>4 DEF TypeOK, Colas
    <3> QED
      BY <2>2, <2>4, <2>6, <3>1, RangoAppend, RepetirAlPoner
  <2>8. /\ esperando' \in [Conexiones -> Seq(Procs)] /\ esperando'[d] = c
        /\ \A y \in Conexiones \ {d} : esperando'[y] = esperando[y]
    <3>1. esperando \in [Conexiones -> Seq(Procs)] /\ esperando' = [esperando EXCEPT ![d] = c]
      BY <1>8, <2>2 DEF TypeOK, Sacar, TrasSacar
    <3> QED
      BY <1>4, <2>4, <3>1
  <2>9. /\ recibidos' \in [Conexiones -> Seq(Procs)] /\ recibidos'[x] = r
        /\ \A y \in Conexiones \ {x} : recibidos'[y] = recibidos[y]
    <3>1. recibidos \in [Conexiones -> Seq(Procs)] /\ recibidos' = [recibidos EXCEPT ![x] = r]
      BY <1>8, <2>1, <2>2, TiposDePedidos DEF Sacar
    <3> QED
      BY <1>4, <2>7, <3>1
  <2>10. a \in Tarea /\ a.op = "ANOTAR" /\ a.pid = p /\ a.con = x /\ A \in Seq(Tarea)
    <3>1. a \in Tarea /\ a.op = "ANOTAR" /\ a.pid = p /\ a.con = x
      BY <1>4, <2>1, <2>4 DEF DeIO, Nada, Tarea, Ops
    <3> QED
      BY <2>1, <3>1
  <2>11. Sigue(h, A)
    BY <1>8, <2>1 DEF Sacar
  <2>12. /\ pila' \in [Hilos -> Seq(Tarea)]
         /\ \A k \in Hilos : Dentro(k)' = Dentro(k)
    <3>1. Pedidos(A) = {}
      BY <2>1, <2>10, PedidosSon DEF ConPedido
    <3> QED
      BY <1>2, <1>3, <2>10, <2>11, <3>1, DentroSigue
  <2>13. TypeOK'
    BY <1>5, <1>6, <2>8, <2>9, <2>12, TiposDeMover, TiposDePedidos DEF Sacar, procVars, listaVars
  <2>14. Formas' /\ Calladas'
    <3>1. Completa(a)
      BY <1>4, <2>4, <2>10 DEF Completa, ConPid, ConDispositivo
    <3>2. Resto(a, Tail(pila[h]))
      BY <1>2, <1>3, <2>10 DEF Resto, Ultimas, Ops, Primeras, Envios
    <3>3. Forma(A \o Tail(pila[h]))
      BY <1>3, <2>1, <2>10, <3>1, <3>2, FormaDeUna
    <3> QED
      BY <1>3, <1>5, <2>10, <2>11, <3>3, SigueFormas
  <2>15. /\ Dentro(EnCola(d)) = Dentro(EnCola(d))' \cup {p} /\ p \notin Dentro(EnCola(d))'
         /\ Dentro(EnConexion(x))' = Dentro(EnConexion(x)) \cup {p}
    BY <2>4, <2>7, <2>8, <2>9, DentroDe
  <2>16. \A s \in Sitios \ {EnCola(d), EnConexion(x)} : Dentro(s)' = Dentro(s)
    <3>1. \A y \in Conexiones \ {d} : Dentro(EnCola(y))' = Dentro(EnCola(y))
      BY <2>8, DentroDe
    <3>2. \A y \in Conexiones \ {x} : Dentro(EnConexion(y))' = Dentro(EnConexion(y))
      BY <2>9, DentroDe
    <3> QED
      BY <2>12, <3>1, <3>2, SitiosDistintos
  <2>17. Reparto'
    <3>1. lugar \in [Procs -> {"CPU", "IO", "FIN"}]
      BY DEF TypeOK
    <3> QED
      BY <1>5, <2>4, <2>5, <2>6, <2>15, <2>16, <3>1, MueveDe
  <2>18. Colas'
    <3>1. \A y \in Conexiones : SinRepetir(esperando'[y]) /\ SinRepetir(recibidos'[y])
      BY <2>4, <2>7, <2>8, <2>9 DEF Colas
    <3> QED
      BY <3>1 DEF Colas, SinRepetir
  <2> QED
    BY <2>13, <2>14, <2>17, <2>18
<1> QED
  BY <1>7, <1>8
(* The first process a connection was sent goes to its thread.              *)
LEMMA AlHilo ==
    ASSUME IInvIO, NEW x \in Conexiones, conexion[x] = "ACTIVA", pila[Con(x)] = <<>>,
           recibidos[x] # <<>>, NEW B \in Seq(Tarea), Forma(B),
           Pedidos(B) = {Head(recibidos[x])},
           pila' = [pila EXCEPT ![Con(x)] = B],
           recibidos' = [recibidos EXCEPT ![x] = Tail(@)],
           lugar' = lugar, esperando' = esperando,
           conexion' = conexion \/ conexion' = [conexion EXCEPT ![x] = "CERRADA"]
    PROVE  /\ pila' \in [Hilos -> Seq(Tarea)] /\ recibidos' \in [Conexiones -> Seq(Procs)]
           /\ Formas' /\ Calladas' /\ Reparto' /\ Colas'
<1> USE DEF IInvIO
<1>1. PICK h, p, c : h = Con(x) /\ p = Head(recibidos[x]) /\ c = Tail(recibidos[x])
  OBVIOUS
<1>2. h \in Hilos /\ h \in Sitios /\ EnConexion(x) \in Sitios /\ h # EnConexion(x)
  BY <1>1, HilosDistintos, SitiosDistintos
<1>3. /\ pila' \in [Hilos -> Seq(Tarea)] /\ Formas'
      /\ \A k \in Hilos \ {h} : pila'[k] = pila[k]
      /\ Dentro(h) = {} /\ Dentro(h)' = {p}
  BY <1>1, <1>2, Empieza
<1>4. /\ p \in Procs /\ c \in Seq(Procs) /\ Rango(recibidos[x]) = {p} \cup Rango(c)
      /\ SinRepetir(c) /\ p \notin Rango(c)
  <2>1. recibidos[x] \in Seq(Procs) /\ SinRepetir(recibidos[x])
    BY TiposDePedidos DEF Colas
  <2> QED
    BY <1>1, <2>1, RangoHeadTail, RepetirAlSacar
<1>5. /\ recibidos' \in [Conexiones -> Seq(Procs)] /\ recibidos'[x] = c
      /\ \A y \in Conexiones \ {x} : recibidos'[y] = recibidos[y]
  BY <1>1, <1>4, TiposDePedidos
<1>6. Calladas'
  <2>1. ASSUME NEW y \in Conexiones, conexion'[y] = "NO" PROVE pila'[Con(y)] = <<>>
    <3>1. y # x /\ conexion[y] = "NO"
      BY <2>1, TiposDePedidos
    <3>2. Con(y) \in Hilos \ {h} /\ pila[Con(y)] = <<>>
      BY <1>1, <3>1, HilosDistintos DEF Calladas
    <3> QED
      BY <1>3, <3>2
  <2> QED
    BY <2>1 DEF Calladas
<1>7. /\ Dentro(EnConexion(x)) = Dentro(EnConexion(x))' \cup {p} /\ p \notin Dentro(EnConexion(x))'
      /\ p \in Dentro(EnConexion(x)) /\ Dentro(h)' = Dentro(h) \cup {p}
  <2>1. /\ Dentro(EnConexion(x)) = Rango(recibidos[x])
        /\ Dentro(EnConexion(x))' = Rango(recibidos'[x])
    BY DentroDe
  <2>2. Rango(recibidos'[x]) = Rango(c)
    BY <1>5
  <2> QED
    BY <1>3, <1>4, <2>1, <2>2
<1>8. \A s \in Sitios \ {EnConexion(x), h} : Dentro(s)' = Dentro(s)
  <2>1. \A k \in Hilos \ {h} : Dentro(k)' = Dentro(k)
    BY <1>2, <1>3, OtrosHilos
  <2>2. \A y \in Conexiones : Dentro(EnCola(y))' = Dentro(EnCola(y))
    BY DentroDe
  <2>3. \A y \in Conexiones \ {x} : Dentro(EnConexion(y))' = Dentro(EnConexion(y))
    BY <1>5, DentroDe
  <2> QED
    BY <2>1, <2>2, <2>3, SitiosDistintos
<1>9. Reparto'
  BY <1>2, <1>4, <1>7, <1>8, TiposDePedidos, MueveDe
<1>10. Colas'
  <2>1. \A y \in Conexiones : SinRepetir(esperando'[y]) /\ SinRepetir(recibidos'[y])
    BY <1>4, <1>5 DEF Colas
  <2> QED
    BY <2>1 DEF Colas, SinRepetir
<1> QED
  BY <1>3, <1>5, <1>6, <1>9, <1>10

LEMMA DesbloqueoMantiene == ASSUME IInvIO, NEW x \in Conexiones, Desbloqueo(x) PROVE IInvIO'
<1> USE DEF IInvIO
<1>1. PICK p, t, u, v, B : /\ p = Head(recibidos[x])
                           /\ t = DePid("LIBERAR", p) /\ u = DeCon("ENVIAR", x)
                           /\ v = DePid("DESPERTAR", p) /\ B = <<t, u, v>>
  OBVIOUS
<1>2. conexion[x] = "ACTIVA" /\ pila[Con(x)] = <<>> /\ recibidos[x] # <<>>
  BY DEF Desbloqueo
<1>3. p \in Procs
  <2>1. recibidos[x] \in Seq(Procs)
    BY TiposDePedidos
  <2> QED
    BY <1>1, <1>2, <2>1
<1>4. /\ t \in Tarea /\ t.op = "LIBERAR" /\ t.pid = p
      /\ v \in Tarea /\ v.op = "DESPERTAR" /\ v.pid = p
  BY <1>1, <1>3, TareaDePid DEF Ops
<1>5. u \in Tarea /\ u.op = "ENVIAR" /\ u.con = x
  BY <1>1, TareaDeCon DEF Ops
<1>6. B \in Seq(Tarea) /\ B # <<>> /\ Head(B) = t /\ Tail(B) = <<u, v>>
  BY <1>1, <1>4, <1>5
<1>7. Forma(B)
  <2>1. Completa(t)
    BY <1>3, <1>4 DEF Completa, ConDispositivo, ConConexion
  <2>2. Resto(t, <<u, v>>)
    BY <1>1, <1>4 DEF Resto
  <2> QED
    BY <1>6, <2>1, <2>2 DEF Forma
<1>8. Pedidos(B) = {p}
  <2>1. Rango(B) = {t, u, v}
    BY <1>1, RangoDePocos
  <2>2. { w \in Rango(B) : w.op \in ConPedido } = {v}
    BY <1>4, <1>5, <2>1 DEF ConPedido
  <2> QED
    BY <1>4, <2>2 DEF Pedidos
<1>9. /\ pila' = [pila EXCEPT ![Con(x)] = B]
      /\ recibidos' = [recibidos EXCEPT ![x] = Tail(@)]
      /\ UNCHANGED <<lugar, pedidos, ios, instancias, liberadas, esperando, proceso, conexion,
                     caido>>
  BY <1>1 DEF Desbloqueo, TareasDesbloqueo, procVars, listaVars
<1>10. /\ pila' \in [Hilos -> Seq(Tarea)] /\ recibidos' \in [Conexiones -> Seq(Procs)]
       /\ Formas' /\ Calladas' /\ Reparto' /\ Colas'
  BY <1>1, <1>2, <1>6, <1>7, <1>8, <1>9, AlHilo
<1>11. TypeOK'
  BY <1>9, <1>10, TiposDeMover, TiposDePedidos
<1> QED
  BY <1>10, <1>11

LEMMA DesconectarMantiene == ASSUME IInvIO, NEW x \in Conexiones, Desconectar(x) PROVE IInvIO'
<1> USE DEF IInvIO
<1>1. PICK p, t, u : /\ p = Head(recibidos[x])
                     /\ t = DePid("SALIR", p) /\ u = DeCon("ELIMINAR", x)
  OBVIOUS
<1>2. /\ conexion[x] = "ACTIVA" /\ pila[Con(x)] = <<>>
      /\ conexion' = [conexion EXCEPT ![x] = "CERRADA"]
      /\ UNCHANGED <<lugar, pedidos, ios, instancias, liberadas, esperando, proceso, caido>>
  BY DEF Desconectar, procVars, listaVars
<1>3. conexion' \in [Conexiones -> {"NO", "ACTIVA", "CERRADA"}]
  BY <1>2, TiposDePedidos
<1>4. u \in Tarea /\ u.op = "ELIMINAR" /\ u.con = x
  BY <1>1, TareaDeCon DEF Ops
<1>5. \/ /\ recibidos[x] # <<>> /\ pila' = [pila EXCEPT ![Con(x)] = <<t, u>>]
         /\ recibidos' = [recibidos EXCEPT ![x] = Tail(@)]
      \/ pila' = [pila EXCEPT ![Con(x)] = <<u>>] /\ recibidos' = recibidos
  BY <1>1 DEF Desconectar
<1>6. CASE /\ recibidos[x] # <<>> /\ pila' = [pila EXCEPT ![Con(x)] = <<t, u>>]
           /\ recibidos' = [recibidos EXCEPT ![x] = Tail(@)]
  <2>1. p \in Procs
    <3>1. recibidos[x] \in Seq(Procs)
      BY TiposDePedidos
    <3> QED
      BY <1>1, <1>6, <3>1
  <2>2. t \in Tarea /\ t.op = "SALIR" /\ t.pid = p
    BY <1>1, <2>1, TareaDePid DEF Ops
  <2>3. PICK B : B = <<t, u>>
    OBVIOUS
  <2>4. B \in Seq(Tarea) /\ B # <<>> /\ Head(B) = t /\ Tail(B) = <<u>>
    BY <1>4, <2>2, <2>3
  <2>5. Forma(B)
    <3>1. Completa(t)
      BY <2>1, <2>2 DEF Completa, ConDispositivo, ConConexion
    <3>2. Resto(t, <<u>>)
      BY <1>1, <2>2 DEF Resto
    <3> QED
      BY <2>4, <3>1, <3>2 DEF Forma
  <2>6. Pedidos(B) = {p}
    <3>1. Rango(B) = {t, u}
      BY <2>3, RangoDePocos
    <3>2. { w \in Rango(B) : w.op \in ConPedido } = {t}
      BY <1>4, <2>2, <3>1 DEF ConPedido
    <3> QED
      BY <2>2, <3>2 DEF Pedidos
  <2>7. /\ pila' \in [Hilos -> Seq(Tarea)] /\ recibidos' \in [Conexiones -> Seq(Procs)]
        /\ Formas' /\ Calladas' /\ Reparto' /\ Colas'
    BY <1>1, <1>2, <1>6, <2>3, <2>4, <2>5, <2>6, AlHilo
  <2>8. TypeOK'
    BY <1>2, <1>3, <2>7, TiposDeMover, TiposDePedidos
  <2> QED
    BY <2>7, <2>8
<1>7. CASE pila' = [pila EXCEPT ![Con(x)] = <<u>>] /\ recibidos' = recibidos
  <2>1. PICK h, B : h = Con(x) /\ B = <<u>>
    OBVIOUS
  <2>2. B \in Seq(Tarea) /\ B # <<>> /\ Head(B) = u /\ Tail(B) = <<>> /\ h \in Hilos
    BY <1>4, <2>1, HilosDistintos
  <2>3. Forma(B)
    <3>1. Completa(u)
      BY <1>4 DEF Completa, ConPid, ConPedido, ConDispositivo
    <3> QED
      BY <1>4, <2>2, <3>1 DEF Forma, Resto, Ultimas, Ops
  <2>4. Pedidos(B) = {}
    BY <1>4, <2>1, PedidosSon DEF ConPedido
  <2>5. /\ pila' \in [Hilos -> Seq(Tarea)] /\ Formas'
        /\ \A k \in Hilos \ {h} : pila'[k] = pila[k]
        /\ Dentro(h) = {} /\ Dentro(h)' = {}
    BY <1>2, <1>7, <2>1, <2>2, <2>3, <2>4, Empieza
  <2>6. Calladas'
    <3>1. ASSUME NEW y \in Conexiones, conexion'[y] = "NO" PROVE pila'[Con(y)] = <<>>
      <4>1. y # x /\ conexion[y] = "NO"
        BY <1>2, <3>1, TiposDePedidos
      <4>2. Con(y) \in Hilos \ {h} /\ pila[Con(y)] = <<>>
        BY <2>1, <4>1, HilosDistintos DEF Calladas
      <4> QED
        BY <2>5, <4>2
    <3> QED
      BY <3>1 DEF Calladas
  <2>7. \A s \in Sitios : Dentro(s)' = Dentro(s)
    <3>1. \A k \in Hilos \ {h} : Dentro(k)' = Dentro(k)
      BY <2>2, <2>5, OtrosHilos
    <3>2. \A y \in Conexiones : /\ Dentro(EnCola(y))' = Dentro(EnCola(y))
                                /\ Dentro(EnConexion(y))' = Dentro(EnConexion(y))
      BY <1>2, <1>7, DentroDe
    <3> QED
      BY <2>5, <3>1, <3>2, SitiosDistintos
  <2>8. Reparto'
    BY <1>2, <2>7, Quietos
  <2>9. Colas'
    BY <1>2, <1>7 DEF Colas
  <2>10. TypeOK'
    BY <1>2, <1>3, <1>7, <2>5, TiposDeMover, TiposDePedidos
  <2> QED
    BY <2>5, <2>6, <2>8, <2>9, <2>10
<1> QED
  BY <1>5, <1>6, <1>7

(* A process that wakes up or ends.                                         *)
LEMMA PedidoAcaba ==
    ASSUME IInvIO, NEW h \in Hilos, NEW p, NEW t, Toca(h, t), t.op \in {"DESPERTAR", "SALIR"},
           t.pid = p, Sigue(h, <<>>), NEW v \in {"CPU", "FIN"},
           lugar' = [lugar EXCEPT ![p] = v],
           UNCHANGED <<pedidos, ios, instancias, liberadas, esperando, recibidos, proceso,
                       conexion, caido>>
    PROVE  IInvIO'
<1> USE DEF IInvIO
<1>1. PICK A : A = <<>> /\ A \in Seq(Tarea)
  BY EmptySeq
<1>2. /\ pila[h] # <<>> /\ Completa(t) /\ t.op \in ConPedido /\ Forma(Tail(pila[h]))
      /\ Tail(pila[h]) \in Seq(Tarea)
  BY TocaDice DEF ConPedido
<1>3. p \in Procs
  BY <1>2 DEF Completa, ConPid
<1>4. /\ pila' \in [Hilos -> Seq(Tarea)]
      /\ \A k \in Hilos \ {h} : Dentro(k)' = Dentro(k)
      /\ Dentro(h) = {p} /\ Dentro(h)' = {}
  BY <1>1, <1>2, DentroSigue, PedidosSon
<1>5. Formas' /\ Calladas'
  <2>1. A \o Tail(pila[h]) = Tail(pila[h])
    BY <1>1, <1>2, ConcatEmptySeq
  <2> QED
    BY <1>1, <1>2, <2>1, SigueFormas
<1>6. \A s \in Sitios \ {h} : Dentro(s)' = Dentro(s)
  <2>1. \A y \in Conexiones : /\ Dentro(EnCola(y))' = Dentro(EnCola(y))
                              /\ Dentro(EnConexion(y))' = Dentro(EnConexion(y))
    BY DentroDe
  <2> QED
    BY <1>4, <2>1, SitiosDistintos
<1>7. Reparto'
  <2>1. h \in Sitios /\ v # "IO"
    BY SitiosDistintos
  <2>2. p \in Dentro(h) /\ p \notin Dentro(h)' /\ Dentro(h) = Dentro(h)' \cup {p}
    BY <1>4
  <2> QED
    BY <1>3, <1>6, <2>1, <2>2, TiposDePedidos, SaleDe
<1>8. TypeOK'
  <2>1. lugar' \in [Procs -> {"CPU", "IO", "FIN"}]
    BY TiposDePedidos
  <2> QED
    BY <1>4, <2>1, TiposDeMover, TiposDePedidos
<1>9. Colas'
  BY DEF Colas
<1> QED
  BY <1>5, <1>7, <1>8, <1>9

LEMMA DespertarMantiene ==
    ASSUME IInvIO, NEW x \in Conexiones, NEW p, Despertar(x, p)
    PROVE  IInvIO'
<1>1. PICK t, v : t = DePid("DESPERTAR", p) /\ v = IF lugar[p] = "FIN" THEN "FIN" ELSE "CPU"
  OBVIOUS
<1>2. t.op = "DESPERTAR" /\ t.pid = p /\ Con(x) \in Hilos /\ Toca(Con(x), t) /\ Sigue(Con(x), <<>>)
  BY <1>1, Campos, HilosDistintos DEF Despertar
<1>3. /\ v \in {"CPU", "FIN"} /\ lugar' = [lugar EXCEPT ![p] = v]
      /\ UNCHANGED <<pedidos, ios, instancias, liberadas, esperando, recibidos, proceso,
                     conexion, caido>>
  BY <1>1 DEF Despertar, listaVars, colaVars
<1> QED
  BY <1>2, <1>3, PedidoAcaba

LEMMA SalirMantiene == ASSUME IInvIO, NEW h \in Hilos, NEW p, Salir(h, p) PROVE IInvIO'
<1>1. PICK t : t = DePid("SALIR", p)
  OBVIOUS
<1>2. t.op = "SALIR" /\ t.pid = p /\ Toca(h, t) /\ Sigue(h, <<>>)
  BY <1>1, Campos DEF Salir
<1>3. /\ lugar' = [lugar EXCEPT ![p] = "FIN"]
      /\ UNCHANGED <<pedidos, ios, instancias, liberadas, esperando, recibidos, proceso,
                     conexion, caido>>
  BY DEF Salir, listaVars, colaVars
<1> QED
  BY <1>2, <1>3, PedidoAcaba
LEMMA DesencolarMantiene ==
    ASSUME IInvIO, NEW x \in Conexiones, NEW d, NEW n, Desencolar(x, d, n)
    PROVE  IInvIO'
<1> USE DEF IInvIO
<1>1. PICK t, h : t = [DeIO("DESENCOLAR", d, Nadie, Nadie) EXCEPT !.n = n] /\ h = Con(x)
  OBVIOUS
<1>2. t.op = "DESENCOLAR" /\ t.io = d /\ t.n = n /\ h \in Hilos /\ Toca(h, t)
  BY <1>1, Campos, HilosDistintos DEF Desencolar
<1>3. /\ pila[h] # <<>> /\ Completa(t) /\ t \in Tarea /\ t.op \notin ConPedido
      /\ Tail(pila[h]) \in Seq(Tarea) /\ Resto(t, Tail(pila[h]))
      /\ Pedidos(pila[h]) = Pedidos(Tail(pila[h]))
  BY <1>2, TocaDice DEF ConPedido
<1>4. d \in Conexiones /\ n \in Nat /\ n - 1 \in Nat
  BY <1>2, <1>3 DEF Completa, ConDispositivo, Tarea, Desencolar, QuedanTurnos
<1>5. UNCHANGED <<lugar, pedidos, ios, instancias, liberadas, recibidos, proceso, conexion>>
  BY DEF Desencolar, procVars, listaVars
<1>6. caido' \in BOOLEAN
  BY DEF Desencolar
<1>7. CASE esperando[d] = <<>>
  <2>1. Sigue(h, <<>>) /\ esperando' = esperando
    BY <1>1, <1>7 DEF Desencolar
  <2>2. pila' \in [Hilos -> Seq(Tarea)]
    BY <1>2, <1>3, <2>1, PilaSale
  <2>3. TypeOK'
    BY <1>5, <1>6, <2>1, <2>2, TiposIguales
  <2> QED
    BY <1>2, <1>3, <1>5, <2>1, <2>3, SigueNada
<1>8. CASE esperando[d] # <<>>
  <2>1. PICK p, y, c, r : /\ p = Head(esperando[d]) /\ y = (IF n = 1 THEN x ELSE Nadie)
                          /\ c = Tail(pila[h]) /\ r = Tail(esperando[d])
    OBVIOUS
  <2>2. PICK a, b, A : /\ a = DePid("SALIR", p)
                       /\ b = [DeIO("DESENCOLAR", d, Nadie, y) EXCEPT !.n = n - 1]
                       /\ A = <<a, b>>
    OBVIOUS
  <2>3. esperando[d] \in Seq(Procs) /\ SinRepetir(esperando[d])
    BY <1>4, TiposDePedidos DEF Colas
  <2>4. /\ p \in Procs /\ r \in Seq(Procs) /\ Rango(esperando[d]) = {p} \cup Rango(r)
        /\ SinRepetir(r) /\ p \notin Rango(r)
    BY <1>8, <2>1, <2>3, RangoHeadTail, RepetirAlSacar
  <2>5. a \in Tarea /\ a.op = "SALIR" /\ a.pid = p
    BY <2>2, <2>4, TareaDePid DEF Ops
  <2>6. b \in Tarea /\ b.op = "DESENCOLAR" /\ b.io = d
    BY <1>4, <2>1, <2>2 DEF DeIO, Nada, Tarea, Ops
  <2>7. A \in Seq(Tarea)
    BY <2>2, <2>5, <2>6
  <2>8. Sigue(h, A) /\ esperando' = [esperando EXCEPT ![d] = r]
    BY <1>1, <1>8, <2>1, <2>2 DEF Desencolar
  <2>9. SoloBorra(c) /\ c \in Seq(Tarea)
    BY <1>2, <1>3, <2>1 DEF Resto, Ultimas, Primeras, Envios
  <2>10. Pedidos(c) = {}
    <3>1. PICK u : u = Head(c)
      OBVIOUS
    <3>2. u.op = "BORRAR" /\ c # <<>> /\ Tail(c) = <<>>
      BY <2>9, <3>1 DEF SoloBorra
    <3>3. Rango(c) = {u}
      <4>1. Rango(c) = {Head(c)} \cup Rango(Tail(c)) /\ Rango(<<>>) = {}
        BY <2>9, <3>2, RangoHeadTail, RangoDePocos
      <4> QED
        BY <3>1, <3>2, <4>1
    <3> QED
      BY <3>2, <3>3 DEF Pedidos, ConPedido
  <2>11. Pedidos(A) = {p}
    <3>1. Rango(A) = {a, b}
      BY <2>2, RangoDePocos
    <3>2. { w \in Rango(A) : w.op \in ConPedido } = {a}
      BY <2>5, <2>6, <3>1 DEF ConPedido
    <3> QED
      BY <2>5, <3>2 DEF Pedidos
  <2>12. /\ pila' \in [Hilos -> Seq(Tarea)]
         /\ \A k \in Hilos \ {h} : Dentro(k)' = Dentro(k)
         /\ Dentro(h)' = Dentro(h) \cup {p}
    BY <1>2, <1>3, <2>7, <2>8, <2>11, DentroSigue
  <2>13. Dentro(h) = {}
    BY <1>2, <1>3, <2>1, <2>10, DentroDe
  <2>14. Formas' /\ Calladas'
    <3>1. Completa(a) /\ Completa(b)
      BY <1>4, <2>4, <2>5, <2>6 DEF Completa, ConDispositivo, ConConexion, ConPid, ConPedido
    <3>2. PICK f : f = <<b>> \o c
      OBVIOUS
    <3>3. f # <<>> /\ Head(f) = b /\ Tail(f) = c
      BY <2>6, <2>9, <3>2
    <3>4. VaciaYBorra(f)
      BY <2>6, <2>9, <3>1, <3>3 DEF VaciaYBorra
    <3>5. Resto(a, <<b>> \o c)
      BY <2>5, <3>2, <3>4 DEF Resto
    <3>6. Forma(A \o Tail(pila[h]))
      BY <2>1, <2>2, <2>5, <2>6, <2>9, <3>1, <3>5, FormaDeDos
    <3> QED
      BY <1>2, <1>3, <1>5, <2>7, <2>8, <3>6, SigueFormas
  <2>15. /\ esperando' \in [Conexiones -> Seq(Procs)] /\ esperando'[d] = r
         /\ \A z \in Conexiones \ {d} : esperando'[z] = esperando[z]
    BY <1>4, <2>4, <2>8, TiposDePedidos
  <2>16. TypeOK'
    BY <1>5, <1>6, <2>12, <2>15, TiposDeMover, TiposDePedidos
  <2>17. /\ Dentro(EnCola(d)) = Dentro(EnCola(d))' \cup {p} /\ p \notin Dentro(EnCola(d))'
         /\ p \in Dentro(EnCola(d))
    <3>1. /\ Dentro(EnCola(d)) = Rango(esperando[d])
          /\ Dentro(EnCola(d))' = Rango(esperando'[d])
      BY DentroDe
    <3>2. Rango(esperando'[d]) = Rango(r)
      BY <2>15
    <3> QED
      BY <2>4, <3>1, <3>2
  <2>18. \A s \in Sitios \ {EnCola(d), h} : Dentro(s)' = Dentro(s)
    <3>1. \A z \in Conexiones \ {d} : Dentro(EnCola(z))' = Dentro(EnCola(z))
      BY <2>15, DentroDe
    <3>2. \A z \in Conexiones : Dentro(EnConexion(z))' = Dentro(EnConexion(z))
      BY <1>5, DentroDe
    <3> QED
      BY <2>12, <3>1, <3>2, SitiosDistintos
  <2>19. Reparto'
    <3>1. EnCola(d) \in Sitios /\ h \in Sitios /\ EnCola(d) # h
      BY <1>2, <1>4, SitiosDistintos
    <3> QED
      BY <1>5, <2>4, <2>12, <2>17, <2>18, <3>1, TiposDePedidos, MueveDe
  <2>20. Colas'
    <3>1. \A z \in Conexiones : SinRepetir(esperando'[z]) /\ SinRepetir(recibidos'[z])
      BY <1>5, <2>4, <2>15 DEF Colas
    <3> QED
      BY <3>1 DEF Colas, SinRepetir
  <2> QED
    BY <2>14, <2>16, <2>19, <2>20
<1> QED
  BY <1>7, <1>8
-----------------------------------------------------------------------------
(* The inductive invariant, step by step.                                   *)
LEMMA IOAlEmpezar == ASSUME Init PROVE IInvIO
<1>1. \A h \in Hilos : pila[h] = <<>>
  BY DEF Init
<1>2. \A x \in Conexiones : esperando[x] = <<>> /\ recibidos[x] = <<>>
  BY DEF Init
<1>3. TypeOK
  <2>1. <<>> \in Seq(Tarea) /\ <<>> \in Seq(Conexiones) /\ <<>> \in Seq(Procs)
    BY EmptySeq
  <2>2. pila \in [Hilos -> Seq(Tarea)]
    BY <2>1 DEF Init
  <2>3. pedidos \in [Procs -> 0..MaxPedidos]
    BY MaxPedidosAssumption DEF Init
  <2>4. /\ ios \in Seq(Conexiones) /\ instancias \in [Conexiones -> Seq(Conexiones)]
        /\ esperando \in [Conexiones -> Seq(Procs)] /\ recibidos \in [Conexiones -> Seq(Procs)]
    BY <2>1 DEF Init
  <2>5. /\ lugar \in [Procs -> {"CPU", "IO", "FIN"}]
        /\ proceso \in [Conexiones -> Procs \cup {Nadie, Tomada}]
        /\ conexion \in [Conexiones -> {"NO", "ACTIVA", "CERRADA"}]
    BY DEF Init
  <2>6. /\ liberadas \subseteq { <<q, y>> : q \in {"IO", "INSTANCIA"}, y \in Conexiones }
        /\ caido \in BOOLEAN
    <3> DEFINE S == { <<q, y>> : q \in {"IO", "INSTANCIA"}, y \in Conexiones }
    <3>1. liberadas = {} /\ caido = FALSE
      BY DEF Init
    <3>2. caido \in BOOLEAN
      BY <3>1
    <3> HIDE DEF S
    <3>3. liberadas \subseteq S
      BY <3>1
    <3> QED
      BY <3>2, <3>3 DEF S
  <2> QED
    BY <2>2, <2>3, <2>4, <2>5, <2>6 DEF TypeOK
<1>4. Formas /\ Calladas
  BY <1>1, HilosDistintos DEF Formas, Forma, Calladas
<1>5. \A s \in Sitios : Dentro(s) = {}
  <2>1. \A h \in Hilos : Dentro(h) = {}
    BY <1>1, DentroDe, PedidosSon
  <2>2. \A x \in Conexiones : Dentro(EnCola(x)) = {} /\ Dentro(EnConexion(x)) = {}
    BY <1>2, DentroDe, RangoDePocos
  <2> QED
    BY <2>1, <2>2, SitiosDistintos
<1>6. Reparto
  BY <1>5 DEF Reparto, Init
<1>7. Colas
  BY <1>2 DEF Colas, SinRepetir
<1> QED
  BY <1>3, <1>4, <1>6, <1>7 DEF IInvIO

LEMMA IOQuieta == ASSUME IInvIO, UNCHANGED vars PROVE IInvIO'
<1>1. \A s \in Sitios : Dentro(s)' = Dentro(s)
  <2>1. \A h \in Hilos : Dentro(h)' = Dentro(h)
    BY DentroDe DEF vars
  <2>2. \A x \in Conexiones : /\ Dentro(EnCola(x))' = Dentro(EnCola(x))
                              /\ Dentro(EnConexion(x))' = Dentro(EnConexion(x))
    BY DentroDe DEF vars
  <2> QED
    BY <2>1, <2>2, SitiosDistintos
<1>2. Reparto'
  BY <1>1, Quietos DEF IInvIO, vars
<1>3. TypeOK'
  BY DEF IInvIO, TypeOK, vars
<1>4. Formas' /\ Calladas' /\ Colas'
  BY DEF IInvIO, Formas, Calladas, Colas, vars
<1> QED
  BY <1>2, <1>3, <1>4 DEF IInvIO

LEMMA IOPasoAPaso == IInvIO /\ [Next]_vars => IInvIO'
<1> SUFFICES ASSUME IInvIO, [Next]_vars PROVE IInvIO'
  OBVIOUS
<1>1. CASE UNCHANGED vars
  BY <1>1, IOQuieta
<1>2. ASSUME NEW p \in Procs, Pedir(p) PROVE IInvIO'
  BY <1>2, PedirMantiene
<1>3. CASE DelGestor
  BY <1>3, BuscarMantiene, TomarMantiene, VerMantiene, EncolarMantiene DEF DelGestor
<1>4. ASSUME NEW h \in Hilos, DeHilo(h) PROVE IInvIO'
  BY <1>4, EnviarMantiene, SacarMantiene, AnotarMantiene, SalirMantiene DEF DeHilo
<1>5. ASSUME NEW x \in Conexiones, DeConexion(x) PROVE IInvIO'
  BY <1>5, RecibirMantiene, NuevaInstanciaMantiene, NuevaIOMantiene, LiberarMantiene,
     DespertarMantiene, EliminarMantiene, QuitarMantiene, VaciaMantiene, DesencolarMantiene,
     CarniceroMantiene, BorrarMantiene DEF DeConexion
<1>6. ASSUME NEW x \in Conexiones, Identificar(x) \/ Desbloqueo(x) \/ Desconectar(x)
      PROVE  IInvIO'
  BY <1>6, IdentificarMantiene, DesbloqueoMantiene, DesconectarMantiene
<1> QED
  BY <1>1, <1>2, <1>3, <1>4, <1>5, <1>6 DEF Next

LEMMA IOSiempre == Spec => []IInvIO
<1>1. Init => IInvIO
  BY IOAlEmpezar
<1> QED
  BY <1>1, IOPasoAPaso, PTL DEF Spec

(* Every thread only has tasks it knows how to do, each list holds what it  *)
(* is a list of, and a process asks MaxPedidos times at most: the types of  *)
(* list_ios, its t_IO and t_IO_instancia and of the handlers that use them. *)
THEOREM TiposDeIOSiempre == Spec => []TypeOK
<1>1. IInvIO => TypeOK
  BY DEF IInvIO
<1> QED
  BY <1>1, IOSiempre, PTL
-----------------------------------------------------------------------------
(* A request is in one place: in one task of a thread, which has three at   *)
(* most, or once in a list, which is no longer than there are processes.    *)
LEMMA RestoCorto ==
    ASSUME NEW t \in Tarea, Completa(t), NEW c \in Seq(Tarea), Resto(t, c)
    PROVE  /\ Len(c) <= 2
           /\ \A i \in DOMAIN c : c[i].op \in ConPedido => i = Len(c)
<1> DEFINE Meta == Len(c) <= 2 /\ \A i \in DOMAIN c : c[i].op \in ConPedido => i = Len(c)
<1>1. DOMAIN c = 1..Len(c) /\ Len(c) \in Nat
  BY LenProperties
<1>2. CASE Len(c) <= 1
  BY <1>1, <1>2
<1>3. CASE t.op = "LIBERAR" /\ \E x \in Conexiones :
              c = <<DeCon("ENVIAR", x), DePid("DESPERTAR", t.pid)>>
  <2>1. PICK x \in Conexiones : c = <<DeCon("ENVIAR", x), DePid("DESPERTAR", t.pid)>>
    BY <1>3
  <2>2. PICK u, v : u = DeCon("ENVIAR", x) /\ v = DePid("DESPERTAR", t.pid)
    OBVIOUS
  <2>3. c = <<u, v>> /\ u.op = "ENVIAR"
    BY <2>1, <2>2, Campos
  <2>4. Len(c) = 2 /\ c[1] = u
    BY <2>3
  <2>5. c[1].op \notin ConPedido
    BY <2>3, <2>4 DEF ConPedido
  <2> QED
    BY <1>1, <2>4, <2>5
<1>4. CASE t.op = "SALIR" /\ VaciaYBorra(c)
  <2>1. c # <<>> /\ Tail(c) # <<>> /\ Tail(Tail(c)) = <<>>
    BY <1>4 DEF VaciaYBorra, SoloBorra
  <2>2. Len(Tail(c)) = Len(c) - 1 /\ Tail(c) \in Seq(Tarea)
    BY <2>1, HeadTailProperties
  <2>3. Len(Tail(Tail(c))) = Len(Tail(c)) - 1
    BY <2>1, <2>2, HeadTailProperties
  <2>4. Len(Tail(Tail(c))) = 0
    BY <2>1, EmptySeq
  <2>5. Len(c) = 2
    BY <1>1, <2>2, <2>3, <2>4
  <2>6. Pedidos(c) = {}
    BY <1>4, RestoForma DEF ConPedido
  <2>7. \A i \in DOMAIN c : c[i].op \notin ConPedido
    BY <2>6 DEF Pedidos, Rango
  <2> QED
    BY <2>5, <2>7
<1>5. CASE t.op = "DESENCOLAR" /\ SoloBorra(c)
  <2>1. c # <<>> /\ Tail(c) = <<>>
    BY <1>5 DEF SoloBorra
  <2>2. Len(Tail(c)) = Len(c) - 1 /\ Len(Tail(c)) = 0
    BY <2>1, HeadTailProperties
  <2> QED
    BY <1>1, <1>2, <2>2
<1>6. CASE c = <<>>
  BY <1>2, <1>6
<1>7. ASSUME NEW u, c = <<u>> PROVE Meta
  <2>1. Len(c) = 1
    BY <1>7
  <2> QED
    BY <1>2, <2>1
<1> QED
  BY <1>3, <1>4, <1>5, <1>6, <1>7 DEF Resto

LEMMA UnSoloPedido ==
    ASSUME NEW s \in Seq(Tarea), Forma(s)
    PROVE  /\ Len(s) <= 3
           /\ \A i, j \in DOMAIN s : s[i].op \in ConPedido /\ s[j].op \in ConPedido => i = j
<1>1. CASE s = <<>>
  BY <1>1
<1>2. CASE s # <<>>
  <2>1. PICK t, c : t = Head(s) /\ c = Tail(s)
    OBVIOUS
  <2>2. t \in Tarea /\ Completa(t) /\ c \in Seq(Tarea) /\ Resto(t, c)
    BY <1>2, <2>1, HeadTailProperties DEF Forma
  <2>3. t = s[1] /\ Len(c) = Len(s) - 1 /\ \A i \in 1..Len(c) : c[i] = s[i + 1]
    BY <1>2, <2>1, HeadTailProperties
  <2>4. DOMAIN s = 1..Len(s) /\ Len(s) \in Nat \ {0} /\ DOMAIN c = 1..Len(c) /\ Len(c) \in Nat
    BY <1>2, <2>2, LenProperties, EmptySeq
  <2>5. Len(c) <= 2 /\ \A i \in DOMAIN c : c[i].op \in ConPedido => i = Len(c)
    BY <2>2, RestoCorto
  <2>6. ASSUME NEW i \in DOMAIN s, s[i].op \in ConPedido, i # 1
        PROVE  i = Len(s) /\ t.op \notin ConPedido
    <3>1. i - 1 \in DOMAIN c /\ c[i - 1] = s[i]
      BY <2>3, <2>4, <2>6
    <3>2. i - 1 = Len(c)
      BY <2>5, <2>6, <3>1
    <3>3. Pedidos(c) # {}
      BY <2>6, <3>1 DEF Pedidos, Rango
    <3>4. t.op \notin ConPedido
      BY <2>2, <3>3, RestoForma
    <3> QED
      BY <2>3, <2>4, <3>2, <3>4
  <2>7. ASSUME NEW i \in DOMAIN s, NEW j \in DOMAIN s,
               s[i].op \in ConPedido, s[j].op \in ConPedido
        PROVE  i = j
    BY <2>3, <2>6, <2>7
  <2> QED
    BY <2>3, <2>4, <2>5, <2>7
<1> QED
  BY <1>1, <1>2

LEMMA ListaCorta ==
    ASSUME NEW lista \in Seq(Procs), SinRepetir(lista)
    PROVE  Len(lista) <= Cardinality(Procs)
<1>1. PICK n : n = Len(lista)
  OBVIOUS
<1>2. n \in Nat /\ lista \in [1..n -> Procs] /\ DOMAIN lista = 1..n
  BY <1>1, LenProperties
<1>3. IsFiniteSet(1..n) /\ Cardinality(1..n) = n
  BY <1>2, FS_Interval
<1>4. IsFiniteSet(Procs) /\ Cardinality(Procs) \in Nat
  BY ProcsAssumption, FS_CardinalityType
<1>5. ~(Cardinality(Procs) < n)
  <2>1. ~ \E i, j \in 1..n : i # j /\ lista[i] = lista[j]
    BY <1>2 DEF SinRepetir
  <2> QED
    BY <1>2, <1>3, <1>4, <2>1, FS_PigeonHole
<1> QED
  BY <1>1, <1>2, <1>4, <1>5

LEMMA EnPilasDice ==
    ASSUME TypeOK, Formas, NEW p \in Procs
    PROVE  /\ \A l \in EnPilas(p) : l[1] \in Hilos /\ p \in Dentro(l[1])
           /\ \A l, m \in EnPilas(p) : l[1] = m[1] => l = m
           /\ \A h \in Hilos : p \in Dentro(h) => EnPilas(p) # {}
<1>1. \A h \in Hilos : /\ pila[h] \in Seq(Tarea)
                       /\ Len(pila[h]) <= 3
                       /\ \A i, j \in DOMAIN pila[h] :
                             pila[h][i].op \in ConPedido /\ pila[h][j].op \in ConPedido => i = j
  <2>1. \A h \in Hilos : pila[h] \in Seq(Tarea) /\ Forma(pila[h])
    BY DEF TypeOK, Formas
  <2> QED
    BY <2>1, UnSoloPedido
<1>2. ASSUME NEW l \in EnPilas(p)
      PROVE  /\ l[1] \in Hilos /\ l[2] \in DOMAIN pila[l[1]] /\ l = <<l[1], l[2]>>
             /\ pila[l[1]][l[2]].pid = p /\ pila[l[1]][l[2]].op \in ConPedido
  BY DEF EnPilas
<1>3. ASSUME NEW l \in EnPilas(p) PROVE p \in Dentro(l[1])
  <2>1. p \in Pedidos(pila[l[1]])
    BY <1>2 DEF Pedidos, Rango
  <2> QED
    BY <1>2, <2>1, DentroDe
<1>4. ASSUME NEW l \in EnPilas(p), NEW m \in EnPilas(p), l[1] = m[1] PROVE l = m
  <2>1. l[2] = m[2]
    BY <1>1, <1>2, <1>4
  <2> QED
    BY <1>2, <1>4, <2>1
<1>5. ASSUME NEW h \in Hilos, p \in Dentro(h) PROVE EnPilas(p) # {}
  <2>1. p \in Pedidos(pila[h])
    BY <1>5, DentroDe
  <2>2. PICK i \in DOMAIN pila[h] : pila[h][i].op \in ConPedido /\ pila[h][i].pid = p
    BY <2>1 DEF Pedidos, Rango
  <2>3. i \in 1..4
    <3>1. DOMAIN pila[h] = 1..Len(pila[h]) /\ Len(pila[h]) \in Nat
      BY <1>1, LenProperties
    <3> QED
      BY <1>1, <3>1
  <2>4. <<h, i>> \in EnPilas(p)
    BY <2>2, <2>3 DEF EnPilas
  <2> QED
    BY <2>4
<1> QED
  BY <1>2, <1>3, <1>4, <1>5

LEMMA EnListasDice ==
    ASSUME NEW t, NEW listas \in [Conexiones -> Seq(Procs)],
           \A x \in Conexiones : SinRepetir(listas[x]), NEW p \in Procs
    PROVE  /\ \A l \in EnListas(t, listas, p) : l[2] \in Conexiones /\ p \in Rango(listas[l[2]])
           /\ \A l, m \in EnListas(t, listas, p) : l[2] = m[2] => l = m
           /\ \A x \in Conexiones : p \in Rango(listas[x]) => EnListas(t, listas, p) # {}
<1>1. ASSUME NEW l \in EnListas(t, listas, p)
      PROVE  /\ l[2] \in Conexiones /\ l[3] \in DOMAIN listas[l[2]] /\ listas[l[2]][l[3]] = p
             /\ l = <<t, l[2], l[3]>>
  BY DEF EnListas
<1>2. ASSUME NEW l \in EnListas(t, listas, p) PROVE p \in Rango(listas[l[2]])
  BY <1>1 DEF Rango
<1>3. ASSUME NEW l \in EnListas(t, listas, p), NEW m \in EnListas(t, listas, p), l[2] = m[2]
      PROVE  l = m
  <2>1. l[3] = m[3]
    BY <1>1, <1>3 DEF SinRepetir
  <2> QED
    BY <1>1, <1>3, <2>1
<1>4. ASSUME NEW x \in Conexiones, p \in Rango(listas[x]) PROVE EnListas(t, listas, p) # {}
  <2>1. PICK i \in DOMAIN listas[x] : listas[x][i] = p
    BY <1>4 DEF Rango
  <2>2. i \in 1..Cardinality(Procs)
    <3>1. listas[x] \in Seq(Procs) /\ Len(listas[x]) <= Cardinality(Procs)
      BY ListaCorta
    <3>2. DOMAIN listas[x] = 1..Len(listas[x]) /\ Len(listas[x]) \in Nat
      BY <3>1, LenProperties
    <3>3. Cardinality(Procs) \in Nat
      BY ProcsAssumption, FS_CardinalityType
    <3> QED
      BY <3>1, <3>2, <3>3
  <2>3. <<t, x, i>> \in EnListas(t, listas, p)
    BY <2>1, <2>2 DEF EnListas
  <2> QED
    BY <2>3
<1> QED
  BY <1>1, <1>2, <1>3, <1>4

(* Whatever connects, ends or disconnects, the request of a blocked process *)
(* is with one thread of gestionar_io, desencolarProcesosEsperando or of a  *)
(* connection, in one procesos_esperando, or with one instance, and once;   *)
(* that of a process which is not blocked is nowhere.                       *)
THEOREM ConservacionSiempre == Spec => []Conservacion
<1>1. IInvIO => Conservacion
  <2> SUFFICES ASSUME IInvIO, NEW p \in Procs
               PROVE  Cardinality(Lugares(p)) = IF lugar[p] = "IO" THEN 1 ELSE 0
    BY DEF Conservacion
  <2> USE DEF IInvIO
  <2>1. PICK A, B, C : /\ A = EnPilas(p)
                       /\ B = EnListas("espera", esperando, p)
                       /\ C = EnListas("recibido", recibidos, p)
    OBVIOUS
  <2>2. /\ \A l \in A : l[1] \in Hilos /\ p \in Dentro(l[1])
        /\ \A l, m \in A : l[1] = m[1] => l = m
        /\ \A h \in Hilos : p \in Dentro(h) => A # {}
    BY <2>1, EnPilasDice
  <2>3. /\ \A l \in B : l[2] \in Conexiones /\ p \in Rango(esperando[l[2]])
        /\ \A l, m \in B : l[2] = m[2] => l = m
        /\ \A x \in Conexiones : p \in Rango(esperando[x]) => B # {}
    BY <2>1, EnListasDice, TiposDePedidos DEF Colas
  <2>4. /\ \A l \in C : l[2] \in Conexiones /\ p \in Rango(recibidos[l[2]])
        /\ \A l, m \in C : l[2] = m[2] => l = m
        /\ \A x \in Conexiones : p \in Rango(recibidos[x]) => C # {}
    BY <2>1, EnListasDice, TiposDePedidos DEF Colas
  <2>5. \A s, u \in Sitios : p \in Dentro(s) /\ p \in Dentro(u) => s = u
    BY DEF Reparto
  <2>6. \A l \in B : EnCola(l[2]) \in Sitios /\ p \in Dentro(EnCola(l[2]))
    BY <2>3, DentroDe, SitiosDistintos
  <2>7. \A l \in C : EnConexion(l[2]) \in Sitios /\ p \in Dentro(EnConexion(l[2]))
    BY <2>4, DentroDe, SitiosDistintos
  <2>8. \A l, m \in A : l = m
    BY <2>2, <2>5, SitiosDistintos
  <2>9. \A l, m \in B : l = m
    BY <2>3, <2>5, <2>6, SitiosDistintos
  <2>10. \A l, m \in C : l = m
    BY <2>4, <2>5, <2>7, SitiosDistintos
  <2>11. A = {} \/ B = {}
    BY <2>2, <2>5, <2>6, SitiosDistintos
  <2>12. A = {} \/ C = {}
    BY <2>2, <2>5, <2>7, SitiosDistintos
  <2>13. B = {} \/ C = {}
    BY <2>5, <2>6, <2>7, SitiosDistintos
  <2>14. PICK L : L = A \cup B \cup C
    OBVIOUS
  <2>15. \A l, m \in L : l = m
    BY <2>8, <2>9, <2>10, <2>11, <2>12, <2>13, <2>14
  <2>16. L # {} <=> lugar[p] = "IO"
    <3>1. lugar[p] = "IO" <=> \E s \in Sitios : p \in Dentro(s)
      BY DEF Reparto
    <3>2. L # {} => \E s \in Sitios : p \in Dentro(s)
      BY <2>2, <2>6, <2>7, <2>14, SitiosDistintos
    <3>3. ASSUME NEW s \in Sitios, p \in Dentro(s) PROVE L # {}
      <4>1. CASE s \in Hilos
        BY <2>2, <2>14, <3>3, <4>1
      <4>2. ASSUME NEW x \in Conexiones, s = EnCola(x) PROVE L # {}
        BY <2>3, <2>14, <3>3, <4>2, DentroDe
      <4>3. ASSUME NEW x \in Conexiones, s = EnConexion(x) PROVE L # {}
        BY <2>4, <2>14, <3>3, <4>3, DentroDe
      <4> QED
        BY <4>1, <4>2, <4>3, SitiosDistintos
    <3> QED
      BY <3>1, <3>2, <3>3
  <2>17. CASE L = {}
    <3>1. Cardinality(L) = 0
      BY <2>17, FS_EmptySet
    <3> QED
      BY <2>1, <2>14, <2>16, <2>17, <3>1 DEF Lugares
  <2>18. CASE L # {}
    <3>1. PICK l : L = {l}
      BY <2>15, <2>18
    <3>2. Cardinality(L) = 1
      BY <3>1, FS_Singleton
    <3> QED
      BY <2>1, <2>14, <2>16, <2>18, <3>2 DEF Lugares
  <2> QED
    BY <2>17, <2>18
<1> QED
  BY <1>1, IOSiempre, PTL
-----------------------------------------------------------------------------
(* The instances.  A connection is in no list of instances, is not marked   *)
(* and nobody else has a task about it until its own thread puts it there.  *)
LEMMA RangoSigue ==
    ASSUME TypeOK, Formas, NEW h \in Hilos, NEW t, Toca(h, t), NEW S, NEW A \in Seq(S), Sigue(h, A)
    PROVE  /\ \A k \in Hilos \ {h} : pila'[k] = pila[k]
           /\ Rango(pila[h]) = {t} \cup Rango(Tail(pila[h]))
           /\ Rango(pila'[h]) = Rango(A) \cup Rango(Tail(pila[h]))
           /\ \A u \in Rango(Tail(pila[h])) : u.op \notin Altas \cup {"LIBERAR", "ANOTAR"}
<1>1. /\ Tail(pila[h]) \in Seq(Tarea)
      /\ Rango(pila[h]) = {t} \cup Rango(Tail(pila[h]))
      /\ \A u \in Rango(Tail(pila[h])) : u.op \notin Altas \cup {"LIBERAR", "ANOTAR"}
  BY TocaDice
<1>2. PICK c, r, T : c = Tail(pila[h]) /\ r = A \o c /\ T = S \cup Tarea
  OBVIOUS
<1>3. A \in Seq(T) /\ c \in Seq(T)
  BY <1>1, <1>2, SeqMonotonic
<1>4. Rango(r) = Rango(A) \cup Rango(c)
  <2>1. Rango(A \o c) = Rango(A) \cup Rango(c)
    BY <1>3, RangoConcat
  <2> QED
    BY <1>2, <2>1
<1>5. pila' = [pila EXCEPT ![h] = r] /\ pila \in [Hilos -> Seq(Tarea)]
  BY <1>2 DEF Sigue, TypeOK
<1>6. pila'[h] = r /\ \A k \in Hilos \ {h} : pila'[k] = pila[k]
  BY <1>5
<1> QED
  BY <1>1, <1>2, <1>4, <1>6

(* The connections a task that takes the place of t may be about.           *)
DeQuien(h, t, u) ==
    \/ u.con \in {t.con, Nadie}
    \/ h = Gestor /\ \E d \in Conexiones : u.con \in Rango(instancias[d])
    \/ \E y \in Conexiones : h = Con(y) /\ u.con = y

LEMMA NuevasSiguen ==
    ASSUME TypeOK, Formas, Nuevas, Propias, NEW h \in Hilos, NEW t, Toca(h, t),
           NEW S, NEW A \in Seq(S), Sigue(h, A), conexion' = conexion,
           \A u \in Rango(A) : u.op \in Altas => t.op \in Altas,
           \A u \in Rango(A) : DeQuien(h, t, u),
           \A x \in Conexiones : proceso'[x] \in {proceso[x], Nadie} \/ ~Nueva(x),
           \A x, d \in Conexiones : x \in Rango(instancias'[d]) =>
              \/ x \in Rango(instancias[d])
              \/ h = Con(x) /\ t.op \in Altas /\ A = <<>> /\ conexion[x] # "NO"
    PROVE  Nuevas' /\ Propias'
<1>1. /\ \A k \in Hilos \ {h} : pila'[k] = pila[k]
      /\ Rango(pila[h]) = {t} \cup Rango(Tail(pila[h]))
      /\ Rango(pila'[h]) = Rango(A) \cup Rango(Tail(pila[h]))
      /\ \A u \in Rango(Tail(pila[h])) : u.op \notin Altas \cup {"LIBERAR", "ANOTAR"}
  BY RangoSigue
<1>2. ASSUME NEW x \in Conexiones, conexion[x] = "NO" \/ DeAlta(pila'[Con(x)]) PROVE Nueva(x)
  <2>1. CASE Con(x) # h
    <3>1. pila'[Con(x)] = pila[Con(x)]
      BY <1>1, <2>1, HilosDistintos
    <3> QED
      BY <1>2, <3>1 DEF Nueva
  <2>2. CASE Con(x) = h
    BY <1>1, <1>2, <2>2 DEF Nueva, DeAlta
  <2> QED
    BY <2>1, <2>2
<1>3. ASSUME NEW x \in Conexiones, conexion[x] = "NO" \/ DeAlta(pila'[Con(x)])
      PROVE  /\ proceso'[x] = Nadie
             /\ \A d \in Conexiones : x \notin Rango(instancias'[d])
             /\ \A u \in Rango(pila'[Gestor]) : u.con # x
  <2>1. Nueva(x)
    BY <1>2, <1>3
  <2>2. /\ proceso[x] = Nadie
        /\ \A d \in Conexiones : x \notin Rango(instancias[d])
        /\ \A u \in Rango(pila[Gestor]) : u.con # x
    BY <2>1 DEF Nuevas
  <2>3. proceso'[x] = Nadie
    BY <2>1, <2>2
  <2>4. ASSUME NEW d \in Conexiones, x \in Rango(instancias'[d]) PROVE FALSE
    <3>1. h = Con(x) /\ A = <<>> /\ conexion[x] # "NO"
      BY <2>2, <2>4
    <3>2. Rango(pila'[h]) = Rango(Tail(pila[h]))
      BY <1>1, <3>1, RangoDePocos
    <3> QED
      BY <1>1, <1>3, <3>1, <3>2 DEF DeAlta
  <2>5. ASSUME NEW u \in Rango(pila'[Gestor]) PROVE u.con # x
    <3>1. CASE h # Gestor
      BY <1>1, <2>2, <2>5, <3>1, HilosDistintos
    <3>2. CASE h = Gestor
      <4>1. CASE u \in Rango(A)
        <5>1. t.con # x /\ x # Nadie
          BY <1>1, <2>2, <3>2, NadieAssumption
        <5>2. \A y \in Conexiones : h # Con(y)
          BY <3>2, HilosDistintos
        <5> QED
          BY <2>2, <4>1, <5>1, <5>2 DEF DeQuien
      <4>2. CASE u \in Rango(Tail(pila[h]))
        BY <1>1, <2>2, <3>2, <4>2
      <4> QED
        BY <1>1, <2>5, <3>2, <4>1, <4>2
    <3> QED
      BY <3>1, <3>2
  <2> QED
    BY <2>3, <2>4, <2>5
<1>4. Nuevas'
  BY <1>3 DEF Nuevas, Nueva, DeAlta, Rango
<1>5. ASSUME NEW x \in Conexiones, NEW u \in Rango(pila'[Con(x)]) PROVE u.con \in {x, Nadie}
  <2>1. CASE Con(x) # h
    BY <1>1, <1>5, <2>1, HilosDistintos DEF Propias
  <2>2. CASE Con(x) = h
    <3>1. t.con \in {x, Nadie} /\ \A w \in Rango(Tail(pila[h])) : w.con \in {x, Nadie}
      BY <1>1, <2>2 DEF Propias
    <3>2. h # Gestor /\ \A y \in Conexiones : h = Con(y) => y = x
      BY <2>2, HilosDistintos
    <3>3. CASE u \in Rango(A)
      BY <3>1, <3>2, <3>3 DEF DeQuien
    <3> QED
      BY <1>1, <1>5, <2>2, <3>1, <3>3
  <2> QED
    BY <2>1, <2>2
<1>6. Propias'
  BY <1>5 DEF Propias, Rango
<1> QED
  BY <1>4, <1>6

LEMMA NuevasEmpiezan ==
    ASSUME TypeOK, Nuevas, Propias, NEW h \in Hilos, pila[h] = <<>>, NEW B,
           pila' = [pila EXCEPT ![h] = B],
           \A u \in Rango(B) : u.con = Nadie \/ \E y \in Conexiones : h = Con(y) /\ u.con = y,
           \/ \A u \in Rango(B) : u.op \notin Altas
           \/ \E y \in Conexiones : h = Con(y) /\ conexion[y] = "NO",
           \A x \in Conexiones : conexion'[x] = "NO" => conexion[x] = "NO",
           proceso' = proceso, instancias' = instancias
    PROVE  Nuevas' /\ Propias'
<1>1. pila'[h] = B /\ \A k \in Hilos \ {h} : pila'[k] = pila[k]
  BY DEF TypeOK
<1>2. ASSUME NEW x \in Conexiones, conexion'[x] = "NO" \/ DeAlta(pila'[Con(x)])
      PROVE  Nueva(x)
  <2>1. CASE Con(x) # h
    <3>1. pila'[Con(x)] = pila[Con(x)]
      BY <1>1, <2>1, HilosDistintos
    <3> QED
      BY <1>2, <3>1 DEF Nueva
  <2>2. CASE Con(x) = h
    BY <1>1, <1>2, <2>2, HilosDistintos DEF Nueva, DeAlta
  <2> QED
    BY <2>1, <2>2
<1>3. ASSUME NEW x \in Conexiones, conexion'[x] = "NO" \/ DeAlta(pila'[Con(x)])
      PROVE  /\ proceso[x] = Nadie
             /\ \A d \in Conexiones : x \notin Rango(instancias[d])
             /\ \A u \in Rango(pila'[Gestor]) : u.con # x
  <2>1. /\ proceso[x] = Nadie
        /\ \A d \in Conexiones : x \notin Rango(instancias[d])
        /\ \A u \in Rango(pila[Gestor]) : u.con # x
    BY <1>2, <1>3 DEF Nuevas
  <2>2. ASSUME NEW u \in Rango(pila'[Gestor]) PROVE u.con # x
    <3>1. CASE h # Gestor
      BY <1>1, <2>1, <2>2, <3>1, HilosDistintos
    <3>2. CASE h = Gestor
      BY <1>1, <2>2, <3>2, HilosDistintos, NadieAssumption
    <3> QED
      BY <3>1, <3>2
  <2> QED
    BY <2>1, <2>2
<1>4. Nuevas'
  BY <1>3 DEF Nuevas, Nueva, DeAlta, Rango
<1>5. ASSUME NEW x \in Conexiones, NEW u \in Rango(pila'[Con(x)]) PROVE u.con \in {x, Nadie}
  <2>1. CASE Con(x) # h
    BY <1>1, <1>5, <2>1, HilosDistintos DEF Propias
  <2>2. CASE Con(x) = h
    BY <1>1, <1>5, <2>2, HilosDistintos
  <2> QED
    BY <2>1, <2>2
<1>6. Propias'
  BY <1>5 DEF Propias, Rango
<1> QED
  BY <1>4, <1>6

(* The marks: what a task adds or takes.                                    *)
LEMMA MarcasSiguen ==
    ASSUME TypeOK, Formas, Marcas, NEW h \in Hilos, NEW t, Toca(h, t),
           NEW S, NEW A \in Seq(S), Sigue(h, A), conexion' = conexion,
           t.op = "SALIR" => lugar'[t.pid] = "FIN",
           t.op = "LIBERAR" => \A x \in Conexiones :
              h = Con(x) /\ Listada(x)' => proceso'[x] # t.pid,
           \A p \in Procs : lugar[p] = "FIN" => lugar'[p] = "FIN",
           \A x \in Conexiones : Rango(recibidos[x]) \subseteq Rango(recibidos'[x]),
           \A x \in Conexiones, p \in Procs : proceso'[x] = p =>
              proceso[x] = p \/ DeIO("ANOTAR", Nadie, p, x) \in Rango(pila[h]),
           \A x \in Conexiones, p \in Procs :
              DeIO("ANOTAR", Nadie, p, x) \in Rango(A) => p \in Rango(recibidos'[x]),
           \A x \in Conexiones : Listada(x)' => Listada(x) \/ proceso'[x] \notin Procs
    PROVE  Marcas'
<1>1. /\ \A k \in Hilos \ {h} : pila'[k] = pila[k]
      /\ Rango(pila[h]) = {t} \cup Rango(Tail(pila[h]))
      /\ Rango(pila'[h]) = Rango(A) \cup Rango(Tail(pila[h]))
  BY RangoSigue
<1>2. \A k \in Hilos : \A u : u \in Rango(pila[k]) => u \in Rango(pila'[k]) \/ (k = h /\ u = t)
  BY <1>1
<1>3. ASSUME NEW x \in Conexiones, NEW p \in Procs, Acabado(x, p) PROVE Acabado(x, p)'
  <2>1. CASE lugar[p] = "FIN"
    BY <1>3, <2>1 DEF Acabado
  <2>2. CASE DePid("SALIR", p) \in Rango(pila[Con(x)])
    <3>1. \/ DePid("SALIR", p) \in Rango(pila'[Con(x)])
          \/ DePid("SALIR", p) = t
      BY <1>2, <2>2, HilosDistintos
    <3>2. DePid("SALIR", p) = t => lugar'[p] = "FIN"
      BY Campos
    <3> QED
      BY <1>3, <3>1, <3>2 DEF Acabado, Rango
  <2> QED
    BY <1>3, <2>1, <2>2 DEF Acabado
<1>4. ASSUME NEW x \in Conexiones, NEW p \in Procs, NEW k \in Hilos,
             DeIO("ANOTAR", Nadie, p, x) \in Rango(pila'[k])
      PROVE  p \in Rango(recibidos'[x]) \/ Acabado(x, p)'
  <2>1. CASE DeIO("ANOTAR", Nadie, p, x) \in Rango(pila[k])
    BY <1>3, <2>1 DEF Marcas, PorMarcar
  <2>2. CASE DeIO("ANOTAR", Nadie, p, x) \in Rango(A)
    BY <2>2
  <2> QED
    BY <1>1, <1>4, <2>1, <2>2
<1>5. ASSUME NEW x \in Conexiones, NEW p \in Procs, proceso'[x] = p, Listada(x)'
      PROVE  \/ p \in Rango(recibidos'[x])
             \/ DePid("LIBERAR", p) \in Rango(pila'[Con(x)])
             \/ Acabado(x, p)'
  <2>1. Listada(x)
    BY <1>5
  <2>2. CASE DeIO("ANOTAR", Nadie, p, x) \in Rango(pila[h])
    BY <1>3, <2>2 DEF Marcas, PorMarcar
  <2>3. CASE proceso[x] = p
    <3>1. \/ p \in Rango(recibidos[x])
          \/ DePid("LIBERAR", p) \in Rango(pila[Con(x)])
          \/ Acabado(x, p)
      BY <2>1, <2>3 DEF Marcas, Marcada
    <3>2. CASE DePid("LIBERAR", p) \in Rango(pila[Con(x)])
      <4>1. \/ DePid("LIBERAR", p) \in Rango(pila'[Con(x)])
            \/ Con(x) = h /\ DePid("LIBERAR", p) = t
        BY <1>2, <3>2, HilosDistintos
      <4>2. ~(Con(x) = h /\ DePid("LIBERAR", p) = t)
        <5>1. DePid("LIBERAR", p).op = "LIBERAR" /\ DePid("LIBERAR", p).pid = p
          BY Campos
        <5> QED
          BY <1>5, <5>1
      <4> QED
        BY <4>1, <4>2
    <3> QED
      BY <1>3, <3>1, <3>2
  <2> QED
    BY <1>5, <2>2, <2>3
<1>6. \A x \in Conexiones, p \in Procs : Marcada(x, p)'
  BY <1>5 DEF Marcada, Rango
<1>7. \A x \in Conexiones, p \in Procs : PorMarcar(x, p)'
  BY <1>4 DEF PorMarcar, Rango
<1> QED
  BY <1>6, <1>7 DEF Marcas

(* A step that takes no mark away and puts nothing in the lists.            *)
LEMMA SiguenQuietas ==
    ASSUME IInvInstancias, NEW h \in Hilos, NEW t, Toca(h, t), NEW S, NEW A \in Seq(S), Sigue(h, A),
           t.op \notin {"SALIR", "LIBERAR"},
           \A u \in Rango(A) : u.op # "ANOTAR" /\ (u.op \in Altas => t.op \in Altas),
           \A u \in Rango(A) : DeQuien(h, t, u),
           UNCHANGED <<lugar, recibidos, conexion>>,
           \A x \in Conexiones : proceso'[x] = proceso[x] \/ (proceso'[x] = Tomada /\ ~Nueva(x)),
           \A x, d \in Conexiones : x \in Rango(instancias'[d]) => x \in Rango(instancias[d]),
           \A x \in Conexiones : Listada(x)' => Listada(x)
    PROVE  EnRegla'
<1>1. TypeOK /\ Formas /\ Nuevas /\ Propias /\ Marcas
  BY DEF IInvInstancias, EnRegla, IInvIO
<1>2. Nuevas' /\ Propias'
  BY <1>1, NuevasSiguen
<1>3. \A x \in Conexiones, p \in Procs : proceso'[x] = p => proceso[x] = p
  BY NadieAssumption
<1>4. \A x \in Conexiones, p \in Procs : DeIO("ANOTAR", Nadie, p, x) \notin Rango(A)
  BY Campos
<1>5. \A x \in Conexiones : Rango(recibidos[x]) \subseteq Rango(recibidos'[x])
  OBVIOUS
<1>6. Marcas'
  BY <1>1, <1>3, <1>4, <1>5, MarcasSiguen
<1> QED
  BY <1>2, <1>6 DEF EnRegla

LEMMA SiguenIguales ==
    ASSUME IInvInstancias, NEW h \in Hilos, NEW t, Toca(h, t), NEW S, NEW A \in Seq(S), Sigue(h, A),
           t.op \notin {"SALIR", "LIBERAR"},
           \A u \in Rango(A) : u.op # "ANOTAR" /\ (u.op \in Altas => t.op \in Altas),
           \A u \in Rango(A) : DeQuien(h, t, u),
           UNCHANGED <<lugar, ios, instancias, proceso, recibidos, conexion>>
    PROVE  EnRegla'
<1>1. \A x \in Conexiones : Listada(x)' => Listada(x)
  BY DEF Listada, Rango
<1> QED
  BY <1>1, SiguenQuietas

LEMMA ListadaDice ==
    \A x : /\ Listada(x) <=> \E d \in Rango(ios) : x \in Rango(instancias[d])
           /\ Listada(x)' <=> \E d \in Rango(ios') : x \in Rango(instancias'[d])
BY DEF Listada, Rango

(* The marks when a thread begins a piece of work.                          *)
LEMMA MarcasEmpiezan ==
    ASSUME TypeOK, Marcas, NEW h \in Hilos, pila[h] = <<>>, NEW B,
           pila' = [pila EXCEPT ![h] = B],
           \A u \in Rango(B) : u.op # "ANOTAR",
           UNCHANGED <<ios, instancias, proceso>>,
           \A p \in Procs : lugar[p] = "FIN" => lugar'[p] = "FIN",
           \A x \in Conexiones : conexion[x] = "CERRADA" => conexion'[x] = "CERRADA",
           \A x \in Conexiones, p \in Procs : p \in Rango(recibidos[x]) =>
              \/ p \in Rango(recibidos'[x])
              \/ Acabado(x, p)'
              \/ /\ DePid("LIBERAR", p) \in Rango(pila'[Con(x)])
                 /\ \A k \in Hilos : DeIO("ANOTAR", Nadie, p, x) \notin Rango(pila[k])
    PROVE  Marcas'
<1>1. pila'[h] = B /\ \A k \in Hilos \ {h} : pila'[k] = pila[k]
  BY DEF TypeOK
<1>2. \A k \in Hilos : \A u : u \in Rango(pila[k]) => u \in Rango(pila'[k])
  BY <1>1, RangoDePocos
<1>3. ASSUME NEW x \in Conexiones, NEW p \in Procs, Acabado(x, p) PROVE Acabado(x, p)'
  BY <1>2, <1>3, HilosDistintos DEF Acabado, Rango
<1>4. ASSUME NEW x \in Conexiones, NEW p \in Procs, NEW k \in Hilos,
             DeIO("ANOTAR", Nadie, p, x) \in Rango(pila'[k])
      PROVE  p \in Rango(recibidos'[x]) \/ Acabado(x, p)'
  <2>1. DeIO("ANOTAR", Nadie, p, x) \notin Rango(B)
    BY Campos
  <2>2. DeIO("ANOTAR", Nadie, p, x) \in Rango(pila[k])
    BY <1>1, <1>4, <2>1
  <2>3. p \in Rango(recibidos[x]) \/ Acabado(x, p)
    BY <2>2 DEF Marcas, PorMarcar
  <2> QED
    BY <1>3, <2>2, <2>3
<1>5. ASSUME NEW x \in Conexiones, NEW p \in Procs, proceso[x] = p, Listada(x)
      PROVE  \/ p \in Rango(recibidos'[x])
             \/ DePid("LIBERAR", p) \in Rango(pila'[Con(x)])
             \/ Acabado(x, p)'
  <2>1. \/ p \in Rango(recibidos[x])
        \/ DePid("LIBERAR", p) \in Rango(pila[Con(x)])
        \/ Acabado(x, p)
    BY <1>5 DEF Marcas, Marcada
  <2> QED
    BY <1>2, <1>3, <2>1, HilosDistintos
<1>6. \A x \in Conexiones : Listada(x)' => Listada(x)
  BY DEF Listada, Rango
<1>7. \A x \in Conexiones, p \in Procs : Marcada(x, p)'
  BY <1>5, <1>6 DEF Marcada, Rango
<1>8. \A x \in Conexiones, p \in Procs : PorMarcar(x, p)'
  BY <1>4 DEF PorMarcar, Rango
<1> QED
  BY <1>7, <1>8 DEF Marcas

(* A thread that is about to mark the device free has the request.          *)
LEMMA LiberarPide ==
    ASSUME NEW s \in Seq(Tarea), Forma(s), NEW p, DePid("LIBERAR", p) \in Rango(s)
    PROVE  p \in Pedidos(s) /\ p \in Procs
<1>1. PICK t : t = DePid("LIBERAR", p) /\ t.op = "LIBERAR" /\ t.pid = p
  BY Campos
<1>2. s # <<>>
  BY RangoDePocos
<1>3. PICK a, c : a = Head(s) /\ c = Tail(s)
  OBVIOUS
<1>4. Completa(a) /\ Resto(a, c) /\ a \in Tarea /\ c \in Seq(Tarea) /\ Rango(s) = {a} \cup Rango(c)
  BY <1>2, <1>3, RangoHeadTail DEF Forma
<1>5. \A u \in Rango(c) : u.op # "LIBERAR"
  BY <1>4, RestoForma
<1>6. a = t
  BY <1>1, <1>4, <1>5
<1>7. PICK x \in Conexiones : c = <<DeCon("ENVIAR", x), DePid("DESPERTAR", p)>>
  BY <1>1, <1>4, <1>6 DEF Resto, Ultimas, Primeras, Envios
<1>8. PICK v : v = DePid("DESPERTAR", p) /\ v.op = "DESPERTAR" /\ v.pid = p
  BY Campos
<1>9. v \in Rango(s)
  BY <1>4, <1>7, <1>8, RangoDePocos
<1>10. p \in Procs
  BY <1>1, <1>4, <1>6 DEF Completa, ConPid
<1> QED
  BY <1>8, <1>9, <1>10 DEF Pedidos, ConPedido

LEMMA UnaTarea == ASSUME NEW a PROVE \E A : A = <<a>> /\ A \in Seq({a}) /\ Rango(A) = {a}
<1>1. Rango(<<a>>) = {a}
  BY RangoDePocos
<1>2. <<a>> \in Seq({a})
  OBVIOUS
<1>3. PICK A : A = <<a>>
  OBVIOUS
<1> QED
  BY <1>1, <1>2, <1>3, Zenon
-----------------------------------------------------------------------------
(* Each step keeps the marks in order: the device's side of gestionar_io.   *)
LEMMA PedirEnRegla == ASSUME IInvInstancias, NEW p \in Procs, Pedir(p) PROVE EnRegla'
<1>1. TypeOK /\ Nuevas /\ Propias /\ Marcas
  BY DEF IInvInstancias, EnRegla, IInvIO
<1>2. PICK u : u = DePid("BUSCAR", p) /\ u.op = "BUSCAR" /\ u.con = Nadie
  BY Campos
<1>3. PICK B : B = <<u>> /\ B \in Seq({u}) /\ Rango(B) = {u}
  BY UnaTarea
<1>4. /\ Gestor \in Hilos /\ pila[Gestor] = <<>> /\ pila' = [pila EXCEPT ![Gestor] = B]
      /\ lugar[p] = "CPU" /\ lugar' = [lugar EXCEPT ![p] = "IO"]
      /\ UNCHANGED <<ios, instancias, proceso, recibidos, conexion>>
  BY <1>2, <1>3, HilosDistintos DEF Pedir, listaVars, colaVars
<1>5. Nuevas' /\ Propias'
  BY <1>1, <1>2, <1>3, <1>4, NuevasEmpiezan DEF Altas
<1>6. \A q \in Procs : lugar[q] = "FIN" => lugar'[q] = "FIN"
  BY <1>1, <1>4, TiposDePedidos
<1>7. Marcas'
  BY <1>1, <1>2, <1>3, <1>4, <1>6, MarcasEmpiezan
<1> QED
  BY <1>5, <1>7 DEF EnRegla

LEMMA BuscarEnRegla == ASSUME IInvInstancias, NEW p, Buscar(p) PROVE EnRegla'
<1> DEFINE lugares == ConNombre(Usa[p])
<1>1. PICK t : t = DePid("BUSCAR", p) /\ t.op = "BUSCAR"
  BY Campos
<1>2. PICK a : a = IF lugares = {} THEN DePid("SALIR", p)
                                   ELSE DeIO("TOMAR", ios[Primero(lugares)], p, Nadie)
  OBVIOUS
<1>3. a.op \in {"SALIR", "TOMAR"} /\ a.con = Nadie
  BY <1>2, Campos
<1>4. /\ Gestor \in Hilos /\ Toca(Gestor, t) /\ Sigue(Gestor, <<a>>)
      /\ UNCHANGED <<lugar, ios, instancias, proceso, recibidos, conexion>>
  BY <1>1, <1>2, HilosDistintos DEF Buscar, procVars, listaVars, colaVars
<1>5. PICK A : A = <<a>> /\ A \in Seq({a}) /\ Rango(A) = {a}
  BY UnaTarea
<1> QED
  BY <1>1, <1>3, <1>4, <1>5, SiguenIguales DEF DeQuien, Altas

LEMMA TomarEnRegla == ASSUME IInvInstancias, NEW p, NEW d, Tomar(p, d) PROVE EnRegla'
<1> DEFINE libres == Lugar(Corriendo(Nadie), instancias[d])
<1>1. TypeOK /\ Formas /\ Nuevas
  BY DEF IInvInstancias, EnRegla, IInvIO
<1>2. PICK t : t = DeIO("TOMAR", d, p, Nadie) /\ t.op = "TOMAR" /\ t.io = d
  BY Campos
<1>3. PICK x : x = IF libres = {} THEN Nadie ELSE instancias[d][Primero(libres)]
  OBVIOUS
<1>4. PICK a : a = DeIO("VER", d, p, x) /\ a.op = "VER" /\ a.con = x
  BY Campos
<1>5. /\ Gestor \in Hilos /\ Toca(Gestor, t) /\ Sigue(Gestor, <<a>>)
      /\ UNCHANGED <<lugar, ios, instancias, recibidos, conexion>>
      /\ proceso' = IF x = Nadie THEN proceso ELSE [proceso EXCEPT ![x] = Tomada]
  BY <1>2, <1>3, <1>4, HilosDistintos DEF Tomar, procVars, listaVars, colaVars
<1>6. d \in Conexiones
  BY <1>1, <1>2, <1>5, TocaDice DEF Completa, ConDispositivo
<1>7. x # Nadie => x \in Conexiones /\ x \in Rango(instancias[d])
  BY <1>1, <1>3, <1>6, ElLugar, TiposDeListas
<1>8. \A y \in Conexiones : proceso'[y] = proceso[y] \/ (proceso'[y] = Tomada /\ ~Nueva(y))
  <2>1. x # Nadie => ~Nueva(x)
    BY <1>1, <1>6, <1>7 DEF Nuevas
  <2> QED
    BY <1>1, <1>5, <2>1, TiposDeListas
<1>9. PICK A : A = <<a>> /\ A \in Seq({a}) /\ Rango(A) = {a}
  BY UnaTarea
<1>10. \A u \in Rango(A) : DeQuien(Gestor, t, u)
  BY <1>4, <1>6, <1>7, <1>9 DEF DeQuien
<1>11. \A y \in Conexiones : Listada(y)' => Listada(y)
  BY <1>5 DEF Listada, Rango
<1> QED
  BY <1>2, <1>4, <1>5, <1>8, <1>9, <1>10, <1>11, SiguenQuietas DEF Altas

LEMMA VerEnRegla == ASSUME IInvInstancias, NEW p, NEW d, NEW x, Ver(p, d, x) PROVE EnRegla'
<1>1. PICK t : t = DeIO("VER", d, p, x) /\ t.op = "VER" /\ t.con = x
  BY Campos
<1>2. PICK a, b : /\ a = DeIO("ENCOLAR", d, p, x) /\ a.op = "ENCOLAR" /\ a.con = x
                  /\ b = DeCon("ENVIAR", x) /\ b.op = "ENVIAR" /\ b.con = x
  BY Campos
<1>3. /\ Gestor \in Hilos /\ Toca(Gestor, t)
      /\ Sigue(Gestor, <<a, b>>) \/ Sigue(Gestor, <<a>>)
      /\ UNCHANGED <<lugar, ios, instancias, proceso, recibidos, conexion>>
  BY <1>1, <1>2, HilosDistintos DEF Ver, procVars, listaVars, colaVars
<1>4. PICK A : Sigue(Gestor, A) /\ A \in Seq({a, b}) /\ Rango(A) \subseteq {a, b}
  <2>1. <<a, b>> \in Seq({a, b}) /\ <<a>> \in Seq({a, b})
    OBVIOUS
  <2>2. Rango(<<a, b>>) \subseteq {a, b} /\ Rango(<<a>>) \subseteq {a, b}
    BY RangoDePocos
  <2> QED
    BY <1>3, <2>1, <2>2
<1> QED
  BY <1>1, <1>2, <1>3, <1>4, SiguenIguales DEF DeQuien, Altas

LEMMA EncolarEnRegla == ASSUME IInvInstancias, NEW p, NEW d, NEW x, Encolar(p, d, x) PROVE EnRegla'
<1>1. PICK t : t = DeIO("ENCOLAR", d, p, x) /\ t.op = "ENCOLAR"
  BY Campos
<1>2. /\ Gestor \in Hilos /\ Toca(Gestor, t) /\ Sigue(Gestor, <<>>)
      /\ UNCHANGED <<lugar, ios, instancias, proceso, recibidos, conexion>>
  BY <1>1, HilosDistintos DEF Encolar, procVars, listaVars
<1>3. PICK A : A = <<>> /\ A \in Seq({}) /\ Rango(A) = {}
  BY EmptySeq, RangoDePocos
<1> QED
  BY <1>1, <1>2, <1>3, SiguenIguales
-----------------------------------------------------------------------------
(* enviar_proceso_io: what is sent is received before the instance is       *)
(* marked with it.                                                          *)
LEMMA EnviarEnRegla == ASSUME IInvInstancias, NEW h \in Hilos, NEW x, Enviar(h, x) PROVE EnRegla'
<1>1. PICK t : t = DeCon("ENVIAR", x) /\ t.op = "ENVIAR" /\ t.con = x
  BY Campos
<1>2. PICK a : /\ a = DeIO("SACAR", ios[Primero(ConInstancia({x}))], Nadie, x)
               /\ a.op = "SACAR" /\ a.con = x
  BY Campos
<1>3. /\ Toca(h, t) /\ (Sigue(h, <<a>>) \/ Sigue(h, <<>>))
      /\ UNCHANGED <<lugar, ios, instancias, proceso, recibidos, conexion>>
  BY <1>1, <1>2 DEF Enviar, procVars, listaVars, colaVars
<1>4. Toca(h, t)
  BY <1>1 DEF Enviar
<1>5. PICK A : Sigue(h, A) /\ A \in Seq({a}) /\ Rango(A) \subseteq {a}
  <2>1. PICK A, B : /\ A = <<a>> /\ A \in Seq({a}) /\ Rango(A) = {a}
                    /\ B = <<>> /\ B \in Seq({a}) /\ Rango(B) = {}
    BY UnaTarea, EmptySeq, RangoDePocos
  <2> QED
    BY <1>3, <2>1
<1> QED
  BY <1>1, <1>2, <1>3, <1>4, <1>5, SiguenIguales DEF DeQuien, Altas

LEMMA SacarEnRegla ==
    ASSUME IInvInstancias, NEW h \in Hilos, NEW d, NEW x, Sacar(h, d, x)
    PROVE  EnRegla'
<1>1. TypeOK /\ Formas /\ Nuevas /\ Propias /\ Marcas
  BY DEF IInvInstancias, EnRegla, IInvIO
<1>2. PICK t : t = DeIO("SACAR", d, Nadie, x) /\ t.op = "SACAR" /\ t.io = d /\ t.con = x
  BY Campos
<1>3. /\ Toca(h, t)
      /\ UNCHANGED <<lugar, ios, instancias, proceso, conexion>>
  BY <1>2 DEF Sacar, procVars, listaVars
<1>4. d \in Conexiones /\ x \in Conexiones
  BY <1>1, <1>2, <1>3, TocaDice DEF Completa, ConDispositivo, ConConexion
<1>5. CASE esperando[d] = <<>>
  <2>1. Sigue(h, <<>>) /\ recibidos' = recibidos
    BY <1>5 DEF Sacar, colaVars
  <2>2. PICK A : A = <<>> /\ A \in Seq({}) /\ Rango(A) = {}
    BY EmptySeq, RangoDePocos
  <2> QED
    BY <1>2, <1>3, <2>1, <2>2, SiguenIguales
<1>6. CASE esperando[d] # <<>>
  <2>1. PICK p, a : /\ p = Head(esperando[d])
                    /\ a = DeIO("ANOTAR", Nadie, p, x) /\ a.op = "ANOTAR" /\ a.pid = p /\ a.con = x
    BY Campos
  <2>2. p \in Procs
    <3>1. esperando[d] \in Seq(Procs)
      BY <1>1, <1>4, TiposDePedidos
    <3> QED
      BY <1>6, <2>1, <3>1
  <2>3. Sigue(h, <<a>>) /\ recibidos' = [recibidos EXCEPT ![x] = Append(@, p)]
    BY <1>6, <2>1 DEF Sacar
  <2>4. /\ \A y \in Conexiones : Rango(recibidos[y]) \subseteq Rango(recibidos'[y])
        /\ p \in Rango(recibidos'[x])
    <3>1. recibidos \in [Conexiones -> Seq(Procs)]
      BY <1>1, TiposDePedidos
    <3>2. PICK r : r = Append(recibidos[x], p)
      OBVIOUS
    <3>3. Rango(r) = Rango(recibidos[x]) \cup {p}
      BY <1>4, <2>2, <3>1, <3>2, RangoAppend
    <3>4. recibidos' = [recibidos EXCEPT ![x] = r]
      BY <2>3, <3>2
    <3> QED
      BY <1>4, <3>1, <3>3, <3>4
  <2>5. PICK A : A = <<a>> /\ A \in Seq({a}) /\ Rango(A) = {a}
    BY UnaTarea
  <2>6. \A u \in Rango(A) : DeQuien(h, t, u) /\ u.op \notin Altas
    BY <1>2, <2>1, <2>5 DEF DeQuien, Altas
  <2>7. Nuevas' /\ Propias'
    BY <1>1, <1>3, <2>3, <2>5, <2>6, NuevasSiguen
  <2>8. \A y \in Conexiones, q \in Procs :
           DeIO("ANOTAR", Nadie, q, y) \in Rango(A) => q \in Rango(recibidos'[y])
    <3>1. ASSUME NEW y \in Conexiones, NEW q \in Procs, DeIO("ANOTAR", Nadie, q, y) = a
          PROVE  q = p /\ y = x
      BY <2>1, <3>1, Campos
    <3> QED
      BY <2>4, <2>5, <3>1
  <2>9. \A y \in Conexiones : Listada(y)' => Listada(y)
    BY <1>3 DEF Listada, Rango
  <2>10. Marcas'
    BY <1>1, <1>2, <1>3, <2>3, <2>4, <2>5, <2>8, <2>9, MarcasSiguen
  <2> QED
    BY <2>7, <2>10 DEF EnRegla
<1> QED
  BY <1>5, <1>6

LEMMA AnotarEnRegla ==
    ASSUME IInvInstancias, NEW h \in Hilos, NEW p, NEW x, Anotar(h, p, x)
    PROVE  EnRegla'
<1>1. TypeOK /\ Formas /\ Calladas /\ Nuevas /\ Propias /\ Marcas
  BY DEF IInvInstancias, EnRegla, IInvIO
<1>2. PICK t : t = DeIO("ANOTAR", Nadie, p, x) /\ t.op = "ANOTAR" /\ t.pid = p /\ t.con = x
  BY Campos
<1>3. /\ Toca(h, t) /\ Sigue(h, <<>>)
      /\ UNCHANGED <<lugar, ios, instancias, recibidos, conexion>>
      /\ proceso' = [proceso EXCEPT ![x] = p]
  BY <1>2 DEF Anotar, procVars, listaVars, colaVars
<1>4. /\ pila[h] # <<>> /\ Completa(t) /\ Rango(pila[h]) = {t} \cup Rango(Tail(pila[h]))
      /\ \A u \in Rango(Tail(pila[h])) : u.op \notin Altas
  BY <1>1, <1>3, TocaDice
<1>5. p \in Procs /\ x \in Conexiones
  BY <1>2, <1>4 DEF Completa, ConPid, ConConexion
<1>6. ~Nueva(x)
  <2>1. CASE h = Gestor
    BY <1>1, <1>2, <1>4, <1>5, <2>1 DEF Nuevas
  <2>2. ASSUME NEW y \in Conexiones, h = Con(y) PROVE ~Nueva(x)
    <3>1. x = y
      BY <1>1, <1>2, <1>4, <1>5, <2>2, NadieAssumption DEF Propias
    <3>2. conexion[x] # "NO"
      BY <1>1, <1>4, <2>2, <3>1 DEF Calladas
    <3>3. ~DeAlta(pila[Con(x)])
      BY <1>2, <1>4, <2>2, <3>1 DEF DeAlta, Altas
    <3> QED
      BY <3>2, <3>3 DEF Nueva
  <2> QED
    BY <2>1, <2>2, HilosDistintos
<1>7. PICK A : A = <<>> /\ A \in Seq({}) /\ Rango(A) = {}
  BY EmptySeq, RangoDePocos
<1>8. \A y \in Conexiones : y # x => proceso'[y] = proceso[y]
  BY <1>1, <1>3, TiposDeListas
<1>9. proceso'[x] = p
  BY <1>1, <1>3, <1>5, TiposDeListas
<1>10. Nuevas' /\ Propias'
  BY <1>1, <1>3, <1>6, <1>7, <1>8, NuevasSiguen
<1>11. \A y \in Conexiones, q \in Procs : proceso'[y] = q =>
          proceso[y] = q \/ DeIO("ANOTAR", Nadie, q, y) \in Rango(pila[h])
  BY <1>2, <1>4, <1>8, <1>9
<1>12. \A y \in Conexiones : Listada(y)' => Listada(y)
  BY <1>3 DEF Listada, Rango
<1>13. Marcas'
  BY <1>1, <1>2, <1>3, <1>7, <1>11, <1>12, MarcasSiguen
<1> QED
  BY <1>10, <1>13 DEF EnRegla
-----------------------------------------------------------------------------
(* The handler of a connection: its instance is listed, freed, ended.       *)
LEMMA IdentificarEnRegla == ASSUME IInvInstancias, NEW x \in Conexiones, Identificar(x) PROVE EnRegla'
<1>1. TypeOK /\ Calladas /\ Nuevas /\ Propias /\ Marcas
  BY DEF IInvInstancias, EnRegla, IInvIO
<1>2. PICK u, v : /\ u = DeCon("RECIBIR", x) /\ u.op = "RECIBIR" /\ u.con = x
                  /\ v = DeCon("ENVIAR", x) /\ v.op = "ENVIAR" /\ v.con = x
  BY Campos
<1>3. PICK B : B = <<u, v>>
  OBVIOUS
<1>4. Rango(B) = {u, v}
  BY <1>3, RangoDePocos
<1>5. /\ conexion[x] = "NO" /\ conexion' = [conexion EXCEPT ![x] = "ACTIVA"]
      /\ pila' = [pila EXCEPT ![Con(x)] = B]
      /\ UNCHANGED <<lugar, ios, instancias, proceso, recibidos>>
  BY <1>2, <1>3 DEF Identificar, procVars, listaVars, colaVars
<1>6. Con(x) \in Hilos /\ pila[Con(x)] = <<>>
  BY <1>1, <1>5, HilosDistintos DEF Calladas
<1>7. \A y \in Conexiones : /\ conexion'[y] = "NO" => conexion[y] = "NO"
                            /\ conexion[y] = "CERRADA" => conexion'[y] = "CERRADA"
  BY <1>1, <1>5, TiposDePedidos
<1>8. Nuevas' /\ Propias'
  <2>1. PICK h : h = Con(x) /\ h \in Hilos
    BY <1>6
  <2>2. \A w \in Rango(B) : w.con = Nadie \/ \E y \in Conexiones : h = Con(y) /\ w.con = y
    BY <1>2, <1>4, <2>1
  <2>3. \E y \in Conexiones : h = Con(y) /\ conexion[y] = "NO"
    BY <1>5, <2>1
  <2>4. pila[h] = <<>> /\ pila' = [pila EXCEPT ![h] = B]
    BY <1>5, <1>6, <2>1
  <2> QED
    BY <1>1, <1>5, <1>7, <2>1, <2>2, <2>3, <2>4, NuevasEmpiezan
<1>9. Marcas'
  BY <1>1, <1>2, <1>4, <1>5, <1>6, <1>7, MarcasEmpiezan
<1> QED
  BY <1>8, <1>9 DEF EnRegla

LEMMA RecibirEnRegla == ASSUME IInvInstancias, NEW x \in Conexiones, Recibir(x) PROVE EnRegla'
<1> DEFINE lugares == ConNombre(Nombre[x])
<1>1. PICK t : t = DeCon("RECIBIR", x) /\ t.op = "RECIBIR"
  BY Campos
<1>2. PICK a : a = IF lugares = {} THEN DeCon("NUEVA_IO", x)
                   ELSE DeIO("NUEVA_INSTANCIA", ios[Primero(lugares)], Nadie, x)
  OBVIOUS
<1>3. a.op # "ANOTAR" /\ a.con = x
  BY <1>2, Campos
<1>4. PICK h : h = Con(x) /\ h \in Hilos
  BY HilosDistintos
<1>5. /\ Toca(h, t) /\ Sigue(h, <<a>>)
      /\ UNCHANGED <<lugar, ios, instancias, proceso, recibidos, conexion>>
  BY <1>1, <1>2, <1>4 DEF Recibir, procVars, listaVars, colaVars
<1>6. PICK A : A = <<a>> /\ A \in Seq({a}) /\ Rango(A) = {a}
  BY UnaTarea
<1>7. \A u \in Rango(A) : DeQuien(h, t, u)
  BY <1>3, <1>4, <1>6 DEF DeQuien
<1>8. t.op \in Altas
  BY <1>1 DEF Altas
<1> QED
  BY <1>1, <1>3, <1>4, <1>5, <1>6, <1>7, <1>8, SiguenIguales

(* A connection that is listed was not marked.                              *)
LEMMA EntraEnRegla ==
    ASSUME IInvInstancias, NEW x \in Conexiones, NEW t, Toca(Con(x), t), t.op \in Altas,
           Sigue(Con(x), <<>>), UNCHANGED <<lugar, proceso, recibidos, conexion>>,
           \A y, d \in Conexiones : y \in Rango(instancias'[d]) => y \in Rango(instancias[d]) \/ y = x,
           \A y \in Conexiones : Listada(y)' => Listada(y) \/ y = x
    PROVE  EnRegla'
<1>1. TypeOK /\ Formas /\ Calladas /\ Nuevas /\ Propias /\ Marcas
  BY DEF IInvInstancias, EnRegla, IInvIO
<1>2. PICK h : h = Con(x) /\ h \in Hilos
  BY HilosDistintos
<1>3. pila[h] # <<>> /\ t \in Rango(pila[h])
  BY <1>1, <1>2, TocaDice
<1>4. conexion[x] # "NO" /\ proceso[x] = Nadie
  BY <1>1, <1>2, <1>3 DEF Calladas, Nuevas, Nueva, DeAlta
<1>5. PICK A : A = <<>> /\ A \in Seq({}) /\ Rango(A) = {}
  BY EmptySeq, RangoDePocos
<1>6. Nuevas' /\ Propias'
  <2>1. \A y, d \in Conexiones : y \in Rango(instancias'[d]) =>
           \/ y \in Rango(instancias[d])
           \/ h = Con(y) /\ t.op \in Altas /\ A = <<>> /\ conexion[y] # "NO"
    BY <1>2, <1>4, <1>5
  <2>2. Toca(h, t) /\ Sigue(h, A) /\ conexion' = conexion
    BY <1>2, <1>5
  <2>3. \A y \in Conexiones : proceso'[y] \in {proceso[y], Nadie} \/ ~Nueva(y)
    OBVIOUS
  <2> QED
    BY <1>1, <1>2, <1>5, <2>1, <2>2, <2>3, NuevasSiguen
<1>7. \A y \in Conexiones : Listada(y)' => Listada(y) \/ proceso'[y] \notin Procs
  BY <1>4, NadieAssumption
<1>8. t.op \notin {"SALIR", "LIBERAR"}
  BY DEF Altas
<1>9. Marcas'
  BY <1>1, <1>2, <1>5, <1>7, <1>8, MarcasSiguen
<1> QED
  BY <1>6, <1>9 DEF EnRegla

LEMMA NuevaInstanciaEnRegla ==
    ASSUME IInvInstancias, NEW x \in Conexiones, NEW d, NuevaInstancia(x, d)
    PROVE  EnRegla'
<1>1. TypeOK /\ Formas
  BY DEF IInvInstancias, IInvIO
<1>2. PICK t : t = DeIO("NUEVA_INSTANCIA", d, Nadie, x) /\ t.op = "NUEVA_INSTANCIA" /\ t.io = d
  BY Campos
<1>3. /\ Toca(Con(x), t) /\ Sigue(Con(x), <<>>)
      /\ UNCHANGED <<lugar, ios, proceso, recibidos, conexion>>
      /\ instancias' = [instancias EXCEPT ![d] = <<x>> \o @]
  BY <1>2 DEF NuevaInstancia, procVars, colaVars
<1>4. d \in Conexiones
  BY <1>1, <1>2, <1>3, HilosDistintos, TocaDice DEF Completa, ConDispositivo
<1>5. \A e \in Conexiones : Rango(instancias'[e]) \subseteq Rango(instancias[e]) \cup {x}
  <2>1. PICK l, u, r : l = instancias[d] /\ u = <<x>> /\ r = u \o l
    OBVIOUS
  <2>2. l \in Seq(Conexiones) /\ u \in Seq(Conexiones) /\ Rango(u) = {x}
    BY <1>1, <1>4, <2>1, TiposDeListas, RangoDePocos
  <2>3. Rango(r) = {x} \cup Rango(l)
    <3>1. Rango(u \o l) = Rango(u) \cup Rango(l)
      BY <2>2, RangoConcat
    <3> QED
      BY <2>1, <2>2, <3>1
  <2>4. instancias' = [instancias EXCEPT ![d] = r]
    BY <1>3, <2>1
  <2> QED
    BY <1>1, <2>1, <2>3, <2>4, TiposDeListas
<1>6. Rango(ios) \subseteq Conexiones
  BY <1>1, TiposDeListas, RangoTipo
<1>7. \A y \in Conexiones : Listada(y)' => Listada(y) \/ y = x
  BY <1>3, <1>5, <1>6, ListadaDice
<1>8. t.op \in Altas
  BY <1>2 DEF Altas
<1> QED
  BY <1>3, <1>5, <1>7, <1>8, EntraEnRegla

LEMMA NuevaIOEnRegla == ASSUME IInvInstancias, NEW x \in Conexiones, NuevaIO(x) PROVE EnRegla'
<1>1. TypeOK
  BY DEF IInvInstancias, IInvIO
<1>2. PICK t : t = DeCon("NUEVA_IO", x) /\ t.op = "NUEVA_IO"
  BY Campos
<1>3. /\ Toca(Con(x), t) /\ Sigue(Con(x), <<>>)
      /\ UNCHANGED <<lugar, proceso, recibidos, conexion>>
      /\ instancias' = [instancias EXCEPT ![x] = <<x>>] /\ ios' = Append(ios, x)
  BY <1>2 DEF NuevaIO, procVars, colaVars
<1>4. /\ \A e \in Conexiones : e # x => Rango(instancias'[e]) = Rango(instancias[e])
      /\ Rango(instancias'[x]) = {x}
  <2>1. instancias'[x] = <<x>> /\ \A e \in Conexiones : e # x => instancias'[e] = instancias[e]
    BY <1>1, <1>3, TiposDeListas
  <2> QED
    BY <2>1, RangoDePocos
<1>5. Rango(ios') = Rango(ios) \cup {x} /\ Rango(ios) \subseteq Conexiones
  <2>1. ios \in Seq(Conexiones)
    BY <1>1, TiposDeListas
  <2>2. Rango(Append(ios, x)) = Rango(ios) \cup {x}
    BY <2>1, RangoAppend
  <2> QED
    BY <1>3, <2>1, <2>2, RangoTipo
<1>6. \A y \in Conexiones : Listada(y)' => Listada(y) \/ y = x
  BY <1>4, <1>5, ListadaDice
<1>7. \A y, d \in Conexiones : y \in Rango(instancias'[d]) => y \in Rango(instancias[d]) \/ y = x
  BY <1>4
<1>8. t.op \in Altas
  BY <1>2 DEF Altas
<1> QED
  BY <1>3, <1>6, <1>7, <1>8, EntraEnRegla

(* Only the end of an IO that has not been noted yet would leave the        *)
(* instance marked: IOTarda.                                                *)
LEMMA DesbloqueoEnRegla ==
    ASSUME IOTarda, IInvInstancias, NEW x \in Conexiones, Desbloqueo(x)
    PROVE  EnRegla'
<1>1. TypeOK /\ Nuevas /\ Propias /\ Marcas
  BY DEF IInvInstancias, EnRegla, IInvIO
<1>2. PICK p : p = Head(recibidos[x])
  OBVIOUS
<1>3. PICK t, u, v : /\ t = DePid("LIBERAR", p) /\ t.op = "LIBERAR" /\ t.con = Nadie
                     /\ u = DeCon("ENVIAR", x) /\ u.op = "ENVIAR" /\ u.con = x
                     /\ v = DePid("DESPERTAR", p) /\ v.op = "DESPERTAR" /\ v.con = Nadie
  BY Campos
<1>4. PICK B : B = <<t, u, v>>
  OBVIOUS
<1>5. Rango(B) = {t, u, v}
  BY <1>4, RangoDePocos
<1>6. /\ pila[Con(x)] = <<>> /\ recibidos[x] # <<>> /\ Con(x) \in Hilos
      /\ pila' = [pila EXCEPT ![Con(x)] = B]
      /\ recibidos' = [recibidos EXCEPT ![x] = Tail(@)]
      /\ UNCHANGED <<lugar, ios, instancias, proceso, conexion>>
  BY <1>2, <1>3, <1>4, HilosDistintos DEF Desbloqueo, TareasDesbloqueo, procVars, listaVars
<1>7. Nuevas' /\ Propias'
  BY <1>1, <1>3, <1>5, <1>6, NuevasEmpiezan DEF Altas
<1>8. \A k \in Hilos : DeIO("ANOTAR", Nadie, p, x) \notin Rango(pila[k])
  BY <1>2 DEF Desbloqueo, Rango
<1>9. \A y \in Conexiones, q \in Procs : q \in Rango(recibidos[y]) =>
         q \in Rango(recibidos'[y]) \/ (y = x /\ q = p)
  <2>1. recibidos \in [Conexiones -> Seq(Procs)]
    BY <1>1, TiposDePedidos
  <2>2. PICK r : r = Tail(recibidos[x])
    OBVIOUS
  <2>3. Rango(recibidos[x]) = {p} \cup Rango(r)
    BY <1>2, <1>6, <2>1, <2>2, RangoHeadTail
  <2>4. recibidos' = [recibidos EXCEPT ![x] = r]
    BY <1>6, <2>2
  <2> QED
    BY <2>1, <2>3, <2>4
<1>10. DePid("LIBERAR", p) \in Rango(pila'[Con(x)])
  <2>1. pila'[Con(x)] = B
    BY <1>1, <1>6 DEF TypeOK
  <2> QED
    BY <1>3, <1>5, <2>1
<1>11. \A w \in Rango(B) : w.op # "ANOTAR"
  BY <1>3, <1>5
<1>12. \A y \in Conexiones : conexion[y] = "CERRADA" => conexion'[y] = "CERRADA"
  BY <1>6
<1>13. Marcas'
  BY <1>1, <1>6, <1>8, <1>9, <1>10, <1>11, <1>12, MarcasEmpiezan
<1> QED
  BY <1>7, <1>13 DEF EnRegla

(* The instance that is freed is the one this process was at.               *)
LEMMA LiberarEnRegla == ASSUME IInvInstancias, NEW x \in Conexiones, NEW p, Liberar(x, p) PROVE EnRegla'
<1> DEFINE lugares == ConInstancia(Corriendo(p))
           d == ios[Primero(lugares)]
           j == Primero(Lugar(Corriendo(p), instancias[d]))
<1>1. TypeOK /\ Formas /\ Reparto /\ Nuevas /\ Propias /\ Marcas
  BY DEF IInvInstancias, EnRegla, IInvIO
<1>2. PICK t : t = DePid("LIBERAR", p) /\ t.op = "LIBERAR" /\ t.pid = p
  BY Campos
<1>3. PICK h : h = Con(x) /\ h \in Hilos
  BY HilosDistintos
<1>4. PICK z : z = instancias[d][j]
  OBVIOUS
<1>5. /\ Toca(h, t) /\ Sigue(h, <<>>)
      /\ UNCHANGED <<lugar, ios, instancias, recibidos, conexion>>
      /\ proceso' = IF lugares = {} THEN proceso ELSE [proceso EXCEPT ![z] = Nadie]
  BY <1>2, <1>3, <1>4 DEF Liberar, procVars, listaVars, colaVars
<1>6. \A y \in Conexiones, q \in Procs : p = q => \A k \in Hilos :
         /\ DePid("LIBERAR", q) \in Rango(pila[k]) => q \in Dentro(k)
         /\ DePid("SALIR", q) \in Rango(pila[k]) => q \in Dentro(k)
  <2>1. ASSUME NEW k \in Hilos, NEW q, DePid("LIBERAR", q) \in Rango(pila[k]) PROVE q \in Dentro(k)
    <3>1. pila[k] \in Seq(Tarea) /\ Forma(pila[k])
      BY <1>1 DEF TypeOK, Formas
    <3> QED
      BY <2>1, <3>1, LiberarPide, DentroDe
  <2>2. ASSUME NEW k \in Hilos, NEW q, DePid("SALIR", q) \in Rango(pila[k]) PROVE q \in Dentro(k)
    <3>1. PICK u : u = DePid("SALIR", q) /\ u.op = "SALIR" /\ u.pid = q
      BY Campos
    <3>2. q \in Pedidos(pila[k])
      BY <2>2, <3>1 DEF Pedidos, ConPedido
    <3> QED
      BY <3>2, DentroDe
  <2> QED
    BY <2>1, <2>2
<1>7. p \in Procs /\ p \in Dentro(h) /\ h \in Sitios /\ lugar[p] = "IO"
  <2>1. DePid("LIBERAR", p) \in Rango(pila[h]) /\ Completa(t)
    BY <1>1, <1>2, <1>3, <1>5, TocaDice
  <2>2. p \in Procs
    BY <1>2, <2>1 DEF Completa, ConPid
  <2> QED
    BY <1>1, <1>3, <1>6, <2>1, <2>2, SitiosDistintos DEF Reparto
<1>8. ASSUME NEW y \in Conexiones, proceso[y] = p, Listada(y) PROVE y = x
  <2>1. \/ p \in Rango(recibidos[y])
        \/ DePid("LIBERAR", p) \in Rango(pila[Con(y)])
        \/ Acabado(y, p)
    BY <1>1, <1>7, <1>8 DEF Marcas, Marcada
  <2>2. p \notin Rango(recibidos[y])
    <3>1. EnConexion(y) \in Sitios /\ EnConexion(y) # h /\ Dentro(EnConexion(y)) = Rango(recibidos[y])
      BY <1>3, SitiosDistintos, DentroDe
    <3> QED
      BY <1>1, <1>7, <3>1 DEF Reparto
  <2>3. p \in Dentro(Con(y)) /\ Con(y) \in Sitios
    BY <1>6, <1>7, <2>1, <2>2, HilosDistintos, SitiosDistintos DEF Acabado
  <2>4. Con(y) = h
    BY <1>1, <1>7, <2>3 DEF Reparto
  <2> QED
    BY <1>3, <2>4, HilosDistintos
<1>9. \A y \in Conexiones : proceso[y] = p /\ Listada(y) => lugares # {}
  BY <1>1 DEF Listada, ConInstancia, Lugar, Corriendo, Rango
<1>10. lugares # {} => z = x
  <2>1. ASSUME lugares # {} PROVE z \in Conexiones /\ z \in Corriendo(p) /\ Listada(z)
    <3>1. /\ Primero(lugares) \in DOMAIN ios /\ z \in Conexiones /\ z \in Corriendo(p)
          /\ z \in Rango(instancias[d])
      BY <1>1, <1>4, <2>1, ElDeLaInstancia
    <3> QED
      BY <3>1 DEF Listada
  <2> QED
    BY <1>8, <2>1 DEF Corriendo
<1> HIDE DEF lugares
<1>11. \A y \in Conexiones : proceso'[y] = proceso[y] \/ proceso'[y] = Nadie
  BY <1>1, <1>5, TiposDeListas
<1>12. \A y \in Conexiones : Listada(y)' => Listada(y)
  BY <1>5 DEF Listada, Rango
<1>13. ASSUME NEW y \in Conexiones, Listada(y)', proceso'[y] = p PROVE FALSE
  <2>1. Listada(y) /\ proceso[y] = p
    BY <1>7, <1>11, <1>12, <1>13, NadieAssumption
  <2>2. y = x /\ lugares # {} /\ z = x
    BY <1>8, <1>9, <1>10, <2>1
  <2>3. proceso'[x] = Nadie
    BY <1>1, <1>5, <2>2, TiposDeListas
  <2> QED
    BY <1>7, <1>13, <2>2, <2>3, NadieAssumption
<1>14. PICK A : A = <<>> /\ A \in Seq({}) /\ Rango(A) = {}
  BY EmptySeq, RangoDePocos
<1>15. Nuevas' /\ Propias'
  BY <1>1, <1>3, <1>5, <1>11, <1>14, NuevasSiguen
<1>16. \A y \in Conexiones, q \in Procs : proceso'[y] = q => proceso[y] = q
  BY <1>11, NadieAssumption
<1>17. Marcas'
  <2>1. \A y \in Conexiones : h = Con(y) /\ Listada(y)' => proceso'[y] # t.pid
    BY <1>2, <1>13
  <2>2. \A y \in Conexiones, q \in Procs : proceso'[y] = q =>
           proceso[y] = q \/ DeIO("ANOTAR", Nadie, q, y) \in Rango(pila[h])
    BY <1>16
  <2>3. \A y \in Conexiones, q \in Procs :
           DeIO("ANOTAR", Nadie, q, y) \in Rango(A) => q \in Rango(recibidos'[y])
    BY <1>14
  <2>4. \A y \in Conexiones : Rango(recibidos[y]) \subseteq Rango(recibidos'[y])
    BY <1>5
  <2>5. \A q \in Procs : lugar[q] = "FIN" => lugar'[q] = "FIN"
    BY <1>5
  <2>6. Toca(h, t) /\ Sigue(h, A) /\ conexion' = conexion /\ t.op # "SALIR"
    BY <1>2, <1>5, <1>14
  <2> QED
    BY <1>1, <1>3, <1>12, <1>14, <2>1, <2>2, <2>3, <2>4, <2>5, <2>6, MarcasSiguen
<1> QED
  BY <1>15, <1>17 DEF EnRegla

(* A process that wakes up or ends.                                         *)
LEMMA SaleEnRegla ==
    ASSUME IInvInstancias, NEW h \in Hilos, NEW t, Toca(h, t), t.op \in {"DESPERTAR", "SALIR"},
           Sigue(h, <<>>), UNCHANGED <<ios, instancias, proceso, recibidos, conexion>>,
           t.op = "SALIR" => lugar'[t.pid] = "FIN",
           \A p \in Procs : lugar[p] = "FIN" => lugar'[p] = "FIN"
    PROVE  EnRegla'
<1>1. TypeOK /\ Formas /\ Nuevas /\ Propias /\ Marcas
  BY DEF IInvInstancias, EnRegla, IInvIO
<1>2. PICK A : A = <<>> /\ A \in Seq({}) /\ Rango(A) = {}
  BY EmptySeq, RangoDePocos
<1>3. Nuevas' /\ Propias'
  BY <1>1, <1>2, NuevasSiguen
<1>4. \A x \in Conexiones : Listada(x)' => Listada(x)
  BY DEF Listada, Rango
<1>5. Marcas'
  BY <1>1, <1>2, <1>4, MarcasSiguen
<1> QED
  BY <1>3, <1>5 DEF EnRegla

LEMMA DespertarEnRegla ==
    ASSUME IInvInstancias, NEW x \in Conexiones, NEW p, Despertar(x, p)
    PROVE  EnRegla'
<1>1. PICK t : t = DePid("DESPERTAR", p) /\ t.op = "DESPERTAR"
  BY Campos
<1>2. /\ Con(x) \in Hilos /\ Toca(Con(x), t) /\ Sigue(Con(x), <<>>)
      /\ lugar' = [lugar EXCEPT ![p] = IF @ = "FIN" THEN "FIN" ELSE "CPU"]
      /\ UNCHANGED <<ios, instancias, proceso, recibidos, conexion>>
  BY <1>1, HilosDistintos DEF Despertar, listaVars, colaVars
<1>3. \A q \in Procs : lugar[q] = "FIN" => lugar'[q] = "FIN"
  BY <1>2, TiposDePedidos DEF IInvInstancias, IInvIO
<1> QED
  BY <1>1, <1>2, <1>3, SaleEnRegla

LEMMA SalirEnRegla == ASSUME IInvInstancias, NEW h \in Hilos, NEW p, Salir(h, p) PROVE EnRegla'
<1>1. PICK t : t = DePid("SALIR", p) /\ t.op = "SALIR" /\ t.pid = p
  BY Campos
<1>2. /\ Toca(h, t) /\ Sigue(h, <<>>)
      /\ lugar' = [lugar EXCEPT ![p] = "FIN"]
      /\ UNCHANGED <<ios, instancias, proceso, recibidos, conexion>>
  BY <1>1 DEF Salir, listaVars, colaVars
<1>3. p \in Procs
  BY <1>1, <1>2, TocaDice DEF IInvInstancias, IInvIO, Completa, ConPid, ConPedido
<1>4. /\ lugar'[p] = "FIN"
      /\ \A q \in Procs : lugar[q] = "FIN" => lugar'[q] = "FIN"
  BY <1>2, <1>3, TiposDePedidos DEF IInvInstancias, IInvIO
<1> QED
  BY <1>1, <1>2, <1>4, SaleEnRegla
-----------------------------------------------------------------------------
(* FIN_CONEXION_DE_IO: the process the connection has begun ends.           *)
LEMMA DesconectarEnRegla ==
    ASSUME IInvInstancias, NEW x \in Conexiones, Desconectar(x)
    PROVE  EnRegla'
<1>1. TypeOK /\ Nuevas /\ Propias /\ Marcas
  BY DEF IInvInstancias, EnRegla, IInvIO
<1>2. PICK p : p = Head(recibidos[x])
  OBVIOUS
<1>3. PICK t, u : /\ t = DePid("SALIR", p) /\ t.op = "SALIR" /\ t.con = Nadie
                  /\ u = DeCon("ELIMINAR", x) /\ u.op = "ELIMINAR" /\ u.con = x
  BY Campos
<1>4. /\ pila[Con(x)] = <<>> /\ Con(x) \in Hilos
      /\ conexion' = [conexion EXCEPT ![x] = "CERRADA"]
      /\ UNCHANGED <<lugar, ios, instancias, proceso>>
  BY HilosDistintos DEF Desconectar, procVars, listaVars
<1>5. \A y \in Conexiones : /\ conexion'[y] = "NO" => conexion[y] = "NO"
                            /\ conexion[y] = "CERRADA" => conexion'[y] = "CERRADA"
                            /\ y = x => conexion'[y] = "CERRADA"
  BY <1>1, <1>4, TiposDePedidos
<1>6. PICK B : /\ pila' = [pila EXCEPT ![Con(x)] = B] /\ Rango(B) \subseteq {t, u}
               /\ \/ recibidos' = recibidos
                  \/ /\ recibidos[x] # <<>> /\ recibidos' = [recibidos EXCEPT ![x] = Tail(@)]
                     /\ t \in Rango(B)
  <2>1. PICK C, D : C = <<t, u>> /\ D = <<u>>
    OBVIOUS
  <2>2. Rango(C) = {t, u} /\ Rango(D) = {u}
    BY <2>1, RangoDePocos
  <2>3. \/ /\ recibidos[x] # <<>> /\ pila' = [pila EXCEPT ![Con(x)] = C]
           /\ recibidos' = [recibidos EXCEPT ![x] = Tail(@)]
        \/ pila' = [pila EXCEPT ![Con(x)] = D] /\ recibidos' = recibidos
    BY <1>2, <1>3, <2>1 DEF Desconectar
  <2> QED
    BY <2>2, <2>3
<1>7. \A w \in Rango(B) : w.con \in {x, Nadie} /\ w.op \notin Altas /\ w.op # "ANOTAR"
  BY <1>3, <1>6 DEF Altas
<1>8. Nuevas' /\ Propias'
  <2>1. PICK h : h = Con(x) /\ h \in Hilos
    BY <1>4
  <2>2. pila[h] = <<>> /\ pila' = [pila EXCEPT ![h] = B]
    BY <1>4, <1>6, <2>1
  <2>3. \A w \in Rango(B) : w.con = Nadie \/ \E y \in Conexiones : h = Con(y) /\ w.con = y
    BY <1>7, <2>1
  <2> QED
    BY <1>1, <1>4, <1>5, <1>7, <2>1, <2>2, <2>3, NuevasEmpiezan
<1>9. \A y \in Conexiones, q \in Procs :
         q \in Rango(recibidos[y]) => q \in Rango(recibidos'[y]) \/ Acabado(y, q)'
  <2>1. recibidos \in [Conexiones -> Seq(Procs)]
    BY <1>1, TiposDePedidos
  <2>2. CASE recibidos' = recibidos
    BY <2>2
  <2>3. CASE /\ recibidos[x] # <<>> /\ recibidos' = [recibidos EXCEPT ![x] = Tail(@)]
             /\ t \in Rango(B)
    <3>1. PICK r : r = Tail(recibidos[x])
      OBVIOUS
    <3>2. Rango(recibidos[x]) = {p} \cup Rango(r)
      BY <1>2, <2>1, <2>3, <3>1, RangoHeadTail
    <3>3. recibidos' = [recibidos EXCEPT ![x] = r]
      BY <2>3, <3>1
    <3>4. \A y \in Conexiones, q \in Procs :
             q \in Rango(recibidos[y]) => q \in Rango(recibidos'[y]) \/ (y = x /\ q = p)
      BY <2>1, <3>2, <3>3
    <3>5. DePid("SALIR", p) \in Rango(pila'[Con(x)])
      <4>1. pila'[Con(x)] = B
        BY <1>1, <1>4, <1>6 DEF TypeOK
      <4> QED
        BY <1>3, <2>3, <4>1
    <3>6. Acabado(x, p)'
      BY <1>5, <3>5 DEF Acabado, Rango
    <3> QED
      BY <3>4, <3>6
  <2> QED
    BY <1>6, <2>2, <2>3
<1>10. Marcas'
  BY <1>1, <1>4, <1>5, <1>6, <1>7, <1>9, MarcasEmpiezan
<1> QED
  BY <1>8, <1>10 DEF EnRegla

LEMMA EliminarEnRegla == ASSUME IInvInstancias, NEW x \in Conexiones, Eliminar(x) PROVE EnRegla'
<1> DEFINE i == Primero(ConInstancia({x}))
           d == ios[i]
           j == Primero(Lugar({x}, instancias[d]))
<1>1. PICK t : t = DeCon("ELIMINAR", x) /\ t.op = "ELIMINAR" /\ t.con = x
  BY Campos
<1>2. PICK a : a = [DeIO("QUITAR", d, Nadie, x) EXCEPT !.n = j, !.k = i]
  OBVIOUS
<1>3. a.op = "QUITAR" /\ a.con = x
  BY <1>2, Campos
<1>4. PICK h : h = Con(x) /\ h \in Hilos
  BY HilosDistintos
<1>5. /\ Toca(h, t) /\ (Sigue(h, <<a>>) \/ Sigue(h, <<>>))
      /\ UNCHANGED <<lugar, ios, instancias, proceso, recibidos, conexion>>
  BY <1>1, <1>2, <1>4 DEF Eliminar, procVars, listaVars, colaVars
<1>6. Toca(h, t)
  BY <1>1, <1>4 DEF Eliminar
<1>7. PICK A : Sigue(h, A) /\ A \in Seq({a}) /\ Rango(A) \subseteq {a}
  <2>1. PICK A, B : /\ A = <<a>> /\ A \in Seq({a}) /\ Rango(A) = {a}
                    /\ B = <<>> /\ B \in Seq({a}) /\ Rango(B) = {}
    BY UnaTarea, EmptySeq, RangoDePocos
  <2> QED
    BY <1>5, <2>1
<1>8. \A u \in Rango(A) : DeQuien(h, t, u) /\ u.op # "ANOTAR" /\ u.op \notin Altas
  BY <1>1, <1>3, <1>7 DEF DeQuien, Altas
<1> QED
  BY <1>1, <1>4, <1>5, <1>6, <1>7, <1>8, SiguenIguales

LEMMA QuitarEnRegla ==
    ASSUME IInvInstancias, NEW x \in Conexiones, NEW d, NEW j, NEW i, Quitar(x, d, j, i)
    PROVE  EnRegla'
<1>1. TypeOK /\ Formas
  BY DEF IInvInstancias, IInvIO
<1>2. PICK t : /\ t = [DeIO("QUITAR", d, Nadie, x) EXCEPT !.n = j, !.k = i]
               /\ t.op = "QUITAR" /\ t.io = d /\ t.con = x /\ t.n = j
  <2>1. PICK s : s = [DeIO("QUITAR", d, Nadie, x) EXCEPT !.n = j, !.k = i]
    OBVIOUS
  <2>2. s.op = "QUITAR" /\ s.io = d /\ s.con = x /\ s.n = j
    BY <2>1, Campos
  <2> QED
    BY <2>1, <2>2
<1>3. PICK a : a = [DeIO("VACIA", d, Nadie, x) EXCEPT !.k = i] /\ a.op = "VACIA" /\ a.con = x
  <2>1. PICK s : s = [DeIO("VACIA", d, Nadie, x) EXCEPT !.k = i]
    OBVIOUS
  <2>2. s.op = "VACIA" /\ s.con = x
    BY <2>1, Campos
  <2> QED
    BY <2>1, <2>2
<1>4. PICK h : h = Con(x) /\ h \in Hilos
  BY HilosDistintos
<1>5. /\ Toca(h, t) /\ Sigue(h, <<a>>)
      /\ UNCHANGED <<lugar, ios, proceso, recibidos, conexion>>
      /\ instancias' = [instancias EXCEPT ![d] = SinPosicion(@, j)]
  BY <1>2, <1>3, <1>4 DEF Quitar, procVars, colaVars
<1>6. d \in Conexiones /\ j \in Nat
  <2>1. t \in Tarea /\ Completa(t)
    BY <1>1, <1>4, <1>5, TocaDice
  <2> QED
    BY <1>2, <2>1 DEF Completa, ConDispositivo, Tarea
<1>7. \A e \in Conexiones : Rango(instancias'[e]) \subseteq Rango(instancias[e])
  <2>1. PICK l : l = SinPosicion(instancias[d], j)
    OBVIOUS
  <2>2. Rango(l) \subseteq Rango(instancias[d])
    BY <1>1, <1>6, <2>1, TiposDeListas, SinPosicionTipo
  <2>3. instancias' = [instancias EXCEPT ![d] = l]
    BY <1>5, <2>1
  <2> QED
    BY <1>1, <2>2, <2>3, TiposDeListas
<1>8. Rango(ios) \subseteq Conexiones
  BY <1>1, TiposDeListas, RangoTipo
<1>9. \A y \in Conexiones : Listada(y)' => Listada(y)
  BY <1>5, <1>7, <1>8, ListadaDice
<1>10. PICK A : A = <<a>> /\ A \in Seq({a}) /\ Rango(A) = {a}
  BY UnaTarea
<1>11. \A u \in Rango(A) : DeQuien(h, t, u) /\ u.op # "ANOTAR" /\ u.op \notin Altas
  BY <1>2, <1>3, <1>10 DEF DeQuien, Altas
<1> QED
  BY <1>2, <1>4, <1>5, <1>7, <1>9, <1>10, <1>11, SiguenQuietas

LEMMA VaciaEnRegla ==
    ASSUME IInvInstancias, NEW x \in Conexiones, NEW d, NEW i, Vacia(x, d, i)
    PROVE  EnRegla'
<1>1. PICK t : t = [DeIO("VACIA", d, Nadie, x) EXCEPT !.k = i] /\ t.op = "VACIA"
  <2>1. PICK s : s = [DeIO("VACIA", d, Nadie, x) EXCEPT !.k = i]
    OBVIOUS
  <2>2. s.op = "VACIA"
    BY <2>1, Campos
  <2> QED
    BY <2>1, <2>2
<1>2. PICK a : /\ a = [DeIO("DESENCOLAR", d, Nadie, Nadie) EXCEPT !.n = Len(esperando[d])]
               /\ a.op = "DESENCOLAR" /\ a.con = Nadie
  <2>1. PICK s : s = [DeIO("DESENCOLAR", d, Nadie, Nadie) EXCEPT !.n = Len(esperando[d])]
    OBVIOUS
  <2>2. s.op = "DESENCOLAR" /\ s.con = Nadie
    BY <2>1, Campos
  <2> QED
    BY <2>1, <2>2
<1>3. PICK b : /\ b = [DeIO("BORRAR", d, Nadie, Nadie) EXCEPT !.k = i]
               /\ b.op = "BORRAR" /\ b.con = Nadie
  <2>1. PICK s : s = [DeIO("BORRAR", d, Nadie, Nadie) EXCEPT !.k = i]
    OBVIOUS
  <2>2. s.op = "BORRAR" /\ s.con = Nadie
    BY <2>1, Campos
  <2> QED
    BY <2>1, <2>2
<1>4. PICK h : h = Con(x) /\ h \in Hilos
  BY HilosDistintos
<1>5. /\ Toca(h, t)
      /\ Sigue(h, <<a, b>>) \/ Sigue(h, <<>>)
      /\ UNCHANGED <<lugar, ios, instancias, proceso, recibidos, conexion>>
  BY <1>1, <1>2, <1>3, <1>4 DEF Vacia, procVars, colaVars
<1>6. PICK A : Sigue(h, A) /\ A \in Seq({a, b}) /\ Rango(A) \subseteq {a, b}
  <2>1. <<a, b>> \in Seq({a, b}) /\ <<>> \in Seq({a, b})
    OBVIOUS
  <2>2. Rango(<<a, b>>) \subseteq {a, b} /\ Rango(<<>>) \subseteq {a, b}
    BY RangoDePocos
  <2> QED
    BY <1>5, <2>1, <2>2
<1>7. \A u \in Rango(A) : DeQuien(h, t, u) /\ u.op # "ANOTAR" /\ u.op \notin Altas
  BY <1>2, <1>3, <1>6 DEF DeQuien, Altas
<1> QED
  BY <1>1, <1>4, <1>5, <1>6, <1>7, SiguenIguales

LEMMA DesencolarEnRegla ==
    ASSUME IInvInstancias, NEW x \in Conexiones, NEW d, NEW n, Desencolar(x, d, n)
    PROVE  EnRegla'
<1>1. PICK t : t = [DeIO("DESENCOLAR", d, Nadie, Nadie) EXCEPT !.n = n] /\ t.op = "DESENCOLAR"
  <2>1. PICK s : s = [DeIO("DESENCOLAR", d, Nadie, Nadie) EXCEPT !.n = n]
    OBVIOUS
  <2>2. s.op = "DESENCOLAR"
    BY <2>1, Campos
  <2> QED
    BY <2>1, <2>2
<1>2. PICK a : a = DePid("SALIR", Head(esperando[d])) /\ a.op = "SALIR" /\ a.con = Nadie
  BY Campos
<1>3. PICK z : z = IF n = 1 THEN x ELSE Nadie
  OBVIOUS
<1>4. PICK b : b = [DeIO("DESENCOLAR", d, Nadie, z) EXCEPT !.n = n - 1]
  OBVIOUS
<1>5. b.op = "DESENCOLAR" /\ b.con \in {x, Nadie}
  BY <1>3, <1>4, Campos
<1>6. PICK h : h = Con(x) /\ h \in Hilos
  BY HilosDistintos
<1>7. /\ Toca(h, t)
      /\ Sigue(h, <<a, b>>) \/ Sigue(h, <<>>)
      /\ UNCHANGED <<lugar, ios, instancias, proceso, recibidos, conexion>>
  BY <1>1, <1>2, <1>3, <1>4, <1>6 DEF Desencolar, procVars, listaVars
<1>8. PICK A : Sigue(h, A) /\ A \in Seq({a, b}) /\ Rango(A) \subseteq {a, b}
  <2>1. <<a, b>> \in Seq({a, b}) /\ <<>> \in Seq({a, b})
    OBVIOUS
  <2>2. Rango(<<a, b>>) \subseteq {a, b} /\ Rango(<<>>) \subseteq {a, b}
    BY RangoDePocos
  <2> QED
    BY <1>7, <2>1, <2>2
<1>9. \A u \in Rango(A) : DeQuien(h, t, u) /\ u.op # "ANOTAR" /\ u.op \notin Altas
  BY <1>2, <1>5, <1>6, <1>8 DEF DeQuien, Altas
<1> QED
  BY <1>1, <1>6, <1>7, <1>8, <1>9, SiguenIguales

LEMMA CarniceroEnRegla ==
    ASSUME IInvInstancias, NEW x \in Conexiones, NEW d, NEW y, Carnicero(x, d, y)
    PROVE  EnRegla'
<1>1. PICK t : t = DeIO("DESENCOLAR", d, Nadie, y) /\ t.op = "DESENCOLAR"
  BY Campos
<1>2. /\ Con(x) \in Hilos /\ Toca(Con(x), t) /\ Sigue(Con(x), <<>>)
      /\ UNCHANGED <<lugar, ios, instancias, proceso, recibidos, conexion>>
  BY <1>1, HilosDistintos DEF Carnicero, procVars, colaVars
<1>3. PICK A : A = <<>> /\ A \in Seq({}) /\ Rango(A) = {}
  BY EmptySeq, RangoDePocos
<1> QED
  BY <1>1, <1>2, <1>3, SiguenIguales

LEMMA BorrarEnRegla ==
    ASSUME IInvInstancias, NEW x \in Conexiones, NEW d, NEW i, Borrar(x, d, i)
    PROVE  EnRegla'
<1>1. TypeOK /\ Formas
  BY DEF IInvInstancias, IInvIO
<1>2. PICK t : /\ t = [DeIO("BORRAR", d, Nadie, Nadie) EXCEPT !.k = i]
               /\ t.op = "BORRAR" /\ t.k = i
  <2>1. PICK s : s = [DeIO("BORRAR", d, Nadie, Nadie) EXCEPT !.k = i]
    OBVIOUS
  <2>2. s.op = "BORRAR" /\ s.k = i
    BY <2>1, Campos
  <2> QED
    BY <2>1, <2>2
<1>3. /\ Con(x) \in Hilos /\ Toca(Con(x), t) /\ Sigue(Con(x), <<>>)
      /\ UNCHANGED <<lugar, instancias, proceso, recibidos, conexion>>
      /\ ios' = SinPosicion(ios, i)
  BY <1>2, HilosDistintos DEF Borrar, procVars, colaVars
<1>4. i \in Nat
  BY <1>1, <1>2, <1>3, TocaDice DEF Tarea
<1>5. Rango(ios') \subseteq Rango(ios)
  BY <1>1, <1>3, <1>4, TiposDeListas, SinPosicionTipo
<1>6. \A y \in Conexiones : Listada(y)' => Listada(y)
  BY <1>3, <1>5, ListadaDice
<1>7. PICK A : A = <<>> /\ A \in Seq({}) /\ Rango(A) = {}
  BY EmptySeq, RangoDePocos
<1> QED
  BY <1>2, <1>3, <1>6, <1>7, SiguenQuietas
-----------------------------------------------------------------------------
(* The marks, step by step.                                                 *)
LEMMA InstanciasAlEmpezar == ASSUME Init PROVE IInvInstancias
<1>1. IInvIO
  BY IOAlEmpezar
<1>2. /\ \A h \in Hilos : pila[h] = <<>> /\ Rango(pila[h]) = {}
      /\ \A x \in Conexiones : /\ proceso[x] = Nadie
                               /\ instancias[x] = <<>> /\ Rango(instancias[x]) = {}
  BY RangoDePocos DEF Init
<1>3. Nuevas /\ Propias
  BY <1>2, HilosDistintos DEF Nuevas, Propias
<1>4. Marcas
  BY <1>2, HilosDistintos, NadieAssumption DEF Marcas, Marcada, PorMarcar
<1> QED
  BY <1>1, <1>3, <1>4 DEF IInvInstancias, EnRegla

LEMMA InstanciasQuietas == ASSUME IInvInstancias, UNCHANGED vars PROVE EnRegla'
BY DEF IInvInstancias, EnRegla, Nuevas, Nueva, DeAlta, Propias, Marcas, Marcada, PorMarcar,
       Acabado, Listada, Rango, vars

LEMMA InstanciasPasoAPaso == ASSUME IOTarda PROVE IInvInstancias /\ [Next]_vars => IInvInstancias'
<1> SUFFICES ASSUME IInvInstancias, [Next]_vars PROVE IInvInstancias'
  OBVIOUS
<1>1. IInvIO'
  BY IOPasoAPaso DEF IInvInstancias
<1>2. ASSUME UNCHANGED vars PROVE EnRegla'
  BY <1>2, InstanciasQuietas
<1>3. ASSUME NEW p \in Procs, Pedir(p) PROVE EnRegla'
  BY <1>3, PedirEnRegla
<1>4. ASSUME DelGestor PROVE EnRegla'
  BY <1>4, BuscarEnRegla, TomarEnRegla, VerEnRegla, EncolarEnRegla DEF DelGestor
<1>5. ASSUME NEW h \in Hilos, DeHilo(h) PROVE EnRegla'
  BY <1>5, EnviarEnRegla, SacarEnRegla, AnotarEnRegla, SalirEnRegla DEF DeHilo
<1>6. ASSUME NEW x \in Conexiones, DeConexion(x) PROVE EnRegla'
  BY <1>6, RecibirEnRegla, NuevaInstanciaEnRegla, NuevaIOEnRegla, LiberarEnRegla,
     DespertarEnRegla, EliminarEnRegla, QuitarEnRegla, VaciaEnRegla, DesencolarEnRegla,
     CarniceroEnRegla, BorrarEnRegla DEF DeConexion
<1>7. ASSUME NEW x \in Conexiones, Identificar(x) \/ Desbloqueo(x) \/ Desconectar(x)
      PROVE  EnRegla'
  BY <1>7, IdentificarEnRegla, DesbloqueoEnRegla, DesconectarEnRegla
<1>8. EnRegla'
  BY <1>2, <1>3, <1>4, <1>5, <1>6, <1>7 DEF Next
<1> QED
  BY <1>1, <1>8 DEF IInvInstancias

(* An instance in list_ios whose connection is open and that is marked with *)
(* a process has that process still to finish, or its handler is about to   *)
(* free it: buscar_instancia_libre, enviar_proceso_io and                   *)
(* actualizarIO_a_libre never leave an instance taken by a process that is  *)
(* gone.  It needs a device slower than the two lines after the send: with  *)
(* an answer before enviar_proceso_io notes the process, lines 195-197 mark *)
(* the instance after it was freed.                                         *)
THEOREM InstanciaAlDiaSiempre == ASSUME IOTarda PROVE Spec => []InstanciaAlDia
<1>1. IInvInstancias => InstanciaAlDia
  <2> SUFFICES ASSUME IInvInstancias, NEW x \in Conexiones, proceso[x] \in Procs,
                      conexion[x] = "ACTIVA", ConInstancia({x}) # {}
               PROVE  \/ \E i \in DOMAIN recibidos[x] : recibidos[x][i] = proceso[x]
                      \/ \E i \in DOMAIN pila[Con(x)] : pila[Con(x)][i] = DePid("LIBERAR", proceso[x])
    BY DEF InstanciaAlDia
  <2>1. Listada(x)
    BY DEF ConInstancia, Lugar, Listada, Rango
  <2>2. ~Acabado(x, proceso[x])
    BY DEF Acabado
  <2>3. \/ proceso[x] \in Rango(recibidos[x])
        \/ DePid("LIBERAR", proceso[x]) \in Rango(pila[Con(x)])
    BY <2>1, <2>2 DEF IInvInstancias, EnRegla, Marcas, Marcada
  <2> QED
    BY <2>3 DEF Rango
<1>2. Init => IInvInstancias
  BY InstanciasAlEmpezar
<1> QED
  BY <1>1, <1>2, InstanciasPasoAPaso, PTL DEF Spec
=============================================================================
