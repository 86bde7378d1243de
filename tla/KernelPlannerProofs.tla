------------------------- MODULE KernelPlannerProofs -------------------------
(***************************************************************************)
(* Proofs about KernelPlanner, for any number of processes, frames, IO     *)
(* connections and timers, any scripts and any sizes: types, the CPU that  *)
(* is given one process at a time and is not left idle, the order in which *)
(* NEW is admitted, and who takes a blocked process out.                   *)
(***************************************************************************)
EXTENDS KernelPlanner, SequenceTheorems, WellFoundedInduction, TLAPS

(* What there is in a list of tasks, of processes or of contexts.           *)
Esta(x, lista) == \E i \in DOMAIN lista : lista[i] = x

(* The tasks that are not about a process, those that take a process into   *)
(* NEW, and those of a thread that has the CPU reserved or is to free it.   *)
Sueltas == {"LIBERAR_CPU", "TRAER", "TRAER_RS", "TRAER_NEW", "PEDIR_NEW",
            "MANDAR", "MANDAR_VER", "MANDAR_TOMAR"}
Creadoras == {"NEW", "NEW_TRAER", "NEW_INIT"}
Ocupan == {"EXECUTE", "ENVIAR", "LIBERAR_CPU"}

(* A task a step may leave: about a process of P or about none.             *)
Nueva(t, P) ==
    /\ t \in Tarea
    /\ t.pid \in P \/ (t.op \in Sueltas /\ t.pid = Nadie)
    /\ t.op \notin Creadoras
    /\ t.op = "TIMER" => hiloBlock'[t.pid] > 0
Nuevas(u, P) == u \in Seq(Tarea) /\ \A t : Esta(t, u) => Nueva(t, P)

(* A list of tasks with none of a thread that has the CPU.                  *)
Desocupada(u) == \A t : Esta(t, u) => t.op \notin Ocupan
-----------------------------------------------------------------------------
(* Lists.                                                                   *)
Menor == { par \in Nat \X Nat : par[1] < par[2] }

LEMMA MinimoNat ==
    ASSUME NEW T \in SUBSET Nat, T # {}
    PROVE  \E x \in T : \A y \in T : x <= y
<1>1. IsWellFoundedOn(Menor, Nat)
  BY NatLessThanWellFounded DEF OpToRel, Menor
<1>2. PICK x \in T : \A y \in T : ~ (<<y, x>> \in Menor)
  BY <1>1, WFMin
<1>3. \A y \in T : ~ (y < x)
  BY <1>2 DEF Menor
<1> QED
  BY <1>3

LEMMA EstaEnVacia == \A y : ~Esta(y, <<>>)
BY DEF Esta

LEMMA EstaEnUna == ASSUME NEW x PROVE \A y : Esta(y, <<x>>) <=> y = x
BY DEF Esta

LEMMA EstaEnDos == ASSUME NEW x, NEW z PROVE \A y : Esta(y, <<x, z>>) <=> y = x \/ y = z
<1>1. DOMAIN <<x, z>> = {1, 2} /\ <<x, z>>[1] = x /\ <<x, z>>[2] = z
  OBVIOUS
<1> QED
  BY <1>1 DEF Esta

LEMMA EstaEnTres ==
    ASSUME NEW x, NEW z, NEW w
    PROVE  \A y : Esta(y, <<x, z, w>>) <=> y = x \/ y = z \/ y = w
<1>1. /\ DOMAIN <<x, z, w>> = {1, 2, 3}
      /\ <<x, z, w>>[1] = x /\ <<x, z, w>>[2] = z /\ <<x, z, w>>[3] = w
  OBVIOUS
<1> QED
  BY <1>1 DEF Esta

LEMMA Cabeza ==
    ASSUME NEW S, NEW s \in Seq(S), s # <<>>
    PROVE  Head(s) \in S /\ Head(s) = s[1] /\ Esta(Head(s), s) /\ Len(s) \in Nat /\ Len(s) >= 1
<1>1. Len(s) \in Nat /\ Len(s) >= 1 /\ 1 \in DOMAIN s /\ Head(s) = s[1] /\ s[1] \in S
  OBVIOUS
<1> QED
  BY <1>1 DEF Esta

LEMMA ElementoDe ==
    ASSUME NEW S, NEW s \in Seq(S), NEW x, Esta(x, s)
    PROVE  x \in S /\ s # <<>>
<1>1. PICK i \in DOMAIN s : s[i] = x
  BY DEF Esta
<1> QED
  BY <1>1

(* What is in two lists put together.                                       *)
LEMMA EstaEnJuntas ==
    ASSUME NEW S, NEW u \in Seq(S), NEW r \in Seq(S)
    PROVE  /\ u \o r \in Seq(S)
           /\ \A t : Esta(t, u \o r) <=> Esta(t, u) \/ Esta(t, r)
<1>4. /\ u \o r \in Seq(S)
      /\ Len(u \o r) = Len(u) + Len(r)
      /\ \A i \in 1..Len(u) + Len(r) : (u \o r)[i] = IF i <= Len(u) THEN u[i] ELSE r[i - Len(u)]
  BY ConcatProperties
<1>5. Len(u) \in Nat /\ Len(r) \in Nat /\ DOMAIN u = 1..Len(u) /\ DOMAIN r = 1..Len(r)
      /\ DOMAIN (u \o r) = 1..Len(u) + Len(r)
  BY <1>4
<1>6. ASSUME NEW t, Esta(t, u \o r) PROVE Esta(t, u) \/ Esta(t, r)
  <2>1. PICK i \in 1..Len(u) + Len(r) : (u \o r)[i] = t
    BY <1>5, <1>6 DEF Esta
  <2>2. CASE i <= Len(u)
    <3>1. i \in DOMAIN u /\ u[i] = t
      BY <1>4, <1>5, <2>1, <2>2
    <3> QED
      BY <3>1 DEF Esta
  <2>3. CASE ~(i <= Len(u))
    <3>1. i - Len(u) \in DOMAIN r /\ r[i - Len(u)] = t
      BY <1>4, <1>5, <2>1, <2>3
    <3> QED
      BY <3>1 DEF Esta
  <2> QED
    BY <2>2, <2>3
<1>7. ASSUME NEW t, Esta(t, u) PROVE Esta(t, u \o r)
  <2>1. PICK i \in 1..Len(u) : u[i] = t
    BY <1>5, <1>7 DEF Esta
  <2>2. i \in DOMAIN (u \o r) /\ (u \o r)[i] = t
    BY <1>4, <1>5, <2>1
  <2> QED
    BY <2>2 DEF Esta
<1>8. ASSUME NEW t, Esta(t, r) PROVE Esta(t, u \o r)
  <2>1. PICK i \in 1..Len(r) : r[i] = t
    BY <1>5, <1>8 DEF Esta
  <2>2. Len(u) + i \in 1..Len(u) + Len(r) /\ ~(Len(u) + i <= Len(u)) /\ (Len(u) + i) - Len(u) = i
    BY <1>5, <2>1
  <2>3. (u \o r)[Len(u) + i] = t
    BY <1>4, <2>1, <2>2
  <2> QED
    BY <1>5, <2>2, <2>3 DEF Esta
<1> QED
  BY <1>4, <1>6, <1>7, <1>8

(* What is left of a stack when its first task is replaced.                 *)
LEMMA TrasLaPrimera ==
    ASSUME NEW S, NEW s \in Seq(S), s # <<>>, NEW u \in Seq(S)
    PROVE  /\ u \o Tail(s) \in Seq(S) /\ Tail(s) \in Seq(S)
           /\ \A t : Esta(t, u \o Tail(s)) <=> Esta(t, u) \/ Esta(t, Tail(s))
           /\ \A t : Esta(t, Tail(s)) => Esta(t, s)
<1>1. PICK r : r = Tail(s)
  OBVIOUS
<1>2. r \in Seq(S) /\ Len(r) = Len(s) - 1 /\ Len(s) \in Nat
  BY <1>1
<1>3. \A i \in DOMAIN r : r[i] = s[i + 1] /\ i + 1 \in DOMAIN s
  BY <1>1, <1>2
<1>4. \A t : Esta(t, r) => Esta(t, s)
  BY <1>3 DEF Esta
<1> QED
  BY <1>1, <1>2, <1>4, EstaEnJuntas
-----------------------------------------------------------------------------
(* Queues.                                                                  *)
LEMMA Rebanada ==
    ASSUME NEW lista \in Seq(Procs), NEW a \in Nat \ {0}, NEW b \in Nat, b <= Len(lista), a <= b + 1
    PROVE  /\ SubSeq(lista, a, b) \in Seq(Procs)
           /\ Len(SubSeq(lista, a, b)) = b + 1 - a
           /\ \A j \in 1..(b + 1 - a) : SubSeq(lista, a, b)[j] = lista[a + j - 1]
<1>1. \A j \in a..b : lista[j] \in Procs
  OBVIOUS
<1> QED
  BY <1>1, SubSeqProperties

LEMMA Partida ==
    ASSUME NEW lista \in Seq(Procs), NEW i \in 1..(Len(lista) + 1)
    PROVE  \A q : Esta(q, lista) <=> \/ Esta(q, SubSeq(lista, 1, i - 1))
                                    \/ Esta(q, SubSeq(lista, i, Len(lista)))
<1>1. PICK a, b, n : a = SubSeq(lista, 1, i - 1) /\ b = SubSeq(lista, i, Len(lista)) /\ n = Len(lista)
  OBVIOUS
<1>2. n \in Nat /\ i \in Nat \ {0} /\ i - 1 \in Nat /\ i <= n + 1 /\ DOMAIN lista = 1..n
  BY <1>1
<1>3. a \in Seq(Procs) /\ Len(a) = i - 1 /\ \A j \in 1..(i - 1) : a[j] = lista[j]
  <2>1. /\ SubSeq(lista, 1, i - 1) \in Seq(Procs)
        /\ Len(SubSeq(lista, 1, i - 1)) = (i - 1) + 1 - 1
        /\ \A j \in 1..((i - 1) + 1 - 1) : SubSeq(lista, 1, i - 1)[j] = lista[1 + j - 1]
    BY <1>1, <1>2, Rebanada
  <2> QED
    BY <1>1, <1>2, <2>1
<1>4. b \in Seq(Procs) /\ Len(b) = n + 1 - i /\ \A j \in 1..(n + 1 - i) : b[j] = lista[i + j - 1]
  BY <1>1, <1>2, Rebanada
<1>5. DOMAIN a = 1..(i - 1) /\ DOMAIN b = 1..(n + 1 - i)
  BY <1>2, <1>3, <1>4
<1>6. ASSUME NEW q, NEW j \in 1..n, lista[j] = q PROVE Esta(q, a) \/ Esta(q, b)
  <2>1. CASE j < i
    <3>1. j \in DOMAIN a /\ a[j] = q
      BY <1>2, <1>3, <1>5, <1>6, <2>1
    <3> QED
      BY <3>1 DEF Esta
  <2>2. CASE ~(j < i)
    <3>1. j + 1 - i \in 1..(n + 1 - i) /\ i + (j + 1 - i) - 1 = j
      BY <1>2, <1>6, <2>2
    <3>2. b[j + 1 - i] = q
      BY <1>4, <1>6, <3>1
    <3> QED
      BY <1>5, <3>1, <3>2 DEF Esta
  <2> QED
    BY <2>1, <2>2
<1>7. ASSUME NEW q, Esta(q, a) PROVE Esta(q, lista)
  BY <1>2, <1>3, <1>5, <1>7 DEF Esta
<1>8. ASSUME NEW q, Esta(q, b) PROVE Esta(q, lista)
  <2>1. PICK j \in 1..(n + 1 - i) : b[j] = q
    BY <1>5, <1>8 DEF Esta
  <2>2. i + j - 1 \in 1..n /\ lista[i + j - 1] = q
    BY <1>2, <1>4, <2>1
  <2> QED
    BY <1>2, <2>2 DEF Esta
<1>9. \A q : Esta(q, lista) => Esta(q, a) \/ Esta(q, b)
  BY <1>2, <1>6 DEF Esta
<1> QED
  BY <1>1, <1>7, <1>8, <1>9

(* queue_FIFO and queue_PMCP put the process in, and move nobody out.       *)
LEMMA InsertarMete ==
    ASSUME NEW lista \in Seq(Procs), NEW p \in Procs, NEW c
    PROVE  /\ Insertar(c, p, lista) \in Seq(Procs)
           /\ \A q : Esta(q, Insertar(c, p, lista)) <=> q = p \/ Esta(q, lista)
<1>1. /\ Append(lista, p) \in Seq(Procs)
      /\ \A q : Esta(q, Append(lista, p)) <=> q = p \/ Esta(q, lista)
  <2>1. PICK u : u = <<p>> /\ u \in Seq(Procs) /\ Append(lista, p) = lista \o u
    <3>1. Append(lista, p) = lista \o <<p>> /\ <<p>> \in Seq(Procs)
      OBVIOUS
    <3> QED
      BY <3>1
  <2>2. lista \o u \in Seq(Procs) /\ \A q : Esta(q, lista \o u) <=> Esta(q, lista) \/ Esta(q, u)
    BY <2>1, EstaEnJuntas
  <2>3. \A q : Esta(q, u) <=> q = p
    BY <2>1, EstaEnUna
  <2> QED
    BY <2>1, <2>2, <2>3
<1>2. CASE Insertar(c, p, lista) = Append(lista, p)
  BY <1>1, <1>2
<1>3. CASE Insertar(c, p, lista) # Append(lista, p)
  <2> DEFINE mayores == { i \in DOMAIN lista : Tamanio[p] < Tamanio[lista[i]] }
  <2>1. PICK i : i = CHOOSE k \in mayores : \A j \in mayores : k <= j
    OBVIOUS
  <2>2. /\ mayores # {}
        /\ Insertar(c, p, lista)
             = SubSeq(lista, 1, i - 1) \o <<p>> \o SubSeq(lista, i, Len(lista))
    BY <1>3, <2>1 DEF Insertar, InsertarPMCP, InsertarFIFO
  <2>3. i \in mayores
    <3>1. mayores \in SUBSET Nat
      OBVIOUS
    <3>2. \E x \in mayores : \A y \in mayores : x <= y
      BY <2>2, <3>1, MinimoNat
    <3> QED
      BY <2>1, <3>2
  <2>4. i \in 1..Len(lista) /\ Len(lista) \in Nat
    BY <2>3
  <2>5. PICK a, b : a = SubSeq(lista, 1, i - 1) /\ b = SubSeq(lista, i, Len(lista))
    OBVIOUS
  <2>6. a \in Seq(Procs) /\ b \in Seq(Procs) /\ <<p>> \in Seq(Procs)
    BY <2>4, <2>5, Rebanada
  <2>7. \A q : Esta(q, lista) <=> Esta(q, a) \/ Esta(q, b)
    BY <2>4, <2>5, Partida
  <2>8. /\ a \o <<p>> \in Seq(Procs)
        /\ \A q : Esta(q, a \o <<p>>) <=> Esta(q, a) \/ Esta(q, <<p>>)
    BY <2>6, EstaEnJuntas
  <2>9. /\ (a \o <<p>>) \o b \in Seq(Procs)
        /\ \A q : Esta(q, (a \o <<p>>) \o b) <=> Esta(q, a \o <<p>>) \/ Esta(q, b)
    BY <2>6, <2>8, EstaEnJuntas
  <2>10. Insertar(c, p, lista) = (a \o <<p>>) \o b
    BY <2>2, <2>5
  <2>11. \A q : Esta(q, <<p>>) <=> q = p
    BY EstaEnUna
  <2>12. \A q : Esta(q, (a \o <<p>>) \o b) <=> q = p \/ Esta(q, lista)
    BY <2>7, <2>8, <2>9, <2>11
  <2> QED
    BY <2>9, <2>10, <2>12
<1> QED
  BY <1>2, <1>3

(* In the order of arrival the first stays the first.                       *)
LEMMA InsertarDetras ==
    ASSUME NEW lista \in Seq(Procs), NEW p \in Procs, NEW c, AlgoritmoIngreso # "PMCP", lista # <<>>
    PROVE  Insertar(c, p, lista) # <<>> /\ Head(Insertar(c, p, lista)) = Head(lista)
<1>1. Insertar(c, p, lista) = Append(lista, p)
  BY DEF Insertar, InsertarFIFO
<1> QED
  BY <1>1

(* list_remove_element takes nobody else out.                               *)
LEMMA QuitarSaca ==
    ASSUME NEW lista \in Seq(Procs), NEW p \in Procs
    PROVE  /\ Quitar(p, lista) \in Seq(Procs)
           /\ \A q : Esta(q, Quitar(p, lista)) => Esta(q, lista)
           /\ \A q : q # p /\ Esta(q, lista) => Esta(q, Quitar(p, lista))
           /\ lista # <<>> /\ Head(lista) # p => /\ Quitar(p, lista) # <<>>
                                                /\ Head(Quitar(p, lista)) = Head(lista)
<1> DEFINE lugares == { i \in DOMAIN lista : lista[i] = p }
<1>1. CASE lugares = {}
  <2>1. Quitar(p, lista) = lista
    BY <1>1 DEF Quitar
  <2> QED
    BY <2>1
<1>2. CASE lugares # {}
  <2>1. PICK i : i = CHOOSE k \in lugares : \A j \in lugares : k <= j
    OBVIOUS
  <2>2. Quitar(p, lista) = SubSeq(lista, 1, i - 1) \o SubSeq(lista, i + 1, Len(lista))
    BY <1>2, <2>1 DEF Quitar
  <2>3. i \in lugares
    <3>1. lugares \in SUBSET Nat
      OBVIOUS
    <3>2. \E x \in lugares : \A y \in lugares : x <= y
      BY <1>2, <3>1, MinimoNat
    <3> QED
      BY <2>1, <3>2
  <2>4. i \in 1..Len(lista) /\ Len(lista) \in Nat /\ lista[i] = p
    BY <2>3
  <2>5. PICK a, b, d : /\ a = SubSeq(lista, 1, i - 1)
                       /\ b = SubSeq(lista, i + 1, Len(lista))
                       /\ d = SubSeq(lista, i, Len(lista))
    OBVIOUS
  <2>6. /\ a \in Seq(Procs) /\ Len(a) = i - 1 /\ \A j \in 1..(i - 1) : a[j] = lista[j]
    <3>1. /\ SubSeq(lista, 1, i - 1) \in Seq(Procs)
          /\ Len(SubSeq(lista, 1, i - 1)) = (i - 1) + 1 - 1
          /\ \A j \in 1..((i - 1) + 1 - 1) : SubSeq(lista, 1, i - 1)[j] = lista[1 + j - 1]
      BY <2>4, Rebanada
    <3> QED
      BY <2>4, <2>5, <3>1
  <2>7. /\ b \in Seq(Procs) /\ Len(b) = Len(lista) - i
        /\ \A j \in 1..(Len(lista) - i) : b[j] = lista[i + j]
    <3>1. /\ SubSeq(lista, i + 1, Len(lista)) \in Seq(Procs)
          /\ Len(SubSeq(lista, i + 1, Len(lista))) = Len(lista) + 1 - (i + 1)
          /\ \A j \in 1..(Len(lista) + 1 - (i + 1)) :
                SubSeq(lista, i + 1, Len(lista))[j] = lista[(i + 1) + j - 1]
      BY <2>4, Rebanada
    <3> QED
      BY <2>4, <2>5, <3>1
  <2>8. /\ d \in Seq(Procs) /\ Len(d) = Len(lista) + 1 - i
        /\ \A j \in 1..(Len(lista) + 1 - i) : d[j] = lista[i + j - 1]
    BY <2>4, <2>5, Rebanada
  <2>9. \A q : Esta(q, lista) <=> Esta(q, a) \/ Esta(q, d)
    BY <2>4, <2>5, Partida
  <2>10. \A q : Esta(q, d) <=> q = p \/ Esta(q, b)
    <3>1. ASSUME NEW q, Esta(q, d) PROVE q = p \/ Esta(q, b)
      <4>1. PICK j \in 1..(Len(lista) + 1 - i) : d[j] = q
        BY <2>4, <2>8, <3>1 DEF Esta
      <4>2. CASE j = 1
        BY <2>4, <2>8, <4>1, <4>2
      <4>3. CASE j # 1
        <5>1. j - 1 \in 1..(Len(lista) - i) /\ i + (j - 1) = i + j - 1
          BY <2>4, <4>1, <4>3
        <5>2. b[j - 1] = q
          BY <2>7, <2>8, <4>1, <5>1
        <5>3. j - 1 \in DOMAIN b
          BY <2>4, <2>7, <5>1
        <5> QED
          BY <5>2, <5>3 DEF Esta
      <4> QED
        BY <4>2, <4>3
    <3>2. Esta(p, d)
      <4>1. 1 \in 1..(Len(lista) + 1 - i) /\ i + 1 - 1 = i
        BY <2>4
      <4>2. d[1] = p /\ 1 \in DOMAIN d
        BY <2>4, <2>8, <4>1
      <4> QED
        BY <4>2 DEF Esta
    <3>3. ASSUME NEW q, Esta(q, b) PROVE Esta(q, d)
      <4>1. PICK j \in 1..(Len(lista) - i) : b[j] = q
        BY <2>4, <2>7, <3>3 DEF Esta
      <4>2. j + 1 \in 1..(Len(lista) + 1 - i) /\ i + (j + 1) - 1 = i + j
        BY <2>4, <4>1
      <4>3. d[j + 1] = q /\ j + 1 \in DOMAIN d
        BY <2>4, <2>7, <2>8, <4>1, <4>2
      <4> QED
        BY <4>3 DEF Esta
    <3> QED
      BY <3>1, <3>2, <3>3
  <2>11. a \o b \in Seq(Procs) /\ \A q : Esta(q, a \o b) <=> Esta(q, a) \/ Esta(q, b)
    BY <2>6, <2>7, EstaEnJuntas
  <2>12. ASSUME lista # <<>>, Head(lista) # p PROVE a \o b # <<>> /\ Head(a \o b) = Head(lista)
    <3>1. i # 1 /\ Head(lista) = lista[1]
      BY <2>4, <2>12
    <3>2. Len(a) >= 1 /\ a[1] = lista[1]
      BY <2>4, <2>6, <3>1
    <3>3. Len(a \o b) >= 1 /\ (a \o b)[1] = a[1]
      BY <2>4, <2>6, <2>7, <3>2, ConcatProperties
    <3> QED
      BY <2>11, <3>1, <3>2, <3>3
  <2> QED
    BY <2>2, <2>5, <2>9, <2>10, <2>11, <2>12
<1> QED
  BY <1>1, <1>2

(* cambiar_estado.                                                          *)
LEMMA CambiarMueve ==
    ASSUME estado \in [Procs -> Estados], cola \in [Colas -> Seq(Procs)],
           NEW p \in Procs, NEW e \in Estados, CambiarEstado(p, e)
    PROVE  /\ estado' \in [Procs -> Estados] /\ estado'[p] = e
           /\ \A q \in Procs \ {p} : estado'[q] = estado[q]
           /\ cola' \in [Colas -> Seq(Procs)]
           /\ \A c \in Colas : \A q : q # p => (Esta(q, cola'[c]) <=> Esta(q, cola[c]))
           /\ e \in Colas => Esta(p, cola'[e])
           /\ \A c \in Colas : cola[c] # <<>> /\ Head(cola[c]) # p
                                 /\ (c # e \/ AlgoritmoIngreso # "PMCP") =>
                  cola'[c] # <<>> /\ Head(cola'[c]) = Head(cola[c])
<1>1. /\ estado' = [estado EXCEPT ![p] = e]
      /\ cola' = [c \in Colas |-> ColaTras(p, e, c)]
  BY DEF CambiarEstado
<1>2. ASSUME NEW c \in Colas
      PROVE  /\ cola'[c] \in Seq(Procs)
             /\ \A q : q # p => (Esta(q, cola'[c]) <=> Esta(q, cola[c]))
             /\ c = e => Esta(p, cola'[c])
             /\ cola[c] # <<>> /\ Head(cola[c]) # p /\ (c # e \/ AlgoritmoIngreso # "PMCP") =>
                  cola'[c] # <<>> /\ Head(cola'[c]) = Head(cola[c])
  <2>1. PICK s, r : /\ s = cola[c]
                    /\ r = IF estado[p] = c THEN Quitar(p, cola[c]) ELSE cola[c]
    OBVIOUS
  <2>2. s \in Seq(Procs)
    BY <2>1
  <2>3. /\ r \in Seq(Procs)
        /\ \A q : q # p => (Esta(q, r) <=> Esta(q, s))
        /\ s # <<>> /\ Head(s) # p => r # <<>> /\ Head(r) = Head(s)
    <3>1. CASE estado[p] = c
      BY <2>1, <2>2, <3>1, QuitarSaca
    <3>2. CASE estado[p] # c
      BY <2>1, <2>2, <3>2
    <3> QED
      BY <3>1, <3>2
  <2>4. cola'[c] = IF c = e THEN Insertar(c, p, r) ELSE r
    BY <1>1, <2>1 DEF ColaTras
  <2>5. CASE c = e
    <3>1. cola'[c] = Insertar(c, p, r)
      BY <2>4, <2>5
    <3>2. /\ Insertar(c, p, r) \in Seq(Procs)
          /\ \A q : Esta(q, Insertar(c, p, r)) <=> q = p \/ Esta(q, r)
      BY <2>3, InsertarMete
    <3>3. ASSUME s # <<>>, Head(s) # p, AlgoritmoIngreso # "PMCP"
          PROVE  cola'[c] # <<>> /\ Head(cola'[c]) = Head(s)
      BY <2>3, <3>1, <3>3, InsertarDetras
    <3> QED
      BY <2>1, <2>3, <2>5, <3>1, <3>2, <3>3
  <2>6. CASE c # e
    BY <2>1, <2>3, <2>4, <2>6
  <2> QED
    BY <2>5, <2>6
<1>3. cola' \in [Colas -> Seq(Procs)]
  <2>1. \A c \in Colas : ColaTras(p, e, c) \in Seq(Procs)
    BY <1>1, <1>2
  <2> QED
    BY <1>1, <2>1
<1> QED
  BY <1>1, <1>2, <1>3
-----------------------------------------------------------------------------
(* Tasks.                                                                   *)
LEMMA PorTarea ==
    ASSUME NEW o \in Ops, NEW x \in Procs \cup {Nadie}
    PROVE  Por(o, x) \in Tarea /\ Por(o, x).op = o /\ Por(o, x).pid = x
BY DEF Por, Tarea

LEMMA SolaTarea ==
    ASSUME NEW o \in Sueltas
    PROVE  Sola(o) \in Tarea /\ Sola(o).op = o /\ Sola(o).pid = Nadie
BY DEF Sola, Tarea, Sueltas, Ops

LEMMA PorNueva ==
    ASSUME NEW P \in SUBSET Procs, NEW p \in P, NEW o \in Ops \ (Creadoras \cup {"TIMER"})
    PROVE  Nueva(Por(o, p), P) /\ Por(o, p).op = o
BY DEF Nueva, Por, Tarea

LEMMA SolaNueva ==
    ASSUME NEW P \in SUBSET Procs, NEW o \in Sueltas
    PROVE  Nueva(Sola(o), P) /\ Sola(o).op = o
BY DEF Nueva, Sola, Tarea, Sueltas, Ops, Creadoras

LEMMA NuevasNada == ASSUME NEW P PROVE Nuevas(<<>>, P) /\ Desocupada(<<>>)
BY EstaEnVacia DEF Nuevas, Desocupada

LEMMA NuevasUna ==
    ASSUME NEW P, NEW t, Nueva(t, P)
    PROVE  Nuevas(<<t>>, P) /\ (t.op \notin Ocupan => Desocupada(<<t>>))
<1>1. PICK u : u = <<t>>
  OBVIOUS
<1>2. u \in Seq(Tarea)
  BY <1>1 DEF Nueva
<1>3. \A x : Esta(x, u) <=> x = t
  BY <1>1, EstaEnUna
<1> QED
  BY <1>1, <1>2, <1>3 DEF Nuevas, Desocupada

LEMMA NuevasDos ==
    ASSUME NEW P, NEW t, NEW v, Nueva(t, P), Nueva(v, P)
    PROVE  /\ Nuevas(<<t, v>>, P)
           /\ t.op \notin Ocupan /\ v.op \notin Ocupan => Desocupada(<<t, v>>)
<1>1. PICK u : u = <<t, v>>
  OBVIOUS
<1>2. u \in Seq(Tarea)
  BY <1>1 DEF Nueva
<1>3. \A x : Esta(x, u) <=> x = t \/ x = v
  BY <1>1, EstaEnDos
<1> QED
  BY <1>1, <1>2, <1>3 DEF Nuevas, Desocupada

LEMMA NuevasTres ==
    ASSUME NEW P, NEW t, NEW v, NEW w, Nueva(t, P), Nueva(v, P), Nueva(w, P)
    PROVE  /\ Nuevas(<<t, v, w>>, P)
           /\ t.op \notin Ocupan /\ v.op \notin Ocupan /\ w.op \notin Ocupan =>
                 Desocupada(<<t, v, w>>)
<1>1. PICK u : u = <<t, v, w>>
  OBVIOUS
<1>2. u \in Seq(Tarea)
  BY <1>1 DEF Nueva
<1>3. \A x : Esta(x, u) <=> x = t \/ x = v \/ x = w
  BY <1>1, EstaEnTres
<1> QED
  BY <1>1, <1>2, <1>3 DEF Nuevas, Desocupada

(* What a step does to the stacks: a thread goes on with tasks for P, or    *)
(* loses some.                                                              *)
Pilas(P) ==
    /\ pila' \in [Hilos -> Seq(Tarea)]
    /\ \A k \in Hilos :
          \/ pila'[k] = pila[k]
          \/ \A t : Esta(t, pila'[k]) => \/ pila[k] # <<>> /\ Esta(t, Tail(pila[k]))
                                        \/ Nueva(t, P)

LEMMA PilasSigue ==
    ASSUME pila \in [Hilos -> Seq(Tarea)], NEW h \in Hilos, pila[h] # <<>>, NEW P, NEW u,
           Nuevas(u, P), Sigue(h, u)
    PROVE  /\ Pilas(P)
           /\ pila'[h] = u \o Tail(pila[h])
           /\ \A k \in Hilos \ {h} : pila'[k] = pila[k]
<1>1. PICK s, r : s = pila[h] /\ r = u \o Tail(s)
  OBVIOUS
<1>2. s \in Seq(Tarea) /\ s # <<>> /\ u \in Seq(Tarea)
  BY <1>1 DEF Nuevas
<1>3. r \in Seq(Tarea) /\ \A t : Esta(t, r) => Esta(t, u) \/ Esta(t, Tail(s))
  BY <1>1, <1>2, TrasLaPrimera
<1>4. pila' = [pila EXCEPT ![h] = r]
  BY <1>1 DEF Sigue
<1>5. pila' \in [Hilos -> Seq(Tarea)]
  BY <1>3, <1>4
<1>6. pila'[h] = r /\ \A k \in Hilos \ {h} : pila'[k] = pila[k]
  BY <1>4
<1>7. \A t : Esta(t, pila'[h]) => (pila[h] # <<>> /\ Esta(t, Tail(pila[h]))) \/ Nueva(t, P)
  BY <1>1, <1>2, <1>3, <1>6 DEF Nuevas
<1>8. Pilas(P)
  BY <1>5, <1>6, <1>7 DEF Pilas
<1> QED
  BY <1>1, <1>6, <1>8

(* The tasks each operation leaves.                                         *)
Tranquilas(h, p) ==
    \/ NewInit(h, p) \/ NewFin(h, p) \/ Ready(h, p)
    \/ Blocked(h, p) \/ Bloquear(h, p) \/ Join(h, p)
    \/ TimerArranca(h, p) \/ TimerCancelado(h, p) \/ TimerVence(h, p) \/ TimerRevisa(h, p)
    \/ Suspender(h, p) \/ SuspenderMem(h, p) \/ TimerCancela(h, p) \/ TimerTermina(h, p)
    \/ ReadySuspended(h, p) \/ ReadySuspendedVer(h, p) \/ Exit(h, p) \/ ExitMem(h, p)
    \/ Desbloqueo(h, p) \/ EncolarIO(h, p)
    \/ Dump(h, p) \/ DumpOk(h, p) \/ DumpFin(h, p) \/ DumpError(h, p) \/ DumpExit(h, p)

LEMMA TareasTranquilas ==
    ASSUME NEW h \in Hilos, NEW p \in Procs, Tranquilas(h, p)
    PROVE  \E u : Nuevas(u, {p}) /\ Desocupada(u) /\ Sigue(h, u)
<1> DEFINE Libre == Ops \ (Creadoras \cup Ocupan \cup {"TIMER"})
<1>1. \A o \in Libre : /\ Nueva(Por(o, p), {p}) /\ Por(o, p).op \notin Ocupan
                       /\ Nuevas(<<Por(o, p)>>, {p}) /\ Desocupada(<<Por(o, p)>>)
  BY PorNueva, NuevasUna
<1>2. \A o, x \in Libre : /\ Nuevas(<<Por(o, p), Por(x, p)>>, {p})
                          /\ Desocupada(<<Por(o, p), Por(x, p)>>)
  BY <1>1, NuevasDos
<1>3. Nuevas(<<>>, {p}) /\ Desocupada(<<>>)
  BY NuevasNada
<1>4. Nueva(Sola("TRAER"), {p}) /\ Sola("TRAER").op \notin Ocupan
  BY SolaNueva DEF Sueltas, Ocupan
<1>5. Nuevas(<<Sola("TRAER")>>, {p}) /\ Desocupada(<<Sola("TRAER")>>)
  BY <1>4, NuevasUna
<1>6. {"NEW_FIN", "READY", "READY_CPU", "BLOQUEAR", "JOIN", "CREAR_TIMER", "DORMIR", "REVISAR",
       "FIN_TIMER", "SUSPENDER", "SUSPENDER_MEM", "CANCELAR", "RS_VER", "EXIT_MEM", "EXIT",
       "READY_SUSPENDED", "DUMP_ERROR", "DUMP_OK", "DUMP_FIN", "DUMP_EXIT"} \subseteq Libre
  BY DEF Ops, Creadoras, Ocupan
<1> HIDE DEF Libre
<1>7. CASE NewInit(h, p)
  BY <1>1, <1>2, <1>6, <1>7 DEF NewInit
<1>8. CASE NewFin(h, p)
  BY <1>3, <1>8 DEF NewFin
<1>9. CASE Ready(h, p)
  BY <1>1, <1>6, <1>9 DEF Ready
<1>10. CASE Blocked(h, p)
  BY <1>1, <1>6, <1>10 DEF Blocked
<1>11. CASE Bloquear(h, p)
  BY <1>1, <1>2, <1>6, <1>11 DEF Bloquear
<1>12. CASE Join(h, p)
  BY <1>3, <1>12 DEF Join, Solo
<1>13. CASE TimerArranca(h, p)
  BY <1>1, <1>6, <1>13 DEF TimerArranca
<1>14. CASE TimerCancelado(h, p)
  BY <1>3, <1>14 DEF TimerCancelado
<1>15. CASE TimerVence(h, p)
  BY <1>1, <1>6, <1>15 DEF TimerVence, Solo
<1>16. CASE TimerRevisa(h, p)
  BY <1>1, <1>2, <1>6, <1>16 DEF TimerRevisa, Solo
<1>17. CASE Suspender(h, p)
  BY <1>1, <1>6, <1>17 DEF Suspender
<1>18. CASE SuspenderMem(h, p)
  <2>1. /\ Nuevas(<<Sola("TRAER"), Por("CANCELAR", p)>>, {p})
        /\ Desocupada(<<Sola("TRAER"), Por("CANCELAR", p)>>)
    BY <1>1, <1>4, <1>6, NuevasDos
  <2> QED
    BY <1>18, <2>1 DEF SuspenderMem
<1>19. CASE TimerCancela(h, p)
  BY <1>1, <1>3, <1>6, <1>19 DEF TimerCancela
<1>20. CASE TimerTermina(h, p)
  BY <1>3, <1>20 DEF TimerTermina
<1>21. CASE ReadySuspended(h, p)
  BY <1>1, <1>3, <1>6, <1>21 DEF ReadySuspended
<1>22. CASE ReadySuspendedVer(h, p)
  BY <1>3, <1>5, <1>22 DEF ReadySuspendedVer, Solo, TraerSiEsUnico
<1>23. CASE Exit(h, p)
  BY <1>1, <1>6, <1>23 DEF Exit
<1>24. CASE ExitMem(h, p)
  BY <1>5, <1>24 DEF ExitMem, DespuesDelExit
<1>25. CASE Desbloqueo(h, p)
  BY <1>1, <1>6, <1>25 DEF Desbloqueo, DestinoTrasIO
<1>26. CASE EncolarIO(h, p)
  BY <1>3, <1>26 DEF EncolarIO
<1>27. CASE Dump(h, p)
  BY <1>1, <1>6, <1>27 DEF Dump
<1>28. CASE DumpOk(h, p)
  BY <1>2, <1>6, <1>28 DEF DumpOk
<1>29. CASE DumpFin(h, p)
  BY <1>1, <1>6, <1>29 DEF DumpFin, Solo
<1>30. CASE DumpError(h, p)
  BY <1>2, <1>6, <1>30 DEF DumpError
<1>31. CASE DumpExit(h, p)
  BY <1>1, <1>6, <1>31 DEF DumpExit
<1> QED
  BY <1>7, <1>8, <1>9, <1>10, <1>11, <1>12, <1>13, <1>14, <1>15, <1>16, <1>17, <1>18, <1>19,
     <1>20, <1>21, <1>22, <1>23, <1>24, <1>25, <1>26, <1>27, <1>28, <1>29, <1>30, <1>31
     DEF Tranquilas
-----------------------------------------------------------------------------
(* Types.  A task about no process is one of Sueltas, and a timer starts or *)
(* is active only after it was created: hilo_block names it.                *)
TareasBien ==
    \A h \in Hilos : \A t : Esta(t, pila[h]) =>
        /\ t.pid \in Procs \/ t.op \in Sueltas
        /\ t.op = "TIMER" => hiloBlock[t.pid] > 0
RelojesBien == \A p \in Procs : hiloActivo[p] => hiloBlock[p] > 0

IInvTipos == TypeOK /\ TareasBien /\ RelojesBien

(* TypeOK but for the stacks.                                               *)
OtrosTipos ==
    /\ estado \in [Procs -> Estados]
    /\ cola \in [Colas -> Seq(Procs)]
    /\ cpuPid \in [Cpus -> Procs \cup {Nadie}]
    /\ contexto \in [Cpus -> Seq([pid : Procs, pc : Nat])]
    /\ pc \in [Procs -> Nat]
    /\ guion \in Guiones
    /\ enIO \in SUBSET Procs
    /\ mTraer \in BOOLEAN
    /\ huerfanos \in SUBSET {"mutex_memoria", "mutex_cpu"}
    /\ trabado \in SUBSET Procs
    /\ posible \in [Procs -> BOOLEAN]
    /\ hiloActivo \in [Procs -> BOOLEAN]
    /\ hiloBlock \in [Procs -> 0..MaxTimers]
    /\ cancelado \in SUBSET Timers
    /\ bitmap \in SUBSET Marco
    /\ marcos \in [Procs -> SUBSET Marco]
    /\ residentes \in SUBSET Procs
    /\ suspendidos \in SUBSET Procs
    /\ caido \in BOOLEAN

LEMMA TiposJuntos == TypeOK <=> pila \in [Hilos -> Seq(Tarea)] /\ OtrosTipos
BY DEF TypeOK, OtrosTipos

(* What is on a stack after a step, one task at a time.                     *)
LEMMA TareaTras ==
    ASSUME pila \in [Hilos -> Seq(Tarea)], NEW P, Pilas(P),
           NEW k \in Hilos, NEW t, Esta(t, pila'[k])
    PROVE  Esta(t, pila[k]) \/ Nueva(t, P)
<1>1. CASE pila'[k] = pila[k]
  BY <1>1
<1>2. CASE pila[k] # <<>> /\ Esta(t, Tail(pila[k]))
  BY <1>2, TrasLaPrimera
<1> QED
  BY <1>1, <1>2 DEF Pilas

LEMMA TiposSiguen ==
    ASSUME IInvTipos, OtrosTipos', NEW P \in SUBSET Procs, Pilas(P),
           \A q \in Procs : /\ hiloBlock[q] > 0 => hiloBlock'[q] > 0
                            /\ hiloActivo'[q] => hiloActivo[q] \/ hiloBlock'[q] > 0
    PROVE  IInvTipos'
<1>1. pila \in [Hilos -> Seq(Tarea)] /\ pila' \in [Hilos -> Seq(Tarea)]
  BY TiposJuntos DEF IInvTipos, Pilas
<1>2. TypeOK'
  <2>1. pila' \in [Hilos -> Seq(Tarea)] /\ OtrosTipos' => TypeOK'
    BY DEF TypeOK, OtrosTipos
  <2> QED
    BY <1>1, <2>1
<1>3. ASSUME NEW k \in Hilos, NEW t, Esta(t, pila'[k])
      PROVE  /\ t.pid \in Procs \/ t.op \in Sueltas
             /\ t.op = "TIMER" => hiloBlock'[t.pid] > 0
  <2>1. Esta(t, pila[k]) \/ Nueva(t, P)
    BY <1>1, <1>3, TareaTras
  <2>2. CASE Esta(t, pila[k])
    <3>1. "TIMER" \notin Sueltas
      BY DEF Sueltas
    <3> QED
      BY <2>2, <3>1 DEF IInvTipos, TareasBien
  <2>3. CASE Nueva(t, P)
    BY <2>3 DEF Nueva
  <2> QED
    BY <2>1, <2>2, <2>3
<1>4. TareasBien'
  BY <1>3 DEF TareasBien
<1>5. RelojesBien'
  BY DEF RelojesBien, IInvTipos
<1> QED
  BY <1>2, <1>4, <1>5 DEF IInvTipos

LEMMA MarcosDeMemoria ==
    ASSUME bitmap \in SUBSET Marco, NEW p \in Procs, Entra(p)
    PROVE  MarcosNuevos(p) \in SUBSET Marco
<1>1. PICK lista : lista = CHOOSE l \in MarcosParaProceso(bitmap, Tamanio[p]) : TRUE
  OBVIOUS
<1>2. lista \in MarcosParaProceso(bitmap, Tamanio[p])
  BY <1>1 DEF Entra, HayMemoria
<1>3. lista \in [1..Tamanio[p] -> Libres(bitmap)]
  BY <1>2 DEF MarcosParaProceso
<1>4. MarcosNuevos(p) = MarcosDe(lista)
  BY <1>1 DEF MarcosNuevos
<1> QED
  BY <1>3, <1>4 DEF MarcosDe, Libres

LEMMA MemTipos ==
    ASSUME OtrosTipos, NEW p \in Procs,
           \/ Entra(p) /\ MemInit(p)
           \/ Entra(p) /\ MemDesuspender(p)
           \/ MemSuspender(p) \/ MemFinalizar(p) \/ UNCHANGED memVars
    PROVE  /\ bitmap' \in SUBSET Marco /\ marcos' \in [Procs -> SUBSET Marco]
           /\ residentes' \in SUBSET Procs /\ suspendidos' \in SUBSET Procs
<1>1. Entra(p) => MarcosNuevos(p) \in SUBSET Marco
  BY MarcosDeMemoria DEF OtrosTipos
<1>2. CASE Entra(p) /\ MemInit(p)
  BY <1>1, <1>2 DEF OtrosTipos, MemInit
<1>3. CASE Entra(p) /\ MemDesuspender(p)
  BY <1>1, <1>3 DEF OtrosTipos, MemDesuspender
<1>4. CASE MemSuspender(p)
  BY <1>4 DEF OtrosTipos, MemSuspender
<1>5. CASE MemFinalizar(p)
  BY <1>5 DEF OtrosTipos, MemFinalizar
<1>6. CASE UNCHANGED memVars
  BY <1>6 DEF OtrosTipos, memVars
<1> QED
  BY <1>2, <1>3, <1>4, <1>5, <1>6

LEMMA CancelarTipo ==
    ASSUME OtrosTipos, RelojesBien, NEW p \in Procs, CancelarTimer(p)
    PROVE  cancelado' \in SUBSET Timers
<1>1. hiloActivo[p] => hiloBlock[p] \in 1..MaxTimers
  BY MaxTimersAssumption DEF OtrosTipos, RelojesBien
<1>2. hiloActivo[p] => Timer(p, hiloBlock[p]) \in Timers
  BY <1>1 DEF Timers
<1> QED
  BY <1>2 DEF OtrosTipos, CancelarTimer

LEMMA CambiarTipos ==
    ASSUME OtrosTipos, NEW p \in Procs, NEW e \in Estados, CambiarEstado(p, e)
    PROVE  estado' \in [Procs -> Estados] /\ cola' \in [Colas -> Seq(Procs)]
BY CambiarMueve DEF OtrosTipos

LEMMA OtrosDeProceso ==
    ASSUME IInvTipos, NEW h \in Hilos, NEW p \in Procs, DeProceso(h, p)
    PROVE  OtrosTipos'
<1> USE DEF planVars, cpuVars, guionVars, mutexVars, timerVars, memVars
<1>1. OtrosTipos /\ RelojesBien
  BY TiposJuntos DEF IInvTipos
<1>2. {"NEW", "READY", "EXECUTE", "BLOCKED", "BLOCKED_SUSPENDED", "READY_SUSPENDED", "EXIT",
       "ELIMINADO"} \subseteq Estados
  BY DEF Estados
<1>3. CASE New(h, p)
  <2>1. estado' \in [Procs -> Estados] /\ cola' \in [Colas -> Seq(Procs)]
    BY <1>1, <1>2, <1>3, CambiarTipos DEF New
  <2> QED
    BY <1>1, <1>3, <2>1 DEF New, OtrosTipos
<1>4. CASE Ready(h, p)
  <2>1. estado' \in [Procs -> Estados] /\ cola' \in [Colas -> Seq(Procs)]
    BY <1>1, <1>2, <1>4, CambiarTipos DEF Ready
  <2> QED
    BY <1>1, <1>4, <2>1 DEF Ready, OtrosTipos
<1>5. CASE Execute(h, p)
  <2>1. estado' \in [Procs -> Estados] /\ cola' \in [Colas -> Seq(Procs)]
    BY <1>1, <1>2, <1>5, CambiarTipos DEF Execute
  <2> QED
    BY <1>1, <1>5, <2>1 DEF Execute, OtrosTipos
<1>6. CASE Blocked(h, p)
  <2>1. estado' \in [Procs -> Estados] /\ cola' \in [Colas -> Seq(Procs)]
    BY <1>1, <1>2, <1>6, CambiarTipos DEF Blocked
  <2> QED
    BY <1>1, <1>6, <2>1 DEF Blocked, OtrosTipos
<1>7. CASE Exit(h, p)
  <2>1. estado' \in [Procs -> Estados] /\ cola' \in [Colas -> Seq(Procs)]
    BY <1>1, <1>2, <1>7, CambiarTipos DEF Exit
  <2> QED
    BY <1>1, <1>7, <2>1 DEF Exit, OtrosTipos
<1>8. CASE Suspender(h, p)
  <2>1. CambiarEstado(p, "BLOCKED_SUSPENDED") \/ UNCHANGED <<estado, cola>>
    BY <1>8 DEF Suspender
  <2>2. estado' \in [Procs -> Estados] /\ cola' \in [Colas -> Seq(Procs)]
    BY <1>1, <1>2, <2>1, CambiarTipos DEF OtrosTipos
  <2> QED
    BY <1>1, <1>8, <2>2 DEF Suspender, OtrosTipos
<1>9. CASE ReadySuspended(h, p)
  <2>1. CambiarEstado(p, "READY_SUSPENDED") \/ UNCHANGED <<estado, cola>>
    BY <1>9 DEF ReadySuspended
  <2>2. estado' \in [Procs -> Estados] /\ cola' \in [Colas -> Seq(Procs)]
    BY <1>1, <1>2, <2>1, CambiarTipos DEF OtrosTipos
  <2> QED
    BY <1>1, <1>9, <2>2 DEF ReadySuspended, OtrosTipos
<1>10. CASE Bloquear(h, p)
  <2>1. cancelado' \in SUBSET Timers
    BY <1>1, <1>10, CancelarTipo DEF Bloquear
  <2> QED
    BY <1>1, <1>10, <2>1 DEF Bloquear, OtrosTipos
<1>11. CASE TimerCancela(h, p)
  <2>1. cancelado' \in SUBSET Timers
    BY <1>1, <1>11, CancelarTipo DEF TimerCancela
  <2> QED
    BY <1>1, <1>11, <2>1 DEF TimerCancela, OtrosTipos
<1>12. CASE DumpOk(h, p)
  <2>1. cancelado' \in SUBSET Timers
    BY <1>1, <1>12, CancelarTipo DEF DumpOk
  <2> QED
    BY <1>1, <1>12, <2>1 DEF DumpOk, OtrosTipos
<1>13. CASE DumpError(h, p)
  <2>1. cancelado' \in SUBSET Timers
    BY <1>1, <1>13, CancelarTipo DEF DumpError
  <2> QED
    BY <1>1, <1>13, <2>1 DEF DumpError, OtrosTipos
<1>14. CASE NewInit(h, p)
  <2>1. /\ bitmap' \in SUBSET Marco /\ marcos' \in [Procs -> SUBSET Marco]
        /\ residentes' \in SUBSET Procs /\ suspendidos' \in SUBSET Procs
    BY <1>1, <1>14, MemTipos DEF NewInit
  <2> QED
    BY <1>1, <1>14, <2>1 DEF NewInit, OtrosTipos
<1>15. CASE SuspenderMem(h, p)
  <2>1. /\ bitmap' \in SUBSET Marco /\ marcos' \in [Procs -> SUBSET Marco]
        /\ residentes' \in SUBSET Procs /\ suspendidos' \in SUBSET Procs
    BY <1>1, <1>15, MemTipos DEF SuspenderMem
  <2> QED
    BY <1>1, <1>15, <2>1 DEF SuspenderMem, OtrosTipos
<1>16. CASE ExitMem(h, p)
  <2>1. /\ bitmap' \in SUBSET Marco /\ marcos' \in [Procs -> SUBSET Marco]
        /\ residentes' \in SUBSET Procs /\ suspendidos' \in SUBSET Procs
    BY <1>1, <1>16, MemTipos DEF ExitMem
  <2>2. cancelado' \in SUBSET Timers
    BY <1>1, <1>16, CancelarTipo DEF ExitMem
  <2> QED
    BY <1>1, <1>2, <1>16, <2>1, <2>2 DEF ExitMem, OtrosTipos
<1>17. CASE Enviar(h, p)
  <2>1. contexto' \in [Cpus -> Seq([pid : Procs, pc : Nat])]
    <3>1. PICK x : x = [pid |-> p, pc |-> pc[p]]
      OBVIOUS
    <3>2. x \in [pid : Procs, pc : Nat]
      BY <1>1, <3>1 DEF OtrosTipos
    <3>3. PICK C : C = [pid : Procs, pc : Nat]
      OBVIOUS
    <3>4. x \in C /\ contexto \in [Cpus -> Seq(C)]
      BY <1>1, <3>2, <3>3 DEF OtrosTipos
    <3>5. \A c \in Cpus : Append(contexto[c], x) \in Seq(C)
      BY <3>4
    <3>6. \/ contexto' = contexto
          \/ contexto' = [contexto EXCEPT ![Primera(CpusDe(p))] = Append(@, x)]
      BY <1>17, <3>1 DEF Enviar
    <3>7. contexto' \in [Cpus -> Seq(C)]
      BY <3>4, <3>5, <3>6
    <3> QED
      BY <3>3, <3>7
  <2> QED
    BY <1>1, <1>17, <2>1 DEF Enviar, OtrosTipos
<1>18. CASE CrearTimer(h, p)
  <2>1. hiloBlock' \in [Procs -> 0..MaxTimers]
    <3>1. hiloBlock[p] + 1 \in 0..MaxTimers
      BY <1>1, <1>18, MaxTimersAssumption DEF CrearTimer, OtrosTipos
    <3> QED
      BY <1>1, <1>18, <3>1 DEF CrearTimer, OtrosTipos
  <2> QED
    BY <1>1, <1>18, <2>1 DEF CrearTimer, OtrosTipos
<1>19. CASE NewTraer(h, p)
  BY <1>1, <1>19 DEF NewTraer, OtrosTipos
<1>20. CASE NewFin(h, p)
  BY <1>1, <1>20 DEF NewFin, OtrosTipos
<1>21. CASE ReadyCpu(h, p)
  BY <1>1, <1>21 DEF ReadyCpu, OtrosTipos
<1>22. CASE Join(h, p)
  BY <1>1, <1>22 DEF Join, OtrosTipos, Solo, otras
<1>23. CASE TimerArranca(h, p)
  BY <1>1, <1>23 DEF TimerArranca, OtrosTipos
<1>24. CASE TimerCancelado(h, p)
  BY <1>1, <1>24 DEF TimerCancelado, OtrosTipos
<1>25. CASE TimerVence(h, p)
  BY <1>1, <1>25 DEF TimerVence, OtrosTipos, Solo, otras
<1>26. CASE TimerRevisa(h, p)
  BY <1>1, <1>26 DEF TimerRevisa, OtrosTipos, Solo, otras
<1>27. CASE TimerTermina(h, p)
  BY <1>1, <1>27 DEF TimerTermina, OtrosTipos
<1>28. CASE ReadySuspendedVer(h, p)
  BY <1>1, <1>28 DEF ReadySuspendedVer, OtrosTipos, Solo, otras
<1>29. CASE Desbloqueo(h, p)
  BY <1>1, <1>29 DEF Desbloqueo, OtrosTipos
<1>30. CASE EncolarIO(h, p)
  BY <1>1, <1>30 DEF EncolarIO, OtrosTipos
<1>31. CASE Dump(h, p)
  BY <1>1, <1>31 DEF Dump, OtrosTipos
<1>32. CASE DumpFin(h, p)
  BY <1>1, <1>32 DEF DumpFin, OtrosTipos, Solo, otras
<1>33. CASE DumpExit(h, p)
  BY <1>1, <1>33 DEF DumpExit, OtrosTipos
<1> QED
  BY <1>3, <1>4, <1>5, <1>6, <1>7, <1>8, <1>9, <1>10, <1>11, <1>12, <1>13, <1>14, <1>15,
     <1>16, <1>17, <1>18, <1>19, <1>20, <1>21, <1>22, <1>23, <1>24, <1>25, <1>26, <1>27,
     <1>28, <1>29, <1>30, <1>31, <1>32, <1>33 DEF DeProceso

(* The stacks after each step of a thread about a process.                  *)
LEMMA PilasDeProceso ==
    ASSUME pila \in [Hilos -> Seq(Tarea)], hiloBlock \in [Procs -> 0..MaxTimers],
           NEW h \in Hilos, NEW p \in Procs, DeProceso(h, p), ~New(h, p), ~NewTraer(h, p)
    PROVE  Pilas({p})
<1>1. \A o \in Ops \ (Creadoras \cup {"TIMER"}) : Nuevas(<<Por(o, p)>>, {p})
  BY PorNueva, NuevasUna
<1>2. {"EXECUTE", "ENVIAR", "READY"} \subseteq Ops \ (Creadoras \cup {"TIMER"})
  BY DEF Ops, Creadoras
<1>3. Nuevas(<<>>, {p})
  BY NuevasNada
<1>4. CASE CrearTimer(h, p)
  <2>1. PICK k, s, r : /\ k = Timer(p, hiloBlock[p] + 1)
                       /\ s = pila[h] /\ r = <<Por("TIMER", p)>>
    OBVIOUS
  <2>2. /\ hiloBlock' = [hiloBlock EXCEPT ![p] = hiloBlock[p] + 1]
        /\ hiloBlock[p] + 1 <= MaxTimers
        /\ pila' = [pila EXCEPT ![h] = Tail(@), ![k] = r]
        /\ s # <<>>
    BY <1>4, <2>1 DEF CrearTimer, Toca
  <2>3. hiloBlock[p] \in Nat /\ hiloBlock'[p] > 0
    BY <2>2, MaxTimersAssumption
  <2>4. /\ Por("TIMER", p) \in Tarea /\ Por("TIMER", p).op = "TIMER" /\ Por("TIMER", p).pid = p
    BY PorTarea DEF Ops
  <2>5. Nueva(Por("TIMER", p), {p})
    BY <2>3, <2>4 DEF Nueva, Creadoras
  <2>6. r \in Seq(Tarea) /\ \A t : Esta(t, r) => Nueva(t, {p})
    BY <2>1, <2>4, <2>5, EstaEnUna
  <2>7. s \in Seq(Tarea) /\ Tail(s) \in Seq(Tarea)
    BY <2>1, <2>2
  <2>8. pila' = [j \in Hilos |-> IF j = k THEN r ELSE IF j = h THEN Tail(s) ELSE pila[j]]
    BY <2>1, <2>2
  <2>9. pila' \in [Hilos -> Seq(Tarea)]
    BY <2>6, <2>7, <2>8
  <2>10. ASSUME NEW j \in Hilos
         PROVE  \/ pila'[j] = pila[j]
                \/ \A t : Esta(t, pila'[j]) => \/ pila[j] # <<>> /\ Esta(t, Tail(pila[j]))
                                              \/ Nueva(t, {p})
    <3>1. CASE j = k
      BY <2>6, <2>8, <3>1
    <3>2. CASE j # k /\ j = h
      BY <2>1, <2>2, <2>8, <3>2
    <3>3. CASE j # k /\ j # h
      BY <2>8, <3>3
    <3> QED
      BY <3>1, <3>2, <3>3
  <2> QED
    BY <2>9, <2>10 DEF Pilas
<1>5. CASE ~CrearTimer(h, p)
  <2>1. \E u : Nuevas(u, {p}) /\ Sigue(h, u)
    <3>1. CASE ReadyCpu(h, p)
      BY <1>1, <1>2, <1>3, <3>1 DEF ReadyCpu
    <3>2. CASE Execute(h, p)
      BY <1>1, <1>2, <3>2 DEF Execute
    <3>3. CASE Enviar(h, p)
      BY <1>1, <1>2, <1>3, <3>3 DEF Enviar
    <3>4. CASE Tranquilas(h, p)
      BY <3>4, TareasTranquilas
    <3> QED
      BY <1>5, <3>1, <3>2, <3>3, <3>4 DEF DeProceso, Tranquilas
  <2>2. \E o : Toca(h, o, p)
    BY DEF DeProceso, New, NewTraer, NewInit, NewFin, Ready, ReadyCpu, Execute, Enviar, Blocked,
           Bloquear, Join, CrearTimer, TimerArranca, TimerCancelado, TimerVence, TimerRevisa,
           Suspender, SuspenderMem, TimerCancela, TimerTermina, ReadySuspended,
           ReadySuspendedVer, Exit, ExitMem, Desbloqueo, EncolarIO, Dump, DumpOk, DumpFin,
           DumpError, DumpExit
  <2>3. pila[h] # <<>>
    BY <2>2 DEF Toca
  <2> QED
    BY <2>1, <2>3, PilasSigue
<1> QED
  BY <1>4, <1>5

(* Of a thread of the planner, which takes from the queues.                 *)
EnCola == { q \in Procs : \E c \in Colas : Esta(q, cola[c]) }

LEMMA ElegidoEnCola ==
    ASSUME cola \in [Colas -> Seq(Procs)], NEW c \in Colas, cola[c] # <<>>
    PROVE  Head(cola[c]) \in EnCola /\ Head(cola[c]) \in Procs
<1>1. cola[c] \in Seq(Procs)
  OBVIOUS
<1> QED
  BY <1>1, Cabeza DEF EnCola

LEMMA TareasDePlanificador ==
    ASSUME cola \in [Colas -> Seq(Procs)], NEW h \in Hilos, DePlanificador(h)
    PROVE  /\ pila[h] # <<>>
           /\ Head(pila[h]).op \notin Creadoras
           /\ \E u : Nuevas(u, EnCola) /\ Sigue(h, u) /\ (Desocupada(u) \/ MandarTomar(h))
<1>1. \A o \in Sueltas \ Ocupan : /\ Nuevas(<<Sola(o)>>, EnCola) /\ Desocupada(<<Sola(o)>>)
                                  /\ Nueva(Sola(o), EnCola) /\ Sola(o).op \notin Ocupan
  <2>1. EnCola \in SUBSET Procs
    BY DEF EnCola
  <2> QED
    BY <2>1, SolaNueva, NuevasUna
<1>2. Nuevas(<<>>, EnCola) /\ Desocupada(<<>>)
  BY NuevasNada
<1>3. ASSUME NEW c \in Colas, cola[c] # <<>>, NEW o \in {"READY", "EXECUTE"},
             NEW x \in Sueltas \ Ocupan
      PROVE  /\ Nuevas(<<Por(o, Head(cola[c])), Sola(x)>>, EnCola)
             /\ o = "READY" => Desocupada(<<Por(o, Head(cola[c])), Sola(x)>>)
  <2>1. Head(cola[c]) \in EnCola /\ EnCola \in SUBSET Procs
    BY <1>3, ElegidoEnCola DEF EnCola
  <2>2. o \in Ops \ (Creadoras \cup {"TIMER"})
    BY <1>3 DEF Ops, Creadoras
  <2>3. Nueva(Por(o, Head(cola[c])), EnCola) /\ Por(o, Head(cola[c])).op = o
    BY <2>1, <2>2, PorNueva
  <2>4. "READY" \notin Ocupan
    BY DEF Ocupan
  <2> QED
    BY <1>1, <2>3, <2>4, NuevasDos
<1>4. /\ {"TRAER_RS", "TRAER_NEW", "PEDIR_NEW", "MANDAR_VER", "MANDAR_TOMAR"} \subseteq Sueltas \ Ocupan
      /\ {"READY", "NEW", "READY_SUSPENDED"} \subseteq Colas
  BY DEF Sueltas, Ocupan, Colas
<1>5. ASSUME NEW o \in Sueltas \ Ocupan, Toca(h, o, Nadie)
      PROVE  pila[h] # <<>> /\ Head(pila[h]).op \notin Creadoras
  <2>1. Head(pila[h]).op = o /\ o \notin Creadoras
    BY <1>5 DEF Toca, Por, Sueltas, Creadoras
  <2> QED
    BY <1>5, <2>1 DEF Toca
<1>6. {"TRAER", "TRAER_RS", "TRAER_NEW", "PEDIR_NEW", "MANDAR", "MANDAR_VER", "MANDAR_TOMAR"}
        \subseteq Sueltas \ Ocupan
  BY DEF Sueltas, Ocupan
<1>7. CASE TraerEntra(h)
  BY <1>1, <1>4, <1>5, <1>6, <1>7 DEF TraerEntra
<1>8. CASE TraerRS(h)
  BY <1>1, <1>3, <1>4, <1>5, <1>6, <1>8 DEF TraerRS, Elegido
<1>9. CASE TraerVerNew(h)
  BY <1>1, <1>2, <1>4, <1>5, <1>6, <1>9 DEF TraerVerNew
<1>10. CASE TraerNew(h)
  BY <1>2, <1>3, <1>4, <1>5, <1>6, <1>10 DEF TraerNew, Elegido
<1>11. CASE MandarEntra(h)
  BY <1>1, <1>4, <1>5, <1>6, <1>11 DEF MandarEntra
<1>12. CASE MandarVer(h)
  BY <1>1, <1>2, <1>4, <1>5, <1>6, <1>12 DEF MandarVer
<1>13. CASE MandarTomar(h)
  BY <1>2, <1>3, <1>4, <1>5, <1>6, <1>13 DEF MandarTomar
<1> QED
  BY <1>7, <1>8, <1>9, <1>10, <1>11, <1>12, <1>13 DEF DePlanificador

LEMMA OtrosDePlanificador ==
    ASSUME OtrosTipos, NEW h \in Hilos, DePlanificador(h)
    PROVE  OtrosTipos'
<1> USE DEF planVars, cpuVars, guionVars, mutexVars, timerVars, memVars
<1>1. {"READY", "NEW", "READY_SUSPENDED"} \subseteq Colas
  BY DEF Colas
<1>2. \A c \in Colas : cola[c] # <<>> => Head(cola[c]) \in Procs
  BY ElegidoEnCola DEF OtrosTipos
<1>3. CASE TraerEntra(h)
  BY <1>3 DEF TraerEntra, OtrosTipos
<1>4. CASE TraerRS(h)
  <2>1. /\ bitmap' \in SUBSET Marco /\ marcos' \in [Procs -> SUBSET Marco]
        /\ residentes' \in SUBSET Procs /\ suspendidos' \in SUBSET Procs
    <3>1. \/ UNCHANGED memVars
          \/ /\ cola["READY_SUSPENDED"] # <<>> /\ Entra(Head(cola["READY_SUSPENDED"]))
             /\ MemDesuspender(Head(cola["READY_SUSPENDED"]))
      BY <1>4 DEF TraerRS, Elegido
    <3>2. CASE UNCHANGED memVars
      BY <3>2 DEF OtrosTipos
    <3> QED
      BY <1>1, <1>2, <3>1, <3>2, MemTipos
  <2> QED
    BY <1>4, <2>1 DEF TraerRS, OtrosTipos
<1>5. CASE TraerVerNew(h)
  BY <1>5 DEF TraerVerNew, OtrosTipos
<1>6. CASE TraerNew(h)
  <2>1. /\ bitmap' \in SUBSET Marco /\ marcos' \in [Procs -> SUBSET Marco]
        /\ residentes' \in SUBSET Procs /\ suspendidos' \in SUBSET Procs
    <3>1. \/ UNCHANGED memVars
          \/ /\ cola["NEW"] # <<>> /\ Entra(Head(cola["NEW"])) /\ MemInit(Head(cola["NEW"]))
      BY <1>6 DEF TraerNew, Elegido
    <3>2. CASE UNCHANGED memVars
      BY <3>2 DEF OtrosTipos
    <3> QED
      BY <1>1, <1>2, <3>1, <3>2, MemTipos
  <2> QED
    BY <1>6, <2>1 DEF TraerNew, OtrosTipos
<1>7. CASE MandarEntra(h)
  BY <1>7 DEF MandarEntra, OtrosTipos
<1>8. CASE MandarVer(h)
  BY <1>8 DEF MandarVer, OtrosTipos
<1>9. CASE MandarTomar(h)
  <2>1. cpuPid' \in [Cpus -> Procs \cup {Nadie}]
    <3>1. \/ cpuPid' = cpuPid
          \/ /\ cola["READY"] # <<>>
             /\ cpuPid' = [cpuPid EXCEPT ![Primera(CpusDisponibles)] = Head(cola["READY"])]
      BY <1>9 DEF MandarTomar
    <3> QED
      BY <1>1, <1>2, <3>1 DEF OtrosTipos
  <2> QED
    BY <1>9, <2>1 DEF MandarTomar, OtrosTipos
<1> QED
  BY <1>3, <1>4, <1>5, <1>6, <1>7, <1>8, <1>9 DEF DePlanificador

(* What a CPU runs.                                                         *)
LEMMA CorreTipo ==
    ASSUME OtrosTipos, NEW c \in Cpus, contexto[c] # <<>>
    PROVE  /\ Corre(c) \in [pid : Procs, pc : Nat] /\ PidDe(c) \in Procs /\ PcSiguiente(c) \in Nat
           /\ Esta(Corre(c), contexto[c])
           /\ Tail(contexto[c]) \in Seq([pid : Procs, pc : Nat])
           /\ Instruccion(c).pid \in Procs /\ Instruccion(c).op \in Syscalls \cup {"EXIT"}
<1>1. PICK C, s : C = [pid : Procs, pc : Nat] /\ s = contexto[c]
  OBVIOUS
<1>2. s \in Seq(C) /\ s # <<>>
  BY <1>1 DEF OtrosTipos
<1>3. Head(s) \in C /\ Esta(Head(s), s) /\ Tail(s) \in Seq(C)
  BY <1>2, Cabeza
<1>4. Corre(c) \in C /\ PidDe(c) \in Procs /\ Corre(c).pc \in Nat
  BY <1>1, <1>3 DEF Corre, PidDe
<1>5. PICK g : g = guion[PidDe(c)] /\ g \in Guion
  BY <1>4, GuionesAssumption DEF OtrosTipos
<1>6. \A i \in DOMAIN g : g[i].op \in Syscalls /\ g[i].pid \in Procs
  <2>1. PICK D : D = [op : Syscalls, pid : Procs]
    OBVIOUS
  <2>2. g \in Seq(D)
    BY <1>5, <2>1 DEF Guion
  <2>3. \A i \in DOMAIN g : g[i] \in D
    BY <2>2
  <2> QED
    BY <2>1, <2>3
<1>7. Instruccion(c).pid \in Procs /\ Instruccion(c).op \in Syscalls \cup {"EXIT"}
  <2>1. CASE Corre(c).pc < Len(g)
    <3>1. Corre(c).pc + 1 \in DOMAIN g
      BY <1>4, <1>5, <2>1 DEF Guion
    <3>2. Instruccion(c) = g[Corre(c).pc + 1]
      BY <1>5, <2>1 DEF Instruccion, PidDe
    <3> QED
      BY <1>6, <3>1, <3>2
  <2>2. CASE ~(Corre(c).pc < Len(g))
    <3>1. Instruccion(c) = Por("EXIT", PidDe(c))
      BY <1>5, <2>2 DEF Instruccion, PidDe
    <3> QED
      BY <1>4, <3>1 DEF Por
  <2> QED
    BY <2>1, <2>2
<1>8. Esta(Corre(c), contexto[c]) /\ Tail(contexto[c]) \in Seq(C)
  BY <1>1, <1>3 DEF Corre
<1>9. PcSiguiente(c) \in Nat
  BY <1>4 DEF PcSiguiente
<1> QED
  BY <1>1, <1>4, <1>7, <1>8, <1>9

(* The tasks a system call leaves to the thread that serves it.             *)
LEMMA TareasDeSyscall ==
    ASSUME NEW p \in Procs, NEW o \in (Syscalls \cup {"EXIT"}) \ {"INIT_PROC"}
    PROVE  /\ Nuevas(TareasDe(o, p), {p})
           /\ o # "EXIT" => Desocupada(TareasDe(o, p))
<1>1. \A x \in {"BLOCKED", "ENCOLAR_IO", "EXIT", "DUMP", "DUMP_FALLA"} :
          Nueva(Por(x, p), {p}) /\ Por(x, p).op \notin Ocupan
  <2>1. {"BLOCKED", "ENCOLAR_IO", "EXIT", "DUMP", "DUMP_FALLA"}
            \subseteq Ops \ (Creadoras \cup {"TIMER"} \cup Ocupan)
    BY DEF Ops, Creadoras, Ocupan
  <2> QED
    BY <2>1, PorNueva
<1>2. /\ Nueva(Sola("LIBERAR_CPU"), {p})
      /\ Nueva(Sola("MANDAR"), {p}) /\ Sola("MANDAR").op \notin Ocupan
  BY SolaNueva DEF Sueltas, Ocupan
<1>3. CASE o = "EXIT"
  <2>1. Nuevas(<<Por("EXIT", p), Sola("LIBERAR_CPU"), Sola("MANDAR")>>, {p})
    BY <1>1, <1>2, NuevasTres
  <2>2. Nuevas(<<Sola("LIBERAR_CPU"), Sola("MANDAR")>>, {p})
    BY <1>1, <1>2, NuevasDos
  <2>3. \/ TareasDe(o, p) = <<>> \o <<Sola("LIBERAR_CPU"), Sola("MANDAR")>>
        \/ TareasDe(o, p) = <<Por("EXIT", p)>> \o <<Sola("LIBERAR_CPU"), Sola("MANDAR")>>
    BY <1>3 DEF TareasDe
  <2>4. \/ TareasDe(o, p) = <<Sola("LIBERAR_CPU"), Sola("MANDAR")>>
        \/ TareasDe(o, p) = <<Por("EXIT", p), Sola("LIBERAR_CPU"), Sola("MANDAR")>>
    BY <2>3
  <2> QED
    BY <1>3, <2>1, <2>2, <2>4
<1>4. CASE o = "IO"
  <2>1. TareasDe(o, p) = <<Por("BLOCKED", p), Por("ENCOLAR_IO", p), Sola("MANDAR")>>
    BY <1>4 DEF TareasDe
  <2> QED
    BY <1>1, <1>2, <2>1, NuevasTres
<1>5. CASE o = "IO_FALLA"
  <2>1. TareasDe(o, p) = <<Por("BLOCKED", p), Por("EXIT", p), Sola("MANDAR")>>
    BY <1>5 DEF TareasDe
  <2> QED
    BY <1>1, <1>2, <2>1, NuevasTres
<1>6. CASE o \in {"DUMP", "DUMP_FALLA"}
  <2>1. TareasDe(o, p) = <<Por("BLOCKED", p), Sola("MANDAR"), Por(o, p)>>
    BY <1>6 DEF TareasDe
  <2> QED
    BY <1>1, <1>2, <1>6, <2>1, NuevasTres
<1> QED
  BY <1>3, <1>4, <1>5, <1>6 DEF Syscalls

(* The stack of a thread that was idle.                                     *)
LEMMA PilasDespierta ==
    ASSUME pila \in [Hilos -> Seq(Tarea)], NEW h \in Hilos, NEW P, NEW u, Nuevas(u, P),
           pila' = [pila EXCEPT ![h] = u]
    PROVE  /\ Pilas(P) /\ pila'[h] = u
           /\ \A k \in Hilos \ {h} : pila'[k] = pila[k]
<1>1. u \in Seq(Tarea) /\ \A t : Esta(t, u) => Nueva(t, P)
  BY DEF Nuevas
<1>2. pila' \in [Hilos -> Seq(Tarea)] /\ pila'[h] = u /\ \A k \in Hilos \ {h} : pila'[k] = pila[k]
  BY <1>1
<1> QED
  BY <1>1, <1>2 DEF Pilas

LEMMA HilosPropios ==
    /\ Main \in Hilos
    /\ \A c \in Cpus : Cpu(c) \in Hilos /\ Main # Cpu(c)
    /\ \A x \in Conexiones : Io(x) \in Hilos /\ Main # Io(x) /\ \A c \in Cpus : Io(x) # Cpu(c)
    /\ \A p \in Procs, k \in 1..MaxTimers : Timer(p, k) \in Hilos /\ Timer(p, k) \in Timers
<1>1. /\ \A c : Main # Cpu(c)
      /\ \A x : Main # Io(x) /\ \A c : Io(x) # Cpu(c)
  BY DEF Main, Cpu, Io
<1> QED
  BY <1>1 DEF Hilos, Timers

LEMMA OtrosDeCpu ==
    ASSUME OtrosTipos, NEW c \in Cpus, DeCpu(c)
    PROVE  OtrosTipos'
<1> USE DEF planVars, cpuVars, guionVars, mutexVars, timerVars, memVars
<1>1. CASE LiberarCpu(c)
  BY <1>1 DEF LiberarCpu, OtrosTipos
<1>2. PICK C : C = [pid : Procs, pc : Nat]
  OBVIOUS
<1>3. contexto \in [Cpus -> Seq(C)]
  BY <1>2 DEF OtrosTipos
<1>4. contexto[c] # <<>> =>
          /\ Corre(c) \in C /\ PcSiguiente(c) \in Nat /\ Tail(contexto[c]) \in Seq(C)
          /\ [Corre(c) EXCEPT !.pc = PcSiguiente(c)] \in C
  BY <1>2, CorreTipo
<1>5. caido' \in LeeEliminado(PidDe(c)) => caido' \in BOOLEAN
  BY DEF LeeEliminado
<1>6. CASE SyscallExit(c)
  <2>1. contexto' \in [Cpus -> Seq(C)]
    BY <1>3, <1>4, <1>6 DEF SyscallExit, Pide
  <2> QED
    BY <1>2, <1>5, <1>6, <2>1 DEF SyscallExit, Pide, OtrosTipos
<1>7. CASE SyscallBloqueante(c)
  <2>1. contexto' \in [Cpus -> Seq(C)] /\ PcSiguiente(c) \in Nat
    BY <1>3, <1>4, <1>7 DEF SyscallBloqueante, Pide
  <2> QED
    BY <1>2, <1>5, <1>7, <2>1 DEF SyscallBloqueante, Pide, OtrosTipos
<1>8. CASE SyscallInitProc(c)
  <2>1. contexto' \in [Cpus -> Seq(C)]
    <3>1. PICK x : x = [Corre(c) EXCEPT !.pc = PcSiguiente(c)]
      OBVIOUS
    <3>2. x \in C /\ Tail(contexto[c]) \in Seq(C)
      BY <1>4, <1>8, <3>1 DEF SyscallInitProc, Pide
    <3>3. <<x>> \o Tail(contexto[c]) \in Seq(C)
      BY <3>2
    <3>4. contexto' = [contexto EXCEPT ![c] = <<x>> \o Tail(@)]
      BY <1>8, <3>1 DEF SyscallInitProc
    <3> QED
      BY <1>3, <3>3, <3>4
  <2>2. estado' \in [Procs -> Estados]
    BY <1>8 DEF SyscallInitProc, OtrosTipos, Estados
  <2> QED
    BY <1>2, <1>5, <1>8, <2>1, <2>2 DEF SyscallInitProc, Pide, OtrosTipos
<1> QED
  BY <1>1, <1>6, <1>7, <1>8 DEF DeCpu

(* The stacks after a step of a CPU or of a device, and after the death of  *)
(* a timer.                                                                 *)
LEMMA PilasDeCpu ==
    ASSUME pila \in [Hilos -> Seq(Tarea)], OtrosTipos, NEW c \in Cpus,
           LiberarCpu(c) \/ SyscallExit(c) \/ SyscallBloqueante(c)
    PROVE  \E P \in SUBSET Procs : Pilas(P) /\ (LiberarCpu(c) \/ P = {PidDe(c)})
<1>1. Cpu(c) \in Hilos
  BY HilosPropios
<1>2. CASE LiberarCpu(c)
  <2>1. pila[Cpu(c)] # <<>> /\ Sigue(Cpu(c), <<>>)
    BY <1>2 DEF LiberarCpu, Toca
  <2>2. Nuevas(<<>>, {})
    BY NuevasNada
  <2>3. Pilas({})
    BY <1>1, <2>1, <2>2, PilasSigue
  <2> QED
    BY <1>2, <2>3
<1>3. CASE SyscallExit(c) \/ SyscallBloqueante(c)
  <2>1. PICK o \in (Syscalls \cup {"EXIT"}) \ {"INIT_PROC"} :
            /\ contexto[c] # <<>>
            /\ pila' = [pila EXCEPT ![Cpu(c)] = TareasDe(o, PidDe(c))]
    BY <1>3 DEF SyscallExit, SyscallBloqueante, Pide, Syscalls
  <2>2. PidDe(c) \in Procs
    BY <2>1, CorreTipo
  <2>3. Nuevas(TareasDe(o, PidDe(c)), {PidDe(c)})
    BY <2>2, TareasDeSyscall
  <2>4. Pilas({PidDe(c)})
    BY <1>1, <2>1, <2>3, PilasDespierta
  <2> QED
    BY <2>2, <2>4
<1> QED
  BY <1>2, <1>3

LEMMA PilasDeIO ==
    ASSUME pila \in [Hilos -> Seq(Tarea)], OtrosTipos, NEW x \in Conexiones, DesbloqueoIO(x)
    PROVE  \E p \in enIO : Pilas({p})
<1>1. Io(x) \in Hilos
  BY HilosPropios
<1>2. PICK p \in enIO : pila' = [pila EXCEPT ![Io(x)] =
                  IF estado[p] = "ELIMINADO" THEN <<>> ELSE <<Por("DESBLOQUEO", p)>>]
  BY DEF DesbloqueoIO
<1>3. Nueva(Por("DESBLOQUEO", p), {p})
  <2>1. {p} \in SUBSET Procs /\ p \in {p}
    BY DEF OtrosTipos
  <2>2. "DESBLOQUEO" \in Ops \ (Creadoras \cup {"TIMER"})
    BY DEF Ops, Creadoras
  <2> QED
    BY <2>1, <2>2, PorNueva
<1>4. Nuevas(<<>>, {p}) /\ Nuevas(<<Por("DESBLOQUEO", p)>>, {p})
  BY <1>3, NuevasNada, NuevasUna
<1>5. Pilas({p})
  BY <1>1, <1>2, <1>4, PilasDespierta
<1> QED
  BY <1>5

LEMMA PilasDeMuerto ==
    ASSUME pila \in [Hilos -> Seq(Tarea)], PasoMuere
    PROVE  Pilas({})
<1>1. PICK p \in Procs, k \in 1..MaxTimers : pila' = [pila EXCEPT ![Timer(p, k)] = <<>>]
  BY DEF PasoMuere, TimerMuere
<1>2. Timer(p, k) \in Hilos
  BY HilosPropios
<1> QED
  BY <1>1, <1>2, NuevasNada, PilasDespierta

(* A step that takes a process towards NEW.                                 *)
Crean(h, u) ==
    /\ pila' \in [Hilos -> Seq(Tarea)] /\ pila'[h] = u
    /\ \A k \in Hilos \ {h} : pila'[k] = pila[k]

LEMMA PilasDeNew ==
    ASSUME pila \in [Hilos -> Seq(Tarea)], NEW h \in Hilos, NEW p \in Procs, NEW o \in Ops,
           Sigue(h, <<Por(o, p)>>), pila[h] # <<>>
    PROVE  /\ Crean(h, <<Por(o, p)>> \o Tail(pila[h]))
           /\ \A t : Esta(t, pila'[h]) => t = Por(o, p) \/ Esta(t, Tail(pila[h]))
           /\ \A t : Esta(t, Tail(pila[h])) => Esta(t, pila[h])
<1>1. PICK s, u : s = pila[h] /\ u = <<Por(o, p)>>
  OBVIOUS
<1>2. s \in Seq(Tarea) /\ s # <<>> /\ u \in Seq(Tarea)
  <2>1. Por(o, p) \in Tarea
    BY PorTarea
  <2> QED
    BY <1>1, <2>1
<1>3. /\ u \o Tail(s) \in Seq(Tarea)
      /\ \A t : Esta(t, u \o Tail(s)) <=> Esta(t, u) \/ Esta(t, Tail(s))
      /\ \A t : Esta(t, Tail(s)) => Esta(t, s)
  BY <1>2, TrasLaPrimera
<1>4. pila' = [pila EXCEPT ![h] = u \o Tail(s)]
  BY <1>1 DEF Sigue
<1>5. Crean(h, u \o Tail(s))
  BY <1>3, <1>4 DEF Crean
<1>6. \A t : Esta(t, u) <=> t = Por(o, p)
  BY <1>1, EstaEnUna
<1>7. pila'[h] = u \o Tail(s)
  BY <1>5 DEF Crean
<1> QED
  BY <1>1, <1>3, <1>5, <1>6, <1>7

LEMMA TiposAlCrear ==
    ASSUME IInvTipos, OtrosTipos', pila' \in [Hilos -> Seq(Tarea)],
           \A k \in Hilos : \A t : Esta(t, pila'[k]) =>
               Esta(t, pila[k]) \/ (t.pid \in Procs /\ t.op # "TIMER"),
           UNCHANGED <<hiloBlock, hiloActivo>>
    PROVE  IInvTipos'
<1>1. TypeOK'
  <2>1. pila' \in [Hilos -> Seq(Tarea)] /\ OtrosTipos' => TypeOK'
    BY DEF TypeOK, OtrosTipos
  <2> QED
    BY <2>1
<1>2. TareasBien'
  BY DEF TareasBien, IInvTipos
<1>3. RelojesBien'
  BY DEF RelojesBien, IInvTipos
<1> QED
  BY <1>1, <1>2, <1>3 DEF IInvTipos

LEMMA TiposDeProceso ==
    ASSUME IInvTipos, NEW h \in Hilos, NEW p \in Procs, DeProceso(h, p)
    PROVE  IInvTipos'
<1>1. pila \in [Hilos -> Seq(Tarea)] /\ hiloBlock \in [Procs -> 0..MaxTimers] /\ OtrosTipos'
      /\ hiloActivo \in [Procs -> BOOLEAN]
  BY TiposJuntos, OtrosDeProceso DEF IInvTipos, OtrosTipos
<1>2. CASE New(h, p) \/ NewTraer(h, p)
  <2>1. PICK o \in {"NEW_TRAER", "NEW_INIT", "NEW_FIN"} :
            pila[h] # <<>> /\ Sigue(h, <<Por(o, p)>>)
    BY <1>2 DEF New, NewTraer, Toca
  <2>2. o \in Ops /\ o # "TIMER"
    BY <2>1 DEF Ops
  <2>3. /\ Crean(h, <<Por(o, p)>> \o Tail(pila[h]))
        /\ \A t : Esta(t, pila'[h]) => t = Por(o, p) \/ Esta(t, pila[h])
    BY <1>1, <2>1, <2>2, PilasDeNew
  <2>4. \A k \in Hilos : \A t : Esta(t, pila'[k]) =>
            Esta(t, pila[k]) \/ (t.pid \in Procs /\ t.op # "TIMER")
    <3>1. Por(o, p).pid \in Procs /\ Por(o, p).op # "TIMER"
      BY <2>2 DEF Por
    <3> QED
      BY <2>3, <3>1 DEF Crean
  <2>5. UNCHANGED <<hiloBlock, hiloActivo>>
    BY <1>2 DEF New, NewTraer, timerVars
  <2> QED
    BY <1>1, <2>3, <2>4, <2>5, TiposAlCrear DEF Crean
<1>3. CASE ~New(h, p) /\ ~NewTraer(h, p)
  <2>1. Pilas({p})
    BY <1>1, <1>3, PilasDeProceso
  <2>2. \A q \in Procs : /\ hiloBlock[q] > 0 => hiloBlock'[q] > 0
                         /\ hiloActivo'[q] => hiloActivo[q] \/ hiloBlock'[q] > 0
    <3>1. CASE CrearTimer(h, p)
      <4>1. hiloBlock' = [hiloBlock EXCEPT ![p] = hiloBlock[p] + 1] /\ hiloActivo' = hiloActivo
        BY <3>1 DEF CrearTimer
      <4>2. \A q \in Procs : hiloBlock[q] \in Nat
        BY <1>1, MaxTimersAssumption
      <4> QED
        BY <1>1, <4>1, <4>2
    <3>2. CASE TimerArranca(h, p)
      <4>1. hiloBlock' = hiloBlock /\ hiloActivo' = [hiloActivo EXCEPT ![p] = TRUE]
            /\ Toca(h, "TIMER", p)
        BY <3>2 DEF TimerArranca
      <4>2. PICK s : s = pila[h] /\ s \in Seq(Tarea) /\ s # <<>> /\ Head(s) = Por("TIMER", p)
        BY <1>1, <4>1 DEF Toca
      <4>3. Esta(Por("TIMER", p), pila[h])
        BY <4>2, Cabeza
      <4>4. hiloBlock[p] > 0
        BY <4>3 DEF IInvTipos, TareasBien, Por
      <4> QED
        BY <1>1, <4>1, <4>4
    <3>3. CASE TimerCancelado(h, p) \/ TimerTermina(h, p)
      BY <1>1, <3>3 DEF TimerCancelado, TimerTermina
    <3>4. CASE ~CrearTimer(h, p) /\ ~TimerArranca(h, p) /\ ~TimerCancelado(h, p)
                 /\ ~TimerTermina(h, p)
      <4>1. UNCHANGED <<hiloBlock, hiloActivo>>
        BY <1>3, <3>4
           DEF DeProceso, NewInit, NewFin, Ready, ReadyCpu, Execute, Enviar, Blocked, Bloquear,
               Join, Solo, otras, TimerVence, TimerRevisa, Suspender, SuspenderMem, TimerCancela,
               ReadySuspended, ReadySuspendedVer, Exit, ExitMem, Desbloqueo, EncolarIO, Dump,
               DumpOk, DumpFin, DumpError, DumpExit, timerVars
      <4> QED
        BY <4>1
    <3> QED
      BY <3>1, <3>2, <3>3, <3>4
  <2> QED
    BY <1>1, <2>1, <2>2, TiposSiguen
<1> QED
  BY <1>2, <1>3

LEMMA TiposPasoAPaso == IInvTipos /\ [Next]_vars => IInvTipos'
<1> SUFFICES ASSUME IInvTipos, [Next]_vars PROVE IInvTipos'
  OBVIOUS
<1>1. pila \in [Hilos -> Seq(Tarea)] /\ OtrosTipos /\ cola \in [Colas -> Seq(Procs)]
      /\ hiloActivo \in [Procs -> BOOLEAN]
  BY TiposJuntos DEF IInvTipos, OtrosTipos
<1>2. UNCHANGED <<hiloBlock, hiloActivo>> =>
          \A q \in Procs : /\ hiloBlock[q] > 0 => hiloBlock'[q] > 0
                           /\ hiloActivo'[q] => hiloActivo[q] \/ hiloBlock'[q] > 0
  OBVIOUS
<1>3. ASSUME NEW h \in Hilos, NEW p \in Procs, DeProceso(h, p) PROVE IInvTipos'
  BY <1>3, TiposDeProceso
<1>4. ASSUME NEW h \in Hilos, DePlanificador(h) PROVE IInvTipos'
  <2>1. PICK u : Nuevas(u, EnCola) /\ Sigue(h, u)
    BY <1>1, <1>4, TareasDePlanificador
  <2>2. Pilas(EnCola)
    BY <1>1, <1>4, <2>1, TareasDePlanificador, PilasSigue
  <2>3. UNCHANGED <<hiloBlock, hiloActivo>>
    BY <1>4 DEF DePlanificador, TraerEntra, TraerRS, TraerVerNew, TraerNew, MandarEntra, MandarVer,
                MandarTomar, timerVars
  <2>4. OtrosTipos' /\ EnCola \in SUBSET Procs
    BY <1>1, <1>4, OtrosDePlanificador DEF EnCola
  <2> QED
    BY <1>2, <2>2, <2>3, <2>4, TiposSiguen
<1>5. ASSUME NEW c \in Cpus, DeCpu(c) PROVE IInvTipos'
  <2>1. OtrosTipos'
    BY <1>1, <1>5, OtrosDeCpu
  <2>2. UNCHANGED <<hiloBlock, hiloActivo>>
    BY <1>5 DEF DeCpu, LiberarCpu, SyscallExit, SyscallBloqueante, SyscallInitProc, timerVars
  <2>3. CASE SyscallInitProc(c)
    <3>1. PICK q : /\ q = Instruccion(c).pid /\ contexto[c] # <<>>
                   /\ pila' = [pila EXCEPT ![Cpu(c)] = <<Por("NEW", q)>>]
      BY <2>3 DEF SyscallInitProc, Pide
    <3>2. q \in Procs
      BY <1>1, <3>1, CorreTipo
    <3>3. Por("NEW", q) \in Tarea /\ Por("NEW", q).op = "NEW" /\ Por("NEW", q).pid = q
      BY <3>2, PorTarea DEF Ops
    <3>4. PICK u : u = <<Por("NEW", q)>>
      OBVIOUS
    <3>8. u \in Seq(Tarea)
      <4>1. PICK t : t = Por("NEW", q) /\ t \in Tarea
        BY <3>3
      <4>2. u = <<t>>
        BY <3>4, <4>1
      <4> QED
        BY <4>1, <4>2
    <3>5. \A t : Esta(t, u) => t.pid \in Procs /\ t.op # "TIMER"
      BY <3>2, <3>3, <3>4, EstaEnUna
    <3>6. pila' \in [Hilos -> Seq(Tarea)]
          /\ \A k \in Hilos : pila'[k] = u \/ pila'[k] = pila[k]
      BY <1>1, <3>1, <3>4, <3>8
    <3>7. \A k \in Hilos : \A t : Esta(t, pila'[k]) =>
              Esta(t, pila[k]) \/ (t.pid \in Procs /\ t.op # "TIMER")
      BY <3>5, <3>6
    <3> QED
      BY <2>1, <2>2, <3>6, <3>7, TiposAlCrear
  <2>4. CASE ~SyscallInitProc(c)
    <3>1. PICK P \in SUBSET Procs : Pilas(P)
      BY <1>1, <1>5, <2>4, PilasDeCpu DEF DeCpu
    <3> QED
      BY <1>2, <2>1, <2>2, <3>1, TiposSiguen
  <2> QED
    BY <2>3, <2>4
<1>6. ASSUME NEW x \in Conexiones, DesbloqueoIO(x) PROVE IInvTipos'
  <2>1. PICK p \in enIO : Pilas({p})
    BY <1>1, <1>6, PilasDeIO
  <2>2. p \in Procs
    BY <1>1 DEF OtrosTipos
  <2>3. OtrosTipos' /\ UNCHANGED <<hiloBlock, hiloActivo>>
    BY <1>1, <1>6 DEF DesbloqueoIO, OtrosTipos, LeeEliminado, planVars, cpuVars, mutexVars,
                      timerVars, memVars
  <2> QED
    BY <1>2, <2>1, <2>2, <2>3, TiposSiguen
<1>7. CASE PasoMuere
  <2>1. Pilas({})
    BY <1>1, <1>7, PilasDeMuerto
  <2>2. PICK p \in Procs, k \in 1..MaxTimers : TimerMuere(p, k)
    BY <1>7 DEF PasoMuere
  <2>3. PICK s : s = pila[Timer(p, k)] /\ s \in Seq(Tarea) /\ s # <<>>
    BY <1>1, <2>2, HilosPropios DEF TimerMuere
  <2>4. EstadoDelPedido(Head(s)) \in SUBSET Procs
    <3>1. Esta(Head(s), s)
      BY <2>3, Cabeza
    <3>2. Head(s).pid \in Procs \/ Head(s).op \in Sueltas
      BY <2>3, <3>1, HilosPropios DEF IInvTipos, TareasBien
    <3> QED
      BY <3>2 DEF EstadoDelPedido, Sueltas
  <2>5. MutexDelPedido(Head(s).op) \in SUBSET {"mutex_memoria", "mutex_cpu"}
    BY DEF MutexDelPedido
  <2>6. /\ huerfanos' = huerfanos \cup MutexDelPedido(Head(s).op)
        /\ trabado' = (trabado \cup EstadoDelPedido(Head(s))) \ {p}
        /\ hiloActivo' = [hiloActivo EXCEPT ![p] = FALSE]
        /\ cancelado' = cancelado \ {Timer(p, k)}
        /\ UNCHANGED <<planVars, cpuVars, guionVars, mTraer, posible, hiloBlock, memVars, caido>>
    BY <2>2, <2>3 DEF TimerMuere
  <2>7. OtrosTipos'
    BY <1>1, <2>4, <2>5, <2>6 DEF OtrosTipos, planVars, cpuVars, guionVars, memVars
  <2>8. \A q \in Procs : /\ hiloBlock[q] > 0 => hiloBlock'[q] > 0
                         /\ hiloActivo'[q] => hiloActivo[q] \/ hiloBlock'[q] > 0
    BY <1>1, <2>6
  <2> QED
    BY <2>1, <2>7, <2>8, TiposSiguen
<1>8. CASE Reposo \/ UNCHANGED vars
  <2>1. UNCHANGED vars
    BY <1>8 DEF Reposo
  <2> QED
    BY <2>1 DEF IInvTipos, TypeOK, TareasBien, RelojesBien, vars, otras, planVars, cpuVars,
                guionVars, mutexVars, timerVars, memVars
<1> QED
  BY <1>3, <1>4, <1>5, <1>6, <1>7, <1>8 DEF Next, PasoHilo

LEMMA TiposAlEmpezar == Init => IInvTipos
<1> SUFFICES ASSUME Init PROVE IInvTipos
  OBVIOUS
<1>1. Por("NEW", Primero) \in Tarea /\ Por("NEW", Primero).op = "NEW"
      /\ Por("NEW", Primero).pid = Primero /\ Primero \in Procs
  BY PrimeroAssumption, PorTarea DEF Ops
<1>2. PICK u : u = <<Por("NEW", Primero)>>
  OBVIOUS
<1>9. u \in Seq(Tarea)
  <2>1. PICK t : t = Por("NEW", Primero) /\ t \in Tarea
    BY <1>1
  <2>2. u = <<t>>
    BY <1>2, <2>1
  <2> QED
    BY <2>1, <2>2
<1>3. pila = [h \in Hilos |-> IF h = Main THEN u ELSE <<>>]
  BY <1>2 DEF Init
<1>4. pila \in [Hilos -> Seq(Tarea)]
  BY <1>3, <1>9
<1>5. OtrosTipos
  <2>1. estado \in [Procs -> Estados] /\ cola \in [Colas -> Seq(Procs)]
    BY DEF Init, Estados
  <2>2. cpuPid \in [Cpus -> Procs \cup {Nadie}] /\ pc \in [Procs -> Nat] /\ guion \in Guiones
    BY DEF Init
  <2>3. contexto \in [Cpus -> Seq([pid : Procs, pc : Nat])]
    BY DEF Init
  <2>4. hiloBlock \in [Procs -> 0..MaxTimers]
    BY MaxTimersAssumption DEF Init
  <2>5. posible \in [Procs -> BOOLEAN] /\ hiloActivo \in [Procs -> BOOLEAN]
    BY DEF Init
  <2>6. /\ enIO = {} /\ mTraer = FALSE /\ huerfanos = {} /\ trabado = {} /\ cancelado = {}
        /\ bitmap = {} /\ residentes = {} /\ suspendidos = {} /\ caido = FALSE
        /\ marcos \in [Procs -> SUBSET Marco]
    BY DEF Init
  <2> QED
    BY <2>1, <2>2, <2>3, <2>4, <2>5, <2>6 DEF OtrosTipos
<1>6. \A h \in Hilos : \A t : Esta(t, pila[h]) => t = Por("NEW", Primero)
  BY <1>2, <1>3, EstaEnUna, EstaEnVacia
<1>7. TareasBien
  BY <1>1, <1>6 DEF TareasBien
<1>8. RelojesBien
  BY DEF Init, RelojesBien
<1> QED
  BY <1>4, <1>5, <1>7, <1>8, TiposJuntos DEF IInvTipos

(* The planner only has tasks it knows how to do, processes in its queues   *)
(* and frames there are in Memoria; a timer starts, and is cancelled, only  *)
(* after bloquearProceso has created it.                                    *)
THEOREM TiposDelKernel == Spec => []TypeOK
<1>1. IInvTipos => TypeOK
  BY DEF IInvTipos
<1> QED
  BY <1>1, TiposAlEmpezar, TiposPasoAPaso, PTL DEF Spec
-----------------------------------------------------------------------------
(* One CPU, which whoever sends it a process has reserved.                  *)
LaCpu == CHOOSE c \in Cpus : TRUE
SolaCpu == Cpus = {LaCpu}

(* A stack has one task of Ocupan at most.                                  *)
UnTurno(s) ==
    \A i, j \in DOMAIN s : s[i].op \in Ocupan /\ s[j].op \in Ocupan => i = j

(* One thread at most has the CPU, which is reserved and runs nothing, and  *)
(* the CPU is reserved while it runs.                                       *)
Turnos ==
    /\ \A k \in Hilos : UnTurno(pila[k])
    /\ \A k, l \in Hilos : ~Desocupada(pila[k]) /\ ~Desocupada(pila[l]) => k = l
CpuTomada ==
    /\ \A k \in Hilos : ~Desocupada(pila[k]) => contexto[LaCpu] = <<>> /\ cpuPid[LaCpu] # Nadie
    /\ Len(contexto[LaCpu]) <= 1
    /\ contexto[LaCpu] # <<>> => cpuPid[LaCpu] # Nadie

IInvCpu == IInvTipos /\ Turnos /\ CpuTomada

LEMMA LaPrimera ==
    ASSUME SolaCpu, NEW cs, LaCpu \in cs
    PROVE  Primera(cs) = LaCpu
<1> DEFINE lugares == { i \in DOMAIN OrdenCpus : OrdenCpus[i] \in cs }
<1>1. OrdenCpus \in Seq(Cpus) /\ Cpus = {LaCpu}
  BY OrdenAssumption DEF SolaCpu
<1>2. \A i \in DOMAIN OrdenCpus : OrdenCpus[i] = LaCpu
  BY <1>1
<1>3. lugares \in SUBSET Nat /\ lugares # {}
  <2>1. DOMAIN OrdenCpus \in SUBSET Nat
    BY <1>1
  <2>2. PICK i \in DOMAIN OrdenCpus : OrdenCpus[i] = LaCpu
    BY <1>1, OrdenAssumption
  <2> QED
    BY <2>1, <2>2
<1>4. PICK m \in lugares : \A j \in lugares : m <= j
  BY <1>3, MinimoNat
<1>5. PICK n : n = CHOOSE i \in DOMAIN OrdenCpus :
                      /\ OrdenCpus[i] \in cs
                      /\ \A j \in DOMAIN OrdenCpus : OrdenCpus[j] \in cs => i <= j
  OBVIOUS
<1>6. n \in DOMAIN OrdenCpus
  BY <1>4, <1>5
<1> QED
  BY <1>2, <1>5, <1>6 DEF Primera

LEMMA TurnoDeNada == UnTurno(<<>>)
BY DEF UnTurno

LEMMA TurnoDeUna == ASSUME NEW t PROVE UnTurno(<<t>>)
BY DEF UnTurno

LEMMA TurnoDesocupada == ASSUME NEW s, Desocupada(s) PROVE UnTurno(s)
BY DEF UnTurno, Desocupada, Esta

(* The turn of a stack whose first task is replaced.                        *)
LEMMA TurnoTras ==
    ASSUME NEW s \in Seq(Tarea), s # <<>>, UnTurno(s), NEW u \in Seq(Tarea), UnTurno(u)
    PROVE  /\ Desocupada(u) => UnTurno(u \o Tail(s))
           /\ Desocupada(Tail(s)) => UnTurno(u \o Tail(s))
           /\ Head(s).op \in Ocupan => Desocupada(Tail(s))
           /\ Desocupada(u) /\ Desocupada(Tail(s)) => Desocupada(u \o Tail(s))
           /\ Desocupada(s) => Desocupada(Tail(s))
<1>1. PICK r, w : r = Tail(s) /\ w = u \o r
  OBVIOUS
<1>2. r \in Seq(Tarea) /\ Len(s) \in Nat /\ DOMAIN s = 1..Len(s) /\ Len(r) = Len(s) - 1
      /\ DOMAIN r = 1..(Len(s) - 1)
  BY <1>1
<1>3. \A i \in DOMAIN r : r[i] = s[i + 1] /\ i + 1 \in DOMAIN s
  BY <1>1, <1>2
<1>4. /\ w \in Seq(Tarea) /\ DOMAIN w = 1..Len(u) + Len(r)
      /\ \A i \in 1..Len(u) + Len(r) : w[i] = IF i <= Len(u) THEN u[i] ELSE r[i - Len(u)]
  BY <1>1, <1>2, ConcatProperties
<1>5. Len(u) \in Nat /\ DOMAIN u = 1..Len(u) /\ Len(r) \in Nat
  BY <1>2
<1>6. UnTurno(r)
  <2> SUFFICES ASSUME NEW i \in DOMAIN r, NEW j \in DOMAIN r, r[i].op \in Ocupan, r[j].op \in Ocupan
               PROVE  i = j
    BY DEF UnTurno
  <2>1. i + 1 = j + 1
    BY <1>3 DEF UnTurno
  <2> QED
    BY <1>2, <2>1
<1>7. Desocupada(u) => \A i \in 1..Len(u) : u[i].op \notin Ocupan
  BY <1>5 DEF Desocupada, Esta
<1>8. Desocupada(r) => \A i \in DOMAIN r : r[i].op \notin Ocupan
  BY DEF Desocupada, Esta
<1>9. ASSUME Desocupada(u) PROVE UnTurno(w)
  <2> SUFFICES ASSUME NEW i \in DOMAIN w, NEW j \in DOMAIN w, w[i].op \in Ocupan, w[j].op \in Ocupan
               PROVE  i = j
    BY DEF UnTurno
  <2>1. ~(i <= Len(u)) /\ ~(j <= Len(u))
    BY <1>4, <1>5, <1>7, <1>9
  <2>2. i - Len(u) \in DOMAIN r /\ j - Len(u) \in DOMAIN r
    BY <1>2, <1>4, <1>5, <2>1
  <2>3. i - Len(u) = j - Len(u)
    BY <1>4, <1>6, <2>1, <2>2 DEF UnTurno
  <2> QED
    BY <1>4, <1>5, <2>3
<1>10. ASSUME Desocupada(r) PROVE UnTurno(w)
  <2> SUFFICES ASSUME NEW i \in DOMAIN w, NEW j \in DOMAIN w, w[i].op \in Ocupan, w[j].op \in Ocupan
               PROVE  i = j
    BY DEF UnTurno
  <2>1. ASSUME NEW n \in DOMAIN w, ~(n <= Len(u)) PROVE w[n].op \notin Ocupan
    <3>1. n - Len(u) \in DOMAIN r
      BY <1>2, <1>4, <1>5, <2>1
    <3>2. w[n] = r[n - Len(u)]
      BY <1>4, <2>1
    <3> QED
      BY <1>8, <1>10, <3>1, <3>2
  <2>3. i <= Len(u) /\ j <= Len(u)
    BY <2>1
  <2>4. i \in DOMAIN u /\ j \in DOMAIN u /\ w[i] = u[i] /\ w[j] = u[j]
    BY <1>4, <1>5, <2>3
  <2> QED
    BY <2>4 DEF UnTurno
<1>11. ASSUME Head(s).op \in Ocupan PROVE Desocupada(r)
  <2>1. 1 \in DOMAIN s /\ s[1].op \in Ocupan
    BY <1>2, <1>11
  <2>2. \A i \in DOMAIN r : i + 1 # 1
    BY <1>2
  <2>3. \A i \in DOMAIN r : r[i].op \notin Ocupan
    BY <1>3, <2>1, <2>2 DEF UnTurno
  <2> QED
    BY <2>3 DEF Desocupada, Esta
<1>12. \A t : Esta(t, w) <=> Esta(t, u) \/ Esta(t, r)
  BY <1>1, <1>2, EstaEnJuntas
<1>13. \A t : Esta(t, r) => Esta(t, s)
  BY <1>1, TrasLaPrimera
<1> QED
  BY <1>1, <1>9, <1>10, <1>11, <1>12, <1>13 DEF Desocupada

(* Threads that go on with tasks that are not about the CPU.                *)
SigueDesocupado ==
    /\ \A k \in Hilos : UnTurno(pila'[k])
    /\ \A k \in Hilos : Desocupada(pila[k]) => Desocupada(pila'[k])

LEMMA CpuSigue ==
    ASSUME IInvCpu, IInvTipos', SigueDesocupado,
           cpuPid' = cpuPid, Len(contexto'[LaCpu]) <= 1,
           contexto[LaCpu] = <<>> <=> contexto'[LaCpu] = <<>>
    PROVE  IInvCpu'
<1>1. Turnos'
  BY DEF IInvCpu, Turnos, SigueDesocupado
<1>2. CpuTomada'
  BY DEF IInvCpu, CpuTomada, SigueDesocupado
<1> QED
  BY <1>1, <1>2 DEF IInvCpu

LEMMA SigueSinTurno ==
    ASSUME IInvCpu, NEW h \in Hilos, pila[h] # <<>>, NEW u \in Seq(Tarea), Desocupada(u),
           Sigue(h, u)
    PROVE  SigueDesocupado
<1>1. PICK s, r : s = pila[h] /\ r = u \o Tail(s)
  OBVIOUS
<1>2. pila \in [Hilos -> Seq(Tarea)] /\ UnTurno(pila[h]) /\ UnTurno(u)
  BY TurnoDesocupada DEF IInvCpu, IInvTipos, TypeOK, Turnos
<1>3. UnTurno(r) /\ (Desocupada(s) => Desocupada(r))
  BY <1>1, <1>2, TurnoTras
<1>4. pila' = [pila EXCEPT ![h] = r]
  BY <1>1 DEF Sigue
<1> QED
  BY <1>1, <1>2, <1>3, <1>4 DEF SigueDesocupado, IInvCpu, Turnos

(* A thread that has the CPU goes on with u; no other has.                  *)
LEMMA SigueConTurno ==
    ASSUME IInvCpu, NEW h \in Hilos, pila[h] # <<>>, NEW u \in Seq(Tarea), UnTurno(u),
           Sigue(h, u), Head(pila[h]).op \in Ocupan \/ \A k \in Hilos : Desocupada(pila[k])
    PROVE  /\ \A k \in Hilos : UnTurno(pila'[k])
           /\ \A k \in Hilos \ {h} : Desocupada(pila'[k])
           /\ Desocupada(u) => Desocupada(pila'[h])
<1>1. PICK s, r : s = pila[h] /\ r = u \o Tail(s)
  OBVIOUS
<1>2. pila \in [Hilos -> Seq(Tarea)] /\ UnTurno(pila[h])
  BY DEF IInvCpu, IInvTipos, TypeOK, Turnos
<1>3. Desocupada(Tail(s))
  BY <1>1, <1>2, TurnoTras
<1>4. UnTurno(r) /\ (Desocupada(u) => Desocupada(r))
  BY <1>1, <1>2, <1>3, TurnoTras
<1>5. pila' = [pila EXCEPT ![h] = r]
  BY <1>1 DEF Sigue
<1>6. \A k \in Hilos \ {h} : Desocupada(pila[k])
  <2>1. CASE Head(pila[h]).op \in Ocupan
    <3>1. ~Desocupada(pila[h])
      BY <1>2, <2>1, Cabeza DEF Desocupada
    <3> QED
      BY <3>1 DEF IInvCpu, Turnos
  <2> QED
    BY <2>1
<1> QED
  BY <1>2, <1>4, <1>5, <1>6 DEF IInvCpu, Turnos

(* The thread takes the CPU, or keeps it, before it sends the context.      *)
LEMMA CpuConTurno ==
    ASSUME IInvCpu, IInvTipos', NEW h \in Hilos, \A k \in Hilos : UnTurno(pila'[k]),
           \A k \in Hilos \ {h} : Desocupada(pila'[k]),
           contexto'[LaCpu] = <<>>, ~Desocupada(pila'[h]) => cpuPid'[LaCpu] # Nadie
    PROVE  IInvCpu'
<1>1. Turnos'
  BY DEF Turnos
<1>2. Len(contexto'[LaCpu]) <= 1
  OBVIOUS
<1>3. CpuTomada'
  BY <1>2 DEF CpuTomada
<1> QED
  BY <1>1, <1>3 DEF IInvCpu

LEMMA CpuDeProceso ==
    ASSUME IInvCpu, SolaCpu, IInvTipos', NEW h \in Hilos, NEW p \in Procs, DeProceso(h, p)
    PROVE  IInvCpu'
<1>1. /\ pila \in [Hilos -> Seq(Tarea)] /\ hiloBlock \in [Procs -> 0..MaxTimers]
      /\ cpuPid \in [Cpus -> Procs \cup {Nadie}]
      /\ contexto \in [Cpus -> Seq([pid : Procs, pc : Nat])] /\ LaCpu \in Cpus
  BY DEF IInvCpu, IInvTipos, TypeOK, SolaCpu
<1>2. ASSUME NEW o, Toca(h, o, p)
      PROVE  pila[h] # <<>> /\ Head(pila[h]).op = o
  BY <1>2 DEF Toca, Por
<1>3. ASSUME NEW o \in Ops
      PROVE  <<Por(o, p)>> \in Seq(Tarea) /\ (o \notin Ocupan => Desocupada(<<Por(o, p)>>))
  <2>1. PICK t : t = Por(o, p) /\ t \in Tarea /\ t.op = o
    BY PorTarea
  <2> QED
    BY <2>1, EstaEnUna DEF Desocupada
<1>4. <<>> \in Seq(Tarea) /\ Desocupada(<<>>)
  BY EstaEnVacia DEF Desocupada
<1>5. /\ {"NEW_TRAER", "NEW_INIT", "NEW_FIN", "READY", "TIMER"} \subseteq Ops \ Ocupan
      /\ {"EXECUTE", "ENVIAR"} \subseteq Ops \cap Ocupan
  BY DEF Ops, Ocupan
<1>6. ASSUME SigueDesocupado, UNCHANGED <<cpuPid, contexto>>
      PROVE  IInvCpu'
  BY <1>6, CpuSigue DEF IInvCpu, CpuTomada
<1>7. CASE New(h, p)
  <2>1. Sigue(h, <<Por("NEW_TRAER", p)>>) /\ pila[h] # <<>> /\ UNCHANGED <<cpuPid, contexto>>
    BY <1>2, <1>7 DEF New, cpuVars
  <2>2. SigueDesocupado
    BY <1>3, <1>5, <2>1, SigueSinTurno
  <2> QED
    BY <1>6, <2>1, <2>2
<1>8. CASE NewTraer(h, p)
  <2>1. PICK o \in {"NEW_INIT", "NEW_FIN"} :
            Sigue(h, <<Por(o, p)>>) /\ pila[h] # <<>> /\ UNCHANGED <<cpuPid, contexto>>
    BY <1>2, <1>8 DEF NewTraer, cpuVars
  <2>2. SigueDesocupado
    BY <1>3, <1>5, <2>1, SigueSinTurno
  <2> QED
    BY <1>6, <2>1, <2>2
<1>9. CASE CrearTimer(h, p)
  <2>1. PICK k, s, r : /\ k = Timer(p, hiloBlock[p] + 1)
                       /\ s = pila[h] /\ r = <<Por("TIMER", p)>>
    OBVIOUS
  <2>2. /\ pila' = [pila EXCEPT ![h] = Tail(@), ![k] = r]
        /\ s # <<>> /\ UNCHANGED <<cpuPid, contexto>>
    BY <1>9, <2>1 DEF CrearTimer, Toca, cpuVars
  <2>3. r \in Seq(Tarea) /\ Desocupada(r) /\ UnTurno(r)
    BY <1>3, <1>5, <2>1, TurnoDeUna
  <2>4. s \in Seq(Tarea) /\ UnTurno(s)
    BY <1>1, <2>1 DEF IInvCpu, Turnos
  <2>5. UnTurno(Tail(s)) /\ (Desocupada(s) => Desocupada(Tail(s)))
    <3>4. Tail(s) \in Seq(Tarea)
      BY <1>4, <2>2, <2>4, TrasLaPrimera
    <3>1. PICK v : v = Tail(s) /\ v \in Seq(Tarea)
      BY <3>4
    <3>2. UnTurno(<<>> \o Tail(s)) /\ (Desocupada(s) => Desocupada(Tail(s)))
      BY <1>4, <2>2, <2>4, TurnoDeNada, TurnoTras
    <3>3. <<>> \o v = v
      BY <3>1
    <3> QED
      BY <3>1, <3>2, <3>3
  <2>6. pila' = [j \in Hilos |-> IF j = k THEN r ELSE IF j = h THEN Tail(s) ELSE pila[j]]
    BY <1>1, <2>1, <2>2
  <2>7. SigueDesocupado
    BY <2>1, <2>3, <2>5, <2>6 DEF SigueDesocupado, IInvCpu, Turnos
  <2> QED
    BY <1>6, <2>2, <2>7
<1>10. CASE Tranquilas(h, p)
  <2>1. PICK u : u \in Seq(Tarea) /\ Desocupada(u) /\ Sigue(h, u)
    BY <1>10, TareasTranquilas DEF Nuevas
  <2>2. /\ UNCHANGED cpuVars
        /\ \E o : Toca(h, o, p)
    BY <1>10
       DEF Tranquilas, NewInit, NewFin, Ready, Blocked, Bloquear, Join, TimerArranca,
           TimerCancelado, TimerVence, TimerRevisa, Suspender, SuspenderMem, TimerCancela,
           TimerTermina, ReadySuspended, ReadySuspendedVer, Exit, ExitMem, Desbloqueo,
           EncolarIO, Dump, DumpOk, DumpFin, DumpError, DumpExit, Solo, otras
  <2>3. SigueDesocupado
    BY <1>2, <2>1, <2>2, SigueSinTurno
  <2> QED
    BY <1>6, <2>2, <2>3 DEF cpuVars
<1>11. CASE ReadyCpu(h, p)
  <2>1. pila[h] # <<>> /\ contexto' = contexto
    BY <1>2, <1>11 DEF ReadyCpu
  <2>2. CASE CpusDisponibles # {}
    <3>1. LaCpu \in CpusDisponibles /\ cpuPid[LaCpu] = Nadie
      BY <2>2 DEF CpusDisponibles, SolaCpu
    <3>2. contexto[LaCpu] = <<>> /\ \A k \in Hilos : Desocupada(pila[k])
      BY <3>1 DEF IInvCpu, CpuTomada
    <3>3. cpuPid' = [cpuPid EXCEPT ![LaCpu] = p] /\ Sigue(h, <<Por("EXECUTE", p)>>)
      BY <1>11, <2>2, <3>1, LaPrimera DEF ReadyCpu
    <3>4. UnTurno(<<Por("EXECUTE", p)>>) /\ <<Por("EXECUTE", p)>> \in Seq(Tarea)
      BY <1>3, <1>5, TurnoDeUna
    <3>5. /\ \A k \in Hilos : UnTurno(pila'[k])
          /\ \A k \in Hilos \ {h} : Desocupada(pila'[k])
      BY <2>1, <3>2, <3>3, <3>4, SigueConTurno
    <3>6. cpuPid'[LaCpu] # Nadie
      BY <1>1, <3>3, NadieAssumption
    <3> QED
      BY <2>1, <3>2, <3>5, <3>6, CpuConTurno
  <2>3. CASE CpusDisponibles = {}
    <3>1. Sigue(h, <<>>) /\ UNCHANGED <<cpuPid, contexto>>
      BY <1>11, <2>3 DEF ReadyCpu
    <3> QED
      BY <1>4, <1>6, <2>1, <3>1, SigueSinTurno
  <2> QED
    BY <2>2, <2>3
<1>12. CASE Execute(h, p)
  <2>1. /\ pila[h] # <<>> /\ Head(pila[h]).op \in Ocupan
        /\ Sigue(h, <<Por("ENVIAR", p)>>) /\ UNCHANGED <<cpuPid, contexto>>
    BY <1>2, <1>5, <1>12 DEF Execute, cpuVars
  <2>2. contexto[LaCpu] = <<>> /\ cpuPid[LaCpu] # Nadie
    <3>1. ~Desocupada(pila[h])
      BY <1>1, <2>1, Cabeza DEF Desocupada
    <3> QED
      BY <3>1 DEF IInvCpu, CpuTomada
  <2>3. UnTurno(<<Por("ENVIAR", p)>>) /\ <<Por("ENVIAR", p)>> \in Seq(Tarea)
    BY <1>3, <1>5, TurnoDeUna
  <2>4. /\ \A k \in Hilos : UnTurno(pila'[k])
        /\ \A k \in Hilos \ {h} : Desocupada(pila'[k])
    BY <2>1, <2>3, SigueConTurno
  <2> QED
    BY <2>1, <2>2, <2>4, CpuConTurno
<1>13. CASE Enviar(h, p)
  <2>1. pila[h] # <<>> /\ Head(pila[h]).op \in Ocupan /\ cpuPid' = cpuPid
    BY <1>2, <1>5, <1>13 DEF Enviar
  <2>2. contexto[LaCpu] = <<>> /\ cpuPid[LaCpu] # Nadie
    <3>1. ~Desocupada(pila[h])
      BY <1>1, <2>1, Cabeza DEF Desocupada
    <3> QED
      BY <3>1 DEF IInvCpu, CpuTomada
  <2>3. PICK u \in {<<>>, <<Por("READY", p)>>} : Sigue(h, u)
    BY <1>13 DEF Enviar
  <2>4. u \in Seq(Tarea) /\ Desocupada(u)
    BY <1>3, <1>4, <1>5
  <2>5. /\ \A k \in Hilos : UnTurno(pila'[k])
        /\ \A k \in Hilos : Desocupada(pila'[k])
    BY <2>1, <2>3, <2>4, SigueConTurno, TurnoDesocupada
  <2>6. Len(contexto'[LaCpu]) <= 1
    <3>1. CASE CpusDe(p) # {}
      <4>1. LaCpu \in CpusDe(p)
        BY <3>1 DEF CpusDe, SolaCpu
      <4>2. contexto' = [contexto EXCEPT ![LaCpu] = Append(@, [pid |-> p, pc |-> pc[p]])]
        BY <1>13, <3>1, <4>1, LaPrimera DEF Enviar
      <4>3. contexto'[LaCpu] = Append(<<>>, [pid |-> p, pc |-> pc[p]])
        BY <1>1, <2>2, <4>2
      <4> QED
        BY <4>3
    <3>2. CASE CpusDe(p) = {}
      BY <1>13, <2>2, <3>2 DEF Enviar
    <3> QED
      BY <3>1, <3>2
  <2>7. Turnos'
    BY <2>5 DEF Turnos
  <2>8. CpuTomada'
    BY <2>1, <2>2, <2>5, <2>6 DEF CpuTomada
  <2> QED
    BY <2>7, <2>8 DEF IInvCpu
<1> QED
  BY <1>7, <1>8, <1>9, <1>10, <1>11, <1>12, <1>13 DEF DeProceso, Tranquilas

LEMMA CpuDePlanificador ==
    ASSUME IInvCpu, SolaCpu, IInvTipos', NEW h \in Hilos, DePlanificador(h)
    PROVE  IInvCpu'
<1>1. /\ cola \in [Colas -> Seq(Procs)] /\ cpuPid \in [Cpus -> Procs \cup {Nadie}]
      /\ "READY" \in Colas /\ LaCpu \in Cpus
  BY DEF IInvCpu, IInvTipos, TypeOK, SolaCpu, Colas
<1>2. PICK u : Nuevas(u, EnCola) /\ Sigue(h, u) /\ (Desocupada(u) \/ MandarTomar(h))
  BY <1>1, TareasDePlanificador
<1>3. pila[h] # <<>> /\ u \in Seq(Tarea) /\ contexto' = contexto
  <2>1. contexto' = contexto
    BY DEF DePlanificador, TraerEntra, TraerRS, TraerVerNew, TraerNew, MandarEntra, MandarVer,
           MandarTomar, cpuVars
  <2> QED
    BY <1>1, <1>2, <2>1, TareasDePlanificador DEF Nuevas
<1>4. CASE cpuPid' = cpuPid /\ Desocupada(u)
  <2>1. SigueDesocupado
    BY <1>2, <1>3, <1>4, SigueSinTurno
  <2> QED
    BY <1>3, <1>4, <2>1, CpuSigue DEF IInvCpu, CpuTomada
<1>5. CASE MandarTomar(h) /\ CpusDisponibles # {} /\ cola["READY"] # <<>>
  <2>1. LaCpu \in CpusDisponibles /\ cpuPid[LaCpu] = Nadie
    BY <1>5 DEF CpusDisponibles, SolaCpu
  <2>2. contexto[LaCpu] = <<>> /\ \A k \in Hilos : Desocupada(pila[k])
    BY <2>1 DEF IInvCpu, CpuTomada
  <2>3. PICK p, t, x : p = Head(cola["READY"]) /\ t = Por("EXECUTE", p) /\ x = Sola("MANDAR_VER")
    OBVIOUS
  <2>4. cpuPid' = [cpuPid EXCEPT ![LaCpu] = p] /\ Sigue(h, <<t, x>>)
    BY <1>5, <2>1, <2>3, LaPrimera DEF MandarTomar
  <2>5. p \in Procs
    BY <1>1, <1>5, <2>3, ElegidoEnCola
  <2>6. t \in Tarea /\ x \in Tarea /\ x.op \notin Ocupan
    BY <2>3, <2>5, PorTarea, SolaTarea DEF Ops, Sueltas, Ocupan
  <2>7. <<t, x>> \in Seq(Tarea) /\ UnTurno(<<t, x>>)
    <3>1. \A i, j \in {1, 2} : <<t, x>>[i].op \in Ocupan /\ <<t, x>>[j].op \in Ocupan => i = j
      BY <2>6
    <3>2. DOMAIN <<t, x>> = {1, 2}
      OBVIOUS
    <3> QED
      BY <2>6, <3>1, <3>2 DEF UnTurno
  <2>8. /\ \A k \in Hilos : UnTurno(pila'[k])
        /\ \A k \in Hilos \ {h} : Desocupada(pila'[k])
    BY <1>3, <2>2, <2>4, <2>7, SigueConTurno
  <2>9. cpuPid'[LaCpu] # Nadie
    BY <1>1, <2>4, <2>5, NadieAssumption
  <2> QED
    BY <1>3, <2>2, <2>8, <2>9, CpuConTurno
<1>6. ASSUME ~(MandarTomar(h) /\ CpusDisponibles # {} /\ cola["READY"] # <<>>)
      PROVE  cpuPid' = cpuPid /\ (Desocupada(u) \/ Sigue(h, <<>>))
  <2>1. CASE MandarTomar(h)
    BY <1>6, <2>1 DEF MandarTomar
  <2>2. CASE ~MandarTomar(h)
    BY <1>2, <2>2 DEF DePlanificador, TraerEntra, TraerRS, TraerVerNew, TraerNew, MandarEntra,
                      MandarVer, cpuVars
  <2> QED
    BY <2>1, <2>2
<1>7. CASE cpuPid' = cpuPid /\ Sigue(h, <<>>)
  <2>1. <<>> \in Seq(Tarea) /\ Desocupada(<<>>)
    BY EstaEnVacia DEF Desocupada
  <2>2. SigueDesocupado
    BY <1>3, <1>7, <2>1, SigueSinTurno
  <2> QED
    BY <1>3, <1>7, <2>2, CpuSigue DEF IInvCpu, CpuTomada
<1> QED
  BY <1>4, <1>5, <1>6, <1>7

LEMMA SinCola ==
    ASSUME NEW S, NEW s \in Seq(S), s # <<>>, Len(s) <= 1
    PROVE  Tail(s) = <<>>
<1>3. Len(s) \in Nat \ {0}
  BY EmptySeq
<1>1. Len(s) \in Nat /\ Len(s) = 1
  BY <1>3
<1>2. Tail(s) \in Seq(S) /\ Len(Tail(s)) = 0
  BY <1>1
<1> QED
  BY <1>2, EmptySeq

(* The handler of the CPU itself: nobody else has it while it runs.         *)
LEMMA CpuDeCpu ==
    ASSUME IInvCpu, SolaCpu, IInvTipos', NEW c \in Cpus, DeCpu(c)
    PROVE  IInvCpu'
<1>1. /\ c = LaCpu /\ Cpu(c) \in Hilos /\ pila \in [Hilos -> Seq(Tarea)] /\ OtrosTipos
      /\ contexto \in [Cpus -> Seq([pid : Procs, pc : Nat])] /\ pila' \in [Hilos -> Seq(Tarea)]
      /\ cpuPid \in [Cpus -> Procs \cup {Nadie}]
  BY HilosPropios, TiposJuntos DEF IInvCpu, IInvTipos, TypeOK, SolaCpu
<1>2. ASSUME contexto[c] # <<>>
      PROVE  /\ cpuPid[c] # Nadie
             /\ \A k \in Hilos : Desocupada(pila[k])
             /\ Tail(contexto[c]) = <<>>
             /\ PidDe(c) \in Procs
  <2>1. PICK s : s = contexto[c] /\ s \in Seq([pid : Procs, pc : Nat])
    BY <1>1
  <2>2. Len(s) <= 1
    BY <1>1, <1>2, <2>1 DEF IInvCpu, CpuTomada
  <2>3. Tail(s) = <<>>
    BY <1>2, <2>1, <2>2, SinCola
  <2> QED
    BY <1>1, <1>2, <2>1, <2>3, CorreTipo DEF IInvCpu, CpuTomada
<1>3. CASE LiberarCpu(c)
  <2>1. pila[Cpu(c)] # <<>> /\ Head(pila[Cpu(c)]).op \in Ocupan
    BY <1>3 DEF LiberarCpu, Toca, Por, Ocupan
  <2>2. contexto[LaCpu] = <<>>
    <3>1. ~Desocupada(pila[Cpu(c)])
      BY <1>1, <2>1, Cabeza DEF Desocupada
    <3> QED
      BY <1>1, <3>1 DEF IInvCpu, CpuTomada
  <2>3. <<>> \in Seq(Tarea) /\ Desocupada(<<>>) /\ UnTurno(<<>>)
    BY EstaEnVacia, TurnoDeNada DEF Desocupada
  <2>4. Sigue(Cpu(c), <<>>) /\ contexto' = contexto
    BY <1>3 DEF LiberarCpu
  <2>5. /\ \A k \in Hilos : UnTurno(pila'[k])
        /\ \A k \in Hilos \ {Cpu(c)} : Desocupada(pila'[k])
        /\ Desocupada(pila'[Cpu(c)])
    BY <1>1, <2>1, <2>3, <2>4, SigueConTurno
  <2> QED
    BY <1>1, <2>2, <2>4, <2>5, CpuConTurno
<1>4. CASE SyscallExit(c)
  <2>1. PICK p, u : p = PidDe(c) /\ u = TareasDe("EXIT", p)
    OBVIOUS
  <2>2. /\ contexto[c] # <<>> /\ cpuPid' = cpuPid
        /\ pila' = [pila EXCEPT ![Cpu(c)] = u]
        /\ contexto' = [contexto EXCEPT ![c] = Tail(@)]
    BY <1>4, <2>1 DEF SyscallExit, Pide
  <2>3. UnTurno(u)
    <3>1. PICK e, l, m : e = Por("EXIT", p) /\ l = Sola("LIBERAR_CPU") /\ m = Sola("MANDAR")
      OBVIOUS
    <3>2. e.op \notin Ocupan /\ m.op \notin Ocupan
      BY <3>1 DEF Por, Sola, Ocupan
    <3>3. u = <<>> \o <<l, m>> \/ u = <<e>> \o <<l, m>>
      BY <2>1, <3>1 DEF TareasDe
    <3>4. u = <<l, m>> \/ u = <<e, l, m>>
      BY <3>3
    <3>5. CASE u = <<l, m>>
      <4>1. DOMAIN u = {1, 2} /\ u[2] = m
        BY <3>5
      <4> QED
        BY <3>2, <4>1 DEF UnTurno
    <3>6. CASE u = <<e, l, m>>
      <4>1. DOMAIN u = {1, 2, 3} /\ u[1] = e /\ u[3] = m
        BY <3>6
      <4> QED
        BY <3>2, <4>1 DEF UnTurno
    <3> QED
      BY <3>4, <3>5, <3>6
  <2>4. /\ \A k \in Hilos : UnTurno(pila'[k])
        /\ \A k \in Hilos \ {Cpu(c)} : Desocupada(pila'[k])
    BY <1>1, <1>2, <2>2, <2>3 DEF IInvCpu, Turnos
  <2>5. contexto'[LaCpu] = <<>>
    BY <1>1, <1>2, <2>2
  <2> QED
    BY <1>1, <1>2, <2>2, <2>4, <2>5, CpuConTurno
<1>5. CASE SyscallBloqueante(c)
  <2>1. PICK p, o : p = PidDe(c) /\ o = Instruccion(c).op
    OBVIOUS
  <2>2. /\ contexto[c] # <<>> /\ o \in Syscalls \ {"INIT_PROC"}
        /\ pila' = [pila EXCEPT ![Cpu(c)] = TareasDe(o, p)]
        /\ contexto' = [contexto EXCEPT ![c] = Tail(@)]
    BY <1>5, <2>1 DEF SyscallBloqueante, Pide
  <2>3. Desocupada(TareasDe(o, p)) /\ UnTurno(TareasDe(o, p))
    BY <1>2, <2>1, <2>2, TareasDeSyscall, TurnoDesocupada DEF Syscalls
  <2>4. /\ \A k \in Hilos : UnTurno(pila'[k])
        /\ \A k \in Hilos : Desocupada(pila'[k])
    BY <1>1, <1>2, <2>2, <2>3 DEF IInvCpu, Turnos
  <2>5. contexto'[LaCpu] = <<>>
    BY <1>1, <1>2, <2>2
  <2> QED
    BY <1>1, <2>4, <2>5, CpuConTurno
<1>6. CASE SyscallInitProc(c)
  <2>1. PICK u : u = <<Por("NEW", Instruccion(c).pid)>>
    OBVIOUS
  <2>2. /\ contexto[c] # <<>> /\ cpuPid' = cpuPid
        /\ pila' = [pila EXCEPT ![Cpu(c)] = u]
        /\ contexto' = [contexto EXCEPT ![c] = <<[Corre(c) EXCEPT !.pc = PcSiguiente(c)]>> \o Tail(@)]
    BY <1>6, <2>1 DEF SyscallInitProc, Pide
  <2>3. Desocupada(u) /\ UnTurno(u)
    <3>1. Por("NEW", Instruccion(c).pid).op \notin Ocupan
      BY DEF Por, Ocupan
    <3> QED
      BY <2>1, <3>1, EstaEnUna, TurnoDeUna DEF Desocupada
  <2>4. SigueDesocupado
    BY <1>1, <2>2, <2>3 DEF SigueDesocupado, IInvCpu, Turnos
  <2>5. Len(contexto'[LaCpu]) <= 1 /\ contexto'[LaCpu] # <<>>
    <3>1. PICK x : x = [Corre(c) EXCEPT !.pc = PcSiguiente(c)]
      OBVIOUS
    <3>2. contexto'[LaCpu] = <<x>> \o <<>>
      BY <1>1, <1>2, <2>2, <3>1
    <3>3. contexto'[LaCpu] = <<x>>
      BY <3>2
    <3> QED
      BY <3>3
  <2> QED
    BY <1>1, <2>2, <2>4, <2>5, CpuSigue
<1> QED
  BY <1>3, <1>4, <1>5, <1>6 DEF DeCpu

LEMMA CpuPasoAPaso == SolaCpu /\ IInvCpu /\ [Next]_vars => IInvCpu'
<1> SUFFICES ASSUME SolaCpu, IInvCpu, [Next]_vars PROVE IInvCpu'
  OBVIOUS
<1>1. IInvTipos'
  BY TiposPasoAPaso DEF IInvCpu
<1>2. /\ pila \in [Hilos -> Seq(Tarea)] /\ OtrosTipos
      /\ pila' \in [Hilos -> Seq(Tarea)]
  BY <1>1, TiposJuntos DEF IInvCpu, IInvTipos, TypeOK
<1>3. ASSUME NEW h \in Hilos, NEW u, Desocupada(u), pila' = [pila EXCEPT ![h] = u],
             UNCHANGED <<cpuPid, contexto>>
      PROVE  IInvCpu'
  <2>1. UnTurno(u)
    BY <1>3, TurnoDesocupada
  <2>2. SigueDesocupado
    BY <1>2, <1>3, <2>1 DEF SigueDesocupado, IInvCpu, Turnos
  <2> QED
    BY <1>1, <1>3, <2>2, CpuSigue DEF IInvCpu, CpuTomada
<1>4. Desocupada(<<>>) /\ \A q : Desocupada(<<Por("DESBLOQUEO", q)>>)
  <2>1. \A q : Por("DESBLOQUEO", q).op \notin Ocupan
    BY DEF Por, Ocupan
  <2> QED
    BY <2>1, EstaEnVacia, EstaEnUna DEF Desocupada
<1>5. ASSUME NEW h \in Hilos, PasoHilo(h) PROVE IInvCpu'
  BY <1>1, <1>5, CpuDeProceso, CpuDePlanificador DEF PasoHilo
<1>6. CASE PasoMuere
  <2>1. PICK p \in Procs, k \in 1..MaxTimers : TimerMuere(p, k)
    BY <1>6 DEF PasoMuere
  <2>2. Timer(p, k) \in Hilos /\ pila' = [pila EXCEPT ![Timer(p, k)] = <<>>]
        /\ UNCHANGED <<cpuPid, contexto>>
    BY <2>1, HilosPropios DEF TimerMuere, cpuVars
  <2> QED
    BY <1>3, <1>4, <2>2
<1>7. ASSUME NEW c \in Cpus, DeCpu(c) PROVE IInvCpu'
  BY <1>1, <1>7, CpuDeCpu
<1>8. ASSUME NEW x \in Conexiones, DesbloqueoIO(x) PROVE IInvCpu'
  <2>1. PICK p, u : /\ pila' = [pila EXCEPT ![Io(x)] = u]
                    /\ u = <<>> \/ u = <<Por("DESBLOQUEO", p)>>
                    /\ UNCHANGED <<cpuPid, contexto>>
    BY <1>8 DEF DesbloqueoIO, cpuVars
  <2>2. Io(x) \in Hilos /\ Desocupada(u)
    BY <1>4, <2>1, HilosPropios
  <2> QED
    BY <1>3, <2>1, <2>2
<1>9. CASE Reposo \/ UNCHANGED vars
  <2>1. UNCHANGED <<pila, cpuPid, contexto>>
    BY <1>9 DEF Reposo, vars, otras, cpuVars
  <2> QED
    BY <1>1, <2>1 DEF IInvCpu, Turnos, CpuTomada
<1> QED
  BY <1>5, <1>6, <1>7, <1>8, <1>9 DEF Next

LEMMA CpuAlEmpezar == SolaCpu /\ Init => IInvCpu
<1> SUFFICES ASSUME SolaCpu, Init PROVE IInvCpu
  OBVIOUS
<1>1. IInvTipos
  BY TiposAlEmpezar
<1>2. LaCpu \in Cpus /\ contexto[LaCpu] = <<>>
  BY DEF Init, SolaCpu
<1>3. Desocupada(<<>>) /\ Desocupada(<<Por("NEW", Primero)>>)
  <2>1. Por("NEW", Primero).op \notin Ocupan
    BY DEF Por, Ocupan
  <2> QED
    BY <2>1, EstaEnVacia, EstaEnUna DEF Desocupada
<1>4. \A k \in Hilos : Desocupada(pila[k])
  <2>1. \A k \in Hilos : pila[k] = <<>> \/ pila[k] = <<Por("NEW", Primero)>>
    BY DEF Init
  <2> QED
    BY <1>3, <2>1
<1>5. Turnos
  BY <1>4, TurnoDesocupada DEF Turnos
<1>6. Len(contexto[LaCpu]) <= 1
  BY <1>2
<1> QED
  BY <1>1, <1>2, <1>4, <1>5, <1>6 DEF IInvCpu, CpuTomada

(* With one CPU it is never sent a context while it runs another: whoever   *)
(* sends one has reserved it (set_cpu before send), and it is reserved      *)
(* until the handler frees it.                                              *)
THEOREM UnaCpuUnProceso == ASSUME SolaCpu PROVE Spec => []UnaSolaCpu
<1>1. IInvCpu => UnaSolaCpu
  BY DEF SolaCpu, IInvCpu, CpuTomada, UnaSolaCpu
<1>2. Init => IInvCpu
  BY CpuAlEmpezar
<1>3. IInvCpu /\ [Next]_vars => IInvCpu'
  BY CpuPasoAPaso
<1> QED
  BY <1>1, <1>2, <1>3, PTL DEF Spec
-----------------------------------------------------------------------------
(* The order of admission.  NEW is entered by one thread at a time, which   *)
(* does nothing else meanwhile: main at the start, then the handlers.       *)
NoNatos == {"NO_CREADO", "CREADO"}
Nacidos == { q \in Procs : estado[q] \notin NoNatos }

UnCreador ==
    /\ \A h \in Hilos : \A t : Esta(t, pila[h]) /\ t.op \in Creadoras =>
          pila[h] = <<t>> /\ (h = Main \/ \E c \in Cpus : h = Cpu(c))
    /\ (\E t : Esta(t, pila[Main]) /\ t.op \in Creadoras) =>
          /\ \A k \in Hilos \ {Main} : pila[k] = <<>>
          /\ \A c \in Cpus : contexto[c] = <<>>
          /\ enIO = {}
    /\ \A h, k \in Hilos : \A t : Esta(t, pila[h]) /\ Esta(t, pila[k]) /\ t.op = "NEW" => h = k

(* No thread, CPU, device or queue has a process queue_process has not put  *)
(* in NEW yet, but for the one that is about to.                            *)
SoloNacidos ==
    /\ \A h \in Hilos : \A t : Esta(t, pila[h]) /\ t.pid \in Procs =>
          IF t.op = "NEW" THEN estado[t.pid] = "CREADO" ELSE t.pid \in Nacidos
    /\ \A c \in Cpus : \A x : Esta(x, contexto[c]) => x.pid \in Nacidos
    /\ enIO \subseteq Nacidos
    /\ EnCola \subseteq Nacidos

(* The process a thread is asking Memoria for is still the first of NEW.    *)
Admision ==
    /\ \A q \in Procs : Esta(q, cola["READY_SUSPENDED"]) => estado[q] # "NEW"
    /\ \A q \in Procs : estado[q] = "NEW" => Esta(q, cola["NEW"])
    /\ \A h \in Hilos : \A t : Esta(t, pila[h]) /\ t.op = "NEW_INIT" /\ estado[t.pid] = "NEW" =>
          cola["NEW"] # <<>> /\ Head(cola["NEW"]) = t.pid

IInvOrden == IInvTipos /\ UnCreador /\ SoloNacidos /\ Admision

(* What a step does when it only moves the processes of P, among the states *)
(* after NEW.                                                               *)
Avanza(q) == estado'[q] \notin NoNatos \cup {"NEW"}
Cambian(P) ==
    /\ \A q \in Procs : estado'[q] = estado[q] \/ (q \in P /\ Avanza(q))
    /\ \A q \in Procs, c \in Colas : Esta(q, cola'[c]) => Esta(q, cola[c]) \/ (q \in P /\ Avanza(q))
    /\ \A q \in Procs : estado'[q] = "NEW" =>
          /\ Esta(q, cola["NEW"]) => Esta(q, cola'["NEW"])
          /\ cola["NEW"] # <<>> /\ Head(cola["NEW"]) = q =>
                cola'["NEW"] # <<>> /\ Head(cola'["NEW"]) = q
Mueve(P) ==
    /\ Pilas(P)
    /\ Cambian(P)
    /\ \A c \in Cpus : \A x : Esta(x, contexto'[c]) => Esta(x, contexto[c]) \/ x.pid \in P
    /\ enIO' \subseteq enIO \cup P

LEMMA CambiarMantiene ==
    ASSUME estado \in [Procs -> Estados], cola \in [Colas -> Seq(Procs)],
           NEW p \in Procs, NEW e \in Estados \ (NoNatos \cup {"NEW"}), CambiarEstado(p, e)
    PROVE  Cambian({p})
<1>1. /\ estado'[p] = e /\ \A q \in Procs \ {p} : estado'[q] = estado[q]
      /\ \A c \in Colas : \A q : q # p => (Esta(q, cola'[c]) <=> Esta(q, cola[c]))
      /\ \A c \in Colas : cola[c] # <<>> /\ Head(cola[c]) # p /\ c # e =>
             cola'[c] # <<>> /\ Head(cola'[c]) = Head(cola[c])
  BY CambiarMueve
<1>2. "NEW" \in Colas /\ e # "NEW" /\ Avanza(p)
  BY <1>1 DEF Colas, Avanza
<1>3. \A q \in Procs : estado'[q] = "NEW" => q # p
  BY <1>1, <1>2
<1> QED
  BY <1>1, <1>2, <1>3 DEF Cambian

LEMMA SinCambios ==
    ASSUME UNCHANGED <<estado, cola>>, NEW P
    PROVE  Cambian(P)
BY DEF Cambian, Esta

(* A task of those that take a process to NEW is only where it was.         *)
LEMMA CreaComoAntes ==
    ASSUME IInvOrden, NEW P, Pilas(P), NEW h \in Hilos, NEW t, Esta(t, pila'[h]), t.op \in Creadoras
    PROVE  pila'[h] = pila[h] /\ Esta(t, pila[h])
<1>1. pila \in [Hilos -> Seq(Tarea)]
  BY DEF IInvOrden, IInvTipos, TypeOK
<1>2. ASSUME pila[h] # <<>>, Esta(t, Tail(pila[h])) PROVE FALSE
  <2>1. Esta(t, pila[h])
    BY <1>1, <1>2, TrasLaPrimera
  <2>2. pila[h] = <<t>>
    BY <2>1 DEF IInvOrden, UnCreador
  <2>3. Tail(<<t>>) = <<>>
    OBVIOUS
  <2> QED
    BY <1>2, <2>2, <2>3, EstaEnVacia
<1>3. ~Nueva(t, P)
  BY DEF Nueva
<1> QED
  BY <1>2, <1>3 DEF Pilas

LEMMA OrdenSigue ==
    ASSUME IInvOrden, IInvTipos', NEW P \in SUBSET Nacidos, Mueve(P),
           \A t : Esta(t, pila'[Main]) => t.op \notin Creadoras
    PROVE  IInvOrden'
<1>1. /\ pila \in [Hilos -> Seq(Tarea)] /\ Pilas(P) /\ Cambian(P)
      /\ P \subseteq Procs /\ {"NEW", "READY_SUSPENDED"} \subseteq Colas
  BY DEF IInvOrden, IInvTipos, TypeOK, Mueve, Nacidos, Colas
<1>2. \A h \in Hilos : \A t : Esta(t, pila'[h]) /\ t.op \in Creadoras =>
          pila'[h] = pila[h] /\ Esta(t, pila[h])
  BY <1>1, CreaComoAntes
<1>3. Nacidos \subseteq Nacidos'
  BY <1>1 DEF Nacidos, Cambian, Avanza
<1>4. \A q \in Procs : estado'[q] = "NEW" => estado[q] = "NEW"
  BY <1>1 DEF Cambian, Avanza
<1>5. UnCreador'
  <2>1. \A h, k \in Hilos : \A t : Esta(t, pila'[h]) /\ Esta(t, pila'[k]) /\ t.op = "NEW" => h = k
    BY <1>2 DEF IInvOrden, UnCreador, Creadoras
  <2> QED
    BY <1>2, <2>1 DEF IInvOrden, UnCreador
<1>6. SoloNacidos'
  <2>1. ASSUME NEW h \in Hilos, NEW t, Esta(t, pila'[h]), t.pid \in Procs
        PROVE  IF t.op = "NEW" THEN estado'[t.pid] = "CREADO" ELSE t.pid \in Nacidos'
    <3>1. Esta(t, pila[h]) \/ Nueva(t, P)
      BY <1>1, <2>1, TareaTras
    <3>2. CASE Esta(t, pila[h]) /\ t.op = "NEW"
      <4>1. estado[t.pid] = "CREADO"
        BY <2>1, <3>2 DEF IInvOrden, SoloNacidos
      <4>2. t.pid \notin P
        BY <4>1 DEF Nacidos, NoNatos
      <4> QED
        BY <1>1, <2>1, <3>2, <4>1, <4>2 DEF Cambian
    <3>3. CASE Esta(t, pila[h]) /\ t.op # "NEW"
      BY <1>3, <2>1, <3>3 DEF IInvOrden, SoloNacidos
    <3>4. CASE Nueva(t, P)
      <4>1. t.op # "NEW" /\ t.pid \in P
        BY <2>1, <3>4, NadieAssumption DEF Nueva, Creadoras
      <4> QED
        BY <1>3, <4>1
    <3> QED
      BY <3>1, <3>2, <3>3, <3>4
  <2>2. \A c \in Cpus : \A x : Esta(x, contexto'[c]) => x.pid \in Nacidos'
    BY <1>3 DEF IInvOrden, SoloNacidos, Mueve
  <2>3. enIO' \subseteq Nacidos'
    BY <1>3 DEF IInvOrden, SoloNacidos, Mueve
  <2>4. ASSUME NEW q \in Procs, NEW c \in Colas, Esta(q, cola'[c]) PROVE q \in Nacidos'
    <3>1. Esta(q, cola[c]) \/ q \in P
      BY <1>1, <2>4 DEF Cambian
    <3>2. Esta(q, cola[c]) => q \in Nacidos
      BY DEF IInvOrden, SoloNacidos, EnCola
    <3> QED
      BY <1>3, <3>1, <3>2
  <2>5. (EnCola \subseteq Nacidos)'
    BY <2>4 DEF EnCola
  <2> QED
    BY <2>1, <2>2, <2>3, <2>5 DEF SoloNacidos
<1>7. Admision'
  <2>1. \A q \in Procs : Esta(q, cola'["READY_SUSPENDED"]) => estado'[q] # "NEW"
    <3>1. ASSUME NEW q \in Procs, Esta(q, cola'["READY_SUSPENDED"]), estado'[q] = "NEW"
          PROVE  FALSE
      <4>1. Esta(q, cola["READY_SUSPENDED"]) /\ estado[q] = "NEW"
        BY <1>1, <1>4, <3>1 DEF Cambian, Avanza
      <4> QED
        BY <4>1 DEF IInvOrden, Admision
    <3> QED
      BY <3>1
  <2>2. \A q \in Procs : estado'[q] = "NEW" => Esta(q, cola'["NEW"])
    BY <1>1, <1>4 DEF IInvOrden, Admision, Cambian
  <2>3. ASSUME NEW h \in Hilos, NEW t, Esta(t, pila'[h]), t.op = "NEW_INIT", estado'[t.pid] = "NEW"
        PROVE  cola'["NEW"] # <<>> /\ Head(cola'["NEW"]) = t.pid
    <3>1. Esta(t, pila[h])
      BY <1>2, <2>3 DEF Creadoras
    <3>2. t.pid \in Procs
      BY <2>3, <3>1 DEF IInvOrden, IInvTipos, TareasBien, Sueltas
    <3>3. cola["NEW"] # <<>> /\ Head(cola["NEW"]) = t.pid
      BY <1>4, <2>3, <3>1, <3>2 DEF IInvOrden, Admision
    <3> QED
      BY <1>1, <2>3, <3>2, <3>3 DEF Cambian
  <2> QED
    BY <2>1, <2>2, <2>3 DEF Admision
<1> QED
  BY <1>5, <1>6, <1>7 DEF IInvOrden

LEMMA MainNoCrea ==
    ASSUME IInvOrden, NEW h \in Hilos, pila[h] # <<>>, Head(pila[h]).op \notin Creadoras
    PROVE  \A t : Esta(t, pila[Main]) => t.op \notin Creadoras
<1> SUFFICES ASSUME NEW t, Esta(t, pila[Main]), t.op \in Creadoras PROVE FALSE
  OBVIOUS
<1>1. h = Main
  BY DEF IInvOrden, UnCreador
<1>2. pila[Main] = <<t>>
  BY HilosPropios DEF IInvOrden, UnCreador
<1>3. Head(<<t>>) = t
  OBVIOUS
<1> QED
  BY <1>1, <1>2, <1>3

LEMMA EstadosDeProceso ==
    ASSUME IInvOrden, NEW h \in Hilos, NEW p \in Procs, DeProceso(h, p), ~New(h, p)
    PROVE  Cambian({p})
<1>1. estado \in [Procs -> Estados] /\ cola \in [Colas -> Seq(Procs)]
  BY DEF IInvOrden, IInvTipos, TypeOK
<1>2. {"READY", "EXECUTE", "BLOCKED", "BLOCKED_SUSPENDED", "READY_SUSPENDED", "EXIT"}
          \subseteq Estados \ (NoNatos \cup {"NEW"})
  BY DEF Estados, NoNatos
<1>3. CASE \E e \in {"READY", "EXECUTE", "BLOCKED", "BLOCKED_SUSPENDED", "READY_SUSPENDED", "EXIT"} :
             CambiarEstado(p, e)
  BY <1>1, <1>2, <1>3, CambiarMantiene
<1>4. CASE UNCHANGED planVars
  BY <1>4, SinCambios DEF planVars
<1>5. CASE ExitMem(h, p)
  <2>1. estado' = [estado EXCEPT ![p] = "ELIMINADO"] /\ cola' = cola
    BY <1>5 DEF ExitMem
  <2>2. Avanza(p) /\ \A q \in Procs : q # p => estado'[q] = estado[q]
    BY <1>1, <2>1 DEF Avanza, NoNatos
  <2> QED
    BY <2>1, <2>2 DEF Cambian
<1> QED
  BY <1>3, <1>4, <1>5
     DEF DeProceso, NewTraer, NewInit, NewFin, Ready, ReadyCpu, Execute, Enviar, Blocked,
         Bloquear, Join, CrearTimer, TimerArranca, TimerCancelado, TimerVence, TimerRevisa,
         Suspender, SuspenderMem, TimerCancela, TimerTermina, ReadySuspended,
         ReadySuspendedVer, Desbloqueo, EncolarIO, Exit, Dump, DumpOk, DumpFin, DumpError,
         DumpExit, Solo, otras

DeTimer(h, p) ==
    \/ CrearTimer(h, p) \/ TimerArranca(h, p) \/ TimerCancelado(h, p) \/ TimerVence(h, p)
    \/ TimerRevisa(h, p) \/ Suspender(h, p) \/ SuspenderMem(h, p) \/ TimerCancela(h, p)
    \/ TimerTermina(h, p)

LEMMA OrdenDeProceso ==
    ASSUME IInvOrden, IInvTipos', NEW h \in Hilos, NEW p \in Procs, DeProceso(h, p),
           ~New(h, p), ~NewTraer(h, p)
    PROVE  IInvOrden'
<1>1. /\ pila \in [Hilos -> Seq(Tarea)] /\ hiloBlock \in [Procs -> 0..MaxTimers]
      /\ contexto \in [Cpus -> Seq([pid : Procs, pc : Nat])] /\ Main \in Hilos
  BY HilosPropios DEF IInvOrden, IInvTipos, TypeOK
<1>2. PICK o : o \notin {"NEW", "NEW_TRAER"} /\ Toca(h, o, p) /\ (o = "NEW_INIT" => NewInit(h, p))
  <2>1. CASE NewInit(h, p)
    BY <2>1 DEF NewInit
  <2>2. CASE Dump(h, p)
    <3>1. PICK o \in {"DUMP", "DUMP_FALLA"} : Toca(h, o, p)
      BY <2>2 DEF Dump
    <3> QED
      BY <3>1
  <2>3. CASE DeTimer(h, p)
    <3>1. \E o \in {"CREAR_TIMER", "TIMER", "DORMIR", "REVISAR", "SUSPENDER", "SUSPENDER_MEM",
                    "CANCELAR", "FIN_TIMER"} : Toca(h, o, p)
      BY <2>3 DEF DeTimer, CrearTimer, TimerArranca, TimerCancelado, TimerVence, TimerRevisa,
                  Suspender, SuspenderMem, TimerCancela, TimerTermina
    <3> QED
      BY <3>1
  <2>4. CASE ~NewInit(h, p) /\ ~Dump(h, p) /\ ~DeTimer(h, p)
    <3>1. \E o \in {"NEW_FIN", "READY", "READY_CPU", "EXECUTE", "ENVIAR", "BLOCKED", "BLOQUEAR",
                    "JOIN", "READY_SUSPENDED", "RS_VER", "DESBLOQUEO", "ENCOLAR_IO", "EXIT",
                    "EXIT_MEM", "DUMP_OK", "DUMP_FIN", "DUMP_ERROR", "DUMP_EXIT"} : Toca(h, o, p)
      BY <2>4 DEF DeProceso, DeTimer, NewFin, Ready, ReadyCpu, Execute, Enviar, Blocked, Bloquear,
                  Join, ReadySuspended, ReadySuspendedVer, Desbloqueo, EncolarIO, Exit, ExitMem,
                  DumpOk, DumpFin, DumpError, DumpExit
    <3> QED
      BY <3>1
  <2> QED
    BY <2>1, <2>2, <2>3, <2>4
<1>3. /\ pila[h] # <<>> /\ Head(pila[h]).op = o /\ Head(pila[h]).pid = p
      /\ Esta(Head(pila[h]), pila[h])
  BY <1>1, <1>2, Cabeza DEF Toca, Por
<1>4. {p} \in SUBSET Nacidos
  BY <1>2, <1>3 DEF IInvOrden, SoloNacidos
<1>5. Pilas({p})
  BY <1>1, PilasDeProceso
<1>6. \A t : Esta(t, pila'[Main]) => t.op \notin Creadoras
  <2>1. CASE o = "NEW_INIT"
    <3> SUFFICES ASSUME NEW t, Esta(t, pila'[Main]), t.op \in Creadoras PROVE FALSE
      OBVIOUS
    <3>1. pila'[Main] = pila[Main] /\ Esta(t, pila[Main])
      BY <1>1, <1>5, CreaComoAntes
    <3>2. h = Main /\ pila[Main] = <<t>>
      BY <1>1, <1>3, <3>1 DEF IInvOrden, UnCreador
    <3>3. PICK u : Nuevas(u, {p}) /\ Sigue(h, u)
      BY <1>2, <2>1, TareasTranquilas DEF Tranquilas
    <3>4. pila'[h] = u \o Tail(pila[h])
      BY <1>1, <1>3, <3>3, PilasSigue
    <3>5. Tail(pila[h]) = <<>>
      BY <3>2
    <3>6. u \o <<>> = u
      BY <3>3 DEF Nuevas
    <3>7. Esta(t, u)
      BY <3>1, <3>2, <3>4, <3>5, <3>6
    <3> QED
      BY <3>3, <3>7 DEF Nuevas, Nueva
  <2>2. CASE o # "NEW_INIT"
    <3>1. \A t : Esta(t, pila[Main]) => t.op \notin Creadoras
      BY <1>2, <1>3, <2>2, MainNoCrea DEF Creadoras
    <3> QED
      BY <1>1, <1>5, <3>1, CreaComoAntes
  <2> QED
    BY <2>1, <2>2
<1>7. \A c \in Cpus : \A x : Esta(x, contexto'[c]) => Esta(x, contexto[c]) \/ x.pid \in {p}
  <2>1. CASE Enviar(h, p) /\ CpusDe(p) # {}
    <3>1. PICK d, y : /\ contexto' = [contexto EXCEPT ![d] = Append(@, y)]
                      /\ y.pid = p /\ y \in [pid : Procs, pc : Nat]
      <4>1. pc[p] \in Nat
        BY DEF IInvOrden, IInvTipos, TypeOK
      <4>2. [pid |-> p, pc |-> pc[p]] \in [pid : Procs, pc : Nat] /\ [pid |-> p, pc |-> pc[p]].pid = p
        BY <4>1
      <4>3. contexto' = [contexto EXCEPT ![Primera(CpusDe(p))] =
                             Append(@, [pid |-> p, pc |-> pc[p]])]
        BY <2>1 DEF Enviar
      <4> QED
        BY <4>2, <4>3
    <3>2. PICK C : C = [pid : Procs, pc : Nat]
      OBVIOUS
    <3>3. ASSUME NEW s \in Seq(C), NEW x, Esta(x, Append(s, y)) PROVE Esta(x, s) \/ x = y
      BY <3>1, <3>2, <3>3 DEF Esta
    <3> QED
      BY <1>1, <3>1, <3>2, <3>3
  <2>2. CASE contexto' = contexto
    BY <2>2
  <2> QED
    BY <2>1, <2>2
       DEF DeProceso, New, NewTraer, NewInit, NewFin, Ready, ReadyCpu, Execute, Enviar, Blocked,
           Bloquear, Join, CrearTimer, TimerArranca, TimerCancelado, TimerVence, TimerRevisa,
           Suspender, SuspenderMem, TimerCancela, TimerTermina, ReadySuspended,
           ReadySuspendedVer, Desbloqueo, EncolarIO, Exit, ExitMem, Dump, DumpOk, DumpFin,
           DumpError, DumpExit, Solo, otras, cpuVars
<1>8. enIO' \subseteq enIO \cup {p}
  BY DEF DeProceso, New, NewTraer, NewInit, NewFin, Ready, ReadyCpu, Execute, Enviar, Blocked,
         Bloquear, Join, CrearTimer, TimerArranca, TimerCancelado, TimerVence, TimerRevisa,
         Suspender, SuspenderMem, TimerCancela, TimerTermina, ReadySuspended,
         ReadySuspendedVer, Desbloqueo, EncolarIO, Exit, ExitMem, Dump, DumpOk, DumpFin,
         DumpError, DumpExit, Solo, otras, guionVars
<1>9. Mueve({p})
  BY <1>5, <1>7, <1>8, EstadosDeProceso DEF Mueve
<1> QED
  BY <1>4, <1>6, <1>9, OrdenSigue

(* Steps that leave states and queues as they are.                          *)
LEMMA OrdenSinCambios ==
    ASSUME IInvOrden, IInvTipos', NEW P \in SUBSET Nacidos, Pilas(P),
           UNCHANGED <<estado, cola>>, enIO' \subseteq enIO \cup P,
           \A c \in Cpus : \A x : Esta(x, contexto'[c]) => Esta(x, contexto[c]),
           \A t : Esta(t, pila[Main]) => t.op \notin Creadoras
    PROVE  IInvOrden'
<1>1. Cambian(P)
  BY SinCambios
<1>2. \A t : Esta(t, pila'[Main]) => t.op \notin Creadoras
  BY CreaComoAntes, HilosPropios
<1> QED
  BY <1>1, <1>2, OrdenSigue DEF Mueve

LEMMA OrdenDePlanificador ==
    ASSUME IInvOrden, IInvTipos', NEW h \in Hilos, DePlanificador(h)
    PROVE  IInvOrden'
<1>1. pila \in [Hilos -> Seq(Tarea)] /\ cola \in [Colas -> Seq(Procs)]
  BY DEF IInvOrden, IInvTipos, TypeOK
<1>2. PICK u : Nuevas(u, EnCola) /\ Sigue(h, u)
  BY <1>1, TareasDePlanificador
<1>3. pila[h] # <<>> /\ Head(pila[h]).op \notin Creadoras
  BY <1>1, TareasDePlanificador
<1>4. Pilas(EnCola)
  BY <1>1, <1>2, <1>3, PilasSigue
<1>5. UNCHANGED <<estado, cola, contexto, enIO>>
  BY DEF DePlanificador, TraerEntra, TraerRS, TraerVerNew, TraerNew, MandarEntra, MandarVer,
         MandarTomar, planVars, cpuVars, guionVars
<1>6. EnCola \in SUBSET Nacidos
  BY DEF IInvOrden, SoloNacidos
<1>7. \A t : Esta(t, pila[Main]) => t.op \notin Creadoras
  BY <1>3, MainNoCrea
<1> QED
  BY <1>4, <1>5, <1>6, <1>7, OrdenSinCambios

LEMMA OrdenDeCpu ==
    ASSUME IInvOrden, IInvTipos', NEW c \in Cpus, DeCpu(c), ~SyscallInitProc(c)
    PROVE  IInvOrden'
<1>1. pila \in [Hilos -> Seq(Tarea)] /\ OtrosTipos /\ Cpu(c) \in Hilos
      /\ contexto \in [Cpus -> Seq([pid : Procs, pc : Nat])]
  BY TiposJuntos, HilosPropios DEF IInvOrden, IInvTipos, TypeOK
<1>2. PICK P \in SUBSET Procs : Pilas(P) /\ (LiberarCpu(c) \/ P = {PidDe(c)})
  BY <1>1, PilasDeCpu DEF DeCpu
<1>3. CASE LiberarCpu(c)
  <2>1. pila[Cpu(c)] # <<>> /\ Head(pila[Cpu(c)]).op = "LIBERAR_CPU" /\ Sigue(Cpu(c), <<>>)
        /\ UNCHANGED <<estado, cola, contexto, enIO>>
    BY <1>3 DEF LiberarCpu, Toca, Por, planVars, guionVars
  <2>2. \A t : Esta(t, pila[Main]) => t.op \notin Creadoras
    BY <1>1, <2>1, MainNoCrea DEF Creadoras
  <2>3. Pilas({})
    BY <1>1, <2>1, NuevasNada, PilasSigue
  <2>4. {} \in SUBSET Nacidos
    OBVIOUS
  <2> QED
    BY <2>1, <2>2, <2>3, <2>4, OrdenSinCambios
<1>4. CASE SyscallExit(c) \/ SyscallBloqueante(c)
  <2>1. /\ contexto[c] # <<>> /\ contexto' = [contexto EXCEPT ![c] = Tail(@)]
        /\ UNCHANGED <<estado, cola, enIO>>
    BY <1>4 DEF SyscallExit, SyscallBloqueante, Pide, planVars, guionVars
  <2>2. \A t : Esta(t, pila[Main]) => t.op \notin Creadoras
    BY <2>1 DEF IInvOrden, UnCreador
  <2>3. Pilas({PidDe(c)})
    <3>1. PICK o \in (Syscalls \cup {"EXIT"}) \ {"INIT_PROC"} :
              pila' = [pila EXCEPT ![Cpu(c)] = TareasDe(o, PidDe(c))]
      BY <1>4 DEF SyscallExit, SyscallBloqueante, Pide, Syscalls
    <3>2. PidDe(c) \in Procs
      BY <1>1, <2>1, CorreTipo
    <3>3. Nuevas(TareasDe(o, PidDe(c)), {PidDe(c)})
      BY <3>2, TareasDeSyscall
    <3> QED
      BY <1>1, <3>1, <3>3, PilasDespierta
  <2>4. {PidDe(c)} \in SUBSET Nacidos
    BY <1>1, <2>1, CorreTipo DEF IInvOrden, SoloNacidos, PidDe
  <2>5. ASSUME NEW d \in Cpus, NEW x, Esta(x, contexto'[d]) PROVE Esta(x, contexto[d])
    <3>1. CASE d # c
      BY <1>1, <2>1, <2>5, <3>1
    <3>2. CASE d = c
      <4>1. PICK s, C : s = contexto[c] /\ C = [pid : Procs, pc : Nat]
        OBVIOUS
      <4>4. s \in Seq([pid : Procs, pc : Nat])
        BY <1>1, <4>1
      <4>2. s \in Seq(C) /\ s # <<>> /\ <<>> \in Seq(C)
        BY <2>1, <4>1, <4>4, EmptySeq
      <4>3. \A t : Esta(t, Tail(s)) => Esta(t, s)
        BY <4>2, TrasLaPrimera
      <4> QED
        BY <1>1, <2>1, <2>5, <3>2, <4>1, <4>3
    <3> QED
      BY <3>1, <3>2
  <2> QED
    BY <2>1, <2>2, <2>3, <2>4, <2>5, OrdenSinCambios
<1> QED
  BY <1>3, <1>4 DEF DeCpu

LEMMA OrdenDeIO ==
    ASSUME IInvOrden, IInvTipos', NEW x \in Conexiones, DesbloqueoIO(x)
    PROVE  IInvOrden'
<1>1. pila \in [Hilos -> Seq(Tarea)] /\ OtrosTipos
  BY TiposJuntos DEF IInvOrden, IInvTipos
<1>2. PICK p \in enIO : Pilas({p})
  BY <1>1, PilasDeIO
<1>3. {p} \in SUBSET Nacidos
  BY DEF IInvOrden, SoloNacidos
<1>4. \A t : Esta(t, pila[Main]) => t.op \notin Creadoras
  BY DEF IInvOrden, UnCreador
<1>5. UNCHANGED <<estado, cola, contexto>> /\ enIO' \subseteq enIO
  BY DEF DesbloqueoIO, planVars, cpuVars
<1> QED
  BY <1>2, <1>3, <1>4, <1>5, OrdenSinCambios

LEMMA OrdenDeMuerto ==
    ASSUME IInvOrden, IInvTipos', PasoMuere
    PROVE  IInvOrden'
<1>1. pila \in [Hilos -> Seq(Tarea)]
  BY DEF IInvOrden, IInvTipos, TypeOK
<1>2. PICK p \in Procs, k \in 1..MaxTimers : TimerMuere(p, k)
  BY DEF PasoMuere
<1>3. pila[Timer(p, k)] # <<>> /\ UNCHANGED <<estado, cola, contexto, enIO>>
  BY <1>2 DEF TimerMuere, planVars, cpuVars, guionVars
<1>4. Timer(p, k) # Main /\ Timer(p, k) \in Hilos
  BY HilosPropios DEF Timer, Main
<1>5. \A t : Esta(t, pila[Main]) => t.op \notin Creadoras
  BY <1>3, <1>4 DEF IInvOrden, UnCreador
<1>6. Pilas({}) /\ {} \in SUBSET Nacidos
  BY <1>1, PilasDeMuerto
<1> QED
  BY <1>3, <1>5, <1>6, OrdenSinCambios

(* A process that comes into NEW: whoever is waiting for Memoria keeps the  *)
(* first place, since arrivals go to the back or there is one thread that   *)
(* can bring them.                                                          *)
EnOrden == AlgoritmoIngreso # "PMCP" \/ SolaCpu

LEMMA PilaDeCreador ==
    ASSUME IInvOrden, NEW h \in Hilos, NEW y, y.op \in Creadoras, pila[h] # <<>>,
           Head(pila[h]) = y, NEW z \in Tarea, NEW u, u = <<z>>, Sigue(h, u)
    PROVE  /\ \A t : Esta(t, pila[h]) <=> t = y
           /\ \A t : Esta(t, u) <=> t = z
           /\ pila'[h] = u
           /\ \A k \in Hilos \ {h} : pila'[k] = pila[k]
<1>1. pila \in [Hilos -> Seq(Tarea)] /\ Esta(y, pila[h])
  BY Cabeza DEF IInvOrden, IInvTipos, TypeOK
<1>2. pila[h] = <<y>>
  BY <1>1 DEF IInvOrden, UnCreador
<1>3. <<z>> \o Tail(<<y>>) = <<z>> /\ <<z>> \in Seq(Tarea)
  OBVIOUS
<1>4. pila' = [pila EXCEPT ![h] = <<z>>]
  <2>1. pila' = [pila EXCEPT ![h] = <<z>> \o Tail(pila[h])]
    BY DEF Sigue
  <2> QED
    BY <1>2, <1>3, <2>1
<1>5. \A x : (Esta(x, <<y>>) <=> x = y) /\ (Esta(x, <<z>>) <=> x = z)
  BY EstaEnUna
<1>6. pila'[h] = <<z>> /\ \A k \in Hilos \ {h} : pila'[k] = pila[k]
  BY <1>1, <1>4
<1> QED
  BY <1>2, <1>5, <1>6

LEMMA OrdenDeNew ==
    ASSUME EnOrden, IInvOrden, IInvTipos', NEW h \in Hilos, NEW p \in Procs, New(h, p)
    PROVE  IInvOrden'
<1>1. /\ estado \in [Procs -> Estados] /\ cola \in [Colas -> Seq(Procs)]
      /\ {"NEW", "READY_SUSPENDED"} \subseteq Colas /\ Main \in Hilos
  BY HilosPropios DEF IInvOrden, IInvTipos, TypeOK, Colas
<1>2. PICK y, z, u : y = Por("NEW", p) /\ z = Por("NEW_TRAER", p) /\ u = <<z>>
  OBVIOUS
<1>3. /\ \A t : Esta(t, pila[h]) <=> t = y
      /\ pila'[h] = <<z>> /\ \A k \in Hilos \ {h} : pila'[k] = pila[k]
      /\ z.op = "NEW_TRAER" /\ z.pid = p /\ y.op = "NEW" /\ y.pid = p
  <2>1. y.op = "NEW" /\ y.pid = p /\ z.op = "NEW_TRAER" /\ z.pid = p /\ z \in Tarea
    BY <1>2, PorTarea DEF Por, Ops
  <2>2. pila[h] # <<>> /\ Head(pila[h]) = y /\ Sigue(h, u) /\ u = <<z>>
    BY <1>2 DEF New, Toca
  <2>3. y.op \in Creadoras
    BY <2>1 DEF Creadoras
  <2>4. /\ \A t : Esta(t, pila[h]) <=> t = y
        /\ pila'[h] = u
        /\ \A k \in Hilos \ {h} : pila'[k] = pila[k]
    BY <2>1, <2>2, <2>3, PilaDeCreador, ZenonT(30)
  <2> QED
    BY <2>1, <2>2, <2>4
<1>4. \A t : Esta(t, <<z>>) <=> t = z
  BY EstaEnUna
<1>5. /\ estado'[p] = "NEW" /\ \A q \in Procs \ {p} : estado'[q] = estado[q]
      /\ \A c \in Colas : \A q : q # p => (Esta(q, cola'[c]) <=> Esta(q, cola[c]))
      /\ Esta(p, cola'["NEW"])
      /\ cola["NEW"] # <<>> /\ Head(cola["NEW"]) # p /\ AlgoritmoIngreso # "PMCP" =>
             cola'["NEW"] # <<>> /\ Head(cola'["NEW"]) = Head(cola["NEW"])
      /\ UNCHANGED <<contexto, enIO>>
  <2>1. CambiarEstado(p, "NEW") /\ "NEW" \in Estados /\ UNCHANGED <<contexto, enIO>>
    BY DEF New, cpuVars, guionVars, Estados
  <2> QED
    BY <1>1, <2>1, CambiarMueve
<1>6. estado[p] = "CREADO" /\ p \notin Nacidos /\ p \notin EnCola
  BY <1>3 DEF IInvOrden, SoloNacidos, Nacidos, NoNatos
<1>7. cola'["READY_SUSPENDED"] = cola["READY_SUSPENDED"]
  <2>1. CambiarEstado(p, "NEW")
    BY DEF New
  <2> QED
    BY <1>1, <1>6, <2>1 DEF CambiarEstado, ColaTras
<1>8. Nacidos' = Nacidos \cup {p}
  BY <1>5 DEF Nacidos, NoNatos
<1>9. h = Main \/ \E c \in Cpus : h = Cpu(c)
  BY <1>3 DEF IInvOrden, UnCreador, Creadoras
<1>10. UnCreador'
  <2>1. \A k \in Hilos : \A t : Esta(t, pila'[k]) /\ t.op \in Creadoras =>
            pila'[k] = <<t>> /\ (k = Main \/ \E c \in Cpus : k = Cpu(c))
    BY <1>3, <1>4, <1>9 DEF IInvOrden, UnCreador
  <2>2. ASSUME NEW t, Esta(t, pila'[Main]), t.op \in Creadoras
        PROVE  /\ \A k \in Hilos \ {Main} : pila'[k] = <<>>
               /\ \A c \in Cpus : contexto'[c] = <<>>
               /\ enIO' = {}
    <3>1. \E x : Esta(x, pila[Main]) /\ x.op \in Creadoras
      BY <1>1, <1>3, <2>2 DEF Creadoras
    <3>2. h = Main
      BY <1>3, <3>1, EstaEnVacia DEF IInvOrden, UnCreador
    <3> QED
      BY <1>3, <1>5, <3>1, <3>2 DEF IInvOrden, UnCreador
  <2>3. \A k, l \in Hilos : \A t : Esta(t, pila'[k]) /\ Esta(t, pila'[l]) /\ t.op = "NEW" => k = l
    BY <1>3, <1>4 DEF IInvOrden, UnCreador
  <2> QED
    BY <2>1, <2>2, <2>3 DEF UnCreador
<1>11. ASSUME NEW k \in Hilos, NEW t, Esta(t, pila'[k]), t.pid \in Procs
       PROVE  IF t.op = "NEW" THEN estado'[t.pid] = "CREADO" ELSE t.pid \in Nacidos'
  <2>1. CASE k = h
    BY <1>3, <1>4, <1>8, <1>11, <2>1
  <2>2. CASE k # h /\ t.op # "NEW"
    BY <1>3, <1>8, <1>11, <2>2 DEF IInvOrden, SoloNacidos
  <2>3. CASE k # h /\ t.op = "NEW"
    <3>1. Esta(t, pila[k]) /\ estado[t.pid] = "CREADO"
      BY <1>3, <1>11, <2>3 DEF IInvOrden, SoloNacidos
    <3>2. t.pid # p
      <4>1. SUFFICES ASSUME t.pid = p PROVE FALSE
        OBVIOUS
      <4>2. t \in Tarea
        <5>1. pila[k] \in Seq(Tarea)
          BY DEF IInvOrden, IInvTipos, TypeOK
        <5> QED
          BY <3>1, <5>1, ElementoDe
      <4>3. t = y
        BY <1>2, <2>3, <4>1, <4>2 DEF Tarea, Por
      <4> QED
        BY <1>3, <2>3, <3>1, <4>3 DEF IInvOrden, UnCreador
    <3> QED
      BY <1>5, <1>11, <2>3, <3>1, <3>2
  <2> QED
    BY <2>1, <2>2, <2>3
<1>12. SoloNacidos'
  <2>1. (EnCola \subseteq Nacidos)'
    <3>1. ASSUME NEW q \in Procs, NEW c \in Colas, Esta(q, cola'[c]) PROVE q \in Nacidos'
      <4>1. q = p \/ Esta(q, cola[c])
        BY <1>5, <3>1
      <4> QED
        BY <1>8, <4>1 DEF IInvOrden, SoloNacidos, EnCola
    <3> QED
      BY <3>1 DEF EnCola
  <2> QED
    BY <1>5, <1>8, <1>11, <2>1 DEF IInvOrden, SoloNacidos
<1>13. ASSUME NEW k \in Hilos, NEW t, Esta(t, pila'[k]), t.op = "NEW_INIT", estado'[t.pid] = "NEW"
       PROVE  cola'["NEW"] # <<>> /\ Head(cola'["NEW"]) = t.pid
  <2>1. k # h /\ Esta(t, pila[k])
    BY <1>3, <1>4, <1>13
  <2>2. t.pid \in Procs
    BY <1>13, <2>1 DEF IInvOrden, IInvTipos, TareasBien, Sueltas
  <2>3. t.pid # p /\ estado[t.pid] = "NEW"
    BY <1>5, <1>6, <1>13, <2>1, <2>2 DEF IInvOrden, SoloNacidos
  <2>4. cola["NEW"] # <<>> /\ Head(cola["NEW"]) = t.pid
    BY <1>13, <2>1, <2>3 DEF IInvOrden, Admision
  <2>5. AlgoritmoIngreso # "PMCP"
    <3>1. SUFFICES ASSUME SolaCpu PROVE FALSE
      BY DEF EnOrden
    <3>2. k = Main \/ k = Cpu(LaCpu)
      BY <1>13, <2>1, <3>1 DEF IInvOrden, UnCreador, Creadoras, SolaCpu
    <3>3. h = Main \/ h = Cpu(LaCpu)
      BY <1>9, <3>1 DEF SolaCpu
    <3>4. pila[k] # <<>> /\ pila[h] # <<>>
      BY <1>3, <2>1, EstaEnVacia
    <3>5. \A l \in {h, k} : \E x : Esta(x, pila[l]) /\ x.op \in Creadoras
      BY <1>3, <1>13, <2>1 DEF Creadoras
    <3> QED
      BY <2>1, <3>2, <3>3, <3>4, <3>5 DEF IInvOrden, UnCreador
  <2> QED
    BY <1>5, <2>3, <2>4, <2>5
<1>14. Admision'
  <2>1. \A q \in Procs : Esta(q, cola'["READY_SUSPENDED"]) => estado'[q] # "NEW"
    <3>1. \A q \in Procs : Esta(q, cola["READY_SUSPENDED"]) => q # p
      BY <1>1, <1>6 DEF EnCola
    <3> QED
      BY <1>5, <1>7, <3>1 DEF IInvOrden, Admision
  <2>2. \A q \in Procs : estado'[q] = "NEW" => Esta(q, cola'["NEW"])
    BY <1>1, <1>5 DEF IInvOrden, Admision
  <2> QED
    BY <1>13, <2>1, <2>2 DEF Admision
<1> QED
  BY <1>10, <1>12, <1>14 DEF IInvOrden

LEMMA OrdenDeNewTraer ==
    ASSUME IInvOrden, IInvTipos', NEW h \in Hilos, NEW p \in Procs, NewTraer(h, p)
    PROVE  IInvOrden'
<1>1. cola \in [Colas -> Seq(Procs)] /\ "NEW" \in Colas /\ Main \in Hilos
  BY HilosPropios DEF IInvOrden, IInvTipos, TypeOK, Colas
<1>2. PICK o \in {"NEW_INIT", "NEW_FIN"} :
          Sigue(h, <<Por(o, p)>>) /\ (o = "NEW_INIT" => PuedeAdmitir(p))
  BY DEF NewTraer
<1>3. PICK y, z, u : y = Por("NEW_TRAER", p) /\ z = Por(o, p) /\ u = <<z>>
  OBVIOUS
<1>4. /\ \A t : Esta(t, pila[h]) <=> t = y
      /\ pila'[h] = <<z>> /\ \A k \in Hilos \ {h} : pila'[k] = pila[k]
      /\ z.op = o /\ z.pid = p /\ y.op = "NEW_TRAER" /\ y.pid = p
  <2>1. y.op = "NEW_TRAER" /\ y.pid = p /\ z.op = o /\ z.pid = p /\ z \in Tarea
    BY <1>3, PorTarea DEF Por, Ops
  <2>2. pila[h] # <<>> /\ Head(pila[h]) = y /\ Sigue(h, u) /\ u = <<z>>
    BY <1>2, <1>3 DEF NewTraer, Toca
  <2>3. y.op \in Creadoras
    BY <2>1 DEF Creadoras
  <2>4. /\ \A t : Esta(t, pila[h]) <=> t = y
        /\ pila'[h] = u
        /\ \A k \in Hilos \ {h} : pila'[k] = pila[k]
    <3>1. z \in Tarea
      BY <2>1
    <3> QED
      BY <2>2, <2>3, <3>1, PilaDeCreador, ZenonT(30)
  <2> QED
    BY <2>1, <2>2, <2>4
<1>5. \A t : Esta(t, <<z>>) <=> t = z
  BY EstaEnUna
<1>6. UNCHANGED <<estado, cola, contexto, enIO>> /\ Nacidos' = Nacidos /\ EnCola' = EnCola
  BY DEF NewTraer, planVars, cpuVars, guionVars, Nacidos, EnCola, Esta
<1>7. (h = Main \/ \E c \in Cpus : h = Cpu(c)) /\ p \in Nacidos
  BY <1>4 DEF IInvOrden, UnCreador, SoloNacidos, Creadoras
<1>8. UnCreador'
  <2>1. \A k \in Hilos : \A t : Esta(t, pila'[k]) /\ t.op \in Creadoras =>
            pila'[k] = <<t>> /\ (k = Main \/ \E c \in Cpus : k = Cpu(c))
    BY <1>4, <1>5, <1>7 DEF IInvOrden, UnCreador
  <2>2. ASSUME NEW t, Esta(t, pila'[Main]), t.op \in Creadoras
        PROVE  /\ \A k \in Hilos \ {Main} : pila'[k] = <<>>
               /\ \A c \in Cpus : contexto'[c] = <<>>
               /\ enIO' = {}
    <3>1. \E x : Esta(x, pila[Main]) /\ x.op \in Creadoras
      BY <1>1, <1>4, <2>2 DEF Creadoras
    <3>2. h = Main
      BY <1>4, <3>1, EstaEnVacia DEF IInvOrden, UnCreador
    <3> QED
      BY <1>4, <1>6, <3>1, <3>2 DEF IInvOrden, UnCreador
  <2>3. \A k, l \in Hilos : \A t : Esta(t, pila'[k]) /\ Esta(t, pila'[l]) /\ t.op = "NEW" => k = l
    BY <1>4, <1>5 DEF IInvOrden, UnCreador
  <2> QED
    BY <2>1, <2>2, <2>3 DEF UnCreador
<1>9. SoloNacidos'
  <2>1. ASSUME NEW k \in Hilos, NEW t, Esta(t, pila'[k]), t.pid \in Procs
        PROVE  IF t.op = "NEW" THEN estado'[t.pid] = "CREADO" ELSE t.pid \in Nacidos'
    BY <1>4, <1>5, <1>6, <1>7, <2>1 DEF IInvOrden, SoloNacidos
  <2> QED
    BY <1>6, <2>1 DEF IInvOrden, SoloNacidos
<1>10. ASSUME NEW k \in Hilos, NEW t, Esta(t, pila'[k]), t.op = "NEW_INIT", estado[t.pid] = "NEW"
       PROVE  cola["NEW"] # <<>> /\ Head(cola["NEW"]) = t.pid
  <2>1. CASE k # h
    BY <1>4, <1>10, <2>1 DEF IInvOrden, Admision
  <2>2. CASE k = h
    <3>1. t = z /\ o = "NEW_INIT" /\ t.pid = p
      BY <1>4, <1>5, <1>10, <2>2
    <3>2. PICK s : s = cola["NEW"] /\ s \in Seq(Procs)
      BY <1>1
    <3>3. Esta(p, s)
      BY <1>10, <3>1, <3>2 DEF IInvOrden, Admision
    <3>4. s # <<>>
      BY <3>2, <3>3, ElementoDe
    <3>5. Len(s) = 1 => Head(s) = p
      <4>1. ASSUME Len(s) = 1 PROVE Head(s) = p
        <5>1. DOMAIN s = {1}
          BY <3>2, <4>1
        <5>2. s[1] = p
          BY <3>3, <5>1 DEF Esta
        <5> QED
          BY <3>2, <3>4, <5>2
      <4> QED
        BY <4>1
    <3>6. Len(s) = 1 \/ Head(s) = p
      BY <1>2, <3>1, <3>2 DEF PuedeAdmitir
    <3> QED
      BY <3>1, <3>2, <3>4, <3>5, <3>6
  <2> QED
    BY <2>1, <2>2
<1>11. Admision'
  BY <1>6, <1>10 DEF IInvOrden, Admision
<1> QED
  BY <1>8, <1>9, <1>11 DEF IInvOrden

LEMMA OrdenDeInitProc ==
    ASSUME IInvOrden, IInvTipos', NEW c \in Cpus, SyscallInitProc(c)
    PROVE  IInvOrden'
<1>1. /\ OtrosTipos /\ Cpu(c) \in Hilos /\ Main # Cpu(c) /\ Main \in Hilos
      /\ pila \in [Hilos -> Seq(Tarea)] /\ estado \in [Procs -> Estados]
      /\ contexto \in [Cpus -> Seq([pid : Procs, pc : Nat])]
  BY TiposJuntos, HilosPropios DEF IInvOrden, IInvTipos, TypeOK
<1>2. PICK q, y : q = Instruccion(c).pid /\ y = Por("NEW", q)
  OBVIOUS
<1>3. /\ contexto[c] # <<>> /\ pila[Cpu(c)] = <<>> /\ estado[q] = "NO_CREADO"
      /\ estado' = [estado EXCEPT ![q] = "CREADO"]
      /\ pila' = [pila EXCEPT ![Cpu(c)] = <<y>>]
      /\ contexto' = [contexto EXCEPT ![c] = <<[Corre(c) EXCEPT !.pc = PcSiguiente(c)]>> \o Tail(@)]
      /\ UNCHANGED <<cola, enIO>>
  BY <1>2 DEF SyscallInitProc, Pide, guionVars
<1>4. q \in Procs /\ y.op = "NEW" /\ y.pid = q
  BY <1>1, <1>2, <1>3, CorreTipo DEF Por
<1>5. /\ pila'[Cpu(c)] = <<y>> /\ \A k \in Hilos \ {Cpu(c)} : pila'[k] = pila[k]
      /\ \A t : Esta(t, <<y>>) <=> t = y
  BY <1>1, <1>3, EstaEnUna
<1>6. \A t : Esta(t, pila[Main]) => t.op \notin Creadoras
  BY <1>3 DEF IInvOrden, UnCreador
<1>7. /\ Nacidos' = Nacidos /\ q \notin Nacidos /\ EnCola' = EnCola
      /\ \A x \in Procs : x # q => estado'[x] = estado[x]
      /\ estado'[q] = "CREADO"
  BY <1>1, <1>3, <1>4 DEF Nacidos, NoNatos, EnCola, Esta
<1>8. ASSUME NEW k \in Hilos, NEW t, Esta(t, pila[k]), t.pid \in Procs PROVE t.pid # q
  BY <1>3, <1>7, <1>8 DEF IInvOrden, SoloNacidos
<1>9. UnCreador'
  <2>1. \A k \in Hilos : \A t : Esta(t, pila'[k]) /\ t.op \in Creadoras =>
            pila'[k] = <<t>> /\ (k = Main \/ \E d \in Cpus : k = Cpu(d))
    BY <1>5 DEF IInvOrden, UnCreador
  <2>2. \A t : Esta(t, pila'[Main]) => t.op \notin Creadoras
    BY <1>1, <1>5, <1>6
  <2>3. \A k, l \in Hilos : \A t : Esta(t, pila'[k]) /\ Esta(t, pila'[l]) /\ t.op = "NEW" => k = l
    <3>1. \A k \in Hilos : ~Esta(y, pila[k])
      BY <1>4, <1>8
    <3> QED
      BY <1>5, <3>1 DEF IInvOrden, UnCreador
  <2> QED
    BY <2>1, <2>2, <2>3 DEF UnCreador
<1>10. ASSUME NEW d \in Cpus, NEW x, Esta(x, contexto'[d]) PROVE x.pid \in Nacidos
  <2>1. CASE d # c
    BY <1>1, <1>3, <1>10, <2>1 DEF IInvOrden, SoloNacidos
  <2>2. CASE d = c
    <3>1. PICK C, s, v, r, u : /\ C = [pid : Procs, pc : Nat] /\ s = contexto[c] /\ r = Tail(s)
                               /\ v = [Corre(c) EXCEPT !.pc = PcSiguiente(c)] /\ u = <<v>>
      OBVIOUS
    <3>2. v \in C /\ v.pid = PidDe(c) /\ Esta(Corre(c), s)
      BY <1>1, <1>3, <3>1, CorreTipo DEF PidDe
    <3>3. u \in Seq(C) /\ s \in Seq(C) /\ s # <<>>
      <4>1. s \in Seq([pid : Procs, pc : Nat])
        BY <1>1, <3>1
      <4> QED
        BY <1>3, <3>1, <3>2, <4>1
    <3>4. \A t : Esta(t, u \o r) => Esta(t, u) \/ Esta(t, s)
      <4>1. r = Tail(s)
        BY <3>1
      <4>2. /\ \A t : Esta(t, u \o Tail(s)) <=> Esta(t, u) \/ Esta(t, Tail(s))
            /\ \A t : Esta(t, Tail(s)) => Esta(t, s)
        BY <3>3, TrasLaPrimera
      <4> QED
        BY <4>1, <4>2
    <3>5. contexto'[d] = u \o r
      BY <1>1, <1>3, <2>2, <3>1
    <3>8. \A t : Esta(t, u) => t = v
      BY <3>1, EstaEnUna
    <3>6. x = v \/ Esta(x, s)
      BY <1>10, <3>4, <3>5, <3>8
    <3>7. \A t : Esta(t, s) => t.pid \in Nacidos
      BY <3>1 DEF IInvOrden, SoloNacidos
    <3> QED
      BY <3>2, <3>6, <3>7 DEF PidDe
  <2> QED
    BY <2>1, <2>2
<1>11. SoloNacidos'
  <2>1. ASSUME NEW k \in Hilos, NEW t, Esta(t, pila'[k]), t.pid \in Procs
        PROVE  IF t.op = "NEW" THEN estado'[t.pid] = "CREADO" ELSE t.pid \in Nacidos'
    BY <1>4, <1>5, <1>7, <1>8, <2>1 DEF IInvOrden, SoloNacidos
  <2> QED
    BY <1>3, <1>7, <1>10, <2>1 DEF IInvOrden, SoloNacidos
<1>12. Admision'
  <2>1. ASSUME NEW k \in Hilos, NEW t, Esta(t, pila'[k]), t.op = "NEW_INIT", estado'[t.pid] = "NEW"
        PROVE  cola["NEW"] # <<>> /\ Head(cola["NEW"]) = t.pid
    <3>1. Esta(t, pila[k])
      BY <1>4, <1>5, <2>1
    <3>2. t.pid \in Procs
      BY <2>1, <3>1 DEF IInvOrden, IInvTipos, TareasBien, Sueltas
    <3>3. estado[t.pid] = "NEW"
      BY <1>7, <1>8, <2>1, <3>1, <3>2
    <3> QED
      BY <2>1, <3>1, <3>3 DEF IInvOrden, Admision
  <2>2. \A x \in Procs : estado'[x] = "NEW" <=> estado[x] = "NEW"
    BY <1>3, <1>7
  <2> QED
    BY <1>3, <2>1, <2>2 DEF IInvOrden, Admision
<1> QED
  BY <1>9, <1>11, <1>12 DEF IInvOrden

LEMMA OrdenPasoAPaso == EnOrden /\ IInvOrden /\ [Next]_vars => IInvOrden'
<1> SUFFICES ASSUME EnOrden, IInvOrden, [Next]_vars PROVE IInvOrden'
  OBVIOUS
<1>1. IInvTipos'
  BY TiposPasoAPaso DEF IInvOrden
<1>2. ASSUME NEW h \in Hilos, PasoHilo(h) PROVE IInvOrden'
  <2>1. CASE DePlanificador(h)
    BY <1>1, <2>1, OrdenDePlanificador
  <2>2. ASSUME NEW p \in Procs, DeProceso(h, p) PROVE IInvOrden'
    BY <1>1, <2>2, OrdenDeNew, OrdenDeNewTraer, OrdenDeProceso
  <2> QED
    BY <1>2, <2>1, <2>2 DEF PasoHilo
<1>3. ASSUME NEW c \in Cpus, DeCpu(c) PROVE IInvOrden'
  BY <1>1, <1>3, OrdenDeInitProc, OrdenDeCpu
<1>4. ASSUME NEW x \in Conexiones, DesbloqueoIO(x) PROVE IInvOrden'
  BY <1>1, <1>4, OrdenDeIO
<1>5. CASE PasoMuere
  BY <1>1, <1>5, OrdenDeMuerto
<1>6. CASE Reposo \/ UNCHANGED vars
  <2>1. UNCHANGED <<pila, estado, cola, contexto, enIO>>
    BY <1>6 DEF Reposo, vars, otras, planVars, cpuVars, guionVars
  <2>2. UNCHANGED <<Nacidos, EnCola>>
    BY <2>1 DEF Nacidos, EnCola
  <2>3. UnCreador'
    BY <2>1 DEF IInvOrden, UnCreador
  <2>4. SoloNacidos'
    BY <2>1, <2>2 DEF IInvOrden, SoloNacidos
  <2>5. Admision'
    BY <2>1 DEF IInvOrden, Admision
  <2> QED
    BY <1>1, <2>3, <2>4, <2>5 DEF IInvOrden
<1> QED
  BY <1>2, <1>3, <1>4, <1>5, <1>6 DEF Next

LEMMA OrdenAlEmpezar == Init => IInvOrden
<1> SUFFICES ASSUME Init PROVE IInvOrden
  OBVIOUS
<1>1. IInvTipos
  BY TiposAlEmpezar
<1>2. PICK y : y = Por("NEW", Primero)
  OBVIOUS
<1>3. y.op = "NEW" /\ y.pid = Primero /\ Primero \in Procs /\ Main \in Hilos
  BY <1>2, PrimeroAssumption, HilosPropios DEF Por
<1>4. \A t : Esta(t, <<y>>) <=> t = y
  BY EstaEnUna
<1>5. /\ pila[Main] = <<y>> /\ \A k \in Hilos \ {Main} : pila[k] = <<>>
      /\ \A c \in Cpus : contexto[c] = <<>>
      /\ \A c \in Colas : cola[c] = <<>>
      /\ enIO = {} /\ estado[Primero] = "CREADO"
      /\ \A q \in Procs : estado[q] # "NEW"
  BY <1>2, <1>3 DEF Init
<1>6. \A k \in Hilos : \A t : Esta(t, pila[k]) => k = Main /\ t = y
  BY <1>4, <1>5, EstaEnVacia
<1>7. UnCreador
  BY <1>5, <1>6 DEF UnCreador
<1>8. SoloNacidos
  BY <1>3, <1>5, <1>6, EstaEnVacia DEF SoloNacidos, EnCola
<1>9. Admision
  <2>1. \A q \in Procs : ~Esta(q, cola["READY_SUSPENDED"])
    BY <1>5, EstaEnVacia DEF Colas
  <2>2. \A k \in Hilos : \A t : Esta(t, pila[k]) => t.op # "NEW_INIT"
    BY <1>3, <1>6
  <2> QED
    BY <1>5, <2>1, <2>2 DEF Admision
<1> QED
  BY <1>1, <1>7, <1>8, <1>9 DEF IInvOrden

(* Who is given a page table in a step.                                     *)
Ordenado == \A p \in residentes' \ residentes : estado[p] = "NEW" => p = Head(cola["NEW"])

LEMMA OrdenEnCadaPaso == IInvOrden /\ [Next]_vars => Ordenado
<1> SUFFICES ASSUME IInvOrden, [Next]_vars, NEW p \in residentes' \ residentes, estado[p] = "NEW"
             PROVE  p = Head(cola["NEW"])
  BY DEF Ordenado
<1>1. pila \in [Hilos -> Seq(Tarea)] /\ cola \in [Colas -> Seq(Procs)]
      /\ "READY_SUSPENDED" \in Colas
  BY DEF IInvOrden, IInvTipos, TypeOK, Colas
<1>2. ASSUME NEW h \in Hilos, NEW q \in Procs, DeProceso(h, q) PROVE p = Head(cola["NEW"])
  <2>1. NewInit(h, q) \/ residentes' \subseteq residentes
    BY <1>2
       DEF DeProceso, New, NewTraer, NewFin, Ready, ReadyCpu, Execute, Enviar, Blocked,
           Bloquear, Join, CrearTimer, TimerArranca, TimerCancelado, TimerVence, TimerRevisa,
           Suspender, SuspenderMem, TimerCancela, TimerTermina, ReadySuspended,
           ReadySuspendedVer, Desbloqueo, EncolarIO, Exit, ExitMem, Dump, DumpOk, DumpFin,
           DumpError, DumpExit, Solo, otras, memVars, MemSuspender, MemFinalizar
  <2>2. NewInit(h, q)
    BY <2>1
  <2>3. p = q
    <3>1. residentes' \subseteq residentes \cup {q}
      BY <2>2 DEF NewInit, MemInit, memVars
    <3> QED
      BY <3>1
  <2>4. PICK t : t = Por("NEW_INIT", p) /\ pila[h] # <<>> /\ Head(pila[h]) = t
    BY <2>2, <2>3 DEF NewInit, Toca
  <2>5. Esta(t, pila[h]) /\ t.op = "NEW_INIT" /\ t.pid = p
    BY <1>1, <2>4, Cabeza DEF Por
  <2> QED
    BY <2>5 DEF IInvOrden, Admision
<1>3. ASSUME NEW h \in Hilos, DePlanificador(h) PROVE p = Head(cola["NEW"])
  <2>1. CASE TraerRS(h)
    <3>1. cola["READY_SUSPENDED"] # <<>> /\ p = Head(cola["READY_SUSPENDED"])
      BY <2>1 DEF TraerRS, Elegido, MemDesuspender, memVars
    <3>2. Esta(p, cola["READY_SUSPENDED"]) /\ p \in Procs
      BY <1>1, <3>1, Cabeza
    <3> QED
      BY <3>2 DEF IInvOrden, Admision
  <2>2. CASE TraerNew(h)
    BY <2>2 DEF TraerNew, Elegido, MemInit, memVars
  <2> QED
    BY <1>3, <2>1, <2>2
       DEF DePlanificador, TraerEntra, TraerVerNew, MandarEntra, MandarVer, MandarTomar, memVars
<1>4. ASSUME NEW h \in Hilos, PasoHilo(h) PROVE p = Head(cola["NEW"])
  BY <1>2, <1>3, <1>4 DEF PasoHilo
<1>5. ASSUME ~ \E h \in Hilos : PasoHilo(h) PROVE FALSE
  BY <1>5 DEF Next, PasoMuere, TimerMuere, DeCpu, LiberarCpu, SyscallExit, SyscallBloqueante,
              SyscallInitProc, DesbloqueoIO, Reposo, vars, otras, memVars
<1> QED
  BY <1>4, <1>5

(* Memoria is given a process from NEW only when it is the first of its     *)
(* queue, although others come into the queue while a thread waits for it   *)
(* (kernel-cambios-de-estado.c): with FIFO admission however many CPUs      *)
(* create processes, with PMCP if there is one.                             *)
THEOREM EntranEnOrden == ASSUME EnOrden PROVE Spec => OrdenDeIngreso
<1>1. Init => IInvOrden
  BY OrdenAlEmpezar
<1>2. IInvOrden /\ [Next]_vars => IInvOrden'
  BY OrdenPasoAPaso
<1>3. IInvOrden /\ [Next]_vars => [Ordenado]_vars
  BY OrdenEnCadaPaso
<1>4. Spec => [][Ordenado]_vars
  BY <1>1, <1>2, <1>3, PTL DEF Spec
<1> QED
  BY <1>4 DEF OrdenDeIngreso, Ordenado
-----------------------------------------------------------------------------
(* Who will take out a process that is blocked.                             *)

(* The threads nobody cancels, the tasks that take a process out of BLOCKED *)
(* or BLOCKED_SUSPENDED, and the one that does only from the second.        *)
Fijos == Hilos \ Timers
Salidas == Despiertan \ {"READY_SUSPENDED"}
Dormidos == {"BLOCKED", "BLOCKED_SUSPENDED"}
Saca(t, p) ==
    /\ t.pid = p
    /\ \/ t.op \in Salidas
       \/ t.op = "READY_SUSPENDED" /\ estado[p] = "BLOCKED_SUSPENDED"

(* A thread blocks a process first of all, and has its way out after it.    *)
Bloqueantes ==
    \A h \in Hilos : pila[h] # <<>> =>
        /\ \A t : Esta(t, Tail(pila[h])) => t.op # "BLOCKED"
        /\ Head(pila[h]).op = "BLOCKED" =>
               /\ h \in Fijos
               /\ \E t : /\ Esta(t, Tail(pila[h]))
                         /\ t.op \in Salidas /\ t.pid = Head(pila[h]).pid

Despertados ==
    \A p \in Procs : estado[p] \in Dormidos =>
        p \in enIO \/ \E h \in Fijos : \E t : Esta(t, pila[h]) /\ Saca(t, p)

IInvDespierta == IInvTipos /\ Bloqueantes /\ Despertados

(* Tasks that block nobody.                                                 *)
Suave(u) == u \in Seq(Tarea) /\ \A t : Esta(t, u) => t.op # "BLOCKED"

LEMMA SuaveNada == Suave(<<>>)
BY EstaEnVacia DEF Suave

LEMMA SuaveUna ==
    ASSUME NEW t \in Tarea, t.op # "BLOCKED"
    PROVE  Suave(<<t>>)
<1>1. <<t>> \in Seq(Tarea) /\ \A x : Esta(x, <<t>>) <=> x = t
  BY EstaEnUna
<1> QED
  BY <1>1 DEF Suave

LEMMA SuaveDos ==
    ASSUME NEW t \in Tarea, t.op # "BLOCKED", NEW v \in Tarea, v.op # "BLOCKED"
    PROVE  Suave(<<t, v>>)
<1>1. <<t, v>> \in Seq(Tarea) /\ \A x : Esta(x, <<t, v>>) <=> x = t \/ x = v
  BY EstaEnDos
<1> QED
  BY <1>1 DEF Suave

(* The states after a step that blocks nobody.                              *)
NoBloquea ==
    \A q \in Procs : /\ estado'[q] \in Dormidos => estado[q] \in Dormidos
                     /\ estado'[q] = "BLOCKED" => estado[q] = "BLOCKED"

(* What takes the place of the task that was to take a process out.         *)
Releva(h, u) ==
    \A q \in Procs : Saca(Head(pila[h]), q) /\ estado'[q] \in Dormidos =>
        q \in enIO' \/ \E t : Esta(t, u) /\ Saca(t, q)'

(* The first of a list and the rest of it.                                  *)
LEMMA CabezaOResto ==
    ASSUME NEW S, NEW s \in Seq(S), s # <<>>
    PROVE  \A t : Esta(t, s) <=> t = Head(s) \/ Esta(t, Tail(s))
<1>1. PICK r, n : r = Tail(s) /\ n = Len(s)
  OBVIOUS
<1>2. r \in Seq(S) /\ Len(r) = n - 1 /\ n \in Nat /\ n >= 1 /\ DOMAIN s = 1..n /\ DOMAIN r = 1..(n - 1)
      /\ Head(s) = s[1] /\ \A i \in 1..(n - 1) : r[i] = s[i + 1]
  BY <1>1
<1>3. ASSUME NEW i \in 1..n PROVE s[i] = Head(s) \/ Esta(s[i], r)
  <2>1. CASE i = 1
    BY <1>2, <2>1
  <2>2. CASE i # 1
    <3>1. i - 1 \in 1..(n - 1) /\ r[i - 1] = s[i]
      BY <1>2, <1>3, <2>2
    <3> QED
      BY <1>2, <3>1 DEF Esta
  <2> QED
    BY <2>1, <2>2
<1>4. ASSUME NEW i \in 1..(n - 1) PROVE Esta(r[i], s)
  <2>1. i + 1 \in 1..n /\ s[i + 1] = r[i]
    BY <1>2, <1>4
  <2> QED
    BY <1>2, <2>1 DEF Esta
<1>5. Esta(Head(s), s)
  BY Cabeza
<1>6. \A t : Esta(t, s) => t = Head(s) \/ Esta(t, r)
  BY <1>2, <1>3 DEF Esta
<1>7. \A t : Esta(t, r) => Esta(t, s)
  BY <1>2, <1>4 DEF Esta
<1> QED
  BY <1>1, <1>5, <1>6, <1>7

(* A thread goes on with tasks that block nobody.                           *)
LEMMA PilasSuaves ==
    ASSUME IInvDespierta, NEW h \in Hilos, pila[h] # <<>>, NEW u, Suave(u), Sigue(h, u)
    PROVE  /\ Bloqueantes'
           /\ \A k \in Hilos \ {h} : pila'[k] = pila[k]
           /\ \A t : Esta(t, pila[h]) => t = Head(pila[h]) \/ Esta(t, Tail(pila[h]))
           /\ \A t : Esta(t, pila'[h]) <=> Esta(t, u) \/ Esta(t, Tail(pila[h]))
<1>1. PICK s, r : s = pila[h] /\ r = u \o Tail(s)
  OBVIOUS
<1>2. s \in Seq(Tarea) /\ s # <<>> /\ u \in Seq(Tarea) /\ pila \in [Hilos -> Seq(Tarea)]
  BY <1>1 DEF Suave, IInvDespierta, IInvTipos, TypeOK
<1>3. /\ r \in Seq(Tarea) /\ Tail(s) \in Seq(Tarea)
      /\ \A t : Esta(t, r) <=> Esta(t, u) \/ Esta(t, Tail(s))
  BY <1>1, <1>2, TrasLaPrimera
<1>4. pila'[h] = r /\ \A k \in Hilos \ {h} : pila'[k] = pila[k]
  BY <1>1, <1>2, <1>3 DEF Sigue
<1>5. \A t : Esta(t, s) => t = Head(s) \/ Esta(t, Tail(s))
  BY <1>2, CabezaOResto
<1>6. \A t : Esta(t, r) => t.op # "BLOCKED"
  BY <1>1, <1>2, <1>3 DEF Suave, IInvDespierta, Bloqueantes
<1>7. Bloqueantes'
  <2>1. ASSUME NEW k \in Hilos, pila'[k] # <<>>
        PROVE  /\ \A t : Esta(t, Tail(pila'[k])) => t.op # "BLOCKED"
               /\ Head(pila'[k]).op = "BLOCKED" =>
                      /\ k \in Fijos
                      /\ \E t : /\ Esta(t, Tail(pila'[k]))
                                /\ t.op \in Salidas /\ t.pid = Head(pila'[k]).pid
    <3>1. CASE k = h
      <4>1. pila'[k] = r /\ r # <<>>
        BY <1>4, <2>1, <3>1
      <4>2. Esta(Head(r), r) /\ \A t : Esta(t, Tail(r)) => Esta(t, r)
        BY <1>3, <4>1, Cabeza, SuaveNada, TrasLaPrimera DEF Suave
      <4> QED
        BY <1>6, <4>1, <4>2
    <3>2. CASE k # h
      BY <1>4, <2>1, <3>2 DEF IInvDespierta, Bloqueantes
    <3> QED
      BY <3>1, <3>2
  <2> QED
    BY <2>1 DEF Bloqueantes
<1> QED
  BY <1>1, <1>3, <1>4, <1>5, <1>7

LEMMA DespiertaSigue ==
    ASSUME IInvDespierta, IInvTipos', NEW h \in Hilos, pila[h] # <<>>, NEW u, Suave(u),
           Sigue(h, u), NoBloquea, enIO \subseteq enIO', Releva(h, u)
    PROVE  IInvDespierta'
<1>1. /\ Bloqueantes'
      /\ \A k \in Hilos \ {h} : pila'[k] = pila[k]
      /\ \A t : Esta(t, pila[h]) => t = Head(pila[h]) \/ Esta(t, Tail(pila[h]))
      /\ \A t : Esta(t, pila'[h]) <=> Esta(t, u) \/ Esta(t, Tail(pila[h]))
  BY PilasSuaves
<1>2. Despertados'
  <2>1. ASSUME NEW q \in Procs, estado'[q] \in Dormidos
        PROVE  q \in enIO' \/ \E k \in Fijos : \E t : Esta(t, pila'[k]) /\ Saca(t, q)'
    <3>1. estado[q] \in Dormidos
      BY <2>1 DEF NoBloquea
    <3>2. CASE q \in enIO
      BY <3>2
    <3>3. ASSUME NEW k \in Fijos, NEW t, Esta(t, pila[k]), Saca(t, q)
          PROVE  q \in enIO' \/ \E j \in Fijos : \E x : Esta(x, pila'[j]) /\ Saca(x, q)'
      <4>1. Saca(t, q)'
        <5>1. estado[q] = "BLOCKED_SUSPENDED" => estado'[q] = "BLOCKED_SUSPENDED"
          BY <2>1 DEF NoBloquea, Dormidos
        <5> QED
          BY <3>3, <5>1 DEF Saca
      <4>2. CASE k # h
        BY <1>1, <3>3, <4>1, <4>2 DEF Fijos
      <4>3. CASE k = h /\ Esta(t, Tail(pila[h]))
        BY <1>1, <4>1, <4>3
      <4>4. CASE k = h /\ t = Head(pila[h])
        <5>1. q \in enIO' \/ \E x : Esta(x, u) /\ Saca(x, q)'
          BY <2>1, <3>3, <4>4 DEF Releva
        <5> QED
          BY <1>1, <4>4, <5>1
      <4> QED
        BY <1>1, <3>3, <4>2, <4>3, <4>4
    <3> QED
      BY <3>1, <3>2, <3>3 DEF IInvDespierta, Despertados
  <2> QED
    BY <2>1 DEF Despertados
<1> QED
  BY <1>1, <1>2 DEF IInvDespierta

(* The operations that take no process out replace tasks that do not.       *)
LEMMA NoReleva ==
    ASSUME NEW h \in Hilos, NEW o \in Ops \ Despiertan, NEW p, Toca(h, o, p), NEW u
    PROVE  pila[h] # <<>> /\ Releva(h, u)
<1>1. pila[h] # <<>> /\ Head(pila[h]).op = o
  BY DEF Toca, Por
<1>2. o \notin Salidas /\ o # "READY_SUSPENDED"
  BY DEF Salidas, Despiertan
<1> QED
  BY <1>1, <1>2 DEF Releva, Saca

(* The operations that do leave another such task, or leave it moved.       *)
LEMMA RelevaUna ==
    ASSUME NEW h \in Hilos, NEW o \in Ops, NEW p \in Procs, Toca(h, o, p), NEW u,
           NEW t, Esta(t, u), t.pid = p, t.op \in Salidas
    PROVE  pila[h] # <<>> /\ Releva(h, u)
<1>1. pila[h] # <<>> /\ Head(pila[h]).pid = p
  BY DEF Toca, Por
<1>2. Saca(t, p)'
  BY DEF Saca
<1> QED
  BY <1>1, <1>2 DEF Releva, Saca

LEMMA RelevaMovido ==
    ASSUME NEW h \in Hilos, NEW o \in Ops, NEW p \in Procs, Toca(h, o, p), NEW u,
           estado'[p] \notin Dormidos
    PROVE  pila[h] # <<>> /\ Releva(h, u)
<1>1. pila[h] # <<>> /\ Head(pila[h]).pid = p
  BY DEF Toca, Por
<1> QED
  BY <1>1 DEF Releva, Saca

LEMMA NoBloqueaProceso ==
    ASSUME estado \in [Procs -> Estados], NEW h \in Hilos, NEW p \in Procs, DeProceso(h, p),
           ~Blocked(h, p)
    PROVE  NoBloquea
<1> USE DEF CambiarEstado, Dormidos, NoBloquea
<1>1. CASE UNCHANGED estado
  BY <1>1
<1>2. CASE \E e \in {"NEW", "READY", "EXECUTE", "READY_SUSPENDED", "EXIT", "ELIMINADO"} :
              estado' = [estado EXCEPT ![p] = e]
  BY <1>2
<1>3. CASE Suspender(h, p)
  <2>1. CASE Suspendible(p)
    <3>1. estado' = [estado EXCEPT ![p] = "BLOCKED_SUSPENDED"] /\ estado[p] = "BLOCKED"
      BY <1>3, <2>1 DEF Suspender, Suspendible
    <3> QED
      BY <3>1
  <2>2. CASE ~Suspendible(p)
    BY <1>1, <1>3, <2>2 DEF Suspender, planVars
  <2> QED
    BY <2>1, <2>2
<1>4. CASE \/ New(h, p) \/ Ready(h, p) \/ Execute(h, p) \/ ReadySuspended(h, p)
           \/ Exit(h, p) \/ ExitMem(h, p)
  BY <1>1, <1>2, <1>4 DEF New, Ready, Execute, ReadySuspended, Exit, ExitMem, planVars
<1>5. CASE ~(\/ New(h, p) \/ Ready(h, p) \/ Execute(h, p) \/ ReadySuspended(h, p)
             \/ Exit(h, p) \/ ExitMem(h, p) \/ Suspender(h, p))
  BY <1>1, <1>5
     DEF DeProceso, NewTraer, NewInit, NewFin, ReadyCpu, Enviar, Bloquear, Join, CrearTimer,
         TimerArranca, TimerCancelado, TimerVence, TimerRevisa, SuspenderMem, TimerCancela,
         TimerTermina, ReadySuspendedVer, Desbloqueo, EncolarIO, Dump, DumpOk, DumpFin,
         DumpError, DumpExit, Solo, otras, planVars
<1> QED
  BY <1>3, <1>4, <1>5

(* Operations of a thread on a process, but for blocking it.                *)
LEMMA TareasSuaves ==
    ASSUME NEW h \in Hilos, NEW p \in Procs, DeProceso(h, p), ~Blocked(h, p), ~CrearTimer(h, p),
           estado \in [Procs -> Estados], enIO \in SUBSET Procs
    PROVE  /\ pila[h] # <<>> /\ enIO \subseteq enIO'
           /\ \E u : Suave(u) /\ Sigue(h, u) /\ Releva(h, u)
<1> DEFINE Otras == Ops \ {"BLOCKED"}
<1>1. \A o \in Otras : /\ Por(o, p) \in Tarea /\ Por(o, p).op # "BLOCKED" /\ Por(o, p).pid = p
                       /\ Por(o, p).op = o
  BY PorTarea
<1>2. Suave(<<>>) /\ \A o \in Otras : Suave(<<Por(o, p)>>)
  BY <1>1, SuaveNada, SuaveUna
<1>3. \A o, x \in Otras : Suave(<<Por(o, p), Por(x, p)>>)
  BY <1>1, SuaveDos
<1>4. Sola("TRAER") \in Tarea /\ Sola("TRAER").op # "BLOCKED"
  BY SolaTarea DEF Sueltas, Sola
<1>5. Suave(<<Sola("TRAER")>>)
  BY <1>4, SuaveUna
<1>6. Suave(<<Sola("TRAER"), Por("CANCELAR", p)>>)
  <2>1. "CANCELAR" \in Otras
    BY DEF Ops
  <2> QED
    BY <1>1, <1>4, <2>1, SuaveDos
<1>7. {"NEW_TRAER", "NEW_INIT", "NEW_FIN", "READY", "READY_CPU", "EXECUTE", "ENVIAR", "BLOQUEAR",
       "JOIN", "CREAR_TIMER", "DORMIR", "REVISAR", "FIN_TIMER", "SUSPENDER", "SUSPENDER_MEM",
       "CANCELAR", "RS_VER", "EXIT_MEM", "EXIT", "READY_SUSPENDED", "DUMP_ERROR", "DUMP_OK",
       "DUMP_FIN", "DUMP_EXIT"} \subseteq Otras
  BY DEF Ops
<1> HIDE DEF Otras
<1>8. {"NEW", "NEW_TRAER", "NEW_INIT", "NEW_FIN", "READY_CPU", "EXECUTE", "ENVIAR", "BLOQUEAR",
       "JOIN", "TIMER", "DORMIR", "REVISAR", "SUSPENDER", "SUSPENDER_MEM", "CANCELAR",
       "FIN_TIMER", "RS_VER", "EXIT_MEM"} \subseteq Ops \ Despiertan
  BY DEF Ops, Despiertan
<1>9. enIO \subseteq enIO'
  BY DEF DeProceso, New, NewTraer, NewInit, NewFin, Ready, ReadyCpu, Execute, Enviar, Blocked,
         Bloquear, Join, TimerArranca, TimerCancelado, TimerVence, TimerRevisa,
         Suspender, SuspenderMem, TimerCancela, TimerTermina, ReadySuspended,
         ReadySuspendedVer, Exit, ExitMem, Desbloqueo, EncolarIO, Dump, DumpOk, DumpFin,
         DumpError, DumpExit, Solo, otras, guionVars
<1>10. ASSUME NEW o \in Ops \ Despiertan, Toca(h, o, p), NEW u, Suave(u), Sigue(h, u)
       PROVE  pila[h] # <<>> /\ \E v : Suave(v) /\ Sigue(h, v) /\ Releva(h, v)
  BY <1>10, NoReleva
<1>11. CASE New(h, p) \/ NewTraer(h, p) \/ NewFin(h, p)
  <2>1. \E o \in {"NEW", "NEW_TRAER", "NEW_FIN"} :
            Toca(h, o, p) /\ \E u : Suave(u) /\ Sigue(h, u)
    BY <1>2, <1>7, <1>11 DEF New, NewTraer, NewFin
  <2> QED
    BY <1>8, <1>9, <1>10, <2>1
<1>12. CASE NewInit(h, p)
  <2>1. Toca(h, "NEW_INIT", p) /\ \E u : Suave(u) /\ Sigue(h, u)
    BY <1>2, <1>3, <1>7, <1>12 DEF NewInit
  <2> QED
    BY <1>8, <1>9, <1>10, <2>1
<1>13. CASE ReadyCpu(h, p) \/ Execute(h, p) \/ Enviar(h, p)
  <2>1. \E o \in {"READY_CPU", "EXECUTE", "ENVIAR"} :
            Toca(h, o, p) /\ \E u : Suave(u) /\ Sigue(h, u)
    BY <1>2, <1>7, <1>13 DEF ReadyCpu, Execute, Enviar
  <2> QED
    BY <1>8, <1>9, <1>10, <2>1
<1>14. CASE Bloquear(h, p) \/ Join(h, p)
  <2>1. \E o \in {"BLOQUEAR", "JOIN"} : Toca(h, o, p) /\ \E u : Suave(u) /\ Sigue(h, u)
    BY <1>2, <1>3, <1>7, <1>14 DEF Bloquear, Join, Solo
  <2> QED
    BY <1>8, <1>9, <1>10, <2>1
<1>15. CASE TimerArranca(h, p) \/ TimerCancelado(h, p) \/ TimerVence(h, p) \/ TimerTermina(h, p)
  <2>1. \E o \in {"TIMER", "DORMIR", "FIN_TIMER"} :
            Toca(h, o, p) /\ \E u : Suave(u) /\ Sigue(h, u)
    BY <1>2, <1>7, <1>15 DEF TimerArranca, TimerCancelado, TimerVence, TimerTermina, Solo
  <2> QED
    BY <1>8, <1>9, <1>10, <2>1
<1>16. CASE TimerRevisa(h, p) \/ Suspender(h, p) \/ SuspenderMem(h, p) \/ TimerCancela(h, p)
  <2>1. \E o \in {"REVISAR", "SUSPENDER", "SUSPENDER_MEM", "CANCELAR"} :
            Toca(h, o, p) /\ \E u : Suave(u) /\ Sigue(h, u)
    BY <1>2, <1>3, <1>6, <1>7, <1>16 DEF TimerRevisa, Suspender, SuspenderMem, TimerCancela, Solo
  <2> QED
    BY <1>8, <1>9, <1>10, <2>1
<1>17. CASE ReadySuspendedVer(h, p) \/ ExitMem(h, p)
  <2>1. \E o \in {"RS_VER", "EXIT_MEM"} : Toca(h, o, p) /\ \E u : Suave(u) /\ Sigue(h, u)
    BY <1>2, <1>5, <1>17
       DEF ReadySuspendedVer, ExitMem, Solo, TraerSiEsUnico, DespuesDelExit
  <2> QED
    BY <1>8, <1>9, <1>10, <2>1
<1>18. CASE Ready(h, p) \/ Exit(h, p)
  <2>1. /\ \E o \in {"READY", "EXIT"} : Toca(h, o, p)
        /\ \E u : Suave(u) /\ Sigue(h, u)
        /\ \E e \in {"READY", "EXIT"} : estado' = [estado EXCEPT ![p] = e]
    BY <1>2, <1>7, <1>18 DEF Ready, Exit, CambiarEstado
  <2>2. estado'[p] \notin Dormidos /\ {"READY", "EXIT"} \subseteq Ops
    BY <2>1 DEF Dormidos, Ops
  <2> QED
    BY <1>9, <2>1, <2>2, RelevaMovido
<1>19. CASE ReadySuspended(h, p)
  <2>1. Toca(h, "READY_SUSPENDED", p) /\ "READY_SUSPENDED" \in Ops
    BY <1>19 DEF ReadySuspended, Ops
  <2>2. CASE estado[p] = "BLOCKED_SUSPENDED"
    <3>1. /\ \E u : Suave(u) /\ Sigue(h, u)
          /\ estado' = [estado EXCEPT ![p] = "READY_SUSPENDED"]
      BY <1>2, <1>7, <1>19, <2>2 DEF ReadySuspended, CambiarEstado
    <3>2. estado'[p] \notin Dormidos
      BY <3>1 DEF Dormidos
    <3> QED
      BY <1>9, <2>1, <3>1, <3>2, RelevaMovido
  <2>3. CASE estado[p] # "BLOCKED_SUSPENDED"
    <3>1. Suave(<<>>) /\ Sigue(h, <<>>)
      BY <1>2, <1>19, <2>3 DEF ReadySuspended
    <3>2. pila[h] # <<>> /\ Head(pila[h]).op = "READY_SUSPENDED" /\ Head(pila[h]).pid = p
      BY <2>1 DEF Toca, Por
    <3>3. Releva(h, <<>>)
      BY <2>3, <3>2 DEF Releva, Saca, Salidas
    <3> QED
      BY <1>9, <3>1, <3>2, <3>3
  <2> QED
    BY <2>2, <2>3
<1>20. ASSUME NEW o \in Ops, Toca(h, o, p), NEW v, NEW t, Esta(t, v), t.pid = p, t.op \in Salidas,
              Suave(v), Sigue(h, v)
       PROVE  pila[h] # <<>> /\ \E u : Suave(u) /\ Sigue(h, u) /\ Releva(h, u)
  BY <1>20, RelevaUna
<1>21. ASSUME NEW o \in Ops, Toca(h, o, p), NEW x \in Otras, x \in Salidas, Sigue(h, <<Por(x, p)>>)
       PROVE  pila[h] # <<>> /\ \E u : Suave(u) /\ Sigue(h, u) /\ Releva(h, u)
  <2>1. PICK t : t = Por(x, p) /\ t.pid = p /\ t.op = x /\ Suave(<<t>>) /\ Sigue(h, <<t>>)
    BY <1>1, <1>2, <1>21
  <2>2. Esta(t, <<t>>)
    BY EstaEnUna
  <2> QED
    BY <1>20, <1>21, <2>1, <2>2
<1>22. CASE Desbloqueo(h, p)
  <2>1. Toca(h, "DESBLOQUEO", p) /\ "DESBLOQUEO" \in Ops /\ UNCHANGED estado
        /\ Sigue(h, <<Por(DestinoTrasIO(p), p)>>)
    BY <1>22 DEF Desbloqueo, Ops, planVars
  <2>2. CASE estado[p] = "BLOCKED"
    BY <1>7, <1>9, <1>21, <2>1, <2>2 DEF DestinoTrasIO, Salidas, Despiertan
  <2>3. CASE estado[p] # "BLOCKED"
    <3>1. PICK t : t = Por("READY_SUSPENDED", p) /\ t.pid = p /\ t.op = "READY_SUSPENDED"
                   /\ Suave(<<t>>) /\ Sigue(h, <<t>>)
      BY <1>1, <1>2, <1>7, <2>1, <2>3 DEF DestinoTrasIO
    <3>2. Esta(t, <<t>>)
      BY EstaEnUna
    <3>3. pila[h] # <<>> /\ Head(pila[h]).pid = p
      BY <2>1 DEF Toca, Por
    <3>4. estado'[p] \in Dormidos => Saca(t, p)'
      BY <2>1, <2>3, <3>1 DEF Saca, Dormidos
    <3>5. Releva(h, <<t>>)
      BY <3>2, <3>3, <3>4 DEF Releva, Saca
    <3> QED
      BY <1>9, <3>1, <3>3, <3>5
  <2> QED
    BY <2>2, <2>3
<1>23. CASE EncolarIO(h, p)
  <2>1. Toca(h, "ENCOLAR_IO", p) /\ p \in enIO' /\ Suave(<<>>) /\ Sigue(h, <<>>)
    BY <1>2, <1>23 DEF EncolarIO
  <2>2. pila[h] # <<>> /\ Head(pila[h]).pid = p
    BY <2>1 DEF Toca, Por
  <2>3. Releva(h, <<>>)
    BY <2>1, <2>2 DEF Releva, Saca
  <2> QED
    BY <1>9, <2>1, <2>2, <2>3
<1>24. CASE Dump(h, p)
  <2>1. \E o \in {"DUMP", "DUMP_FALLA"}, x \in {"DUMP_ERROR", "DUMP_OK"} :
            Toca(h, o, p) /\ Sigue(h, <<Por(x, p)>>)
    BY <1>24 DEF Dump
  <2>2. {"DUMP", "DUMP_FALLA"} \subseteq Ops /\ {"DUMP_ERROR", "DUMP_OK"} \subseteq Salidas
    BY DEF Ops, Salidas, Despiertan
  <2> QED
    BY <1>7, <1>9, <1>21, <2>1, <2>2
<1>25. CASE DumpOk(h, p) \/ DumpError(h, p)
  <2>1. PICK o \in {"DUMP_OK", "DUMP_ERROR"}, x \in {"DUMP_FIN", "DUMP_EXIT"} :
            Toca(h, o, p) /\ Sigue(h, <<Por("JOIN", p), Por(x, p)>>)
    BY <1>25 DEF DumpOk, DumpError
  <2>2. o \in Ops /\ x \in Otras /\ x \in Salidas
    BY <1>7 DEF Ops, Salidas, Despiertan
  <2>3. PICK t, v : /\ v = <<Por("JOIN", p), t>> /\ t.pid = p /\ t.op = x
                    /\ Suave(v) /\ Sigue(h, v)
    BY <1>1, <1>3, <1>7, <2>1, <2>2
  <2>4. Esta(t, v)
    BY <2>3, EstaEnDos
  <2> QED
    BY <1>9, <1>20, <2>1, <2>2, <2>3, <2>4
<1>26. CASE DumpFin(h, p)
  <2>1. Toca(h, "DUMP_FIN", p) /\ "DUMP_FIN" \in Ops /\ UNCHANGED estado
    BY <1>26 DEF DumpFin, Ops, Solo, otras, planVars
  <2>2. CASE estado[p] = "BLOCKED_SUSPENDED"
    <3>1. PICK t : t = Por("READY_SUSPENDED", p) /\ t.pid = p /\ t.op = "READY_SUSPENDED"
                   /\ Suave(<<t>>) /\ Sigue(h, <<t>>)
      BY <1>1, <1>2, <1>7, <1>26, <2>2 DEF DumpFin, Solo
    <3>2. Esta(t, <<t>>)
      BY EstaEnUna
    <3>3. pila[h] # <<>> /\ Head(pila[h]).pid = p
      BY <2>1 DEF Toca, Por
    <3>4. Saca(t, p)'
      BY <2>1, <2>2, <3>1 DEF Saca
    <3>5. Releva(h, <<t>>)
      BY <3>2, <3>3, <3>4 DEF Releva, Saca
    <3> QED
      BY <1>9, <3>1, <3>3, <3>5
  <2>3. CASE estado[p] # "BLOCKED_SUSPENDED"
    <3>1. Sigue(h, <<Por("READY", p)>>)
      BY <1>26, <2>3 DEF DumpFin, Solo
    <3> QED
      BY <1>7, <1>9, <1>21, <2>1, <3>1 DEF Salidas, Despiertan
  <2> QED
    BY <2>2, <2>3
<1>27. CASE DumpExit(h, p)
  <2>1. Toca(h, "DUMP_EXIT", p) /\ "DUMP_EXIT" \in Ops /\ Sigue(h, <<Por("EXIT", p)>>)
    BY <1>27 DEF DumpExit, Ops
  <2> QED
    BY <1>7, <1>9, <1>21, <2>1 DEF Salidas, Despiertan
<1> QED
  BY <1>11, <1>12, <1>13, <1>14, <1>15, <1>16, <1>17, <1>18, <1>19, <1>22, <1>23, <1>24, <1>25,
     <1>26, <1>27 DEF DeProceso

(* A thread that blocks a process goes on to what will take it out.         *)
LEMMA DespiertaBloqueado ==
    ASSUME IInvDespierta, IInvTipos', NEW h \in Hilos, NEW p \in Procs, Blocked(h, p)
    PROVE  IInvDespierta'
<1>1. /\ pila[h] # <<>> /\ Head(pila[h]).op = "BLOCKED" /\ Head(pila[h]).pid = p
      /\ Sigue(h, <<Por("BLOQUEAR", p)>>) /\ UNCHANGED enIO
      /\ estado' = [estado EXCEPT ![p] = "BLOCKED"]
  BY DEF Blocked, Toca, Por, CambiarEstado, guionVars
<1>2. Suave(<<Por("BLOQUEAR", p)>>)
  <2>1. Por("BLOQUEAR", p) \in Tarea /\ Por("BLOQUEAR", p).op # "BLOCKED"
    BY PorTarea DEF Ops
  <2> QED
    BY <2>1, SuaveUna
<1>3. PICK u : u = <<Por("BLOQUEAR", p)>> /\ Suave(u) /\ Sigue(h, u)
  BY <1>1, <1>2
<1>4. /\ Bloqueantes'
      /\ \A k \in Hilos \ {h} : pila'[k] = pila[k]
      /\ \A t : Esta(t, pila[h]) => t = Head(pila[h]) \/ Esta(t, Tail(pila[h]))
      /\ \A t : Esta(t, pila'[h]) <=> Esta(t, u) \/ Esta(t, Tail(pila[h]))
  BY <1>1, <1>3, PilasSuaves
<1>5. Despertados'
  <2>1. ASSUME NEW q \in Procs, estado'[q] \in Dormidos
        PROVE  q \in enIO' \/ \E k \in Fijos : \E t : Esta(t, pila'[k]) /\ Saca(t, q)'
    <3>1. CASE q = p
      <4>1. h \in Fijos /\ \E t : Esta(t, Tail(pila[h])) /\ t.op \in Salidas /\ t.pid = p
        BY <1>1 DEF IInvDespierta, Bloqueantes
      <4>2. \E t : Esta(t, pila'[h]) /\ Saca(t, q)'
        BY <1>4, <3>1, <4>1 DEF Saca
      <4> QED
        BY <4>1, <4>2
    <3>2. CASE q # p
      <4>1. estado'[q] = estado[q]
        BY <1>1, <3>2 DEF IInvDespierta, IInvTipos, TypeOK
      <4>2. CASE q \in enIO
        BY <1>1, <4>2
      <4>3. ASSUME NEW k \in Fijos, NEW t, Esta(t, pila[k]), Saca(t, q)
            PROVE  \E j \in Fijos : \E x : Esta(x, pila'[j]) /\ Saca(x, q)'
        <5>1. Saca(t, q)'
          BY <4>1, <4>3 DEF Saca
        <5>2. k = h => t # Head(pila[h])
          BY <1>1, <3>2, <4>3 DEF Saca
        <5>3. Esta(t, pila'[k])
          BY <1>4, <4>3, <5>2 DEF Fijos
        <5> QED
          BY <5>1, <5>3
      <4> QED
        BY <2>1, <4>1, <4>2, <4>3 DEF IInvDespierta, Despertados
    <3> QED
      BY <3>1, <3>2
  <2> QED
    BY <2>1 DEF Despertados
<1> QED
  BY <1>4, <1>5 DEF IInvDespierta

(* Steps after which every thread nobody cancels has the tasks it had, or   *)
(* has been given its first ones.                                           *)
LEMMA DespiertaIgual ==
    ASSUME IInvDespierta, IInvTipos', Bloqueantes', NoBloquea,
           \A k \in Fijos : \A t : Esta(t, pila[k]) /\ t.op \in Despiertan => Esta(t, pila'[k]),
           \A q \in enIO : \/ q \in enIO' \/ estado'[q] \notin Dormidos
                           \/ \E k \in Fijos : \E t : Esta(t, pila'[k]) /\ Saca(t, q)'
    PROVE  IInvDespierta'
<1>1. ASSUME NEW q \in Procs, estado'[q] \in Dormidos
      PROVE  q \in enIO' \/ \E k \in Fijos : \E t : Esta(t, pila'[k]) /\ Saca(t, q)'
  <2>1. estado[q] \in Dormidos
        /\ (estado[q] = "BLOCKED_SUSPENDED" => estado'[q] = "BLOCKED_SUSPENDED")
    BY <1>1 DEF NoBloquea, Dormidos
  <2>2. CASE q \in enIO
    BY <1>1, <2>2
  <2>3. ASSUME NEW k \in Fijos, NEW t, Esta(t, pila[k]), Saca(t, q)
        PROVE  \E j \in Fijos : \E x : Esta(x, pila'[j]) /\ Saca(x, q)'
    <3>1. Saca(t, q)' /\ t.op \in Despiertan
      BY <2>1, <2>3 DEF Saca, Salidas, Despiertan
    <3>2. Esta(t, pila'[k])
      BY <2>3, <3>1
    <3> QED
      BY <3>1, <3>2
  <2> QED
    BY <2>1, <2>2, <2>3 DEF IInvDespierta, Despertados
<1>2. Despertados'
  BY <1>1 DEF Despertados
<1> QED
  BY <1>2 DEF IInvDespierta

LEMMA BloqueantesConUna ==
    ASSUME Bloqueantes, NEW h \in Hilos, NEW u, pila \in [Hilos -> Seq(Tarea)],
           pila' = [pila EXCEPT ![h] = u], Suave(u)
    PROVE  Bloqueantes' /\ pila'[h] = u /\ \A k \in Hilos \ {h} : pila'[k] = pila[k]
<1>1. pila'[h] = u /\ \A k \in Hilos \ {h} : pila'[k] = pila[k]
  OBVIOUS
<1>2. u # <<>> => /\ \A t : Esta(t, Tail(u)) => t.op # "BLOCKED"
                  /\ Head(u).op # "BLOCKED"
  BY Cabeza, SuaveNada, TrasLaPrimera DEF Suave
<1> QED
  BY <1>1, <1>2 DEF Bloqueantes

LEMMA DespiertaDeTimer ==
    ASSUME IInvDespierta, IInvTipos', NEW h \in Hilos, NEW p \in Procs, CrearTimer(h, p)
    PROVE  IInvDespierta'
<1>1. PICK j, s, u : /\ j = Timer(p, hiloBlock[p] + 1) /\ s = pila[h] /\ u = <<Por("TIMER", p)>>
  OBVIOUS
<1>2. /\ hiloBlock[p] + 1 <= MaxTimers /\ s # <<>> /\ Head(s).op = "CREAR_TIMER"
      /\ pila' = [pila EXCEPT ![h] = Tail(@), ![j] = u]
      /\ UNCHANGED <<estado, enIO>>
  BY <1>1 DEF CrearTimer, Toca, Por, planVars, guionVars
<1>3. hiloBlock[p] + 1 \in 1..MaxTimers /\ pila \in [Hilos -> Seq(Tarea)]
  <2>1. hiloBlock[p] \in 0..MaxTimers
    BY DEF IInvDespierta, IInvTipos, TypeOK
  <2> QED
    BY <1>2, <2>1, MaxTimersAssumption DEF IInvDespierta, IInvTipos, TypeOK
<1>4. j \in Hilos /\ j \in Timers
  BY <1>1, <1>3, HilosPropios
<1>5. Suave(u)
  <2>1. Por("TIMER", p) \in Tarea /\ Por("TIMER", p).op # "BLOCKED"
    BY PorTarea DEF Ops
  <2> QED
    BY <1>1, <2>1, SuaveUna
<1>6. s \in Seq(Tarea) /\ Tail(s) \in Seq(Tarea) /\ \A t : Esta(t, Tail(s)) => t.op # "BLOCKED"
  BY <1>1, <1>2, <1>3 DEF IInvDespierta, Bloqueantes
<1>7. PICK medio : medio = [pila EXCEPT ![h] = Tail(s)] /\ medio \in [Hilos -> Seq(Tarea)]
  <2>1. [pila EXCEPT ![h] = Tail(s)] \in [Hilos -> Seq(Tarea)]
    BY <1>3, <1>6
  <2> QED
    BY <2>1
<1>8. /\ \A k \in Hilos : k # j => pila'[k] = medio[k]
      /\ pila'[j] = u /\ medio[h] = Tail(s) /\ \A k \in Hilos \ {h} : medio[k] = pila[k]
  BY <1>1, <1>2, <1>3, <1>4, <1>7
<1>9. Bloqueantes'
  <2>1. ASSUME NEW k \in Hilos, NEW r, r = pila'[k], r # <<>>
        PROVE  /\ \A t : Esta(t, Tail(r)) => t.op # "BLOCKED"
               /\ Head(r).op = "BLOCKED" =>
                      /\ k \in Fijos
                      /\ \E t : Esta(t, Tail(r)) /\ t.op \in Salidas /\ t.pid = Head(r).pid
    <3>1. CASE r = u \/ r = Tail(s)
      <4>1. Suave(r)
        BY <1>5, <1>6, <3>1 DEF Suave
      <4> QED
        BY <2>1, <4>1, Cabeza, SuaveNada, TrasLaPrimera DEF Suave
    <3>2. CASE r = pila[k]
      BY <2>1, <3>2 DEF IInvDespierta, Bloqueantes
    <3> QED
      BY <1>8, <2>1, <3>1, <3>2
  <2> QED
    BY <2>1 DEF Bloqueantes
<1>10. \A k \in Fijos : \A t : Esta(t, pila[k]) /\ t.op \in Despiertan => Esta(t, pila'[k])
  <2>1. \A t : Esta(t, s) => t = Head(s) \/ Esta(t, Tail(s))
    BY <1>2, <1>6, CabezaOResto
  <2>2. Head(s).op \notin Despiertan
    BY <1>2 DEF Despiertan
  <2> QED
    BY <1>1, <1>4, <1>8, <2>1, <2>2 DEF Fijos
<1>11. NoBloquea
  BY <1>2 DEF NoBloquea
<1> QED
  BY <1>2, <1>9, <1>10, <1>11, DespiertaIgual

LEMMA DespiertaDeProceso ==
    ASSUME IInvDespierta, IInvTipos', NEW h \in Hilos, NEW p \in Procs, DeProceso(h, p)
    PROVE  IInvDespierta'
<1>1. estado \in [Procs -> Estados] /\ enIO \in SUBSET Procs
  BY DEF IInvDespierta, IInvTipos, TypeOK
<1>2. CASE ~Blocked(h, p) /\ ~CrearTimer(h, p)
  <2>1. /\ pila[h] # <<>> /\ enIO \subseteq enIO'
        /\ \E u : Suave(u) /\ Sigue(h, u) /\ Releva(h, u)
    BY <1>1, <1>2, TareasSuaves
  <2>2. NoBloquea
    BY <1>1, <1>2, NoBloqueaProceso
  <2> QED
    BY <2>1, <2>2, DespiertaSigue
<1> QED
  BY <1>2, DespiertaBloqueado, DespiertaDeTimer

LEMMA DespiertaDePlanificador ==
    ASSUME IInvDespierta, IInvTipos', NEW h \in Hilos, DePlanificador(h)
    PROVE  IInvDespierta'
<1>1. cola \in [Colas -> Seq(Procs)] /\ {"READY_SUSPENDED", "NEW", "READY"} \subseteq Colas
  BY DEF IInvDespierta, IInvTipos, TypeOK, Colas
<1>2. UNCHANGED <<estado, enIO>>
  BY DEF DePlanificador, TraerEntra, TraerRS, TraerVerNew, TraerNew, MandarEntra, MandarVer,
         MandarTomar, planVars, guionVars
<1>3. \A o \in Sueltas : Suave(<<Sola(o)>>)
  <2>1. \A o \in Sueltas : Sola(o) \in Tarea /\ Sola(o).op # "BLOCKED"
    BY SolaTarea DEF Sueltas, Sola
  <2> QED
    BY <2>1, SuaveUna
<1>4. Suave(<<>>)
  BY SuaveNada
<1>5. ASSUME NEW c \in Colas, cola[c] # <<>>, NEW o \in {"READY", "EXECUTE"}, NEW x \in Sueltas
      PROVE  Suave(<<Por(o, Head(cola[c])), Sola(x)>>)
  <2>1. Head(cola[c]) \in Procs /\ o \in Ops
    BY <1>1, <1>5, ElegidoEnCola DEF Ops
  <2>2. Por(o, Head(cola[c])) \in Tarea /\ Por(o, Head(cola[c])).op # "BLOCKED"
    BY <2>1, PorTarea
  <2>3. Sola(x) \in Tarea /\ Sola(x).op # "BLOCKED"
    BY SolaTarea DEF Sueltas, Sola
  <2> QED
    BY <2>2, <2>3, SuaveDos
<1>6. {"TRAER", "TRAER_RS", "TRAER_NEW", "PEDIR_NEW", "MANDAR", "MANDAR_VER", "MANDAR_TOMAR"}
          \subseteq Sueltas
  BY DEF Sueltas
<1>7. \E o \in Sueltas : Toca(h, o, Nadie) /\ \E u : Suave(u) /\ Sigue(h, u)
  <2>1. CASE TraerEntra(h) \/ MandarEntra(h)
    BY <1>3, <1>6, <2>1 DEF TraerEntra, MandarEntra
  <2>2. CASE TraerRS(h)
    BY <1>1, <1>3, <1>5, <1>6, <2>2 DEF TraerRS, Elegido
  <2>3. CASE TraerVerNew(h) \/ MandarVer(h)
    BY <1>3, <1>4, <1>6, <2>3 DEF TraerVerNew, MandarVer
  <2>4. CASE TraerNew(h)
    BY <1>1, <1>4, <1>5, <1>6, <2>4 DEF TraerNew, Elegido
  <2>5. CASE MandarTomar(h)
    BY <1>1, <1>4, <1>5, <1>6, <2>5 DEF MandarTomar
  <2> QED
    BY <2>1, <2>2, <2>3, <2>4, <2>5 DEF DePlanificador
<1>12. PICK o \in Sueltas : Toca(h, o, Nadie) /\ \E u : Suave(u) /\ Sigue(h, u)
  BY <1>7
<1>8. PICK u : Suave(u) /\ Sigue(h, u)
  BY <1>12
<1>9. o \in Ops \ Despiertan
  BY DEF Sueltas, Ops, Despiertan
<1>10. pila[h] # <<>> /\ Releva(h, u)
  BY <1>8, <1>9, <1>12, NoReleva
<1>11. NoBloquea /\ enIO \subseteq enIO'
  BY <1>2 DEF NoBloquea
<1> QED
  BY <1>8, <1>10, <1>11, <1>12, DespiertaSigue

(* The tasks of a system call: BLOCKED comes first, and the way out after.  *)
LEMMA SyscallConSalida ==
    ASSUME NEW p \in Procs, NEW o \in (Syscalls \cup {"EXIT"}) \ {"INIT_PROC"}
    PROVE  LET u == TareasDe(o, p) IN
           /\ u # <<>>
           /\ \A t : Esta(t, Tail(u)) => t.op # "BLOCKED"
           /\ Head(u).op = "BLOCKED" =>
                  \E t : Esta(t, Tail(u)) /\ t.op \in Salidas /\ t.pid = Head(u).pid
<1>1. \A x : Por(x, p).op = x /\ Por(x, p).pid = p /\ Sola(x).op = x
  BY DEF Por, Sola
<1>2. PICK u, m : u = TareasDe(o, p) /\ m = Sola("MANDAR") /\ m.op = "MANDAR"
  BY <1>1
<1>3. CASE o = "EXIT"
  <2>1. PICK l, x : l = Sola("LIBERAR_CPU") /\ x = Por("EXIT", p)
    OBVIOUS
  <2>2. u = <<>> \o <<l, m>> \/ u = <<x>> \o <<l, m>>
    BY <1>2, <1>3, <2>1 DEF TareasDe
  <2>3. u = <<l, m>> \/ u = <<x, l, m>>
    BY <2>2
  <2>4. /\ u # <<>> /\ Head(u) \in {l, x}
        /\ \A y : Esta(y, Tail(u)) => y = l \/ y = m
    <3>1. CASE u = <<l, m>>
      <4>1. /\ u # <<>> /\ Head(u) = l /\ DOMAIN Tail(u) = {1}
            /\ Tail(u)[1] = m
        BY <3>1
      <4> QED
        BY <4>1 DEF Esta
    <3>2. CASE u = <<x, l, m>>
      <4>1. /\ u # <<>> /\ Head(u) = x /\ DOMAIN Tail(u) = {1, 2}
            /\ Tail(u)[1] = l /\ Tail(u)[2] = m
        BY <3>2
      <4> QED
        BY <4>1 DEF Esta
    <3> QED
      BY <2>3, <3>1, <3>2
  <2>5. l.op = "LIBERAR_CPU" /\ x.op = "EXIT"
    BY <1>1, <2>1
  <2> QED
    BY <1>2, <2>4, <2>5
<1>4. CASE o # "EXIT"
  <2>1. PICK b, t : /\ b = Por("BLOCKED", p) /\ b.pid = p /\ t.pid = p
                    /\ t.op \in {"ENCOLAR_IO", "EXIT", "DUMP", "DUMP_FALLA"}
                    /\ u = <<b, t, m>> \/ u = <<b, m, t>>
    <3>1. CASE o = "IO"
      BY <1>1, <1>2, <3>1 DEF TareasDe
    <3>2. CASE o = "IO_FALLA"
      BY <1>1, <1>2, <3>2 DEF TareasDe
    <3>3. CASE o \in {"DUMP", "DUMP_FALLA"}
      BY <1>1, <1>2, <3>3 DEF TareasDe
    <3> QED
      BY <1>4, <3>1, <3>2, <3>3 DEF Syscalls
  <2>2. /\ u # <<>> /\ Head(u) = b
        /\ \A y : Esta(y, Tail(u)) <=> y = t \/ y = m
    <3>1. CASE u = <<b, t, m>>
      <4>1. /\ u # <<>> /\ Head(u) = b /\ DOMAIN Tail(u) = {1, 2}
            /\ Tail(u)[1] = t /\ Tail(u)[2] = m
        BY <3>1
      <4> QED
        BY <4>1 DEF Esta
    <3>2. CASE u = <<b, m, t>>
      <4>1. /\ u # <<>> /\ Head(u) = b /\ DOMAIN Tail(u) = {1, 2}
            /\ Tail(u)[1] = m /\ Tail(u)[2] = t
        BY <3>2
      <4> QED
        BY <4>1 DEF Esta
    <3> QED
      BY <2>1, <3>1, <3>2
  <2>4. t.op \in Salidas /\ t.op # "BLOCKED"
    BY <2>1 DEF Salidas, Despiertan
  <2> QED
    BY <1>2, <2>1, <2>2, <2>4
<1> QED
  BY <1>3, <1>4

LEMMA DespiertaDeCpu ==
    ASSUME IInvDespierta, IInvTipos', NEW c \in Cpus, DeCpu(c)
    PROVE  IInvDespierta'
<1>1. /\ pila \in [Hilos -> Seq(Tarea)] /\ OtrosTipos /\ Cpu(c) \in Hilos
      /\ estado \in [Procs -> Estados]
  BY TiposJuntos, HilosPropios DEF IInvDespierta, IInvTipos, OtrosTipos
<1>2. Cpu(c) \in Fijos
  BY <1>1 DEF Fijos, Timers, Timer, Cpu
<1>3. CASE LiberarCpu(c)
  <2>1. Toca(Cpu(c), "LIBERAR_CPU", Nadie) /\ Suave(<<>>) /\ Sigue(Cpu(c), <<>>)
    BY <1>3, SuaveNada DEF LiberarCpu
  <2>2. "LIBERAR_CPU" \in Ops \ Despiertan
    BY DEF Ops, Despiertan
  <2>3. pila[Cpu(c)] # <<>> /\ Releva(Cpu(c), <<>>)
    BY <1>1, <2>1, <2>2, NoReleva
  <2>4. NoBloquea /\ enIO \subseteq enIO'
    BY <1>3 DEF LiberarCpu, NoBloquea, planVars, guionVars
  <2> QED
    BY <1>1, <2>1, <2>3, <2>4, DespiertaSigue
<1>4. CASE SyscallExit(c) \/ SyscallBloqueante(c)
  <2>1. PICK o \in (Syscalls \cup {"EXIT"}) \ {"INIT_PROC"} :
            /\ contexto[c] # <<>> /\ pila[Cpu(c)] = <<>>
            /\ pila' = [pila EXCEPT ![Cpu(c)] = TareasDe(o, PidDe(c))]
            /\ UNCHANGED <<estado, enIO>>
    BY <1>4 DEF SyscallExit, SyscallBloqueante, Pide, Syscalls, planVars, guionVars
  <2>2. PICK u : u = TareasDe(o, PidDe(c)) /\ PidDe(c) \in Procs
    BY <1>1, <2>1, CorreTipo
  <2>3. pila'[Cpu(c)] = u /\ \A k \in Hilos \ {Cpu(c)} : pila'[k] = pila[k]
    BY <1>1, <2>1, <2>2
  <2>4. /\ \A t : Esta(t, Tail(u)) => t.op # "BLOCKED"
        /\ Head(u).op = "BLOCKED" =>
               \E t : Esta(t, Tail(u)) /\ t.op \in Salidas /\ t.pid = Head(u).pid
    BY <2>2, SyscallConSalida
  <2>5. Bloqueantes'
    BY <1>2, <2>3, <2>4 DEF Bloqueantes, IInvDespierta
  <2>6. \A k \in Fijos : \A t : Esta(t, pila[k]) => Esta(t, pila'[k])
    BY <2>1, <2>3, EstaEnVacia DEF Fijos
  <2>7. NoBloquea
    BY <2>1 DEF NoBloquea
  <2> QED
    BY <2>1, <2>5, <2>6, <2>7, DespiertaIgual
<1>5. CASE SyscallInitProc(c)
  <2>1. PICK q, u : /\ q = Instruccion(c).pid /\ contexto[c] # <<>> /\ pila[Cpu(c)] = <<>>
                    /\ u = <<Por("NEW", q)>>
                    /\ pila' = [pila EXCEPT ![Cpu(c)] = u]
                    /\ estado' = [estado EXCEPT ![q] = "CREADO"]
                    /\ UNCHANGED enIO
    BY <1>5 DEF SyscallInitProc, Pide, guionVars
  <2>2. q \in Procs
    BY <1>1, <2>1, CorreTipo
  <2>3. Suave(u)
    <3>1. Por("NEW", q) \in Tarea /\ Por("NEW", q).op # "BLOCKED"
      BY <2>2, PorTarea DEF Ops
    <3> QED
      BY <2>1, <3>1, SuaveUna
  <2>4. Bloqueantes' /\ \A k \in Hilos \ {Cpu(c)} : pila'[k] = pila[k]
    BY <1>1, <2>1, <2>3, BloqueantesConUna DEF IInvDespierta
  <2>5. \A k \in Fijos : \A t : Esta(t, pila[k]) => Esta(t, pila'[k])
    BY <2>1, <2>4, EstaEnVacia DEF Fijos
  <2>6. NoBloquea
    BY <1>1, <2>1 DEF NoBloquea, Dormidos
  <2> QED
    BY <2>1, <2>4, <2>5, <2>6, DespiertaIgual
<1> QED
  BY <1>3, <1>4, <1>5 DEF DeCpu

LEMMA DespiertaDeIO ==
    ASSUME IInvDespierta, IInvTipos', NEW x \in Conexiones, DesbloqueoIO(x)
    PROVE  IInvDespierta'
<1>1. pila \in [Hilos -> Seq(Tarea)] /\ Io(x) \in Hilos /\ enIO \in SUBSET Procs
  BY HilosPropios DEF IInvDespierta, IInvTipos, TypeOK
<1>2. Io(x) \in Fijos
  BY <1>1 DEF Fijos, Timers, Timer, Io
<1>3. PICK p, u :
          /\ p \in enIO /\ enIO' = enIO \ {p} /\ pila[Io(x)] = <<>>
          /\ u = IF estado[p] = "ELIMINADO" THEN <<>> ELSE <<Por("DESBLOQUEO", p)>>
          /\ pila' = [pila EXCEPT ![Io(x)] = u]
          /\ UNCHANGED estado
  BY DEF DesbloqueoIO, planVars
<1>4. PICK t : t = Por("DESBLOQUEO", p) /\ t.op = "DESBLOQUEO" /\ t.pid = p /\ t \in Tarea
  <2>1. Por("DESBLOQUEO", p).op = "DESBLOQUEO" /\ Por("DESBLOQUEO", p).pid = p
    BY DEF Por
  <2>2. Por("DESBLOQUEO", p) \in Tarea
    BY <1>1, <1>3, PorTarea DEF Ops
  <2> QED
    BY <2>1, <2>2
<1>5. Suave(u)
  BY <1>3, <1>4, SuaveNada, SuaveUna
<1>6. Bloqueantes' /\ pila'[Io(x)] = u /\ \A k \in Hilos \ {Io(x)} : pila'[k] = pila[k]
  BY <1>1, <1>3, <1>5, BloqueantesConUna DEF IInvDespierta
<1>7. \A k \in Fijos : \A y : Esta(y, pila[k]) => Esta(y, pila'[k])
  BY <1>3, <1>6, EstaEnVacia DEF Fijos
<1>8. NoBloquea
  BY <1>3 DEF NoBloquea
<1>9. ASSUME NEW q \in enIO
      PROVE  \/ q \in enIO' \/ estado'[q] \notin Dormidos
             \/ \E k \in Fijos : \E y : Esta(y, pila'[k]) /\ Saca(y, q)'
  <2>1. CASE q # p
    BY <1>3, <2>1
  <2>2. CASE q = p /\ estado[p] = "ELIMINADO"
    BY <1>3, <2>2 DEF Dormidos
  <2>3. CASE q = p /\ estado[p] # "ELIMINADO"
    <3>1. u = <<t>> /\ Esta(t, <<t>>)
      BY <1>3, <1>4, <2>3, EstaEnUna
    <3>2. Saca(t, q)'
      BY <1>4, <2>3 DEF Saca, Salidas, Despiertan
    <3> QED
      BY <1>2, <1>6, <3>1, <3>2
  <2> QED
    BY <2>1, <2>2, <2>3
<1> QED
  BY <1>6, <1>7, <1>8, <1>9, DespiertaIgual

LEMMA DespiertaDeMuerto ==
    ASSUME IInvDespierta, IInvTipos', PasoMuere
    PROVE  IInvDespierta'
<1>1. PICK p \in Procs, k \in 1..MaxTimers :
          pila' = [pila EXCEPT ![Timer(p, k)] = <<>>] /\ UNCHANGED <<estado, enIO>>
  BY DEF PasoMuere, TimerMuere, planVars, guionVars
<1>2. PICK h : h = Timer(p, k) /\ h \in Hilos /\ h \in Timers
  BY HilosPropios
<1>3. Bloqueantes' /\ \A j \in Hilos \ {h} : pila'[j] = pila[j]
  <2>1. pila \in [Hilos -> Seq(Tarea)] /\ Bloqueantes
    BY DEF IInvDespierta, IInvTipos, TypeOK
  <2> QED
    BY <1>1, <1>2, <2>1, SuaveNada, BloqueantesConUna
<1>4. \A j \in Fijos : pila'[j] = pila[j]
  BY <1>2, <1>3 DEF Fijos
<1>5. NoBloquea
  BY <1>1 DEF NoBloquea
<1> QED
  BY <1>1, <1>3, <1>4, <1>5, DespiertaIgual

LEMMA DespiertaPasoAPaso == IInvDespierta /\ [Next]_vars => IInvDespierta'
<1> SUFFICES ASSUME IInvDespierta, [Next]_vars PROVE IInvDespierta'
  OBVIOUS
<1>1. IInvTipos'
  BY TiposPasoAPaso DEF IInvDespierta
<1>2. ASSUME NEW h \in Hilos, PasoHilo(h) PROVE IInvDespierta'
  BY <1>1, <1>2, DespiertaDePlanificador, DespiertaDeProceso DEF PasoHilo
<1>3. ASSUME NEW c \in Cpus, DeCpu(c) PROVE IInvDespierta'
  BY <1>1, <1>3, DespiertaDeCpu
<1>4. ASSUME NEW x \in Conexiones, DesbloqueoIO(x) PROVE IInvDespierta'
  BY <1>1, <1>4, DespiertaDeIO
<1>5. CASE PasoMuere
  BY <1>1, <1>5, DespiertaDeMuerto
<1>6. CASE Reposo \/ UNCHANGED vars
  <2>1. UNCHANGED <<pila, estado, enIO>>
    BY <1>6 DEF Reposo, vars, otras, planVars, guionVars
  <2>2. Bloqueantes' /\ Despertados'
    BY <2>1 DEF IInvDespierta, Bloqueantes, Despertados, Saca
  <2> QED
    BY <1>1, <2>2 DEF IInvDespierta
<1> QED
  BY <1>2, <1>3, <1>4, <1>5, <1>6 DEF Next

LEMMA DespiertaAlEmpezar == Init => IInvDespierta
<1> SUFFICES ASSUME Init PROVE IInvDespierta
  OBVIOUS
<1>1. IInvTipos
  BY TiposAlEmpezar
<1>2. Despertados
  BY DEF Init, Despertados, Dormidos
<1>3. Bloqueantes
  <2>1. PICK y : y = Por("NEW", Primero) /\ y.op = "NEW" /\ y \in Tarea
    BY PrimeroAssumption, PorTarea DEF Ops
  <2>2. \A k \in Hilos : pila[k] = <<>> \/ pila[k] = <<y>>
    BY <2>1 DEF Init
  <2>3. Head(<<y>>).op # "BLOCKED" /\ \A t : ~Esta(t, Tail(<<y>>))
    BY <2>1, EstaEnVacia
  <2> QED
    BY <2>2, <2>3 DEF Bloqueantes
<1> QED
  BY <1>1, <1>2, <1>3 DEF IInvDespierta

LEMMA DespiertaDice == IInvDespierta => SiempreHayQuienDespierte
<1> SUFFICES ASSUME IInvDespierta, NEW p \in Procs,
                    estado[p] \in {"BLOCKED", "BLOCKED_SUSPENDED"}, p \notin enIO
             PROVE  \E t \in Pendientes(p) : t.op \in Despiertan
  BY DEF SiempreHayQuienDespierte
<1>1. PICK h, t : h \in Hilos /\ Esta(t, pila[h]) /\ Saca(t, p)
  BY DEF IInvDespierta, Despertados, Dormidos, Fijos
<1>2. PICK i \in DOMAIN pila[h] : pila[h][i] = t
  BY <1>1 DEF Esta
<1>3. t.pid = p /\ t.op \in Despiertan /\ t.op \notin {"TIMER", "DORMIR"}
  BY <1>1 DEF Saca, Salidas, Despiertan
<1>4. t \in Pendientes(p)
  BY <1>1, <1>2, <1>3 DEF Pendientes
<1> QED
  BY <1>3, <1>4

(* A blocked process, suspended meanwhile or not, is in the queue of a      *)
(* device, or its way out is a task a thread still has to do (DESBLOQUEO_IO,*)
(* READY, the end of a dump), whatever was cancelled and however often it   *)
(* was made READY: for any CPUs, connections, scripts and timing.  A        *)
(* process whose failed dump left its handler waiting for itself is         *)
(* excluded: it never comes out.                                            *)
THEOREM SiempreDespierta == Spec => []SiempreHayQuienDespierte
<1>1. Init => IInvDespierta
  BY DespiertaAlEmpezar
<1>2. IInvDespierta /\ [Next]_vars => IInvDespierta'
  BY DespiertaPasoAPaso
<1>3. IInvDespierta => SiempreHayQuienDespierte
  BY DespiertaDice
<1> QED
  BY <1>1, <1>2, <1>3, PTL DEF Spec

-----------------------------------------------------------------------------
(* One CPU, while no cancelled timer dies with it.                          *)

(* Some thread has the task.                                                *)
Hay(t) == \E k \in Hilos : Esta(t, pila[k])

(* Tasks of mandar_procesos_a_execute, of the handlers alone, and those     *)
(* that are only the first of a stack.                                      *)
Mandan == {"MANDAR", "MANDAR_VER", "MANDAR_TOMAR"}
DeManejador == Mandan \cup {"LIBERAR_CPU", "BLOCKED", "EXIT", "DUMP", "DUMP_FALLA", "DUMP_OK",
                            "DUMP_ERROR", "DUMP_EXIT"}
Relojes == {"TIMER", "DORMIR"}
Cimas == Relojes \cup {"READY_CPU", "EXECUTE", "ENVIAR"}

(* A stack: a timer that sleeps does nothing else, and whoever is to free   *)
(* the CPU calls mandar_procesos_a_execute next.                            *)
EnRegla(s) ==
    /\ s # <<>> => /\ \A t : Esta(t, Tail(s)) => t.op \notin Cimas
                   /\ Head(s).op \in Relojes => Tail(s) = <<>>
    /\ \A i \in DOMAIN s : s[i].op = "LIBERAR_CPU" =>
          i + 1 \in DOMAIN s /\ s[i + 1].op = "MANDAR"
DeReloj(s) == \A t : Esta(t, s) => t.op \notin DeManejador

PilasEnRegla ==
    /\ \A h \in Hilos : EnRegla(pila[h])
    /\ \A h \in Timers : DeReloj(pila[h])
    /\ \A p \in Procs : \A k \in 1..MaxTimers : k > hiloBlock[p] => pila[Timer(p, k)] = <<>>

(* Tasks a thread may go on with after the first of its stack.              *)
Sirve(h, u) ==
    /\ u \in Seq(Tarea)
    /\ \A t : Esta(t, u) => /\ t.op # "LIBERAR_CPU"
                            /\ t.op \in DeManejador => Head(pila[h]).op \in DeManejador
    /\ u # <<>> => /\ \A t : Esta(t, Tail(u)) => t.op \notin Cimas
                   /\ Head(u).op \in Relojes => Head(pila[h]).op \in Relojes /\ Tail(u) = <<>>

LEMMA ReglaTras ==
    ASSUME NEW s \in Seq(Tarea), s # <<>>, EnRegla(s), NEW u \in Seq(Tarea),
           \A t : Esta(t, u) => t.op # "LIBERAR_CPU",
           u # <<>> => /\ \A t : Esta(t, Tail(u)) => t.op \notin Cimas
                       /\ Head(u).op \in Relojes => Head(s).op \in Relojes /\ Tail(u) = <<>>
    PROVE  EnRegla(u \o Tail(s))
<1>1. PICK r, w, n, m : r = Tail(s) /\ w = u \o r /\ n = Len(u) /\ m = Len(s)
  OBVIOUS
<1>2. /\ r \in Seq(Tarea) /\ Len(r) = m - 1 /\ m \in Nat /\ m >= 1 /\ n \in Nat
      /\ DOMAIN s = 1..m /\ DOMAIN r = 1..(m - 1) /\ DOMAIN u = 1..n
      /\ \A i \in 1..(m - 1) : r[i] = s[i + 1]
  BY <1>1
<1>3. /\ w \in Seq(Tarea) /\ DOMAIN w = 1..(n + (m - 1))
      /\ \A i \in 1..(n + (m - 1)) : w[i] = IF i <= n THEN u[i] ELSE r[i - n]
  BY <1>1, <1>2, ConcatProperties
<1>4. ASSUME NEW i \in DOMAIN w, w[i].op = "LIBERAR_CPU"
      PROVE  i + 1 \in DOMAIN w /\ w[i + 1].op = "MANDAR"
  <2>1. ~(i <= n)
    <3>1. ASSUME i <= n PROVE FALSE
      <4>1. i \in DOMAIN u /\ u[i].op = "LIBERAR_CPU"
        BY <1>2, <1>3, <1>4, <3>1
      <4> QED
        BY <4>1 DEF Esta
    <3> QED
      BY <3>1
  <2>2. i \in 1..(n + (m - 1)) /\ i - n \in 1..(m - 1) /\ w[i] = r[i - n]
    <3>1. i \in 1..(n + (m - 1)) /\ w[i] = IF i <= n THEN u[i] ELSE r[i - n]
      BY <1>3, <1>4
    <3>2. i \in Int /\ n \in Int /\ m \in Int /\ n < i /\ i <= n + (m - 1)
      BY <1>2, <2>1, <3>1
    <3> QED
      BY <2>1, <3>1, <3>2
  <2>3. (i - n) + 1 \in DOMAIN s /\ s[(i - n) + 1].op = "LIBERAR_CPU"
    <3>1. r[i - n] = s[(i - n) + 1] /\ r[i - n].op = "LIBERAR_CPU"
      BY <1>2, <1>4, <2>2
    <3>2. (i - n) + 1 \in 1..m
      <4>1. m \in Nat /\ i - n \in 1..(m - 1)
        BY <1>2, <2>2
      <4> QED
        BY <4>1
    <3> QED
      BY <1>2, <3>1, <3>2
  <2>4. ((i - n) + 1) + 1 \in DOMAIN s /\ s[((i - n) + 1) + 1].op = "MANDAR"
    BY <2>3 DEF EnRegla
  <2>5. (i - n) + 1 \in 1..(m - 1) /\ (i + 1) - n = (i - n) + 1 /\ ~(i + 1 <= n)
        /\ i + 1 \in 1..(n + (m - 1))
    <3>1. ((i - n) + 1) + 1 <= m /\ i \in Int /\ n \in Nat /\ m \in Nat /\ n < i
      BY <1>2, <2>1, <2>2, <2>4
    <3> QED
      BY <3>1
  <2>6. w[i + 1] = r[(i - n) + 1] /\ r[(i - n) + 1] = s[((i - n) + 1) + 1]
    BY <1>2, <1>3, <2>5
  <2> QED
    BY <1>3, <2>4, <2>5, <2>6
<1>5. \A t : Esta(t, r) => t.op \notin Cimas
  BY <1>1 DEF EnRegla
<1>6. CASE u = <<>>
  <2>1. w = r
    BY <1>1, <1>2, <1>6
  <2>2. w # <<>> => Esta(Head(w), r) /\ \A t : Esta(t, Tail(w)) => Esta(t, r)
    BY <1>2, <2>1, CabezaOResto
  <2> QED
    BY <1>1, <1>4, <1>5, <2>2 DEF EnRegla, Cimas
<1>7. CASE u # <<>>
  <2>0. Tail(u) \in Seq(Tarea)
    BY <1>7
  <2>1. PICK v : v = Tail(u) /\ v \in Seq(Tarea)
    BY <2>0
  <2>2. Head(w) = Head(u) /\ Tail(w) = v \o r
    BY <1>1, <1>2, <1>7, <2>1
  <2>5. \A t : Esta(t, v \o r) <=> Esta(t, v) \/ Esta(t, r)
    BY <1>2, <2>1, EstaEnJuntas
  <2>3. \A t : Esta(t, Tail(w)) => Esta(t, v) \/ Esta(t, r)
    BY <2>2, <2>5
  <2>4. Head(w).op \in Relojes => Tail(w) = <<>>
    <3>1. ASSUME Head(u).op \in Relojes PROVE r = <<>> /\ v = <<>>
      BY <1>1, <1>7, <2>1, <3>1 DEF EnRegla
    <3> QED
      BY <2>2, <3>1
  <2> QED
    BY <1>1, <1>4, <1>5, <1>7, <2>1, <2>3, <2>4 DEF EnRegla
<1> QED
  BY <1>6, <1>7

LEMMA SirveNada == ASSUME NEW h PROVE Sirve(h, <<>>)
BY EstaEnVacia DEF Sirve

LEMMA SirveUna ==
    ASSUME NEW h, NEW t \in Tarea, t.op # "LIBERAR_CPU",
           t.op \in DeManejador => Head(pila[h]).op \in DeManejador,
           t.op \in Relojes => Head(pila[h]).op \in Relojes
    PROVE  Sirve(h, <<t>>)
<1>4. PICK u : u = <<t>>
  OBVIOUS
<1>1. u = <<t>> /\ u \in Seq(Tarea) /\ u # <<>> /\ Head(u) = t /\ Tail(u) = <<>>
  BY <1>4
<1>2. \A x : Esta(x, u) <=> x = t
  BY <1>1, EstaEnUna
<1>3. \A x : ~Esta(x, Tail(u))
  BY <1>1, EstaEnVacia
<1> QED
  BY <1>1, <1>2, <1>3 DEF Sirve

LEMMA SirveDos ==
    ASSUME NEW h, NEW t \in Tarea, NEW v \in Tarea,
           t.op # "LIBERAR_CPU" /\ v.op # "LIBERAR_CPU" /\ t.op \notin Relojes /\ v.op \notin Cimas,
           t.op \in DeManejador \/ v.op \in DeManejador => Head(pila[h]).op \in DeManejador
    PROVE  Sirve(h, <<t, v>>)
<1>1. PICK u : u = <<t, v>>
  OBVIOUS
<1>2. /\ u \in Seq(Tarea) /\ u # <<>> /\ Head(u) = t /\ DOMAIN Tail(u) = {1} /\ Tail(u)[1] = v
  BY <1>1
<1>3. \A x : Esta(x, u) <=> x = t \/ x = v
  BY <1>1, EstaEnDos
<1>4. \A x : Esta(x, Tail(u)) => x = v
  BY <1>2 DEF Esta
<1>5. Sirve(h, u)
  BY <1>2, <1>3, <1>4 DEF Sirve
<1> QED
  BY <1>1, <1>5

(* A thread goes on with such tasks: what is on the stacks before and after.*)
LEMMA PilasSirven ==
    ASSUME pila \in [Hilos -> Seq(Tarea)], PilasEnRegla, hiloBlock' = hiloBlock,
           NEW h \in Hilos, pila[h] # <<>>, NEW u, Sirve(h, u), Sigue(h, u)
    PROVE  /\ PilasEnRegla'
           /\ \A t : Hay(t) => Hay(t)' \/ t = Head(pila[h])
           /\ \A t : Hay(t)' => Hay(t) \/ Esta(t, u)
           /\ \A t : Esta(t, u) \/ Esta(t, Tail(pila[h])) => Hay(t)'
<1>1. PICK s, r : s = pila[h] /\ r = u \o Tail(s)
  OBVIOUS
<1>2. s \in Seq(Tarea) /\ s # <<>> /\ u \in Seq(Tarea) /\ EnRegla(s)
  BY <1>1 DEF Sirve, PilasEnRegla
<1>3. /\ r \in Seq(Tarea) /\ \A t : Esta(t, r) <=> Esta(t, u) \/ Esta(t, Tail(s))
      /\ \A t : Esta(t, Tail(s)) => Esta(t, s)
  BY <1>1, <1>2, TrasLaPrimera
<1>4. \A t : Esta(t, s) <=> t = Head(s) \/ Esta(t, Tail(s))
  BY <1>2, CabezaOResto
<1>5. pila'[h] = r /\ \A k \in Hilos \ {h} : pila'[k] = pila[k]
  BY <1>1, <1>3 DEF Sigue
<1>6. EnRegla(r)
  BY <1>1, <1>2, ReglaTras DEF Sirve
<1>7. h \in Timers => DeReloj(r)
  <2>1. ASSUME h \in Timers, NEW t, Esta(t, r) PROVE t.op \notin DeManejador
    <3>1. \A x : Esta(x, s) => x.op \notin DeManejador
      BY <1>1, <2>1 DEF PilasEnRegla, DeReloj
    <3> QED
      BY <1>1, <1>3, <1>4, <2>1, <3>1 DEF Sirve
  <2> QED
    BY <2>1 DEF DeReloj
<1>8. PilasEnRegla'
  <2>1. \A k \in Hilos : EnRegla(pila'[k])
    BY <1>5, <1>6 DEF PilasEnRegla
  <2>2. \A k \in Timers : DeReloj(pila'[k])
    BY <1>5, <1>7 DEF PilasEnRegla, Hilos
  <2>3. \A p \in Procs : \A k \in 1..MaxTimers : k > hiloBlock'[p] => pila'[Timer(p, k)] = <<>>
    <3>1. \A p \in Procs, k \in 1..MaxTimers : Timer(p, k) \in Hilos
      BY HilosPropios
    <3> QED
      BY <1>5, <3>1 DEF PilasEnRegla
  <2> QED
    BY <2>1, <2>2, <2>3 DEF PilasEnRegla
<1>9. \A t : Hay(t) => Hay(t)' \/ t = Head(s)
  BY <1>1, <1>3, <1>4, <1>5 DEF Hay
<1>10. \A t : Hay(t)' => Hay(t) \/ Esta(t, u)
  BY <1>1, <1>3, <1>5 DEF Hay
<1>11. \A t : Esta(t, u) \/ Esta(t, Tail(s)) => Hay(t)'
  BY <1>3, <1>5 DEF Hay
<1> QED
  BY <1>1, <1>8, <1>9, <1>10, <1>11

(* A thread without tasks takes some up: one that is no timer.              *)
LEMMA PilasNacen ==
    ASSUME pila \in [Hilos -> Seq(Tarea)], PilasEnRegla, hiloBlock' = hiloBlock,
           NEW h \in Fijos, pila[h] = <<>>, NEW u, EnRegla(u), pila' = [pila EXCEPT ![h] = u]
    PROVE  /\ PilasEnRegla'
           /\ \A t : Hay(t) => Hay(t)'
           /\ \A t : Hay(t)' => Hay(t) \/ Esta(t, u)
           /\ \A t : Esta(t, u) => Hay(t)'
<1>1. h \in Hilos /\ h \notin Timers
  BY DEF Fijos
<1>2. pila'[h] = u /\ \A k \in Hilos \ {h} : pila'[k] = pila[k]
  BY <1>1
<1>3. \A t : ~Esta(t, pila[h])
  BY EstaEnVacia
<1>4. PilasEnRegla'
  <2>1. \A k \in Hilos : EnRegla(pila'[k])
    BY <1>2 DEF PilasEnRegla
  <2>2. \A k \in Timers : k \in Hilos /\ k # h
    BY <1>1 DEF Hilos
  <2>3. \A k \in Timers : DeReloj(pila'[k])
    BY <1>2, <2>2 DEF PilasEnRegla
  <2>4. \A p \in Procs : \A k \in 1..MaxTimers : k > hiloBlock'[p] => pila'[Timer(p, k)] = <<>>
    <3>1. \A p \in Procs, k \in 1..MaxTimers : Timer(p, k) \in Timers
      BY HilosPropios
    <3> QED
      BY <1>2, <2>2, <3>1 DEF PilasEnRegla
  <2> QED
    BY <2>1, <2>3, <2>4 DEF PilasEnRegla
<1> QED
  BY <1>1, <1>2, <1>3, <1>4 DEF Hay
-----------------------------------------------------------------------------
(* Tasks of a process in EXECUTE that is on its way to the CPU or out of it,*)
(* and all those that must not be lost.                                     *)
Salen == {"ENVIAR", "BLOCKED", "EXIT"}
Vigiladas == Ocupan \cup Mandan \cup Salen \cup {"READY_CPU"}

(* The CPU is reserved for a process that it runs, or that a thread is      *)
(* sending it or taking from it; if it is free while a process waits in     *)
(* READY, a thread is about to look; whoever sends has it reserved; and a   *)
(* process in EXECUTE is on it, or some thread has it.                      *)
Reservada ==
    cpuPid[LaCpu] # Nadie => contexto[LaCpu] # <<>> \/ \E t : Hay(t) /\ t.op \in Ocupan
Avisada ==
    cpuPid[LaCpu] = Nadie /\ cola["READY"] # <<>> =>
        \E t : Hay(t) /\ t.op \in Mandan \cup {"READY_CPU"}
ParaQuien == \A t : Hay(t) /\ t.op \in {"EXECUTE", "ENVIAR"} => cpuPid[LaCpu] = t.pid
EnEjecucion ==
    \A q \in Procs : estado[q] = "EXECUTE" =>
        \/ contexto[LaCpu] # <<>> /\ PidDe(LaCpu) = q
        \/ \E t : Hay(t) /\ t.pid = q /\ t.op \in Salen

IInvUso == IInvCpu /\ PilasEnRegla /\ Reservada /\ Avisada /\ ParaQuien /\ EnEjecucion

(* A step that neither gives nor takes the CPU, nor brings anyone to READY  *)
(* or EXECUTE.                                                              *)
Discreta ==
    /\ UNCHANGED <<cpuPid, contexto>>
    /\ cola["READY"] = <<>> => cola'["READY"] = <<>>
    /\ \A q \in Procs : estado'[q] = "EXECUTE" => estado[q] = "EXECUTE"

LEMMA UsoIgual ==
    ASSUME IInvUso, IInvCpu', PilasEnRegla', Discreta,
           \A t : Hay(t) /\ t.op \in Vigiladas =>
               Hay(t)' \/ (t.op \in {"BLOCKED", "EXIT"} /\ estado'[t.pid] # "EXECUTE"),
           \A t : Hay(t)' /\ t.op \in {"EXECUTE", "ENVIAR"} => Hay(t)
    PROVE  IInvUso'
<1>1. \A t : Hay(t) /\ t.op \in Ocupan \cup Mandan \cup {"ENVIAR", "READY_CPU"} => Hay(t)'
  BY DEF Vigiladas, Ocupan, Mandan, Salen
<1>2. Reservada'
  BY <1>1 DEF IInvUso, Reservada, Discreta
<1>3. Avisada'
  BY <1>1 DEF IInvUso, Avisada, Discreta
<1>4. ParaQuien'
  BY DEF IInvUso, ParaQuien, Discreta
<1>5. EnEjecucion'
  <2>1. ASSUME NEW q \in Procs, estado'[q] = "EXECUTE"
        PROVE  \/ contexto'[LaCpu] # <<>> /\ PidDe(LaCpu)' = q
               \/ \E t : Hay(t)' /\ t.pid = q /\ t.op \in Salen
    <3>1. estado[q] = "EXECUTE" /\ contexto' = contexto /\ PidDe(LaCpu)' = PidDe(LaCpu)
      BY <2>1 DEF Discreta, PidDe, Corre
    <3>2. ASSUME NEW t, Hay(t), t.pid = q, t.op \in Salen PROVE Hay(t)'
      BY <2>1, <3>2 DEF Vigiladas, Salen
    <3> QED
      BY <3>1, <3>2 DEF IInvUso, EnEjecucion
  <2> QED
    BY <2>1 DEF EnEjecucion
<1> QED
  BY <1>2, <1>3, <1>4, <1>5 DEF IInvUso

(* The task the thread ran was none of those, or was the way out of EXECUTE *)
(* for a process that is no longer there.                                   *)
Prescinde(h) ==
    \/ Head(pila[h]).op \notin Vigiladas
    \/ Head(pila[h]).op \in {"BLOCKED", "EXIT"} /\ estado'[Head(pila[h]).pid] # "EXECUTE"
Ajena(h, u) ==
    /\ Sirve(h, u) /\ Sigue(h, u) /\ Prescinde(h)
    /\ \A t : Esta(t, u) => t.op \notin {"EXECUTE", "ENVIAR"}

LEMMA UsoSigue ==
    ASSUME IInvUso, IInvCpu', Discreta, hiloBlock' = hiloBlock,
           NEW h \in Hilos, pila[h] # <<>>, NEW u, Ajena(h, u)
    PROVE  IInvUso'
<1>1. pila \in [Hilos -> Seq(Tarea)]
  BY DEF IInvUso, IInvCpu, IInvTipos, TypeOK
<1>2. /\ PilasEnRegla'
      /\ \A t : Hay(t) => Hay(t)' \/ t = Head(pila[h])
      /\ \A t : Hay(t)' => Hay(t) \/ Esta(t, u)
  BY <1>1, PilasSirven DEF IInvUso, Ajena
<1>3. \A t : Hay(t) /\ t.op \in Vigiladas =>
          Hay(t)' \/ (t.op \in {"BLOCKED", "EXIT"} /\ estado'[t.pid] # "EXECUTE")
  BY <1>2 DEF Ajena, Prescinde
<1>4. \A t : Hay(t)' /\ t.op \in {"EXECUTE", "ENVIAR"} => Hay(t)
  BY <1>2 DEF Ajena
<1> QED
  BY <1>2, <1>3, <1>4, UsoIgual

(* The operations of a thread on a process that have nothing to do with     *)
(* READY, EXECUTE or the CPU.                                               *)
DeReady(h, p) == Ready(h, p) \/ ReadyCpu(h, p) \/ Execute(h, p) \/ Enviar(h, p)

LEMMA CambiarSinReady ==
    ASSUME estado \in [Procs -> Estados], cola \in [Colas -> Seq(Procs)], NEW p \in Procs,
           NEW e \in Estados \ {"READY", "EXECUTE"}, CambiarEstado(p, e),
           UNCHANGED <<cpuPid, contexto>>
    PROVE  Discreta /\ estado'[p] # "EXECUTE"
<1>1. "READY" \in Colas
  BY DEF Colas
<1>2. estado'[p] = e /\ \A q \in Procs \ {p} : estado'[q] = estado[q]
  BY DEF CambiarEstado
<1>3. ASSUME cola["READY"] = <<>> PROVE cola'["READY"] = <<>>
  <2>1. cola'["READY"] = IF estado[p] = "READY" THEN Quitar(p, cola["READY"]) ELSE cola["READY"]
    BY <1>1 DEF CambiarEstado, ColaTras
  <2>2. Quitar(p, <<>>) = <<>>
    BY DEF Quitar
  <2> QED
    BY <1>3, <2>1, <2>2
<1> QED
  BY <1>2, <1>3 DEF Discreta

LEMMA DiscretaDeProceso ==
    ASSUME estado \in [Procs -> Estados], cola \in [Colas -> Seq(Procs)],
           NEW h \in Hilos, NEW p \in Procs, DeProceso(h, p), ~DeReady(h, p)
    PROVE  /\ Discreta
           /\ Blocked(h, p) \/ Exit(h, p) => estado'[p] # "EXECUTE"
           /\ hiloBlock' = hiloBlock \/ CrearTimer(h, p)
<1>1. CASE New(h, p) \/ Blocked(h, p) \/ Exit(h, p)
  <2>1. /\ \E e \in {"NEW", "BLOCKED", "EXIT"} : CambiarEstado(p, e)
        /\ UNCHANGED <<cpuPid, contexto, hiloBlock>>
    BY <1>1 DEF New, Blocked, Exit, cpuVars, timerVars
  <2> QED
    BY <2>1, CambiarSinReady DEF Estados
<1>2. ASSUME UNCHANGED <<estado, cola, cpuPid, contexto>> PROVE Discreta
  BY <1>2 DEF Discreta
<1>3. CASE Suspender(h, p) \/ ReadySuspended(h, p)
  <2>1. /\ \/ \E e \in {"BLOCKED_SUSPENDED", "READY_SUSPENDED"} : CambiarEstado(p, e)
           \/ UNCHANGED planVars
        /\ UNCHANGED <<cpuPid, contexto, hiloBlock>>
        /\ ~Blocked(h, p) /\ ~Exit(h, p)
    BY <1>3 DEF Suspender, ReadySuspended, cpuVars, timerVars, Toca, Por, Blocked, Exit
  <2> QED
    BY <1>2, <2>1, CambiarSinReady DEF Estados, planVars
<1>4. CASE ExitMem(h, p)
  <2>1. /\ estado' = [estado EXCEPT ![p] = "ELIMINADO"]
        /\ UNCHANGED <<cola, cpuPid, contexto, hiloBlock>>
        /\ ~Blocked(h, p) /\ ~Exit(h, p)
    BY <1>4 DEF ExitMem, cpuVars, Toca, Por, Blocked, Exit
  <2> QED
    BY <2>1 DEF Discreta
<1>5. CASE ~(New(h, p) \/ Blocked(h, p) \/ Exit(h, p) \/ Suspender(h, p) \/ ReadySuspended(h, p)
             \/ ExitMem(h, p))
  <2>1. UNCHANGED <<estado, cola, cpuPid, contexto>> /\ (hiloBlock' = hiloBlock \/ CrearTimer(h, p))
    BY <1>5
       DEF DeProceso, DeReady, NewTraer, NewInit, NewFin, Bloquear, Join, CrearTimer,
           TimerArranca, TimerCancelado, TimerVence, TimerRevisa, SuspenderMem, TimerCancela,
           TimerTermina, ReadySuspendedVer, Desbloqueo, EncolarIO, Dump, DumpOk, DumpFin,
           DumpError, DumpExit, Solo, otras, planVars, cpuVars, timerVars
  <2> QED
    BY <1>2, <1>5, <2>1
<1> QED
  BY <1>1, <1>3, <1>4, <1>5

LEMMA AjenaDeProceso ==
    ASSUME estado \in [Procs -> Estados], cola \in [Colas -> Seq(Procs)],
           NEW h \in Hilos, NEW p \in Procs, DeProceso(h, p), ~DeReady(h, p), ~CrearTimer(h, p)
    PROVE  pila[h] # <<>> /\ \E u : Ajena(h, u)
<1> DEFINE Otras == Ops \ (DeManejador \cup Cimas)
           Buena(u) == Sirve(h, u) /\ \A t : Esta(t, u) => t.op \notin {"EXECUTE", "ENVIAR"}
<1>1. ASSUME NEW o \in Ops, Toca(h, o, p)
      PROVE  pila[h] # <<>> /\ Head(pila[h]).op = o /\ Head(pila[h]).pid = p
  BY <1>1 DEF Toca, Por
<1>2. Buena(<<>>)
  BY SirveNada, EstaEnVacia
<1>3. \A o \in Otras : /\ Por(o, p) \in Tarea /\ Por(o, p).op = o
                       /\ o \notin DeManejador /\ o \notin Cimas /\ o \notin Relojes
                       /\ o \notin {"LIBERAR_CPU", "EXECUTE", "ENVIAR"}
  BY PorTarea DEF Cimas, DeManejador
<1>4. \A o \in Otras : Buena(<<Por(o, p)>>)
  BY <1>3, SirveUna, EstaEnUna
<1>5. ASSUME NEW o \in Otras, NEW x \in Otras PROVE Buena(<<Por(o, p), Por(x, p)>>)
  <2>1. Sirve(h, <<Por(o, p), Por(x, p)>>)
    BY <1>3, SirveDos
  <2> QED
    BY <1>3, <2>1, EstaEnDos
<1>6. /\ Sola("TRAER") \in Tarea /\ Sola("TRAER").op = "TRAER"
      /\ "TRAER" \notin DeManejador \cup Cimas \cup Relojes \cup {"LIBERAR_CPU", "EXECUTE", "ENVIAR"}
  BY SolaTarea DEF Sueltas, DeManejador, Mandan, Cimas, Relojes
<1>7. Buena(<<Sola("TRAER")>>)
  BY <1>6, SirveUna, EstaEnUna
<1>8. Buena(<<Sola("TRAER"), Por("CANCELAR", p)>>)
  <2>1. "CANCELAR" \in Otras
    BY DEF Ops, DeManejador, Mandan, Cimas, Relojes
  <2>2. Sirve(h, <<Sola("TRAER"), Por("CANCELAR", p)>>)
    BY <1>3, <1>6, <2>1, SirveDos
  <2> QED
    BY <1>3, <1>6, <2>1, <2>2, EstaEnDos
<1>9. {"NEW_TRAER", "NEW_INIT", "NEW_FIN", "READY", "BLOQUEAR", "JOIN", "CREAR_TIMER", "REVISAR",
       "FIN_TIMER", "SUSPENDER", "SUSPENDER_MEM", "CANCELAR", "RS_VER", "EXIT_MEM",
       "READY_SUSPENDED", "DUMP_FIN"} \subseteq Otras
  BY DEF Ops, DeManejador, Mandan, Cimas, Relojes
<1>10. ASSUME NEW x \in {"EXIT", "DUMP_OK", "DUMP_ERROR", "DUMP_EXIT"}, NEW o \in DeManejador \cap Ops,
              Toca(h, o, p)
       PROVE  Buena(<<Por(x, p)>>) /\ Buena(<<Por("JOIN", p), Por(x, p)>>)
  <2>1. /\ Por(x, p) \in Tarea /\ Por(x, p).op = x /\ x \in DeManejador
        /\ x \notin Cimas /\ x \notin Relojes /\ x \notin {"LIBERAR_CPU", "EXECUTE", "ENVIAR"}
    BY PorTarea DEF Ops, DeManejador, Mandan, Cimas, Relojes
  <2>2. Head(pila[h]).op \in DeManejador /\ "JOIN" \in Otras
    BY <1>1, <1>9, <1>10
  <2>3. Buena(<<Por(x, p)>>)
    BY <2>1, <2>2, SirveUna, EstaEnUna
  <2>4. Buena(<<Por("JOIN", p), Por(x, p)>>)
    BY <1>3, <2>1, <2>2, SirveDos, EstaEnDos
  <2> QED
    BY <2>3, <2>4
<1> HIDE DEF Otras, Buena
<1>11. ASSUME NEW o \in Ops \ Vigiladas, Toca(h, o, p), \E u : Buena(u) /\ Sigue(h, u)
       PROVE  pila[h] # <<>> /\ \E u : Ajena(h, u)
  <2>1. pila[h] # <<>> /\ Prescinde(h)
    BY <1>1, <1>11 DEF Prescinde
  <2> QED
    BY <1>11, <2>1 DEF Ajena, Buena
<1>12. {"NEW", "NEW_TRAER", "NEW_INIT", "NEW_FIN", "BLOQUEAR", "JOIN", "TIMER", "DORMIR", "REVISAR",
        "SUSPENDER", "SUSPENDER_MEM", "CANCELAR", "FIN_TIMER", "READY_SUSPENDED", "RS_VER",
        "EXIT_MEM", "DESBLOQUEO", "ENCOLAR_IO", "DUMP", "DUMP_FALLA", "DUMP_OK", "DUMP_FIN",
        "DUMP_ERROR", "DUMP_EXIT"} \subseteq Ops \ Vigiladas
  BY DEF Ops, Vigiladas, Ocupan, Mandan, Salen
<1>13. CASE New(h, p) \/ NewTraer(h, p) \/ NewInit(h, p) \/ NewFin(h, p)
  <2>1. \E o \in {"NEW", "NEW_TRAER", "NEW_INIT", "NEW_FIN"} :
            Toca(h, o, p) /\ \E u : Buena(u) /\ Sigue(h, u)
    BY <1>2, <1>4, <1>5, <1>9, <1>13 DEF New, NewTraer, NewInit, NewFin
  <2> QED
    BY <1>11, <1>12, <2>1
<1>14. CASE Bloquear(h, p) \/ Join(h, p) \/ EncolarIO(h, p) \/ Desbloqueo(h, p)
  <2>1. \E o \in {"BLOQUEAR", "JOIN", "ENCOLAR_IO", "DESBLOQUEO"} :
            Toca(h, o, p) /\ \E u : Buena(u) /\ Sigue(h, u)
    BY <1>2, <1>4, <1>5, <1>9, <1>14
       DEF Bloquear, Join, EncolarIO, Desbloqueo, Solo, DestinoTrasIO
  <2> QED
    BY <1>11, <1>12, <2>1
<1>15. CASE TimerArranca(h, p)
  <2>1. Toca(h, "TIMER", p) /\ Sigue(h, <<Por("DORMIR", p)>>)
    BY <1>15 DEF TimerArranca
  <2>2. /\ Por("DORMIR", p) \in Tarea /\ Por("DORMIR", p).op = "DORMIR"
        /\ "DORMIR" \notin DeManejador /\ Head(pila[h]).op \in Relojes
    BY <1>1, <2>1, PorTarea DEF Ops, DeManejador, Mandan, Relojes
  <2>3. Buena(<<Por("DORMIR", p)>>)
    BY <2>2, SirveUna, EstaEnUna DEF Buena
  <2> QED
    BY <1>11, <1>12, <2>1, <2>3
<1>16. CASE TimerCancelado(h, p) \/ TimerVence(h, p) \/ TimerTermina(h, p)
  <2>1. \E o \in {"DORMIR", "FIN_TIMER"} : Toca(h, o, p) /\ \E u : Buena(u) /\ Sigue(h, u)
    BY <1>2, <1>4, <1>9, <1>16 DEF TimerCancelado, TimerVence, TimerTermina, Solo
  <2> QED
    BY <1>11, <1>12, <2>1
<1>17. CASE TimerRevisa(h, p) \/ Suspender(h, p) \/ SuspenderMem(h, p) \/ TimerCancela(h, p)
  <2>1. \E o \in {"REVISAR", "SUSPENDER", "SUSPENDER_MEM", "CANCELAR"} :
            Toca(h, o, p) /\ \E u : Buena(u) /\ Sigue(h, u)
    BY <1>2, <1>4, <1>5, <1>8, <1>9, <1>17
       DEF TimerRevisa, Suspender, SuspenderMem, TimerCancela, Solo
  <2> QED
    BY <1>11, <1>12, <2>1
<1>18. CASE ReadySuspended(h, p) \/ ReadySuspendedVer(h, p) \/ ExitMem(h, p)
  <2>1. \E o \in {"READY_SUSPENDED", "RS_VER", "EXIT_MEM"} :
            Toca(h, o, p) /\ \E u : Buena(u) /\ Sigue(h, u)
    BY <1>2, <1>4, <1>7, <1>9, <1>18
       DEF ReadySuspended, ReadySuspendedVer, ExitMem, Solo, TraerSiEsUnico, DespuesDelExit
  <2> QED
    BY <1>11, <1>12, <2>1
<1>19. CASE Blocked(h, p) \/ Exit(h, p)
  <2>1. PICK o \in {"BLOCKED", "EXIT"} : Toca(h, o, p) /\ \E u : Buena(u) /\ Sigue(h, u)
    BY <1>4, <1>9, <1>19 DEF Blocked, Exit
  <2>2. pila[h] # <<>> /\ Head(pila[h]).op = o /\ Head(pila[h]).pid = p
    BY <1>1, <2>1 DEF Ops
  <2>3. estado'[p] # "EXECUTE"
    BY <1>19, DiscretaDeProceso
  <2>4. Prescinde(h)
    BY <2>2, <2>3 DEF Prescinde
  <2> QED
    BY <2>1, <2>2, <2>4 DEF Ajena, Buena
<1>20. CASE Dump(h, p) \/ DumpExit(h, p)
  <2>1. PICK o \in {"DUMP", "DUMP_FALLA", "DUMP_EXIT"}, x \in {"DUMP_OK", "DUMP_ERROR", "EXIT"} :
            Toca(h, o, p) /\ Sigue(h, <<Por(x, p)>>)
    BY <1>20 DEF Dump, DumpExit
  <2>2. o \in DeManejador \cap Ops
    BY DEF DeManejador, Ops
  <2> QED
    BY <1>10, <1>11, <1>12, <2>1, <2>2
<1>21. CASE DumpError(h, p)
  <2>1. Toca(h, "DUMP_ERROR", p) /\ Sigue(h, <<Por("JOIN", p), Por("DUMP_EXIT", p)>>)
    BY <1>21 DEF DumpError
  <2>2. "DUMP_ERROR" \in DeManejador \cap Ops
    BY DEF DeManejador, Ops
  <2> QED
    BY <1>10, <1>11, <1>12, <2>1, <2>2
<1>22. CASE DumpOk(h, p) \/ DumpFin(h, p)
  <2>1. \E o \in {"DUMP_OK", "DUMP_FIN"} : Toca(h, o, p) /\ \E u : Buena(u) /\ Sigue(h, u)
    BY <1>4, <1>5, <1>9, <1>22 DEF DumpOk, DumpFin, Solo
  <2> QED
    BY <1>11, <1>12, <2>1
<1> QED
  BY <1>13, <1>14, <1>15, <1>16, <1>17, <1>18, <1>19, <1>20, <1>21, <1>22 DEF DeProceso, DeReady

(* Who has the CPU: the thread whose task of Ocupan is on top, and no other.*)
LEMMA UnSoloTurno ==
    ASSUME IInvCpu, NEW h \in Hilos, pila[h] # <<>>, Head(pila[h]).op \in Ocupan
    PROVE  /\ \A t : Hay(t) /\ t.op \in Ocupan => t = Head(pila[h])
           /\ contexto[LaCpu] = <<>> /\ cpuPid[LaCpu] # Nadie
<1>1. PICK s : s = pila[h] /\ s \in Seq(Tarea) /\ s # <<>> /\ UnTurno(s)
  BY DEF IInvCpu, IInvTipos, TypeOK, Turnos
<1>2. ~Desocupada(s)
  BY <1>1, Cabeza DEF Desocupada
<1>3. contexto[LaCpu] = <<>> /\ cpuPid[LaCpu] # Nadie /\ \A k \in Hilos \ {h} : Desocupada(pila[k])
  BY <1>1, <1>2 DEF IInvCpu, CpuTomada, Turnos
<1>4. Desocupada(Tail(s))
  <2>1. <<>> \in Seq(Tarea) /\ UnTurno(<<>>)
    BY TurnoDeNada
  <2> QED
    BY <1>1, <2>1, TurnoTras
<1>5. \A t : Esta(t, s) => t = Head(s) \/ Esta(t, Tail(s))
  BY <1>1, CabezaOResto
<1> QED
  BY <1>1, <1>3, <1>4, <1>5 DEF Hay, Desocupada

LEMMA Libre ==
    ASSUME IInvCpu, cpuPid[LaCpu] = Nadie \/ contexto[LaCpu] # <<>>
    PROVE  \A t : Hay(t) => t.op \notin Ocupan
BY DEF IInvCpu, CpuTomada, Hay, Desocupada

LEMMA UsoDeReady ==
    ASSUME IInvUso, IInvCpu', NEW h \in Hilos, NEW p \in Procs, Ready(h, p)
    PROVE  IInvUso'
<1>1. PICK t : t = Por("READY_CPU", p) /\ t \in Tarea /\ t.op = "READY_CPU"
  <2>1. Por("READY_CPU", p) \in Tarea /\ Por("READY_CPU", p).op = "READY_CPU"
    BY PorTarea DEF Ops
  <2> QED
    BY <2>1
<1>2. /\ pila[h] # <<>> /\ Head(pila[h]).op = "READY"
      /\ Sigue(h, <<t>>) /\ CambiarEstado(p, "READY")
      /\ UNCHANGED <<cpuPid, contexto, hiloBlock>>
  BY <1>1 DEF Ready, Toca, Por, cpuVars, timerVars
<1>3. Sirve(h, <<t>>) /\ \A x : Esta(x, <<t>>) <=> x = t
  BY <1>1, SirveUna, EstaEnUna DEF DeManejador, Mandan, Relojes
<1>4. /\ PilasEnRegla'
      /\ \A x : Hay(x) => Hay(x)' \/ x = Head(pila[h])
      /\ \A x : Hay(x)' => Hay(x) \/ x = t
      /\ Hay(t)'
  <2>1. pila \in [Hilos -> Seq(Tarea)] /\ PilasEnRegla /\ hiloBlock' = hiloBlock
    BY <1>2 DEF IInvUso, IInvCpu, IInvTipos, TypeOK
  <2> QED
    BY <1>2, <1>3, <2>1, PilasSirven
<1>5. \A x : Hay(x) /\ x.op \in Ocupan \cup Salen => Hay(x)'
  BY <1>2, <1>4 DEF Ocupan, Salen
<1>6. Reservada' /\ Avisada' /\ ParaQuien'
  BY <1>1, <1>2, <1>4, <1>5 DEF IInvUso, Reservada, Avisada, ParaQuien
<1>7. EnEjecucion'
  <2>1. \A q \in Procs : estado'[q] = "EXECUTE" => estado[q] = "EXECUTE"
    BY <1>2 DEF CambiarEstado, IInvUso, IInvCpu, IInvTipos, TypeOK
  <2>2. PidDe(LaCpu)' = PidDe(LaCpu)
    BY <1>2 DEF PidDe, Corre
  <2> QED
    BY <1>2, <1>5, <2>1, <2>2 DEF IInvUso, EnEjecucion
<1> QED
  BY <1>4, <1>6, <1>7 DEF IInvUso

(* Looking for a free CPU: one is found.                                    *)
LEMMA UsoReserva ==
    ASSUME IInvUso, IInvCpu', SolaCpu, NEW h \in Hilos, pila[h] # <<>>,
           Head(pila[h]).op \in Mandan \cup {"READY_CPU"},
           NEW p \in Procs, cpuPid[LaCpu] = Nadie, cpuPid' = [cpuPid EXCEPT ![LaCpu] = p],
           UNCHANGED <<contexto, estado, hiloBlock>>, NEW u, Sirve(h, u), Sigue(h, u),
           Esta(Por("EXECUTE", p), u),
           \A t : Esta(t, u) /\ t.op \in {"EXECUTE", "ENVIAR"} => t.pid = p
    PROVE  IInvUso'
<1>1. pila \in [Hilos -> Seq(Tarea)] /\ PilasEnRegla /\ cpuPid \in [Cpus -> Procs \cup {Nadie}]
      /\ LaCpu \in Cpus
  BY DEF IInvUso, IInvCpu, IInvTipos, TypeOK, SolaCpu
<1>2. /\ PilasEnRegla'
      /\ \A t : Hay(t) => Hay(t)' \/ t = Head(pila[h])
      /\ \A t : Hay(t)' => Hay(t) \/ Esta(t, u)
      /\ Hay(Por("EXECUTE", p))'
  BY <1>1, PilasSirven
<1>3. cpuPid'[LaCpu] = p /\ p # Nadie
  BY <1>1, NadieAssumption
<1>4. \A t : Hay(t) => t.op \notin Ocupan
  BY Libre DEF IInvUso
<1>5. Reservada'
  <2>1. Por("EXECUTE", p).op \in Ocupan
    BY DEF Por, Ocupan
  <2> QED
    BY <1>2, <2>1 DEF Reservada
<1>6. Avisada'
  BY <1>3 DEF Avisada
<1>7. ParaQuien'
  BY <1>2, <1>3, <1>4 DEF ParaQuien, Ocupan
<1>8. EnEjecucion'
  <2>1. PidDe(LaCpu)' = PidDe(LaCpu)
    BY DEF PidDe, Corre
  <2>2. \A t : Hay(t) /\ t.op \in Salen => Hay(t)'
    BY <1>2 DEF Salen, Mandan
  <2> QED
    BY <2>1, <2>2 DEF IInvUso, EnEjecucion
<1> QED
  BY <1>2, <1>5, <1>6, <1>7, <1>8 DEF IInvUso

(* None is found, or nobody waits, or the thread goes on looking.           *)
LEMMA UsoMira ==
    ASSUME IInvUso, IInvCpu', NEW h \in Hilos, pila[h] # <<>>,
           Head(pila[h]).op \in Mandan \cup {"READY_CPU"},
           UNCHANGED <<cpuPid, contexto, estado, cola, hiloBlock>>,
           NEW u, Sirve(h, u), Sigue(h, u), \A t : Esta(t, u) => t.op \in Mandan,
           u # <<>> \/ cpuPid[LaCpu] # Nadie \/ cola["READY"] = <<>>
    PROVE  IInvUso'
<1>1. pila \in [Hilos -> Seq(Tarea)] /\ PilasEnRegla /\ u \in Seq(Tarea)
  BY DEF IInvUso, IInvCpu, IInvTipos, TypeOK, Sirve
<1>2. /\ PilasEnRegla'
      /\ \A t : Hay(t) => Hay(t)' \/ t = Head(pila[h])
      /\ \A t : Hay(t)' => Hay(t) \/ Esta(t, u)
      /\ \A t : Esta(t, u) => Hay(t)'
  BY <1>1, PilasSirven
<1>3. \A t : Hay(t) /\ t.op \in Ocupan \cup Salen => Hay(t)'
  BY <1>2 DEF Ocupan, Salen, Mandan
<1>4. Reservada'
  BY <1>3 DEF IInvUso, Reservada
<1>5. Avisada'
  <2>1. u # <<>> => Esta(Head(u), u)
    BY <1>1, Cabeza
  <2> QED
    BY <1>2, <2>1 DEF Avisada
<1>6. ParaQuien'
  BY <1>2 DEF IInvUso, ParaQuien, Mandan
<1>7. EnEjecucion'
  <2>1. PidDe(LaCpu)' = PidDe(LaCpu)
    BY DEF PidDe, Corre
  <2> QED
    BY <1>3, <2>1 DEF IInvUso, EnEjecucion
<1> QED
  BY <1>2, <1>4, <1>5, <1>6, <1>7 DEF IInvUso

LEMMA UsoDeReadyCpu ==
    ASSUME IInvUso, IInvCpu', SolaCpu, NEW h \in Hilos, NEW p \in Procs, ReadyCpu(h, p)
    PROVE  IInvUso'
<1>1. /\ pila[h] # <<>> /\ Head(pila[h]).op = "READY_CPU"
      /\ UNCHANGED <<contexto, estado, cola, hiloBlock>>
  BY DEF ReadyCpu, Toca, Por, planVars, timerVars
<1>2. CASE CpusDisponibles # {}
  <2>1. LaCpu \in CpusDisponibles /\ cpuPid[LaCpu] = Nadie
    BY <1>2 DEF CpusDisponibles, SolaCpu
  <2>2. PICK t : t = Por("EXECUTE", p) /\ t \in Tarea /\ t.op = "EXECUTE" /\ t.pid = p
    <3>1. /\ Por("EXECUTE", p) \in Tarea /\ Por("EXECUTE", p).op = "EXECUTE"
          /\ Por("EXECUTE", p).pid = p
      BY PorTarea DEF Ops
    <3> QED
      BY <3>1
  <2>3. cpuPid' = [cpuPid EXCEPT ![LaCpu] = p] /\ Sigue(h, <<t>>)
    BY <1>2, <2>1, <2>2, LaPrimera DEF ReadyCpu
  <2>4. Sirve(h, <<t>>) /\ \A x : Esta(x, <<t>>) <=> x = t
    BY <2>2, SirveUna, EstaEnUna DEF DeManejador, Mandan, Relojes
  <2> QED
    BY <1>1, <2>1, <2>2, <2>3, <2>4, UsoReserva
<1>3. CASE CpusDisponibles = {}
  <2>1. cpuPid[LaCpu] # Nadie /\ cpuPid' = cpuPid /\ Sigue(h, <<>>)
    BY <1>3 DEF ReadyCpu, CpusDisponibles, SolaCpu
  <2>2. Sirve(h, <<>>) /\ \A x : ~Esta(x, <<>>)
    BY SirveNada, EstaEnVacia
  <2> QED
    BY <1>1, <2>1, <2>2, UsoMira
<1> QED
  BY <1>2, <1>3

LEMMA UsoDeExecute ==
    ASSUME IInvUso, IInvCpu', NEW h \in Hilos, NEW p \in Procs, Execute(h, p)
    PROVE  IInvUso'
<1>1. PICK t : t = Por("ENVIAR", p) /\ t \in Tarea /\ t.op = "ENVIAR" /\ t.pid = p
  <2>1. Por("ENVIAR", p) \in Tarea /\ Por("ENVIAR", p).op = "ENVIAR" /\ Por("ENVIAR", p).pid = p
    BY PorTarea DEF Ops
  <2> QED
    BY <2>1
<1>2. /\ pila[h] # <<>> /\ Head(pila[h]).op = "EXECUTE" /\ Head(pila[h]).pid = p
      /\ Sigue(h, <<t>>) /\ CambiarEstado(p, "EXECUTE")
      /\ UNCHANGED <<cpuPid, contexto, hiloBlock>>
  BY <1>1 DEF Execute, Toca, Por, cpuVars, timerVars
<1>3. Sirve(h, <<t>>) /\ \A x : Esta(x, <<t>>) <=> x = t
  BY <1>1, SirveUna, EstaEnUna DEF DeManejador, Mandan, Relojes
<1>4. pila \in [Hilos -> Seq(Tarea)] /\ PilasEnRegla /\ hiloBlock' = hiloBlock
      /\ estado \in [Procs -> Estados]
  BY <1>2 DEF IInvUso, IInvCpu, IInvTipos, TypeOK
<1>5. /\ PilasEnRegla'
      /\ \A x : Hay(x) => Hay(x)' \/ x = Head(pila[h])
      /\ \A x : Hay(x)' => Hay(x) \/ x = t
      /\ Hay(t)'
  BY <1>2, <1>3, <1>4, PilasSirven
<1>6. cpuPid[LaCpu] # Nadie /\ cpuPid[LaCpu] = p
  <2>1. Hay(Head(pila[h]))
    BY <1>2, <1>4, Cabeza DEF Hay
  <2> QED
    BY <1>2, <2>1, UnSoloTurno DEF IInvUso, ParaQuien, Ocupan
<1>7. Reservada' /\ Avisada' /\ ParaQuien'
  <2>1. t.op \in Ocupan
    BY <1>1 DEF Ocupan
  <2> QED
    BY <1>1, <1>2, <1>5, <1>6, <2>1 DEF IInvUso, Reservada, Avisada, ParaQuien
<1>8. EnEjecucion'
  <2>1. \A q \in Procs \ {p} : estado'[q] = estado[q]
    BY <1>2, <1>4 DEF CambiarEstado
  <2>2. PidDe(LaCpu)' = PidDe(LaCpu)
    BY <1>2 DEF PidDe, Corre
  <2>3. \A x : Hay(x) /\ x.op \in Salen => Hay(x)'
    BY <1>2, <1>5 DEF Salen
  <2>4. t.op \in Salen
    BY <1>1 DEF Salen
  <2> QED
    BY <1>1, <1>2, <1>5, <2>1, <2>2, <2>3, <2>4 DEF IInvUso, EnEjecucion
<1> QED
  BY <1>5, <1>7, <1>8 DEF IInvUso

LEMMA UsoDeEnviar ==
    ASSUME IInvUso, IInvCpu', SolaCpu, NEW h \in Hilos, NEW p \in Procs, Enviar(h, p)
    PROVE  IInvUso'
<1>1. /\ pila[h] # <<>> /\ Head(pila[h]).op = "ENVIAR" /\ Head(pila[h]).pid = p
      /\ UNCHANGED <<cpuPid, estado, cola, hiloBlock>>
  BY DEF Enviar, Toca, Por, planVars, timerVars
<1>2. /\ pila \in [Hilos -> Seq(Tarea)] /\ PilasEnRegla /\ LaCpu \in Cpus
      /\ contexto \in [Cpus -> Seq([pid : Procs, pc : Nat])]
  BY DEF IInvUso, IInvCpu, IInvTipos, TypeOK, SolaCpu
<1>3. contexto[LaCpu] = <<>> /\ cpuPid[LaCpu] # Nadie /\ cpuPid[LaCpu] = p
  <2>1. Hay(Head(pila[h]))
    BY <1>1, <1>2, Cabeza DEF Hay
  <2> QED
    BY <1>1, <2>1, UnSoloTurno DEF IInvUso, ParaQuien, Ocupan
<1>4. LaCpu \in CpusDe(p)
  BY <1>2, <1>3 DEF CpusDe
<1>5. PICK x : /\ x = [pid |-> p, pc |-> pc[p]] /\ x.pid = p
               /\ contexto' = [contexto EXCEPT ![LaCpu] = Append(@, x)]
               /\ Sigue(h, <<>>)
  BY <1>4, LaPrimera DEF Enviar
<1>6. contexto'[LaCpu] # <<>> /\ PidDe(LaCpu)' = p
  <2>1. contexto'[LaCpu] = Append(<<>>, x)
    BY <1>2, <1>3, <1>5
  <2>2. contexto'[LaCpu] = <<x>>
    BY <2>1
  <2>3. contexto'[LaCpu] # <<>> /\ Head(contexto'[LaCpu]) = x
    BY <2>2
  <2> QED
    BY <1>5, <2>3 DEF PidDe, Corre
<1>7. /\ PilasEnRegla'
      /\ \A t : Hay(t) => Hay(t)' \/ t = Head(pila[h])
      /\ \A t : Hay(t)' => Hay(t)
  <2>1. Sirve(h, <<>>) /\ \A t : ~Esta(t, <<>>)
    BY SirveNada, EstaEnVacia
  <2>2. hiloBlock' = hiloBlock
    BY <1>1
  <2> QED
    BY <1>1, <1>2, <1>5, <2>1, <2>2, PilasSirven
<1>8. Reservada' /\ Avisada' /\ ParaQuien'
  BY <1>1, <1>3, <1>6, <1>7 DEF IInvUso, Reservada, Avisada, ParaQuien
<1>9. EnEjecucion'
  BY <1>1, <1>3, <1>6, <1>7 DEF IInvUso, EnEjecucion
<1> QED
  BY <1>7, <1>8, <1>9 DEF IInvUso

(* A new timer: the thread that creates it and the timer itself.            *)
LEMMA UsoDeTimer ==
    ASSUME IInvUso, IInvCpu', NEW h \in Hilos, NEW p \in Procs, CrearTimer(h, p)
    PROVE  IInvUso'
<1>1. PICK j, s, t, n : /\ n = hiloBlock[p] + 1 /\ j = Timer(p, n) /\ s = pila[h]
                        /\ t = Por("TIMER", p) /\ t.op = "TIMER"
  <2>1. Por("TIMER", p).op = "TIMER"
    BY DEF Por
  <2> QED
    BY <2>1
<1>2. /\ n <= MaxTimers /\ s # <<>> /\ Head(s).op = "CREAR_TIMER"
      /\ pila' = [pila EXCEPT ![h] = Tail(@), ![j] = <<t>>]
      /\ hiloBlock' = [hiloBlock EXCEPT ![p] = n]
      /\ UNCHANGED <<estado, cola, cpuPid, contexto>>
  BY <1>1 DEF CrearTimer, Toca, Por, planVars, cpuVars
<1>3. /\ n \in 1..MaxTimers /\ n > hiloBlock[p] /\ pila \in [Hilos -> Seq(Tarea)]
      /\ hiloBlock \in [Procs -> 0..MaxTimers] /\ PilasEnRegla
  <2>1. hiloBlock[p] \in 0..MaxTimers
    BY DEF IInvUso, IInvCpu, IInvTipos, TypeOK
  <2> QED
    BY <1>1, <1>2, <2>1, MaxTimersAssumption DEF IInvUso, IInvCpu, IInvTipos, TypeOK
<1>4. j \in Hilos /\ j \in Timers /\ pila[j] = <<>> /\ j # h
  <2>1. pila[j] = <<>>
    BY <1>1, <1>3 DEF PilasEnRegla
  <2> QED
    BY <1>1, <1>2, <1>3, <2>1, HilosPropios
<1>5. PICK r : r = Tail(s) /\ s \in Seq(Tarea) /\ r \in Seq(Tarea)
  <2>1. s \in Seq(Tarea)
    BY <1>1, <1>3
  <2>2. Tail(s) \in Seq(Tarea)
    BY <1>2, <2>1
  <2> QED
    BY <2>1, <2>2
<1>6. pila'[h] = r /\ pila'[j] = <<t>> /\ \A k \in Hilos \ {h, j} : pila'[k] = pila[k]
  BY <1>1, <1>2, <1>3, <1>4, <1>5
<1>7. \A x : Esta(x, s) <=> x = Head(s) \/ Esta(x, r)
  BY <1>2, <1>5, CabezaOResto
<1>8. EnRegla(r) /\ EnRegla(<<t>>)
  <2>1. EnRegla(<<>> \o Tail(s))
    <3>1. <<>> \in Seq(Tarea) /\ (\A x : ~Esta(x, <<>>)) /\ EnRegla(s)
      BY <1>1, <1>3, EstaEnVacia DEF PilasEnRegla
    <3> QED
      BY <1>2, <1>5, <3>1, ReglaTras
  <2>2. <<>> \o r = r
    BY <1>5
  <2>3. PICK u : u = <<t>>
    OBVIOUS
  <2>4. /\ u # <<>> /\ Tail(u) = <<>> /\ DOMAIN u = {1} /\ u[1].op = "TIMER"
        /\ \A x : ~Esta(x, Tail(u))
    BY <1>1, <2>3, EstaEnVacia
  <2> QED
    BY <1>5, <2>1, <2>2, <2>3, <2>4 DEF EnRegla
<1>9. PilasEnRegla'
  <2>1. \A k \in Hilos : EnRegla(pila'[k])
    BY <1>3, <1>6, <1>8 DEF PilasEnRegla
  <2>2. \A k \in Timers : DeReloj(pila'[k])
    <3>1. DeReloj(<<t>>)
      BY <1>1, EstaEnUna DEF DeReloj, DeManejador, Mandan
    <3>2. h \in Timers => DeReloj(r)
      BY <1>1, <1>3, <1>7 DEF DeReloj, PilasEnRegla
    <3> QED
      BY <1>3, <1>6, <3>1, <3>2 DEF PilasEnRegla, Hilos
  <2>3. ASSUME NEW q \in Procs, NEW k \in 1..MaxTimers, k > hiloBlock'[q]
        PROVE  pila'[Timer(q, k)] = <<>>
    <3>1. k > hiloBlock[q] /\ Timer(q, k) # j
      <4>1. CASE q = p
        <5>1. hiloBlock'[q] = n /\ k > n /\ k # n
          BY <1>2, <1>3, <2>3, <4>1
        <5>2. Timer(q, k) # Timer(p, n)
          BY <5>1 DEF Timer
        <5>3. k > hiloBlock[p]
          BY <1>1, <1>3, <5>1
        <5> QED
          BY <1>1, <4>1, <5>2, <5>3
      <4>2. CASE q # p
        <5>1. hiloBlock'[q] = hiloBlock[q]
          BY <1>2, <1>3, <4>2
        <5>2. Timer(q, k) # Timer(p, n)
          BY <4>2 DEF Timer
        <5> QED
          BY <1>1, <2>3, <5>1, <5>2
      <4> QED
        BY <4>1, <4>2
    <3>2. Timer(q, k) \in Hilos /\ pila[Timer(q, k)] = <<>>
      BY <1>3, <3>1, HilosPropios DEF PilasEnRegla
    <3> QED
      BY <1>1, <1>2, <1>6, <3>1, <3>2
  <2> QED
    BY <2>1, <2>2, <2>3 DEF PilasEnRegla
<1>10. \A x : Hay(x) => Hay(x)' \/ x = Head(s)
  <2>1. \A x : ~Esta(x, pila[j])
    BY <1>4, EstaEnVacia
  <2> QED
    BY <1>1, <1>4, <1>6, <1>7, <2>1 DEF Hay
<1>11. \A x : Hay(x)' => Hay(x) \/ x = t
  <2>1. ASSUME NEW x, NEW k \in Hilos, Esta(x, pila'[k]) PROVE x = t \/ Esta(x, pila[k])
    <3>1. CASE k = j
      <4>1. Esta(x, <<t>>)
        BY <1>6, <2>1, <3>1
      <4> QED
        BY <4>1, EstaEnUna
    <3>2. CASE k # j
      BY <1>1, <1>6, <1>7, <2>1, <3>2
    <3> QED
      BY <3>1, <3>2
  <2> QED
    BY <2>1 DEF Hay
<1>12. Head(s).op \notin Vigiladas /\ t.op \notin {"EXECUTE", "ENVIAR"}
  BY <1>1, <1>2 DEF Vigiladas, Ocupan, Mandan, Salen
<1>13. Discreta
  BY <1>2 DEF Discreta
<1>14. \A x : Hay(x) /\ x.op \in Vigiladas => Hay(x)'
  BY <1>10, <1>12
<1>15. \A x : Hay(x)' /\ x.op \in {"EXECUTE", "ENVIAR"} => Hay(x)
  BY <1>11, <1>12
<1> QED
  BY <1>9, <1>13, <1>14, <1>15, UsoIgual

LEMMA UsoDeProceso ==
    ASSUME IInvUso, IInvCpu', SolaCpu, NEW h \in Hilos, NEW p \in Procs, DeProceso(h, p)
    PROVE  IInvUso'
<1>1. estado \in [Procs -> Estados] /\ cola \in [Colas -> Seq(Procs)]
  BY DEF IInvUso, IInvCpu, IInvTipos, TypeOK
<1>2. CASE ~DeReady(h, p) /\ ~CrearTimer(h, p)
  <2>1. pila[h] # <<>> /\ \E u : Ajena(h, u)
    BY <1>1, <1>2, AjenaDeProceso
  <2>2. Discreta /\ hiloBlock' = hiloBlock
    BY <1>1, <1>2, DiscretaDeProceso
  <2> QED
    BY <2>1, <2>2, UsoSigue
<1> QED
  BY <1>2, UsoDeReady, UsoDeReadyCpu, UsoDeExecute, UsoDeEnviar, UsoDeTimer DEF DeReady

(* The planner: whoever brings processes to memory has nothing to do with   *)
(* the CPU; mandar_procesos_a_execute goes on until nobody waits or the CPU *)
(* is taken.                                                                *)
LEMMA UsoDeTraer ==
    ASSUME IInvUso, IInvCpu', NEW h \in Hilos,
           TraerEntra(h) \/ TraerRS(h) \/ TraerVerNew(h) \/ TraerNew(h)
    PROVE  IInvUso'
<1> DEFINE Traen == {"TRAER", "TRAER_RS", "TRAER_NEW", "PEDIR_NEW"}
           Buena(u) == Sirve(h, u) /\ \A t : Esta(t, u) => t.op \notin {"EXECUTE", "ENVIAR"}
<1>1. cola \in [Colas -> Seq(Procs)] /\ {"READY_SUSPENDED", "NEW"} \subseteq Colas
  BY DEF IInvUso, IInvCpu, IInvTipos, TypeOK, Colas
<1>2. UNCHANGED <<estado, cola, cpuPid, contexto, hiloBlock>>
  BY DEF TraerEntra, TraerRS, TraerVerNew, TraerNew, planVars, cpuVars, timerVars
<1>3. \A o \in Traen : /\ Sola(o) \in Tarea /\ Sola(o).op = o
                       /\ o \notin DeManejador \cup Cimas \cup Vigiladas
                                   \cup {"LIBERAR_CPU", "EXECUTE", "ENVIAR"}
  BY SolaTarea DEF Sola, Sueltas, DeManejador, Mandan, Cimas, Relojes, Vigiladas, Ocupan, Salen
<1>4. Buena(<<>>)
  BY SirveNada, EstaEnVacia
<1>5. \A o \in Traen : Buena(<<Sola(o)>>)
  BY <1>3, SirveUna, EstaEnUna DEF Cimas
<1>6. ASSUME NEW c \in Colas, cola[c] # <<>>, NEW o \in Traen
      PROVE  Buena(<<Por("READY", Head(cola[c])), Sola(o)>>)
  <2>1. /\ Por("READY", Head(cola[c])) \in Tarea /\ Por("READY", Head(cola[c])).op = "READY"
        /\ "READY" \notin DeManejador \cup Relojes \cup {"LIBERAR_CPU", "EXECUTE", "ENVIAR"}
    BY <1>1, <1>6, ElegidoEnCola, PorTarea DEF Ops, DeManejador, Mandan, Relojes
  <2>2. Sirve(h, <<Por("READY", Head(cola[c])), Sola(o)>>)
    BY <1>3, <2>1, SirveDos
  <2> QED
    BY <1>3, <2>1, <2>2, EstaEnDos
<1> HIDE DEF Buena
<1>7. \E o \in Traen : Toca(h, o, Nadie) /\ \E u : Buena(u) /\ Sigue(h, u)
  <2>1. CASE TraerEntra(h)
    BY <1>5, <2>1 DEF TraerEntra
  <2>2. CASE TraerRS(h)
    BY <1>1, <1>5, <1>6, <2>2 DEF TraerRS, Elegido
  <2>3. CASE TraerVerNew(h)
    BY <1>4, <1>5, <2>3 DEF TraerVerNew
  <2>4. CASE TraerNew(h)
    BY <1>1, <1>4, <1>6, <2>4 DEF TraerNew, Elegido
  <2> QED
    BY <2>1, <2>2, <2>3, <2>4
<1>8. pila[h] # <<>> /\ Head(pila[h]).op \notin Vigiladas
  BY <1>3, <1>7 DEF Toca, Por
<1>9. \E u : Ajena(h, u)
  BY <1>7, <1>8 DEF Ajena, Buena, Prescinde
<1>10. Discreta
  BY <1>2 DEF Discreta
<1> QED
  BY <1>2, <1>8, <1>9, <1>10, UsoSigue

LEMMA UsoDeMandar ==
    ASSUME IInvUso, IInvCpu', SolaCpu, NEW h \in Hilos,
           MandarEntra(h) \/ MandarVer(h) \/ MandarTomar(h)
    PROVE  IInvUso'
<1>1. /\ UNCHANGED <<contexto, estado, cola, hiloBlock>>
      /\ pila[h] # <<>> /\ Head(pila[h]).op \in Mandan
  BY DEF MandarEntra, MandarVer, MandarTomar, Toca, Por, Mandan, planVars, cpuVars, timerVars
<1>2. ASSUME NEW o \in Mandan
      PROVE  /\ Sola(o) \in Tarea /\ Sola(o).op = o /\ Sirve(h, <<Sola(o)>>)
             /\ \A t : Esta(t, <<Sola(o)>>) <=> t = Sola(o)
  <2>1. Sola(o) \in Tarea /\ Sola(o).op = o
    BY SolaTarea DEF Mandan, Sueltas, Sola
  <2>2. o # "LIBERAR_CPU" /\ o \notin Relojes /\ Head(pila[h]).op \in DeManejador
    BY <1>1 DEF Mandan, Relojes, DeManejador
  <2> QED
    BY <2>1, <2>2, SirveUna, EstaEnUna
<1>3. Sirve(h, <<>>) /\ \A t : ~Esta(t, <<>>)
  BY SirveNada, EstaEnVacia
<1>4. CASE MandarEntra(h) \/ (MandarVer(h) /\ cola["READY"] # <<>>)
  <2>1. PICK u, o : /\ o \in Mandan /\ u = <<Sola(o)>> /\ Sigue(h, u) /\ cpuPid' = cpuPid
    BY <1>4 DEF MandarEntra, MandarVer, Mandan, cpuVars
  <2>2. u # <<>> /\ Sirve(h, u) /\ \A t : Esta(t, u) => t.op \in Mandan
    BY <1>2, <2>1
  <2> QED
    BY <1>1, <2>1, <2>2, UsoMira
<1>5. CASE MandarVer(h) /\ cola["READY"] = <<>>
  <2>1. Sigue(h, <<>>) /\ cpuPid' = cpuPid
    BY <1>5 DEF MandarVer, cpuVars
  <2> QED
    BY <1>1, <1>3, <1>5, <2>1, UsoMira
<1>6. CASE MandarTomar(h) /\ (CpusDisponibles = {} \/ cola["READY"] = <<>>)
  <2>1. Sigue(h, <<>>) /\ cpuPid' = cpuPid
    BY <1>6 DEF MandarTomar
  <2>2. cpuPid[LaCpu] # Nadie \/ cola["READY"] = <<>>
    BY <1>6 DEF CpusDisponibles, SolaCpu
  <2> QED
    BY <1>1, <1>3, <2>1, <2>2, UsoMira
<1>7. CASE MandarTomar(h) /\ CpusDisponibles # {} /\ cola["READY"] # <<>>
  <2>1. LaCpu \in CpusDisponibles /\ cpuPid[LaCpu] = Nadie
    BY <1>7 DEF CpusDisponibles, SolaCpu
  <2>2. PICK p : p = Head(cola["READY"]) /\ p \in Procs
    <3>1. cola \in [Colas -> Seq(Procs)] /\ "READY" \in Colas
      BY DEF IInvUso, IInvCpu, IInvTipos, TypeOK, Colas
    <3> QED
      BY <1>7, <3>1, ElegidoEnCola
  <2>3. /\ Por("EXECUTE", p) \in Tarea /\ Por("EXECUTE", p).op = "EXECUTE"
        /\ Por("EXECUTE", p).pid = p
    BY <2>2, PorTarea DEF Ops
  <2>4. /\ "EXECUTE" \notin DeManejador \cup Relojes \cup {"LIBERAR_CPU"}
        /\ "MANDAR_VER" \in Mandan \ (Cimas \cup {"LIBERAR_CPU", "EXECUTE", "ENVIAR"})
        /\ Head(pila[h]).op \in DeManejador
    BY <1>1 DEF DeManejador, Mandan, Relojes, Cimas
  <2>5. Sola("MANDAR_VER") \in Tarea /\ Sola("MANDAR_VER").op = "MANDAR_VER"
    BY <1>2, <2>4
  <2>6. PICK u : u = <<Por("EXECUTE", p), Sola("MANDAR_VER")>>
    OBVIOUS
  <2>7. Sirve(h, u)
    BY <2>3, <2>4, <2>5, <2>6, SirveDos
  <2>8. \A t : Esta(t, u) <=> t = Por("EXECUTE", p) \/ t = Sola("MANDAR_VER")
    BY <2>6, EstaEnDos
  <2>9. Sigue(h, u) /\ cpuPid' = [cpuPid EXCEPT ![LaCpu] = p]
    BY <1>7, <2>1, <2>2, <2>6, LaPrimera DEF MandarTomar
  <2> QED
    BY <1>1, <2>1, <2>2, <2>3, <2>4, <2>5, <2>7, <2>8, <2>9, UsoReserva
<1> QED
  BY <1>4, <1>5, <1>6, <1>7

LEMMA UsoDePlanificador ==
    ASSUME IInvUso, IInvCpu', SolaCpu, NEW h \in Hilos, DePlanificador(h)
    PROVE  IInvUso'
BY UsoDeTraer, UsoDeMandar DEF DePlanificador

LEMMA ReglaDeNada == EnRegla(<<>>)
BY DEF EnRegla

LEMMA ReglaDeUna ==
    ASSUME NEW t, t.op # "LIBERAR_CPU"
    PROVE  EnRegla(<<t>>)
<1>1. PICK u : u = <<t>>
  OBVIOUS
<1>2. u # <<>> /\ Tail(u) = <<>> /\ DOMAIN u = {1} /\ u[1] = t
  BY <1>1
<1>3. \A x : ~Esta(x, Tail(u))
  BY <1>2, EstaEnVacia
<1>4. EnRegla(u)
  BY <1>2, <1>3 DEF EnRegla
<1> QED
  BY <1>1, <1>4

LEMMA UnaYDos == ASSUME NEW x, NEW y, NEW z PROVE <<x>> \o <<y, z>> = <<x, y, z>>
<1>1. PICK a, b, w : a = <<x>> /\ b = <<y, z>> /\ w = a \o b
  OBVIOUS
<1>2. /\ a \in Seq({x, y, z}) /\ b \in Seq({x, y, z}) /\ Len(a) = 1 /\ Len(b) = 2
      /\ a[1] = x /\ b[1] = y /\ b[2] = z
  BY <1>1
<1>3. /\ w \in Seq({x, y, z}) /\ Len(w) = 3
      /\ w[1] = x /\ w[2] = y /\ w[3] = z
  BY <1>1, <1>2, ConcatProperties
<1>4. w = <<x, y, z>>
  BY <1>3
<1> QED
  BY <1>1, <1>4

(* The tasks of a system call, as EnRegla wants them: whoever frees the CPU *)
(* looks for whom to send it next, and the process leaves EXECUTE.          *)
LEMMA SyscallEnRegla ==
    ASSUME NEW p \in Procs, NEW o \in (Syscalls \cup {"EXIT"}) \ {"INIT_PROC"}
    PROVE  LET u == TareasDe(o, p) IN
           /\ EnRegla(u)
           /\ \A t : Esta(t, u) => t.op \notin {"EXECUTE", "ENVIAR"}
           /\ \E t : Esta(t, u) /\ t.op = "MANDAR"
           /\ o = "EXIT" => \E t : Esta(t, u) /\ t.op = "LIBERAR_CPU"
           /\ o # "EXIT" \/ estado[p] # "ELIMINADO" =>
                  \E t : Esta(t, u) /\ t.op \in Salen /\ t.pid = p
<1>1. PICK u, m, l : /\ u = TareasDe(o, p) /\ m = Sola("MANDAR") /\ m.op = "MANDAR"
                     /\ l = Sola("LIBERAR_CPU") /\ l.op = "LIBERAR_CPU"
  <2>1. Sola("MANDAR").op = "MANDAR" /\ Sola("LIBERAR_CPU").op = "LIBERAR_CPU"
    BY DEF Sola
  <2> QED
    BY <2>1
<1>2. \A x : Por(x, p).op = x /\ Por(x, p).pid = p
  BY DEF Por
<1>3. CASE o = "EXIT" /\ estado[p] = "ELIMINADO"
  <2>1. u = <<>> \o <<l, m>>
    BY <1>1, <1>3 DEF TareasDe
  <2>2. u = <<l, m>>
    BY <2>1
  <2>3. /\ u # <<>> /\ Head(u) = l /\ DOMAIN u = {1, 2} /\ u[1] = l /\ u[2] = m /\ 1 + 1 = 2
        /\ DOMAIN Tail(u) = {1} /\ Tail(u)[1] = m
    BY <2>2
  <2>4. (\A t : Esta(t, u) <=> t = l \/ t = m) /\ (\A t : Esta(t, Tail(u)) <=> t = m)
    BY <2>3 DEF Esta
  <2>5. EnRegla(u)
    BY <1>1, <2>3, <2>4 DEF EnRegla, Cimas, Relojes
  <2> QED
    BY <1>1, <1>3, <2>4, <2>5
<1>4. CASE o = "EXIT" /\ estado[p] # "ELIMINADO"
  <2>1. PICK e : e = Por("EXIT", p) /\ e.op = "EXIT" /\ e.pid = p
    BY <1>2
  <2>2. u = <<e>> \o <<l, m>>
    BY <1>1, <1>4, <2>1 DEF TareasDe
  <2>3. u = <<e, l, m>>
    BY <2>2, UnaYDos
  <2>4. /\ u # <<>> /\ Head(u) = e /\ DOMAIN u = {1, 2, 3} /\ u[1] = e /\ u[2] = l /\ u[3] = m
        /\ 2 + 1 = 3 /\ DOMAIN Tail(u) = {1, 2} /\ Tail(u)[1] = l /\ Tail(u)[2] = m
    BY <2>3
  <2>5. /\ \A t : Esta(t, u) <=> t = e \/ t = l \/ t = m
        /\ \A t : Esta(t, Tail(u)) <=> t = l \/ t = m
    BY <2>4 DEF Esta
  <2>6. EnRegla(u)
    BY <1>1, <2>1, <2>4, <2>5 DEF EnRegla, Cimas, Relojes
  <2>8. "EXIT" \in Salen
    BY DEF Salen
  <2> QED
    BY <1>1, <1>4, <2>1, <2>5, <2>6, <2>8
<1>5. CASE o # "EXIT"
  <2>1. PICK b, t : /\ b = Por("BLOCKED", p) /\ b.op = "BLOCKED" /\ b.pid = p
                    /\ t.op \in {"ENCOLAR_IO", "EXIT", "DUMP", "DUMP_FALLA"}
                    /\ u = <<b, t, m>> \/ u = <<b, m, t>>
    <3>1. CASE o = "IO"
      BY <1>1, <1>2, <3>1 DEF TareasDe
    <3>2. CASE o = "IO_FALLA"
      BY <1>1, <1>2, <3>2 DEF TareasDe
    <3>3. CASE o \in {"DUMP", "DUMP_FALLA"}
      BY <1>1, <1>2, <3>3 DEF TareasDe
    <3> QED
      BY <1>5, <3>1, <3>2, <3>3 DEF Syscalls
  <2>2. /\ u # <<>> /\ Head(u) = b
        /\ \A x : Esta(x, u) <=> x = b \/ x = t \/ x = m
        /\ \A x : Esta(x, Tail(u)) <=> x = t \/ x = m
    <3>1. CASE u = <<b, t, m>>
      <4>1. /\ u # <<>> /\ Head(u) = b /\ DOMAIN u = {1, 2, 3} /\ u[1] = b /\ u[2] = t /\ u[3] = m
            /\ DOMAIN Tail(u) = {1, 2} /\ Tail(u)[1] = t /\ Tail(u)[2] = m
        BY <3>1
      <4> QED
        BY <4>1 DEF Esta
    <3>2. CASE u = <<b, m, t>>
      <4>1. /\ u # <<>> /\ Head(u) = b /\ DOMAIN u = {1, 2, 3} /\ u[1] = b /\ u[2] = m /\ u[3] = t
            /\ DOMAIN Tail(u) = {1, 2} /\ Tail(u)[1] = m /\ Tail(u)[2] = t
        BY <3>2
      <4> QED
        BY <4>1 DEF Esta
    <3> QED
      BY <2>1, <3>1, <3>2
  <2>3. EnRegla(u)
    <3>1. \A i \in DOMAIN u : u[i].op # "LIBERAR_CPU"
      BY <1>1, <2>1, <2>2 DEF Esta
    <3> QED
      BY <1>1, <2>1, <2>2, <3>1 DEF EnRegla, Cimas, Relojes
  <2>4. "BLOCKED" \in Salen
    BY DEF Salen
  <2> QED
    BY <1>1, <1>5, <2>1, <2>2, <2>3, <2>4
<1> QED
  BY <1>3, <1>4, <1>5

LEMMA UsoDeLiberar ==
    ASSUME IInvUso, IInvCpu', SolaCpu, LiberarCpu(LaCpu)
    PROVE  IInvUso'
<1>1. PICK h, s : h = Cpu(LaCpu) /\ h \in Hilos /\ s = pila[h]
  BY HilosPropios DEF SolaCpu
<1>2. /\ s # <<>> /\ Head(s).op = "LIBERAR_CPU" /\ Sigue(h, <<>>)
      /\ cpuPid' = [cpuPid EXCEPT ![LaCpu] = Nadie]
      /\ UNCHANGED <<estado, cola, contexto, hiloBlock>>
  BY <1>1 DEF LiberarCpu, Toca, Por, planVars, timerVars
<1>3. /\ pila \in [Hilos -> Seq(Tarea)] /\ PilasEnRegla /\ hiloBlock' = hiloBlock
      /\ cpuPid \in [Cpus -> Procs \cup {Nadie}] /\ LaCpu \in Cpus
  BY <1>2 DEF IInvUso, IInvCpu, IInvTipos, TypeOK, SolaCpu
<1>4. /\ PilasEnRegla'
      /\ \A t : Hay(t) => Hay(t)' \/ t = Head(s)
      /\ \A t : Hay(t)' => Hay(t)
      /\ \A t : Esta(t, Tail(s)) => Hay(t)'
  <2>1. Sirve(h, <<>>) /\ \A t : ~Esta(t, <<>>)
    BY SirveNada, EstaEnVacia
  <2> QED
    BY <1>1, <1>2, <1>3, <2>1, PilasSirven
<1>5. cpuPid'[LaCpu] = Nadie
  BY <1>2, <1>3
<1>6. Avisada'
  <2>1. s \in Seq(Tarea)
    BY <1>1, <1>3
  <2>2. 1 \in DOMAIN s /\ s[1] = Head(s)
    BY <1>2, <2>1
  <2>3. 1 + 1 \in DOMAIN s /\ s[1 + 1].op = "MANDAR"
    BY <1>1, <1>2, <1>3, <2>2 DEF PilasEnRegla, EnRegla
  <2>4. 1 \in DOMAIN Tail(s) /\ Tail(s)[1] = s[1 + 1]
    BY <1>2, <2>1, <2>3
  <2>5. Esta(s[1 + 1], Tail(s))
    BY <2>4 DEF Esta
  <2> QED
    BY <1>4, <2>3, <2>5 DEF Avisada, Mandan
<1>7. Reservada'
  BY <1>5 DEF Reservada
<1>8. ParaQuien'
  BY <1>1, <1>2, <1>4, UnSoloTurno DEF IInvUso, ParaQuien, Ocupan
<1>9. EnEjecucion'
  <2>1. PidDe(LaCpu)' = PidDe(LaCpu)
    BY <1>2 DEF PidDe, Corre
  <2>2. \A t : Hay(t) /\ t.op \in Salen => Hay(t)'
    BY <1>2, <1>4 DEF Salen
  <2> QED
    BY <1>2, <2>1, <2>2 DEF IInvUso, EnEjecucion
<1> QED
  BY <1>4, <1>6, <1>7, <1>8, <1>9 DEF IInvUso

(* A system call that takes the process out of the CPU.                     *)
LEMMA UsoDeSyscall ==
    ASSUME IInvUso, IInvCpu', SolaCpu, SyscallExit(LaCpu) \/ SyscallBloqueante(LaCpu)
    PROVE  IInvUso'
<1>1. PICK h : h = Cpu(LaCpu) /\ h \in Fijos
  <2>1. Cpu(LaCpu) \in Hilos
    BY HilosPropios DEF SolaCpu
  <2> QED
    BY <2>1 DEF Fijos, Timers, Timer, Cpu
<1>2. PICK o \in (Syscalls \cup {"EXIT"}) \ {"INIT_PROC"} :
          /\ contexto[LaCpu] # <<>> /\ pila[h] = <<>>
          /\ pila' = [pila EXCEPT ![h] = TareasDe(o, PidDe(LaCpu))]
          /\ contexto' = [contexto EXCEPT ![LaCpu] = Tail(@)]
          /\ UNCHANGED <<estado, cola, hiloBlock>>
          /\ \/ o = "EXIT" /\ cpuPid' = cpuPid
             \/ o # "EXIT" /\ cpuPid' = [cpuPid EXCEPT ![LaCpu] = Nadie]
  BY <1>1 DEF SyscallExit, SyscallBloqueante, Pide, Syscalls, planVars, timerVars
<1>3. /\ pila \in [Hilos -> Seq(Tarea)] /\ PilasEnRegla /\ hiloBlock' = hiloBlock /\ OtrosTipos
      /\ cpuPid \in [Cpus -> Procs \cup {Nadie}] /\ LaCpu \in Cpus
      /\ contexto \in [Cpus -> Seq([pid : Procs, pc : Nat])]
  BY <1>2, TiposJuntos DEF IInvUso, IInvCpu, IInvTipos, TypeOK, SolaCpu
<1>4. PICK p, u : p = PidDe(LaCpu) /\ p \in Procs /\ u = TareasDe(o, p)
  BY <1>2, <1>3, CorreTipo
<1>5. /\ EnRegla(u)
      /\ \A t : Esta(t, u) => t.op \notin {"EXECUTE", "ENVIAR"}
      /\ \E t : Esta(t, u) /\ t.op = "MANDAR"
      /\ o = "EXIT" => \E t : Esta(t, u) /\ t.op = "LIBERAR_CPU"
      /\ o # "EXIT" \/ estado[p] # "ELIMINADO" =>
             \E t : Esta(t, u) /\ t.op \in Salen /\ t.pid = p
  BY <1>4, SyscallEnRegla
<1>6. /\ PilasEnRegla'
      /\ \A t : Hay(t) => Hay(t)'
      /\ \A t : Hay(t)' => Hay(t) \/ Esta(t, u)
      /\ \A t : Esta(t, u) => Hay(t)'
  <2>1. pila' = [pila EXCEPT ![h] = u]
    BY <1>2, <1>4
  <2> QED
    BY <1>1, <1>2, <1>3, <1>5, <2>1, PilasNacen
<1>7. Reservada'
  BY <1>2, <1>3, <1>5, <1>6 DEF Reservada, Ocupan
<1>8. Avisada'
  BY <1>5, <1>6 DEF Avisada, Mandan
<1>9. ParaQuien'
  <2>1. \A t : Hay(t) => t.op \notin {"EXECUTE", "ENVIAR"}
    BY <1>2, Libre DEF IInvUso, Ocupan
  <2> QED
    BY <1>5, <1>6, <2>1 DEF ParaQuien
<1>10. EnEjecucion'
  <2>1. ASSUME NEW q \in Procs, estado'[q] = "EXECUTE"
        PROVE  \E t : Hay(t)' /\ t.pid = q /\ t.op \in Salen
    <3>1. estado[q] = "EXECUTE"
      BY <1>2, <2>1
    <3>2. CASE q = p
      BY <1>5, <1>6, <3>1, <3>2
    <3>3. CASE q # p
      BY <1>4, <1>6, <3>1, <3>3 DEF IInvUso, EnEjecucion
    <3> QED
      BY <3>2, <3>3
  <2> QED
    BY <2>1 DEF EnEjecucion
<1> QED
  BY <1>6, <1>7, <1>8, <1>9, <1>10 DEF IInvUso

(* INIT_PROC: the process that asks stays on the CPU.                       *)
LEMMA UsoDeInitProc ==
    ASSUME IInvUso, IInvCpu', SolaCpu, SyscallInitProc(LaCpu)
    PROVE  IInvUso'
<1>1. PICK h : h = Cpu(LaCpu) /\ h \in Fijos
  <2>1. Cpu(LaCpu) \in Hilos
    BY HilosPropios DEF SolaCpu
  <2> QED
    BY <2>1 DEF Fijos, Timers, Timer, Cpu
<1>2. PICK q, t, x :
          /\ q = Instruccion(LaCpu).pid /\ t = Por("NEW", q)
          /\ x = [Corre(LaCpu) EXCEPT !.pc = PcSiguiente(LaCpu)]
          /\ contexto[LaCpu] # <<>> /\ pila[h] = <<>>
          /\ pila' = [pila EXCEPT ![h] = <<t>>]
          /\ contexto' = [contexto EXCEPT ![LaCpu] = <<x>> \o Tail(@)]
          /\ estado' = [estado EXCEPT ![q] = "CREADO"]
          /\ UNCHANGED <<cola, cpuPid, hiloBlock>>
  BY <1>1 DEF SyscallInitProc, Pide, timerVars
<1>3. /\ pila \in [Hilos -> Seq(Tarea)] /\ PilasEnRegla /\ hiloBlock' = hiloBlock /\ OtrosTipos
      /\ LaCpu \in Cpus /\ contexto \in [Cpus -> Seq([pid : Procs, pc : Nat])]
      /\ estado \in [Procs -> Estados]
  BY <1>2, TiposJuntos DEF IInvUso, IInvCpu, IInvTipos, TypeOK, SolaCpu
<1>4. t.op = "NEW"
  BY <1>2 DEF Por
<1>5. /\ PilasEnRegla'
      /\ \A y : Hay(y) => Hay(y)'
      /\ \A y : Hay(y)' => Hay(y) \/ y = t
  <2>1. EnRegla(<<t>>) /\ \A y : Esta(y, <<t>>) <=> y = t
    BY <1>4, ReglaDeUna, EstaEnUna
  <2> QED
    BY <1>1, <1>2, <1>3, <2>1, PilasNacen
<1>6. contexto'[LaCpu] # <<>> /\ PidDe(LaCpu)' = PidDe(LaCpu)
  <2>1. PICK s : s = contexto[LaCpu] /\ s \in Seq([pid : Procs, pc : Nat])
    BY <1>3
  <2>2. Tail(s) = <<>>
    <3>1. Len(s) <= 1
      BY <1>3, <2>1 DEF IInvUso, IInvCpu, CpuTomada
    <3> QED
      BY <1>2, <2>1, <3>1, SinCola
  <2>3. contexto'[LaCpu] = <<x>> \o <<>>
    BY <1>2, <1>3, <2>1, <2>2
  <2>4. contexto'[LaCpu] = <<x>>
    BY <2>3
  <2>5. contexto'[LaCpu] # <<>> /\ Head(contexto'[LaCpu]) = x
    BY <2>4
  <2>6. x.pid = Corre(LaCpu).pid
    BY <1>2, <1>3, CorreTipo
  <2> QED
    BY <2>5, <2>6 DEF PidDe, Corre
<1>7. cpuPid'[LaCpu] # Nadie
  BY <1>2 DEF IInvUso, IInvCpu, CpuTomada
<1>8. Reservada' /\ Avisada' /\ ParaQuien'
  <2>1. Reservada' /\ Avisada'
    BY <1>6, <1>7 DEF Reservada, Avisada
  <2> QED
    BY <1>2, <1>4, <1>5, <2>1 DEF IInvUso, ParaQuien
<1>9. EnEjecucion'
  <2>1. \A y \in Procs : estado'[y] = "EXECUTE" => estado[y] = "EXECUTE"
    BY <1>2, <1>3
  <2> QED
    BY <1>2, <1>5, <1>6, <2>1 DEF IInvUso, EnEjecucion
<1> QED
  BY <1>5, <1>8, <1>9 DEF IInvUso

LEMMA UsoDeCpu ==
    ASSUME IInvUso, IInvCpu', SolaCpu, NEW c \in Cpus, DeCpu(c)
    PROVE  IInvUso'
<1>1. c = LaCpu
  BY DEF SolaCpu
<1> QED
  BY <1>1, UsoDeLiberar, UsoDeSyscall, UsoDeInitProc DEF DeCpu

LEMMA UsoDeIO ==
    ASSUME IInvUso, IInvCpu', NEW x \in Conexiones, DesbloqueoIO(x)
    PROVE  IInvUso'
<1>1. pila \in [Hilos -> Seq(Tarea)] /\ Io(x) \in Hilos /\ PilasEnRegla
  BY HilosPropios DEF IInvUso, IInvCpu, IInvTipos, TypeOK
<1>2. Io(x) \in Fijos
  BY <1>1 DEF Fijos, Timers, Timer, Io
<1>3. PICK t, u :
          /\ t.op = "DESBLOQUEO" /\ pila[Io(x)] = <<>>
          /\ u = <<>> \/ u = <<t>>
          /\ pila' = [pila EXCEPT ![Io(x)] = u]
          /\ UNCHANGED <<estado, cola, cpuPid, contexto, hiloBlock>>
  <2>1. \A p : Por("DESBLOQUEO", p).op = "DESBLOQUEO"
    BY DEF Por
  <2> QED
    BY <2>1 DEF DesbloqueoIO, planVars, cpuVars, timerVars
<1>4. EnRegla(u) /\ \A y : Esta(y, u) => y = t
  BY <1>3, ReglaDeNada, ReglaDeUna, EstaEnVacia, EstaEnUna
<1>5. /\ PilasEnRegla'
      /\ \A y : Hay(y) => Hay(y)'
      /\ \A y : Hay(y)' => Hay(y) \/ Esta(y, u)
  <2>1. hiloBlock' = hiloBlock
    BY <1>3
  <2> QED
    BY <1>1, <1>2, <1>3, <1>4, <2>1, PilasNacen
<1>6. Discreta
  BY <1>3 DEF Discreta
<1>7. \A y : Hay(y)' /\ y.op \in {"EXECUTE", "ENVIAR"} => Hay(y)
  BY <1>3, <1>4, <1>5
<1> QED
  BY <1>5, <1>6, <1>7, UsoIgual

(* A timer whose cancel acts while it sends a process to the CPU: the CPU   *)
(* stays reserved for it.                                                   *)
MuereConLaCpu ==
    \E p \in Procs, k \in 1..MaxTimers :
        TimerMuere(p, k) /\ Head(pila[Timer(p, k)]).op \in {"EXECUTE", "ENVIAR"}

LEMMA UsoDeMuerto ==
    ASSUME IInvUso, IInvCpu', PasoMuere, ~MuereConLaCpu
    PROVE  IInvUso'
<1>1. PICK p \in Procs, k \in 1..MaxTimers : TimerMuere(p, k)
  BY DEF PasoMuere
<1>2. PICK h, s : h = Timer(p, k) /\ h \in Hilos /\ h \in Timers /\ s = pila[h]
  BY HilosPropios
<1>3. /\ s # <<>> /\ pila' = [pila EXCEPT ![h] = <<>>]
      /\ UNCHANGED <<estado, cola, cpuPid, contexto, hiloBlock>>
      /\ Head(s).op \in {"SUSPENDER_MEM", "TRAER_RS", "PEDIR_NEW", "READY", "SUSPENDER"}
  <2>1. Head(s).op \notin {"EXECUTE", "ENVIAR"}
    BY <1>1, <1>2 DEF MuereConLaCpu
  <2>2. MutexDelPedido(Head(s).op) # {} \/ EstadoDelPedido(Head(s)) # {}
    BY <1>1, <1>2 DEF TimerMuere
  <2>3. Head(s).op \in {"SUSPENDER_MEM", "TRAER_RS", "PEDIR_NEW", "READY", "SUSPENDER"}
    BY <2>1, <2>2 DEF MutexDelPedido, EstadoDelPedido
  <2> QED
    BY <1>1, <1>2, <2>3 DEF TimerMuere, planVars, cpuVars
<1>4. /\ pila \in [Hilos -> Seq(Tarea)] /\ PilasEnRegla /\ s \in Seq(Tarea)
      /\ EnRegla(s) /\ DeReloj(s)
  BY <1>2 DEF IInvUso, IInvCpu, IInvTipos, TypeOK, PilasEnRegla
<1>5. pila'[h] = <<>> /\ \A j \in Hilos \ {h} : pila'[j] = pila[j]
  BY <1>2, <1>3, <1>4
<1>6. \A t : Esta(t, s) => t.op \notin Vigiladas
  <2>1. \A t : Esta(t, s) => t = Head(s) \/ Esta(t, Tail(s))
    BY <1>3, <1>4, CabezaOResto
  <2>2. \A t : Esta(t, Tail(s)) => t.op \notin Cimas
    BY <1>3, <1>4 DEF EnRegla
  <2>3. \A t : Esta(t, s) => t.op \notin DeManejador
    BY <1>4 DEF DeReloj
  <2>4. Vigiladas \subseteq DeManejador \cup Cimas /\ Head(s).op \notin Vigiladas
    BY <1>3 DEF Vigiladas, Ocupan, Mandan, Salen, DeManejador, Cimas
  <2> QED
    BY <2>1, <2>2, <2>3, <2>4
<1>7. \A t : Hay(t) /\ t.op \in Vigiladas => Hay(t)'
  BY <1>2, <1>5, <1>6 DEF Hay
<1>8. \A t : Hay(t)' => Hay(t)
  <2>1. \A t : ~Esta(t, pila'[h])
    BY <1>5, EstaEnVacia
  <2> QED
    BY <1>5, <2>1 DEF Hay
<1>9. PilasEnRegla'
  <2>1. \A j \in Hilos : EnRegla(pila'[j])
    BY <1>4, <1>5, ReglaDeNada DEF PilasEnRegla
  <2>2. \A j \in Timers : DeReloj(pila'[j])
    <3>1. DeReloj(<<>>)
      BY EstaEnVacia DEF DeReloj
    <3> QED
      BY <1>4, <1>5, <3>1 DEF PilasEnRegla, Hilos
  <2>3. \A q \in Procs : \A n \in 1..MaxTimers : n > hiloBlock'[q] => pila'[Timer(q, n)] = <<>>
    BY <1>3, <1>4, <1>5, HilosPropios DEF PilasEnRegla
  <2> QED
    BY <2>1, <2>2, <2>3 DEF PilasEnRegla
<1>10. Discreta
  BY <1>3 DEF Discreta
<1> QED
  BY <1>7, <1>8, <1>9, <1>10, UsoIgual

LEMMA UsoPasoAPaso == SolaCpu /\ IInvUso /\ [Next]_vars /\ [~MuereConLaCpu]_vars => IInvUso'
<1> SUFFICES ASSUME SolaCpu, IInvUso, [Next]_vars, [~MuereConLaCpu]_vars PROVE IInvUso'
  OBVIOUS
<1>1. IInvCpu'
  BY CpuPasoAPaso DEF IInvUso
<1>2. ASSUME NEW h \in Hilos, PasoHilo(h) PROVE IInvUso'
  BY <1>1, <1>2, UsoDePlanificador, UsoDeProceso DEF PasoHilo
<1>3. ASSUME NEW c \in Cpus, DeCpu(c) PROVE IInvUso'
  BY <1>1, <1>3, UsoDeCpu
<1>4. ASSUME NEW x \in Conexiones, DesbloqueoIO(x) PROVE IInvUso'
  BY <1>1, <1>4, UsoDeIO
<1>5. CASE UNCHANGED vars
  <2>1. UNCHANGED <<pila, estado, cola, cpuPid, contexto, hiloBlock>>
    BY <1>5 DEF vars, otras, planVars, cpuVars, timerVars
  <2>2. PilasEnRegla' /\ Discreta /\ \A t : Hay(t) <=> Hay(t)'
    BY <2>1 DEF IInvUso, PilasEnRegla, Discreta, Hay
  <2> QED
    BY <1>1, <2>2, UsoIgual
<1>6. CASE Reposo
  BY <1>5, <1>6 DEF Reposo
<1>7. CASE PasoMuere
  BY <1>1, <1>5, <1>7, UsoDeMuerto
<1> QED
  BY <1>2, <1>3, <1>4, <1>5, <1>6, <1>7 DEF Next

LEMMA UsoAlEmpezar == SolaCpu /\ Init => IInvUso
<1> SUFFICES ASSUME SolaCpu, Init PROVE IInvUso
  OBVIOUS
<1>1. IInvCpu
  BY CpuAlEmpezar
<1>2. PICK t : t = Por("NEW", Primero) /\ t.op = "NEW"
  <2>1. Por("NEW", Primero).op = "NEW"
    BY DEF Por
  <2> QED
    BY <2>1
<1>3. /\ \A h \in Hilos : pila[h] = <<>> \/ (h = Main /\ pila[h] = <<t>>)
      /\ \A q \in Procs : estado[q] \in {"CREADO", "NO_CREADO"}
      /\ LaCpu \in Cpus /\ cpuPid[LaCpu] = Nadie /\ cola["READY"] = <<>>
  BY <1>2 DEF Init, SolaCpu, Colas
<1>4. \A h \in Timers : h \in Hilos /\ h # Main
  BY DEF Hilos, Timers, Timer, Main
<1>5. PilasEnRegla
  <2>1. \A h \in Hilos : EnRegla(pila[h])
    BY <1>2, <1>3, ReglaDeNada, ReglaDeUna
  <2>2. \A h \in Timers : pila[h] = <<>>
    BY <1>3, <1>4
  <2>3. \A h \in Timers : DeReloj(pila[h])
    BY <2>2, EstaEnVacia DEF DeReloj
  <2> QED
    BY <2>1, <2>2, <2>3, HilosPropios DEF PilasEnRegla
<1>6. \A x : Hay(x) => x = t
  BY <1>3, EstaEnVacia, EstaEnUna DEF Hay
<1>7. Reservada /\ Avisada /\ EnEjecucion
  BY <1>3 DEF Reservada, Avisada, EnEjecucion
<1>8. ParaQuien
  BY <1>2, <1>6 DEF ParaQuien
<1> QED
  BY <1>1, <1>5, <1>7, <1>8 DEF IInvUso

LEMMA UsoDice == SolaCpu /\ IInvUso => CpusAprovechadas /\ ExecuteEjecuta
<1> SUFFICES ASSUME SolaCpu, IInvUso PROVE CpusAprovechadas /\ ExecuteEjecuta
  OBVIOUS
<1>1. ASSUME Quieto PROVE \A t : Hay(t) => t.op = "DORMIR"
  <2>1. ASSUME NEW h \in Hilos, NEW t, Esta(t, pila[h]) PROVE t.op = "DORMIR"
    <3>1. pila[h] \in Seq(Tarea) /\ EnRegla(pila[h])
      BY DEF IInvUso, IInvCpu, IInvTipos, TypeOK, PilasEnRegla
    <3>2. pila[h] # <<>>
      BY <2>1, EstaEnVacia
    <3>3. Head(pila[h]).op = "DORMIR"
      BY <1>1, <3>2 DEF Quieto, Durmiendo
    <3>4. Tail(pila[h]) = <<>>
      BY <3>1, <3>2, <3>3 DEF EnRegla, Relojes
    <3>5. t = Head(pila[h]) \/ Esta(t, Tail(pila[h]))
      BY <2>1, <3>1, <3>2, CabezaOResto
    <3> QED
      BY <3>3, <3>4, <3>5, EstaEnVacia
  <2> QED
    BY <2>1 DEF Hay
<1>2. CpusAprovechadas
  <2>1. ASSUME Quieto, cola["READY"] # <<>> PROVE contexto[LaCpu] # <<>>
    <3>1. \A t : Hay(t) => t.op \notin Ocupan \cup Mandan \cup {"READY_CPU"}
      BY <1>1, <2>1 DEF Ocupan, Mandan
    <3>2. cpuPid[LaCpu] # Nadie
      BY <2>1, <3>1 DEF IInvUso, Avisada
    <3> QED
      BY <3>1, <3>2 DEF IInvUso, Reservada
  <2> QED
    BY <2>1 DEF CpusAprovechadas, SolaCpu
<1>3. ExecuteEjecuta
  <2>1. ASSUME NEW q \in Procs, estado[q] = "EXECUTE", Pendientes(q) = {}
        PROVE  contexto[LaCpu] # <<>> /\ PidDe(LaCpu) = q
    <3>1. ASSUME NEW t, Hay(t), t.pid = q, t.op \in Salen PROVE FALSE
      <4>1. PICK h \in Hilos : Esta(t, pila[h])
        BY <3>1 DEF Hay
      <4>2. PICK i \in DOMAIN pila[h] : pila[h][i] = t
        BY <4>1 DEF Esta
      <4>3. t.op \notin {"TIMER", "DORMIR"}
        BY <3>1 DEF Salen
      <4>4. t \in Pendientes(q)
        BY <3>1, <4>2, <4>3 DEF Pendientes
      <4> QED
        BY <2>1, <4>4
    <3> QED
      BY <2>1, <3>1 DEF IInvUso, EnEjecucion
  <2> QED
    BY <2>1 DEF ExecuteEjecuta, SolaCpu
<1> QED
  BY <1>2, <1>3

(* With one CPU, and while no cancelled timer dies sending a process to it, *)
(* once every thread is done the CPU is not idle while a process waits in   *)
(* READY: whoever frees it, or brings a process to READY, looks afterwards. *)
THEOREM CpuSiempreAprovechada ==
    ASSUME SolaCpu PROVE Spec /\ [][~MuereConLaCpu]_vars => []CpusAprovechadas
<1>1. Init => IInvUso
  BY UsoAlEmpezar
<1>2. IInvUso /\ [Next]_vars /\ [~MuereConLaCpu]_vars => IInvUso'
  BY UsoPasoAPaso
<1>3. IInvUso => CpusAprovechadas
  BY UsoDice
<1> QED
  BY <1>1, <1>2, <1>3, PTL DEF Spec

(* On the same condition, a process in EXECUTE that no thread is moving is  *)
(* on the CPU (queue_process sends it the context, or puts it back in READY *)
(* when it has no CPU).                                                     *)
THEOREM ExecuteSiempreEjecuta ==
    ASSUME SolaCpu PROVE Spec /\ [][~MuereConLaCpu]_vars => []ExecuteEjecuta
<1>1. Init => IInvUso
  BY UsoAlEmpezar
<1>2. IInvUso /\ [Next]_vars /\ [~MuereConLaCpu]_vars => IInvUso'
  BY UsoPasoAPaso
<1>3. IInvUso => ExecuteEjecuta
  BY UsoDice
<1> QED
  BY <1>1, <1>2, <1>3, PTL DEF Spec

(* If TIEMPO_SUSPENSION never elapses, a timer has nothing to do but sleep. *)
Dormilones == \A h \in Timers : pila[h] # <<>> => Head(pila[h]).op \in Relojes

LEMMA SoloSuPila ==
    ASSUME NEW h \in Hilos, NEW p, DePlanificador(h) \/ (DeProceso(h, p) /\ ~CrearTimer(h, p))
    PROVE  \E r : pila' = [pila EXCEPT ![h] = r]
<1>1. CASE DePlanificador(h)
  <2>1. \E u : Sigue(h, u)
    BY <1>1 DEF DePlanificador, TraerEntra, TraerRS, TraerVerNew, TraerNew, MandarEntra,
                MandarVer, MandarTomar
  <2> QED
    BY <2>1 DEF Sigue
<1>2. CASE \/ New(h, p) \/ NewTraer(h, p) \/ NewInit(h, p) \/ NewFin(h, p)
           \/ Ready(h, p) \/ ReadyCpu(h, p) \/ Execute(h, p) \/ Enviar(h, p)
           \/ Blocked(h, p) \/ Bloquear(h, p) \/ Join(h, p)
  <2>1. \E u : Sigue(h, u)
    BY <1>2 DEF New, NewTraer, NewInit, NewFin, Ready, ReadyCpu, Execute, Enviar, Blocked,
                Bloquear, Join, Solo
  <2> QED
    BY <2>1 DEF Sigue
<1>3. CASE \/ TimerArranca(h, p) \/ TimerCancelado(h, p) \/ TimerVence(h, p)
           \/ TimerRevisa(h, p) \/ Suspender(h, p) \/ SuspenderMem(h, p)
           \/ TimerCancela(h, p) \/ TimerTermina(h, p)
  <2>1. \E u : Sigue(h, u)
    BY <1>3 DEF TimerArranca, TimerCancelado, TimerVence, TimerRevisa, Suspender,
                SuspenderMem, TimerCancela, TimerTermina, Solo
  <2> QED
    BY <2>1 DEF Sigue
<1>4. CASE \/ ReadySuspended(h, p) \/ ReadySuspendedVer(h, p) \/ Exit(h, p)
           \/ ExitMem(h, p) \/ Desbloqueo(h, p) \/ EncolarIO(h, p)
           \/ Dump(h, p) \/ DumpOk(h, p) \/ DumpFin(h, p) \/ DumpError(h, p)
           \/ DumpExit(h, p)
  <2>1. \E u : Sigue(h, u)
    BY <1>4 DEF ReadySuspended, ReadySuspendedVer, Exit, ExitMem, Desbloqueo, EncolarIO,
                Dump, DumpOk, DumpFin, DumpError, DumpExit, Solo
  <2> QED
    BY <2>1 DEF Sigue
<1> QED
  BY <1>1, <1>2, <1>3, <1>4 DEF DeProceso

LEMMA SiguenDormidos ==
    ASSUME VenceTimer = FALSE, IInvUso, Dormilones, [Next]_vars
    PROVE  Dormilones'
<1>1. /\ pila \in [Hilos -> Seq(Tarea)] /\ hiloBlock \in [Procs -> 0..MaxTimers]
      /\ \A h \in Hilos : EnRegla(pila[h])
      /\ \A h \in Timers : h \in Hilos
  BY DEF IInvUso, IInvCpu, IInvTipos, TypeOK, PilasEnRegla, Hilos
<1>2. ASSUME NEW h \in Fijos, NEW r, pila' = [pila EXCEPT ![h] = r] PROVE Dormilones'
  BY <1>1, <1>2 DEF Dormilones, Fijos
<1>3. ASSUME NEW h \in Timers, NEW r, pila' = [pila EXCEPT ![h] = r],
             r # <<>> => Head(r).op \in Relojes
      PROVE  Dormilones'
  BY <1>1, <1>3 DEF Dormilones
<1>4. ASSUME NEW h \in Hilos, PasoHilo(h) PROVE Dormilones'
  <2>1. PICK s : s = pila[h] /\ s \in Seq(Tarea) /\ s # <<>>
    BY <1>1, <1>4 DEF PasoHilo
  <2>2. PICK p \in Procs \cup {Nadie} : DePlanificador(h) \/ (p \in Procs /\ DeProceso(h, p))
    BY <1>4 DEF PasoHilo
  <2>3. CASE h \in Timers
    <3>1. Head(s).op \in Relojes /\ Tail(s) = <<>>
      BY <1>1, <2>1, <2>3 DEF Dormilones, EnRegla
    <3>2. ~DePlanificador(h)
      BY <2>1, <3>1 DEF DePlanificador, TraerEntra, TraerRS, TraerVerNew, TraerNew, MandarEntra,
                        MandarVer, MandarTomar, Toca, Por, Relojes
    <3>3. TimerArranca(h, p) \/ TimerCancelado(h, p)
      <4>1. \A o \in Ops \ Relojes : ~Toca(h, o, p)
        BY <2>1, <3>1 DEF Toca, Por
      <4>2. ~TimerVence(h, p)
        BY DEF TimerVence
      <4>3. DeProceso(h, p)
        BY <2>2, <3>2
      <4>4. ~\/ New(h, p) \/ NewTraer(h, p) \/ NewInit(h, p) \/ NewFin(h, p)
             \/ Ready(h, p) \/ ReadyCpu(h, p) \/ Execute(h, p) \/ Enviar(h, p)
             \/ Blocked(h, p) \/ Bloquear(h, p) \/ Join(h, p) \/ CrearTimer(h, p)
        BY <4>1 DEF New, NewTraer, NewInit, NewFin, Ready, ReadyCpu, Execute, Enviar, Blocked,
                    Bloquear, Join, CrearTimer, Ops, Relojes
      <4>5. ~\/ TimerRevisa(h, p) \/ Suspender(h, p) \/ SuspenderMem(h, p)
             \/ TimerCancela(h, p) \/ TimerTermina(h, p)
             \/ ReadySuspended(h, p) \/ ReadySuspendedVer(h, p) \/ Exit(h, p) \/ ExitMem(h, p)
        BY <4>1 DEF TimerRevisa, Suspender, SuspenderMem, TimerCancela, TimerTermina,
                    ReadySuspended, ReadySuspendedVer, Exit, ExitMem, Ops, Relojes
      <4>6. ~\/ Desbloqueo(h, p) \/ EncolarIO(h, p) \/ Dump(h, p) \/ DumpOk(h, p)
             \/ DumpFin(h, p) \/ DumpError(h, p) \/ DumpExit(h, p)
        <5>1. {"DUMP", "DUMP_FALLA"} \subseteq Ops \ Relojes
          BY DEF Ops, Relojes
        <5>2. ~Dump(h, p)
          BY <4>1, <5>1 DEF Dump
        <5> QED
          BY <4>1, <5>2 DEF Desbloqueo, EncolarIO, DumpOk, DumpFin, DumpError, DumpExit, Ops,
                            Relojes
      <4> QED
        BY <4>2, <4>3, <4>4, <4>5, <4>6 DEF DeProceso
    <3>8. PICK t : t = Por("DORMIR", p) /\ t \in Tarea /\ t.op \in Relojes
      <4>1. Por("DORMIR", p) \in Tarea /\ Por("DORMIR", p).op \in Relojes
        BY DEF Por, Tarea, Ops, Relojes
      <4> QED
        BY <4>1
    <3>4. PICK u : Sigue(h, u) /\ (u = <<>> \/ u = <<t>>)
      BY <3>3, <3>8 DEF TimerArranca, TimerCancelado
    <3>5. u \o Tail(s) = u
      <4>1. <<t>> \in Seq(Tarea) /\ <<>> \in Seq(Tarea)
        BY <3>8
      <4>2. u \in Seq(Tarea)
        BY <3>4, <4>1
      <4> QED
        BY <3>1, <4>2, ConcatEmptySeq
    <3>6. pila' = [pila EXCEPT ![h] = u]
      BY <2>1, <3>4, <3>5 DEF Sigue
    <3>7. u # <<>> => Head(u).op \in Relojes
      BY <3>4, <3>8
    <3> QED
      BY <1>3, <2>3, <3>6, <3>7
  <2>4. CASE h \in Fijos /\ ~(p \in Procs /\ CrearTimer(h, p))
    <3>1. \E r : pila' = [pila EXCEPT ![h] = r]
      BY <2>2, <2>4, SoloSuPila
    <3> QED
      BY <1>2, <2>4, <3>1
  <2>5. CASE h \in Fijos /\ p \in Procs /\ CrearTimer(h, p)
    <3>1. PICK j, t, n : /\ n = hiloBlock[p] + 1 /\ j = Timer(p, n) /\ t = Por("TIMER", p)
                         /\ n <= MaxTimers
                         /\ pila' = [pila EXCEPT ![h] = Tail(@), ![j] = <<t>>]
      BY <2>5 DEF CrearTimer
    <3>2. t.op \in Relojes
      BY <3>1 DEF Por, Relojes
    <3>3. \A k \in Timers : pila'[k] = pila[k] \/ pila'[k] = <<t>>
      <4>1. \A k \in Timers : k # h
        BY <2>5 DEF Fijos
      <4> QED
        BY <1>1, <3>1, <4>1
    <3> QED
      BY <3>2, <3>3 DEF Dormilones
  <2> QED
    BY <2>3, <2>4, <2>5 DEF Fijos
<1>5. ASSUME NEW c \in Cpus, DeCpu(c) PROVE Dormilones'
  <2>1. Cpu(c) \in Hilos
    BY HilosPropios
  <2>2. Cpu(c) \in Fijos
    BY <2>1 DEF Fijos, Timers, Timer, Cpu
  <2>3. \E r : pila' = [pila EXCEPT ![Cpu(c)] = r]
    BY <1>5 DEF DeCpu, LiberarCpu, SyscallExit, SyscallBloqueante, SyscallInitProc, Sigue
  <2> QED
    BY <1>2, <2>2, <2>3
<1>6. ASSUME NEW x \in Conexiones, DesbloqueoIO(x) PROVE Dormilones'
  <2>1. Io(x) \in Hilos
    BY HilosPropios
  <2>2. Io(x) \in Fijos
    BY <2>1 DEF Fijos, Timers, Timer, Io
  <2>3. \E r : pila' = [pila EXCEPT ![Io(x)] = r]
    BY <1>6 DEF DesbloqueoIO
  <2> QED
    BY <1>2, <2>2, <2>3
<1>7. CASE PasoMuere
  <2>1. PICK p \in Procs, k \in 1..MaxTimers : pila' = [pila EXCEPT ![Timer(p, k)] = <<>>]
    BY <1>7 DEF PasoMuere, TimerMuere
  <2> QED
    BY <1>3, <2>1, HilosPropios
<1>8. CASE Reposo \/ UNCHANGED vars
  <2>1. pila' = pila
    BY <1>8 DEF Reposo, vars
  <2> QED
    BY <2>1 DEF Dormilones
<1> QED
  BY <1>4, <1>5, <1>6, <1>7, <1>8 DEF Next

LEMMA DormidosNoMueren == Dormilones => ~MuereConLaCpu
<1>1. ASSUME Dormilones, NEW p \in Procs, NEW k \in 1..MaxTimers, TimerMuere(p, k)
      PROVE  Head(pila[Timer(p, k)]).op \notin {"EXECUTE", "ENVIAR"}
  BY <1>1, HilosPropios DEF Dormilones, TimerMuere, Relojes
<1> QED
  BY <1>1 DEF MuereConLaCpu

(* With one CPU, if TIEMPO_SUSPENSION never elapses both hold with nothing  *)
(* said about the timers: whatever cancels them finds them asleep.          *)
THEOREM CpuAprovechadaSinSuspension ==
    ASSUME SolaCpu, VenceTimer = FALSE PROVE Spec => [](CpusAprovechadas /\ ExecuteEjecuta)
<1>1. Init => IInvUso /\ Dormilones
  <2>1. \A h \in Timers : h # Main /\ h \in Hilos
    BY DEF Hilos, Timers, Timer, Main
  <2>2. Init => Dormilones
    BY <2>1 DEF Init, Dormilones
  <2> QED
    BY <2>2, UsoAlEmpezar
<1>2. (IInvUso /\ Dormilones) /\ [Next]_vars => (IInvUso /\ Dormilones)'
  BY UsoPasoAPaso, DormidosNoMueren, SiguenDormidos
<1>3. IInvUso => CpusAprovechadas /\ ExecuteEjecuta
  BY UsoDice
<1> QED
  BY <1>1, <1>2, <1>3, PTL DEF Spec

=============================================================================
