-------------------------- MODULE KernelCicloProofs --------------------------
(***************************************************************************)
(* The kernel with one CPU, any number of processes, connections and timers *)
(* and both admissions: the seven-state diagram, and where a process is in  *)
(* Memoria.  The last sections drop the hypotheses on the run of both when  *)
(* nothing is ever suspended, and say that then nobody is left out of       *)
(* memory with room for it.                                                 *)
(***************************************************************************)
EXTENDS KernelPlannerProofs, FiniteSetTheorems

(* One task of T at most in a stack, none, and one at most in all of them.  *)
Unica(s, T) == \A i, j \in DOMAIN s : s[i] \in T /\ s[j] \in T => i = j
Ninguna(s, T) == \A t : Esta(t, s) => t \notin T
UnaSola(T) ==
    /\ \A k \in Hilos : Unica(pila[k], T)
    /\ \A k, l \in Hilos : ~Ninguna(pila[k], T) /\ ~Ninguna(pila[l], T) => k = l

LEMMA UnicaEnNinguna == ASSUME NEW T, NEW s, Ninguna(s, T) PROVE Unica(s, T)
BY DEF Unica, Ninguna, Esta

LEMMA UnicaEnDos ==
    ASSUME NEW T, NEW t, NEW v
    PROVE  /\ Unica(<<>>, T) /\ Ninguna(<<>>, T) /\ Unica(<<t>>, T)
           /\ t \notin T => Ninguna(<<t>>, T)
           /\ t \notin T \/ v \notin T => Unica(<<t, v>>, T)
           /\ t \notin T /\ v \notin T => Ninguna(<<t, v>>, T)
<1>1. Unica(<<>>, T) /\ Ninguna(<<>>, T) /\ Unica(<<t>>, T)
  BY EstaEnVacia DEF Unica, Ninguna
<1>2. t \notin T => Ninguna(<<t>>, T)
  BY EstaEnUna DEF Ninguna
<1>3. t \notin T /\ v \notin T => Ninguna(<<t, v>>, T)
  BY EstaEnDos DEF Ninguna
<1>4. ASSUME t \notin T \/ v \notin T PROVE Unica(<<t, v>>, T)
  <2>1. DOMAIN <<t, v>> = {1, 2} /\ <<t, v>>[1] = t /\ <<t, v>>[2] = v
    OBVIOUS
  <2>2. \A i, j \in {1, 2} : <<t, v>>[i] \in T /\ <<t, v>>[j] \in T => i = j
    BY <1>4, <2>1
  <2> QED
    BY <2>1, <2>2 DEF Unica
<1> QED
  BY <1>1, <1>2, <1>3, <1>4

(* A stack whose first task is replaced.                                    *)
LEMMA UnicaTras ==
    ASSUME NEW T, NEW s \in Seq(Tarea), s # <<>>, Unica(s, T), NEW u \in Seq(Tarea), Unica(u, T),
           Ninguna(u, T) \/ Ninguna(Tail(s), T)
    PROVE  Unica(u \o Tail(s), T)
<1>1. PICK r, w : r = Tail(s) /\ w = u \o r
  OBVIOUS
<1>2. r \in Seq(Tarea) /\ Len(s) \in Nat /\ DOMAIN s = 1..Len(s) /\ Len(r) = Len(s) - 1
      /\ DOMAIN r = 1..(Len(s) - 1)
  BY <1>1
<1>3. \A i \in DOMAIN r : r[i] = s[i + 1] /\ i + 1 \in DOMAIN s
  BY <1>1, <1>2
<1>4. /\ w \in Seq(Tarea) /\ DOMAIN w = 1..Len(u) + Len(r)
      /\ \A i \in 1..Len(u) + Len(r) : w[i] = IF i <= Len(u) THEN u[i] ELSE r[i - Len(u)]
  BY <1>1, <1>2, ConcatProperties
<1>5. Len(u) \in Nat /\ DOMAIN u = 1..Len(u) /\ Len(r) \in Nat
  BY <1>2
<1>6. Unica(r, T)
  <2> SUFFICES ASSUME NEW i \in DOMAIN r, NEW j \in DOMAIN r, r[i] \in T, r[j] \in T
               PROVE  i = j
    BY DEF Unica
  <2>1. i + 1 = j + 1
    BY <1>3 DEF Unica
  <2> QED
    BY <1>2, <2>1
<1>7. Ninguna(u, T) => \A i \in 1..Len(u) : u[i] \notin T
  BY <1>5 DEF Ninguna, Esta
<1>8. Ninguna(r, T) => \A i \in DOMAIN r : r[i] \notin T
  BY DEF Ninguna, Esta
<1>9. ASSUME Ninguna(u, T) PROVE Unica(w, T)
  <2> SUFFICES ASSUME NEW i \in DOMAIN w, NEW j \in DOMAIN w, w[i] \in T, w[j] \in T
               PROVE  i = j
    BY DEF Unica
  <2>1. ~(i <= Len(u)) /\ ~(j <= Len(u))
    BY <1>4, <1>5, <1>7, <1>9
  <2>2. i - Len(u) \in DOMAIN r /\ j - Len(u) \in DOMAIN r
    BY <1>2, <1>4, <1>5, <2>1
  <2>3. i - Len(u) = j - Len(u)
    BY <1>4, <1>6, <2>1, <2>2 DEF Unica
  <2> QED
    BY <1>4, <1>5, <2>3
<1>10. ASSUME Ninguna(r, T) PROVE Unica(w, T)
  <2> SUFFICES ASSUME NEW i \in DOMAIN w, NEW j \in DOMAIN w, w[i] \in T, w[j] \in T
               PROVE  i = j
    BY DEF Unica
  <2>1. ASSUME NEW n \in DOMAIN w, ~(n <= Len(u)) PROVE w[n] \notin T
    <3>1. n - Len(u) \in DOMAIN r
      BY <1>2, <1>4, <1>5, <2>1
    <3>2. w[n] = r[n - Len(u)]
      BY <1>4, <2>1
    <3> QED
      BY <1>8, <1>10, <3>1, <3>2
  <2>3. i <= Len(u) /\ j <= Len(u)
    BY <2>1
  <2>4. i \in DOMAIN u /\ j \in DOMAIN u /\ w[i] = u[i] /\ w[j] = u[j]
    BY <1>4, <1>5, <2>3
  <2> QED
    BY <2>4 DEF Unica
<1> QED
  BY <1>1, <1>9, <1>10

LEMMA TrasUnica ==
    ASSUME NEW T, NEW s \in Seq(Tarea), s # <<>>, Unica(s, T), Head(s) \in T
    PROVE  Ninguna(Tail(s), T)
<1>1. PICK r : r = Tail(s)
  OBVIOUS
<1>2. Len(s) \in Nat /\ DOMAIN s = 1..Len(s) /\ DOMAIN r = 1..(Len(s) - 1) /\ 1 \in DOMAIN s /\ s[1] \in T
      /\ \A i \in DOMAIN r : r[i] = s[i + 1] /\ i + 1 \in DOMAIN s
  BY <1>1
<1>3. \A i \in DOMAIN r : i + 1 # 1
  BY <1>2
<1>4. \A i \in DOMAIN r : r[i] \notin T
  BY <1>2, <1>3 DEF Unica
<1> QED
  BY <1>1, <1>4 DEF Ninguna, Esta

LEMMA UnaTras ==
    ASSUME pila \in [Hilos -> Seq(Tarea)], NEW h \in Hilos, pila[h] # <<>>,
           NEW u \in Seq(Tarea), Sigue(h, u),
           NEW T, UnaSola(T), Unica(u, T),
           Ninguna(u, T) \/ Head(pila[h]) \in T \/ \A k \in Hilos : Ninguna(pila[k], T)
    PROVE  /\ UnaSola(T)'
           /\ Head(pila[h]) \in T => \A t \in T : /\ Hay(t) => t = Head(pila[h])
                                                  /\ Hay(t)' => Esta(t, u)
<1>1. PICK s, r : s = pila[h] /\ r = u \o Tail(s)
  OBVIOUS
<1>2. s \in Seq(Tarea) /\ s # <<>> /\ Unica(s, T)
  BY <1>1 DEF UnaSola
<1>3. /\ r \in Seq(Tarea) /\ \A t : Esta(t, r) <=> Esta(t, u) \/ Esta(t, Tail(s))
      /\ \A t : Esta(t, s) <=> t = Head(s) \/ Esta(t, Tail(s))
  BY <1>1, <1>2, TrasLaPrimera, CabezaOResto
<1>4. pila'[h] = r /\ \A k \in Hilos \ {h} : pila'[k] = pila[k]
  BY <1>1, <1>3 DEF Sigue
<1>5. CASE Head(s) \in T
  <2>1. Ninguna(Tail(s), T)
    BY <1>2, <1>5, TrasUnica
  <2>2. Unica(r, T)
    BY <1>1, <1>2, <2>1, UnicaTras
  <2>3. \A k \in Hilos \ {h} : Ninguna(pila[k], T)
    BY <1>1, <1>3, <1>5 DEF UnaSola, Ninguna
  <2>4. UnaSola(T)'
    BY <1>4, <2>2, <2>3 DEF UnaSola
  <2> QED
    BY <1>1, <1>3, <1>4, <2>1, <2>3, <2>4 DEF Hay, Ninguna
<1>6. CASE Head(s) \notin T /\ Ninguna(u, T)
  <2>1. Unica(r, T)
    BY <1>1, <1>2, <1>6, UnicaTras
  <2>2. Ninguna(s, T) => Ninguna(r, T)
    BY <1>3, <1>6 DEF Ninguna
  <2> QED
    BY <1>1, <1>4, <1>6, <2>1, <2>2 DEF UnaSola
<1>7. CASE Head(s) \notin T /\ \A k \in Hilos : Ninguna(pila[k], T)
  <2>1. Ninguna(Tail(s), T)
    BY <1>1, <1>3, <1>7 DEF Ninguna
  <2>2. Unica(r, T)
    BY <1>1, <1>2, <2>1, UnicaTras
  <2> QED
    BY <1>1, <1>4, <1>7, <2>2 DEF UnaSola
<1> QED
  BY <1>1, <1>5, <1>6, <1>7

LEMMA UnaNace ==
    ASSUME NEW h \in Hilos, pila \in [Hilos -> Seq(Tarea)], pila[h] = <<>>, NEW u,
           pila' = [pila EXCEPT ![h] = u], NEW T, UnaSola(T), Unica(u, T),
           Ninguna(u, T) \/ \A k \in Hilos : Ninguna(pila[k], T)
    PROVE  UnaSola(T)'
<1>1. pila'[h] = u /\ \A k \in Hilos \ {h} : pila'[k] = pila[k]
  OBVIOUS
<1> QED
  BY <1>1 DEF UnaSola

LEMMA UnaMenos ==
    ASSUME NEW T, UnaSola(T),
           \A k \in Hilos : Unica(pila'[k], T) /\ (Ninguna(pila[k], T) => Ninguna(pila'[k], T))
    PROVE  UnaSola(T)'
BY DEF UnaSola

(* Some thread, or a list, has the task for the process.                    *)
Con(o, q) == \E t : Hay(t) /\ t.op = o /\ t.pid = q
En(u, o, q) == \E t : Esta(t, u) /\ t.op = o /\ t.pid = q

LEMMA ConTras ==
    ASSUME pila \in [Hilos -> Seq(Tarea)], NEW h \in Hilos, pila[h] # <<>>,
           NEW u \in Seq(Tarea), Sigue(h, u)
    PROVE  /\ \A o, q : Con(o, q)' => Con(o, q) \/ En(u, o, q)
           /\ \A o, q : En(u, o, q) => Con(o, q)'
           /\ \A o, q : Con(o, q) => Con(o, q)' \/ (Head(pila[h]).op = o /\ Head(pila[h]).pid = q)
           /\ Con(Head(pila[h]).op, Head(pila[h]).pid)
<1>1. PICK s, r : s = pila[h] /\ r = u \o Tail(s)
  OBVIOUS
<1>2. s \in Seq(Tarea) /\ s # <<>>
  BY <1>1
<1>3. /\ r \in Seq(Tarea) /\ \A t : Esta(t, r) <=> Esta(t, u) \/ Esta(t, Tail(s))
      /\ \A t : Esta(t, s) <=> t = Head(s) \/ Esta(t, Tail(s))
  BY <1>1, <1>2, TrasLaPrimera, CabezaOResto
<1>4. pila'[h] = r /\ \A k \in Hilos \ {h} : pila'[k] = pila[k]
  BY <1>1, <1>3 DEF Sigue
<1>5. /\ \A t : Hay(t)' => Hay(t) \/ Esta(t, u)
      /\ \A t : Esta(t, u) => Hay(t)'
      /\ \A t : Hay(t) => Hay(t)' \/ t = Head(s)
      /\ Hay(Head(s))
  BY <1>1, <1>3, <1>4 DEF Hay
<1> QED
  BY <1>1, <1>5 DEF Con, En

LEMMA ConNace ==
    ASSUME pila \in [Hilos -> Seq(Tarea)], NEW h \in Hilos, pila[h] = <<>>,
           NEW u, pila' = [pila EXCEPT ![h] = u]
    PROVE  /\ \A o, q : Con(o, q)' <=> Con(o, q) \/ En(u, o, q)
<1>1. pila'[h] = u /\ \A k \in Hilos \ {h} : pila'[k] = pila[k]
  OBVIOUS
<1>2. \A t : ~Esta(t, pila[h])
  BY EstaEnVacia
<1>3. \A t : Hay(t)' <=> Hay(t) \/ Esta(t, u)
  BY <1>1, <1>2 DEF Hay
<1> QED
  BY <1>3 DEF Con, En
-----------------------------------------------------------------------------
(* Queues in which nobody is twice.                                         *)
SinRepetir(s) == \A i, j \in DOMAIN s : s[i] = s[j] => i = j

LEMMA QuitarUnico ==
    ASSUME NEW lista \in Seq(Procs), NEW p, SinRepetir(lista)
    PROVE  SinRepetir(Quitar(p, lista)) /\ ~Esta(p, Quitar(p, lista))
<1> DEFINE lugares == { i \in DOMAIN lista : lista[i] = p }
<1>1. CASE lugares = {}
  <2>1. Quitar(p, lista) = lista
    BY <1>1 DEF Quitar
  <2> QED
    BY <1>1, <2>1 DEF Esta
<1>2. CASE lugares # {}
  <2>1. PICK i : i = CHOOSE k \in lugares : \A j \in lugares : k <= j
    OBVIOUS
  <2>2. Quitar(p, lista) = SubSeq(lista, 1, i - 1) \o SubSeq(lista, i + 1, Len(lista))
    BY <1>2, <2>1 DEF Quitar
  <2>3. i \in lugares
    <3>1. lugares \in SUBSET Nat
      OBVIOUS
    <3>2. \E x \in lugares : \A y \in lugares : x <= y
      BY <1>2, <3>1, MinimoNat
    <3> QED
      BY <2>1, <3>2
  <2>4. PICK n, a, b, w : /\ n = Len(lista)
                          /\ a = SubSeq(lista, 1, i - 1)
                          /\ b = SubSeq(lista, i + 1, Len(lista))
                          /\ w = a \o b
    OBVIOUS
  <2>5. n \in Nat /\ i \in 1..n /\ lista[i] = p /\ DOMAIN lista = 1..n
    BY <2>3, <2>4
  <2>6. /\ a \in Seq(Procs) /\ Len(a) = i - 1 /\ \A j \in 1..(i - 1) : a[j] = lista[j]
    <3>1. /\ SubSeq(lista, 1, i - 1) \in Seq(Procs)
          /\ Len(SubSeq(lista, 1, i - 1)) = (i - 1) + 1 - 1
          /\ \A j \in 1..((i - 1) + 1 - 1) : SubSeq(lista, 1, i - 1)[j] = lista[1 + j - 1]
      BY <2>4, <2>5, Rebanada
    <3> QED
      BY <2>4, <2>5, <3>1
  <2>7. /\ b \in Seq(Procs) /\ Len(b) = n - i
        /\ \A j \in 1..(n - i) : b[j] = lista[i + j]
    <3>1. /\ SubSeq(lista, i + 1, Len(lista)) \in Seq(Procs)
          /\ Len(SubSeq(lista, i + 1, Len(lista))) = Len(lista) + 1 - (i + 1)
          /\ \A j \in 1..(Len(lista) + 1 - (i + 1)) :
                SubSeq(lista, i + 1, Len(lista))[j] = lista[(i + 1) + j - 1]
      BY <2>4, <2>5, Rebanada
    <3>2. Len(lista) + 1 - (i + 1) = n - i /\ \A j \in 1..(n - i) : (i + 1) + j - 1 = i + j
      BY <2>4, <2>5
    <3> QED
      BY <2>4, <3>1, <3>2
  <2>8. /\ DOMAIN w = 1..(n - 1)
        /\ \A j \in 1..(n - 1) : w[j] = IF j <= i - 1 THEN a[j] ELSE b[j - (i - 1)]
    <3>1. /\ w \in Seq(Procs) /\ Len(w) = Len(a) + Len(b)
          /\ \A j \in 1..Len(a) + Len(b) : w[j] = IF j <= Len(a) THEN a[j] ELSE b[j - Len(a)]
      BY <2>4, <2>6, <2>7, ConcatProperties
    <3>2. Len(a) + Len(b) = n - 1
      BY <2>5, <2>6, <2>7
    <3> QED
      BY <2>6, <3>1, <3>2
  <2>9. \A j \in 1..(n - 1) : w[j] = lista[IF j <= i - 1 THEN j ELSE j + 1]
    <3>1. ASSUME NEW j \in 1..(n - 1), j <= i - 1 PROVE w[j] = lista[j]
      BY <2>5, <2>6, <2>8, <3>1
    <3>2. ASSUME NEW j \in 1..(n - 1), ~(j <= i - 1) PROVE w[j] = lista[j + 1]
      <4>1. j - (i - 1) \in 1..(n - i) /\ i + (j - (i - 1)) = j + 1
        BY <2>5, <3>2
      <4> QED
        BY <2>7, <2>8, <3>2, <4>1
    <3> QED
      BY <3>1, <3>2
  <2>10. SinRepetir(w)
    <3>1. ASSUME NEW j \in 1..(n - 1), NEW k \in 1..(n - 1), w[j] = w[k] PROVE j = k
      <4>1. PICK x, y : /\ x = IF j <= i - 1 THEN j ELSE j + 1
                        /\ y = IF k <= i - 1 THEN k ELSE k + 1
        OBVIOUS
      <4>2. x \in 1..n /\ y \in 1..n /\ lista[x] = lista[y]
        BY <2>5, <2>9, <3>1, <4>1
      <4>3. x = y
        BY <2>5, <4>2 DEF SinRepetir
      <4> QED
        BY <2>5, <4>1, <4>3
    <3> QED
      BY <2>8, <3>1 DEF SinRepetir
  <2>11. ~Esta(p, w)
    <3>1. ASSUME NEW j \in 1..(n - 1), w[j] = p PROVE FALSE
      <4>1. PICK x : x = IF j <= i - 1 THEN j ELSE j + 1
        OBVIOUS
      <4>2. x \in 1..n /\ lista[x] = lista[i] /\ x # i
        BY <2>5, <2>9, <3>1, <4>1
      <4> QED
        BY <2>5, <4>2 DEF SinRepetir
    <3> QED
      BY <2>8, <3>1 DEF Esta
  <2> QED
    BY <2>2, <2>4, <2>10, <2>11
<1> QED
  BY <1>1, <1>2

LEMMA InsertarUnico ==
    ASSUME NEW lista \in Seq(Procs), NEW p \in Procs, NEW c, SinRepetir(lista), ~Esta(p, lista)
    PROVE  SinRepetir(Insertar(c, p, lista))
<1>1. PICK n : n = Len(lista) /\ n \in Nat /\ DOMAIN lista = 1..n
  OBVIOUS
<1>2. \A j \in 1..n : lista[j] # p
  BY <1>1 DEF Esta
<1>3. CASE Insertar(c, p, lista) = Append(lista, p)
  <2>1. PICK w : w = Append(lista, p)
    OBVIOUS
  <2>2. DOMAIN w = 1..(n + 1) /\ w[n + 1] = p /\ \A j \in 1..n : w[j] = lista[j]
    BY <1>1, <2>1
  <2>3. \A j \in 1..(n + 1) : j = n + 1 \/ j \in 1..n
    BY <1>1
  <2>4. SinRepetir(w)
    BY <1>1, <1>2, <2>2, <2>3 DEF SinRepetir
  <2> QED
    BY <1>3, <2>1, <2>4
<1>4. CASE Insertar(c, p, lista) # Append(lista, p)
  <2> DEFINE mayores == { i \in DOMAIN lista : Tamanio[p] < Tamanio[lista[i]] }
  <2>1. PICK i : i = CHOOSE k \in mayores : \A j \in mayores : k <= j
    OBVIOUS
  <2>2. /\ mayores # {}
        /\ Insertar(c, p, lista)
             = SubSeq(lista, 1, i - 1) \o <<p>> \o SubSeq(lista, i, Len(lista))
    BY <1>4, <2>1 DEF Insertar, InsertarPMCP, InsertarFIFO
  <2>3. i \in mayores
    <3>1. mayores \in SUBSET Nat
      OBVIOUS
    <3>2. \E x \in mayores : \A y \in mayores : x <= y
      BY <2>2, <3>1, MinimoNat
    <3> QED
      BY <2>1, <3>2
  <2>4. i \in 1..n
    BY <1>1, <2>3
  <2>5. PICK a, b, u, w : /\ a = SubSeq(lista, 1, i - 1) /\ b = SubSeq(lista, i, Len(lista))
                          /\ u = a \o <<p>> /\ w = u \o b
    OBVIOUS
  <2>6. /\ a \in Seq(Procs) /\ Len(a) = i - 1 /\ \A j \in 1..(i - 1) : a[j] = lista[j]
    <3>1. /\ SubSeq(lista, 1, i - 1) \in Seq(Procs)
          /\ Len(SubSeq(lista, 1, i - 1)) = (i - 1) + 1 - 1
          /\ \A j \in 1..((i - 1) + 1 - 1) : SubSeq(lista, 1, i - 1)[j] = lista[1 + j - 1]
      <4>1. i - 1 \in Nat /\ i - 1 <= Len(lista) /\ 1 \in Nat \ {0} /\ 1 <= (i - 1) + 1
        BY <1>1, <2>4
      <4> QED
        BY <4>1, Rebanada
    <3> QED
      BY <1>1, <2>4, <2>5, <3>1
  <2>7. b \in Seq(Procs) /\ Len(b) = n + 1 - i /\ \A j \in 1..(n + 1 - i) : b[j] = lista[i + j - 1]
    BY <1>1, <2>4, <2>5, Rebanada
  <2>8. u \in Seq(Procs) /\ Len(u) = i /\ u[i] = p /\ \A j \in 1..(i - 1) : u[j] = lista[j]
    <3>1. u = Append(a, p)
      <4>1. Append(a, p) = a \o <<p>>
        BY <2>6, AppendIsConcat
      <4> QED
        BY <2>5, <4>1
    <3> QED
      BY <1>1, <2>4, <2>6, <3>1
  <2>9. /\ DOMAIN w = 1..(n + 1)
        /\ \A j \in 1..(n + 1) : w[j] = IF j <= i THEN u[j] ELSE b[j - i]
    <3>1. /\ w \in Seq(Procs) /\ Len(w) = Len(u) + Len(b)
          /\ \A j \in 1..Len(u) + Len(b) : w[j] = IF j <= Len(u) THEN u[j] ELSE b[j - Len(u)]
      <4>1. w = u \o b
        BY <2>5
      <4> QED
        BY <2>7, <2>8, <4>1, ConcatProperties
    <3>2. Len(u) + Len(b) = n + 1
      BY <1>1, <2>4, <2>7, <2>8
    <3> QED
      BY <2>8, <3>1, <3>2
  <2>10. w[i] = p /\ \A j \in 1..(n + 1) : j # i =>
             /\ w[j] = lista[IF j <= i - 1 THEN j ELSE j - 1]
             /\ (IF j <= i - 1 THEN j ELSE j - 1) \in 1..n
    <3>1. ASSUME NEW j \in 1..(n + 1), j <= i - 1 PROVE w[j] = lista[j] /\ j \in 1..n
      BY <1>1, <2>4, <2>8, <2>9, <3>1
    <3>2. ASSUME NEW j \in 1..(n + 1), ~(j <= i - 1), j # i PROVE w[j] = lista[j - 1] /\ j - 1 \in 1..n
      <4>1. j - i \in 1..(n + 1 - i) /\ i + (j - i) - 1 = j - 1 /\ j - 1 \in 1..n /\ ~(j <= i)
        BY <1>1, <2>4, <3>2
      <4> QED
        BY <2>7, <2>9, <3>2, <4>1
    <3>3. w[i] = p
      BY <1>1, <2>4, <2>8, <2>9
    <3> QED
      BY <3>1, <3>2, <3>3
  <2>11. SinRepetir(w)
    <3>1. ASSUME NEW j \in 1..(n + 1), NEW k \in 1..(n + 1), w[j] = w[k] PROVE j = k
      <4>1. CASE j = i \/ k = i
        BY <1>2, <2>10, <3>1, <4>1
      <4>2. CASE j # i /\ k # i
        <5>1. PICK x, y : /\ x = IF j <= i - 1 THEN j ELSE j - 1
                          /\ y = IF k <= i - 1 THEN k ELSE k - 1
          OBVIOUS
        <5>2. x \in 1..n /\ y \in 1..n /\ lista[x] = lista[y]
          BY <2>10, <3>1, <4>2, <5>1
        <5>3. x = y
          BY <1>1, <5>2 DEF SinRepetir
        <5> QED
          BY <1>1, <2>4, <4>2, <5>1, <5>3
      <4> QED
        BY <4>1, <4>2
    <3> QED
      BY <2>9, <3>1 DEF SinRepetir
  <2>12. Insertar(c, p, lista) = w
    BY <2>2, <2>5
  <2> QED
    BY <2>11, <2>12
<1> QED
  BY <1>3, <1>4

(* The process is in the queue of its state or in none, and once.           *)
EnSuCola(q) == \A c \in Colas : Esta(q, cola[c]) => estado[q] = c
NadieDosVeces == \A c \in Colas : SinRepetir(cola[c])

LEMMA CambiarSinRepetir ==
    ASSUME estado \in [Procs -> Estados], cola \in [Colas -> Seq(Procs)],
           NEW p \in Procs, NEW e \in Estados, estado[p] # e, CambiarEstado(p, e),
           NadieDosVeces, EnSuCola(p)
    PROVE  NadieDosVeces' /\ EnSuCola(p)'
<1>1. /\ estado'[p] = e
      /\ \A c \in Colas : cola'[c] = ColaTras(p, e, c)
  BY DEF CambiarEstado
<1>2. ASSUME NEW c \in Colas
      PROVE  SinRepetir(cola'[c]) /\ (Esta(p, cola'[c]) => c = e)
  <2>1. PICK s, r : /\ s = cola[c]
                    /\ r = IF estado[p] = c THEN Quitar(p, cola[c]) ELSE cola[c]
    OBVIOUS
  <2>2. s \in Seq(Procs) /\ SinRepetir(s)
    BY <2>1 DEF NadieDosVeces
  <2>3. r \in Seq(Procs) /\ SinRepetir(r) /\ ~Esta(p, r)
    <3>1. CASE estado[p] = c
      BY <2>1, <2>2, <3>1, QuitarSaca, QuitarUnico
    <3>2. CASE estado[p] # c
      BY <2>1, <2>2, <3>2 DEF EnSuCola
    <3> QED
      BY <3>1, <3>2
  <2>4. cola'[c] = IF c = e THEN Insertar(c, p, r) ELSE r
    BY <1>1, <2>1 DEF ColaTras
  <2>5. SinRepetir(Insertar(c, p, r))
    BY <2>3, InsertarUnico
  <2> QED
    BY <2>3, <2>4, <2>5
<1> QED
  BY <1>1, <1>2 DEF NadieDosVeces, EnSuCola
-----------------------------------------------------------------------------
(* The tasks that carry a process from a state to another, or on the way    *)
(* there, those that say something of one, and the one that swaps it out.   *)
Esperan == {"ENCOLAR_IO", "DUMP", "DUMP_FALLA"}
Levantan == {"DESBLOQUEO", "DUMP_OK", "DUMP_ERROR", "DUMP_EXIT", "DUMP_FIN"}
Mueven == {"READY", "EXECUTE", "ENVIAR", "READY_SUSPENDED", "EXIT", "EXIT_MEM"} \cup Esperan \cup Levantan
Especiales == Mueven \cup {"BLOCKED", "READY_CPU", "SUSPENDER_MEM"}
Mano(q) == { t \in Tarea : t.pid = q /\ t.op \in Mueven }
AMem(q) == { t \in Tarea : t.pid = q /\ t.op = "SUSPENDER_MEM" }
Suelto(q) == \A o \in Mueven : ~Con(o, q)
Libera == \E t : Hay(t) /\ t.op = "LIBERAR_CPU"

(* What the state of a process is when some thread has the task.            *)
Motivo(o, q) ==
    /\ o = "READY" => \/ estado[q] \in {"NEW", "READY_SUSPENDED"}
                      \/ estado[q] = "BLOCKED" /\ ~posible[q]
    /\ o = "EXECUTE" => estado[q] = "READY" /\ cpuPid[LaCpu] = q
    /\ o = "ENVIAR" => estado[q] = "EXECUTE" /\ cpuPid[LaCpu] = q
    /\ o = "READY_SUSPENDED" => estado[q] = "BLOCKED_SUSPENDED"
    /\ o = "EXIT" => estado[q] \in Dormidos \cup {"EXECUTE"}
    /\ o = "EXIT_MEM" => estado[q] = "EXIT"
    /\ o \in Esperan => estado[q] \in Dormidos \/ (estado[q] = "EXECUTE" /\ Con("BLOCKED", q))
    /\ o \in Levantan => estado[q] \in Dormidos
    /\ o = "DUMP_FIN" => ~posible[q]

(* A process that READY has just put in its queue may already be on its way *)
(* to the CPU, but not out of it.                                           *)
Recibido(q) ==
    Con("READY_CPU", q) =>
        \/ estado[q] = "READY"
        \/ /\ estado[q] = "EXECUTE" /\ cpuPid[LaCpu] = q
           /\ ~Libera /\ ~Con("BLOCKED", q) /\ ~Con("EXIT", q)
EnLaCpu(q) ==
    contexto[LaCpu] # <<>> /\ PidDe(LaCpu) = q =>
        cpuPid[LaCpu] = q /\ estado[q] = "EXECUTE" /\ Suelto(q)
EnDispositivo(q) == q \in enIO => estado[q] \in Dormidos /\ Suelto(q)

(* A process that Memoria has in swap, or is about to, is suspended or has  *)
(* ended, and nobody takes it to READY before it is back.                   *)
Fuera(q) == q \in suspendidos \/ Con("SUSPENDER_MEM", q)
Apartado(q) ==
    /\ Fuera(q) => estado[q] \in {"BLOCKED_SUSPENDED", "READY_SUSPENDED", "EXIT", "ELIMINADO"}
    /\ Fuera(q) /\ estado[q] = "READY_SUSPENDED" => ~Con("READY", q)
    /\ ~(q \in suspendidos /\ Con("SUSPENDER_MEM", q))

EnRumbo(q) ==
    /\ UnaSola(Mano(q)) /\ UnaSola(AMem(q))
    /\ EnSuCola(q)
    /\ \A o \in Mueven : Con(o, q) => Motivo(o, q)
    /\ Con("BLOCKED", q) => estado[q] = "EXECUTE"
    /\ Recibido(q) /\ EnLaCpu(q) /\ EnDispositivo(q) /\ Apartado(q)

IInvCiclo ==
    /\ IInvCpu /\ IInvOrden /\ IInvDespierta
    /\ NadieDosVeces
    /\ \A q \in Procs : EnRumbo(q)

(* A step that does nothing to the process, and nothing to the CPU that     *)
(* matters to it.                                                           *)
Aparte(q) ==
    /\ estado'[q] = estado[q]
    /\ posible'[q] => posible[q]
    /\ \A c \in Colas : Esta(q, cola'[c]) => Esta(q, cola[c])
    /\ q \in enIO' => q \in enIO
    /\ q \in suspendidos' => q \in suspendidos
CpuIgual(q) ==
    /\ cpuPid[LaCpu] = q /\ (\/ Con("EXECUTE", q) \/ Con("ENVIAR", q)
                             \/ Con("READY_CPU", q) /\ estado[q] = "EXECUTE" /\ ~Libera) =>
           cpuPid'[LaCpu] = q
    /\ cpuPid[LaCpu] = q /\ Libera' => Libera
    /\ contexto'[LaCpu] # <<>> /\ PidDe(LaCpu)' = q =>
           contexto[LaCpu] # <<>> /\ PidDe(LaCpu) = q /\ cpuPid'[LaCpu] = cpuPid[LaCpu]

LEMMA RumboCasi ==
    ASSUME NEW q, EnRumbo(q), UnaSola(Mano(q))', UnaSola(AMem(q))', CpuIgual(q),
           estado'[q] = estado[q], posible'[q] => posible[q],
           \A c \in Colas : Esta(q, cola'[c]) => Esta(q, cola[c]), q \in enIO' => q \in enIO,
           \A o \in Especiales : Con(o, q)' => Con(o, q),
           Con("BLOCKED", q) => Con("BLOCKED", q)',
           Apartado(q)'
    PROVE  EnRumbo(q)'
<1>1. EnSuCola(q)'
  BY DEF EnRumbo, EnSuCola
<1>2. ASSUME NEW o \in Mueven, Con(o, q)' PROVE Motivo(o, q)'
  <2>1. Con(o, q) /\ Motivo(o, q)
    BY <1>2 DEF EnRumbo, Especiales
  <2>2. o \in {"EXECUTE", "ENVIAR"} => cpuPid'[LaCpu] = q
    BY <2>1 DEF Motivo, CpuIgual
  <2> QED
    BY <2>1, <2>2 DEF Motivo
<1>3. Con("BLOCKED", q)' => estado'[q] = "EXECUTE"
  BY DEF EnRumbo, Especiales
<1>4. Recibido(q)'
  BY DEF EnRumbo, Especiales, Recibido, CpuIgual, Mueven
<1>5. Suelto(q) => Suelto(q)'
  BY DEF Suelto, Especiales
<1>6. EnLaCpu(q)' /\ EnDispositivo(q)'
  BY <1>5 DEF EnRumbo, CpuIgual, EnLaCpu, EnDispositivo
<1> QED
  BY <1>1, <1>2, <1>3, <1>4, <1>6 DEF EnRumbo

LEMMA RumboIgual ==
    ASSUME NEW q, EnRumbo(q), UnaSola(Mano(q))', UnaSola(AMem(q))', Aparte(q), CpuIgual(q),
           \A o \in Especiales : Con(o, q)' => Con(o, q),
           Con("BLOCKED", q) => Con("BLOCKED", q)'
    PROVE  EnRumbo(q)'
<1>1. Apartado(q)'
  BY DEF EnRumbo, Aparte, Apartado, Fuera, Especiales, Mueven
<1> QED
  BY <1>1, RumboCasi DEF Aparte

LEMMA CpuIgualSigue ==
    ASSUME UNCHANGED <<cpuPid, contexto>>, NEW q, Libera' => Libera
    PROVE  CpuIgual(q)
<1>1. PidDe(LaCpu)' = PidDe(LaCpu)
  BY DEF PidDe, Corre
<1> QED
  BY <1>1 DEF CpuIgual

LEMMA SinLiberar ==
    ASSUME pila \in [Hilos -> Seq(Tarea)], NEW h \in Hilos, pila[h] # <<>>,
           NEW u \in Seq(Tarea), Sigue(h, u), \A t : Esta(t, u) => t.op # "LIBERAR_CPU"
    PROVE  Libera' => Libera
<1>1. ASSUME Libera' PROVE Libera
  <2>1. PICK t : Hay(t)' /\ t.op = "LIBERAR_CPU"
    BY <1>1 DEF Libera
  <2>2. PICK q : q = t.pid
    OBVIOUS
  <2>3. Con("LIBERAR_CPU", q)'
    BY <2>1, <2>2 DEF Con
  <2>4. ~En(u, "LIBERAR_CPU", q)
    BY DEF En
  <2>5. Con("LIBERAR_CPU", q)
    BY <2>3, <2>4, ConTras
  <2> QED
    BY <2>5 DEF Con, Libera
<1> QED
  BY <1>1

(* A thread goes on: what is left of the process it was not about, or that  *)
(* it did nothing to.                                                       *)
LEMMA PilasDelCiclo ==
    IInvCiclo => /\ pila \in [Hilos -> Seq(Tarea)] /\ estado \in [Procs -> Estados]
                 /\ cola \in [Colas -> Seq(Procs)] /\ IInvTipos
                 /\ cpuPid \in [Cpus -> Procs \cup {Nadie}]
                 /\ contexto \in [Cpus -> Seq([pid : Procs, pc : Nat])]
BY DEF IInvCiclo, IInvCpu, IInvTipos, TypeOK

LEMMA SigueIgual ==
    ASSUME IInvCiclo, NEW h \in Hilos, pila[h] # <<>>, NEW u \in Seq(Tarea), Sigue(h, u),
           NEW q \in Procs, \A t : Esta(t, u) => t.pid # q \/ t.op \notin Especiales,
           Head(pila[h]).pid # q \/ Head(pila[h]).op # "BLOCKED",
           Aparte(q), CpuIgual(q)
    PROVE  EnRumbo(q)'
<1>1. pila \in [Hilos -> Seq(Tarea)] /\ EnRumbo(q)
  BY PilasDelCiclo DEF IInvCiclo
<1>2. Ninguna(u, Mano(q)) /\ Ninguna(u, AMem(q)) /\ \A o \in Especiales : ~En(u, o, q)
  BY DEF Ninguna, Mano, AMem, En, Especiales
<1>3. Unica(u, Mano(q)) /\ Unica(u, AMem(q))
  BY <1>2, UnicaEnNinguna
<1>4. UnaSola(Mano(q))' /\ UnaSola(AMem(q))'
  BY <1>1, <1>2, <1>3, UnaTras DEF EnRumbo
<1>5. \A o \in Especiales : Con(o, q)' => Con(o, q)
  BY <1>1, <1>2, ConTras
<1>6. Con("BLOCKED", q) => Con("BLOCKED", q)'
  BY <1>1, ConTras
<1> QED
  BY <1>1, <1>4, <1>5, <1>6, RumboIgual

(* Who blocks a process has its way out below, and no other thread has it.  *)
LEMMA BloqueadoEn ==
    ASSUME IInvCiclo, NEW q \in Procs, NEW h \in Hilos, NEW t, Esta(t, pila[h]), t.op = "BLOCKED", t.pid = q
    PROVE  /\ h \in Fijos /\ pila[h] # <<>> /\ Head(pila[h]).op = "BLOCKED" /\ Head(pila[h]).pid = q
           /\ \E v \in Mano(q) : v.op \in Salidas /\ Esta(v, Tail(pila[h])) /\ Esta(v, pila[h])
<1>1. PICK s : s = pila[h] /\ s \in Seq(Tarea) /\ s # <<>>
  BY PilasDelCiclo, EstaEnVacia
<1>2. \A x : Esta(x, s) <=> x = Head(s) \/ Esta(x, Tail(s))
  BY <1>1, CabezaOResto
<1>3. t = Head(s)
  BY <1>1, <1>2 DEF IInvCiclo, IInvDespierta, Bloqueantes
<1>4. PICK v : h \in Fijos /\ Esta(v, Tail(s)) /\ v.op \in Salidas /\ v.pid = q
  BY <1>1, <1>3 DEF IInvCiclo, IInvDespierta, Bloqueantes
<1>5. Esta(v, s) /\ v \in Tarea
  BY <1>1, <1>2, <1>4, ElementoDe
<1>6. v \in Mano(q)
  BY <1>4, <1>5 DEF Mano, Salidas, Despiertan, Mueven, Esperan, Levantan
<1> QED
  BY <1>1, <1>3, <1>4, <1>5, <1>6

LEMMA BloqueadoTiene ==
    ASSUME IInvCiclo, NEW q \in Procs, Con("BLOCKED", q)
    PROVE  \E h \in Fijos : /\ pila[h] # <<>> /\ Head(pila[h]).op = "BLOCKED" /\ Head(pila[h]).pid = q
                            /\ ~Ninguna(pila[h], Mano(q))
<1>1. PICK t, h : h \in Hilos /\ Esta(t, pila[h]) /\ t.op = "BLOCKED" /\ t.pid = q
  BY DEF Con, Hay
<1> QED
  BY <1>1, BloqueadoEn DEF Ninguna

LEMMA MismaMano ==
    ASSUME NEW T, UnaSola(T), NEW k \in Hilos, NEW l \in Hilos, NEW t \in T, NEW v \in T,
           Esta(t, pila[k]), Esta(v, pila[l])
    PROVE  k = l /\ t = v
<1>1. k = l /\ Unica(pila[k], T)
  BY DEF UnaSola, Ninguna
<1>2. t = v
  BY <1>1 DEF Unica, Esta
<1> QED
  BY <1>1, <1>2

LEMMA CimaLibre ==
    ASSUME IInvCiclo, NEW q \in Procs, NEW h \in Hilos, pila[h] # <<>>, Head(pila[h]) \in Mano(q)
    PROVE  ~Con("BLOCKED", q)
<1>1. ASSUME Con("BLOCKED", q) PROVE FALSE
  <2>1. PICK k \in Fijos : /\ pila[k] # <<>> /\ Head(pila[k]).op = "BLOCKED"
                           /\ ~Ninguna(pila[k], Mano(q))
    BY <1>1, BloqueadoTiene
  <2>2. ~Ninguna(pila[h], Mano(q))
    BY PilasDelCiclo, Cabeza DEF Ninguna
  <2>3. k \in Hilos /\ k = h
    BY <2>1, <2>2 DEF IInvCiclo, EnRumbo, UnaSola, Fijos
  <2> QED
    BY <2>1, <2>3 DEF Mano, Mueven, Esperan, Levantan
<1> QED
  BY <1>1

(* A thread takes a process a step further: what is left of it then.        *)
LEMMA TomaMano ==
    ASSUME IInvCiclo, NEW h \in Hilos, NEW p \in Procs, NEW o \in Mueven, Toca(h, o, p),
           NEW u \in Seq(Tarea), Sigue(h, u), Unica(u, Mano(p)),
           \A t : Esta(t, u) => t.op \notin {"SUSPENDER_MEM", "BLOCKED"}
    PROVE  /\ Motivo(o, p) /\ Con(o, p) /\ \A x \in Mueven : Con(x, p) => x = o
           /\ ~Con("BLOCKED", p) /\ ~Con("BLOCKED", p)'
           /\ \A x \in Mueven : Con(x, p)' <=> En(u, x, p)
           /\ Con("READY_CPU", p)' => Con("READY_CPU", p) \/ En(u, "READY_CPU", p)
           /\ Con("SUSPENDER_MEM", p)' <=> Con("SUSPENDER_MEM", p)
           /\ UnaSola(Mano(p))' /\ UnaSola(AMem(p))'
           /\ contexto[LaCpu] # <<>> => PidDe(LaCpu) # p
           /\ p \notin enIO
           /\ EnRumbo(p)
<1>1. /\ pila \in [Hilos -> Seq(Tarea)] /\ EnRumbo(p) /\ pila[h] # <<>>
      /\ Head(pila[h]) = Por(o, p)
  BY PilasDelCiclo DEF IInvCiclo, Toca
<1>2. Head(pila[h]) \in Mano(p) /\ Head(pila[h]).op = o /\ Head(pila[h]).pid = p
  BY <1>1, Cabeza DEF Mano, Por
<1>3. /\ UnaSola(Mano(p))'
      /\ \A t \in Mano(p) : (Hay(t) => t = Head(pila[h])) /\ (Hay(t)' => Esta(t, u))
  BY <1>1, <1>2, UnaTras DEF EnRumbo
<1>4. Ninguna(u, AMem(p)) /\ Unica(u, AMem(p))
  <2>1. Ninguna(u, AMem(p))
    BY DEF Ninguna, AMem
  <2> QED
    BY <2>1, UnicaEnNinguna
<1>5. UnaSola(AMem(p))'
  BY <1>1, <1>4, UnaTras DEF EnRumbo
<1>6. /\ \A x : Con(x, p)' => Con(x, p) \/ En(u, x, p)
      /\ \A x : En(u, x, p) => Con(x, p)'
      /\ \A x : Con(x, p) => Con(x, p)' \/ x = o
      /\ Con(o, p)
  BY <1>1, <1>2, ConTras
<1>7. pila' \in [Hilos -> Seq(Tarea)]
  <2>1. u \o Tail(pila[h]) \in Seq(Tarea)
    BY <1>1, TrasLaPrimera
  <2> QED
    BY <1>1, <2>1 DEF Sigue
<1>8. \A t : (Hay(t) => t \in Tarea) /\ (Hay(t)' => t \in Tarea)
  BY <1>1, <1>7, ElementoDe DEF Hay
<1>9. \A x \in Mueven : (Con(x, p) => x = o) /\ (Con(x, p)' => En(u, x, p))
  BY <1>2, <1>3, <1>8 DEF Con, En, Mano
<1>10. ~En(u, "BLOCKED", p) /\ ~En(u, "SUSPENDER_MEM", p)
  BY DEF En
<1>11. ~Con("BLOCKED", p)
  BY <1>1, <1>2, CimaLibre
<1>12. o # "SUSPENDER_MEM"
  BY DEF Mueven, Esperan, Levantan
<1> QED
  BY <1>1, <1>3, <1>5, <1>6, <1>9, <1>10, <1>11, <1>12 DEF EnRumbo, EnLaCpu, EnDispositivo, Suelto

LEMMA EnPocas ==
    ASSUME NEW t, NEW v
    PROVE  /\ \A x, q : ~En(<<>>, x, q)
           /\ \A x, q : En(<<t>>, x, q) <=> t.op = x /\ t.pid = q
           /\ \A x, q : En(<<t, v>>, x, q) <=> (t.op = x /\ t.pid = q) \/ (v.op = x /\ v.pid = q)
BY EstaEnVacia, EstaEnUna, EstaEnDos DEF En

(* Tasks for a thread to go on with about p: only one that carries it, and  *)
(* none that blocks it, swaps it out or frees a CPU.                        *)
Sensibles == {"SUSPENDER_MEM", "BLOCKED", "LIBERAR_CPU"}
Carga(u, p) ==
    /\ u \in Seq(Tarea) /\ Unica(u, Mano(p))
    /\ \A t : Esta(t, u) => t.pid \in {p, Nadie} /\ t.op \notin Sensibles

LEMMA CargaNada == ASSUME NEW p PROVE Carga(<<>>, p) /\ \A x, q : ~En(<<>>, x, q)
<1>1. PICK u : u = <<>>
  OBVIOUS
<1>2. u \in Seq(Tarea) /\ \A x : ~Esta(x, u)
  BY <1>1, EstaEnVacia
<1>3. Unica(u, Mano(p))
  BY <1>1, UnicaEnDos
<1>4. Carga(u, p) /\ \A x, q : ~En(u, x, q)
  BY <1>2, <1>3 DEF Carga, En
<1> QED
  BY <1>1, <1>4

LEMMA CargaUna ==
    ASSUME NEW p \in Procs, NEW o \in Ops \ Sensibles
    PROVE  \E u : /\ u = <<Por(o, p)>> /\ Carga(u, p)
                 /\ \A x, q : En(u, x, q) <=> x = o /\ q = p
<1>1. PICK t, u : t = Por(o, p) /\ u = <<t>>
  OBVIOUS
<1>2. t \in Tarea /\ t.op = o /\ t.pid = p
  BY <1>1, PorTarea
<1>3. u \in Seq(Tarea) /\ \A x : Esta(x, u) <=> x = t
  BY <1>1, <1>2, EstaEnUna
<1>4. Unica(u, Mano(p))
  BY <1>1, UnicaEnDos
<1>5. Carga(u, p) /\ \A x, q : En(u, x, q) <=> x = o /\ q = p
  BY <1>2, <1>3, <1>4 DEF Carga, En
<1> QED
  BY <1>1, <1>5

LEMMA CargaDos ==
    ASSUME NEW p \in Procs, NEW t \in Tarea, NEW v \in Tarea, t.pid \in {p, Nadie}, v.pid \in {p, Nadie},
           t.op \notin Sensibles, v.op \notin Sensibles, t.op \notin Mueven \/ v.op \notin Mueven
    PROVE  Carga(<<t, v>>, p)
<1>1. PICK u : u = <<t, v>>
  OBVIOUS
<1>2. u \in Seq(Tarea) /\ \A x : Esta(x, u) <=> x = t \/ x = v
  BY <1>1, EstaEnDos
<1>3. t \notin Mano(p) \/ v \notin Mano(p)
  BY DEF Mano
<1>4. Unica(u, Mano(p))
  BY <1>1, <1>3, UnicaEnDos
<1>5. Carga(u, p)
  BY <1>2, <1>4 DEF Carga
<1> QED
  BY <1>1, <1>5

(* The other processes while a thread deals with p.                         *)
LEMMA CicloDePaso ==
    ASSUME IInvCiclo, IInvCpu', IInvOrden', IInvDespierta', NEW h \in Hilos, pila[h] # <<>>,
           NEW p \in Procs, NEW u \in Seq(Tarea), Sigue(h, u),
           Head(pila[h]).pid \in {p, Nadie}, \A t : Esta(t, u) => t.pid \in {p, Nadie},
           \A q \in Procs \ {p} : Aparte(q) /\ CpuIgual(q),
           NadieDosVeces', EnRumbo(p)'
    PROVE  IInvCiclo'
<1>1. ASSUME NEW q \in Procs \ {p} PROVE EnRumbo(q)'
  <2>1. q # Nadie /\ q # p
    BY NadieAssumption
  <2>2. \A t : Esta(t, u) => t.pid # q
    BY <2>1
  <2> QED
    BY <2>1, <2>2, SigueIgual
<1> QED
  BY <1>1 DEF IInvCiclo

(* cambiar_estado leaves the others where they were.                        *)
LEMMA CambiarAparte ==
    ASSUME IInvCiclo, NEW p \in Procs, NEW e \in Estados, CambiarEstado(p, e),
           NEW q \in Procs \ {p}, posible'[q] = posible[q],
           q \in enIO' => q \in enIO, q \in suspendidos' => q \in suspendidos
    PROVE  Aparte(q)
<1>1. estado'[q] = estado[q] /\ \A c \in Colas : Esta(q, cola'[c]) => Esta(q, cola[c])
  BY PilasDelCiclo, CambiarMueve
<1> QED
  BY <1>1 DEF Aparte

LEMMA CambiarRumbo ==
    ASSUME IInvCiclo, NEW p \in Procs, NEW e \in Estados, estado[p] # e, CambiarEstado(p, e)
    PROVE  NadieDosVeces' /\ EnSuCola(p)' /\ estado'[p] = e
<1>1. EnSuCola(p) /\ NadieDosVeces
  BY DEF IInvCiclo, EnRumbo
<1> QED
  BY <1>1, PilasDelCiclo, CambiarSinRepetir, CambiarMueve

LEMMA TomaCarga ==
    ASSUME IInvCiclo, NEW h \in Hilos, NEW p \in Procs, NEW o \in Mueven, Toca(h, o, p),
           NEW u, Sigue(h, u), Carga(u, p)
    PROVE  /\ Motivo(o, p) /\ Con(o, p) /\ \A x \in Mueven : Con(x, p) => x = o
           /\ ~Con("BLOCKED", p) /\ ~Con("BLOCKED", p)'
           /\ \A x \in Mueven : Con(x, p)' <=> En(u, x, p)
           /\ Con("READY_CPU", p)' => Con("READY_CPU", p) \/ En(u, "READY_CPU", p)
           /\ Con("SUSPENDER_MEM", p)' <=> Con("SUSPENDER_MEM", p)
           /\ UnaSola(Mano(p))' /\ UnaSola(AMem(p))'
           /\ contexto[LaCpu] # <<>> => PidDe(LaCpu) # p
           /\ p \notin enIO
           /\ EnRumbo(p)
<1>1. /\ u \in Seq(Tarea) /\ Unica(u, Mano(p))
      /\ \A x : Esta(x, u) => x.op \notin {"SUSPENDER_MEM", "BLOCKED"}
  BY DEF Carga, Sensibles
<1> QED
  BY <1>1, TomaMano

(* A thread takes p a step further and no CPU changes hands.                *)
LEMMA MueveRumbo ==
    ASSUME IInvCiclo, IInvCpu', IInvOrden', IInvDespierta', NEW h \in Hilos, NEW p \in Procs,
           NEW o \in Mueven, Toca(h, o, p), NEW u, Sigue(h, u), Carga(u, p),
           UNCHANGED <<cpuPid, contexto>>, \A q \in Procs \ {p} : Aparte(q),
           NadieDosVeces', EnSuCola(p)', \A x \in Mueven : En(u, x, p) => Motivo(x, p)',
           Recibido(p)', Apartado(p)',
           p \in enIO' => estado'[p] \in Dormidos /\ \A x \in Mueven : ~En(u, x, p)
    PROVE  IInvCiclo'
<1>1. /\ u \in Seq(Tarea) /\ Unica(u, Mano(p))
      /\ \A x : Esta(x, u) => x.op # "LIBERAR_CPU" /\ x.op \notin {"SUSPENDER_MEM", "BLOCKED"}
      /\ \A x : Esta(x, u) => x.pid \in {p, Nadie}
  BY DEF Carga, Sensibles
<1>2. /\ ~Con("BLOCKED", p)' /\ \A x \in Mueven : Con(x, p)' <=> En(u, x, p)
      /\ UnaSola(Mano(p))' /\ UnaSola(AMem(p))'
      /\ contexto[LaCpu] # <<>> => PidDe(LaCpu) # p
  BY <1>1, TomaMano
<1>3. PidDe(LaCpu)' = PidDe(LaCpu)
  BY DEF PidDe, Corre
<1>4. EnLaCpu(p)' /\ EnDispositivo(p)'
  BY <1>2, <1>3 DEF EnLaCpu, EnDispositivo, Suelto
<1>5. EnRumbo(p)'
  BY <1>2, <1>4 DEF EnRumbo
<1>6. pila[h] # <<>> /\ Head(pila[h]).pid \in {p, Nadie}
  BY DEF Toca, Por
<1>7. Libera' => Libera
  BY <1>1, <1>6, PilasDelCiclo, SinLiberar
<1>8. \A q \in Procs \ {p} : CpuIgual(q)
  BY <1>7, CpuIgualSigue
<1> QED
  BY <1>1, <1>5, <1>6, <1>8, CicloDePaso

LEMMA CicloDeReady ==
    ASSUME IInvCiclo, IInvCpu', IInvOrden', IInvDespierta',
           NEW h \in Hilos, NEW p \in Procs, Ready(h, p)
    PROVE  IInvCiclo'
<1>1. PICK u : /\ u = <<Por("READY_CPU", p)>> /\ Carga(u, p)
               /\ \A x, q : En(u, x, q) <=> x = "READY_CPU" /\ q = p
  <2>1. "READY_CPU" \in Ops \ Sensibles
    BY DEF Ops, Sensibles
  <2> QED
    BY <2>1, CargaUna
<1>2. /\ Toca(h, "READY", p) /\ Sigue(h, u) /\ CambiarEstado(p, "READY")
      /\ UNCHANGED <<cpuPid, contexto, enIO, posible, suspendidos>>
  BY <1>1 DEF Ready, cpuVars, guionVars, timerVars, memVars
<1>3. "READY" \in Mueven /\ "READY_CPU" \notin Mueven
  BY DEF Mueven, Esperan, Levantan
<1>4. /\ Motivo("READY", p) /\ Con("READY", p) /\ EnRumbo(p) /\ p \notin enIO
      /\ \A x \in Mueven : Con(x, p)' <=> En(u, x, p)
      /\ Con("SUSPENDER_MEM", p)' <=> Con("SUSPENDER_MEM", p)
  BY <1>1, <1>2, <1>3, TomaCarga
<1>5. estado[p] # "READY" /\ "READY" \in Estados
  BY <1>4 DEF Motivo, Estados
<1>6. NadieDosVeces' /\ EnSuCola(p)' /\ estado'[p] = "READY"
  BY <1>2, <1>5, CambiarRumbo
<1>7. ~Fuera(p)'
  BY <1>2, <1>4 DEF EnRumbo, Apartado, Fuera, Motivo
<1>8. Recibido(p)' /\ Apartado(p)'
  BY <1>6, <1>7 DEF Recibido, Apartado, Fuera
<1>9. \A q \in Procs \ {p} : Aparte(q)
  BY <1>2, <1>5, CambiarAparte
<1> QED
  BY <1>1, <1>2, <1>3, <1>4, <1>6, <1>8, <1>9, MueveRumbo

(* A thread takes a blocked process a step further and leaves it there.     *)
LEMMA TomaDormido ==
    ASSUME IInvCiclo, IInvCpu', IInvOrden', IInvDespierta', NEW h \in Hilos, NEW p \in Procs,
           NEW o \in Mueven, Toca(h, o, p), o \in Esperan \cup Levantan, NEW u, Sigue(h, u), Carga(u, p),
           UNCHANGED <<estado, cola, cpuPid, contexto, enIO, suspendidos>>,
           \A q \in Procs \ {p} : posible'[q] = posible[q], ~En(u, "READY_CPU", p),
           estado[p] \in Dormidos => \A x \in Mueven : En(u, x, p) => Motivo(x, p)'
    PROVE  IInvCiclo'
<1>1. /\ Motivo(o, p) /\ EnRumbo(p) /\ p \notin enIO /\ ~Con("BLOCKED", p)
      /\ \A x \in Mueven : Con(x, p)' <=> En(u, x, p)
      /\ Con("READY_CPU", p)' => Con("READY_CPU", p) \/ En(u, "READY_CPU", p)
      /\ Con("SUSPENDER_MEM", p)' <=> Con("SUSPENDER_MEM", p)
  BY TomaCarga
<1>2. estado[p] \in Dormidos /\ estado'[p] \in Dormidos
  BY <1>1 DEF Motivo
<1>3. ~Con("READY_CPU", p)
  BY <1>1, <1>2 DEF EnRumbo, Recibido, Dormidos
<1>4. Recibido(p)'
  BY <1>1, <1>3 DEF Recibido
<1>5. "READY" \in Mueven
  BY DEF Mueven
<1>6. estado[p] # "READY_SUSPENDED"
  BY <1>2 DEF Dormidos
<1>7. Apartado(p)'
  BY <1>1, <1>6 DEF EnRumbo, Apartado, Fuera
<1>8. EnSuCola(p)' /\ NadieDosVeces'
  BY <1>1 DEF EnRumbo, EnSuCola, IInvCiclo, NadieDosVeces
<1>9. \A q \in Procs \ {p} : Aparte(q)
  BY DEF Aparte
<1> QED
  BY <1>1, <1>2, <1>4, <1>7, <1>8, <1>9, MueveRumbo

LEMMA CicloDeDump ==
    ASSUME IInvCiclo, IInvCpu', IInvOrden', IInvDespierta', NEW h \in Hilos, NEW p \in Procs,
           Desbloqueo(h, p) \/ Dump(h, p) \/ DumpOk(h, p) \/ DumpFin(h, p) \/ DumpError(h, p) \/ DumpExit(h, p)
    PROVE  IInvCiclo'
<1> USE DEF cpuVars, guionVars, planVars, mutexVars, timerVars, memVars
<1>1. \A o \in Mueven \cup {"JOIN"} : o \in Ops \ Sensibles
  BY DEF Mueven, Esperan, Levantan, Ops, Sensibles
<1>2. posible \in [Procs -> BOOLEAN]
  BY PilasDelCiclo DEF IInvTipos, TypeOK
<1>3. ASSUME NEW o \in Levantan \cup {"DUMP", "DUMP_FALLA"}, Toca(h, o, p), NEW x \in Mueven,
             Sigue(h, <<Por(x, p)>>), UNCHANGED <<estado, cola, cpuPid, contexto, enIO, suspendidos>>,
             \A q \in Procs \ {p} : posible'[q] = posible[q],
             estado[p] \in Dormidos => Motivo(x, p)'
      PROVE  IInvCiclo'
  <2>1. x \in Ops \ Sensibles /\ x # "READY_CPU" /\ o \in Mueven /\ o \in Esperan \cup Levantan
    BY <1>1, <1>3 DEF Mueven, Esperan, Levantan
  <2>2. PICK u : /\ u = <<Por(x, p)>> /\ Carga(u, p) /\ \A y, q : En(u, y, q) <=> y = x /\ q = p
    <3>1. x \in Ops \ Sensibles
      BY <2>1
    <3> QED
      BY <3>1, CargaUna
  <2>3. Sigue(h, u)
    BY <1>3, <2>2
  <2> QED
    BY <1>3, <2>1, <2>2, <2>3, TomaDormido
<1>4. CASE Desbloqueo(h, p)
  <2>1. DestinoTrasIO(p) \in Mueven /\ "DESBLOQUEO" \in Levantan
    BY DEF DestinoTrasIO, Mueven, Levantan
  <2>2. /\ Toca(h, "DESBLOQUEO", p) /\ Sigue(h, <<Por(DestinoTrasIO(p), p)>>)
        /\ UNCHANGED <<estado, cola, cpuPid, contexto, enIO, suspendidos>>
        /\ posible'[p] = FALSE /\ \A q \in Procs \ {p} : posible'[q] = posible[q]
    BY <1>2, <1>4 DEF Desbloqueo
  <2>4. PICK x : x = DestinoTrasIO(p)
    OBVIOUS
  <2>5. x \in Mueven /\ Sigue(h, <<Por(x, p)>>)
    BY <2>1, <2>2, <2>4
  <2>6. estado[p] \in Dormidos => Motivo(x, p)'
    BY <2>2, <2>4 DEF DestinoTrasIO, Motivo, Dormidos, Esperan, Levantan
  <2> QED
    BY <1>3, <2>1, <2>2, <2>5, <2>6
<1>5. CASE Dump(h, p)
  <2>1. PICK o, x : /\ Toca(h, o, p) /\ Sigue(h, <<Por(x, p)>>)
                    /\ o \in {"DUMP", "DUMP_FALLA"} /\ x \in {"DUMP_ERROR", "DUMP_OK"}
    BY <1>5 DEF Dump
  <2>2. o \in Levantan \cup {"DUMP", "DUMP_FALLA"} /\ x \in Mueven
    BY <2>1 DEF Mueven, Levantan
  <2>3. UNCHANGED <<estado, cola, cpuPid, contexto, enIO, suspendidos, posible>>
    BY <1>5 DEF Dump
  <2>4. estado[p] \in Dormidos => Motivo(x, p)'
    BY <2>1, <2>3 DEF Motivo, Esperan
  <2> QED
    BY <1>3, <2>1, <2>2, <2>3, <2>4
<1>6. CASE DumpFin(h, p)
  <2>1. PICK x : x = IF estado[p] = "BLOCKED_SUSPENDED" THEN "READY_SUSPENDED" ELSE "READY"
    OBVIOUS
  <2>2. /\ Toca(h, "DUMP_FIN", p) /\ Sigue(h, <<Por(x, p)>>)
        /\ UNCHANGED <<estado, cola, cpuPid, contexto, enIO, suspendidos, posible>>
    BY <1>6, <2>1 DEF DumpFin, Solo, otras
  <2>3. x \in Mueven /\ "DUMP_FIN" \in Levantan /\ "DUMP_FIN" \in Mueven
    BY <2>1 DEF Mueven, Levantan
  <2>4. PICK u : /\ u = <<Por(x, p)>> /\ Carga(u, p)
    BY <1>1, <2>3, CargaUna
  <2>5. Motivo("DUMP_FIN", p)
    BY <2>2, <2>3, <2>4, TomaCarga
  <2>6. ~posible[p]
    BY <2>5 DEF Motivo
  <2>7. estado[p] \in Dormidos => Motivo(x, p)'
    BY <2>1, <2>2, <2>6 DEF Motivo, Dormidos, Esperan, Levantan
  <2> QED
    BY <1>3, <2>2, <2>3, <2>7
<1>7. CASE DumpExit(h, p)
  <2>1. /\ Toca(h, "DUMP_EXIT", p) /\ Sigue(h, <<Por("EXIT", p)>>)
        /\ UNCHANGED <<estado, cola, cpuPid, contexto, enIO, suspendidos, posible>>
    BY <1>7 DEF DumpExit
  <2>2. "EXIT" \in Mueven /\ "DUMP_EXIT" \in Levantan
    BY DEF Mueven, Levantan
  <2>3. estado[p] \in Dormidos => Motivo("EXIT", p)'
    BY <2>1 DEF Motivo, Esperan, Levantan
  <2> QED
    BY <1>3, <2>1, <2>2, <2>3
<1>8. ASSUME NEW o \in Levantan, Toca(h, o, p), NEW x \in Levantan, Sigue(h, <<Por("JOIN", p), Por(x, p)>>),
             UNCHANGED <<estado, cola, cpuPid, contexto, enIO, suspendidos>>,
             \A q \in Procs \ {p} : posible'[q] = posible[q],
             x = "DUMP_FIN" => ~posible'[p]
      PROVE  IInvCiclo'
  <2>1. x \in Ops \ Sensibles /\ o \in Mueven /\ x # "READY_CPU" /\ "JOIN" \in Ops \ Sensibles
        /\ "JOIN" \notin Mueven
    BY <1>1, <1>8 DEF Mueven, Esperan, Levantan, Ops, Sensibles
  <2>2. PICK t, v : /\ t = Por("JOIN", p) /\ t \in Tarea /\ t.op = "JOIN" /\ t.pid = p
                    /\ v = Por(x, p) /\ v \in Tarea /\ v.op = x /\ v.pid = p
    BY <2>1, PorTarea
  <2>3. Carga(<<t, v>>, p)
    BY <2>1, <2>2, CargaDos
  <2>4. \A y, q : En(<<t, v>>, y, q) <=> (t.op = y /\ t.pid = q) \/ (v.op = y /\ v.pid = q)
    BY EnPocas
  <2>5. PICK u : u = <<t, v>>
    OBVIOUS
  <2>6. Sigue(h, u) /\ Carga(u, p) /\ \A y \in Mueven : En(u, y, p) => y = x
    BY <1>8, <2>1, <2>2, <2>3, <2>4, <2>5
  <2>7. ~En(u, "READY_CPU", p)
    BY <2>1, <2>2, <2>4, <2>5
  <2>8. estado[p] \in Dormidos => Motivo(x, p)'
    BY <1>8 DEF Motivo, Levantan, Esperan
  <2> QED
    BY <1>8, <2>1, <2>6, <2>7, <2>8, TomaDormido
<1>9. CASE DumpOk(h, p)
  <2>1. /\ Toca(h, "DUMP_OK", p) /\ Sigue(h, <<Por("JOIN", p), Por("DUMP_FIN", p)>>)
        /\ UNCHANGED <<estado, cola, cpuPid, contexto, enIO, suspendidos>>
        /\ posible'[p] = FALSE /\ \A q \in Procs \ {p} : posible'[q] = posible[q]
    BY <1>2, <1>9 DEF DumpOk
  <2>2. "DUMP_OK" \in Levantan /\ "DUMP_FIN" \in Levantan
    BY DEF Levantan
  <2> QED
    BY <1>8, <2>1, <2>2
<1>10. CASE DumpError(h, p)
  <2>1. /\ Toca(h, "DUMP_ERROR", p) /\ Sigue(h, <<Por("JOIN", p), Por("DUMP_EXIT", p)>>)
        /\ UNCHANGED <<estado, cola, cpuPid, contexto, enIO, suspendidos, posible>>
    BY <1>10 DEF DumpError
  <2>2. "DUMP_ERROR" \in Levantan /\ "DUMP_EXIT" \in Levantan
    BY DEF Levantan
  <2> QED
    BY <1>8, <2>1, <2>2
<1> QED
  BY <1>4, <1>5, <1>6, <1>7, <1>9, <1>10

LEMMA CicloDeEncolar ==
    ASSUME IInvCiclo, IInvCpu', IInvOrden', IInvDespierta', NEW h \in Hilos, NEW p \in Procs,
           EncolarIO(h, p)
    PROVE  IInvCiclo'
<1>1. PICK u : u = <<>> /\ Carga(u, p) /\ \A x, q : ~En(u, x, q)
  BY CargaNada
<1>2. /\ Toca(h, "ENCOLAR_IO", p) /\ Sigue(h, u) /\ enIO' = enIO \cup {p}
      /\ UNCHANGED <<cpuPid, contexto, estado, cola, posible, suspendidos>>
  BY <1>1 DEF EncolarIO, planVars, cpuVars, timerVars, memVars
<1>3. "ENCOLAR_IO" \in Mueven /\ "READY" \in Mueven
  BY DEF Mueven, Esperan
<1>4. /\ Motivo("ENCOLAR_IO", p) /\ EnRumbo(p) /\ ~Con("BLOCKED", p)
      /\ \A x \in Mueven : Con(x, p)' <=> En(u, x, p)
      /\ Con("READY_CPU", p)' => Con("READY_CPU", p) \/ En(u, "READY_CPU", p)
      /\ Con("SUSPENDER_MEM", p)' <=> Con("SUSPENDER_MEM", p)
  BY <1>1, <1>2, <1>3, TomaCarga
<1>5. estado'[p] = estado[p] /\ estado[p] \in Dormidos
  BY <1>2, <1>4 DEF Motivo, Esperan
<1>6. Recibido(p)'
  BY <1>1, <1>4, <1>5 DEF EnRumbo, Recibido, Dormidos
<1>7. Apartado(p)'
  BY <1>1, <1>2, <1>3, <1>4 DEF EnRumbo, Apartado, Fuera
<1>8. EnSuCola(p)' /\ NadieDosVeces'
  BY <1>2, <1>4 DEF EnRumbo, EnSuCola, IInvCiclo, NadieDosVeces
<1>9. \A q \in Procs \ {p} : Aparte(q)
  BY <1>2 DEF Aparte
<1> QED
  BY <1>1, <1>2, <1>3, <1>5, <1>6, <1>7, <1>8, <1>9, MueveRumbo

LEMMA CicloDeReadySuspended ==
    ASSUME IInvCiclo, IInvCpu', IInvOrden', IInvDespierta', NEW h \in Hilos, NEW p \in Procs,
           ReadySuspended(h, p)
    PROVE  IInvCiclo' /\ estado[p] = "BLOCKED_SUSPENDED" /\ CambiarEstado(p, "READY_SUSPENDED")
<1>1. "READY_SUSPENDED" \in Mueven /\ "READY" \in Mueven /\ "RS_VER" \notin Mueven
      /\ "RS_VER" \in Ops \ Sensibles
  BY DEF Mueven, Esperan, Levantan, Ops, Sensibles
<1>2. PICK v : /\ v = <<Por("RS_VER", p)>> /\ Carga(v, p)
               /\ \A x, q : En(v, x, q) <=> x = "RS_VER" /\ q = p
  <2>1. "RS_VER" \in Ops \ Sensibles
    BY <1>1
  <2> QED
    BY <2>1, CargaUna
<1>3. Carga(<<>>, p)
  BY CargaNada
<1>4. PICK u : Toca(h, "READY_SUSPENDED", p) /\ Sigue(h, u) /\ Carga(u, p)
  <2>1. Toca(h, "READY_SUSPENDED", p) /\ (Sigue(h, <<Por("RS_VER", p)>>) \/ Sigue(h, <<>>))
    BY DEF ReadySuspended
  <2> QED
    BY <1>2, <1>3, <2>1
<1>5. Motivo("READY_SUSPENDED", p)
  BY <1>1, <1>4, TomaCarga
<1>6. estado[p] = "BLOCKED_SUSPENDED"
  BY <1>5 DEF Motivo
<1>7. /\ Sigue(h, v) /\ CambiarEstado(p, "READY_SUSPENDED")
      /\ UNCHANGED <<cpuPid, contexto, enIO, posible, suspendidos>>
  BY <1>2, <1>6 DEF ReadySuspended, cpuVars, guionVars, timerVars, memVars
<1>8. /\ EnRumbo(p) /\ p \notin enIO
      /\ \A x \in Mueven : Con(x, p)' <=> En(v, x, p)
      /\ Con("READY_CPU", p)' => Con("READY_CPU", p) \/ En(v, "READY_CPU", p)
      /\ Con("SUSPENDER_MEM", p)' <=> Con("SUSPENDER_MEM", p)
  BY <1>1, <1>2, <1>4, <1>7, TomaCarga
<1>9. estado[p] # "READY_SUSPENDED" /\ "READY_SUSPENDED" \in Estados
  BY <1>6 DEF Estados
<1>10. NadieDosVeces' /\ EnSuCola(p)' /\ estado'[p] = "READY_SUSPENDED"
  BY <1>7, <1>9, CambiarRumbo
<1>11. Recibido(p)'
  BY <1>2, <1>6, <1>8 DEF EnRumbo, Recibido
<1>12. \A x \in Mueven : ~En(v, x, p)
  BY <1>1, <1>2
<1>13. Apartado(p)'
  BY <1>1, <1>7, <1>8, <1>10, <1>12 DEF EnRumbo, Apartado, Fuera
<1>14. \A q \in Procs \ {p} : Aparte(q)
  BY <1>7, <1>9, CambiarAparte
<1>15. p \notin enIO'
  BY <1>7, <1>8
<1>16. IInvCiclo'
  BY <1>1, <1>2, <1>4, <1>7, <1>10, <1>11, <1>12, <1>13, <1>14, <1>15, MueveRumbo
<1> QED
  BY <1>6, <1>7, <1>16

LEMMA CicloDeExit ==
    ASSUME IInvCiclo, IInvCpu', IInvOrden', IInvDespierta', NEW h \in Hilos, NEW p \in Procs, Exit(h, p)
    PROVE  IInvCiclo' /\ estado[p] \in Dormidos \cup {"EXECUTE"}
<1>1. "EXIT" \in Mueven /\ "READY" \in Mueven /\ "EXIT_MEM" \in Mueven
  BY DEF Mueven
<1>2. PICK u : /\ u = <<Por("EXIT_MEM", p)>> /\ Carga(u, p)
               /\ \A x, q : En(u, x, q) <=> x = "EXIT_MEM" /\ q = p
  <2>1. "EXIT_MEM" \in Ops \ Sensibles
    BY DEF Ops, Sensibles
  <2> QED
    BY <2>1, CargaUna
<1>3. /\ Toca(h, "EXIT", p) /\ Sigue(h, u) /\ CambiarEstado(p, "EXIT")
      /\ UNCHANGED <<cpuPid, contexto, enIO, posible, suspendidos>>
  BY <1>2 DEF Exit, cpuVars, guionVars, timerVars, memVars
<1>4. /\ Motivo("EXIT", p) /\ Con("EXIT", p) /\ EnRumbo(p) /\ p \notin enIO
      /\ \A x \in Mueven : Con(x, p)' <=> En(u, x, p)
      /\ Con("READY_CPU", p)' => Con("READY_CPU", p) \/ En(u, "READY_CPU", p)
      /\ Con("SUSPENDER_MEM", p)' <=> Con("SUSPENDER_MEM", p)
  BY <1>1, <1>2, <1>3, TomaCarga
<1>5. estado[p] \in Dormidos \cup {"EXECUTE"}
  BY <1>4 DEF Motivo
<1>6. estado[p] # "EXIT" /\ "EXIT" \in Estados
  BY <1>5 DEF Estados, Dormidos
<1>7. NadieDosVeces' /\ EnSuCola(p)' /\ estado'[p] = "EXIT"
  BY <1>3, <1>6, CambiarRumbo
<1>8. ~Con("READY_CPU", p)
  BY <1>4, <1>5 DEF EnRumbo, Recibido, Dormidos
<1>9. Recibido(p)'
  BY <1>2, <1>4, <1>8 DEF Recibido
<1>10. Apartado(p)'
  BY <1>3, <1>4, <1>7 DEF EnRumbo, Apartado, Fuera
<1>11. Motivo("EXIT_MEM", p)'
  BY <1>7 DEF Motivo, Esperan, Levantan
<1>12. \A x \in Mueven : En(u, x, p) => Motivo(x, p)'
  BY <1>2, <1>11
<1>13. \A q \in Procs \ {p} : Aparte(q)
  BY <1>3, <1>6, CambiarAparte
<1>14. p \notin enIO'
  BY <1>3, <1>4
<1>15. IInvCiclo'
  BY <1>1, <1>2, <1>3, <1>7, <1>9, <1>10, <1>12, <1>13, <1>14, MueveRumbo
<1> QED
  BY <1>5, <1>15

LEMMA CicloDeExitMem ==
    ASSUME IInvCiclo, IInvCpu', IInvOrden', IInvDespierta', NEW h \in Hilos, NEW p \in Procs, ExitMem(h, p)
    PROVE  IInvCiclo' /\ estado[p] = "EXIT"
<1>1. "EXIT_MEM" \in Mueven /\ "READY" \in Mueven /\ "TRAER" \notin Mueven
  BY DEF Mueven, Esperan, Levantan
<1>2. PICK u : /\ u = <<Sola("TRAER")>> /\ Carga(u, p) /\ \A x : ~En(u, x, p)
  <2>1. PICK t : t = Sola("TRAER") /\ t \in Tarea /\ t.op = "TRAER" /\ t.pid = Nadie
    <3>1. "TRAER" \in Sueltas
      BY DEF Sueltas
    <3> QED
      BY <3>1, SolaTarea
  <2>2. PICK u : u = <<t>>
    OBVIOUS
  <2>3. u \in Seq(Tarea) /\ \A x : Esta(x, u) <=> x = t
    BY <2>1, <2>2, EstaEnUna
  <2>4. Unica(u, Mano(p))
    BY <2>2, UnicaEnDos
  <2>5. Carga(u, p) /\ \A x : ~En(u, x, p)
    BY <2>1, <2>3, <2>4, NadieAssumption DEF Carga, En, Sensibles
  <2> QED
    BY <2>1, <2>2, <2>5
<1>3. /\ Toca(h, "EXIT_MEM", p) /\ Sigue(h, u)
      /\ estado' = [estado EXCEPT ![p] = "ELIMINADO"] /\ suspendidos' = suspendidos \ {p}
      /\ UNCHANGED <<cpuPid, contexto, enIO, posible, cola>>
  BY <1>2 DEF ExitMem, DespuesDelExit, MemFinalizar, cpuVars, guionVars
<1>4. /\ Motivo("EXIT_MEM", p) /\ EnRumbo(p) /\ p \notin enIO
      /\ \A x \in Mueven : Con(x, p)' <=> En(u, x, p)
      /\ Con("READY_CPU", p)' => Con("READY_CPU", p) \/ En(u, "READY_CPU", p)
      /\ Con("SUSPENDER_MEM", p)' <=> Con("SUSPENDER_MEM", p)
  BY <1>1, <1>2, <1>3, TomaCarga
<1>5. estado[p] = "EXIT"
  BY <1>4 DEF Motivo
<1>6. /\ estado'[p] = "ELIMINADO" /\ \A q \in Procs \ {p} : estado'[q] = estado[q]
  BY <1>3, PilasDelCiclo
<1>7. EnSuCola(p)' /\ NadieDosVeces'
  <2>1. \A c \in Colas : c # "EXIT"
    BY DEF Colas
  <2>2. \A c \in Colas : ~Esta(p, cola[c])
    BY <1>4, <1>5, <2>1 DEF EnRumbo, EnSuCola
  <2> QED
    BY <1>3, <2>2 DEF EnSuCola, NadieDosVeces, IInvCiclo
<1>8. Recibido(p)'
  BY <1>2, <1>4, <1>5 DEF EnRumbo, Recibido
<1>9. Apartado(p)'
  BY <1>3, <1>4, <1>6 DEF EnRumbo, Apartado, Fuera
<1>10. \A q \in Procs \ {p} : Aparte(q)
  BY <1>3, <1>6 DEF Aparte
<1>11. p \notin enIO'
  BY <1>3, <1>4
<1>12. IInvCiclo'
  BY <1>1, <1>2, <1>3, <1>7, <1>8, <1>9, <1>10, <1>11, MueveRumbo
<1> QED
  BY <1>5, <1>12

LEMMA CicloDeExecute ==
    ASSUME IInvCiclo, IInvCpu', IInvOrden', IInvDespierta', NEW h \in Hilos, NEW p \in Procs, Execute(h, p)
    PROVE  IInvCiclo' /\ estado[p] = "READY"
<1>1. "EXECUTE" \in Mueven /\ "ENVIAR" \in Mueven /\ "EXIT" \in Mueven /\ "READY" \in Mueven
  BY DEF Mueven
<1>2. PICK u : /\ u = <<Por("ENVIAR", p)>> /\ Carga(u, p)
               /\ \A x, q : En(u, x, q) <=> x = "ENVIAR" /\ q = p
  <2>1. "ENVIAR" \in Ops \ Sensibles
    BY DEF Ops, Sensibles
  <2> QED
    BY <2>1, CargaUna
<1>3. /\ Toca(h, "EXECUTE", p) /\ Sigue(h, u) /\ CambiarEstado(p, "EXECUTE")
      /\ UNCHANGED <<cpuPid, contexto, enIO, posible, suspendidos>>
  BY <1>2 DEF Execute, cpuVars, guionVars, timerVars, memVars
<1>4. /\ Motivo("EXECUTE", p) /\ EnRumbo(p) /\ p \notin enIO /\ ~Con("BLOCKED", p)'
      /\ \A x \in Mueven : Con(x, p)' <=> En(u, x, p)
      /\ Con("SUSPENDER_MEM", p)' <=> Con("SUSPENDER_MEM", p)
  BY <1>1, <1>2, <1>3, TomaCarga
<1>5. estado[p] = "READY" /\ cpuPid[LaCpu] = p
  BY <1>4 DEF Motivo
<1>6. NadieDosVeces' /\ EnSuCola(p)' /\ estado'[p] = "EXECUTE"
  <2>1. estado[p] # "EXECUTE" /\ "EXECUTE" \in Estados
    BY <1>5 DEF Estados
  <2> QED
    BY <1>3, <2>1, CambiarRumbo
<1>7. ~Libera'
  <2>1. pila[h] # <<>> /\ Head(pila[h]).op = "EXECUTE"
    BY <1>3 DEF Toca, Por
  <2>2. ~Libera
    BY <2>1, UnSoloTurno DEF IInvCiclo, Ocupan, Libera
  <2>3. u \in Seq(Tarea) /\ \A x : Esta(x, u) => x.op # "LIBERAR_CPU"
    BY <1>2 DEF Carga, Sensibles
  <2> QED
    BY <1>3, <2>1, <2>2, <2>3, PilasDelCiclo, SinLiberar
<1>8. Recibido(p)'
  BY <1>1, <1>2, <1>3, <1>4, <1>5, <1>6, <1>7 DEF Recibido
<1>9. Apartado(p)'
  BY <1>3, <1>4, <1>5 DEF EnRumbo, Apartado, Fuera
<1>10. Motivo("ENVIAR", p)'
  BY <1>3, <1>5, <1>6 DEF Motivo, Esperan, Levantan
<1>11. \A x \in Mueven : En(u, x, p) => Motivo(x, p)'
  BY <1>2, <1>10
<1>12. \A q \in Procs \ {p} : Aparte(q)
  <2>1. "EXECUTE" \in Estados
    BY DEF Estados
  <2> QED
    BY <1>3, <2>1, CambiarAparte
<1>13. p \notin enIO'
  BY <1>3, <1>4
<1>14. IInvCiclo'
  BY <1>1, <1>2, <1>3, <1>6, <1>8, <1>9, <1>11, <1>12, <1>13, MueveRumbo
<1> QED
  BY <1>5, <1>14

LEMMA CicloDeEnviar ==
    ASSUME SolaCpu, IInvCiclo, IInvCpu', IInvOrden', IInvDespierta', NEW h \in Hilos, NEW p \in Procs,
           Enviar(h, p)
    PROVE  IInvCiclo'
<1>1. "ENVIAR" \in Mueven /\ "READY" \in Mueven /\ "EXIT" \in Mueven
      /\ "READY" \in Ops \ Sensibles
  BY DEF Mueven, Ops, Sensibles
<1>2. PICK v : v = <<Por("READY", p)>> /\ Carga(v, p)
  <2>1. "READY" \in Ops \ Sensibles
    BY <1>1
  <2> QED
    BY <2>1, CargaUna
<1>3. PICK u : u = <<>> /\ Carga(u, p) /\ \A x, q : ~En(u, x, q)
  BY CargaNada
<1>4. Motivo("ENVIAR", p)
  <2>1. Toca(h, "ENVIAR", p) /\ (Sigue(h, u) \/ Sigue(h, v))
    BY <1>2, <1>3 DEF Enviar
  <2> QED
    BY <1>1, <1>2, <1>3, <2>1, TomaCarga
<1>5. estado[p] = "EXECUTE" /\ cpuPid[LaCpu] = p
  BY <1>4 DEF Motivo
<1>6. CpusDe(p) # {} /\ Primera(CpusDe(p)) = LaCpu
  <2>1. LaCpu \in CpusDe(p)
    BY <1>5 DEF CpusDe, SolaCpu
  <2> QED
    BY <2>1, LaPrimera
<1>7. /\ Toca(h, "ENVIAR", p) /\ Sigue(h, u)
      /\ contexto' = [contexto EXCEPT ![LaCpu] = Append(@, [pid |-> p, pc |-> pc[p]])]
      /\ UNCHANGED <<cpuPid, enIO, posible, suspendidos, estado, cola>>
  BY <1>3, <1>6 DEF Enviar, planVars, guionVars, timerVars, memVars
<1>8. pila[h] # <<>> /\ Head(pila[h]).op = "ENVIAR" /\ Head(pila[h]).pid \in {p, Nadie}
  BY <1>7 DEF Toca, Por
<1>9. contexto[LaCpu] = <<>>
  BY <1>8, UnSoloTurno DEF IInvCiclo, Ocupan
<1>10. PidDe(LaCpu)' = p
  <2>1. LaCpu \in Cpus
    BY DEF SolaCpu
  <2>2. contexto'[LaCpu] = Append(<<>>, [pid |-> p, pc |-> pc[p]])
    BY <1>7, <1>9, <2>1, PilasDelCiclo
  <2>3. Head(contexto'[LaCpu]) = [pid |-> p, pc |-> pc[p]]
    BY <2>2
  <2> QED
    BY <2>3 DEF PidDe, Corre
<1>11. /\ EnRumbo(p) /\ p \notin enIO /\ ~Con("BLOCKED", p)' /\ ~Con("BLOCKED", p)
       /\ \A x \in Mueven : ~Con(x, p)'
       /\ Con("READY_CPU", p)' => Con("READY_CPU", p)
       /\ Con("SUSPENDER_MEM", p)' <=> Con("SUSPENDER_MEM", p)
       /\ UnaSola(Mano(p))' /\ UnaSola(AMem(p))'
  BY <1>1, <1>3, <1>7, TomaCarga
<1>12. u \in Seq(Tarea) /\ \A x : Esta(x, u) => x.op # "LIBERAR_CPU" /\ x.pid \in {p, Nadie}
  BY <1>3 DEF Carga, Sensibles
<1>13. Libera' => Libera
  BY <1>7, <1>8, <1>12, PilasDelCiclo, SinLiberar
<1>14. Recibido(p)'
  BY <1>1, <1>5, <1>7, <1>11, <1>13 DEF EnRumbo, Recibido
<1>15. EnLaCpu(p)' /\ EnDispositivo(p)' /\ Apartado(p)' /\ EnSuCola(p)'
  BY <1>5, <1>7, <1>11, <1>1 DEF EnRumbo, EnLaCpu, EnDispositivo, Apartado, Fuera, Suelto, EnSuCola
<1>16. EnRumbo(p)'
  BY <1>11, <1>14, <1>15 DEF EnRumbo
<1>17. ASSUME NEW q \in Procs \ {p} PROVE Aparte(q) /\ CpuIgual(q)
  BY <1>7, <1>10, <1>13 DEF Aparte, CpuIgual
<1>18. NadieDosVeces'
  BY <1>7 DEF IInvCiclo, NadieDosVeces
<1> QED
  BY <1>7, <1>8, <1>12, <1>16, <1>17, <1>18, CicloDePaso

(* A thread takes on a process that no thread was moving.                   *)
LEMMA TraeMano ==
    ASSUME IInvCiclo, NEW h \in Hilos, NEW p \in Procs, pila[h] # <<>>,
           Head(pila[h]).op \notin {"SUSPENDER_MEM", "BLOCKED"},
           NEW u, Sigue(h, u), Carga(u, p), Suelto(p)
    PROVE  /\ \A x \in Mueven : Con(x, p)' <=> En(u, x, p)
           /\ Con("READY_CPU", p)' => Con("READY_CPU", p) \/ En(u, "READY_CPU", p)
           /\ Con("SUSPENDER_MEM", p)' <=> Con("SUSPENDER_MEM", p)
           /\ Con("BLOCKED", p)' <=> Con("BLOCKED", p)
           /\ UnaSola(Mano(p))' /\ UnaSola(AMem(p))'
<1>1. /\ pila \in [Hilos -> Seq(Tarea)] /\ EnRumbo(p)
      /\ u \in Seq(Tarea) /\ Unica(u, Mano(p))
      /\ \A t : Esta(t, u) => t.op \notin {"SUSPENDER_MEM", "BLOCKED"}
  BY PilasDelCiclo DEF IInvCiclo, Carga, Sensibles
<1>2. \A k \in Hilos : Ninguna(pila[k], Mano(p))
  BY DEF Ninguna, Mano, Suelto, Con, Hay
<1>3. UnaSola(Mano(p))'
  BY <1>1, <1>2, UnaTras DEF EnRumbo
<1>4. Ninguna(u, AMem(p)) /\ Unica(u, AMem(p))
  <2>1. Ninguna(u, AMem(p))
    BY <1>1 DEF Ninguna, AMem
  <2> QED
    BY <2>1, UnicaEnNinguna
<1>5. UnaSola(AMem(p))'
  BY <1>1, <1>4, UnaTras DEF EnRumbo
<1>6. /\ \A x : Con(x, p)' => Con(x, p) \/ En(u, x, p)
      /\ \A x : En(u, x, p) => Con(x, p)'
      /\ \A x : Con(x, p) => Con(x, p)' \/ Head(pila[h]).op = x
  BY <1>1, ConTras
<1>7. ~En(u, "BLOCKED", p) /\ ~En(u, "SUSPENDER_MEM", p)
  BY <1>1 DEF En
<1> QED
  BY <1>3, <1>5, <1>6, <1>7 DEF Suelto

(* Nobody has anything to do with a process that waits out of memory, or    *)
(* that does not exist.                                                     *)
LEMMA EsperaQuieto ==
    ASSUME IInvCiclo, NEW p \in Procs,
           \/ estado[p] \in {"NEW", "READY_SUSPENDED"} /\ ~Con("READY", p)
           \/ estado[p] \in NoNatos
    PROVE  /\ Suelto(p) /\ ~Con("BLOCKED", p) /\ ~Con("READY_CPU", p) /\ p \notin enIO
           /\ contexto[LaCpu] # <<>> => PidDe(LaCpu) # p
<1>1. EnRumbo(p)
  BY DEF IInvCiclo
<1>2. \A o \in Mueven : o # "READY" \/ estado[p] \in NoNatos => ~Motivo(o, p)
  BY DEF Motivo, Mueven, Esperan, Levantan, Dormidos, NoNatos
<1>3. Suelto(p)
  BY <1>1, <1>2 DEF EnRumbo, Suelto
<1> QED
  BY <1>1, <1>3 DEF EnRumbo, Recibido, EnLaCpu, EnDispositivo, Dormidos, NoNatos

(* Memoria takes it in.                                                     *)
LEMMA Admitido ==
    ASSUME IInvCiclo, IInvCpu', IInvOrden', IInvDespierta', NEW h \in Hilos, NEW p \in Procs,
           pila[h] # <<>>, Head(pila[h]).pid \in {p, Nadie}, Head(pila[h]).op \notin Especiales,
           NEW v \in Tarea, v.pid \in {p, Nadie}, v.op \notin Sensibles \cup Especiales,
           Sigue(h, <<Por("READY", p), v>>),
           estado[p] \in {"NEW", "READY_SUSPENDED"}, ~Con("READY", p), ~Con("SUSPENDER_MEM", p),
           UNCHANGED <<estado, cola, cpuPid, contexto, enIO, posible>>,
           p \notin suspendidos', suspendidos' \subseteq suspendidos
    PROVE  IInvCiclo'
<1>1. PICK t : t = Por("READY", p) /\ t \in Tarea /\ t.op = "READY" /\ t.pid = p
  <2>1. "READY" \in Ops
    BY DEF Ops
  <2> QED
    BY <2>1, PorTarea
<1>2. Carga(<<t, v>>, p)
  <2>1. v.op \notin Mueven /\ v.op \notin Sensibles /\ t.op \notin Sensibles
    BY <1>1 DEF Especiales, Sensibles
  <2> QED
    BY <1>1, <2>1, CargaDos
<1>3. \A x, q : En(<<t, v>>, x, q) <=> (t.op = x /\ t.pid = q) \/ (v.op = x /\ v.pid = q)
  BY EnPocas
<1>4. PICK u : u = <<t, v>>
  OBVIOUS
<1>5. /\ Sigue(h, u) /\ Carga(u, p) /\ ~En(u, "READY_CPU", p)
      /\ \A x \in Mueven : En(u, x, p) => x = "READY"
  BY <1>1, <1>2, <1>3, <1>4 DEF Especiales
<1>6. /\ Suelto(p) /\ ~Con("BLOCKED", p) /\ ~Con("READY_CPU", p) /\ p \notin enIO
      /\ contexto[LaCpu] # <<>> => PidDe(LaCpu) # p
  BY EsperaQuieto
<1>7. /\ \A x \in Mueven : Con(x, p)' <=> En(u, x, p)
      /\ ~Con("READY_CPU", p)' /\ ~Con("SUSPENDER_MEM", p)' /\ ~Con("BLOCKED", p)'
      /\ UnaSola(Mano(p))' /\ UnaSola(AMem(p))'
  <2>1. Head(pila[h]).op \notin {"SUSPENDER_MEM", "BLOCKED"}
    BY DEF Especiales
  <2> QED
    BY <1>5, <1>6, <2>1, TraeMano
<1>8. Motivo("READY", p)'
  BY DEF Motivo, Esperan, Levantan
<1>9. PidDe(LaCpu)' = PidDe(LaCpu)
  BY DEF PidDe, Corre
<1>10. Recibido(p)' /\ EnLaCpu(p)' /\ EnDispositivo(p)' /\ Apartado(p)'
  BY <1>6, <1>7, <1>9 DEF Recibido, EnLaCpu, EnDispositivo, Apartado, Fuera
<1>11. EnSuCola(p)' /\ NadieDosVeces'
  BY DEF IInvCiclo, EnRumbo, EnSuCola, NadieDosVeces
<1>12. EnRumbo(p)'
  BY <1>5, <1>7, <1>8, <1>10, <1>11 DEF EnRumbo
<1>13. u \in Seq(Tarea) /\ \A x : Esta(x, u) => x.op # "LIBERAR_CPU" /\ x.pid \in {p, Nadie}
  BY <1>5 DEF Carga, Sensibles
<1>14. Libera' => Libera
  BY <1>5, <1>13, PilasDelCiclo, SinLiberar
<1>15. ASSUME NEW q \in Procs \ {p} PROVE Aparte(q) /\ CpuIgual(q)
  BY <1>14, CpuIgualSigue DEF Aparte
<1> QED
  BY <1>5, <1>11, <1>12, <1>13, <1>15, CicloDePaso

(* The CPU that is free is for it.                                          *)
LEMMA Despachado ==
    ASSUME SolaCpu, IInvCiclo, IInvCpu', IInvOrden', IInvDespierta', NEW h \in Hilos, NEW p \in Procs,
           pila[h] # <<>>, Head(pila[h]).pid \in {p, Nadie},
           Head(pila[h]).op \notin {"SUSPENDER_MEM", "BLOCKED"},
           NEW u, Sigue(h, u), Carga(u, p), \A x \in Mueven : En(u, x, p) => x = "EXECUTE",
           ~En(u, "READY_CPU", p),
           estado[p] = "READY", cpuPid[LaCpu] = Nadie, cpuPid'[LaCpu] = p,
           UNCHANGED <<estado, cola, contexto, enIO, posible, suspendidos>>
    PROVE  IInvCiclo'
<1>1. EnRumbo(p) /\ contexto[LaCpu] = <<>>
  BY DEF IInvCiclo, IInvCpu, CpuTomada
<1>2. Suelto(p) /\ ~Con("BLOCKED", p) /\ p \notin enIO
  <2>1. ~Con("EXECUTE", p)
    BY Libre DEF IInvCiclo, Con, Ocupan
  <2>2. \A o \in Mueven : o # "EXECUTE" => ~Motivo(o, p)
    BY DEF Motivo, Mueven, Esperan, Levantan, Dormidos
  <2> QED
    BY <1>1, <2>1, <2>2 DEF EnRumbo, Suelto, EnDispositivo, Dormidos
<1>3. /\ \A x \in Mueven : Con(x, p)' <=> En(u, x, p)
      /\ Con("SUSPENDER_MEM", p)' <=> Con("SUSPENDER_MEM", p)
      /\ ~Con("BLOCKED", p)' /\ UnaSola(Mano(p))' /\ UnaSola(AMem(p))'
  BY <1>2, TraeMano
<1>4. Motivo("EXECUTE", p)'
  BY DEF Motivo, Esperan, Levantan
<1>5. Recibido(p)' /\ EnLaCpu(p)' /\ EnDispositivo(p)'
  BY <1>1, <1>2 DEF Recibido, EnLaCpu, EnDispositivo
<1>6. Apartado(p)'
  BY <1>1, <1>3 DEF EnRumbo, Apartado, Fuera
<1>7. EnSuCola(p)' /\ NadieDosVeces'
  BY DEF IInvCiclo, EnRumbo, EnSuCola, NadieDosVeces
<1>8. EnRumbo(p)'
  BY <1>3, <1>4, <1>5, <1>6, <1>7 DEF EnRumbo
<1>9. u \in Seq(Tarea) /\ \A x : Esta(x, u) => x.pid \in {p, Nadie}
  BY DEF Carga
<1>10. ASSUME NEW q \in Procs \ {p} PROVE Aparte(q) /\ CpuIgual(q)
  BY <1>1, NadieAssumption DEF Aparte, CpuIgual
<1> QED
  BY <1>7, <1>8, <1>9, <1>10, CicloDePaso

(* Tasks that neither move a process nor free a CPU.                        *)
Callada(u) == u \in Seq(Tarea) /\ \A t : Esta(t, u) => t.op \notin Especiales \cup {"LIBERAR_CPU"}

LEMMA CalladaNada == Callada(<<>>)
BY EstaEnVacia DEF Callada

LEMMA CalladaUna ==
    ASSUME NEW t \in Tarea, t.op \notin Especiales \cup {"LIBERAR_CPU"}
    PROVE  Callada(<<t>>)
<1>1. <<t>> \in Seq(Tarea) /\ \A x : Esta(x, <<t>>) <=> x = t
  BY EstaEnUna
<1> QED
  BY <1>1 DEF Callada

LEMMA CalladaDos ==
    ASSUME NEW t \in Tarea, t.op \notin Especiales \cup {"LIBERAR_CPU"},
           NEW v \in Tarea, v.op \notin Especiales \cup {"LIBERAR_CPU"}
    PROVE  Callada(<<t, v>>)
<1>1. <<t, v>> \in Seq(Tarea) /\ \A x : Esta(x, <<t, v>>) <=> x = t \/ x = v
  BY EstaEnDos
<1> QED
  BY <1>1 DEF Callada

LEMMA CicloSigue ==
    ASSUME IInvCiclo, IInvCpu', IInvOrden', IInvDespierta', NEW h \in Hilos, pila[h] # <<>>,
           Head(pila[h]).op # "BLOCKED", NEW u, Callada(u), Sigue(h, u),
           UNCHANGED <<estado, cola, cpuPid, contexto, enIO, posible, suspendidos>>
    PROVE  IInvCiclo'
<1>1. /\ u \in Seq(Tarea) /\ \A t : Esta(t, u) => t.op # "LIBERAR_CPU"
      /\ \A t : Esta(t, u) => t.op \notin Especiales
  BY DEF Callada
<1>2. Libera' => Libera
  BY <1>1, PilasDelCiclo, SinLiberar
<1>3. ASSUME NEW q \in Procs PROVE EnRumbo(q)'
  <2>1. Aparte(q) /\ CpuIgual(q)
    BY <1>2, CpuIgualSigue DEF Aparte
  <2> QED
    BY <1>1, <2>1, SigueIgual
<1>4. NadieDosVeces'
  BY DEF IInvCiclo, NadieDosVeces
<1> QED
  BY <1>3, <1>4 DEF IInvCiclo

LEMMA CalladasPor ==
    ASSUME NEW p \in Procs
    PROVE  \A o \in {"NEW_TRAER", "NEW_INIT", "NEW_FIN", "BLOQUEAR", "JOIN", "CREAR_TIMER", "RS_VER", "TIMER",
                     "DORMIR", "REVISAR", "SUSPENDER", "CANCELAR", "FIN_TIMER"} :
               /\ Por(o, p) \in Tarea /\ Por(o, p).op \notin Especiales \cup {"LIBERAR_CPU"}
               /\ Callada(<<Por(o, p)>>)
<1>1. ASSUME NEW o \in {"NEW_TRAER", "NEW_INIT", "NEW_FIN", "BLOQUEAR", "JOIN", "CREAR_TIMER", "RS_VER", "TIMER",
                        "DORMIR", "REVISAR", "SUSPENDER", "CANCELAR", "FIN_TIMER"}
      PROVE  /\ Por(o, p) \in Tarea /\ Por(o, p).op \notin Especiales \cup {"LIBERAR_CPU"}
             /\ Callada(<<Por(o, p)>>)
  <2>1. o \in Ops /\ o \notin Especiales \cup {"LIBERAR_CPU"}
    BY DEF Ops, Especiales, Mueven, Esperan, Levantan
  <2>2. PICK t : t = Por(o, p) /\ t \in Tarea /\ t.op = o
    BY <2>1, PorTarea
  <2>3. Callada(<<t>>)
    BY <2>1, <2>2, CalladaUna
  <2> QED
    BY <2>1, <2>2, <2>3
<1> QED
  BY <1>1

LEMMA CalladasSolas ==
    \A o \in Sueltas \ {"LIBERAR_CPU"} :
        /\ Sola(o) \in Tarea /\ Sola(o).op = o /\ Sola(o).pid = Nadie
        /\ o \notin Especiales \cup Sensibles /\ Callada(<<Sola(o)>>)
<1>1. ASSUME NEW o \in Sueltas \ {"LIBERAR_CPU"}
      PROVE  /\ Sola(o) \in Tarea /\ Sola(o).op = o /\ Sola(o).pid = Nadie
             /\ o \notin Especiales \cup Sensibles /\ Callada(<<Sola(o)>>)
  <2>1. o \in Sueltas /\ o \notin Especiales \cup {"LIBERAR_CPU"} /\ o \notin Sensibles
    BY DEF Sueltas, Especiales, Mueven, Esperan, Levantan, Sensibles
  <2>2. PICK t : t = Sola(o) /\ t \in Tarea /\ t.op = o /\ t.pid = Nadie
    BY <2>1, SolaTarea
  <2>3. Callada(<<t>>)
    BY <2>1, <2>2, CalladaUna
  <2> QED
    BY <2>1, <2>2, <2>3
<1> QED
  BY <1>1

LEMMA CicloDeQuietas ==
    ASSUME IInvCiclo, IInvCpu', IInvOrden', IInvDespierta', NEW h \in Hilos, NEW p \in Procs,
           \/ NewTraer(h, p) \/ NewFin(h, p) \/ Bloquear(h, p) \/ Join(h, p)
           \/ TimerArranca(h, p) \/ TimerCancelado(h, p) \/ TimerVence(h, p) \/ TimerRevisa(h, p)
           \/ TimerCancela(h, p) \/ TimerTermina(h, p) \/ ReadySuspendedVer(h, p)
    PROVE  IInvCiclo'
<1> USE DEF cpuVars, guionVars, planVars, timerVars, memVars, otras, Solo
<1>1. ASSUME NEW o, o # "BLOCKED", Toca(h, o, p), NEW u, Sigue(h, u), Callada(u),
             UNCHANGED <<estado, cola, cpuPid, contexto, enIO, posible, suspendidos>>
      PROVE  IInvCiclo'
  <2>1. pila[h] # <<>> /\ Head(pila[h]).op # "BLOCKED"
    BY <1>1 DEF Toca, Por
  <2> QED
    BY <1>1, <2>1, CicloSigue
<1>2. CASE NewTraer(h, p)
  <2>1. /\ Toca(h, "NEW_TRAER", p) /\ (Sigue(h, <<Por("NEW_INIT", p)>>) \/ Sigue(h, <<Por("NEW_FIN", p)>>))
        /\ UNCHANGED <<estado, cola, cpuPid, contexto, enIO, posible, suspendidos>>
    BY <1>2 DEF NewTraer
  <2>2. \E u : Sigue(h, u) /\ Callada(u)
    BY <2>1, CalladasPor, CalladaNada
  <2> QED
    BY <1>1, <2>1, <2>2
<1>3. CASE NewFin(h, p)
  <2>1. /\ Toca(h, "NEW_FIN", p) /\ (Sigue(h, <<>>))
        /\ UNCHANGED <<estado, cola, cpuPid, contexto, enIO, posible, suspendidos>>
    BY <1>3 DEF NewFin
  <2>2. \E u : Sigue(h, u) /\ Callada(u)
    BY <2>1, CalladasPor, CalladaNada
  <2> QED
    BY <1>1, <2>1, <2>2
<1>4. CASE TimerArranca(h, p)
  <2>1. /\ Toca(h, "TIMER", p) /\ (Sigue(h, <<Por("DORMIR", p)>>))
        /\ UNCHANGED <<estado, cola, cpuPid, contexto, enIO, posible, suspendidos>>
    BY <1>4 DEF TimerArranca
  <2>2. \E u : Sigue(h, u) /\ Callada(u)
    BY <2>1, CalladasPor, CalladaNada
  <2> QED
    BY <1>1, <2>1, <2>2
<1>5. CASE TimerCancelado(h, p)
  <2>1. /\ Toca(h, "DORMIR", p) /\ (Sigue(h, <<>>))
        /\ UNCHANGED <<estado, cola, cpuPid, contexto, enIO, posible, suspendidos>>
    BY <1>5 DEF TimerCancelado
  <2>2. \E u : Sigue(h, u) /\ Callada(u)
    BY <2>1, CalladasPor, CalladaNada
  <2> QED
    BY <1>1, <2>1, <2>2
<1>6. CASE TimerVence(h, p)
  <2>1. /\ Toca(h, "DORMIR", p) /\ (Sigue(h, <<Por("REVISAR", p)>>) \/ Sigue(h, <<Por("FIN_TIMER", p)>>))
        /\ UNCHANGED <<estado, cola, cpuPid, contexto, enIO, posible, suspendidos>>
    BY <1>6 DEF TimerVence
  <2>2. \E u : Sigue(h, u) /\ Callada(u)
    BY <2>1, CalladasPor, CalladaNada
  <2> QED
    BY <1>1, <2>1, <2>2
<1>7. CASE TimerTermina(h, p)
  <2>1. /\ Toca(h, "FIN_TIMER", p) /\ (Sigue(h, <<>>))
        /\ UNCHANGED <<estado, cola, cpuPid, contexto, enIO, posible, suspendidos>>
    BY <1>7 DEF TimerTermina
  <2>2. \E u : Sigue(h, u) /\ Callada(u)
    BY <2>1, CalladasPor, CalladaNada
  <2> QED
    BY <1>1, <2>1, <2>2
<1>8. CASE TimerCancela(h, p)
  <2>1. /\ Toca(h, "CANCELAR", p) /\ (Sigue(h, <<Por("JOIN", p)>>) \/ Sigue(h, <<>>))
        /\ UNCHANGED <<estado, cola, cpuPid, contexto, enIO, posible, suspendidos>>
    BY <1>8 DEF TimerCancela
  <2>2. \E u : Sigue(h, u) /\ Callada(u)
    BY <2>1, CalladasPor, CalladaNada
  <2> QED
    BY <1>1, <2>1, <2>2
<1>9. CASE Join(h, p)
  <2>1. /\ Toca(h, "JOIN", p) /\ (Sigue(h, <<>>))
        /\ UNCHANGED <<estado, cola, cpuPid, contexto, enIO, posible, suspendidos>>
    BY <1>9 DEF Join
  <2>2. \E u : Sigue(h, u) /\ Callada(u)
    BY <2>1, CalladasPor, CalladaNada
  <2> QED
    BY <1>1, <2>1, <2>2
<1>10. CASE Bloquear(h, p)
  <2>1. /\ Toca(h, "BLOQUEAR", p)
        /\ Sigue(h, <<Por("JOIN", p), Por("CREAR_TIMER", p)>>) \/ Sigue(h, <<Por("CREAR_TIMER", p)>>)
        /\ UNCHANGED <<estado, cola, cpuPid, contexto, enIO, posible, suspendidos>>
    BY <1>10 DEF Bloquear
  <2>2. Callada(<<Por("JOIN", p), Por("CREAR_TIMER", p)>>)
    BY CalladasPor, CalladaDos
  <2>3. \E u : Sigue(h, u) /\ Callada(u)
    BY <2>1, <2>2, CalladasPor
  <2> QED
    BY <1>1, <2>1, <2>3
<1>11. CASE TimerRevisa(h, p)
  <2>1. /\ Toca(h, "REVISAR", p)
        /\ Sigue(h, <<Por("SUSPENDER", p), Por("FIN_TIMER", p)>>) \/ Sigue(h, <<Por("FIN_TIMER", p)>>)
        /\ UNCHANGED <<estado, cola, cpuPid, contexto, enIO, posible, suspendidos>>
    BY <1>11 DEF TimerRevisa
  <2>2. Callada(<<Por("SUSPENDER", p), Por("FIN_TIMER", p)>>)
    BY CalladasPor, CalladaDos
  <2>3. \E u : Sigue(h, u) /\ Callada(u)
    BY <2>1, <2>2, CalladasPor
  <2> QED
    BY <1>1, <2>1, <2>3
<1>12. CASE ReadySuspendedVer(h, p)
  <2>1. /\ Toca(h, "RS_VER", p)
        /\ Sigue(h, <<Sola("TRAER")>>) \/ Sigue(h, <<>>)
        /\ UNCHANGED <<estado, cola, cpuPid, contexto, enIO, posible, suspendidos>>
    BY <1>12 DEF ReadySuspendedVer, TraerSiEsUnico
  <2>2. "TRAER" \in Sueltas \ {"LIBERAR_CPU"}
    BY DEF Sueltas
  <2>3. \E u : Sigue(h, u) /\ Callada(u)
    BY <2>1, <2>2, CalladasSolas, CalladaNada
  <2> QED
    BY <1>1, <2>1, <2>3
<1> QED
  BY <1>2, <1>3, <1>4, <1>5, <1>6, <1>7, <1>8, <1>9, <1>10, <1>11, <1>12

(* Memoria is asked to admit a process from NEW that is on its way to READY *)
(* already, or further on.                                                  *)
AdmiteDosVeces ==
    \E h \in Hilos, p \in Procs :
        /\ NewInit(h, p) \/ (TraerNew(h) /\ cola["NEW"] # <<>> /\ p = Elegido("NEW"))
        /\ Entra(p)
        /\ estado[p] # "NEW" \/ Con("READY", p)

LEMMA CicloDeNewInit ==
    ASSUME IInvCiclo, IInvCpu', IInvOrden', IInvDespierta', NEW h \in Hilos, NEW p \in Procs,
           NewInit(h, p), ~AdmiteDosVeces
    PROVE  IInvCiclo'
<1>1. /\ Toca(h, "NEW_INIT", p)
      /\ UNCHANGED <<estado, cola, cpuPid, contexto, enIO, posible>>
  BY DEF NewInit, planVars, cpuVars, guionVars, timerVars
<1>2. /\ pila[h] # <<>> /\ Head(pila[h]).pid \in {p, Nadie} /\ Head(pila[h]).op = "NEW_INIT"
      /\ "NEW_INIT" \notin Especiales
  BY <1>1 DEF Toca, Por, Especiales, Mueven, Esperan, Levantan
<1>3. CASE Entra(p)
  <2>1. estado[p] = "NEW" /\ ~Con("READY", p)
    BY <1>3 DEF AdmiteDosVeces
  <2>2. ~Fuera(p)
    BY <2>1 DEF IInvCiclo, EnRumbo, Apartado
  <2>3. PICK v : v = Por("NEW_FIN", p) /\ v \in Tarea /\ v.pid = p /\ v.op = "NEW_FIN"
    <3>1. "NEW_FIN" \in Ops
      BY DEF Ops
    <3> QED
      BY <3>1, PorTarea
  <2>4. v.op \notin Sensibles \cup Especiales
    BY <2>3 DEF Sensibles, Especiales, Mueven, Esperan, Levantan
  <2>5. Sigue(h, <<Por("READY", p), v>>) /\ suspendidos' = suspendidos
    BY <1>3, <2>3 DEF NewInit, MemInit
  <2> QED
    BY <1>1, <1>2, <2>1, <2>2, <2>3, <2>4, <2>5, Admitido DEF Fuera
<1>4. CASE ~Entra(p)
  <2>1. PICK u : u = <<Por("NEW_FIN", p)>> /\ Callada(u)
    BY CalladasPor
  <2>2. Sigue(h, u) /\ suspendidos' = suspendidos
    BY <1>4, <2>1 DEF NewInit, memVars
  <2> QED
    BY <1>1, <1>2, <2>1, <2>2, CicloSigue
<1> QED
  BY <1>3, <1>4

LEMMA EnColaEs ==
    ASSUME IInvCiclo, NEW c \in Colas, cola[c] # <<>>
    PROVE  Head(cola[c]) \in Procs /\ estado[Head(cola[c])] = c
<1>1. PICK s : s = cola[c] /\ s \in Seq(Procs) /\ s # <<>>
  BY PilasDelCiclo
<1>2. Head(s) \in Procs /\ Esta(Head(s), s)
  BY <1>1, Cabeza
<1> QED
  BY <1>1, <1>2 DEF IInvCiclo, EnRumbo, EnSuCola

LEMMA CicloDeTraer ==
    ASSUME IInvCiclo, IInvCpu', IInvOrden', IInvDespierta', NEW h \in Hilos,
           TraerRS(h) \/ TraerNew(h), ~AdmiteDosVeces
    PROVE  IInvCiclo'
<1>1. "READY_SUSPENDED" \in Colas /\ "NEW" \in Colas
  BY DEF Colas
<1>2. \A o \in {"TRAER_RS", "TRAER_NEW", "PEDIR_NEW"} :
          o \in Sueltas \ {"LIBERAR_CPU"} /\ o \notin Especiales \cup Sensibles
  BY DEF Sueltas, Especiales, Mueven, Esperan, Levantan, Sensibles
<1>3. /\ UNCHANGED <<estado, cola, cpuPid, contexto, enIO, posible>>
      /\ Toca(h, "TRAER_RS", Nadie) \/ Toca(h, "PEDIR_NEW", Nadie)
  BY DEF TraerRS, TraerNew, planVars, cpuVars, guionVars, timerVars
<1>4. /\ pila[h] # <<>> /\ Head(pila[h]).pid = Nadie /\ Head(pila[h]).op \notin Especiales
      /\ Head(pila[h]).op # "BLOCKED"
  BY <1>2, <1>3 DEF Toca, Por, Especiales
<1>5. CASE TraerRS(h)
  <2>1. PICK p, v : p = Elegido("READY_SUSPENDED") /\ v = Sola("TRAER_RS")
    OBVIOUS
  <2>2. CASE cola["READY_SUSPENDED"] # <<>> /\ p \in suspendidos /\ Entra(p)
    <3>1. p \in Procs /\ estado[p] = "READY_SUSPENDED"
      BY <1>1, <2>1, <2>2, EnColaEs DEF Elegido
    <3>2. EnRumbo(p)
      BY <3>1 DEF IInvCiclo
    <3>3. ~Con("READY", p) /\ ~Con("SUSPENDER_MEM", p)
      BY <2>2, <3>1, <3>2 DEF EnRumbo, Apartado, Fuera
    <3>4. Sigue(h, <<Por("READY", p), v>>) /\ suspendidos' = suspendidos \ {p}
      BY <1>5, <2>1, <2>2 DEF TraerRS, MemDesuspender
    <3>5. v \in Tarea /\ v.pid = Nadie /\ v.op = "TRAER_RS"
      BY <1>2, <2>1, CalladasSolas
    <3>6. v.op \notin Sensibles \cup Especiales
      BY <1>2, <3>5
    <3> QED
      BY <1>3, <1>4, <3>1, <3>3, <3>4, <3>5, <3>6, Admitido
  <2>3. CASE ~(cola["READY_SUSPENDED"] # <<>> /\ p \in suspendidos /\ Entra(p))
    <3>1. Sigue(h, <<Sola("TRAER_NEW")>>) /\ suspendidos' = suspendidos
      BY <1>5, <2>1, <2>3 DEF TraerRS, memVars
    <3>2. Callada(<<Sola("TRAER_NEW")>>)
      BY <1>2, CalladasSolas
    <3> QED
      BY <1>3, <1>4, <3>1, <3>2, CicloSigue
  <2> QED
    BY <2>2, <2>3
<1>6. CASE TraerNew(h)
  <2>1. PICK p, v : p = Elegido("NEW") /\ v = Sola("TRAER_NEW")
    OBVIOUS
  <2>2. CASE cola["NEW"] # <<>> /\ Entra(p)
    <3>1. p \in Procs /\ estado[p] = "NEW"
      BY <1>1, <2>1, <2>2, EnColaEs DEF Elegido
    <3>2. ~Con("READY", p)
      BY <1>6, <2>1, <2>2, <3>1 DEF AdmiteDosVeces
    <3>3. ~Fuera(p)
      BY <3>1 DEF IInvCiclo, EnRumbo, Apartado
    <3>4. Sigue(h, <<Por("READY", p), v>>) /\ suspendidos' = suspendidos
      BY <1>6, <2>1, <2>2 DEF TraerNew, MemInit
    <3>5. v \in Tarea /\ v.pid = Nadie /\ v.op = "TRAER_NEW"
      BY <1>2, <2>1, CalladasSolas
    <3>6. v.op \notin Sensibles \cup Especiales
      BY <1>2, <3>5
    <3> QED
      BY <1>3, <1>4, <3>1, <3>2, <3>3, <3>4, <3>5, <3>6, Admitido DEF Fuera
  <2>3. CASE ~(cola["NEW"] # <<>> /\ Entra(p))
    <3>1. Sigue(h, <<>>) /\ suspendidos' = suspendidos
      BY <1>6, <2>1, <2>3 DEF TraerNew, memVars
    <3> QED
      BY <1>3, <1>4, <3>1, CalladaNada, CicloSigue
  <2> QED
    BY <2>2, <2>3
<1> QED
  BY <1>5, <1>6

LEMMA CicloDeReadyCpu ==
    ASSUME SolaCpu, IInvCiclo, IInvCpu', IInvOrden', IInvDespierta', NEW h \in Hilos, NEW p \in Procs,
           ReadyCpu(h, p)
    PROVE  IInvCiclo'
<1>1. /\ Toca(h, "READY_CPU", p)
      /\ UNCHANGED <<estado, cola, contexto, enIO, posible, suspendidos>>
  BY DEF ReadyCpu, planVars, guionVars, timerVars, memVars
<1>2. pila[h] # <<>> /\ Head(pila[h]) = Por("READY_CPU", p)
  BY <1>1 DEF Toca
<1>3. Head(pila[h]).pid = p /\ Head(pila[h]).op = "READY_CPU"
  BY <1>2 DEF Por
<1>4. PICK u : /\ u = <<Por("EXECUTE", p)>> /\ Carga(u, p)
               /\ \A x, q : En(u, x, q) <=> x = "EXECUTE" /\ q = p
  <2>1. "EXECUTE" \in Ops \ Sensibles
    BY DEF Ops, Sensibles
  <2> QED
    BY <2>1, CargaUna
<1>5. CASE CpusDisponibles # {}
  <2>1. LaCpu \in CpusDisponibles /\ cpuPid[LaCpu] = Nadie
    BY <1>5 DEF CpusDisponibles, SolaCpu
  <2>2. Primera(CpusDisponibles) = LaCpu
    BY <2>1, LaPrimera
  <2>3. Sigue(h, u) /\ cpuPid' = [cpuPid EXCEPT ![LaCpu] = p]
    BY <1>4, <1>5, <2>2 DEF ReadyCpu
  <2>4. cpuPid'[LaCpu] = p
    BY <2>3, PilasDelCiclo DEF SolaCpu
  <2>5. Con("READY_CPU", p)
    BY <1>2, <1>3, PilasDelCiclo, Cabeza DEF Con, Hay
  <2>6. estado[p] = "READY"
    BY <2>1, <2>5, NadieAssumption DEF IInvCiclo, EnRumbo, Recibido
  <2> QED
    BY <1>1, <1>2, <1>3, <1>4, <2>1, <2>3, <2>4, <2>6, Despachado
<1>6. CASE CpusDisponibles = {}
  <2>1. Sigue(h, <<>>) /\ UNCHANGED cpuPid
    BY <1>6 DEF ReadyCpu
  <2> QED
    BY <1>1, <1>2, <1>3, <2>1, CalladaNada, CicloSigue
<1> QED
  BY <1>5, <1>6

LEMMA CicloDePlanificador ==
    ASSUME SolaCpu, IInvCiclo, IInvCpu', IInvOrden', IInvDespierta', NEW h \in Hilos,
           DePlanificador(h), ~AdmiteDosVeces
    PROVE  IInvCiclo'
<1> USE DEF planVars, cpuVars, guionVars, timerVars, memVars
<1>1. \A o \in {"TRAER_RS", "TRAER_NEW", "PEDIR_NEW", "MANDAR_VER", "MANDAR_TOMAR"} :
          o \in Sueltas \ {"LIBERAR_CPU"} /\ o \notin Especiales \cup Sensibles
  BY DEF Sueltas, Especiales, Mueven, Esperan, Levantan, Sensibles
<1>2. ASSUME NEW o, o # "BLOCKED", Toca(h, o, Nadie), NEW u, Sigue(h, u), Callada(u),
             UNCHANGED <<estado, cola, cpuPid, contexto, enIO, posible, suspendidos>>
      PROVE  IInvCiclo'
  <2>1. pila[h] # <<>> /\ Head(pila[h]).op # "BLOCKED"
    BY <1>2 DEF Toca, Por
  <2> QED
    BY <1>2, <2>1, CicloSigue
<1>3. CASE TraerEntra(h)
  <2>1. /\ Toca(h, "TRAER", Nadie) /\ Sigue(h, <<Sola("TRAER_RS")>>)
        /\ UNCHANGED <<estado, cola, cpuPid, contexto, enIO, posible, suspendidos>>
    BY <1>3 DEF TraerEntra
  <2>2. \E u : Sigue(h, u) /\ Callada(u)
    BY <1>1, <2>1, CalladasSolas
  <2> QED
    BY <1>2, <2>1, <2>2
<1>4. CASE TraerVerNew(h)
  <2>1. /\ Toca(h, "TRAER_NEW", Nadie) /\ (Sigue(h, <<>>) \/ Sigue(h, <<Sola("PEDIR_NEW")>>))
        /\ UNCHANGED <<estado, cola, cpuPid, contexto, enIO, posible, suspendidos>>
    BY <1>4 DEF TraerVerNew
  <2>2. \E u : Sigue(h, u) /\ Callada(u)
    BY <1>1, <2>1, CalladasSolas, CalladaNada
  <2> QED
    BY <1>2, <2>1, <2>2
<1>5. CASE MandarEntra(h)
  <2>1. /\ Toca(h, "MANDAR", Nadie) /\ Sigue(h, <<Sola("MANDAR_VER")>>)
        /\ UNCHANGED <<estado, cola, cpuPid, contexto, enIO, posible, suspendidos>>
    BY <1>5 DEF MandarEntra
  <2>2. \E u : Sigue(h, u) /\ Callada(u)
    BY <1>1, <2>1, CalladasSolas
  <2> QED
    BY <1>2, <2>1, <2>2
<1>6. CASE MandarVer(h)
  <2>1. /\ Toca(h, "MANDAR_VER", Nadie) /\ (Sigue(h, <<>>) \/ Sigue(h, <<Sola("MANDAR_TOMAR")>>))
        /\ UNCHANGED <<estado, cola, cpuPid, contexto, enIO, posible, suspendidos>>
    BY <1>6 DEF MandarVer
  <2>2. \E u : Sigue(h, u) /\ Callada(u)
    BY <1>1, <2>1, CalladasSolas, CalladaNada
  <2> QED
    BY <1>2, <2>1, <2>2
<1>7. CASE MandarTomar(h)
  <2>1. /\ Toca(h, "MANDAR_TOMAR", Nadie)
        /\ UNCHANGED <<estado, cola, contexto, enIO, posible, suspendidos>>
    BY <1>7 DEF MandarTomar
  <2>2. CASE CpusDisponibles # {} /\ cola["READY"] # <<>>
    <3>1. PICK p : p = Head(cola["READY"])
      OBVIOUS
    <3>2. p \in Procs /\ estado[p] = "READY"
      BY <2>2, <3>1, EnColaEs DEF Colas
    <3>3. LaCpu \in CpusDisponibles /\ cpuPid[LaCpu] = Nadie
      BY <2>2 DEF CpusDisponibles, SolaCpu
    <3>4. Primera(CpusDisponibles) = LaCpu
      BY <3>3, LaPrimera
    <3>5. PICK t, v : /\ t = Por("EXECUTE", p) /\ t \in Tarea /\ t.op = "EXECUTE" /\ t.pid = p
                      /\ v = Sola("MANDAR_VER") /\ v \in Tarea /\ v.op = "MANDAR_VER" /\ v.pid = Nadie
      <4>1. "EXECUTE" \in Ops
        BY DEF Ops
      <4>2. PICK t : t = Por("EXECUTE", p) /\ t \in Tarea /\ t.op = "EXECUTE" /\ t.pid = p
        BY <3>2, <4>1, PorTarea
      <4>3. PICK v : v = Sola("MANDAR_VER") /\ v \in Tarea /\ v.op = "MANDAR_VER" /\ v.pid = Nadie
        BY <1>1, CalladasSolas
      <4> QED
        BY <4>2, <4>3
    <3>6. Carga(<<t, v>>, p)
      <4>1. v.op \notin Sensibles /\ t.op \notin Sensibles /\ v.op \notin Mueven
        BY <1>1, <3>5 DEF Especiales, Sensibles
      <4> QED
        BY <3>2, <3>5, <4>1, CargaDos
    <3>7. \A x, q : En(<<t, v>>, x, q) <=> (t.op = x /\ t.pid = q) \/ (v.op = x /\ v.pid = q)
      BY EnPocas
    <3>8. PICK u : u = <<t, v>>
      OBVIOUS
    <3>9. /\ Sigue(h, u) /\ Carga(u, p) /\ cpuPid' = [cpuPid EXCEPT ![LaCpu] = p]
      BY <1>7, <2>2, <3>1, <3>4, <3>5, <3>6, <3>8 DEF MandarTomar
    <3>10. cpuPid'[LaCpu] = p
      BY <3>9, PilasDelCiclo DEF SolaCpu
    <3>11. ~En(u, "READY_CPU", p) /\ \A x \in Mueven : En(u, x, p) => x = "EXECUTE"
      BY <1>1, <3>5, <3>7, <3>8 DEF Especiales
    <3>12. /\ pila[h] # <<>> /\ Head(pila[h]).pid \in {p, Nadie}
           /\ Head(pila[h]).op \notin {"SUSPENDER_MEM", "BLOCKED"}
      BY <2>1 DEF Toca, Por
    <3> QED
      BY <2>1, <3>2, <3>3, <3>9, <3>10, <3>11, <3>12, Despachado
  <2>3. CASE ~(CpusDisponibles # {} /\ cola["READY"] # <<>>)
    <3>1. Sigue(h, <<>>) /\ UNCHANGED cpuPid
      BY <1>7, <2>3 DEF MandarTomar
    <3> QED
      BY <1>2, <2>1, <3>1, CalladaNada
  <2> QED
    BY <2>2, <2>3
<1> QED
  BY <1>3, <1>4, <1>5, <1>6, <1>7, CicloDeTraer DEF DePlanificador

LEMMA CicloDeNew ==
    ASSUME IInvCiclo, IInvCpu', IInvOrden', IInvDespierta', NEW h \in Hilos, NEW p \in Procs, New(h, p)
    PROVE  IInvCiclo' /\ estado[p] = "CREADO"
<1>1. PICK u : u = <<Por("NEW_TRAER", p)>> /\ Callada(u)
  BY CalladasPor
<1>2. PICK v : /\ v = <<Por("NEW_TRAER", p)>> /\ Carga(v, p)
               /\ \A x, q : En(v, x, q) <=> x = "NEW_TRAER" /\ q = p
  <2>1. "NEW_TRAER" \in Ops \ Sensibles
    BY DEF Ops, Sensibles
  <2> QED
    BY <2>1, CargaUna
<1>3. /\ Toca(h, "NEW", p) /\ Sigue(h, u) /\ CambiarEstado(p, "NEW") /\ v = u
      /\ UNCHANGED <<cpuPid, contexto, enIO, posible, suspendidos>>
  BY <1>1, <1>2 DEF New, cpuVars, guionVars, timerVars, memVars
<1>4. pila[h] # <<>> /\ Head(pila[h]).op = "NEW" /\ Head(pila[h]).pid = p
  BY <1>3 DEF Toca, Por
<1>5. estado[p] = "CREADO"
  <2>1. Esta(Head(pila[h]), pila[h])
    BY <1>4, PilasDelCiclo, Cabeza
  <2> QED
    BY <1>4, <2>1 DEF IInvCiclo, IInvOrden, SoloNacidos
<1>6. /\ Suelto(p) /\ ~Con("BLOCKED", p) /\ ~Con("READY_CPU", p) /\ p \notin enIO
      /\ contexto[LaCpu] # <<>> => PidDe(LaCpu) # p
  BY <1>5, EsperaQuieto DEF NoNatos
<1>7. EnRumbo(p)
  BY DEF IInvCiclo
<1>8. ~Fuera(p)
  BY <1>5, <1>7 DEF EnRumbo, Apartado
<1>9. /\ \A x \in Mueven : ~Con(x, p)'
      /\ ~Con("READY_CPU", p)' /\ ~Con("SUSPENDER_MEM", p)' /\ ~Con("BLOCKED", p)'
      /\ UnaSola(Mano(p))' /\ UnaSola(AMem(p))'
  <2>1. \A x \in Mueven \cup {"READY_CPU"} : ~En(v, x, p)
    BY <1>2 DEF Mueven, Esperan, Levantan
  <2> QED
    BY <1>2, <1>3, <1>4, <1>6, <1>8, <2>1, TraeMano DEF Fuera
<1>10. NadieDosVeces' /\ EnSuCola(p)' /\ estado'[p] = "NEW"
  <2>1. estado[p] # "NEW" /\ "NEW" \in Estados
    BY <1>5 DEF Estados
  <2> QED
    BY <1>3, <2>1, CambiarRumbo
<1>11. PidDe(LaCpu)' = PidDe(LaCpu)
  BY <1>3 DEF PidDe, Corre
<1>12. Recibido(p)' /\ EnLaCpu(p)' /\ EnDispositivo(p)' /\ Apartado(p)'
  BY <1>3, <1>6, <1>8, <1>9, <1>11 DEF Recibido, EnLaCpu, EnDispositivo, Apartado, Fuera
<1>13. EnRumbo(p)'
  BY <1>9, <1>10, <1>12 DEF EnRumbo
<1>14. u \in Seq(Tarea) /\ \A x : Esta(x, u) => x.op # "LIBERAR_CPU" /\ x.pid \in {p, Nadie}
  BY <1>2, <1>3 DEF Carga, Sensibles
<1>15. Libera' => Libera
  BY <1>3, <1>4, <1>14, PilasDelCiclo, SinLiberar
<1>16. ASSUME NEW q \in Procs \ {p} PROVE Aparte(q) /\ CpuIgual(q)
  <2>1. "NEW" \in Estados
    BY DEF Estados
  <2>2. Aparte(q)
    BY <1>3, <2>1, CambiarAparte
  <2> QED
    BY <1>3, <1>15, <2>2, CpuIgualSigue
<1>17. IInvCiclo'
  BY <1>3, <1>4, <1>10, <1>13, <1>14, <1>16, CicloDePaso
<1> QED
  BY <1>5, <1>17

LEMMA CicloDeBlocked ==
    ASSUME IInvCiclo, IInvCpu', IInvOrden', IInvDespierta', NEW h \in Hilos, NEW p \in Procs, Blocked(h, p)
    PROVE  IInvCiclo' /\ estado[p] = "EXECUTE"
<1>1. PICK u : u = <<Por("BLOQUEAR", p)>> /\ Callada(u)
  BY CalladasPor
<1>2. /\ Toca(h, "BLOCKED", p) /\ Sigue(h, u) /\ CambiarEstado(p, "BLOCKED")
      /\ posible' = [posible EXCEPT ![p] = TRUE]
      /\ UNCHANGED <<cpuPid, contexto, enIO, suspendidos>>
  BY <1>1 DEF Blocked, cpuVars, guionVars, memVars
<1>3. pila[h] # <<>> /\ Head(pila[h]).op = "BLOCKED" /\ Head(pila[h]).pid = p /\ Head(pila[h]) \in Tarea
      /\ Esta(Head(pila[h]), pila[h]) /\ pila[h] \in Seq(Tarea)
  BY <1>2, PilasDelCiclo, Cabeza DEF Toca, Por
<1>4. EnRumbo(p) /\ Con("BLOCKED", p) /\ estado[p] = "EXECUTE"
  BY <1>3 DEF IInvCiclo, EnRumbo, Con, Hay
<1>5. PICK v \in Mano(p) : v.op \in Salidas /\ Esta(v, pila[h])
  BY <1>3, BloqueadoEn
<1>6. \A o \in Mueven : Con(o, p) => o \in Salidas
  <2>1. ASSUME NEW o \in Mueven, Con(o, p) PROVE o \in Salidas
    <3>1. PICK t, k : k \in Hilos /\ Esta(t, pila[k]) /\ t.op = o /\ t.pid = p
      BY <2>1 DEF Con, Hay
    <3>2. t \in Mano(p)
      <4>1. pila[k] \in Seq(Tarea)
        BY <3>1, PilasDelCiclo
      <4>2. t \in Tarea
        BY <3>1, <4>1, ElementoDe
      <4> QED
        BY <2>1, <3>1, <4>2 DEF Mano
    <3>3. UnaSola(Mano(p))
      BY <1>4 DEF EnRumbo
    <3>4. t = v
      BY <1>5, <3>1, <3>2, <3>3, MismaMano
    <3> QED
      BY <1>5, <3>1, <3>4
  <2> QED
    BY <2>1
<1>7. /\ u \in Seq(Tarea) /\ \A t : Esta(t, u) => t.op # "LIBERAR_CPU"
      /\ \A t : Esta(t, u) => t.op \notin Especiales
  BY <1>1 DEF Callada
<1>8. Ninguna(u, Mano(p)) /\ Ninguna(u, AMem(p)) /\ \A o \in Especiales : ~En(u, o, p)
  BY <1>7 DEF Ninguna, Mano, AMem, En, Especiales
<1>9. Unica(u, Mano(p)) /\ Unica(u, AMem(p))
  BY <1>8, UnicaEnNinguna
<1>10. UnaSola(Mano(p))' /\ UnaSola(AMem(p))'
  BY <1>2, <1>3, <1>4, <1>7, <1>8, <1>9, PilasDelCiclo, UnaTras DEF EnRumbo
<1>11. \A o \in Especiales : Con(o, p)' => Con(o, p)
  BY <1>2, <1>3, <1>7, <1>8, PilasDelCiclo, ConTras
<1>12. ~Con("BLOCKED", p)'
  <2>1. SUFFICES ASSUME Con("BLOCKED", p)' PROVE FALSE
    OBVIOUS
  <2>2. PICK t, k : k \in Hilos /\ Esta(t, pila'[k]) /\ t.op = "BLOCKED" /\ t.pid = p
    BY <2>1 DEF Con, Hay
  <2>3. CASE k = h
    <3>1. pila'[h] = u \o Tail(pila[h])
      BY <1>2, PilasDelCiclo DEF Sigue
    <3>2. \A x : Esta(x, u \o Tail(pila[h])) <=> Esta(x, u) \/ Esta(x, Tail(pila[h]))
      BY <1>3, <1>7, TrasLaPrimera
    <3>3. Esta(t, Tail(pila[h]))
      BY <1>7, <2>2, <2>3, <3>1, <3>2 DEF Especiales
    <3> QED
      BY <1>3, <2>2, <3>3 DEF IInvCiclo, IInvDespierta, Bloqueantes
  <2>4. CASE k # h
    <3>1. pila'[k] = pila[k]
      BY <1>2, <2>2, <2>4, PilasDelCiclo DEF Sigue
    <3>2. PICK w \in Mano(p) : Esta(w, pila[k])
      BY <2>2, <3>1, BloqueadoEn
    <3>3. UnaSola(Mano(p))
      BY <1>4 DEF EnRumbo
    <3> QED
      BY <1>5, <2>2, <2>4, <3>2, <3>3, MismaMano
  <2> QED
    BY <2>3, <2>4
<1>13. /\ NadieDosVeces' /\ EnSuCola(p)' /\ estado'[p] = "BLOCKED"
  <2>1. estado[p] # "BLOCKED" /\ "BLOCKED" \in Estados
    BY <1>4 DEF Estados
  <2> QED
    BY <1>2, <2>1, CambiarRumbo
<1>14. \A o \in Mueven : Con(o, p)' => Motivo(o, p)'
  <2>1. ASSUME NEW o \in Mueven, Con(o, p)' PROVE Motivo(o, p)'
    <3>1. Con(o, p) /\ Motivo(o, p) /\ o \in Salidas
      BY <1>4, <1>6, <1>11, <2>1 DEF Especiales, EnRumbo
    <3>2. o = "EXIT" \/ o \in Esperan
      BY <1>4, <3>1 DEF Motivo, Salidas, Despiertan, Mueven, Esperan, Levantan, Dormidos
    <3> QED
      BY <1>13, <3>2 DEF Motivo, Esperan, Levantan, Dormidos
  <2> QED
    BY <2>1
<1>15. ~Con("READY_CPU", p)'
  <2>1. ~Con("READY_CPU", p)
    BY <1>4 DEF EnRumbo, Recibido
  <2> QED
    BY <1>11, <2>1 DEF Especiales
<1>16. EnLaCpu(p)' /\ EnDispositivo(p)'
  <2>1. ~Suelto(p)
    BY <1>3, <1>5 DEF Suelto, Con, Hay, Mano
  <2>2. PidDe(LaCpu)' = PidDe(LaCpu)
    BY <1>2 DEF PidDe, Corre
  <2> QED
    BY <1>2, <1>4, <2>1, <2>2 DEF EnRumbo, EnLaCpu, EnDispositivo, Dormidos
<1>17. Apartado(p)'
  <2>1. ~Fuera(p)
    BY <1>4 DEF EnRumbo, Apartado
  <2> QED
    BY <1>2, <1>11, <2>1 DEF Apartado, Fuera, Especiales
<1>18. EnRumbo(p)'
  BY <1>10, <1>12, <1>13, <1>14, <1>15, <1>16, <1>17 DEF EnRumbo, Recibido
<1>19. Libera' => Libera
  BY <1>2, <1>3, <1>7, PilasDelCiclo, SinLiberar
<1>20. ASSUME NEW q \in Procs \ {p} PROVE Aparte(q) /\ CpuIgual(q)
  <2>1. "BLOCKED" \in Estados /\ posible'[q] = posible[q]
    BY <1>2, PilasDelCiclo DEF Estados, IInvTipos, TypeOK
  <2>2. Aparte(q)
    BY <1>2, <2>1, CambiarAparte
  <2> QED
    BY <1>2, <1>19, <2>2, CpuIgualSigue
<1>21. \A t : Esta(t, u) => t.pid \in {p, Nadie}
  BY <1>1, EstaEnUna DEF Por
<1>22. IInvCiclo'
  BY <1>2, <1>3, <1>7, <1>13, <1>18, <1>20, <1>21, CicloDePaso
<1> QED
  BY <1>4, <1>22

LEMMA CicloDeSuspender ==
    ASSUME IInvCiclo, IInvCpu', IInvOrden', IInvDespierta', NEW h \in Hilos, NEW p \in Procs, Suspender(h, p)
    PROVE  IInvCiclo'
<1>1. /\ Toca(h, "SUSPENDER", p)
      /\ UNCHANGED <<cpuPid, contexto, enIO, posible, suspendidos>>
  BY DEF Suspender, cpuVars, guionVars, timerVars, memVars
<1>2. pila[h] # <<>> /\ Head(pila[h]).op = "SUSPENDER" /\ Head(pila[h]).pid = p
  BY <1>1 DEF Toca, Por
<1>3. CASE ~Suspendible(p)
  <2>1. PICK u : u = <<Por("CANCELAR", p)>> /\ Callada(u)
    BY CalladasPor
  <2>2. Sigue(h, u) /\ UNCHANGED <<estado, cola>>
    BY <1>3, <2>1 DEF Suspender, planVars
  <2> QED
    BY <1>1, <1>2, <2>1, <2>2, CicloSigue
<1>4. CASE Suspendible(p)
  <2>1. PICK t : t = Por("SUSPENDER_MEM", p) /\ t \in Tarea /\ t.op = "SUSPENDER_MEM" /\ t.pid = p
    <3>1. "SUSPENDER_MEM" \in Ops
      BY DEF Ops
    <3> QED
      BY <3>1, PorTarea
  <2>2. PICK u : u = <<t>>
    OBVIOUS
  <2>3. u \in Seq(Tarea) /\ \A x : Esta(x, u) <=> x = t
    BY <2>1, <2>2, EstaEnUna
  <2>4. Sigue(h, u) /\ CambiarEstado(p, "BLOCKED_SUSPENDED") /\ estado[p] = "BLOCKED" /\ posible[p]
    BY <1>4, <2>1, <2>2 DEF Suspender, Suspendible
  <2>5. EnRumbo(p) /\ ~Fuera(p) /\ ~Con("BLOCKED", p) /\ ~Con("READY_CPU", p)
    BY <2>4 DEF IInvCiclo, EnRumbo, Apartado, Recibido
  <2>6. Ninguna(u, Mano(p)) /\ Unica(u, Mano(p)) /\ Unica(u, AMem(p))
    <3>1. Ninguna(u, Mano(p))
      BY <2>1, <2>3 DEF Ninguna, Mano, Mueven, Esperan, Levantan
    <3>2. Unica(u, AMem(p))
      BY <2>2, UnicaEnDos
    <3> QED
      BY <3>1, <3>2, UnicaEnNinguna
  <2>7. UnaSola(Mano(p))'
    BY <1>2, <2>3, <2>4, <2>5, <2>6, PilasDelCiclo, UnaTras DEF EnRumbo
  <2>8. UnaSola(AMem(p))'
    <3>1. \A k \in Hilos : Ninguna(pila[k], AMem(p))
      BY <2>5 DEF Ninguna, AMem, Fuera, Con, Hay
    <3> QED
      BY <1>2, <2>3, <2>4, <2>5, <2>6, <3>1, PilasDelCiclo, UnaTras DEF EnRumbo
  <2>9. \A o \in Especiales \ {"SUSPENDER_MEM"} : Con(o, p)' => Con(o, p)
    <3>1. \A o \in Especiales \ {"SUSPENDER_MEM"} : ~En(u, o, p)
      BY <2>1, <2>3 DEF En
    <3> QED
      BY <1>2, <2>3, <2>4, <3>1, PilasDelCiclo, ConTras
  <2>10. NadieDosVeces' /\ EnSuCola(p)' /\ estado'[p] = "BLOCKED_SUSPENDED"
    <3>1. estado[p] # "BLOCKED_SUSPENDED" /\ "BLOCKED_SUSPENDED" \in Estados
      BY <2>4 DEF Estados
    <3> QED
      BY <2>4, <3>1, CambiarRumbo
  <2>11. \A o \in Mueven : Con(o, p)' => Motivo(o, p)'
    <3>1. ASSUME NEW o \in Mueven, Con(o, p)' PROVE Motivo(o, p)'
      <4>1. o \in Especiales \ {"SUSPENDER_MEM"}
        BY DEF Especiales, Mueven, Esperan, Levantan
      <4>2. Motivo(o, p)
        BY <2>5, <2>9, <3>1, <4>1 DEF EnRumbo
      <4>3. o = "EXIT" \/ o \in Esperan \/ (o \in Levantan /\ o # "DUMP_FIN")
        BY <2>4, <4>2 DEF Motivo, Mueven
      <4> QED
        BY <2>10, <4>3 DEF Motivo, Esperan, Levantan, Dormidos
    <3> QED
      BY <3>1
  <2>12. ~Con("BLOCKED", p)' /\ ~Con("READY_CPU", p)' /\ ~Con("READY", p)'
    <3>1. ~Con("READY", p)
      BY <2>4, <2>5 DEF EnRumbo, Motivo, Mueven
    <3> QED
      BY <2>5, <2>9, <3>1 DEF Especiales, Mueven
  <2>13. EnLaCpu(p)' /\ EnDispositivo(p)'
    <3>1. PidDe(LaCpu)' = PidDe(LaCpu)
      BY <1>1 DEF PidDe, Corre
    <3>2. Suelto(p) => Suelto(p)'
      BY <2>9 DEF Suelto, Especiales, Mueven, Esperan, Levantan
    <3> QED
      BY <1>1, <2>4, <2>5, <2>10, <3>1, <3>2 DEF EnRumbo, EnLaCpu, EnDispositivo, Dormidos
  <2>14. Apartado(p)'
    BY <1>1, <2>5, <2>10 DEF Apartado, Fuera
  <2>15. EnRumbo(p)'
    BY <2>7, <2>8, <2>10, <2>11, <2>12, <2>13, <2>14 DEF EnRumbo, Recibido
  <2>16. \A x : Esta(x, u) => x.op # "LIBERAR_CPU" /\ x.pid \in {p, Nadie}
    BY <2>1, <2>3
  <2>17. Libera' => Libera
    BY <1>2, <2>3, <2>4, <2>16, PilasDelCiclo, SinLiberar
  <2>18. ASSUME NEW q \in Procs \ {p} PROVE Aparte(q) /\ CpuIgual(q)
    <3>1. "BLOCKED_SUSPENDED" \in Estados
      BY DEF Estados
    <3>2. Aparte(q)
      BY <1>1, <2>4, <3>1, CambiarAparte
    <3> QED
      BY <1>1, <2>17, <3>2, CpuIgualSigue
  <2> QED
    BY <1>2, <2>3, <2>4, <2>10, <2>15, <2>16, <2>18, CicloDePaso
<1> QED
  BY <1>3, <1>4

LEMMA CicloDeSuspenderMem ==
    ASSUME IInvCiclo, IInvCpu', IInvOrden', IInvDespierta', NEW h \in Hilos, NEW p \in Procs,
           SuspenderMem(h, p)
    PROVE  IInvCiclo'
<1>1. PICK u : u = <<Sola("TRAER"), Por("CANCELAR", p)>> /\ Callada(u) /\ \A x : Esta(x, u) => x.pid \in {p, Nadie}
  <2>1. PICK t : t = Sola("TRAER") /\ t \in Tarea /\ t.pid = Nadie /\ t.op \notin Especiales \cup {"LIBERAR_CPU"}
    <3>1. "TRAER" \in Sueltas \ {"LIBERAR_CPU"} /\ "TRAER" # "LIBERAR_CPU"
      BY DEF Sueltas
    <3> QED
      BY <3>1, CalladasSolas
  <2>2. PICK v : v = Por("CANCELAR", p) /\ v \in Tarea /\ v.op \notin Especiales \cup {"LIBERAR_CPU"}
    BY CalladasPor
  <2>3. v.pid = p
    BY <2>2 DEF Por
  <2>4. PICK u : u = <<t, v>>
    OBVIOUS
  <2>5. Callada(u) /\ \A x : Esta(x, u) <=> x = t \/ x = v
    BY <2>1, <2>2, <2>4, CalladaDos, EstaEnDos
  <2> QED
    BY <2>1, <2>2, <2>3, <2>4, <2>5
<1>2. /\ Toca(h, "SUSPENDER_MEM", p) /\ Sigue(h, u) /\ suspendidos' = suspendidos \cup {p}
      /\ UNCHANGED <<cpuPid, contexto, enIO, posible, estado, cola>>
  BY <1>1 DEF SuspenderMem, MemSuspender, planVars, cpuVars, guionVars, timerVars
<1>3. pila[h] # <<>> /\ Head(pila[h]).op = "SUSPENDER_MEM" /\ Head(pila[h]).pid = p /\ Head(pila[h]) \in AMem(p)
  <2>1. Head(pila[h]) = Por("SUSPENDER_MEM", p) /\ "SUSPENDER_MEM" \in Ops /\ pila[h] # <<>>
    BY <1>2 DEF Toca, Ops
  <2> QED
    BY <2>1, PorTarea DEF AMem
<1>4. EnRumbo(p) /\ pila \in [Hilos -> Seq(Tarea)] /\ u \in Seq(Tarea)
      /\ \A t : Esta(t, u) => t.op \notin Especiales /\ t.op # "LIBERAR_CPU"
  BY <1>1, PilasDelCiclo DEF IInvCiclo, Callada
<1>5. Ninguna(u, Mano(p)) /\ Ninguna(u, AMem(p)) /\ \A o \in Especiales : ~En(u, o, p)
  BY <1>4 DEF Ninguna, Mano, AMem, En, Especiales
<1>6. Unica(u, Mano(p)) /\ Unica(u, AMem(p))
  BY <1>5, UnicaEnNinguna
<1>7. UnaSola(Mano(p))' /\ UnaSola(AMem(p))' /\ \A t \in AMem(p) : Hay(t)' => Esta(t, u)
  BY <1>2, <1>3, <1>4, <1>5, <1>6, UnaTras DEF EnRumbo
<1>8. /\ \A o \in Especiales : Con(o, p)' => Con(o, p)
      /\ Con("BLOCKED", p) => Con("BLOCKED", p)'
      /\ Con("SUSPENDER_MEM", p)
  BY <1>2, <1>3, <1>4, <1>5, ConTras
<1>9. ~Con("SUSPENDER_MEM", p)'
  <2>1. pila' \in [Hilos -> Seq(Tarea)]
    <3>1. u \o Tail(pila[h]) \in Seq(Tarea)
      BY <1>3, <1>4, TrasLaPrimera
    <3> QED
      BY <1>2, <1>4, <3>1 DEF Sigue
  <2>2. \A t : Hay(t)' => t \in Tarea
    BY <2>1, ElementoDe DEF Hay
  <2> QED
    BY <1>4, <1>7, <2>2 DEF Con, AMem, Especiales
<1>10. Apartado(p)'
  BY <1>2, <1>8, <1>9 DEF EnRumbo, Apartado, Fuera, Especiales, Mueven, IInvCiclo
<1>11. Libera' => Libera
  BY <1>2, <1>3, <1>4, PilasDelCiclo, SinLiberar
<1>12. EnRumbo(p)'
  <2>1. CpuIgual(p)
    BY <1>2, <1>11, CpuIgualSigue
  <2> QED
    BY <1>2, <1>4, <1>7, <1>8, <1>10, <2>1, RumboCasi
<1>13. ASSUME NEW q \in Procs \ {p} PROVE Aparte(q) /\ CpuIgual(q)
  BY <1>2, <1>11, CpuIgualSigue DEF Aparte
<1>14. NadieDosVeces'
  BY <1>2 DEF IInvCiclo, NadieDosVeces
<1> QED
  BY <1>1, <1>2, <1>3, <1>4, <1>12, <1>13, <1>14, CicloDePaso

(* Some threads lose tasks, or are about to start as timers.                *)
LEMMA CicloPierde ==
    ASSUME IInvCiclo, IInvCpu', IInvOrden', IInvDespierta',
           UNCHANGED <<estado, cola, cpuPid, contexto, enIO, posible, suspendidos>>,
           \A k \in Hilos :
              \/ pila'[k] = pila[k]
              \/ k \notin Fijos /\ \A t : Esta(t, pila'[k]) => t.op \notin Especiales \cup {"LIBERAR_CPU"}
              \/ pila[k] # <<>> /\ Head(pila[k]).op # "BLOCKED" /\ pila'[k] = Tail(pila[k])
    PROVE  IInvCiclo'
<1>1. ASSUME NEW k \in Hilos
      PROVE  /\ \A t : /\ Esta(t, pila'[k]) => Esta(t, pila[k]) \/ t.op \notin Especiales \cup {"LIBERAR_CPU"}
                       /\ t.op = "BLOCKED" /\ t.pid \in Procs /\ Esta(t, pila[k]) => Esta(t, pila'[k])
             /\ \A q, T : T \in {Mano(q), AMem(q)} /\ Unica(pila[k], T) =>
                   Unica(pila'[k], T) /\ (Ninguna(pila[k], T) => Ninguna(pila'[k], T))
  <2>1. \A q, T, t : T \in {Mano(q), AMem(q)} /\ t \in T => t.op \in Especiales
    BY DEF Mano, AMem, Especiales
  <2>2. CASE pila'[k] = pila[k]
    BY <2>2
  <2>3. CASE k \notin Fijos /\ \A t : Esta(t, pila'[k]) => t.op \notin Especiales \cup {"LIBERAR_CPU"}
    <3>1. \A q, T : T \in {Mano(q), AMem(q)} => Ninguna(pila'[k], T)
      BY <2>1, <2>3 DEF Ninguna
    <3>2. \A t : t.op = "BLOCKED" /\ t.pid \in Procs => ~Esta(t, pila[k])
      BY <2>3, BloqueadoEn
    <3> QED
      BY <2>3, <3>1, <3>2, UnicaEnNinguna
  <2>4. CASE pila[k] # <<>> /\ Head(pila[k]).op # "BLOCKED" /\ pila'[k] = Tail(pila[k])
    <3>1. PICK s : s = pila[k] /\ s \in Seq(Tarea) /\ s # <<>>
      BY <2>4, PilasDelCiclo
    <3>2. \A t : Esta(t, s) <=> t = Head(s) \/ Esta(t, Tail(s))
      BY <3>1, CabezaOResto
    <3>3. ASSUME NEW T, Unica(s, T)
          PROVE  Unica(Tail(s), T) /\ (Ninguna(s, T) => Ninguna(Tail(s), T))
      <4>1. PICK u, r : u = <<>> /\ r = Tail(s)
        OBVIOUS
      <4>2. u \in Seq(Tarea) /\ r \in Seq(Tarea) /\ Unica(u, T) /\ Ninguna(u, T)
        <5>1. u \in Seq(Tarea) /\ r \in Seq(Tarea)
          BY <3>1, <4>1
        <5> QED
          BY <4>1, <5>1, UnicaEnDos
      <4>3. Unica(u \o r, T)
        BY <3>1, <3>3, <4>1, <4>2, UnicaTras
      <4>4. u \o r = r
        BY <4>1, <4>2, ConcatEmptySeq
      <4> QED
        BY <3>2, <4>1, <4>3, <4>4 DEF Ninguna
    <3> QED
      BY <2>4, <3>1, <3>2, <3>3
  <2> QED
    BY <2>2, <2>3, <2>4
<1>2. Libera' => Libera
  BY <1>1 DEF Libera, Hay
<1>3. ASSUME NEW q \in Procs PROVE EnRumbo(q)'
  <2>1. EnRumbo(q)
    BY DEF IInvCiclo
  <2>2. UnaSola(Mano(q))' /\ UnaSola(AMem(q))'
    BY <1>1, <2>1, UnaMenos DEF EnRumbo, UnaSola
  <2>3. \A o \in Especiales : Con(o, q)' => Con(o, q)
    BY <1>1 DEF Con, Hay
  <2>4. Con("BLOCKED", q) => Con("BLOCKED", q)'
    BY <1>1 DEF Con, Hay
  <2>5. Aparte(q) /\ CpuIgual(q)
    BY <1>2, CpuIgualSigue DEF Aparte
  <2> QED
    BY <2>1, <2>2, <2>3, <2>4, <2>5, RumboIgual
<1>4. NadieDosVeces'
  BY DEF IInvCiclo, NadieDosVeces
<1> QED
  BY <1>3, <1>4 DEF IInvCiclo

LEMMA CicloDeTimer ==
    ASSUME IInvCiclo, IInvCpu', IInvOrden', IInvDespierta', NEW h \in Hilos, NEW p \in Procs,
           CrearTimer(h, p)
    PROVE  IInvCiclo'
<1>1. PICK j, n, t : n = hiloBlock[p] + 1 /\ j = Timer(p, n) /\ t = Por("TIMER", p)
  OBVIOUS
<1>2. /\ n <= MaxTimers /\ Toca(h, "CREAR_TIMER", p)
      /\ pila' = [pila EXCEPT ![h] = Tail(@), ![j] = <<t>>]
      /\ UNCHANGED <<estado, cola, cpuPid, contexto, enIO, posible, suspendidos>>
  BY <1>1 DEF CrearTimer, planVars, cpuVars, guionVars, memVars
<1>3. pila[h] # <<>> /\ Head(pila[h]).op # "BLOCKED" /\ pila \in [Hilos -> Seq(Tarea)]
  BY <1>2, PilasDelCiclo DEF Toca, Por
<1>4. j \in Timers
  <2>1. hiloBlock[p] \in Nat
    BY PilasDelCiclo, MaxTimersAssumption DEF IInvTipos, TypeOK
  <2>2. n \in 1..MaxTimers
    BY <1>1, <1>2, <2>1, MaxTimersAssumption
  <2> QED
    BY <1>1, <2>2, HilosPropios
<1>5. \A x : Esta(x, <<t>>) => x.op \notin Especiales \cup {"LIBERAR_CPU"}
  <2>1. Callada(<<t>>)
    BY <1>1, CalladasPor
  <2> QED
    BY <2>1 DEF Callada
<1>6. ASSUME NEW k \in Hilos
      PROVE  \/ pila'[k] = pila[k]
             \/ k \notin Fijos /\ \A x : Esta(x, pila'[k]) => x.op \notin Especiales \cup {"LIBERAR_CPU"}
             \/ pila[k] # <<>> /\ Head(pila[k]).op # "BLOCKED" /\ pila'[k] = Tail(pila[k])
  <2>1. CASE k = j
    BY <1>2, <1>3, <1>4, <1>5, <2>1 DEF Fijos
  <2>2. CASE k # j /\ k = h
    BY <1>2, <1>3, <2>2
  <2>3. CASE k # j /\ k # h
    BY <1>2, <1>3, <2>3
  <2> QED
    BY <2>1, <2>2, <2>3
<1> QED
  BY <1>2, <1>6, CicloPierde

LEMMA CicloDeMuerto ==
    ASSUME IInvCiclo, IInvCpu', IInvOrden', IInvDespierta', PasoMuere
    PROVE  IInvCiclo' /\ UNCHANGED estado
<1>1. PICK p \in Procs, k \in 1..MaxTimers : TimerMuere(p, k)
  BY DEF PasoMuere
<1>2. PICK h : h = Timer(p, k) /\ h \in Timers
  BY HilosPropios
<1>3. /\ pila' = [pila EXCEPT ![h] = <<>>]
      /\ UNCHANGED <<estado, cola, cpuPid, contexto, enIO, posible, suspendidos>>
  BY <1>1, <1>2 DEF TimerMuere, planVars, cpuVars, guionVars, memVars
<1>4. ASSUME NEW j \in Hilos
      PROVE  \/ pila'[j] = pila[j]
             \/ j \notin Fijos /\ \A x : Esta(x, pila'[j]) => x.op \notin Especiales \cup {"LIBERAR_CPU"}
  <2>1. CASE j = h
    <3>1. pila'[j] = <<>>
      BY <1>3, <2>1, PilasDelCiclo
    <3> QED
      BY <1>2, <2>1, <3>1, EstaEnVacia DEF Fijos
  <2>2. CASE j # h
    BY <1>3, <2>2, PilasDelCiclo
  <2> QED
    BY <2>1, <2>2
<1>5. IInvCiclo'
  BY <1>3, <1>4, CicloPierde
<1> QED
  BY <1>3, <1>5

LEMMA CicloDeLiberar ==
    ASSUME IInvCiclo, IInvCpu', IInvOrden', IInvDespierta', SolaCpu, LiberarCpu(LaCpu)
    PROVE  IInvCiclo'
<1>1. PICK h, u : h = Cpu(LaCpu) /\ h \in Hilos /\ u = <<>>
  BY HilosPropios DEF SolaCpu
<1>2. /\ pila[h] # <<>> /\ Head(pila[h]).op = "LIBERAR_CPU" /\ Sigue(h, u)
      /\ UNCHANGED <<estado, cola, contexto, enIO, posible, suspendidos>>
  BY <1>1 DEF LiberarCpu, Toca, Por, planVars, guionVars, timerVars, memVars
<1>3. contexto[LaCpu] = <<>> /\ \A t : Hay(t) /\ t.op \in Ocupan => t = Head(pila[h])
  BY <1>1, <1>2, UnSoloTurno DEF IInvCiclo, Ocupan
<1>4. Libera
  <2>1. Esta(Head(pila[h]), pila[h])
    BY <1>1, <1>2, PilasDelCiclo, Cabeza
  <2> QED
    BY <1>1, <1>2, <2>1 DEF Libera, Hay
<1>5. ASSUME NEW q \in Procs PROVE EnRumbo(q)'
  <2>1. ~Con("EXECUTE", q) /\ ~Con("ENVIAR", q)
    BY <1>2, <1>3 DEF Con, Ocupan
  <2>2. Aparte(q) /\ CpuIgual(q)
    BY <1>2, <1>3, <1>4, <2>1 DEF Aparte, CpuIgual
  <2>3. u \in Seq(Tarea) /\ \A t : Esta(t, u) => t.pid # q \/ t.op \notin Especiales
    BY <1>1, EstaEnVacia
  <2> QED
    BY <1>1, <1>2, <2>2, <2>3, SigueIgual
<1>6. NadieDosVeces'
  BY <1>2 DEF IInvCiclo, NadieDosVeces
<1> QED
  BY <1>5, <1>6 DEF IInvCiclo

(* A thread that was idle starts on something about p.                      *)
LEMMA CicloNace ==
    ASSUME IInvCiclo, IInvCpu', IInvOrden', IInvDespierta', NEW h \in Hilos, pila[h] = <<>>,
           NEW p \in Procs, NEW u \in Seq(Tarea), pila' = [pila EXCEPT ![h] = u],
           \A t : Esta(t, u) => t.pid \in {p, Nadie},
           \A q \in Procs \ {p} : Aparte(q) /\ CpuIgual(q),
           NadieDosVeces', EnRumbo(p)'
    PROVE  IInvCiclo'
<1>1. ASSUME NEW q \in Procs \ {p} PROVE EnRumbo(q)'
  <2>1. EnRumbo(q) /\ \A t : Esta(t, u) => t.pid # q
    BY NadieAssumption DEF IInvCiclo
  <2>2. Ninguna(u, Mano(q)) /\ Ninguna(u, AMem(q)) /\ \A o : ~En(u, o, q)
    BY <2>1 DEF Ninguna, Mano, AMem, En
  <2>3. Unica(u, Mano(q)) /\ Unica(u, AMem(q))
    BY <2>2, UnicaEnNinguna
  <2>4. UnaSola(Mano(q))' /\ UnaSola(AMem(q))'
    BY <2>1, <2>2, <2>3, PilasDelCiclo, UnaNace DEF EnRumbo
  <2>5. \A o : Con(o, q)' <=> Con(o, q)
    BY <2>2, PilasDelCiclo, ConNace
  <2> QED
    BY <2>1, <2>4, <2>5, RumboIgual
<1> QED
  BY <1>1 DEF IInvCiclo

LEMMA NaceMano ==
    ASSUME IInvCiclo, NEW h \in Hilos, pila[h] = <<>>, NEW p \in Procs, NEW u \in Seq(Tarea),
           pila' = [pila EXCEPT ![h] = u], Unica(u, Mano(p)),
           \A t : Esta(t, u) => t.op # "SUSPENDER_MEM", Suelto(p)
    PROVE  /\ \A o : Con(o, p)' <=> Con(o, p) \/ En(u, o, p)
           /\ \A o \in Mueven : Con(o, p)' <=> En(u, o, p)
           /\ Con("SUSPENDER_MEM", p)' <=> Con("SUSPENDER_MEM", p)
           /\ UnaSola(Mano(p))' /\ UnaSola(AMem(p))'
<1>1. EnRumbo(p) /\ pila \in [Hilos -> Seq(Tarea)]
  BY PilasDelCiclo DEF IInvCiclo
<1>2. \A k \in Hilos : Ninguna(pila[k], Mano(p))
  BY DEF Ninguna, Mano, Suelto, Con, Hay
<1>3. Ninguna(u, AMem(p)) /\ Unica(u, AMem(p)) /\ ~En(u, "SUSPENDER_MEM", p)
  <2>1. Ninguna(u, AMem(p))
    BY DEF Ninguna, AMem
  <2> QED
    BY <2>1, UnicaEnNinguna DEF En
<1>4. UnaSola(Mano(p))' /\ UnaSola(AMem(p))'
  BY <1>1, <1>2, <1>3, UnaNace DEF EnRumbo
<1>5. \A o : Con(o, p)' <=> Con(o, p) \/ En(u, o, p)
  BY <1>1, ConNace
<1> QED
  BY <1>3, <1>4, <1>5 DEF Suelto

LEMMA CicloDeIO ==
    ASSUME IInvCiclo, IInvCpu', IInvOrden', IInvDespierta', NEW x \in Conexiones, DesbloqueoIO(x)
    PROVE  IInvCiclo' /\ UNCHANGED estado
<1>1. PICK h : h = Io(x) /\ h \in Hilos
  BY HilosPropios
<1>2. PICK p \in enIO :
          /\ pila[h] = <<>> /\ enIO' = enIO \ {p}
          /\ pila' = [pila EXCEPT ![h] = IF estado[p] = "ELIMINADO" THEN <<>> ELSE <<Por("DESBLOQUEO", p)>>]
          /\ UNCHANGED <<estado, cola, cpuPid, contexto, posible, suspendidos>>
  BY <1>1 DEF DesbloqueoIO, planVars, cpuVars, timerVars, memVars
<1>3. p \in Procs /\ EnRumbo(p) /\ estado[p] \in Dormidos /\ Suelto(p)
  <2>1. p \in Procs
    BY PilasDelCiclo DEF IInvTipos, TypeOK
  <2> QED
    BY <2>1 DEF IInvCiclo, EnRumbo, EnDispositivo
<1>4. PICK u : /\ u = <<Por("DESBLOQUEO", p)>> /\ Carga(u, p)
               /\ \A y, q : En(u, y, q) <=> y = "DESBLOQUEO" /\ q = p
  <2>1. "DESBLOQUEO" \in Ops \ Sensibles
    BY DEF Ops, Sensibles
  <2> QED
    BY <1>3, <2>1, CargaUna
<1>5. pila' = [pila EXCEPT ![h] = u]
  BY <1>2, <1>3, <1>4 DEF Dormidos
<1>6. /\ u \in Seq(Tarea) /\ Unica(u, Mano(p)) /\ \A t : Esta(t, u) => t.pid \in {p, Nadie}
      /\ \A t : Esta(t, u) => t.op # "LIBERAR_CPU" /\ t.op # "SUSPENDER_MEM"
  BY <1>4 DEF Carga, Sensibles
<1>7. /\ \A o : Con(o, p)' <=> Con(o, p) \/ En(u, o, p)
      /\ \A o \in Mueven : Con(o, p)' <=> En(u, o, p)
      /\ Con("SUSPENDER_MEM", p)' <=> Con("SUSPENDER_MEM", p)
      /\ UnaSola(Mano(p))' /\ UnaSola(AMem(p))'
  BY <1>1, <1>2, <1>3, <1>5, <1>6, NaceMano
<1>8. Motivo("DESBLOQUEO", p)'
  BY <1>2, <1>3 DEF Motivo, Esperan, Levantan
<1>9. ~Con("READY_CPU", p)' /\ ~Con("BLOCKED", p)' /\ ~Con("READY", p)'
  BY <1>3, <1>4, <1>7 DEF EnRumbo, Recibido, Dormidos, Mueven
<1>10. PidDe(LaCpu)' = PidDe(LaCpu)
  BY <1>2 DEF PidDe, Corre
<1>11. EnLaCpu(p)' /\ EnDispositivo(p)' /\ Apartado(p)' /\ EnSuCola(p)'
  BY <1>2, <1>3, <1>7, <1>9, <1>10
     DEF EnRumbo, EnLaCpu, EnDispositivo, Apartado, Fuera, EnSuCola, Dormidos
<1>12. EnRumbo(p)'
  BY <1>4, <1>7, <1>8, <1>9, <1>11 DEF EnRumbo, Recibido
<1>13. Libera' => Libera
  <2>1. \A k \in Hilos \ {h} : pila'[k] = pila[k]
    BY <1>5, PilasDelCiclo
  <2>2. pila'[h] = u
    BY <1>1, <1>5, PilasDelCiclo
  <2> QED
    BY <1>6, <2>1, <2>2 DEF Libera, Hay
<1>14. ASSUME NEW q \in Procs \ {p} PROVE Aparte(q) /\ CpuIgual(q)
  BY <1>2, <1>13, CpuIgualSigue DEF Aparte
<1>15. NadieDosVeces'
  BY <1>2 DEF IInvCiclo, NadieDosVeces
<1>16. IInvCiclo'
  BY <1>1, <1>2, <1>3, <1>5, <1>6, <1>12, <1>14, <1>15, CicloNace
<1> QED
  BY <1>2, <1>16

LEMMA UnicaEnTres ==
    ASSUME NEW T, NEW x, NEW y, NEW z,
           (y \notin T /\ z \notin T) \/ (x \notin T /\ z \notin T) \/ (x \notin T /\ y \notin T)
    PROVE  Unica(<<x, y, z>>, T)
<1>1. PICK u : u = <<x, y, z>>
  OBVIOUS
<1>2. DOMAIN u = {1, 2, 3} /\ u[1] = x /\ u[2] = y /\ u[3] = z
  BY <1>1
<1>3. \A i, j \in {1, 2, 3} : u[i] \in T /\ u[j] \in T => i = j
  BY <1>2
<1>4. Unica(u, T)
  BY <1>2, <1>3 DEF Unica
<1> QED
  BY <1>1, <1>4

(* What the handler of a system call does with its process: EXIT, or        *)
(* BLOCKED and whoever will take it out.                                    *)
LEMMA TareasDelCiclo ==
    ASSUME NEW p \in Procs, NEW o \in (Syscalls \cup {"EXIT"}) \ {"INIT_PROC"}, estado[p] # "ELIMINADO"
    PROVE  \E u : /\ u = TareasDe(o, p) /\ u \in Seq(Tarea) /\ Unica(u, Mano(p))
                  /\ \A t : Esta(t, u) => t.pid \in {p, Nadie} /\ t.op \notin {"SUSPENDER_MEM", "READY_CPU"}
                  /\ \A t : Esta(t, u) => t.op \in DeManejador \cup {"ENCOLAR_IO"}
                  /\ \A x \in Mueven : En(u, x, p) =>
                        x = "EXIT" \/ (x \in Esperan /\ En(u, "BLOCKED", p))
<1>1. PICK m, l : /\ m = Sola("MANDAR") /\ m \in Tarea /\ m.op = "MANDAR" /\ m.pid = Nadie
                  /\ l = Sola("LIBERAR_CPU") /\ l \in Tarea /\ l.op = "LIBERAR_CPU" /\ l.pid = Nadie
  <2>1. "MANDAR" \in Sueltas /\ "LIBERAR_CPU" \in Sueltas
    BY DEF Sueltas
  <2> QED
    BY <2>1, SolaTarea
<1>2. m \notin Mano(p) /\ l \notin Mano(p)
  BY <1>1, NadieAssumption DEF Mano
<1>3. CASE o = "EXIT"
  <2>1. PICK e : e = Por("EXIT", p) /\ e \in Tarea /\ e.op = "EXIT" /\ e.pid = p
    <3>1. "EXIT" \in Ops
      BY DEF Ops
    <3> QED
      BY <3>1, PorTarea
  <2>2. TareasDe(o, p) = <<e>> \o <<l, m>>
    BY <1>1, <1>3, <2>1 DEF TareasDe
  <2>3. PICK u : u = TareasDe(o, p) /\ u = <<e, l, m>>
    BY <2>2, UnaYDos
  <2>4. u \in Seq(Tarea) /\ \A t : Esta(t, u) <=> t = e \/ t = l \/ t = m
    BY <1>1, <2>1, <2>3, EstaEnTres
  <2>5. Unica(u, Mano(p))
    BY <1>2, <2>3, UnicaEnTres
  <2>6. \A t : Esta(t, u) => t.pid \in {p, Nadie} /\ t.op \notin {"SUSPENDER_MEM", "READY_CPU"}
    BY <1>1, <2>1, <2>4
  <2>8. \A t : Esta(t, u) => t.op \in DeManejador \cup {"ENCOLAR_IO"}
    BY <1>1, <2>1, <2>4 DEF DeManejador, Mandan
  <2>7. \A x \in Mueven : En(u, x, p) => x = "EXIT"
    BY <1>1, <2>1, <2>4 DEF En, Mueven, Esperan, Levantan
  <2> QED
    BY <2>3, <2>4, <2>5, <2>6, <2>7, <2>8
<1>4. CASE o # "EXIT"
  <2>1. PICK b : b = Por("BLOCKED", p) /\ b \in Tarea /\ b.op = "BLOCKED" /\ b.pid = p
    <3>1. "BLOCKED" \in Ops
      BY DEF Ops
    <3> QED
      BY <3>1, PorTarea
  <2>2. PICK t, u : /\ u = TareasDe(o, p) /\ (u = <<b, t, m>> \/ u = <<b, m, t>>)
                    /\ t \in Tarea /\ t.pid = p /\ t.op \in {"EXIT"} \cup Esperan
    <3>0. \A x \in {"EXIT"} \cup Esperan : Por(x, p) \in Tarea /\ Por(x, p).op = x /\ Por(x, p).pid = p
      <4>1. \A x \in {"EXIT"} \cup Esperan : x \in Ops
        BY DEF Ops, Esperan
      <4> QED
        BY <4>1, PorTarea
    <3>1. CASE o = "IO"
      <4>1. PICK t : t = Por("ENCOLAR_IO", p)
        OBVIOUS
      <4>2. t \in Tarea /\ t.pid = p /\ t.op \in {"EXIT"} \cup Esperan
        BY <3>0, <4>1 DEF Esperan
      <4>3. TareasDe(o, p) = <<b, t, m>>
        BY <1>1, <2>1, <3>1, <4>1 DEF TareasDe
      <4> QED
        BY <4>2, <4>3
    <3>2. CASE o = "IO_FALLA"
      <4>1. PICK t : t = Por("EXIT", p)
        OBVIOUS
      <4>2. t \in Tarea /\ t.pid = p /\ t.op \in {"EXIT"} \cup Esperan
        BY <3>0, <4>1
      <4>3. TareasDe(o, p) = <<b, t, m>>
        BY <1>1, <2>1, <3>2, <4>1 DEF TareasDe
      <4> QED
        BY <4>2, <4>3
    <3>3. CASE o \in {"DUMP", "DUMP_FALLA"}
      <4>1. PICK t : t = Por(o, p)
        OBVIOUS
      <4>2. t \in Tarea /\ t.pid = p /\ t.op \in {"EXIT"} \cup Esperan
        BY <3>0, <3>3, <4>1 DEF Esperan
      <4>3. o # "EXIT" /\ o # "IO" /\ o # "IO_FALLA"
        BY <3>3
      <4>4. TareasDe(o, p) = <<b, m, t>>
        BY <1>1, <2>1, <4>1, <4>3 DEF TareasDe
      <4> QED
        BY <4>2, <4>4
    <3> QED
      BY <1>4, <3>1, <3>2, <3>3 DEF Syscalls
  <2>3. u \in Seq(Tarea) /\ \A x : Esta(x, u) <=> x = b \/ x = t \/ x = m
    <3>1. CASE u = <<b, t, m>>
      BY <1>1, <2>1, <2>2, <3>1, EstaEnTres
    <3>2. CASE u = <<b, m, t>>
      BY <1>1, <2>1, <2>2, <3>2, EstaEnTres
    <3> QED
      BY <2>2, <3>1, <3>2
  <2>4. b \notin Mano(p)
    BY <2>1 DEF Mano, Mueven, Esperan, Levantan
  <2>5. Unica(u, Mano(p))
    BY <1>2, <2>2, <2>4, UnicaEnTres
  <2>6. \A x : Esta(x, u) => x.pid \in {p, Nadie} /\ x.op \notin {"SUSPENDER_MEM", "READY_CPU"}
    BY <1>1, <2>1, <2>2, <2>3 DEF Esperan
  <2>9. \A x : Esta(x, u) => x.op \in DeManejador \cup {"ENCOLAR_IO"}
    BY <1>1, <2>1, <2>2, <2>3 DEF Esperan, DeManejador, Mandan
  <2>7. En(u, "BLOCKED", p)
    BY <2>1, <2>3 DEF En
  <2>8. \A x \in Mueven : En(u, x, p) => x \in {"EXIT"} \cup Esperan
    BY <1>1, <2>1, <2>2, <2>3 DEF En, Mueven, Esperan, Levantan
  <2> QED
    BY <2>2, <2>3, <2>5, <2>6, <2>7, <2>8, <2>9
<1> QED
  BY <1>3, <1>4

LEMMA CicloDeSyscall ==
    ASSUME IInvCiclo, IInvCpu', IInvOrden', IInvDespierta', SolaCpu, Retardo = TRUE,
           SyscallExit(LaCpu) \/ SyscallBloqueante(LaCpu)
    PROVE  IInvCiclo' /\ UNCHANGED estado
<1>1. PICK h : h = Cpu(LaCpu) /\ h \in Hilos
  BY HilosPropios DEF SolaCpu
<1>2. PICK p, o : p = PidDe(LaCpu) /\ o = Instruccion(LaCpu).op
  OBVIOUS
<1>3. /\ contexto[LaCpu] # <<>> /\ pila[h] = <<>> /\ Alcanza(LaCpu) /\ o # "INIT_PROC"
      /\ pila' = [pila EXCEPT ![h] = TareasDe(o, p)]
      /\ contexto' = [contexto EXCEPT ![LaCpu] = Tail(@)]
      /\ UNCHANGED <<estado, cola, enIO, posible, suspendidos>>
  BY <1>1, <1>2 DEF SyscallExit, SyscallBloqueante, Pide, planVars, guionVars, timerVars, memVars
<1>4. p \in Procs /\ o \in (Syscalls \cup {"EXIT"}) \ {"INIT_PROC"}
  <2>1. OtrosTipos /\ LaCpu \in Cpus
    BY PilasDelCiclo, TiposJuntos DEF IInvTipos, SolaCpu
  <2> QED
    BY <1>2, <1>3, <2>1, CorreTipo
<1>5. EnRumbo(p) /\ cpuPid[LaCpu] = p /\ estado[p] = "EXECUTE" /\ Suelto(p)
  BY <1>2, <1>3, <1>4 DEF IInvCiclo, EnRumbo, EnLaCpu
<1>6. PICK u : /\ u = TareasDe(o, p) /\ u \in Seq(Tarea) /\ Unica(u, Mano(p))
               /\ \A t : Esta(t, u) => t.pid \in {p, Nadie} /\ t.op \notin {"SUSPENDER_MEM", "READY_CPU"}
               /\ \A x \in Mueven : En(u, x, p) => x = "EXIT" \/ (x \in Esperan /\ En(u, "BLOCKED", p))
  BY <1>4, <1>5, TareasDelCiclo
<1>7. pila' = [pila EXCEPT ![h] = u] /\ \A t : Esta(t, u) => t.op # "SUSPENDER_MEM"
  BY <1>3, <1>6
<1>8. /\ \A x : Con(x, p)' <=> Con(x, p) \/ En(u, x, p)
      /\ \A x \in Mueven : Con(x, p)' <=> En(u, x, p)
      /\ Con("SUSPENDER_MEM", p)' <=> Con("SUSPENDER_MEM", p)
      /\ UnaSola(Mano(p))' /\ UnaSola(AMem(p))'
  BY <1>1, <1>3, <1>4, <1>5, <1>6, <1>7, NaceMano
<1>9. ~Con("READY_CPU", p)'
  <2>1. ~Con("READY_CPU", p)
    <3>1. SUFFICES ASSUME NEW t, NEW k \in Hilos, Esta(t, pila[k]), t.op = "READY_CPU", t.pid = p
                   PROVE  FALSE
      BY DEF Con, Hay
    <3>2. t = Por("READY_CPU", p)
      <4>1. t \in Tarea
        BY <3>1, PilasDelCiclo, ElementoDe
      <4> QED
        BY <3>1, <4>1 DEF Tarea, Por
    <3> QED
      BY <1>2, <1>3, <3>1, <3>2 DEF Alcanza, Esta
  <2>2. ~En(u, "READY_CPU", p)
    BY <1>6 DEF En
  <2> QED
    BY <1>8, <2>1, <2>2
<1>10. contexto'[LaCpu] = <<>>
  <2>1. PICK s : s = contexto[LaCpu] /\ s \in Seq([pid : Procs, pc : Nat]) /\ s # <<>> /\ LaCpu \in Cpus
    BY <1>3, PilasDelCiclo DEF SolaCpu
  <2>2. Len(s) <= 1
    BY <2>1 DEF IInvCiclo, IInvCpu, CpuTomada
  <2>3. Tail(s) = <<>>
    BY <2>1, <2>2, SinCola
  <2> QED
    BY <1>3, <2>1, <2>3, PilasDelCiclo
<1>11. \A x \in Mueven : Con(x, p)' => Motivo(x, p)'
  <2>1. ASSUME NEW x \in Mueven, Con(x, p)' PROVE Motivo(x, p)'
    <3>1. En(u, x, p)
      BY <1>8, <2>1
    <3>2. x = "EXIT" \/ (x \in Esperan /\ Con("BLOCKED", p)')
      BY <1>6, <1>8, <3>1
    <3> QED
      BY <1>3, <1>5, <3>2 DEF Motivo, Esperan, Levantan
  <2> QED
    BY <2>1
<1>12. EnSuCola(p)' /\ Recibido(p)' /\ EnLaCpu(p)' /\ EnDispositivo(p)' /\ Apartado(p)'
  <2>1. EnSuCola(p)'
    BY <1>3, <1>5 DEF EnRumbo, EnSuCola
  <2>2. Recibido(p)' /\ EnLaCpu(p)'
    BY <1>9, <1>10 DEF Recibido, EnLaCpu
  <2>3. EnDispositivo(p)'
    BY <1>3, <1>5 DEF EnRumbo, EnDispositivo, Dormidos
  <2>4. ~Fuera(p)
    BY <1>5 DEF EnRumbo, Apartado
  <2>5. Apartado(p)'
    BY <1>3, <1>8, <2>4 DEF Apartado, Fuera
  <2> QED
    BY <2>1, <2>2, <2>3, <2>5
<1>13. EnRumbo(p)'
  <2>1. Con("BLOCKED", p)' => estado'[p] = "EXECUTE"
    BY <1>3, <1>5
  <2> QED
    BY <1>8, <1>11, <1>12, <2>1 DEF EnRumbo
<1>14. ASSUME NEW q \in Procs \ {p} PROVE Aparte(q) /\ CpuIgual(q)
  BY <1>3, <1>5, <1>10 DEF Aparte, CpuIgual
<1>15. NadieDosVeces'
  BY <1>3 DEF IInvCiclo, NadieDosVeces
<1>16. \A t : Esta(t, u) => t.pid \in {p, Nadie}
  BY <1>6
<1>17. IInvCiclo'
  BY <1>1, <1>3, <1>4, <1>6, <1>7, <1>13, <1>14, <1>15, <1>16, CicloNace
<1> QED
  BY <1>3, <1>17

LEMMA CicloDeInitProc ==
    ASSUME IInvCiclo, IInvCpu', IInvOrden', IInvDespierta', SolaCpu, SyscallInitProc(LaCpu)
    PROVE  /\ IInvCiclo'
           /\ \E q \in Procs : estado[q] = "NO_CREADO" /\ estado' = [estado EXCEPT ![q] = "CREADO"]
<1>1. PICK h : h = Cpu(LaCpu) /\ h \in Hilos
  BY HilosPropios DEF SolaCpu
<1>2. PICK q, t, u, x :
          /\ q = Instruccion(LaCpu).pid /\ t = Por("NEW", q) /\ u = <<t>>
          /\ x = [Corre(LaCpu) EXCEPT !.pc = PcSiguiente(LaCpu)]
          /\ contexto[LaCpu] # <<>> /\ pila[h] = <<>>
          /\ pila' = [pila EXCEPT ![h] = u]
          /\ contexto' = [contexto EXCEPT ![LaCpu] = <<x>> \o Tail(@)]
          /\ estado[q] = "NO_CREADO" /\ estado' = [estado EXCEPT ![q] = "CREADO"]
          /\ UNCHANGED <<cola, cpuPid, enIO, posible, suspendidos>>
  BY <1>1 DEF SyscallInitProc, Pide, guionVars, timerVars, memVars
<1>3. /\ pila \in [Hilos -> Seq(Tarea)] /\ OtrosTipos /\ LaCpu \in Cpus
      /\ contexto \in [Cpus -> Seq([pid : Procs, pc : Nat])] /\ estado \in [Procs -> Estados]
  BY PilasDelCiclo, TiposJuntos DEF IInvTipos, SolaCpu
<1>4. q \in Procs /\ x.pid = PidDe(LaCpu)
  BY <1>2, <1>3, CorreTipo DEF PidDe
<1>5. t \in Tarea /\ t.op = "NEW" /\ t.pid = q
  <2>1. "NEW" \in Ops
    BY DEF Ops
  <2> QED
    BY <1>2, <1>4, <2>1, PorTarea
<1>6. u \in Seq(Tarea) /\ \A y : Esta(y, u) <=> y = t
  BY <1>2, <1>5, EstaEnUna
<1>7. contexto'[LaCpu] # <<>> /\ PidDe(LaCpu)' = PidDe(LaCpu)
  <2>1. PICK s : s = contexto[LaCpu] /\ s \in Seq([pid : Procs, pc : Nat])
    BY <1>3
  <2>2. Tail(s) = <<>>
    <3>1. Len(s) <= 1
      BY <1>3, <2>1 DEF IInvCiclo, IInvCpu, CpuTomada
    <3> QED
      BY <1>2, <2>1, <3>1, SinCola
  <2>3. contexto'[LaCpu] = <<x>> \o <<>>
    BY <1>2, <1>3, <2>1, <2>2
  <2>4. contexto'[LaCpu] = <<x>>
    BY <2>3
  <2>5. contexto'[LaCpu] # <<>> /\ Head(contexto'[LaCpu]) = x
    BY <2>4
  <2> QED
    BY <1>4, <2>5 DEF PidDe, Corre
<1>8. /\ Suelto(q) /\ ~Con("BLOCKED", q) /\ ~Con("READY_CPU", q) /\ q \notin enIO
      /\ PidDe(LaCpu) # q
  BY <1>2, <1>4, EsperaQuieto DEF NoNatos
<1>9. EnRumbo(q) /\ ~Fuera(q)
  BY <1>2, <1>4 DEF IInvCiclo, EnRumbo, Apartado
<1>10. Unica(u, Mano(q)) /\ \A y : Esta(y, u) => y.op # "SUSPENDER_MEM" /\ y.pid \in {q, Nadie}
  BY <1>2, <1>5, <1>6, UnicaEnDos
<1>11. /\ \A o : Con(o, q)' <=> Con(o, q) \/ En(u, o, q)
       /\ \A o \in Mueven : Con(o, q)' <=> En(u, o, q)
       /\ Con("SUSPENDER_MEM", q)' <=> Con("SUSPENDER_MEM", q)
       /\ UnaSola(Mano(q))' /\ UnaSola(AMem(q))'
  BY <1>1, <1>2, <1>4, <1>6, <1>8, <1>10, NaceMano
<1>12. \A o \in Mueven \cup {"READY_CPU", "BLOCKED"} : ~Con(o, q)'
  <2>1. \A o \in Mueven \cup {"READY_CPU", "BLOCKED"} : ~En(u, o, q)
    BY <1>5, <1>6 DEF En, Mueven, Esperan, Levantan
  <2> QED
    BY <1>8, <1>11, <2>1
<1>13. EnSuCola(q)'
  <2>1. \A c \in Colas : ~Esta(q, cola[c])
    BY <1>2, <1>9 DEF EnRumbo, EnSuCola, Colas
  <2> QED
    BY <1>2, <2>1 DEF EnSuCola
<1>14. EnLaCpu(q)' /\ EnDispositivo(q)' /\ Apartado(q)'
  BY <1>2, <1>7, <1>8, <1>9, <1>11 DEF EnLaCpu, EnDispositivo, Apartado, Fuera
<1>15. EnRumbo(q)'
  BY <1>11, <1>12, <1>13, <1>14 DEF EnRumbo, Recibido
<1>16. Libera' => Libera
  <2>1. pila'[h] = u /\ \A k \in Hilos \ {h} : pila'[k] = pila[k]
    BY <1>1, <1>2, <1>3
  <2> QED
    BY <1>5, <1>6, <2>1 DEF Libera, Hay
<1>17. ASSUME NEW r \in Procs \ {q} PROVE Aparte(r) /\ CpuIgual(r)
  <2>1. estado'[r] = estado[r]
    BY <1>2, <1>3
  <2> QED
    BY <1>2, <1>7, <1>16, <2>1 DEF Aparte, CpuIgual
<1>18. NadieDosVeces'
  BY <1>2 DEF IInvCiclo, NadieDosVeces
<1>19. IInvCiclo'
  BY <1>1, <1>2, <1>4, <1>6, <1>10, <1>15, <1>17, <1>18, CicloNace
<1> QED
  BY <1>2, <1>4, <1>19

LEMMA CicloDeCpu ==
    ASSUME IInvCiclo, IInvCpu', IInvOrden', IInvDespierta', SolaCpu, Retardo = TRUE, NEW c \in Cpus, DeCpu(c)
    PROVE  IInvCiclo'
<1>1. c = LaCpu
  BY DEF SolaCpu
<1> QED
  BY <1>1, CicloDeLiberar, CicloDeSyscall, CicloDeInitProc DEF DeCpu

-----------------------------------------------------------------------------
(* The steps of the diagram.  What it sees of the states.                   *)
Visto == [p \in Procs |-> IF estado[p] = "CREADO" THEN "NO_CREADO" ELSE estado[p]]

LEMMA PasosDelDiagrama ==
    /\ "NEW" \in Ciclo!Siguientes("NO_CREADO")
    /\ \A e \in {"NEW", "READY_SUSPENDED", "BLOCKED"} : "READY" \in Ciclo!Siguientes(e)
    /\ "EXECUTE" \in Ciclo!Siguientes("READY")
    /\ "BLOCKED" \in Ciclo!Siguientes("EXECUTE")
    /\ "BLOCKED_SUSPENDED" \in Ciclo!Siguientes("BLOCKED")
    /\ "READY_SUSPENDED" \in Ciclo!Siguientes("BLOCKED_SUSPENDED")
    /\ \A e \in {"EXECUTE", "BLOCKED", "BLOCKED_SUSPENDED"} : "EXIT" \in Ciclo!Siguientes(e)
    /\ "ELIMINADO" \in Ciclo!Siguientes("EXIT")
BY DEF Ciclo!Siguientes

LEMMA MueveVisto ==
    ASSUME IInvCiclo, NEW p \in Procs, NEW e, e # "CREADO", e \in Ciclo!Siguientes(Visto[p]),
           estado' = [estado EXCEPT ![p] = e]
    PROVE  Ciclo!Next
<1>1. Visto' = [Visto EXCEPT ![p] = e]
  BY PilasDelCiclo DEF Visto
<1>2. e \in Ciclo!Siguientes(Visto[p])
  OBVIOUS
<1> QED
  BY <1>1, <1>2 DEF Ciclo!Next, Ciclo!Mover, Visto

LEMMA TocaMotivo ==
    ASSUME IInvCiclo, NEW h \in Hilos, NEW p \in Procs, NEW o \in Mueven, Toca(h, o, p)
    PROVE  Motivo(o, p)
<1>1. Esta(Head(pila[h]), pila[h]) /\ Head(pila[h]).op = o /\ Head(pila[h]).pid = p
  BY PilasDelCiclo, Cabeza DEF Toca, Por
<1>2. Con(o, p)
  BY <1>1 DEF Con, Hay
<1> QED
  BY <1>2 DEF IInvCiclo, EnRumbo

LEMMA VistoDeProceso ==
    ASSUME IInvCiclo, IInvCpu', IInvOrden', IInvDespierta', NEW h \in Hilos, NEW p \in Procs, DeProceso(h, p)
    PROVE  Ciclo!Next \/ UNCHANGED estado
<1>0. Visto[p] = IF estado[p] = "CREADO" THEN "NO_CREADO" ELSE estado[p]
  BY DEF Visto
<1>1. CASE New(h, p)
  <2>1. estado[p] = "CREADO" /\ estado' = [estado EXCEPT ![p] = "NEW"]
    BY <1>1, CicloDeNew DEF New, CambiarEstado
  <2> QED
    BY <1>0, <2>1, PasosDelDiagrama, MueveVisto
<1>2. CASE Ready(h, p)
  <2>1. "READY" \in Mueven
    BY DEF Mueven
  <2>2. Motivo("READY", p)
    BY <1>2, <2>1, TocaMotivo DEF Ready
  <2>3. estado[p] \in {"NEW", "READY_SUSPENDED", "BLOCKED"} /\ estado' = [estado EXCEPT ![p] = "READY"]
    BY <1>2, <2>2 DEF Motivo, Ready, CambiarEstado
  <2> QED
    BY <1>0, <2>3, PasosDelDiagrama, MueveVisto
<1>3. CASE Execute(h, p)
  <2>1. estado[p] = "READY" /\ estado' = [estado EXCEPT ![p] = "EXECUTE"]
    BY <1>3, CicloDeExecute DEF Execute, CambiarEstado
  <2> QED
    BY <1>0, <2>1, PasosDelDiagrama, MueveVisto
<1>4. CASE Blocked(h, p)
  <2>1. estado[p] = "EXECUTE" /\ estado' = [estado EXCEPT ![p] = "BLOCKED"]
    BY <1>4, CicloDeBlocked DEF Blocked, CambiarEstado
  <2> QED
    BY <1>0, <2>1, PasosDelDiagrama, MueveVisto
<1>5. CASE Suspender(h, p)
  <2>1. CASE Suspendible(p)
    <3>1. estado[p] = "BLOCKED" /\ estado' = [estado EXCEPT ![p] = "BLOCKED_SUSPENDED"]
      BY <1>5, <2>1 DEF Suspender, Suspendible, CambiarEstado
    <3> QED
      BY <1>0, <3>1, PasosDelDiagrama, MueveVisto
  <2>2. CASE ~Suspendible(p)
    BY <1>5, <2>2 DEF Suspender, planVars
  <2> QED
    BY <2>1, <2>2
<1>6. CASE ReadySuspended(h, p)
  <2>1. estado[p] = "BLOCKED_SUSPENDED" /\ estado' = [estado EXCEPT ![p] = "READY_SUSPENDED"]
    BY <1>6, CicloDeReadySuspended DEF CambiarEstado
  <2> QED
    BY <1>0, <2>1, PasosDelDiagrama, MueveVisto
<1>7. CASE Exit(h, p)
  <2>1. /\ estado[p] \in {"EXECUTE", "BLOCKED", "BLOCKED_SUSPENDED"}
        /\ estado' = [estado EXCEPT ![p] = "EXIT"]
    BY <1>7, CicloDeExit DEF Exit, CambiarEstado, Dormidos
  <2> QED
    BY <1>0, <2>1, PasosDelDiagrama, MueveVisto
<1>8. CASE ExitMem(h, p)
  <2>1. estado[p] = "EXIT" /\ estado' = [estado EXCEPT ![p] = "ELIMINADO"]
    BY <1>8, CicloDeExitMem DEF ExitMem
  <2> QED
    BY <1>0, <2>1, PasosDelDiagrama, MueveVisto
<1>9. CASE NewTraer(h, p) \/ NewInit(h, p) \/ NewFin(h, p) \/ ReadyCpu(h, p) \/ Enviar(h, p)
  BY <1>9 DEF NewTraer, NewInit, NewFin, ReadyCpu, Enviar, planVars
<1>10. CASE Bloquear(h, p) \/ Join(h, p) \/ CrearTimer(h, p) \/ TimerArranca(h, p) \/ TimerCancelado(h, p)
            \/ TimerVence(h, p) \/ TimerRevisa(h, p) \/ SuspenderMem(h, p) \/ TimerCancela(h, p)
            \/ TimerTermina(h, p)
  BY <1>10 DEF Bloquear, Join, CrearTimer, TimerArranca, TimerCancelado, TimerVence, TimerRevisa,
               SuspenderMem, TimerCancela, TimerTermina, Solo, otras, planVars
<1>11. CASE ReadySuspendedVer(h, p) \/ Desbloqueo(h, p) \/ EncolarIO(h, p) \/ Dump(h, p) \/ DumpOk(h, p)
            \/ DumpFin(h, p) \/ DumpError(h, p) \/ DumpExit(h, p)
  BY <1>11 DEF ReadySuspendedVer, Desbloqueo, EncolarIO, Dump, DumpOk, DumpFin, DumpError, DumpExit, Solo,
               otras, planVars
<1> QED
  BY <1>1, <1>2, <1>3, <1>4, <1>5, <1>6, <1>7, <1>8, <1>9, <1>10, <1>11 DEF DeProceso

LEMMA CicloDeProceso ==
    ASSUME IInvCiclo, IInvCpu', IInvOrden', IInvDespierta', SolaCpu, ~AdmiteDosVeces,
           NEW h \in Hilos, NEW p \in Procs, DeProceso(h, p)
    PROVE  IInvCiclo'
<1>1. CASE New(h, p) \/ NewInit(h, p) \/ Ready(h, p) \/ ReadyCpu(h, p) \/ Execute(h, p) \/ Enviar(h, p)
  BY <1>1, CicloDeNew, CicloDeNewInit, CicloDeReady, CicloDeReadyCpu, CicloDeExecute, CicloDeEnviar
<1>2. CASE \/ NewTraer(h, p) \/ NewFin(h, p) \/ Bloquear(h, p) \/ Join(h, p)
           \/ TimerArranca(h, p) \/ TimerCancelado(h, p) \/ TimerVence(h, p) \/ TimerRevisa(h, p)
           \/ TimerCancela(h, p) \/ TimerTermina(h, p) \/ ReadySuspendedVer(h, p)
  BY <1>2, CicloDeQuietas
<1>3. CASE Blocked(h, p) \/ CrearTimer(h, p) \/ Suspender(h, p) \/ SuspenderMem(h, p)
  BY <1>3, CicloDeBlocked, CicloDeTimer, CicloDeSuspender, CicloDeSuspenderMem
<1>4. CASE ReadySuspended(h, p) \/ Exit(h, p) \/ ExitMem(h, p) \/ EncolarIO(h, p)
  BY <1>4, CicloDeReadySuspended, CicloDeExit, CicloDeExitMem, CicloDeEncolar
<1>5. CASE Desbloqueo(h, p) \/ Dump(h, p) \/ DumpOk(h, p) \/ DumpFin(h, p) \/ DumpError(h, p) \/ DumpExit(h, p)
  BY <1>5, CicloDeDump
<1> QED
  BY <1>1, <1>2, <1>3, <1>4, <1>5 DEF DeProceso

LEMMA VistoIgual == UNCHANGED estado => UNCHANGED Visto
BY DEF Visto

LEMMA CicloPasoAPaso ==
    ASSUME SolaCpu, Retardo = TRUE, IInvCiclo, [Next]_vars, [~AdmiteDosVeces]_vars
    PROVE  IInvCiclo' /\ (Ciclo!Next \/ UNCHANGED Visto)
<1>1. IInvCpu' /\ IInvOrden' /\ IInvDespierta'
  BY CpuPasoAPaso, OrdenPasoAPaso, DespiertaPasoAPaso DEF IInvCiclo, EnOrden
<1>2. CASE Reposo \/ UNCHANGED vars
  <2>1. UNCHANGED <<pila, estado, cola, cpuPid, contexto, enIO, posible, suspendidos>>
    BY <1>2 DEF Reposo, vars, otras, planVars, cpuVars, guionVars, timerVars, memVars
  <2> QED
    BY <1>1, <2>1, CicloPierde, VistoIgual
<1>3. CASE Next /\ ~AdmiteDosVeces
  <2>1. ASSUME NEW h \in Hilos, NEW p \in Procs, DeProceso(h, p)
        PROVE  IInvCiclo' /\ (Ciclo!Next \/ UNCHANGED Visto)
    BY <1>1, <1>3, <2>1, CicloDeProceso, VistoDeProceso, VistoIgual
  <2>2. ASSUME NEW h \in Hilos, DePlanificador(h)
        PROVE  IInvCiclo' /\ UNCHANGED Visto
    <3>1. IInvCiclo'
      BY <1>1, <1>3, <2>2, CicloDePlanificador
    <3>2. UNCHANGED estado
      BY <2>2 DEF DePlanificador, TraerEntra, TraerRS, TraerVerNew, TraerNew, MandarEntra, MandarVer,
                  MandarTomar, planVars
    <3> QED
      BY <3>1, <3>2, VistoIgual
  <2>3. ASSUME NEW c \in Cpus, DeCpu(c)
        PROVE  IInvCiclo' /\ UNCHANGED Visto
    <3>1. IInvCiclo'
      BY <1>1, <2>3, CicloDeCpu
    <3>2. c = LaCpu
      BY DEF SolaCpu
    <3>3. CASE SyscallInitProc(c)
      <4>1. PICK q \in Procs : estado[q] = "NO_CREADO" /\ estado' = [estado EXCEPT ![q] = "CREADO"]
        BY <1>1, <3>2, <3>3, CicloDeInitProc
      <4> QED
        BY <3>1, <4>1, PilasDelCiclo DEF Visto
    <3>4. CASE LiberarCpu(c) \/ SyscallExit(c) \/ SyscallBloqueante(c)
      BY <3>1, <3>4, VistoIgual DEF LiberarCpu, SyscallExit, SyscallBloqueante, planVars
    <3> QED
      BY <2>3, <3>3, <3>4 DEF DeCpu
  <2>4. ASSUME NEW x \in Conexiones, DesbloqueoIO(x)
        PROVE  IInvCiclo' /\ UNCHANGED Visto
    BY <1>1, <2>4, CicloDeIO, VistoIgual
  <2>5. CASE PasoMuere
    BY <1>1, <2>5, CicloDeMuerto, VistoIgual
  <2> QED
    BY <1>2, <1>3, <2>1, <2>2, <2>3, <2>4, <2>5 DEF Next, PasoHilo
<1> QED
  BY <1>2, <1>3

LEMMA CicloAlEmpezar == SolaCpu /\ Init => IInvCiclo
<1> SUFFICES ASSUME SolaCpu, Init PROVE IInvCiclo
  OBVIOUS
<1>1. IInvCpu /\ IInvOrden /\ IInvDespierta
  BY CpuAlEmpezar, OrdenAlEmpezar, DespiertaAlEmpezar
<1>2. PICK t : t = Por("NEW", Primero) /\ t.op = "NEW"
  <2>1. Por("NEW", Primero).op = "NEW"
    BY DEF Por
  <2> QED
    BY <2>1
<1>3. \A k \in Hilos : pila[k] = <<>> \/ pila[k] = <<t>>
  BY <1>2 DEF Init
<1>4. \A k \in Hilos : \A x : Esta(x, pila[k]) => x = t
  BY <1>3, EstaEnVacia, EstaEnUna
<1>5. \A o \in Especiales : \A q : ~Con(o, q)
  BY <1>2, <1>4 DEF Con, Hay, Especiales, Mueven, Esperan, Levantan
<1>6. \A q : UnaSola(Mano(q)) /\ UnaSola(AMem(q))
  <2>1. ASSUME NEW q, NEW T \in {Mano(q), AMem(q)} PROVE UnaSola(T)
    <3>1. \A x \in T : x.op \in Especiales
      BY DEF Mano, AMem, Especiales
    <3>2. \A k \in Hilos : Ninguna(pila[k], T)
      BY <1>2, <1>4, <3>1 DEF Ninguna, Especiales, Mueven, Esperan, Levantan
    <3> QED
      BY <3>2, UnicaEnNinguna DEF UnaSola
  <2> QED
    BY <2>1
<1>7. contexto[LaCpu] = <<>> /\ \A c \in Colas : cola[c] = <<>>
  BY DEF Init, SolaCpu
<1>8. ASSUME NEW q \in Procs PROVE EnRumbo(q)
  <2>1. EnSuCola(q)
    BY <1>7, EstaEnVacia DEF EnSuCola
  <2>2. ~Con("READY_CPU", q) /\ ~Con("SUSPENDER_MEM", q) /\ ~Con("BLOCKED", q)
    BY <1>5 DEF Especiales
  <2>3. Recibido(q) /\ EnLaCpu(q) /\ EnDispositivo(q) /\ Apartado(q)
    BY <1>7, <2>2 DEF Init, Recibido, EnLaCpu, EnDispositivo, Apartado, Fuera
  <2>4. \A o \in Mueven : ~Con(o, q)
    BY <1>5 DEF Especiales
  <2> QED
    BY <1>6, <2>1, <2>2, <2>3, <2>4 DEF EnRumbo
<1>9. NadieDosVeces
  BY <1>7 DEF NadieDosVeces, SinRepetir
<1> QED
  BY <1>1, <1>8, <1>9 DEF IInvCiclo

(* With one CPU, threads, queues, locks, timers and interrupts implement    *)
(* CicloDeVida: whoever moves a process (queue_process, carnicero,          *)
(* recibir_y_crear_proceso) moves it along the seven states, one at a time, *)
(* provided that the CPU makes no call before READY is done with its        *)
(* process, and that Memoria is not asked again to admit one that is        *)
(* already on its way to READY.                                             *)
THEOREM CicloSiempreCumple ==
    ASSUME SolaCpu, Retardo = TRUE
    PROVE  Spec /\ [][~AdmiteDosVeces]_vars => CumpleCiclo
<1>1. Init => IInvCiclo
  BY CicloAlEmpezar
<1>2. IInvCiclo /\ [Next]_vars /\ [~AdmiteDosVeces]_vars => IInvCiclo' /\ [Ciclo!Next]_Visto
  BY CicloPasoAPaso
<1>3. Init => Ciclo!Init
  BY DEF Init, Ciclo!Init
<1>4. Spec /\ [][~AdmiteDosVeces]_vars => [][Ciclo!Next]_Visto
  BY <1>1, <1>2, PTL DEF Spec
<1> QED
  BY <1>3, <1>4, PTL DEF Spec, CumpleCiclo, Ciclo!Spec, Visto

-----------------------------------------------------------------------------
(* Where a process is in Memoria.  The tasks that change it, or that say    *)
(* that it has changed already.                                             *)
Puntas == {"READY", "SUSPENDER_MEM", "EXIT_MEM"}

Sitio(q) ==
    /\ estado[q] \in NoNatos \cup {"ELIMINADO"} => q \notin residentes /\ q \notin suspendidos
    /\ estado[q] = "NEW" => q \notin suspendidos /\ (q \in residentes <=> Con("READY", q))
    /\ estado[q] \in {"READY", "EXECUTE", "BLOCKED"} => q \in residentes /\ q \notin suspendidos
    /\ estado[q] \in {"BLOCKED_SUSPENDED", "READY_SUSPENDED"} =>
           /\ q \in residentes <=> Con("SUSPENDER_MEM", q) \/ Con("READY", q)
           /\ q \in suspendidos <=> q \notin residentes
    /\ estado[q] = "EXIT" => Con("EXIT_MEM", q)
IInvSitio == ~caido => \A q \in Procs : Sitio(q)

(* A step that does nothing to a process, as Memoria can tell.              *)
Quieta(q) ==
    /\ estado'[q] = estado[q]
    /\ q \in residentes' <=> q \in residentes
    /\ q \in suspendidos' <=> q \in suspendidos
    /\ \A o \in Puntas : Con(o, q)' <=> Con(o, q)

LEMMA SitioIgual == ASSUME NEW q, Sitio(q), Quieta(q) PROVE Sitio(q)'
BY DEF Sitio, Quieta, Puntas

LEMMA SitioDeTodos == ASSUME IInvSitio, ~caido, \A q \in Procs : Quieta(q) PROVE IInvSitio'
BY SitioIgual DEF IInvSitio

Ligera(u) == u \in Seq(Tarea) /\ \A t : Esta(t, u) => t.op \notin Puntas

LEMMA LigeraPocas ==
    /\ Ligera(<<>>)
    /\ \A o \in Ops \ Puntas, x \in Procs \cup {Nadie} : Ligera(<<Por(o, x)>>) /\ Ligera(<<Sola(o)>>)
    /\ \A o, m \in Ops \ Puntas, x, y \in Procs \cup {Nadie} : Ligera(<<Por(o, x), Por(m, y)>>)
<1>1. Ligera(<<>>)
  BY EstaEnVacia DEF Ligera
<1>2. \A o, x : Sola(o) = Por(o, Nadie)
  BY DEF Sola, Por
<1>3. ASSUME NEW t \in Tarea, t.op \notin Puntas PROVE Ligera(<<t>>)
  <2>1. <<t>> \in Seq(Tarea) /\ \A x : Esta(x, <<t>>) <=> x = t
    BY EstaEnUna
  <2> QED
    BY <1>3, <2>1 DEF Ligera
<1>4. ASSUME NEW t \in Tarea, t.op \notin Puntas, NEW v \in Tarea, v.op \notin Puntas
      PROVE  Ligera(<<t, v>>)
  <2>1. <<t, v>> \in Seq(Tarea) /\ \A x : Esta(x, <<t, v>>) <=> x = t \/ x = v
    BY EstaEnDos
  <2> QED
    BY <1>4, <2>1 DEF Ligera
<1>5. \A o \in Ops \ Puntas, x \in Procs \cup {Nadie} : Por(o, x) \in Tarea /\ Por(o, x).op \notin Puntas
  BY PorTarea
<1>6. ASSUME NEW o \in Ops \ Puntas, NEW x \in Procs \cup {Nadie}
      PROVE  Ligera(<<Por(o, x)>>) /\ Ligera(<<Sola(o)>>)
  <2>1. PICK t, v : t = Por(o, x) /\ v = Por(o, Nadie)
    OBVIOUS
  <2>2. Ligera(<<t>>) /\ Ligera(<<v>>)
    BY <1>3, <1>5, <2>1
  <2> QED
    BY <1>2, <2>1, <2>2
<1>7. ASSUME NEW o \in Ops \ Puntas, NEW m \in Ops \ Puntas, NEW x \in Procs \cup {Nadie},
             NEW y \in Procs \cup {Nadie}
      PROVE  Ligera(<<Por(o, x), Por(m, y)>>)
  <2>1. PICK t, v : t = Por(o, x) /\ v = Por(m, y)
    OBVIOUS
  <2>2. Ligera(<<t, v>>)
    BY <1>4, <1>5, <2>1
  <2> QED
    BY <2>1, <2>2
<1> QED
  BY <1>1, <1>6, <1>7

(* A thread goes on, and what it drops and what it takes says nothing of    *)
(* where a process is.                                                      *)
LEMMA QuedanPuntas ==
    ASSUME IInvCiclo, NEW h \in Hilos, pila[h] # <<>>, Head(pila[h]).op \notin Puntas,
           NEW u, Ligera(u), Sigue(h, u)
    PROVE  \A o \in Puntas : \A q : Con(o, q)' <=> Con(o, q)
<1>1. u \in Seq(Tarea) /\ \A o \in Puntas : \A q : ~En(u, o, q)
  BY DEF Ligera, En
<1> QED
  BY <1>1, PilasDelCiclo, ConTras

LEMMA SitioSigue ==
    ASSUME IInvCiclo, IInvSitio, ~caido, NEW h \in Hilos, pila[h] # <<>>, Head(pila[h]).op \notin Puntas,
           NEW u, Ligera(u), Sigue(h, u), UNCHANGED <<estado, residentes, suspendidos>>
    PROVE  IInvSitio'
<1>1. \A q \in Procs : Quieta(q)
  BY QuedanPuntas DEF Quieta
<1> QED
  BY <1>1, SitioDeTodos

(* A thread goes on with p alone.                                           *)
LEMMA SitioDeUno ==
    ASSUME IInvCiclo, IInvSitio, ~caido, NEW h \in Hilos, pila[h] # <<>>, NEW p \in Procs,
           NEW u \in Seq(Tarea), Sigue(h, u),
           \A t : Esta(t, u) => t.pid \in {p, Nadie}, Head(pila[h]).pid \in {p, Nadie},
           \A q \in Procs \ {p} : /\ estado'[q] = estado[q]
                                  /\ q \in residentes' <=> q \in residentes
                                  /\ q \in suspendidos' <=> q \in suspendidos,
           ~caido' => Sitio(p)'
    PROVE  IInvSitio'
<1>1. ASSUME NEW q \in Procs \ {p} PROVE Quieta(q)
  <2>1. q # Nadie /\ q # p
    BY NadieAssumption
  <2>2. \A o : ~En(u, o, q)
    BY <2>1 DEF En
  <2>3. \A o : Con(o, q)' <=> Con(o, q)
    BY <2>1, <2>2, PilasDelCiclo, ConTras
  <2> QED
    BY <2>3 DEF Quieta
<1> QED
  BY <1>1, SitioIgual DEF IInvSitio

LEMMA SitioDeQuietas ==
    ASSUME IInvCiclo, IInvSitio, NEW h \in Hilos, NEW p \in Procs,
           \/ NewTraer(h, p) \/ NewFin(h, p) \/ Bloquear(h, p) \/ Join(h, p)
           \/ TimerArranca(h, p) \/ TimerCancelado(h, p) \/ TimerVence(h, p) \/ TimerRevisa(h, p)
           \/ TimerCancela(h, p) \/ TimerTermina(h, p) \/ ReadySuspendedVer(h, p) \/ ReadyCpu(h, p)
           \/ EncolarIO(h, p) \/ DumpOk(h, p) \/ DumpError(h, p) \/ DumpExit(h, p) \/ Dump(h, p)
    PROVE  IInvSitio'
<1> USE DEF planVars, memVars, otras, Solo
<1>1. ASSUME NEW o \in Ops \ Puntas, Toca(h, o, p), NEW u, Ligera(u), Sigue(h, u),
             UNCHANGED <<estado, residentes, suspendidos>>
      PROVE  IInvSitio'
  <2>1. ~caido /\ pila[h] # <<>> /\ Head(pila[h]).op \notin Puntas
    BY <1>1 DEF Toca, Por
  <2> QED
    BY <1>1, <2>1, SitioSigue
<1>2. \A o \in {"NEW_TRAER", "NEW_INIT", "NEW_FIN", "BLOQUEAR", "JOIN", "CREAR_TIMER", "TIMER", "DORMIR",
                "REVISAR", "SUSPENDER", "FIN_TIMER", "CANCELAR", "RS_VER", "TRAER", "READY_CPU", "EXECUTE",
                "ENCOLAR_IO", "DUMP_OK", "DUMP_FIN", "DUMP_ERROR", "DUMP_EXIT", "EXIT", "DUMP", "DUMP_FALLA"} :
          o \in Ops \ Puntas
  BY DEF Ops, Puntas
<1>3. CASE NewTraer(h, p)
  <2>1. /\ Toca(h, "NEW_TRAER", p) /\ (Sigue(h, <<Por("NEW_INIT", p)>>) \/ Sigue(h, <<Por("NEW_FIN", p)>>))
        /\ UNCHANGED <<estado, residentes, suspendidos>>
    BY <1>3 DEF NewTraer
  <2>2. \E u : Ligera(u) /\ Sigue(h, u)
    BY <1>2, <2>1, LigeraPocas
  <2> QED
    BY <1>1, <1>2, <2>1, <2>2
<1>4. CASE NewFin(h, p)
  <2>1. /\ Toca(h, "NEW_FIN", p) /\ Sigue(h, <<>>)
        /\ UNCHANGED <<estado, residentes, suspendidos>>
    BY <1>4 DEF NewFin
  <2>2. \E u : Ligera(u) /\ Sigue(h, u)
    BY <1>2, <2>1, LigeraPocas
  <2> QED
    BY <1>1, <1>2, <2>1, <2>2
<1>5. CASE Bloquear(h, p)
  <2>1. /\ Toca(h, "BLOQUEAR", p) /\ (\/ Sigue(h, <<Por("JOIN", p), Por("CREAR_TIMER", p)>>)
         \/ Sigue(h, <<Por("CREAR_TIMER", p)>>))
        /\ UNCHANGED <<estado, residentes, suspendidos>>
    BY <1>5 DEF Bloquear
  <2>2. \E u : Ligera(u) /\ Sigue(h, u)
    BY <1>2, <2>1, LigeraPocas
  <2> QED
    BY <1>1, <1>2, <2>1, <2>2
<1>6. CASE Join(h, p)
  <2>1. /\ Toca(h, "JOIN", p) /\ Sigue(h, <<>>)
        /\ UNCHANGED <<estado, residentes, suspendidos>>
    BY <1>6 DEF Join
  <2>2. \E u : Ligera(u) /\ Sigue(h, u)
    BY <1>2, <2>1, LigeraPocas
  <2> QED
    BY <1>1, <1>2, <2>1, <2>2
<1>7. CASE TimerArranca(h, p)
  <2>1. /\ Toca(h, "TIMER", p) /\ Sigue(h, <<Por("DORMIR", p)>>)
        /\ UNCHANGED <<estado, residentes, suspendidos>>
    BY <1>7 DEF TimerArranca
  <2>2. \E u : Ligera(u) /\ Sigue(h, u)
    BY <1>2, <2>1, LigeraPocas
  <2> QED
    BY <1>1, <1>2, <2>1, <2>2
<1>8. CASE TimerCancelado(h, p)
  <2>1. /\ Toca(h, "DORMIR", p) /\ Sigue(h, <<>>)
        /\ UNCHANGED <<estado, residentes, suspendidos>>
    BY <1>8 DEF TimerCancelado
  <2>2. \E u : Ligera(u) /\ Sigue(h, u)
    BY <1>2, <2>1, LigeraPocas
  <2> QED
    BY <1>1, <1>2, <2>1, <2>2
<1>9. CASE TimerVence(h, p)
  <2>1. /\ Toca(h, "DORMIR", p) /\ (Sigue(h, <<Por("REVISAR", p)>>) \/ Sigue(h, <<Por("FIN_TIMER", p)>>))
        /\ UNCHANGED <<estado, residentes, suspendidos>>
    BY <1>9 DEF TimerVence
  <2>2. \E u : Ligera(u) /\ Sigue(h, u)
    BY <1>2, <2>1, LigeraPocas
  <2> QED
    BY <1>1, <1>2, <2>1, <2>2
<1>10. CASE TimerRevisa(h, p)
  <2>1. /\ Toca(h, "REVISAR", p) /\ (\/ Sigue(h, <<Por("SUSPENDER", p), Por("FIN_TIMER", p)>>)
         \/ Sigue(h, <<Por("FIN_TIMER", p)>>))
        /\ UNCHANGED <<estado, residentes, suspendidos>>
    BY <1>10 DEF TimerRevisa
  <2>2. \E u : Ligera(u) /\ Sigue(h, u)
    BY <1>2, <2>1, LigeraPocas
  <2> QED
    BY <1>1, <1>2, <2>1, <2>2
<1>11. CASE TimerCancela(h, p)
  <2>1. /\ Toca(h, "CANCELAR", p) /\ (Sigue(h, <<Por("JOIN", p)>>) \/ Sigue(h, <<>>))
        /\ UNCHANGED <<estado, residentes, suspendidos>>
    BY <1>11 DEF TimerCancela
  <2>2. \E u : Ligera(u) /\ Sigue(h, u)
    BY <1>2, <2>1, LigeraPocas
  <2> QED
    BY <1>1, <1>2, <2>1, <2>2
<1>12. CASE TimerTermina(h, p)
  <2>1. /\ Toca(h, "FIN_TIMER", p) /\ Sigue(h, <<>>)
        /\ UNCHANGED <<estado, residentes, suspendidos>>
    BY <1>12 DEF TimerTermina
  <2>2. \E u : Ligera(u) /\ Sigue(h, u)
    BY <1>2, <2>1, LigeraPocas
  <2> QED
    BY <1>1, <1>2, <2>1, <2>2
<1>13. CASE ReadySuspendedVer(h, p)
  <2>1. /\ Toca(h, "RS_VER", p) /\ (Sigue(h, <<Sola("TRAER")>>) \/ Sigue(h, <<>>))
        /\ UNCHANGED <<estado, residentes, suspendidos>>
    BY <1>13 DEF ReadySuspendedVer, TraerSiEsUnico
  <2>2. \E u : Ligera(u) /\ Sigue(h, u)
    BY <1>2, <2>1, LigeraPocas
  <2> QED
    BY <1>1, <1>2, <2>1, <2>2
<1>14. CASE ReadyCpu(h, p)
  <2>1. /\ Toca(h, "READY_CPU", p) /\ (Sigue(h, <<Por("EXECUTE", p)>>) \/ Sigue(h, <<>>))
        /\ UNCHANGED <<estado, residentes, suspendidos>>
    BY <1>14 DEF ReadyCpu
  <2>2. \E u : Ligera(u) /\ Sigue(h, u)
    BY <1>2, <2>1, LigeraPocas
  <2> QED
    BY <1>1, <1>2, <2>1, <2>2
<1>15. CASE EncolarIO(h, p)
  <2>1. /\ Toca(h, "ENCOLAR_IO", p) /\ Sigue(h, <<>>)
        /\ UNCHANGED <<estado, residentes, suspendidos>>
    BY <1>15 DEF EncolarIO
  <2>2. \E u : Ligera(u) /\ Sigue(h, u)
    BY <1>2, <2>1, LigeraPocas
  <2> QED
    BY <1>1, <1>2, <2>1, <2>2
<1>16. CASE DumpOk(h, p)
  <2>1. /\ Toca(h, "DUMP_OK", p) /\ Sigue(h, <<Por("JOIN", p), Por("DUMP_FIN", p)>>)
        /\ UNCHANGED <<estado, residentes, suspendidos>>
    BY <1>16 DEF DumpOk
  <2>2. \E u : Ligera(u) /\ Sigue(h, u)
    BY <1>2, <2>1, LigeraPocas
  <2> QED
    BY <1>1, <1>2, <2>1, <2>2
<1>17. CASE DumpError(h, p)
  <2>1. /\ Toca(h, "DUMP_ERROR", p) /\ Sigue(h, <<Por("JOIN", p), Por("DUMP_EXIT", p)>>)
        /\ UNCHANGED <<estado, residentes, suspendidos>>
    BY <1>17 DEF DumpError
  <2>2. \E u : Ligera(u) /\ Sigue(h, u)
    BY <1>2, <2>1, LigeraPocas
  <2> QED
    BY <1>1, <1>2, <2>1, <2>2
<1>18. CASE DumpExit(h, p)
  <2>1. /\ Toca(h, "DUMP_EXIT", p) /\ Sigue(h, <<Por("EXIT", p)>>)
        /\ UNCHANGED <<estado, residentes, suspendidos>>
    BY <1>18 DEF DumpExit
  <2>2. \E u : Ligera(u) /\ Sigue(h, u)
    BY <1>2, <2>1, LigeraPocas
  <2> QED
    BY <1>1, <1>2, <2>1, <2>2
<1>19. CASE Dump(h, p)
  <2>1. PICK o \in {"DUMP", "DUMP_FALLA"}, m \in {"DUMP_OK", "DUMP_ERROR"} :
             Toca(h, o, p) /\ Sigue(h, <<Por(m, p)>>)
    BY <1>19 DEF Dump
  <2>2. UNCHANGED <<estado, residentes, suspendidos>>
    BY <1>19 DEF Dump
  <2>3. \E u : Ligera(u) /\ Sigue(h, u)
    BY <1>2, <2>1, LigeraPocas
  <2> QED
    BY <1>1, <1>2, <2>1, <2>2, <2>3
<1> QED
  BY <1>3, <1>4, <1>5, <1>6, <1>7, <1>8, <1>9, <1>10, <1>11, <1>12, <1>13, <1>14, <1>15, <1>16, <1>17, <1>18, <1>19

LEMMA TocaAlgo ==
    ASSUME IInvCiclo, NEW h \in Hilos, NEW o, NEW p \in Procs \cup {Nadie}, Toca(h, o, p)
    PROVE  /\ ~caido /\ pila[h] # <<>> /\ Head(pila[h]).op = o /\ Head(pila[h]).pid = p
           /\ Con(o, p)
<1>1. ~caido /\ pila[h] # <<>> /\ Head(pila[h]).op = o /\ Head(pila[h]).pid = p
  BY DEF Toca, Por
<1>2. Esta(Head(pila[h]), pila[h])
  BY <1>1, PilasDelCiclo, Cabeza
<1> QED
  BY <1>1, <1>2 DEF Con, Hay

(* Memoria takes a process in, and READY is next.                           *)
LEMMA SitioAdmite ==
    ASSUME IInvCiclo, IInvSitio, ~caido, NEW h \in Hilos, pila[h] # <<>>, NEW p \in Procs,
           Head(pila[h]).pid \in {p, Nadie}, NEW v \in Tarea, v.pid \in {p, Nadie},
           Sigue(h, <<Por("READY", p), v>>), estado[p] \in {"NEW", "READY_SUSPENDED"},
           UNCHANGED estado, residentes' = residentes \cup {p}, suspendidos' = suspendidos \ {p}
    PROVE  IInvSitio'
<1>1. PICK t, u : /\ t = Por("READY", p) /\ t \in Tarea /\ t.op = "READY" /\ t.pid = p
                  /\ u = <<t, v>>
  <2>1. "READY" \in Ops
    BY DEF Ops
  <2> QED
    BY <2>1, PorTarea
<1>2. u \in Seq(Tarea) /\ \A x : Esta(x, u) <=> x = t \/ x = v
  BY <1>1, EstaEnDos
<1>3. Sigue(h, u) /\ En(u, "READY", p) /\ \A x : Esta(x, u) => x.pid \in {p, Nadie}
  BY <1>1, <1>2 DEF En
<1>4. Con("READY", p)'
  BY <1>2, <1>3, PilasDelCiclo, ConTras
<1>5. Sitio(p)'
  BY <1>4 DEF Sitio, NoNatos
<1> QED
  BY <1>2, <1>3, <1>5, SitioDeUno

LEMMA SitioDeNewInit ==
    ASSUME IInvCiclo, IInvSitio, NEW h \in Hilos, NEW p \in Procs, NewInit(h, p), ~AdmiteDosVeces
    PROVE  IInvSitio'
<1>1. Toca(h, "NEW_INIT", p) /\ UNCHANGED estado
  BY DEF NewInit, planVars
<1>2. ~caido /\ pila[h] # <<>> /\ Head(pila[h]).op = "NEW_INIT" /\ Head(pila[h]).pid = p
  BY <1>1, TocaAlgo
<1>3. "NEW_FIN" \in Ops \ Puntas /\ "NEW_INIT" \notin Puntas
  BY DEF Ops, Puntas
<1>4. CASE Entra(p)
  <2>1. estado[p] = "NEW"
    BY <1>4 DEF AdmiteDosVeces
  <2>2. p \notin suspendidos
    BY <1>2, <2>1 DEF IInvSitio, Sitio
  <2>3. PICK v : v = Por("NEW_FIN", p) /\ v \in Tarea /\ v.pid = p
    BY <1>3, PorTarea
  <2>4. /\ Sigue(h, <<Por("READY", p), v>>)
        /\ residentes' = residentes \cup {p} /\ suspendidos' = suspendidos \ {p}
    BY <1>4, <2>2, <2>3 DEF NewInit, MemInit
  <2> QED
    BY <1>1, <1>2, <2>1, <2>3, <2>4, SitioAdmite
<1>5. CASE ~Entra(p)
  <2>1. PICK u : u = <<Por("NEW_FIN", p)>> /\ Ligera(u)
    BY <1>3, LigeraPocas
  <2>2. Sigue(h, u) /\ UNCHANGED <<residentes, suspendidos>>
    BY <1>5, <2>1 DEF NewInit, memVars
  <2> QED
    BY <1>1, <1>2, <1>3, <2>1, <2>2, SitioSigue
<1> QED
  BY <1>4, <1>5

LEMMA SitioDeTraer ==
    ASSUME IInvCiclo, IInvSitio, NEW h \in Hilos, TraerRS(h) \/ TraerNew(h), ~AdmiteDosVeces
    PROVE  IInvSitio'
<1>1. "READY_SUSPENDED" \in Colas /\ "NEW" \in Colas
  BY DEF Colas
<1>2. \A o \in {"TRAER_RS", "TRAER_NEW", "PEDIR_NEW"} : o \in Ops \ Puntas
  BY DEF Ops, Puntas
<1>3. UNCHANGED estado /\ (Toca(h, "TRAER_RS", Nadie) \/ Toca(h, "PEDIR_NEW", Nadie))
  BY DEF TraerRS, TraerNew, planVars
<1>4. ~caido /\ pila[h] # <<>> /\ Head(pila[h]).pid = Nadie /\ Head(pila[h]).op \notin Puntas
  BY <1>2, <1>3, TocaAlgo
<1>5. CASE TraerRS(h)
  <2>1. PICK p, v : p = Elegido("READY_SUSPENDED") /\ v = Sola("TRAER_RS")
    OBVIOUS
  <2>2. CASE cola["READY_SUSPENDED"] # <<>> /\ p \in suspendidos /\ Entra(p)
    <3>1. p \in Procs /\ estado[p] = "READY_SUSPENDED"
      BY <1>1, <2>1, <2>2, EnColaEs DEF Elegido
    <3>2. /\ Sigue(h, <<Por("READY", p), v>>)
          /\ residentes' = residentes \cup {p} /\ suspendidos' = suspendidos \ {p}
      BY <1>5, <2>1, <2>2 DEF TraerRS, MemDesuspender
    <3>3. v \in Tarea /\ v.pid = Nadie
      BY <1>2, <2>1, CalladasSolas DEF Sueltas
    <3> QED
      BY <1>3, <1>4, <3>1, <3>2, <3>3, SitioAdmite
  <2>3. CASE ~(cola["READY_SUSPENDED"] # <<>> /\ p \in suspendidos /\ Entra(p))
    <3>1. Sigue(h, <<Sola("TRAER_NEW")>>) /\ UNCHANGED <<residentes, suspendidos>>
      BY <1>5, <2>1, <2>3 DEF TraerRS, memVars
    <3>2. Ligera(<<Sola("TRAER_NEW")>>)
      BY <1>2, LigeraPocas
    <3> QED
      BY <1>3, <1>4, <3>1, <3>2, SitioSigue
  <2> QED
    BY <2>2, <2>3
<1>6. CASE TraerNew(h)
  <2>1. PICK p, v : p = Elegido("NEW") /\ v = Sola("TRAER_NEW")
    OBVIOUS
  <2>2. CASE cola["NEW"] # <<>> /\ Entra(p)
    <3>1. p \in Procs /\ estado[p] = "NEW"
      BY <1>1, <2>1, <2>2, EnColaEs DEF Elegido
    <3>2. p \notin suspendidos
      BY <1>4, <3>1 DEF IInvSitio, Sitio
    <3>3. /\ Sigue(h, <<Por("READY", p), v>>)
          /\ residentes' = residentes \cup {p} /\ suspendidos' = suspendidos \ {p}
      BY <1>6, <2>1, <2>2, <3>2 DEF TraerNew, MemInit
    <3>4. v \in Tarea /\ v.pid = Nadie
      BY <1>2, <2>1, CalladasSolas DEF Sueltas
    <3> QED
      BY <1>3, <1>4, <3>1, <3>3, <3>4, SitioAdmite
  <2>3. CASE ~(cola["NEW"] # <<>> /\ Entra(p))
    <3>1. Sigue(h, <<>>) /\ UNCHANGED <<residentes, suspendidos>>
      BY <1>6, <2>1, <2>3 DEF TraerNew, memVars
    <3> QED
      BY <1>3, <1>4, <3>1, LigeraPocas, SitioSigue
  <2> QED
    BY <2>2, <2>3
<1> QED
  BY <1>5, <1>6

LEMMA SitioDePlanificador ==
    ASSUME IInvCiclo, IInvSitio, NEW h \in Hilos, DePlanificador(h), ~AdmiteDosVeces
    PROVE  IInvSitio'
<1>1. ASSUME NEW o \in Ops \ Puntas, Toca(h, o, Nadie), NEW u, Ligera(u), Sigue(h, u),
             UNCHANGED <<estado, residentes, suspendidos>>
      PROVE  IInvSitio'
  <2>1. ~caido /\ pila[h] # <<>> /\ Head(pila[h]).op \notin Puntas
    BY <1>1, TocaAlgo
  <2> QED
    BY <1>1, <2>1, SitioSigue
<1>2. \A o \in {"TRAER", "TRAER_RS", "TRAER_NEW", "PEDIR_NEW", "MANDAR", "MANDAR_VER", "MANDAR_TOMAR",
                "EXECUTE"} : o \in Ops \ Puntas
  BY DEF Ops, Puntas
<1>3. CASE TraerEntra(h)
  <2>1. /\ Toca(h, "TRAER", Nadie) /\ Sigue(h, <<Sola("TRAER_RS")>>)
        /\ UNCHANGED <<estado, residentes, suspendidos>>
    BY <1>3 DEF TraerEntra, planVars, memVars
  <2>2. \E u : Ligera(u) /\ Sigue(h, u)
    BY <1>2, <2>1, LigeraPocas
  <2> QED
    BY <1>1, <1>2, <2>1, <2>2
<1>4. CASE TraerVerNew(h)
  <2>1. /\ Toca(h, "TRAER_NEW", Nadie) /\ (Sigue(h, <<>>) \/ Sigue(h, <<Sola("PEDIR_NEW")>>))
        /\ UNCHANGED <<estado, residentes, suspendidos>>
    BY <1>4 DEF TraerVerNew, planVars, memVars
  <2>2. \E u : Ligera(u) /\ Sigue(h, u)
    BY <1>2, <2>1, LigeraPocas
  <2> QED
    BY <1>1, <1>2, <2>1, <2>2
<1>5. CASE MandarEntra(h)
  <2>1. /\ Toca(h, "MANDAR", Nadie) /\ Sigue(h, <<Sola("MANDAR_VER")>>)
        /\ UNCHANGED <<estado, residentes, suspendidos>>
    BY <1>5 DEF MandarEntra, planVars, memVars
  <2>2. \E u : Ligera(u) /\ Sigue(h, u)
    BY <1>2, <2>1, LigeraPocas
  <2> QED
    BY <1>1, <1>2, <2>1, <2>2
<1>6. CASE MandarVer(h)
  <2>1. /\ Toca(h, "MANDAR_VER", Nadie) /\ (Sigue(h, <<>>) \/ Sigue(h, <<Sola("MANDAR_TOMAR")>>))
        /\ UNCHANGED <<estado, residentes, suspendidos>>
    BY <1>6 DEF MandarVer, planVars, memVars
  <2>2. \E u : Ligera(u) /\ Sigue(h, u)
    BY <1>2, <2>1, LigeraPocas
  <2> QED
    BY <1>1, <1>2, <2>1, <2>2
<1>7. CASE MandarTomar(h)
  <2>1. Toca(h, "MANDAR_TOMAR", Nadie) /\ UNCHANGED <<estado, residentes, suspendidos>>
    BY <1>7 DEF MandarTomar, planVars, memVars
  <2>2. CASE CpusDisponibles # {} /\ cola["READY"] # <<>>
    <3>1. PICK p : p = Head(cola["READY"])
      OBVIOUS
    <3>2. p \in Procs
      BY <2>2, <3>1, EnColaEs DEF Colas
    <3>3. Sigue(h, <<Por("EXECUTE", p), Sola("MANDAR_VER")>>)
      BY <1>7, <2>2, <3>1 DEF MandarTomar
    <3>4. Sola("MANDAR_VER") = Por("MANDAR_VER", Nadie)
      BY DEF Sola, Por
    <3>5. PICK u : u = <<Por("EXECUTE", p), Por("MANDAR_VER", Nadie)>>
      OBVIOUS
    <3>6. Ligera(u) /\ Sigue(h, u)
      BY <1>2, <3>2, <3>3, <3>4, <3>5, LigeraPocas
    <3> QED
      BY <1>1, <1>2, <2>1, <3>6
  <2>3. CASE ~(CpusDisponibles # {} /\ cola["READY"] # <<>>)
    <3>1. Sigue(h, <<>>)
      BY <1>7, <2>3 DEF MandarTomar
    <3> QED
      BY <1>1, <1>2, <2>1, <3>1, LigeraPocas
  <2> QED
    BY <2>2, <2>3
<1> QED
  BY <1>3, <1>4, <1>5, <1>6, <1>7, SitioDeTraer DEF DePlanificador

(* A thread takes p to another state and nobody asks Memoria for it.        *)
LEMMA SitioCambia ==
    ASSUME IInvCiclo, IInvSitio, NEW h \in Hilos, NEW p \in Procs, NEW o \in Ops \ Puntas, Toca(h, o, p),
           NEW m \in Ops \ Puntas, Sigue(h, <<Por(m, p)>>), NEW e, CambiarEstado(p, e),
           UNCHANGED <<residentes, suspendidos>>,
           (\A x \in Puntas : Con(x, p)' <=> Con(x, p)) /\ estado'[p] = e => Sitio(p)'
    PROVE  IInvSitio'
<1>1. /\ ~caido /\ pila[h] # <<>> /\ Head(pila[h]).op \notin Puntas
  BY TocaAlgo
<1>2. PICK u : u = <<Por(m, p)>> /\ Ligera(u)
  BY LigeraPocas
<1>3. \A x \in Puntas : \A q : Con(x, q)' <=> Con(x, q)
  BY <1>1, <1>2, QuedanPuntas
<1>4. estado'[p] = e /\ \A q \in Procs \ {p} : estado'[q] = estado[q]
  BY PilasDelCiclo DEF CambiarEstado
<1>5. ASSUME NEW q \in Procs \ {p} PROVE Sitio(q)'
  BY <1>1, <1>3, <1>4, SitioIgual DEF IInvSitio, Quieta
<1>6. Sitio(p)'
  BY <1>3, <1>4
<1> QED
  BY <1>5, <1>6 DEF IInvSitio

LEMMA SitioDeEstados ==
    ASSUME IInvCiclo, IInvSitio, NEW h \in Hilos, NEW p \in Procs,
           New(h, p) \/ Execute(h, p) \/ Blocked(h, p) \/ ReadySuspended(h, p)
    PROVE  IInvSitio'
<1> USE DEF memVars
<1>1. \A o \in {"NEW", "NEW_TRAER", "EXECUTE", "ENVIAR", "BLOCKED", "BLOQUEAR", "READY_SUSPENDED", "RS_VER"} :
          o \in Ops \ Puntas
  BY DEF Ops, Puntas
<1>2. EnRumbo(p)
  BY DEF IInvCiclo
<1>3. "EXECUTE" \in Mueven /\ "READY_SUSPENDED" \in Mueven /\ "READY" \in Mueven
  BY DEF Mueven
<1>4. CASE New(h, p)
  <2>1. /\ Toca(h, "NEW", p) /\ Sigue(h, <<Por("NEW_TRAER", p)>>) /\ CambiarEstado(p, "NEW")
        /\ UNCHANGED <<residentes, suspendidos>>
    BY <1>4 DEF New
  <2>2. estado[p] = "CREADO"
    <3>1. Esta(Head(pila[h]), pila[h]) /\ Head(pila[h]).op = "NEW" /\ Head(pila[h]).pid = p
      BY <2>1, TocaAlgo, PilasDelCiclo, Cabeza
    <3> QED
      BY <3>1 DEF IInvCiclo, IInvOrden, SoloNacidos
  <2>3. ~Con("READY", p)
    BY <1>3, <2>2, EsperaQuieto DEF NoNatos, Suelto
  <2>4. p \notin residentes /\ p \notin suspendidos
    BY <2>1, <2>2, TocaAlgo DEF IInvSitio, Sitio, NoNatos
  <2>5. (\A x \in Puntas : Con(x, p)' <=> Con(x, p)) /\ estado'[p] = "NEW" => Sitio(p)'
    BY <2>1, <2>3, <2>4 DEF Sitio, Puntas, NoNatos
  <2> QED
    BY <1>1, <2>1, <2>5, SitioCambia
<1>5. CASE Execute(h, p)
  <2>1. /\ Toca(h, "EXECUTE", p) /\ Sigue(h, <<Por("ENVIAR", p)>>) /\ CambiarEstado(p, "EXECUTE")
        /\ UNCHANGED <<residentes, suspendidos>>
    BY <1>5 DEF Execute
  <2>2. estado[p] = "READY"
    BY <1>2, <1>3, <2>1, TocaAlgo DEF EnRumbo, Motivo
  <2>3. p \in residentes /\ p \notin suspendidos
    BY <2>1, <2>2, TocaAlgo DEF IInvSitio, Sitio
  <2>4. (\A x \in Puntas : Con(x, p)' <=> Con(x, p)) /\ estado'[p] = "EXECUTE" => Sitio(p)'
    BY <2>1, <2>3 DEF Sitio, NoNatos
  <2> QED
    BY <1>1, <2>1, <2>4, SitioCambia
<1>6. CASE Blocked(h, p)
  <2>1. /\ Toca(h, "BLOCKED", p) /\ Sigue(h, <<Por("BLOQUEAR", p)>>) /\ CambiarEstado(p, "BLOCKED")
        /\ UNCHANGED <<residentes, suspendidos>>
    BY <1>6 DEF Blocked
  <2>2. estado[p] = "EXECUTE"
    BY <1>2, <2>1, TocaAlgo DEF EnRumbo
  <2>3. p \in residentes /\ p \notin suspendidos
    BY <2>1, <2>2, TocaAlgo DEF IInvSitio, Sitio
  <2>4. (\A x \in Puntas : Con(x, p)' <=> Con(x, p)) /\ estado'[p] = "BLOCKED" => Sitio(p)'
    BY <2>1, <2>3 DEF Sitio, NoNatos
  <2> QED
    BY <1>1, <2>1, <2>4, SitioCambia
<1>7. CASE ReadySuspended(h, p)
  <2>1. Toca(h, "READY_SUSPENDED", p) /\ UNCHANGED <<residentes, suspendidos>>
    BY <1>7 DEF ReadySuspended
  <2>2. estado[p] = "BLOCKED_SUSPENDED"
    BY <1>2, <1>3, <2>1, TocaAlgo DEF EnRumbo, Motivo
  <2>3. Sigue(h, <<Por("RS_VER", p)>>) /\ CambiarEstado(p, "READY_SUSPENDED")
    BY <1>7, <2>2 DEF ReadySuspended
  <2>4. Sitio(p)
    BY <2>1, TocaAlgo DEF IInvSitio
  <2>5. (\A x \in Puntas : Con(x, p)' <=> Con(x, p)) /\ estado'[p] = "READY_SUSPENDED" => Sitio(p)'
    BY <2>1, <2>2, <2>4 DEF Sitio, Puntas, NoNatos
  <2> QED
    BY <1>1, <2>1, <2>3, <2>5, SitioCambia
<1> QED
  BY <1>4, <1>5, <1>6, <1>7

(* A thread takes p a step further, and what it leaves is one task.         *)
LEMMA SitioMueve ==
    ASSUME IInvCiclo, IInvSitio, NEW h \in Hilos, NEW p \in Procs, NEW o, Toca(h, o, p),
           NEW m \in Ops, Sigue(h, <<Por(m, p)>>),
           \A q \in Procs \ {p} : /\ estado'[q] = estado[q]
                                  /\ q \in residentes' <=> q \in residentes
                                  /\ q \in suspendidos' <=> q \in suspendidos,
           Con(m, p)' /\ (\A x : x # o /\ x # m => (Con(x, p)' <=> Con(x, p))) => Sitio(p)'
    PROVE  IInvSitio'
<1>1. ~caido /\ pila[h] # <<>> /\ Head(pila[h]).op = o /\ Head(pila[h]).pid = p
  BY TocaAlgo
<1>2. PICK t, u : /\ t = Por(m, p) /\ t \in Tarea /\ t.op = m /\ t.pid = p /\ u = <<t>>
  BY PorTarea
<1>3. u \in Seq(Tarea) /\ \A x : Esta(x, u) <=> x = t
  BY <1>2, EstaEnUna
<1>4. Sigue(h, u) /\ \A x, q : En(u, x, q) <=> x = m /\ q = p
  BY <1>2, <1>3 DEF En
<1>5. Con(m, p)' /\ \A x : x # o /\ x # m => (Con(x, p)' <=> Con(x, p))
  BY <1>1, <1>3, <1>4, PilasDelCiclo, ConTras
<1>6. \A x : Esta(x, u) => x.pid \in {p, Nadie}
  BY <1>2, <1>3
<1> QED
  BY <1>1, <1>3, <1>4, <1>5, <1>6, SitioDeUno

LEMMA SitioDeReady ==
    ASSUME IInvCiclo, IInvSitio, NEW h \in Hilos, NEW p \in Procs, Ready(h, p)
    PROVE  IInvSitio'
<1>1. /\ Toca(h, "READY", p) /\ Sigue(h, <<Por("READY_CPU", p)>>) /\ CambiarEstado(p, "READY")
      /\ UNCHANGED <<residentes, suspendidos>>
  BY DEF Ready, memVars
<1>2. Con("READY", p) /\ ~caido
  BY <1>1, TocaAlgo
<1>3. estado[p] \in {"NEW", "READY_SUSPENDED", "BLOCKED"}
  <2>1. "READY" \in Mueven
    BY DEF Mueven
  <2> QED
    BY <1>2, <2>1 DEF IInvCiclo, EnRumbo, Motivo
<1>4. p \in residentes /\ p \notin suspendidos
  BY <1>2, <1>3 DEF IInvSitio, Sitio
<1>5. estado'[p] = "READY" /\ \A q \in Procs \ {p} : estado'[q] = estado[q]
  BY <1>1, PilasDelCiclo DEF CambiarEstado
<1>6. Sitio(p)'
  BY <1>1, <1>4, <1>5 DEF Sitio, NoNatos
<1>7. "READY_CPU" \in Ops
  BY DEF Ops
<1> QED
  BY <1>1, <1>5, <1>6, <1>7, SitioMueve

LEMMA SitioDeExit ==
    ASSUME IInvCiclo, IInvSitio, NEW h \in Hilos, NEW p \in Procs, Exit(h, p)
    PROVE  IInvSitio'
<1>1. /\ Toca(h, "EXIT", p) /\ Sigue(h, <<Por("EXIT_MEM", p)>>) /\ CambiarEstado(p, "EXIT")
      /\ UNCHANGED <<residentes, suspendidos>>
  BY DEF Exit, memVars
<1>2. estado'[p] = "EXIT" /\ \A q \in Procs \ {p} : estado'[q] = estado[q]
  BY <1>1, PilasDelCiclo DEF CambiarEstado
<1>3. Con("EXIT_MEM", p)' => Sitio(p)'
  BY <1>2 DEF Sitio, NoNatos
<1>4. "EXIT_MEM" \in Ops
  BY DEF Ops
<1> QED
  BY <1>1, <1>2, <1>3, <1>4, SitioMueve

LEMMA SitioDeExitMem ==
    ASSUME IInvCiclo, IInvSitio, NEW h \in Hilos, NEW p \in Procs, ExitMem(h, p)
    PROVE  IInvSitio'
<1>1. /\ Toca(h, "EXIT_MEM", p) /\ Sigue(h, <<Sola("TRAER")>>)
      /\ estado' = [estado EXCEPT ![p] = "ELIMINADO"]
      /\ residentes' = residentes \ {p} /\ suspendidos' = suspendidos \ {p}
  BY DEF ExitMem, MemFinalizar, DespuesDelExit
<1>2. estado'[p] = "ELIMINADO" /\ \A q \in Procs \ {p} : estado'[q] = estado[q]
  BY <1>1, PilasDelCiclo
<1>3. Sitio(p)'
  BY <1>1, <1>2 DEF Sitio, NoNatos
<1>4. PICK t, u : t = Sola("TRAER") /\ t \in Tarea /\ t.pid = Nadie /\ u = <<t>>
  <2>1. "TRAER" \in Sueltas
    BY DEF Sueltas
  <2> QED
    BY <2>1, SolaTarea
<1>5. u \in Seq(Tarea) /\ \A x : Esta(x, u) <=> x = t
  BY <1>4, EstaEnUna
<1>6. ~caido /\ pila[h] # <<>> /\ Head(pila[h]).pid = p /\ Sigue(h, u) /\ \A x : Esta(x, u) => x.pid \in {p, Nadie}
  BY <1>1, <1>4, <1>5, TocaAlgo
<1>7. \A q \in Procs \ {p} : (q \in residentes' <=> q \in residentes) /\ (q \in suspendidos' <=> q \in suspendidos)
  BY <1>1
<1> QED
  BY <1>2, <1>3, <1>5, <1>6, <1>7, SitioDeUno

LEMMA SitioDeSuspender ==
    ASSUME IInvCiclo, IInvSitio, NEW h \in Hilos, NEW p \in Procs, Suspender(h, p)
    PROVE  IInvSitio'
<1>1. Toca(h, "SUSPENDER", p) /\ UNCHANGED <<residentes, suspendidos>>
  BY DEF Suspender, memVars
<1>2. ~caido /\ pila[h] # <<>> /\ Head(pila[h]).op = "SUSPENDER" /\ Head(pila[h]).pid = p
  BY <1>1, TocaAlgo
<1>3. "SUSPENDER_MEM" \in Ops /\ "CANCELAR" \in Ops \ Puntas /\ "SUSPENDER" \notin Puntas
  BY DEF Ops, Puntas
<1>4. CASE Suspendible(p)
  <2>1. /\ Sigue(h, <<Por("SUSPENDER_MEM", p)>>) /\ CambiarEstado(p, "BLOCKED_SUSPENDED")
        /\ estado[p] = "BLOCKED"
    BY <1>4 DEF Suspender, Suspendible
  <2>2. estado'[p] = "BLOCKED_SUSPENDED" /\ \A q \in Procs \ {p} : estado'[q] = estado[q]
    BY <2>1, PilasDelCiclo DEF CambiarEstado
  <2>3. p \in residentes /\ p \notin suspendidos
    BY <1>2, <2>1 DEF IInvSitio, Sitio
  <2>4. Con("SUSPENDER_MEM", p)' => Sitio(p)'
    BY <1>1, <2>2, <2>3 DEF Sitio, NoNatos
  <2> QED
    BY <1>1, <1>3, <2>1, <2>2, <2>4, SitioMueve
<1>5. CASE ~Suspendible(p)
  <2>1. Sigue(h, <<Por("CANCELAR", p)>>) /\ UNCHANGED estado
    BY <1>5 DEF Suspender, planVars
  <2>2. PICK u : u = <<Por("CANCELAR", p)>> /\ Ligera(u)
    BY <1>3, LigeraPocas
  <2> QED
    BY <1>1, <1>2, <1>3, <2>1, <2>2, SitioSigue
<1> QED
  BY <1>4, <1>5

LEMMA SitioDeSuspenderMem ==
    ASSUME IInvCiclo, IInvSitio, NEW h \in Hilos, NEW p \in Procs, SuspenderMem(h, p)
    PROVE  IInvSitio'
<1>1. /\ Toca(h, "SUSPENDER_MEM", p) /\ UNCHANGED estado /\ (~caido' => p \in residentes)
      /\ Sigue(h, <<Sola("TRAER"), Por("CANCELAR", p)>>)
      /\ residentes' = residentes \ {p} /\ suspendidos' = suspendidos \cup {p}
  BY DEF SuspenderMem, MemSuspender, planVars
<1>2. /\ ~caido /\ pila[h] # <<>> /\ Head(pila[h]).op = "SUSPENDER_MEM" /\ Head(pila[h]).pid = p
      /\ Con("SUSPENDER_MEM", p) /\ EnRumbo(p) /\ Sitio(p)
  BY <1>1, TocaAlgo DEF IInvCiclo, IInvSitio
<1>3. "TRAER" \in Sueltas /\ "CANCELAR" \in Ops /\ "READY" \in Mueven
  BY DEF Sueltas, Ops, Mueven
<1>4. PICK t, v, u : /\ t = Sola("TRAER") /\ t \in Tarea /\ t.pid = Nadie /\ t.op = "TRAER"
                     /\ v = Por("CANCELAR", p) /\ v \in Tarea /\ v.pid = p /\ v.op = "CANCELAR"
                     /\ u = <<t, v>>
  <2>1. PICK t : t = Sola("TRAER") /\ t \in Tarea /\ t.pid = Nadie /\ t.op = "TRAER"
    BY <1>3, SolaTarea
  <2>2. PICK v : v = Por("CANCELAR", p) /\ v \in Tarea /\ v.pid = p /\ v.op = "CANCELAR"
    BY <1>3, PorTarea
  <2> QED
    BY <2>1, <2>2
<1>5. u \in Seq(Tarea) /\ (\A x : Esta(x, u) <=> x = t \/ x = v) /\ Sigue(h, u)
  BY <1>1, <1>4, EstaEnDos
<1>6. \A o \in Puntas : ~En(u, o, p)
  BY <1>4, <1>5 DEF En, Puntas
<1>7. /\ \A o \in Puntas : Con(o, p)' => Con(o, p)
      /\ Con("EXIT_MEM", p) => Con("EXIT_MEM", p)'
  BY <1>2, <1>5, <1>6, PilasDelCiclo, ConTras DEF Puntas
<1>8. ~Con("SUSPENDER_MEM", p)'
  <2>1. Ninguna(u, AMem(p)) /\ Unica(u, AMem(p))
    <3>1. Ninguna(u, AMem(p))
      BY <1>4, <1>5 DEF Ninguna, AMem
    <3> QED
      BY <3>1, UnicaEnNinguna
  <2>2. Head(pila[h]) \in AMem(p) /\ pila \in [Hilos -> Seq(Tarea)]
    BY <1>2, PilasDelCiclo, Cabeza DEF AMem
  <2>3. \A x \in AMem(p) : ~Hay(x)'
    BY <1>2, <1>5, <2>1, <2>2, UnaTras DEF EnRumbo, Ninguna
  <2>4. pila' \in [Hilos -> Seq(Tarea)]
    <3>1. u \o Tail(pila[h]) \in Seq(Tarea)
      BY <1>2, <1>5, <2>2, TrasLaPrimera
    <3> QED
      BY <1>5, <2>2, <3>1 DEF Sigue
  <2>5. \A x : Hay(x)' => x \in Tarea
    BY <2>4, ElementoDe DEF Hay
  <2> QED
    BY <2>3, <2>5 DEF Con, AMem
<1>9. p \in residentes => ~Con("READY", p)' /\ Sitio(p)'
  <2> SUFFICES ASSUME p \in residentes PROVE ~Con("READY", p)' /\ Sitio(p)'
    OBVIOUS
  <2>1. estado[p] \in {"BLOCKED_SUSPENDED", "READY_SUSPENDED", "EXIT"}
    BY <1>2 DEF EnRumbo, Apartado, Fuera, Sitio
  <2>2. ~Con("READY", p)
    <3>1. CASE estado[p] = "READY_SUSPENDED"
      BY <1>2, <3>1 DEF EnRumbo, Apartado, Fuera
    <3>2. CASE estado[p] # "READY_SUSPENDED"
      BY <1>2, <1>3, <2>1, <3>2 DEF EnRumbo, Motivo
    <3> QED
      BY <3>1, <3>2
  <2>3. ~Con("READY", p)'
    BY <1>7, <2>2 DEF Puntas
  <2>4. Sitio(p)'
    BY <1>1, <1>2, <1>7, <1>8, <2>1, <2>3 DEF Sitio, NoNatos
  <2> QED
    BY <2>3, <2>4
<1>10. \A q \in Procs \ {p} : (q \in residentes' <=> q \in residentes) /\ (q \in suspendidos' <=> q \in suspendidos)
  BY <1>1
<1>11. \A x : Esta(x, u) => x.pid \in {p, Nadie}
  BY <1>4, <1>5
<1> QED
  BY <1>1, <1>2, <1>5, <1>9, <1>10, <1>11, SitioDeUno

(* A process goes back to READY from BLOCKED, where it is in Memoria.       *)
LEMMA SitioDeVuelta ==
    ASSUME IInvCiclo, IInvSitio, NEW h \in Hilos, NEW p \in Procs, Desbloqueo(h, p) \/ DumpFin(h, p)
    PROVE  IInvSitio'
<1>1. UNCHANGED <<estado, residentes, suspendidos>>
  BY DEF Desbloqueo, DumpFin, Solo, otras, planVars, memVars
<1>2. "DESBLOQUEO" \in Ops \ Puntas /\ "DUMP_FIN" \in Ops \ Puntas /\ "READY" \in Ops
      /\ "READY_SUSPENDED" \in Ops \ Puntas /\ "DUMP_FIN" \in Mueven
  BY DEF Ops, Puntas, Mueven, Levantan
<1>3. ASSUME NEW o \in Ops \ Puntas, Toca(h, o, p), Sigue(h, <<Por("READY_SUSPENDED", p)>>)
      PROVE  IInvSitio'
  <2>1. PICK u : u = <<Por("READY_SUSPENDED", p)>> /\ Ligera(u)
    BY <1>2, LigeraPocas
  <2>2. ~caido /\ pila[h] # <<>> /\ Head(pila[h]).op \notin Puntas
    BY <1>3, TocaAlgo
  <2> QED
    BY <1>1, <1>3, <2>1, <2>2, SitioSigue
<1>4. ASSUME NEW o, Toca(h, o, p), Sigue(h, <<Por("READY", p)>>), estado[p] = "BLOCKED"
      PROVE  IInvSitio'
  <2>1. ~caido /\ p \in residentes /\ p \notin suspendidos
    BY <1>4, TocaAlgo DEF IInvSitio, Sitio
  <2>2. Sitio(p)'
    BY <1>1, <1>4, <2>1 DEF Sitio, NoNatos
  <2> QED
    BY <1>1, <1>2, <1>4, <2>2, SitioMueve
<1>5. CASE Desbloqueo(h, p)
  <2>1. Toca(h, "DESBLOQUEO", p) /\ Sigue(h, <<Por(IF estado[p] = "BLOCKED" THEN "READY" ELSE "READY_SUSPENDED", p)>>)
    BY <1>5 DEF Desbloqueo, DestinoTrasIO
  <2> QED
    BY <1>2, <1>3, <1>4, <2>1
<1>6. CASE DumpFin(h, p)
  <2>1. /\ Toca(h, "DUMP_FIN", p)
        /\ Sigue(h, <<Por(IF estado[p] = "BLOCKED_SUSPENDED" THEN "READY_SUSPENDED" ELSE "READY", p)>>)
    BY <1>6 DEF DumpFin, Solo
  <2>2. estado[p] \in Dormidos
    BY <1>2, <2>1, TocaMotivo DEF Motivo, Levantan
  <2> QED
    BY <1>2, <1>3, <1>4, <2>1, <2>2 DEF Dormidos
<1> QED
  BY <1>5, <1>6

LEMMA SitioDeEnviar ==
    ASSUME SolaCpu, IInvCiclo, IInvSitio, NEW h \in Hilos, NEW p \in Procs, Enviar(h, p)
    PROVE  IInvSitio'
<1>1. Toca(h, "ENVIAR", p) /\ UNCHANGED <<estado, residentes, suspendidos>>
  BY DEF Enviar, planVars, memVars
<1>2. "ENVIAR" \in Mueven /\ "ENVIAR" \notin Puntas
  BY DEF Mueven, Puntas
<1>3. cpuPid[LaCpu] = p
  BY <1>1, <1>2, TocaMotivo DEF Motivo
<1>4. Sigue(h, <<>>)
  BY <1>3 DEF Enviar, CpusDe, SolaCpu
<1>5. ~caido /\ pila[h] # <<>> /\ Head(pila[h]).op \notin Puntas
  BY <1>1, <1>2, TocaAlgo
<1> QED
  BY <1>1, <1>4, <1>5, LigeraPocas, SitioSigue

(* A timer not created yet has nothing to do.                               *)
Novatos == \A p \in Procs : \A k \in 1..MaxTimers : k > hiloBlock[p] => pila[Timer(p, k)] = <<>>

LEMMA NovatosIgual ==
    ASSUME Novatos, UNCHANGED hiloBlock, \A k \in Timers : pila[k] = <<>> => pila'[k] = <<>>
    PROVE  Novatos'
<1>1. \A p \in Procs, k \in 1..MaxTimers : Timer(p, k) \in Timers
  BY HilosPropios
<1> QED
  BY <1>1 DEF Novatos

LEMMA NovatosDeTimer ==
    ASSUME IInvCiclo, Novatos, NEW h \in Hilos, pila[h] # <<>>, NEW p \in Procs, CrearTimer(h, p)
    PROVE  Novatos'
<1>1. PICK n, j, t : n = hiloBlock[p] + 1 /\ j = Timer(p, n) /\ t = <<Por("TIMER", p)>>
  OBVIOUS
<1>2. /\ n <= MaxTimers /\ hiloBlock' = [hiloBlock EXCEPT ![p] = n]
      /\ pila' = [pila EXCEPT ![h] = Tail(@), ![j] = t]
  BY <1>1 DEF CrearTimer
<1>3. pila \in [Hilos -> Seq(Tarea)] /\ hiloBlock \in [Procs -> 0..MaxTimers] /\ MaxTimers \in Nat
  BY PilasDelCiclo, MaxTimersAssumption DEF IInvCiclo, IInvOrden, IInvTipos, TypeOK
<1>4. ASSUME NEW q \in Procs, NEW k \in 1..MaxTimers, k > hiloBlock'[q]
      PROVE  pila'[Timer(q, k)] = <<>>
  <2>1. Timer(q, k) \in Hilos /\ (Timer(q, k) = j => q = p /\ k = n)
    BY <1>1, HilosPropios DEF Timer
  <2>2. k > hiloBlock[q] /\ Timer(q, k) # j
    <3>1. CASE q = p
      BY <1>1, <1>2, <1>3, <1>4, <2>1, <3>1
    <3>2. CASE q # p
      BY <1>1, <1>2, <1>3, <1>4, <2>1, <3>2
    <3> QED
      BY <3>1, <3>2
  <2>3. pila[Timer(q, k)] = <<>> /\ Timer(q, k) # h
    BY <2>2 DEF Novatos
  <2> QED
    BY <1>2, <1>3, <2>1, <2>2, <2>3
<1> QED
  BY <1>4 DEF Novatos

LEMMA NovatosDeSiempre ==
    ASSUME IInvCiclo, Novatos, [Next]_vars
    PROVE  Novatos'
<1>1. pila \in [Hilos -> Seq(Tarea)] /\ \A k \in Timers : k \in Hilos
  BY PilasDelCiclo DEF Hilos
<1>2. ASSUME NEW h \in Hilos, PasoHilo(h) PROVE Novatos'
  <2>1. pila[h] # <<>>
    BY <1>2 DEF PasoHilo
  <2>2. ASSUME NEW u, Sigue(h, u), UNCHANGED hiloBlock PROVE Novatos'
    <3>1. \A k \in Timers : pila[k] = <<>> => pila'[k] = <<>>
      BY <1>1, <2>1, <2>2 DEF Sigue
    <3> QED
      BY <2>2, <3>1, NovatosIgual
  <2>3. CASE DePlanificador(h)
    <3>1. UNCHANGED hiloBlock /\ \E u : Sigue(h, u)
      BY <2>3 DEF DePlanificador, TraerEntra, TraerRS, TraerVerNew, TraerNew, MandarEntra, MandarVer,
                  MandarTomar, timerVars
    <3> QED
      BY <2>2, <3>1
  <2>4. ASSUME NEW p \in Procs, DeProceso(h, p) PROVE Novatos'
    <3>1. CASE CrearTimer(h, p)
      BY <2>1, <3>1, NovatosDeTimer
    <3>2. CASE \/ New(h, p) \/ NewTraer(h, p) \/ NewInit(h, p) \/ NewFin(h, p)
               \/ Ready(h, p) \/ ReadyCpu(h, p) \/ Execute(h, p) \/ Enviar(h, p)
               \/ Blocked(h, p) \/ Bloquear(h, p) \/ Join(h, p)
      <4>1. UNCHANGED hiloBlock /\ \E u : Sigue(h, u)
        BY <3>2 DEF New, NewTraer, NewInit, NewFin, Ready, ReadyCpu, Execute, Enviar, Blocked, Bloquear,
                    Join, Solo, otras, timerVars
      <4> QED
        BY <2>2, <4>1
    <3>3. CASE \/ TimerArranca(h, p) \/ TimerCancelado(h, p) \/ TimerVence(h, p) \/ TimerRevisa(h, p)
               \/ Suspender(h, p) \/ SuspenderMem(h, p) \/ TimerCancela(h, p) \/ TimerTermina(h, p)
               \/ ReadySuspended(h, p) \/ ReadySuspendedVer(h, p) \/ Exit(h, p) \/ ExitMem(h, p)
      <4>1. UNCHANGED hiloBlock /\ \E u : Sigue(h, u)
        BY <3>3 DEF TimerArranca, TimerCancelado, TimerVence, TimerRevisa, Suspender, SuspenderMem,
                    TimerCancela, TimerTermina, ReadySuspended, ReadySuspendedVer, Exit, ExitMem, Solo,
                    otras, timerVars
      <4> QED
        BY <2>2, <4>1
    <3>4. CASE \/ Desbloqueo(h, p) \/ EncolarIO(h, p) \/ Dump(h, p) \/ DumpOk(h, p) \/ DumpFin(h, p)
               \/ DumpError(h, p) \/ DumpExit(h, p)
      <4>1. UNCHANGED hiloBlock /\ \E u : Sigue(h, u)
        BY <3>4 DEF Desbloqueo, EncolarIO, Dump, DumpOk, DumpFin, DumpError, DumpExit, Solo, otras,
                    timerVars
      <4> QED
        BY <2>2, <4>1
    <3> QED
      BY <2>4, <3>1, <3>2, <3>3, <3>4 DEF DeProceso
  <2> QED
    BY <1>2, <2>3, <2>4 DEF PasoHilo
<1>3. ASSUME NEW p \in Procs, NEW k \in 1..MaxTimers, TimerMuere(p, k) PROVE Novatos'
  <2>1. UNCHANGED hiloBlock /\ pila' = [pila EXCEPT ![Timer(p, k)] = <<>>]
    BY <1>3 DEF TimerMuere
  <2>2. \A j \in Timers : pila[j] = <<>> => pila'[j] = <<>>
    BY <1>1, <2>1
  <2> QED
    BY <2>1, <2>2, NovatosIgual
<1>4. ASSUME NEW h \in Fijos, NEW u, pila' = [pila EXCEPT ![h] = u], UNCHANGED hiloBlock PROVE Novatos'
  <2>1. \A k \in Timers : k # h
    BY DEF Fijos
  <2>2. \A k \in Timers : pila[k] = <<>> => pila'[k] = <<>>
    BY <1>1, <1>4, <2>1
  <2> QED
    BY <1>4, <2>2, NovatosIgual
<1>5. ASSUME NEW c \in Cpus, DeCpu(c) PROVE Novatos'
  <2>1. Cpu(c) \in Fijos
    <3>1. Cpu(c) \in Hilos
      BY HilosPropios
    <3> QED
      BY <3>1 DEF Fijos, Timers, Timer, Cpu
  <2>2. UNCHANGED hiloBlock /\ \E u : pila' = [pila EXCEPT ![Cpu(c)] = u]
    <3>1. CASE LiberarCpu(c)
      BY <3>1 DEF LiberarCpu, Sigue, timerVars
    <3>2. CASE SyscallExit(c) \/ SyscallBloqueante(c) \/ SyscallInitProc(c)
      BY <3>2 DEF SyscallExit, SyscallBloqueante, SyscallInitProc, timerVars
    <3> QED
      BY <1>5, <3>1, <3>2 DEF DeCpu
  <2> QED
    BY <1>4, <2>1, <2>2
<1>6. ASSUME NEW x \in Conexiones, DesbloqueoIO(x) PROVE Novatos'
  <2>1. Io(x) \in Fijos
    <3>1. Io(x) \in Hilos
      BY HilosPropios
    <3> QED
      BY <3>1 DEF Fijos, Timers, Timer, Io
  <2>2. UNCHANGED hiloBlock /\ \E u : pila' = [pila EXCEPT ![Io(x)] = u]
    BY <1>6 DEF DesbloqueoIO, timerVars
  <2> QED
    BY <1>4, <2>1, <2>2
<1>7. ASSUME UNCHANGED vars PROVE Novatos'
  BY <1>7, NovatosIgual DEF vars, otras, timerVars
<1> QED
  BY <1>2, <1>3, <1>5, <1>6, <1>7 DEF Next, PasoMuere, Reposo

(* Every task stays but the ones a thread has done with, none of them of    *)
(* Puntas, and nobody gets one of Puntas.                                   *)
LEMMA SitioQuieto ==
    ASSUME IInvSitio, ~caido, UNCHANGED <<estado, residentes, suspendidos>>,
           \A t : t.op \in Puntas => (Hay(t)' <=> Hay(t))
    PROVE  IInvSitio'
<1>1. ASSUME NEW o \in Puntas, NEW q PROVE Con(o, q)' <=> Con(o, q)
  BY DEF Con
<1> QED
  BY <1>1, SitioDeTodos DEF Quieta

LEMMA SitioDeTimer ==
    ASSUME IInvCiclo, IInvSitio, Novatos, NEW h \in Hilos, NEW p \in Procs, CrearTimer(h, p)
    PROVE  IInvSitio'
<1>1. PICK j, n, t : n = hiloBlock[p] + 1 /\ j = Timer(p, n) /\ t = Por("TIMER", p)
  OBVIOUS
<1>2. /\ n <= MaxTimers /\ Toca(h, "CREAR_TIMER", p)
      /\ pila' = [pila EXCEPT ![h] = Tail(@), ![j] = <<t>>]
      /\ UNCHANGED <<estado, residentes, suspendidos>>
  BY <1>1 DEF CrearTimer, planVars, memVars
<1>3. ~caido /\ pila[h] # <<>> /\ Head(pila[h]).op = "CREAR_TIMER" /\ pila \in [Hilos -> Seq(Tarea)]
  BY <1>2, PilasDelCiclo, TocaAlgo
<1>4. j \in Hilos /\ pila[j] = <<>> /\ h # j
  <2>1. hiloBlock[p] \in Nat
    BY PilasDelCiclo, MaxTimersAssumption DEF IInvTipos, TypeOK
  <2>2. n \in 1..MaxTimers /\ n > hiloBlock[p]
    BY <1>1, <1>2, <2>1, MaxTimersAssumption
  <2>3. j \in Hilos /\ pila[j] = <<>>
    BY <1>1, <2>2, HilosPropios DEF Novatos
  <2> QED
    BY <1>3, <2>3
<1>5. pila'[h] = Tail(pila[h]) /\ pila'[j] = <<t>> /\ \A k \in Hilos \ {h, j} : pila'[k] = pila[k]
  BY <1>2, <1>3, <1>4
<1>6. \A x : Esta(x, <<t>>) => x.op \notin Puntas
  <2>1. "TIMER" \in Ops \ Puntas
    BY DEF Ops, Puntas
  <2>2. Ligera(<<t>>)
    BY <1>1, <2>1, LigeraPocas
  <2> QED
    BY <2>2 DEF Ligera
<1>7. \A x : Esta(x, pila[h]) <=> x = Head(pila[h]) \/ Esta(x, Tail(pila[h]))
  BY <1>3, CabezaOResto
<1>8. Head(pila[h]).op \notin Puntas /\ \A x : ~Esta(x, pila[j])
  BY <1>3, <1>4, EstaEnVacia DEF Puntas
<1>9. ASSUME NEW x, x.op \in Puntas PROVE Hay(x)' <=> Hay(x)
  <2>1. ~Esta(x, pila'[j]) /\ ~Esta(x, pila[j]) /\ (Esta(x, pila'[h]) <=> Esta(x, pila[h]))
    BY <1>5, <1>6, <1>7, <1>8, <1>9
  <2>2. \A k \in Hilos : Esta(x, pila'[k]) <=> Esta(x, pila[k])
    BY <1>5, <2>1
  <2> QED
    BY <2>2 DEF Hay
<1> QED
  BY <1>2, <1>3, <1>9, SitioQuieto

(* A timer whose cancel acts while it takes a process out of Memoria, or to *)
(* READY: Memoria and the state of the process are left as they were.       *)
MuereEnMemoria ==
    \E p \in Procs : \E k \in 1..MaxTimers :
        TimerMuere(p, k) /\ \E t : Esta(t, pila[Timer(p, k)]) /\ t.op \in Puntas

LEMMA SitioDeMuerto ==
    ASSUME IInvCiclo, IInvSitio, PasoMuere, ~MuereEnMemoria
    PROVE  IInvSitio'
<1>1. PICK p \in Procs, k \in 1..MaxTimers : TimerMuere(p, k)
  BY DEF PasoMuere
<1>2. PICK h : h = Timer(p, k) /\ h \in Hilos
  BY HilosPropios
<1>3. /\ ~caido /\ pila' = [pila EXCEPT ![h] = <<>>]
      /\ UNCHANGED <<estado, residentes, suspendidos>>
  BY <1>1, <1>2 DEF TimerMuere, planVars, memVars
<1>4. \A t : t.op \in Puntas => ~Esta(t, pila[h])
  BY <1>1, <1>2 DEF MuereEnMemoria
<1>5. pila'[h] = <<>> /\ (\A j \in Hilos \ {h} : pila'[j] = pila[j]) /\ \A t : ~Esta(t, <<>>)
  BY <1>2, <1>3, PilasDelCiclo, EstaEnVacia
<1>6. \A t : t.op \in Puntas => (Hay(t)' <=> Hay(t))
  BY <1>4, <1>5 DEF Hay
<1> QED
  BY <1>3, <1>6, SitioQuieto

(* A thread that was idle starts on something else.                         *)
LEMMA SitioNace ==
    ASSUME IInvCiclo, IInvSitio, ~caido, NEW h \in Hilos, pila[h] = <<>>,
           NEW u, \A o \in Puntas : \A q \in Procs : ~En(u, o, q), pila' = [pila EXCEPT ![h] = u],
           UNCHANGED <<estado, residentes, suspendidos>>
    PROVE  IInvSitio'
<1>1. \A o \in Puntas : \A q \in Procs : Con(o, q)' <=> Con(o, q)
  BY PilasDelCiclo, ConNace
<1> QED
  BY <1>1, SitioDeTodos DEF Quieta

LEMMA SitioDeIO ==
    ASSUME IInvCiclo, IInvSitio, NEW x \in Conexiones, DesbloqueoIO(x)
    PROVE  IInvSitio'
<1>1. PICK h : h = Io(x) /\ h \in Hilos
  BY HilosPropios
<1>2. PICK p \in enIO :
          /\ ~caido /\ pila[h] = <<>>
          /\ pila' = [pila EXCEPT ![h] = IF estado[p] = "ELIMINADO" THEN <<>> ELSE <<Por("DESBLOQUEO", p)>>]
          /\ UNCHANGED <<estado, residentes, suspendidos>>
  BY <1>1 DEF DesbloqueoIO, planVars, memVars
<1>3. p \in Procs /\ "DESBLOQUEO" \in Ops \ Puntas
  BY PilasDelCiclo DEF IInvTipos, TypeOK, Ops, Puntas
<1>4. PICK u : Ligera(u) /\ pila' = [pila EXCEPT ![h] = u]
  BY <1>2, <1>3, LigeraPocas
<1>5. \A o \in Puntas : \A q \in Procs : ~En(u, o, q)
  BY <1>4 DEF Ligera, En
<1> QED
  BY <1>1, <1>2, <1>4, <1>5, SitioNace

LEMMA SitioDeSyscall ==
    ASSUME IInvCiclo, IInvSitio, SolaCpu, SyscallExit(LaCpu) \/ SyscallBloqueante(LaCpu)
    PROVE  IInvSitio'
<1>1. PICK h : h = Cpu(LaCpu) /\ h \in Hilos
  BY HilosPropios DEF SolaCpu
<1>2. PICK p, o : p = PidDe(LaCpu) /\ o = Instruccion(LaCpu).op
  OBVIOUS
<1>3. /\ ~caido /\ contexto[LaCpu] # <<>> /\ pila[h] = <<>> /\ o # "INIT_PROC"
      /\ pila' = [pila EXCEPT ![h] = TareasDe(o, p)]
      /\ UNCHANGED <<estado, residentes, suspendidos>>
  BY <1>1, <1>2 DEF SyscallExit, SyscallBloqueante, Pide, planVars, memVars
<1>4. p \in Procs /\ o \in (Syscalls \cup {"EXIT"}) \ {"INIT_PROC"}
  <2>1. OtrosTipos /\ LaCpu \in Cpus
    BY PilasDelCiclo, TiposJuntos DEF IInvTipos, SolaCpu
  <2> QED
    BY <1>2, <1>3, <2>1, CorreTipo
<1>5. estado[p] # "ELIMINADO"
  BY <1>2, <1>3, <1>4 DEF IInvCiclo, EnRumbo, EnLaCpu
<1>6. PICK u : /\ u = TareasDe(o, p)
               /\ \A t : Esta(t, u) => t.pid \in {p, Nadie} /\ t.op \notin {"SUSPENDER_MEM", "READY_CPU"}
               /\ \A x \in Mueven : En(u, x, p) => x = "EXIT" \/ (x \in Esperan /\ En(u, "BLOCKED", p))
  BY <1>4, <1>5, TareasDelCiclo
<1>7. \A x \in Puntas : \A q \in Procs : ~En(u, x, q)
  <2>1. \A x \in Puntas : x = "SUSPENDER_MEM" \/ (x \in Mueven /\ x # "EXIT" /\ x \notin Esperan)
    BY DEF Puntas, Mueven, Esperan
  <2>2. \A x \in Puntas : ~En(u, x, p)
    BY <1>6, <2>1 DEF En
  <2>3. \A x : \A q \in Procs \ {p} : ~En(u, x, q)
    BY <1>6, NadieAssumption DEF En
  <2> QED
    BY <2>2, <2>3
<1>8. pila' = [pila EXCEPT ![h] = u]
  BY <1>3, <1>6
<1> QED
  BY <1>1, <1>3, <1>7, <1>8, SitioNace

LEMMA SitioDeInitProc ==
    ASSUME IInvCiclo, IInvSitio, SolaCpu, SyscallInitProc(LaCpu)
    PROVE  IInvSitio'
<1>1. PICK h : h = Cpu(LaCpu) /\ h \in Hilos
  BY HilosPropios DEF SolaCpu
<1>2. PICK q, u :
          /\ q = Instruccion(LaCpu).pid /\ u = <<Por("NEW", q)>>
          /\ ~caido /\ contexto[LaCpu] # <<>> /\ pila[h] = <<>> /\ pila' = [pila EXCEPT ![h] = u]
          /\ estado[q] = "NO_CREADO" /\ estado' = [estado EXCEPT ![q] = "CREADO"]
          /\ UNCHANGED <<residentes, suspendidos>>
  BY <1>1 DEF SyscallInitProc, Pide, memVars
<1>3. q \in Procs /\ estado \in [Procs -> Estados] /\ "NEW" \in Ops \ Puntas
  <2>1. OtrosTipos /\ LaCpu \in Cpus /\ estado \in [Procs -> Estados]
    BY PilasDelCiclo, TiposJuntos DEF IInvTipos, SolaCpu
  <2> QED
    BY <1>2, <2>1, CorreTipo DEF Ops, Puntas
<1>4. Ligera(u)
  BY <1>2, <1>3, LigeraPocas
<1>5. \A x \in Puntas : \A r : Con(x, r)' <=> Con(x, r)
  <2>1. \A x \in Puntas : \A r : ~En(u, x, r)
    BY <1>4 DEF Ligera, En
  <2> QED
    BY <1>1, <1>2, <2>1, PilasDelCiclo, ConNace
<1>6. ASSUME NEW r \in Procs \ {q} PROVE Sitio(r)'
  <2>1. estado'[r] = estado[r]
    BY <1>2, <1>3
  <2> QED
    BY <1>2, <1>5, <2>1, SitioIgual DEF IInvSitio, Quieta
<1>7. Sitio(q)'
  <2>1. estado'[q] = "CREADO" /\ q \notin residentes /\ q \notin suspendidos
    BY <1>2, <1>3 DEF IInvSitio, Sitio, NoNatos
  <2> QED
    BY <1>2, <2>1 DEF Sitio, NoNatos
<1> QED
  BY <1>6, <1>7 DEF IInvSitio

LEMMA SitioDeCpu ==
    ASSUME IInvCiclo, IInvSitio, SolaCpu, NEW c \in Cpus, DeCpu(c)
    PROVE  IInvSitio'
<1>1. c = LaCpu
  BY DEF SolaCpu
<1>2. CASE LiberarCpu(c)
  <2>1. /\ ~caido /\ pila[Cpu(c)] # <<>> /\ Head(pila[Cpu(c)]).op = "LIBERAR_CPU" /\ Sigue(Cpu(c), <<>>)
        /\ UNCHANGED <<estado, residentes, suspendidos>>
    BY <1>2 DEF LiberarCpu, Toca, Por, planVars, memVars
  <2>2. Cpu(c) \in Hilos /\ Head(pila[Cpu(c)]).op \notin Puntas
    BY <2>1, HilosPropios DEF Puntas
  <2> QED
    BY <2>1, <2>2, LigeraPocas, SitioSigue
<1> QED
  BY <1>1, <1>2, SitioDeSyscall, SitioDeInitProc DEF DeCpu

LEMMA SitioDeProceso ==
    ASSUME SolaCpu, IInvCiclo, IInvSitio, Novatos, ~AdmiteDosVeces, NEW h \in Hilos, NEW p \in Procs,
           DeProceso(h, p)
    PROVE  IInvSitio'
<1>1. CASE \/ NewTraer(h, p) \/ NewFin(h, p) \/ Bloquear(h, p) \/ Join(h, p)
           \/ TimerArranca(h, p) \/ TimerCancelado(h, p) \/ TimerVence(h, p) \/ TimerRevisa(h, p)
           \/ TimerCancela(h, p) \/ TimerTermina(h, p) \/ ReadySuspendedVer(h, p) \/ ReadyCpu(h, p)
           \/ EncolarIO(h, p) \/ DumpOk(h, p) \/ DumpError(h, p) \/ DumpExit(h, p) \/ Dump(h, p)
  BY <1>1, SitioDeQuietas
<1>2. CASE New(h, p) \/ Execute(h, p) \/ Blocked(h, p) \/ ReadySuspended(h, p)
  BY <1>2, SitioDeEstados
<1>3. CASE NewInit(h, p) \/ Ready(h, p) \/ Enviar(h, p) \/ Exit(h, p) \/ ExitMem(h, p)
  BY <1>3, SitioDeNewInit, SitioDeReady, SitioDeEnviar, SitioDeExit, SitioDeExitMem
<1>4. CASE Suspender(h, p) \/ SuspenderMem(h, p) \/ Desbloqueo(h, p) \/ DumpFin(h, p) \/ CrearTimer(h, p)
  BY <1>4, SitioDeSuspender, SitioDeSuspenderMem, SitioDeVuelta, SitioDeTimer
<1> QED
  BY <1>1, <1>2, <1>3, <1>4 DEF DeProceso

LEMMA SitioPasoAPaso ==
    ASSUME SolaCpu, IInvCiclo, IInvSitio, Novatos, [Next]_vars, [~AdmiteDosVeces]_vars,
           [~MuereEnMemoria]_vars
    PROVE  IInvSitio'
<1>1. CASE Reposo \/ UNCHANGED vars
  <2>1. UNCHANGED <<pila, estado, residentes, suspendidos, caido>>
    BY <1>1 DEF Reposo, vars, otras, planVars, memVars
  <2>2. \A t : Hay(t)' <=> Hay(t)
    BY <2>1 DEF Hay
  <2> QED
    BY <2>1, <2>2, SitioQuieto DEF IInvSitio
<1>2. CASE Next /\ ~AdmiteDosVeces /\ ~MuereEnMemoria
  <2>1. ASSUME NEW h \in Hilos, NEW p \in Procs, DeProceso(h, p) PROVE IInvSitio'
    BY <1>2, <2>1, SitioDeProceso
  <2>2. ASSUME NEW h \in Hilos, DePlanificador(h) PROVE IInvSitio'
    BY <1>2, <2>2, SitioDePlanificador
  <2>3. ASSUME NEW c \in Cpus, DeCpu(c) PROVE IInvSitio'
    BY <2>3, SitioDeCpu
  <2>4. ASSUME NEW x \in Conexiones, DesbloqueoIO(x) PROVE IInvSitio'
    BY <2>4, SitioDeIO
  <2>5. CASE PasoMuere
    BY <1>2, <2>5, SitioDeMuerto
  <2> QED
    BY <1>1, <1>2, <2>1, <2>2, <2>3, <2>4, <2>5 DEF Next, PasoHilo
<1> QED
  BY <1>1, <1>2

LEMMA SitioAlEmpezar == Init => IInvSitio /\ Novatos
<1> SUFFICES ASSUME Init PROVE IInvSitio /\ Novatos
  OBVIOUS
<1>1. \A q \in Procs : estado[q] \in NoNatos /\ q \notin residentes /\ q \notin suspendidos
  BY DEF Init, NoNatos
<1>2. IInvSitio
  BY <1>1 DEF IInvSitio, Sitio, NoNatos
<1>3. \A q \in Procs : \A k \in 1..MaxTimers : Timer(q, k) \in Hilos /\ Timer(q, k) # Main
  BY HilosPropios DEF Timer, Main
<1>4. Novatos
  BY <1>3 DEF Init, Novatos
<1> QED
  BY <1>2, <1>4

LEMMA SitioBasta == ASSUME IInvCiclo, IInvSitio PROVE MemoriaDeAcuerdo
<1> SUFFICES ASSUME ~caido, NEW p \in Procs, Pendientes(p) = {}
             PROVE  /\ p \in residentes <=> estado[p] \in {"READY", "EXECUTE", "BLOCKED"}
                    /\ p \in suspendidos <=> estado[p] \in {"BLOCKED_SUSPENDED", "READY_SUSPENDED"}
  BY DEF MemoriaDeAcuerdo
<1>1. \A o \in Puntas : ~Con(o, p)
  <2>1. SUFFICES ASSUME NEW t, NEW h \in Hilos, Esta(t, pila[h]), t.op \in Puntas, t.pid = p
                 PROVE  FALSE
    BY DEF Con, Hay
  <2>2. t.op \notin {"TIMER", "DORMIR"}
    BY <2>1 DEF Puntas
  <2>3. t \in Pendientes(p)
    BY <2>1, <2>2 DEF Pendientes, Esta
  <2> QED
    BY <2>3
<1>2. Sitio(p) /\ estado[p] \in Estados
  BY PilasDelCiclo DEF IInvSitio
<1>3. ~Con("READY", p) /\ ~Con("SUSPENDER_MEM", p) /\ ~Con("EXIT_MEM", p)
  BY <1>1 DEF Puntas
<1> QED
  BY <1>2, <1>3 DEF Sitio, Estados, NoNatos

(* With one CPU, a process that no thread is moving is where its state says:*)
(* in the page tables if it is READY, EXECUTE or BLOCKED, in swap if it is  *)
(* suspended, whatever the timers, the devices and traer_proceso_a_MP did   *)
(* meanwhile; provided, besides what CicloSiempreCumple asks, that no timer *)
(* dies with a request to Memoria, or a way to READY, half done.            *)
THEOREM MemoriaSiempreDeAcuerdo ==
    ASSUME SolaCpu, Retardo = TRUE
    PROVE  Spec /\ [][~AdmiteDosVeces]_vars /\ [][~MuereEnMemoria]_vars => []MemoriaDeAcuerdo
<1>1. Init => IInvCiclo /\ IInvSitio /\ Novatos
  BY CicloAlEmpezar, SitioAlEmpezar
<1>2. /\ IInvCiclo /\ IInvSitio /\ Novatos
      /\ [Next]_vars /\ [~AdmiteDosVeces]_vars /\ [~MuereEnMemoria]_vars
      => IInvCiclo' /\ IInvSitio' /\ Novatos'
  BY CicloPasoAPaso, SitioPasoAPaso, NovatosDeSiempre
<1>3. IInvCiclo /\ IInvSitio => MemoriaDeAcuerdo
  BY SitioBasta
<1> QED
  BY <1>1, <1>2, <1>3, PTL DEF Spec

-----------------------------------------------------------------------------
(* If TIEMPO_SUSPENSION never elapses nothing is suspended, and only the    *)
(* thread of the CPU goes through traer_proceso_a_MP.                       *)
Suspenden == {"REVISAR", "SUSPENDER", "SUSPENDER_MEM", "CANCELAR", "FIN_TIMER", "READY_SUSPENDED",
              "RS_VER"}
Comunes == {"NEW", "NEW_TRAER", "NEW_INIT", "NEW_FIN", "READY", "READY_CPU", "EXECUTE", "ENVIAR",
            "DESBLOQUEO"} \cup Relojes
Repertorio(h) == IF h = Cpu(LaCpu) THEN Ops \ Suspenden ELSE Comunes

SinSuspension ==
    /\ \A h \in Hilos : \A t : Esta(t, pila[h]) => t.op \in Repertorio(h)
    /\ \A q \in Procs : estado[q] \notin {"BLOCKED_SUSPENDED", "READY_SUSPENDED"}

(* A process on its way from NEW to READY: the thread that takes it there   *)
(* is that of the CPU, or main before anything else runs.                   *)
MainSolo == contexto[LaCpu] = <<>> /\ enIO = {} /\ \A k \in Hilos \ {Main} : pila[k] = <<>>
Ingresan == {"NEW_TRAER", "NEW_INIT"}
Piden == {"TRAER", "TRAER_RS", "TRAER_NEW", "PEDIR_NEW"}
Ingresa(t) == t.pid \in Procs /\ (t.op \in Ingresan \/ (t.op = "READY" /\ estado[t.pid] = "NEW"))
Ingreso(h) ==
    pila[h] # <<>> =>
        /\ \A t : Esta(t, Tail(pila[h])) => ~Ingresa(t)
        /\ Ingresa(Head(pila[h])) => /\ estado[Head(pila[h]).pid] = "NEW"
                                     /\ h = Cpu(LaCpu) \/ (h = Main /\ MainSolo)

IInvSolo == SinSuspension /\ \A h \in Hilos : Ingreso(h)

(* What a step leaves in the stacks that are not the one it runs.           *)
Ajenas(h) ==
    \A k \in Hilos \ {h} :
        \/ pila'[k] = pila[k] /\ \A t : Esta(t, pila[k]) /\ t.pid \in Procs =>
                                    /\ estado'[t.pid] = "NEW" /\ t.op = "READY" => estado[t.pid] = "NEW"
                                    /\ Ingresa(t) => estado'[t.pid] = "NEW"
        \/ pila'[k] # <<>> /\ \A t : Esta(t, pila'[k]) => t.op \in Relojes

LEMMA SoloAjenas ==
    ASSUME IInvCiclo, IInvSolo, NEW h \in Hilos, Ajenas(h), h = Main \/ ~MainSolo,
           pila' \in [Hilos -> Seq(Tarea)],
           \A t : Esta(t, pila'[h]) => t.op \in Repertorio(h), Ingreso(h)',
           \A q \in Procs : estado'[q] \notin {"BLOCKED_SUSPENDED", "READY_SUSPENDED"}
    PROVE  IInvSolo'
<1>1. ASSUME NEW k \in Hilos \ {h}
      PROVE  Ingreso(k)' /\ \A t : Esta(t, pila'[k]) => t.op \in Repertorio(k)
  <2>1. pila[k] \in Seq(Tarea) /\ pila'[k] \in Seq(Tarea)
    BY PilasDelCiclo
  <2>2. CASE /\ pila'[k] = pila[k]
             /\ \A t : Esta(t, pila[k]) /\ t.pid \in Procs =>
                   /\ estado'[t.pid] = "NEW" /\ t.op = "READY" => estado[t.pid] = "NEW"
                   /\ Ingresa(t) => estado'[t.pid] = "NEW"
    <3>1. \A t : Esta(t, pila'[k]) => t.op \in Repertorio(k)
      BY <2>2 DEF IInvSolo, SinSuspension
    <3>2. \A t : Esta(t, pila[k]) /\ Ingresa(t)' => Ingresa(t)
      BY <2>2 DEF Ingresa
    <3>3. ASSUME pila[k] # <<>> PROVE Ingreso(k)'
      <4>1. \A t : Esta(t, pila[k]) <=> t = Head(pila[k]) \/ Esta(t, Tail(pila[k]))
        BY <2>1, <3>3, CabezaOResto
      <4>2. Ingreso(k)
        BY DEF IInvSolo
      <4>3. \A t : Esta(t, Tail(pila[k])) => ~Ingresa(t)'
        BY <3>2, <3>3, <4>1, <4>2 DEF Ingreso
      <4>4. ASSUME NEW t, t = Head(pila[k]), Ingresa(t)'
            PROVE  estado'[t.pid] = "NEW" /\ k = Cpu(LaCpu)
        <5>1. Ingresa(t) /\ Esta(t, pila[k])
          BY <3>2, <4>1, <4>4
        <5>2. k = Cpu(LaCpu)
          BY <3>3, <4>2, <4>4, <5>1 DEF Ingreso
        <5>3. t.pid \in Procs
          BY <5>1 DEF Ingresa
        <5> QED
          BY <2>2, <5>1, <5>2, <5>3
      <4>5. PICK t : t = Head(pila[k])
        OBVIOUS
      <4>6. t = Head(pila'[k]) /\ Tail(pila'[k]) = Tail(pila[k])
        BY <2>2, <4>5
      <4> QED
        BY <4>3, <4>4, <4>5, <4>6 DEF Ingreso
    <3>4. pila[k] = <<>> => Ingreso(k)'
      BY <2>2 DEF Ingreso
    <3> QED
      BY <3>1, <3>3, <3>4
  <2>3. CASE pila'[k] # <<>> /\ \A t : Esta(t, pila'[k]) => t.op \in Relojes
    <3>1. \A t : t.op \in Relojes => t.op \in Repertorio(k) /\ ~Ingresa(t)'
      BY DEF Relojes, Repertorio, Comunes, Ops, Suspenden, Ingresa, Ingresan
    <3>2. \A t : Esta(t, pila'[k]) <=> t = Head(pila'[k]) \/ Esta(t, Tail(pila'[k]))
      BY <2>1, <2>3, CabezaOResto
    <3>3. Ingreso(k)'
      BY <2>3, <3>1, <3>2 DEF Ingreso
    <3> QED
      BY <2>3, <3>1, <3>3
  <2> QED
    BY <2>2, <2>3 DEF Ajenas
<1>2. \A k \in Hilos : Ingreso(k)'
  BY <1>1
<1>3. \A k \in Hilos : \A t : Esta(t, pila'[k]) => t.op \in Repertorio(k)
  BY <1>1
<1> QED
  BY <1>2, <1>3 DEF IInvSolo, SinSuspension, Repertorio

(* Two threads do not take processes from NEW to READY at once.             *)
LEMMA UnoIngresa ==
    ASSUME IInvCiclo, IInvSolo, NEW h \in Hilos, NEW k \in Hilos \ {h}, NEW t, NEW x,
           Esta(t, pila[h]), Ingresa(t), Esta(x, pila[k]), Ingresa(x)
    PROVE  FALSE
<1>1. ASSUME NEW l \in Hilos, NEW y, Esta(y, pila[l]), Ingresa(y)
      PROVE  y = Head(pila[l]) /\ pila[l] # <<>> /\ (l = Cpu(LaCpu) \/ (l = Main /\ MainSolo))
  <2>1. pila[l] \in Seq(Tarea)
    BY PilasDelCiclo
  <2>2. pila[l] # <<>>
    BY <1>1, EstaEnVacia
  <2>3. y = Head(pila[l]) \/ Esta(y, Tail(pila[l]))
    BY <1>1, <2>1, <2>2, CabezaOResto
  <2> QED
    BY <1>1, <2>2, <2>3 DEF IInvSolo, Ingreso
<1>2. pila[h] # <<>> /\ (h = Cpu(LaCpu) \/ (h = Main /\ MainSolo))
  BY <1>1
<1>3. pila[k] # <<>> /\ (k = Cpu(LaCpu) \/ (k = Main /\ MainSolo))
  BY <1>1
<1> QED
  BY <1>2, <1>3 DEF MainSolo

(* A thread goes on, and brings nobody out of NEW.                          *)
LEMMA SoloSigue ==
    ASSUME IInvCiclo, IInvSolo, NEW h \in Hilos, pila[h] # <<>>, NEW u \in Seq(Tarea), Sigue(h, u),
           \A t : Esta(t, u) => t.op \in Repertorio(h) /\ ~Ingresa(t)',
           \A q \in Procs : /\ estado'[q] = "NEW" => estado[q] = "NEW"
                            /\ estado[q] = "NEW" => \/ estado'[q] = "NEW"
                                                    \/ Head(pila[h]) = Por("READY", q)
                            /\ estado'[q] \notin {"BLOCKED_SUSPENDED", "READY_SUSPENDED"}
    PROVE  IInvSolo'
<1>1. PICK s, r : s = pila[h] /\ r = u \o Tail(s)
  OBVIOUS
<1>2. pila \in [Hilos -> Seq(Tarea)] /\ s \in Seq(Tarea) /\ s # <<>>
  BY <1>1, PilasDelCiclo
<1>3. r \in Seq(Tarea) /\ \A t : Esta(t, r) <=> Esta(t, u) \/ Esta(t, Tail(s))
  BY <1>1, <1>2, TrasLaPrimera
<1>4. pila' = [pila EXCEPT ![h] = r]
  BY <1>1 DEF Sigue
<1>5. pila' \in [Hilos -> Seq(Tarea)] /\ pila'[h] = r /\ \A k \in Hilos \ {h} : pila'[k] = pila[k]
  BY <1>2, <1>3, <1>4
<1>6. \A t : Esta(t, s) <=> t = Head(s) \/ Esta(t, Tail(s))
  BY <1>2, CabezaOResto
<1>7. \A t : Ingresa(t)' => Ingresa(t)
  BY DEF Ingresa
<1>8. \A t : Esta(t, r) => t.op \in Repertorio(h) /\ ~Ingresa(t)'
  BY <1>1, <1>2, <1>3, <1>6, <1>7 DEF IInvSolo, SinSuspension, Ingreso
<1>9. Ingreso(h)'
  <2>1. r # <<>> => \A t : Esta(t, r) <=> t = Head(r) \/ Esta(t, Tail(r))
    BY <1>3, CabezaOResto
  <2>2. r # <<>> => ~Ingresa(Head(r))' /\ \A t : Esta(t, Tail(r)) => ~Ingresa(t)'
    <3>1. PICK x : x = Head(r)
      OBVIOUS
    <3>2. r # <<>> => ~Ingresa(x)'
      BY <1>8, <2>1, <3>1
    <3>3. r # <<>> => \A t : Esta(t, Tail(r)) => ~Ingresa(t)'
      BY <1>8, <2>1
    <3> QED
      BY <3>1, <3>2, <3>3
  <2> QED
    BY <1>5, <2>2 DEF Ingreso
<1>10. ASSUME NEW k \in Hilos \ {h}, NEW t, Esta(t, pila[k]), Ingresa(t) PROVE estado'[t.pid] = "NEW"
  <2>1. t.pid \in Procs /\ estado[t.pid] = "NEW"
    <3>1. pila[k] \in Seq(Tarea) /\ pila[k] # <<>>
      BY <1>2, <1>10, EstaEnVacia
    <3>2. t = Head(pila[k]) \/ Esta(t, Tail(pila[k]))
      BY <1>10, <3>1, CabezaOResto
    <3> QED
      BY <1>10, <3>1, <3>2 DEF IInvSolo, Ingreso, Ingresa
  <2>2. Head(s) # Por("READY", t.pid)
    <3>1. SUFFICES ASSUME Head(s) = Por("READY", t.pid) PROVE FALSE
      OBVIOUS
    <3>2. PICK x : x = Head(s) /\ x = Por("READY", t.pid)
      BY <3>1
    <3>3. x.op = "READY" /\ x.pid = t.pid
      BY <3>2 DEF Por
    <3>4. Ingresa(x) /\ Esta(x, pila[h])
      BY <1>1, <1>6, <2>1, <3>2, <3>3 DEF Ingresa
    <3> QED
      BY <1>10, <3>4, UnoIngresa
  <2> QED
    BY <1>1, <2>1, <2>2
<1>11. Ajenas(h)
  <2>1. \A k \in Hilos \ {h} : \A t : Esta(t, pila[k]) /\ t.pid \in Procs =>
            /\ estado'[t.pid] = "NEW" /\ t.op = "READY" => estado[t.pid] = "NEW"
            /\ Ingresa(t) => estado'[t.pid] = "NEW"
    BY <1>10
  <2> QED
    BY <1>5, <2>1 DEF Ajenas
<1>12. h = Main \/ ~MainSolo
  BY DEF MainSolo
<1>13. \A t : Esta(t, pila'[h]) => t.op \in Repertorio(h)
  BY <1>5, <1>8
<1>14. \A q \in Procs : estado'[q] \notin {"BLOCKED_SUSPENDED", "READY_SUSPENDED"}
  OBVIOUS
<1> QED
  BY <1>5, <1>9, <1>11, <1>12, <1>13, <1>14, SoloAjenas

(* The same, with the states as they were.                                  *)
Mansa(h, u) ==
    u \in Seq(Tarea) /\ \A t : Esta(t, u) => t.op \in Repertorio(h) \ (Ingresan \cup {"READY"})

LEMMA SoloMansa ==
    ASSUME IInvCiclo, IInvSolo, NEW h \in Hilos, pila[h] # <<>>, NEW u, Mansa(h, u), Sigue(h, u),
           UNCHANGED estado
    PROVE  IInvSolo'
<1>1. u \in Seq(Tarea) /\ \A t : Esta(t, u) => t.op \in Repertorio(h) /\ ~Ingresa(t)'
  BY DEF Mansa, Ingresa
<1>2. \A q \in Procs : /\ estado'[q] = "NEW" => estado[q] = "NEW"
                       /\ estado[q] = "NEW" => estado'[q] = "NEW"
                       /\ estado'[q] \notin {"BLOCKED_SUSPENDED", "READY_SUSPENDED"}
  BY DEF IInvSolo, SinSuspension
<1> QED
  BY <1>1, <1>2, SoloSigue

LEMMA MansasPocas ==
    ASSUME NEW h
    PROVE  /\ Mansa(h, <<>>)
           /\ \A o \in (Ops \cap Repertorio(h)) \ (Ingresan \cup {"READY"}), x \in Procs \cup {Nadie} :
                 Mansa(h, <<Por(o, x)>>) /\ Mansa(h, <<Sola(o)>>)
           /\ \A o, m \in (Ops \cap Repertorio(h)) \ (Ingresan \cup {"READY"}), x, y \in Procs \cup {Nadie} :
                 Mansa(h, <<Por(o, x), Por(m, y)>>)
<1> DEFINE Buenos == (Ops \cap Repertorio(h)) \ (Ingresan \cup {"READY"})
<1> HIDE DEF Buenos
<1>1. Mansa(h, <<>>)
  BY EstaEnVacia DEF Mansa
<1>2. \A o, x : Sola(o) = Por(o, Nadie)
  BY DEF Sola, Por
<1>3. ASSUME NEW t \in Tarea, t.op \in Buenos PROVE Mansa(h, <<t>>)
  <2>1. <<t>> \in Seq(Tarea) /\ \A x : Esta(x, <<t>>) <=> x = t
    BY EstaEnUna
  <2> QED
    BY <1>3, <2>1 DEF Mansa, Buenos
<1>4. ASSUME NEW t \in Tarea, t.op \in Buenos, NEW v \in Tarea, v.op \in Buenos
      PROVE  Mansa(h, <<t, v>>)
  <2>1. <<t, v>> \in Seq(Tarea) /\ \A x : Esta(x, <<t, v>>) <=> x = t \/ x = v
    BY EstaEnDos
  <2> QED
    BY <1>4, <2>1 DEF Mansa, Buenos
<1>5. \A o \in Buenos, x \in Procs \cup {Nadie} : Por(o, x) \in Tarea /\ Por(o, x).op \in Buenos
  BY PorTarea DEF Buenos
<1>6. ASSUME NEW o \in Buenos, NEW x \in Procs \cup {Nadie}
      PROVE  Mansa(h, <<Por(o, x)>>) /\ Mansa(h, <<Sola(o)>>)
  <2>1. PICK t, v : t = Por(o, x) /\ v = Por(o, Nadie)
    OBVIOUS
  <2>2. Mansa(h, <<t>>) /\ Mansa(h, <<v>>)
    BY <1>3, <1>5, <2>1
  <2> QED
    BY <1>2, <2>1, <2>2
<1>7. ASSUME NEW o \in Buenos, NEW m \in Buenos, NEW x \in Procs \cup {Nadie},
             NEW y \in Procs \cup {Nadie}
      PROVE  Mansa(h, <<Por(o, x), Por(m, y)>>)
  <2>1. PICK t, v : t = Por(o, x) /\ v = Por(m, y)
    OBVIOUS
  <2>2. Mansa(h, <<t, v>>)
    BY <1>4, <1>5, <2>1
  <2> QED
    BY <2>1, <2>2
<1> QED
  BY <1>1, <1>6, <1>7 DEF Buenos

(* A thread goes on with a process on its way from NEW to READY.            *)
LEMMA SoloIngresa ==
    ASSUME IInvCiclo, IInvSolo, NEW h \in Hilos, pila[h] # <<>>, UNCHANGED <<contexto, enIO>>,
           h = Cpu(LaCpu) \/ (h = Main /\ MainSolo),
           NEW v \in Tarea, v.op \in Repertorio(h), v.pid \in Procs, estado'[v.pid] = "NEW",
           NEW w \in Tarea, w.op \in Repertorio(h) \ (Ingresan \cup {"READY"}),
           NEW u, u = <<v>> \/ u = <<v, w>>, Sigue(h, u),
           \A t : Hay(t) /\ t.op = "READY" /\ t.pid \in Procs /\ estado'[t.pid] = "NEW" =>
                     estado[t.pid] = "NEW",
           \A q \in Procs : /\ estado[q] = "NEW" => estado'[q] = "NEW"
                            /\ estado'[q] \notin {"BLOCKED_SUSPENDED", "READY_SUSPENDED"}
    PROVE  IInvSolo'
<1>1. PICK s, c, r : s = pila[h] /\ c = Tail(s) /\ r = u \o c
  OBVIOUS
<1>2. pila \in [Hilos -> Seq(Tarea)] /\ s \in Seq(Tarea) /\ s # <<>> /\ c \in Seq(Tarea)
  BY <1>1, PilasDelCiclo
<1>3. /\ u \in Seq(Tarea) /\ u # <<>> /\ u[1] = v /\ \A t : Esta(t, u) => t = v \/ t = w
      /\ Len(u) \in {1, 2} /\ (Len(u) = 2 => u[2] = w)
  <2>1. CASE u = <<v>>
    <3>1. u \in Seq(Tarea) /\ u # <<>> /\ u[1] = v /\ Len(u) = 1
      BY <2>1
    <3> QED
      BY <2>1, <3>1, EstaEnUna
  <2>2. CASE u = <<v, w>>
    <3>1. u \in Seq(Tarea) /\ u # <<>> /\ u[1] = v /\ Len(u) = 2 /\ u[2] = w
      BY <2>2
    <3> QED
      BY <2>2, <3>1, EstaEnDos
  <2> QED
    BY <2>1, <2>2
<1>4. r \in Seq(Tarea) /\ \A t : Esta(t, r) <=> Esta(t, u) \/ Esta(t, c)
  BY <1>1, <1>2, <1>3, TrasLaPrimera
<1>5. r # <<>> /\ Head(r) = v /\ \A t : Esta(t, Tail(r)) => t = w \/ Esta(t, c)
  <2>1. /\ Len(r) = Len(u) + Len(c)
        /\ \A i \in 1..Len(u) + Len(c) : r[i] = IF i <= Len(u) THEN u[i] ELSE c[i - Len(u)]
    BY <1>1, <1>2, <1>3, ConcatProperties
  <2>2. PICK n, m : n = Len(u) /\ m = Len(c) /\ n \in {1, 2} /\ m \in Nat
    <3>1. Len(u) \in {1, 2} /\ Len(c) \in Nat
      BY <1>2, <1>3
    <3>2. PICK n : n = Len(u)
      OBVIOUS
    <3>3. PICK m : m = Len(c)
      OBVIOUS
    <3> QED
      BY <3>1, <3>2, <3>3
  <2>3. u[1] = v /\ (n = 2 => u[2] = w) /\ DOMAIN c = 1..m
    BY <1>2, <1>3, <2>2
  <2>4. Len(r) = n + m /\ r[1] = v /\ (n = 2 => r[2] = w) /\ \A i \in n + 1 .. n + m : r[i] = c[i - n]
    BY <2>1, <2>2, <2>3
  <2>5. r # <<>> /\ Head(r) = v
    BY <1>4, <2>2, <2>4
  <2>6. PICK z : z = Tail(r)
    OBVIOUS
  <2>7. z \in Seq(Tarea) /\ Len(z) = n + m - 1 /\ \A i \in 1..(n + m - 1) : z[i] = r[i + 1]
    BY <1>4, <2>2, <2>4, <2>5, <2>6
  <2>8. ASSUME NEW t, Esta(t, z) PROVE t = w \/ Esta(t, c)
    <3>1. PICK i \in 1..(n + m - 1) : z[i] = t
      BY <2>2, <2>7, <2>8 DEF Esta
    <3>2. CASE i + 1 <= n
      <4>1. n = 2 /\ i = 1
        BY <2>2, <3>1, <3>2
      <4> QED
        BY <2>4, <2>7, <3>1, <4>1
    <3>3. CASE i + 1 > n
      <4>1. i + 1 \in n + 1 .. n + m /\ i + 1 - n \in DOMAIN c
        BY <2>2, <2>3, <3>1, <3>3
      <4>2. c[i + 1 - n] = t
        BY <2>2, <2>4, <2>7, <3>1, <4>1
      <4> QED
        BY <4>1, <4>2 DEF Esta
    <3> QED
      BY <2>2, <3>1, <3>2, <3>3
  <2> QED
    BY <2>5, <2>6, <2>8
<1>6. pila' = [pila EXCEPT ![h] = r]
  BY <1>1 DEF Sigue
<1>7. pila' \in [Hilos -> Seq(Tarea)] /\ pila'[h] = r /\ \A k \in Hilos \ {h} : pila'[k] = pila[k]
  BY <1>2, <1>4, <1>6
<1>8. \A t : Hay(t) /\ Ingresa(t)' => Ingresa(t)
  BY DEF Ingresa
<1>9. \A t : Esta(t, c) => Hay(t) /\ ~Ingresa(t) /\ t.op \in Repertorio(h)
  <2>1. \A t : Esta(t, c) => Esta(t, s)
    BY <1>1, <1>2, CabezaOResto
  <2> QED
    BY <1>1, <1>2, <2>1 DEF IInvSolo, SinSuspension, Ingreso, Hay
<1>10. ~Ingresa(w)'
  BY DEF Ingresa
<1>11. \A t : Esta(t, Tail(r)) => ~Ingresa(t)'
  BY <1>5, <1>8, <1>9, <1>10
<1>12. h = Main /\ MainSolo => MainSolo'
  BY <1>7 DEF MainSolo
<1>13. Ingreso(h)'
  BY <1>5, <1>7, <1>11, <1>12 DEF Ingreso
<1>14. \A t : Esta(t, pila'[h]) => t.op \in Repertorio(h)
  BY <1>3, <1>4, <1>7, <1>9
<1>15. Ajenas(h)
  <2>1. ASSUME NEW k \in Hilos \ {h}, NEW t, Esta(t, pila[k]), t.pid \in Procs
        PROVE  /\ estado'[t.pid] = "NEW" /\ t.op = "READY" => estado[t.pid] = "NEW"
               /\ Ingresa(t) => estado'[t.pid] = "NEW"
    <3>1. Hay(t)
      BY <2>1 DEF Hay
    <3>2. ASSUME Ingresa(t) PROVE estado[t.pid] = "NEW"
      <4>1. pila[k] \in Seq(Tarea) /\ pila[k] # <<>>
        BY <1>2, <2>1, EstaEnVacia
      <4>2. t = Head(pila[k]) \/ Esta(t, Tail(pila[k]))
        BY <2>1, <4>1, CabezaOResto
      <4> QED
        BY <3>2, <4>1, <4>2 DEF IInvSolo, Ingreso
    <3> QED
      BY <2>1, <3>1, <3>2
  <2> QED
    BY <1>7, <2>1 DEF Ajenas
<1>16. h = Main \/ ~MainSolo
  BY DEF MainSolo
<1>17. \A q \in Procs : estado'[q] \notin {"BLOCKED_SUSPENDED", "READY_SUSPENDED"}
  OBVIOUS
<1> QED
  BY <1>7, <1>13, <1>14, <1>15, <1>16, <1>17, SoloAjenas

(* What each step of a thread, the ones above aside, does to the stacks.    *)
LEMMA SoloToca ==
    ASSUME IInvCiclo, IInvSolo, NEW h \in Hilos, NEW o, NEW p \in Procs \cup {Nadie}, Toca(h, o, p)
    PROVE  /\ ~caido /\ pila[h] # <<>> /\ Head(pila[h]).op = o /\ Head(pila[h]).pid = p
           /\ o \in Ops /\ o \in Repertorio(h) /\ o \notin Suspenden
           /\ h # Cpu(LaCpu) => o \in Comunes
<1>1. ~caido /\ pila[h] # <<>> /\ Head(pila[h]).op = o /\ Head(pila[h]).pid = p
  BY TocaAlgo
<1>2. Esta(Head(pila[h]), pila[h]) /\ Head(pila[h]) \in Tarea
  BY <1>1, PilasDelCiclo, Cabeza
<1>3. o \in Ops /\ o \in Repertorio(h)
  BY <1>1, <1>2 DEF IInvSolo, SinSuspension, Tarea
<1> QED
  BY <1>1, <1>3 DEF Repertorio, Comunes, Suspenden, Relojes

(* What the steps that move nobody leave to do.                             *)
LEMMA QuietasMansas ==
    ASSUME IInvCiclo, IInvSolo, NEW h \in Hilos, NEW p \in Procs, VenceTimer = FALSE,
           \/ NewFin(h, p) \/ ReadyCpu(h, p) \/ Bloquear(h, p) \/ Join(h, p)
           \/ TimerArranca(h, p) \/ TimerCancelado(h, p) \/ EncolarIO(h, p)
           \/ Dump(h, p) \/ DumpOk(h, p) \/ DumpError(h, p) \/ DumpExit(h, p)
    PROVE  \E o \in Ops \ (Ingresan \cup {"READY"} \cup Piden) :
               Toca(h, o, p) /\ \E u : Mansa(h, u) /\ Sigue(h, u)
<1> DEFINE Buenos == (Ops \cap Repertorio(h)) \ (Ingresan \cup {"READY"})
<1>1. ASSUME NEW o, Toca(h, o, p) PROVE pila[h] # <<>> /\ (o \notin Comunes => h = Cpu(LaCpu))
  BY <1>1, SoloToca
<1>2. {"NEW_FIN", "JOIN", "ENCOLAR_IO", "DORMIR", "READY_CPU", "TIMER", "BLOQUEAR", "DUMP", "DUMP_FALLA",
       "DUMP_OK", "DUMP_ERROR", "DUMP_EXIT"} \subseteq Ops \ (Ingresan \cup {"READY"} \cup Piden)
  BY DEF Ops, Ingresan, Piden
<1>3. {"EXECUTE", "DORMIR"} \subseteq Buenos
  BY DEF Repertorio, Comunes, Ops, Suspenden, Relojes, Ingresan
<1>4. h = Cpu(LaCpu) => {"JOIN", "CREAR_TIMER", "DUMP_ERROR", "DUMP_OK", "DUMP_FIN", "DUMP_EXIT", "EXIT"} \subseteq Buenos
  BY DEF Repertorio, Ops, Suspenden, Ingresan
<1>5. /\ Mansa(h, <<>>)
      /\ \A o \in Buenos : Mansa(h, <<Por(o, p)>>)
      /\ \A o, m \in Buenos : Mansa(h, <<Por(o, p), Por(m, p)>>)
  BY MansasPocas
<1> HIDE DEF Buenos
<1>6. CASE NewFin(h, p) \/ Join(h, p) \/ EncolarIO(h, p) \/ TimerCancelado(h, p)
  <2>1. Sigue(h, <<>>) /\ \E o \in {"NEW_FIN", "JOIN", "ENCOLAR_IO", "DORMIR"} : Toca(h, o, p)
    BY <1>6 DEF NewFin, Join, EncolarIO, TimerCancelado, Solo
  <2> QED
    BY <1>2, <1>5, <2>1
<1>7. CASE ReadyCpu(h, p)
  <2>1. Toca(h, "READY_CPU", p) /\ (Sigue(h, <<Por("EXECUTE", p)>>) \/ Sigue(h, <<>>))
    BY <1>7 DEF ReadyCpu
  <2> QED
    BY <1>2, <1>3, <1>5, <2>1
<1>8. CASE TimerArranca(h, p)
  <2>1. Toca(h, "TIMER", p) /\ Sigue(h, <<Por("DORMIR", p)>>)
    BY <1>8 DEF TimerArranca
  <2> QED
    BY <1>2, <1>3, <1>5, <2>1
<1>9. CASE Bloquear(h, p)
  <2>1. /\ Toca(h, "BLOQUEAR", p)
        /\ Sigue(h, <<Por("JOIN", p), Por("CREAR_TIMER", p)>>) \/ Sigue(h, <<Por("CREAR_TIMER", p)>>)
    BY <1>9 DEF Bloquear
  <2>2. h = Cpu(LaCpu)
    BY <1>1, <2>1 DEF Comunes, Relojes
  <2> QED
    BY <1>2, <1>4, <1>5, <2>1, <2>2
<1>10. CASE Dump(h, p)
  <2>1. PICK o \in {"DUMP", "DUMP_FALLA"} :
            /\ Toca(h, o, p)
            /\ Sigue(h, <<Por("DUMP_ERROR", p)>>) \/ Sigue(h, <<Por("DUMP_OK", p)>>)
    BY <1>10 DEF Dump
  <2>2. h = Cpu(LaCpu)
    BY <1>1, <2>1 DEF Comunes, Relojes
  <2> QED
    BY <1>2, <1>4, <1>5, <2>1, <2>2
<1>11. CASE DumpOk(h, p)
  <2>1. Toca(h, "DUMP_OK", p) /\ Sigue(h, <<Por("JOIN", p), Por("DUMP_FIN", p)>>)
    BY <1>11 DEF DumpOk
  <2>2. h = Cpu(LaCpu)
    BY <1>1, <2>1 DEF Comunes, Relojes
  <2> QED
    BY <1>2, <1>4, <1>5, <2>1, <2>2
<1>12. CASE DumpError(h, p)
  <2>1. Toca(h, "DUMP_ERROR", p) /\ Sigue(h, <<Por("JOIN", p), Por("DUMP_EXIT", p)>>)
    BY <1>12 DEF DumpError
  <2>2. h = Cpu(LaCpu)
    BY <1>1, <2>1 DEF Comunes, Relojes
  <2> QED
    BY <1>2, <1>4, <1>5, <2>1, <2>2
<1>13. CASE DumpExit(h, p)
  <2>1. Toca(h, "DUMP_EXIT", p) /\ Sigue(h, <<Por("EXIT", p)>>)
    BY <1>13 DEF DumpExit
  <2>2. h = Cpu(LaCpu)
    BY <1>1, <2>1 DEF Comunes, Relojes
  <2> QED
    BY <1>2, <1>4, <1>5, <2>1, <2>2
<1> QED
  BY <1>6, <1>7, <1>8, <1>9, <1>10, <1>11, <1>12, <1>13

LEMMA SoloDeQuietas ==
    ASSUME IInvCiclo, IInvSolo, NEW h \in Hilos, NEW p \in Procs, VenceTimer = FALSE,
           \/ NewFin(h, p) \/ ReadyCpu(h, p) \/ Bloquear(h, p) \/ Join(h, p)
           \/ TimerArranca(h, p) \/ TimerCancelado(h, p) \/ EncolarIO(h, p)
           \/ Dump(h, p) \/ DumpOk(h, p) \/ DumpError(h, p) \/ DumpExit(h, p)
    PROVE  IInvSolo'
<1>1. UNCHANGED estado
  BY DEF NewFin, ReadyCpu, Bloquear, Join, TimerArranca, TimerCancelado, EncolarIO, Dump, DumpOk,
         DumpError, DumpExit, Solo, otras, planVars
<1>2. PICK o \in Ops \ (Ingresan \cup {"READY"} \cup Piden) :
          Toca(h, o, p) /\ \E u : Mansa(h, u) /\ Sigue(h, u)
  BY QuietasMansas
<1>3. PICK u : Mansa(h, u) /\ Sigue(h, u)
  BY <1>2
<1> QED
  BY <1>1, <1>2, <1>3, SoloToca, SoloMansa

LEMMA SoloDeOtras ==
    ASSUME IInvCiclo, IInvSolo, NEW h \in Hilos, NEW p \in Procs, VenceTimer = FALSE
    PROVE  ~\/ TimerVence(h, p) \/ TimerRevisa(h, p) \/ Suspender(h, p) \/ SuspenderMem(h, p)
            \/ TimerCancela(h, p) \/ TimerTermina(h, p) \/ ReadySuspended(h, p)
            \/ ReadySuspendedVer(h, p)
<1>1. \A o \in Suspenden : ~Toca(h, o, p)
  BY SoloToca
<1> QED
  BY <1>1 DEF TimerVence, TimerRevisa, Suspender, SuspenderMem, TimerCancela, TimerTermina,
              ReadySuspended, ReadySuspendedVer, Suspenden

(* Who moves a process that is not on its way from NEW, or is READY's own.  *)
LEMMA SoloEstado ==
    ASSUME IInvCiclo, IInvSolo, NEW h \in Hilos, NEW p \in Procs, NEW o, Toca(h, o, p),
           o = "READY" \/ estado[p] # "NEW",
           NEW e \in Estados \ {"NEW", "BLOCKED_SUSPENDED", "READY_SUSPENDED"},
           estado' = [estado EXCEPT ![p] = e], NEW u, Mansa(h, u), Sigue(h, u)
    PROVE  IInvSolo'
<1>1. pila[h] # <<>> /\ Head(pila[h]) = Por(o, p) /\ estado \in [Procs -> Estados]
  BY PilasDelCiclo DEF Toca
<1>2. \A q \in Procs : estado'[q] = IF q = p THEN e ELSE estado[q]
  BY <1>1
<1>3. u \in Seq(Tarea) /\ \A t : Esta(t, u) => t.op \in Repertorio(h) /\ ~Ingresa(t)'
  BY DEF Mansa, Ingresa
<1>4. \A q \in Procs : /\ estado'[q] = "NEW" => estado[q] = "NEW"
                       /\ estado[q] = "NEW" => \/ estado'[q] = "NEW"
                                               \/ Head(pila[h]) = Por("READY", q)
                       /\ estado'[q] \notin {"BLOCKED_SUSPENDED", "READY_SUSPENDED"}
  BY <1>1, <1>2 DEF IInvSolo, SinSuspension
<1> QED
  BY <1>1, <1>3, <1>4, SoloSigue

LEMMA SoloDeEstados ==
    ASSUME IInvCiclo, IInvSolo, NEW h \in Hilos, NEW p \in Procs,
           Ready(h, p) \/ Execute(h, p) \/ Blocked(h, p) \/ Exit(h, p) \/ ExitMem(h, p)
    PROVE  IInvSolo'
<1>1. {"READY", "EXECUTE", "BLOCKED", "EXIT", "ELIMINADO"}
          \subseteq Estados \ {"NEW", "BLOCKED_SUSPENDED", "READY_SUSPENDED"}
  BY DEF Estados
<1>2. {"READY_CPU", "ENVIAR"} \subseteq (Ops \cap Repertorio(h)) \ (Ingresan \cup {"READY"})
  BY DEF Repertorio, Comunes, Ops, Suspenden, Relojes, Ingresan
<1>3. h = Cpu(LaCpu) =>
          {"BLOQUEAR", "EXIT_MEM", "TRAER"} \subseteq (Ops \cap Repertorio(h)) \ (Ingresan \cup {"READY"})
  BY DEF Repertorio, Ops, Suspenden, Ingresan
<1>4. "EXECUTE" \in Mueven /\ "EXIT" \in Mueven /\ "EXIT_MEM" \in Mueven
  BY DEF Mueven
<1>5. CASE Ready(h, p)
  <2>1. PICK u : u = <<Por("READY_CPU", p)>> /\ Mansa(h, u)
    BY <1>2, MansasPocas
  <2>2. Toca(h, "READY", p) /\ estado' = [estado EXCEPT ![p] = "READY"] /\ Sigue(h, u)
    BY <1>5, <2>1 DEF Ready, CambiarEstado
  <2> QED
    BY <1>1, <2>1, <2>2, SoloEstado
<1>6. CASE Execute(h, p)
  <2>1. PICK u : u = <<Por("ENVIAR", p)>> /\ Mansa(h, u)
    BY <1>2, MansasPocas
  <2>2. Toca(h, "EXECUTE", p) /\ estado' = [estado EXCEPT ![p] = "EXECUTE"] /\ Sigue(h, u)
    BY <1>6, <2>1 DEF Execute, CambiarEstado
  <2>3. estado[p] = "READY"
    BY <1>4, <2>2, TocaMotivo DEF Motivo
  <2> QED
    BY <1>1, <2>1, <2>2, <2>3, SoloEstado
<1>7. CASE Blocked(h, p)
  <2>1. Toca(h, "BLOCKED", p) /\ estado' = [estado EXCEPT ![p] = "BLOCKED"] /\ Sigue(h, <<Por("BLOQUEAR", p)>>)
    BY <1>7 DEF Blocked, CambiarEstado
  <2>2. h = Cpu(LaCpu)
    BY <2>1, SoloToca DEF Comunes, Relojes
  <2>3. PICK u : u = <<Por("BLOQUEAR", p)>> /\ Mansa(h, u)
    BY <1>3, <2>2, MansasPocas
  <2>4. estado[p] = "EXECUTE"
    BY <2>1, TocaAlgo DEF IInvCiclo, EnRumbo
  <2> QED
    BY <1>1, <2>1, <2>3, <2>4, SoloEstado
<1>8. CASE Exit(h, p)
  <2>1. Toca(h, "EXIT", p) /\ estado' = [estado EXCEPT ![p] = "EXIT"] /\ Sigue(h, <<Por("EXIT_MEM", p)>>)
    BY <1>8 DEF Exit, CambiarEstado
  <2>2. h = Cpu(LaCpu)
    BY <2>1, SoloToca DEF Comunes, Relojes
  <2>3. PICK u : u = <<Por("EXIT_MEM", p)>> /\ Mansa(h, u)
    BY <1>3, <2>2, MansasPocas
  <2>4. estado[p] \in Dormidos \cup {"EXECUTE"}
    BY <1>4, <2>1, TocaMotivo DEF Motivo
  <2>5. estado[p] # "NEW"
    BY <2>4 DEF Dormidos
  <2> QED
    BY <1>1, <2>1, <2>3, <2>5, SoloEstado
<1>9. CASE ExitMem(h, p)
  <2>1. Toca(h, "EXIT_MEM", p) /\ estado' = [estado EXCEPT ![p] = "ELIMINADO"] /\ Sigue(h, <<Sola("TRAER")>>)
    BY <1>9 DEF ExitMem, DespuesDelExit
  <2>2. h = Cpu(LaCpu)
    BY <2>1, SoloToca DEF Comunes, Relojes
  <2>3. PICK u : u = <<Sola("TRAER")>> /\ Mansa(h, u)
    BY <1>3, <2>2, MansasPocas
  <2>4. estado[p] # "NEW"
    BY <1>4, <2>1, TocaMotivo DEF Motivo
  <2> QED
    BY <1>1, <2>1, <2>3, <2>4, SoloEstado
<1> QED
  BY <1>5, <1>6, <1>7, <1>8, <1>9

LEMMA SoloDeVuelta ==
    ASSUME SolaCpu, IInvCiclo, IInvSolo, NEW h \in Hilos, NEW p \in Procs,
           Enviar(h, p) \/ Desbloqueo(h, p) \/ DumpFin(h, p)
    PROVE  IInvSolo'
<1>1. UNCHANGED estado
  BY DEF Enviar, Desbloqueo, DumpFin, Solo, otras, planVars
<1>2. {"ENVIAR", "DESBLOQUEO", "DUMP_FIN"} \subseteq Mueven /\ {"DESBLOQUEO", "DUMP_FIN"} \subseteq Levantan
  BY DEF Mueven, Levantan
<1>3. estado[p] # "BLOCKED_SUSPENDED"
  BY DEF IInvSolo, SinSuspension
<1>4. ASSUME NEW o \in {"DESBLOQUEO", "DUMP_FIN"}, Toca(h, o, p), Sigue(h, <<Por("READY", p)>>)
      PROVE  IInvSolo'
  <2>1. estado[p] = "BLOCKED" /\ pila[h] # <<>>
    BY <1>2, <1>3, <1>4, TocaMotivo, SoloToca DEF Motivo, Dormidos
  <2>2. PICK t, u : t = Por("READY", p) /\ t.op = "READY" /\ t.pid = p /\ t \in Tarea /\ u = <<t>>
    <3>1. "READY" \in Ops
      BY DEF Ops
    <3>2. PICK t : t = Por("READY", p) /\ t.op = "READY" /\ t.pid = p /\ t \in Tarea
      BY <3>1, PorTarea
    <3> QED
      BY <3>2
  <2>3. u \in Seq(Tarea) /\ \A x : Esta(x, u) <=> x = t
    BY <2>2, EstaEnUna
  <2>4. t.op \in Repertorio(h) /\ ~Ingresa(t)'
    BY <1>1, <2>1, <2>2 DEF Repertorio, Comunes, Ops, Suspenden, Ingresa, Ingresan
  <2>5. \A q \in Procs : /\ estado'[q] = "NEW" => estado[q] = "NEW"
                         /\ estado[q] = "NEW" => estado'[q] = "NEW"
                         /\ estado'[q] \notin {"BLOCKED_SUSPENDED", "READY_SUSPENDED"}
    BY <1>1 DEF IInvSolo, SinSuspension
  <2> QED
    BY <1>4, <2>1, <2>2, <2>3, <2>4, <2>5, SoloSigue
<1>5. CASE Enviar(h, p)
  <2>1. Toca(h, "ENVIAR", p)
    BY <1>5 DEF Enviar
  <2>2. cpuPid[LaCpu] = p
    BY <1>2, <2>1, TocaMotivo DEF Motivo
  <2>3. Sigue(h, <<>>)
    BY <1>5, <2>2 DEF Enviar, CpusDe, SolaCpu
  <2> QED
    BY <1>1, <2>1, <2>3, SoloToca, MansasPocas, SoloMansa
<1>6. CASE Desbloqueo(h, p)
  <2>1. Toca(h, "DESBLOQUEO", p) /\ Sigue(h, <<Por(IF estado[p] = "BLOCKED" THEN "READY" ELSE "READY_SUSPENDED", p)>>)
    BY <1>6 DEF Desbloqueo, DestinoTrasIO
  <2>2. estado[p] = "BLOCKED"
    BY <1>2, <1>3, <2>1, TocaMotivo DEF Motivo, Dormidos
  <2> QED
    BY <1>4, <2>1, <2>2
<1>7. CASE DumpFin(h, p)
  <2>1. /\ Toca(h, "DUMP_FIN", p)
        /\ Sigue(h, <<Por(IF estado[p] = "BLOCKED_SUSPENDED" THEN "READY_SUSPENDED" ELSE "READY", p)>>)
    BY <1>7 DEF DumpFin, Solo
  <2> QED
    BY <1>3, <1>4, <2>1
<1> QED
  BY <1>5, <1>6, <1>7

LEMMA SoloDeTimer ==
    ASSUME IInvCiclo, IInvSolo, Novatos, NEW h \in Hilos, NEW p \in Procs, CrearTimer(h, p)
    PROVE  IInvSolo'
<1>1. PICK j, n, t : n = hiloBlock[p] + 1 /\ j = Timer(p, n) /\ t = Por("TIMER", p)
  OBVIOUS
<1>2. /\ n <= MaxTimers /\ Toca(h, "CREAR_TIMER", p)
      /\ pila' = [pila EXCEPT ![h] = Tail(@), ![j] = <<t>>]
      /\ UNCHANGED <<estado, contexto, enIO>>
  BY <1>1 DEF CrearTimer, planVars, cpuVars, guionVars
<1>3. pila[h] # <<>> /\ pila \in [Hilos -> Seq(Tarea)] /\ pila[h] \in Seq(Tarea) /\ h = Cpu(LaCpu)
  <2>1. pila \in [Hilos -> Seq(Tarea)] /\ pila[h] \in Seq(Tarea)
    BY PilasDelCiclo
  <2>2. "CREAR_TIMER" \notin Comunes
    BY DEF Comunes, Relojes
  <2>3. pila[h] # <<>> /\ h = Cpu(LaCpu)
    BY <1>2, <2>2, SoloToca
  <2> QED
    BY <2>1, <2>3
<1>4. j \in Hilos /\ pila[j] = <<>> /\ h # j
  <2>1. hiloBlock[p] \in Nat
    BY PilasDelCiclo, MaxTimersAssumption DEF IInvTipos, TypeOK
  <2>2. n \in 1..MaxTimers /\ n > hiloBlock[p]
    BY <1>1, <1>2, <2>1, MaxTimersAssumption
  <2>3. j \in Hilos /\ pila[j] = <<>>
    BY <1>1, <2>2, HilosPropios DEF Novatos
  <2> QED
    BY <1>3, <2>3
<1>5. t \in Tarea /\ t.op = "TIMER"
  <2>1. "TIMER" \in Ops
    BY DEF Ops
  <2> QED
    BY <1>1, <2>1, PorTarea
<1>16. PICK w : w = <<t>>
  OBVIOUS
<1>6. w \in Seq(Tarea) /\ w # <<>> /\ \A x : Esta(x, w) <=> x = t
  <2>2. w \in Seq(Tarea) /\ w # <<>>
    BY <1>5, <1>16
  <2>3. \A x : Esta(x, w) <=> x = t
    BY <1>16, EstaEnUna
  <2> QED
    BY <2>2, <2>3
<1>7. PICK c : c = Tail(pila[h]) /\ c \in Seq(Tarea)
  <2>1. PICK c : c = Tail(pila[h])
    OBVIOUS
  <2>2. c \in Seq(Tarea)
    BY <1>3, <2>1
  <2> QED
    BY <2>1, <2>2
<1>8. /\ pila'[h] = c /\ pila'[j] = w /\ \A k \in Hilos \ {h, j} : pila'[k] = pila[k]
      /\ pila' \in [Hilos -> Seq(Tarea)]
  BY <1>2, <1>3, <1>4, <1>6, <1>7, <1>16
<1>9. \A x : Esta(x, c) => Esta(x, pila[h]) /\ ~Ingresa(x) /\ x.op \in Repertorio(h)
  <2>1. \A x : Esta(x, c) => Esta(x, pila[h])
    BY <1>3, <1>7, CabezaOResto
  <2> QED
    BY <1>3, <1>7, <2>1 DEF IInvSolo, SinSuspension, Ingreso
<1>10. \A x : Ingresa(x)' <=> Ingresa(x)
  BY <1>2 DEF Ingresa
<1>11. Ingreso(h)'
  <2>1. c # <<>> => \A x : Esta(x, c) <=> x = Head(c) \/ Esta(x, Tail(c))
    BY <1>7, CabezaOResto
  <2>2. PICK y : y = Head(c)
    OBVIOUS
  <2>3. c # <<>> => ~Ingresa(y)' /\ \A x : Esta(x, Tail(c)) => ~Ingresa(x)'
    BY <1>9, <1>10, <2>1, <2>2
  <2> QED
    BY <1>8, <2>2, <2>3 DEF Ingreso
<1>12. Ajenas(h)
  <2>1. ASSUME NEW k \in Hilos \ {h, j}, NEW x, Esta(x, pila[k]), Ingresa(x) PROVE estado[x.pid] = "NEW"
    <3>1. pila[k] \in Seq(Tarea) /\ pila[k] # <<>>
      BY <1>3, <2>1, EstaEnVacia
    <3>2. x = Head(pila[k]) \/ Esta(x, Tail(pila[k]))
      BY <2>1, <3>1, CabezaOResto
    <3> QED
      BY <2>1, <3>1, <3>2 DEF IInvSolo, Ingreso
  <2>2. pila'[j] # <<>> /\ \A x : Esta(x, pila'[j]) => x.op \in Relojes
    BY <1>5, <1>6, <1>8 DEF Relojes
  <2> QED
    BY <1>2, <1>8, <2>1, <2>2 DEF Ajenas
<1>13. h = Main \/ ~MainSolo
  BY <1>3 DEF MainSolo
<1>14. \A x : Esta(x, pila'[h]) => x.op \in Repertorio(h)
  BY <1>8, <1>9
<1>15. \A q \in Procs : estado'[q] \notin {"BLOCKED_SUSPENDED", "READY_SUSPENDED"}
  BY <1>2 DEF IInvSolo, SinSuspension
<1> QED
  BY <1>8, <1>11, <1>12, <1>13, <1>14, <1>15, SoloAjenas

LEMMA SoloDeNew ==
    ASSUME SolaCpu, IInvCiclo, IInvSolo, NEW h \in Hilos, NEW p \in Procs,
           New(h, p) \/ NewTraer(h, p) \/ NewInit(h, p)
    PROVE  IInvSolo'
<1>1. {"NEW_TRAER", "NEW_INIT", "READY", "NEW_FIN"} \subseteq Ops \cap Repertorio(h)
      /\ "NEW_FIN" \notin Ingresan \cup {"READY"}
  BY DEF Repertorio, Comunes, Ops, Suspenden, Relojes, Ingresan
<1>2. PICK w : w = Por("NEW_FIN", p) /\ w \in Tarea /\ w.op = "NEW_FIN"
  BY <1>1, PorTarea
<1>3. \A o \in {"NEW_TRAER", "NEW_INIT", "READY"} :
          Por(o, p) \in Tarea /\ Por(o, p).op = o /\ Por(o, p).pid = p
  BY <1>1, PorTarea
<1>4. UNCHANGED <<contexto, enIO>>
  BY DEF New, NewTraer, NewInit, cpuVars, guionVars
<1>5. CASE New(h, p)
  <2>1. /\ Toca(h, "NEW", p) /\ estado' = [estado EXCEPT ![p] = "NEW"]
        /\ Sigue(h, <<Por("NEW_TRAER", p)>>)
    BY <1>5 DEF New, CambiarEstado
  <2>2. pila[h] # <<>> /\ Head(pila[h]).op = "NEW" /\ Head(pila[h]).pid = p
    BY <2>1, SoloToca
  <2>3. Esta(Head(pila[h]), pila[h])
    BY <2>2, PilasDelCiclo, Cabeza
  <2>4. h = Cpu(LaCpu) \/ (h = Main /\ MainSolo)
    <3>1. "NEW" \in Creadoras /\ LaCpu \in Cpus
      BY DEF Creadoras, SolaCpu
    <3>2. h = Main \/ \E c \in Cpus : h = Cpu(c)
      BY <2>2, <2>3, <3>1 DEF IInvCiclo, IInvOrden, UnCreador
    <3>3. h = Main => MainSolo
      BY <2>2, <2>3, <3>1 DEF IInvCiclo, IInvOrden, UnCreador, MainSolo
    <3> QED
      BY <3>2, <3>3 DEF SolaCpu
  <2>5. estado[p] = "CREADO"
    BY <2>2, <2>3 DEF IInvCiclo, IInvOrden, SoloNacidos
  <2>6. \A q \in Procs : estado'[q] = IF q = p THEN "NEW" ELSE estado[q]
    BY <2>1, PilasDelCiclo
  <2>7. \A t : Hay(t) /\ t.op = "READY" /\ t.pid \in Procs => t.pid # p
    BY <2>5 DEF IInvCiclo, IInvOrden, SoloNacidos, Nacidos, NoNatos, Hay
  <2>8. \A t : Hay(t) /\ t.op = "READY" /\ t.pid \in Procs /\ estado'[t.pid] = "NEW" =>
                   estado[t.pid] = "NEW"
    BY <2>6, <2>7
  <2>9. \A q \in Procs : /\ estado[q] = "NEW" => estado'[q] = "NEW"
                         /\ estado'[q] \notin {"BLOCKED_SUSPENDED", "READY_SUSPENDED"}
    BY <2>6 DEF IInvSolo, SinSuspension
  <2>10. PICK v : v = Por("NEW_TRAER", p)
    OBVIOUS
  <2>11. v \in Tarea /\ v.op \in Repertorio(h) /\ v.pid = p /\ Sigue(h, <<v>>)
    BY <1>1, <1>3, <2>1, <2>10
  <2>12. estado'[p] = "NEW"
    BY <2>6
  <2> QED
    BY <1>1, <1>2, <1>4, <2>2, <2>4, <2>8, <2>9, <2>11, <2>12, SoloIngresa
<1>6. ASSUME NEW o \in Ingresan, Toca(h, o, p), UNCHANGED estado,
             NEW v \in Tarea, v.op \in Repertorio(h), v.pid = p,
             Sigue(h, <<v>>) \/ Sigue(h, <<v, w>>)
      PROVE  IInvSolo'
  <2>1. pila[h] # <<>> /\ Head(pila[h]).op = o /\ Head(pila[h]).pid = p
    BY <1>6, SoloToca
  <2>2. estado[p] = "NEW" /\ (h = Cpu(LaCpu) \/ (h = Main /\ MainSolo))
    BY <1>6, <2>1 DEF IInvSolo, Ingreso, Ingresa
  <2>3. \A t : Hay(t) /\ t.op = "READY" /\ t.pid \in Procs /\ estado'[t.pid] = "NEW" =>
                   estado[t.pid] = "NEW"
    BY <1>6
  <2>4. \A q \in Procs : /\ estado[q] = "NEW" => estado'[q] = "NEW"
                         /\ estado'[q] \notin {"BLOCKED_SUSPENDED", "READY_SUSPENDED"}
    BY <1>6 DEF IInvSolo, SinSuspension
  <2>5. PICK u : u \in {<<v>>, <<v, w>>} /\ Sigue(h, u)
    BY <1>6
  <2>6. u = <<v>> \/ u = <<v, w>>
    BY <2>5
  <2> QED
    BY <1>1, <1>2, <1>4, <1>6, <2>1, <2>2, <2>3, <2>4, <2>5, <2>6, SoloIngresa
<1>7. ASSUME NEW o, Toca(h, o, p), UNCHANGED estado, Sigue(h, <<Por("NEW_FIN", p)>>)
      PROVE  IInvSolo'
  <2>1. PICK u : u = <<Por("NEW_FIN", p)>> /\ Mansa(h, u)
    BY <1>1, MansasPocas
  <2> QED
    BY <1>7, <2>1, SoloToca, SoloMansa
<1>8. "NEW_TRAER" \in Ingresan /\ "NEW_INIT" \in Ingresan
  BY DEF Ingresan
<1>9. CASE NewTraer(h, p)
  <2>1. /\ Toca(h, "NEW_TRAER", p) /\ UNCHANGED estado
        /\ Sigue(h, <<Por("NEW_INIT", p)>>) \/ Sigue(h, <<Por("NEW_FIN", p)>>)
    BY <1>9 DEF NewTraer, planVars
  <2>2. PICK v : v = Por("NEW_INIT", p)
    OBVIOUS
  <2>3. v \in Tarea /\ v.op \in Repertorio(h) /\ v.pid = p
    BY <1>1, <1>3, <2>2
  <2> QED
    BY <1>6, <1>7, <1>8, <2>1, <2>2, <2>3
<1>10. CASE NewInit(h, p)
  <2>1. Toca(h, "NEW_INIT", p) /\ UNCHANGED estado
    BY <1>10 DEF NewInit, planVars
  <2>2. PICK v : v = Por("READY", p)
    OBVIOUS
  <2>3. v \in Tarea /\ v.op \in Repertorio(h) /\ v.pid = p
    BY <1>1, <1>3, <2>2
  <2>4. Sigue(h, <<v, w>>) \/ Sigue(h, <<Por("NEW_FIN", p)>>)
    BY <1>2, <1>10, <2>2 DEF NewInit
  <2> QED
    BY <1>6, <1>7, <1>8, <2>1, <2>3, <2>4
<1> QED
  BY <1>5, <1>9, <1>10

LEMMA SoloDePlanificador ==
    ASSUME SolaCpu, IInvCiclo, IInvSolo, NEW h \in Hilos, DePlanificador(h)
    PROVE  IInvSolo'
<1>1. UNCHANGED estado
  BY DEF DePlanificador, TraerEntra, TraerRS, TraerVerNew, TraerNew, MandarEntra, MandarVer,
         MandarTomar, planVars
<1>2. PICK o \in {"TRAER", "TRAER_RS", "TRAER_NEW", "PEDIR_NEW", "MANDAR", "MANDAR_VER", "MANDAR_TOMAR"} :
          Toca(h, o, Nadie)
  BY DEF DePlanificador, TraerEntra, TraerRS, TraerVerNew, TraerNew, MandarEntra, MandarVer, MandarTomar
<1>3. h = Cpu(LaCpu) /\ pila[h] # <<>>
  BY <1>2, SoloToca DEF Comunes, Relojes
<1>4. {"TRAER_RS", "TRAER_NEW", "PEDIR_NEW", "MANDAR_VER", "MANDAR_TOMAR", "EXECUTE"}
          \subseteq (Ops \cap Repertorio(h)) \ (Ingresan \cup {"READY"})
  BY <1>3 DEF Repertorio, Ops, Suspenden, Ingresan
<1>5. ASSUME NEW u, Mansa(h, u), Sigue(h, u) PROVE IInvSolo'
  BY <1>1, <1>3, <1>5, SoloMansa
<1>6. CASE TraerEntra(h) \/ TraerVerNew(h) \/ MandarEntra(h) \/ MandarVer(h)
  <2>1. \E x \in {"TRAER_RS", "PEDIR_NEW", "MANDAR_VER", "MANDAR_TOMAR"} :
            Sigue(h, <<>>) \/ Sigue(h, <<Sola(x)>>)
    BY <1>6 DEF TraerEntra, TraerVerNew, MandarEntra, MandarVer
  <2> QED
    BY <1>4, <1>5, <2>1, MansasPocas
<1>7. CASE TraerRS(h)
  <2>1. cola["READY_SUSPENDED"] = <<>>
    <3>1. "READY_SUSPENDED" \in Colas
      BY DEF Colas
    <3> QED
      BY <3>1, EnColaEs DEF IInvSolo, SinSuspension
  <2>2. Sigue(h, <<Sola("TRAER_NEW")>>)
    BY <1>7, <2>1 DEF TraerRS
  <2> QED
    BY <1>4, <1>5, <2>2, MansasPocas
<1>8. CASE MandarTomar(h)
  <2>1. CASE CpusDisponibles # {} /\ cola["READY"] # <<>>
    <3>1. PICK p \in Procs : p = Head(cola["READY"])
      BY <2>1, EnColaEs DEF Colas
    <3>2. Sigue(h, <<Por("EXECUTE", p), Sola("MANDAR_VER")>>) /\ Sola("MANDAR_VER") = Por("MANDAR_VER", Nadie)
      BY <1>8, <2>1, <3>1 DEF MandarTomar, Sola, Por
    <3>3. Mansa(h, <<Por("EXECUTE", p), Por("MANDAR_VER", Nadie)>>)
      BY <1>4, MansasPocas
    <3> QED
      BY <1>5, <3>2, <3>3
  <2>2. CASE ~(CpusDisponibles # {} /\ cola["READY"] # <<>>)
    BY <1>5, <1>8, <2>2, MansasPocas DEF MandarTomar
  <2> QED
    BY <2>1, <2>2
<1>9. CASE TraerNew(h)
  <2>1. UNCHANGED <<contexto, enIO>>
    BY <1>9 DEF TraerNew, cpuVars, guionVars
  <2>2. CASE cola["NEW"] # <<>> /\ Entra(Elegido("NEW"))
    <3>1. PICK p : p \in Procs /\ p = Elegido("NEW") /\ estado[p] = "NEW"
      BY <2>2, EnColaEs DEF Colas, Elegido
    <3>2. PICK v : v = Por("READY", p) /\ v \in Tarea /\ v.op = "READY" /\ v.pid = p
      <4>1. "READY" \in Ops
        BY DEF Ops
      <4> QED
        BY <3>1, <4>1, PorTarea
    <3>3. PICK w : w = Sola("TRAER_NEW") /\ w \in Tarea /\ w.op = "TRAER_NEW"
      <4>1. "TRAER_NEW" \in Sueltas
        BY DEF Sueltas
      <4> QED
        BY <4>1, SolaTarea
    <3>4. Sigue(h, <<v, w>>)
      BY <1>9, <2>2, <3>1, <3>2, <3>3 DEF TraerNew
    <3>5. v.op \in Repertorio(h) /\ w.op \in Repertorio(h) \ (Ingresan \cup {"READY"})
      BY <1>3, <1>4, <3>2, <3>3 DEF Repertorio, Ops, Suspenden
    <3>6. \A q \in Procs : /\ estado[q] = "NEW" => estado'[q] = "NEW"
                           /\ estado'[q] \notin {"BLOCKED_SUSPENDED", "READY_SUSPENDED"}
      BY <1>1 DEF IInvSolo, SinSuspension
    <3>7. PICK u : u = <<v, w>>
      OBVIOUS
    <3> QED
      BY <1>1, <1>3, <2>1, <3>1, <3>2, <3>3, <3>4, <3>5, <3>6, <3>7, SoloIngresa
  <2>3. CASE ~(cola["NEW"] # <<>> /\ Entra(Elegido("NEW")))
    BY <1>5, <1>9, <2>3, MansasPocas DEF TraerNew
  <2> QED
    BY <2>2, <2>3
<1> QED
  BY <1>6, <1>7, <1>8, <1>9 DEF DePlanificador

(* A thread with nothing to do begins, and nobody goes into NEW.            *)
LEMMA SoloNace ==
    ASSUME IInvCiclo, IInvSolo, NEW h \in Hilos, pila[h] = <<>>, ~MainSolo, NEW u, Mansa(h, u),
           pila' = [pila EXCEPT ![h] = u],
           \A q \in Procs : /\ estado'[q] = "NEW" <=> estado[q] = "NEW"
                            /\ estado'[q] \notin {"BLOCKED_SUSPENDED", "READY_SUSPENDED"}
    PROVE  IInvSolo'
<1>1. u \in Seq(Tarea) /\ \A t : Esta(t, u) => t.op \in Repertorio(h) /\ ~Ingresa(t)'
  BY DEF Mansa, Ingresa
<1>2. /\ pila \in [Hilos -> Seq(Tarea)] /\ pila' \in [Hilos -> Seq(Tarea)]
      /\ pila'[h] = u /\ \A k \in Hilos \ {h} : pila'[k] = pila[k]
  BY <1>1, PilasDelCiclo
<1>3. Ingreso(h)'
  <2>1. u # <<>> => \A t : Esta(t, u) <=> t = Head(u) \/ Esta(t, Tail(u))
    BY <1>1, CabezaOResto
  <2>2. PICK y : y = Head(u)
    OBVIOUS
  <2>3. u # <<>> => ~Ingresa(y)' /\ \A t : Esta(t, Tail(u)) => ~Ingresa(t)'
    BY <1>1, <2>1, <2>2
  <2> QED
    BY <1>2, <2>2, <2>3 DEF Ingreso
<1>4. ASSUME NEW k \in Hilos \ {h}, NEW t, Esta(t, pila[k]), Ingresa(t) PROVE estado'[t.pid] = "NEW"
  <2>1. pila[k] \in Seq(Tarea) /\ pila[k] # <<>>
    BY <1>2, <1>4, EstaEnVacia
  <2>2. t = Head(pila[k]) \/ Esta(t, Tail(pila[k]))
    BY <1>4, <2>1, CabezaOResto
  <2>3. estado[t.pid] = "NEW" /\ t.pid \in Procs
    BY <1>4, <2>1, <2>2 DEF IInvSolo, Ingreso, Ingresa
  <2> QED
    BY <2>3
<1>5. Ajenas(h)
  BY <1>2, <1>4 DEF Ajenas
<1>6. \A t : Esta(t, pila'[h]) => t.op \in Repertorio(h)
  BY <1>1, <1>2
<1>7. \A q \in Procs : estado'[q] \notin {"BLOCKED_SUSPENDED", "READY_SUSPENDED"}
  OBVIOUS
<1> QED
  BY <1>2, <1>3, <1>5, <1>6, <1>7, SoloAjenas

(* What the CPU and the devices bring: nobody comes into NEW yet.           *)
LEMMA CpuTrae ==
    ASSUME SolaCpu, IInvCiclo, IInvSolo, NEW c \in Cpus, NEW h, h = Cpu(LaCpu),
           SyscallExit(c) \/ SyscallBloqueante(c) \/ SyscallInitProc(c)
    PROVE  /\ contexto[LaCpu] # <<>> /\ h \in Hilos /\ pila[h] = <<>>
           /\ \E u : Mansa(h, u) /\ pila' = [pila EXCEPT ![h] = u]
           /\ \A q \in Procs : /\ estado'[q] = "NEW" <=> estado[q] = "NEW"
                               /\ estado'[q] \notin {"BLOCKED_SUSPENDED", "READY_SUSPENDED"}
<1>1. h = Cpu(c) /\ h \in Hilos /\ c = LaCpu
  <2>1. c = LaCpu
    BY DEF SolaCpu
  <2> QED
    BY <2>1, HilosPropios
<1>2. OtrosTipos /\ LaCpu \in Cpus /\ estado \in [Procs -> Estados]
  BY PilasDelCiclo, TiposJuntos DEF IInvTipos, SolaCpu
<1>4. \A q \in Procs : estado[q] \notin {"BLOCKED_SUSPENDED", "READY_SUSPENDED"}
  BY DEF IInvSolo, SinSuspension
<1>5. Repertorio(h) = Ops \ Suspenden
  BY <1>1 DEF Repertorio
<1>7. CASE SyscallExit(c) \/ SyscallBloqueante(c)
  <2>1. PICK p, o : p = PidDe(LaCpu) /\ o = Instruccion(LaCpu).op
    OBVIOUS
  <2>2. /\ ~caido /\ contexto[LaCpu] # <<>> /\ pila[h] = <<>> /\ o # "INIT_PROC"
        /\ pila' = [pila EXCEPT ![h] = TareasDe(o, p)]
        /\ UNCHANGED estado
    BY <1>1, <1>7, <2>1 DEF SyscallExit, SyscallBloqueante, Pide, planVars
  <2>3. p \in Procs /\ o \in (Syscalls \cup {"EXIT"}) \ {"INIT_PROC"}
    BY <1>2, <2>1, <2>2, CorreTipo
  <2>4. estado[p] # "ELIMINADO"
    BY <2>1, <2>2, <2>3 DEF IInvCiclo, EnRumbo, EnLaCpu
  <2>5. PICK u : /\ u = TareasDe(o, p) /\ u \in Seq(Tarea)
                 /\ \A t : Esta(t, u) => t.op \in DeManejador \cup {"ENCOLAR_IO"}
    BY <2>3, <2>4, TareasDelCiclo
  <2>6. Mansa(h, u)
    <3>1. DeManejador \cup {"ENCOLAR_IO"} \subseteq (Ops \ Suspenden) \ (Ingresan \cup {"READY"})
      BY DEF DeManejador, Mandan, Ops, Suspenden, Ingresan
    <3> QED
      BY <1>5, <2>5, <3>1 DEF Mansa
  <2>7. pila' = [pila EXCEPT ![h] = u]
    BY <2>2, <2>5
  <2>8. \E w : Mansa(h, w) /\ pila' = [pila EXCEPT ![h] = w]
    BY <2>6, <2>7
  <2>9. \A q \in Procs : /\ estado'[q] = "NEW" <=> estado[q] = "NEW"
                         /\ estado'[q] \notin {"BLOCKED_SUSPENDED", "READY_SUSPENDED"}
    BY <1>4, <2>2
  <2> QED
    BY <1>1, <2>2, <2>8, <2>9
<1>8. CASE SyscallInitProc(c)
  <2>1. PICK q : q = Instruccion(LaCpu).pid
    OBVIOUS
  <2>2. PICK u : u = <<Por("NEW", q)>>
    OBVIOUS
  <2>3. /\ contexto[LaCpu] # <<>> /\ pila[h] = <<>> /\ pila' = [pila EXCEPT ![h] = u]
        /\ estado[q] = "NO_CREADO" /\ estado' = [estado EXCEPT ![q] = "CREADO"]
    BY <1>1, <1>8, <2>1, <2>2 DEF SyscallInitProc, Pide
  <2>4. q \in Procs
    BY <1>2, <2>1, <2>3, CorreTipo
  <2>5. Mansa(h, u)
    <3>1. "NEW" \in (Ops \cap Repertorio(h)) \ (Ingresan \cup {"READY"})
      BY <1>5 DEF Ops, Suspenden, Ingresan
    <3> QED
      BY <2>2, <2>4, <3>1, MansasPocas
  <2>6. \A r \in Procs : estado'[r] = IF r = q THEN "CREADO" ELSE estado[r]
    BY <1>2, <2>3
  <2>7. \A r \in Procs : /\ estado'[r] = "NEW" <=> estado[r] = "NEW"
                         /\ estado'[r] \notin {"BLOCKED_SUSPENDED", "READY_SUSPENDED"}
    BY <1>4, <2>3, <2>6
  <2> QED
    BY <1>1, <2>3, <2>5, <2>7
<1> QED
  BY <1>7, <1>8

LEMMA DispositivoTrae ==
    ASSUME IInvCiclo, IInvSolo, NEW x \in Conexiones, DesbloqueoIO(x)
    PROVE  /\ enIO # {} /\ Io(x) \in Hilos /\ pila[Io(x)] = <<>>
           /\ \E u : Mansa(Io(x), u) /\ pila' = [pila EXCEPT ![Io(x)] = u]
           /\ UNCHANGED <<estado, cola, bitmap>>
<1>1. PICK h : h = Io(x) /\ h \in Hilos
  BY HilosPropios
<1>2. PICK p \in enIO : /\ pila[h] = <<>> /\ UNCHANGED <<estado, cola, bitmap>>
                        /\ pila' = [pila EXCEPT ![h] =
                               IF estado[p] = "ELIMINADO" THEN <<>> ELSE <<Por("DESBLOQUEO", p)>>]
  BY <1>1 DEF DesbloqueoIO, planVars, memVars
<1>3. p \in Procs
  BY PilasDelCiclo, TiposJuntos DEF IInvTipos, OtrosTipos
<1>4. "DESBLOQUEO" \in (Ops \cap Repertorio(h)) \ (Ingresan \cup {"READY"})
  BY DEF Repertorio, Comunes, Ops, Suspenden, Relojes, Ingresan
<1>5. PICK u : Mansa(h, u) /\ pila' = [pila EXCEPT ![h] = u]
  <2>1. Mansa(h, <<>>) /\ Mansa(h, <<Por("DESBLOQUEO", p)>>)
    BY <1>3, <1>4, MansasPocas
  <2> QED
    BY <1>2, <2>1
<1> QED
  BY <1>1, <1>2, <1>5

LEMMA SoloDeCpu ==
    ASSUME SolaCpu, IInvCiclo, IInvSolo, NEW c \in Cpus, DeCpu(c)
    PROVE  IInvSolo'
<1>1. PICK h : h = Cpu(LaCpu) /\ h = Cpu(c) /\ h \in Hilos
  <2>1. c = LaCpu
    BY DEF SolaCpu
  <2> QED
    BY <2>1, HilosPropios
<1>2. CASE LiberarCpu(c)
  <2>1. Toca(h, "LIBERAR_CPU", Nadie) /\ Sigue(h, <<>>) /\ UNCHANGED estado
    BY <1>1, <1>2 DEF LiberarCpu, planVars
  <2>2. pila[h] # <<>>
    BY <1>1, <2>1, SoloToca
  <2>3. Mansa(h, <<>>)
    BY MansasPocas
  <2> QED
    BY <1>1, <2>1, <2>2, <2>3, SoloMansa
<1>3. CASE SyscallExit(c) \/ SyscallBloqueante(c) \/ SyscallInitProc(c)
  <2>1. /\ contexto[LaCpu] # <<>> /\ pila[h] = <<>>
        /\ \E u : Mansa(h, u) /\ pila' = [pila EXCEPT ![h] = u]
        /\ \A q \in Procs : /\ estado'[q] = "NEW" <=> estado[q] = "NEW"
                            /\ estado'[q] \notin {"BLOCKED_SUSPENDED", "READY_SUSPENDED"}
    BY <1>1, <1>3, CpuTrae
  <2>2. PICK u : Mansa(h, u) /\ pila' = [pila EXCEPT ![h] = u]
    BY <2>1
  <2>3. ~MainSolo
    BY <2>1 DEF MainSolo
  <2> QED
    BY <1>1, <2>1, <2>2, <2>3, SoloNace
<1> QED
  BY <1>2, <1>3 DEF DeCpu

LEMMA SoloDeIO ==
    ASSUME IInvCiclo, IInvSolo, NEW x \in Conexiones, DesbloqueoIO(x)
    PROVE  IInvSolo'
<1>1. PICK h : h = Io(x)
  OBVIOUS
<1>2. /\ h \in Hilos /\ pila[h] = <<>> /\ UNCHANGED estado /\ enIO # {}
      /\ \E u : Mansa(h, u) /\ pila' = [pila EXCEPT ![h] = u]
  BY <1>1, DispositivoTrae
<1>3. PICK u : Mansa(h, u) /\ pila' = [pila EXCEPT ![h] = u]
  BY <1>2
<1>4. ~MainSolo
  BY <1>2 DEF MainSolo
<1>5. \A q \in Procs : /\ estado'[q] = "NEW" <=> estado[q] = "NEW"
                       /\ estado'[q] \notin {"BLOCKED_SUSPENDED", "READY_SUSPENDED"}
  BY <1>2 DEF IInvSolo, SinSuspension
<1> QED
  BY <1>2, <1>3, <1>4, <1>5, SoloNace

(* While every timer sleeps no cancel finds one in a request.               *)
LEMMA DormidosNoPiden == Dormilones => ~PasoMuere
<1> SUFFICES ASSUME Dormilones, NEW p \in Procs, NEW k \in 1..MaxTimers, TimerMuere(p, k)
             PROVE  FALSE
  BY DEF PasoMuere
<1>1. PICK t : t = Head(pila[Timer(p, k)])
  OBVIOUS
<1>2. t.op \in Relojes
  BY <1>1, HilosPropios DEF Dormilones, TimerMuere
<1>3. MutexDelPedido(t.op) = {} /\ EstadoDelPedido(t) = {}
  BY <1>2 DEF MutexDelPedido, EstadoDelPedido, Relojes
<1> QED
  BY <1>1, <1>3 DEF TimerMuere

LEMMA NoAdmiteDosVeces == ASSUME SolaCpu, IInvCiclo, IInvSolo PROVE ~AdmiteDosVeces
<1> SUFFICES ASSUME NEW h \in Hilos, NEW p \in Procs,
                    NewInit(h, p) \/ (TraerNew(h) /\ cola["NEW"] # <<>> /\ p = Elegido("NEW")),
                    estado[p] # "NEW" \/ Con("READY", p)
             PROVE  FALSE
  BY DEF AdmiteDosVeces
<1>1. PICK o : /\ o \in {"NEW_INIT", "PEDIR_NEW"} /\ pila[h] # <<>> /\ Head(pila[h]).op = o
               /\ o = "NEW_INIT" => Head(pila[h]).pid = p
               /\ o = "PEDIR_NEW" => h = Cpu(LaCpu) /\ cola["NEW"] # <<>> /\ p = Elegido("NEW")
  <2>1. CASE NewInit(h, p)
    BY <2>1, SoloToca DEF NewInit
  <2>2. CASE TraerNew(h) /\ cola["NEW"] # <<>> /\ p = Elegido("NEW")
    <3>1. Toca(h, "PEDIR_NEW", Nadie)
      BY <2>2 DEF TraerNew
    <3>2. "PEDIR_NEW" \notin Comunes
      BY DEF Comunes, Relojes
    <3> QED
      BY <2>2, <3>1, <3>2, SoloToca
  <2> QED
    BY <2>1, <2>2
<1>2. PICK y : y = Head(pila[h]) /\ Esta(y, pila[h])
  BY <1>1, PilasDelCiclo, Cabeza
<1>3. o = "NEW_INIT" => Ingresa(y)
  BY <1>1, <1>2 DEF Ingresa, Ingresan
<1>4. estado[p] = "NEW" /\ (h = Cpu(LaCpu) \/ (h = Main /\ MainSolo))
  <2>1. CASE o = "NEW_INIT"
    BY <1>1, <1>2, <1>3, <2>1 DEF IInvSolo, Ingreso
  <2>2. CASE o = "PEDIR_NEW"
    <3>1. "NEW" \in Colas
      BY DEF Colas
    <3> QED
      BY <1>1, <2>2, <3>1, EnColaEs DEF Elegido
  <2> QED
    BY <1>1, <2>1, <2>2
<1>5. PICK t : Hay(t) /\ t.op = "READY" /\ t.pid = p
  BY <1>4 DEF Con
<1>6. PICK k \in Hilos : Esta(t, pila[k])
  BY <1>5 DEF Hay
<1>7. Ingresa(t)
  BY <1>4, <1>5 DEF Ingresa
<1>8. pila[k] \in Seq(Tarea) /\ pila[k] # <<>>
  BY <1>6, PilasDelCiclo, EstaEnVacia
<1>9. t = Head(pila[k]) /\ (k = Cpu(LaCpu) \/ (k = Main /\ MainSolo))
  <2>1. t = Head(pila[k]) \/ Esta(t, Tail(pila[k]))
    BY <1>8, <1>6, CabezaOResto
  <2> QED
    BY <1>7, <1>8, <2>1 DEF IInvSolo, Ingreso
<1>10. k # h
  BY <1>1, <1>5, <1>9
<1> QED
  BY <1>1, <1>4, <1>8, <1>9, <1>10 DEF MainSolo

LEMMA SoloPasoAPaso ==
    ASSUME SolaCpu, VenceTimer = FALSE, IInvCiclo, IInvSolo, Novatos, Dormilones, [Next]_vars
    PROVE  IInvSolo'
<1>1. CASE Reposo \/ UNCHANGED vars
  <2>1. UNCHANGED <<pila, estado, contexto, enIO>>
    BY <1>1 DEF Reposo, vars, otras, planVars, cpuVars, guionVars
  <2>2. \A t : Ingresa(t)' <=> Ingresa(t)
    BY <2>1 DEF Ingresa
  <2>3. MainSolo' <=> MainSolo
    BY <2>1 DEF MainSolo
  <2>4. ASSUME NEW h \in Hilos PROVE Ingreso(h)'
    <3>1. Ingreso(h)
      BY DEF IInvSolo
    <3>2. PICK y : y = Head(pila[h]) /\ y = Head(pila'[h]) /\ Tail(pila'[h]) = Tail(pila[h])
      BY <2>1
    <3>3. pila[h] # <<>> /\ Ingresa(y)' =>
              estado'[y.pid] = "NEW" /\ (h = Cpu(LaCpu) \/ (h = Main /\ MainSolo))
      BY <2>1, <2>2, <3>1, <3>2 DEF Ingreso
    <3>4. pila[h] # <<>> => \A t : Esta(t, Tail(pila[h])) => ~Ingresa(t)'
      BY <2>2, <3>1 DEF Ingreso
    <3> QED
      BY <2>1, <2>3, <3>2, <3>3, <3>4 DEF Ingreso
  <2> QED
    BY <2>1, <2>4 DEF IInvSolo, SinSuspension
<1>2. ASSUME NEW h \in Hilos, PasoHilo(h) PROVE IInvSolo'
  <2>1. ASSUME NEW p \in Procs, DeProceso(h, p) PROVE IInvSolo'
    BY <2>1, SoloDeQuietas, SoloDeOtras, SoloDeEstados, SoloDeVuelta, SoloDeTimer, SoloDeNew
       DEF DeProceso
  <2> QED
    BY <1>2, <2>1, SoloDePlanificador DEF PasoHilo
<1>3. ASSUME NEW c \in Cpus, DeCpu(c) PROVE IInvSolo'
  BY <1>3, SoloDeCpu
<1>4. ASSUME NEW x \in Conexiones, DesbloqueoIO(x) PROVE IInvSolo'
  BY <1>4, SoloDeIO
<1> QED
  BY <1>1, <1>2, <1>3, <1>4, DormidosNoPiden DEF Next

LEMMA SoloAlEmpezar == SolaCpu /\ Init => IInvSolo
<1> SUFFICES ASSUME SolaCpu, Init PROVE IInvSolo
  OBVIOUS
<1>1. PICK t : t = Por("NEW", Primero) /\ t.op = "NEW"
  <2>1. Por("NEW", Primero).op = "NEW"
    BY DEF Por
  <2> QED
    BY <2>1
<1>2. PICK u : u = <<t>> /\ \A x : Esta(x, u) <=> x = t
  <2>1. PICK u : u = <<t>>
    OBVIOUS
  <2>2. \A x : Esta(x, u) <=> x = t
    BY <2>1, EstaEnUna
  <2> QED
    BY <2>1, <2>2
<1>3. \A h \in Hilos : pila[h] = IF h = Main THEN u ELSE <<>>
  BY <1>1, <1>2 DEF Init
<1>4. Main # Cpu(LaCpu)
  BY HilosPropios DEF Main, Cpu
<1>5. \A h \in Hilos : \A x : Esta(x, pila[h]) => x.op \in Repertorio(h)
  <2>1. "NEW" \in Repertorio(Main)
    BY <1>4 DEF Repertorio, Comunes
  <2> QED
    BY <1>1, <1>2, <1>3, <2>1, EstaEnVacia
<1>6. \A q \in Procs : estado[q] \in {"CREADO", "NO_CREADO"}
  BY DEF Init
<1>7. \A x : ~Ingresa(x) \/ x.op # "NEW"
  BY DEF Ingresa, Ingresan
<1>8. ASSUME NEW h \in Hilos PROVE Ingreso(h)
  <2>1. CASE h = Main
    <3>1. PICK y, c : y = Head(u) /\ c = Tail(u) /\ y = t /\ c = <<>>
      BY <1>2
    <3>2. ~Ingresa(y) /\ \A x : ~Esta(x, c)
      BY <1>1, <1>7, <3>1, EstaEnVacia
    <3>3. pila[h] = u
      BY <1>3, <2>1
    <3> QED
      BY <3>1, <3>2, <3>3 DEF Ingreso
  <2>2. CASE h # Main
    BY <1>3, <2>2 DEF Ingreso
  <2> QED
    BY <2>1, <2>2
<1> QED
  BY <1>5, <1>6, <1>8 DEF IInvSolo, SinSuspension

-----------------------------------------------------------------------------
(* The admissions while nothing is suspended.                               *)

(* First fit finds n frames exactly when n are free.                        *)
LEMMA HayMemoriaSi ==
    ASSUME NEW b, NEW n \in Nat
    PROVE  HayMemoria(b, n) <=> n <= Cardinality(Libres(b))
<1>1. PICK F, c : F = Libres(b) /\ c = Cardinality(F)
  OBVIOUS
<1>2. IsFiniteSet(F) /\ c \in Nat /\ F \subseteq Nat
  <2>1. F \in SUBSET Marco /\ IsFiniteSet(Marco) /\ Marco \subseteq Nat
    BY <1>1, FS_Interval, CantMarcosAssumption DEF Libres, Marco
  <2> QED
    BY <1>1, <2>1, FS_Subset, FS_CardinalityType
<1>3. ASSUME NEW l \in MarcosParaProceso(b, n) PROVE n <= c
  <2>1. l \in [1..n -> F] /\ \A i, j \in 1..n : i < j => l[i] < l[j]
    BY <1>1 DEF MarcosParaProceso
  <2>2. \A i, j \in 1..n : l[i] = l[j] => i = j
    <3>1. ASSUME NEW i \in 1..n, NEW j \in 1..n, l[i] = l[j] PROVE i = j
      <4>1. i \in Nat /\ j \in Nat /\ l[i] \in Nat /\ l[j] \in Nat
        <5>1. l[i] \in F /\ l[j] \in F
          BY <2>1
        <5>2. i \in Nat /\ j \in Nat
          OBVIOUS
        <5>3. \A x \in F : x \in Nat
          BY <1>2
        <5> QED
          BY <5>1, <5>2, <5>3
      <4>2. ~(l[i] < l[j]) /\ ~(l[j] < l[i])
        BY <3>1, <4>1
      <4>3. ~(i < j) /\ ~(j < i)
        BY <2>1, <4>2
      <4> QED
        BY <4>1, <4>3
    <3> QED
      BY <3>1
  <2>3. l \in Injection(1..n, F)
    BY <2>1, <2>2 DEF Injection, IsInjective
  <2>4. Cardinality(1..n) <= c
    BY <1>1, <1>2, <2>3, FS_Injection
  <2>5. Cardinality(1..n) = n
    <3>1. 1 \in Int /\ n \in Int /\ (1 > n => n = 0) /\ n - 1 + 1 = n
      OBVIOUS
    <3>2. Cardinality(1..n) = IF 1 > n THEN 0 ELSE n - 1 + 1
      BY <3>1, FS_Interval
    <3> QED
      BY <3>1, <3>2
  <2> QED
    BY <2>4, <2>5
<1>4. ASSUME n <= c, MarcosParaProceso(b, n) = {} PROVE FALSE
  <2> DEFINE T == { k \in 0..n : MarcosParaProceso(b, k) = {} }
  <2>1. PICK k \in T : \A j \in T : k <= j
    <3>1. T \in SUBSET Nat /\ n \in T
      BY <1>4
    <3> QED
      BY <3>1, MinimoNat
  <2>2. k \in Nat /\ k <= n /\ MarcosParaProceso(b, k) = {}
    BY <2>1
  <2>3. k # 0
    <3>1. PICK l : l = [i \in 1..0 |-> i]
      OBVIOUS
    <3>2. 1..0 = {}
      OBVIOUS
    <3>3. l \in [1..0 -> Libres(b)]
      BY <3>1, <3>2
    <3>4. l \in MarcosParaProceso(b, 0)
      BY <3>2, <3>3 DEF MarcosParaProceso
    <3> QED
      BY <2>2, <3>4
  <2>4. PICK d : d = k - 1 /\ d \in Nat /\ k = d + 1 /\ d < n
    BY <2>2, <2>3
  <2>5. PICK m : m \in MarcosParaProceso(b, d)
    <3>1. d \notin T /\ d \in 0..n
      BY <2>1, <2>2, <2>4
    <3> QED
      BY <3>1
  <2>6. /\ m \in [1..d -> F] /\ \A i, j \in 1..d : i < j => m[i] < m[j]
        /\ \A i \in 1..d : \A f \in F : f < m[i] => \E j \in 1..d : m[j] = f
    BY <1>1, <2>5 DEF MarcosParaProceso
  <2> DEFINE R == { f \in F : \A j \in 1..d : m[j] # f }
  <2>7. CASE R = {}
    <3>1. \A f \in F : \E j \in 1..d : m[j] = f
      BY <2>7
    <3>2. m \in Surjection(1..d, F)
      BY <2>6, <3>1 DEF Surjection
    <3>3. ExistsSurjection(1..d, F)
      BY <3>2 DEF ExistsSurjection
    <3>4. c <= d
      BY <1>1, <2>4, <3>3, FS_SurjCardinalityBound
    <3> QED
      BY <1>2, <1>4, <2>4, <3>4
  <2>8. CASE R # {}
    <3>1. PICK x \in R : \A f \in R : x <= f
      <4>1. R \in SUBSET Nat
        BY <1>2
      <4> QED
        BY <2>8, <4>1, MinimoNat
    <3>2. x \in F /\ x \in Nat /\ \A j \in 1..d : m[j] # x
      BY <1>2, <3>1
    <3>3. \A f \in F : f < x => \E j \in 1..d : m[j] = f
      <4>1. ASSUME NEW f \in F, f < x PROVE f \notin R
        <5>1. f \in Nat
          BY <1>2, <4>1
        <5> QED
          BY <3>1, <3>2, <4>1, <5>1
      <4> QED
        BY <4>1
    <3>4. PICK l : l = [i \in 1..k |-> IF i <= d THEN m[i] ELSE x]
      OBVIOUS
    <3>5. l \in [1..k -> F] /\ (\A i \in 1..d : l[i] = m[i] /\ i \in 1..k) /\ l[k] = x /\ k \in 1..k
      BY <2>2, <2>4, <2>6, <3>2, <3>4
    <3>6. \A i \in 1..k : i \in 1..d \/ i = k
      BY <2>2, <2>4
    <3>7. \A i, j \in 1..k : i < j => l[i] < l[j]
      <4>1. ASSUME NEW i \in 1..k, NEW j \in 1..k, i < j PROVE l[i] < l[j]
        <5>1. i \in 1..d
          BY <2>2, <2>4, <4>1
        <5>2. CASE j \in 1..d
          BY <2>6, <3>5, <4>1, <5>1, <5>2
        <5>3. CASE j = k
          <6>1. m[i] \in Nat /\ m[i] # x /\ m[i] \in F
            BY <1>2, <2>6, <3>2, <5>1
          <6>2. ~(x < m[i])
            BY <2>6, <3>2, <5>1
          <6> QED
            BY <3>2, <3>5, <5>1, <5>3, <6>1, <6>2
        <5> QED
          BY <3>6, <5>2, <5>3
      <4> QED
        BY <4>1
    <3>8. \A i \in 1..k : \A f \in F : f < l[i] => \E j \in 1..k : l[j] = f
      <4>1. ASSUME NEW i \in 1..k, NEW f \in F, f < l[i] PROVE \E j \in 1..d : m[j] = f
        <5>1. CASE i \in 1..d
          BY <2>6, <3>5, <4>1, <5>1
        <5>2. CASE i = k
          BY <3>3, <3>5, <4>1, <5>2
        <5> QED
          BY <3>6, <5>1, <5>2
      <4> QED
        BY <3>5, <4>1
    <3>9. l \in MarcosParaProceso(b, k)
      BY <1>1, <3>5, <3>7, <3>8 DEF MarcosParaProceso
    <3> QED
      BY <2>2, <3>9
  <2> QED
    BY <2>7, <2>8
<1> QED
  BY <1>1, <1>3, <1>4 DEF HayMemoria

LEMMA MenosLugar ==
    ASSUME NEW b, NEW d, b \subseteq d, NEW n \in Nat, HayMemoria(d, n)
    PROVE  HayMemoria(b, n)
<1>1. IsFiniteSet(Libres(b)) /\ Libres(d) \in SUBSET Libres(b)
  <2>1. Libres(b) \in SUBSET Marco /\ Libres(d) \in SUBSET Libres(b) /\ IsFiniteSet(Marco)
    BY FS_Interval, CantMarcosAssumption DEF Libres, Marco
  <2> QED
    BY <2>1, FS_Subset
<1>2. Cardinality(Libres(d)) <= Cardinality(Libres(b))
  BY <1>1, FS_Subset
<1>3. Cardinality(Libres(d)) \in Nat /\ Cardinality(Libres(b)) \in Nat
  BY <1>1, FS_Subset, FS_CardinalityType
<1>4. n <= Cardinality(Libres(d))
  BY HayMemoriaSi
<1>5. n <= Cardinality(Libres(b))
  BY <1>2, <1>3, <1>4
<1> QED
  BY <1>5, HayMemoriaSi

(* The first of a queue when the first goes, and when another comes in.     *)
LEMMA QuitarPrimero ==
    ASSUME NEW lista \in Seq(Procs), lista # <<>>
    PROVE  Quitar(Head(lista), lista) = Tail(lista)
<1>0. PICK p : p = Head(lista)
  OBVIOUS
<1> DEFINE lugares == { i \in DOMAIN lista : lista[i] = p }
<1>1. 1 \in lugares /\ \A j \in lugares : j \in Nat /\ 1 <= j
  <2>1. 1 \in DOMAIN lista /\ lista[1] = p
    BY <1>0
  <2> QED
    BY <2>1
<1>2. PICK i : i = CHOOSE k \in lugares : \A j \in lugares : k <= j
  OBVIOUS
<1>3. i \in lugares /\ \A j \in lugares : i <= j
  BY <1>1, <1>2
<1>4. i = 1
  BY <1>1, <1>3
<1>5. Quitar(p, lista) = SubSeq(lista, 1, i - 1) \o SubSeq(lista, i + 1, Len(lista))
  BY <1>1, <1>2 DEF Quitar
<1>6. SubSeq(lista, 1, 0) = <<>> /\ SubSeq(lista, 2, Len(lista)) = Tail(lista)
  OBVIOUS
<1>7. <<>> \o Tail(lista) = Tail(lista)
  OBVIOUS
<1> QED
  BY <1>0, <1>4, <1>5, <1>6, <1>7

LEMMA InsertarPrimero ==
    ASSUME NEW lista \in Seq(Procs), lista # <<>>, NEW p \in Procs, NEW c
    PROVE  \E r : /\ r = Insertar(c, p, lista) /\ r # <<>>
                  /\ \/ Head(r) = Head(lista)
                     \/ AlgoritmoIngreso = "PMCP" /\ Head(r) = p /\ Tail(r) = lista
<1>1. PICK r : r = Insertar(c, p, lista)
  OBVIOUS
<1>2. CASE r = Append(lista, p)
  BY <1>1, <1>2
<1>3. CASE r # Append(lista, p)
  <2> DEFINE mayores == { i \in DOMAIN lista : Tamanio[p] < Tamanio[lista[i]] }
  <2>1. PICK i : i = CHOOSE k \in mayores : \A j \in mayores : k <= j
    OBVIOUS
  <2>2. /\ mayores # {} /\ AlgoritmoIngreso = "PMCP"
        /\ r = SubSeq(lista, 1, i - 1) \o <<p>> \o SubSeq(lista, i, Len(lista))
    BY <1>1, <1>3, <2>1 DEF Insertar, InsertarPMCP, InsertarFIFO
  <2>3. i \in mayores
    <3>1. mayores \in SUBSET Nat
      OBVIOUS
    <3>2. \E x \in mayores : \A y \in mayores : x <= y
      BY <2>2, <3>1, MinimoNat
    <3> QED
      BY <2>1, <3>2
  <2>4. i \in 1..Len(lista) /\ Len(lista) \in Nat
    BY <2>3
  <2>5. PICK a, d : a = SubSeq(lista, 1, i - 1) /\ d = SubSeq(lista, i, Len(lista))
    OBVIOUS
  <2>6. CASE i = 1
    <3>1. a = <<>> /\ d = lista
      BY <2>4, <2>5, <2>6
    <3>2. PICK w : w = <<p>>
      OBVIOUS
    <3>3. w \in Seq(Procs) /\ Len(w) = 1 /\ w[1] = p
      BY <3>2
    <3>4. <<>> \o w = w
      BY <3>3, ConcatEmptySeq
    <3>5. r = w \o lista
      BY <2>2, <2>5, <3>1, <3>2, <3>4
    <3>6. /\ r \in Seq(Procs) /\ Len(r) = 1 + Len(lista) /\ r[1] = p
          /\ \A j \in 1..Len(lista) : r[1 + j] = lista[j]
      <4>1. /\ r \in Seq(Procs) /\ Len(r) = Len(w) + Len(lista)
            /\ \A j \in 1..Len(w) + Len(lista) : r[j] = IF j <= Len(w) THEN w[j] ELSE lista[j - Len(w)]
        BY <3>3, <3>5, ConcatProperties
      <4> QED
        BY <2>4, <3>3, <4>1
    <3>7. r # <<>> /\ Head(r) = p
      BY <2>4, <3>6
    <3>8. PICK z : z = Tail(r)
      OBVIOUS
    <3>9. z \in Seq(Procs) /\ Len(z) = Len(lista) /\ \A j \in 1..Len(lista) : z[j] = lista[j]
      BY <2>4, <3>6, <3>7, <3>8
    <3>10. z = lista
      BY <3>9
    <3> QED
      BY <1>1, <2>2, <3>7, <3>8, <3>10
  <2>7. CASE i # 1
    <3>1. a \in Seq(Procs) /\ Len(a) = i - 1 /\ a[1] = lista[1] /\ d \in Seq(Procs) /\ Len(a) >= 1
      BY <2>4, <2>5, <2>7
    <3>2. PICK v, w : v = <<p>> /\ w = a \o v
      OBVIOUS
    <3>3. v \in Seq(Procs)
      BY <3>2
    <3>4. w \in Seq(Procs) /\ Len(w) = Len(a) + Len(v) /\ w[1] = a[1]
      <4>1. /\ w \in Seq(Procs) /\ Len(w) = Len(a) + Len(v)
            /\ \A j \in 1..Len(a) + Len(v) : w[j] = IF j <= Len(a) THEN a[j] ELSE v[j - Len(a)]
        BY <3>1, <3>2, <3>3, ConcatProperties
      <4>2. Len(v) \in Nat
        BY <3>3
      <4> QED
        BY <3>1, <4>1, <4>2
    <3>5. r = w \o d
      BY <2>2, <2>5, <3>2
    <3>6. Len(r) = Len(w) + Len(d) /\ r[1] = w[1] /\ r \in Seq(Procs)
      <4>1. /\ r \in Seq(Procs) /\ Len(r) = Len(w) + Len(d)
            /\ \A j \in 1..Len(w) + Len(d) : r[j] = IF j <= Len(w) THEN w[j] ELSE d[j - Len(w)]
        <5>1. w \in Seq(Procs) /\ d \in Seq(Procs)
          BY <3>1, <3>4
        <5>2. PICK x : x = w \o d
          OBVIOUS
        <5>3. /\ x \in Seq(Procs) /\ Len(x) = Len(w) + Len(d)
              /\ \A j \in 1..Len(w) + Len(d) : x[j] = IF j <= Len(w) THEN w[j] ELSE d[j - Len(w)]
          BY <5>1, <5>2, ConcatProperties
        <5> QED
          BY <3>5, <5>2, <5>3
      <4>2. Len(d) \in Nat /\ Len(v) \in Nat
        BY <3>1, <3>3
      <4>3. Len(w) >= 1 /\ Len(w) \in Nat
        BY <3>1, <3>4, <4>2
      <4> QED
        BY <4>1, <4>2, <4>3
    <3>7. Len(r) # 0
      <4>1. Len(d) \in Nat /\ Len(v) \in Nat
        BY <3>1, <3>3
      <4> QED
        BY <3>1, <3>4, <3>6, <4>1
    <3>8. r # <<>> /\ Head(r) = r[1] /\ Head(lista) = lista[1]
      BY <3>6, <3>7
    <3> QED
      BY <1>1, <3>1, <3>4, <3>6, <3>8
  <2> QED
    BY <2>6, <2>7
<1> QED
  BY <1>2, <1>3

(* The process at the head of NEW is on its way in, and only under PMCP,    *)
(* ahead of one that does not fit, may it have others behind; or it was     *)
(* asked for and does not fit; or the thread of the CPU has yet to ask.     *)
Camino(q) == \E t : Hay(t) /\ Ingresa(t) /\ t.pid = q
Pidiendo == \E t : Hay(t) /\ t.op \in Piden
Delante(s) ==
    IF Camino(Head(s)) THEN Tail(s) # <<>> => AlgoritmoIngreso = "PMCP" /\ ~Entra(Head(Tail(s)))
                       ELSE ~Entra(Head(s))
Pedidos == cola["NEW"] # <<>> => Pidiendo \/ Delante(cola["NEW"])

(* What a step does to the tasks that are left.                             *)
LEMMA HaySigue ==
    ASSUME pila \in [Hilos -> Seq(Tarea)], NEW h \in Hilos, pila[h] # <<>>,
           NEW u \in Seq(Tarea), Sigue(h, u)
    PROVE  /\ \A t : Hay(t)' => Hay(t) \/ Esta(t, u)
           /\ \A t : Esta(t, u) => Hay(t)'
           /\ \A t : Hay(t) => Hay(t)' \/ t = Head(pila[h])
           /\ Hay(Head(pila[h]))
<1>1. PICK s, r : s = pila[h] /\ r = u \o Tail(s)
  OBVIOUS
<1>2. s \in Seq(Tarea) /\ s # <<>>
  BY <1>1
<1>3. /\ r \in Seq(Tarea) /\ \A t : Esta(t, r) <=> Esta(t, u) \/ Esta(t, Tail(s))
      /\ \A t : Esta(t, s) <=> t = Head(s) \/ Esta(t, Tail(s))
  BY <1>1, <1>2, TrasLaPrimera, CabezaOResto
<1>4. pila'[h] = r /\ \A k \in Hilos \ {h} : pila'[k] = pila[k]
  BY <1>1, <1>3 DEF Sigue
<1> QED
  BY <1>1, <1>3, <1>4 DEF Hay

LEMMA HayNace ==
    ASSUME pila \in [Hilos -> Seq(Tarea)], NEW h \in Hilos, pila[h] = <<>>,
           NEW u, pila' = [pila EXCEPT ![h] = u]
    PROVE  \A t : Hay(t)' <=> Hay(t) \/ Esta(t, u)
<1>1. pila'[h] = u /\ \A k \in Hilos \ {h} : pila'[k] = pila[k]
  OBVIOUS
<1>2. \A t : ~Esta(t, pila[h])
  BY EstaEnVacia
<1> QED
  BY <1>1, <1>2 DEF Hay

(* While the thread of the CPU runs, or main before it, whoever goes in is  *)
(* what that thread is about to run.                                        *)
LEMMA NadieMas ==
    ASSUME IInvCiclo, IInvSolo, NEW h \in Hilos, pila[h] # <<>>,
           h = Cpu(LaCpu) \/ (h = Main /\ MainSolo), NEW t, Hay(t), Ingresa(t)
    PROVE  t = Head(pila[h])
<1>1. PICK k \in Hilos : Esta(t, pila[k])
  BY DEF Hay
<1>2. pila[k] \in Seq(Tarea) /\ pila[k] # <<>>
  BY <1>1, PilasDelCiclo, EstaEnVacia
<1>3. t = Head(pila[k]) /\ (k = Cpu(LaCpu) \/ (k = Main /\ MainSolo))
  <2>1. t = Head(pila[k]) \/ Esta(t, Tail(pila[k]))
    BY <1>1, <1>2, CabezaOResto
  <2> QED
    BY <1>2, <2>1 DEF IInvSolo, Ingreso
<1>4. k = h
  BY <1>2, <1>3 DEF MainSolo
<1> QED
  BY <1>3, <1>4

(* That thread goes on and brings nobody in: then nobody is on its way.     *)
LEMMA SinCamino ==
    ASSUME IInvCiclo, IInvSolo, NEW h \in Hilos, pila[h] # <<>>,
           h = Cpu(LaCpu) \/ (h = Main /\ MainSolo), NEW u \in Seq(Tarea), Sigue(h, u),
           \A t : Esta(t, u) => ~Ingresa(t)',
           \A q \in Procs : estado'[q] = "NEW" => estado[q] = "NEW"
    PROVE  \A q : ~Camino(q)'
<1> SUFFICES ASSUME NEW t, Hay(t)', Ingresa(t)' PROVE FALSE
  BY DEF Camino
<1>1. PICK s, r : s = pila[h] /\ r = u \o Tail(s)
  OBVIOUS
<1>2. pila \in [Hilos -> Seq(Tarea)] /\ s \in Seq(Tarea) /\ s # <<>>
  BY <1>1, PilasDelCiclo
<1>3. r \in Seq(Tarea) /\ \A x : Esta(x, r) <=> Esta(x, u) \/ Esta(x, Tail(s))
  BY <1>1, <1>2, TrasLaPrimera
<1>4. pila'[h] = r /\ \A k \in Hilos \ {h} : pila'[k] = pila[k]
  BY <1>1, <1>2, <1>3 DEF Sigue
<1>5. Ingresa(t)
  BY DEF Ingresa
<1>6. PICK k \in Hilos : Esta(t, pila'[k])
  BY DEF Hay
<1>7. CASE k = h
  <2>1. Esta(t, Tail(s))
    BY <1>3, <1>4, <1>6, <1>7
  <2> QED
    BY <1>1, <1>2, <1>5, <2>1 DEF IInvSolo, Ingreso
<1>8. CASE k # h
  <2>1. Esta(t, pila[k]) /\ Esta(Head(s), s)
    BY <1>2, <1>4, <1>6, <1>8, Cabeza
  <2>2. pila[k] \in Seq(Tarea) /\ pila[k] # <<>>
    BY <1>2, <2>1, EstaEnVacia
  <2>3. t = Head(pila[k]) \/ Esta(t, Tail(pila[k]))
    BY <2>1, <2>2, CabezaOResto
  <2>4. k = Cpu(LaCpu) \/ (k = Main /\ MainSolo)
    BY <1>5, <2>2, <2>3 DEF IInvSolo, Ingreso
  <2> QED
    BY <1>1, <1>2, <1>8, <2>2, <2>4 DEF MainSolo
<1> QED
  BY <1>7, <1>8

(* Steps that leave the queue and the way in as they were.                  *)
LEMMA PedidosIgual ==
    ASSUME IInvCiclo, Pedidos, cola'["NEW"] = cola["NEW"], \A q : Camino(q)' <=> Camino(q),
           \A q \in Procs : Entra(q)' => Entra(q), Pidiendo => Pidiendo'
    PROVE  Pedidos'
<1>1. PICK s : s = cola["NEW"] /\ s = cola'["NEW"]
  OBVIOUS
<1>2. s \in Seq(Procs)
  BY <1>1, PilasDelCiclo DEF Colas
<1>3. PICK p, q : p = Head(s) /\ q = Head(Tail(s))
  OBVIOUS
<1>4. s # <<>> => p \in Procs /\ (Tail(s) # <<>> => q \in Procs)
  BY <1>2, <1>3
<1>5. Camino(p)' <=> Camino(p)
  OBVIOUS
<1>6. /\ s # <<>> => (Entra(p)' => Entra(p))
      /\ s # <<>> /\ Tail(s) # <<>> => (Entra(q)' => Entra(q))
  BY <1>4
<1> QED
  BY <1>1, <1>3, <1>5, <1>6 DEF Pedidos, Delante

(* A thread goes on with nothing of the way in.                             *)
LEMMA PedidosSigue ==
    ASSUME IInvCiclo, Pedidos, NEW h \in Hilos, pila[h] # <<>>, NEW u \in Seq(Tarea), Sigue(h, u),
           ~Ingresa(Head(pila[h])), Head(pila[h]).op \notin Piden, \A t : Esta(t, u) => ~Ingresa(t)',
           \A q \in Procs : estado'[q] = "NEW" <=> estado[q] = "NEW",
           UNCHANGED bitmap, cola'["NEW"] = cola["NEW"]
    PROVE  Pedidos'
<1>1. PICK y : y = Head(pila[h])
  OBVIOUS
<1>2. /\ \A t : Hay(t)' => Hay(t) \/ Esta(t, u)
      /\ \A t : Hay(t) => Hay(t)' \/ t = y
  BY <1>1, PilasDelCiclo, HaySigue
<1>3. \A t : Ingresa(t)' <=> Ingresa(t)
  BY DEF Ingresa
<1>4. ~Ingresa(y) /\ y.op \notin Piden
  BY <1>1
<1>5. ASSUME NEW q PROVE Camino(q)' <=> Camino(q)
  BY <1>2, <1>3, <1>4 DEF Camino
<1>6. Pidiendo => Pidiendo'
  BY <1>2, <1>4 DEF Pidiendo
<1>7. \A q \in Procs : Entra(q)' => Entra(q)
  BY DEF Entra
<1> QED
  BY <1>5, <1>6, <1>7, PedidosIgual

LEMMA PedidosMansa ==
    ASSUME IInvCiclo, IInvSolo, Pedidos, NEW h \in Hilos, NEW p \in Procs \cup {Nadie},
           NEW o, Toca(h, o, p), o \notin Ingresan \cup Piden, o # "READY" \/ p = Nadie \/ estado[p] # "NEW",
           NEW u, Mansa(h, u), Sigue(h, u), \A q \in Procs : estado'[q] = "NEW" <=> estado[q] = "NEW",
           UNCHANGED bitmap, cola'["NEW"] = cola["NEW"]
    PROVE  Pedidos'
<1>1. PICK y : y = Head(pila[h])
  OBVIOUS
<1>2. pila[h] # <<>> /\ y.op = o /\ y.pid = p
  BY <1>1, SoloToca
<1>3. ~Ingresa(y) /\ y.op \notin Piden
  BY <1>2, NadieAssumption DEF Ingresa
<1>4. u \in Seq(Tarea) /\ \A t : Esta(t, u) => ~Ingresa(t)'
  BY DEF Mansa, Ingresa
<1> QED
  BY <1>1, <1>2, <1>3, <1>4, PedidosSigue

(* A thread goes on and has to ask.                                         *)
LEMMA PedidosPide ==
    ASSUME IInvCiclo, NEW h \in Hilos, pila[h] # <<>>, NEW u \in Seq(Tarea), Sigue(h, u),
           NEW t, Esta(t, u), t.op \in Piden
    PROVE  Pedidos'
<1>1. Hay(t)'
  BY PilasDelCiclo, HaySigue
<1>2. Pidiendo'
  BY <1>1 DEF Pidiendo
<1> QED
  BY <1>2 DEF Pedidos

(* A thread with nothing to do begins.                                      *)
LEMMA PedidosNace ==
    ASSUME IInvCiclo, Pedidos, NEW h \in Hilos, pila[h] = <<>>, NEW u, Mansa(h, u),
           pila' = [pila EXCEPT ![h] = u],
           \A q \in Procs : estado'[q] = "NEW" <=> estado[q] = "NEW",
           UNCHANGED bitmap, cola'["NEW"] = cola["NEW"]
    PROVE  Pedidos'
<1>1. \A t : Hay(t)' <=> Hay(t) \/ Esta(t, u)
  BY PilasDelCiclo, HayNace
<1>2. \A t : Esta(t, u) => ~Ingresa(t)'
  BY DEF Mansa, Ingresa
<1>3. \A t : Ingresa(t)' <=> Ingresa(t)
  BY DEF Ingresa
<1>4. ASSUME NEW q PROVE Camino(q)' <=> Camino(q)
  BY <1>1, <1>2, <1>3 DEF Camino
<1>5. Pidiendo => Pidiendo'
  BY <1>1 DEF Pidiendo
<1>6. \A q \in Procs : Entra(q)' => Entra(q)
  BY DEF Entra
<1> QED
  BY <1>4, <1>5, <1>6, PedidosIgual

LEMMA PedidosDeQuietas ==
    ASSUME IInvCiclo, IInvSolo, Pedidos, NEW h \in Hilos, NEW p \in Procs, VenceTimer = FALSE,
           \/ NewFin(h, p) \/ ReadyCpu(h, p) \/ Bloquear(h, p) \/ Join(h, p)
           \/ TimerArranca(h, p) \/ TimerCancelado(h, p) \/ EncolarIO(h, p)
           \/ Dump(h, p) \/ DumpOk(h, p) \/ DumpError(h, p) \/ DumpExit(h, p)
    PROVE  Pedidos'
<1>1. UNCHANGED <<estado, cola, bitmap>>
  BY DEF NewFin, ReadyCpu, Bloquear, Join, TimerArranca, TimerCancelado, EncolarIO, Dump, DumpOk,
         DumpError, DumpExit, Solo, otras, planVars, memVars
<1>2. PICK o \in Ops \ (Ingresan \cup {"READY"} \cup Piden) :
          Toca(h, o, p) /\ \E u : Mansa(h, u) /\ Sigue(h, u)
  BY QuietasMansas
<1>3. PICK u : Mansa(h, u) /\ Sigue(h, u)
  BY <1>2
<1> QED
  BY <1>1, <1>2, <1>3, PedidosMansa

(* A process that was not in NEW changes state, and not into NEW.           *)
LEMMA FueraDeNew ==
    ASSUME IInvCiclo, NEW p \in Procs, estado[p] # "NEW", NEW e, e # "NEW", CambiarEstado(p, e)
    PROVE  cola'["NEW"] = cola["NEW"] /\ \A q \in Procs : estado'[q] = "NEW" <=> estado[q] = "NEW"
<1>1. "NEW" \in Colas /\ estado \in [Procs -> Estados]
  BY PilasDelCiclo DEF Colas
<1>2. cola'["NEW"] = ColaTras(p, e, "NEW") /\ \A q \in Procs : estado'[q] = IF q = p THEN e ELSE estado[q]
  BY <1>1 DEF CambiarEstado
<1> QED
  BY <1>2 DEF ColaTras

LEMMA PedidosDeEstados ==
    ASSUME IInvCiclo, IInvSolo, Pedidos, NEW h \in Hilos, NEW p \in Procs,
           (Ready(h, p) /\ estado[p] # "NEW") \/ Execute(h, p) \/ Blocked(h, p) \/ Exit(h, p)
    PROVE  Pedidos'
<1>1. PICK o, e : /\ o \in {"READY", "EXECUTE", "BLOCKED", "EXIT"} /\ e \in {"READY", "EXECUTE", "BLOCKED", "EXIT"}
                  /\ Toca(h, o, p) /\ CambiarEstado(p, e) /\ UNCHANGED bitmap
  BY DEF Ready, Execute, Blocked, Exit, memVars
<1>2. estado[p] # "NEW"
  <2>1. CASE Ready(h, p) /\ estado[p] # "NEW"
    BY <2>1
  <2>2. CASE Execute(h, p)
    BY <2>2, TocaMotivo DEF Execute, Motivo, Mueven
  <2>3. CASE Blocked(h, p)
    <3>1. Toca(h, "BLOCKED", p)
      BY <2>3 DEF Blocked
    <3>2. estado[p] = "EXECUTE"
      BY <3>1, TocaAlgo DEF IInvCiclo, EnRumbo
    <3> QED
      BY <3>2
  <2>4. CASE Exit(h, p)
    <3>1. Toca(h, "EXIT", p) /\ "EXIT" \in Mueven
      BY <2>4 DEF Exit, Mueven
    <3>2. estado[p] \in Dormidos \cup {"EXECUTE"}
      BY <3>1, TocaMotivo DEF Motivo
    <3> QED
      BY <3>2 DEF Dormidos
  <2> QED
    BY <2>1, <2>2, <2>3, <2>4
<1>3. cola'["NEW"] = cola["NEW"] /\ \A q \in Procs : estado'[q] = "NEW" <=> estado[q] = "NEW"
  BY <1>1, <1>2, FueraDeNew
<1>4. o \notin Ingresan \cup Piden
  BY <1>1 DEF Ingresan, Piden
<1>5. PICK u : Mansa(h, u) /\ Sigue(h, u)
  <2>1. {"READY_CPU", "ENVIAR"} \subseteq (Ops \cap Repertorio(h)) \ (Ingresan \cup {"READY"})
    BY DEF Repertorio, Comunes, Ops, Suspenden, Relojes, Ingresan
  <2>2. h = Cpu(LaCpu) => {"BLOQUEAR", "EXIT_MEM"} \subseteq (Ops \cap Repertorio(h)) \ (Ingresan \cup {"READY"})
    BY DEF Repertorio, Ops, Suspenden, Ingresan
  <2>3. CASE Ready(h, p) \/ Execute(h, p)
    <3>1. Sigue(h, <<Por("READY_CPU", p)>>) \/ Sigue(h, <<Por("ENVIAR", p)>>)
      BY <2>3 DEF Ready, Execute
    <3> QED
      BY <2>1, <3>1, MansasPocas
  <2>4. CASE Blocked(h, p) \/ Exit(h, p)
    <3>1. Sigue(h, <<Por("BLOQUEAR", p)>>) \/ Sigue(h, <<Por("EXIT_MEM", p)>>)
      BY <2>4 DEF Blocked, Exit
    <3>2. Toca(h, "BLOCKED", p) \/ Toca(h, "EXIT", p)
      BY <2>4 DEF Blocked, Exit
    <3>3. h = Cpu(LaCpu)
      BY <3>2, SoloToca DEF Comunes, Relojes
    <3> QED
      BY <2>2, <3>1, <3>3, MansasPocas
  <2> QED
    BY <2>3, <2>4
<1> QED
  BY <1>1, <1>2, <1>3, <1>4, <1>5, PedidosMansa

LEMMA PedidosDeExitMem ==
    ASSUME IInvCiclo, NEW h \in Hilos, NEW p \in Procs, ExitMem(h, p)
    PROVE  Pedidos'
<1>1. Toca(h, "EXIT_MEM", p) /\ Sigue(h, <<Sola("TRAER")>>)
  BY DEF ExitMem, DespuesDelExit
<1>2. pila[h] # <<>>
  BY <1>1, TocaAlgo
<1>3. PICK t : t = Sola("TRAER") /\ t \in Tarea /\ t.op = "TRAER"
  <2>1. "TRAER" \in Sueltas
    BY DEF Sueltas
  <2> QED
    BY <2>1, SolaTarea
<1>4. PICK u : u = <<t>>
  OBVIOUS
<1>5. u \in Seq(Tarea) /\ Esta(t, u) /\ Sigue(h, u)
  BY <1>1, <1>3, <1>4, EstaEnUna
<1>6. t.op \in Piden
  BY <1>3 DEF Piden
<1> QED
  BY <1>2, <1>5, <1>6, PedidosPide

LEMMA PedidosDeVuelta ==
    ASSUME SolaCpu, IInvCiclo, IInvSolo, Pedidos, NEW h \in Hilos, NEW p \in Procs,
           Enviar(h, p) \/ Desbloqueo(h, p) \/ DumpFin(h, p)
    PROVE  Pedidos'
<1>1. UNCHANGED <<estado, cola, bitmap>>
  BY DEF Enviar, Desbloqueo, DumpFin, Solo, otras, planVars, memVars
<1>2. {"ENVIAR", "DESBLOQUEO", "DUMP_FIN"} \subseteq Mueven /\ {"DESBLOQUEO", "DUMP_FIN"} \subseteq Levantan
  BY DEF Mueven, Levantan
<1>3. estado[p] # "BLOCKED_SUSPENDED"
  BY DEF IInvSolo, SinSuspension
<1>4. PICK o : o \in {"ENVIAR", "DESBLOQUEO", "DUMP_FIN"} /\ Toca(h, o, p)
  BY DEF Enviar, Desbloqueo, DumpFin
<1>5. PICK y : y = Head(pila[h]) /\ pila[h] # <<>> /\ y.op = o /\ y.pid = p
  BY <1>4, TocaAlgo
<1>6. ~Ingresa(y) /\ y.op \notin Piden
  BY <1>4, <1>5 DEF Ingresa, Ingresan, Piden
<1>7. PICK u : u \in Seq(Tarea) /\ Sigue(h, u) /\ \A t : Esta(t, u) => ~Ingresa(t)'
  <2>1. CASE Enviar(h, p)
    <3>1. Toca(h, "ENVIAR", p)
      BY <2>1 DEF Enviar
    <3>2. cpuPid[LaCpu] = p
      BY <1>2, <3>1, TocaMotivo DEF Motivo
    <3>3. Sigue(h, <<>>)
      BY <2>1, <3>2 DEF Enviar, CpusDe, SolaCpu
    <3>4. PICK u : u = <<>>
      OBVIOUS
    <3>5. u \in Seq(Tarea)
      BY <3>4
    <3>6. \A t : ~Esta(t, u)
      BY <3>4, EstaEnVacia
    <3> QED
      BY <3>3, <3>4, <3>5, <3>6
  <2>2. CASE Desbloqueo(h, p) \/ DumpFin(h, p)
    <3>1. Toca(h, "DESBLOQUEO", p) \/ Toca(h, "DUMP_FIN", p)
      BY <2>2 DEF Desbloqueo, DumpFin
    <3>2. estado[p] = "BLOCKED"
      BY <1>2, <1>3, <3>1, TocaMotivo DEF Motivo, Dormidos
    <3>3. PICK t : t = Por("READY", p) /\ t.op = "READY" /\ t.pid = p /\ t \in Tarea
      <4>1. "READY" \in Ops
        BY DEF Ops
      <4> QED
        BY <4>1, PorTarea
    <3>4. Sigue(h, <<t>>)
      BY <1>3, <2>2, <3>2, <3>3 DEF Desbloqueo, DumpFin, DestinoTrasIO, Solo
    <3>5. PICK u : u = <<t>>
      OBVIOUS
    <3>6. u \in Seq(Tarea) /\ \A x : Esta(x, u) <=> x = t
      BY <3>3, <3>5, EstaEnUna
    <3>7. ~Ingresa(t)'
      BY <1>1, <3>2, <3>3 DEF Ingresa, Ingresan
    <3> QED
      BY <3>4, <3>5, <3>6, <3>7
  <2> QED
    BY <2>1, <2>2
<1> QED
  BY <1>1, <1>5, <1>6, <1>7, PedidosSigue

LEMMA PedidosDeTimer ==
    ASSUME IInvCiclo, IInvSolo, Novatos, Pedidos, NEW h \in Hilos, NEW p \in Procs, CrearTimer(h, p)
    PROVE  Pedidos'
<1>1. PICK j, n, t : n = hiloBlock[p] + 1 /\ j = Timer(p, n) /\ t = Por("TIMER", p)
  OBVIOUS
<1>2. /\ n <= MaxTimers /\ Toca(h, "CREAR_TIMER", p)
      /\ pila' = [pila EXCEPT ![h] = Tail(@), ![j] = <<t>>]
      /\ UNCHANGED <<estado, cola, bitmap>>
  BY <1>1 DEF CrearTimer, planVars, memVars
<1>3. PICK y : y = Head(pila[h]) /\ pila[h] # <<>> /\ y.op = "CREAR_TIMER"
  BY <1>2, TocaAlgo
<1>4. pila \in [Hilos -> Seq(Tarea)] /\ pila[h] \in Seq(Tarea)
  BY PilasDelCiclo
<1>5. j \in Hilos /\ pila[j] = <<>> /\ h # j
  <2>1. hiloBlock[p] \in Nat
    BY PilasDelCiclo, MaxTimersAssumption DEF IInvTipos, TypeOK
  <2>2. n \in 1..MaxTimers /\ n > hiloBlock[p]
    BY <1>1, <1>2, <2>1, MaxTimersAssumption
  <2>3. j \in Hilos /\ pila[j] = <<>>
    BY <1>1, <2>2, HilosPropios DEF Novatos
  <2> QED
    BY <1>3, <2>3
<1>6. PICK w, c : w = <<t>> /\ c = Tail(pila[h])
  OBVIOUS
<1>7. (\A x : Esta(x, w) <=> x = t) /\ (\A x : Esta(x, pila[h]) <=> x = y \/ Esta(x, c)) /\ \A x : ~Esta(x, pila[j])
  BY <1>3, <1>4, <1>5, <1>6, EstaEnUna, CabezaOResto, EstaEnVacia
<1>8. pila'[h] = c /\ pila'[j] = w /\ \A k \in Hilos \ {h, j} : pila'[k] = pila[k]
  BY <1>2, <1>4, <1>5, <1>6
<1>9. t.op = "TIMER"
  BY <1>1 DEF Por
<1>10. ASSUME NEW x, x.op \notin {"TIMER", "CREAR_TIMER"} PROVE Hay(x)' <=> Hay(x)
  BY <1>3, <1>5, <1>7, <1>8, <1>9, <1>10 DEF Hay
<1>11. \A x : /\ Ingresa(x)' <=> Ingresa(x)
              /\ Ingresa(x) => x.op \notin {"TIMER", "CREAR_TIMER"}
              /\ x.op \in Piden => x.op \notin {"TIMER", "CREAR_TIMER"}
  BY <1>2 DEF Ingresa, Ingresan, Piden
<1>12. \A q : Camino(q)' <=> Camino(q)
  BY <1>10, <1>11 DEF Camino
<1>13. Pidiendo => Pidiendo'
  BY <1>10, <1>11 DEF Pidiendo
<1>14. \A q \in Procs : Entra(q)' => Entra(q)
  BY <1>2 DEF Entra
<1> QED
  BY <1>2, <1>12, <1>13, <1>14, PedidosIgual

(* What the thread of the CPU asks for, one process after the other.        *)
LEMMA PedidosDePlanificador ==
    ASSUME IInvCiclo, IInvSolo, Pedidos, NEW h \in Hilos, DePlanificador(h)
    PROVE  Pedidos'
<1>1. UNCHANGED <<estado, cola>>
  BY DEF DePlanificador, TraerEntra, TraerRS, TraerVerNew, TraerNew, MandarEntra, MandarVer,
         MandarTomar, planVars
<1>2. PICK o \in {"TRAER", "TRAER_RS", "TRAER_NEW", "PEDIR_NEW", "MANDAR", "MANDAR_VER", "MANDAR_TOMAR"} :
          Toca(h, o, Nadie)
  BY DEF DePlanificador, TraerEntra, TraerRS, TraerVerNew, TraerNew, MandarEntra, MandarVer, MandarTomar
<1>3. h = Cpu(LaCpu) /\ pila[h] # <<>>
  BY <1>2, SoloToca DEF Comunes, Relojes
<1>4. {"MANDAR_VER", "MANDAR_TOMAR", "EXECUTE"} \subseteq (Ops \cap Repertorio(h)) \ (Ingresan \cup {"READY"})
  BY <1>3 DEF Repertorio, Ops, Suspenden, Ingresan
<1>5. \A x \in Piden : Sola(x) \in Tarea /\ Sola(x).op = x
  <2>1. Piden \subseteq Sueltas
    BY DEF Piden, Sueltas
  <2> QED
    BY <2>1, SolaTarea
<1>6. ASSUME NEW x \in Piden, Sigue(h, <<Sola(x)>>) PROVE Pedidos'
  <2>1. PICK t : t = Sola(x) /\ t \in Tarea /\ t.op \in Piden
    BY <1>5
  <2>2. PICK u : u = <<t>>
    OBVIOUS
  <2>3. u \in Seq(Tarea) /\ Esta(t, u) /\ Sigue(h, u)
    BY <1>6, <2>1, <2>2, EstaEnUna
  <2> QED
    BY <1>3, <2>1, <2>3, PedidosPide
<1>7. CASE MandarEntra(h) \/ MandarVer(h) \/ MandarTomar(h)
  <2>1. UNCHANGED bitmap
    BY <1>7 DEF MandarEntra, MandarVer, MandarTomar, memVars
  <2>2. PICK m : m \in {"MANDAR", "MANDAR_VER", "MANDAR_TOMAR"} /\ Toca(h, m, Nadie)
    BY <1>7 DEF MandarEntra, MandarVer, MandarTomar
  <2>3. m \notin Ingresan \cup Piden
    BY <2>2 DEF Ingresan, Piden
  <2>4. PICK u : Mansa(h, u) /\ Sigue(h, u)
    <3>1. CASE MandarEntra(h) \/ MandarVer(h)
      <4>1. \E x \in {"MANDAR_VER", "MANDAR_TOMAR"} : Sigue(h, <<>>) \/ Sigue(h, <<Sola(x)>>)
        BY <3>1 DEF MandarEntra, MandarVer
      <4> QED
        BY <1>4, <4>1, MansasPocas
    <3>2. CASE MandarTomar(h) /\ CpusDisponibles # {} /\ cola["READY"] # <<>>
      <4>1. PICK p \in Procs : p = Head(cola["READY"])
        BY <3>2, EnColaEs DEF Colas
      <4>2. Sigue(h, <<Por("EXECUTE", p), Sola("MANDAR_VER")>>) /\ Sola("MANDAR_VER") = Por("MANDAR_VER", Nadie)
        BY <3>2, <4>1 DEF MandarTomar, Sola, Por
      <4>3. Mansa(h, <<Por("EXECUTE", p), Por("MANDAR_VER", Nadie)>>)
        BY <1>4, MansasPocas
      <4> QED
        BY <4>2, <4>3
    <3>3. CASE MandarTomar(h) /\ ~(CpusDisponibles # {} /\ cola["READY"] # <<>>)
      BY <3>3, MansasPocas DEF MandarTomar
    <3> QED
      BY <1>7, <3>1, <3>2, <3>3
  <2> QED
    BY <1>1, <2>1, <2>2, <2>3, <2>4, PedidosMansa
<1>8. CASE TraerEntra(h)
  BY <1>6, <1>8 DEF TraerEntra, Piden
<1>9. CASE TraerRS(h)
  <2>1. cola["READY_SUSPENDED"] = <<>>
    <3>1. "READY_SUSPENDED" \in Colas
      BY DEF Colas
    <3> QED
      BY <3>1, EnColaEs DEF IInvSolo, SinSuspension
  <2>2. Sigue(h, <<Sola("TRAER_NEW")>>)
    BY <1>9, <2>1 DEF TraerRS
  <2> QED
    BY <1>6, <2>2 DEF Piden
<1>10. CASE TraerVerNew(h)
  <2>1. CASE cola["NEW"] = <<>>
    BY <1>1, <2>1 DEF Pedidos
  <2>2. CASE cola["NEW"] # <<>>
    BY <1>6, <1>10, <2>2 DEF TraerVerNew, Piden
  <2> QED
    BY <2>1, <2>2
<1>11. CASE TraerNew(h)
  <2>1. CASE cola["NEW"] # <<>> /\ Entra(Elegido("NEW"))
    <3>1. PICK p : p \in Procs /\ p = Elegido("NEW")
      BY <2>1, EnColaEs DEF Colas, Elegido
    <3>2. PICK v : v = Por("READY", p) /\ v \in Tarea
      <4>1. "READY" \in Ops
        BY DEF Ops
      <4> QED
        BY <3>1, <4>1, PorTarea
    <3>3. PICK w : w = Sola("TRAER_NEW") /\ w \in Tarea /\ w.op \in Piden
      BY <1>5 DEF Piden
    <3>4. PICK u : u = <<v, w>>
      OBVIOUS
    <3>5. u \in Seq(Tarea) /\ Esta(w, u)
      BY <3>2, <3>3, <3>4, EstaEnDos
    <3>6. Sigue(h, u)
      BY <1>11, <2>1, <3>1, <3>2, <3>3, <3>4 DEF TraerNew
    <3> QED
      BY <1>3, <3>3, <3>5, <3>6, PedidosPide
  <2>2. CASE ~(cola["NEW"] # <<>> /\ Entra(Elegido("NEW")))
    <3>1. PICK u : u = <<>>
      OBVIOUS
    <3>6. u \in Seq(Tarea)
      BY <3>1
    <3>2. Sigue(h, u) /\ UNCHANGED bitmap /\ \A t : ~Esta(t, u)
      BY <1>11, <2>2, <3>1, EstaEnVacia DEF TraerNew, memVars
    <3>3. \A q : ~Camino(q)'
      <4>1. \A q \in Procs : estado'[q] = "NEW" => estado[q] = "NEW"
        BY <1>1
      <4> QED
        BY <1>3, <3>2, <3>6, <4>1, SinCamino
    <3>4. PICK s, q : s = cola["NEW"] /\ s = cola'["NEW"] /\ q = Head(s)
      BY <1>1
    <3>5. s # <<>> => ~Entra(q)'
      BY <2>2, <3>2, <3>4 DEF Entra, Elegido
    <3> QED
      BY <3>3, <3>4, <3>5 DEF Pedidos, Delante
  <2> QED
    BY <2>1, <2>2
<1> QED
  BY <1>7, <1>8, <1>9, <1>10, <1>11 DEF DePlanificador

(* The one that was going in leaves NEW.                                    *)
LEMMA PedidosDeReady ==
    ASSUME IInvCiclo, IInvSolo, Pedidos, NEW h \in Hilos, NEW p \in Procs, Ready(h, p), estado[p] = "NEW"
    PROVE  Pedidos'
<1>1. /\ Toca(h, "READY", p) /\ CambiarEstado(p, "READY") /\ UNCHANGED bitmap
      /\ Sigue(h, <<Por("READY_CPU", p)>>)
  BY DEF Ready, memVars
<1>2. PICK y : y = Head(pila[h]) /\ pila[h] # <<>> /\ y.op = "READY" /\ y.pid = p
  BY <1>1, TocaAlgo
<1>3. Ingresa(y) /\ Hay(y)
  <2>1. Esta(y, pila[h])
    BY <1>2, PilasDelCiclo, Cabeza
  <2> QED
    BY <1>2, <2>1 DEF Ingresa, Hay
<1>4. h = Cpu(LaCpu) \/ (h = Main /\ MainSolo)
  BY <1>2, <1>3 DEF IInvSolo, Ingreso
<1>5. PICK s, r : s = cola["NEW"] /\ r = Quitar(p, s)
  OBVIOUS
<1>6. s \in Seq(Procs) /\ "NEW" \in Colas /\ estado \in [Procs -> Estados]
  BY <1>5, PilasDelCiclo DEF Colas
<1>7. cola'["NEW"] = r /\ \A q \in Procs : estado'[q] = IF q = p THEN "READY" ELSE estado[q]
  <2>1. cola'["NEW"] = ColaTras(p, "READY", "NEW")
    BY <1>1, <1>6 DEF CambiarEstado
  <2>2. ColaTras(p, "READY", "NEW") = r
    BY <1>5 DEF ColaTras
  <2>3. \A q \in Procs : estado'[q] = IF q = p THEN "READY" ELSE estado[q]
    BY <1>1, <1>6 DEF CambiarEstado
  <2> QED
    BY <2>1, <2>2, <2>3
<1>8. PICK t : t = Por("READY_CPU", p) /\ t.op = "READY_CPU" /\ t \in Tarea
  <2>1. "READY_CPU" \in Ops
    BY DEF Ops
  <2> QED
    BY <2>1, PorTarea
<1>9. PICK u : u = <<t>>
  OBVIOUS
<1>10. u \in Seq(Tarea) /\ Sigue(h, u) /\ \A x : Esta(x, u) <=> x = t
  BY <1>1, <1>8, <1>9, EstaEnUna
<1>11. ~Ingresa(t)'
  BY <1>8 DEF Ingresa, Ingresan
<1>12. \A q : ~Camino(q)'
  <2>1. \A q \in Procs : estado'[q] = "NEW" => estado[q] = "NEW"
    BY <1>7
  <2>2. \A x : Esta(x, u) => ~Ingresa(x)'
    BY <1>10, <1>11
  <2> QED
    BY <1>2, <1>4, <1>10, <2>1, <2>2, SinCamino
<1>13. Pidiendo => Pidiendo'
  <2>1. \A x : Hay(x) => Hay(x)' \/ x = y
    BY <1>2, <1>10, PilasDelCiclo, HaySigue
  <2>2. y.op \notin Piden
    BY <1>2 DEF Piden
  <2> QED
    BY <2>1, <2>2 DEF Pidiendo
<1>14. \A q : Entra(q)' <=> Entra(q)
  BY <1>1 DEF Entra
<1>15. CASE s = <<>>
  <2>1. r = <<>>
    <3>1. \A q : ~Esta(q, s)
      BY <1>15, EstaEnVacia
    <3>2. r \in Seq(Procs) /\ \A q : Esta(q, r) => Esta(q, s)
      BY <1>5, <1>6, QuitarSaca
    <3> QED
      BY <3>1, <3>2, Cabeza
  <2> QED
    BY <1>7, <2>1 DEF Pedidos
<1>16. CASE s # <<>> /\ Pidiendo
  BY <1>13, <1>16 DEF Pedidos
<1>17. CASE s # <<>> /\ ~Pidiendo
  <2>1. Delante(s)
    BY <1>5, <1>17 DEF Pedidos
  <2>2. CASE Head(s) = p
    <3>1. Camino(Head(s))
      BY <1>2, <1>3, <2>2 DEF Camino
    <3>2. r = Tail(s)
      BY <1>5, <1>6, <1>17, <2>2, QuitarPrimero
    <3>3. PICK q : q = Head(r)
      OBVIOUS
    <3>4. r # <<>> => ~Entra(q)
      BY <2>1, <3>1, <3>2, <3>3 DEF Delante
    <3>5. r # <<>> => ~Entra(q)'
      BY <1>14, <3>4
    <3> QED
      BY <1>7, <1>12, <3>3, <3>5 DEF Pedidos, Delante
  <2>3. CASE Head(s) # p
    <3>1. ~Camino(Head(s))
      BY <1>2, <1>4, <2>3, NadieMas DEF Camino
    <3>2. PICK q : q = Head(s)
      OBVIOUS
    <3>3. ~Entra(q)'
      BY <1>14, <2>1, <3>1, <3>2 DEF Delante
    <3>4. Head(r) = q
      BY <1>5, <1>6, <1>17, <2>3, <3>2, QuitarSaca
    <3> QED
      BY <1>7, <1>12, <3>3, <3>4 DEF Pedidos, Delante
  <2> QED
    BY <2>2, <2>3
<1> QED
  BY <1>15, <1>16, <1>17

(* A process comes into NEW: behind the first, or ahead of it under PMCP.   *)
LEMMA PedidosDeNew ==
    ASSUME SolaCpu, IInvCiclo, IInvSolo, Pedidos, NEW h \in Hilos, NEW p \in Procs, New(h, p)
    PROVE  Pedidos'
<1>1. /\ Toca(h, "NEW", p) /\ CambiarEstado(p, "NEW") /\ UNCHANGED bitmap
      /\ Sigue(h, <<Por("NEW_TRAER", p)>>)
  BY DEF New, memVars
<1>2. PICK y : y = Head(pila[h]) /\ pila[h] # <<>> /\ y.op = "NEW" /\ y.pid = p /\ Esta(y, pila[h])
  <2>1. PICK y : y = Head(pila[h]) /\ pila[h] # <<>> /\ y.op = "NEW" /\ y.pid = p
    BY <1>1, TocaAlgo
  <2> QED
    BY <2>1, PilasDelCiclo, Cabeza
<1>3. h = Cpu(LaCpu) \/ (h = Main /\ MainSolo)
  <2>1. "NEW" \in Creadoras
    BY DEF Creadoras
  <2>2. h = Main \/ \E c \in Cpus : h = Cpu(c)
    BY <1>2, <2>1 DEF IInvCiclo, IInvOrden, UnCreador
  <2>3. h = Main => MainSolo
    BY <1>2, <2>1 DEF IInvCiclo, IInvOrden, UnCreador, MainSolo, SolaCpu
  <2> QED
    BY <2>2, <2>3 DEF SolaCpu
<1>4. estado[p] = "CREADO"
  BY <1>2 DEF IInvCiclo, IInvOrden, SoloNacidos
<1>5. PICK s, r : s = cola["NEW"] /\ r = Insertar("NEW", p, s)
  OBVIOUS
<1>6. s \in Seq(Procs) /\ "NEW" \in Colas /\ estado \in [Procs -> Estados]
  BY <1>5, PilasDelCiclo DEF Colas
<1>7. cola'["NEW"] = r /\ \A q \in Procs : estado'[q] = IF q = p THEN "NEW" ELSE estado[q]
  <2>1. cola'["NEW"] = ColaTras(p, "NEW", "NEW")
    BY <1>1, <1>6 DEF CambiarEstado
  <2>2. ColaTras(p, "NEW", "NEW") = r
    BY <1>4, <1>5 DEF ColaTras
  <2>3. \A q \in Procs : estado'[q] = IF q = p THEN "NEW" ELSE estado[q]
    BY <1>1, <1>6 DEF CambiarEstado
  <2> QED
    BY <2>1, <2>2, <2>3
<1>8. PICK t : t = Por("NEW_TRAER", p) /\ t.op = "NEW_TRAER" /\ t.pid = p /\ t \in Tarea
  <2>1. "NEW_TRAER" \in Ops
    BY DEF Ops
  <2> QED
    BY <2>1, PorTarea
<1>9. PICK u : u = <<t>>
  OBVIOUS
<1>10. u \in Seq(Tarea) /\ Sigue(h, u) /\ \A x : Esta(x, u) <=> x = t
  BY <1>1, <1>8, <1>9, EstaEnUna
<1>11. /\ \A x : Hay(x)' => Hay(x) \/ x = t
       /\ \A x : Hay(x) => Hay(x)' \/ x = y
       /\ Hay(t)'
  BY <1>2, <1>10, PilasDelCiclo, HaySigue
<1>12. ~Ingresa(y) /\ y.op \notin Piden
  BY <1>2 DEF Ingresa, Ingresan, Piden
<1>13. \A x : Hay(x) => ~Ingresa(x)
  BY <1>2, <1>3, <1>12, NadieMas
<1>14. \A x : Hay(x) => ~Ingresa(x)'
  <2>1. ASSUME NEW x, Hay(x), Ingresa(x)' PROVE FALSE
    <3>1. x.op = "READY" /\ x.pid = p
      BY <1>7, <1>13, <2>1 DEF Ingresa
    <3> QED
      BY <1>4, <2>1, <3>1 DEF IInvCiclo, IInvOrden, SoloNacidos, Nacidos, NoNatos, Hay
  <2> QED
    BY <2>1
<1>15. /\ \A q : q # p => ~Camino(q) /\ ~Camino(q)'
       /\ \A q : ~Camino(q)
       /\ Camino(p)'
  <2>1. Ingresa(t)'
    BY <1>8 DEF Ingresa, Ingresan
  <2> QED
    BY <1>8, <1>11, <1>13, <1>14, <2>1 DEF Camino
<1>16. Pidiendo => Pidiendo'
  BY <1>11, <1>12 DEF Pidiendo
<1>17. \A q : Entra(q)' <=> Entra(q)
  BY <1>1 DEF Entra
<1>18. CASE s = <<>>
  <2>1. r = <<p>>
    <3>1. Insertar("NEW", p, <<>>) = Append(<<>>, p)
      BY DEF Insertar, InsertarPMCP, InsertarFIFO
    <3> QED
      BY <1>5, <1>18, <3>1
  <2>2. Head(r) = p /\ Tail(r) = <<>>
    BY <2>1
  <2> QED
    BY <1>7, <1>15, <2>2 DEF Pedidos, Delante
<1>19. CASE s # <<>> /\ Pidiendo
  BY <1>16, <1>19 DEF Pedidos
<1>20. CASE s # <<>> /\ ~Pidiendo
  <2>1. PICK q : q = Head(s)
    OBVIOUS
  <2>2. ~Entra(q)
    BY <1>5, <1>15, <1>20, <2>1 DEF Pedidos, Delante
  <2>3. ~Entra(q)'
    BY <1>17, <2>2
  <2>4. q # p
    <3>1. Esta(q, s)
      BY <1>6, <1>20, <2>1, Cabeza
    <3>2. q \in Procs
      BY <1>6, <1>20, <2>1, Cabeza
    <3>3. estado[q] = "NEW"
      BY <1>5, <1>6, <3>1, <3>2 DEF IInvCiclo, EnRumbo, EnSuCola
    <3> QED
      BY <1>4, <3>3
  <2>5. \/ Head(r) = q
        \/ AlgoritmoIngreso = "PMCP" /\ Head(r) = p /\ Tail(r) = s
    BY <1>5, <1>6, <1>20, <2>1, InsertarPrimero
  <2>6. CASE Head(r) = q
    BY <1>7, <1>15, <2>3, <2>4, <2>6 DEF Pedidos, Delante
  <2>7. CASE AlgoritmoIngreso = "PMCP" /\ Head(r) = p /\ Tail(r) = s
    BY <1>7, <1>15, <2>1, <2>3, <2>7 DEF Pedidos, Delante
  <2> QED
    BY <2>5, <2>6, <2>7
<1> QED
  BY <1>18, <1>19, <1>20

(* The first of NEW is asked for, and those behind it have no more room.    *)
LEMMA PedidosDeIngreso ==
    ASSUME IInvCiclo, IInvSolo, Pedidos, NEW h \in Hilos, NEW p \in Procs,
           NewTraer(h, p) \/ NewInit(h, p)
    PROVE  Pedidos'
<1>1. PICK o : o \in Ingresan /\ Toca(h, o, p) /\ UNCHANGED <<estado, cola>>
  BY DEF NewTraer, NewInit, Ingresan, planVars
<1>2. PICK y : y = Head(pila[h]) /\ pila[h] # <<>> /\ y.op = o /\ y.pid = p
  BY <1>1, TocaAlgo
<1>3. Ingresa(y) /\ y.op \notin Piden /\ Hay(y)
  <2>1. Esta(y, pila[h])
    BY <1>2, PilasDelCiclo, Cabeza
  <2> QED
    BY <1>1, <1>2, <2>1 DEF Ingresa, Ingresan, Piden, Hay
<1>4. estado[p] = "NEW" /\ (h = Cpu(LaCpu) \/ (h = Main /\ MainSolo))
  BY <1>2, <1>3 DEF IInvSolo, Ingreso
<1>5. PICK s : s = cola["NEW"] /\ s = cola'["NEW"] /\ s \in Seq(Procs)
  <2>1. PICK s : s = cola["NEW"]
    OBVIOUS
  <2> QED
    BY <1>1, <2>1, PilasDelCiclo DEF Colas
<1>6. {"NEW_FIN", "NEW_INIT", "READY"} \subseteq Ops
  BY DEF Ops
<1>7. PICK f : f = Por("NEW_FIN", p) /\ f.op = "NEW_FIN" /\ f \in Tarea
  BY <1>6, PorTarea
<1>8. ASSUME NEW u \in Seq(Tarea), Sigue(h, u) PROVE Pidiendo => Pidiendo'
  <2>1. \A x : Hay(x) => Hay(x)' \/ x = y
    BY <1>2, <1>8, PilasDelCiclo, HaySigue
  <2> QED
    BY <1>3, <2>1 DEF Pidiendo
<1>9. ASSUME NEW v \in Tarea, v.pid = p, Ingresa(v)',
             Sigue(h, <<v>>) \/ Sigue(h, <<v, f>>), \A q \in Procs : Entra(q)' => Entra(q)
      PROVE  Pedidos'
  <2>1. PICK u : u \in {<<v>>, <<v, f>>} /\ Sigue(h, u)
    BY <1>9
  <2>2. u \in Seq(Tarea) /\ Esta(v, u) /\ \A x : Esta(x, u) => x = v \/ x = f
    <3>1. CASE u = <<v>>
      <4>1. u \in Seq(Tarea)
        BY <3>1
      <4> QED
        BY <3>1, <4>1, EstaEnUna
    <3>2. CASE u = <<v, f>>
      <4>1. u \in Seq(Tarea)
        BY <1>7, <3>2
      <4> QED
        BY <3>2, <4>1, EstaEnDos
    <3> QED
      BY <2>1, <3>1, <3>2
  <2>3. /\ \A x : Hay(x)' => Hay(x) \/ x = v \/ x = f
        /\ \A x : Hay(x) => Hay(x)' \/ x = y
        /\ Hay(v)'
    BY <1>2, <2>1, <2>2, PilasDelCiclo, HaySigue
  <2>4. \A x : Ingresa(x)' <=> Ingresa(x)
    BY <1>1 DEF Ingresa
  <2>5. ~Ingresa(f)
    BY <1>7 DEF Ingresa, Ingresan
  <2>6. \A q : Camino(q)' <=> Camino(q)
    BY <1>2, <1>3, <1>9, <2>3, <2>4, <2>5 DEF Camino
  <2> QED
    BY <1>5, <1>8, <1>9, <2>1, <2>2, <2>6, PedidosIgual
<1>10. ASSUME Sigue(h, <<f>>), UNCHANGED bitmap,
              s # <<>> /\ Head(s) = p => ~Entra(p) \/ (Tail(s) # <<>> /\ AlgoritmoIngreso # "PMCP")
       PROVE  Pedidos'
  <2>1. PICK u : u = <<f>>
    OBVIOUS
  <2>2. u \in Seq(Tarea) /\ Sigue(h, u) /\ \A x : Esta(x, u) <=> x = f
    BY <1>7, <1>10, <2>1, EstaEnUna
  <2>3. ~Ingresa(f)'
    BY <1>7 DEF Ingresa, Ingresan
  <2>4. \A q : ~Camino(q)'
    <3>1. \A x : Esta(x, u) => ~Ingresa(x)'
      BY <2>2, <2>3
    <3>2. \A q \in Procs : estado'[q] = "NEW" => estado[q] = "NEW"
      BY <1>1
    <3> QED
      BY <1>2, <1>4, <2>2, <3>1, <3>2, SinCamino
  <2>5. PICK q : q = Head(s)
    OBVIOUS
  <2>6. Entra(q)' <=> Entra(q)
    BY <1>10 DEF Entra
  <2>7. CASE s = <<>> \/ Pidiendo
    BY <1>5, <1>8, <2>2, <2>7 DEF Pedidos
  <2>8. CASE s # <<>> /\ ~Pidiendo
    <3>1. Delante(s)
      BY <1>5, <2>8 DEF Pedidos
    <3>2. Camino(p)
      BY <1>2, <1>3 DEF Camino
    <3>3. q # p => ~Camino(q)
      BY <1>2, <1>4, NadieMas DEF Camino
    <3>4. ~Entra(q)
      BY <1>10, <2>5, <2>8, <3>1, <3>2, <3>3 DEF Delante
    <3> QED
      BY <1>5, <2>4, <2>5, <2>6, <3>4 DEF Pedidos, Delante
  <2> QED
    BY <2>7, <2>8
<1>11. CASE NewTraer(h, p)
  <2>1. UNCHANGED bitmap
    BY <1>11 DEF NewTraer, memVars
  <2>2. CASE PuedeAdmitir(p)
    <3>1. PICK v : v = Por("NEW_INIT", p) /\ v.op = "NEW_INIT" /\ v.pid = p /\ v \in Tarea
      BY <1>6, PorTarea
    <3>2. Ingresa(v)'
      BY <3>1 DEF Ingresa, Ingresan
    <3>3. Sigue(h, <<v>>)
      BY <1>11, <2>2, <3>1 DEF NewTraer
    <3>4. \A q \in Procs : Entra(q)' => Entra(q)
      BY <2>1 DEF Entra
    <3> QED
      BY <1>9, <3>1, <3>2, <3>3, <3>4
  <2>3. CASE ~PuedeAdmitir(p)
    <3>1. Sigue(h, <<f>>)
      BY <1>7, <1>11, <2>3 DEF NewTraer
    <3>2. cola["READY_SUSPENDED"] = <<>>
      <4>1. "READY_SUSPENDED" \in Colas
        BY DEF Colas
      <4> QED
        BY <4>1, EnColaEs DEF IInvSolo, SinSuspension
    <3>3. Len(s) # 1 /\ (AlgoritmoIngreso # "PMCP" \/ Head(s) # p)
      BY <1>5, <2>3, <3>2 DEF PuedeAdmitir
    <3>4. s # <<>> => Tail(s) # <<>>
      <4>1. PICK z : z = Tail(s)
        OBVIOUS
      <4>2. s # <<>> => Len(s) # 0 /\ Len(z) = Len(s) - 1 /\ z \in Seq(Procs) /\ Len(s) \in Nat
        BY <1>5, <4>1
      <4>3. s # <<>> => Len(z) # 0
        BY <3>3, <4>2
      <4> QED
        BY <4>1, <4>3
    <3> QED
      BY <1>10, <2>1, <3>1, <3>3, <3>4
  <2> QED
    BY <2>2, <2>3
<1>12. CASE NewInit(h, p)
  <2>1. CASE Entra(p)
    <3>1. PICK v : v = Por("READY", p) /\ v.op = "READY" /\ v.pid = p /\ v \in Tarea
      BY <1>6, PorTarea
    <3>2. Ingresa(v)'
      BY <1>1, <1>4, <3>1 DEF Ingresa
    <3>3. Sigue(h, <<v, f>>)
      BY <1>7, <1>12, <2>1, <3>1 DEF NewInit
    <3>4. bitmap \subseteq bitmap'
      BY <1>12, <2>1 DEF NewInit, MemInit
    <3>5. ASSUME NEW q \in Procs, Entra(q)' PROVE Entra(q)
      <4>1. Tamanio[q] \in Nat
        BY TamanioAssumption
      <4>2. HayMemoria(bitmap', Tamanio[q])
        BY <3>5 DEF Entra
      <4> QED
        BY <3>4, <4>1, <4>2, MenosLugar DEF Entra
    <3> QED
      BY <1>9, <3>1, <3>2, <3>3, <3>5
  <2>2. CASE ~Entra(p)
    <3>1. Sigue(h, <<f>>) /\ UNCHANGED bitmap
      BY <1>7, <1>12, <2>2 DEF NewInit, memVars
    <3> QED
      BY <1>10, <2>2, <3>1
  <2> QED
    BY <2>1, <2>2
<1> QED
  BY <1>11, <1>12

LEMMA PedidosDeCpu ==
    ASSUME SolaCpu, IInvCiclo, IInvSolo, Pedidos, NEW c \in Cpus, DeCpu(c)
    PROVE  Pedidos'
<1>1. UNCHANGED <<cola, bitmap>>
  BY DEF DeCpu, LiberarCpu, SyscallExit, SyscallBloqueante, SyscallInitProc, planVars, memVars
<1>2. CASE LiberarCpu(c)
  <2>1. PICK h : h = Cpu(c) /\ h \in Hilos
    BY HilosPropios
  <2>2. Toca(h, "LIBERAR_CPU", Nadie) /\ Sigue(h, <<>>) /\ UNCHANGED estado
    BY <1>2, <2>1 DEF LiberarCpu, planVars
  <2>3. "LIBERAR_CPU" \notin Ingresan \cup Piden
    BY DEF Ingresan, Piden
  <2>4. PICK u : u = <<>> /\ Mansa(h, u)
    BY MansasPocas
  <2> QED
    BY <1>1, <2>1, <2>2, <2>3, <2>4, PedidosMansa
<1>3. CASE SyscallExit(c) \/ SyscallBloqueante(c) \/ SyscallInitProc(c)
  <2>1. PICK h : h = Cpu(LaCpu)
    OBVIOUS
  <2>2. /\ h \in Hilos /\ pila[h] = <<>> /\ \A q \in Procs : estado'[q] = "NEW" <=> estado[q] = "NEW"
        /\ \E u : Mansa(h, u) /\ pila' = [pila EXCEPT ![h] = u]
    BY <1>3, <2>1, CpuTrae
  <2>3. PICK u : Mansa(h, u) /\ pila' = [pila EXCEPT ![h] = u]
    BY <2>2
  <2> QED
    BY <1>1, <2>2, <2>3, PedidosNace
<1> QED
  BY <1>2, <1>3 DEF DeCpu

LEMMA PedidosDeIO ==
    ASSUME IInvCiclo, IInvSolo, Pedidos, NEW x \in Conexiones, DesbloqueoIO(x)
    PROVE  Pedidos'
<1>1. PICK h : h = Io(x)
  OBVIOUS
<1>2. /\ h \in Hilos /\ pila[h] = <<>> /\ UNCHANGED <<estado, cola, bitmap>>
      /\ \E u : Mansa(h, u) /\ pila' = [pila EXCEPT ![h] = u]
  BY <1>1, DispositivoTrae
<1>3. PICK u : Mansa(h, u) /\ pila' = [pila EXCEPT ![h] = u]
  BY <1>2
<1> QED
  BY <1>2, <1>3, PedidosNace

LEMMA PedidosPasoAPaso ==
    ASSUME SolaCpu, VenceTimer = FALSE, IInvCiclo, IInvSolo, Novatos, Dormilones, Pedidos, [Next]_vars
    PROVE  Pedidos'
<1>1. CASE Reposo \/ UNCHANGED vars
  <2>1. UNCHANGED <<pila, estado, cola, bitmap>>
    BY <1>1 DEF Reposo, vars, otras, planVars, memVars
  <2>2. \A t : (Hay(t)' <=> Hay(t)) /\ (Ingresa(t)' <=> Ingresa(t))
    BY <2>1 DEF Hay, Ingresa
  <2>3. \A q : Camino(q)' <=> Camino(q)
    BY <2>2 DEF Camino
  <2>4. Pidiendo => Pidiendo'
    BY <2>2 DEF Pidiendo
  <2>5. \A q \in Procs : Entra(q)' => Entra(q)
    BY <2>1 DEF Entra
  <2> QED
    BY <2>1, <2>3, <2>4, <2>5, PedidosIgual
<1>2. ASSUME NEW h \in Hilos, PasoHilo(h) PROVE Pedidos'
  <2>1. ASSUME NEW p \in Procs, DeProceso(h, p) PROVE Pedidos'
    BY <2>1, PedidosDeQuietas, SoloDeOtras, PedidosDeEstados, PedidosDeReady, PedidosDeExitMem,
       PedidosDeVuelta, PedidosDeTimer, PedidosDeNew, PedidosDeIngreso DEF DeProceso
  <2> QED
    BY <1>2, <2>1, PedidosDePlanificador DEF PasoHilo
<1>3. ASSUME NEW c \in Cpus, DeCpu(c) PROVE Pedidos'
  BY <1>3, PedidosDeCpu
<1>4. ASSUME NEW x \in Conexiones, DesbloqueoIO(x) PROVE Pedidos'
  BY <1>4, PedidosDeIO
<1> QED
  BY <1>1, <1>2, <1>3, <1>4, DormidosNoPiden DEF Next

(* Every stack empty or asleep: nobody is on its way, and nobody asks.      *)
LEMMA PedidosBasta ==
    ASSUME IInvCiclo, IInvSolo, PilasEnRegla, Pedidos PROVE AdmisionCompleta
<1> SUFFICES ASSUME Quieto PROVE cola["READY_SUSPENDED"] = <<>> /\ (cola["NEW"] # <<>> => ~Entra(Head(cola["NEW"])))
  BY DEF AdmisionCompleta, PedidoSinLugar
<1>1. cola["READY_SUSPENDED"] = <<>>
  <2>1. "READY_SUSPENDED" \in Colas
    BY DEF Colas
  <2> QED
    BY <2>1, EnColaEs DEF IInvSolo, SinSuspension
<1>2. ASSUME NEW t, Hay(t) PROVE t.op = "DORMIR"
  <2>1. PICK k \in Hilos : Esta(t, pila[k])
    BY <1>2 DEF Hay
  <2>2. pila[k] \in Seq(Tarea) /\ pila[k] # <<>>
    BY <2>1, PilasDelCiclo, EstaEnVacia
  <2>3. Head(pila[k]).op = "DORMIR"
    BY <2>2 DEF Quieto, Durmiendo
  <2>4. Tail(pila[k]) = <<>>
    BY <2>2, <2>3 DEF PilasEnRegla, EnRegla, Relojes
  <2>5. t = Head(pila[k])
    BY <2>1, <2>2, <2>4, CabezaOResto, EstaEnVacia
  <2> QED
    BY <2>3, <2>5
<1>3. ~Pidiendo /\ \A q : ~Camino(q)
  BY <1>2 DEF Pidiendo, Camino, Piden, Ingresa, Ingresan
<1> QED
  BY <1>1, <1>3 DEF Pedidos, Delante

(* What is true of every state of a run in which nothing is suspended.      *)
IInvSinSuspender ==
    IInvCiclo /\ IInvSitio /\ Novatos /\ IInvUso /\ Dormilones /\ IInvSolo /\ Pedidos

LEMMA SinSuspenderAlEmpezar == SolaCpu /\ Init => IInvSinSuspender
<1>1. \A h \in Timers : h # Main /\ h \in Hilos
  BY DEF Hilos, Timers, Timer, Main
<1>2. Init => Dormilones
  BY <1>1 DEF Init, Dormilones
<1>3. Init => Pedidos
  BY DEF Init, Pedidos, Colas
<1> QED
  BY <1>2, <1>3, CicloAlEmpezar, SitioAlEmpezar, UsoAlEmpezar, SoloAlEmpezar DEF IInvSinSuspender

LEMMA SinSuspenderPasoAPaso ==
    ASSUME SolaCpu, Retardo = TRUE, VenceTimer = FALSE, IInvSinSuspender, [Next]_vars
    PROVE  IInvSinSuspender' /\ [Ciclo!Next]_Visto
<1> USE DEF IInvSinSuspender
<1>1. [~AdmiteDosVeces]_vars
  BY NoAdmiteDosVeces
<1>2. [~MuereEnMemoria]_vars
  BY DormidosNoPiden DEF MuereEnMemoria, PasoMuere
<1>3. IInvCiclo' /\ [Ciclo!Next]_Visto
  BY <1>1, CicloPasoAPaso
<1>4. IInvSitio' /\ Novatos'
  BY <1>1, <1>2, SitioPasoAPaso, NovatosDeSiempre
<1>5. IInvUso' /\ Dormilones'
  BY UsoPasoAPaso, DormidosNoMueren, SiguenDormidos
<1>6. IInvSolo' /\ Pedidos'
  BY SoloPasoAPaso, PedidosPasoAPaso
<1> QED
  BY <1>3, <1>4, <1>5, <1>6

(* With one CPU and the program's yield, if TIEMPO_SUSPENSION never elapses *)
(* every step of the kernel is one of the seven-state diagram, and Memoria  *)
(* holds the frames of the processes the kernel believes it holds, with     *)
(* nothing said about the timers or the admissions: no timer is cancelled   *)
(* in a request, and nobody is admitted twice.                              *)
THEOREM AcuerdoSinSuspension ==
    ASSUME SolaCpu, Retardo = TRUE, VenceTimer = FALSE
    PROVE  Spec => CumpleCiclo /\ []MemoriaDeAcuerdo
<1>1. Init => IInvSinSuspender
  BY SinSuspenderAlEmpezar
<1>2. IInvSinSuspender /\ [Next]_vars => IInvSinSuspender' /\ [Ciclo!Next]_Visto
  BY SinSuspenderPasoAPaso
<1>3. IInvSinSuspender => MemoriaDeAcuerdo
  BY SitioBasta DEF IInvSinSuspender
<1>4. Init => Ciclo!Init
  BY DEF Init, Ciclo!Init
<1>5. Spec => [][Ciclo!Next]_Visto
  BY <1>1, <1>2, PTL DEF Spec
<1>6. Spec => []MemoriaDeAcuerdo
  BY <1>1, <1>2, <1>3, PTL DEF Spec
<1> QED
  BY <1>4, <1>5, <1>6, PTL DEF Spec, CumpleCiclo, Ciclo!Spec, Visto

(* Under the same conditions nobody waits in NEW for room there is, once    *)
(* every thread is done: queue_process asked Memoria for the first of the   *)
(* queue when it came to be the first, and each EXIT asks again.            *)
THEOREM AdmisionSinSuspension ==
    ASSUME SolaCpu, Retardo = TRUE, VenceTimer = FALSE
    PROVE  Spec => []AdmisionCompleta
<1>1. Init => IInvSinSuspender
  BY SinSuspenderAlEmpezar
<1>2. IInvSinSuspender /\ [Next]_vars => IInvSinSuspender'
  BY SinSuspenderPasoAPaso
<1>3. IInvSinSuspender => AdmisionCompleta
  BY PedidosBasta DEF IInvSinSuspender, IInvUso
<1> QED
  BY <1>1, <1>2, <1>3, PTL DEF Spec
==============================================================================
