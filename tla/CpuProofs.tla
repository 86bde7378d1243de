------------------------------ MODULE CpuProofs ------------------------------
(***************************************************************************)
(* Proofs about Cpu, for any number of processes, frames, entries of the   *)
(* TLB and of the cache, and any texts.  First, lemmas about Reemplazo:    *)
(* what the replacement algorithms choose is an entry in use, and what     *)
(* they do to the entries keeps their types and puts a page where it was   *)
(* asked for.                                                              *)
(***************************************************************************)
EXTENDS Cpu, MemoriaProofs, SequenceTheorems, WellFoundedInduction, TLAPS

(* A set of natural numbers has a least one.                                *)
Menor == { par \in Nat \X Nat : par[1] < par[2] }

LEMMA MenorBienFundada == IsWellFoundedOn(Menor, Nat)
BY NatLessThanWellFounded DEF OpToRel, Menor

LEMMA MinimoNat ==
    ASSUME NEW T \in SUBSET Nat, T # {}
    PROVE  \E x \in T : \A y \in T : x <= y
<1>1. PICK x \in T : \A y \in T : ~ (<<y, x>> \in Menor)
  BY MenorBienFundada, WFMin
<1>2. \A y \in T : ~ (y < x)
  BY <1>1 DEF Menor
<1> QED
  BY <1>2

LEMMA ElementoDe ==
    ASSUME NEW S, NEW s \in Seq(S), NEW e \in DOMAIN s
    PROVE  s[e] \in S /\ e \in 1..Len(s)
OBVIOUS

LEMMA ComoSucesion ==
    ASSUME NEW S, NEW n \in Nat, NEW f \in [1..n -> S]
    PROVE  f \in Seq(S) /\ Len(f) = n
OBVIOUS

(* An entry of a set of entries minimises what a natural number says of it. *)
LEMMA EntradaMinima ==
    ASSUME NEW S, S # {}, NEW f, \A e \in S : f[e] \in Nat
    PROVE  \E e \in S : \A d \in S : f[e] <= f[d]
<1> DEFINE T == { f[e] : e \in S }
<1>1. T \in SUBSET Nat /\ T # {}
  OBVIOUS
<1>2. PICK x \in T : \A y \in T : x <= y
  BY <1>1, MinimoNat
<1> QED
  BY <1>2

(* The searches find the page they look for.                                *)
LEMMA EntradaDePagina ==
    ASSUME NEW S, NEW m, m.entradas \in Seq(S), NEW pagina, Esta(m, pagina)
    PROVE  /\ EntradaDe(m, pagina) \in DOMAIN m.entradas
           /\ m.entradas[EntradaDe(m, pagina)].pagina = pagina
<1>1. EntradasCon(m, pagina) \in SUBSET Nat /\ EntradasCon(m, pagina) # {}
  BY DEF Esta, EntradasCon
<1>2. \E e \in EntradasCon(m, pagina) : \A f \in EntradasCon(m, pagina) : e <= f
  BY <1>1, MinimoNat
<1>3. EntradaDe(m, pagina) \in EntradasCon(m, pagina)
  BY <1>2 DEF EntradaDe
<1> QED
  BY <1>3 DEF EntradasCon

LEMMA AvanzarPuntero ==
    ASSUME NEW n \in Nat \ {0}, NEW puntero \in Nat
    PROVE  Avanzar(puntero, n) \in Puntero(n)
BY DEF Avanzar, Puntero

-----------------------------------------------------------------------------
(* The TLB.                                                                 *)
LEMMA RejuvenecerTipo ==
    ASSUME NEW M, NEW entradas \in Seq(EntradaTlb(M)), NEW e \in DOMAIN entradas
    PROVE  /\ Rejuvenecer(entradas, e) \in Seq(EntradaTlb(M))
           /\ DOMAIN Rejuvenecer(entradas, e) = DOMAIN entradas
           /\ Len(Rejuvenecer(entradas, e)) = Len(entradas)
           /\ \A j \in DOMAIN entradas :
                 /\ Rejuvenecer(entradas, e)[j].pagina = entradas[j].pagina
                 /\ Rejuvenecer(entradas, e)[j].marco = entradas[j].marco
<1> DEFINE rango(j) == IF j = e THEN Len(entradas)
                       ELSE IF entradas[j].rango > entradas[e].rango
                            THEN entradas[j].rango - 1 ELSE entradas[j].rango
           nuevas == [j \in DOMAIN entradas |-> [entradas[j] EXCEPT !.rango = rango(j)]]
<1>1. Rejuvenecer(entradas, e) = nuevas
  BY DEF Rejuvenecer
<1>2. \A j \in DOMAIN entradas : entradas[j] \in EntradaTlb(M)
  OBVIOUS
<1>3. \A j \in DOMAIN entradas : rango(j) \in Nat
  BY <1>2 DEF EntradaTlb
<1> HIDE DEF rango
<1>4. \A j \in DOMAIN entradas :
        /\ nuevas[j] \in EntradaTlb(M)
        /\ nuevas[j].pagina = entradas[j].pagina
        /\ nuevas[j].marco = entradas[j].marco
  BY <1>2, <1>3 DEF EntradaTlb
<1>5. nuevas \in Seq(EntradaTlb(M)) /\ Len(nuevas) = Len(entradas)
  <2>1. nuevas = [j \in DOMAIN entradas |-> nuevas[j]]
    OBVIOUS
  <2> HIDE DEF nuevas
  <2>2. nuevas \in [1..Len(entradas) -> EntradaTlb(M)]
    BY <1>4, <2>1
  <2> QED
    BY <2>2, ComoSucesion
<1> QED
  BY <1>1, <1>4, <1>5

LEMMA VictimaTlbEnUso ==
    ASSUME NEW M, NEW n \in Nat \ {0}, NEW t \in Tlbs(n, M), Llena(t, n), NEW algoritmo
    PROVE  VictimaTlb(t, algoritmo) \in DOMAIN t.entradas
<1>1. DOMAIN t.entradas = 1..n /\ t.puntero \in 1..n
  BY DEF Tlbs, Llena, Puntero
<1>2. \A e \in DOMAIN t.entradas : t.entradas[e].rango \in Nat
  <2>1. t.entradas \in Seq(EntradaTlb(M))
    BY DEF Tlbs
  <2>2. \A e \in DOMAIN t.entradas : t.entradas[e] \in EntradaTlb(M)
    BY <2>1, ElementoDe
  <2> QED
    BY <2>2 DEF EntradaTlb
<1> DEFINE f == [e \in DOMAIN t.entradas |-> t.entradas[e].rango]
<1>3. \E e \in DOMAIN t.entradas : \A d \in DOMAIN t.entradas : f[e] <= f[d]
  <2>1. DOMAIN t.entradas # {} /\ \A e \in DOMAIN t.entradas : f[e] \in Nat
    BY <1>1, <1>2
  <2> HIDE DEF f
  <2> QED
    BY <2>1, EntradaMinima
<1> QED
  BY <1>1, <1>3 DEF VictimaTlb

(* A page that is added is there with its frame, and what else is there was *)
(* there before.                                                            *)
LEMMA AgregarATlbTipo ==
    ASSUME NEW M, NEW n \in Nat \ {0}, NEW t \in Tlbs(n, M), NEW algoritmo,
           NEW pagina \in Nat, NEW marco \in M,
           NEW r, r = AgregarATlb(t, n, algoritmo, pagina, marco)
    PROVE  /\ r \in Tlbs(n, M)
           /\ \E e \in DOMAIN r.entradas :
                /\ r.entradas[e].pagina = pagina
                /\ r.entradas[e].marco = marco
                /\ \A j \in DOMAIN r.entradas \ {e} :
                     /\ j \in DOMAIN t.entradas
                     /\ r.entradas[j].pagina = t.entradas[j].pagina
                     /\ r.entradas[j].marco = t.entradas[j].marco
<1>0. t.entradas \in Seq(EntradaTlb(M)) /\ Len(t.entradas) <= n /\ t.puntero \in 1..n
      /\ t = [entradas |-> t.entradas, puntero |-> t.puntero]
  BY DEF Tlbs, Puntero
<1>1. CASE ~Llena(t, n)
  <2> DEFINE nueva == [pagina |-> pagina, marco |-> marco, rango |-> Len(t.entradas) + 1]
  <2>1. r.entradas = Append(t.entradas, nueva) /\ r.puntero = t.puntero
        /\ r = [entradas |-> Append(t.entradas, nueva), puntero |-> t.puntero]
    BY <1>0, <1>1 DEF AgregarATlb
  <2>2. nueva \in EntradaTlb(M)
    BY <1>0 DEF EntradaTlb
  <2>6. nueva.pagina = pagina /\ nueva.marco = marco
    OBVIOUS
  <2> HIDE DEF nueva
  <2>3. /\ r.entradas \in Seq(EntradaTlb(M))
        /\ Len(r.entradas) = Len(t.entradas) + 1
        /\ \A j \in 1..Len(t.entradas) : r.entradas[j] = t.entradas[j]
        /\ r.entradas[Len(t.entradas) + 1] = nueva
    BY <1>0, <2>1, <2>2, AppendProperties
  <2>4. Len(t.entradas) + 1 <= n
    BY <1>0, <1>1 DEF Llena
  <2>5. r \in Tlbs(n, M)
    BY <1>0, <2>1, <2>3, <2>4 DEF Tlbs, Puntero
  <2>7. DOMAIN r.entradas = 1..(Len(t.entradas) + 1) /\ DOMAIN t.entradas = 1..Len(t.entradas)
    BY <1>0, <2>3
  <2>8. Len(t.entradas) \in Nat
    BY <1>0
  <2>9. PICK d \in DOMAIN r.entradas : d = Len(t.entradas) + 1
    <3>1. Len(t.entradas) + 1 \in 1..(Len(t.entradas) + 1)
      BY <2>8
    <3> QED
      BY <2>7, <3>1
  <2>10. DOMAIN r.entradas \ {d} = DOMAIN t.entradas
    BY <2>7, <2>8, <2>9
  <2>11. r.entradas[d].pagina = pagina /\ r.entradas[d].marco = marco
    BY <2>3, <2>6, <2>9
  <2>12. \A j \in DOMAIN t.entradas : r.entradas[j] = t.entradas[j]
    BY <2>3, <2>7
  <2> QED
    BY <2>5, <2>10, <2>11, <2>12
<1>2. CASE Llena(t, n)
  <2> DEFINE e == VictimaTlb(t, algoritmo)
             nueva == [pagina |-> pagina, marco |-> marco, rango |-> t.entradas[e].rango]
             cambiada == [t.entradas EXCEPT ![e] = nueva]
             puntero == IF algoritmo = "FIFO" THEN Avanzar(t.puntero, n) ELSE t.puntero
  <2>1. e \in DOMAIN t.entradas
    BY <1>2, VictimaTlbEnUso
  <2>2. r = [entradas |-> Rejuvenecer(cambiada, e), puntero |-> puntero]
    BY <1>2 DEF AgregarATlb
  <2>3. nueva \in EntradaTlb(M)
    <3>1. t.entradas[e] \in EntradaTlb(M)
      BY <1>0, <2>1, ElementoDe
    <3> QED
      BY <3>1 DEF EntradaTlb
  <2>4. puntero \in Puntero(n)
    BY <1>0, AvanzarPuntero DEF Puntero
  <2>8. nueva.pagina = pagina /\ nueva.marco = marco
    OBVIOUS
  <2> HIDE DEF e, nueva, puntero
  <2>5. /\ cambiada \in Seq(EntradaTlb(M))
        /\ Len(cambiada) = Len(t.entradas)
        /\ DOMAIN cambiada = DOMAIN t.entradas
        /\ \A j \in DOMAIN t.entradas : cambiada[j] = IF j = e THEN nueva ELSE t.entradas[j]
    BY <1>0, <2>1, <2>3, ExceptSeq
  <2> HIDE DEF cambiada
  <2>6. /\ Rejuvenecer(cambiada, e) \in Seq(EntradaTlb(M))
        /\ DOMAIN Rejuvenecer(cambiada, e) = DOMAIN t.entradas
        /\ Len(Rejuvenecer(cambiada, e)) = Len(t.entradas)
        /\ \A j \in DOMAIN t.entradas :
             /\ Rejuvenecer(cambiada, e)[j].pagina = cambiada[j].pagina
             /\ Rejuvenecer(cambiada, e)[j].marco = cambiada[j].marco
    BY <2>1, <2>5, RejuvenecerTipo
  <2>7. r \in Tlbs(n, M)
    BY <1>0, <2>2, <2>4, <2>6 DEF Tlbs
  <2>9. r.entradas = Rejuvenecer(cambiada, e)
    BY <2>2
  <2>10. \A j \in DOMAIN t.entradas :
            /\ r.entradas[j].pagina = cambiada[j].pagina
            /\ r.entradas[j].marco = cambiada[j].marco
    BY <2>6, <2>9
  <2>11. e \in DOMAIN r.entradas /\ DOMAIN r.entradas = DOMAIN t.entradas
    BY <2>1, <2>6, <2>9
  <2>12. r.entradas[e].pagina = pagina /\ r.entradas[e].marco = marco
    BY <2>1, <2>5, <2>8, <2>10
  <2>13. \A j \in DOMAIN t.entradas \ {e} :
            /\ r.entradas[j].pagina = t.entradas[j].pagina
            /\ r.entradas[j].marco = t.entradas[j].marco
    BY <2>5, <2>10
  <2> QED
    BY <2>7, <2>11, <2>12, <2>13
<1> QED
  BY <1>1, <1>2

-----------------------------------------------------------------------------
(* The cache.                                                               *)

(* The hand of the clock reaches some entry of a set first.                 *)
LEMMA MasCercanaElige ==
    ASSUME NEW Q, NEW n \in Nat \ {0}, NEW c \in Caches(n, Q), Llena(c, n),
           NEW S \in SUBSET DOMAIN c.entradas, S # {}
    PROVE  MasCercana(c, S) \in S
<1>1. DOMAIN c.entradas = 1..n /\ c.puntero \in 1..n /\ Len(c.entradas) = n
  BY DEF Caches, Llena, Puntero
<1> DEFINE f == [e \in DOMAIN c.entradas |-> Distancia(c, e)]
<1>2. \A e \in S : f[e] \in Nat
  BY <1>1 DEF Distancia
<1>3. \A e \in S : f[e] = Distancia(c, e)
  OBVIOUS
<1> HIDE DEF f
<1>4. \E e \in S : \A d \in S : f[e] <= f[d]
  BY <1>2, EntradaMinima
<1>5. \E e \in S : \A d \in S : Distancia(c, e) <= Distancia(c, d)
  BY <1>3, <1>4
<1> QED
  BY <1>5 DEF MasCercana

LEMMA VictimaCacheEnUso ==
    ASSUME NEW Q, NEW n \in Nat \ {0}, NEW c \in Caches(n, Q), Llena(c, n), NEW algoritmo
    PROVE  VictimaCache(c, algoritmo) \in DOMAIN c.entradas
<1>1. c.puntero \in DOMAIN c.entradas
  BY DEF Caches, Llena, Puntero
<1>2. VictimaClock(c) \in DOMAIN c.entradas
  <2>1. NoUsadas(c) \in SUBSET DOMAIN c.entradas
    BY DEF NoUsadas
  <2> QED
    BY <1>1, <2>1, MasCercanaElige DEF VictimaClock
<1>3. VictimaClockM(c) \in DOMAIN c.entradas
  <2>1. LimpiasNoUsadas(c) \in SUBSET DOMAIN c.entradas
    BY DEF LimpiasNoUsadas, NoUsadas
  <2>2. NoModificadas(c) \in SUBSET DOMAIN c.entradas
    BY DEF NoModificadas
  <2>3. LimpiasNoUsadas(c) # {} => MasCercana(c, LimpiasNoUsadas(c)) \in DOMAIN c.entradas
    BY <2>1, MasCercanaElige
  <2>4. NoModificadas(c) # {} => MasCercana(c, NoModificadas(c)) \in DOMAIN c.entradas
    BY <2>2, MasCercanaElige
  <2> QED
    BY <1>1, <1>2, <2>3, <2>4 DEF VictimaClockM
<1> QED
  BY <1>2, <1>3 DEF VictimaCache

(* A page that is added is there, not modified, in a free entry or in the   *)
(* victim's, and the others stay as they were but for their bit_uso.        *)
Agregada(c, r, e, pagina, texto) ==
    /\ r.entradas[e].pagina = pagina
    /\ r.entradas[e].contenido = texto
    /\ ~r.entradas[e].modificado
    /\ DOMAIN c.entradas \subseteq DOMAIN r.entradas
    /\ \A j \in DOMAIN r.entradas \ {e} :
         /\ j \in DOMAIN c.entradas
         /\ r.entradas[j].pagina = c.entradas[j].pagina
         /\ r.entradas[j].contenido = c.entradas[j].contenido
         /\ r.entradas[j].modificado = c.entradas[j].modificado

LEMMA AgregarACacheTipo ==
    ASSUME NEW Q, NEW n \in Nat \ {0}, NEW c \in Caches(n, Q), NEW algoritmo,
           NEW pagina \in Nat, NEW texto \in Q,
           NEW r, r = AgregarACache(c, n, algoritmo, pagina, texto)
    PROVE  /\ r \in Caches(n, Q)
           /\ \E e \in DOMAIN r.entradas :
                /\ Agregada(c, r, e, pagina, texto)
                /\ IF Llena(c, n) THEN e = VictimaCache(c, algoritmo)
                                  ELSE e \notin DOMAIN c.entradas
<1> DEFINE nueva == [pagina |-> pagina, contenido |-> texto,
                     uso |-> TRUE, modificado |-> FALSE]
<1>0. c.entradas \in Seq(EntradaCache(Q)) /\ Len(c.entradas) <= n /\ c.puntero \in 1..n
      /\ c = [entradas |-> c.entradas, puntero |-> c.puntero]
  BY DEF Caches, Puntero
<1>1. nueva \in EntradaCache(Q)
  BY DEF EntradaCache
<1>2. nueva.pagina = pagina /\ nueva.contenido = texto /\ ~nueva.modificado
  OBVIOUS
<1>3. CASE ~Llena(c, n)
  <2>1. r = [entradas |-> Append(c.entradas, nueva), puntero |-> c.puntero]
    BY <1>0, <1>3 DEF AgregarACache
  <2>2. r.entradas = Append(c.entradas, nueva) /\ r.puntero = c.puntero
    BY <2>1
  <2> HIDE DEF nueva
  <2>3. /\ r.entradas \in Seq(EntradaCache(Q))
        /\ Len(r.entradas) = Len(c.entradas) + 1
        /\ \A j \in 1..Len(c.entradas) : r.entradas[j] = c.entradas[j]
        /\ r.entradas[Len(c.entradas) + 1] = nueva
    BY <1>0, <1>1, <2>2, AppendProperties
  <2>4. Len(c.entradas) + 1 <= n
    BY <1>0, <1>3 DEF Llena
  <2>5. r \in Caches(n, Q)
    BY <1>0, <2>1, <2>2, <2>3, <2>4 DEF Caches, Puntero
  <2>6. DOMAIN r.entradas = 1..(Len(c.entradas) + 1) /\ DOMAIN c.entradas = 1..Len(c.entradas)
    BY <1>0, <2>3
  <2>7. \A j \in DOMAIN r.entradas \ {Len(c.entradas) + 1} :
          j \in DOMAIN c.entradas /\ r.entradas[j] = c.entradas[j]
    BY <1>0, <2>3, <2>6
  <2>8. /\ Len(c.entradas) + 1 \in DOMAIN r.entradas
        /\ Len(c.entradas) + 1 \notin DOMAIN c.entradas
        /\ DOMAIN c.entradas \subseteq DOMAIN r.entradas
    BY <1>0, <2>6
  <2> QED
    BY <1>2, <1>3, <2>3, <2>5, <2>7, <2>8 DEF Agregada
<1>4. CASE Llena(c, n)
  <2> DEFINE v == VictimaCache(c, algoritmo)
             otras == TrasElegir(c, algoritmo).entradas
             puntero == Avanzar(v, Len(c.entradas))
  <2>1. v \in DOMAIN c.entradas
    BY <1>4, VictimaCacheEnUso
  <2>2. puntero \in Puntero(n)
    BY <1>0, <1>4, <2>1, AvanzarPuntero DEF Llena
  <2>3. /\ DOMAIN otras = DOMAIN c.entradas
        /\ \A j \in DOMAIN c.entradas :
             otras[j] = [c.entradas[j] EXCEPT !.uso = @ /\ j \notin PierdenUso(c, algoritmo)]
    BY DEF TrasElegir
  <2>4. TrasElegir(c, algoritmo) = [entradas |-> otras, puntero |-> puntero]
    BY DEF TrasElegir
  <2>14. r = [TrasElegir(c, algoritmo) EXCEPT !.entradas[v] = nueva]
    BY <1>4 DEF AgregarACache
  <2>6. \A j \in DOMAIN c.entradas : c.entradas[j] \in EntradaCache(Q)
    BY <1>0, ElementoDe
  <2>7. \A j \in DOMAIN c.entradas :
          /\ otras[j] \in EntradaCache(Q)
          /\ otras[j].pagina = c.entradas[j].pagina
          /\ otras[j].contenido = c.entradas[j].contenido
          /\ otras[j].modificado = c.entradas[j].modificado
    <3> HIDE DEF otras, v, puntero, nueva
    <3>1. TAKE j \in DOMAIN c.entradas
    <3> DEFINE x == c.entradas[j]
    <3>2. x \in EntradaCache(Q)
      BY <2>6
    <3>3. otras[j] = [x EXCEPT !.uso = x.uso /\ j \notin PierdenUso(c, algoritmo)]
      BY <2>3
    <3> HIDE DEF x
    <3>4. /\ x.pagina \in Nat /\ x.contenido \in Q /\ x.modificado \in BOOLEAN
          /\ x = [pagina |-> x.pagina, contenido |-> x.contenido,
                  uso |-> x.uso, modificado |-> x.modificado]
      BY <3>2 DEF EntradaCache
    <3>5. otras[j] = [pagina |-> x.pagina, contenido |-> x.contenido,
                      uso |-> (x.uso /\ j \notin PierdenUso(c, algoritmo)),
                      modificado |-> x.modificado]
      BY <3>3, <3>4
    <3>6. otras[j] \in EntradaCache(Q)
      BY <3>4, <3>5 DEF EntradaCache
    <3> QED
      BY <3>5, <3>6 DEF x
  <2>8. otras = [j \in DOMAIN c.entradas |-> otras[j]]
    BY DEF TrasElegir
  <2>13. v = VictimaCache(c, algoritmo)
    OBVIOUS
  <2> HIDE DEF otras, v, puntero, nueva
  <2>5. r = [entradas |-> [otras EXCEPT ![v] = nueva], puntero |-> puntero]
    BY <2>4, <2>14
  <2>9. otras \in Seq(EntradaCache(Q)) /\ Len(otras) = Len(c.entradas)
    <3>1. otras \in [1..Len(c.entradas) -> EntradaCache(Q)]
      BY <1>0, <2>7, <2>8
    <3> QED
      BY <1>0, <3>1, ComoSucesion
  <2>10. /\ r.entradas = [otras EXCEPT ![v] = nueva]
         /\ r.puntero = puntero
    BY <2>5
  <2>11. /\ r.entradas \in Seq(EntradaCache(Q))
         /\ Len(r.entradas) = Len(c.entradas)
         /\ DOMAIN r.entradas = DOMAIN c.entradas
         /\ \A j \in DOMAIN c.entradas : r.entradas[j] = IF j = v THEN nueva ELSE otras[j]
    BY <1>0, <1>1, <2>1, <2>3, <2>9, <2>10, ExceptSeq
  <2>12. r \in Caches(n, Q)
    BY <1>0, <2>2, <2>5, <2>10, <2>11 DEF Caches
  <2>15. Agregada(c, r, v, pagina, texto)
    BY <1>2, <2>1, <2>7, <2>11 DEF Agregada
  <2> QED
    BY <1>4, <2>1, <2>11, <2>12, <2>13, <2>15
<1> QED
  BY <1>3, <1>4
-----------------------------------------------------------------------------
(* Every translation of a TLB is the one of the page table of the process.  *)
TlbFiel(t) ==
    \A e \in DOMAIN t.entradas :
        /\ t.entradas[e].pagina \in DOMAIN tabla[pid]
        /\ t.entradas[e].marco = tabla[pid][t.entradas[e].pagina]

PaginasPropias(c) == \A e \in DOMAIN c.entradas : c.entradas[e].pagina \in DOMAIN tabla[pid]

(* The inductive invariant: between two processes nothing is left, and a    *)
(* process on the CPU is in memory and its small memories hold its pages.   *)
IInvCpu ==
    /\ IInv
    /\ TypeOKCpu
    /\ pid = Nadie => tlb = Vacia /\ cache = Vacia /\ guardando = 0
    /\ pid # Nadie => pid \in conTabla /\ TlbFiel(tlb) /\ PaginasPropias(cache)

(* What the lemmas about an instruction start from.                         *)
EnCpu == IInvCpu /\ pid # Nadie

LEMMA TiposEnCpu ==
    ASSUME EnCpu
    PROVE  /\ pid \in Procs
           /\ pid \in conTabla
           /\ config.entradasTlb \in Nat
           /\ config.entradasCache \in Nat
           /\ tabla[pid] \in Seq(Marco)
           /\ contenido \in [Marco -> Pagina]
           /\ tlb \in Tlbs(config.entradasTlb, Marco)
           /\ cache \in Caches(config.entradasCache, Pagina)
           /\ TlbFiel(tlb)
           /\ PaginasPropias(cache)
<1>1. pid \in Procs /\ config \in Configs
  BY DEF EnCpu, IInvCpu, TypeOKCpu
<1>2. config.entradasTlb \in Nat /\ config.entradasCache \in Nat
  BY <1>1, ConfigsAssumption
<1>3. contenido \in [Marco -> Pagina]
  BY ValorAssumption DEF EnCpu, IInvCpu, IInv, TypeOK
<1>4. tabla[pid] \in Seq(Marco)
  BY <1>1 DEF EnCpu, IInvCpu, IInv, TypeOK
<1> QED
  BY <1>1, <1>2, <1>3, <1>4 DEF EnCpu, IInvCpu, TypeOKCpu

(* obtener_direccion_fisica gives the frame of the page table...            *)
LEMMA MarcoDeTabla ==
    ASSUME NEW M, NEW t \in Tlbs(config.entradasTlb, M), TlbFiel(t), NEW i
    PROVE  MarcoDe(t, i) = tabla[pid][i]
<1>1. CASE Esta(t, i)
  <2>1. t.entradas \in Seq(EntradaTlb(M))
    BY DEF Tlbs
  <2>2. /\ EntradaDe(t, i) \in DOMAIN t.entradas
        /\ t.entradas[EntradaDe(t, i)].pagina = i
    BY <1>1, <2>1, EntradaDePagina
  <2> QED
    BY <1>1, <2>2 DEF MarcoDe, TlbFiel
<1>2. CASE ~Esta(t, i)
  BY <1>2 DEF MarcoDe, MarcoEnTabla
<1> QED
  BY <1>1, <1>2

(* ... and leaves a TLB that still says what the page table says.           *)
LEMMA TlbTrasFiel ==
    ASSUME EnCpu, NEW t \in Tlbs(config.entradasTlb, Marco), TlbFiel(t),
           NEW i \in DOMAIN tabla[pid]
    PROVE  TlbTras(t, i) \in Tlbs(config.entradasTlb, Marco) /\ TlbFiel(TlbTras(t, i))
<1> DEFINE n == config.entradasTlb
           r == TlbTras(t, i)
<1>0. /\ n \in Nat /\ t.entradas \in Seq(EntradaTlb(Marco))
      /\ Len(t.entradas) <= n /\ t.puntero \in Puntero(n)
      /\ t = [entradas |-> t.entradas, puntero |-> t.puntero]
  BY TiposEnCpu DEF Tlbs
<1>1. i \in Nat /\ tabla[pid][i] \in Marco
  BY TiposEnCpu, ElementoDe
<1>2. CASE n = 0
  BY <1>2 DEF TlbTras
<1>3. CASE n # 0 /\ Esta(t, i)
  <2> DEFINE e == EntradaDe(t, i)
             nuevas == Rejuvenecer(t.entradas, e)
  <2>1. e \in DOMAIN t.entradas
    BY <1>0, <1>3, EntradaDePagina
  <2>2. r = [entradas |-> nuevas, puntero |-> t.puntero]
    BY <1>0, <1>3 DEF TlbTras
  <2> HIDE DEF e
  <2>3. /\ nuevas \in Seq(EntradaTlb(Marco))
        /\ DOMAIN nuevas = DOMAIN t.entradas
        /\ Len(nuevas) = Len(t.entradas)
        /\ \A j \in DOMAIN t.entradas : /\ nuevas[j].pagina = t.entradas[j].pagina
                                        /\ nuevas[j].marco = t.entradas[j].marco
    BY <1>0, <2>1, RejuvenecerTipo
  <2> HIDE DEF r, nuevas
  <2>4. r \in Tlbs(n, Marco)
    BY <1>0, <2>2, <2>3 DEF Tlbs
  <2>5. r.entradas = nuevas
    BY <2>2
  <2>6. TlbFiel(r)
    BY <2>3, <2>5 DEF TlbFiel
  <2> QED
    BY <2>4, <2>6 DEF r
<1>4. CASE n # 0 /\ ~Esta(t, i)
  <2>1. r = AgregarATlb(t, n, config.reemplazoTlb, i, tabla[pid][i])
    BY <1>4 DEF TlbTras, MarcoEnTabla
  <2>2. n \in Nat \ {0} /\ t \in Tlbs(n, Marco)
    BY <1>0, <1>4
  <2> HIDE DEF r, n
  <2>3. /\ r \in Tlbs(n, Marco)
        /\ \E e \in DOMAIN r.entradas :
             /\ r.entradas[e].pagina = i
             /\ r.entradas[e].marco = tabla[pid][i]
             /\ \A j \in DOMAIN r.entradas \ {e} :
                  /\ j \in DOMAIN t.entradas
                  /\ r.entradas[j].pagina = t.entradas[j].pagina
                  /\ r.entradas[j].marco = t.entradas[j].marco
    <3>1. PICK m \in Marco : m = tabla[pid][i]
      BY <1>1
    <3>2. PICK algoritmo : algoritmo = config.reemplazoTlb
      OBVIOUS
    <3>3. r = AgregarATlb(t, n, algoritmo, i, m)
      BY <2>1, <3>1, <3>2
    <3>4. i \in Nat
      BY <1>1
    <3> QED
      BY <2>2, <3>1, <3>3, <3>4, AgregarATlbTipo
  <2>4. TlbFiel(r)
    BY <2>3 DEF TlbFiel
  <2> QED
    BY <2>3, <2>4 DEF r, n
<1> QED
  BY <1>2, <1>3, <1>4

LEMMA PaginasEscritas ==
    /\ \A m, q \in Pagina : CopiarTexto(m, q) \in Pagina
    /\ \A q \in Pagina, d \in Nat, t \in Seq(Letra) : Encima(q, d, t) \in Pagina
<1>1. \A m, q \in Pagina : CopiarTexto(m, q) \in Pagina
  BY DEF Pagina, CopiarTexto
<1>2. ASSUME NEW q \in Pagina, NEW d \in Nat, NEW t \in Seq(Letra)
      PROVE  Encima(q, d, t) \in Pagina
  <2>1. ASSUME NEW k \in Posicion, k \in d..(d + Len(t) - 1)
        PROVE  t[k - d + 1] \in Letra
    <3>1. k - d + 1 \in 1..Len(t)
      BY <2>1, TamPaginaAssumption DEF Posicion
    <3> QED
      BY <3>1
  <2> QED
    BY <2>1 DEF Pagina, Encima
<1> QED
  BY <1>1, <1>2
-----------------------------------------------------------------------------
(* A process whose cache is full gives up one of its own pages.             *)
LEMMA SalePropia ==
    ASSUME EnCpu, ConCache, Llena(cache, config.entradasCache)
    PROVE  /\ VictimaCache(cache, config.reemplazoCache) \in DOMAIN cache.entradas
           /\ Sale(cache).pagina \in DOMAIN tabla[pid]
           /\ Sale(cache).contenido \in Pagina
<1> DEFINE e == VictimaCache(cache, config.reemplazoCache)
<1>1. config.entradasCache \in Nat \ {0}
  BY TiposEnCpu DEF ConCache
<1>2. e \in DOMAIN cache.entradas
  BY <1>1, TiposEnCpu, VictimaCacheEnUso
<1>3. cache.entradas \in Seq(EntradaCache(Pagina))
  BY TiposEnCpu DEF Caches
<1>4. cache.entradas[e] \in EntradaCache(Pagina)
  BY <1>2, <1>3, ElementoDe
<1>5. cache.entradas[e].pagina \in DOMAIN tabla[pid]
  BY <1>2, TiposEnCpu DEF PaginasPropias
<1> QED
  BY <1>2, <1>4, <1>5 DEF Sale, EntradaCache

(* What busqueda_cache does to Memoria is at most one write of the process  *)
(* in one of its pages.                                                     *)
LEMMA BuscarEscribe ==
    ASSUME EnCpu, ConCache, NEW i, Buscar(i)
    PROVE  \/ contenido' = contenido /\ escrito' = escrito
           \/ \E j \in DOMAIN tabla[pid], v \in Valor :
                 /\ contenido' = [contenido EXCEPT ![tabla[pid][j]] = v]
                 /\ escrito' = [escrito EXCEPT ![pid] = [@ EXCEPT ![j] = v]]
<1>1. CASE ~Guarda(i)
  BY <1>1 DEF Buscar, ContenidoTrasGuardar
<1>2. CASE Guarda(i)
  <2> DEFINE j == Sale(cache).pagina
             v == CopiarTexto(contenido[tabla[pid][j]], Sale(cache).contenido)
  <2>1. j \in DOMAIN tabla[pid] /\ Sale(cache).contenido \in Pagina
    BY <1>2, SalePropia DEF Guarda
  <2>2. MarcoDe(tlb, j) = tabla[pid][j]
    BY TiposEnCpu, MarcoDeTabla
  <2>3. v \in Valor
    <3>1. tabla[pid][j] \in Marco
      BY <2>1, TiposEnCpu, ElementoDe
    <3>2. contenido[tabla[pid][j]] \in Pagina
      BY <3>1, TiposEnCpu
    <3> QED
      BY <2>1, <3>2, PaginasEscritas, ValorAssumption
  <2>4. contenido' = [contenido EXCEPT ![tabla[pid][j]] = v]
    BY <1>2, <2>2 DEF Buscar, ContenidoTrasGuardar
  <2>5. escrito' = [escrito EXCEPT ![pid] = [@ EXCEPT ![j] = v]]
    BY <1>2, <2>2 DEF Buscar
  <2> HIDE DEF j, v
  <2> QED
    BY <2>1, <2>3, <2>4, <2>5
<1> QED
  BY <1>1, <1>2

(* It leaves a TLB and a cache that are as they have to be.                 *)
LEMMA BuscarDeja ==
    ASSUME EnCpu, ConCache, NEW i \in DOMAIN tabla[pid], NEW c \in CachesTrasBuscar(i)
    PROVE  /\ TlbTrasBuscar(i) \in Tlbs(config.entradasTlb, Marco)
           /\ TlbFiel(TlbTrasBuscar(i))
           /\ c \in Caches(config.entradasCache, Pagina)
           /\ PaginasPropias(c)
<1> DEFINE n == config.entradasCache
<1>0. /\ n \in Nat \ {0} /\ cache \in Caches(n, Pagina)
      /\ cache.entradas \in Seq(EntradaCache(Pagina))
      /\ cache = [entradas |-> cache.entradas, puntero |-> cache.puntero]
      /\ PaginasPropias(cache)
  BY TiposEnCpu DEF ConCache, Caches
<1>1. TlbTrasGuardar(i) \in Tlbs(config.entradasTlb, Marco) /\ TlbFiel(TlbTrasGuardar(i))
  <2>1. CASE Guarda(i)
    <3>1. Sale(cache).pagina \in DOMAIN tabla[pid]
      BY <2>1, SalePropia DEF Guarda
    <3> QED
      BY <2>1, <3>1, TlbTrasFiel, TiposEnCpu DEF TlbTrasGuardar
  <2>2. CASE ~Guarda(i)
    BY <2>2, TiposEnCpu DEF TlbTrasGuardar
  <2> QED
    BY <2>1, <2>2
<1>2. TlbTrasBuscar(i) \in Tlbs(config.entradasTlb, Marco) /\ TlbFiel(TlbTrasBuscar(i))
  BY <1>1, TlbTrasFiel, TiposEnCpu DEF TlbTrasBuscar
<1>3. c \in Caches(n, Pagina) /\ PaginasPropias(c)
  <2>1. CASE Esta(cache, i)
    <3> DEFINE e == EntradaDe(cache, i)
               usada == [cache.entradas[e] EXCEPT !.uso = TRUE]
               nuevas == [cache.entradas EXCEPT ![e] = usada]
    <3>1. e \in DOMAIN cache.entradas
      BY <1>0, <2>1, EntradaDePagina
    <3>2. c = [entradas |-> nuevas, puntero |-> cache.puntero]
      BY <1>0, <2>1 DEF CachesTrasBuscar
    <3>3. usada \in EntradaCache(Pagina) /\ usada.pagina = cache.entradas[e].pagina
      <4>1. cache.entradas[e] \in EntradaCache(Pagina)
        BY <1>0, <3>1, ElementoDe
      <4> QED
        BY <4>1 DEF EntradaCache
    <3> HIDE DEF e, usada
    <3>4. /\ nuevas \in Seq(EntradaCache(Pagina))
          /\ Len(nuevas) = Len(cache.entradas)
          /\ DOMAIN nuevas = DOMAIN cache.entradas
          /\ \A j \in DOMAIN cache.entradas :
                nuevas[j] = IF j = e THEN usada ELSE cache.entradas[j]
      BY <1>0, <3>1, <3>3, ExceptSeq
    <3>5. c.entradas = nuevas /\ c.puntero = cache.puntero
      BY <3>2
    <3> HIDE DEF nuevas
    <3>6. c \in Caches(n, Pagina)
      BY <1>0, <3>2, <3>4 DEF Caches
    <3>7. PaginasPropias(c)
      BY <1>0, <3>1, <3>3, <3>4, <3>5 DEF PaginasPropias
    <3> QED
      BY <3>6, <3>7
  <2>2. CASE ~Esta(cache, i)
    <3>1. PICK q \in Pagina : c = AgregarACache(cache, n, config.reemplazoCache, i, q)
      BY <2>2 DEF CachesTrasBuscar, PaginasLeidas
    <3>2. i \in Nat
      BY TiposEnCpu
    <3> HIDE DEF n
    <3>3. PICK algoritmo : algoritmo = config.reemplazoCache
      OBVIOUS
    <3>5. PICK k \in Caches(n, Pagina) : k = cache
      BY <1>0
    <3>6. c = AgregarACache(k, n, algoritmo, i, q)
      BY <3>1, <3>3, <3>5
    <3>7. n \in Nat \ {0}
      BY <1>0
    <3>8. /\ c \in Caches(n, Pagina)
          /\ \E e \in DOMAIN c.entradas : Agregada(k, c, e, i, q)
      BY <3>2, <3>6, <3>7, AgregarACacheTipo
    <3>4. PaginasPropias(c)
      BY <1>0, <3>5, <3>8 DEF PaginasPropias, Agregada
    <3> QED
      BY <3>4, <3>8
  <2> QED
    BY <2>1, <2>2
<1> QED
  BY <1>2, <1>3
-----------------------------------------------------------------------------
(* What the CPU's own state has to be, apart from Memoria's.                *)
CpuBien ==
    /\ TypeOKCpu
    /\ pid = Nadie => tlb = Vacia /\ cache = Vacia /\ guardando = 0
    /\ pid # Nadie => pid \in conTabla /\ TlbFiel(tlb) /\ PaginasPropias(cache)

LEMMA UnaEscritura ==
    ASSUME EnCpu, Sigue, NEW j \in DOMAIN tabla[pid], NEW v \in Valor,
           contenido' = [contenido EXCEPT ![tabla[pid][j]] = v],
           escrito' = [escrito EXCEPT ![pid] = [@ EXCEPT ![j] = v]],
           UNCHANGED Memoria_sin_contenido
    PROVE  [Next]_vars
<1>1. pid \in Procs /\ pid \in conTabla
  BY TiposEnCpu
<1>2. WriteMemory(pid, j, v)
  BY <1>1 DEF WriteMemory, Sigue, Memoria_sin_contenido
<1> QED
  BY <1>1, <1>2 DEF Next

LEMMA NadaEscrito ==
    ASSUME contenido' = contenido, escrito' = escrito, UNCHANGED Memoria_sin_contenido
    PROVE  [Next]_vars
BY DEF Memoria_sin_contenido, vars

LEMMA BuscarPaso ==
    ASSUME EnCpu, Sigue, ConCache, NEW i, Buscar(i), UNCHANGED Memoria_sin_contenido
    PROVE  [Next]_vars
BY BuscarEscribe, UnaEscritura, NadaEscrito

LEMMA LeerPaso ==
    ASSUME IInvCpu, NEW i, Leer(i)
    PROVE  [Next]_vars /\ CpuBien'
<1>0. EnCpu /\ Sigue /\ i \in DOMAIN tabla[pid]
  BY DEF Leer, Ejecuta, EnCpu
<1>1. UNCHANGED Memoria_sin_contenido /\ UNCHANGED <<config, pid, guardando, programa>>
  BY DEF Leer
<1>2. CASE ConCache
  <2>1. Buscar(i) /\ cache' \in CachesTrasBuscar(i)
    BY <1>2 DEF Leer
  <2>2. [Next]_vars
    BY <1>0, <1>1, <1>2, <2>1, BuscarPaso
  <2>3. /\ tlb' \in Tlbs(config.entradasTlb, Marco)
        /\ TlbFiel(tlb')
        /\ cache' \in Caches(config.entradasCache, Pagina)
        /\ PaginasPropias(cache')
    BY <1>0, <1>2, <2>1, BuscarDeja DEF Buscar
  <2>4. desbordo' \in BOOLEAN
    BY <2>1 DEF Buscar, DesbordaAlBuscar
  <2> QED
    BY <1>0, <1>1, <2>2, <2>3, <2>4
    DEF CpuBien, EnCpu, IInvCpu, TypeOKCpu, TlbFiel, PaginasPropias, Memoria_sin_contenido
<1>3. CASE ~ConCache
  <2>1. tlb' = TlbTras(tlb, i) /\ UNCHANGED <<contenido, escrito, cache, desbordo>>
    BY <1>3 DEF Leer
  <2>2. [Next]_vars
    BY <1>1, <2>1, NadaEscrito
  <2>3. tlb' \in Tlbs(config.entradasTlb, Marco) /\ TlbFiel(tlb')
    BY <1>0, <2>1, TlbTrasFiel, TiposEnCpu
  <2> QED
    BY <1>0, <1>1, <2>1, <2>2, <2>3
    DEF CpuBien, EnCpu, IInvCpu, TypeOKCpu, TlbFiel, PaginasPropias, Memoria_sin_contenido
<1> QED
  BY <1>2, <1>3

(* escribir_pagina_cache only changes the contents and the bits of a page.  *)
LEMMA ModificadaTipo ==
    ASSUME NEW n, NEW c \in Caches(n, Pagina), NEW i, NEW d \in Nat, NEW t \in Seq(Letra),
           NEW r, r = Modificada(c, i, d, t)
    PROVE  /\ r \in Caches(n, Pagina)
           /\ DOMAIN r.entradas = DOMAIN c.entradas
           /\ \A j \in DOMAIN c.entradas : r.entradas[j].pagina = c.entradas[j].pagina
<1> DEFINE e == EntradaDe(c, i)
           nueva == ConTexto(c.entradas[e], d, t)
           nuevas == [c.entradas EXCEPT ![e] = nueva]
<1>1. /\ c.entradas \in Seq(EntradaCache(Pagina))
      /\ Len(c.entradas) <= n /\ c.puntero \in Puntero(n)
      /\ c = [entradas |-> c.entradas, puntero |-> c.puntero]
  BY DEF Caches
<1>2. r = [entradas |-> nuevas, puntero |-> c.puntero]
  <2>1. r = [c EXCEPT !.entradas[e] = nueva]
    BY DEF Modificada
  <2> HIDE DEF e, nueva
  <2> QED
    BY <1>1, <2>1
<1>3. r.entradas = nuevas
  BY <1>2
<1>4. CASE e \notin DOMAIN c.entradas
  <2>1. nuevas = c.entradas
    BY <1>1, <1>4
  <2>2. r = c
    BY <1>1, <1>2, <2>1
  <2> QED
    BY <2>2
<1>5. CASE e \in DOMAIN c.entradas
  <2>1. c.entradas[e] \in EntradaCache(Pagina)
    BY <1>1, <1>5, ElementoDe
  <2>2. nueva \in EntradaCache(Pagina) /\ nueva.pagina = c.entradas[e].pagina
    BY <2>1, PaginasEscritas DEF EntradaCache, ConTexto
  <2> HIDE DEF e, nueva
  <2>3. /\ nuevas \in Seq(EntradaCache(Pagina))
        /\ Len(nuevas) = Len(c.entradas)
        /\ DOMAIN nuevas = DOMAIN c.entradas
        /\ \A j \in DOMAIN c.entradas : nuevas[j] = IF j = e THEN nueva ELSE c.entradas[j]
    BY <1>1, <1>5, <2>2, ExceptSeq
  <2> HIDE DEF nuevas
  <2>4. r \in Caches(n, Pagina)
    BY <1>1, <1>2, <2>3 DEF Caches
  <2>5. /\ DOMAIN r.entradas = DOMAIN c.entradas
        /\ \A j \in DOMAIN c.entradas : r.entradas[j].pagina = c.entradas[j].pagina
    BY <1>3, <2>2, <2>3
  <2> QED
    BY <2>4, <2>5
<1> QED
  BY <1>4, <1>5

LEMMA EscribirPaso ==
    ASSUME IInvCpu, NEW w \in EscriturasDelProceso, Escribir(w.pagina, w.desde, w.texto)
    PROVE  [Next]_vars /\ CpuBien'
<1> DEFINE i == w.pagina
           d == w.desde
           t == w.texto
<1>0. /\ EnCpu /\ Sigue /\ i \in DOMAIN tabla[pid]
      /\ w \in Escrituras[pid]
  BY DEF Escribir, Ejecuta, EnCpu, EscriturasDelProceso
<1>1. /\ UNCHANGED Memoria_sin_contenido /\ UNCHANGED <<config, pid, guardando>>
      /\ programa' = [programa EXCEPT ![pid] = [@ EXCEPT ![i] =
                         Encima(programa[pid][i], d, t)]]
  BY DEF Escribir
<1>2. pid \in Procs /\ d \in Nat /\ t \in Seq(Letra)
  BY <1>0, TiposEnCpu, EscriturasAssumption, TamPaginaAssumption DEF Posicion
<1>3. programa' \in [Procs -> Seq(Pagina)]
  <2>1. programa \in [Procs -> Seq(Pagina)] /\ programa[pid] \in Seq(Pagina)
    BY <1>0, <1>2 DEF EnCpu, IInvCpu, TypeOKCpu
  <2> DEFINE nueva == Encima(programa[pid][i], d, t)
  <2>2. [programa[pid] EXCEPT ![i] = nueva] \in Seq(Pagina)
    <3>1. CASE i \in DOMAIN programa[pid]
      <4>1. nueva \in Pagina /\ i \in 1..Len(programa[pid])
        BY <1>2, <2>1, <3>1, ElementoDe, PaginasEscritas
      <4> HIDE DEF nueva, i
      <4> QED
        BY <2>1, <4>1, ExceptSeq
    <3>2. CASE i \notin DOMAIN programa[pid]
      <4>1. [programa[pid] EXCEPT ![i] = nueva] = programa[pid]
        BY <2>1, <3>2
      <4> QED
        BY <2>1, <4>1
    <3> QED
      BY <3>1, <3>2
  <2>3. programa' = [programa EXCEPT ![pid] = [programa[pid] EXCEPT ![i] = nueva]]
    BY <1>1
  <2> HIDE DEF nueva, i
  <2> QED
    BY <2>1, <2>2, <2>3
<1>4. CASE ConCache
  <2>1. Buscar(i)
    BY <1>4 DEF Escribir
  <2>2. PICK c \in CachesTrasBuscar(i) : cache' = Modificada(c, i, d, t)
    BY <1>4 DEF Escribir
  <2>3. [Next]_vars
    BY <1>0, <1>1, <1>4, <2>1, BuscarPaso
  <2>4. /\ tlb' \in Tlbs(config.entradasTlb, Marco)
        /\ TlbFiel(tlb')
        /\ c \in Caches(config.entradasCache, Pagina)
        /\ PaginasPropias(c)
    BY <1>0, <1>4, <2>1, BuscarDeja DEF Buscar
  <2>5. cache' \in Caches(config.entradasCache, Pagina) /\ PaginasPropias(cache')
    <3> HIDE DEF i, d, t
    <3>1. PICK r : r = cache'
      OBVIOUS
    <3>2. PICK n : n = config.entradasCache
      OBVIOUS
    <3>4. PICK i0 : i0 = i
      OBVIOUS
    <3>5. PICK d0 \in Nat : d0 = d
      BY <1>2
    <3>6. PICK t0 \in Seq(Letra) : t0 = t
      BY <1>2
    <3>7. r = Modificada(c, i0, d0, t0) /\ c \in Caches(n, Pagina)
      BY <2>2, <2>4, <3>1, <3>2, <3>4, <3>5, <3>6
    <3>3. /\ r \in Caches(n, Pagina)
          /\ DOMAIN r.entradas = DOMAIN c.entradas
          /\ \A j \in DOMAIN c.entradas : r.entradas[j].pagina = c.entradas[j].pagina
      BY <3>7, ModificadaTipo
    <3> QED
      BY <2>4, <3>1, <3>2, <3>3 DEF PaginasPropias
  <2>6. desbordo' \in BOOLEAN
    BY <2>1 DEF Buscar, DesbordaAlBuscar
  <2> QED
    BY <1>0, <1>1, <1>3, <2>3, <2>4, <2>5, <2>6
    DEF CpuBien, EnCpu, IInvCpu, TypeOKCpu, TlbFiel, PaginasPropias, Memoria_sin_contenido
<1>5. CASE ~ConCache
  <2> DEFINE v == Encima(contenido[tabla[pid][i]], d, t)
  <2>1. /\ tlb' = TlbTras(tlb, i) /\ UNCHANGED <<cache, desbordo>>
        /\ contenido' = [contenido EXCEPT ![MarcoDe(tlb, i)] = Encima(@, d, t)]
        /\ escrito' = [escrito EXCEPT ![pid] = [@ EXCEPT ![i] =
                          Encima(contenido[MarcoDe(tlb, i)], d, t)]]
    BY <1>5 DEF Escribir
  <2>2. MarcoDe(tlb, i) = tabla[pid][i]
    BY <1>0, TiposEnCpu, MarcoDeTabla
  <2>3. v \in Valor
    <3>1. contenido[tabla[pid][i]] \in Pagina
      BY <1>0, TiposEnCpu, ElementoDe
    <3> QED
      BY <1>2, <3>1, PaginasEscritas, ValorAssumption
  <2>4. /\ contenido' = [contenido EXCEPT ![tabla[pid][i]] = v]
        /\ escrito' = [escrito EXCEPT ![pid] = [@ EXCEPT ![i] = v]]
    BY <2>1, <2>2
  <2>5. [Next]_vars
    <3> HIDE DEF v, i
    <3> QED
      BY <1>0, <1>1, <2>3, <2>4, UnaEscritura
  <2>6. tlb' \in Tlbs(config.entradasTlb, Marco) /\ TlbFiel(tlb')
    BY <1>0, <2>1, TlbTrasFiel, TiposEnCpu
  <2> QED
    BY <1>0, <1>1, <1>3, <2>1, <2>5, <2>6
    DEF CpuBien, EnCpu, IInvCpu, TypeOKCpu, TlbFiel, PaginasPropias, Memoria_sin_contenido
<1> QED
  BY <1>4, <1>5

LEMMA VaciaTipo ==
    ASSUME config \in Configs
    PROVE  /\ Vacia \in Tlbs(config.entradasTlb, Marco)
           /\ Vacia \in Caches(config.entradasCache, Pagina)
           /\ TlbFiel(Vacia) /\ PaginasPropias(Vacia)
<1>1. config.entradasTlb \in Nat /\ config.entradasCache \in Nat
  BY ConfigsAssumption
<1> QED
  BY <1>1 DEF Vacia, Tlbs, Caches, Puntero, TlbFiel, PaginasPropias

LEMMA GuardarPaso ==
    ASSUME IInvCpu, Guardar
    PROVE  [Next]_vars /\ CpuBien'
<1> DEFINE e == cache.entradas[guardando]
           m == MarcoDe(tlb, e.pagina)
           v == CopiarTexto(contenido[m], e.contenido)
<1>0. /\ Sigue /\ guardando \in DOMAIN cache.entradas /\ guardando' = guardando + 1
      /\ UNCHANGED Memoria_sin_contenido /\ UNCHANGED <<config, pid, cache, programa>>
  BY DEF Guardar
<1>1. EnCpu
  BY <1>0 DEF EnCpu, IInvCpu, Vacia
<1>2. /\ cache.entradas \in Seq(EntradaCache(Pagina))
      /\ Len(cache.entradas) <= config.entradasCache
      /\ config.entradasCache \in Nat
  BY <1>1, TiposEnCpu DEF Caches
<1>3. guardando' \in 0..(config.entradasCache + 1)
  BY <1>0, <1>2
<1>4. e \in EntradaCache(Pagina) /\ e.pagina \in DOMAIN tabla[pid]
  BY <1>0, <1>1, <1>2, ElementoDe, TiposEnCpu DEF PaginasPropias
<1>5. CASE e.modificado
  <2>1. /\ contenido' = [contenido EXCEPT ![m] = CopiarTexto(@, e.contenido)]
        /\ escrito' = [escrito EXCEPT ![pid] = [@ EXCEPT ![e.pagina] = v]]
        /\ tlb' = TlbTras(tlb, e.pagina)
        /\ desbordo' = SinFin(e.contenido)
    BY <1>5 DEF Guardar
  <2>2. m = tabla[pid][e.pagina]
    BY <1>1, TiposEnCpu, MarcoDeTabla
  <2>3. v \in Valor
    <3>1. contenido[m] \in Pagina
      BY <1>1, <1>4, <2>2, TiposEnCpu, ElementoDe
    <3> QED
      BY <1>4, <3>1, PaginasEscritas, ValorAssumption DEF EntradaCache
  <2>4. contenido' = [contenido EXCEPT ![tabla[pid][e.pagina]] = v]
    BY <2>1, <2>2
  <2>5. tlb' \in Tlbs(config.entradasTlb, Marco) /\ TlbFiel(tlb')
    BY <1>1, <1>4, <2>1, TlbTrasFiel, TiposEnCpu
  <2>6. desbordo' \in BOOLEAN
    BY <2>1 DEF SinFin
  <2>7. [Next]_vars
    <3>1. PICK j \in DOMAIN tabla[pid] : j = e.pagina
      BY <1>4
    <3>2. PICK x \in Valor : x = v
      BY <2>3
    <3>3. /\ contenido' = [contenido EXCEPT ![tabla[pid][j]] = x]
          /\ escrito' = [escrito EXCEPT ![pid] = [@ EXCEPT ![j] = x]]
      BY <2>1, <2>4, <3>1, <3>2
    <3> QED
      BY <1>0, <1>1, <3>3, UnaEscritura
  <2> QED
    BY <1>0, <1>1, <1>3, <2>5, <2>6, <2>7
    DEF CpuBien, EnCpu, IInvCpu, TypeOKCpu, TlbFiel, PaginasPropias, Memoria_sin_contenido
<1>6. CASE ~e.modificado
  <2>1. UNCHANGED <<contenido, escrito, tlb, desbordo>>
    BY <1>6 DEF Guardar
  <2>2. [Next]_vars
    BY <1>0, <2>1, NadaEscrito
  <2> QED
    BY <1>0, <1>1, <1>3, <2>1, <2>2
    DEF CpuBien, EnCpu, IInvCpu, TypeOKCpu, TlbFiel, PaginasPropias, Memoria_sin_contenido
<1> QED
  BY <1>5, <1>6

LEMMA RecibirPaso ==
    ASSUME IInvCpu, NEW p \in Procs, Recibir(p)
    PROVE  [Next]_vars /\ CpuBien'
<1>1. /\ pid = Nadie /\ p \in conTabla /\ pid' = p /\ tlb' = Vacia /\ cache' = Vacia
      /\ UNCHANGED <<vars, config, guardando, desbordo, programa>>
  BY DEF Recibir, TlbNueva, CacheNueva
<1>2. /\ Vacia \in Tlbs(config.entradasTlb, Marco)
      /\ Vacia \in Caches(config.entradasCache, Pagina)
      /\ Vacia.entradas = <<>>
  BY VaciaTipo DEF IInvCpu, TypeOKCpu, Vacia
<1>3. TypeOKCpu'
  BY <1>1, <1>2 DEF IInvCpu, TypeOKCpu
<1>4. pid' # Nadie /\ pid' \in conTabla' /\ TlbFiel(tlb)' /\ PaginasPropias(cache)'
  BY <1>1, <1>2, NadieAssumption DEF vars, TlbFiel, PaginasPropias
<1> QED
  BY <1>1, <1>3, <1>4 DEF CpuBien

LEMMA FrenarPaso ==
    ASSUME IInvCpu, Frenar
    PROVE  [Next]_vars /\ CpuBien'
<1>1. /\ pid # Nadie /\ guardando' = 1
      /\ UNCHANGED <<vars, config, pid, tlb, cache, desbordo, programa>>
  BY DEF Frenar
<1>2. config.entradasCache \in Nat
  BY <1>1, TiposEnCpu DEF EnCpu
<1>3. TypeOKCpu'
  BY <1>1, <1>2 DEF IInvCpu, TypeOKCpu
<1>4. TlbFiel(tlb)' /\ PaginasPropias(cache)' /\ pid' \in conTabla'
  BY <1>1 DEF IInvCpu, vars, TlbFiel, PaginasPropias
<1> QED
  BY <1>1, <1>3, <1>4 DEF CpuBien

LEMMA DevolverPaso ==
    ASSUME IInvCpu, Devolver
    PROVE  [Next]_vars /\ CpuBien'
<1>1. /\ pid' = Nadie /\ tlb' = Vacia /\ cache' = Vacia /\ guardando' = 0
      /\ UNCHANGED <<vars, config, desbordo, programa>>
  BY DEF Devolver, TlbNueva, CacheNueva
<1>2. /\ Vacia \in Tlbs(config.entradasTlb, Marco)
      /\ Vacia \in Caches(config.entradasCache, Pagina)
      /\ config.entradasCache \in Nat
  BY VaciaTipo, ConfigsAssumption DEF IInvCpu, TypeOKCpu
<1>3. TypeOKCpu'
  BY <1>1, <1>2 DEF IInvCpu, TypeOKCpu
<1> QED
  BY <1>1, <1>3 DEF CpuBien

(* The kernel admits each process once: none is ever readmitted, and an     *)
(* INIT_PROC is for a process that has never been loaded.                   *)
LEMMA NadieReadmitido == TypeOK => readmitidos = {}
BY UnaAdmisionAssumption DEF TypeOK

LEMMA PrimeraAdmision ==
    ASSUME NEW p, InitProcess(p)
    PROVE  p \notin cargados \cup finalizados
BY UnaAdmisionAssumption DEF InitProcess

(* A request for another process leaves the page table of the one on the    *)
(* CPU as it is.                                                            *)
LEMMA TablaQuieta ==
    ASSUME IInvCpu, NEW p \in Procs,
           \/ InitProcess(p)
           \/ p # pid /\ (SuspendProcess(p) \/ SwapIn(p) \/ DumpProcess(p) \/ FinishProcess(p))
    PROVE  pid # Nadie => pid \in conTabla' /\ tabla'[pid] = tabla[pid]
<1> SUFFICES ASSUME pid # Nadie PROVE pid \in conTabla' /\ tabla'[pid] = tabla[pid]
  OBVIOUS
<1>1. pid \in Procs /\ pid \in conTabla /\ tabla \in [Procs -> Seq(Marco)]
  BY DEF IInvCpu, IInv, TypeOK, TypeOKCpu
<1>2. CASE InitProcess(p)
  <2>1. p # pid
    BY <1>1, <1>2, NadieReadmitido, PrimeraAdmision DEF IInvCpu, IInv, EnMemoriaOEnSwap
  <2>2. PICK nueva : tabla' = [tabla EXCEPT ![p] = nueva]
    BY <1>2 DEF InitProcess
  <2>3. conTabla' = conTabla \cup {p}
    BY <1>2 DEF InitProcess
  <2> QED
    BY <1>1, <2>1, <2>2, <2>3
<1>3. CASE p # pid /\ SuspendProcess(p)
  BY <1>1, <1>3 DEF SuspendProcess
<1>4. CASE p # pid /\ SwapIn(p)
  <2>1. PICK nueva : tabla' = [tabla EXCEPT ![p] = nueva]
    BY <1>4 DEF SwapIn
  <2>2. conTabla' = conTabla \cup {p}
    BY <1>4 DEF SwapIn
  <2> QED
    BY <1>1, <1>4, <2>1, <2>2
<1>5. CASE p # pid /\ DumpProcess(p)
  BY <1>1, <1>5 DEF DumpProcess
<1>6. CASE p # pid /\ FinishProcess(p)
  BY <1>1, <1>6 DEF FinishProcess
<1> QED
  BY <1>2, <1>3, <1>4, <1>5, <1>6

LEMMA KernelPaso ==
    ASSUME IInvCpu, NEW p \in Procs, Cargar(p) \/ Pedir(p) \/ Finalizar(p)
    PROVE  [Next]_vars /\ CpuBien'
<1>1. UNCHANGED <<config, pid, tlb, cache, guardando, desbordo>>
  BY DEF Cargar, Pedir, Finalizar, varsCpu
<1>2. [Next]_vars
  BY DEF Cargar, Pedir, Finalizar, Next
<1>3. pid # Nadie => pid \in conTabla' /\ tabla'[pid] = tabla[pid]
  BY TablaQuieta DEF Cargar, Pedir, Finalizar
<1>4. programa' \in [Procs -> Seq(Pagina)]
  <2>1. programa \in [Procs -> Seq(Pagina)]
    BY DEF IInvCpu, TypeOKCpu
  <2>2. CASE Cargar(p)
    <3> DEFINE nulas == [i \in DOMAIN tabla'[p] |-> PaginaNula]
    <3>1. programa' = [programa EXCEPT ![p] = nulas]
      BY <2>2 DEF Cargar
    <3>2. nulas \in Seq(Pagina)
      <4>1. tabla' \in [Procs -> Seq(Marco)]
        BY <1>2, PasoTipo DEF IInvCpu, IInv, TypeOK
      <4>2. PaginaNula \in Pagina
        BY DEF Pagina, PaginaNula
      <4>3. PICK n \in Nat : DOMAIN tabla'[p] = 1..n
        BY <4>1
      <4>4. nulas \in [1..n -> Pagina]
        BY <4>2, <4>3
      <4> QED
        BY <4>3, <4>4
    <3> HIDE DEF nulas
    <3> QED
      BY <2>1, <3>1, <3>2
  <2>3. CASE Pedir(p)
    BY <2>1, <2>3 DEF Pedir, varsCpu
  <2>4. CASE Finalizar(p)
    <3>1. <<>> \in Seq(Pagina)
      OBVIOUS
    <3> QED
      BY <2>1, <2>4, <3>1 DEF Finalizar
  <2> QED
    BY <2>2, <2>3, <2>4
<1>5. TypeOKCpu'
  BY <1>1, <1>4 DEF IInvCpu, TypeOKCpu
<1>6. pid' # Nadie => pid' \in conTabla' /\ TlbFiel(tlb)' /\ PaginasPropias(cache)'
  BY <1>1, <1>3 DEF IInvCpu, TlbFiel, PaginasPropias
<1> QED
  BY <1>1, <1>2, <1>5, <1>6 DEF CpuBien, IInvCpu

(* Every step of the CPU is a step of Memoria, or none, and leaves the CPU  *)
(* as it has to be.                                                         *)
LEMMA CpuPaso ==
    ASSUME IInvCpu, [NextCpu]_todas
    PROVE  [Next]_vars /\ CpuBien'
<1>1. CASE UNCHANGED todas
  BY <1>1 DEF todas, vars, varsCpu, IInvCpu, CpuBien, TypeOKCpu, TlbFiel, PaginasPropias
<1>2. CASE NextCpu
  <2>1. CASE \E p \in Procs : Recibir(p) \/ Cargar(p) \/ Pedir(p) \/ Finalizar(p)
    BY <2>1, RecibirPaso, KernelPaso
  <2>2. CASE \E i \in PaginasDelProceso : Leer(i)
    BY <2>2, LeerPaso
  <2>3. CASE \E w \in EscriturasDelProceso : Escribir(w.pagina, w.desde, w.texto)
    BY <2>3, EscribirPaso
  <2> QED
    BY <1>2, <2>1, <2>2, <2>3, FrenarPaso, GuardarPaso, DevolverPaso DEF NextCpu
<1> QED
  BY <1>1, <1>2

LEMMA IInvCpuSiempre == SpecCpu => []IInvCpu /\ MemoriaCumple
<1>1. InitCpu => IInvCpu
  <2> SUFFICES ASSUME InitCpu PROVE IInvCpu
    OBVIOUS
  <2>1. IInv
    BY InitTipo DEF InitCpu, Init, IInv, EnMemoriaOEnSwap, MarcosExclusivos,
       ArchivoAcumulado, PaginasHastaPrimerSwapIn, PaginasDe
  <2>2. programa \in [Procs -> Seq(Pagina)]
    <3>1. <<>> \in Seq(Pagina)
      OBVIOUS
    <3> QED
      BY <3>1 DEF InitCpu
  <2>3. config.entradasCache \in Nat /\ config \in Configs
    BY ConfigsAssumption DEF InitCpu
  <2>5. tlb \in Tlbs(config.entradasTlb, Marco) /\ cache \in Caches(config.entradasCache, Pagina)
    BY <2>3, VaciaTipo DEF InitCpu
  <2>6. pid = Nadie /\ guardando = 0 /\ desbordo = FALSE
    BY DEF InitCpu
  <2>4. TypeOKCpu
    <3>1. guardando \in 0..(config.entradasCache + 1)
      BY <2>3, <2>6
    <3>2. desbordo \in BOOLEAN
      BY <2>6
    <3>3. pid \in Procs \cup {Nadie}
      BY <2>6
    <3> QED
      BY <2>2, <2>3, <2>5, <3>1, <3>2, <3>3 DEF TypeOKCpu
  <2> QED
    BY <2>1, <2>4 DEF InitCpu, IInvCpu
<1>2. IInvCpu /\ [NextCpu]_todas => IInvCpu' /\ [Next]_vars
  <2> SUFFICES ASSUME IInvCpu, [NextCpu]_todas PROVE IInvCpu' /\ [Next]_vars
    OBVIOUS
  <2>1. [Next]_vars /\ CpuBien'
    BY CpuPaso
  <2>2. IInv'
    BY <2>1, IInvPaso DEF IInvCpu
  <2> QED
    BY <2>1, <2>2 DEF IInvCpu, CpuBien
<1>3. InitCpu => Init
  BY DEF InitCpu
<1> QED
  BY <1>1, <1>2, <1>3, PTL DEF SpecCpu, MemoriaCumple, Spec
-----------------------------------------------------------------------------
(* The state of the CPU has its type.                                       *)
THEOREM TipoCpu == SpecCpu => []TypeOKCpu
<1>1. IInvCpu => TypeOKCpu
  BY DEF IInvCpu
<1> QED
  BY <1>1, IInvCpuSiempre, PTL

(* Whatever the entries and the algorithm of the TLB, what it translates is *)
(* what the page table of the process on the CPU says.                      *)
THEOREM TlbSiempreAlDia == SpecCpu => []TlbAlDia
<1>1. IInvCpu => TlbAlDia
  BY DEF IInvCpu, TlbAlDia, TlbFiel
<1> QED
  BY <1>1, IInvCpuSiempre, PTL

(* The CPU, its TLB, its cache and their saving make of Memoria only the    *)
(* requests of a process that writes its own pages: what is proved of       *)
(* Memoria holds with CPUs of this kind in front of it.                     *)
THEOREM CpuImplementaMemoria == SpecCpu => MemoriaCumple
  BY IInvCpuSiempre

(* So no frame is in two page tables under them either.                     *)
THEOREM ExclusivosConCpu == SpecCpu => []MarcosExclusivos
<1>1. MemoriaCumple => Spec
  BY DEF MemoriaCumple
<1> QED
  BY <1>1, Exclusivos, CpuImplementaMemoria
=============================================================================
