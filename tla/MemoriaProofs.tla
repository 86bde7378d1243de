---------------------------- MODULE MemoriaProofs ----------------------------
(***************************************************************************)
(* Proofs about Memoria, for any number of frames, processes and values.   *)
(***************************************************************************)
EXTENDS Memoria, SequenceTheorems, TLAPS

(* The frames is_memory_sufficient picks: as many as asked for, all free,   *)
(* none twice.                                                              *)
LEMMA MarcosElegidos ==
    ASSUME NEW ocupados, NEW n \in Nat, NEW lista \in MarcosParaProceso(ocupados, n)
    PROVE  /\ lista \in Seq(Marco)
           /\ Len(lista) = n
           /\ MarcosDe(lista) \cap ocupados = {}
           /\ \A i, j \in DOMAIN lista : lista[i] = lista[j] => i = j
<1>1. /\ lista \in [1..n -> Libres(ocupados)]
      /\ \A i, j \in 1..n : i < j => lista[i] < lista[j]
  BY DEF MarcosParaProceso
<1>2. lista \in Seq(Marco) /\ Len(lista) = n
  BY <1>1 DEF Libres
<1>3. MarcosDe(lista) \cap ocupados = {}
  BY <1>1 DEF MarcosDe, Libres
<1>4. \A i, j \in DOMAIN lista : lista[i] = lista[j] => i = j
  <2> SUFFICES ASSUME NEW i \in 1..n, NEW j \in 1..n, lista[i] = lista[j], i < j
               PROVE  FALSE
    BY <1>1
  <2> lista[i] \in Int
    BY <1>1, CantMarcosAssumption DEF Libres, Marco
  <2> QED
    BY <1>1
<1> QED
  BY <1>2, <1>3, <1>4

(* The page table holds a prefix of the frames, all of them when there is   *)
(* room.                                                                    *)
LEMMA TablaConPrefijo ==
    ASSUME NEW S, NEW marcos \in Seq(S)
    PROVE  /\ TablaCon(marcos) \in Seq(S)
           /\ DOMAIN TablaCon(marcos) \subseteq DOMAIN marcos
           /\ \A i \in DOMAIN TablaCon(marcos) : TablaCon(marcos)[i] = marcos[i]
           /\ Len(marcos) <= PaginasPorTabla => TablaCon(marcos) = marcos
<1> DEFINE n == IF Len(marcos) <= PaginasPorTabla THEN Len(marcos) ELSE PaginasPorTabla
<1>1. n \in Nat /\ { j \in DOMAIN marcos : j <= PaginasPorTabla } = 1..n
  BY PaginasAssumption
<1>2. TablaCon(marcos) = [i \in 1..n |-> marcos[i]]
  BY <1>1 DEF TablaCon
<1>3. 1..n \subseteq DOMAIN marcos
  BY <1>1
<1>4. \A i \in 1..n : marcos[i] \in S
  BY <1>3
<1>5. TablaCon(marcos) \in Seq(S)
  BY <1>1, <1>2, <1>4
<1>6. Len(marcos) <= PaginasPorTabla => TablaCon(marcos) = marcos
  BY <1>2
<1> QED
  BY <1>2, <1>3, <1>5, <1>6

-----------------------------------------------------------------------------
(* Type correctness.  The bounds of the swap file are the delicate part:    *)
(* suspend_process writes where the stream is, which is wherever the last   *)
(* read or write left it, so the position and every offset have to stay in  *)
(* the file together.                                                       *)
LEMMA InitTipo == Init => TypeOK
<1> SUFFICES ASSUME Init PROVE TypeOK
  OBVIOUS
<1>1. posicion \in 0..MaxSwap
  BY MaxSwapAssumption DEF Init
<1>2. contenido \in [Marco -> Valor] /\ archivoSwap \in [Slot -> Valor]
  BY BasuraAssumption DEF Init
<1>3. \A S : <<>> \in Seq(S)
  OBVIOUS
<1>4. /\ tabla \in [Procs -> Seq(Marco)]
      /\ offsets \in [Procs -> Seq(Slot)]
      /\ escrito \in [Procs -> Seq(Valor)]
  BY <1>3, Zenon DEF Init
<1> QED
  BY <1>1, <1>2, <1>4 DEF Init, TypeOK

LEMMA InitProcessTipo ==
    ASSUME TypeOK, NEW p \in Procs, InitProcess(p)
    PROVE  TypeOK'
<1>1. PICK marcos \in MarcosParaProceso(bitmap, Tamanio[p]) :
        /\ cargados' = cargados \cup {p}
        /\ tabla' = [tabla EXCEPT ![p] = TablaCon(marcos)]
        /\ conTabla' = conTabla \cup {p}
        /\ bitmap' = MarcarOcupados(marcos)
        /\ escrito' = [escrito EXCEPT ![p] = IF p \in readmitidos' THEN <<>>
                                             ELSE PaginasIniciales(marcos)]
  BY DEF InitProcess
<1>2. marcos \in Seq(Marco)
  BY MarcosElegidos, TamanioAssumption
<1>3. TablaCon(marcos) \in Seq(Marco)
  BY <1>2, TablaConPrefijo
<1>4. bitmap' \in SUBSET Marco
  BY <1>1, <1>2 DEF MarcarOcupados, MarcosDe, TypeOK
<1>5. PaginasIniciales(marcos) \in Seq(Valor)
  <2>1. \A i \in DOMAIN TablaCon(marcos) : contenido[marcos[i]] \in Valor
    BY <1>2, TablaConPrefijo DEF TypeOK
  <2>2. DOMAIN TablaCon(marcos) = 1..Len(TablaCon(marcos)) /\ Len(TablaCon(marcos)) \in Nat
    BY <1>3
  <2> QED
    BY <2>1, <2>2 DEF PaginasIniciales
<1>6. readmitidos' \in SUBSET Repiten
  BY DEF InitProcess, TypeOK
<1>7. tabla' \in [Procs -> Seq(Marco)] /\ escrito' \in [Procs -> Seq(Valor)]
  BY <1>1, <1>3, <1>5 DEF TypeOK
<1> QED
  BY <1>1, <1>4, <1>6, <1>7 DEF TypeOK, InitProcess

LEMMA WriteMemoryTipo ==
    ASSUME TypeOK, NEW p \in Procs, NEW i \in DOMAIN tabla[p], NEW v \in Valor, WriteMemory(p, i, v)
    PROVE  TypeOK'
<1>1. contenido' \in [Marco -> Valor]
  BY DEF TypeOK, WriteMemory
<1>2. [escrito[p] EXCEPT ![i] = v] \in Seq(Valor)
  <2>1. escrito[p] \in Seq(Valor)
    BY DEF TypeOK
  <2>2. CASE i \in 1..Len(escrito[p])
    BY <2>1, <2>2, ExceptSeq
  <2>3. CASE i \notin 1..Len(escrito[p])
    <3>1. [escrito[p] EXCEPT ![i] = v] = escrito[p]
      BY <2>1, <2>3
    <3> QED
      BY <2>1, <3>1
  <2> QED
    BY <2>2, <2>3
<1>3. escrito' \in [Procs -> Seq(Valor)]
  BY <1>2 DEF TypeOK, WriteMemory
<1> QED
  BY <1>1, <1>3 DEF TypeOK, WriteMemory

LEMMA SuspendProcessTipo ==
    ASSUME TypeOK, NEW p \in Procs, SuspendProcess(p)
    PROVE  TypeOK'
<1> DEFINE n == Len(tabla[p])
<1>1. n \in Nat /\ tabla[p] \in Seq(Marco) /\ posicion \in Nat
  BY MaxSwapAssumption DEF TypeOK
<1>2. posicion + n <= MaxSwap
  BY DEF SuspendProcess
<1>3. archivoSwap' \in [Slot -> Valor]
  <2>1. ASSUME NEW s \in Slot, s \in posicion..(posicion + n - 1)
        PROVE  contenido[tabla[p][s - posicion + 1]] \in Valor
    <3>1. s - posicion + 1 \in 1..n
      BY <1>1, <2>1
    <3> QED
      BY <1>1, <3>1 DEF TypeOK
  <2> QED
    BY <2>1 DEF SuspendProcess, ArchivoTrasEscribir, TypeOK
<1>4. [i \in 1..n |-> posicion + i - 1] \in Seq(Slot)
  <2>1. \A i \in 1..n : posicion + i - 1 \in Slot
    BY <1>1, <1>2, MaxSwapAssumption DEF Slot
  <2> QED
    BY <1>1, <2>1
<1>5. offsets' \in [Procs -> Seq(Slot)]
  BY <1>4 DEF TypeOK, SuspendProcess
<1>6. posicion' \in 0..MaxSwap
  BY <1>1, <1>2, MaxSwapAssumption DEF SuspendProcess, PosicionTrasEscribir
<1>7. bitmap' \in SUBSET Marco /\ tabla' \in [Procs -> Seq(Marco)]
  BY DEF TypeOK, SuspendProcess, MarcarLibres
<1> QED
  BY <1>3, <1>5, <1>6, <1>7 DEF TypeOK, SuspendProcess

LEMMA SwapInTipo ==
    ASSUME TypeOK, NEW p \in Procs, SwapIn(p)
    PROVE  TypeOK'
<1>1. offsets[p] \in Seq(Slot) /\ Len(offsets[p]) \in Nat
  BY DEF TypeOK
<1>2. PICK marcos \in MarcosParaProceso(bitmap, Len(offsets[p])) :
        /\ contenido' = ContenidoTrasLeer(marcos, offsets[p])
        /\ tabla' = [tabla EXCEPT ![p] = TablaCon(marcos)]
  BY DEF SwapIn
<1>3. marcos \in Seq(Marco) /\ Len(marcos) = Len(offsets[p])
  BY <1>1, MarcosElegidos
<1>4. contenido' \in [Marco -> Valor]
  <2>1. ASSUME NEW m \in MarcosDe(marcos)
        PROVE  archivoSwap[offsets[p][CHOOSE i \in DOMAIN marcos : marcos[i] = m]] \in Valor
    <3> DEFINE i == CHOOSE j \in DOMAIN marcos : marcos[j] = m
    <3>1. i \in DOMAIN marcos
      BY <2>1 DEF MarcosDe
    <3>2. offsets[p][i] \in Slot
      BY <1>1, <1>3, <3>1
    <3> QED
      BY <3>2 DEF TypeOK
  <2> QED
    BY <1>2, <2>1 DEF ContenidoTrasLeer, TypeOK
<1>5. tabla' \in [Procs -> Seq(Marco)]
  BY <1>2, <1>3, TablaConPrefijo DEF TypeOK
<1>6. posicion' \in 0..MaxSwap
  <2>1. CASE offsets[p] = <<>>
    BY <2>1 DEF SwapIn, PosicionTrasLeer, TypeOK
  <2>2. CASE offsets[p] # <<>>
    <3>1. Len(offsets[p]) \in DOMAIN offsets[p]
      BY <1>1, <2>2
    <3>2. offsets[p][Len(offsets[p])] \in Slot
      BY <1>1, <3>1
    <3>3. offsets[p][Len(offsets[p])] + 1 \in 0..MaxSwap
      BY <3>2, MaxSwapAssumption DEF Slot
    <3> QED
      BY <2>2, <3>3 DEF SwapIn, PosicionTrasLeer
  <2> QED
    BY <2>1, <2>2
<1>7. offsets' \in [Procs -> Seq(Slot)]
  BY DEF TypeOK, SwapIn
<1> QED
  BY <1>4, <1>5, <1>6, <1>7 DEF TypeOK, SwapIn

LEMMA FinishProcessTipo ==
    ASSUME TypeOK, NEW p \in Procs, FinishProcess(p)
    PROVE  TypeOK'
<1>1. /\ bitmap' \in SUBSET Marco
      /\ conTabla' \in SUBSET Procs
      /\ tabla' \in [Procs -> Seq(Marco)]
  <2>1. CASE p \in enSwap
    BY <2>1 DEF TypeOK, FinishProcess
  <2>2. CASE p \notin enSwap
    <3>1. <<>> \in Seq(Marco)
      OBVIOUS
    <3> QED
      BY <2>2, <3>1 DEF TypeOK, FinishProcess, MarcarLibres
  <2> QED
    BY <2>1, <2>2
<1>2. offsets' \in [Procs -> Seq(Slot)] /\ escrito' \in [Procs -> Seq(Valor)]
  BY DEF TypeOK, FinishProcess
<1> QED
  BY <1>1, <1>2 DEF TypeOK, FinishProcess

LEMMA PasoTipo == TypeOK /\ [Next]_vars => TypeOK'
<1> SUFFICES ASSUME TypeOK, [Next]_vars PROVE TypeOK'
  OBVIOUS
<1>1. ASSUME NEW p \in Procs, DumpProcess(p) PROVE TypeOK'
  BY <1>1 DEF TypeOK, DumpProcess
<1>2. CASE UNCHANGED vars
  BY <1>2 DEF TypeOK, vars
<1>3. CASE Next
  BY <1>1, <1>3, InitProcessTipo, WriteMemoryTipo, SuspendProcessTipo, SwapInTipo,
     FinishProcessTipo DEF Next
<1> QED
  BY <1>2, <1>3

(* Every variable of Memoria keeps its type, and the swap file and its      *)
(* stream position their bounds, for every size of memory and of process.   *)
THEOREM TipoCorrecto == Spec => []TypeOK
  BY InitTipo, PasoTipo, PTL DEF Spec

-----------------------------------------------------------------------------
(* A loaded process has a page table or is in swap, and not both unless it  *)
(* has been initialised again: each handler moves it between the two in one *)
(* request.                                                                 *)
LEMMA EnMemoriaOEnSwapPaso ==
    ASSUME EnMemoriaOEnSwap, [Next]_vars
    PROVE  EnMemoriaOEnSwap'
<1>1. CASE UNCHANGED vars
  BY <1>1 DEF EnMemoriaOEnSwap, vars
<1>2. ASSUME NEW p \in Procs, InitProcess(p) PROVE EnMemoriaOEnSwap'
  BY <1>2 DEF EnMemoriaOEnSwap, InitProcess
<1>3. ASSUME NEW p \in Procs, NEW i, NEW v, WriteMemory(p, i, v) PROVE EnMemoriaOEnSwap'
  BY <1>3 DEF EnMemoriaOEnSwap, WriteMemory
<1>4. ASSUME NEW p \in Procs, SuspendProcess(p) PROVE EnMemoriaOEnSwap'
  BY <1>4 DEF EnMemoriaOEnSwap, SuspendProcess
<1>5. ASSUME NEW p \in Procs, SwapIn(p) PROVE EnMemoriaOEnSwap'
  BY <1>5 DEF EnMemoriaOEnSwap, SwapIn
<1>6. ASSUME NEW p \in Procs, FinishProcess(p) PROVE EnMemoriaOEnSwap'
  BY <1>6 DEF EnMemoriaOEnSwap, FinishProcess
<1>7. ASSUME NEW p \in Procs, DumpProcess(p) PROVE EnMemoriaOEnSwap'
  BY <1>7 DEF EnMemoriaOEnSwap, DumpProcess
<1> QED
  BY <1>1, <1>2, <1>3, <1>4, <1>5, <1>6, <1>7 DEF Next

(* No frame is lost by a step.  Only InitProcess marks frames busy, and it  *)
(* puts every one of them in the new table when the table has room; what    *)
(* the new table would take the place of is not there when the process is   *)
(* not loaded.                                                              *)
LEMMA SinFugaPaso ==
    ASSUME TablaSuficiente, TypeOK, EnMemoriaOEnSwap, SinFugaDeMarcos, [Next]_vars
    PROVE  SinFugaDeMarcos'
<1> SUFFICES ASSUME readmitidos' = {}, NEW m \in bitmap'
             PROVE  \E q \in conTabla' : m \in MarcosDe(tabla'[q])
  BY DEF SinFugaDeMarcos, MarcosDe
<1>a. readmitidos = {}
  BY DEF Next, vars, InitProcess, WriteMemory, SuspendProcess, SwapIn, FinishProcess, DumpProcess
<1>0. m \in bitmap => \E q \in conTabla : m \in MarcosDe(tabla[q])
  BY <1>a DEF SinFugaDeMarcos
<1>1. CASE UNCHANGED vars
  BY <1>0, <1>1 DEF vars
<1>2. ASSUME NEW p \in Procs, InitProcess(p)
      PROVE  \E q \in conTabla' : m \in MarcosDe(tabla'[q])
  <2>1. PICK marcos \in MarcosParaProceso(bitmap, Tamanio[p]) :
          /\ tabla' = [tabla EXCEPT ![p] = TablaCon(marcos)]
          /\ bitmap' = MarcarOcupados(marcos)
    BY <1>2 DEF InitProcess
  <2>2. TablaCon(marcos) = marcos
    BY MarcosElegidos, TablaConPrefijo, TamanioAssumption DEF TablaSuficiente
  <2>3. tabla'[p] = marcos /\ \A q \in conTabla : tabla'[q] = tabla[q] \/ q = p
    BY <2>1, <2>2 DEF TypeOK
  <2>4. p \in conTabla' /\ p \notin conTabla /\ conTabla \subseteq conTabla'
    BY <1>a, <1>2 DEF InitProcess, EnMemoriaOEnSwap
  <2> QED
    BY <1>0, <2>1, <2>3, <2>4 DEF MarcarOcupados
<1>3. ASSUME NEW p \in Procs, NEW i, NEW v, WriteMemory(p, i, v)
      PROVE  \E q \in conTabla' : m \in MarcosDe(tabla'[q])
  BY <1>0, <1>3 DEF WriteMemory
<1>4. ASSUME NEW p \in Procs, SuspendProcess(p)
      PROVE  \E q \in conTabla' : m \in MarcosDe(tabla'[q])
  BY <1>0, <1>4 DEF SuspendProcess, MarcarLibres, TypeOK
<1>5. ASSUME NEW p \in Procs, SwapIn(p)
      PROVE  \E q \in conTabla' : m \in MarcosDe(tabla'[q])
  <2>1. p \notin conTabla /\ bitmap' = bitmap /\ conTabla' = conTabla \cup {p}
    BY <1>a, <1>5 DEF SwapIn, EnMemoriaOEnSwap
  <2>2. \A q \in conTabla : tabla'[q] = tabla[q]
    BY <1>5, <2>1 DEF SwapIn, TypeOK
  <2> QED
    BY <1>0, <2>1, <2>2
<1>6. ASSUME NEW p \in Procs, FinishProcess(p)
      PROVE  \E q \in conTabla' : m \in MarcosDe(tabla'[q])
  <2>1. CASE p \in enSwap
    BY <1>0, <1>6, <2>1 DEF FinishProcess
  <2>2. CASE p \notin enSwap
    BY <1>0, <1>6, <2>2 DEF FinishProcess, MarcarLibres, TypeOK
  <2> QED
    BY <2>1, <2>2
<1>7. ASSUME NEW p \in Procs, DumpProcess(p)
      PROVE  \E q \in conTabla' : m \in MarcosDe(tabla'[q])
  BY <1>0, <1>7 DEF DumpProcess
<1> QED
  BY <1>1, <1>2, <1>3, <1>4, <1>5, <1>6, <1>7 DEF Next

(* However suspensions, returns and exits interleave, a frame marked busy   *)
(* is in the page table of a process, when every process fits in its table  *)
(* and as long as no loaded process is initialised again: Memoria does not  *)
(* look, and SinFugaDeMarcos says nothing after that.                       *)
THEOREM SinFuga ==
    ASSUME TablaSuficiente
    PROVE  Spec => []SinFugaDeMarcos
<1> DEFINE J == TypeOK /\ EnMemoriaOEnSwap /\ SinFugaDeMarcos
<1>1. Init => J
  BY InitTipo DEF Init, EnMemoriaOEnSwap, SinFugaDeMarcos
<1>2. J /\ [Next]_vars => J'
  BY PasoTipo, EnMemoriaOEnSwapPaso, SinFugaPaso
<1> QED
  BY <1>1, <1>2, PTL DEF Spec

-----------------------------------------------------------------------------
(* Exclusive frames and intact pages, until the first swap_in.  One lemma   *)
(* per handler that can disturb them.                                       *)
Paginado == MarcosExclusivos /\ ArchivoAcumulado /\ PaginasHastaPrimerSwapIn

LEMMA InitProcessPaginado ==
    ASSUME IInv, NEW p \in Procs, InitProcess(p)
    PROVE  Paginado'
<1> SUFFICES ASSUME ~huboSwapIn PROVE Paginado'
  BY DEF Paginado, MarcosExclusivos, ArchivoAcumulado, PaginasHastaPrimerSwapIn, InitProcess
<1>1. PICK marcos \in MarcosParaProceso(bitmap, Tamanio[p]) :
        /\ tabla' = [tabla EXCEPT ![p] = TablaCon(marcos)]
        /\ bitmap' = MarcarOcupados(marcos)
        /\ escrito' = [escrito EXCEPT ![p] = IF p \in readmitidos' THEN <<>>
                                             ELSE PaginasIniciales(marcos)]
  BY DEF InitProcess
<1>2. /\ marcos \in Seq(Marco)
      /\ MarcosDe(marcos) \cap bitmap = {}
      /\ \A i, j \in DOMAIN marcos : marcos[i] = marcos[j] => i = j
  BY MarcosElegidos, TamanioAssumption
<1>3. /\ DOMAIN TablaCon(marcos) \subseteq DOMAIN marcos
      /\ \A i \in DOMAIN TablaCon(marcos) : TablaCon(marcos)[i] = marcos[i]
  BY <1>2, TablaConPrefijo
<1>4. /\ conTabla' = conTabla \cup {p}
      /\ p \notin readmitidos' => p \notin conTabla /\ p \notin enSwap
      /\ readmitidos \subseteq readmitidos'
      /\ UNCHANGED <<contenido, enSwap, offsets, archivoSwap, posicion, huboSwapIn>>
  BY DEF InitProcess, IInv, EnMemoriaOEnSwap
<1>5. /\ tabla'[p] = TablaCon(marcos)
      /\ p \notin readmitidos' => escrito'[p] = PaginasIniciales(marcos)
      /\ \A q \in Procs \ {p} : tabla'[q] = tabla[q] /\ escrito'[q] = escrito[q]
  BY <1>1 DEF IInv, TypeOK
<1>6. conTabla \subseteq Procs /\ enSwap \subseteq Procs
  BY DEF IInv, TypeOK
<1>7. /\ \A q \in conTabla : MarcosDe(tabla[q]) \subseteq bitmap
      /\ \A q, r \in conTabla : \A i \in DOMAIN tabla[q], j \in DOMAIN tabla[r] :
            tabla[q][i] = tabla[r][j] => q = r /\ i = j
  BY DEF IInv, MarcosExclusivos
<1>8. MarcosDe(tabla'[p]) \subseteq MarcosDe(marcos)
  BY <1>3, <1>5 DEF MarcosDe
<1>9. \A q \in conTabla' : MarcosDe(tabla'[q]) \subseteq bitmap'
  BY <1>1, <1>4, <1>5, <1>6, <1>7, <1>8 DEF MarcarOcupados
<1>10. ASSUME NEW q \in conTabla', NEW r \in conTabla',
              NEW i \in DOMAIN tabla'[q], NEW j \in DOMAIN tabla'[r],
              tabla'[q][i] = tabla'[r][j]
       PROVE  q = r /\ i = j
  <2>1. CASE q = p /\ r = p
    BY <1>2, <1>3, <1>5, <1>10, <2>1
  <2>2. CASE q # p /\ r # p
    BY <1>4, <1>5, <1>6, <1>7, <1>10, <2>2
  <2>3. \A t \in conTabla : MarcosDe(tabla'[p]) \cap MarcosDe(tabla[t]) = {}
    BY <1>2, <1>7, <1>8
  <2>4. ~(q = p /\ r # p)
    BY <1>4, <1>5, <1>6, <1>10, <2>3 DEF MarcosDe
  <2>5. ~(q # p /\ r = p)
    BY <1>4, <1>5, <1>6, <1>10, <2>3 DEF MarcosDe
  <2> QED
    BY <2>1, <2>2, <2>4, <2>5
<1>11. MarcosExclusivos'
  BY <1>9, <1>10 DEF MarcosExclusivos
<1>12. ArchivoAcumulado'
  BY <1>4, <1>5, <1>6 DEF ArchivoAcumulado, IInv, PaginasIniciales
<1>13. ASSUME NEW q \in Procs \ readmitidos' PROVE PaginasDe(q)'
  <2>1. CASE q = p
    BY <1>3, <1>4, <1>5, <2>1 DEF PaginasDe, PaginasIniciales
  <2>2. CASE q # p
    BY <1>4, <1>5, <2>2 DEF PaginasDe, IInv, PaginasHastaPrimerSwapIn
  <2> QED
    BY <2>1, <2>2
<1> QED
  BY <1>11, <1>12, <1>13 DEF Paginado, PaginasHastaPrimerSwapIn

LEMMA WriteMemoryPaginado ==
    ASSUME IInv, NEW p \in Procs, NEW i \in DOMAIN tabla[p], NEW v \in Valor, WriteMemory(p, i, v)
    PROVE  Paginado'
<1> SUFFICES ASSUME ~huboSwapIn PROVE Paginado'
  BY DEF Paginado, MarcosExclusivos, ArchivoAcumulado, PaginasHastaPrimerSwapIn, WriteMemory
<1>1. UNCHANGED <<bitmap, conTabla, tabla, enSwap, offsets, archivoSwap, posicion, huboSwapIn,
                readmitidos>>
  BY DEF WriteMemory
<1>2. MarcosExclusivos'
  BY <1>1 DEF MarcosExclusivos, IInv
<1>3. \A q \in Procs : DOMAIN escrito'[q] = DOMAIN escrito[q]
  BY DEF WriteMemory, IInv, TypeOK
<1>4. ArchivoAcumulado'
  BY <1>1, <1>3 DEF ArchivoAcumulado, IInv, TypeOK
<1>5. /\ p \in conTabla
      /\ p \notin readmitidos => p \notin enSwap /\ DOMAIN escrito[p] = DOMAIN tabla[p]
  BY DEF WriteMemory, IInv, EnMemoriaOEnSwap, ArchivoAcumulado
<1>6. /\ escrito'[p] = [escrito[p] EXCEPT ![i] = v]
      /\ \A q \in Procs \ {p} : escrito'[q] = escrito[q]
  BY DEF WriteMemory, IInv, TypeOK
<1>7. tabla[p][i] \in Marco
  BY DEF IInv, TypeOK
<1>8. contenido'[tabla[p][i]] = v /\ \A m \in Marco \ {tabla[p][i]} : contenido'[m] = contenido[m]
  BY <1>7 DEF WriteMemory, IInv, TypeOK
<1>9. ASSUME NEW q \in conTabla \ readmitidos, NEW j \in DOMAIN tabla[q]
      PROVE  contenido'[tabla[q][j]] = escrito'[q][j]
  <2>1. q \in Procs /\ tabla[q][j] \in Marco
    BY DEF IInv, TypeOK
  <2>2. contenido[tabla[q][j]] = escrito[q][j]
    BY <2>1 DEF IInv, PaginasHastaPrimerSwapIn, PaginasDe
  <2>3. CASE q = p /\ j = i
    BY <1>5, <1>6, <1>8, <2>3
  <2>4. CASE ~(q = p /\ j = i)
    <3>1. tabla[q][j] # tabla[p][i]
      BY <1>5, <2>4 DEF IInv, MarcosExclusivos
    <3>2. escrito'[q][j] = escrito[q][j]
      BY <1>5, <1>6, <2>1, <2>4
    <3> QED
      BY <1>8, <2>1, <2>2, <3>1, <3>2
  <2> QED
    BY <2>3, <2>4
<1>10. \A q \in enSwap \ readmitidos : escrito'[q] = escrito[q]
  BY <1>5, <1>6 DEF IInv, TypeOK
<1>11. ASSUME NEW q \in Procs \ readmitidos PROVE PaginasDe(q)'
  BY <1>1, <1>9, <1>10 DEF PaginasDe, IInv, PaginasHastaPrimerSwapIn
<1> QED
  BY <1>1, <1>2, <1>4, <1>11 DEF Paginado, PaginasHastaPrimerSwapIn

LEMMA SuspendProcessPaginado ==
    ASSUME IInv, NEW p \in Procs, SuspendProcess(p)
    PROVE  Paginado'
<1> DEFINE n == Len(tabla[p])
<1> SUFFICES ASSUME ~huboSwapIn PROVE Paginado'
  BY DEF Paginado, MarcosExclusivos, ArchivoAcumulado, PaginasHastaPrimerSwapIn, SuspendProcess
<1>1. /\ conTabla' = conTabla \ {p} /\ enSwap' = enSwap \cup {p} /\ p \in conTabla
      /\ posicion' = posicion + n /\ posicion + n <= MaxSwap
      /\ bitmap' = bitmap \ MarcosDe(tabla[p])
      /\ archivoSwap' = ArchivoTrasEscribir(tabla[p])
      /\ UNCHANGED <<contenido, huboSwapIn, readmitidos, escrito>>
  BY DEF SuspendProcess, MarcarLibres, PosicionTrasEscribir
<1>2. /\ n \in Nat /\ posicion \in Nat /\ DOMAIN tabla[p] = 1..n
      /\ conTabla \subseteq Procs /\ enSwap \subseteq Procs
  BY MaxSwapAssumption DEF IInv, TypeOK
<1>3. /\ offsets'[p] = [i \in 1..n |-> posicion + i - 1]
      /\ \A q \in Procs \ {p} : offsets'[q] = offsets[q] /\ tabla'[q] = tabla[q]
  BY DEF SuspendProcess, IInv, TypeOK
<1>4. \A q, r \in conTabla : \A i \in DOMAIN tabla[q], j \in DOMAIN tabla[r] :
         tabla[q][i] = tabla[r][j] => q = r /\ i = j
  BY DEF IInv, MarcosExclusivos
<1>5. MarcosExclusivos'
  <2>1. \A q \in conTabla : MarcosDe(tabla[q]) \subseteq bitmap
    BY DEF IInv, MarcosExclusivos
  <2>2. \A q \in conTabla \ {p} : MarcosDe(tabla[q]) \cap MarcosDe(tabla[p]) = {}
    BY <1>1, <1>4 DEF MarcosDe
  <2>3. \A q \in conTabla' : MarcosDe(tabla'[q]) \subseteq bitmap'
    BY <1>1, <1>2, <1>3, <2>1, <2>2
  <2> QED
    BY <1>1, <1>2, <1>3, <1>4, <2>3 DEF MarcosExclusivos
<1>6. \A q \in enSwap : \A i \in DOMAIN offsets[q] :
         offsets[q][i] < posicion /\ offsets[q][i] \in Slot
  BY DEF IInv, ArchivoAcumulado, TypeOK
<1>7. ArchivoAcumulado'
  <2>1. \A i \in DOMAIN offsets'[p] : offsets'[p][i] < posicion'
    BY <1>1, <1>2, <1>3
  <2>2. \A q \in enSwap \ {p} : \A i \in DOMAIN offsets'[q] : offsets'[q][i] < posicion'
    BY <1>1, <1>2, <1>3, <1>6 DEF Slot
  <2> QED
    BY <1>1, <1>2, <1>3, <2>1, <2>2 DEF ArchivoAcumulado, IInv
<1>8. ASSUME NEW q \in Procs \ readmitidos PROVE PaginasDe(q)'
  <2>1. CASE q = p
    <3>1. ASSUME NEW i \in 1..n
          PROVE  archivoSwap'[posicion + i - 1] = escrito[p][i]
      <4>1. posicion + i - 1 \in Slot /\ posicion + i - 1 \in posicion..(posicion + n - 1)
        BY <1>1, <1>2, MaxSwapAssumption DEF Slot
      <4>2. (posicion + i - 1) - posicion + 1 = i
        BY <1>2
      <4>3. archivoSwap'[posicion + i - 1] = contenido[tabla[p][i]]
        BY <1>1, <4>1, <4>2 DEF ArchivoTrasEscribir
      <4> QED
        BY <1>1, <1>2, <2>1, <4>3 DEF IInv, PaginasHastaPrimerSwapIn, PaginasDe
    <3> QED
      BY <1>1, <1>3, <2>1, <3>1 DEF PaginasDe
  <2>2. CASE q # p
    <3>1. PaginasDe(q)
      BY DEF IInv, PaginasHastaPrimerSwapIn
    <3>2. ASSUME NEW i \in DOMAIN offsets[q], q \in enSwap
          PROVE  archivoSwap'[offsets[q][i]] = archivoSwap[offsets[q][i]]
      BY <1>1, <1>2, <1>6, <3>2 DEF ArchivoTrasEscribir, Slot
    <3> QED
      BY <1>1, <1>3, <2>2, <3>1, <3>2 DEF PaginasDe
  <2> QED
    BY <2>1, <2>2
<1> QED
  BY <1>1, <1>5, <1>7, <1>8 DEF Paginado, PaginasHastaPrimerSwapIn

LEMMA FinishProcessPaginado ==
    ASSUME IInv, NEW p \in Procs, FinishProcess(p)
    PROVE  Paginado'
<1> SUFFICES ASSUME ~huboSwapIn PROVE Paginado'
  BY DEF Paginado, MarcosExclusivos, ArchivoAcumulado, PaginasHastaPrimerSwapIn, FinishProcess
<1>1. /\ enSwap' = enSwap \ {p} /\ p \in cargados
      /\ UNCHANGED <<contenido, archivoSwap, posicion, huboSwapIn, readmitidos>>
  BY DEF FinishProcess
<1>2. conTabla' \subseteq conTabla /\ (p \in conTabla' => p \in readmitidos)
  BY DEF FinishProcess, IInv, EnMemoriaOEnSwap
<1>3. /\ conTabla \subseteq Procs /\ enSwap \subseteq Procs
      /\ \A q \in Procs \ {p} :
           tabla'[q] = tabla[q] /\ escrito'[q] = escrito[q] /\ offsets'[q] = offsets[q]
  <2>1. CASE p \in enSwap
    BY <2>1 DEF FinishProcess, IInv, TypeOK
  <2>2. CASE p \notin enSwap
    BY <2>2 DEF FinishProcess, IInv, TypeOK
  <2> QED
    BY <2>1, <2>2
<1>4. /\ \A q \in conTabla : MarcosDe(tabla[q]) \subseteq bitmap
      /\ \A q, r \in conTabla : \A i \in DOMAIN tabla[q], j \in DOMAIN tabla[r] :
            tabla[q][i] = tabla[r][j] => q = r /\ i = j
  BY DEF IInv, MarcosExclusivos
<1>5. MarcosExclusivos'
  <2>1. CASE p \in enSwap
    BY <1>4, <2>1 DEF FinishProcess, MarcosExclusivos
  <2>2. CASE p \notin enSwap
    <3>1. /\ conTabla' = conTabla \ {p} /\ p \in conTabla
          /\ bitmap' = bitmap \ MarcosDe(tabla[p])
      BY <1>1, <2>2 DEF FinishProcess, MarcarLibres, IInv, EnMemoriaOEnSwap
    <3>2. \A q \in conTabla \ {p} : MarcosDe(tabla[q]) \cap MarcosDe(tabla[p]) = {}
      BY <1>4, <3>1 DEF MarcosDe
    <3>3. \A q \in conTabla' : tabla'[q] = tabla[q] /\ q \in conTabla
      BY <1>3, <3>1
    <3>4. \A q \in conTabla' : MarcosDe(tabla'[q]) \subseteq bitmap'
      BY <1>4, <3>1, <3>2, <3>3
    <3> QED
      BY <1>4, <3>3, <3>4 DEF MarcosExclusivos
  <2> QED
    BY <2>1, <2>2
<1>6. ArchivoAcumulado'
  BY <1>1, <1>2, <1>3 DEF ArchivoAcumulado, IInv
<1>7. PaginasHastaPrimerSwapIn'
  BY <1>1, <1>2, <1>3 DEF PaginasHastaPrimerSwapIn, PaginasDe, IInv
<1> QED
  BY <1>5, <1>6, <1>7 DEF Paginado

LEMMA IInvPaso == IInv /\ [Next]_vars => IInv'
<1> SUFFICES ASSUME IInv, [Next]_vars PROVE IInv'
  OBVIOUS
<1>1. CASE UNCHANGED vars
  BY <1>1 DEF vars, IInv, Paginado, MarcosExclusivos, ArchivoAcumulado,
     PaginasHastaPrimerSwapIn, PaginasDe, TypeOK, EnMemoriaOEnSwap
<1>2. ASSUME NEW p \in Procs, SwapIn(p) PROVE Paginado'
  BY <1>2 DEF SwapIn, Paginado, MarcosExclusivos, ArchivoAcumulado, PaginasHastaPrimerSwapIn
<1>3. ASSUME NEW p \in Procs, DumpProcess(p) PROVE Paginado'
  BY <1>3 DEF DumpProcess, IInv, Paginado, MarcosExclusivos, ArchivoAcumulado,
     PaginasHastaPrimerSwapIn, PaginasDe
<1>4. CASE Next
  <2>1. Paginado'
    BY <1>2, <1>3, <1>4, InitProcessPaginado, WriteMemoryPaginado, SuspendProcessPaginado,
       FinishProcessPaginado DEF Next
  <2>2. TypeOK' /\ EnMemoriaOEnSwap'
    BY PasoTipo, EnMemoriaOEnSwapPaso DEF IInv
  <2> QED
    BY <2>1, <2>2 DEF IInv, Paginado
<1> QED
  BY <1>1, <1>4

LEMMA IInvSiempre == Spec => []IInv
<1>1. Init => IInv
  BY InitTipo DEF Init, IInv, EnMemoriaOEnSwap, MarcosExclusivos, ArchivoAcumulado,
     PaginasHastaPrimerSwapIn, PaginasDe
<1> QED
  BY <1>1, IInvPaso, PTL DEF Spec

(* Until the first swap_in no frame belongs to two pages, and every frame   *)
(* of a page table is marked busy.                                          *)
THEOREM Exclusivos == Spec => []MarcosExclusivos
<1>1. IInv => MarcosExclusivos
  BY DEF IInv
<1> QED
  BY <1>1, IInvSiempre, PTL

(* Until the first swap_in every process finds what it wrote, in its frames *)
(* or in the swap file.                                                     *)
THEOREM PaginasIntactas == Spec => []PaginasHastaPrimerSwapIn
<1>1. IInv => PaginasHastaPrimerSwapIn
  BY DEF IInv
<1> QED
  BY <1>1, IInvSiempre, PTL
-----------------------------------------------------------------------------
(* A process that has had the memory to itself: its pages are where they    *)
(* have to be, no frame is in two of them, and escrito knows them all.      *)
Sola(p) ==
    /\ PaginasDe(p)
    /\ p \in conTabla =>
         /\ DOMAIN tabla[p] \subseteq DOMAIN escrito[p]
         /\ \A i, j \in DOMAIN tabla[p] : tabla[p][i] = tabla[p][j] => i = j
    /\ p \in enSwap => DOMAIN offsets[p] \subseteq DOMAIN escrito[p]

IInvASolas ==
    /\ TypeOK
    /\ EnMemoriaOEnSwap
    /\ \A p \in Procs \ readmitidos : SinVecinos(p) => Sola(p)

(* A process that is alone after a step, and initialised once, was so       *)
(* before it, and the step is its own.                                      *)
LEMMA SoloSusPasos ==
    ASSUME IInvASolas, NEW p \in Procs \ readmitidos', SinVecinos(p)', NEW q \in Procs,
           \/ InitProcess(q) \/ SuspendProcess(q) \/ SwapIn(q) \/ FinishProcess(q)
           \/ DumpProcess(q) \/ \E i \in DOMAIN tabla[q], v \in Valor : WriteMemory(q, i, v)
    PROVE  q = p /\ p \notin readmitidos /\ Sola(p)
<1>1. /\ cargados \cup finalizados \subseteq cargados' \cup finalizados'
      /\ readmitidos \subseteq readmitidos'
  BY DEF InitProcess, SuspendProcess, SwapIn, FinishProcess, DumpProcess, WriteMemory
<1>2. SinVecinos(p)
  BY <1>1 DEF SinVecinos
<1>3. q \in cargados' \cup finalizados'
  BY DEF IInvASolas, EnMemoriaOEnSwap, InitProcess, SuspendProcess, SwapIn, FinishProcess,
     DumpProcess, WriteMemory
<1> QED
  BY <1>1, <1>2, <1>3 DEF SinVecinos, IInvASolas

LEMMA InitProcessASolas ==
    ASSUME IInvASolas, NEW p \in Procs \ readmitidos', InitProcess(p)
    PROVE  Sola(p)'
<1>1. PICK marcos \in MarcosParaProceso(bitmap, Tamanio[p]) :
        /\ tabla' = [tabla EXCEPT ![p] = TablaCon(marcos)]
        /\ escrito' = [escrito EXCEPT ![p] = IF p \in readmitidos' THEN <<>>
                                             ELSE PaginasIniciales(marcos)]
  BY DEF InitProcess
<1>2. /\ marcos \in Seq(Marco)
      /\ \A i, j \in DOMAIN marcos : marcos[i] = marcos[j] => i = j
  BY MarcosElegidos, TamanioAssumption
<1>3. /\ DOMAIN TablaCon(marcos) \subseteq DOMAIN marcos
      /\ \A i \in DOMAIN TablaCon(marcos) : TablaCon(marcos)[i] = marcos[i]
  BY <1>2, TablaConPrefijo
<1>4. p \notin enSwap' /\ contenido' = contenido
  BY DEF InitProcess, IInvASolas, EnMemoriaOEnSwap
<1>5. tabla'[p] = TablaCon(marcos) /\ escrito'[p] = PaginasIniciales(marcos)
  BY <1>1 DEF IInvASolas, TypeOK
<1> QED
  BY <1>2, <1>3, <1>4, <1>5 DEF Sola, PaginasDe, PaginasIniciales

LEMMA WriteMemoryASolas ==
    ASSUME IInvASolas, NEW p \in Procs \ readmitidos, Sola(p), NEW i \in DOMAIN tabla[p], NEW v \in Valor,
           WriteMemory(p, i, v)
    PROVE  Sola(p)'
<1>1. p \in conTabla /\ p \notin enSwap'
      /\ UNCHANGED <<tabla, conTabla>>
  BY DEF WriteMemory, IInvASolas, EnMemoriaOEnSwap
<1>2. escrito'[p] = [escrito[p] EXCEPT ![i] = v]
  BY DEF WriteMemory, IInvASolas, TypeOK
<1>3. \A j \in DOMAIN tabla[p] : tabla[p][j] \in Marco
  BY DEF IInvASolas, TypeOK
<1>4. contenido'[tabla[p][i]] = v /\ \A m \in Marco \ {tabla[p][i]} : contenido'[m] = contenido[m]
  BY <1>3 DEF WriteMemory, IInvASolas, TypeOK
<1>5. i \in DOMAIN escrito[p] /\ DOMAIN escrito'[p] = DOMAIN escrito[p]
  BY <1>1, <1>2 DEF Sola
<1>6. ASSUME NEW j \in DOMAIN tabla[p]
      PROVE  contenido'[tabla[p][j]] = escrito'[p][j]
  <2>1. CASE j = i
    BY <1>2, <1>4, <1>5, <2>1
  <2>2. CASE j # i
    <3>1. tabla[p][j] # tabla[p][i] /\ j \in DOMAIN escrito[p]
          /\ contenido[tabla[p][j]] = escrito[p][j]
      BY <1>1, <2>2 DEF Sola, PaginasDe
    <3> QED
      BY <1>2, <1>3, <1>4, <2>2, <3>1
  <2> QED
    BY <2>1, <2>2
<1> QED
  BY <1>1, <1>5, <1>6 DEF Sola, PaginasDe

LEMMA SuspendProcessASolas ==
    ASSUME IInvASolas, NEW p \in Procs, Sola(p), SuspendProcess(p)
    PROVE  Sola(p)'
<1> DEFINE n == Len(tabla[p])
<1>1. /\ conTabla' = conTabla \ {p} /\ p \in conTabla
      /\ posicion + n <= MaxSwap
      /\ archivoSwap' = ArchivoTrasEscribir(tabla[p])
      /\ escrito' = escrito
  BY DEF SuspendProcess
<1>2. n \in Nat /\ posicion \in Nat /\ DOMAIN tabla[p] = 1..n
  BY MaxSwapAssumption DEF IInvASolas, TypeOK
<1>3. offsets'[p] = [i \in 1..n |-> posicion + i - 1]
  BY DEF SuspendProcess, IInvASolas, TypeOK
<1>4. ASSUME NEW i \in 1..n
      PROVE  archivoSwap'[posicion + i - 1] = escrito[p][i]
  <2>1. posicion + i - 1 \in Slot /\ posicion + i - 1 \in posicion..(posicion + n - 1)
    BY <1>1, <1>2, MaxSwapAssumption DEF Slot
  <2>2. (posicion + i - 1) - posicion + 1 = i
    BY <1>2
  <2>3. archivoSwap'[posicion + i - 1] = contenido[tabla[p][i]]
    BY <1>1, <2>1, <2>2 DEF ArchivoTrasEscribir
  <2> QED
    BY <1>1, <1>2, <2>3 DEF Sola, PaginasDe
<1> QED
  BY <1>1, <1>2, <1>3, <1>4 DEF Sola, PaginasDe

(* swap_in puts each page in the frame its table will say, as the frames    *)
(* is_memory_sufficient gives are all different.                            *)
LEMMA PaginasLeidasDelArchivo ==
    ASSUME NEW marcos \in Seq(Marco), NEW leidos,
           \A i, j \in DOMAIN marcos : marcos[i] = marcos[j] => i = j,
           NEW i \in DOMAIN marcos
    PROVE  ContenidoTrasLeer(marcos, leidos)[marcos[i]] = archivoSwap[leidos[i]]
<1>1. marcos[i] \in Marco /\ marcos[i] \in MarcosDe(marcos)
  BY DEF MarcosDe
<1>2. (CHOOSE j \in DOMAIN marcos : marcos[j] = marcos[i]) = i
  OBVIOUS
<1> QED
  BY <1>1, <1>2 DEF ContenidoTrasLeer

LEMMA SwapInASolas ==
    ASSUME IInvASolas, NEW p \in Procs, Sola(p), SwapIn(p)
    PROVE  Sola(p)'
<1>1. p \in enSwap /\ escrito' = escrito /\ p \notin enSwap'
  BY DEF SwapIn
<1>2. offsets[p] \in Seq(Slot) /\ Len(offsets[p]) \in Nat
  BY DEF IInvASolas, TypeOK
<1>3. PICK marcos \in MarcosParaProceso(bitmap, Len(offsets[p])) :
        /\ contenido' = ContenidoTrasLeer(marcos, offsets[p])
        /\ tabla' = [tabla EXCEPT ![p] = TablaCon(marcos)]
  BY DEF SwapIn
<1>4. /\ marcos \in Seq(Marco) /\ DOMAIN marcos = DOMAIN offsets[p]
      /\ \A i, j \in DOMAIN marcos : marcos[i] = marcos[j] => i = j
  BY <1>2, MarcosElegidos
<1>5. /\ DOMAIN TablaCon(marcos) \subseteq DOMAIN marcos
      /\ \A i \in DOMAIN TablaCon(marcos) : TablaCon(marcos)[i] = marcos[i]
  BY <1>4, TablaConPrefijo
<1>6. tabla'[p] = TablaCon(marcos)
  BY <1>3 DEF IInvASolas, TypeOK
<1>7. \A i \in DOMAIN marcos : contenido'[marcos[i]] = archivoSwap[offsets[p][i]]
  BY <1>3, <1>4, PaginasLeidasDelArchivo
<1> QED
  BY <1>1, <1>4, <1>5, <1>6, <1>7 DEF Sola, PaginasDe

LEMMA FinishProcessASolas ==
    ASSUME IInvASolas, NEW p \in Procs \ readmitidos, FinishProcess(p)
    PROVE  Sola(p)'
<1>1. p \notin conTabla' /\ p \notin enSwap'
  BY DEF FinishProcess, IInvASolas, EnMemoriaOEnSwap
<1> QED
  BY <1>1 DEF Sola, PaginasDe

LEMMA IInvASolasPaso == IInvASolas /\ [Next]_vars => IInvASolas'
<1> SUFFICES ASSUME IInvASolas, [Next]_vars PROVE IInvASolas'
  OBVIOUS
<1>1. TypeOK' /\ EnMemoriaOEnSwap'
  BY PasoTipo, EnMemoriaOEnSwapPaso DEF IInvASolas
<1>2. ASSUME NEW p \in Procs \ readmitidos', SinVecinos(p)' PROVE Sola(p)'
  <2>1. CASE UNCHANGED vars
    BY <1>2, <2>1 DEF vars, IInvASolas, SinVecinos, Sola, PaginasDe
  <2>2. ASSUME NEW q \in Procs, InitProcess(q) PROVE Sola(p)'
    BY <1>2, <2>2, SoloSusPasos, InitProcessASolas
  <2>3. ASSUME NEW q \in Procs, NEW i \in DOMAIN tabla[q], NEW v \in Valor, WriteMemory(q, i, v)
        PROVE  Sola(p)'
    <3>1. q = p /\ p \notin readmitidos /\ Sola(p)
      BY <1>2, <2>3, SoloSusPasos
    <3> QED
      BY <2>3, <3>1, WriteMemoryASolas
  <2>4. ASSUME NEW q \in Procs, SuspendProcess(q) PROVE Sola(p)'
    BY <1>2, <2>4, SoloSusPasos, SuspendProcessASolas
  <2>5. ASSUME NEW q \in Procs, SwapIn(q) PROVE Sola(p)'
    BY <1>2, <2>5, SoloSusPasos, SwapInASolas
  <2>6. ASSUME NEW q \in Procs, FinishProcess(q) PROVE Sola(p)'
    BY <1>2, <2>6, SoloSusPasos, FinishProcessASolas
  <2>7. ASSUME NEW q \in Procs, DumpProcess(q) PROVE Sola(p)'
    <3>1. Sola(p)
      BY <1>2, <2>7, SoloSusPasos
    <3> QED
      BY <2>7, <3>1 DEF DumpProcess, Sola, PaginasDe
  <2> QED
    BY <2>1, <2>2, <2>3, <2>4, <2>5, <2>6, <2>7 DEF Next
<1> QED
  BY <1>1, <1>2 DEF IInvASolas

(* A process that has had the memory to itself finds its pages, however     *)
(* often it is suspended and brought back.                                  *)
THEOREM IntactasASolas == Spec => []PaginasASolas
<1>1. Init => IInvASolas
  BY InitTipo DEF Init, IInvASolas, EnMemoriaOEnSwap, Sola, PaginasDe
<1>2. IInvASolas => PaginasASolas
  BY DEF IInvASolas, PaginasASolas, Sola
<1> QED
  BY <1>1, <1>2, IInvASolasPaso, PTL DEF Spec
=============================================================================
