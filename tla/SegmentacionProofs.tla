-------------------------- MODULE SegmentacionProofs --------------------------
(***************************************************************************)
(* For any memory, fit, patotas of any number of crews, and expulsions:    *)
(* the segments tile the memory, a patota that was admitted gets its       *)
(* segments, what the patotas have stored stays theirs through every       *)
(* compaction, the PCB and the tasks of one have an owner for as long as   *)
(* they are in use, and tasks are answered in order.                       *)
(***************************************************************************)
EXTENDS Segmentacion, ListasProofs

EnLista == ToSet(segmentos)

\* The segments a patota asks for.
FilaPatota(p) == {Pcb(p), Tareas(p)} \cup {Tcb(<<p, i>>) : i \in 1..Patotas[p].cantidad}

\* The places of a segment hold its owner's data.
Guarda(d) == \A a \in Lugares(d) : memoria[a].de = d

\* The places of a segment hold after the step what it had in some place before.
Copiado(d) == \A a \in Lugares(d)' : \E b \in Lugares(d) : memoria'[a] = memoria[b]

FormaEspacio ==
  /\ segmentos \in Seq(Segmentos)
  /\ seg \in [Segmentos -> [inicio : 0..TAMANIO_MEMORIA, tam : 0..TAMANIO_MEMORIA,
                            libre : BOOLEAN]]
  /\ memoria \in [0..TAMANIO_MEMORIA - 1 -> [de : Segmentos, tarea : Nat]]

FormaTablas ==
  /\ patotas \in Seq(Pids) /\ tabla \in [Pids -> Seq(Tcbs)] /\ liberadas \subseteq Pids
  /\ mutex_trip \subseteq Pids
  /\ ubica \in [pat : Pids, tcb : Tcbs] \cup {Nadie}
  /\ caida \in BOOLEAN

\* Only a compaction has locked segments.
FormaComp ==
  /\ comp \in [fase : {"no", "bloquea"}, tomados : 0..Len(segmentos)]
  /\ comp.fase = "no" => comp.tomados = 0

FormaPedido == [pc : FasesObt, pat : Pids \cup {0}, indice : Nat, tcb : Tcbs \cup {Hueco},
                tarea : Nat, leidas : Nat]

\* A request comes from a crew whose patota was accepted, goes on with one that was, and
\* finds the crew by a TCB of that one.
HalladoEnLaSuya(r) == r.pc = "responde" => r.tcb \in Tcbs /\ r.tcb[2] = r.pat

Pedidos ==
  /\ obt \in [Trips -> FormaPedido]
  /\ \A t \in Trips : /\ obt[t].pc # "libre" => t[1] \in aceptadas
                      /\ obt[t].pc \notin {"libre", "fallo"} => obt[t].pat \in aceptadas
                      /\ HalladoEnLaSuya(obt[t])

\* A segment in use is in the list with the size asked for; the list takes the whole memory.
Reparto ==
  /\ seg[Hueco].libre
  /\ \A d \in Segmentos : ~seg[d].libre => d \in EnLista /\ seg[d].tam = Tam(d)
  /\ \A d \in EnLista : d[2] <= recibidas
  /\ Espacio(EnLista) = TAMANIO_MEMORIA

\* The patota being created has the segments it is not asking for any more.
EnCurso ==
  /\ recibidas \in 0..Len(Patotas) /\ aceptadas \subseteq 1..recibidas
  /\ ini \in [fase : {"libre", "asigna"}, pid : Pids \cup {0}, faltan : Seq(Segmentos),
              compacto : BOOLEAN]
  /\ ini.fase = "libre" => ini.faltan = <<>> /\ ini.pid = 0
  /\ ini.fase = "asigna" =>
       /\ ini.pid = recibidas /\ ini.pid \in Pids \ aceptadas
       /\ IsInjective(ini.faltan) /\ ToSet(ini.faltan) \cap EnLista = {}
       /\ ToSet(ini.faltan) \subseteq FilaPatota(ini.pid)
       /\ FilaPatota(ini.pid) \subseteq ToSet(ini.faltan) \cup EnUso

\* What those it asks for take, and that it fits: after a compaction, in the free segment.
Pide == SumFunctionOnSet([d \in Segmentos |-> Tam(d)], ToSet(ini.faltan))

Cabe ==
  ini.fase = "asigna" => /\ Pide <= MemoriaLibre
                         /\ ini.compacto => Hueco \in EnLista /\ seg[Hueco].tam >= Pide

\* The patotas that nobody has taken apart.
Vigentes == aceptadas \ liberadas

\* A patota has its PCB and its tasks until it is taken apart, and a crew in a table its TCB
\* until it is let go; a thread that takes a patota apart has taken it off the list.
EnSuLugar ==
  /\ IsInjective(patotas) /\ liberadas \subseteq aceptadas /\ ToSet(patotas) \subseteq Vigentes
  /\ \A p \in ToSet(patotas) : \A t \in Trips : obt[t].pat = p => obt[t].pc # "destruye"
  /\ \A p \in Vigentes : /\ ~seg[Pcb(p)].libre /\ ~seg[Tareas(p)].libre
                         /\ Guarda(Pcb(p)) /\ Guarda(Tareas(p))
  /\ \A p \in Pids : /\ tabla[p] # <<>> => p \in aceptadas \cup {ini.pid}
                     /\ \A d \in ToSet(tabla[p]) : d[2] = p /\ (~seg[d].libre => Guarda(d))

Formas == FormaEspacio /\ FormaTablas /\ FormaComp
Inductiva == Formas /\ Pedidos /\ Mosaico /\ Reparto /\ EnCurso /\ Cabe /\ EnSuLugar

-----------------------------------------------------------------------------
(* The names of the segments.                                                *)

\* The patotas and their crews.
LEMMA Pedidas ==
  /\ Pids = 1..Len(Patotas) /\ Len(Patotas) \in Nat
  /\ \A p \in Pids : /\ Patotas[p].cantidad \in Nat \ {0} /\ Patotas[p].longitud \in Nat \ {0}
                     /\ Patotas[p].tareas \in Nat \ {0}
  /\ \A t \in Trips : /\ t[1] \in Pids /\ t = <<t[1], t[2]>>
                      /\ t[2] \in 1..Patotas[t[1]].cantidad
  /\ \A p \in Pids : \A i \in 1..Patotas[p].cantidad : <<p, i>> \in Trips
<1>1. Pids = 1..Len(Patotas) /\ Len(Patotas) \in Nat
  BY ConstantesOK, LenProperties DEF Pids
<1>2. \A p \in Pids :
        Patotas[p] \in [cantidad : Nat \ {0}, longitud : Nat \ {0}, tareas : Nat \ {0}]
  BY <1>1, ConstantesOK, LenProperties
<1> QED BY <1>1, <1>2 DEF Trips

\* Who a segment was given to tells it from every other.
LEMMA Nombres ==
  /\ Hueco \in Segmentos /\ Hueco[2] = 0 /\ Hueco \notin Tcbs
  /\ \A p \in Pids :
       /\ Pcb(p) \in Segmentos /\ Tareas(p) \in Segmentos /\ Pcb(p)[2] = p /\ Tareas(p)[2] = p
       /\ Pcb(p) # Hueco /\ Tareas(p) # Hueco /\ Pcb(p) # Tareas(p)
       /\ Pcb(p) \notin Tcbs /\ Tareas(p) \notin Tcbs
  /\ \A t \in Trips : Tcb(t) \in Tcbs /\ Tcb(t)[2] = t[1]
  /\ Tcbs \subseteq Segmentos
  /\ \A d \in Segmentos : d[2] \in Pids \cup {0}
<1>1. Hueco \in Segmentos /\ Hueco[2] = 0
  BY DEF Segmentos, Hueco
<1>2. \A d \in Tcbs : d # Hueco /\ \A p : d # Pcb(p) /\ d # Tareas(p)
  BY DEF Tcbs, Tcb, Hueco, Pcb, Tareas
<1>3. ASSUME NEW p \in Pids
      PROVE  /\ Pcb(p) \in Segmentos /\ Tareas(p) \in Segmentos
             /\ Pcb(p)[2] = p /\ Tareas(p)[2] = p
             /\ Pcb(p) # Hueco /\ Tareas(p) # Hueco /\ Pcb(p) # Tareas(p)
  <2>1. Pcb(p) \in Segmentos /\ Tareas(p) \in Segmentos
    BY DEF Segmentos
  <2> QED BY <2>1 DEF Hueco, Pcb, Tareas
<1>4. ASSUME NEW t \in Trips
      PROVE  Tcb(t) \in Tcbs /\ Tcb(t)[2] = t[1]
  BY DEF Tcbs, Tcb
<1>5. ASSUME NEW d \in Segmentos
      PROVE  d[2] \in Pids \cup {0}
  <2>1. CASE d \in Tcbs
    <3>1. PICK t \in Trips : d = Tcb(t) BY <2>1 DEF Tcbs
    <3> QED BY <3>1, <1>4, Pedidas
  <2>2. CASE d \notin Tcbs
    BY <2>2, <1>1, <1>3 DEF Segmentos
  <2> QED BY <2>1, <2>2
<1>6. Tcbs \subseteq Segmentos
  BY DEF Segmentos
<1> QED BY <1>1, <1>2, <1>3, <1>4, <1>5, <1>6

\* Every segment that is asked for takes at least one place.
LEMMA Tamanios ==
  /\ \A d \in Segmentos : Tam(d) \in Nat \ {0}
  /\ \A p \in Pids : Tam(Pcb(p)) = tam_pcb /\ Tam(Tareas(p)) = Patotas[p].longitud
  /\ \A t \in Trips : Tam(Tcb(t)) = tam_tcb
<1>1. tam_pcb \in Nat \ {0} /\ tam_tcb \in Nat \ {0}
  BY ConstantesOK
<1>2. \A p \in Pids : Tam(Pcb(p)) = tam_pcb /\ Tam(Tareas(p)) = Patotas[p].longitud
  BY DEF Tam, Pcb, Tareas
<1>3. \A t : Tam(Tcb(t)) = tam_tcb
  BY DEF Tam, Tcb
<1>4. Tam(Hueco) = tam_tcb
  BY DEF Tam, Hueco
<1> QED BY <1>1, <1>2, <1>3, <1>4, Pedidas DEF Segmentos, Tcbs

\* What a patota asks for is its own.
LEMMA FilaPropia ==
  ASSUME NEW p \in Pids
  PROVE  /\ FilaPatota(p) \subseteq Segmentos \ {Hueco}
         /\ Pcb(p) \in FilaPatota(p) /\ Tareas(p) \in FilaPatota(p)
         /\ \A d \in FilaPatota(p) : d[2] = p
<1>1. ASSUME NEW d \in FilaPatota(p)
      PROVE  d \in Segmentos \ {Hueco} /\ d[2] = p
  <2>1. CASE d = Pcb(p) \/ d = Tareas(p)
    BY <2>1, Nombres
  <2>2. CASE \E i \in 1..Patotas[p].cantidad : d = Tcb(<<p, i>>)
    <3>1. PICK i \in 1..Patotas[p].cantidad : d = Tcb(<<p, i>>) BY <2>2
    <3>2. <<p, i>> \in Trips /\ <<p, i>>[1] = p BY Pedidas
    <3> QED BY <3>1, <3>2, Nombres
  <2> QED BY <2>1, <2>2, <1>1 DEF FilaPatota
<1> QED BY <1>1 DEF FilaPatota

-----------------------------------------------------------------------------
(* The list of segments as a tiling of the memory.                           *)

\* The numbers a segment has.
LEMMA Numeros ==
  ASSUME FormaEspacio
  PROVE  /\ TAMANIO_MEMORIA \in Nat \ {0}
         /\ DOMAIN segmentos = 1..Len(segmentos) /\ Len(segmentos) \in Nat
         /\ \A i \in DOMAIN segmentos : segmentos[i] \in Segmentos
         /\ EnLista \subseteq Segmentos /\ EnUso \subseteq EnLista /\ Libres \subseteq EnLista
         /\ \A d \in Segmentos : /\ seg[d].inicio \in Nat /\ seg[d].tam \in Nat
                                 /\ seg[d].inicio <= TAMANIO_MEMORIA
                                 /\ seg[d].tam <= TAMANIO_MEMORIA
                                 /\ seg[d].libre \in BOOLEAN
<1>1. TAMANIO_MEMORIA \in Nat \ {0}
  BY ConstantesOK
<1>2. /\ DOMAIN segmentos = 1..Len(segmentos) /\ Len(segmentos) \in Nat
      /\ \A i \in DOMAIN segmentos : segmentos[i] \in Segmentos
  BY LenProperties DEF FormaEspacio
<1>3. EnLista \subseteq Segmentos /\ EnUso \subseteq EnLista /\ Libres \subseteq EnLista
  BY <1>2 DEF EnLista, EnUso, Libres, ToSet
<1>4. \A d \in Segmentos : seg[d] \in [inicio : 0..TAMANIO_MEMORIA, tam : 0..TAMANIO_MEMORIA,
                                       libre : BOOLEAN]
  BY DEF FormaEspacio
<1> QED BY <1>1, <1>2, <1>3, <1>4

\* Of two segments of the list one ends before the other starts, and none ends outside.
LEMMA Separados ==
  ASSUME FormaEspacio, Mosaico
  PROVE  /\ \A i, j \in DOMAIN segmentos : i < j =>
              seg[segmentos[i]].inicio + seg[segmentos[i]].tam <= seg[segmentos[j]].inicio
         /\ \A c, d \in EnLista : c # d => \/ seg[c].inicio + seg[c].tam <= seg[d].inicio
                                           \/ seg[d].inicio + seg[d].tam <= seg[c].inicio
         /\ \A d \in EnLista : seg[d].inicio + seg[d].tam <= TAMANIO_MEMORIA
<1> DEFINE n == Len(segmentos)
           ini_(i) == seg[segmentos[i]].inicio
           H(i) == seg[segmentos[i]].inicio + seg[segmentos[i]].tam
<1>1. /\ n \in Nat /\ DOMAIN segmentos = 1..n /\ TAMANIO_MEMORIA \in Nat
      /\ \A i \in 1..n : ini_(i) \in Nat /\ H(i) \in Nat /\ ini_(i) <= H(i)
                         /\ segmentos[i] \in Segmentos
  BY Numeros
<1>2. \A i \in 1..n-1 : ini_(i+1) = H(i)
  <2>1. ASSUME NEW i \in 1..n-1
        PROVE  ini_(i+1) = H(i)
    <3>1. i+1 \in 1..n /\ (i+1)-1 = i /\ i # 0 BY <1>1
    <3> QED BY <3>1, <1>1 DEF Mosaico
  <2> QED BY <2>1
<1>3. n > 0 => H(n) = TAMANIO_MEMORIA
  BY <1>1 DEF Mosaico
<1>4. ASSUME NEW i \in 1..n
      PROVE  \A k \in Nat : i + k <= n => H(i) <= H(i+k)
  <2> DEFINE N == {k \in Nat : i + k <= n => H(i) <= H(i+k)}
  <2>1. 0 \in N
    BY <1>1
  <2>2. ASSUME NEW k \in Nat, k \in N
        PROVE  k + 1 \in N
    <3>1. CASE i + k + 1 <= n
      <4>1. i+k \in 1..n-1 /\ i+k <= n /\ i+k+1 \in 1..n /\ i + (k+1) = i+k+1
        BY <3>1, <1>1
      <4>2. H(i) <= H(i+k) /\ ini_(i+k+1) = H(i+k)
        BY <4>1, <2>2, <1>2
      <4>3. H(i) \in Nat /\ H(i+k) \in Nat /\ H(i+k+1) \in Nat /\ ini_(i+k+1) <= H(i+k+1)
        BY <4>1, <1>1
      <4> HIDE DEF H, ini_
      <4> QED BY <4>1, <4>2, <4>3
    <3>2. CASE ~(i + k + 1 <= n)
      <4>1. ~(i + (k + 1) <= n) BY <3>2, <1>1
      <4> QED BY <4>1
    <3> QED BY <3>1, <3>2
  <2>3. Nat \subseteq N
    <3> HIDE DEF N
    <3> QED BY <2>1, <2>2, Induccion
  <2> QED BY <2>3
<1> HIDE DEF H, ini_, n
<1>5. ASSUME NEW i \in 1..n, NEW j \in 1..n, i < j
      PROVE  H(i) <= ini_(j)
  <2>1. j-1 \in 1..n-1 /\ j-1-i \in Nat /\ i + (j-1-i) = j-1 /\ (j-1)+1 = j /\ j-1 <= n
    BY <1>1, <1>5
  <2>2. H(i) <= H(j-1)
    BY <2>1, <1>4
  <2> QED BY <2>1, <2>2, <1>2
<1>6. ASSUME NEW i \in 1..n
      PROVE  H(i) <= TAMANIO_MEMORIA
  <2>1. n-i \in Nat /\ i + (n-i) = n /\ n > 0 /\ n <= n
    BY <1>1
  <2> QED BY <2>1, <1>3, <1>4
<1>7. \A d \in EnLista : \E i \in 1..n : d = segmentos[i]
  BY <1>1 DEF EnLista, ToSet
<1>8. ASSUME NEW c \in EnLista, NEW d \in EnLista, c # d
      PROVE  \/ seg[c].inicio + seg[c].tam <= seg[d].inicio
             \/ seg[d].inicio + seg[d].tam <= seg[c].inicio
  <2>1. PICK i \in 1..n, j \in 1..n : c = segmentos[i] /\ d = segmentos[j]
    BY <1>7
  <2>2. i < j \/ j < i
    <3>1. i # j BY <2>1, <1>8
    <3> QED BY <3>1, <1>1
  <2> QED BY <2>1, <2>2, <1>5 DEF H, ini_
<1>9. \A d \in EnLista : seg[d].inicio + seg[d].tam <= TAMANIO_MEMORIA
  BY <1>6, <1>7 DEF H
<1> QED BY <1>1, <1>5, <1>8, <1>9 DEF H, ini_

\* Segments of the list share no place.
LEMMA LugaresAjenos ==
  ASSUME FormaEspacio, Mosaico, NEW c \in EnLista, NEW d \in EnLista, c # d
  PROVE  Lugares(c) \cap Lugares(d) = {}
<1>1. c \in Segmentos /\ d \in Segmentos
  BY Numeros
<1>2. PICK i \in Nat, n \in Nat, j \in Nat, m \in Nat :
        /\ i = seg[c].inicio /\ n = seg[c].tam /\ j = seg[d].inicio /\ m = seg[d].tam
  BY <1>1, Numeros
<1>3. i + n <= j \/ j + m <= i
  BY <1>2, Separados
<1>4. Lugares(c) = i..i+n-1 /\ Lugares(d) = j..j+m-1
  BY <1>2 DEF Lugares
<1> QED BY ONLY <1>3, <1>4, i \in Nat, n \in Nat, j \in Nat, m \in Nat

\* The places of a segment of the list are the memory's.
LEMMA LugaresDentro ==
  ASSUME FormaEspacio, Mosaico, NEW d \in EnLista
  PROVE  Lugares(d) \subseteq DOMAIN memoria
<1>1. d \in Segmentos /\ DOMAIN memoria = 0..TAMANIO_MEMORIA - 1
  BY Numeros DEF FormaEspacio
<1>2. PICK i \in Nat, n \in Nat, m \in Nat :
        i = seg[d].inicio /\ n = seg[d].tam /\ m = TAMANIO_MEMORIA
  BY <1>1, Numeros
<1>3. i + n <= m
  BY <1>2, Separados
<1>4. Lugares(d) = i..i+n-1 /\ DOMAIN memoria = 0..m-1
  BY <1>1, <1>2 DEF Lugares
<1> QED BY ONLY <1>3, <1>4, i \in Nat, n \in Nat, m \in Nat

\* Adding up the places of segments of the list.
LEMMA Espacios ==
  ASSUME FormaEspacio
  PROVE  /\ IsFiniteSet(EnLista) /\ Espacio({}) = 0
         /\ \A S \in SUBSET EnLista :
              /\ IsFiniteSet(S) /\ Espacio(S) \in Nat
              /\ \A T \in SUBSET S : Espacio(T) <= Espacio(S)
              /\ \A d \in EnLista \ S : Espacio(S \cup {d}) = Espacio(S) + seg[d].tam
         /\ MemoriaLibre \in Nat /\ Espacio(EnUso) \in Nat
         /\ Espacio(EnLista) = MemoriaLibre + Espacio(EnUso)
<1> DEFINE f == [d \in Segmentos |-> seg[d].tam]
<1>1. IsFiniteSet(EnLista) /\ EnLista \subseteq Segmentos
  BY ElementosFinitos DEF FormaEspacio, EnLista
<1>2. \A d \in EnLista : f[d] = seg[d].tam /\ f[d] \in Nat
  BY <1>1, Numeros
<1>3. \A S : Espacio(S) = SumFunctionOnSet(f, S)
  BY DEF Espacio
<1> HIDE DEF f
<1>4. Espacio({}) = 0
  BY <1>3, SumaCero
<1>5. ASSUME NEW S \in SUBSET EnLista
      PROVE  /\ IsFiniteSet(S) /\ Espacio(S) \in Nat
             /\ \A T \in SUBSET S : Espacio(T) <= Espacio(S)
             /\ \A d \in EnLista \ S : Espacio(S \cup {d}) = Espacio(S) + seg[d].tam
  <2>1. IsFiniteSet(S) /\ \A y \in S : f[y] \in Nat
    BY <1>1, <1>2, FS_Subset
  <2>2. ASSUME NEW T \in SUBSET S
        PROVE  Espacio(S) \in Nat /\ Espacio(T) <= Espacio(S)
    <3>1. /\ SumFunctionOnSet(f, S) \in Nat
          /\ SumFunctionOnSet(f, T) <= SumFunctionOnSet(f, S)
      BY <2>1, SumaMenor
    <3> QED BY <3>1, <1>3
  <2>3. ASSUME NEW d \in EnLista \ S
        PROVE  Espacio(S \cup {d}) = Espacio(S) + seg[d].tam
    <3>1. \A y \in S \cup {d} : f[y] \in Int
      BY <1>2
    <3>2. SumFunctionOnSet(f, S \cup {d}) = SumFunctionOnSet(f, S) + f[d]
      BY <2>1, <3>1, SumaCon
    <3> QED BY <3>2, <1>2, <1>3
  <2> QED BY <2>1, <2>2, <2>3
<1>6. Libres \in SUBSET EnLista /\ EnUso \in SUBSET EnLista
      /\ Libres \cap EnUso = {} /\ Libres \cup EnUso = EnLista
  BY DEF EnUso, Libres, EnLista
<1>7. Espacio(EnLista) = MemoriaLibre + Espacio(EnUso)
  <2>1. \A y \in Libres \cup EnUso : f[y] \in Int
    BY <1>2, <1>6
  <2>2. SumFunctionOnSet(f, Libres \cup EnUso)
          = SumFunctionOnSet(f, Libres) + SumFunctionOnSet(f, EnUso)
    BY <1>5, <1>6, <2>1, SumaUnion
  <2> QED BY <2>2, <1>3, <1>6 DEF MemoriaLibre
<1> QED BY <1>1, <1>4, <1>5, <1>6, <1>7 DEF MemoriaLibre

-----------------------------------------------------------------------------
(* What most steps do to the memory: nothing, or free some segments.         *)

\* Nothing moves and nobody's data change; the segments of S are freed.
Suelta(S) ==
  /\ UNCHANGED <<segmentos, altas>>
  /\ seg' \in [Segmentos -> [inicio : 0..TAMANIO_MEMORIA, tam : 0..TAMANIO_MEMORIA,
                             libre : BOOLEAN]]
  /\ \A d \in Segmentos : /\ seg'[d].inicio = seg[d].inicio /\ seg'[d].tam = seg[d].tam
                          /\ d \in S => seg'[d].libre
                          /\ d \notin S => seg'[d].libre = seg[d].libre
  /\ memoria' \in [0..TAMANIO_MEMORIA - 1 -> [de : Segmentos, tarea : Nat]]
  /\ \A a \in DOMAIN memoria : memoria'[a].de = memoria[a].de

\* Freeing what accepted patotas have keeps the tiling, and the promise to the one that is
\* being created.
LEMMA SoltarEspacio ==
  ASSUME FormaEspacio, Mosaico, Reparto, EnCurso, Cabe,
         NEW S, S \subseteq Segmentos, \A d \in S : d[2] \in aceptadas, Suelta(S)
  PROVE  FormaEspacio' /\ Mosaico' /\ Reparto' /\ EnCurso' /\ Cabe'
<1>1. /\ segmentos' = segmentos /\ ini' = ini /\ recibidas' = recibidas
      /\ aceptadas' = aceptadas /\ EnLista' = EnLista
      /\ \A d \in Segmentos : /\ seg'[d].inicio = seg[d].inicio /\ seg'[d].tam = seg[d].tam
                              /\ d \in S => seg'[d].libre
                              /\ d \notin S => seg'[d].libre = seg[d].libre
  BY DEF Suelta, altas, EnLista
<1>2. FormaEspacio'
  BY <1>1 DEF FormaEspacio, Suelta
<1>3. EnLista \subseteq Segmentos /\ \A i \in DOMAIN segmentos : segmentos[i] \in Segmentos
  BY Numeros
<1>4. Mosaico'
  <2>1. DOMAIN segmentos = 1..Len(segmentos) /\ Len(segmentos) \in Nat
    BY Numeros
  <2>2. \A i \in DOMAIN segmentos : i-1 # 0 => i-1 \in DOMAIN segmentos
    BY <2>1
  <2>3. Len(segmentos) # 0 => Len(segmentos) \in DOMAIN segmentos
    BY <2>1
  <2> QED BY <1>1, <1>3, <2>2, <2>3 DEF Mosaico
<1>5. \A X : Espacio(X)' = Espacio(X)
  <2>1. [d \in Segmentos |-> seg'[d].tam] = [d \in Segmentos |-> seg[d].tam]
    BY <1>1
  <2> QED BY <2>1 DEF Espacio
<1>6. seg'[Hueco].libre
  BY <1>1, Nombres DEF Reparto
<1>7. Reparto'
  <2>1. Espacio(EnLista') = Espacio(EnLista)
    BY <1>1
  <2>2. Espacio(EnLista)' = TAMANIO_MEMORIA
    BY <1>1, <1>5, <2>1 DEF Reparto, Espacio
  <2>3. \A d \in Segmentos : ~seg'[d].libre => d \in EnLista /\ seg'[d].tam = Tam(d)
    BY <1>1 DEF Reparto
  <2> QED BY <1>1, <1>6, <2>2, <2>3 DEF Reparto
<1>8. Libres \subseteq Libres' /\ Libres' \subseteq EnLista
  BY <1>1, <1>3 DEF Libres, EnLista
<1>9. ini.fase = "asigna" => FilaPatota(ini.pid) \cap S = {}
  BY FilaPropia DEF EnCurso
<1>10. EnCurso'
  <2>1. ASSUME ini.fase = "asigna"
        PROVE  FilaPatota(ini.pid) \subseteq ToSet(ini.faltan) \cup EnUso'
    <3>1. EnUso \ S \subseteq EnUso'
      BY <1>1, <1>3 DEF EnUso, Libres, EnLista
    <3> QED BY <2>1, <3>1, <1>9 DEF EnCurso
  <2> QED BY <1>1, <2>1 DEF EnCurso
<1>11. Cabe'
  <2>1. MemoriaLibre \in Nat /\ MemoriaLibre' \in Nat /\ MemoriaLibre <= MemoriaLibre'
    <3>1. MemoriaLibre' = Espacio(Libres')
      BY <1>5 DEF MemoriaLibre, Espacio
    <3> QED BY <3>1, <1>8, Espacios DEF MemoriaLibre
  <2>2. Pide' = Pide
    BY <1>1 DEF Pide
  <2>3. seg'[Hueco].tam = seg[Hueco].tam
    BY <1>1, Nombres
  <2>4. Cabe => (ini.fase = "asigna" => Pide <= MemoriaLibre')
    <3>1. ASSUME ini.fase = "asigna" PROVE Pide \in Nat
      <4>1. ini.faltan \in Seq(Segmentos) BY DEF EnCurso
      <4>2. IsFiniteSet(ToSet(ini.faltan)) /\ ToSet(ini.faltan) \subseteq Segmentos
        BY <4>1, ElementosFinitos
      <4> DEFINE f == [d \in Segmentos |-> Tam(d)]
      <4>3. \A d \in ToSet(ini.faltan) : f[d] \in Nat
        BY <4>2, Tamanios
      <4> HIDE DEF f
      <4>4. SumFunctionOnSet(f, ToSet(ini.faltan)) \in Nat
        BY <4>2, <4>3, SumaMenor
      <4> QED BY <4>4 DEF Pide, f
    <3> QED BY <2>1, <3>1 DEF Cabe
  <2> QED BY <1>1, <2>2, <2>3, <2>4 DEF Cabe
<1> QED BY <1>2, <1>4, <1>7, <1>10, <1>11

\* The accepted patotas are patotas.
LEMMA AceptadasPids ==
  ASSUME EnCurso
  PROVE  aceptadas \subseteq Pids /\ Vigentes \subseteq Pids
BY Pedidas DEF EnCurso, Vigentes

\* Those that are not taken apart keep what they have.
Conservan(S) ==
  /\ liberadas \subseteq liberadas' /\ liberadas' \subseteq aceptadas
  /\ ToSet(patotas') \cap liberadas' = {}
  /\ \A p \in aceptadas \ liberadas' : Pcb(p) \notin S /\ Tareas(p) \notin S

\* Nor does it touch what those not taken apart, or in a table, have stored.
LEMMA SoltarContenido ==
  ASSUME FormaEspacio, FormaTablas, Mosaico, Reparto, EnCurso, EnSuLugar, NEW S, Suelta(S),
         IsInjective(patotas'), ToSet(patotas') \subseteq ToSet(patotas),
         \A p \in Pids : /\ ToSet(tabla'[p]) \subseteq ToSet(tabla[p])
                         /\ tabla'[p] # <<>> => tabla[p] # <<>>,
         Conservan(S),
         \A p \in ToSet(patotas') : \A t \in Trips : obt'[t].pat = p => obt'[t].pc # "destruye"
  PROVE  EnSuLugar'
<1>1. /\ ini' = ini /\ aceptadas' = aceptadas
      /\ \A d \in Segmentos : /\ seg'[d].inicio = seg[d].inicio /\ seg'[d].tam = seg[d].tam
                              /\ d \in S => seg'[d].libre
                              /\ d \notin S => seg'[d].libre = seg[d].libre
      /\ \A a \in DOMAIN memoria : memoria'[a].de = memoria[a].de
  BY DEF Suelta, altas
<1>2. ASSUME NEW d \in Segmentos, ~seg[d].libre, Guarda(d)
      PROVE  Guarda(d)'
  <2>1. d \in EnLista
    BY <1>2 DEF Reparto
  <2>2. Lugares(d)' = Lugares(d) /\ Lugares(d) \subseteq DOMAIN memoria
    BY <1>1, <2>1, LugaresDentro DEF Lugares
  <2> QED BY <1>1, <1>2, <2>2 DEF Guarda
<1>3. \A p \in Pids : ToSet(tabla[p]) \subseteq Tcbs
  BY ElementosFinitos DEF FormaTablas
<1>4. ASSUME NEW p \in aceptadas \ liberadas'
      PROVE  /\ ~seg'[Pcb(p)].libre /\ ~seg'[Tareas(p)].libre
             /\ Guarda(Pcb(p))' /\ Guarda(Tareas(p))'
  <2>1. p \in Vigentes /\ p \in Pids /\ Pcb(p) \notin S /\ Tareas(p) \notin S
    BY <1>4, AceptadasPids DEF Conservan, Vigentes
  <2>2. Pcb(p) \in Segmentos /\ Tareas(p) \in Segmentos
    BY <2>1, Nombres
  <2>3. /\ ~seg[Pcb(p)].libre /\ ~seg[Tareas(p)].libre
        /\ Guarda(Pcb(p)) /\ Guarda(Tareas(p))
    BY <2>1 DEF EnSuLugar
  <2>4. Guarda(Pcb(p))'
    BY <2>2, <2>3, <1>2
  <2>5. Guarda(Tareas(p))'
    BY <2>2, <2>3, <1>2
  <2> QED BY <1>1, <2>1, <2>2, <2>3, <2>4, <2>5
<1>5. ASSUME NEW p \in Pids, NEW d \in ToSet(tabla'[p])
      PROVE  d[2] = p /\ (~seg'[d].libre => Guarda(d)')
  <2>1. d \in ToSet(tabla[p]) /\ d \in Segmentos
    BY <1>3, Nombres
  <2>2. d[2] = p /\ (~seg[d].libre => Guarda(d))
    BY <2>1 DEF EnSuLugar
  <2>3. ~seg'[d].libre => ~seg[d].libre
    BY <1>1, <2>1
  <2> QED BY <2>1, <2>2, <2>3, <1>2
<1>6. \A p \in Pids : tabla'[p] # <<>> => p \in aceptadas' \cup {ini'.pid}
  BY <1>1 DEF EnSuLugar
<1>7. ToSet(patotas') \subseteq Vigentes' /\ liberadas' \subseteq aceptadas'
  BY <1>1 DEF EnSuLugar, Conservan, Vigentes
<1>8. Vigentes' = aceptadas \ liberadas'
  BY <1>1 DEF Vigentes
<1> QED BY <1>4, <1>5, <1>6, <1>7, <1>8 DEF EnSuLugar

\* A step that leaves memory, tables and the patota being created as they are.
LEMMA PasoQuieto ==
  ASSUME Inductiva, UNCHANGED <<espacio, tablas, altas>>,
         \A t \in Trips : obt'[t].pc = "destruye" =>
           obt[t].pc = "destruye" /\ obt'[t].pat = obt[t].pat
  PROVE  FormaEspacio' /\ Mosaico' /\ Reparto' /\ EnCurso' /\ Cabe' /\ EnSuLugar'
<1> USE DEF Inductiva, Formas
<1>1. Suelta({})
  BY DEF Suelta, espacio, FormaEspacio
<1>2. FormaEspacio' /\ Mosaico' /\ Reparto' /\ EnCurso' /\ Cabe'
  BY <1>1, SoltarEspacio
<1>3. patotas' = patotas /\ tabla' = tabla
  BY DEF tablas
<1>4. IsInjective(patotas') /\ ToSet(patotas') \subseteq ToSet(patotas)
  BY <1>3 DEF EnSuLugar
<1>5. \A p \in Pids : /\ ToSet(tabla'[p]) \subseteq ToSet(tabla[p])
                      /\ tabla'[p] # <<>> => tabla[p] # <<>>
  BY <1>3
<1>6. /\ \A p \in ToSet(patotas') : \A t \in Trips :
           obt'[t].pat = p => obt'[t].pc # "destruye"
      /\ Conservan({})
  BY <1>3 DEF EnSuLugar, Conservan, Vigentes, tablas
<1>7. EnSuLugar'
  BY <1>1, <1>4, <1>5, <1>6, SoltarContenido
<1> QED BY <1>2, <1>7

-----------------------------------------------------------------------------
(* The steps that leave the memory as it is.                                 *)

\* Finding the crew whose place is to be written.
LEMMA PasoBuscarParaUbicar ==
  ASSUME Inductiva, NEW t \in Trips, BuscarParaUbicar(t)
  PROVE  Inductiva'
<1> USE DEF Inductiva, Formas
<1>1. UNCHANGED <<espacio, tablas, altas, compactacion, obt, caida>>
  BY DEF BuscarParaUbicar
<1>2. FormaEspacio' /\ Mosaico' /\ Reparto' /\ EnCurso' /\ Cabe' /\ EnSuLugar'
  BY <1>1, PasoQuieto
<1>3. FormaTablas'
  <2>1. PICK i \in DOMAIN patotas : \E j \in DOMAIN tabla[patotas[i]] :
          /\ mutex_trip' = mutex_trip \cup {patotas[i]}
          /\ ubica' = [pat |-> patotas[i], tcb |-> tabla[patotas[i]][j]]
    BY DEF BuscarParaUbicar
  <2>2. PICK j \in DOMAIN tabla[patotas[i]] :
          /\ mutex_trip' = mutex_trip \cup {patotas[i]}
          /\ ubica' = [pat |-> patotas[i], tcb |-> tabla[patotas[i]][j]]
    BY <2>1
  <2>3. patotas[i] \in Pids /\ tabla[patotas[i]][j] \in Tcbs
    BY <2>1, <2>2, SacarSeq DEF FormaTablas
  <2> QED BY <1>1, <2>2, <2>3 DEF FormaTablas, tablas
<1>4. FormaComp' /\ Pedidos'
  BY <1>1 DEF FormaComp, Pedidos, compactacion, espacio, altas
<1> QED BY <1>2, <1>3, <1>4

\* Writing it.
LEMMA PasoEscribirUbicacion ==
  ASSUME Inductiva, EscribirUbicacion
  PROVE  Inductiva'
<1> USE DEF Inductiva, Formas
<1>1. /\ UNCHANGED <<espacio, tablas, altas, compactacion, obt, caida>>
      /\ ubica' = Nadie /\ mutex_trip' = mutex_trip \ {ubica.pat}
  BY DEF EscribirUbicacion
<1>2. FormaEspacio' /\ Mosaico' /\ Reparto' /\ EnCurso' /\ Cabe' /\ EnSuLugar'
  BY <1>1, PasoQuieto
<1>3. FormaTablas'
  BY <1>1 DEF FormaTablas, tablas
<1>4. FormaComp' /\ Pedidos'
  BY <1>1 DEF FormaComp, Pedidos, compactacion, espacio, altas
<1> QED BY <1>2, <1>3, <1>4

\* The request of one crew goes on, with a patota that was accepted.
Sigue(t) ==
  /\ \A u \in Trips \ {t} : obt'[u] = obt[u]
  /\ obt' \in [Trips -> FormaPedido]
  /\ obt'[t].pc # "libre" => t[1] \in aceptadas
  /\ obt'[t].pc \notin {"libre", "fallo"} => obt'[t].pat \in aceptadas
  /\ HalladoEnLaSuya(obt'[t])

\* A request that found its patota.
LEMMA PedidoEnPatota ==
  ASSUME Inductiva, NEW t \in Trips, obt[t].pc \notin {"libre", "fallo"}
  PROVE  /\ obt \in [Trips -> FormaPedido]
         /\ t[1] \in aceptadas /\ obt[t].pat \in aceptadas /\ obt[t].pat \in Pids
         /\ aceptadas \subseteq Pids
<1>1. aceptadas \subseteq Pids
  BY Pedidas DEF Inductiva, EnCurso
<1> QED BY <1>1 DEF Inductiva, Pedidos

\* A step of a request that only reads.
LEMMA PasoLee ==
  ASSUME Inductiva, NEW t \in Trips, Sigue(t), obt'[t].pc # "destruye",
         UNCHANGED <<espacio, tablas, altas, compactacion, ubica>>,
         mutex_trip' \subseteq mutex_trip, caida' \in BOOLEAN
  PROVE  Inductiva'
<1> USE DEF Inductiva, Formas
<1>1. \A u \in Trips : obt'[u].pc = "destruye" =>
        obt[u].pc = "destruye" /\ obt'[u].pat = obt[u].pat
  BY DEF Sigue
<1>2. FormaEspacio' /\ Mosaico' /\ Reparto' /\ EnCurso' /\ Cabe' /\ EnSuLugar'
  BY <1>1, PasoQuieto
<1>3. FormaTablas' /\ FormaComp'
  BY DEF FormaTablas, tablas, FormaComp, compactacion, espacio
<1>4. Pedidos'
  BY DEF Pedidos, Sigue, altas
<1> QED BY <1>2, <1>3, <1>4

\* What its request becomes.
LEMMA SigueUno ==
  ASSUME Pedidos, NEW t \in Trips, t[1] \in aceptadas, NEW r \in FormaPedido,
         obt' = [obt EXCEPT ![t] = r], r.pc # "destruye",
         r.pc \notin {"libre", "fallo"} => r.pat \in aceptadas, HalladoEnLaSuya(r)
  PROVE  Sigue(t) /\ obt'[t].pc # "destruye"
<1>1. obt \in [Trips -> FormaPedido]
  BY DEF Pedidos, FormaPedido
<1>2. obt'[t] = r /\ \A u \in Trips \ {t} : obt'[u] = obt[u]
  BY ONLY <1>1, obt' = [obt EXCEPT ![t] = r], t \in Trips
<1>3. obt' \in [Trips -> FormaPedido]
  BY ONLY <1>1, obt' = [obt EXCEPT ![t] = r], r \in FormaPedido
<1> QED BY <1>2, <1>3 DEF Sigue, FormaPedido

\* Going to another of its steps, but not to take the patota apart.
LEMMA SigueFase ==
  ASSUME Inductiva, NEW t \in Trips, obt[t].pc \notin {"libre", "fallo"},
         NEW c \in FasesObt \ {"libre", "responde", "destruye"}, obt' = [obt EXCEPT ![t].pc = c]
  PROVE  Sigue(t) /\ obt'[t].pc # "destruye"
<1>1. obt \in [Trips -> FormaPedido] /\ t[1] \in aceptadas /\ obt[t].pat \in aceptadas
  BY PedidoEnPatota
<1>2. PICK r : r = [obt[t] EXCEPT !.pc = c]
  OBVIOUS
<1>3. r \in FormaPedido /\ r.pc = c /\ r.pat = obt[t].pat
  BY ONLY <1>1, <1>2, t \in Trips, c \in FasesObt DEF FormaPedido
<1>4. obt' = [obt EXCEPT ![t] = r]
  BY ONLY <1>1, <1>2, obt' = [obt EXCEPT ![t].pc = c], t \in Trips
<1> QED BY <1>1, <1>3, <1>4, SigueUno DEF HalladoEnLaSuya, Inductiva

\* A request for the next task: the patota it goes on with is in the list.
LEMMA PasoBuscarPatotaConTid ==
  ASSUME Inductiva, NEW t \in Trips, BuscarPatotaConTid(t)
  PROVE  Inductiva'
<1> USE DEF Inductiva, Formas
<1>1. /\ UNCHANGED <<espacio, tablas, mutex_trip, altas, compactacion, ubica, caida>>
      /\ t[1] \in aceptadas
  BY DEF BuscarPatotaConTid
<1>2. Sigue(t) /\ obt'[t].pc # "destruye"
  <2>1. CASE obt' = [obt EXCEPT ![t].pc = "fallo"]
    <3>1. obt \in [Trips -> FormaPedido]
      BY DEF Pedidos
    <3>2. PICK r : r = [obt[t] EXCEPT !.pc = "fallo"]
      OBVIOUS
    <3>3. r \in FormaPedido /\ r.pc = "fallo"
      BY ONLY <3>1, <3>2, t \in Trips DEF FormaPedido, FasesObt, Saliendo
    <3>4. obt' = [obt EXCEPT ![t] = r]
      BY ONLY <2>1, <3>1, <3>2, t \in Trips
    <3> QED BY <1>1, <3>3, <3>4, SigueUno DEF HalladoEnLaSuya
  <2>2. CASE \E i \in DOMAIN patotas :
               obt' = [obt EXCEPT ![t].pc = "copia", ![t].pat = patotas[i]]
    <3>1. PICK i \in DOMAIN patotas :
            obt' = [obt EXCEPT ![t].pc = "copia", ![t].pat = patotas[i]]
      BY <2>2
    <3>2. patotas[i] \in Pids /\ patotas[i] \in aceptadas
      BY SacarSeq DEF FormaTablas, EnSuLugar, Vigentes, ToSet
    <3>3. PICK r : r = [obt[t] EXCEPT !.pc = "copia", !.pat = patotas[i]]
      OBVIOUS
    <3>4. obt \in [Trips -> FormaPedido]
      BY DEF Pedidos, FormaPedido
    <3>5. r \in FormaPedido /\ r.pc = "copia" /\ r.pat = patotas[i]
      BY ONLY <3>2, <3>3, <3>4, t \in Trips DEF FormaPedido, FasesObt, Saliendo
    <3>6. obt' = [obt EXCEPT ![t] = r]
      BY ONLY <3>1, <3>3, <3>4, t \in Trips
    <3> QED BY <1>1, <3>2, <3>5, <3>6, SigueUno DEF HalladoEnLaSuya
  <2> QED BY <2>1, <2>2 DEF BuscarPatotaConTid
<1> QED BY <1>1, <1>2, PasoLee DEF FormaTablas

\* Copying the tasks reads only.
LEMMA PasoCopiarTareas ==
  ASSUME Inductiva, NEW t \in Trips, CopiarTareas(t)
  PROVE  Inductiva'
<1> USE DEF Inductiva, Formas
<1>1. UNCHANGED <<espacio, tablas, mutex_trip, altas, compactacion, ubica, caida>>
  BY DEF CopiarTareas
<1>2. obt[t].pc = "copia"
  BY DEF CopiarTareas, EnObt
<1>3. PICK n : /\ obt' = [obt EXCEPT ![t].pc = "indice", ![t].leidas = n]
               /\ n = LET texto == Leer(Tareas(obt[t].pat)).de IN
                        IF texto[1] = "tareas" THEN Patotas[texto[2]].tareas ELSE 0
  BY DEF CopiarTareas
<1>4. n \in Nat
  <2> DEFINE texto == Leer(Tareas(obt[t].pat)).de
  <2>1. obt[t].pat \in Pids
    BY <1>2, PedidoEnPatota
  <2>2. texto \in Segmentos
    <3>1. seg[Tareas(obt[t].pat)].inicio \in Nat
      BY <2>1, Nombres, Numeros
    <3>2. seg[Tareas(obt[t].pat)].inicio < TAMANIO_MEMORIA =>
            seg[Tareas(obt[t].pat)].inicio \in 0..TAMANIO_MEMORIA - 1
      BY <3>1, Numeros
    <3> QED BY <3>2, Nombres DEF Leer, Nada, FormaEspacio
  <2>3. texto[1] = "tareas" => Patotas[texto[2]].tareas \in Nat
    <3>1. ASSUME texto[1] = "tareas", NEW d, d = texto
          PROVE  d[2] \in Pids
      <4>1. d # Hueco /\ d \notin Tcbs /\ \A p \in Pids : d # Pcb(p)
        BY <3>1 DEF Hueco, Pcb, Tcbs, Tcb
      <4>2. PICK p \in Pids : d = Tareas(p)
        BY <2>2, <3>1, <4>1 DEF Segmentos
      <4> QED BY <4>2, Nombres
    <3> HIDE DEF texto
    <3> QED BY <3>1, Pedidas
  <2> HIDE DEF texto
  <2> QED BY <1>3, <2>3 DEF texto
<1>5. Sigue(t) /\ obt'[t].pc # "destruye"
  <2>1. obt' = [obt EXCEPT ![t].pc = "indice", ![t].leidas = n]
    BY <1>3
  <2>2. PICK r : r = [obt[t] EXCEPT !.pc = "indice", !.leidas = n]
    OBVIOUS
  <2>3. obt \in [Trips -> FormaPedido] /\ t[1] \in aceptadas /\ obt[t].pat \in aceptadas
    BY <1>2 DEF Pedidos, FormaPedido
  <2>4. r \in FormaPedido /\ r.pc = "indice" /\ r.pat = obt[t].pat
    BY ONLY <1>4, <2>2, <2>3, t \in Trips DEF FormaPedido, FasesObt, Saliendo
  <2>5. obt' = [obt EXCEPT ![t] = r]
    BY ONLY <2>1, <2>2, <2>3, t \in Trips
  <2> QED BY <2>3, <2>4, <2>5, SigueUno DEF HalladoEnLaSuya
<1> QED BY <1>1, <1>5, PasoLee DEF FormaTablas

\* So does reading the crew's place in the table.
LEMMA PasoLeerIndice ==
  ASSUME Inductiva, NEW t \in Trips, LeerIndice(t)
  PROVE  Inductiva'
<1> USE DEF Inductiva, Formas
<1>1. UNCHANGED <<espacio, tablas, mutex_trip, altas, compactacion, ubica, caida>>
  BY DEF LeerIndice
<1>2. obt[t].pc = "indice" /\ obt[t].pat \in Pids /\ obt[t].pat \in aceptadas
  <2>1. obt[t].pc = "indice" BY DEF LeerIndice, EnObt
  <2> QED BY <2>1, PedidoEnPatota
<1>3. Sigue(t) /\ obt'[t].pc # "destruye"
  <2>1. CASE obt' = [obt EXCEPT ![t].pc = "avanza", ![t].tarea = 0]
    <3>1. PICK r : r = [obt[t] EXCEPT !.pc = "avanza", !.tarea = 0]
      OBVIOUS
    <3>2. obt \in [Trips -> FormaPedido] /\ t[1] \in aceptadas
      BY <1>2 DEF Pedidos, FormaPedido
    <3>3. r \in FormaPedido /\ r.pc = "avanza" /\ r.pat = obt[t].pat
      BY ONLY <3>1, <3>2, t \in Trips DEF FormaPedido, FasesObt, Saliendo
    <3>4. obt' = [obt EXCEPT ![t] = r]
      BY ONLY <2>1, <3>1, <3>2, t \in Trips
    <3> QED BY <1>2, <3>2, <3>3, <3>4, SigueUno DEF HalladoEnLaSuya
  <2>2. CASE \E j \in DOMAIN tabla[obt[t].pat] :
               obt' = [obt EXCEPT ![t].pc = "responde", ![t].indice = j,
                                  ![t].tcb = tabla[obt[t].pat][j],
                                  ![t].tarea = Leer(tabla[obt[t].pat][j]).tarea]
    <3>1. PICK j \in DOMAIN tabla[obt[t].pat] :
            obt' = [obt EXCEPT ![t].pc = "responde", ![t].indice = j,
                               ![t].tcb = tabla[obt[t].pat][j],
                               ![t].tarea = Leer(tabla[obt[t].pat][j]).tarea]
      BY <2>2
    <3>2. tabla[obt[t].pat] \in Seq(Tcbs)
      BY <1>2 DEF FormaTablas
    <3>3. j \in Nat
      BY <3>1, <3>2, LenProperties
    <3>4. PICK d \in Tcbs : d = tabla[obt[t].pat][j] /\ d \in Segmentos /\ d[2] = obt[t].pat
      <4>1. tabla[obt[t].pat][j] \in Tcbs /\ tabla[obt[t].pat][j] \in ToSet(tabla[obt[t].pat])
        BY <3>1, <3>2, SacarToSet
      <4> QED BY <1>2, <4>1, Nombres DEF EnSuLugar
    <3>5. PICK n \in Nat : n = Leer(d).tarea
      <4>1. seg[d].inicio \in Nat
        BY <3>4, Numeros
      <4>2. seg[d].inicio < TAMANIO_MEMORIA => seg[d].inicio \in 0..TAMANIO_MEMORIA - 1
        BY <4>1, Numeros
      <4> QED BY <4>2 DEF Leer, Nada, FormaEspacio
    <3>6. obt' = [obt EXCEPT ![t].pc = "responde", ![t].indice = j, ![t].tcb = d,
                             ![t].tarea = n]
      BY <3>1, <3>4, <3>5
    <3>7. obt \in [Trips -> FormaPedido] /\ t[1] \in aceptadas
      BY <1>2, PedidoEnPatota
    <3>8. PICK r : r = [obt[t] EXCEPT !.pc = "responde", !.indice = j, !.tcb = d, !.tarea = n]
      OBVIOUS
    <3>9. /\ r \in FormaPedido /\ r.pc = "responde" /\ r.pat = obt[t].pat
          /\ r.tcb = d
      <4>1. obt[t] \in FormaPedido
        BY <3>7
      <4>2. "responde" \in FasesObt
        BY DEF FasesObt
      <4> QED BY ONLY <3>3, <3>8, <4>1, <4>2, n \in Nat, d \in Tcbs DEF FormaPedido
    <3>10. obt' = [obt EXCEPT ![t] = r]
      BY ONLY <3>6, <3>7, <3>8, t \in Trips
    <3>11. HalladoEnLaSuya(r)
      BY <3>4, <3>9 DEF HalladoEnLaSuya
    <3> QED BY <1>2, <3>7, <3>9, <3>10, <3>11, SigueUno
  <2> QED BY <2>1, <2>2 DEF LeerIndice
<1> QED BY <1>1, <1>3, PasoLee DEF FormaTablas

\* Choosing the task releases a mutex.
LEMMA PasoElegirTarea ==
  ASSUME Inductiva, NEW t \in Trips, ElegirTarea(t)
  PROVE  Inductiva'
<1> USE DEF Inductiva, Formas
<1>1. /\ UNCHANGED <<espacio, tablas, altas, compactacion, ubica, caida>>
      /\ mutex_trip' \subseteq mutex_trip
  BY DEF ElegirTarea
<1>2. obt[t].pc = "responde" /\ obt' = [obt EXCEPT ![t].pc = "avanza"]
  BY DEF ElegirTarea, EnObt
<1>3. Sigue(t) /\ obt'[t].pc # "destruye"
  BY <1>2, SigueFase DEF FasesObt, Saliendo
<1> QED BY <1>1, <1>3, PasoLee DEF FormaTablas

\* The process that falls changes nothing else.
LEMMA PasoUsarTablaLiberada ==
  ASSUME Inductiva, NEW t \in Trips, UsarTablaLiberada(t)
  PROVE  Inductiva'
<1> USE DEF Inductiva, Formas
<1>1. /\ UNCHANGED <<espacio, tablas, mutex_trip, altas, compactacion, ubica, obt>>
      /\ caida' = TRUE
  BY DEF UsarTablaLiberada
<1>2. FormaEspacio' /\ Mosaico' /\ Reparto' /\ EnCurso' /\ Cabe' /\ EnSuLugar'
  BY <1>1, PasoQuieto
<1>3. FormaTablas' /\ FormaComp' /\ Pedidos'
  BY <1>1 DEF FormaTablas, tablas, FormaComp, Pedidos, compactacion, espacio, altas
<1> QED BY <1>2, <1>3

\* Of a compaction, all but moving the segments.
LEMMA PasoSenialCompactar ==
  ASSUME Inductiva, SenialCompactar
  PROVE  Inductiva'
<1> USE DEF Inductiva, Formas
<1>1. /\ UNCHANGED <<espacio, tablas, mutex_trip, altas, ubica, obt, caida>>
      /\ comp' = [fase |-> "bloquea", tomados |-> 0]
  BY DEF SenialCompactar
<1>2. FormaEspacio' /\ Mosaico' /\ Reparto' /\ EnCurso' /\ Cabe' /\ EnSuLugar'
  BY <1>1, PasoQuieto
<1>3. FormaTablas' /\ Pedidos'
  BY <1>1 DEF FormaTablas, tablas, Pedidos, altas
<1>4. FormaComp'
  <2>1. segmentos' = segmentos /\ Len(segmentos) \in Nat
    BY <1>1, Numeros DEF espacio
  <2> QED BY <1>1, <2>1 DEF FormaComp
<1> QED BY <1>2, <1>3, <1>4

\* The compaction locks segments up to the end of the list.
LEMMA PasoBloquearSegmentos ==
  ASSUME Inductiva, BloquearSegmentos
  PROVE  Inductiva'
<1> USE DEF Inductiva, Formas
<1> DEFINE ocupados == {i \in DOMAIN segmentos : i > comp.tomados /\ segmentos[i] = ubica.tcb}
           hasta == Min(ocupados \cup {Len(segmentos) + 1})
<1>1. /\ UNCHANGED <<espacio, tablas, mutex_trip, altas, ubica, obt, caida>>
      /\ comp.fase = "bloquea" /\ comp' = [comp EXCEPT !.tomados = hasta - 1]
  BY DEF BloquearSegmentos
<1>2. FormaEspacio' /\ Mosaico' /\ Reparto' /\ EnCurso' /\ Cabe' /\ EnSuLugar'
  BY <1>1, PasoQuieto
<1>3. FormaTablas' /\ Pedidos'
  BY <1>1 DEF FormaTablas, tablas, Pedidos, altas
<1>4. FormaComp'
  <2>1. /\ segmentos' = segmentos /\ Len(segmentos) \in Nat
        /\ DOMAIN segmentos = 1..Len(segmentos)
    BY <1>1, Numeros DEF espacio
  <2>2. ocupados \cup {Len(segmentos) + 1} \in SUBSET (1..Len(segmentos)+1)
    BY <2>1
  <2>3. hasta \in 1..Len(segmentos) + 1
    <3>1. ocupados \cup {Len(segmentos) + 1} \in SUBSET Nat
      BY <2>1, <2>2
    <3> DEFINE o == ocupados \cup {Len(segmentos) + 1}
    <3>2. o # {} /\ o \in SUBSET Nat /\ o \in SUBSET (1..Len(segmentos)+1) /\ hasta = Min(o)
      BY <2>2, <3>1
    <3> HIDE DEF o, hasta
    <3> QED BY <3>2, MinEsta
  <2>4. hasta - 1 \in 0..Len(segmentos)
    <3> HIDE DEF hasta
    <3> QED BY <2>1, <2>3
  <2> HIDE DEF hasta
  <2> QED BY <1>1, <2>1, <2>4 DEF FormaComp
<1> QED BY <1>2, <1>3, <1>4

-----------------------------------------------------------------------------
(* The steps that free segments, or take off the lists those who had them.   *)

FormaSeg == [Segmentos -> [inicio : 0..TAMANIO_MEMORIA, tam : 0..TAMANIO_MEMORIA,
                           libre : BOOLEAN]]

SoloCambia(f, d, g) ==
  \A c \in Segmentos : /\ g[c].inicio = f[c].inicio /\ g[c].tam = f[c].tam
                       /\ c # d => g[c].libre = f[c].libre

\* Freeing one segment changes no other and no place.
LEMMA SoltarUno ==
  ASSUME NEW f \in FormaSeg, NEW d \in Segmentos
  PROVE  /\ Liberar(f, d) \in FormaSeg /\ Liberar(f, d)[d].libre
         /\ SoloCambia(f, d, Liberar(f, d))
BY DEF FormaSeg, Liberar, SoloCambia

\* Freeing what accepted patotas have, of which those that stay in the list keep theirs.
LEMMA PasoSuelta ==
  ASSUME Inductiva, NEW S, S \subseteq Segmentos, \A d \in S : d[2] \in aceptadas,
         Suelta(S), comp' = comp, FormaTablas', Pedidos',
         IsInjective(patotas'), ToSet(patotas') \subseteq ToSet(patotas),
         \A p \in Pids : /\ ToSet(tabla'[p]) \subseteq ToSet(tabla[p])
                         /\ tabla'[p] # <<>> => tabla[p] # <<>>,
         Conservan(S),
         \A p \in ToSet(patotas') : \A t \in Trips : obt'[t].pat = p => obt'[t].pc # "destruye"
  PROVE  Inductiva'
<1> USE DEF Inductiva, Formas
<1>1. FormaEspacio' /\ Mosaico' /\ Reparto' /\ EnCurso' /\ Cabe'
  BY SoltarEspacio
<1>2. EnSuLugar'
  BY SoltarContenido
<1>3. FormaComp'
  BY DEF FormaComp, Suelta
<1> QED BY <1>1, <1>2, <1>3

\* A request moves on: only its own patota can be the one it takes apart.
LEMMA PedidoSigue ==
  ASSUME Inductiva, NEW t \in Trips, NEW c \in FasesObt \ {"libre", "responde"},
         obt[t].pc \notin {"libre", "fallo"}, aceptadas' = aceptadas,
         obt' = [obt EXCEPT ![t].pc = c]
  PROVE  /\ Pedidos'
         /\ c # "destruye" => \A p \in ToSet(patotas) : \A u \in Trips :
              obt'[u].pat = p => obt'[u].pc # "destruye"
         /\ \A p \in ToSet(patotas) : p # obt[t].pat =>
              \A u \in Trips : obt'[u].pat = p => obt'[u].pc # "destruye"
<1>1. /\ obt \in [Trips -> FormaPedido]
      /\ t[1] \in aceptadas /\ obt[t].pat \in aceptadas
  BY PedidoEnPatota
<1>2. /\ obt'[t].pc = c /\ obt'[t].pat = obt[t].pat
      /\ \A u \in Trips \ {t} : obt'[u] = obt[u]
      /\ obt' \in [Trips -> FormaPedido]
  BY <1>1 DEF FormaPedido
<1>3. Pedidos'
  BY <1>1, <1>2 DEF Pedidos, Inductiva, HalladoEnLaSuya
<1> QED BY <1>2, <1>3 DEF Inductiva, EnSuLugar

\* A crew is let go: its patota's PCB and tasks are not its TCB.
LEMMA PasoLiberarTripulante ==
  ASSUME Inductiva, NEW t \in Trips, LiberarTripulante(t)
  PROVE  Inductiva'
<1> USE DEF Inductiva, Formas
<1>1. /\ UNCHANGED <<segmentos, memoria, tablas, mutex_trip, altas, compactacion, ubica, caida>>
      /\ seg' = Liberar(seg, obt[t].tcb) /\ obt' = [obt EXCEPT ![t].pc = "quita"]
      /\ obt[t].pc = "responde"
  BY DEF LiberarTripulante, EnObt
<1> DEFINE d == obt[t].tcb
           S == {d}
<1>2. /\ d \in Segmentos /\ d[2] \in aceptadas
      /\ \A p \in Pids : Pcb(p) \notin S /\ Tareas(p) \notin S
  <2>1. d \in Tcbs /\ d[2] = obt[t].pat
    BY <1>1 DEF Pedidos, HalladoEnLaSuya
  <2> QED BY <1>1, <2>1, Nombres, PedidoEnPatota
<1>3. Suelta(S)
  <2> HIDE DEF d
  <2>1. seg \in FormaSeg
    BY DEF FormaEspacio, FormaSeg
  <2>2. seg' \in FormaSeg /\ seg'[d].libre /\ SoloCambia(seg, d, seg')
    <3>1. seg' = Liberar(seg, d)
      BY <1>1 DEF d
    <3> QED BY ONLY <1>2, <2>1, <3>1, SoltarUno
  <2> QED BY <1>1, <2>2 DEF Suelta, FormaSeg, SoloCambia, FormaEspacio, altas
<1>4. FormaTablas' /\ comp' = comp /\ patotas' = patotas /\ tabla' = tabla
  BY <1>1 DEF FormaTablas, tablas, compactacion
<1>5. /\ Pedidos'
      /\ \A p \in ToSet(patotas) : \A u \in Trips :
           obt'[u].pat = p => obt'[u].pc # "destruye"
  <2>1. "quita" \in FasesObt \ {"libre", "responde"} /\ "quita" # "destruye" /\ aceptadas' = aceptadas
    BY <1>1 DEF FasesObt, Saliendo, altas
  <2> HIDE DEF Inductiva
  <2> QED BY <1>1, <2>1, PedidoSigue
<1>6. IsInjective(patotas) /\ Conservan(S)
  BY <1>1, <1>2, <1>4, AceptadasPids DEF EnSuLugar, Conservan, Vigentes, tablas
<1> HIDE DEF S, Inductiva, Formas
<1>7. \A p \in Pids : /\ ToSet(tabla'[p]) \subseteq ToSet(tabla[p])
                      /\ tabla'[p] # <<>> => tabla[p] # <<>>
  BY <1>4
<1>8. S \subseteq Segmentos /\ \A c \in S : c[2] \in aceptadas
  BY <1>2 DEF S
<1> QED BY <1>3, <1>4, <1>5, <1>6, <1>7, <1>8, PasoSuelta

\* Whoever leaves the table, those that stay were in it.
LEMMA PasoQuitarTripulante ==
  ASSUME Inductiva, NEW t \in Trips, QuitarTripulante(t)
  PROVE  Inductiva'
<1> USE DEF Inductiva, Formas
<1> DEFINE p == obt[t].pat
<1>1. /\ UNCHANGED <<espacio, patotas, liberadas, altas, compactacion, ubica, caida>>
      /\ tabla' = [tabla EXCEPT ![p] = Quitar(@, obt[t].indice)]
      /\ obt[t].pc = "quita" /\ UNCHANGED mutex_trip
      /\ obt' = [obt EXCEPT ![t].pc = "revisa"]
  BY DEF QuitarTripulante, EnObt
<1>2. p \in Pids /\ tabla[p] \in Seq(Tcbs)
  BY <1>1, PedidoEnPatota DEF FormaTablas
<1>3. /\ Quitar(tabla[p], obt[t].indice) \in Seq(Tcbs)
      /\ ToSet(Quitar(tabla[p], obt[t].indice)) \subseteq ToSet(tabla[p])
      /\ Quitar(tabla[p], obt[t].indice) # <<>> => tabla[p] # <<>>
  <2>1. CASE obt[t].indice \in DOMAIN tabla[p]
    <3>1. /\ RemoveAt(tabla[p], obt[t].indice) \in Seq(Tcbs)
          /\ ToSet(RemoveAt(tabla[p], obt[t].indice)) \subseteq ToSet(tabla[p])
      BY <1>2, <2>1, SacarToSet
    <3>2. tabla[p] # <<>>
      BY <2>1
    <3> QED BY <2>1, <3>1, <3>2 DEF Quitar
  <2>2. CASE obt[t].indice \notin DOMAIN tabla[p]
    BY <1>2, <2>2 DEF Quitar
  <2> QED BY <2>1, <2>2
<1>4. FormaTablas'
  BY <1>1, <1>2, <1>3 DEF FormaTablas
<1>5. \A q \in Pids : /\ ToSet(tabla'[q]) \subseteq ToSet(tabla[q])
                      /\ tabla'[q] # <<>> => tabla[q] # <<>>
  BY <1>1, <1>2, <1>3 DEF FormaTablas
<1>6. /\ Pedidos'
      /\ \A q \in ToSet(patotas) : \A u \in Trips :
           obt'[u].pat = q => obt'[u].pc # "destruye"
  <2>1. "revisa" \in FasesObt \ {"libre", "responde"} /\ "revisa" # "destruye"
    BY DEF FasesObt, Saliendo
  <2> QED BY <1>1, <2>1, PedidoSigue DEF altas
<1>7. Suelta({})
  BY <1>1 DEF Suelta, espacio, FormaEspacio
<1>8. /\ comp' = comp /\ patotas' = patotas /\ IsInjective(patotas')
      /\ ToSet(patotas') \subseteq ToSet(patotas) /\ Conservan({})
  BY <1>1 DEF compactacion, EnSuLugar, Conservan, Vigentes
<1> HIDE DEF p, Inductiva, Formas
<1> QED BY <1>4, <1>5, <1>6, <1>7, <1>8, PasoSuelta

\* Looking whether the table is empty reads only, and may release a mutex.
LEMMA PasoRevisarPatota ==
  ASSUME Inductiva, NEW t \in Trips, RevisarPatota(t)
  PROVE  Inductiva'
<1> USE DEF Inductiva, Formas
<1>1. /\ UNCHANGED <<espacio, tablas, altas, compactacion, ubica, caida>>
      /\ mutex_trip' \subseteq mutex_trip /\ obt[t].pc = "revisa"
      /\ \E c \in {"borra", "avanza"} : obt' = [obt EXCEPT ![t].pc = c]
  BY DEF RevisarPatota, EnObt
<1>2. Sigue(t) /\ obt'[t].pc # "destruye"
  BY <1>1, SigueFase DEF FasesObt, Saliendo
<1> QED BY <1>1, <1>2, PasoLee DEF FormaTablas

\* The next task is written over the same owner's place.
LEMMA PasoActualizarTareaActual ==
  ASSUME Inductiva, NEW t \in Trips, ActualizarTareaActual(t)
  PROVE  Inductiva'
<1> USE DEF Inductiva, Formas
<1>1. /\ UNCHANGED <<segmentos, seg, tablas, mutex_trip, altas, compactacion, ubica, caida>>
      /\ memoria' = Avanzar(t, obt[t].pat) /\ obt[t].pc = "avanza"
      /\ \/ obt' = [obt EXCEPT ![t] = SinPedido]
         \/ obt' = [obt EXCEPT ![t].pc = "fin"]
  BY DEF ActualizarTareaActual, EnObt
<1>2. /\ memoria' \in [0..TAMANIO_MEMORIA - 1 -> [de : Segmentos, tarea : Nat]]
      /\ \A a \in DOMAIN memoria : memoria'[a].de = memoria[a].de
  <2>1. memoria \in [0..TAMANIO_MEMORIA - 1 -> [de : Segmentos, tarea : Nat]]
    BY DEF FormaEspacio
  <2>2. \A m \in [de : Segmentos, tarea : Nat] :
          /\ [m EXCEPT !.tarea = @ + 1] \in [de : Segmentos, tarea : Nat]
          /\ [m EXCEPT !.tarea = @ + 1].de = m.de
    OBVIOUS
  <2> QED BY <1>1, <2>1, <2>2 DEF Avanzar
<1>3. Suelta({})
  BY <1>1, <1>2 DEF Suelta, FormaEspacio, altas
<1>4. FormaTablas' /\ comp' = comp /\ patotas' = patotas /\ tabla' = tabla
  BY <1>1 DEF FormaTablas, tablas, compactacion
<1>5. /\ Pedidos'
      /\ \A p \in ToSet(patotas) : \A u \in Trips :
           obt'[u].pat = p => obt'[u].pc # "destruye"
  <2>1. CASE obt' = [obt EXCEPT ![t].pc = "fin"]
    <3>1. "fin" \in FasesObt \ {"libre", "responde"} /\ "fin" # "destruye" /\ aceptadas' = aceptadas
      BY <1>1 DEF FasesObt, Saliendo, altas
    <3> HIDE DEF Inductiva
    <3> QED BY <1>1, <2>1, <3>1, PedidoSigue
  <2>2. CASE obt' = [obt EXCEPT ![t] = SinPedido]
    BY <1>1, <2>2 DEF Pedidos, FormaPedido, HalladoEnLaSuya, SinPedido, FasesObt, Saliendo,
                      altas, EnSuLugar
  <2> QED BY <1>1, <2>1, <2>2
<1>6. IsInjective(patotas) /\ Conservan({})
  BY <1>1, <1>4 DEF EnSuLugar, Conservan, Vigentes, tablas
<1> HIDE DEF Inductiva, Formas
<1>7. \A p \in Pids : /\ ToSet(tabla'[p]) \subseteq ToSet(tabla[p])
                      /\ tabla'[p] # <<>> => tabla[p] # <<>>
  BY <1>4
<1> QED BY <1>3, <1>4, <1>5, <1>6, <1>7, PasoSuelta

\* What is read where a segment in use starts is its own, if it holds it.
LEMMA LeidoPropio ==
  ASSUME FormaEspacio, Mosaico, Reparto, NEW d \in Segmentos, ~seg[d].libre
  PROVE  /\ seg[d].inicio \in Lugares(d) /\ Leer(d) = memoria[seg[d].inicio]
         /\ Guarda(d) => Leer(d).de = d
<1>1. d \in EnLista /\ seg[d].tam \in Nat \ {0} /\ seg[d].inicio \in Nat
  BY Numeros, Tamanios DEF Reparto
<1>2. seg[d].inicio + seg[d].tam <= TAMANIO_MEMORIA /\ TAMANIO_MEMORIA \in Nat
  BY <1>1, Separados, Numeros
<1>3. PICK i \in Nat, n \in Nat \ {0}, m \in Nat :
        i = seg[d].inicio /\ n = seg[d].tam /\ m = TAMANIO_MEMORIA
  BY <1>1, <1>2
<1>4. i + n <= m
  BY ONLY <1>2, <1>3
<1>5. i < m /\ i \in i..i+n-1
  BY ONLY <1>4, i \in Nat, n \in Nat \ {0}, m \in Nat
<1>6. seg[d].inicio \in Lugares(d)
  BY <1>3, <1>5 DEF Lugares
<1> QED BY <1>3, <1>5, <1>6 DEF Leer, Guarda

\* The pid is read from a patota's PCB until it is taken apart.
LEMMA PcbLeido ==
  ASSUME FormaEspacio, Mosaico, Reparto, EnCurso, EnSuLugar, NEW p \in Vigentes
  PROVE  Leer(Pcb(p)).de = Pcb(p)
<1>1. Pcb(p) \in Segmentos /\ ~seg[Pcb(p)].libre /\ Guarda(Pcb(p))
  BY AceptadasPids, Nombres DEF EnSuLugar
<1> QED BY <1>1, LeidoPropio

\* The patota that borrar_patota takes off the list is the one of the request, if it is in it.
LEMMA PasoBorrarPatota ==
  ASSUME Inductiva, NEW t \in Trips, BorrarPatota(t)
  PROVE  Inductiva'
<1> USE DEF Inductiva, Formas
<1> DEFINE con_pid == {i \in DOMAIN patotas :
                         Leer(Pcb(patotas[i])).de = Leer(Pcb(obt[t].pat)).de}
<1>1. /\ UNCHANGED <<espacio, tabla, liberadas, mutex_trip, altas, compactacion, ubica, caida>>
      /\ patotas' = IF con_pid = {} THEN patotas ELSE RemoveAt(patotas, Min(con_pid))
      /\ obt[t].pc = "borra" /\ obt' = [obt EXCEPT ![t].pc = "destruye"]
  BY DEF BorrarPatota, EnObt
<1>2. /\ patotas \in Seq(Pids) /\ DOMAIN patotas = 1..Len(patotas) /\ IsInjective(patotas)
      /\ \A i \in DOMAIN patotas : patotas[i] \in ToSet(patotas) /\ patotas[i] \in Pids
      /\ ToSet(patotas) \subseteq Vigentes
  BY LenProperties, SacarToSet DEF FormaTablas, EnSuLugar
<1>3. con_pid # {} => Min(con_pid) \in con_pid
  <2>1. con_pid \in SUBSET Nat BY <1>2
  <2> HIDE DEF con_pid
  <2> QED BY <2>1, MinEsta
<1>4. /\ patotas' \in Seq(Pids) /\ IsInjective(patotas')
      /\ ToSet(patotas') \subseteq ToSet(patotas)
  <2>1. CASE con_pid = {}
    BY <1>1, <1>2, <2>1
  <2>2. CASE con_pid # {}
    <3>1. Min(con_pid) \in DOMAIN patotas
      BY <1>3, <2>2
    <3> HIDE DEF con_pid
    <3> QED BY <1>1, <1>2, <2>2, <3>1, SacarToSet
  <2> QED BY <2>1, <2>2
<1>5. obt[t].pat \notin ToSet(patotas')
  <2>1. CASE obt[t].pat \notin ToSet(patotas)
    BY <1>4, <2>1
  <2>2. CASE obt[t].pat \in ToSet(patotas)
    <3>1. PICK k \in DOMAIN patotas : patotas[k] = obt[t].pat
      BY <2>2 DEF ToSet
    <3>2. k \in con_pid
      BY <3>1
    <3>3. ASSUME NEW i \in con_pid
          PROVE  i = k
      <4>1. i \in DOMAIN patotas /\ Leer(Pcb(patotas[i])).de = Leer(Pcb(patotas[k])).de
        BY <3>1
      <4>2. Leer(Pcb(patotas[i])).de = Pcb(patotas[i])
        BY <4>1, <1>2, PcbLeido
      <4>3. Leer(Pcb(patotas[k])).de = Pcb(patotas[k])
        BY <3>1, <1>2, PcbLeido
      <4>4. patotas[i] = patotas[k]
        <5>1. Pcb(patotas[i])[2] = patotas[i] /\ Pcb(patotas[k])[2] = patotas[k]
          BY <4>1, <1>2, Nombres
        <5> QED BY ONLY <4>1, <4>2, <4>3, <5>1
      <4> QED BY <4>1, <4>4, <3>1, <1>2 DEF IsInjective
    <3> HIDE DEF con_pid
    <3>4. Min(con_pid) = k /\ con_pid # {}
      BY <1>3, <3>2, <3>3
    <3> QED BY <1>1, <1>2, <3>1, <3>4, SacarToSet
  <2> QED BY <2>1, <2>2
<1>6. /\ Pedidos'
      /\ \A p \in ToSet(patotas) : p # obt[t].pat =>
           \A u \in Trips : obt'[u].pat = p => obt'[u].pc # "destruye"
  BY <1>1, PedidoSigue DEF FasesObt, Saliendo, altas
<1>7. Suelta({})
  BY <1>1 DEF Suelta, espacio, FormaEspacio
<1>8. comp' = comp /\ tabla' = tabla /\ FormaTablas'
  BY <1>1, <1>4 DEF compactacion, FormaTablas
<1>9. \A p \in Pids : /\ ToSet(tabla'[p]) \subseteq ToSet(tabla[p])
                      /\ tabla'[p] # <<>> => tabla[p] # <<>>
  BY <1>8
<1>10. /\ \A p \in ToSet(patotas') : \A u \in Trips :
             obt'[u].pat = p => obt'[u].pc # "destruye"
       /\ Conservan({})
  BY <1>1, <1>4, <1>5, <1>6 DEF Conservan, EnSuLugar, Vigentes
<1> HIDE DEF Inductiva, Formas
<1> QED BY <1>4, <1>6, <1>7, <1>8, <1>9, <1>10, PasoSuelta

\* The patota taken apart is off the list by then.
LEMMA PasoDestruirPatota ==
  ASSUME Inductiva, NEW t \in Trips, DestruirPatota(t)
  PROVE  Inductiva'
<1> USE DEF Inductiva, Formas
<1> DEFINE p == obt[t].pat
           S == {Pcb(p), Tareas(p)}
<1>1. /\ UNCHANGED <<segmentos, memoria, patotas, tabla, mutex_trip, altas, compactacion,
                     ubica, caida>>
      /\ seg' = LiberarPatota(seg, p) /\ liberadas' = liberadas \cup {p}
      /\ obt[t].pc = "destruye" /\ obt' = [obt EXCEPT ![t].pc = "fin"]
  BY DEF DestruirPatota, EnObt
<1>2. p \in Pids /\ p \in aceptadas /\ p \notin ToSet(patotas)
  BY <1>1, PedidoEnPatota DEF EnSuLugar
<1>3. /\ S \subseteq Segmentos /\ \A d \in S : d[2] \in aceptadas
      /\ \A q \in Pids : q # p => Pcb(q) \notin S /\ Tareas(q) \notin S
  <2>1. \A q \in Pids : Pcb(q) # Tareas(p) /\ Tareas(q) # Pcb(p)
    BY DEF Pcb, Tareas
  <2> HIDE DEF p
  <2> QED BY <1>2, <2>1, Nombres
<1>4. Suelta(S)
  <2> HIDE DEF p
  <2>1. Pcb(p) \in Segmentos /\ Tareas(p) \in Segmentos
    BY <1>3
  <2>2. seg' = [seg EXCEPT ![Pcb(p)].libre = TRUE, ![Tareas(p)].libre = TRUE]
    BY <1>1 DEF LiberarPatota
  <2>3. seg' \in [Segmentos -> [inicio : 0..TAMANIO_MEMORIA, tam : 0..TAMANIO_MEMORIA,
                                libre : BOOLEAN]]
    BY <2>1, <2>2, ZenonT(40) DEF FormaEspacio
  <2>4. \A d \in Segmentos : /\ seg'[d].inicio = seg[d].inicio /\ seg'[d].tam = seg[d].tam
                             /\ d \in S => seg'[d].libre
                             /\ d \notin S => seg'[d].libre = seg[d].libre
    BY <2>1, <2>2 DEF FormaEspacio
  <2> QED BY <1>1, <2>3, <2>4 DEF Suelta, FormaEspacio, altas
<1>5. FormaTablas' /\ comp' = comp /\ patotas' = patotas /\ tabla' = tabla
  BY <1>1, <1>2 DEF FormaTablas, compactacion
<1>6. /\ Pedidos'
      /\ \A q \in ToSet(patotas) : \A u \in Trips :
           obt'[u].pat = q => obt'[u].pc # "destruye"
  <2>1. "fin" \in FasesObt \ {"libre", "responde"} /\ "fin" # "destruye" /\ aceptadas' = aceptadas
    BY <1>1 DEF FasesObt, Saliendo, altas
  <2> HIDE DEF Inductiva
  <2> QED BY <1>1, <2>1, PedidoSigue
<1>7. /\ ToSet(patotas) \subseteq Pids /\ IsInjective(patotas)
      /\ \A q \in ToSet(patotas) : q # p
  BY <1>2, ElementosFinitos DEF FormaTablas, EnSuLugar
<1> HIDE DEF S, p, Inductiva, Formas
<1>8. \A q \in Pids : /\ ToSet(tabla'[q]) \subseteq ToSet(tabla[q])
                      /\ tabla'[q] # <<>> => tabla[q] # <<>>
  BY <1>5
<1>9. \A q \in ToSet(patotas') : \A u \in Trips :
        obt'[u].pat = q => obt'[u].pc # "destruye"
  BY <1>5, <1>6
<1>10. Conservan(S)
  <2>1. liberadas \subseteq aceptadas /\ ToSet(patotas) \cap liberadas = {}
    BY DEF Inductiva, EnSuLugar, Vigentes
  <2>2. aceptadas \subseteq Pids
    BY AceptadasPids DEF Inductiva
  <2> QED BY <1>1, <1>2, <1>3, <1>5, <1>7, <2>1, <2>2 DEF Conservan
<1> QED BY <1>3, <1>4, <1>5, <1>6, <1>7, <1>8, <1>9, <1>10, PasoSuelta

\* The crew's segment is freed, and with its last crew the patota's.
LEMMA PasoExpulsarTripulante ==
  ASSUME Inductiva, NEW t \in Trips, ExpulsarTripulante(t)
  PROVE  Inductiva'
<1> USE DEF Inductiva, Formas
<1>1. UNCHANGED <<segmentos, memoria, mutex_trip, altas, compactacion, ubica, obt>>
  BY DEF ExpulsarTripulante
<1>2. Pedidos' /\ comp' = comp /\ aceptadas' = aceptadas
  BY <1>1 DEF Pedidos, altas, compactacion
<1>3. /\ patotas \in Seq(Pids) /\ IsInjective(patotas) /\ ToSet(patotas) \subseteq aceptadas
      /\ ToSet(patotas) \subseteq Pids /\ liberadas \subseteq aceptadas
      /\ ToSet(patotas) \cap liberadas = {} /\ aceptadas \subseteq Pids
      /\ \A q \in ToSet(patotas) : \A u \in Trips :
           obt'[u].pat = q => obt'[u].pc # "destruye"
  BY <1>1, ElementosFinitos, AceptadasPids DEF FormaTablas, EnSuLugar, Vigentes
<1>4. CASE UNCHANGED <<seg, tablas, caida>>
  <2>1. UNCHANGED <<espacio, tablas, altas>>
    BY <1>1, <1>4 DEF espacio
  <2>2. FormaEspacio' /\ Mosaico' /\ Reparto' /\ EnCurso' /\ Cabe' /\ EnSuLugar'
    BY <1>1, <2>1, PasoQuieto
  <2>3. FormaTablas' /\ FormaComp'
    BY <1>1, <1>4 DEF FormaTablas, tablas, FormaComp, compactacion
  <2> QED BY <1>2, <2>2, <2>3
<1>5. ASSUME NEW i \in DOMAIN patotas, NEW j \in DOMAIN tabla[patotas[i]], NEW p, NEW d, NEW s,
             p = patotas[i], d = tabla[p][j], s = Liberar(seg, d),
             tabla' = [tabla EXCEPT ![p] = RemoveAt(@, j)],
             \/ /\ seg' = LiberarPatota(s, p) /\ liberadas' = liberadas \cup {p}
                /\ patotas' = RemoveAt(patotas, i) /\ caida' \in BOOLEAN
             \/ seg' = s /\ UNCHANGED <<liberadas, patotas, caida>>
      PROVE  Inductiva'
  <2>1. p \in Pids /\ p \in aceptadas /\ p \in ToSet(patotas)
    BY <1>3, <1>5, SacarToSet
  <2>2. tabla \in [Pids -> Seq(Tcbs)] /\ tabla[p] \in Seq(Tcbs) /\ j \in DOMAIN tabla[p]
    BY <2>1, <1>5 DEF FormaTablas
  <2>3. /\ d \in Tcbs /\ d \in ToSet(tabla[p]) /\ RemoveAt(tabla[p], j) \in Seq(Tcbs)
        /\ ToSet(RemoveAt(tabla[p], j)) \subseteq ToSet(tabla[p])
    BY <2>2, <1>5, SacarToSet
  <2>4. d \in Segmentos /\ d[2] = p /\ \A q \in Pids : Pcb(q) # d /\ Tareas(q) # d
    BY <2>1, <2>3, Nombres DEF EnSuLugar
  <2>5. tabla[p] # <<>>
    BY <2>2
  <2>6. /\ tabla' \in [Pids -> Seq(Tcbs)]
        /\ \A q \in Pids : /\ ToSet(tabla'[q]) \subseteq ToSet(tabla[q])
                           /\ tabla'[q] # <<>> => tabla[q] # <<>>
    BY ONLY <1>5, <2>1, <2>2, <2>3, <2>5
  <2>7. /\ s \in [Segmentos -> [inicio : 0..TAMANIO_MEMORIA, tam : 0..TAMANIO_MEMORIA,
                                libre : BOOLEAN]]
        /\ s[d].libre
        /\ \A c \in Segmentos : /\ s[c].inicio = seg[c].inicio /\ s[c].tam = seg[c].tam
                                /\ c # d => s[c].libre = seg[c].libre
    <3>1. seg \in FormaSeg /\ s = Liberar(seg, d)
      BY <1>5 DEF FormaEspacio, FormaSeg
    <3>2. s \in FormaSeg /\ s[d].libre /\ SoloCambia(seg, d, s)
      BY ONLY <2>4, <3>1, SoltarUno
    <3> QED BY ONLY <3>2 DEF FormaSeg, SoloCambia
  <2>8. CASE /\ seg' = LiberarPatota(s, p) /\ liberadas' = liberadas \cup {p}
             /\ patotas' = RemoveAt(patotas, i) /\ caida' \in BOOLEAN
    <3> DEFINE S == {d, Pcb(p), Tareas(p)}
    <3>1. Pcb(p) \in Segmentos /\ Tareas(p) \in Segmentos /\ Pcb(p)[2] = p /\ Tareas(p)[2] = p
      BY <2>1, Nombres
    <3>2. S \subseteq Segmentos /\ \A c \in S : c[2] \in aceptadas
      BY <2>1, <2>4, <3>1
    <3>3. seg' = [s EXCEPT ![Pcb(p)].libre = TRUE, ![Tareas(p)].libre = TRUE]
      BY <2>8 DEF LiberarPatota
    <3>4. /\ seg' \in [Segmentos -> [inicio : 0..TAMANIO_MEMORIA, tam : 0..TAMANIO_MEMORIA,
                                     libre : BOOLEAN]]
          /\ \A c \in Segmentos : /\ seg'[c].inicio = s[c].inicio /\ seg'[c].tam = s[c].tam
                                  /\ c \in {Pcb(p), Tareas(p)} => seg'[c].libre
                                  /\ c \notin {Pcb(p), Tareas(p)} => seg'[c].libre = s[c].libre
      <4>1. PICK h : h = Liberar(s, Pcb(p))
        OBVIOUS
      <4>2. s \in FormaSeg /\ seg' = Liberar(h, Tareas(p))
        BY ONLY <2>7, <3>3, <4>1 DEF FormaSeg, Liberar
      <4>3. h \in FormaSeg /\ h[Pcb(p)].libre /\ SoloCambia(s, Pcb(p), h)
        BY ONLY <3>1, <4>1, <4>2, SoltarUno
      <4>4. /\ seg' \in FormaSeg /\ seg'[Tareas(p)].libre
            /\ SoloCambia(h, Tareas(p), seg')
        BY ONLY <3>1, <4>2, <4>3, SoltarUno
      <4> QED BY ONLY <3>1, <4>3, <4>4 DEF FormaSeg, SoloCambia
    <3>5. \A c \in Segmentos : /\ seg'[c].inicio = seg[c].inicio /\ seg'[c].tam = seg[c].tam
                               /\ c \in S => seg'[c].libre
                               /\ c \notin S => seg'[c].libre = seg[c].libre
      <4>1. d \notin {Pcb(p), Tareas(p)} BY <2>1, <2>4
      <4> QED BY ONLY <2>4, <2>7, <3>1, <3>4, <4>1
    <3>6. Suelta(S)
      BY <1>1, <3>4, <3>5 DEF Suelta, FormaEspacio, altas
    <3>7. /\ patotas' \in Seq(Pids) /\ IsInjective(patotas')
          /\ ToSet(patotas') \subseteq ToSet(patotas) /\ p \notin ToSet(patotas')
      BY <1>3, <1>5, <2>8, SacarToSet
    <3>8. FormaTablas'
      BY <1>1, <2>1, <2>6, <2>8, <3>7 DEF FormaTablas
    <3>9. Conservan(S)
      <4>1. ASSUME NEW q \in aceptadas \ liberadas'
            PROVE  Pcb(q) \notin S /\ Tareas(q) \notin S
        <5>1. q \in Pids /\ q # p /\ Pcb(q)[2] = q /\ Tareas(q)[2] = q
          BY <1>3, <2>8, Nombres
        <5> QED BY <5>1, <2>4, <3>1
      <4> HIDE DEF S, Inductiva, Formas
      <4> QED BY <1>3, <2>1, <2>8, <3>7, <4>1 DEF Conservan
    <3>10. \A q \in ToSet(patotas') : \A u \in Trips :
             obt'[u].pat = q => obt'[u].pc # "destruye"
      BY <1>3, <3>7
    <3> HIDE DEF S, Inductiva, Formas
    <3> QED BY <1>2, <2>6, <3>2, <3>6, <3>7, <3>8, <3>9, <3>10, PasoSuelta
  <2>9. CASE seg' = s /\ UNCHANGED <<liberadas, patotas, caida>>
    <3> DEFINE S == {d}
    <3>1. /\ S \subseteq Segmentos /\ \A c \in S : c[2] \in aceptadas
          /\ \A q \in Pids : Pcb(q) \notin S /\ Tareas(q) \notin S
      BY <2>1, <2>4
    <3>2. Suelta(S)
      BY <1>1, <2>7, <2>9 DEF Suelta, FormaEspacio, altas
    <3>3. FormaTablas'
      BY <1>1, <2>6, <2>9 DEF FormaTablas
    <3> HIDE DEF S, Inductiva, Formas
    <3>4. IsInjective(patotas') /\ ToSet(patotas') \subseteq ToSet(patotas)
      BY <1>3, <2>9
    <3>5. /\ \A q \in ToSet(patotas') : \A u \in Trips :
               obt'[u].pat = q => obt'[u].pc # "destruye"
          /\ Conservan(S)
      BY <1>3, <2>9, <3>1, <3>4 DEF Conservan
    <3> QED BY <1>2, <2>6, <3>1, <3>2, <3>3, <3>4, <3>5, PasoSuelta
  <2> QED BY <1>5, <2>8, <2>9
<1>6. CASE \E i \in DOMAIN patotas : \E j \in DOMAIN tabla[patotas[i]] :
             LET p == patotas[i]
                 s == Liberar(seg, tabla[p][j])
             IN /\ tabla' = [tabla EXCEPT ![p] = RemoveAt(@, j)]
                /\ \/ /\ seg' = LiberarPatota(s, p) /\ liberadas' = liberadas \cup {p}
                      /\ patotas' = RemoveAt(patotas, i) /\ caida' \in BOOLEAN
                   \/ seg' = s /\ UNCHANGED <<liberadas, patotas, caida>>
  BY <1>5, <1>6
<1> QED BY <1>4, <1>6 DEF ExpulsarTripulante

-----------------------------------------------------------------------------
(* Creating a patota.                                                        *)

\* What a patota asks for, in order, takes what MemoriaNecesaria says.
LEMMA FilaPedida ==
  ASSUME NEW p \in Pids, NEW F,
         F = <<Pcb(p), Tareas(p)>> \o [i \in 1..Patotas[p].cantidad |-> Tcb(<<p, i>>)]
  PROVE  /\ F \in Seq(Segmentos) /\ IsInjective(F) /\ ToSet(F) = FilaPatota(p)
         /\ SumFunctionOnSet([d \in Segmentos |-> Tam(d)], FilaPatota(p)) = MemoriaNecesaria(p)
<1> DEFINE n == Patotas[p].cantidad
           a == <<Pcb(p), Tareas(p)>>
           b == [i \in 1..n |-> Tcb(<<p, i>>)]
           T == {Tcb(<<p, i>>) : i \in 1..n}
           g == [d \in Segmentos |-> Tam(d)]
<1>1. n \in Nat \ {0} /\ \A i \in 1..n : <<p, i>> \in Trips
  BY Pedidas
<1>2. a \in Seq(Segmentos) /\ Len(a) = 2 /\ a[1] = Pcb(p) /\ a[2] = Tareas(p)
  BY Nombres
<1>3. /\ b \in Seq(Segmentos) /\ Len(b) = n /\ DOMAIN b = 1..n
      /\ \A i \in 1..n : b[i] = Tcb(<<p, i>>)
  <2>1. \A i \in 1..n : Tcb(<<p, i>>) \in Segmentos
    BY <1>1, Nombres
  <2> HIDE DEF n
  <2> QED BY <1>1, <2>1
<1>4. \A i, j \in 1..n : Tcb(<<p, i>>) = Tcb(<<p, j>>) => i = j
  BY DEF Tcb
<1>5. \A i \in 1..n : Tcb(<<p, i>>) # Pcb(p) /\ Tcb(<<p, i>>) # Tareas(p)
  BY <1>1, Nombres
<1> HIDE DEF a, b, n
<1>6. F = a \o b
  BY DEF a, b, n
<1>7. /\ F \in Seq(Segmentos) /\ Len(F) = n + 2 /\ DOMAIN F = 1..n+2
      /\ \A k \in 1..n+2 : F[k] = IF k = 1 THEN Pcb(p) ELSE IF k = 2 THEN Tareas(p)
                                  ELSE Tcb(<<p, k-2>>)
  <2>1. /\ a \o b \in Seq(Segmentos) /\ Len(a \o b) = Len(a) + Len(b)
        /\ \A k \in 1..Len(a)+Len(b) : (a \o b)[k] = IF k <= Len(a) THEN a[k] ELSE b[k-Len(a)]
    BY <1>2, <1>3, ConcatProperties
  <2>2. Len(F) = n + 2 /\ F \in Seq(Segmentos)
    <3>1. n \in Int /\ Len(a) + Len(b) = n + 2
      BY ONLY <1>1, <1>2, <1>3
    <3> QED BY ONLY <1>6, <2>1, <3>1
  <2>3. ASSUME NEW k \in 1..n+2
        PROVE  F[k] = IF k = 1 THEN Pcb(p) ELSE IF k = 2 THEN Tareas(p) ELSE Tcb(<<p, k-2>>)
    <3>1. F[k] = IF k <= 2 THEN a[k] ELSE b[k-2]
      <4>1. n \in Int /\ k \in 1..Len(a)+Len(b)
        BY ONLY <1>1, <1>2, <1>3, k \in 1..n+2
      <4> QED BY ONLY <1>2, <1>6, <2>1, <4>1
    <3>2. k = 1 \/ k = 2 \/ (k > 2 /\ k-2 \in 1..n)
      BY ONLY <1>1, k \in 1..n+2
    <3>3. CASE k = 1
      BY ONLY <1>2, <3>1, <3>3
    <3>4. CASE k = 2
      BY ONLY <1>2, <3>1, <3>4
    <3>5. CASE k > 2 /\ k-2 \in 1..n
      <4>1. ~(k <= 2) /\ k # 1 /\ k # 2
        BY ONLY <1>1, <3>5, k \in 1..n+2
      <4> QED BY ONLY <1>3, <3>1, <3>5, <4>1
    <3> QED BY ONLY <3>2, <3>3, <3>4, <3>5
  <2> QED BY <2>2, <2>3, LenProperties
<1>8. IsInjective(F)
  <2>1. ASSUME NEW k \in 1..n+2, NEW m \in 1..n+2, F[k] = F[m]
        PROVE  k = m
    <3>1. k \in Int /\ m \in Int /\ (k > 2 => k-2 \in 1..n) /\ (m > 2 => m-2 \in 1..n)
      BY ONLY <1>1, k \in 1..n+2, m \in 1..n+2
    <3>2. /\ k = 1 \/ k = 2 \/ (k > 2 /\ k # 1 /\ k # 2)
          /\ m = 1 \/ m = 2 \/ (m > 2 /\ m # 1 /\ m # 2)
      BY ONLY <1>1, k \in 1..n+2, m \in 1..n+2
    <3>3. Pcb(p) # Tareas(p)
      BY Nombres
    <3> DEFINE V(j) == IF j = 1 THEN Pcb(p) ELSE IF j = 2 THEN Tareas(p) ELSE Tcb(<<p, j-2>>)
    <3>4. V(k) = V(m)
      BY ONLY <1>7, <2>1, k \in 1..n+2, m \in 1..n+2
    <3>5. CASE k > 2 /\ m > 2
      <4>1. Tcb(<<p, k-2>>) = Tcb(<<p, m-2>>)
        BY ONLY <3>2, <3>4, <3>5
      <4>2. k-2 = m-2
        BY ONLY <1>4, <3>1, <3>5, <4>1
      <4> QED BY ONLY <3>1, <4>2
    <3>6. CASE ~(k > 2 /\ m > 2)
      BY ONLY <1>5, <3>1, <3>2, <3>3, <3>4, <3>6
    <3> QED BY ONLY <3>5, <3>6
  <2> QED BY <1>7, <2>1 DEF IsInjective
<1>9. FilaPatota(p) = ({Pcb(p)} \cup {Tareas(p)}) \cup T
  BY DEF FilaPatota, n
<1>10. ToSet(F) = FilaPatota(p)
  <2>1. \A k \in 1..n+2 : F[k] \in FilaPatota(p)
    <3>1. \A k \in 1..n+2 : k = 1 \/ k = 2 \/ k-2 \in 1..n
      BY <1>1
    <3> QED BY <1>7, <1>9, <3>1
  <2>2. /\ 1 \in 1..n+2 /\ 2 \in 1..n+2
        /\ \A i \in 1..n : i+2 \in 1..n+2 /\ (i+2)-2 = i /\ i+2 # 1 /\ i+2 # 2
    BY <1>1
  <2>3. F[1] = Pcb(p) /\ F[2] = Tareas(p) /\ \A i \in 1..n : F[i+2] = Tcb(<<p, i>>)
    <3>1. F[1] = Pcb(p) /\ F[2] = Tareas(p)
      <4>1. \A k \in 1..n+2 : (k = 1 => F[k] = Pcb(p)) /\ (k = 2 => F[k] = Tareas(p))
        <5>1. ASSUME NEW k \in 1..n+2
              PROVE  (k = 1 => F[k] = Pcb(p)) /\ (k = 2 => F[k] = Tareas(p))
          <6>1. F[k] = IF k = 1 THEN Pcb(p) ELSE IF k = 2 THEN Tareas(p)
                       ELSE Tcb(<<p, k-2>>)
            BY <1>7
          <6> QED BY ONLY <6>1
        <5> QED BY <5>1
      <4> QED BY ONLY <2>2, <4>1
    <3>2. ASSUME NEW i \in 1..n
          PROVE  F[i+2] = Tcb(<<p, i>>)
      <4>1. i+2 \in 1..n+2 /\ (i+2)-2 = i /\ i+2 # 1 /\ i+2 # 2
        BY ONLY <2>2, i \in 1..n
      <4>2. F[i+2] = Tcb(<<p, (i+2)-2>>)
        BY ONLY <1>7, <4>1
      <4> QED BY ONLY <4>1, <4>2
    <3> QED BY <3>1, <3>2
  <2>4. ToSet(F) = {F[k] : k \in 1..n+2}
    BY <1>7 DEF ToSet
  <2>5. Pcb(p) \in ToSet(F) /\ Tareas(p) \in ToSet(F)
    BY <2>2, <2>3, <2>4
  <2>6. \A i \in 1..n : Tcb(<<p, i>>) \in ToSet(F)
    BY <2>2, <2>3, <2>4
  <2> QED BY <1>9, <2>1, <2>4, <2>5, <2>6, ZenonT(40)
<1>11. IsFiniteSet(T) /\ Cardinality(T) = n
  <2>1. IsInjective(b)
    BY <1>3, <1>4 DEF IsInjective
  <2>2. ToSet(b) = T
    BY <1>3 DEF ToSet
  <2> QED BY <1>3, <2>1, <2>2, ElementosFinitos
<1>12. \A d \in T : d \in Segmentos /\ g[d] = tam_tcb
  <2>1. ASSUME NEW i \in 1..n
        PROVE  /\ Tcb(<<p, i>>) \in Segmentos
               /\ Tam(Tcb(<<p, i>>)) = tam_tcb
    <3>1. <<p, i>> \in Trips
      BY <1>1
    <3> QED BY ONLY <3>1, Nombres, Tamanios
  <2> QED BY ONLY <2>1
<1>13. /\ Pcb(p) \in Segmentos /\ Tareas(p) \in Segmentos
       /\ g[Pcb(p)] = tam_pcb /\ g[Tareas(p)] = Patotas[p].longitud
       /\ Pcb(p) # Tareas(p) /\ Pcb(p) \notin T /\ Tareas(p) \notin T
  BY <1>5, Nombres, Tamanios
<1>14. tam_pcb \in Int /\ tam_tcb \in Int /\ Patotas[p].longitud \in Int
  <2>1. tam_pcb \in Nat \ {0} /\ tam_tcb \in Nat \ {0}
    BY ONLY ConstantesOK
  <2>2. Patotas[p].longitud \in Nat \ {0}
    BY ONLY Pedidas, p \in Pids
  <2> QED BY ONLY <2>1, <2>2
<1> HIDE DEF g, T
<1>15. SumFunctionOnSet(g, T) = n * tam_tcb
  BY <1>11, <1>12, <1>14, SumaConstante
<1> DEFINE P == {Pcb(p)}
           Q == P \cup {Tareas(p)}
<1>16. IsFiniteSet(P) /\ SumFunctionOnSet(g, P) = tam_pcb
  <2>1. IsFiniteSet({}) /\ {} \cup {Pcb(p)} = P /\ IsFiniteSet(P)
    BY FS_EmptySet, FS_Singleton
  <2>2. SumFunctionOnSet(g, {} \cup {Pcb(p)}) = SumFunctionOnSet(g, {}) + g[Pcb(p)]
    BY <2>1, <1>13, <1>14, SumaCon
  <2> QED BY <2>1, <2>2, <1>13, <1>14, SumaCero
<1>17. IsFiniteSet(Q) /\ SumFunctionOnSet(g, Q) = tam_pcb + Patotas[p].longitud
  <2>1. Tareas(p) \notin P /\ \A y \in P \cup {Tareas(p)} : g[y] \in Int
    BY <1>13, <1>14
  <2>2. SumFunctionOnSet(g, P \cup {Tareas(p)}) = SumFunctionOnSet(g, P) + g[Tareas(p)]
    BY ONLY <1>16, <2>1, SumaCon
  <2> QED BY <2>2, <1>13, <1>16, FS_AddElement
<1>18. SumFunctionOnSet(g, Q \cup T) = SumFunctionOnSet(g, Q) + SumFunctionOnSet(g, T)
  <2>1. Q \cap T = {} /\ \A y \in Q \cup T : g[y] \in Int
    BY <1>12, <1>13, <1>14
  <2> HIDE DEF Q
  <2> QED BY ONLY <1>11, <1>17, <2>1, SumaUnion
<1>19. FilaPatota(p) = Q \cup T
  BY <1>9
<1>20. SumFunctionOnSet(g, FilaPatota(p)) = MemoriaNecesaria(p)
  <2> HIDE DEF Q, P
  <2> QED BY <1>15, <1>17, <1>18, <1>19, <1>14 DEF MemoriaNecesaria, n
<1> QED BY <1>7, <1>8, <1>10, <1>20 DEF g

\* What a patota asks for is what was compared with the free memory.
LEMMA PasoRecibirPatota ==
  ASSUME Inductiva, RecibirPatota
  PROVE  Inductiva'
<1> USE DEF Inductiva, Formas
<1>1. PICK p \in Pids : p = recibidas + 1 /\ recibidas' = p
  <2>1. recibidas \in 0..Len(Patotas) /\ recibidas < Len(Patotas) /\ recibidas' = recibidas + 1
    BY DEF RecibirPatota, EnCurso
  <2> QED BY <2>1, Pedidas
<1>2. /\ UNCHANGED <<segmentos, seg, memoria, patotas, tabla, liberadas, mutex_trip, aceptadas,
                     compactacion, ubica, obt, caida>>
      /\ ini.fase = "libre" /\ ini.pid = 0 /\ EnLista' = EnLista /\ EnUso' = EnUso
  BY DEF RecibirPatota, espacio, tablas, EnCurso, EnLista, EnUso, Libres
<1>3. FormaEspacio' /\ FormaTablas' /\ FormaComp' /\ Pedidos' /\ Mosaico'
  BY <1>2 DEF FormaEspacio, FormaTablas, FormaComp, Pedidos, Mosaico, compactacion
<1>4. /\ recibidas \in Nat /\ \A q \in aceptadas : q <= recibidas /\ q # p
      /\ \A d \in EnLista : d[2] \in Int /\ d[2] <= recibidas /\ d[2] # p
  <2>1. recibidas \in Nat /\ \A q \in aceptadas : q \in 1..recibidas
    BY DEF EnCurso
  <2>2. \A d \in EnLista : d[2] \in Int /\ d[2] <= recibidas
    BY Numeros, Nombres, Pedidas DEF Reparto
  <2> QED BY <1>1, <2>1, <2>2
<1>5. Reparto'
  <2>1. \A d \in EnLista : d[2] <= p
    BY <1>1, <1>4
  <2> QED BY <1>1, <1>2, <2>1 DEF Reparto, Espacio
<1>6. recibidas' \in 0..Len(Patotas) /\ aceptadas' \subseteq 1..recibidas'
  <2>1. p \in 1..Len(Patotas)
    BY Pedidas
  <2>2. aceptadas \subseteq 1..recibidas
    BY DEF EnCurso
  <2> QED BY <1>1, <1>2, <1>4, <2>1, <2>2, Pedidas
<1>7. EnSuLugar'
  <2>1. \A q \in Pids : tabla[q] # <<>> => q \in aceptadas
    BY <1>2, Pedidas DEF EnSuLugar
  <2>2. \A d : Guarda(d)' = Guarda(d)
    BY <1>2 DEF Guarda, Lugares
  <2>3. Guarda(Hueco)' = Guarda(Hueco) /\ \A q \in Pids :
          /\ Guarda(Pcb(q))' = Guarda(Pcb(q)) /\ Guarda(Tareas(q))' = Guarda(Tareas(q))
    BY <1>2 DEF Guarda, Lugares
  <2>4. \A q \in Pids : \A d \in ToSet(tabla[q]) : d[2] = q /\ (~seg'[d].libre => Guarda(d)')
    BY <1>2, <2>2 DEF EnSuLugar
  <2>5. Vigentes \subseteq Pids /\ Vigentes' = Vigentes
    BY <1>2, AceptadasPids DEF Vigentes
  <2>6. \A q \in Vigentes : Guarda(Pcb(q))' /\ Guarda(Tareas(q))'
    BY <2>3, <2>5 DEF EnSuLugar
  <2> QED BY <1>2, <2>1, <2>4, <2>5, <2>6 DEF EnSuLugar
<1>8. CASE ini' = ini
  <2>1. EnCurso'
    BY <1>2, <1>6, <1>8 DEF EnCurso
  <2>2. Cabe'
    BY <1>2, <1>8 DEF Cabe
  <2> QED BY <1>3, <1>5, <1>7, <2>1, <2>2
<1>9. CASE /\ MemoriaNecesaria(p) <= MemoriaLibre
           /\ ini' = [fase |-> "asigna", pid |-> p, compacto |-> FALSE,
                      faltan |-> <<Pcb(p), Tareas(p)>>
                                   \o [i \in 1..Patotas[p].cantidad |-> Tcb(<<p, i>>)]]
  <2>1. PICK F : F = <<Pcb(p), Tareas(p)>>
                       \o [i \in 1..Patotas[p].cantidad |-> Tcb(<<p, i>>)]
    OBVIOUS
  <2>2. /\ F \in Seq(Segmentos) /\ IsInjective(F) /\ ToSet(F) = FilaPatota(p)
        /\ SumFunctionOnSet([d \in Segmentos |-> Tam(d)], FilaPatota(p)) = MemoriaNecesaria(p)
    BY <2>1, FilaPedida
  <2>3. ini' = [fase |-> "asigna", pid |-> p, compacto |-> FALSE, faltan |-> F]
    BY <1>9, <2>1
  <2>4. /\ ini'.fase = "asigna" /\ ini'.pid = p /\ ini'.compacto = FALSE /\ ini'.faltan = F
        /\ ini' \in [fase : {"libre", "asigna"}, pid : Pids \cup {0}, faltan : Seq(Segmentos),
                     compacto : BOOLEAN]
    BY ONLY <2>2, <2>3, p \in Pids
  <2>5. EnCurso'
    <3>1. FilaPatota(p) \cap EnLista = {}
      BY <1>4, FilaPropia
    <3>2. p \notin aceptadas'
      BY <1>2, <1>4
    <3>3. FilaPatota(p)' = FilaPatota(p) 
      BY DEF FilaPatota
    <3> QED BY <1>1, <1>2, <1>6, <2>2, <2>4, <3>1, <3>2 DEF EnCurso
  <2>6. Cabe'
    <3>1. Pide' = MemoriaNecesaria(p)
      BY <2>2, <2>4 DEF Pide
    <3>2. MemoriaLibre' = MemoriaLibre
      BY <1>2 DEF MemoriaLibre, Espacio, Libres
    <3> QED BY <1>9, <2>4, <3>1, <3>2 DEF Cabe
  <2> QED BY <1>3, <1>5, <1>7, <2>5, <2>6
<1>10. MemoriaNecesaria(p) \in Nat /\ MemoriaLibre \in Nat
  <2>1. PICK a \in Nat, b \in Nat, n \in Nat, c \in Nat :
          a = tam_pcb /\ b = Patotas[p].longitud /\ n = Patotas[p].cantidad /\ c = tam_tcb
    BY ConstantesOK, Pedidas
  <2>2. MemoriaNecesaria(p) = a + b + n * c
    BY <2>1 DEF MemoriaNecesaria
  <2> QED BY <2>2, Espacios
<1>11. ~(MemoriaLibre < MemoriaNecesaria(p)) => MemoriaNecesaria(p) <= MemoriaLibre
  BY ONLY <1>10
<1> HIDE DEF Inductiva, Formas
<1> QED BY <1>1, <1>8, <1>9, <1>11 DEF RecibirPatota

\* What is asked for is what the next segment takes and what the others do.
LEMMA PideYToma ==
  ASSUME EnCurso, ini.fase = "asigna", ini.faltan # <<>>
  PROVE  /\ Pide \in Nat /\ Tam(Head(ini.faltan)) <= Pide
         /\ Pide - Tam(Head(ini.faltan))
              = SumFunctionOnSet([d \in Segmentos |-> Tam(d)], ToSet(Tail(ini.faltan)))
<1> DEFINE d == Head(ini.faltan)
           S == ToSet(Tail(ini.faltan))
           g == [c \in Segmentos |-> Tam(c)]
<1>1. ini.faltan \in Seq(Segmentos) /\ IsInjective(ini.faltan)
  BY DEF EnCurso
<1>2. /\ d \in Segmentos /\ Tail(ini.faltan) \in Seq(Segmentos)
      /\ ToSet(ini.faltan) = S \cup {d} /\ d \notin S
  BY <1>1, CabezaYCola
<1>3. IsFiniteSet(S) /\ S \subseteq Segmentos
  BY <1>2, ElementosFinitos
<1>4. g[d] = Tam(d) /\ Tam(d) \in Nat /\ \A c \in S \cup {d} : g[c] \in Nat /\ g[c] \in Int
  BY <1>2, <1>3, Tamanios
<1>5. Pide = SumFunctionOnSet(g, S \cup {d})
  BY <1>2 DEF Pide
<1> HIDE DEF d, S, g
<1>6. SumFunctionOnSet(g, S \cup {d}) = SumFunctionOnSet(g, S) + g[d]
  BY <1>2, <1>3, <1>4, SumaCon
<1>7. SumFunctionOnSet(g, S) \in Nat
  BY <1>3, <1>4, SumaMenor
<1>8. Pide \in Nat /\ Tam(d) <= Pide /\ Pide - Tam(d) = SumFunctionOnSet(g, S)
  BY ONLY <1>4, <1>5, <1>6, <1>7
<1> QED BY <1>8 DEF d, S, g

\* After a compaction the free segment is large enough, so only a first failure is met.
LEMMA PasoSinSegmento ==
  ASSUME Inductiva, SinSegmento
  PROVE  Inductiva'
<1> USE DEF Inductiva, Formas
<1>1. /\ ini.fase = "asigna" /\ ini.faltan # <<>>
      /\ \A i \in DOMAIN segmentos : ~Entra(i, Tam(Head(ini.faltan)))
      /\ UNCHANGED <<espacio, tablas, mutex_trip, recibidas, aceptadas, ubica, obt, caida>>
  BY DEF SinSegmento, EnAlta
<1>2. ~ini.compacto
  <2>1. SUFFICES ASSUME ini.compacto PROVE FALSE
    OBVIOUS
  <2>2. Hueco \in EnLista /\ seg[Hueco].tam >= Pide /\ seg[Hueco].libre
    BY <1>1, <2>1 DEF Cabe, Reparto
  <2>3. PICK i \in DOMAIN segmentos : segmentos[i] = Hueco
    BY <2>2 DEF EnLista, ToSet
  <2>4. /\ Pide \in Nat /\ Tam(Head(ini.faltan)) <= Pide /\ Tam(Head(ini.faltan)) \in Nat
        /\ seg[Hueco].tam \in Nat
    <3>1. Head(ini.faltan) \in Segmentos
      BY <1>1, CabezaYCola DEF EnCurso
    <3> QED BY <1>1, <3>1, PideYToma, Tamanios, Numeros, Nombres
  <2>5. Entra(i, Tam(Head(ini.faltan)))
    BY <2>2, <2>3, <2>4 DEF Entra
  <2> QED BY <1>1, <2>3, <2>5
<1>3. comp' = [fase |-> "bloquea", tomados |-> 0] /\ UNCHANGED altas
  BY <1>2 DEF SinSegmento, altas
<1>4. FormaEspacio' /\ Mosaico' /\ Reparto' /\ EnCurso' /\ Cabe' /\ EnSuLugar'
  BY <1>1, <1>3, PasoQuieto
<1>5. FormaTablas' /\ Pedidos'
  BY <1>1 DEF FormaTablas, tablas, Pedidos
<1>6. FormaComp'
  <2>1. segmentos' = segmentos /\ Len(segmentos) \in Nat
    BY <1>1, Numeros DEF espacio
  <2> QED BY <1>3, <2>1 DEF FormaComp
<1> QED BY <1>4, <1>5, <1>6

\* The PCB and the tasks are loaded in their segments, and the other segments stay as they are.
LEMMA PublicarContenido ==
  ASSUME Inductiva, PublicarPatota, NEW p, p = ini.pid
  PROVE  /\ p \in Pids /\ p \notin aceptadas /\ FilaPatota(p) \subseteq EnUso
         /\ memoria' = [a \in DOMAIN memoria |->
                          IF a \in Lugares(Tareas(p)) THEN [de |-> Tareas(p), tarea |-> 0]
                          ELSE IF a \in Lugares(Pcb(p)) THEN [de |-> Pcb(p), tarea |-> 0]
                          ELSE memoria[a]]
         /\ \A d \in EnLista : d # Pcb(p) /\ d # Tareas(p) => Copiado(d)
<1>1. ini.fase = "asigna" /\ ini.faltan = <<>> /\ UNCHANGED <<segmentos, seg>>
  BY DEF PublicarPatota, EnAlta
<1>2. p \in Pids /\ p \notin aceptadas /\ FilaPatota(p) \subseteq EnUso
  BY <1>1 DEF Inductiva, EnCurso, ToSet
<1>3. /\ Pcb(p) \in EnLista /\ seg[Pcb(p)].tam = tam_pcb
      /\ Tareas(p) \in EnLista /\ seg[Tareas(p)].tam = Tam(Tareas(p))
  <2>1. Pcb(p) \in EnUso /\ Tareas(p) \in EnUso
    BY <1>2, FilaPropia
  <2>2. \A d \in EnUso : d \in EnLista /\ ~seg[d].libre
    BY DEF EnUso, Libres, EnLista
  <2>3. Pcb(p) \in Segmentos /\ Tareas(p) \in Segmentos /\ Tam(Pcb(p)) = tam_pcb
    BY <1>2, Nombres, Tamanios
  <2> QED BY <2>1, <2>2, <2>3 DEF Inductiva, Reparto
<1>4. memoria' = [a \in DOMAIN memoria |->
                    IF a \in Lugares(Tareas(p)) THEN [de |-> Tareas(p), tarea |-> 0]
                    ELSE IF a \in Lugares(Pcb(p)) THEN [de |-> Pcb(p), tarea |-> 0]
                    ELSE memoria[a]]
  <2>1. memoria' = Cargar(Cargar(memoria, seg[Pcb(p)].inicio, tam_pcb,
                                 [de |-> Pcb(p), tarea |-> 0]),
                          seg[Tareas(p)].inicio, Tam(Tareas(p)), [de |-> Tareas(p), tarea |-> 0])
    BY DEF PublicarPatota
  <2> QED BY <1>3, <2>1 DEF Cargar, Lugares
<1>5. ASSUME NEW d \in EnLista, d # Pcb(p), d # Tareas(p)
      PROVE  Copiado(d)
  <2>1. \A a \in Lugares(d) : /\ a \in DOMAIN memoria
                              /\ a \notin Lugares(Pcb(p)) /\ a \notin Lugares(Tareas(p))
    BY <1>3, <1>5, LugaresAjenos, LugaresDentro DEF Inductiva, Formas
  <2>2. Lugares(d)' = Lugares(d)
    BY <1>1 DEF Lugares
  <2> QED BY ONLY <1>4, <2>1, <2>2 DEF Copiado
<1> QED BY <1>2, <1>4, <1>5

\* The patota has all its segments; what is loaded is in places of its own.
LEMMA PasoPublicarPatota ==
  ASSUME Inductiva, PublicarPatota
  PROVE  Inductiva'
<1> USE DEF Inductiva, Formas
<1>1. PICK p : p = ini.pid
  OBVIOUS
<1>2. /\ ini.fase = "asigna" /\ ini.faltan = <<>> /\ patotas' = Append(patotas, p)
      /\ aceptadas' = aceptadas \cup {p} /\ ini' = SinAlta
      /\ UNCHANGED <<segmentos, seg, tabla, liberadas, mutex_trip, recibidas, compactacion,
                     ubica, obt, caida>>
  BY <1>1 DEF PublicarPatota, EnAlta
<1>3. p \in Pids /\ p \notin aceptadas /\ p = recibidas /\ FilaPatota(p) \subseteq EnUso
  BY <1>1, <1>2 DEF EnCurso, ToSet
<1>4. /\ Pcb(p) \in EnUso /\ Tareas(p) \in EnUso /\ Pcb(p) # Tareas(p)
      /\ Pcb(p) \in Segmentos /\ Tareas(p) \in Segmentos
  BY <1>3, FilaPropia, Nombres
<1>5. /\ Pcb(p) \in EnLista /\ ~seg[Pcb(p)].libre /\ seg[Pcb(p)].tam = tam_pcb
      /\ Tareas(p) \in EnLista /\ ~seg[Tareas(p)].libre /\ seg[Tareas(p)].tam = Tam(Tareas(p))
  <2>1. \A d \in EnUso : d \in EnLista /\ ~seg[d].libre
    BY DEF EnUso, Libres, EnLista
  <2> QED BY <1>3, <1>4, <2>1, Tamanios DEF Reparto
<1>6. memoria' = [a \in DOMAIN memoria |->
                    IF a \in Lugares(Tareas(p)) THEN [de |-> Tareas(p), tarea |-> 0]
                    ELSE IF a \in Lugares(Pcb(p)) THEN [de |-> Pcb(p), tarea |-> 0]
                    ELSE memoria[a]]
  BY <1>1, PublicarContenido
<1>7. FormaEspacio'
  <2>1. memoria \in [0..TAMANIO_MEMORIA - 1 -> [de : Segmentos, tarea : Nat]]
    BY DEF FormaEspacio
  <2>2. memoria' \in [0..TAMANIO_MEMORIA - 1 -> [de : Segmentos, tarea : Nat]]
    BY <1>4, <1>6, <2>1
  <2> QED BY <1>2, <2>2 DEF FormaEspacio
<1>8. /\ patotas \in Seq(Pids) /\ ToSet(patotas) \subseteq aceptadas /\ IsInjective(patotas)
      /\ ToSet(patotas) \subseteq Vigentes /\ liberadas \subseteq aceptadas
  BY DEF FormaTablas, EnSuLugar, Vigentes
<1>9. /\ patotas' \in Seq(Pids) /\ ToSet(patotas') = ToSet(patotas) \cup {p}
      /\ IsInjective(patotas')
  <2>1. \A s : ToSet(s) = Range(s)
    BY DEF ToSet, Range
  <2>2. p \notin Range(patotas)
    BY <1>3, <1>8, <2>1
  <2>3. /\ Append(patotas, p) \in Seq(Pids)
        /\ Range(Append(patotas, p)) = Range(patotas) \cup {p}
        /\ IsInjective(Append(patotas, p))
    BY <1>3, <1>8, <2>2, AgregarSeq
  <2> QED BY <1>2, <2>1, <2>3
<1>10. FormaTablas' /\ FormaComp'
  BY <1>2, <1>9 DEF FormaTablas, FormaComp, compactacion
<1>11. Pedidos'
  BY <1>2 DEF Pedidos
<1>12. Mosaico' /\ Reparto'
  BY <1>2 DEF Mosaico, Reparto, EnLista, Espacio
<1>13. EnCurso' /\ Cabe'
  <2>1. aceptadas \subseteq 1..recibidas /\ p \in 1..recibidas
    BY <1>3, Pedidas DEF EnCurso
  <2>2. ini' \in [fase : {"libre", "asigna"}, pid : Pids \cup {0}, faltan : Seq(Segmentos),
                  compacto : BOOLEAN]
    BY <1>2 DEF SinAlta
  <2> QED BY <1>2, <2>1, <2>2 DEF EnCurso, Cabe, SinAlta
<1>14. Guarda(Pcb(p))' /\ Guarda(Tareas(p))'
  <2>1. \A a \in Lugares(Pcb(p)) : a \in DOMAIN memoria /\ a \notin Lugares(Tareas(p))
    BY <1>4, <1>5, LugaresAjenos, LugaresDentro
  <2>2. \A a \in Lugares(Tareas(p)) : a \in DOMAIN memoria
    BY <1>5, LugaresDentro
  <2>3. Guarda(Pcb(p))'
    BY <1>2, <1>6, <2>1 DEF Guarda, Lugares
  <2>4. Guarda(Tareas(p))'
    BY <1>2, <1>6, <2>2 DEF Guarda, Lugares
  <2> QED BY <2>3, <2>4
<1>15. ASSUME NEW d \in EnLista, d # Pcb(p), d # Tareas(p), Guarda(d)
       PROVE  Guarda(d)'
  <2>1. Copiado(d)
    BY <1>1, <1>15, PublicarContenido
  <2> QED BY <1>15, <2>1 DEF Copiado, Guarda
<1>16. EnSuLugar'
  <2>1. ASSUME NEW q \in Vigentes
        PROVE  /\ ~seg[Pcb(q)].libre /\ ~seg[Tareas(q)].libre
               /\ Guarda(Pcb(q))' /\ Guarda(Tareas(q))'
    <3>1. q \in Pids /\ q # p
      BY <1>3, AceptadasPids DEF Vigentes
    <3>2. /\ Pcb(q) \in Segmentos /\ Tareas(q) \in Segmentos
          /\ Pcb(q) # Pcb(p) /\ Pcb(q) # Tareas(p) /\ Tareas(q) # Pcb(p) /\ Tareas(q) # Tareas(p)
      BY <3>1 DEF Segmentos, Pcb, Tareas
    <3>3. ~seg[Pcb(q)].libre /\ ~seg[Tareas(q)].libre /\ Guarda(Pcb(q)) /\ Guarda(Tareas(q))
      BY <2>1 DEF EnSuLugar
    <3>4. Pcb(q) \in EnLista /\ Tareas(q) \in EnLista
      BY <3>2, <3>3 DEF Reparto
    <3>5. Guarda(Pcb(q))'
      BY <1>15, <3>2, <3>3, <3>4
    <3>6. Guarda(Tareas(q))'
      BY <1>15, <3>2, <3>3, <3>4
    <3> QED BY <3>3, <3>5, <3>6
  <2>2. \A q \in ToSet(patotas) \cup {p} : \A t \in Trips :
          obt[t].pat = q => obt[t].pc # "destruye"
    <3>1. \A t \in Trips : obt[t].pat = p => obt[t].pc # "destruye"
      BY <1>3 DEF Pedidos
    <3> QED BY <3>1 DEF EnSuLugar
  <2>3. ASSUME NEW q \in Pids, NEW d \in ToSet(tabla[q])
        PROVE  d[2] = q /\ (~seg[d].libre => Guarda(d)')
    <3>1. d \in Tcbs
      BY ElementosFinitos DEF FormaTablas
    <3>2. d \in Segmentos /\ d # Pcb(p) /\ d # Tareas(p)
      BY <1>3, <3>1, Nombres
    <3>3. d[2] = q /\ (~seg[d].libre => Guarda(d) /\ d \in EnLista)
      BY <2>3, <3>2 DEF EnSuLugar, Reparto
    <3> QED BY <1>15, <3>2, <3>3
  <2>4. \A q \in Pids : tabla[q] # <<>> => q \in aceptadas \cup {p}
    BY <1>1 DEF EnSuLugar
  <2>5. /\ Vigentes' = Vigentes \cup {p}
        /\ ToSet(patotas') \subseteq Vigentes' /\ liberadas' \subseteq aceptadas'
    BY <1>2, <1>3, <1>8, <1>9 DEF Vigentes
  <2>6. \A q \in Vigentes' : /\ ~seg'[Pcb(q)].libre /\ ~seg'[Tareas(q)].libre
                             /\ Guarda(Pcb(q))' /\ Guarda(Tareas(q))'
    BY <1>2, <1>5, <1>14, <2>1, <2>5
  <2> QED BY <1>2, <1>9, <2>2, <2>3, <2>4, <2>5, <2>6 DEF EnSuLugar
<1> QED BY <1>7, <1>10, <1>11, <1>12, <1>13, <1>16

\* A segment that is asked for, and a free one of the list with room for it.
Cabida(i, d) ==
  /\ i \in DOMAIN segmentos /\ seg[segmentos[i]].libre
  /\ Tam(d) <= seg[segmentos[i]].tam
  /\ d \in Segmentos \ EnLista /\ d # Hueco

\* What becomes of both.
Reparte(h, d) ==
  /\ seg' \in FormaSeg
  /\ seg'[d].inicio = seg[h].inicio /\ seg'[d].tam = Tam(d) /\ ~seg'[d].libre
  /\ seg'[h].inicio = seg[h].inicio + Tam(d) /\ seg'[h].tam = seg[h].tam - Tam(d)
  /\ seg'[h].libre
  /\ \A c \in Segmentos \ {d, h} : seg'[c] = seg[c]

\* The two segments a split leaves, by name.
LEMMA OcuparReparte ==
  ASSUME FormaEspacio, Mosaico, NEW i, NEW d, Cabida(i, d), Ocupar(i, d)
  PROVE  /\ Reparte(segmentos[i], d)
         /\ segmentos[i] \in EnLista /\ segmentos[i] \in Segmentos /\ segmentos[i] # d
<1>1. PICK h : h = segmentos[i]
  OBVIOUS
<1>2. h \in EnLista /\ h \in Segmentos /\ h # d /\ d \in Segmentos
  BY <1>1, Numeros DEF Cabida, EnLista, ToSet
<1>3. PICK x \in Nat, m \in Nat, n \in Nat, M \in Nat :
        /\ x = seg[h].inicio /\ m = seg[h].tam /\ n = Tam(d) /\ M = TAMANIO_MEMORIA
  BY <1>2, Numeros, Tamanios
<1>4. n <= m /\ x + m <= M
  BY <1>1, <1>2, <1>3, Separados DEF Cabida
<1>5. x \in 0..M /\ n \in 0..M /\ x + n \in 0..M /\ m - n \in 0..M
  BY ONLY <1>4, x \in Nat, m \in Nat, n \in Nat, M \in Nat
<1>6. seg' = [seg EXCEPT ![d] = [inicio |-> x, tam |-> n, libre |-> FALSE],
                         ![h].inicio = @ + n, ![h].tam = @ - n]
  BY <1>1, <1>3 DEF Ocupar
<1>7. seg \in [Segmentos -> [inicio : 0..M, tam : 0..M, libre : BOOLEAN]] /\ seg[h].libre
  BY <1>1, <1>3 DEF FormaEspacio, Cabida
<1>8. /\ seg'[d] = [inicio |-> x, tam |-> n, libre |-> FALSE]
      /\ seg'[h] = [seg[h] EXCEPT !.inicio = x + n, !.tam = m - n]
      /\ \A c \in Segmentos \ {d, h} : seg'[c] = seg[c]
      /\ DOMAIN seg' = Segmentos
  BY ONLY <1>2, <1>3, <1>6, <1>7
<1>9. seg'[h] \in [inicio : 0..M, tam : 0..M, libre : BOOLEAN]
      /\ seg'[h].inicio = x + n /\ seg'[h].tam = m - n /\ seg'[h].libre
  <2>1. PICK v \in [inicio : 0..M, tam : 0..M, libre : BOOLEAN] : v = seg[h] /\ v.libre
    BY ONLY <1>2, <1>7
  <2>2. seg'[h] = [v EXCEPT !.inicio = x + n, !.tam = m - n]
    BY ONLY <1>8, <2>1
  <2> QED BY ONLY <1>5, <2>1, <2>2
<1>10. seg'[d] \in [inicio : 0..M, tam : 0..M, libre : BOOLEAN]
       /\ seg'[d].inicio = x /\ seg'[d].tam = n /\ ~seg'[d].libre
  BY ONLY <1>5, <1>8
<1>11. \A c \in Segmentos : seg'[c] \in [inicio : 0..M, tam : 0..M, libre : BOOLEAN]
  BY ONLY <1>7, <1>8, <1>9, <1>10
<1>12. seg' = [c \in Segmentos |-> seg'[c]]
  BY ONLY <1>6, <1>7
<1>13. seg' \in FormaSeg
  BY ONLY <1>3, <1>11, <1>12 DEF FormaSeg
<1> QED BY <1>1, <1>2, <1>3, <1>8, <1>9, <1>10, <1>13 DEF Reparte

\* The new one is put before the free one: the list still tiles the memory.
LEMMA OcuparMosaico ==
  ASSUME FormaEspacio, Mosaico, NEW i, NEW d, Cabida(i, d), Ocupar(i, d)
  PROVE  /\ segmentos' \in Seq(Segmentos) /\ EnLista' = EnLista \cup {d}
         /\ Mosaico'
<1>1. PICK h : h = segmentos[i]
  OBVIOUS
<1>2. Reparte(h, d) /\ h \in EnLista /\ h \in Segmentos /\ h # d
  BY <1>1, OcuparReparte
<1>3. PICK n \in Nat : n = Len(segmentos)
  BY Numeros
<1>4. /\ DOMAIN segmentos = 1..n /\ i \in 1..n /\ d \in Segmentos /\ d \notin EnLista
      /\ IsInjective(segmentos) /\ segmentos \in Seq(Segmentos)
  BY <1>3, Numeros DEF Cabida, Mosaico, FormaEspacio
<1>5. PICK r : r = segmentos'
  OBVIOUS
<1>6. /\ r \in Seq(Segmentos) /\ Len(r) = n + 1 /\ IsInjective(r)
      /\ ToSet(r) = EnLista \cup {d} /\ DOMAIN r = 1..n+1
      /\ \A j \in 1..n+1 : r[j] = IF j < i THEN segmentos[j] ELSE
                                  IF j = i THEN d ELSE segmentos[j-1]
  <2>1. r = InsertAt(segmentos, i, d)
    BY <1>5 DEF Ocupar
  <2>2. /\ InsertAt(segmentos, i, d) \in Seq(Segmentos)
        /\ Len(InsertAt(segmentos, i, d)) = Len(segmentos) + 1
        /\ \A j \in 1..Len(segmentos)+1 : InsertAt(segmentos, i, d)[j] =
             IF j < i THEN segmentos[j] ELSE IF j = i THEN d ELSE segmentos[j-1]
        /\ ToSet(InsertAt(segmentos, i, d)) = ToSet(segmentos) \cup {d}
        /\ IsInjective(InsertAt(segmentos, i, d))
    <3>1. /\ d \notin ToSet(segmentos) /\ i \in DOMAIN segmentos /\ d \in Segmentos
          /\ segmentos \in Seq(Segmentos) /\ IsInjective(segmentos)
      BY <1>4 DEF EnLista
    <3>2. /\ InsertAt(segmentos, i, d) \in Seq(Segmentos)
          /\ ConInsertado(InsertAt(segmentos, i, d), segmentos, i, d)
          /\ ToSet(InsertAt(segmentos, i, d)) = ToSet(segmentos) \cup {d}
          /\ IsInjective(InsertAt(segmentos, i, d))
      <4>1. /\ InsertAt(segmentos, i, d) \in Seq(Segmentos)
            /\ ConInsertado(InsertAt(segmentos, i, d), segmentos, i, d)
        BY ONLY <3>1, InsertarSeq
      <4>2. ToSet(InsertAt(segmentos, i, d)) = ToSet(segmentos) \cup {d}
        BY ONLY <3>1, InsertarSeq
      <4>3. IsInjective(InsertAt(segmentos, i, d))
        BY ONLY <3>1, InsertarSeq
      <4> QED BY <4>1, <4>2, <4>3
    <3> QED BY <3>2 DEF ConInsertado
  <2>3. r \in Seq(Segmentos) /\ Len(r) = n + 1
    BY <1>3, <2>1, <2>2
  <2> QED BY <1>3, <2>1, <2>2, <2>3, LenProperties DEF EnLista
<1>7. /\ \A c \in EnLista : c \in Segmentos /\ c # d
      /\ \A j \in 1..n : segmentos[j] \in EnLista
      /\ \A j, k \in 1..n : segmentos[j] = segmentos[k] => j = k
  BY <1>4, Numeros DEF EnLista, ToSet, IsInjective
<1> DEFINE ini_(c) == seg[c].inicio
           fin(c) == seg[c].inicio + seg[c].tam
           inip(c) == seg'[c].inicio
           finp(c) == seg'[c].inicio + seg'[c].tam
<1>8. /\ \A c \in EnLista : finp(c) = fin(c) /\ (c # h => inip(c) = ini_(c))
      /\ inip(d) = ini_(h) /\ finp(d) = inip(h)
  <2>1. finp(h) = fin(h)
    <3>1. PICK x \in Nat, m \in Nat, k \in Nat :
            x = seg[h].inicio /\ m = seg[h].tam /\ k = Tam(d)
      BY <1>2, <1>4, Numeros, Tamanios
    <3>2. seg'[h].inicio = x + k /\ seg'[h].tam = m - k
      BY <1>2, <3>1 DEF Reparte
    <3>3. (x + k) + (m - k) = x + m
      BY ONLY x \in Nat, m \in Nat, k \in Nat
    <3> QED BY <3>1, <3>2, <3>3
  <2>2. \A c \in EnLista : c # h => seg'[c] = seg[c]
    BY <1>2, <1>7 DEF Reparte
  <2>3. inip(d) = ini_(h) /\ finp(d) = inip(h)
    BY <1>2 DEF Reparte
  <2> QED BY <2>1, <2>2, <2>3
<1>9. /\ \A j \in 1..n : ini_(segmentos[j]) = IF j = 1 THEN 0 ELSE fin(segmentos[j-1])
      /\ fin(segmentos[n]) = TAMANIO_MEMORIA
  <2>1. \A j \in 1..n : ini_(segmentos[j]) = IF j-1 = 0 THEN 0 ELSE fin(segmentos[j-1])
    BY <1>4 DEF Mosaico
  <2>2. n # 0 /\ \A j \in 1..n : j-1 = 0 <=> j = 1
    BY <1>4
  <2>3. fin(segmentos[n]) = TAMANIO_MEMORIA
    BY <1>3, <2>2 DEF Mosaico
  <2> QED BY <2>1, <2>2, <2>3
<1> HIDE DEF ini_, fin, inip, finp
<1>10. ASSUME NEW j \in 1..n+1
       PROVE  inip(r[j]) = IF j = 1 THEN 0 ELSE finp(r[j-1])
  <2>0. j \in Int /\ i \in Int /\ n \in Int /\ i <= n /\ 1 <= i
    BY <1>4
  <2>1. CASE j < i
    <3>1. j \in 1..n /\ j # i /\ r[j] = segmentos[j] /\ segmentos[j] # h
      BY <1>1, <1>4, <1>6, <1>7, <2>0, <2>1
    <3>2. j # 1 => j-1 \in 1..n /\ j-1 \in 1..n+1 /\ j-1 < i /\ r[j-1] = segmentos[j-1]
      BY <1>6, <2>0, <2>1
    <3> QED BY <1>7, <1>8, <1>9, <3>1, <3>2
  <2>2. CASE j = i
    <3>1. r[j] = d /\ inip(d) = ini_(segmentos[i])
      BY <1>1, <1>6, <1>8, <2>0, <2>2
    <3>2. j # 1 => j-1 \in 1..n /\ j-1 \in 1..n+1 /\ j-1 < i /\ r[j-1] = segmentos[j-1]
      BY <1>6, <2>0, <2>2
    <3> QED BY <1>4, <1>7, <1>8, <1>9, <2>2, <3>1, <3>2
  <2>3. CASE j = i + 1
    <3>1. j-1 = i /\ ~(j < i) /\ j # i /\ j # 1 /\ i \in 1..n+1 /\ ~(i < i)
      BY <2>0, <2>3
    <3>2. r[j] = h /\ r[j-1] = d
      BY <1>1, <1>6, <3>1
    <3> QED BY <1>8, <3>1, <3>2
  <2>4. CASE j > i + 1
    <3>1. /\ j-1 \in 1..n /\ j-1 # i /\ j-1 # 1 /\ (j-1)-1 \in 1..n /\ j-1 \in 1..n+1
          /\ ~(j < i) /\ j # i /\ ~(j-1 < i) /\ j # 1
      BY <2>0, <2>4
    <3>2. r[j] = segmentos[j-1] /\ r[j-1] = segmentos[(j-1)-1]
      BY <1>6, <3>1
    <3>3. segmentos[j-1] # h
      BY <1>1, <1>4, <1>7, <3>1
    <3>4. ini_(segmentos[j-1]) = fin(segmentos[(j-1)-1])
      BY <1>9, <3>1
    <3>5. inip(segmentos[j-1]) = ini_(segmentos[j-1])
      BY <1>7, <1>8, <3>1, <3>3
    <3>6. finp(segmentos[(j-1)-1]) = fin(segmentos[(j-1)-1])
      BY <1>7, <1>8, <3>1
    <3> QED BY ONLY <3>1, <3>2, <3>4, <3>5, <3>6
  <2> QED BY ONLY <2>0, <2>1, <2>2, <2>3, <2>4
<1>11. finp(r[n+1]) = TAMANIO_MEMORIA
  <2>1. n+1 \in 1..n+1 /\ ~(n+1 < i) /\ n+1 # i /\ (n+1)-1 = n /\ n \in 1..n
    BY <1>4
  <2>2. r[n+1] = segmentos[n]
    BY <1>6, <2>1
  <2> QED BY <1>7, <1>8, <1>9, <2>1, <2>2
<1>12. Mosaico'
  <2>1. \A j \in 1..n+1 : j-1 = 0 <=> j = 1
    OBVIOUS
  <2>2. n + 1 # 0
    OBVIOUS
  <2>3. \A j \in 1..n+1 : inip(r[j]) = IF j-1 = 0 THEN 0 ELSE finp(r[j-1])
    BY <1>10, <2>1
  <2> QED BY <1>5, <1>6, <1>11, <2>2, <2>3 DEF Mosaico, inip, finp
<1> QED BY <1>5, <1>6, <1>12 DEF EnLista

\* What the new segment takes the free one does not have any more.
LEMMA OcuparEspacio ==
  ASSUME FormaEspacio, Mosaico, NEW i, NEW d, Cabida(i, d), Ocupar(i, d)
  PROVE  /\ Libres' = Libres /\ EnUso \subseteq EnUso' /\ d \in EnUso'
         /\ MemoriaLibre' = MemoriaLibre - Tam(d)
         /\ Espacio(EnLista)' = Espacio(EnLista)
<1>1. PICK h : h = segmentos[i]
  OBVIOUS
<1>2. PICK n : n = Tam(d)
  OBVIOUS
<1>3. /\ Reparte(h, d) /\ h \in EnLista /\ h \in Segmentos /\ h # d /\ seg[h].libre
      /\ EnLista' = EnLista \cup {d} /\ d \in Segmentos /\ d \notin EnLista
      /\ EnLista \subseteq Segmentos /\ IsFiniteSet(EnLista) /\ n \in Nat
  BY <1>1, <1>2, OcuparReparte, OcuparMosaico, Numeros, Espacios, Tamanios DEF Cabida
<1>4. Libres' = Libres
  <2>1. /\ Libres = {c \in EnLista : seg[c].libre}
        /\ Libres' = {c \in EnLista \cup {d} : seg'[c].libre}
    BY <1>3 DEF Libres, EnLista
  <2>2. /\ ~seg'[d].libre /\ seg'[h].libre
        /\ \A c \in EnLista : c # h => seg'[c].libre = seg[c].libre
    BY <1>3 DEF Reparte
  <2> QED BY <1>3, <2>1, <2>2
<1>5. EnUso' = EnUso \cup {d}
  <2>1. d \notin Libres
    BY <1>3 DEF Libres, EnLista
  <2> QED BY <1>3, <1>4, <2>1 DEF EnUso, EnLista
<1> DEFINE f == [c \in Segmentos |-> seg[c].tam]
           k == [c \in Segmentos |-> seg'[c].tam]
<1>6. /\ \A c \in EnLista : f[c] \in Nat /\ (c # h => k[c] = f[c])
      /\ k[h] = f[h] - n /\ k[d] = n
      /\ \A S : Espacio(S) = SumFunctionOnSet(f, S)
  BY <1>2, <1>3, Numeros DEF Reparte, Espacio
<1>7. MemoriaLibre' = SumFunctionOnSet(k, Libres')
      /\ Espacio(EnLista)' = SumFunctionOnSet(k, EnLista')
  BY DEF MemoriaLibre, Espacio
<1> HIDE DEF f, k
<1>8. ASSUME NEW S \in SUBSET EnLista, h \in S
      PROVE  SumFunctionOnSet(k, S) = Espacio(S) - n /\ Espacio(S) \in Nat
  <2>1. PICK T : T = S \ {h}
    OBVIOUS
  <2>2. IsFiniteSet(S) /\ IsFiniteSet(T) /\ \A c \in T : k[c] = f[c] /\ f[c] \in Int
    BY <1>3, <1>6, <2>1, FS_Subset
  <2>3. /\ SumFunctionOnSet(f, T) \in Int
        /\ SumFunctionOnSet(f, S) = SumFunctionOnSet(f, T) + f[h]
    <3>1. \A c \in S : f[c] \in Int
      BY <1>6
    <3> QED BY ONLY <1>8, <2>1, <2>2, <3>1, SumaSin
  <2>4. SumFunctionOnSet(k, S) = SumFunctionOnSet(k, T) + k[h]
    <3>1. \A c \in S : k[c] \in Int
      BY <1>3, <1>6
    <3> QED BY ONLY <1>8, <2>1, <2>2, <3>1, SumaSin
  <2>5. SumFunctionOnSet(k, T) = SumFunctionOnSet(f, T)
    BY ONLY <2>2, SumaMisma
  <2>6. Espacio(S) = SumFunctionOnSet(f, S) /\ Espacio(S) \in Nat
    BY <1>6, Espacios
  <2>7. PICK a \in Int, b \in Int : a = SumFunctionOnSet(f, T) /\ b = f[h]
    BY <1>3, <1>6, <2>3
  <2>8. a + (b - n) = (a + b) - n
    BY ONLY <1>3, a \in Int, b \in Int
  <2> QED BY ONLY <1>6, <2>3, <2>4, <2>5, <2>6, <2>7, <2>8
<1>9. MemoriaLibre' = MemoriaLibre - n
  <2>1. Libres \in SUBSET EnLista /\ h \in Libres
    BY <1>3 DEF Libres, EnLista
  <2> QED BY <1>4, <1>7, <1>8, <2>1 DEF MemoriaLibre
<1>10. Espacio(EnLista)' = Espacio(EnLista)
  <2>1. SumFunctionOnSet(k, EnLista) = Espacio(EnLista) - n /\ Espacio(EnLista) \in Nat
    BY <1>3, <1>8
  <2>2. SumFunctionOnSet(k, EnLista \cup {d}) = SumFunctionOnSet(k, EnLista) + k[d]
    <3>1. \A c \in EnLista \cup {d} : k[c] \in Int
      BY <1>3, <1>6
    <3> QED BY ONLY <1>3, <3>1, SumaCon
  <2> QED BY ONLY <1>3, <1>6, <1>7, <2>1, <2>2
<1> QED BY <1>2, <1>4, <1>5, <1>9, <1>10

\* A TCB that gets its segment is loaded there, and what is in use stays as it is.
LEMMA OcuparContenido ==
  ASSUME FormaEspacio, Mosaico, NEW i, NEW d, Cabida(i, d), Ocupar(i, d),
         IF d \in Tcbs
         THEN memoria' = Cargar(memoria, seg'[d].inicio, Tam(d), [de |-> d, tarea |-> 0])
         ELSE memoria' = memoria
  PROVE  /\ \A c \in EnLista : ~seg[c].libre => Copiado(c)
         /\ d \in Tcbs => \A a \in Lugares(d)' : memoria'[a] = [de |-> d, tarea |-> 0]
<1>1. PICK h : h = segmentos[i]
  OBVIOUS
<1>2. /\ Reparte(h, d) /\ h \in EnLista /\ h \in Segmentos /\ seg[h].libre
      /\ d \in Segmentos \ EnLista /\ Tam(d) <= seg[h].tam
  BY <1>1, OcuparReparte DEF Cabida
<1>3. PICK x \in Nat, n \in Nat, m \in Nat, M \in Nat :
        x = seg[h].inicio /\ n = Tam(d) /\ m = seg[h].tam /\ M = TAMANIO_MEMORIA
  BY <1>2, Numeros, Tamanios
<1>4. n <= m /\ x + m <= M /\ seg'[d].inicio = x /\ seg'[d].tam = n /\ DOMAIN memoria = 0 .. M-1
  BY <1>2, <1>3, Separados DEF Reparte, FormaEspacio
<1>5. Lugares(h) = x .. x + m - 1 /\ Lugares(d)' = x .. x + n - 1
  BY <1>3, <1>4 DEF Lugares
<1>6. x .. x + n - 1 \subseteq x .. x + m - 1 /\ x .. x + n - 1 \subseteq 0 .. M-1
  BY ONLY <1>4, x \in Nat, n \in Nat, m \in Nat, M \in Nat
<1>7. d \in Tcbs => memoria' = [a \in DOMAIN memoria |->
                          IF a \in x .. x + n - 1 THEN [de |-> d, tarea |-> 0] ELSE memoria[a]]
  BY <1>3, <1>4 DEF Cargar
<1>8. ASSUME NEW c \in EnLista, ~seg[c].libre
      PROVE  Copiado(c)
  <2>1. c \in Segmentos /\ c # h /\ c # d
    BY <1>2, <1>8, Numeros
  <2>2. seg'[c] = seg[c]
    BY <1>2, <2>1 DEF Reparte
  <2>3. Lugares(c)' = Lugares(c) /\ Lugares(c) \subseteq DOMAIN memoria
    BY <2>2, LugaresDentro DEF Lugares
  <2>4. Lugares(c) \cap Lugares(h) = {}
    BY <1>2, <2>1, LugaresAjenos
  <2>5. \A a \in Lugares(c) : memoria'[a] = memoria[a]
    <3>1. CASE d \notin Tcbs
      BY <3>1
    <3>2. CASE d \in Tcbs
      <4>1. \A a \in Lugares(c) : a \in DOMAIN memoria /\ a \notin x .. x + n - 1
        BY ONLY <1>5, <1>6, <2>3, <2>4
      <4> QED BY ONLY <1>7, <3>2, <4>1
    <3> QED BY <3>1, <3>2
  <2> QED BY ONLY <2>3, <2>5 DEF Copiado
<1>9. d \in Tcbs => \A a \in Lugares(d)' : memoria'[a] = [de |-> d, tarea |-> 0]
  BY ONLY <1>4, <1>5, <1>6, <1>7
<1> QED BY <1>8, <1>9

\* A segment is given: it takes from one free segment, and its owner asks for less.
LEMMA PasoAsignarSegmento ==
  ASSUME Inductiva, AsignarSegmento
  PROVE  Inductiva'
<1> USE DEF Inductiva, Formas
<1>1. PICK d, q : d = Head(ini.faltan) /\ q = ini.pid
  OBVIOUS
<1>2. /\ ini.fase = "asigna" /\ ini.faltan # <<>> /\ comp.fase = "no"
      /\ ini' = [ini EXCEPT !.faltan = Tail(@), !.compacto = FALSE]
      /\ UNCHANGED <<patotas, liberadas, mutex_trip, recibidas, aceptadas, compactacion, ubica,
                     obt, caida>>
  BY DEF AsignarSegmento, EnAlta, TablaDeSegmentosLibre
<1>3. PICK i \in DOMAIN segmentos :
        /\ Elegido(i, Tam(d)) /\ Ocupar(i, d)
        /\ IF d \in Tcbs
           THEN /\ memoria' = Cargar(memoria, seg'[d].inicio, Tam(d), [de |-> d, tarea |-> 0])
                /\ tabla' = [tabla EXCEPT ![q] = Append(@, d)]
           ELSE UNCHANGED <<memoria, tabla>>
  BY <1>1 DEF AsignarSegmento
<1>4. /\ ini.faltan \in Seq(Segmentos) /\ IsInjective(ini.faltan) /\ ini.pid = recibidas
      /\ ini.pid \in Pids \ aceptadas /\ ToSet(ini.faltan) \cap EnLista = {}
      /\ ToSet(ini.faltan) \subseteq FilaPatota(q)
      /\ FilaPatota(q) \subseteq ToSet(ini.faltan) \cup EnUso
  BY <1>1, <1>2 DEF EnCurso
<1>5. /\ Tail(ini.faltan) \in Seq(Segmentos) /\ IsInjective(Tail(ini.faltan))
      /\ ToSet(ini.faltan) = ToSet(Tail(ini.faltan)) \cup {d} /\ d \notin ToSet(Tail(ini.faltan))
  BY <1>1, <1>2, <1>4, CabezaYCola
<1>6. d \in Segmentos /\ d # Hueco /\ d \notin EnLista /\ d[2] = q /\ q \in Pids
  BY <1>1, <1>4, <1>5, FilaPropia
<1>7. Cabida(i, d)
  BY <1>3, <1>6, Numeros, Tamanios DEF Elegido, Entra, Cabida
<1>8. PICK h : h = segmentos[i]
  OBVIOUS
<1>9. /\ Reparte(h, d) /\ h \in EnLista /\ h \in Segmentos /\ h # d /\ seg[h].libre
      /\ segmentos' \in Seq(Segmentos) /\ EnLista' = EnLista \cup {d} /\ Mosaico'
      /\ Libres' = Libres /\ EnUso \subseteq EnUso' /\ d \in EnUso'
      /\ MemoriaLibre' = MemoriaLibre - Tam(d) /\ Espacio(EnLista)' = Espacio(EnLista)
  BY <1>3, <1>7, <1>8, OcuparReparte, OcuparMosaico, OcuparEspacio DEF Cabida
<1>10. /\ ~seg'[d].libre /\ seg'[d].tam = Tam(d) /\ seg'[h].libre
       /\ \A c \in Segmentos \ {d, h} : seg'[c] = seg[c]
       /\ \A c \in Segmentos : ~seg'[c].libre /\ c # d => ~seg[c].libre /\ seg'[c] = seg[c]
  BY <1>9 DEF Reparte
<1>11. FormaEspacio'
  <2>1. memoria' \in [0..TAMANIO_MEMORIA - 1 -> [de : Segmentos, tarea : Nat]]
    <3>1. memoria \in [0..TAMANIO_MEMORIA - 1 -> [de : Segmentos, tarea : Nat]]
      BY DEF FormaEspacio
    <3>2. CASE d \in Tcbs
      <4>1. memoria' = Cargar(memoria, seg'[d].inicio, Tam(d), [de |-> d, tarea |-> 0])
        BY <1>3, <3>2
      <4>2. [de |-> d, tarea |-> 0] \in [de : Segmentos, tarea : Nat]
        BY <1>6
      <4> QED BY ONLY <3>1, <4>1, <4>2 DEF Cargar
    <3>3. CASE d \notin Tcbs
      BY <1>3, <3>1, <3>3
    <3> QED BY <3>2, <3>3
  <2> QED BY <1>9, <2>1 DEF FormaEspacio, Reparte, FormaSeg
<1>12. /\ FormaTablas'
       /\ \A p \in Pids \ {q} : tabla'[p] = tabla[p]
       /\ ToSet(tabla'[q]) \subseteq ToSet(tabla[q]) \cup {d}
       /\ d \notin Tcbs => tabla' = tabla
  <2>1. tabla \in [Pids -> Seq(Tcbs)] /\ tabla[q] \in Seq(Tcbs)
    BY <1>6 DEF FormaTablas
  <2>2. CASE d \in Tcbs
    <3>1. Append(tabla[q], d) \in Seq(Tcbs) /\ ToSet(Append(tabla[q], d)) = ToSet(tabla[q]) \cup {d}
      <4>1. \A s : ToSet(s) = Range(s)
        BY DEF ToSet, Range
      <4> QED BY ONLY <2>1, <2>2, <4>1, AgregarSeq
    <3>2. tabla' = [tabla EXCEPT ![q] = Append(@, d)]
      BY <1>3, <2>2
    <3>3. /\ tabla' \in [Pids -> Seq(Tcbs)] /\ tabla'[q] = Append(tabla[q], d)
          /\ \A p \in Pids \ {q} : tabla'[p] = tabla[p]
      BY ONLY <1>6, <2>1, <3>1, <3>2
    <3> QED BY <1>2, <2>2, <3>1, <3>3 DEF FormaTablas
  <2>3. CASE d \notin Tcbs
    BY <1>2, <1>3, <2>3 DEF FormaTablas
  <2> QED BY <2>2, <2>3
<1>13. FormaComp' /\ Pedidos'
  <2>1. Len(segmentos') \in Nat
    BY <1>9, LenProperties
  <2> QED BY <1>2, <2>1 DEF FormaComp, Pedidos, compactacion
<1>14. Reparto'
  <2>1. seg'[Hueco].libre
    BY <1>6, <1>10, Nombres DEF Reparto
  <2>2. \A c \in Segmentos : ~seg'[c].libre => c \in EnLista' /\ seg'[c].tam = Tam(c)
    BY <1>9, <1>10 DEF Reparto
  <2>3. \A c \in EnLista' : c[2] <= recibidas'
    BY <1>1, <1>2, <1>4, <1>6, <1>9, Pedidas DEF Reparto
  <2> QED BY <1>9, <2>1, <2>2, <2>3 DEF Reparto
<1>15. /\ ini'.fase = "asigna" /\ ini'.pid = q /\ ini'.faltan = Tail(ini.faltan)
       /\ ini'.compacto = FALSE
       /\ ini' \in [fase : {"libre", "asigna"}, pid : Pids \cup {0}, faltan : Seq(Segmentos),
                    compacto : BOOLEAN]
  <2>1. ini \in [fase : {"libre", "asigna"}, pid : Pids \cup {0}, faltan : Seq(Segmentos),
                 compacto : BOOLEAN]
    BY DEF EnCurso
  <2> QED BY ONLY <1>1, <1>2, <1>5, <2>1
<1>16. EnCurso'
  <2>1. ToSet(Tail(ini.faltan)) \cap EnLista' = {}
    BY <1>4, <1>5, <1>9
  <2>2. FilaPatota(q) \subseteq ToSet(Tail(ini.faltan)) \cup EnUso'
    BY <1>4, <1>5, <1>9
  <2>3. ToSet(Tail(ini.faltan)) \subseteq FilaPatota(q)
    BY <1>4, <1>5
  <2>4. /\ recibidas' \in 0..Len(Patotas) /\ aceptadas' \subseteq 1..recibidas'
        /\ q = recibidas' /\ q \in Pids \ aceptadas'
    BY <1>1, <1>2, <1>4 DEF EnCurso
  <2> QED BY <1>5, <1>15, <2>1, <2>2, <2>3, <2>4 DEF EnCurso
<1>17. Cabe'
  <2>1. Pide' = Pide - Tam(d) /\ Pide \in Nat
    BY <1>1, <1>2, <1>15, PideYToma DEF Pide
  <2>2. Pide <= MemoriaLibre /\ MemoriaLibre \in Nat /\ Tam(d) \in Nat
    BY <1>2, <1>6, Espacios, Tamanios DEF Cabe
  <2>3. Pide' <= MemoriaLibre'
    BY ONLY <1>9, <2>1, <2>2
  <2> QED BY <1>15, <2>3 DEF Cabe
<1>18. /\ \A c \in EnLista : ~seg[c].libre => Copiado(c)
       /\ d \in Tcbs => \A a \in Lugares(d)' : memoria'[a] = [de |-> d, tarea |-> 0]
  BY <1>1, <1>2, <1>3, <1>7, OcuparContenido
<1>19. ASSUME NEW c \in EnLista, c # d, ~seg'[c].libre, ~seg[c].libre => Guarda(c)
       PROVE  Guarda(c)'
  <2>1. c \in Segmentos /\ ~seg[c].libre /\ Guarda(c)
    BY <1>10, <1>19, Numeros
  <2> QED BY <1>18, <2>1 DEF Copiado, Guarda
<1>20. d \in Tcbs => Guarda(d)'
  BY <1>18 DEF Guarda
<1>21. EnSuLugar'
  <2>1. ASSUME NEW p \in Vigentes
        PROVE  /\ ~seg'[Pcb(p)].libre /\ ~seg'[Tareas(p)].libre
               /\ Guarda(Pcb(p))' /\ Guarda(Tareas(p))'
    <3>1. p \in Pids
      BY AceptadasPids
    <3>2. ~seg[Pcb(p)].libre /\ ~seg[Tareas(p)].libre /\ Guarda(Pcb(p)) /\ Guarda(Tareas(p))
      BY DEF EnSuLugar
    <3>3. /\ Pcb(p) \in Segmentos /\ Tareas(p) \in Segmentos
          /\ Pcb(p) \in EnLista /\ Tareas(p) \in EnLista
          /\ Pcb(p) # d /\ Tareas(p) # d /\ Pcb(p) # h /\ Tareas(p) # h
      BY <1>6, <1>9, <3>1, <3>2, Nombres DEF Reparto
    <3>4. ~seg'[Pcb(p)].libre /\ ~seg'[Tareas(p)].libre
      BY <1>10, <3>2, <3>3
    <3>5. Guarda(Pcb(p))'
      BY <1>19, <3>2, <3>3, <3>4
    <3>6. Guarda(Tareas(p))'
      BY <1>19, <3>2, <3>3, <3>4
    <3> QED BY <3>2, <3>4, <3>5, <3>6
  <2>2. ASSUME NEW p \in Pids, NEW c \in ToSet(tabla'[p])
        PROVE  c[2] = p /\ (~seg'[c].libre => Guarda(c)')
    <3>1. CASE c = d
      <4>1. p = q
        <5>1. CASE p = q
          BY <5>1
        <5>2. CASE p # q
          <6>1. c \in ToSet(tabla[p])
            BY <1>12, <5>2
          <6> QED BY <1>6, <3>1, <6>1 DEF EnSuLugar
        <5> QED BY <5>1, <5>2
      <4>2. d \in Tcbs
        <5>1. ToSet(tabla'[p]) \subseteq Tcbs
          BY <1>12, ElementosFinitos DEF FormaTablas
        <5> QED BY <3>1, <5>1
      <4> QED BY <1>6, <1>20, <3>1, <4>1, <4>2
    <3>2. CASE c # d
      <4>1. c \in ToSet(tabla[p])
        BY <1>12, <3>2
      <4>2. c \in Segmentos
        BY <4>1, ElementosFinitos, Nombres DEF FormaTablas
      <4>3. c[2] = p /\ (~seg[c].libre => Guarda(c) /\ c \in EnLista)
        BY <4>1, <4>2 DEF EnSuLugar, Reparto
      <4>4. ~seg'[c].libre => ~seg[c].libre
        BY <1>10, <3>2, <4>2
      <4> QED BY <1>19, <3>2, <4>3, <4>4
    <3> QED BY <3>1, <3>2
  <2>3. ASSUME NEW p \in Pids, tabla'[p] # <<>>
        PROVE  p \in aceptadas \cup {q}
    BY <1>1, <1>12, <2>3 DEF EnSuLugar
  <2>4. /\ patotas' = patotas /\ aceptadas' = aceptadas /\ liberadas' = liberadas /\ obt' = obt
        /\ Vigentes' = Vigentes
    BY <1>2 DEF Vigentes
  <2>5. /\ IsInjective(patotas) /\ liberadas \subseteq aceptadas /\ ToSet(patotas) \subseteq Vigentes
        /\ \A p \in ToSet(patotas) : \A t \in Trips : obt[t].pat = p => obt[t].pc # "destruye"
    BY DEF EnSuLugar
  <2> QED BY <1>15, <2>1, <2>2, <2>3, <2>4, <2>5 DEF EnSuLugar
<1> QED BY <1>9, <1>11, <1>12, <1>13, <1>14, <1>16, <1>17, <1>21

\* The segments in use start one after the other, and are moved down in that order: where
\* each will end none that starts later has begun.
LEMMA Destinos ==
  ASSUME FormaEspacio, Mosaico, Reparto
  PROVE  /\ \A d \in EnUso : /\ d \in EnLista /\ d \in Segmentos /\ d # Hueco /\ ~seg[d].libre
                             /\ seg[d].tam = Tam(d) /\ seg[d].tam \in Nat \ {0}
                             /\ Delante(d) \in SUBSET EnUso /\ d \notin Delante(d)
                             /\ Desplazamiento(d) \in Nat
                             /\ Desplazamiento(d) + seg[d].tam <= Espacio(EnUso)
         /\ \A c, d \in EnUso : /\ seg[c].inicio = seg[d].inicio => c = d
                                /\ seg[c].inicio < seg[d].inicio =>
                                     Desplazamiento(c) + seg[c].tam <= Desplazamiento(d)
         /\ Espacio(EnUso) \in 0..TAMANIO_MEMORIA
         /\ MemoriaLibre = TAMANIO_MEMORIA - Espacio(EnUso)
<1>1. ASSUME NEW d \in EnUso
      PROVE  /\ d \in EnLista /\ d \in Segmentos /\ d # Hueco /\ ~seg[d].libre
             /\ seg[d].tam = Tam(d) /\ seg[d].tam \in Nat \ {0} /\ seg[d].inicio \in Nat
             /\ Delante(d) \in SUBSET EnUso /\ d \notin Delante(d)
  <2>1. d \in EnLista /\ d \in Segmentos /\ ~seg[d].libre
    BY Numeros DEF EnUso, Libres, EnLista
  <2>2. d # Hueco /\ seg[d].tam = Tam(d)
    BY <2>1 DEF Reparto
  <2>3. seg[d].tam \in Nat \ {0} /\ seg[d].inicio \in Nat
    BY <2>1, <2>2, Tamanios, Numeros
  <2> QED BY <2>1, <2>2, <2>3 DEF Delante
<1>2. ASSUME NEW d \in EnUso
      PROVE  /\ Desplazamiento(d) \in Nat
             /\ Desplazamiento(d) + seg[d].tam <= Espacio(EnUso)
  <2>1. /\ Delante(d) \in SUBSET EnLista /\ d \in EnLista \ Delante(d)
        /\ Delante(d) \cup {d} \in SUBSET EnUso /\ EnUso \in SUBSET EnLista
    BY <1>1, Numeros
  <2>2. Espacio(Delante(d) \cup {d}) = Desplazamiento(d) + seg[d].tam
    BY <2>1, Espacios DEF Desplazamiento
  <2>3. Espacio(Delante(d)) \in Nat /\ Espacio(Delante(d) \cup {d}) <= Espacio(EnUso)
    BY <2>1, Espacios
  <2> QED BY <2>2, <2>3 DEF Desplazamiento
<1>3. ASSUME NEW c \in EnUso, NEW d \in EnUso, seg[c].inicio = seg[d].inicio
      PROVE  c = d
  <2>1. PICK i \in Nat, m \in Nat \ {0}, n \in Nat \ {0} :
          i = seg[c].inicio /\ i = seg[d].inicio /\ m = seg[c].tam /\ n = seg[d].tam
    BY <1>1, <1>3
  <2>2. c # d => i + m <= i \/ i + n <= i
    BY <1>1, <2>1, Separados
  <2> QED BY ONLY <2>1, <2>2
<1>4. ASSUME NEW c \in EnUso, NEW d \in EnUso, seg[c].inicio < seg[d].inicio
      PROVE  Desplazamiento(c) + seg[c].tam <= Desplazamiento(d)
  <2>1. Delante(c) \cup {c} \in SUBSET Delante(d)
    <3>1. \A x \in EnUso : seg[x].inicio < seg[c].inicio => seg[x].inicio < seg[d].inicio
      BY <1>1, <1>4
    <3> QED BY <1>4, <3>1 DEF Delante
  <2>2. /\ Delante(c) \in SUBSET EnLista /\ c \in EnLista \ Delante(c)
        /\ Delante(d) \in SUBSET EnLista
    BY <1>1, Numeros
  <2>3. Espacio(Delante(c) \cup {c}) = Desplazamiento(c) + seg[c].tam
    BY <2>2, Espacios DEF Desplazamiento
  <2>4. Espacio(Delante(c) \cup {c}) <= Espacio(Delante(d))
    BY <2>1, <2>2, Espacios
  <2> QED BY <2>3, <2>4 DEF Desplazamiento
<1>5. /\ Espacio(EnUso) \in 0..TAMANIO_MEMORIA
      /\ MemoriaLibre = TAMANIO_MEMORIA - Espacio(EnUso)
  <2>1. /\ MemoriaLibre \in Nat /\ Espacio(EnUso) \in Nat /\ TAMANIO_MEMORIA \in Nat
        /\ TAMANIO_MEMORIA = MemoriaLibre + Espacio(EnUso)
    BY Espacios, Numeros DEF Reparto
  <2> QED BY ONLY <2>1
<1> QED BY <1>1, <1>2, <1>3, <1>4, <1>5

\* The sorted list has every segment in use once, and those that start before one are
\* those before it in the list.
LEMMA ListaOrdenada ==
  ASSUME FormaEspacio, Mosaico, Reparto
  PROVE  \E n \in Nat :
           /\ Ordenados \in [1..n -> EnUso] /\ Ordenados \in Seq(Segmentos)
           /\ Len(Ordenados) = n
           /\ \A d \in EnUso : \E i \in 1..n : d = Ordenados[i]
           /\ \A i \in 1..n : Delante(Ordenados[i]) = {Ordenados[j] : j \in 1..i-1}
           /\ \A i, j \in 1..n : Ordenados[i] = Ordenados[j] => i = j
<1>1. /\ IsFiniteSet(EnUso) /\ EnUso \subseteq Segmentos
      /\ \A d \in EnUso : seg[d].inicio \in Int
  <2>1. EnUso \in SUBSET EnLista /\ EnLista \subseteq Segmentos
    BY Numeros
  <2> QED BY <2>1, Espacios, Numeros
<1>2. PICK f : f = [d \in EnUso |-> seg[d].inicio]
  OBVIOUS
<1>3. PICK D : D = [d \in EnUso |-> Delante(d)]
  OBVIOUS
<1>4. PICK n \in Nat : n = Cardinality(EnUso)
  BY <1>1, FS_CardinalityType
<1>5. /\ \A x \in EnUso : f[x] \in Int
      /\ \A x, y \in EnUso : f[x] = f[y] => x = y
      /\ \A x \in EnUso : D[x] = {y \in EnUso : f[y] < f[x]}
  <2>1. \A x, y \in EnUso : seg[x].inicio = seg[y].inicio => x = y
    BY Destinos
  <2>2. ASSUME NEW x \in EnUso
        PROVE  D[x] = {y \in EnUso : f[y] < f[x]}
    BY <1>2, <1>3 DEF Delante
  <2> QED BY <1>1, <1>2, <2>1, <2>2
<1>6. /\ \A x \in EnUso : Cardinality(D[x]) \in 0..n-1
      /\ \A x, y \in EnUso : f[x] < f[y] => Cardinality(D[x]) < Cardinality(D[y])
      /\ \A x, y \in EnUso : Cardinality(D[x]) = Cardinality(D[y]) => x = y
      /\ \A k \in 0..n-1 : \E x \in EnUso : Cardinality(D[x]) = k
  <2>1. /\ \A x \in EnUso : Cardinality(D[x]) \in 0..Cardinality(EnUso)-1
        /\ \A x, y \in EnUso : f[x] < f[y] => Cardinality(D[x]) < Cardinality(D[y])
        /\ \A x, y \in EnUso : Cardinality(D[x]) = Cardinality(D[y]) => x = y
        /\ \A k \in 0..Cardinality(EnUso)-1 : \E x \in EnUso : Cardinality(D[x]) = k
    BY ONLY <1>1, <1>5, OrdenPorLugar
  <2> QED BY ONLY <1>4, <2>1
<1>7. PICK o : o = Ordenados
  OBVIOUS
<1>8. o = [i \in 1..n |-> CHOOSE d \in EnUso : Cardinality(Delante(d)) = i - 1]
  BY <1>4, <1>7 DEF Ordenados
<1>9. \A i \in 1..n : o[i] \in EnUso /\ Cardinality(D[o[i]]) = i - 1
  <2>1. ASSUME NEW i \in 1..n
        PROVE  o[i] \in EnUso /\ Cardinality(D[o[i]]) = i - 1
    <3>1. i - 1 \in 0..n-1
      BY <1>4
    <3>2. PICK d \in EnUso : Cardinality(D[d]) = i - 1
      BY ONLY <1>6, <3>1
    <3>3. Cardinality(Delante(d)) = i - 1
      BY <1>3, <3>2
    <3>4. o[i] = CHOOSE c \in EnUso : Cardinality(Delante(c)) = i - 1
      BY ONLY <1>8, i \in 1..n
    <3>5. o[i] \in EnUso /\ Cardinality(Delante(o[i])) = i - 1
      BY ONLY <3>3, <3>4, d \in EnUso
    <3> QED BY <1>3, <3>5
  <2> QED BY <2>1
<1>10. o \in [1..n -> EnUso]
  BY ONLY <1>8, <1>9
<1>11. o \in Seq(Segmentos) /\ Len(o) = n
  <2>1. o \in [1..n -> Segmentos]
    BY <1>1, <1>10
  <2> QED BY ONLY <2>1, n \in Nat
<1>12. \A i, j \in 1..n : o[i] = o[j] => i = j
  <2>1. \A i, j \in 1..n : o[i] = o[j] => i - 1 = j - 1
    BY ONLY <1>9
  <2> QED BY <2>1
<1>13. ASSUME NEW d \in EnUso
       PROVE  \E i \in 1..n : d = o[i]
  <2>1. PICK k \in 0..n-1 : k = Cardinality(D[d])
    BY <1>6
  <2>2. k + 1 \in 1..n /\ (k + 1) - 1 = k
    BY <2>1
  <2>3. Cardinality(D[o[k+1]]) = k /\ o[k+1] \in EnUso
    BY <1>9, <2>2
  <2> QED BY <1>6, <2>1, <2>2, <2>3
<1>14. \A i, j \in 1..n : f[o[j]] < f[o[i]] <=> j < i
  <2>1. ASSUME NEW i \in 1..n, NEW j \in 1..n, f[o[j]] < f[o[i]]
        PROVE  j < i
    <3>1. j - 1 < i - 1
      BY <1>6, <1>9, <2>1
    <3> QED BY <3>1
  <2>2. ASSUME NEW i \in 1..n, NEW j \in 1..n, j < i
        PROVE  f[o[j]] < f[o[i]]
    <3>1. f[o[i]] \in Int /\ f[o[j]] \in Int
      BY <1>5, <1>9
    <3>2. f[o[i]] # f[o[j]]
      <4>1. o[i] # o[j]
        BY <1>12, <2>2
      <4> QED BY <1>5, <1>9, <4>1
    <3>3. ~(f[o[i]] < f[o[j]])
      <4>1. f[o[i]] < f[o[j]] => i < j
        BY <2>1
      <4> QED BY <2>2, <4>1
    <3> QED BY <3>1, <3>2, <3>3
  <2> QED BY <2>1, <2>2
<1>15. ASSUME NEW i \in 1..n
       PROVE  Delante(o[i]) = {o[j] : j \in 1..i-1}
  <2>1. Delante(o[i]) = {y \in EnUso : f[y] < f[o[i]]}
    BY <1>3, <1>5, <1>9
  <2>2. 1..i-1 = {j \in 1..n : j < i}
    BY n \in Nat
  <2>3. \A y \in EnUso : f[y] < f[o[i]] <=> \E j \in 1..n : j < i /\ y = o[j]
    BY <1>9, <1>13, <1>14
  <2>4. \A j \in 1..n : o[j] \in EnUso
    BY <1>9
  <2> QED BY ONLY <2>1, <2>2, <2>3, <2>4
<1> QED BY <1>7, <1>10, <1>11, <1>12, <1>13, <1>15

\* What the compaction leaves: the segments in use, each at its new place, and the hole.
Compactado ==
  /\ seg' \in FormaSeg
  /\ \A d \in EnUso : /\ seg'[d].inicio = Desplazamiento(d) /\ seg'[d].tam = seg[d].tam
                      /\ seg'[d].libre = seg[d].libre
  /\ seg'[Hueco].inicio = Espacio(EnUso) /\ seg'[Hueco].libre
  /\ seg'[Hueco].tam = TAMANIO_MEMORIA - Espacio(EnUso)
  /\ \A d \in Segmentos : d # Hueco /\ d \notin EnUso => seg'[d] = seg[d] /\ seg[d].libre

\* The segments after a compaction, by name.
LEMMA CompactarSegmentos ==
  ASSUME FormaEspacio, Mosaico, Reparto, Compactar
  PROVE  Compactado
<1>1. PICK u \in 0..TAMANIO_MEMORIA : u = Espacio(EnUso)
  BY Destinos
<1>2. seg' = [d \in Segmentos |->
               IF d = Hueco
               THEN [inicio |-> u, tam |-> TAMANIO_MEMORIA - u, libre |-> TRUE]
               ELSE IF d \in EnUso THEN [seg[d] EXCEPT !.inicio = Desplazamiento(d)]
               ELSE seg[d]]
  BY <1>1 DEF Compactar
<1>3. TAMANIO_MEMORIA \in Nat /\ Hueco \in Segmentos /\ Hueco \notin EnUso
  BY Numeros, Nombres, Destinos
<1>4. \A d \in Segmentos : seg[d] \in [inicio : 0..TAMANIO_MEMORIA, tam : 0..TAMANIO_MEMORIA,
                                       libre : BOOLEAN]
  BY DEF FormaEspacio
<1>5. ASSUME NEW d \in EnUso
      PROVE  /\ d \in Segmentos /\ d # Hueco /\ Desplazamiento(d) \in 0..TAMANIO_MEMORIA
             /\ seg'[d].inicio = Desplazamiento(d) /\ seg'[d].tam = seg[d].tam
             /\ seg'[d].libre = seg[d].libre
             /\ seg'[d] \in [inicio : 0..TAMANIO_MEMORIA, tam : 0..TAMANIO_MEMORIA,
                             libre : BOOLEAN]
  <2>1. d \in Segmentos /\ d # Hueco
    BY Destinos
  <2>2. PICK x \in Nat, n \in Nat : x = Desplazamiento(d) /\ n = seg[d].tam /\ x + n <= u
    BY <1>1, Destinos
  <2>3. x \in 0..TAMANIO_MEMORIA
    BY ONLY <1>3, <2>2, u \in 0..TAMANIO_MEMORIA
  <2>4. seg'[d] = [seg[d] EXCEPT !.inicio = x]
    BY <1>2, <2>1, <2>2
  <2>5. seg[d] \in [inicio : 0..TAMANIO_MEMORIA, tam : 0..TAMANIO_MEMORIA, libre : BOOLEAN]
    BY <1>4, <2>1
  <2>6. /\ seg'[d].inicio = x /\ seg'[d].tam = seg[d].tam /\ seg'[d].libre = seg[d].libre
        /\ seg'[d] \in [inicio : 0..TAMANIO_MEMORIA, tam : 0..TAMANIO_MEMORIA,
                        libre : BOOLEAN]
    BY ONLY <2>3, <2>4, <2>5
  <2> QED BY <2>1, <2>2, <2>3, <2>6
<1>6. seg'[Hueco] = [inicio |-> u, tam |-> TAMANIO_MEMORIA - u, libre |-> TRUE]
  BY <1>2, <1>3
<1>7. /\ seg'[Hueco].inicio = u /\ seg'[Hueco].libre /\ seg'[Hueco].tam = TAMANIO_MEMORIA - u
      /\ seg'[Hueco] \in [inicio : 0..TAMANIO_MEMORIA, tam : 0..TAMANIO_MEMORIA,
                          libre : BOOLEAN]
  <2>1. TAMANIO_MEMORIA - u \in 0..TAMANIO_MEMORIA
    BY <1>3
  <2> QED BY <1>6, <2>1
<1>8. ASSUME NEW d \in Segmentos, d # Hueco, d \notin EnUso
      PROVE  seg'[d] = seg[d] /\ seg[d].libre
  BY <1>2, <1>8 DEF Reparto, EnUso, Libres, EnLista
<1>9. \A d \in Segmentos : seg'[d] \in [inicio : 0..TAMANIO_MEMORIA, tam : 0..TAMANIO_MEMORIA,
                                        libre : BOOLEAN]
  BY <1>4, <1>5, <1>7, <1>8
<1>10. seg' \in FormaSeg
  <2>1. seg' = [d \in Segmentos |-> seg'[d]]
    BY ONLY <1>2
  <2> QED BY ONLY <1>9, <2>1 DEF FormaSeg
<1> QED BY <1>1, <1>5, <1>7, <1>8, <1>10 DEF Compactado

\* Those segments and the hole tile the memory.
LEMMA CompactarMosaico ==
  ASSUME FormaEspacio, Mosaico, Reparto, Compactar
  PROVE  /\ segmentos' \in Seq(Segmentos) /\ EnLista' = EnUso \cup {Hueco}
         /\ EnUso' = EnUso /\ Libres' = {Hueco} /\ Mosaico'
<1>1. PICK n \in Nat :
        /\ Ordenados \in [1..n -> EnUso] /\ Ordenados \in Seq(Segmentos)
        /\ Len(Ordenados) = n
        /\ \A d \in EnUso : \E i \in 1..n : d = Ordenados[i]
        /\ \A i \in 1..n : Delante(Ordenados[i]) = {Ordenados[j] : j \in 1..i-1}
        /\ \A i, j \in 1..n : Ordenados[i] = Ordenados[j] => i = j
  BY ListaOrdenada
<1>2. PICK o : o = Ordenados
  OBVIOUS
<1>3. PICK D : \A d \in EnUso : D[d] = Delante(d)
  <2>1. \A d \in EnUso : [c \in EnUso |-> Delante(c)][d] = Delante(d)
    OBVIOUS
  <2> QED BY <2>1
<1>4. PICK s : s = segmentos'
  OBVIOUS
<1>5. Hueco \in Segmentos /\ Hueco \notin EnUso
  BY Nombres, Destinos
<1>6. /\ s \in Seq(Segmentos) /\ Len(s) = n + 1 /\ s[n+1] = Hueco
      /\ \A i \in 1..n : s[i] = o[i] /\ o[i] \in EnUso
  <2>1. s = Append(o, Hueco)
    BY <1>2, <1>4 DEF Compactar
  <2>2. o \in Seq(Segmentos) /\ Len(o) = n /\ \A i \in 1..n : o[i] \in EnUso
    BY <1>1, <1>2
  <2> QED BY <1>5, <2>1, <2>2, AppendProperties
<1>7. DOMAIN s = 1..n+1
  BY <1>6, LenProperties
<1>8. EnLista' = EnUso \cup {Hueco}
  <2>1. \A i \in DOMAIN s : s[i] \in EnUso \cup {Hueco}
    <3>1. \A i \in 1..n+1 : i \in 1..n \/ i = n + 1
      BY ONLY n \in Nat
    <3> QED BY <1>6, <1>7, <3>1
  <2>2. \A d \in EnUso \cup {Hueco} : \E i \in DOMAIN s : d = s[i]
    <3>1. n + 1 \in DOMAIN s /\ \A i \in 1..n : i \in DOMAIN s
      BY ONLY <1>7, n \in Nat
    <3> QED BY <1>1, <1>2, <1>6, <3>1
  <2>3. ToSet(s) = EnUso \cup {Hueco}
    BY ONLY <2>1, <2>2 DEF ToSet
  <2> QED BY <1>4, <2>3 DEF EnLista
<1>9. Compactado
  BY CompactarSegmentos
<1>10. EnUso' = EnUso /\ Libres' = {Hueco}
  <2>1. \A d \in EnUso : d \in Segmentos /\ ~seg'[d].libre /\ d # Hueco
    BY <1>9, Destinos DEF Compactado
  <2>2. seg'[Hueco].libre
    BY <1>9 DEF Compactado
  <2>3. Libres' = {d \in EnLista' : seg'[d].libre} /\ EnUso' = EnLista' \ Libres'
    BY DEF Libres, EnUso, EnLista
  <2> QED BY ONLY <1>5, <1>8, <2>1, <2>2, <2>3
<1>11. PICK u \in Nat, M \in Nat : u = Espacio(EnUso) /\ M = TAMANIO_MEMORIA /\ u <= M
  BY Destinos, Numeros
<1>12. \A i \in 1..n : /\ seg'[o[i]].inicio = Espacio(D[o[i]]) /\ seg'[o[i]].tam = seg[o[i]].tam
                       /\ D[o[i]] \cup {o[i]} \in SUBSET EnLista /\ o[i] \in EnLista \ D[o[i]]
                       /\ Espacio(D[o[i]]) \in Nat
                       /\ Espacio(D[o[i]] \cup {o[i]}) = Espacio(D[o[i]]) + seg[o[i]].tam
  <2>1. ASSUME NEW d \in EnUso
        PROVE  /\ seg'[d].inicio = Espacio(D[d]) /\ seg'[d].tam = seg[d].tam
               /\ D[d] \cup {d} \in SUBSET EnLista /\ d \in EnLista \ D[d]
               /\ Espacio(D[d]) \in Nat
               /\ Espacio(D[d] \cup {d}) = Espacio(D[d]) + seg[d].tam
    <3>1. D[d] \cup {d} \in SUBSET EnLista /\ d \in EnLista \ D[d] /\ D[d] \in SUBSET EnLista
      BY <1>3, Destinos, Numeros
    <3>2. seg'[d].inicio = Espacio(D[d]) /\ seg'[d].tam = seg[d].tam
      BY <1>3, <1>9 DEF Compactado, Desplazamiento
    <3> QED BY <3>1, <3>2, Espacios
  <2> QED BY <1>6, <2>1
<1>13. \A i \in 1..n : D[o[i]] = {o[j] : j \in 1..i-1}
  BY <1>1, <1>2, <1>3, <1>6
<1>14. \A i \in 1..n-1 : D[o[i+1]] = D[o[i]] \cup {o[i]}
  <2>1. ASSUME NEW i \in 1..n-1
        PROVE  D[o[i+1]] = D[o[i]] \cup {o[i]}
    <3>1. i \in 1..n /\ i + 1 \in 1..n /\ (i+1)-1 = i /\ 1..i = (1..i-1) \cup {i}
      BY ONLY <2>1, n \in Nat
    <3>2. D[o[i+1]] = {o[j] : j \in 1..i} /\ D[o[i]] = {o[j] : j \in 1..i-1}
      BY ONLY <1>13, <3>1
    <3> QED BY ONLY <3>1, <3>2
  <2> QED BY <2>1
<1>15. n > 0 => D[o[1]] = {} /\ D[o[n]] \cup {o[n]} = EnUso
  <2>1. SUFFICES ASSUME n > 0 PROVE D[o[1]] = {} /\ D[o[n]] \cup {o[n]} = EnUso
    OBVIOUS
  <2>2. 1 \in 1..n /\ n \in 1..n /\ 1..n = (1..n-1) \cup {n} /\ 1..1-1 = {}
    BY ONLY <2>1, n \in Nat
  <2>3. D[o[1]] = {} /\ D[o[n]] = {o[j] : j \in 1..n-1}
    BY ONLY <1>13, <2>2
  <2>4. EnUso = {o[j] : j \in 1..n}
    BY <1>1, <1>2, <1>6
  <2> QED BY ONLY <2>2, <2>3, <2>4
<1>16. n = 0 => u = 0
  <2>1. n = 0 => 1..n = {}
    OBVIOUS
  <2>2. n = 0 => EnUso = {}
    BY <1>1, <2>1
  <2> QED BY <1>11, <2>2, Espacios
<1> DEFINE H(i) == IF i = 0 THEN 0 ELSE seg'[s[i]].inicio + seg'[s[i]].tam
<1>17. ASSUME NEW i \in 1..n
       PROVE  seg'[s[i]].inicio = H(i - 1)
  <2>1. CASE i = 1
    <3>1. n > 0 /\ i - 1 = 0
      BY <2>1
    <3>2. seg'[s[i]].inicio = Espacio({})
      BY <1>6, <1>12, <1>15, <2>1, <3>1
    <3> QED BY <3>1, <3>2, Espacios
  <2>2. CASE i # 1
    <3>1. i - 1 \in 1..n-1 /\ i - 1 \in 1..n /\ (i - 1) + 1 = i /\ i - 1 # 0
      BY ONLY <2>2, i \in 1..n, n \in Nat
    <3>2. PICK k : k = i - 1
      OBVIOUS
    <3>3. D[o[i]] = D[o[k]] \cup {o[k]}
      BY <1>14, <3>1, <3>2
    <3>4. seg'[s[i]].inicio = Espacio(D[o[k]] \cup {o[k]})
      BY <1>6, <1>12, <3>3
    <3>5. seg'[s[k]].inicio + seg'[s[k]].tam = Espacio(D[o[k]] \cup {o[k]})
      BY <1>6, <1>12, <3>1, <3>2
    <3> QED BY ONLY <3>1, <3>2, <3>4, <3>5
  <2> QED BY <2>1, <2>2
<1>18. seg'[s[n+1]].inicio = H(n)
  <2>1. seg'[s[n+1]].inicio = u
    BY <1>6, <1>9, <1>11 DEF Compactado
  <2>2. CASE n = 0
    BY <1>16, <2>1, <2>2
  <2>3. CASE n # 0
    <3>1. n > 0 /\ n \in 1..n
      BY <2>3
    <3>2. seg'[s[n]].inicio + seg'[s[n]].tam = Espacio(D[o[n]] \cup {o[n]})
      BY <1>6, <1>12, <3>1
    <3>3. Espacio(D[o[n]] \cup {o[n]}) = u
      BY <1>11, <1>15, <3>1
    <3> QED BY ONLY <2>1, <2>3, <3>2, <3>3
  <2> QED BY <2>2, <2>3
<1>19. H(n+1) = TAMANIO_MEMORIA
  <2>1. seg'[s[n+1]].inicio = u /\ seg'[s[n+1]].tam = M - u
    BY <1>6, <1>9, <1>11 DEF Compactado
  <2>2. n + 1 # 0 /\ u + (M - u) = M
    BY ONLY n \in Nat, u \in Nat, M \in Nat
  <2> QED BY <1>11, <2>1, <2>2
<1>20. \A i \in 1..n+1 : seg'[s[i]].inicio = H(i - 1)
  <2>1. \A i \in 1..n+1 : i \in 1..n \/ (i = n + 1 /\ i - 1 = n)
    BY ONLY n \in Nat
  <2> HIDE DEF H
  <2> QED BY <1>17, <1>18, <2>1
<1>21. IsInjective(s)
  <2>1. ASSUME NEW i \in 1..n+1, NEW j \in 1..n+1, s[i] = s[j]
        PROVE  i = j
    <3>1. (i \in 1..n \/ i = n + 1) /\ (j \in 1..n \/ j = n + 1)
      BY ONLY <2>1, n \in Nat
    <3> QED BY <1>1, <1>2, <1>5, <1>6, <2>1, <3>1
  <2> QED BY <1>7, <2>1 DEF IsInjective
<1>22. Mosaico'
  BY <1>4, <1>6, <1>7, <1>19, <1>20, <1>21 DEF Mosaico
<1> QED BY <1>4, <1>6, <1>8, <1>10, <1>22

\* Nothing is lost: the hole has what the free segments had.
LEMMA CompactarEspacio ==
  ASSUME FormaEspacio, Mosaico, Reparto, Compactar
  PROVE  /\ Espacio(EnLista)' = TAMANIO_MEMORIA /\ MemoriaLibre' = MemoriaLibre
         /\ seg'[Hueco].tam = MemoriaLibre
<1>1. Compactado /\ EnLista' = EnUso \cup {Hueco} /\ Libres' = {Hueco}
  BY CompactarSegmentos, CompactarMosaico
<1>2. PICK u \in Nat, M \in Nat :
        u = Espacio(EnUso) /\ M = TAMANIO_MEMORIA /\ u <= M /\ MemoriaLibre = M - u
  BY Destinos, Numeros
<1>3. PICK f : f = [d \in Segmentos |-> seg[d].tam]
  OBVIOUS
<1>4. PICK k : k = [d \in Segmentos |-> seg'[d].tam]
  OBVIOUS
<1>5. /\ \A S : Espacio(S) = SumFunctionOnSet(f, S)
      /\ MemoriaLibre' = SumFunctionOnSet(k, Libres')
      /\ Espacio(EnLista)' = SumFunctionOnSet(k, EnLista')
  BY <1>3, <1>4 DEF Espacio, MemoriaLibre
<1>6. Hueco \in Segmentos /\ Hueco \notin EnUso /\ IsFiniteSet(EnUso)
      /\ k[Hueco] = M - u /\ M - u \in Int
  <2>1. EnUso \in SUBSET EnLista
    BY Numeros
  <2>2. Hueco \in Segmentos /\ Hueco \notin EnUso
    BY Nombres, Destinos
  <2> QED BY <1>1, <1>2, <1>4, <2>1, <2>2, Espacios DEF Compactado
<1>7. \A d \in EnUso : f[d] \in Int /\ k[d] = f[d]
  <2>1. \A d \in EnUso : d \in Segmentos /\ seg[d].tam \in Nat
    BY Destinos
  <2> QED BY <1>1, <1>3, <1>4, <2>1 DEF Compactado
<1>8. SumFunctionOnSet(k, EnUso) = u
  <2>1. SumFunctionOnSet(k, EnUso) = SumFunctionOnSet(f, EnUso)
    BY ONLY <1>6, <1>7, SumaMisma
  <2> QED BY <1>2, <1>5, <2>1
<1>9. SumFunctionOnSet(k, EnUso \cup {Hueco}) = u + (M - u)
  <2>1. \A d \in EnUso \cup {Hueco} : k[d] \in Int
    BY ONLY <1>6, <1>7
  <2>2. SumFunctionOnSet(k, EnUso \cup {Hueco}) = SumFunctionOnSet(k, EnUso) + k[Hueco]
    BY ONLY <1>6, <2>1, SumaCon
  <2> QED BY ONLY <1>6, <1>8, <2>2
<1>10. SumFunctionOnSet(k, {Hueco}) = M - u
  <2>1. SumFunctionOnSet(k, {}) = 0 /\ IsFiniteSet({}) /\ Hueco \notin {}
    BY SumaCero, FS_EmptySet
  <2>2. \A d \in {} \cup {Hueco} : k[d] \in Int
    BY ONLY <1>6
  <2>3. SumFunctionOnSet(k, {} \cup {Hueco}) = SumFunctionOnSet(k, {}) + k[Hueco]
    BY ONLY <2>1, <2>2, SumaCon
  <2>4. {} \cup {Hueco} = {Hueco}
    OBVIOUS
  <2> QED BY ONLY <1>6, <2>1, <2>3, <2>4
<1>11. seg'[Hueco].tam = M - u /\ u + (M - u) = M
  BY <1>1, <1>2 DEF Compactado
<1> QED BY <1>1, <1>2, <1>5, <1>9, <1>10, <1>11

\* A place of the memory is copied to by the segment whose new place it is, and no other.
LEMMA CompactarCopia ==
  ASSUME FormaEspacio, Mosaico, Reparto, Compactar
  PROVE  /\ memoria' \in [0..TAMANIO_MEMORIA - 1 -> [de : Segmentos, tarea : Nat]]
         /\ \A d \in EnUso : Copiado(d)
<1>1. PICK M \in Nat : M = TAMANIO_MEMORIA
  BY Numeros
<1>2. memoria \in [0..M-1 -> [de : Segmentos, tarea : Nat]]
  BY <1>1 DEF FormaEspacio
<1>3. PICK x : \A d \in EnUso : x[d] = Desplazamiento(d)
  <2>1. \A d \in EnUso : [c \in EnUso |-> Desplazamiento(c)][d] = Desplazamiento(d)
    OBVIOUS
  <2> QED BY <2>1
<1>4. PICK y : \A d \in EnUso : y[d] = seg[d].inicio
  <2>1. \A d \in EnUso : [c \in EnUso |-> seg[c].inicio][d] = seg[d].inicio
    OBVIOUS
  <2> QED BY <2>1
<1>5. PICK m : \A d \in EnUso : m[d] = seg[d].tam
  <2>1. \A d \in EnUso : [c \in EnUso |-> seg[c].tam][d] = seg[d].tam
    OBVIOUS
  <2> QED BY <2>1
<1>6. \A d \in EnUso : /\ x[d] \in Nat /\ y[d] \in Nat /\ m[d] \in Nat
                       /\ x[d] + m[d] <= M /\ y[d] + m[d] <= M
  <2>1. ASSUME NEW d \in EnUso
        PROVE  /\ x[d] \in Nat /\ y[d] \in Nat /\ m[d] \in Nat
               /\ x[d] + m[d] <= M /\ y[d] + m[d] <= M
    <3>1. d \in EnLista /\ d \in Segmentos
      BY Destinos
    <3>2. x[d] \in Nat /\ y[d] \in Nat /\ m[d] \in Nat /\ y[d] + m[d] <= M
      BY <1>1, <1>3, <1>4, <1>5, <3>1, Destinos, Numeros, Separados
    <3>3. PICK u \in Nat : x[d] + m[d] <= u /\ u <= M
      BY <1>1, <1>3, <1>5, Destinos
    <3> QED BY ONLY <3>2, <3>3, M \in Nat
  <2> QED BY <2>1
<1>7. \A c, d \in EnUso : c # d => x[c] + m[c] <= x[d] \/ x[d] + m[d] <= x[c]
  <2>1. ASSUME NEW c \in EnUso, NEW d \in EnUso, c # d
        PROVE  x[c] + m[c] <= x[d] \/ x[d] + m[d] <= x[c]
    <3>1. y[c] \in Nat /\ y[d] \in Nat /\ y[c] # y[d]
      BY <1>4, <1>6, <2>1, Destinos
    <3>2. y[c] < y[d] \/ y[d] < y[c]
      BY ONLY <3>1
    <3> QED BY <1>3, <1>4, <1>5, <3>2, Destinos
  <2> QED BY <2>1
<1>8. memoria' = [a \in DOMAIN memoria |->
                    IF \E d \in EnUso : a \in x[d] .. x[d] + m[d] - 1
                    THEN memoria[y[CHOOSE d \in EnUso : a \in x[d] .. x[d] + m[d] - 1] + a
                                 - x[CHOOSE d \in EnUso : a \in x[d] .. x[d] + m[d] - 1]]
                    ELSE memoria[a]]
  <2>1. \A d \in EnUso : Desplazamiento(d) .. Desplazamiento(d) + seg[d].tam - 1
                           = x[d] .. x[d] + m[d] - 1
    BY <1>3, <1>5
  <2>2. memoria' = Mover
    BY DEF Compactar
  <2>3. \A a : (CHOOSE d \in EnUso : a \in Desplazamiento(d) .. Desplazamiento(d) + seg[d].tam - 1)
                 = (CHOOSE d \in EnUso : a \in x[d] .. x[d] + m[d] - 1)
    BY <2>1
  <2>4. ASSUME NEW a \in DOMAIN memoria, \E d \in EnUso : a \in x[d] .. x[d] + m[d] - 1
        PROVE  LET d == CHOOSE d \in EnUso : a \in x[d] .. x[d] + m[d] - 1
               IN y[d] = seg[d].inicio /\ x[d] = Desplazamiento(d)
    BY <1>3, <1>4, <2>4
  <2> QED BY <2>1, <2>2, <2>3, <2>4 DEF Mover
<1>9. ASSUME NEW d \in EnUso, NEW a \in x[d] .. x[d] + m[d] - 1
      PROVE  /\ a \in 0..M-1 /\ y[d] + a - x[d] \in 0..M-1
             /\ y[d] + a - x[d] \in y[d] .. y[d] + m[d] - 1
             /\ memoria'[a] = memoria[y[d] + a - x[d]]
  <2>1. PICK i \in Nat, j \in Nat, n \in Nat :
          i = x[d] /\ j = y[d] /\ n = m[d] /\ i + n <= M /\ j + n <= M
    BY <1>6
  <2>2. a \in 0..M-1 /\ j + a - i \in 0..M-1 /\ j + a - i \in j .. j + n - 1
    BY ONLY <2>1, M \in Nat, a \in x[d] .. x[d] + m[d] - 1
  <2>3. \A c \in EnUso : a \in x[c] .. x[c] + m[c] - 1 => c = d
    <3>1. ASSUME NEW c \in EnUso, a \in x[c] .. x[c] + m[c] - 1, c # d
          PROVE  FALSE
      <4>1. PICK k \in Nat, l \in Nat :
              k = x[c] /\ l = m[c] /\ (k + l <= i \/ i + n <= k)
        BY <1>6, <1>7, <2>1, <3>1
      <4> QED BY ONLY <2>1, <3>1, <4>1, a \in x[d] .. x[d] + m[d] - 1
    <3> QED BY <3>1
  <2>4. d = CHOOSE c \in EnUso : a \in x[c] .. x[c] + m[c] - 1
    BY <2>3
  <2>5. memoria'[a] = memoria[y[d] + a - x[d]]
    <3>1. a \in DOMAIN memoria
      BY <1>2, <2>2
    <3>2. \E c \in EnUso : a \in x[c] .. x[c] + m[c] - 1
      BY <1>9
    <3> QED BY ONLY <1>8, <2>4, <3>1, <3>2
  <2> QED BY <2>1, <2>2, <2>5
<1>10. ASSUME NEW a \in 0..M-1
       PROVE  memoria'[a] \in [de : Segmentos, tarea : Nat]
  <2>1. CASE \E d \in EnUso : a \in x[d] .. x[d] + m[d] - 1
    <3>1. PICK d \in EnUso : a \in x[d] .. x[d] + m[d] - 1
      BY <2>1
    <3>2. memoria'[a] = memoria[y[d] + a - x[d]] /\ y[d] + a - x[d] \in 0..M-1
      BY <1>9, <3>1
    <3> QED BY ONLY <1>2, <3>2
  <2>2. CASE ~ \E d \in EnUso : a \in x[d] .. x[d] + m[d] - 1
    <3>1. a \in DOMAIN memoria
      BY <1>2
    <3> QED BY ONLY <1>2, <1>8, <2>2, <3>1, a \in 0..M-1
  <2> QED BY <2>1, <2>2
<1>11. memoria' \in [0..TAMANIO_MEMORIA - 1 -> [de : Segmentos, tarea : Nat]]
  <2>1. memoria' = [a \in 0..M-1 |-> memoria'[a]]
    BY ONLY <1>2, <1>8
  <2> QED BY ONLY <1>1, <1>10, <2>1
<1>12. ASSUME NEW d \in EnUso
       PROVE  Copiado(d)
  <2>1. Lugares(d)' = x[d] .. x[d] + m[d] - 1
    <3>1. seg'[d].inicio = x[d] /\ seg'[d].tam = m[d]
      BY <1>3, <1>5, CompactarSegmentos DEF Compactado
    <3> QED BY <3>1 DEF Lugares
  <2>2. Lugares(d) = y[d] .. y[d] + m[d] - 1
    BY <1>4, <1>5 DEF Lugares
  <2>3. \A a \in x[d] .. x[d] + m[d] - 1 :
          \E b \in y[d] .. y[d] + m[d] - 1 : memoria'[a] = memoria[b]
    BY <1>9
  <2> QED BY ONLY <2>1, <2>2, <2>3 DEF Copiado
<1> QED BY <1>11, <1>12

\* The compaction.
LEMMA PasoCompactar ==
  ASSUME Inductiva, Compactar
  PROVE  Inductiva'
<1> USE DEF Inductiva, Formas
<1>1. /\ ini' = [ini EXCEPT !.compacto = ini.fase = "asigna"] /\ comp' = SinComp
      /\ UNCHANGED <<tablas, mutex_trip, recibidas, aceptadas, seniales, ubica, obt, caida>>
  BY DEF Compactar
<1>2. Compactado
  BY CompactarSegmentos
<1>3. /\ segmentos' \in Seq(Segmentos) /\ EnLista' = EnUso \cup {Hueco}
      /\ EnUso' = EnUso /\ Libres' = {Hueco} /\ Mosaico'
  BY CompactarMosaico
<1>4. /\ Espacio(EnLista)' = TAMANIO_MEMORIA /\ MemoriaLibre' = MemoriaLibre
      /\ seg'[Hueco].tam = MemoriaLibre
  BY CompactarEspacio
<1>5. /\ memoria' \in [0..TAMANIO_MEMORIA - 1 -> [de : Segmentos, tarea : Nat]]
      /\ \A d \in EnUso : Guarda(d) => Guarda(d)'
  BY CompactarCopia DEF Copiado, Guarda
<1>6. FormaEspacio'
  BY <1>2, <1>3, <1>5 DEF FormaEspacio, Compactado, FormaSeg
<1>7. FormaTablas' /\ Pedidos'
  BY <1>1 DEF FormaTablas, Pedidos, tablas
<1>8. FormaComp'
  <2>1. Len(segmentos') \in Nat
    BY <1>3, LenProperties
  <2> QED BY <1>1, <2>1 DEF FormaComp, SinComp
<1>9. \A d \in EnUso : d \in EnLista /\ d \in Segmentos /\ seg[d].tam = Tam(d) /\ d # Hueco
  BY Destinos
<1>10. \A d \in Segmentos : ~seg[d].libre => d \in EnUso
  BY DEF Reparto, EnUso, Libres, EnLista
<1>11. \A d \in Segmentos : ~seg'[d].libre => d \in EnUso /\ seg'[d].tam = Tam(d)
  BY <1>2, <1>9 DEF Compactado
<1>12. Reparto'
  <2>1. \A d \in EnLista' : d[2] <= recibidas'
    <3>1. Hueco[2] <= recibidas
      BY Nombres DEF EnCurso
    <3> QED BY <1>1, <1>3, <1>9, <3>1 DEF Reparto
  <2>2. seg'[Hueco].libre
    BY <1>2 DEF Compactado
  <2> QED BY <1>3, <1>4, <1>11, <2>1, <2>2 DEF Reparto
<1>13. /\ ini'.fase = ini.fase /\ ini'.pid = ini.pid /\ ini'.faltan = ini.faltan
       /\ ini' \in [fase : {"libre", "asigna"}, pid : Pids \cup {0}, faltan : Seq(Segmentos),
                    compacto : BOOLEAN]
  BY <1>1 DEF EnCurso
<1>14. EnCurso'
  <2>1. ASSUME ini.fase = "asigna"
        PROVE  ToSet(ini.faltan) \cap EnLista' = {}
    <3>1. ToSet(ini.faltan) \subseteq FilaPatota(ini.pid) /\ ini.pid \in Pids
          /\ ToSet(ini.faltan) \cap EnLista = {}
      BY <2>1 DEF EnCurso
    <3>2. Hueco \notin ToSet(ini.faltan)
      BY <3>1, FilaPropia
    <3> QED BY <1>3, <1>9, <3>1, <3>2
  <2> QED BY <1>1, <1>3, <1>13, <2>1 DEF EnCurso
<1>15. Cabe'
  <2>1. Pide' = Pide
    BY <1>13 DEF Pide
  <2> QED BY <1>3, <1>4, <1>13, <2>1 DEF Cabe
<1>16. EnSuLugar'
  <2>1. /\ patotas' = patotas /\ tabla' = tabla /\ aceptadas' = aceptadas /\ obt' = obt
        /\ ini'.pid = ini.pid /\ liberadas' = liberadas /\ Vigentes' = Vigentes
    BY <1>1, <1>13 DEF tablas, Vigentes
  <2>2. ASSUME NEW p \in Vigentes
        PROVE  /\ ~seg'[Pcb(p)].libre /\ ~seg'[Tareas(p)].libre
               /\ Guarda(Pcb(p))' /\ Guarda(Tareas(p))'
    <3>1. p \in Pids
      BY AceptadasPids
    <3>2. /\ Pcb(p) \in EnUso /\ Tareas(p) \in EnUso /\ Guarda(Pcb(p)) /\ Guarda(Tareas(p))
          /\ ~seg[Pcb(p)].libre /\ ~seg[Tareas(p)].libre
      BY <1>10, <3>1, Nombres DEF EnSuLugar
    <3>3. Guarda(Pcb(p))'
      BY <1>5, <3>2
    <3>4. Guarda(Tareas(p))'
      BY <1>5, <3>2
    <3> QED BY <1>2, <3>2, <3>3, <3>4 DEF Compactado
  <2>3. ASSUME NEW p \in Pids, NEW d \in ToSet(tabla[p])
        PROVE  d[2] = p /\ (~seg'[d].libre => Guarda(d)')
    <3>1. d \in Segmentos
      BY ElementosFinitos, Nombres DEF FormaTablas
    <3>2. d[2] = p /\ (~seg[d].libre => Guarda(d))
      BY DEF EnSuLugar
    <3>3. ~seg'[d].libre => d \in EnUso /\ ~seg[d].libre
      BY <1>2, <1>11, <3>1 DEF Compactado
    <3> QED BY <1>5, <3>2, <3>3
  <2> QED BY <2>1, <2>2, <2>3 DEF EnSuLugar
<1> QED BY <1>3, <1>6, <1>7, <1>8, <1>12, <1>14, <1>15, <1>16

-----------------------------------------------------------------------------
(* The theorems.                                                             *)

\* At the start the memory is one free segment.
LEMMA InicioInductivo ==
  ASSUME Init
  PROVE  Inductiva
<1>1. TAMANIO_MEMORIA \in Nat \ {0} /\ Hueco \in Segmentos /\ Hueco[2] = 0
  BY ConstantesOK, Nombres
<1>2. /\ segmentos = <<Hueco>> /\ Len(segmentos) = 1 /\ segmentos[1] = Hueco
      /\ DOMAIN segmentos = 1..1 /\ segmentos \in Seq(Segmentos)
  BY <1>1 DEF Init
<1>3. /\ seg = [d \in Segmentos |->
                  IF d = Hueco THEN [inicio |-> 0, tam |-> TAMANIO_MEMORIA, libre |-> TRUE]
                               ELSE [inicio |-> 0, tam |-> 0, libre |-> TRUE]]
      /\ memoria = [a \in 0..TAMANIO_MEMORIA - 1 |-> Nada]
      /\ patotas = <<>> /\ tabla = [p \in Pids |-> <<>>] /\ liberadas = {}
      /\ mutex_trip = {} /\ ini = SinAlta /\ recibidas = 0 /\ aceptadas = {}
      /\ comp = SinComp /\ seniales = 0 /\ ubica = Nadie
      /\ obt = [t \in Trips |-> SinPedido] /\ caida = FALSE
  BY DEF Init
<1>4. /\ seg[Hueco] = [inicio |-> 0, tam |-> TAMANIO_MEMORIA, libre |-> TRUE]
      /\ \A d \in Segmentos : seg[d].libre
  BY <1>1, <1>3
<1>5. FormaEspacio
  <2>1. Nada \in [de : Segmentos, tarea : Nat]
    BY <1>1 DEF Nada
  <2>2. memoria \in [0..TAMANIO_MEMORIA - 1 -> [de : Segmentos, tarea : Nat]]
    BY ONLY <1>3, <2>1
  <2>3. seg \in [Segmentos -> [inicio : 0..TAMANIO_MEMORIA, tam : 0..TAMANIO_MEMORIA,
                               libre : BOOLEAN]]
    <3>1. 0 \in 0..TAMANIO_MEMORIA /\ TAMANIO_MEMORIA \in 0..TAMANIO_MEMORIA
      BY <1>1
    <3> QED BY ONLY <1>3, <3>1
  <2> QED BY <1>2, <2>2, <2>3 DEF FormaEspacio
<1>6. FormaTablas
  <2>1. patotas \in Seq(Pids) /\ tabla \in [Pids -> Seq(Tcbs)]
    BY ONLY <1>3
  <2>2. liberadas \subseteq Pids /\ mutex_trip \subseteq Pids /\ caida \in BOOLEAN
        /\ ubica = Nadie
    BY ONLY <1>3
  <2> QED BY ONLY <2>1, <2>2 DEF FormaTablas
<1>7. FormaComp
  BY <1>2, <1>3 DEF FormaComp, SinComp
<1>8. Pedidos
  <2>1. SinPedido \in FormaPedido
    BY DEF SinPedido, FormaPedido, FasesObt, Saliendo
  <2>2. \A t \in Trips : obt[t].pc = "libre"
    BY <1>3 DEF SinPedido
  <2>3. \A t \in Trips : obt[t].pc = "libre" => HalladoEnLaSuya(obt[t])
    BY DEF HalladoEnLaSuya
  <2> QED BY <1>3, <2>1, <2>2, <2>3 DEF Pedidos
<1>9. Mosaico
  BY <1>1, <1>2, <1>4 DEF Mosaico, IsInjective
<1>10. EnLista = {Hueco} /\ Libres = {Hueco} /\ EnUso = {}
  <2>1. EnLista = {Hueco}
    BY <1>2 DEF EnLista, ToSet
  <2> QED BY <1>4, <2>1 DEF EnLista, Libres, EnUso
<1>11. Espacio({Hueco}) = TAMANIO_MEMORIA
  <2>1. /\ {} \in SUBSET EnLista /\ Hueco \in EnLista \ {} /\ Espacio({}) = 0
        /\ {} \cup {Hueco} = {Hueco}
    BY <1>5, <1>10, Espacios
  <2>2. Espacio({} \cup {Hueco}) = Espacio({}) + seg[Hueco].tam
    BY <1>5, <2>1, Espacios
  <2> QED BY <1>1, <1>4, <2>1, <2>2
<1>12. Reparto
  BY <1>1, <1>3, <1>4, <1>10, <1>11 DEF Reparto
<1>13. EnCurso /\ Cabe
  <2>1. ini.fase = "libre" /\ ini.faltan = <<>> /\ ini.pid = 0 /\ ini.compacto = FALSE
    BY <1>3 DEF SinAlta
  <2>2. ini \in [fase : {"libre", "asigna"}, pid : Pids \cup {0}, faltan : Seq(Segmentos),
                 compacto : BOOLEAN]
    BY <1>3 DEF SinAlta
  <2>3. recibidas \in 0..Len(Patotas)
    BY <1>3, Pedidas
  <2> QED BY <1>3, <2>1, <2>2, <2>3 DEF EnCurso, Cabe
<1>14. EnSuLugar
  <2>1. ToSet(patotas) = {} /\ IsInjective(patotas) /\ Vigentes = {} /\ liberadas = {}
    BY <1>3 DEF ToSet, IsInjective, Vigentes
  <2>2. \A p \in Pids : tabla[p] = <<>> /\ ToSet(tabla[p]) = {}
    BY <1>3 DEF ToSet
  <2> QED BY <2>1, <2>2 DEF EnSuLugar
<1> QED BY <1>5, <1>6, <1>7, <1>8, <1>9, <1>12, <1>13, <1>14 DEF Inductiva, Formas

\* Every step keeps the invariant.
LEMMA PasoInductivo ==
  ASSUME Inductiva, [Next]_vars
  PROVE  Inductiva'
<1>1. CASE Alta
  BY <1>1, PasoRecibirPatota, PasoAsignarSegmento, PasoSinSegmento, PasoPublicarPatota
     DEF Alta
<1>2. CASE SenialCompactar
  BY <1>2, PasoSenialCompactar
<1>3. CASE Compactacion
  BY <1>3, PasoBloquearSegmentos, PasoCompactar DEF Compactacion
<1>4. CASE EscribirUbicacion
  BY <1>4, PasoEscribirUbicacion
<1>5. ASSUME NEW t \in Trips,
             BuscarParaUbicar(t) \/ BuscarPatotaConTid(t) \/ Obtener(t) \/ ExpulsarTripulante(t)
      PROVE  Inductiva'
  <2>1. CASE BuscarParaUbicar(t)
    BY <2>1, PasoBuscarParaUbicar
  <2>2. CASE BuscarPatotaConTid(t)
    BY <2>2, PasoBuscarPatotaConTid
  <2>3. CASE ExpulsarTripulante(t)
    BY <2>3, PasoExpulsarTripulante
  <2>4. CASE Obtener(t)
    <3>1. CASE CopiarTareas(t)          BY <3>1, PasoCopiarTareas
    <3>2. CASE LeerIndice(t)            BY <3>2, PasoLeerIndice
    <3>3. CASE ElegirTarea(t)           BY <3>3, PasoElegirTarea
    <3>4. CASE LiberarTripulante(t)     BY <3>4, PasoLiberarTripulante
    <3>5. CASE QuitarTripulante(t)      BY <3>5, PasoQuitarTripulante
    <3>10. CASE RevisarPatota(t)        BY <3>10, PasoRevisarPatota
    <3>6. CASE BorrarPatota(t)          BY <3>6, PasoBorrarPatota
    <3>7. CASE DestruirPatota(t)        BY <3>7, PasoDestruirPatota
    <3>8. CASE ActualizarTareaActual(t) BY <3>8, PasoActualizarTareaActual
    <3>9. CASE UsarTablaLiberada(t)     BY <3>9, PasoUsarTablaLiberada
    <3> QED BY <2>4, <3>1, <3>2, <3>3, <3>4, <3>5, <3>6, <3>7, <3>8, <3>9, <3>10 DEF Obtener
  <2> QED BY <1>5, <2>1, <2>2, <2>3, <2>4
<1>6. CASE UNCHANGED vars
  <2>1. UNCHANGED <<espacio, tablas, altas, compactacion, mutex_trip, ubica, obt, caida>>
    BY <1>6 DEF vars
  <2>2. FormaEspacio' /\ Mosaico' /\ Reparto' /\ EnCurso' /\ Cabe' /\ EnSuLugar'
    BY <2>1, PasoQuieto
  <2>3. Formas' /\ Pedidos'
    BY <2>1, <2>2 DEF Inductiva, Formas, FormaTablas, FormaComp, Pedidos, tablas, espacio,
                      altas, compactacion
  <2> QED BY <2>2, <2>3 DEF Inductiva
<1>7. CASE Next
  BY <1>1, <1>2, <1>3, <1>4, <1>5, <1>7 DEF Next
<1> QED BY <1>6, <1>7

\* What the invariant says of the state, in the terms of the runs.
LEMMA DeLaInductiva ==
  ASSUME Inductiva
  PROVE  TypeOK /\ Mosaico /\ SiempreEntra /\ ContenidoIntacto
<1> USE DEF Inductiva, Formas
<1>1. TypeOK
  <2>1. aceptadas \subseteq Pids
    <3>1. recibidas \in 0..Len(Patotas) /\ aceptadas \subseteq 1..recibidas
      BY DEF EnCurso
    <3>2. 1..recibidas \subseteq 1..Len(Patotas)
      BY <3>1, Pedidas
    <3> QED BY <3>1, <3>2, Pedidas
  <2>2. ini.fase \in {"libre", "asigna", "no_deberia_pasar"} /\ ini.faltan \in Seq(Segmentos)
    BY DEF EnCurso
  <2>3. \A t \in Trips : /\ obt[t].pc \in FasesObt /\ obt[t].pat \in Pids \cup {0}
                         /\ obt[t].tcb \in Tcbs \cup {Hueco}
    BY DEF Pedidos, FormaPedido
  <2>4. comp.fase \in {"no", "bloquea"} /\ comp.tomados \in 0..Len(segmentos)
    BY DEF FormaComp
  <2>5. recibidas \in 0..Len(Patotas)
    BY DEF EnCurso
  <2> QED BY <2>1, <2>2, <2>3, <2>4, <2>5 DEF TypeOK, FormaEspacio, FormaTablas
<1>2. SiempreEntra
  <2>1. ini.fase \in {"libre", "asigna"}
    BY DEF EnCurso
  <2> QED BY <2>1 DEF SiempreEntra
<1>3. ContenidoIntacto
  <2>1. ASSUME NEW i \in DOMAIN patotas,
               NEW d \in {Pcb(patotas[i]), Tareas(patotas[i])}
                         \cup {d \in ToSet(tabla[patotas[i]]) : ~seg[d].libre}
        PROVE  Guarda(d)
    <3>1. patotas[i] \in ToSet(patotas) /\ patotas[i] \in Pids
      BY ElementosFinitos DEF FormaTablas, ToSet
    <3>2. patotas[i] \in Vigentes
      BY <3>1 DEF EnSuLugar
    <3> QED BY <2>1, <3>1, <3>2 DEF EnSuLugar
  <2> QED BY <2>1 DEF ContenidoIntacto, Guarda
<1> QED BY <1>1, <1>2, <1>3

\* The invariant holds always.
LEMMA SiempreInductiva == Spec => []Inductiva
<1>1. Init => Inductiva
  BY InicioInductivo
<1>2. Inductiva /\ [Next]_vars => Inductiva'
  BY PasoInductivo
<1> QED BY <1>1, <1>2, PTL DEF Spec

\* The state keeps its shape: places within the memory, tables of TCBs, and a compaction
\* that never locks beyond the end of the list.
THEOREM SegmentosConTipo == Spec => []TypeOK
<1>1. Inductiva => TypeOK
  BY DeLaInductiva
<1> QED BY <1>1, SiempreInductiva, PTL

\* Splits, frees and compactions leave the list of segments tiling the memory.
THEOREM ListaEnMosaico == Spec => []Mosaico
<1>1. Inductiva => Mosaico
  BY DeLaInductiva
<1> QED BY <1>1, SiempreInductiva, PTL

\* A patota admitted by its size gets all its segments: iniciar_patota_segmentacion never
\* reaches the failure after the second try, however requests, expulsions and compactions
\* asked for by signal are interleaved.
THEOREM AdmitidaEntra == Spec => []SiempreEntra
<1>1. Inductiva => SiempreEntra
  BY DeLaInductiva
<1> QED BY <1>1, SiempreInductiva, PTL

\* The places of the PCB and the tasks of a patota in the list, and of the TCB of each of
\* its crews, hold that patota's and that crew's data after any number of compactions.
THEOREM DatosIntactos == Spec => []ContenidoIntacto
<1>1. Inductiva => ContenidoIntacto
  BY DeLaInductiva
<1> QED BY <1>1, SiempreInductiva, PTL

-----------------------------------------------------------------------------
(* The PCB and the tasks of a patota, however many crews leave at once.      *)

\* Either of them is in use.
EnMemoria(p) == ~seg[Pcb(p)].libre \/ ~seg[Tareas(p)].libre

Destruye(t, p) == obt[t].pc = "destruye" /\ obt[t].pat = p

\* They are given to a patota that is being created; one that was accepted leaves the list
\* with them freed, or with a thread that is to free them, and nobody gives them again.
IndDuenio ==
  /\ \A p \in Pids : EnMemoria(p) => p \in aceptadas \cup {ini.pid}
  /\ \A p \in aceptadas \ ToSet(patotas) : p \in liberadas \/ \E t \in Trips : Destruye(t, p)
  /\ \A p \in liberadas : ~EnMemoria(p)

LEMMA DelDuenio ==
  ASSUME Inductiva, IndDuenio
  PROVE  PatotaConDuenio
<1>1. ASSUME NEW p \in Pids, {Pcb(p), Tareas(p)} \cap EnUso # {}
      PROVE  \/ p \in ToSet(patotas) \cup {ini.pid}
             \/ \E t \in Trips : obt[t].pat = p /\ obt[t].pc = "destruye"
  <2>1. EnMemoria(p)
    BY <1>1 DEF EnUso, Libres, EnMemoria
  <2> QED BY <2>1 DEF IndDuenio, Destruye
<1> QED BY <1>1 DEF PatotaConDuenio

\* Most steps only free segments and take patotas off the list.
LEMMA DuenioPaso ==
  ASSUME Inductiva, IndDuenio, aceptadas' = aceptadas, ini'.pid = ini.pid,
         \A d \in Segmentos : seg[d].libre => seg'[d].libre, liberadas \subseteq liberadas',
         \A p \in liberadas' \ liberadas : seg'[Pcb(p)].libre /\ seg'[Tareas(p)].libre,
         \A p \in ToSet(patotas) \ ToSet(patotas') :
           p \in liberadas' \/ \E t \in Trips : Destruye(t, p)',
         \A t \in Trips : \A p : Destruye(t, p) => Destruye(t, p)' \/ p \in liberadas'
  PROVE  IndDuenio'
<1> USE DEF IndDuenio
<1>1. \A p \in Pids : Pcb(p) \in Segmentos /\ Tareas(p) \in Segmentos
  BY Nombres
<1>2. \A p \in Pids : EnMemoria(p)' => EnMemoria(p)
  BY <1>1 DEF EnMemoria
<1>3. aceptadas \subseteq Pids /\ liberadas \subseteq aceptadas
  BY AceptadasPids DEF Inductiva, EnSuLugar
<1>4. \A p \in liberadas' : ~EnMemoria(p)'
  <2>1. ASSUME NEW p \in liberadas'
        PROVE  ~EnMemoria(p)'
    <3>1. CASE p \in liberadas
      BY <1>2, <1>3, <3>1
    <3>2. CASE p \notin liberadas
      BY <2>1, <3>2 DEF EnMemoria
    <3> QED BY <3>1, <3>2
  <2> QED BY <2>1
<1>5. ASSUME NEW p \in aceptadas, p \notin ToSet(patotas')
      PROVE  p \in liberadas' \/ \E t \in Trips : Destruye(t, p)'
  <2>1. CASE p \in ToSet(patotas)
    BY <1>5, <2>1
  <2>2. CASE p \notin ToSet(patotas)
    <3>1. p \in liberadas \/ \E t \in Trips : Destruye(t, p)
      BY <2>2
    <3> QED BY <3>1
  <2> QED BY <2>1, <2>2
<1> QED BY <1>2, <1>4, <1>5

\* A step that leaves the list as it is and no request that takes a patota apart.
LEMMA DuenioPedido ==
  ASSUME Inductiva, IndDuenio, UNCHANGED <<aceptadas, ini, patotas, liberadas>>,
         \A d \in Segmentos : seg[d].libre => seg'[d].libre,
         \A t \in Trips : obt[t].pc = "destruye" => obt'[t] = obt[t]
  PROVE  IndDuenio'
BY DuenioPaso DEF Destruye

\* Nothing is a patota's before it is received.
LEMMA DuenioRecibirPatota ==
  ASSUME Inductiva, IndDuenio, RecibirPatota
  PROVE  IndDuenio'
<1>1. /\ UNCHANGED <<seg, patotas, liberadas, aceptadas, obt>> /\ ini.pid = 0
  BY DEF RecibirPatota, espacio, tablas, Inductiva, EnCurso
<1>2. \A p \in Pids : p # 0
  BY Pedidas
<1>3. \A p \in Pids : EnMemoria(p)' => p \in aceptadas
  BY <1>1, <1>2 DEF IndDuenio, EnMemoria
<1> QED BY <1>1, <1>3 DEF IndDuenio, EnMemoria, Destruye

\* A segment is given to the patota being created.
LEMMA DuenioAsignarSegmento ==
  ASSUME Inductiva, IndDuenio, AsignarSegmento
  PROVE  IndDuenio'
<1>1. PICK d, q : d = Head(ini.faltan) /\ q = ini.pid
  OBVIOUS
<1>2. /\ ini.fase = "asigna" /\ ini.faltan # <<>>
      /\ ini' = [ini EXCEPT !.faltan = Tail(@), !.compacto = FALSE]
      /\ UNCHANGED <<patotas, liberadas, aceptadas, obt>>
  BY DEF AsignarSegmento, EnAlta
<1>3. PICK i \in DOMAIN segmentos : Elegido(i, Tam(d)) /\ Ocupar(i, d)
  BY <1>1 DEF AsignarSegmento
<1>4. /\ ini.faltan \in Seq(Segmentos) /\ IsInjective(ini.faltan)
      /\ ini.pid \in Pids \ aceptadas /\ ToSet(ini.faltan) \cap EnLista = {}
      /\ ToSet(ini.faltan) \subseteq FilaPatota(q)
      /\ ini \in [fase : {"libre", "asigna"}, pid : Pids \cup {0}, faltan : Seq(Segmentos),
                  compacto : BOOLEAN]
  BY <1>1, <1>2 DEF EnCurso, Inductiva
<1>5. /\ ToSet(ini.faltan) = ToSet(Tail(ini.faltan)) \cup {d} /\ d \notin ToSet(Tail(ini.faltan))
  BY <1>1, <1>2, <1>4, CabezaYCola
<1>6. d \in Segmentos /\ d # Hueco /\ d \notin EnLista /\ d[2] = q /\ q \in Pids
  BY <1>1, <1>4, <1>5, FilaPropia
<1>7. Cabida(i, d)
  BY <1>3, <1>6, Numeros, Tamanios DEF Elegido, Entra, Cabida, Inductiva, Formas
<1>8. \A c \in Segmentos \ {d} : seg'[c].libre = seg[c].libre
  <2>1. PICK h : h = segmentos[i]
    OBVIOUS
  <2>2. Reparte(h, d) /\ seg[h].libre /\ h # d
    BY <1>3, <1>7, <2>1, OcuparReparte DEF Cabida, Inductiva, Formas
  <2>3. seg'[h].libre /\ \A c \in Segmentos \ {d, h} : seg'[c] = seg[c]
    BY ONLY <2>2 DEF Reparte
  <2>4. seg'[h].libre \in BOOLEAN /\ seg[h].libre \in BOOLEAN
    <3>1. h \in Segmentos /\ seg \in FormaSeg /\ seg' \in FormaSeg
      BY <2>1, <2>2, Numeros DEF Reparte, Inductiva, Formas, FormaEspacio, FormaSeg
    <3> QED BY ONLY <3>1 DEF FormaSeg
  <2>5. seg'[h].libre = seg[h].libre
    BY ONLY <2>2, <2>3, <2>4
  <2> QED BY ONLY <2>3, <2>5
<1>9. ini'.pid = q
  BY ONLY <1>1, <1>2, <1>4
<1>10. \A p \in Pids : Pcb(p) \in Segmentos /\ Tareas(p) \in Segmentos
                       /\ Pcb(p)[2] = p /\ Tareas(p)[2] = p
  BY Nombres
<1>11. \A p \in Pids \ {q} : EnMemoria(p)' <=> EnMemoria(p)
  BY <1>6, <1>8, <1>10 DEF EnMemoria
<1>12. \A p \in liberadas : p \in Pids /\ p # q
  BY <1>1, <1>4, AceptadasPids DEF Inductiva, EnSuLugar
<1> QED BY <1>1, <1>2, <1>9, <1>11, <1>12 DEF IndDuenio, Destruye

\* It joins the list.
LEMMA DuenioPublicarPatota ==
  ASSUME Inductiva, IndDuenio, PublicarPatota
  PROVE  IndDuenio'
<1>1. PICK p : p = ini.pid
  OBVIOUS
<1>2. /\ ini.fase = "asigna" /\ patotas' = Append(patotas, p)
      /\ aceptadas' = aceptadas \cup {p} /\ UNCHANGED <<seg, liberadas, obt>>
  BY <1>1 DEF PublicarPatota, EnAlta
<1>3. ToSet(patotas') = ToSet(patotas) \cup {p}
  <2>1. patotas \in Seq(Pids) /\ p \in Pids
    BY <1>1, <1>2 DEF Inductiva, Formas, FormaTablas, EnCurso
  <2>2. \A s : ToSet(s) = Range(s)
    BY DEF ToSet, Range
  <2>3. Range(Append(patotas, p)) = Range(patotas) \cup {p}
    BY <2>1, AgregarSeq
  <2> QED BY <1>2, <2>2, <2>3
<1> QED BY <1>1, <1>2, <1>3 DEF IndDuenio, EnMemoria, Destruye

\* borrar_patota takes no patota but the request's off the list.
LEMMA BorraLaSuya ==
  ASSUME Inductiva, NEW t \in Trips, BorrarPatota(t)
  PROVE  ToSet(patotas) \ {obt[t].pat} \subseteq ToSet(patotas')
<1> DEFINE con_pid == {i \in DOMAIN patotas :
                         Leer(Pcb(patotas[i])).de = Leer(Pcb(obt[t].pat)).de}
<1>1. /\ patotas' = IF con_pid = {} THEN patotas ELSE RemoveAt(patotas, Min(con_pid))
      /\ obt[t].pc = "borra" /\ obt[t].pat \notin liberadas
  BY DEF BorrarPatota, EnObt, TablaViva
<1>2. obt[t].pat \in Vigentes /\ obt[t].pat \in Pids
  BY <1>1, PedidoEnPatota DEF Vigentes
<1>3. /\ patotas \in Seq(Pids) /\ DOMAIN patotas = 1..Len(patotas)
      /\ \A i \in DOMAIN patotas : patotas[i] \in Vigentes /\ patotas[i] \in Pids
  <2>1. patotas \in Seq(Pids) /\ ToSet(patotas) \subseteq Vigentes
    BY DEF Inductiva, Formas, FormaTablas, EnSuLugar
  <2> QED BY <2>1, LenProperties DEF ToSet
<1>4. \A i \in con_pid : patotas[i] = obt[t].pat
  <2>1. ASSUME NEW i \in con_pid
        PROVE  patotas[i] = obt[t].pat
    <3>1. i \in DOMAIN patotas /\ Leer(Pcb(patotas[i])).de = Leer(Pcb(obt[t].pat)).de
      OBVIOUS
    <3>2. Leer(Pcb(patotas[i])).de = Pcb(patotas[i])
      BY <1>3, <3>1, PcbLeido DEF Inductiva, Formas
    <3>3. Leer(Pcb(obt[t].pat)).de = Pcb(obt[t].pat)
      BY <1>2, PcbLeido DEF Inductiva, Formas
    <3>4. Pcb(patotas[i])[2] = patotas[i] /\ Pcb(obt[t].pat)[2] = obt[t].pat
      BY <1>2, <1>3, <3>1, Nombres
    <3> QED BY ONLY <3>1, <3>2, <3>3, <3>4
  <2> QED BY <2>1
<1>5. con_pid # {} => Min(con_pid) \in con_pid
  <2>1. con_pid \in SUBSET Nat BY <1>3
  <2> HIDE DEF con_pid
  <2> QED BY <2>1, MinEsta
<1>6. CASE con_pid = {}
  BY <1>1, <1>6
<1>7. CASE con_pid # {}
  <2>1. PICK m \in DOMAIN patotas : m = Min(con_pid) /\ patotas[m] = obt[t].pat
    BY <1>4, <1>5, <1>7
  <2> HIDE DEF con_pid
  <2>2. patotas' = RemoveAt(patotas, m)
    BY <1>1, <1>7, <2>1
  <2>3. ASSUME NEW q \in ToSet(patotas) \ {obt[t].pat}
        PROVE  q \in ToSet(patotas')
    <3>1. PICK k \in DOMAIN patotas : q = patotas[k]
      BY DEF ToSet
    <3>2. k # m
      BY <2>1, <2>3, <3>1
    <3> QED BY <1>3, <2>2, <3>1, <3>2, SacarDeja
  <2> QED BY <2>3
<1> QED BY <1>6, <1>7

\* The patota taken off the list has a thread that takes it apart, or several.
LEMMA DuenioBorrarPatota ==
  ASSUME Inductiva, IndDuenio, NEW t \in Trips, BorrarPatota(t)
  PROVE  IndDuenio'
<1>1. PICK p : p = obt[t].pat
  OBVIOUS
<1>2. /\ UNCHANGED <<espacio, liberadas, altas>> /\ obt[t].pc = "borra"
      /\ obt' = [obt EXCEPT ![t].pc = "destruye"]
  BY DEF BorrarPatota, EnObt
<1>3. obt \in [Trips -> FormaPedido]
  BY <1>2, PedidoEnPatota
<1>4. /\ \A u \in Trips : obt'[u] = obt[u] \/ u = t
      /\ obt'[t].pat = p /\ obt'[t].pc = "destruye"
  BY <1>1, <1>2, <1>3 DEF FormaPedido
<1>5. \A u \in Trips : \A q : Destruye(u, q) => Destruye(u, q)'
  BY <1>2, <1>4 DEF Destruye
<1>6. \A q \in ToSet(patotas) \ ToSet(patotas') : Destruye(t, q)'
  BY <1>1, <1>4, BorraLaSuya DEF Destruye
<1>7. seg' = seg /\ aceptadas' = aceptadas /\ ini' = ini /\ liberadas' = liberadas
  BY <1>2 DEF espacio, altas
<1> QED BY <1>5, <1>6, <1>7, DuenioPaso

\* A patota is taken apart.
LEMMA LiberaPatota ==
  ASSUME NEW s \in FormaSeg, NEW p \in Pids
  PROVE  /\ \A d \in Segmentos :
              /\ LiberarPatota(s, p)[d].inicio = s[d].inicio
              /\ LiberarPatota(s, p)[d].tam = s[d].tam
              /\ s[d].libre => LiberarPatota(s, p)[d].libre
              /\ d # Pcb(p) /\ d # Tareas(p) => LiberarPatota(s, p)[d].libre = s[d].libre
         /\ LiberarPatota(s, p)[Pcb(p)].libre /\ LiberarPatota(s, p)[Tareas(p)].libre
<1>1. PICK h : h = Liberar(s, Pcb(p))
  OBVIOUS
<1>2. Pcb(p) \in Segmentos /\ Tareas(p) \in Segmentos
  BY Nombres
<1>3. h \in FormaSeg /\ h[Pcb(p)].libre /\ SoloCambia(s, Pcb(p), h)
  BY ONLY <1>1, <1>2, SoltarUno, s \in FormaSeg
<1>4. /\ Liberar(h, Tareas(p))[Tareas(p)].libre
      /\ SoloCambia(h, Tareas(p), Liberar(h, Tareas(p)))
  BY ONLY <1>2, <1>3, SoltarUno
<1>5. LiberarPatota(s, p) = Liberar(h, Tareas(p))
  BY <1>1 DEF LiberarPatota, Liberar
<1> QED BY ONLY <1>2, <1>3, <1>4, <1>5 DEF SoloCambia

\* What it had is free, whoever else was about to free it.
LEMMA DuenioDestruirPatota ==
  ASSUME Inductiva, IndDuenio, NEW t \in Trips, DestruirPatota(t)
  PROVE  IndDuenio'
<1>1. PICK p : p = obt[t].pat
  OBVIOUS
<1>2. /\ UNCHANGED <<patotas, altas>> /\ obt[t].pc = "destruye"
      /\ obt' = [obt EXCEPT ![t].pc = "fin"]
      /\ seg' = LiberarPatota(seg, p) /\ liberadas' = liberadas \cup {p}
  BY <1>1 DEF DestruirPatota, EnObt
<1>3. obt \in [Trips -> FormaPedido] /\ p \in Pids /\ seg \in FormaSeg
  BY <1>1, <1>2, PedidoEnPatota DEF Inductiva, Formas, FormaEspacio, FormaSeg
<1>4. \A u \in Trips : obt'[u] = obt[u] \/ u = t
  BY <1>2, <1>3
<1>5. /\ \A d \in Segmentos : seg[d].libre => seg'[d].libre
      /\ seg'[Pcb(p)].libre /\ seg'[Tareas(p)].libre
  BY ONLY <1>2, <1>3, LiberaPatota
<1>6. \A u \in Trips : \A q : Destruye(u, q) => Destruye(u, q)' \/ q \in liberadas'
  BY <1>1, <1>2, <1>4 DEF Destruye
<1> QED BY <1>2, <1>5, <1>6, DuenioPaso DEF altas

\* The expulsion of its last crew frees what the patota had as it takes it off the list.
LEMMA DuenioExpulsarTripulante ==
  ASSUME Inductiva, IndDuenio, NEW t \in Trips, ExpulsarTripulante(t)
  PROVE  IndDuenio'
<1>1. UNCHANGED <<altas, obt>>
  BY DEF ExpulsarTripulante
<1>2. CASE UNCHANGED <<seg, tablas>>
  BY <1>1, <1>2, DuenioPedido DEF altas, tablas
<1>3. ASSUME NEW i \in DOMAIN patotas, NEW j \in DOMAIN tabla[patotas[i]], NEW p, NEW d, NEW s,
             p = patotas[i], d = tabla[p][j], s = Liberar(seg, d),
             \/ /\ seg' = LiberarPatota(s, p) /\ liberadas' = liberadas \cup {p}
                /\ patotas' = RemoveAt(patotas, i)
             \/ seg' = s /\ UNCHANGED <<liberadas, patotas>>
      PROVE  IndDuenio'
  <2>1. /\ patotas \in Seq(Pids) /\ tabla \in [Pids -> Seq(Tcbs)] /\ seg \in FormaSeg
    BY DEF Inductiva, Formas, FormaTablas, FormaEspacio, FormaSeg
  <2>2. p \in Pids
    BY <1>3, <2>1, SacarToSet
  <2>3. d \in Segmentos
    <3>1. tabla[p] \in Seq(Tcbs) /\ j \in DOMAIN tabla[p]
      BY <1>3, <2>1, <2>2
    <3>2. d \in Tcbs
      BY <1>3, <3>1
    <3> QED BY <3>2, Nombres
  <2>4. s \in FormaSeg /\ s[d].libre /\ SoloCambia(seg, d, s)
    BY ONLY <1>3, <2>1, <2>3, SoltarUno
  <2>5. \A c \in Segmentos : seg[c].libre => s[c].libre
    BY ONLY <2>3, <2>4 DEF SoloCambia
  <2>6. CASE seg' = s /\ UNCHANGED <<liberadas, patotas>>
    BY <1>1, <2>5, <2>6, DuenioPedido DEF altas
  <2>7. CASE /\ seg' = LiberarPatota(s, p) /\ liberadas' = liberadas \cup {p}
             /\ patotas' = RemoveAt(patotas, i)
    <3>1. /\ \A c \in Segmentos : s[c].libre => seg'[c].libre
          /\ seg'[Pcb(p)].libre /\ seg'[Tareas(p)].libre
      BY ONLY <2>2, <2>4, <2>7, LiberaPatota
    <3>2. \A q \in ToSet(patotas) \ ToSet(patotas') : q = p
      <4>1. ASSUME NEW q \in ToSet(patotas), q # p
            PROVE  q \in ToSet(patotas')
        <5>1. PICK k \in DOMAIN patotas : q = patotas[k]
          BY DEF ToSet
        <5> QED BY <1>3, <2>1, <2>7, <4>1, <5>1, SacarDeja
      <4> QED BY <4>1
    <3>3. \A u \in Trips : \A q : Destruye(u, q) => Destruye(u, q)'
      BY <1>1 DEF Destruye
    <3> QED BY <1>1, <2>5, <2>7, <3>1, <3>2, <3>3, DuenioPaso DEF altas
  <2> QED BY <1>3, <2>6, <2>7
<1>4. ASSUME \E i \in DOMAIN patotas : LET p == patotas[i] IN
               \E j \in DOMAIN tabla[p] : LET sin_tcb == Liberar(seg, tabla[p][j]) IN
                 \/ /\ seg' = LiberarPatota(sin_tcb, p)
                    /\ liberadas' = liberadas \cup {p}
                    /\ patotas' = RemoveAt(patotas, i)
                 \/ seg' = sin_tcb /\ UNCHANGED <<liberadas, patotas>>
      PROVE  IndDuenio'
  <2>1. PICK i \in DOMAIN patotas : \E j \in DOMAIN tabla[patotas[i]] :
          \/ /\ seg' = LiberarPatota(Liberar(seg, tabla[patotas[i]][j]), patotas[i])
             /\ liberadas' = liberadas \cup {patotas[i]}
             /\ patotas' = RemoveAt(patotas, i)
          \/ /\ seg' = Liberar(seg, tabla[patotas[i]][j])
             /\ UNCHANGED <<liberadas, patotas>>
    BY <1>4
  <2> QED BY <1>3, <2>1
<1>5. \/ UNCHANGED <<seg, tablas>>
      \/ \E i \in DOMAIN patotas : LET p == patotas[i] IN
           \E j \in DOMAIN tabla[p] : LET sin_tcb == Liberar(seg, tabla[p][j]) IN
             \/ /\ seg' = LiberarPatota(sin_tcb, p)
                /\ liberadas' = liberadas \cup {p}
                /\ patotas' = RemoveAt(patotas, i)
             \/ seg' = sin_tcb /\ UNCHANGED <<liberadas, patotas>>
  BY DEF ExpulsarTripulante
<1> QED BY <1>2, <1>4, <1>5

\* The compaction frees nothing and gives nothing.
LEMMA DuenioCompactar ==
  ASSUME Inductiva, IndDuenio, Compactar
  PROVE  IndDuenio'
<1>1. /\ ini' = [ini EXCEPT !.compacto = ini.fase = "asigna"]
      /\ UNCHANGED <<tablas, aceptadas, obt>>
  BY DEF Compactar
<1>2. ini'.pid = ini.pid
  BY <1>1 DEF Inductiva, EnCurso
<1>3. \A d \in Segmentos : seg[d].libre => seg'[d].libre
  BY CompactarSegmentos DEF Compactado, Inductiva, Formas
<1>4. \A t \in Trips : \A p : Destruye(t, p) => Destruye(t, p)'
  BY <1>1 DEF Destruye
<1> QED BY <1>1, <1>2, <1>3, <1>4, DuenioPaso DEF tablas

\* A request that does not take a patota apart, or nothing that matters, moves.
LEMMA DuenioAvanza ==
  ASSUME Inductiva, IndDuenio, NEW t \in Trips,
         \/ BuscarPatotaConTid(t) \/ CopiarTareas(t) \/ LeerIndice(t) \/ ElegirTarea(t)
         \/ LiberarTripulante(t) \/ QuitarTripulante(t) \/ RevisarPatota(t)
         \/ ActualizarTareaActual(t)
  PROVE  IndDuenio'
<1>1. UNCHANGED <<patotas, liberadas, aceptadas, ini>> /\ obt[t].pc # "destruye"
  BY DEF BuscarPatotaConTid, CopiarTareas, LeerIndice, ElegirTarea, LiberarTripulante,
         QuitarTripulante, RevisarPatota, ActualizarTareaActual, EnObt, espacio, tablas, altas
<1>2. obt \in [Trips -> FormaPedido]
  BY DEF Inductiva, Pedidos
<1>3. \A u \in Trips \ {t} : obt'[u] = obt[u]
  BY <1>2 DEF BuscarPatotaConTid, CopiarTareas, LeerIndice, ElegirTarea, LiberarTripulante,
              QuitarTripulante, RevisarPatota, ActualizarTareaActual
<1>4. \A d \in Segmentos : seg[d].libre => seg'[d].libre
  <2>1. CASE LiberarTripulante(t)
    <3>1. seg' = Liberar(seg, obt[t].tcb) /\ obt[t].pc = "responde"
      BY <2>1 DEF LiberarTripulante, EnObt
    <3>2. obt[t].tcb \in Segmentos /\ seg \in FormaSeg
      BY <3>1, Nombres DEF Inductiva, Pedidos, HalladoEnLaSuya, Formas, FormaEspacio, FormaSeg
    <3>3. seg'[obt[t].tcb].libre /\ SoloCambia(seg, obt[t].tcb, seg')
      BY ONLY <3>1, <3>2, SoltarUno
    <3> QED BY ONLY <3>2, <3>3 DEF SoloCambia
  <2>2. CASE seg' = seg
    BY <2>2
  <2> QED BY <2>1, <2>2 DEF BuscarPatotaConTid, CopiarTareas, LeerIndice, ElegirTarea,
            QuitarTripulante, RevisarPatota, ActualizarTareaActual, espacio
<1> QED BY <1>1, <1>3, <1>4, DuenioPedido

\* At the start everything is free.
LEMMA InicioDuenio ==
  ASSUME Init
  PROVE  IndDuenio
<1>1. \A p \in Pids : Pcb(p) \in Segmentos /\ Tareas(p) \in Segmentos
  BY Nombres
<1>2. \A d \in Segmentos : seg[d].libre
  BY DEF Init
<1> QED BY <1>1, <1>2 DEF Init, IndDuenio, EnMemoria

\* Every step keeps it.
LEMMA PasoDuenio ==
  ASSUME Inductiva, Inductiva', IndDuenio, [Next]_vars
  PROVE  IndDuenio'
<1>1. CASE Alta
  <2>1. CASE RecibirPatota   BY <2>1, DuenioRecibirPatota
  <2>2. CASE AsignarSegmento BY <2>2, DuenioAsignarSegmento
  <2>3. CASE PublicarPatota  BY <2>3, DuenioPublicarPatota
  <2>4. CASE SinSegmento
    <3>1. /\ UNCHANGED <<espacio, tablas, recibidas, aceptadas, obt>>
          /\ ini' = ini \/ ini' = [ini EXCEPT !.fase = "no_deberia_pasar"]
      BY <2>4 DEF SinSegmento
    <3>2. ini' # [ini EXCEPT !.fase = "no_deberia_pasar"]
      BY DEF Inductiva, EnCurso
    <3> QED BY <3>1, <3>2, DuenioPedido DEF tablas, espacio
  <2> QED BY <1>1, <2>1, <2>2, <2>3, <2>4 DEF Alta
<1>2. CASE UNCHANGED <<espacio, altas, tablas, obt>>
  BY <1>2, DuenioPedido DEF espacio, altas, tablas
<1>3. CASE SenialCompactar
  BY <1>2, <1>3 DEF SenialCompactar
<1>4. CASE Compactacion
  <2>1. CASE BloquearSegmentos BY <1>2, <2>1 DEF BloquearSegmentos
  <2>2. CASE Compactar         BY <2>2, DuenioCompactar
  <2> QED BY <1>4, <2>1, <2>2 DEF Compactacion
<1>5. CASE EscribirUbicacion
  BY <1>2, <1>5 DEF EscribirUbicacion
<1>6. ASSUME NEW t \in Trips,
             BuscarParaUbicar(t) \/ BuscarPatotaConTid(t) \/ Obtener(t) \/ ExpulsarTripulante(t)
      PROVE  IndDuenio'
  <2>1. CASE BuscarParaUbicar(t)   BY <1>2, <2>1 DEF BuscarParaUbicar
  <2>2. CASE ExpulsarTripulante(t) BY <2>2, DuenioExpulsarTripulante
  <2>3. CASE BorrarPatota(t)       BY <2>3, DuenioBorrarPatota
  <2>4. CASE DestruirPatota(t)     BY <2>4, DuenioDestruirPatota
  <2>5. CASE UsarTablaLiberada(t)  BY <1>2, <2>5 DEF UsarTablaLiberada
  <2> QED BY <1>6, <2>1, <2>2, <2>3, <2>4, <2>5, DuenioAvanza DEF Obtener
<1>7. CASE UNCHANGED vars
  BY <1>2, <1>7 DEF vars
<1>8. CASE Next
  BY <1>1, <1>3, <1>4, <1>5, <1>6, <1>8 DEF Next
<1> QED BY <1>7, <1>8

\* For patotas of any number of crews: the PCB and the tasks of a patota are freed by whoever
\* takes it off the list, though several crews find the table empty at once, others are
\* expelled, and a crew goes on with the table of another patota.
THEOREM PatotaTieneDuenio == Spec => []PatotaConDuenio
<1>1. Init => IndDuenio
  BY InicioDuenio
<1>2. Inductiva /\ Inductiva' /\ IndDuenio /\ [Next]_vars => IndDuenio'
  BY PasoDuenio
<1>3. Inductiva /\ IndDuenio => PatotaConDuenio
  BY DelDuenio
<1> QED BY <1>1, <1>2, <1>3, SiempreInductiva, PTL DEF Spec

-----------------------------------------------------------------------------
(* Tasks in order, in patotas of any number of crews.                        *)

\* While nobody has been let go at the end of its tasks.
SinSalidas == \A t \in Trips : ~HaSalido(t)

\* The next task that the places of a TCB hold.
Cuenta(d, n) == \A a \in Lugares(d) : memoria[a].tarea = n

EnTabla(t) == Tcb(t) \in ToSet(tabla[t[1]])

\* The tables have the TCBs in use, each once in its patota's, and each counts the answers
\* its crew has had.
TablasVivas ==
  /\ \A p \in Pids : IsInjective(tabla[p]) /\ \A d \in ToSet(tabla[p]) : ~seg[d].libre
  /\ \A t \in Trips : ~seg[Tcb(t)].libre => EnTabla(t) /\ Cuenta(Tcb(t), respuestas[t])

\* A request goes on with its crew's patota and the tasks of that one.
PedidoPropio(t) ==
  /\ obt[t].pc \notin {"libre", "fallo"} => obt[t].pat = t[1]
  /\ obt[t].pc \in {"indice", "responde", "avanza"} => obt[t].leidas = Patotas[t[1]].tareas

PedidoAlDia(t) ==
  /\ obt[t].pc # "fallo"
  /\ obt[t].pc \in {"responde", "avanza"} => obt[t].tarea = respuestas[t]

\* A crew that has not been expelled is in its table, and is answered with its next task.
AlDia(t) ==
  /\ PedidoAlDia(t)
  /\ t[1] \in aceptadas => t[1] \in ToSet(patotas) /\ EnTabla(t)

Tranquilo ==
  /\ TablasVivas
  /\ \A t \in Trips : PedidoPropio(t)
  /\ \A t \in Trips \ expulsados : AlDia(t)

UltimaCuenta(t) == obt[t].tarea = respuestas[t] /\ obt[t].leidas = Patotas[t[1]].tareas

\* The first crew to be let go had been answered with all its tasks.
UnicaSalida ==
  \A t \in Trips \ expulsados :
    HaSalido(t) /\ (\A u \in Trips \ {t} : ~HaSalido(u)) => UltimaCuenta(t)

\* Who leaves its table has no task left.
SinTareas(t) == obt[t].pc \in {"quita", "revisa"} => obt[t].tarea >= obt[t].leidas

IndTareas ==
  /\ respuestas \in [Trips -> Nat] /\ \A t \in Trips : t[1] \notin aceptadas => respuestas[t] = 0
  /\ \A t \in Trips : SinTareas(t)
  /\ SinSalidas => Tranquilo
  /\ UnicaSalida

\* Each crew has a TCB of its own.
LEMMA TcbPropio ==
  /\ \A t \in Trips : /\ Tcb(t) \in Segmentos /\ Tcb(t) \in Tcbs /\ Tcb(t)[2] = t[1]
                       /\ t[1] \in Pids /\ Tam(Tcb(t)) = tam_tcb
  /\ \A t, u \in Trips : Tcb(t) = Tcb(u) => t = u
  /\ \A t \in Trips : \A p \in Pids : Tcb(t) # Pcb(p) /\ Tcb(t) # Tareas(p)
<1>1. \A t, u \in Trips : Tcb(t) = Tcb(u) => t = u
  <2>1. ASSUME NEW t \in Trips, NEW u \in Trips, Tcb(t) = Tcb(u)
        PROVE  t = u
    <3>1. t[1] = u[1] /\ t[2] = u[2]
      BY <2>1 DEF Tcb
    <3>2. t = <<t[1], t[2]>> /\ u = <<u[1], u[2]>>
      BY Pedidas
    <3> QED BY <3>1, <3>2
  <2> QED BY <2>1
<1> QED BY <1>1, Nombres, Pedidas, Tamanios

\* While the tables are so, who is found in one is the crew whose TCB is there.
LEMMA Encuentra ==
  ASSUME Inductiva, TablasVivas, NEW t \in Trips, NEW p \in Pids
  PROVE  /\ \A j \in DOMAIN tabla[p] : Coincide(t, p, j) <=> tabla[p][j] = Tcb(t)
         /\ \A j \in DOMAIN tabla[p] : Coincide(t, p, j) => p = t[1]
         /\ EnTabla(t) => EnAlguna(t, t[1])
<1>1. ASSUME NEW q \in Pids, NEW j \in DOMAIN tabla[q]
      PROVE  /\ Coincide(t, q, j) <=> tabla[q][j] = Tcb(t)
             /\ Coincide(t, q, j) => q = t[1]
  <2>1. PICK d : d = tabla[q][j]
    OBVIOUS
  <2>2. d \in Tcbs /\ d \in ToSet(tabla[q])
    <3>1. tabla[q] \in Seq(Tcbs)
      BY DEF Inductiva, Formas, FormaTablas
    <3> QED BY <2>1, <3>1, SacarToSet
  <2>3. d \in Segmentos /\ ~seg[d].libre /\ d[2] = q /\ Guarda(d)
    BY <2>2, Nombres DEF TablasVivas, Inductiva, EnSuLugar
  <2>4. Leer(d).de = d
    BY <2>3, LeidoPropio DEF Inductiva, Formas
  <2> QED BY <2>1, <2>3, <2>4, TcbPropio DEF Coincide
<1>2. ASSUME EnTabla(t)
      PROVE  EnAlguna(t, t[1])
  <2>1. PICK j \in DOMAIN tabla[t[1]] : tabla[t[1]][j] = Tcb(t)
    BY <1>2 DEF EnTabla, ToSet
  <2> QED BY <1>1, <2>1, TcbPropio DEF EnAlguna
<1> QED BY <1>1, <1>2

\* A step in which no request moves and nobody is answered.
LEMMA TareasMuda ==
  ASSUME IndTareas, UNCHANGED <<obt, respuestas>>, aceptadas \subseteq aceptadas',
         expulsados \subseteq expulsados', Tranquilo => Tranquilo'
  PROVE  IndTareas'
<1>1. \A t : HaSalido(t)' <=> HaSalido(t)
  BY DEF HaSalido
<1>2. (SinSalidas => Tranquilo)'
  BY <1>1 DEF IndTareas, SinSalidas
<1>3. UnicaSalida'
  BY <1>1 DEF IndTareas, UnicaSalida, UltimaCuenta
<1> QED BY <1>2, <1>3 DEF IndTareas, SinTareas

\* Who is in a table after it was, and whose TCB is copied or new.
LEMMA TranquiloMuda ==
  ASSUME Tranquilo, UNCHANGED <<obt, respuestas>>, expulsados \subseteq expulsados',
         \A p \in Pids : IsInjective(tabla'[p]) /\ \A d \in ToSet(tabla'[p]) : ~seg'[d].libre,
         \A t \in Trips : ~seg'[Tcb(t)].libre =>
           /\ EnTabla(t)'
           /\ \/ ~seg[Tcb(t)].libre /\ Copiado(Tcb(t))
              \/ respuestas[t] = 0 /\ Cuenta(Tcb(t), 0)',
         \A t \in Trips \ expulsados' :
           t[1] \in aceptadas' => t[1] \in ToSet(patotas') /\ EnTabla(t)'
  PROVE  Tranquilo'
<1>1. ASSUME NEW t \in Trips, ~seg'[Tcb(t)].libre
      PROVE  EnTabla(t)' /\ Cuenta(Tcb(t), respuestas[t])'
  <2>1. CASE ~seg[Tcb(t)].libre /\ Copiado(Tcb(t))
    <3>1. PICK n : n = respuestas[t]
      OBVIOUS
    <3>2. Cuenta(Tcb(t), n)
      BY <2>1, <3>1 DEF Tranquilo, TablasVivas
    <3>3. \A a \in Lugares(Tcb(t))' : memoria'[a].tarea = n
      BY <2>1, <3>2 DEF Copiado, Cuenta
    <3>4. respuestas'[t] = n
      BY <3>1
    <3> QED BY <1>1, <3>3, <3>4 DEF Cuenta
  <2>2. CASE respuestas[t] = 0 /\ Cuenta(Tcb(t), 0)'
    BY <1>1, <2>2 DEF Cuenta
  <2> QED BY <1>1, <2>1, <2>2
<1>2. TablasVivas'
  BY <1>1 DEF TablasVivas
<1>3. \A t \in Trips : PedidoPropio(t)'
  BY DEF Tranquilo, PedidoPropio
<1>4. \A t \in Trips \ expulsados' : AlDia(t)'
  BY DEF Tranquilo, AlDia, PedidoAlDia
<1> QED BY <1>2, <1>3, <1>4 DEF Tranquilo

\* One request moves on: a crew let go stays so, with the tasks it had been answered with.
LEMMA TareasUno ==
  ASSUME IndTareas, aceptadas' = aceptadas, expulsados' = expulsados, NEW t \in Trips,
         \A u \in Trips \ {t} : obt'[u] = obt[u] /\ respuestas'[u] = respuestas[u],
         respuestas' \in [Trips -> Nat], t[1] \in aceptadas, SinTareas(t)',
         HaSalido(t) => HaSalido(t)' /\ (UltimaCuenta(t) => UltimaCuenta(t)'),
         SinSalidas /\ Tranquilo =>
           /\ ~HaSalido(t)' => Tranquilo'
           /\ HaSalido(t)' /\ t \notin expulsados => UltimaCuenta(t)'
  PROVE  IndTareas'
<1>1. \A u \in Trips \ {t} : /\ HaSalido(u)' <=> HaSalido(u)
                             /\ UltimaCuenta(u)' <=> UltimaCuenta(u)
                             /\ SinTareas(u)' <=> SinTareas(u)
  BY DEF HaSalido, UltimaCuenta, SinTareas
<1>2. /\ \A u \in Trips : u[1] \notin aceptadas' => respuestas'[u] = 0
      /\ \A u \in Trips : SinTareas(u)'
  BY <1>1 DEF IndTareas
<1>3. SinSalidas' => SinSalidas /\ ~HaSalido(t)'
  BY <1>1 DEF SinSalidas
<1>4. (SinSalidas => Tranquilo)'
  BY <1>3 DEF IndTareas
<1>5. ASSUME NEW v \in Trips \ expulsados, HaSalido(v)',
             \A u \in Trips \ {v} : ~HaSalido(u)'
      PROVE  UltimaCuenta(v)'
  <2>1. CASE SinSalidas
    <3>1. v = t
      BY <1>1, <1>5, <2>1 DEF SinSalidas
    <3> QED BY <1>5, <2>1, <3>1 DEF IndTareas
  <2>2. CASE ~SinSalidas
    <3>1. \A u \in Trips \ {v} : ~HaSalido(u)
      BY <1>1, <1>5
    <3>2. HaSalido(v)
      BY <2>2, <3>1 DEF SinSalidas
    <3>3. UltimaCuenta(v)
      BY <3>1, <3>2 DEF IndTareas, UnicaSalida
    <3> QED BY <1>1, <3>2, <3>3
  <2> QED BY <2>1, <2>2
<1>6. UnicaSalida'
  BY <1>5 DEF UnicaSalida
<1> QED BY <1>2, <1>4, <1>6 DEF IndTareas

\* It reads only, for a crew that has not been let go.
LEMMA TareasPedido ==
  ASSUME Inductiva, IndTareas,
         UNCHANGED <<seg, memoria, patotas, tabla, aceptadas, respuestas, expulsados>>,
         NEW t \in Trips, t[1] \in aceptadas, NEW r, obt' = [obt EXCEPT ![t] = r],
         ~HaSalido(t), r.pc \notin {"quita", "revisa"},
         SinSalidas /\ Tranquilo =>
           /\ PedidoPropio(t)' /\ (t \notin expulsados => PedidoAlDia(t)')
           /\ ~HaSalido(t)'
  PROVE  IndTareas'
<1>1. obt'[t] = r /\ \A u \in Trips \ {t} : obt'[u] = obt[u]
  BY DEF Inductiva, Pedidos
<1>2. \A d, n : Cuenta(d, n) => Cuenta(d, n)'
  BY DEF Cuenta, Lugares
<1>3. TablasVivas => TablasVivas'
  BY <1>2 DEF TablasVivas, EnTabla
<1>4. \A u \in Trips \ {t} : PedidoPropio(u) => PedidoPropio(u)'
  BY <1>1 DEF PedidoPropio
<1>5. \A u \in Trips : AlDia(u) /\ PedidoAlDia(u)' => AlDia(u)'
  BY DEF AlDia, EnTabla
<1>6. \A u \in Trips \ {t} : AlDia(u) => PedidoAlDia(u)'
  BY <1>1 DEF AlDia, PedidoAlDia
<1>7. SinSalidas /\ Tranquilo => Tranquilo'
  BY <1>3, <1>4, <1>5, <1>6 DEF Tranquilo
<1>8. SinTareas(t)' /\ respuestas' \in [Trips -> Nat]
  BY <1>1 DEF SinTareas, IndTareas
<1> QED BY <1>1, <1>7, <1>8, TareasUno

\* A crew asks for a task: the table it finds is its own.
LEMMA TareasBuscar ==
  ASSUME Inductiva, IndTareas, NEW t \in Trips, BuscarPatotaConTid(t)
  PROVE  IndTareas'
<1>1. /\ UNCHANGED <<seg, memoria, patotas, tabla, aceptadas, respuestas, expulsados>>
      /\ obt[t].pc = "libre" /\ t[1] \in aceptadas
  BY DEF BuscarPatotaConTid, EnObt, espacio, tablas, altas
<1>2. obt \in [Trips -> FormaPedido] /\ ~HaSalido(t)
  BY <1>1 DEF Inductiva, Pedidos, HaSalido, Saliendo
<1>3. CASE Desconocido(t) /\ obt' = [obt EXCEPT ![t].pc = "fallo"]
  <2>1. PICK r : r = [obt[t] EXCEPT !.pc = "fallo"]
    OBVIOUS
  <2>2. obt' = [obt EXCEPT ![t] = r] /\ r.pc = "fallo" /\ obt'[t] = r
    BY ONLY <1>2, <1>3, <2>1, t \in Trips DEF FormaPedido
  <2>3. ASSUME Tranquilo, t \notin expulsados
        PROVE  FALSE
    <3>1. t[1] \in ToSet(patotas) /\ EnTabla(t) /\ t[1] \in Pids
      BY <1>1, <2>3, Pedidas DEF Tranquilo, AlDia
    <3>2. EnAlguna(t, t[1])
      BY <2>3, <3>1, Encuentra DEF Tranquilo
    <3>3. PICK i \in DOMAIN patotas : patotas[i] = t[1]
      BY <3>1 DEF ToSet
    <3> QED BY <1>3, <3>2, <3>3 DEF Desconocido, Falta
  <2>4. PedidoPropio(t)' /\ ~HaSalido(t)'
    BY <2>2 DEF PedidoPropio, HaSalido, Saliendo
  <2> QED BY <1>1, <1>2, <2>2, <2>3, <2>4, TareasPedido
<1>4. ASSUME NEW i \in DOMAIN patotas, NEW j \in DOMAIN tabla[patotas[i]], Encontrado(t, i, j),
             obt' = [obt EXCEPT ![t].pc = "copia", ![t].pat = patotas[i]]
      PROVE  IndTareas'
  <2>1. PICK p \in Pids : p = patotas[i]
    BY SacarToSet DEF Inductiva, Formas, FormaTablas
  <2>2. PICK r : r = [obt[t] EXCEPT !.pc = "copia", !.pat = p]
    OBVIOUS
  <2>3. obt' = [obt EXCEPT ![t] = r] /\ r.pc = "copia" /\ r.pat = p /\ obt'[t] = r
    BY ONLY <1>2, <1>4, <2>1, <2>2, t \in Trips DEF FormaPedido
  <2>4. Tranquilo => p = t[1]
    <3>1. j \in DOMAIN tabla[p] /\ Coincide(t, p, j)
      BY <1>4, <2>1 DEF Encontrado, PrimeroEnTabla
    <3> QED BY <3>1, Encuentra DEF Tranquilo
  <2>5. /\ Tranquilo => PedidoPropio(t)' /\ PedidoAlDia(t)'
        /\ ~HaSalido(t)'
    BY <2>3, <2>4 DEF PedidoPropio, PedidoAlDia, HaSalido, Saliendo
  <2> QED BY <1>1, <1>2, <2>3, <2>5, TareasPedido
<1> QED BY <1>3, <1>4 DEF BuscarPatotaConTid

\* The tasks copied are its patota's.
LEMMA TareasCopiar ==
  ASSUME Inductiva, IndTareas, NEW t \in Trips, CopiarTareas(t)
  PROVE  IndTareas'
<1>1. /\ UNCHANGED <<seg, memoria, patotas, tabla, aceptadas, respuestas, expulsados>>
      /\ obt[t].pc = "copia" /\ obt[t].pat \notin liberadas
  BY DEF CopiarTareas, EnObt, TablaViva, espacio, tablas, altas
<1>2. /\ obt \in [Trips -> FormaPedido] /\ t[1] \in aceptadas /\ t[1] \in Pids
      /\ obt[t].pat \in aceptadas
  BY <1>1, PedidoEnPatota, Pedidas
<1>3. PICK n : /\ obt' = [obt EXCEPT ![t].pc = "indice", ![t].leidas = n]
               /\ n = LET texto == Leer(Tareas(obt[t].pat)).de
                      IN IF texto[1] = "tareas" THEN Patotas[texto[2]].tareas ELSE 0
  BY DEF CopiarTareas
<1>4. PICK r : r = [obt[t] EXCEPT !.pc = "indice", !.leidas = n]
  OBVIOUS
<1>5. /\ obt' = [obt EXCEPT ![t] = r] /\ r.pc = "indice" /\ r.leidas = n
      /\ r.pat = obt[t].pat /\ obt'[t] = r
  BY ONLY <1>2, <1>3, <1>4, t \in Trips DEF FormaPedido
<1>6. ASSUME Tranquilo
      PROVE  PedidoPropio(t)' /\ PedidoAlDia(t)'
  <2>1. obt[t].pat = t[1] /\ t[1] \in Vigentes
    BY <1>1, <1>2, <1>6 DEF Tranquilo, PedidoPropio, Vigentes
  <2>2. Tareas(t[1]) \in Segmentos /\ ~seg[Tareas(t[1])].libre /\ Guarda(Tareas(t[1]))
    BY <1>2, <2>1, Nombres DEF Inductiva, EnSuLugar
  <2>3. Leer(Tareas(t[1])).de = Tareas(t[1])
    BY <2>2, LeidoPropio DEF Inductiva, Formas
  <2>4. n = Patotas[t[1]].tareas
    <3>1. Tareas(t[1])[1] = "tareas" /\ Tareas(t[1])[2] = t[1]
      BY DEF Tareas
    <3> QED BY <1>3, <2>1, <2>3, <3>1
  <2> QED BY <1>5, <2>1, <2>4 DEF PedidoPropio, PedidoAlDia
<1>7. ~HaSalido(t) /\ ~HaSalido(t)'
  BY <1>1, <1>5 DEF HaSalido, Saliendo
<1> QED BY <1>1, <1>2, <1>5, <1>6, <1>7, TareasPedido

\* The next task is read from its TCB, wherever in the table that is by now.
LEMMA TareasLeer ==
  ASSUME Inductiva, IndTareas, NEW t \in Trips, LeerIndice(t)
  PROVE  IndTareas'
<1>1. /\ UNCHANGED <<seg, memoria, patotas, tabla, aceptadas, respuestas, expulsados>>
      /\ obt[t].pc = "indice"
  BY DEF LeerIndice, EnObt, espacio, tablas, altas
<1>2. /\ obt \in [Trips -> FormaPedido] /\ t[1] \in aceptadas /\ t[1] \in Pids
      /\ obt[t].pat \in Pids
  BY <1>1, PedidoEnPatota, Pedidas
<1>3. ~HaSalido(t)
  BY <1>1 DEF HaSalido, Saliendo
<1>4. Tranquilo => obt[t].pat = t[1] /\ obt[t].leidas = Patotas[t[1]].tareas
  BY <1>1 DEF Tranquilo, PedidoPropio
<1>5. ASSUME NEW j, PrimeroEnTabla(t, obt[t].pat, j),
             obt' = [obt EXCEPT ![t].pc = "responde", ![t].indice = j,
                                ![t].tcb = tabla[obt[t].pat][j],
                                ![t].tarea = Leer(tabla[obt[t].pat][j]).tarea]
      PROVE  IndTareas'
  <2>1. PICK d, n : d = tabla[obt[t].pat][j] /\ n = Leer(d).tarea
    OBVIOUS
  <2>2. PICK r : r = [obt[t] EXCEPT !.pc = "responde", !.indice = j, !.tcb = d, !.tarea = n]
    OBVIOUS
  <2>3. obt' = [obt EXCEPT ![t].pc = "responde", ![t].indice = j, ![t].tcb = d, ![t].tarea = n]
    BY <1>5, <2>1
  <2>4. /\ obt' = [obt EXCEPT ![t] = r] /\ r.pc = "responde" /\ r.tarea = n
        /\ r.leidas = obt[t].leidas /\ r.pat = obt[t].pat /\ obt'[t] = r
    BY ONLY <1>2, <2>2, <2>3, t \in Trips DEF FormaPedido
  <2>5. ASSUME Tranquilo
        PROVE  n = respuestas[t]
    <3>1. j \in DOMAIN tabla[obt[t].pat] /\ Coincide(t, obt[t].pat, j)
      BY <1>5 DEF PrimeroEnTabla
    <3>2. d = Tcb(t) /\ d \in ToSet(tabla[obt[t].pat])
      BY <1>2, <2>1, <2>5, <3>1, Encuentra DEF Tranquilo, ToSet
    <3>3. ~seg[Tcb(t)].libre /\ Tcb(t) \in Segmentos
      BY <1>2, <2>5, <3>2, TcbPropio DEF Tranquilo, TablasVivas
    <3>4. Leer(Tcb(t)) = memoria[seg[Tcb(t)].inicio] /\ seg[Tcb(t)].inicio \in Lugares(Tcb(t))
      BY <3>3, LeidoPropio DEF Inductiva, Formas
    <3>5. Cuenta(Tcb(t), respuestas[t])
      BY <2>5, <3>3 DEF Tranquilo, TablasVivas
    <3> QED BY <2>1, <3>2, <3>4, <3>5 DEF Cuenta
  <2>6. /\ Tranquilo => PedidoPropio(t)' /\ PedidoAlDia(t)'
        /\ ~HaSalido(t)'
    BY <1>1, <1>4, <2>4, <2>5 DEF PedidoPropio, PedidoAlDia, HaSalido, Saliendo
  <2> QED BY <1>1, <1>2, <1>3, <2>4, <2>6, TareasPedido
<1>6. CASE Falta(t, obt[t].pat) /\ obt' = [obt EXCEPT ![t].pc = "avanza", ![t].tarea = 0]
  <2>1. PICK r : r = [obt[t] EXCEPT !.pc = "avanza", !.tarea = 0]
    OBVIOUS
  <2>2. /\ obt' = [obt EXCEPT ![t] = r] /\ r.pc = "avanza" /\ r.tarea = 0
        /\ r.leidas = obt[t].leidas /\ r.pat = obt[t].pat /\ obt'[t] = r
    BY ONLY <1>2, <1>6, <2>1, t \in Trips DEF FormaPedido
  <2>3. ASSUME Tranquilo, t \notin expulsados
        PROVE  FALSE
    <3>1. EnTabla(t)
      BY <1>2, <2>3 DEF Tranquilo, AlDia
    <3> QED BY <1>2, <1>4, <1>6, <2>3, <3>1, Encuentra DEF Tranquilo, Falta
  <2>4. ASSUME Tranquilo
        PROVE  PedidoPropio(t)' /\ ~HaSalido(t)'
    <3>1. r.leidas \in Nat \ {0} /\ r.leidas = Patotas[t[1]].tareas /\ r.pat = t[1]
      BY <1>2, <1>4, <2>2, <2>4, Pedidas
    <3>2. ~(r.tarea >= r.leidas)
      BY <2>2, <3>1
    <3> QED BY <2>2, <3>1, <3>2 DEF PedidoPropio, HaSalido, Saliendo
  <2> QED BY <1>1, <1>2, <1>3, <2>2, <2>3, <2>4, TareasPedido
<1> QED BY <1>5, <1>6 DEF LeerIndice

\* There is a task.
LEMMA TareasElegir ==
  ASSUME Inductiva, IndTareas, NEW t \in Trips, ElegirTarea(t)
  PROVE  IndTareas'
<1>1. /\ UNCHANGED <<seg, memoria, patotas, tabla, aceptadas, respuestas, expulsados>>
      /\ obt[t].pc = "responde" /\ obt[t].tarea < obt[t].leidas
      /\ obt' = [obt EXCEPT ![t].pc = "avanza"]
  BY DEF ElegirTarea, EnObt, espacio, tablas, altas
<1>2. obt \in [Trips -> FormaPedido] /\ t[1] \in aceptadas
  BY <1>1, PedidoEnPatota
<1>3. PICK r : r = [obt[t] EXCEPT !.pc = "avanza"]
  OBVIOUS
<1>4. /\ obt' = [obt EXCEPT ![t] = r] /\ r.pc = "avanza" /\ r.tarea = obt[t].tarea
      /\ r.leidas = obt[t].leidas /\ r.pat = obt[t].pat /\ obt'[t] = r
      /\ r.tarea \in Nat /\ r.leidas \in Nat
  BY ONLY <1>1, <1>2, <1>3, t \in Trips DEF FormaPedido
<1>5. ~HaSalido(t) /\ ~HaSalido(t)'
  BY <1>1, <1>4 DEF HaSalido, Saliendo
<1>6. Tranquilo => PedidoPropio(t)' /\ (t \notin expulsados => PedidoAlDia(t)')
  BY <1>1, <1>4 DEF Tranquilo, AlDia, PedidoAlDia, PedidoPropio
<1> QED BY <1>1, <1>2, <1>4, <1>5, <1>6, TareasPedido

\* A crew that is let go had been answered with all its tasks, and goes on leaving.
LEMMA TareasSalir ==
  ASSUME Inductiva, IndTareas, NEW t \in Trips,
         \/ LiberarTripulante(t) \/ QuitarTripulante(t) \/ RevisarPatota(t)
         \/ BorrarPatota(t) \/ DestruirPatota(t)
  PROVE  IndTareas'
<1>1. /\ aceptadas' = aceptadas /\ respuestas' = respuestas /\ expulsados' = expulsados
      /\ obt[t].pc \in Saliendo \cup {"responde"}
  BY DEF LiberarTripulante, QuitarTripulante, RevisarPatota, BorrarPatota, DestruirPatota,
         EnObt, Saliendo, altas
<1>2. obt \in [Trips -> FormaPedido] /\ t[1] \in aceptadas
  BY <1>1, PedidoEnPatota DEF Saliendo
<1>3. PICK c : /\ obt' = [obt EXCEPT ![t].pc = c]
               /\ c \in Saliendo \cup {"fin", "avanza"}
               /\ c \in {"quita", "revisa", "avanza"} => obt[t].tarea >= obt[t].leidas
  <2>1. SinTareas(t)
    BY DEF IndTareas
  <2>2. CASE LiberarTripulante(t)
    BY <2>2 DEF LiberarTripulante, EnObt, Saliendo
  <2>3. CASE QuitarTripulante(t)
    <3>1. obt[t].pc = "quita" /\ obt' = [obt EXCEPT ![t].pc = "revisa"]
      BY <2>3 DEF QuitarTripulante, EnObt
    <3>2. obt[t].tarea >= obt[t].leidas /\ "revisa" \in Saliendo
      BY <2>1, <3>1 DEF SinTareas, Saliendo
    <3> QED BY ONLY <3>1, <3>2
  <2>4. CASE RevisarPatota(t)
    <3>1. obt[t].pc = "revisa" /\ \E c \in {"borra", "avanza"} : obt' = [obt EXCEPT ![t].pc = c]
      BY <2>4 DEF RevisarPatota, EnObt
    <3> QED BY <2>1, <3>1 DEF SinTareas, Saliendo
  <2>5. CASE BorrarPatota(t)
    <3>1. obt' = [obt EXCEPT ![t].pc = "destruye"]
      BY <2>5 DEF BorrarPatota
    <3>2. "destruye" \in Saliendo /\ "destruye" \notin {"quita", "revisa", "avanza"}
      BY DEF Saliendo
    <3> QED BY ONLY <3>1, <3>2
  <2>6. CASE DestruirPatota(t)
    <3>1. obt' = [obt EXCEPT ![t].pc = "fin"]
      BY <2>6 DEF DestruirPatota
    <3>2. "fin" \notin {"quita", "revisa", "avanza"}
      OBVIOUS
    <3> QED BY ONLY <3>1, <3>2
  <2> QED BY <2>2, <2>3, <2>4, <2>5, <2>6
<1>4. /\ obt'[t].pc = c /\ obt'[t].tarea = obt[t].tarea /\ obt'[t].leidas = obt[t].leidas
      /\ \A u \in Trips \ {t} : obt'[u] = obt[u]
  BY <1>2, <1>3 DEF FormaPedido
<1>5. HaSalido(t)' /\ SinTareas(t)'
  BY <1>3, <1>4 DEF HaSalido, SinTareas, Saliendo
<1>6. UltimaCuenta(t) => UltimaCuenta(t)'
  BY <1>1, <1>4 DEF UltimaCuenta
<1>7. SinSalidas /\ Tranquilo /\ t \notin expulsados => UltimaCuenta(t)
  <2>1. SinSalidas => obt[t].pc = "responde"
    BY <1>1 DEF SinSalidas, HaSalido, Saliendo
  <2> QED BY <2>1 DEF Tranquilo, AlDia, PedidoAlDia, PedidoPropio, UltimaCuenta
<1>8. respuestas' \in [Trips -> Nat]
  BY <1>1 DEF IndTareas
<1> QED BY <1>1, <1>2, <1>4, <1>5, <1>6, <1>7, <1>8, TareasUno

\* A segment is given: a new TCB is its crew's, who has had no answer yet.
LEMMA TareasAsignarSegmento ==
  ASSUME Inductiva, IndTareas, AsignarSegmento
  PROVE  IndTareas'
<1>1. PICK d, q : d = Head(ini.faltan) /\ q = ini.pid
  OBVIOUS
<1>2. /\ ini.fase = "asigna" /\ ini.faltan # <<>>
      /\ UNCHANGED <<patotas, aceptadas, obt, respuestas, expulsados>>
  BY DEF AsignarSegmento, EnAlta
<1>3. PICK i \in DOMAIN segmentos :
        /\ Elegido(i, Tam(d)) /\ Ocupar(i, d)
        /\ IF d \in Tcbs
           THEN /\ memoria' = Cargar(memoria, seg'[d].inicio, Tam(d), [de |-> d, tarea |-> 0])
                /\ tabla' = [tabla EXCEPT ![q] = Append(@, d)]
           ELSE UNCHANGED <<memoria, tabla>>
  BY <1>1 DEF AsignarSegmento
<1>4. /\ ini.faltan \in Seq(Segmentos) /\ IsInjective(ini.faltan)
      /\ q \in Pids \ aceptadas /\ ToSet(ini.faltan) \cap EnLista = {}
      /\ ToSet(ini.faltan) \subseteq FilaPatota(q)
  BY <1>1, <1>2 DEF EnCurso, Inductiva
<1>5. d \in ToSet(ini.faltan)
  BY <1>1, <1>2, <1>4, CabezaYCola
<1>6. d \in Segmentos /\ d # Hueco /\ d \notin EnLista /\ d[2] = q /\ q \in Pids
  BY <1>1, <1>4, <1>5, FilaPropia
<1>7. Cabida(i, d)
  BY <1>3, <1>6, Numeros, Tamanios DEF Elegido, Entra, Cabida, Inductiva, Formas
<1>8. PICK h : h = segmentos[i]
  OBVIOUS
<1>9. Reparte(h, d) /\ h \in Segmentos
  BY <1>3, <1>7, <1>8, OcuparReparte DEF Inductiva, Formas
<1>10. \A c \in Segmentos \ {d} : ~seg[c].libre => ~seg'[c].libre
  <2>1. seg[h].libre
    BY <1>7, <1>8 DEF Cabida
  <2> QED BY ONLY <1>9, <2>1 DEF Reparte
<1>11. /\ \A c \in Segmentos \ {d} : ~seg'[c].libre => ~seg[c].libre
       /\ ~seg'[d].libre
  BY ONLY <1>9 DEF Reparte
<1>12. /\ \A c \in EnLista : ~seg[c].libre => Copiado(c)
       /\ d \in Tcbs => \A a \in Lugares(d)' : memoria'[a] = [de |-> d, tarea |-> 0]
  BY <1>3, <1>7, OcuparContenido DEF Inductiva, Formas
<1>13. \A c \in Segmentos : ~seg[c].libre => c \in EnLista
  BY DEF Inductiva, Reparto
<1>14. tabla \in [Pids -> Seq(Tcbs)] /\ \A p \in Pids : ToSet(tabla[p]) \subseteq Tcbs
  BY ElementosFinitos DEF Inductiva, Formas, FormaTablas
<1>15. /\ \A p \in Pids \ {q} : tabla'[p] = tabla[p]
       /\ d \notin Tcbs => tabla'[q] = tabla[q]
       /\ d \in Tcbs => tabla'[q] = Append(tabla[q], d)
  BY ONLY <1>3, <1>6, <1>14
<1>16. \A s : ToSet(s) = Range(s)
  BY DEF ToSet, Range
<1>17. ASSUME TablasVivas
       PROVE  /\ \A p \in Pids : d \notin ToSet(tabla[p])
              /\ IsInjective(tabla'[q])
              /\ ToSet(tabla'[q]) = ToSet(tabla[q]) \cup (IF d \in Tcbs THEN {d} ELSE {})
  <2>1. \A p \in Pids : d \notin ToSet(tabla[p])
    BY <1>6, <1>13, <1>17 DEF TablasVivas
  <2>2. IsInjective(tabla[q]) /\ tabla[q] \in Seq(Tcbs)
    BY <1>6, <1>14, <1>17 DEF TablasVivas
  <2>3. CASE d \in Tcbs
    <3>1. /\ Range(Append(tabla[q], d)) = Range(tabla[q]) \cup {d}
          /\ IsInjective(Append(tabla[q], d))
      BY <1>6, <1>16, <2>1, <2>2, <2>3, AgregarSeq
    <3> QED BY <1>15, <1>16, <2>1, <2>3, <3>1
  <2>4. CASE d \notin Tcbs
    BY <1>15, <2>1, <2>2, <2>4
  <2> QED BY <2>3, <2>4
<1>18. ASSUME TablasVivas, NEW p \in Pids
       PROVE  IsInjective(tabla'[p]) /\ \A c \in ToSet(tabla'[p]) : ~seg'[c].libre
  <2>1. IsInjective(tabla'[p])
    BY <1>15, <1>17, <1>18 DEF TablasVivas
  <2>2. ASSUME NEW c \in ToSet(tabla'[p]), c # d
        PROVE  ~seg'[c].libre
    <3>1. c \in ToSet(tabla[p])
      BY <1>15, <1>17, <1>18, <2>2
    <3>2. c \in Segmentos /\ ~seg[c].libre
      BY <1>14, <1>18, <3>1, Nombres DEF TablasVivas
    <3> QED BY <1>10, <2>2, <3>2
  <2> QED BY <1>11, <2>1, <2>2
<1>19. ASSUME TablasVivas, NEW t \in Trips, EnTabla(t) \/ (Tcb(t) = d /\ d \in Tcbs)
       PROVE  EnTabla(t)'
  <2>1. t[1] \in Pids /\ Tcb(t)[2] = t[1]
    BY TcbPropio
  <2> QED BY <1>6, <1>15, <1>17, <1>19, <2>1 DEF EnTabla
<1>20. ASSUME TablasVivas, NEW t \in Trips, ~seg'[Tcb(t)].libre
       PROVE  /\ EnTabla(t)'
              /\ \/ ~seg[Tcb(t)].libre /\ Copiado(Tcb(t))
                 \/ respuestas[t] = 0 /\ Cuenta(Tcb(t), 0)'
  <2>1. Tcb(t) \in Tcbs /\ Tcb(t) \in Segmentos /\ Tcb(t)[2] = t[1]
    BY TcbPropio
  <2>2. CASE Tcb(t) = d
    <3>1. t[1] \notin aceptadas
      BY <1>4, <1>6, <2>1, <2>2
    <3>2. respuestas[t] = 0
      BY <3>1 DEF IndTareas
    <3>3. \A a \in Lugares(d)' : memoria'[a].tarea = 0
      BY <1>12, <2>1, <2>2
    <3>4. \A a \in Lugares(Tcb(t))' : memoria'[a].tarea = 0
      BY <2>2, <3>3 DEF Lugares
    <3> QED BY <1>19, <1>20, <2>1, <2>2, <3>2, <3>4 DEF Cuenta
  <2>3. CASE Tcb(t) # d
    <3>1. ~seg[Tcb(t)].libre /\ Copiado(Tcb(t))
      BY <1>11, <1>12, <1>13, <1>20, <2>1, <2>3
    <3>2. EnTabla(t)
      BY <1>20, <3>1 DEF TablasVivas
    <3> QED BY <1>19, <1>20, <3>1, <3>2
  <2> QED BY <2>2, <2>3
<1>21. ASSUME Tranquilo
       PROVE  Tranquilo'
  <2>1. TablasVivas
    BY <1>21 DEF Tranquilo
  <2>2. \A t \in Trips \ expulsados :
          t[1] \in aceptadas => t[1] \in ToSet(patotas) /\ EnTabla(t)'
    BY <1>19, <1>21, <2>1 DEF Tranquilo, AlDia
  <2> QED BY <1>2, <1>18, <1>20, <1>21, <2>1, <2>2, TranquiloMuda
<1> QED BY <1>2, <1>21, TareasMuda

\* It joins the list with its crews in its table.
LEMMA TareasPublicarPatota ==
  ASSUME Inductiva, IndTareas, PublicarPatota
  PROVE  IndTareas'
<1>1. PICK p : p = ini.pid
  OBVIOUS
<1>2. /\ patotas' = Append(patotas, p) /\ aceptadas' = aceptadas \cup {p}
      /\ UNCHANGED <<segmentos, seg, tabla, obt, respuestas, expulsados>>
  BY <1>1 DEF PublicarPatota
<1>3. /\ p \in Pids /\ FilaPatota(p) \subseteq EnUso
      /\ \A d \in EnLista : d # Pcb(p) /\ d # Tareas(p) => Copiado(d)
  BY <1>1, PublicarContenido
<1>4. ToSet(patotas') = ToSet(patotas) \cup {p}
  <2>1. patotas \in Seq(Pids)
    BY DEF Inductiva, Formas, FormaTablas
  <2>2. \A s : ToSet(s) = Range(s)
    BY DEF ToSet, Range
  <2>3. Range(Append(patotas, p)) = Range(patotas) \cup {p}
    BY <1>3, <2>1, AgregarSeq
  <2> QED BY <1>2, <2>2, <2>3
<1>5. ASSUME NEW t \in Trips, t[1] = p
      PROVE  ~seg[Tcb(t)].libre
  <2>1. t[2] \in 1..Patotas[p].cantidad /\ t = <<p, t[2]>>
    BY <1>5, Pedidas
  <2>2. Tcb(t) \in FilaPatota(p)
    BY <2>1 DEF FilaPatota
  <2> QED BY <1>3, <2>2 DEF EnUso, Libres
<1>6. ASSUME NEW t \in Trips, ~seg'[Tcb(t)].libre
      PROVE  ~seg[Tcb(t)].libre /\ Copiado(Tcb(t))
  <2>1. Tcb(t) \in Segmentos /\ Tcb(t) # Pcb(p) /\ Tcb(t) # Tareas(p)
    BY <1>3, TcbPropio
  <2>2. Tcb(t) \in EnLista
    BY <1>2, <1>6, <2>1 DEF Inductiva, Reparto
  <2> QED BY <1>2, <1>3, <1>6, <2>1, <2>2
<1>7. ASSUME Tranquilo
      PROVE  Tranquilo'
  <2>1. \A t \in Trips : EnTabla(t)' <=> EnTabla(t)
    BY <1>2 DEF EnTabla
  <2>2. \A q \in Pids : IsInjective(tabla'[q]) /\ \A d \in ToSet(tabla'[q]) : ~seg'[d].libre
    BY <1>2, <1>7 DEF Tranquilo, TablasVivas
  <2>3. \A t \in Trips : ~seg'[Tcb(t)].libre =>
          EnTabla(t)' /\ ~seg[Tcb(t)].libre /\ Copiado(Tcb(t))
    BY <1>6, <1>7, <2>1 DEF Tranquilo, TablasVivas
  <2>4. ASSUME NEW t \in Trips \ expulsados, t[1] \in aceptadas'
        PROVE  t[1] \in ToSet(patotas') /\ EnTabla(t)'
    <3>1. CASE t[1] = p
      BY <1>4, <1>5, <1>7, <2>1, <3>1 DEF Tranquilo, TablasVivas
    <3>2. CASE t[1] # p
      BY <1>2, <1>4, <1>7, <2>1, <2>4, <3>2 DEF Tranquilo, AlDia
    <3> QED BY <3>1, <3>2
  <2> QED BY <1>2, <1>7, <2>2, <2>3, <2>4, TranquiloMuda
<1> QED BY <1>2, <1>7, TareasMuda

\* The compaction takes what a TCB holds with it.
LEMMA TareasCompactar ==
  ASSUME Inductiva, IndTareas, Compactar
  PROVE  IndTareas'
<1>1. UNCHANGED <<tablas, aceptadas, obt, respuestas, expulsados>>
  BY DEF Compactar
<1>2. Compactado /\ \A d \in EnUso : Copiado(d)
  BY CompactarSegmentos, CompactarCopia DEF Inductiva, Formas
<1>3. \A d \in Segmentos : ~seg[d].libre => d \in EnUso
  BY DEF Inductiva, Reparto, EnUso, Libres, EnLista
<1>4. \A d \in Segmentos : /\ seg[d].libre => seg'[d].libre
                           /\ ~seg[d].libre => ~seg'[d].libre
  <2>1. \A d \in EnUso : ~seg[d].libre
    BY DEF EnUso, Libres
  <2>2. seg'[Hueco].libre /\ seg[Hueco].libre
    BY <1>2 DEF Compactado, Inductiva, Reparto
  <2> QED BY ONLY <1>2, <1>3, <2>1, <2>2 DEF Compactado
<1>5. \A t \in Trips : /\ ~seg'[Tcb(t)].libre => ~seg[Tcb(t)].libre /\ Copiado(Tcb(t))
                       /\ EnTabla(t)' <=> EnTabla(t)
  BY <1>1, <1>2, <1>3, <1>4, TcbPropio DEF EnTabla, tablas
<1>6. ASSUME Tranquilo
      PROVE  Tranquilo'
  <2>1. \A q \in Pids : ToSet(tabla[q]) \subseteq Segmentos
    BY ElementosFinitos, Nombres DEF Inductiva, Formas, FormaTablas
  <2>2. \A q \in Pids : IsInjective(tabla'[q]) /\ \A d \in ToSet(tabla'[q]) : ~seg'[d].libre
    BY <1>1, <1>4, <1>6, <2>1 DEF Tranquilo, TablasVivas, tablas
  <2>3. \A t \in Trips : ~seg'[Tcb(t)].libre =>
          EnTabla(t)' /\ ~seg[Tcb(t)].libre /\ Copiado(Tcb(t))
    BY <1>5, <1>6 DEF Tranquilo, TablasVivas
  <2>4. \A t \in Trips \ expulsados :
          t[1] \in aceptadas' => t[1] \in ToSet(patotas') /\ EnTabla(t)'
    BY <1>1, <1>5, <1>6 DEF Tranquilo, AlDia, tablas
  <2> QED BY <1>1, <1>6, <2>2, <2>3, <2>4, TranquiloMuda
<1> QED BY <1>1, <1>6, TareasMuda

\* Counting one task more writes in the crew's TCB, if it has one, and in nobody else's.
LEMMA AvanzaUno ==
  ASSUME Inductiva, TablasVivas, NEW t \in Trips, NEW p \in Pids,
         memoria' = Avanzar(t, p), seg' = seg
  PROVE  /\ \A u \in Trips \ {t} : ~seg[Tcb(u)].libre => Copiado(Tcb(u))
         /\ ~seg[Tcb(t)].libre /\ p = t[1] =>
              \A a \in Lugares(Tcb(t))' : \E b \in Lugares(Tcb(t)) :
                memoria'[a].tarea = memoria[b].tarea + 1
<1>1. /\ \A u \in Trips : Tcb(u) \in Segmentos /\ Tam(Tcb(u)) = tam_tcb
      /\ \A u \in Trips \ {t} : Tcb(u) # Tcb(t)
  BY TcbPropio
<1>2. \A j \in DOMAIN tabla[p] : /\ Coincide(t, p, j) <=> tabla[p][j] = Tcb(t)
                                 /\ Coincide(t, p, j) => ~seg[Tcb(t)].libre
  <2>1. \A j \in DOMAIN tabla[p] : Coincide(t, p, j) <=> tabla[p][j] = Tcb(t)
    BY Encuentra
  <2> QED BY <2>1 DEF TablasVivas, ToSet
<1>3. memoria \in [0..TAMANIO_MEMORIA - 1 -> [de : Segmentos, tarea : Nat]]
  BY DEF Inductiva, Formas, FormaEspacio
<1>4. ASSUME NEW u \in Trips, ~seg[Tcb(u)].libre
      PROVE  /\ Tcb(u) \in EnLista /\ seg[Tcb(u)].tam = tam_tcb
             /\ Lugares(Tcb(u)) \subseteq DOMAIN memoria /\ Lugares(Tcb(u))' = Lugares(Tcb(u))
  <2>1. Tcb(u) \in EnLista /\ seg[Tcb(u)].tam = tam_tcb
    BY <1>1, <1>4 DEF Inductiva, Reparto
  <2>2. Lugares(Tcb(u)) \subseteq DOMAIN memoria
    BY <2>1, LugaresDentro DEF Inductiva, Formas
  <2> QED BY <2>1, <2>2 DEF Lugares
<1>5. seg[Tcb(t)].inicio \in Nat /\ tam_tcb \in Nat
  BY <1>1, Numeros, ConstantesOK DEF Inductiva, Formas
<1>6. \A a \in DOMAIN memoria : a - seg[Tcb(t)].inicio \in 0..tam_tcb - 1 <=>
                                a \in seg[Tcb(t)].inicio .. seg[Tcb(t)].inicio + tam_tcb - 1
  <2>1. PICK i \in Nat, n \in Nat : i = seg[Tcb(t)].inicio /\ n = tam_tcb
    BY <1>5
  <2>2. \A a \in DOMAIN memoria : a \in Int
    BY <1>3
  <2>3. \A a \in DOMAIN memoria : a - i \in 0..n - 1 <=> a \in i .. i + n - 1
    BY ONLY <2>2, i \in Nat, n \in Nat
  <2> QED BY ONLY <2>1, <2>3
<1>7. \A a \in DOMAIN memoria :
        memoria'[a] = IF \E j \in DOMAIN tabla[p] :
                           Coincide(t, p, j) /\ a - seg[tabla[p][j]].inicio \in 0..tam_tcb - 1
                      THEN [memoria[a] EXCEPT !.tarea = @ + 1] ELSE memoria[a]
  BY DEF Avanzar
<1>8. ASSUME NEW u \in Trips \ {t}, ~seg[Tcb(u)].libre
      PROVE  Copiado(Tcb(u))
  <2>1. ASSUME NEW a \in Lugares(Tcb(u)), NEW j \in DOMAIN tabla[p], Coincide(t, p, j)
        PROVE  a - seg[tabla[p][j]].inicio \notin 0..tam_tcb - 1
    <3>1. tabla[p][j] = Tcb(t) /\ ~seg[Tcb(t)].libre
      BY <1>2, <2>1
    <3>2. Lugares(Tcb(u)) \cap Lugares(Tcb(t)) = {}
      BY <1>1, <1>4, <1>8, <3>1, LugaresAjenos DEF Inductiva, Formas
    <3>3. a \in DOMAIN memoria /\ a \notin Lugares(Tcb(t)) /\ seg[Tcb(t)].tam = tam_tcb
      BY <1>4, <1>8, <2>1, <3>1, <3>2
    <3> QED BY <1>6, <3>1, <3>3 DEF Lugares
  <2>2. \A a \in Lugares(Tcb(u)) : memoria'[a] = memoria[a]
    BY <1>4, <1>7, <1>8, <2>1
  <2> QED BY <1>4, <1>8, <2>2 DEF Copiado
<1>9. ASSUME ~seg[Tcb(t)].libre, p = t[1], NEW a \in Lugares(Tcb(t))'
      PROVE  a \in Lugares(Tcb(t)) /\ memoria'[a].tarea = memoria[a].tarea + 1
  <2>1. PICK j \in DOMAIN tabla[p] : tabla[p][j] = Tcb(t)
    BY <1>9 DEF TablasVivas, EnTabla, ToSet
  <2>2. a \in Lugares(Tcb(t)) /\ a \in DOMAIN memoria /\ seg[Tcb(t)].tam = tam_tcb
    BY <1>4, <1>9
  <2>3. a - seg[Tcb(t)].inicio \in 0..tam_tcb - 1
    BY <1>6, <2>2 DEF Lugares
  <2>4. memoria'[a] = [memoria[a] EXCEPT !.tarea = @ + 1]
    BY <1>2, <1>7, <2>1, <2>2, <2>3
  <2>5. memoria[a] \in [de : Segmentos, tarea : Nat]
    BY <1>3, <2>2
  <2> QED BY ONLY <2>2, <2>4, <2>5
<1> QED BY <1>8, <1>9

\* The answer leaves: its crew has had one more, and its TCB, if it still has it, says so.
LEMMA TareasActualizar ==
  ASSUME Inductiva, IndTareas, NEW t \in Trips, ActualizarTareaActual(t)
  PROVE  IndTareas'
<1>1. PICK p : p = obt[t].pat
  OBVIOUS
<1>2. /\ UNCHANGED <<seg, patotas, tabla, aceptadas, expulsados>> /\ obt[t].pc = "avanza"
      /\ memoria' = Avanzar(t, p)
      /\ IF obt[t].tarea < obt[t].leidas
         THEN respuestas' = [respuestas EXCEPT ![t] = @ + 1] /\ obt' = [obt EXCEPT ![t] = SinPedido]
         ELSE respuestas' = respuestas /\ obt' = [obt EXCEPT ![t].pc = "fin"]
  BY <1>1 DEF ActualizarTareaActual, EnObt, tablas, altas
<1>3. /\ obt \in [Trips -> FormaPedido] /\ t[1] \in aceptadas /\ p \in Pids
      /\ obt[t].tarea \in Nat /\ obt[t].leidas \in Nat
  <2>1. obt \in [Trips -> FormaPedido] /\ t[1] \in aceptadas /\ p \in Pids
    BY <1>1, <1>2, PedidoEnPatota
  <2> QED BY ONLY <2>1, t \in Trips DEF FormaPedido
<1>4. respuestas \in [Trips -> Nat]
  BY DEF IndTareas
<1>5. CASE ~(obt[t].tarea < obt[t].leidas)
  <2>1. respuestas' = respuestas /\ obt' = [obt EXCEPT ![t].pc = "fin"]
    BY <1>2, <1>5
  <2>2. /\ obt'[t].pc = "fin" /\ obt'[t].tarea = obt[t].tarea /\ obt'[t].leidas = obt[t].leidas
        /\ \A u \in Trips \ {t} : obt'[u] = obt[u]
    BY <1>3, <2>1 DEF FormaPedido
  <2>3. HaSalido(t) /\ HaSalido(t)' /\ SinTareas(t)'
    BY <1>2, <1>3, <1>5, <2>2 DEF HaSalido, SinTareas
  <2>4. UltimaCuenta(t) => UltimaCuenta(t)'
    BY <2>1, <2>2 DEF UltimaCuenta
  <2>5. ~SinSalidas
    BY <2>3 DEF SinSalidas
  <2> QED BY <1>2, <1>3, <1>4, <2>1, <2>2, <2>3, <2>4, <2>5, TareasUno
<1>6. CASE obt[t].tarea < obt[t].leidas
  <2>1. respuestas' = [respuestas EXCEPT ![t] = @ + 1] /\ obt' = [obt EXCEPT ![t] = SinPedido]
    BY <1>2, <1>6
  <2>2. respuestas'[t] = respuestas[t] + 1 /\ \A u \in Trips \ {t} : respuestas'[u] = respuestas[u]
    BY ONLY <1>4, <2>1, t \in Trips
  <2>3. obt'[t] = SinPedido /\ \A u \in Trips \ {t} : obt'[u] = obt[u]
    BY ONLY <1>3, <2>1, t \in Trips
  <2>4. respuestas' \in [Trips -> Nat]
    BY ONLY <1>4, <2>1, SumarUno
  <2>5. ~HaSalido(t) /\ ~HaSalido(t)' /\ SinTareas(t)' /\ PedidoPropio(t)' /\ PedidoAlDia(t)'
    BY <1>2, <1>3, <1>6, <2>3
       DEF HaSalido, SinTareas, PedidoPropio, PedidoAlDia, SinPedido, Saliendo
  <2>6. ASSUME Tranquilo
        PROVE  Tranquilo'
    <3>1. TablasVivas /\ p = t[1]
      BY <1>1, <1>2, <2>6 DEF Tranquilo, PedidoPropio
    <3>2. \A u \in Trips : EnTabla(u)' <=> EnTabla(u)
      BY <1>2 DEF EnTabla
    <3>3. ASSUME NEW u \in Trips, ~seg'[Tcb(u)].libre
          PROVE  EnTabla(u)' /\ Cuenta(Tcb(u), respuestas[u])'
      <4>1. ~seg[Tcb(u)].libre /\ EnTabla(u)' /\ Cuenta(Tcb(u), respuestas[u])
        BY <1>2, <3>1, <3>2, <3>3 DEF TablasVivas
      <4>2. PICK n : n = respuestas[u]
        OBVIOUS
      <4>3. CASE u = t
        <5>1. \A b \in Lugares(Tcb(t)) : memoria[b].tarea = n
          BY <4>1, <4>2, <4>3 DEF Cuenta
        <5>2. \A a \in Lugares(Tcb(t))' : \E b \in Lugares(Tcb(t)) :
                memoria'[a].tarea = memoria[b].tarea + 1
          BY <1>2, <1>3, <3>1, <4>1, <4>3, AvanzaUno
        <5>3. \A a \in Lugares(Tcb(t))' : memoria'[a].tarea = n + 1
          BY ONLY <5>1, <5>2
        <5>4. respuestas'[t] = n + 1
          BY <2>2, <4>2, <4>3
        <5> QED BY <4>1, <4>3, <5>3, <5>4 DEF Cuenta
      <4>4. CASE u # t
        <5>1. Copiado(Tcb(u))
          BY <1>2, <1>3, <3>1, <4>1, <4>4, AvanzaUno
        <5>2. \A a \in Lugares(Tcb(u))' : memoria'[a].tarea = n
          BY <4>1, <4>2, <5>1 DEF Copiado, Cuenta
        <5>3. respuestas'[u] = n
          BY <2>2, <4>2, <4>4
        <5> QED BY <4>1, <5>2, <5>3 DEF Cuenta
      <4> QED BY <4>3, <4>4
    <3>4. TablasVivas'
      BY <1>2, <3>1, <3>3 DEF TablasVivas
    <3>5. \A u \in Trips : PedidoPropio(u)'
      BY <2>3, <2>5, <2>6 DEF Tranquilo, PedidoPropio
    <3>6. \A u \in Trips \ expulsados' : AlDia(u)'
      BY <1>2, <2>2, <2>3, <2>5, <2>6, <3>2 DEF Tranquilo, AlDia, PedidoAlDia
    <3> QED BY <3>4, <3>5, <3>6 DEF Tranquilo
  <2> QED BY <1>2, <1>3, <2>2, <2>3, <2>4, <2>5, <2>6, TareasUno
<1> QED BY <1>5, <1>6

\* Who is expelled leaves its table, and no other crew does; with the last of them goes the
\* patota.
LEMMA TareasExpulsar ==
  ASSUME Inductiva, IndTareas, NEW x \in Trips, ExpulsarTripulante(x)
  PROVE  IndTareas'
<1>1. /\ UNCHANGED <<memoria, aceptadas, obt, respuestas>>
      /\ expulsados' = expulsados \cup {x}
  BY DEF ExpulsarTripulante, altas
<1>2. CASE Desconocido(x) /\ UNCHANGED <<seg, tablas>>
  <2>1. Tranquilo => Tranquilo'
    BY <1>1, <1>2 DEF Tranquilo, TablasVivas, PedidoPropio, AlDia, PedidoAlDia, EnTabla,
                      Cuenta, Lugares, tablas
  <2> QED BY <1>1, <2>1, TareasMuda
<1>3. ASSUME NEW i \in DOMAIN patotas, NEW j \in DOMAIN tabla[patotas[i]], NEW p, NEW d, NEW s,
             p = patotas[i], d = tabla[p][j], s = Liberar(seg, d), Coincide(x, p, j),
             tabla' = [tabla EXCEPT ![p] = RemoveAt(@, j)],
             \/ /\ tabla'[p] = <<>> /\ seg' = LiberarPatota(s, p)
                /\ patotas' = RemoveAt(patotas, i)
             \/ seg' = s /\ patotas' = patotas
      PROVE  IndTareas'
  <2>1. patotas \in Seq(Pids) /\ tabla \in [Pids -> Seq(Tcbs)] /\ seg \in FormaSeg
    BY DEF Inductiva, Formas, FormaTablas, FormaEspacio, FormaSeg
  <2>2. p \in Pids
    BY <1>3, <2>1, SacarToSet
  <2>3. tabla[p] \in Seq(Tcbs) /\ j \in DOMAIN tabla[p]
    BY <1>3, <2>1, <2>2
  <2>4. d \in Tcbs /\ d \in Segmentos
    <3>1. d \in Tcbs
      BY <1>3, <2>3
    <3> QED BY <3>1, Nombres
  <2>5. tabla'[p] = RemoveAt(tabla[p], j) /\ \A q \in Pids \ {p} : tabla'[q] = tabla[q]
    BY ONLY <1>3, <2>1, <2>2
  <2>6. s \in FormaSeg /\ s[d].libre /\ SoloCambia(seg, d, s)
    BY ONLY <1>3, <2>1, <2>4, SoltarUno
  <2>7. /\ \A c \in Segmentos :
             /\ seg'[c].inicio = seg[c].inicio /\ seg'[c].tam = seg[c].tam
             /\ seg[c].libre => seg'[c].libre
             /\ c \notin {d, Pcb(p), Tareas(p)} /\ ~seg[c].libre => ~seg'[c].libre
        /\ seg'[d].libre
    <3>1. CASE seg' = s
      BY ONLY <2>4, <2>6, <3>1 DEF SoloCambia
    <3>2. CASE seg' = LiberarPatota(s, p)
      <4>1. \A c \in Segmentos :
              /\ seg'[c].inicio = s[c].inicio /\ seg'[c].tam = s[c].tam
              /\ s[c].libre => seg'[c].libre
              /\ c # Pcb(p) /\ c # Tareas(p) => seg'[c].libre = s[c].libre
        BY ONLY <2>2, <2>6, <3>2, LiberaPatota
      <4> QED BY ONLY <2>4, <2>6, <4>1 DEF SoloCambia
    <3> QED BY <1>3, <3>1, <3>2
  <2>8. \A q \in ToSet(patotas) : q # p \/ tabla'[p] # <<>> => q \in ToSet(patotas')
    <3>1. ASSUME NEW q \in ToSet(patotas), q # p, patotas' = RemoveAt(patotas, i)
          PROVE  q \in ToSet(patotas')
      <4>1. PICK k \in DOMAIN patotas : q = patotas[k]
        BY DEF ToSet
      <4> QED BY <1>3, <2>1, <3>1, <4>1, SacarDeja
    <3> QED BY <1>3, <3>1
  <2>9. ASSUME TablasVivas
        PROVE  d = Tcb(x) /\ p = x[1]
    BY <1>3, <2>2, <2>3, <2>9, Encuentra
  <2>10. ASSUME TablasVivas
         PROVE  /\ IsInjective(tabla'[p]) /\ d \notin ToSet(tabla'[p])
                /\ ToSet(tabla'[p]) \subseteq ToSet(tabla[p])
    <3>1. IsInjective(tabla[p])
      BY <2>2, <2>10 DEF TablasVivas
    <3> QED BY <1>3, <2>3, <2>5, <3>1, SacarToSet
  <2>11. ASSUME TablasVivas, NEW q \in Pids
         PROVE  IsInjective(tabla'[q]) /\ \A c \in ToSet(tabla'[q]) : ~seg'[c].libre
    <3>1. IsInjective(tabla'[q])
      BY <2>5, <2>10, <2>11 DEF TablasVivas
    <3>2. ASSUME NEW c \in ToSet(tabla'[q])
          PROVE  ~seg'[c].libre
      <4>1. c \in ToSet(tabla[q]) /\ (q = p => c # d)
        BY <2>5, <2>10, <2>11, <3>2
      <4>2. tabla[q] \in Seq(Tcbs)
        BY <2>1, <2>11
      <4>3. c \in Tcbs /\ c \in Segmentos /\ c[2] = q
        BY <2>11, <4>1, <4>2, ElementosFinitos, Nombres DEF Inductiva, EnSuLugar
      <4>4. d[2] = p /\ Pcb(p) \notin Tcbs /\ Tareas(p) \notin Tcbs
        BY <2>2, <2>9, <2>11, TcbPropio, Nombres
      <4>5. ~seg[c].libre /\ c \notin {d, Pcb(p), Tareas(p)}
        BY <2>11, <4>1, <4>3, <4>4 DEF TablasVivas
      <4> QED BY <2>7, <4>3, <4>5
    <3> QED BY <3>1, <3>2
  <2>12. ASSUME TablasVivas, NEW t \in Trips \ {x}, EnTabla(t)
         PROVE  EnTabla(t)'
    <3>1. t[1] \in Pids /\ Tcb(t) # Tcb(x)
      BY TcbPropio
    <3>2. CASE t[1] = p
      <4>1. PICK k \in DOMAIN tabla[p] : tabla[p][k] = Tcb(t)
        BY <2>12, <3>2 DEF EnTabla, ToSet
      <4>2. k # j
        BY <1>3, <2>9, <2>12, <3>1, <4>1
      <4>3. Tcb(t) \in ToSet(RemoveAt(tabla[p], j))
        BY <2>3, <4>1, <4>2, SacarDeja
      <4> QED BY <2>5, <3>2, <4>3 DEF EnTabla
    <3>3. CASE t[1] # p
      BY <2>5, <2>12, <3>1, <3>3 DEF EnTabla
    <3> QED BY <3>2, <3>3
  <2>13. ASSUME TablasVivas, NEW t \in Trips, ~seg'[Tcb(t)].libre
         PROVE  EnTabla(t)' /\ ~seg[Tcb(t)].libre /\ Copiado(Tcb(t))
    <3>1. Tcb(t) \in Segmentos
      BY TcbPropio
    <3>2. t # x /\ ~seg[Tcb(t)].libre
      BY <2>7, <2>9, <2>13, <3>1
    <3>3. EnTabla(t)'
      BY <2>12, <2>13, <3>2 DEF TablasVivas
    <3>4. Lugares(Tcb(t))' = Lugares(Tcb(t))
      BY <2>7, <3>1 DEF Lugares
    <3> QED BY <1>1, <3>2, <3>3, <3>4 DEF Copiado
  <2>14. ASSUME Tranquilo, NEW t \in Trips \ expulsados', t[1] \in aceptadas
         PROVE  t[1] \in ToSet(patotas') /\ EnTabla(t)'
    <3>1. TablasVivas /\ t # x /\ t[1] \in ToSet(patotas) /\ EnTabla(t)
      BY <1>1, <2>14 DEF Tranquilo, AlDia
    <3>2. EnTabla(t)'
      BY <2>12, <3>1
    <3>3. t[1] = p => tabla'[p] # <<>>
      BY <3>2 DEF EnTabla, ToSet
    <3> QED BY <2>8, <3>1, <3>2, <3>3
  <2>15. Tranquilo => Tranquilo'
    BY <1>1, <2>11, <2>13, <2>14, TranquiloMuda DEF Tranquilo
  <2> QED BY <1>1, <2>15, TareasMuda
<1>4. ASSUME \E i \in DOMAIN patotas : LET p == patotas[i] IN
               \E j \in DOMAIN tabla[p] : LET sin_tcb == Liberar(seg, tabla[p][j]) IN
                 /\ Coincide(x, p, j) /\ tabla' = [tabla EXCEPT ![p] = RemoveAt(@, j)]
                 /\ \/ /\ tabla'[p] = <<>> /\ seg' = LiberarPatota(sin_tcb, p)
                       /\ patotas' = RemoveAt(patotas, i)
                    \/ seg' = sin_tcb /\ patotas' = patotas
      PROVE  IndTareas'
  <2>1. PICK i \in DOMAIN patotas : \E j \in DOMAIN tabla[patotas[i]] :
          /\ Coincide(x, patotas[i], j)
          /\ tabla' = [tabla EXCEPT ![patotas[i]] = RemoveAt(@, j)]
          /\ \/ /\ tabla'[patotas[i]] = <<>>
                /\ seg' = LiberarPatota(Liberar(seg, tabla[patotas[i]][j]), patotas[i])
                /\ patotas' = RemoveAt(patotas, i)
             \/ seg' = Liberar(seg, tabla[patotas[i]][j]) /\ patotas' = patotas
    BY <1>4
  <2> QED BY <1>3, <2>1
<1>5. \/ Desconocido(x) /\ UNCHANGED <<seg, tablas>>
      \/ \E i \in DOMAIN patotas : LET p == patotas[i] IN
           \E j \in DOMAIN tabla[p] : LET sin_tcb == Liberar(seg, tabla[p][j]) IN
             /\ Coincide(x, p, j) /\ tabla' = [tabla EXCEPT ![p] = RemoveAt(@, j)]
             /\ \/ /\ tabla'[p] = <<>> /\ seg' = LiberarPatota(sin_tcb, p)
                   /\ patotas' = RemoveAt(patotas, i)
                \/ seg' = sin_tcb /\ patotas' = patotas
  BY DEF ExpulsarTripulante, Encontrado, PrimeroEnTabla
<1> QED BY <1>2, <1>4, <1>5

\* At the start nobody has a TCB nor has asked for anything.
LEMMA InicioTareas ==
  ASSUME Init
  PROVE  IndTareas
<1>1. /\ tabla = [p \in Pids |-> <<>>] /\ aceptadas = {}
      /\ obt = [t \in Trips |-> SinPedido] /\ respuestas = [t \in Trips |-> 0]
      /\ \A d \in Segmentos : seg[d].libre
  BY DEF Init
<1>2. /\ \A t \in Trips : obt[t].pc = "libre" /\ respuestas[t] = 0
      /\ respuestas \in [Trips -> Nat]
  BY <1>1 DEF SinPedido
<1>3. \A t \in Trips : ~HaSalido(t) /\ SinTareas(t) /\ PedidoPropio(t) /\ AlDia(t)
  BY <1>1, <1>2 DEF HaSalido, SinTareas, PedidoPropio, AlDia, PedidoAlDia, Saliendo
<1>4. TablasVivas
  <2>1. ASSUME NEW p \in Pids
        PROVE  IsInjective(tabla[p]) /\ \A d \in ToSet(tabla[p]) : ~seg[d].libre
    <3>1. tabla[p] = <<>> /\ DOMAIN <<>> = {}
      BY <1>1, <2>1
    <3> QED BY <3>1 DEF IsInjective, ToSet
  <2> QED BY <1>1, <2>1, TcbPropio DEF TablasVivas
<1>5. Tranquilo /\ UnicaSalida
  BY <1>3, <1>4 DEF Tranquilo, UnicaSalida
<1> QED BY <1>2, <1>3, <1>5 DEF IndTareas

\* Nothing that is said of tasks changes.
LEMMA TareasIgual ==
  ASSUME IndTareas, UNCHANGED <<espacio, tablas, aceptadas, obt, respuestas, expulsados>>
  PROVE  IndTareas'
<1>1. Tranquilo => Tranquilo'
  BY DEF Tranquilo, TablasVivas, PedidoPropio, AlDia, PedidoAlDia, EnTabla, Cuenta, Lugares,
         espacio, tablas
<1> QED BY <1>1, TareasMuda

\* Every step keeps it.
LEMMA PasoTareas ==
  ASSUME Inductiva, IndTareas, [Next]_vars
  PROVE  IndTareas'
<1>1. CASE UNCHANGED <<espacio, tablas, aceptadas, obt, respuestas, expulsados>>
  BY <1>1, TareasIgual
<1>2. CASE Alta
  <2>1. CASE RecibirPatota   BY <1>1, <2>1 DEF RecibirPatota
  <2>2. CASE SinSegmento     BY <1>1, <2>2 DEF SinSegmento
  <2>3. CASE AsignarSegmento BY <2>3, TareasAsignarSegmento
  <2>4. CASE PublicarPatota  BY <2>4, TareasPublicarPatota
  <2> QED BY <1>2, <2>1, <2>2, <2>3, <2>4 DEF Alta
<1>3. CASE SenialCompactar
  BY <1>1, <1>3 DEF SenialCompactar, altas
<1>4. CASE Compactacion
  <2>1. CASE BloquearSegmentos BY <1>1, <2>1 DEF BloquearSegmentos, altas
  <2>2. CASE Compactar         BY <2>2, TareasCompactar
  <2> QED BY <1>4, <2>1, <2>2 DEF Compactacion
<1>5. CASE EscribirUbicacion
  BY <1>1, <1>5 DEF EscribirUbicacion, altas
<1>6. ASSUME NEW t \in Trips,
             BuscarParaUbicar(t) \/ BuscarPatotaConTid(t) \/ Obtener(t) \/ ExpulsarTripulante(t)
      PROVE  IndTareas'
  <2>1. CASE BuscarParaUbicar(t)   BY <1>1, <2>1 DEF BuscarParaUbicar, altas
  <2>2. CASE BuscarPatotaConTid(t) BY <2>2, TareasBuscar
  <2>3. CASE ExpulsarTripulante(t) BY <2>3, TareasExpulsar
  <2>4. CASE Obtener(t)
    <3>1. CASE CopiarTareas(t)          BY <3>1, TareasCopiar
    <3>2. CASE LeerIndice(t)            BY <3>2, TareasLeer
    <3>3. CASE ElegirTarea(t)           BY <3>3, TareasElegir
    <3>4. CASE \/ LiberarTripulante(t) \/ QuitarTripulante(t) \/ RevisarPatota(t)
               \/ BorrarPatota(t) \/ DestruirPatota(t)
      BY <3>4, TareasSalir
    <3>5. CASE ActualizarTareaActual(t) BY <3>5, TareasActualizar
    <3>6. CASE UsarTablaLiberada(t)     BY <1>1, <3>6 DEF UsarTablaLiberada, altas
    <3> QED BY <2>4, <3>1, <3>2, <3>3, <3>4, <3>5, <3>6 DEF Obtener
  <2> QED BY <1>6, <2>1, <2>2, <2>3, <2>4
<1>7. CASE UNCHANGED vars
  BY <1>1, <1>7 DEF vars, altas
<1>8. CASE Next
  BY <1>2, <1>3, <1>4, <1>5, <1>6, <1>8 DEF Next
<1> QED BY <1>7, <1>8

\* Nobody else having been let go, a crew that has not been expelled is answered in order,
\* and had been answered with all its tasks if it has been let go itself.
LEMMA DeLasTareas ==
  ASSUME IndTareas
  PROVE  TareasEnOrden
<1>1. ASSUME NEW t \in Trips \ expulsados, \A u \in Trips \ {t} : ~HaSalido(u)
      PROVE  /\ obt[t].pc # "fallo"
             /\ obt[t].pc \in {"responde", "avanza"} =>
                  obt[t].tarea = respuestas[t] /\ obt[t].leidas = Patotas[t[1]].tareas
  <2>1. CASE HaSalido(t)
    <3>1. UltimaCuenta(t)
      BY <1>1, <2>1 DEF IndTareas, UnicaSalida
    <3>2. obt[t].pc # "fallo"
      BY <2>1 DEF HaSalido, Saliendo
    <3> QED BY <3>1, <3>2 DEF UltimaCuenta
  <2>2. CASE ~HaSalido(t)
    <3>1. SinSalidas
      BY <1>1, <2>2 DEF SinSalidas
    <3>2. PedidoAlDia(t) /\ PedidoPropio(t)
      BY <1>1, <3>1 DEF IndTareas, Tranquilo, AlDia
    <3> QED BY <3>2 DEF PedidoAlDia, PedidoPropio
  <2> QED BY <2>1, <2>2
<1> QED BY <1>1 DEF TareasEnOrden

\* In patotas of any number of crews, a crew that is not expelled is answered with the tasks
\* of its patota, each once and in order, whatever is compacted, expelled and given meanwhile
\* and wherever in the shared table its TCB has moved to, up to and including its own leaving:
\* until another crew is let go, the number its TCB holds is that of the answers it has had.
THEOREM TareasUnaPorUna == Spec => []TareasEnOrden
<1>1. Init => IndTareas
  BY InicioTareas
<1>2. Inductiva /\ IndTareas /\ [Next]_vars => IndTareas'
  BY PasoTareas
<1>3. IndTareas => TareasEnOrden
  BY DeLasTareas
<1> QED BY <1>1, <1>2, <1>3, SiempreInductiva, PTL DEF Spec

=============================================================================
