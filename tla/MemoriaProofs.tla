--------------------------- MODULE MemoriaProofs ---------------------------
(***************************************************************************)
(* What paging keeps in swap, and that it implements Memoria, for any      *)
(* memory, patotas, algorithm and expulsions, when no request comes in the *)
(* middle of another and no patota's tasks end where a page does.          *)
(***************************************************************************)
EXTENDS PaginacionProofs

\* obtener_proxima_tarea_paginacion reads the text of the last task with its end, which was
\* not stored: a byte more than the tasks have.  It is in a page that has something of them,
\* which stays while the patota does; the next page would be of TCBs only, and those of the
\* crews that left are let go.
FinDeTareas == \A p \in Pids : (tam_pcb + TamanioTareas[p]) % TAMANIO_PAGINA # 0

-----------------------------------------------------------------------------
(* The invariant of the contents.                                            *)

\* The bytes of a page that those of I have not let go.
Quedan(g, I) ==
  {b \in 0..Tamanio[g[1]] - 1 : /\ b \div TAMANIO_PAGINA = g[2]
                                /\ \A t \in I : t[1] = g[1] => b \notin BytesDe(t)}

\* The crews of a patota that have not left.
SinSalir(p) == {t \in Trips \ idos : t[1] = p}

\* A page that was loaded counts its bytes, and a patota its crews; it is in the list as long
\* as it has some.
Cuentas ==
  /\ idos \subseteq Trips /\ \A t \in idos : t[1] \in aceptadas /\ t[1] # ini.pid
  /\ vivos \in [Pids -> Nat] /\ \A p \in Pids : vivos[p] = Cardinality(SinSalir(p))
  /\ patotas \in Seq(Pids) /\ ToSet(patotas) = {p \in aceptadas : vivos[p] > 0}
  /\ \A g \in Paginas :
       IF Cargada(g) THEN pagina[g].usados = Cardinality(Quedan(g, idos))
                     ELSE pagina[g].usados = 0 /\ pagina[g].frame = 0 /\ pagina[g].swap = 0

\* Each page that somebody has bytes in is in a frame or in a frame of swap, of its own and
\* with its data; a frame of swap that is taken is of one of them or was lost.
EnSwap ==
  /\ \A g \in Paginas : pagina[g].presente => g \in Vivas /\ marco[pagina[g].frame].dato.de = g
  /\ \A g \in Vivas : ~pagina[g].presente =>
       /\ pagina[g].frame = 0 /\ pagina[g].swap # 0 /\ ~swap[pagina[g].swap].libre
       /\ swap[pagina[g].swap].dato.de = g /\ pagina[g].swap \notin perdidos
       /\ \A h \in Vivas \ {g} : ~pagina[h].presente => pagina[h].swap # pagina[g].swap
  /\ \A s \in perdidos : ~swap[s].libre
  /\ \A s \in Swap : ~swap[s].libre =>
       s \in perdidos \/ \E g \in Vivas : ~pagina[g].presente /\ pagina[g].swap = s

\* A crew has one request of its own at a time, none once it left, and none that tells of a
\* change of estado when it asks for a task after the last one.
Turnos ==
  /\ \A e \in esperan : e = <<e[1], e[2]>> /\ e[1] \notin idos
  /\ curso # SinCurso => curso.t \notin idos
  /\ \A t \in Trips : \A o1, o2 \in PideElTripulante : <<t, o1>> \in esperan =>
       ~(curso.t = t /\ curso.op = o2) /\ (<<t, o2>> \in esperan => o1 = o2)
  /\ \A t \in Trips : SinTareas(t) => ~(EnServicio(t, {"estado"}) /\ EnServicio(t, {"obtener"}))

\* Where a crew has its next task, and what the memory says it is.
DeProxima(t) == Campo(t, proxima_tarea)
Sabe(t) == Donde(DeProxima(t)).prox[t]

\* OBTENER_PROXIMA_TAREA brings the TCB and reads the next task; then it writes the one
\* after; then it reads the text, or finds there is none.
PorLeer(c) ==
  LET n == Len(c.pasos) IN
  /\ n >= 2 /\ c.pasos[n] = Paso("avanza", DeProxima(c.t))
  /\ c.pasos[n - 1] = Paso("tarea", DeProxima(c.t))
  /\ \A i \in 1..n - 2 : c.pasos[i].modo = "trae"
PorAvanzar(c) == c.pasos = << Paso("avanza", DeProxima(c.t)) >>
PorTraer(c) ==
  IF c.tarea < Len(Patotas[c.t[1]].tareas) THEN \A i \in DOMAIN c.pasos : c.pasos[i].modo = "usa"
  ELSE c.pasos = << Paso("fin", Campo(c.t, tid)) >>

\* c is at one of these with a crew answered with r tasks.
Fase(c, r) ==
  IF c.op = "obtener" THEN PorLeer(c) \/ (c.tarea = r /\ (PorAvanzar(c) \/ PorTraer(c)))
  ELSE \A i \in DOMAIN c.pasos : c.pasos[i].modo \in {"trae", "lee", "usa"}
Avanzo(c) == c.op = "obtener" /\ \A i \in DOMAIN c.pasos : c.pasos[i].modo \in {"usa", "fin"}

\* The memory knows the next task of each crew, and no request is for a page that was let go.
Progreso ==
  /\ \A t \in Trips \ idos : Sabe(t) = respuestas[t] + IF curso.t = t /\ Avanzo(curso) THEN 1 ELSE 0
  /\ curso # SinCurso => Fase(curso, respuestas[curso.t])
  /\ \A i \in DOMAIN curso.pasos : curso.pasos[i].pag \in Vivas

Contables ==
  /\ respuestas \in [Trips -> Nat] /\ \A t \in Trips : respuestas[t] <= Len(Patotas[t[1]].tareas)
  /\ perdidos \subseteq Swap /\ expulsados \subseteq Trips /\ trabada \in BOOLEAN /\ caida \in BOOLEAN

Contenidos ==
  /\ Contables /\ Cuentas /\ Turnos
  /\ ~lleno => EnSwap /\ (~caida => Progreso)

IndMemoria == IndMarcos /\ Contenidos

-----------------------------------------------------------------------------
(* The bytes of a page.                                                      *)

\* They are in an interval of the size of a page.
LEMMA BytesDePagina ==
  ASSUME NEW k \in Nat
  PROVE  \E c \in Nat : /\ c = k * TAMANIO_PAGINA
                        /\ \A b \in Nat : b \div TAMANIO_PAGINA = k
                                            <=> b \in c..c + TAMANIO_PAGINA - 1
<1>1. PICK d \in Nat \ {0} : TAMANIO_PAGINA = d
  BY Tamanios
<1>2. PICK c \in Nat : c = k * d
  OBVIOUS
<1>3. ASSUME NEW b \in Nat PROVE b \div d = k <=> b \in c..c + d - 1
  <2>1. b \div d \in Nat /\ d * (b \div d) <= b /\ b < d * (b \div d) + d
    OBVIOUS
  <2>2. ASSUME b \div d = k PROVE b \in c..c + d - 1
    <3>1. d * (b \div d) = c
      BY <1>2, <2>2
    <3> QED BY <2>1, <3>1
  <2>3. ASSUME b \in c..c + d - 1 PROVE b \div d = k
    <3>1. d * k <= b /\ b < d * k + d
      BY <1>2, <2>3
    <3> QED BY ONLY <3>1, b \in Nat, k \in Nat, d \in Nat \ {0}
  <2> QED BY <2>2, <2>3
<1> QED BY <1>1, <1>2, <1>3

\* Those left are no more than a page has.
LEMMA QuedanFinitos ==
  ASSUME NEW g \in Paginas, NEW I
  PROVE  IsFiniteSet(Quedan(g, I)) /\ Cardinality(Quedan(g, I)) \in 0..TAMANIO_PAGINA
<1>1. PICK d \in Nat \ {0} : TAMANIO_PAGINA = d
  BY Tamanios
<1>2. PICK c \in Nat : \A b \in Nat : b \div d = g[2] <=> b \in c..c + d - 1
  BY <1>1, NombrePagina, BytesDePagina
<1>3. Quedan(g, I) \in SUBSET (c..c + d - 1)
  BY <1>1, <1>2 DEF Quedan
<1>4. IsFiniteSet(c..c + d - 1) /\ Cardinality(c..c + d - 1) = d
  BY FS_Interval
<1> QED BY <1>1, <1>3, <1>4, FS_Subset, FS_CardinalityType

\* When no crew has left they are the bytes the page is loaded with.
LEMMA QuedanTodos ==
  ASSUME NEW g \in Paginas, NEW I, \A t \in I : t[1] # g[1]
  PROVE  Cardinality(Quedan(g, I)) = BytesUsados(g) /\ BytesUsados(g) > 0
<1>1. PICK p \in Pids, k \in Nat : g[1] = p /\ g[2] = k
  BY NombrePagina
<1>2. PICK d \in Nat \ {0} : TAMANIO_PAGINA = d
  BY Tamanios
<1>3. PICK T \in Nat \ {0} : Tamanio[p] = T
  BY Tamanios
<1>4. PICK n \in Nat \ {0} : CantPaginas[p] = n /\ n = (T + d - 1) \div d
  BY <1>2, <1>3, Tamanios
<1>5. k <= n - 1
  BY <1>1, <1>4, NombrePagina
<1>6. PICK c \in Nat : c = k * d /\ \A b \in Nat : b \div d = k <=> b \in c..c + d - 1
  BY <1>2, BytesDePagina
<1>7. Quedan(g, I) = {b \in 0..T - 1 : b \in c..c + d - 1}
  BY <1>1, <1>2, <1>3, <1>6 DEF Quedan
<1>8. BytesUsados(g) = IF k = n - 1 THEN T - c ELSE d
  BY <1>1, <1>2, <1>3, <1>4, <1>6 DEF BytesUsados
<1>9. PICK m \in Nat : m = d * n /\ m <= T + d - 1 /\ T + d - 1 < m + d
  BY ONLY <1>4, T \in Nat \ {0}, d \in Nat \ {0}, n \in Nat \ {0}
<1>10. CASE k = n - 1
  <2>1. c = m - d
    BY <1>6, <1>9, <1>10
  <2>2. Quedan(g, I) = c..T - 1 /\ c <= T - 1
    BY <1>7, <1>9, <2>1
  <2> QED BY <1>8, <1>10, <2>2, FS_Interval
<1>11. CASE k < n - 1
  <2>1. (k + 1) * d <= (n - 1) * d
    BY ONLY <1>11, k \in Nat, d \in Nat \ {0}, n \in Nat \ {0}
  <2>2. c + d <= m - d
    BY <1>6, <1>9, <2>1
  <2>3. Quedan(g, I) = c..c + d - 1
    BY <1>7, <1>9, <2>2
  <2>4. Cardinality(c..c + d - 1) = d
    BY FS_Interval
  <2> QED BY <1>8, <1>11, <2>3, <2>4
<1> QED BY <1>5, <1>10, <1>11

\* The TCBs of a patota are one after the other, behind its tasks.
LEMMA TcbsAparte ==
  ASSUME NEW t \in Trips
  PROVE  /\ BytesDe(t) \subseteq 0..Tamanio[t[1]] - 1
         /\ \A u \in Trips : u[1] = t[1] /\ u # t => BytesDe(u) \cap BytesDe(t) = {}
         /\ <<t[1], 1>> \in Trips /\ InicioTcb[<<t[1], 1>>] \in Nat
         /\ InicioTcb[<<t[1], 1>>] = 8 + TamanioTareas[t[1]]
         /\ \A b \in BytesDe(t) : b >= InicioTcb[<<t[1], 1>>]
<1>1. PICK p \in Pids, i \in Nat \ {0} : t = <<p, i>> /\ t[1] = p /\ t[2] = i
  BY Pedidas
<1>2. PICK a \in Nat : InicioTcb[t] = a /\ a = 8 + TamanioTareas[p] + (i - 1) * 21 /\ a + 21 <= Tamanio[p]
  BY <1>1, Tamanios
<1>3. BytesDe(t) = a..a + 20
  BY <1>2 DEF BytesDe, tam_tcb
<1>4. BytesDe(t) \subseteq 0..Tamanio[p] - 1
  <2>1. PICK T \in Nat : Tamanio[p] = T
    BY Tamanios
  <2> QED BY <1>2, <1>3, <2>1
<1>5. ASSUME NEW u \in Trips, u[1] = p, u # t PROVE BytesDe(u) \cap BytesDe(t) = {}
  <2>1. PICK j \in Nat \ {0} : u = <<p, j>> /\ u[2] = j
    BY <1>5, Pedidas
  <2>2. PICK c \in Nat : InicioTcb[u] = c /\ c = 8 + TamanioTareas[p] + (j - 1) * 21
    BY <1>5, <2>1, Tamanios
  <2>3. BytesDe(u) = c..c + 20
    BY <2>2 DEF BytesDe, tam_tcb
  <2>4. i # j
    BY <1>1, <1>5, <2>1
  <2>5. PICK x \in Int : TamanioTareas[p] = x
    BY Tamanios
  <2>6. c + 20 < a \/ a + 20 < c
    BY <1>2, <2>2, <2>4, <2>5
  <2> QED BY <1>3, <2>3, <2>6
<1>6. /\ <<p, 1>> \in Trips /\ InicioTcb[<<p, 1>>] \in Nat
      /\ InicioTcb[<<p, 1>>] = 8 + TamanioTareas[p]
  <2>1. <<p, 1>> \in Trips
    BY Pedidas
  <2>2. InicioTcb[<<p, 1>>] = 8 + TamanioTareas[p] + (1 - 1) * 21 /\ InicioTcb[<<p, 1>>] \in Nat
    BY <2>1, Tamanios
  <2> QED BY <2>1, <2>2, Tamanios
<1>7. \A b \in BytesDe(t) : b >= InicioTcb[<<p, 1>>]
  <2>1. PICK x \in Int : TamanioTareas[p] = x
    BY Tamanios
  <2> QED BY <1>2, <1>3, <1>6, <2>1
<1> QED BY <1>1, <1>4, <1>5, <1>6, <1>7

\* A page with a byte that nobody let go has some.
LEMMA QuedaAlguno ==
  ASSUME NEW g \in Paginas, NEW I, NEW b \in Quedan(g, I)
  PROVE  Cardinality(Quedan(g, I)) > 0
BY QuedanFinitos, FS_EmptySet, Tamanios

\* A crew that is there has bytes in the pages of its TCB.
LEMMA QuedaDelTcb ==
  ASSUME NEW I \in SUBSET Trips, NEW t \in Trips \ I, NEW g \in PaginasConTcb(t)
  PROVE  g \in Paginas /\ g[1] = t[1] /\ Cardinality(Quedan(g, I)) > 0
<1>1. g \in Paginas
  BY PaginasDelTcb
<1>2. PICK b \in BytesDe(t) : g = <<t[1], b \div TAMANIO_PAGINA>>
  BY DEF PaginasConTcb
<1>3. \A u \in I : u[1] = t[1] => b \notin BytesDe(u)
  BY TcbsAparte
<1>4. b \in Quedan(g, I)
  BY <1>2, <1>3, TcbsAparte DEF Quedan
<1> QED BY <1>1, <1>2, <1>4, QuedaAlguno

\* The PCB and the tasks are never let go while the patota is there.
LEMMA QuedaDeTareas ==
  ASSUME NEW I \in SUBSET Trips, NEW p \in Pids, NEW b \in 0..InicioTcb[<<p, 1>>] - 1
  PROVE  <<p, b \div TAMANIO_PAGINA>> \in Paginas /\ Cardinality(Quedan(<<p, b \div TAMANIO_PAGINA>>, I)) > 0
<1> DEFINE g == <<p, b \div TAMANIO_PAGINA>>
<1>1. <<p, 1>> \in Trips
  BY Pedidas
<1>2. b \in 0..Tamanio[p] - 1
  BY <1>1, Tamanios
<1>3. g \in Paginas
  BY <1>2, PaginaDeByte
<1>4. \A t \in I : t[1] = p => b \notin BytesDe(t)
  BY TcbsAparte
<1>5. b \in Quedan(g, I)
  BY <1>2, <1>4 DEF Quedan
<1> HIDE DEF g
<1> QED BY <1>3, <1>5, QuedaAlguno DEF g

\* A crew that leaves takes its bytes from the pages of its patota.
LEMMA QuedanSin ==
  ASSUME NEW I \in SUBSET Trips, NEW t \in Trips \ I, NEW g \in Paginas
  PROVE  /\ g[1] # t[1] => Quedan(g, I \cup {t}) = Quedan(g, I)
         /\ g[1] = t[1] => /\ Cardinality(Quedan(g, I \cup {t})) = Cardinality(Quedan(g, I)) - BytesTcb(t, g)
                           /\ g \notin PaginasConTcb(t) => BytesTcb(t, g) = 0
<1> DEFINE Q == Quedan(g, I)
           R == Quedan(g, I \cup {t})
           B == {b \in BytesDe(t) : g[2] = b \div TAMANIO_PAGINA}
<1>1. g[1] # t[1] => R = Q
  BY DEF Quedan
<1>2. BytesTcb(t, g) = Cardinality(B)
  BY DEF BytesTcb, BytesDe
<1>3. ASSUME g[1] = t[1] PROVE R = Q \ B /\ Q \cap B = B
  <2>1. R = Q \ B
    BY <1>3 DEF Quedan
  <2>2. \A b \in B : b \in Q
    <3>1. ASSUME NEW b \in B PROVE b \in Q
      <4>1. \A u \in I : u[1] = t[1] => b \notin BytesDe(u)
        BY TcbsAparte
      <4>2. b \in 0..Tamanio[t[1]] - 1
        BY TcbsAparte
      <4> QED BY <1>3, <4>1, <4>2 DEF Quedan
    <3> QED BY <3>1
  <2> QED BY <2>1, <2>2
<1>4. ASSUME g[1] = t[1], g \notin PaginasConTcb(t) PROVE B = {}
  <2>1. g = <<t[1], g[2]>>
    BY <1>4, NombrePagina
  <2> QED BY <1>4, <2>1 DEF PaginasConTcb
<1>5. IsFiniteSet(Q)
  BY QuedanFinitos
<1> HIDE DEF Q, R, B
<1>6. Cardinality(Q \ B) = Cardinality(Q) - Cardinality(Q \cap B)
  BY <1>5, FS_Difference
<1> QED BY <1>1, <1>2, <1>3, <1>4, <1>6, FS_EmptySet DEF Q, R

-----------------------------------------------------------------------------
(* The requests of OBTENER_PROXIMA_TAREA, access by access.                  *)

\* The accesses of a request, from the second on, in numbers.
LEMMA PrimerPaso ==
  ASSUME NEW c \in TipoCurso, c.pasos # <<>>
  PROVE  \E n \in Nat : LET s == c.pasos
                            q == Tail(s)
                        IN /\ DOMAIN s = 1..n + 1 /\ Len(s) = n + 1 /\ Head(s) = s[1]
                           /\ DOMAIN q = 1..n /\ Len(q) = n /\ q \in Seq(Accesibles)
                           /\ \A i \in 1..n : q[i] = s[i + 1]
<1> DEFINE s == c.pasos
           q == Tail(s)
<1>1. s \in Seq(Accesibles) /\ s # <<>>
  BY DEF TipoCurso
<1> HIDE DEF s
<1>2. PICK n \in Nat : /\ DOMAIN s = 1..n + 1 /\ DOMAIN q = 1..n /\ Head(s) = s[1]
                       /\ \A i \in 1..n : q[i] = s[i + 1]
  BY <1>1, SinPrimero
<1>3. q \in Seq(Accesibles)
  BY <1>1, CabezaYCola
<1> HIDE DEF q
<1>4. Len(s) \in Nat /\ DOMAIN s = 1..Len(s) /\ Len(q) \in Nat /\ DOMAIN q = 1..Len(q)
  BY <1>1, <1>3, LenProperties
<1>5. Len(s) = n + 1 /\ Len(q) = n
  BY <1>2, <1>4
<1> QED BY <1>2, <1>3, <1>5 DEF s, q

\* An access that neither reads the next task nor changes it.
LEMMA FaseSigue ==
  ASSUME NEW c \in TipoCurso, c.pasos # <<>>, Head(c.pasos).modo \in {"trae", "lee", "usa"},
         NEW r, Fase(c, r),
         NEW d, d.t = c.t, d.op = c.op, d.tarea = c.tarea, d.pasos = Tail(c.pasos)
  PROVE  Fase(d, r) /\ (Avanzo(d) <=> Avanzo(c))
<1> DEFINE s == c.pasos
           q == d.pasos
           p == DeProxima(c.t)
<1>1. PICK n \in Nat : /\ DOMAIN s = 1..n + 1 /\ Len(s) = n + 1 /\ Head(s) = s[1]
                       /\ DOMAIN q = 1..n /\ Len(q) = n /\ q \in Seq(Accesibles)
                       /\ \A i \in 1..n : q[i] = s[i + 1]
  BY PrimerPaso
<1>2. \A i \in DOMAIN q : i + 1 \in DOMAIN s /\ q[i] = s[i + 1]
  BY <1>1
<1>3. s[1].modo \in {"trae", "lee", "usa"} /\ 1 \in DOMAIN s
  BY <1>1
<1>4. CASE c.op # "obtener"
  <2>1. Fase(d, r)
    BY <1>2, <1>4 DEF Fase
  <2> QED BY <1>4, <2>1 DEF Avanzo
<1>5. CASE c.op = "obtener" /\ PorLeer(c)
  <2>1. n >= 1 /\ s[n + 1] = Paso("avanza", p) /\ s[n] = Paso("tarea", p)
        /\ \A i \in 1..n - 1 : s[i].modo = "trae"
    <3>1. Len(s) = n + 1 /\ PorLeer(c)
      BY <1>1, <1>5
    <3> QED BY ONLY <3>1, n \in Nat DEF PorLeer
  <2>2. Paso("avanza", p).modo = "avanza" /\ Paso("tarea", p).modo = "tarea"
    BY DEF Paso
  <2>3. n # 1
    BY <1>3, <2>1, <2>2
  <2>4. PorLeer(d)
    <3>1. q[n] = s[n + 1] /\ q[n - 1] = s[n] /\ \A i \in 1..n - 2 : q[i].modo = "trae"
      <4>1. n \in 1..n /\ n - 1 \in 1..n /\ (n - 1) + 1 = n
        BY <2>1, <2>3
      <4>2. ASSUME NEW i \in 1..n - 2 PROVE q[i].modo = "trae"
        <5>1. i \in 1..n /\ i + 1 \in 1..n - 1
          BY <2>1
        <5> QED BY <1>1, <2>1, <5>1
      <4> QED BY <1>1, <4>1, <4>2
    <3> QED BY <1>1, <2>1, <2>3, <3>1 DEF PorLeer
  <2>5. ~Avanzo(c) /\ ~Avanzo(d)
    <3>1. n \in DOMAIN q /\ n + 1 \in DOMAIN s /\ q[n] = s[n + 1]
      BY <1>1, <2>1
    <3> QED BY <2>1, <2>2, <3>1 DEF Avanzo
  <2> QED BY <1>5, <2>4, <2>5 DEF Fase
<1>6. CASE c.op = "obtener" /\ ~PorLeer(c)
  <2>1. c.tarea = r /\ (PorAvanzar(c) \/ PorTraer(c))
    BY <1>6 DEF Fase
  <2>2. ~PorAvanzar(c)
    <3>1. PorAvanzar(c) => s[1] = Paso("avanza", p)
      BY DEF PorAvanzar
    <3> QED BY <1>3, <3>1 DEF Paso
  <2>3. s # << Paso("fin", Campo(c.t, tid)) >>
    <3>1. s = << Paso("fin", Campo(c.t, tid)) >> => s[1] = Paso("fin", Campo(c.t, tid))
      OBVIOUS
    <3> QED BY <1>3, <3>1 DEF Paso
  <2>4. /\ c.tarea < Len(Patotas[c.t[1]].tareas)
        /\ \A i \in DOMAIN s : s[i].modo = "usa"
    BY <2>1, <2>2, <2>3 DEF PorTraer
  <2>5. \A i \in DOMAIN q : q[i].modo = "usa"
    BY <1>2, <2>4
  <2>6. Avanzo(c) /\ Avanzo(d)
    BY <1>6, <2>4, <2>5 DEF Avanzo
  <2>7. PorTraer(d)
    BY <2>4, <2>5 DEF PorTraer
  <2> QED BY <1>6, <2>1, <2>6, <2>7 DEF Fase
<1> QED BY <1>4, <1>5, <1>6

\* Reading the next task, which is as many as were answered.
LEMMA FaseTarea ==
  ASSUME NEW c \in TipoCurso, c.pasos # <<>>, Head(c.pasos).modo = "tarea", NEW r, Fase(c, r),
         NEW d, d.t = c.t, d.op = c.op, d.pasos = Tail(c.pasos)
  PROVE  /\ c.op = "obtener" /\ Head(c.pasos).pag = DeProxima(c.t)
         /\ ~Avanzo(c) /\ ~Avanzo(d) /\ (d.tarea = r => Fase(d, r))
<1> DEFINE s == c.pasos
           q == d.pasos
           p == DeProxima(c.t)
<1>1. PICK n \in Nat : /\ DOMAIN s = 1..n + 1 /\ Len(s) = n + 1 /\ Head(s) = s[1]
                       /\ DOMAIN q = 1..n /\ Len(q) = n /\ q \in Seq(Accesibles)
                       /\ \A i \in 1..n : q[i] = s[i + 1]
  BY PrimerPaso
<1>2. s[1].modo = "tarea" /\ 1 \in DOMAIN s
  BY <1>1
<1>3. c.op = "obtener"
  BY <1>2 DEF Fase
<1>4. PorLeer(c)
  <2>1. ~PorAvanzar(c)
    <3>1. PorAvanzar(c) => s[1] = Paso("avanza", p)
      BY DEF PorAvanzar
    <3> QED BY <1>2, <3>1 DEF Paso
  <2>2. ~PorTraer(c)
    <3>1. s = << Paso("fin", Campo(c.t, tid)) >> => s[1] = Paso("fin", Campo(c.t, tid))
      OBVIOUS
    <3> QED BY <1>2, <3>1 DEF Paso, PorTraer
  <2> QED BY <1>3, <2>1, <2>2 DEF Fase
<1>5. n >= 1 /\ s[n + 1] = Paso("avanza", p) /\ s[n] = Paso("tarea", p)
      /\ \A i \in 1..n - 1 : s[i].modo = "trae"
  BY <1>1, <1>4 DEF PorLeer
<1>6. n = 1
  <2>1. n # 1 => 1 \in 1..n - 1
    BY <1>5
  <2> QED BY <1>2, <1>5, <2>1
<1>7. q[1] = Paso("avanza", p) /\ s[2] = Paso("avanza", p) /\ s[1] = Paso("tarea", p)
  BY <1>1, <1>5, <1>6
<1>8. q = << Paso("avanza", p) >>
  <2>1. q \in Seq(Accesibles) /\ Len(q) = 1 /\ q[1] = Paso("avanza", p)
    BY <1>1, <1>6, <1>7
  <2> QED BY ONLY <2>1
<1>9. ~Avanzo(c) /\ ~Avanzo(d)
  <2>1. 2 \in DOMAIN s /\ 1 \in DOMAIN q /\ Paso("avanza", p).modo = "avanza"
    BY <1>1, <1>6 DEF Paso
  <2> QED BY <1>7, <2>1 DEF Avanzo
<1>10. PorAvanzar(d)
  BY <1>8 DEF PorAvanzar
<1> QED BY <1>1, <1>3, <1>7, <1>9, <1>10 DEF Fase, Paso

\* Writing the one after it.
LEMMA FaseAvanza ==
  ASSUME NEW c \in TipoCurso, c.t \in Trips, c.pasos # <<>>, Head(c.pasos).modo = "avanza",
         NEW r, Fase(c, r),
         NEW d, d.t = c.t, d.op = c.op, d.tarea = c.tarea, d.pasos = AccesosDeTarea(c.t, c.tarea)
  PROVE  /\ c.op = "obtener" /\ c.tarea = r /\ Head(c.pasos).pag = DeProxima(c.t)
         /\ ~Avanzo(c) /\ Avanzo(d) /\ Fase(d, r)
<1> DEFINE s == c.pasos
           p == DeProxima(c.t)
           a == AccesosDeTarea(c.t, c.tarea)
<1>1. PICK n \in Nat : DOMAIN s = 1..n + 1 /\ Len(s) = n + 1 /\ Head(s) = s[1]
  BY PrimerPaso
<1>2. s[1].modo = "avanza" /\ 1 \in DOMAIN s
  BY <1>1
<1>3. c.op = "obtener"
  BY <1>2 DEF Fase
<1>4. ~PorLeer(c)
  <2>1. ASSUME PorLeer(c) PROVE FALSE
    <3>1. n >= 1 /\ s[n] = Paso("tarea", p) /\ \A i \in 1..n - 1 : s[i].modo = "trae"
      BY <1>1, <2>1 DEF PorLeer
    <3>2. n # 1 => 1 \in 1..n - 1
      BY <3>1
    <3>3. Paso("tarea", p).modo = "tarea"
      BY DEF Paso
    <3> QED BY <1>2, <3>1, <3>2, <3>3
  <2> QED BY <2>1
<1>5. ~PorTraer(c)
  <2>1. s = << Paso("fin", Campo(c.t, tid)) >> => s[1] = Paso("fin", Campo(c.t, tid))
    OBVIOUS
  <2> QED BY <1>2, <2>1 DEF Paso, PorTraer
<1>6. c.tarea = r /\ s = << Paso("avanza", p) >>
  BY <1>3, <1>4, <1>5 DEF Fase, PorAvanzar
<1>7. ~Avanzo(c) /\ Head(s).pag = p
  <2>1. s[1].pag = p
    BY <1>6 DEF Paso
  <2> QED BY <1>1, <1>2, <2>1 DEF Avanzo
<1>8. PICK m \in Nat : c.tarea = m
  BY DEF TipoCurso
<1>9. PICK k \in Nat : Len(Patotas[c.t[1]].tareas) = k
  BY Pedidas, Textos
<1>10. /\ m >= k => a = << Paso("fin", Campo(c.t, tid)) >>
       /\ m < k => \A i \in DOMAIN a : a[i].modo = "usa"
  BY <1>8, <1>9, AccesosTareaBien
<1> HIDE DEF a
<1>11. d.pasos = a
  BY DEF a
<1>12. PorTraer(d)
  BY <1>8, <1>9, <1>10, <1>11 DEF PorTraer
<1>13. Avanzo(d)
  <2>1. ASSUME m >= k, NEW i \in DOMAIN a PROVE a[i].modo = "fin"
    BY <1>10, <2>1 DEF Paso
  <2> QED BY <1>3, <1>8, <1>9, <1>10, <1>11, <2>1 DEF Avanzo
<1> QED BY <1>3, <1>6, <1>7, <1>12, <1>13 DEF Fase

\* After the last task it is the end of the crew.
LEMMA FaseFin ==
  ASSUME NEW c \in TipoCurso, c.pasos # <<>>, Head(c.pasos).modo = "fin", NEW r, Fase(c, r)
  PROVE  c.op = "obtener" /\ ~(r < Len(Patotas[c.t[1]].tareas))
<1> DEFINE s == c.pasos
           p == DeProxima(c.t)
<1>1. PICK n \in Nat : DOMAIN s = 1..n + 1 /\ Len(s) = n + 1 /\ Head(s) = s[1]
  BY PrimerPaso
<1>2. s[1].modo = "fin" /\ 1 \in DOMAIN s
  BY <1>1
<1>3. c.op = "obtener"
  BY <1>2 DEF Fase
<1>4. ~PorLeer(c)
  <2>1. ASSUME PorLeer(c) PROVE FALSE
    <3>1. n >= 1 /\ s[n] = Paso("tarea", p) /\ \A i \in 1..n - 1 : s[i].modo = "trae"
      BY <1>1, <2>1 DEF PorLeer
    <3>2. n # 1 => 1 \in 1..n - 1
      BY <3>1
    <3>3. Paso("tarea", p).modo = "tarea"
      BY DEF Paso
    <3> QED BY <1>2, <3>1, <3>2, <3>3
  <2> QED BY <2>1
<1>5. ~PorAvanzar(c)
  <2>1. PorAvanzar(c) => s[1] = Paso("avanza", p)
    BY DEF PorAvanzar
  <2> QED BY <1>2, <2>1 DEF Paso
<1>6. c.tarea = r /\ PorTraer(c)
  BY <1>3, <1>4, <1>5 DEF Fase
<1>7. r < Len(Patotas[c.t[1]].tareas) => \A i \in DOMAIN s : s[i].modo = "usa"
  BY <1>6 DEF PorTraer
<1> QED BY <1>2, <1>3, <1>7

\* With nothing else to do there was a task, and the next one was written.
LEMMA FaseVacia ==
  ASSUME NEW c, c.pasos = <<>>, NEW r, Fase(c, r), c.op = "obtener"
  PROVE  Avanzo(c) /\ r < Len(Patotas[c.t[1]].tareas)
<1>1. DOMAIN c.pasos = {} /\ Len(c.pasos) = 0
  OBVIOUS
<1>2. ~PorLeer(c)
  BY <1>1 DEF PorLeer
<1>3. ~PorAvanzar(c)
  BY DEF PorAvanzar
<1>4. c.tarea = r /\ PorTraer(c)
  BY <1>2, <1>3 DEF Fase
<1>5. c.pasos # << Paso("fin", Campo(c.t, tid)) >>
  OBVIOUS
<1> QED BY <1>1, <1>4, <1>5 DEF PorTraer, Avanzo

\* The accesses a request comes with.
LEMMA FaseInicial ==
  ASSUME NEW t \in Trips, NEW op \in Ops, NEW r,
         NEW c, c.t = t, c.op = op, c.pasos = Accesos(t, op)
  PROVE  Fase(c, r) /\ ~Avanzo(c)
<1> DEFINE a == Accesos(t, op)
           p == Campo(t, proxima_tarea)
<1>1. /\ a \in Seq([modo : Modos, pag : PaginasConTcb(t)])
      /\ op # "obtener" => \A i \in DOMAIN a : a[i].modo \in {"trae", "lee", "usa"}
      /\ op = "obtener" =>
           /\ Len(a) >= 2 /\ a[Len(a)] = Paso("avanza", p) /\ a[Len(a) - 1] = Paso("tarea", p)
           /\ \A i \in 1..Len(a) - 2 : a[i].modo = "trae"
  BY ONLY t \in Trips, op \in Ops, AccesosBien, Zenon
<1> HIDE DEF a
<1>2. c.pasos = a
  BY DEF a
<1>3. CASE op # "obtener"
  BY <1>1, <1>2, <1>3 DEF Fase, Avanzo
<1>4. CASE op = "obtener"
  <2>1. PorLeer(c)
    BY <1>1, <1>2, <1>4 DEF PorLeer, DeProxima
  <2>2. Len(a) \in DOMAIN a /\ a[Len(a)].modo = "avanza"
    <3>1. Len(a) \in Nat /\ DOMAIN a = 1..Len(a)
      BY <1>1, LenProperties
    <3> QED BY <1>1, <1>4, <3>1 DEF Paso
  <2> QED BY <1>2, <1>4, <2>1, <2>2 DEF Fase, Avanzo
<1> QED BY <1>3, <1>4

-----------------------------------------------------------------------------
(* What the counts say.                                                      *)

\* A patota has as many crews as it came with.
LEMMA TripsDe ==
  ASSUME NEW p \in Pids
  PROVE  LET T == {t \in Trips : t[1] = p}
         IN IsFiniteSet(T) /\ Cardinality(T) = Patotas[p].cantidad
<1> DEFINE T == {t \in Trips : t[1] = p}
<1>1. PICK c \in Nat \ {0} : Patotas[p].cantidad = c
  BY Pedidas
<1> DEFINE f == [i \in 1..c |-> <<p, i>>]
<1>2. \A i \in 1..c : f[i] \in T
  BY <1>1, Pedidas
<1>3. \A t \in T : \E i \in 1..c : f[i] = t
  <2>1. ASSUME NEW t \in T PROVE t[2] \in 1..c /\ f[t[2]] = t
    BY <1>1, Pedidas
  <2> QED BY <2>1
<1>4. \A i, j \in 1..c : f[i] = f[j] => i = j
  OBVIOUS
<1>5. f \in [1..c -> T]
  BY <1>2
<1>6. ExistsBijection(1..c, T)
  <2> HIDE DEF f, T
  <2>1. f \in Bijection(1..c, T)
    BY <1>3, <1>4, <1>5 DEF Bijection, Injection, Surjection, IsInjective
  <2> QED BY <2>1 DEF ExistsBijection
<1>7. IsFiniteSet(1..c) /\ Cardinality(1..c) = c
  BY FS_Interval
<1> HIDE DEF T
<1> QED BY <1>1, <1>6, <1>7, FS_Bijection DEF T

\* Those that have not left are counted.
LEMMA SinSalirFinitos ==
  ASSUME NEW p \in Pids
  PROVE  IsFiniteSet(SinSalir(p)) /\ Cardinality(SinSalir(p)) \in Nat
<1>1. SinSalir(p) \in SUBSET {t \in Trips : t[1] = p}
  BY DEF SinSalir
<1> QED BY <1>1, TripsDe, FS_Subset, FS_CardinalityType

\* The patota of a crew that has not left counts it.
LEMMA Contada ==
  ASSUME Cuentas, NEW t \in Trips \ idos
  PROVE  /\ t[1] \in Pids /\ vivos[t[1]] \in Nat \ {0}
         /\ t[1] \in aceptadas => t[1] \in ToSet(patotas)
         /\ vivos[t[1]] = 1 => \A u \in Trips \ idos : u[1] = t[1] => u = t
<1>1. PICK p \in Pids : t[1] = p
  BY Pedidas
<1>2. t \in SinSalir(p)
  BY <1>1 DEF SinSalir
<1>3. vivos[p] = Cardinality(SinSalir(p)) /\ vivos[p] \in Nat
  BY DEF Cuentas
<1>4. vivos[p] # 0
  BY <1>2, <1>3, SinSalirFinitos, FS_EmptySet
<1>5. ASSUME vivos[p] = 1, NEW u \in Trips \ idos, u[1] = p PROVE u = t
  <2>1. u \in SinSalir(p)
    BY <1>5 DEF SinSalir
  <2>2. PICK x : SinSalir(p) = {x}
    <3>1. IsFiniteSet(SinSalir(p)) /\ Cardinality(SinSalir(p)) = 1
      BY <1>3, <1>5, SinSalirFinitos
    <3> HIDE DEF SinSalir
    <3> QED BY ONLY <3>1, FS_Singleton
  <2> QED BY ONLY <1>2, <2>1, <2>2
<1>6. p \in aceptadas => p \in ToSet(patotas)
  BY <1>3, <1>4 DEF Cuentas
<1> QED BY <1>1, <1>3, <1>4, <1>5, <1>6

\* A page that somebody may need, because it is not there yet or somebody has bytes in it.
PorUsar(g) == ~Cargada(g) \/ g \in Vivas

\* The pages of the TCB of a crew that has not left are.
LEMMA PaginaDeVivo ==
  ASSUME Cuentas, NEW t \in Trips \ idos, NEW g \in PaginasConTcb(t)
  PROVE  PorUsar(g) /\ g \in Paginas /\ g[1] = t[1]
<1>1. g \in Paginas /\ g[1] = t[1] /\ Cardinality(Quedan(g, idos)) > 0
  <2>1. idos \in SUBSET Trips
    BY DEF Cuentas
  <2> QED BY <2>1, QuedaDelTcb
<1>2. ASSUME Cargada(g) PROVE g \in Vivas
  <2>1. pagina[g].usados > 0
    BY <1>1, <1>2 DEF Cuentas
  <2>2. g[1] \in ToSet(patotas)
    BY <1>1, <1>2, Contada DEF Cargada
  <2> QED BY <1>1, <2>1, <2>2 DEF Vivas
<1> QED BY <1>1, <1>2 DEF PorUsar

\* When nobody is coming, each page of a patota that was accepted is there.
LEMMA TodasCargadas ==
  ASSUME ini = SinAlta, NEW g \in Paginas, g[1] \in aceptadas
  PROVE  Cargada(g)
<1>1. ini.pid = 0 /\ g[1] # 0
  BY NombrePagina, Pedidas DEF SinAlta
<1> QED BY <1>1 DEF Cargada

\* The pages of its PCB and its tasks are, and the one where they end, which has at least the byte before.
LEMMA PaginaDeTareas ==
  ASSUME FinDeTareas, Cuentas, ini = SinAlta, NEW t \in Trips \ idos, t[1] \in aceptadas,
         NEW b \in 0..InicioTcb[<<t[1], 1>>]
  PROVE  <<t[1], b \div TAMANIO_PAGINA>> \in Vivas
<1> DEFINE g == <<t[1], b \div TAMANIO_PAGINA>>
<1>1. PICK p \in Pids : t[1] = p
  BY Pedidas
<1>2. PICK d \in Nat \ {0} : TAMANIO_PAGINA = d
  BY Tamanios
<1>3. PICK x \in Int : x = TamanioTareas[p] /\ x >= -1
  BY Tamanios
<1>4. <<p, 1>> \in Trips
  BY Pedidas
<1>5. InicioTcb[<<p, 1>>] = 8 + x
  <2>1. InicioTcb[<<p, 1>>] = 8 + TamanioTareas[p] + (1 - 1) * 21
    BY <1>4, Tamanios
  <2> QED BY <1>3, <2>1
<1>6. b \in 0..8 + x
  BY <1>1, <1>5
<1>7. (8 + x) % d # 0
  BY <1>2, <1>3 DEF FinDeTareas, tam_pcb
<1>8. \E c \in 0..(8 + x) - 1 : c \div d = b \div d
  <2>1. CASE b < 8 + x
    BY <1>3, <1>6, <2>1
  <2>2. CASE b = 8 + x
    <3>1. PICK z \in Nat \ {0} : z = 8 + x
      BY <1>3
    <3>2. (z - 1) \div d = z \div d
      BY ONLY <1>7, <3>1, z \in Nat \ {0}, d \in Nat \ {0}
    <3> QED BY <2>2, <3>1, <3>2
  <2> QED BY <1>6, <2>1, <2>2
<1>9. g \in Paginas /\ Cardinality(Quedan(g, idos)) > 0
  <2>1. PICK c \in 0..(8 + x) - 1 : c \div d = b \div d
    BY <1>8
  <2>2. idos \in SUBSET Trips /\ c \in 0..InicioTcb[<<p, 1>>] - 1
    BY <1>5 DEF Cuentas
  <2>3. g = <<p, c \div TAMANIO_PAGINA>>
    BY <1>1, <1>2, <2>1
  <2> QED BY <2>2, <2>3, QuedaDeTareas
<1> HIDE DEF g
<1>10. g[1] = t[1]
  BY DEF g
<1>11. Cargada(g)
  BY <1>9, <1>10, TodasCargadas
<1>12. pagina[g].usados > 0
  BY <1>9, <1>11 DEF Cuentas
<1>13. g[1] \in ToSet(patotas)
  BY <1>10, Contada
<1>14. g \in Vivas
  BY <1>9, <1>12, <1>13 DEF Vivas
<1> QED BY <1>14 DEF g

-----------------------------------------------------------------------------
(* What Memoria sees.                                                        *)

\* The same patotas and crews.
LEMMA MismosNombres ==
  /\ Plana!Pids = Pids /\ Plana!Trips = Trips
  /\ \A t \in Trips : [p \in Pids |-> Len(Patotas[p].tareas)][t[1]] = Len(Patotas[t[1]].tareas)
<1>1. Plana!Pids = Pids
  BY DEF Plana!Pids
<1>2. Plana!Trips = Trips
  BY <1>1 DEF Plana!Trips, Trips
<1>3. \A t \in Trips : t[1] \in Pids
  BY Pedidas
<1> QED BY <1>1, <1>2, <1>3

\* The next tasks it sees.
Proximas == [t \in Trips |-> IF t \in Conocidos \ idos THEN Sabe(t) ELSE 0]

\* A step that changes neither the crews, nor their next tasks, nor the answers.
Igual == /\ UNCHANGED <<patotas, idos, respuestas>>
         /\ \A t \in Trips \ idos : Sabe(t)' = Sabe(t)

\* A step after which Igual holds is one that Memoria does not see.
LEMMA VeIgual ==
  ASSUME Igual
  PROVE  UNCHANGED Plana!mvars
<1>1. Conocidos' = Conocidos /\ ToSet(patotas)' = ToSet(patotas)
  BY DEF Igual, Conocidos
<1>2. Proximas' = Proximas
  BY <1>1 DEF Igual, Proximas
<1> QED BY <1>1, <1>2 DEF Plana!mvars, Proximas, Igual, Sabe, DeProxima

\* A patota that comes: its crews start from the first task.
LEMMA VeAdmitir ==
  ASSUME NEW p \in Pids \ ToSet(patotas), ToSet(patotas)' = ToSet(patotas) \cup {p},
         \A t \in idos : t[1] # p, UNCHANGED <<idos, respuestas>>,
         \A t \in Trips \ idos : Sabe(t)' = Sabe(t) /\ (t[1] = p => Sabe(t) = 0)
  PROVE  Plana!Admitir(p)
<1>1. \A t \in Trips : t \in Conocidos' <=> (t \in Conocidos \/ t[1] = p)
  BY DEF Conocidos
<1>2. Proximas' = Proximas
  BY <1>1 DEF Proximas
<1>3. Proximas' = [t \in Trips |-> IF t \in Conocidos \ idos THEN Donde(Campo(t, proxima_tarea)).prox[t] ELSE 0]'
  BY DEF Proximas, Sabe, DeProxima
<1>4. Proximas = [t \in Trips |-> IF t \in Conocidos \ idos THEN Donde(Campo(t, proxima_tarea)).prox[t] ELSE 0]
  BY DEF Proximas, Sabe, DeProxima
<1> QED BY <1>2, <1>3, <1>4 DEF Plana!Admitir

\* The next task of a crew moves on.
LEMMA VeAvanzar ==
  ASSUME NEW t \in Trips \ idos, t[1] \in ToSet(patotas), UNCHANGED <<patotas, idos, respuestas>>,
         Sabe(t) = respuestas[t], Sabe(t)' = Sabe(t) + 1,
         \A u \in Trips \ idos : u # t => Sabe(u)' = Sabe(u)
  PROVE  Plana!Avanzar(t)
<1>1. Conocidos' = Conocidos /\ t \in Conocidos /\ ToSet(patotas)' = ToSet(patotas)
  BY DEF Conocidos
<1>2. Proximas' = [Proximas EXCEPT ![t] = @ + 1] /\ Proximas[t] = respuestas[t]
  BY <1>1 DEF Proximas
<1>3. Proximas' = [u \in Trips |-> IF u \in Conocidos \ idos THEN Donde(Campo(u, proxima_tarea)).prox[u] ELSE 0]'
  BY DEF Proximas, Sabe, DeProxima
<1>4. Proximas = [u \in Trips |-> IF u \in Conocidos \ idos THEN Donde(Campo(u, proxima_tarea)).prox[u] ELSE 0]
  BY DEF Proximas, Sabe, DeProxima
<1> QED BY <1>1, <1>2, <1>3, <1>4 DEF Plana!Avanzar, Plana!EnMemoria

\* The task it was at is answered.
LEMMA VeResponder ==
  ASSUME NEW t \in Trips \ idos, t[1] \in ToSet(patotas), UNCHANGED <<patotas, idos>>,
         respuestas' = [respuestas EXCEPT ![t] = @ + 1],
         respuestas[t] \in Nat, respuestas[t] < Len(Patotas[t[1]].tareas),
         Sabe(t) = respuestas[t] + 1, \A u \in Trips \ idos : Sabe(u)' = Sabe(u)
  PROVE  Plana!Responder(t)
<1>1. Conocidos' = Conocidos /\ t \in Conocidos /\ ToSet(patotas)' = ToSet(patotas)
  BY DEF Conocidos
<1>2. Proximas' = Proximas /\ Proximas[t] = respuestas[t] + 1
  BY <1>1 DEF Proximas
<1>3. Proximas' = [u \in Trips |-> IF u \in Conocidos \ idos THEN Donde(Campo(u, proxima_tarea)).prox[u] ELSE 0]'
  BY DEF Proximas, Sabe, DeProxima
<1>4. Proximas = [u \in Trips |-> IF u \in Conocidos \ idos THEN Donde(Campo(u, proxima_tarea)).prox[u] ELSE 0]
  BY DEF Proximas, Sabe, DeProxima
<1>5. Proximas[t] <= [p \in Pids |-> Len(Patotas[p].tareas)][t[1]]
  <2>1. PICK r \in Nat : respuestas[t] = r
    OBVIOUS
  <2>2. PICK k \in Nat : Len(Patotas[t[1]].tareas) = k
    BY Pedidas, Textos
  <2> QED BY <1>2, <2>1, <2>2, MismosNombres
<1> QED BY <1>1, <1>2, <1>3, <1>4, <1>5 DEF Plana!Responder, Plana!EnMemoria

\* A crew that leaves; the patota stays as long as it has crews.
LEMMA VeIrse ==
  ASSUME NEW t \in Trips \ idos, t[1] \in ToSet(patotas), idos' = idos \cup {t},
         respuestas' = respuestas,
         ToSet(patotas)' = {p \in ToSet(patotas) : \E u \in Trips \ idos' : u[1] = p},
         \A u \in Trips \ idos : Sabe(u)' = Sabe(u)
  PROVE  Plana!Irse(t)
<1>1. t \in Conocidos /\ \A u \in Trips \ idos' : u \in Conocidos' <=> u \in Conocidos
  BY DEF Conocidos
<1>2. Proximas' = [Proximas EXCEPT ![t] = 0]
  BY <1>1 DEF Proximas
<1>3. Proximas' = [u \in Trips |-> IF u \in Conocidos \ idos THEN Donde(Campo(u, proxima_tarea)).prox[u] ELSE 0]'
  BY DEF Proximas, Sabe, DeProxima
<1>4. Proximas = [u \in Trips |-> IF u \in Conocidos \ idos THEN Donde(Campo(u, proxima_tarea)).prox[u] ELSE 0]
  BY DEF Proximas, Sabe, DeProxima
<1> QED BY <1>1, <1>2, <1>3, <1>4, MismosNombres DEF Plana!Irse, Plana!EnMemoria

-----------------------------------------------------------------------------
(* Steps that leave a part of it as it was.                                  *)

\* The counts are of the bytes and the crews, wherever the pages are.
LEMMA CuentasIguales ==
  ASSUME Cuentas, UNCHANGED <<idos, aceptadas, vivos, patotas>>,
         ini'.pid = ini.pid, ini'.sigue = ini.sigue,
         \A g \in Paginas : /\ pagina'[g].usados = pagina[g].usados
                            /\ ~Cargada(g) => /\ pagina'[g].frame = pagina[g].frame
                                              /\ pagina'[g].swap = pagina[g].swap
  PROVE  Cuentas' /\ \A g \in Paginas : Cargada(g)' <=> Cargada(g)
<1>1. \A g \in Paginas : Cargada(g)' <=> Cargada(g)
  BY DEF Cargada
<1>2. \A p \in Pids : SinSalir(p)' = SinSalir(p)
  BY DEF SinSalir
<1>3. /\ idos' \subseteq Trips /\ \A t \in idos' : t[1] \in aceptadas' /\ t[1] # ini'.pid
      /\ vivos' \in [Pids -> Nat] /\ \A p \in Pids : vivos'[p] = Cardinality(SinSalir(p)')
      /\ patotas' \in Seq(Pids) /\ ToSet(patotas)' = {p \in aceptadas' : vivos'[p] > 0}
  BY <1>2 DEF Cuentas
<1>4. ASSUME NEW g \in Paginas
      PROVE  IF Cargada(g)' THEN pagina'[g].usados = Cardinality(Quedan(g, idos'))
             ELSE pagina'[g].usados = 0 /\ pagina'[g].frame = 0 /\ pagina'[g].swap = 0
  BY <1>1 DEF Cuentas
<1> QED BY <1>1, <1>3, <1>4 DEF Cuentas

\* So are the pages in which somebody has bytes.
LEMMA VivasIguales ==
  ASSUME UNCHANGED patotas, \A g \in Paginas : pagina'[g].usados = pagina[g].usados
  PROVE  Vivas' = Vivas
BY DEF Vivas

\* The request that is served, if any, is the same.
LEMMA TurnosIguales ==
  ASSUME Turnos, UNCHANGED <<esperan, idos, respuestas>>,
         curso' = curso \/ (curso # SinCurso /\ curso'.t = curso.t /\ curso'.op = curso.op)
  PROVE  Turnos'
<1>1. curso'.t = curso.t /\ curso'.op = curso.op /\ (curso' # SinCurso => curso # SinCurso)
  OBVIOUS
<1>2. \A t \in Trips : \A ops : EnServicio(t, ops)' <=> EnServicio(t, ops)
  BY <1>1 DEF EnServicio
<1>3. \A t \in Trips : SinTareas(t)' <=> SinTareas(t)
  BY DEF SinTareas
<1>4. curso' # SinCurso => curso'.t \notin idos'
  BY <1>1 DEF Turnos
<1>5. \A e \in esperan' : e = <<e[1], e[2]>> /\ e[1] \notin idos'
  BY DEF Turnos
<1>6. \A t \in Trips : \A o1, o2 \in PideElTripulante : <<t, o1>> \in esperan' =>
       ~(curso'.t = t /\ curso'.op = o2) /\ (<<t, o2>> \in esperan' => o1 = o2)
  BY <1>1 DEF Turnos
<1>7. \A t \in Trips : SinTareas(t)' => ~(EnServicio(t, {"estado"})' /\ EnServicio(t, {"obtener"})')
  BY <1>2, <1>3 DEF Turnos
<1> QED BY <1>4, <1>5, <1>6, <1>7 DEF Turnos

\* Swap is as it was when no page goes there or comes back.
LEMMA EnSwapIgual ==
  ASSUME EnSwap, Marcos, Vivas' = Vivas, UNCHANGED <<perdidos, swap>>,
         \A g \in Paginas : /\ pagina'[g].presente = pagina[g].presente
                            /\ pagina'[g].frame = pagina[g].frame /\ pagina'[g].swap = pagina[g].swap,
         \A f \in Frames : marco'[f].dato.de = marco[f].dato.de
  PROVE  EnSwap'
<1>1. Vivas \subseteq Paginas
  BY DEF Vivas
<1>2. \A g \in Paginas : pagina'[g].presente => g \in Vivas' /\ marco'[pagina'[g].frame].dato.de = g
  BY DEF EnSwap, Marcos
<1>3. \A g \in Vivas' : ~pagina'[g].presente =>
       /\ pagina'[g].frame = 0 /\ pagina'[g].swap # 0 /\ ~swap'[pagina'[g].swap].libre
       /\ swap'[pagina'[g].swap].dato.de = g /\ pagina'[g].swap \notin perdidos'
       /\ \A h \in Vivas' \ {g} : ~pagina'[h].presente => pagina'[h].swap # pagina'[g].swap
  BY <1>1 DEF EnSwap
<1>4. \A s \in perdidos' : ~swap'[s].libre
  BY DEF EnSwap
<1>5. \A s \in Swap : ~swap'[s].libre =>
       s \in perdidos' \/ \E g \in Vivas' : ~pagina'[g].presente /\ pagina'[g].swap = s
  BY <1>1 DEF EnSwap
<1> QED BY <1>2, <1>3, <1>4, <1>5 DEF EnSwap

\* The next task of a crew that has not left is where it was.
LEMMA SabeIgual ==
  ASSUME Cuentas, \A g \in Paginas : PorUsar(g) => Donde(g)' = Donde(g)
  PROVE  \A t \in Trips \ idos : Sabe(t)' = Sabe(t)
<1>1. ASSUME NEW t \in Trips \ idos PROVE Sabe(t)' = Sabe(t)
  <2>1. DeProxima(t) \in PaginasConTcb(t)
    BY PaginasDelTcb DEF DeProxima, proxima_tarea
  <2>2. DeProxima(t) \in Paginas /\ PorUsar(DeProxima(t))
    BY <2>1, PaginaDeVivo
  <2>3. DeProxima(t)' = DeProxima(t)
    BY DEF DeProxima, Campo, InicioTcb, TamanioTareas
  <2> QED BY <2>2, <2>3 DEF Sabe
<1> QED BY <1>1

-----------------------------------------------------------------------------
(* Where the pages are.                                                      *)

\* A page somebody has bytes in is in the frame it has, or nowhere but in swap; nobody has
\* got the frame.
LEMMA DondeEsta ==
  ASSUME IndMarcos, ~lleno, EnSwap, Cuentas, NEW g \in Paginas, PorUsar(g)
  PROVE  /\ pagina[g].presente => /\ pagina[g].frame \in Frames \ EnMano /\ g \in Vivas
                                  /\ Donde(g) = marco[pagina[g].frame].dato
                                  /\ marco[pagina[g].frame].de = g
         /\ ~pagina[g].presente => pagina[g].frame = 0
         /\ ~pagina[g].presente /\ g \in Vivas =>
              /\ pagina[g].swap \in Swap /\ Donde(g) = swap[pagina[g].swap].dato
              /\ ~swap[pagina[g].swap].libre
         /\ g \notin Vivas => pagina[g].swap = 0 /\ Donde(g) = Dato(g)
<1>1. /\ pagina[g] \in TipoPagina /\ 0 \notin Frames
  BY DEF IndMarcos, FormaPaginas, FormaMemoria, Frames
<1>2. ASSUME pagina[g].presente
      PROVE  /\ pagina[g].frame \in Frames \ EnMano /\ g \in Vivas /\ marco[pagina[g].frame].de = g
  BY <1>2 DEF IndMarcos, EnMemoria, Marcos, EnSwap
<1>3. ASSUME ~pagina[g].presente, g \in Vivas
      PROVE  /\ pagina[g].frame = 0 /\ pagina[g].swap # 0 /\ ~swap[pagina[g].swap].libre
  BY <1>3 DEF EnSwap
<1>4. ASSUME g \notin Vivas PROVE pagina[g].frame = 0 /\ pagina[g].swap = 0 /\ ~pagina[g].presente
  <2>1. ~Cargada(g)
    BY <1>4 DEF PorUsar
  <2> QED BY <1>2, <1>4, <2>1 DEF Cuentas
<1>5. pagina[g].swap # 0 => pagina[g].swap \in Swap
  BY <1>1 DEF TipoPagina
<1> QED BY <1>1, <1>2, <1>3, <1>4, <1>5 DEF Donde

\* A victim goes with its data to a frame of swap that no page was in.
LEMMA ConseguirSwap ==
  ASSUME IndMarcos, ~lleno, EnSwap, Cuentas, EnMano = {}, NEW f \in Frames, Conseguir(f),
         marco' = marco, UNCHANGED <<patotas, perdidos>>
  PROVE  /\ \A g \in Paginas : /\ pagina'[g].usados = pagina[g].usados
                               /\ ~Cargada(g) => /\ pagina'[g].frame = pagina[g].frame
                                                 /\ pagina'[g].swap = pagina[g].swap
         /\ Vivas' = Vivas /\ (~lleno' => EnSwap')
         /\ \A g \in Paginas : PorUsar(g) => Donde(g)' = Donde(g)
<1>1. FormaMemoria /\ Marcos /\ 0 \notin Frames /\ Vivas \subseteq Paginas
  BY DEF IndMarcos, FormaPaginas, EnMemoria, Frames, Vivas
<1>2. CASE FramesLibres # {}
  <2>1. swap' = swap /\ pagina' = pagina
    BY <1>2 DEF Conseguir
  <2>2. Vivas' = Vivas
    BY <2>1, VivasIguales
  <2>3. EnSwap'
    BY <1>1, <2>1, <2>2, EnSwapIgual
  <2> QED BY <2>1, <2>2, <2>3 DEF Donde
<1>3. CASE FramesLibres = {}
  <2> DEFINE v == marco[f].de
             s == Min(SwapLibre)
  <2>1. Victima(f, v) /\ v \in Paginas /\ pagina[v].presente /\ pagina[v].frame = f
    BY <1>3, SustituirBien
  <2>2. \A g \in Paginas \ {v} : /\ pagina'[g].presente = pagina[g].presente
                                 /\ pagina'[g].frame = pagina[g].frame
                                 /\ pagina'[g].swap = pagina[g].swap
    BY <2>1 DEF Victima
  <2>3. \A g \in Paginas : pagina'[g].usados = pagina[g].usados
    BY <2>1 DEF Victima
  <2>4. Vivas' = Vivas /\ v \in Vivas /\ marco[f].dato.de = v
    BY <2>1, <2>3, VivasIguales DEF EnSwap
  <2>5. Cargada(v)
    BY <1>1, <2>1 DEF Marcos
  <2>6. CASE SwapLibre = {}
    <3>1. lleno' /\ swap' = swap /\ pagina'[v].frame = f /\ pagina'[v].swap = pagina[v].swap
      BY <2>1, <2>6 DEF Victima
    <3>2. \A g \in Paginas : pagina'[g].frame = pagina[g].frame /\ pagina'[g].swap = pagina[g].swap
      BY <2>1, <2>2, <3>1
    <3>3. \A g \in Paginas : Donde(g)' = Donde(g)
      BY <3>1, <3>2 DEF Donde
    <3> QED BY <2>3, <2>4, <3>1, <3>2, <3>3
  <2>7. CASE SwapLibre # {}
    <3>1. /\ ~pagina'[v].presente /\ pagina'[v].frame = 0 /\ pagina'[v].swap = s
          /\ swap' = [swap EXCEPT ![s] = [libre |-> FALSE, dato |-> marco[f].dato]]
      BY <2>1, <2>7 DEF Victima
    <3>2. s \in Swap /\ swap[s].libre /\ s # 0
      <4>1. SwapLibre \in SUBSET Nat
        BY ConstantesOK DEF SwapLibre, Swap
      <4>2. s \in SwapLibre
        BY ONLY <4>1, <2>7, MinEsta
      <4> QED BY <4>2 DEF SwapLibre, Swap
    <3> HIDE DEF v, s
    <3>3. swap'[s] = [libre |-> FALSE, dato |-> marco[f].dato] /\ \A x \in Swap \ {s} : swap'[x] = swap[x]
      BY <1>1, <3>1, <3>2 DEF FormaMemoria
    <3>4. \A g \in Vivas : ~pagina[g].presente => pagina[g].swap \in Swap \ {s}
      <4>1. ASSUME NEW g \in Vivas, ~pagina[g].presente PROVE pagina[g].swap \in Swap \ {s}
        <5>1. pagina[g].swap \in Swap /\ ~swap[pagina[g].swap].libre
          BY <1>1, <4>1, DondeEsta DEF PorUsar
        <5> QED BY <3>2, <5>1
      <4> QED BY <4>1
    <3>5. \A x \in perdidos : x # s
      BY <3>2 DEF EnSwap
    <3>6. EnSwap'
      <4>1. \A g \in Paginas : pagina'[g].presente => g \in Vivas /\ marco[pagina'[g].frame].dato.de = g
        BY <2>2, <3>1 DEF EnSwap
      <4>2. ASSUME NEW g \in Vivas, ~pagina'[g].presente
            PROVE  /\ pagina'[g].frame = 0 /\ pagina'[g].swap # 0 /\ ~swap'[pagina'[g].swap].libre
                   /\ swap'[pagina'[g].swap].dato.de = g /\ pagina'[g].swap \notin perdidos
                   /\ \A h \in Vivas \ {g} : ~pagina'[h].presente => pagina'[h].swap # pagina'[g].swap
        <5>1. CASE g = v
          <6>1. ASSUME NEW h \in Vivas \ {g}, ~pagina'[h].presente PROVE pagina'[h].swap # s
            BY <1>1, <2>2, <3>4, <5>1, <6>1
          <6> QED BY <2>4, <3>1, <3>2, <3>3, <3>5, <5>1, <6>1
        <5>2. CASE g # v
          <6>1. /\ ~pagina[g].presente /\ pagina'[g].frame = pagina[g].frame
                /\ pagina'[g].swap = pagina[g].swap /\ pagina[g].swap \in Swap \ {s}
            BY <1>1, <2>2, <3>4, <4>2, <5>2
          <6>2. ASSUME NEW h \in Vivas \ {g}, ~pagina'[h].presente PROVE pagina'[h].swap # pagina'[g].swap
            <7>1. CASE h = v
              BY <3>1, <6>1, <7>1
            <7>2. CASE h # v
              <8>1. ~pagina[h].presente /\ pagina'[h].swap = pagina[h].swap
                BY <1>1, <2>2, <6>2, <7>2
              <8> QED BY <6>1, <8>1 DEF EnSwap
            <7> QED BY <7>1, <7>2
          <6>3. swap'[pagina[g].swap] = swap[pagina[g].swap]
            BY <3>3, <6>1
          <6> QED BY <6>1, <6>2, <6>3 DEF EnSwap
        <5> QED BY <5>1, <5>2
      <4>3. \A x \in perdidos : ~swap'[x].libre
        BY <3>1, <3>5 DEF EnSwap
      <4>4. ASSUME NEW x \in Swap, ~swap'[x].libre
            PROVE  x \in perdidos \/ \E g \in Vivas : ~pagina'[g].presente /\ pagina'[g].swap = x
        <5>1. CASE x = s
          BY <2>4, <3>1, <5>1
        <5>2. CASE x # s
          <6>1. x \in perdidos \/ \E g \in Vivas : ~pagina[g].presente /\ pagina[g].swap = x
            BY <3>3, <4>4, <5>2 DEF EnSwap
          <6>2. ASSUME NEW g \in Vivas, ~pagina[g].presente
                PROVE  ~pagina'[g].presente /\ pagina'[g].swap = pagina[g].swap
            BY <1>1, <2>1, <2>2, <6>2
          <6> QED BY <6>1, <6>2
        <5> QED BY <5>1, <5>2
      <4> HIDE DEF Vivas
      <4> QED BY <2>4, <4>1, <4>2, <4>3, <4>4 DEF EnSwap
    <3>7. ASSUME NEW g \in Paginas, PorUsar(g) PROVE Donde(g)' = Donde(g)
      <4>1. CASE g = v
        <5>1. Donde(g) = marco[f].dato
          BY <1>1, <2>1, <4>1 DEF Donde
        <5>2. Donde(g)' = swap'[s].dato
          BY <3>1, <3>2, <4>1 DEF Donde
        <5> QED BY <3>3, <5>1, <5>2
      <4>2. CASE g # v
        <5>1. pagina'[g].frame = pagina[g].frame /\ pagina'[g].swap = pagina[g].swap
          BY <2>2, <4>2
        <5>2. pagina[g].frame = 0 /\ pagina[g].swap # 0 => swap'[pagina[g].swap] = swap[pagina[g].swap]
          <6>1. CASE pagina[g].presente
            BY <1>1, <3>7, <6>1, DondeEsta
          <6>2. CASE ~pagina[g].presente /\ g \in Vivas
            BY <3>3, <3>4, <6>2
          <6>3. CASE g \notin Vivas
            BY <3>7, <6>3, DondeEsta
          <6> QED BY <6>1, <6>2, <6>3
        <5> QED BY <5>1, <5>2 DEF Donde
      <4> QED BY <4>1, <4>2
    <3> QED BY <2>2, <2>3, <2>4, <2>5, <3>6, <3>7
  <2> QED BY <2>6, <2>7
<1> QED BY <1>2, <1>3

-----------------------------------------------------------------------------
(* Using a page.                                                             *)

\* What is in a page before an access and after it.
Cambia(antes, luego) ==
  IF Head(curso.pasos).modo = "avanza"
  THEN \A u \in Trips : luego.prox[u] = IF u = curso.t THEN curso.tarea + 1 ELSE antes.prox[u]
  ELSE luego = antes

\* What is left to do after it.
Sigue(antes) ==
  LET modo == Head(curso.pasos).modo IN
  /\ curso'.t = curso.t /\ curso'.op = curso.op
  /\ curso'.tarea = IF modo = "tarea" THEN antes.prox[curso.t] ELSE curso.tarea
  /\ curso'.pasos = IF modo = "avanza" THEN AccesosDeTarea(curso.t, curso.tarea)
                                       ELSE Tail(curso.pasos)

\* Acceder touches the data of one frame, and moves a next task on only where the access says so.
LEMMA AccederCambia ==
  ASSUME FormaCurso, curso.pasos # <<>>, NEW marcos \in [Frames -> Marco], NEW f \in Frames,
         Acceder(marcos, f)
  PROVE  /\ \A e \in Frames \ {f} : marco'[e] = marcos[e]
         /\ Cambia(marcos[f].dato, marco'[f].dato) /\ Sigue(marcos[f].dato)
<1>1. curso \in TipoCurso /\ curso.t \in Trips
  BY Cursando DEF FormaCurso, TipoCurso
<1>2. PICK h \in TipoCurso : /\ h = Hecho /\ h.t = curso.t /\ h.op = curso.op /\ h.tarea = curso.tarea
                             /\ h.pasos = Tail(curso.pasos)
  <2>1. Tail(curso.pasos) \in Seq(Accesibles)
    BY Cursando
  <2>2. /\ Hecho \in TipoCurso /\ Hecho.t = curso.t /\ Hecho.op = curso.op
        /\ Hecho.tarea = curso.tarea /\ Hecho.pasos = Tail(curso.pasos)
    BY <1>1, <2>1 DEF Hecho, TipoCurso
  <2> QED BY <2>2
<1>3. PICK m \in Marco : m = marcos[f]
  OBVIOUS
<1>4. m.dato \in Datos /\ m.dato.prox \in [Trips -> Nat]
  BY DEF Marco, Datos
<1>5. CASE Head(curso.pasos).modo = "avanza"
  <2>1. PICK n \in Nat : n = curso.tarea + 1
    BY <1>1 DEF TipoCurso
  <2>2. marco' = [marcos EXCEPT ![f].dato.prox[curso.t] = n]
    BY <1>5, <2>1 DEF Acceder, Avanzar
  <2> DEFINE q == [m.dato.prox EXCEPT ![curso.t] = n]
             d == [m.dato EXCEPT !.prox = q]
             r == [m EXCEPT !.dato = d]
  <2>3. marco' = [marcos EXCEPT ![f] = r]
    BY <2>2, <1>3
  <2>4. q \in [Trips -> Nat] /\ \A u \in Trips : q[u] = IF u = curso.t THEN n ELSE m.dato.prox[u]
    BY <1>4
  <2> HIDE DEF q
  <2>5. d.prox = q
    BY <1>4 DEF Datos
  <2> HIDE DEF d
  <2>6. r.dato = d
    BY DEF Marco
  <2> HIDE DEF r
  <2>7. marco'[f].dato.prox = q /\ \A e \in Frames \ {f} : marco'[e] = marcos[e]
    BY <2>3, <2>5, <2>6
  <2>8. Cambia(marcos[f].dato, marco'[f].dato)
    BY <1>3, <1>5, <2>1, <2>4, <2>7 DEF Cambia
  <2>9. curso' = [Hecho EXCEPT !.pasos = AccesosDeTarea(curso.t, curso.tarea)]
    BY <1>5 DEF Acceder
  <2>10. Sigue(marcos[f].dato)
    BY <1>2, <1>5, <2>9 DEF Sigue, TipoCurso
  <2> QED BY <2>7, <2>8, <2>10
<1>6. CASE Head(curso.pasos).modo # "avanza"
  <2>1. marco' = marcos
    BY <1>6 DEF Acceder
  <2>2. Cambia(marcos[f].dato, marco'[f].dato)
    BY <1>6, <2>1 DEF Cambia
  <2>3. Sigue(marcos[f].dato)
    <3>1. CASE Head(curso.pasos).modo = "tarea"
      <4>1. curso' = [Hecho EXCEPT !.tarea = marcos[f].dato.prox[curso.t]]
        BY <3>1 DEF Acceder
      <4> QED BY <1>2, <3>1, <4>1 DEF Sigue, TipoCurso
    <3>2. CASE Head(curso.pasos).modo # "tarea"
      <4>1. curso' = Hecho
        BY <1>6, <3>2 DEF Acceder
      <4> QED BY <1>2, <1>6, <3>2, <4>1 DEF Sigue
    <3> QED BY <3>1, <3>2
  <2> QED BY <2>1, <2>2, <2>3
<1> QED BY <1>5, <1>6

\* An access to the page of the request: the others that may be needed are as they were.
Accedio ==
  /\ Sigue(Donde(Pag))
  /\ \A g \in Paginas : PorUsar(g) => IF g = Pag THEN Cambia(Donde(g), Donde(g)') ELSE Donde(g)' = Donde(g)

\* A page in memory.
LEMMA UsarAccede ==
  ASSUME IndMarcos, EnSwap, Cuentas, ~lleno, curso.pasos # <<>>, curso.indice # 0,
         UNCHANGED <<swap, patotas, perdidos>>,
         pagina' = [pagina EXCEPT ![Pag].uso = TRUE], Acceder(marco, pagina[Pag].frame)
  PROVE  /\ EnSwap' /\ Vivas' = Vivas /\ Accedio
         /\ \A h \in Paginas : /\ pagina'[h].usados = pagina[h].usados
                               /\ pagina'[h].frame = pagina[h].frame /\ pagina'[h].swap = pagina[h].swap
<1>1. /\ FormaMemoria /\ FormaCurso /\ Marcos /\ 0 \notin Frames /\ Pag \in Paginas /\ pagina[Pag].presente
  BY Cursando DEF IndMarcos, FormaPaginas, EnMemoria, Frames, FormaCurso
<1>2. PICK g \in Paginas, f \in Frames : g = Pag /\ f = pagina[g].frame
  BY <1>1 DEF Marcos
<1>3. marco \in [Frames -> Marco] /\ Acceder(marco, f)
  BY <1>1, <1>2 DEF FormaMemoria, Marco
<1>4. /\ \A e \in Frames : marco'[e].dato.de = marco[e].dato.de
      /\ \A e \in Frames \ {f} : marco'[e] = marco[e]
      /\ Cambia(marco[f].dato, marco'[f].dato) /\ Sigue(marco[f].dato)
  BY <1>1, <1>3, AccederBien, AccederCambia
<1>5. \A h \in Paginas : /\ pagina'[h].presente = pagina[h].presente
                         /\ pagina'[h].frame = pagina[h].frame /\ pagina'[h].swap = pagina[h].swap
                         /\ pagina'[h].usados = pagina[h].usados
  <2>1. PICK x \in TipoPagina : x = pagina[g]
    BY <1>1 DEF FormaMemoria
  <2>2. pagina' = [pagina EXCEPT ![g] = [x EXCEPT !.uso = TRUE]]
    BY <1>2, <2>1
  <2>3. \A h \in Paginas \ {g} : pagina'[h] = pagina[h]
    BY <1>1, <2>2 DEF FormaMemoria
  <2>4. pagina'[g] = [x EXCEPT !.uso = TRUE]
    BY <1>1, <2>2 DEF FormaMemoria
  <2>5. /\ pagina'[g].presente = x.presente /\ pagina'[g].frame = x.frame
        /\ pagina'[g].swap = x.swap /\ pagina'[g].usados = x.usados
    BY <2>4 DEF TipoPagina
  <2> QED BY <2>1, <2>3, <2>5
<1>6. Vivas' = Vivas
  BY <1>5, VivasIguales
<1>7. EnSwap'
  BY <1>1, <1>4, <1>5, <1>6, EnSwapIgual
<1>8. Donde(g) = marco[f].dato /\ Donde(g)' = marco'[f].dato
  BY <1>1, <1>2, <1>5 DEF Donde
<1>9. ASSUME NEW h \in Paginas, PorUsar(h), h # g PROVE Donde(h)' = Donde(h)
  <2>1. pagina[h].frame # 0 => pagina[h].frame \in Frames \ {f}
    <3>1. /\ pagina[h].presente => pagina[h].frame \in Frames /\ marco[pagina[h].frame].de = h
          /\ ~pagina[h].presente => pagina[h].frame = 0
      BY <1>9, DondeEsta
    <3>2. marco[f].de = g
      BY <1>1, <1>2 DEF Marcos
    <3> QED BY <1>9, <3>1, <3>2
  <2> QED BY <1>4, <1>5, <2>1 DEF Donde
<1>10. Sigue(Donde(Pag))
  BY <1>2, <1>4, <1>8
<1>11. \A h \in Paginas : PorUsar(h) => IF h = Pag THEN Cambia(Donde(h), Donde(h)') ELSE Donde(h)' = Donde(h)
  BY <1>2, <1>4, <1>8, <1>9
<1> QED BY <1>5, <1>6, <1>7, <1>10, <1>11 DEF Accedio

\* A page that was in swap: its frame there is free, and nobody else's was it.
LEMMA InstalarAccede ==
  ASSUME IndMarcos, EnSwap, Cuentas, ~lleno, NEW f \in Frames, NEW g \in Vivas, NEW s \in Swap,
         curso.pasos # <<>>, g = Pag, EnMano = {f}, ~pagina[g].presente, s = pagina[g].swap,
         UNCHANGED <<patotas, perdidos>>, swap' = [swap EXCEPT ![s].libre = TRUE],
         pagina' = [pagina EXCEPT ![g].presente = TRUE, ![g].frame = f, ![g].uso = TRUE],
         Acceder([marco EXCEPT ![f] = [libre |-> FALSE, de |-> g, dato |-> swap[s].dato]], f)
  PROVE  /\ EnSwap' /\ Vivas' = Vivas /\ Accedio
         /\ \A h \in Paginas : /\ pagina'[h].usados = pagina[h].usados
                               /\ h # g => pagina'[h].frame = pagina[h].frame
                               /\ pagina'[h].swap = pagina[h].swap
<1>1. /\ FormaMemoria /\ FormaCurso /\ Marcos /\ 0 \notin Frames /\ 0 \notin Swap /\ Vivas \subseteq Paginas
  BY DEF IndMarcos, FormaPaginas, EnMemoria, Frames, Swap, Vivas
<1>2. PICK w \in [libre : BOOLEAN, dato : Datos] : w = swap[s]
  BY <1>1 DEF FormaMemoria
<1> DEFINE d == [libre |-> FALSE, de |-> g, dato |-> w.dato]
           marcos == [marco EXCEPT ![f] = d]
<1>3. d \in Marco /\ d.dato = w.dato
  BY <1>1, <1>2 DEF Marco
<1>4. Acceder(marcos, f)
  BY <1>2
<1> HIDE DEF d
<1>5. marcos \in [Frames -> Marco] /\ marcos[f] = d /\ \A e \in Frames \ {f} : marcos[e] = marco[e]
  <2>1. marco \in [Frames -> Marco]
    BY <1>1 DEF FormaMemoria, Marco
  <2> QED BY <1>3, <2>1
<1> HIDE DEF marcos
<1>6. /\ marco'[f].dato.de = w.dato.de /\ \A e \in Frames \ {f} : marco'[e] = marco[e]
      /\ Cambia(w.dato, marco'[f].dato) /\ Sigue(w.dato)
  BY <1>1, <1>3, <1>4, <1>5, AccederBien, AccederCambia
<1>7. /\ \A h \in Paginas \ {g} : pagina'[h] = pagina[h]
      /\ pagina'[g].presente /\ pagina'[g].frame = f /\ pagina'[g].swap = s
      /\ pagina'[g].usados = pagina[g].usados
  <2>1. PICK x \in TipoPagina : x = pagina[g]
    BY <1>1 DEF FormaMemoria
  <2> DEFINE y == [x EXCEPT !.presente = TRUE, !.frame = f, !.uso = TRUE]
  <2>2. pagina' = [pagina EXCEPT ![g] = y]
    BY <2>1
  <2>3. y.presente /\ y.frame = f /\ y.swap = x.swap /\ y.usados = x.usados
    BY DEF TipoPagina
  <2> HIDE DEF y
  <2>4. pagina'[g] = y /\ \A h \in Paginas \ {g} : pagina'[h] = pagina[h]
    BY <1>1, <2>2 DEF FormaMemoria
  <2> QED BY <2>1, <2>3, <2>4
<1>8. /\ swap'[s].libre /\ swap'[s].dato = w.dato /\ \A x \in Swap \ {s} : swap'[x] = swap[x]
  <2>1. swap' = [swap EXCEPT ![s] = [w EXCEPT !.libre = TRUE]]
    BY <1>2
  <2> QED BY <1>1, <2>1 DEF FormaMemoria
<1>9. Vivas' = Vivas
  BY <1>7, VivasIguales
<1>10. w.dato.de = g /\ s \notin perdidos
       /\ \A h \in Vivas \ {g} : ~pagina[h].presente => pagina[h].swap # s
  BY <1>1, <1>2 DEF EnSwap
<1>11. \A h \in Vivas : ~pagina[h].presente => pagina[h].swap \in Swap
  BY <1>1, DondeEsta DEF PorUsar
<1>12. EnSwap'
  <2>1. ASSUME NEW h \in Paginas, pagina'[h].presente
        PROVE  h \in Vivas /\ marco'[pagina'[h].frame].dato.de = h
    <3>1. CASE h = g
      BY <1>6, <1>7, <1>10, <3>1
    <3>2. CASE h # g
      <4>1. pagina[h].presente /\ pagina'[h].frame = pagina[h].frame /\ pagina[h].frame \in Frames \ {f}
        BY <1>1, <1>7, <2>1, <3>2 DEF Marcos
      <4>2. h \in Vivas /\ marco[pagina[h].frame].dato.de = h
        BY <4>1 DEF EnSwap
      <4> QED BY <1>6, <4>1, <4>2
    <3> QED BY <3>1, <3>2
  <2>2. ASSUME NEW h \in Vivas, ~pagina'[h].presente
        PROVE  /\ pagina'[h].frame = 0 /\ pagina'[h].swap # 0 /\ ~swap'[pagina'[h].swap].libre
               /\ swap'[pagina'[h].swap].dato.de = h /\ pagina'[h].swap \notin perdidos
               /\ \A k \in Vivas \ {h} : ~pagina'[k].presente => pagina'[k].swap # pagina'[h].swap
    <3>1. h # g /\ ~pagina[h].presente /\ pagina'[h] = pagina[h]
      BY <1>1, <1>7, <2>2
    <3>2. swap'[pagina[h].swap] = swap[pagina[h].swap]
      BY <1>8, <1>10, <1>11, <3>1
    <3>3. ASSUME NEW k \in Vivas \ {h}, ~pagina'[k].presente PROVE pagina'[k].swap # pagina'[h].swap
      <4>1. ~pagina[k].presente /\ pagina'[k] = pagina[k]
        BY <1>1, <1>7, <3>3
      <4> QED BY <3>1, <4>1 DEF EnSwap
    <3>4. /\ pagina[h].frame = 0 /\ pagina[h].swap # 0 /\ ~swap[pagina[h].swap].libre
          /\ swap[pagina[h].swap].dato.de = h /\ pagina[h].swap \notin perdidos
      BY <3>1 DEF EnSwap
    <3> QED BY ONLY <3>1, <3>2, <3>3, <3>4
  <2>3. \A x \in perdidos : ~swap'[x].libre
    BY <1>10 DEF EnSwap
  <2>4. ASSUME NEW x \in Swap, ~swap'[x].libre
        PROVE  x \in perdidos \/ \E h \in Vivas : ~pagina'[h].presente /\ pagina'[h].swap = x
    <3>1. x # s /\ ~swap[x].libre
      BY <1>8, <2>4
    <3>2. ASSUME NEW h \in Vivas, ~pagina[h].presente, pagina[h].swap = x
          PROVE  ~pagina'[h].presente /\ pagina'[h].swap = x
      BY <1>1, <1>7, <3>1, <3>2
    <3> QED BY <3>1, <3>2 DEF EnSwap
  <2>5. perdidos' = perdidos
    OBVIOUS
  <2> HIDE DEF Vivas
  <2> QED BY ONLY <1>9, <2>1, <2>2, <2>3, <2>4, <2>5 DEF EnSwap
<1>13. Donde(g) = w.dato /\ Donde(g)' = marco'[f].dato
  <2>1. pagina[g].frame = 0
    BY DEF EnSwap
  <2> QED BY <1>1, <1>2, <1>7, <2>1 DEF Donde
<1>14. ASSUME NEW h \in Paginas, PorUsar(h), h # g PROVE Donde(h)' = Donde(h)
  <2>1. pagina'[h] = pagina[h]
    BY <1>7, <1>14
  <2>2. CASE pagina[h].presente
    <3>1. pagina[h].frame \in Frames \ {f} /\ pagina[h].frame # 0
      BY <1>1, <1>14, <2>2, DondeEsta
    <3>2. marco'[pagina[h].frame] = marco[pagina[h].frame]
      BY <1>6, <3>1
    <3> QED BY ONLY <2>1, <3>1, <3>2 DEF Donde
  <2>3. CASE ~pagina[h].presente /\ h \in Vivas
    <3>1. pagina[h].frame = 0 /\ pagina[h].swap \in Swap \ {s} /\ pagina[h].swap # 0
      BY <1>1, <1>10, <1>11, <1>14, <2>3, DondeEsta
    <3>2. swap'[pagina[h].swap] = swap[pagina[h].swap]
      BY <1>8, <3>1
    <3> QED BY ONLY <2>1, <3>1, <3>2 DEF Donde
  <2>4. CASE ~pagina[h].presente /\ h \notin Vivas
    <3>1. pagina[h].frame = 0 /\ pagina[h].swap = 0
      BY <1>14, <2>4, DondeEsta
    <3> QED BY <2>1, <3>1 DEF Donde
  <2> QED BY <2>2, <2>3, <2>4
<1>15. Sigue(Donde(Pag))
  BY <1>6, <1>13
<1>16. \A h \in Paginas : PorUsar(h) => IF h = Pag THEN Cambia(Donde(h), Donde(h)') ELSE Donde(h)' = Donde(h)
  BY <1>6, <1>13, <1>14
<1> QED BY <1>7, <1>9, <1>12, <1>15, <1>16 DEF Accedio

-----------------------------------------------------------------------------
(* A patota comes.                                                           *)

\* What a step that does not serve a request leaves.
LEMMA ProgresoIgual ==
  ASSUME Progreso, UNCHANGED <<curso, idos, respuestas>>, Vivas \subseteq Vivas',
         \A t \in Trips \ idos : Sabe(t)' = Sabe(t)
  PROVE  Progreso'
<1>1. \A t \in Trips \ idos' : Sabe(t)' = respuestas'[t] + IF curso'.t = t /\ Avanzo(curso') THEN 1 ELSE 0
  BY DEF Progreso
<1>2. curso' # SinCurso => Fase(curso', respuestas'[curso'.t])
  BY DEF Progreso
<1>3. \A i \in DOMAIN curso'.pasos : curso'.pasos[i].pag \in Vivas'
  BY DEF Progreso
<1> QED BY <1>1, <1>2, <1>3 DEF Progreso

\* The counters stay when nobody is answered and nobody leaves.
LEMMA ContablesIguales ==
  ASSUME Contables, UNCHANGED <<respuestas, bajas>>, caida' \in BOOLEAN
  PROVE  Contables' /\ UNCHANGED <<idos, perdidos>>
BY DEF Contables, bajas

\* RecibirPatota: a patota that there is room for comes with its crews, one that does not fit stops the process.
LEMMA RecibirContenidos ==
  ASSUME IndMemoria, ~Solapadas, RecibirPatota
  PROVE  Contenidos' /\ [Plana!MNext]_(Plana!mvars)
<1> DEFINE p == recibidas + 1
<1>1. /\ ~lleno /\ ~caida /\ ini = SinAlta /\ curso = SinCurso /\ recibidas < Len(Patotas)
      /\ UNCHANGED <<algoritmo, memoria, vivos, esperan, curso, respuestas, bajas, caida>>
  BY DEF RecibirPatota, Andando, TablaDePatotasLibre, NadieReemplaza
<1>2. /\ IndMarcos /\ FormaMemoria /\ FormaAlta /\ Marcos /\ Contables /\ Cuentas /\ Turnos
      /\ EnSwap /\ Progreso
  BY <1>1 DEF IndMemoria, Contenidos, IndMarcos, FormaPaginas, EnMemoria
<1>3. /\ marco' = marco /\ swap' = swap /\ pagina' = pagina /\ lleno' = lleno
      /\ Contables' /\ UNCHANGED <<idos, perdidos>>
  BY <1>1, <1>2, ContablesIguales DEF memoria, Contables
<1>4. Turnos'
  BY <1>1, <1>2, <1>3, TurnosIguales
<1>5. \A t \in Trips \ idos : Sabe(t)' = Sabe(t)
  <2>1. \A g \in Paginas : Donde(g)' = Donde(g)
    BY <1>3 DEF Donde
  <2> QED BY <1>2, <2>1, SabeIgual
<1>6. ASSUME Vivas' = Vivas PROVE EnSwap' /\ Progreso'
  <2>1. EnSwap'
    BY <1>2, <1>3, <1>6, EnSwapIgual
  <2> QED BY <1>1, <1>2, <1>3, <1>5, <1>6, <2>1, ProgresoIgual
<1>7. CASE ~Entra(p)
  <2>1. UNCHANGED <<patotas, aceptadas, ini>>
    BY <1>7 DEF RecibirPatota
  <2>2. Cuentas'
    BY <1>1, <1>2, <1>3, <2>1, CuentasIguales
  <2>3. Vivas' = Vivas
    BY <1>3, <2>1, VivasIguales
  <2>4. Igual
    BY <1>1, <1>3, <1>5, <2>1 DEF Igual
  <2> QED BY <1>3, <1>4, <1>6, <2>2, <2>3, <2>4, VeIgual DEF Contenidos
<1>8. CASE Entra(p)
  <2>1. patotas' = Append(patotas, p) /\ aceptadas' = aceptadas \cup {p} /\ ini' = [SinAlta EXCEPT !.pid = p]
    BY <1>8 DEF RecibirPatota
  <2>2. p \in Pids /\ aceptadas \subseteq 1..recibidas /\ p \notin aceptadas
    BY <1>1, <1>2, Pedidas DEF FormaAlta
  <2> HIDE DEF p
  <2>3. ini.pid = 0 /\ ini'.pid = p /\ ini'.sigue = 0
    BY <1>1, <2>1 DEF SinAlta
  <2>4. \A g \in Paginas : (Cargada(g)' <=> Cargada(g)) /\ (g[1] = p => ~Cargada(g))
    <3>1. ASSUME NEW g \in Paginas PROVE (Cargada(g)' <=> Cargada(g)) /\ (g[1] = p => ~Cargada(g))
      <4>1. g[1] # 0 /\ g[2] \in Nat /\ ~(g[2] < 0)
        BY NombrePagina, Pedidas
      <4> QED BY <2>1, <2>2, <2>3, <4>1 DEF Cargada
    <3> QED BY <3>1
  <2>5. patotas \in Seq(Pids) /\ ToSet(patotas) = {q \in aceptadas : vivos[q] > 0} /\ p \notin ToSet(patotas)
    BY <1>2, <2>2 DEF Cuentas
  <2>6. patotas' \in Seq(Pids) /\ ToSet(patotas)' = ToSet(patotas) \cup {p}
    <3>1. Append(patotas, p) \in Seq(Pids) /\ Range(Append(patotas, p)) = Range(patotas) \cup {p}
      BY <2>2, <2>5, AgregarSeq
    <3> QED BY <2>1, <3>1 DEF ToSet, Range
  <2>7. \A t \in idos : t[1] # p /\ t[1] \in aceptadas
    BY <1>2, <2>2 DEF Cuentas
  <2>8. vivos[p] \in Nat \ {0}
    <3>1. <<p, 1>> \in Trips /\ <<p, 1>>[1] = p
      BY <2>2, Pedidas
    <3>2. <<p, 1>> \in Trips \ idos
      BY <2>7, <3>1
    <3> QED BY <1>2, <3>1, <3>2, Contada
  <2>9. Cuentas'
    <3>1. \A q \in Pids : SinSalir(q)' = SinSalir(q)
      BY <1>3 DEF SinSalir
    <3>2. ToSet(patotas)' = {q \in aceptadas' : vivos'[q] > 0}
      BY <1>1, <2>1, <2>5, <2>6, <2>8
    <3>3. /\ idos' \subseteq Trips /\ \A t \in idos' : t[1] \in aceptadas' /\ t[1] # ini'.pid
          /\ vivos' \in [Pids -> Nat] /\ \A q \in Pids : vivos'[q] = Cardinality(SinSalir(q)')
      BY <1>1, <1>2, <1>3, <2>1, <2>3, <2>7, <3>1 DEF Cuentas
    <3>4. ASSUME NEW g \in Paginas
          PROVE  IF Cargada(g)' THEN pagina'[g].usados = Cardinality(Quedan(g, idos'))
                 ELSE pagina'[g].usados = 0 /\ pagina'[g].frame = 0 /\ pagina'[g].swap = 0
      BY <1>2, <1>3, <2>4 DEF Cuentas
    <3> QED BY <2>6, <3>2, <3>3, <3>4 DEF Cuentas
  <2>10. Vivas' = Vivas
    <3>1. \A g \in Paginas : g[1] = p => ~(pagina[g].usados > 0)
      BY <1>2, <2>4 DEF Cuentas
    <3> QED BY <1>3, <2>6, <3>1 DEF Vivas
  <2>11. ASSUME NEW t \in Trips \ idos, t[1] = p PROVE Sabe(t) = 0
    <3>1. DeProxima(t) \in PaginasConTcb(t)
      BY PaginasDelTcb DEF DeProxima, proxima_tarea
    <3>2. DeProxima(t) \in Paginas /\ DeProxima(t)[1] = p
      BY <1>2, <2>11, <3>1, PaginaDeVivo
    <3>3. pagina[DeProxima(t)].frame = 0 /\ pagina[DeProxima(t)].swap = 0
      BY <1>2, <2>4, <3>2 DEF Cuentas
    <3>4. Donde(DeProxima(t)) = Dato(DeProxima(t))
      BY <3>3 DEF Donde
    <3> QED BY <3>4 DEF Sabe, Dato
  <2>12. Plana!Admitir(p) /\ p \in Plana!Pids
    <3>1. UNCHANGED <<idos, respuestas>> /\ p \in Pids \ ToSet(patotas)
      BY <1>1, <1>3, <2>2, <2>5
    <3> QED BY <1>5, <2>6, <2>7, <2>11, <3>1, VeAdmitir, MismosNombres
  <2> QED BY <1>3, <1>4, <1>6, <2>9, <2>10, <2>12 DEF Contenidos, Plana!MNext
<1> QED BY <1>7, <1>8

\* ConseguirParaAlta: a page of the patota gets a frame, and the victim goes to swap.
LEMMA ConseguirAltaContenidos ==
  ASSUME IndMemoria, ConseguirParaAlta
  PROVE  Contenidos' /\ Igual
<1>1. /\ ~lleno /\ ~caida /\ ini # SinAlta /\ ini.frame = 0
      /\ UNCHANGED <<algoritmo, marco, tablas, recibidas, aceptadas, esperan, curso, respuestas, bajas, caida>>
  BY DEF ConseguirParaAlta, Andando
<1>2. /\ IndMarcos /\ FormaMemoria /\ FormaAlta /\ Marcos /\ Contables /\ Cuentas /\ Turnos
      /\ EnSwap /\ Progreso /\ EnMano = {}
  BY <1>1, ManosLibres DEF IndMemoria, Contenidos, IndMarcos, FormaPaginas, EnMemoria
<1>3. PICK f \in Frames : Conseguir(f) /\ ini' = [ini EXCEPT !.frame = f]
  BY DEF ConseguirParaAlta
<1>4. Contables' /\ UNCHANGED <<idos, perdidos>> /\ UNCHANGED <<patotas, vivos>>
  BY <1>1, <1>2, ContablesIguales DEF Contables, tablas
<1>5. /\ \A g \in Paginas : /\ pagina'[g].usados = pagina[g].usados
                            /\ ~Cargada(g) => /\ pagina'[g].frame = pagina[g].frame
                                              /\ pagina'[g].swap = pagina[g].swap
      /\ Vivas' = Vivas /\ (~lleno' => EnSwap')
      /\ \A g \in Paginas : PorUsar(g) => Donde(g)' = Donde(g)
  BY <1>1, <1>2, <1>3, <1>4, ConseguirSwap
<1>6. ini'.pid = ini.pid /\ ini'.sigue = ini.sigue
  BY <1>2, <1>3 DEF FormaAlta
<1>7. Cuentas'
  BY <1>1, <1>2, <1>4, <1>5, <1>6, CuentasIguales
<1>8. Turnos'
  BY <1>1, <1>2, <1>4, TurnosIguales
<1>9. \A t \in Trips \ idos : Sabe(t)' = Sabe(t)
  BY <1>2, <1>5, SabeIgual
<1>10. Progreso'
  BY <1>1, <1>2, <1>4, <1>5, <1>9, ProgresoIgual
<1> QED BY <1>1, <1>4, <1>5, <1>7, <1>8, <1>9, <1>10 DEF Contenidos, Igual

\* A page is loaded with all its bytes, and its crews at the first task.
LEMMA InstalarAltaContenidos ==
  ASSUME IndMemoria, InstalarParaAlta
  PROVE  Contenidos' /\ Igual
<1> DEFINE r == [presente |-> TRUE, frame |-> ini.frame, swap |-> 0, uso |-> TRUE,
                 usados |-> BytesUsados(<<ini.pid, ini.sigue>>)]
<1>1. /\ ~lleno /\ ~caida /\ ini.frame # 0
      /\ UNCHANGED <<algoritmo, swap, puntero, lleno, tablas, recibidas, aceptadas, esperan,
                     curso, respuestas, bajas, caida>>
  BY DEF InstalarParaAlta, Andando
<1>2. /\ IndMarcos /\ FormaMemoria /\ FormaAlta /\ Marcos /\ Contables /\ Cuentas /\ Turnos
      /\ EnSwap /\ Progreso /\ FormaPaginas
  BY <1>1 DEF IndMemoria, Contenidos, IndMarcos, FormaPaginas, EnMemoria
<1>3. ini # SinAlta /\ ini.pid \in Pids /\ curso = SinCurso /\ EnMano = {ini.frame} \ {0}
  BY <1>1, <1>2, ManosLibres DEF SinAlta
<1>4. /\ ini \in [pid : Pids \cup {0}, sigue : Nat, frame : Frames \cup {0}]
      /\ ini.pid \in aceptadas /\ ini.sigue < CantPaginas[ini.pid] /\ 0 \notin Pids
  BY <1>2, <1>3, Pedidas DEF FormaAlta
<1>5. PICK p \in Pids, k \in Nat, f \in Frames, g \in Paginas :
        /\ p = ini.pid /\ k = ini.sigue /\ f = ini.frame /\ g = <<p, k>>
  <2>1. ini.sigue \in 0..CantPaginas[ini.pid] - 1
    BY <1>3, <1>4, Tamanios
  <2> QED BY <1>1, <1>3, <1>4, <2>1, NombrePagina
<1>6. /\ pagina' = [pagina EXCEPT ![g] = r]
      /\ marco' = [marco EXCEPT ![f] = [libre |-> FALSE, de |-> g, dato |-> Dato(g)]]
      /\ ini' = IF k + 1 = CantPaginas[p] THEN SinAlta ELSE [ini EXCEPT !.sigue = @ + 1, !.frame = 0]
  BY <1>5 DEF InstalarParaAlta
<1>7. /\ r.presente /\ r.frame = f /\ r.swap = 0 /\ r.usados = BytesUsados(g)
  BY <1>5
<1> HIDE DEF r
<1>8. pagina'[g] = r /\ \A h \in Paginas \ {g} : pagina'[h] = pagina[h]
  BY <1>2, <1>6 DEF FormaMemoria
<1>9. marco'[f].dato = Dato(g) /\ \A e \in Frames \ {f} : marco'[e] = marco[e]
  BY <1>2, <1>6 DEF FormaMemoria
<1>10. EnMano = {f} /\ f # 0 /\ g[1] = p /\ g[2] = k /\ 0 \notin Frames
  BY <1>1, <1>3, <1>5 DEF Frames
<1>11. ~Cargada(g)
  BY <1>5, <1>10 DEF Cargada
<1>12. Contables' /\ UNCHANGED <<idos, perdidos>> /\ UNCHANGED <<patotas, vivos>>
  BY <1>1, <1>2, ContablesIguales DEF Contables, tablas
<1>13. Turnos'
  BY <1>1, <1>2, <1>12, TurnosIguales
<1>14. \A t \in idos : t[1] # p /\ t[1] \in aceptadas
  BY <1>2, <1>5 DEF Cuentas
<1>15. p \in ToSet(patotas)
  <2>1. <<p, 1>> \in Trips /\ <<p, 1>>[1] = p
    BY Pedidas
  <2>2. <<p, 1>> \in Trips \ idos
    BY <1>14, <2>1
  <2> QED BY <1>2, <1>4, <1>5, <2>1, <2>2, Contada
<1>16. Cardinality(Quedan(g, idos)) = r.usados /\ r.usados > 0
  BY <1>7, <1>10, <1>14, QuedanTodos
<1>17. ini'.pid \in {0, p} /\ \A h \in Paginas : Cargada(h)' <=> (Cargada(h) \/ h = g)
  <2>1. CASE k + 1 = CantPaginas[p]
    <3>1. ini'.pid = 0
      BY <1>6, <2>1 DEF SinAlta
    <3>2. ASSUME NEW h \in Paginas PROVE Cargada(h)' <=> (Cargada(h) \/ h = g)
      <4>1. h[1] # 0 /\ h = <<h[1], h[2]>> /\ h[2] \in 0..CantPaginas[h[1]] - 1
        BY NombrePagina, Pedidas
      <4>2. PICK n \in Nat : CantPaginas[p] = n
        BY Tamanios
      <4>3. h[1] = p => (h[2] < k \/ h = g)
        BY <1>5, <2>1, <4>1, <4>2
      <4> QED BY <1>1, <1>4, <1>5, <1>10, <3>1, <4>1, <4>3 DEF Cargada
    <3> QED BY <3>1, <3>2
  <2>2. CASE k + 1 # CantPaginas[p]
    <3>1. ini'.pid = p /\ ini'.sigue = k + 1
      BY <1>4, <1>5, <1>6, <2>2
    <3>2. ASSUME NEW h \in Paginas PROVE Cargada(h)' <=> (Cargada(h) \/ h = g)
      <4>1. h = <<h[1], h[2]>> /\ h[2] \in Nat
        BY NombrePagina
      <4>2. h[1] = p => (h[2] < k + 1 <=> (h[2] < k \/ h = g))
        BY <1>5, <4>1
      <4> QED BY <1>1, <1>4, <1>5, <1>10, <3>1, <4>2 DEF Cargada
    <3> QED BY <3>1, <3>2
  <2> QED BY <2>1, <2>2
<1>18. Cuentas'
  <2>1. \A q \in Pids : SinSalir(q)' = SinSalir(q)
    BY <1>12 DEF SinSalir
  <2>2. \A t \in idos' : t[1] \in aceptadas' /\ t[1] # ini'.pid
    <3>1. ASSUME NEW t \in idos PROVE t[1] # 0
      BY <1>14, <1>4, <1>2, Pedidas DEF Cuentas
    <3> QED BY <1>1, <1>12, <1>14, <1>17, <3>1
  <2>3. /\ idos' \subseteq Trips /\ vivos' \in [Pids -> Nat]
        /\ \A q \in Pids : vivos'[q] = Cardinality(SinSalir(q)')
        /\ patotas' \in Seq(Pids) /\ ToSet(patotas)' = {q \in aceptadas' : vivos'[q] > 0}
    BY <1>1, <1>2, <1>12, <2>1 DEF Cuentas
  <2>4. ASSUME NEW h \in Paginas
        PROVE  IF Cargada(h)' THEN pagina'[h].usados = Cardinality(Quedan(h, idos'))
               ELSE pagina'[h].usados = 0 /\ pagina'[h].frame = 0 /\ pagina'[h].swap = 0
    BY <1>2, <1>8, <1>12, <1>16, <1>17 DEF Cuentas
  <2> QED BY <2>2, <2>3, <2>4 DEF Cuentas
<1>19. /\ pagina[g].usados = 0 /\ pagina[g].frame = 0 /\ pagina[g].swap = 0 /\ g \notin Vivas
       /\ ~pagina[g].presente
  BY <1>2, <1>11 DEF Cuentas, Vivas, Marcos
<1>20. Vivas' = Vivas \cup {g}
  BY <1>8, <1>10, <1>12, <1>15, <1>16 DEF Vivas
<1>21. EnSwap'
  <2>1. ASSUME NEW h \in Paginas, pagina'[h].presente
        PROVE  h \in Vivas' /\ marco'[pagina'[h].frame].dato.de = h
    <3>1. CASE h = g
      BY <1>7, <1>8, <1>9, <1>20, <3>1 DEF Dato
    <3>2. CASE h # g
      <4>1. pagina[h].presente /\ pagina'[h].frame = pagina[h].frame /\ pagina[h].frame \in Frames \ {f}
        BY <1>2, <1>8, <1>10, <2>1, <3>2 DEF Marcos
      <4> QED BY <1>2, <1>9, <1>20, <4>1 DEF EnSwap
    <3> QED BY <3>1, <3>2
  <2>2. \A h \in Vivas' : ~pagina'[h].presente => h \in Vivas /\ h # g /\ pagina'[h] = pagina[h]
    BY <1>7, <1>8, <1>20 DEF Vivas
  <2>3. swap' = swap /\ perdidos' = perdidos
    BY <1>1, <1>12
  <2>4. ASSUME NEW h \in Vivas', ~pagina'[h].presente
        PROVE  /\ pagina'[h].frame = 0 /\ pagina'[h].swap # 0 /\ ~swap[pagina'[h].swap].libre
               /\ swap[pagina'[h].swap].dato.de = h /\ pagina'[h].swap \notin perdidos
               /\ \A j \in Vivas' \ {h} : ~pagina'[j].presente => pagina'[j].swap # pagina'[h].swap
    BY <1>2, <2>2, <2>4 DEF EnSwap
  <2>5. ASSUME NEW x \in Swap, ~swap[x].libre
        PROVE  x \in perdidos \/ \E h \in Vivas' : ~pagina'[h].presente /\ pagina'[h].swap = x
    <3>1. ASSUME NEW h \in Vivas, ~pagina[h].presente, pagina[h].swap = x
          PROVE  h \in Vivas' /\ ~pagina'[h].presente /\ pagina'[h].swap = x
      BY <1>8, <1>19, <1>20, <3>1 DEF Vivas
    <3> QED BY <1>2, <2>5, <3>1 DEF EnSwap
  <2>6. \A x \in perdidos : ~swap[x].libre
    BY <1>2 DEF EnSwap
  <2> HIDE DEF Vivas
  <2> QED BY ONLY <2>1, <2>3, <2>4, <2>5, <2>6 DEF EnSwap
<1>22. \A h \in Paginas : PorUsar(h) => Donde(h)' = Donde(h)
  <2>1. ASSUME NEW h \in Paginas, PorUsar(h) PROVE Donde(h)' = Donde(h)
    <3>1. CASE h = g
      <4>1. Donde(h) = Dato(g)
        BY <1>19, <3>1 DEF Donde
      <4>2. Donde(h)' = marco'[f].dato
        BY <1>7, <1>8, <1>10, <3>1 DEF Donde
      <4> QED BY <1>9, <4>1, <4>2
    <3>2. CASE h # g
      <4>1. pagina[h].frame # 0 => pagina[h].frame \in Frames \ {f}
        BY <1>1, <1>2, <1>10, <2>1, DondeEsta
      <4>2. pagina'[h] = pagina[h] /\ swap' = swap
        BY <1>1, <1>8, <3>2
      <4>3. pagina[h].frame # 0 => marco'[pagina[h].frame] = marco[pagina[h].frame]
        BY <1>9, <4>1
      <4> QED BY ONLY <4>2, <4>3 DEF Donde
    <3> QED BY <3>1, <3>2
  <2> QED BY <2>1
<1>23. \A t \in Trips \ idos : Sabe(t)' = Sabe(t)
  BY <1>2, <1>22, SabeIgual
<1>24. Progreso'
  BY <1>1, <1>2, <1>12, <1>20, <1>23, ProgresoIgual
<1> QED BY <1>1, <1>12, <1>13, <1>18, <1>21, <1>23, <1>24 DEF Contenidos, Igual

-----------------------------------------------------------------------------
(* A request is served.                                                      *)

\* The pages of what is left to do after an access have something of a crew that is there.
LEMMA PasosVivos ==
  ASSUME IndMarcos, FinDeTareas, Cuentas, Turnos, Progreso, EnPaso(Modos \ {"fin"}), Sigue(Donde(Pag)),
         Vivas' = Vivas
  PROVE  \A i \in DOMAIN curso'.pasos : curso'.pasos[i].pag \in Vivas'
<1>1. /\ curso.pasos # <<>> /\ curso # SinCurso /\ ini = SinAlta /\ curso.t \in Trips
      /\ FormaCurso /\ FormaPedidos
  BY Sirviendo
<1>2. PICK t \in Trips \ idos : t = curso.t /\ t[1] \in aceptadas
  BY <1>1 DEF Turnos, FormaPedidos
<1>3. curso \in TipoCurso
  BY <1>1 DEF FormaCurso, TipoCurso
<1>4. CASE Head(curso.pasos).modo = "avanza"
  <2>1. PICK n \in Nat : n = curso.tarea
    BY <1>3 DEF TipoCurso
  <2> DEFINE a == AccesosDeTarea(t, n)
  <2>2. curso'.pasos = a
    BY <1>2, <1>4, <2>1 DEF Sigue
  <2>3. CASE n < Len(Patotas[t[1]].tareas)
    <3>1. ASSUME NEW i \in DOMAIN a PROVE a[i].pag \in Vivas
      <4>1. PICK b \in tam_pcb..InicioTcb[<<t[1], 1>>] : a[i].pag = <<t[1], b \div TAMANIO_PAGINA>>
        BY <2>3, AccesosTareaBien
      <4>2. b \in 0..InicioTcb[<<t[1], 1>>]
        BY DEF tam_pcb
      <4>3. <<t[1], b \div TAMANIO_PAGINA>> \in Vivas
        BY <1>1, <1>2, <4>2, PaginaDeTareas
      <4> QED BY <4>1, <4>3
    <3> HIDE DEF a
    <3> QED BY <2>2, <3>1
  <2>4. CASE ~(n < Len(Patotas[t[1]].tareas))
    <3>1. PICK k \in Nat : Len(Patotas[t[1]].tareas) = k
      BY Pedidas, Textos
    <3>2. a = << Paso("fin", Campo(t, tid)) >>
      <4>1. n >= Len(Patotas[t[1]].tareas)
        BY <2>4, <3>1
      <4> QED BY ONLY <4>1, t \in Trips, n \in Nat, AccesosTareaBien
    <3>3. Campo(t, tid) \in PaginasConTcb(t)
      BY PaginasDelTcb DEF tid
    <3>4. Campo(t, tid) \in Paginas /\ Campo(t, tid)[1] = t[1] /\ PorUsar(Campo(t, tid))
      BY <1>2, <3>3, PaginaDeVivo
    <3>5. Campo(t, tid) \in Vivas
      BY <1>1, <1>2, <3>4, TodasCargadas DEF PorUsar
    <3> HIDE DEF a
    <3>6. \A i \in DOMAIN a : a[i].pag = Campo(t, tid)
      BY <3>2 DEF Paso
    <3> QED BY <2>2, <3>5, <3>6
  <2> QED BY <2>3, <2>4
<1>5. CASE Head(curso.pasos).modo # "avanza"
  <2>1. curso'.pasos = Tail(curso.pasos)
    BY <1>5 DEF Sigue
  <2>2. PICK n \in Nat : /\ DOMAIN curso.pasos = 1..n + 1 /\ DOMAIN Tail(curso.pasos) = 1..n
                         /\ \A i \in 1..n : Tail(curso.pasos)[i] = curso.pasos[i + 1]
    BY <1>1, <1>3, PrimerPaso
  <2>3. \A i \in DOMAIN curso.pasos : curso.pasos[i].pag \in Vivas
    BY DEF Progreso
  <2>4. ASSUME NEW i \in 1..n PROVE Tail(curso.pasos)[i].pag \in Vivas
    BY <2>2, <2>3
  <2> QED BY <2>1, <2>2, <2>4
<1> QED BY <1>4, <1>5

\* An access leaves each crew's next task as it was, or moves on that of the crew that asks.
LEMMA AccesoProgreso ==
  ASSUME IndMarcos, FinDeTareas, Contables, Cuentas, Turnos, Progreso,
         EnPaso(Modos \ {"fin"}), Accedio, Vivas' = Vivas, UNCHANGED <<idos, respuestas, patotas>>
  PROVE  Progreso' /\ (Igual \/ \E t \in Trips : Plana!Avanzar(t))
<1>1. /\ curso.pasos # <<>> /\ curso # SinCurso /\ curso.t \in Trips /\ Head(curso.pasos).modo \in Modos \ {"fin"}
      /\ FormaCurso /\ FormaPedidos
  BY Sirviendo
<1>2. PICK t \in Trips \ idos : t = curso.t /\ t[1] \in aceptadas
  BY <1>1 DEF Turnos, FormaPedidos
<1>3. curso \in TipoCurso
  BY <1>1 DEF FormaCurso, TipoCurso
<1>4. PICK r \in Nat : r = respuestas[t]
  BY DEF Contables
<1>5. Fase(curso, r) /\ \A u \in Trips \ idos :
        Sabe(u) = respuestas[u] + IF curso.t = u /\ Avanzo(curso) THEN 1 ELSE 0
  BY <1>1, <1>2, <1>4 DEF Progreso
<1>6. \A i \in DOMAIN curso'.pasos : curso'.pasos[i].pag \in Vivas'
  BY PasosVivos DEF Accedio
<1>7. Sigue(Donde(Pag)) /\ curso'.t = t /\ curso'.op = curso.op
  BY <1>2 DEF Accedio, Sigue
<1>8. ASSUME NEW u \in Trips \ idos
      PROVE  /\ DeProxima(u) # Pag \/ Head(curso.pasos).modo # "avanza" \/ u # t => Sabe(u)' = Sabe(u)
             /\ DeProxima(u) = Pag /\ Head(curso.pasos).modo = "avanza" /\ u = t =>
                  Sabe(u)' = curso.tarea + 1
  <2>1. DeProxima(u) \in PaginasConTcb(u)
    BY PaginasDelTcb DEF DeProxima, proxima_tarea
  <2>2. DeProxima(u) \in Paginas /\ PorUsar(DeProxima(u))
    BY <2>1, PaginaDeVivo
  <2>3. PICK h \in Paginas : h = DeProxima(u) /\ PorUsar(h)
    BY <2>2
  <2>4. DeProxima(u)' = DeProxima(u)
    BY DEF DeProxima, Campo, InicioTcb, TamanioTareas
  <2>5. Sabe(u) = Donde(h).prox[u] /\ Sabe(u)' = Donde(h)'.prox[u]
    BY <2>3, <2>4 DEF Sabe
  <2>6. IF h = Pag THEN Cambia(Donde(h), Donde(h)') ELSE Donde(h)' = Donde(h)
    BY <2>3 DEF Accedio
  <2> QED BY <1>2, <2>3, <2>5, <2>6 DEF Cambia
<1>9. ASSUME Fase(curso', r), \A u \in Trips \ idos :
               Sabe(u)' = respuestas[u] + IF t = u /\ Avanzo(curso') THEN 1 ELSE 0
      PROVE  Progreso'
  BY <1>2, <1>4, <1>6, <1>7, <1>9 DEF Progreso
<1>10. CASE Head(curso.pasos).modo = "avanza"
  <2>1. curso'.pasos = AccesosDeTarea(curso.t, curso.tarea) /\ curso'.tarea = curso.tarea
    BY <1>7, <1>10 DEF Sigue
  <2>2. /\ curso.tarea = r /\ Pag = DeProxima(t)
        /\ ~Avanzo(curso) /\ Avanzo(curso') /\ Fase(curso', r)
    BY <1>1, <1>2, <1>3, <1>5, <1>7, <1>10, <2>1, FaseAvanza DEF Pag
  <2>3. Sabe(t) = r /\ Sabe(t)' = r + 1
    BY <1>4, <1>5, <1>8, <1>10, <2>2
  <2>4. \A u \in Trips \ idos : u # t => Sabe(u)' = Sabe(u) /\ Sabe(u) = respuestas[u]
    <3>1. \A u \in Trips : respuestas[u] \in Nat
      BY DEF Contables
    <3> QED BY <1>2, <1>5, <1>8, <3>1
  <2>5. t[1] \in ToSet(patotas)
    BY <1>2, Contada
  <2>6. Plana!Avanzar(t)
    BY <1>4, <2>3, <2>4, <2>5, VeAvanzar
  <2>7. Progreso'
    <3>1. \A u \in Trips : respuestas[u] \in Nat
      BY DEF Contables
    <3> QED BY <1>4, <1>9, <2>2, <2>3, <2>4, <3>1
  <2> QED BY <1>2, <2>6, <2>7
<1>11. CASE Head(curso.pasos).modo # "avanza"
  <2>1. \A u \in Trips \ idos : Sabe(u)' = Sabe(u)
    BY <1>8, <1>11
  <2>2. Igual
    BY <2>1 DEF Igual
  <2>3. curso'.pasos = Tail(curso.pasos)
    BY <1>7, <1>11 DEF Sigue
  <2>4. Fase(curso', r) /\ (Avanzo(curso') <=> Avanzo(curso))
    <3>1. CASE Head(curso.pasos).modo = "tarea"
      <4>1. /\ Pag = DeProxima(t) /\ ~Avanzo(curso) /\ ~Avanzo(curso')
            /\ (curso'.tarea = r => Fase(curso', r))
        BY <1>1, <1>2, <1>3, <1>5, <1>7, <2>3, <3>1, FaseTarea DEF Pag
      <4>2. Sabe(t) = r
        BY <1>4, <1>5, <4>1
      <4>3. curso'.tarea = Sabe(t)
        BY <1>2, <1>7, <3>1, <4>1 DEF Sigue, Sabe
      <4> QED BY <4>1, <4>2, <4>3
    <3>2. CASE Head(curso.pasos).modo # "tarea"
      <4>1. Head(curso.pasos).modo \in {"trae", "lee", "usa"} /\ curso'.tarea = curso.tarea
        BY <1>1, <1>7, <1>11, <3>2 DEF Modos, Sigue
      <4> QED BY <1>1, <1>2, <1>3, <1>5, <1>7, <2>3, <4>1, FaseSigue
    <3> QED BY <3>1, <3>2
  <2>5. Progreso'
    BY <1>2, <1>5, <1>9, <2>1, <2>4
  <2> QED BY <2>2, <2>5
<1> QED BY <1>10, <1>11

\* The request that is served is where it was in its accesses.
LEMMA ProgresoMismo ==
  ASSUME Progreso, curso # SinCurso, curso'.t = curso.t, curso'.op = curso.op,
         curso'.tarea = curso.tarea, curso'.pasos = curso.pasos,
         UNCHANGED <<idos, respuestas>>, Vivas' = Vivas,
         \A t \in Trips \ idos : Sabe(t)' = Sabe(t)
  PROVE  Progreso'
<1>1. Fase(curso', respuestas[curso.t]) /\ (Avanzo(curso') <=> Avanzo(curso))
  <2>1. Fase(curso, respuestas[curso.t])
    BY DEF Progreso
  <2>2. PorLeer(curso') <=> PorLeer(curso)
    BY DEF PorLeer
  <2>3. (PorAvanzar(curso') <=> PorAvanzar(curso)) /\ (PorTraer(curso') <=> PorTraer(curso))
    BY DEF PorAvanzar, PorTraer
  <2>4. Avanzo(curso') <=> Avanzo(curso)
    BY DEF Avanzo
  <2> QED BY <2>1, <2>2, <2>3, <2>4 DEF Fase
<1>2. \A t \in Trips \ idos' : Sabe(t)' = respuestas'[t] + IF curso'.t = t /\ Avanzo(curso') THEN 1 ELSE 0
  BY <1>1 DEF Progreso
<1>3. \A i \in DOMAIN curso'.pasos : curso'.pasos[i].pag \in Vivas'
  BY DEF Progreso
<1> QED BY <1>1, <1>2, <1>3 DEF Progreso

\* What is so of the contents when a request has an access to make.
LEMMA SirviendoContenidos ==
  ASSUME IndMemoria, NEW modos, EnPaso(modos)
  PROVE  /\ IndMarcos /\ Contables /\ Cuentas /\ Turnos /\ EnSwap /\ Progreso
         /\ curso \in TipoCurso /\ Pag \in Vivas
<1>1. /\ IndMarcos /\ Contables /\ Cuentas /\ Turnos /\ EnSwap /\ Progreso /\ FormaCurso
      /\ curso.pasos # <<>>
  BY Sirviendo DEF IndMemoria, Contenidos
<1>2. curso \in TipoCurso
  BY <1>1 DEF FormaCurso, TipoCurso
<1>3. PICK n \in Nat : DOMAIN curso.pasos = 1..n + 1 /\ Head(curso.pasos) = curso.pasos[1]
  BY <1>1, <1>2, PrimerPaso
<1>4. Head(curso.pasos).pag \in Vivas
  <2>1. \A i \in DOMAIN curso.pasos : curso.pasos[i].pag \in Vivas
    BY <1>1 DEF Progreso
  <2>2. 1 \in DOMAIN curso.pasos
    BY <1>3
  <2> QED BY <1>3, <2>1, <2>2
<1> QED BY <1>1, <1>2, <1>4 DEF Pag

\* A page fault gets a frame: the victim's data go with it.
LEMMA ConseguirMarcoContenidos ==
  ASSUME IndMemoria, ConseguirMarco
  PROVE  Contenidos' /\ Igual
<1>1. PICK f \in Frames :
        /\ EnPaso(Buscan) /\ curso.frame = 0
        /\ Conseguir(f) /\ curso' = [curso EXCEPT !.frame = f]
        /\ UNCHANGED <<algoritmo, marco, tablas, altas, esperan, respuestas, bajas, caida>>
  BY DEF ConseguirMarco, Buscan
<1>2. /\ IndMarcos /\ Contables /\ Cuentas /\ Turnos /\ EnSwap /\ Progreso
      /\ curso \in TipoCurso /\ Pag \in Vivas
  BY <1>1, SirviendoContenidos
<1>3. /\ ~lleno /\ ~caida /\ curso # SinCurso /\ ini = SinAlta /\ EnMano = {} /\ FormaAlta
  BY <1>1, <1>2, Sirviendo
<1>4. Contables' /\ UNCHANGED <<idos, perdidos>> /\ UNCHANGED <<patotas, vivos>>
  BY <1>1, <1>2, ContablesIguales DEF Contables, tablas
<1>5. /\ \A g \in Paginas : /\ pagina'[g].usados = pagina[g].usados
                            /\ ~Cargada(g) => /\ pagina'[g].frame = pagina[g].frame
                                              /\ pagina'[g].swap = pagina[g].swap
      /\ Vivas' = Vivas /\ (~lleno' => EnSwap')
      /\ \A g \in Paginas : PorUsar(g) => Donde(g)' = Donde(g)
  BY <1>1, <1>2, <1>3, <1>4, ConseguirSwap
<1>6. ini' = ini /\ aceptadas' = aceptadas
  BY <1>1 DEF altas
<1>7. Cuentas'
  BY <1>2, <1>4, <1>5, <1>6, CuentasIguales
<1>8. /\ curso'.t = curso.t /\ curso'.op = curso.op /\ curso'.tarea = curso.tarea
      /\ curso'.pasos = curso.pasos
  BY <1>1, <1>2 DEF TipoCurso
<1>9. Turnos'
  BY <1>1, <1>2, <1>3, <1>4, <1>8, TurnosIguales
<1>10. \A t \in Trips \ idos : Sabe(t)' = Sabe(t)
  BY <1>2, <1>5, SabeIgual
<1>11. Progreso'
  BY <1>1, <1>2, <1>3, <1>4, <1>5, <1>8, <1>10, ProgresoMismo
<1> QED BY <1>1, <1>3, <1>4, <1>5, <1>7, <1>9, <1>10, <1>11 DEF Contenidos, Igual

\* What a step that only answers or asks leaves of the memory.
LEMMA MemoriaMisma ==
  ASSUME IndMemoria, ~lleno, UNCHANGED <<memoria, tablas, altas, idos, perdidos>>
  PROVE  /\ lleno' = lleno /\ Cuentas' /\ EnSwap' /\ Vivas' = Vivas /\ UNCHANGED <<patotas, aceptadas, ini>>
         /\ \A g \in Paginas : Donde(g)' = Donde(g)
         /\ \A t \in Trips \ idos : Sabe(t)' = Sabe(t)
<1>1. /\ marco' = marco /\ swap' = swap /\ pagina' = pagina /\ lleno' = lleno /\ ini' = ini
      /\ aceptadas' = aceptadas /\ UNCHANGED <<patotas, vivos>> /\ UNCHANGED <<idos, perdidos>>
  BY DEF memoria, altas, tablas
<1>2. IndMarcos /\ Cuentas /\ EnSwap /\ Marcos
  BY DEF IndMemoria, Contenidos, IndMarcos, EnMemoria
<1>3. Cuentas'
  BY <1>1, <1>2, CuentasIguales
<1>4. Vivas' = Vivas
  BY <1>1, VivasIguales
<1>5. EnSwap'
  BY <1>1, <1>2, <1>4, EnSwapIgual
<1>6. \A g \in Paginas : Donde(g)' = Donde(g)
  BY <1>1 DEF Donde
<1>7. \A t \in Trips \ idos : Sabe(t)' = Sabe(t)
  BY <1>2, <1>6, SabeIgual
<1> QED BY <1>1, <1>3, <1>4, <1>5, <1>6, <1>7

\* The process falls: what the requests were at no longer matters.
LEMMA CaerContenidos ==
  ASSUME IndMemoria, ~lleno, caida' = TRUE, UNCHANGED <<memoria, tablas, altas, respuestas, idos, perdidos>>,
         Turnos', Contables'
  PROVE  Contenidos' /\ Igual
BY MemoriaMisma DEF Contenidos, Igual

\* An access to a page that leaves the rest where it was.
LEMMA AccesoContenidos ==
  ASSUME IndMemoria, FinDeTareas, EnPaso(Modos \ {"fin"}), Accedio, EnSwap', Vivas' = Vivas,
         UNCHANGED <<tablas, altas, esperan, respuestas, bajas, caida, lleno>>,
         \A h \in Paginas : /\ pagina'[h].usados = pagina[h].usados
                            /\ h # Pag => pagina'[h].frame = pagina[h].frame
                            /\ pagina'[h].swap = pagina[h].swap
  PROVE  Contenidos' /\ (Igual \/ \E t \in Trips : Plana!Avanzar(t))
<1>1. /\ IndMarcos /\ Contables /\ Cuentas /\ Turnos /\ EnSwap /\ Progreso
  BY SirviendoContenidos
<1>2. ~lleno /\ ~caida /\ curso # SinCurso /\ ini = SinAlta /\ Cargada(Pag)
  BY <1>1, Sirviendo
<1>3. Contables' /\ UNCHANGED <<idos, perdidos>> /\ UNCHANGED <<patotas, vivos>>
  BY <1>1, ContablesIguales DEF Contables, tablas
<1>4. ini' = ini /\ aceptadas' = aceptadas
  BY DEF altas
<1>5. Cuentas'
  <2>1. \A g \in Paginas : /\ pagina'[g].usados = pagina[g].usados
                           /\ ~Cargada(g) => /\ pagina'[g].frame = pagina[g].frame
                                             /\ pagina'[g].swap = pagina[g].swap
    BY <1>2
  <2> QED BY <1>1, <1>3, <1>4, <2>1, CuentasIguales
<1>6. Turnos'
  <2>1. curso'.t = curso.t /\ curso'.op = curso.op
    BY DEF Accedio, Sigue
  <2> QED BY <1>1, <1>2, <1>3, <2>1, TurnosIguales
<1>7. Progreso' /\ (Igual \/ \E t \in Trips : Plana!Avanzar(t))
  BY <1>1, <1>3, AccesoProgreso
<1> QED BY <1>2, <1>3, <1>5, <1>6, <1>7 DEF Contenidos

\* UsarPagina: the page is in memory, or its entry is not in the queue any more.
LEMMA UsarPaginaContenidos ==
  ASSUME IndMemoria, FinDeTareas, UsarPagina
  PROVE  Contenidos' /\ (Igual \/ \E t \in Trips : Plana!Avanzar(t))
<1>1. /\ EnPaso(Usan) /\ curso.indice # 0
      /\ UNCHANGED <<algoritmo, swap, puntero, lleno, tablas, altas, esperan, respuestas, bajas>>
  BY DEF UsarPagina
<1>2. /\ IndMarcos /\ Contables /\ Cuentas /\ Turnos /\ EnSwap /\ Progreso
      /\ ~lleno /\ ~caida /\ curso.pasos # <<>> /\ curso # SinCurso
  BY <1>1, Sirviendo, SirviendoContenidos
<1>3. CASE curso.indice \notin DOMAIN historial
  <2>1. caida' = TRUE /\ UNCHANGED <<marco, pagina, historial, curso>>
    BY <1>3 DEF UsarPagina
  <2>2. Contables' /\ UNCHANGED <<idos, perdidos>>
    BY <1>1, <1>2, <2>1, ContablesIguales DEF Contables
  <2>3. Turnos'
    BY <1>1, <1>2, <2>1, <2>2, TurnosIguales
  <2>4. UNCHANGED memoria
    BY <1>1, <2>1 DEF memoria
  <2> QED BY <1>1, <1>2, <2>1, <2>2, <2>3, <2>4, CaerContenidos
<1>4. CASE curso.indice \in DOMAIN historial
  <2>1. /\ pagina' = [pagina EXCEPT ![Pag].uso = TRUE] /\ Acceder(marco, pagina[Pag].frame)
        /\ UNCHANGED caida
    BY <1>4 DEF UsarPagina
  <2>2. UNCHANGED <<patotas, perdidos>>
    BY <1>1 DEF tablas, bajas
  <2>3. /\ EnSwap' /\ Vivas' = Vivas /\ Accedio
        /\ \A h \in Paginas : /\ pagina'[h].usados = pagina[h].usados
                              /\ pagina'[h].frame = pagina[h].frame /\ pagina'[h].swap = pagina[h].swap
    BY <1>1, <1>2, <2>1, <2>2, UsarAccede
  <2>4. EnPaso(Modos \ {"fin"})
    BY <1>1 DEF EnPaso, Usan, Modos
  <2> QED BY <1>1, <2>1, <2>3, <2>4, AccesoContenidos
<1> QED BY <1>3, <1>4

\* InstalarPagina: the page is in swap.
LEMMA InstalarPaginaContenidos ==
  ASSUME IndMemoria, FinDeTareas, InstalarPagina
  PROVE  Contenidos' /\ (Igual \/ \E t \in Trips : Plana!Avanzar(t))
<1>1. /\ EnPaso(Buscan) /\ curso.frame # 0
      /\ UNCHANGED <<algoritmo, tablas, altas, esperan, respuestas, bajas>>
  BY DEF InstalarPagina, Buscan
<1>2. /\ IndMarcos /\ Contables /\ Cuentas /\ Turnos /\ EnSwap /\ Progreso
      /\ ~lleno /\ ~caida /\ curso.pasos # <<>> /\ curso \in TipoCurso /\ Pag \in Vivas /\ FormaCurso
      /\ EnMano = {curso.frame} \ {0} /\ FormaMemoria /\ Pag \in Paginas
  BY <1>1, Sirviendo, SirviendoContenidos
<1>3. ~pagina[Pag].presente /\ curso.frame \in Frames
  BY <1>1, <1>2 DEF FormaCurso
<1>4. pagina[Pag].swap \in Swap /\ pagina[Pag].swap # 0
  <2>1. pagina[Pag].swap # 0
    BY <1>2, <1>3 DEF EnSwap
  <2>2. pagina[Pag] \in TipoPagina
    BY <1>2 DEF FormaMemoria
  <2> QED BY <2>1, <2>2 DEF TipoPagina
<1>5. PICK f \in Frames, g \in Vivas, s \in Swap : f = curso.frame /\ g = Pag /\ s = pagina[g].swap
  BY <1>2, <1>3, <1>4
<1>6. /\ pagina' = [pagina EXCEPT ![g].presente = TRUE, ![g].frame = f, ![g].uso = TRUE]
      /\ swap' = [swap EXCEPT ![s].libre = TRUE]
      /\ Acceder([marco EXCEPT ![f] = [libre |-> FALSE, de |-> g, dato |-> swap[s].dato]], f)
      /\ UNCHANGED <<puntero, lleno, caida>>
  BY <1>4, <1>5 DEF InstalarPagina
<1>7. EnMano = {f} /\ UNCHANGED <<patotas, perdidos>> /\ ~pagina[g].presente
  BY <1>1, <1>2, <1>3, <1>5 DEF tablas, bajas
<1>8. /\ EnSwap' /\ Vivas' = Vivas /\ Accedio
      /\ \A h \in Paginas : /\ pagina'[h].usados = pagina[h].usados
                            /\ h # g => pagina'[h].frame = pagina[h].frame
                            /\ pagina'[h].swap = pagina[h].swap
  BY <1>2, <1>5, <1>6, <1>7, InstalarAccede
<1>9. EnPaso(Modos \ {"fin"})
  BY <1>1 DEF EnPaso, Buscan, Usan, Modos
<1> QED BY <1>1, <1>5, <1>6, <1>8, <1>9, AccesoContenidos

\* TraerPresente and Leer go on to the next access.
LEMMA TraerLeerContenidos ==
  ASSUME IndMemoria, FinDeTareas, TraerPresente \/ Leer
  PROVE  Contenidos' /\ Igual
<1>1. /\ EnPaso({"trae", "lee"}) /\ curso' = Hecho /\ caida' \in BOOLEAN
      /\ UNCHANGED <<algoritmo, memoria, tablas, altas, esperan, respuestas, bajas>>
  <2>1. caida \in BOOLEAN
    BY DEF IndMemoria, Contenidos, Contables
  <2> QED BY <2>1 DEF TraerPresente, Leer, EnPaso
<1>2. /\ IndMarcos /\ Contables /\ Cuentas /\ Turnos /\ Progreso /\ FormaCurso /\ FormaPedidos
      /\ ~lleno /\ ~caida /\ curso.pasos # <<>> /\ curso \in TipoCurso /\ curso # SinCurso
      /\ Head(curso.pasos).modo \in {"trae", "lee"}
  BY <1>1, Sirviendo, SirviendoContenidos
<1>3. Contables' /\ UNCHANGED <<idos, perdidos>>
  BY <1>1, <1>2, ContablesIguales
<1>4. /\ lleno' = lleno /\ Cuentas' /\ EnSwap' /\ Vivas' = Vivas /\ UNCHANGED <<patotas, aceptadas, ini>>
      /\ \A g \in Paginas : Donde(g)' = Donde(g)
      /\ \A t \in Trips \ idos : Sabe(t)' = Sabe(t)
  BY <1>1, <1>2, <1>3, MemoriaMisma
<1>5. curso'.t = curso.t /\ curso'.op = curso.op /\ curso'.tarea = curso.tarea /\ curso'.pasos = Tail(curso.pasos)
  <2>1. Hecho.tarea = curso.tarea /\ Hecho.pasos = Tail(curso.pasos)
    BY <1>2 DEF Hecho, TipoCurso
  <2> QED BY <1>1, <1>2, <2>1, HechoBien
<1>6. Turnos'
  BY <1>1, <1>2, <1>3, <1>5, TurnosIguales
<1>7. Progreso'
  <2>1. Sigue(Donde(Pag))
    BY <1>2, <1>5 DEF Sigue
  <2>2. Accedio
    BY <1>2, <1>4, <2>1 DEF Accedio, Cambia
  <2>3. EnPaso(Modos \ {"fin"})
    BY <1>1 DEF EnPaso, Modos
  <2> QED BY <1>1, <1>2, <1>3, <1>4, <2>2, <2>3, AccesoProgreso
<1> QED BY <1>1, <1>3, <1>4, <1>6, <1>7 DEF Contenidos, Igual

\* BuscarEnHistorial finds the place of the page in the queue.
LEMMA BuscarEnHistorialContenidos ==
  ASSUME IndMemoria, BuscarEnHistorial
  PROVE  Contenidos' /\ Igual
<1>1. /\ EnPaso(Usan) /\ caida' \in BOOLEAN
      /\ UNCHANGED <<algoritmo, memoria, tablas, altas, esperan, respuestas, bajas>>
      /\ curso' = curso \/ \E i : curso' = [curso EXCEPT !.indice = i]
  <2>1. caida \in BOOLEAN
    BY DEF IndMemoria, Contenidos, Contables
  <2> QED BY <2>1 DEF BuscarEnHistorial
<1>2. Contables /\ Turnos /\ Progreso /\ ~lleno /\ ~caida /\ curso \in TipoCurso /\ curso # SinCurso
  BY <1>1, Sirviendo, SirviendoContenidos
<1>3. Contables' /\ UNCHANGED <<idos, perdidos>>
  BY <1>1, <1>2, ContablesIguales
<1>4. /\ lleno' = lleno /\ Cuentas' /\ EnSwap' /\ Vivas' = Vivas /\ UNCHANGED <<patotas, aceptadas, ini>>
      /\ \A t \in Trips \ idos : Sabe(t)' = Sabe(t)
  BY <1>1, <1>2, <1>3, MemoriaMisma
<1>5. curso'.t = curso.t /\ curso'.op = curso.op /\ curso'.tarea = curso.tarea /\ curso'.pasos = curso.pasos
  BY <1>1, <1>2 DEF TipoCurso
<1>6. Turnos'
  BY <1>1, <1>2, <1>3, <1>5, TurnosIguales
<1>7. Progreso'
  BY <1>1, <1>2, <1>3, <1>4, <1>5, ProgresoMismo
<1> QED BY <1>1, <1>3, <1>4, <1>6, <1>7 DEF Contenidos, Igual

\* Responder: a task is answered when the next one was written; anything else says nothing.
LEMMA ResponderContenidos ==
  ASSUME IndMemoria, Responder
  PROVE  Contenidos' /\ (Igual \/ \E t \in Trips : Plana!Responder(t))
<1>1. /\ ~lleno /\ ~caida /\ curso # SinCurso /\ curso.pasos = <<>> /\ curso' = SinCurso
      /\ respuestas' = IF curso.op = "obtener" THEN [respuestas EXCEPT ![curso.t] = @ + 1] ELSE respuestas
      /\ UNCHANGED <<algoritmo, memoria, tablas, altas, esperan, bajas, caida>>
  BY DEF Responder, Andando
<1>2. UNCHANGED <<idos, perdidos, expulsados, trabada>> /\ UNCHANGED <<memoria, tablas, altas, idos, perdidos>>
  BY <1>1 DEF bajas
<1>3. /\ lleno' = lleno /\ Cuentas' /\ EnSwap' /\ Vivas' = Vivas /\ UNCHANGED <<patotas, aceptadas, ini>>
      /\ \A t \in Trips \ idos : Sabe(t)' = Sabe(t)
  BY <1>1, <1>2, MemoriaMisma
<1>4. Contables /\ Cuentas /\ Turnos /\ Progreso /\ FormaCurso /\ FormaPedidos
  BY <1>1 DEF IndMemoria, Contenidos, IndMarcos, FormaPaginas
<1>5. PICK t \in Trips \ idos : t = curso.t /\ t[1] \in aceptadas
  BY <1>1, <1>4 DEF FormaCurso, FormaPedidos, Turnos
<1>6. t[1] \in ToSet(patotas)
  BY <1>4, <1>5, Contada
<1>7. PICK r \in Nat : r = respuestas[t]
  BY <1>4 DEF Contables
<1>8. /\ curso.op = "obtener" => Avanzo(curso) /\ r < Len(Patotas[t[1]].tareas)
      /\ curso.op # "obtener" => ~Avanzo(curso)
  <2>1. Fase(curso, r)
    BY <1>1, <1>4, <1>5, <1>7 DEF Progreso
  <2>2. curso.op = "obtener" => Avanzo(curso) /\ r < Len(Patotas[t[1]].tareas)
    BY <1>1, <1>5, <2>1, FaseVacia
  <2> QED BY <2>2 DEF Avanzo
<1>9. curso'.t = Nadie /\ curso'.op = "no" /\ curso'.pasos = <<>> /\ Nadie \notin Trips
  BY <1>1, Pedidas DEF SinCurso
<1>10. \A u \in Trips : respuestas[u] \in Nat /\ (u # t \/ curso.op # "obtener" => respuestas'[u] = respuestas[u])
  BY <1>1, <1>4, <1>5 DEF Contables
<1>11. curso.op = "obtener" => respuestas'[t] = r + 1
  BY <1>1, <1>4, <1>5, <1>7 DEF Contables
<1>12. Contables'
  <2>1. respuestas' \in [Trips -> Nat]
    BY <1>1, <1>4, <1>5 DEF Contables
  <2>2. ASSUME NEW u \in Trips PROVE respuestas'[u] <= Len(Patotas[u[1]].tareas)
    <3>1. CASE u = t /\ curso.op = "obtener"
      <4>1. PICK k \in Nat : k = Len(Patotas[t[1]].tareas)
        BY Pedidas, Textos
      <4> QED BY <1>8, <1>11, <3>1, <4>1
    <3>2. CASE ~(u = t /\ curso.op = "obtener")
      BY <1>4, <1>10, <3>2 DEF Contables
    <3> QED BY <3>1, <3>2
  <2> QED BY <1>1, <1>2, <1>4, <2>1, <2>2 DEF Contables
<1>13. Turnos'
  <2>1. \A u \in Trips : /\ EnServicio(u, {"estado"})' <=> <<u, "estado">> \in esperan
                         /\ EnServicio(u, {"obtener"})' <=> <<u, "obtener">> \in esperan
    BY <1>1, <1>9 DEF EnServicio
  <2>2. ASSUME NEW u \in Trips, SinTareas(u)', EnServicio(u, {"estado"})', EnServicio(u, {"obtener"})'
        PROVE  FALSE
    <3>1. <<u, "obtener">> \in esperan /\ <<u, "estado">> \in esperan
      BY <2>1, <2>2
    <3>2. CASE u = t /\ curso.op = "obtener"
      BY <1>4, <1>5, <3>1, <3>2 DEF Turnos, PideElTripulante
    <3>3. CASE ~(u = t /\ curso.op = "obtener")
      <4>1. SinTareas(u)
        BY <1>10, <2>2, <3>3 DEF SinTareas
      <4>2. EnServicio(u, {"estado"}) /\ EnServicio(u, {"obtener"})
        BY <3>1 DEF EnServicio
      <4> QED BY <1>4, <4>1, <4>2 DEF Turnos
    <3> QED BY <3>2, <3>3
  <2>3. \A e \in esperan' : e = <<e[1], e[2]>> /\ e[1] \notin idos'
    BY <1>1, <1>2, <1>4 DEF Turnos
  <2>4. \A u \in Trips : \A o1, o2 \in PideElTripulante : <<u, o1>> \in esperan' =>
           ~(curso'.t = u /\ curso'.op = o2) /\ (<<u, o2>> \in esperan' => o1 = o2)
    BY <1>1, <1>4, <1>9 DEF Turnos
  <2> QED BY <1>1, <2>2, <2>3, <2>4 DEF Turnos
<1>14. \A u \in Trips \ idos : Sabe(u) = respuestas[u] + IF t = u /\ Avanzo(curso) THEN 1 ELSE 0
  BY <1>4, <1>5 DEF Progreso
<1>15. Progreso'
  <2>1. ASSUME NEW u \in Trips \ idos
        PROVE  Sabe(u)' = respuestas'[u] + IF curso'.t = u /\ Avanzo(curso') THEN 1 ELSE 0
    BY <1>3, <1>7, <1>8, <1>9, <1>10, <1>11, <1>14
  <2> QED BY <1>1, <1>2, <1>9, <2>1 DEF Progreso
<1>16. CASE curso.op = "obtener"
  <2>1. Sabe(t) = r + 1
    BY <1>7, <1>8, <1>14, <1>16
  <2>2. Plana!Responder(t)
    BY <1>1, <1>2, <1>3, <1>5, <1>6, <1>7, <1>8, <1>16, <2>1, VeResponder
  <2> QED BY <1>1, <1>3, <1>12, <1>13, <1>15, <2>2 DEF Contenidos
<1>17. CASE curso.op # "obtener"
  <2>1. Igual
    BY <1>1, <1>2, <1>3, <1>17 DEF Igual
  <2> QED BY <1>1, <1>3, <1>12, <1>13, <1>15, <2>1 DEF Contenidos
<1> QED BY <1>16, <1>17

\* Buscar: a crew has no other request of its own, nor one that the end of its tasks excludes.
LEMMA BuscarContenidos ==
  ASSUME IndMemoria, NEW t \in Trips, NEW op \in Ops, Buscar(t, op)
  PROVE  Contenidos' /\ Igual
<1>1. /\ ~lleno /\ ~caida /\ PuedePedir(t, op) /\ caida' \in BOOLEAN
      /\ esperan' = esperan \cup {<<t, op>>} \/ esperan' = esperan
      /\ UNCHANGED <<algoritmo, memoria, tablas, altas, curso, respuestas, bajas>>
  <2>1. caida \in BOOLEAN
    BY DEF IndMemoria, Contenidos, Contables
  <2> QED BY <2>1 DEF Buscar, Andando
<1>2. UNCHANGED <<idos, perdidos>> /\ UNCHANGED <<memoria, tablas, altas, idos, perdidos>>
  BY <1>1 DEF bajas
<1>3. /\ lleno' = lleno /\ Cuentas' /\ EnSwap' /\ Vivas' = Vivas /\ UNCHANGED <<patotas, aceptadas, ini>>
      /\ \A u \in Trips \ idos : Sabe(u)' = Sabe(u)
  BY <1>1, <1>2, MemoriaMisma
<1>4. Contables /\ Turnos /\ Progreso
  BY <1>1 DEF IndMemoria, Contenidos
<1>5. Contables'
  BY <1>1, <1>4, ContablesIguales
<1>6. Progreso'
  BY <1>1, <1>2, <1>3, <1>4, ProgresoIgual
<1>7. Turnos'
  <2>1. CASE esperan' = esperan
    BY <1>1, <1>2, <1>4, <2>1, TurnosIguales
  <2>2. CASE esperan' = esperan \cup {<<t, op>>}
    <3>1. \A u \in Trips : \A ops : EnServicio(u, ops)' <=> EnServicio(u, ops) \/ (u = t /\ op \in ops)
      BY <1>1, <2>2 DEF EnServicio
    <3>2. \A u \in Trips : SinTareas(u)' <=> SinTareas(u)
      BY <1>1 DEF SinTareas
    <3>3. /\ t \notin idos
          /\ op # "estado" => ~EnServicio(t, PideElTripulante)
          /\ op = "obtener" => (SinTareas(t) => ~EnServicio(t, {"estado"}))
          /\ op = "estado" => (SinTareas(t) => ~EnServicio(t, {"obtener"}))
      BY <1>1 DEF PuedePedir
    <3>4. \A e \in esperan' : e = <<e[1], e[2]>> /\ e[1] \notin idos'
      BY <1>2, <1>4, <2>2, <3>3 DEF Turnos
    <3>5. curso' # SinCurso => curso'.t \notin idos'
      BY <1>1, <1>2, <1>4 DEF Turnos
    <3>6. ASSUME NEW u \in Trips, NEW o1 \in PideElTripulante, NEW o2 \in PideElTripulante,
                 <<u, o1>> \in esperan'
          PROVE  ~(curso'.t = u /\ curso'.op = o2) /\ (<<u, o2>> \in esperan' => o1 = o2)
      <4>1. CASE u = t /\ op # "estado"
        <5>1. \A o \in PideElTripulante : <<t, o>> \notin esperan /\ ~(curso.t = t /\ curso.op = o)
          BY <3>3, <4>1 DEF EnServicio
        <5> QED BY <1>1, <2>2, <3>6, <4>1, <5>1
      <4>2. CASE ~(u = t /\ op # "estado")
        <5>1. \A o \in PideElTripulante : <<u, o>> \in esperan' <=> <<u, o>> \in esperan
          BY <2>2, <4>2 DEF PideElTripulante
        <5> QED BY <1>1, <1>4, <3>6, <5>1 DEF Turnos
      <4> QED BY <4>1, <4>2
    <3>7. ASSUME NEW u \in Trips, SinTareas(u)', EnServicio(u, {"estado"})', EnServicio(u, {"obtener"})'
          PROVE  FALSE
      <4>1. SinTareas(u) => ~(EnServicio(u, {"estado"}) /\ EnServicio(u, {"obtener"}))
        BY <1>4 DEF Turnos
      <4> QED BY <3>1, <3>2, <3>3, <3>7, <4>1
    <3> QED BY <3>4, <3>5, <3>6, <3>7 DEF Turnos
  <2> QED BY <1>1, <2>1, <2>2
<1>8. Igual
  BY <1>1, <1>2, <1>3 DEF Igual
<1> QED BY <1>1, <1>3, <1>5, <1>6, <1>7, <1>8 DEF Contenidos

\* TomarNoReemplazar: the request is served from its first access, all to pages of its TCB.
LEMMA TomarContenidos ==
  ASSUME IndMemoria, ~Solapadas, NEW t \in Trips, NEW op \in Ops, TomarNoReemplazar(t, op)
  PROVE  Contenidos' /\ Igual
<1>1. /\ ~lleno /\ ~caida /\ curso = SinCurso /\ ini = SinAlta /\ <<t, op>> \in esperan
      /\ esperan' = esperan \ {<<t, op>>}
      /\ UNCHANGED <<algoritmo, memoria, tablas, altas, respuestas, bajas>>
  BY DEF TomarNoReemplazar, Andando
<1>2. UNCHANGED <<idos, perdidos>> /\ UNCHANGED <<memoria, tablas, altas, respuestas, idos, perdidos>>
  BY <1>1 DEF bajas
<1>3. /\ lleno' = lleno /\ Cuentas' /\ EnSwap' /\ Vivas' = Vivas /\ UNCHANGED <<patotas, aceptadas, ini>>
      /\ \A u \in Trips \ idos : Sabe(u)' = Sabe(u)
  BY <1>1, <1>2, MemoriaMisma
<1>4. Contables /\ Turnos /\ Progreso /\ Cuentas /\ FormaPedidos
  BY <1>1 DEF IndMemoria, Contenidos, IndMarcos, FormaPaginas
<1>5. t \notin idos /\ t[1] \in aceptadas
  <2>1. <<t, op>>[1] = t
    OBVIOUS
  <2> QED BY <1>1, <1>4, <2>1 DEF Turnos, FormaPedidos
<1>6. curso.t = Nadie /\ Nadie \notin Trips /\ curso.op = "no"
  BY <1>1, Pedidas DEF SinCurso
<1>7. ASSUME curso' = curso \/ (curso'.t = t /\ curso'.op = op)
      PROVE  Turnos'
  <2>1. ASSUME NEW u \in Trips, NEW ops, EnServicio(u, ops)' PROVE EnServicio(u, ops)
    BY <1>1, <1>6, <1>7, <2>1 DEF EnServicio
  <2>2. \A u \in Trips : SinTareas(u)' <=> SinTareas(u)
    BY <1>1 DEF SinTareas
  <2>3. \A e \in esperan' : e = <<e[1], e[2]>> /\ e[1] \notin idos'
    BY <1>1, <1>2, <1>4 DEF Turnos
  <2>4. curso' # SinCurso => curso'.t \notin idos'
    BY <1>1, <1>2, <1>5, <1>7
  <2>5. ASSUME NEW u \in Trips, NEW o1 \in PideElTripulante, NEW o2 \in PideElTripulante,
               <<u, o1>> \in esperan'
        PROVE  ~(curso'.t = u /\ curso'.op = o2) /\ (<<u, o2>> \in esperan' => o1 = o2)
    <3>1. \A o \in PideElTripulante : <<u, o>> \in esperan /\ <<u, o1>> \in esperan => o1 = o
      BY <1>4 DEF Turnos
    <3>2. <<u, o1>> \in esperan /\ <<u, o1>> # <<t, op>>
      BY <1>1, <2>5
    <3>3. ~(curso'.t = u /\ curso'.op = o2)
      <4>1. CASE curso' = curso
        BY <1>6, <4>1
      <4>2. CASE curso'.t = t /\ curso'.op = op
        BY <1>1, <3>1, <3>2, <4>2
      <4> QED BY <1>7, <4>1, <4>2
    <3> QED BY <1>1, <3>1, <3>2, <3>3
  <2>6. ASSUME NEW u \in Trips, SinTareas(u)', EnServicio(u, {"estado"})', EnServicio(u, {"obtener"})'
        PROVE  FALSE
    <3>1. SinTareas(u) /\ EnServicio(u, {"estado"}) /\ EnServicio(u, {"obtener"})
      BY <2>1, <2>2, <2>6
    <3> QED BY <1>4, <3>1 DEF Turnos
  <2> QED BY <2>3, <2>4, <2>5, <2>6 DEF Turnos
<1>8. CASE t \notin Conocidos
  <2>1. caida' = TRUE /\ curso' = curso
    BY <1>8 DEF TomarNoReemplazar
  <2>2. Contables'
    BY <1>1, <1>4, <2>1, ContablesIguales
  <2> QED BY <1>1, <1>2, <1>7, <2>1, <2>2, CaerContenidos
<1>9. CASE t \in Conocidos
  <2> DEFINE a == Accesos(t, op)
  <2>1. curso' = [t |-> t, op |-> op, pasos |-> a, frame |-> 0, indice |-> 0, tarea |-> 0] /\ caida' = caida
    BY <1>9 DEF TomarNoReemplazar, SinCurso
  <2>2. curso'.t = t /\ curso'.op = op /\ curso'.pasos = a
    BY <2>1
  <2>3. a \in Seq([modo : Modos, pag : PaginasConTcb(t)])
    BY AccesosBien
  <2>4. Fase(curso', respuestas[t]) /\ ~Avanzo(curso')
    BY <2>2, FaseInicial
  <2> HIDE DEF a
  <2>5. ASSUME NEW i \in DOMAIN curso'.pasos PROVE curso'.pasos[i].pag \in Vivas'
    <3>1. a[i].pag \in PaginasConTcb(t)
      <4>1. Len(a) \in Nat /\ a \in [1..Len(a) -> [modo : Modos, pag : PaginasConTcb(t)]]
        BY <2>3, LenProperties
      <4> QED BY <2>2, <2>5, <4>1
    <3>2. PICK g \in PaginasConTcb(t) : g = a[i].pag
      BY <3>1
    <3>3. g \in Paginas /\ g[1] = t[1] /\ PorUsar(g)
      BY <1>4, <1>5, PaginaDeVivo
    <3>4. g \in Vivas
      BY <1>1, <1>5, <3>3, TodasCargadas DEF PorUsar
    <3> QED BY <1>3, <2>2, <3>2, <3>4
  <2>6. \A u \in Trips \ idos : Sabe(u)' = respuestas[u] + IF curso'.t = u /\ Avanzo(curso') THEN 1 ELSE 0
    <3>1. \A u \in Trips \ idos : Sabe(u) = respuestas[u] + 0
      BY <1>4, <1>6 DEF Progreso
    <3> QED BY <1>3, <2>4, <3>1
  <2>7. Progreso'
    BY <1>1, <1>2, <2>2, <2>4, <2>5, <2>6 DEF Progreso
  <2>8. Contables'
    BY <1>1, <1>4, <2>1, ContablesIguales DEF Contables
  <2>9. Igual
    BY <1>1, <1>2, <1>3 DEF Igual
  <2> QED BY <1>1, <1>3, <1>7, <2>1, <2>2, <2>7, <2>8, <2>9 DEF Contenidos
<1> QED BY <1>8, <1>9

-----------------------------------------------------------------------------
(* A crew leaves.                                                            *)

\* What changes in each page, frame and frame of swap.
LEMMA SueltaCampos ==
  ASSUME FormaMemoria, NEW t \in Trips, Suelta(t)
  PROVE  /\ \A g \in Paginas :
              /\ pagina'[g].presente <=> pagina[g].presente /\ g \notin SueltaMarco(t)
              /\ pagina'[g].frame = pagina[g].frame /\ pagina'[g].swap = pagina[g].swap
              /\ pagina'[g].usados = IF g[1] = t[1] THEN pagina[g].usados - BytesTcb(t, g)
                                                    ELSE pagina[g].usados
         /\ \A f \in Frames : marco'[f].dato = marco[f].dato
         /\ \A s \in Swap :
              /\ swap'[s].dato = swap[s].dato
              /\ swap'[s].libre <=> swap[s].libre \/ \E g \in SueltaSwap(t) : pagina[g].swap = s
<1>1. ASSUME NEW g \in Paginas
      PROVE  /\ pagina'[g].presente <=> pagina[g].presente /\ g \notin SueltaMarco(t)
             /\ pagina'[g].frame = pagina[g].frame /\ pagina'[g].swap = pagina[g].swap
             /\ pagina'[g].usados = SinUsados(t)[g]
  <2>1. PICK x \in TipoPagina : x = pagina[g]
    BY DEF FormaMemoria
  <2>2. PICK v \in BOOLEAN : v = (x.presente /\ g \notin SueltaMarco(t))
    OBVIOUS
  <2>3. pagina'[g] = [x EXCEPT !.presente = v, !.usados = SinUsados(t)[g]]
    BY <2>1, <2>2 DEF Suelta
  <2> QED BY <2>1, <2>2, <2>3 DEF TipoPagina
<1>2. ASSUME NEW f \in Frames PROVE marco'[f].dato = marco[f].dato
  <2>1. PICK x \in Marco : x = marco[f]
    BY DEF FormaMemoria, Marco
  <2>2. PICK v \in BOOLEAN : v = (x.libre \/ \E g \in SueltaMarco(t) : pagina[g].frame = f)
    OBVIOUS
  <2>3. marco'[f] = [x EXCEPT !.libre = v]
    BY <2>1, <2>2 DEF Suelta
  <2> QED BY <2>1, <2>3 DEF Marco
<1>3. ASSUME NEW s \in Swap
      PROVE  /\ swap'[s].dato = swap[s].dato
             /\ swap'[s].libre <=> swap[s].libre \/ \E g \in SueltaSwap(t) : pagina[g].swap = s
  <2>1. PICK x \in [libre : BOOLEAN, dato : Datos] : x = swap[s]
    BY DEF FormaMemoria
  <2>2. PICK v \in BOOLEAN : v = (x.libre \/ \E g \in SueltaSwap(t) : pagina[g].swap = s)
    OBVIOUS
  <2>3. swap'[s] = [x EXCEPT !.libre = v]
    BY <2>1, <2>2 DEF Suelta
  <2> QED BY <2>1, <2>2, <2>3
<1>4. \A g \in Paginas : SinUsados(t)[g] = IF g[1] = t[1] THEN pagina[g].usados - BytesTcb(t, g)
                                                         ELSE pagina[g].usados
  BY DEF SinUsados
<1> QED BY <1>1, <1>2, <1>3, <1>4

\* The list without the patota whose last crew leaves.
LEMMA SueltaTabla ==
  ASSUME patotas \in Seq(Pids), NEW t \in Trips, patotas' = Tablas(t)
  PROVE  /\ patotas' \in Seq(Pids)
         /\ ToSet(patotas)' = IF vivos[t[1]] = 1 THEN ToSet(patotas) \ {t[1]} ELSE ToSet(patotas)
<1>1. CASE vivos[t[1]] = 1
  <2> DEFINE X == {i \in DOMAIN patotas : patotas[i] = t[1]}
             k == Salvo(patotas, X)
             n == Cardinality(DOMAIN patotas \ X)
  <2>1. patotas' = k
    BY <1>1 DEF Tablas
  <2> HIDE DEF X
  <2>2. k \in Seq(Pids) /\ DOMAIN k = 1..n /\ \E m : Elige(m, patotas, X)
    BY SalvoElige
  <2>3. PICK m : Elige(m, patotas, X)
    BY <2>2
  <2>4. /\ m \in [1..n -> DOMAIN patotas \ X] /\ \A i \in 1..n : k[i] = patotas[m[i]]
        /\ \A j \in DOMAIN patotas \ X : \E i \in 1..n : m[i] = j
    BY <2>3 DEF Elige
  <2> HIDE DEF k, n
  <2>5. \A q : q \in ToSet(k) <=> q \in ToSet(patotas) /\ q # t[1]
    <3>1. ASSUME NEW i \in 1..n PROVE k[i] \in ToSet(patotas) /\ k[i] # t[1]
      BY <2>4 DEF X, ToSet
    <3>2. ASSUME NEW j \in DOMAIN patotas, patotas[j] # t[1] PROVE patotas[j] \in ToSet(k)
      <4>1. j \in DOMAIN patotas \ X
        BY <3>2 DEF X
      <4>2. PICK i \in 1..n : m[i] = j
        BY <2>4, <4>1
      <4> QED BY <2>2, <2>4, <4>2 DEF ToSet
    <3> QED BY <2>2, <3>1, <3>2 DEF ToSet
  <2>6. ToSet(patotas)' = ToSet(k)
    BY <2>1
  <2> QED BY <1>1, <2>1, <2>2, <2>5, <2>6
<1>2. CASE vivos[t[1]] # 1
  BY <1>2 DEF Tablas
<1> QED BY <1>1, <1>2

\* A crew that leaves: its bytes are no longer counted, nor is it.
LEMMA SueltaCuentas ==
  ASSUME IndMarcos, Cuentas, ini = SinAlta, NEW t \in Trips \ idos, t[1] \in aceptadas, Suelta(t),
         UNCHANGED altas
  PROVE  /\ Cuentas' /\ t[1] \in ToSet(patotas)
         /\ ToSet(patotas)' = {p \in ToSet(patotas) : \E u \in Trips \ idos' : u[1] = p}
<1>1. FormaMemoria /\ FormaAlta /\ idos' = idos \cup {t} /\ vivos' = [vivos EXCEPT ![t[1]] = @ - 1]
      /\ patotas' = Tablas(t)
  BY DEF IndMarcos, FormaPaginas, Suelta
<1>2. PICK p \in Pids : p = t[1]
  BY Contada
<1>3. /\ vivos[p] \in Nat \ {0} /\ p \in ToSet(patotas) /\ ini.pid = 0
  BY <1>2, Contada DEF SinAlta
<1>4. FormaAlta' /\ ini' = SinAlta /\ aceptadas' = aceptadas /\ \A g \in Paginas : Cargada(g)' <=> Cargada(g)
  BY <1>1, AltaIgual
<1>5. idos' \subseteq Trips /\ \A u \in idos' : u[1] \in aceptadas' /\ u[1] # ini'.pid
  <2>1. t[1] # 0
    BY <1>2, Pedidas
  <2> QED BY <1>1, <1>3, <1>4, <2>1 DEF Cuentas
<1>6. vivos' \in [Pids -> Nat] /\ vivos'[p] = vivos[p] - 1 /\ \A q \in Pids \ {p} : vivos'[q] = vivos[q]
  <2>1. vivos \in [Pids -> Nat]
    BY DEF Cuentas
  <2>2. PICK n \in Nat : n = vivos[p] - 1
    BY <1>3
  <2>3. vivos' = [vivos EXCEPT ![p] = n]
    BY <1>1, <1>2, <2>2
  <2> QED BY <2>1, <2>2, <2>3
<1>7. ASSUME NEW q \in Pids PROVE vivos'[q] = Cardinality(SinSalir(q)') /\ (vivos'[q] > 0 <=> SinSalir(q)' # {})
  <2>1. vivos[q] = Cardinality(SinSalir(q)) /\ IsFiniteSet(SinSalir(q))
    BY SinSalirFinitos DEF Cuentas
  <2>2. SinSalir(q)' = SinSalir(q) \ {t}
    BY <1>1 DEF SinSalir
  <2>3. t \in SinSalir(q) <=> q = p
    BY <1>2 DEF SinSalir
  <2>4. IsFiniteSet(SinSalir(q)') /\ vivos'[q] = Cardinality(SinSalir(q)')
    <3>1. /\ IsFiniteSet(SinSalir(q) \ {t})
          /\ Cardinality(SinSalir(q) \ {t}) = IF t \in SinSalir(q) THEN Cardinality(SinSalir(q)) - 1
                                                                  ELSE Cardinality(SinSalir(q))
      BY <2>1, FS_RemoveElement
    <3> QED BY <1>6, <2>1, <2>2, <2>3, <3>1
  <2>5. Cardinality(SinSalir(q)') \in Nat /\ (Cardinality(SinSalir(q)') = 0 <=> SinSalir(q)' = {})
    BY <2>4, FS_CardinalityType, FS_EmptySet
  <2> QED BY <2>4, <2>5
<1>8. /\ patotas \in Seq(Pids) /\ ToSet(patotas) = {q \in aceptadas : vivos[q] > 0} /\ aceptadas \subseteq Pids
  <2>1. aceptadas \subseteq Pids
    BY <1>1, Pedidas DEF FormaAlta
  <2> QED BY <2>1 DEF Cuentas
<1>9. patotas' \in Seq(Pids) /\ ToSet(patotas)' = {q \in aceptadas' : vivos'[q] > 0}
  <2>1. /\ patotas' \in Seq(Pids)
        /\ ToSet(patotas)' = IF vivos[p] = 1 THEN ToSet(patotas) \ {p} ELSE ToSet(patotas)
    BY <1>1, <1>2, <1>8, SueltaTabla
  <2>2. \A q \in aceptadas : q # p => vivos'[q] = vivos[q]
    BY <1>6, <1>8
  <2>3. vivos'[p] > 0 <=> vivos[p] # 1
    BY <1>3, <1>6
  <2> QED BY <1>2, <1>3, <1>4, <1>8, <2>1, <2>2, <2>3
<1>10. ASSUME NEW g \in Paginas
       PROVE  IF Cargada(g)' THEN pagina'[g].usados = Cardinality(Quedan(g, idos'))
              ELSE pagina'[g].usados = 0 /\ pagina'[g].frame = 0 /\ pagina'[g].swap = 0
  <2>1. /\ pagina'[g].frame = pagina[g].frame /\ pagina'[g].swap = pagina[g].swap
        /\ pagina'[g].usados = IF g[1] = t[1] THEN pagina[g].usados - BytesTcb(t, g) ELSE pagina[g].usados
    BY <1>1, SueltaCampos
  <2>2. idos \in SUBSET Trips
    BY DEF Cuentas
  <2>3. CASE Cargada(g)
    <3>1. pagina[g].usados = Cardinality(Quedan(g, idos))
      BY <2>3 DEF Cuentas
    <3>2. /\ g[1] # t[1] => Quedan(g, idos') = Quedan(g, idos)
          /\ g[1] = t[1] => Cardinality(Quedan(g, idos')) = Cardinality(Quedan(g, idos)) - BytesTcb(t, g)
      BY <1>1, <2>2, QuedanSin
    <3> QED BY <1>4, <2>1, <2>3, <3>1, <3>2
  <2>4. CASE ~Cargada(g)
    <3>1. g[1] # t[1]
      <4>1. g[1] # 0
        BY NombrePagina, Pedidas
      <4> QED BY <1>3, <2>4, <4>1 DEF Cargada
    <3>2. pagina[g].usados = 0 /\ pagina[g].frame = 0 /\ pagina[g].swap = 0
      BY <2>4 DEF Cuentas
    <3> QED BY <1>4, <2>1, <2>4, <3>1, <3>2
  <2> QED BY <2>3, <2>4
<1>11. Cuentas'
  BY <1>5, <1>6, <1>7, <1>9, <1>10 DEF Cuentas
<1>12. ToSet(patotas)' = {q \in ToSet(patotas) : \E u \in Trips \ idos' : u[1] = q}
  <2>1. \A q \in Pids : vivos'[q] > 0 => vivos[q] > 0
    <3>1. vivos \in [Pids -> Nat]
      BY DEF Cuentas
    <3> QED BY <1>3, <1>6, <3>1
  <2>2. \A q \in Pids : vivos'[q] > 0 <=> \E u \in Trips \ idos' : u[1] = q
    BY <1>7 DEF SinSalir
  <2> QED BY <1>4, <1>8, <1>9, <2>1, <2>2
<1> QED BY <1>2, <1>3, <1>11, <1>12

\* The pages nobody has bytes in any more are those that leave memory or swap.
LEMMA SueltaVivas ==
  ASSUME IndMarcos, Cuentas, EnSwap, ~lleno, ini = SinAlta, NEW t \in Trips \ idos, t[1] \in aceptadas,
         Suelta(t), UNCHANGED altas
  PROVE  /\ Vivas' = Vivas \ (SueltaMarco(t) \cup SueltaSwap(t) \cup PierdeSwap(t))
         /\ \A g \in SueltaMarco(t) : g \in Vivas /\ pagina[g].presente
         /\ \A g \in SueltaSwap(t) \cup PierdeSwap(t) : g \in Vivas /\ ~pagina[g].presente
         /\ \A g \in SueltaSwap(t) : g \notin PierdeSwap(t)
<1>1. PICK p \in Pids : p = t[1] /\ vivos[p] \in Nat \ {0} /\ p \in ToSet(patotas)
  BY Contada
<1>2. /\ \A g \in Paginas : pagina'[g].usados = IF g[1] = p THEN pagina[g].usados - BytesTcb(t, g)
                                                           ELSE pagina[g].usados
      /\ FormaMemoria
  BY <1>1, SueltaCampos DEF IndMarcos, FormaPaginas
<1>3. \A g \in Paginas : SinUsados(t)[g] = pagina'[g].usados
  BY <1>1, <1>2 DEF SinUsados
<1>4. Cuentas' /\ ToSet(patotas)' = {q \in ToSet(patotas) : \E u \in Trips \ idos' : u[1] = q}
  BY SueltaCuentas
<1>5. p \in ToSet(patotas)' <=> vivos[p] # 1
  <2>1. ToSet(patotas)' = IF vivos[p] = 1 THEN ToSet(patotas) \ {p} ELSE ToSet(patotas)
    BY <1>1, SueltaTabla DEF Cuentas, Suelta
  <2> QED BY <1>1, <2>1
<1>6. \A q \in Pids \ {p} : q \in ToSet(patotas)' <=> q \in ToSet(patotas)
  <2>1. ToSet(patotas)' = IF vivos[p] = 1 THEN ToSet(patotas) \ {p} ELSE ToSet(patotas)
    BY <1>1, SueltaTabla DEF Cuentas, Suelta
  <2> QED BY <2>1
<1>7. PaginasDe(p) \subseteq Paginas /\ \A g \in Paginas : g[1] \in Pids /\ (g[1] = p <=> g \in PaginasDe(p))
  <2>1. PaginasDe(p) \subseteq Paginas
    BY <1>1, PaginasDelTcb
  <2>2. \A g \in PaginasDe(p) : g[1] = p
    BY DEF PaginasDe
  <2>3. \A g \in Paginas : g[1] = p => g \in PaginasDe(p)
    BY NombrePagina DEF PaginasDe
  <2> QED BY <2>1, <2>2, <2>3, NombrePagina
<1>8. Vacias(t) = {g \in PaginasConTcb(t) : pagina'[g].usados = 0}
  <2>1. ToSet(PaginasTcb(t)) = PaginasConTcb(t) /\ PaginasConTcb(t) \subseteq Paginas
    BY PaginasDelTcb
  <2> QED BY <1>3, <2>1 DEF Vacias
<1>9. ASSUME NEW g \in PaginasConTcb(t) PROVE g \in Vivas /\ g[1] = p
  <2>1. g \in Paginas /\ g[1] = t[1] /\ PorUsar(g)
    BY PaginaDeVivo
  <2> QED BY <1>1, <2>1, TodasCargadas DEF PorUsar
<1>10. ASSUME NEW g \in Paginas, g[1] = p
       PROVE  /\ pagina[g].usados \in Nat /\ BytesTcb(t, g) \in Nat
              /\ (pagina'[g].usados > 0 => pagina[g].usados > 0)
              /\ (pagina[g].usados > 0 => pagina'[g].usados > 0 \/ g \in Vacias(t))
  <2>1. Cargada(g)
    BY <1>1, <1>10, TodasCargadas
  <2>2. idos \in SUBSET Trips
    BY DEF Cuentas
  <2>3. /\ pagina[g].usados = Cardinality(Quedan(g, idos)) /\ Cardinality(Quedan(g, idos)) \in 0..TAMANIO_PAGINA
    BY <2>1, QuedanFinitos DEF Cuentas
  <2>4. pagina[g].usados \in Nat /\ BytesTcb(t, g) \in Nat
    BY <2>3, BytesDelTcb, Tamanios
  <2>5. g \notin PaginasConTcb(t) => BytesTcb(t, g) = 0
    BY <1>1, <1>10, <2>2, QuedanSin
  <2>6. pagina'[g].usados = pagina[g].usados - BytesTcb(t, g)
    BY <1>2, <1>10
  <2>7. pagina'[g].usados >= 0
    <3>1. /\ Cargada(g)'
          /\ \A h \in Paginas : Cargada(h)' => pagina'[h].usados = Cardinality(Quedan(h, idos'))
      <4>1. Cargada(g)'
        <5>1. ini' = ini /\ aceptadas' = aceptadas
          BY DEF altas
        <5> QED BY <2>1, <5>1 DEF Cargada
      <4> QED BY <1>4, <4>1 DEF Cuentas
    <3>2. Cardinality(Quedan(g, idos')) \in 0..TAMANIO_PAGINA
      BY QuedanFinitos
    <3> QED BY <3>1, <3>2, Tamanios
  <2> QED BY <1>8, <2>4, <2>5, <2>6, <2>7
<1>11. /\ \A g \in Paginas : g \in Vivas <=> g[1] \in ToSet(patotas) /\ pagina[g].usados > 0
       /\ \A g \in Paginas : g \in Vivas' <=> g[1] \in ToSet(patotas)' /\ pagina'[g].usados > 0
       /\ Vivas \subseteq Paginas /\ Vivas' \subseteq Paginas
  BY DEF Vivas
<1>12. \A g \in Paginas : pagina[g].presente => g \in Vivas
  BY DEF EnSwap
<1>13. /\ SueltaMarco(t) = {g \in PaginasDe(p) : pagina[g].presente /\ (g \in Vacias(t) \/ vivos[p] = 1)}
       /\ SueltaSwap(t) = {g \in Vacias(t) : ~pagina[g].presente}
       /\ PierdeSwap(t) = {g \in PaginasDe(p) : vivos[p] = 1 /\ ~pagina[g].presente /\ pagina'[g].usados > 0}
  BY <1>1, <1>3, <1>7 DEF SueltaMarco, SueltaSwap, PierdeSwap
<1>14. \A g \in SueltaMarco(t) : g \in Vivas /\ pagina[g].presente
  BY <1>7, <1>12, <1>13
<1>15. \A g \in SueltaSwap(t) \cup PierdeSwap(t) : g \in Vivas /\ ~pagina[g].presente
  <2>1. ASSUME NEW g \in SueltaSwap(t) PROVE g \in Vivas /\ ~pagina[g].presente
    BY <1>8, <1>9, <1>13
  <2>2. ASSUME NEW g \in PierdeSwap(t) PROVE g \in Vivas /\ ~pagina[g].presente
    <3>1. g \in Paginas /\ g[1] = p /\ ~pagina[g].presente /\ pagina'[g].usados > 0
      BY <1>7, <1>13
    <3> QED BY <1>1, <1>10, <1>11, <3>1
  <2> QED BY <2>1, <2>2
<1>16. \A g \in SueltaSwap(t) : g \notin PierdeSwap(t)
  BY <1>8, <1>13
<1>17. ASSUME NEW g \in Paginas
       PROVE  g \in Vivas' <=> g \in Vivas /\ g \notin SueltaMarco(t) \cup SueltaSwap(t) \cup PierdeSwap(t)
  <2>1. CASE g[1] # p
    <3>1. g \notin SueltaMarco(t) \cup SueltaSwap(t) \cup PierdeSwap(t)
      BY <1>7, <1>8, <1>9, <1>13, <2>1
    <3> QED BY <1>2, <1>6, <1>7, <1>11, <2>1, <3>1
  <2>2. CASE g[1] = p /\ vivos[p] = 1
    <3>1. g \notin Vivas'
      BY <1>5, <1>11, <2>2
    <3>2. g \in Vivas => g \in SueltaMarco(t) \cup SueltaSwap(t) \cup PierdeSwap(t)
      BY <1>7, <1>10, <1>11, <1>13, <2>2
    <3> QED BY <3>1, <3>2
  <2>3. CASE g[1] = p /\ vivos[p] # 1
    <3>1. g \in SueltaMarco(t) \cup SueltaSwap(t) \cup PierdeSwap(t) <=> g \in Vacias(t)
      BY <1>7, <1>13, <2>3
    <3>2. g \in Vacias(t) => pagina'[g].usados = 0
      BY <1>8
    <3> QED BY <1>1, <1>5, <1>10, <1>11, <2>3, <3>1, <3>2
  <2> QED BY <2>1, <2>2, <2>3
<1> HIDE DEF Vivas
<1> QED BY <1>11, <1>14, <1>15, <1>16, <1>17

\* Each frame of swap that is still taken is of a page that stays, or was lost.
LEMMA SueltaEnSwap ==
  ASSUME IndMarcos, Cuentas, EnSwap, ~lleno, ini = SinAlta, perdidos \subseteq Swap,
         NEW t \in Trips \ idos, t[1] \in aceptadas, Suelta(t), UNCHANGED altas
  PROVE  EnSwap' /\ perdidos' \subseteq Swap
<1> DEFINE M == SueltaMarco(t)
           S == SueltaSwap(t)
           P == PierdeSwap(t)
<1>1. /\ Vivas' = Vivas \ (M \cup S \cup P)
      /\ \A g \in M : g \in Vivas /\ pagina[g].presente
      /\ \A g \in S \cup P : g \in Vivas /\ ~pagina[g].presente
      /\ \A g \in S : g \notin P
  BY SueltaVivas
<1>2. /\ \A g \in Paginas : /\ pagina'[g].presente <=> pagina[g].presente /\ g \notin M
                            /\ pagina'[g].frame = pagina[g].frame /\ pagina'[g].swap = pagina[g].swap
      /\ \A f \in Frames : marco'[f].dato = marco[f].dato
      /\ \A s \in Swap : /\ swap'[s].dato = swap[s].dato
                         /\ swap'[s].libre <=> swap[s].libre \/ \E g \in S : pagina[g].swap = s
  BY SueltaCampos DEF IndMarcos, FormaPaginas
<1>3. perdidos' = perdidos \cup {pagina[g].swap : g \in P}
  BY DEF Suelta
<1>4. Vivas \subseteq Paginas /\ Marcos
  BY DEF Vivas, IndMarcos, EnMemoria
<1> HIDE DEF M, S, P, Vivas
<1>5. \A g \in Vivas : ~pagina[g].presente =>
       /\ pagina[g].swap \in Swap /\ pagina[g].frame = 0 /\ pagina[g].swap # 0 /\ ~swap[pagina[g].swap].libre
       /\ swap[pagina[g].swap].dato.de = g /\ pagina[g].swap \notin perdidos
       /\ \A h \in Vivas \ {g} : ~pagina[h].presente => pagina[h].swap # pagina[g].swap
  <2>1. ASSUME NEW g \in Vivas, ~pagina[g].presente PROVE pagina[g].swap \in Swap
    BY <1>4, <2>1, DondeEsta DEF PorUsar
  <2> QED BY <2>1 DEF EnSwap
<1>6. perdidos' \subseteq Swap
  BY <1>1, <1>3, <1>5
<1>7. ASSUME NEW g \in Paginas, pagina'[g].presente
      PROVE  g \in Vivas' /\ marco'[pagina'[g].frame].dato.de = g
  <2>1. pagina[g].presente /\ g \notin M /\ pagina'[g].frame = pagina[g].frame
    BY <1>2, <1>7
  <2>2. g \in Vivas /\ marco[pagina[g].frame].dato.de = g /\ pagina[g].frame \in Frames
    BY <1>4, <2>1 DEF EnSwap, Marcos
  <2> QED BY <1>1, <1>2, <2>1, <2>2
<1>8. ASSUME NEW g \in Vivas', ~pagina'[g].presente
      PROVE  /\ pagina'[g].frame = 0 /\ pagina'[g].swap # 0 /\ ~swap'[pagina'[g].swap].libre
             /\ swap'[pagina'[g].swap].dato.de = g /\ pagina'[g].swap \notin perdidos'
             /\ \A h \in Vivas' \ {g} : ~pagina'[h].presente => pagina'[h].swap # pagina'[g].swap
  <2>1. /\ g \in Vivas /\ g \notin M \cup S \cup P /\ g \in Paginas /\ ~pagina[g].presente
        /\ pagina'[g].frame = pagina[g].frame /\ pagina'[g].swap = pagina[g].swap
    BY <1>1, <1>2, <1>4, <1>8
  <2>2. \A h \in S \cup P : pagina[h].swap # pagina[g].swap
    BY <1>1, <1>5, <2>1
  <2>3. ASSUME NEW h \in Vivas' \ {g}, ~pagina'[h].presente PROVE pagina'[h].swap # pagina[g].swap
    <3>1. h \in Vivas \ {g} /\ ~pagina[h].presente /\ pagina'[h].swap = pagina[h].swap
      BY <1>1, <1>2, <1>4, <2>3
    <3> QED BY <1>5, <2>1, <3>1
  <2>4. pagina[g].swap \notin perdidos'
    BY <1>3, <1>5, <2>1, <2>2
  <2>5. ~swap'[pagina[g].swap].libre /\ swap'[pagina[g].swap].dato.de = g
    BY <1>2, <1>5, <2>1, <2>2
  <2> QED BY <1>5, <2>1, <2>3, <2>4, <2>5
<1>9. ASSUME NEW s \in perdidos' PROVE ~swap'[s].libre
  <2>1. CASE s \in perdidos
    <3>1. ~swap[s].libre /\ s \in Swap
      BY <2>1 DEF EnSwap
    <3>2. \A g \in S : pagina[g].swap # s
      BY <1>1, <1>5, <2>1
    <3> QED BY <1>2, <3>1, <3>2
  <2>2. CASE s \notin perdidos
    <3>1. PICK h \in P : s = pagina[h].swap
      BY <1>3, <2>2
    <3>2. h \in Vivas /\ ~pagina[h].presente /\ ~swap[s].libre /\ s \in Swap
      BY <1>1, <1>5, <3>1
    <3>3. \A g \in S : pagina[g].swap # s
      BY <1>1, <1>5, <3>1, <3>2
    <3> QED BY <1>2, <3>2, <3>3
  <2> QED BY <2>1, <2>2
<1>10. ASSUME NEW s \in Swap, ~swap'[s].libre
       PROVE  s \in perdidos' \/ \E g \in Vivas' : ~pagina'[g].presente /\ pagina'[g].swap = s
  <2>1. ~swap[s].libre /\ \A g \in S : pagina[g].swap # s
    BY <1>2, <1>10
  <2>2. s \in perdidos \/ \E g \in Vivas : ~pagina[g].presente /\ pagina[g].swap = s
    BY <2>1 DEF EnSwap
  <2>3. ASSUME NEW g \in Vivas, ~pagina[g].presente, pagina[g].swap = s
        PROVE  s \in perdidos' \/ (g \in Vivas' /\ ~pagina'[g].presente /\ pagina'[g].swap = s)
    BY <1>1, <1>2, <1>3, <1>4, <2>1, <2>3
  <2> QED BY <1>3, <2>2, <2>3
<1> QED BY <1>6, <1>7, <1>8, <1>9, <1>10 DEF EnSwap

\* Nobody is served, and those that wait are still there.
LEMMA TurnosSinCurso ==
  ASSUME Turnos, curso' = SinCurso, UNCHANGED <<esperan, respuestas>>, \A e \in esperan : e[1] \notin idos'
  PROVE  Turnos'
<1>1. curso'.t = Nadie /\ Nadie \notin Trips
  BY Pedidas DEF SinCurso
<1>2. ASSUME NEW u \in Trips, SinTareas(u)', EnServicio(u, {"estado"})', EnServicio(u, {"obtener"})'
      PROVE  FALSE
  <2>1. SinTareas(u) /\ EnServicio(u, {"estado"}) /\ EnServicio(u, {"obtener"})
    BY <1>1, <1>2 DEF EnServicio, SinTareas
  <2> QED BY <2>1 DEF Turnos
<1>3. \A e \in esperan' : e = <<e[1], e[2]>> /\ e[1] \notin idos'
  BY DEF Turnos
<1>4. \A u \in Trips : \A o1, o2 \in PideElTripulante : <<u, o1>> \in esperan' =>
         ~(curso'.t = u /\ curso'.op = o2) /\ (<<u, o2>> \in esperan' => o1 = o2)
  BY <1>1 DEF Turnos
<1> QED BY <1>2, <1>3, <1>4 DEF Turnos

\* A crew that leaves with nothing of it waiting.
LEMMA IrseContenidos ==
  ASSUME IndMemoria, ~lleno, ~caida, ini = SinAlta, NEW t \in Trips \ idos, t[1] \in aceptadas,
         Suelta(t), UNCHANGED <<altas, esperan, respuestas>>, curso' = SinCurso,
         curso = SinCurso \/ curso.t = t, \A e \in esperan : e[1] # t,
         expulsados' \subseteq Trips, trabada' \in BOOLEAN
  PROVE  Contenidos' /\ Plana!Irse(t)
<1>1. IndMarcos /\ FormaMemoria /\ Contables /\ Cuentas /\ Turnos /\ EnSwap /\ Progreso
  BY DEF IndMemoria, Contenidos, IndMarcos, FormaPaginas
<1>2. /\ Cuentas' /\ t[1] \in ToSet(patotas)
      /\ ToSet(patotas)' = {p \in ToSet(patotas) : \E u \in Trips \ idos' : u[1] = p}
  BY <1>1, SueltaCuentas
<1>3. EnSwap' /\ perdidos' \subseteq Swap
  BY <1>1, SueltaEnSwap DEF Contables
<1>4. idos' = idos \cup {t} /\ lleno' = lleno /\ caida' = caida
  BY DEF Suelta
<1>5. \A u \in Trips \ idos : Sabe(u)' = Sabe(u)
  <2>1. ASSUME NEW g \in Paginas, PorUsar(g) PROVE Donde(g)' = Donde(g)
    <3>1. /\ pagina'[g].frame = pagina[g].frame /\ pagina'[g].swap = pagina[g].swap
          /\ \A f \in Frames : marco'[f].dato = marco[f].dato
          /\ \A s \in Swap : swap'[s].dato = swap[s].dato
      BY <1>1, SueltaCampos
    <3>2. PICK x \in TipoPagina : x = pagina[g]
      BY <1>1 DEF FormaMemoria
    <3> QED BY <3>1, <3>2 DEF Donde, TipoPagina
  <2> QED BY <1>1, <2>1, SabeIgual
<1>6. Turnos'
  <2>1. \A e \in esperan : e[1] \notin idos'
    BY <1>1, <1>4 DEF Turnos
  <2> QED BY <1>1, <2>1, TurnosSinCurso
<1>7. Contables'
  BY <1>1, <1>3, <1>4 DEF Contables
<1>8. curso'.t = Nadie /\ curso'.pasos = <<>> /\ Nadie \notin Trips
  BY Pedidas DEF SinCurso
<1>9. Progreso'
  <2>1. ASSUME NEW u \in Trips \ idos'
        PROVE  Sabe(u)' = respuestas'[u] + IF curso'.t = u /\ Avanzo(curso') THEN 1 ELSE 0
    <3>1. u \in Trips \ idos /\ curso.t # u /\ curso'.t # u
      BY <1>4, <1>8 DEF SinCurso
    <3>2. Sabe(u) = respuestas[u] + 0
      BY <1>1, <3>1 DEF Progreso
    <3> QED BY <1>5, <3>1, <3>2
  <2> QED BY <1>8, <2>1 DEF Progreso
<1>10. Plana!Irse(t)
  BY <1>2, <1>4, <1>5, VeIrse
<1> QED BY <1>2, <1>3, <1>4, <1>6, <1>7, <1>9, <1>10 DEF Contenidos

\* TerminarTripulante: no other request of a crew is under way at the end of its tasks.
LEMMA TerminarContenidos ==
  ASSUME IndMemoria, TerminarTripulante
  PROVE  Contenidos' /\ (Igual \/ \E t \in Trips : Plana!Irse(t))
<1>1. /\ EnPaso({"fin"}) /\ curso' = SinCurso
      /\ UNCHANGED <<algoritmo, altas, esperan, respuestas, expulsados, trabada>>
      /\ \/ caida' = TRUE /\ UNCHANGED <<memoria, tablas, idos, perdidos>>
         \/ SoltarTripulante(curso.t)
  BY DEF TerminarTripulante
<1>2. /\ IndMarcos /\ Contables /\ Cuentas /\ Turnos /\ EnSwap /\ Progreso /\ FormaCurso /\ FormaPedidos
      /\ ~lleno /\ ~caida /\ ini = SinAlta /\ curso.pasos # <<>> /\ curso \in TipoCurso /\ curso # SinCurso
      /\ Head(curso.pasos).modo = "fin" /\ EnMano = {curso.frame} \ {0}
  BY <1>1, Sirviendo, SirviendoContenidos
<1>3. EnMano = {}
  BY <1>2 DEF FormaCurso, Buscan, Usan
<1>4. PICK t \in Trips \ idos : t = curso.t /\ t[1] \in aceptadas
  BY <1>2 DEF FormaCurso, FormaPedidos, Turnos
<1>5. PICK r \in Nat : r = respuestas[t] /\ r <= Len(Patotas[t[1]].tareas)
  BY <1>2 DEF Contables
<1>6. curso.op = "obtener" /\ SinTareas(t)
  <2>1. Fase(curso, r)
    BY <1>2, <1>4, <1>5 DEF Progreso
  <2>2. curso.op = "obtener" /\ ~(r < Len(Patotas[t[1]].tareas))
    BY <1>2, <1>4, <2>1, FaseFin
  <2>3. PICK k \in Nat : k = Len(Patotas[t[1]].tareas)
    BY Pedidas, Textos
  <2> QED BY <1>5, <2>2, <2>3 DEF SinTareas
<1>7. \A e \in esperan : e[1] # t
  <2>1. \A o \in PideElTripulante : <<t, o>> \notin esperan
    BY <1>2, <1>4, <1>6 DEF Turnos, PideElTripulante
  <2>2. <<t, "estado">> \notin esperan
    <3>1. EnServicio(t, {"obtener"})
      BY <1>4, <1>6 DEF EnServicio
    <3>2. ~EnServicio(t, {"estado"})
      BY <1>2, <1>6, <3>1 DEF Turnos
    <3> QED BY <3>2 DEF EnServicio
  <2>3. \A e \in esperan : e = <<e[1], e[2]>> /\ e[2] \in PideElTripulante \cup {"estado"}
    BY <1>2 DEF Turnos, FormaPedidos, Ops
  <2> QED BY <2>1, <2>2, <2>3
<1>8. CASE caida' = TRUE /\ UNCHANGED <<memoria, tablas, idos, perdidos>>
  <2>1. Contables'
    BY <1>1, <1>2, <1>8 DEF Contables
  <2>2. Turnos'
    BY <1>1, <1>2, <1>8, TurnosSinCurso DEF Turnos
  <2> QED BY <1>1, <1>2, <1>8, <2>1, <2>2, CaerContenidos
<1>9. CASE Suelta(t)
  <2>1. expulsados' \subseteq Trips /\ trabada' \in BOOLEAN
    BY <1>1, <1>2 DEF Contables
  <2> QED BY <1>1, <1>2, <1>4, <1>7, <1>9, <2>1, IrseContenidos
<1> QED BY <1>1, <1>2, <1>3, <1>4, <1>8, <1>9, SoltarEs

\* ExpulsarTripulante: a crew that is expelled has no request under way.
LEMMA ExpulsarContenidos ==
  ASSUME IndMemoria, ~Solapadas, NEW t \in Trips, ExpulsarTripulante(t)
  PROVE  Contenidos' /\ (Igual \/ Plana!Irse(t))
<1>1. /\ ~lleno /\ ~caida /\ ini = SinAlta /\ curso = SinCurso /\ t \notin idos /\ t[1] \in aceptadas
      /\ ~EnServicio(t, Ops) /\ expulsados' = expulsados \cup {t}
      /\ UNCHANGED <<algoritmo, altas, esperan, curso, respuestas>>
      /\ \/ caida' = TRUE /\ UNCHANGED <<memoria, tablas, idos, perdidos, trabada>>
         \/ SoltarTripulante(t) /\ UNCHANGED trabada
         \/ trabada' = TRUE /\ UNCHANGED <<memoria, tablas, idos, perdidos, caida>>
  BY DEF ExpulsarTripulante, Andando, TablaDePatotasLibre, NadieReemplaza, Ops
<1>2. /\ IndMarcos /\ Contables /\ Cuentas /\ Turnos /\ Progreso /\ FormaPedidos /\ EnMano = {}
  BY <1>1, ManosLibres DEF IndMemoria, Contenidos, IndMarcos, FormaPaginas, SinCurso
<1>3. \A e \in esperan : e[1] # t
  <2>1. \A e \in esperan : e = <<e[1], e[2]>> /\ e[2] \in Ops
    BY <1>2 DEF Turnos, FormaPedidos
  <2> QED BY <1>1, <2>1 DEF EnServicio
<1>4. expulsados' \subseteq Trips
  BY <1>1, <1>2 DEF Contables
<1>5. CASE caida' = TRUE /\ UNCHANGED <<memoria, tablas, idos, perdidos, trabada>>
  <2>1. Contables'
    BY <1>1, <1>2, <1>4, <1>5 DEF Contables
  <2>2. Turnos'
    BY <1>1, <1>2, <1>5, TurnosIguales
  <2> QED BY <1>1, <1>5, <2>1, <2>2, CaerContenidos
<1>6. CASE SoltarTripulante(t) /\ UNCHANGED trabada
  <2>1. CASE caida' = TRUE /\ UNCHANGED <<memoria, tablas, idos, perdidos>>
    BY <1>5, <1>6, <2>1
  <2>2. CASE Suelta(t)
    <3>1. trabada' \in BOOLEAN /\ curso' = SinCurso
      BY <1>1, <1>2, <1>6 DEF Contables
    <3> QED BY <1>1, <1>3, <1>4, <2>2, <3>1, IrseContenidos
  <2> QED BY <1>1, <1>2, <1>6, <2>1, <2>2, SoltarEs
<1>7. CASE trabada' = TRUE /\ UNCHANGED <<memoria, tablas, idos, perdidos, caida>>
  <2>1. /\ lleno' = lleno /\ Cuentas' /\ EnSwap' /\ Vivas' = Vivas /\ UNCHANGED <<patotas, aceptadas, ini>>
        /\ \A u \in Trips \ idos : Sabe(u)' = Sabe(u)
    BY <1>1, <1>7, MemoriaMisma
  <2>2. Contables'
    BY <1>1, <1>2, <1>4, <1>7 DEF Contables
  <2>3. Turnos'
    BY <1>1, <1>2, <1>7, TurnosIguales
  <2>4. Progreso'
    BY <1>1, <1>2, <1>7, <2>1, ProgresoIgual
  <2>5. Igual
    BY <1>1, <1>7, <2>1 DEF Igual
  <2> QED BY <2>1, <2>2, <2>3, <2>4, <2>5 DEF Contenidos
<1> QED BY <1>1, <1>5, <1>6, <1>7

-----------------------------------------------------------------------------
(* Every step keeps it, and is a step of Memoria or changes nothing it sees. *)

\* With the memory empty no crew has anything.
LEMMA InitMemoria ==
  ASSUME Init
  PROVE  IndMemoria /\ Plana!MInit
<1>1. IndMarcos
  BY InitMarcos
<1>2. /\ patotas = <<>> /\ idos = {} /\ aceptadas = {} /\ ini = SinAlta /\ curso = SinCurso /\ esperan = {}
      /\ respuestas = [t \in Trips |-> 0] /\ perdidos = {} /\ expulsados = {} /\ ~trabada /\ ~caida
      /\ vivos = [p \in Pids |-> Patotas[p].cantidad] /\ trabada \in BOOLEAN /\ caida \in BOOLEAN
      /\ \A s \in Swap : swap[s].libre
      /\ \A g \in Paginas : /\ ~pagina[g].presente /\ pagina[g].frame = 0 /\ pagina[g].swap = 0
                            /\ pagina[g].usados = 0
  BY DEF Init
<1>3. Contables
  <2>1. ASSUME NEW t \in Trips PROVE respuestas[t] <= Len(Patotas[t[1]].tareas)
    <3>1. Len(Patotas[t[1]].tareas) \in Nat
      BY Pedidas, Textos
    <3> QED BY <1>2, <3>1
  <2> QED BY <1>2, <2>1 DEF Contables
<1>4. ToSet(patotas) = {} /\ Vivas = {} /\ Conocidos = {}
  <2>1. ToSet(patotas) = {}
    BY <1>2 DEF ToSet
  <2> QED BY <2>1 DEF Vivas, Conocidos
<1>5. Cuentas
  <2>1. ASSUME NEW p \in Pids PROVE vivos[p] \in Nat /\ vivos[p] = Cardinality(SinSalir(p))
    <3>1. SinSalir(p) = {t \in Trips : t[1] = p}
      BY <1>2 DEF SinSalir
    <3> QED BY <1>2, <3>1, TripsDe, Pedidas
  <2>2. vivos \in [Pids -> Nat]
    BY <1>2, <2>1
  <2>3. \A g \in Paginas : ~Cargada(g)
    BY <1>2 DEF Cargada
  <2>4. patotas \in Seq(Pids)
    BY <1>2
  <2> QED BY <1>2, <1>4, <2>1, <2>2, <2>3, <2>4 DEF Cuentas
<1>6. Turnos
  BY <1>2, Pedidas DEF Turnos, EnServicio, SinCurso
<1>7. EnSwap
  BY <1>2, <1>4 DEF EnSwap
<1>8. Progreso
  <2>1. ASSUME NEW t \in Trips PROVE Sabe(t) = 0
    <3>1. DeProxima(t) \in Paginas
      BY PaginasDelTcb DEF DeProxima, proxima_tarea
    <3>2. Donde(DeProxima(t)) = Dato(DeProxima(t))
      BY <1>2, <3>1 DEF Donde
    <3> QED BY <3>2 DEF Sabe, Dato
  <2>2. curso.t = Nadie /\ curso.pasos = <<>> /\ Nadie \notin Trips
    BY <1>2, Pedidas DEF SinCurso
  <2> QED BY <1>2, <2>1, <2>2 DEF Progreso
<1>9. Plana!MInit
  BY <1>2, <1>4, MismosNombres DEF Plana!MInit
<1> QED BY <1>1, <1>3, <1>5, <1>6, <1>7, <1>8, <1>9 DEF IndMemoria, Contenidos

\* Of a process that stopped or fell nothing changes.
LEMMA Quieto ==
  ASSUME IndMemoria, UNCHANGED vars
  PROVE  Contenidos' /\ Igual
<1>1. /\ UNCHANGED <<memoria, tablas, altas, bajas, esperan, curso, respuestas, caida>>
      /\ marco' = marco /\ swap' = swap /\ pagina' = pagina /\ lleno' = lleno /\ ini' = ini
      /\ aceptadas' = aceptadas /\ UNCHANGED <<patotas, vivos>> /\ UNCHANGED <<idos, perdidos>>
  BY DEF vars, memoria, tablas, altas, bajas
<1>2. IndMarcos /\ Contables /\ Cuentas /\ Turnos
  BY DEF IndMemoria, Contenidos
<1>3. Contables' /\ Turnos' /\ Cuentas' /\ Vivas' = Vivas
  BY <1>1, <1>2, ContablesIguales, TurnosIguales, CuentasIguales, VivasIguales DEF Contables
<1>4. \A t \in Trips \ idos : Sabe(t)' = Sabe(t)
  <2>1. \A g \in Paginas : Donde(g)' = Donde(g)
    BY <1>1 DEF Donde
  <2> QED BY <1>2, <2>1, SabeIgual
<1>5. ASSUME ~lleno PROVE EnSwap'
  BY <1>1, <1>3, <1>5, EnSwapIgual DEF IndMemoria, Contenidos, IndMarcos, EnMemoria
<1>6. ASSUME ~lleno, ~caida PROVE Progreso'
  BY <1>1, <1>3, <1>4, <1>6, ProgresoIgual DEF IndMemoria, Contenidos
<1> QED BY <1>1, <1>3, <1>4, <1>5, <1>6 DEF Contenidos, Igual

\* The steps, one by one.
LEMMA PasoMemoria ==
  ASSUME IndMemoria, ~Solapadas, FinDeTareas, [Next]_vars
  PROVE  IndMemoria' /\ [Plana!MNext]_(Plana!mvars)
<1> DEFINE Bien == Contenidos' /\ [Plana!MNext]_(Plana!mvars)
<1>1. IndMarcos'
  BY PasoMarcos DEF IndMemoria
<1>2. ASSUME Contenidos', Igual PROVE Bien
  BY <1>2, VeIgual
<1>3. ASSUME Contenidos', \E t \in Trips : Plana!Avanzar(t) \/ Plana!Responder(t) \/ Plana!Irse(t) PROVE Bien
  BY <1>3, MismosNombres DEF Plana!MNext
<1>4. ASSUME Alta PROVE Bien
  BY <1>2, <1>4, RecibirContenidos, ConseguirAltaContenidos, InstalarAltaContenidos DEF Alta
<1>5. ASSUME ConseguirMarco PROVE Bien
  BY <1>2, <1>5, ConseguirMarcoContenidos
<1>6. ASSUME InstalarPagina PROVE Bien
  BY <1>2, <1>3, <1>6, InstalarPaginaContenidos
<1>7. ASSUME TraerPresente \/ Leer PROVE Bien
  BY <1>2, <1>7, TraerLeerContenidos
<1>8. ASSUME BuscarEnHistorial PROVE Bien
  BY <1>2, <1>8, BuscarEnHistorialContenidos
<1>9. ASSUME UsarPagina PROVE Bien
  BY <1>2, <1>3, <1>9, UsarPaginaContenidos
<1>10. ASSUME Responder PROVE Bien
  BY <1>2, <1>3, <1>10, ResponderContenidos
<1>11. ASSUME TerminarTripulante PROVE Bien
  BY <1>2, <1>3, <1>11, TerminarContenidos
<1>12. ASSUME NEW t \in Trips, NEW op \in Ops, Buscar(t, op) \/ TomarNoReemplazar(t, op) PROVE Bien
  BY <1>2, <1>12, BuscarContenidos, TomarContenidos
<1>13. ASSUME NEW t \in Trips, ExpulsarTripulante(t) PROVE Bien
  BY <1>2, <1>3, <1>13, ExpulsarContenidos
<1>14. ASSUME UNCHANGED vars PROVE Bien
  BY <1>2, <1>14, Quieto
<1>15. Bien
  <2> HIDE DEF Bien
  <2> QED BY <1>4, <1>5, <1>6, <1>7, <1>8, <1>9, <1>10, <1>11, <1>12, <1>13, <1>14 DEF Next, Servir, Ops
<1> QED BY <1>1, <1>15 DEF IndMemoria

\* What the invariant says of swap and of the frames.
LEMMA NadaSePierde ==
  ASSUME IndMemoria
  PROVE  CopiaEnSwap /\ SinFugas
<1>1. ~lleno => EnSwap /\ Marcos
  BY DEF IndMemoria, Contenidos, IndMarcos, EnMemoria
<1>2. CopiaEnSwap
  BY <1>1 DEF CopiaEnSwap, EnSwap
<1>3. ASSUME ~lleno, NEW f \in Frames, ~marco[f].libre
      PROVE  \/ marco[f].de \in Vivas /\ pagina[marco[f].de].presente
             \/ f \in {ini.frame, curso.frame}
  BY <1>1, <1>3 DEF Marcos, EnSwap, EnMano
<1>4. ASSUME ~lleno, NEW s \in Swap, ~swap[s].libre
      PROVE  s \in perdidos \/ \E g \in Vivas : ~pagina[g].presente /\ pagina[g].swap = s
  BY <1>1, <1>4 DEF EnSwap
<1> QED BY <1>2, <1>3, <1>4 DEF SinFugas

\* And of the shape of the state, with the algorithm of the configuration.
LEMMA ConTipo ==
  ASSUME IndMemoria, algoritmo \in Algoritmos
  PROVE  TypeOK
<1>1. /\ FormaMemoria /\ FormaAlta /\ FormaCurso /\ FormaPedidos /\ Contables /\ Cuentas
  BY DEF IndMemoria, Contenidos, IndMarcos, FormaPaginas
<1>2. ASSUME NEW g \in Paginas PROVE pagina[g].usados \in 0..TAMANIO_PAGINA
  BY <1>1, QuedanFinitos, Tamanios DEF Cuentas
<1>3. pagina \in [Paginas -> [presente : BOOLEAN, frame : Frames \cup {0}, swap : Swap \cup {0},
                              uso : BOOLEAN, usados : 0..TAMANIO_PAGINA]]
  <2>1. ASSUME NEW g \in Paginas
        PROVE  pagina[g] \in [presente : BOOLEAN, frame : Frames \cup {0}, swap : Swap \cup {0},
                              uso : BOOLEAN, usados : 0..TAMANIO_PAGINA]
    <3>1. pagina[g] \in TipoPagina
      BY <1>1 DEF FormaMemoria
    <3> QED BY <1>2, <3>1 DEF TipoPagina
  <2> QED BY <1>1, <2>1 DEF FormaMemoria
<1>4. ini.pid \in Pids \cup {0} /\ ini.frame \in Frames \cup {0} /\ aceptadas \subseteq Pids
      /\ recibidas \in 0..Len(Patotas)
  BY <1>1, Pedidas DEF FormaAlta
<1>5. curso.t \in Trips \cup {Nadie} /\ curso.frame \in Frames \cup {0} /\ \A e \in esperan : e[1] \in Trips
  BY <1>1 DEF FormaCurso, FormaPedidos
<1> QED BY <1>1, <1>3, <1>4, <1>5 DEF TypeOK, FormaMemoria, Contables, Cuentas

\* The algorithm is chosen once.
LEMMA MismoAlgoritmo ==
  ASSUME algoritmo \in Algoritmos, [Next]_vars
  PROVE  algoritmo' \in Algoritmos
<1>1. CASE Alta
  BY <1>1 DEF Alta, RecibirPatota, ConseguirParaAlta, InstalarParaAlta
<1>2. CASE Servir
  BY <1>2 DEF Servir, ConseguirMarco, InstalarPagina, TraerPresente, Leer, BuscarEnHistorial,
              UsarPagina, Responder, TerminarTripulante
<1>3. ASSUME NEW t \in Trips, NEW op, Buscar(t, op) \/ TomarNoReemplazar(t, op) PROVE algoritmo' = algoritmo
  BY <1>3 DEF Buscar, TomarNoReemplazar
<1>4. ASSUME NEW t \in Trips, ExpulsarTripulante(t) PROVE algoritmo' = algoritmo
  BY <1>4 DEF ExpulsarTripulante
<1> QED BY <1>1, <1>2, <1>3, <1>4 DEF Next, vars

\* TypeOK: no entry of a page is past the frames or the swap there is, and bytes_usados, from
\* which each crew that leaves takes its own, never goes below zero nor over a page.
THEOREM PaginasConTipo ==
  ASSUME ~Solapadas, FinDeTareas
  PROVE  Spec => []TypeOK
<1>1. Init => IndMemoria /\ algoritmo \in Algoritmos
  BY InitMemoria DEF Init
<1>2. IndMemoria /\ algoritmo \in Algoritmos /\ [Next]_vars => (IndMemoria /\ algoritmo \in Algoritmos)'
  BY PasoMemoria, MismoAlgoritmo
<1>3. IndMemoria /\ algoritmo \in Algoritmos => TypeOK
  BY ConTipo
<1> QED BY <1>1, <1>2, <1>3, PTL DEF Spec

\* CopiaEnSwap: after any sustituir_LRU or sustituir_CLOCK, and any page fault, what a page had
\* is in memory or in a frame of swap of its own; buscar_frame_swap_libre never gives one that
\* is somebody's, nor does a fault free one before its page is back.
THEOREM SwapCoherente ==
  ASSUME ~Solapadas, FinDeTareas
  PROVE  Spec => []CopiaEnSwap
<1>1. Init => IndMemoria
  BY InitMemoria
<1>2. IndMemoria /\ [Next]_vars => IndMemoria'
  BY PasoMemoria
<1>3. IndMemoria => CopiaEnSwap
  BY NadaSePierde
<1> QED BY <1>1, <1>2, <1>3, PTL DEF Spec

\* SinFugas: a frame that is taken is of a page somebody has bytes in, or in the hands of a load
\* or a fault; a frame of swap that is taken is of such a page too, or one of those that
\* expulsar_tripulante_paginacion leaves behind with the last crew of a patota (perdidos).
THEOREM MemoriaSinFugas ==
  ASSUME ~Solapadas, FinDeTareas
  PROVE  Spec => []SinFugas
<1>1. Init => IndMemoria
  BY InitMemoria
<1>2. IndMemoria /\ [Next]_vars => IndMemoria'
  BY PasoMemoria
<1>3. IndMemoria => SinFugas
  BY NadaSePierde
<1> QED BY <1>1, <1>2, <1>3, PTL DEF Spec

\* ImplementaMemoria: through any loads, evictions, faults and departures the next task of each
\* crew is found where it was left, moved on once before each answer of OBTENER_PROXIMA_TAREA,
\* and each task of the patota is answered to it once and in order.
THEOREM PaginacionImplementa ==
  ASSUME ~Solapadas, FinDeTareas
  PROVE  Spec => ImplementaMemoria
<1>1. Init => IndMemoria /\ Plana!MInit
  BY InitMemoria
<1>2. IndMemoria /\ [Next]_vars => IndMemoria' /\ [Plana!MNext]_(Plana!mvars)
  BY PasoMemoria
<1> QED BY <1>1, <1>2, PTL DEF Spec, ImplementaMemoria, Plana!MSpec

-----------------------------------------------------------------------------
(* A patota that was accepted fits, and a fault finds no place only when the *)
(* memory and swap are full.                                                 *)

\* The pages of the patota that comes that are still to be loaded.
PorCargar == IF ini = SinAlta THEN 0 ELSE CantPaginas[ini.pid] - ini.sigue

\* There is a place for each, in memory or in swap, with the frame that was got for one.
HayLugar == PorCargar <= Cardinality(FramesLibres \cup EnMano) + Cardinality(SwapLibre)

IndLugar == IndMemoria /\ (~lleno => HayLugar) /\ VictimaConLugar

\* Frames and frames of swap are counted.
LEMMA LugaresFinitos ==
  /\ IsFiniteSet(Frames) /\ Cardinality(Frames) = CantFrames
  /\ IsFiniteSet(Swap) /\ Cardinality(Swap) = CantSwap
  /\ \A F \in SUBSET Frames : IsFiniteSet(F) /\ Cardinality(F) \in Nat
  /\ \A S \in SUBSET Swap : IsFiniteSet(S) /\ Cardinality(S) \in Nat
<1>1. CantFrames \in Nat /\ CantSwap \in Nat
  BY ConstantesOK
<1>2. /\ IsFiniteSet(Frames) /\ Cardinality(Frames) = CantFrames
      /\ IsFiniteSet(Swap) /\ Cardinality(Swap) = CantSwap
  BY <1>1, FS_Interval DEF Frames, Swap
<1> QED BY <1>2, FS_Subset, FS_CardinalityType

\* With each frame and each frame of swap taken, and none got, all are of pages somebody has
\* bytes in or were lost: a frame for each of the first in memory, a place for each in swap.
LEMMA TodoLleno ==
  ASSUME IndMemoria, ~lleno, EnMano = {}, FramesLibres = {}, SwapLibre = {}
  PROVE  Cardinality(Vivas) + Cardinality(perdidos) = CantFrames + CantSwap
<1> DEFINE P == {g \in Vivas : pagina[g].presente}
           A == {g \in Vivas : ~pagina[g].presente}
           Q == Swap \ perdidos
           f == [e \in Frames |-> marco[e].de]
           h == [s \in Q |-> CHOOSE g \in A : pagina[g].swap = s]
<1>1. /\ IndMarcos /\ EnSwap /\ FormaMemoria /\ perdidos \subseteq Swap /\ Vivas \subseteq Paginas
  BY DEF IndMemoria, Contenidos, Contables, IndMarcos, FormaPaginas, Vivas
<1>2. \A e \in Frames : /\ marco[e].de \in Paginas /\ pagina[marco[e].de].presente
                        /\ pagina[marco[e].de].frame = e
  BY <1>1, TodosOcupados
<1>3. \A g \in P : pagina[g].frame \in Frames /\ marco[pagina[g].frame].de = g
  BY <1>1 DEF IndMarcos, EnMemoria, Marcos
<1>4. Cardinality(P) = CantFrames /\ IsFiniteSet(P)
  <2>1. f \in [Frames -> P] /\ IsInjective(f) /\ \A g \in P : \E e \in Frames : f[e] = g
    <3>1. \A e \in Frames : f[e] \in P
      BY <1>1, <1>2 DEF EnSwap
    <3>2. \A e1, e2 \in Frames : f[e1] = f[e2] => e1 = e2
      BY <1>2
    <3> QED BY <1>3, <3>1, <3>2 DEF IsInjective
  <2>2. f \in Bijection(Frames, P)
    BY <2>1 DEF Bijection, Injection, Surjection
  <2> HIDE DEF P, f
  <2>3. ExistsBijection(Frames, P)
    BY <2>2 DEF ExistsBijection
  <2> QED BY <2>3, LugaresFinitos, FS_Bijection
<1>5. \A s \in Q : \E g \in A : pagina[g].swap = s
  <2>1. \A s \in Swap : ~swap[s].libre
    BY DEF SwapLibre
  <2> QED BY <1>1, <2>1 DEF EnSwap
<1>6. \A g \in A : pagina[g].swap \in Q /\ \A k \in A : pagina[k].swap = pagina[g].swap => k = g
  <2>1. \A g \in A : pagina[g].swap \in Swap
    BY <1>1 DEF EnSwap, FormaMemoria, TipoPagina
  <2> QED BY <1>1, <2>1 DEF EnSwap
<1>7. Cardinality(A) = Cardinality(Q) /\ IsFiniteSet(A)
  <2>1. \A s \in Q : h[s] \in A /\ pagina[h[s]].swap = s
    BY <1>5
  <2> HIDE DEF A, h, Q
  <2>2. h \in [Q -> A]
    BY <2>1 DEF h
  <2>3. IsInjective(h)
    BY <2>1, <2>2 DEF IsInjective
  <2>4. \A g \in A : \E s \in Q : h[s] = g
    BY <1>6, <2>1
  <2>5. h \in Bijection(Q, A)
    BY <2>2, <2>3, <2>4 DEF Bijection, Injection, Surjection
  <2>6. IsFiniteSet(Q)
    BY LugaresFinitos DEF Q
  <2>7. ExistsBijection(Q, A)
    BY <2>5 DEF ExistsBijection
  <2> QED BY <2>6, <2>7, FS_Bijection
<1>8. Cardinality(Vivas) = Cardinality(P) + Cardinality(A)
  <2>1. Vivas = P \cup A /\ P \cap A = {}
    OBVIOUS
  <2> HIDE DEF P, A
  <2>2. Cardinality(P \cap A) = 0
    BY <2>1, FS_EmptySet
  <2>3. Cardinality(P) \in Nat /\ Cardinality(A) \in Nat
    BY <1>4, <1>7, FS_CardinalityType
  <2>4. Cardinality(P \cup A) = Cardinality(P) + Cardinality(A) - Cardinality(P \cap A)
    BY <1>4, <1>7, FS_Union
  <2> QED BY <2>1, <2>2, <2>3, <2>4
<1>9. Cardinality(Q) = CantSwap - Cardinality(perdidos) /\ Cardinality(perdidos) \in Nat
  <2>1. Swap \cap perdidos = perdidos /\ IsFiniteSet(Swap) /\ Cardinality(Swap) = CantSwap
    BY <1>1, LugaresFinitos
  <2>2. Cardinality(Swap \ perdidos) = Cardinality(Swap) - Cardinality(Swap \cap perdidos)
    BY ONLY <2>1, FS_Difference
  <2>3. Cardinality(perdidos) \in Nat
    BY <1>1, LugaresFinitos
  <2> QED BY <2>1, <2>2, <2>3
<1> HIDE DEF P, A, Q
<1> QED BY <1>4, <1>7, <1>8, <1>9, ConstantesOK

\* Getting a frame finds one free, or takes one from a page, which goes to a free one of swap.
LEMMA ConseguirLugar ==
  ASSUME IndMarcos, ~lleno, EnMano = {}, NEW f \in Frames, Conseguir(f), marco' = marco
  PROVE  \/ f \in FramesLibres /\ SwapLibre' = SwapLibre /\ ~lleno'
         \/ /\ FramesLibres = {} /\ SwapLibre # {} /\ ~lleno'
            /\ \E s \in SwapLibre : SwapLibre' = SwapLibre \ {s}
         \/ FramesLibres = {} /\ SwapLibre = {}
<1>1. CASE FramesLibres # {}
  <2>1. f = Min(FramesLibres) /\ swap' = swap /\ lleno' = lleno
    BY <1>1 DEF Conseguir
  <2>2. FramesLibres \in SUBSET Nat
    BY ConstantesOK DEF FramesLibres, Frames
  <2>3. f \in FramesLibres
    BY <1>1, <2>1, <2>2, MinEsta
  <2> QED BY <2>1, <2>3 DEF SwapLibre
<1>2. CASE FramesLibres = {} /\ SwapLibre # {}
  <2> DEFINE s == Min(SwapLibre)
  <2>1. /\ ~lleno' /\ swap \in [Swap -> [libre : BOOLEAN, dato : Datos]]
        /\ swap' = [swap EXCEPT ![s] = [libre |-> FALSE, dato |-> marco[f].dato]]
    BY <1>2, SustituirBien DEF Victima, IndMarcos, FormaPaginas, FormaMemoria
  <2>2. SwapLibre \in SUBSET Nat
    BY ConstantesOK DEF SwapLibre, Swap
  <2>3. s \in SwapLibre
    BY <1>2, <2>2, MinEsta
  <2> HIDE DEF s
  <2>4. SwapLibre' = SwapLibre \ {s}
    BY <2>1, <2>3 DEF SwapLibre
  <2> QED BY <1>2, <2>1, <2>3, <2>4
<1> QED BY <1>1, <1>2

\* With nobody coming there is nothing to load.
LEMMA NadaPorCargar ==
  ASSUME IndMarcos', ini' = SinAlta
  PROVE  HayLugar'
<1>1. FramesLibres' \cup EnMano' \in SUBSET Frames /\ SwapLibre' \in SUBSET Swap
  BY DEF FramesLibres, SwapLibre, EnMano, IndMarcos, FormaPaginas, FormaAlta, FormaCurso
<1>2. PorCargar' = 0
  BY DEF PorCargar
<1> QED BY <1>1, <1>2, LugaresFinitos DEF HayLugar

\* RecibirPatota accepts one that has a place for each of its pages.
LEMMA RecibirLugar ==
  ASSUME IndMemoria, ~lleno, IndMarcos', ~Solapadas, RecibirPatota
  PROVE  ~lleno' /\ HayLugar'
<1> DEFINE p == recibidas + 1
<1>1. /\ ini = SinAlta /\ curso = SinCurso /\ UNCHANGED <<memoria, curso>>
      /\ \/ Entra(p) /\ ini' = [SinAlta EXCEPT !.pid = p]
         \/ ini' = ini
  BY DEF RecibirPatota, TablaDePatotasLibre, NadieReemplaza
<1>2. marco' = marco /\ swap' = swap /\ lleno' = lleno
  BY <1>1 DEF memoria
<1>3. CASE ini' = SinAlta
  BY <1>2, <1>3, NadaPorCargar
<1>4. CASE Entra(p) /\ ini' = [SinAlta EXCEPT !.pid = p] /\ ini' # SinAlta
  <2>1. ini'.pid = p /\ ini'.sigue = 0 /\ ini'.frame = 0
    BY <1>4 DEF SinAlta
  <2>2. FramesLibres' = FramesLibres /\ SwapLibre' = SwapLibre /\ EnMano' = {}
    BY <1>1, <1>2, <2>1 DEF FramesLibres, SwapLibre, EnMano, SinCurso
  <2>3. p \in Pids
    BY <2>1, <1>4 DEF IndMarcos, FormaPaginas, FormaAlta
  <2>4. PorCargar' = CantPaginas[p]
    BY <1>4, <2>1, <2>3, Tamanios DEF PorCargar
  <2>5. FramesLibres' \cup EnMano' = FramesLibres
    BY <2>2
  <2> QED BY <1>2, <1>4, <2>2, <2>4, <2>5 DEF HayLugar, Entra
<1> QED BY <1>1, <1>3, <1>4

\* ConseguirParaAlta uses one of the places, in memory or in swap, and has a frame in hand.
LEMMA ConseguirAltaLugar ==
  ASSUME IndMemoria, ~lleno, HayLugar, ConseguirParaAlta
  PROVE  ~lleno' /\ HayLugar'
<1>1. PICK f \in Frames :
        /\ ini # SinAlta /\ ini.frame = 0 /\ Conseguir(f) /\ ini' = [ini EXCEPT !.frame = f]
        /\ UNCHANGED <<marco, curso>>
  BY DEF ConseguirParaAlta
<1>2. IndMarcos /\ FormaAlta /\ FormaPaginas
  BY DEF IndMemoria, IndMarcos, FormaPaginas
<1>3. /\ ini.pid \in Pids /\ curso = SinCurso /\ EnMano = {} /\ 0 \notin Frames /\ ini.pid # 0
  BY <1>1, <1>2, ManosLibres, Pedidas DEF Pids
<1>4. /\ ini'.pid = ini.pid /\ ini'.sigue = ini.sigue /\ ini'.frame = f /\ ini' # SinAlta
  <2>1. ini \in [pid : Pids \cup {0}, sigue : Nat, frame : Frames \cup {0}]
    BY <1>2 DEF FormaAlta
  <2> QED BY <1>1, <1>3, <2>1 DEF SinAlta
<1>5. EnMano' = {f}
  BY <1>1, <1>3, <1>4 DEF EnMano, SinCurso
<1>6. PorCargar' = PorCargar /\ PorCargar \in Nat \ {0}
  <2>1. PorCargar' = PorCargar /\ PorCargar = CantPaginas[ini.pid] - ini.sigue
    BY <1>1, <1>4 DEF PorCargar
  <2>2. CantPaginas[ini.pid] \in Nat /\ ini.sigue \in Nat /\ ini.sigue < CantPaginas[ini.pid]
    BY <1>2, <1>3, Tamanios DEF FormaAlta
  <2> QED BY <2>1, <2>2
<1>7. FramesLibres' = FramesLibres
  BY <1>1 DEF FramesLibres
<1>8. /\ FramesLibres \in SUBSET Frames /\ SwapLibre \in SUBSET Swap
      /\ FramesLibres \cup EnMano = FramesLibres
  BY <1>3 DEF FramesLibres, SwapLibre
<1>9. CASE f \in FramesLibres /\ SwapLibre' = SwapLibre /\ ~lleno'
  <2>1. FramesLibres' \cup EnMano' = FramesLibres
    BY <1>5, <1>7, <1>9
  <2> QED BY <1>6, <1>8, <1>9, <2>1 DEF HayLugar
<1>10. CASE FramesLibres = {} /\ ~lleno' /\ \E s \in SwapLibre : SwapLibre' = SwapLibre \ {s}
  <2>1. PICK s \in SwapLibre : SwapLibre' = SwapLibre \ {s}
    BY <1>10
  <2>2. Cardinality(SwapLibre') = Cardinality(SwapLibre) - 1 /\ Cardinality(SwapLibre) \in Nat
    BY <1>8, <2>1, LugaresFinitos, FS_RemoveElement
  <2>3. FramesLibres' \cup EnMano' = {f} /\ Cardinality({f}) = 1 /\ Cardinality(FramesLibres) = 0
    BY <1>5, <1>7, <1>10, FS_Singleton, FS_EmptySet
  <2>4. Cardinality(FramesLibres \cup EnMano) = 0
    BY <1>8, <2>3
  <2>5. PorCargar <= 0 + Cardinality(SwapLibre)
    BY <2>4 DEF HayLugar
  <2>6. PorCargar' <= 1 + Cardinality(SwapLibre')
    BY <1>6, <2>2, <2>5
  <2> QED BY <1>10, <2>3, <2>6 DEF HayLugar
<1>11. CASE FramesLibres = {} /\ SwapLibre = {}
  <2>1. PorCargar <= Cardinality({}) + Cardinality({})
    BY <1>8, <1>11 DEF HayLugar
  <2> QED BY <1>6, <2>1, FS_EmptySet
<1> QED BY <1>1, <1>2, <1>3, <1>9, <1>10, <1>11, ConseguirLugar

\* InstalarParaAlta takes the frame and has one page less to load.
LEMMA InstalarAltaLugar ==
  ASSUME IndMemoria, ~lleno, HayLugar, IndMarcos', InstalarParaAlta
  PROVE  ~lleno' /\ HayLugar'
<1>1. /\ ini.frame # 0 /\ UNCHANGED <<swap, lleno, curso>>
      /\ ini' = IF ini.sigue + 1 = CantPaginas[ini.pid] THEN SinAlta
                ELSE [ini EXCEPT !.sigue = @ + 1, !.frame = 0]
  BY DEF InstalarParaAlta
<1>2. IndMarcos /\ FormaAlta /\ FormaPaginas /\ FormaMemoria
  BY DEF IndMemoria, IndMarcos, FormaPaginas
<1>3. ini # SinAlta /\ ini.pid \in Pids /\ curso = SinCurso /\ EnMano = {ini.frame} \ {0} /\ ini.pid # 0
  BY <1>1, <1>2, ManosLibres, Pedidas DEF SinAlta
<1>4. PICK f \in Frames : f = ini.frame /\ EnMano = {f}
  BY <1>1, <1>2, <1>3 DEF FormaAlta
<1>5. FramesLibres' = FramesLibres \ {f} /\ SwapLibre' = SwapLibre
  <2>1. marco' = [marco EXCEPT ![f] = [libre |-> FALSE, de |-> <<ini.pid, ini.sigue>>,
                                       dato |-> Dato(<<ini.pid, ini.sigue>>)]]
    BY <1>4 DEF InstalarParaAlta
  <2> QED BY <1>1, <1>2, <2>1 DEF FramesLibres, SwapLibre, FormaMemoria
<1>6. CASE ini' = SinAlta
  BY <1>1, <1>6, NadaPorCargar
<1>7. CASE ini' = [ini EXCEPT !.sigue = @ + 1, !.frame = 0]
  <2>1. ini'.pid = ini.pid /\ ini'.sigue = ini.sigue + 1 /\ ini'.frame = 0 /\ ini' # SinAlta
    <3>1. ini \in [pid : Pids \cup {0}, sigue : Nat, frame : Frames \cup {0}]
      BY <1>2 DEF FormaAlta
    <3> QED BY <1>3, <1>7, <3>1 DEF SinAlta
  <2>2. EnMano' = {}
    BY <1>1, <1>3, <2>1 DEF EnMano, SinCurso
  <2>3. PorCargar' = PorCargar - 1 /\ PorCargar \in Int
    <3>1. CantPaginas[ini.pid] \in Nat /\ ini.sigue \in Nat
      BY <1>2, <1>3, Tamanios DEF FormaAlta
    <3> QED BY <1>3, <2>1, <3>1 DEF PorCargar
  <2>4. FramesLibres' \cup EnMano' = (FramesLibres \cup EnMano) \ {f} /\ f \in FramesLibres \cup EnMano
    BY <1>4, <1>5, <2>2
  <2>5. FramesLibres \cup EnMano \in SUBSET Frames /\ SwapLibre \in SUBSET Swap
    BY <1>4 DEF FramesLibres, SwapLibre
  <2>6. /\ Cardinality(FramesLibres' \cup EnMano') = Cardinality(FramesLibres \cup EnMano) - 1
        /\ Cardinality(FramesLibres \cup EnMano) \in Nat /\ Cardinality(SwapLibre) \in Nat
    <3>1. IsFiniteSet(FramesLibres \cup EnMano) /\ Cardinality(FramesLibres \cup EnMano) \in Nat
      BY <2>5, LugaresFinitos
    <3>2. Cardinality((FramesLibres \cup EnMano) \ {f}) = Cardinality(FramesLibres \cup EnMano) - 1
      BY <2>4, <3>1, FS_RemoveElement
    <3>3. Cardinality(SwapLibre) \in Nat
      BY <2>5, LugaresFinitos
    <3> QED BY <2>4, <3>1, <3>2, <3>3
  <2> QED BY <1>1, <1>5, <2>3, <2>6 DEF HayLugar
<1> QED BY <1>1, <1>6, <1>7

\* ConseguirMarco: no patota is coming; with nothing free the pages there are fill the memory.
LEMMA ConseguirMarcoLugar ==
  ASSUME IndMemoria, ~lleno, IndMarcos', ConseguirMarco
  PROVE  (~lleno' => HayLugar') /\ VictimaConLugar'
<1>1. PICK f \in Frames :
        /\ EnPaso(Buscan) /\ curso.frame = 0 /\ Conseguir(f)
        /\ UNCHANGED <<marco, tablas, altas, bajas>>
  BY DEF ConseguirMarco, Buscan
<1>2. IndMarcos /\ EnSwap /\ Cuentas
  BY DEF IndMemoria, Contenidos
<1>3. ini = SinAlta /\ EnMano = {} /\ ini' = ini /\ patotas' = patotas /\ perdidos' = perdidos
  BY <1>1, <1>2, Sirviendo DEF altas, tablas, bajas
<1>4. ~lleno' => HayLugar'
  BY <1>3, NadaPorCargar
<1>5. ASSUME lleno' PROVE VictimaConLugar'
  <2>1. Cardinality(Vivas) + Cardinality(perdidos) = CantFrames + CantSwap
    BY <1>1, <1>2, <1>3, <1>5, ConseguirLugar, TodoLleno
  <2>2. Vivas' = Vivas
    BY <1>1, <1>2, <1>3, ConseguirSwap
  <2>3. Vivas' = {g \in Paginas : g[1] \in ToSet(patotas)' /\ (pagina'[g].usados > 0 \/ g[1] = ini'.pid)}
    BY <1>3, NombrePagina, Pedidas DEF Vivas, SinAlta
  <2> QED BY <1>3, <2>1, <2>2, <2>3 DEF VictimaConLugar
<1> QED BY <1>4, <1>5 DEF VictimaConLugar

\* What else is served, or leaves, comes with no patota being loaded, and evicts nothing.
LEMMA NadaDesaloja ==
  ASSUME IndMemoria, ~lleno, ~Solapadas,
         \/ Servir /\ ~ConseguirMarco
         \/ \E t \in Trips : \/ \E op \in Ops : Buscar(t, op) \/ TomarNoReemplazar(t, op)
                             \/ ExpulsarTripulante(t)
  PROVE  ini' = SinAlta /\ lleno' = lleno
<1>1. IndMarcos /\ FormaPaginas
  BY DEF IndMemoria, IndMarcos
<1>2. ASSUME InstalarPagina \/ TraerPresente \/ Leer \/ BuscarEnHistorial \/ UsarPagina
      PROVE  ini' = SinAlta /\ lleno' = lleno
  <2>1. /\ UNCHANGED altas /\ lleno' = lleno /\ \E modos : EnPaso(modos)
    BY <1>2 DEF InstalarPagina, TraerPresente, Leer, BuscarEnHistorial, UsarPagina, memoria
  <2> QED BY <1>1, <2>1, Sirviendo DEF altas
<1>3. ASSUME NEW t \in Trips, SoltarTripulante(t) PROVE lleno' = lleno
  BY <1>3 DEF SoltarTripulante, memoria
<1>4. CASE Responder
  BY <1>1, <1>4, ManosLibres DEF Responder, altas, memoria
<1>5. CASE TerminarTripulante
  <2>1. curso.t \in Trips
    BY <1>1, <1>5, Sirviendo DEF TerminarTripulante
  <2> QED BY <1>3, <1>5, <2>1 DEF TerminarTripulante, TablaDePatotasLibre, altas, memoria
<1>6. ASSUME NEW t \in Trips, NEW op \in Ops, Buscar(t, op) \/ TomarNoReemplazar(t, op)
      PROVE  ini' = SinAlta /\ lleno' = lleno
  BY <1>6 DEF Buscar, TomarNoReemplazar, TablaDePatotasLibre, altas, memoria
<1>7. ASSUME NEW t \in Trips, ExpulsarTripulante(t) PROVE ini' = SinAlta /\ lleno' = lleno
  BY <1>3, <1>7 DEF ExpulsarTripulante, TablaDePatotasLibre, altas, memoria
<1> QED BY <1>2, <1>4, <1>5, <1>6, <1>7 DEF Servir

\* The steps, one by one; none is taken once a victim had no place.
LEMMA PasoLugar ==
  ASSUME IndLugar, ~Solapadas, FinDeTareas, [Next]_vars
  PROVE  IndLugar'
<1>1. IndMemoria' /\ IndMarcos' /\ IndMemoria
  BY PasoMemoria DEF IndLugar, IndMemoria
<1> DEFINE Bien == (~lleno' => HayLugar') /\ VictimaConLugar'
<1>2. ASSUME ~lleno' /\ HayLugar' PROVE Bien
  BY <1>2 DEF VictimaConLugar
<1>3. ASSUME ~lleno, Alta PROVE Bien
  BY <1>1, <1>2, <1>3, RecibirLugar, ConseguirAltaLugar, InstalarAltaLugar DEF Alta, IndLugar
<1>4. ASSUME ~lleno, ConseguirMarco PROVE Bien
  BY <1>1, <1>4, ConseguirMarcoLugar
<1>5. ASSUME ~lleno, ini' = SinAlta /\ lleno' = lleno PROVE Bien
  BY <1>1, <1>2, <1>5, NadaPorCargar
<1>6. ASSUME UNCHANGED vars PROVE Bien
  <2>1. UNCHANGED <<marco, swap, pagina, lleno, ini, curso, patotas, perdidos>>
    BY <1>6 DEF vars, memoria, tablas, altas, bajas
  <2> QED BY <2>1 DEF IndLugar, HayLugar, PorCargar, FramesLibres, SwapLibre, EnMano, VictimaConLugar
<1>7. ASSUME lleno, Next PROVE FALSE
  BY <1>7 DEF Next, Alta, Servir, RecibirPatota, ConseguirParaAlta, InstalarParaAlta, Buscar,
              TomarNoReemplazar, ExpulsarTripulante, ConseguirMarco, InstalarPagina, TraerPresente, Leer,
              BuscarEnHistorial, UsarPagina, Responder, TerminarTripulante, EnPaso, Andando
<1>8. Bien
  <2> HIDE DEF Bien
  <2>1. CASE ~lleno /\ Next /\ ~Alta /\ ~ConseguirMarco
    <3>1. ini' = SinAlta /\ lleno' = lleno
      BY <1>1, <2>1, NadaDesaloja DEF Next, Ops
    <3> QED BY <1>5, <2>1, <3>1
  <2> QED BY <1>3, <1>4, <1>6, <1>7, <2>1
<1> QED BY <1>1, <1>8 DEF IndLugar

\* VictimaConLugar: INICIAR_PATOTA, which accepts a patota that has as many pages as frames are
\* free in memory and in swap, always loads it whole; and when actualizar_pagina finds no place
\* for a victim, memory and swap are full of the pages accepted and of those that were lost.
THEOREM AdmisionSinDesborde ==
  ASSUME ~Solapadas, FinDeTareas
  PROVE  Spec => []VictimaConLugar
<1>1. Init => IndLugar
  <2>1. ASSUME Init PROVE IndLugar
    <3>1. ~lleno /\ ini = SinAlta /\ IndMemoria /\ curso = SinCurso
      BY <2>1, InitMemoria DEF Init
    <3>2. FramesLibres \cup EnMano \in SUBSET Frames /\ SwapLibre \in SUBSET Swap
      BY <3>1 DEF FramesLibres, SwapLibre, EnMano, SinAlta, SinCurso
    <3>3. HayLugar
      BY <3>1, <3>2, LugaresFinitos DEF HayLugar, PorCargar
    <3> QED BY <3>1, <3>3 DEF IndLugar, VictimaConLugar
  <2> QED BY <2>1
<1>2. IndLugar /\ [Next]_vars => IndLugar'
  BY PasoLugar
<1>3. IndLugar => VictimaConLugar
  BY DEF IndLugar
<1> QED BY <1>1, <1>2, <1>3, PTL DEF Spec

====
