----------------------------- MODULE CicloProofs -----------------------------
(***************************************************************************)
(* For any number of processors, crews and tasks: a cycle is granted and   *)
(* answered once, the list a crew is in agrees with its estado, and a crew *)
(* whose tasks end with one of the CPU leaves with EXIT; and with one      *)
(* processor, that a crew is expelled once and lives as the diagram says.  *)
(***************************************************************************)
EXTENDS PlanificadorProofs

\* A crew nobody has told to start: its thread, if there is one, waits for the first post.
SinAvisar(t) ==
  /\ pc_trip[t] \in {"no_creado", "nace"} /\ sem_tri[t] = 0 /\ procesador[t] = 0
  /\ t \notin Range(cola_de_ready) \cup Range(cola_de_block)
  /\ \A h \in Hilos : mano[h] # t

\* The posts a crew has and those it owes, that of the long-term scheduler included.
Saldo(t) == sem_tri[t] + procesador[t] + Uno(mano["planificador"] = t)

SaldoProcs(t) ==
  \A p \in Procs : mano[p] = t => Saldo(t) = Uno(pc_trip[t] = "nace") + Uno(pc[p] = "espera")
SaldoDispositivo(t) ==
  mano["es"] = t => sem_tri[t] + es_finalizada = Uno(pc["es"] = "espera")
SaldoSuelto(t) ==
  mano["es"] # t /\ (\A p \in Procs : mano[p] # t) => Saldo(t) = Uno(pc_trip[t] = "nace")

Cuenta(t) ==
  /\ pc_trip[t] = "no_creado" \/ t \in Range(cola_de_new) => SinAvisar(t)
  /\ ~SinAvisar(t) => SaldoProcs(t) /\ SaldoDispositivo(t) /\ SaldoSuelto(t)

\* A crew in the middle of its I/O: only the device moves it.
Entrada(t) ==
  /\ ciclo_inicial[t] =>
       /\ pc_trip[t] = "ciclo" /\ tarea[t].es /\ tarea[t].pos = posicion[t]
       /\ estado[t] \in {"BLOCKED_E_S", "EXPULSADO"}
       /\ t \notin Range(cola_de_ready) /\ mano["planificador"] # t
       /\ \A p \in Procs : mano[p] = t => sem_tri[t] = 0
  /\ estado[t] = "BLOCKED_E_S" => ciclo_inicial[t]
  /\ mano["es"] = t /\ sem_tri[t] > 0 => ciclo_inicial[t]
  /\ t \in Range(cola_de_block) \/ mano["es"] = t =>
       /\ pc_trip[t] \notin {"no_creado", "nace"} /\ procesador[t] = 0
       /\ mano["planificador"] # t

\* The list a crew is in and its estado; a crew somebody is expelling was marked for it.
Coherente(t) ==
  /\ pc_trip[t] = "no_creado" \/ t \in Range(cola_de_new) =>
       estado[t] = "NEW" /\ \A h \in Hilos : victima[h] # t
  /\ t \in Range(cola_de_ready) => estado[t] = "READY" \/ expulsado[t]
  /\ t \in Range(cola_de_block) => \/ estado[t] = "BLOCKED_E_S" \/ expulsado[t]
                                   \/ estado[t] = "READY" /\ mano["es"] = t
  /\ \A h \in Hilos : victima[h] = t => expulsado[t]

\* What the device and the long-term scheduler have in hand, by where they are.
ManosAjenas ==
  /\ mano["planificador"] \in Trips <=> pc["planificador"] = "avisa"
  /\ mano["es"] = Nadie <=> pc["es"] \in {"libre", "expulsa", "elige"}
  /\ pc["es"] # "espera" => es_finalizada = 0
  /\ \A t \in Trips : mano["es"] = t =>
       /\ t \notin Range(cola_de_new) \cup Range(cola_de_ready)
       /\ \A p \in Procs : mano[p] # t
       /\ \/ t \in Range(cola_de_block) /\ Head(cola_de_block) = t
          \/ /\ t \notin Range(cola_de_block)
             /\ pc["es"] = "rafaga" /\ (victima["es"] = t \/ estado[t] = "EXPULSADO")


Tripulantes == \A t \in Trips : Cuenta(t) /\ Entrada(t) /\ Coherente(t)

\* What the crews carry with them; with no sabotage nobody is elegido.
Formas ==
  /\ elegido = Nadie /\ ciclo_inicial \in [Trips -> BOOLEAN] /\ DOMAIN posicion = Trips
  /\ tarea \in [Trips -> [es : BOOLEAN, pos : Punto, tiempo : Int]]
  /\ pendientes \in [Trips -> Seq(Tarea)]

Ciclos == Formas /\ ManosAjenas /\ Tripulantes

\* It implies the two properties.
LEMMA CiclosBasta == Inductiva /\ Ciclos => CicloUnico /\ ColaCoherente
<1> SUFFICES ASSUME Inductiva, Ciclos PROVE CicloUnico /\ ColaCoherente
  OBVIOUS
<1> USE HilosOK, ProcsOK, TripsOK
<1>1. /\ mano \in [Hilos -> Trips \cup {Nadie}]
      /\ cola_de_new \in Seq(Trips) /\ cola_de_ready \in Seq(Trips) /\ cola_de_block \in Seq(Trips)
  BY DEF Inductiva, Tipos, TypeOK
<1>2. ASSUME NEW t \in Trips, NEW h \in Hilos, mano[h] = t
      PROVE  SaldoProcs(t) /\ SaldoDispositivo(t)
  <2>1. ~SinAvisar(t)
    BY <1>2 DEF SinAvisar
  <2> QED BY <2>1 DEF Ciclos, Tripulantes, Cuenta
<1>3. ASSUME NEW p \in Procs, mano[p] # Nadie
      PROVE  sem_tri[mano[p]] + procesador[mano[p]] + Uno(mano["planificador"] = mano[p])
               = Uno(pc_trip[mano[p]] = "nace") + Uno(pc[p] = "espera")
  <2>1. mano[p] \in Trips
    BY <1>1, <1>3
  <2> QED BY <1>2, <2>1 DEF SaldoProcs, Saldo
<1>4. mano["es"] # Nadie =>
        sem_tri[mano["es"]] + es_finalizada = Uno(pc["es"] = "espera")
  BY <1>1, <1>2 DEF SaldoDispositivo
<1>5. CicloUnico
  BY <1>3, <1>4 DEF CicloUnico
<1>6. /\ Range(cola_de_new) \subseteq Trips /\ Range(cola_de_ready) \subseteq Trips
      /\ Range(cola_de_block) \subseteq Trips
  BY <1>1, RangeOfSeq
<1>7. ASSUME mano["es"] # Nadie, victima["es"] = Nadie, estado[mano["es"]] = "READY"
      PROVE  cola_de_block # <<>> /\ Head(cola_de_block) = mano["es"]
  <2>1. mano["es"] \in Trips
    BY <1>1, <1>7
  <2>2. mano["es"] \in Range(cola_de_block) /\ Head(cola_de_block) = mano["es"]
    BY <1>7, <2>1 DEF Ciclos, ManosAjenas
  <2>3. cola_de_block # <<>>
    BY <2>2, EmptySeq DEF Range
  <2> QED BY <2>2, <2>3
<1>8. ColaCoherente
  BY <1>6, <1>7 DEF ColaCoherente, Ciclos, Tripulantes, Coherente
<1> QED BY <1>5, <1>8

\* At first there are no crews.
LEMMA CiclosInicial == Init => Ciclos
<1> SUFFICES ASSUME Init PROVE Ciclos
  OBVIOUS
<1> USE HilosOK, ProcsOK, TripsOK
<1>1. Range(<<>>) = {}
  BY DEF Range
<1>2. Formas
  <2>1. SinTarea \in [es : BOOLEAN, pos : Punto, tiempo : Int] /\ <<>> \in Seq(Tarea)
    BY DEF SinTarea, Punto
  <2> QED BY <2>1 DEF Init, Formas
<1>3. ManosAjenas
  BY <1>1 DEF Init, ManosAjenas
<1>4. ASSUME NEW t \in Trips
      PROVE  Cuenta(t) /\ Entrada(t) /\ Coherente(t)
  <2>1. SinAvisar(t)
    BY <1>1 DEF Init, SinAvisar
  <2> QED BY <1>1, <2>1 DEF Init, Cuenta, Entrada, Coherente
<1> QED BY <1>2, <1>3, <1>4 DEF Ciclos, Tripulantes

\* A step that does not concern a crew: its posts, its place and its task stay as they
\* were, it joins no list, and at most it is expelled.
Quieta(u) ==
  /\ sem_tri'[u] = sem_tri[u] /\ procesador'[u] = procesador[u]
  /\ pc_trip'[u] = pc_trip[u] /\ ciclo_inicial'[u] = ciclo_inicial[u]
  /\ tarea'[u] = tarea[u] /\ posicion'[u] = posicion[u]
  /\ u \in Range(cola_de_new') => u \in Range(cola_de_new)
  /\ u \in Range(cola_de_ready') => u \in Range(cola_de_ready)
  /\ u \in Range(cola_de_block') => u \in Range(cola_de_block)
  /\ \A h \in Hilos : mano'[h] = u <=> mano[h] = u
  /\ \A h \in Hilos : mano[h] = u => (pc'[h] = "espera" <=> pc[h] = "espera")
  /\ mano["es"] = u => es_finalizada' = es_finalizada
  /\ \/ estado'[u] = estado[u]
     \/ estado'[u] = "EXPULSADO" /\ \E h \in Hilos : victima[h] = u
  /\ expulsado[u] => expulsado'[u]
  /\ \A h \in Hilos : victima'[h] = u =>
       \/ victima[h] = u
       \/ expulsado[u] /\ u \notin Range(cola_de_new') /\ pc_trip[u] # "no_creado"

\* It keeps what the invariant says of that crew.
LEMMA QuietaQueda ==
  ASSUME NEW u \in Trips, Cuenta(u), Entrada(u), Coherente(u), Quieta(u)
  PROVE  Cuenta(u)' /\ Entrada(u)' /\ Coherente(u)'
<1> USE HilosOK, ProcsOK
<1>1. Cuenta(u)'
  <2>1. SinAvisar(u) => SinAvisar(u)'
    BY DEF Quieta, SinAvisar
  <2>2. Saldo(u)' = Saldo(u)
    BY DEF Quieta, Saldo, Uno
  <2>3. SaldoProcs(u) => SaldoProcs(u)'
    BY <2>2 DEF Quieta, SaldoProcs, Uno
  <2>4. SaldoDispositivo(u) => SaldoDispositivo(u)'
    BY DEF Quieta, SaldoDispositivo, Uno
  <2>5. SaldoSuelto(u) => SaldoSuelto(u)'
    BY <2>2 DEF Quieta, SaldoSuelto, Uno
  <2>6. pc_trip'[u] = "no_creado" \/ u \in Range(cola_de_new') => SinAvisar(u)'
    BY <2>1 DEF Quieta, Cuenta
  <2> QED BY <2>1, <2>3, <2>4, <2>5, <2>6 DEF Cuenta
<1>2. Entrada(u)'
  BY DEF Quieta, Entrada
<1>3. Coherente(u)'
  BY DEF Quieta, Coherente
<1> QED BY <1>1, <1>2, <1>3

\* A step that leaves alone the crews the long-term scheduler and the device have.
ManosQuietas ==
  /\ mano'["planificador"] = mano["planificador"] /\ mano'["es"] = mano["es"]
  /\ es_finalizada' = es_finalizada
  /\ pc'["planificador"] = "avisa" <=> pc["planificador"] = "avisa"
  /\ pc'["es"] \in {"libre", "expulsa", "elige"} <=> pc["es"] \in {"libre", "expulsa", "elige"}
  /\ pc'["es"] = "espera" <=> pc["es"] = "espera"
  /\ pc["es"] = "rafaga" => pc'["es"] = "rafaga"
  /\ \A t \in Trips : mano["es"] = t =>
       /\ t \in Range(cola_de_new') => t \in Range(cola_de_new)
       /\ t \in Range(cola_de_ready') => t \in Range(cola_de_ready)
       /\ \A p \in Procs : mano'[p] = t => mano[p] = t
       /\ t \in Range(cola_de_block') <=> t \in Range(cola_de_block)
       /\ t \in Range(cola_de_block) => Head(cola_de_block') = Head(cola_de_block)
       /\ victima["es"] = t => victima'["es"] = t \/ estado'[t] = "EXPULSADO"
       /\ estado[t] = "EXPULSADO" => estado'[t] = "EXPULSADO"

LEMMA ManosQuedan == ManosAjenas /\ ManosQuietas => ManosAjenas'
BY DEF ManosAjenas, ManosQuietas

\* A step that concerns no crew at all.
LEMMA NadaCambia ==
  ASSUME Ciclos, ManosQuietas, \A u \in Trips : Quieta(u),
         UNCHANGED <<elegido, ciclo_inicial, posicion, tarea, pendientes>>
  PROVE  Ciclos'
<1>1. Formas'
  BY DEF Ciclos, Formas
<1>2. ManosAjenas'
  BY ManosQuedan DEF Ciclos
<1>3. Tripulantes'
  BY QuietaQueda DEF Ciclos, Tripulantes
<1> QED BY <1>1, <1>2, <1>3 DEF Ciclos

\* A thread goes on, or expels the crew it has taken out of a list: no crew is moved.
Avanza(h) ==
  /\ UNCHANGED <<sem_tri, procesador, pc_trip, ciclo_inicial, tarea, posicion, pendientes,
                 elegido, mano, es_finalizada>>
  /\ Range(cola_de_new') \subseteq Range(cola_de_new)
  /\ Range(cola_de_ready') \subseteq Range(cola_de_ready)
  /\ Range(cola_de_block') \subseteq Range(cola_de_block)
  /\ cola_de_block' = cola_de_block \/ mano["es"] = Nadie
  /\ \A g \in Hilos : g # h => pc'[g] = pc[g] /\ victima'[g] = victima[g]
  /\ pc'[h] = "espera" <=> pc[h] = "espera"
  /\ h = "planificador" => (pc'[h] = "avisa" <=> pc[h] = "avisa")
  /\ h = "es" => /\ pc'[h] \in {"libre", "expulsa", "elige"} <=> pc[h] \in {"libre", "expulsa", "elige"}
                 /\ pc[h] = "rafaga" => pc'[h] = "rafaga"
  /\ \/ estado' = estado /\ (victima'[h] = victima[h] \/ victima[h] = Nadie)
     \/ estado' = [estado EXCEPT ![victima[h]] = "EXPULSADO"]
  /\ \A t \in Trips : /\ expulsado[t] => expulsado'[t]
                      /\ victima'[h] = t => \/ victima[h] = t
                                            \/ /\ expulsado[t] /\ t \notin Range(cola_de_new')
                                               /\ pc_trip[t] # "no_creado"

LEMMA AvanzaQueda ==
  ASSUME Inductiva, Ciclos, NEW h \in Hilos, Avanza(h)
  PROVE  Ciclos'
<1> USE HilosOK, ProcsOK, TripsOK
<1>1. estado \in [Trips -> Estados] /\ victima \in [Hilos -> Trips \cup {Nadie}]
  BY DEF Inductiva, Tipos, TypeOK
<1>2. ASSUME NEW u \in Trips
      PROVE  \/ estado'[u] = estado[u]
             \/ estado'[u] = "EXPULSADO" /\ victima[h] = u
  BY <1>1 DEF Avanza
<1>3. ASSUME NEW u \in Trips
      PROVE  Quieta(u)
  BY <1>2 DEF Avanza, Quieta
<1>4. ManosQuietas
  <2>1. ASSUME NEW t \in Trips, mano["es"] = t
        PROVE  /\ t \in Range(cola_de_block') <=> t \in Range(cola_de_block)
               /\ t \in Range(cola_de_block) => Head(cola_de_block') = Head(cola_de_block)
               /\ victima["es"] = t => victima'["es"] = t \/ estado'[t] = "EXPULSADO"
               /\ estado[t] = "EXPULSADO" => estado'[t] = "EXPULSADO"
    <3>1. cola_de_block' = cola_de_block
      BY <2>1 DEF Avanza
    <3>2. victima["es"] = t => victima'["es"] = t \/ estado'[t] = "EXPULSADO"
      BY <1>1, <2>1 DEF Avanza
    <3> QED BY <1>2, <3>1, <3>2
  <2> QED BY <2>1 DEF Avanza, ManosQuietas
<1> QED BY <1>3, <1>4, NadaCambia DEF Avanza

\* A thread that takes out of a list the crew the user expelled.
LEMMA SacarVictima ==
  ASSUME Inductiva, NEW h \in Hilos, NEW c \in Seq(Trips), NEW d, SacarExpulsado(h, c, d),
         victima[h] = Nadie, Range(c) \subseteq Listados \cup Range(cola_de_exec),
         IsInjective(c)
  PROVE  /\ Range(d) \subseteq Range(c)
         /\ \A g \in Hilos : g # h => victima'[g] = victima[g]
         /\ \A t \in Trips : victima'[h] = t =>
              expulsado[t] /\ t \in Range(c) /\ t \notin Range(d) /\ pc_trip[t] # "no_creado"
<1> USE TripsOK
<1>1. victima \in [Hilos -> Trips \cup {Nadie}]
  BY DEF Inductiva, Tipos, TypeOK
<1>2. \A t \in Trips : t \in Range(c) => pc_trip[t] # "no_creado"
  BY DEF Inductiva, UnSoloLugar, EnManos
<1>3. CASE \E i \in DOMAIN c : /\ PrimerExpulsado(c, i) /\ d = RemoveAt(c, i)
                               /\ victima' = [victima EXCEPT ![h] = c[i]]
  <2>1. PICK i \in DOMAIN c : /\ PrimerExpulsado(c, i) /\ d = RemoveAt(c, i)
                              /\ victima' = [victima EXCEPT ![h] = c[i]]
    BY <1>3
  <2>2. /\ c[i] \in Range(c) /\ c[i] \in Trips /\ Range(d) \subseteq Range(c)
        /\ c[i] \notin Range(d)
    BY <2>1, SacarSeq
  <2>3. victima'[h] = c[i] /\ expulsado[c[i]] /\ \A g \in Hilos : g # h => victima'[g] = victima[g]
    BY <1>1, <2>1 DEF PrimerExpulsado
  <2> QED BY <1>2, <2>2, <2>3
<1>4. CASE d = c /\ UNCHANGED victima
  BY <1>4
<1> QED BY <1>3, <1>4 DEF SacarExpulsado

\* What the user types moves no crew.
LEMMA ConsolaCiclo ==
  ASSUME Inductiva, Ciclos, Consola \/ \E h \in Hilos : Reanudar(h)
  PROVE  Ciclos'
<1> USE HilosOK, ProcsOK, TripsOK
    DEF En, EnTrip, Fase, ConsolaLibre, colas, fichas, compuerta, hilos, consola, creacion,
        propio, comun, emergencia, ajeno, planificacion, tripulacion
<1>0. /\ pc \in [Hilos -> Lugares] /\ victima \in [Hilos -> Trips \cup {Nadie}]
      /\ mano \in [Hilos -> Trips \cup {Nadie}]
  BY DEF Inductiva, Tipos, TypeOK
<1>1. CASE IniciarPatota
  BY <1>1, AvanzaQueda DEF IniciarPatota, Avanza
<1>2. CASE PausarPlanificacion
  BY <1>2, AvanzaQueda DEF PausarPlanificacion, Avanza
<1>3. CASE IniciarPlanificacion
  BY <1>3, AvanzaQueda DEF IniciarPlanificacion, Avanza
<1>4. ASSUME NEW t \in Expulsables, ExpulsarTripulante(t)
      PROVE  Ciclos'
  <2>1. \A u \in Trips : expulsado[u] => expulsado'[u]
    BY <1>4 DEF ExpulsarTripulante, Inductiva, Tipos, TypeOK
  <2> QED BY <1>4, <2>1, AvanzaQueda DEF ExpulsarTripulante, Avanza
<1>5. ASSUME NEW h \in Hilos, Reanudar(h)
      PROVE  Ciclos'
  BY <1>5, AvanzaQueda DEF Reanudar, Avanza
<1> QED BY <1>1, <1>2, <1>3, <1>4, <1>5 DEF Consola

\* A crew is created with nothing pending: nobody has told it to start.
LEMMA GestorCiclo ==
  ASSUME Inductiva, Ciclos, Gestor
  PROVE  Ciclos'
<1> USE HilosOK, ProcsOK, TripsOK
    DEF En, EnTrip, Fase, ConsolaLibre, colas, fichas, compuerta, hilos, consola, creacion,
        propio, comun, emergencia, ajeno, planificacion, tripulacion
<1>0. /\ pc \in [Hilos -> Lugares] /\ victima \in [Hilos -> Trips \cup {Nadie}]
      /\ mano \in [Hilos -> Trips \cup {Nadie}]
  BY DEF Inductiva, Tipos, TypeOK
<1>1. CASE PedirMemoria
  BY <1>1, AvanzaQueda DEF PedirMemoria, Avanza
<1>2. CASE MemoriaDenegada
  BY <1>2, AvanzaQueda DEF MemoriaDenegada, Avanza
<1>3. CASE MemoriaConcedida
  BY <1>3, AvanzaQueda DEF MemoriaConcedida, Avanza
<1>4. CASE RegistrarPatota
  BY <1>4, AvanzaQueda DEF RegistrarPatota, Avanza
<1>5. CASE CrearTripulante
  <2>0. PICK t \in Trips : t = id_tcb - lote.quedan /\ pc_trip[t] = "no_creado"
    <3>1. lote.quedan > 0 /\ lote.quedan < id_tcb /\ lote.quedan \in Nat /\ id_tcb \in 1..MaxTrips + 1
      BY <1>5 DEF CrearTripulante, Inductiva, Tipos, TypeOK, Reserva
    <3>2. id_tcb - lote.quedan \in Trips
      BY <3>1, ConstantesOK DEF Trips
    <3> QED BY <3>1, <3>2 DEF Inductiva, Tipos, Reserva
  <2>1. t \in Trips /\ pc_trip[t] = "no_creado"
    BY <2>0
  <2>2. SinAvisar(t) /\ estado[t] = "NEW" /\ (\A h \in Hilos : victima[h] # t) /\ ~ciclo_inicial[t]
    BY <2>1 DEF Ciclos, Tripulantes, Cuenta, Coherente, Entrada
  <2>3. /\ UNCHANGED <<cola_de_ready, cola_de_exec, cola_de_block, mano, pc, victima, sem_tri,
                       procesador, estado, expulsado, es_finalizada, ciclo_inicial, tarea,
                       elegido>>
        /\ pc_trip' = [pc_trip EXCEPT ![t] = "nace"]
        /\ cola_de_new' = Append(cola_de_new, t)
        /\ pendientes' = [pendientes EXCEPT ![t] = lote.pedido.tareas]
    BY <1>5, <2>0 DEF CrearTripulante, AgregarElemento
  <2>4. DOMAIN posicion' = DOMAIN posicion /\ \A u \in Trips : u # t => posicion'[u] = posicion[u]
    BY <1>5, <2>0 DEF CrearTripulante, Ciclos, Formas
  <2>5. Range(cola_de_new') = Range(cola_de_new) \cup {t}
    <3>1. cola_de_new \in Seq(Trips)
      BY DEF Inductiva, Tipos, TypeOK
    <3> QED BY <2>1, <2>3, <3>1, AgregarSeq
  <2>6. pc_trip \in [Trips -> LugaresTrip] /\ lote.pedido.tareas \in Seq(Tarea)
    BY DEF Inductiva, Tipos, TypeOK, Pedido
  <2>7. Formas'
    BY <2>1, <2>3, <2>4, <2>6 DEF Ciclos, Formas
  <2>8. ManosAjenas'
    <3>1. mano["es"] # t
      BY <2>2 DEF SinAvisar
    <3>2. ManosQuietas
      BY <2>3, <2>5, <3>1 DEF ManosQuietas
    <3> QED BY <3>2, ManosQuedan DEF Ciclos
  <2>9. ASSUME NEW u \in Trips, u # t
        PROVE  Cuenta(u)' /\ Entrada(u)' /\ Coherente(u)'
    <3>1. Quieta(u)
      BY <2>3, <2>4, <2>5, <2>6, <2>9 DEF Quieta
    <3> QED BY <3>1, QuietaQueda DEF Ciclos, Tripulantes
  <2>10. Cuenta(t)' /\ Entrada(t)' /\ Coherente(t)'
    <3>1. pc_trip'[t] = "nace"
      BY <2>1, <2>3, <2>6
    <3>2. SinAvisar(t)'
      BY <2>2, <2>3, <3>1 DEF SinAvisar
    <3> QED BY <2>2, <2>3, <3>1, <3>2 DEF Cuenta, Entrada, Coherente, SinAvisar
  <2> QED BY <2>7, <2>8, <2>9, <2>10 DEF Ciclos, Tripulantes
<1> QED BY <1>1, <1>2, <1>3, <1>4, <1>5 DEF Gestor

\* A step that concerns one crew.
LEMMA UnoCambia ==
  ASSUME Ciclos, NEW t \in Trips, Formas', ManosAjenas',
         \A u \in Trips : u # t => Quieta(u),
         Cuenta(t)', Entrada(t)', Coherente(t)'
  PROVE  Ciclos'
<1>1. ASSUME NEW u \in Trips, u # t
      PROVE  Cuenta(u)' /\ Entrada(u)' /\ Coherente(u)'
  BY <1>1, QuietaQueda DEF Ciclos, Tripulantes
<1>2. Tripulantes'
  BY <1>1 DEF Tripulantes
<1> QED BY <1>2 DEF Ciclos

\* A crew with a cycle to spend that is not in the middle of its I/O: one processor granted
\* it and waits for the answer, and the crew is in no list.
Concedido(p, t) ==
  /\ mano[p] = t /\ pc[p] = "espera" /\ sem_tri[t] = 1 /\ procesador[t] = 0
  /\ mano["planificador"] # t /\ mano["es"] # t /\ t \notin Listados

LEMMA HayConcedido ==
  ASSUME Inductiva, Ciclos, NEW t \in Trips, pc_trip[t] = "ciclo", sem_tri[t] > 0,
         ~ciclo_inicial[t]
  PROVE  \E p \in Procs : Concedido(p, t)
<1> USE HilosOK, ProcsOK
<1>1. sem_tri[t] \in Nat /\ procesador[t] \in Nat
  BY DEF Inductiva, Tipos, TypeOK
<1>2. Cuenta(t) /\ Entrada(t)
  BY DEF Ciclos, Tripulantes
<1>3. ~SinAvisar(t) /\ mano["es"] # t
  BY <1>2 DEF SinAvisar, Entrada
<1>4. PICK p \in Procs : mano[p] = t
  <2>1. Saldo(t) # Uno(pc_trip[t] = "nace")
    BY <1>1 DEF Saldo, Uno
  <2> QED BY <1>2, <1>3, <2>1 DEF Cuenta, SaldoSuelto
<1>5. Saldo(t) = Uno(pc_trip[t] = "nace") + Uno(pc[p] = "espera")
  BY <1>2, <1>3, <1>4 DEF Cuenta, SaldoProcs
<1>6. pc[p] = "espera" /\ sem_tri[t] = 1 /\ procesador[t] = 0 /\ mano["planificador"] # t
  BY <1>1, <1>5 DEF Saldo, Uno
<1>7. t \notin Listados
  BY <1>4 DEF Inductiva, UnSoloLugar, Listados
<1> QED BY <1>3, <1>4, <1>6, <1>7 DEF Concedido

\* A cycle spent on a processor: it goes from what the crew has to what it answers.
LEMMA GastaEnProcesador ==
  ASSUME Inductiva, Ciclos, NEW t \in Trips, pc_trip[t] = "ciclo", sem_tri[t] > 0,
         ~ciclo_inicial[t], Formas',
         UNCHANGED <<colas, mano, pc, victima, expulsado, es_finalizada>>,
         sem_tri' = [sem_tri EXCEPT ![t] = @ - 1],
         procesador' = [procesador EXCEPT ![t] = @ + 1],
         pc_trip'[t] \in {"ciclo", "terminada"},
         ciclo_inicial'[t] =>
           /\ pc_trip'[t] = "ciclo" /\ tarea'[t].es /\ tarea'[t].pos = posicion'[t]
           /\ estado'[t] = "BLOCKED_E_S",
         estado'[t] = "BLOCKED_E_S" => ciclo_inicial'[t],
         \A u \in Trips : u # t =>
           /\ pc_trip'[u] = pc_trip[u] /\ ciclo_inicial'[u] = ciclo_inicial[u]
           /\ tarea'[u] = tarea[u] /\ posicion'[u] = posicion[u] /\ estado'[u] = estado[u]
  PROVE  Ciclos'
<1> USE HilosOK, ProcsOK DEF colas
<1>1. PICK p \in Procs : Concedido(p, t)
  BY HayConcedido
<1>2. sem_tri \in [Trips -> Nat] /\ procesador \in [Trips -> Nat]
  BY DEF Inductiva, Tipos, TypeOK
<1>3. sem_tri'[t] = 0 /\ procesador'[t] = 1
  BY <1>1, <1>2 DEF Concedido
<1>4. ASSUME NEW u \in Trips, u # t
      PROVE  Quieta(u)
  <2>1. sem_tri'[u] = sem_tri[u] /\ procesador'[u] = procesador[u]
    BY <1>2, <1>4
  <2> QED BY <1>4, <2>1 DEF Quieta
<1>5. ManosAjenas'
  <2>1. mano["es"] # t
    BY <1>1 DEF Concedido
  <2>2. ManosQuietas
    BY <2>1 DEF ManosQuietas
  <2> QED BY <2>2, ManosQuedan DEF Ciclos
<1>6. Entrada(t)' /\ Coherente(t)'
  <2>1. t \notin Listados /\ Coherente(t)
    BY <1>1 DEF Concedido, Ciclos, Tripulantes
  <2> QED BY <1>1, <1>3, <2>1 DEF Concedido, Entrada, Coherente, Listados
<1>7. Cuenta(t)'
  <2>1. \A q \in Procs : mano[q] = t => pc[q] = "espera"
    <3>1. t # Nadie /\ \A q \in Procs : q # p => mano[q] # t
      BY <1>1, TripsOK DEF Concedido, Inductiva, UnSoloLugar
    <3> QED BY <1>1, <3>1 DEF Concedido
  <2>2. Saldo(t)' = 1
    BY <1>1, <1>3 DEF Saldo, Uno, Concedido
  <2>3. SaldoProcs(t)'
    BY <2>1, <2>2 DEF SaldoProcs, Uno
  <2>4. SaldoDispositivo(t)' /\ SaldoSuelto(t)'
    BY <1>1 DEF SaldoDispositivo, SaldoSuelto, Concedido
  <2>5. t \notin Range(cola_de_new')
    BY <1>1 DEF Concedido, Listados
  <2> QED BY <2>3, <2>4, <2>5 DEF Cuenta
<1> QED BY <1>4, <1>5, <1>6, <1>7, UnoCambia

\* A cycle taken off a task leaves the rest of the task as it was.
LEMMA GastarTarea ==
  ASSUME Formas, NEW t \in Trips, GastarCiclo(t)
  PROVE  /\ tarea' \in [Trips -> [es : BOOLEAN, pos : Punto, tiempo : Int]]
         /\ tarea'[t].es = tarea[t].es /\ tarea'[t].pos = tarea[t].pos
         /\ \A u \in Trips : u # t => tarea'[u] = tarea[u]
<1>1. tarea' = [tarea EXCEPT ![t].tiempo = @ - 1]
  BY TripsOK DEF GastarCiclo, Formas
<1>2. PICK r \in [es : BOOLEAN, pos : Punto, tiempo : Int] :
        r = [tarea[t] EXCEPT !.tiempo = @ - 1] /\ r.es = tarea[t].es /\ r.pos = tarea[t].pos
  <2>1. tarea[t] \in [es : BOOLEAN, pos : Punto, tiempo : Int]
    BY DEF Formas
  <2>2. PICK n \in Int : n = tarea[t].tiempo - 1
    BY <2>1
  <2>3. [tarea[t] EXCEPT !.tiempo = @ - 1] = [tarea[t] EXCEPT !.tiempo = n]
    BY <2>2
  <2>4. /\ [tarea[t] EXCEPT !.tiempo = n] \in [es : BOOLEAN, pos : Punto, tiempo : Int]
        /\ [tarea[t] EXCEPT !.tiempo = n].es = tarea[t].es
        /\ [tarea[t] EXCEPT !.tiempo = n].pos = tarea[t].pos
    BY ONLY <2>1, n \in Int
  <2> QED BY <2>3, <2>4
<1>3. tarea' = [tarea EXCEPT ![t] = r]
  BY <1>1, <1>2 DEF Formas
<1> QED BY <1>2, <1>3 DEF Formas

\* A crew only spends the cycles it was granted.
LEMMA TripulanteCiclo ==
  ASSUME Inductiva, Ciclos, NEW t \in Trips, Tripulante(t)
  PROVE  Ciclos'
<1> USE HilosOK, ProcsOK, TripsOK
    DEF En, EnTrip, Fase, ConsolaLibre, colas, fichas, compuerta, hilos, consola, creacion,
        propio, comun, emergencia, ajeno, planificacion, tripulacion
<1>0. /\ pc \in [Hilos -> Lugares] /\ victima \in [Hilos -> Trips \cup {Nadie}]
      /\ mano \in [Hilos -> Trips \cup {Nadie}]
  BY DEF Inductiva, Tipos, TypeOK
<1>00. /\ sem_tri \in [Trips -> Nat] /\ procesador \in [Trips -> Nat] /\ estado \in [Trips -> Estados]
       /\ pc_trip \in [Trips -> LugaresTrip] /\ t # Nadie
  BY TripsOK DEF Inductiva, Tipos, TypeOK
<1>01. Formas /\ ManosAjenas /\ Cuenta(t) /\ Entrada(t) /\ Coherente(t) /\ elegido = Nadie
  BY DEF Ciclos, Tripulantes, Formas
<1>1. CASE Nacer(t)
  <2>1. /\ pc_trip[t] = "nace" /\ sem_tri[t] > 0 /\ sem_tri' = [sem_tri EXCEPT ![t] = @ - 1]
        /\ pc_trip' = [pc_trip EXCEPT ![t] = "pide"]
        /\ UNCHANGED <<colas, mano, pc, victima, expulsado, es_finalizada, ciclo_inicial, tarea,
                      posicion, pendientes, estado, procesador, elegido>>
    BY <1>1 DEF Nacer
  <2>2. sem_tri'[t] = sem_tri[t] - 1 /\ pc_trip'[t] = "pide"
    BY <1>00, <2>1
  <2>3. ASSUME NEW u \in Trips, u # t
        PROVE  Quieta(u)
    BY <1>00, <2>1, <2>3 DEF Quieta
  <2>4. ManosAjenas'
    <3>1. ManosQuietas
      BY <2>1 DEF ManosQuietas
    <3> QED BY <1>01, <3>1, ManosQuedan
  <2>5. Formas'
    BY <1>01, <2>1 DEF Formas
  <2>6. Entrada(t)' /\ Coherente(t)'
    BY <1>01, <2>1, <2>2 DEF Entrada, Coherente
  <2>7. Cuenta(t)'
    <3>1. ~SinAvisar(t) /\ t \notin Range(cola_de_new) /\ mano["es"] # t
      BY <1>01, <2>1 DEF SinAvisar, Cuenta, Entrada
    <3>2. Saldo(t)' = Saldo(t) - 1
      BY <1>00, <2>1, <2>2 DEF Saldo, Uno
    <3>3. Uno(pc_trip[t] = "nace") = 1 /\ Uno(pc_trip'[t] = "nace") = 0
      BY <2>1, <2>2 DEF Uno
    <3>4. SaldoProcs(t)'
      BY <1>01, <2>1, <3>1, <3>2, <3>3 DEF Cuenta, SaldoProcs, Uno
    <3>5. SaldoSuelto(t)'
      BY <1>01, <2>1, <3>1, <3>2, <3>3 DEF Cuenta, SaldoSuelto
    <3>6. SaldoDispositivo(t)'
      BY <2>1, <3>1 DEF SaldoDispositivo
    <3> QED BY <2>1, <2>2, <3>1, <3>4, <3>5, <3>6 DEF Cuenta
  <2> QED BY <2>3, <2>4, <2>5, <2>6, <2>7, UnoCambia
<1>2. CASE PedirTarea(t)
  <2>1. /\ pc_trip[t] = "pide" /\ pc_trip'[t] \in {"fin", "ciclo"}
        /\ \A u \in Trips : u # t => pc_trip'[u] = pc_trip[u] /\ tarea'[u] = tarea[u]
        /\ UNCHANGED <<colas, mano, pc, victima, expulsado, es_finalizada, ciclo_inicial,
                      posicion, estado, procesador, sem_tri, elegido>>
    BY <1>00, <1>01, <1>2 DEF PedirTarea, Formas
  <2>2. Formas'
    <3>1. CASE pendientes[t] = <<>>
      BY <1>01, <1>2, <2>1, <3>1 DEF PedirTarea, Formas
    <3>2. CASE pendientes[t] # <<>>
      <4>1. /\ Head(pendientes[t]) \in Tarea /\ Tail(pendientes[t]) \in Seq(Tarea)
            /\ tarea' = [tarea EXCEPT ![t] = Head(pendientes[t])]
            /\ pendientes' = [pendientes EXCEPT ![t] = Tail(pendientes[t])]
        BY <1>01, <1>2, <3>2, QuitarSeq DEF PedirTarea, Formas
      <4>2. Head(pendientes[t]) \in [es : BOOLEAN, pos : Punto, tiempo : Int]
        BY <4>1 DEF Tarea
      <4> QED BY <1>01, <2>1, <4>1, <4>2 DEF Formas
    <3> QED BY <3>1, <3>2
  <2>3. ASSUME NEW u \in Trips, u # t
        PROVE  Quieta(u)
    BY <2>1, <2>3 DEF Quieta
  <2>4. ManosAjenas'
    <3>1. ManosQuietas
      BY <2>1 DEF ManosQuietas
    <3> QED BY <1>01, <3>1, ManosQuedan
  <2>5. Entrada(t)' /\ Coherente(t)'
    BY <1>01, <2>1 DEF Entrada, Coherente
  <2>6. Cuenta(t)'
    <3>1. ~SinAvisar(t) /\ t \notin Range(cola_de_new)
      BY <1>01, <2>1 DEF SinAvisar, Cuenta
    <3>2. Saldo(t)' = Saldo(t) /\ Uno(pc_trip[t] = "nace") = Uno(pc_trip'[t] = "nace")
      BY <2>1 DEF Saldo, Uno
    <3>3. SaldoProcs(t)' /\ SaldoSuelto(t)' /\ SaldoDispositivo(t)'
      BY <1>01, <2>1, <3>1, <3>2 DEF Cuenta, SaldoProcs, SaldoSuelto, SaldoDispositivo
    <3> QED BY <2>1, <3>1, <3>3 DEF Cuenta
  <2> QED BY <2>2, <2>3, <2>4, <2>5, <2>6, UnoCambia
<1>3. CASE TareaTerminada(t)
  <2>1. /\ pc_trip[t] = "terminada" /\ pc_trip'[t] \in {"fin", "pide"}
        /\ \A u \in Trips : u # t => pc_trip'[u] = pc_trip[u] /\ tarea'[u] = tarea[u]
        /\ UNCHANGED <<colas, mano, pc, victima, expulsado, es_finalizada, ciclo_inicial,
                      posicion, estado, procesador, sem_tri, elegido>>
    BY <1>00, <1>01, <1>3 DEF TareaTerminada, Formas
  <2>2. Formas'
    BY <1>01, <1>3 DEF TareaTerminada, Formas
  <2>3. ASSUME NEW u \in Trips, u # t
        PROVE  Quieta(u)
    BY <2>1, <2>3 DEF Quieta
  <2>4. ManosAjenas'
    <3>1. ManosQuietas
      BY <2>1 DEF ManosQuietas
    <3> QED BY <1>01, <3>1, ManosQuedan
  <2>5. Entrada(t)' /\ Coherente(t)'
    BY <1>01, <2>1 DEF Entrada, Coherente
  <2>6. Cuenta(t)'
    <3>1. ~SinAvisar(t) /\ t \notin Range(cola_de_new)
      BY <1>01, <2>1 DEF SinAvisar, Cuenta
    <3>2. Saldo(t)' = Saldo(t) /\ Uno(pc_trip[t] = "nace") = Uno(pc_trip'[t] = "nace")
      BY <2>1 DEF Saldo, Uno
    <3>3. SaldoProcs(t)' /\ SaldoSuelto(t)' /\ SaldoDispositivo(t)'
      BY <1>01, <2>1, <3>1, <3>2 DEF Cuenta, SaldoProcs, SaldoSuelto, SaldoDispositivo
    <3> QED BY <2>1, <3>1, <3>3 DEF Cuenta
  <2> QED BY <2>2, <2>3, <2>4, <2>5, <2>6, UnoCambia
<1>4. CASE PedirTareaDeExpulsado(t)
  BY <1>4, AvanzaQueda DEF PedirTareaDeExpulsado, Avanza
<1>5. CASE CicloSinPatota(t)
  BY <1>5, AvanzaQueda DEF CicloSinPatota, Avanza
<1>6. CASE CicloMover(t)
  <2>1. ~ciclo_inicial[t]
    BY <1>01, <1>6 DEF CicloMover, EnDestino, TareaActual, Entrada
  <2>2. Formas' /\ \A u \in Trips : u # t => posicion'[u] = posicion[u]
    BY <1>01, <1>6 DEF CicloMover, EsperaCiclo, Formas
  <2>3. estado[t] # "BLOCKED_E_S"
    BY <1>01, <2>1 DEF Entrada
  <2>4. /\ pc_trip[t] = "ciclo" /\ sem_tri[t] > 0 /\ pc_trip'[t] = "ciclo"
        /\ sem_tri' = [sem_tri EXCEPT ![t] = @ - 1]
        /\ procesador' = [procesador EXCEPT ![t] = @ + 1]
        /\ UNCHANGED <<colas, mano, pc, victima, expulsado, es_finalizada, pc_trip,
                      ciclo_inicial, tarea, estado>>
    BY <1>6 DEF CicloMover, EsperaCiclo
  <2> QED BY ONLY Inductiva, Ciclos, t \in Trips, <2>1, <2>2, <2>3, <2>4, GastaEnProcesador
<1>7. CASE CicloSyscall(t)
  <2>1. /\ pc_trip[t] = "ciclo" /\ sem_tri[t] > 0 /\ pc_trip'[t] = "ciclo" /\ ~ciclo_inicial[t]
        /\ sem_tri' = [sem_tri EXCEPT ![t] = @ - 1]
        /\ procesador' = [procesador EXCEPT ![t] = @ + 1]
        /\ UNCHANGED <<colas, mano, pc, victima, expulsado, es_finalizada, pc_trip, tarea,
                      posicion>>
    BY <1>7 DEF CicloSyscall, EsperaCiclo
  <2>2. tarea[t].es /\ tarea[t].pos = posicion[t]
    BY <1>00, <1>01, <1>7 DEF CicloSyscall, EnDestino, TareaActual
  <2>3. /\ Formas' /\ estado'[t] = "BLOCKED_E_S" /\ ciclo_inicial'[t]
        /\ \A u \in Trips : u # t => estado'[u] = estado[u] /\ ciclo_inicial'[u] = ciclo_inicial[u]
    BY <1>00, <1>01, <1>7 DEF CicloSyscall, Formas
  <2> QED BY ONLY Inductiva, Ciclos, t \in Trips, <2>1, <2>2, <2>3, GastaEnProcesador
<1>8. CASE CicloCPU(t)
  <2>1. /\ pc_trip[t] = "ciclo" /\ sem_tri[t] > 0
        /\ sem_tri' = [sem_tri EXCEPT ![t] = @ - 1]
        /\ procesador' = [procesador EXCEPT ![t] = @ + 1]
        /\ UNCHANGED <<colas, mano, pc, victima, expulsado, es_finalizada, ciclo_inicial,
                      posicion, pendientes, elegido>>
    BY <1>8 DEF CicloCPU, EsperaCiclo
  <2>2. /\ pc_trip'[t] \in {"ciclo", "terminada"}
        /\ \A u \in Trips : u # t => pc_trip'[u] = pc_trip[u]
    BY <1>00, <1>8, <2>1 DEF CicloCPU
  <2>3. estado'[t] \in {estado[t], "EXIT"} /\ \A u \in Trips : u # t => estado'[u] = estado[u]
    BY <1>00, <1>8 DEF CicloCPU
  <2>4. ~tarea[t].es /\ GastarCiclo(t)
    BY <1>00, <1>01, <1>8 DEF CicloCPU, TareaActual
  <2>5. ~ciclo_inicial[t] /\ estado'[t] # "BLOCKED_E_S"
    BY <1>01, <2>3, <2>4 DEF Entrada
  <2>6. Formas' /\ \A u \in Trips : u # t => tarea'[u] = tarea[u]
    BY <1>01, <2>1, <2>4, GastarTarea DEF Formas
  <2> QED BY ONLY Inductiva, Ciclos, t \in Trips, <2>1, <2>2, <2>3, <2>5, <2>6, GastaEnProcesador
<1>9. CASE CicloES(t)
  <2>1. /\ pc_trip[t] = "ciclo" /\ sem_tri[t] > 0 /\ ciclo_inicial[t]
        /\ sem_tri' = [sem_tri EXCEPT ![t] = @ - 1] /\ es_finalizada' = es_finalizada + 1
        /\ UNCHANGED <<colas, mano, pc, victima, expulsado, procesador, posicion, pendientes,
                      elegido>>
    BY <1>9 DEF CicloES, EsperaCiclo
  <2>2. Formas' /\ tarea'[t].es = tarea[t].es /\ tarea'[t].pos = tarea[t].pos
        /\ \A u \in Trips : u # t => tarea'[u] = tarea[u] /\ ciclo_inicial'[u] = ciclo_inicial[u]
    <3>1. GastarCiclo(t) /\ (ciclo_inicial' = ciclo_inicial \/ ciclo_inicial' = [ciclo_inicial EXCEPT ![t] = FALSE])
      BY <1>9 DEF CicloES
    <3>2. /\ tarea' \in [Trips -> [es : BOOLEAN, pos : Punto, tiempo : Int]]
          /\ tarea'[t].es = tarea[t].es /\ tarea'[t].pos = tarea[t].pos
          /\ \A u \in Trips : u # t => tarea'[u] = tarea[u]
      BY <1>01, <3>1, GastarTarea
    <3>3. ciclo_inicial \in [Trips -> BOOLEAN]
      BY <1>01 DEF Formas
    <3>4. /\ ciclo_inicial' \in [Trips -> BOOLEAN]
          /\ \A u \in Trips : u # t => ciclo_inicial'[u] = ciclo_inicial[u]
      BY ONLY <3>1, <3>3
    <3>5. Formas'
      BY <1>01, <2>1, <3>2, <3>4 DEF Formas
    <3> QED BY ONLY <3>2, <3>4, <3>5
  <2>3. /\ \/ pc_trip'[t] = "ciclo" /\ ciclo_inicial'[t] /\ estado'[t] = estado[t]
           \/ pc_trip'[t] = "terminada" /\ ~ciclo_inicial'[t] /\ estado'[t] = "READY"
        /\ \A u \in Trips : u # t => pc_trip'[u] = pc_trip[u] /\ estado'[u] = estado[u]
    <3>1. CASE TareaActual(t).tiempo = 1
      BY <1>00, <1>01, <1>9, <3>1 DEF CicloES, Formas
    <3>2. CASE TareaActual(t).tiempo # 1
      BY <1>9, <2>1, <3>2 DEF CicloES
    <3> QED BY <3>1, <3>2
  <2>4. mano["es"] = t /\ ~SinAvisar(t) /\ \A p \in Procs : mano[p] # t
    <3>1. ~SinAvisar(t) /\ \A p \in Procs : mano[p] # t
      BY <1>01, <2>1 DEF SinAvisar, Entrada
    <3>2. Saldo(t) # Uno(pc_trip[t] = "nace")
      BY <1>00, <2>1 DEF Saldo, Uno
    <3> QED BY <1>01, <3>1, <3>2 DEF Cuenta, SaldoSuelto
  <2>5. /\ es_finalizada = 0 /\ sem_tri[t] = 1 /\ pc["es"] = "espera" /\ procesador[t] = 0
        /\ mano["planificador"] # t
    <3>1. sem_tri[t] + es_finalizada = Uno(pc["es"] = "espera")
      BY <1>01, <2>4 DEF Cuenta, SaldoDispositivo
    <3>2. es_finalizada \in Nat
      BY DEF Inductiva, Tipos, TypeOK
    <3> QED BY <1>00, <1>01, <2>1, <2>4, <3>1, <3>2 DEF Uno, Entrada
  <2>6. sem_tri'[t] = 0 /\ es_finalizada' = 1
    BY <1>00, <2>1, <2>5
  <2>7. ASSUME NEW u \in Trips, u # t
        PROVE  Quieta(u)
    <3>1. sem_tri'[u] = sem_tri[u]
      BY <1>00, <2>1, <2>7
    <3> QED BY <2>1, <2>2, <2>3, <2>4, <2>7, <3>1 DEF Quieta
  <2>8. ManosAjenas'
    <3>1. t \in Range(cola_de_block)
      BY <1>01, <2>4, <2>5 DEF ManosAjenas
    <3> QED BY <1>01, <2>1, <2>4, <2>5, <3>1 DEF ManosAjenas
  <2>9. Entrada(t)'
    BY <1>01, <2>1, <2>2, <2>3, <2>4, <2>5, <2>6 DEF Entrada
  <2>10. Coherente(t)'
    BY <1>01, <2>1, <2>3, <2>4 DEF Coherente, Entrada
  <2>11. Cuenta(t)'
    <3>1. SaldoDispositivo(t)'
      BY <2>1, <2>5, <2>6 DEF SaldoDispositivo, Uno
    <3>2. SaldoProcs(t)' /\ SaldoSuelto(t)'
      BY <2>1, <2>4 DEF SaldoProcs, SaldoSuelto
    <3>3. pc_trip'[t] # "no_creado" /\ t \notin Range(cola_de_new')
      BY <1>01, <2>1, <2>3, <2>4 DEF Cuenta
    <3> QED BY <3>1, <3>2, <3>3 DEF Cuenta
  <2> QED BY <2>2, <2>7, <2>8, <2>9, <2>10, <2>11, UnoCambia
<1> QED BY <1>1, <1>2, <1>3, <1>4, <1>5, <1>6, <1>7, <1>8, <1>9 DEF Tripulante, Ciclo

\* The long-term scheduler tells a crew to start once.
LEMMA PlanificadorCiclo ==
  ASSUME Inductiva, Ciclos, PlanificadorLargoPlazo
  PROVE  Ciclos'
<1> USE HilosOK, ProcsOK, TripsOK
    DEF En, EnTrip, Fase, ConsolaLibre, colas, fichas, compuerta, hilos, consola, creacion,
        propio, comun, emergencia, ajeno, planificacion, tripulacion
<1>0. /\ pc \in [Hilos -> Lugares] /\ victima \in [Hilos -> Trips \cup {Nadie}]
      /\ mano \in [Hilos -> Trips \cup {Nadie}]
  BY DEF Inductiva, Tipos, TypeOK
<1>1. CASE TripulanteExpulsado("planificador")
  <2>1. victima' = [victima EXCEPT !["planificador"] = Nadie] /\ estado' = [estado EXCEPT ![victima["planificador"]] = "EXPULSADO"]
    BY <1>1 DEF TripulanteExpulsado
  <2>2. victima'["planificador"] = Nadie /\ \A g \in Hilos : g # "planificador" => victima'[g] = victima[g]
    BY <1>0, <2>1
  <2> QED BY <1>1, <2>1, <2>2, AvanzaQueda DEF TripulanteExpulsado, Avanza
<1>2. CASE TomarNew
  BY <1>0, <1>2, AvanzaQueda DEF TomarNew, TrasCompuerta, Avanza
<1>3. CASE LeerPausa("planificador")
  BY <1>0, <1>3, AvanzaQueda DEF LeerPausa, TrasCompuerta, Avanza
<1>4. CASE Drenar("planificador")
  BY <1>0, <1>4, AvanzaQueda DEF Drenar, TrasCompuerta, Avanza
<1>5. CASE Reanudarse("planificador")
  BY <1>0, <1>5, AvanzaQueda DEF Reanudarse, TrasCompuerta, Avanza
<1>6. CASE ExpulsarDeNew
  <2>1. SacarExpulsado("planificador", cola_de_new, cola_de_new') /\ victima["planificador"] = Nadie
    BY <1>6 DEF ExpulsarDeNew
  <2>2. /\ cola_de_new \in Seq(Trips) /\ IsInjective(cola_de_new)
        /\ Range(cola_de_new) \subseteq Listados \cup Range(cola_de_exec)
    BY DEF Inductiva, UnSoloLugar, Tipos, TypeOK, Listados
  <2>3. /\ Range(cola_de_new') \subseteq Range(cola_de_new)
        /\ \A g \in Hilos : g # "planificador" => victima'[g] = victima[g]
        /\ \A t \in Trips : victima'["planificador"] = t =>
             /\ expulsado[t] /\ t \in Range(cola_de_new) /\ t \notin Range(cola_de_new')
             /\ pc_trip[t] # "no_creado"
    BY <2>1, <2>2, SacarVictima
  <2> QED BY <1>0, <1>6, <2>1, <2>3, AvanzaQueda DEF ExpulsarDeNew, Avanza
<1>00. /\ sem_tri \in [Trips -> Nat] /\ procesador \in [Trips -> Nat] /\ estado \in [Trips -> Estados]
       /\ es_finalizada \in Nat
  BY DEF Inductiva, Tipos, TypeOK
<1>01. Formas /\ ManosAjenas
  BY DEF Ciclos
<1>7. CASE MoverAReady
  <2>1. CASE cola_de_new = <<>>
    BY <1>7, <2>1, AvanzaQueda DEF MoverAReady, Avanza
  <2>2. CASE cola_de_new # <<>>
    <3>1. PICK t \in Trips : t = Head(cola_de_new)
      BY <2>2, QuitarSeq DEF Inductiva, Tipos, TypeOK
    <3>2. /\ t \in Range(cola_de_new) /\ Range(Tail(cola_de_new)) \subseteq Range(cola_de_new)
          /\ t \notin Range(Tail(cola_de_new))
      BY <2>2, <3>1, QuitarSeq DEF Inductiva, UnSoloLugar, Tipos, TypeOK
    <3>3. /\ estado' = [estado EXCEPT ![t] = "READY"] /\ mano' = [mano EXCEPT !["planificador"] = t]
          /\ pc' = [pc EXCEPT !["planificador"] = "avisa"] /\ pc["planificador"] = "elige"
          /\ cola_de_new' = Tail(cola_de_new) /\ cola_de_ready' = Append(cola_de_ready, t)
          /\ UNCHANGED <<cola_de_block, victima, expulsado, es_finalizada, ciclo_inicial,
                        posicion, tarea, pendientes, pc_trip, sem_tri, procesador, elegido>>
      BY <1>7, <2>2, <3>1 DEF MoverAReady, QuitarPrimero, AgregarElemento
    <3>4. Range(cola_de_ready') = Range(cola_de_ready) \cup {t}
      BY <3>3, AgregarSeq DEF Inductiva, Tipos, TypeOK
    <3>5. SinAvisar(t) /\ pc_trip[t] = "nace" /\ ~ciclo_inicial[t]
      <4>1. SinAvisar(t) /\ Entrada(t)
        BY <3>2 DEF Ciclos, Tripulantes, Cuenta
      <4>2. pc_trip[t] # "no_creado"
        BY <3>2 DEF Inductiva, Listados
      <4> QED BY <4>1, <4>2 DEF SinAvisar, Entrada
    <3>6. mano["planificador"] \notin Trips /\ mano'["planificador"] = t /\ pc'["planificador"] = "avisa"
          /\ \A g \in Hilos : g # "planificador" => mano'[g] = mano[g] /\ pc'[g] = pc[g]
      BY <1>0, <1>01, <3>3 DEF ManosAjenas
    <3>7. mano["es"] # t /\ \A p \in Procs : mano[p] # t
      BY <3>5 DEF SinAvisar
    <3>8. estado'[t] = "READY" /\ \A u \in Trips : u # t => estado'[u] = estado[u]
      BY <1>00, <3>3
    <3>9. ASSUME NEW u \in Trips, u # t
          PROVE  Quieta(u)
      BY <3>2, <3>3, <3>4, <3>6, <3>8, <3>9 DEF Quieta
    <3>10. Formas'
      BY <1>01, <3>3 DEF Formas
    <3>11. ManosAjenas'
      BY <1>01, <3>2, <3>3, <3>4, <3>6, <3>7, <3>8 DEF ManosAjenas
    <3>12. Coherente(t)'
      <4>1. Coherente(t)
        BY DEF Ciclos, Tripulantes
      <4> QED BY <3>2, <3>3, <3>4, <3>5, <3>8, <4>1 DEF Coherente, SinAvisar
    <3>13. Entrada(t)'
      <4>1. Entrada(t)
        BY DEF Ciclos, Tripulantes
      <4> QED BY <3>2, <3>3, <3>5, <3>6, <3>7, <3>8, <4>1 DEF Entrada, SinAvisar
    <3>14. Cuenta(t)'
      <4>1. Saldo(t)' = 1 /\ Uno(pc_trip'[t] = "nace") = 1
        BY <3>3, <3>5, <3>6 DEF Saldo, Uno, SinAvisar
      <4>2. SaldoProcs(t)' /\ SaldoDispositivo(t)' /\ SaldoSuelto(t)'
        BY <3>6, <3>7, <4>1 DEF SaldoProcs, SaldoDispositivo, SaldoSuelto
      <4>3. pc_trip'[t] # "no_creado" /\ t \notin Range(cola_de_new')
        BY <3>2, <3>3, <3>5
      <4> QED BY <4>2, <4>3 DEF Cuenta
    <3> QED BY <3>9, <3>10, <3>11, <3>12, <3>13, <3>14, UnoCambia
  <2> QED BY <2>1, <2>2
<1>8. CASE AvisarReady
  <2>1. /\ pc["planificador"] = "avisa" /\ sem_tri' = [sem_tri EXCEPT ![mano["planificador"]] = @ + 1]
        /\ mano' = [mano EXCEPT !["planificador"] = Nadie]
        /\ pc' = [pc EXCEPT !["planificador"] = "libre"]
        /\ UNCHANGED <<colas, victima, expulsado, es_finalizada, ciclo_inicial, posicion, tarea,
                      pendientes, pc_trip, procesador, elegido, estado>>
    BY <1>8 DEF AvisarReady
  <2>2. PICK t \in Trips : t = mano["planificador"]
    BY <1>01, <2>1 DEF ManosAjenas
  <2>3. sem_tri'[t] = sem_tri[t] + 1 /\ \A u \in Trips : u # t => sem_tri'[u] = sem_tri[u]
    BY <1>00, <2>1, <2>2
  <2>4. mano'["planificador"] = Nadie /\ pc'["planificador"] = "libre" /\ Nadie # t
        /\ \A g \in Hilos : g # "planificador" => mano'[g] = mano[g] /\ pc'[g] = pc[g]
    BY <1>0, <2>1
  <2>5. ASSUME NEW u \in Trips, u # t
        PROVE  Quieta(u)
    BY <2>1, <2>2, <2>3, <2>4, <2>5 DEF Quieta
  <2>6. Formas'
    BY <1>01, <2>1 DEF Formas
  <2>7. ManosAjenas'
    BY <1>01, <2>1, <2>2, <2>4 DEF ManosAjenas
  <2>8. Cuenta(t) /\ Entrada(t) /\ Coherente(t) /\ ~SinAvisar(t)
    BY <2>2 DEF Ciclos, Tripulantes, SinAvisar
  <2>9. Coherente(t)'
    BY <2>1, <2>4, <2>8 DEF Coherente
  <2>10. mano["es"] # t /\ ~ciclo_inicial[t]
    BY <2>2, <2>8 DEF Entrada
  <2>11. Entrada(t)'
    BY <2>1, <2>4, <2>8, <2>10 DEF Entrada
  <2>12. Cuenta(t)'
    <3>1. Saldo(t)' = Saldo(t)
      BY <1>00, <2>1, <2>2, <2>3, <2>4 DEF Saldo, Uno
    <3>2. SaldoProcs(t)' /\ SaldoSuelto(t)' /\ SaldoDispositivo(t)'
      BY <2>1, <2>4, <2>8, <2>10, <3>1 DEF Cuenta, SaldoProcs, SaldoSuelto, SaldoDispositivo
    <3>3. pc_trip'[t] # "no_creado" /\ t \notin Range(cola_de_new')
      BY <2>1, <2>8 DEF Cuenta
    <3> QED BY <3>2, <3>3 DEF Cuenta
  <2> QED BY <2>5, <2>6, <2>7, <2>9, <2>11, <2>12, UnoCambia
<1> QED BY <1>1, <1>2, <1>3, <1>4, <1>5, <1>6, <1>7, <1>8 DEF PlanificadorLargoPlazo, PasarCompuerta

\* The device grants a cycle at a time to the one crew it has.
LEMMA DispositivoCiclo ==
  ASSUME Inductiva, Ciclos, Dispositivo
  PROVE  Ciclos'
<1> USE HilosOK, ProcsOK, TripsOK
    DEF En, EnTrip, Fase, ConsolaLibre, colas, fichas, compuerta, hilos, consola, creacion,
        propio, comun, emergencia, ajeno, planificacion, tripulacion
<1>0. /\ pc \in [Hilos -> Lugares] /\ victima \in [Hilos -> Trips \cup {Nadie}]
      /\ mano \in [Hilos -> Trips \cup {Nadie}]
  BY DEF Inductiva, Tipos, TypeOK
<1>00. /\ sem_tri \in [Trips -> Nat] /\ procesador \in [Trips -> Nat] /\ estado \in [Trips -> Estados]
       /\ es_finalizada \in Nat /\ cola_de_block \in Seq(Trips) /\ IsInjective(cola_de_block)
       /\ cola_de_ready \in Seq(Trips)
  BY DEF Inductiva, UnSoloLugar, Tipos, TypeOK
<1>01. Formas /\ ManosAjenas
  BY DEF Ciclos
<1>02. \A t \in Trips : Cuenta(t) /\ Entrada(t) /\ Coherente(t)
  BY DEF Ciclos, Tripulantes
<1>1. CASE TripulanteExpulsado("es")
  <2>1. victima' = [victima EXCEPT !["es"] = Nadie] /\ estado' = [estado EXCEPT ![victima["es"]] = "EXPULSADO"]
    BY <1>1 DEF TripulanteExpulsado
  <2>2. victima'["es"] = Nadie /\ \A g \in Hilos : g # "es" => victima'[g] = victima[g]
    BY <1>0, <2>1
  <2> QED BY <1>1, <2>1, <2>2, AvanzaQueda DEF TripulanteExpulsado, Avanza
<1>2. CASE TomarBlock
  BY <1>0, <1>2, AvanzaQueda DEF TomarBlock, TrasCompuerta, Avanza
<1>3. CASE LeerPausa("es")
  BY <1>0, <1>3, AvanzaQueda DEF LeerPausa, TrasCompuerta, Avanza
<1>4. CASE Drenar("es")
  BY <1>0, <1>4, AvanzaQueda DEF Drenar, TrasCompuerta, Avanza
<1>5. CASE Reanudarse("es")
  BY <1>0, <1>5, AvanzaQueda DEF Reanudarse, TrasCompuerta, Avanza
<1>6. CASE ExpulsarDeBlock
  <2>1. SacarExpulsado("es", cola_de_block, cola_de_block') /\ victima["es"] = Nadie
    BY <1>6 DEF ExpulsarDeBlock
  <2>2. /\ cola_de_block \in Seq(Trips) /\ IsInjective(cola_de_block)
        /\ Range(cola_de_block) \subseteq Listados \cup Range(cola_de_exec)
    BY DEF Inductiva, UnSoloLugar, Tipos, TypeOK, Listados
  <2>3. /\ Range(cola_de_block') \subseteq Range(cola_de_block)
        /\ \A g \in Hilos : g # "es" => victima'[g] = victima[g]
        /\ \A t \in Trips : victima'["es"] = t =>
             /\ expulsado[t] /\ t \in Range(cola_de_block) /\ t \notin Range(cola_de_block')
             /\ pc_trip[t] # "no_creado"
    BY <2>1, <2>2, SacarVictima
  <2>4. \A t \in Range(cola_de_block) : t \notin Range(cola_de_new)
    BY DEF Inductiva, UnSoloLugar
  <2>5. mano["es"] = Nadie
    BY <1>01, <1>6 DEF ExpulsarDeBlock, ManosAjenas
  <2> QED BY <1>0, <1>6, <2>1, <2>3, <2>4, <2>5, AvanzaQueda DEF ExpulsarDeBlock, Avanza
<1>7. CASE ElegirBloqueado
  <2>1. CASE cola_de_block = <<>>
    BY <1>7, <2>1, AvanzaQueda DEF ElegirBloqueado, Avanza
  <2>2. CASE cola_de_block # <<>>
    <3>1. PICK t \in Trips : t = Head(cola_de_block) /\ t \in Range(cola_de_block)
      BY <1>00, <2>2, QuitarSeq
    <3>2. /\ pc["es"] = "elige" /\ mano' = [mano EXCEPT !["es"] = t] /\ pc' = [pc EXCEPT !["es"] = "rafaga"]
          /\ UNCHANGED <<colas, victima, expulsado, es_finalizada, ciclo_inicial, posicion, tarea,
                        pendientes, pc_trip, sem_tri, procesador, elegido, estado>>
      BY <1>7, <2>2, <3>1 DEF ElegirBloqueado
    <3>3. mano'["es"] = t /\ pc'["es"] = "rafaga" /\ mano["es"] = Nadie /\ es_finalizada = 0
          /\ \A g \in Hilos : g # "es" => mano'[g] = mano[g] /\ pc'[g] = pc[g]
      BY <1>0, <1>01, <3>2 DEF ManosAjenas
    <3>4. \A p \in Procs : mano[p] # t
      BY <3>1 DEF Inductiva, UnSoloLugar
    <3>5. ~SinAvisar(t) /\ procesador[t] = 0 /\ mano["planificador"] # t /\ pc_trip[t] # "nace"
          /\ pc_trip[t] # "no_creado" /\ t \notin Range(cola_de_new) \cup Range(cola_de_ready)
      BY <1>02, <3>1 DEF SinAvisar, Entrada, Inductiva, UnSoloLugar
    <3>6. sem_tri[t] = 0
      BY <1>00, <1>02, <3>3, <3>4, <3>5 DEF Cuenta, SaldoSuelto, Saldo, Uno
    <3>7. ASSUME NEW u \in Trips, u # t
          PROVE  Quieta(u)
      BY <3>2, <3>3, <3>7 DEF Quieta
    <3>8. Formas'
      BY <1>01, <3>2 DEF Formas
    <3>9. ManosAjenas'
      BY <1>01, <3>1, <3>2, <3>3, <3>4, <3>5 DEF ManosAjenas
    <3>10. Entrada(t)'
      BY <1>02, <3>1, <3>2, <3>3, <3>4, <3>5, <3>6 DEF Entrada
    <3>11. Coherente(t)'
      BY <1>02, <3>2, <3>3 DEF Coherente
    <3>12. Cuenta(t)'
      <4>1. SaldoProcs(t)' /\ SaldoSuelto(t)' /\ SaldoDispositivo(t)'
        BY <3>2, <3>3, <3>4, <3>6 DEF SaldoProcs, SaldoSuelto, SaldoDispositivo, Uno
      <4> QED BY <3>2, <3>5, <4>1 DEF Cuenta
    <3> QED BY <3>7, <3>8, <3>9, <3>10, <3>11, <3>12, UnoCambia
  <2> QED BY <2>1, <2>2
<1>8. CASE DarCicloES
  <2>1. /\ pc["es"] = "rafaga" /\ estado[mano["es"]] = "BLOCKED_E_S" /\ victima["es"] = Nadie
        /\ sem_tri' = [sem_tri EXCEPT ![mano["es"]] = @ + 1] /\ pc' = [pc EXCEPT !["es"] = "espera"]
        /\ UNCHANGED <<colas, mano, victima, expulsado, es_finalizada, ciclo_inicial, posicion,
                      tarea, pendientes, pc_trip, procesador, elegido, estado>>
    BY <1>8 DEF DarCicloES
  <2>2. PICK t \in Trips : t = mano["es"]
    BY <1>0, <1>01, <2>1 DEF ManosAjenas
  <2>3. sem_tri'[t] = sem_tri[t] + 1 /\ pc'["es"] = "espera"
        /\ (\A u \in Trips : u # t => sem_tri'[u] = sem_tri[u])
        /\ \A g \in Hilos : g # "es" => pc'[g] = pc[g]
    BY <1>0, <1>00, <2>1, <2>2
  <2>4. /\ ~SinAvisar(t) /\ sem_tri[t] = 0 /\ es_finalizada = 0 /\ ciclo_inicial[t]
        /\ t \notin Range(cola_de_new) \cup Range(cola_de_ready) /\ pc_trip[t] # "no_creado"
        /\ (\A p \in Procs : mano[p] # t) /\ mano["planificador"] # t
        /\ t \in Range(cola_de_block) /\ Head(cola_de_block) = t
    <3>1. ~SinAvisar(t) /\ Cuenta(t) /\ Entrada(t)
      BY <1>02, <2>2 DEF SinAvisar
    <3>2. sem_tri[t] + es_finalizada = 0
      BY <2>1, <2>2, <3>1 DEF Cuenta, SaldoDispositivo, Uno
    <3>3. sem_tri[t] = 0 /\ es_finalizada = 0
      BY <1>00, <3>2
    <3>4. /\ t \notin Range(cola_de_new) \cup Range(cola_de_ready) /\ (\A p \in Procs : mano[p] # t)
          /\ t \in Range(cola_de_block) /\ Head(cola_de_block) = t
      BY <1>01, <2>1, <2>2 DEF ManosAjenas
    <3> QED BY <2>1, <2>2, <3>1, <3>3, <3>4 DEF Entrada
  <2>5. ASSUME NEW u \in Trips, u # t
        PROVE  Quieta(u)
    BY <2>1, <2>2, <2>3, <2>5 DEF Quieta
  <2>6. Formas'
    BY <1>01, <2>1 DEF Formas
  <2>7. ManosAjenas'
    BY <1>01, <2>1, <2>2, <2>3, <2>4 DEF ManosAjenas
  <2>8. Entrada(t)' /\ Coherente(t)'
    BY <1>02, <2>1, <2>2, <2>3, <2>4 DEF Entrada, Coherente
  <2>9. Cuenta(t)'
    <3>1. SaldoProcs(t)' /\ SaldoSuelto(t)' /\ SaldoDispositivo(t)'
      BY <2>1, <2>2, <2>3, <2>4 DEF SaldoProcs, SaldoSuelto, SaldoDispositivo, Uno
    <3> QED BY <2>1, <2>4, <3>1 DEF Cuenta
  <2> QED BY <2>5, <2>6, <2>7, <2>8, <2>9, UnoCambia
<1>9. CASE CicloESTerminado
  <2>1. /\ pc["es"] = "espera" /\ es_finalizada > 0 /\ es_finalizada' = es_finalizada - 1
        /\ pc' = [pc EXCEPT !["es"] = "lee_pausa"]
        /\ UNCHANGED <<colas, mano, victima, expulsado, ciclo_inicial, posicion, tarea, sem_tri,
                      pendientes, pc_trip, procesador, elegido, estado>>
    BY <1>9 DEF CicloESTerminado
  <2>2. PICK t \in Trips : t = mano["es"]
    BY <1>0, <1>01, <2>1 DEF ManosAjenas
  <2>3. pc'["es"] = "lee_pausa" /\ \A g \in Hilos : g # "es" => pc'[g] = pc[g]
    BY <1>0, <2>1
  <2>4. /\ ~SinAvisar(t) /\ sem_tri[t] = 0 /\ es_finalizada = 1 /\ es_finalizada' = 0
        /\ t \notin Range(cola_de_new) /\ pc_trip[t] # "no_creado"
        /\ (\A p \in Procs : mano[p] # t)
    <3>1. ~SinAvisar(t) /\ Cuenta(t) /\ Entrada(t)
      BY <1>02, <2>2 DEF SinAvisar
    <3>2. sem_tri[t] + es_finalizada = 1
      BY <2>1, <2>2, <3>1 DEF Cuenta, SaldoDispositivo, Uno
    <3> QED BY <1>00, <1>01, <2>1, <2>2, <3>1, <3>2 DEF Entrada, ManosAjenas
  <2>5. ASSUME NEW u \in Trips, u # t
        PROVE  Quieta(u)
    BY <2>1, <2>2, <2>3, <2>5 DEF Quieta
  <2>6. Formas'
    BY <1>01, <2>1 DEF Formas
  <2>7. ManosAjenas'
    BY <1>01, <2>1, <2>2, <2>3, <2>4 DEF ManosAjenas
  <2>8. Entrada(t)' /\ Coherente(t)'
    BY <1>02, <2>1, <2>2, <2>3, <2>4 DEF Entrada, Coherente
  <2>9. Cuenta(t)'
    <3>1. SaldoProcs(t)' /\ SaldoSuelto(t)' /\ SaldoDispositivo(t)'
      BY <2>1, <2>2, <2>3, <2>4 DEF SaldoProcs, SaldoSuelto, SaldoDispositivo, Uno
    <3> QED BY <2>1, <2>4, <3>1 DEF Cuenta
  <2> QED BY <2>5, <2>6, <2>7, <2>8, <2>9, UnoCambia
<1>10. CASE ExpulsarEnCiclo
  <2>1. SacarExpulsado("es", cola_de_block, cola_de_block') /\ victima["es"] = Nadie
    BY <1>10 DEF ExpulsarEnCiclo
  <2>2. /\ cola_de_block \in Seq(Trips) /\ IsInjective(cola_de_block)
        /\ Range(cola_de_block) \subseteq Listados \cup Range(cola_de_exec)
    BY DEF Inductiva, UnSoloLugar, Tipos, TypeOK, Listados
  <2>3. /\ Range(cola_de_block') \subseteq Range(cola_de_block)
        /\ \A g \in Hilos : g # "es" => victima'[g] = victima[g]
        /\ \A t \in Trips : victima'["es"] = t =>
             /\ expulsado[t] /\ t \in Range(cola_de_block) /\ t \notin Range(cola_de_block')
             /\ pc_trip[t] # "no_creado"
    BY <2>1, <2>2, SacarVictima
  <2>4. PICK t \in Trips : t = mano["es"]
    BY <1>0, <1>01, <1>10 DEF ExpulsarEnCiclo, ManosAjenas
  <2>5. /\ pc["es"] = "expulsa_en_ciclo" /\ pc' = [pc EXCEPT !["es"] = "rafaga"]
        /\ UNCHANGED <<cola_de_new, cola_de_ready, mano, expulsado, ciclo_inicial, posicion, tarea,
                      sem_tri, pendientes, pc_trip, procesador, elegido, estado, es_finalizada>>
    BY <1>10 DEF ExpulsarEnCiclo
  <2>6. pc'["es"] = "rafaga" /\ \A g \in Hilos : g # "es" => pc'[g] = pc[g]
    BY <1>0, <2>5
  <2>7. \A u \in Range(cola_de_block) : u \notin Range(cola_de_new)
    BY DEF Inductiva, UnSoloLugar
  <2>8. ASSUME NEW u \in Trips
        PROVE  Quieta(u)
    BY <2>3, <2>5, <2>6, <2>7 DEF Quieta
  <2>9. Formas' /\ Tripulantes'
    BY <1>01, <1>02, <2>5, <2>8, QuietaQueda DEF Formas, Tripulantes
  <2>10. \/ t \in Range(cola_de_block') /\ Head(cola_de_block') = t
         \/ t \notin Range(cola_de_block') /\ victima'["es"] = t
    <3>1. t \in Range(cola_de_block) /\ Head(cola_de_block) = t
      BY <1>01, <2>4, <2>5 DEF ManosAjenas
    <3>2. CASE \E i \in DOMAIN cola_de_block :
                 /\ PrimerExpulsado(cola_de_block, i) /\ cola_de_block' = RemoveAt(cola_de_block, i)
                 /\ victima' = [victima EXCEPT !["es"] = cola_de_block[i]]
      <4>1. PICK i \in DOMAIN cola_de_block :
                   /\ cola_de_block' = RemoveAt(cola_de_block, i)
                   /\ victima'["es"] = cola_de_block[i]
        BY <1>0, <3>2
      <4>2. CASE i = 1
        <5>1. cola_de_block[1] = t
          BY <1>00, <3>1, HeadTailProperties, EmptySeq DEF Range
        <5>2. t \notin Range(cola_de_block')
          BY <1>00, <4>1, <4>2, <5>1, SacarSeq
        <5> QED BY <4>1, <4>2, <5>1, <5>2
      <4>3. CASE i # 1
        BY <1>00, <3>1, <4>1, <4>3, SacarCabeza
      <4> QED BY <4>2, <4>3
    <3>3. CASE cola_de_block' = cola_de_block
      BY <3>1, <3>3
    <3> QED BY <2>1, <3>2, <3>3 DEF SacarExpulsado
  <2>11. ManosAjenas'
    BY <1>01, <2>4, <2>5, <2>6, <2>10 DEF ManosAjenas
  <2> QED BY <2>9, <2>11 DEF Ciclos
<1>11. CASE SoltarExpulsado
  <2>1. /\ pc["es"] = "rafaga" /\ estado[mano["es"]] \notin {"BLOCKED_E_S", "READY"}
        /\ victima["es"] = Nadie
        /\ mano' = [mano EXCEPT !["es"] = Nadie] /\ pc' = [pc EXCEPT !["es"] = "libre"]
        /\ UNCHANGED <<colas, victima, expulsado, es_finalizada, ciclo_inicial, posicion, sem_tri,
                      tarea, pendientes, pc_trip, procesador, elegido, estado>>
    BY <1>11 DEF SoltarExpulsado
  <2>2. PICK t \in Trips : t = mano["es"]
    BY <1>0, <1>01, <2>1 DEF ManosAjenas
  <2>3. mano'["es"] = Nadie /\ pc'["es"] = "libre" /\ Nadie # t
        /\ \A g \in Hilos : g # "es" => mano'[g] = mano[g] /\ pc'[g] = pc[g]
    BY <1>0, <2>1
  <2>4. /\ ~SinAvisar(t) /\ sem_tri[t] = 0 /\ es_finalizada = 0 /\ procesador[t] = 0
        /\ t \notin Range(cola_de_new) /\ pc_trip[t] \notin {"nace", "no_creado"}
        /\ (\A p \in Procs : mano[p] # t) /\ mano["planificador"] # t
    <3>1. ~SinAvisar(t) /\ Cuenta(t) /\ Entrada(t)
      BY <1>02, <2>2 DEF SinAvisar
    <3>2. sem_tri[t] + es_finalizada = 0
      BY <2>1, <2>2, <3>1 DEF Cuenta, SaldoDispositivo, Uno
    <3>3. sem_tri[t] = 0 /\ es_finalizada = 0
      BY <1>00, <3>2
    <3>4. /\ t \notin Range(cola_de_new) /\ (\A p \in Procs : mano[p] # t)
      BY <1>01, <2>2 DEF ManosAjenas
    <3> QED BY <2>1, <2>2, <3>1, <3>3, <3>4 DEF Entrada
  <2>5. ASSUME NEW u \in Trips, u # t
        PROVE  Quieta(u)
    BY <2>1, <2>2, <2>3, <2>5 DEF Quieta
  <2>8. Entrada(t)' /\ Coherente(t)'
    BY <1>02, <2>1, <2>2, <2>3, <2>4 DEF Entrada, Coherente
  <2>6. Formas'
    BY <1>01, <2>1 DEF Formas
  <2>7. ManosAjenas'
    BY <1>01, <2>1, <2>2, <2>3, <2>4 DEF ManosAjenas
  <2>9. Cuenta(t)'
    <3>1. SaldoProcs(t)' /\ SaldoSuelto(t)' /\ SaldoDispositivo(t)'
      BY <2>1, <2>2, <2>3, <2>4 DEF SaldoProcs, SaldoSuelto, SaldoDispositivo, Saldo, Uno
    <3>2. pc_trip'[t] # "no_creado" /\ t \notin Range(cola_de_new')
      BY <2>1, <2>4
    <3> QED BY <3>1, <3>2 DEF Cuenta
  <2> QED BY <2>5, <2>6, <2>7, <2>8, <2>9, UnoCambia
<1>12. CASE DesbloquearTripulante
  <2>1. /\ pc["es"] = "rafaga" /\ estado[mano["es"]] = "READY" /\ victima["es"] = Nadie
        /\ cola_de_block # <<>> /\ cola_de_block' = Tail(cola_de_block)
        /\ cola_de_ready' = Append(cola_de_ready, Head(cola_de_block))
        /\ mano' = [mano EXCEPT !["es"] = Nadie] /\ pc' = [pc EXCEPT !["es"] = "libre"]
        /\ UNCHANGED <<cola_de_new, victima, expulsado, es_finalizada, ciclo_inicial, posicion,
                      sem_tri, tarea, pendientes, pc_trip, procesador, elegido, estado>>
    BY <1>12 DEF DesbloquearTripulante, AReady, AgregarElemento, QuitarPrimero
  <2>2. PICK t \in Trips : t = mano["es"]
    BY <1>0, <1>01, <2>1 DEF ManosAjenas
  <2>3. mano'["es"] = Nadie /\ pc'["es"] = "libre" /\ Nadie # t
        /\ \A g \in Hilos : g # "es" => mano'[g] = mano[g] /\ pc'[g] = pc[g]
    BY <1>0, <2>1
  <2>4. /\ ~SinAvisar(t) /\ sem_tri[t] = 0 /\ es_finalizada = 0 /\ procesador[t] = 0
        /\ t \notin Range(cola_de_new) /\ pc_trip[t] \notin {"nace", "no_creado"}
        /\ (\A p \in Procs : mano[p] # t) /\ mano["planificador"] # t
    <3>1. ~SinAvisar(t) /\ Cuenta(t) /\ Entrada(t)
      BY <1>02, <2>2 DEF SinAvisar
    <3>2. sem_tri[t] + es_finalizada = 0
      BY <2>1, <2>2, <3>1 DEF Cuenta, SaldoDispositivo, Uno
    <3>3. sem_tri[t] = 0 /\ es_finalizada = 0
      BY <1>00, <3>2
    <3>4. /\ t \notin Range(cola_de_new) /\ (\A p \in Procs : mano[p] # t)
      BY <1>01, <2>2 DEF ManosAjenas
    <3> QED BY <2>1, <2>2, <3>1, <3>3, <3>4 DEF Entrada
  <2>10. t = Head(cola_de_block)
    BY <1>01, <2>1, <2>2 DEF ManosAjenas
  <2>11. /\ Range(cola_de_block') \subseteq Range(cola_de_block) /\ t \notin Range(cola_de_block')
         /\ Range(cola_de_ready') = Range(cola_de_ready) \cup {t}
    BY <1>00, <2>1, <2>10, QuitarSeq, AgregarSeq
  <2>5. ASSUME NEW u \in Trips, u # t
        PROVE  Quieta(u)
    BY <2>1, <2>2, <2>3, <2>5, <2>11 DEF Quieta
  <2>8. Entrada(t)' /\ Coherente(t)'
    BY <1>02, <2>1, <2>2, <2>3, <2>4, <2>11 DEF Entrada, Coherente
  <2>6. Formas'
    BY <1>01, <2>1 DEF Formas
  <2>7. ManosAjenas'
    BY <1>01, <2>1, <2>2, <2>3, <2>4 DEF ManosAjenas
  <2>9. Cuenta(t)'
    <3>1. SaldoProcs(t)' /\ SaldoSuelto(t)' /\ SaldoDispositivo(t)'
      BY <2>1, <2>2, <2>3, <2>4 DEF SaldoProcs, SaldoSuelto, SaldoDispositivo, Saldo, Uno
    <3>2. pc_trip'[t] # "no_creado" /\ t \notin Range(cola_de_new')
      BY <2>1, <2>4
    <3> QED BY <3>1, <3>2 DEF Cuenta
  <2> QED BY <2>5, <2>6, <2>7, <2>8, <2>9, UnoCambia
<1> QED BY <1>1, <1>2, <1>3, <1>4, <1>5, <1>6, <1>7, <1>8, <1>9, <1>10, <1>11, <1>12
           DEF Dispositivo, PasarCompuerta

\* A processor lets go of its crew, whose cycles are all answered.
LEMMA SueltaCiclo ==
  ASSUME Inductiva, Ciclos, NEW p \in Procs, pc[p] = "despacha", NEW t \in Trips, t = mano[p],
         mano' = [mano EXCEPT ![p] = Nadie], pc' = [pc EXCEPT ![p] = "libre"],
         UNCHANGED <<cola_de_new, victima, expulsado, es_finalizada, ciclo_inicial, posicion,
                     tarea, pendientes, pc_trip, sem_tri, procesador, elegido>>,
         cola_de_block' = cola_de_block \/ cola_de_block' = Append(cola_de_block, t),
         cola_de_ready' = cola_de_ready \/ cola_de_ready' = Append(cola_de_ready, t),
         t \in Range(cola_de_ready') => estado'[t] = "READY" /\ ~ciclo_inicial[t],
         t \in Range(cola_de_block') => estado'[t] = "BLOCKED_E_S",
         estado'[t] = estado[t] \/ (estado[t] = "EXEC" /\ estado'[t] = "READY"),
         \A u \in Trips : u # t => estado'[u] = estado[u]
  PROVE  Ciclos'
<1> USE HilosOK, ProcsOK, TripsOK
<1>1. /\ sem_tri \in [Trips -> Nat] /\ procesador \in [Trips -> Nat]
      /\ mano \in [Hilos -> Trips \cup {Nadie}] /\ pc \in [Hilos -> Lugares]
      /\ cola_de_block \in Seq(Trips) /\ cola_de_ready \in Seq(Trips) /\ p \in Hilos
  BY DEF Inductiva, Tipos, TypeOK
<1>2. Formas /\ ManosAjenas /\ Cuenta(t) /\ Entrada(t) /\ Coherente(t)
  BY DEF Ciclos, Tripulantes
<1>3. /\ mano'[p] = Nadie /\ pc'[p] = "libre" /\ t # Nadie
      /\ \A h \in Hilos : h # p => mano'[h] = mano[h] /\ pc'[h] = pc[h]
  BY <1>1
<1>4. /\ ~SinAvisar(t) /\ mano["es"] # t /\ t \notin Listados /\ pc_trip[t] # "no_creado"
      /\ \A q \in Procs : mano[q] = t => q = p
  <2>1. ~SinAvisar(t)
    BY <1>1 DEF SinAvisar
  <2>2. mano["es"] # t
    BY <1>2 DEF ManosAjenas
  <2>3. /\ t \notin Listados /\ pc_trip[t] # "no_creado" /\ \A q \in Procs : mano[q] = t => q = p
    BY <1>3 DEF Inductiva, UnSoloLugar, Listados, EnManos
  <2> QED BY <2>1, <2>2, <2>3
<1>5. Saldo(t) = Uno(pc_trip[t] = "nace")
  <2>1. Saldo(t) = Uno(pc_trip[t] = "nace") + 0
    BY <1>2, <1>4 DEF Cuenta, SaldoProcs, Uno
  <2> QED BY <2>1 DEF Uno
<1>6. /\ Range(cola_de_block') \subseteq Range(cola_de_block) \cup {t}
      /\ Range(cola_de_ready') \subseteq Range(cola_de_ready) \cup {t}
  <2>1. /\ Range(Append(cola_de_block, t)) = Range(cola_de_block) \cup {t}
        /\ Range(Append(cola_de_ready, t)) = Range(cola_de_ready) \cup {t}
    BY ONLY <1>1, t \in Trips, AgregarSeq
  <2> QED BY <2>1
<1>7. ASSUME NEW u \in Trips, u # t
      PROVE  Quieta(u)
  BY <1>1, <1>3, <1>6, <1>7 DEF Quieta
<1>8. Formas'
  BY <1>2 DEF Formas
<1>9. ManosAjenas'
  <2>1. ASSUME NEW u \in Trips, mano["es"] = u
        PROVE  /\ u \in Range(cola_de_block') <=> u \in Range(cola_de_block)
               /\ u \in Range(cola_de_block) => Head(cola_de_block') = Head(cola_de_block)
    <3>1. CASE cola_de_block' = cola_de_block
      BY <3>1
    <3>2. CASE cola_de_block' = Append(cola_de_block, t)
      <4>1. Range(cola_de_block') = Range(cola_de_block) \cup {t}
        BY <1>1, <3>2, AgregarSeq
      <4>2. ASSUME u \in Range(cola_de_block)
            PROVE  Head(cola_de_block') = Head(cola_de_block)
        BY <1>1, <3>2, <4>2, AgregarCabeza, EmptySeq DEF Range
      <4> QED BY <1>4, <2>1, <4>1, <4>2
    <3> QED BY <3>1, <3>2
  <2>2. ManosQuietas
    BY <1>3, <1>4, <1>6, <2>1 DEF ManosQuietas
  <2> QED BY <1>2, <2>2, ManosQuedan
<1>10. Coherente(t)'
  BY <1>2, <1>4 DEF Coherente, Listados
<1>11. Entrada(t)'
  <2>1. t \in Range(cola_de_block') => ciclo_inicial[t] /\ estado[t] = "BLOCKED_E_S"
    BY <1>2 DEF Entrada
  <2>2. pc_trip[t] # "nace" => procesador[t] = 0 /\ mano["planificador"] # t
    BY <1>1, <1>5 DEF Saldo, Uno
  <2>3. mano'["es"] # t /\ mano'["planificador"] = mano["planificador"] /\ \A q \in Procs : mano'[q] # t
    BY <1>3, <1>4
  <2> QED BY <1>2, <1>4, <2>1, <2>2, <2>3 DEF Entrada
<1>12. Cuenta(t)'
  <2>1. Saldo(t)' = Saldo(t)
    BY <1>3 DEF Saldo
  <2>2. SaldoProcs(t)' /\ SaldoDispositivo(t)' /\ SaldoSuelto(t)'
    BY <1>3, <1>4, <1>5, <2>1 DEF SaldoProcs, SaldoDispositivo, SaldoSuelto
  <2> QED BY <1>4, <2>2 DEF Cuenta, Listados
<1> QED BY <1>7, <1>8, <1>9, <1>10, <1>11, <1>12, UnoCambia

\* A processor grants a cycle to the crew it has and waits for its answer.
LEMMA ProcesadorCiclo ==
  ASSUME Inductiva, Ciclos, NEW p \in Procs, Procesador(p)
  PROVE  Ciclos'
<1> USE HilosOK, ProcsOK, TripsOK
    DEF En, EnTrip, Fase, ConsolaLibre, colas, fichas, compuerta, hilos, consola, creacion,
        propio, comun, emergencia, ajeno, planificacion, tripulacion
<1>0. /\ pc \in [Hilos -> Lugares] /\ victima \in [Hilos -> Trips \cup {Nadie}]
      /\ mano \in [Hilos -> Trips \cup {Nadie}]
  BY DEF Inductiva, Tipos, TypeOK
<1>00. /\ sem_tri \in [Trips -> Nat] /\ procesador \in [Trips -> Nat] /\ estado \in [Trips -> Estados]
       /\ cola_de_block \in Seq(Trips) /\ cola_de_ready \in Seq(Trips) /\ p \in Hilos
       /\ ~sabotaje
  BY DEF Inductiva, Tipos, TypeOK
<1>01. Formas /\ ManosAjenas
  BY DEF Ciclos
<1>02. \A t \in Trips : Cuenta(t) /\ Entrada(t) /\ Coherente(t)
  BY DEF Ciclos, Tripulantes
<1>03. ASSUME NEW t \in Trips, t = mano[p]
       PROVE  /\ ~SinAvisar(t) /\ mano["es"] # t /\ t \notin Listados /\ t # Nadie
              /\ pc_trip[t] # "no_creado" /\ (\A q \in Procs : mano[q] = t => q = p)
              /\ Saldo(t) = Uno(pc_trip[t] = "nace") + Uno(pc[p] = "espera")
  <2>1. ~SinAvisar(t) /\ t # Nadie
    BY <1>03 DEF SinAvisar
  <2>2. mano["es"] # t
    BY <1>01, <1>03 DEF ManosAjenas
  <2>3. /\ t \notin Listados /\ pc_trip[t] # "no_creado" /\ \A q \in Procs : mano[q] = t => q = p
    BY <1>03, <2>1 DEF Inductiva, UnSoloLugar, Listados, EnManos
  <2> QED BY <1>02, <1>03, <2>1, <2>2, <2>3 DEF Cuenta, SaldoProcs
<1>1. CASE TripulanteExpulsado(p)
  <2>1. victima' = [victima EXCEPT ![p] = Nadie] /\ estado' = [estado EXCEPT ![victima[p]] = "EXPULSADO"]
    BY <1>1 DEF TripulanteExpulsado
  <2>2. victima'[p] = Nadie /\ \A g \in Hilos : g # p => victima'[g] = victima[g]
    BY <1>0, <2>1
  <2> QED BY <1>1, <2>1, <2>2, AvanzaQueda DEF TripulanteExpulsado, Avanza
<1>2. CASE TomarReady(p)
  BY <1>0, <1>2, AvanzaQueda DEF TomarReady, TrasCompuerta, Avanza
<1>3. CASE LeerPausa(p)
  BY <1>0, <1>3, AvanzaQueda DEF LeerPausa, TrasCompuerta, Avanza
<1>4. CASE Drenar(p)
  BY <1>0, <1>4, AvanzaQueda DEF Drenar, TrasCompuerta, Avanza
<1>5. CASE Reanudarse(p)
  BY <1>0, <1>5, AvanzaQueda DEF Reanudarse, TrasCompuerta, Avanza
<1>6. CASE ExpulsarDeReady(p)
  <2>1. SacarExpulsado(p, cola_de_ready, cola_de_ready') /\ victima[p] = Nadie
    BY <1>6 DEF ExpulsarDeReady
  <2>2. /\ cola_de_ready \in Seq(Trips) /\ IsInjective(cola_de_ready)
        /\ Range(cola_de_ready) \subseteq Listados \cup Range(cola_de_exec)
    BY DEF Inductiva, UnSoloLugar, Tipos, TypeOK, Listados
  <2>3. /\ Range(cola_de_ready') \subseteq Range(cola_de_ready)
        /\ \A g \in Hilos : g # p => victima'[g] = victima[g]
        /\ \A t \in Trips : victima'[p] = t =>
             /\ expulsado[t] /\ t \in Range(cola_de_ready) /\ t \notin Range(cola_de_ready')
             /\ pc_trip[t] # "no_creado"
    BY <2>1, <2>2, SacarVictima
  <2>4. \A t \in Range(cola_de_ready) : t \notin Range(cola_de_new)
    BY DEF Inductiva, UnSoloLugar
  <2> QED BY <1>0, <1>6, <2>1, <2>3, <2>4, AvanzaQueda DEF ExpulsarDeReady, Avanza
<1>7. CASE RevisarReady(p)
  <2>1. SacarExpulsado(p, cola_de_ready, cola_de_ready') /\ victima[p] = Nadie
    BY <1>7 DEF RevisarReady
  <2>2. /\ cola_de_ready \in Seq(Trips) /\ IsInjective(cola_de_ready)
        /\ Range(cola_de_ready) \subseteq Listados \cup Range(cola_de_exec)
    BY DEF Inductiva, UnSoloLugar, Tipos, TypeOK, Listados
  <2>3. /\ Range(cola_de_ready') \subseteq Range(cola_de_ready)
        /\ \A g \in Hilos : g # p => victima'[g] = victima[g]
        /\ \A t \in Trips : victima'[p] = t =>
             /\ expulsado[t] /\ t \in Range(cola_de_ready) /\ t \notin Range(cola_de_ready')
             /\ pc_trip[t] # "no_creado"
    BY <2>1, <2>2, SacarVictima
  <2>4. \A t \in Range(cola_de_ready) : t \notin Range(cola_de_new)
    BY DEF Inductiva, UnSoloLugar
  <2> QED BY <1>0, <1>7, <2>1, <2>3, <2>4, AvanzaQueda DEF RevisarReady, Avanza
<1>8. CASE NadieAElegir(p)
  BY <1>0, <1>8, AvanzaQueda DEF NadieAElegir, TrasCompuerta, Avanza
<1>9. CASE AgregarAExec(p)
  BY <1>0, <1>9, AvanzaQueda DEF AgregarAExec, TrasCompuerta, Avanza
<1>10. CASE RevisarPausa(p)
  BY <1>0, <1>10, AvanzaQueda DEF RevisarPausa, TrasCompuerta, Avanza
<1>11. CASE SeguirRafaga(p)
  BY <1>0, <1>11, AvanzaQueda DEF SeguirRafaga, TrasCompuerta, Avanza
<1>12. CASE FinDeRafaga(p)
  BY <1>0, <1>12, AvanzaQueda DEF FinDeRafaga, TrasCompuerta, Avanza
<1>13. CASE SalirDeExec(p)
  BY <1>0, <1>13, AvanzaQueda DEF SalirDeExec, TrasCompuerta, Avanza
<1>14. CASE AtenderPausa(p)
  <2>1. /\ pc[p] = "atiende_pausa" /\ pc' = [pc EXCEPT ![p] = "detenido_en_rafaga"]
        /\ estado' = estado
    BY <1>00, <1>14 DEF AtenderPausa
  <2> QED BY <1>0, <1>14, <2>1, AvanzaQueda DEF AtenderPausa, Avanza
<1>15. CASE ElegirTripulante(p)
  <2>1. /\ pc[p] = "elige" /\ cola_de_ready # <<>> /\ cola_de_ready' = Tail(cola_de_ready)
        /\ mano' = [mano EXCEPT ![p] = Head(cola_de_ready)]
        /\ estado' = [estado EXCEPT ![Head(cola_de_ready)] = "EXEC"]
        /\ pc' = [pc EXCEPT ![p] = "agrega_exec"]
        /\ UNCHANGED <<cola_de_new, cola_de_block, victima, expulsado, es_finalizada, ciclo_inicial,
                      posicion, tarea, pendientes, pc_trip, sem_tri, procesador, elegido>>
    BY <1>15 DEF ElegirTripulante, QuitarPrimero
  <2>2. PICK t \in Trips : t = Head(cola_de_ready) /\ t \in Range(cola_de_ready)
    BY <1>00, <2>1, QuitarSeq
  <2>3. /\ Range(cola_de_ready') \subseteq Range(cola_de_ready) /\ t \notin Range(cola_de_ready')
    BY <1>00, <2>1, <2>2, QuitarSeq DEF Inductiva, UnSoloLugar
  <2>4. /\ estado'[t] = "EXEC" /\ \A u \in Trips : u # t => estado'[u] = estado[u]
    BY <1>00, <2>1, <2>2
  <2>5. /\ mano'[p] = t /\ pc'[p] = "agrega_exec"
        /\ \A h \in Hilos : h # p => mano'[h] = mano[h] /\ pc'[h] = pc[h]
    BY <1>0, <1>00, <2>1, <2>2
  <2>6. /\ mano[p] = Nadie /\ mano["es"] # t /\ (\A q \in Procs : mano[q] # t) /\ t # Nadie
        /\ t \notin Range(cola_de_new) \cup Range(cola_de_block) /\ pc_trip[t] # "no_creado"
    <3>1. mano[p] = Nadie
      BY <2>1 DEF Inductiva, Desocupado
    <3>2. mano["es"] # t
      BY <1>01, <2>2 DEF ManosAjenas
    <3> QED BY <2>2, <3>1, <3>2 DEF Inductiva, UnSoloLugar, Listados
  <2>7. ~SinAvisar(t) /\ ~ciclo_inicial[t] /\ Saldo(t) = Uno(pc_trip[t] = "nace")
    BY <1>02, <2>2, <2>6 DEF SinAvisar, Entrada, Cuenta, SaldoSuelto
  <2>8. ASSUME NEW u \in Trips, u # t
        PROVE  Quieta(u)
    BY <2>1, <2>3, <2>4, <2>5, <2>6, <2>8 DEF Quieta
  <2>9. Formas'
    BY <1>01, <2>1 DEF Formas
  <2>10. ManosAjenas'
    <3>1. ManosQuietas
      BY <2>1, <2>3, <2>4, <2>5, <2>6 DEF ManosQuietas
    <3> QED BY <1>01, <3>1, ManosQuedan
  <2>11. Entrada(t)' /\ Coherente(t)'
    BY <1>02, <2>1, <2>3, <2>4, <2>5, <2>6, <2>7 DEF Entrada, Coherente
  <2>12. Cuenta(t)'
    <3>1. Saldo(t)' = Saldo(t)
      BY <2>1, <2>5 DEF Saldo
    <3>2. Saldo(t)' = Uno(pc_trip'[t] = "nace") + 0
      BY <1>00, <2>1, <2>7, <3>1 DEF Uno
    <3>3. SaldoProcs(t)'
      BY <2>5, <2>6, <3>2 DEF SaldoProcs, Uno
    <3>4. SaldoSuelto(t)' /\ SaldoDispositivo(t)'
      BY <2>5, <2>6 DEF SaldoSuelto, SaldoDispositivo
    <3> QED BY <2>1, <2>6, <3>3, <3>4 DEF Cuenta
  <2> QED BY <2>8, <2>9, <2>10, <2>11, <2>12, UnoCambia
<1>16. CASE DarCiclo(p)
  <2>1. /\ pc[p] = "rafaga" /\ estado[mano[p]] = "EXEC" /\ sem_tri' = [sem_tri EXCEPT ![mano[p]] = @ + 1]
        /\ pc' = [pc EXCEPT ![p] = "espera"]
        /\ UNCHANGED <<colas, mano, victima, expulsado, es_finalizada, ciclo_inicial, posicion,
                      tarea, pendientes, pc_trip, procesador, elegido, estado>>
    BY <1>16 DEF DarCiclo
  <2>2. PICK t \in Trips : t = mano[p]
    BY <2>1 DEF Inductiva, Tipos, Manos, Ocupado, Ejecutando
  <2>3. /\ sem_tri'[t] = sem_tri[t] + 1 /\ pc'[p] = "espera"
        /\ (\A u \in Trips : u # t => sem_tri'[u] = sem_tri[u])
        /\ \A h \in Hilos : h # p => pc'[h] = pc[h]
    BY <1>0, <1>00, <2>1, <2>2
  <2>4. /\ ~SinAvisar(t) /\ mano["es"] # t /\ t \notin Listados /\ pc_trip[t] # "no_creado"
        /\ (\A q \in Procs : mano[q] = t => q = p) /\ Saldo(t) = Uno(pc_trip[t] = "nace")
        /\ ~ciclo_inicial[t]
    <3>1. Saldo(t) = Uno(pc_trip[t] = "nace") + 0
      BY <1>03, <2>1, <2>2 DEF Uno
    <3>2. ~ciclo_inicial[t]
      BY <1>02, <2>1, <2>2 DEF Entrada
    <3> QED BY <1>03, <2>2, <3>1, <3>2 DEF Uno
  <2>5. ASSUME NEW u \in Trips, u # t
        PROVE  Quieta(u)
    BY <2>1, <2>2, <2>3, <2>5 DEF Quieta
  <2>6. Formas'
    BY <1>01, <2>1 DEF Formas
  <2>7. ManosAjenas'
    <3>1. ManosQuietas
      BY <2>1, <2>3 DEF ManosQuietas
    <3> QED BY <1>01, <3>1, ManosQuedan
  <2>8. Entrada(t)' /\ Coherente(t)'
    BY <1>02, <2>1, <2>2, <2>3, <2>4 DEF Entrada, Coherente, Listados
  <2>9. Cuenta(t)'
    <3>1. Saldo(t)' = Saldo(t) + 1
      BY <1>00, <2>1, <2>2, <2>3 DEF Saldo, Uno
    <3>2. SaldoProcs(t)'
      BY <2>1, <2>3, <2>4, <3>1 DEF SaldoProcs, Uno
    <3>3. SaldoSuelto(t)' /\ SaldoDispositivo(t)'
      BY <2>1, <2>2, <2>4 DEF SaldoSuelto, SaldoDispositivo
    <3> QED BY <2>1, <2>4, <3>2, <3>3 DEF Cuenta, Listados
  <2> QED BY <2>5, <2>6, <2>7, <2>8, <2>9, UnoCambia
<1>17. CASE CicloTerminado(p)
  <2>0. /\ pc[p] = "espera" /\ procesador[mano[p]] > 0
        /\ procesador' = [procesador EXCEPT ![mano[p]] = @ - 1] /\ pc' = [pc EXCEPT ![p] = "revisa_ready"]
        /\ UNCHANGED <<cola_de_new, cola_de_ready, cola_de_block, mano, expulsado, es_finalizada,
                      ciclo_inicial, posicion, tarea, pendientes, pc_trip, sem_tri, elegido, estado>>
    BY <1>17 DEF CicloTerminado
  <2>1. SacarExpulsado(p, cola_de_exec, cola_de_exec') /\ victima[p] = Nadie
    BY <1>17 DEF CicloTerminado
  <2>2. /\ cola_de_exec \in Seq(Trips) /\ IsInjective(cola_de_exec)
        /\ Range(cola_de_exec) \subseteq Listados \cup Range(cola_de_exec)
    BY DEF Inductiva, UnSoloLugar, Tipos, TypeOK, Listados
  <2>3. /\ Range(cola_de_exec') \subseteq Range(cola_de_exec)
        /\ \A g \in Hilos : g # p => victima'[g] = victima[g]
        /\ \A t \in Trips : victima'[p] = t =>
             /\ expulsado[t] /\ t \in Range(cola_de_exec) /\ t \notin Range(cola_de_exec')
             /\ pc_trip[t] # "no_creado"
    BY <2>1, <2>2, SacarVictima
  <2>4. PICK t \in Trips : t = mano[p]
    BY <2>0 DEF Inductiva, Tipos, Manos, Ocupado, Ejecutando
  <2>5. /\ procesador'[t] = procesador[t] - 1 /\ pc'[p] = "revisa_ready"
        /\ (\A u \in Trips : u # t => procesador'[u] = procesador[u])
        /\ \A h \in Hilos : h # p => pc'[h] = pc[h]
    BY <1>0, <1>00, <2>0, <2>4
  <2>6. /\ ~SinAvisar(t) /\ mano["es"] # t /\ t \notin Listados /\ pc_trip[t] # "no_creado"
        /\ (\A q \in Procs : mano[q] = t => q = p) /\ Saldo(t) = Uno(pc_trip[t] = "nace") + 1
    BY <1>03, <2>0, <2>4 DEF Uno
  <2>7. \A u \in Range(cola_de_exec) : u \notin Range(cola_de_new)
    BY DEF Inductiva, UnSoloLugar
  <2>71. \A u \in Trips, h \in Hilos : victima'[h] = u =>
           \/ victima[h] = u
           \/ expulsado[u] /\ u \notin Range(cola_de_new') /\ pc_trip[u] # "no_creado"
    BY <2>0, <2>3, <2>7
  <2>8. ASSUME NEW u \in Trips, u # t
        PROVE  Quieta(u)
    BY <2>0, <2>4, <2>5, <2>71, <2>8 DEF Quieta
  <2>9. Formas'
    BY <1>01, <2>0 DEF Formas
  <2>10. ManosAjenas'
    <3>1. ManosQuietas
      BY <2>0, <2>3, <2>5 DEF ManosQuietas
    <3> QED BY <1>01, <3>1, ManosQuedan
  <2>11. Entrada(t)' /\ Coherente(t)'
    BY <1>02, <2>0, <2>71, <2>5, <2>6 DEF Entrada, Coherente, Listados
  <2>12. Cuenta(t)'
    <3>1. Saldo(t)' = Saldo(t) - 1
      BY <1>00, <2>0, <2>4, <2>5 DEF Saldo, Uno
    <3>2. SaldoProcs(t)'
      BY <2>0, <2>5, <2>6, <3>1 DEF SaldoProcs, Uno
    <3>3. SaldoSuelto(t)' /\ SaldoDispositivo(t)'
      BY <2>0, <2>4, <2>6 DEF SaldoSuelto, SaldoDispositivo
    <3> QED BY <2>0, <2>6, <3>2, <3>3 DEF Cuenta, Listados
  <2> QED BY <2>8, <2>9, <2>10, <2>11, <2>12, UnoCambia
<1>18. CASE DespacharBloqueado(p)
  <2>1. /\ pc[p] = "despacha" /\ estado[mano[p]] = "BLOCKED_E_S"
        /\ cola_de_block' = Append(cola_de_block, mano[p])
        /\ mano' = [mano EXCEPT ![p] = Nadie] /\ pc' = [pc EXCEPT ![p] = "libre"]
        /\ UNCHANGED <<cola_de_new, cola_de_ready, victima, expulsado, es_finalizada, ciclo_inicial,
                      posicion, tarea, pendientes, pc_trip, sem_tri, procesador, elegido, estado>>
    BY <1>18 DEF DespacharBloqueado, Soltar, AgregarElemento
  <2>2. PICK t \in Trips : t = mano[p]
    BY <2>1 DEF Inductiva, Tipos, Manos, Ocupado
  <2>3. t \notin Range(cola_de_ready)
    BY <1>03, <2>2 DEF Listados
  <2> QED BY ONLY Inductiva, Ciclos, p \in Procs, <2>1, <2>2, <2>3, SueltaCiclo
<1>19. CASE DespacharDesalojado(p)
  <2>1. /\ pc[p] = "despacha" /\ estado[mano[p]] = "EXEC"
        /\ estado' = [estado EXCEPT ![mano[p]] = "READY"]
        /\ cola_de_ready' = Append(cola_de_ready, mano[p])
        /\ mano' = [mano EXCEPT ![p] = Nadie] /\ pc' = [pc EXCEPT ![p] = "libre"]
        /\ UNCHANGED <<cola_de_new, cola_de_block, victima, expulsado, es_finalizada, ciclo_inicial,
                      posicion, tarea, pendientes, pc_trip, sem_tri, procesador, elegido>>
    BY <1>19 DEF DespacharDesalojado, AReady, Soltar, AgregarElemento
  <2>2. PICK t \in Trips : t = mano[p]
    BY <2>1 DEF Inductiva, Tipos, Manos, Ocupado
  <2>3. t \notin Range(cola_de_block) /\ ~ciclo_inicial[t]
    BY <1>02, <1>03, <2>1, <2>2 DEF Listados, Entrada
  <2>4. estado'[t] = "READY" /\ \A u \in Trips : u # t => estado'[u] = estado[u]
    BY <1>00, <2>1, <2>2
  <2> QED BY ONLY Inductiva, Ciclos, p \in Procs, <2>1, <2>2, <2>3, <2>4, SueltaCiclo
<1>20. CASE DespacharSinCola(p)
  <2>1. /\ pc[p] = "despacha"
        /\ mano' = [mano EXCEPT ![p] = Nadie] /\ pc' = [pc EXCEPT ![p] = "libre"]
        /\ UNCHANGED <<cola_de_new, cola_de_ready, cola_de_block, victima, expulsado, es_finalizada,
                      ciclo_inicial, posicion, tarea, pendientes, pc_trip, sem_tri, procesador,
                      elegido, estado>>
    BY <1>20 DEF DespacharSinCola, Soltar
  <2>2. PICK t \in Trips : t = mano[p]
    BY <2>1 DEF Inductiva, Tipos, Manos, Ocupado
  <2>3. t \notin Range(cola_de_block) /\ t \notin Range(cola_de_ready)
    BY <1>03, <2>2 DEF Listados
  <2> QED BY ONLY Inductiva, Ciclos, p \in Procs, <2>1, <2>2, <2>3, SueltaCiclo
<1> QED BY <1>1, <1>2, <1>3, <1>4, <1>5, <1>6, <1>7, <1>8, <1>9, <1>10, <1>11, <1>12, <1>13,
           <1>14, <1>15, <1>16, <1>17, <1>18, <1>19, <1>20 DEF Procesador, PasarCompuerta

\* Every step of the scheduler keeps the accounts of the cycles.
LEMMA CiclosPaso == Inductiva /\ Ciclos /\ [Next]_vars => Ciclos'
<1> SUFFICES ASSUME Inductiva, Ciclos, [Next]_vars PROVE Ciclos'
  OBVIOUS
<1>1. CASE UNCHANGED vars
  BY <1>1, HilosOK, AvanzaQueda
     DEF vars, colas, fichas, hilos, consola, creacion, propio, comun, emergencia, Avanza
<1>2. CASE Next
  BY <1>2, ConsolaCiclo, GestorCiclo, PlanificadorCiclo, ProcesadorCiclo, DispositivoCiclo,
     TripulanteCiclo DEF Next
<1> QED BY <1>1, <1>2

\* For any number of processors, crews and commands, under FIFO or RR: no crew is granted a
\* cycle before it has answered for the last, and nobody answers for a cycle nobody granted.
THEOREM SpecCicloUnico == Spec => []CicloUnico
<1>1. Init => Inductiva /\ Ciclos
  BY InductivaInicial, CiclosInicial
<1>2. Inductiva /\ Ciclos /\ [Next]_vars => (Inductiva /\ Ciclos)'
  BY InductivaPaso, CiclosPaso
<1>3. Inductiva /\ Ciclos => CicloUnico
  BY CiclosBasta
<1> QED BY <1>1, <1>2, <1>3, PTL DEF Spec

\* For the same: the list a crew is in and its estado agree, expulsions apart, and the crew
\* the device has finished with is the one it takes out of cola_de_block.
THEOREM SpecColaCoherente == Spec => []ColaCoherente
<1>1. Init => Inductiva /\ Ciclos
  BY InductivaInicial, CiclosInicial
<1>2. Inductiva /\ Ciclos /\ [Next]_vars => (Inductiva /\ Ciclos)'
  BY InductivaPaso, CiclosPaso
<1>3. Inductiva /\ Ciclos => ColaCoherente
  BY CiclosBasta
<1> QED BY <1>1, <1>2, <1>3, PTL DEF Spec

-----------------------------------------------------------------------------
(* A crew leaves with EXIT.                                                  *)

\* A list of tasks as the files have them: the last one is of the CPU.
TerminaEnCPU(pedido) == pedido.tareas # <<>> /\ ~Last(pedido.tareas).es
TerminanEnCPU == \A i \in DOMAIN Pedidos : TerminaEnCPU(Pedidos[i])

DeCPU(s) == s # <<>> => ~Last(s).es

\* The tasks a crew has done, the one it has and those it has not asked for.
Total(t) == realizadas[t] + Len(pendientes[t]) + Uno(pc_trip[t] = "ciclo")

\* The requests that wait or are being served, and the patotas written down.
Registro ==
  /\ \A i \in DOMAIN cola_de_iniciar_patotas : TerminaEnCPU(cola_de_iniciar_patotas[i])
  /\ lote.fase # "libre" => TerminaEnCPU(lote.pedido)
  /\ lista_de_patotas \in Seq(Nat) /\ patota \in [Trips -> Nat] /\ realizadas \in [Trips -> Nat]

\* The tasks of a crew are those of its patota, or of the one being created.
DeSuPatota(t) ==
  /\ pc_trip[t] = "no_creado" => realizadas[t] = 0
  /\ pc_trip[t] # "no_creado" =>
       /\ DeCPU(pendientes[t])
       /\ \/ patota[t] \in DOMAIN lista_de_patotas /\ Total(t) = lista_de_patotas[patota[t]]
          \/ /\ patota[t] = Len(lista_de_patotas) + 1 /\ lote.fase = "crea"
             /\ Total(t) = Len(lote.pedido.tareas)

\* A crew that has none left has done the last, and that one wrote EXIT.
Acabada(t) ==
  /\ pc_trip[t] = "nace" => pendientes[t] # <<>>
  /\ pc_trip[t] = "ciclo" /\ pendientes[t] = <<>> => ~tarea[t].es
  /\ pc_trip[t] \in {"terminada", "pide", "fin"} /\ pendientes[t] = <<>> =>
       estado[t] = "EXIT" \/ expulsado[t]
  /\ pc_trip[t] = "fin" => pendientes[t] = <<>> \/ expulsado[t]

Camino == Registro /\ \A t \in Trips : DeSuPatota(t) /\ Acabada(t)

\* A crew that nothing of this changes for.
LEMMA AcabadaIgual ==
  ASSUME NEW t \in Trips, Acabada(t), pc_trip'[t] = pc_trip[t], pendientes'[t] = pendientes[t],
         tarea'[t] = tarea[t], expulsado[t] => expulsado'[t],
         estado[t] = "EXIT" => estado'[t] = "EXIT" \/ expulsado'[t]
  PROVE  Acabada(t)'
BY DEF Acabada

LEMMA PatotaIgual ==
  ASSUME NEW t \in Trips, DeSuPatota(t), pc_trip'[t] = pc_trip[t], pendientes'[t] = pendientes[t],
         realizadas'[t] = realizadas[t], patota'[t] = patota[t],
         UNCHANGED lista_de_patotas, UNCHANGED lote \/ lote.fase # "crea" \/
           (lote'.fase = "crea" /\ lote'.pedido = lote.pedido)
  PROVE  DeSuPatota(t)'
<1>1. Total(t)' = Total(t)
  BY DEF Total
<1> QED BY <1>1 DEF DeSuPatota

\* The threads that plan touch nothing of what a crew has to do, and estado only of a crew that
\* has not left.
LEMMA PlanCamino ==
  ASSUME Camino, UNCHANGED <<creacion, propio>>, \A t \in Trips : expulsado[t] => expulsado'[t],
         \A t \in Trips : estado[t] = "EXIT" => estado'[t] = "EXIT" \/ expulsado'[t]
  PROVE  Camino'
<1>1. UNCHANGED <<cola_de_iniciar_patotas, lote, lista_de_patotas, pc_trip, realizadas, patota,
                  tarea, pendientes>>
  BY DEF creacion, propio
<1>2. Registro'
  BY <1>1 DEF Camino, Registro
<1>3. \A t \in Trips : DeSuPatota(t)'
  BY <1>1, PatotaIgual DEF Camino
<1>4. \A t \in Trips : Acabada(t)'
  BY <1>1, AcabadaIgual DEF Camino
<1> QED BY <1>2, <1>3, <1>4 DEF Camino

\* estado is written EXPULSADO only of a crew the user expelled.
LEMMA ExpulsadoQueda ==
  ASSUME Inductiva, Ciclos, Camino, NEW h \in Hilos, TripulanteExpulsado(h)
  PROVE  Camino'
<1>1. UNCHANGED <<creacion, propio>> /\ expulsado' = expulsado
  BY DEF TripulanteExpulsado, ajeno
<1>2. ASSUME NEW t \in Trips, estado[t] = "EXIT" PROVE estado'[t] = "EXIT" \/ expulsado[t]
  <2>1. estado \in [Trips -> Estados]
    BY DEF Inductiva, Tipos, TypeOK
  <2>2. victima[h] = t => expulsado[t]
    BY DEF Ciclos, Tripulantes, Coherente
  <2> QED BY <1>2, <2>1, <2>2 DEF TripulanteExpulsado
<1>3. \A t \in Trips : expulsado[t] => expulsado'[t]
  BY <1>1
<1>4. \A t \in Trips : estado[t] = "EXIT" => estado'[t] = "EXIT" \/ expulsado'[t]
  BY <1>1, <1>2
<1> QED BY <1>1, <1>3, <1>4, PlanCamino

LEMMA LargoPlazoCamino ==
  ASSUME Inductiva, Ciclos, Camino, PlanificadorLargoPlazo
  PROVE  Camino'
<1> USE DEF ajeno, comun
<1>0. estado \in [Trips -> Estados] /\ cola_de_new \in Seq(Trips)
  BY DEF Inductiva, Tipos, TypeOK
<1>1. CASE TripulanteExpulsado("planificador")
  BY <1>1, HilosOK, ExpulsadoQueda
<1>2. CASE TomarNew \/ PasarCompuerta("planificador") \/ ExpulsarDeNew \/ AvisarReady
  <2>1. UNCHANGED <<creacion, propio, estado, expulsado>>
    BY <1>2 DEF TomarNew, PasarCompuerta, LeerPausa, Drenar, Reanudarse, ExpulsarDeNew, AvisarReady
  <2> QED BY <2>1, PlanCamino
<1>3. CASE MoverAReady
  <2>1. UNCHANGED <<creacion, propio, expulsado>>
    BY <1>3 DEF MoverAReady
  <2>2. CASE cola_de_new = <<>>
    <3>1. UNCHANGED estado
      BY <1>3, <2>2 DEF MoverAReady
    <3> QED BY <2>1, <3>1, PlanCamino
  <2>3. CASE cola_de_new # <<>>
    <3>1. Head(cola_de_new) \in Trips /\ Head(cola_de_new) \in Range(cola_de_new)
      BY <1>0, <2>3, QuitarSeq
    <3>2. estado[Head(cola_de_new)] = "NEW"
      BY <3>1 DEF Ciclos, Tripulantes, Coherente
    <3>3. estado' = [estado EXCEPT ![Head(cola_de_new)] = "READY"]
      BY <1>3, <2>3 DEF MoverAReady
    <3>4. \A t \in Trips : estado[t] = "EXIT" => estado'[t] = "EXIT"
      BY <1>0, <3>2, <3>3
    <3> QED BY <2>1, <3>4, PlanCamino
  <2> QED BY <2>2, <2>3
<1> QED BY <1>1, <1>2, <1>3 DEF PlanificadorLargoPlazo

LEMMA ProcesadorCamino ==
  ASSUME Inductiva, Ciclos, Camino, NEW p \in Procs, Procesador(p)
  PROVE  Camino'
<1> USE DEF ajeno, comun
<1>0. /\ estado \in [Trips -> Estados] /\ cola_de_ready \in Seq(Trips) /\ ~sabotaje /\ p \in Hilos
  BY ProcsOK DEF Inductiva, Tipos, TypeOK
<1>1. CASE TripulanteExpulsado(p)
  BY <1>0, <1>1, ExpulsadoQueda
<1>2. CASE ElegirTripulante(p)
  <2>1. UNCHANGED <<creacion, propio, expulsado>>
    BY <1>2 DEF ElegirTripulante
  <2>2. Head(cola_de_ready) \in Trips /\ Head(cola_de_ready) \in Range(cola_de_ready)
    BY <1>0, <1>2, QuitarSeq DEF ElegirTripulante
  <2>3. estado[Head(cola_de_ready)] = "READY" \/ expulsado[Head(cola_de_ready)]
    BY <2>2 DEF Ciclos, Tripulantes, Coherente
  <2>4. estado' = [estado EXCEPT ![Head(cola_de_ready)] = "EXEC"]
    BY <1>2 DEF ElegirTripulante
  <2>5. \A t \in Trips : estado[t] = "EXIT" => estado'[t] = "EXIT" \/ expulsado[t]
    BY <1>0, <2>3, <2>4
  <2> QED BY <2>1, <2>5, PlanCamino
<1>3. CASE DespacharDesalojado(p)
  <2>1. UNCHANGED <<creacion, propio, expulsado>>
    BY <1>3 DEF DespacharDesalojado
  <2>2. estado[mano[p]] = "EXEC" /\ estado' = [estado EXCEPT ![mano[p]] = "READY"]
    BY <1>3 DEF DespacharDesalojado
  <2>3. \A t \in Trips : estado[t] = "EXIT" => estado'[t] = "EXIT"
    BY <1>0, <2>2
  <2> QED BY <2>1, <2>3, PlanCamino
<1>4. ASSUME \/ TomarReady(p) \/ PasarCompuerta(p) \/ ExpulsarDeReady(p) \/ NadieAElegir(p)
             \/ AgregarAExec(p) \/ DarCiclo(p) \/ CicloTerminado(p)
      PROVE  Camino'
  <2>1. UNCHANGED <<creacion, propio, estado, expulsado>>
    BY <1>4 DEF TomarReady, PasarCompuerta, LeerPausa, Drenar, Reanudarse, ExpulsarDeReady,
         NadieAElegir, AgregarAExec, DarCiclo, CicloTerminado
  <2> QED BY <2>1, PlanCamino
<1>5. ASSUME \/ RevisarReady(p) \/ RevisarPausa(p) \/ AtenderPausa(p) \/ SeguirRafaga(p)
             \/ FinDeRafaga(p) \/ SalirDeExec(p) \/ DespacharBloqueado(p) \/ DespacharSinCola(p)
      PROVE  Camino'
  <2>1. UNCHANGED <<creacion, propio, estado, expulsado>>
    BY <1>0, <1>5 DEF RevisarReady, RevisarPausa, AtenderPausa, SeguirRafaga, FinDeRafaga, SalirDeExec,
         DespacharBloqueado, DespacharSinCola
  <2> QED BY <2>1, PlanCamino
<1> QED BY <1>1, <1>2, <1>3, <1>4, <1>5 DEF Procesador

LEMMA DispositivoCamino ==
  ASSUME Inductiva, Ciclos, Camino, Dispositivo
  PROVE  Camino'
<1> USE DEF ajeno, comun, tripulacion
<1>1. CASE TripulanteExpulsado("es")
  BY <1>1, HilosOK, ExpulsadoQueda
<1>2. CASE ~TripulanteExpulsado("es")
  <2>1. UNCHANGED <<creacion, propio, estado, expulsado>>
    BY <1>2 DEF Dispositivo, TomarBlock, ExpulsarDeBlock, ElegirBloqueado, DarCicloES, CicloESTerminado,
         PasarCompuerta, LeerPausa, Drenar, Reanudarse, ExpulsarEnCiclo, DesbloquearTripulante,
         SoltarExpulsado
  <2> QED BY <2>1, PlanCamino
<1> QED BY <1>1, <1>2

\* What the user types changes no crew: a request that is queued is one of Pedidos.
LEMMA ConsolaCamino ==
  ASSUME Inductiva, Camino, TerminanEnCPU, Consola \/ \E h \in Hilos : Reanudar(h)
  PROVE  Camino'
<1> USE DEF planificacion, tripulacion, ajeno, comun
<1>1. CASE IniciarPatota
  <2>1. /\ UNCHANGED <<lote, lista_de_patotas, propio, estado, expulsado>>
        /\ cola_de_iniciar_patotas' = Append(cola_de_iniciar_patotas, Pedidos[tipeados + 1])
        /\ tipeados < Len(Pedidos)
    BY <1>1 DEF IniciarPatota
  <2>2. TerminaEnCPU(Pedidos[tipeados + 1]) /\ Pedidos[tipeados + 1] \in Pedido
    <3>1. tipeados + 1 \in DOMAIN Pedidos
      BY <2>1, ConstantesOK DEF Inductiva, Tipos, TypeOK
    <3> QED BY <3>1, ConstantesOK DEF TerminanEnCPU
  <2>3. Registro'
    <3>1. \A i \in DOMAIN cola_de_iniciar_patotas' : TerminaEnCPU(cola_de_iniciar_patotas'[i])
      <4>1. cola_de_iniciar_patotas \in Seq(Pedido)
        BY DEF Inductiva, Tipos, TypeOK
      <4>2. \A i \in DOMAIN cola_de_iniciar_patotas : TerminaEnCPU(cola_de_iniciar_patotas[i])
        BY DEF Camino, Registro
      <4>3. DOMAIN cola_de_iniciar_patotas' = 1..Len(cola_de_iniciar_patotas) + 1
        BY <2>1, <2>2, <4>1
      <4>4. \A i \in 1..Len(cola_de_iniciar_patotas) + 1 : cola_de_iniciar_patotas'[i] =
              IF i <= Len(cola_de_iniciar_patotas) THEN cola_de_iniciar_patotas[i]
                                                   ELSE Pedidos[tipeados + 1]
        BY <2>1, <2>2, <4>1
      <4> QED BY <2>2, <4>1, <4>2, <4>3, <4>4
    <3> QED BY <2>1, <3>1 DEF Camino, Registro, propio, TerminaEnCPU
  <2>4. \A t \in Trips : DeSuPatota(t)' /\ Acabada(t)'
    BY <2>1, PatotaIgual, AcabadaIgual DEF Camino, propio
  <2> QED BY <2>3, <2>4 DEF Camino
<1>2. ASSUME NEW t \in Expulsables, ExpulsarTripulante(t) PROVE Camino'
  <2>1. UNCHANGED <<creacion, propio, estado>> /\ expulsado' = [expulsado EXCEPT ![t] = TRUE]
    BY <1>2 DEF ExpulsarTripulante
  <2>2. \A u \in Trips : expulsado[u] => expulsado'[u]
    BY <2>1 DEF Inductiva, Tipos, TypeOK
  <2> QED BY <2>1, <2>2, PlanCamino
<1>3. ASSUME PausarPlanificacion \/ IniciarPlanificacion \/ \E h \in Hilos : Reanudar(h)
      PROVE  Camino'
  <2>1. UNCHANGED <<creacion, propio, estado, expulsado>>
    BY <1>3 DEF PausarPlanificacion, IniciarPlanificacion, Reanudar
  <2> QED BY <2>1, PlanCamino
<1> QED BY <1>1, <1>2, <1>3 DEF Consola

\* The patota being created is written down when all its crews have its tasks.
LEMMA GestorCamino ==
  ASSUME Inductiva, Ciclos, Camino, Gestor
  PROVE  Camino'
<1> USE DEF Fase, planificacion, tripulacion, comun
<1>0. /\ lote \in [fase : {"libre", "memoria", "crea"}, quedan : Nat, pedido : Pedido]
      /\ cola_de_iniciar_patotas \in Seq(Pedido) /\ lista_de_patotas \in Seq(Nat)
      /\ pc_trip \in [Trips -> LugaresTrip] /\ Registro
      /\ pendientes \in [Trips -> Seq(Tarea)] /\ patota \in [Trips -> Nat]
  BY DEF Inductiva, Tipos, TypeOK, Camino, Registro, Ciclos, Formas
<1>1. CASE PedirMemoria
  <2>1. /\ UNCHANGED <<lista_de_patotas, propio, estado, expulsado>> /\ lote.fase = "libre"
        /\ cola_de_iniciar_patotas # <<>>
        /\ cola_de_iniciar_patotas' = Tail(cola_de_iniciar_patotas)
        /\ lote' = [fase |-> "memoria", quedan |-> Head(cola_de_iniciar_patotas).cantidad,
                    pedido |-> Head(cola_de_iniciar_patotas)]
    BY <1>1 DEF PedirMemoria
  <2>2. lote'.pedido = cola_de_iniciar_patotas[1] /\ 1 \in DOMAIN cola_de_iniciar_patotas
    BY <1>0, <2>1
  <2>3. TerminaEnCPU(lote'.pedido)
    BY <1>0, <2>2 DEF Registro
  <2>4. \A i \in DOMAIN cola_de_iniciar_patotas' :
          i + 1 \in DOMAIN cola_de_iniciar_patotas
          /\ cola_de_iniciar_patotas'[i] = cola_de_iniciar_patotas[i + 1]
    BY <1>0, <2>1
  <2>5. Registro'
    BY <1>0, <2>1, <2>3, <2>4 DEF Registro, propio, TerminaEnCPU
  <2>6. \A t \in Trips : DeSuPatota(t)' /\ Acabada(t)'
    BY <2>1, PatotaIgual, AcabadaIgual DEF Camino, propio
  <2> QED BY <2>5, <2>6 DEF Camino
<1>2. CASE MemoriaDenegada \/ MemoriaConcedida
  <2>1. /\ UNCHANGED <<cola_de_iniciar_patotas, lista_de_patotas, propio, estado, expulsado>>
        /\ lote.fase = "memoria"
        /\ lote' = SinLote \/ lote' = [lote EXCEPT !.fase = "crea"]
    BY <1>2 DEF MemoriaDenegada, MemoriaConcedida
  <2>2. lote'.fase # "libre" => lote'.pedido = lote.pedido
    BY <1>0, <2>1 DEF SinLote
  <2>3. Registro'
    BY <1>0, <2>1, <2>2 DEF Registro, propio
  <2>4. \A t \in Trips : DeSuPatota(t)' /\ Acabada(t)'
    BY <2>1, PatotaIgual, AcabadaIgual DEF Camino, propio
  <2> QED BY <2>3, <2>4 DEF Camino
<1>3. CASE CrearTripulante
  <2>0. PICK t : t = id_tcb - lote.quedan
    OBVIOUS
  <2>1. t \in Trips /\ pc_trip[t] = "no_creado"
    <3>1. lote.quedan > 0 /\ lote.quedan < id_tcb /\ lote.quedan \in Nat /\ id_tcb \in 1..MaxTrips + 1
      BY <1>3 DEF CrearTripulante, Inductiva, Tipos, TypeOK, Reserva
    <3>2. t \in Trips
      BY <2>0, <3>1, ConstantesOK DEF Trips
    <3> QED BY <2>0, <3>1, <3>2 DEF Inductiva, Tipos, Reserva
  <2>2. /\ UNCHANGED <<cola_de_iniciar_patotas, lista_de_patotas, realizadas, tarea, estado, expulsado>>
        /\ lote.fase = "crea" /\ lote' = [lote EXCEPT !.quedan = @ - 1]
        /\ pc_trip' = [pc_trip EXCEPT ![t] = "nace"]
        /\ patota' = [patota EXCEPT ![t] = Len(lista_de_patotas) + 1]
        /\ pendientes' = [pendientes EXCEPT ![t] = lote.pedido.tareas]
    BY <1>3, <2>0 DEF CrearTripulante
  <2>3. lote'.fase = "crea" /\ lote'.pedido = lote.pedido /\ TerminaEnCPU(lote.pedido)
    BY <1>0, <2>2 DEF Registro
  <2>4. Registro'
    <3>1. patota' \in [Trips -> Nat]
      <4>1. Len(lista_de_patotas) + 1 \in Nat
        BY <1>0
      <4> QED BY <1>0, <2>2, <4>1
    <3> QED BY <1>0, <2>2, <2>3, <3>1 DEF Registro
  <2>5. ASSUME NEW u \in Trips \ {t} PROVE DeSuPatota(u)' /\ Acabada(u)'
    <3>1. pc_trip'[u] = pc_trip[u] /\ pendientes'[u] = pendientes[u] /\ patota'[u] = patota[u]
      BY <1>0, <2>1, <2>2
    <3> QED BY <2>2, <2>3, <3>1, PatotaIgual, AcabadaIgual DEF Camino
  <2>6. /\ pc_trip'[t] = "nace" /\ pendientes'[t] = lote.pedido.tareas
        /\ patota'[t] = Len(lista_de_patotas) + 1 /\ realizadas'[t] = 0
    BY <1>0, <2>1, <2>2 DEF Camino, DeSuPatota
  <2>7. Acabada(t)'
    BY <2>3, <2>6 DEF Acabada, TerminaEnCPU
  <2>8. DeSuPatota(t)'
    <3>1. lote.pedido.tareas \in Seq(Tarea)
      BY <1>0 DEF Pedido
    <3>2. Total(t)' = Len(lote'.pedido.tareas)
      BY <2>3, <2>6, <3>1 DEF Total, Uno
    <3>3. DeCPU(pendientes'[t])
      BY <2>3, <2>6 DEF DeCPU, TerminaEnCPU
    <3> QED BY <2>2, <2>3, <2>6, <3>2, <3>3 DEF DeSuPatota, DeCPU
  <2> QED BY <2>4, <2>5, <2>7, <2>8 DEF Camino
<1>4. CASE RegistrarPatota
  <2>1. /\ UNCHANGED <<cola_de_iniciar_patotas, propio, estado, expulsado>> /\ lote.fase = "crea"
        /\ lista_de_patotas' = Append(lista_de_patotas, Len(lote.pedido.tareas)) /\ lote' = SinLote
    BY <1>4 DEF RegistrarPatota
  <2>2. Len(lote.pedido.tareas) \in Nat
    BY <1>0 DEF Pedido
  <2>3. /\ lista_de_patotas' \in Seq(Nat) /\ DOMAIN lista_de_patotas \subseteq DOMAIN lista_de_patotas'
        /\ \A i \in DOMAIN lista_de_patotas : lista_de_patotas'[i] = lista_de_patotas[i]
        /\ Len(lista_de_patotas) + 1 \in DOMAIN lista_de_patotas'
        /\ lista_de_patotas'[Len(lista_de_patotas) + 1] = Len(lote.pedido.tareas)
    BY <1>0, <2>1, <2>2
  <2>4. Registro'
    BY <1>0, <2>1, <2>3 DEF Registro, propio, SinLote
  <2>5. ASSUME NEW t \in Trips PROVE DeSuPatota(t)'
    <3>1. Total(t)' = Total(t) /\ DeSuPatota(t)
      BY <2>1 DEF Total, propio, Camino
    <3> QED BY <2>1, <2>3, <3>1 DEF DeSuPatota, propio
  <2>6. \A t \in Trips : Acabada(t)'
    BY <2>1, AcabadaIgual DEF Camino, propio
  <2> QED BY <2>4, <2>5, <2>6 DEF Camino
<1> QED BY <1>1, <1>2, <1>3, <1>4 DEF Gestor

\* A crew that goes on with the tasks it had.
LEMMA MismaPatota ==
  ASSUME NEW t \in Trips, DeSuPatota(t), pc_trip[t] # "no_creado", pc_trip'[t] # "no_creado",
         UNCHANGED creacion, patota'[t] = patota[t], Total(t)' = Total(t), DeCPU(pendientes'[t])
  PROVE  DeSuPatota(t)'
<1>1. UNCHANGED <<lote, lista_de_patotas>>
  BY DEF creacion
<1> QED BY <1>1 DEF DeSuPatota, DeCPU

\* A step of one crew leaves the others as they are.
LEMMA SoloUna ==
  ASSUME Camino, NEW t \in Trips, UNCHANGED <<creacion, patota, expulsado>>,
         realizadas' \in [Trips -> Nat], DeSuPatota(t)', Acabada(t)',
         \A u \in Trips \ {t} : /\ pc_trip'[u] = pc_trip[u] /\ pendientes'[u] = pendientes[u]
                                /\ realizadas'[u] = realizadas[u] /\ tarea'[u] = tarea[u]
                                /\ estado'[u] = estado[u]
  PROVE  Camino'
<1>1. UNCHANGED <<cola_de_iniciar_patotas, lote, lista_de_patotas>>
  BY DEF creacion
<1>2. Registro'
  BY <1>1 DEF Camino, Registro
<1>3. \A u \in Trips \ {t} : DeSuPatota(u)' /\ Acabada(u)'
  BY <1>1, PatotaIgual, AcabadaIgual DEF Camino
<1> QED BY <1>2, <1>3 DEF Camino

\* The thread of a crew: with the last of its tasks, which is of the CPU, it writes EXIT.
LEMMA TripulanteCamino ==
  ASSUME Inductiva, Ciclos, Camino, NEW t \in Trips, Tripulante(t)
  PROVE  Camino'
<1> USE DEF planificacion, EnTrip
<1>0. /\ pc_trip \in [Trips -> LugaresTrip] /\ estado \in [Trips -> Estados]
      /\ pendientes \in [Trips -> Seq(Tarea)] /\ realizadas \in [Trips -> Nat]
      /\ tarea \in [Trips -> [es : BOOLEAN, pos : Punto, tiempo : Int]]
      /\ elegido # t /\ DeSuPatota(t) /\ Acabada(t) /\ lista_de_patotas \in Seq(Nat)
  BY TripsOK DEF Inductiva, Tipos, TypeOK, Camino, Registro, Ciclos, Formas
<1>1. CASE Nacer(t)
  <2>1. /\ UNCHANGED <<creacion, patota, expulsado, realizadas, tarea, pendientes, estado>>
        /\ pc_trip[t] = "nace" /\ pc_trip' = [pc_trip EXCEPT ![t] = "pide"]
    BY <1>1 DEF Nacer
  <2>2. pc_trip'[t] = "pide" /\ \A u \in Trips \ {t} : pc_trip'[u] = pc_trip[u]
    BY <1>0, <2>1
  <2>3. Acabada(t)'
    BY <1>0, <2>1, <2>2 DEF Acabada
  <2>4. Total(t)' = Total(t) /\ DeCPU(pendientes'[t])
    BY <1>0, <2>1, <2>2 DEF Total, Uno, DeSuPatota
  <2>5. DeSuPatota(t)'
    BY <1>0, <2>1, <2>2, <2>4, MismaPatota
  <2> QED BY <1>0, <2>1, <2>2, <2>3, <2>5, SoloUna
<1>2. CASE PedirTarea(t)
  <2>1. /\ UNCHANGED <<creacion, patota, expulsado, realizadas, estado>> /\ pc_trip[t] = "pide"
    BY <1>2 DEF PedirTarea, comun
  <2>2. CASE pendientes[t] = <<>>
    <3>1. pc_trip' = [pc_trip EXCEPT ![t] = "fin"] /\ UNCHANGED <<tarea, pendientes>>
      BY <1>2, <2>2 DEF PedirTarea
    <3>2. pc_trip'[t] = "fin" /\ \A u \in Trips \ {t} : pc_trip'[u] = pc_trip[u]
      BY <1>0, <3>1
    <3>3. Acabada(t)'
      BY <1>0, <2>1, <2>2, <3>1, <3>2 DEF Acabada
    <3>4. Total(t)' = Total(t) /\ DeCPU(pendientes'[t])
      BY <1>0, <2>1, <3>1, <3>2 DEF Total, Uno, DeSuPatota
    <3>5. DeSuPatota(t)'
      BY <1>0, <2>1, <3>2, <3>4, MismaPatota
    <3> QED BY <1>0, <2>1, <3>1, <3>2, <3>3, <3>5, SoloUna
  <2>3. CASE pendientes[t] # <<>>
    <3>1. /\ pc_trip' = [pc_trip EXCEPT ![t] = "ciclo"]
          /\ tarea' = [tarea EXCEPT ![t] = Head(pendientes[t])]
          /\ pendientes' = [pendientes EXCEPT ![t] = Tail(@)]
      BY <1>2, <2>3 DEF PedirTarea
    <3>2. /\ pc_trip'[t] = "ciclo" /\ tarea'[t] = Head(pendientes[t])
          /\ pendientes'[t] = Tail(pendientes[t])
          /\ \A u \in Trips \ {t} : /\ pc_trip'[u] = pc_trip[u] /\ tarea'[u] = tarea[u]
                                     /\ pendientes'[u] = pendientes[u]
      BY <1>0, <3>1
    <3>3. PICK s \in Seq(Tarea) : s = pendientes[t] /\ s # <<>>
      BY <1>0, <2>3
    <3>4. /\ Len(Tail(s)) = Len(s) - 1 /\ Len(s) \in Nat
          /\ Tail(s) = <<>> => Head(s) = Last(s)
          /\ Tail(s) # <<>> => Last(Tail(s)) = Last(s)
      <4>1. /\ Len(s) \in Nat /\ Len(s) > 0 /\ Len(Tail(s)) = Len(s) - 1 /\ Head(s) = s[1]
            /\ \A i \in 1..Len(s) - 1 : Tail(s)[i] = s[i + 1]
        BY <3>3
      <4>2. Tail(s) = <<>> => Head(s) = Last(s)
        <5>1. Tail(s) = <<>> => Len(Tail(s)) = 0
          BY EmptySeq
        <5>2. Tail(s) = <<>> => Len(s) = 1
          BY <4>1, <5>1
        <5> QED BY <4>1, <5>2 DEF Last
      <4>3. Tail(s) # <<>> => Len(s) - 1 \in 1..Len(s) - 1
        <5>1. Tail(s) \in Seq(Tarea)
          BY <3>3
        <5> QED BY <4>1, <5>1
      <4>4. Tail(s) # <<>> => Last(Tail(s)) = Last(s)
        BY <4>1, <4>3 DEF Last
      <4> QED BY <4>1, <4>2, <4>4
    <3>5. ~Last(s).es
      BY <1>0, <2>1, <3>3 DEF DeSuPatota, DeCPU
    <3>6. Acabada(t)'
      BY <3>2, <3>3, <3>4, <3>5 DEF Acabada
    <3>7. DeCPU(pendientes'[t])
      BY <3>2, <3>3, <3>4, <3>5 DEF DeCPU
    <3>8. Total(t)' = Total(t)
      <4>1. Total(t) = realizadas[t] + Len(s) + 0
        BY <2>1, <3>3 DEF Total, Uno
      <4>2. Total(t)' = realizadas[t] + Len(Tail(s)) + 1
        BY <2>1, <3>2, <3>3 DEF Total, Uno
      <4>3. realizadas[t] \in Nat
        BY <1>0
      <4> QED BY <3>4, <4>1, <4>2, <4>3
    <3>9. DeSuPatota(t)'
      BY <1>0, <2>1, <3>2, <3>7, <3>8, MismaPatota
    <3> QED BY <1>0, <2>1, <3>2, <3>6, <3>9, SoloUna
  <2> QED BY <2>2, <2>3
<1>3. CASE PedirTareaDeExpulsado(t) \/ CicloSinPatota(t)
  <2>1. UNCHANGED <<creacion, propio, estado, expulsado>>
    BY <1>3 DEF PedirTareaDeExpulsado, CicloSinPatota, tripulacion, comun
  <2> QED BY <2>1, PlanCamino
<1>4. CASE CicloMover(t) \/ CicloSyscall(t)
  <2>1. /\ UNCHANGED <<creacion, patota, expulsado, realizadas, tarea, pendientes, pc_trip>>
        /\ pc_trip[t] = "ciclo"
        /\ estado' = estado \/ estado' = [estado EXCEPT ![t] = "BLOCKED_E_S"]
    BY <1>4 DEF CicloMover, CicloSyscall, EsperaCiclo
  <2>2. \A u \in Trips \ {t} : estado'[u] = estado[u]
    BY <1>0, <2>1
  <2>3. Acabada(t)'
    BY <1>0, <2>1 DEF Acabada
  <2>4. DeSuPatota(t)'
    BY <1>0, <2>1, PatotaIgual DEF creacion
  <2> QED BY <1>0, <2>1, <2>2, <2>3, <2>4, SoloUna
<1>5. CASE CicloES(t)
  <2>1. /\ UNCHANGED <<creacion, patota, expulsado, pendientes>>
        /\ pc_trip[t] = "ciclo" /\ TareaActual(t).es /\ GastarCiclo(t)
    BY <1>5 DEF CicloES, EsperaCiclo
  <2>2. tarea[t].es /\ tarea' = [tarea EXCEPT ![t].tiempo = @ - 1]
    BY <1>0, <2>1 DEF TareaActual, GastarCiclo
  <2>3. \A u \in Trips \ {t} : tarea'[u] = tarea[u]
    BY <1>0, <2>2
  <2>4. pendientes[t] # <<>> /\ DeCPU(pendientes'[t])
    BY <1>0, <2>1, <2>2 DEF Acabada, DeSuPatota
  <2>5. CASE TareaActual(t).tiempo = 1
    <3>1. /\ estado' = [estado EXCEPT ![t] = "READY"]
          /\ realizadas' = [realizadas EXCEPT ![t] = @ + 1]
          /\ pc_trip' = [pc_trip EXCEPT ![t] = "terminada"]
      BY <1>5, <2>5 DEF CicloES
    <3>2. /\ realizadas'[t] = realizadas[t] + 1 /\ pc_trip'[t] = "terminada"
          /\ realizadas' \in [Trips -> Nat]
          /\ \A u \in Trips \ {t} : /\ pc_trip'[u] = pc_trip[u] /\ estado'[u] = estado[u]
                                     /\ realizadas'[u] = realizadas[u]
      BY <1>0, <3>1
    <3>3. Acabada(t)'
      BY <2>1, <2>4, <3>2 DEF Acabada
    <3>4. Total(t)' = Total(t)
      BY <1>0, <2>1, <3>2 DEF Total, Uno
    <3>5. DeSuPatota(t)'
      BY <1>0, <2>1, <2>4, <3>2, <3>4, MismaPatota
    <3> QED BY <2>1, <2>3, <3>2, <3>3, <3>5, SoloUna
  <2>6. CASE TareaActual(t).tiempo # 1
    <3>1. UNCHANGED <<estado, realizadas, pc_trip>>
      BY <1>5, <2>6 DEF CicloES
    <3>2. Acabada(t)'
      BY <2>1, <2>4, <3>1 DEF Acabada
    <3>3. DeSuPatota(t)'
      BY <1>0, <2>1, <3>1, PatotaIgual DEF creacion
    <3> QED BY <1>0, <2>1, <2>3, <3>1, <3>2, <3>3, SoloUna
  <2> QED BY <2>5, <2>6
<1>6. CASE CicloCPU(t)
  <2>0. PICK ultima \in BOOLEAN : ultima = (TareaActual(t).tiempo = 1)
    OBVIOUS
  <2>1. /\ UNCHANGED <<creacion, patota, expulsado, pendientes>> /\ patota[t] <= Len(lista_de_patotas)
        /\ pc_trip[t] = "ciclo" /\ ~TareaActual(t).es /\ GastarCiclo(t)
        /\ realizadas' = [realizadas EXCEPT ![t] = realizadas[t] + Uno(ultima)]
        /\ pc_trip' = [pc_trip EXCEPT ![t] = IF ultima THEN "terminada" ELSE @]
        /\ estado' = IF realizadas[t] + Uno(ultima) = lista_de_patotas[patota[t]]
                     THEN [estado EXCEPT ![t] = "EXIT"] ELSE estado
    BY <1>0, <1>6, <2>0 DEF CicloCPU, EsperaCiclo, TareasHechas
  <2>2. ~tarea[t].es /\ tarea' = [tarea EXCEPT ![t].tiempo = @ - 1]
    BY <1>0, <2>1 DEF TareaActual, GastarCiclo
  <2>3. ~tarea'[t].es /\ \A u \in Trips \ {t} : tarea'[u] = tarea[u]
    BY <1>0, <2>2
  <2>4. /\ realizadas' \in [Trips -> Nat] /\ realizadas'[t] = realizadas[t] + Uno(ultima)
        /\ pc_trip'[t] = IF ultima THEN "terminada" ELSE "ciclo"
        /\ \A u \in Trips \ {t} : /\ pc_trip'[u] = pc_trip[u] /\ estado'[u] = estado[u]
                                   /\ realizadas'[u] = realizadas[u]
    BY <1>0, <2>1 DEF Uno
  <2>5. Total(t)' = Total(t)
    BY <1>0, <2>1, <2>4 DEF Total, Uno
  <2>6. DeSuPatota(t)'
    <3>1. DeCPU(pendientes'[t])
      BY <1>0, <2>1 DEF DeSuPatota
    <3> QED BY <1>0, <2>1, <2>4, <2>5, <3>1, MismaPatota
  <2>7. Acabada(t)'
    <3>1. ASSUME ultima, pendientes[t] = <<>> PROVE estado'[t] = "EXIT"
      <4>1. Total(t)' = realizadas'[t]
        BY <1>0, <2>1, <2>4, <3>1 DEF Total, Uno
      <4>2. patota[t] # Len(lista_de_patotas) + 1
        BY <1>0, <2>1
      <4>3. Total(t) = lista_de_patotas[patota[t]]
        BY <1>0, <2>1, <4>2 DEF DeSuPatota
      <4>4. realizadas[t] + Uno(ultima) = lista_de_patotas[patota[t]]
        BY <2>4, <2>5, <4>1, <4>3
      <4> QED BY <1>0, <2>1, <4>4
    <3> QED BY <2>1, <2>3, <2>4, <3>1 DEF Acabada
  <2> QED BY <2>1, <2>3, <2>4, <2>6, <2>7, SoloUna
<1>7. CASE TareaTerminada(t)
  <2>1. /\ UNCHANGED <<creacion, patota, expulsado, realizadas, tarea, pendientes, estado>>
        /\ pc_trip[t] = "terminada"
        /\ pc_trip' = [pc_trip EXCEPT ![t] = IF expulsado[t] THEN "fin" ELSE "pide"]
    BY <1>7 DEF TareaTerminada, comun
  <2>2. /\ pc_trip'[t] = IF expulsado[t] THEN "fin" ELSE "pide"
        /\ \A u \in Trips \ {t} : pc_trip'[u] = pc_trip[u]
    BY <1>0, <2>1
  <2>3. Acabada(t)'
    BY <1>0, <2>1, <2>2 DEF Acabada
  <2>4. Total(t)' = Total(t) /\ DeCPU(pendientes'[t])
    BY <1>0, <2>1, <2>2 DEF Total, Uno, DeSuPatota
  <2>5. DeSuPatota(t)'
    BY <1>0, <2>1, <2>2, <2>4, MismaPatota
  <2> QED BY <1>0, <2>1, <2>2, <2>3, <2>5, SoloUna
<1> QED BY <1>1, <1>2, <1>3, <1>4, <1>5, <1>6, <1>7 DEF Tripulante, Ciclo

LEMMA CaminoInicial == Init => Camino
<1> SUFFICES ASSUME Init PROVE Camino
  OBVIOUS
<1>1. Registro
  <2>1. lote.fase = "libre"
    BY DEF Init, SinLote
  <2> QED BY <2>1 DEF Init, Registro
<1>2. \A t \in Trips : pc_trip[t] = "no_creado" /\ realizadas[t] = 0
  BY DEF Init
<1> QED BY <1>1, <1>2 DEF Camino, DeSuPatota, Acabada

LEMMA CaminoPaso == TerminanEnCPU /\ Inductiva /\ Ciclos /\ Camino /\ [Next]_vars => Camino'
<1> SUFFICES ASSUME TerminanEnCPU, Inductiva, Ciclos, Camino, [Next]_vars PROVE Camino'
  OBVIOUS
<1>1. CASE UNCHANGED vars
  BY <1>1, PlanCamino DEF vars, comun
<1>2. CASE Next
  BY <1>2, ConsolaCamino, GestorCamino, LargoPlazoCamino, ProcesadorCamino, DispositivoCamino,
     TripulanteCamino DEF Next
<1> QED BY <1>1, <1>2

\* When every list of tasks ends with one of the CPU, as those of finales do, no crew's thread
\* ends without chequear_tripulante_finalizado having written EXIT, or the user having expelled
\* it, for any number of processors, crews and commands.
THEOREM SalenConExit == TerminanEnCPU => (Spec => []SalidaConExit)
<1> SUFFICES ASSUME TerminanEnCPU PROVE Spec => []SalidaConExit
  OBVIOUS
<1>1. Init => Inductiva /\ Ciclos /\ Camino
  BY InductivaInicial, CiclosInicial, CaminoInicial
<1>2. Inductiva /\ Ciclos /\ Camino /\ [Next]_vars => (Inductiva /\ Ciclos /\ Camino)'
  BY InductivaPaso, CiclosPaso, CaminoPaso
<1>3. Camino => SalidaConExit
  BY DEF Camino, Acabada, SalidaConExit
<1> QED BY <1>1, <1>2, <1>3, PTL DEF Spec

-----------------------------------------------------------------------------
(* With one processor a crew is expelled once, and its estado goes as the    *)
(* diagram says.                                                             *)

UnProcesador == \A p, q \in Procs : p = q

Enlistados == Listados \cup Range(cola_de_exec)

\* Somebody has taken it out of a list to expel it, or has expelled it.
Sacado(t) == expulsiones[t] > 0 \/ \E h \in Hilos : victima[h] = t

\* Taken out once, and expelled after that.
UnaVez(t) ==
  /\ expulsiones[t] <= 1
  /\ expulsiones[t] > 0 => \A h \in Hilos : victima[h] # t
  /\ \A h, k \in Hilos : victima[h] = t /\ victima[k] = t => h = k

\* And it never comes back: if the processor has it in hand, it writes EXPULSADO before it looks.
Afuera(t) ==
  Sacado(t) =>
    /\ t \notin Enlistados /\ pc_trip[t] # "no_creado"
    /\ \A p \in Procs : mano[p] = t =>
         pc[p] \notin {"agrega_exec", "espera"} /\ (victima[p] = t \/ estado[t] = "EXPULSADO")

\* What estado is, by where the crew is.
Situado(t) ==
  /\ estado[t] = "EXPULSADO" => expulsiones[t] > 0
  /\ estado[t] # "BLOCKED_SABOTAJE"
  /\ t \in Range(cola_de_ready) => estado[t] = "READY"
  /\ \A p \in Procs : mano[p] = t /\ pc[p] = "espera" /\ procesador[t] = 0 => estado[t] = "EXEC"

Vida(t) == UnaVez(t) /\ Afuera(t) /\ Situado(t)
Vidas == \A t \in Trips : Vida(t)

\* What DiagramaDeEstados says of a step.
Legal == \A t \in Trips : estado'[t] # estado[t] => <<estado[t], estado'[t]>> \in Transiciones

\* A crew that a step leaves in its estado, and in no new list or hand.
LEMMA VidaIgual ==
  ASSUME NEW u \in Trips, Vida(u), expulsiones'[u] = expulsiones[u], estado'[u] = estado[u],
         \A h \in Hilos : victima'[h] = u <=> victima[h] = u,
         Sacado(u) => u \notin Enlistados',
         pc_trip[u] # "no_creado" => pc_trip'[u] # "no_creado",
         u \in Range(cola_de_ready') => u \in Range(cola_de_ready) \/ estado[u] = "READY",
         procesador'[u] = 0 => procesador[u] = 0,
         \A p \in Procs : mano'[p] = u =>
           mano[p] = u /\ (pc'[p] \in {"agrega_exec", "espera"} => pc'[p] = pc[p])
  PROVE  Vida(u)'
<1> USE ProcsOK
<1>1. Sacado(u)' <=> Sacado(u)
  BY DEF Sacado
<1>2. UnaVez(u)'
  BY DEF Vida, UnaVez
<1>3. Afuera(u)'
  BY <1>1 DEF Vida, Afuera
<1>4. Situado(u)'
  BY DEF Vida, Situado
<1> QED BY <1>2, <1>3, <1>4 DEF Vida

\* A step that writes no estado, takes nobody out of a list and puts nobody in one.
LEMMA NadieSeMueve ==
  ASSUME Vidas, UNCHANGED <<expulsiones, estado, victima>>,
         Range(cola_de_new') \subseteq Range(cola_de_new),
         Range(cola_de_ready') \subseteq Range(cola_de_ready),
         Range(cola_de_exec') \subseteq Range(cola_de_exec),
         Range(cola_de_block') \subseteq Range(cola_de_block),
         \A u \in Trips : /\ pc_trip[u] # "no_creado" => pc_trip'[u] # "no_creado"
                          /\ procesador'[u] = 0 => procesador[u] = 0,
         \A p \in Procs : \/ mano'[p] = Nadie
                          \/ mano'[p] = mano[p]
                             /\ (pc'[p] \in {"agrega_exec", "espera"} => pc'[p] = pc[p])
  PROVE  Vidas' /\ Legal
<1>1. ASSUME NEW u \in Trips PROVE Vida(u)'
  <2>1. Sacado(u) => u \notin Enlistados'
    BY DEF Vidas, Vida, Afuera, Enlistados, Listados
  <2> QED BY <2>1, TripsOK, VidaIgual DEF Vidas
<1> QED BY <1>1 DEF Vidas, Legal

\* A thread takes out of a list a crew that the user expelled.
LEMMA SacaVida ==
  ASSUME Inductiva, Vidas, NEW h \in Hilos, NEW c \in Seq(Trips), NEW d, SacarExpulsado(h, c, d),
         victima[h] = Nadie, Range(c) \subseteq Enlistados, IsInjective(c),
         UNCHANGED <<expulsiones, estado, pc_trip, mano>>,
         Range(cola_de_new') \subseteq Range(cola_de_new),
         Range(cola_de_ready') \subseteq Range(cola_de_ready),
         Range(cola_de_exec') \subseteq Range(cola_de_exec),
         Range(cola_de_block') \subseteq Range(cola_de_block),
         \A u \in Trips : u \in Range(c) /\ u \notin Range(d) => u \notin Enlistados',
         \A p \in Procs : pc'[p] \in {"agrega_exec", "espera"} => pc'[p] = pc[p],
         \A p \in Procs : mano[p] \in Range(c) =>
           p = h /\ pc'[p] \notin {"agrega_exec", "espera"},
         \A p \in Procs : \A u \in Trips : mano[p] = u /\ pc'[p] = "espera" =>
           procesador'[u] = procesador[u]
  PROVE  Vidas' /\ Legal
<1> USE ProcsOK, TripsOK
<1>1. /\ \A g \in Hilos : g # h => victima'[g] = victima[g]
      /\ \A t \in Trips : victima'[h] = t =>
           t \in Range(c) /\ t \notin Range(d) /\ pc_trip[t] # "no_creado"
  BY SacarVictima DEF Enlistados
<1>2. ASSUME NEW u \in Trips PROVE Vida(u)'
  <2>0. Vida(u) /\ expulsiones[u] \in Nat
    BY DEF Vidas, Inductiva, Tipos, TypeOK
  <2>1. Situado(u)'
    BY <2>0 DEF Vida, Situado
  <2>2. CASE victima'[h] = u
    <3>1. u \in Range(c) /\ u \notin Enlistados' /\ pc_trip'[u] # "no_creado"
      BY <1>1, <2>2
    <3>2. ~Sacado(u)
      BY <2>0, <3>1 DEF Vida, Afuera
    <3>3. expulsiones[u] = 0 /\ \A g \in Hilos : victima[g] # u
      BY <2>0, <3>2 DEF Sacado
    <3>4. expulsiones'[u] = 0 /\ \A g \in Hilos : victima'[g] = u => g = h
      BY <1>1, <3>3
    <3>5. UnaVez(u)'
      BY <3>4 DEF UnaVez
    <3>6. ASSUME NEW p \in Procs, mano'[p] = u
          PROVE  pc'[p] \notin {"agrega_exec", "espera"} /\ victima'[p] = u
      BY <2>2, <3>1, <3>6
    <3>7. Afuera(u)'
      BY <3>1, <3>6 DEF Afuera
    <3> QED BY <2>1, <3>5, <3>7 DEF Vida
  <2>3. CASE victima'[h] # u
    <3>1. \A g \in Hilos : victima'[g] = u <=> victima[g] = u
      BY <1>1, <2>3
    <3>2. Sacado(u) => u \notin Enlistados'
      BY <2>0 DEF Vida, Afuera, Enlistados, Listados
    <3>3. Sacado(u)' <=> Sacado(u)
      BY <3>1 DEF Sacado
    <3>4. UnaVez(u)'
      BY <2>0, <3>1 DEF Vida, UnaVez
    <3>5. Afuera(u)'
      BY <2>0, <3>1, <3>2, <3>3 DEF Vida, Afuera
    <3> QED BY <2>1, <3>4, <3>5 DEF Vida
  <2> QED BY <2>2, <2>3
<1> QED BY <1>2 DEF Vidas, Legal

\* tripulante_expulsado: the message is sent and EXPULSADO written, once for each crew.
LEMMA ExpulsaVida ==
  ASSUME Inductiva, Vidas, NEW h \in Hilos, TripulanteExpulsado(h)
  PROVE  Vidas' /\ Legal
<1> USE ProcsOK, TripsOK
<1>0. /\ estado \in [Trips -> Estados] /\ victima \in [Hilos -> Trips \cup {Nadie}]
      /\ expulsiones \in [Trips -> Nat]
  BY DEF Inductiva, Tipos, TypeOK
<1>1. PICK t \in Trips : t = victima[h]
  BY <1>0 DEF TripulanteExpulsado
<1>2. /\ UNCHANGED <<cola_de_new, cola_de_ready, cola_de_exec, cola_de_block, pc, mano, procesador, pc_trip>>
      /\ estado' = [estado EXCEPT ![t] = "EXPULSADO"]
      /\ expulsiones' = [expulsiones EXCEPT ![t] = @ + 1]
      /\ victima' = [victima EXCEPT ![h] = Nadie]
  BY <1>1 DEF TripulanteExpulsado, colas, ajeno, propio
<1>3. /\ Sacado(t) /\ expulsiones[t] = 0 /\ Vida(t) /\ \A g \in Hilos : victima[g] = t => g = h
  <2>1. Vida(t) /\ Sacado(t)
    BY <1>1 DEF Vidas, Sacado
  <2> QED BY <1>0, <1>1, <2>1 DEF Vida, UnaVez
<1>4. /\ estado'[t] = "EXPULSADO" /\ expulsiones'[t] = 1 /\ \A g \in Hilos : victima'[g] # t
      /\ \A u \in Trips \ {t} : estado'[u] = estado[u] /\ expulsiones'[u] = expulsiones[u]
      /\ \A u \in Trips \ {t} : \A g \in Hilos : victima'[g] = u <=> victima[g] = u
  BY <1>0, <1>1, <1>2, <1>3
<1>5. Vida(t)'
  <2>1. UnaVez(t)'
    BY <1>4 DEF UnaVez
  <2>2. Afuera(t)'
    BY <1>2, <1>3, <1>4 DEF Vida, Afuera, Enlistados, Listados
  <2>3. Situado(t)'
    BY <1>2, <1>3, <1>4 DEF Vida, Afuera, Situado, Enlistados, Listados
  <2> QED BY <2>1, <2>2, <2>3 DEF Vida
<1>6. ASSUME NEW u \in Trips \ {t} PROVE Vida(u)'
  <2>1. Vida(u) /\ (Sacado(u) => u \notin Enlistados')
    BY <1>2 DEF Vidas, Vida, Afuera, Enlistados, Listados
  <2> QED BY <1>2, <1>4, <2>1, VidaIgual
<1>7. Legal
  <2>1. estado[t] \in {"NEW", "READY", "EXEC", "BLOCKED_E_S", "EXIT", "EXPULSADO"}
    BY <1>0, <1>3 DEF Vida, Situado, Estados
  <2>2. estado'[t] # estado[t] => <<estado[t], estado'[t]>> \in Transiciones
    BY <1>4, <2>1 DEF Transiciones
  <2> QED BY <1>4, <2>2 DEF Legal
<1> QED BY <1>5, <1>6, <1>7 DEF Vidas

\* A crew goes to ready, or from it to a processor, or to block: it was not taken out.
LEMMA UnaSeMueve ==
  ASSUME Inductiva, Vidas, NEW t \in Trips, ~Sacado(t), UNCHANGED <<expulsiones, victima, procesador>>,
         \A u \in Trips \ {t} :
           /\ estado'[u] = estado[u]
           /\ u \in Range(cola_de_new') => u \in Range(cola_de_new)
           /\ u \in Range(cola_de_ready') => u \in Range(cola_de_ready)
           /\ u \in Range(cola_de_exec') => u \in Range(cola_de_exec)
           /\ u \in Range(cola_de_block') => u \in Range(cola_de_block)
           /\ pc_trip[u] # "no_creado" => pc_trip'[u] # "no_creado"
           /\ \A p \in Procs : mano'[p] = u =>
                mano[p] = u /\ (pc'[p] \in {"agrega_exec", "espera"} => pc'[p] = pc[p]),
         estado'[t] # estado[t] => <<estado[t], estado'[t]>> \in Transiciones,
         estado'[t] \notin {"EXPULSADO", "BLOCKED_SABOTAJE"},
         t \in Range(cola_de_ready') => estado'[t] = "READY",
         \A p \in Procs : mano'[p] = t /\ pc'[p] = "espera" => estado'[t] = "EXEC"
  PROVE  Vidas' /\ Legal
<1>1. ASSUME NEW u \in Trips \ {t} PROVE Vida(u)'
  <2>1. Vida(u) /\ (Sacado(u) => u \notin Enlistados')
    BY DEF Vidas, Vida, Afuera, Enlistados, Listados
  <2> QED BY <2>1, VidaIgual
<1>2. ~Sacado(t)'
  BY DEF Sacado
<1>3. UnaVez(t)'
  BY DEF Vidas, Vida, UnaVez
<1>4. Situado(t)'
  BY DEF Situado
<1>5. Vida(t)'
  BY <1>2, <1>3, <1>4 DEF Vida, Afuera
<1> QED BY <1>1, <1>5 DEF Vidas, Legal

\* What the user types writes no estado.
LEMMA ConsolaVida ==
  ASSUME Vidas, Consola \/ \E h \in Hilos : Reanudar(h)
  PROVE  Vidas' /\ Legal
<1>1. UNCHANGED <<cola_de_new, cola_de_ready, cola_de_exec, cola_de_block, mano, pc, victima,
                  pc_trip, procesador, estado, expulsiones>>
  BY DEF Consola, IniciarPatota, ExpulsarTripulante, PausarPlanificacion, IniciarPlanificacion,
         Reanudar, planificacion, colas, hilos, tripulacion, propio, comun, ajeno
<1> QED BY ONLY Vidas, <1>1, NadieSeMueve

\* A crew that is created goes to new.
LEMMA GestorVida ==
  ASSUME Inductiva, Vidas, Gestor
  PROVE  Vidas' /\ Legal
<1> USE ProcsOK, TripsOK DEF Fase, planificacion, tripulacion, propio, comun, hilos, colas
<1>1. CASE CrearTripulante
  <2>0. PICK t : t = id_tcb - lote.quedan
    OBVIOUS
  <2>1. t \in Trips /\ pc_trip[t] = "no_creado"
    <3>1. lote.quedan > 0 /\ lote.quedan < id_tcb /\ lote.quedan \in Nat /\ id_tcb \in 1..MaxTrips + 1
      BY <1>1 DEF CrearTripulante, Inductiva, Tipos, TypeOK, Reserva
    <3>2. t \in Trips
      BY <2>0, <3>1, ConstantesOK DEF Trips
    <3> QED BY <2>0, <3>1, <3>2 DEF Inductiva, Tipos, Reserva
  <2>2. /\ UNCHANGED <<cola_de_ready, cola_de_exec, cola_de_block, mano, pc, victima, procesador,
                       estado, expulsiones>>
        /\ pc_trip' = [pc_trip EXCEPT ![t] = "nace"] /\ cola_de_new' = Append(cola_de_new, t)
    BY <1>1, <2>0 DEF CrearTripulante, AgregarElemento
  <2>3. ~Sacado(t) /\ Vida(t)
    BY <2>1 DEF Vidas, Vida, Afuera
  <2>4. estado[t] \notin {"EXPULSADO", "BLOCKED_SABOTAJE"}
    BY <2>3 DEF Vida, Situado, Sacado
  <2>5. t \notin Range(cola_de_ready) /\ \A p \in Procs : mano[p] # t
    BY <2>1 DEF Inductiva, Listados, EnManos
  <2>6. Range(cola_de_new') = Range(cola_de_new) \cup {t}
    BY <2>1, <2>2, AgregarSeq DEF Inductiva, Tipos, TypeOK
  <2>7. \A u \in Trips \ {t} : pc_trip'[u] = pc_trip[u]
    BY <2>1, <2>2 DEF Inductiva, Tipos, TypeOK
  <2> QED BY ONLY Inductiva, Vidas, <2>1, <2>2, <2>3, <2>4, <2>5, <2>6, <2>7, UnaSeMueve
<1>2. CASE PedirMemoria \/ MemoriaDenegada \/ MemoriaConcedida \/ RegistrarPatota
  <2>1. UNCHANGED <<cola_de_new, cola_de_ready, cola_de_exec, cola_de_block, mano, pc, victima,
                    pc_trip, procesador, estado, expulsiones>>
    BY <1>2 DEF PedirMemoria, MemoriaDenegada, MemoriaConcedida, RegistrarPatota
  <2> QED BY ONLY Vidas, <2>1, NadieSeMueve
<1> QED BY <1>1, <1>2 DEF Gestor

\* NEW -> READY.
LEMMA LargoPlazoVida ==
  ASSUME Inductiva, Ciclos, Vidas, PlanificadorLargoPlazo
  PROVE  Vidas' /\ Legal
<1> USE HilosOK, ProcsOK, TripsOK DEF En, ajeno, propio, comun, colas, fichas
<1>0. /\ pc \in [Hilos -> Lugares] /\ mano \in [Hilos -> Trips \cup {Nadie}]
      /\ cola_de_new \in Seq(Trips) /\ cola_de_ready \in Seq(Trips) /\ IsInjective(cola_de_new)
      /\ estado \in [Trips -> Estados]
  BY DEF Inductiva, Tipos, TypeOK, UnSoloLugar
<1>1. CASE TripulanteExpulsado("planificador")
  BY ONLY <1>1, Inductiva, Vidas, HilosOK, ExpulsaVida
<1>2. CASE TomarNew \/ PasarCompuerta("planificador") \/ AvisarReady
  <2>1. /\ UNCHANGED <<cola_de_new, cola_de_ready, cola_de_exec, cola_de_block, victima,
                       pc_trip, procesador, estado, expulsiones>>
        /\ \A p \in Procs : mano'[p] = mano[p] /\ pc'[p] = pc[p]
    BY <1>0, <1>2 DEF TomarNew, PasarCompuerta, LeerPausa, Drenar, Reanudarse, AvisarReady
  <2> QED BY ONLY Vidas, <2>1, NadieSeMueve
<1>3. CASE ExpulsarDeNew
  <2>1. /\ SacarExpulsado("planificador", cola_de_new, cola_de_new') /\ victima["planificador"] = Nadie
        /\ UNCHANGED <<cola_de_ready, cola_de_exec, cola_de_block, mano, pc_trip, procesador, estado,
                       expulsiones>>
        /\ \A p \in Procs : pc'[p] = pc[p]
    BY <1>0, <1>3 DEF ExpulsarDeNew
  <2>2. Range(cola_de_new') \subseteq Range(cola_de_new)
    BY <1>0, <2>1, SacarLista
  <2>3. \A p \in Procs : mano[p] \notin Range(cola_de_new)
    BY DEF Inductiva, UnSoloLugar
  <2>4. \A u \in Trips : u \in Range(cola_de_new) /\ u \notin Range(cola_de_new') => u \notin Enlistados'
    BY <2>1, <2>3 DEF Inductiva, UnSoloLugar, Enlistados, Listados
  <2>5. Range(cola_de_new) \subseteq Enlistados
    BY DEF Enlistados, Listados
  <2> QED BY ONLY Inductiva, Vidas, HilosOK, <1>0, <2>1, <2>2, <2>3, <2>4, <2>5, SacaVida
<1>4. CASE MoverAReady
  <2>1. CASE cola_de_new = <<>>
    <3>1. /\ UNCHANGED <<cola_de_new, cola_de_ready, cola_de_exec, cola_de_block, mano, pc, victima,
                         pc_trip, procesador, estado, expulsiones>>
      BY <1>4, <2>1 DEF MoverAReady
    <3> QED BY ONLY Vidas, <3>1, NadieSeMueve
  <2>2. CASE cola_de_new # <<>>
    <3>0. PICK t : t = Head(cola_de_new)
      OBVIOUS
    <3>1. /\ UNCHANGED <<cola_de_exec, cola_de_block, victima, pc_trip, procesador, expulsiones>>
          /\ estado' = [estado EXCEPT ![t] = "READY"] /\ cola_de_ready' = Append(cola_de_ready, t)
          /\ cola_de_new' = Tail(cola_de_new)
          /\ \A p \in Procs : mano'[p] = mano[p] /\ pc'[p] = pc[p]
      BY <1>0, <1>4, <2>2, <3>0 DEF MoverAReady, AgregarElemento, QuitarPrimero
    <3>2. t \in Trips /\ t \in Range(cola_de_new) /\ Range(cola_de_new') \subseteq Range(cola_de_new)
      BY <1>0, <2>2, <3>0, <3>1, QuitarSeq
    <3>3. Range(cola_de_ready') = Range(cola_de_ready) \cup {t}
      BY <1>0, <3>1, <3>2, AgregarSeq
    <3>4. estado[t] = "NEW"
      BY <3>2 DEF Ciclos, Tripulantes, Coherente
    <3>5. ~Sacado(t) /\ \A p \in Procs : mano[p] # t
      BY <3>2 DEF Vidas, Vida, Afuera, Enlistados, Listados, Inductiva, UnSoloLugar
    <3>6. estado'[t] = "READY" /\ \A u \in Trips \ {t} : estado'[u] = estado[u]
      BY <1>0, <3>1, <3>2
    <3>7. <<estado[t], estado'[t]>> \in Transiciones
      BY <3>4, <3>6 DEF Transiciones
    <3> QED BY ONLY Inductiva, Vidas, <3>1, <3>2, <3>3, <3>5, <3>6, <3>7, UnaSeMueve
  <2> QED BY <2>1, <2>2
<1> QED BY <1>1, <1>2, <1>3, <1>4 DEF PlanificadorLargoPlazo

\* BLOCKED_E_S -> READY is the crew's; the device puts it in ready, and takes out who is expelled.
LEMMA DispositivoVida ==
  ASSUME Inductiva, Ciclos, Vidas, Dispositivo
  PROVE  Vidas' /\ Legal
<1> USE HilosOK, ProcsOK, TripsOK DEF En, ajeno, propio, comun, colas, fichas, tripulacion
<1>0. /\ pc \in [Hilos -> Lugares] /\ mano \in [Hilos -> Trips \cup {Nadie}]
      /\ cola_de_block \in Seq(Trips) /\ cola_de_ready \in Seq(Trips) /\ IsInjective(cola_de_block)
      /\ estado \in [Trips -> Estados]
  BY DEF Inductiva, Tipos, TypeOK, UnSoloLugar
<1>1. CASE TripulanteExpulsado("es")
  BY ONLY <1>1, Inductiva, Vidas, HilosOK, ExpulsaVida
<1>2. CASE \/ TomarBlock \/ PasarCompuerta("es") \/ ElegirBloqueado \/ DarCicloES
           \/ CicloESTerminado \/ SoltarExpulsado
  <2>1. /\ UNCHANGED <<cola_de_new, cola_de_ready, cola_de_exec, cola_de_block, victima,
                       pc_trip, procesador, estado, expulsiones>>
        /\ \A p \in Procs : mano'[p] = mano[p] /\ pc'[p] = pc[p]
    BY <1>0, <1>2 DEF TomarBlock, PasarCompuerta, LeerPausa, Drenar, Reanudarse, ElegirBloqueado,
         DarCicloES, CicloESTerminado, SoltarExpulsado
  <2> QED BY ONLY Vidas, <2>1, NadieSeMueve
<1>3. CASE ExpulsarDeBlock \/ ExpulsarEnCiclo
  <2>1. /\ SacarExpulsado("es", cola_de_block, cola_de_block') /\ victima["es"] = Nadie
        /\ UNCHANGED <<cola_de_new, cola_de_ready, cola_de_exec, mano, pc_trip, procesador, estado,
                       expulsiones>>
        /\ \A p \in Procs : pc'[p] = pc[p]
    BY <1>0, <1>3 DEF ExpulsarDeBlock, ExpulsarEnCiclo
  <2>2. Range(cola_de_block') \subseteq Range(cola_de_block)
    BY <1>0, <2>1, SacarLista
  <2>3. \A p \in Procs : mano[p] \notin Range(cola_de_block)
    BY DEF Inductiva, UnSoloLugar
  <2>4. \A u \in Trips : u \in Range(cola_de_block) /\ u \notin Range(cola_de_block') => u \notin Enlistados'
    BY <2>1, <2>3 DEF Inductiva, UnSoloLugar, Enlistados, Listados
  <2>5. Range(cola_de_block) \subseteq Enlistados
    BY DEF Enlistados, Listados
  <2> QED BY ONLY Inductiva, Vidas, HilosOK, <1>0, <2>1, <2>2, <2>3, <2>4, <2>5, SacaVida
<1>4. CASE DesbloquearTripulante
  <2>0. PICK t : t = Head(cola_de_block)
    OBVIOUS
  <2>1. /\ UNCHANGED <<cola_de_new, cola_de_exec, victima, pc_trip, procesador, estado, expulsiones>>
        /\ cola_de_block # <<>> /\ cola_de_block' = Tail(cola_de_block)
        /\ cola_de_ready' = Append(cola_de_ready, t) /\ estado[mano["es"]] = "READY"
        /\ victima["es"] = Nadie /\ pc["es"] = "rafaga"
        /\ \A p \in Procs : mano'[p] = mano[p] /\ pc'[p] = pc[p]
    BY <1>0, <1>4, <2>0 DEF DesbloquearTripulante, AReady, AgregarElemento, QuitarPrimero
  <2>2. t \in Trips /\ t \in Range(cola_de_block) /\ Range(cola_de_block') \subseteq Range(cola_de_block)
    BY <1>0, <2>0, <2>1, QuitarSeq
  <2>3. Range(cola_de_ready') = Range(cola_de_ready) \cup {t}
    BY <1>0, <2>1, <2>2, AgregarSeq
  <2>4. mano["es"] = t
    <3>1. mano["es"] # Nadie
      BY <2>1 DEF Ciclos, ManosAjenas
    <3> QED BY <2>0, <2>1, <3>1, CiclosBasta DEF ColaCoherente
  <2>5. ~Sacado(t) /\ \A p \in Procs : mano[p] # t
    BY <2>2 DEF Vidas, Vida, Afuera, Enlistados, Listados, Inductiva, UnSoloLugar
  <2> QED BY ONLY Inductiva, Vidas, <2>1, <2>2, <2>3, <2>4, <2>5, UnaSeMueve
<1> QED BY <1>1, <1>2, <1>3, <1>4 DEF Dispositivo

\* READY -> EXEC and, under RR, EXEC -> READY.
LEMMA ProcesadorVida ==
  ASSUME Inductiva, Ciclos, Vidas, UnProcesador, NEW p \in Procs, Procesador(p)
  PROVE  Vidas' /\ Legal
<1> USE HilosOK, ProcsOK, TripsOK DEF En, ajeno, propio, comun, colas, fichas
<1>0. /\ pc \in [Hilos -> Lugares] /\ mano \in [Hilos -> Trips \cup {Nadie}] /\ ~sabotaje
      /\ cola_de_exec \in Seq(Trips) /\ cola_de_ready \in Seq(Trips) /\ cola_de_block \in Seq(Trips)
      /\ IsInjective(cola_de_ready) /\ IsInjective(cola_de_exec) /\ estado \in [Trips -> Estados]
      /\ procesador \in [Trips -> Nat]
  BY DEF Inductiva, Tipos, TypeOK, UnSoloLugar
<1>00. \A q \in Procs : q = p
  BY DEF UnProcesador
<1>1. CASE TripulanteExpulsado(p)
  BY ONLY <1>1, p \in Procs, ProcsOK, Inductiva, Vidas, ExpulsaVida
<1>2. ASSUME \/ TomarReady(p) \/ PasarCompuerta(p) \/ NadieAElegir(p) \/ RevisarPausa(p)
             \/ AtenderPausa(p) \/ SeguirRafaga(p) \/ FinDeRafaga(p)
      PROVE  Vidas' /\ Legal
  <2>1. /\ UNCHANGED <<cola_de_new, cola_de_ready, cola_de_exec, cola_de_block, victima, mano,
                       pc_trip, procesador, estado, expulsiones>>
        /\ pc'[p] \notin {"agrega_exec", "espera"}
    BY <1>0, <1>2 DEF TomarReady, PasarCompuerta, LeerPausa, Drenar, Reanudarse, TrasCompuerta,
         NadieAElegir, RevisarPausa, AtenderPausa, SeguirRafaga, FinDeRafaga
  <2> QED BY ONLY Vidas, <1>00, <2>1, NadieSeMueve
<1>3. CASE SalirDeExec(p) \/ DespacharSinCola(p)
  <2>1. /\ UNCHANGED <<cola_de_new, cola_de_ready, cola_de_block, victima, pc_trip, procesador, estado,
                       expulsiones>>
        /\ pc'[p] \notin {"agrega_exec", "espera"} /\ (mano'[p] = mano[p] \/ mano'[p] = Nadie)
    BY <1>0, <1>3 DEF SalirDeExec, DespacharSinCola, Soltar
  <2>2. Range(cola_de_exec') \subseteq Range(cola_de_exec)
    <3>1. cola_de_exec' = cola_de_exec \/ \E i \in DOMAIN cola_de_exec : cola_de_exec' = RemoveAt(cola_de_exec, i)
      BY <1>3 DEF SalirDeExec, DespacharSinCola
    <3> QED BY <1>0, <3>1, SacarSeq
  <2> QED BY ONLY Vidas, <1>00, <2>1, <2>2, NadieSeMueve
<1>4. CASE ExpulsarDeReady(p) \/ RevisarReady(p)
  <2>1. /\ SacarExpulsado(p, cola_de_ready, cola_de_ready') /\ victima[p] = Nadie
        /\ UNCHANGED <<cola_de_new, cola_de_block, cola_de_exec, mano, pc_trip, procesador, estado,
                       expulsiones>>
        /\ pc'[p] \notin {"agrega_exec", "espera"}
    BY <1>0, <1>4 DEF ExpulsarDeReady, RevisarReady
  <2>2. Range(cola_de_ready') \subseteq Range(cola_de_ready)
    BY <1>0, <2>1, SacarLista
  <2>3. \A q \in Procs : mano[q] \notin Range(cola_de_ready)
    BY DEF Inductiva, UnSoloLugar
  <2>4. \A u \in Trips : u \in Range(cola_de_ready) /\ u \notin Range(cola_de_ready') => u \notin Enlistados'
    BY <2>1, <2>3 DEF Inductiva, UnSoloLugar, Enlistados, Listados
  <2>5. Range(cola_de_ready) \subseteq Enlistados
    BY DEF Enlistados, Listados
  <2> QED BY ONLY Inductiva, Vidas, ProcsOK, p \in Procs, <1>0, <1>00, <2>1, <2>2, <2>3, <2>4, <2>5,
               SacaVida
<1>5. CASE CicloTerminado(p)
  <2>1. /\ SacarExpulsado(p, cola_de_exec, cola_de_exec') /\ victima[p] = Nadie
        /\ UNCHANGED <<cola_de_new, cola_de_block, cola_de_ready, mano, pc_trip, estado, expulsiones>>
        /\ pc'[p] = "revisa_ready"
    BY <1>0, <1>5 DEF CicloTerminado
  <2>2. Range(cola_de_exec') \subseteq Range(cola_de_exec)
    BY <1>0, <2>1, SacarLista
  <2>3. Range(cola_de_exec) \subseteq {mano[q] : q \in Procs}
        /\ \A q \in Procs : mano[q] \notin Range(cola_de_new) \cup Range(cola_de_ready) \cup Range(cola_de_block)
    BY DEF Inductiva, UnSoloLugar
  <2>4. \A u \in Trips : u \in Range(cola_de_exec) /\ u \notin Range(cola_de_exec') => u \notin Enlistados'
    BY <2>1, <2>3 DEF Enlistados, Listados
  <2>5. Range(cola_de_exec) \subseteq Enlistados
    BY DEF Enlistados
  <2> QED BY ONLY Inductiva, Vidas, ProcsOK, p \in Procs, <1>0, <1>00, <2>1, <2>2, <2>4, <2>5, SacaVida
<1>6. CASE ElegirTripulante(p)
  <2>0. PICK t : t = Head(cola_de_ready)
    OBVIOUS
  <2>1. /\ UNCHANGED <<cola_de_new, cola_de_exec, cola_de_block, victima, pc_trip, procesador, expulsiones>>
        /\ cola_de_ready # <<>> /\ cola_de_ready' = Tail(cola_de_ready)
        /\ estado' = [estado EXCEPT ![t] = "EXEC"]
        /\ mano' = [mano EXCEPT ![p] = t] /\ pc'[p] = "agrega_exec"
    BY <1>0, <1>6, <2>0 DEF ElegirTripulante, QuitarPrimero
  <2>2. /\ t \in Trips /\ t \in Range(cola_de_ready) /\ Range(cola_de_ready') \subseteq Range(cola_de_ready)
        /\ t \notin Range(cola_de_ready')
    BY <1>0, <2>0, <2>1, QuitarSeq
  <2>3. estado[t] = "READY" /\ ~Sacado(t)
    BY <2>2 DEF Vidas, Vida, Situado, Afuera, Enlistados, Listados
  <2>4. estado'[t] = "EXEC" /\ mano'[p] = t /\ \A u \in Trips \ {t} : estado'[u] = estado[u]
    BY <1>0, <2>1, <2>2
  <2>5. <<estado[t], estado'[t]>> \in Transiciones
    BY <2>3, <2>4 DEF Transiciones
  <2> QED BY ONLY Inductiva, Vidas, <1>00, <2>1, <2>2, <2>3, <2>4, <2>5, UnaSeMueve
<1>7. CASE AgregarAExec(p)
  <2>0. PICK t : t = mano[p]
    OBVIOUS
  <2>1. /\ UNCHANGED <<cola_de_new, cola_de_ready, cola_de_block, victima, pc_trip, procesador, expulsiones,
                       estado, mano>>
        /\ cola_de_exec' = Append(cola_de_exec, t) /\ pc[p] = "agrega_exec" /\ pc'[p] = "rafaga"
    BY <1>0, <1>7, <2>0 DEF AgregarAExec, AgregarElemento
  <2>2. t \in Trips /\ t \notin Range(cola_de_ready)
    BY <2>0, <2>1 DEF Inductiva, UnSoloLugar, Tipos, Manos, Ocupado
  <2>3. Range(cola_de_exec') = Range(cola_de_exec) \cup {t}
    BY <1>0, <2>1, <2>2, AgregarSeq
  <2>4. ~Sacado(t) /\ Situado(t)
    BY <2>0, <2>1, <2>2 DEF Vidas, Vida, Afuera
  <2>5. estado'[t] \notin {"EXPULSADO", "BLOCKED_SABOTAJE"}
    BY <2>1, <2>4 DEF Situado, Sacado
  <2> QED BY ONLY Inductiva, Vidas, <1>00, <2>1, <2>2, <2>3, <2>4, <2>5, UnaSeMueve
<1>8. CASE DarCiclo(p)
  <2>0. PICK t : t = mano[p]
    OBVIOUS
  <2>1. /\ UNCHANGED <<cola_de_new, cola_de_ready, cola_de_exec, cola_de_block, victima, pc_trip,
                       procesador, expulsiones, estado, mano>>
        /\ pc[p] = "rafaga" /\ estado[t] = "EXEC" /\ victima[p] = Nadie
    BY <1>8, <2>0 DEF DarCiclo
  <2>2. t \in Trips /\ t \notin Range(cola_de_ready)
    BY <2>0, <2>1 DEF Inductiva, UnSoloLugar, Tipos, Manos, Ocupado, Ejecutando
  <2>3. ~Sacado(t)
    BY <2>0, <2>1, <2>2 DEF Vidas, Vida, Afuera
  <2>4. \A u \in Trips \ {t} : mano'[p] # u
    BY <2>0, <2>1
  <2> QED BY ONLY Inductiva, Vidas, <1>00, <2>1, <2>2, <2>3, <2>4, UnaSeMueve
<1>9. CASE DespacharBloqueado(p)
  <2>0. PICK t : t = mano[p]
    OBVIOUS
  <2>1. /\ UNCHANGED <<cola_de_new, cola_de_ready, cola_de_exec, victima, pc_trip, procesador, expulsiones,
                       estado>>
        /\ cola_de_block' = Append(cola_de_block, t) /\ estado[t] = "BLOCKED_E_S"
        /\ pc[p] = "despacha" /\ victima[p] = Nadie /\ mano'[p] = Nadie
    BY <1>0, <1>9, <2>0 DEF DespacharBloqueado, AgregarElemento, Soltar
  <2>2. t \in Trips /\ t \notin Range(cola_de_ready)
    BY <2>0, <2>1 DEF Inductiva, UnSoloLugar, Tipos, Manos, Ocupado
  <2>3. Range(cola_de_block') = Range(cola_de_block) \cup {t}
    BY <1>0, <2>1, <2>2, AgregarSeq
  <2>4. ~Sacado(t)
    BY <2>0, <2>1, <2>2 DEF Vidas, Vida, Afuera
  <2>5. \A u \in Trips : mano'[p] # u
    BY <2>1
  <2> QED BY ONLY Inductiva, Vidas, <1>00, <2>1, <2>2, <2>3, <2>4, <2>5, UnaSeMueve
<1>10. CASE DespacharDesalojado(p)
  <2>0. PICK t : t = mano[p]
    OBVIOUS
  <2>1. /\ UNCHANGED <<cola_de_new, cola_de_block, cola_de_exec, victima, pc_trip, procesador, expulsiones>>
        /\ cola_de_ready' = Append(cola_de_ready, t) /\ estado[t] = "EXEC"
        /\ estado' = [estado EXCEPT ![t] = "READY"]
        /\ pc[p] = "despacha" /\ victima[p] = Nadie /\ mano'[p] = Nadie
    BY <1>0, <1>10, <2>0 DEF DespacharDesalojado, AReady, AgregarElemento, Soltar
  <2>2. t \in Trips
    BY <2>0, <2>1 DEF Inductiva, Tipos, Manos, Ocupado
  <2>3. Range(cola_de_ready') = Range(cola_de_ready) \cup {t}
    BY <1>0, <2>1, <2>2, AgregarSeq
  <2>4. ~Sacado(t)
    BY <2>0, <2>1, <2>2 DEF Vidas, Vida, Afuera
  <2>5. estado'[t] = "READY" /\ \A u \in Trips \ {t} : estado'[u] = estado[u]
    BY <1>0, <2>1, <2>2
  <2>6. <<estado[t], estado'[t]>> \in Transiciones /\ \A u \in Trips : mano'[p] # u
    BY <2>1, <2>5 DEF Transiciones
  <2> QED BY ONLY Inductiva, Vidas, <1>00, <2>1, <2>2, <2>3, <2>4, <2>5, <2>6, UnaSeMueve
<1> QED BY <1>1, <1>2, <1>3, <1>4, <1>5, <1>6, <1>7, <1>8, <1>9, <1>10 DEF Procesador

\* A crew with a cycle of the device is the one it serves, and is in block.
LEMMA DelDispositivo ==
  ASSUME Inductiva, Ciclos, Vidas, NEW t \in Trips, pc_trip[t] = "ciclo", sem_tri[t] > 0,
         ciclo_inicial[t]
  PROVE  /\ estado[t] = "BLOCKED_E_S" /\ ~Sacado(t)
         /\ t \notin Range(cola_de_ready) /\ \A p \in Procs : mano[p] # t
<1> USE HilosOK, ProcsOK, TripsOK
<1>1. sem_tri[t] \in Nat /\ procesador[t] \in Nat /\ es_finalizada \in Nat /\ expulsiones[t] \in Nat
  BY DEF Inductiva, Tipos, TypeOK
<1>2. Cuenta(t) /\ Entrada(t) /\ ManosAjenas /\ Vida(t)
  BY DEF Ciclos, Tripulantes, Vidas
<1>3. ~SinAvisar(t) /\ t \notin Range(cola_de_ready) /\ \A p \in Procs : mano[p] # t
  BY <1>1, <1>2 DEF SinAvisar, Entrada
<1>4. mano["es"] = t
  <2>1. Saldo(t) # Uno(pc_trip[t] = "nace")
    BY <1>1 DEF Saldo, Uno
  <2> QED BY <1>2, <1>3, <2>1 DEF Cuenta, SaldoSuelto
<1>5. pc["es"] = "espera"
  BY <1>1, <1>2, <1>3, <1>4 DEF Cuenta, SaldoDispositivo, Uno
<1>6. t \in Range(cola_de_block)
  BY <1>2, <1>4, <1>5 DEF ManosAjenas
<1>7. ~Sacado(t)
  BY <1>2, <1>6 DEF Vida, Afuera, Enlistados, Listados
<1>8. estado[t] = "BLOCKED_E_S"
  <2>1. estado[t] # "EXPULSADO"
    BY <1>2, <1>7 DEF Vida, Situado, Sacado
  <2> QED BY <1>2, <2>1 DEF Entrada
<1> QED BY <1>3, <1>7, <1>8

\* EXEC -> BLOCKED_E_S, BLOCKED_E_S -> READY and EXEC -> EXIT.
LEMMA TripulanteVida ==
  ASSUME Inductiva, Ciclos, Vidas, NEW t \in Trips, Tripulante(t)
  PROVE  Vidas' /\ Legal
<1> USE HilosOK, ProcsOK, TripsOK
    DEF EnTrip, colas, fichas, hilos, comun, propio, planificacion, tripulacion
<1>0. /\ pc_trip \in [Trips -> LugaresTrip] /\ estado \in [Trips -> Estados]
      /\ procesador \in [Trips -> Nat] /\ elegido # t /\ Entrada(t) /\ Vida(t)
  BY DEF Inductiva, Tipos, TypeOK, Ciclos, Formas, Tripulantes, Vidas
<1>1. CASE Nacer(t) \/ PedirTarea(t) \/ TareaTerminada(t) \/ PedirTareaDeExpulsado(t) \/ CicloSinPatota(t)
  <2>1. /\ UNCHANGED <<cola_de_new, cola_de_ready, cola_de_exec, cola_de_block, mano, pc, victima,
                       procesador, estado, expulsiones>>
        /\ \A u \in Trips : pc_trip[u] # "no_creado" => pc_trip'[u] # "no_creado"
    BY <1>0, <1>1 DEF Nacer, PedirTarea, TareaTerminada, PedirTareaDeExpulsado, CicloSinPatota
  <2> QED BY ONLY Vidas, <2>1, NadieSeMueve
<1>2. CASE CicloMover(t)
  <2>1. /\ UNCHANGED <<cola_de_new, cola_de_ready, cola_de_exec, cola_de_block, mano, pc, victima,
                       pc_trip, estado, expulsiones>>
        /\ \A u \in Trips : procesador'[u] = 0 => procesador[u] = 0
    BY <1>0, <1>2 DEF CicloMover
  <2> QED BY ONLY Vidas, <2>1, NadieSeMueve
<1>3. ASSUME CicloSyscall(t) \/ CicloCPU(t) PROVE Vidas' /\ Legal
  <2>1. /\ UNCHANGED <<cola_de_new, cola_de_ready, cola_de_exec, cola_de_block, mano, pc, victima,
                       expulsiones>>
        /\ pc_trip[t] = "ciclo" /\ sem_tri[t] > 0
        /\ procesador' = [procesador EXCEPT ![t] = @ + 1]
        /\ \A u \in Trips : pc_trip[u] # "no_creado" => pc_trip'[u] # "no_creado"
        /\ \/ estado' = estado
           \/ \E e \in {"BLOCKED_E_S", "EXIT"} : estado' = [estado EXCEPT ![t] = e]
    BY <1>0, <1>3 DEF CicloSyscall, CicloCPU, EsperaCiclo
  <2>2. ~ciclo_inicial[t]
    BY <1>0, <1>3 DEF CicloSyscall, CicloCPU, Entrada, TareaActual
  <2>3. PICK p \in Procs : Concedido(p, t)
    BY <2>1, <2>2, HayConcedido
  <2>4. estado[t] = "EXEC" /\ ~Sacado(t) /\ t \notin Range(cola_de_ready)
    BY <1>0, <2>3 DEF Concedido, Vida, Situado, Afuera, Listados
  <2>5. procesador'[t] # 0 /\ \A u \in Trips \ {t} : estado'[u] = estado[u] /\ procesador'[u] = procesador[u]
    BY <1>0, <2>1
  <2>6. /\ estado'[t] \in {"EXEC", "BLOCKED_E_S", "EXIT"}
        /\ estado'[t] # estado[t] => <<estado[t], estado'[t]>> \in Transiciones
    BY <1>0, <2>1, <2>4 DEF Transiciones
  <2>7. ASSUME NEW u \in Trips \ {t} PROVE Vida(u)'
    <3>1. Vida(u) /\ (Sacado(u) => u \notin Enlistados')
      BY <2>1 DEF Vidas, Vida, Afuera, Enlistados, Listados
    <3> QED BY <2>1, <2>5, <3>1, VidaIgual
  <2>8. Vida(t)'
    <3>1. ~Sacado(t)'
      BY <2>1, <2>4 DEF Sacado
    <3>2. UnaVez(t)'
      BY <1>0, <2>1 DEF Vida, UnaVez
    <3>3. Situado(t)'
      BY <2>1, <2>4, <2>5, <2>6 DEF Situado
    <3> QED BY <3>1, <3>2, <3>3 DEF Vida, Afuera
  <2> QED BY <2>5, <2>6, <2>7, <2>8 DEF Vidas, Legal
<1>4. CASE CicloES(t)
  <2>1. /\ UNCHANGED <<cola_de_new, cola_de_ready, cola_de_exec, cola_de_block, mano, pc, victima,
                       procesador, expulsiones>>
        /\ pc_trip[t] = "ciclo" /\ sem_tri[t] > 0 /\ ciclo_inicial[t]
        /\ \A u \in Trips : pc_trip[u] # "no_creado" => pc_trip'[u] # "no_creado"
        /\ estado' = estado \/ estado' = [estado EXCEPT ![t] = "READY"]
    BY <1>0, <1>4 DEF CicloES, EsperaCiclo
  <2>2. /\ estado[t] = "BLOCKED_E_S" /\ ~Sacado(t)
        /\ t \notin Range(cola_de_ready) /\ \A p \in Procs : mano[p] # t
    BY <2>1, DelDispositivo
  <2>3. /\ estado'[t] \in {"BLOCKED_E_S", "READY"}
        /\ estado'[t] # estado[t] => <<estado[t], estado'[t]>> \in Transiciones
        /\ \A u \in Trips \ {t} : estado'[u] = estado[u]
    BY <1>0, <2>1, <2>2 DEF Transiciones
  <2> QED BY ONLY Inductiva, Vidas, t \in Trips, <2>1, <2>2, <2>3, UnaSeMueve
<1> QED BY <1>1, <1>2, <1>3, <1>4 DEF Tripulante, Ciclo

\* At first there are no crews.
LEMMA VidasInicial == Init => Vidas
<1> SUFFICES ASSUME Init, NEW t \in Trips PROVE Vida(t)
  BY DEF Vidas
<1>1. /\ expulsiones[t] = 0 /\ estado[t] = "NEW" /\ cola_de_ready = <<>>
      /\ \A h \in Hilos : victima[h] # t /\ mano[h] # t
  BY TripsOK DEF Init
<1>2. Range(<<>>) = {}
  BY DEF Range
<1> QED BY <1>1, <1>2, ProcsOK DEF Vida, UnaVez, Afuera, Situado, Sacado

LEMMA VidasPaso ==
  ASSUME UnProcesador, Inductiva, Ciclos, Vidas, [Next]_vars
  PROVE  Vidas' /\ Legal
<1>1. CASE UNCHANGED vars
  <2>1. UNCHANGED <<cola_de_new, cola_de_ready, cola_de_exec, cola_de_block, mano, pc, victima,
                    pc_trip, procesador, estado, expulsiones>>
    BY <1>1 DEF vars, colas, hilos, propio, comun
  <2> QED BY ONLY Vidas, <2>1, NadieSeMueve
<1>2. CASE Next
  BY <1>2, ConsolaVida, GestorVida, LargoPlazoVida, ProcesadorVida, DispositivoVida, TripulanteVida
     DEF Next
<1> QED BY <1>1, <1>2

\* With one processor, however the user expels, the thread that finds a crew marked for
\* expulsion is the only one to, and Mi-RAM-HQ is told once.
THEOREM UnaExpulsion == UnProcesador => (Spec => []ExpulsionUnica)
<1> SUFFICES ASSUME UnProcesador PROVE Spec => []ExpulsionUnica
  OBVIOUS
<1>1. Init => Inductiva /\ Ciclos /\ Vidas
  BY InductivaInicial, CiclosInicial, VidasInicial
<1>2. Inductiva /\ Ciclos /\ Vidas /\ [Next]_vars => (Inductiva /\ Ciclos /\ Vidas)'
  BY InductivaPaso, CiclosPaso, VidasPaso
<1>3. Vidas => ExpulsionUnica
  BY DEF Vidas, Vida, UnaVez, ExpulsionUnica
<1> QED BY <1>1, <1>2, <1>3, PTL DEF Spec

\* With one processor every write of estado, of whatever thread, is one of the diagram: nobody
\* writes over EXPULSADO, or READY over what another thread has just written.
THEOREM VidaDelTripulante == UnProcesador => (Spec => DiagramaDeEstados)
<1> SUFFICES ASSUME UnProcesador PROVE Spec => DiagramaDeEstados
  OBVIOUS
<1>1. Init => Inductiva /\ Ciclos /\ Vidas
  BY InductivaInicial, CiclosInicial, VidasInicial
<1>2. Inductiva /\ Ciclos /\ Vidas /\ [Next]_vars => (Inductiva /\ Ciclos /\ Vidas)'
  BY InductivaPaso, CiclosPaso, VidasPaso
<1>3. Inductiva /\ Ciclos /\ Vidas /\ [Next]_vars =>
        [\A t \in Trips : estado'[t] # estado[t] => <<estado[t], estado'[t]>> \in Transiciones]_vars
  BY VidasPaso DEF Legal
<1> QED BY <1>1, <1>2, <1>3, PTL DEF Spec, DiagramaDeEstados

====
