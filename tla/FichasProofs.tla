---------------------------- MODULE FichasProofs ----------------------------
(***************************************************************************)
(* What holds of the counters of the scheduler for any number of           *)
(* processors, crews, tasks and commands: the quantum each processor       *)
(* carries from burst to burst, and the tokens of ready, through a         *)
(* sabotage too.                                                           *)
(***************************************************************************)
EXTENDS PlanificadorProofs, Sabotaje, FiniteSetTheorems

-----------------------------------------------------------------------------
(* Which steps a processor sees.                                             *)

\* Crews, console and the thread that starts patotas leave the threads that plan alone.
LEMMA NoPlanifican ==
  ASSUME \/ Consola \/ \E h \in Hilos : Reanudar(h)
         \/ Gestor \/ \E t \in Trips : Tripulante(t)
  PROVE  UNCHANGED <<pc, quantum, cola_de_ready, sem_ready>>
<1> USE DEF colas, fichas, compuerta, hilos, consola, creacion, propio, comun, emergencia,
        ajeno, planificacion, tripulacion
<1>1. CASE Consola
  BY <1>1 DEF Consola, IniciarPatota, PausarPlanificacion, IniciarPlanificacion,
     ExpulsarTripulante
<1>2. CASE \E h \in Hilos : Reanudar(h)
  BY <1>2 DEF Reanudar
<1>3. CASE Gestor
  BY <1>3 DEF Gestor, PedirMemoria, MemoriaDenegada, MemoriaConcedida, CrearTripulante,
     RegistrarPatota
<1>4. ASSUME NEW t \in Trips, Tripulante(t)
      PROVE  UNCHANGED <<pc, quantum, cola_de_ready, sem_ready>>
  <2>1. CASE Nacer(t) \/ PedirTarea(t) \/ PedirTareaDeExpulsado(t) \/ TareaTerminada(t)
    BY <2>1 DEF Nacer, PedirTarea, PedirTareaDeExpulsado, TareaTerminada
  <2>2. CASE CicloMover(t) \/ CicloSyscall(t)
    BY <2>2 DEF CicloMover, CicloSyscall
  <2>3. CASE CicloES(t) \/ CicloCPU(t) \/ CicloSinPatota(t)
    BY <2>3 DEF CicloES, CicloCPU, CicloSinPatota
  <2> QED BY <1>4, <2>1, <2>2, <2>3 DEF Tripulante, Ciclo
<1> QED BY <1>1, <1>2, <1>3, <1>4

\* What happens to a processor's place and to its quantum when it is not its turn:
\* nothing.
LEMMA Ajenos ==
  ASSUME TypeOK, NEW p \in Procs, Next, ~Procesador(p)
  PROVE  pc'[p] = pc[p] /\ quantum'[p] = quantum[p]
<1> USE ProcsOK DEF TypeOK, colas, fichas, compuerta, hilos, consola, creacion, propio, comun,
        emergencia, ajeno, planificacion, tripulacion
<1>4. CASE PlanificadorLargoPlazo
  BY <1>4 DEF PlanificadorLargoPlazo, TripulanteExpulsado, TomarNew, PasarCompuerta, LeerPausa,
     Drenar, Reanudarse, ExpulsarDeNew, MoverAReady, AvisarReady
<1>5. CASE Dispositivo
  BY <1>5 DEF Dispositivo, TripulanteExpulsado, TomarBlock, ExpulsarDeBlock, ElegirBloqueado,
     DarCicloES, CicloESTerminado, PasarCompuerta, LeerPausa, Drenar, Reanudarse,
     ExpulsarEnCiclo, DesbloquearTripulante, SoltarExpulsado
<1>6. CASE \/ Consola \/ \E h \in Hilos : Reanudar(h)
           \/ Gestor \/ \E t \in Trips : Tripulante(t)
  BY <1>6, NoPlanifican
<1>7. ASSUME NEW q \in Procs \ {p}, Procesador(q)
      PROVE  pc'[p] = pc[p] /\ quantum'[p] = quantum[p]
  <2>1. /\ p \in Procs /\ q \in Procs /\ p # q /\ p \in Hilos /\ q \in Hilos
        /\ pc \in [Hilos -> Lugares] /\ quantum \in [Procs -> Nat]
    BY <1>7 DEF Hilos
  <2> HIDE DEF TypeOK
  <2>2. CASE TripulanteExpulsado(q) \/ TomarReady(q) \/ PasarCompuerta(q)
             \/ ExpulsarDeReady(q) \/ ElegirTripulante(q) \/ NadieAElegir(q)
    BY <2>1, <2>2 DEF TripulanteExpulsado, TomarReady, PasarCompuerta, LeerPausa, Drenar,
       Reanudarse, ExpulsarDeReady, ElegirTripulante, NadieAElegir
  <2>3. CASE AgregarAExec(q) \/ DarCiclo(q) \/ CicloTerminado(q) \/ RevisarReady(q)
             \/ RevisarPausa(q) \/ AtenderPausa(q)
    BY <2>1, <2>3 DEF AgregarAExec, DarCiclo, CicloTerminado, RevisarReady, RevisarPausa,
       AtenderPausa
  <2>4. CASE SeguirRafaga(q) \/ FinDeRafaga(q) \/ SalirDeExec(q)
    BY <2>1, <2>4 DEF SeguirRafaga, FinDeRafaga, SalirDeExec
  <2>5. CASE DespacharBloqueado(q) \/ DespacharDesalojado(q) \/ DespacharSinCola(q)
    BY <2>1, <2>5 DEF DespacharBloqueado, DespacharDesalojado, DespacharSinCola, Soltar
  <2> QED BY <1>7, <2>2, <2>3, <2>4, <2>5 DEF Procesador
<1> QED BY <1>4, <1>5, <1>6, <1>7 DEF Next

-----------------------------------------------------------------------------
(* The quantum.                                                              *)

\* Where a processor may be with its quantum used up: from the answer to a cycle to the
\* end of the turn.
Gastando == {"revisa_ready", "revisa_pausa", "atiende_pausa", "detenido_en_rafaga", "rafaga",
             "sale_de_exec", "despacha"}

\* A quantum is never exceeded, which is why the code may start it again only when it is
\* exactly used up; and between bursts there is some of it left.
Cuantos ==
  Algoritmo = "RR" => \A p \in Procs :
    /\ quantum[p] <= quantum_rr
    /\ pc[p] \notin Gastando => quantum[p] < quantum_rr

\* A processor's own steps.
LEMMA CuantosProcesador ==
  ASSUME Tipos, Cuantos, Algoritmo = "RR", NEW p \in Procs, Procesador(p)
  PROVE  quantum'[p] <= quantum_rr /\ (pc'[p] \notin Gastando => quantum'[p] < quantum_rr)
<1> USE ProcsOK, ConstantesOK DEF En, hilos
<1>1. /\ quantum \in [Procs -> Nat] /\ pc \in [Hilos -> Lugares] /\ quantum_rr \in Nat \ {0}
      /\ quantum[p] <= quantum_rr /\ (pc[p] \notin Gastando => quantum[p] < quantum_rr)
  BY DEF Tipos, TypeOK, Cuantos
<1>2. CASE quantum' = quantum /\ (pc[p] \in Gastando => pc'[p] \in Gastando)
  BY <1>1, <1>2
<1>3. CASE quantum' = quantum /\ quantum[p] < quantum_rr
  BY <1>1, <1>3
<1>4. CASE CicloTerminado(p)
  BY <1>1, <1>4 DEF CicloTerminado, Gastando
<1>5. CASE DespacharBloqueado(p) \/ DespacharDesalojado(p) \/ DespacharSinCola(p)
  <2>1. quantum' = [quantum EXCEPT ![p] = IF @ = quantum_rr THEN 0 ELSE @]
    BY <1>5 DEF DespacharBloqueado, DespacharDesalojado, DespacharSinCola, Soltar
  <2> QED BY <1>1, <2>1
<1>6. CASE TripulanteExpulsado(p)
  BY <1>2, <1>6 DEF TripulanteExpulsado
<1>7. CASE TomarReady(p) \/ PasarCompuerta(p) \/ ExpulsarDeReady(p) \/ ElegirTripulante(p)
           \/ NadieAElegir(p) \/ AgregarAExec(p)
  <2>1. quantum' = quantum /\ pc[p] \notin Gastando
    BY <1>7 DEF TomarReady, PasarCompuerta, LeerPausa, Drenar, Reanudarse, ExpulsarDeReady,
       ElegirTripulante, NadieAElegir, AgregarAExec, Gastando
  <2> QED BY <1>1, <1>3, <2>1
<1>8. CASE DarCiclo(p)
  BY <1>1, <1>3, <1>8 DEF DarCiclo, QuantumAgotado
<1>9. CASE RevisarReady(p) \/ RevisarPausa(p) \/ AtenderPausa(p) \/ SeguirRafaga(p)
           \/ FinDeRafaga(p) \/ SalirDeExec(p)
  <2>1. quantum' = quantum /\ pc'[p] \in Gastando
    BY <1>1, <1>9 DEF RevisarReady, RevisarPausa, AtenderPausa, SeguirRafaga, FinDeRafaga,
       SalirDeExec, Gastando
  <2> QED BY <1>2, <2>1
<1> QED BY <1>4, <1>5, <1>6, <1>7, <1>8, <1>9 DEF Procesador

\* Every step keeps the quanta within bounds.
LEMMA CuantosPaso == Tipos /\ Cuantos /\ [Next]_vars => Cuantos'
<1>1. SUFFICES ASSUME Tipos, Cuantos, [Next]_vars, Algoritmo = "RR", NEW p \in Procs
               PROVE  /\ quantum'[p] <= quantum_rr
                      /\ pc'[p] \notin Gastando => quantum'[p] < quantum_rr
  BY DEF Cuantos
<1>2. CASE Procesador(p)
  BY <1>1, <1>2, CuantosProcesador
<1>3. CASE ~Procesador(p)
  <2>1. pc'[p] = pc[p] /\ quantum'[p] = quantum[p]
    <3>1. CASE UNCHANGED vars
      BY <3>1 DEF vars, hilos
    <3>2. CASE Next
      BY <1>1, <1>3, <3>2, Ajenos DEF Tipos
    <3> QED BY <1>1, <3>1, <3>2
  <2> QED BY <1>1, <2>1 DEF Cuantos
<1> QED BY <1>2, <1>3

\* For any number of processors and crews and any quantum: no burst of round robin starts
\* with nothing left to give (procesar_tripulante_rr starts the quantum again in time).
THEOREM SpecRafagaUtil == Spec => []RafagaUtil
<1>1. Init => Cuantos
  BY ConstantesOK DEF Init, Cuantos
<1>2. Tipos /\ Cuantos => RafagaUtil
  <2>1. SUFFICES ASSUME Tipos, Cuantos, NEW p \in Procs, pc[p] = "agrega_exec"
                 PROVE  ~QuantumAgotado(p)
    BY DEF RafagaUtil
  <2>2. CASE Algoritmo = "RR"
    <3>1. "agrega_exec" \notin Gastando
      BY DEF Gastando
    <3>2. quantum[p] \in Nat /\ quantum_rr \in Nat
      BY <2>1, ConstantesOK DEF Tipos, TypeOK, hilos
    <3>3. quantum[p] < quantum_rr
      BY <2>1, <2>2, <3>1 DEF Cuantos
    <3> QED BY <3>2, <3>3 DEF QuantumAgotado
  <2> QED BY <2>2 DEF QuantumAgotado
<1> QED BY <1>1, <1>2, TiposInicial, TiposPaso, CuantosPaso, PTL DEF Spec

-----------------------------------------------------------------------------
(* The tokens of ready.                                                      *)

\* Where a processor that took a token of ready has yet to look in the list.
Mirando == {"lee_pausa", "drena", "detenido", "expulsa", "elige"}

\* The threads that hold a token, or that are about to post one.
Avisan ==
  {h \in Procs \cup {"planificador"} :
     \/ h \in Procs /\ pc[h] \in Mirando
     \/ h = "planificador" /\ pc[h] = "avisa"}

\* FichasAlcanzan, with one set and with d crews more to tell of.
Alcanzan(d) == Len(cola_de_ready) + d <= sem_ready + Cardinality(Avisan)

LEMMA AvisanFinito ==
  /\ IsFiniteSet(Avisan) /\ Cardinality(Avisan) \in Nat
  /\ IsFiniteSet(Avisan') /\ Cardinality(Avisan') \in Nat
<1>1. IsFiniteSet(Procs \cup {"planificador"})
  BY ConstantesOK, FS_AddElement
<1>2. /\ Avisan \in SUBSET (Procs \cup {"planificador"})
      /\ Avisan' \in SUBSET (Procs \cup {"planificador"})
  BY DEF Avisan
<1>3. IsFiniteSet(Avisan) /\ IsFiniteSet(Avisan')
  BY <1>1, <1>2, FS_Subset
<1> QED BY <1>3, FS_CardinalityType

\* The two ways of counting who holds a token.
LEMMA CuantosAvisan ==
  ASSUME Tipos
  PROVE  LET Miran == {p \in Procs : pc[p] \in Mirando}
         IN  /\ Cardinality(Miran) \in Nat
             /\ Cardinality(Avisan) = Uno(pc["planificador"] = "avisa") + Cardinality(Miran)
<1> DEFINE Miran == {p \in Procs : pc[p] \in Mirando}
<1>1. IsFiniteSet(Miran) /\ Cardinality(Miran) \in Nat
  <2>1. IsFiniteSet(Procs) /\ Miran \in SUBSET Procs
    BY ConstantesOK
  <2>2. IsFiniteSet(Miran)
    BY <2>1, FS_Subset
  <2> QED BY <2>2, FS_CardinalityType
<1>2. CASE pc["planificador"] = "avisa"
  <2>1. Avisan = Miran \cup {"planificador"} /\ "planificador" \notin Miran
    BY <1>2, ProcsOK DEF Avisan
  <2>2. Cardinality(Avisan) = Cardinality(Miran) + 1
    BY <1>1, <2>1, FS_AddElement
  <2>3. Uno(pc["planificador"] = "avisa") = 1
    BY <1>2 DEF Uno
  <2> HIDE DEF Miran
  <2>4. Cardinality(Avisan) = Uno(pc["planificador"] = "avisa") + Cardinality(Miran)
    BY <1>1, <2>2, <2>3
  <2> QED BY <1>1, <2>4 DEF Miran
<1>3. CASE pc["planificador"] # "avisa"
  <2>1. Avisan = Miran
    BY <1>3, ProcsOK DEF Avisan
  <2>2. Uno(pc["planificador"] = "avisa") = 0
    BY <1>3 DEF Uno
  <2> HIDE DEF Miran
  <2>3. Cardinality(Avisan) = Uno(pc["planificador"] = "avisa") + Cardinality(Miran)
    BY <1>1, <2>1, <2>2
  <2> QED BY <1>1, <2>3 DEF Miran
<1> QED BY <1>2, <1>3

\* So it is FichasAlcanzan.
LEMMA AlcanzanEs == Tipos /\ Alcanzan(0) => FichasAlcanzan
<1> SUFFICES ASSUME Tipos, Alcanzan(0) PROVE FichasAlcanzan
  OBVIOUS
<1> DEFINE Miran == {p \in Procs : pc[p] \in Mirando}
<1>1. Len(cola_de_ready) \in Nat /\ sem_ready \in Nat
  BY LenProperties DEF Tipos, TypeOK
<1>2. /\ Cardinality(Miran) \in Nat
      /\ Cardinality(Avisan) = Uno(pc["planificador"] = "avisa") + Cardinality(Miran)
  BY CuantosAvisan
<1>3. Len(cola_de_ready)
        <= sem_ready + Uno(pc["planificador"] = "avisa") + Cardinality(Miran)
  <2> HIDE DEF Miran
  <2> QED BY <1>1, <1>2 DEF Alcanzan, Uno
<1> QED BY <1>3 DEF FichasAlcanzan, Mirando

\* A crew that joins ready comes with its token, and nobody who holds one lets go.
LEMMA NadieSuelta ==
  ASSUME Tipos, Tipos', NEW d \in Int, Alcanzan(d), Avisan \subseteq Avisan',
         Len(cola_de_ready') - Len(cola_de_ready) <= sem_ready' - sem_ready
  PROVE  Alcanzan(d)'
<1>1. /\ Len(cola_de_ready) \in Nat /\ sem_ready \in Nat
      /\ Len(cola_de_ready') \in Nat /\ sem_ready' \in Nat
  BY LenProperties DEF Tipos, TypeOK
<1>2. Cardinality(Avisan) <= Cardinality(Avisan')
  BY AvisanFinito, FS_Subset
<1> QED BY <1>1, <1>2, AvisanFinito DEF Alcanzan

\* A thread takes a token, or a crew for which it will post one.
LEMMA UnoToma ==
  ASSUME Tipos, Tipos', NEW d \in Int, Alcanzan(d),
         NEW h, h \notin Avisan, Avisan' = Avisan \cup {h},
         Len(cola_de_ready') - Len(cola_de_ready) <= sem_ready' - sem_ready + 1
  PROVE  Alcanzan(d)'
<1>1. /\ Len(cola_de_ready) \in Nat /\ sem_ready \in Nat
      /\ Len(cola_de_ready') \in Nat /\ sem_ready' \in Nat
  BY LenProperties DEF Tipos, TypeOK
<1>2. /\ Cardinality(Avisan) \in Nat
      /\ Cardinality(Avisan') = Cardinality(Avisan) + 1
  BY AvisanFinito, FS_AddElement
<1> QED BY <1>1, <1>2 DEF Alcanzan

\* A thread lets its token go: it took a crew out of ready, or posted the token.
LEMMA UnoSuelta ==
  ASSUME Tipos, Tipos', NEW d \in Int, Alcanzan(d),
         NEW h, h \in Avisan, Avisan' = Avisan \ {h},
         Len(cola_de_ready') - Len(cola_de_ready) <= sem_ready' - sem_ready - 1
  PROVE  Alcanzan(d)'
<1>1. /\ Len(cola_de_ready) \in Nat /\ sem_ready \in Nat
      /\ Len(cola_de_ready') \in Nat /\ sem_ready' \in Nat
  BY LenProperties DEF Tipos, TypeOK
<1>2. /\ Cardinality(Avisan) \in Nat
      /\ Cardinality(Avisan') = Cardinality(Avisan) - 1
  BY AvisanFinito, FS_RemoveElement
<1> QED BY <1>1, <1>2 DEF Alcanzan

\* Where each thread that moved leaves the set.
LEMMA Avance ==
  ASSUME Tipos, NEW h \in Hilos, NEW x, pc' = [pc EXCEPT ![h] = x]
  PROVE  /\ h \in Procs /\ x \in Mirando => Avisan' = Avisan \cup {h}
         /\ h \in Procs /\ x \notin Mirando => Avisan' = Avisan \ {h}
         /\ h = "planificador" /\ x = "avisa" => Avisan' = Avisan \cup {h}
         /\ h = "planificador" /\ x # "avisa" => Avisan' = Avisan \ {h}
         /\ h = "es" => Avisan' = Avisan
<1>1. /\ pc'[h] = x /\ \A g \in Procs \cup {"planificador"} : g # h => pc'[g] = pc[g]
      /\ \A p \in Procs : p # "planificador" /\ p # "es"
  BY ProcsOK, HilosOK DEF Tipos, TypeOK
<1> QED BY <1>1 DEF Avisan

\* What a list an expelled crew leaves has lost.
LEMMA SacarLargo ==
  ASSUME NEW h, NEW c \in Seq(Trips), NEW d, SacarExpulsado(h, c, d)
  PROVE  /\ Len(d) \in Nat /\ Len(d) <= Len(c)
         /\ ~SinExpulsados(c) => Len(d) = Len(c) - 1
<1>1. CASE SinExpulsados(c)
  <2>1. d = c
    BY <1>1 DEF SacarExpulsado, PrimerExpulsado, SinExpulsados
  <2> QED BY <1>1, <2>1, LenProperties
<1>2. CASE ~SinExpulsados(c)
  <2>1. PICK i \in DOMAIN c : d = RemoveAt(c, i)
    BY <1>2 DEF SacarExpulsado
  <2>2. Len(c) \in Nat /\ Len(d) = Len(c) - 1 /\ i \in 1..Len(c)
    BY <2>1, SacarLen, LenProperties
  <2> QED BY <1>2, <2>2
<1> QED BY <1>1, <1>2

\* The steps of a processor.
LEMMA ProcesadorFichas ==
  ASSUME Tipos, Tipos', NEW d \in Int, Alcanzan(d), NEW p \in Procs, Procesador(p),
         pc[p] = "elige" => d <= 0
  PROVE  Alcanzan(d)'
<1> USE DEF colas, fichas, En
<1>1. /\ cola_de_ready \in Seq(Trips) /\ Len(cola_de_ready) \in Nat /\ sem_ready \in Nat
      /\ p \in Hilos /\ (p \in Avisan <=> pc[p] \in Mirando)
  BY LenProperties, ProcsOK DEF Tipos, TypeOK, Avisan
<1>2. CASE TripulanteExpulsado(p)
  <2>1. UNCHANGED <<pc, cola_de_ready, sem_ready>>
    BY <1>2 DEF TripulanteExpulsado
  <2>2. Avisan' = Avisan
    BY <2>1 DEF Avisan
  <2> QED BY <1>1, <2>1, <2>2, NadieSuelta
<1>3. CASE TomarReady(p)
  <2>1. /\ pc[p] \notin Mirando /\ Avisan' = Avisan \cup {p}
        /\ sem_ready' = sem_ready - 1 /\ cola_de_ready' = cola_de_ready
    BY <1>1, <1>3, Avance DEF TomarReady, Mirando
  <2> QED BY <1>1, <2>1, UnoToma
<1>4. CASE PasarCompuerta(p)
  <2>1. PICK x \in Mirando : pc' = [pc EXCEPT ![p] = x]
    BY <1>4, ProcsOK DEF PasarCompuerta, LeerPausa, Drenar, Reanudarse, TrasCompuerta, Mirando
  <2>2. UNCHANGED <<cola_de_ready, sem_ready>>
    BY <1>4 DEF PasarCompuerta, LeerPausa, Drenar, Reanudarse
  <2>3. Avisan' = Avisan \cup {p}
    BY <1>1, <2>1, Avance
  <2> QED BY <1>1, <2>2, <2>3, NadieSuelta
<1>5. CASE ExpulsarDeReady(p)
  <2>1. /\ pc[p] \in Mirando /\ sem_ready' = sem_ready
        /\ SacarExpulsado(p, cola_de_ready, cola_de_ready')
        /\ pc' = [pc EXCEPT ![p] = IF SinExpulsados(cola_de_ready) THEN "elige" ELSE "libre"]
    BY <1>5 DEF ExpulsarDeReady, Mirando
  <2>2. /\ Len(cola_de_ready') \in Nat /\ Len(cola_de_ready') <= Len(cola_de_ready)
        /\ ~SinExpulsados(cola_de_ready) => Len(cola_de_ready') = Len(cola_de_ready) - 1
    BY <1>1, <2>1, SacarLargo
  <2>3. CASE SinExpulsados(cola_de_ready)
    <3>1. Avisan' = Avisan \cup {p}
      BY <1>1, <2>1, <2>3, Avance DEF Mirando
    <3> QED BY <1>1, <2>1, <2>2, <3>1, NadieSuelta
  <2>4. CASE ~SinExpulsados(cola_de_ready)
    <3>1. pc' = [pc EXCEPT ![p] = "libre"] /\ "libre" \notin Mirando
      BY <2>1, <2>4 DEF Mirando
    <3>2. Avisan' = Avisan \ {p}
      BY <1>1, <3>1, Avance
    <3> QED BY <1>1, <2>1, <2>2, <2>4, <3>2, UnoSuelta
  <2> QED BY <2>3, <2>4
<1>6. CASE ElegirTripulante(p)
  <2>1. /\ pc[p] \in Mirando /\ sem_ready' = sem_ready /\ cola_de_ready # <<>>
        /\ cola_de_ready' = Tail(cola_de_ready)
        /\ pc' = [pc EXCEPT ![p] = "agrega_exec"]
    BY <1>6 DEF ElegirTripulante, QuitarPrimero, Mirando
  <2>2. Len(Tail(cola_de_ready)) = Len(cola_de_ready) - 1
    BY ONLY <1>1, <2>1, HeadTailProperties
  <2>3. "agrega_exec" \notin Mirando
    BY DEF Mirando
  <2>4. Avisan' = Avisan \ {p}
    BY <1>1, <2>1, <2>3, Avance
  <2> QED BY <1>1, <2>1, <2>2, <2>4, UnoSuelta
<1>7. CASE NadieAElegir(p)
  <2>1. cola_de_ready' = <<>> /\ sem_ready' = sem_ready /\ d <= 0
    BY <1>7 DEF NadieAElegir
  <2> QED BY <1>1, <2>1, AvisanFinito, EmptySeq DEF Alcanzan
<1>8. CASE \/ AgregarAExec(p) \/ DarCiclo(p) \/ CicloTerminado(p) \/ RevisarReady(p)
           \/ RevisarPausa(p) \/ AtenderPausa(p) \/ SeguirRafaga(p) \/ FinDeRafaga(p)
           \/ SalirDeExec(p) \/ DespacharBloqueado(p) \/ DespacharDesalojado(p)
           \/ DespacharSinCola(p)
  <2>1. p \notin Avisan
    BY <1>1, <1>8 DEF AgregarAExec, DarCiclo, CicloTerminado, RevisarReady, RevisarPausa,
       AtenderPausa, SeguirRafaga, FinDeRafaga, SalirDeExec, DespacharBloqueado,
       DespacharDesalojado, DespacharSinCola, Mirando
  <2>2. PICK x : pc' = [pc EXCEPT ![p] = x]
    BY <1>8 DEF AgregarAExec, DarCiclo, CicloTerminado, RevisarReady, RevisarPausa,
       AtenderPausa, SeguirRafaga, FinDeRafaga, SalirDeExec, DespacharBloqueado,
       DespacharDesalojado, DespacharSinCola, Soltar
  <2>3. Avisan \subseteq Avisan'
    BY <1>1, <2>1, <2>2, Avance
  <2>4. CASE RevisarReady(p)
    <3>1. sem_ready' = sem_ready /\ SacarExpulsado(p, cola_de_ready, cola_de_ready')
      BY <2>4 DEF RevisarReady
    <3>2. Len(cola_de_ready') \in Nat /\ Len(cola_de_ready') <= Len(cola_de_ready)
      BY <1>1, <3>1, SacarLargo
    <3> QED BY <1>1, <2>3, <3>1, <3>2, NadieSuelta
  <2>5. CASE DespacharDesalojado(p)
    <3>1. sem_ready' = sem_ready + 1 /\ cola_de_ready' = Append(cola_de_ready, mano[p])
      BY <2>5 DEF DespacharDesalojado, AReady, AgregarElemento
    <3>2. mano[p] \in Trips \cup {Nadie} /\ cola_de_ready \in Seq(Trips \cup {Nadie})
      <4>1. mano[p] \in Trips \cup {Nadie}
        BY <1>1 DEF Tipos, TypeOK
      <4> QED BY <1>1, <4>1, SeqMonotonic
    <3>3. Len(Append(cola_de_ready, mano[p])) = Len(cola_de_ready) + 1
      BY ONLY <3>2, AppendProperties
    <3> QED BY <1>1, <2>3, <3>1, <3>3, NadieSuelta
  <2>6. CASE ~RevisarReady(p) /\ ~DespacharDesalojado(p)
    <3>1. UNCHANGED <<cola_de_ready, sem_ready>>
      BY <1>8, <2>6 DEF AgregarAExec, DarCiclo, CicloTerminado, RevisarPausa, AtenderPausa,
         SeguirRafaga, FinDeRafaga, SalirDeExec, DespacharBloqueado, DespacharSinCola
    <3> QED BY <1>1, <2>3, <3>1, NadieSuelta
  <2> QED BY <2>4, <2>5, <2>6
<1> QED BY <1>2, <1>3, <1>4, <1>5, <1>6, <1>7, <1>8 DEF Procesador

\* The steps of the long-term scheduler.
LEMMA PlanificadorFichas ==
  ASSUME Tipos, Tipos', NEW d \in Int, Alcanzan(d), PlanificadorLargoPlazo
  PROVE  Alcanzan(d)'
<1> USE DEF colas, fichas, En
<1> DEFINE h == "planificador"
<1>1. /\ cola_de_ready \in Seq(Trips) /\ Len(cola_de_ready) \in Nat /\ sem_ready \in Nat
      /\ h \in Hilos /\ h \notin Procs /\ (h \in Avisan <=> pc[h] = "avisa")
  BY LenProperties, HilosOK, ProcsOK DEF Tipos, TypeOK, Avisan
<1>2. CASE TripulanteExpulsado(h)
  <2>1. UNCHANGED <<pc, cola_de_ready, sem_ready>>
    BY <1>2 DEF TripulanteExpulsado
  <2>2. Avisan' = Avisan
    BY <2>1 DEF Avisan
  <2> QED BY <1>1, <2>1, <2>2, NadieSuelta
<1>3. CASE TomarNew \/ PasarCompuerta(h) \/ ExpulsarDeNew
  <2>1. h \notin Avisan /\ UNCHANGED <<cola_de_ready, sem_ready>>
    BY <1>1, <1>3 DEF TomarNew, PasarCompuerta, LeerPausa, Drenar, Reanudarse, ExpulsarDeNew
  <2>2. PICK x : pc' = [pc EXCEPT ![h] = x]
    BY <1>3 DEF TomarNew, PasarCompuerta, LeerPausa, Drenar, Reanudarse, ExpulsarDeNew
  <2>3. Avisan \subseteq Avisan'
    BY <1>1, <2>1, <2>2, Avance
  <2> QED BY <1>1, <2>1, <2>3, NadieSuelta
<1>4. CASE MoverAReady
  <2>1. CASE cola_de_new = <<>>
    <3>1. UNCHANGED <<pc, cola_de_ready, sem_ready>>
      BY <1>4, <2>1 DEF MoverAReady
    <3>2. Avisan' = Avisan
      BY <3>1 DEF Avisan
    <3> QED BY <1>1, <3>1, <3>2, NadieSuelta
  <2>2. CASE cola_de_new # <<>>
    <3>1. /\ pc[h] # "avisa" /\ pc' = [pc EXCEPT ![h] = "avisa"] /\ sem_ready' = sem_ready
          /\ cola_de_ready' = Append(cola_de_ready, Head(cola_de_new))
      BY <1>4, <2>2 DEF MoverAReady, AgregarElemento
    <3>2. Head(cola_de_new) \in Trips
      BY <2>2, QuitarSeq DEF Tipos, TypeOK
    <3>3. Len(Append(cola_de_ready, Head(cola_de_new))) = Len(cola_de_ready) + 1
      BY ONLY <1>1, <3>2, AppendProperties
    <3>4. h \notin Avisan /\ Avisan' = Avisan \cup {h}
      BY <1>1, <3>1, Avance
    <3> QED BY <1>1, <3>1, <3>3, <3>4, UnoToma
  <2> QED BY <2>1, <2>2
<1>5. CASE AvisarReady
  <2>1. /\ pc[h] = "avisa" /\ pc' = [pc EXCEPT ![h] = "libre"]
        /\ sem_ready' = sem_ready + 1 /\ cola_de_ready' = cola_de_ready
    BY <1>5 DEF AvisarReady
  <2>2. h \in Avisan /\ Avisan' = Avisan \ {h}
    BY <1>1, <2>1, Avance
  <2> QED BY <1>1, <2>1, <2>2, UnoSuelta
<1> QED BY <1>2, <1>3, <1>4, <1>5 DEF PlanificadorLargoPlazo

\* The steps of the I/O device.
LEMMA DispositivoFichas ==
  ASSUME Tipos, Tipos', NEW d \in Int, Alcanzan(d), Dispositivo
  PROVE  Alcanzan(d)'
<1> USE DEF colas, fichas, En
<1>1. /\ cola_de_ready \in Seq(Trips) /\ Len(cola_de_ready) \in Nat /\ sem_ready \in Nat
      /\ "es" \in Hilos
  BY LenProperties, HilosOK DEF Tipos, TypeOK
<1>2. pc' = pc \/ \E x : pc' = [pc EXCEPT !["es"] = x]
  BY DEF Dispositivo, TripulanteExpulsado, TomarBlock, ExpulsarDeBlock, ElegirBloqueado,
     DarCicloES, CicloESTerminado, PasarCompuerta, LeerPausa, Drenar, Reanudarse,
     ExpulsarEnCiclo, DesbloquearTripulante, SoltarExpulsado
<1>3. Avisan' = Avisan
  <2>1. CASE pc' = pc
    BY <2>1 DEF Avisan
  <2>2. CASE \E x : pc' = [pc EXCEPT !["es"] = x]
    BY <1>1, <2>2, Avance
  <2> QED BY <1>2, <2>1, <2>2
<1>4. CASE DesbloquearTripulante
  <2>1. /\ sem_ready' = sem_ready + 1
        /\ cola_de_ready' = Append(cola_de_ready, Head(cola_de_block))
        /\ cola_de_block # <<>>
    BY <1>4 DEF DesbloquearTripulante, AReady, AgregarElemento
  <2>2. Head(cola_de_block) \in Trips
    BY <2>1, QuitarSeq DEF Tipos, TypeOK
  <2>3. Len(Append(cola_de_ready, Head(cola_de_block))) = Len(cola_de_ready) + 1
    BY ONLY <1>1, <2>2, AppendProperties
  <2> QED BY <1>1, <1>3, <2>1, <2>3, NadieSuelta
<1>5. CASE ~DesbloquearTripulante
  <2>1. UNCHANGED <<cola_de_ready, sem_ready>>
    BY <1>5 DEF Dispositivo, TripulanteExpulsado, TomarBlock, ExpulsarDeBlock, ElegirBloqueado,
       DarCicloES, CicloESTerminado, PasarCompuerta, LeerPausa, Drenar, Reanudarse,
       ExpulsarEnCiclo, SoltarExpulsado
  <2> QED BY <1>1, <1>3, <2>1, NadieSuelta
<1> QED BY <1>4, <1>5

\* Every step keeps the tokens enough.
LEMMA FichasPaso ==
  ASSUME Tipos, Tipos', NEW d \in Int, Alcanzan(d), [Next]_vars,
         d <= 0 \/ \A p \in Procs : pc[p] # "elige"
  PROVE  Alcanzan(d)'
<1>1. CASE \/ Consola \/ \E h \in Hilos : Reanudar(h)
           \/ Gestor \/ \E t \in Trips : Tripulante(t)
  <2>1. UNCHANGED <<pc, cola_de_ready, sem_ready>>
    BY ONLY <1>1, NoPlanifican
  <2>2. Avisan' = Avisan
    BY <2>1 DEF Avisan
  <2> QED BY <2>1, <2>2 DEF Alcanzan
<1>2. CASE PlanificadorLargoPlazo
  BY <1>2, PlanificadorFichas
<1>3. CASE Dispositivo
  BY <1>3, DispositivoFichas
<1>4. CASE \E p \in Procs : Procesador(p)
  BY <1>4, ProcesadorFichas
<1>5. CASE UNCHANGED vars
  <2>1. UNCHANGED <<pc, cola_de_ready, sem_ready>>
    BY <1>5 DEF vars, colas, fichas, hilos
  <2>2. Avisan' = Avisan
    BY <2>1 DEF Avisan
  <2> QED BY <2>1, <2>2 DEF Alcanzan
<1>6. CASE Next
  BY <1>1, <1>2, <1>3, <1>4, <1>6, Zenon DEF Next
<1> QED BY <1>5, <1>6

\* For any number of processors and crews: no crew waits in ready without a token that
\* will make a processor look for it, however the posts, the expulsions and the pauses
\* interleave.
THEOREM SpecFichasAlcanzan == Spec => []FichasAlcanzan
<1>1. Init => Alcanzan(0)
  BY AvisanFinito, EmptySeq DEF Init, Alcanzan
<1>2. Tipos /\ Tipos' /\ Alcanzan(0) /\ [Next]_vars => Alcanzan(0)'
  BY FichasPaso
<1> QED BY <1>1, <1>2, TiposInicial, TiposPaso, AlcanzanEs, PTL DEF Spec

-----------------------------------------------------------------------------
(* The tokens of ready through a sabotage.                                   *)

\* ordenar_por_tid gives back the list it was given, in some order.
LEMMA OrdenarMismos ==
  ASSUME NEW c \in Seq(Trips)
  PROVE  /\ OrdenarPorTid(c) \in Seq(Trips)
         /\ Len(OrdenarPorTid(c)) = Len(c)
         /\ Range(OrdenarPorTid(c)) = Range(c)
<1> DEFINE D == DOMAIN c
           hasta(i) == {j \in D : c[j] < c[i] \/ (c[j] = c[i] /\ j <= i)}
           rango == [i \in D |-> Cardinality(hasta(i))]
<1>1. /\ Len(c) \in Nat /\ D = 1..Len(c) /\ c \in [1..Len(c) -> Trips]
      /\ \A i \in D : c[i] \in Nat /\ c[i] \in Trips
  <2>1. Len(c) \in Nat /\ D = 1..Len(c) /\ c \in [1..Len(c) -> Trips]
    BY LenProperties
  <2> QED BY <2>1, TripsOK
<1>2. IsFiniteSet(D) /\ Cardinality(D) = Len(c)
  <2>1. IsFiniteSet(1..Len(c)) /\ Cardinality(1..Len(c)) = Len(c)
    <3>1. PICK n \in Nat : n = Len(c)
      BY ONLY <1>1
    <3>2. IsFiniteSet(1..n) /\ Cardinality(1..n) = IF 1 > n THEN 0 ELSE n - 1 + 1
      BY FS_Interval
    <3> QED BY <3>1, <3>2
  <2> QED BY <1>1, <2>1
<1>3. ASSUME NEW i \in D
      PROVE  i \in hasta(i) /\ IsFiniteSet(hasta(i)) /\ Cardinality(hasta(i)) \in D
  <2>1. i \in hasta(i)
    BY <1>1
  <2>2. hasta(i) \in SUBSET D
    OBVIOUS
  <2> HIDE DEF hasta
  <2>3. IsFiniteSet(hasta(i)) /\ Cardinality(hasta(i)) <= Len(c)
    BY <1>2, <2>2, FS_Subset
  <2>4. Cardinality(hasta(i)) \in Nat /\ Cardinality(hasta(i)) # 0
    BY <2>1, <2>3, FS_CardinalityType, FS_EmptySet
  <2> QED BY <1>1, <2>1, <2>3, <2>4
<1>4. ASSUME NEW i \in D, NEW j \in D, i # j, i \in hasta(j)
      PROVE  Cardinality(hasta(i)) # Cardinality(hasta(j))
  <2>1. hasta(i) \in SUBSET hasta(j) /\ j \notin hasta(i)
    BY <1>1, <1>4
  <2>2. j \in hasta(j) /\ IsFiniteSet(hasta(j))
    BY <1>3
  <2> HIDE DEF hasta
  <2> QED BY <2>1, <2>2, FS_Subset
<1>5. ASSUME NEW i \in D, NEW j \in D, i # j
      PROVE  Cardinality(hasta(i)) # Cardinality(hasta(j))
  <2>1. i \in hasta(j) \/ j \in hasta(i)
    BY <1>1, <1>5
  <2> HIDE DEF hasta
  <2> QED BY <1>4, <1>5, <2>1
<1>6. rango \in Injection(D, D)
  <2>1. rango \in [D -> D]
    BY <1>3
  <2>2. \A i, j \in D : rango[i] = rango[j] => i = j
    BY <1>5
  <2> HIDE DEF rango
  <2> QED BY <2>1, <2>2 DEF Injection, IsInjective
<1>7. rango \in Surjection(D, D)
  <2> HIDE DEF rango, D
  <2> QED BY <1>2, <1>6, FS_Injection
<1>8. ASSUME NEW k \in D
      PROVE  \E i \in D : Cardinality(hasta(i)) = k
  <2>1. \E i \in D : rango[i] = k
    <3> HIDE DEF rango, D
    <3> QED BY <1>7 DEF Surjection
  <2> QED BY <2>1
<1> DEFINE lugar(k) == CHOOSE i \in D : Cardinality(hasta(i)) = k
<1>9. ASSUME NEW k \in D
      PROVE  lugar(k) \in D /\ Cardinality(hasta(lugar(k))) = k
  <2> HIDE DEF hasta, D
  <2> QED BY <1>8
<1>10. ASSUME NEW i \in D
       PROVE  lugar(Cardinality(hasta(i))) = i
  <2> DEFINE k == Cardinality(hasta(i))
  <2>1. k \in D
    BY <1>3
  <2>2. lugar(k) \in D /\ Cardinality(hasta(lugar(k))) = k
    BY <1>9, <2>1
  <2> HIDE DEF hasta, lugar, D
  <2> QED BY <1>5, <2>2
<1>11. OrdenarPorTid(c) = [k \in D |-> c[lugar(k)]]
  BY DEF OrdenarPorTid
<1> HIDE DEF hasta, lugar
<1>12. OrdenarPorTid(c) \in [1..Len(c) -> Trips]
  BY <1>1, <1>9, <1>11
<1>13. OrdenarPorTid(c) \in Seq(Trips) /\ Len(OrdenarPorTid(c)) = Len(c)
  BY <1>1, <1>12, SeqDef, LenProperties
<1>14. Range(OrdenarPorTid(c)) = Range(c)
  <2>1. ASSUME NEW x \in Range(c)
        PROVE  x \in Range(OrdenarPorTid(c))
    <3>1. PICK i \in D : x = c[i]
      BY <2>1 DEF Range
    <3>2. /\ Cardinality(hasta(i)) \in D
          /\ OrdenarPorTid(c)[Cardinality(hasta(i))] = x
      BY <1>3, <1>10, <1>11, <3>1
    <3> QED BY <1>11, <3>2 DEF Range
  <2>2. ASSUME NEW x \in Range(OrdenarPorTid(c))
        PROVE  x \in Range(c)
    <3>1. PICK k \in D : x = c[lugar(k)]
      BY <1>11, <2>2 DEF Range
    <3> QED BY <1>9, <3>1 DEF Range
  <2> QED BY <2>1, <2>2
<1> QED BY <1>13, <1>14

\* The list of the sabotage has the crews of exec and those of ready.
LEMMA Reunidos ==
  ASSUME NEW c \in Seq(Trips), NEW d \in Seq(Trips)
  PROVE  /\ OrdenarPorTid(c) \o OrdenarPorTid(d) \in Seq(Trips)
         /\ Len(OrdenarPorTid(c) \o OrdenarPorTid(d)) = Len(c) + Len(d)
<1>1. PICK e \in Seq(Trips) : e = OrdenarPorTid(c) /\ Len(e) = Len(c)
  BY OrdenarMismos
<1>2. PICK r \in Seq(Trips) : r = OrdenarPorTid(d) /\ Len(r) = Len(d)
  BY OrdenarMismos
<1>3. e \o r \in Seq(Trips) /\ Len(e \o r) = Len(e) + Len(r)
  BY ONLY ConcatProperties
<1> QED BY <1>1, <1>2, <1>3

\* The list and the count the thread of the sabotage keeps.
TiposSab ==
  /\ cola_sabotaje \in Seq(Trips)
  /\ cantidad_en_ejecucion \in Nat
  /\ reanuda_sab \subseteq Hilos

\* The threads that were there before the sabotage go on with the steps they had.
LEMMA LosDeSiempre ==
  ASSUME ConsolaEnSabotaje \/ LosDemas
  PROVE  Next /\ UNCHANGED hilo_sab
BY Zenon DEF ConsolaEnSabotaje, LosDemas, Next, Consola

\* Every step of the two threads of a sabotage keeps the shape of the state.
LEMMA SabotajeTipo ==
  ASSUME Tipos, TiposSab, ManejarSabotaje \/ \E t \in Trips : RetomarTarea(t)
  PROVE  Tipos' /\ TiposSab'
<1> USE DEF Tipos, TiposSab, colas, fichas, compuerta, hilos, consola, creacion, propio,
           comun, emergencia, ajeno, planificacion, tripulacion
<1>1. CASE (\E pos \in Objetivos : IniciarSabotaje(pos)) \/ PausarPorSabotaje
  BY <1>1 DEF IniciarSabotaje, PausarPorSabotaje, TypeOK, Reserva, Manos
<1>2. CASE ElegirSaboteador
  <2>1. Len(cola_de_exec) \in Nat
    BY LenProperties DEF TypeOK
  <2>2. /\ cola_sabotaje' = OrdenarPorTid(cola_de_exec) \o OrdenarPorTid(cola_de_ready)
        /\ cantidad_en_ejecucion' = Len(cola_de_exec)
        /\ cola_de_exec' = <<>> /\ cola_de_ready' = <<>>
        /\ reanuda_sab' = reanuda_sab
    BY <1>2 DEF ElegirSaboteador, ReunirTripulantes
  <2>3. cola_sabotaje' \in Seq(Trips)
    BY <2>2, Reunidos DEF TypeOK
  <2>4. /\ <<>> \in Seq(Trips)
        /\ estado' \in [Trips -> Estados]
    <3>1. \A t \in Trips : estado[t] \in Estados
      BY DEF TypeOK
    <3>2. estado' = [t \in Trips |-> IF t \in Range(cola_sabotaje')
                                     THEN "BLOCKED_SABOTAJE" ELSE estado[t]]
      BY <1>2 DEF ElegirSaboteador
    <3>3. "BLOCKED_SABOTAJE" \in Estados
      BY DEF Estados
    <3> QED BY <3>1, <3>2, <3>3, EmptySeq
  <2>5. caida' \in BOOLEAN
    <3>1. caida \in BOOLEAN
      BY DEF TypeOK
    <3> QED BY <1>2, <3>1 DEF ElegirSaboteador
  <2>6. UNCHANGED <<cola_de_new, cola_de_block, fichas, compuerta, hilos, consola, creacion,
                    propio, expulsado, sem_tri, procesador, expulsiones, sabotaje>>
    BY <1>2 DEF ElegirSaboteador
  <2>7. TypeOK'
    BY ONLY Tipos, <2>2, <2>4, <2>5, <2>6 DEF Tipos, TypeOK, colas, fichas, compuerta,
            hilos, consola, creacion, propio
  <2> QED BY ONLY Tipos, TiposSab, <2>1, <2>2, <2>3, <2>6, <2>7
          DEF Tipos, TiposSab, Reserva, Manos, hilos, creacion, propio
<1>3. CASE CicloSabotaje
  <2>1. sem_tri' \in [Trips -> Nat]
    BY <1>3, SumarUno DEF CicloSabotaje, TypeOK
  <2> QED BY <1>3, <2>1 DEF CicloSabotaje, TypeOK, Reserva, Manos
<1>4. CASE CicloSabotajeHecho
  <2>1. procesador' \in [Trips -> Nat]
    BY <1>4, RestarUno DEF CicloSabotajeHecho, TypeOK
  <2> QED BY <1>4, <2>1 DEF CicloSabotajeHecho, TypeOK, Reserva, Manos
<1>5. CASE SabotajeResuelto \/ BajarBandera \/ FinSabotaje
  <2>1. CASE SabotajeResuelto
    BY <2>1 DEF SabotajeResuelto, vars, TypeOK, Reserva, Manos
  <2>2. CASE BajarBandera
    BY <2>2 DEF BajarBandera, vars, TypeOK, Reserva, Manos
  <2>3. CASE FinSabotaje
    BY <2>3 DEF FinSabotaje, vars, TypeOK, Reserva, Manos
  <2> QED BY <1>5, <2>1, <2>2, <2>3
<1>6. CASE EnviarAReady
  <2>1. /\ cola_sabotaje # <<>> /\ cola_sabotaje' = Tail(cola_sabotaje)
        /\ cola_de_ready' = Append(cola_de_ready, Head(cola_sabotaje))
        /\ estado' = [estado EXCEPT ![Head(cola_sabotaje)] = "READY"]
    BY <1>6 DEF EnviarAReady, AgregarElemento
  <2>2. Head(cola_sabotaje) \in Trips /\ Tail(cola_sabotaje) \in Seq(Trips)
    BY <2>1, QuitarSeq
  <2>3. Append(cola_de_ready, Head(cola_sabotaje)) \in Seq(Trips)
    BY <2>2, AgregarSeq DEF TypeOK
  <2>4. estado' \in [Trips -> Estados]
    BY <2>1 DEF TypeOK, Estados
  <2> QED BY <1>6, <2>1, <2>2, <2>3, <2>4 DEF EnviarAReady, TypeOK, Reserva, Manos
<1>7. CASE ReiniciarPlanificacion
  BY <1>7 DEF ReiniciarPlanificacion, TypeOK, Reserva, Manos
<1>8. ASSUME NEW h \in Hilos, ReanudarHilo(h)
      PROVE  Tipos' /\ TiposSab'
  <2>1. sem_pausa' \in [Hilos -> Nat]
    <3>1. CASE sem_pausa[h] <= 0
      BY <1>8, <3>1, SumarUno DEF ReanudarHilo, TypeOK
    <3>2. CASE ~(sem_pausa[h] <= 0)
      BY <1>8, <3>2 DEF ReanudarHilo, TypeOK
    <3> QED BY <3>1, <3>2
  <2> QED BY <1>8, <2>1 DEF ReanudarHilo, TypeOK, Reserva, Manos
<1>9. CASE FichaPorEjecutado
  <2>1. /\ sem_ready' = sem_ready + 1
        /\ cantidad_en_ejecucion' = cantidad_en_ejecucion - 1 /\ cantidad_en_ejecucion > 0
    BY <1>9 DEF FichaPorEjecutado, DarFicha
  <2>2. sem_ready' \in Nat /\ cantidad_en_ejecucion' \in Nat
    BY <2>1 DEF TypeOK
  <2> QED BY <1>9, <2>2 DEF FichaPorEjecutado, TypeOK, Reserva, Manos
<1>10. ASSUME NEW t \in Trips, RetomarTarea(t)
       PROVE  Tipos' /\ TiposSab'
  <2>1. pc_trip[t] = "terminada" /\ pc_trip' = [pc_trip EXCEPT ![t] = "ciclo"]
    BY <1>10 DEF RetomarTarea, EnTrip
  <2>2. pc_trip' \in [Trips -> LugaresTrip]
    BY <2>1 DEF TypeOK, LugaresTrip
  <2>3. Reserva'
    BY <1>10, <2>1 DEF RetomarTarea, Reserva, TypeOK
  <2> QED BY <1>10, <2>2, <2>3 DEF RetomarTarea, TypeOK, Manos
<1> QED BY <1>1, <1>2, <1>3, <1>4, <1>5, <1>6, <1>7, <1>8, <1>9, <1>10 DEF ManejarSabotaje

\* And so does every step of the composition.
LEMMA STiposPaso == Tipos /\ TiposSab /\ [SNext]_svars => Tipos' /\ TiposSab'
<1> SUFFICES ASSUME Tipos, TiposSab, [SNext]_svars PROVE Tipos' /\ TiposSab'
  OBVIOUS
<1>1. CASE ConsolaEnSabotaje \/ LosDemas
  <2>1. Next /\ UNCHANGED hilo_sab
    BY <1>1, LosDeSiempre
  <2>2. Tipos'
    BY <2>1, TiposPaso
  <2> QED BY <2>1, <2>2 DEF hilo_sab, TiposSab
<1>2. CASE ManejarSabotaje \/ \E t \in Trips : RetomarTarea(t)
  BY <1>2, SabotajeTipo
<1>3. CASE UNCHANGED svars
  <2>1. UNCHANGED vars /\ UNCHANGED hilo_sab
    BY <1>3 DEF svars
  <2>2. Tipos'
    BY <2>1, TiposPaso
  <2> QED BY <2>1, <2>2 DEF hilo_sab, TiposSab
<1> QED BY <1>1, <1>2, <1>3 DEF SNext

\* From the moment the crews are taken until all are given back.
Recogidos == {"procesa", "espera", "cierra", "devuelve"}

\* A processor that holds a token and cannot look in ready: the gate is shut, and
\* no post waits there for it.
Parado(p) == pc[p] \notin {"expulsa", "elige"} /\ (pc[p] = "detenido" => sem_pausa[p] = 0)

\* What the thread of the sabotage holds at each point, and why no processor sees
\* ready empty and lets its token go while the crews are away.
Quietos ==
  /\ \A h \in Hilos : sem_pausa[h] \in {0, 1}
  /\ pc_sab \in {"libre", "pausa", "duerme"} => cantidad_en_ejecucion = 0
  /\ cola_sabotaje # <<>> => pc_sab \in Recogidos
  /\ pc_sab = "duerme" => planificacion_pausada
  /\ pc_sab \in Recogidos =>
       planificacion_pausada /\ por_reanudar = {} /\ \A p \in Procs : Parado(p)

\* A thread that plans moves, and takes at most its own post.
LEMMA MueveUno ==
  ASSUME Tipos, Quietos, NEW h \in Hilos, NEW x, NEW n \in {0, 1},
         pc' = [pc EXCEPT ![h] = x], sem_pausa' = [sem_pausa EXCEPT ![h] = n],
         UNCHANGED <<planificacion_pausada, por_reanudar, hilo_sab>>,
         h \in Procs /\ pc_sab \in Recogidos =>
           x \notin {"expulsa", "elige"} /\ (x = "detenido" => n = 0)
  PROVE  Quietos'
<1>1. /\ pc'[h] = x /\ sem_pausa'[h] = n
      /\ \A g \in Hilos : g # h => pc'[g] = pc[g] /\ sem_pausa'[g] = sem_pausa[g]
  BY DEF Tipos, TypeOK
<1>2. \A g \in Hilos : sem_pausa'[g] \in {0, 1}
  BY <1>1 DEF Quietos
<1>3. pc_sab \in Recogidos => \A p \in Procs : Parado(p)'
  BY <1>1, ProcsOK DEF Quietos, Parado
<1> QED BY <1>2, <1>3 DEF Quietos, hilo_sab

\* One that does not touch its semaphore.
LEMMA MueveSinFicha ==
  ASSUME Tipos, Quietos, NEW h \in Hilos, NEW x,
         pc' = [pc EXCEPT ![h] = x],
         UNCHANGED <<compuerta, por_reanudar, hilo_sab>>,
         h \in Procs /\ pc_sab \in Recogidos => x \notin {"expulsa", "elige", "detenido"}
  PROVE  Quietos'
<1>1. sem_pausa' = [sem_pausa EXCEPT ![h] = sem_pausa[h]]
  BY DEF compuerta, Tipos, TypeOK
<1>2. sem_pausa[h] \in {0, 1}
  BY DEF Quietos
<1> QED BY <1>1, <1>2, MueveUno DEF compuerta

\* Nobody moves.
LEMMA NadieMueve ==
  ASSUME Quietos, UNCHANGED <<pc, compuerta, por_reanudar, hilo_sab>>
  PROVE  Quietos'
BY DEF Quietos, Parado, compuerta, hilo_sab

\* The gate: shut while the crews are away.
LEMMA CompuertaCerrada ==
  ASSUME Tipos, Quietos, UNCHANGED hilo_sab, NEW h \in Hilos, PasarCompuerta(h)
  PROVE  Quietos'
<1>1. /\ UNCHANGED <<planificacion_pausada, por_reanudar>>
      /\ sem_pausa[h] \in {0, 1}
  BY DEF PasarCompuerta, LeerPausa, Drenar, Reanudarse, compuerta, ajeno, consola, Tipos,
         TypeOK, Quietos
<1>2. CASE LeerPausa(h)
  <2>1. /\ pc' = [pc EXCEPT ![h] = IF planificacion_pausada THEN "drena" ELSE TrasCompuerta(h)]
        /\ UNCHANGED compuerta
    BY <1>2 DEF LeerPausa
  <2>2. pc_sab \in Recogidos => planificacion_pausada
    BY DEF Quietos
  <2> QED BY <1>1, <2>1, <2>2, MueveSinFicha
<1>3. CASE Drenar(h)
  <2>1. /\ pc' = [pc EXCEPT ![h] = "detenido"]
        /\ sem_pausa' = [sem_pausa EXCEPT ![h] = IF sem_pausa[h] = 1 THEN 0 ELSE sem_pausa[h]]
    BY <1>3 DEF Drenar
  <2>2. sem_pausa' = [sem_pausa EXCEPT ![h] = 0]
    <3>1. CASE sem_pausa[h] = 1
      BY <2>1, <3>1
    <3>2. CASE sem_pausa[h] = 0
      BY <2>1, <3>2
    <3> QED BY <1>1, <3>1, <3>2
  <2> QED BY ONLY Tipos, Quietos, UNCHANGED hilo_sab, <1>1, <2>1, <2>2, MueveUno
<1>4. CASE Reanudarse(h)
  <2>1. /\ pc[h] = "detenido" /\ sem_pausa[h] > 0
        /\ pc' = [pc EXCEPT ![h] = TrasCompuerta(h)]
        /\ sem_pausa' = [sem_pausa EXCEPT ![h] = sem_pausa[h] - 1]
    BY <1>4 DEF Reanudarse, En
  <2>2. ~(h \in Procs /\ pc_sab \in Recogidos)
    BY <2>1 DEF Quietos, Parado
  <2>3. sem_pausa[h] - 1 \in {0, 1}
    BY <1>1, <2>1
  <2> QED BY <1>1, <2>1, <2>2, <2>3, MueveUno
<1> QED BY <1>2, <1>3, <1>4 DEF PasarCompuerta

\* The steps of the processors.
LEMMA ProcesadorQuieto ==
  ASSUME Tipos, Quietos, UNCHANGED hilo_sab, NEW p \in Procs, Procesador(p)
  PROVE  Quietos'
<1> USE DEF En, compuerta, consola, ajeno, fichas, colas
<1>1. p \in Hilos /\ sem_pausa[p] \in {0, 1}
  BY ProcsOK DEF Tipos, TypeOK, Quietos
<1>2. CASE TripulanteExpulsado(p)
  BY <1>2, NadieMueve DEF TripulanteExpulsado
<1>3. CASE PasarCompuerta(p)
  BY <1>1, <1>3, CompuertaCerrada
<1>4. CASE ExpulsarDeReady(p)
  <2>1. /\ pc[p] = "expulsa" /\ UNCHANGED <<compuerta, por_reanudar>>
        /\ pc' = [pc EXCEPT ![p] = IF SinExpulsados(cola_de_ready) THEN "elige" ELSE "libre"]
    BY <1>4 DEF ExpulsarDeReady
  <2>2. pc_sab \notin Recogidos
    BY <2>1 DEF Quietos, Parado
  <2> QED BY <1>1, <2>1, <2>2, MueveSinFicha
<1>5. CASE AtenderPausa(p)
  <2>1. PICK x \in {"rafaga", "detenido_en_rafaga"} : pc' = [pc EXCEPT ![p] = x]
    BY <1>5 DEF AtenderPausa
  <2>2. /\ sem_pausa' = [sem_pausa EXCEPT ![p] = IF sem_pausa[p] = 1 THEN 0 ELSE sem_pausa[p]]
        /\ UNCHANGED <<planificacion_pausada, por_reanudar>>
    BY <1>5 DEF AtenderPausa
  <2>3. sem_pausa' = [sem_pausa EXCEPT ![p] = 0]
    <3>1. CASE sem_pausa[p] = 1
      BY <2>2, <3>1
    <3>2. CASE sem_pausa[p] = 0
      BY <2>2, <3>2
    <3> QED BY <1>1, <3>1, <3>2
  <2>4. x \notin {"expulsa", "elige", "detenido"}
    OBVIOUS
  <2> QED BY ONLY Tipos, Quietos, UNCHANGED hilo_sab, <1>1, <2>1, <2>2, <2>3, <2>4, MueveUno
<1>6. CASE SeguirRafaga(p)
  <2>1. /\ pc' = [pc EXCEPT ![p] = "rafaga"] /\ sem_pausa[p] > 0
        /\ sem_pausa' = [sem_pausa EXCEPT ![p] = sem_pausa[p] - 1]
        /\ UNCHANGED <<planificacion_pausada, por_reanudar>>
    BY <1>6 DEF SeguirRafaga
  <2>2. sem_pausa[p] - 1 \in {0, 1}
    BY <1>1, <2>1
  <2> QED BY <1>1, <2>1, <2>2, MueveUno
<1>7. CASE \/ TomarReady(p) \/ ElegirTripulante(p) \/ NadieAElegir(p) \/ AgregarAExec(p)
           \/ DarCiclo(p) \/ CicloTerminado(p) \/ RevisarReady(p)
  <2>1. \E x \in {"lee_pausa", "agrega_exec", "libre", "rafaga", "espera", "revisa_ready",
                  "revisa_pausa"} : pc' = [pc EXCEPT ![p] = x]
    BY <1>7 DEF TomarReady, ElegirTripulante, NadieAElegir, AgregarAExec, DarCiclo,
       CicloTerminado, RevisarReady
  <2>2. UNCHANGED <<compuerta, por_reanudar>>
    BY <1>7 DEF TomarReady, ElegirTripulante, NadieAElegir, AgregarAExec, DarCiclo,
       CicloTerminado, RevisarReady
  <2> QED BY <1>1, <2>1, <2>2, MueveSinFicha
<1>8. CASE \/ RevisarPausa(p) \/ FinDeRafaga(p) \/ SalirDeExec(p) \/ DespacharBloqueado(p)
           \/ DespacharDesalojado(p) \/ DespacharSinCola(p)
  <2>1. \E x \in {"atiende_pausa", "rafaga", "sale_de_exec", "despacha", "libre"} :
          pc' = [pc EXCEPT ![p] = x]
    BY <1>8 DEF RevisarPausa, FinDeRafaga, SalirDeExec, DespacharBloqueado,
       DespacharDesalojado, DespacharSinCola, Soltar
  <2>2. UNCHANGED <<compuerta, por_reanudar>>
    BY <1>8 DEF RevisarPausa, FinDeRafaga, SalirDeExec, DespacharBloqueado,
       DespacharDesalojado, DespacharSinCola
  <2> QED BY <1>1, <2>1, <2>2, MueveSinFicha
<1> QED BY <1>2, <1>3, <1>4, <1>5, <1>6, <1>7, <1>8 DEF Procesador

\* Those of the planner and of the device.
LEMMA LosOtrosQuietos ==
  ASSUME Tipos, Quietos, UNCHANGED hilo_sab, PlanificadorLargoPlazo \/ Dispositivo
  PROVE  Quietos'
<1> USE DEF En, compuerta, consola, ajeno, fichas, colas
<1> "planificador" \in Hilos /\ "es" \in Hilos /\ "planificador" \notin Procs /\ "es" \notin Procs
  BY HilosOK, ProcsOK
<1>1. CASE PasarCompuerta("planificador") \/ PasarCompuerta("es")
  BY <1>1, CompuertaCerrada
<1>2. CASE TripulanteExpulsado("planificador") \/ TripulanteExpulsado("es")
  BY <1>2, NadieMueve DEF TripulanteExpulsado
<1>3. CASE TomarNew \/ ExpulsarDeNew \/ MoverAReady \/ AvisarReady
  <2>1. UNCHANGED <<compuerta, por_reanudar>>
    BY <1>3 DEF TomarNew, ExpulsarDeNew, MoverAReady, AvisarReady
  <2>2. pc' = pc \/ \E x : pc' = [pc EXCEPT !["planificador"] = x]
    BY <1>3 DEF TomarNew, ExpulsarDeNew, MoverAReady, AvisarReady
  <2> QED BY <2>1, <2>2, MueveSinFicha, NadieMueve
<1>4. CASE \/ TomarBlock \/ ExpulsarDeBlock \/ ElegirBloqueado \/ DarCicloES
           \/ CicloESTerminado \/ ExpulsarEnCiclo \/ DesbloquearTripulante \/ SoltarExpulsado
  <2>1. UNCHANGED <<compuerta, por_reanudar>>
    BY <1>4 DEF TomarBlock, ExpulsarDeBlock, ElegirBloqueado, DarCicloES, CicloESTerminado,
       ExpulsarEnCiclo, DesbloquearTripulante, SoltarExpulsado
  <2>2. pc' = pc \/ \E x : pc' = [pc EXCEPT !["es"] = x]
    BY <1>4 DEF TomarBlock, ExpulsarDeBlock, ElegirBloqueado, DarCicloES, CicloESTerminado,
       ExpulsarEnCiclo, DesbloquearTripulante, SoltarExpulsado
  <2> QED BY <2>1, <2>2, MueveSinFicha, NadieMueve
<1> QED BY <1>1, <1>2, <1>3, <1>4 DEF PlanificadorLargoPlazo, Dispositivo

\* The steps of the thread of the sabotage and of the crew it chose.
LEMMA SabotajeQuieto ==
  ASSUME Tipos, TiposSab, Quietos, ManejarSabotaje \/ \E t \in Trips : RetomarTarea(t)
  PROVE  Quietos'
<1> USE DEF EnSab, compuerta, hilos, consola, ajeno, planificacion, Recogidos
<1>1. CASE (\E pos \in Objetivos : IniciarSabotaje(pos)) \/ PausarPorSabotaje
  BY <1>1 DEF IniciarSabotaje, PausarPorSabotaje, Quietos
<1>2. CASE ElegirSaboteador
  <2>1. /\ pc_sab = "duerme" /\ Reposo
        /\ UNCHANGED <<pc, planificacion_pausada, sem_pausa, por_reanudar>>
        /\ cola_sabotaje' = OrdenarPorTid(cola_de_exec) \o OrdenarPorTid(cola_de_ready)
        /\ cantidad_en_ejecucion' = Len(cola_de_exec)
    BY <1>2 DEF ElegirSaboteador, ReunirTripulantes
  <2>2. por_reanudar' = {} /\ planificacion_pausada'
    BY <2>1 DEF Reposo, Quietos
  <2>3. ASSUME NEW p \in Procs
        PROVE  Parado(p)'
    <3>1. \/ pc[p] \in {"detenido", "detenido_en_rafaga"} /\ sem_pausa[p] = 0
          \/ pc[p] = "espera" \/ pc[p] = "libre"
      BY <2>1, ProcsOK DEF Reposo
    <3> QED BY <2>1, <3>1 DEF Parado
  <2>4. CASE cola_sabotaje' = <<>>
    <3>1. pc_sab' = "duerme"
      BY <1>2, <2>1, <2>4 DEF ElegirSaboteador
    <3>2. Len(<<>>) = Len(cola_de_exec) + Len(cola_de_ready)
      BY <2>1, <2>4, Reunidos DEF Tipos, TypeOK
    <3>3. Len(cola_de_exec) \in Nat /\ Len(cola_de_ready) \in Nat
      BY LenProperties DEF Tipos, TypeOK
    <3>4. cantidad_en_ejecucion' = 0
      BY <2>1, <3>2, <3>3, EmptySeq
    <3> QED BY <2>1, <2>2, <2>4, <3>1, <3>4 DEF Quietos
  <2>5. CASE cola_sabotaje' # <<>>
    <3>1. pc_sab' = "procesa"
      BY <1>2, <2>5 DEF ElegirSaboteador
    <3> QED BY <2>1, <2>2, <2>3, <3>1 DEF Quietos
  <2> QED BY <2>4, <2>5
<1>3. CASE CicloSabotaje \/ CicloSabotajeHecho \/ SabotajeResuelto \/ BajarBandera
  BY <1>3 DEF CicloSabotaje, CicloSabotajeHecho, SabotajeResuelto, BajarBandera, vars,
     Quietos, Parado
<1>4. CASE EnviarAReady
  BY <1>4 DEF EnviarAReady, Quietos, Parado
<1>5. CASE ReiniciarPlanificacion
  BY <1>5 DEF ReiniciarPlanificacion, Quietos
<1>6. ASSUME NEW h \in Hilos, ReanudarHilo(h)
      PROVE  Quietos'
  <2>1. sem_pausa' = [sem_pausa EXCEPT ![h] = 1]
    <3>1. sem_pausa' = [sem_pausa EXCEPT ![h] = IF sem_pausa[h] <= 0 THEN sem_pausa[h] + 1
                                                                   ELSE sem_pausa[h]]
      BY <1>6 DEF ReanudarHilo
    <3>2. sem_pausa[h] = 0 \/ sem_pausa[h] = 1
      BY DEF Quietos
    <3>3. (IF sem_pausa[h] <= 0 THEN sem_pausa[h] + 1 ELSE sem_pausa[h]) = 1
      BY <3>2
    <3> QED BY <3>1, <3>3
  <2>2. \A g \in Hilos : sem_pausa'[g] \in {0, 1}
    BY <2>1 DEF Quietos, Tipos, TypeOK
  <2> QED BY <1>6, <2>2 DEF ReanudarHilo, Quietos
<1>7. CASE FichaPorEjecutado \/ FinSabotaje
  BY <1>7 DEF FichaPorEjecutado, FinSabotaje, vars, Quietos
<1>8. CASE \E t \in Trips : RetomarTarea(t)
  BY <1>8 DEF RetomarTarea, Quietos, Parado
<1> QED BY <1>1, <1>2, <1>3, <1>4, <1>5, <1>6, <1>7, <1>8 DEF ManejarSabotaje

\* Those of the threads that were there before.
LEMMA SiempreQuietos ==
  ASSUME Tipos, Quietos, ConsolaEnSabotaje \/ LosDemas
  PROVE  Quietos'
<1>1. UNCHANGED hilo_sab
  BY LosDeSiempre
<1>2. CASE ConsolaEnSabotaje
  <2>1. CASE IniciarPlanificacion /\ pc_sab = "libre"
    BY <1>1, <2>1 DEF IniciarPlanificacion, Quietos, Recogidos, hilo_sab
  <2>2. CASE PausarPlanificacion
    BY <1>1, <2>2 DEF PausarPlanificacion, Quietos, Parado, hilo_sab, hilos
  <2>3. CASE IniciarPatota \/ \E t \in Expulsables : ExpulsarTripulante(t)
    BY <1>1, <2>3, NadieMueve DEF IniciarPatota, ExpulsarTripulante, planificacion, hilos,
       compuerta, ajeno, consola
  <2> QED BY <1>2, <2>1, <2>2, <2>3 DEF ConsolaEnSabotaje
<1>3. ASSUME NEW h \in Hilos, Reanudar(h)
      PROVE  Quietos'
  <2>1. pc_sab \notin Recogidos
    BY <1>3 DEF Reanudar, Quietos
  <2>2. sem_pausa' = [sem_pausa EXCEPT ![h] = 1]
    <3>1. sem_pausa' = [sem_pausa EXCEPT ![h] = IF sem_pausa[h] <= 0 THEN sem_pausa[h] + 1
                                                                   ELSE sem_pausa[h]]
      BY <1>3 DEF Reanudar
    <3>2. sem_pausa[h] = 0 \/ sem_pausa[h] = 1
      BY DEF Quietos
    <3>3. (IF sem_pausa[h] <= 0 THEN sem_pausa[h] + 1 ELSE sem_pausa[h]) = 1
      BY <3>2
    <3> QED BY <3>1, <3>3
  <2>3. \A g \in Hilos : sem_pausa'[g] \in {0, 1}
    BY <2>2 DEF Quietos, Tipos, TypeOK
  <2> QED BY <1>1, <1>3, <2>1, <2>3 DEF Reanudar, Quietos, hilo_sab
<1>4. CASE Gestor
  BY <1>1, <1>4, NadieMueve DEF Gestor, PedirMemoria, MemoriaDenegada, MemoriaConcedida,
     CrearTripulante, RegistrarPatota, planificacion, hilos, compuerta, consola
<1>5. CASE \E t \in Trips : Tripulante(t)
  <2>1. UNCHANGED <<pc, compuerta, por_reanudar>>
    BY <1>5 DEF Tripulante, Ciclo, Nacer, PedirTarea, PedirTareaDeExpulsado, CicloMover,
       CicloSyscall, CicloES, CicloCPU, CicloSinPatota, TareaTerminada, planificacion,
       hilos, compuerta, consola
  <2> QED BY <1>1, <2>1, NadieMueve
<1>6. CASE PlanificadorLargoPlazo \/ Dispositivo
  BY <1>1, <1>6, LosOtrosQuietos
<1>7. CASE \E p \in Procs : Procesador(p)
  BY <1>1, <1>7, ProcesadorQuieto
<1> QED BY <1>2, <1>3, <1>4, <1>5, <1>6, <1>7 DEF LosDemas

\* FichasTrasSabotaje, with one set.
SAlcanzan ==
  Len(cola_de_ready) + Len(cola_sabotaje)
    <= sem_ready + cantidad_en_ejecucion + Cardinality(Avisan)

\* The threads of always, with the crews taken away and the tokens owed for them.
LEMMA SiempreAlcanzan ==
  ASSUME Tipos, Tipos', TiposSab, Quietos, SAlcanzan, ConsolaEnSabotaje \/ LosDemas
  PROVE  SAlcanzan'
<1>1. Next /\ UNCHANGED hilo_sab
  BY LosDeSiempre
<1>2. /\ Len(cola_sabotaje) \in Nat /\ cantidad_en_ejecucion \in Nat
      /\ UNCHANGED <<cola_sabotaje, cantidad_en_ejecucion>>
  BY <1>1, LenProperties DEF TiposSab, hilo_sab
<1>3. /\ Len(cola_de_ready) \in Nat /\ sem_ready \in Nat
      /\ Len(cola_de_ready') \in Nat /\ sem_ready' \in Nat
  BY LenProperties DEF Tipos, TypeOK
<1>4. PICK d \in Int : d = Len(cola_sabotaje) - cantidad_en_ejecucion
  BY <1>2
<1>5. Alcanzan(d)
  BY <1>2, <1>3, <1>4, AvisanFinito DEF Alcanzan, SAlcanzan
<1>6. d <= 0 \/ \A p \in Procs : pc[p] # "elige"
  <2>1. CASE cola_sabotaje = <<>>
    BY <1>2, <1>4, <2>1, EmptySeq
  <2>2. CASE cola_sabotaje # <<>>
    BY <2>2 DEF Quietos, Parado
  <2> QED BY <2>1, <2>2
<1>7. Alcanzan(d)'
  BY <1>1, <1>5, <1>6, FichasPaso
<1>8. Len(cola_de_ready') + d <= sem_ready' + Cardinality(Avisan')
  BY <1>7 DEF Alcanzan
<1>9. Len(cola_de_ready') + Len(cola_sabotaje)
        <= sem_ready' + cantidad_en_ejecucion + Cardinality(Avisan')
  BY ONLY <1>2, <1>3, <1>4, <1>8, AvisanFinito
<1> QED BY <1>2, <1>9 DEF SAlcanzan

\* The thread of the sabotage: it takes the crews with the count of those that were
\* running, gives each back without a token, and posts the tokens it owes at the end.
LEMMA SabotajeAlcanzan ==
  ASSUME Tipos, Tipos', TiposSab, TiposSab', Quietos, SAlcanzan,
         ManejarSabotaje \/ \E t \in Trips : RetomarTarea(t)
  PROVE  SAlcanzan'
<1> USE DEF EnSab, colas, fichas, hilos, planificacion
<1>1. /\ Len(cola_de_ready) \in Nat /\ Len(cola_sabotaje) \in Nat
      /\ sem_ready \in Nat /\ cantidad_en_ejecucion \in Nat
  BY LenProperties DEF Tipos, TypeOK, TiposSab
<1>2. pc' = pc /\ Avisan' = Avisan
  <2>1. pc' = pc
    BY DEF ManejarSabotaje, IniciarSabotaje, PausarPorSabotaje, ElegirSaboteador,
       CicloSabotaje, CicloSabotajeHecho, SabotajeResuelto, BajarBandera, EnviarAReady,
       ReiniciarPlanificacion, ReanudarHilo, FichaPorEjecutado, FinSabotaje, RetomarTarea,
       vars
  <2> QED BY <2>1 DEF Avisan
<1>3. CASE UNCHANGED <<cola_de_ready, cola_sabotaje, sem_ready, cantidad_en_ejecucion>>
  BY <1>2, <1>3 DEF SAlcanzan
<1>4. CASE ElegirSaboteador
  <2>1. /\ cola_sabotaje' = OrdenarPorTid(cola_de_exec) \o OrdenarPorTid(cola_de_ready)
        /\ cantidad_en_ejecucion' = Len(cola_de_exec)
        /\ cola_de_ready' = <<>> /\ sem_ready' = sem_ready /\ pc_sab = "duerme"
    BY <1>4 DEF ElegirSaboteador, ReunirTripulantes
  <2>2. /\ Len(cola_sabotaje') = Len(cola_de_exec) + Len(cola_de_ready)
        /\ Len(cola_de_exec) \in Nat
    BY <2>1, Reunidos, LenProperties DEF Tipos, TypeOK
  <2>3. cantidad_en_ejecucion = 0
    BY <2>1 DEF Quietos
  <2>4. Len(cola_de_ready') = 0
    BY <2>1, EmptySeq
  <2>5. Len(cola_de_ready) <= sem_ready + Cardinality(Avisan)
    BY <1>1, <2>3, AvisanFinito DEF SAlcanzan
  <2> QED BY <1>1, <1>2, <2>1, <2>2, <2>4, <2>5, AvisanFinito DEF SAlcanzan
<1>5. CASE EnviarAReady
  <2>1. /\ cola_sabotaje # <<>> /\ cola_sabotaje' = Tail(cola_sabotaje)
        /\ cola_de_ready' = Append(cola_de_ready, Head(cola_sabotaje))
        /\ UNCHANGED <<sem_ready, cantidad_en_ejecucion>>
    BY <1>5 DEF EnviarAReady, AgregarElemento
  <2>2. /\ Head(cola_sabotaje) \in Trips
        /\ cola_sabotaje \in Seq(Trips) /\ cola_de_ready \in Seq(Trips)
    BY <2>1, QuitarSeq DEF TiposSab, Tipos, TypeOK
  <2>3. Len(Append(cola_de_ready, Head(cola_sabotaje))) = Len(cola_de_ready) + 1
    BY ONLY <2>2, AppendProperties
  <2>4. Len(Tail(cola_sabotaje)) = Len(cola_sabotaje) - 1
    BY ONLY <2>1, <2>2, HeadTailProperties
  <2> QED BY <1>1, <1>2, <2>1, <2>3, <2>4, AvisanFinito DEF SAlcanzan
<1>6. CASE FichaPorEjecutado
  <2>1. /\ sem_ready' = sem_ready + 1 /\ cantidad_en_ejecucion' = cantidad_en_ejecucion - 1
        /\ UNCHANGED <<cola_de_ready, cola_sabotaje>>
    BY <1>6 DEF FichaPorEjecutado, DarFicha
  <2> QED BY <1>1, <1>2, <2>1, AvisanFinito DEF SAlcanzan
<1>7. CASE \/ (\E pos \in Objetivos : IniciarSabotaje(pos)) \/ PausarPorSabotaje
           \/ CicloSabotaje \/ CicloSabotajeHecho \/ SabotajeResuelto \/ BajarBandera
           \/ ReiniciarPlanificacion \/ (\E h \in Hilos : ReanudarHilo(h)) \/ FinSabotaje
           \/ \E t \in Trips : RetomarTarea(t)
  <2>1. UNCHANGED <<cola_de_ready, cola_sabotaje, sem_ready, cantidad_en_ejecucion>>
    BY <1>7 DEF IniciarSabotaje, PausarPorSabotaje, CicloSabotaje, CicloSabotajeHecho,
       SabotajeResuelto, BajarBandera, ReiniciarPlanificacion, ReanudarHilo, FinSabotaje,
       RetomarTarea, vars
  <2> QED BY <1>3, <2>1
<1> QED BY <1>4, <1>5, <1>6, <1>7 DEF ManejarSabotaje

\* So it is FichasTrasSabotaje.
LEMMA SAlcanzanEs == Tipos /\ TiposSab /\ SAlcanzan => FichasTrasSabotaje
<1> SUFFICES ASSUME Tipos, TiposSab, SAlcanzan PROVE FichasTrasSabotaje
  OBVIOUS
<1> DEFINE Miran == {p \in Procs : pc[p] \in Mirando}
<1>1. /\ Len(cola_de_ready) \in Nat /\ Len(cola_sabotaje) \in Nat
      /\ sem_ready \in Nat /\ cantidad_en_ejecucion \in Nat
  BY LenProperties DEF Tipos, TypeOK, TiposSab
<1>2. /\ Cardinality(Miran) \in Nat
      /\ Cardinality(Avisan) = Uno(pc["planificador"] = "avisa") + Cardinality(Miran)
  BY CuantosAvisan
<1>3. Len(cola_de_ready) + Len(cola_sabotaje)
        <= sem_ready + cantidad_en_ejecucion + Uno(pc["planificador"] = "avisa")
           + Cardinality(Miran)
  <2> HIDE DEF Miran
  <2> QED BY <1>1, <1>2 DEF SAlcanzan, Uno
<1> QED BY <1>3 DEF FichasTrasSabotaje, Mirando

SInductiva == Tipos /\ TiposSab /\ Quietos /\ SAlcanzan

LEMMA SInductivaPaso == SInductiva /\ [SNext]_svars => SInductiva'
<1> SUFFICES ASSUME SInductiva, [SNext]_svars PROVE SInductiva'
  OBVIOUS
<1>1. Tipos /\ TiposSab /\ Quietos /\ SAlcanzan /\ Tipos' /\ TiposSab'
  BY STiposPaso DEF SInductiva
<1>2. CASE ConsolaEnSabotaje \/ LosDemas
  BY <1>1, <1>2, SiempreQuietos, SiempreAlcanzan DEF SInductiva
<1>3. CASE ManejarSabotaje \/ \E t \in Trips : RetomarTarea(t)
  BY <1>1, <1>3, SabotajeQuieto, SabotajeAlcanzan DEF SInductiva
<1>4. CASE UNCHANGED svars
  <2>1. UNCHANGED <<pc, compuerta, por_reanudar, hilo_sab, cola_de_ready, sem_ready>>
    BY <1>4 DEF svars, vars, hilos, consola, colas, fichas
  <2>2. Avisan' = Avisan
    BY <2>1 DEF Avisan
  <2> QED BY <1>1, <2>1, <2>2, NadieMueve DEF SInductiva, SAlcanzan, hilo_sab
<1> QED BY <1>2, <1>3, <1>4 DEF SNext

\* For any number of processors, crews and sabotages: counting the tokens the thread of
\* the sabotage still owes, each crew of ready and of its list has one that will make a
\* processor look for it, whatever the threads it did not stop did meanwhile.
THEOREM FichasEnSabotaje == SSpec => []FichasTrasSabotaje
<1>1. SInit => SInductiva
  <2> SUFFICES ASSUME SInit PROVE SInductiva
    OBVIOUS
  <2>1. Tipos
    BY TiposInicial DEF SInit
  <2>2. TiposSab
    BY EmptySeq DEF SInit, TiposSab
  <2>3. Quietos
    BY DEF SInit, Init, Quietos, Recogidos
  <2>4. SAlcanzan
    <3>1. cola_de_ready = <<>> /\ cola_sabotaje = <<>>
          /\ sem_ready = 0 /\ cantidad_en_ejecucion = 0
      BY DEF SInit, Init
    <3> QED BY <3>1, AvisanFinito, EmptySeq DEF SAlcanzan
  <2> QED BY <2>1, <2>2, <2>3, <2>4 DEF SInductiva
<1>2. SInductiva => FichasTrasSabotaje
  BY SAlcanzanEs DEF SInductiva
<1> QED BY <1>1, <1>2, SInductivaPaso, PTL DEF SSpec

====
