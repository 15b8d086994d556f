------------------------- MODULE PlanificadorProofs -------------------------
(***************************************************************************)
(* What holds of the scheduler for any number of processors, crews, tasks  *)
(* and commands: its type invariant, and that a crew is in one place.      *)
(***************************************************************************)
EXTENDS Planificador, ListasProofs

\* The ids not handed out yet, those of the request in hand included, are those
\* of crews that do not exist.
Reserva ==
  /\ lote.quedan < id_tcb
  /\ lote.fase = "libre" => lote.quedan = 0
  /\ \A t \in Trips : t >= id_tcb - lote.quedan => pc_trip[t] = "no_creado"

\* Where a processor is while its crew is in cola_de_exec, and while it has one.
Ejecutando == {"rafaga", "espera", "revisa_ready", "revisa_pausa", "atiende_pausa",
               "detenido_en_rafaga", "sale_de_exec"}
Ocupado == Ejecutando \cup {"agrega_exec", "despacha"}
Manos == \A p \in Procs : pc[p] \in Ocupado => mano[p] \in Trips

Tipos == TypeOK /\ Reserva /\ Manos

\* The processors are pausable threads, and none is the planner or the device.
LEMMA ProcsOK == \A p \in Procs : p \in Hilos /\ p # "planificador" /\ p # "es"
  BY ConstantesOK DEF Hilos

\* The planner and the device are pausable threads.
LEMMA HilosOK == "planificador" \in Hilos /\ "es" \in Hilos
  BY DEF Hilos

\* Ids are numbers, and none is that of nobody.
LEMMA TripsOK == Nadie \notin Trips /\ Trips \subseteq Nat
  BY ConstantesOK DEF Trips, Nadie

\* What chequear_expulsion_de_tripulante leaves is a list of crews, and so is its pick.
LEMMA SacarTipo ==
  ASSUME TypeOK, NEW h \in Hilos, NEW c \in Seq(Trips), NEW d, SacarExpulsado(h, c, d)
  PROVE  d \in Seq(Trips) /\ victima' \in [Hilos -> Trips \cup {Nadie}]
<1>1. CASE \E i \in DOMAIN c : /\ PrimerExpulsado(c, i) /\ d = RemoveAt(c, i)
                               /\ victima' = [victima EXCEPT ![h] = c[i]]
  BY <1>1, SacarSeq DEF TypeOK
<1>2. CASE d = c /\ UNCHANGED victima
  BY <1>2 DEF TypeOK
<1> QED BY <1>1, <1>2 DEF SacarExpulsado

\* One lemma per thread: each of its actions keeps the shape of the state.
LEMMA ProcesadorTipo ==
  ASSUME Tipos, NEW p \in Procs, Procesador(p)
  PROVE  Tipos'
<1> USE HilosOK, ProcsOK, TripsOK DEF Tipos, En, EnTrip, Fase, ConsolaLibre, colas,
    fichas,
           compuerta, hilos, consola, creacion, propio, comun, emergencia, ajeno,
           planificacion, tripulacion
<1>1. CASE TripulanteExpulsado(p)
  <2>1. expulsiones' \in [Trips -> Nat]
    BY <1>1, SumarUno DEF TripulanteExpulsado, TypeOK
  <2>2. estado' \in [Trips -> Estados]
    BY <1>1 DEF TripulanteExpulsado, Estados, TypeOK
  <2>3. victima' \in [Hilos -> Trips \cup {Nadie}]
    BY <1>1 DEF TripulanteExpulsado, TypeOK
  <2> QED BY <1>1, <2>1, <2>2, <2>3 DEF TripulanteExpulsado, TypeOK, Reserva, Manos,
      Ocupado, Ejecutando
<1>2. CASE TomarReady(p)
  <2>1. pc' \in [Hilos -> Lugares]
    BY <1>2 DEF TomarReady, Lugares, TypeOK
  <2>2. sem_ready' \in Nat
    BY <1>2 DEF TomarReady, TypeOK
  <2> QED BY <1>2, <2>1, <2>2
           DEF TomarReady, TypeOK, Reserva, Manos, Ocupado, Ejecutando
<1>3. CASE LeerPausa(p)
  <2>1. pc' \in [Hilos -> Lugares]
    BY <1>3 DEF LeerPausa, TrasCompuerta, Lugares, TypeOK
  <2> QED BY <1>3, <2>1 DEF LeerPausa, TrasCompuerta, TypeOK, Reserva, Manos, Ocupado,
      Ejecutando
<1>4. CASE Drenar(p)
  <2>1. pc' \in [Hilos -> Lugares]
    BY <1>4 DEF Drenar, Lugares, TypeOK
  <2>2. sem_pausa' \in [Hilos -> Nat]
    BY <1>4 DEF Drenar, TypeOK
  <2> QED BY <1>4, <2>1, <2>2 DEF Drenar, TypeOK, Reserva, Manos, Ocupado, Ejecutando
<1>5. CASE Reanudarse(p)
  <2>1. pc' \in [Hilos -> Lugares]
    BY <1>5 DEF Reanudarse, TrasCompuerta, Lugares, TypeOK
  <2>2. sem_pausa' \in [Hilos -> Nat]
    BY <1>5, RestarUno DEF Reanudarse, TypeOK
  <2> QED BY <1>5, <2>1, <2>2 DEF Reanudarse, TrasCompuerta, TypeOK, Reserva, Manos,
      Ocupado, Ejecutando
<1>6. CASE ExpulsarDeReady(p)
  <2>1. pc' \in [Hilos -> Lugares]
    BY <1>6 DEF ExpulsarDeReady, Lugares, TypeOK
  <2>2. cola_de_ready' \in Seq(Trips) /\ victima' \in [Hilos -> Trips \cup {Nadie}]
    BY <1>6, SacarTipo DEF ExpulsarDeReady, TypeOK
  <2> QED BY <1>6, <2>1, <2>2 DEF ExpulsarDeReady, TypeOK, Reserva, Manos, Ocupado,
      Ejecutando
<1>7. CASE ElegirTripulante(p)
  <2>1. Head(cola_de_ready) \in Trips /\ cola_de_ready' \in Seq(Trips)
    BY <1>7, QuitarSeq DEF ElegirTripulante, QuitarPrimero, TypeOK
  <2>2. mano' \in [Hilos -> Trips \cup {Nadie}] /\ pc' \in [Hilos -> Lugares]
    BY <1>7, <2>1 DEF ElegirTripulante, Lugares, TypeOK
  <2>3. estado' \in [Trips -> Estados]
    BY <1>7 DEF ElegirTripulante, Estados, TypeOK
  <2> QED BY <1>7, <2>1, <2>2, <2>3 DEF ElegirTripulante, TypeOK, Reserva, Manos,
      Ocupado, Ejecutando
<1>8. CASE NadieAElegir(p)
  <2>1. pc' \in [Hilos -> Lugares]
    BY <1>8 DEF NadieAElegir, Lugares, TypeOK
  <2> QED BY <1>8, <2>1 DEF NadieAElegir, TypeOK, Reserva, Manos, Ocupado, Ejecutando
<1>9. CASE AgregarAExec(p)
  <2>1. pc' \in [Hilos -> Lugares]
    BY <1>9 DEF AgregarAExec, Lugares, TypeOK
  <2>2. cola_de_exec' \in Seq(Trips)
    BY <1>9, AgregarSeq DEF AgregarAExec, AgregarElemento, Manos, Ocupado, TypeOK
  <2> QED BY <1>9, <2>1, <2>2 DEF AgregarAExec, TypeOK, Reserva, Manos, Ocupado,
      Ejecutando
<1>10. CASE DarCiclo(p)
  <2>1. pc' \in [Hilos -> Lugares]
    BY <1>10 DEF DarCiclo, Lugares, TypeOK
  <2>2. sem_tri' \in [Trips -> Nat]
    BY <1>10, SumarUno DEF DarCiclo, TypeOK
  <2> QED BY <1>10, <2>1, <2>2 DEF DarCiclo, TypeOK, Reserva, Manos, Ocupado, Ejecutando
<1>11. CASE CicloTerminado(p)
  <2>1. pc' \in [Hilos -> Lugares]
    BY <1>11 DEF CicloTerminado, Lugares, TypeOK
  <2>2. procesador' \in [Trips -> Nat]
    BY <1>11, RestarUno DEF CicloTerminado, TypeOK
  <2>3. quantum' \in [Procs -> Nat]
    BY <1>11, SumarUno DEF CicloTerminado, TypeOK
  <2>4. cola_de_exec' \in Seq(Trips) /\ victima' \in [Hilos -> Trips \cup {Nadie}]
    BY <1>11, SacarTipo DEF CicloTerminado, TypeOK
  <2> QED BY <1>11, <2>1, <2>2, <2>3, <2>4 DEF CicloTerminado, TypeOK, Reserva, Manos,
      Ocupado, Ejecutando
<1>12. CASE RevisarReady(p)
  <2>1. pc' \in [Hilos -> Lugares]
    BY <1>12 DEF RevisarReady, Lugares, TypeOK
  <2>2. cola_de_ready' \in Seq(Trips) /\ victima' \in [Hilos -> Trips \cup {Nadie}]
    BY <1>12, SacarTipo DEF RevisarReady, TypeOK
  <2> QED BY <1>12, <2>1, <2>2 DEF RevisarReady, TypeOK, Reserva, Manos, Ocupado,
      Ejecutando
<1>13. CASE RevisarPausa(p)
  <2>1. pc' \in [Hilos -> Lugares]
    BY <1>13 DEF RevisarPausa, Lugares, TypeOK
  <2> QED BY <1>13, <2>1 DEF RevisarPausa, TypeOK, Reserva, Manos, Ocupado, Ejecutando
<1>14. CASE AtenderPausa(p)
  <2>1. pc' = [pc EXCEPT ![p] = IF sabotaje THEN "rafaga" ELSE "detenido_en_rafaga"]
    BY <1>14 DEF AtenderPausa
  <2>4. pc' \in [Hilos -> Lugares]
    BY <2>1 DEF Lugares, TypeOK
  <2>2. sem_pausa' \in [Hilos -> Nat]
    BY <1>14 DEF AtenderPausa, TypeOK
  <2>3. estado' \in [Trips -> Estados]
    BY <1>14 DEF AtenderPausa, Estados, TypeOK
  <2> QED BY <1>14, <2>1, <2>2, <2>3, <2>4 DEF AtenderPausa, TypeOK, Reserva, Manos,
      Ocupado, Ejecutando
<1>15. CASE SeguirRafaga(p)
  <2>1. pc' \in [Hilos -> Lugares]
    BY <1>15 DEF SeguirRafaga, Lugares, TypeOK
  <2>2. sem_pausa' \in [Hilos -> Nat]
    BY <1>15, RestarUno DEF SeguirRafaga, TypeOK
  <2> QED BY <1>15, <2>1, <2>2 DEF SeguirRafaga, TypeOK, Reserva, Manos, Ocupado,
      Ejecutando
<1>16. CASE FinDeRafaga(p)
  <2>1. pc' \in [Hilos -> Lugares]
    BY <1>16 DEF FinDeRafaga, Lugares, TypeOK
  <2> QED BY <1>16, <2>1 DEF FinDeRafaga, TypeOK, Reserva, Manos, Ocupado, Ejecutando
<1>17. CASE SalirDeExec(p)
  <2>1. pc' \in [Hilos -> Lugares]
    BY <1>17 DEF SalirDeExec, Lugares, TypeOK
  <2>2. cola_de_exec' \in Seq(Trips)
    BY <1>17, SacarSeq DEF SalirDeExec, TypeOK
  <2> QED BY <1>17, <2>1, <2>2 DEF SalirDeExec, TypeOK, Reserva, Manos, Ocupado,
      Ejecutando
<1>18. CASE DespacharBloqueado(p)
  <2>1. mano' \in [Hilos -> Trips \cup {Nadie}] /\ pc' \in [Hilos -> Lugares]
    BY <1>18 DEF DespacharBloqueado, Soltar, Lugares, TypeOK
  <2>2. quantum' \in [Procs -> Nat]
    BY <1>18 DEF DespacharBloqueado, Soltar, TypeOK
  <2>3. cola_de_block' \in Seq(Trips)
    BY <1>18, AgregarSeq DEF DespacharBloqueado, AgregarElemento, Manos, Ocupado, TypeOK
  <2>4. sem_block' \in Nat
    BY <1>18 DEF DespacharBloqueado, TypeOK
  <2> QED BY <1>18, <2>1, <2>2, <2>3, <2>4 DEF DespacharBloqueado, Soltar, TypeOK,
      Reserva, Manos, Ocupado, Ejecutando
<1>19. CASE DespacharDesalojado(p)
  <2>1. mano' \in [Hilos -> Trips \cup {Nadie}] /\ pc' \in [Hilos -> Lugares]
    BY <1>19 DEF DespacharDesalojado, Soltar, Lugares, TypeOK
  <2>2. quantum' \in [Procs -> Nat]
    BY <1>19 DEF DespacharDesalojado, Soltar, TypeOK
  <2>3. cola_de_ready' \in Seq(Trips)
    BY <1>19, AgregarSeq DEF DespacharDesalojado, AReady, AgregarElemento, Manos,
        Ocupado, TypeOK
  <2>4. sem_ready' \in Nat
    BY <1>19 DEF DespacharDesalojado, AReady, TypeOK
  <2>5. estado' \in [Trips -> Estados]
    BY <1>19 DEF DespacharDesalojado, Estados, TypeOK
  <2> QED BY <1>19, <2>1, <2>2, <2>3, <2>4, <2>5 DEF DespacharDesalojado, Soltar,
      AReady, TypeOK, Reserva, Manos, Ocupado, Ejecutando
<1>20. CASE DespacharSinCola(p)
  <2>1. mano' \in [Hilos -> Trips \cup {Nadie}] /\ pc' \in [Hilos -> Lugares]
    BY <1>20 DEF DespacharSinCola, Soltar, Lugares, TypeOK
  <2>2. quantum' \in [Procs -> Nat]
    BY <1>20 DEF DespacharSinCola, Soltar, TypeOK
  <2> QED BY <1>20, <2>1, <2>2 DEF DespacharSinCola, Soltar, TypeOK, Reserva, Manos,
      Ocupado, Ejecutando
<1> QED BY <1>1, <1>2, <1>3, <1>4, <1>5, <1>6, <1>7, <1>8, <1>9, <1>10, <1>11, <1>12,
           <1>13, <1>14, <1>15, <1>16, <1>17, <1>18, <1>19, <1>20 DEF Procesador,
           PasarCompuerta

\* The same of planificador_a_largo_plazo.
LEMMA PlanificadorTipo ==
  ASSUME Tipos, PlanificadorLargoPlazo
  PROVE  Tipos'
<1> USE HilosOK, ProcsOK, TripsOK DEF Tipos, En, EnTrip, Fase, ConsolaLibre, colas,
    fichas,
           compuerta, hilos, consola, creacion, propio, comun, emergencia, ajeno,
           planificacion, tripulacion
<1>1. CASE TripulanteExpulsado("planificador")
  <2>1. expulsiones' \in [Trips -> Nat]
    BY <1>1, SumarUno DEF TripulanteExpulsado, TypeOK
  <2>2. estado' \in [Trips -> Estados]
    BY <1>1 DEF TripulanteExpulsado, Estados, TypeOK
  <2>3. victima' \in [Hilos -> Trips \cup {Nadie}]
    BY <1>1 DEF TripulanteExpulsado, TypeOK
  <2> QED BY <1>1, <2>1, <2>2, <2>3 DEF TripulanteExpulsado, TypeOK, Reserva, Manos,
      Ocupado, Ejecutando
<1>2. CASE TomarNew
  <2>1. pc' \in [Hilos -> Lugares]
    BY <1>2 DEF TomarNew, Lugares, TypeOK
  <2>2. sem_new' \in Nat
    BY <1>2 DEF TomarNew, TypeOK
  <2> QED BY <1>2, <2>1, <2>2 DEF TomarNew, TypeOK, Reserva, Manos, Ocupado, Ejecutando
<1>3. CASE LeerPausa("planificador")
  <2>1. pc' \in [Hilos -> Lugares]
    BY <1>3 DEF LeerPausa, TrasCompuerta, Lugares, TypeOK
  <2> QED BY <1>3, <2>1 DEF LeerPausa, TrasCompuerta, TypeOK, Reserva, Manos, Ocupado,
      Ejecutando
<1>4. CASE Drenar("planificador")
  <2>1. pc' \in [Hilos -> Lugares]
    BY <1>4 DEF Drenar, Lugares, TypeOK
  <2>2. sem_pausa' \in [Hilos -> Nat]
    BY <1>4 DEF Drenar, TypeOK
  <2> QED BY <1>4, <2>1, <2>2 DEF Drenar, TypeOK, Reserva, Manos, Ocupado, Ejecutando
<1>5. CASE Reanudarse("planificador")
  <2>1. pc' \in [Hilos -> Lugares]
    BY <1>5 DEF Reanudarse, TrasCompuerta, Lugares, TypeOK
  <2>2. sem_pausa' \in [Hilos -> Nat]
    BY <1>5, RestarUno DEF Reanudarse, TypeOK
  <2> QED BY <1>5, <2>1, <2>2 DEF Reanudarse, TrasCompuerta, TypeOK, Reserva, Manos,
      Ocupado, Ejecutando
<1>6. CASE ExpulsarDeNew
  <2>1. pc' \in [Hilos -> Lugares]
    BY <1>6 DEF ExpulsarDeNew, Lugares, TypeOK
  <2>2. cola_de_new' \in Seq(Trips) /\ victima' \in [Hilos -> Trips \cup {Nadie}]
    BY <1>6, SacarTipo DEF ExpulsarDeNew, TypeOK
  <2> QED BY <1>6, <2>1, <2>2 DEF ExpulsarDeNew, TypeOK, Reserva, Manos, Ocupado,
      Ejecutando
<1>7. CASE MoverAReady
  <2>1. CASE cola_de_new = <<>>
    BY <1>7, <2>1 DEF MoverAReady, TypeOK, Reserva, Manos, Ocupado, Ejecutando
  <2>2. CASE cola_de_new # <<>>
    <3>1. Head(cola_de_new) \in Trips /\ Tail(cola_de_new) \in Seq(Trips)
      BY <2>2, QuitarSeq DEF TypeOK
    <3> DEFINE t == Head(cola_de_new)
    <3>0. /\ estado' = [estado EXCEPT ![t] = "READY"]
          /\ cola_de_ready' = Append(cola_de_ready, t) /\ cola_de_new' = Tail(cola_de_new)
          /\ mano' = [mano EXCEPT !["planificador"] = t]
          /\ pc' = [pc EXCEPT !["planificador"] = "avisa"] /\ caida' = caida
      BY <1>7, <2>2 DEF MoverAReady, QuitarPrimero, AgregarElemento
    <3>2. cola_de_new' \in Seq(Trips) /\ cola_de_ready' \in Seq(Trips)
      BY <3>0, <3>1, AgregarSeq DEF TypeOK
    <3>3. mano' \in [Hilos -> Trips \cup {Nadie}] /\ pc' \in [Hilos -> Lugares]
      BY <3>0, <3>1 DEF Lugares, TypeOK
    <3>4. estado' \in [Trips -> Estados]
      BY <3>0 DEF Estados, TypeOK
    <3> QED BY <1>7, <3>0, <3>2, <3>3, <3>4
            DEF MoverAReady, TypeOK, Reserva, Manos, Ocupado, Ejecutando
  <2> QED BY <2>1, <2>2
<1>8. CASE AvisarReady
  <2>1. pc' \in [Hilos -> Lugares] /\ mano' \in [Hilos -> Trips \cup {Nadie}]
    BY <1>8 DEF AvisarReady, Lugares, TypeOK
  <2>2. sem_tri' \in [Trips -> Nat]
    BY <1>8, SumarUno DEF AvisarReady, TypeOK
  <2>3. sem_ready' \in Nat
    BY <1>8 DEF AvisarReady, TypeOK
  <2> QED BY <1>8, <2>1, <2>2, <2>3 DEF AvisarReady, TypeOK, Reserva, Manos, Ocupado,
      Ejecutando
<1> QED BY <1>1, <1>2, <1>3, <1>4, <1>5, <1>6, <1>7, <1>8 DEF PlanificadorLargoPlazo,
           PasarCompuerta

\* The same of ejecutar_tripulantes_bloqueados.
LEMMA DispositivoTipo ==
  ASSUME Tipos, Dispositivo
  PROVE  Tipos'
<1> USE HilosOK, ProcsOK, TripsOK DEF Tipos, En, EnTrip, Fase, ConsolaLibre, colas,
    fichas,
           compuerta, hilos, consola, creacion, propio, comun, emergencia, ajeno,
           planificacion, tripulacion
<1>1. CASE TripulanteExpulsado("es")
  <2>1. expulsiones' \in [Trips -> Nat]
    BY <1>1, SumarUno DEF TripulanteExpulsado, TypeOK
  <2>2. estado' \in [Trips -> Estados]
    BY <1>1 DEF TripulanteExpulsado, Estados, TypeOK
  <2>3. victima' \in [Hilos -> Trips \cup {Nadie}]
    BY <1>1 DEF TripulanteExpulsado, TypeOK
  <2> QED BY <1>1, <2>1, <2>2, <2>3 DEF TripulanteExpulsado, TypeOK, Reserva, Manos,
      Ocupado, Ejecutando
<1>2. CASE TomarBlock
  <2>1. pc' \in [Hilos -> Lugares]
    BY <1>2 DEF TomarBlock, Lugares, TypeOK
  <2>2. sem_block' \in Nat
    BY <1>2 DEF TomarBlock, TypeOK
  <2> QED BY <1>2, <2>1, <2>2
           DEF TomarBlock, TypeOK, Reserva, Manos, Ocupado, Ejecutando
<1>3. CASE ExpulsarDeBlock
  <2>1. pc' \in [Hilos -> Lugares]
    BY <1>3 DEF ExpulsarDeBlock, Lugares, TypeOK
  <2>2. cola_de_block' \in Seq(Trips) /\ victima' \in [Hilos -> Trips \cup {Nadie}]
    BY <1>3, SacarTipo DEF ExpulsarDeBlock, TypeOK
  <2> QED BY <1>3, <2>1, <2>2 DEF ExpulsarDeBlock, TypeOK, Reserva, Manos, Ocupado,
      Ejecutando
<1>4. CASE ElegirBloqueado
  <2>1. CASE cola_de_block = <<>>
    BY <1>4, <2>1 DEF ElegirBloqueado, TypeOK, Reserva, Manos, Ocupado, Ejecutando
  <2>2. CASE cola_de_block # <<>>
    <3>1. Head(cola_de_block) \in Trips
      BY <2>2, QuitarSeq DEF TypeOK
    <3>2. /\ mano' = [mano EXCEPT !["es"] = Head(cola_de_block)]
          /\ pc' = [pc EXCEPT !["es"] = "rafaga"] /\ caida' = caida
      BY <1>4, <2>2 DEF ElegirBloqueado
    <3>3. mano' \in [Hilos -> Trips \cup {Nadie}] /\ pc' \in [Hilos -> Lugares]
      BY <3>1, <3>2 DEF Lugares, TypeOK
    <3> QED BY <1>4, <3>2, <3>3
            DEF ElegirBloqueado, TypeOK, Reserva, Manos, Ocupado, Ejecutando
  <2> QED BY <2>1, <2>2
<1>5. CASE DarCicloES
  <2>1. pc' \in [Hilos -> Lugares]
    BY <1>5 DEF DarCicloES, Lugares, TypeOK
  <2>2. sem_tri' \in [Trips -> Nat]
    BY <1>5, SumarUno DEF DarCicloES, TypeOK
  <2> QED BY <1>5, <2>1, <2>2
           DEF DarCicloES, TypeOK, Reserva, Manos, Ocupado, Ejecutando
<1>6. CASE CicloESTerminado
  <2>1. pc' \in [Hilos -> Lugares]
    BY <1>6 DEF CicloESTerminado, Lugares, TypeOK
  <2>2. es_finalizada' \in Nat
    BY <1>6 DEF CicloESTerminado, TypeOK
  <2> QED BY <1>6, <2>1, <2>2 DEF CicloESTerminado, TypeOK, Reserva, Manos, Ocupado,
      Ejecutando
<1>7. CASE LeerPausa("es")
  <2>1. pc' \in [Hilos -> Lugares]
    BY <1>7 DEF LeerPausa, TrasCompuerta, Lugares, TypeOK
  <2> QED BY <1>7, <2>1 DEF LeerPausa, TrasCompuerta, TypeOK, Reserva, Manos, Ocupado,
      Ejecutando
<1>8. CASE Drenar("es")
  <2>1. pc' \in [Hilos -> Lugares]
    BY <1>8 DEF Drenar, Lugares, TypeOK
  <2>2. sem_pausa' \in [Hilos -> Nat]
    BY <1>8 DEF Drenar, TypeOK
  <2> QED BY <1>8, <2>1, <2>2 DEF Drenar, TypeOK, Reserva, Manos, Ocupado, Ejecutando
<1>9. CASE Reanudarse("es")
  <2>1. pc' \in [Hilos -> Lugares]
    BY <1>9 DEF Reanudarse, TrasCompuerta, Lugares, TypeOK
  <2>2. sem_pausa' \in [Hilos -> Nat]
    BY <1>9, RestarUno DEF Reanudarse, TypeOK
  <2> QED BY <1>9, <2>1, <2>2 DEF Reanudarse, TrasCompuerta, TypeOK, Reserva, Manos,
      Ocupado, Ejecutando
<1>10. CASE ExpulsarEnCiclo
  <2>1. pc' \in [Hilos -> Lugares]
    BY <1>10 DEF ExpulsarEnCiclo, Lugares, TypeOK
  <2>2. cola_de_block' \in Seq(Trips) /\ victima' \in [Hilos -> Trips \cup {Nadie}]
    BY <1>10, SacarTipo DEF ExpulsarEnCiclo, TypeOK
  <2> QED BY <1>10, <2>1, <2>2 DEF ExpulsarEnCiclo, TypeOK, Reserva, Manos, Ocupado,
      Ejecutando
<1>11. CASE DesbloquearTripulante
  <2>1. pc' \in [Hilos -> Lugares] /\ mano' \in [Hilos -> Trips \cup {Nadie}]
    BY <1>11 DEF DesbloquearTripulante, Lugares, TypeOK
  <2>2. cola_de_block' \in Seq(Trips) /\ cola_de_ready' \in Seq(Trips)
    BY <1>11, QuitarSeq, AgregarSeq DEF DesbloquearTripulante, QuitarPrimero, AReady,
        AgregarElemento, TypeOK
  <2>3. sem_ready' \in Nat
    BY <1>11 DEF DesbloquearTripulante, AReady, TypeOK
  <2> QED BY <1>11, <2>1, <2>2, <2>3 DEF DesbloquearTripulante, AReady, TypeOK, Reserva,
      Manos, Ocupado, Ejecutando
<1>12. CASE SoltarExpulsado
  <2>1. pc' \in [Hilos -> Lugares] /\ mano' \in [Hilos -> Trips \cup {Nadie}]
    BY <1>12 DEF SoltarExpulsado, Lugares, TypeOK
  <2> QED BY <1>12, <2>1
           DEF SoltarExpulsado, TypeOK, Reserva, Manos, Ocupado, Ejecutando
<1> QED BY <1>1, <1>2, <1>3, <1>4, <1>5, <1>6, <1>7, <1>8, <1>9, <1>10, <1>11, <1>12 DEF
           Dispositivo, PasarCompuerta

\* The same of ejecucion_tripulante.
LEMMA TripulanteTipo ==
  ASSUME Tipos, NEW t \in Trips, Tripulante(t)
  PROVE  Tipos'
<1> USE HilosOK, ProcsOK, TripsOK DEF Tipos, En, EnTrip, Fase, ConsolaLibre, colas,
    fichas,
           compuerta, hilos, consola, creacion, propio, comun, emergencia, ajeno,
           planificacion, tripulacion
<1>1. CASE Nacer(t)
  <2>1. pc_trip' \in [Trips -> LugaresTrip]
    BY <1>1 DEF Nacer, LugaresTrip, TypeOK
  <2>2. sem_tri' \in [Trips -> Nat]
    BY <1>1, RestarUno DEF Nacer, TypeOK
  <2> QED BY <1>1, <2>1, <2>2 DEF Nacer, TypeOK, Reserva, Manos, Ocupado, Ejecutando
<1>2. CASE PedirTarea(t)
  <2>1. pc_trip' \in [Trips -> LugaresTrip]
    <3>1. pc_trip' = [pc_trip EXCEPT ![t] = "fin"] \/ pc_trip' = [pc_trip EXCEPT ![t] = "ciclo"]
      BY <1>2 DEF PedirTarea
    <3>2. pc_trip \in [Trips -> LugaresTrip] /\ {"fin", "ciclo"} \subseteq LugaresTrip
      BY DEF TypeOK, LugaresTrip
    <3> QED BY ONLY <3>1, <3>2
  <2> QED BY <1>2, <2>1 DEF PedirTarea, TypeOK, Reserva, Manos, Ocupado, Ejecutando
<1>3. CASE PedirTareaDeExpulsado(t)
  <2> QED BY <1>3 DEF PedirTareaDeExpulsado, TypeOK, Reserva, Manos, Ocupado, Ejecutando
<1>4. CASE CicloMover(t)
  <2>1. sem_tri' \in [Trips -> Nat]
    BY <1>4, RestarUno DEF CicloMover, EsperaCiclo, TypeOK
  <2>2. procesador' \in [Trips -> Nat]
    BY <1>4, SumarUno DEF CicloMover, TypeOK
  <2> QED BY <1>4, <2>1, <2>2 DEF CicloMover, EsperaCiclo, TypeOK, Reserva, Manos,
      Ocupado, Ejecutando
<1>5. CASE CicloSyscall(t)
  <2>1. sem_tri' \in [Trips -> Nat]
    BY <1>5, RestarUno DEF CicloSyscall, EsperaCiclo, TypeOK
  <2>2. procesador' \in [Trips -> Nat]
    BY <1>5, SumarUno DEF CicloSyscall, TypeOK
  <2>3. estado' \in [Trips -> Estados]
    BY <1>5 DEF CicloSyscall, Estados, TypeOK
  <2> QED BY <1>5, <2>1, <2>2, <2>3 DEF CicloSyscall, EsperaCiclo, TypeOK, Reserva,
      Manos, Ocupado, Ejecutando
<1>6. CASE CicloES(t)
  <2>1. sem_tri' \in [Trips -> Nat]
    BY <1>6, RestarUno DEF CicloES, EsperaCiclo, TypeOK
  <2>2. estado' \in [Trips -> Estados]
    BY <1>6 DEF CicloES, Estados, TypeOK
  <2>3. pc_trip' \in [Trips -> LugaresTrip]
    BY <1>6 DEF CicloES, LugaresTrip, TypeOK
  <2>4. es_finalizada' \in Nat
    BY <1>6 DEF CicloES, TypeOK
  <2> QED BY <1>6, <2>1, <2>2, <2>3, <2>4 DEF CicloES, EsperaCiclo, TypeOK, Reserva,
      Manos, Ocupado, Ejecutando
<1>7. CASE CicloCPU(t)
  <2>1. sem_tri' \in [Trips -> Nat]
    BY <1>7, RestarUno DEF CicloCPU, EsperaCiclo, TypeOK
  <2>2. procesador' \in [Trips -> Nat]
    BY <1>7, SumarUno DEF CicloCPU, TypeOK
  <2>3. estado' \in [Trips -> Estados]
    BY <1>7 DEF CicloCPU, Estados, TypeOK
  <2>4. pc_trip' \in [Trips -> LugaresTrip]
    BY <1>7 DEF CicloCPU, LugaresTrip, TypeOK
  <2> QED BY <1>7, <2>1, <2>2, <2>3, <2>4 DEF CicloCPU, EsperaCiclo, TypeOK, Reserva,
      Manos, Ocupado, Ejecutando
<1>8. CASE CicloSinPatota(t)
  <2> QED BY <1>8 DEF CicloSinPatota, TypeOK, Reserva, Manos, Ocupado, Ejecutando
<1>9. CASE TareaTerminada(t)
  <2>1. pc_trip' \in [Trips -> LugaresTrip]
    BY <1>9 DEF TareaTerminada, LugaresTrip, TypeOK
  <2> QED BY <1>9, <2>1 DEF TareaTerminada, TypeOK, Reserva, Manos, Ocupado, Ejecutando
<1> QED BY <1>1, <1>2, <1>3, <1>4, <1>5, <1>6, <1>7, <1>8, <1>9 DEF Tripulante, Ciclo

\* The same of the console and of iniciar_planificacion.
LEMMA ConsolaTipo ==
  ASSUME Tipos, Consola \/ \E h \in Hilos : Reanudar(h)
  PROVE  Tipos'
<1> USE DEF Tipos, En, EnTrip, Fase, ConsolaLibre, colas, fichas,
           compuerta, hilos, consola, creacion, propio, comun, emergencia, ajeno,
           planificacion, tripulacion
<1>1. CASE IniciarPatota
  <2>1. tipeados + 1 \in 1..Len(Pedidos) /\ Pedidos[tipeados + 1] \in Pedido
    BY <1>1, ConstantesOK, ElementOfSeq, LenProperties DEF IniciarPatota, TypeOK
  <2>2. cola_de_iniciar_patotas' \in Seq(Pedido)
    BY <1>1, <2>1, AgregarSeq DEF IniciarPatota, TypeOK
  <2>3. tipeados' = tipeados + 1 /\ tipeados' \in 0..Len(Pedidos)
    BY <1>1, <2>1, LenProperties, ConstantesOK DEF IniciarPatota, TypeOK
  <2>4. UNCHANGED <<planificacion, tripulacion, lote, id_tcb, lista_de_patotas, emergencia, caida>>
    BY <1>1 DEF IniciarPatota
  <2>5. TypeOK'
    BY <1>1, <2>2, <2>3 DEF IniciarPatota, TypeOK
  <2> QED BY <2>4, <2>5 DEF Reserva, Manos, Ocupado, Ejecutando
<1>2. CASE PausarPlanificacion
  BY <1>2 DEF PausarPlanificacion, TypeOK, Reserva, Manos, Ocupado, Ejecutando
<1>3. CASE IniciarPlanificacion
  BY <1>3 DEF IniciarPlanificacion, TypeOK, Reserva, Manos, Ocupado, Ejecutando
<1>4. CASE \E t \in Expulsables : ExpulsarTripulante(t)
  <2>1. PICK t \in Expulsables : ExpulsarTripulante(t)
    BY <1>4
  <2>2. expulsado' \in [Trips -> BOOLEAN]
    BY <2>1 DEF ExpulsarTripulante, TypeOK
  <2>3. UNCHANGED <<planificacion, estado, sem_tri, procesador, expulsiones, ajeno>>
    BY <2>1 DEF ExpulsarTripulante
  <2>4. TypeOK'
    BY <2>2, <2>3 DEF TypeOK
  <2> QED BY <2>3, <2>4 DEF Reserva, Manos, Ocupado, Ejecutando
<1>5. ASSUME NEW h \in Hilos, Reanudar(h)
      PROVE  Tipos'
  <2>1. sem_pausa' \in [Hilos -> Nat]
    <3>1. CASE sem_pausa[h] <= 0
      BY <1>5, <3>1, SumarUno DEF Reanudar, TypeOK
    <3>2. CASE ~(sem_pausa[h] <= 0)
      BY <1>5, <3>2 DEF Reanudar, TypeOK
    <3> QED BY <3>1, <3>2
  <2> QED BY <1>5, <2>1 DEF Reanudar, TypeOK, Reserva, Manos, Ocupado, Ejecutando
<1> QED BY <1>1, <1>2, <1>3, <1>4, <1>5 DEF Consola

\* The creation of crews is where the ids matter: a request takes its ids from
\* those of nobody, and gives one to each crew it creates.
LEMMA GestorTipo ==
  ASSUME Tipos, Gestor
  PROVE  Tipos'
<1> USE TripsOK DEF Tipos, En, EnTrip, Fase, ConsolaLibre, colas, fichas,
           compuerta, hilos, consola, creacion, propio, comun, emergencia, ajeno,
           planificacion, tripulacion
<1> /\ lote.quedan \in Nat /\ id_tcb \in Nat /\ id_tcb >= 1 /\ id_tcb <= MaxTrips + 1
    /\ MaxTrips \in Nat /\ DOMAIN lote = {"fase", "quedan", "pedido"}
  BY ConstantesOK DEF TypeOK
<1>1. CASE PedirMemoria
  <2> DEFINE pedido == Head(cola_de_iniciar_patotas)
  <2>1. pedido \in Pedido /\ Tail(cola_de_iniciar_patotas) \in Seq(Pedido)
    BY <1>1, QuitarSeq DEF PedirMemoria, TypeOK
  <2>2. pedido.cantidad \in Nat \ {0}
    BY <2>1 DEF Pedido
  <2>3. /\ id_tcb' = id_tcb + pedido.cantidad /\ id_tcb + pedido.cantidad - 1 <= MaxTrips
        /\ lote' = [fase |-> "memoria", quedan |-> pedido.cantidad, pedido |-> pedido]
        /\ cola_de_iniciar_patotas' = Tail(cola_de_iniciar_patotas)
        /\ pc_trip' = pc_trip /\ lote.fase = "libre"
    BY <1>1 DEF PedirMemoria
  <2>4. id_tcb' \in 1..MaxTrips + 1
    BY <2>2, <2>3
  <2>5. lote' \in [fase : {"libre", "memoria", "crea"}, quedan : Nat, pedido : Pedido]
    BY <2>1, <2>2, <2>3
  <2>6. Reserva'
    <3>1. lote'.quedan = pedido.cantidad /\ lote'.fase = "memoria"
      BY <2>3
    <3>2. lote.quedan = 0
      BY <2>3 DEF Reserva
    <3>3. id_tcb' - lote'.quedan = id_tcb - lote.quedan
      BY <2>2, <2>3, <3>1, <3>2
    <3> QED BY <2>2, <2>3, <3>1, <3>3 DEF Reserva
  <2> QED BY <1>1, <2>1, <2>3, <2>4, <2>5, <2>6
          DEF PedirMemoria, TypeOK, Manos, Ocupado, Ejecutando
<1>2. CASE MemoriaDenegada
  <2>1. lote' = SinLote /\ id_tcb' = id_tcb - lote.quedan /\ pc_trip' = pc_trip
    BY <1>2 DEF MemoriaDenegada
  <2>2. SinLote \in [fase : {"libre", "memoria", "crea"}, quedan : Nat, pedido : Pedido]
    BY DEF SinLote, SinPedido, Pedido
  <2>3. id_tcb' \in 1..MaxTrips + 1
    BY <2>1 DEF Reserva
  <2>4. lote'.quedan = 0 /\ id_tcb' - lote'.quedan = id_tcb - lote.quedan
    BY <2>1 DEF SinLote
  <2>5. Reserva'
    BY <2>1, <2>3, <2>4 DEF Reserva
  <2> QED BY <1>2, <2>1, <2>2, <2>3, <2>5
          DEF MemoriaDenegada, TypeOK, Manos, Ocupado, Ejecutando
<1>3. CASE MemoriaConcedida
  BY <1>3 DEF MemoriaConcedida, TypeOK, Reserva, Manos, Ocupado, Ejecutando
<1>4. CASE CrearTripulante
  <2> DEFINE t == id_tcb - lote.quedan
  <2>1. lote.quedan > 0 /\ lote.quedan < id_tcb
    BY <1>4 DEF CrearTripulante, Reserva
  <2>2. t \in Trips /\ lote.quedan - 1 \in Nat
    BY <2>1 DEF Trips
  <2>3. /\ pc_trip' = [pc_trip EXCEPT ![t] = "nace"]
        /\ cola_de_new' = Append(cola_de_new, t)
        /\ lote' = [lote EXCEPT !.quedan = @ - 1] /\ id_tcb' = id_tcb
    BY <1>4 DEF CrearTripulante, AgregarElemento
  <2>4. lote'.quedan = lote.quedan - 1 /\ lote'.fase = lote.fase /\ lote.fase = "crea"
    BY <1>4, <2>3 DEF CrearTripulante
  <2>5. pc_trip' \in [Trips -> LugaresTrip]
    BY <2>3 DEF TypeOK, LugaresTrip
  <2>6. cola_de_new' \in Seq(Trips)
    BY <2>2, <2>3, AgregarSeq DEF TypeOK
  <2>7. lote' \in [fase : {"libre", "memoria", "crea"}, quedan : Nat, pedido : Pedido]
    BY <2>2, <2>3 DEF TypeOK
  <2>8. Reserva'
    <3>1. ASSUME NEW u \in Trips, u >= id_tcb' - lote'.quedan
          PROVE  pc_trip'[u] = "no_creado"
      <4>1. u >= t /\ u # t
        BY <2>1, <2>3, <2>4, <3>1 DEF Trips
      <4> QED BY <2>3, <4>1 DEF Reserva, TypeOK
    <3> QED BY <2>1, <2>3, <2>4, <3>1 DEF Reserva
  <2>9. sem_new' \in Nat
    <3>1. sem_new \in Nat
      BY DEF TypeOK
    <3>2. sem_new' = sem_new + 1
      BY <1>4 DEF CrearTripulante
    <3> QED BY ONLY <3>1, <3>2
  <2> QED BY <1>4, <2>5, <2>6, <2>7, <2>8, <2>9
          DEF CrearTripulante, TypeOK, Manos, Ocupado, Ejecutando
<1>5. CASE RegistrarPatota
  <2>1. SinLote \in [fase : {"libre", "memoria", "crea"}, quedan : Nat, pedido : Pedido]
    BY DEF SinLote, SinPedido, Pedido
  <2>2. Reserva'
    BY <1>5 DEF RegistrarPatota, TypeOK, Reserva, SinLote
  <2> QED BY <1>5, <2>1, <2>2 DEF RegistrarPatota, TypeOK, Manos, Ocupado, Ejecutando
<1> QED BY <1>1, <1>2, <1>3, <1>4, <1>5 DEF Gestor

\* The threads start with the state in its shape.
LEMMA TiposInicial == Init => Tipos
<1>1. SUFFICES ASSUME Init PROVE Tipos
  OBVIOUS
<1>2. TypeOK
  <2>1. SinLote \in [fase : {"libre", "memoria", "crea"}, quedan : Nat, pedido : Pedido]
    BY DEF SinLote, SinPedido, Pedido
  <2>2. id_tcb \in 1..MaxTrips + 1 /\ tipeados \in 0..Len(Pedidos)
    BY <1>1, ConstantesOK, LenProperties DEF Init
  <2>3. pc \in [Hilos -> Lugares] /\ pc_trip \in [Trips -> LugaresTrip]
    BY <1>1 DEF Init, Lugares, LugaresTrip
  <2>4. estado \in [Trips -> Estados]
    BY <1>1 DEF Init, Estados
  <2>5. /\ <<>> \in Seq(Trips) /\ <<>> \in Seq(Pedido)
        /\ mano \in [Hilos -> Trips \cup {Nadie}] /\ victima \in [Hilos -> Trips \cup
            {Nadie}]
    BY <1>1, EmptySeq DEF Init
  <2>6. /\ sem_tri \in [Trips -> Nat] /\ procesador \in [Trips -> Nat]
        /\ expulsiones \in [Trips -> Nat] /\ sem_pausa \in [Hilos -> Nat]
        /\ quantum \in [Procs -> Nat] /\ expulsado \in [Trips -> BOOLEAN]
    BY <1>1 DEF Init
  <2> QED BY <1>1, <2>1, <2>2, <2>3, <2>4, <2>5, <2>6 DEF Init, TypeOK
<1>3. Reserva
  BY <1>1 DEF Init, Reserva, SinLote
<1>4. Manos
  BY <1>1, ProcsOK DEF Init, Manos, Ocupado, Ejecutando
<1> QED BY <1>2, <1>3, <1>4 DEF Tipos

\* Every step of every thread keeps it.
LEMMA TiposPaso == Tipos /\ [Next]_vars => Tipos'
<1>1. SUFFICES ASSUME Tipos, [Next]_vars PROVE Tipos'
  OBVIOUS
<1>2. CASE UNCHANGED vars
  BY <1>1, <1>2 DEF vars, Tipos, TypeOK, Reserva, Manos, colas, fichas, compuerta,
      hilos, consola, creacion, propio, comun,
              emergencia, ajeno, planificacion, tripulacion
<1>3. CASE Next
  BY <1>1, <1>3, ConsolaTipo, GestorTipo, PlanificadorTipo, ProcesadorTipo,
      DispositivoTipo,
     TripulanteTipo DEF Next
<1> QED BY <1>1, <1>2, <1>3

\* The state always has its shape: lists of crews, semaphores never negative.
THEOREM SpecTipos == Spec => []TypeOK
<1>1. Tipos => TypeOK
  BY DEF Tipos
<1> QED BY <1>1, TiposInicial, TiposPaso, PTL DEF Spec
-----------------------------------------------------------------------------
(* A crew is in one place.  Alone that does not follow from one step to the *)
(* next: it takes that no crew in a list or in a hand is yet to be created,  *)
(* that a processor looking for a crew has none, and that the processor of   *)
(* each crew in cola_de_exec is in its burst.                                *)

Desocupado == {"libre", "lee_pausa", "drena", "detenido", "expulsa", "elige"}
Listados == Range(cola_de_new) \cup Range(cola_de_ready) \cup Range(cola_de_block)
EnManos == {mano[p] : p \in Procs}
EnExec ==
  \A t \in Range(cola_de_exec) : \E p \in Procs : mano[p] = t /\ pc[p] \in Ejecutando

Inductiva ==
  /\ Tipos
  /\ ~sabotaje
  /\ \A t \in Trips : t \in Listados \cup EnManos => pc_trip[t] # "no_creado"
  /\ \A p \in Procs : pc[p] \in Desocupado => mano[p] = Nadie
  /\ EnExec
  /\ UnSoloLugar

\* Nothing is added to a list and nobody takes a crew in hand.
LEMMA Encoge ==
  ASSUME Inductiva, Tipos', ~sabotaje',
         Range(cola_de_new') \subseteq Range(cola_de_new), IsInjective(cola_de_new'),
         Range(cola_de_ready') \subseteq Range(cola_de_ready),
         IsInjective(cola_de_ready'),
         Range(cola_de_exec') \subseteq Range(cola_de_exec), IsInjective(cola_de_exec'),
         Range(cola_de_block') \subseteq Range(cola_de_block),
         IsInjective(cola_de_block'),
         \A t \in Trips : pc_trip[t] # "no_creado" => pc_trip'[t] # "no_creado",
         \A p \in Procs : mano'[p] \in {mano[p], Nadie},
         \A p \in Procs : pc'[p] \in Desocupado => mano'[p] = Nadie,
         \A p \in Procs : pc[p] \in Ejecutando /\ mano[p] \in Range(cola_de_exec')
                            => pc'[p] \in Ejecutando /\ mano'[p] = mano[p]
  PROVE  Inductiva'
<1>1. \A t \in Trips : t \in (Listados \cup EnManos)' => pc_trip'[t] # "no_creado"
  <2>1. ASSUME NEW t \in Trips, t \in (Listados \cup EnManos)'
        PROVE  t \in Listados \cup EnManos
    BY <2>1, TripsOK DEF Listados, EnManos
  <2> QED BY <2>1 DEF Inductiva
<1>2. EnExec'
  BY DEF EnExec, Inductiva
<1>3. UnSoloLugar'
  <2>1. Range(cola_de_exec') \subseteq {mano'[p] : p \in Procs}
    BY <1>2 DEF EnExec
  <2>2. Nadie \notin Listados
    BY TripsOK, RangeOfSeq DEF Inductiva, Tipos, TypeOK, Listados
  <2>3. \A p \in Procs : mano'[p] \notin Listados'
    BY <2>2 DEF Inductiva, UnSoloLugar, Listados
  <2> QED BY <2>1, <2>3 DEF Inductiva, UnSoloLugar, Listados
<1> QED BY <1>1, <1>2, <1>3 DEF Inductiva

\* A list an expelled crew leaves has no new crew and none twice.
LEMMA SacarLista ==
  ASSUME NEW h, NEW c \in Seq(Trips), IsInjective(c), NEW d, SacarExpulsado(h, c, d)
  PROVE  Range(d) \subseteq Range(c) /\ IsInjective(d)
BY SacarSeq DEF SacarExpulsado

\* A processor lets go of its crew, which goes at most to the end of one list.
LEMMA Suelta ==
  ASSUME Inductiva, Tipos', NEW p \in Procs, pc[p] = "despacha",
         mano[p] \notin Listados,
         mano' = [mano EXCEPT ![p] = Nadie], pc' = [pc EXCEPT ![p] = "libre"],
         UNCHANGED <<cola_de_new, cola_de_exec, pc_trip, sabotaje>>,
         IsInjective(cola_de_ready'), IsInjective(cola_de_block'),
         \/ /\ cola_de_ready' = cola_de_ready
            /\ Range(cola_de_block') = Range(cola_de_block) \cup {mano[p]}
         \/ /\ cola_de_block' = cola_de_block
            /\ Range(cola_de_ready') = Range(cola_de_ready) \cup {mano[p]}
  PROVE  Inductiva'
<1> USE ProcsOK, TripsOK
<1>1. mano'[p] = Nadie /\ \A q \in Procs : q # p => mano'[q] = mano[q] /\ pc'[q] = pc[q]
  BY DEF Inductiva, Tipos, TypeOK
<1>2. EnExec'
  BY <1>1 DEF EnExec, Inductiva, Ejecutando
<1>3. Nadie \notin Listados' /\ mano[p] # Nadie
  <2>1. Nadie \notin Listados'
    BY RangeOfSeq DEF Tipos, TypeOK, Listados
  <2> QED BY <2>1 DEF Listados
<1>4. UnSoloLugar'
  <2>1. Range(cola_de_exec') \subseteq {mano'[q] : q \in Procs}
    BY <1>2 DEF EnExec
  <2>2. \A q \in Procs : mano'[q] \notin Listados'
    <3>1. ASSUME NEW q \in Procs, q # p
          PROVE  mano'[q] \notin Listados'
      BY <1>1, <1>3, <3>1 DEF Inductiva, UnSoloLugar, Listados
    <3> QED BY <1>1, <1>3, <3>1
  <2>3. \A q, r \in Procs : q # r /\ mano'[q] = mano'[r] => mano'[q] = Nadie
    BY <1>1 DEF Inductiva, UnSoloLugar
  <2> QED BY <2>1, <2>2, <2>3 DEF Inductiva, UnSoloLugar, Listados
<1>5. \A t \in Trips : t \in (Listados \cup EnManos)' => pc_trip'[t] # "no_creado"
  BY <1>1 DEF Inductiva, Listados, EnManos
<1>6. \A q \in Procs : pc'[q] \in Desocupado => mano'[q] = Nadie
  BY <1>1 DEF Inductiva
<1> QED BY <1>2, <1>4, <1>5, <1>6 DEF Inductiva

\* A crew goes from new or from block to ready.
LEMMA Traslada ==
  ASSUME Inductiva, Tipos', NEW t \in Trips,
         t \in Range(cola_de_new) \cup Range(cola_de_block),
         Range(cola_de_new') \subseteq Range(cola_de_new), IsInjective(cola_de_new'),
         Range(cola_de_block') \subseteq Range(cola_de_block),
         IsInjective(cola_de_block'),
         t \notin Range(cola_de_new') \cup Range(cola_de_block'),
         Range(cola_de_ready') = Range(cola_de_ready) \cup {t},
         IsInjective(cola_de_ready'),
         \A p \in Procs : mano'[p] = mano[p] /\ pc'[p] = pc[p],
         UNCHANGED <<cola_de_exec, pc_trip, sabotaje>>
  PROVE  Inductiva'
<1>1. EnExec'
  BY DEF EnExec, Inductiva
<1>2. UnSoloLugar'
  <2>1. Range(cola_de_exec') \subseteq {mano'[q] : q \in Procs}
    BY <1>1 DEF EnExec
  <2> QED BY <2>1 DEF Inductiva, UnSoloLugar
<1>3. \A u \in Trips : u \in (Listados \cup EnManos)' => pc_trip'[u] # "no_creado"
  BY DEF Inductiva, Listados, EnManos
<1> QED BY <1>1, <1>2, <1>3 DEF Inductiva

\* The steps of a processor keep each crew in one place.
LEMMA ProcesadorLugar ==
  ASSUME Inductiva, Tipos', NEW p \in Procs, Procesador(p)
  PROVE  Inductiva'
<1> USE HilosOK, ProcsOK, TripsOK
       DEF En, EnTrip, Fase, ConsolaLibre, colas, fichas, compuerta, hilos, consola,
           creacion, propio, comun, emergencia, ajeno, planificacion, tripulacion
<1>1. CASE TripulanteExpulsado(p)
  BY <1>1, Encoge DEF TripulanteExpulsado, Inductiva, UnSoloLugar, Tipos, TypeOK,
     Desocupado, Ejecutando
<1>2. CASE TomarReady(p)
  BY <1>2, Encoge DEF TomarReady, Inductiva, UnSoloLugar, Tipos, TypeOK, Desocupado,
     Ejecutando
<1>3. CASE LeerPausa(p)
  BY <1>3, Encoge DEF LeerPausa, TrasCompuerta, Inductiva, UnSoloLugar, Tipos, TypeOK,
     Desocupado, Ejecutando
<1>4. CASE Drenar(p)
  BY <1>4, Encoge DEF Drenar, Inductiva, UnSoloLugar, Tipos, TypeOK, Desocupado,
     Ejecutando
<1>5. CASE Reanudarse(p)
  BY <1>5, Encoge DEF Reanudarse, TrasCompuerta, Inductiva, UnSoloLugar, Tipos, TypeOK,
     Desocupado, Ejecutando
<1>6. CASE ExpulsarDeReady(p)
  <2>1. Range(cola_de_ready') \subseteq Range(cola_de_ready) /\ IsInjective(cola_de_ready')
    BY <1>6, SacarLista DEF ExpulsarDeReady, Inductiva, UnSoloLugar, Tipos, TypeOK
  <2> QED BY <1>6, <2>1, Encoge
          DEF ExpulsarDeReady, Inductiva, UnSoloLugar, Tipos, TypeOK, Desocupado,
              Ejecutando
<1>7. CASE ElegirTripulante(p)
  <2> DEFINE t == Head(cola_de_ready)
  <2>1. /\ t \in Range(cola_de_ready) /\ t \in Trips /\ t \notin Range(cola_de_ready')
        /\ Range(cola_de_ready') \subseteq Range(cola_de_ready) /\ IsInjective(cola_de_ready')
    BY <1>7, QuitarSeq DEF ElegirTripulante, QuitarPrimero, Inductiva, UnSoloLugar,
       Tipos, TypeOK
  <2>2. /\ mano' = [mano EXCEPT ![p] = t] /\ pc' = [pc EXCEPT ![p] = "agrega_exec"]
        /\ mano[p] = Nadie /\ mano'[p] = t /\ \A q \in Procs : q # p => mano'[q] = mano[q]
    BY <1>7 DEF ElegirTripulante, Inductiva, Desocupado, Tipos, TypeOK
  <2>3. \A q \in Procs : mano[q] # t
    BY <2>1 DEF Inductiva, UnSoloLugar
  <2>4. EnExec'
    <3>1. \A u \in Range(cola_de_exec) : \E q \in Procs :
            q # p /\ mano[q] = u /\ pc[q] \in Ejecutando
      BY <1>7 DEF ElegirTripulante, EnExec, Inductiva, Ejecutando
    <3>2. cola_de_exec' = cola_de_exec /\ \A q \in Procs : q # p => pc'[q] = pc[q]
      BY <1>7 DEF ElegirTripulante, Inductiva, Tipos, TypeOK
    <3> QED BY <2>2, <3>1, <3>2 DEF EnExec
  <2>5. UnSoloLugar'
    <3>1. Range(cola_de_exec') \subseteq {mano'[q] : q \in Procs}
      BY <2>4 DEF EnExec
    <3> QED BY <1>7, <2>1, <2>2, <2>3, <3>1 DEF ElegirTripulante, Inductiva, UnSoloLugar
  <2>6. \A u \in Trips : u \in (Listados \cup EnManos)' => pc_trip'[u] # "no_creado"
    BY <1>7, <2>1, <2>2 DEF ElegirTripulante, Inductiva, Listados, EnManos
  <2>7. \A q \in Procs : pc'[q] \in Desocupado => mano'[q] = Nadie
    <3>1. pc'[p] = "agrega_exec" /\ \A q \in Procs : q # p => pc'[q] = pc[q]
      BY <2>2 DEF Inductiva, Tipos, TypeOK
    <3> QED BY <2>2, <3>1 DEF Inductiva, Desocupado
  <2>8. ~sabotaje'
    BY <1>7 DEF ElegirTripulante, Inductiva
  <2> QED BY ONLY Tipos', <2>4, <2>5, <2>6, <2>7, <2>8 DEF Inductiva
<1>8. CASE NadieAElegir(p)
  BY <1>8, Encoge DEF NadieAElegir, Inductiva, UnSoloLugar, Tipos, TypeOK, Desocupado,
     Ejecutando
<1>9. CASE AgregarAExec(p)
  <2>1. mano[p] \in Trips /\ pc[p] = "agrega_exec"
    BY <1>9 DEF AgregarAExec, Inductiva, Tipos, Manos, Ocupado
  <2>2. mano[p] \notin Range(cola_de_exec)
    BY <2>1 DEF Inductiva, UnSoloLugar, EnExec, Ejecutando
  <2>3. /\ IsInjective(cola_de_exec')
        /\ Range(cola_de_exec') = Range(cola_de_exec) \cup {mano[p]}
    <3>1. cola_de_exec \in Seq(Trips) /\ IsInjective(cola_de_exec)
      BY DEF Inductiva, UnSoloLugar, Tipos, TypeOK
    <3>2. cola_de_exec' = Append(cola_de_exec, mano[p])
      BY <1>9 DEF AgregarAExec, AgregarElemento
    <3> QED BY ONLY <2>1, <2>2, <3>1, <3>2, AgregarSeq
  <2>4. EnExec'
    <3>1. mano' = mano /\ pc'[p] = "rafaga" /\ \A q \in Procs : q # p => pc'[q] = pc[q]
      BY <1>9 DEF AgregarAExec, Inductiva, Tipos, TypeOK
    <3>2. \A t \in Range(cola_de_exec) :
            \E q \in Procs : q # p /\ mano[q] = t /\ pc[q] \in Ejecutando
      BY <2>1 DEF EnExec, Inductiva, Ejecutando
    <3>3. "rafaga" \in Ejecutando
      BY DEF Ejecutando
    <3> QED BY ONLY <2>3, <3>1, <3>2, <3>3 DEF EnExec
  <2>5. UnSoloLugar'
    <3>1. Range(cola_de_exec') \subseteq {mano'[q] : q \in Procs}
      BY <2>4 DEF EnExec
    <3> QED BY <1>9, <2>3, <3>1 DEF AgregarAExec, Inductiva, UnSoloLugar
  <2>6. \A u \in Trips : u \in (Listados \cup EnManos)' => pc_trip'[u] # "no_creado"
    BY <1>9 DEF AgregarAExec, Inductiva, Listados, EnManos
  <2> QED BY <1>9, <2>4, <2>5, <2>6
          DEF AgregarAExec, Inductiva, Desocupado, Tipos, TypeOK
<1>10. CASE DarCiclo(p)
  BY <1>10, Encoge DEF DarCiclo, Inductiva, UnSoloLugar, Tipos, TypeOK, Desocupado,
     Ejecutando
<1>11. CASE CicloTerminado(p)
  <2>1. Range(cola_de_exec') \subseteq Range(cola_de_exec) /\ IsInjective(cola_de_exec')
    BY <1>11, SacarLista DEF CicloTerminado, Inductiva, UnSoloLugar, Tipos, TypeOK
  <2> QED BY <1>11, <2>1, Encoge
          DEF CicloTerminado, Inductiva, UnSoloLugar, Tipos, TypeOK, Desocupado,
              Ejecutando
<1>12. CASE RevisarReady(p)
  <2>1. Range(cola_de_ready') \subseteq Range(cola_de_ready) /\ IsInjective(cola_de_ready')
    BY <1>12, SacarLista DEF RevisarReady, Inductiva, UnSoloLugar, Tipos, TypeOK
  <2> QED BY <1>12, <2>1, Encoge
          DEF RevisarReady, Inductiva, UnSoloLugar, Tipos, TypeOK, Desocupado,
              Ejecutando
<1>13. CASE RevisarPausa(p)
  BY <1>13, Encoge DEF RevisarPausa, Inductiva, UnSoloLugar, Tipos, TypeOK, Desocupado,
     Ejecutando
<1>14. CASE AtenderPausa(p)
  <2>1. /\ pc[p] = "atiende_pausa" /\ pc'[p] \in Ejecutando
        /\ \A q \in Procs : q # p => pc'[q] = pc[q]
    BY <1>14 DEF AtenderPausa, Ejecutando, Inductiva, Tipos, TypeOK
  <2> QED BY <1>14, <2>1, Encoge
          DEF AtenderPausa, Inductiva, UnSoloLugar, Tipos, TypeOK, Desocupado,
              Ejecutando
<1>15. CASE SeguirRafaga(p)
  BY <1>15, Encoge DEF SeguirRafaga, Inductiva, UnSoloLugar, Tipos, TypeOK, Desocupado,
     Ejecutando
<1>16. CASE FinDeRafaga(p)
  BY <1>16, Encoge DEF FinDeRafaga, Inductiva, UnSoloLugar, Tipos, TypeOK, Desocupado,
     Ejecutando
<1>17. CASE SalirDeExec(p)
  <2>1. /\ Range(cola_de_exec') \subseteq Range(cola_de_exec) /\ IsInjective(cola_de_exec')
        /\ mano[p] \notin Range(cola_de_exec')
    <3>1. ASSUME NEW i \in DOMAIN cola_de_exec, cola_de_exec[i] = mano[p],
                 cola_de_exec' = RemoveAt(cola_de_exec, i)
          PROVE  /\ Range(cola_de_exec') \subseteq Range(cola_de_exec)
                 /\ IsInjective(cola_de_exec') /\ mano[p] \notin Range(cola_de_exec')
      BY <3>1, SacarSeq DEF Inductiva, UnSoloLugar, Tipos, TypeOK
    <3>2. ASSUME \A i \in DOMAIN cola_de_exec : cola_de_exec[i] # mano[p],
                 cola_de_exec' = cola_de_exec
          PROVE  /\ Range(cola_de_exec') \subseteq Range(cola_de_exec)
                 /\ IsInjective(cola_de_exec') /\ mano[p] \notin Range(cola_de_exec')
      BY <3>2 DEF Inductiva, UnSoloLugar, Range
    <3> QED BY <1>17, <3>1, <3>2 DEF SalirDeExec, Inductiva
  <2>2. \A q \in Procs : q # p => pc'[q] = pc[q]
    BY <1>17 DEF SalirDeExec, Tipos, TypeOK, Inductiva
  <2> QED BY <1>17, <2>1, <2>2, Encoge
          DEF SalirDeExec, Inductiva, UnSoloLugar, Tipos, TypeOK, Desocupado, Ejecutando
<1>18. CASE DespacharBloqueado(p)
  <2>1. /\ mano[p] \in Trips /\ mano[p] \notin Listados
        /\ pc[p] = "despacha" /\ mano[p] \notin Range(cola_de_exec)
    BY <1>18 DEF DespacharBloqueado, Inductiva, Tipos, Manos, Ocupado, UnSoloLugar,
       Listados, EnExec,
                 Ejecutando
  <2>2. /\ IsInjective(cola_de_block')
        /\ Range(cola_de_block') = Range(cola_de_block) \cup {mano[p]}
    <3>1. cola_de_block \in Seq(Trips) /\ IsInjective(cola_de_block)
      BY DEF Inductiva, UnSoloLugar, Tipos, TypeOK
    <3>2. cola_de_block' = Append(cola_de_block, mano[p]) /\ mano[p] \notin Range(cola_de_block)
      BY <1>18, <2>1 DEF DespacharBloqueado, AgregarElemento, Listados
    <3> QED BY ONLY <2>1, <3>1, <3>2, AgregarSeq
  <2> QED BY <1>18, <2>1, <2>2, Suelta
           DEF DespacharBloqueado, Soltar, Inductiva, UnSoloLugar
<1>19. CASE DespacharDesalojado(p)
  <2>1. /\ mano[p] \in Trips /\ mano[p] \notin Listados
        /\ pc[p] = "despacha" /\ mano[p] \notin Range(cola_de_exec)
    BY <1>19 DEF DespacharDesalojado, Inductiva, Tipos, Manos, Ocupado, UnSoloLugar,
       Listados, EnExec,
                 Ejecutando
  <2>2. /\ IsInjective(cola_de_ready')
        /\ Range(cola_de_ready') = Range(cola_de_ready) \cup {mano[p]}
    <3>1. cola_de_ready \in Seq(Trips) /\ IsInjective(cola_de_ready)
      BY DEF Inductiva, UnSoloLugar, Tipos, TypeOK
    <3>2. cola_de_ready' = Append(cola_de_ready, mano[p]) /\ mano[p] \notin Range(cola_de_ready)
      BY <1>19, <2>1 DEF DespacharDesalojado, AReady, AgregarElemento, Listados
    <3> QED BY ONLY <2>1, <3>1, <3>2, AgregarSeq
  <2> QED BY <1>19, <2>1, <2>2, Suelta
           DEF DespacharDesalojado, Soltar, Inductiva, UnSoloLugar
<1>20. CASE DespacharSinCola(p)
  BY <1>20, Encoge DEF DespacharSinCola, Soltar, Inductiva, UnSoloLugar, Tipos, TypeOK,
     Desocupado, Ejecutando
<1> QED BY <1>1, <1>2, <1>3, <1>4, <1>5, <1>6, <1>7, <1>8, <1>9, <1>10, <1>11, <1>12,
           <1>13, <1>14, <1>15, <1>16, <1>17, <1>18, <1>19, <1>20 DEF Procesador,
           PasarCompuerta

\* So do those of the planner.
LEMMA PlanificadorLugar ==
  ASSUME Inductiva, Tipos', PlanificadorLargoPlazo
  PROVE  Inductiva'
<1> USE HilosOK, ProcsOK, TripsOK
       DEF En, EnTrip, Fase, ConsolaLibre, colas, fichas, compuerta, hilos, consola,
           creacion, propio, comun, emergencia, ajeno, planificacion, tripulacion
<1>1. CASE TripulanteExpulsado("planificador")
  BY <1>1, Encoge DEF TripulanteExpulsado, Inductiva, UnSoloLugar, Tipos, TypeOK,
     Desocupado, Ejecutando
<1>2. CASE TomarNew
  BY <1>2, Encoge DEF TomarNew, Inductiva, UnSoloLugar, Tipos, TypeOK, Desocupado,
     Ejecutando
<1>3. CASE LeerPausa("planificador")
  BY <1>3, Encoge DEF LeerPausa, TrasCompuerta, Inductiva, UnSoloLugar, Tipos, TypeOK,
     Desocupado, Ejecutando
<1>4. CASE Drenar("planificador")
  BY <1>4, Encoge DEF Drenar, Inductiva, UnSoloLugar, Tipos, TypeOK, Desocupado,
     Ejecutando
<1>5. CASE Reanudarse("planificador")
  BY <1>5, Encoge DEF Reanudarse, TrasCompuerta, Inductiva, UnSoloLugar, Tipos, TypeOK,
     Desocupado, Ejecutando
<1>6. CASE ExpulsarDeNew
  <2>1. Range(cola_de_new') \subseteq Range(cola_de_new) /\ IsInjective(cola_de_new')
    BY <1>6, SacarLista DEF ExpulsarDeNew, Inductiva, UnSoloLugar, Tipos, TypeOK
  <2> QED BY <1>6, <2>1, Encoge
          DEF ExpulsarDeNew, Inductiva, UnSoloLugar, Tipos, TypeOK, Desocupado,
              Ejecutando
<1>7. CASE MoverAReady
  <2>1. CASE cola_de_new = <<>>
    BY <1>7, <2>1, Encoge DEF MoverAReady, Inductiva, UnSoloLugar, Tipos, TypeOK,
       Desocupado, Ejecutando
  <2>2. CASE cola_de_new # <<>>
    <3> DEFINE t == Head(cola_de_new)
    <3>1. /\ t \in Range(cola_de_new) /\ t \in Trips /\ t \notin Range(cola_de_new')
          /\ Range(cola_de_new') \subseteq Range(cola_de_new) /\ IsInjective(cola_de_new')
      <4>1. cola_de_new' = Tail(cola_de_new)
        BY <1>7, <2>2 DEF MoverAReady, QuitarPrimero
      <4>2. cola_de_new \in Seq(Trips) /\ IsInjective(cola_de_new)
        BY DEF Inductiva, UnSoloLugar, Tipos, TypeOK
      <4> QED BY <2>2, <4>1, <4>2, QuitarSeq
    <3>2. t \notin Range(cola_de_ready)
      BY <3>1 DEF Inductiva, UnSoloLugar
    <3>3. /\ Range(cola_de_ready') = Range(cola_de_ready) \cup {t} /\ IsInjective(cola_de_ready')
      <4>1. cola_de_ready' = Append(cola_de_ready, t)
        BY <1>7, <2>2 DEF MoverAReady, AgregarElemento
      <4>2. cola_de_ready \in Seq(Trips) /\ IsInjective(cola_de_ready)
        BY DEF Inductiva, UnSoloLugar, Tipos, TypeOK
      <4> QED BY <3>1, <3>2, <4>1, <4>2, AgregarSeq
    <3>4. \A p \in Procs : mano'[p] = mano[p] /\ pc'[p] = pc[p]
      BY <1>7, <2>2 DEF MoverAReady, Inductiva, Tipos, TypeOK
    <3>5. /\ UNCHANGED <<cola_de_exec, cola_de_block, pc_trip, sabotaje>>
      BY <1>7 DEF MoverAReady
    <3> QED BY <3>1, <3>3, <3>4, <3>5, Traslada DEF Inductiva, UnSoloLugar
  <2> QED BY <2>1, <2>2
<1>8. CASE AvisarReady
  BY <1>8, Encoge DEF AvisarReady, Inductiva, UnSoloLugar, Tipos, TypeOK, Desocupado,
     Ejecutando
<1> QED BY <1>1, <1>2, <1>3, <1>4, <1>5, <1>6, <1>7, <1>8 DEF PlanificadorLargoPlazo,
           PasarCompuerta

\* So do those of the I/O device.
LEMMA DispositivoLugar ==
  ASSUME Inductiva, Tipos', Dispositivo
  PROVE  Inductiva'
<1> USE HilosOK, ProcsOK, TripsOK
       DEF En, EnTrip, Fase, ConsolaLibre, colas, fichas, compuerta, hilos, consola,
           creacion, propio, comun, emergencia, ajeno, planificacion, tripulacion
<1>1. CASE TripulanteExpulsado("es")
  BY <1>1, Encoge DEF TripulanteExpulsado, Inductiva, UnSoloLugar, Tipos, TypeOK,
     Desocupado, Ejecutando
<1>2. CASE TomarBlock
  BY <1>2, Encoge DEF TomarBlock, Inductiva, UnSoloLugar, Tipos, TypeOK, Desocupado,
     Ejecutando
<1>3. CASE ExpulsarDeBlock
  <2>1. Range(cola_de_block') \subseteq Range(cola_de_block) /\ IsInjective(cola_de_block')
    BY <1>3, SacarLista DEF ExpulsarDeBlock, Inductiva, UnSoloLugar, Tipos, TypeOK
  <2> QED BY <1>3, <2>1, Encoge
          DEF ExpulsarDeBlock, Inductiva, UnSoloLugar, Tipos, TypeOK, Desocupado,
              Ejecutando
<1>4. CASE ElegirBloqueado
  <2>1. /\ UNCHANGED <<cola_de_new, cola_de_ready, cola_de_exec, cola_de_block, pc_trip, sabotaje>>
        /\ \A p \in Procs : mano'[p] = mano[p] /\ pc'[p] = pc[p]
    BY <1>4 DEF ElegirBloqueado, Inductiva, Tipos, TypeOK
  <2>2. IsInjective(cola_de_new) /\ IsInjective(cola_de_ready)
        /\ IsInjective(cola_de_exec) /\ IsInjective(cola_de_block)
    BY DEF Inductiva, UnSoloLugar
  <2> QED BY ONLY Inductiva, Tipos', <2>1, <2>2, Encoge DEF Inductiva
<1>5. CASE DarCicloES
  BY <1>5, Encoge DEF DarCicloES, Inductiva, UnSoloLugar, Tipos, TypeOK, Desocupado,
     Ejecutando
<1>6. CASE CicloESTerminado
  BY <1>6, Encoge DEF CicloESTerminado, Inductiva, UnSoloLugar, Tipos, TypeOK,
     Desocupado, Ejecutando
<1>7. CASE LeerPausa("es")
  BY <1>7, Encoge DEF LeerPausa, TrasCompuerta, Inductiva, UnSoloLugar, Tipos, TypeOK,
     Desocupado, Ejecutando
<1>8. CASE Drenar("es")
  BY <1>8, Encoge DEF Drenar, Inductiva, UnSoloLugar, Tipos, TypeOK, Desocupado,
     Ejecutando
<1>9. CASE Reanudarse("es")
  BY <1>9, Encoge DEF Reanudarse, TrasCompuerta, Inductiva, UnSoloLugar, Tipos, TypeOK,
     Desocupado, Ejecutando
<1>10. CASE ExpulsarEnCiclo
  <2>1. Range(cola_de_block') \subseteq Range(cola_de_block) /\ IsInjective(cola_de_block')
    BY <1>10, SacarLista DEF ExpulsarEnCiclo, Inductiva, UnSoloLugar, Tipos, TypeOK
  <2> QED BY <1>10, <2>1, Encoge
          DEF ExpulsarEnCiclo, Inductiva, UnSoloLugar, Tipos, TypeOK, Desocupado,
              Ejecutando
<1>11. CASE DesbloquearTripulante
  <2> DEFINE t == Head(cola_de_block)
  <2>1. /\ t \in Range(cola_de_block) /\ t \in Trips /\ t \notin Range(cola_de_block')
        /\ Range(cola_de_block') \subseteq Range(cola_de_block) /\ IsInjective(cola_de_block')
    BY <1>11, QuitarSeq
       DEF DesbloquearTripulante, QuitarPrimero, Inductiva, UnSoloLugar, Tipos, TypeOK
  <2>2. t \notin Range(cola_de_ready) /\ t \notin Range(cola_de_new)
    BY <2>1 DEF Inductiva, UnSoloLugar
  <2>3. /\ Range(cola_de_ready') = Range(cola_de_ready) \cup {t} /\ IsInjective(cola_de_ready')
    BY <1>11, <2>1, <2>2, AgregarSeq
       DEF DesbloquearTripulante, AReady, AgregarElemento, Inductiva, UnSoloLugar,
           Tipos, TypeOK
  <2>4. \A p \in Procs : mano'[p] = mano[p] /\ pc'[p] = pc[p]
    BY <1>11 DEF DesbloquearTripulante, Inductiva, Tipos, TypeOK
  <2>5. /\ UNCHANGED <<cola_de_new, cola_de_exec, pc_trip, sabotaje>>
    BY <1>11 DEF DesbloquearTripulante
  <2> QED BY <2>1, <2>2, <2>3, <2>4, <2>5, Traslada DEF Inductiva, UnSoloLugar
<1>12. CASE SoltarExpulsado
  BY <1>12, Encoge DEF SoltarExpulsado, Inductiva, UnSoloLugar, Tipos, TypeOK,
     Desocupado, Ejecutando
<1> QED BY <1>1, <1>2, <1>3, <1>4, <1>5, <1>6, <1>7, <1>8, <1>9, <1>10, <1>11, <1>12 DEF
           Dispositivo, PasarCompuerta

\* Nothing happens to the lists or to the threads of the planning.
LEMMA Quieto ==
  ASSUME Inductiva, Tipos',
         UNCHANGED <<cola_de_new, cola_de_ready, cola_de_exec, cola_de_block, mano, pc, sabotaje>>,
         \A u \in Trips : pc_trip[u] # "no_creado" => pc_trip'[u] # "no_creado"
  PROVE  Inductiva'
<1>1. IsInjective(cola_de_new) /\ IsInjective(cola_de_ready)
      /\ IsInjective(cola_de_exec) /\ IsInjective(cola_de_block)
  BY DEF Inductiva, UnSoloLugar
<1> QED BY <1>1, Encoge DEF Inductiva

\* The thread of a crew moves no crew.
LEMMA TripulanteLugar ==
  ASSUME Inductiva, Tipos', NEW t \in Trips, Tripulante(t)
  PROVE  Inductiva'
<1> USE HilosOK, ProcsOK, TripsOK
       DEF En, EnTrip, Fase, ConsolaLibre, colas, fichas, compuerta, hilos, consola,
           creacion, propio, comun, emergencia, ajeno, planificacion, tripulacion
<1>1. CASE Nacer(t)
  BY <1>1, Encoge DEF Nacer, Inductiva, UnSoloLugar, Tipos, TypeOK, Desocupado,
     Ejecutando
<1>2. CASE PedirTarea(t)
  <2>1. UNCHANGED <<cola_de_new, cola_de_ready, cola_de_exec, cola_de_block, mano, pc, sabotaje>>
    BY <1>2 DEF PedirTarea
  <2>2. \A u \in Trips : pc_trip[u] # "no_creado" => pc_trip'[u] # "no_creado"
    BY <1>2 DEF PedirTarea, Inductiva, Tipos, TypeOK
  <2> QED BY ONLY Inductiva, Tipos', <2>1, <2>2, Quieto
<1>3. CASE PedirTareaDeExpulsado(t)
  BY <1>3, Encoge DEF PedirTareaDeExpulsado, Inductiva, UnSoloLugar, Tipos, TypeOK,
     Desocupado, Ejecutando
<1>4. CASE CicloMover(t)
  BY <1>4, Encoge DEF CicloMover, Inductiva, UnSoloLugar, Tipos, TypeOK, Desocupado,
     Ejecutando
<1>5. CASE CicloSyscall(t)
  BY <1>5, Encoge DEF CicloSyscall, Inductiva, UnSoloLugar, Tipos, TypeOK, Desocupado,
     Ejecutando
<1>6. CASE CicloES(t)
  <2>1. UNCHANGED <<cola_de_new, cola_de_ready, cola_de_exec, cola_de_block, mano, pc, sabotaje>>
    BY <1>6 DEF CicloES
  <2>2. \A u \in Trips : pc_trip[u] # "no_creado" => pc_trip'[u] # "no_creado"
    <3>1. pc_trip' = pc_trip \/ pc_trip' = [pc_trip EXCEPT ![t] = "terminada"]
      BY <1>6 DEF CicloES
    <3>2. pc_trip \in [Trips -> LugaresTrip]
      BY DEF Inductiva, Tipos, TypeOK
    <3> QED BY ONLY <3>1, <3>2
  <2> QED BY ONLY Inductiva, Tipos', <2>1, <2>2, Quieto
<1>7. CASE CicloCPU(t)
  BY <1>7, Encoge DEF CicloCPU, Inductiva, UnSoloLugar, Tipos, TypeOK, Desocupado,
     Ejecutando
<1>8. CASE CicloSinPatota(t)
  BY <1>8, Encoge DEF CicloSinPatota, Inductiva, UnSoloLugar, Tipos, TypeOK, Desocupado,
     Ejecutando
<1>9. CASE TareaTerminada(t)
  BY <1>9, Encoge DEF TareaTerminada, Inductiva, UnSoloLugar, Tipos, TypeOK, Desocupado,
     Ejecutando
<1> QED BY <1>1, <1>2, <1>3, <1>4, <1>5, <1>6, <1>7, <1>8, <1>9 DEF Tripulante, Ciclo,
           EsperaCiclo

\* Nor does the console.
LEMMA ConsolaLugar ==
  ASSUME Inductiva, Tipos', Consola \/ \E h \in Hilos : Reanudar(h)
  PROVE  Inductiva'
<1> USE HilosOK, ProcsOK, TripsOK
       DEF En, EnTrip, Fase, ConsolaLibre, colas, fichas, compuerta, hilos, consola,
           creacion, propio, comun, emergencia, ajeno, planificacion, tripulacion
<1>1. CASE IniciarPatota
  BY <1>1, Encoge DEF IniciarPatota, Inductiva, UnSoloLugar, Tipos, TypeOK, Desocupado,
     Ejecutando
<1>2. CASE PausarPlanificacion
  BY <1>2, Encoge DEF PausarPlanificacion, Inductiva, UnSoloLugar, Tipos, TypeOK,
     Desocupado, Ejecutando
<1>3. CASE IniciarPlanificacion
  BY <1>3, Encoge DEF IniciarPlanificacion, Inductiva, UnSoloLugar, Tipos, TypeOK,
     Desocupado, Ejecutando
<1>4. ASSUME NEW t \in Expulsables, ExpulsarTripulante(t)
      PROVE  Inductiva'
  BY <1>4, Encoge DEF ExpulsarTripulante, Inductiva, UnSoloLugar, Tipos, TypeOK,
     Desocupado, Ejecutando
<1>5. ASSUME NEW h \in Hilos, Reanudar(h)
      PROVE  Inductiva'
  BY <1>5, Encoge DEF Reanudar, Inductiva, UnSoloLugar, Tipos, TypeOK, Desocupado,
     Ejecutando
<1> QED BY <1>1, <1>2, <1>3, <1>4, <1>5 DEF Consola

\* A crew is created with an id that is in no list and in no hand.
LEMMA GestorLugar ==
  ASSUME Inductiva, Tipos', Gestor
  PROVE  Inductiva'
<1> USE HilosOK, ProcsOK, TripsOK
       DEF En, EnTrip, Fase, ConsolaLibre, colas, fichas, compuerta, hilos, consola,
           creacion, propio, comun, emergencia, ajeno, planificacion, tripulacion
<1>1. CASE PedirMemoria
  BY <1>1, Encoge DEF PedirMemoria, Inductiva, UnSoloLugar, Tipos, TypeOK, Desocupado,
     Ejecutando
<1>2. CASE MemoriaDenegada
  BY <1>2, Encoge DEF MemoriaDenegada, Inductiva, UnSoloLugar, Tipos, TypeOK,
     Desocupado, Ejecutando
<1>3. CASE MemoriaConcedida
  BY <1>3, Encoge DEF MemoriaConcedida, Inductiva, UnSoloLugar, Tipos, TypeOK,
     Desocupado, Ejecutando
<1>4. CASE CrearTripulante
  <2> DEFINE t == id_tcb - lote.quedan
  <2>1. t \in Trips /\ pc_trip[t] = "no_creado"
    <3>1. lote.quedan > 0 /\ lote.quedan < id_tcb /\ lote.quedan \in Nat /\ id_tcb \in 1..MaxTrips + 1
      BY <1>4 DEF CrearTripulante, Inductiva, Tipos, TypeOK, Reserva
    <3>2. t \in Trips
      BY <3>1, ConstantesOK DEF Trips
    <3> QED BY <3>1, <3>2 DEF Inductiva, Tipos, Reserva
  <2>2. t \notin Listados \cup EnManos
    BY <2>1 DEF Inductiva
  <2>3. /\ Range(cola_de_new') = Range(cola_de_new) \cup {t} /\ IsInjective(cola_de_new')
    <3>1. cola_de_new' = Append(cola_de_new, t) /\ t \notin Range(cola_de_new)
      BY <1>4, <2>2 DEF CrearTripulante, AgregarElemento, Listados
    <3>2. cola_de_new \in Seq(Trips) /\ IsInjective(cola_de_new)
      BY DEF Inductiva, UnSoloLugar, Tipos, TypeOK
    <3> QED BY <2>1, <3>1, <3>2, AgregarSeq
  <2>4. /\ UNCHANGED <<cola_de_ready, cola_de_exec, cola_de_block, mano, pc, sabotaje>>
        /\ pc_trip' = [pc_trip EXCEPT ![t] = "nace"]
    BY <1>4 DEF CrearTripulante
  <2>5. EnExec'
    BY <2>4 DEF Inductiva, EnExec
  <2>6. UnSoloLugar'
    <3>1. Range(cola_de_exec') \subseteq {mano'[q] : q \in Procs}
      BY <2>5 DEF EnExec
    <3> QED BY <2>2, <2>3, <2>4, <3>1 DEF Inductiva, UnSoloLugar, Listados, EnManos
  <2>7. \A u \in Trips : u \in (Listados \cup EnManos)' => pc_trip'[u] # "no_creado"
    <3>1. Listados' = Listados \cup {t} /\ EnManos' = EnManos
      BY <2>3, <2>4 DEF Listados, EnManos
    <3>2. pc_trip'[t] = "nace" /\ \A u \in Trips : u # t => pc_trip'[u] = pc_trip[u]
      BY <2>1, <2>4 DEF Inductiva, Tipos, TypeOK
    <3> QED BY <3>1, <3>2 DEF Inductiva
  <2> QED BY <2>4, <2>5, <2>6, <2>7 DEF Inductiva
<1>5. CASE RegistrarPatota
  BY <1>5, Encoge DEF RegistrarPatota, Inductiva, UnSoloLugar, Tipos, TypeOK,
     Desocupado, Ejecutando
<1> QED BY <1>1, <1>2, <1>3, <1>4, <1>5 DEF Gestor

\* There are no crews at first.
LEMMA InductivaInicial == Init => Inductiva
<1>1. SUFFICES ASSUME Init PROVE Inductiva
  OBVIOUS
<1>2. Range(<<>>) = {} /\ IsInjective(<<>>)
  BY DEF Range, IsInjective
<1>3. \A p \in Procs : mano[p] = Nadie
  BY <1>1, ProcsOK DEF Init
<1>4. Tipos /\ ~sabotaje
  BY <1>1, TiposInicial DEF Init
<1>5. EnExec
  BY <1>1, <1>2 DEF Init, EnExec
<1>6. UnSoloLugar
  BY <1>1, <1>2, <1>3 DEF Init, UnSoloLugar
<1>7. \A t \in Trips : t \notin Listados \cup EnManos
  BY <1>1, <1>2, <1>3, TripsOK DEF Init, Listados, EnManos
<1> QED BY <1>3, <1>4, <1>5, <1>6, <1>7 DEF Inductiva

\* Every step keeps the inductive invariant.
LEMMA InductivaPaso == Inductiva /\ [Next]_vars => Inductiva'
<1>1. SUFFICES ASSUME Inductiva, [Next]_vars PROVE Inductiva'
  OBVIOUS
<1>2. Tipos'
  BY <1>1, TiposPaso DEF Inductiva
<1>3. CASE UNCHANGED vars
  BY <1>1, <1>2, <1>3 DEF vars, Inductiva, UnSoloLugar, EnExec, Listados, EnManos,
     colas, hilos,
                          propio, emergencia
<1>4. CASE Next
  BY <1>1, <1>2, <1>4, ConsolaLugar, GestorLugar, PlanificadorLugar, ProcesadorLugar,
     DispositivoLugar, TripulanteLugar DEF Next
<1> QED BY <1>1, <1>3, <1>4

\* For any number of processors, crews and commands, under FIFO or RR: a crew is
\* in one list or in the hands of one processor.
THEOREM SpecUnSoloLugar == Spec => []UnSoloLugar
<1>1. Inductiva => UnSoloLugar
  BY DEF Inductiva
<1> QED BY <1>1, InductivaInicial, InductivaPaso, PTL DEF Spec

====
