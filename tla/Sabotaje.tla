------------------------------ MODULE Sabotaje ------------------------------
(***************************************************************************)
(* The scheduler and the thread that attends a sabotage (manejar_sabotaje). *)
(* It stops the planning, takes every crew of exec and ready, has the one   *)
(* nearest to the sabotage solve it, and sends them all back to ready.      *)
(*                                                                         *)
(* Its only synchronisation with the threads it stops is a sleep of a cycle *)
(* and four seconds.  The model takes the sleep to be long enough: it ends  *)
(* when every thread has reached a wait.  One sabotage is attended at a     *)
(* time, and while it is the user does not start the planning.              *)
(***************************************************************************)
EXTENDS Planificador

CONSTANTS
  MaxSabotajes,       \* bound: sabotages announced by I-Mongo-Store
  Objetivos,          \* where they may be
  duracion_sabotaje

ASSUME SabotajeOK ==
  /\ MaxSabotajes \in Nat
  /\ Objetivos \subseteq Punto
  /\ duracion_sabotaje \in Nat \ {0}

VARIABLES
  pc_sab,             \* where the thread is
  pos_sab,
  cola_sabotaje,
  cantidad_en_ejecucion,
  sem_sabotaje, sem_sabotaje_fin,
  reanuda_sab,        \* threads its iniciar_planificacion has still to visit
  sabotajes           \* attended so far

hilo_sab == <<pc_sab, pos_sab, cola_sabotaje, cantidad_en_ejecucion, sem_sabotaje,
              sem_sabotaje_fin, reanuda_sab, sabotajes>>
svars == <<vars, hilo_sab>>

SInit ==
  /\ Init
  /\ pc_sab = "libre" /\ pos_sab = <<0, 0>>
  /\ cola_sabotaje = <<>> /\ cantidad_en_ejecucion = 0
  /\ sem_sabotaje = 0 /\ sem_sabotaje_fin = 0
  /\ reanuda_sab = {} /\ sabotajes = 0

-----------------------------------------------------------------------------
EnSab(lugar) == ~caida /\ pc_sab = lugar

\* 1. The flag is set, and then the planning paused.
IniciarSabotaje(pos) ==
  /\ EnSab("libre") /\ sabotajes < MaxSabotajes
  /\ sabotajes' = sabotajes + 1
  /\ pos_sab' = pos
  /\ sabotaje' = TRUE
  /\ pc_sab' = "pausa"
  /\ UNCHANGED <<planificacion, consola, creacion, tripulacion, elegido, tarea_sabotaje,
                 caida, cola_sabotaje, cantidad_en_ejecucion, sem_sabotaje,
                 sem_sabotaje_fin, reanuda_sab>>

PausarPorSabotaje ==
  /\ EnSab("pausa")
  /\ planificacion_pausada' = TRUE
  /\ pc_sab' = "duerme"
  /\ UNCHANGED <<colas, fichas, sem_pausa, hilos, ajeno, tripulacion, pos_sab,
                 cola_sabotaje, cantidad_en_ejecucion, sem_sabotaje, sem_sabotaje_fin,
                 reanuda_sab, sabotajes>>

\* What the sleep is for: no thread of the planning and no crew can move.
Reposo ==
  /\ por_reanudar = {}
  /\ \A h \in Hilos : victima[h] = Nadie
  /\ \A h \in Hilos :
       \/ pc[h] \in {"detenido", "detenido_en_rafaga"} /\ sem_pausa[h] = 0
       \/ pc[h] = "espera" /\ IF h = "es" THEN es_finalizada = 0
                                          ELSE procesador[mano[h]] = 0
       \/ pc[h] = "libre" /\ 0 = CASE h = "planificador" -> sem_new
                                   [] h = "es" -> sem_block
                                   [] OTHER -> sem_ready
  /\ \A t \in Trips :
       \/ pc_trip[t] \in {"no_creado", "fin"}
       \/ pc_trip[t] \in {"nace", "ciclo"} /\ sem_tri[t] = 0

Distancia(a, b) ==
  LET abs(n) == IF n < 0 THEN -n ELSE n
  IN abs(a[1] - b[1]) + abs(a[2] - b[2])

MasCerca(t, u) ==
  LET dt == Distancia(posicion[t], pos_sab)
      du == Distancia(posicion[u], pos_sab)
  IN dt < du \/ (dt = du /\ t < u)

\* The k-th of the sorted list is the one with k up to it, itself included.
OrdenarPorTid(cola) ==
  LET hasta(i) == {j \in DOMAIN cola : \/ cola[j] < cola[i]
                                       \/ cola[j] = cola[i] /\ j <= i}
  IN [k \in DOMAIN cola |-> cola[CHOOSE i \in DOMAIN cola : Cardinality(hasta(i)) = k]]

TareaSabotaje == [es |-> FALSE, pos |-> pos_sab, tiempo |-> duracion_sabotaje]

\* Mutant: exec is emptied and only counted.
ReunirSinExec ==
  /\ cola_sabotaje' = OrdenarPorTid(cola_de_ready)
  /\ cantidad_en_ejecucion' = Len(cola_de_exec)
  /\ cola_de_exec' = <<>> /\ cola_de_ready' = <<>>

ReunirTripulantes ==
  /\ cola_sabotaje' = OrdenarPorTid(cola_de_exec) \o OrdenarPorTid(cola_de_ready)
  /\ cantidad_en_ejecucion' = Len(cola_de_exec)
  /\ cola_de_exec' = <<>> /\ cola_de_ready' = <<>>

\* 2 to 6. list_get_minimum of an empty list is a null pointer, and it is read.
ElegirSaboteador ==
  /\ EnSab("duerme") /\ Reposo
  /\ ReunirTripulantes
  /\ estado' = [t \in Trips |-> IF t \in Range(cola_sabotaje') THEN "BLOCKED_SABOTAJE"
                                                               ELSE estado[t]]
  /\ IF cola_sabotaje' = <<>>
     THEN caida' = TRUE /\ UNCHANGED <<elegido, tarea_sabotaje, pc_sab>>
     ELSE /\ elegido' \in Range(cola_sabotaje')
          /\ \A t \in Range(cola_sabotaje') \ {elegido'} : MasCerca(elegido', t)
          /\ tarea_sabotaje' = TareaSabotaje
          /\ pc_sab' = "procesa"
          /\ UNCHANGED caida
  /\ UNCHANGED <<cola_de_new, cola_de_block, fichas, compuerta, hilos, consola, creacion,
                 propio, expulsado, sem_tri, procesador, expulsiones, sabotaje, pos_sab,
                 sem_sabotaje, sem_sabotaje_fin, reanuda_sab, sabotajes>>

\* Mutant: the cycle goes to the first of the list.
CicloAlPrimero ==
  /\ EnSab("procesa") /\ tarea_sabotaje.tiempo > 0
  /\ sem_tri' = [sem_tri EXCEPT ![Head(cola_sabotaje)] = @ + 1]
  /\ pc_sab' = "espera"
  /\ UNCHANGED <<planificacion, ajeno, propio, estado, expulsado, procesador, expulsiones,
                 pos_sab, cola_sabotaje, cantidad_en_ejecucion, sem_sabotaje,
                 sem_sabotaje_fin, reanuda_sab, sabotajes>>

\* 7. It grants the crew a cycle and waits for it, until the task is TERMINADA.
CicloSabotaje ==
  /\ EnSab("procesa") /\ tarea_sabotaje.tiempo > 0
  /\ sem_tri' = [sem_tri EXCEPT ![elegido] = @ + 1]
  /\ pc_sab' = "espera"
  /\ UNCHANGED <<planificacion, ajeno, propio, estado, expulsado, procesador, expulsiones,
                 pos_sab, cola_sabotaje, cantidad_en_ejecucion, sem_sabotaje,
                 sem_sabotaje_fin, reanuda_sab, sabotajes>>

CicloSabotajeHecho ==
  /\ EnSab("espera") /\ procesador[elegido] > 0
  /\ procesador' = [procesador EXCEPT ![elegido] = @ - 1]
  /\ pc_sab' = "procesa"
  /\ UNCHANGED <<planificacion, ajeno, propio, estado, expulsado, sem_tri, expulsiones,
                 pos_sab, cola_sabotaje, cantidad_en_ejecucion, sem_sabotaje,
                 sem_sabotaje_fin, reanuda_sab, sabotajes>>

SabotajeResuelto ==
  /\ EnSab("procesa") /\ tarea_sabotaje.tiempo = 0
  /\ sem_sabotaje' = sem_sabotaje + 1
  /\ pc_sab' = "cierra"
  /\ UNCHANGED <<vars, pos_sab, cola_sabotaje, cantidad_en_ejecucion, sem_sabotaje_fin,
                 reanuda_sab, sabotajes>>

\* The crew's side: it takes up its own task where it left it.
RetomarTarea(t) ==
  /\ EnTrip(t, "terminada") /\ elegido = t
  /\ sem_sabotaje > 0
  /\ sem_sabotaje' = sem_sabotaje - 1
  /\ sem_sabotaje_fin' = sem_sabotaje_fin + 1
  /\ elegido' = Nadie
  /\ pc_trip' = [pc_trip EXCEPT ![t] = "ciclo"]
  /\ UNCHANGED <<planificacion, consola, creacion, ciclo_inicial, realizadas, posicion,
                 patota, tarea, pendientes, comun, sabotaje, tarea_sabotaje, caida, pc_sab,
                 pos_sab, cola_sabotaje, cantidad_en_ejecucion, reanuda_sab, sabotajes>>

BajarBandera ==
  /\ EnSab("cierra") /\ sem_sabotaje_fin > 0
  /\ sem_sabotaje_fin' = sem_sabotaje_fin - 1
  /\ sabotaje' = FALSE
  /\ pc_sab' = "devuelve"
  /\ UNCHANGED <<planificacion, consola, creacion, tripulacion, elegido, tarea_sabotaje,
                 caida, pos_sab, cola_sabotaje, cantidad_en_ejecucion, sem_sabotaje,
                 reanuda_sab, sabotajes>>

\* enviar_a_ready, with the crews in the order of the list.
EnviarAReady ==
  /\ EnSab("devuelve") /\ cola_sabotaje # <<>>
  /\ estado' = [estado EXCEPT ![Head(cola_sabotaje)] = "READY"]
  /\ cola_de_ready' = AgregarElemento(cola_de_ready, Head(cola_sabotaje))
  /\ cola_sabotaje' = Tail(cola_sabotaje)
  /\ UNCHANGED <<cola_de_new, cola_de_exec, cola_de_block, fichas, compuerta, hilos, ajeno,
                 propio, expulsado, sem_tri, procesador, expulsiones, pc_sab, pos_sab,
                 cantidad_en_ejecucion, sem_sabotaje, sem_sabotaje_fin, reanuda_sab,
                 sabotajes>>

\* 8. The planning starts, its threads are visited in the order of the list.
ReiniciarPlanificacion ==
  /\ EnSab("devuelve") /\ cola_sabotaje = <<>>
  /\ planificacion_pausada' = FALSE
  /\ reanuda_sab' = Hilos
  /\ pc_sab' = "reanuda"
  /\ UNCHANGED <<colas, fichas, sem_pausa, hilos, ajeno, tripulacion, pos_sab,
                 cola_sabotaje, cantidad_en_ejecucion, sem_sabotaje, sem_sabotaje_fin,
                 sabotajes>>

ReanudarHilo(h) ==
  /\ EnSab("reanuda") /\ h \in reanuda_sab
  /\ h = "es" => "planificador" \notin reanuda_sab
  /\ h \in Procs => reanuda_sab \subseteq Procs
  /\ sem_pausa' = [sem_pausa EXCEPT ![h] = IF @ <= 0 THEN @ + 1 ELSE @]
  /\ reanuda_sab' = reanuda_sab \ {h}
  /\ UNCHANGED <<colas, fichas, planificacion_pausada, hilos, ajeno, tripulacion, pc_sab,
                 pos_sab, cola_sabotaje, cantidad_en_ejecucion, sem_sabotaje,
                 sem_sabotaje_fin, sabotajes>>

\* Mutant: the crews that were running get no token.
NoDarFicha == sem_ready

DarFicha == sem_ready + 1

FichaPorEjecutado ==
  /\ EnSab("reanuda") /\ reanuda_sab = {} /\ cantidad_en_ejecucion > 0
  /\ sem_ready' = DarFicha
  /\ cantidad_en_ejecucion' = cantidad_en_ejecucion - 1
  /\ UNCHANGED <<colas, sem_new, sem_block, es_finalizada, compuerta, hilos, ajeno,
                 tripulacion, pc_sab, pos_sab, cola_sabotaje, sem_sabotaje,
                 sem_sabotaje_fin, reanuda_sab, sabotajes>>

FinSabotaje ==
  /\ EnSab("reanuda") /\ reanuda_sab = {} /\ cantidad_en_ejecucion = 0
  /\ pc_sab' = "libre"
  /\ UNCHANGED <<vars, pos_sab, cola_sabotaje, cantidad_en_ejecucion, sem_sabotaje,
                 sem_sabotaje_fin, reanuda_sab, sabotajes>>

ManejarSabotaje ==
  \/ \E pos \in Objetivos : IniciarSabotaje(pos)
  \/ PausarPorSabotaje \/ ElegirSaboteador
  \/ CicloSabotaje \/ CicloSabotajeHecho \/ SabotajeResuelto \/ BajarBandera
  \/ EnviarAReady \/ ReiniciarPlanificacion
  \/ \E h \in Hilos : ReanudarHilo(h)
  \/ FichaPorEjecutado \/ FinSabotaje

ConsolaEnSabotaje ==
  /\ \/ IniciarPatota \/ PausarPlanificacion
     \/ IniciarPlanificacion /\ pc_sab = "libre"
     \/ \E t \in Expulsables : ExpulsarTripulante(t)
  /\ UNCHANGED hilo_sab

LosDemas ==
  /\ \/ \E h \in Hilos : Reanudar(h)
     \/ Gestor \/ PlanificadorLargoPlazo \/ Dispositivo
     \/ \E p \in Procs : Procesador(p)
     \/ \E t \in Trips : Tripulante(t)
  /\ UNCHANGED hilo_sab

SNext ==
  \/ ManejarSabotaje
  \/ \E t \in Trips : RetomarTarea(t)
  \/ ConsolaEnSabotaje
  \/ LosDemas

SSpec == SInit /\ [][SNext]_svars

-----------------------------------------------------------------------------
(* Properties.                                                              *)

\* While the sabotage is being solved nobody but the crew chosen moves or works:
\* the planner, the processors and the device stay where they were stopped.
SoloElElegido ==
  [][(pc_sab \in {"procesa", "espera", "cierra"}) =>
       \A t \in Trips : t # elegido /\ pc_trip[t] # "no_creado" =>
         /\ posicion'[t] = posicion[t] /\ tarea'[t] = tarea[t]
         /\ sem_tri'[t] = sem_tri[t] /\ pc_trip'[t] = pc_trip[t]]_svars

\* The thread of the sabotage and the crew alternate: one cycle granted, one
\* answered, and the flag falls after the crew has left the task of the sabotage.
CicloDeSabotaje ==
  /\ pc_sab \in {"procesa", "espera"} =>
       sem_tri[elegido] + procesador[elegido] = Uno(pc_sab = "espera")
  /\ pc_sab \in {"devuelve", "reanuda"} => elegido = Nadie /\ ~sabotaje

\* The tokens of ready are enough through a sabotage: with those still owed for
\* the crews that were in exec, there is one for each crew of ready and of
\* cola_sabotaje.
FichasTrasSabotaje ==
  Len(cola_de_ready) + Len(cola_sabotaje) <=
    sem_ready + cantidad_en_ejecucion + Uno(pc["planificador"] = "avisa")
    + Cardinality({p \in Procs : pc[p] \in {"lee_pausa", "drena", "detenido", "expulsa",
                                            "elige"}})

\* No crew is lost in a sabotage: one that did not end and was not expelled is in a list, or
\* some thread has it in hand.
NadieSePierde ==
  \A t \in Trips : pc_trip[t] # "no_creado" =>
    \/ estado[t] = "EXIT" \/ expulsiones[t] > 0
    \/ t \in UNION {Range(c) : c \in {cola_de_new, cola_de_ready, cola_de_exec,
                                      cola_de_block, cola_sabotaje}}
    \/ \E h \in Hilos : t \in {mano[h], victima[h]}

====
