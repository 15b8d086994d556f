---------------------------- MODULE Planificador ----------------------------
(***************************************************************************)
(* The scheduler of the Discordiador: the console, the thread that creates *)
(* crews, the long-term planner, the processors (FIFO or round robin), the *)
(* I/O device and one thread per crew member, all of them in one process   *)
(* over four shared lists and a dozen counting semaphores.                 *)
(*                                                                         *)
(* An action is what a thread does between two points at which another     *)
(* thread can change what it sees next: a wait, a list operation under its *)
(* mutex, a read of planificacion_pausada or of sabotaje.  Mi-RAM-HQ       *)
(* appears through its answers: a crew is admitted or not, and it hands    *)
(* out the tasks of a crew in order.                                       *)
(***************************************************************************)
EXTENDS Integers, SequencesExt

CONSTANTS
  Procs,        \* the processors, grado_de_multiprocesamiento of them
  Algoritmo,    \* "FIFO" or "RR"
  quantum_rr,   \* cycles a crew may run in a row under RR
  Pedidos,      \* the INICIAR_PATOTA commands the user types, in order:
                \* records [cantidad, posiciones, tareas]
  MaxTrips,     \* bound: crews ever created
  MaxPausas,    \* bound: PAUSAR_PLANIFICACION commands
  MaxInicios,   \* bound: INICIAR_PLANIFICACION commands
  Expulsables   \* bound: the crews the user may expel

Trips == 1..MaxTrips
Nadie == 0
Hilos == {"planificador", "es"} \cup Procs     \* the members of hilos_pausables
Punto == Nat \X Nat
Tarea == [es : BOOLEAN, pos : Punto, tiempo : Nat]
Pedido == [cantidad : Nat \ {0}, posiciones : Seq(Punto), tareas : Seq(Tarea)]

ASSUME ConstantesOK ==
  /\ IsFiniteSet(Procs) /\ {"planificador", "es"} \cap Procs = {}
  /\ Algoritmo \in {"FIFO", "RR"}
  /\ quantum_rr \in Nat \ {0}
  /\ MaxTrips \in Nat
  /\ MaxPausas \in Nat /\ MaxInicios \in Nat
  /\ Pedidos \in Seq(Pedido)
  /\ Expulsables \subseteq Trips

VARIABLES
  planificacion_pausada, sabotaje,
  sem_pausa,          \* each pausable thread's own semaphore
  cola_de_new, cola_de_ready, cola_de_exec, cola_de_block,
  sem_new, sem_ready, sem_block,        \* sem_contador_cola_de_*
  es_finalizada,      \* operacion_entrada_salida_finalizada
  pc,                 \* where each pausable thread is
  mano,               \* the local variable tripulante of each of them
  victima,            \* the crew it has taken out of a list to expel it
  quantum,            \* quantum_actual of each processor
  por_reanudar,       \* threads iniciar_planificacion has still to visit
  pausas, inicios, tipeados,   \* commands typed so far
  cola_de_iniciar_patotas, lote,        \* requests queued, request in hand
  id_tcb, lista_de_patotas,
  pc_trip, estado, expulsado, ciclo_inicial, realizadas, posicion, patota,
  tarea,              \* the task each crew thread works on
  pendientes,         \* the tasks Mi-RAM-HQ has still to hand out to it
  sem_tri, procesador,
  elegido, tarea_sabotaje,              \* tarea_actual of elegido is tarea_sabotaje
  expulsiones,        \* EXPULSAR_TRIPULANTE messages sent to Mi-RAM-HQ
  caida               \* a null pointer was dereferenced: the process is gone

colas == <<cola_de_new, cola_de_ready, cola_de_exec, cola_de_block>>
fichas == <<sem_new, sem_ready, sem_block, es_finalizada>>
compuerta == <<planificacion_pausada, sem_pausa>>
hilos == <<pc, mano, victima, quantum>>
consola == <<por_reanudar, pausas, inicios, tipeados>>
creacion == <<cola_de_iniciar_patotas, lote, id_tcb, lista_de_patotas>>
propio == <<pc_trip, ciclo_inicial, realizadas, posicion, patota, tarea, pendientes>>
comun == <<estado, expulsado, sem_tri, procesador, expulsiones>>
emergencia == <<sabotaje, elegido, tarea_sabotaje>>
\* What the threads that plan never touch, what they share, what crews have.
ajeno == <<consola, creacion, propio, emergencia, caida>>
planificacion == <<colas, fichas, compuerta, hilos>>
tripulacion == <<propio, comun>>
vars == <<colas, fichas, compuerta, hilos, consola, creacion, propio, comun,
          emergencia, caida>>

Uno(b) == IF b THEN 1 ELSE 0
SinTarea == [es |-> FALSE, pos |-> <<0, 0>>, tiempo |-> 0]
SinPedido == [cantidad |-> 1, posiciones |-> <<>>, tareas |-> <<>>]
SinLote == [fase |-> "libre", quedan |-> 0, pedido |-> SinPedido]

Init ==
  /\ planificacion_pausada = TRUE /\ sabotaje = FALSE
  /\ sem_pausa = [h \in Hilos |-> 0]
  /\ cola_de_new = <<>> /\ cola_de_ready = <<>>
  /\ cola_de_exec = <<>> /\ cola_de_block = <<>>
  /\ sem_new = 0 /\ sem_ready = 0 /\ sem_block = 0 /\ es_finalizada = 0
  /\ pc = [h \in Hilos |-> "libre"]
  /\ mano = [h \in Hilos |-> Nadie] /\ victima = [h \in Hilos |-> Nadie]
  /\ quantum = [p \in Procs |-> 0]
  /\ por_reanudar = {} /\ pausas = 0 /\ inicios = 0 /\ tipeados = 0
  /\ cola_de_iniciar_patotas = <<>> /\ lote = SinLote
  /\ id_tcb = 1 /\ lista_de_patotas = <<>>
  /\ pc_trip = [t \in Trips |-> "no_creado"]
  /\ estado = [t \in Trips |-> "NEW"]
  /\ expulsado = [t \in Trips |-> FALSE]
  /\ ciclo_inicial = [t \in Trips |-> FALSE]
  /\ realizadas = [t \in Trips |-> 0]
  /\ posicion = [t \in Trips |-> <<0, 0>>]
  /\ patota = [t \in Trips |-> 0]
  /\ tarea = [t \in Trips |-> SinTarea]
  /\ pendientes = [t \in Trips |-> <<>>]
  /\ sem_tri = [t \in Trips |-> 0]
  /\ procesador = [t \in Trips |-> 0]
  /\ elegido = Nadie /\ tarea_sabotaje = SinTarea
  /\ expulsiones = [t \in Trips |-> 0]
  /\ caida = FALSE

-----------------------------------------------------------------------------
(* Where the threads are; nothing runs in a process that fell, and a thread *)
(* that took a crew out of a list expels it before anything else.           *)
En(h, lugar) == ~caida /\ pc[h] = lugar /\ victima[h] = Nadie
EnTrip(t, lugar) == ~caida /\ pc_trip[t] = lugar
Fase(f) == ~caida /\ lote.fase = f
ConsolaLibre == ~caida /\ por_reanudar = {}
\* Mutants: added at the front; read and left in the list.
AgregarAlFrente(cola, t) == <<t>> \o cola
MirarPrimero(cola) == cola

\* What agregar_elemento_a_cola and quitar_primer_elemento_de_cola do to a list
\* under its mutex.
AgregarElemento(cola, t) == Append(cola, t)
QuitarPrimero(cola) == Tail(cola)

\* Mutant: the crew is added and the semaphore is not posted.
AReadySinAvisar(t) ==
  /\ cola_de_ready' = AgregarElemento(cola_de_ready, t)
  /\ UNCHANGED sem_ready

\* A crew goes to the end of ready and a processor is told.
AReady(t) ==
  /\ cola_de_ready' = AgregarElemento(cola_de_ready, t)
  /\ sem_ready' = sem_ready + 1
-----------------------------------------------------------------------------
(* The console thread.  It reads the next command once iniciar_planificacion *)
(* has visited every thread.                                                 *)

IniciarPatota ==
  /\ ConsolaLibre
  /\ tipeados < Len(Pedidos)
  /\ tipeados' = tipeados + 1
  /\ cola_de_iniciar_patotas' = Append(cola_de_iniciar_patotas, Pedidos[tipeados + 1])
  /\ UNCHANGED <<planificacion, por_reanudar, pausas, inicios, lote, id_tcb,
                 lista_de_patotas, tripulacion, emergencia, caida>>

\* The user names a crew that exists.
ExpulsarTripulante(t) ==
  /\ ConsolaLibre
  /\ pc_trip[t] # "no_creado" /\ ~expulsado[t]
  /\ expulsado' = [expulsado EXCEPT ![t] = TRUE]
  /\ UNCHANGED <<planificacion, estado, sem_tri, procesador, expulsiones, ajeno>>

PausarPlanificacion ==
  /\ ConsolaLibre
  /\ pausas < MaxPausas /\ ~planificacion_pausada
  /\ pausas' = pausas + 1
  /\ planificacion_pausada' = TRUE
  /\ UNCHANGED <<colas, fichas, sem_pausa, hilos, por_reanudar, inicios, tipeados,
                 creacion, tripulacion, emergencia, caida>>

IniciarPlanificacion ==
  /\ ConsolaLibre
  /\ inicios < MaxInicios
  /\ inicios' = inicios + 1
  /\ planificacion_pausada' = FALSE
  /\ por_reanudar' = Hilos
  /\ UNCHANGED <<colas, fichas, sem_pausa, hilos, pausas, tipeados, creacion,
                 tripulacion, emergencia, caida>>

\* list_iterate(hilos_pausables): the planner's and the device's semaphores were
\* put in the list first, the processors' in the order their threads started.
Reanudar(h) ==
  /\ ~caida /\ h \in por_reanudar
  /\ h = "es" => "planificador" \notin por_reanudar
  /\ h \in Procs => por_reanudar \subseteq Procs
  /\ por_reanudar' = por_reanudar \ {h}
  /\ sem_pausa' = [sem_pausa EXCEPT ![h] = IF @ <= 0 THEN @ + 1 ELSE @]
  /\ UNCHANGED <<colas, fichas, planificacion_pausada, hilos, pausas, inicios, tipeados,
                 creacion, tripulacion, emergencia, caida>>
-----------------------------------------------------------------------------
(* The thread that creates crews (gestion_patotas_a_memoria).               *)

PedirMemoria ==
  /\ Fase("libre") /\ cola_de_iniciar_patotas # <<>>
  /\ LET pedido == Head(cola_de_iniciar_patotas) IN
       /\ id_tcb + pedido.cantidad - 1 <= MaxTrips
       /\ lote' = [fase |-> "memoria", quedan |-> pedido.cantidad, pedido |-> pedido]
       /\ id_tcb' = id_tcb + pedido.cantidad
  /\ cola_de_iniciar_patotas' = Tail(cola_de_iniciar_patotas)
  /\ UNCHANGED <<planificacion, consola, lista_de_patotas, tripulacion, emergencia,
                 caida>>

\* Mi-RAM-HQ has no room: the ids are given back.
MemoriaDenegada ==
  /\ Fase("memoria")
  /\ lote' = SinLote
  /\ id_tcb' = id_tcb - lote.quedan
  /\ UNCHANGED <<planificacion, consola, cola_de_iniciar_patotas, lista_de_patotas,
                 tripulacion, emergencia, caida>>

MemoriaConcedida ==
  /\ Fase("memoria")
  /\ lote' = [lote EXCEPT !.fase = "crea"]
  /\ UNCHANGED <<planificacion, consola, cola_de_iniciar_patotas, id_tcb,
                 lista_de_patotas, tripulacion, emergencia, caida>>

\* One turn of the loop of iniciar_patota_local.
CrearTripulante ==
  /\ Fase("crea") /\ lote.quedan > 0
  /\ LET t == id_tcb - lote.quedan
         i == lote.pedido.cantidad - lote.quedan + 1
     IN /\ pc_trip' = [pc_trip EXCEPT ![t] = "nace"]
        /\ posicion' = [posicion EXCEPT ![t] = IF i <= Len(lote.pedido.posiciones)
                                               THEN lote.pedido.posiciones[i]
                                               ELSE <<0, 0>>]
        /\ patota' = [patota EXCEPT ![t] = Len(lista_de_patotas) + 1]
        /\ pendientes' = [pendientes EXCEPT ![t] = lote.pedido.tareas]
        /\ cola_de_new' = AgregarElemento(cola_de_new, t)
  /\ sem_new' = sem_new + 1
  /\ lote' = [lote EXCEPT !.quedan = @ - 1]
  /\ UNCHANGED <<cola_de_ready, cola_de_exec, cola_de_block, sem_ready, sem_block,
                 es_finalizada, compuerta, hilos, consola, cola_de_iniciar_patotas,
                 id_tcb, lista_de_patotas, ciclo_inicial, realizadas, tarea, comun,
                 emergencia, caida>>

\* The patota joins lista_de_patotas after its crews' threads were started.
RegistrarPatota ==
  /\ Fase("crea") /\ lote.quedan = 0
  /\ lista_de_patotas' = Append(lista_de_patotas, Len(lote.pedido.tareas))
  /\ lote' = SinLote
  /\ UNCHANGED <<planificacion, consola, cola_de_iniciar_patotas, id_tcb, tripulacion,
                 emergencia, caida>>
-----------------------------------------------------------------------------
(* chequear_planificacion_pausada: the gate every pausable thread passes.   *)

TrasCompuerta(h) == IF h = "es" THEN "expulsa_en_ciclo" ELSE "expulsa"

LeerPausa(h) ==
  /\ En(h, "lee_pausa")
  /\ pc' = [pc EXCEPT ![h] = IF planificacion_pausada THEN "drena" ELSE TrasCompuerta(h)]
  /\ UNCHANGED <<colas, fichas, compuerta, mano, victima, quantum, comun, ajeno>>

\* A post left over from an earlier start is thrown away.
Drenar(h) ==
  /\ En(h, "drena")
  /\ sem_pausa' = [sem_pausa EXCEPT ![h] = IF @ = 1 THEN 0 ELSE @]
  /\ pc' = [pc EXCEPT ![h] = "detenido"]
  /\ UNCHANGED <<colas, fichas, planificacion_pausada, mano, victima, quantum, comun,
                 ajeno>>

Reanudarse(h) ==
  /\ En(h, "detenido") /\ sem_pausa[h] > 0
  /\ sem_pausa' = [sem_pausa EXCEPT ![h] = @ - 1]
  /\ pc' = [pc EXCEPT ![h] = TrasCompuerta(h)]
  /\ UNCHANGED <<colas, fichas, planificacion_pausada, mano, victima, quantum, comun,
                 ajeno>>
-----------------------------------------------------------------------------
(* chequear_expulsion_de_tripulante: the first crew of the list marked for   *)
(* expulsion leaves it under the list's mutex; its estado is written, and    *)
(* Mi-RAM-HQ told, after the mutex is released.                              *)

SinExpulsados(cola) == \A i \in DOMAIN cola : ~expulsado[cola[i]]

PrimerExpulsado(cola, i) ==
  /\ expulsado[cola[i]]
  /\ \A j \in 1..i-1 : ~expulsado[cola[j]]

\* Mutant: it is found and left in the list.
EncontrarExpulsado(h, cola, cola_nueva) ==
  /\ cola_nueva = cola
  /\ \/ \E i \in DOMAIN cola : /\ PrimerExpulsado(cola, i)
                               /\ victima' = [victima EXCEPT ![h] = cola[i]]
     \/ SinExpulsados(cola) /\ UNCHANGED victima

SacarExpulsado(h, cola, cola_nueva) ==
  \/ \E i \in DOMAIN cola : /\ PrimerExpulsado(cola, i)
                            /\ cola_nueva = RemoveAt(cola, i)
                            /\ victima' = [victima EXCEPT ![h] = cola[i]]
  \/ SinExpulsados(cola) /\ cola_nueva = cola /\ UNCHANGED victima

\* tripulante_expulsado.
TripulanteExpulsado(h) ==
  /\ ~caida /\ victima[h] # Nadie
  /\ estado' = [estado EXCEPT ![victima[h]] = "EXPULSADO"]
  /\ expulsiones' = [expulsiones EXCEPT ![victima[h]] = @ + 1]
  /\ victima' = [victima EXCEPT ![h] = Nadie]
  /\ UNCHANGED <<colas, fichas, compuerta, pc, mano, quantum, expulsado, sem_tri,
                 procesador, ajeno>>
-----------------------------------------------------------------------------
(* planificador_a_largo_plazo.                                              *)

TomarNew ==
  /\ En("planificador", "libre") /\ sem_new > 0
  /\ sem_new' = sem_new - 1
  /\ pc' = [pc EXCEPT !["planificador"] = "lee_pausa"]
  /\ UNCHANGED <<colas, sem_ready, sem_block, es_finalizada, compuerta, mano, victima,
                 quantum, comun, ajeno>>

ExpulsarDeNew ==
  /\ En("planificador", "expulsa")
  /\ SacarExpulsado("planificador", cola_de_new, cola_de_new')
  /\ pc' = [pc EXCEPT !["planificador"] = IF SinExpulsados(cola_de_new) THEN "elige"
                                                                        ELSE "libre"]
  /\ UNCHANGED <<cola_de_ready, cola_de_exec, cola_de_block, fichas, compuerta, mano,
                 quantum, comun, ajeno>>

MoverAReady ==
  /\ En("planificador", "elige")
  /\ IF cola_de_new = <<>>
     THEN caida' = TRUE /\ UNCHANGED <<cola_de_new, cola_de_ready, estado, mano, pc>>
     ELSE LET t == Head(cola_de_new) IN
            /\ estado' = [estado EXCEPT ![t] = "READY"]
            /\ cola_de_ready' = AgregarElemento(cola_de_ready, t)
            /\ mano' = [mano EXCEPT !["planificador"] = t]
            /\ cola_de_new' = QuitarPrimero(cola_de_new)
            /\ pc' = [pc EXCEPT !["planificador"] = "avisa"]
            /\ UNCHANGED caida
  /\ UNCHANGED <<cola_de_exec, cola_de_block, fichas, compuerta, victima, quantum,
                 consola, creacion, propio, expulsado, sem_tri, procesador, expulsiones,
                 emergencia>>

\* After the delay and the message to Mi-RAM-HQ.
AvisarReady ==
  /\ En("planificador", "avisa")
  /\ sem_ready' = sem_ready + 1
  /\ sem_tri' = [sem_tri EXCEPT ![mano["planificador"]] = @ + 1]
  /\ mano' = [mano EXCEPT !["planificador"] = Nadie]
  /\ pc' = [pc EXCEPT !["planificador"] = "libre"]
  /\ UNCHANGED <<colas, sem_new, sem_block, es_finalizada, compuerta, victima, quantum,
                 estado, expulsado, procesador, expulsiones, ajeno>>
-----------------------------------------------------------------------------
(* procesar_tripulante_fifo and procesar_tripulante_rr.                     *)

TomarReady(p) ==
  /\ En(p, "libre") /\ sem_ready > 0
  /\ sem_ready' = sem_ready - 1
  /\ pc' = [pc EXCEPT ![p] = "lee_pausa"]
  /\ UNCHANGED <<colas, sem_new, sem_block, es_finalizada, compuerta, mano, victima,
                 quantum, comun, ajeno>>

ExpulsarDeReady(p) ==
  /\ En(p, "expulsa")
  /\ SacarExpulsado(p, cola_de_ready, cola_de_ready')
  /\ pc' = [pc EXCEPT ![p] = IF SinExpulsados(cola_de_ready) THEN "elige" ELSE "libre"]
  /\ UNCHANGED <<cola_de_new, cola_de_exec, cola_de_block, fichas, compuerta, mano,
                 quantum, comun, ajeno>>

ElegirTripulante(p) ==
  /\ En(p, "elige") /\ cola_de_ready # <<>>
  /\ mano' = [mano EXCEPT ![p] = Head(cola_de_ready)]
  /\ estado' = [estado EXCEPT ![Head(cola_de_ready)] = "EXEC"]
  /\ cola_de_ready' = QuitarPrimero(cola_de_ready)
  /\ pc' = [pc EXCEPT ![p] = "agrega_exec"]
  /\ UNCHANGED <<cola_de_new, cola_de_exec, cola_de_block, fichas, compuerta, victima,
                 quantum, expulsado, sem_tri, procesador, expulsiones, ajeno>>

\* The crew this token stood for was expelled by another thread.
NadieAElegir(p) ==
  /\ En(p, "elige") /\ cola_de_ready = <<>>
  /\ pc' = [pc EXCEPT ![p] = "libre"]
  /\ UNCHANGED <<colas, fichas, compuerta, mano, victima, quantum, comun, ajeno>>

AgregarAExec(p) ==
  /\ En(p, "agrega_exec")
  /\ cola_de_exec' = AgregarElemento(cola_de_exec, mano[p])
  /\ pc' = [pc EXCEPT ![p] = "rafaga"]
  /\ UNCHANGED <<cola_de_new, cola_de_ready, cola_de_block, fichas, compuerta, mano,
                 victima, quantum, comun, ajeno>>

QuantumAgotado(p) == Algoritmo = "RR" /\ quantum[p] >= quantum_rr

DarCiclo(p) ==
  /\ En(p, "rafaga")
  /\ estado[mano[p]] = "EXEC" /\ ~QuantumAgotado(p)
  /\ sem_tri' = [sem_tri EXCEPT ![mano[p]] = @ + 1]
  /\ pc' = [pc EXCEPT ![p] = "espera"]
  /\ UNCHANGED <<colas, fichas, compuerta, mano, victima, quantum, estado, expulsado,
                 procesador, expulsiones, ajeno>>

\* The crew answers; atender_interrupciones looks first in cola_de_exec, where
\* it may find a crew another processor is running.
CicloTerminado(p) ==
  /\ En(p, "espera") /\ procesador[mano[p]] > 0
  /\ procesador' = [procesador EXCEPT ![mano[p]] = @ - 1]
  /\ quantum' = [quantum EXCEPT ![p] = IF Algoritmo = "RR" THEN @ + 1 ELSE @]
  /\ SacarExpulsado(p, cola_de_exec, cola_de_exec')
  /\ pc' = [pc EXCEPT ![p] = "revisa_ready"]
  /\ UNCHANGED <<cola_de_new, cola_de_ready, cola_de_block, fichas, compuerta, mano,
                 estado, expulsado, sem_tri, expulsiones, ajeno>>

\* It takes an expelled crew out of ready, and no token with it.
RevisarReady(p) ==
  /\ En(p, "revisa_ready")
  /\ SacarExpulsado(p, cola_de_ready, cola_de_ready')
  /\ pc' = [pc EXCEPT ![p] = "revisa_pausa"]
  /\ UNCHANGED <<cola_de_new, cola_de_exec, cola_de_block, fichas, compuerta, mano,
                 quantum, comun, ajeno>>

RevisarPausa(p) ==
  /\ En(p, "revisa_pausa")
  /\ pc' = [pc EXCEPT ![p] = IF planificacion_pausada THEN "atiende_pausa" ELSE "rafaga"]
  /\ UNCHANGED <<colas, fichas, compuerta, mano, victima, quantum, comun, ajeno>>

AtenderPausa(p) ==
  /\ En(p, "atiende_pausa")
  /\ sem_pausa' = [sem_pausa EXCEPT ![p] = IF @ = 1 THEN 0 ELSE @]
  /\ IF sabotaje
     THEN /\ estado' = [estado EXCEPT ![mano[p]] = "BLOCKED_SABOTAJE"]
          /\ pc' = [pc EXCEPT ![p] = "rafaga"]
     ELSE /\ pc' = [pc EXCEPT ![p] = "detenido_en_rafaga"]
          /\ UNCHANGED estado
  /\ UNCHANGED <<colas, fichas, planificacion_pausada, mano, victima, quantum,
                 expulsado, sem_tri, procesador, expulsiones, ajeno>>

SeguirRafaga(p) ==
  /\ En(p, "detenido_en_rafaga") /\ sem_pausa[p] > 0
  /\ sem_pausa' = [sem_pausa EXCEPT ![p] = @ - 1]
  /\ pc' = [pc EXCEPT ![p] = "rafaga"]
  /\ UNCHANGED <<colas, fichas, planificacion_pausada, mano, victima, quantum, comun,
                 ajeno>>

FinDeRafaga(p) ==
  /\ En(p, "rafaga")
  /\ estado[mano[p]] # "EXEC" \/ QuantumAgotado(p)
  /\ pc' = [pc EXCEPT ![p] = "sale_de_exec"]
  /\ UNCHANGED <<colas, fichas, compuerta, mano, victima, quantum, comun, ajeno>>

\* During a sabotage the list is left to the thread that attends it.
SalirDeExec(p) ==
  /\ En(p, "sale_de_exec")
  /\ \/ \E i \in DOMAIN cola_de_exec :
          /\ ~sabotaje /\ cola_de_exec[i] = mano[p]
          /\ \A j \in 1..i-1 : cola_de_exec[j] # mano[p]
          /\ cola_de_exec' = RemoveAt(cola_de_exec, i)
     \/ /\ sabotaje \/ \A i \in DOMAIN cola_de_exec : cola_de_exec[i] # mano[p]
        /\ UNCHANGED cola_de_exec
  /\ pc' = [pc EXCEPT ![p] = "despacha"]
  /\ UNCHANGED <<cola_de_new, cola_de_ready, cola_de_block, fichas, compuerta, mano,
                 victima, quantum, comun, ajeno>>

\* Mutant: the quantum is not started again.
SoltarSinReiniciar(p) ==
  /\ mano' = [mano EXCEPT ![p] = Nadie]
  /\ pc' = [pc EXCEPT ![p] = "libre"]
  /\ UNCHANGED quantum

\* The end of a turn of the processor's loop.
Soltar(p) ==
  /\ mano' = [mano EXCEPT ![p] = Nadie]
  /\ pc' = [pc EXCEPT ![p] = "libre"]
  /\ quantum' = [quantum EXCEPT ![p] = IF @ = quantum_rr THEN 0 ELSE @]

DespacharBloqueado(p) ==
  /\ En(p, "despacha") /\ estado[mano[p]] = "BLOCKED_E_S"
  /\ cola_de_block' = AgregarElemento(cola_de_block, mano[p])
  /\ sem_block' = sem_block + 1
  /\ Soltar(p)
  /\ UNCHANGED <<cola_de_new, cola_de_ready, cola_de_exec, sem_new, sem_ready,
                 es_finalizada, compuerta, victima, comun, ajeno>>

\* Only procesar_tripulante_rr has this case.
DespacharDesalojado(p) ==
  /\ En(p, "despacha") /\ estado[mano[p]] = "EXEC" /\ Algoritmo = "RR"
  /\ estado' = [estado EXCEPT ![mano[p]] = "READY"]
  /\ AReady(mano[p])
  /\ Soltar(p)
  /\ UNCHANGED <<cola_de_new, cola_de_exec, cola_de_block, sem_new, sem_block,
                 es_finalizada, compuerta, victima, expulsado, sem_tri, procesador,
                 expulsiones, ajeno>>

\* EXIT, EXPULSADO, BLOCKED_SABOTAJE and the default case only write to the log.
DespacharSinCola(p) ==
  /\ En(p, "despacha")
  /\ estado[mano[p]] # "BLOCKED_E_S"
  /\ estado[mano[p]] = "EXEC" => Algoritmo = "FIFO"
  /\ Soltar(p)
  /\ UNCHANGED <<colas, fichas, compuerta, victima, comun, ajeno>>
-----------------------------------------------------------------------------
(* ejecutar_tripulantes_bloqueados: the one I/O device.                     *)

TomarBlock ==
  /\ En("es", "libre") /\ sem_block > 0
  /\ sem_block' = sem_block - 1
  /\ pc' = [pc EXCEPT !["es"] = "expulsa"]
  /\ UNCHANGED <<colas, sem_new, sem_ready, es_finalizada, compuerta, mano, victima,
                 quantum, comun, ajeno>>

ExpulsarDeBlock ==
  /\ En("es", "expulsa")
  /\ SacarExpulsado("es", cola_de_block, cola_de_block')
  /\ pc' = [pc EXCEPT !["es"] = IF SinExpulsados(cola_de_block) THEN "elige" ELSE "libre"]
  /\ UNCHANGED <<cola_de_new, cola_de_ready, cola_de_exec, fichas, compuerta, mano,
                 quantum, comun, ajeno>>

\* list_get of an empty list returns NULL, and the loop reads its estado.
ElegirBloqueado ==
  /\ En("es", "elige")
  /\ IF cola_de_block = <<>>
     THEN caida' = TRUE /\ UNCHANGED <<mano, pc>>
     ELSE /\ mano' = [mano EXCEPT !["es"] = Head(cola_de_block)]
          /\ pc' = [pc EXCEPT !["es"] = "rafaga"]
          /\ UNCHANGED caida
  /\ UNCHANGED <<colas, fichas, compuerta, victima, quantum, consola, creacion,
                 tripulacion, emergencia>>

DarCicloES ==
  /\ En("es", "rafaga") /\ estado[mano["es"]] = "BLOCKED_E_S"
  /\ sem_tri' = [sem_tri EXCEPT ![mano["es"]] = @ + 1]
  /\ pc' = [pc EXCEPT !["es"] = "espera"]
  /\ UNCHANGED <<colas, fichas, compuerta, mano, victima, quantum, estado, expulsado,
                 procesador, expulsiones, ajeno>>

CicloESTerminado ==
  /\ En("es", "espera") /\ es_finalizada > 0
  /\ es_finalizada' = es_finalizada - 1
  /\ pc' = [pc EXCEPT !["es"] = "lee_pausa"]
  /\ UNCHANGED <<colas, sem_new, sem_ready, sem_block, compuerta, mano, victima,
                 quantum, comun, ajeno>>

\* Any crew of the list, the one being served included.
ExpulsarEnCiclo ==
  /\ En("es", "expulsa_en_ciclo")
  /\ SacarExpulsado("es", cola_de_block, cola_de_block')
  /\ pc' = [pc EXCEPT !["es"] = "rafaga"]
  /\ UNCHANGED <<cola_de_new, cola_de_ready, cola_de_exec, fichas, compuerta, mano,
                 quantum, comun, ajeno>>

\* A crew that finished its I/O goes from the head of block to ready.
DesbloquearTripulante ==
  /\ En("es", "rafaga") /\ estado[mano["es"]] = "READY" /\ cola_de_block # <<>>
  /\ cola_de_block' = QuitarPrimero(cola_de_block)
  /\ AReady(Head(cola_de_block))
  /\ mano' = [mano EXCEPT !["es"] = Nadie]
  /\ pc' = [pc EXCEPT !["es"] = "libre"]
  /\ UNCHANGED <<cola_de_new, cola_de_exec, sem_new, sem_block, es_finalizada,
                 compuerta, victima, quantum, comun, ajeno>>

SoltarExpulsado ==
  /\ En("es", "rafaga") /\ estado[mano["es"]] \notin {"BLOCKED_E_S", "READY"}
  /\ mano' = [mano EXCEPT !["es"] = Nadie]
  /\ pc' = [pc EXCEPT !["es"] = "libre"]
  /\ UNCHANGED <<colas, fichas, compuerta, victima, quantum, comun, ajeno>>
-----------------------------------------------------------------------------
(* The thread of a crew: ejecucion_tripulante and realizar_operacion.       *)

\* It waits for the planner's post.
Nacer(t) ==
  /\ EnTrip(t, "nace") /\ sem_tri[t] > 0
  /\ sem_tri' = [sem_tri EXCEPT ![t] = @ - 1]
  /\ pc_trip' = [pc_trip EXCEPT ![t] = "pide"]
  /\ UNCHANGED <<planificacion, consola, creacion, ciclo_inicial, realizadas, posicion,
                 patota, tarea, pendientes, estado, expulsado, procesador, expulsiones,
                 emergencia, caida>>

PedirTarea(t) ==
  /\ EnTrip(t, "pide")
  /\ IF pendientes[t] = <<>>
     THEN /\ pc_trip' = [pc_trip EXCEPT ![t] = "fin"]
          /\ UNCHANGED <<tarea, pendientes>>
     ELSE /\ pc_trip' = [pc_trip EXCEPT ![t] = "ciclo"]
          /\ tarea' = [tarea EXCEPT ![t] = Head(pendientes[t])]
          /\ pendientes' = [pendientes EXCEPT ![t] = Tail(@)]
  /\ UNCHANGED <<planificacion, consola, creacion, ciclo_inicial, realizadas, posicion,
                 patota, comun, emergencia, caida>>

\* Mi-RAM-HQ has already dropped the crew: it answers RESPUESTA_FAIL where the
\* task goes, and the fields the parser looks for are not there.
PedirTareaDeExpulsado(t) ==
  /\ EnTrip(t, "pide") /\ expulsiones[t] > 0
  /\ caida' = TRUE
  /\ UNCHANGED <<planificacion, consola, creacion, tripulacion, emergencia>>

TareaActual(t) == IF elegido = t THEN tarea_sabotaje ELSE tarea[t]

GastarCiclo(t) ==
  IF elegido = t
  THEN tarea_sabotaje' = [tarea_sabotaje EXCEPT !.tiempo = @ - 1] /\ UNCHANGED tarea
  ELSE tarea' = [tarea EXCEPT ![t].tiempo = @ - 1] /\ UNCHANGED tarea_sabotaje

\* Mutants: it does not wait; it takes a cycle nobody granted.
CicloSinEspera(t) == EnTrip(t, "ciclo") /\ UNCHANGED sem_tri
CicloNoConcedido(t) ==
  EnTrip(t, "ciclo") /\ sem_tri' = [sem_tri EXCEPT ![t] = @ - 1]

EsperaCiclo(t) ==
  /\ EnTrip(t, "ciclo") /\ sem_tri[t] > 0
  /\ sem_tri' = [sem_tri EXCEPT ![t] = @ - 1]

EnDestino(t) == TareaActual(t).pos = posicion[t]

\* mover_tri_hacia_tarea: x first, then y, one place a cycle.
UnPaso(desde, hasta) ==
  LET hacia(a, b) == IF a < b THEN a + 1 ELSE IF a > b THEN a - 1 ELSE a
  IN IF desde[1] # hasta[1] THEN <<hacia(desde[1], hasta[1]), desde[2]>>
                            ELSE <<desde[1], hacia(desde[2], hasta[2])>>

CicloMover(t) ==
  /\ EsperaCiclo(t) /\ ~EnDestino(t)
  /\ posicion' = [posicion EXCEPT ![t] = UnPaso(@, TareaActual(t).pos)]
  /\ procesador' = [procesador EXCEPT ![t] = @ + 1]
  /\ UNCHANGED <<planificacion, consola, creacion, pc_trip, ciclo_inicial, realizadas,
                 patota, tarea, pendientes, estado, expulsado, expulsiones, emergencia,
                 caida>>

\* The first cycle of an I/O task, on a processor.
CicloSyscall(t) ==
  /\ EsperaCiclo(t) /\ EnDestino(t) /\ TareaActual(t).es /\ ~ciclo_inicial[t]
  /\ ciclo_inicial' = [ciclo_inicial EXCEPT ![t] = TRUE]
  /\ estado' = [estado EXCEPT ![t] = "BLOCKED_E_S"]
  /\ procesador' = [procesador EXCEPT ![t] = @ + 1]
  /\ UNCHANGED <<planificacion, consola, creacion, pc_trip, realizadas, posicion,
                 patota, tarea, pendientes, expulsado, expulsiones, emergencia, caida>>

\* The others, on the device; the last one does not look whether the list of
\* tasks is finished.
CicloES(t) ==
  /\ EsperaCiclo(t) /\ EnDestino(t) /\ TareaActual(t).es /\ ciclo_inicial[t]
  /\ GastarCiclo(t)
  /\ IF TareaActual(t).tiempo = 1
     THEN /\ estado' = [estado EXCEPT ![t] = "READY"]
          /\ ciclo_inicial' = [ciclo_inicial EXCEPT ![t] = FALSE]
          /\ realizadas' = [realizadas EXCEPT ![t] = @ + 1]
          /\ pc_trip' = [pc_trip EXCEPT ![t] = "terminada"]
     ELSE UNCHANGED <<estado, ciclo_inicial, realizadas, pc_trip>>
  /\ es_finalizada' = es_finalizada + 1
  /\ UNCHANGED <<colas, sem_new, sem_ready, sem_block, compuerta, hilos, consola,
                 creacion, posicion, patota, pendientes, expulsado, procesador,
                 expulsiones, sabotaje, elegido, caida>>

\* Mutant: the task is not counted.
NoContarTarea(t, terminada) == realizadas[t]

\* chequear_tarea_terminada: the sabotage does not count as a task done.
TareasHechas(t, terminada) == realizadas[t] + Uno(terminada /\ elegido # t)

\* A task of the CPU, or the sabotage.
CicloCPU(t) ==
  LET ultima == TareaActual(t).tiempo = 1
      hechas == TareasHechas(t, ultima)
  IN /\ patota[t] <= Len(lista_de_patotas)
     /\ EsperaCiclo(t) /\ EnDestino(t) /\ ~TareaActual(t).es
     /\ GastarCiclo(t)
     /\ realizadas' = [realizadas EXCEPT ![t] = hechas]
     /\ pc_trip' = [pc_trip EXCEPT ![t] = IF ultima THEN "terminada" ELSE @]
     /\ estado' = IF hechas = lista_de_patotas[patota[t]]
                  THEN [estado EXCEPT ![t] = "EXIT"] ELSE estado
     /\ procesador' = [procesador EXCEPT ![t] = @ + 1]
     /\ UNCHANGED <<planificacion, consola, creacion, ciclo_inicial, posicion, patota,
                    pendientes, expulsado, expulsiones, sabotaje, elegido, caida>>

\* The patota is not in the list yet: list_get returns NULL, and
\* chequear_tripulante_finalizado reads its cantidad_de_tareas.
CicloSinPatota(t) ==
  /\ EnTrip(t, "ciclo") /\ sem_tri[t] > 0 /\ EnDestino(t) /\ ~TareaActual(t).es
  /\ patota[t] > Len(lista_de_patotas)
  /\ caida' = TRUE
  /\ UNCHANGED <<planificacion, consola, creacion, tripulacion, emergencia>>

\* Between two tasks: a crew already marked for expulsion asks for no more.
TareaTerminada(t) ==
  /\ EnTrip(t, "terminada") /\ elegido # t
  /\ pc_trip' = [pc_trip EXCEPT ![t] = IF expulsado[t] THEN "fin" ELSE "pide"]
  /\ UNCHANGED <<planificacion, consola, creacion, ciclo_inicial, realizadas, posicion,
                 patota, tarea, pendientes, comun, emergencia, caida>>
-----------------------------------------------------------------------------
Consola ==
  \/ IniciarPatota \/ PausarPlanificacion \/ IniciarPlanificacion
  \/ \E t \in Expulsables : ExpulsarTripulante(t)

Gestor == \/ PedirMemoria \/ MemoriaDenegada \/ MemoriaConcedida
          \/ CrearTripulante \/ RegistrarPatota

PasarCompuerta(h) == LeerPausa(h) \/ Drenar(h) \/ Reanudarse(h)

PlanificadorLargoPlazo ==
  \/ TripulanteExpulsado("planificador") \/ TomarNew
  \/ PasarCompuerta("planificador") \/ ExpulsarDeNew \/ MoverAReady \/ AvisarReady

Procesador(p) ==
  \/ TripulanteExpulsado(p) \/ TomarReady(p) \/ PasarCompuerta(p) \/ ExpulsarDeReady(p)
  \/ ElegirTripulante(p) \/ NadieAElegir(p) \/ AgregarAExec(p)
  \/ DarCiclo(p) \/ CicloTerminado(p) \/ RevisarReady(p) \/ RevisarPausa(p)
  \/ AtenderPausa(p) \/ SeguirRafaga(p) \/ FinDeRafaga(p) \/ SalirDeExec(p)
  \/ DespacharBloqueado(p) \/ DespacharDesalojado(p) \/ DespacharSinCola(p)

Dispositivo ==
  \/ TripulanteExpulsado("es") \/ TomarBlock
  \/ ExpulsarDeBlock \/ ElegirBloqueado \/ DarCicloES
  \/ CicloESTerminado \/ PasarCompuerta("es") \/ ExpulsarEnCiclo
  \/ DesbloquearTripulante \/ SoltarExpulsado

Ciclo(t) == CicloMover(t) \/ CicloSyscall(t) \/ CicloES(t) \/ CicloCPU(t)
            \/ CicloSinPatota(t)

Tripulante(t) ==
  Nacer(t) \/ PedirTarea(t) \/ PedirTareaDeExpulsado(t) \/ Ciclo(t) \/ TareaTerminada(t)

Next ==
  \/ Consola
  \/ \E h \in Hilos : Reanudar(h)
  \/ Gestor
  \/ PlanificadorLargoPlazo
  \/ \E p \in Procs : Procesador(p)
  \/ Dispositivo
  \/ \E t \in Trips : Tripulante(t)

Spec == Init /\ [][Next]_vars

\* The kernel schedules every thread that can run; nobody makes the user type.
FairSpec ==
  /\ Spec
  /\ WF_vars(Gestor) /\ WF_vars(PlanificadorLargoPlazo) /\ WF_vars(Dispositivo)
  /\ \A h \in Hilos : WF_vars(Reanudar(h))
  /\ \A p \in Procs : WF_vars(Procesador(p))
  /\ \A t \in Trips : WF_vars(Tripulante(t))
-----------------------------------------------------------------------------
(* Properties.                                                              *)

Lugares == {"libre", "lee_pausa", "drena", "detenido", "expulsa", "elige", "avisa",
            "agrega_exec", "rafaga", "espera", "revisa_ready", "revisa_pausa",
            "atiende_pausa", "detenido_en_rafaga", "sale_de_exec", "despacha",
            "expulsa_en_ciclo"}
Estados == {"NEW", "READY", "EXEC", "BLOCKED_E_S", "BLOCKED_SABOTAJE", "EXIT", "EXPULSADO"}
LugaresTrip == {"no_creado", "nace", "pide", "ciclo", "terminada", "fin"}

\* The shape of the state: ids, lists of ids, semaphores that are never negative.
TypeOK ==
  /\ planificacion_pausada \in BOOLEAN /\ sabotaje \in BOOLEAN /\ caida \in BOOLEAN
  /\ sem_pausa \in [Hilos -> Nat]
  /\ cola_de_new \in Seq(Trips) /\ cola_de_ready \in Seq(Trips)
  /\ cola_de_exec \in Seq(Trips) /\ cola_de_block \in Seq(Trips)
  /\ sem_new \in Nat /\ sem_ready \in Nat /\ sem_block \in Nat /\ es_finalizada \in Nat
  /\ pc \in [Hilos -> Lugares]
  /\ mano \in [Hilos -> Trips \cup {Nadie}] /\ victima \in [Hilos -> Trips \cup {Nadie}]
  /\ quantum \in [Procs -> Nat]
  /\ por_reanudar \subseteq Hilos
  /\ id_tcb \in 1..MaxTrips + 1
  /\ tipeados \in 0..Len(Pedidos) /\ cola_de_iniciar_patotas \in Seq(Pedido)
  /\ lote \in [fase : {"libre", "memoria", "crea"}, quedan : Nat, pedido : Pedido]
  /\ pc_trip \in [Trips -> LugaresTrip]
  /\ estado \in [Trips -> Estados]
  /\ expulsado \in [Trips -> BOOLEAN]
  /\ sem_tri \in [Trips -> Nat]
  /\ procesador \in [Trips -> Nat]
  /\ expulsiones \in [Trips -> Nat]

\* A crew is in one place: at most once in a list, in at most one of new, ready
\* and block, in the hands of at most one processor and then in none of those
\* lists; cola_de_exec holds only crews some processor is running.  Two threads
\* that drive the same crew would give it two cycles at once.
UnSoloLugar ==
  /\ IsInjective(cola_de_new) /\ IsInjective(cola_de_ready)
  /\ IsInjective(cola_de_exec) /\ IsInjective(cola_de_block)
  /\ Range(cola_de_new) \cap Range(cola_de_ready) = {}
  /\ Range(cola_de_new) \cap Range(cola_de_block) = {}
  /\ Range(cola_de_ready) \cap Range(cola_de_block) = {}
  /\ \A p, q \in Procs : p # q /\ mano[p] = mano[q] => mano[p] = Nadie
  /\ \A p \in Procs : mano[p] \notin Range(cola_de_new) \cup Range(cola_de_ready)
                                       \cup Range(cola_de_block)
  /\ Range(cola_de_exec) \subseteq {mano[p] : p \in Procs}

\* The tokens of ready are enough: no crew is in cola_de_ready without a token, on
\* the semaphore, in the hands of a processor or about to be posted, that will make
\* some processor look there.
FichasAlcanzan ==
  Len(cola_de_ready) <=
    sem_ready + Uno(pc["planificador"] = "avisa")
    + Cardinality({p \in Procs : pc[p] \in {"lee_pausa", "drena", "detenido", "expulsa",
                                            "elige"}})

\* A cycle is granted and answered once: a processor that waits for a crew's
\* answer is owed exactly one, one that does not wait is owed none, and the
\* device's semaphore answers for the one crew it serves.
CicloUnico ==
  /\ \A p \in Procs : mano[p] # Nadie =>
       LET t == mano[p] IN
         sem_tri[t] + procesador[t] + Uno(mano["planificador"] = t)
           = Uno(pc_trip[t] = "nace") + Uno(pc[p] = "espera")
  /\ LET t == mano["es"] IN
       t # Nadie => sem_tri[t] + es_finalizada = Uno(pc["es"] = "espera")

\* The list a crew is in and its estado agree, unless the crew is marked for
\* expulsion and one processor expels what another is moving; and the crew the
\* device has finished with is the head of cola_de_block, the one it takes out.
ColaCoherente ==
  /\ \A t \in Range(cola_de_new) : estado[t] = "NEW"
  /\ \A t \in Range(cola_de_ready) : estado[t] = "READY" \/ expulsado[t]
  /\ \A t \in Range(cola_de_block) : \/ estado[t] = "BLOCKED_E_S" \/ expulsado[t]
                                     \/ estado[t] = "READY" /\ mano["es"] = t
  /\ mano["es"] # Nadie /\ victima["es"] = Nadie /\ estado[mano["es"]] = "READY" =>
       cola_de_block # <<>> /\ Head(cola_de_block) = mano["es"]

\* A processor never starts a burst with its quantum used up: it would give the
\* crew no cycle and put it back in ready for ever.
RafagaUtil == \A p \in Procs : pc[p] = "agrega_exec" => ~QuantumAgotado(p)

\* A crew whose thread ended without being expelled left the ship: estado EXIT
\* and every task of its patota done.
SalidaConExit ==
  \A t \in Trips : pc_trip[t] = "fin" /\ ~expulsado[t] => estado[t] = "EXIT"

\* Mi-RAM-HQ is told of an expulsion once.
ExpulsionUnica == \A t \in Trips : expulsiones[t] <= 1

\* The life of a crew as the five-state diagram of the scheduler has it, with
\* expulsion from any state and no way back from it.
Transiciones ==
  {<<"NEW", "READY">>, <<"READY", "EXEC">>, <<"EXEC", "READY">>, <<"EXEC", "BLOCKED_E_S">>,
   <<"BLOCKED_E_S", "READY">>, <<"EXEC", "EXIT">>}
  \cup {<<e, "EXPULSADO">> : e \in {"NEW", "READY", "EXEC", "BLOCKED_E_S", "EXIT"}}

DiagramaDeEstados ==
  [][\A t \in Trips : estado'[t] # estado[t] =>
       <<estado[t], estado'[t]>> \in Transiciones]_vars

\* A thread asleep at the gate that nobody is going to wake.
Varado(h) ==
  /\ pc[h] \in {"detenido", "detenido_en_rafaga"} /\ sem_pausa[h] = 0
  /\ ~planificacion_pausada /\ h \notin por_reanudar

\* What discordiador.c:411 says of the planner: with crews in NEW and the planning
\* running, it acts.
LargoPlazoActua == cola_de_new # <<>> => ~Varado("planificador")

\* A processor that granted a cycle to a crew whose thread has ended: the crew
\* saw it was expelled between two tasks, after the processor had looked.
Colgado(p) == pc[p] = "espera" /\ pc_trip[mano[p]] = "fin" /\ procesador[mano[p]] = 0

\* Nothing but the user, a crash, a lost wake-up or a thread that ended before its
\* turn stops a crew: when the planning ends up running for good and none of these
\* happened, every crew created leaves or is expelled.
TodosSalen ==
  <>[](/\ ~planificacion_pausada /\ ~caida
       /\ \A h \in Hilos : ~Varado(h)
       /\ \A p \in Procs : ~Colgado(p)) =>
    \A t \in Trips : (pc_trip[t] # "no_creado") ~> (estado[t] \in {"EXIT", "EXPULSADO"})

====
