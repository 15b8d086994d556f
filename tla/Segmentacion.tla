---------------------------- MODULE Segmentacion ----------------------------
(***************************************************************************)
(* Mi-RAM-HQ under segmentation: the memory, the list of its segments and  *)
(* one table of segments per patota, used by one thread per request.       *)
(*                                                                         *)
(* An action is what a thread does between two points at which another can *)
(* come in.  A lock held over several actions is a variable; the others    *)
(* are the conjuncts that keep an action out while somebody has them.      *)
(* A request keeps after an unlock the segment it found a crew by (tcb)    *)
(* and its position (indice), and goes on with a table that it may find    *)
(* freed (liberadas): the process falls when it does.                      *)
(***************************************************************************)
EXTENDS Integers, SequencesExt

CONSTANTS
  TAMANIO_MEMORIA, CRITERIO_SELECCION,   \* "FF" or "BF"
  tam_pcb, tam_tcb,
  Patotas,         \* the INICIAR_PATOTA requests, in order: records [cantidad of crews,
                   \* longitud of the tasks' text, tareas in it]; a pid is a place here
  Expulsables,     \* bound: the crews somebody may expel
  MaxSeniales      \* bound: signals that ask for a compaction

Pids == DOMAIN Patotas
Trips == UNION {{<<p, i>> : i \in 1..Patotas[p].cantidad} : p \in Pids}
\* A segment is named by who it was given to; the free one a compaction leaves is Hueco.
Pcb(p) == <<"pcb", p, 0>>
Tareas(p) == <<"tareas", p, 0>>
Tcb(t) == <<"tcb", t[1], t[2]>>
Hueco == <<"hueco", 0, 0>>
Tcbs == {Tcb(t) : t \in Trips}
Segmentos == {Hueco} \cup {Pcb(p) : p \in Pids} \cup {Tareas(p) : p \in Pids} \cup Tcbs

ASSUME ConstantesOK ==
  /\ TAMANIO_MEMORIA \in Nat \ {0} /\ CRITERIO_SELECCION \in {"FF", "BF"}
  /\ tam_pcb \in Nat \ {0} /\ tam_tcb \in Nat \ {0}
  /\ Patotas \in Seq([cantidad : Nat \ {0}, longitud : Nat \ {0}, tareas : Nat \ {0}])
  /\ Expulsables \subseteq Trips /\ MaxSeniales \in Nat

VARIABLES
  segmentos,     \* segmentos_memoria: the list of segments
  seg,           \* each segment's inicio, tam and libre
  memoria,       \* what each place holds: whose data, and in a TCB the next task
  patotas,       \* the list of tables, as pids
  tabla,         \* segmentos_tripulantes of each patota
  liberadas,     \* patotas whose table was freed
  mutex_trip,    \* patotas whose mutex_segmentos_tripulantes is taken
  ini,           \* the INICIAR_PATOTA being served, under mutex_iniciar_patota
  recibidas,     \* INICIAR_PATOTA requests so far
  aceptadas,     \* those answered with RESPUESTA_OK
  comp,          \* the compaction under way: segments it has locked, in list order
  seniales,
  ubica,         \* the table and the segment of the ACTUALIZAR_UBICACION being served,
                 \* under mutex_tabla_patotas
  obt,           \* the OBTENER_PROXIMA_TAREA of each crew
  respuestas,    \* answers each crew has had
  expulsados,    \* crews somebody has asked to expel
  caida          \* freed memory was used: the process is gone

espacio == <<segmentos, seg, memoria>>
tablas == <<patotas, tabla, liberadas>>
altas == <<ini, recibidas, aceptadas>>
compactacion == <<comp, seniales>>
vars == <<espacio, tablas, mutex_trip, altas, compactacion, ubica, obt, respuestas,
          expulsados, caida>>

Nada == [de |-> Hueco, tarea |-> 0]
SinAlta == [fase |-> "libre", pid |-> 0, faltan |-> <<>>, compacto |-> FALSE]
SinComp == [fase |-> "no", tomados |-> 0]
Nadie == [pat |-> 0, tcb |-> Tcb(<<0, 0>>)]
SinPedido ==
  [pc |-> "libre", pat |-> 0, indice |-> 0, tcb |-> Hueco, tarea |-> 0, leidas |-> 0]

Init ==
  /\ segmentos = <<Hueco>>
  /\ seg = [d \in Segmentos |->
              IF d = Hueco THEN [inicio |-> 0, tam |-> TAMANIO_MEMORIA, libre |-> TRUE]
                           ELSE [inicio |-> 0, tam |-> 0, libre |-> TRUE]]
  /\ memoria = [a \in 0..TAMANIO_MEMORIA - 1 |-> Nada]
  /\ patotas = <<>> /\ tabla = [p \in Pids |-> <<>>] /\ liberadas = {}
  /\ mutex_trip = {}
  /\ ini = SinAlta /\ recibidas = 0 /\ aceptadas = {}
  /\ comp = SinComp /\ seniales = 0
  /\ ubica = Nadie
  /\ obt = [t \in Trips |-> SinPedido]
  /\ respuestas = [t \in Trips |-> 0]
  /\ expulsados = {}
  /\ caida = FALSE

-----------------------------------------------------------------------------
(* The locks.  A compaction has mutex_tabla_de_segmentos from its start and  *)
(* takes every segment's mutex; ACTUALIZAR_UBICACION has mutex_tabla_patotas, *)
(* its patota's and its segment's.                                           *)
TablaDeSegmentosLibre == comp.fase = "no"
TablaDePatotasLibre == ubica = Nadie
Tomado(d) == \E i \in 1..comp.tomados : segmentos[i] = d

-----------------------------------------------------------------------------
(* The memory.                                                              *)
Lugares(d) == seg[d].inicio .. seg[d].inicio + seg[d].tam - 1

\* What is found where a segment starts; a segment of no size may start at the end.
Leer(d) == IF seg[d].inicio < TAMANIO_MEMORIA THEN memoria[seg[d].inicio] ELSE Nada

Cargar(mem, inicio, tam, v) ==
  [a \in DOMAIN mem |-> IF a \in inicio .. inicio + tam - 1 THEN v ELSE mem[a]]

Tam(d) == CASE d[1] = "pcb" -> tam_pcb
            [] d[1] = "tareas" -> Patotas[d[2]].longitud
            [] OTHER -> tam_tcb

\* The places that some segments have in all.
Espacio(S) == SumFunctionOnSet([d \in Segmentos |-> seg[d].tam], S)

Libres == {d \in ToSet(segmentos) : seg[d].libre}
EnUso == ToSet(segmentos) \ Libres

MemoriaLibre == Espacio(Libres)

\* Mutant: the crews are not counted.
NecesariaSinTripulantes(p) == tam_pcb + Patotas[p].longitud

MemoriaNecesaria(p) ==
  tam_pcb + Patotas[p].longitud + Patotas[p].cantidad * tam_tcb

Entra(i, n) == seg[segmentos[i]].libre /\ seg[segmentos[i]].tam >= n

\* First fit takes the first that is large enough, best fit the first of the smallest.
Elegido(i, n) ==
  /\ Entra(i, n)
  /\ \A j \in DOMAIN segmentos : Entra(j, n) =>
       IF CRITERIO_SELECCION = "FF" THEN i <= j
       ELSE LET a == seg[segmentos[i]].tam
                b == seg[segmentos[j]].tam
            IN a < b \/ (a = b /\ i <= j)

\* Mutant: the free segment keeps its size.
OcuparSinAchicar(i, d) ==
  LET h == segmentos[i] IN
  /\ segmentos' = InsertAt(segmentos, i, d)
  /\ seg' = [seg EXCEPT ![d] = [inicio |-> seg[h].inicio, tam |-> Tam(d), libre |-> FALSE],
                        ![h].inicio = @ + Tam(d)]

\* The new segment goes before the free one, which shrinks, to nothing perhaps.
Ocupar(i, d) ==
  LET h == segmentos[i] IN
  /\ segmentos' = InsertAt(segmentos, i, d)
  /\ seg' = [seg EXCEPT ![d] = [inicio |-> seg[h].inicio, tam |-> Tam(d), libre |-> FALSE],
                        ![h].inicio = @ + Tam(d),
                        ![h].tam = @ - Tam(d)]

-----------------------------------------------------------------------------
(* INICIAR_PATOTA.                                                          *)

\* Rejected, or its segments are asked for one by one.
RecibirPatota ==
  LET p == recibidas + 1 IN
  /\ ~caida /\ ini.fase = "libre" /\ recibidas < Len(Patotas)
  /\ TablaDeSegmentosLibre /\ TablaDePatotasLibre
  /\ recibidas' = p
  /\ ini' = IF MemoriaLibre < MemoriaNecesaria(p) THEN ini
            ELSE [fase |-> "asigna", pid |-> p, compacto |-> FALSE,
                  faltan |-> <<Pcb(p), Tareas(p)>>
                               \o [i \in 1..Patotas[p].cantidad |-> Tcb(<<p, i>>)]]
  /\ UNCHANGED <<espacio, tablas, mutex_trip, aceptadas, compactacion, ubica, obt,
                 respuestas, expulsados, caida>>

EnAlta == ~caida /\ ini.fase = "asigna" /\ TablaDeSegmentosLibre

\* A TCB is loaded as soon as it has its segment.
AsignarSegmento ==
  /\ EnAlta /\ ini.faltan # <<>>
  /\ LET d == Head(ini.faltan) IN
       \E i \in DOMAIN segmentos :
         /\ Elegido(i, Tam(d))
         /\ Ocupar(i, d)
         /\ IF d \in Tcbs
            THEN /\ memoria' = Cargar(memoria, seg'[d].inicio, Tam(d), [de |-> d, tarea |-> 0])
                 /\ tabla' = [tabla EXCEPT ![ini.pid] = Append(@, d)]
            ELSE UNCHANGED <<memoria, tabla>>
  /\ ini' = [ini EXCEPT !.faltan = Tail(@), !.compacto = FALSE]
  /\ UNCHANGED <<patotas, liberadas, mutex_trip, recibidas, aceptadas, compactacion, ubica,
                 obt, respuestas, expulsados, caida>>

\* No segment is large enough: the memory is compacted, and then it is not tried again.
SinSegmento ==
  /\ EnAlta /\ ini.faltan # <<>>
  /\ \A i \in DOMAIN segmentos : ~Entra(i, Tam(Head(ini.faltan)))
  /\ IF ini.compacto THEN ini' = [ini EXCEPT !.fase = "no_deberia_pasar"] /\ UNCHANGED comp
                     ELSE comp' = [fase |-> "bloquea", tomados |-> 0] /\ UNCHANGED ini
  /\ UNCHANGED <<espacio, tablas, mutex_trip, recibidas, aceptadas, seniales, ubica, obt,
                 respuestas, expulsados, caida>>

\* PCB and tasks are loaded and the table joins the list.
PublicarPatota ==
  LET p == ini.pid
      con_pcb == Cargar(memoria, seg[Pcb(p)].inicio, tam_pcb, [de |-> Pcb(p), tarea |-> 0])
  IN /\ EnAlta /\ ini.faltan = <<>>
     /\ memoria' = Cargar(con_pcb, seg[Tareas(p)].inicio, Tam(Tareas(p)),
                          [de |-> Tareas(p), tarea |-> 0])
     /\ patotas' = Append(patotas, p)
     /\ aceptadas' = aceptadas \cup {p}
     /\ ini' = SinAlta
     /\ UNCHANGED <<segmentos, seg, tabla, liberadas, mutex_trip, recibidas, compactacion,
                    ubica, obt, respuestas, expulsados, caida>>

-----------------------------------------------------------------------------
(* The compaction, from INICIAR_PATOTA or from the signal, which waits for  *)
(* mutex_iniciar_patota.                                                     *)

SenialCompactar ==
  /\ ~caida /\ ini.fase = "libre" /\ TablaDeSegmentosLibre
  /\ seniales < MaxSeniales
  /\ seniales' = seniales + 1
  /\ comp' = [fase |-> "bloquea", tomados |-> 0]
  /\ UNCHANGED <<espacio, tablas, mutex_trip, altas, ubica, obt, respuestas, expulsados,
                 caida>>

\* Their mutexes are taken in the order of the list, up to one that somebody has.
BloquearSegmentos ==
  /\ ~caida /\ comp.fase = "bloquea" /\ comp.tomados < Len(segmentos)
  /\ LET ocupados == {i \in DOMAIN segmentos : i > comp.tomados /\ segmentos[i] = ubica.tcb}
     IN /\ comp.tomados + 1 \notin ocupados
        /\ comp' = [comp EXCEPT !.tomados = Min(ocupados \cup {Len(segmentos) + 1}) - 1]
  /\ UNCHANGED <<espacio, tablas, mutex_trip, altas, seniales, ubica, obt, respuestas,
                 expulsados, caida>>

\* The segments in use that start before one, and what they take: where it will start.
Delante(d) == {c \in EnUso : seg[c].inicio < seg[d].inicio}
Desplazamiento(d) == Espacio(Delante(d))

\* The list sorted by where the segments start, less the free ones.
Ordenados == [i \in 1..Cardinality(EnUso) |-> CHOOSE d \in EnUso : Cardinality(Delante(d)) = i - 1]

\* Mutant: the segments move and what they hold does not.
MoverSinCopiar == memoria

\* Each segment kept is copied down to its new place; the rest of the memory stays.
Mover ==
  LET Destino(d) == Desplazamiento(d) .. Desplazamiento(d) + seg[d].tam - 1
  IN [a \in DOMAIN memoria |->
        IF \E d \in EnUso : a \in Destino(d)
        THEN LET d == CHOOSE d \in EnUso : a \in Destino(d)
             IN memoria[seg[d].inicio + a - Desplazamiento(d)]
        ELSE memoria[a]]

Compactar ==
  LET ocupado == Espacio(EnUso) IN
  /\ ~caida /\ comp.fase = "bloquea" /\ comp.tomados = Len(segmentos)
  /\ memoria' = Mover
  /\ segmentos' = Append(Ordenados, Hueco)
  /\ seg' = [d \in Segmentos |->
               IF d = Hueco
               THEN [inicio |-> ocupado, tam |-> TAMANIO_MEMORIA - ocupado, libre |-> TRUE]
               ELSE IF d \in EnUso THEN [seg[d] EXCEPT !.inicio = Desplazamiento(d)]
               ELSE seg[d]]
  /\ comp' = SinComp
  /\ ini' = [ini EXCEPT !.compacto = ini.fase = "asigna"]
  /\ UNCHANGED <<tablas, mutex_trip, recibidas, aceptadas, seniales, ubica, obt,
                 respuestas, expulsados, caida>>

-----------------------------------------------------------------------------
(* Finding a crew: the tables are searched in order, comparing the tid that  *)
(* the memory holds where each segment starts.                               *)
Coincide(t, p, j) == Leer(tabla[p][j]).de = Tcb(t)

\* The compaction takes the free segments off the list with their mutexes taken, and releases
\* those of the ones that stay: who reads a table up to one that it took waits for ever.
Legible(p, j) == \A k \in 1..j : tabla[p][k] \in ToSet(segmentos)

PrimeroEnTabla(t, p, j) ==
  /\ j \in DOMAIN tabla[p] /\ Coincide(t, p, j) /\ Legible(p, j)
  /\ \A k \in 1..j - 1 : ~Coincide(t, p, k)

EnAlguna(t, p) == \E j \in DOMAIN tabla[p] : Coincide(t, p, j)
Falta(t, p) == ~EnAlguna(t, p) /\ Legible(p, Len(tabla[p]))
Desconocido(t) == \A i \in DOMAIN patotas : Falta(t, patotas[i])

\* In the i-th table, at j.
Encontrado(t, i, j) ==
  /\ i \in DOMAIN patotas /\ PrimeroEnTabla(t, patotas[i], j)
  /\ \A k \in 1..i - 1 : Falta(t, patotas[k])

-----------------------------------------------------------------------------
(* ACTUALIZAR_UBICACION.                                                     *)

\* The crew is found: its segment's mutex stays taken, and the list's and its patota's.
BuscarParaUbicar(t) ==
  /\ ~caida /\ t[1] \in aceptadas
  /\ TablaDePatotasLibre /\ TablaDeSegmentosLibre
  /\ \E i \in DOMAIN patotas : LET p == patotas[i] IN
       \E j \in DOMAIN tabla[p] :
         /\ Encontrado(t, i, j)
         /\ p \notin mutex_trip
         /\ mutex_trip' = mutex_trip \cup {p}
         /\ ubica' = [pat |-> p, tcb |-> tabla[p][j]]
  /\ UNCHANGED <<espacio, tablas, altas, compactacion, obt, respuestas, expulsados, caida>>

\* It reads its pid from the PCB, under the PCB's mutex, and writes its place.
EscribirUbicacion ==
  /\ ~caida /\ ubica # Nadie
  /\ ~Tomado(Pcb(ubica.pat))
  /\ ubica' = Nadie
  /\ mutex_trip' = mutex_trip \ {ubica.pat}
  /\ UNCHANGED <<espacio, tablas, altas, compactacion, obt, respuestas, expulsados, caida>>

-----------------------------------------------------------------------------
(* OBTENER_PROXIMA_TAREA.  A crew waits for an answer before it asks again.  *)
EnObt(t, lugar) == ~caida /\ obt[t].pc = lugar
\* The table the request found is still there.
TablaViva(t) == obt[t].pat \notin liberadas
SinCandados(t) == obt[t].pat \notin mutex_trip
               /\ \A j \in DOMAIN tabla[obt[t].pat] : ~Tomado(tabla[obt[t].pat][j])

\* The request arrives.  Nobody knows the crew: the answer is "RESPUESTA_FAIL".
BuscarPatotaConTid(t) ==
  /\ EnObt(t, "libre") /\ t[1] \in aceptadas
  /\ TablaDePatotasLibre /\ TablaDeSegmentosLibre
  /\ \/ Desconocido(t) /\ obt' = [obt EXCEPT ![t].pc = "fallo"]
     \/ \E i \in DOMAIN patotas :
          /\ \E j \in DOMAIN tabla[patotas[i]] : Encontrado(t, i, j)
          /\ obt' = [obt EXCEPT ![t].pc = "copia", ![t].pat = patotas[i]]
  /\ UNCHANGED <<espacio, tablas, mutex_trip, altas, compactacion, ubica, respuestas,
                 expulsados, caida>>

\* The tasks of the patota are copied whole; what is not a text of tasks has none.
CopiarTareas(t) ==
  /\ EnObt(t, "copia") /\ TablaViva(t)
  /\ ~Tomado(Tareas(obt[t].pat))
  /\ LET texto == Leer(Tareas(obt[t].pat)).de IN
       obt' = [obt EXCEPT ![t].pc = "indice",
                          ![t].leidas = IF texto[1] = "tareas" THEN Patotas[texto[2]].tareas
                                                               ELSE 0]
  /\ UNCHANGED <<espacio, tablas, mutex_trip, altas, compactacion, ubica, respuestas,
                 expulsados, caida>>

\* The segment it is found by, its position in the table and its next task are read and
\* the mutex released.  A crew that is no longer there is answered with the copy as it is:
\* from the first task on.
LeerIndice(t) ==
  LET p == obt[t].pat IN
  /\ EnObt(t, "indice") /\ TablaViva(t) /\ SinCandados(t)
  /\ \/ \E j \in DOMAIN tabla[p] :
          /\ PrimeroEnTabla(t, p, j)
          /\ obt' = [obt EXCEPT ![t].pc = "responde", ![t].indice = j,
                                ![t].tcb = tabla[p][j],
                                ![t].tarea = Leer(tabla[p][j]).tarea]
     \/ Falta(t, p) /\ obt' = [obt EXCEPT ![t].pc = "avanza", ![t].tarea = 0]
  /\ UNCHANGED <<espacio, tablas, mutex_trip, altas, compactacion, ubica, respuestas,
                 expulsados, caida>>

\* There is a task: the mutex, which is not held any more, is released again.
ElegirTarea(t) ==
  /\ EnObt(t, "responde") /\ TablaViva(t) /\ obt[t].tarea < obt[t].leidas
  /\ ~Tomado(Tareas(obt[t].pat))
  /\ obt' = [obt EXCEPT ![t].pc = "avanza"]
  /\ mutex_trip' = mutex_trip \ {obt[t].pat}
  /\ UNCHANGED <<espacio, tablas, altas, compactacion, ubica, respuestas, expulsados, caida>>

\* Mutant: the segment is left as it was.
NoLiberar(s, d) == s

Liberar(s, d) == [s EXCEPT ![d].libre = TRUE]

\* There is none: the segment the crew was found by is freed, with no mutex.
LiberarTripulante(t) ==
  /\ EnObt(t, "responde") /\ TablaViva(t) /\ obt[t].tarea >= obt[t].leidas
  /\ ~Tomado(Tareas(obt[t].pat))
  /\ seg' = Liberar(seg, obt[t].tcb)
  /\ obt' = [obt EXCEPT ![t].pc = "quita"]
  /\ UNCHANGED <<segmentos, memoria, tablas, mutex_trip, altas, compactacion, ubica,
                 respuestas, expulsados, caida>>

Quitar(lista, j) == IF j \in DOMAIN lista THEN RemoveAt(lista, j) ELSE lista

\* Then whatever is now at the place read before leaves the table, with no mutex.
QuitarTripulante(t) ==
  /\ EnObt(t, "quita") /\ TablaViva(t)
  /\ tabla' = [tabla EXCEPT ![obt[t].pat] = Quitar(@, obt[t].indice)]
  /\ obt' = [obt EXCEPT ![t].pc = "revisa"]
  /\ UNCHANGED <<espacio, patotas, liberadas, mutex_trip, altas, compactacion, ubica,
                 respuestas, expulsados, caida>>

\* Once it is off the map, and with no mutex, whether the table is empty is looked at: two
\* crews that have left it may both find it so.  If it is not, the mutex is released again.
RevisarPatota(t) ==
  LET p == obt[t].pat IN
  /\ EnObt(t, "revisa") /\ TablaViva(t)
  /\ IF tabla[p] = <<>>
     THEN obt' = [obt EXCEPT ![t].pc = "borra"] /\ UNCHANGED mutex_trip
     ELSE obt' = [obt EXCEPT ![t].pc = "avanza"] /\ mutex_trip' = mutex_trip \ {p}
  /\ UNCHANGED <<espacio, tablas, altas, compactacion, ubica, respuestas, expulsados, caida>>

\* borrar_patota: the first table whose PCB holds the pid.
BorrarPatota(t) ==
  /\ EnObt(t, "borra") /\ TablaViva(t) /\ TablaDePatotasLibre
  /\ \A i \in DOMAIN patotas : ~Tomado(Pcb(patotas[i]))
  /\ LET con_pid == {i \in DOMAIN patotas :
                       Leer(Pcb(patotas[i])).de = Leer(Pcb(obt[t].pat)).de}
     IN patotas' = IF con_pid = {} THEN patotas
                   ELSE RemoveAt(patotas, Min(con_pid))
  /\ obt' = [obt EXCEPT ![t].pc = "destruye"]
  /\ UNCHANGED <<espacio, tabla, liberadas, mutex_trip, altas, compactacion, ubica,
                 respuestas, expulsados, caida>>

\* Mutant: the text of the tasks keeps its segment.
LiberarSoloPcb(s, p) == [s EXCEPT ![Pcb(p)].libre = TRUE]

LiberarPatota(s, p) == [s EXCEPT ![Pcb(p)].libre = TRUE, ![Tareas(p)].libre = TRUE]

DestruirPatota(t) ==
  /\ EnObt(t, "destruye") /\ TablaViva(t)
  /\ seg' = LiberarPatota(seg, obt[t].pat)
  /\ liberadas' = liberadas \cup {obt[t].pat}
  /\ obt' = [obt EXCEPT ![t].pc = "fin"]
  /\ UNCHANGED <<segmentos, memoria, patotas, tabla, mutex_trip, altas, compactacion, ubica,
                 respuestas, expulsados, caida>>

\* Mutant: the next task is not written.
NoAvanzar(t, p) == memoria

Avanzar(t, p) ==
  [a \in DOMAIN memoria |->
     IF \E j \in DOMAIN tabla[p] : /\ Coincide(t, p, j)
                                   /\ a - seg[tabla[p][j]].inicio \in 0..tam_tcb - 1
     THEN [memoria[a] EXCEPT !.tarea = @ + 1] ELSE memoria[a]]

\* actualizarTareaActual, and the answer leaves.  An empty one ends the crew.
ActualizarTareaActual(t) ==
  LET p == obt[t].pat IN
  /\ EnObt(t, "avanza") /\ TablaViva(t) /\ SinCandados(t) /\ TablaDeSegmentosLibre
  /\ Legible(p, Len(tabla[p]))
  /\ memoria' = Avanzar(t, p)
  /\ IF obt[t].tarea < obt[t].leidas
     THEN /\ respuestas' = [respuestas EXCEPT ![t] = @ + 1]
          /\ obt' = [obt EXCEPT ![t] = SinPedido]
     ELSE UNCHANGED respuestas /\ obt' = [obt EXCEPT ![t].pc = "fin"]
  /\ UNCHANGED <<segmentos, seg, tablas, mutex_trip, altas, compactacion, ubica, expulsados,
                 caida>>

\* A request that goes on with a table somebody freed uses freed memory.
UsaLiberada(t) == obt[t].pc \notin {"libre", "fallo", "fin"} /\ ~TablaViva(t)

UsarTablaLiberada(t) ==
  /\ ~caida /\ UsaLiberada(t)
  /\ caida' = TRUE
  /\ UNCHANGED <<espacio, tablas, mutex_trip, altas, compactacion, ubica, obt, respuestas,
                 expulsados>>

-----------------------------------------------------------------------------
(* EXPULSAR_TRIPULANTE, under the locks of the tables and of the memory.      *)

\* With its last crew the table is freed, and then its mutex released.
ExpulsarTripulante(t) ==
  /\ ~caida /\ t \in Expulsables \ expulsados /\ t[1] \in aceptadas
  /\ TablaDePatotasLibre /\ TablaDeSegmentosLibre
  /\ expulsados' = expulsados \cup {t}
  /\ \/ Desconocido(t) /\ UNCHANGED <<seg, tablas, caida>>
     \/ \E i \in DOMAIN patotas : LET p == patotas[i] IN
          \E j \in DOMAIN tabla[p] : LET sin_tcb == Liberar(seg, tabla[p][j]) IN
            /\ Encontrado(t, i, j) /\ p \notin mutex_trip
            /\ tabla' = [tabla EXCEPT ![p] = RemoveAt(@, j)]
            /\ IF tabla'[p] = <<>>
               THEN /\ seg' = LiberarPatota(sin_tcb, p)
                    /\ liberadas' = liberadas \cup {p}
                    /\ patotas' = RemoveAt(patotas, i)
                    /\ caida' \in BOOLEAN
               ELSE seg' = sin_tcb /\ UNCHANGED <<liberadas, patotas, caida>>
  /\ UNCHANGED <<segmentos, memoria, mutex_trip, altas, compactacion, ubica, obt, respuestas>>

-----------------------------------------------------------------------------
Alta == RecibirPatota \/ AsignarSegmento \/ SinSegmento \/ PublicarPatota
Compactacion == BloquearSegmentos \/ Compactar
Obtener(t) ==
  \/ CopiarTareas(t) \/ LeerIndice(t) \/ ElegirTarea(t)
  \/ LiberarTripulante(t) \/ QuitarTripulante(t) \/ RevisarPatota(t)
  \/ BorrarPatota(t) \/ DestruirPatota(t)
  \/ ActualizarTareaActual(t) \/ UsarTablaLiberada(t)

Next ==
  \/ Alta \/ SenialCompactar \/ Compactacion \/ EscribirUbicacion
  \/ \E t \in Trips : \/ BuscarParaUbicar(t) \/ BuscarPatotaConTid(t) \/ Obtener(t)
                      \/ ExpulsarTripulante(t)

Spec == Init /\ [][Next]_vars

\* The threads that serve a request run; nobody has to send one.
FairSpec ==
  /\ Spec
  /\ WF_vars(Alta) /\ WF_vars(Compactacion) /\ WF_vars(EscribirUbicacion)
  /\ \A t \in Trips : WF_vars(Obtener(t))

-----------------------------------------------------------------------------
(* Properties.                                                               *)

\* A request that has freed a crew's segment and has not ended yet.
Saliendo == {"quita", "revisa", "borra", "destruye"}
FasesObt == {"libre", "copia", "indice", "responde", "avanza", "fallo", "fin"} \cup Saliendo

\* The shape of the state: places within the memory, tables of TCBs, indices of lists.
TypeOK ==
  /\ segmentos \in Seq(Segmentos)
  /\ seg \in [Segmentos -> [inicio : 0..TAMANIO_MEMORIA, tam : 0..TAMANIO_MEMORIA,
                            libre : BOOLEAN]]
  /\ memoria \in [0..TAMANIO_MEMORIA - 1 -> [de : Segmentos, tarea : Nat]]
  /\ patotas \in Seq(Pids) /\ tabla \in [Pids -> Seq(Tcbs)] /\ liberadas \subseteq Pids
  /\ mutex_trip \subseteq Pids
  /\ recibidas \in 0..Len(Patotas) /\ aceptadas \subseteq Pids
  /\ ini.fase \in {"libre", "asigna", "no_deberia_pasar"} /\ ini.faltan \in Seq(Segmentos)
  /\ comp.fase \in {"no", "bloquea"} /\ comp.tomados \in 0..Len(segmentos)
  /\ ubica \in [pat : Pids, tcb : Tcbs] \cup {Nadie}
  /\ \A t \in Trips : /\ obt[t].pc \in FasesObt /\ obt[t].pat \in Pids \cup {0}
                      /\ obt[t].tcb \in Tcbs \cup {Hueco}
  /\ caida \in BOOLEAN

\* The segments of the list tile the memory: each starts where the one before it ends,
\* from the first place to the last, through every split, free and compaction.
Mosaico ==
  LET Hasta(i) == IF i = 0 THEN 0 ELSE seg[segmentos[i]].inicio + seg[segmentos[i]].tam
  IN /\ \A i \in DOMAIN segmentos : seg[segmentos[i]].inicio = Hasta(i - 1)
     /\ Hasta(Len(segmentos)) = TAMANIO_MEMORIA
     /\ IsInjective(segmentos)

\* A patota admitted because the free memory was enough always gets its segments, after
\* a compaction at most: what is freed meanwhile only helps, and nobody else takes any.
SiempreEntra == ini.fase # "no_deberia_pasar"

\* What a patota in the list has stored is in its segments, wherever compactions have
\* taken them: its pid, its tasks, and each crew's TCB until the crew is let go.
ContenidoIntacto ==
  \A i \in DOMAIN patotas :
    LET p == patotas[i]
        suyos == {Pcb(p), Tareas(p)} \cup {d \in ToSet(tabla[p]) : ~seg[d].libre}
    IN \A d \in suyos : \A a \in Lugares(d) : memoria[a].de = d

\* The crews that the memory is kept for: not expelled, and still to be answered.
EnServicio(t) == t \notin expulsados /\ obt[t].pc \notin {"fallo", "fin"}

\* A crew let go at the end of its tasks, from the moment its segment is freed.
HaSalido(t) == \/ obt[t].pc \in Saliendo \cup {"fin"}
               \/ obt[t].pc = "avanza" /\ obt[t].tarea >= obt[t].leidas

\* Memory in use has a user, however many crews are expelled: the patota being created, or
\* in the list with a crew in service, each TCB its own crew, in its table; the PCB and the
\* tasks also a thread that is letting the last crew go.  Not so once a crew has been let go
\* at the end of its tasks if another was too, or if any was expelled, itself perhaps: the
\* place that was read before takes a third out of the table, whose TCB nobody frees.
SinFugas ==
  (\A t \in Trips : HaSalido(t) => expulsados = {} /\ \A u \in Trips \ {t} : ~HaSalido(u)) =>
    \A d \in EnUso :
      \/ d[2] = ini.pid
      \/ d[2] \in ToSet(patotas) /\ \E t \in Trips :
           t[1] = d[2] /\ EnServicio(t) /\ (d \in Tcbs => d = Tcb(t) /\ d \in ToSet(tabla[t[1]]))
      \/ d \notin Tcbs /\ \E t \in Trips : obt[t].pat = d[2] /\ obt[t].pc \in Saliendo

\* The PCB and the tasks of a patota are in use only while it is being created, is in the
\* list, or is being deleted: however many of its crews leave at once, by the end of their
\* tasks or expelled, whoever takes it off the list frees them.
PatotaConDuenio ==
  \A p \in Pids : {Pcb(p), Tareas(p)} \cap EnUso # {} =>
    \/ p \in ToSet(patotas) \cup {ini.pid}
    \/ \E t \in Trips : obt[t].pat = p /\ obt[t].pc = "destruye"

\* Until it is expelled a crew is answered with each task of its patota once and in order,
\* its n-th answer being the n-th task, whatever is moved, freed and given meanwhile.  Not
\* so once another crew has been let go at the end of its tasks: between freeing its
\* segment and leaving its table it can be taken for a crew whose TCB comes after it.
TareasEnOrden ==
  \A t \in Trips \ expulsados :
    (\A u \in Trips \ {t} : ~HaSalido(u)) =>
      /\ obt[t].pc # "fallo"
      /\ obt[t].pc \in {"responde", "avanza"} =>
           obt[t].tarea = respuestas[t] /\ obt[t].leidas = Patotas[t[1]].tareas

\* What mi-ram-hq-lib.c:1326 says: a patota left without crews is deleted, so one in the
\* list has a crew that has not been let go, or whose thread is about to delete it.
VaciaSeElimina ==
  \A i \in DOMAIN patotas :
    \/ \E d \in ToSet(tabla[patotas[i]]) : ~seg[d].libre
    \/ \E t \in Trips : obt[t].pat = patotas[i] /\ obt[t].pc \in Saliendo

\* What README.md says of SIGUSR1: the compaction asked for is made.
SenialCompacta == (comp.fase = "bloquea") ~> (comp.fase = "no")

====
