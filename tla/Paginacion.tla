----------------------------- MODULE Paginacion -----------------------------
(***************************************************************************)
(* Mi-RAM-HQ under paging: frames, frames of swap, the pages of each patota *)
(* and the queue of their uses, with LRU or CLOCK.                         *)
(*                                                                         *)
(* ACTUALIZAR_UBICACION, ACTUALIZAR_ESTADO and OBTENER_PROXIMA_TAREA find   *)
(* the crew's patota and then take mutex_no_reemplazar for a list of        *)
(* accesses to its pages; INICIAR_PATOTA and EXPULSAR_TRIPULANTE do not     *)
(* take it.  An action is one access, or half of one where another thread   *)
(* may come in: between getting a frame and installing the page in it, and  *)
(* between finding a page in the queue and taking it out.                   *)
(***************************************************************************)
EXTENDS Integers, SequencesExt

CONSTANTS
  TAMANIO_PAGINA, CantFrames, CantSwap,
  Algoritmos,      \* values of ALGORITMO_REEMPLAZO: "LRU", "CLOCK"
  Patotas,         \* the INICIAR_PATOTA requests, in order: records [cantidad of crews,
                   \* tareas: the size of each task's text]; a pid is a place here
  Avisados,        \* bound: the crews whose changes of estado are told
  Expulsables,     \* bound: the crews somebody may expel
  Solapadas,       \* bound: may the requests that do not take mutex_no_reemplazar come
                   \* while one that has it is served, and a crew be expelled at work?
  MaxHilos         \* bound: requests that wait for mutex_no_reemplazar

Pids == DOMAIN Patotas
Trips == UNION {{<<p, i>> : i \in 1..Patotas[p].cantidad} : p \in Pids}
Nadie == <<0, 0>>
Ninguna == <<0, 0>>
Frames == 1..CantFrames
Swap == 1..CantSwap

-----------------------------------------------------------------------------
(* A patota is its PCB, the text of its tasks and its TCBs, one after the    *)
(* other, cut into pages.  A page is <<pid, id_pagina>>.                     *)
tam_pcb == 8
tam_tcb == 21

\* The fields of a TCB, by where they start.
tid == 0
estado == 4
pos_x == 5
pos_y == 9
proxima_tarea == 13

\* The text of the first n tasks.
Texto(p, n) == SumFunctionOnSet(Patotas[p].tareas, 1..n)

\* The end of the last task is not stored.
TamanioTareas == [p \in Pids |-> Texto(p, Len(Patotas[p].tareas)) - 1]
Tamanio == [p \in Pids |-> tam_pcb + TamanioTareas[p] + Patotas[p].cantidad * tam_tcb]
CantPaginas == [p \in Pids |-> (Tamanio[p] + TAMANIO_PAGINA - 1) \div TAMANIO_PAGINA]
PaginasDe(p) == {<<p, i>> : i \in 0..CantPaginas[p] - 1}
Paginas == UNION {PaginasDe(p) : p \in Pids}

InicioTcb == [t \in Trips |-> tam_pcb + TamanioTareas[t[1]] + (t[2] - 1) * tam_tcb]
Campo(t, d) == <<t[1], (InicioTcb[t] + d) \div TAMANIO_PAGINA>>

ASSUME ConstantesOK ==
  /\ TAMANIO_PAGINA \in Nat /\ TAMANIO_PAGINA >= tam_tcb
  /\ CantFrames \in Nat \ {0} /\ CantSwap \in Nat
  /\ Algoritmos \subseteq {"LRU", "CLOCK"} /\ Algoritmos # {}
  /\ Patotas \in Seq([cantidad : Nat \ {0}, tareas : Seq(Nat \ {0})])
  /\ Avisados \cup Expulsables \subseteq Trips /\ Solapadas \in BOOLEAN /\ MaxHilos \in Nat \ {0}

\* Bound: the end of a page cuts no field of four bytes that is read or written.
ASSUME CamposEnteros ==
  \A t \in Trips : \A d \in {tid, pos_x, pos_y, proxima_tarea} :
    (InicioTcb[t] + d) % TAMANIO_PAGINA <= TAMANIO_PAGINA - 4

\* The pages of n bytes of a patota, in order.
Rango(p, desde, n) ==
  LET primera == desde \div TAMANIO_PAGINA
  IN [k \in 1..(desde + n - 1) \div TAMANIO_PAGINA - primera + 1 |-> <<p, primera + k - 1>>]

PaginasTcb(t) == Rango(t[1], InicioTcb[t], tam_tcb)
BytesTcb(t, g) ==
  Cardinality({b \in InicioTcb[t]..InicioTcb[t] + tam_tcb - 1 : g[2] = b \div TAMANIO_PAGINA})

VARIABLES
  algoritmo,     \* ALGORITMO_REEMPLAZO of the configuration
  marco,         \* frames: libre, the page that owns each, and what is in it
  swap,          \* frames of swap: libre and what is in it
  pagina,        \* pages: presente, inicio_memoria (a frame), frame_swap, uso, bytes_usados
  historial,     \* historial_uso_paginas: pages with their frames, from the oldest use
  puntero,       \* puntero_lista_frames_clock
  patotas,       \* the list of tables, as pids
  vivos,         \* contador_tripulantes_vivos
  ini,           \* the INICIAR_PATOTA being served, under mutex_tabla_patotas
  recibidas, aceptadas,
  esperan,       \* requests that found their patota and wait for mutex_no_reemplazar
  curso,         \* the request that has it, with the accesses it has still to make
  respuestas,    \* tasks each crew was answered with
  expulsados, idos,  \* crews somebody expelled; crews whose TCB was let go
  perdidos,      \* history: frames of swap whose page was freed and stay taken
  trabada,       \* mutex_tabla_patotas is left taken
  lleno,         \* a victim found no place in swap: the model goes no further
  caida          \* a null or freed pointer was used: the process is gone

memoria == <<marco, swap, pagina, historial, puntero, lleno>>
tablas == <<patotas, vivos>>
altas == <<ini, recibidas, aceptadas>>
bajas == <<expulsados, idos, perdidos, trabada>>
vars == <<algoritmo, memoria, tablas, altas, esperan, curso, respuestas, bajas, caida>>

\* What a page holds: whose data it is, and the next task of the TCBs in it.
Dato(g) == [de |-> g, prox |-> [t \in Trips |-> 0]]
SinAlta == [pid |-> 0, sigue |-> 0, frame |-> 0]
SinCurso == [t |-> Nadie, op |-> "no", pasos |-> <<>>, frame |-> 0, indice |-> 0, tarea |-> 0]

Init ==
  /\ algoritmo \in Algoritmos
  /\ marco = [f \in Frames |-> [libre |-> TRUE, de |-> Ninguna, dato |-> Dato(Ninguna)]]
  /\ swap = [s \in Swap |-> [libre |-> TRUE, dato |-> Dato(Ninguna)]]
  /\ pagina = [g \in Paginas |-> [presente |-> FALSE, frame |-> 0, swap |-> 0, uso |-> FALSE,
                                  usados |-> 0]]
  /\ historial = <<>> /\ puntero = 1
  /\ patotas = <<>> /\ vivos = [p \in Pids |-> Patotas[p].cantidad]
  /\ ini = SinAlta /\ recibidas = 0 /\ aceptadas = {}
  /\ esperan = {} /\ curso = SinCurso
  /\ respuestas = [t \in Trips |-> 0]
  /\ expulsados = {} /\ idos = {} /\ perdidos = {}
  /\ trabada = FALSE /\ lleno = FALSE /\ caida = FALSE

Andando == ~caida /\ ~lleno
TablaDePatotasLibre == ini = SinAlta /\ ~trabada
NadieReemplaza == Solapadas \/ curso = SinCurso

-----------------------------------------------------------------------------
(* Getting a frame.                                                          *)
FramesLibres == {f \in Frames : marco[f].libre}
SwapLibre == {s \in Swap : swap[s].libre}

\* Mutant: the frame of swap is not marked as taken.
DesalojarSinMarcar(g, paginas) ==
  LET s == Min(SwapLibre) IN
  /\ SwapLibre # {} /\ UNCHANGED lleno
  /\ swap' = [swap EXCEPT ![s].dato = marco[paginas[g].frame].dato]
  /\ pagina' = [paginas EXCEPT ![g].presente = FALSE, ![g].frame = 0, ![g].swap = s]

\* actualizar_pagina: the victim goes to the first free frame of swap.  With none it
\* stays as it is, except that CLOCK says it is not present.  Whoever uses the victim has
\* its mutex.
Desalojar(g, paginas) ==
  /\ ~(curso.indice # 0 /\ Head(curso.pasos).pag = g)
  /\ IF SwapLibre = {}
     THEN /\ pagina' = [paginas EXCEPT ![g].presente = algoritmo = "LRU"]
          /\ lleno' = TRUE /\ UNCHANGED swap
     ELSE LET s == Min(SwapLibre) IN
          /\ pagina' = [paginas EXCEPT ![g].presente = FALSE, ![g].frame = 0, ![g].swap = s]
          /\ swap' = [swap EXCEPT ![s] = [libre |-> FALSE, dato |-> marco[paginas[g].frame].dato]]
          /\ UNCHANGED lleno

\* Mutant: the pointer does not go back to the first frame.
SiguienteSinVuelta(f) == f + 1

Siguiente(f) == (f % CantFrames) + 1

\* The page used longest ago.
SustituirLRU(f) ==
  /\ f = Head(historial).frame
  /\ Desalojar(Head(historial).pagina, pagina)
  /\ historial' = Tail(historial) /\ UNCHANGED puntero

\* The first page from the pointer on without uso, which those passed over lose; when all
\* had it, the one at the pointer.
SustituirCLOCK(f) ==
  LET Lugar(k) == ((puntero - 1 + k) % CantFrames) + 1
      sin_uso == {k \in 0..CantFrames - 1 : ~pagina[marco[Lugar(k)].de].uso}
      k == IF sin_uso = {} THEN 0 ELSE Min(sin_uso)
      pasados == {marco[Lugar(j)].de : j \in {j \in 0..CantFrames - 1 : sin_uso = {} \/ j < k}}
  IN /\ f = Lugar(k)
     /\ Desalojar(marco[f].de, [g \in Paginas |-> [pagina[g] EXCEPT !.uso = @ /\ g \notin pasados]])
     /\ puntero' = Siguiente(f) /\ UNCHANGED historial

\* buscar_frame_libre, which does not mark the frame it finds, or the victim's.
Conseguir(f) ==
  IF FramesLibres # {}
  THEN f = Min(FramesLibres) /\ UNCHANGED <<swap, pagina, historial, puntero, lleno>>
  ELSE IF algoritmo = "LRU" THEN SustituirLRU(f) ELSE SustituirCLOCK(f)

\* A list without what is at some places.
Salvo(s, sacados) ==
  LET quedan == DOMAIN s \ sacados
  IN [k \in 1..Cardinality(quedan) |->
        s[CHOOSE i \in quedan : Cardinality({j \in quedan : j < i}) = k - 1]]

\* The page is the last used.  The entries CLOCK leaves behind are of frames that have a
\* newer one, and are looked for by frame: one per frame is kept.
Anotar(h, g, f) ==
  Append(IF algoritmo = "LRU" THEN h ELSE Salvo(h, {i \in DOMAIN h : h[i].frame = f}),
         [pagina |-> g, frame |-> f])

\* Mutant: the owner's pid is not looked at.
EntradasDeCualquiera(g) == {i \in DOMAIN historial : marco[historial[i].frame].de[2] = g[2]}

\* buscar_frame_y_pagina_con_tid_pid looks at who owns the frame of each entry.
Entradas(g) == {i \in DOMAIN historial : marco[historial[i].frame].de = g}

-----------------------------------------------------------------------------
(* INICIAR_PATOTA.                                                           *)

\* Mutant: the last page, which is not full, is not counted.
EntraDeMas(p) == Tamanio[p] \div TAMANIO_PAGINA <= Cardinality(FramesLibres) + Cardinality(SwapLibre)

Entra(p) == CantPaginas[p] <= Cardinality(FramesLibres) + Cardinality(SwapLibre)

\* Rejected, or its pages are loaded one by one.
RecibirPatota ==
  LET p == recibidas + 1 IN
  /\ Andando /\ TablaDePatotasLibre /\ NadieReemplaza
  /\ recibidas < Len(Patotas)
  /\ recibidas' = p
  /\ IF Entra(p)
     THEN /\ patotas' = Append(patotas, p) /\ aceptadas' = aceptadas \cup {p}
          /\ ini' = [SinAlta EXCEPT !.pid = p]
     ELSE UNCHANGED <<patotas, aceptadas, ini>>
  /\ UNCHANGED <<algoritmo, memoria, vivos, esperan, curso, respuestas, bajas, caida>>

ConseguirParaAlta ==
  /\ Andando /\ ini # SinAlta /\ ini.frame = 0
  /\ \E f \in Frames : Conseguir(f) /\ ini' = [ini EXCEPT !.frame = f]
  /\ UNCHANGED <<algoritmo, marco, tablas, recibidas, aceptadas, esperan, curso, respuestas,
                 bajas, caida>>

BytesUsados(g) ==
  IF g[2] = CantPaginas[g[1]] - 1 THEN Tamanio[g[1]] - g[2] * TAMANIO_PAGINA
                                  ELSE TAMANIO_PAGINA

InstalarParaAlta ==
  LET g == <<ini.pid, ini.sigue>>
      f == ini.frame
  IN /\ Andando /\ ini.frame # 0
     /\ pagina' = [pagina EXCEPT ![g] = [presente |-> TRUE, frame |-> f, swap |-> 0,
                                         uso |-> TRUE, usados |-> BytesUsados(g)]]
     /\ marco' = [marco EXCEPT ![f] = [libre |-> FALSE, de |-> g, dato |-> Dato(g)]]
     /\ historial' = Anotar(historial, g, f)
     /\ ini' = IF ini.sigue + 1 = CantPaginas[ini.pid] THEN SinAlta
               ELSE [ini EXCEPT !.sigue = @ + 1, !.frame = 0]
     /\ UNCHANGED <<algoritmo, swap, puntero, lleno, tablas, recibidas, aceptadas, esperan,
                    curso, respuestas, bajas, caida>>

-----------------------------------------------------------------------------
(* buscar_patota_con_tid_paginacion: the tids are read one by one, in memory *)
(* or in swap, until the one looked for.                                     *)
Guardado(g) == IF pagina[g].presente THEN marco[pagina[g].frame].dato ELSE swap[pagina[g].swap].dato
Ilegible(g) == ~pagina[g].presente /\ pagina[g].swap = 0

Conocidos == {t \in Trips : t[1] \in ToSet(patotas)}
Antes(u, t) ==
  LET Orden(p) == CHOOSE i \in DOMAIN patotas : patotas[i] = p
  IN Orden(u[1]) < Orden(t[1]) \/ (u[1] = t[1] /\ u[2] <= t[2])

Hallado(t) == t \in Conocidos /\ Guardado(Campo(t, tid)).de = Campo(t, tid)

\* The TCB of a crew that left is still read, wherever its page was.
LeeUnNulo(t) ==
  \E u \in Conocidos : /\ Ilegible(Campo(u, tid))
                       /\ t \in Conocidos => Antes(u, t)

\* A crew has one request at a time, and the Discordiador tells of its changes of state
\* meanwhile, up to the end of its tasks.
PideElTripulante == {"ubicacion", "obtener"}
EnServicio(t, ops) == \/ \E op \in ops : <<t, op>> \in esperan
                      \/ curso.t = t /\ curso.op \in ops
SinTareas(t) == respuestas[t] = Len(Patotas[t[1]].tareas)

PuedePedir(t, op) ==
  /\ t[1] \in aceptadas /\ t \notin idos \cup expulsados
  /\ ~EnServicio(t, IF op = "estado" THEN {op} ELSE PideElTripulante)
  /\ CASE op = "ubicacion" -> respuestas[t] > 0
       [] op = "obtener" -> SinTareas(t) => ~EnServicio(t, {"estado"})
       [] op = "estado" -> t \in Avisados /\ (SinTareas(t) => ~EnServicio(t, {"obtener"}))

\* Nobody knows the crew: the answer is RESPUESTA_FAIL, a constant text that
\* OBTENER_PROXIMA_TAREA frees.
Buscar(t, op) ==
  /\ Andando /\ TablaDePatotasLibre
  /\ PuedePedir(t, op) /\ Cardinality(esperan) < MaxHilos
  /\ IF ~LeeUnNulo(t) /\ Hallado(t)
     THEN esperan' = esperan \cup {<<t, op>>} /\ UNCHANGED caida
     ELSE caida' = (LeeUnNulo(t) \/ op = "obtener") /\ UNCHANGED esperan
  /\ UNCHANGED <<algoritmo, memoria, tablas, altas, curso, respuestas, bajas>>

-----------------------------------------------------------------------------
(* What a request does to the pages, under mutex_no_reemplazar.              *)
Paso(modo, g) == [modo |-> modo, pag |-> g]
Pasos(modo, gs) == [i \in DOMAIN gs |-> Paso(modo, gs[i])]

\* leer_un_uint32_a_partir_de_indice does not look whether the page is in memory.
AccesosUbicacion(t) ==
  << Paso("lee", Campo(t, pos_x)), Paso("usa", Campo(t, pos_x)),
     Paso("lee", Campo(t, pos_y)), Paso("usa", Campo(t, pos_y)) >>

AccesosEstado(t) == << Paso("usa", Campo(t, estado)) >>

AccesosObtener(t) ==
  << Paso("tarea", Campo(t, proxima_tarea)), Paso("avanza", Campo(t, proxima_tarea)) >>

Accesos(t, op) ==
  Pasos("trae", PaginasTcb(t)) \o
    CASE op = "ubicacion" -> AccesosUbicacion(t)
      [] op = "estado" -> AccesosEstado(t)
      [] op = "obtener" -> AccesosObtener(t)

\* The text of the n-th task from 0 on; after the last one the crew leaves.
AccesosDeTarea(t, n) ==
  LET tareas == Patotas[t[1]].tareas IN
  IF n < Len(tareas)
  THEN Pasos("usa", Rango(t[1], tam_pcb + Texto(t[1], n), tareas[n + 1]))
  ELSE << Paso("fin", Campo(t, tid)) >>

TomarNoReemplazar(t, op) ==
  /\ Andando /\ curso = SinCurso /\ <<t, op>> \in esperan
  /\ Solapadas \/ ini = SinAlta
  /\ esperan' = esperan \ {<<t, op>>}
  /\ IF t \in Conocidos
     THEN curso' = [SinCurso EXCEPT !.t = t, !.op = op, !.pasos = Accesos(t, op)]
          /\ UNCHANGED caida
     ELSE caida' = TRUE /\ UNCHANGED curso
  /\ UNCHANGED <<algoritmo, memoria, tablas, altas, respuestas, bajas>>

EnPaso(modos) == Andando /\ curso.pasos # <<>> /\ Head(curso.pasos).modo \in modos
Pag == Head(curso.pasos).pag
Hecho == [curso EXCEPT !.pasos = Tail(@), !.frame = 0, !.indice = 0]
Usan == {"usa", "tarea", "avanza"}

\* Mutant: the next task is not written.
NoAvanzar(marcos, f) == marcos

\* The next task goes into the TCB.
Avanzar(marcos, f) == [marcos EXCEPT ![f].dato.prox[curso.t] = curso.tarea + 1]

\* The access itself, to a page that is in frame f.
Acceder(marcos, f) ==
  /\ marco' = IF Head(curso.pasos).modo = "avanza" THEN Avanzar(marcos, f) ELSE marcos
  /\ curso' = CASE Head(curso.pasos).modo = "tarea" -> [Hecho EXCEPT !.tarea = marcos[f].dato.prox[curso.t]]
                [] Head(curso.pasos).modo = "avanza" -> [Hecho EXCEPT !.pasos = AccesosDeTarea(curso.t, curso.tarea)]
                [] OTHER -> Hecho

\* A page fault gets a frame.
ConseguirMarco ==
  /\ EnPaso(Usan \cup {"trae"}) /\ ~pagina[Pag].presente /\ curso.frame = 0
  /\ \E f \in Frames : Conseguir(f) /\ curso' = [curso EXCEPT !.frame = f]
  /\ UNCHANGED <<algoritmo, marco, tablas, altas, esperan, respuestas, bajas, caida>>

\* The page is copied from swap, whose frame is free again.
InstalarPagina ==
  LET f == curso.frame
      s == pagina[Pag].swap
  IN /\ EnPaso(Usan \cup {"trae"}) /\ f # 0
     /\ IF s = 0 THEN caida' = TRUE /\ UNCHANGED <<memoria, curso>>
        ELSE /\ pagina' = [pagina EXCEPT ![Pag].presente = TRUE, ![Pag].frame = f, ![Pag].uso = TRUE]
             /\ swap' = [swap EXCEPT ![s].libre = TRUE]
             /\ historial' = Anotar(historial, Pag, f)
             /\ Acceder([marco EXCEPT ![f] = [libre |-> FALSE, de |-> Pag, dato |-> swap[s].dato]], f)
             /\ UNCHANGED <<puntero, lleno, caida>>
     /\ UNCHANGED <<algoritmo, tablas, altas, esperan, respuestas, bajas>>

\* traerme_todo_el_tcb_a_memoria leaves a page that is there where it is in the queue.
TraerPresente ==
  /\ EnPaso({"trae"}) /\ pagina[Pag].presente
  /\ curso' = Hecho
  /\ UNCHANGED <<algoritmo, memoria, tablas, altas, esperan, respuestas, bajas, caida>>

Leer ==
  /\ EnPaso({"lee"})
  /\ curso' = Hecho
  /\ caida' = (pagina[Pag].frame = 0)
  /\ UNCHANGED <<algoritmo, memoria, tablas, altas, esperan, respuestas, bajas>>

\* A page in memory is looked for in the queue, and mutex_lru released.
BuscarEnHistorial ==
  /\ EnPaso(Usan) /\ pagina[Pag].presente /\ curso.frame = 0 /\ curso.indice = 0
  /\ IF Entradas(Pag) = {} THEN caida' = TRUE /\ UNCHANGED curso
     ELSE curso' = [curso EXCEPT !.indice = Min(Entradas(Pag))] /\ UNCHANGED caida
  /\ UNCHANGED <<algoritmo, memoria, tablas, altas, esperan, respuestas, bajas>>

\* Then whatever is at that place goes to the end, and the page is used.
UsarPagina ==
  LET i == curso.indice IN
  /\ EnPaso(Usan) /\ i # 0
  /\ IF i \notin DOMAIN historial THEN caida' = TRUE /\ UNCHANGED <<marco, pagina, historial, curso>>
     ELSE /\ historial' = Append(Salvo(historial, {i}), historial[i])
          /\ pagina' = [pagina EXCEPT ![Pag].uso = TRUE]
          /\ Acceder(marco, pagina[Pag].frame)
          /\ UNCHANGED caida
  /\ UNCHANGED <<algoritmo, swap, puntero, lleno, tablas, altas, esperan, respuestas, bajas>>

\* mutex_no_reemplazar is released and the answer leaves.
Responder ==
  /\ Andando /\ curso # SinCurso /\ curso.pasos = <<>>
  /\ curso' = SinCurso
  /\ respuestas' = IF curso.op = "obtener" THEN [respuestas EXCEPT ![curso.t] = @ + 1]
                                           ELSE respuestas
  /\ UNCHANGED <<algoritmo, memoria, tablas, altas, esperan, bajas, caida>>

-----------------------------------------------------------------------------
(* A crew leaves: at the end of its tasks, or by EXPULSAR_TRIPULANTE.         *)
SinUsados(t) == [g \in Paginas |-> IF g[1] = t[1] THEN pagina[g].usados - BytesTcb(t, g)
                                                  ELSE pagina[g].usados]
Vacias(t) == {g \in ToSet(PaginasTcb(t)) : SinUsados(t)[g] = 0}

\* Mutant: the patota's pages keep their frames.
SoltarSoloVacias(t) == {g \in Vacias(t) : pagina[g].presente}

\* The pages that leave memory: those nobody else has bytes in, and with the last crew all.
SueltaMarco(t) ==
  {g \in PaginasDe(t[1]) : pagina[g].presente /\ (g \in Vacias(t) \/ vivos[t[1]] = 1)}

\* Of those in swap only the first leave it.
SueltaSwap(t) == {g \in Vacias(t) : ~pagina[g].presente}
PierdeSwap(t) == {g \in PaginasDe(t[1]) : vivos[t[1]] = 1 /\ ~pagina[g].presente /\ SinUsados(t)[g] > 0}

\* The table goes with the last crew.
Tablas(t) ==
  IF vivos[t[1]] = 1 THEN Salvo(patotas, {i \in DOMAIN patotas : patotas[i] = t[1]}) ELSE patotas

\* expulsar_tripulante_paginacion for a crew that was found.
SoltarTripulante(t) ==
  LET primeras == {Min(Entradas(g)) : g \in SueltaMarco(t)}
      libera == {historial[i].frame : i \in primeras}
  IN IF \/ \E g \in SueltaMarco(t) : Entradas(g) = {}
        \/ \E g \in SueltaSwap(t) : pagina[g].swap = 0
     THEN caida' = TRUE /\ UNCHANGED <<memoria, tablas, idos, perdidos>>
     ELSE /\ marco' = [f \in Frames |-> [marco[f] EXCEPT !.libre = @ \/ f \in libera]]
          /\ swap' = [s \in Swap |-> [swap[s] EXCEPT !.libre = @ \/ \E g \in SueltaSwap(t) : pagina[g].swap = s]]
          /\ pagina' = [g \in Paginas |-> [pagina[g] EXCEPT !.presente = @ /\ g \notin SueltaMarco(t),
                                                            !.usados = SinUsados(t)[g]]]
          /\ historial' = Salvo(historial, primeras)
          /\ vivos' = [vivos EXCEPT ![t[1]] = @ - 1]
          /\ patotas' = Tablas(t)
          /\ perdidos' = perdidos \cup {pagina[g].swap : g \in PierdeSwap(t)}
          /\ idos' = idos \cup {t}
          /\ UNCHANGED <<puntero, lleno, caida>>

\* OBTENER_PROXIMA_TAREA after the last task, still with mutex_no_reemplazar.
TerminarTripulante ==
  /\ EnPaso({"fin"}) /\ TablaDePatotasLibre
  /\ IF LeeUnNulo(curso.t) THEN caida' = TRUE /\ UNCHANGED <<memoria, tablas, idos, perdidos>>
                           ELSE SoltarTripulante(curso.t)
  /\ curso' = SinCurso
  /\ UNCHANGED <<algoritmo, altas, esperan, respuestas, expulsados, trabada>>

\* Of a crew nobody knows mutex_tabla_patotas is not released.
ExpulsarTripulante(t) ==
  /\ Andando /\ TablaDePatotasLibre /\ NadieReemplaza
  /\ t \in Expulsables \ expulsados /\ t[1] \in aceptadas
  /\ Solapadas \/ (t \notin idos /\ ~EnServicio(t, PideElTripulante \cup {"estado"}))
  /\ expulsados' = expulsados \cup {t}
  /\ IF LeeUnNulo(t) THEN caida' = TRUE /\ UNCHANGED <<memoria, tablas, idos, perdidos, trabada>>
     ELSE IF Hallado(t) THEN SoltarTripulante(t) /\ UNCHANGED trabada
     ELSE trabada' = TRUE /\ UNCHANGED <<memoria, tablas, idos, perdidos, caida>>
  /\ UNCHANGED <<algoritmo, altas, esperan, curso, respuestas>>

-----------------------------------------------------------------------------
Alta == RecibirPatota \/ ConseguirParaAlta \/ InstalarParaAlta
Servir ==
  \/ ConseguirMarco \/ InstalarPagina \/ TraerPresente \/ Leer
  \/ BuscarEnHistorial \/ UsarPagina \/ Responder \/ TerminarTripulante

Next ==
  \/ Alta \/ Servir
  \/ \E t \in Trips : \/ \E op \in PideElTripulante \cup {"estado"} :
                           Buscar(t, op) \/ TomarNoReemplazar(t, op)
                      \/ ExpulsarTripulante(t)

Spec == Init /\ [][Next]_vars

-----------------------------------------------------------------------------
(* Properties.                                                               *)

Datos == [de : Paginas \cup {Ninguna}, prox : [Trips -> Nat]]

\* The shape of the state: frames, pages that name them, and what the requests refer to.
TypeOK ==
  /\ algoritmo \in Algoritmos /\ puntero \in Frames
  /\ marco \in [Frames -> [libre : BOOLEAN, de : Paginas \cup {Ninguna}, dato : Datos]]
  /\ swap \in [Swap -> [libre : BOOLEAN, dato : Datos]]
  /\ pagina \in [Paginas -> [presente : BOOLEAN, frame : Frames \cup {0}, swap : Swap \cup {0},
                             uso : BOOLEAN, usados : 0..TAMANIO_PAGINA]]
  /\ historial \in Seq([pagina : Paginas, frame : Frames])
  /\ patotas \in Seq(Pids) /\ vivos \in [Pids -> Nat]
  /\ ini.pid \in Pids \cup {0} /\ ini.frame \in Frames \cup {0}
  /\ recibidas \in 0..Len(Patotas) /\ aceptadas \subseteq Pids
  /\ \A e \in esperan : e[1] \in Trips
  /\ curso.t \in Trips \cup {Nadie} /\ curso.frame \in Frames \cup {0}
  /\ respuestas \in [Trips -> Nat]
  /\ expulsados \subseteq Trips /\ idos \subseteq Trips /\ perdidos \subseteq Swap
  /\ trabada \in BOOLEAN /\ lleno \in BOOLEAN /\ caida \in BOOLEAN

\* A page that is in memory has a frame, which is its own and in the queue: what
\* mi-ram-hq-lib.c:2796 logs as an error, a page present that no frame is of, cannot be.
PresenteConMarco ==
  ~lleno => \A g \in Paginas : pagina[g].presente =>
    /\ ~marco[pagina[g].frame].libre /\ marco[pagina[g].frame].de = g
    /\ Entradas(g) # {}

\* The pages loaded of a patota in the list, less those nobody has bytes in.
Vivas == {g \in Paginas : g[1] \in ToSet(patotas) /\ pagina[g].usados > 0}

\* A page that is not in memory is in a frame of swap marked as taken, with its own data,
\* that no other page is in: evictions and faults never put two pages in one, nor free
\* one before its page is back.
CopiaEnSwap ==
  ~lleno => \A g \in Vivas : ~pagina[g].presente =>
    LET s == pagina[g].swap
    IN /\ s # 0 /\ ~swap[s].libre /\ swap[s].dato.de = g
       /\ \A h \in Vivas \ {g} : pagina[h].presente \/ pagina[h].swap # s

\* A frame in use is of a page in memory, or of one that was just sent to swap for the
\* page that is coming; a frame of swap in use, of a page there, or of one whose patota
\* ended while it was there, which is not freed.
SinFugas ==
  ~lleno =>
    /\ \A f \in Frames : ~marco[f].libre =>
         \/ marco[f].de \in Vivas /\ pagina[marco[f].de].presente
         \/ f \in {ini.frame, curso.frame}
    /\ \A s \in Swap : ~swap[s].libre =>
         s \in perdidos \/ \E g \in Vivas : ~pagina[g].presente /\ pagina[g].swap = s

\* A victim finds no place in swap only when the pages that were admitted, with the frames
\* of swap that were lost, are as many as there are frames of both kinds.
VictimaConLugar ==
  lleno => LET admitidas == {g \in Paginas : g[1] \in ToSet(patotas)
                                            /\ (pagina[g].usados > 0 \/ g[1] = ini.pid)}
           IN Cardinality(admitidas) + Cardinality(perdidos) = CantFrames + CantSwap

\* Where the code would find the data of a page.
Donde(g) == IF pagina[g].frame # 0 THEN marco[pagina[g].frame].dato
            ELSE IF pagina[g].swap # 0 THEN swap[pagina[g].swap].dato ELSE Dato(g)

Plana == INSTANCE Memoria WITH
  CantTripulantes <- [p \in Pids |-> Patotas[p].cantidad],
  CantTareas <- [p \in Pids |-> Len(Patotas[p].tareas)],
  vivas <- ToSet(patotas),
  prox <- [t \in Trips |-> IF t \in Conocidos \ idos THEN Donde(Campo(t, proxima_tarea)).prox[t] ELSE 0]

\* Whatever is brought, evicted and freed, each crew finds its next task where it left it
\* and is answered with every task of its patota once and in order.
ImplementaMemoria == Plana!MSpec

====
