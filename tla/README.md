# A TLA+ model of A-MongOS

The repository is a distributed system of three processes written in C
(`src/discordiador`, `src/mi-ram-hq`, `src/i-mongo-store`) and a library they
share (`src/shared`). Crews (*tripulantes*), in groups (*patotas*), perform the
tasks of a file; the Discordiador schedules them as an operating system
schedules threads, Mi-RAM-HQ keeps their memory, I-Mongo-Store keeps the files
their tasks produce and calls for help when its file system is sabotaged.

## 1. Inventory

| Component | State it keeps | Operations | Hard behaviour |
|---|---|---|---|
| Discordiador: scheduler (`discordiador.c`, `funciones_de_consola.c`, `consola.c`) | lists of new, ready, exec and block; one counting semaphore per list; a semaphore per pausable thread; per crew `estado`, `expulsado`, `sem_tri`, `procesador`, its task | console commands; creation of crews; long-term planner; one thread per processor (FIFO or RR); the I/O device; one thread per crew | all of it runs at once in one process; pause and resume through flags read without a lock; expulsion found by whoever looks first |
| Discordiador: sabotage (`manejar_sabotaje`) | `sabotaje`, `cola_sabotaje`, `sem_sabotaje`, `sem_sabotaje_fin` | attend one sabotage | empties and rebuilds exec and ready, overwrites the task of a crew, ends by starting the planning as the user does; its synchronisation is a `sleep` |
| Mi-RAM-HQ: segmentation (`mi-ram-hq-lib.c`) | the list of segments, the segment tables of the patotas, the memory | create a patota, next task, move, change of state, expel; compaction on a signal | one thread per request; two levels of locks; an index read before an unlock and used after it |
| Mi-RAM-HQ: paging (`mi-ram-hq-lib.c`) | frames, swap frames, page tables, LRU/CLOCK bookkeeping | the same, with page faults | page-in when memory and swap are full; victims chosen from a history that others change |
| Mi-RAM-HQ: dump and map | none of its own | print the memory, draw the crews | signal handlers that take locks |
| I-Mongo-Store: files (`i-mongo-store-lib.c`) | superblock, bitmap, blocks, the metadata of each resource and log | generate, consume, discard a resource; append to the log of a crew; copy the blocks to the disk; start again on what is there | blocks found by arithmetic on their numbers; bitmap and metadata on the disk at once, blocks every so often |
| I-Mongo-Store: fsck | the same files, `estoy_saboteado`, `bloque_corrupto` | find and repair five kinds of sabotage | logs are written while the files are wrong; stops at the first repair |
| `src/shared` | none | messages to and from bytes | - |
| `src/alterador` | none | writes another count of blocks in the superblock, to test the fsck | - |

How they interact: every request opens a connection of its own, is served by a
detached thread, and most are not answered. The Discordiador asks Mi-RAM-HQ to
admit a patota, for the next task of a crew, and tells it of positions, states
and expulsions; it tells I-Mongo-Store of movements and of tasks begun and
ended. I-Mongo-Store calls the Discordiador on a sabotage.

What makes each part correct:

* scheduler: a crew is in one place; nobody runs without a token or waits for
  ever with one; each cycle granted is answered once, to who granted it; a crew
  leaves by EXIT with its tasks done or by expulsion, once;
* sabotage: only the crew chosen runs, it is the nearest one, it takes its task
  up where it left it, and everybody else goes back to ready;
* segmentation: the segments tile the memory, no crew reads another's task,
  compaction moves segments and never loses one;
* paging: a frame belongs to one page, a page is in memory or in swap, and the
  victim is the one the algorithm names;
* files: a block belongs to one file, the bitmap says so, and a resource is as
  large as what was generated less what was consumed;
* fsck: after a repair the file system is again as above.

The hazards of `PROJECT.json` list where each of these could go wrong.

## 2. Plan

1. `Planificador`: the scheduler, the largest concurrent part and the one
   every other answers to. **Done**, with `PlanificadorProofs`
   and `FichasProofs`.
2. `Sabotaje`, which EXTENDS it with the thread that attends a sabotage. **Done.**
3. `Segmentacion`: Mi-RAM-HQ under segmentation, with the interleavings its locks
   allow. **Done**, less the state and the place kept in a TCB.
4. `Archivos`: the files of I-Mongo-Store, and `Deposito`, the count of characters
   each file is, which it implements. **Done.**
5. `Paginacion`: frames, swap and page tables, with LRU and CLOCK. **Done**, with
   `PaginacionProofs` and `MemoriaProofs`.
6. `Fsck`, on top of `Archivos`, with the MD5, the sabotage and the five repairs, and
   `Reinicio`, on top of it, with the restart from a disk that is behind the metadata.
   **Done**, less a fall in the middle of a request.
7. Abstract specifications: `Memoria`, what a memory manager promises, implemented by
   `Paginacion` (**done**); the five-state life of a crew, which
   `Planificador` has as an action property (`DiagramaDeEstados`, **done**); `Memoria` under `Segmentacion`. A composition of the Discordiador
   with Mi-RAM-HQ, for what an expulsion told twice or a task asked for too late does
   on the other side.
8. Theorems. **Done**: for the scheduler type correctness, a crew in one place, the
   tokens of ready, the quantum, single cycles (`CicloUnico`), the state against the list
   (`ColaCoherente`), the way out (`SalidaConExit`) and, with one processor, `ExpulsionUnica`
   and `DiagramaDeEstados`; the segments (`Mosaico`, `SiempreEntra`, `ContenidoIntacto`), the
   owner of a patota's PCB and tasks (`PatotaConDuenio`) and the tasks of a crew (`TareasEnOrden`);
   the owners of the blocks, before and after a sabotage; what is in the blocks and in the
   metadata until there is one, and that `Archivos` implements `Deposito`; frames with one
   page (`PresenteConMarco`), pages with one place in swap (`CopiaEnSwap`), no leaks
   (`SinFugas`), a place for each victim (`VictimaConLugar`), and that
   `Paginacion` implements `Memoria`; the tokens after a sabotage (`FichasTrasSabotaje`).
   Not done: what the fsck leaves, and the remaining refinement of 7.

## 3. What is modelled: `Planificador`

The threads of the Discordiador, and what they share:

| Code | Model |
|---|---|
| a thread's place in its loop | `pc[h]`, `pc_trip[t]`, `lote.fase` |
| its local `tripulante` | `mano[h]`; the crew it is expelling, `victima[h]` |
| the lists `cola_de_*` | sequences of ids |
| `sem_contador_cola_de_*`, `operacion_entrada_salida_finalizada` | naturals `sem_new`, `sem_ready`, `sem_block`, `es_finalizada` |
| `sem_procesador`, `sem_planificador_a_largo_plazo`, `sem_hilo_de_bloqueados` | `sem_pausa[h]` |
| `dis_tripulante` | one function per field |
| a task of the file | a record: is it of I/O, where, for how long |
| `hilos_pausables` iterated by `iniciar_planificacion` | `por_reanudar`, visited one by one |
| Mi-RAM-HQ | its answers: admitted or not (`MemoriaConcedida`, `MemoriaDenegada`), the next task (`pendientes`), and for an expelled crew an answer that is no task (`PedirTareaDeExpulsado`) |
| a null pointer read | `caida`: nothing moves afterwards |

An action ends where another thread could change what the next statement sees.
These are joined, as nothing another thread does between them matters: a wait on
`sem_tri` and the cycle that follows it; the planner's write of READY, its append
to ready and its removal from new; an append and the post that follows it (in
`AReady`, `DespacharBloqueado` and `CrearTripulante`); the two posts of
`AvisarReady`; `sem_getvalue` and `sem_post` in `reanudar_hilo`. These are kept
apart, as something does happen between them: the read of
`planificacion_pausada`, the drain and the wait at the gate; removing an expelled
crew under the mutex and writing its `estado` (`SacarExpulsado`,
`TripulanteExpulsado`); choosing a crew and adding it to exec; the two lists
`atender_interrupciones` looks into and the flag it reads after them.

Left out: messages to I-Mongo-Store and `actualizar_estado_miriam`, which change
nothing here; positions and names in the log; `LISTAR_TRIPULANTES`,
`OBTENER_BITACORA` and the exit of the process; a mistyped command. The user
expels crews that exist (`expulsar_tripulante` of another id reads a null
pointer). Task files end with a task of CPU and every task lasts at least a
cycle, as those under `src/discordiador/finales` do: with a last task of I/O no
branch writes EXIT.

## 4. What is modelled: `Sabotaje`

`Sabotaje` EXTENDS `Planificador` and adds the thread that `manejar_sabotaje` runs
on: `pc_sab` is its place, `cola_sabotaje` the crews it gathers,
`elegido` the one it chooses, `sem_sabotaje` and `sem_sabotaje_fin` the semaphores
it crosses with that crew, `cantidad_en_ejecucion` the tokens it owes. `SNext` is the
thread's steps, the crew's two waits on it (`RetomarTarea`), the starts and
expulsions the user may type (`ConsolaEnSabotaje`) and every action of the scheduler.

The code separates the thread from planner, processors and device by a `sleep`: the
model lets the thread go on once each of them is at rest (`Reposo`), that is, takes
the sleep to be long enough. One sabotage at a time, as I-Mongo-Store waits for the
end of one before the next signal is of use; while it lasts the user does not start
the planning, and the runs expel nobody. What remains when these are lifted is among
the hazards.

The list is sorted and keeps its repetitions (`OrdenarPorTid`), as a crew may be in it twice:
with the flag up a processor does not take its crew off exec, and one that used up its quantum
or asks for its I/O goes to ready or to block as well. The run has FIFO and no I/O, where
it does not happen; `FichasTrasSabotaje` is proved with it (section 9).

## 5. What is modelled: `Segmentacion`

| Code | Model |
|---|---|
| `segmentos_memoria` | `segmentos`, a sequence of names; `seg` has each one's `inicio`, `tam`, `libre` |
| `memoria_principal` | `memoria`: for each place, whose data it holds and, in a TCB, the next task |
| `patotas`, `segmentos_tripulantes` | `patotas` (pids in order) and `tabla` |
| a freed table | `liberadas`; a request that goes on with it makes the process fall (`caida`) |
| `mutex_iniciar_patota` with the request it guards | `ini` |
| `mutex_tabla_de_segmentos` and the segments' mutexes during a compaction | `comp` |
| `mutex_tabla_patotas` and the TCB's mutex during ACTUALIZAR_UBICACION | `ubica` |
| `mutex_segmentos_tripulantes` | `mutex_trip` where it is held over several steps |
| the local variables of OBTENER_PROXIMA_TAREA | `obt[t]` |

The sum of some segments is `Espacio` of their set, and the list sorted by a compaction
(`Ordenados`) has each segment at its rank, the number that start before it (`Delante`):
segments in use are never empty, so no two start at one place. The threads that look for
a crew keep the table and the place they found (`Encontrado`, `ubica`), whoever's it is.
A segment is named after what it was given to: a patota asks for each of its segments
once. A free segment keeps the name it had, is split as `libre`, and vanishes in a
compaction, which leaves a single free one (`Hueco`). The state and the place a TCB
keeps are not in the model, so ACTUALIZAR_ESTADO, which only writes there, is not an
action, and of ACTUALIZAR_UBICACION only the locks are. Pids do not repeat, as the
Discordiador numbers them; a move of a segment onto a region it overlaps copies it
whole. When the last crew of a patota is expelled its table and the table's mutex are
freed and that mutex is then unlocked: it may fall or not. While ACTUALIZAR_UBICACION
waits for the PCB it also has `mutex_memoria`; the model lets the other requests go on.

A crew with no task left is let go in steps with no mutex over them, each its own
action: the segment it was found by is freed (`LiberarTripulante`; the request keeps it,
`obt[t].tcb`, as `tripulante_aux` does, whoever's TCB it is by then), the entry at the place
read before leaves the table (`QuitarTripulante`), the table is looked at once the crew is
off the map (`RevisarPatota`), and an empty one is deleted (`BorrarPatota`,
`DestruirPatota`). Two crews may both find it empty: the second deletes a patota that is no
longer there, or uses a table already freed (`UsarTablaLiberada`).

A TCB that was freed and is still in a table is found by whoever searches it, with whatever
the memory holds where it starts. That lasts until a compaction, which locks every segment's
mutex, takes the free ones off the list and releases only those that stay (2380, 2390, 2425):
from then on who reads a table up to that TCB never comes back, with the locks it has
(`Legible`). The expulsion and OBTENER_PROXIMA_TAREA of any crew behind it hang. That the
searches that hang also keep `mutex_memoria` and `mutex_tabla_patotas`, and so stop every other
request, is left out: the model lets the others go on, which only adds behaviours to those that
the safety properties speak of.

## 6. What is modelled: `Paginacion` and `Memoria`

| Code | Model |
|---|---|
| `frames`, `frames_swap` | `marco`, `swap`: free or not, whose, and what is in each |
| `t_pagina` | `pagina`: `presente`, `inicio_memoria` (`frame`), `frame_swap` (`swap`), `uso`, `bytes_usados` (`usados`) |
| `historial_uso_paginas`, `puntero_lista_frames_clock` | `historial`, `puntero` |
| `patotas`, `contador_tripulantes_vivos` | `patotas`, `vivos` |
| INICIAR_PATOTA, under `mutex_tabla_patotas` | `ini` |
| a request that waits for `mutex_no_reemplazar`, and the one that has it | `esperan`, `curso` with the accesses it has still to make |

A patota is its PCB, its tasks' text and its TCBs, one after the other, cut into
pages; sizes are those of the structures (8 and 21 bytes), so where a TCB falls is what the
code computes. What a page holds is its owner and, for a TCB, the next task. An access
is one step when its page is in memory and found in the queue in one and used in another;
a fault is two, `ConseguirMarco` and `InstalarPagina`, as the mutexes of the frame and of the
queue are taken apart. The searches of a patota read every tid before the one looked
for, in memory or in swap (`LeeUnNulo`), as `buscar_patota_con_tid_paginacion` does.

CLOCK never takes anything out of the queue; of the entries of a frame the model keeps the
last, which is all that a search by owner of the frame can tell. A victim that finds no
place in swap ends the behaviour (`lleno`): the code goes on and overwrites it.

`Memoria` is what a memory manager promises whatever its scheme: the patotas it admitted
and, for each crew, a count of tasks that goes up by one and is then answered.
`ImplementaMemoria` maps it to wherever the code would find the TCB's page.

The instance leaves out four things the code does wrong, each listed among the hazards
or here: a patota that arrives, or a crew that is expelled, while another request is served
(`Solapadas`, checked in `paginacion_solapada`); a TCB cut by the end of a page, whose first
half may be evicted by the fault of the second, as `traerme_todo_el_tcb_a_memoria` does
not renew a page that is there and `leer_un_uint32_a_partir_de_indice` reads it through a
null pointer; a patota behind one that has a page of TCBs only, which its searches read
after it was freed; tasks that end exactly where a page does, as the last one is read with
its terminator, which was not stored: the byte after them is of a page of TCBs, which may
have been let go. The fall is in the model (`caida`) wherever the code reads a null pointer; no
property says it never comes, because with those layouts it does. The ASSUME
`CamposEnteros` is another matter: that no page ends inside a field of four bytes of a TCB, as
the model reads a field in one page. The last crew of a patota frees its pages in memory, and of those in
swap only the ones it had emptied: the others' frames of swap are lost (`perdidos`), and
`SinFugas` and `VictimaConLugar` count them.

## 7. What is modelled: `Archivos`, `Deposito`, `Fsck` and `Reinicio`

`bitmap` is the bitmap of the superblock, `contenido` the blocks (each the characters up
to its first `\0`, named after the file they were written for; what comes after is
never read), `metadata` the SIZE and BLOCKS of a file, and `op` the request being served on
it: the mutex of the resource or of the log lets one in at a time, while different
files meet in the bitmap and in the blocks. A thread stops between finding a block and
filling it (`TomarBloque`, `LlenarBloque`), between freeing the last block and writing back
its emptied copy (`LiberarUltimo`, `EscribirCopia`), and between the whole blocks it frees
(`LiberarOtro`); the rest of a request touches nothing of another file and is one step.
Reads and writes outside the blocks or past the list of blocks, and a SIZE below zero,
which `itoa_propio` writes before the start of its text, make the process fall (`caida`). `pisados` is a
history: the files one of whose blocks was emptied by the file that had freed it.

`Deposito` is what a file promises: a count to which a request to write adds its length,
in pieces, and from which one to consume takes its amount, in one step, or one more.
`ImplementaDeposito` says that SIZE, with what remains of the request, does that.

`Fsck` adds what of the metadata only a sabotage can make differ: BLOCK_COUNT (`block_count`),
the count of the superblock (`cantidad`) and MD5 (`md5`, the text it was computed from).
`Sabotear` is somebody editing one of them, SIZE, BLOCKS or the bitmap, and the signal; `fsck`
is how far the attention of it is. The Discordiador pauses the planning while it lasts, so
the other files are at rest, but the crew that comes writes its log before the fsck and
after it, and takes blocks with the bitmap or the lists wrong: `TomarBloqueSaboteado` is
`get_primer_bloque_libre` with `es_el_bloque_corrupto`. `RealizarFsck` is its five checks in
order, until one repairs something; which file comes first is the directory's choice.

A resource with nothing in it has the MD5 "", which is not that of nothing: the fsck takes it
for the sabotaged one, repairs nothing and answers that it did. A bitmap edited by hand, or a
block added to another list, stays as it is (`fsck = "distraido"`): the properties say nothing
of that, and the behaviour ends there.

`Reinicio` adds the copy of the blocks on the disk (`disco`), the loop that writes it
(`Sincronizar`) and the process stopped at rest and started again (`Reiniciar`):
`handler_sigint` does not copy the blocks, and `inicializar_blocks_existente` reads what the
last copy left, while bitmap and metadata are as the last request left them. `perdidos` are
the files served in between: their SIZE counts characters that are not there, which is
what `ContenidoPropio` excepts. That no block has two owners, and that every mark is
somebody's, holds of them too. `previo` keeps of each file the metadata it had before it
was first edited or lost, which is what `ImplementaDeposito` goes on reading for it.

## 8. Runs

| Run | Instance | Shows |
|---|---|---|
| `fifo` | 2 processors (symmetric), 2 crews, an I/O and a CPU task each, both expelled at any moment | `TypeOK`, `UnSoloLugar`, `FichasAlcanzan`, `CicloUnico`, `ColaCoherente`, `SalidaConExit` hold under every interleaving |
| `round_robin` | 1 processor with quantum 2, two patotas of a crew each, one pause, two starts, both expelled | `RafagaUtil`, `ExpulsionUnica`, `DiagramaDeEstados` hold |
| `vida` | 1 processor, two patotas, fair kernel | `TodosSalen`: every crew ends |
| `despertar_perdido` | one crew, one start | `LargoPlazoActua` is violated: the planner sleeps through a start |
| `sabotaje` | 2 processors (symmetric), 2 crews with a CPU task, the second where the sabotage is, one pause, a sabotage of two cycles | `CicloDeSabotaje`, `NadieSePierde`, `FichasTrasSabotaje`, `SoloElElegido` hold |
| `segmentacion` | 9 places, best fit, a patota of two crews and two tasks (6 places) and one of a crew and a task (5), a signal, an expulsion | `TypeOK`, `Mosaico`, `SiempreEntra`, `ContenidoIntacto`, `SinFugas`, `TareasEnOrden`, `PatotaConDuenio` hold |
| `segmentacion_indice` | a patota of two crews | `VaciaSeElimina` is violated: the index of the second is past the end when it is used |
| `segmentacion_senial` | one crew, one signal, fair threads | `SenialCompacta` is violated: two threads take two mutexes in opposite orders |
| `paginacion` | 2 frames, 2 frames of swap, pages of 64 bytes, LRU and CLOCK, three patotas of 2, 1 and 2 pages, the first of two tasks, the first crew's estado told and its expulsion | `TypeOK`, `PresenteConMarco`, `CopiaEnSwap`, `SinFugas`, `VictimaConLugar`, `ImplementaMemoria` hold |
| `paginacion_solapada` | the same with LRU, and a patota that may arrive while a page fault is served | `PresenteConMarco` is violated: both get one frame |
| `archivos` | 8 blocks of 3, a resource and a log, 5 requests that write 1 or 7 and consume 1, 2 or 5; then a sabotage of one thing, or a copy to the disk and a restart | `FTypeOK`, `PropiosSiSano`, `MarcadosSiSano`, `ContenidoPropio`, `MetadataCoherente`, `DevuelveLoQueHabia`, `SabotajeNoContagia`, `ImplementaDeposito` hold |
| `archivos_ajenos` | the same, consuming 7, with neither sabotage nor restart | `BloquesPropios` is violated: a block of another file is freed |

Two processors are what it takes for two threads to look into the same list, and
two crews for one to be overtaken by the other; an I/O task exercises both
semaphores a crew answers on, and a task one place away exercises the walk. One
pause and two starts are what leaves a post behind at the gate. With two
processors an expulsion may race the dispatch of the same crew, and
`DiagramaDeEstados` and `ExpulsionUnica` are stated for one processor only: with
two, a crew found in exec by the other processor can be written BLOCKED_E_S
after EXPULSADO and be expelled again.

In `segmentacion` two crews share a table: they end together or one after the other, one may be
expelled in between, and the table may be found empty twice. The second patota is admitted
when one of them has left (5 places are free), and its TCB only gets a segment after a
compaction: PCB and tasks leave one place in each of the two that were free. Segments are
split to nothing when what is asked for fits exactly, in the middle of the memory and at its
end. `SinFugas` and `TareasEnOrden` say in their antecedents where the code goes wrong: the
place of `segmentacion_indice` is stale when a crew has been let go at the end of its tasks and
another has left too, or the same one was expelled meanwhile, and then a third is taken out of
the table and its TCB never freed. `TareasEnOrden` leaves out the crews that see another let go,
as they may be found through its segment. The other properties hold throughout. Eight blocks are a bitmap of one byte;
five requests of seven characters fill them, and seven is two blocks and a bit. The
consumptions of `archivos` free at most one block besides the last: from two on,
`quitar_de_archivo` goes wrong as `archivos_ajenos` shows. A sabotage comes with two
requests left, which is what the two annotations of the crew that solves it take; every
length of list up to three blocks, full and not, is there to be edited. A restart comes
after one copy made while something was being served, so that files are both behind and
up to date on the disk.

Two frames and five pages make every patota but the first evict, and its crews fault at
every request; the third patota is turned away unless another has left. The tasks, two of the first patota and one of
the others, are in one page or across two, so an eviction may fall between reading the text and
advancing the count, and between one task and the next.

`CHECK_DEADLOCK FALSE`: a system whose crews have all left, or whose user types
nothing more, stops.

Fairness (`FairSpec` of `Planificador`): the kernel schedules each thread that can run, so every
thread has weak fairness; the console has none, as nobody makes the user type.
Semaphores need no strong fairness here: with one processor each is waited on by
one thread. `TodosSalen` is stated for behaviours in which the planning ends up
running, no null pointer was read, and no thread was lost to a start it slept
through (`Varado`) or to a crew whose thread had ended (`Colgado`): these are the
hazards the code really has, listed one by one in `PROJECT.json`. `FairSpec` of
`Segmentacion` has weak fairness for the threads that serve a request, none for those
who send them. `ImplementaMemoria` and `ImplementaDeposito` are safety: what they implement
states no fairness.

## 9. Proofs

`PlanificadorProofs`, for every number of processors, crews, tasks and commands,
under both algorithms, from `ConstantesOK` alone:

* `SpecTipos`: `Spec => []TypeOK`. The invariant `Tipos` adds that the ids not
  handed out belong to no crew (`Reserva`), which is why a new crew's id is
  within bounds and free, and that a processor past its choice has a crew
  (`Manos`), which is why the writes through `mano` fall on a crew.
* `SpecUnSoloLugar`: `Spec => []UnSoloLugar`. It is not inductive alone; `Inductiva`
  adds that a crew in a list or in a hand has been created, that a processor
  looking for a crew has none in hand, and that each crew in exec is in the hands
  of a processor in its burst. Most steps only shrink lists (`Encoge`), move a
  crew from one list to ready (`Traslada`) or let go of one (`Suelta`).

`FichasProofs`, from the types and the same assumption:

* `SpecFichasAlcanzan`: `Spec => []FichasAlcanzan`, the safety half of "nobody
  waits for ever in ready". `Alcanzan` counts with one set, `Avisan`, the
  processors that took a token and have yet to look in the list and the long-term
  scheduler when it is about to post. `Avance` says who enters and leaves the set
  when a thread moves; then every step is one of three: nobody lets a token go
  (`NadieSuelta`), one thread takes one (`UnoToma`), one lets its own go
  (`UnoSuelta`). That an expelled crew leaves ready through `RevisarReady` without
  taking a token is why it is an inequality. The processors are a finite set
  (`ConstantesOK`), as grado_multitarea makes them.
* `SpecRafagaUtil`: `Spec => []RafagaUtil`. `Cuantos` adds that a quantum is never
  exceeded, since the code starts it again only when it is exactly used up.
* `FichasEnSabotaje`: `SSpec => []FichasTrasSabotaje`, with any number of sabotages, expulsions
  and pauses, both algorithms and I/O. The invariant is the same count, less the crews that were
  in ready: `Alcanzan(d)` allows ready to be `d` crews longer than its tokens. While the crews are
  away ready is short of what its tokens say, and a processor that looked would find nobody
  and let a token go for nothing: `Quietos` says that none does, as the planning is paused, no
  thread is being started again and no processor is past its gate until the crews are back.
  Sorting gives as many crews, and the same ones (`OrdenarMismos`).

`CicloProofs`, on top of both, from the same assumption:

* `SpecCicloUnico`: `Spec => []CicloUnico`, that no `sem_tri` reaches two. Nothing about the
  semaphore alone is inductive: a post is legitimate because its owner is waiting for an
  answer, and the owner waits because of where processor, device and planner are.
  `Cuenta` is that account, for each crew: the posts in `sem_tri` are those its
  processor, the device or the planner owe it and no others. `ManosAjenas` says that two
  threads never have the same crew in hand, `Entrada` that a crew asking for its I/O is
  where the device will find it.
* `SpecColaCoherente`: `Spec => []ColaCoherente`. `Coherente` is stronger in the windows
  between the write of `estado` and the move between lists, one clause for each.
* `SalenConExit`: `SalidaConExit` when every list of tasks ends with one of the CPU
  (`TerminanEnCPU`), as section 3 takes them: after a last task of I/O no branch writes EXIT. `Camino`
  says that the tasks a crew has done, has in hand and has still to ask for are
  as many as its patota is written down with, or will be (`DeSuPatota`: crews run before
  `lista_de_patotas` has theirs), and that one with none left wrote EXIT with the last
  (`Acabada`). It uses `Coherente`: nobody writes READY or EXEC over an EXIT.
* `UnaExpulsion`, `VidaDelTripulante`: `ExpulsionUnica` and `DiagramaDeEstados` with one processor
  (`UnProcesador`), which is what they take (section 8). `Vida`: a crew somebody has taken out of a
  list (`Sacado`) is in none and is put in none; the one the processor has in hand is past its
  answer, and EXPULSADO is written before the processor looks at `estado`. That its thread is not
  granted a cycle in between comes from `Cuenta`, and where each write of `estado` starts from,
  from `Entrada` and `HayConcedido`.

`ArchivosProofs`, over `Reinicio`, that is, with every action of `Archivos`, of the sabotage
and of the restart, for every count of resources, crews and blocks and every `BLOCK_SIZE`.
Its hypothesis `ConsumoCorto` is that no task consumes two blocks or more: beyond it
`quitar_de_archivo` frees blocks of others (`archivos_ajenos`), so it is what
the code needs and not what the prover does.

* `BloquesConDuenio`, `BloquesMarcados`: `PropiosSiSano` and `MarcadosSiSano` until a sabotage.
  `Sano` adds, for each request in the middle of its work, what it still has to do: the
  block it has found and not listed is marked and in no list, the length its list will have
  agrees with SIZE. The restart needs no clause of its own here: no owner is lost by it.
* `NadieComparteBloques`: `SabotajeNoContagia` always. From the sabotage to the end of the
  repair the invariant is `Alterado`: the files other than the damaged one are as `Sano` says,
  and one thing is different in the damaged one.
* `ContenidoDeCadaUno`, `MetadataAlDia`: `ContenidoPropio` and `MetadataCoherente` until a
  sabotage. `Lleva` is what a file holds at each place of a request: full blocks and a last
  one that is not empty, or, while it consumes, the blocks it has not got to, with SIZE and
  the local variables of `quitar_de_archivo` saying how many that is. `EnDisco` is for the
  restart: a file not served since the last copy is on the disk as it is in memory.
  `Firmado`: MD5 is that of what it holds. Two files meet in one lemma: a step on
  one changes its own blocks and no others (`CambiaLoSuyo`), except that `EscribirCopia` empties the
  one it freed, whose new owner, if it has one, goes to `pisados` (`AjenoIntacto`).
  `FlattenSeq`, with which the text of a file is read, is `AplanarSeq` of `ListasProofs`.
* `ArchivosImplementa`: `ImplementaDeposito`, a step of `Deposito` or none for each step, in the
  behaviours in which nobody edits the files and only logs are in `pisados`. `CuentaDe` is what a
  step does to the count of a file. A log that lost a block to another file still counts what
  was appended, as nothing is consumed from a log; a resource that did has a SIZE that
  `quitar_de_archivo` leaves at zero when it consumes more than it finds, which `Deposito` does
  not allow: the hypothesis is what the code needs. Files that were lost stay
  at `previo`.
* `ArchivosConTipo`: `FTypeOK` until a sabotage: lists of blocks there are, blocks no longer than a
  block, sizes that are never negative.

`SegmentacionProofs`, for every size of memory, both fits, all patotas, expulsions and
signals, from `ConstantesOK` alone:

* `ListaEnMosaico`, `AdmitidaEntra`, `DatosIntactos`, `SegmentosConTipo`: `Mosaico`, `SiempreEntra`,
  `ContenidoIntacto` and `TypeOK` always, from one invariant. `Reparto` says that a segment in
  use is in the list with the size it was asked for and that the list adds up to the memory;
  `EnCurso` that the patota being created has all it does not ask for any more; `Cabe` that
  what it asks for is no more than what is free and, after a compaction, than the hole:
  others only free, so the second try succeeds. `EnSuLugar` has the contents, and that a thread
  that destroys a patota has already taken it off the list.
* Steps that only free segments share one lemma (`PasoSuelta`). A split goes by
  `OcuparMosaico` and `OcuparEspacio`; the compaction by `ListaOrdenada` (the sorted list has
  before each segment those that start before it), `CompactarMosaico`,
  `CompactarEspacio` and `CompactarCopia` (a place is the destination of one segment only).
* `PatotaTieneDuenio`: `PatotaConDuenio`, with any number of crews in each patota. `IndDuenio`, on
  top of `Inductiva`: a patota that was accepted and is not in the list has had its table
  freed, or some thread is about to free it, and with the table its PCB and tasks. Several threads
  may be: who comes second finds the table freed and falls. Who deletes by the pid that a
  PCB holds deletes its own patota, as the PCB of a listed one holds its pid (`EnSuLugar`).
* `TareasUnaPorUna`: `TareasEnOrden`, with any number of crews in each patota. `IndTareas`: while
  nobody has been let go at the end of its tasks (`SinSalidas`), a crew that was not expelled is
  in its own table, wherever in it expulsions have moved it, its request copied the tasks of
  its own patota, and all the places of its TCB hold the number of answers it has had
  (`AlDia`), through the copies of every compaction (`Copiado`). While one crew
  only has been, `UnicaSalida` is about its last answer. Before anybody is let go nobody is found
  through another's segment, as no table has a TCB that is free (`TablasVivas`): that is where
  the antecedent comes from.
* That every TCB in use has a user (`SinFugas`) is model-checked and not proved.
* All of this holds in spite of what `segmentacion_indice` and `segmentacion_senial` show:
  the crew taken out by a stale index, the mutex released twice and the freed table cost
  leaks, deadlocks and falls, and never the data of another patota.

`PaginacionProofs`, for every size of page, of memory and of swap, all patotas, tasks,
expulsions and waiting requests, under both algorithms, as long as no page ends inside a field
of a TCB (`CamposEnteros`, section 6):

* `PaginasConMarco`: `PresenteConMarco` always, when `Solapadas` is false; with it true
  `paginacion_solapada` has the counterexample, so the hypothesis is the one the code needs.
  `IndMarcos` adds the other direction, that a frame that is taken is of a page in memory
  (`Marcos`), the queue (`Cola`: each frame once, with its page; LRU takes the victim's
  off it, CLOCK does not), and the one frame that may be in somebody's hands between
  `ConseguirMarco` and `InstalarPagina` (`EnMano`), whose page is not in memory
  (`FormaCurso`). That a page belongs to a patota that was loaded up to it
  (`Cargada`) is why loading never finds the page it installs already there.
* Losing the victim and getting the frame are one lemma for both algorithms (`Victima`,
  `ConseguirBien`); installing, using and letting go are one each on the queue (`AlFinal`,
  `SinMarcos`), above what a list less some of its places is (`SalvoElige`).

`MemoriaProofs`, on top of it, for the same instances and with one more hypothesis,
`FinDeTareas`: no patota's tasks end where a page does (section 6). The last task is read with a
byte more than it has, and with a page of 21 bytes, tasks of 17 and 18 and the first of two
crews gone TLC finds the process fallen there, and a request for a page that was let go.

* `SwapCoherente`, `MemoriaSinFugas`, `PaginasConTipo`: `CopiaEnSwap`, `SinFugas` and `TypeOK` always.
  The invariant is `IndMemoria`, which is `IndMarcos` and `Contenidos`. `Cuentas`: a page that was loaded
  counts the bytes of it that belong to nobody who left (`Quedan`), and a patota is in the list
  as long as it has crews; without it nothing says that a page whose count reaches
  zero is nobody's. `EnSwap`: each page somebody has bytes in is in a frame or in a frame of
  swap, of its own and with its data.
* `PaginacionImplementa`: `Spec => ImplementaMemoria`, a step of `Memoria` or none for each step of
  `Paginacion`. `Progreso` is the simulation: what memory says of the next task of each crew is
  what it was answered, one more while its request is past writing it, and each request is at one
  of three moments of OBTENER_PROXIMA_TAREA (`Fase`), with accesses left only to pages that are
  still somebody's. `Turnos` is why no crew leaves with a request of its own under way.
* `AdmisionSinDesborde`: `VictimaConLugar`. `IndLugar` counts the frames of memory and of swap that are
  free against the pages the patota being loaded has still to load: an admission takes as many
  as there are, a victim takes one of swap and gives one of memory.
* The bytes of a page are counted as a set, whose size is computed from where the page and the
  TCBs start (`BytesDePagina`, `QuedanTodos`, `QuedanSin`). An access is one lemma for the five kinds
  there are (`AccesoProgreso`), a departure is one for the end of the tasks and for an expulsion
  (`SueltaCuentas`, `SueltaVivas`, `SueltaEnSwap`).

`ListasProofs` has what is used of sequences (append, remove, insert, the elements of a
list, lists joined into one), the sums over finite sets (`SumFunctionOnSet`) and sorting by rank.

Model-checked only, and why:

* liveness (`TodosSalen`, `LargoPlazoActua`, `SenialCompacta`): fairness and ENABLED are outside
  what the provers here handle.
* `CicloDeSabotaje`, `NadieSePierde` and `SoloElElegido` are for runs that expel nobody and in which
  no crew is listed twice (section 4): a crew that ended or is in two places breaks what they rest on.
* `DevuelveLoQueHabia`, and what the proved properties of `Archivos` say after a repair: which file
  the fsck repairs, and how, depends on what it reads in a chain of blocks from
  the first whose text is not the MD5, and on the metadata the five checks
  computed from it (`RealizarFsck`).
* `Memoria` under `Segmentacion` is not stated: there the next task is written and answered in one
  step, two of `Memoria`, and where a crew is taken for another it is not so.

## 10. Not modelled

* `src/shared`: messages to and from bytes; no state of its own.
* The map and the dump of Mi-RAM-HQ: drawing and printing.
* The second option of `src/alterador`, which writes nothing.
* Segmentation: the estado and the place a TCB keeps, so ACTUALIZAR_ESTADO, which only writes
  there.
* The fsck against requests on other files, which only the pause of the planning keeps
  away; two sabotages, or one after a restart; more than one thing edited. Left to the
  reader of section 7: a list to which a block of another file was added, or in which a block
  was replaced by another, and a bitmap with two bits wrong, are not repaired, as each check
  looks for one thing.
* A fall of I-Mongo-Store in the middle of a request, which leaves blocks marked that
  nobody lists, or listed that nobody marked, and nothing in the code that looks for them at
  the start.
* Two processes together: each one's model has the others' answers as inputs.
