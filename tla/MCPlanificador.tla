--------------------------- MODULE MCPlanificador ---------------------------
(* Small instances of the scheduler for TLC.                                *)
EXTENDS Planificador

Aca == <<0, 0>>
Alla == <<1, 0>>
CPU(pos, tiempo) == [es |-> FALSE, pos |-> pos, tiempo |-> tiempo]
ES(pos, tiempo) == [es |-> TRUE, pos |-> pos, tiempo |-> tiempo]

\* Two crews that do an I/O task and then one of CPU, as the task files do.
DosConES == << [cantidad |-> 2, posiciones |-> <<>>,
                tareas |-> <<ES(Aca, 1), CPU(Aca, 1)>>] >>

\* A crew that walks to its tasks, and the crew of another patota.
DosPatotas ==
  << [cantidad |-> 1, posiciones |-> <<Alla>>, tareas |-> <<ES(Aca, 2), CPU(Aca, 1)>>],
     [cantidad |-> 1, posiciones |-> <<>>, tareas |-> <<CPU(Aca, 1)>>] >>

\* One crew alone.
UnTripulante ==
  << [cantidad |-> 1, posiciones |-> <<>>, tareas |-> <<CPU(Aca, 1), CPU(Aca, 1)>>] >>

Simetria == Permutations(Procs)

====
