---------------------------- MODULE MCSabotaje ----------------------------
(* Small instances of the scheduler under a sabotage.                       *)
EXTENDS Sabotaje, MCPlanificador

UnSitio == {Alla}

\* Two crews that only run, the second where the sabotage is.
DosDeCPU ==
  << [cantidad |-> 2, posiciones |-> <<Aca, Alla>>, tareas |-> <<CPU(Aca, 1)>>] >>

====
