-------------------------- MODULE MCSegmentacion --------------------------
(* Small memories and patotas for TLC.                                      *)
EXTENDS Segmentacion

Patota(cantidad, longitud, tareas) ==
  [cantidad |-> cantidad, longitud |-> longitud, tareas |-> tareas]

\* A patota of two crews and two tasks, and one that fits when a crew of the first has left,
\* after a compaction: what is free then is in two segments, neither large enough for the
\* TCB once PCB and tasks have theirs.
Compartida == <<Patota(2, 1, 2), Patota(1, 2, 1)>>

\* One patota of two crews.
DosTripulantes == <<Patota(2, 1, 1)>>

UnTripulante == <<Patota(1, 1, 1)>>

LosPrimeros == {<<1, 1>>}
Ninguno == {}

====
