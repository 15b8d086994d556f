---------------------------- MODULE MCPaginacion ----------------------------
(* Small memories for TLC, with pages of 64 bytes as in mi-ram-hq.config.   *)
EXTENDS Paginacion

Patota(cantidad, tareas) == [cantidad |-> cantidad, tareas |-> tareas]

\* Two tasks in two pages, the second with the end of the last one and the TCB; one page; two
\* pages, the second with nothing but a TCB, of the patota that is last in the list.  No TCB
\* is cut.
TresPatotas == <<Patota(1, <<30, 29>>), Patota(1, <<30>>), Patota(2, <<36>>)>>

UnTripulante == {<<1, 1>>}
Ninguno == {}

====
