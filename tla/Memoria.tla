------------------------------- MODULE Memoria -------------------------------
(***************************************************************************)
(* What a memory manager of Mi-RAM-HQ promises, whatever its scheme: the   *)
(* crews of the patotas it has admitted, and for each one a count of the   *)
(* tasks it was given, which goes up by one and is then answered.          *)
(***************************************************************************)
EXTENDS Integers

CONSTANTS
  CantTripulantes,   \* crews of each patota
  CantTareas         \* tasks of each patota

Pids == DOMAIN CantTripulantes
Trips == UNION {{<<p, i>> : i \in 1..CantTripulantes[p]} : p \in Pids}

VARIABLES
  vivas,         \* patotas in memory
  prox,          \* next task of each crew, 0 for one that is not in memory
  respuestas,    \* tasks each crew has been answered with
  idos           \* crews that have left

mvars == <<vivas, prox, respuestas, idos>>

MInit ==
  /\ vivas = {} /\ idos = {}
  /\ prox = [t \in Trips |-> 0] /\ respuestas = [t \in Trips |-> 0]

EnMemoria(t) == t[1] \in vivas /\ t \notin idos

Admitir(p) ==
  /\ vivas' = vivas \cup {p} /\ p \notin vivas
  /\ \A t \in idos : t[1] # p
  /\ UNCHANGED <<prox, respuestas, idos>>

\* The next task is moved on before the one it was is answered.
Avanzar(t) ==
  /\ EnMemoria(t) /\ prox[t] = respuestas[t]
  /\ prox' = [prox EXCEPT ![t] = @ + 1]
  /\ UNCHANGED <<vivas, respuestas, idos>>

Responder(t) ==
  /\ EnMemoria(t) /\ prox[t] = respuestas[t] + 1 /\ prox[t] <= CantTareas[t[1]]
  /\ respuestas' = [respuestas EXCEPT ![t] = @ + 1]
  /\ UNCHANGED <<vivas, prox, idos>>

\* At the end of its tasks, or expelled.  A patota stays as long as it has crews.
Irse(t) ==
  /\ EnMemoria(t)
  /\ idos' = idos \cup {t}
  /\ prox' = [prox EXCEPT ![t] = 0]
  /\ vivas' = {p \in vivas : \E u \in Trips \ idos' : u[1] = p}
  /\ UNCHANGED respuestas

MNext ==
  \/ \E p \in Pids : Admitir(p)
  \/ \E t \in Trips : Avanzar(t) \/ Responder(t) \/ Irse(t)

MSpec == MInit /\ [][MNext]_mvars

====
