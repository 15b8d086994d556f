------------------------------ MODULE Deposito ------------------------------
(***************************************************************************)
(* What I-Mongo-Store promises of a file to those who write it: a count of *)
(* characters, which grows as they are written and shrinks by what is      *)
(* consumed.  Archivos implements it.                                      *)
(***************************************************************************)
EXTENDS Naturals

CONSTANTS Archivos, Escribibles, Consumibles

VARIABLES
  cantidad,     \* characters in each file
  pendiente,    \* characters of the request being written that are not in it yet
  consumo       \* characters of the request being consumed, 0 when there is none

dvars == <<cantidad, pendiente, consumo>>

DInit == /\ cantidad = [f \in Archivos |-> 0]
         /\ pendiente = [f \in Archivos |-> 0] /\ consumo = [f \in Archivos |-> 0]

Ocioso(f) == pendiente[f] = 0 /\ consumo[f] = 0

\* A request to write is made, and the first k of its n characters are written.
Escribir(f, n, k) ==
  /\ Ocioso(f) /\ k <= n
  /\ cantidad' = [cantidad EXCEPT ![f] = @ + k]
  /\ pendiente' = [pendiente EXCEPT ![f] = n - k]
  /\ UNCHANGED consumo

SeguirEscribiendo(f, k) ==
  /\ k \in 1..pendiente[f]
  /\ cantidad' = [cantidad EXCEPT ![f] = @ + k]
  /\ pendiente' = [pendiente EXCEPT ![f] = @ - k]
  /\ UNCHANGED consumo

\* More than there is leaves nothing; one less than the last block has takes one too many.
Descontar(f, n) ==
  \E quitado \in {n, n + 1} :
    cantidad' = [cantidad EXCEPT ![f] = IF quitado > @ THEN 0 ELSE @ - quitado]

Consumir(f, n) == Ocioso(f) /\ Descontar(f, n) /\ UNCHANGED <<pendiente, consumo>>

\* The same, when it takes a while.
EmpezarConsumo(f, n) ==
  Ocioso(f) /\ consumo' = [consumo EXCEPT ![f] = n] /\ UNCHANGED <<cantidad, pendiente>>

TerminarConsumo(f) ==
  /\ consumo[f] > 0 /\ Descontar(f, consumo[f])
  /\ consumo' = [consumo EXCEPT ![f] = 0]
  /\ UNCHANGED pendiente

Descartar(f) ==
  /\ Ocioso(f)
  /\ cantidad' = [cantidad EXCEPT ![f] = 0]
  /\ UNCHANGED <<pendiente, consumo>>

DNext == \E f \in Archivos :
  \/ \E n \in Escribibles : \E k \in 0..n : Escribir(f, n, k)
  \/ \E k \in 1..pendiente[f] : SeguirEscribiendo(f, k)
  \/ \E n \in Consumibles : Consumir(f, n) \/ EmpezarConsumo(f, n)
  \/ TerminarConsumo(f) \/ Descartar(f)

DSpec == DInit /\ [][DNext]_dvars

====
