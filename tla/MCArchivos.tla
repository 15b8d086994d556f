----------------------------- MODULE MCArchivos -----------------------------
(* Small disks for TLC.                                                     *)
EXTENDS Reinicio

CONSTANTS oxigeno, comida, bitacora

UnRecurso == {oxigeno}
DosRecursos == {oxigeno, comida}
UnaBitacora == {bitacora}

====
