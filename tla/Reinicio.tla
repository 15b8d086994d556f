------------------------------ MODULE Reinicio ------------------------------
(***************************************************************************)
(* I-Mongo-Store stopped and started again on the files it left.  The      *)
(* bitmap and the metadata are written where they are kept; the blocks are *)
(* a copy in memory, written to the disk every so often, and not by the    *)
(* signal that ends the process.                                           *)
(***************************************************************************)
EXTENDS Fsck

CONSTANTS
  MaxCopias,       \* bound: copies to the disk after the first
  MaxConCopia,     \* bound: requests in a behaviour with such a copy
  MaxReinicios     \* bound: restarts

VARIABLES
  disco,       \* the blocks on the disk
  copias,
  tocados,     \* history: files served since the last copy
  perdidos,    \* history: files served between the last copy and the restart
  reinicios

rvars == <<fvars, disco, copias, tocados, perdidos, reinicios>>

RInit ==
  /\ FInit
  /\ disco = contenido /\ copias = 0
  /\ tocados = {} /\ perdidos = {} /\ reinicios = 0

\* A behaviour has a sabotage or restarts, not both.
Servir ==
  /\ FNext
  /\ fsck' # "sano" => copias = 0 /\ reinicios = 0
  /\ copias > 0 => pedidos' <= MaxConCopia
  /\ tocados' = tocados \cup {f \in Archivos : <<op[f], metadata[f]>>' # <<op[f], metadata[f]>>}
  /\ UNCHANGED <<disco, copias, perdidos, reinicios>>

\* The loop of sincronizar.
Sincronizar ==
  /\ ~caida /\ fsck = "sano" /\ copias < MaxCopias /\ pedidos < MaxConCopia
  /\ \E f \in tocados : op[f] = Libre
  /\ disco' = contenido /\ copias' = copias + 1
  /\ tocados' = {f \in Archivos : op[f] # Libre}
  /\ UNCHANGED <<fvars, perdidos, reinicios>>

\* Mutant: the memory of the blocks is asked for and not filled.
BlocksEnBlanco == [b \in Bloques |-> <<>>]

\* What the blocks are when the process starts.
BlocksDelDisco == disco

\* handler_sigint and, in the new process, inicializar_superbloque_existente and
\* inicializar_blocks_existente.
Reiniciar ==
  /\ ~caida /\ fsck = "sano" /\ Reposo /\ reinicios < MaxReinicios
  /\ copias = MaxCopias
  /\ contenido' = BlocksDelDisco
  /\ reinicios' = reinicios + 1 /\ perdidos' = perdidos \cup tocados /\ tocados' = {}
  /\ previo' = [f \in Archivos |-> IF f \in perdidos THEN previo[f] ELSE metadata[f]]
  /\ UNCHANGED <<bitmap, metadata, op, pedidos, pisados, caida, cantidad, block_count, md5,
                 estoy_saboteado, bloque_corrupto, fsck, disco, copias>>

RNext == Servir \/ Sincronizar \/ Reiniciar

RSpec == RInit /\ [][RNext]_rvars

-----------------------------------------------------------------------------
(* Properties.                                                               *)

\* Files that nothing is said of: those a block of which was emptied by its last owner,
\* and those that had not reached the disk when the process was stopped.
Descartados == pisados \cup perdidos

\* Between requests a file's blocks hold SIZE characters of its own, whatever the others
\* did meanwhile, also after a repair and after a restart.
ContenidoPropio ==
  Danado \/ \A f \in Archivos \ Descartados : op[f] = Libre => ContenidoDe(f)

\* Then BLOCK_COUNT counts the list, the superblock counts the disk and MD5 is that of what
\* there is, so that the next sabotage is not looked for where it is not.
MetadataCoherente ==
  Danado \/ /\ cantidad = BLOCK_COUNT
            /\ \A f \in Recursos \ Descartados : op[f] = Libre =>
                 /\ block_count[f] = Len(metadata[f].blocks)
                 /\ metadata[f].blocks # <<>> => HashCoincide(f)

\* While a sabotage lasts a resource is as many characters as it was before; a file lost in
\* a restart is no longer followed.
Seguido(f) == f \notin perdidos
SizeVisto(f) ==
  IF Seguido(f) /\ ~(Danado /\ f \in Recursos) THEN metadata[f].size ELSE previo[f].size
EnCurso(f, pcs, n) == IF Seguido(f) THEN Durante(f, pcs, n) ELSE 0

Atendidos == INSTANCE Deposito WITH
  cantidad <- [f \in Archivos |-> SizeVisto(f)],
  pendiente <- [f \in Archivos |-> EnCurso(f, {"toma", "llena"}, op[f].resta)],
  consumo <- [f \in Archivos |->
                EnCurso(f, {"escribe_copia", "libera"}, op[f].resta + op[f].vaciados)]

\* What is written is added to SIZE and what is consumed is taken from it, in one step and
\* up to one character too many, whatever others do meanwhile; and neither a sabotage nor
\* its repair nor a restart adds or takes anything.
ImplementaDeposito == Atendidos!DSpec

====
