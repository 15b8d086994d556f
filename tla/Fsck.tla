-------------------------------- MODULE Fsck --------------------------------
(***************************************************************************)
(* I-Mongo-Store when somebody edits its files by hand: the signal of a    *)
(* sabotage, the writes to the log of the crew that comes to solve it, the *)
(* fsck it runs, and what was being served before and is served after.     *)
(*                                                                         *)
(* The Discordiador stops the planning while a sabotage lasts: the files   *)
(* are at rest when they are edited, and until the sabotage is solved only *)
(* the log of the crew that solves it is written.                          *)
(***************************************************************************)
EXTENDS Archivos

CONSTANT MaxSabotajes      \* bound: 0 or 1

VARIABLES
  cantidad,          \* the superblock's BLOCK_COUNT
  block_count,       \* BLOCK_COUNT of each resource
  md5,               \* MD5 of each resource: the text it was computed from
  estoy_saboteado,
  bloque_corrupto,   \* -1: not looked for yet; -2: there is none
  fsck,              \* how far the attention of the sabotage is
  previo             \* history: the metadata before the sabotage, or a restart

fvars == <<vars, cantidad, block_count, md5, estoy_saboteado, bloque_corrupto, fsck, previo>>
sabotaje == <<cantidad, estoy_saboteado, bloque_corrupto, fsck, previo>>

SinBuscar == -1
NoHay == -2

\* MD5 is "" in a resource with nothing in it, and whatever the memory had when what is
\* read has a '\0' in the middle: in neither case is it the hash of what is read.
SinHash == <<>>

FInit ==
  /\ Init
  /\ cantidad = BLOCK_COUNT
  /\ block_count = [f \in Recursos |-> 0] /\ md5 = [f \in Recursos |-> SinHash]
  /\ estoy_saboteado = FALSE /\ bloque_corrupto = SinBuscar
  /\ fsck = "sano" /\ previo = metadata

-----------------------------------------------------------------------------
(* The metadata of a resource, saved with every request.                     *)

\* What falls in the i-th block of SIZE characters.
Tramo(f, i) ==
  LET resto == metadata[f].size - (i - 1) * BLOCK_SIZE
  IN IF resto < 0 THEN 0 ELSE Menor(resto, BLOCK_SIZE)

\* armar_string_para_MD5: SIZE characters, in the order of BLOCKS.
Texto(f) ==
  LET blocks == metadata[f].blocks
      cuantos == (metadata[f].size + BLOCK_SIZE - 1) \div BLOCK_SIZE
  IN IF /\ cuantos <= Len(blocks)
        /\ \A i \in 1..cuantos : Len(contenido[blocks[i]]) >= Tramo(f, i)
     THEN FlattenSeq([i \in 1..cuantos |-> SubSeq(contenido[blocks[i]], 1, Tramo(f, i))])
     ELSE SinHash

HashCoincide(f) == md5[f] # SinHash /\ Texto(f) = md5[f]

\* Each request that saves the metadata of a resource writes both.
GuardarMetadata ==
  LET cambia(f) == metadata'[f] # metadata[f] IN
    /\ block_count' = [f \in Recursos |-> IF cambia(f) THEN Len(metadata'[f].blocks)
                                          ELSE block_count[f]]
    /\ md5' = [f \in Recursos |-> IF cambia(f) THEN Texto(f)' ELSE md5[f]]

-----------------------------------------------------------------------------
(* The sabotage.                                                             *)
Reposo == \A f \in Archivos : op[f] = Libre
Existentes == {f \in Recursos : metadata[f].existe}

AlterarCantidad ==
  /\ cantidad' = BLOCK_COUNT + 8
  /\ UNCHANGED <<bitmap, metadata, block_count>>

AlterarSize(f) ==
  /\ \E size \in {0, metadata[f].size + 1} \ {metadata[f].size} :
       metadata' = [metadata EXCEPT ![f].size = size]
  /\ UNCHANGED <<bitmap, cantidad, block_count>>

AlterarBlockCount(f) ==
  /\ \E n \in {block_count[f] - 1, block_count[f] + 1} \cap Nat :
       block_count' = [block_count EXCEPT ![f] = n]
  /\ UNCHANGED <<bitmap, cantidad, metadata>>

\* The first block of the list and the last change places.
AlterarOrden(f) ==
  LET blocks == metadata[f].blocks IN
    /\ Len(blocks) > 1
    /\ metadata' = [metadata EXCEPT ![f].blocks =
                      [blocks EXCEPT ![1] = Last(blocks), ![Len(blocks)] = Head(blocks)]]
    /\ UNCHANGED <<bitmap, cantidad, block_count>>

\* A block that is not on the disk, or that nobody has, is added to the list.
AlterarBlocks(f) ==
  /\ \E b \in {BLOCK_COUNT} \cup (Bloques \ bitmap) :
       metadata' = [metadata EXCEPT ![f].blocks = Append(@, b)]
  /\ UNCHANGED <<bitmap, cantidad, block_count>>

AlterarBitmap ==
  /\ \E b \in Bloques : bitmap' = SymDiff(bitmap, {b})
  /\ UNCHANGED <<cantidad, metadata, block_count>>

\* Mutant: what was found in the last sabotage is kept.
SinOlvidar == NoHay

\* What is known of the block that is wrong.
Olvidar == SinBuscar

\* The files are edited and SIGUSR1 sent: handler_sabotaje.
Sabotear ==
  /\ ~caida /\ Reposo /\ fsck = "sano" /\ MaxSabotajes > 0 /\ pedidos + 2 <= MaxPedidos
  /\ \/ AlterarCantidad \/ AlterarBitmap
     \/ \E f \in Existentes : \/ AlterarSize(f) \/ AlterarBlockCount(f)
                              \/ AlterarOrden(f) \/ AlterarBlocks(f)
  /\ estoy_saboteado' = TRUE /\ bloque_corrupto' = Olvidar
  /\ fsck' = "pedido" /\ previo' = metadata
  /\ UNCHANGED <<contenido, md5, op, pedidos, pisados, caida>>

-----------------------------------------------------------------------------
(* The log is written while the files are wrong.                             *)
Listados == UNION {ToSet(metadata[f].blocks) : f \in Archivos}

\* es_el_bloque_corrupto: the first block that is in a list and not in the bitmap, looked
\* for once.
BloqueCorrupto ==
  LET sin_marcar == (Listados \cap Bloques) \ bitmap
  IN IF bloque_corrupto # SinBuscar THEN bloque_corrupto
     ELSE IF sin_marcar = {} THEN NoHay ELSE Min(sin_marcar)

\* TomarBloque: the first free one, unless it is the one that is wrong.
TomarBloqueSaboteado(f) ==
  /\ EnOp(f, "toma")
  /\ LET sin_marcar == Bloques \ bitmap
         libres == sin_marcar \ (IF BloqueCorrupto = Min(sin_marcar) THEN {BloqueCorrupto} ELSE {})
     IN /\ bloque_corrupto' = IF sin_marcar = {} THEN bloque_corrupto ELSE BloqueCorrupto
        /\ IF sin_marcar = {} \/ libres = {}
           THEN caida' = TRUE /\ UNCHANGED <<bitmap, op>>
           ELSE /\ bitmap' = Ocupado(Min(libres))
                /\ op' = [op EXCEPT ![f].pc = "llena", ![f].bloque = Min(libres)]
                /\ UNCHANGED caida
  /\ UNCHANGED <<contenido, metadata, pedidos, pisados, block_count, md5,
                 cantidad, estoy_saboteado, fsck, previo>>

\* registrar_comienzo_tarea, before the fsck, and REGISTRAR_SABOTAJE_RESUELTO after it.
EmpezarAnotacion(f, n, antes, despues) ==
  /\ fsck = antes /\ Reposo /\ EmpezarEscritura(f, n)
  /\ fsck' = despues
  /\ UNCHANGED <<cantidad, block_count, md5, estoy_saboteado, bloque_corrupto, previo>>

SeguirAnotacion(f) ==
  \/ TomarBloqueSaboteado(f)
  \/ LlenarBloque(f) /\ UNCHANGED <<block_count, md5, sabotaje>>

SabotajeResuelto ==
  /\ ~caida /\ fsck = "por_avisar" /\ Reposo
  /\ estoy_saboteado' = FALSE /\ fsck' = "resuelto"
  /\ UNCHANGED <<vars, cantidad, block_count, md5, bloque_corrupto, previo>>

-----------------------------------------------------------------------------
(* realizar_fsck: five checks, until one of them repairs something.  Which   *)
(* file comes first is the directory's choice.                               *)

\* While there is a sabotage the superblock is not believed: the blocks are counted by the
\* size of the file they are in.
get_block_amount == IF estoy_saboteado THEN BLOCK_COUNT ELSE cantidad

ConOtroBlockCount == {f \in Existentes : block_count[f] # Len(metadata[f].blocks)}

\* The characters in the blocks of a file.
Escritos(f) ==
  FoldLeft(LAMBDA n, b : n + Len(contenido[b]), 0, metadata[f].blocks)
ConOtroSize == {f \in Existentes : metadata[f].size # Escritos(f)}

Invalidos(f) == {i \in DOMAIN metadata[f].blocks : metadata[f].blocks[i] >= get_block_amount}
LibresAsignados(f) ==
  {i \in DOMAIN metadata[f].blocks :
     metadata[f].blocks[i] \notin bitmap /\ contenido[metadata[f].blocks[i]] = <<>>}
ConOtrosBlocks ==
  {f \in Existentes : Invalidos(f) # {} \/ LibresAsignados(f) # {} \/ ~HashCoincide(f)}

\* Mutant: BLOCK_COUNT stays as it was.
QuitarSinContar(f, i, cuentas) ==
  /\ metadata' = [metadata EXCEPT ![f].blocks = RemoveAt(@, i)]
  /\ block_count' = cuentas /\ UNCHANGED contenido

\* armar_nuevos_blocks_sin_bloque_con_indice.
QuitarBloque(f, i, cuentas) ==
  /\ metadata' = [metadata EXCEPT ![f].blocks = RemoveAt(@, i)]
  /\ block_count' = [cuentas EXCEPT ![f] = @ - 1] /\ UNCHANGED contenido

\* SIZE characters are written again over the blocks, in the order of the list.
Reescrito(f) ==
  [b \in Bloques |->
     LET i == SelectInSeq(metadata[f].blocks, LAMBDA c : c = b)
     IN IF i = 0 THEN contenido[b] ELSE Repetido(f, Tramo(f, i))]

\* reparar_sabotaje_blocks_en_archivo.
RepararBlocks(f, cuentas) ==
  IF Invalidos(f) # {} THEN QuitarBloque(f, Min(Invalidos(f)), cuentas)
  ELSE IF LibresAsignados(f) # {} THEN QuitarBloque(f, Min(LibresAsignados(f)), cuentas)
  ELSE contenido' = Reescrito(f) /\ block_count' = cuentas /\ UNCHANGED metadata

\* A resource with nothing in it never has the MD5 of nothing: it is the one taken for
\* the sabotaged, and nothing is repaired.
Repasado(f) == IF md5[f] = SinHash THEN "distraido" ELSE "revisado"

RevisarBlocks(cuentas) ==
  IF ConOtrosBlocks = {} THEN fsck' = "revisado" /\ block_count' = cuentas
                              /\ UNCHANGED <<contenido, metadata>>
  ELSE \E f \in ConOtrosBlocks : RepararBlocks(f, cuentas) /\ fsck' = Repasado(f)

\* A list that does not agree with its BLOCK_COUNT: it is BLOCK_COUNT that is changed, and
\* the lists are looked into at once.
RevisarBlockCount ==
  /\ \E f \in ConOtroBlockCount :
       RevisarBlocks([block_count EXCEPT ![f] = Len(metadata[f].blocks)])
  /\ UNCHANGED <<bitmap, cantidad>>

RevisarSuperbloque ==
  /\ cantidad # get_block_amount
  /\ cantidad' = get_block_amount /\ fsck' = "revisado"
  /\ UNCHANGED <<bitmap, contenido, metadata, block_count>>

\* Mutant: SIZE is what the blocks of the list can hold.
CapacidadDe(f) == Len(metadata[f].blocks) * BLOCK_SIZE

\* The SIZE a file should have.
SizeReal(f) == Escritos(f)

RevisarSize ==
  /\ \E f \in ConOtroSize : metadata' = [metadata EXCEPT ![f].size = SizeReal(f)]
  /\ fsck' = "revisado"
  /\ UNCHANGED <<bitmap, cantidad, contenido, block_count>>

\* The first bit that is not what the lists say.
RevisarBitmap ==
  LET mal == SymDiff(bitmap, Listados \cap Bloques) IN
    /\ bitmap' = IF mal = {} THEN bitmap ELSE SymDiff(bitmap, {Min(mal)})
    /\ fsck' = "revisado"
    /\ UNCHANGED <<cantidad, contenido, metadata, block_count>>

RealizarFsck ==
  /\ ~caida /\ fsck = "por_revisar" /\ Reposo
  /\ IF ConOtroBlockCount # {} THEN RevisarBlockCount
     ELSE IF cantidad # get_block_amount THEN RevisarSuperbloque
     ELSE IF ConOtroSize # {} THEN RevisarSize
     ELSE IF ConOtrosBlocks # {} THEN RevisarBlocks(block_count) /\ UNCHANGED <<bitmap, cantidad>>
     ELSE RevisarBitmap
  /\ UNCHANGED <<md5, op, pedidos, pisados, caida, estoy_saboteado, bloque_corrupto, previo>>

-----------------------------------------------------------------------------
FNext ==
  \/ fsck \in {"sano", "resuelto"} /\ Next /\ GuardarMetadata /\ UNCHANGED sabotaje
  \/ Sabotear \/ RealizarFsck \/ SabotajeResuelto
  \/ \E f \in Bitacoras :
       \/ \E n \in Escribibles : \/ EmpezarAnotacion(f, n, "pedido", "por_revisar")
                                 \/ EmpezarAnotacion(f, n, "revisado", "por_avisar")
       \/ estoy_saboteado /\ SeguirAnotacion(f)

FSpec == FInit /\ [][FNext]_fvars

-----------------------------------------------------------------------------
(* Properties.                                                               *)

\* From the sabotage to the fsck the files are wrong; after a fsck that an empty resource
\* distracted, they stay so.
Danado == fsck \in {"pedido", "por_revisar", "distraido"}

FTypeOK ==
  /\ ~Danado => TypeOK
  /\ cantidad \in Nat /\ block_count \in [Recursos -> Nat]
  /\ DOMAIN md5 = Recursos
  /\ estoy_saboteado \in BOOLEAN /\ bloque_corrupto \in Bloques \cup {SinBuscar, NoHay}
  /\ fsck \in {"sano", "pedido", "por_revisar", "distraido", "revisado", "por_avisar", "resuelto"}

\* Before a sabotage, and from its fsck on, a block a file has is marked and is nobody
\* else's.
PropiosSiSano == Danado \/ BloquesPropios

\* The same of the blocks marked: each belongs to a file.
MarcadosSiSano == Danado \/ SinBloquesPerdidos

\* The fsck gives back each resource the blocks and the characters it had, in some order.
DevuelveLoQueHabia ==
  fsck = "revisado" /\ pisados = {} => \A f \in Recursos :
    /\ metadata[f].size = previo[f].size
    /\ ToSet(metadata[f].blocks) = ToSet(previo[f].blocks)

\* Even while the files are wrong no block is given to a second file: the bits and the
\* lists that were edited are not taken at their word.
SabotajeNoContagia ==
  \A f, g \in Archivos : f # g => Suyos(f) \cap Suyos(g) = {}

====
