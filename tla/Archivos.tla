------------------------------ MODULE Archivos ------------------------------
(***************************************************************************)
(* I-Mongo-Store: the bitmap, the blocks and the metadata of the files     *)
(* under the requests that write, consume and discard.  One thread per     *)
(* request; those of one file exclude each other by the mutex of the       *)
(* resource or of the log, and all share the bitmap and the blocks.        *)
(*                                                                         *)
(* A block is the characters up to its first '\0', each named by the file  *)
(* it was written for; what comes after that is never read.                *)
(***************************************************************************)
EXTENDS Integers, SequencesExt

CONSTANTS
  Recursos, Bitacoras,
  BLOCK_SIZE, BLOCK_COUNT,
  Escribibles,     \* lengths of what is written
  Consumibles,     \* amounts consumed
  MaxPedidos       \* bound: requests served

Archivos == Recursos \cup Bitacoras

\* The bitmap has BLOCK_COUNT / 8 bytes.
Bloques == 0 .. (BLOCK_COUNT \div 8) * 8 - 1

ASSUME ConstantesOK ==
  /\ Recursos \cap Bitacoras = {}
  /\ BLOCK_SIZE \in Nat \ {0} /\ BLOCK_COUNT \in Nat \ {0}
  /\ Escribibles \subseteq Nat \ {0} /\ Consumibles \subseteq Nat \ {0}
  /\ MaxPedidos \in Nat

VARIABLES
  bitmap,        \* blocks marked as taken
  contenido,     \* blocks: what each one holds
  metadata,      \* SIZE and BLOCKS of each file; BLOCK_COUNT is how many BLOCKS lists
  op,            \* the request being served on each file
  pedidos,       \* requests so far
  pisados,       \* history: files a block of which was emptied by who had freed it
  caida          \* memory outside the blocks was used: the process is gone

vars == <<bitmap, contenido, metadata, op, pedidos, pisados, caida>>

Libre == [pc |-> "libre", resta |-> 0, bloque |-> -1, quedan |-> 0, vaciados |-> 0]
SinArchivo == [existe |-> FALSE, size |-> 0, blocks |-> <<>>]

Init ==
  /\ bitmap = {} /\ contenido = [b \in Bloques |-> <<>>]
  /\ metadata = [f \in Archivos |-> SinArchivo]
  /\ op = [f \in Archivos |-> Libre]
  /\ pedidos = 0 /\ pisados = {} /\ caida = FALSE

-----------------------------------------------------------------------------
Repetido(f, n) == [i \in 1..n |-> f]
Menor(a, b) == IF a < b THEN a ELSE b
Ultimo(f) == Last(metadata[f].blocks)
LlenoUltimo(f) == Len(contenido[Ultimo(f)])

\* encontrar_anterior_barra_cero counts places from 0.
UltimaPosicionEscrita(f) == LlenoUltimo(f) - 1

Disponibles(f) == (Len(metadata[f].blocks) - 1) * BLOCK_SIZE + UltimaPosicionEscrita(f) + 1

\* To compute the MD5 of a resource its blocks are read until SIZE characters are: with
\* fewer blocks than that the list of blocks is read past its end.
LeeDeMas(f, size, blocks) == f \in Recursos /\ size > BLOCK_SIZE * Len(blocks)

\* itoa_propio of what is below zero writes before its buffer.
FueraDeRango(size) == size < 0

\* A thread comes with a request for a file that nobody has.
Atender(f) ==
  /\ ~caida /\ op[f] = Libre /\ pedidos < MaxPedidos
  /\ pedidos' = pedidos + 1

EnOp(f, pc) == ~caida /\ op[f].pc = pc

-----------------------------------------------------------------------------
(* escribir_archivo.                                                         *)

\* Mutant: the place of the last character is taken for how many there are.
HuecoUnoDeMas(f) ==
  IF metadata[f].blocks = <<>> THEN 0 ELSE BLOCK_SIZE - UltimaPosicionEscrita(f)

\* What still fits in the last block.
Hueco(f) == IF metadata[f].blocks = <<>> THEN 0 ELSE BLOCK_SIZE - LlenoUltimo(f)

\* The file is created if it is new, and its last block filled.
EmpezarEscritura(f, n) ==
  LET k == Menor(n, Hueco(f))
      size == metadata[f].size + k
  IN /\ Atender(f)
     /\ metadata' = [metadata EXCEPT ![f].existe = TRUE, ![f].size = size]
     /\ IF k > 0 THEN contenido' = [contenido EXCEPT ![Ultimo(f)] = @ \o Repetido(f, k)]
                 ELSE UNCHANGED contenido
     /\ op' = [op EXCEPT ![f] = IF n = k THEN Libre
                                ELSE [Libre EXCEPT !.pc = "toma", !.resta = n - k]]
     /\ caida' = (k > 0 /\ LeeDeMas(f, size, metadata[f].blocks))
     /\ UNCHANGED <<bitmap, pisados>>

\* Mutant: the block is not marked.
SinOcupar(b) == bitmap

\* Marks a block in the bitmap.
Ocupado(b) == bitmap \cup {b}

\* get_primer_bloque_libre and ocupar_bloque, under the mutex of the bitmap.  With none
\* free the block is the one before the first.
TomarBloque(f) ==
  /\ EnOp(f, "toma")
  /\ LET libres == Bloques \ bitmap IN
       IF libres = {} THEN caida' = TRUE /\ UNCHANGED <<bitmap, op>>
       ELSE LET b == Min(libres) IN
            /\ bitmap' = Ocupado(b)
            /\ op' = [op EXCEPT ![f].pc = "llena", ![f].bloque = b]
            /\ UNCHANGED caida
  /\ UNCHANGED <<contenido, metadata, pedidos, pisados>>

\* The block is written, added to the list, and the metadata saved.
LlenarBloque(f) ==
  LET k == Menor(op[f].resta, BLOCK_SIZE)
      size == metadata[f].size + k
      blocks == Append(metadata[f].blocks, op[f].bloque)
  IN /\ EnOp(f, "llena")
     /\ contenido' = [contenido EXCEPT ![op[f].bloque] = Repetido(f, k)]
     /\ metadata' = [metadata EXCEPT ![f].size = size, ![f].blocks = blocks]
     /\ op' = [op EXCEPT ![f] = IF op[f].resta = k THEN Libre
                                ELSE [Libre EXCEPT !.pc = "toma", !.resta = op[f].resta - k]]
     /\ caida' = LeeDeMas(f, size, blocks)
     /\ UNCHANGED <<bitmap, pedidos, pisados>>

-----------------------------------------------------------------------------
(* quitar_de_archivo.  On a file that is not there or has no block it does   *)
(* nothing.                                                                  *)
HayQueQuitar(f) == metadata[f].blocks # <<>>

Vaciados(bs) == [b \in Bloques |-> IF b \in bs THEN <<>> ELSE contenido[b]]

\* Case 1: there are not that many.
QuitarTodo(f, n) ==
  /\ Atender(f) /\ HayQueQuitar(f) /\ n > Disponibles(f)
  /\ contenido' = Vaciados(ToSet(metadata[f].blocks))
  /\ bitmap' = bitmap \ ToSet(metadata[f].blocks)
  /\ metadata' = [metadata EXCEPT ![f].size = 0, ![f].blocks = <<>>]
  /\ UNCHANGED <<op, pisados, caida>>

\* Case 2: the last block has them, and two more.
QuitarDelUltimo(f, n) ==
  /\ Atender(f) /\ HayQueQuitar(f) /\ n <= Disponibles(f) /\ n < UltimaPosicionEscrita(f)
  /\ contenido' = [contenido EXCEPT ![Ultimo(f)] = SubSeq(@, 1, Len(@) - n)]
  /\ LET size == metadata[f].size - n IN
       IF FueraDeRango(size) THEN caida' = TRUE /\ UNCHANGED metadata
       ELSE /\ metadata' = [metadata EXCEPT ![f].size = size]
            /\ caida' = LeeDeMas(f, size, metadata[f].blocks)
  /\ UNCHANGED <<bitmap, op, pisados>>

\* Case 3: a copy of the last block is emptied and the block freed.
LiberarUltimo(f, n) ==
  /\ Atender(f) /\ HayQueQuitar(f) /\ n <= Disponibles(f) /\ n >= UltimaPosicionEscrita(f)
  /\ bitmap' = bitmap \ {Ultimo(f)}
  /\ op' = [op EXCEPT ![f] = [pc |-> "escribe_copia", bloque |-> Ultimo(f),
                              resta |-> n - LlenoUltimo(f), vaciados |-> LlenoUltimo(f),
                              quedan |-> Len(metadata[f].blocks) - 1]]
  /\ UNCHANGED <<contenido, metadata, pisados, caida>>

\* Then the copy is written, whoever has the block by now, and the one before it in the
\* list is looked up: with a single block, before the start of the list.
EscribirCopia(f) ==
  LET quedan == op[f].quedan
  IN /\ EnOp(f, "escribe_copia")
     /\ contenido' = Vaciados({op[f].bloque})
     /\ pisados' = pisados \cup {g \in Archivos \ {f} : op[f].bloque \in ToSet(metadata[g].blocks)}
     /\ IF quedan = 0 THEN caida' = TRUE /\ UNCHANGED op
        ELSE /\ op' = [op EXCEPT ![f].pc = "libera", ![f].bloque = metadata[f].blocks[quedan]]
             /\ UNCHANGED caida
     /\ UNCHANGED <<bitmap, metadata, pedidos>>

\* A whole block less.  The next is the one whose number precedes it.
LiberarOtro(f) ==
  /\ EnOp(f, "libera") /\ op[f].resta >= BLOCK_SIZE
  /\ IF op[f].bloque \notin Bloques
     THEN caida' = TRUE /\ UNCHANGED <<bitmap, contenido, op>>
     ELSE /\ contenido' = Vaciados({op[f].bloque})
          /\ bitmap' = bitmap \ {op[f].bloque}
          /\ op' = [op EXCEPT ![f].bloque = @ - 1, ![f].quedan = @ - 1,
                              ![f].resta = @ - BLOCK_SIZE, ![f].vaciados = @ + BLOCK_SIZE]
          /\ UNCHANGED caida
  /\ UNCHANGED <<metadata, pedidos, pisados>>

\* setear_nuevos_blocks.
ListaRecortada(f, quedan) == SubSeq(metadata[f].blocks, 1, quedan)

\* Mutant: only whole blocks are counted.
SizeDeBloquesEnteros(f) == metadata[f].size - op[f].vaciados

SizeTrasConsumo(f) ==
  metadata[f].size - op[f].vaciados - (IF op[f].resta > 0 THEN op[f].resta ELSE 0)

\* The rest comes from the end of the block that is now the last.  After one character too
\* many has gone with the block freed, resta is -1 and nothing more is taken.
TerminarConsumo(f) ==
  LET quedan == op[f].quedan
      resta == op[f].resta
      size == SizeTrasConsumo(f)
      blocks == ListaRecortada(f, quedan)
  IN /\ EnOp(f, "libera") /\ resta < BLOCK_SIZE
     /\ IF quedan > 0 /\ resta > 0
        THEN contenido' = [contenido EXCEPT ![metadata[f].blocks[quedan]] =
                             SubSeq(@, 1, Menor(Len(@), BLOCK_SIZE - resta))]
        ELSE UNCHANGED contenido
     /\ IF quedan > 0 /\ FueraDeRango(size) THEN caida' = TRUE /\ UNCHANGED <<metadata, op>>
        ELSE /\ metadata' = [metadata EXCEPT ![f].size = IF quedan = 0 THEN 0 ELSE size,
                                             ![f].blocks = blocks]
             /\ op' = [op EXCEPT ![f] = Libre]
             /\ caida' = (quedan > 0 /\ LeeDeMas(f, size, blocks))
     /\ UNCHANGED <<bitmap, pedidos, pisados>>

-----------------------------------------------------------------------------
\* Mutant: the blocks are emptied and stay marked.
BorrarSinLiberar(f) == bitmap

TrasBorrar(f) == bitmap \ ToSet(metadata[f].blocks)

\* borrar_archivo, of DESCARTAR: its blocks are emptied and freed, and the file removed.
BorrarArchivo(f) ==
  /\ Atender(f) /\ metadata[f].existe
  /\ contenido' = Vaciados(ToSet(metadata[f].blocks))
  /\ bitmap' = TrasBorrar(f)
  /\ metadata' = [metadata EXCEPT ![f] = SinArchivo]
  /\ UNCHANGED <<op, pisados, caida>>

Consumir(f, n) == QuitarTodo(f, n) \/ QuitarDelUltimo(f, n) \/ LiberarUltimo(f, n)

Next == \E f \in Archivos :
  \/ \E n \in Escribibles : EmpezarEscritura(f, n)
  \/ TomarBloque(f) \/ LlenarBloque(f)
  \/ f \in Recursos /\ \E n \in Consumibles : Consumir(f, n)
  \/ EscribirCopia(f) \/ LiberarOtro(f) \/ TerminarConsumo(f)
  \/ f \in Recursos /\ BorrarArchivo(f)

Spec == Init /\ [][Next]_vars

-----------------------------------------------------------------------------
(* Properties.                                                               *)

TypeOK ==
  /\ bitmap \subseteq Bloques
  /\ DOMAIN contenido = Bloques
  /\ \A b \in Bloques : contenido[b] \in Seq(Archivos) /\ Len(contenido[b]) <= BLOCK_SIZE
  /\ \A f \in Archivos : /\ metadata[f].size \in Nat /\ metadata[f].existe \in BOOLEAN
                         /\ metadata[f].blocks \in Seq(Bloques)
                         /\ op[f].quedan \in Nat
  /\ pedidos \in 0..MaxPedidos /\ pisados \subseteq Archivos /\ caida \in BOOLEAN

\* The blocks a file still has: those it lists, less what is being consumed, and the one
\* it is about to fill.
Suyos(f) ==
  CASE op[f].pc \in {"escribe_copia", "libera"} -> ToSet(SubSeq(metadata[f].blocks, 1, op[f].quedan))
    [] op[f].pc = "llena" -> ToSet(metadata[f].blocks) \cup {op[f].bloque}
    [] OTHER -> ToSet(metadata[f].blocks)

\* A block a file has is marked in the bitmap and nobody else has it: what
\* i-mongo-store-lib.c:849 says, that only the blocks that had to be freed were.
BloquesPropios ==
  \A f \in Archivos :
    /\ Suyos(f) \subseteq bitmap /\ IsInjective(metadata[f].blocks)
    /\ \A g \in Archivos \ {f} : Suyos(f) \cap Suyos(g) = {}

\* A block marked in the bitmap belongs to a file.
SinBloquesPerdidos == bitmap \subseteq UNION {Suyos(f) : f \in Archivos}

\* The blocks of a file hold SIZE characters of its own, every block full but the last
\* and that one not empty.
ContenidoDe(f) ==
  LET blocks == metadata[f].blocks
      resto(i) == metadata[f].size - (i - 1) * BLOCK_SIZE
  IN /\ \A i \in DOMAIN blocks : /\ resto(i) > 0
                                 /\ contenido[blocks[i]] = Repetido(f, Menor(resto(i), BLOCK_SIZE))
     /\ metadata[f].size <= Len(blocks) * BLOCK_SIZE

\* What is left of the request on a file, at those places of it.
Durante(f, pcs, n) == IF op[f].pc \in pcs THEN n ELSE 0

====
