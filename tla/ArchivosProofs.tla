--------------------------- MODULE ArchivosProofs ---------------------------
(***************************************************************************)
(* What holds of I-Mongo-Store for any disk, any files and any number of   *)
(* requests served at once: each block marked has one owner and holds what *)
(* its file wrote, also after a restart; the requests on a file add up to  *)
(* what Deposito says; and while a sabotage lasts no block is given to a   *)
(* second file.                                                            *)
(***************************************************************************)
EXTENDS Reinicio, ListasProofs

\* A request consumes less than two blocks.  One that consumes more frees the blocks whose
\* numbers precede that of the last, whoever has them.
ConsumoCorto == \A n \in Consumibles : n < 2 * BLOCK_SIZE

Puestos == {"libre", "toma", "llena", "escribe_copia", "libera"}
Pedidas == [pc : Puestos, resta : Int, bloque : Int, quedan : Nat, vaciados : Int]
Llenos == {s \in Seq(Archivos) : Len(s) <= BLOCK_SIZE}

\* The shape of the state while nobody edits the files.
Tipos ==
  /\ bitmap \subseteq Bloques
  /\ contenido \in [Bloques -> Llenos] /\ disco \in [Bloques -> Llenos]
  /\ metadata \in [Archivos -> [existe : BOOLEAN, size : Nat, blocks : Seq(Bloques)]]
  /\ op \in [Archivos -> Pedidas]
  /\ pedidos \in 0..MaxPedidos /\ pisados \subseteq Archivos /\ caida \in BOOLEAN

\* What the request being served on a file has still to do, at each place of it.
Marcha(f) ==
  LET blocks == metadata[f].blocks
      quedan == op[f].quedan
  IN /\ op[f].pc \in {"toma", "llena"} => op[f].resta > 0
     /\ op[f].pc = "llena" => op[f].bloque \in Bloques \ ToSet(blocks)
     /\ op[f].pc = "escribe_copia" =>
          blocks # <<>> /\ quedan = Len(blocks) - 1 /\ op[f].resta < 2 * BLOCK_SIZE
     /\ op[f].pc = "libera" =>
          /\ quedan <= Len(blocks)
          /\ op[f].resta >= BLOCK_SIZE =>
               op[f].resta < 2 * BLOCK_SIZE /\ quedan >= 1 /\ op[f].bloque = blocks[quedan]

Reparto == BloquesPropios /\ SinBloquesPerdidos

Sano == Tipos /\ (\A f \in Archivos : Marcha(f)) /\ Reparto

-----------------------------------------------------------------------------
\* Sizes are positive, and so are the numbers of the blocks.
LEMMA BloquesOK ==
  /\ Bloques \subseteq Nat /\ BLOCK_COUNT \notin Bloques /\ BLOCK_COUNT \in Nat
  /\ BLOCK_SIZE \in Nat \ {0}
<1>1. (BLOCK_COUNT \div 8) * 8 <= BLOCK_COUNT /\ (BLOCK_COUNT \div 8) \in Nat
  BY ConstantesOK
<1> QED BY <1>1, ConstantesOK DEF Bloques

\* A file whose request and list stay has what it had.
LEMMA SuyosIguales ==
  ASSUME NEW f \in Archivos, op'[f] = op[f], metadata'[f].blocks = metadata[f].blocks
  PROVE  Suyos(f)' = Suyos(f)
  BY DEF Suyos

\* The blocks change hands between one file and the disk: it keeps its own, or takes free
\* ones, and the bitmap follows it.
LEMMA RepartoPaso ==
  ASSUME Reparto, NEW f \in Archivos, NEW S, Suyos(f)' = S,
         \A g \in Archivos \ {f} :
           op'[g] = op[g] /\ metadata'[g].blocks = metadata[g].blocks,
         bitmap' = (bitmap \ Suyos(f)) \cup S, S \cap (bitmap \ Suyos(f)) = {},
         IsInjective(metadata'[f].blocks)
  PROVE  Reparto'
<1>1. \A g \in Archivos \ {f} : Suyos(g)' = Suyos(g)
  BY SuyosIguales
<1>2. \A g \in Archivos \ {f} : Suyos(g) \subseteq bitmap \ Suyos(f)
  BY DEF Reparto, BloquesPropios
<1>3. \A g \in Archivos : Suyos(g)' \subseteq bitmap'
  BY <1>1, <1>2
<1>4. \A g \in Archivos : IsInjective(metadata'[g].blocks)
  BY DEF Reparto, BloquesPropios
<1>5. \A g \in Archivos : \A h \in Archivos \ {g} : Suyos(g)' \cap Suyos(h)' = {}
  BY <1>1, <1>2 DEF Reparto, BloquesPropios
<1>6. \A b \in bitmap' : \E g \in Archivos : b \in Suyos(g)'
  <2>1. SUFFICES ASSUME NEW b \in bitmap \ Suyos(f) PROVE \E g \in Archivos : b \in Suyos(g)'
    OBVIOUS
  <2>2. PICK g \in Archivos : b \in Suyos(g)
    BY DEF Reparto, SinBloquesPerdidos
  <2> QED BY <1>1, <2>2
<1> QED BY <1>3, <1>4, <1>5, <1>6 DEF Reparto, BloquesPropios, SinBloquesPerdidos

\* Nothing changes hands.
LEMMA RepartoQuieto ==
  ASSUME Reparto, bitmap' = bitmap,
         \A g \in Archivos : Suyos(g)' = Suyos(g) /\ metadata'[g].blocks = metadata[g].blocks
  PROVE  Reparto'
  BY DEF Reparto, BloquesPropios, SinBloquesPerdidos

\* What is written is characters of the file.
LEMMA EscribirLlenos ==
  ASSUME NEW f \in Archivos, NEW s \in Llenos, NEW k \in Nat, Len(s) + k <= BLOCK_SIZE
  PROVE  s \o Repetido(f, k) \in Llenos /\ Repetido(f, k) \in Llenos
<1>1. Repetido(f, k) \in Seq(Archivos) /\ Len(Repetido(f, k)) = k
  <2>1. Repetido(f, k) \in [1..k -> Archivos]
    BY DEF Repetido
  <2> QED BY <2>1, IsASeq, LenProperties
<1>2. s \in Seq(Archivos) /\ Len(s) \in Nat
  BY LenProperties DEF Llenos
<1>3. s \o Repetido(f, k) \in Seq(Archivos) /\ Len(s \o Repetido(f, k)) = Len(s) + k
  BY <1>1, <1>2, ConcatProperties
<1> QED BY <1>1, <1>2, <1>3, BloquesOK DEF Llenos

\* And so is what is left of it.
LEMMA CortarLlenos ==
  ASSUME NEW s \in Llenos, NEW k \in Int, k <= Len(s)
  PROVE  SubSeq(s, 1, k) \in Llenos
<1>1. s \in Seq(Archivos) /\ Len(s) \in Nat
  BY LenProperties DEF Llenos
<1>2. CASE k >= 0
  <2>1. k \in 0..Len(s)
    BY <1>1, <1>2
  <2> QED BY <1>1, <2>1, PrefijoSeq, BloquesOK DEF Llenos
<1>3. CASE k < 0
  <2>1. SubSeq(s, 1, k) = <<>>
    BY <1>1, <1>3, SubSeqEmpty
  <2> QED BY <2>1, EmptySeq, BloquesOK DEF Llenos
<1> QED BY <1>2, <1>3

-----------------------------------------------------------------------------
(* The requests.                                                             *)

\* What is being done on a file goes on whatever is done on another.
LEMMA MarchaIgual ==
  ASSUME NEW f \in Archivos, op'[f] = op[f], metadata'[f].blocks = metadata[f].blocks, Marcha(f)
  PROVE  Marcha(f)'
  BY DEF Marcha

\* The fields of a file and of the request on it.
LEMMA Formas ==
  ASSUME Tipos, NEW f \in Archivos
  PROVE  /\ metadata[f].existe \in BOOLEAN /\ metadata[f].size \in Nat
         /\ metadata[f].blocks \in Seq(Bloques) /\ Len(metadata[f].blocks) \in Nat
         /\ op[f].pc \in Puestos /\ op[f].resta \in Int /\ op[f].bloque \in Int
         /\ op[f].quedan \in Nat /\ op[f].vaciados \in Int
<1>1. metadata[f] \in [existe : BOOLEAN, size : Nat, blocks : Seq(Bloques)] /\ op[f] \in Pedidas
  BY DEF Tipos
<1> QED BY <1>1, LenProperties DEF Pedidas

\* The request on one file changes.
LEMMA CambiarOp ==
  ASSUME Tipos, NEW f \in Archivos, NEW r \in Pedidas, op' = [op EXCEPT ![f] = r]
  PROVE  op' \in [Archivos -> Pedidas] /\ op'[f] = r /\ \A g \in Archivos \ {f} : op'[g] = op[g]
  BY DEF Tipos

\* What is not written yet goes to another block.
LEMMA SigueOTermina ==
  ASSUME NEW n \in Nat, NEW k \in Nat, k <= n,
         NEW r, r = IF n = k THEN Libre ELSE [Libre EXCEPT !.pc = "toma", !.resta = n - k]
  PROVE  r \in Pedidas /\ r.pc \in {"libre", "toma"} /\ (r.pc = "toma" => r.resta > 0)
<1>1. CASE n = k
  BY <1>1 DEF Libre, Pedidas, Puestos
<1>2. CASE n # k
  <2>1. PICK m \in Nat \ {0} : m = n - k
    BY <1>2
  <2>2. r = [pc |-> "toma", resta |-> m, bloque |-> -1, quedan |-> 0, vaciados |-> 0]
    BY <1>2, <2>1 DEF Libre
  <2>3. r.pc = "toma" /\ r.resta > 0
    BY <2>2
  <2>4. r \in Pedidas
    BY ONLY <2>2, m \in Nat \ {0} DEF Pedidas, Puestos
  <2> QED BY <2>3, <2>4
<1> QED BY <1>1, <1>2

\* A file changes.
LEMMA CambiarMetadata ==
  ASSUME Tipos, NEW f \in Archivos, NEW r \in [existe : BOOLEAN, size : Nat, blocks : Seq(Bloques)],
         metadata' = [metadata EXCEPT ![f] = r]
  PROVE  /\ metadata' \in [Archivos -> [existe : BOOLEAN, size : Nat, blocks : Seq(Bloques)]]
         /\ metadata'[f] = r /\ \A g \in Archivos \ {f} : metadata'[g] = metadata[g]
  BY DEF Tipos

\* The elements of a sequence.
LEMMA ToSetEsRange ==
  ASSUME NEW s
  PROVE  ToSet(s) = Range(s)
  BY DEF ToSet, Range

\* The last block of a file that has one.
LEMMA UltimoOK ==
  ASSUME Tipos, NEW f \in Archivos, metadata[f].blocks # <<>>
  PROVE  /\ Len(metadata[f].blocks) \in Nat \ {0} /\ Ultimo(f) \in Bloques
         /\ Ultimo(f) = metadata[f].blocks[Len(metadata[f].blocks)]
         /\ contenido[Ultimo(f)] \in Llenos /\ LlenoUltimo(f) \in 0..BLOCK_SIZE
<1>1. metadata[f].blocks \in Seq(Bloques)
  BY Formas
<1>2. Len(metadata[f].blocks) \in Nat \ {0}
  BY <1>1, EmptySeq, LenProperties
<1>3. Ultimo(f) = metadata[f].blocks[Len(metadata[f].blocks)] /\ Ultimo(f) \in Bloques
  BY <1>1, <1>2, ElementOfSeq DEF Ultimo, Last
<1>4. contenido[Ultimo(f)] \in Llenos
  BY <1>3 DEF Tipos
<1> QED BY <1>2, <1>3, <1>4, LenProperties DEF LlenoUltimo, Llenos

\* A file nobody serves has the blocks it lists.
LEMMA SuyosLibre ==
  ASSUME NEW f \in Archivos, op[f].pc \in {"libre", "toma"}
  PROVE  Suyos(f) = ToSet(metadata[f].blocks)
  BY DEF Suyos

\* The file is created if it is new, and its last block filled.
LEMMA PasoEmpezarEscritura ==
  ASSUME Sano, NEW f \in Archivos, NEW n \in Escribibles, EmpezarEscritura(f, n), disco' = disco
  PROVE  Sano'
<1> DEFINE k == Menor(n, Hueco(f))
<1>0. n \in Nat \ {0} /\ BLOCK_SIZE \in Nat \ {0}
  BY ConstantesOK
<1>1. k \in Nat /\ k <= n /\ k <= Hueco(f)
      /\ (k > 0 => metadata[f].blocks # <<>> /\ LlenoUltimo(f) + k <= BLOCK_SIZE)
  BY <1>0, UltimoOK DEF Sano, Hueco, Menor
<1>2. op' = [op EXCEPT ![f] = IF n = k THEN Libre ELSE [Libre EXCEPT !.pc = "toma", !.resta = n - k]]
      /\ metadata' = [metadata EXCEPT ![f].existe = TRUE, ![f].size = @ + k]
      /\ bitmap' = bitmap /\ pisados' = pisados /\ pedidos' = pedidos + 1 /\ pedidos < MaxPedidos
      /\ caida' \in BOOLEAN /\ op[f] = Libre
  BY DEF EmpezarEscritura, Atender
<1>3. contenido' \in [Bloques -> Llenos]
  <2>1. CASE k > 0
    <3>1. contenido' = [contenido EXCEPT ![Ultimo(f)] = @ \o Repetido(f, k)]
      BY <2>1 DEF EmpezarEscritura
    <3>2. contenido[Ultimo(f)] \o Repetido(f, k) \in Llenos
      BY <2>1, <1>1, UltimoOK, EscribirLlenos DEF Sano, LlenoUltimo
    <3> QED BY <3>1, <3>2 DEF Sano, Tipos
  <2>2. CASE ~(k > 0)
    BY <2>2 DEF EmpezarEscritura, Sano, Tipos
  <2> QED BY <2>1, <2>2
<1> HIDE DEF k
<1>4. op'[f].pc \in {"libre", "toma"} /\ (op'[f].pc = "toma" => op'[f].resta > 0)
      /\ op' \in [Archivos -> Pedidas]
  <2> DEFINE r == IF n = k THEN Libre ELSE [Libre EXCEPT !.pc = "toma", !.resta = n - k]
  <2>1. r \in Pedidas /\ r.pc \in {"libre", "toma"} /\ (r.pc = "toma" => r.resta > 0)
    BY <1>0, <1>1, SigueOTermina
  <2> QED BY <2>1, <1>2, CambiarOp DEF Sano
<1>5. metadata' \in [Archivos -> [existe : BOOLEAN, size : Nat, blocks : Seq(Bloques)]]
      /\ \A g \in Archivos : metadata'[g].blocks = metadata[g].blocks
  <2>1. metadata[f].size \in Nat
    BY Formas DEF Sano
  <2>2. metadata[f].size + k \in Nat
    BY <1>1, <2>1
  <2> QED BY <1>2, <2>2 DEF Sano, Tipos
<1>6. Tipos'
  BY <1>2, <1>3, <1>4, <1>5, ConstantesOK DEF Sano, Tipos
<1>7. \A g \in Archivos \ {f} : op'[g] = op[g]
  BY <1>2 DEF Sano, Tipos
<1>8. \A g \in Archivos : Marcha(g)'
  <2>1. Marcha(f)'
    BY <1>4 DEF Marcha
  <2> QED BY <2>1, <1>5, <1>7, MarchaIgual DEF Sano
<1>9. Reparto'
  <2>1. Suyos(f)' = Suyos(f)
    BY <1>2, <1>4, <1>5 DEF Suyos, Libre
  <2> QED BY <2>1, <1>2, <1>5, <1>7, SuyosIguales, RepartoQuieto DEF Sano
<1> QED BY <1>6, <1>8, <1>9 DEF Sano

\* A free block is marked, and it is of who marked it.
LEMMA PasoTomarBloque ==
  ASSUME Sano, NEW f \in Archivos, TomarBloque(f), disco' = disco
  PROVE  Sano'
<1> DEFINE b == Min(Bloques \ bitmap)
<1>1. contenido' = contenido /\ metadata' = metadata /\ pedidos' = pedidos /\ pisados' = pisados
      /\ op[f].pc = "toma" /\ caida = FALSE
  BY DEF TomarBloque, EnOp, Sano, Tipos
<1>2. CASE Bloques \ bitmap = {}
  <2>1. bitmap' = bitmap /\ op' = op /\ caida' = TRUE
    BY <1>2 DEF TomarBloque
  <2>2. \A g \in Archivos : Suyos(g)' = Suyos(g) /\ Marcha(g)'
    BY <1>1, <2>1, SuyosIguales, MarchaIgual DEF Sano
  <2> QED BY <1>1, <2>1, <2>2, RepartoQuieto DEF Sano, Tipos
<1>3. CASE Bloques \ bitmap # {}
  <2>1. b \in Bloques \ bitmap
    BY <1>3, MinEsta, BloquesOK
  <2>2. bitmap' = bitmap \cup {b} /\ op' = [op EXCEPT ![f].pc = "llena", ![f].bloque = b]
        /\ caida' = FALSE
    BY <1>1, <1>3 DEF TomarBloque, Ocupado
  <2> HIDE DEF b
  <2>3. op' \in [Archivos -> Pedidas] /\ op'[f].pc = "llena" /\ op'[f].bloque = b
        /\ op'[f].resta = op[f].resta
    <3> DEFINE r == [op[f] EXCEPT !.pc = "llena", !.bloque = b]
    <3>1. op[f] \in Pedidas /\ b \in Int
      BY <2>1, BloquesOK DEF Sano, Tipos
    <3>2. r \in Pedidas /\ r.pc = "llena" /\ r.bloque = b /\ r.resta = op[f].resta
      BY <3>1 DEF Pedidas, Puestos
    <3>3. op' = [op EXCEPT ![f] = r]
      BY <2>2
    <3> QED BY <3>2, <3>3, CambiarOp DEF Sano
  <2>4. Tipos'
    BY <1>1, <2>1, <2>2, <2>3 DEF Sano, Tipos
  <2>5. \A g \in Archivos \ {f} : op'[g] = op[g]
    BY <2>2 DEF Sano, Tipos
  <2>6. Suyos(f) = ToSet(metadata[f].blocks) /\ Suyos(f)' = Suyos(f) \cup {b}
    BY <1>1, <2>3 DEF Suyos
  <2>7. Suyos(f) \subseteq bitmap
    BY DEF Sano, Reparto, BloquesPropios
  <2>8. \A g \in Archivos : Marcha(g)'
    <3>1. Marcha(f)'
      BY <1>1, <2>1, <2>3, <2>6, <2>7 DEF Marcha, Sano
    <3> QED BY <3>1, <1>1, <2>5, MarchaIgual DEF Sano
  <2>9. IsInjective(metadata'[f].blocks)
    BY <1>1 DEF Sano, Reparto, BloquesPropios
  <2>10. bitmap' = (bitmap \ Suyos(f)) \cup (Suyos(f) \cup {b})
         /\ (Suyos(f) \cup {b}) \cap (bitmap \ Suyos(f)) = {}
    BY <2>1, <2>2, <2>7
  <2>11. Reparto'
    BY <1>1, <2>5, <2>6, <2>9, <2>10, RepartoPaso DEF Sano
  <2> QED BY <2>4, <2>8, <2>11 DEF Sano
<1> QED BY <1>2, <1>3

\* Blocks that are emptied.
LEMMA VaciadosOK ==
  ASSUME Tipos, NEW bs
  PROVE  Vaciados(bs) \in [Bloques -> Llenos]
<1>1. <<>> \in Llenos
  BY EmptySeq, BloquesOK DEF Llenos
<1> QED BY <1>1 DEF Vaciados, Tipos

\* The block is written and added to the list of who marked it.
LEMMA PasoLlenarBloque ==
  ASSUME Sano, NEW f \in Archivos, LlenarBloque(f), disco' = disco
  PROVE  Sano'
<1> DEFINE k == Menor(op[f].resta, BLOCK_SIZE)
           b == op[f].bloque
           blocks == metadata[f].blocks
<1>1. op[f].pc = "llena" /\ op[f].resta \in Nat \ {0} /\ b \in Bloques \ ToSet(blocks)
      /\ blocks \in Seq(Bloques) /\ metadata[f].size \in Nat /\ metadata[f].existe \in BOOLEAN
  <2>1. op[f].resta \in Int /\ op[f].pc = "llena"
    BY Formas DEF Sano, LlenarBloque, EnOp
  <2>2. op[f].resta > 0 /\ b \in Bloques \ ToSet(blocks)
    BY <2>1 DEF Sano, Marcha
  <2>3. op[f].resta \in Nat \ {0}
    BY <2>1, <2>2
  <2> QED BY <2>1, <2>2, <2>3, Formas DEF Sano
<1>2. k \in Nat \ {0} /\ k <= op[f].resta /\ k <= BLOCK_SIZE
  BY <1>1, BloquesOK DEF Menor
<1>3. /\ contenido' = [contenido EXCEPT ![b] = Repetido(f, k)]
      /\ metadata' = [metadata EXCEPT ![f].size = @ + k, ![f].blocks = Append(blocks, b)]
      /\ op' = [op EXCEPT ![f] = IF op[f].resta = k THEN Libre
                                 ELSE [Libre EXCEPT !.pc = "toma", !.resta = op[f].resta - k]]
      /\ bitmap' = bitmap /\ pisados' = pisados /\ pedidos' = pedidos /\ caida' \in BOOLEAN
  BY DEF LlenarBloque, LeeDeMas
<1> HIDE DEF k
<1>4. Append(blocks, b) \in Seq(Bloques) /\ ToSet(Append(blocks, b)) = ToSet(blocks) \cup {b}
      /\ IsInjective(Append(blocks, b))
  <2>1. IsInjective(blocks)
    BY DEF Sano, Reparto, BloquesPropios
  <2> QED BY <2>1, <1>1, AgregarSeq, ToSetEsRange
<1>5. contenido' \in [Bloques -> Llenos]
  <2>1. <<>> \in Llenos /\ Len(<<>>) + k <= BLOCK_SIZE
    BY <1>2, EmptySeq, BloquesOK DEF Llenos
  <2>2. Repetido(f, k) \in Llenos
    BY <1>2, <2>1, EscribirLlenos
  <2> QED BY <1>3, <2>2 DEF Sano, Tipos
<1>6. /\ metadata' \in [Archivos -> [existe : BOOLEAN, size : Nat, blocks : Seq(Bloques)]]
      /\ metadata'[f].blocks = Append(blocks, b)
      /\ \A g \in Archivos \ {f} : metadata'[g] = metadata[g]
  <2> DEFINE r == [metadata[f] EXCEPT !.size = @ + k, !.blocks = Append(blocks, b)]
  <2>1. metadata[f].size + k \in Nat
    BY <1>1, <1>2
  <2>2. r \in [existe : BOOLEAN, size : Nat, blocks : Seq(Bloques)] /\ r.blocks = Append(blocks, b)
    <3>1. metadata[f] \in [existe : BOOLEAN, size : Nat, blocks : Seq(Bloques)]
      BY DEF Sano, Tipos
    <3> QED BY <2>1, <1>4, <3>1
  <2>3. metadata' = [metadata EXCEPT ![f] = r]
    BY <1>3
  <2> QED BY <2>2, <2>3, CambiarMetadata DEF Sano
<1>7. /\ op' \in [Archivos -> Pedidas] /\ op'[f].pc \in {"libre", "toma"}
      /\ op'[f].pc = "toma" => op'[f].resta > 0
      /\ \A g \in Archivos \ {f} : op'[g] = op[g]
  <2> DEFINE r == IF op[f].resta = k THEN Libre
                  ELSE [Libre EXCEPT !.pc = "toma", !.resta = op[f].resta - k]
  <2>1. r \in Pedidas /\ r.pc \in {"libre", "toma"} /\ (r.pc = "toma" => r.resta > 0)
    BY <1>1, <1>2, SigueOTermina
  <2> QED BY <2>1, <1>3, CambiarOp DEF Sano
<1>8. Tipos'
  BY <1>3, <1>5, <1>6, <1>7 DEF Sano, Tipos
<1>9. \A g \in Archivos : Marcha(g)'
  <2>1. Marcha(f)'
    BY <1>7 DEF Marcha
  <2> QED BY <2>1, <1>6, <1>7, MarchaIgual DEF Sano
<1>10. Reparto'
  <2>1. Suyos(f) = ToSet(blocks) \cup {b}
    BY <1>1 DEF Suyos
  <2>2. Suyos(f)' = ToSet(blocks) \cup {b}
    BY <1>4, <1>6, <1>7 DEF Suyos
  <2>3. Suyos(f) \subseteq bitmap
    BY DEF Sano, Reparto, BloquesPropios
  <2>4. /\ bitmap' = (bitmap \ Suyos(f)) \cup Suyos(f)
        /\ Suyos(f) \cap (bitmap \ Suyos(f)) = {}
    BY <1>3, <2>3
  <2>5. Suyos(f)' = Suyos(f) /\ IsInjective(metadata'[f].blocks)
    BY <2>1, <2>2, <1>4, <1>6
  <2> QED BY <2>4, <2>5, <1>6, <1>7, RepartoPaso DEF Sano
<1> QED BY <1>8, <1>9, <1>10 DEF Sano

\* The blocks of a file are freed, all of them, and its list with them.
LEMMA SoltarTodo ==
  ASSUME Sano, NEW f \in Archivos, op[f] = Libre, op' = op,
         NEW r \in [existe : BOOLEAN, size : Nat, blocks : Seq(Bloques)], r.blocks = <<>>,
         contenido' = Vaciados(ToSet(metadata[f].blocks)), disco' = disco,
         bitmap' = bitmap \ ToSet(metadata[f].blocks),
         metadata' = [metadata EXCEPT ![f] = r],
         pisados' = pisados, caida' = caida, pedidos' = pedidos + 1, pedidos < MaxPedidos
  PROVE  Sano'
<1>1. /\ metadata' \in [Archivos -> [existe : BOOLEAN, size : Nat, blocks : Seq(Bloques)]]
      /\ metadata'[f].blocks = <<>> /\ \A g \in Archivos \ {f} : metadata'[g] = metadata[g]
  BY CambiarMetadata DEF Sano
<1>2. op[f].pc = "libre"
  BY DEF Libre
<1>3. Tipos'
  BY <1>1, VaciadosOK, ConstantesOK DEF Sano, Tipos
<1>4. \A g \in Archivos : Marcha(g)'
  <2>1. Marcha(f)'
    BY <1>2 DEF Marcha
  <2> QED BY <2>1, <1>1, MarchaIgual DEF Sano
<1>5. Reparto'
  <2>1. Suyos(f) = ToSet(metadata[f].blocks)
    BY <1>2 DEF Suyos
  <2>2. Suyos(f)' = {} /\ IsInjective(metadata'[f].blocks)
    BY <1>1, <1>2 DEF Suyos, ToSet, IsInjective
  <2> QED BY <2>1, <2>2, <1>1, RepartoPaso DEF Sano
<1> QED BY <1>3, <1>4, <1>5 DEF Sano

\* A consumption of more than there is.
LEMMA PasoQuitarTodo ==
  ASSUME Sano, NEW f \in Archivos, NEW n \in Consumibles, QuitarTodo(f, n), disco' = disco
  PROVE  Sano'
<1> DEFINE r == [metadata[f] EXCEPT !.size = 0, !.blocks = <<>>]
<1>1. metadata' = [metadata EXCEPT ![f] = r]
  BY DEF QuitarTodo
<1>2. r \in [existe : BOOLEAN, size : Nat, blocks : Seq(Bloques)] /\ r.blocks = <<>>
  <2>1. metadata[f] \in [existe : BOOLEAN, size : Nat, blocks : Seq(Bloques)]
    BY DEF Sano, Tipos
  <2> QED BY <2>1, EmptySeq
<1> QED BY <1>1, <1>2, SoltarTodo DEF QuitarTodo, Atender

\* DESCARTAR.
LEMMA PasoBorrarArchivo ==
  ASSUME Sano, NEW f \in Archivos, BorrarArchivo(f), disco' = disco
  PROVE  Sano'
<1>1. /\ SinArchivo \in [existe : BOOLEAN, size : Nat, blocks : Seq(Bloques)]
      /\ SinArchivo.blocks = <<>>
  BY EmptySeq DEF SinArchivo
<1> QED BY <1>1, SoltarTodo DEF BorrarArchivo, Atender, TrasBorrar

\* A consumption that the last block has: only what it holds changes, and SIZE.
LEMMA PasoQuitarDelUltimo ==
  ASSUME Sano, NEW f \in Archivos, NEW n \in Consumibles, QuitarDelUltimo(f, n), disco' = disco
  PROVE  Sano'
<1>1. /\ metadata[f].blocks # <<>> /\ op' = op /\ bitmap' = bitmap /\ pisados' = pisados
      /\ pedidos' = pedidos + 1 /\ pedidos < MaxPedidos /\ caida' \in BOOLEAN /\ n \in Nat
      /\ contenido' = [contenido EXCEPT ![Ultimo(f)] = SubSeq(@, 1, Len(@) - n)]
  BY ConstantesOK DEF QuitarDelUltimo, HayQueQuitar, Atender, LeeDeMas
<1>2. contenido' \in [Bloques -> Llenos]
  <2>1. contenido[Ultimo(f)] \in Llenos /\ Len(contenido[Ultimo(f)]) \in Nat
    BY <1>1, UltimoOK DEF Sano, LlenoUltimo
  <2>2. SubSeq(contenido[Ultimo(f)], 1, Len(contenido[Ultimo(f)]) - n) \in Llenos
    BY <1>1, <2>1, CortarLlenos
  <2> QED BY <1>1, <2>2 DEF Sano, Tipos
<1>3. /\ metadata' \in [Archivos -> [existe : BOOLEAN, size : Nat, blocks : Seq(Bloques)]]
      /\ \A g \in Archivos : metadata'[g].blocks = metadata[g].blocks
  <2>1. CASE FueraDeRango(metadata[f].size - n)
    BY <2>1 DEF QuitarDelUltimo, Sano, Tipos
  <2>2. CASE ~FueraDeRango(metadata[f].size - n)
    <3> DEFINE r == [metadata[f] EXCEPT !.size = @ - n]
    <3>1. metadata' = [metadata EXCEPT ![f] = r]
      BY <2>2 DEF QuitarDelUltimo
    <3>2. metadata[f].size - n \in Nat
      BY <1>1, <2>2, Formas DEF FueraDeRango, Sano
    <3>3. metadata[f] \in [existe : BOOLEAN, size : Nat, blocks : Seq(Bloques)]
      BY DEF Sano, Tipos
    <3>4. /\ r \in [existe : BOOLEAN, size : Nat, blocks : Seq(Bloques)]
          /\ r.blocks = metadata[f].blocks
      BY <3>2, <3>3
    <3> QED BY <3>1, <3>4, CambiarMetadata DEF Sano
  <2> QED BY <2>1, <2>2
<1>4. Tipos'
  BY <1>1, <1>2, <1>3, ConstantesOK DEF Sano, Tipos
<1>5. \A g \in Archivos : Marcha(g)' /\ Suyos(g)' = Suyos(g)
  BY <1>1, <1>3, MarchaIgual, SuyosIguales DEF Sano
<1> QED BY <1>1, <1>3, <1>4, <1>5, RepartoQuieto DEF Sano

\* The blocks of a file but the last that it still has.
LEMMA SinElUltimo ==
  ASSUME NEW s \in Seq(Bloques), IsInjective(s), NEW k \in 1..Len(s)
  PROVE  /\ ToSet(SubSeq(s, 1, k - 1)) = ToSet(SubSeq(s, 1, k)) \ {s[k]}
         /\ s[k] \in ToSet(SubSeq(s, 1, k)) /\ s[k] \in Bloques
<1>1. Len(s) \in Nat /\ DOMAIN s = 1..Len(s) /\ k - 1 \in 0..Len(s) /\ k \in 0..Len(s)
  BY LenProperties
<1>2. /\ ToSet(SubSeq(s, 1, k - 1)) = {s[i] : i \in 1..(k - 1)}
      /\ ToSet(SubSeq(s, 1, k)) = {s[i] : i \in 1..k}
  BY <1>1, PrefijoSeq
<1>3. \A i \in 1..(k - 1) : s[i] # s[k]
  <2>1. \A i, j \in DOMAIN s : s[i] = s[j] => i = j
    BY DEF IsInjective
  <2> QED BY <1>1, <2>1
<1>4. {s[i] : i \in 1..(k - 1)} = {s[i] : i \in 1..k} \ {s[k]} /\ s[k] \in {s[i] : i \in 1..k}
  BY <1>1, <1>3
<1>5. s[k] \in Bloques
  BY ElementOfSeq
<1> QED BY <1>2, <1>4, <1>5

\* A block of a list.
LEMMA BloqueDeLista ==
  ASSUME NEW s \in Seq(Bloques), NEW k \in 1..Len(s)
  PROVE  s[k] \in Bloques /\ s[k] \in Int
<1>1. s[k] \in Bloques
  BY ElementOfSeq
<1>2. PICK b \in Bloques : b = s[k]
  BY <1>1
<1>3. b \in Int
  BY BloquesOK
<1> QED BY <1>2, <1>3

\* All of a list.
LEMMA TodaLaLista ==
  ASSUME NEW s \in Seq(Bloques)
  PROVE  ToSet(s) = ToSet(SubSeq(s, 1, Len(s)))
<1>1. Len(s) \in Nat /\ DOMAIN s = 1..Len(s) /\ Len(s) \in 0..Len(s)
  BY LenProperties
<1>2. ToSet(SubSeq(s, 1, Len(s))) = {s[i] : i \in 1..Len(s)}
  BY <1>1, PrefijoSeq
<1> QED BY <1>1, <1>2 DEF ToSet

\* A consumption that empties the last block: the block is freed before it is emptied.
LEMMA PasoLiberarUltimo ==
  ASSUME Sano, ConsumoCorto, NEW f \in Archivos, NEW n \in Consumibles, LiberarUltimo(f, n),
         disco' = disco
  PROVE  Sano'
<1> DEFINE s == metadata[f].blocks
           b == Ultimo(f)
<1>1. /\ s # <<>> /\ bitmap' = bitmap \ {b} /\ metadata' = metadata /\ contenido' = contenido
      /\ pisados' = pisados /\ caida' = caida /\ op[f].pc = "libre"
      /\ pedidos' = pedidos + 1 /\ pedidos < MaxPedidos
      /\ op' = [op EXCEPT ![f] = [pc |-> "escribe_copia", bloque |-> b,
                                  resta |-> n - LlenoUltimo(f), vaciados |-> LlenoUltimo(f),
                                  quedan |-> Len(s) - 1]]
  BY DEF LiberarUltimo, HayQueQuitar, Atender, Libre
<1>2. /\ s \in Seq(Bloques) /\ IsInjective(s) /\ Len(s) \in Nat \ {0} /\ b = s[Len(s)]
      /\ b \in Int /\ LlenoUltimo(f) \in Nat /\ n \in Nat /\ n < 2 * BLOCK_SIZE
  <2>1. s \in Seq(Bloques) /\ IsInjective(s)
    BY Formas DEF Sano, Reparto, BloquesPropios
  <2>2. /\ Len(s) \in Nat \ {0} /\ b = s[Len(s)] /\ b \in Bloques
        /\ LlenoUltimo(f) \in 0..BLOCK_SIZE
    BY <1>1, UltimoOK DEF Sano
  <2>3. n \in Nat /\ n < 2 * BLOCK_SIZE
    BY ConstantesOK DEF ConsumoCorto
  <2> HIDE DEF b
  <2> QED BY <2>1, <2>2, <2>3, BloquesOK
<1> HIDE DEF b
<1>3. /\ op' \in [Archivos -> Pedidas] /\ op'[f].pc = "escribe_copia"
      /\ op'[f].quedan = Len(s) - 1 /\ op'[f].resta < 2 * BLOCK_SIZE
      /\ \A g \in Archivos \ {f} : op'[g] = op[g]
  <2>0. n - LlenoUltimo(f) \in Int /\ Len(s) - 1 \in Nat /\ LlenoUltimo(f) \in Int
    BY <1>2
  <2>1. PICK m \in Int, q \in Nat, v \in Int :
          m = n - LlenoUltimo(f) /\ q = Len(s) - 1 /\ v = LlenoUltimo(f)
    BY <2>0
  <2> DEFINE r == [pc |-> "escribe_copia", bloque |-> b, resta |-> m, vaciados |-> v, quedan |-> q]
  <2>2. r \in Pedidas
    BY <1>2 DEF Pedidas, Puestos
  <2>3. m < 2 * BLOCK_SIZE
    BY <1>2, <2>1, BloquesOK
  <2>4. op' = [op EXCEPT ![f] = r]
    BY <1>1, <2>1
  <2> QED BY <2>1, <2>2, <2>3, <2>4, CambiarOp DEF Sano
<1>4. Tipos'
  BY <1>1, <1>3, ConstantesOK DEF Sano, Tipos
<1>5. \A g \in Archivos : Marcha(g)'
  <2>1. Marcha(f)'
    BY <1>1, <1>3 DEF Marcha
  <2> QED BY <2>1, <1>1, <1>3, MarchaIgual DEF Sano
<1>6. Reparto'
  <2>1. Suyos(f) = ToSet(s)
    BY <1>1 DEF Suyos
  <2>2. Suyos(f)' = ToSet(SubSeq(s, 1, Len(s) - 1))
    BY <1>1, <1>3 DEF Suyos
  <2>3. Suyos(f)' = Suyos(f) \ {b} /\ b \in Suyos(f)
    BY <1>2, <2>1, <2>2, SinElUltimo, TodaLaLista
  <2>4. Suyos(f) \subseteq bitmap
    BY DEF Sano, Reparto, BloquesPropios
  <2>5. /\ bitmap' = (bitmap \ Suyos(f)) \cup (Suyos(f) \ {b})
        /\ (Suyos(f) \ {b}) \cap (bitmap \ Suyos(f)) = {}
    BY <1>1, <2>3, <2>4
  <2>6. IsInjective(metadata'[f].blocks)
    BY <1>1, <1>2
  <2> QED BY <1>1, <1>3, <2>3, <2>5, <2>6, RepartoPaso DEF Sano
<1> QED BY <1>4, <1>5, <1>6 DEF Sano

\* Then it is emptied, whoever has it.
LEMMA PasoEscribirCopia ==
  ASSUME Sano, NEW f \in Archivos, EscribirCopia(f), disco' = disco
  PROVE  Sano'
<1> DEFINE s == metadata[f].blocks
<1>1. /\ op[f].pc = "escribe_copia" /\ metadata' = metadata /\ bitmap' = bitmap
      /\ pedidos' = pedidos /\ contenido' = Vaciados({op[f].bloque}) /\ caida = FALSE
      /\ pisados' = pisados \cup {g \in Archivos \ {f} : op[f].bloque \in ToSet(metadata[g].blocks)}
  BY DEF EscribirCopia, EnOp, Sano, Tipos
<1>2. /\ s \in Seq(Bloques) /\ Len(s) \in Nat \ {0} /\ op[f].quedan = Len(s) - 1
      /\ op[f].resta \in Int /\ op[f].resta < 2 * BLOCK_SIZE
  <2>1. /\ s \in Seq(Bloques) /\ Len(s) \in Nat /\ s # <<>> /\ op[f].quedan = Len(s) - 1
        /\ op[f].resta \in Int /\ op[f].resta < 2 * BLOCK_SIZE
    BY <1>1, Formas DEF Sano, Marcha
  <2> QED BY <2>1, EmptySeq
<1>3. pisados' \subseteq Archivos /\ contenido' \in [Bloques -> Llenos]
  BY <1>1, VaciadosOK DEF Sano, Tipos
<1>4. CASE op[f].quedan = 0
  <2>1. op' = op /\ caida' = TRUE
    BY <1>4 DEF EscribirCopia
  <2>2. Tipos'
    BY <1>1, <1>3, <2>1 DEF Sano, Tipos
  <2>3. \A g \in Archivos : Marcha(g)' /\ Suyos(g)' = Suyos(g)
    BY <1>1, <2>1, MarchaIgual, SuyosIguales DEF Sano
  <2> QED BY <1>1, <2>2, <2>3, RepartoQuieto DEF Sano
<1>5. CASE op[f].quedan # 0
  <2> DEFINE q == op[f].quedan
             r == [op[f] EXCEPT !.pc = "libera", !.bloque = s[q]]
  <2>1. q \in 1..Len(s)
    <3>1. PICK n \in Nat \ {0}, m \in Nat : n = Len(s) /\ m = q
      BY <1>2, Formas DEF Sano
    <3>2. m = n - 1 /\ m # 0
      BY <3>1, <1>2, <1>5
    <3>3. m \in 1..n
      BY <3>2
    <3> HIDE DEF s, q
    <3> QED BY <3>1, <3>3
  <2>2. op' = [op EXCEPT ![f] = r] /\ caida' = FALSE
    BY <1>1, <1>5 DEF EscribirCopia
  <2>3. r \in Pedidas /\ r.pc = "libera" /\ r.bloque = s[q] /\ r.quedan = q /\ r.resta = op[f].resta
    <3>1. op[f] \in Pedidas
      BY DEF Sano, Tipos
    <3>2. s[q] \in Int
      BY <1>2, <2>1, BloqueDeLista
    <3> HIDE DEF s
    <3> QED BY <3>1, <3>2 DEF Pedidas, Puestos
  <2> HIDE DEF r
  <2>4. op' \in [Archivos -> Pedidas] /\ op'[f] = r /\ \A g \in Archivos \ {f} : op'[g] = op[g]
    BY <2>2, <2>3, CambiarOp DEF Sano
  <2>5. Tipos'
    BY <1>1, <1>3, <2>2, <2>4 DEF Sano, Tipos
  <2>6. Marcha(f)'
    BY <1>1, <1>2, <2>1, <2>3, <2>4 DEF Marcha
  <2>7. \A g \in Archivos : Marcha(g)'
    BY <2>6, <1>1, <2>4, MarchaIgual DEF Sano
  <2>8. Suyos(f)' = Suyos(f)
    BY <1>1, <2>3, <2>4 DEF Suyos
  <2>9. \A g \in Archivos : Suyos(g)' = Suyos(g)
    BY <2>8, <1>1, <2>4, SuyosIguales
  <2> QED BY <1>1, <2>5, <2>7, <2>9, RepartoQuieto DEF Sano
<1> QED BY <1>4, <1>5

\* A whole block less: with less than two to consume it is the last the file has.
LEMMA PasoLiberarOtro ==
  ASSUME Sano, NEW f \in Archivos, LiberarOtro(f), disco' = disco
  PROVE  Sano'
<1> DEFINE s == metadata[f].blocks
           q == op[f].quedan
           m == op[f].resta
           r == [op[f] EXCEPT !.bloque = @ - 1, !.quedan = @ - 1,
                              !.resta = @ - BLOCK_SIZE, !.vaciados = @ + BLOCK_SIZE]
<1>1. op[f].pc = "libera" /\ m >= BLOCK_SIZE /\ metadata' = metadata /\ pedidos' = pedidos
      /\ pisados' = pisados
  BY DEF LiberarOtro, EnOp
<1>2. /\ s \in Seq(Bloques) /\ IsInjective(s) /\ Len(s) \in Nat /\ q \in Nat /\ m \in Int
      /\ op[f].bloque \in Int /\ op[f].vaciados \in Int
  BY Formas DEF Sano, Reparto, BloquesPropios
<1>3. q <= Len(s) /\ q >= 1 /\ op[f].bloque = s[q] /\ m < 2 * BLOCK_SIZE
  BY <1>1 DEF Sano, Marcha
<1>4. q \in 1..Len(s) /\ q - 1 \in Nat /\ q - 1 <= Len(s) /\ m - BLOCK_SIZE < BLOCK_SIZE
      /\ m - BLOCK_SIZE \in Int
  <2> HIDE DEF q, s, m
  <2> QED BY <1>2, <1>3, BloquesOK
<1>5. s[q] \in Bloques
  BY <1>2, <1>4, BloqueDeLista
<1>6. contenido' = Vaciados({s[q]}) /\ bitmap' = bitmap \ {s[q]} /\ op' = [op EXCEPT ![f] = r]
      /\ caida' = caida
  BY <1>3, <1>5 DEF LiberarOtro
<1>7. r \in Pedidas /\ r.pc = "libera" /\ r.quedan = q - 1 /\ r.resta = m - BLOCK_SIZE
  <2>1. op[f] \in Pedidas
    BY DEF Sano, Tipos
  <2>2. op[f].bloque - 1 \in Int /\ op[f].vaciados + BLOCK_SIZE \in Int
    BY <1>2, BloquesOK
  <2> QED BY <1>1, <1>4, <2>1, <2>2 DEF Pedidas
<1> HIDE DEF r
<1>8. op' \in [Archivos -> Pedidas] /\ op'[f] = r /\ \A g \in Archivos \ {f} : op'[g] = op[g]
  BY <1>6, <1>7, CambiarOp DEF Sano
<1>9. Tipos'
  BY <1>1, <1>6, <1>8, VaciadosOK DEF Sano, Tipos
<1>10. \A g \in Archivos : Marcha(g)'
  <2>1. Marcha(f)'
    <3>1. op'[f].pc = "libera" /\ op'[f].quedan <= Len(metadata'[f].blocks)
          /\ ~(op'[f].resta >= BLOCK_SIZE)
      <4>1. \A x \in Int : x < BLOCK_SIZE => ~(x >= BLOCK_SIZE)
        BY BloquesOK
      <4> QED BY <1>1, <1>4, <1>7, <1>8, <4>1
    <3> QED BY <3>1 DEF Marcha
  <2> QED BY <2>1, <1>1, <1>8, MarchaIgual DEF Sano
<1>11. Reparto'
  <2>1. Suyos(f) = ToSet(SubSeq(s, 1, q))
    BY <1>1 DEF Suyos
  <2>2. Suyos(f)' = ToSet(SubSeq(s, 1, q - 1))
    BY <1>1, <1>7, <1>8 DEF Suyos
  <2>3. Suyos(f)' = Suyos(f) \ {s[q]} /\ s[q] \in Suyos(f)
    BY <1>2, <1>4, <2>1, <2>2, SinElUltimo
  <2>4. Suyos(f) \subseteq bitmap
    BY DEF Sano, Reparto, BloquesPropios
  <2>5. /\ bitmap' = (bitmap \ Suyos(f)) \cup (Suyos(f) \ {s[q]})
        /\ (Suyos(f) \ {s[q]}) \cap (bitmap \ Suyos(f)) = {}
    BY <1>6, <2>3, <2>4
  <2>6. IsInjective(metadata'[f].blocks)
    BY <1>1, <1>2
  <2> QED BY <1>1, <1>8, <2>3, <2>5, <2>6, RepartoPaso DEF Sano
<1> QED BY <1>9, <1>10, <1>11 DEF Sano

\* The rest comes from the end of the block that is now the last, and the list is cut.
LEMMA PasoTerminarConsumo ==
  ASSUME Sano, NEW f \in Archivos, TerminarConsumo(f), disco' = disco
  PROVE  Sano'
<1> DEFINE s == metadata[f].blocks
           q == op[f].quedan
           m == op[f].resta
           size == SizeTrasConsumo(f)
<1>1. op[f].pc = "libera" /\ bitmap' = bitmap /\ pedidos' = pedidos /\ pisados' = pisados
  BY DEF TerminarConsumo, EnOp
<1>2. /\ s \in Seq(Bloques) /\ IsInjective(s) /\ Len(s) \in Nat /\ q \in Nat /\ m \in Int
      /\ op[f].vaciados \in Int /\ metadata[f].size \in Nat /\ metadata[f].existe \in BOOLEAN
  BY Formas DEF Sano, Reparto, BloquesPropios
<1>3. q \in 0..Len(s)
  <2>1. q <= Len(s)
    BY <1>1 DEF Sano, Marcha
  <2> HIDE DEF q, s
  <2> QED BY <1>2, <2>1
<1>4. contenido' \in [Bloques -> Llenos]
  <2>1. CASE q > 0 /\ m > 0
    <3> DEFINE b == s[q]
    <3>1. q \in 1..Len(s)
      <4> HIDE DEF q, s
      <4> QED BY <1>3, <2>1
    <3>2. b \in Bloques
      BY <1>2, <3>1, BloqueDeLista
    <3>3. contenido' = [contenido EXCEPT ![b] =
                          SubSeq(@, 1, Menor(Len(@), BLOCK_SIZE - m))]
      BY <2>1 DEF TerminarConsumo
    <3> HIDE DEF b
    <3>4. contenido[b] \in Llenos /\ Len(contenido[b]) \in Nat
      BY <3>2, LenProperties DEF Sano, Tipos, Llenos
    <3>5. /\ Menor(Len(contenido[b]), BLOCK_SIZE - m) \in Int
          /\ Menor(Len(contenido[b]), BLOCK_SIZE - m) <= Len(contenido[b])
      <4> HIDE DEF m
      <4> QED BY <1>2, <3>4, BloquesOK DEF Menor
    <3>6. SubSeq(contenido[b], 1, Menor(Len(contenido[b]), BLOCK_SIZE - m)) \in Llenos
      BY <3>4, <3>5, CortarLlenos
    <3> QED BY <3>3, <3>6 DEF Sano, Tipos
  <2>2. CASE ~(q > 0 /\ m > 0)
    BY <2>2 DEF TerminarConsumo, Sano, Tipos
  <2> QED BY <2>1, <2>2
<1>5. CASE q > 0 /\ FueraDeRango(size)
  <2>1. metadata' = metadata /\ op' = op /\ caida' = TRUE
    BY <1>5 DEF TerminarConsumo
  <2>2. Tipos'
    BY <1>1, <1>4, <2>1 DEF Sano, Tipos
  <2>3. \A g \in Archivos : Marcha(g)' /\ Suyos(g)' = Suyos(g)
    BY <2>1, MarchaIgual, SuyosIguales DEF Sano
  <2> QED BY <1>1, <2>1, <2>2, <2>3, RepartoQuieto DEF Sano
<1>6. CASE ~(q > 0 /\ FueraDeRango(size))
  <2> DEFINE t == SubSeq(s, 1, q)
             r == [metadata[f] EXCEPT !.size = IF q = 0 THEN 0 ELSE size, !.blocks = t]
  <2>1. metadata' = [metadata EXCEPT ![f] = r] /\ op' = [op EXCEPT ![f] = Libre]
        /\ caida' \in BOOLEAN
    BY <1>6 DEF TerminarConsumo, ListaRecortada, LeeDeMas
  <2>2. t \in Seq(Bloques) /\ IsInjective(t)
    BY <1>2, <1>3, PrefijoSeq
  <2>3. size \in Int
    BY <1>2 DEF SizeTrasConsumo
  <2>4. (IF q = 0 THEN 0 ELSE size) \in Nat
    <3> HIDE DEF q, size
    <3> QED BY <1>2, <1>6, <2>3 DEF FueraDeRango
  <2>5. r \in [existe : BOOLEAN, size : Nat, blocks : Seq(Bloques)] /\ r.blocks = t
    <3>1. metadata[f] \in [existe : BOOLEAN, size : Nat, blocks : Seq(Bloques)]
      BY DEF Sano, Tipos
    <3> HIDE DEF q, size, t
    <3> QED BY <2>2, <2>4, <3>1
  <2> HIDE DEF r
  <2>6. /\ metadata' \in [Archivos -> [existe : BOOLEAN, size : Nat, blocks : Seq(Bloques)]]
        /\ metadata'[f].blocks = t /\ \A g \in Archivos \ {f} : metadata'[g] = metadata[g]
    BY <2>1, <2>5, CambiarMetadata DEF Sano
  <2>7. Libre \in Pedidas /\ Libre.pc = "libre"
    BY DEF Libre, Pedidas, Puestos
  <2>8. op' \in [Archivos -> Pedidas] /\ op'[f].pc = "libre"
        /\ \A g \in Archivos \ {f} : op'[g] = op[g]
    BY <2>1, <2>7, CambiarOp DEF Sano
  <2>9. Tipos'
    BY <1>1, <1>4, <2>1, <2>6, <2>8 DEF Sano, Tipos
  <2>10. \A g \in Archivos : Marcha(g)'
    <3>1. Marcha(f)'
      BY <2>8 DEF Marcha
    <3> QED BY <3>1, <2>6, <2>8, MarchaIgual DEF Sano
  <2>11. Reparto'
    <3>1. Suyos(f) = ToSet(t) /\ Suyos(f)' = ToSet(t)
      BY <1>1, <2>6, <2>8 DEF Suyos
    <3>2. Suyos(f) \subseteq bitmap
      BY DEF Sano, Reparto, BloquesPropios
    <3>3. /\ bitmap' = (bitmap \ Suyos(f)) \cup Suyos(f)
          /\ Suyos(f) \cap (bitmap \ Suyos(f)) = {}
      BY <1>1, <3>2
    <3>4. Suyos(f)' = Suyos(f) /\ IsInjective(metadata'[f].blocks)
      BY <3>1, <2>2, <2>6
    <3> QED BY <3>3, <3>4, <2>6, <2>8, RepartoPaso DEF Sano
  <2> QED BY <2>9, <2>10, <2>11 DEF Sano
<1> QED BY <1>5, <1>6

-----------------------------------------------------------------------------
(* The restart and the copies to the disk.                                   *)

\* What is served on one file.
LEMMA PasoNext ==
  ASSUME Sano, ConsumoCorto, Next, disco' = disco
  PROVE  Sano'
<1>1. PICK f \in Archivos :
        \/ \E n \in Escribibles : EmpezarEscritura(f, n)
        \/ TomarBloque(f) \/ LlenarBloque(f)
        \/ \E n \in Consumibles : Consumir(f, n)
        \/ EscribirCopia(f) \/ LiberarOtro(f) \/ TerminarConsumo(f)
        \/ BorrarArchivo(f)
  BY DEF Next
<1>2. CASE \E n \in Escribibles : EmpezarEscritura(f, n)
  BY <1>2, PasoEmpezarEscritura
<1>3. CASE TomarBloque(f)
  BY <1>3, PasoTomarBloque
<1>4. CASE LlenarBloque(f)
  BY <1>4, PasoLlenarBloque
<1>5. CASE \E n \in Consumibles : Consumir(f, n)
  BY <1>5, PasoQuitarTodo, PasoQuitarDelUltimo, PasoLiberarUltimo DEF Consumir
<1>6. CASE EscribirCopia(f)
  BY <1>6, PasoEscribirCopia
<1>7. CASE LiberarOtro(f)
  BY <1>7, PasoLiberarOtro
<1>8. CASE TerminarConsumo(f)
  BY <1>8, PasoTerminarConsumo
<1>9. CASE BorrarArchivo(f)
  BY <1>9, PasoBorrarArchivo
<1> QED BY <1>1, <1>2, <1>3, <1>4, <1>5, <1>6, <1>7, <1>8, <1>9

\* The blocks in memory are copied to the disk, or taken from it: who has which does not
\* depend on what they hold.
LEMMA PasoCopia ==
  ASSUME Sano, contenido' \in {contenido, disco}, disco' \in {contenido, disco},
         UNCHANGED <<bitmap, metadata, op, pedidos, pisados, caida>>
  PROVE  Sano'
<1>1. Tipos'
  BY DEF Sano, Tipos
<1>2. \A g \in Archivos : Marcha(g)' /\ Suyos(g)' = Suyos(g)
  BY MarchaIgual, SuyosIguales DEF Sano
<1> QED BY <1>1, <1>2, RepartoQuieto DEF Sano

\* A new disk.
LEMMA InicialSano ==
  ASSUME RInit
  PROVE  Sano
<1>1. <<>> \in Llenos /\ Libre \in Pedidas /\ Libre.pc = "libre"
      /\ SinArchivo \in [existe : BOOLEAN, size : Nat, blocks : Seq(Bloques)]
      /\ SinArchivo.blocks = <<>>
  BY EmptySeq, BloquesOK DEF Llenos, Libre, Pedidas, Puestos, SinArchivo
<1>2. Tipos
  <2>1. /\ contenido \in [Bloques -> Llenos] /\ disco = contenido
        /\ metadata \in [Archivos -> [existe : BOOLEAN, size : Nat, blocks : Seq(Bloques)]]
        /\ op \in [Archivos -> Pedidas]
    BY <1>1 DEF RInit, FInit, Init
  <2>2. bitmap \subseteq Bloques /\ pisados \subseteq Archivos /\ caida \in BOOLEAN
    BY DEF RInit, FInit, Init
  <2>3. pedidos \in 0..MaxPedidos
    BY ConstantesOK DEF RInit, FInit, Init
  <2> QED BY <2>1, <2>2, <2>3 DEF Tipos
<1>3. \A f \in Archivos : op[f].pc = "libre" /\ metadata[f].blocks = <<>>
  BY <1>1 DEF RInit, FInit, Init
<1>4. bitmap = {} /\ IsInjective(<<>>) /\ ToSet(<<>>) = {}
  BY DEF RInit, FInit, Init, IsInjective, ToSet
<1>5. \A f \in Archivos : Marcha(f) /\ Suyos(f) = {}
  BY <1>3, <1>4 DEF Marcha, Suyos
<1>6. Reparto
  BY <1>3, <1>4, <1>5 DEF Reparto, BloquesPropios, SinBloquesPerdidos
<1> QED BY <1>2, <1>5, <1>6 DEF Sano

-----------------------------------------------------------------------------
(* The sabotage.                                                             *)

\* The blocks that a file lists and are not marked.
Sueltos == (Listados \cap Bloques) \ bitmap

CamposDeArchivo == {"existe", "size", "blocks"}
CamposDePedido == {"pc", "resta", "bloque", "quedan", "vaciados"}

\* What is known of the metadata while the files are wrong.
Listas ==
  /\ DOMAIN metadata = Archivos
  /\ \A f \in Archivos : /\ DOMAIN metadata[f] = CamposDeArchivo
                         /\ metadata[f].blocks \in Seq(Bloques \cup {BLOCK_COUNT})

\* While the files are wrong nothing is known of the sizes; at most one block can be taken
\* for free and not be, and once looked for it is the one that was found.
Alterado ==
  /\ bitmap \subseteq Bloques
  /\ Listas
  /\ DOMAIN op = Archivos
  /\ \A f \in Archivos :
       /\ DOMAIN op[f] = CamposDePedido
       /\ op[f].pc \in {"libre", "toma", "llena"}
       /\ op[f].pc = "llena" => op[f].bloque \in bitmap
  /\ SabotajeNoContagia
  /\ \A b, c \in Sueltos : b = c
  /\ bloque_corrupto # SinBuscar => Sueltos \subseteq {bloque_corrupto}

Atencion == {"pedido", "por_revisar", "distraido", "revisado", "por_avisar"}

\* What every step keeps, until the sabotage is solved.
Inductiva ==
  \/ fsck = "resuelto"
  \/ fsck = "sano" /\ ~estoy_saboteado /\ Sano
  \/ fsck \in Atencion /\ Alterado

\* A file of which only the list changes.
LEMMA OtraLista ==
  ASSUME Listas, NEW f \in Archivos, NEW s \in Seq(Bloques \cup {BLOCK_COUNT}),
         metadata' = [metadata EXCEPT ![f].blocks = s]
  PROVE  /\ Listas'
         /\ metadata'[f].blocks = s /\ \A g \in Archivos \ {f} : metadata'[g] = metadata[g]
<1>1. DOMAIN metadata = Archivos /\ \A g \in Archivos : DOMAIN metadata[g] = CamposDeArchivo
  BY DEF Listas
<1>2. metadata'[f] = [metadata[f] EXCEPT !.blocks = s]
  BY <1>1
<1>3. DOMAIN metadata'[f] = CamposDeArchivo /\ metadata'[f].blocks = s
  BY <1>1, <1>2 DEF CamposDeArchivo
<1>4. DOMAIN metadata' = Archivos /\ \A g \in Archivos \ {f} : metadata'[g] = metadata[g]
  BY <1>1
<1> QED BY <1>3, <1>4 DEF Listas

\* A list of blocks is one of blocks and of a number past them.
LEMMA ListaAmplia ==
  ASSUME NEW s \in Seq(Bloques)
  PROVE  s \in Seq(Bloques \cup {BLOCK_COUNT})
<1>1. Len(s) \in Nat /\ s \in [1..Len(s) -> Bloques]
  BY LenProperties
<1>2. s \in [1..Len(s) -> Bloques \cup {BLOCK_COUNT}]
  BY <1>1
<1> QED BY <1>1, <1>2, IsASeq

\* The state before the sabotage.
LEMMA AntesDeAlterar ==
  ASSUME Sano, Reposo
  PROVE  /\ Listas /\ DOMAIN op = Archivos
         /\ \A f \in Archivos :
              /\ DOMAIN op[f] = CamposDePedido
              /\ metadata[f].blocks \in Seq(Bloques) /\ op[f].pc = "libre"
              /\ Suyos(f) = ToSet(metadata[f].blocks) /\ ToSet(metadata[f].blocks) \subseteq bitmap
         /\ \A f, g \in Archivos :
              f # g => ToSet(metadata[f].blocks) \cap ToSet(metadata[g].blocks) = {}
         /\ Listados \subseteq bitmap /\ bitmap \subseteq Bloques
<1>1. DOMAIN metadata = Archivos /\ DOMAIN op = Archivos /\ bitmap \subseteq Bloques
  BY DEF Sano, Tipos
<1>2. \A f \in Archivos : op[f].pc = "libre" /\ DOMAIN op[f] = CamposDePedido
  BY DEF Reposo, Libre, CamposDePedido
<1>3. \A f \in Archivos : DOMAIN metadata[f] = CamposDeArchivo /\ metadata[f].blocks \in Seq(Bloques)
  <2>1. \A f \in Archivos : metadata[f] \in [existe : BOOLEAN, size : Nat, blocks : Seq(Bloques)]
    BY DEF Sano, Tipos
  <2> QED BY <2>1 DEF CamposDeArchivo
<1>4. \A f \in Archivos : Suyos(f) = ToSet(metadata[f].blocks)
  BY <1>2 DEF Suyos
<1>5. /\ \A f \in Archivos : Suyos(f) \subseteq bitmap
      /\ \A f \in Archivos : \A g \in Archivos \ {f} : Suyos(f) \cap Suyos(g) = {}
  BY DEF Sano, Reparto, BloquesPropios
<1>6. Listados \subseteq bitmap
  BY <1>4, <1>5 DEF Listados
<1>7. Listas
  BY <1>1, <1>3, ListaAmplia DEF Listas
<1> QED BY <1>1, <1>2, <1>3, <1>4, <1>5, <1>6, <1>7

\* One bit that is edited, or one block added to a list, is all that is wrong.
LEMMA AlterarListas ==
  ASSUME Sano, Reposo, op' = op, bloque_corrupto' = SinBuscar, NEW x,
         Listas', bitmap' \subseteq Bloques,
         \A f \in Archivos : ToSet(metadata'[f].blocks) \subseteq ToSet(metadata[f].blocks) \cup {x},
         \A f, g \in Archivos :
           f # g => ToSet(metadata'[f].blocks) \cap ToSet(metadata'[g].blocks) = {},
         bitmap \ {x} \subseteq bitmap'
  PROVE  Alterado'
<1>1. \A f \in Archivos : op'[f].pc = "libre" /\ DOMAIN op'[f] = CamposDePedido
  BY AntesDeAlterar
<1>2. DOMAIN op' = Archivos
  BY AntesDeAlterar
<1>3. \A f \in Archivos : Suyos(f)' = ToSet(metadata'[f].blocks)
  BY <1>1 DEF Suyos
<1>4. SabotajeNoContagia'
  BY <1>3 DEF SabotajeNoContagia
<1>5. \A b \in Sueltos' : b = x
  <2>1. SUFFICES ASSUME NEW f \in Archivos, NEW b \in ToSet(metadata'[f].blocks), b # x
                 PROVE  b \in bitmap'
    BY DEF Sueltos, Listados
  <2>2. b \in ToSet(metadata[f].blocks)
    BY <2>1
  <2>3. b \in bitmap
    BY <2>2, AntesDeAlterar
  <2> QED BY <2>1, <2>3
<1> QED BY <1>1, <1>2, <1>4, <1>5 DEF Alterado

\* The first block of a list and the last change places.
LEMMA OtroOrden ==
  ASSUME NEW s \in Seq(Bloques), Len(s) > 1,
         NEW t, t = [s EXCEPT ![1] = Last(s), ![Len(s)] = Head(s)]
  PROVE  t \in Seq(Bloques) /\ ToSet(t) \subseteq ToSet(s)
<1>1. /\ Len(s) \in Nat /\ DOMAIN s = 1..Len(s) /\ s \in [1..Len(s) -> Bloques]
      /\ 1 \in 1..Len(s) /\ Len(s) \in 1..Len(s)
  BY LenProperties
<1>2. Last(s) = s[Len(s)] /\ Head(s) = s[1]
  BY EmptySeq, HeadTailProperties DEF Last
<1>3. s[Len(s)] \in Bloques /\ s[1] \in Bloques
  BY <1>1
<1>4. DOMAIN t = 1..Len(s) /\ \A i \in 1..Len(s) : t[i] \in {s[i], s[1], s[Len(s)]}
  BY <1>1, <1>2
<1>5. t \in [1..Len(s) -> Bloques]
  BY <1>1, <1>2, <1>3
<1>6. t \in Seq(Bloques)
  <2>1. PICK n \in Nat : n = Len(s)
    BY <1>1
  <2>2. t \in [1..n -> Bloques]
    BY <1>5, <2>1
  <2> QED BY ONLY <2>2, n \in Nat, IsASeq
<1>7. ToSet(t) \subseteq ToSet(s)
  <2>1. \A i \in DOMAIN t : \E j \in DOMAIN s : t[i] = s[j]
    BY <1>1, <1>4
  <2> QED BY ONLY <2>1 DEF ToSet
<1> QED BY <1>6, <1>7

\* The files are edited and the signal sent.
LEMMA PasoSabotear ==
  ASSUME Sano, Sabotear
  PROVE  Alterado'
<1>1. Reposo /\ op' = op /\ bloque_corrupto' = SinBuscar
  BY DEF Sabotear, Olvidar
<1>2. ASSUME bitmap' = bitmap, metadata' = metadata
      PROVE  Alterado'
  <2>1. Listas' /\ bitmap' \subseteq Bloques
    BY <1>1, <1>2, AntesDeAlterar DEF Listas
  <2>2. \A f, g \in Archivos :
           f # g => ToSet(metadata'[f].blocks) \cap ToSet(metadata'[g].blocks) = {}
    BY <1>1, <1>2, AntesDeAlterar
  <2> QED BY <1>1, <1>2, <2>1, <2>2, AlterarListas
<1>3. CASE AlterarBitmap
  <2>1. PICK x \in Bloques : bitmap' = SymDiff(bitmap, {x})
    BY <1>3 DEF AlterarBitmap
  <2>2. metadata' = metadata
    BY <1>3 DEF AlterarBitmap
  <2>3. bitmap \subseteq Bloques /\ Listas
    BY <1>1, AntesDeAlterar
  <2>4. bitmap' \subseteq Bloques /\ bitmap \ {x} \subseteq bitmap'
    BY <2>1, <2>3 DEF SymDiff
  <2>5. Listas'
    BY <2>2, <2>3 DEF Listas
  <2>6. \A f, g \in Archivos :
           f # g => ToSet(metadata'[f].blocks) \cap ToSet(metadata'[g].blocks) = {}
    BY <1>1, <2>2, AntesDeAlterar
  <2> QED BY <1>1, <2>2, <2>4, <2>5, <2>6, AlterarListas
<1>4. ASSUME NEW f \in Existentes, AlterarSize(f)
      PROVE  Alterado'
  <2>1. f \in Archivos /\ Listas /\ bitmap' = bitmap
    BY <1>1, <1>4, AntesDeAlterar DEF Existentes, Archivos, AlterarSize
  <2>2. PICK size : metadata' = [metadata EXCEPT ![f].size = size]
    BY <1>4 DEF AlterarSize
  <2>3. Listas' /\ \A g \in Archivos : metadata'[g].blocks = metadata[g].blocks
    BY <2>1, <2>2 DEF Listas, CamposDeArchivo
  <2>4. bitmap' \subseteq Bloques
    BY <1>1, <2>1, AntesDeAlterar
  <2>5. \A g, h \in Archivos :
           g # h => ToSet(metadata'[g].blocks) \cap ToSet(metadata'[h].blocks) = {}
    BY <1>1, <2>3, AntesDeAlterar
  <2> QED BY <1>1, <2>1, <2>3, <2>4, <2>5, AlterarListas
<1>5. ASSUME NEW f \in Existentes, AlterarOrden(f)
      PROVE  Alterado'
  <2> DEFINE s == metadata[f].blocks
             t == [s EXCEPT ![1] = Last(s), ![Len(s)] = Head(s)]
  <2>1. f \in Archivos /\ Listas /\ bitmap' = bitmap /\ Len(s) > 1 /\ s \in Seq(Bloques)
    BY <1>1, <1>5, AntesDeAlterar DEF Existentes, Archivos, AlterarOrden
  <2>2. metadata' = [metadata EXCEPT ![f].blocks = t]
    BY <1>5 DEF AlterarOrden
  <2>3. t \in Seq(Bloques \cup {BLOCK_COUNT}) /\ ToSet(t) \subseteq ToSet(s)
    BY <2>1, OtroOrden, ListaAmplia
  <2> HIDE DEF t
  <2>4. Listas' /\ metadata'[f].blocks = t /\ \A g \in Archivos \ {f} : metadata'[g] = metadata[g]
    BY <2>1, <2>2, <2>3, OtraLista
  <2>5. bitmap' \subseteq Bloques
    BY <1>1, <2>1, AntesDeAlterar
  <2>6. \A g \in Archivos : ToSet(metadata'[g].blocks) \subseteq ToSet(metadata[g].blocks)
    BY <2>3, <2>4
  <2>7. \A g, h \in Archivos :
           g # h => ToSet(metadata'[g].blocks) \cap ToSet(metadata'[h].blocks) = {}
    BY <1>1, <2>6, AntesDeAlterar
  <2> QED BY <1>1, <2>1, <2>4, <2>5, <2>6, <2>7, AlterarListas
<1>6. ASSUME NEW f \in Existentes, AlterarBlocks(f)
      PROVE  Alterado'
  <2> DEFINE s == metadata[f].blocks
  <2>1. f \in Archivos /\ Listas /\ bitmap' = bitmap /\ s \in Seq(Bloques \cup {BLOCK_COUNT})
    BY <1>1, <1>6, AntesDeAlterar DEF Existentes, Archivos, AlterarBlocks, Listas
  <2>2. PICK x \in {BLOCK_COUNT} \cup (Bloques \ bitmap) :
          metadata' = [metadata EXCEPT ![f].blocks = Append(s, x)]
    BY <1>6 DEF AlterarBlocks
  <2>3. /\ Append(s, x) \in Seq(Bloques \cup {BLOCK_COUNT})
        /\ ToSet(Append(s, x)) = ToSet(s) \cup {x}
    BY <2>1, AgregarSeq, ToSetEsRange
  <2>4. /\ Listas' /\ metadata'[f].blocks = Append(s, x)
        /\ \A g \in Archivos \ {f} : metadata'[g] = metadata[g]
    BY <2>1, <2>2, <2>3, OtraLista
  <2>5. bitmap' \subseteq Bloques
    BY <1>1, <2>1, AntesDeAlterar
  <2>6. \A g \in Archivos : ToSet(metadata'[g].blocks) \subseteq ToSet(metadata[g].blocks) \cup {x}
    BY <2>3, <2>4
  <2>7. \A g \in Archivos : x \notin ToSet(metadata[g].blocks)
    BY <1>1, <2>2, AntesDeAlterar, BloquesOK
  <2>8. \A g, h \in Archivos :
           g # h => ToSet(metadata'[g].blocks) \cap ToSet(metadata'[h].blocks) = {}
    <3>1. SUFFICES ASSUME NEW g \in Archivos, NEW h \in Archivos \ {g}, NEW y,
                          y \in ToSet(metadata'[g].blocks), y \in ToSet(metadata'[h].blocks)
                   PROVE  FALSE
      OBVIOUS
    <3>2. y # x
      BY <3>1, <2>4, <2>7
    <3>3. y \in ToSet(metadata[g].blocks) /\ y \in ToSet(metadata[h].blocks)
      BY <3>1, <3>2, <2>6
    <3> QED BY <3>3, <1>1, AntesDeAlterar
  <2> QED BY <1>1, <2>1, <2>4, <2>5, <2>6, <2>8, AlterarListas
<1> QED BY <1>2, <1>3, <1>4, <1>5, <1>6
        DEF Sabotear, AlterarCantidad, AlterarBlockCount

\* A resource or a log whose request stays has what it had.
LEMMA AjenoIgual ==
  ASSUME NEW f \in Archivos, op'[f].pc \in {"libre", "toma"}, op[f].pc \in {"libre", "toma"},
         metadata'[f].blocks = metadata[f].blocks
  PROVE  Suyos(f)' = Suyos(f)
  BY DEF Suyos

\* The write to the log begins: its list stays.
LEMMA PasoEmpezarAnotacion ==
  ASSUME Alterado, NEW f \in Archivos, NEW n, EmpezarEscritura(f, n),
         bloque_corrupto' = bloque_corrupto
  PROVE  Alterado'
<1> DEFINE k == Menor(n, Hueco(f))
           r == IF n = k THEN Libre ELSE [Libre EXCEPT !.pc = "toma", !.resta = n - k]
<1>1. /\ bitmap' = bitmap /\ op[f] = Libre /\ op' = [op EXCEPT ![f] = r]
      /\ metadata' = [metadata EXCEPT ![f].existe = TRUE, ![f].size = metadata[f].size + k]
  BY DEF EmpezarEscritura, Atender
<1> HIDE DEF k
<1>2. r.pc \in {"libre", "toma"} /\ DOMAIN r = CamposDePedido /\ Libre.pc = "libre"
  BY DEF Libre, CamposDePedido
<1> HIDE DEF r
<1>3. Listas' /\ \A g \in Archivos : metadata'[g].blocks = metadata[g].blocks
  BY <1>1 DEF Alterado, Listas, CamposDeArchivo
<1>4. /\ DOMAIN op' = Archivos /\ op'[f] = r /\ \A g \in Archivos \ {f} : op'[g] = op[g]
  BY <1>1 DEF Alterado
<1>5. \A g \in Archivos : Suyos(g)' = Suyos(g)
  <2>1. Suyos(f)' = Suyos(f)
    BY <1>1, <1>2, <1>3, <1>4, AjenoIgual
  <2> QED BY <2>1, <1>3, <1>4, SuyosIguales
<1>6. SabotajeNoContagia'
  BY <1>5 DEF Alterado, SabotajeNoContagia
<1>7. Sueltos' = Sueltos
  BY <1>1, <1>3 DEF Sueltos, Listados
<1> QED BY <1>1, <1>2, <1>3, <1>4, <1>6, <1>7 DEF Alterado

\* A block that is taken is in no list and on no other file's way to one: the one that could
\* be taken for free is the one that is looked for and left alone.
LEMMA BloqueSinDuenio ==
  ASSUME Alterado, NEW f \in Archivos, TomarBloqueSaboteado(f), op' # op
  PROVE  \E b \in Bloques \ bitmap :
           /\ b \notin Sueltos /\ bitmap' = bitmap \cup {b}
           /\ op' = [op EXCEPT ![f].pc = "llena", ![f].bloque = b]
<1> DEFINE sin_marcar == Bloques \ bitmap
           libres == sin_marcar \ (IF BloqueCorrupto = Min(sin_marcar) THEN {BloqueCorrupto} ELSE {})
           b == Min(libres)
<1>1. /\ sin_marcar # {} /\ libres # {} /\ bitmap' = bitmap \cup {b}
      /\ op' = [op EXCEPT ![f].pc = "llena", ![f].bloque = b]
  BY DEF TomarBloqueSaboteado, Ocupado
<1>2. /\ b \in libres /\ Min(sin_marcar) \in sin_marcar
      /\ \A x \in libres : b <= x
      /\ \A x \in sin_marcar : Min(sin_marcar) <= x
  <2>1. libres \in SUBSET Nat /\ libres # {} /\ sin_marcar \in SUBSET Nat /\ sin_marcar # {}
    BY <1>1, BloquesOK
  <2>2. Min(libres) \in libres /\ \A x \in libres : Min(libres) <= x
    BY ONLY <2>1, MinEsta
  <2>3. Min(sin_marcar) \in sin_marcar /\ \A x \in sin_marcar : Min(sin_marcar) <= x
    BY ONLY <2>1, MinEsta
  <2> QED BY ONLY <2>2, <2>3
<1>3. ASSUME b \in Sueltos PROVE FALSE
  <2>1. Sueltos = {b}
    BY <1>3 DEF Alterado
  <2>2. BloqueCorrupto = b
    <3>1. CASE bloque_corrupto # SinBuscar
      BY <2>1, <3>1 DEF BloqueCorrupto, Alterado
    <3>2. CASE bloque_corrupto = SinBuscar
      <4>1. Sueltos \in SUBSET Nat /\ Sueltos # {}
        BY <2>1, BloquesOK DEF Sueltos
      <4>2. BloqueCorrupto = Min(Sueltos)
        BY <3>2, <4>1 DEF BloqueCorrupto, Sueltos
      <4> QED BY <2>1, <4>1, <4>2, MinEsta
    <3> QED BY <3>1, <3>2
  <2>3. b # Min(sin_marcar)
    BY <1>2, <2>2
  <2>4. Min(sin_marcar) \in libres
    BY <1>2, <2>2, <2>3
  <2>5. b \in sin_marcar /\ b <= Min(sin_marcar) /\ Min(sin_marcar) <= b
    BY <1>2, <2>4
  <2>6. b \in Nat /\ Min(sin_marcar) \in Nat
    <3> HIDE DEF b
    <3> QED BY <1>2, <2>5, BloquesOK
  <2> HIDE DEF b, sin_marcar
  <2> QED BY <2>3, <2>5, <2>6
<1> QED BY <1>1, <1>2, <1>3

\* The log takes a block.
LEMMA PasoTomarSaboteado ==
  ASSUME Alterado, NEW f \in Archivos, TomarBloqueSaboteado(f)
  PROVE  Alterado'
<1>1. metadata' = metadata /\ op[f].pc = "toma"
  BY DEF TomarBloqueSaboteado, EnOp
<1>2. Listas' /\ Listados' = Listados
  BY <1>1 DEF Alterado, Listas, Listados
<1>3. bitmap \subseteq bitmap' => Sueltos' \subseteq Sueltos
  BY <1>2 DEF Sueltos
<1>4. bloque_corrupto' # SinBuscar => Sueltos \subseteq {bloque_corrupto'}
  <2>1. CASE Bloques \ bitmap = {}
    BY <2>1 DEF Sueltos
  <2>2. CASE Bloques \ bitmap # {} /\ bloque_corrupto # SinBuscar
    <3>1. bloque_corrupto' = bloque_corrupto
      BY <2>2 DEF TomarBloqueSaboteado, BloqueCorrupto
    <3> QED BY <3>1, <2>2 DEF Alterado
  <2>3. CASE Bloques \ bitmap # {} /\ bloque_corrupto = SinBuscar /\ Sueltos # {}
    <3>1. bloque_corrupto' = Min(Sueltos)
      BY <2>3 DEF TomarBloqueSaboteado, BloqueCorrupto, Sueltos
    <3>2. Sueltos \in SUBSET Nat
      BY BloquesOK DEF Sueltos
    <3>3. Min(Sueltos) \in Sueltos
      BY <2>3, <3>2, MinEsta
    <3> QED BY <3>1, <3>3 DEF Alterado
  <2> QED BY <2>1, <2>2, <2>3
<1>5. CASE op' = op
  <2>1. bitmap' = bitmap
    <3>1. ASSUME NEW b, op' = [op EXCEPT ![f].pc = "llena", ![f].bloque = b] PROVE FALSE
      <4>1. op'[f].pc = "llena"
        BY <3>1 DEF Alterado, CamposDePedido
      <4> QED BY <4>1, <1>1, <1>5
    <3> QED BY <3>1 DEF TomarBloqueSaboteado
  <2>2. \A g \in Archivos : Suyos(g)' = Suyos(g)
    BY <1>1, <1>5, SuyosIguales
  <2> QED BY <1>2, <1>3, <1>4, <1>5, <2>1, <2>2 DEF Alterado, SabotajeNoContagia
<1>6. CASE op' # op
  <2>1. PICK b \in Bloques \ bitmap :
          /\ b \notin Sueltos /\ bitmap' = bitmap \cup {b}
          /\ op' = [op EXCEPT ![f].pc = "llena", ![f].bloque = b]
    BY <1>6, BloqueSinDuenio
  <2>2. /\ DOMAIN op' = Archivos /\ \A g \in Archivos \ {f} : op'[g] = op[g]
        /\ DOMAIN op'[f] = CamposDePedido /\ op'[f].pc = "llena" /\ op'[f].bloque = b
    BY <2>1 DEF Alterado, CamposDePedido
  <2>3. Suyos(f)' = Suyos(f) \cup {b}
    <3>1. Suyos(f) = ToSet(metadata[f].blocks)
      BY <1>1 DEF Suyos
    <3>2. Suyos(f)' = ToSet(metadata[f].blocks) \cup {b}
      BY <1>1, <2>2 DEF Suyos
    <3> QED BY <3>1, <3>2
  <2>4. \A g \in Archivos \ {f} : Suyos(g)' = Suyos(g)
    BY <1>1, <2>2, SuyosIguales
  <2>5. \A g \in Archivos : b \notin Suyos(g)
    <3>1. ASSUME NEW g \in Archivos, b \in Suyos(g) PROVE FALSE
      <4>1. CASE b \in ToSet(metadata[g].blocks)
        BY <4>1, <2>1 DEF Sueltos, Listados
      <4>2. CASE b \notin ToSet(metadata[g].blocks)
        <5>1. op[g].pc = "llena" /\ op[g].bloque = b
          BY <3>1, <4>2 DEF Suyos, Alterado
        <5> QED BY <5>1, <2>1 DEF Alterado
      <4> QED BY <4>1, <4>2
    <3> QED BY <3>1
  <2>6. SabotajeNoContagia'
    <3>1. SUFFICES ASSUME NEW g \in Archivos, NEW h \in Archivos, g # h
                   PROVE  Suyos(g)' \cap Suyos(h)' = {}
      BY DEF SabotajeNoContagia
    <3>2. Suyos(g) \cap Suyos(h) = {}
      BY <3>1 DEF Alterado, SabotajeNoContagia
    <3> QED BY <3>1, <3>2, <2>3, <2>4, <2>5
  <2>7. bitmap \subseteq bitmap' /\ bitmap' \subseteq Bloques /\ b \in bitmap'
    BY <2>1 DEF Alterado
  <2>8. \A g \in Archivos : /\ DOMAIN op'[g] = CamposDePedido /\ op'[g].pc \in {"libre", "toma", "llena"}
                            /\ op'[g].pc = "llena" => op'[g].bloque \in bitmap'
    BY <2>2, <2>7 DEF Alterado
  <2> QED BY <1>2, <1>3, <1>4, <2>2, <2>6, <2>7, <2>8 DEF Alterado
<1> QED BY <1>5, <1>6

\* The log fills the block it took.
LEMMA PasoLlenarAnotacion ==
  ASSUME Alterado, NEW f \in Archivos, LlenarBloque(f), bloque_corrupto' = bloque_corrupto
  PROVE  Alterado'
<1> DEFINE b == op[f].bloque
           s == metadata[f].blocks
           k == Menor(op[f].resta, BLOCK_SIZE)
           r == IF op[f].resta = k THEN Libre ELSE [Libre EXCEPT !.pc = "toma", !.resta = op[f].resta - k]
<1>1. /\ op[f].pc = "llena" /\ b \in bitmap /\ b \in Bloques /\ bitmap' = bitmap
      /\ s \in Seq(Bloques \cup {BLOCK_COUNT})
      /\ op' = [op EXCEPT ![f] = r]
      /\ metadata' = [metadata EXCEPT ![f].size = metadata[f].size + k, ![f].blocks = Append(s, b)]
  BY DEF LlenarBloque, EnOp, Alterado, Listas
<1> HIDE DEF k
<1>2. r.pc \in {"libre", "toma"} /\ DOMAIN r = CamposDePedido
  BY DEF Libre, CamposDePedido
<1> HIDE DEF r
<1>3. /\ Append(s, b) \in Seq(Bloques \cup {BLOCK_COUNT})
      /\ ToSet(Append(s, b)) = ToSet(s) \cup {b}
  BY <1>1, AgregarSeq, ToSetEsRange
<1>4. /\ Listas' /\ metadata'[f].blocks = Append(s, b)
      /\ \A g \in Archivos \ {f} : metadata'[g] = metadata[g]
  BY <1>1, <1>3 DEF Alterado, Listas, CamposDeArchivo
<1>5. /\ DOMAIN op' = Archivos /\ op'[f] = r /\ \A g \in Archivos \ {f} : op'[g] = op[g]
  BY <1>1 DEF Alterado
<1>6. \A g \in Archivos : Suyos(g)' = Suyos(g)
  <2>1. Suyos(f) = ToSet(s) \cup {b} /\ Suyos(f)' = ToSet(s) \cup {b}
    BY <1>1, <1>2, <1>3, <1>4, <1>5 DEF Suyos
  <2> QED BY <2>1, <1>4, <1>5, SuyosIguales
<1>7. Sueltos' \subseteq Sueltos
  <2>1. Listados' \subseteq Listados \cup {b}
    BY <1>3, <1>4 DEF Listados
  <2> QED BY <2>1, <1>1 DEF Sueltos
<1> QED BY <1>1, <1>2, <1>4, <1>5, <1>6, <1>7 DEF Alterado, SabotajeNoContagia

\* A block removed from its list leaves the others.
LEMMA QuitarDeLista ==
  ASSUME Listas, NEW f \in Archivos, NEW I \in SUBSET (DOMAIN metadata[f].blocks), I # {},
         metadata' = [metadata EXCEPT ![f].blocks = RemoveAt(@, Min(I))]
  PROVE  /\ Listas'
         /\ \A g \in Archivos : ToSet(metadata'[g].blocks) \subseteq ToSet(metadata[g].blocks)
<1> DEFINE s == metadata[f].blocks
<1>1. s \in Seq(Bloques \cup {BLOCK_COUNT})
  BY DEF Listas
<1>2. Min(I) \in DOMAIN s
  <2>1. DOMAIN s \subseteq Nat
    BY <1>1, LenProperties
  <2>2. I \in SUBSET Nat
    BY <2>1
  <2>3. Min(I) \in I
    BY <2>2, MinEsta
  <2> QED BY <2>3
<1>3. /\ RemoveAt(s, Min(I)) \in Seq(Bloques \cup {BLOCK_COUNT})
      /\ ToSet(RemoveAt(s, Min(I))) \subseteq ToSet(s)
  BY <1>1, <1>2, SacarSeq, ToSetEsRange
<1>4. /\ Listas' /\ metadata'[f].blocks = RemoveAt(s, Min(I))
      /\ \A g \in Archivos \ {f} : metadata'[g] = metadata[g]
  BY <1>1, <1>3, OtraLista
<1> QED BY <1>3, <1>4

\* Of what it finds wrong in the lists the fsck repairs nothing by adding to one.
LEMMA RevisarBlocksAchica ==
  ASSUME Listas, NEW cuentas, RevisarBlocks(cuentas)
  PROVE  /\ Listas'
         /\ \A g \in Archivos : ToSet(metadata'[g].blocks) \subseteq ToSet(metadata[g].blocks)
<1>1. CASE metadata' = metadata
  BY <1>1 DEF Listas
<1>2. CASE metadata' # metadata
  <2>1. PICK f \in ConOtrosBlocks : RepararBlocks(f, cuentas)
    BY <1>2 DEF RevisarBlocks
  <2>2. f \in Archivos
    BY DEF ConOtrosBlocks, Existentes, Archivos
  <2>3. PICK I \in {Invalidos(f), LibresAsignados(f)} :
          I # {} /\ metadata' = [metadata EXCEPT ![f].blocks = RemoveAt(@, Min(I))]
    BY <1>2, <2>1 DEF RepararBlocks, QuitarBloque
  <2>4. I \in SUBSET (DOMAIN metadata[f].blocks)
    BY <2>3 DEF Invalidos, LibresAsignados
  <2> QED BY <2>2, <2>3, <2>4, QuitarDeLista
<1> QED BY <1>1, <1>2

\* Whatever the fsck finds wrong, it gives no file a block and frees none that is listed.
LEMMA PasoFsck ==
  ASSUME Alterado, RealizarFsck
  PROVE  Alterado'
<1>1. /\ op' = op /\ bloque_corrupto' = bloque_corrupto
      /\ \A f \in Archivos : op[f].pc = "libre"
  BY DEF RealizarFsck, Reposo, Libre
<1>2. Listas /\ bitmap \subseteq Bloques
  BY DEF Alterado
<1>3. /\ Listas' /\ bitmap' \subseteq Bloques /\ Listados \cap bitmap \subseteq bitmap'
      /\ \A g \in Archivos : ToSet(metadata'[g].blocks) \subseteq ToSet(metadata[g].blocks)
  <2>1. CASE RevisarBlockCount
    <3>1. bitmap' = bitmap /\ \E cuentas : RevisarBlocks(cuentas)
      BY <2>1 DEF RevisarBlockCount
    <3> QED BY <3>1, <1>2, RevisarBlocksAchica
  <2>2. CASE RevisarSuperbloque
    BY <2>2, <1>2 DEF RevisarSuperbloque, Listas
  <2>3. CASE RevisarSize
    <3>1. PICK f \in ConOtroSize : metadata' = [metadata EXCEPT ![f].size = SizeReal(f)]
      BY <2>3 DEF RevisarSize
    <3>2. f \in Archivos /\ bitmap' = bitmap
      BY <2>3 DEF ConOtroSize, Existentes, Archivos, RevisarSize
    <3>3. Listas' /\ \A g \in Archivos : metadata'[g].blocks = metadata[g].blocks
      BY <1>2, <3>1, <3>2 DEF Listas, CamposDeArchivo
    <3> QED BY <1>2, <3>2, <3>3
  <2>4. CASE RevisarBlocks(block_count) /\ UNCHANGED <<bitmap, cantidad>>
    BY <2>4, <1>2, RevisarBlocksAchica
  <2>5. CASE RevisarBitmap
    <3> DEFINE mal == SymDiff(bitmap, Listados \cap Bloques)
    <3>1. metadata' = metadata
          /\ bitmap' = IF mal = {} THEN bitmap ELSE SymDiff(bitmap, {Min(mal)})
      BY <2>5 DEF RevisarBitmap
    <3>2. mal # {} => Min(mal) \in mal
      <4>1. mal \in SUBSET Nat
        BY <1>2, BloquesOK DEF SymDiff
      <4> QED BY <4>1, MinEsta
    <3>3. mal # {} => Min(mal) \in Bloques /\ ~(Min(mal) \in Listados \cap bitmap)
      BY <1>2, <3>2 DEF SymDiff
    <3> HIDE DEF mal
    <3>4. bitmap' \subseteq Bloques /\ Listados \cap bitmap \subseteq bitmap'
      BY <1>2, <3>1, <3>3 DEF SymDiff
    <3> QED BY <1>2, <3>1, <3>4 DEF Listas
  <2> QED BY <2>1, <2>2, <2>3, <2>4, <2>5 DEF RealizarFsck
<1>4. \A g \in Archivos : /\ Suyos(g) = ToSet(metadata[g].blocks)
                          /\ Suyos(g)' = ToSet(metadata'[g].blocks)
  BY <1>1 DEF Suyos
<1>5. SabotajeNoContagia'
  BY <1>3, <1>4 DEF Alterado, SabotajeNoContagia
<1>6. Sueltos' \subseteq Sueltos
  <2>1. Listados' \subseteq Listados
    BY <1>3 DEF Listados
  <2> QED BY <2>1, <1>3 DEF Sueltos
<1> QED BY <1>1, <1>3, <1>5, <1>6 DEF Alterado

-----------------------------------------------------------------------------
\* Until the sabotage is solved every step keeps what is known of the files.
LEMMA InductivaPaso ==
  ASSUME Inductiva, ConsumoCorto, [RNext]_rvars
  PROVE  Inductiva'
<1>1. CASE UNCHANGED rvars
  <2>1. UNCHANGED <<bitmap, contenido, metadata, op, pedidos, pisados, caida, disco,
                    fsck, estoy_saboteado, bloque_corrupto>>
    BY <1>1 DEF rvars, fvars, vars
  <2>2. Sano => Sano'
    BY <2>1, PasoCopia
  <2>3. Alterado => Alterado'
    <3>1. \A g \in Archivos : Suyos(g)' = Suyos(g)
      BY <2>1, SuyosIguales
    <3>2. Sueltos' = Sueltos /\ (Listas => Listas')
      BY <2>1 DEF Listas, Sueltos, Listados
    <3> QED BY <2>1, <3>1, <3>2 DEF Alterado, SabotajeNoContagia
  <2> QED BY <2>1, <2>2, <2>3 DEF Inductiva
<1>2. CASE Sincronizar \/ Reiniciar
  <2>1. /\ fsck = "sano" /\ fsck' = fsck /\ estoy_saboteado' = estoy_saboteado
        /\ UNCHANGED <<bitmap, metadata, op, pedidos, pisados, caida>>
        /\ contenido' \in {contenido, disco} /\ disco' \in {contenido, disco}
    BY <1>2 DEF Sincronizar, Reiniciar, BlocksDelDisco, fvars, vars
  <2> QED BY <2>1, PasoCopia DEF Inductiva, Atencion
<1>3. CASE Servir
  <2>1. FNext /\ disco' = disco
    BY <1>3 DEF Servir
  <2>2. CASE fsck \in {"sano", "resuelto"} /\ Next /\ GuardarMetadata /\ UNCHANGED sabotaje
    BY <2>1, <2>2, PasoNext DEF Inductiva, Atencion, sabotaje
  <2>3. CASE Sabotear
    BY <2>3, PasoSabotear DEF Inductiva, Atencion, Sabotear
  <2>4. CASE RealizarFsck
    <3>1. fsck = "por_revisar"
      BY <2>4 DEF RealizarFsck
    <3>2. fsck' \in {"revisado", "distraido"}
      BY <2>4 DEF RealizarFsck, RevisarBlockCount, RevisarSuperbloque, RevisarSize,
                  RevisarBlocks, RevisarBitmap, Repasado
    <3> QED BY <2>4, <3>1, <3>2, PasoFsck DEF Inductiva, Atencion
  <2>5. CASE SabotajeResuelto
    BY <2>5 DEF SabotajeResuelto, Inductiva
  <2>6. ASSUME NEW f \in Bitacoras, NEW n \in Escribibles,
               \/ EmpezarAnotacion(f, n, "pedido", "por_revisar")
               \/ EmpezarAnotacion(f, n, "revisado", "por_avisar")
        PROVE  Inductiva'
    <3>1. /\ fsck \in {"pedido", "revisado"} /\ fsck' \in {"por_revisar", "por_avisar"}
          /\ EmpezarEscritura(f, n) /\ bloque_corrupto' = bloque_corrupto
      BY <2>6 DEF EmpezarAnotacion
    <3>2. f \in Archivos
      BY DEF Archivos
    <3> QED BY <3>1, <3>2, PasoEmpezarAnotacion DEF Inductiva, Atencion
  <2>7. ASSUME NEW f \in Bitacoras, estoy_saboteado, SeguirAnotacion(f)
        PROVE  Inductiva'
    <3>1. f \in Archivos
      BY DEF Archivos
    <3>2. CASE TomarBloqueSaboteado(f)
      <4>1. fsck' = fsck
        BY <3>2 DEF TomarBloqueSaboteado
      <4> QED BY <2>7, <3>1, <3>2, <4>1, PasoTomarSaboteado DEF Inductiva
    <3>3. CASE LlenarBloque(f) /\ UNCHANGED <<block_count, md5, sabotaje>>
      <4>1. fsck' = fsck /\ bloque_corrupto' = bloque_corrupto
        BY <3>3 DEF sabotaje
      <4> QED BY <2>7, <3>1, <3>3, <4>1, PasoLlenarAnotacion DEF Inductiva
    <3> QED BY <2>7, <3>2, <3>3 DEF SeguirAnotacion
  <2> QED BY <2>1, <2>2, <2>3, <2>4, <2>5, <2>6, <2>7 DEF FNext
<1> QED BY <1>1, <1>2, <1>3 DEF RNext

\* It holds of a new disk.
LEMMA InductivaInicial == RInit => Inductiva
<1>1. ASSUME RInit PROVE fsck = "sano" /\ ~estoy_saboteado
  BY <1>1 DEF RInit, FInit
<1> QED BY <1>1, InicialSano DEF Inductiva

\* And so it holds always.
LEMMA InductivaSiempre == ConsumoCorto => (RSpec => []Inductiva)
<1>1. SUFFICES ASSUME ConsumoCorto PROVE RSpec => []Inductiva
  OBVIOUS
<1>2. Inductiva /\ [RNext]_rvars => Inductiva'
  BY <1>1, InductivaPaso
<1> QED BY <1>2, InductivaInicial, PTL DEF RSpec

\* Until somebody edits the files, whatever is written, consumed and discarded at once, whatever
\* is copied to the disk and however often the process is started again, each block a file has
\* is marked in the bitmap and no other file's, and each block marked is of a file: what
\* quitar_de_archivo, escribir_archivo and borrar_archivo do to the bitmap, when no request
\* consumes two blocks.
THEOREM BloquesConDuenio ==
  ConsumoCorto => (RSpec => [](fsck = "sano" => PropiosSiSano))
<1>1. Inductiva => (fsck = "sano" => PropiosSiSano)
  BY DEF Inductiva, Atencion, Sano, Reparto, PropiosSiSano
<1> QED BY <1>1, InductivaSiempre, PTL

\* MarcadosSiSano: and no block is marked that nobody has, so that none is lost to the bitmap
\* when a request is cut in two by another.
THEOREM BloquesMarcados ==
  ConsumoCorto => (RSpec => [](fsck = "sano" => MarcadosSiSano))
<1>1. Inductiva => (fsck = "sano" => MarcadosSiSano)
  BY DEF Inductiva, Atencion, Sano, Reparto, MarcadosSiSano
<1> QED BY <1>1, InductivaSiempre, PTL

\* From the moment the files are edited until the sabotage is solved no block is given to a
\* second file: es_el_bloque_corrupto is enough for the log to be written on a disk whose bitmap
\* or lists are wrong, and realizar_fsck shares no block out.
THEOREM NadieComparteBloques ==
  ConsumoCorto => (RSpec => [](fsck # "resuelto" => SabotajeNoContagia))
<1>1. ASSUME Sano PROVE SabotajeNoContagia
  BY <1>1 DEF Sano, Reparto, BloquesPropios, SabotajeNoContagia
<1>2. Inductiva => (fsck # "resuelto" => SabotajeNoContagia)
  BY <1>1 DEF Inductiva, Alterado
<1> QED BY <1>2, InductivaSiempre, PTL

-----------------------------------------------------------------------------
(* What the blocks hold.                                                     *)

\* A multiple of the size of a block and the next.
LEMMA Multiplos ==
  ASSUME NEW i \in Nat, NEW j \in Nat, i < j
  PROVE  /\ i * BLOCK_SIZE \in Nat /\ (j - 1) * BLOCK_SIZE \in Nat
         /\ i * BLOCK_SIZE <= (j - 1) * BLOCK_SIZE
         /\ j * BLOCK_SIZE = (j - 1) * BLOCK_SIZE + BLOCK_SIZE
<1>1. PICK B \in Nat \ {0} : B = BLOCK_SIZE
  BY BloquesOK
<1>2. PICK d \in Nat : j = i + d + 1
  <2>1. j - i - 1 \in Nat /\ j = i + (j - i - 1) + 1
    OBVIOUS
  <2> QED BY <2>1
<1>3. /\ (j - 1) * B = i * B + d * B /\ i * B \in Nat /\ d * B \in Nat
  <2>1. j - 1 = i + d
    BY <1>2
  <2>2. (i + d) * B = i * B + d * B
    OBVIOUS
  <2>3. i * B \in Nat /\ d * B \in Nat
    OBVIOUS
  <2> QED BY <2>1, <2>2, <2>3
<1>4. j * B = (j - 1) * B + B
  OBVIOUS
<1> QED BY <1>1, <1>3, <1>4

\* Characters of one file.
LEMMA Iguales ==
  ASSUME NEW f, NEW a \in Nat, NEW b \in Nat
  PROVE  /\ Repetido(f, a) \in Seq({f}) /\ Len(Repetido(f, a)) = a
         /\ Repetido(f, a) \o Repetido(f, b) = Repetido(f, a + b)
         /\ b <= a => SubSeq(Repetido(f, a), 1, b) = Repetido(f, b)
<1>1. \A n \in Nat : /\ Repetido(f, n) \in Seq({f}) /\ Len(Repetido(f, n)) = n
                     /\ \A i \in 1..n : Repetido(f, n)[i] = f
  <2>1. SUFFICES ASSUME NEW n \in Nat
                 PROVE  /\ Repetido(f, n) \in Seq({f}) /\ Len(Repetido(f, n)) = n
                        /\ \A i \in 1..n : Repetido(f, n)[i] = f
    OBVIOUS
  <2>2. Repetido(f, n) \in [1..n -> {f}] /\ DOMAIN Repetido(f, n) = 1..n
    BY DEF Repetido
  <2>3. Repetido(f, n) \in Seq({f})
    BY <2>2, IsASeq
  <2> QED BY <2>2, <2>3, LenProperties DEF Repetido
<1>2. Repetido(f, a) \o Repetido(f, b) = Repetido(f, a + b)
  <2> DEFINE s == Repetido(f, a)
             t == Repetido(f, b)
             u == Repetido(f, a + b)
  <2>1. /\ s \in Seq({f}) /\ t \in Seq({f}) /\ u \in Seq({f}) /\ Len(s) = a /\ Len(t) = b
        /\ Len(u) = a + b /\ (\A i \in 1..a : s[i] = f) /\ (\A i \in 1..b : t[i] = f)
        /\ \A i \in 1..a+b : u[i] = f
    BY <1>1
  <2> HIDE DEF s, t, u
  <2>2. /\ s \o t \in Seq({f}) /\ Len(s \o t) = a + b
        /\ \A i \in 1..a+b : (s \o t)[i] = IF i <= a THEN s[i] ELSE t[i - a]
    BY <2>1, ConcatProperties
  <2>3. \A i \in 1..a+b : (s \o t)[i] = u[i]
    BY <2>1, <2>2
  <2>4. s \o t = u
    BY <2>1, <2>2, <2>3, SeqEqual
  <2> QED BY <2>4 DEF s, t, u
<1>3. ASSUME b <= a PROVE SubSeq(Repetido(f, a), 1, b) = Repetido(f, b)
  <2> DEFINE s == Repetido(f, a)
             t == Repetido(f, b)
  <2>1. /\ s \in Seq({f}) /\ t \in Seq({f}) /\ Len(s) = a /\ Len(t) = b
        /\ (\A i \in 1..a : s[i] = f) /\ (\A i \in 1..b : t[i] = f)
    BY <1>1
  <2> HIDE DEF s, t
  <2>2. \A i \in 1..b : s[i] \in {f}
    BY <1>3, <2>1
  <2>3. /\ SubSeq(s, 1, b) \in Seq({f}) /\ Len(SubSeq(s, 1, b)) = b
        /\ \A i \in 1..b : SubSeq(s, 1, b)[i] = s[i]
    <3>1. /\ SubSeq(s, 1, b) \in Seq({f})
          /\ Len(SubSeq(s, 1, b)) = IF 1 <= b THEN b - 1 + 1 ELSE 0
          /\ \A i \in 1..b-1+1 : SubSeq(s, 1, b)[i] = s[1+i-1]
      BY <2>2, SubSeqProperties
    <3> QED BY <3>1
  <2>4. \A i \in 1..b : SubSeq(s, 1, b)[i] = t[i]
    BY <1>3, <2>1, <2>3
  <2>5. SubSeq(s, 1, b) = t
    BY <2>1, <2>3, <2>4, SeqEqual
  <2> QED BY <2>5 DEF s, t
<1> QED BY <1>1, <1>2, <1>3

\* The same that ContenidoDe says, of a list, a size and the blocks: all full but the last one,
\* which is not empty.
Lleno(f, s, c, n) == \A i \in 1..n : c[s[i]] = Repetido(f, BLOCK_SIZE)
Llenados(f, s, z, c) ==
  \/ s = <<>> /\ z = 0
  \/ s # <<>> /\ \E v \in 1..BLOCK_SIZE :
       /\ z = (Len(s) - 1) * BLOCK_SIZE + v /\ c[s[Len(s)]] = Repetido(f, v)
       /\ Lleno(f, s, c, Len(s) - 1)

\* And it does say it: each block holds what of SIZE falls in it.
LEMMA LlenadosEsContenido ==
  ASSUME NEW f, NEW s \in Seq(Bloques), NEW z \in Nat, NEW c, Llenados(f, s, z, c)
  PROVE  /\ \A i \in DOMAIN s : /\ z - (i - 1) * BLOCK_SIZE > 0
                                /\ c[s[i]] = Repetido(f, Menor(z - (i - 1) * BLOCK_SIZE, BLOCK_SIZE))
         /\ z <= Len(s) * BLOCK_SIZE
<1>1. PICK n \in Nat : n = Len(s) /\ DOMAIN s = 1..n
  BY LenProperties
<1>2. PICK B \in Nat \ {0} : B = BLOCK_SIZE
  BY BloquesOK
<1>3. CASE s = <<>> /\ z = 0
  <2>1. n = 0 /\ 0 * B = 0
    BY <1>1, <1>3, EmptySeq
  <2> QED BY <1>1, <1>2, <1>3, <2>1
<1>4. ASSUME s # <<>>, NEW v \in 1..BLOCK_SIZE, z = (Len(s) - 1) * BLOCK_SIZE + v,
             c[s[Len(s)]] = Repetido(f, v), Lleno(f, s, c, Len(s) - 1)
      PROVE  /\ \A i \in 1..n : /\ z - (i - 1) * B > 0
                                /\ c[s[i]] = Repetido(f, Menor(z - (i - 1) * B, B))
             /\ z <= n * B
  <2>1. n \in Nat \ {0}
    BY <1>1, <1>4, EmptySeq
  <2>2. v \in Nat /\ v > 0 /\ v <= B /\ z = (n - 1) * B + v
    BY <1>1, <1>2, <1>4
  <2>3. (n - 1) * B \in Nat /\ n * B = (n - 1) * B + B
    <3>1. 0 \in Nat /\ 0 < n
      BY <2>1
    <3> QED BY <1>2, <3>1, Multiplos
  <2>4. z <= n * B
    BY <2>2, <2>3
  <2>5. ASSUME NEW i \in 1..n
        PROVE  z - (i - 1) * B > 0 /\ c[s[i]] = Repetido(f, Menor(z - (i - 1) * B, B))
    <3>1. CASE i = n
      <4>1. z - (i - 1) * B = v
        BY <2>2, <2>3, <3>1
      <4>2. Menor(v, B) = v
        BY <2>2 DEF Menor
      <4> QED BY <1>1, <1>4, <2>2, <3>1, <4>1, <4>2
    <3>2. CASE i # n
      <4>1. i - 1 \in Nat /\ n - 1 \in Nat /\ i - 1 < n - 1 /\ i \in 1..(n - 1) /\ i \in Nat
        BY <2>5, <3>2
      <4>2. (i - 1) * B \in Nat /\ (i - 1) * B <= (n - 1 - 1) * B
            /\ (n - 1) * B = (n - 1 - 1) * B + B /\ (n - 1 - 1) * B \in Nat
        BY <1>2, <4>1, Multiplos
      <4>3. z - (i - 1) * B >= B /\ z - (i - 1) * B \in Int /\ z - (i - 1) * B > 0
        BY <2>2, <4>2
      <4>4. Menor(z - (i - 1) * B, B) = B
        BY <4>3 DEF Menor
      <4>5. c[s[i]] = Repetido(f, B)
        BY <1>1, <1>2, <1>4, <4>1 DEF Lleno
      <4> QED BY <4>3, <4>4, <4>5
    <3> QED BY <3>1, <3>2
  <2> QED BY <2>4, <2>5
<1> QED BY <1>1, <1>2, <1>3, <1>4 DEF Llenados

Consume == {"escribe_copia", "libera"}

\* A request that consumes: blocks that are full, and what it has taken already counted.
AMedias(f, s, z, c, r) ==
  /\ r.quedan < Len(s) /\ z = r.quedan * BLOCK_SIZE + r.vaciados /\ Lleno(f, s, c, r.quedan)
  /\ r.resta \in -1 .. r.quedan * BLOCK_SIZE /\ r.vaciados + r.resta > 0
  /\ r.pc = "escribe_copia" => r.bloque = s[r.quedan + 1]

\* What a file holds, at each place of the request on it.
LlevaEn(f, s, z, c, r) ==
  /\ r.pc \notin Consume => Llenados(f, s, z, c)
  /\ r.pc \in {"toma", "llena"} => z = Len(s) * BLOCK_SIZE
  /\ r.pc \in Consume => AMedias(f, s, z, c, r)

Lleva(f) == LlevaEn(f, metadata[f].blocks, metadata[f].size, contenido, op[f])

\* What a step does on one file.
Paso(f) ==
  \/ \E n \in Escribibles : EmpezarEscritura(f, n)
  \/ TomarBloque(f) \/ LlenarBloque(f)
  \/ \E n \in Consumibles : Consumir(f, n)
  \/ EscribirCopia(f) \/ LiberarOtro(f) \/ TerminarConsumo(f)
  \/ BorrarArchivo(f)

\* A request that has the last block, full or not.
LEMMA ConBloques ==
  ASSUME Tipos, NEW f \in Archivos, Lleva(f), op[f].pc \notin Consume, metadata[f].blocks # <<>>
  PROVE  \E v \in 1..BLOCK_SIZE :
           /\ metadata[f].size = (Len(metadata[f].blocks) - 1) * BLOCK_SIZE + v
           /\ contenido[Ultimo(f)] = Repetido(f, v) /\ LlenoUltimo(f) = v /\ v \in Nat
           /\ Lleno(f, metadata[f].blocks, contenido, Len(metadata[f].blocks) - 1)
<1>1. Ultimo(f) = metadata[f].blocks[Len(metadata[f].blocks)]
  BY UltimoOK
<1>2. PICK v \in 1..BLOCK_SIZE :
           /\ metadata[f].size = (Len(metadata[f].blocks) - 1) * BLOCK_SIZE + v
           /\ contenido[Ultimo(f)] = Repetido(f, v)
           /\ Lleno(f, metadata[f].blocks, contenido, Len(metadata[f].blocks) - 1)
  BY <1>1 DEF Lleva, LlevaEn, Llenados
<1>3. v \in Nat
  BY BloquesOK
<1> QED BY <1>2, <1>3, Iguales DEF LlenoUltimo

\* Two places of a list have two blocks.
LEMMA Distintos ==
  ASSUME NEW s \in Seq(Bloques), IsInjective(s), NEW i \in 1..Len(s), NEW j \in 1..Len(s), i # j
  PROVE  s[i] # s[j] /\ s[i] \in Bloques
<1>1. DOMAIN s = 1..Len(s) /\ s[i] \in Bloques
  BY LenProperties, ElementOfSeq
<1> QED BY <1>1 DEF IsInjective

\* The beginning of a request to write.
LEMMA EscrituraLleva ==
  ASSUME Sano, NEW f \in Archivos, Lleva(f), NEW n \in Escribibles, EmpezarEscritura(f, n)
  PROVE  Lleva(f)' /\ (op'[f] # op[f] \/ metadata'[f] # metadata[f])
<1> DEFINE s == metadata[f].blocks
           z == metadata[f].size
           k == Menor(n, Hueco(f))
           r == IF n = k THEN Libre ELSE [Libre EXCEPT !.pc = "toma", !.resta = n - k]
<1>1. /\ n \in Nat \ {0} /\ s \in Seq(Bloques) /\ IsInjective(s) /\ z \in Nat /\ Len(s) \in Nat
      /\ op[f] = Libre /\ Tipos
  BY ConstantesOK, Formas DEF Sano, Reparto, BloquesPropios, EmpezarEscritura, Atender
<1>2. PICK B \in Nat \ {0} : B = BLOCK_SIZE
  BY BloquesOK
<1>3. Libre.pc = "libre" /\ "libre" \notin Consume /\ "toma" \notin Consume /\ op[f].pc = "libre"
  BY <1>1 DEF Libre, Consume
<1>4. op'[f] = r /\ metadata'[f].blocks = s /\ metadata'[f].size = z + k
  BY <1>1 DEF Tipos, EmpezarEscritura
<1>5. r.pc = (IF n = k THEN "libre" ELSE "toma")
  BY DEF Libre
<1>6. n # k => op'[f] # op[f]
  <2> HIDE DEF k, r
  <2> QED BY <1>3, <1>4, <1>5
<1>7. SUFFICES ASSUME TRUE
               PROVE  /\ Llenados(f, s, z + k, contenido') /\ (n # k => z + k = Len(s) * B)
                      /\ k \in Nat
  <2>1. Lleva(f)'
    <3>1. r.pc \notin Consume /\ (r.pc \in {"toma", "llena"} => n # k)
      BY <1>3, <1>5
    <3> HIDE DEF k, r
    <3> QED BY <1>2, <1>4, <1>7, <3>1 DEF Lleva, LlevaEn
  <2>2. n = k => metadata'[f] # metadata[f]
    <3> HIDE DEF k
    <3> QED BY <1>1, <1>4, <1>7
  <2> QED BY <1>6, <2>1, <2>2
<1>8. CASE s = <<>>
  <2>1. z = 0
    BY <1>3, <1>8 DEF Lleva, LlevaEn, Llenados
  <2>2. k = 0
    BY <1>1, <1>8 DEF Hueco, Menor
  <2>3. Len(s) * B = 0
    BY <1>8, EmptySeq
  <2> QED BY <1>8, <2>1, <2>2, <2>3 DEF Llenados
<1>9. CASE s # <<>>
  <2>1. PICK v \in 1..BLOCK_SIZE :
          /\ z = (Len(s) - 1) * BLOCK_SIZE + v /\ contenido[Ultimo(f)] = Repetido(f, v)
          /\ LlenoUltimo(f) = v /\ v \in Nat /\ Lleno(f, s, contenido, Len(s) - 1)
    BY <1>1, <1>3, <1>9, ConBloques
  <2>2. Len(s) \in Nat \ {0} /\ Ultimo(f) = s[Len(s)] /\ Ultimo(f) \in Bloques
    BY <1>1, <1>9, UltimoOK
  <2>3. k = Menor(n, B - v) /\ v >= 1 /\ v <= B
    BY <1>2, <1>9, <2>1 DEF Hueco
  <2>4. k \in Nat /\ v + k \in Nat /\ v + k >= 1 /\ v + k <= B /\ (n # k => v + k = B)
    <3>1. Menor(n, B - v) \in Nat /\ Menor(n, B - v) <= B - v
          /\ (n # Menor(n, B - v) => Menor(n, B - v) = B - v)
      BY <1>1, <1>2, <2>1, <2>3 DEF Menor
    <3> HIDE DEF k
    <3> QED BY <2>1, <2>3, <3>1
  <2>5. (Len(s) - 1) * B \in Nat /\ Len(s) * B = (Len(s) - 1) * B + B
    <3>1. 0 \in Nat /\ 0 < Len(s)
      BY <2>2
    <3> QED BY <1>1, <1>2, <3>1, Multiplos
  <2>6. /\ z + k = (Len(s) - 1) * B + (v + k) /\ (n # k => z + k = Len(s) * B)
    <3> HIDE DEF k, z, s
    <3> QED BY <1>2, <2>1, <2>4, <2>5
  <2>7. contenido'[Ultimo(f)] = Repetido(f, v + k)
        /\ \A b \in Bloques \ {Ultimo(f)} : contenido'[b] = contenido[b]
    <3>1. CASE k > 0
      <4>1. contenido' = [contenido EXCEPT ![Ultimo(f)] = @ \o Repetido(f, k)]
        BY <3>1 DEF EmpezarEscritura
      <4>2. Repetido(f, v) \o Repetido(f, k) = Repetido(f, v + k)
        <5> HIDE DEF k
        <5> QED BY <2>1, <2>4, Iguales
      <4> HIDE DEF k
      <4> QED BY <1>1, <2>1, <2>2, <4>1, <4>2 DEF Tipos
    <3>2. CASE ~(k > 0)
      <4>1. contenido' = contenido
        BY <3>2 DEF EmpezarEscritura
      <4>2. v + k = v
        <5> HIDE DEF k
        <5> QED BY <2>1, <2>4, <3>2
      <4> QED BY <2>1, <4>1, <4>2
    <3> QED BY <3>1, <3>2
  <2>8. Lleno(f, s, contenido', Len(s) - 1)
    <3>1. SUFFICES ASSUME NEW i \in 1..Len(s)-1
                   PROVE  contenido'[s[i]] = Repetido(f, BLOCK_SIZE)
      BY DEF Lleno
    <3>2. i \in 1..Len(s) /\ i # Len(s) /\ Len(s) \in 1..Len(s)
      <4> HIDE DEF s
      <4> QED BY <1>1, <2>2, <3>1
    <3>3. s[i] # Ultimo(f) /\ s[i] \in Bloques
      BY <1>1, <2>2, <3>2, Distintos
    <3> QED BY <2>1, <2>7, <3>3 DEF Lleno
  <2>9. v + k \in 1..BLOCK_SIZE
    <3> HIDE DEF k
    <3> QED BY <1>2, <2>4
  <2> HIDE DEF k, z
  <2> QED BY <1>2, <1>9, <2>2, <2>4, <2>6, <2>7, <2>8, <2>9 DEF Llenados
<1> QED BY <1>8, <1>9

\* The block that is written is one more of the list, and was not in it.
LEMMA LlenarLleva ==
  ASSUME Sano, NEW f \in Archivos, Lleva(f), LlenarBloque(f)
  PROVE  Lleva(f)'
<1> DEFINE s == metadata[f].blocks
           z == metadata[f].size
           b == op[f].bloque
           k == Menor(op[f].resta, BLOCK_SIZE)
           t == Append(s, b)
           r == IF op[f].resta = k THEN Libre
                ELSE [Libre EXCEPT !.pc = "toma", !.resta = op[f].resta - k]
<1>1. /\ op[f].pc = "llena" /\ s \in Seq(Bloques) /\ Len(s) \in Nat /\ z \in Nat /\ Tipos
      /\ op[f].resta \in Int /\ op[f].resta > 0 /\ b \in Bloques \ ToSet(s)
  BY Formas DEF Sano, Marcha, LlenarBloque, EnOp
<1>2. PICK B \in Nat \ {0} : B = BLOCK_SIZE
  BY BloquesOK
<1>3. k \in 1..BLOCK_SIZE /\ k \in Nat /\ (op[f].resta # k => k = B)
  BY <1>1, <1>2 DEF Menor
<1>4. /\ op'[f] = r /\ metadata'[f].blocks = t /\ metadata'[f].size = z + k
      /\ contenido' = [contenido EXCEPT ![b] = Repetido(f, k)]
  BY <1>1 DEF Tipos, LlenarBloque
<1>5. r.pc \notin Consume /\ (r.pc \in {"toma", "llena"} => op[f].resta # k)
  BY DEF Libre, Consume
<1>6. z = Len(s) * B
  BY <1>1, <1>2 DEF Lleva, LlevaEn
<1>7. /\ t \in Seq(Bloques) /\ t # <<>> /\ Len(t) = Len(s) + 1 /\ t[Len(s) + 1] = b
      /\ \A i \in 1..Len(s) : t[i] = s[i] /\ s[i] \in Bloques \ {b}
  <2>1. /\ t \in Seq(Bloques) /\ t # <<>> /\ Len(t) = Len(s) + 1 /\ t[Len(s) + 1] = b
        /\ \A i \in 1..Len(s) : t[i] = s[i]
    BY <1>1, AppendProperties
  <2>2. \A i \in 1..Len(s) : s[i] \in Bloques /\ s[i] \in ToSet(s)
    BY <1>1, LenProperties, ElementOfSeq DEF ToSet
  <2> HIDE DEF s, t, b
  <2> QED BY <1>1, <2>1, <2>2
<1>8. Lleno(f, s, contenido, Len(s))
  <2>1. CASE s = <<>>
    BY <2>1, EmptySeq DEF Lleno
  <2>2. CASE s # <<>>
    <3>1. "llena" \notin Consume
      BY DEF Consume
    <3>2. PICK v \in 1..BLOCK_SIZE :
            /\ z = (Len(s) - 1) * BLOCK_SIZE + v /\ contenido[Ultimo(f)] = Repetido(f, v)
            /\ v \in Nat /\ Lleno(f, s, contenido, Len(s) - 1)
      BY <1>1, <2>2, <3>1, ConBloques
    <3>3. Len(s) \in Nat \ {0} /\ Ultimo(f) = s[Len(s)]
      BY <1>1, <2>2, UltimoOK
    <3>4. (Len(s) - 1) * B \in Nat /\ Len(s) * B = (Len(s) - 1) * B + B
      <4>1. 0 \in Nat /\ 0 < Len(s)
        BY <3>3
      <4> QED BY <1>1, <1>2, <4>1, Multiplos
    <3>5. v = B
      <4> HIDE DEF s, z
      <4> QED BY <1>2, <1>6, <3>2, <3>4
    <3>6. SUFFICES ASSUME NEW i \in 1..Len(s) PROVE contenido[s[i]] = Repetido(f, BLOCK_SIZE)
      BY DEF Lleno
    <3>7. i = Len(s) \/ i \in 1..Len(s)-1
      <4> HIDE DEF s
      <4> QED BY <1>1, <3>6
    <3> QED BY <1>2, <3>2, <3>3, <3>5, <3>7 DEF Lleno
  <2> QED BY <2>1, <2>2
<1>9. contenido'[b] = Repetido(f, k) /\ \A c \in Bloques \ {b} : contenido'[c] = contenido[c]
  BY <1>1, <1>4 DEF Tipos
<1>10. Lleno(f, t, contenido', Len(t) - 1) /\ contenido'[t[Len(t)]] = Repetido(f, k)
       /\ Len(t) - 1 = Len(s)
  <2> HIDE DEF s, t, b, k
  <2> QED BY <1>1, <1>7, <1>8, <1>9 DEF Lleno
<1>11. Llenados(f, t, z + k, contenido')
  <2>1. z + k = (Len(t) - 1) * BLOCK_SIZE + k
    BY <1>2, <1>6, <1>10
  <2> HIDE DEF s, t, b, k, z
  <2> QED BY <1>3, <1>7, <1>10, <2>1 DEF Llenados
<1>12. op[f].resta # k => z + k = Len(t) * BLOCK_SIZE
  <2>1. Len(t) * B = (Len(t) - 1) * B + B
    <3>1. 0 \in Nat /\ 0 < Len(t) /\ Len(t) \in Nat
      <4> HIDE DEF s, t
      <4> QED BY <1>1, <1>7
    <3> QED BY <1>2, <3>1, Multiplos
  <2> HIDE DEF s, t, z, k
  <2> QED BY <1>2, <1>3, <1>6, <1>10, <2>1
<1> HIDE DEF s, t, z, k, r
<1> QED BY <1>4, <1>5, <1>11, <1>12 DEF Lleva, LlevaEn

\* A file with nothing in it.
LEMMA VacioLleva ==
  ASSUME NEW f, metadata'[f].blocks = <<>>, metadata'[f].size = 0, op'[f] = Libre
  PROVE  Lleva(f)'
<1>1. op'[f].pc = "libre" /\ "libre" \notin Consume
  BY DEF Libre, Consume
<1> QED BY <1>1 DEF Lleva, LlevaEn, Llenados

\* A consumption that the last block has.
LEMMA QuitarDelUltimoLleva ==
  ASSUME Sano, NEW f \in Archivos, Lleva(f), NEW n \in Consumibles, QuitarDelUltimo(f, n)
  PROVE  Lleva(f)' /\ metadata'[f] # metadata[f] /\ metadata'[f].size = metadata[f].size - n
<1> DEFINE s == metadata[f].blocks
           z == metadata[f].size
<1>1. /\ n \in Nat \ {0} /\ s \in Seq(Bloques) /\ IsInjective(s) /\ z \in Nat /\ Len(s) \in Nat
      /\ op[f] = Libre /\ Tipos /\ s # <<>> /\ n < LlenoUltimo(f) - 1 /\ op' = op
      /\ contenido' = [contenido EXCEPT ![Ultimo(f)] = SubSeq(@, 1, Len(@) - n)]
  BY ConstantesOK, Formas
     DEF Sano, Reparto, BloquesPropios, QuitarDelUltimo, Atender, HayQueQuitar, UltimaPosicionEscrita
<1>2. PICK B \in Nat \ {0} : B = BLOCK_SIZE
  BY BloquesOK
<1>3. op[f].pc = "libre" /\ "libre" \notin Consume
  BY <1>1 DEF Libre, Consume
<1>4. PICK v \in 1..BLOCK_SIZE :
        /\ z = (Len(s) - 1) * BLOCK_SIZE + v /\ contenido[Ultimo(f)] = Repetido(f, v)
        /\ LlenoUltimo(f) = v /\ v \in Nat /\ Lleno(f, s, contenido, Len(s) - 1)
  BY <1>1, <1>3, ConBloques
<1>5. Len(s) \in Nat \ {0} /\ Ultimo(f) = s[Len(s)] /\ Ultimo(f) \in Bloques
  BY <1>1, UltimoOK
<1>6. (Len(s) - 1) * B \in Nat
  <2>1. 0 \in Nat /\ 0 < Len(s)
    BY <1>5
  <2> QED BY <1>1, <1>2, <2>1, Multiplos
<1>7. v - n \in 1..BLOCK_SIZE /\ v - n \in Nat /\ z - n = (Len(s) - 1) * BLOCK_SIZE + (v - n)
      /\ z - n >= 0 /\ z - n # z
  <2> HIDE DEF s, z
  <2> QED BY <1>1, <1>2, <1>4, <1>6
<1>8. ~FueraDeRango(z - n)
  <2> HIDE DEF z
  <2> QED BY <1>1, <1>7 DEF FueraDeRango
<1>9. metadata'[f].blocks = s /\ metadata'[f].size = z - n
  BY <1>1, <1>8 DEF QuitarDelUltimo, Tipos
<1>10. /\ contenido'[Ultimo(f)] = Repetido(f, v - n)
       /\ \A b \in Bloques \ {Ultimo(f)} : contenido'[b] = contenido[b]
  <2>0. v - n <= v /\ v - n \in Nat
    BY <1>1, <1>4, <1>7
  <2>1. Len(Repetido(f, v)) = v /\ SubSeq(Repetido(f, v), 1, v - n) = Repetido(f, v - n)
    BY <1>4, <2>0, Iguales
  <2> QED BY <1>1, <1>4, <1>5, <2>1 DEF Tipos
<1>11. Lleno(f, s, contenido', Len(s) - 1)
  <2>1. SUFFICES ASSUME NEW i \in 1..Len(s)-1
                 PROVE  contenido'[s[i]] = Repetido(f, BLOCK_SIZE)
    BY DEF Lleno
  <2>2. i \in 1..Len(s) /\ i # Len(s) /\ Len(s) \in 1..Len(s)
    <3> HIDE DEF s
    <3> QED BY <1>1, <1>5, <2>1
  <2>3. s[i] # Ultimo(f) /\ s[i] \in Bloques
    BY <1>1, <1>5, <2>2, Distintos
  <2> QED BY <1>4, <1>10, <2>3 DEF Lleno
<1>12. Llenados(f, s, z - n, contenido')
  <2> HIDE DEF z
  <2> QED BY <1>1, <1>5, <1>7, <1>10, <1>11 DEF Llenados
<1>13. Lleva(f)'
  <2>1. op'[f].pc = "libre"
    BY <1>1, <1>3
  <2> HIDE DEF s, z
  <2> QED BY <1>3, <1>9, <1>12, <2>1 DEF Lleva, LlevaEn
<1> QED BY <1>1, <1>7, <1>9, <1>13

\* A consumption that empties the last block: what it takes is no more than there is.
LEMMA LiberarUltimoLleva ==
  ASSUME Sano, NEW f \in Archivos, Lleva(f), NEW n \in Consumibles, LiberarUltimo(f, n)
  PROVE  Lleva(f)' /\ op'[f] # op[f]
<1> DEFINE s == metadata[f].blocks
           z == metadata[f].size
           v == LlenoUltimo(f)
           r == [pc |-> "escribe_copia", bloque |-> Ultimo(f), resta |-> n - v, vaciados |-> v,
                 quedan |-> Len(s) - 1]
<1>1. /\ n \in Nat \ {0} /\ s \in Seq(Bloques) /\ z \in Nat /\ Len(s) \in Nat
      /\ op[f] = Libre /\ Tipos /\ s # <<>> /\ n >= v - 1 /\ op' = [op EXCEPT ![f] = r]
      /\ n <= (Len(s) - 1) * BLOCK_SIZE + (v - 1) + 1 /\ contenido' = contenido
      /\ metadata' = metadata
  BY ConstantesOK, Formas
     DEF Sano, LiberarUltimo, Atender, HayQueQuitar, UltimaPosicionEscrita, Disponibles
<1>2. PICK B \in Nat \ {0} : B = BLOCK_SIZE
  BY BloquesOK
<1>3. op[f].pc = "libre" /\ "libre" \notin Consume
  BY <1>1 DEF Libre, Consume
<1>4. /\ z = (Len(s) - 1) * BLOCK_SIZE + v /\ v \in 1..B /\ v \in Nat
      /\ Lleno(f, s, contenido, Len(s) - 1)
  BY <1>1, <1>2, <1>3, ConBloques
<1>5. Len(s) \in Nat \ {0} /\ Ultimo(f) = s[Len(s)]
  BY <1>1, UltimoOK
<1>6. (Len(s) - 1) * B \in Nat
  <2>1. 0 \in Nat /\ 0 < Len(s)
    BY <1>5
  <2> QED BY <1>1, <1>2, <2>1, Multiplos
<1>7. n - v \in -1 .. (Len(s) - 1) * B /\ v + (n - v) > 0 /\ Len(s) - 1 < Len(s)
      /\ Len(s) - 1 + 1 = Len(s)
  <2>1. PICK k \in Nat \ {0}, w \in Nat, u \in Nat, c \in Nat :
          k = Len(s) /\ w = v /\ u = n /\ c = (Len(s) - 1) * B
    <3> HIDE DEF s, v
    <3> QED BY <1>1, <1>4, <1>5, <1>6
  <2>2. u # 0 /\ u >= w - 1 /\ u <= c + (w - 1) + 1
    <3> HIDE DEF s, v
    <3> QED BY ONLY <1>1, <1>2, <2>1
  <2>3. u - w \in -1..c /\ w + (u - w) > 0 /\ k - 1 < k /\ k - 1 + 1 = k
    BY ONLY <2>2, k \in Nat, w \in Nat, u \in Nat, c \in Nat
  <2> HIDE DEF s, v
  <2> QED BY ONLY <2>1, <2>3
<1>8. op'[f] = r
  BY <1>1 DEF Tipos
<1>9. /\ r.pc = "escribe_copia" /\ r.pc \in Consume /\ r.bloque = s[Len(s)] /\ r.resta = n - v
      /\ r.vaciados = v /\ r.quedan = Len(s) - 1
  BY <1>5 DEF Consume
<1>10. AMedias(f, s, z, contenido, r)
  <2> HIDE DEF r, s, z, v
  <2> QED BY <1>2, <1>4, <1>5, <1>7, <1>9 DEF AMedias
<1>11. Lleva(f)'
  <2> HIDE DEF r, s, z, v
  <2> QED BY <1>1, <1>8, <1>9, <1>10 DEF Lleva, LlevaEn, s, z
<1>12. op'[f] # op[f]
  <2> HIDE DEF r
  <2> QED BY <1>3, <1>8, <1>9
<1> QED BY <1>11, <1>12

\* A block is found for a file, or there is none.
LEMMA TomarLleva ==
  ASSUME Sano, NEW f \in Archivos, Lleva(f), TomarBloque(f)
  PROVE  Lleva(f)'
<1>1. op[f].pc = "toma" /\ metadata' = metadata /\ contenido' = contenido
  BY DEF TomarBloque, EnOp
<1>2. op'[f].pc \in {"toma", "llena"}
  <2>1. op \in [Archivos -> Pedidas]
    BY DEF Sano, Tipos
  <2>2. op[f] \in Pedidas
    BY <2>1
  <2> QED BY <1>1, <2>1, <2>2 DEF TomarBloque, Pedidas
<1> QED BY <1>1, <1>2 DEF Lleva, LlevaEn, Consume

\* What a request that consumes has in its hands.
LEMMA Consumiendo ==
  ASSUME Sano, NEW f \in Archivos, Lleva(f), op[f].pc \in Consume
  PROVE  /\ AMedias(f, metadata[f].blocks, metadata[f].size, contenido, op[f]) /\ Tipos
         /\ metadata[f].blocks \in Seq(Bloques) /\ IsInjective(metadata[f].blocks)
         /\ Len(metadata[f].blocks) \in Nat /\ metadata[f].size \in Nat /\ op[f].quedan \in Nat
         /\ op[f].resta \in Int /\ op[f].vaciados \in Int
<1>1. AMedias(f, metadata[f].blocks, metadata[f].size, contenido, op[f])
  BY DEF Lleva, LlevaEn
<1>2. Tipos /\ IsInjective(metadata[f].blocks)
  BY DEF Sano, Reparto, BloquesPropios
<1> QED BY <1>1, <1>2, Formas

\* The block that was the last is emptied: those the file still has are full.
LEMMA EscribirCopiaLleva ==
  ASSUME Sano, NEW f \in Archivos, Lleva(f), EscribirCopia(f)
  PROVE  Lleva(f)'
<1> DEFINE s == metadata[f].blocks
           z == metadata[f].size
           q == op[f].quedan
<1>1. /\ op[f].pc = "escribe_copia" /\ metadata' = metadata
      /\ contenido' = Vaciados({op[f].bloque})
  BY DEF EscribirCopia, EnOp
<1>2. /\ AMedias(f, s, z, contenido, op[f]) /\ Tipos /\ s \in Seq(Bloques) /\ IsInjective(s)
      /\ Len(s) \in Nat /\ q \in Nat /\ q < Len(s) /\ op[f].bloque = s[q + 1]
      /\ Lleno(f, s, contenido, q)
  <2>1. op[f].pc \in Consume
    BY <1>1 DEF Consume
  <2> QED BY <1>1, <2>1, Consumiendo DEF AMedias
<1>3. Lleno(f, s, contenido', q)
  <2>1. SUFFICES ASSUME NEW i \in 1..q PROVE contenido'[s[i]] = Repetido(f, BLOCK_SIZE)
    BY DEF Lleno
  <2>2. i \in 1..Len(s) /\ q + 1 \in 1..Len(s) /\ i # q + 1
    <3> HIDE DEF s, q
    <3> QED BY <1>2, <2>1
  <2>3. s[i] # s[q + 1] /\ s[i] \in Bloques
    BY <1>2, <2>2, Distintos
  <2> HIDE DEF s, q
  <2> QED BY <1>1, <1>2, <2>1, <2>3 DEF Lleno, Vaciados
<1>4. /\ op'[f].pc \in Consume /\ op'[f].quedan = q /\ op'[f].resta = op[f].resta
      /\ op'[f].vaciados = op[f].vaciados
      /\ op'[f].pc = "escribe_copia" => op'[f].bloque = op[f].bloque
  <2>1. CASE q = 0
    BY <1>1, <2>1 DEF EscribirCopia, Consume
  <2>2. CASE q # 0
    <3>1. op' = [op EXCEPT ![f].pc = "libera", ![f].bloque = s[q]]
      BY <2>2 DEF EscribirCopia
    <3>2. op \in [Archivos -> Pedidas] /\ op[f] \in Pedidas
      BY <1>2 DEF Tipos
    <3> HIDE DEF s
    <3> QED BY <3>1, <3>2 DEF Pedidas, Consume
  <2> QED BY <2>1, <2>2
<1>5. AMedias(f, s, z, contenido', op'[f])
  <2> HIDE DEF s, z
  <2> QED BY <1>2, <1>3, <1>4 DEF AMedias
<1>6. op'[f].pc \notin {"toma", "llena"}
  BY <1>4 DEF Consume
<1> QED BY <1>1, <1>4, <1>5, <1>6 DEF Lleva, LlevaEn

\* Another one, whole.
LEMMA LiberarOtroLleva ==
  ASSUME Sano, NEW f \in Archivos, Lleva(f), LiberarOtro(f)
  PROVE  Lleva(f)'
<1> DEFINE s == metadata[f].blocks
           z == metadata[f].size
           q == op[f].quedan
           m == op[f].resta
           v == op[f].vaciados
           r == [op[f] EXCEPT !.bloque = @ - 1, !.quedan = @ - 1,
                              !.resta = @ - BLOCK_SIZE, !.vaciados = @ + BLOCK_SIZE]
<1>1. op[f].pc = "libera" /\ metadata' = metadata /\ m >= BLOCK_SIZE /\ op[f].pc \in Consume
  BY DEF LiberarOtro, EnOp, Consume
<1>2. /\ AMedias(f, s, z, contenido, op[f]) /\ Tipos /\ s \in Seq(Bloques) /\ IsInjective(s)
      /\ Len(s) \in Nat /\ q \in Nat /\ q < Len(s) /\ z = q * BLOCK_SIZE + v /\ v \in Int
      /\ m \in Int /\ m \in -1 .. q * BLOCK_SIZE /\ v + m > 0 /\ Lleno(f, s, contenido, q)
  BY <1>1, Consumiendo DEF AMedias
<1>3. q >= 1 /\ op[f].bloque = s[q]
  BY <1>1 DEF Sano, Marcha
<1>4. q \in 1..Len(s) /\ s[q] \in Bloques
  <2>1. q \in 1..Len(s)
    <3> HIDE DEF q, s
    <3> QED BY <1>2, <1>3
  <2> QED BY <1>2, <2>1, BloqueDeLista
<1>5. contenido' = Vaciados({s[q]}) /\ op' = [op EXCEPT ![f] = r]
  BY <1>3, <1>4 DEF LiberarOtro
<1>6. op'[f] = r
  BY <1>2, <1>5 DEF Tipos
<1>7. /\ r.pc = "libera" /\ r.quedan = q - 1 /\ r.resta = m - BLOCK_SIZE
      /\ r.vaciados = v + BLOCK_SIZE
  <2>1. op[f] \in Pedidas
    BY <1>2 DEF Tipos
  <2> QED BY <1>1, <2>1 DEF Pedidas
<1>8. Lleno(f, s, contenido', q - 1)
  <2>1. SUFFICES ASSUME NEW i \in 1..q-1 PROVE contenido'[s[i]] = Repetido(f, BLOCK_SIZE)
    BY DEF Lleno
  <2>2. i \in 1..Len(s) /\ i # q /\ i \in 1..q
    <3> HIDE DEF s, q
    <3> QED BY <1>2, <2>1
  <2>3. s[i] # s[q] /\ s[i] \in Bloques
    BY <1>2, <1>4, <2>2, Distintos
  <2> HIDE DEF s, q
  <2> QED BY <1>2, <1>5, <2>2, <2>3 DEF Lleno, Vaciados
<1>9. /\ q - 1 < Len(s) /\ z = (q - 1) * BLOCK_SIZE + (v + BLOCK_SIZE)
      /\ m - BLOCK_SIZE \in -1 .. (q - 1) * BLOCK_SIZE
      /\ (v + BLOCK_SIZE) + (m - BLOCK_SIZE) > 0
  <2>1. PICK B \in Nat \ {0} : B = BLOCK_SIZE
    BY BloquesOK
  <2>2. (q - 1) * B \in Nat /\ q * B = (q - 1) * B + B
    <3>1. 0 \in Nat /\ 0 < q
      <4> HIDE DEF q
      <4> QED BY <1>2, <1>3
    <3> QED BY <1>2, <2>1, <3>1, Multiplos
  <2> HIDE DEF s, q, m, v, z
  <2>3. PICK a \in Nat, k \in Nat, x \in Int, y \in Int, c \in Nat :
          a = q /\ k = Len(s) /\ x = m /\ y = v /\ c = (q - 1) * B
    BY <1>2, <2>2
  <2>4. a < k /\ x >= B /\ x <= c + B /\ y + x > 0 /\ z = c + B + y
    BY ONLY <1>1, <1>2, <2>1, <2>2, <2>3
  <2>5. a - 1 < k /\ z = c + (y + B) /\ x - B \in -1..c /\ (y + B) + (x - B) > 0
    BY ONLY <2>1, <2>4, a \in Nat, k \in Nat, x \in Int, y \in Int, c \in Nat, B \in Nat
  <2> QED BY ONLY <2>1, <2>3, <2>5
<1>10. AMedias(f, s, z, contenido', r)
  <2> HIDE DEF s, q, m, v, z, r
  <2> QED BY <1>7, <1>8, <1>9 DEF AMedias
<1>11. r.pc \in Consume /\ r.pc \notin {"toma", "llena"}
  BY <1>7 DEF Consume
<1> HIDE DEF r
<1> QED BY <1>1, <1>6, <1>10, <1>11 DEF Lleva, LlevaEn

\* The rest, from the end of the last block it still has.
LEMMA TerminarLleva ==
  ASSUME Sano, NEW f \in Archivos, Lleva(f), TerminarConsumo(f)
  PROVE  /\ Lleva(f)' /\ metadata'[f] # metadata[f] /\ op'[f] = Libre
         /\ metadata'[f].size = metadata[f].size - op[f].vaciados
                                - (IF op[f].resta > 0 THEN op[f].resta ELSE 0)
<1> DEFINE s == metadata[f].blocks
           z == metadata[f].size
           q == op[f].quedan
           m == op[f].resta
           v == op[f].vaciados
           g == IF m > 0 THEN m ELSE 0
           size == SizeTrasConsumo(f)
           t == SubSeq(s, 1, q)
<1>1. op[f].pc = "libera" /\ m < BLOCK_SIZE /\ op[f].pc \in Consume
  BY DEF TerminarConsumo, EnOp, Consume
<1>2. /\ Tipos /\ s \in Seq(Bloques) /\ IsInjective(s)
      /\ Len(s) \in Nat /\ q \in Nat /\ q < Len(s) /\ z = q * BLOCK_SIZE + v /\ v \in Int
      /\ m \in Int /\ m \in -1 .. q * BLOCK_SIZE /\ Lleno(f, s, contenido, q)
  BY <1>1, Consumiendo DEF AMedias
<1>3. PICK B \in Nat \ {0} : B = BLOCK_SIZE
  BY BloquesOK
<1>4. /\ size = q * B - g /\ g \in Nat /\ g < B /\ g <= q * B /\ q * B \in Nat
      /\ size >= 0 /\ size \in Nat
  <2>1. q * B \in Nat
    BY <1>2
  <2>2. size = z - v - g
    BY DEF SizeTrasConsumo
  <2>3. g \in Nat /\ g < B /\ g <= q * B
    <3> HIDE DEF q, m
    <3> QED BY <1>1, <1>2, <1>3, <2>1
  <2> HIDE DEF size, z, v, g, q
  <2> QED BY <1>2, <1>3, <2>1, <2>2, <2>3
<1>5. ~FueraDeRango(size)
  <2> HIDE DEF size
  <2> QED BY <1>4 DEF FueraDeRango
<1>6. /\ metadata' = [metadata EXCEPT ![f].size = IF q = 0 THEN 0 ELSE size, ![f].blocks = t]
      /\ op' = [op EXCEPT ![f] = Libre]
  BY <1>5 DEF TerminarConsumo, ListaRecortada
<1>7. metadata'[f].blocks = t /\ op'[f] = Libre
      /\ metadata'[f].size = (IF q = 0 THEN 0 ELSE size)
  <2> HIDE DEF q, size, t
  <2> QED BY <1>2, <1>6 DEF Tipos
<1>8. q = 0 => size = 0
  <2>1. q = 0 => q * B = 0
    BY <1>2
  <2> HIDE DEF q, size, g
  <2> QED BY <1>4, <2>1
<1>9. metadata'[f].size = size
  <2> HIDE DEF q, size
  <2> QED BY <1>7, <1>8
<1>10. t \in Seq(Bloques) /\ Len(t) = q /\ \A i \in 1..q : t[i] = s[i]
  <2>1. q \in 0..Len(s)
    <3> HIDE DEF q, s
    <3> QED BY <1>2
  <2>2. \A i \in 1..q : s[i] \in Bloques
    <3>1. \A i \in 1..q : i \in 1..Len(s)
      <4> HIDE DEF q, s
      <4> QED BY <1>2
    <3> QED BY <1>2, <3>1, BloqueDeLista
  <2>3. \A i \in 1..q : SubSeq(s, 1, q)[i] = s[1 + i - 1]
    <3>1. /\ 1 \in Int /\ q \in Int
          /\ \A i \in 1..q-1+1 : SubSeq(s, 1, q)[i] = s[1 + i - 1]
      BY <1>2, <2>2, SubSeqProperties
    <3>2. q - 1 + 1 = q
      BY <1>2
    <3> QED BY <3>1, <3>2
  <2>4. \A i \in 1..q : 1 + i - 1 = i
    OBVIOUS
  <2> QED BY <1>2, <2>1, <2>3, <2>4, PrefijoSeq
<1>11. Llenados(f, t, size, contenido')
  <2>1. CASE q = 0
    <3>1. t = <<>>
      <4>1. \A u \in Seq(Bloques) : u # <<>> => Len(u) \in Nat \ {0}
        BY EmptySeq
      <4> HIDE DEF t, q
      <4> QED BY <1>10, <2>1, <4>1
    <3> QED BY <1>8, <2>1, <3>1 DEF Llenados
  <2>2. CASE q # 0
    <3>1. q \in 1..Len(s) /\ q \in Nat \ {0}
      <4> HIDE DEF q, s
      <4> QED BY <1>2, <2>2
    <3>2. s[q] \in Bloques
      BY <1>2, <3>1, BloqueDeLista
    <3>3. q * B = (q - 1) * B + B /\ (q - 1) * B \in Nat
      <4>1. 0 \in Nat /\ 0 < q
        BY <3>1
      <4> QED BY <1>3, <3>1, <4>1, Multiplos
    <3>4. contenido[s[q]] = Repetido(f, B)
      <4>1. q \in 1..q
        BY <3>1
      <4> QED BY <1>2, <1>3, <4>1 DEF Lleno
    <3>5. contenido'[s[q]] = Repetido(f, B - g)
          /\ \A b \in Bloques \ {s[q]} : contenido'[b] = contenido[b]
      <4>1. CASE m > 0
        <5>1. contenido' = [contenido EXCEPT ![s[q]] = SubSeq(@, 1, Menor(Len(@), BLOCK_SIZE - m))]
          <6>1. q > 0
            BY <3>1
          <6> QED BY <4>1, <6>1 DEF TerminarConsumo
        <5>2. Len(Repetido(f, B)) = B
          BY <1>3, Iguales
        <5>3. B - m \in Nat /\ B - m <= B /\ Menor(B, B - m) = B - m /\ g = m
          <6> HIDE DEF m
          <6> QED BY <1>1, <1>2, <1>3, <4>1 DEF Menor
        <5>4. SubSeq(Repetido(f, B), 1, B - m) = Repetido(f, B - m)
          BY <1>3, <5>3, Iguales
        <5> HIDE DEF m, s, q, g
        <5> QED BY <1>2, <1>3, <3>2, <3>4, <5>1, <5>2, <5>3, <5>4 DEF Tipos
      <4>2. CASE ~(m > 0)
        <5>1. contenido' = contenido
          BY <4>2 DEF TerminarConsumo
        <5>2. B - g = B
          BY <1>3, <4>2
        <5> QED BY <3>4, <5>1, <5>2
      <4> QED BY <4>1, <4>2
    <3>6. Lleno(f, t, contenido', q - 1)
      <4>1. SUFFICES ASSUME NEW i \in 1..q-1 PROVE contenido'[t[i]] = Repetido(f, BLOCK_SIZE)
        BY DEF Lleno
      <4>2. i \in 1..Len(s) /\ i # q /\ i \in 1..q
        <5> HIDE DEF s, q
        <5> QED BY <1>2, <3>1, <4>1
      <4>3. s[i] # s[q] /\ s[i] \in Bloques
        BY <1>2, <3>1, <4>2, Distintos
      <4>4. contenido[s[i]] = Repetido(f, BLOCK_SIZE)
        BY <1>2, <4>2 DEF Lleno
      <4> HIDE DEF s, q, t
      <4> QED BY <1>10, <3>5, <4>2, <4>3, <4>4
    <3>7. B - g \in 1..BLOCK_SIZE /\ size = (q - 1) * BLOCK_SIZE + (B - g)
      <4> HIDE DEF q, g, size
      <4> QED BY <1>3, <1>4, <3>3
    <3>8. t # <<>> /\ t[Len(t)] = s[q]
      <4>1. q \in 1..q
        BY <3>1
      <4> HIDE DEF t, s, q
      <4> QED BY <1>10, <3>1, <4>1, EmptySeq
    <3> HIDE DEF t, s, q, size, g
    <3> QED BY <1>10, <3>5, <3>6, <3>7, <3>8 DEF Llenados
  <2> QED BY <2>1, <2>2
<1>12. Lleva(f)'
  <2>1. op'[f].pc = "libre" /\ "libre" \notin Consume
    BY <1>7 DEF Libre, Consume
  <2> HIDE DEF t, size
  <2> QED BY <1>7, <1>9, <1>11, <2>1 DEF Lleva, LlevaEn
<1>13. metadata'[f] # metadata[f]
  <2>1. Len(t) # Len(s)
    <3> HIDE DEF t, s, q
    <3> QED BY <1>2, <1>10
  <2> HIDE DEF t
  <2> QED BY <1>7, <2>1
<1> QED BY <1>7, <1>9, <1>12, <1>13 DEF SizeTrasConsumo

\* A consumption of all there is, and DESCARTAR.
LEMMA QuitarTodoLleva ==
  ASSUME Sano, NEW f \in Archivos, NEW n, QuitarTodo(f, n)
  PROVE  Lleva(f)' /\ metadata'[f] # metadata[f] /\ op' = op /\ metadata'[f].size = 0
<1>1. /\ op[f] = Libre /\ op' = op /\ metadata[f].blocks # <<>> /\ f \in DOMAIN metadata
      /\ metadata' = [metadata EXCEPT ![f].size = 0, ![f].blocks = <<>>]
      /\ metadata[f] \in [existe : BOOLEAN, size : Nat, blocks : Seq(Bloques)]
  BY DEF QuitarTodo, Atender, HayQueQuitar, Sano, Tipos
<1>2. metadata'[f].blocks = <<>> /\ metadata'[f].size = 0
  BY <1>1
<1>3. op'[f] = Libre
  BY <1>1
<1> QED BY <1>1, <1>2, <1>3, VacioLleva

\* DESCARTAR leaves nothing of the file.
LEMMA BorrarLleva ==
  ASSUME Sano, NEW f \in Archivos, BorrarArchivo(f)
  PROVE  Lleva(f)' /\ metadata'[f] # metadata[f] /\ op' = op /\ metadata'[f].size = 0
<1>1. /\ op[f] = Libre /\ op' = op /\ metadata[f].existe
      /\ metadata' = [metadata EXCEPT ![f] = SinArchivo] /\ f \in DOMAIN metadata
  BY DEF BorrarArchivo, Atender, Sano, Tipos
<1>2. metadata'[f] = SinArchivo
  BY <1>1
<1>3. metadata'[f].blocks = <<>> /\ metadata'[f].size = 0 /\ ~metadata'[f].existe
  BY <1>2 DEF SinArchivo
<1>4. metadata'[f] # metadata[f]
  BY <1>1, <1>3
<1>5. op'[f] = Libre
  BY <1>1
<1> QED BY <1>1, <1>3, <1>4, <1>5, VacioLleva

\* Whatever is done on a file, it holds what it should; nothing is done that changes neither
\* the file nor the request; and the MD5 is of what it holds.
LEMMA PasoLleva ==
  ASSUME Sano, NEW f \in Archivos, Lleva(f), Paso(f)
  PROVE  /\ Lleva(f)'
         /\ op[f] = Libre => op'[f] # op[f] \/ metadata'[f] # metadata[f]
         /\ \/ metadata'[f] # metadata[f] \/ op'[f].pc \in Consume
            \/ op[f].pc \notin Consume /\ contenido' = contenido
<1>1. CASE \E n \in Escribibles : EmpezarEscritura(f, n)
  <2>1. PICK n \in Escribibles : EmpezarEscritura(f, n)
    BY <1>1
  <2>2. Lleva(f)' /\ (op'[f] # op[f] \/ metadata'[f] # metadata[f])
    BY <2>1, EscrituraLleva
  <2>3. op[f].pc \notin Consume
    BY <2>1 DEF EmpezarEscritura, Atender, Libre, Consume
  <2>4. metadata'[f] # metadata[f] \/ contenido' = contenido
    <3> DEFINE k == Menor(n, Hueco(f))
    <3>1. CASE k > 0
      <4>1. k \in Int
        <5>1. Hueco(f) \in Int /\ n \in Int
          BY ConstantesOK, UltimoOK DEF Sano, Hueco
        <5> QED BY <5>1 DEF Menor
      <4>2. metadata'[f].size = metadata[f].size + k /\ metadata[f].size \in Nat
        <5>1. f \in DOMAIN metadata /\ metadata[f] \in [existe : BOOLEAN, size : Nat, blocks : Seq(Bloques)]
          BY DEF Sano, Tipos
        <5>2. metadata' = [metadata EXCEPT ![f].existe = TRUE, ![f].size = metadata[f].size + k]
          BY <2>1 DEF EmpezarEscritura
        <5> HIDE DEF k
        <5> QED BY <5>1, <5>2
      <4> HIDE DEF k
      <4> QED BY <3>1, <4>1, <4>2
    <3>2. CASE ~(k > 0)
      BY <2>1, <3>2 DEF EmpezarEscritura
    <3> QED BY <3>1, <3>2
  <2> QED BY <2>2, <2>3, <2>4
<1>2. CASE TomarBloque(f)
  <2>1. op[f].pc = "toma" /\ contenido' = contenido /\ op[f].pc # Libre.pc /\ op[f].pc \notin Consume
    BY <1>2 DEF TomarBloque, EnOp, Libre, Consume
  <2> QED BY <1>2, <2>1, TomarLleva
<1>3. CASE LlenarBloque(f)
  <2>1. op[f].pc # Libre.pc
    BY <1>3 DEF LlenarBloque, EnOp, Libre
  <2>2. metadata'[f] # metadata[f]
    <3>1. /\ metadata[f].blocks \in Seq(Bloques) /\ Len(metadata[f].blocks) \in Nat
          /\ f \in DOMAIN metadata /\ op[f].bloque \in Bloques
          /\ metadata[f] \in [existe : BOOLEAN, size : Nat, blocks : Seq(Bloques)]
      BY <1>3, Formas DEF Sano, Tipos, Marcha, LlenarBloque, EnOp
    <3>2. metadata'[f].blocks = Append(metadata[f].blocks, op[f].bloque)
      BY <1>3, <3>1 DEF LlenarBloque
    <3>3. Len(Append(metadata[f].blocks, op[f].bloque)) = Len(metadata[f].blocks) + 1
      BY <3>1, AppendProperties
    <3>4. Len(metadata'[f].blocks) # Len(metadata[f].blocks)
      BY <3>1, <3>2, <3>3
    <3> QED BY <3>4
  <2> QED BY <1>3, <2>1, <2>2, LlenarLleva
<1>4. CASE \E n \in Consumibles : Consumir(f, n)
  <2>1. PICK n \in Consumibles : Consumir(f, n)
    BY <1>4
  <2>2. CASE QuitarTodo(f, n)
    BY <2>2, QuitarTodoLleva
  <2>3. CASE QuitarDelUltimo(f, n)
    BY <2>3, QuitarDelUltimoLleva
  <2>4. CASE LiberarUltimo(f, n)
    <3>1. op'[f].pc \in Consume
      <4>1. f \in DOMAIN op
        BY DEF Sano, Tipos
      <4> QED BY <2>4, <4>1 DEF LiberarUltimo, Consume
    <3> QED BY <2>4, <3>1, LiberarUltimoLleva
  <2> QED BY <2>1, <2>2, <2>3, <2>4 DEF Consumir
<1>5. CASE EscribirCopia(f)
  <2>1. op[f].pc # Libre.pc
    BY <1>5 DEF EscribirCopia, EnOp, Libre
  <2>2. op'[f].pc \in Consume
    <3>1. f \in DOMAIN op /\ op[f] \in Pedidas
      BY DEF Sano, Tipos
    <3> QED BY <1>5, <3>1 DEF EscribirCopia, EnOp, Consume, Pedidas
  <2> QED BY <1>5, <2>1, <2>2, EscribirCopiaLleva
<1>6. CASE LiberarOtro(f)
  <2>1. op[f].pc # Libre.pc
    BY <1>6 DEF LiberarOtro, EnOp, Libre
  <2>2. op'[f].pc \in Consume
    <3>1. f \in DOMAIN op /\ op[f] \in Pedidas
      BY DEF Sano, Tipos
    <3> QED BY <1>6, <3>1 DEF LiberarOtro, EnOp, Consume, Pedidas
  <2> QED BY <1>6, <2>1, <2>2, LiberarOtroLleva
<1>7. CASE TerminarConsumo(f)
  <2>1. op[f].pc # Libre.pc
    BY <1>7 DEF TerminarConsumo, EnOp, Libre
  <2> QED BY <1>7, <2>1, TerminarLleva
<1>8. CASE BorrarArchivo(f)
  BY <1>8, BorrarLleva
<1> QED BY <1>1, <1>2, <1>3, <1>4, <1>5, <1>6, <1>7, <1>8 DEF Paso

\* What a file has that is in its list, whatever the place of its request.
LEMMA SuyosEnLista ==
  ASSUME Tipos, NEW f \in Archivos
  PROVE  /\ op[f].pc \notin Consume => ToSet(metadata[f].blocks) \subseteq Suyos(f)
         /\ op[f].pc \in Consume => \A i \in 1..Len(metadata[f].blocks) :
              i <= op[f].quedan /\ op[f].quedan <= Len(metadata[f].blocks) =>
                metadata[f].blocks[i] \in Suyos(f)
<1>1. op[f].pc \notin Consume => ToSet(metadata[f].blocks) \subseteq Suyos(f)
  BY DEF Suyos, Consume
<1>2. ASSUME op[f].pc \in Consume, NEW i \in 1..Len(metadata[f].blocks), i <= op[f].quedan,
             op[f].quedan <= Len(metadata[f].blocks)
      PROVE  metadata[f].blocks[i] \in Suyos(f)
  <2> DEFINE s == metadata[f].blocks
             q == op[f].quedan
  <2>1. s \in Seq(Bloques) /\ Len(s) \in Nat /\ q \in Nat
    BY Formas
  <2>2. q \in 0..Len(s) /\ i \in 1..q
    <3> HIDE DEF s, q
    <3> QED BY <1>2, <2>1 DEF s, q
  <2>3. ToSet(SubSeq(s, 1, q)) = {s[j] : j \in 1..q}
    <3> HIDE DEF s, q
    <3> QED BY <2>1, <2>2, PrefijoSeq
  <2>4. Suyos(f) = ToSet(SubSeq(s, 1, q))
    BY <1>2 DEF Suyos, Consume
  <2> QED BY <2>2, <2>3, <2>4
<1> QED BY <1>1, <1>2

\* The blocks that a step on a file changes are the file's, or the one it freed.
LEMMA CambiaLoSuyo ==
  ASSUME Sano, NEW f \in Archivos, Paso(f), NEW b \in Bloques, contenido'[b] # contenido[b]
  PROVE  b \in Suyos(f) \/ (EscribirCopia(f) /\ b = op[f].bloque)
<1>0. Tipos
  BY DEF Sano
<1>1. op[f] = Libre => Suyos(f) = ToSet(metadata[f].blocks)
  BY DEF Libre, Suyos
<1>2. metadata[f].blocks # <<>> => Ultimo(f) \in ToSet(metadata[f].blocks)
  <2>1. metadata[f].blocks \in Seq(Bloques)
    BY <1>0, Formas
  <2>2. DOMAIN metadata[f].blocks = 1..Len(metadata[f].blocks)
    BY <2>1, LenProperties
  <2> QED BY <1>0, <2>2, UltimoOK DEF ToSet
<1>3. CASE \E n \in Escribibles : EmpezarEscritura(f, n)
  <2>1. PICK n \in Escribibles : EmpezarEscritura(f, n)
    BY <1>3
  <2> DEFINE k == Menor(n, Hueco(f))
  <2>2. CASE k > 0
    <3>1. contenido' = [contenido EXCEPT ![Ultimo(f)] = @ \o Repetido(f, k)] /\ op[f] = Libre
      BY <2>1, <2>2 DEF EmpezarEscritura, Atender
    <3>2. metadata[f].blocks # <<>>
      BY <2>2, ConstantesOK DEF Hueco, Menor
    <3>3. b = Ultimo(f)
      <4> HIDE DEF k
      <4> QED BY <1>0, <3>1 DEF Tipos
    <3> QED BY <1>1, <1>2, <3>1, <3>2, <3>3
  <2>3. CASE ~(k > 0)
    BY <2>1, <2>3 DEF EmpezarEscritura
  <2> QED BY <2>2, <2>3
<1>4. CASE TomarBloque(f)
  BY <1>4 DEF TomarBloque
<1>5. CASE LlenarBloque(f)
  <2>1. b = op[f].bloque
    BY <1>0, <1>5 DEF LlenarBloque, Tipos
  <2>2. op[f].bloque \in Suyos(f)
    BY <1>5 DEF LlenarBloque, EnOp, Suyos
  <2> QED BY <2>1, <2>2
<1>6. CASE \E n \in Consumibles : Consumir(f, n)
  <2>1. PICK n \in Consumibles : Consumir(f, n)
    BY <1>6
  <2>2. CASE QuitarTodo(f, n)
    BY <1>1, <2>2 DEF QuitarTodo, Atender, Vaciados
  <2>3. CASE QuitarDelUltimo(f, n)
    <3>1. op[f] = Libre /\ metadata[f].blocks # <<>>
      BY <2>3 DEF QuitarDelUltimo, Atender, HayQueQuitar
    <3>2. b = Ultimo(f)
      BY <1>0, <2>3 DEF QuitarDelUltimo, Tipos
    <3> QED BY <1>1, <1>2, <3>1, <3>2
  <2>4. CASE LiberarUltimo(f, n)
    BY <2>4 DEF LiberarUltimo
  <2> QED BY <2>1, <2>2, <2>3, <2>4 DEF Consumir
<1>7. CASE EscribirCopia(f)
  BY <1>7 DEF EscribirCopia, Vaciados
<1>8. CASE LiberarOtro(f) \/ TerminarConsumo(f)
  <2>1. op[f].pc = "libera" /\ op[f].pc \in Consume
    BY <1>8 DEF LiberarOtro, TerminarConsumo, EnOp, Consume
  <2>2. /\ op[f].quedan \in Nat /\ op[f].quedan <= Len(metadata[f].blocks)
        /\ Len(metadata[f].blocks) \in Nat
    BY <1>0, <2>1, Formas DEF Sano, Marcha
  <2>3. op[f].quedan >= 1 => metadata[f].blocks[op[f].quedan] \in Suyos(f)
    BY <1>0, <2>1, <2>2, SuyosEnLista
  <2>4. CASE LiberarOtro(f)
    <3>1. op[f].quedan >= 1 /\ op[f].bloque = metadata[f].blocks[op[f].quedan]
      BY <2>1, <2>4 DEF LiberarOtro, Sano, Marcha
    <3>2. b = op[f].bloque
      BY <2>4 DEF LiberarOtro, Vaciados
    <3> QED BY <2>3, <3>1, <3>2
  <2>5. CASE TerminarConsumo(f)
    <3>1. op[f].quedan > 0 /\ b = metadata[f].blocks[op[f].quedan]
      BY <1>0, <2>5 DEF TerminarConsumo, Tipos
    <3> QED BY <2>2, <2>3, <3>1
  <2> QED BY <1>8, <2>4, <2>5
<1>9. CASE BorrarArchivo(f)
  BY <1>1, <1>9 DEF BorrarArchivo, Atender, Vaciados
<1> QED BY <1>3, <1>4, <1>5, <1>6, <1>7, <1>8, <1>9 DEF Paso

\* Of another file, unless it is the one that has by now the block that is emptied, nothing
\* changes.
LEMMA AjenoIntacto ==
  ASSUME Sano, NEW f \in Archivos, Paso(f), NEW g \in Archivos \ {f}
  PROVE  /\ op'[g] = op[g] /\ metadata'[g] = metadata[g] /\ pisados \subseteq pisados'
         /\ g \notin pisados' => \A b \in Suyos(g) \cap ToSet(metadata[g].blocks) :
                                   contenido'[b] = contenido[b]
<1>1. op'[g] = op[g] /\ metadata'[g] = metadata[g]
  BY DEF Sano, Tipos, Paso, EmpezarEscritura, TomarBloque, LlenarBloque, Consumir, QuitarTodo,
         QuitarDelUltimo, LiberarUltimo, EscribirCopia, LiberarOtro, TerminarConsumo, BorrarArchivo
<1>2. pisados \subseteq pisados'
  BY DEF Paso, EmpezarEscritura, TomarBloque, LlenarBloque, Consumir, QuitarTodo,
         QuitarDelUltimo, LiberarUltimo, EscribirCopia, LiberarOtro, TerminarConsumo, BorrarArchivo
<1>3. ASSUME g \notin pisados', NEW b \in Suyos(g) \cap ToSet(metadata[g].blocks),
             contenido'[b] # contenido[b]
      PROVE  FALSE
  <2>1. b \in Bloques /\ b \notin Suyos(f)
    BY DEF Sano, Reparto, BloquesPropios, Tipos
  <2>2. EscribirCopia(f) /\ b = op[f].bloque
    BY <1>3, <2>1, CambiaLoSuyo
  <2>3. g \in pisados'
    BY <1>3, <2>2 DEF EscribirCopia
  <2> QED BY <1>3, <2>3
<1> QED BY <1>1, <1>2, <1>3

\* A file that was not served since the last copy is on the disk as it is.
EnDisco(f) ==
  op[f] = Libre /\ \A b \in ToSet(metadata[f].blocks) : disco[b] = contenido[b]

\* MD5 was computed from what the file holds, unless a request is consuming from it.
Firmado(f) == op[f].pc \notin Consume => md5[f] = Texto(f)

Datos(f) == Lleva(f) /\ (f \notin tocados => EnDisco(f)) /\ (f \in Recursos => Firmado(f))

Metadatos ==
  cantidad = BLOCK_COUNT /\ \A f \in Recursos : block_count[f] = Len(metadata[f].blocks)

DatosDeTodos == \A f \in Archivos \ Descartados : Datos(f)

IndDatos == Inductiva /\ (fsck = "sano" => Metadatos /\ DatosDeTodos)

\* Two texts of the same blocks.
LEMMA TextoIgual ==
  ASSUME NEW f, metadata[f].blocks \in Seq(Bloques), metadata[f].size \in Nat,
         metadata'[f] = metadata[f],
         \A b \in ToSet(metadata[f].blocks) : contenido'[b] = contenido[b]
  PROVE  Texto(f)' = Texto(f)
<1> DEFINE s == metadata[f].blocks
           n == (metadata[f].size + BLOCK_SIZE - 1) \div BLOCK_SIZE
<1>1. \A i \in 1..Len(s) : contenido'[s[i]] = contenido[s[i]]
  BY LenProperties DEF ToSet
<1>2. \A i : Tramo(f, i)' = Tramo(f, i)
  BY DEF Tramo
<1>3. n <= Len(s) => \A i \in 1..n : i \in 1..Len(s)
  <2>1. Len(s) \in Nat
    BY LenProperties
  <2>2. n \in Int
    <3>1. PICK B \in Nat \ {0}, z \in Nat : B = BLOCK_SIZE /\ z = metadata[f].size
      BY BloquesOK
    <3>2. (z + B - 1) \div B \in Int
      <4>1. z + B - 1 \in Int /\ B > 0
        BY <3>1
      <4> QED BY <3>1, <4>1
    <3> QED BY <3>1, <3>2
  <2> HIDE DEF s, n
  <2> QED BY <2>1, <2>2
<1>4. CASE n <= Len(s)
  <2>1. \A i \in 1..n : /\ contenido'[s[i]] = contenido[s[i]] /\ Tramo(f, i)' = Tramo(f, i)
    BY <1>1, <1>2, <1>3, <1>4
  <2>2. [i \in 1..n |-> SubSeq(contenido'[s[i]], 1, Tramo(f, i)')]
        = [i \in 1..n |-> SubSeq(contenido[s[i]], 1, Tramo(f, i))]
    <3> HIDE DEF n, s
    <3> QED BY <2>1
  <2>3. (\A i \in 1..n : Len(contenido'[s[i]]) >= Tramo(f, i)')
        <=> (\A i \in 1..n : Len(contenido[s[i]]) >= Tramo(f, i))
    <3> HIDE DEF n, s
    <3> QED BY <2>1
  <2>4. Texto(f)' = IF n <= Len(s) /\ \A i \in 1..n : Len(contenido'[s[i]]) >= Tramo(f, i)'
                    THEN FlattenSeq([i \in 1..n |-> SubSeq(contenido'[s[i]], 1, Tramo(f, i)')])
                    ELSE SinHash
    BY DEF Texto
  <2>5. Texto(f) = IF n <= Len(s) /\ \A i \in 1..n : Len(contenido[s[i]]) >= Tramo(f, i)
                   THEN FlattenSeq([i \in 1..n |-> SubSeq(contenido[s[i]], 1, Tramo(f, i))])
                   ELSE SinHash
    BY DEF Texto
  <2> HIDE DEF n, s
  <2>6. CASE \A i \in 1..n : Len(contenido[s[i]]) >= Tramo(f, i)
    <3>1. Texto(f)' = FlattenSeq([i \in 1..n |-> SubSeq(contenido'[s[i]], 1, Tramo(f, i)')])
      BY <1>4, <2>3, <2>4, <2>6
    <3>2. Texto(f) = FlattenSeq([i \in 1..n |-> SubSeq(contenido[s[i]], 1, Tramo(f, i))])
      BY <1>4, <2>5, <2>6
    <3> QED BY <2>2, <3>1, <3>2
  <2>7. CASE ~(\A i \in 1..n : Len(contenido[s[i]]) >= Tramo(f, i))
    BY <2>3, <2>4, <2>5, <2>7
  <2> QED BY <2>6, <2>7
<1>5. CASE ~(n <= Len(s))
  BY <1>5 DEF Texto
<1> QED BY <1>4, <1>5

\* What another file holds, and what is said of it.
LEMMA DatosAjenos ==
  ASSUME Sano, NEW g \in Archivos, Datos(g), op'[g] = op[g], metadata'[g] = metadata[g],
         disco' = disco, g \notin tocados' => g \notin tocados, g \in Recursos => md5'[g] = md5[g],
         \A b \in Suyos(g) \cap ToSet(metadata[g].blocks) : contenido'[b] = contenido[b]
  PROVE  Datos(g)'
<1> DEFINE s == metadata[g].blocks
           q == op[g].quedan
<1>1. s \in Seq(Bloques) /\ Len(s) \in Nat /\ q \in Nat /\ DOMAIN s = 1..Len(s)
      /\ metadata[g].size \in Nat
  BY Formas, LenProperties DEF Sano
<1>2. op[g].pc \notin Consume => \A b \in ToSet(s) : contenido'[b] = contenido[b]
  BY SuyosEnLista DEF Sano
<1>3. \A i \in 1..Len(s) : s[i] \in ToSet(s)
  BY <1>1 DEF ToSet
<1>4. Lleva(g)'
  <2>1. CASE op[g].pc \notin Consume
    <3>1. \A i \in 1..Len(s) : contenido'[s[i]] = contenido[s[i]]
      BY <1>2, <1>3, <2>1
    <3>2. Llenados(g, s, metadata[g].size, contenido)
      BY <2>1 DEF Datos, Lleva, LlevaEn
    <3>3. Llenados(g, s, metadata[g].size, contenido')
      <4>1. s = <<>> \/ Len(s) \in Nat \ {0}
        BY <1>1, EmptySeq
      <4>2. s # <<>> => Len(s) \in 1..Len(s) /\ \A i \in 1..Len(s)-1 : i \in 1..Len(s)
        <5> HIDE DEF s
        <5> QED BY <4>1
      <4> HIDE DEF s
      <4> QED BY <3>1, <3>2, <4>2 DEF Llenados, Lleno
    <3> QED BY <2>1, <3>3 DEF Datos, Lleva, LlevaEn
  <2>2. CASE op[g].pc \in Consume
    <3>1. AMedias(g, s, metadata[g].size, contenido, op[g])
      BY <2>2 DEF Datos, Lleva, LlevaEn
    <3>2. q < Len(s)
      BY <3>1 DEF AMedias
    <3>3. \A i \in 1..q : contenido'[s[i]] = contenido[s[i]]
      <4>1. \A i \in 1..q : i \in 1..Len(s) /\ i <= q /\ q <= Len(s)
        <5> HIDE DEF s, q
        <5> QED BY <1>1, <3>2
      <4>2. \A i \in 1..q : s[i] \in Suyos(g)
        BY <2>2, <4>1, SuyosEnLista DEF Sano
      <4> QED BY <1>3, <4>1, <4>2
    <3>4. AMedias(g, s, metadata[g].size, contenido', op[g])
      <4> HIDE DEF s
      <4> QED BY <3>1, <3>3 DEF AMedias, Lleno
    <3> QED BY <2>2, <3>4 DEF Datos, Lleva, LlevaEn, Consume
  <2> QED BY <2>1, <2>2
<1>5. ASSUME g \notin tocados' PROVE EnDisco(g)'
  <2>1. EnDisco(g)
    BY <1>5 DEF Datos
  <2>2. op[g].pc \notin Consume
    BY <2>1 DEF EnDisco, Libre, Consume
  <2> QED BY <1>2, <2>1, <2>2 DEF EnDisco
<1>6. ASSUME g \in Recursos PROVE Firmado(g)'
  <2>1. SUFFICES ASSUME op[g].pc \notin Consume PROVE md5'[g] = Texto(g)'
    BY DEF Firmado
  <2>2. Texto(g)' = Texto(g)
    BY <1>1, <1>2, <2>1, TextoIgual
  <2> QED BY <1>6, <2>1, <2>2 DEF Datos, Firmado
<1> QED BY <1>4, <1>5, <1>6 DEF Datos

\* A request that is served.
LEMMA PasoDatos ==
  ASSUME Sano, Metadatos, DatosDeTodos, Next, GuardarMetadata, UNCHANGED sabotaje,
         disco' = disco, perdidos' = perdidos,
         tocados' = tocados \cup {f \in Archivos : <<op[f], metadata[f]>>' # <<op[f], metadata[f]>>}
  PROVE  Metadatos' /\ DatosDeTodos'
<1>1. PICK f \in Archivos : Paso(f)
  BY DEF Next, Paso
<1>2. \A g \in Recursos :
        /\ block_count'[g] = IF metadata'[g] # metadata[g] THEN Len(metadata'[g].blocks)
                             ELSE block_count[g]
        /\ md5'[g] = IF metadata'[g] # metadata[g] THEN Texto(g)' ELSE md5[g]
  BY DEF GuardarMetadata
<1>3. Metadatos'
  BY <1>2 DEF Metadatos, sabotaje
<1>4. ASSUME NEW g \in (Archivos \ {f}) \ Descartados' PROVE Datos(g)'
  <2>1. /\ op'[g] = op[g] /\ metadata'[g] = metadata[g] /\ pisados \subseteq pisados'
        /\ g \notin pisados' => \A b \in Suyos(g) \cap ToSet(metadata[g].blocks) :
                                  contenido'[b] = contenido[b]
    BY <1>1, AjenoIntacto
  <2>2. g \notin pisados' /\ g \in Archivos \ Descartados
    BY <2>1 DEF Descartados
  <2>3. Datos(g)
    BY <2>2 DEF DatosDeTodos
  <2>4. g \in Recursos => md5'[g] = md5[g]
    BY <1>2, <2>1
  <2> QED BY <2>1, <2>2, <2>3, <2>4, DatosAjenos
<1>5. ASSUME f \notin Descartados' PROVE Datos(f)'
  <2>1. pisados \subseteq pisados'
    BY <1>1 DEF Paso, EmpezarEscritura, TomarBloque, LlenarBloque, Consumir, QuitarTodo,
         QuitarDelUltimo, LiberarUltimo, EscribirCopia, LiberarOtro, TerminarConsumo, BorrarArchivo
  <2>2. Datos(f)
    BY <1>5, <2>1 DEF DatosDeTodos, Descartados
  <2>3. /\ Lleva(f)'
        /\ op[f] = Libre => op'[f] # op[f] \/ metadata'[f] # metadata[f]
        /\ \/ metadata'[f] # metadata[f] \/ op'[f].pc \in Consume
           \/ op[f].pc \notin Consume /\ contenido' = contenido
    BY <1>1, <2>2, PasoLleva DEF Datos
  <2>4. f \in tocados'
    <3>1. CASE f \in tocados
      BY <3>1
    <3>2. CASE f \notin tocados
      <4>1. op[f] = Libre
        BY <2>2, <3>2 DEF Datos, EnDisco
      <4> QED BY <2>3, <4>1
    <3> QED BY <3>1, <3>2
  <2>5. ASSUME f \in Recursos, op'[f].pc \notin Consume PROVE md5'[f] = Texto(f)'
    <3>1. CASE metadata'[f] # metadata[f]
      BY <1>2, <2>5, <3>1
    <3>2. CASE metadata'[f] = metadata[f]
      <4>1. op[f].pc \notin Consume /\ contenido' = contenido
        BY <2>3, <2>5, <3>2
      <4>2. metadata[f].blocks \in Seq(Bloques)
            /\ metadata[f].size \in Nat
        BY Formas DEF Sano
      <4>3. Texto(f)' = Texto(f)
        BY <3>2, <4>1, <4>2, TextoIgual
      <4> QED BY <1>2, <2>2, <2>5, <3>2, <4>1, <4>3 DEF Datos, Firmado
    <3> QED BY <3>1, <3>2
  <2> QED BY <2>3, <2>4, <2>5 DEF Datos, Firmado
<1> QED BY <1>3, <1>4, <1>5 DEF DatosDeTodos

\* A copy to the disk: the files at rest are there as they are.
LEMMA CopiarDatos ==
  ASSUME Sano, Metadatos, DatosDeTodos, Sincronizar
  PROVE  Metadatos' /\ DatosDeTodos'
<1>1. /\ UNCHANGED <<contenido, metadata, op, pisados, md5, block_count, cantidad>>
      /\ perdidos' = perdidos /\ disco' = contenido /\ tocados' = {f \in Archivos : op[f] # Libre}
  BY DEF Sincronizar, fvars, vars
<1>2. Metadatos'
  BY <1>1 DEF Metadatos
<1>3. ASSUME NEW f \in Archivos \ Descartados PROVE Datos(f)'
  <2>1. Datos(f)
    BY <1>3 DEF DatosDeTodos
  <2>2. Lleva(f)'
    BY <1>1, <2>1 DEF Datos, Lleva
  <2>3. f \notin tocados' => EnDisco(f)'
    BY <1>1 DEF EnDisco
  <2>4. f \in Recursos => Firmado(f)'
    <3>1. metadata[f].blocks \in Seq(Bloques) /\ metadata[f].size \in Nat
      BY <1>3, Formas DEF Sano
    <3>2. Texto(f)' = Texto(f)
      BY <1>1, <3>1, TextoIgual
    <3> QED BY <1>1, <2>1, <3>2 DEF Datos, Firmado
  <2> QED BY <2>2, <2>3, <2>4 DEF Datos
<1>4. Descartados' = Descartados
  BY <1>1 DEF Descartados
<1> QED BY <1>2, <1>3, <1>4 DEF DatosDeTodos

\* A restart: what the disk has of a file that was copied is what it holds.
LEMMA ReiniciarDatos ==
  ASSUME Sano, Metadatos, DatosDeTodos, Reiniciar
  PROVE  Metadatos' /\ DatosDeTodos'
<1>1. /\ UNCHANGED <<metadata, op, pisados, md5, block_count, cantidad, disco>>
      /\ perdidos' = perdidos \cup tocados /\ contenido' = disco /\ tocados' = {}
  BY DEF Reiniciar, BlocksDelDisco
<1>2. Metadatos'
  BY <1>1 DEF Metadatos
<1>3. ASSUME NEW f \in Archivos, f \notin Descartados' PROVE Datos(f)'
  <2>1. f \notin Descartados /\ f \notin tocados
    BY <1>1, <1>3 DEF Descartados
  <2>2. Datos(f) /\ EnDisco(f)
    BY <2>1 DEF DatosDeTodos, Datos
  <2>3. op'[f] = op[f] /\ metadata'[f] = metadata[f] /\ md5' = md5 /\ op[f] = Libre
        /\ \A b \in ToSet(metadata[f].blocks) : contenido'[b] = contenido[b]
    BY <1>1, <2>2 DEF EnDisco
  <2>4. metadata[f].blocks \in Seq(Bloques) /\ DOMAIN metadata[f].blocks = 1..Len(metadata[f].blocks)
        /\ Len(metadata[f].blocks) \in Nat /\ metadata[f].size \in Nat
    BY Formas, LenProperties DEF Sano
  <2>5. op[f].pc = "libre" /\ "libre" \notin Consume
    BY <2>3 DEF Libre, Consume
  <2>6. Lleva(f)'
    <3> DEFINE s == metadata[f].blocks
    <3>1. Llenados(f, s, metadata[f].size, contenido)
      BY <2>2, <2>5 DEF Datos, Lleva, LlevaEn
    <3>2. \A i \in 1..Len(s) : contenido'[s[i]] = contenido[s[i]]
      BY <2>3, <2>4 DEF ToSet
    <3>3. Llenados(f, s, metadata[f].size, contenido')
      <4>1. s = <<>> \/ Len(s) \in Nat \ {0}
        BY <2>4, EmptySeq
      <4>2. s # <<>> => Len(s) \in 1..Len(s) /\ \A i \in 1..Len(s)-1 : i \in 1..Len(s)
        <5> HIDE DEF s
        <5> QED BY <4>1
      <4> HIDE DEF s
      <4> QED BY <3>1, <3>2, <4>2 DEF Llenados, Lleno
    <3> QED BY <2>3, <2>5, <3>3 DEF Lleva, LlevaEn
  <2>7. EnDisco(f)'
    BY <1>1, <2>3 DEF EnDisco
  <2>8. f \in Recursos => Firmado(f)'
    <3>1. Texto(f)' = Texto(f)
      BY <2>3, <2>4, TextoIgual
    <3> QED BY <2>2, <2>3, <2>5, <3>1 DEF Datos, Firmado
  <2> QED BY <2>6, <2>7, <2>8 DEF Datos
<1> QED BY <1>2, <1>3 DEF DatosDeTodos

\* The hash of a resource that has something in it is of something.
LEMMA TextoDeLoQueHay ==
  ASSUME Sano, NEW f \in Archivos, Lleva(f), op[f].pc \notin Consume, metadata[f].blocks # <<>>
  PROVE  Texto(f) # SinHash
<1> DEFINE s == metadata[f].blocks
           z == metadata[f].size
           L == Len(s)
           u == [i \in 1..L |-> SubSeq(contenido[s[i]], 1, Tramo(f, i))]
<1>1. s \in Seq(Bloques) /\ z \in Nat /\ L \in Nat \ {0} /\ DOMAIN s = 1..L
  BY Formas, LenProperties, EmptySeq DEF Sano
<1>2. PICK B \in Nat \ {0} : B = BLOCK_SIZE
  BY BloquesOK
<1>3. PICK v \in 1..BLOCK_SIZE : z = (L - 1) * BLOCK_SIZE + v
  BY ConBloques DEF Sano
<1>4. Llenados(f, s, z, contenido)
  BY DEF Lleva, LlevaEn
<1>5. \A i \in 1..L : /\ z - (i - 1) * B > 0
                      /\ contenido[s[i]] = Repetido(f, Menor(z - (i - 1) * B, B))
  <2>1. \A i \in DOMAIN s :
          /\ z - (i - 1) * BLOCK_SIZE > 0
          /\ contenido[s[i]] = Repetido(f, Menor(z - (i - 1) * BLOCK_SIZE, BLOCK_SIZE))
    <3>1. s \in Seq(Bloques) /\ z \in Nat
      BY <1>1
    <3>2. Llenados(f, s, z, contenido)
      BY <1>4
    <3>3. /\ \A i \in DOMAIN s :
               /\ z - (i - 1) * BLOCK_SIZE > 0
               /\ contenido[s[i]] = Repetido(f, Menor(z - (i - 1) * BLOCK_SIZE, BLOCK_SIZE))
          /\ z <= Len(s) * BLOCK_SIZE
      BY <3>1, <3>2, LlenadosEsContenido
    <3> HIDE DEF s, z
    <3> QED BY <3>3
  <2> HIDE DEF s, z, L
  <2> QED BY <1>1, <1>2, <2>1
<1>6. \A i \in 1..L : Tramo(f, i) \in Nat \ {0} /\ contenido[s[i]] = Repetido(f, Tramo(f, i))
  <2>1. SUFFICES ASSUME NEW i \in 1..L
                 PROVE Tramo(f, i) \in Nat \ {0} /\ contenido[s[i]] = Repetido(f, Tramo(f, i))
    OBVIOUS
  <2>2. PICK w \in Int : w = z - (i - 1) * B
    <3>1. i \in Nat
      OBVIOUS
    <3> HIDE DEF z, L
    <3> QED BY <1>1, <3>1
  <2>3. w > 0 /\ contenido[s[i]] = Repetido(f, Menor(w, B))
    BY <1>5, <2>2
  <2>4. Tramo(f, i) = Menor(w, B)
    <3>1. Tramo(f, i) = IF w < 0 THEN 0 ELSE Menor(w, B)
      BY <1>2, <2>2 DEF Tramo
    <3> QED BY <2>3, <3>1
  <2>5. Menor(w, B) \in Nat \ {0}
    BY <2>3 DEF Menor
  <2> QED BY <2>3, <2>4, <2>5
<1>7. (z + BLOCK_SIZE - 1) \div BLOCK_SIZE = L
  <2>1. PICK q \in Int : q = (z + B - 1) \div B /\ q * B <= z + B - 1 /\ z + B - 1 < q * B + B
    <3>1. PICK a \in Nat : a = z + B - 1
      <4> HIDE DEF z
      <4> QED BY <1>1
    <3>2. a \div B \in Int /\ (a \div B) * B <= a /\ a < (a \div B) * B + B
      OBVIOUS
    <3> QED BY <3>1, <3>2
  <2>2. L * B = (L - 1) * B + B /\ (L - 1) * B \in Nat
    <3>1. 0 \in Nat /\ 0 < L /\ L \in Nat
      <4> HIDE DEF L
      <4> QED BY <1>1
    <3> HIDE DEF L
    <3> QED BY <1>2, <3>1, Multiplos
  <2>3. z + B - 1 >= L * B /\ z + B - 1 < L * B + B
    <3> HIDE DEF z, L
    <3> QED BY <1>2, <1>3, <2>2
  <2>4. q >= 0
    <3>1. CASE q < 0
      <4>1. q + 1 <= 0 /\ q + 1 \in Int
        BY <3>1
      <4>2. q * B + B <= 0
        <5>1. PICK d \in Nat : q + 1 = -d
          <6>1. -(q + 1) \in Nat /\ q + 1 = -(-(q + 1))
            BY <4>1
          <6> QED BY <6>1
        <5>2. q * B + B = (q + 1) * B
          OBVIOUS
        <5>3. (-d) * B = -(d * B) /\ d * B >= 0
          OBVIOUS
        <5> QED BY <5>1, <5>2, <5>3
      <4> HIDE DEF z
      <4> QED BY <1>1, <2>1, <4>2
    <3> QED BY <3>1
  <2>5. ~(q < L)
    <3>1. SUFFICES ASSUME q < L PROVE FALSE
      OBVIOUS
    <3>2. q \in Nat /\ L \in Nat
      <4> HIDE DEF L
      <4> QED BY <1>1, <2>4
    <3>3. q * B <= (L - 1) * B
      <4> HIDE DEF L
      <4> QED BY <1>2, <3>1, <3>2, Multiplos
    <3>4. q * B \in Int
      OBVIOUS
    <3> HIDE DEF z, L
    <3> QED BY <1>1, <2>1, <2>2, <2>3, <3>3, <3>4
  <2>6. ~(L < q)
    <3>1. SUFFICES ASSUME L < q PROVE FALSE
      OBVIOUS
    <3>2. q \in Nat /\ L \in Nat
      <4> HIDE DEF L
      <4> QED BY <1>1, <2>4
    <3>3. L * B <= (q - 1) * B /\ q * B = (q - 1) * B + B /\ (q - 1) * B \in Nat
      <4> HIDE DEF L
      <4> QED BY <1>2, <3>1, <3>2, Multiplos
    <3>4. q * B >= L * B + B
      <4> HIDE DEF L
      <4> QED BY <2>2, <3>3
    <3> HIDE DEF z, L
    <3> QED BY <1>1, <2>1, <2>2, <2>3, <3>4
  <2>7. q = L
    <3> HIDE DEF L
    <3> QED BY <1>1, <2>5, <2>6
  <2> QED BY <1>2, <2>1, <2>7
<1>8. \A i \in 1..L : Len(contenido[s[i]]) = Tramo(f, i) /\ u[i] = Repetido(f, Tramo(f, i))
  <2>1. SUFFICES ASSUME NEW i \in 1..L
                 PROVE  Len(contenido[s[i]]) = Tramo(f, i) /\ u[i] = Repetido(f, Tramo(f, i))
    OBVIOUS
  <2>2. Tramo(f, i) \in Nat /\ contenido[s[i]] = Repetido(f, Tramo(f, i))
    BY <1>6
  <2>3. Len(Repetido(f, Tramo(f, i))) = Tramo(f, i)
        /\ SubSeq(Repetido(f, Tramo(f, i)), 1, Tramo(f, i)) = Repetido(f, Tramo(f, i))
    <3>1. PICK n \in Nat : n = Tramo(f, i)
      BY <2>2
    <3>2. Len(Repetido(f, n)) = n /\ SubSeq(Repetido(f, n), 1, n) = Repetido(f, n)
      <4>1. n <= n
        OBVIOUS
      <4> QED BY <4>1, Iguales
    <3> QED BY <3>1, <3>2
  <2> QED BY <2>2, <2>3
<1>9. Texto(f) = FlattenSeq(u)
  <2>1. \A i \in 1..L : Len(contenido[s[i]]) >= Tramo(f, i)
    <3>1. SUFFICES ASSUME NEW i \in 1..L PROVE Len(contenido[s[i]]) >= Tramo(f, i)
      OBVIOUS
    <3>2. PICK n \in Nat : n = Tramo(f, i)
      BY <1>6
    <3>3. Len(contenido[s[i]]) = n
      BY <1>8, <3>2
    <3> QED BY <3>2, <3>3
  <2>2. L <= L
    BY <1>1
  <2> QED BY <1>7, <2>1, <2>2 DEF Texto
<1>10. u \in Seq(Seq({f})) /\ Len(u) = L /\ u[L] \in Seq({f}) /\ Len(u[L]) >= 1
  <2>1. \A i \in 1..L : u[i] \in Seq({f}) /\ Len(u[i]) >= 1
    <3>1. SUFFICES ASSUME NEW i \in 1..L PROVE u[i] \in Seq({f}) /\ Len(u[i]) >= 1
      OBVIOUS
    <3>2. Tramo(f, i) \in Nat \ {0} /\ u[i] = Repetido(f, Tramo(f, i))
      BY <1>6, <1>8
    <3>3. Repetido(f, Tramo(f, i)) \in Seq({f}) /\ Len(Repetido(f, Tramo(f, i))) = Tramo(f, i)
      BY <3>2, Iguales
    <3> HIDE DEF u
    <3> QED BY <3>2, <3>3
  <2>2. u \in [1..L -> Seq({f})]
    <3>1. u = [i \in 1..L |-> u[i]]
      OBVIOUS
    <3> HIDE DEF u
    <3> QED BY <2>1, <3>1
  <2>3. L \in Nat /\ L \in 1..L
    BY <1>1
  <2> HIDE DEF u
  <2>4. u \in Seq(Seq({f}))
    BY <2>2, <2>3, IsASeq
  <2>5. DOMAIN u = 1..L /\ DOMAIN u = 1..Len(u) /\ Len(u) \in Nat
    BY <2>2, <2>4, LenProperties
  <2>6. Len(u) = L
    <3> HIDE DEF L
    <3> QED BY <2>3, <2>5
  <2> QED BY <2>1, <2>3, <2>4, <2>6
<1> HIDE DEF u, L
<1>11. u # <<>>
  BY <1>1, <1>10, EmptySeq
<1>12. FlattenSeq(u) \in Seq({f}) /\ Len(FlattenSeq(u)) >= Len(u[Len(u)])
  BY <1>10, <1>11, AplanarSeq
<1>13. Len(FlattenSeq(u)) \in Nat /\ Len(u[L]) \in Nat
  BY <1>10, <1>12, LenProperties
<1>14. Len(FlattenSeq(u)) # 0
  <2>1. PICK a \in Nat, b \in Nat : a = Len(FlattenSeq(u)) /\ b = Len(u[L])
    BY <1>13
  <2>2. a >= b /\ b >= 1
    BY <1>10, <1>12, <2>1
  <2> QED BY <2>1, <2>2
<1> QED BY <1>9, <1>14, EmptySeq DEF SinHash

-----------------------------------------------------------------------------
\* Whatever happens, it goes on holding.
LEMMA IndDatosPaso ==
  ASSUME IndDatos, ConsumoCorto, [RNext]_rvars
  PROVE  IndDatos'
<1>1. Inductiva'
  BY InductivaPaso DEF IndDatos
<1>2. ASSUME fsck' = "sano" PROVE Metadatos' /\ DatosDeTodos'
  <2>1. CASE UNCHANGED rvars
    <3>1. UNCHANGED <<contenido, metadata, op, pisados, md5, block_count, cantidad, disco,
                      perdidos, tocados, fsck>>
      BY <2>1 DEF rvars, fvars, vars
    <3>2. fsck = "sano"
      BY <1>2, <3>1
    <3>3. Metadatos' /\ Descartados' = Descartados
      BY <3>1, <3>2 DEF IndDatos, Metadatos, Descartados
    <3>4. ASSUME NEW f \in Archivos \ Descartados PROVE Datos(f)'
      <4>1. Datos(f) /\ Sano
        BY <3>2 DEF IndDatos, DatosDeTodos, Inductiva, Atencion
      <4> QED BY <3>1, <4>1, DatosAjenos
    <3> QED BY <3>3, <3>4 DEF DatosDeTodos
  <2>2. CASE fsck # "sano"
    <3>1. fsck' # "sano"
      BY <2>1, <2>2 DEF RNext, Servir, FNext, Sincronizar, Reiniciar, sabotaje, Sabotear, RealizarFsck,
           SabotajeResuelto, EmpezarAnotacion, SeguirAnotacion, TomarBloqueSaboteado, rvars, fvars,
           RevisarBlockCount, RevisarBlocks, RevisarSuperbloque, RevisarSize, RevisarBitmap, Repasado
    <3> QED BY <1>2, <3>1
  <2>3. CASE fsck = "sano" /\ RNext
    <3>1. Sano /\ ~estoy_saboteado /\ Metadatos /\ DatosDeTodos
      BY <2>3 DEF IndDatos, Inductiva, Atencion
    <3>2. CASE Servir
      <4>1. Next /\ GuardarMetadata /\ UNCHANGED sabotaje
        BY <1>2, <2>3, <3>1, <3>2 DEF Servir, FNext, Sabotear, RealizarFsck, SabotajeResuelto,
                                 EmpezarAnotacion
      <4> QED BY <3>1, <3>2, <4>1, PasoDatos DEF Servir
    <3>3. CASE Sincronizar
      BY <3>1, <3>3, CopiarDatos
    <3>4. CASE Reiniciar
      BY <3>1, <3>4, ReiniciarDatos
    <3> QED BY <2>3, <3>2, <3>3, <3>4 DEF RNext
  <2> QED BY <2>1, <2>2, <2>3
<1> QED BY <1>1, <1>2 DEF IndDatos

\* It holds of a new disk.
LEMMA IndDatosInicial == RInit => IndDatos
<1>1. SUFFICES ASSUME RInit PROVE Metadatos /\ DatosDeTodos
  BY InductivaInicial DEF IndDatos
<1>2. /\ \A f \in Archivos : metadata[f] = SinArchivo /\ op[f] = Libre
      /\ \A f \in Recursos : f \in Archivos /\ block_count[f] = 0 /\ md5[f] = SinHash
      /\ cantidad = BLOCK_COUNT
  BY <1>1 DEF RInit, FInit, Init, Archivos
<1>3. SinArchivo.blocks = <<>> /\ SinArchivo.size = 0 /\ ToSet(<<>>) = {} /\ Len(<<>>) = 0
      /\ Libre.pc = "libre" /\ "libre" \notin Consume
  BY DEF SinArchivo, ToSet, Libre, Consume
<1>4. Metadatos
  BY <1>2, <1>3 DEF Metadatos
<1>5. ASSUME NEW f \in Archivos PROVE Lleva(f) /\ EnDisco(f)
  <2>1. metadata[f].blocks = <<>> /\ metadata[f].size = 0 /\ op[f] = Libre
    BY <1>2, <1>3
  <2>2. op[f].pc \notin Consume /\ op[f].pc \notin {"toma", "llena"}
    BY <1>3, <2>1
  <2>3. Lleva(f)
    BY <2>1, <2>2 DEF Lleva, LlevaEn, Llenados
  <2> QED BY <1>3, <2>1, <2>3 DEF EnDisco
<1>6. ASSUME NEW f \in Recursos PROVE Firmado(f)
  <2>1. metadata[f].blocks = <<>> /\ metadata[f].size = 0
    BY <1>2, <1>3
  <2>2. (0 + BLOCK_SIZE - 1) \div BLOCK_SIZE = 0
    <3>1. PICK B \in Nat \ {0} : B = BLOCK_SIZE
      BY BloquesOK
    <3>2. PICK a \in Nat : a = 0 + B - 1 /\ a < B
      OBVIOUS
    <3>3. a \div B = 0
      BY <3>2
    <3> QED BY <3>1, <3>2, <3>3
  <2> DEFINE u == [i \in 1..0 |-> SubSeq(contenido[<<>>[i]], 1, Tramo(f, i))]
  <2>3. Texto(f) = FlattenSeq(u)
    BY <1>3, <2>1, <2>2 DEF Texto
  <2>4. u = <<>>
    <3>1. DOMAIN u = {} /\ u = [i \in {} |-> SubSeq(contenido[<<>>[i]], 1, Tramo(f, i))]
      OBVIOUS
    <3>2. u \in [1..0 -> {}]
      OBVIOUS
    <3> HIDE DEF u
    <3>3. u \in Seq({})
      BY <3>2, IsASeq
    <3>4. Len(u) \in Nat /\ DOMAIN u = 1..Len(u)
      BY <3>3, LenProperties
    <3>5. Len(u) = 0
      BY <3>1, <3>4
    <3> QED BY <3>3, <3>5, EmptySeq
  <2>5. FlattenSeq(<<>>) = <<>>
    BY <1>3 DEF FlattenSeq
  <2> QED BY <1>2, <2>3, <2>4, <2>5 DEF Firmado, SinHash
<1> QED BY <1>4, <1>5, <1>6 DEF DatosDeTodos, Datos

\* And so it holds always.
LEMMA IndDatosSiempre == ConsumoCorto => (RSpec => []IndDatos)
<1>1. SUFFICES ASSUME ConsumoCorto PROVE RSpec => []IndDatos
  OBVIOUS
<1>2. IndDatos /\ [RNext]_rvars => IndDatos'
  BY <1>1, IndDatosPaso
<1> QED BY <1>2, IndDatosInicial, PTL DEF RSpec

\* ContenidoPropio: until somebody edits the files, between requests a file holds SIZE characters
\* of its own, all its blocks full but the last, whatever is written, consumed and discarded on
\* the others at the same time, and after a restart when it had been copied to the disk; unless
\* quitar_de_archivo, which empties the last block of a file after freeing it, emptied it.
THEOREM ContenidoDeCadaUno ==
  ConsumoCorto => (RSpec => [](fsck = "sano" => ContenidoPropio))
<1>1. ASSUME IndDatos, fsck = "sano" PROVE ContenidoPropio
  <2>1. SUFFICES ASSUME NEW f \in Archivos \ Descartados, op[f] = Libre PROVE ContenidoDe(f)
    BY DEF ContenidoPropio
  <2>2. Sano /\ Lleva(f)
    BY <1>1 DEF IndDatos, Inductiva, Atencion, DatosDeTodos, Datos
  <2>3. op[f].pc \notin Consume
    BY <2>1 DEF Libre, Consume
  <2>4. Llenados(f, metadata[f].blocks, metadata[f].size, contenido)
    BY <2>2, <2>3 DEF Lleva, LlevaEn
  <2>5. metadata[f].blocks \in Seq(Bloques) /\ metadata[f].size \in Nat
    BY <2>2, Formas DEF Sano
  <2> QED BY <2>4, <2>5, LlenadosEsContenido DEF ContenidoDe
<1>2. IndDatos => (fsck = "sano" => ContenidoPropio)
  BY <1>1
<1> QED BY <1>2, IndDatosSiempre, PTL

\* MetadataCoherente: until then the superblock counts the disk, BLOCK_COUNT the list, and MD5 is of
\* what the blocks hold, the memory of the blocks being the one of before the restart or the
\* one that was read from the disk: the first fsck has nothing to repair.
THEOREM MetadataAlDia ==
  ConsumoCorto => (RSpec => [](fsck = "sano" => MetadataCoherente))
<1>1. ASSUME IndDatos, fsck = "sano" PROVE MetadataCoherente
  <2>1. Sano /\ Metadatos /\ DatosDeTodos
    BY <1>1 DEF IndDatos, Inductiva, Atencion
  <2>2. ASSUME NEW f \in Recursos \ Descartados, op[f] = Libre, metadata[f].blocks # <<>>
        PROVE  HashCoincide(f)
    <3>1. f \in Archivos /\ op[f].pc \notin Consume
      BY <2>2 DEF Archivos, Libre, Consume
    <3>2. Lleva(f) /\ md5[f] = Texto(f)
      BY <2>1, <2>2, <3>1 DEF DatosDeTodos, Datos, Firmado
    <3> QED BY <2>1, <2>2, <3>1, <3>2, TextoDeLoQueHay DEF HashCoincide
  <2> QED BY <2>1, <2>2 DEF MetadataCoherente, Metadatos
<1>2. IndDatos => (fsck = "sano" => MetadataCoherente)
  BY <1>1
<1> QED BY <1>2, IndDatosSiempre, PTL

-----------------------------------------------------------------------------
(* Archivos implements Deposito.                                             *)

\* The characters of the request on a file that are not in it yet, and those it consumes.
Pendiente(f) == Durante(f, {"toma", "llena"}, op[f].resta)
Consumo(f) == Durante(f, {"escribe_copia", "libera"}, op[f].resta + op[f].vaciados)

\* What is left of z characters when n are consumed.
Descontado(z, n, y) == \E q \in {n, n + 1} : y = IF q > z THEN 0 ELSE z - q

\* What one step of Deposito does to a file of z characters, with p to be written and c to be
\* consumed.
Cuenta(z, p, c, y, q, d) ==
  \/ y = z /\ q = p /\ d = c
  \/ p = 0 /\ c = 0 /\ d = 0 /\ \E n \in Escribibles : \E k \in 0..n : y = z + k /\ q = n - k
  \/ d = c /\ \E k \in 1..p : y = z + k /\ q = p - k
  \/ /\ p = 0 /\ c = 0 /\ q = 0
     /\ \E n \in Consumibles : (d = 0 /\ Descontado(z, n, y)) \/ (d = n /\ y = z)
  \/ c > 0 /\ Descontado(z, c, y) /\ q = p /\ d = 0
  \/ p = 0 /\ c = 0 /\ q = 0 /\ d = 0 /\ y = 0

CuentaDe(f) ==
  Cuenta(metadata[f].size, Pendiente(f), Consumo(f), metadata'[f].size, Pendiente(f)', Consumo(f)')

\* Places with something to write, and something to consume.
LEMMA Puesto ==
  ASSUME NEW f
  PROVE  /\ op[f].pc = "libre" => Pendiente(f) = 0 /\ Consumo(f) = 0
         /\ op[f].pc \in {"toma", "llena"} => Pendiente(f) = op[f].resta /\ Consumo(f) = 0
         /\ op[f].pc \in Consume => Pendiente(f) = 0 /\ Consumo(f) = op[f].resta + op[f].vaciados
         /\ op'[f].pc = "libre" => Pendiente(f)' = 0 /\ Consumo(f)' = 0
         /\ op'[f].pc \in {"toma", "llena"} => Pendiente(f)' = op'[f].resta /\ Consumo(f)' = 0
         /\ op'[f].pc \in Consume =>
              Pendiente(f)' = 0 /\ Consumo(f)' = op'[f].resta + op'[f].vaciados
BY DEF Pendiente, Consumo, Durante, Consume

\* To write adds to the file what falls in its last block, and leaves the rest.
LEMMA EscrituraCuenta ==
  ASSUME Sano, NEW f \in Archivos, NEW n \in Escribibles, EmpezarEscritura(f, n)
  PROVE  CuentaDe(f)
<1> DEFINE k == Menor(n, Hueco(f))
           r == IF n = k THEN Libre ELSE [Libre EXCEPT !.pc = "toma", !.resta = n - k]
<1>1. n \in Nat \ {0} /\ Tipos /\ metadata[f].size \in Nat /\ op[f] = Libre
  BY ConstantesOK, Formas DEF Sano, EmpezarEscritura, Atender
<1>2. Hueco(f) \in Nat
  BY <1>1, UltimoOK, BloquesOK DEF Hueco
<1>3. k \in Nat /\ k \in 0..n
  BY <1>1, <1>2 DEF Menor
<1>4. op'[f] = r /\ metadata'[f].size = metadata[f].size + k
  BY <1>1 DEF Tipos, EmpezarEscritura
<1>5. op[f].pc = "libre" /\ (n = k => op'[f].pc = "libre")
      /\ (n # k => op'[f].pc = "toma" /\ op'[f].resta = n - k)
  BY <1>1, <1>4 DEF Libre
<1>6. /\ Pendiente(f) = 0 /\ Consumo(f) = 0 /\ Consumo(f)' = 0 /\ Pendiente(f)' = n - k
  <2> HIDE DEF k, r
  <2> QED BY <1>1, <1>3, <1>5, Puesto
<1> QED
  <2> HIDE DEF k, r
  <2> QED BY <1>3, <1>4, <1>6 DEF CuentaDe, Cuenta

\* The block that was taken is filled.
LEMMA LlenarCuenta ==
  ASSUME Sano, NEW f \in Archivos, LlenarBloque(f)
  PROVE  CuentaDe(f)
<1> DEFINE k == Menor(op[f].resta, BLOCK_SIZE)
           r == IF op[f].resta = k THEN Libre
                ELSE [Libre EXCEPT !.pc = "toma", !.resta = op[f].resta - k]
<1>1. /\ Tipos /\ metadata[f].size \in Nat /\ op[f].pc = "llena" /\ op[f].resta \in Nat \ {0}
  BY Formas DEF Sano, LlenarBloque, EnOp, Marcha
<1>2. k \in 1..op[f].resta
  BY <1>1, BloquesOK DEF Menor
<1>3. op'[f] = r /\ metadata'[f].size = metadata[f].size + k
  BY <1>1 DEF Tipos, LlenarBloque
<1>4. (op[f].resta = k => op'[f].pc = "libre")
      /\ (op[f].resta # k => op'[f].pc = "toma" /\ op'[f].resta = op[f].resta - k)
  BY <1>3 DEF Libre
<1>5. /\ Pendiente(f) = op[f].resta /\ Consumo(f) = 0 /\ Consumo(f)' = 0
      /\ Pendiente(f)' = op[f].resta - k
  <2> HIDE DEF k, r
  <2> QED BY <1>1, <1>2, <1>4, Puesto
<1> QED
  <2> HIDE DEF k, r
  <2> QED BY <1>2, <1>3, <1>5 DEF CuentaDe, Cuenta

\* A step that changes neither the size nor what is left of the request.
LEMMA QuietoCuenta ==
  ASSUME NEW f, metadata'[f].size = metadata[f].size, op'[f].resta + op'[f].vaciados = op[f].resta + op[f].vaciados,
         \/ op'[f] = op[f]
         \/ op[f].pc \in Consume /\ op'[f].pc \in Consume
         \/ op[f].pc = "toma" /\ op'[f].pc = "llena" /\ op'[f].resta = op[f].resta
  PROVE  CuentaDe(f)
<1>1. Pendiente(f)' = Pendiente(f) /\ Consumo(f)' = Consumo(f)
  <2>1. CASE op'[f] = op[f]
    BY <2>1 DEF Pendiente, Consumo, Durante
  <2>2. CASE op[f].pc \in Consume /\ op'[f].pc \in Consume
    BY <2>2, Puesto
  <2>3. CASE op[f].pc = "toma" /\ op'[f].pc = "llena" /\ op'[f].resta = op[f].resta
    BY <2>3, Puesto
  <2> QED BY <2>1, <2>2, <2>3
<1> QED BY <1>1 DEF CuentaDe, Cuenta

\* A block is taken; the one emptied is written, and another is freed.
LEMMA SinCuenta ==
  ASSUME Sano, NEW f \in Archivos, TomarBloque(f) \/ EscribirCopia(f) \/ LiberarOtro(f)
  PROVE  CuentaDe(f)
<1>1. Tipos /\ op[f] \in Pedidas /\ metadata' = metadata /\ BLOCK_SIZE \in Nat
  BY BloquesOK DEF Sano, Tipos, TomarBloque, EscribirCopia, LiberarOtro
<1>2. CASE TomarBloque(f)
  <2>1. op'[f] = op[f] \/ \E b : op[f].pc = "toma" /\ op'[f] = [op[f] EXCEPT !.pc = "llena", !.bloque = b]
    BY <1>1, <1>2 DEF TomarBloque, EnOp, Tipos
  <2> QED BY <1>1, <2>1, QuietoCuenta DEF Pedidas
<1>3. CASE EscribirCopia(f)
  <2>1. \/ op'[f] = op[f]
        \/ \E b : op[f].pc = "escribe_copia" /\ op'[f] = [op[f] EXCEPT !.pc = "libera", !.bloque = b]
    BY <1>1, <1>3 DEF EscribirCopia, EnOp, Tipos
  <2> QED BY <1>1, <2>1, QuietoCuenta DEF Pedidas, Consume
<1>4. CASE LiberarOtro(f)
  <2>1. \/ op'[f] = op[f]
        \/ /\ op[f].pc = "libera" /\ op'[f].pc = "libera"
           /\ op'[f].resta = op[f].resta - BLOCK_SIZE
           /\ op'[f].vaciados = op[f].vaciados + BLOCK_SIZE
    BY <1>1, <1>4 DEF LiberarOtro, EnOp, Tipos, Pedidas
  <2>2. op[f].resta \in Int /\ op[f].vaciados \in Int
    BY <1>1 DEF Pedidas
  <2>3. op'[f].resta + op'[f].vaciados = op[f].resta + op[f].vaciados
    BY <1>1, <2>1, <2>2
  <2> QED BY <1>1, <2>1, <2>3, QuietoCuenta DEF Consume
<1> QED BY <1>2, <1>3, <1>4

\* What is consumed at once, and when it takes a while the request that is made.
LEMMA ConsumirCuenta ==
  ASSUME Sano, NEW f \in Archivos, Lleva(f), NEW n \in Consumibles, Consumir(f, n)
  PROVE  CuentaDe(f)
<1>1. /\ n \in Nat \ {0} /\ Tipos /\ metadata[f].size \in Nat /\ op[f] = Libre
      /\ metadata[f].blocks \in Seq(Bloques) /\ metadata[f].blocks # <<>>
  BY ConstantesOK, Formas DEF Sano, Consumir, QuitarTodo, QuitarDelUltimo, LiberarUltimo, Atender,
       HayQueQuitar
<1>2. op[f].pc = "libre" /\ op[f].pc \notin Consume /\ Pendiente(f) = 0 /\ Consumo(f) = 0
  BY <1>1, Puesto DEF Libre, Consume
<1>3. CASE QuitarTodo(f, n)
  <2>1. metadata'[f].size = 0 /\ op' = op
    BY <1>3, QuitarTodoLleva
  <2>2. Pendiente(f)' = 0 /\ Consumo(f)' = 0
    BY <1>2, <2>1, Puesto
  <2> QED BY <1>2, <2>1, <2>2 DEF CuentaDe, Cuenta
<1>4. CASE QuitarDelUltimo(f, n)
  <2>1. metadata'[f].size = metadata[f].size - n /\ op' = op
    BY <1>4, QuitarDelUltimoLleva DEF QuitarDelUltimo
  <2>2. Pendiente(f)' = 0 /\ Consumo(f)' = 0
    BY <1>2, <2>1, Puesto
  <2>3. n <= metadata[f].size
    <3>1. PICK v \in 1..BLOCK_SIZE :
            metadata[f].size = (Len(metadata[f].blocks) - 1) * BLOCK_SIZE + v /\ LlenoUltimo(f) = v
      BY <1>1, <1>2, ConBloques
    <3>2. n < v
      BY <1>1, <1>4, <3>1, BloquesOK DEF QuitarDelUltimo, UltimaPosicionEscrita
    <3>3. (Len(metadata[f].blocks) - 1) * BLOCK_SIZE \in Nat
      <4>1. Len(metadata[f].blocks) \in Nat \ {0}
        BY <1>1, UltimoOK
      <4> QED BY <4>1, Multiplos
    <3> QED BY <1>1, <3>1, <3>2, <3>3, BloquesOK
  <2>4. Descontado(metadata[f].size, n, metadata'[f].size)
    BY <1>1, <2>1, <2>3 DEF Descontado
  <2> QED BY <1>2, <2>2, <2>4 DEF CuentaDe, Cuenta
<1>5. CASE LiberarUltimo(f, n)
  <2>1. LlenoUltimo(f) \in Nat
    BY <1>1, UltimoOK
  <2>2. /\ op'[f].pc = "escribe_copia" /\ op'[f].resta + op'[f].vaciados = n /\ metadata' = metadata
    BY <1>1, <1>5, <2>1 DEF LiberarUltimo, Tipos
  <2>3. Pendiente(f)' = 0 /\ Consumo(f)' = n
    BY <2>2, Puesto DEF Consume
  <2> QED BY <1>2, <2>2, <2>3 DEF CuentaDe, Cuenta
<1> QED BY <1>3, <1>4, <1>5 DEF Consumir

\* What a consumption takes when it ends: what was asked for, or one more.
LEMMA TerminarCuenta ==
  ASSUME Sano, NEW f \in Archivos, Lleva(f), TerminarConsumo(f)
  PROVE  CuentaDe(f)
<1>1. /\ op[f].pc = "libera" /\ op[f].pc \in Consume /\ op'[f] = Libre
      /\ metadata'[f].size = metadata[f].size - op[f].vaciados
                             - (IF op[f].resta > 0 THEN op[f].resta ELSE 0)
  BY TerminarLleva DEF TerminarConsumo, EnOp, Consume
<1>2. AMedias(f, metadata[f].blocks, metadata[f].size, contenido, op[f])
      /\ metadata[f].size \in Nat /\ op[f].quedan \in Nat /\ op[f].resta \in Int /\ op[f].vaciados \in Int
  BY <1>1, Consumiendo
<1>3. PICK m \in Nat : m = op[f].quedan * BLOCK_SIZE
  <2>1. PICK B \in Nat : B = BLOCK_SIZE
    BY BloquesOK
  <2> QED BY <1>2, <2>1
<1>4. /\ metadata[f].size = m + op[f].vaciados /\ op[f].resta \in -1..m
      /\ op[f].resta + op[f].vaciados > 0
  BY <1>2, <1>3 DEF AMedias
<1>5. op'[f].pc = "libre"
  BY <1>1 DEF Libre
<1>6. /\ Pendiente(f) = 0 /\ Consumo(f) = op[f].resta + op[f].vaciados
      /\ Pendiente(f)' = 0 /\ Consumo(f)' = 0
  BY <1>1, <1>5, Puesto
<1>7. Descontado(metadata[f].size, op[f].resta + op[f].vaciados, metadata'[f].size)
  <2>1. CASE op[f].resta >= 0
    BY <1>1, <1>2, <1>4, <2>1 DEF Descontado
  <2>2. CASE op[f].resta = -1
    BY <1>1, <1>2, <1>4, <2>2 DEF Descontado
  <2> QED BY <1>4, <2>1, <2>2
<1> QED BY <1>4, <1>6, <1>7 DEF CuentaDe, Cuenta

\* DESCARTAR leaves none.
LEMMA BorrarCuenta ==
  ASSUME Sano, NEW f \in Archivos, BorrarArchivo(f)
  PROVE  CuentaDe(f)
<1>1. metadata'[f].size = 0 /\ op' = op
  BY BorrarLleva
<1>2. op[f].pc = "libre"
  BY DEF BorrarArchivo, Atender, Libre
<1> QED BY <1>1, <1>2, Puesto DEF CuentaDe, Cuenta

Escribe == {"toma", "llena"}
PorEscribir(f) == EnCurso(f, Escribe, op[f].resta)
PorConsumir(f) == EnCurso(f, Consume, op[f].resta + op[f].vaciados)

\* What Deposito sees of a file.
Visto(f) == <<SizeVisto(f), PorEscribir(f), PorConsumir(f)>>

\* A step of which Deposito sees nothing.
LEMMA QuietoDeposito ==
  ASSUME \A f \in Archivos : Visto(f)' = Visto(f)
  PROVE  UNCHANGED Atendidos!dvars
<1>1. \A f \in Archivos : /\ SizeVisto(f)' = SizeVisto(f) /\ PorEscribir(f)' = PorEscribir(f)
                          /\ PorConsumir(f)' = PorConsumir(f)
  BY DEF Visto
<1> QED BY <1>1 DEF Atendidos!dvars, PorEscribir, PorConsumir, Escribe, Consume

\* A step of the request on one file is a step of Deposito.
LEMMA PasoDeposito ==
  ASSUME NEW f \in Archivos, \A g \in Archivos \ {f} : Visto(g)' = Visto(g),
         Cuenta(SizeVisto(f), PorEscribir(f), PorConsumir(f),
                SizeVisto(f)', PorEscribir(f)', PorConsumir(f)')
  PROVE  [Atendidos!DNext]_(Atendidos!dvars)
<1> DEFINE Z == [g \in Archivos |-> SizeVisto(g)]
           P == [g \in Archivos |-> EnCurso(g, {"toma", "llena"}, op[g].resta)]
           C == [g \in Archivos |-> EnCurso(g, {"escribe_copia", "libera"}, op[g].resta + op[g].vaciados)]
           Y == [g \in Archivos |-> SizeVisto(g)']
           Q == [g \in Archivos |-> EnCurso(g, {"toma", "llena"}, op[g].resta)']
           D == [g \in Archivos |-> EnCurso(g, {"escribe_copia", "libera"}, op[g].resta + op[g].vaciados)']
<1>1. /\ Z[f] = SizeVisto(f) /\ P[f] = PorEscribir(f) /\ C[f] = PorConsumir(f)
      /\ Y[f] = SizeVisto(f)' /\ Q[f] = PorEscribir(f)' /\ D[f] = PorConsumir(f)'
  BY DEF PorEscribir, PorConsumir, Escribe, Consume
<1>2. \A g \in Archivos \ {f} : Y[g] = Z[g] /\ Q[g] = P[g] /\ D[g] = C[g]
  BY DEF Visto, PorEscribir, PorConsumir, Escribe, Consume
<1>3. /\ Y = [Z EXCEPT ![f] = Y[f]] /\ Q = [P EXCEPT ![f] = Q[f]] /\ D = [C EXCEPT ![f] = D[f]]
  BY <1>2
<1>4. /\ Q[f] = P[f] => Q = P
      /\ D[f] = C[f] => D = C
      /\ Y[f] = Z[f] => Y = Z
  BY <1>2
<1>5. CASE SizeVisto(f)' = SizeVisto(f) /\ PorEscribir(f)' = PorEscribir(f) /\ PorConsumir(f)' = PorConsumir(f)
  <2>1. \A g \in Archivos : Visto(g)' = Visto(g)
    BY <1>5 DEF Visto
  <2> QED BY <2>1, QuietoDeposito
<1>6. ASSUME NEW n \in Escribibles, NEW k \in 0..n, P[f] = 0, C[f] = 0, D[f] = 0,
             Y[f] = Z[f] + k, Q[f] = n - k
      PROVE  Atendidos!DNext
  <2>1. /\ P[f] = 0 /\ C[f] = 0 /\ k <= n
        /\ Y = [Z EXCEPT ![f] = Z[f] + k] /\ Q = [P EXCEPT ![f] = n - k] /\ D = C
    <3> HIDE DEF Z, P, C, Y, Q, D
    <3> QED BY <1>3, <1>4, <1>6, ConstantesOK
  <2>2. Atendidos!Escribir(f, n, k)
    BY <2>1 DEF Atendidos!Escribir, Atendidos!Ocioso
  <2> QED BY <2>2 DEF Atendidos!DNext
<1>7. ASSUME NEW k \in 1..P[f], D[f] = C[f], Y[f] = Z[f] + k, Q[f] = P[f] - k
      PROVE  Atendidos!DNext
  <2>1. Atendidos!SeguirEscribiendo(f, k)
    BY <1>3, <1>4, <1>7 DEF Atendidos!SeguirEscribiendo
  <2> QED BY <1>7, <2>1 DEF Atendidos!DNext
<1>8. ASSUME NEW n \in Consumibles, P[f] = 0, C[f] = 0, Q[f] = 0, D[f] = 0, Descontado(Z[f], n, Y[f])
      PROVE  Atendidos!DNext
  <2>1. PICK q \in {n, n + 1} : Y[f] = IF q > Z[f] THEN 0 ELSE Z[f] - q
    BY <1>8 DEF Descontado
  <2>2. /\ P[f] = 0 /\ C[f] = 0 /\ Y = [Z EXCEPT ![f] = IF q > Z[f] THEN 0 ELSE Z[f] - q]
        /\ D = C /\ Q = P
    <3> HIDE DEF Z, P, C, Y, Q, D
    <3> QED BY <1>3, <1>4, <1>8, <2>1
  <2>3. Atendidos!Consumir(f, n)
    BY <2>2 DEF Atendidos!Consumir, Atendidos!Ocioso, Atendidos!Descontar
  <2> QED BY <2>3 DEF Atendidos!DNext
<1>9. ASSUME NEW n \in Consumibles, P[f] = 0, C[f] = 0, Q[f] = 0, D[f] = n, Y[f] = Z[f]
      PROVE  Atendidos!DNext
  <2>1. Atendidos!EmpezarConsumo(f, n)
    BY <1>3, <1>4, <1>9 DEF Atendidos!EmpezarConsumo, Atendidos!Ocioso
  <2> QED BY <2>1 DEF Atendidos!DNext
<1>10. ASSUME C[f] > 0, Descontado(Z[f], C[f], Y[f]), Q[f] = P[f], D[f] = 0
       PROVE  Atendidos!DNext
  <2>1. PICK q \in {C[f], C[f] + 1} : Y[f] = IF q > Z[f] THEN 0 ELSE Z[f] - q
    BY <1>10 DEF Descontado
  <2>2. /\ C[f] > 0 /\ Y = [Z EXCEPT ![f] = IF q > Z[f] THEN 0 ELSE Z[f] - q]
        /\ D = [C EXCEPT ![f] = 0] /\ Q = P
    <3> HIDE DEF Z, P, C, Y, Q, D
    <3> QED BY <1>3, <1>4, <1>10, <2>1
  <2>3. Atendidos!TerminarConsumo(f)
    BY <2>2 DEF Atendidos!TerminarConsumo, Atendidos!Descontar
  <2> QED BY <2>3 DEF Atendidos!DNext
<1>11. ASSUME P[f] = 0, C[f] = 0, Q[f] = 0, D[f] = 0, Y[f] = 0
       PROVE  Atendidos!DNext
  <2>1. Atendidos!Descartar(f)
    BY <1>3, <1>4, <1>11 DEF Atendidos!Descartar, Atendidos!Ocioso
  <2> QED BY <2>1 DEF Atendidos!DNext
<1> HIDE DEF Z, P, C, Y, Q, D
<1> QED BY <1>1, <1>5, <1>6, <1>7, <1>8, <1>9, <1>10, <1>11 DEF Cuenta

\* Nobody consumes from a log.
SeAnota(f) == op[f].pc \notin Consume
IndDeposito == IndDatos /\ (fsck = "sano" => \A f \in Bitacoras : SeAnota(f))

\* What a request on a file does to it, when no block of it was emptied by somebody else.
LEMMA CuentaPaso ==
  ASSUME Sano, NEW f \in Archivos, f \in Recursos => Lleva(f), f \in Bitacoras => SeAnota(f),
         \/ \E n \in Escribibles : EmpezarEscritura(f, n)
         \/ TomarBloque(f) \/ LlenarBloque(f)
         \/ f \in Recursos /\ \E n \in Consumibles : Consumir(f, n)
         \/ EscribirCopia(f) \/ LiberarOtro(f) \/ TerminarConsumo(f)
         \/ f \in Recursos /\ BorrarArchivo(f)
  PROVE  CuentaDe(f)
<1>1. TerminarConsumo(f) => f \in Recursos
  BY DEF Archivos, TerminarConsumo, EnOp, SeAnota, Consume
<1> QED BY <1>1, EscrituraCuenta, SinCuenta, LlenarCuenta, ConsumirCuenta, TerminarCuenta, BorrarCuenta

\* While nobody edits the files, a request on one of them is a step of Deposito.
LEMMA PedidoDeposito ==
  ASSUME Sano, DatosDeTodos, \A f \in Bitacoras : SeAnota(f), pisados \subseteq Bitacoras,
         fsck = "sano", fsck' = "sano", Next, perdidos' = perdidos, previo' = previo
  PROVE  [Atendidos!DNext]_(Atendidos!dvars)
<1>1. PICK f \in Archivos :
        \/ \E n \in Escribibles : EmpezarEscritura(f, n)
        \/ TomarBloque(f) \/ LlenarBloque(f)
        \/ f \in Recursos /\ \E n \in Consumibles : Consumir(f, n)
        \/ EscribirCopia(f) \/ LiberarOtro(f) \/ TerminarConsumo(f)
        \/ f \in Recursos /\ BorrarArchivo(f)
  BY DEF Next
<1>2. Paso(f)
  BY <1>1 DEF Paso
<1>3. \A g \in Archivos \ {f} : op'[g] = op[g] /\ metadata'[g] = metadata[g]
  BY <1>2, AjenoIntacto
<1>4. /\ \A g \in Archivos : Danado = FALSE /\ Danado' = FALSE /\ (Seguido(g)' <=> Seguido(g))
      /\ \A g \in Archivos : previo'[g] = previo[g]
  BY DEF Danado, Seguido
<1>5. \A g \in Archivos \ {f} : Visto(g)' = Visto(g)
  BY <1>3, <1>4 DEF Visto, SizeVisto, PorEscribir, PorConsumir, EnCurso, Durante
<1>6. CASE Seguido(f)
  <2>1. f \in Recursos => Lleva(f)
    <3>1. f \in Recursos => f \notin Descartados
      BY <1>6, ConstantesOK DEF Seguido, Descartados
    <3> QED BY <3>1 DEF DatosDeTodos, Datos
  <2>2. CuentaDe(f)
    BY <1>1, <2>1, CuentaPaso
  <2>3. /\ SizeVisto(f) = metadata[f].size /\ SizeVisto(f)' = metadata'[f].size
        /\ PorEscribir(f) = Pendiente(f) /\ PorEscribir(f)' = Pendiente(f)'
        /\ PorConsumir(f) = Consumo(f) /\ PorConsumir(f)' = Consumo(f)'
    BY <1>4, <1>6 DEF SizeVisto, PorEscribir, PorConsumir, EnCurso, Pendiente, Consumo, Durante,
         Escribe, Consume
  <2>4. Cuenta(SizeVisto(f), PorEscribir(f), PorConsumir(f),
               SizeVisto(f)', PorEscribir(f)', PorConsumir(f)')
    BY <2>2, <2>3 DEF CuentaDe
  <2> QED BY <1>5, <2>4, PasoDeposito
<1>7. CASE ~Seguido(f)
  <2>1. Visto(f)' = Visto(f)
    BY <1>4, <1>7 DEF Visto, SizeVisto, PorEscribir, PorConsumir, EnCurso
  <2>2. \A g \in Archivos : Visto(g)' = Visto(g)
    BY <1>5, <2>1
  <2> QED BY <2>2, QuietoDeposito
<1> QED BY <1>6, <1>7

\* A restart is not seen: what was lost is no longer followed.
LEMMA ReinicioDeposito ==
  ASSUME Reiniciar, fsck' = "sano"
  PROVE  UNCHANGED Atendidos!dvars
<1>1. ASSUME NEW f \in Archivos PROVE Visto(f)' = Visto(f)
  <2>1. /\ metadata' = metadata /\ op' = op /\ perdidos \subseteq perdidos' /\ fsck = "sano"
        /\ op[f] = Libre
        /\ previo'[f] = IF f \in perdidos THEN previo[f] ELSE metadata[f]
    BY DEF Reiniciar, Reposo
  <2>2. ~Danado /\ ~Danado'
    BY <2>1 DEF Danado
  <2>3. SizeVisto(f)' = SizeVisto(f)
    BY <2>1, <2>2 DEF SizeVisto, Seguido
  <2>4. op[f].pc \notin Escribe /\ op[f].pc \notin Consume
    BY <2>1 DEF Libre, Escribe, Consume
  <2>5. PorEscribir(f) = 0 /\ PorConsumir(f) = 0 /\ PorEscribir(f)' = 0 /\ PorConsumir(f)' = 0
    BY <2>1, <2>4 DEF PorEscribir, PorConsumir, EnCurso, Durante
  <2> QED BY <2>3, <2>5 DEF Visto
<1> QED BY <1>1, QuietoDeposito

\* Each step, while nobody edits the files, is one of Deposito or changes nothing of it.
LEMMA DepositoPaso ==
  ASSUME IndDeposito, [RNext]_rvars, fsck = "sano", fsck' = "sano", pisados \subseteq Bitacoras
  PROVE  [Atendidos!DNext]_(Atendidos!dvars)
<1>1. Sano /\ ~estoy_saboteado /\ DatosDeTodos /\ \A f \in Bitacoras : SeAnota(f)
  BY DEF IndDeposito, IndDatos, Inductiva, Atencion
<1>2. CASE Servir
  <2>1. Next /\ UNCHANGED sabotaje /\ perdidos' = perdidos
    BY <1>1, <1>2 DEF Servir, FNext, Sabotear, RealizarFsck, SabotajeResuelto, EmpezarAnotacion
  <2>2. previo' = previo
    BY <2>1 DEF sabotaje
  <2> QED BY <1>1, <2>1, <2>2, PedidoDeposito
<1>3. CASE Sincronizar \/ UNCHANGED rvars
  <2>1. UNCHANGED <<op, metadata, previo, perdidos, fsck>>
    BY <1>3 DEF Sincronizar, rvars, fvars, vars
  <2>2. \A f \in Archivos : Visto(f)' = Visto(f)
    BY <2>1 DEF Visto, SizeVisto, PorEscribir, PorConsumir, EnCurso, Durante, Seguido, Danado
  <2> QED BY <2>2, QuietoDeposito
<1>4. CASE Reiniciar
  BY <1>4, ReinicioDeposito
<1> QED BY <1>2, <1>3, <1>4 DEF RNext

\* Only a request on a resource consumes.
LEMMA AnotaPaso ==
  ASSUME Sano, \A f \in Bitacoras : SeAnota(f), Next
  PROVE  \A f \in Bitacoras : SeAnota(f)'
<1>1. ASSUME NEW b \in Bitacoras PROVE SeAnota(b)'
  <2>1. b \in Archivos /\ b \notin Recursos /\ SeAnota(b) /\ b \in DOMAIN op
    BY ConstantesOK DEF Archivos, Sano, Tipos
  <2>2. PICK f \in Archivos :
        \/ \E n \in Escribibles : EmpezarEscritura(f, n)
        \/ TomarBloque(f) \/ LlenarBloque(f)
        \/ f \in Recursos /\ \E n \in Consumibles : Consumir(f, n)
        \/ EscribirCopia(f) \/ LiberarOtro(f) \/ TerminarConsumo(f)
        \/ f \in Recursos /\ BorrarArchivo(f)
    BY DEF Next
  <2>3. CASE b # f
    <3>1. op'[b] = op[b]
      BY <2>1, <2>2, <2>3, AjenoIntacto DEF Paso
    <3> QED BY <2>1, <3>1 DEF SeAnota
  <2>4. CASE b = f
    <3>1. CASE \E n \in Escribibles : EmpezarEscritura(b, n)
      <4>1. PICK n \in Escribibles : EmpezarEscritura(b, n)
        BY <3>1
      <4>2. op'[b].pc \in {"libre", "toma"}
        BY <2>1, <4>1 DEF EmpezarEscritura, Libre
      <4> QED BY <4>2 DEF SeAnota, Consume
    <3>2. CASE TomarBloque(b)
      <4>1. op[b] \in Pedidas
        BY <2>1 DEF Sano, Tipos
      <4>2. op'[b] = op[b] \/ op'[b].pc = "llena"
        BY <2>1, <3>2, <4>1 DEF TomarBloque, Pedidas
      <4> QED BY <2>1, <4>2 DEF SeAnota, Consume
    <3>3. CASE LlenarBloque(b)
      <4>1. op'[b].pc \in {"libre", "toma"}
        BY <2>1, <3>3 DEF LlenarBloque, Libre
      <4> QED BY <4>1 DEF SeAnota, Consume
    <3>4. ~EscribirCopia(b) /\ ~LiberarOtro(b) /\ ~TerminarConsumo(b)
      BY <2>1 DEF EscribirCopia, LiberarOtro, TerminarConsumo, EnOp, SeAnota, Consume
    <3> QED BY <2>1, <2>2, <2>4, <3>1, <3>2, <3>3, <3>4
  <2> QED BY <2>3, <2>4
<1> QED BY <1>1

LEMMA IndDepositoPaso ==
  ASSUME IndDeposito, ConsumoCorto, [RNext]_rvars
  PROVE  IndDeposito'
<1>1. IndDatos'
  BY IndDatosPaso DEF IndDeposito
<1>2. ASSUME fsck' = "sano" PROVE \A f \in Bitacoras : SeAnota(f)'
  <2>1. fsck = "sano"
    BY <1>2 DEF RNext, Servir, FNext, Sincronizar, Reiniciar, sabotaje, Sabotear, RealizarFsck,
         SabotajeResuelto, EmpezarAnotacion, SeguirAnotacion, TomarBloqueSaboteado, rvars, fvars,
         RevisarBlockCount, RevisarBlocks, RevisarSuperbloque, RevisarSize, RevisarBitmap, Repasado
  <2>2. Sano /\ ~estoy_saboteado /\ \A f \in Bitacoras : SeAnota(f)
    BY <2>1 DEF IndDeposito, IndDatos, Inductiva, Atencion
  <2>3. CASE Servir
    <3>1. Next
      BY <1>2, <2>1, <2>2, <2>3 DEF Servir, FNext, Sabotear, RealizarFsck, SabotajeResuelto, EmpezarAnotacion
    <3> QED BY <2>2, <3>1, AnotaPaso
  <2>4. CASE Sincronizar \/ Reiniciar \/ UNCHANGED rvars
    <3>1. op' = op
      BY <2>4 DEF Sincronizar, Reiniciar, rvars, fvars, vars
    <3> QED BY <2>2, <3>1 DEF SeAnota
  <2> QED BY <2>3, <2>4 DEF RNext
<1> QED BY <1>1, <1>2 DEF IndDeposito

LEMMA DepositoInicial == RInit => IndDeposito /\ Atendidos!DInit
<1> SUFFICES ASSUME RInit PROVE IndDeposito /\ Atendidos!DInit
  OBVIOUS
<1>1. IndDatos
  BY IndDatosInicial
<1>2. op = [f \in Archivos |-> Libre] /\ metadata = [f \in Archivos |-> SinArchivo]
      /\ previo = metadata
  BY DEF RInit, FInit, Init
<1>3. \A f \in Archivos : op[f].pc = "libre" /\ metadata[f].size = 0 /\ previo[f].size = 0
  BY <1>2 DEF Libre, SinArchivo
<1>4. IndDeposito
  BY <1>1, <1>3 DEF IndDeposito, SeAnota, Consume, Archivos
<1>5. \A f \in Archivos : SizeVisto(f) = 0 /\ PorEscribir(f) = 0 /\ PorConsumir(f) = 0
  BY <1>3 DEF SizeVisto, PorEscribir, PorConsumir, EnCurso, Durante, Escribe, Consume
<1>6. Atendidos!DInit
  BY <1>5 DEF Atendidos!DInit, PorEscribir, PorConsumir, Escribe, Consume
<1> QED BY <1>4, <1>6

\* ImplementaDeposito: while nobody edits the files and no block of a resource is emptied by the
\* request that had it before, SIZE grows by what is written and shrinks by what is consumed, or
\* one more, with any number of requests on other files in between, any copies and any restarts.
THEOREM ArchivosImplementa ==
  ConsumoCorto =>
    (RSpec /\ [](fsck = "sano" /\ pisados \subseteq Bitacoras) => ImplementaDeposito)
<1> SUFFICES ASSUME ConsumoCorto
             PROVE  RSpec /\ [](fsck = "sano" /\ pisados \subseteq Bitacoras) => ImplementaDeposito
  OBVIOUS
<1> DEFINE Entera == fsck = "sano" /\ pisados \subseteq Bitacoras
<1>1. RInit => IndDeposito /\ Atendidos!DInit
  BY DepositoInicial
<1>2. IndDeposito /\ [RNext]_rvars => IndDeposito'
  BY IndDepositoPaso
<1>3. IndDeposito /\ [RNext]_rvars /\ Entera /\ Entera' => [Atendidos!DNext]_(Atendidos!dvars)
  BY DepositoPaso
<1> HIDE DEF Entera
<1>4. RSpec /\ []Entera => ImplementaDeposito
  BY <1>1, <1>2, <1>3, PTL DEF RSpec, ImplementaDeposito, Atendidos!DSpec
<1> QED BY <1>4 DEF Entera

-----------------------------------------------------------------------------
\* What the fsck keeps has its types, and nothing was looked for yet.
FormaFsck ==
  /\ block_count \in [Recursos -> Nat] /\ DOMAIN md5 = Recursos
  /\ bloque_corrupto = SinBuscar

IndForma == IndDatos /\ (fsck = "sano" => FormaFsck)

LEMMA FormaPaso ==
  ASSUME IndForma, ConsumoCorto, [RNext]_rvars
  PROVE  IndForma'
<1>1. IndDatos'
  BY IndDatosPaso DEF IndForma
<1>2. ASSUME fsck' = "sano" PROVE FormaFsck'
  <2>1. fsck = "sano"
    BY <1>2 DEF RNext, Servir, FNext, Sincronizar, Reiniciar, sabotaje, Sabotear, RealizarFsck,
         SabotajeResuelto, EmpezarAnotacion, SeguirAnotacion, TomarBloqueSaboteado, rvars, fvars,
         RevisarBlockCount, RevisarBlocks, RevisarSuperbloque, RevisarSize, RevisarBitmap, Repasado
  <2>2. FormaFsck /\ ~estoy_saboteado
    BY <2>1 DEF IndForma, IndDatos, Inductiva, Atencion
  <2>3. CASE Servir
    <3>1. GuardarMetadata /\ UNCHANGED sabotaje
      BY <1>2, <2>1, <2>2, <2>3 DEF Servir, FNext, Sabotear, RealizarFsck, SabotajeResuelto, EmpezarAnotacion
    <3>2. bloque_corrupto' = SinBuscar /\ DOMAIN md5' = Recursos
      BY <2>2, <3>1 DEF sabotaje, GuardarMetadata, FormaFsck
    <3>3. \A f \in Recursos : Len(metadata'[f].blocks) \in Nat
      <4>1. Tipos'
        BY <1>1, <1>2 DEF IndDatos, Inductiva, Atencion, Sano
      <4>2. \A f \in Archivos : metadata'[f].blocks \in Seq(Bloques)
        BY <4>1 DEF Tipos
      <4> QED BY <4>2, LenProperties DEF Archivos
    <3>4. block_count' \in [Recursos -> Nat]
      BY <2>2, <3>1, <3>3 DEF GuardarMetadata, FormaFsck
    <3> QED BY <3>2, <3>4 DEF FormaFsck
  <2>4. CASE Sincronizar \/ Reiniciar \/ UNCHANGED rvars
    <3>1. UNCHANGED <<block_count, md5, bloque_corrupto>>
      BY <2>4 DEF Sincronizar, Reiniciar, rvars, fvars
    <3> QED BY <2>2, <3>1 DEF FormaFsck
  <2> QED BY <2>3, <2>4 DEF RNext
<1> QED BY <1>1, <1>2 DEF IndForma

\* FTypeOK until somebody edits the files: a file lists blocks of the disk, no block holds more
\* than fits, a size is never below zero and the superblock and BLOCK_COUNT are counts.
THEOREM ArchivosConTipo ==
  ConsumoCorto => (RSpec => [](fsck = "sano" => FTypeOK))
<1>1. ASSUME IndForma, fsck = "sano" PROVE FTypeOK
  <2>1. Sano /\ ~estoy_saboteado /\ estoy_saboteado = FALSE /\ Metadatos /\ FormaFsck
    BY <1>1 DEF IndForma, IndDatos, Inductiva, Atencion, Metadatos
  <2>2. Tipos
    BY <2>1 DEF Sano
  <2>3. \A f \in Archivos : /\ metadata[f].size \in Nat /\ metadata[f].existe \in BOOLEAN
                            /\ metadata[f].blocks \in Seq(Bloques) /\ op[f].quedan \in Nat
    BY <2>2, Formas
  <2>4. TypeOK
    BY <2>2, <2>3 DEF Tipos, TypeOK, Llenos
  <2> QED BY <1>1, <2>1, <2>4, BloquesOK DEF FTypeOK, Metadatos, FormaFsck
<1>2. IndForma => (fsck = "sano" => FTypeOK)
  BY <1>1
<1>3. RInit => IndForma
  <2>1. RInit => FormaFsck
    BY DEF RInit, FInit, FormaFsck
  <2> QED BY <2>1, IndDatosInicial DEF IndForma
<1> SUFFICES ASSUME ConsumoCorto PROVE RSpec => [](fsck = "sano" => FTypeOK)
  OBVIOUS
<1>4. IndForma /\ [RNext]_rvars => IndForma'
  BY FormaPaso
<1> QED BY <1>2, <1>3, <1>4, PTL DEF RSpec
====
