-------------------------- MODULE PaginacionProofs --------------------------
(***************************************************************************)
(* For any memory, patotas, algorithm and expulsions, when the requests     *)
(* that do not take mutex_no_reemplazar do not come in the middle of one    *)
(* that has it: a page in memory has a frame of its own that the queue      *)
(* finds.                                                                   *)
(***************************************************************************)
EXTENDS Paginacion, ListasProofs

\* The place of s that each place of the list without those of X has.
Elige(m, s, X) ==
  /\ m \in [1..Cardinality(DOMAIN s \ X) -> DOMAIN s \ X]
  /\ \A k \in DOMAIN m : Salvo(s, X)[k] = s[m[k]]
  /\ \A k, l \in DOMAIN m : m[k] = m[l] => k = l
  /\ \A k, l \in DOMAIN m : k < l => m[k] < m[l]
  /\ \A i \in DOMAIN s \ X : \E k \in DOMAIN m : m[k] = i

\* A list without some places keeps what is at the others, each once and in order.
LEMMA SalvoElige ==
  ASSUME NEW S, NEW s \in Seq(S), NEW X
  PROVE  /\ Salvo(s, X) \in Seq(S) /\ DOMAIN Salvo(s, X) = 1..Cardinality(DOMAIN s \ X)
         /\ \E m : Elige(m, s, X)
<1> DEFINE quedan == DOMAIN s \ X
           n == Cardinality(quedan)
           Menores(i) == {j \in quedan : j < i}
           m == [k \in 1..n |-> CHOOSE i \in quedan : Cardinality(Menores(i)) = k - 1]
           f == [i \in quedan |-> i]
           D == [i \in quedan |-> Menores(i)]
<1>1. /\ DOMAIN s = 1..Len(s) /\ Len(s) \in Nat /\ \A i \in 1..Len(s) : s[i] \in S
  BY LenProperties
<1>2. IsFiniteSet(quedan) /\ n \in Nat
  <2>1. IsFiniteSet(1..Len(s)) /\ quedan \subseteq 1..Len(s)
    BY <1>1, FS_Interval
  <2> QED BY ONLY <2>1, FS_Subset, FS_CardinalityType
<1>3. /\ \A i \in quedan : f[i] \in Int /\ D[i] = {j \in quedan : f[j] < f[i]}
      /\ \A i, j \in quedan : f[i] = f[j] => i = j
  BY <1>1
<1>4. /\ \A i \in quedan : Cardinality(D[i]) \in 0..n-1
      /\ \A i, j \in quedan : Cardinality(D[i]) = Cardinality(D[j]) => i = j
      /\ \A k \in 0..n-1 : \E i \in quedan : Cardinality(D[i]) = k
  <2> HIDE DEF quedan, f, D
  <2> QED BY <1>2, <1>3, OrdenPorLugar
<1>5. \A k \in 1..n : \E i \in quedan : Cardinality(Menores(i)) = k - 1
  <2>1. ASSUME NEW k \in 1..n PROVE \E i \in quedan : Cardinality(Menores(i)) = k - 1
    <3>1. k - 1 \in 0..n-1
      BY <1>2
    <3>2. PICK i \in quedan : Cardinality(D[i]) = k - 1
      BY <3>1, <1>4
    <3> QED BY <3>2
  <2> QED BY <2>1
<1>6. \A k \in 1..n : m[k] \in quedan /\ Cardinality(Menores(m[k])) = k - 1
  BY <1>5
<1>7. Salvo(s, X) = [k \in 1..n |-> s[m[k]]]
  BY DEF Salvo
<1> HIDE DEF m
<1>8. \A k, l \in 1..n : m[k] = m[l] => k = l
  <2> HIDE DEF Menores, quedan, n
  <2>1. ASSUME NEW k \in 1..n, NEW l \in 1..n, m[k] = m[l] PROVE k = l
    <3>1. Cardinality(Menores(m[k])) = k - 1 /\ Cardinality(Menores(m[l])) = l - 1
      BY <1>6
    <3> QED BY <2>1, <3>1, <1>2
  <2> QED BY <2>1
<1>9. \A i \in quedan : \E k \in 1..n : m[k] = i
  <2>1. ASSUME NEW i \in quedan PROVE \E k \in 1..n : m[k] = i
    <3>1. PICK c \in 0..n-1 : Cardinality(D[i]) = c
      BY <1>4
    <3>2. c + 1 \in 1..n /\ (c + 1) - 1 = c
      BY <1>2
    <3>3. m[c+1] \in quedan /\ Cardinality(Menores(m[c+1])) = c
      BY <3>2, <1>6
    <3>4. Cardinality(D[m[c+1]]) = Cardinality(D[i])
      BY <3>1, <3>3
    <3> QED BY ONLY <3>2, <3>3, <3>4, <1>4, <2>1
  <2> QED BY <2>1
<1>10. m \in [1..n -> quedan] /\ DOMAIN m = 1..n
  BY <1>6 DEF m
<1>11. \A k \in 1..n : s[m[k]] \in S
  BY <1>1, <1>6
<1>12. Salvo(s, X) \in Seq(S) /\ DOMAIN Salvo(s, X) = 1..n
  <2> DEFINE r == [k \in 1..n |-> s[m[k]]]
  <2>1. r \in [1..n -> S] /\ DOMAIN r = 1..n
    BY <1>11
  <2> HIDE DEF r, n
  <2>2. r \in Seq(S)
    BY <1>2, <2>1, SeqDef
  <2> QED BY <1>7, <2>1, <2>2 DEF r
<1>13. \A k, l \in 1..n : k < l => m[k] < m[l]
  <2>1. ASSUME NEW k \in 1..n, NEW l \in 1..n, k < l, ~(m[k] < m[l]) PROVE FALSE
    <3>1. Menores(m[l]) \subseteq Menores(m[k])
      <4>1. m[k] \in quedan /\ m[l] \in quedan
        BY <1>6, <2>1
      <4>2. \A j \in quedan : j \in Int
        BY <1>1
      <4> HIDE DEF quedan, n
      <4>3. \A j \in quedan : j < m[l] => j < m[k]
        BY <4>1, <4>2, <2>1
      <4> QED BY <4>3
    <3>2. IsFiniteSet(Menores(m[k]))
      <4>1. Menores(m[k]) \subseteq quedan
        OBVIOUS
      <4> QED BY ONLY <4>1, <1>2, FS_Subset
    <3>3. Cardinality(Menores(m[l])) <= Cardinality(Menores(m[k]))
      BY ONLY <3>1, <3>2, FS_Subset
    <3>4. Cardinality(Menores(m[k])) = k - 1 /\ Cardinality(Menores(m[l])) = l - 1
      BY <1>6, <2>1
    <3> HIDE DEF Menores, quedan, n
    <3> QED BY <3>3, <3>4, <2>1, <1>2
  <2> QED BY <2>1
<1>14. Elige(m, s, X)
  BY <1>7, <1>8, <1>9, <1>10, <1>13 DEF Elige
<1> QED BY <1>12, <1>14

-----------------------------------------------------------------------------
(* The constants: sizes and pages.                                           *)

\* The patotas, their crews and their tasks.
LEMMA Pedidas ==
  /\ Pids = 1..Len(Patotas) /\ Len(Patotas) \in Nat
  /\ \A p \in Pids : /\ Patotas[p].cantidad \in Nat \ {0}
                     /\ Patotas[p].tareas \in Seq(Nat \ {0})
  /\ \A t \in Trips : /\ t[1] \in Pids /\ t = <<t[1], t[2]>>
                      /\ t[2] \in 1..Patotas[t[1]].cantidad
  /\ \A p \in Pids : \A i \in 1..Patotas[p].cantidad : <<p, i>> \in Trips
  /\ Nadie \notin Trips
<1>1. Pids = 1..Len(Patotas) /\ Len(Patotas) \in Nat
  BY ConstantesOK, LenProperties DEF Pids
<1>2. \A p \in Pids : Patotas[p] \in [cantidad : Nat \ {0}, tareas : Seq(Nat \ {0})]
  BY <1>1, ConstantesOK, LenProperties
<1>3. \A t \in Trips : /\ t[1] \in Pids /\ t = <<t[1], t[2]>>
                       /\ t[2] \in 1..Patotas[t[1]].cantidad
  BY DEF Trips
<1>4. Nadie \notin Trips
  BY <1>1, <1>3 DEF Nadie
<1> QED BY <1>1, <1>2, <1>3, <1>4 DEF Trips

\* The first n tasks take no more than all, and one more adds its size.
LEMMA Textos ==
  ASSUME NEW p \in Pids
  PROVE  /\ Len(Patotas[p].tareas) \in Nat
         /\ \A n \in 0..Len(Patotas[p].tareas) :
              Texto(p, n) \in Nat /\ Texto(p, n) <= Texto(p, Len(Patotas[p].tareas))
         /\ \A n \in 0..Len(Patotas[p].tareas) - 1 :
              /\ Patotas[p].tareas[n + 1] \in Nat \ {0}
              /\ Texto(p, n + 1) = Texto(p, n) + Patotas[p].tareas[n + 1]
<1> DEFINE s == Patotas[p].tareas
           m == Len(s)
<1>1. m \in Nat /\ \A i \in 1..m : s[i] \in Nat \ {0}
  BY Pedidas, LenProperties
<1> HIDE DEF s, m
<1>2. ASSUME NEW n \in 0..m
      PROVE  /\ SumFunctionOnSet(s, 1..n) \in Nat
             /\ SumFunctionOnSet(s, 1..n) <= SumFunctionOnSet(s, 1..m)
  <2>1. IsFiniteSet(1..m) /\ 1..n \in SUBSET (1..m)
    BY <1>1, FS_Interval
  <2>2. \A i \in 1..m : s[i] \in Nat
    BY <1>1
  <2> QED BY ONLY <2>1, <2>2, SumaMenor
<1>3. ASSUME NEW n \in 0..m - 1
      PROVE  /\ s[n + 1] \in Nat \ {0}
             /\ SumFunctionOnSet(s, 1..n + 1) = SumFunctionOnSet(s, 1..n) + s[n + 1]
  <2> DEFINE S == 1..n
             x == n + 1
  <2>1. IsFiniteSet(S) /\ x \notin S /\ 1..n + 1 = S \cup {x}
    BY <1>1, FS_Interval
  <2>2. \A i \in S \cup {x} : s[i] \in Int
    BY <1>1
  <2>3. s[n + 1] \in Nat \ {0}
    BY <1>1
  <2>4. SumFunctionOnSet(s, S \cup {x}) = SumFunctionOnSet(s, S) + s[x]
    <3> HIDE DEF S, x
    <3> QED BY ONLY <2>1, <2>2, SumaCon
  <2> QED BY ONLY <2>1, <2>3, <2>4
<1> QED BY <1>1, <1>2, <1>3 DEF Texto, s, m

\* What a patota takes, and where its TCBs are in it.
LEMMA Tamanios ==
  /\ TAMANIO_PAGINA \in Nat /\ TAMANIO_PAGINA >= 21
  /\ \A p \in Pids : /\ TamanioTareas[p] \in Int /\ TamanioTareas[p] >= -1
                     /\ TamanioTareas[p] = Texto(p, Len(Patotas[p].tareas)) - 1
                     /\ Tamanio[p] \in Nat /\ Tamanio[p] >= 8 + TamanioTareas[p] + 21
                     /\ CantPaginas[p] \in Nat \ {0}
                     /\ CantPaginas[p] = (Tamanio[p] + TAMANIO_PAGINA - 1) \div TAMANIO_PAGINA
  /\ \A t \in Trips : /\ InicioTcb[t] \in Nat
                      /\ InicioTcb[t] = 8 + TamanioTareas[t[1]] + (t[2] - 1) * 21
                      /\ InicioTcb[t] + 21 <= Tamanio[t[1]]
<1>1. TAMANIO_PAGINA \in Nat /\ TAMANIO_PAGINA >= 21
  BY ConstantesOK DEF tam_tcb
<1>2. ASSUME NEW p \in Pids
      PROVE  /\ TamanioTareas[p] \in Int /\ TamanioTareas[p] >= -1
             /\ TamanioTareas[p] = Texto(p, Len(Patotas[p].tareas)) - 1
             /\ Tamanio[p] \in Nat /\ Tamanio[p] >= 8 + TamanioTareas[p] + 21
             /\ Tamanio[p] = 8 + TamanioTareas[p] + Patotas[p].cantidad * 21
             /\ CantPaginas[p] \in Nat \ {0}
             /\ CantPaginas[p] = (Tamanio[p] + TAMANIO_PAGINA - 1) \div TAMANIO_PAGINA
  <2>1. Len(Patotas[p].tareas) \in Nat
    BY Textos
  <2>2. Texto(p, Len(Patotas[p].tareas)) \in Nat
    BY <2>1, Textos
  <2>3. TamanioTareas[p] = Texto(p, Len(Patotas[p].tareas)) - 1
    BY DEF TamanioTareas
  <2>4. PICK c \in Nat \ {0} : Patotas[p].cantidad = c
    BY Pedidas
  <2>5. Tamanio[p] = 8 + TamanioTareas[p] + c * 21
    BY <2>4 DEF Tamanio, tam_pcb, tam_tcb
  <2>6. PICK T \in Nat : Tamanio[p] = T /\ T >= 21
    BY <2>2, <2>3, <2>5
  <2>7. CantPaginas[p] = (T + TAMANIO_PAGINA - 1) \div TAMANIO_PAGINA
    BY <2>6 DEF CantPaginas
  <2>8. (T + TAMANIO_PAGINA - 1) \div TAMANIO_PAGINA \in Nat \ {0}
    BY <1>1, <2>6, SMTT(20)
  <2> QED BY <2>2, <2>3, <2>4, <2>5, <2>6, <2>7, <2>8, SMTT(20)
<1>3. ASSUME NEW t \in Trips
      PROVE  /\ InicioTcb[t] \in Nat
             /\ InicioTcb[t] = 8 + TamanioTareas[t[1]] + (t[2] - 1) * 21
             /\ InicioTcb[t] + 21 <= Tamanio[t[1]]
  <2>1. PICK p \in Pids : t[1] = p
    BY Pedidas
  <2>2. PICK c \in Nat \ {0} : Patotas[p].cantidad = c
    BY Pedidas
  <2>3. PICK i \in 1..c : t[2] = i
    BY Pedidas, <2>1, <2>2
  <2>4. InicioTcb[t] = 8 + TamanioTareas[p] + (i - 1) * 21
    BY <2>1, <2>3 DEF InicioTcb, tam_pcb, tam_tcb
  <2>5. Tamanio[p] = 8 + TamanioTareas[p] + c * 21 /\ TamanioTareas[p] \in Int /\ TamanioTareas[p] >= -1
    BY <1>2, <2>2
  <2> QED BY <2>1, <2>3, <2>4, <2>5
<1> QED BY <1>1, <1>2, <1>3

\* The page of a byte of a patota is one of its pages.
LEMMA PaginaDeByte ==
  ASSUME NEW p \in Pids, NEW b \in 0..Tamanio[p] - 1
  PROVE  /\ <<p, b \div TAMANIO_PAGINA>> \in PaginasDe(p) /\ PaginasDe(p) \subseteq Paginas
         /\ b \div TAMANIO_PAGINA \in 0..CantPaginas[p] - 1
<1>1. PICK T \in Nat : Tamanio[p] = T
  BY Tamanios
<1>2. PICK d \in Nat \ {0} : TAMANIO_PAGINA = d
  BY Tamanios
<1>3. b \in Nat /\ b <= T - 1
  BY <1>1
<1>4. b \div d \in 0..((T + d - 1) \div d) - 1
  BY ONLY <1>1, <1>2, <1>3, T \in Nat, d \in Nat \ {0}
<1>5. b \div TAMANIO_PAGINA \in 0..CantPaginas[p] - 1
  BY <1>1, <1>2, <1>4, Tamanios
<1> QED BY <1>5 DEF PaginasDe, Paginas

\* A page is named by its patota and its number.
LEMMA NombrePagina ==
  /\ \A g \in Paginas : /\ g[1] \in Pids /\ g[2] \in 0..CantPaginas[g[1]] - 1
                        /\ g = <<g[1], g[2]>> /\ g[2] \in Nat
  /\ Ninguna \notin Paginas
  /\ \A p \in Pids : \A i \in 0..CantPaginas[p] - 1 : <<p, i>> \in Paginas
<1>1. \A g \in Paginas : g[1] \in Pids /\ g[2] \in 0..CantPaginas[g[1]] - 1 /\ g = <<g[1], g[2]>>
  BY DEF Paginas, PaginasDe
<1>2. Ninguna \notin Paginas
  BY <1>1, Pedidas DEF Ninguna
<1>3. \A p \in Pids : \A i \in 0..CantPaginas[p] - 1 : <<p, i>> \in Paginas
  BY DEF Paginas, PaginasDe
<1>4. \A g \in Paginas : g[2] \in Nat
  BY <1>1, Tamanios
<1> QED BY <1>1, <1>2, <1>3, <1>4

\* The pages of some bytes of a patota: one for each of them, and no other.
LEMMA RangoDeBytes ==
  ASSUME NEW p \in Pids, NEW desde \in Nat, NEW n \in Nat \ {0}, desde + n <= Tamanio[p]
  PROVE  /\ Rango(p, desde, n) \in Seq(PaginasDe(p)) /\ Rango(p, desde, n) # <<>>
         /\ \A k \in DOMAIN Rango(p, desde, n) :
              \E b \in desde..desde + n - 1 : Rango(p, desde, n)[k] = <<p, b \div TAMANIO_PAGINA>>
         /\ \A b \in desde..desde + n - 1 :
              \E k \in DOMAIN Rango(p, desde, n) : Rango(p, desde, n)[k] = <<p, b \div TAMANIO_PAGINA>>
<1> DEFINE a == desde \div TAMANIO_PAGINA
           z == (desde + n - 1) \div TAMANIO_PAGINA
           r == Rango(p, desde, n)
<1>1. PICK d \in Nat \ {0} : TAMANIO_PAGINA = d
  BY Tamanios
<1>2. /\ a \in Nat /\ z \in Nat /\ a <= z
      /\ d * a <= desde /\ desde < d * a + d /\ d * z <= desde + n - 1
  BY <1>1
<1>3. r = [k \in 1..z - a + 1 |-> <<p, a + k - 1>>]
  BY DEF Rango
<1>4. ASSUME NEW k \in 1..z - a + 1
      PROVE  \E b \in desde..desde + n - 1 : r[k] = <<p, b \div TAMANIO_PAGINA>>
  <2>1. CASE k = 1
    <3>1. r[k] = <<p, desde \div TAMANIO_PAGINA>>
      BY <1>2, <1>3, <2>1
    <3>2. desde \in desde..desde + n - 1
      OBVIOUS
    <3> QED BY <3>1, <3>2
  <2>2. CASE k # 1
    <3> DEFINE q == a + k - 1
    <3>1. q \in Nat /\ a + 1 <= q /\ q <= z
      BY <1>2, <2>2
    <3>2. PICK b \in Nat : b = d * q
      BY <3>1
    <3> HIDE DEF q
    <3>3. b \div d = q
      BY ONLY <3>1, <3>2, d \in Nat \ {0}
    <3>4. d * (a + 1) <= d * q /\ d * q <= d * z
      BY ONLY <3>1, <1>2, a \in Nat, z \in Nat, d \in Nat \ {0}
    <3>5. b \in desde..desde + n - 1
      BY <3>2, <3>4, <1>2
    <3>6. r[k] = <<p, b \div TAMANIO_PAGINA>>
      BY <1>1, <1>3, <3>3 DEF q
    <3> QED BY <3>5, <3>6
  <2> QED BY <2>1, <2>2
<1>5. DOMAIN r = 1..z - a + 1
  BY <1>3
<1>6. ASSUME NEW b \in desde..desde + n - 1
      PROVE  \E k \in 1..z - a + 1 : r[k] = <<p, b \div TAMANIO_PAGINA>>
  <2>1. PICK q \in Nat : q = b \div TAMANIO_PAGINA /\ a <= q /\ q <= z
    BY <1>1
  <2>2. q - a + 1 \in 1..z - a + 1 /\ a + (q - a + 1) - 1 = q
    BY <1>2, <2>1
  <2>3. r[q - a + 1] = <<p, q>>
    BY <1>3, <2>2
  <2> QED BY <2>1, <2>2, <2>3
<1>7. \A k \in 1..z - a + 1 : r[k] \in PaginasDe(p)
  <2>1. ASSUME NEW k \in 1..z - a + 1 PROVE r[k] \in PaginasDe(p)
    <3>1. PICK b \in desde..desde + n - 1 : r[k] = <<p, b \div TAMANIO_PAGINA>>
      BY <1>4
    <3>2. b \in 0..Tamanio[p] - 1
      BY Tamanios, SMTT(20)
    <3> QED BY <3>1, <3>2, PaginaDeByte
  <2> QED BY <2>1
<1>8. r \in Seq(PaginasDe(p)) /\ r # <<>>
  <2>1. PICK m \in Nat \ {0} : m = z - a + 1
    BY <1>2
  <2>2. r \in [1..m -> PaginasDe(p)]
    <3> HIDE DEF r, z, a
    <3> QED BY <1>3, <1>5, <1>7, <2>1
  <2> HIDE DEF r
  <2>3. r \in Seq(PaginasDe(p))
    BY <2>1, <2>2, SeqDef
  <2>4. 1 \in DOMAIN r
    BY <2>1, <2>2
  <2> QED BY <2>3, <2>4
<1> HIDE DEF r, z, a
<1> QED BY <1>4, <1>5, <1>6, <1>8 DEF r

-----------------------------------------------------------------------------
(* What a request has to do.                                                 *)
Modos == {"trae", "lee", "usa", "tarea", "avanza", "fin"}
Ops == PideElTripulante \cup {"estado"}
Buscan == Usan \cup {"trae"}
Accesibles == [modo : Modos, pag : Paginas]

\* The bytes of a TCB, and the pages they are in.
BytesDe(t) == InicioTcb[t]..InicioTcb[t] + tam_tcb - 1
PaginasConTcb(t) == {<<t[1], b \div TAMANIO_PAGINA>> : b \in BytesDe(t)}

\* Each field is in a page of the TCB, which are pages of the patota; they are those that
\* are brought to memory.
LEMMA PaginasDelTcb ==
  ASSUME NEW t \in Trips
  PROVE  /\ PaginasConTcb(t) \subseteq PaginasDe(t[1]) /\ PaginasDe(t[1]) \subseteq Paginas
         /\ \A d \in 0..20 : Campo(t, d) \in PaginasConTcb(t)
         /\ PaginasTcb(t) \in Seq(PaginasConTcb(t)) /\ ToSet(PaginasTcb(t)) = PaginasConTcb(t)
<1>1. PICK p \in Pids : t[1] = p
  BY Pedidas
<1>2. PICK a \in Nat : InicioTcb[t] = a /\ a + 21 <= Tamanio[p] /\ Tamanio[p] \in Nat
  BY <1>1, Tamanios
<1>3. BytesDe(t) = a..a + 21 - 1
  BY <1>2 DEF BytesDe, tam_tcb
<1>4. \A b \in BytesDe(t) : b \in 0..Tamanio[p] - 1
  BY <1>2, <1>3
<1>5. PaginasConTcb(t) \subseteq PaginasDe(p)
  BY <1>1, <1>4, PaginaDeByte DEF PaginasConTcb
<1>6. PaginasDe(p) \subseteq Paginas
  BY DEF Paginas
<1>7. ASSUME NEW d \in 0..20 PROVE Campo(t, d) \in PaginasConTcb(t)
  <2>1. a + d \in BytesDe(t)
    BY <1>3
  <2> QED BY <1>2, <2>1 DEF Campo, PaginasConTcb
<1> DEFINE r == Rango(p, a, 21)
<1>8. PaginasTcb(t) = r
  BY <1>1, <1>2 DEF PaginasTcb, tam_tcb
<1>9. /\ r \in Seq(PaginasDe(p))
      /\ \A k \in DOMAIN r : \E b \in BytesDe(t) : r[k] = <<p, b \div TAMANIO_PAGINA>>
      /\ \A b \in BytesDe(t) : \E k \in DOMAIN r : r[k] = <<p, b \div TAMANIO_PAGINA>>
  <2>1. a \in Nat /\ 21 \in Nat \ {0} /\ a + 21 <= Tamanio[p]
    BY <1>2
  <2>2. /\ r \in Seq(PaginasDe(p))
        /\ \A k \in DOMAIN r : \E b \in a..a + 21 - 1 : r[k] = <<p, b \div TAMANIO_PAGINA>>
        /\ \A b \in a..a + 21 - 1 : \E k \in DOMAIN r : r[k] = <<p, b \div TAMANIO_PAGINA>>
    BY ONLY <2>1, p \in Pids, RangoDeBytes
  <2> QED BY ONLY <1>3, <2>2
<1> HIDE DEF r
<1>10. ToSet(r) = PaginasConTcb(t)
  BY <1>1, <1>9 DEF ToSet, PaginasConTcb
<1>11. r \in Seq(PaginasConTcb(t))
  <2>1. Len(r) \in Nat /\ DOMAIN r = 1..Len(r) /\ r \in [1..Len(r) -> PaginasDe(p)]
    BY <1>9, LenProperties
  <2>2. \A k \in 1..Len(r) : r[k] \in PaginasConTcb(t)
    BY <1>10, <2>1 DEF ToSet
  <2>3. r \in [1..Len(r) -> PaginasConTcb(t)]
    BY <2>1, <2>2
  <2> QED BY ONLY <2>1, <2>3, SeqDef
<1> QED BY <1>1, <1>5, <1>6, <1>7, <1>8, <1>10, <1>11

\* The same access to each page of a list.
LEMMA PasosDeLista ==
  ASSUME NEW modo \in Modos, NEW S, NEW s \in Seq(S)
  PROVE  /\ Pasos(modo, s) \in Seq([modo : {modo}, pag : S]) /\ Len(Pasos(modo, s)) = Len(s)
         /\ DOMAIN Pasos(modo, s) = DOMAIN s
         /\ \A i \in DOMAIN s : Pasos(modo, s)[i] = [modo |-> modo, pag |-> s[i]]
<1> DEFINE P == [modo : {modo}, pag : S]
           r == Pasos(modo, s)
<1>1. Len(s) \in Nat /\ DOMAIN s = 1..Len(s) /\ \A i \in 1..Len(s) : s[i] \in S
  BY LenProperties
<1>2. r = [i \in 1..Len(s) |-> [modo |-> modo, pag |-> s[i]]]
  BY <1>1 DEF Pasos, Paso
<1>3. \A i \in 1..Len(s) : [modo |-> modo, pag |-> s[i]] \in P
  BY <1>1
<1>4. r \in [1..Len(s) -> P] /\ DOMAIN r = 1..Len(s)
  BY <1>2, <1>3
<1> HIDE DEF r, P
<1>5. r \in Seq(P)
  BY <1>1, <1>4, SeqDef
<1>6. Len(r) = Len(s)
  BY <1>1, <1>4, <1>5, LenProperties
<1> QED BY <1>1, <1>2, <1>4, <1>5, <1>6 DEF r, P

\* The TCB is brought, and then what the request is about: only OBTENER_PROXIMA_TAREA reads
\* the next task, right after that, and moves it on.
LEMMA AccesosBien ==
  ASSUME NEW t \in Trips, NEW op \in Ops
  PROVE  LET a == Accesos(t, op)
             n == Len(a)
             p == Campo(t, proxima_tarea)
         IN /\ a \in Seq([modo : Modos, pag : PaginasConTcb(t)])
            /\ op # "obtener" => \A i \in DOMAIN a : a[i].modo \in {"trae", "lee", "usa"}
            /\ op = "obtener" =>
                 /\ n >= 2 /\ a[n] = Paso("avanza", p) /\ a[n - 1] = Paso("tarea", p)
                 /\ \A i \in 1..n - 2 : a[i].modo = "trae"
<1> DEFINE G == PaginasConTcb(t)
           A == [modo : Modos, pag : G]
           s == Pasos("trae", PaginasTcb(t))
           u == CASE op = "ubicacion" -> AccesosUbicacion(t)
                  [] op = "estado" -> AccesosEstado(t)
                  [] op = "obtener" -> AccesosObtener(t)
           p == Campo(t, proxima_tarea)
           a == s \o u
<1>1. /\ s \in Seq([modo : {"trae"}, pag : G]) /\ Len(s) \in Nat /\ DOMAIN s = 1..Len(s)
      /\ \A i \in DOMAIN s : s[i].modo = "trae" /\ s[i] \in A
  <2>1. PaginasTcb(t) \in Seq(G) /\ "trae" \in Modos
    BY PaginasDelTcb DEF Modos
  <2>2. s \in Seq([modo : {"trae"}, pag : G])
    BY <2>1, PasosDeLista
  <2> HIDE DEF s, G
  <2>3. Len(s) \in Nat /\ DOMAIN s = 1..Len(s) /\ \A i \in 1..Len(s) : s[i] \in [modo : {"trae"}, pag : G]
    BY <2>2, LenProperties
  <2>4. \A x \in [modo : {"trae"}, pag : G] : x.modo = "trae" /\ x \in [modo : Modos, pag : G]
    BY <2>1
  <2> QED BY <2>2, <2>3, <2>4
<1>2. Campo(t, pos_x) \in G /\ Campo(t, pos_y) \in G /\ Campo(t, estado) \in G /\ p \in G
  BY PaginasDelTcb DEF pos_x, pos_y, estado, proxima_tarea
<1>3. \A g \in G : \A m \in Modos : Paso(m, g) \in A /\ Paso(m, g).modo = m
  BY DEF Paso
<1> HIDE DEF s, G
<1>4. /\ u \in Seq(A) /\ Len(u) \in Nat /\ DOMAIN u = 1..Len(u)
      /\ op # "obtener" => \A i \in DOMAIN u : u[i].modo \in {"trae", "lee", "usa"}
      /\ op = "obtener" => Len(u) = 2 /\ u[1] = Paso("tarea", p) /\ u[2] = Paso("avanza", p)
  <2>1. CASE op = "ubicacion"
    <3>1. u = << Paso("lee", Campo(t, pos_x)), Paso("usa", Campo(t, pos_x)),
                 Paso("lee", Campo(t, pos_y)), Paso("usa", Campo(t, pos_y)) >>
      BY <2>1 DEF AccesosUbicacion
    <3> HIDE DEF u, A
    <3> QED BY <2>1, <3>1, <1>2, <1>3 DEF Modos
  <2>2. CASE op = "estado"
    <3>1. u = << Paso("usa", Campo(t, estado)) >>
      BY <2>2 DEF AccesosEstado
    <3> HIDE DEF u, A
    <3> QED BY <2>2, <3>1, <1>2, <1>3 DEF Modos
  <2>3. CASE op = "obtener"
    <3>1. u = << Paso("tarea", p), Paso("avanza", p) >>
      BY <2>3 DEF AccesosObtener
    <3> HIDE DEF u, A
    <3> QED BY <2>3, <3>1, <1>2, <1>3 DEF Modos
  <2> QED BY <2>1, <2>2, <2>3 DEF Ops, PideElTripulante
<1>5. Accesos(t, op) = a
  BY DEF Accesos, s
<1> HIDE DEF u, p
<1>6. s \in Seq(A)
  <2>1. s \in [1..Len(s) -> A]
    BY <1>1, LenProperties
  <2> HIDE DEF A
  <2> QED BY <1>1, <2>1, SeqDef
<1>7. /\ a \in Seq(A) /\ Len(a) = Len(s) + Len(u) /\ DOMAIN a = 1..Len(s) + Len(u)
      /\ \A i \in 1..Len(s) + Len(u) : a[i] = IF i <= Len(s) THEN s[i] ELSE u[i - Len(s)]
  <2> HIDE DEF A
  <2> QED BY <1>4, <1>6, <1>1, ConcatProperties, LenProperties
<1> HIDE DEF a, A
<1>8. ASSUME op # "obtener", NEW i \in DOMAIN a PROVE a[i].modo \in {"trae", "lee", "usa"}
  <2>1. CASE i <= Len(s)
    BY <2>1, <1>1, <1>7
  <2>2. CASE ~(i <= Len(s))
    <3>1. i - Len(s) \in DOMAIN u /\ a[i] = u[i - Len(s)]
      BY <2>2, <1>1, <1>4, <1>7
    <3> QED BY <3>1, <1>8, <1>4
  <2> QED BY <2>1, <2>2
<1>9. ASSUME op = "obtener"
      PROVE  /\ Len(a) >= 2 /\ a[Len(a)] = Paso("avanza", p) /\ a[Len(a) - 1] = Paso("tarea", p)
             /\ \A i \in 1..Len(a) - 2 : a[i].modo = "trae"
  <2>1. PICK k \in Nat : Len(s) = k
    BY <1>1
  <2>2. Len(a) = k + 2
    BY <1>4, <1>7, <1>9, <2>1
  <2>3. a[k + 2] = u[2] /\ a[k + 1] = u[1]
    <3>1. \A i \in 1..k + 2 : a[i] = IF i <= k THEN s[i] ELSE u[i - k]
      BY <1>4, <1>7, <1>9, <2>1
    <3>2. ~(k + 2 <= k) /\ ~(k + 1 <= k) /\ k + 2 \in 1..k + 2 /\ k + 1 \in 1..k + 2
          /\ (k + 2) - k = 2 /\ (k + 1) - k = 1
      OBVIOUS
    <3> QED BY <3>1, <3>2
  <2>4. \A i \in 1..k : a[i] = s[i]
    BY <1>4, <1>7, <1>9, <2>1
  <2> QED BY <1>1, <1>4, <1>9, <2>1, <2>2, <2>3, <2>4
<1> QED BY <1>5, <1>7, <1>8, <1>9 DEF A, G, p

\* A task that there is, is in pages of the patota, those of its bytes; after the last one
\* the crew leaves.
LEMMA AccesosTareaBien ==
  ASSUME NEW t \in Trips, NEW n \in Nat
  PROVE  /\ AccesosDeTarea(t, n) \in Seq(Accesibles)
         /\ n >= Len(Patotas[t[1]].tareas) => AccesosDeTarea(t, n) = << Paso("fin", Campo(t, tid)) >>
         /\ n < Len(Patotas[t[1]].tareas) =>
              \A i \in DOMAIN AccesosDeTarea(t, n) :
                /\ AccesosDeTarea(t, n)[i].modo = "usa"
                /\ \E b \in tam_pcb..InicioTcb[<<t[1], 1>>] :
                     AccesosDeTarea(t, n)[i].pag = <<t[1], b \div TAMANIO_PAGINA>>
<1> DEFINE a == AccesosDeTarea(t, n)
<1>1. PICK p \in Pids : t[1] = p
  BY Pedidas
<1> DEFINE m == Len(Patotas[p].tareas)
<1>2. m \in Nat
  BY Textos
<1>3. CASE n >= m
  <2>1. a = << Paso("fin", Campo(t, tid)) >>
    BY <1>1, <1>2, <1>3 DEF AccesosDeTarea
  <2>2. Campo(t, tid) \in Paginas
    BY PaginasDelTcb DEF tid
  <2>3. Paso("fin", Campo(t, tid)) \in Accesibles
    BY <2>2 DEF Accesibles, Modos, Paso
  <2>4. a \in Seq(Accesibles)
    BY <2>1, <2>3
  <2> QED BY <1>1, <1>2, <1>3, <2>1, <2>4
<1>4. CASE n < m
  <2> DEFINE d == tam_pcb + Texto(p, n)
             c == Patotas[p].tareas[n + 1]
             r == Rango(p, d, c)
  <2>1. a = Pasos("usa", r)
    BY <1>1, <1>2, <1>4 DEF AccesosDeTarea
  <2>2. /\ Texto(p, n) \in Nat /\ c \in Nat \ {0} /\ Texto(p, n + 1) = Texto(p, n) + c
        /\ Texto(p, n + 1) <= Texto(p, m) /\ Texto(p, m) \in Nat
    <3>1. n \in 0..m - 1 /\ n \in 0..m /\ n + 1 \in 0..m /\ m \in 0..m
      BY <1>2, <1>4
    <3> QED BY <3>1, Textos
  <2>3. PICK x \in Nat : Texto(p, n) = x
    BY <2>2
  <2>4. PICK y \in Nat \ {0} : c = y
    BY <2>2
  <2>5. PICK z \in Nat : Texto(p, m) = z /\ x + y <= z
    BY <2>2, <2>3, <2>4
  <2>6. d = 8 + x
    BY <2>3 DEF tam_pcb
  <2>7. Tamanio[p] \in Nat /\ Tamanio[p] >= 8 + (z - 1) + 21
    <3>1. TamanioTareas[p] = z - 1
      BY Tamanios, <2>5
    <3> QED BY <3>1, Tamanios
  <2>8. <<p, 1>> \in Trips /\ InicioTcb[<<p, 1>>] = 8 + (z - 1)
    <3>1. <<p, 1>> \in Trips
      BY Pedidas
    <3>2. TamanioTareas[p] = z - 1
      BY Tamanios, <2>5
    <3>3. InicioTcb[<<p, 1>>] = 8 + TamanioTareas[p] + (1 - 1) * 21
      BY <3>1, Tamanios
    <3> QED BY <3>1, <3>2, <3>3
  <2>9. /\ r \in Seq(PaginasDe(p))
        /\ \A k \in DOMAIN r : \E b \in d..d + c - 1 : r[k] = <<p, b \div TAMANIO_PAGINA>>
    <3>1. d \in Nat /\ c \in Nat \ {0} /\ d + c <= Tamanio[p]
      BY <2>4, <2>5, <2>6, <2>7
    <3> HIDE DEF d, c
    <3> QED BY <3>1, RangoDeBytes
  <2>10. \A b \in d..d + c - 1 : b \in tam_pcb..InicioTcb[<<t[1], 1>>]
    BY <1>1, <2>4, <2>5, <2>6, <2>8 DEF tam_pcb
  <2> HIDE DEF r, d, c
  <2>11. /\ a \in Seq([modo : {"usa"}, pag : PaginasDe(p)]) /\ DOMAIN a = DOMAIN r
         /\ \A i \in DOMAIN r : a[i] = [modo |-> "usa", pag |-> r[i]]
    <3>1. "usa" \in Modos /\ r \in Seq(PaginasDe(p))
      BY <2>9 DEF Modos
    <3>2. /\ Pasos("usa", r) \in Seq([modo : {"usa"}, pag : PaginasDe(p)])
          /\ DOMAIN Pasos("usa", r) = DOMAIN r
          /\ \A i \in DOMAIN r : Pasos("usa", r)[i] = [modo |-> "usa", pag |-> r[i]]
      BY ONLY <3>1, PasosDeLista
    <3> QED BY ONLY <2>1, <3>2
  <2>12. a \in Seq(Accesibles)
    <3>1. \A acceso \in [modo : {"usa"}, pag : PaginasDe(p)] : acceso \in Accesibles
      BY DEF Accesibles, Modos, Paginas
    <3>2. a \in [1..Len(a) -> Accesibles] /\ Len(a) \in Nat
      BY <2>11, <3>1, LenProperties
    <3> QED BY <3>2, SeqDef
  <2>13. ASSUME NEW i \in DOMAIN a
         PROVE  /\ a[i].modo = "usa"
                /\ \E b \in tam_pcb..InicioTcb[<<t[1], 1>>] :
                     a[i].pag = <<t[1], b \div TAMANIO_PAGINA>>
    <3>1. PICK b \in d..d + c - 1 : r[i] = <<p, b \div TAMANIO_PAGINA>>
      BY <2>9, <2>11
    <3> QED BY <1>1, <2>10, <2>11, <3>1, SMTT(20)
  <2> HIDE DEF a, m
  <2>14. ~(n >= m)
    BY <1>2, <1>4
  <2> QED BY <1>1, <2>12, <2>13, <2>14 DEF a, m
<1>5. n >= m \/ n < m
  BY <1>2
<1> HIDE DEF a, m
<1> QED BY <1>3, <1>4, <1>5

-----------------------------------------------------------------------------
(* The invariant of the frames.                                              *)

\* The frame somebody has got and not used yet.
EnMano == {ini.frame, curso.frame} \ {0}

\* The pages that were loaded.
Cargada(g) == g[1] \in aceptadas /\ (g[1] = ini.pid => g[2] < ini.sigue)

TipoPagina == [presente : BOOLEAN, frame : Frames \cup {0}, swap : Swap \cup {0},
               uso : BOOLEAN, usados : Int]

FormaMemoria ==
  /\ algoritmo \in {"LRU", "CLOCK"} /\ puntero \in Frames
  /\ marco \in [Frames -> [libre : BOOLEAN, de : Paginas \cup {Ninguna}, dato : Datos]]
  /\ swap \in [Swap -> [libre : BOOLEAN, dato : Datos]]
  /\ pagina \in [Paginas -> TipoPagina]
  /\ historial \in Seq([pagina : Paginas, frame : Frames])
  /\ lleno \in BOOLEAN

\* While a patota is being loaded nobody else is served.
FormaAlta ==
  /\ recibidas \in 0..Len(Patotas) /\ aceptadas \subseteq 1..recibidas
  /\ ini \in [pid : Pids \cup {0}, sigue : Nat, frame : Frames \cup {0}]
  /\ ini.pid = 0 => ini = SinAlta
  /\ ini.pid # 0 => ini.pid \in aceptadas /\ ini.sigue < CantPaginas[ini.pid] /\ curso = SinCurso

\* Whoever has a frame, or the place of a page in the queue, has it for the page it is at.
FormaCurso ==
  /\ curso \in [t : Trips \cup {Nadie}, op : Ops \cup {"no"}, pasos : Seq(Accesibles),
                frame : Frames \cup {0}, indice : Nat, tarea : Nat]
  /\ curso.op = "no" => curso = SinCurso
  /\ curso.op # "no" => curso.t \in Trips
  /\ curso.frame # 0 => /\ curso.pasos # <<>> /\ ~pagina[Pag].presente
                        /\ Head(curso.pasos).modo \in Buscan
  /\ curso.indice # 0 => curso.pasos # <<>> /\ pagina[Pag].presente /\ curso.frame = 0

\* What a request does is to pages of its crew's patota, which was accepted.
AccesiblesDe(p) == [modo : Modos, pag : PaginasDe(p)]

FormaPedidos ==
  /\ \A e \in esperan : e[1] \in Trips /\ e[2] \in Ops /\ e[1][1] \in aceptadas
  /\ curso # SinCurso => /\ curso.t[1] \in aceptadas
                         /\ curso.pasos \in Seq(AccesiblesDe(curso.t[1]))

\* A page in memory was loaded and has a frame of its own, that nobody has got; a frame
\* that is taken and nobody has got is of a page in memory.
Marcos ==
  /\ \A g \in Paginas : pagina[g].presente =>
       /\ Cargada(g) /\ pagina[g].frame \in Frames \ EnMano
       /\ ~marco[pagina[g].frame].libre /\ marco[pagina[g].frame].de = g
  /\ \A f \in Frames \ EnMano : ~marco[f].libre =>
       /\ marco[f].de \in Paginas /\ pagina[marco[f].de].presente
       /\ pagina[marco[f].de].frame = f

\* The queue has each frame once, with its page, and every one that is of a page in memory;
\* LRU takes the frame of a victim off it.
Cola ==
  /\ \A i \in DOMAIN historial :
       /\ ~marco[historial[i].frame].libre /\ historial[i].pagina = marco[historial[i].frame].de
       /\ algoritmo = "LRU" => historial[i].frame \notin EnMano
  /\ \A i, j \in DOMAIN historial : historial[i].frame = historial[j].frame => i = j
  /\ \A f \in Frames \ EnMano :
       ~marco[f].libre => \E i \in DOMAIN historial : historial[i].frame = f

FormaPaginas == FormaMemoria /\ FormaAlta /\ FormaCurso /\ FormaPedidos
EnMemoria == ~lleno => Marcos /\ Cola
IndMarcos == FormaPaginas /\ EnMemoria

\* What the queue and the pages say together.
LEMMA PresenteEnCola ==
  ASSUME IndMarcos
  PROVE  PresenteConMarco
<1> SUFFICES ASSUME ~lleno, NEW g \in Paginas, pagina[g].presente
             PROVE  /\ ~marco[pagina[g].frame].libre /\ marco[pagina[g].frame].de = g
                    /\ Entradas(g) # {}
  BY DEF PresenteConMarco
<1>1. /\ pagina[g].frame \in Frames \ EnMano
      /\ ~marco[pagina[g].frame].libre /\ marco[pagina[g].frame].de = g
  BY DEF IndMarcos, EnMemoria, Marcos
<1>2. \E i \in DOMAIN historial : historial[i].frame = pagina[g].frame
  BY <1>1 DEF IndMarcos, EnMemoria, Cola
<1> QED BY <1>1, <1>2 DEF Entradas

-----------------------------------------------------------------------------
(* Getting a frame.                                                          *)

\* With no frame free and none got, each is of a page in memory, in the queue.
LEMMA TodosOcupados ==
  ASSUME IndMarcos, ~lleno, EnMano = {}, FramesLibres = {}
  PROVE  /\ \A f \in Frames : /\ ~marco[f].libre /\ marco[f].de \in Paginas
                              /\ pagina[marco[f].de].presente /\ pagina[marco[f].de].frame = f
         /\ historial # <<>>
<1>1. \A f \in Frames : ~marco[f].libre
  BY DEF FramesLibres
<1>2. 1 \in Frames
  BY ConstantesOK DEF Frames
<1>3. \E i \in DOMAIN historial : historial[i].frame = 1
  BY <1>1, <1>2 DEF IndMarcos, EnMemoria, Cola
<1> QED BY <1>1, <1>3 DEF IndMarcos, EnMemoria, Marcos

\* The page that goes, and what is left in the queue.
Victima(f, g) ==
  /\ f \in Frames /\ g = marco[f].de
  /\ pagina' \in [Paginas -> TipoPagina]
  /\ swap' \in [Swap -> [libre : BOOLEAN, dato : Datos]]
  /\ lleno' = (SwapLibre = {})
  /\ \A h \in Paginas \ {g} : /\ pagina'[h].presente = pagina[h].presente
                              /\ pagina'[h].frame = pagina[h].frame
                              /\ pagina'[h].swap = pagina[h].swap
  /\ \A h \in Paginas : pagina'[h].usados = pagina[h].usados
  /\ SwapLibre # {} =>
       /\ ~pagina'[g].presente /\ pagina'[g].frame = 0 /\ pagina'[g].swap = Min(SwapLibre)
       /\ swap' = [swap EXCEPT ![Min(SwapLibre)] = [libre |-> FALSE, dato |-> marco[f].dato]]
  /\ SwapLibre = {} => /\ swap' = swap /\ pagina'[g].frame = f
                       /\ pagina'[g].swap = pagina[g].swap

\* The victim goes to the first free frame of swap.
LEMMA DesalojarBien ==
  ASSUME FormaMemoria, ~lleno, NEW f \in Frames, NEW g \in Paginas, g = marco[f].de, pagina[g].frame = f,
         pagina[g].presente,
         NEW paginas \in [Paginas -> TipoPagina],
         \A h \in Paginas : /\ paginas[h].presente = pagina[h].presente
                            /\ paginas[h].frame = pagina[h].frame
                            /\ paginas[h].swap = pagina[h].swap
                            /\ paginas[h].usados = pagina[h].usados,
         Desalojar(g, paginas)
  PROVE  Victima(f, g)
<1> DEFINE s == Min(SwapLibre)
<1>1. CASE SwapLibre = {}
  <2>1. /\ pagina' = [paginas EXCEPT ![g].presente = algoritmo = "LRU"]
        /\ lleno' = TRUE /\ swap' = swap
    BY <1>1 DEF Desalojar
  <2>2. pagina' \in [Paginas -> TipoPagina]
    <3> DEFINE r == [paginas[g] EXCEPT !.presente = algoritmo = "LRU"]
    <3>1. r \in TipoPagina
      <4>1. PICK x \in TipoPagina : x = paginas[g]
        OBVIOUS
      <4>2. PICK v \in BOOLEAN : v = (algoritmo = "LRU")
        OBVIOUS
      <4>3. [x EXCEPT !.presente = v] \in TipoPagina
        BY DEF TipoPagina
      <4> QED BY <4>1, <4>2, <4>3
    <3>2. pagina' = [paginas EXCEPT ![g] = r]
      BY <2>1
    <3> HIDE DEF r
    <3> QED BY <3>1, <3>2
  <2>3. swap' \in [Swap -> [libre : BOOLEAN, dato : Datos]]
    BY <2>1 DEF FormaMemoria
  <2>4. \A h \in Paginas : /\ pagina'[h].frame = pagina[h].frame
                           /\ pagina'[h].swap = pagina[h].swap /\ pagina'[h].usados = pagina[h].usados
                           /\ h # g => pagina'[h].presente = pagina[h].presente
    BY <2>1
  <2> QED BY <1>1, <2>1, <2>2, <2>3, <2>4 DEF Victima
<1>2. CASE SwapLibre # {}
  <2>1. /\ pagina' = [paginas EXCEPT ![g].presente = FALSE, ![g].frame = 0, ![g].swap = s]
        /\ swap' = [swap EXCEPT ![s] = [libre |-> FALSE, dato |-> marco[paginas[g].frame].dato]]
        /\ lleno' = lleno
    BY <1>2 DEF Desalojar
  <2>2. s \in Swap
    <3>1. SwapLibre \in SUBSET Nat
      BY ConstantesOK DEF SwapLibre, Swap
    <3>2. s \in SwapLibre
      BY ONLY <3>1, <1>2, MinEsta
    <3> QED BY <3>2 DEF SwapLibre
  <2> HIDE DEF s
  <2>3. swap' = [swap EXCEPT ![s] = [libre |-> FALSE, dato |-> marco[f].dato]]
    BY <2>1
  <2>4. swap' \in [Swap -> [libre : BOOLEAN, dato : Datos]]
    BY <2>3 DEF FormaMemoria
  <2>5. pagina' \in [Paginas -> TipoPagina]
    <3> DEFINE r == [paginas[g] EXCEPT !.presente = FALSE, !.frame = 0, !.swap = s]
    <3>1. r \in TipoPagina
      <4>1. PICK x \in TipoPagina : x = paginas[g]
        OBVIOUS
      <4>2. [x EXCEPT !.presente = FALSE, !.frame = 0, !.swap = s] \in TipoPagina
        BY <2>2 DEF TipoPagina
      <4> QED BY <4>1, <4>2
    <3>2. pagina' = [paginas EXCEPT ![g] = r]
      BY <2>1
    <3> HIDE DEF r
    <3> QED BY <3>1, <3>2
  <2>6. \A h \in Paginas \ {g} : pagina'[h] = paginas[h]
    BY <2>1
  <2>7. /\ ~pagina'[g].presente /\ pagina'[g].frame = 0 /\ pagina'[g].swap = s
        /\ pagina'[g].usados = paginas[g].usados
    <3>1. PICK x \in TipoPagina : x = paginas[g]
      OBVIOUS
    <3>2. PICK r : r = [x EXCEPT !.presente = FALSE, !.frame = 0, !.swap = s]
      OBVIOUS
    <3>3. ~r.presente /\ r.frame = 0 /\ r.swap = s /\ r.usados = x.usados
      BY ONLY <3>2, x \in TipoPagina DEF TipoPagina
    <3>4. pagina' = [paginas EXCEPT ![g] = r]
      BY <2>1, <3>1, <3>2
    <3>5. pagina'[g] = r
      BY ONLY <3>4, paginas \in [Paginas -> TipoPagina], g \in Paginas
    <3> QED BY ONLY <3>1, <3>3, <3>5
  <2>8. \A h \in Paginas \ {g} : /\ pagina'[h].presente = pagina[h].presente
                                  /\ pagina'[h].frame = pagina[h].frame
                                  /\ pagina'[h].swap = pagina[h].swap
    BY <2>6
  <2>9. \A h \in Paginas : pagina'[h].usados = pagina[h].usados
    BY <2>6, <2>7
  <2>10. lleno' = FALSE
    BY <2>1 DEF FormaMemoria
  <2> QED BY <1>2, <2>3, <2>4, <2>5, <2>7, <2>8, <2>9, <2>10 DEF Victima, s
<1> QED BY <1>1, <1>2

\* Whichever algorithm: the victim is a page in memory, the one its frame was of.
LEMMA SustituirBien ==
  ASSUME IndMarcos, ~lleno, EnMano = {}, FramesLibres = {}, NEW f \in Frames, Conseguir(f)
  PROVE  /\ Victima(f, marco[f].de) /\ marco[f].de \in Paginas
         /\ pagina[marco[f].de].presente /\ pagina[marco[f].de].frame = f
         /\ puntero' \in Frames
         /\ algoritmo = "LRU" => /\ f = Head(historial).frame /\ historial' = Tail(historial)
                                 /\ historial # <<>>
         /\ algoritmo # "LRU" => historial' = historial
<1> DEFINE g == marco[f].de
<1>1. FormaMemoria
  BY DEF IndMarcos, FormaPaginas
<1>2. /\ ~marco[f].libre /\ g \in Paginas /\ pagina[g].presente /\ pagina[g].frame = f
      /\ historial # <<>>
  BY TodosOcupados
<1>3. CASE algoritmo = "LRU"
  <2>1. SustituirLRU(f)
    BY <1>3 DEF Conseguir
  <2>2. f = Head(historial).frame /\ historial' = Tail(historial) /\ puntero' = puntero
        /\ Desalojar(Head(historial).pagina, pagina)
    BY <2>1 DEF SustituirLRU
  <2>3. Head(historial).pagina = g
    <3>1. 1 \in DOMAIN historial /\ Head(historial) = historial[1]
      BY <1>1, <1>2, LenProperties, EmptySeq DEF FormaMemoria
    <3> QED BY <2>2, <3>1 DEF IndMarcos, EnMemoria, Cola
  <2>4. Victima(f, g)
    <3>1. pagina \in [Paginas -> TipoPagina] /\ Desalojar(g, pagina)
      BY <1>1, <2>2, <2>3 DEF FormaMemoria
    <3> HIDE DEF g
    <3> QED BY <1>1, <1>2, <3>1, DesalojarBien DEF g
  <2> QED BY <1>1, <1>2, <1>3, <2>2, <2>4 DEF FormaMemoria
<1>4. CASE algoritmo # "LRU"
  <2>1. SustituirCLOCK(f)
    BY <1>2, <1>4 DEF Conseguir
  <2>2. PICK pasados :
          /\ Desalojar(g, [h \in Paginas |-> [pagina[h] EXCEPT !.uso = @ /\ h \notin pasados]])
          /\ puntero' = Siguiente(f) /\ historial' = historial
    BY <2>1 DEF SustituirCLOCK
  <2> DEFINE paginas == [h \in Paginas |-> [pagina[h] EXCEPT !.uso = @ /\ h \notin pasados]]
  <2>3. ASSUME NEW h \in Paginas
        PROVE  /\ paginas[h] \in TipoPagina
               /\ paginas[h].presente = pagina[h].presente
               /\ paginas[h].frame = pagina[h].frame
               /\ paginas[h].swap = pagina[h].swap
               /\ paginas[h].usados = pagina[h].usados
    <3>1. PICK x \in TipoPagina : x = pagina[h]
      BY <1>1 DEF FormaMemoria
    <3>2. PICK v \in BOOLEAN : v = (x.uso /\ h \notin pasados)
      OBVIOUS
    <3>3. paginas[h] = [x EXCEPT !.uso = v]
      BY <3>1, <3>2 DEF TipoPagina
    <3> HIDE DEF paginas
    <3> QED BY <3>1, <3>3 DEF TipoPagina
  <2>4. paginas \in [Paginas -> TipoPagina]
    BY <2>3
  <2>5. Victima(f, g)
    <3>1. Desalojar(g, paginas)
      BY <2>2
    <3> HIDE DEF g, paginas
    <3> QED BY <1>1, <1>2, <2>3, <2>4, <3>1, DesalojarBien DEF g
  <2>6. puntero' \in Frames
    BY <2>2, ConstantesOK DEF Siguiente, Frames
  <2> QED BY <1>2, <1>4, <2>2, <2>5, <2>6
<1> QED BY <1>3, <1>4

\* A list less its first, place by place.
LEMMA SinPrimero ==
  ASSUME NEW S, NEW s \in Seq(S), s # <<>>
  PROVE  \E n \in Nat : /\ DOMAIN s = 1..n + 1 /\ DOMAIN Tail(s) = 1..n /\ Head(s) = s[1]
                        /\ \A i \in 1..n : Tail(s)[i] = s[i + 1]
<1>1. /\ Tail(s) \in Seq(S) /\ DOMAIN Tail(s) = 1..Len(s)-1 /\ DOMAIN s = 1..Len(s)
      /\ Len(s) \in Nat \ {0} /\ Head(s) = s[1]
      /\ \A i \in 1..Len(s)-1 : Tail(s)[i] = s[i+1]
  BY HeadTailProperties, LenProperties, EmptySeq
<1> DEFINE n == Len(s) - 1
<1>2. n \in Nat /\ Len(s) = n + 1
  BY <1>1
<1>3. /\ DOMAIN s = 1..n + 1 /\ DOMAIN Tail(s) = 1..n /\ Head(s) = s[1]
      /\ \A i \in 1..n : Tail(s)[i] = s[i + 1]
  BY <1>1, <1>2
<1> HIDE DEF n
<1> QED BY <1>2, <1>3

\* What getting a frame leaves: the frame, that no page in memory has any more.
LEMMA ConseguirBien ==
  ASSUME IndMarcos, ~lleno, EnMano = {}, NEW f \in Frames, Conseguir(f),
         marco' = marco, algoritmo' = algoritmo, EnMano' = {f},
         \A g \in Paginas : Cargada(g)' <=> Cargada(g)
  PROVE  /\ FormaMemoria' /\ EnMemoria'
         /\ \A g \in Paginas : ~pagina[g].presente => ~pagina'[g].presente
<1>1. FormaMemoria
  BY DEF IndMarcos, FormaPaginas
<1>2. Marcos /\ Cola
  BY DEF IndMarcos, EnMemoria
<1>3. CASE FramesLibres # {}
  <2>1. /\ f = Min(FramesLibres) /\ swap' = swap /\ pagina' = pagina /\ historial' = historial
        /\ puntero' = puntero /\ lleno' = lleno
    BY <1>3 DEF Conseguir
  <2>2. f \in FramesLibres
    <3>1. FramesLibres \in SUBSET Nat
      BY ConstantesOK DEF FramesLibres, Frames
    <3> QED BY <3>1, <1>3, <2>1, MinEsta
  <2>3. marco[f].libre
    BY <2>2 DEF FramesLibres
  <2>4. FormaMemoria'
    BY <1>1, <2>1 DEF FormaMemoria
  <2>5. Marcos'
    <3>1. ASSUME NEW g \in Paginas, pagina[g].presente
          PROVE  /\ Cargada(g)' /\ pagina[g].frame \in Frames \ EnMano'
                 /\ ~marco[pagina[g].frame].libre /\ marco[pagina[g].frame].de = g
      BY <1>2, <2>3, <3>1 DEF Marcos
    <3>2. ASSUME NEW e \in Frames \ EnMano', ~marco[e].libre
          PROVE  marco[e].de \in Paginas /\ pagina[marco[e].de].presente /\ pagina[marco[e].de].frame = e
      BY <1>2, <3>2 DEF Marcos
    <3> QED BY <2>1, <3>1, <3>2 DEF Marcos
  <2>6. Cola'
    <3>1. \A i \in DOMAIN historial : historial[i].frame # f
      BY <1>2, <2>3 DEF Cola
    <3> QED BY <1>2, <2>1, <3>1 DEF Cola
  <2> QED BY <2>1, <2>4, <2>5, <2>6 DEF EnMemoria
<1>4. CASE FramesLibres = {}
  <2> DEFINE v == marco[f].de
  <2>1. /\ Victima(f, v) /\ v \in Paginas /\ pagina[v].presente /\ pagina[v].frame = f
        /\ puntero' \in Frames
        /\ algoritmo = "LRU" => /\ f = Head(historial).frame /\ historial' = Tail(historial)
                                /\ historial # <<>>
        /\ algoritmo # "LRU" => historial' = historial
    BY <1>4, SustituirBien
  <2>2. historial' \in Seq([pagina : Paginas, frame : Frames])
    <3>1. historial \in Seq([pagina : Paginas, frame : Frames])
      BY <1>1 DEF FormaMemoria
    <3> QED BY <2>1, <3>1, QuitarSeq
  <2>3. FormaMemoria'
    BY <1>1, <2>1, <2>2 DEF FormaMemoria, Victima
  <2>4. \A g \in Paginas : ~pagina[g].presente => ~pagina'[g].presente
    BY <2>1 DEF Victima
  <2>5. ASSUME ~lleno' PROVE Marcos' /\ Cola'
    <3>1. SwapLibre # {}
      BY <2>1, <2>5 DEF Victima
    <3>2. ~pagina'[v].presente /\ \A g \in Paginas \ {v} :
             pagina'[g].presente = pagina[g].presente /\ pagina'[g].frame = pagina[g].frame
      BY <2>1, <3>1 DEF Victima
    <3>3. Marcos'
      <4>1. ASSUME NEW g \in Paginas, pagina'[g].presente
            PROVE  /\ Cargada(g)' /\ pagina'[g].frame \in Frames \ EnMano'
                   /\ ~marco[pagina'[g].frame].libre /\ marco[pagina'[g].frame].de = g
        BY <1>2, <3>2, <4>1 DEF Marcos
      <4>2. ASSUME NEW e \in Frames \ EnMano', ~marco[e].libre
            PROVE  marco[e].de \in Paginas /\ pagina'[marco[e].de].presente /\ pagina'[marco[e].de].frame = e
        <5>1. /\ marco[e].de \in Paginas /\ pagina[marco[e].de].presente
              /\ pagina[marco[e].de].frame = e
          BY <1>2, <4>2 DEF Marcos
        <5>2. marco[e].de # v
          BY <2>1, <5>1, <4>2
        <5> QED BY <3>2, <5>1, <5>2
      <4> QED BY <4>1, <4>2 DEF Marcos
    <3>4. Cola'
      <4>1. CASE algoritmo = "LRU"
        <5>1. historial \in Seq([pagina : Paginas, frame : Frames])
          BY <1>1 DEF FormaMemoria
        <5>2. PICK n \in Nat : /\ DOMAIN historial = 1..n + 1 /\ DOMAIN historial' = 1..n
                               /\ \A i \in 1..n : historial'[i] = historial[i + 1]
                               /\ f = historial[1].frame
          BY <2>1, <4>1, <5>1, SinPrimero
        <5>3. ASSUME NEW i \in DOMAIN historial'
              PROVE  /\ ~marco[historial'[i].frame].libre
                     /\ historial'[i].pagina = marco[historial'[i].frame].de
                     /\ historial'[i].frame # f
          <6>1. i + 1 \in DOMAIN historial /\ 1 \in DOMAIN historial /\ i + 1 # 1
                /\ historial'[i] = historial[i + 1]
            BY <5>2
          <6> QED BY <6>1, <5>2, <1>2 DEF Cola
        <5>4. ASSUME NEW i \in DOMAIN historial', NEW j \in DOMAIN historial',
                     historial'[i].frame = historial'[j].frame
              PROVE  i = j
          <6>1. i + 1 \in DOMAIN historial /\ j + 1 \in DOMAIN historial
                /\ historial'[i] = historial[i + 1] /\ historial'[j] = historial[j + 1]
            BY <5>2
          <6>2. i + 1 = j + 1
            BY <6>1, <5>4, <1>2 DEF Cola
          <6> QED BY <6>2, <5>2
        <5>5. ASSUME NEW e \in Frames \ {f}, ~marco[e].libre
              PROVE  \E i \in DOMAIN historial' : historial'[i].frame = e
          <6>1. PICK i \in DOMAIN historial : historial[i].frame = e
            BY <1>2, <5>5 DEF Cola
          <6>2. i # 1
            BY <6>1, <5>2, <5>5
          <6>3. i - 1 \in DOMAIN historial' /\ (i - 1) + 1 = i
            BY <5>2, <6>2
          <6> QED BY <5>2, <6>1, <6>3
        <5> QED BY <5>3, <5>4, <5>5 DEF Cola
      <4>2. CASE algoritmo # "LRU"
        BY <1>2, <2>1, <4>2 DEF Cola
      <4> QED BY <4>1, <4>2
    <3> QED BY <3>3, <3>4
  <2> QED BY <2>3, <2>4, <2>5 DEF EnMemoria
<1> QED BY <1>3, <1>4

-----------------------------------------------------------------------------
(* Putting a page in a frame, and using it.                                  *)
Marco == [libre : BOOLEAN, de : Paginas \cup {Ninguna}, dato : Datos]
Entrada == [pagina : Paginas, frame : Frames]
MarcosDistintos(h) == \A i, j \in DOMAIN h : h[i].frame = h[j].frame => i = j

\* The entries of h that are not of the frames of F, each once.
SinMarcos(k, h, F) ==
  /\ k \in Seq(Entrada) /\ MarcosDistintos(k)
  /\ \A i \in DOMAIN k : \E j \in DOMAIN h : k[i] = h[j] /\ h[j].frame \notin F
  /\ \A j \in DOMAIN h : h[j].frame \notin F => \E i \in DOMAIN k : k[i] = h[j]

\* Taking the entries of some frames out of a queue that has each frame once leaves the others.
LEMMA SalvoSinMarcos ==
  ASSUME NEW h \in Seq(Entrada), MarcosDistintos(h), NEW F
  PROVE  SinMarcos(Salvo(h, {i \in DOMAIN h : h[i].frame \in F}), h, F)
<1> DEFINE X == {i \in DOMAIN h : h[i].frame \in F}
           k == Salvo(h, X)
           n == Cardinality(DOMAIN h \ X)
<1> HIDE DEF X, n
<1>1. /\ k \in Seq(Entrada) /\ DOMAIN k = 1..n /\ \E m : Elige(m, h, X)
  BY SalvoElige DEF n
<1>2. PICK m : Elige(m, h, X)
  BY <1>1
<1>3. /\ m \in [1..n -> DOMAIN h \ X] /\ DOMAIN m = 1..n
      /\ \A i \in 1..n : k[i] = h[m[i]]
      /\ \A i, j \in 1..n : m[i] = m[j] => i = j
      /\ \A j \in DOMAIN h \ X : \E i \in 1..n : m[i] = j
  BY <1>2 DEF Elige, n
<1> HIDE DEF k
<1>4. MarcosDistintos(k)
  <2>1. ASSUME NEW i \in 1..n, NEW j \in 1..n, k[i].frame = k[j].frame
        PROVE  i = j
    <3>1. m[i] \in DOMAIN h /\ m[j] \in DOMAIN h /\ h[m[i]].frame = h[m[j]].frame
      BY <1>3, <2>1
    <3>2. m[i] = m[j]
      BY <3>1 DEF MarcosDistintos
    <3> QED BY <3>2, <1>3
  <2> QED BY <1>1, <2>1 DEF MarcosDistintos
<1>5. \A i \in DOMAIN k : \E j \in DOMAIN h : k[i] = h[j] /\ h[j].frame \notin F
  <2>1. ASSUME NEW i \in 1..n PROVE \E j \in DOMAIN h : k[i] = h[j] /\ h[j].frame \notin F
    <3>1. m[i] \in DOMAIN h \ X /\ k[i] = h[m[i]]
      BY <1>3
    <3> QED BY <3>1 DEF X
  <2> QED BY <1>1, <2>1
<1>6. \A j \in DOMAIN h : h[j].frame \notin F => \E i \in DOMAIN k : k[i] = h[j]
  <2>1. ASSUME NEW j \in DOMAIN h, h[j].frame \notin F PROVE \E i \in DOMAIN k : k[i] = h[j]
    <3>1. j \in DOMAIN h \ X
      BY <2>1 DEF X
    <3>2. PICK i \in 1..n : m[i] = j
      BY <3>1, <1>3
    <3> QED BY <3>2, <1>1, <1>3
  <2> QED BY <2>1
<1> QED BY <1>1, <1>4, <1>5, <1>6 DEF SinMarcos, k, X

\* The queue with its entries of a frame replaced by one at the end.
AlFinal(k, h, e) ==
  /\ k \in Seq(Entrada) /\ MarcosDistintos(k)
  /\ \A i \in DOMAIN k : \/ k[i] = e
                         \/ \E j \in DOMAIN h : k[i] = h[j] /\ h[j].frame # e.frame
  /\ \E i \in DOMAIN k : k[i] = e
  /\ \A j \in DOMAIN h : h[j].frame # e.frame => \E i \in DOMAIN k : k[i] = h[j]

\* An entry put at the end of a queue that has none of its frame is the only one of it.
LEMMA AgregarEntrada ==
  ASSUME NEW h, NEW k, NEW e \in Entrada, SinMarcos(k, h, {e.frame})
  PROVE  AlFinal(Append(k, e), h, e)
<1>1. k \in Seq(Entrada)
  BY DEF SinMarcos
<1>2. PICK n \in Nat : Len(k) = n
  BY <1>1, LenProperties
<1> DEFINE a == Append(k, e)
<1>3. /\ a \in Seq(Entrada) /\ DOMAIN a = 1..n + 1 /\ DOMAIN k = 1..n
      /\ \A i \in 1..n + 1 : a[i] = IF i = n + 1 THEN e ELSE k[i]
  BY <1>1, <1>2, AppendProperties, LenProperties
<1> HIDE DEF a
<1>4. \A i \in 1..n : k[i].frame # e.frame
  BY <1>3 DEF SinMarcos
<1>5. MarcosDistintos(a)
  <2>1. ASSUME NEW i \in 1..n + 1, NEW j \in 1..n + 1, a[i].frame = a[j].frame
        PROVE  i = j
    <3>1. CASE i = n + 1
      <4>1. ASSUME j # n + 1 PROVE FALSE
        <5>1. j \in 1..n
          BY <4>1
        <5> QED BY <5>1, <4>1, <3>1, <2>1, <1>3, <1>4
      <4> QED BY <4>1, <3>1
    <3>2. CASE i # n + 1 /\ j = n + 1
      <4>1. i \in 1..n
        BY <3>2
      <4> QED BY <4>1, <3>2, <2>1, <1>3, <1>4
    <3>3. CASE i # n + 1 /\ j # n + 1
      <4>1. i \in 1..n /\ j \in 1..n /\ k[i].frame = k[j].frame
        BY <3>3, <2>1, <1>3
      <4> QED BY <4>1, <1>3 DEF SinMarcos, MarcosDistintos
    <3> QED BY <3>1, <3>2, <3>3
  <2> QED BY <1>3, <2>1 DEF MarcosDistintos
<1>6. ASSUME NEW i \in 1..n + 1
      PROVE  a[i] = e \/ \E j \in DOMAIN h : a[i] = h[j] /\ h[j].frame # e.frame
  <2>1. CASE i = n + 1
    BY <2>1, <1>3
  <2>2. CASE i # n + 1
    <3>1. i \in 1..n /\ a[i] = k[i]
      BY <2>2, <1>3
    <3> QED BY <3>1, <1>3 DEF SinMarcos
  <2> QED BY <2>1, <2>2
<1>7. a[n + 1] = e /\ n + 1 \in 1..n + 1
  BY <1>3
<1>8. ASSUME NEW j \in DOMAIN h, h[j].frame # e.frame
      PROVE  \E i \in DOMAIN a : a[i] = h[j]
  <2>1. PICK i \in 1..n : k[i] = h[j]
    BY <1>3, <1>8 DEF SinMarcos
  <2>2. i \in 1..n + 1 /\ a[i] = k[i]
    BY <1>3
  <2> QED BY <1>3, <2>1, <2>2
<1> QED BY <1>3, <1>5, <1>6, <1>7, <1>8 DEF AlFinal, a

\* What the places of the queue are.
LEMMA EntradasDeCola ==
  ASSUME FormaMemoria
  PROVE  \A i \in DOMAIN historial : historial[i] \in Entrada /\ historial[i].frame \in Frames
<1>1. historial \in Seq(Entrada)
  BY DEF FormaMemoria, Entrada
<1>2. DOMAIN historial = 1..Len(historial) /\ \A i \in 1..Len(historial) : historial[i] \in Entrada
  BY <1>1, LenProperties
<1> QED BY <1>2 DEF Entrada

\* The page that is installed is the last used; LRU had no entry of its frame.
LEMMA AnotarBien ==
  ASSUME NEW h \in Seq(Entrada), MarcosDistintos(h), NEW g \in Paginas, NEW f \in Frames,
         algoritmo = "LRU" => \A i \in DOMAIN h : h[i].frame # f
  PROVE  AlFinal(Anotar(h, g, f), h, [pagina |-> g, frame |-> f])
<1> DEFINE e == [pagina |-> g, frame |-> f]
<1>1. e \in Entrada /\ e.frame = f
  BY DEF Entrada
<1> HIDE DEF e
<1>2. CASE algoritmo = "LRU"
  <2>1. SinMarcos(h, h, {e.frame})
    BY <1>1, <1>2 DEF SinMarcos
  <2>2. Anotar(h, g, f) = Append(h, e)
    BY <1>2 DEF Anotar, e
  <2> QED BY <1>1, <2>1, <2>2, AgregarEntrada DEF e
<1>3. CASE algoritmo # "LRU"
  <2> DEFINE k == Salvo(h, {i \in DOMAIN h : h[i].frame = f})
  <2>1. Anotar(h, g, f) = Append(k, e)
    BY <1>3 DEF Anotar, e
  <2>2. SinMarcos(k, h, {e.frame})
    <3>1. SinMarcos(Salvo(h, {i \in DOMAIN h : h[i].frame \in {f}}), h, {f})
      BY SalvoSinMarcos
    <3>2. {i \in DOMAIN h : h[i].frame \in {f}} = {i \in DOMAIN h : h[i].frame = f}
      OBVIOUS
    <3> QED BY ONLY <3>1, <3>2, <1>1
  <2> HIDE DEF k
  <2> QED BY <1>1, <2>1, <2>2, AgregarEntrada DEF e
<1> QED BY <1>2, <1>3

\* A page that was not in memory is installed in the frame that was got for it.
LEMMA InstalarBien ==
  ASSUME IndMarcos, ~lleno, NEW f \in Frames, EnMano = {f}, EnMano' = {}, NEW g \in Paginas,
         ~pagina[g].presente, NEW r \in TipoPagina, r.presente, r.frame = f,
         pagina' = [pagina EXCEPT ![g] = r], marco' \in [Frames -> Marco],
         \A e \in Frames \ {f} : marco'[e].libre = marco[e].libre /\ marco'[e].de = marco[e].de,
         ~marco'[f].libre, marco'[f].de = g, historial' = Anotar(historial, g, f),
         Cargada(g)', \A h \in Paginas : Cargada(h) => Cargada(h)',
         swap' \in [Swap -> [libre : BOOLEAN, dato : Datos]],
         lleno' = lleno, algoritmo' = algoritmo, puntero' = puntero
  PROVE  FormaMemoria' /\ EnMemoria'
<1>1. FormaMemoria /\ Marcos /\ Cola
  BY DEF IndMarcos, FormaPaginas, EnMemoria
<1> DEFINE e == [pagina |-> g, frame |-> f]
<1>2. AlFinal(historial', historial, e)
  <2>1. historial \in Seq(Entrada) /\ MarcosDistintos(historial)
    BY <1>1 DEF FormaMemoria, Cola, Entrada, MarcosDistintos
  <2>2. algoritmo = "LRU" => \A i \in DOMAIN historial : historial[i].frame # f
    BY <1>1 DEF Cola
  <2> QED BY <2>1, <2>2, AnotarBien
<1>3. e.frame = f /\ e.pagina = g
  OBVIOUS
<1> HIDE DEF e
<1>4. FormaMemoria'
  <2>1. pagina' \in [Paginas -> TipoPagina]
    BY <1>1 DEF FormaMemoria
  <2>2. historial' \in Seq([pagina : Paginas, frame : Frames])
    BY <1>2 DEF AlFinal, Entrada
  <2> QED BY <1>1, <2>1, <2>2 DEF FormaMemoria, Marco
<1>5. pagina'[g] = r /\ \A h \in Paginas \ {g} : pagina'[h] = pagina[h]
  BY <1>1 DEF FormaMemoria
<1>6. Marcos'
  <2>1. ASSUME NEW h \in Paginas, pagina'[h].presente
        PROVE  /\ Cargada(h)' /\ pagina'[h].frame \in Frames \ EnMano'
               /\ ~marco'[pagina'[h].frame].libre /\ marco'[pagina'[h].frame].de = h
    <3>1. CASE h = g
      BY <3>1, <1>5
    <3>2. CASE h # g
      <4>1. pagina'[h] = pagina[h]
        BY <3>2, <1>5
      <4>2. /\ Cargada(h) /\ pagina[h].frame \in Frames \ {f}
            /\ ~marco[pagina[h].frame].libre /\ marco[pagina[h].frame].de = h
        BY <2>1, <4>1, <1>1 DEF Marcos
      <4> QED BY <4>1, <4>2
    <3> QED BY <3>1, <3>2
  <2>2. ASSUME NEW x \in Frames, ~marco'[x].libre
        PROVE  marco'[x].de \in Paginas /\ pagina'[marco'[x].de].presente /\ pagina'[marco'[x].de].frame = x
    <3>1. CASE x = f
      BY <3>1, <1>5
    <3>2. CASE x # f
      <4>1. /\ marco'[x].de = marco[x].de /\ marco[x].de \in Paginas
            /\ pagina[marco[x].de].presente /\ pagina[marco[x].de].frame = x
        BY <2>2, <3>2, <1>1 DEF Marcos
      <4> QED BY <4>1, <1>5
    <3> QED BY <3>1, <3>2
  <2> QED BY <2>1, <2>2 DEF Marcos
<1>7. Cola'
  <2>1. ASSUME NEW i \in DOMAIN historial'
        PROVE  /\ ~marco'[historial'[i].frame].libre
               /\ historial'[i].pagina = marco'[historial'[i].frame].de
    <3>1. CASE historial'[i] = e
      BY <3>1, <1>3
    <3>2. CASE historial'[i] # e
      <4>1. PICK j \in DOMAIN historial : historial'[i] = historial[j] /\ historial[j].frame # f
        BY <3>2, <1>2, <1>3 DEF AlFinal
      <4>2. historial[j].frame \in Frames
        BY <4>1, EntradasDeCola, <1>1
      <4> QED BY <4>1, <4>2, <1>1 DEF Cola
    <3> QED BY <3>1, <3>2
  <2>2. ASSUME NEW x \in Frames, ~marco'[x].libre
        PROVE  \E i \in DOMAIN historial' : historial'[i].frame = x
    <3>1. CASE x = f
      BY <3>1, <1>2, <1>3 DEF AlFinal
    <3>2. CASE x # f
      <4>1. PICK j \in DOMAIN historial : historial[j].frame = x
        BY <2>2, <3>2, <1>1 DEF Cola
      <4> QED BY <4>1, <3>2, <1>2, <1>3 DEF AlFinal
    <3> QED BY <3>1, <3>2
  <2>3. \A i, j \in DOMAIN historial' : historial'[i].frame = historial'[j].frame => i = j
    BY <1>2 DEF AlFinal, MarcosDistintos
  <2> QED BY <2>1, <2>2, <2>3 DEF Cola
<1> QED BY <1>4, <1>6, <1>7 DEF EnMemoria

TipoCurso == [t : Trips \cup {Nadie}, op : Ops \cup {"no"}, pasos : Seq(Accesibles),
              frame : Frames \cup {0}, indice : Nat, tarea : Nat]

\* Whoever has an access to make is a crew, and it is to a page.
LEMMA Cursando ==
  ASSUME FormaCurso, curso.pasos # <<>>
  PROVE  /\ curso.t \in Trips /\ curso.op \in Ops /\ curso # SinCurso
         /\ Pag \in Paginas /\ Head(curso.pasos).modo \in Modos /\ Tail(curso.pasos) \in Seq(Accesibles)
<1>1. curso \in TipoCurso
  BY DEF FormaCurso, TipoCurso
<1>2. curso # SinCurso
  BY DEF SinCurso
<1>3. curso.op # "no" /\ curso.op \in Ops
  BY <1>1, <1>2 DEF FormaCurso, TipoCurso
<1>4. Head(curso.pasos) \in Accesibles /\ Tail(curso.pasos) \in Seq(Accesibles)
  <2>1. curso.pasos \in Seq(Accesibles)
    BY <1>1 DEF TipoCurso
  <2> QED BY <2>1, QuitarSeq
<1> QED BY <1>2, <1>3, <1>4 DEF FormaCurso, Pag, Accesibles

\* The requests stay, and the one that is served does, or ends.
LEMMA PedidosIguales ==
  ASSUME FormaPedidos, esperan' = esperan, aceptadas \subseteq aceptadas',
         \/ curso' = SinCurso
         \/ /\ curso # SinCurso /\ curso'.t = curso.t
            /\ curso'.pasos \in Seq(AccesiblesDe(curso.t[1]))
  PROVE  FormaPedidos'
BY DEF FormaPedidos

\* A task is in pages of its patota.
LEMMA AccesosPropios ==
  ASSUME NEW t \in Trips, NEW n \in Nat
  PROVE  AccesosDeTarea(t, n) \in Seq(AccesiblesDe(t[1]))
<1> DEFINE a == AccesosDeTarea(t, n)
<1>1. PICK p \in Pids : t[1] = p
  BY Pedidas
<1>2. /\ a \in Seq(Accesibles)
      /\ n >= Len(Patotas[p].tareas) => a = << Paso("fin", Campo(t, tid)) >>
      /\ n < Len(Patotas[p].tareas) =>
           \A i \in DOMAIN a : /\ a[i].modo = "usa"
                               /\ \E b \in tam_pcb..InicioTcb[<<p, 1>>] :
                                    a[i].pag = <<p, b \div TAMANIO_PAGINA>>
  BY <1>1, AccesosTareaBien
<1>3. Len(Patotas[p].tareas) \in Nat
  BY Textos
<1> HIDE DEF a
<1>4. CASE n >= Len(Patotas[p].tareas)
  <2>1. Campo(t, tid) \in PaginasDe(p)
    BY <1>1, PaginasDelTcb DEF tid
  <2>2. Paso("fin", Campo(t, tid)) \in AccesiblesDe(p)
    BY <2>1 DEF Paso, AccesiblesDe, Modos
  <2> QED BY <1>1, <1>2, <1>4, <2>2, SMTT(20) DEF a
<1>5. CASE n < Len(Patotas[p].tareas)
  <2>1. Len(a) \in Nat /\ DOMAIN a = 1..Len(a) /\ a \in [1..Len(a) -> Accesibles]
    BY <1>2, LenProperties
  <2>2. ASSUME NEW i \in 1..Len(a) PROVE a[i] \in AccesiblesDe(p)
    <3>1. a[i] \in Accesibles /\ a[i].pag[1] = p
      BY <1>2, <1>5, <2>1
    <3>2. a[i].pag \in PaginasDe(p)
      BY <3>1, NombrePagina DEF Accesibles, PaginasDe
    <3> QED BY <3>1, <3>2 DEF Accesibles, AccesiblesDe
  <2>3. a \in [1..Len(a) -> AccesiblesDe(p)]
    BY <2>1, <2>2
  <2> QED BY <1>1, <2>1, <2>3, SeqDef DEF a
<1> QED BY <1>3, <1>4, <1>5

\* After an access, what is left is still of the crew's patota.
LEMMA AccederPropio ==
  ASSUME FormaCurso, FormaPedidos, curso.pasos # <<>>, NEW marcos, NEW f, Acceder(marcos, f)
  PROVE  curso'.pasos \in Seq(AccesiblesDe(curso.t[1]))
<1>1. curso # SinCurso /\ curso \in TipoCurso /\ curso.t \in Trips /\ curso.tarea \in Nat
  BY Cursando DEF FormaCurso, TipoCurso
<1>2. Tail(curso.pasos) \in Seq(AccesiblesDe(curso.t[1]))
  <2>1. curso.pasos \in Seq(AccesiblesDe(curso.t[1]))
    BY <1>1 DEF FormaPedidos
  <2> QED BY <2>1, QuitarSeq
<1>3. Hecho.pasos = Tail(curso.pasos) /\ DOMAIN Hecho = DOMAIN curso
  BY <1>1 DEF Hecho, TipoCurso
<1>4. \/ curso'.pasos = Hecho.pasos
      \/ curso'.pasos = AccesosDeTarea(curso.t, curso.tarea)
  BY <1>1, <1>3 DEF Acceder, TipoCurso, Hecho
<1> QED BY <1>1, <1>2, <1>3, <1>4, AccesosPropios

\* An access changes the next task of a crew at most, and what is left to do.
LEMMA AccederBien ==
  ASSUME FormaCurso, curso.pasos # <<>>, NEW marcos \in [Frames -> Marco], NEW f \in Frames,
         Acceder(marcos, f)
  PROVE  /\ marco' \in [Frames -> Marco]
         /\ \A e \in Frames : /\ marco'[e].libre = marcos[e].libre /\ marco'[e].de = marcos[e].de
                              /\ marco'[e].dato.de = marcos[e].dato.de
         /\ curso' \in TipoCurso /\ curso'.op = curso.op /\ curso'.t = curso.t
         /\ curso'.frame = 0 /\ curso'.indice = 0
<1>1. curso \in TipoCurso
  BY DEF FormaCurso, TipoCurso
<1>2. curso.t \in Trips /\ Tail(curso.pasos) \in Seq(Accesibles)
  BY Cursando
<1>3. Hecho \in TipoCurso /\ Hecho.op = curso.op /\ Hecho.t = curso.t
      /\ Hecho.frame = 0 /\ Hecho.indice = 0 /\ Hecho = [curso EXCEPT !.pasos = Tail(curso.pasos), !.frame = 0, !.indice = 0]
  BY <1>1, <1>2 DEF Hecho, TipoCurso
<1>4. PICK m \in Marco : m = marcos[f]
  OBVIOUS
<1>5. /\ marcos[f].dato.prox[curso.t] \in Nat /\ m.dato \in Datos /\ m.dato.prox \in [Trips -> Nat]
  BY <1>2, <1>4 DEF Marco, Datos
<1>6. CASE Head(curso.pasos).modo = "avanza"
  <2>1. marco' = Avanzar(marcos, f)
    BY <1>6 DEF Acceder
  <2>2. PICK n \in Nat : n = curso.tarea + 1 /\ curso.tarea \in Nat
    BY <1>1 DEF TipoCurso
  <2>3. marco' = [marcos EXCEPT ![f].dato.prox[curso.t] = n]
    BY <2>1, <2>2 DEF Avanzar
  <2> DEFINE q == [m.dato.prox EXCEPT ![curso.t] = n]
             d == [m.dato EXCEPT !.prox = q]
             r == [m EXCEPT !.dato = d]
  <2>4. marco' = [marcos EXCEPT ![f] = r]
    BY <2>3, <1>4
  <2>5. q \in [Trips -> Nat]
    BY <1>5
  <2> HIDE DEF q
  <2>6. d \in Datos /\ d.de = m.dato.de
    BY <1>5, <2>5 DEF Datos
  <2> HIDE DEF d
  <2>7. r \in Marco /\ r.libre = m.libre /\ r.de = m.de /\ r.dato = d
    BY <1>4, <2>6 DEF Marco
  <2> HIDE DEF r
  <2>8. /\ marco' \in [Frames -> Marco]
        /\ \A e \in Frames : /\ marco'[e].libre = marcos[e].libre /\ marco'[e].de = marcos[e].de
                             /\ marco'[e].dato.de = marcos[e].dato.de
    BY <1>4, <2>4, <2>6, <2>7
  <2>9. curso' = [Hecho EXCEPT !.pasos = AccesosDeTarea(curso.t, curso.tarea)]
    BY <1>6 DEF Acceder
  <2>10. AccesosDeTarea(curso.t, curso.tarea) \in Seq(Accesibles)
    BY <1>2, <2>2, AccesosTareaBien
  <2>11. /\ curso' \in TipoCurso /\ curso'.op = curso.op /\ curso'.t = curso.t
         /\ curso'.frame = 0 /\ curso'.indice = 0
    BY <1>3, <2>9, <2>10 DEF TipoCurso
  <2> QED BY <2>8, <2>11
<1>7. CASE Head(curso.pasos).modo # "avanza"
  <2>1. marco' = marcos
    BY <1>7 DEF Acceder
  <2>2. CASE Head(curso.pasos).modo = "tarea"
    <3>1. curso' = [Hecho EXCEPT !.tarea = marcos[f].dato.prox[curso.t]]
      BY <2>2 DEF Acceder
    <3> QED BY <1>3, <1>5, <2>1, <3>1 DEF TipoCurso
  <2>3. CASE Head(curso.pasos).modo # "tarea"
    <3>1. curso' = Hecho
      BY <1>7, <2>3 DEF Acceder
    <3> QED BY <1>3, <2>1, <3>1
  <2> QED BY <2>2, <2>3
<1> QED BY <1>6, <1>7

\* The entry of a page that is used goes to the end of the queue.
LEMMA UsarBien ==
  ASSUME IndMarcos, ~lleno, EnMano = {}, EnMano' = {}, NEW i \in DOMAIN historial,
         historial' = Append(Salvo(historial, {i}), historial[i]),
         NEW g \in Paginas, pagina' = [pagina EXCEPT ![g].uso = TRUE],
         marco' \in [Frames -> Marco],
         \A e \in Frames : marco'[e].libre = marco[e].libre /\ marco'[e].de = marco[e].de,
         \A h \in Paginas : Cargada(h)' <=> Cargada(h),
         swap' = swap, lleno' = lleno, algoritmo' = algoritmo, puntero' = puntero
  PROVE  FormaMemoria' /\ EnMemoria'
<1>1. FormaMemoria /\ Marcos /\ Cola
  BY DEF IndMarcos, FormaPaginas, EnMemoria
<1>2. historial \in Seq(Entrada) /\ MarcosDistintos(historial)
  BY <1>1 DEF FormaMemoria, Cola, Entrada, MarcosDistintos
<1> DEFINE x == historial[i]
<1>3. x \in Entrada
  BY <1>1, EntradasDeCola
<1>4. AlFinal(historial', historial, x)
  <2>1. {j \in DOMAIN historial : historial[j].frame \in {x.frame}} = {i}
    BY <1>2 DEF MarcosDistintos
  <2> HIDE DEF x
  <2>2. SinMarcos(Salvo(historial, {j \in DOMAIN historial : historial[j].frame \in {x.frame}}),
                  historial, {x.frame})
    BY <1>2, SalvoSinMarcos
  <2>3. SinMarcos(Salvo(historial, {i}), historial, {x.frame})
    BY ONLY <2>1, <2>2
  <2> QED BY <1>3, <2>3, AgregarEntrada DEF x
<1>5. ASSUME NEW j \in DOMAIN historial'
      PROVE  \E k \in DOMAIN historial : historial'[j] = historial[k]
  BY <1>4 DEF AlFinal
<1>6. ASSUME NEW k \in DOMAIN historial
      PROVE  \E j \in DOMAIN historial' : historial'[j].frame = historial[k].frame
  BY <1>4, ZenonT(40) DEF AlFinal
<1>7. /\ pagina' \in [Paginas -> TipoPagina]
      /\ \A h \in Paginas : /\ pagina'[h].presente = pagina[h].presente
                            /\ pagina'[h].frame = pagina[h].frame
  <2> DEFINE r == [pagina[g] EXCEPT !.uso = TRUE]
  <2>1. pagina' = [pagina EXCEPT ![g] = r]
    OBVIOUS
  <2>2. PICK y \in TipoPagina : y = pagina[g]
    BY <1>1 DEF FormaMemoria
  <2>3. r \in TipoPagina /\ r.presente = y.presente /\ r.frame = y.frame
    BY <2>2 DEF TipoPagina
  <2> HIDE DEF r
  <2> QED BY <2>1, <2>2, <2>3, <1>1 DEF FormaMemoria
<1>8. FormaMemoria'
  <2>1. historial' \in Seq([pagina : Paginas, frame : Frames])
    BY <1>4 DEF AlFinal, Entrada
  <2> QED BY <1>1, <1>7, <2>1 DEF FormaMemoria, Marco
<1>9. Marcos'
  BY <1>1, <1>7 DEF Marcos
<1>10. Cola'
  <2>1. ASSUME NEW j \in DOMAIN historial'
        PROVE  /\ ~marco'[historial'[j].frame].libre
               /\ historial'[j].pagina = marco'[historial'[j].frame].de
    <3>1. PICK k \in DOMAIN historial : historial'[j] = historial[k]
      BY <1>5
    <3>2. historial[k].frame \in Frames
      BY <1>1, EntradasDeCola
    <3> QED BY <3>1, <3>2, <1>1 DEF Cola
  <2>2. ASSUME NEW f \in Frames, ~marco'[f].libre
        PROVE  \E j \in DOMAIN historial' : historial'[j].frame = f
    <3>1. PICK k \in DOMAIN historial : historial[k].frame = f
      BY <2>2, <1>1 DEF Cola
    <3> QED BY <3>1, <1>6
  <2>3. \A j, k \in DOMAIN historial' : historial'[j].frame = historial'[k].frame => j = k
    BY <1>4 DEF AlFinal, MarcosDistintos
  <2> QED BY <2>1, <2>2, <2>3 DEF Cola
<1> QED BY <1>8, <1>9, <1>10 DEF EnMemoria

-----------------------------------------------------------------------------
(* A crew leaves.                                                            *)

\* The entries that go are those of the frames that are let go.
LEMMA EntradasQueSalen ==
  ASSUME IndMarcos, ~lleno, EnMano = {}, NEW G \in SUBSET Paginas, \A g \in G : pagina[g].presente
  PROVE  LET F == {pagina[g].frame : g \in G}
             primeras == {Min(Entradas(g)) : g \in G}
         IN /\ primeras = {i \in DOMAIN historial : historial[i].frame \in F}
            /\ {historial[i].frame : i \in primeras} = F
            /\ F \subseteq Frames /\ \A g \in G : Entradas(g) # {}
<1> DEFINE F == {pagina[g].frame : g \in G}
           primeras == {Min(Entradas(g)) : g \in G}
<1>1. FormaMemoria /\ Marcos /\ Cola
  BY DEF IndMarcos, FormaPaginas, EnMemoria
<1>2. ASSUME NEW g \in G
      PROVE  /\ pagina[g].frame \in Frames
             /\ \E i \in DOMAIN historial : Entradas(g) = {i} /\ Min(Entradas(g)) = i
                                            /\ historial[i].frame = pagina[g].frame
  <2>1. /\ pagina[g].frame \in Frames /\ ~marco[pagina[g].frame].libre
        /\ marco[pagina[g].frame].de = g
    BY <1>1 DEF Marcos
  <2>2. PICK i \in DOMAIN historial : historial[i].frame = pagina[g].frame
    BY <1>1, <2>1 DEF Cola
  <2>3. i \in Entradas(g)
    BY <2>1, <2>2 DEF Entradas
  <2>4. ASSUME NEW j \in Entradas(g) PROVE j = i
    <3>1. j \in DOMAIN historial /\ marco[historial[j].frame].de = g
      BY DEF Entradas
    <3>2. ~marco[historial[j].frame].libre /\ historial[j].frame \in Frames
      BY <1>1, <3>1, EntradasDeCola DEF Cola
    <3>3. pagina[g].frame = historial[j].frame
      BY <1>1, <3>1, <3>2 DEF Marcos
    <3> QED BY <1>1, <2>2, <3>1, <3>3 DEF Cola
  <2>5. Entradas(g) = {i}
    BY <2>3, <2>4
  <2>6. i \in Nat
    <3>1. historial \in Seq(Entrada)
      BY <1>1 DEF FormaMemoria, Entrada
    <3> QED BY <3>1, LenProperties
  <2>7. Min({i}) = i
    <3>1. {i} \in SUBSET Nat /\ {i} # {}
      BY <2>6
    <3>2. Min({i}) \in {i}
      BY ONLY <3>1, MinEsta
    <3> QED BY <3>2
  <2> QED BY <2>1, <2>2, <2>5, <2>7
<1>3. F \subseteq Frames /\ \A g \in G : Entradas(g) # {}
  BY <1>2
<1>4. ASSUME NEW x \in primeras
      PROVE  x \in DOMAIN historial /\ historial[x].frame \in F
  BY <1>2
<1>5. ASSUME NEW x \in DOMAIN historial, historial[x].frame \in F
      PROVE  x \in primeras
  <2>1. PICK g \in G : pagina[g].frame = historial[x].frame
    BY <1>5
  <2>2. PICK i \in DOMAIN historial : Min(Entradas(g)) = i /\ historial[i].frame = pagina[g].frame
    BY <1>2
  <2>3. i = x
    BY <1>1, <2>1, <2>2 DEF Cola
  <2> QED BY <2>2, <2>3
<1>6. primeras = {i \in DOMAIN historial : historial[i].frame \in F}
  BY <1>4, <1>5
<1>7. {historial[i].frame : i \in primeras} = F
  <2>1. \A i \in primeras : historial[i].frame \in F
    BY <1>4
  <2>2. \A g \in G : \E i \in primeras : historial[i].frame = pagina[g].frame
    BY <1>2
  <2> QED BY <2>1, <2>2
<1> QED BY <1>3, <1>6, <1>7

\* The bytes of a page that a crew has.
LEMMA BytesDelTcb ==
  ASSUME NEW t \in Trips, NEW g
  PROVE  BytesTcb(t, g) \in Nat
<1> DEFINE B == {b \in InicioTcb[t]..InicioTcb[t] + tam_tcb - 1 : g[2] = b \div TAMANIO_PAGINA}
<1>1. IsFiniteSet(InicioTcb[t]..InicioTcb[t] + tam_tcb - 1)
  BY Tamanios, FS_Interval, SMTT(20) DEF tam_tcb
<1>2. B \subseteq InicioTcb[t]..InicioTcb[t] + tam_tcb - 1
  OBVIOUS
<1>3. BytesTcb(t, g) = Cardinality(B)
  BY DEF BytesTcb
<1> HIDE DEF B
<1> QED BY <1>1, <1>2, <1>3, FS_Subset, FS_CardinalityType

\* What leaving does to the pages, when no pointer was null.
Suelta(t) ==
  /\ UNCHANGED <<puntero, lleno, caida>>
  /\ marco' = [f \in Frames |-> [marco[f] EXCEPT !.libre = @ \/ \E g \in SueltaMarco(t) : pagina[g].frame = f]]
  /\ swap' = [s \in Swap |-> [swap[s] EXCEPT !.libre = @ \/ \E g \in SueltaSwap(t) : pagina[g].swap = s]]
  /\ pagina' = [g \in Paginas |-> [pagina[g] EXCEPT !.presente = @ /\ g \notin SueltaMarco(t),
                                                    !.usados = SinUsados(t)[g]]]
  /\ SinMarcos(historial', historial, {pagina[g].frame : g \in SueltaMarco(t)})
  /\ vivos' = [vivos EXCEPT ![t[1]] = @ - 1] /\ patotas' = Tablas(t)
  /\ perdidos' = perdidos \cup {pagina[g].swap : g \in PierdeSwap(t)}
  /\ idos' = idos \cup {t}
  /\ \A g \in SueltaSwap(t) : pagina[g].swap # 0

\* expulsar_tripulante_paginacion falls on a page with no place in swap, or lets go what
\* Suelta says: every page in memory has its entry in the queue.
LEMMA SoltarEs ==
  ASSUME IndMarcos, ~lleno, EnMano = {}, NEW t \in Trips, SoltarTripulante(t)
  PROVE  \/ caida' = TRUE /\ UNCHANGED <<memoria, tablas, idos, perdidos>>
         \/ Suelta(t)
<1>1. FormaMemoria /\ Cola
  BY DEF IndMarcos, FormaPaginas, EnMemoria
<1> DEFINE G == SueltaMarco(t)
           F == {pagina[g].frame : g \in G}
           primeras == {Min(Entradas(g)) : g \in G}
<1>2. G \in SUBSET Paginas /\ \A g \in G : pagina[g].presente
  BY PaginasDelTcb DEF SueltaMarco
<1>3. /\ primeras = {i \in DOMAIN historial : historial[i].frame \in F}
      /\ {historial[i].frame : i \in primeras} = F
      /\ \A g \in G : Entradas(g) # {}
  <2> HIDE DEF G
  <2> QED BY <1>2, EntradasQueSalen
<1>4. historial \in Seq(Entrada) /\ MarcosDistintos(historial)
  BY <1>1 DEF FormaMemoria, Entrada, Cola, MarcosDistintos
<1>5. SinMarcos(Salvo(historial, primeras), historial, F)
  <2> HIDE DEF F, primeras
  <2>1. SinMarcos(Salvo(historial, {i \in DOMAIN historial : historial[i].frame \in F}), historial, F)
    BY <1>4, SalvoSinMarcos
  <2> QED BY ONLY <1>3, <2>1
<1>6. CASE \E g \in SueltaSwap(t) : pagina[g].swap = 0
  BY <1>6 DEF SoltarTripulante
<1>7. CASE \A g \in SueltaSwap(t) : pagina[g].swap # 0
  <2>1. ~(\/ \E g \in SueltaMarco(t) : Entradas(g) = {}
          \/ \E g \in SueltaSwap(t) : pagina[g].swap = 0)
    BY <1>3, <1>7
  <2>2. /\ marco' = [f \in Frames |-> [marco[f] EXCEPT !.libre = @ \/ f \in {historial[i].frame : i \in primeras}]]
        /\ swap' = [s \in Swap |-> [swap[s] EXCEPT !.libre = @ \/ \E g \in SueltaSwap(t) : pagina[g].swap = s]]
        /\ pagina' = [g \in Paginas |-> [pagina[g] EXCEPT !.presente = @ /\ g \notin SueltaMarco(t),
                                                          !.usados = SinUsados(t)[g]]]
        /\ historial' = Salvo(historial, primeras)
        /\ vivos' = [vivos EXCEPT ![t[1]] = @ - 1]
        /\ patotas' = Tablas(t)
        /\ perdidos' = perdidos \cup {pagina[g].swap : g \in PierdeSwap(t)}
        /\ idos' = idos \cup {t}
        /\ UNCHANGED <<puntero, lleno, caida>>
    BY ONLY <2>1, SoltarTripulante(t) DEF SoltarTripulante
  <2>3. marco' = [f \in Frames |-> [marco[f] EXCEPT !.libre = @ \/ f \in F]]
    <3> HIDE DEF F, primeras
    <3> QED BY ONLY <2>2, <1>3
  <2>4. \A f : f \in F <=> \E g \in SueltaMarco(t) : pagina[g].frame = f
    OBVIOUS
  <2>5. marco' = [f \in Frames |-> [marco[f] EXCEPT !.libre = @ \/ \E g \in SueltaMarco(t) : pagina[g].frame = f]]
    <3> HIDE DEF F
    <3> QED BY ONLY <2>3, <2>4
  <2>6. SinMarcos(historial', historial, {pagina[g].frame : g \in SueltaMarco(t)})
    <3>1. SinMarcos(historial', historial, F)
      <4> HIDE DEF F, primeras
      <4> QED BY ONLY <1>5, <2>2
    <3> QED BY <3>1
  <2> QED BY ONLY <2>2, <2>5, <2>6, <1>7 DEF Suelta
<1> QED BY <1>6, <1>7

\* The frames that are let go, with their entries, are the pages' that leave memory.
LEMMA SoltarBien ==
  ASSUME IndMarcos, ~lleno, EnMano = {}, EnMano' = {}, NEW t \in Trips, Suelta(t),
         algoritmo' = algoritmo, \A g \in Paginas : Cargada(g)' <=> Cargada(g)
  PROVE  FormaMemoria' /\ EnMemoria'
<1>1. FormaMemoria /\ Marcos /\ Cola
  BY DEF IndMarcos, FormaPaginas, EnMemoria
<1> DEFINE G == SueltaMarco(t)
           F == {pagina[g].frame : g \in G}
<1>2. G \in SUBSET Paginas /\ \A g \in G : pagina[g].presente
  BY PaginasDelTcb DEF SueltaMarco
<1>3. ASSUME NEW f \in Frames
      PROVE  /\ marco'[f] \in Marco
             /\ marco'[f].libre = (marco[f].libre \/ f \in F) /\ marco'[f].de = marco[f].de
  <2>1. PICK x \in Marco : x = marco[f]
    BY <1>1 DEF FormaMemoria, Marco
  <2>2. PICK v \in BOOLEAN : v = (x.libre \/ f \in F)
    OBVIOUS
  <2>3. marco'[f] = [x EXCEPT !.libre = v]
    <3>1. marco'[f] = [marco[f] EXCEPT !.libre = marco[f].libre \/ \E g \in SueltaMarco(t) : pagina[g].frame = f]
      BY DEF Suelta
    <3>2. v = (marco[f].libre \/ \E g \in SueltaMarco(t) : pagina[g].frame = f)
      BY <2>1, <2>2
    <3> QED BY ONLY <2>1, <3>1, <3>2
  <2> HIDE DEF F
  <2> QED BY <2>1, <2>2, <2>3 DEF Marco
<1>4. ASSUME NEW s \in Swap PROVE swap'[s] \in [libre : BOOLEAN, dato : Datos]
  <2>1. PICK x \in [libre : BOOLEAN, dato : Datos] : x = swap[s]
    BY <1>1 DEF FormaMemoria
  <2>2. PICK v \in BOOLEAN : v = (x.libre \/ \E g \in SueltaSwap(t) : pagina[g].swap = s)
    OBVIOUS
  <2>3. swap'[s] = [x EXCEPT !.libre = v]
    BY <2>1, <2>2 DEF Suelta
  <2> QED BY <2>1, <2>2, <2>3
<1>5. ASSUME NEW g \in Paginas
      PROVE  /\ pagina'[g] \in TipoPagina /\ pagina'[g].frame = pagina[g].frame
             /\ pagina'[g].presente = (pagina[g].presente /\ g \notin G)
  <2>1. PICK x \in TipoPagina : x = pagina[g]
    BY <1>1 DEF FormaMemoria
  <2>2. PICK v \in BOOLEAN : v = (x.presente /\ g \notin G)
    OBVIOUS
  <2>3. SinUsados(t)[g] \in Int
    <3>1. x.usados \in Int /\ BytesTcb(t, g) \in Nat
      BY <2>1, BytesDelTcb DEF TipoPagina
    <3>2. SinUsados(t)[g] = IF g[1] = t[1] THEN x.usados - BytesTcb(t, g) ELSE x.usados
      BY <2>1 DEF SinUsados
    <3> QED BY <3>1, <3>2
  <2>4. PICK u \in Int : u = SinUsados(t)[g]
    BY <2>3
  <2>5. pagina'[g] = [x EXCEPT !.presente = v, !.usados = u]
    BY <2>1, <2>2, <2>4 DEF Suelta
  <2> HIDE DEF G
  <2> QED BY <2>1, <2>2, <2>5 DEF TipoPagina
<1>6. SinMarcos(historial', historial, F)
  BY DEF Suelta
<1>7. FormaMemoria'
  <2>1. marco' \in [Frames -> Marco] /\ DOMAIN marco' = Frames
    BY <1>3 DEF Suelta
  <2>2. swap' \in [Swap -> [libre : BOOLEAN, dato : Datos]]
    BY <1>4 DEF Suelta
  <2>3. pagina' \in [Paginas -> TipoPagina]
    BY <1>5 DEF Suelta
  <2>4. historial' \in Seq([pagina : Paginas, frame : Frames])
    BY <1>6 DEF SinMarcos, Entrada
  <2>5. puntero' = puntero /\ lleno' = lleno
    BY DEF Suelta
  <2> QED BY <1>1, <2>1, <2>2, <2>3, <2>4, <2>5 DEF FormaMemoria, Marco
<1>8. ASSUME NEW g \in Paginas, pagina[g].presente, pagina[g].frame \in F PROVE g \in G
  <2>1. PICK h \in G : pagina[h].frame = pagina[g].frame
    BY <1>8
  <2>2. h \in Paginas /\ pagina[h].presente
    BY <1>2
  <2> QED BY <1>1, <1>8, <2>1, <2>2 DEF Marcos
<1> HIDE DEF F, G
<1>9. Marcos'
  <2>1. ASSUME NEW g \in Paginas, pagina'[g].presente
        PROVE  /\ Cargada(g)' /\ pagina'[g].frame \in Frames \ EnMano'
               /\ ~marco'[pagina'[g].frame].libre /\ marco'[pagina'[g].frame].de = g
    <3>1. pagina[g].presente /\ g \notin G /\ pagina'[g].frame = pagina[g].frame
      BY <1>5, <2>1
    <3>2. Cargada(g) /\ pagina[g].frame \in Frames
          /\ ~marco[pagina[g].frame].libre /\ marco[pagina[g].frame].de = g
      BY <1>1, <3>1 DEF Marcos
    <3>3. pagina[g].frame \notin F
      BY <1>8, <3>1
    <3> QED BY <1>3, <3>1, <3>2, <3>3
  <2>2. ASSUME NEW f \in Frames, ~marco'[f].libre
        PROVE  marco'[f].de \in Paginas /\ pagina'[marco'[f].de].presente /\ pagina'[marco'[f].de].frame = f
    <3>1. ~marco[f].libre /\ f \notin F /\ marco'[f].de = marco[f].de
      BY <1>3, <2>2
    <3>2. marco[f].de \in Paginas /\ pagina[marco[f].de].presente /\ pagina[marco[f].de].frame = f
      BY <1>1, <3>1 DEF Marcos
    <3>3. marco[f].de \notin G
      BY <3>1, <3>2 DEF F
    <3> QED BY <1>5, <3>1, <3>2, <3>3
  <2> QED BY <2>1, <2>2 DEF Marcos
<1>10. Cola'
  <2>1. ASSUME NEW i \in DOMAIN historial'
        PROVE  /\ ~marco'[historial'[i].frame].libre
               /\ historial'[i].pagina = marco'[historial'[i].frame].de
    <3>1. PICK j \in DOMAIN historial : historial'[i] = historial[j] /\ historial[j].frame \notin F
      BY <1>6 DEF SinMarcos
    <3>2. PICK f \in Frames : f = historial[j].frame
      BY <1>1, EntradasDeCola
    <3>3. ~marco[f].libre /\ historial[j].pagina = marco[f].de
      BY <1>1, <3>2 DEF Cola
    <3>4. ~marco'[f].libre /\ marco'[f].de = marco[f].de
      BY <1>3, <3>1, <3>2, <3>3
    <3> QED BY <3>1, <3>2, <3>3, <3>4
  <2>2. ASSUME NEW f \in Frames, ~marco'[f].libre
        PROVE  \E i \in DOMAIN historial' : historial'[i].frame = f
    <3>1. ~marco[f].libre /\ f \notin F
      BY <1>3, <2>2
    <3>2. PICK j \in DOMAIN historial : historial[j].frame = f
      BY <1>1, <3>1 DEF Cola
    <3> QED BY <1>6, <3>1, <3>2 DEF SinMarcos
  <2>3. \A i, j \in DOMAIN historial' : historial'[i].frame = historial'[j].frame => i = j
    BY <1>6 DEF SinMarcos, MarcosDistintos
  <2> QED BY <2>1, <2>2, <2>3 DEF Cola
<1> QED BY <1>7, <1>9, <1>10 DEF EnMemoria

-----------------------------------------------------------------------------
(* The invariant of the frames, action by action.                            *)

\* Who has a frame: the patota being loaded, or the request being served, never both.
LEMMA ManosLibres ==
  ASSUME FormaPaginas
  PROVE  /\ ini = SinAlta => ini.pid = 0 /\ ini.frame = 0 /\ EnMano = {curso.frame} \ {0}
         /\ ini # SinAlta => ini.pid \in Pids /\ curso = SinCurso /\ EnMano = {ini.frame} \ {0}
         /\ curso # SinCurso => ini = SinAlta
         /\ curso = SinCurso => curso.frame = 0 /\ curso.indice = 0 /\ curso.pasos = <<>>
         /\ 0 \notin Frames
<1>1. SinAlta.pid = 0 /\ SinAlta.frame = 0
  BY DEF SinAlta
<1>2. SinCurso.frame = 0 /\ SinCurso.indice = 0 /\ SinCurso.pasos = <<>>
  BY DEF SinCurso
<1>3. ini # SinAlta => ini.pid \in Pids /\ curso = SinCurso
  BY DEF FormaPaginas, FormaAlta
<1> QED BY <1>1, <1>2, <1>3 DEF EnMano, Frames

\* Nobody is served while a patota comes.
LEMMA SinPedidosNuevos ==
  ASSUME FormaPedidos, curso = SinCurso, UNCHANGED <<curso, esperan>>, aceptadas \subseteq aceptadas'
  PROVE  FormaPedidos'
BY PedidosIguales

\* Nothing happens to the memory.
LEMMA MemoriaIgual ==
  ASSUME IndMarcos, UNCHANGED <<algoritmo, memoria>>, EnMano' = EnMano,
         \A g \in Paginas : Cargada(g) => Cargada(g)'
  PROVE  FormaMemoria' /\ EnMemoria'
<1>1. /\ marco' = marco /\ swap' = swap /\ pagina' = pagina /\ historial' = historial
      /\ puntero' = puntero /\ lleno' = lleno /\ algoritmo' = algoritmo
  BY DEF memoria
<1>2. FormaMemoria'
  BY <1>1 DEF IndMarcos, FormaPaginas, FormaMemoria
<1>3. EnMemoria'
  BY <1>1 DEF IndMarcos, EnMemoria, Marcos, Cola
<1> QED BY <1>2, <1>3

\* No page of the patota that comes is loaded.
LEMMA RecibirMarcos ==
  ASSUME IndMarcos, ~Solapadas, RecibirPatota
  PROVE  IndMarcos'
<1> DEFINE p == recibidas + 1
<1>1. /\ ini = SinAlta /\ recibidas < Len(Patotas) /\ recibidas' = p
      /\ UNCHANGED <<algoritmo, memoria, curso, esperan>>
      /\ \/ aceptadas' = aceptadas \cup {p} /\ ini' = [SinAlta EXCEPT !.pid = p]
         \/ aceptadas' = aceptadas /\ ini' = ini
  BY DEF RecibirPatota, TablaDePatotasLibre
<1>2. curso = SinCurso
  BY DEF RecibirPatota, NadieReemplaza
<1>3. /\ recibidas \in 0..Len(Patotas) /\ aceptadas \subseteq 1..recibidas
      /\ ini \in [pid : Pids \cup {0}, sigue : Nat, frame : Frames \cup {0}]
  BY DEF IndMarcos, FormaPaginas, FormaAlta
<1>4. p \in Pids /\ p \in 1..Len(Patotas) /\ p \notin aceptadas /\ p # 0
  BY <1>1, <1>3, Pedidas
<1>5. CantPaginas[p] \in Nat \ {0}
  BY <1>4, Tamanios
<1> HIDE DEF p
<1>6. CASE aceptadas' = aceptadas \cup {p} /\ ini' = [SinAlta EXCEPT !.pid = p]
  <2>1. ini' = [pid |-> p, sigue |-> 0, frame |-> 0]
    BY <1>6 DEF SinAlta
  <2>2. FormaAlta'
    BY <1>1, <1>2, <1>3, <1>4, <1>5, <1>6, <2>1 DEF FormaAlta, p
  <2>3. EnMano' = EnMano
    BY <1>1, <2>1 DEF EnMano, SinAlta
  <2>4. \A g \in Paginas : Cargada(g) => Cargada(g)'
    BY <1>4, <1>6, <2>1 DEF Cargada
  <2>5. FormaCurso'
    BY <1>1 DEF IndMarcos, FormaPaginas, FormaCurso, memoria, Pag
  <2>6. FormaPedidos'
    BY <1>1, <1>2, <1>6, SinPedidosNuevos DEF IndMarcos, FormaPaginas
  <2> QED BY <1>1, <2>2, <2>3, <2>4, <2>5, <2>6, MemoriaIgual DEF IndMarcos, FormaPaginas
<1>7. CASE aceptadas' = aceptadas /\ ini' = ini
  <2>1. FormaAlta'
    BY <1>1, <1>2, <1>3, <1>7, <1>4 DEF FormaAlta, p, SinAlta
  <2>2. EnMano' = EnMano
    BY <1>1, <1>7 DEF EnMano
  <2>3. \A g \in Paginas : Cargada(g) => Cargada(g)'
    BY <1>7 DEF Cargada
  <2>4. FormaCurso'
    BY <1>1 DEF IndMarcos, FormaPaginas, FormaCurso, memoria, Pag
  <2>5. FormaPedidos'
    BY <1>1, <1>2, <1>7, SinPedidosNuevos DEF IndMarcos, FormaPaginas
  <2> QED BY <1>1, <2>1, <2>2, <2>3, <2>4, <2>5, MemoriaIgual DEF IndMarcos, FormaPaginas
<1> QED BY <1>1, <1>6, <1>7

\* The patota being loaded gets a frame, that no page in memory has any more.
LEMMA ConseguirAltaMarcos ==
  ASSUME IndMarcos, ConseguirParaAlta
  PROVE  IndMarcos'
<1>1. PICK f \in Frames :
        /\ ~lleno /\ ini # SinAlta /\ ini.frame = 0 /\ Conseguir(f) /\ ini' = [ini EXCEPT !.frame = f]
        /\ UNCHANGED <<algoritmo, marco, recibidas, aceptadas, curso, esperan>>
  BY DEF ConseguirParaAlta, Andando
<1>2. FormaMemoria /\ FormaAlta /\ FormaCurso /\ FormaPedidos
  BY DEF IndMarcos, FormaPaginas
<1>3. /\ ini.pid \in Pids /\ curso = SinCurso /\ EnMano = {} /\ 0 \notin Frames
      /\ curso.frame = 0 /\ curso.indice = 0
  BY <1>1, ManosLibres DEF IndMarcos
<1>4. ini'.pid = ini.pid /\ ini'.sigue = ini.sigue /\ ini'.frame = f
      /\ ini' \in [pid : Pids \cup {0}, sigue : Nat, frame : Frames \cup {0}]
  BY <1>1, <1>2 DEF FormaAlta
<1>5. FormaAlta'
  BY <1>1, <1>2, <1>3, <1>4, Pedidas DEF FormaAlta
<1>6. EnMano' = {f}
  BY <1>1, <1>3, <1>4 DEF EnMano
<1>7. \A g \in Paginas : Cargada(g)' <=> Cargada(g)
  BY <1>1, <1>4 DEF Cargada
<1>8. FormaMemoria' /\ EnMemoria'
  BY <1>1, <1>3, <1>6, <1>7, ConseguirBien
<1>9. FormaCurso'
  BY <1>1, <1>2, <1>3 DEF FormaCurso
<1>10. FormaPedidos'
  BY <1>1, <1>2, <1>3, SinPedidosNuevos
<1> QED BY <1>5, <1>8, <1>9, <1>10 DEF IndMarcos, FormaPaginas

\* Its next page is put in the frame it got.
LEMMA InstalarAltaMarcos ==
  ASSUME IndMarcos, InstalarParaAlta
  PROVE  IndMarcos'
<1>2. FormaMemoria /\ FormaAlta /\ FormaCurso /\ FormaPedidos
  BY DEF IndMarcos, FormaPaginas
<1>3. /\ ini # SinAlta /\ ini.pid # 0 /\ ini.pid \in Pids /\ curso = SinCurso /\ ini.frame \in Frames
      /\ EnMano = {ini.frame} /\ curso.frame = 0 /\ curso.indice = 0
  <2>1. ini.frame # 0
    BY DEF InstalarParaAlta
  <2> QED BY <2>1, <1>2, ManosLibres, Pedidas DEF IndMarcos, FormaAlta, SinAlta
<1>4. PICK p \in Pids, s \in Nat, f \in Frames : ini.pid = p /\ ini.sigue = s /\ ini.frame = f
  BY <1>2, <1>3 DEF FormaAlta
<1> DEFINE g == <<p, s>>
           r == [presente |-> TRUE, frame |-> f, swap |-> 0, uso |-> TRUE, usados |-> BytesUsados(g)]
           d == [libre |-> FALSE, de |-> g, dato |-> Dato(g)]
<1>1. /\ ~lleno /\ f # 0 /\ pagina' = [pagina EXCEPT ![g] = r]
      /\ marco' = [marco EXCEPT ![f] = d]
      /\ historial' = Anotar(historial, g, f)
      /\ ini' = IF s + 1 = CantPaginas[p] THEN SinAlta
                ELSE [ini EXCEPT !.sigue = s + 1, !.frame = 0]
      /\ UNCHANGED <<algoritmo, swap, puntero, lleno, recibidas, aceptadas, curso, esperan>>
  BY <1>4 DEF InstalarParaAlta, Andando
<1>5. PICK n \in Nat \ {0} : CantPaginas[p] = n
  BY Tamanios
<1>6. s < n /\ p \in aceptadas
  BY <1>2, <1>3, <1>4, <1>5 DEF FormaAlta
<1>7. g \in Paginas /\ g[1] = p /\ g[2] = s
  BY <1>4, <1>5, <1>6, NombrePagina
<1>8. r \in TipoPagina /\ r.presente /\ r.frame = f
  <2>1. BytesUsados(g) \in Int
    <3>1. PICK T \in Nat : Tamanio[p] = T
      BY Tamanios
    <3>2. BytesUsados(g) = IF s = n - 1 THEN T - s * TAMANIO_PAGINA ELSE TAMANIO_PAGINA
      BY <1>4, <1>5, <3>1 DEF BytesUsados
    <3>3. PICK k \in Nat : k = s * TAMANIO_PAGINA
      BY Tamanios
    <3> QED BY <3>2, <3>3, Tamanios
  <2> HIDE DEF g
  <2> QED BY <1>3, <2>1 DEF TipoPagina
<1>9. d \in Marco
  <2>1. Dato(g) \in Datos
    BY <1>7 DEF Dato, Datos
  <2> HIDE DEF g
  <2> QED BY <1>7, <2>1 DEF Marco
<1>10. \/ s + 1 = n /\ ini' = SinAlta
       \/ s + 1 # n /\ s + 1 < n /\ ini' = [pid |-> p, sigue |-> s + 1, frame |-> 0]
  <2>1. CASE s + 1 = n
    BY <1>1, <1>4, <1>5, <2>1
  <2>2. CASE s + 1 # n
    <3>1. ini' = [ini EXCEPT !.sigue = s + 1, !.frame = 0]
      BY <1>1, <1>5, <2>2
    <3>2. ini' = [pid |-> p, sigue |-> s + 1, frame |-> 0]
      BY <3>1, <1>2, <1>4 DEF FormaAlta
    <3> QED BY <2>2, <3>2, <1>6
  <2> QED BY <2>1, <2>2
<1> HIDE DEF r, d
<1>11. FormaAlta'
  <2>1. recibidas' \in 0..Len(Patotas) /\ aceptadas' \subseteq 1..recibidas'
    BY <1>1, <1>2 DEF FormaAlta
  <2>2. CASE ini' = SinAlta
    BY <2>1, <2>2 DEF FormaAlta, SinAlta
  <2>3. CASE s + 1 < n /\ ini' = [pid |-> p, sigue |-> s + 1, frame |-> 0]
    <3>1. ini'.pid = p /\ ini'.sigue = s + 1 /\ p # 0
      BY <2>3, Pedidas
    <3>2. ini' \in [pid : Pids \cup {0}, sigue : Nat, frame : Frames \cup {0}]
      BY <2>3
    <3> QED BY <2>1, <2>3, <3>1, <3>2, <1>1, <1>3, <1>5, <1>6 DEF FormaAlta
  <2> QED BY <2>2, <2>3, <1>10
<1>12. FormaCurso'
  BY <1>1, <1>2, <1>3 DEF FormaCurso
<1>13. EnMano' = {}
  BY <1>1, <1>3, <1>10 DEF EnMano, SinAlta
<1>14. aceptadas' = aceptadas
  BY <1>1
<1>15. Cargada(g)' /\ \A h \in Paginas : Cargada(h) => Cargada(h)'
  <2>1. ASSUME NEW h \in Paginas, h[1] \in aceptadas, h[1] = p => h[2] < s + 1
        PROVE  Cargada(h)'
    <3>1. h[2] \in Nat
      BY NombrePagina
    <3>2. CASE ini' = SinAlta
      <4>1. ini'.pid = 0 /\ h[1] # 0
        BY ONLY <3>2, h \in Paginas, NombrePagina, Pedidas DEF SinAlta
      <4> QED BY <4>1, <2>1, <1>14 DEF Cargada
    <3>3. CASE ini' = [pid |-> p, sigue |-> s + 1, frame |-> 0]
      <4>1. ini'.pid = p /\ ini'.sigue = s + 1
        BY ONLY <3>3
      <4> QED BY <4>1, <2>1, <1>14 DEF Cargada
    <3> QED BY <3>2, <3>3, <1>10
  <2>2. \A h \in Paginas : h[2] \in Nat
    BY NombrePagina
  <2>3. ASSUME NEW h \in Paginas, Cargada(h) PROVE h[1] \in aceptadas /\ (h[1] = p => h[2] < s + 1)
    BY <1>4, <2>2, <2>3 DEF Cargada
  <2>4. Cargada(g)'
    BY <1>6, <1>7, <2>1
  <2> QED BY <2>1, <2>3, <2>4
<1>16. ~pagina[g].presente
  <2>1. ~Cargada(g)
    BY <1>4, <1>7 DEF Cargada
  <2> QED BY <1>1, <1>7, <2>1 DEF IndMarcos, EnMemoria, Marcos
<1>17. /\ marco' \in [Frames -> Marco] /\ ~marco'[f].libre /\ marco'[f].de = g
       /\ \A e \in Frames \ {f} : marco'[e].libre = marco[e].libre /\ marco'[e].de = marco[e].de
  <2>1. marco \in [Frames -> Marco]
    BY <1>2 DEF FormaMemoria, Marco
  <2>2. marco'[f] = d /\ \A e \in Frames \ {f} : marco'[e] = marco[e]
    BY <1>1, <1>3, <2>1
  <2>3. ~d.libre /\ d.de = g
    BY DEF d
  <2> QED BY <1>1, <1>9, <2>1, <2>2, <2>3
<1>18. swap' \in [Swap -> [libre : BOOLEAN, dato : Datos]]
  BY <1>1, <1>2 DEF FormaMemoria
<1>19. FormaMemoria' /\ EnMemoria'
  <2> HIDE DEF g
  <2> QED BY <1>1, <1>3, <1>4, <1>7, <1>8, <1>13, <1>15, <1>16, <1>17, <1>18, InstalarBien
<1>20. FormaPedidos'
  BY <1>1, <1>2, <1>3, SinPedidosNuevos
<1> QED BY <1>11, <1>12, <1>19, <1>20 DEF IndMarcos, FormaPaginas

\* Whoever has an access to make.
LEMMA Sirviendo ==
  ASSUME IndMarcos, NEW modos, EnPaso(modos)
  PROVE  /\ ~lleno /\ ~caida /\ curso.pasos # <<>> /\ Head(curso.pasos).modo \in modos
         /\ curso # SinCurso /\ ini = SinAlta /\ ini.frame = 0 /\ EnMano = {curso.frame} \ {0}
         /\ Pag \in Paginas /\ curso.t \in Trips /\ 0 \notin Frames
         /\ FormaMemoria /\ FormaAlta /\ FormaCurso /\ FormaPedidos /\ Marcos /\ Cola /\ Cargada(Pag)
<1>1. ~lleno /\ ~caida /\ curso.pasos # <<>> /\ Head(curso.pasos).modo \in modos
  BY DEF EnPaso, Andando
<1>2. FormaMemoria /\ FormaAlta /\ FormaCurso /\ FormaPedidos /\ Marcos /\ Cola
  BY <1>1 DEF IndMarcos, FormaPaginas, EnMemoria
<1>3. curso # SinCurso /\ ini.pid = 0 /\ curso.t \in Trips /\ curso.t[1] # 0
  BY <1>1, <1>2, Cursando, ManosLibres, Pedidas DEF IndMarcos
<1>4. Cargada(Pag)
  <2>1. curso.t[1] \in aceptadas /\ curso.pasos \in Seq(AccesiblesDe(curso.t[1]))
    BY <1>2, <1>3 DEF FormaPedidos
  <2>2. Pag \in PaginasDe(curso.t[1])
    <3>1. Head(curso.pasos) \in AccesiblesDe(curso.t[1])
      BY <1>1, <2>1, QuitarSeq
    <3> QED BY <3>1 DEF Pag, AccesiblesDe
  <2>3. Pag[1] = curso.t[1]
    BY <2>2 DEF PaginasDe
  <2> QED BY <1>3, <2>1, <2>3 DEF Cargada
<1> QED BY <1>1, <1>2, <1>3, <1>4, Cursando, ManosLibres DEF IndMarcos

\* What is left of the patotas when a request is served.
LEMMA AltaIgual ==
  ASSUME FormaAlta, ini = SinAlta, UNCHANGED altas
  PROVE  /\ FormaAlta' /\ ini' = SinAlta /\ aceptadas' = aceptadas
         /\ \A g \in Paginas : Cargada(g)' <=> Cargada(g)
<1>1. ini' = ini /\ recibidas' = recibidas /\ aceptadas' = aceptadas
  BY DEF altas
<1>2. FormaAlta'
  BY <1>1 DEF FormaAlta, SinAlta
<1> QED BY <1>1, <1>2 DEF Cargada

\* A page fault gets a frame for a page that is not in memory, nor will be until it is put there.
LEMMA ConseguirMarcoMarcos ==
  ASSUME IndMarcos, ConseguirMarco
  PROVE  IndMarcos'
<1>1. PICK f \in Frames :
        /\ EnPaso(Buscan) /\ ~pagina[Pag].presente /\ curso.frame = 0
        /\ Conseguir(f) /\ curso' = [curso EXCEPT !.frame = f]
        /\ UNCHANGED <<algoritmo, marco, altas, esperan>>
  BY DEF ConseguirMarco, Buscan
<1>2. /\ ~lleno /\ curso.pasos # <<>> /\ Head(curso.pasos).modo \in Buscan /\ ini = SinAlta
      /\ ini.frame = 0 /\ EnMano = {} /\ Pag \in Paginas /\ 0 \notin Frames
      /\ FormaMemoria /\ FormaAlta /\ FormaCurso /\ FormaPedidos /\ curso # SinCurso
  BY <1>1, Sirviendo
<1>3. /\ FormaAlta' /\ ini' = SinAlta /\ aceptadas' = aceptadas
      /\ \A g \in Paginas : Cargada(g)' <=> Cargada(g)
  BY <1>1, <1>2, AltaIgual
<1>4. /\ curso'.pasos = curso.pasos /\ curso'.frame = f /\ curso'.indice = curso.indice
      /\ curso'.op = curso.op /\ curso'.t = curso.t /\ curso' \in TipoCurso
  BY <1>1, <1>2 DEF FormaCurso, TipoCurso
<1>5. EnMano' = {f}
  BY <1>2, <1>3, <1>4 DEF EnMano, SinAlta
<1>6. /\ FormaMemoria' /\ EnMemoria'
      /\ \A g \in Paginas : ~pagina[g].presente => ~pagina'[g].presente
  BY <1>1, <1>2, <1>3, <1>5, ConseguirBien
<1>7. FormaCurso'
  <2>1. Pag' = Pag
    BY <1>4 DEF Pag
  <2>2. ~pagina'[Pag].presente
    BY <1>1, <1>2, <1>6
  <2>3. curso'.indice = 0 /\ curso'.op # "no"
    BY <1>1, <1>2, <1>4, Cursando DEF FormaCurso, Ops, PideElTripulante
  <2> QED BY <1>2, <1>4, <2>1, <2>2, <2>3 DEF FormaCurso, TipoCurso
<1>8. FormaPedidos'
  BY <1>1, <1>2, <1>3, <1>4, PedidosIguales DEF FormaPedidos
<1> QED BY <1>3, <1>6, <1>7, <1>8 DEF IndMarcos, FormaPaginas

\* After an access there is nothing got and nothing looked for.
LEMMA CursoTrasAcceso ==
  ASSUME curso' \in TipoCurso, curso'.frame = 0, curso'.indice = 0, curso'.op \in Ops,
         curso'.t \in Trips
  PROVE  FormaCurso'
BY DEF FormaCurso, TipoCurso, Ops, PideElTripulante

\* The page comes back from swap to the frame that was got, or the process falls.
LEMMA InstalarPaginaMarcos ==
  ASSUME IndMarcos, InstalarPagina
  PROVE  IndMarcos'
<1>1. EnPaso(Buscan) /\ curso.frame # 0 /\ UNCHANGED <<algoritmo, altas, esperan>>
  BY DEF InstalarPagina, Buscan
<1>2. /\ ~lleno /\ curso.pasos # <<>> /\ ini = SinAlta /\ ini.frame = 0
      /\ EnMano = {curso.frame} \ {0} /\ Pag \in Paginas /\ Cargada(Pag)
      /\ FormaMemoria /\ FormaAlta /\ FormaCurso /\ FormaPedidos /\ curso # SinCurso
  BY <1>1, Sirviendo
<1>3. /\ FormaAlta' /\ ini' = SinAlta /\ aceptadas' = aceptadas
      /\ \A g \in Paginas : Cargada(g)' <=> Cargada(g)
  BY <1>1, <1>2, AltaIgual
<1>4. PICK f \in Frames, g \in Paginas : f = curso.frame /\ g = Pag
  BY <1>1, <1>2 DEF FormaCurso
<1>5. EnMano = {f} /\ ~pagina[g].presente /\ f # 0
  BY <1>1, <1>2, <1>4 DEF FormaCurso
<1>6. PICK s \in Swap \cup {0} : s = pagina[g].swap
  BY <1>2 DEF FormaMemoria, TipoPagina
<1>7. CASE s = 0
  <2>1. UNCHANGED <<memoria, curso>>
    BY <1>4, <1>6, <1>7 DEF InstalarPagina
  <2>2. pagina' = pagina
    BY <2>1 DEF memoria
  <2>3. FormaCurso'
    BY <1>2, <2>1, <2>2 DEF FormaCurso, Pag
  <2>4. EnMano' = EnMano
    BY <1>2, <1>3, <2>1 DEF EnMano
  <2>5. FormaMemoria' /\ EnMemoria'
    BY <1>1, <1>3, <2>1, <2>4, MemoriaIgual
  <2>6. FormaPedidos'
    BY <1>1, <1>2, <1>3, <2>1, PedidosIguales DEF FormaPedidos
  <2> QED BY <1>3, <2>3, <2>5, <2>6 DEF IndMarcos, FormaPaginas
<1>8. CASE s # 0
  <2> DEFINE d == [libre |-> FALSE, de |-> g, dato |-> swap[s].dato]
             marcos == [marco EXCEPT ![f] = d]
             r == [pagina[g] EXCEPT !.presente = TRUE, !.frame = f, !.uso = TRUE]
  <2>1. /\ pagina' = [pagina EXCEPT ![g].presente = TRUE, ![g].frame = f, ![g].uso = TRUE]
        /\ swap' = [swap EXCEPT ![s].libre = TRUE]
        /\ historial' = Anotar(historial, g, f)
        /\ Acceder(marcos, f) /\ UNCHANGED <<puntero, lleno>>
    BY <1>4, <1>6, <1>8 DEF InstalarPagina
  <2>2. PICK w \in [libre : BOOLEAN, dato : Datos] : w = swap[s] /\ s \in Swap
    BY <1>2, <1>6, <1>8 DEF FormaMemoria
  <2>3. d \in Marco /\ ~d.libre /\ d.de = g
    BY <2>2 DEF Marco
  <2>4. marco \in [Frames -> Marco]
    BY <1>2 DEF FormaMemoria, Marco
  <2> HIDE DEF d
  <2>5. marcos \in [Frames -> Marco] /\ marcos[f] = d /\ \A e \in Frames \ {f} : marcos[e] = marco[e]
    BY <2>3, <2>4
  <2> HIDE DEF marcos
  <2>6. /\ marco' \in [Frames -> Marco]
        /\ \A e \in Frames : marco'[e].libre = marcos[e].libre /\ marco'[e].de = marcos[e].de
        /\ curso' \in TipoCurso /\ curso'.op = curso.op /\ curso'.t = curso.t
        /\ curso'.frame = 0 /\ curso'.indice = 0
    BY <1>2, <2>1, <2>5, AccederBien
  <2>7. FormaCurso'
    BY <1>2, <2>6, Cursando, CursoTrasAcceso
  <2>8. EnMano' = {}
    BY <1>2, <1>3, <2>6 DEF EnMano
  <2>9. r \in TipoPagina /\ r.presente /\ r.frame = f
    <3>1. PICK x \in TipoPagina : x = pagina[g]
      BY <1>2 DEF FormaMemoria
    <3>2. r = [x EXCEPT !.presente = TRUE, !.frame = f, !.uso = TRUE]
      BY <3>1
    <3> HIDE DEF r
    <3> QED BY <3>2 DEF TipoPagina
  <2>10. pagina' = [pagina EXCEPT ![g] = r]
    BY <2>1
  <2>11. swap' \in [Swap -> [libre : BOOLEAN, dato : Datos]]
    <3> DEFINE y == [w EXCEPT !.libre = TRUE]
    <3>1. swap' = [swap EXCEPT ![s] = y]
      BY <2>1, <2>2
    <3>2. y \in [libre : BOOLEAN, dato : Datos]
      OBVIOUS
    <3> HIDE DEF y
    <3> QED BY <1>2, <3>1, <3>2 DEF FormaMemoria
  <2>12. Cargada(g)' /\ \A h \in Paginas : Cargada(h) => Cargada(h)'
    BY <1>2, <1>3, <1>4
  <2> HIDE DEF r
  <2>13. FormaMemoria' /\ EnMemoria'
    <3>1. /\ ~marco'[f].libre /\ marco'[f].de = g
          /\ \A e \in Frames \ {f} : marco'[e].libre = marco[e].libre /\ marco'[e].de = marco[e].de
      BY <2>3, <2>5, <2>6
    <3>2. /\ historial' = Anotar(historial, g, f) /\ lleno' = lleno /\ puntero' = puntero
          /\ algoritmo' = algoritmo
      BY <1>1, <2>1
    <3> QED BY ONLY IndMarcos, <1>2, <1>5, <2>6, <2>8, <2>9, <2>10, <2>11, <2>12, <3>1, <3>2,
                    InstalarBien, f \in Frames, g \in Paginas
  <2>14. FormaPedidos'
    <3>1. curso'.pasos \in Seq(AccesiblesDe(curso.t[1]))
      BY <1>2, <2>1, AccederPropio
    <3> QED BY <1>1, <1>2, <1>3, <2>6, <3>1, PedidosIguales
  <2> QED BY <1>3, <2>7, <2>13, <2>14 DEF IndMarcos, FormaPaginas
<1> QED BY <1>7, <1>8

\* A step that does not touch the memory nor the frame that was got.
LEMMA SinTocarMemoria ==
  ASSUME IndMarcos, ini = SinAlta, UNCHANGED <<algoritmo, memoria, altas>>,
         FormaCurso', FormaPedidos', curso'.frame = curso.frame
  PROVE  IndMarcos'
<1>1. FormaAlta' /\ ini' = ini /\ \A g \in Paginas : Cargada(g)' <=> Cargada(g)
  BY AltaIgual DEF IndMarcos, FormaPaginas
<1>2. EnMano' = EnMano
  BY <1>1 DEF EnMano
<1>3. FormaMemoria' /\ EnMemoria'
  BY <1>1, <1>2, MemoriaIgual
<1> QED BY <1>1, <1>3 DEF IndMarcos, FormaPaginas

\* An access that is over.
LEMMA HechoBien ==
  ASSUME FormaCurso, FormaPedidos, curso.pasos # <<>>
  PROVE  /\ Hecho \in TipoCurso /\ Hecho.op = curso.op /\ Hecho.op \in Ops /\ Hecho.t = curso.t
         /\ Hecho.t \in Trips /\ Hecho.frame = 0 /\ Hecho.indice = 0
         /\ Hecho.pasos \in Seq(AccesiblesDe(curso.t[1]))
<1>1. /\ curso \in TipoCurso /\ curso.t \in Trips /\ curso.op \in Ops /\ curso # SinCurso
      /\ Tail(curso.pasos) \in Seq(Accesibles)
  BY Cursando DEF FormaCurso, TipoCurso
<1>2. Tail(curso.pasos) \in Seq(AccesiblesDe(curso.t[1]))
  <2>1. curso.pasos \in Seq(AccesiblesDe(curso.t[1]))
    BY <1>1 DEF FormaPedidos
  <2> QED BY <2>1, QuitarSeq
<1> QED BY <1>1, <1>2 DEF Hecho, TipoCurso

\* Nobody is served.
LEMMA SinCursoBien ==
  ASSUME curso' = SinCurso
  PROVE  FormaCurso' /\ curso'.frame = 0
<1>1. SinCurso.pasos \in Seq(Accesibles)
  BY DEF SinCurso
<1> QED BY <1>1 DEF FormaCurso, SinCurso

\* An access that leaves the memory as it is.
LEMMA TraerLeerMarcos ==
  ASSUME IndMarcos, TraerPresente \/ Leer
  PROVE  IndMarcos'
<1>1. \E modos : EnPaso(modos)
  BY DEF TraerPresente, Leer
<1>2. /\ curso.pasos # <<>> /\ ini = SinAlta /\ FormaCurso /\ FormaPedidos /\ curso # SinCurso
  BY <1>1, Sirviendo
<1>3. curso.frame = 0
  <2>1. CASE TraerPresente
    BY <2>1, <1>2 DEF TraerPresente, FormaCurso
  <2>2. CASE Leer
    BY <2>2, <1>2 DEF Leer, EnPaso, FormaCurso, Buscan, Usan
  <2> QED BY <2>1, <2>2
<1>4. curso' = Hecho /\ UNCHANGED <<algoritmo, memoria, altas, esperan>>
  BY DEF TraerPresente, Leer
<1>5. FormaCurso'
  BY <1>2, <1>4, HechoBien, CursoTrasAcceso
<1>6. aceptadas' = aceptadas
  BY <1>4 DEF altas
<1>7. FormaPedidos'
  BY <1>2, <1>4, <1>6, HechoBien, PedidosIguales
<1> QED BY <1>2, <1>3, <1>4, <1>5, <1>7, HechoBien, SinTocarMemoria

\* The place of the page in the queue is found, or the process falls.
LEMMA BuscarEnHistorialMarcos ==
  ASSUME IndMarcos, BuscarEnHistorial
  PROVE  IndMarcos'
<1>1. /\ EnPaso(Usan) /\ pagina[Pag].presente /\ curso.frame = 0
      /\ UNCHANGED <<algoritmo, memoria, altas, esperan>>
      /\ \/ curso' = curso
         \/ Entradas(Pag) # {} /\ curso' = [curso EXCEPT !.indice = Min(Entradas(Pag))]
  BY DEF BuscarEnHistorial
<1>2. /\ curso.pasos # <<>> /\ ini = SinAlta /\ FormaMemoria /\ FormaCurso /\ FormaPedidos
      /\ curso # SinCurso /\ curso.t \in Trips /\ curso.op \in Ops
  BY <1>1, Sirviendo, Cursando
<1>3. pagina' = pagina /\ aceptadas' = aceptadas
  BY <1>1 DEF memoria, altas
<1>4. CASE curso' = curso
  <2>1. FormaCurso'
    BY <1>2, <1>3, <1>4 DEF FormaCurso, Pag
  <2>2. FormaPedidos'
    BY <1>1, <1>2, <1>3, <1>4, PedidosIguales DEF FormaPedidos
  <2> QED BY <1>1, <1>2, <1>4, <2>1, <2>2, SinTocarMemoria
<1>5. CASE Entradas(Pag) # {} /\ curso' = [curso EXCEPT !.indice = Min(Entradas(Pag))]
  <2>1. Min(Entradas(Pag)) \in Nat
    <3>1. historial \in Seq([pagina : Paginas, frame : Frames])
      BY <1>2 DEF FormaMemoria
    <3>2. Entradas(Pag) \in SUBSET Nat
      BY <3>1, LenProperties DEF Entradas
    <3> QED BY ONLY <3>2, <1>5, MinEsta
  <2>2. curso \in TipoCurso
    BY <1>2 DEF FormaCurso, TipoCurso
  <2>3. /\ curso' \in TipoCurso /\ curso'.pasos = curso.pasos /\ curso'.frame = 0
        /\ curso'.op = curso.op /\ curso'.t = curso.t
    BY <1>1, <1>5, <2>1, <2>2 DEF TipoCurso
  <2>4. FormaCurso'
    BY <1>1, <1>2, <1>3, <2>3 DEF FormaCurso, TipoCurso, Pag, Ops, PideElTripulante
  <2>5. FormaPedidos'
    BY <1>1, <1>2, <1>3, <2>3, PedidosIguales DEF FormaPedidos
  <2> QED BY <1>1, <1>2, <2>3, <2>4, <2>5, SinTocarMemoria
<1> QED BY <1>1, <1>4, <1>5

\* Whatever is at the place that was found goes to the end, and the page is used.
LEMMA UsarPaginaMarcos ==
  ASSUME IndMarcos, UsarPagina
  PROVE  IndMarcos'
<1> DEFINE i == curso.indice
<1>1. EnPaso(Usan) /\ i # 0 /\ UNCHANGED <<algoritmo, swap, puntero, lleno, altas, esperan>>
  BY DEF UsarPagina
<1>2. /\ ~lleno /\ curso.pasos # <<>> /\ ini = SinAlta /\ ini.frame = 0
      /\ EnMano = {curso.frame} \ {0} /\ Pag \in Paginas /\ curso.t \in Trips /\ curso.op \in Ops
      /\ FormaMemoria /\ FormaAlta /\ FormaCurso /\ FormaPedidos /\ Marcos /\ curso # SinCurso
  BY <1>1, Sirviendo, Cursando
<1>3. /\ FormaAlta' /\ ini' = SinAlta /\ aceptadas' = aceptadas
      /\ \A g \in Paginas : Cargada(g)' <=> Cargada(g)
  BY <1>1, <1>2, AltaIgual
<1>4. pagina[Pag].presente /\ curso.frame = 0 /\ EnMano = {} /\ pagina[Pag].frame \in Frames
  BY <1>1, <1>2 DEF FormaCurso, Marcos
<1>5. CASE i \notin DOMAIN historial
  <2>1. UNCHANGED <<memoria, curso>>
    BY <1>1, <1>5 DEF UsarPagina, memoria
  <2>2. pagina' = pagina
    BY <2>1 DEF memoria
  <2>3. FormaCurso'
    BY <1>2, <2>1, <2>2 DEF FormaCurso, Pag
  <2>4. FormaPedidos'
    BY <1>1, <1>2, <1>3, <2>1, PedidosIguales DEF FormaPedidos
  <2> QED BY <1>1, <1>2, <2>1, <2>3, <2>4, SinTocarMemoria
<1>6. CASE i \in DOMAIN historial
  <2>1. PICK f \in Frames, g \in Paginas : f = pagina[Pag].frame /\ g = Pag
    BY <1>2, <1>4
  <2>2. /\ historial' = Append(Salvo(historial, {i}), historial[i])
        /\ pagina' = [pagina EXCEPT ![g].uso = TRUE] /\ Acceder(marco, f)
    BY <1>6, <2>1 DEF UsarPagina
  <2>3. marco \in [Frames -> Marco]
    BY <1>2 DEF FormaMemoria, Marco
  <2>4. /\ marco' \in [Frames -> Marco]
        /\ \A e \in Frames : marco'[e].libre = marco[e].libre /\ marco'[e].de = marco[e].de
        /\ curso' \in TipoCurso /\ curso'.op = curso.op /\ curso'.t = curso.t
        /\ curso'.frame = 0 /\ curso'.indice = 0
    BY <1>2, <2>2, <2>3, AccederBien
  <2>5. FormaCurso'
    BY <1>2, <2>4, CursoTrasAcceso
  <2>6. FormaPedidos'
    <3>1. curso'.pasos \in Seq(AccesiblesDe(curso.t[1]))
      BY <1>2, <2>2, AccederPropio
    <3> QED BY <1>1, <1>2, <1>3, <2>4, <3>1, PedidosIguales
  <2>7. EnMano' = {}
    BY <1>2, <1>3, <2>4 DEF EnMano
  <2>8. swap' = swap /\ lleno' = lleno /\ algoritmo' = algoritmo /\ puntero' = puntero
    BY <1>1
  <2>9. FormaMemoria' /\ EnMemoria'
    <3> HIDE DEF i
    <3> QED BY ONLY IndMarcos, <1>2, <1>3, <1>4, <1>6, <2>2, <2>4, <2>7, <2>8, UsarBien,
                    g \in Paginas
  <2> QED BY <1>3, <2>5, <2>6, <2>9 DEF IndMarcos, FormaPaginas
<1> QED BY <1>5, <1>6

\* The answer leaves with no frame got.
LEMMA ResponderMarcos ==
  ASSUME IndMarcos, Responder
  PROVE  IndMarcos'
<1>1. /\ curso # SinCurso /\ curso.pasos = <<>> /\ curso' = SinCurso
      /\ UNCHANGED <<algoritmo, memoria, altas, esperan>>
  BY DEF Responder
<1>2. FormaCurso /\ FormaPedidos /\ ini = SinAlta
  BY <1>1, ManosLibres DEF IndMarcos, FormaPaginas
<1>3. curso.frame = 0
  BY <1>1, <1>2 DEF FormaCurso
<1>4. FormaPedidos'
  BY <1>1, <1>2, PedidosIguales DEF altas
<1> QED BY <1>1, <1>2, <1>3, <1>4, SinCursoBien, SinTocarMemoria

\* A crew that leaves when nobody has got a frame, or a process that falls.
LEMMA SalidaMarcos ==
  ASSUME IndMarcos, ~lleno, ini = SinAlta, EnMano = {}, EnMano' = {}, UNCHANGED <<algoritmo, altas>>,
         NEW t \in Trips, SoltarTripulante(t) \/ UNCHANGED memoria
  PROVE  FormaMemoria' /\ EnMemoria'
<1>1. \A g \in Paginas : Cargada(g)' <=> Cargada(g)
  BY AltaIgual DEF IndMarcos, FormaPaginas
<1>2. CASE UNCHANGED memoria
  <2>1. EnMano' = EnMano
    OBVIOUS
  <2> QED BY <1>1, <1>2, <2>1, MemoriaIgual
<1>3. CASE Suelta(t)
  BY <1>1, <1>3, SoltarBien
<1> QED BY <1>2, <1>3, SoltarEs

\* The crew that asked for a task after the last one leaves.
LEMMA TerminarMarcos ==
  ASSUME IndMarcos, TerminarTripulante
  PROVE  IndMarcos'
<1>1. /\ EnPaso({"fin"}) /\ curso' = SinCurso /\ UNCHANGED <<algoritmo, altas, esperan>>
      /\ SoltarTripulante(curso.t) \/ UNCHANGED memoria
  BY DEF TerminarTripulante
<1>2. /\ ~lleno /\ curso.pasos # <<>> /\ Head(curso.pasos).modo \in {"fin"} /\ ini = SinAlta
      /\ EnMano = {curso.frame} \ {0} /\ curso.t \in Trips /\ FormaAlta /\ FormaCurso /\ FormaPedidos
  BY <1>1, Sirviendo
<1>3. curso.frame = 0 /\ EnMano = {}
  BY <1>2 DEF FormaCurso, Buscan, Usan
<1>4. FormaAlta' /\ ini' = SinAlta /\ aceptadas' = aceptadas
  BY <1>1, <1>2, AltaIgual
<1>5. FormaCurso' /\ curso'.frame = 0
  BY <1>1, SinCursoBien
<1>6. EnMano' = {}
  BY <1>4, <1>5 DEF EnMano, SinAlta
<1>7. FormaPedidos'
  BY <1>1, <1>2, <1>4, PedidosIguales
<1>8. FormaMemoria' /\ EnMemoria'
  BY <1>1, <1>2, <1>3, <1>6, SalidaMarcos
<1> QED BY <1>4, <1>5, <1>7, <1>8 DEF IndMarcos, FormaPaginas

\* Somebody expels a crew while nobody is served.
LEMMA ExpulsarMarcos ==
  ASSUME IndMarcos, ~Solapadas, NEW t \in Trips, ExpulsarTripulante(t)
  PROVE  IndMarcos'
<1>1. /\ ~lleno /\ ini = SinAlta /\ curso = SinCurso
      /\ UNCHANGED <<algoritmo, altas, esperan, curso>>
      /\ SoltarTripulante(t) \/ UNCHANGED memoria
  BY DEF ExpulsarTripulante, Andando, TablaDePatotasLibre, NadieReemplaza
<1>2. FormaAlta /\ FormaPedidos /\ EnMano = {} /\ curso.frame = 0
  BY <1>1, ManosLibres DEF IndMarcos, FormaPaginas
<1>3. FormaAlta' /\ ini' = SinAlta /\ aceptadas' = aceptadas
  BY <1>1, <1>2, AltaIgual
<1>4. FormaCurso'
  BY <1>1, SinCursoBien
<1>5. EnMano' = {}
  BY <1>1, <1>2, <1>3 DEF EnMano, SinAlta
<1>6. FormaPedidos'
  BY <1>1, <1>2, <1>3, PedidosIguales
<1>7. FormaMemoria' /\ EnMemoria'
  BY <1>1, <1>2, <1>5, SalidaMarcos
<1> QED BY <1>3, <1>4, <1>6, <1>7 DEF IndMarcos, FormaPaginas

\* A crew asks, of a patota that was accepted.
LEMMA BuscarMarcos ==
  ASSUME IndMarcos, NEW t \in Trips, NEW op \in Ops, Buscar(t, op)
  PROVE  IndMarcos'
<1>1. /\ ini = SinAlta /\ t[1] \in aceptadas /\ esperan' \subseteq esperan \cup {<<t, op>>}
      /\ UNCHANGED <<algoritmo, memoria, altas, curso>>
  BY DEF Buscar, TablaDePatotasLibre, PuedePedir
<1>2. FormaCurso /\ FormaPedidos
  BY DEF IndMarcos, FormaPaginas
<1>3. pagina' = pagina /\ aceptadas' = aceptadas /\ curso' = curso
  BY <1>1 DEF memoria, altas
<1>4. FormaCurso'
  BY <1>2, <1>3 DEF FormaCurso, Pag
<1>5. FormaPedidos'
  BY <1>1, <1>2, <1>3 DEF FormaPedidos
<1> QED BY <1>1, <1>3, <1>4, <1>5, SinTocarMemoria

\* A request comes to be served, with the accesses it has to make.
LEMMA TomarMarcos ==
  ASSUME IndMarcos, ~Solapadas, NEW t \in Trips, NEW op \in Ops, TomarNoReemplazar(t, op)
  PROVE  IndMarcos'
<1>1. /\ ini = SinAlta /\ curso = SinCurso /\ <<t, op>> \in esperan /\ esperan' \subseteq esperan
      /\ UNCHANGED <<algoritmo, memoria, altas>>
      /\ \/ curso' = curso
         \/ curso' = [SinCurso EXCEPT !.t = t, !.op = op, !.pasos = Accesos(t, op)]
  BY DEF TomarNoReemplazar
<1>2. FormaCurso /\ FormaPedidos /\ curso.frame = 0
  BY <1>1, ManosLibres DEF IndMarcos, FormaPaginas
<1>3. aceptadas' = aceptadas
  BY <1>1 DEF altas
<1>4. \A e \in esperan' : e[1] \in Trips /\ e[2] \in Ops /\ e[1][1] \in aceptadas'
  BY <1>1, <1>2, <1>3 DEF FormaPedidos
<1>5. CASE curso' = curso
  <2>1. FormaCurso'
    BY <1>1, <1>5, SinCursoBien
  <2>2. FormaPedidos'
    BY <1>1, <1>4, <1>5 DEF FormaPedidos
  <2> QED BY <1>1, <1>5, <2>1, <2>2, SinTocarMemoria
<1>6. CASE curso' = [SinCurso EXCEPT !.t = t, !.op = op, !.pasos = Accesos(t, op)]
  <2>1. Accesos(t, op) \in Seq(Accesibles) /\ Accesos(t, op) \in Seq(AccesiblesDe(t[1]))
    <3> DEFINE a == Accesos(t, op)
    <3>1. a \in Seq([modo : Modos, pag : PaginasConTcb(t)])
      BY AccesosBien
    <3> HIDE DEF a
    <3>2. /\ [modo : Modos, pag : PaginasConTcb(t)] \subseteq AccesiblesDe(t[1])
          /\ AccesiblesDe(t[1]) \subseteq Accesibles
      BY PaginasDelTcb DEF AccesiblesDe, Accesibles
    <3>3. Len(a) \in Nat /\ a \in [1..Len(a) -> [modo : Modos, pag : PaginasConTcb(t)]]
      BY <3>1, LenProperties
    <3>4. a \in [1..Len(a) -> AccesiblesDe(t[1])] /\ a \in [1..Len(a) -> Accesibles]
      BY <3>2, <3>3
    <3> QED BY <3>3, <3>4, SeqDef DEF a
  <2>2. curso' = [t |-> t, op |-> op, pasos |-> Accesos(t, op), frame |-> 0, indice |-> 0, tarea |-> 0]
    BY <1>6 DEF SinCurso
  <2>3. curso' \in TipoCurso
    BY <2>1, <2>2 DEF TipoCurso
  <2>4. /\ curso'.frame = 0 /\ curso'.indice = 0 /\ curso'.op = op /\ curso'.t = t
        /\ curso'.pasos = Accesos(t, op)
    BY <2>2
  <2>5. FormaCurso'
    BY <2>3, <2>4, CursoTrasAcceso
  <2>6. FormaPedidos'
    <3>1. t[1] \in aceptadas'
      BY <1>1, <1>2, <1>3 DEF FormaPedidos
    <3> QED BY <1>4, <2>1, <2>4, <3>1 DEF FormaPedidos
  <2> QED BY <1>1, <1>2, <2>4, <2>5, <2>6, SinTocarMemoria
<1> QED BY <1>1, <1>5, <1>6

\* With the memory empty nothing is wrong.
LEMMA InitMarcos ==
  ASSUME Init
  PROVE  IndMarcos
<1>1. FormaMemoria
  <2>1. Dato(Ninguna) \in Datos
    BY DEF Dato, Datos
  <2>2. /\ marco \in [Frames -> [libre : BOOLEAN, de : Paginas \cup {Ninguna}, dato : Datos]]
        /\ swap \in [Swap -> [libre : BOOLEAN, dato : Datos]]
    BY <2>1 DEF Init
  <2>3. pagina \in [Paginas -> TipoPagina]
    BY DEF Init, TipoPagina
  <2>4. algoritmo \in {"LRU", "CLOCK"} /\ puntero \in Frames /\ lleno \in BOOLEAN
    <3>1. algoritmo \in Algoritmos /\ puntero = 1 /\ lleno = FALSE
      BY DEF Init
    <3>2. Algoritmos \subseteq {"LRU", "CLOCK"} /\ 1 \in Frames
      BY ConstantesOK DEF Frames
    <3> QED BY <3>1, <3>2
  <2>5. historial \in Seq([pagina : Paginas, frame : Frames])
    BY DEF Init
  <2> QED BY <2>2, <2>3, <2>4, <2>5 DEF FormaMemoria
<1>2. ini = SinAlta /\ curso = SinCurso /\ esperan = {}
  BY DEF Init
<1>3. FormaAlta
  <2>1. recibidas = 0 /\ aceptadas = {} /\ 0 \in 0..Len(Patotas)
    BY Pedidas DEF Init
  <2> QED BY <1>2, <2>1 DEF FormaAlta, SinAlta
<1>4. FormaCurso
  <2>1. SinCurso.pasos \in Seq(Accesibles)
    BY DEF SinCurso
  <2> QED BY <1>2, <2>1 DEF FormaCurso, SinCurso
<1>5. FormaPedidos
  BY <1>2 DEF FormaPedidos
<1>6. EnMemoria
  <2>1. \A g \in Paginas : ~pagina[g].presente
    BY DEF Init
  <2>2. \A f \in Frames : marco[f].libre
    BY DEF Init
  <2>3. DOMAIN historial = {}
    BY DEF Init
  <2>4. Marcos
    BY <2>1, <2>2 DEF Marcos
  <2>5. Cola
    BY <2>2, <2>3 DEF Cola
  <2> QED BY <2>4, <2>5 DEF EnMemoria
<1> QED BY <1>1, <1>3, <1>4, <1>5, <1>6 DEF IndMarcos, FormaPaginas

\* Every step keeps it, when the requests do not overlap.
LEMMA PasoMarcos ==
  ASSUME IndMarcos, ~Solapadas, [Next]_vars
  PROVE  IndMarcos'
<1>1. CASE Alta
  BY <1>1, RecibirMarcos, ConseguirAltaMarcos, InstalarAltaMarcos DEF Alta
<1>2. CASE Servir
  BY <1>2, ConseguirMarcoMarcos, InstalarPaginaMarcos, TraerLeerMarcos, BuscarEnHistorialMarcos,
     UsarPaginaMarcos, ResponderMarcos, TerminarMarcos DEF Servir
<1>3. ASSUME NEW t \in Trips, NEW op \in Ops, Buscar(t, op) \/ TomarNoReemplazar(t, op)
      PROVE  IndMarcos'
  BY <1>3, BuscarMarcos, TomarMarcos
<1>4. ASSUME NEW t \in Trips, ExpulsarTripulante(t)
      PROVE  IndMarcos'
  BY <1>4, ExpulsarMarcos
<1>5. CASE UNCHANGED vars
  <2>1. /\ UNCHANGED <<algoritmo, memoria, altas, esperan, curso>> /\ marco' = marco /\ swap' = swap
        /\ pagina' = pagina /\ historial' = historial /\ puntero' = puntero /\ lleno' = lleno
        /\ ini' = ini /\ recibidas' = recibidas /\ aceptadas' = aceptadas
    BY <1>5 DEF vars, memoria, altas
  <2>2. FormaPaginas'
    BY <2>1 DEF IndMarcos, FormaPaginas, FormaMemoria, FormaAlta, FormaCurso, FormaPedidos, Pag
  <2>3. EnMano' = EnMano /\ \A g \in Paginas : Cargada(g) => Cargada(g)'
    BY <2>1 DEF EnMano, Cargada
  <2> QED BY <2>1, <2>2, <2>3, MemoriaIgual DEF IndMarcos
<1> QED BY <1>1, <1>2, <1>3, <1>4, <1>5 DEF Next, Ops

\* PresenteConMarco: whatever the memory, the patotas, the algorithm and the expulsions,
\* when no request comes in the middle of another, mi-ram-hq-lib.c:2796 never finds a page
\* present that no frame is of, and the queue finds each page in memory.
THEOREM PaginasConMarco ==
  ASSUME ~Solapadas
  PROVE  Spec => []PresenteConMarco
<1>1. Init => IndMarcos
  BY InitMarcos
<1>2. IndMarcos /\ [Next]_vars => IndMarcos'
  BY PasoMarcos
<1>3. IndMarcos => PresenteConMarco
  BY PresenteEnCola
<1> QED BY <1>1, <1>2, <1>3, PTL DEF Spec

====
