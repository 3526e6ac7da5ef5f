------------------------------ MODULE KeyProofs ------------------------------
(***************************************************************************)
(* The byte order of the keys is the order of the sequence numbers, for    *)
(* every size of a byte and every number of bytes that holds the numbers.  *)
(***************************************************************************)
EXTENDS Keys, WellFoundedInduction, SequenceTheorems, TLAPS

USE StoreAssumption, KeysAssumption

-----------------------------------------------------------------------------
(* Induction and recursion up to a bound, with sets and functions.         *)

(* A set that holds 0 and the successor of what it holds is everything.    *)
LEMMA Induct ==
  ASSUME NEW n \in Nat, NEW G \in SUBSET (0 .. n), 0 \in G,
         \A k \in 1 .. n : k - 1 \in G => k \in G
  PROVE  G = 0 .. n
<1> DEFINE T == (0 .. n) \ G
<1> SUFFICES ASSUME T # {} PROVE FALSE
  OBVIOUS
<1>1. \E m \in T : \A k \in T : <<k, m>> \notin OpToRel(<, Nat)
  <2>1. T \in SUBSET Nat
    OBVIOUS
  <2> HIDE DEF T
  <2> QED
    BY <2>1, WFMin, NatLessThanWellFounded, Zenon
<1>2. \A k, m \in T : <<k, m>> \in OpToRel(<, Nat) <=> k < m
  BY DEF OpToRel
<1>3. PICK m \in T : \A k \in T : ~(k < m)
  BY <1>1, <1>2
<1>4. m \in 1 .. n /\ m - 1 \in 0 .. n /\ m - 1 < m
  BY <1>3
<1> QED
  BY <1>3, <1>4

(* The functions that start with a value and take a step at each place.    *)
Stepping(n, S, first, step) ==
  {f \in [0 .. n -> S] : f[0] = first /\ \A k \in 1 .. n : f[k] = step[k][f[k - 1]]}

(* There is such a function for every value and every step.                *)
LEMMA Recursion ==
  ASSUME NEW n \in Nat, NEW S, NEW first \in S, NEW step \in [1 .. n -> [S -> S]]
  PROVE  Stepping(n, S, first, step) # {}
<1> DEFINE Good(m) == \E f \in [0 .. m -> S] : f[0] = first /\ \A k \in 1 .. m : f[k] = step[k][f[k - 1]]
           G == {m \in 0 .. n : Good(m)}
<1>1. Good(0)
  <2> DEFINE h == [k \in 0 .. 0 |-> first]
  <2>1. h \in [0 .. 0 -> S] /\ h[0] = first /\ 1 .. 0 = {}
    OBVIOUS
  <2> HIDE DEF h
  <2> QED
    BY <2>1
<1>2. ASSUME NEW m \in 1 .. n, Good(m - 1) PROVE Good(m)
  <2>1. PICK f \in [0 .. (m - 1) -> S] : f[0] = first /\ \A k \in 1 .. (m - 1) : f[k] = step[k][f[k - 1]]
    BY <1>2
  <2> DEFINE g == [k \in 0 .. m |-> IF k = m THEN step[m][f[m - 1]] ELSE f[k]]
  <2>2. m - 1 \in 0 .. (m - 1) /\ m # 0 /\ 0 \in 0 .. m
    OBVIOUS
  <2>3. step[m] \in [S -> S] /\ f[m - 1] \in S
    BY <2>2
  <2>4. step[m][f[m - 1]] \in S
    BY <2>3
  <2>5. \A k \in 0 .. m : k # m => k \in 0 .. (m - 1)
    OBVIOUS
  <2>6. g \in [0 .. m -> S] /\ g[0] = first
    BY <2>1, <2>2, <2>4, <2>5
  <2>7. ASSUME NEW k \in 1 .. m PROVE g[k] = step[k][g[k - 1]]
    <3>1. k \in 0 .. m /\ k - 1 \in 0 .. m /\ k - 1 # m
      OBVIOUS
    <3>2. CASE k = m
      BY <3>1, <3>2
    <3>3. CASE k # m
      <4>1. k \in 1 .. (m - 1)
        BY <3>3
      <4> QED
        BY <2>1, <3>1, <3>3, <4>1
    <3> QED
      BY <3>2, <3>3
  <2> HIDE DEF g
  <2> QED
    BY <2>6, <2>7
<1> HIDE DEF Good
<1>3. 0 \in G /\ G \in SUBSET (0 .. n) /\ \A k \in 1 .. n : k - 1 \in G => k \in G
  BY <1>1, <1>2
<1>4. Good(n)
  <2> HIDE DEF G
  <2>1. G = 0 .. n
    BY <1>3, Induct
  <2> USE DEF G
  <2> QED
    BY <2>1
<1> USE DEF Good
<1> QED
  BY <1>4 DEF Stepping

-----------------------------------------------------------------------------
(* Arithmetic in base Base.                                                *)

(* A number is its leading part and its last byte.                         *)
LEMMA Division ==
  ASSUME NEW x \in Nat
  PROVE  \E q \in Nat, r \in 0 .. (Base - 1) : q = x \div Base /\ r = x % Base /\ x = q * Base + r
<1>1. Base \in Nat \ {0}
  OBVIOUS
<1> QED
  BY <1>1

(* Both parts are numbers, the second a byte.                              *)
LEMMA DivisionType ==
  ASSUME NEW x \in Nat
  PROVE  x \div Base \in Nat /\ x % Base \in 0 .. (Base - 1)
BY Division, Zenon

(* A number and one more byte keep the order.                              *)
LEMMA ByteOrder ==
  ASSUME NEW q \in Nat, NEW r \in Nat, NEW c \in 0 .. (Base - 1), NEW d \in 0 .. (Base - 1), q < r
  PROVE  q * Base + c < r * Base + d
<1>1. (q + 1) * Base = q * Base + Base
  BY SMT
<1>2. (q + 1) * Base <= r * Base
  BY SMT
<1> QED
  BY <1>1, <1>2, SMT

(* Taking the last byte away keeps the order.                              *)
LEMMA DivMonotone ==
  ASSUME NEW x \in Nat, NEW y \in Nat, x <= y
  PROVE  x \div Base <= y \div Base
<1>1. PICK q \in Nat, c \in 0 .. (Base - 1) : q = x \div Base /\ c = x % Base /\ x = q * Base + c
  BY Division, Zenon
<1>2. PICK r \in Nat, d \in 0 .. (Base - 1) : r = y \div Base /\ d = y % Base /\ y = r * Base + d
  BY Division, Zenon
<1>3. x = q * Base + c /\ y = r * Base + d
  BY <1>1, <1>2, Zenon
<1>4. ~(r < q)
  <2> SUFFICES ASSUME r < q PROVE FALSE
    OBVIOUS
  <2>1. r * Base + d < q * Base + c
    BY ByteOrder
  <2> QED
    BY <1>3, <2>1
<1>5. q <= r
  BY <1>4
<1> QED
  BY <1>1, <1>2, <1>5, Zenon

-----------------------------------------------------------------------------
(* The recursive definitions.                                              *)

(* Shifted takes one byte away at a time.                                  *)
LEMMA ShiftedIs ==
  /\ Shifted \in [0 .. Width -> [0 .. MaxSeq -> Nat]]
  /\ \A s \in 0 .. MaxSeq : Shifted[0][s] = s
  /\ \A j \in 1 .. Width, s \in 0 .. MaxSeq : Shifted[j][s] = Shifted[j - 1][s] \div Base
<1> DEFINE S == [0 .. MaxSeq -> Nat]
           first == [s \in 0 .. MaxSeq |-> s]
           next(g) == [s \in 0 .. MaxSeq |-> g[s] \div Base]
           step == [j \in 1 .. Width |-> [g \in S |-> next(g)]]
           row(f, j) == [s \in 0 .. MaxSeq |-> IF j = 0 THEN s ELSE f[j - 1][s] \div Base]
           body(f) == [j \in 0 .. Width |-> row(f, j)]
<1>1. first \in S /\ Width \in Nat
  OBVIOUS
<1>2. \A g \in S : next(g) \in S
  BY DivisionType
<1>3. \A f : row(f, 0) = first
  OBVIOUS
<1>4. \A f : \A j \in 1 .. Width : row(f, j) = next(f[j - 1])
  OBVIOUS
<1>5. Shifted = CHOOSE g : g = body(g)
  BY DEF Shifted
<1> HIDE DEF S, first, next, row
<1>6. /\ step \in [1 .. Width -> [S -> S]]
      /\ \A j \in 1 .. Width : \A g \in S : step[j][g] = next(g)
  BY <1>2
<1> HIDE DEF step
<1>7. PICK f \in Stepping(Width, S, first, step) : TRUE
  BY <1>1, <1>6, Recursion
<1>8. f \in [0 .. Width -> S] /\ f[0] = first /\ \A j \in 1 .. Width : f[j] = step[j][f[j - 1]]
  BY <1>7 DEF Stepping
<1>9. ASSUME NEW j \in 0 .. Width PROVE f[j] = row(f, j)
  <2>1. CASE j = 0
    BY <1>3, <1>8, <2>1
  <2>2. CASE j # 0
    <3>1. j \in 1 .. Width /\ j - 1 \in 0 .. Width
      BY <2>2
    <3>2. f[j - 1] \in S
      BY <1>8, <3>1
    <3>3. f[j] = next(f[j - 1])
      BY <1>6, <1>8, <3>1, <3>2
    <3>4. row(f, j) = next(f[j - 1])
      BY <1>4, <3>1
    <3> QED
      BY <3>3, <3>4
  <2> QED
    BY <2>1, <2>2
<1>10. f = body(f)
  BY <1>8, <1>9
<1> HIDE DEF body
<1>11. Shifted = body(Shifted)
  BY <1>5, <1>10, Zenon
<1> USE DEF body
<1>12. Shifted = [j \in 0 .. Width |-> Shifted[j]] /\ \A j \in 0 .. Width : Shifted[j] = row(Shifted, j)
  BY <1>11
<1>13. Shifted[0] = first
  BY <1>3, <1>12
<1>14. ASSUME NEW j \in 1 .. Width PROVE Shifted[j] = next(Shifted[j - 1])
  <2>1. j \in 0 .. Width
    OBVIOUS
  <2>2. Shifted[j] = row(Shifted, j)
    BY <1>12, <2>1
  <2>3. row(Shifted, j) = next(Shifted[j - 1])
    BY <1>4
  <2> QED
    BY <2>2, <2>3
<1>15. \A j \in 0 .. Width : Shifted[j] \in S
  <2> DEFINE G == {j \in 0 .. Width : Shifted[j] \in S}
  <2>1. G \in SUBSET (0 .. Width) /\ 0 \in G
    BY <1>1, <1>13
  <2>2. ASSUME NEW j \in 1 .. Width, j - 1 \in G PROVE j \in G
    <3>1. Shifted[j - 1] \in S /\ j \in 0 .. Width
      BY <2>2
    <3>2. next(Shifted[j - 1]) \in S
      BY <1>2, <3>1
    <3> QED
      BY <1>14, <3>1, <3>2
  <2> HIDE DEF G
  <2>3. G = 0 .. Width
    BY <1>1, <2>1, <2>2, Induct
  <2> USE DEF G
  <2> QED
    BY <2>3
<1>16. Shifted \in [0 .. Width -> S]
  BY <1>12, <1>15
<1> USE DEF S, first
<1>17. ASSUME NEW j \in 1 .. Width, NEW s \in 0 .. MaxSeq PROVE Shifted[j][s] = Shifted[j - 1][s] \div Base
  <2>1. Shifted[j] = next(Shifted[j - 1])
    BY <1>14
  <2> QED
    BY <2>1 DEF next
<1>18. \A s \in 0 .. MaxSeq : Shifted[0][s] = s
  BY <1>13
<1> QED
  BY <1>16, <1>17, <1>18

(* Spelled takes one byte more at a time.                                  *)
LEMMA SpelledIs ==
  /\ Spelled \in [0 .. Width -> [EntryBytes -> Nat]]
  /\ \A key \in EntryBytes : Spelled[0][key] = 0
  /\ \A k \in 1 .. Width, key \in EntryBytes : Spelled[k][key] = Spelled[k - 1][key] * Base + key[k + 1]
<1> DEFINE S == [EntryBytes -> Nat]
           first == [key \in EntryBytes |-> 0]
           next(g, k) == [key \in EntryBytes |-> g[key] * Base + key[k + 1]]
           step == [k \in 1 .. Width |-> [g \in S |-> next(g, k)]]
           row(f, k) == [key \in EntryBytes |-> IF k = 0 THEN 0 ELSE f[k - 1][key] * Base + key[k + 1]]
           body(f) == [k \in 0 .. Width |-> row(f, k)]
<1>1. first \in S /\ Width \in Nat
  OBVIOUS
<1>2. \A k \in 1 .. Width : \A g \in S : next(g, k) \in S
  <2> SUFFICES ASSUME NEW k \in 1 .. Width, NEW g \in S, NEW key \in EntryBytes
               PROVE  g[key] * Base + key[k + 1] \in Nat
    OBVIOUS
  <2>1. key[k + 1] \in Nat /\ g[key] \in Nat
    BY DEF EntryBytes
  <2> QED
    BY <2>1
<1>3. \A f : row(f, 0) = first
  OBVIOUS
<1>4. \A f : \A k \in 1 .. Width : row(f, k) = next(f[k - 1], k)
  OBVIOUS
<1>5. Spelled = CHOOSE g : g = body(g)
  BY DEF Spelled
<1> HIDE DEF S, first, next, row
<1>6. /\ step \in [1 .. Width -> [S -> S]]
      /\ \A j \in 1 .. Width : \A g \in S : step[j][g] = next(g, j)
  BY <1>2
<1> HIDE DEF step
<1>7. PICK f \in Stepping(Width, S, first, step) : TRUE
  BY <1>1, <1>6, Recursion
<1>8. f \in [0 .. Width -> S] /\ f[0] = first /\ \A j \in 1 .. Width : f[j] = step[j][f[j - 1]]
  BY <1>7 DEF Stepping
<1>9. ASSUME NEW j \in 0 .. Width PROVE f[j] = row(f, j)
  <2>1. CASE j = 0
    BY <1>3, <1>8, <2>1
  <2>2. CASE j # 0
    <3>1. j \in 1 .. Width /\ j - 1 \in 0 .. Width
      BY <2>2
    <3>2. f[j - 1] \in S
      BY <1>8, <3>1
    <3>3. f[j] = next(f[j - 1], j)
      BY <1>6, <1>8, <3>1, <3>2
    <3>4. row(f, j) = next(f[j - 1], j)
      BY <1>4, <3>1
    <3> QED
      BY <3>3, <3>4
  <2> QED
    BY <2>1, <2>2
<1>10. f = body(f)
  BY <1>8, <1>9
<1> HIDE DEF body
<1>11. Spelled = body(Spelled)
  BY <1>5, <1>10, Zenon
<1> USE DEF body
<1>12. Spelled = [j \in 0 .. Width |-> Spelled[j]] /\ \A j \in 0 .. Width : Spelled[j] = row(Spelled, j)
  BY <1>11
<1>13. Spelled[0] = first
  BY <1>3, <1>12
<1>14. ASSUME NEW j \in 1 .. Width PROVE Spelled[j] = next(Spelled[j - 1], j)
  <2>1. j \in 0 .. Width
    OBVIOUS
  <2>2. Spelled[j] = row(Spelled, j)
    BY <1>12, <2>1
  <2>3. row(Spelled, j) = next(Spelled[j - 1], j)
    BY <1>4
  <2> QED
    BY <2>2, <2>3
<1>15. \A j \in 0 .. Width : Spelled[j] \in S
  <2> DEFINE G == {j \in 0 .. Width : Spelled[j] \in S}
  <2>1. G \in SUBSET (0 .. Width) /\ 0 \in G
    BY <1>1, <1>13
  <2>2. ASSUME NEW j \in 1 .. Width, j - 1 \in G PROVE j \in G
    <3>1. Spelled[j - 1] \in S /\ j \in 0 .. Width
      BY <2>2
    <3>2. next(Spelled[j - 1], j) \in S
      BY <1>2, <3>1
    <3> QED
      BY <1>14, <3>1, <3>2
  <2> HIDE DEF G
  <2>3. G = 0 .. Width
    BY <1>1, <2>1, <2>2, Induct
  <2> USE DEF G
  <2> QED
    BY <2>3
<1>16. Spelled \in [0 .. Width -> S]
  BY <1>12, <1>15
<1> USE DEF S, first
<1>17. ASSUME NEW j \in 1 .. Width, NEW key \in EntryBytes PROVE Spelled[j][key] = Spelled[j - 1][key] * Base + key[j + 1]
  <2>1. Spelled[j] = next(Spelled[j - 1], j)
    BY <1>14
  <2> QED
    BY <2>1 DEF next
<1>18. \A key \in EntryBytes : Spelled[0][key] = 0
  BY <1>13
<1> QED
  BY <1>16, <1>17, <1>18

(* Both give numbers, and start from the number and from nothing.          *)
LEMMA RecursionTypes ==
  /\ \A j \in 0 .. Width, s \in 0 .. MaxSeq : Shifted[j][s] \in Nat
  /\ \A j \in 0 .. Width, key \in EntryBytes : Spelled[j][key] \in Nat
  /\ \A s \in 0 .. MaxSeq : Shifted[0][s] = s
  /\ \A key \in EntryBytes : Spelled[0][key] = 0
<1>1. Shifted \in [0 .. Width -> [0 .. MaxSeq -> Nat]] /\ Spelled \in [0 .. Width -> [EntryBytes -> Nat]]
  BY ShiftedIs, SpelledIs, Zenon
<1>2. /\ \A j \in 0 .. Width, s \in 0 .. MaxSeq : Shifted[j][s] \in Nat
      /\ \A j \in 0 .. Width, key \in EntryBytes : Spelled[j][key] \in Nat
  BY <1>1
<1> QED
  BY <1>2, ShiftedIs, SpelledIs, Zenon

-----------------------------------------------------------------------------
(* The bytes of a key.                                                     *)

Byte == 0 .. (Base - 1)

(* Bytes put after one byte.                                               *)
LEMMA AfterOne ==
  ASSUME NEW u \in Seq(Byte), NEW v \in Seq(Byte), Len(u) = 1
  PROVE  /\ u \o v \in Seq(Byte) /\ Len(u \o v) = Len(v) + 1 /\ (u \o v)[1] = u[1]
         /\ \A k \in 1 .. Len(v) : (u \o v)[k + 1] = v[k]
<1>1. u \o v \in Seq(Byte) /\ Len(u \o v) = Len(u) + Len(v)
  BY ConcatProperties
<1>2. ASSUME NEW i \in 1 .. (Len(u) + Len(v))
      PROVE  (u \o v)[i] = IF i <= Len(u) THEN u[i] ELSE v[i - Len(u)]
  BY ConcatProperties
<1>3. Len(v) \in Nat
  OBVIOUS
<1>4. (u \o v)[1] = u[1]
  <2>1. 1 \in 1 .. (Len(u) + Len(v)) /\ 1 <= Len(u)
    BY <1>3
  <2> QED
    BY <1>2, <2>1
<1>5. ASSUME NEW k \in 1 .. Len(v) PROVE (u \o v)[k + 1] = v[k]
  <2>1. k + 1 \in 1 .. (Len(u) + Len(v)) /\ ~(k + 1 <= Len(u)) /\ (k + 1) - Len(u) = k
    BY <1>3
  <2>2. (u \o v)[k + 1] = v[(k + 1) - Len(u)]
    BY <1>2, <2>1
  <2> QED
    BY <2>1, <2>2
<1> QED
  BY <1>1, <1>3, <1>4, <1>5

(* A byte put before Width bytes.                                          *)
LEMMA Prefixed ==
  ASSUME NEW b \in [1 .. Width -> Byte]
  PROVE  /\ <<ENTRY_PREFIX>> \o b \in EntryBytes
         /\ Len(<<ENTRY_PREFIX>> \o b) = Width + 1
         /\ (<<ENTRY_PREFIX>> \o b)[1] = 1
         /\ \A k \in 1 .. Width : (<<ENTRY_PREFIX>> \o b)[k + 1] = b[k]
<1> DEFINE one == <<ENTRY_PREFIX>>
<1>1. b \in Seq(Byte) /\ Len(b) = Width
  OBVIOUS
<1>2. one \in Seq(Byte) /\ Len(one) = 1 /\ one[1] = 1
  BY DEF ENTRY_PREFIX, Byte
<1> HIDE DEF one
<1>3. /\ one \o b \in Seq(Byte) /\ Len(one \o b) = Width + 1 /\ (one \o b)[1] = 1
      /\ \A k \in 1 .. Width : (one \o b)[k + 1] = b[k]
  BY <1>1, <1>2, AfterOne
<1>4. one \o b \in [1 .. (Width + 1) -> Byte]
  <2>1. \A v \in Seq(Byte) : v \in [1 .. Len(v) -> Byte]
    OBVIOUS
  <2> QED
    BY <1>3, <2>1, Zenon
<1> QED
  BY <1>3, <1>4 DEF Byte, one, EntryBytes

(* The bytes of an entry's key.                                            *)
LEMMA EntryKeyIs ==
  ASSUME NEW s \in 0 .. MaxSeq
  PROVE  /\ entry_key(s) \in EntryBytes /\ Len(entry_key(s)) = Width + 1 /\ entry_key(s)[1] = 1
         /\ \A k \in 1 .. Width : entry_key(s)[k + 1] = Shifted[Width - k][s] % Base
<1> DEFINE b == [k \in 1 .. Width |-> Shifted[Width - k][s] % Base]
<1>1. ASSUME NEW k \in 1 .. Width PROVE Shifted[Width - k][s] % Base \in 0 .. (Base - 1)
  <2>1. Width - k \in 0 .. Width
    OBVIOUS
  <2>2. Shifted[Width - k][s] \in Nat
    BY <2>1, RecursionTypes
  <2> QED
    BY <2>2, DivisionType
<1>2. b \in [1 .. Width -> Byte] /\ \A k \in 1 .. Width : b[k] = Shifted[Width - k][s] % Base
  BY <1>1 DEF Byte
<1>3. entry_key(s) = <<ENTRY_PREFIX>> \o b
  BY DEF entry_key
<1> HIDE DEF b
<1>4. /\ entry_key(s) \in EntryBytes /\ Len(entry_key(s)) = Width + 1 /\ entry_key(s)[1] = 1
      /\ \A k \in 1 .. Width : entry_key(s)[k + 1] = b[k]
  <2>1. b \in [1 .. Width -> Byte]
    BY <1>2
  <2> QED
    BY <1>3, <2>1, Prefixed
<1> QED
  BY <1>2, <1>4, Zenon

(* The bytes of ENTRY_HIGH.                                                *)
LEMMA EntryHighIs ==
  /\ ENTRY_HIGH \in EntryBytes /\ Len(ENTRY_HIGH) = Width + 1 /\ ENTRY_HIGH[1] = 1
  /\ \A k \in 1 .. Width : ENTRY_HIGH[k + 1] = Base - 1
<1> DEFINE b == [k \in 1 .. Width |-> Base - 1]
<1>1. b \in [1 .. Width -> Byte] /\ \A k \in 1 .. Width : b[k] = Base - 1
  BY DEF Byte
<1>2. ENTRY_HIGH = <<ENTRY_PREFIX>> \o b
  BY DEF ENTRY_HIGH
<1> HIDE DEF b
<1> QED
  BY <1>1, <1>2, Prefixed

-----------------------------------------------------------------------------
(* Keys and numbers.                                                       *)

(* Nothing is left of a number when all its bytes are taken away.          *)
LEMMA ShiftedOut ==
  ASSUME NEW s \in 0 .. MaxSeq
  PROVE  Shifted[Width][s] = 0
<1> DEFINE high(j) == Spelled[Width - j][ENTRY_HIGH]
           G == {j \in 0 .. Width : Shifted[j][s] <= high(j)}
<1>1. \A j \in 0 .. Width : high(j) \in Nat /\ Shifted[j][s] \in Nat
  BY RecursionTypes, EntryHighIs
<1>2. 0 \in G
  <2>1. Shifted[0][s] = s /\ Spelled[Width][ENTRY_HIGH] \in Nat /\ 0 \in 0 .. Width /\ Width - 0 = Width
    BY RecursionTypes, EntryHighIs
  <2> QED
    BY <2>1, SeqsFit DEF seq_of
<1>3. ASSUME NEW j \in 1 .. Width, j - 1 \in G PROVE j \in G
  <2>1. j \in 0 .. Width /\ j - 1 \in 0 .. Width /\ Shifted[j - 1][s] <= high(j - 1)
    BY <1>3
  <2>2. high(j - 1) = high(j) * Base + (Base - 1)
    <3>1. Width - (j - 1) \in 1 .. Width /\ (Width - (j - 1)) - 1 = Width - j
      OBVIOUS
    <3>2. ENTRY_HIGH[(Width - (j - 1)) + 1] = Base - 1
      BY <3>1, EntryHighIs
    <3> QED
      BY <3>1, <3>2, SpelledIs, EntryHighIs
  <2>3. PICK q \in Nat, r \in 0 .. (Base - 1) :
          q = Shifted[j - 1][s] \div Base /\ r = Shifted[j - 1][s] % Base /\ Shifted[j - 1][s] = q * Base + r
    BY <1>1, <2>1, Division, Zenon
  <2>4. Shifted[j][s] = q
    BY <2>3, ShiftedIs, Zenon
  <2>5. Shifted[j - 1][s] = q * Base + r
    BY <2>3, Zenon
  <2> HIDE DEF high
  <2>6. ~(high(j) < q)
    <3> SUFFICES ASSUME high(j) < q PROVE FALSE
      OBVIOUS
    <3>1. high(j) * Base + (Base - 1) < q * Base + r
      BY <1>1, <2>1, ByteOrder
    <3> QED
      BY <1>1, <2>1, <2>2, <2>5, <3>1
  <2> QED
    BY <1>1, <2>1, <2>4, <2>6
<1>4. G = 0 .. Width
  <2>1. Width \in Nat /\ G \in SUBSET (0 .. Width)
    OBVIOUS
  <2> HIDE DEF G
  <2> QED
    BY <1>2, <1>3, <2>1, Induct
<1>5. Width \in 0 .. Width /\ high(Width) = 0
  BY RecursionTypes, EntryHighIs
<1> QED
  BY <1>1, <1>4, <1>5

(* The first k bytes of a key spell its number without the others.         *)
LEMMA SpelledKey ==
  ASSUME NEW s \in 0 .. MaxSeq
  PROVE  \A k \in 0 .. Width : Spelled[k][entry_key(s)] = Shifted[Width - k][s]
<1> DEFINE G == {k \in 0 .. Width : Spelled[k][entry_key(s)] = Shifted[Width - k][s]}
<1>1. 0 \in G
  <2>1. Spelled[0][entry_key(s)] = 0
    BY RecursionTypes, EntryKeyIs, Zenon
  <2>2. Width - 0 = Width /\ Shifted[Width][s] = 0
    BY ShiftedOut
  <2> QED
    BY <2>1, <2>2
<1>2. ASSUME NEW k \in 1 .. Width, k - 1 \in G PROVE k \in G
  <2>1. k \in 0 .. Width /\ Width - k \in 0 .. Width /\ Width - (k - 1) = (Width - k) + 1
        /\ (Width - k) + 1 \in 1 .. Width /\ ((Width - k) + 1) - 1 = Width - k
    OBVIOUS
  <2>2. Spelled[k - 1][entry_key(s)] = Shifted[(Width - k) + 1][s]
    BY <1>2, <2>1
  <2>3. PICK q \in Nat, r \in 0 .. (Base - 1) :
          /\ q = Shifted[Width - k][s] \div Base /\ r = Shifted[Width - k][s] % Base
          /\ Shifted[Width - k][s] = q * Base + r
    <3>1. Shifted[Width - k][s] \in Nat
      BY <2>1, RecursionTypes
    <3> QED
      BY <3>1, Division, Zenon
  <2>4. Shifted[(Width - k) + 1][s] = q
    <3>1. Shifted[(Width - k) + 1][s] = Shifted[((Width - k) + 1) - 1][s] \div Base
      BY <2>1, ShiftedIs, Zenon
    <3> QED
      BY <2>1, <2>3, <3>1, Zenon
  <2>5. entry_key(s)[k + 1] = r
    BY <2>3, EntryKeyIs, Zenon
  <2>6. Spelled[k][entry_key(s)] = Spelled[k - 1][entry_key(s)] * Base + entry_key(s)[k + 1]
    BY SpelledIs, EntryKeyIs, Zenon
  <2>7. Shifted[Width - k][s] = q * Base + r
    BY <2>3, Zenon
  <2> QED
    BY <2>1, <2>2, <2>4, <2>5, <2>6, <2>7
<1>3. Width \in Nat /\ G \in SUBSET (0 .. Width)
  OBVIOUS
<1>4. G = 0 .. Width
  <2> HIDE DEF G
  <2> QED
    BY <1>1, <1>2, <1>3, Induct
<1> QED
  BY <1>4

(* seq_of reads a number back from its key.                                *)
LEMMA ReadBack ==
  ASSUME NEW s \in 0 .. MaxSeq
  PROVE  seq_of(entry_key(s)) = s
<1>1. Width \in 0 .. Width /\ Width - Width = 0
  OBVIOUS
<1>2. Spelled[Width][entry_key(s)] = Shifted[0][s]
  BY <1>1, SpelledKey
<1> QED
  BY <1>2, RecursionTypes DEF seq_of

(* Taking bytes away keeps the order of two numbers.                       *)
LEMMA ShiftedMonotone ==
  ASSUME NEW s \in 0 .. MaxSeq, NEW t \in 0 .. MaxSeq, s <= t
  PROVE  \A j \in 0 .. Width : Shifted[j][s] <= Shifted[j][t]
<1> DEFINE G == {j \in 0 .. Width : Shifted[j][s] <= Shifted[j][t]}
<1>1. 0 \in G
  BY RecursionTypes
<1>2. ASSUME NEW j \in 1 .. Width, j - 1 \in G PROVE j \in G
  <2>1. j \in 0 .. Width /\ j - 1 \in 0 .. Width /\ Shifted[j - 1][s] <= Shifted[j - 1][t]
    BY <1>2
  <2>2. Shifted[j - 1][s] \in Nat /\ Shifted[j - 1][t] \in Nat
    BY <2>1, RecursionTypes
  <2>3. Shifted[j - 1][s] \div Base <= Shifted[j - 1][t] \div Base
    BY <2>1, <2>2, DivMonotone, Zenon
  <2>4. Shifted[j][s] = Shifted[j - 1][s] \div Base /\ Shifted[j][t] = Shifted[j - 1][t] \div Base
    BY ShiftedIs, Zenon
  <2>5. Shifted[j][s] <= Shifted[j][t]
    BY <2>3, <2>4, Zenon
  <2> QED
    BY <2>1, <2>5
<1>3. Width \in Nat /\ G \in SUBSET (0 .. Width)
  OBVIOUS
<1>4. G = 0 .. Width
  <2> HIDE DEF G
  <2> QED
    BY <1>1, <1>2, <1>3, Induct
<1> QED
  BY <1>4

-----------------------------------------------------------------------------
(* The order of keys.                                                      *)

(* One key comes before another: a byte is less, the ones before it equal. *)
Before(a, b) == \E k \in 1 .. (Width + 1) : a[k] < b[k] /\ \A j \in 1 .. (k - 1) : a[j] = b[j]

(* The byte order of keys of the same length, both ways round.             *)
LEMMA BeforeIsLess ==
  ASSUME NEW a \in EntryBytes, NEW b \in EntryBytes,
         Len(a) = Width + 1, Len(b) = Width + 1, Before(a, b)
  PROVE  Leq(a, b) /\ ~Leq(b, a)
<1>1. DOMAIN a = 1 .. (Width + 1) /\ DOMAIN b = 1 .. (Width + 1)
  BY DEF EntryBytes
<1>2. \A k \in 1 .. (Width + 1) : a[k] \in Nat /\ b[k] \in Nat
  BY DEF EntryBytes
<1>3. PICK k \in 1 .. (Width + 1) : a[k] < b[k] /\ \A j \in 1 .. (k - 1) : a[j] = b[j]
  BY DEF Before
<1>4. Leq(a, b)
  BY <1>1, <1>3 DEF Leq
<1>5. ~(\A j \in DOMAIN b : b[j] = a[j])
  BY <1>1, <1>2, <1>3
<1>6. ASSUME NEW i \in 1 .. (Width + 1), b[i] < a[i], \A j \in 1 .. (i - 1) : b[j] = a[j]
      PROVE  FALSE
  <2>1. CASE i < k
    <3>1. i \in 1 .. (k - 1)
      BY <2>1
    <3> QED
      BY <1>2, <1>3, <1>6, <3>1
  <2>2. CASE k < i
    <3>1. k \in 1 .. (i - 1)
      BY <2>2
    <3> QED
      BY <1>2, <1>3, <1>6, <3>1
  <2>3. CASE i = k
    BY <1>2, <1>3, <1>6, <2>3
  <2> QED
    BY <2>1, <2>2, <2>3
<1> QED
  BY <1>1, <1>4, <1>5, <1>6 DEF Leq

(* Keys that differ have a first byte where they differ.                   *)
LEMMA FirstDifference ==
  ASSUME NEW a \in EntryBytes, NEW b \in EntryBytes, a # b
  PROVE  \E k \in 1 .. (Width + 1) : a[k] # b[k] /\ \A j \in 1 .. (k - 1) : a[j] = b[j]
<1> DEFINE G == {k \in 0 .. (Width + 1) : \A j \in 1 .. k : a[j] = b[j]}
<1> SUFFICES ASSUME ~(\E k \in 1 .. (Width + 1) : a[k] # b[k] /\ \A j \in 1 .. (k - 1) : a[j] = b[j])
             PROVE  FALSE
  OBVIOUS
<1>1. Width + 1 \in Nat /\ G \in SUBSET (0 .. (Width + 1)) /\ 0 \in G
  OBVIOUS
<1>2. ASSUME NEW k \in 1 .. (Width + 1), k - 1 \in G PROVE k \in G
  <2>1. \A j \in 1 .. (k - 1) : a[j] = b[j]
    BY <1>2
  <2>2. a[k] = b[k]
    BY <2>1
  <2>3. \A j \in 1 .. k : j \in 1 .. (k - 1) \/ j = k
    OBVIOUS
  <2> QED
    BY <2>1, <2>2, <2>3
<1>3. G = 0 .. (Width + 1)
  <2> HIDE DEF G
  <2> QED
    BY <1>1, <1>2, Induct
<1>4. \A j \in 1 .. (Width + 1) : a[j] = b[j]
  BY <1>1, <1>3
<1> QED
  BY <1>4 DEF EntryBytes

(* The order of two numbers is the order of their keys.                    *)
LEMMA KeyBefore ==
  ASSUME NEW s \in 0 .. MaxSeq, NEW t \in 0 .. MaxSeq, s < t
  PROVE  Before(entry_key(s), entry_key(t))
<1> DEFINE a == entry_key(s)
           b == entry_key(t)
<1>1. a \in EntryBytes /\ b \in EntryBytes /\ a[1] = 1 /\ b[1] = 1
  BY EntryKeyIs
<1>2. a # b
  BY ReadBack
<1>3. PICK k \in 1 .. (Width + 1) : a[k] # b[k] /\ \A j \in 1 .. (k - 1) : a[j] = b[j]
  BY <1>1, <1>2, FirstDifference
<1>4. \A m \in 0 .. Width : Spelled[m][a] <= Spelled[m][b]
  <2> SUFFICES ASSUME NEW m \in 0 .. Width PROVE Spelled[m][a] <= Spelled[m][b]
    OBVIOUS
  <2>1. Width - m \in 0 .. Width
    OBVIOUS
  <2>2. Shifted[Width - m][s] <= Shifted[Width - m][t]
    BY <2>1, ShiftedMonotone
  <2> QED
    BY <2>2, SpelledKey
<1> HIDE DEF a, b
<1>5. k - 1 \in 1 .. Width /\ (k - 1) + 1 = k /\ k - 2 \in 0 .. Width /\ (k - 1) - 1 = k - 2
  BY <1>1, <1>3
<1>6. Spelled[k - 2][a] = Spelled[k - 2][b]
  <2> DEFINE G == {m \in 0 .. (k - 2) : Spelled[m][a] = Spelled[m][b]}
  <2>1. k - 2 \in Nat /\ G \in SUBSET (0 .. (k - 2)) /\ 0 \in G
    BY <1>1, <1>5, RecursionTypes
  <2>2. ASSUME NEW m \in 1 .. (k - 2), m - 1 \in G PROVE m \in G
    <3>1. m \in 0 .. (k - 2) /\ m \in 1 .. Width /\ m + 1 \in 1 .. (k - 1)
      BY <1>5
    <3>2. Spelled[m - 1][a] = Spelled[m - 1][b] /\ a[m + 1] = b[m + 1]
      BY <1>3, <2>2, <3>1
    <3>3. /\ Spelled[m][a] = Spelled[m - 1][a] * Base + a[m + 1]
          /\ Spelled[m][b] = Spelled[m - 1][b] * Base + b[m + 1]
      BY <1>1, <3>1, SpelledIs, Zenon
    <3> QED
      BY <3>1, <3>2, <3>3
  <2>3. G = 0 .. (k - 2)
    <3> HIDE DEF G
    <3> QED
      BY <2>1, <2>2, Induct
  <2> QED
    BY <2>1, <2>3
<1>7. /\ Spelled[k - 1][a] = Spelled[k - 2][a] * Base + a[k]
      /\ Spelled[k - 1][b] = Spelled[k - 2][b] * Base + b[k]
  <2>1. /\ Spelled[k - 1][a] = Spelled[(k - 1) - 1][a] * Base + a[(k - 1) + 1]
        /\ Spelled[k - 1][b] = Spelled[(k - 1) - 1][b] * Base + b[(k - 1) + 1]
    BY <1>1, <1>5, SpelledIs, Zenon
  <2> QED
    BY <1>5, <2>1
<1>8. Spelled[k - 1][a] <= Spelled[k - 1][b]
  BY <1>4, <1>5
<1>9. a[k] \in Nat /\ b[k] \in Nat /\ Spelled[k - 2][a] * Base \in Nat
  <2>1. a[k] \in Nat /\ b[k] \in Nat
    BY <1>1 DEF EntryBytes
  <2>2. Spelled[k - 2][a] \in Nat
    BY <1>1, <1>5, RecursionTypes
  <2> QED
    BY <2>1, <2>2
<1>10. a[k] < b[k]
  BY <1>3, <1>6, <1>7, <1>8, <1>9
<1> QED
  BY <1>3, <1>10 DEF Before, a, b

(* Keys are ordered as their numbers.                                      *)
LEMMA KeyOrder ==
  ASSUME NEW s \in 0 .. MaxSeq, NEW t \in 0 .. MaxSeq
  PROVE  Leq(entry_key(s), entry_key(t)) <=> s <= t
<1>1. /\ entry_key(s) \in EntryBytes /\ Len(entry_key(s)) = Width + 1
      /\ entry_key(t) \in EntryBytes /\ Len(entry_key(t)) = Width + 1
  BY EntryKeyIs, Zenon
<1>2. CASE s < t
  <2>1. Leq(entry_key(s), entry_key(t))
    BY <1>1, <1>2, KeyBefore, BeforeIsLess
  <2> QED
    BY <1>2, <2>1
<1>3. CASE s = t
  BY <1>1, <1>3 DEF Leq
<1>4. CASE t < s
  <2>1. ~Leq(entry_key(s), entry_key(t))
    BY <1>1, <1>4, KeyBefore, BeforeIsLess
  <2> QED
    BY <1>4, <2>1
<1> QED
  BY <1>2, <1>3, <1>4

(* No entry's key is after ENTRY_HIGH.                                     *)
LEMMA KeyBelowHigh ==
  ASSUME NEW s \in 0 .. MaxSeq
  PROVE  Leq(entry_key(s), ENTRY_HIGH)
<1> DEFINE a == entry_key(s)
           b == ENTRY_HIGH
<1>1. /\ a \in EntryBytes /\ b \in EntryBytes /\ a[1] = 1 /\ b[1] = 1
      /\ Len(a) = Width + 1 /\ Len(b) = Width + 1
      /\ \A k \in 1 .. Width : b[k + 1] = Base - 1
  BY EntryKeyIs, EntryHighIs
<1> HIDE DEF a, b
<1>2. CASE a = b
  <2>1. Leq(a, b)
    BY <1>1, <1>2 DEF Leq
  <2> QED
    BY <2>1 DEF a, b
<1>3. CASE a # b
  <2>1. PICK k \in 1 .. (Width + 1) : a[k] # b[k] /\ \A j \in 1 .. (k - 1) : a[j] = b[j]
    BY <1>1, <1>3, FirstDifference
  <2>2. k - 1 \in 1 .. Width /\ (k - 1) + 1 = k
    BY <1>1, <2>1
  <2>3. b[k] = Base - 1
    BY <1>1, <2>2
  <2>4. a[k] \in 0 .. (Base - 1)
    BY <1>1 DEF EntryBytes
  <2>5. a[k] < b[k]
    BY <2>1, <2>3, <2>4
  <2>6. Before(a, b)
    BY <2>1, <2>5 DEF Before
  <2>7. Leq(a, b)
    BY <1>1, <2>6, BeforeIsLess
  <2> QED
    BY <2>7 DEF a, b
<1> QED
  BY <1>2, <1>3

(* The meta record comes before every entry and is none.                   *)
LEMMA MetaFirst ==
  /\ ~is_entry(META_KEY) /\ Leq(META_KEY, ENTRY_HIGH)
  /\ \A s \in 0 .. MaxSeq : Leq(META_KEY, entry_key(s)) /\ ~Leq(entry_key(s), META_KEY)
<1>1. META_KEY \in Seq(Nat) /\ Len(META_KEY) = 1 /\ META_KEY[1] = 0 /\ DOMAIN META_KEY = {1}
  BY DEF META_KEY
<1> HIDE DEF META_KEY
<1>2. ASSUME NEW a \in EntryBytes, Len(a) = Width + 1, a[1] = 1
      PROVE  Leq(META_KEY, a) /\ ~Leq(a, META_KEY)
  <2>1. DOMAIN a = 1 .. (Width + 1) /\ 1 \in 1 .. (Width + 1) /\ ~(Width + 1 <= 1)
    BY DEF EntryBytes
  <2>2. Leq(META_KEY, a)
    BY <1>1, <1>2, <2>1 DEF Leq
  <2>3. \A k \in DOMAIN a \cap DOMAIN META_KEY : k = 1
    BY <1>1
  <2>4. ~Leq(a, META_KEY)
    BY <1>1, <1>2, <2>1, <2>3 DEF Leq
  <2> QED
    BY <2>2, <2>4
<1>3. ~is_entry(META_KEY)
  BY <1>1 DEF is_entry
<1> QED
  BY <1>2, <1>3, EntryKeyIs, EntryHighIs

-----------------------------------------------------------------------------
(* Seeks over keys are seeks over numbers.                                 *)

(* An entry's key is recognised and read back.                             *)
LEMMA KeyIsEntry ==
  ASSUME NEW s \in 0 .. MaxSeq
  PROVE  is_entry(entry_key(s)) /\ seq_of(entry_key(s)) = s
<1>1. Len(entry_key(s)) = Width + 1 /\ entry_key(s)[1] = 1
  BY EntryKeyIs, Zenon
<1> QED
  BY <1>1, ReadBack DEF is_entry, ENTRY_PREFIX

(* The entries among the keys of some numbers are those numbers, the meta  *)
(* record found or not.                                                    *)
LEMMA EntriesFound ==
  ASSUME NEW found, NEW T \in SUBSET (0 .. MaxSeq),
         \A s \in T : entry_key(s) \in found,
         \A a \in found : a = META_KEY \/ \E s \in T : a = entry_key(s)
  PROVE  EntriesOf(found) = T
<1>1. ASSUME NEW s \in T PROVE s \in EntriesOf(found)
  <2>1. entry_key(s) \in found /\ is_entry(entry_key(s)) /\ s = seq_of(entry_key(s))
    BY KeyIsEntry
  <2> QED
    BY <2>1, Zenon DEF EntriesOf
<1>2. ASSUME NEW n \in EntriesOf(found) PROVE n \in T
  <2>1. PICK a \in found : is_entry(a) /\ n = seq_of(a)
    BY Zenon DEF EntriesOf
  <2>2. PICK s \in T : a = entry_key(s)
    BY <2>1, MetaFirst
  <2> QED
    BY <2>1, <2>2, KeyIsEntry
<1> QED
  BY <1>1, <1>2

(* The stored numbers are numbers with a key.                              *)
LEMMA StoredFit == Stored \in SUBSET (0 .. MaxSeq)
BY DEF Stored, Seqs

(* seek from an entry's key is Store's Seek from its number.               *)
LEMMA SeekFollows ==
  ASSUME NEW s \in 0 .. MaxSeq
  PROVE  EntriesOf(KeySeek(Keys(Stored), entry_key(s))) = Seek(s)
<1> DEFINE found == KeySeek(Keys(Stored), entry_key(s))
<1>1. Seek(s) \in SUBSET (0 .. MaxSeq) /\ Seek(s) \in SUBSET Stored
  BY StoredFit DEF Seek
<1>2. ASSUME NEW u \in Stored PROVE u \in Seek(s) <=> entry_key(u) \in found
  <2>1. u \in 0 .. MaxSeq /\ entry_key(u) \in Keys(Stored)
    BY StoredFit DEF Keys
  <2>2. Leq(entry_key(s), entry_key(u)) <=> s <= u
    BY <2>1, KeyOrder
  <2>3. ASSUME NEW t \in Stored
        PROVE  /\ t \in 0 .. MaxSeq /\ entry_key(t) \in Keys(Stored)
               /\ Leq(entry_key(s), entry_key(t)) <=> s <= t
               /\ Leq(entry_key(u), entry_key(t)) <=> u <= t
    <3>1. t \in 0 .. MaxSeq /\ entry_key(t) \in Keys(Stored)
      BY StoredFit DEF Keys
    <3> QED
      BY <2>1, <3>1, KeyOrder
  <2>4. u \in Seek(s) <=> (s <= u /\ \A t \in Stored : s <= t => u <= t)
    BY <2>1, <2>3 DEF Seek
  <2>5. entry_key(u) \in found
        <=> Leq(entry_key(s), entry_key(u))
            /\ \A b \in Keys(Stored) : Leq(entry_key(s), b) => Leq(entry_key(u), b)
    BY <2>1 DEF KeySeek
  <2>6. (\A b \in Keys(Stored) : Leq(entry_key(s), b) => Leq(entry_key(u), b))
        <=> (\A t \in Stored : s <= t => u <= t)
    <3>1. \A b \in Keys(Stored) : b = META_KEY \/ \E t \in Stored : b = entry_key(t)
      BY DEF Keys
    <3>2. ~Leq(entry_key(s), META_KEY)
      BY MetaFirst
    <3> QED
      BY <2>3, <3>1, <3>2, Zenon
  <2> QED
    BY <2>2, <2>4, <2>5, <2>6
<1>3. ASSUME NEW a \in found PROVE \E u \in Seek(s) : a = entry_key(u)
  <2>1. a \in Keys(Stored) /\ Leq(entry_key(s), a)
    BY DEF KeySeek
  <2>2. a # META_KEY
    BY <2>1, MetaFirst
  <2>3. PICK u \in Stored : a = entry_key(u)
    BY <2>1, <2>2 DEF Keys
  <2> QED
    BY <1>2, <1>3, <2>3
<1> HIDE DEF found
<1>4. \A u \in Seek(s) : entry_key(u) \in found
  BY <1>1, <1>2
<1>5. EntriesOf(found) = Seek(s)
  BY <1>1, <1>3, <1>4, EntriesFound
<1> QED
  BY <1>5 DEF found

(* seek_back from ENTRY_HIGH is Store's SeekBack.                          *)
LEMMA SeekBackFollows == EntriesOf(KeySeekBack(Keys(Stored), ENTRY_HIGH)) = SeekBack
<1> DEFINE found == KeySeekBack(Keys(Stored), ENTRY_HIGH)
<1>1. SeekBack \in SUBSET (0 .. MaxSeq) /\ SeekBack \in SUBSET Stored
  BY StoredFit DEF SeekBack
<1>2. ASSUME NEW u \in Stored PROVE u \in SeekBack <=> entry_key(u) \in found
  <2>1. u \in 0 .. MaxSeq /\ entry_key(u) \in Keys(Stored)
    BY StoredFit DEF Keys
  <2>2. Leq(entry_key(u), ENTRY_HIGH) /\ Leq(META_KEY, entry_key(u))
    BY <2>1, KeyBelowHigh, MetaFirst
  <2>3. ASSUME NEW t \in Stored
        PROVE  /\ entry_key(t) \in Keys(Stored) /\ Leq(entry_key(t), ENTRY_HIGH)
               /\ Leq(entry_key(t), entry_key(u)) <=> t <= u
    <3>1. t \in 0 .. MaxSeq /\ entry_key(t) \in Keys(Stored)
      BY StoredFit DEF Keys
    <3> QED
      BY <2>1, <3>1, KeyOrder, KeyBelowHigh
  <2>4. u \in SeekBack <=> \A t \in Stored : t <= u
    BY DEF SeekBack
  <2>5. entry_key(u) \in found
        <=> \A b \in Keys(Stored) : Leq(b, ENTRY_HIGH) => Leq(b, entry_key(u))
    BY <2>1, <2>2 DEF KeySeekBack
  <2>6. (\A b \in Keys(Stored) : Leq(b, ENTRY_HIGH) => Leq(b, entry_key(u)))
        <=> (\A t \in Stored : t <= u)
    <3>1. \A b \in Keys(Stored) : b = META_KEY \/ \E t \in Stored : b = entry_key(t)
      BY DEF Keys
    <3> QED
      BY <2>2, <2>3, <3>1, Zenon
  <2> QED
    BY <2>4, <2>5, <2>6
<1>3. ASSUME NEW a \in found PROVE a = META_KEY \/ \E u \in SeekBack : a = entry_key(u)
  <2> SUFFICES ASSUME a # META_KEY PROVE \E u \in SeekBack : a = entry_key(u)
    OBVIOUS
  <2>1. a \in Keys(Stored)
    BY DEF KeySeekBack
  <2>2. PICK u \in Stored : a = entry_key(u)
    BY <2>1 DEF Keys
  <2> QED
    BY <1>2, <1>3, <2>2
<1> HIDE DEF found
<1>4. \A u \in SeekBack : entry_key(u) \in found
  BY <1>1, <1>2
<1>5. EntriesOf(found) = SeekBack
  BY <1>1, <1>3, <1>4, EntriesFound
<1> QED
  BY <1>5 DEF found

(* Every seek of the queue over the byte strings it stores (reserve's and  *)
(* the recovery scan's from entry_key, the recovery's seek_back from       *)
(* ENTRY_HIGH) finds the entry Store finds by its number, and seq_of reads *)
(* that number back: for every size of a byte, every number of bytes and   *)
(* every set of entries whose numbers fit.                                 *)
THEOREM KeysFollowNumbers == KeysInOrder
BY SeekFollows, SeekBackFollows DEF KeysInOrder

=============================================================================
