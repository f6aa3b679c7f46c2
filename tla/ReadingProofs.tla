--------------------------- MODULE ReadingProofs ---------------------------
(***************************************************************************)
(* What the program reads is what was written, for inputs of any length.   *)
(* The code reads in loops and the models in recursive functions, so the   *)
(* proofs need induction.  The library has it only with an operator for    *)
(* the induction hypothesis; here the hypothesis is a set of numbers.      *)
(***************************************************************************)
EXTENDS Reading, WellFoundedInduction, SequenceTheorems, TLAPS

(* A set of natural numbers that is not empty has a smallest one.          *)
LEMMA Least ==
    ASSUME NEW S \in SUBSET Nat, S # {}
    PROVE  \E n \in S : \A m \in S : n <= m
<1> DEFINE R == {ss \in Nat \X Nat : ss[1] < ss[2]}
<1>1. IsWellFoundedOn(R, Nat)
  BY NatLessThanWellFounded, Zenon DEF OpToRel
<1>2. PICK x \in S : \A y \in S : << y, x >> \notin R
  <2> HIDE DEF R
  <2> QED  BY <1>1, WFMin, Zenon
<1>3. ASSUME NEW m \in S PROVE x <= m
  <2>1. m \in Nat /\ x \in Nat
    OBVIOUS
  <2>2. m < x => << m, x >> \in R
    BY <2>1
  <2> QED  BY <1>2, <2>1, <2>2
<1> QED  BY <1>3

(* Induction up to n: a set that has 0 and, with any number below n, the   *)
(* next, has them all.                                                     *)
LEMMA Upwards ==
    ASSUME NEW n \in Nat, NEW S, 0 \in S, \A k \in 0 .. n - 1 : k \in S => k + 1 \in S
    PROVE  \A k \in 0 .. n : k \in S
<1> DEFINE Missing == {k \in 0 .. n : k \notin S}
<1> SUFFICES ASSUME Missing # {} PROVE FALSE
  OBVIOUS
<1>1. PICK k \in Missing : \A m \in Missing : k <= m
  <2>1. Missing \in SUBSET Nat
    OBVIOUS
  <2> HIDE DEF Missing
  <2> QED  BY <2>1, Least
<1>2. k \in 1 .. n /\ k - 1 \notin Missing
  BY <1>1
<1> QED  BY <1>1, <1>2

(* There is a loop that runs from start through n steps.                   *)
Runs(V, start, n, step) ==
    \E f \in [0 .. n -> V] :
        f[0] = start /\ \A k \in 1 .. n : f[k] = step[<< k, f[k - 1] >>]

(* A first value and how each value comes from the one before define a     *)
(* function on 0 .. n.                                                     *)
LEMMA Recursion ==
    ASSUME NEW V, NEW start \in V, NEW n \in Nat, NEW step \in [(1 .. n) \X V -> V]
    PROVE  Runs(V, start, n, step)
<1> DEFINE Good(f, m) == f[0] = start /\ \A k \in 1 .. m : f[k] = step[<< k, f[k - 1] >>]
           S == {m \in Nat : \E f \in [0 .. m -> V] : Good(f, m)}
<1>1. 0 \in S
  <2> DEFINE f == [k \in 0 .. 0 |-> start]
  <2>1. f \in [0 .. 0 -> V] /\ Good(f, 0)
    OBVIOUS
  <2> QED  BY <2>1
<1>2. ASSUME NEW m \in 0 .. n - 1, m \in S PROVE m + 1 \in S
  <2>1. PICK f \in [0 .. m -> V] : Good(f, m)
    BY <1>2
  <2> DEFINE last == step[<< m + 1, f[m] >>]
             g == [k \in 0 .. m + 1 |-> IF k = m + 1 THEN last ELSE f[k]]
  <2>2. last \in V
    BY <2>1
  <2>3. g \in [0 .. m + 1 -> V]
    <3> HIDE DEF last
    <3> QED  BY <2>1, <2>2
  <2>4. g[0] = start
    BY <2>1
  <2>5. ASSUME NEW k \in 1 .. m + 1 PROVE g[k] = step[<< k, g[k - 1] >>]
    <3>1. CASE k = m + 1
      <4>1. g[k] = step[<< m + 1, f[m] >>] /\ g[k - 1] = f[m] /\ k = m + 1
        BY <3>1
      <4> HIDE DEF g
      <4> QED  BY <4>1
    <3>2. CASE k # m + 1
      <4>1. k \in 1 .. m /\ g[k] = f[k] /\ g[k - 1] = f[k - 1]
        BY <3>2
      <4>2. f[k] = step[<< k, f[k - 1] >>]
        BY <2>1, <4>1
      <4> HIDE DEF g
      <4> QED  BY <4>1, <4>2
    <3> QED  BY <3>1, <3>2
  <2>6. Good(g, m + 1)
    <3> HIDE DEF g
    <3> QED  BY <2>4, <2>5
  <2> QED
    <3> HIDE DEF g, Good
    <3> QED  BY <2>3, <2>6
<1>3. n \in S
  <2> HIDE DEF S
  <2> QED  BY <1>1, <1>2, Upwards
<1> QED  BY <1>3 DEF Runs

(* Such a function stays in a set that every step stays in.                *)
LEMMA StaysIn ==
    ASSUME NEW V, NEW n \in Nat, NEW f, f = [k \in 0 .. n |-> f[k]], f[0] \in V,
           \A k \in 1 .. n : f[k - 1] \in V => f[k] \in V
    PROVE  f \in [0 .. n -> V]
<1> DEFINE S == {k \in 0 .. n : f[k] \in V}
<1>1. 0 \in S
  OBVIOUS
<1>2. ASSUME NEW k \in 0 .. n - 1, k \in S PROVE k + 1 \in S
  <2>1. k + 1 \in 1 .. n /\ (k + 1) - 1 = k /\ f[k] \in V
    BY <1>2
  <2>2. f[(k + 1) - 1] \in V => f[k + 1] \in V
    BY <2>1
  <2> QED  BY <2>1, <2>2
<1>3. \A k \in 0 .. n : k \in S
  <2> HIDE DEF S
  <2> QED  BY <1>1, <1>2, Upwards
<1> QED  BY <1>3

-----------------------------------------------------------------------------
(* The AUX device                                                          *)

(* The least of some numbers is one of them.                               *)
LEMMA MinIsIn ==
    ASSUME NEW S \in SUBSET Nat, S # {}
    PROVE  Min(S) \in S
<1>1. \E n \in S : \A m \in S : n <= m
  BY Least
<1> QED  BY <1>1 DEF Min

(* Whatever route finds the AUX device, it belongs to the connector of the *)
(* adapter's name, if that has one and no other connector may be mistaken  *)
(* for it.                                                                 *)
LEMMA AuxFound ==
    ASSUME NEW adapter \in 0 .. 999, NEW n \in 0 .. 10, NEW machine \in AnyMachine(n),
           \A k \in DOMAIN machine.owner : machine.owner[k] \in machine.connectors
    PROVE  AuxIsOurs(machine, adapter)
<1> DEFINE Aux == DOMAIN machine.owner
           c == FindConnector(machine, adapter)
           inside == {k \in Aux : machine.inside[k] /\ machine.owner[k] = c}
           linked == {k \in Aux : machine.linked[k] /\ c # NoConnector
                                  /\ FoundIn(c, machine.owner[k])}
           ours == {k \in Aux : machine.owner[k].name = adapter
                                /\ (machine.inside[k] \/ machine.linked[k])}
           alike == {d \in machine.connectors : d.name = adapter \/ FoundIn(c, d)}
<1>1. /\ machine.connectors \in SUBSET Connector /\ Aux = 0 .. n - 1
      /\ \A k \in Aux : machine.owner[k] \in machine.connectors
  BY DEF AnyMachine
<1>2. Tunneling(machine, adapter) = IF inside # {} THEN Min(inside)
                                    ELSE IF linked # {} THEN Min(linked)
                                    ELSE FirstAux({k \in Aux : k = 0})
  BY DEF Tunneling, FindAux
<1> HIDE DEF c
<1>3. Aux = {} => Tunneling(machine, adapter) = NoAux
  BY <1>2 DEF FirstAux
<1>4. ASSUME ours # {}, alike = {c} PROVE Tunneling(machine, adapter) \in ours
  <2>1. PICK o \in ours : TRUE
    BY <1>4
  <2>2. machine.owner[o] = c /\ c.name = adapter /\ c \in Connector
    BY <2>1, <1>1, <1>4
  <2>3. inside \subseteq ours
    BY <2>2
  <2>4. linked \subseteq ours
    <3>1. ASSUME NEW k \in linked PROVE machine.owner[k] = c
      BY <1>1, <1>4
    <3> QED  BY <3>1, <2>2
  <2>5. c # NoConnector /\ FoundIn(c, c)
    BY <2>2 DEF NoConnector, Connector, FoundIn
  <2>6. inside # {} \/ linked # {}
    BY <2>1, <2>2, <2>5
  <2>7. inside \in SUBSET Nat /\ linked \in SUBSET Nat
    BY <1>1
  <2> HIDE DEF inside, linked, ours
  <2>8. inside # {} => Min(inside) \in inside
    BY <2>7, MinIsIn
  <2>9. linked # {} => Min(linked) \in linked
    BY <2>7, MinIsIn
  <2> QED  BY <1>2, <2>3, <2>4, <2>6, <2>8, <2>9
<1> QED  BY <1>3, <1>4 DEF AuxIsOurs, c

-----------------------------------------------------------------------------
(* The bitmaps                                                             *)

(* A word of a bitmap is made bit by bit from the highest.                 *)
Makes(word, bits, index, width) ==
    /\ word \in [0 .. width -> Nat]
    /\ word[0] = 0 /\ word[width] = WordOf(bits, index, width)
    /\ \A k \in 1 .. width :
          word[k] = 2 * word[k - 1] + IF index * width + width - k \in bits THEN 1 ELSE 0

LEMMA WordMade ==
    ASSUME NEW bits, NEW index \in Nat, NEW width \in Nat \ {0}
    PROVE  \E word : Makes(word, bits, index, width)
<1> DEFINE Bit(k) == IF index * width + width - k \in bits THEN 1 ELSE 0
           step == [p \in (1 .. width) \X Nat |-> 2 * p[2] + Bit(p[1])]
           Rule(f) == [k \in 0 .. width |-> IF k = 0 THEN 0 ELSE 2 * f[k - 1] + Bit(k)]
           word == CHOOSE f : f = Rule(f)
<1>1. step \in [(1 .. width) \X Nat -> Nat]
  <2>1. \A k \in 1 .. width : Bit(k) \in Nat
    OBVIOUS
  <2> HIDE DEF Bit
  <2> QED  BY <2>1
<1>2. PICK f \in [0 .. width -> Nat] :
           f[0] = 0 /\ \A k \in 1 .. width : f[k] = step[<< k, f[k - 1] >>]
  <2>1. 0 \in Nat /\ width \in Nat
    OBVIOUS
  <2> HIDE DEF step
  <2>2. Runs(Nat, 0, width, step)
    BY <1>1, <2>1, Recursion
  <2> QED  BY <2>2 DEF Runs
<1>3. ASSUME NEW k \in 1 .. width PROVE f[k] = 2 * f[k - 1] + Bit(k)
  <2>1. << k, f[k - 1] >> \in (1 .. width) \X Nat
    BY <1>2
  <2>2. step[<< k, f[k - 1] >>] = 2 * f[k - 1] + Bit(k)
    <3> HIDE DEF Bit
    <3> QED  BY <2>1
  <2> HIDE DEF step, Bit
  <2> QED  BY <1>2, <2>2
<1>4. f = Rule(f)
  <2> HIDE DEF Bit
  <2> QED  BY <1>2, <1>3
<1>5. word = Rule(word)
  <2> HIDE DEF Rule
  <2> QED  BY <1>4
<1>6. word[0] = 0 /\ \A k \in 1 .. width : word[k] = 2 * word[k - 1] + Bit(k)
  <2> HIDE DEF Bit, word
  <2> QED  BY <1>5
<1>7. word \in [0 .. width -> Nat]
  <2>1. word = [k \in 0 .. width |-> word[k]]
    <3> HIDE DEF Bit, word
    <3> QED  BY <1>5
  <2>2. ASSUME NEW k \in 1 .. width, word[k - 1] \in Nat PROVE word[k] \in Nat
    <3>1. word[k] = 2 * word[k - 1] + Bit(k) /\ Bit(k) \in Nat
      <4> HIDE DEF word
      <4> QED  BY <1>6
    <3> HIDE DEF Bit, word
    <3> QED  BY <3>1, <2>2
  <2>3. \A k \in 1 .. width : word[k - 1] \in Nat => word[k] \in Nat
    BY <2>2
  <2>4. word[0] \in Nat /\ width \in Nat
    BY <1>6
  <2> HIDE DEF word
  <2> QED  BY <2>1, <2>3, <2>4, StaysIn
<1>8. word[width] = WordOf(bits, index, width)
  BY DEF WordOf
<1> HIDE DEF word
<1> QED  BY <1>6, <1>7, <1>8 DEF Makes

(* `value >>= 1` leaves half of what there was.                            *)
LEMMA HalvesTaken ==
    ASSUME NEW value \in Nat
    PROVE  \E rest \in [0 .. value -> Nat] :
              /\ rest[0] = value /\ \A k \in 1 .. value : rest[k] = rest[k - 1] \div 2
              /\ BitsOf(value) = {offset \in 0 .. value : rest[offset] % 2 = 1}
<1> DEFINE step == [p \in (1 .. value) \X Nat |-> p[2] \div 2]
           Rule(f) == [k \in 0 .. value |-> IF k = 0 THEN value ELSE f[k - 1] \div 2]
           rest == CHOOSE f : f = Rule(f)
<1>1. step \in [(1 .. value) \X Nat -> Nat]
  OBVIOUS
<1>2. PICK f \in [0 .. value -> Nat] :
           f[0] = value /\ \A k \in 1 .. value : f[k] = step[<< k, f[k - 1] >>]
  <2> HIDE DEF step
  <2>1. Runs(Nat, value, value, step)
    BY <1>1, Recursion
  <2> QED  BY <2>1 DEF Runs
<1>3. ASSUME NEW k \in 1 .. value PROVE f[k] = f[k - 1] \div 2
  <2>1. << k, f[k - 1] >> \in (1 .. value) \X Nat
    BY <1>2
  <2>2. step[<< k, f[k - 1] >>] = f[k - 1] \div 2
    BY <2>1
  <2> HIDE DEF step
  <2> QED  BY <1>2, <2>2
<1>4. f = Rule(f)
  <2> HIDE DEF step
  <2> QED  BY <1>2, <1>3
<1>5. rest = Rule(rest)
  <2> HIDE DEF Rule
  <2> QED  BY <1>4
<1>6. rest[0] = value /\ \A k \in 1 .. value : rest[k] = rest[k - 1] \div 2
  <2> HIDE DEF rest
  <2> QED  BY <1>5
<1>7. rest \in [0 .. value -> Nat]
  <2>1. rest = [k \in 0 .. value |-> rest[k]]
    <3> HIDE DEF rest
    <3> QED  BY <1>5
  <2>2. ASSUME NEW k \in 1 .. value, rest[k - 1] \in Nat PROVE rest[k] \in Nat
    <3> HIDE DEF rest
    <3> QED  BY <1>6, <2>2
  <2> HIDE DEF rest
  <2> QED  BY <1>6, <2>1, <2>2, StaysIn
<1>8. BitsOf(value) = {offset \in 0 .. value : rest[offset] % 2 = 1}
  BY DEF BitsOf
<1> HIDE DEF rest
<1> QED  BY <1>6, <1>7, <1>8

(* Halving the word takes from it, from the lowest, the bits it was made   *)
(* of, and stops only when there is none left.                             *)
LEMMA BitsReadBack ==
    ASSUME NEW bits, NEW index \in Nat, NEW width \in Nat \ {0}
    PROVE  BitsOf(WordOf(bits, index, width))
           = {k \in 0 .. width - 1 : index * width + k \in bits}
<1> DEFINE base == index * width
           Bit(k) == IF base + width - k \in bits THEN 1 ELSE 0
<1>0. PICK word : Makes(word, bits, index, width)
  BY WordMade
<1>1. /\ word \in [0 .. width -> Nat]
      /\ word[0] = 0 /\ word[width] = WordOf(bits, index, width)
      /\ \A k \in 1 .. width : word[k] = 2 * word[k - 1] + Bit(k)
  BY <1>0 DEF Makes
<1> DEFINE value == word[width]
<1>2. value \in Nat /\ base \in Nat /\ value = WordOf(bits, index, width)
  BY <1>1
<1>3. PICK rest \in [0 .. value -> Nat] :
        /\ rest[0] = value /\ \A k \in 1 .. value : rest[k] = rest[k - 1] \div 2
        /\ BitsOf(value) = {offset \in 0 .. value : rest[offset] % 2 = 1}
  <2> HIDE DEF value
  <2> QED  BY <1>2, HalvesTaken
<1>4. ASSUME NEW k \in 1 .. width
      PROVE  word[k] = 2 * word[k - 1] + Bit(k) /\ Bit(k) \in 0 .. 1
             /\ word[k - 1] \in Nat /\ word[k] \in Nat
  <2>1. Bit(k) \in 0 .. 1
    OBVIOUS
  <2> HIDE DEF Bit
  <2> QED  BY <1>1, <2>1
<1> HIDE DEF base
<1>5. ASSUME NEW j \in 0 .. width - 1
      PROVE  Bit(width - j) = 1 <=> base + j \in bits
  <2>1. base + width - (width - j) = base + j
    BY <1>2
  <2> QED  BY <2>1
<1> HIDE DEF Bit
<1> DEFINE Left(j) == IF j <= width THEN word[width - j] ELSE 0
<1>6. \A j \in 0 .. value : rest[j] = Left(j)
  <2> DEFINE S == {j \in 0 .. value : rest[j] = Left(j)}
  <2>1. 0 \in S
    BY <1>2, <1>3
  <2>2. ASSUME NEW j \in 0 .. value - 1, j \in S PROVE j + 1 \in S
    <3>1. rest[j + 1] = rest[j] \div 2 /\ rest[j] = Left(j)
      BY <1>2, <1>3, <2>2
    <3>2. CASE j < width
      <4>1. /\ word[width - j] = 2 * word[width - j - 1] + Bit(width - j)
            /\ Bit(width - j) \in 0 .. 1 /\ word[width - j - 1] \in Nat
        BY <1>4, <3>2
      <4>2. Left(j) = word[width - j] /\ Left(j + 1) = word[width - j - 1]
        BY <3>2
      <4> HIDE DEF Left
      <4>3. \A m \in Nat, b \in 0 .. 1 : (2 * m + b) \div 2 = m
        OBVIOUS
      <4>4. word[width - j] \div 2 = word[width - j - 1]
        BY <4>1, <4>3
      <4>5. rest[j + 1] = Left(j + 1)
        BY <3>1, <4>2, <4>4
      <4> QED  BY <4>5, <1>2
    <3>3. CASE j >= width
      <4>1. Left(j) = 0 /\ Left(j + 1) = 0
        BY <3>3, <1>1
      <4> HIDE DEF Left
      <4> QED  BY <3>1, <4>1, <1>2
    <3> QED  BY <3>2, <3>3
  <2>3. \A j \in 0 .. value : j \in S
    <3> HIDE DEF S, value
    <3> QED  BY <1>2, <2>1, <2>2, Upwards
  <2> QED  BY <2>3
<1>7. ASSUME NEW j \in 0 .. value, rest[j] % 2 = 1
      PROVE  j \in 0 .. width - 1 /\ base + j \in bits
  <2>1. j < width
    BY <1>1, <1>6, <1>7
  <2>2. /\ word[width - j] = 2 * word[width - j - 1] + Bit(width - j)
        /\ Bit(width - j) \in 0 .. 1 /\ word[width - j - 1] \in Nat
    BY <1>4, <2>1
  <2>3. \A m \in Nat, b \in 0 .. 1 : (2 * m + b) % 2 = b
    OBVIOUS
  <2>4. Bit(width - j) = 1
    BY <1>6, <1>7, <2>1, <2>2, <2>3
  <2> QED  BY <1>5, <2>1, <2>4
<1>8. ASSUME NEW j \in 0 .. width - 1, base + j \in bits
      PROVE  j \in 0 .. value /\ rest[j] % 2 = 1
  <2>1. /\ word[width - j] = 2 * word[width - j - 1] + Bit(width - j)
        /\ Bit(width - j) = 1 /\ word[width - j - 1] \in Nat
    BY <1>4, <1>5, <1>8
  <2> DEFINE S == {i \in 0 .. j : word[width - j + i] >= i + 1}
  <2>2. 0 \in S
    BY <2>1
  <2>3. ASSUME NEW i \in 0 .. j - 1, i \in S PROVE i + 1 \in S
    <3> DEFINE k == width - j + i + 1
    <3>1. k \in 1 .. width /\ k - 1 = width - j + i /\ k = width - j + (i + 1)
      OBVIOUS
    <3>2. word[k] = 2 * word[k - 1] + Bit(k) /\ Bit(k) \in 0 .. 1
          /\ word[k - 1] \in Nat /\ word[k - 1] >= i + 1
      BY <1>4, <2>3, <3>1
    <3>3. word[k] >= i + 2
      <4> HIDE DEF k
      <4> QED  BY <3>2
    <3> QED  BY <3>1, <3>3
  <2>4. \A i \in 0 .. j : i \in S
    <3>1. j \in Nat
      OBVIOUS
    <3> HIDE DEF S
    <3> QED  BY <2>2, <2>3, <3>1, Upwards
  <2>5. j \in 0 .. value
    <3>1. word[width - j + j] >= j + 1 /\ width - j + j = width
      BY <2>4
    <3> QED  BY <3>1, <1>2
  <2>6. rest[j] = word[width - j]
    BY <1>6, <2>5
  <2>7. \A m \in Nat : (2 * m + 1) % 2 = 1
    OBVIOUS
  <2> QED  BY <2>1, <2>5, <2>6, <2>7
<1> HIDE DEF value
<1>9. BitsOf(value) = {k \in 0 .. width - 1 : base + k \in bits}
  BY <1>3, <1>7, <1>8
<1> QED  BY <1>2, <1>9 DEF base

(* Every number is as many whole widths as fit and a remainder.            *)
LEMMA Divided ==
    ASSUME NEW width \in Nat \ {0}, NEW bit \in Nat
    PROVE  /\ bit \div width \in Nat /\ (bit % width) \in 0 .. width - 1
           /\ (bit \div width) * width + (bit % width) = bit
  OBVIOUS

(* No number below the highest is in a word above its.                     *)
LEMMA DividedInOrder ==
    ASSUME NEW width \in Nat \ {0}, NEW bit \in Nat, NEW top \in Nat, bit <= top
    PROVE  bit \div width <= top \div width
  OBVIOUS

(* The highest of some of the numbers up to n is one of them.              *)
LEMMA MaxIsIn ==
    ASSUME NEW n \in Nat, NEW S \in SUBSET (0 .. n), S # {}
    PROVE  Max(S) \in S /\ \A m \in S : m <= Max(S)
<1> DEFINE Above == {k \in 0 .. n : \A m \in S : m <= k}
<1>1. n \in Above /\ Above \in SUBSET Nat
  OBVIOUS
<1>2. PICK k \in Above : \A m \in Above : k <= m
  <2> HIDE DEF Above
  <2> QED  BY <1>1, Least
<1>3. k \in S
  <2> SUFFICES ASSUME k \notin S PROVE FALSE
    OBVIOUS
  <2>1. \A m \in S : m <= k - 1
    BY <1>2
  <2>2. k - 1 \in Above
    <3>1. PICK m \in S : m <= k - 1
      BY <2>1
    <3> QED  BY <1>2, <2>1, <3>1
  <2> QED  BY <1>2, <2>2
<1>4. \E x \in S : \A m \in S : x >= m
  BY <1>2, <1>3
<1> QED  BY <1>4 DEF Max

(* Whatever the width of a word, and wherever the gaps are, the buttons    *)
(* read from a bitmap are those the kernel printed.                        *)
LEMMA BitmapRead ==
    ASSUME NEW bits \in SUBSET (0 .. KeyMax), NEW width \in Nat \ {0}, KeyMax \in Nat
    PROVE  BitmapReadBack(bits, width)
<1> DEFINE top == IF bits = {} THEN 0 ELSE Max(bits) \div width
           words == KernelPrints(bits, width)
<1>1. top \in Nat /\ \A bit \in bits : bit \div width <= top
  <2>1. CASE bits = {}
    BY <2>1
  <2>2. CASE bits # {}
    <3>1. Max(bits) \in bits /\ \A bit \in bits : bit <= Max(bits)
      BY <2>2, MaxIsIn
    <3>2. Max(bits) \in Nat /\ \A bit \in bits : bit \in Nat
      <4>1. bits \subseteq Nat
        OBVIOUS
      <4> QED  BY <3>1, <4>1
    <3>3. top = Max(bits) \div width
      BY <2>2
    <3> QED  BY <3>1, <3>2, <3>3, Divided, DividedInOrder
  <2> QED  BY <2>1, <2>2
<1> HIDE DEF top
<1>2. words = [n \in 1 .. top + 1 |-> WordOf(bits, top + 1 - n, width)]
  BY DEF KernelPrints, top
<1>3. ASSUME NEW n \in 1 .. top + 1 PROVE WordOf(bits, top + 1 - n, width) \in Nat
  <2> DEFINE index == top + 1 - n
  <2>1. index \in Nat
    BY <1>1
  <2> HIDE DEF index
  <2>2. PICK word : Makes(word, bits, index, width)
    BY <2>1, WordMade
  <2>3. WordOf(bits, index, width) \in Nat
    BY <2>2 DEF Makes
  <2> QED  BY <2>3 DEF index
<1>4. words \in [1 .. top + 1 -> Nat]
  BY <1>2, <1>3
<1>5. words \in Seq(Nat) /\ Len(words) = top + 1 /\ DOMAIN words = 1 .. top + 1
  <2>1. words \in Seq(Nat)
    BY <1>1, <1>4, SeqDef
  <2> HIDE DEF words
  <2> QED  BY <1>1, <1>4, <2>1, LenProperties
<1>6. ASSUME NEW n \in 1 .. top + 1
      PROVE  Reverse(words)[n] = WordOf(bits, n - 1, width)
  <2>1. top + 1 - n + 1 \in 1 .. top + 1 /\ top + 1 - (top + 1 - n + 1) = n - 1
    BY <1>1
  <2>2. Reverse(words)[n] = words[top + 1 - n + 1]
    <3> HIDE DEF words
    <3> DEFINE len == Len(words)
    <3>1. Reverse(words) = [i \in 1 .. len |-> words[len - i + 1]]
      BY Zenon DEF Reverse
    <3>2. len = top + 1
      BY <1>5
    <3>3. n \in 1 .. len
      BY <1>1, <3>2
    <3> HIDE DEF len
    <3>4. Reverse(words)[n] = words[len - n + 1]
      BY <3>1, <3>3, Zenon
    <3> QED  BY <1>1, <3>2, <3>4
  <2> QED  BY <1>2, <2>1, <2>2
<1> DEFINE Read(n) == {(n - 1) * width + offset :
                          offset \in {k \in 0 .. width - 1 : (n - 1) * width + k \in bits}}
<1>7. ParseBitmap(words, width) = UNION {Read(n) : n \in 1 .. top + 1}
  <2>1. ASSUME NEW n \in 1 .. top + 1
        PROVE  BitsOf(Reverse(words)[n])
               = {k \in 0 .. width - 1 : (n - 1) * width + k \in bits}
    BY <1>1, <1>6, BitsReadBack
  <2> DEFINE Parsed(n) == {(n - 1) * width + offset : offset \in BitsOf(Reverse(words)[n])}
  <2>2. ASSUME NEW n \in 1 .. top + 1 PROVE Parsed(n) = Read(n)
    <3> HIDE DEF words
    <3> QED  BY <2>1, Zenon
  <2>3. ParseBitmap(words, width)
        = UNION {Parsed(n) : n \in 1 .. top + 1}
    <3> HIDE DEF words
    <3> QED  BY <1>5, Zenon DEF ParseBitmap
  <2> HIDE DEF words, Read, Parsed
  <2>4. {Parsed(n) : n \in 1 .. top + 1} = {Read(n) : n \in 1 .. top + 1}
    BY <2>2
  <2> QED  BY <2>3, <2>4
<1>8. UNION {Read(n) : n \in 1 .. top + 1} \subseteq bits
  OBVIOUS
<1>9. ASSUME NEW bit \in bits PROVE bit \in UNION {Read(n) : n \in 1 .. top + 1}
  <2> DEFINE n == bit \div width + 1
             k == bit % width
  <2>1. bit \in Nat /\ bit \div width <= top
    BY <1>1
  <2>2. bit \div width \in Nat /\ k \in 0 .. width - 1 /\ (bit \div width) * width + k = bit
    BY <2>1, Divided
  <2>3. n \in 1 .. top + 1 /\ n - 1 = bit \div width
    BY <1>1, <2>1, <2>2
  <2>4. (n - 1) * width + k = bit
    <3> HIDE DEF n, k
    <3> QED  BY <2>2, <2>3
  <2>5. bit \in Read(n)
    <3> HIDE DEF n, k
    <3> QED  BY <2>2, <2>4
  <2> HIDE DEF n, Read
  <2> QED  BY <2>3, <2>5
<1> QED  BY <1>7, <1>8, <1>9 DEF BitmapReadBack

-----------------------------------------------------------------------------
(* The extra frames                                                        *)

(* A frame with an operation and nothing behind it.                        *)
LEMMA SimpleOurs ==
    ASSUME NEW entry, NEW initiator \in 0 .. 15, NEW follower \in 0 .. 15, NEW phys,
           NEW op \in DOMAIN Opcode \ CarryAddress
    PROVE  LET frame == Simple(initiator, follower, op)
           IN  frame.is = "frame" /\ IsOurs(frame, entry, initiator, phys)
<1> DEFINE data == << Header(initiator, follower), Opcode[op] >>
           frame == Simple(initiator, follower, op)
<1>1. Len(data) = 2 /\ data[1] = initiator * 16 + follower /\ data[2] = Opcode[op]
  BY DEF Header
<1>2. frame = [is |-> "frame", data |-> data]
  <2> HIDE DEF data
  <2>1. Frame(data) = [is |-> "frame", data |-> data]
    BY <1>1 DEF Frame
  <2> QED  BY <2>1 DEF Simple, data
<1>3. \A c \in CarryAddress : Opcode[c] # Opcode[op]
  BY DEF CarryAddress, Opcode
<1>4. (initiator * 16 + follower) \div 16 = initiator
  OBVIOUS
<1> HIDE DEF data
<1>5. Initiator(frame) = initiator
  BY <1>1, <1>2, <1>4 DEF Initiator
<1>6. \A c \in CarryAddress : ~HasOp(frame, c)
  BY <1>1, <1>2, <1>3 DEF HasOp
<1>7. "ActiveSource" \in CarryAddress /\ "SetStreamPath" \in CarryAddress
  BY DEF CarryAddress
<1> HIDE DEF frame
<1>8. frame.is = "frame" /\ Len(frame.data) \in 1 .. 16
  BY <1>1, <1>2
<1> QED  BY <1>5, <1>6, <1>7, <1>8 DEF IsOurs, frame

(* Four bytes of which two are the operands.                               *)
LEMMA FourBytes ==
    ASSUME NEW a \in Int, NEW b \in Int, NEW c \in Int, NEW d \in Int
    PROVE  LET data == << a, b >> \o << c, d >>
           IN  Len(data) = 4 /\ data[1] = a /\ data[2] = b /\ data[3] = c /\ data[4] = d
<1> DEFINE s == << a, b >>
           t == << c, d >>
<1>1. s \in Seq(Int) /\ Len(s) = 2 /\ s[1] = a /\ s[2] = b
  OBVIOUS
<1>2. t \in Seq(Int) /\ Len(t) = 2 /\ t[1] = c /\ t[2] = d
  OBVIOUS
<1> HIDE DEF s, t
<1>3. /\ Len(s \o t) = Len(s) + Len(t)
      /\ \A i \in 1 .. Len(s) + Len(t) :
            (s \o t)[i] = IF i <= Len(s) THEN s[i] ELSE t[i - Len(s)]
  BY <1>1, <1>2, ConcatProperties
<1>4. (s \o t)[1] = s[1] /\ (s \o t)[2] = s[2] /\ (s \o t)[3] = t[1] /\ (s \o t)[4] = t[2]
  BY <1>1, <1>2, <1>3
<1> QED  BY <1>1, <1>2, <1>3, <1>4 DEF s, t

(* Two bytes hold a physical address.                                      *)
LEMMA TwoBytes ==
    ASSUME NEW phys \in PhysicalAddress
    PROVE  /\ (phys \div 256) % 256 \in Int /\ (phys % 256) \in Int
           /\ ((phys \div 256) % 256) * 256 + (phys % 256) = phys
<1> DEFINE high == phys \div 256
           low == phys % 256
<1>0. phys \in Nat /\ phys <= 65535
  BY DEF PhysicalAddress
<1>1. high \in Nat /\ low \in 0 .. 255 /\ high * 256 + low = phys
  BY <1>0
<1> HIDE DEF high, low
<1>2. high <= 255
  BY <1>0, <1>1
<1>3. high % 256 = high
  BY <1>1, <1>2
<1> QED  BY <1>1, <1>3 DEF high, low

(* A frame with our physical address behind its operation, which is        *)
(* broadcast if it claims the screen.                                      *)
LEMMA WithPhysOurs ==
    ASSUME NEW entry, NEW initiator \in 0 .. 15, NEW follower \in 0 .. 15,
           NEW phys \in PhysicalAddress, NEW op \in CarryAddress,
           op \in {"ActiveSource", "SetStreamPath"} => follower = Broadcast
    PROVE  LET frame == WithPhys(initiator, follower, op, phys)
           IN  frame.is = "frame" /\ IsOurs(frame, entry, initiator, phys)
<1> DEFINE h == initiator * 16 + follower
           data == << h, Opcode[op] >> \o PhysOperands(phys)
           frame == WithPhys(initiator, follower, op, phys)
<1>1. /\ Len(data) = 4 /\ data[1] = h /\ data[2] = Opcode[op]
      /\ data[3] = (phys \div 256) % 256 /\ data[4] = phys % 256
  <2> DEFINE a == (phys \div 256) % 256
             b == phys % 256
             o == Opcode[op]
  <2>1. a \in Int /\ b \in Int
    BY TwoBytes
  <2>2. h \in Int /\ o \in Int
    BY DEF Opcode, CarryAddress
  <2>3. data = << h, o >> \o << a, b >>
    BY DEF PhysOperands
  <2> HIDE DEF h, o, a, b, data
  <2>4. /\ Len(data) = 4 /\ data[1] = h /\ data[2] = o /\ data[3] = a /\ data[4] = b
    BY <2>1, <2>2, <2>3, FourBytes
  <2> QED  BY <2>4 DEF o, a, b
<1>3. frame = [is |-> "frame", data |-> data]
  <2>1. frame = Frame(data)
    BY DEF WithPhys, Header
  <2> HIDE DEF data
  <2>2. Frame(data) = [is |-> "frame", data |-> data]
    BY <1>1 DEF Frame
  <2> HIDE DEF frame
  <2> QED  BY <2>1, <2>2
<1> HIDE DEF data
<1>4. h \div 16 = initiator /\ h % 16 = follower
  OBVIOUS
<1>5. ((phys \div 256) % 256) * 256 + (phys % 256) = phys
  BY TwoBytes
<1> HIDE DEF h, frame
<1>6. /\ Initiator(frame) = initiator /\ Follower(frame) = follower
      /\ frame.is = "frame" /\ Len(frame.data) \in 1 .. 16
  BY <1>1, <1>3, <1>4 DEF Initiator, Follower
<1>7. AddressIn(frame) = phys
  BY <1>1, <1>3, <1>5 DEF AddressIn
<1>8. \A c \in CarryAddress : HasOp(frame, c) => c = op
  <2>1. \A c \in CarryAddress : Opcode[c] = Opcode[op] => c = op
    BY DEF CarryAddress, Opcode
  <2> QED  BY <1>1, <1>3, <2>1 DEF HasOp
<1>9. HasOp(frame, "ActiveSource") \/ HasOp(frame, "SetStreamPath") => follower = Broadcast
  <2>1. "ActiveSource" \in CarryAddress /\ "SetStreamPath" \in CarryAddress
    BY DEF CarryAddress
  <2> QED  BY <1>8, <2>1
<1> QED  BY <1>6, <1>7, <1>9 DEF IsOurs, frame

(* A frame spelt out byte by byte is refused or says who we are.           *)
LEMMA RawOurs ==
    ASSUME NEW entry, NEW initiator \in 0 .. 15, NEW bytes \in Seq(Int), NEW phys,
           entry.name = "raw"
    PROVE  LET frame == Raw(initiator, bytes)
           IN  \/ frame = Refused
               \/ frame.is = "frame" /\ IsOurs(frame, entry, initiator, phys)
<1> DEFINE data == << Header(initiator, Head(bytes) % 16) >> \o Tail(bytes)
<1> SUFFICES ASSUME bytes # << >>, \A i \in DOMAIN bytes : bytes[i] \in 0 .. 255,
                    Len(data) \in 1 .. 16
             PROVE  IsOurs([is |-> "frame", data |-> data], entry, initiator, phys)
  <2> HIDE DEF data
  <2>1. Raw(initiator, bytes) = Refused
        \/ /\ bytes # << >> /\ \A i \in DOMAIN bytes : bytes[i] \in 0 .. 255
           /\ Len(data) \in 1 .. 16 /\ Raw(initiator, bytes) = [is |-> "frame", data |-> data]
    BY DEF Raw, Frame, data
  <2> QED  BY <2>1
<1>1. Head(bytes) \in Int /\ Tail(bytes) \in Seq(Int)
  BY HeadTailProperties
<1>2. Header(initiator, Head(bytes) % 16) \in Int
      /\ Header(initiator, Head(bytes) % 16) \div 16 = initiator
  <2> DEFINE f == Head(bytes) % 16
  <2>1. f \in 0 .. 15
    <3>1. \A n \in Int : (n % 16) \in 0 .. 15
      OBVIOUS
    <3> QED  BY <1>1, <3>1
  <2> HIDE DEF f
  <2>2. (initiator * 16 + f) \div 16 = initiator /\ f \in Int
    BY <2>1
  <2> QED  BY <2>2 DEF Header, f
<1>3. data[1] = Header(initiator, Head(bytes) % 16)
  <2> DEFINE h == Header(initiator, Head(bytes) % 16)
             t == Tail(bytes)
  <2> HIDE DEF h, t
  <2>1. << h >> \in Seq(Int) /\ Len(<< h >>) = 1 /\ t \in Seq(Int)
    BY <1>1, <1>2 DEF h, t
  <2>2. (<< h >> \o t)[1] = h
    BY <2>1, ConcatProperties
  <2> QED  BY <2>2 DEF h, t
<1> HIDE DEF data
<1> QED  BY <1>2, <1>3 DEF IsOurs, Initiator

(* A key that is unknown is refused, another is sent to the TV.            *)
LEMMA PressedOurs ==
    ASSUME NEW entry, NEW initiator \in 0 .. 15, NEW argument, NEW phys
    PROVE  LET frame == Pressed(initiator, argument)
           IN  \/ frame = Refused
               \/ frame.is = "frame" /\ IsOurs(frame, entry, initiator, phys)
<1> DEFINE key == IF argument = "" THEN "power-on" ELSE argument
           data == << Header(initiator, Tv), Opcode.UserControlPressed, UiCommands[key] >>
           frame == [is |-> "frame", data |-> data]
<1>1. Pressed(initiator, argument) \in {Refused, Frame(data)}
  BY DEF Pressed
<1>2. Len(data) = 3 /\ data[1] = initiator * 16 /\ data[2] = Opcode["UserControlPressed"]
  BY DEF Header, Tv
<1> HIDE DEF data
<1>3. Frame(data) = frame
  BY <1>2 DEF Frame
<1>4. (initiator * 16) \div 16 = initiator
  OBVIOUS
<1>5. \A c \in CarryAddress : Opcode[c] # Opcode["UserControlPressed"]
  BY DEF CarryAddress, Opcode
<1>6. \A c \in CarryAddress : ~HasOp(frame, c)
  BY <1>2, <1>5 DEF HasOp
<1>7. Initiator(frame) = initiator
  BY <1>2, <1>4 DEF Initiator
<1>8. "ActiveSource" \in CarryAddress /\ "SetStreamPath" \in CarryAddress
  BY DEF CarryAddress
<1>9. IsOurs(frame, entry, initiator, phys)
  BY <1>2, <1>6, <1>7, <1>8 DEF IsOurs
<1> QED  BY <1>1, <1>3, <1>9

(* Every entry is empty, refused, or becomes a frame of ours.              *)
LEMMA EntryOurs ==
    ASSUME NEW entry \in AnyEntry, NEW initiator \in 0 .. 15, NEW phys \in PhysicalAddress
    PROVE  LET frame == ParseFrameSpec(entry, initiator, phys)
           IN  \/ frame = Silence /\ ~Said(entry)
               \/ frame = Refused /\ Said(entry)
               \/ /\ frame.is = "frame" /\ Said(entry)
                  /\ IsOurs(frame, entry, initiator, phys)
<1> DEFINE frame == ParseFrameSpec(entry, initiator, phys)
           Ours(f) == f.is = "frame" /\ IsOurs(f, entry, initiator, phys)
<1>1. Tv \in 0 .. 15 /\ Broadcast \in 0 .. 15 /\ AudioSystem \in 0 .. 15
  BY DEF Tv, Broadcast, AudioSystem
<1>2. ASSUME NEW f \in 0 .. 15, NEW op \in DOMAIN Opcode \ CarryAddress
      PROVE  Ours(Simple(initiator, f, op))
  BY SimpleOurs
<1>3. ASSUME NEW f \in 0 .. 15, NEW op \in CarryAddress,
             op \in {"ActiveSource", "SetStreamPath"} => f = Broadcast
      PROVE  Ours(WithPhys(initiator, f, op, phys))
  BY <1>3, WithPhysOurs
<1>4. StandbyFollower(entry.argument) \in 0 .. 15
  BY <1>1 DEF StandbyFollower
<1>5. /\ DOMAIN Opcode \ CarryAddress
         = {"ImageViewOn", "TextViewOn", "Standby", "UserControlPressed", "UserControlReleased"}
      /\ CarryAddress
         = {"ActiveSource", "InactiveSource", "SetStreamPath", "SystemAudioModeRequest"}
  BY DEF Opcode, CarryAddress
<1> HIDE DEF Ours
<1>6. CASE entry.name = ""
  <2>1. frame = Silence
    BY <1>6 DEF ParseFrameSpec
  <2> QED  BY <1>6, <2>1, Zenon DEF Said
<1>7. CASE entry.name = "raw"
  <2>1. frame = Raw(initiator, entry.bytes)
    BY <1>7 DEF ParseFrameSpec
  <2>2. entry.bytes \in Seq(Int)
    BY DEF AnyEntry
  <2>3. Raw(initiator, entry.bytes) = Refused \/ Ours(Raw(initiator, entry.bytes))
    BY <1>7, <2>2, RawOurs, Zenon DEF Ours
  <2> HIDE DEF frame
  <2>4. frame = Refused \/ Ours(frame)
    BY <2>1, <2>3
  <2>9. Said(entry)
    BY <1>7, Zenon DEF Said
  <2> QED  BY <2>9, <2>4 DEF frame, Ours
<1>8. CASE entry.name = "user-control-pressed"
  <2>1. frame = Pressed(initiator, entry.argument)
    BY <1>8 DEF ParseFrameSpec
  <2> HIDE DEF frame
  <2>2. Said(entry)
    BY <1>8, Zenon DEF Said
  <2> QED  BY <2>1, <2>2, PressedOurs DEF frame
<1>9. CASE entry.name \in {"image-view-on", "text-view-on", "user-control-released"}
  <2>1. \E op \in {"ImageViewOn", "TextViewOn", "UserControlReleased"} :
           frame = Simple(initiator, Tv, op)
    BY <1>9 DEF ParseFrameSpec
  <2> HIDE DEF frame
  <2>2. Ours(frame)
    BY <1>1, <1>2, <1>5, <2>1
  <2>9. Said(entry)
    BY <1>9, Zenon DEF Said
  <2> QED  BY <2>9, <2>2 DEF Ours, frame
<1>10. CASE entry.name = "standby"
  <2>1. frame = Simple(initiator, StandbyFollower(entry.argument), "Standby")
    BY <1>10 DEF ParseFrameSpec
  <2> HIDE DEF frame
  <2>2. Ours(frame)
    BY <1>2, <1>4, <1>5, <2>1
  <2>9. Said(entry)
    BY <1>10, Zenon DEF Said
  <2> QED  BY <2>9, <2>2 DEF Ours, frame
<1>11. CASE entry.name \in {"active-source", "inactive-source", "set-stream-path",
                           "system-audio-mode-request"}
  <2>1. \E op \in CarryAddress, f \in 0 .. 15 :
           /\ op \in {"ActiveSource", "SetStreamPath"} => f = Broadcast
           /\ frame = WithPhys(initiator, f, op, phys)
    BY <1>1, <1>5, <1>11 DEF ParseFrameSpec
  <2> HIDE DEF frame
  <2>2. Ours(frame)
    BY <1>3, <2>1
  <2>9. Said(entry)
    BY <1>11, Zenon DEF Said
  <2> QED  BY <2>9, <2>2 DEF Ours, frame
<1>12. CASE entry.name \notin {"", "raw", "image-view-on", "text-view-on", "active-source",
          "inactive-source", "set-stream-path", "system-audio-mode-request",
          "user-control-pressed", "user-control-released", "standby"}
  <2>1. frame = Refused
    BY <1>12 DEF ParseFrameSpec
  <2> QED  BY <1>12, <2>1, Zenon DEF Said
<1> QED  BY <1>6, <1>7, <1>8, <1>9, <1>10, <1>11, <1>12

(* The frames of the first n entries are those of the entries that are not *)
(* empty, in their order.                                                  *)
InOrderOf(frames, from, entries, n, parsed) ==
    /\ from \in [1 .. Len(frames) -> {m \in 1 .. n : Said(entries[m])}]
    /\ \A i, j \in 1 .. Len(frames) : i < j => from[i] < from[j]
    /\ \A m \in 1 .. n : Said(entries[m]) => \E i \in 1 .. Len(frames) : from[i] = m
    /\ \A i \in 1 .. Len(frames) : frames[i] = parsed[from[i]]

(* One entry more keeps them so.                                           *)
LEMMA InOrderStep ==
    ASSUME NEW V, NEW frames \in Seq(V), NEW n \in Nat, NEW entries, NEW from,
           NEW parsed, parsed[n + 1] \in V,
           InOrderOf(frames, from, entries, n, parsed)
    PROVE  /\ ~Said(entries[n + 1]) => InOrderOf(frames, from, entries, n + 1, parsed)
           /\ Said(entries[n + 1]) =>
                 \E f : InOrderOf(Append(frames, parsed[n + 1]), f, entries, n + 1, parsed)
<1> DEFINE len == Len(frames)
           Meant(m) == {k \in 1 .. m : Said(entries[k])}
<1>1. /\ from \in [1 .. len -> Meant(n)] /\ \A i, j \in 1 .. len : i < j => from[i] < from[j]
      /\ \A m \in Meant(n) : \E i \in 1 .. len : from[i] = m
      /\ \A i \in 1 .. len : frames[i] = parsed[from[i]]
  BY DEF InOrderOf
<1>2. len \in Nat
  BY LenProperties
<1>0. 1 .. n + 1 = (1 .. n) \cup {n + 1}
  OBVIOUS
<1>3. ASSUME ~Said(entries[n + 1]) PROVE InOrderOf(frames, from, entries, n + 1, parsed)
  <2>1. Meant(n + 1) = Meant(n)
    <3> DEFINE upto == 1 .. n + 1
               before == 1 .. n
    <3> HIDE DEF upto, before
    <3>1. upto = before \cup {n + 1}
      BY <1>0 DEF upto, before
    <3>2. {k \in upto : Said(entries[k])} = {k \in before : Said(entries[k])}
      BY <1>3, <3>1
    <3> QED  BY <3>2 DEF upto, before
  <2> HIDE DEF Meant
  <2>2. /\ from \in [1 .. len -> Meant(n + 1)]
        /\ \A m \in Meant(n + 1) : \E i \in 1 .. len : from[i] = m
    BY <1>1, <2>1
  <2> QED  BY <1>1, <2>2 DEF InOrderOf, Meant
<1>4. ASSUME Said(entries[n + 1])
      PROVE  \E f : InOrderOf(Append(frames, parsed[n + 1]), f, entries, n + 1, parsed)
  <2> DEFINE more == Append(frames, parsed[n + 1])
             f == [i \in 1 .. len + 1 |-> IF i = len + 1 THEN n + 1 ELSE from[i]]
  <2>1. /\ Len(more) = len + 1 /\ more[len + 1] = parsed[n + 1]
        /\ \A i \in 1 .. len : more[i] = frames[i]
    BY AppendProperties
  <2>2. Meant(n + 1) = Meant(n) \cup {n + 1} /\ Meant(n) \subseteq 1 .. n
    <3> DEFINE upto == 1 .. n + 1
               before == 1 .. n
    <3> HIDE DEF upto, before
    <3>1. upto = before \cup {n + 1}
      BY <1>0 DEF upto, before
    <3>2. {k \in upto : Said(entries[k])} = {k \in before : Said(entries[k])} \cup {n + 1}
          /\ {k \in before : Said(entries[k])} \subseteq before
      BY <1>4, <3>1
    <3> QED  BY <3>2 DEF upto, before
  <2>3. f[len + 1] = n + 1 /\ \A i \in 1 .. len : f[i] = from[i] /\ from[i] \in 1 .. n
    <3>1. f[len + 1] = n + 1
      BY <1>2
    <3>2. \A i \in 1 .. len : f[i] = from[i]
      BY <1>2
    <3>3. \A i \in 1 .. len : from[i] \in 1 .. n
      BY <1>1
    <3> HIDE DEF f
    <3> QED  BY <3>1, <3>2, <3>3
  <2> HIDE DEF Meant, more
  <2>4. f \in [1 .. len + 1 -> Meant(n + 1)]
    BY <1>1, <1>2, <2>2
  <2> HIDE DEF f
  <2>5. ASSUME NEW i \in 1 .. len + 1, NEW j \in 1 .. len + 1, i < j PROVE f[i] < f[j]
    <3>1. CASE j = len + 1
      BY <1>2, <2>3, <2>5, <3>1
    <3>2. CASE j # len + 1
      BY <1>1, <1>2, <2>3, <2>5, <3>2
    <3> QED  BY <3>1, <3>2
  <2>6. ASSUME NEW m \in Meant(n + 1) PROVE \E i \in 1 .. len + 1 : f[i] = m
    <3>1. CASE m = n + 1
      BY <1>2, <2>3, <3>1
    <3>2. CASE m \in Meant(n)
      <4>1. PICK i \in 1 .. len : from[i] = m
        BY <1>1, <3>2
      <4>2. i \in 1 .. len + 1 /\ f[i] = m
        BY <1>2, <2>3, <4>1
      <4> QED  BY <4>2
    <3> QED  BY <2>2, <3>1, <3>2
  <2>7. ASSUME NEW i \in 1 .. len + 1 PROVE more[i] = parsed[f[i]]
    <3>1. CASE i = len + 1
      BY <2>1, <2>3, <3>1
    <3>2. CASE i # len + 1
      BY <1>1, <1>2, <2>1, <2>3, <3>2
    <3> QED  BY <3>1, <3>2
  <2>8. InOrderOf(more, f, entries, n + 1, parsed)
    <3> HIDE DEF len
    <3>1. \A m \in 1 .. n + 1 : Said(entries[m]) => m \in Meant(n + 1)
      BY DEF Meant
    <3>2. f \in [1 .. Len(more) -> {m \in 1 .. n + 1 : Said(entries[m])}]
      BY <2>1, <2>4 DEF Meant
    <3>3. /\ \A i, j \in 1 .. Len(more) : i < j => f[i] < f[j]
          /\ \A i \in 1 .. Len(more) : more[i] = parsed[f[i]]
      BY <2>1, <2>5, <2>7
    <3>4. \A m \in 1 .. n + 1 : Said(entries[m]) => \E i \in 1 .. Len(more) : f[i] = m
      BY <2>1, <2>6, <3>1
    <3> QED  BY <3>2, <3>3, <3>4 DEF InOrderOf
  <2> QED  BY <2>8 DEF more
<1> QED  BY <1>3, <1>4

(* The frames gathered from the entries, one entry after the other.        *)
Gathers(frames, parsed, V, L) ==
    /\ frames \in [0 .. L -> Seq(V)] /\ frames[0] = << >>
    /\ \A n \in 1 .. L : frames[n] = IF parsed[n] = Silence THEN frames[n - 1]
                                    ELSE Append(frames[n - 1], parsed[n])

LEMMA FramesGathered ==
    ASSUME NEW V, NEW L \in Nat, NEW parsed, \A n \in 1 .. L : parsed[n] \in V
    PROVE  LET frames[n \in 0 .. L] ==
                  IF n = 0 THEN << >>
                  ELSE IF parsed[n] = Silence THEN frames[n - 1]
                       ELSE Append(frames[n - 1], parsed[n])
           IN  Gathers(frames, parsed, V, L)
<1> DEFINE Grow(n, s) == IF parsed[n] = Silence THEN s ELSE Append(s, parsed[n])
           step == [p \in (1 .. L) \X Seq(V) |-> Grow(p[1], p[2])]
           Rule(f) == [n \in 0 .. L |->
                         IF n = 0 THEN << >>
                         ELSE IF parsed[n] = Silence THEN f[n - 1]
                              ELSE Append(f[n - 1], parsed[n])]
           frames == CHOOSE f : f = Rule(f)
<1>1. ASSUME NEW n \in 1 .. L, NEW s \in Seq(V) PROVE Grow(n, s) \in Seq(V)
  BY AppendProperties
<1>2. step \in [(1 .. L) \X Seq(V) -> Seq(V)]
  <2> HIDE DEF Grow
  <2> QED  BY <1>1
<1>3. PICK f \in [0 .. L -> Seq(V)] :
           f[0] = << >> /\ \A k \in 1 .. L : f[k] = step[<< k, f[k - 1] >>]
  <2>1. << >> \in Seq(V)
    OBVIOUS
  <2> HIDE DEF step
  <2>2. Runs(Seq(V), << >>, L, step)
    BY <1>2, <2>1, Recursion
  <2> QED  BY <2>2 DEF Runs
<1>4. ASSUME NEW k \in 1 .. L PROVE f[k] = Grow(k, f[k - 1])
  <2>1. << k, f[k - 1] >> \in (1 .. L) \X Seq(V)
    <3>1. k - 1 \in 0 .. L
      OBVIOUS
    <3> QED  BY <1>3, <3>1
  <2>2. step[<< k, f[k - 1] >>] = Grow(k, f[k - 1])
    <3> HIDE DEF Grow
    <3> QED  BY <2>1
  <2> HIDE DEF step, Grow
  <2> QED  BY <1>3, <2>2
<1>5. f = Rule(f)
  <2> HIDE DEF step
  <2>1. ASSUME NEW k \in 0 .. L PROVE f[k] = Rule(f)[k]
    <3>1. CASE k = 0
      BY <1>3, <3>1
    <3>2. CASE k \in 1 .. L
      <4>1. k # 0 /\ k \in 0 .. L
        BY <3>2
      <4>2. Rule(f)[k] = Grow(k, f[k - 1])
        BY <4>1
      <4> HIDE DEF Rule, Grow
      <4> QED  BY <1>4, <3>2, <4>2
    <3> QED  BY <3>1, <3>2
  <2>2. f = [k \in 0 .. L |-> f[k]] /\ Rule(f) = [k \in 0 .. L |-> Rule(f)[k]]
    BY <1>3
  <2> HIDE DEF Rule
  <2> QED  BY <2>1, <2>2
<1>6. frames = Rule(frames)
  <2> HIDE DEF Rule
  <2> QED  BY <1>5
<1>7. /\ frames[0] = << >> /\ \A k \in 1 .. L : frames[k] = Grow(k, frames[k - 1])
      /\ frames = [k \in 0 .. L |-> frames[k]]
  <2> HIDE DEF frames
  <2>1. \A k \in 0 .. L : frames[k] = Rule(frames)[k]
    BY <1>6
  <2>2. frames[0] = << >> /\ \A k \in 1 .. L : frames[k] = Grow(k, frames[k - 1])
    BY <2>1
  <2>3. frames = [k \in 0 .. L |-> frames[k]]
    BY <1>6
  <2> QED  BY <2>2, <2>3
<1>8. frames \in [0 .. L -> Seq(V)]
  <2> HIDE DEF frames, Grow
  <2>1. \A k \in 1 .. L : frames[k - 1] \in Seq(V) => frames[k] \in Seq(V)
    BY <1>1, <1>7
  <2>2. frames[0] \in Seq(V)
    BY <1>7
  <2> QED  BY <1>7, <2>1, <2>2, StaysIn
<1>9. Gathers(frames, parsed, V, L)
  <2> HIDE DEF frames
  <2> QED  BY <1>7, <1>8 DEF Gathers
<1> QED  BY <1>9

(* A list of entries is sent whole and in order, or not at all.            *)
LEMMA ListOurs ==
    ASSUME NEW entries \in Seq(AnyEntry), NEW initiator \in 0 .. 15,
           NEW phys \in PhysicalAddress
    PROVE  FramesAreOurs(entries, initiator, phys)
<1> DEFINE L == Len(entries)
           P(n) == ParseFrameSpec(entries[n], initiator, phys)
           parsed == [n \in DOMAIN entries |-> P(n)]
           V == {P(n) : n \in 1 .. L}
           list == ParseFrameList(entries, initiator, phys)
<1>1. L \in Nat /\ DOMAIN entries = 1 .. L /\ \A n \in 1 .. L : entries[n] \in AnyEntry
  BY LenProperties, ElementOfSeq
<1>2. \A n \in 1 .. L : parsed[n] = P(n) /\ parsed[n] \in V
  <2> HIDE DEF P
  <2> QED  BY <1>1
<1>3. PICK frames : /\ Gathers(frames, parsed, V, L)
                    /\ list = IF Contains(parsed, Refused) THEN << >> ELSE frames[L]
  <2> DEFINE frames == CHOOSE f : f = [n \in 0 .. L |->
                         IF n = 0 THEN << >>
                         ELSE IF parsed[n] = Silence THEN f[n - 1]
                              ELSE Append(f[n - 1], parsed[n])]
  <2>1. list = IF Contains(parsed, Refused) THEN << >> ELSE frames[L]
    BY DEF ParseFrameList
  <2>2. Gathers(frames, parsed, V, L)
    <3> HIDE DEF parsed, V, L
    <3> QED  BY <1>1, <1>2, FramesGathered
  <2> HIDE DEF frames, list
  <2> QED  BY <2>1, <2>2
<1>4. ASSUME NEW n \in 1 .. L
      PROVE  \/ P(n) = Silence /\ ~Said(entries[n])
             \/ P(n) = Refused /\ Said(entries[n])
             \/ /\ P(n).is = "frame" /\ Said(entries[n])
                /\ IsOurs(P(n), entries[n], initiator, phys)
  BY <1>1, EntryOurs
<1>5. \A n \in 1 .. L : parsed[n] = Silence <=> ~Said(entries[n])
  <2>1. Refused # Silence /\ Silence.is # "frame"
    BY DEF Refused, Silence
  <2> HIDE DEF P, parsed, L
  <2> QED  BY <1>2, <1>4, <2>1
<1> HIDE DEF P, parsed, V, L, list
<1>6. \A n \in 0 .. L : \E from : InOrderOf(frames[n], from, entries, n, parsed)
  <2> DEFINE S == {n \in 0 .. L : \E from : InOrderOf(frames[n], from, entries, n, parsed)}
  <2>1. 0 \in S
    <3> DEFINE from == [i \in 1 .. 0 |-> 1]
    <3>1. frames[0] = << >> /\ 0 \in 0 .. L /\ Len(<< >>) = 0
      BY <1>1, <1>3 DEF Gathers
    <3>2. InOrderOf(<< >>, from, entries, 0, parsed)
      BY DEF InOrderOf
    <3> HIDE DEF from
    <3> QED  BY <3>1, <3>2
  <2>2. ASSUME NEW n \in 0 .. L - 1, n \in S PROVE n + 1 \in S
    <3>1. PICK from : InOrderOf(frames[n], from, entries, n, parsed)
      BY <2>2
    <3>2. n + 1 \in 1 .. L /\ n \in 0 .. L /\ n + 1 \in 0 .. L /\ (n + 1) - 1 = n /\ n \in Nat
      BY <1>1
    <3>3. /\ frames[n] \in Seq(V)
          /\ frames[n + 1] = IF parsed[n + 1] = Silence THEN frames[n]
                             ELSE Append(frames[n], parsed[n + 1])
      BY <1>3, <3>2 DEF Gathers
    <3>4. parsed[n + 1] \in V /\ (parsed[n + 1] = Silence <=> ~Said(entries[n + 1]))
      BY <1>2, <1>5, <3>2
    <3>5. /\ ~Said(entries[n + 1]) => InOrderOf(frames[n], from, entries, n + 1, parsed)
          /\ Said(entries[n + 1]) =>
                \E f : InOrderOf(Append(frames[n], parsed[n + 1]), f, entries, n + 1, parsed)
      BY <3>1, <3>2, <3>3, <3>4, InOrderStep
    <3>6. \E f : InOrderOf(frames[n + 1], f, entries, n + 1, parsed)
      BY <3>3, <3>4, <3>5
    <3> QED  BY <3>2, <3>6
  <2>3. \A n \in 0 .. L : n \in S
    <3> HIDE DEF S
    <3> QED  BY <1>1, <2>1, <2>2, Upwards
  <2> QED  BY <2>3
<1> DEFINE meant == {n \in DOMAIN entries : Said(entries[n])}
<1>7. Contains(parsed, Refused) <=> \E n \in 1 .. L : P(n) = Refused
  <2>1. Len(parsed) = L
    <3>1. parsed = [n \in 1 .. L |-> P(n)]
      BY <1>1 DEF parsed
    <3> QED  BY <1>1, <3>1
  <2> QED  BY <1>2, <2>1 DEF Contains
<1>8. CASE Contains(parsed, Refused)
  <2>1. PICK n \in 1 .. L : P(n) = Refused
    BY <1>7, <1>8
  <2>2. Refused # Silence
    BY DEF Refused, Silence
  <2>3. n \in meant /\ ParseFrameSpec(entries[n], initiator, phys) = Refused
    BY <1>1, <1>2, <1>5, <2>1, <2>2 DEF P
  <2>4. list = << >>
    BY <1>3, <1>8
  <2> QED  BY <2>3, <2>4 DEF FramesAreOurs, list
<1>9. CASE ~Contains(parsed, Refused)
  <2>1. list = frames[L] /\ L \in 0 .. L /\ list \in Seq(V)
    BY <1>1, <1>3, <1>9 DEF Gathers
  <2>2. PICK from : InOrderOf(list, from, entries, L, parsed)
    BY <1>6, <2>1
  <2>3. DOMAIN list = 1 .. Len(list) /\ meant = {m \in 1 .. L : Said(entries[m])}
    BY <1>1, <2>1, LenProperties
  <2>4. /\ from \in [DOMAIN list -> meant]
        /\ \A i, j \in DOMAIN list : i < j => from[i] < from[j]
        /\ meant \subseteq {from[i] : i \in DOMAIN list}
    BY <2>2, <2>3 DEF InOrderOf
  <2>5. ASSUME NEW i \in DOMAIN list
        PROVE  IsOurs(list[i], entries[from[i]], initiator, phys)
    <3>1. from[i] \in 1 .. L /\ Said(entries[from[i]]) /\ list[i] = parsed[from[i]]
      BY <2>2, <2>3, <2>4 DEF InOrderOf
    <3>2. P(from[i]) # Refused /\ list[i] = P(from[i])
      BY <1>2, <1>7, <1>9, <3>1
    <3> QED  BY <1>4, <3>1, <3>2
  <2> HIDE DEF meant
  <2> QED  BY <2>4, <2>5 DEF FramesAreOurs, list, meant
<1> QED  BY <1>8, <1>9

-----------------------------------------------------------------------------
(* The configuration                                                       *)

(* Values are what lines assign or defaults; one problem is met in lines.  *)
Value == {Unquote(line) : line \in Line} \cup {Clean(DEFAULTS[key]) : key \in Key}
Problem == {"not an assignment"}
Outcome == [values : [Key -> Value], problems : Seq(Problem)]
Usual == [key \in Key |-> Clean(DEFAULTS[key])]
Start == [values |-> Usual, problems |-> << >>]

(* What has an element is not empty.                                       *)
LEMMA Appended ==
    ASSUME NEW S, NEW s \in Seq(S), NEW e
    PROVE  /\ e \in S => Append(s, e) \in Seq(S)
           /\ Append(s, e) # << >> /\ << e >> # << >>
BY AppendProperties

(* A line assigns its key or leaves the values alone, adds a problem if it *)
(* is no assignment, and takes none away.                                  *)
LEMMA LineRead ==
    ASSUME NEW r \in Outcome, NEW line \in Line
    PROVE  /\ ReadLine(r, line) \in Outcome
           /\ line.is # "assignment" => ReadLine(r, line).values = r.values
           /\ line.is = "assignment" =>
                 /\ line.key \in Key
                 /\ ReadLine(r, line).values = [r.values EXCEPT ![line.key] = Unquote(line)]
           /\ line.is = "junk" \/ r.problems # << >> => ReadLine(r, line).problems # << >>
<1>1. r.values \in [Key -> Value] /\ r.problems \in Seq(Problem) /\ r = [values |-> r.values, problems |-> r.problems]
  BY DEF Outcome
<1>2. Unquote(line) \in Value
  BY DEF Value
<1>3. line.is \in {"blank", "junk", "assignment"} /\ (line.is = "assignment" => line.key \in Key)
  BY Zenon DEF Line
<1> HIDE DEF Line, Value
<1>4. CASE line.is = "blank"
  BY <1>1, <1>4 DEF ReadLine
<1>5. CASE line.is = "junk"
  <2> DEFINE more == Append(r.problems, "not an assignment")
  <2>1. ReadLine(r, line) = [values |-> r.values, problems |-> more]
    BY <1>1, <1>5 DEF ReadLine
  <2>2. more \in Seq(Problem) /\ more # << >>
    <3>1. "not an assignment" \in Problem
      BY Zenon DEF Problem
    <3> QED  BY <1>1, <3>1, Appended
  <2> HIDE DEF more
  <2> QED  BY <1>1, <1>5, <2>1, <2>2 DEF Outcome
<1>6. CASE line.is = "assignment"
  <2> DEFINE values == [r.values EXCEPT ![line.key] = Unquote(line)]
  <2>1. ReadLine(r, line) = [values |-> values, problems |-> r.problems]
    BY <1>1, <1>6 DEF ReadLine
  <2>2. values \in [Key -> Value]
    BY <1>1, <1>2
  <2> HIDE DEF values
  <2> QED  BY <1>1, <1>3, <1>6, <2>1, <2>2 DEF Outcome, values
<1> QED  BY <1>3, <1>4, <1>5, <1>6

(* The lines read one after the other.                                     *)
Reads(read, lines, L) ==
    /\ read \in [0 .. L -> Outcome] /\ read[0] = Start
    /\ \A n \in 1 .. L : read[n] = ReadLine(read[n - 1], lines[n])

LEMMA LinesRead ==
    ASSUME NEW L \in Nat, NEW lines, \A n \in 1 .. L : lines[n] \in Line
    PROVE  LET read[n \in 0 .. L] ==
                  IF n = 0 THEN Start ELSE ReadLine(read[n - 1], lines[n])
           IN  Reads(read, lines, L)
<1> DEFINE step == [p \in (1 .. L) \X Outcome |-> ReadLine(p[2], lines[p[1]])]
           Rule(f) == [n \in 0 .. L |->
                         IF n = 0 THEN Start ELSE ReadLine(f[n - 1], lines[n])]
           read == CHOOSE f : f = Rule(f)
<1>1. ASSUME NEW n \in 1 .. L, NEW r \in Outcome PROVE ReadLine(r, lines[n]) \in Outcome
  BY LineRead
<1>2. step \in [(1 .. L) \X Outcome -> Outcome]
  BY <1>1
<1>3. Start \in Outcome
  <2>1. Usual \in [Key -> Value]
    <3>1. \A key \in Key : Clean(DEFAULTS[key]) \in Value
      BY Zenon DEF Value
    <3> QED  BY <3>1 DEF Usual
  <2>2. << >> \in Seq(Problem)
    OBVIOUS
  <2> QED  BY <2>1, <2>2 DEF Start, Outcome
<1>4. PICK f \in [0 .. L -> Outcome] :
           f[0] = Start /\ \A k \in 1 .. L : f[k] = step[<< k, f[k - 1] >>]
  <2> HIDE DEF step
  <2>1. Runs(Outcome, Start, L, step)
    BY <1>2, <1>3, Recursion
  <2> QED  BY <2>1 DEF Runs
<1>5. ASSUME NEW k \in 1 .. L PROVE f[k] = ReadLine(f[k - 1], lines[k])
  <2>1. << k, f[k - 1] >> \in (1 .. L) \X Outcome
    <3>1. k - 1 \in 0 .. L
      OBVIOUS
    <3> QED  BY <1>4, <3>1
  <2>2. step[<< k, f[k - 1] >>] = ReadLine(f[k - 1], lines[k])
    BY <2>1
  <2> HIDE DEF step
  <2> QED  BY <1>4, <2>2
<1>6. f = Rule(f)
  <2> HIDE DEF step
  <2>1. ASSUME NEW k \in 0 .. L PROVE f[k] = Rule(f)[k]
    <3>1. CASE k = 0
      BY <1>4, <3>1
    <3>2. CASE k \in 1 .. L
      <4>1. k # 0 /\ k \in 0 .. L
        BY <3>2
      <4>2. Rule(f)[k] = ReadLine(f[k - 1], lines[k])
        BY <4>1
      <4> HIDE DEF Rule
      <4> QED  BY <1>5, <3>2, <4>2
    <3> QED  BY <3>1, <3>2
  <2>2. f = [k \in 0 .. L |-> f[k]] /\ Rule(f) = [k \in 0 .. L |-> Rule(f)[k]]
    BY <1>4
  <2> HIDE DEF Rule
  <2> QED  BY <2>1, <2>2
<1>7. read = Rule(read)
  <2> HIDE DEF Rule
  <2> QED  BY <1>6
<1>8. /\ read[0] = Start /\ \A k \in 1 .. L : read[k] = ReadLine(read[k - 1], lines[k])
      /\ read = [k \in 0 .. L |-> read[k]]
  <2> HIDE DEF read
  <2>1. \A k \in 0 .. L : read[k] = Rule(read)[k]
    BY <1>7
  <2>2. read[0] = Start /\ \A k \in 1 .. L : read[k] = ReadLine(read[k - 1], lines[k])
    BY <2>1
  <2>3. read = [k \in 0 .. L |-> read[k]]
    BY <1>7
  <2> QED  BY <2>2, <2>3
<1>9. read \in [0 .. L -> Outcome]
  <2> HIDE DEF read
  <2>1. \A k \in 1 .. L : read[k - 1] \in Outcome => read[k] \in Outcome
    BY <1>1, <1>8
  <2>2. read[0] \in Outcome
    BY <1>3, <1>8
  <2> QED  BY <1>8, <2>1, <2>2, StaysIn
<1>10. Reads(read, lines, L)
  <2> HIDE DEF read
  <2> QED  BY <1>8, <1>9 DEF Reads
<1> QED  BY <1>10

(* After n lines a key has what the last line to assign it assigns, or its *)
(* default, and a line that is no assignment has left a problem.           *)
Assigned(lines, n, key) ==
    {i \in 1 .. n : lines[i].is = "assignment" /\ lines[i].key = key}
KeyRead(r, lines, n, key) ==
    \/ Assigned(lines, n, key) = {} /\ r.values[key] = Clean(DEFAULTS[key])
    \/ \E i \in Assigned(lines, n, key) :
          /\ \A j \in Assigned(lines, n, key) : j <= i
          /\ r.values[key] = Unquote(lines[i])
ReadSoFar(r, lines, n) ==
    /\ \A key \in Key : KeyRead(r, lines, n, key)
    /\ \A i \in 1 .. n : lines[i].is = "junk" => r.problems # << >>

LEMMA LineAfterLine ==
    ASSUME NEW r \in Outcome, NEW n \in Nat, NEW lines, lines[n + 1] \in Line,
           ReadSoFar(r, lines, n)
    PROVE  ReadSoFar(ReadLine(r, lines[n + 1]), lines, n + 1)
<1> DEFINE line == lines[n + 1]
           next == ReadLine(r, line)
           upto == 1 .. n + 1
           before == 1 .. n
<1>1. upto = before \cup {n + 1} /\ n + 1 \notin before /\ \A i \in before : i <= n + 1
      /\ n + 1 <= n + 1
  OBVIOUS
<1>2. /\ line.is # "assignment" => next.values = r.values
      /\ line.is = "assignment" =>
            line.key \in Key /\ next.values = [r.values EXCEPT ![line.key] = Unquote(line)]
      /\ line.is = "junk" \/ r.problems # << >> => next.problems # << >>
  BY LineRead
<1>3. r.values \in [Key -> Value]
  BY DEF Outcome
<1> HIDE DEF next, upto, before
<1>4. ASSUME NEW key \in Key PROVE KeyRead(next, lines, n + 1, key)
  <2> DEFINE Now == {i \in upto : lines[i].is = "assignment" /\ lines[i].key = key}
             Was == {i \in before : lines[i].is = "assignment" /\ lines[i].key = key}
  <2>1. Was = Assigned(lines, n, key) /\ Now = Assigned(lines, n + 1, key)
    BY DEF Assigned, upto, before
  <2>2. CASE line.is = "assignment" /\ line.key = key
    <3>1. n + 1 \in Now /\ \A j \in Now : j <= n + 1
      BY <1>1, <2>2
    <3>2. next.values[key] = Unquote(line)
      BY <1>2, <1>3, <2>2
    <3> HIDE DEF Now
    <3> QED  BY <2>1, <3>1, <3>2 DEF KeyRead
  <2>3. CASE ~(line.is = "assignment" /\ line.key = key)
    <3>1. Now = Was
      BY <1>1, <2>3
    <3>2. next.values[key] = r.values[key]
      BY <1>2, <1>3, <2>3
    <3>3. KeyRead(r, lines, n, key)
      BY DEF ReadSoFar
    <3> HIDE DEF Now, Was
    <3> QED  BY <2>1, <3>1, <3>2, <3>3 DEF KeyRead
  <2> QED  BY <2>2, <2>3
<1>5. ASSUME NEW i \in upto, lines[i].is = "junk" PROVE next.problems # << >>
  <2>1. CASE i = n + 1
    BY <1>2, <1>5, <2>1
  <2>2. CASE i \in before
    BY <1>2, <1>5, <2>2 DEF ReadSoFar, before
  <2> QED  BY <1>1, <2>1, <2>2
<1> QED  BY <1>4, <1>5 DEF ReadSoFar, next, upto

(* A text is heard as it was said, or, if quotes stay, with some words     *)
(* spoilt and all of its own in their places.                              *)
Heard(raw, said, stay) ==
    /\ ~stay => raw = Clean(said)
    /\ stay => /\ raw.spoilt # {}
               /\ \A i \in DOMAIN said : i \in DOMAIN raw.words /\ raw.words[i] = said[i]

LEMMA UnquoteHeard ==
    ASSUME NEW line \in Line, line.is = "assignment"
    PROVE  Heard(Unquote(line), line.words, line.quoted /\ line.comment # "none")
<1> DEFINE said == line.words
           raw == Unquote(line)
<1>1. line.words \in Text /\ line.quoted \in BOOLEAN /\ line.comment \in {"none", "plain", "quote"}
  BY Zenon DEF Line
<1>2. said \in Seq(STRING) /\ Remark \in Seq(STRING)
  BY <1>1, TextAssumption
<1> HIDE DEF said
<1>3. CASE ~line.quoted \/ line.comment = "none"
  BY <1>3 DEF Unquote, Heard, said
<1>4. CASE line.quoted /\ line.comment = "quote"
  <2>1. raw = [words |-> said \o Remark, spoilt |-> {Len(said)}]
    BY <1>4 DEF Unquote, said
  <2>2. \A i \in DOMAIN said : i \in DOMAIN (said \o Remark) /\ (said \o Remark)[i] = said[i]
    BY <1>2, ConcatProperties, LenProperties
  <2>3. raw.words = said \o Remark /\ raw.spoilt # {}
    <3> DEFINE all == said \o Remark
               last == Len(said)
    <3> HIDE DEF raw, all, last
    <3>1. raw = [words |-> all, spoilt |-> {last}]
      BY <2>1 DEF all, last
    <3> QED  BY <3>1 DEF all
  <2>4. Heard(raw, said, TRUE)
    <3> HIDE DEF raw
    <3> QED  BY <2>2, <2>3 DEF Heard
  <2> QED  BY <1>4, <2>4 DEF Heard, said
<1>5. CASE line.quoted /\ line.comment = "plain"
  <2>1. raw = [words |-> said, spoilt |-> {1, Len(said)}]
    BY <1>5 DEF Unquote, said
  <2> QED  BY <1>5, <2>1 DEF Heard, said
<1> QED  BY <1>1, <1>3, <1>4, <1>5

(* What is read of a key is what the file says of it, unless quotes stay   *)
(* on it, and no problem is forgotten.                                     *)
LEMMA FileRead ==
    ASSUME NEW file \in AnyFile
    PROVE  /\ \A key \in Key :
                 Heard(ReadConfig(file).values[key], Says(file, key), QuotesStay(file, key))
           /\ ReadConfig(file).problems = << >> =>
                 file.error = "none" /\ \A i \in DOMAIN file.lines : file.lines[i].is # "junk"
<1> DEFINE lines == file.lines
           L == Len(lines)
           read == CHOOSE f : f = [n \in 0 .. L |->
                       IF n = 0 THEN Start ELSE ReadLine(f[n - 1], lines[n])]
           all == read[L]
           complaint == "cannot read"
           absent == "not found"
<1>1. /\ L \in Nat /\ DOMAIN lines = 1 .. L /\ \A n \in 1 .. L : lines[n] \in Line
      /\ file.error \in {"none", "unreadable", "missing"}
  <2>1. lines \in Seq(Line) /\ file.error \in {"none", "unreadable", "missing"}
    <3>1. << >> \in Seq(Line)
      OBVIOUS
    <3> QED  BY <3>1 DEF AnyFile
  <2> HIDE DEF lines
  <2> QED  BY <2>1, LenProperties, ElementOfSeq
<1>2. Reads(read, lines, L)
  <2> HIDE DEF lines, L
  <2> QED  BY <1>1, LinesRead
<1> HIDE DEF complaint, absent
<1>3. /\ file.error = "missing" =>
             ReadConfig(file) = [values |-> Usual, problems |-> << absent >>]
      /\ file.error = "unreadable" =>
             ReadConfig(file) = [all EXCEPT !.problems = Append(@, complaint)]
      /\ file.error = "none" => ReadConfig(file) = all
  BY DEF ReadConfig, Start, Usual, complaint, absent
<1> HIDE DEF read, lines, L
<1>4. \A n \in 0 .. L : ReadSoFar(read[n], lines, n)
  <2> DEFINE S == {n \in 0 .. L : ReadSoFar(read[n], lines, n)}
  <2>1. 0 \in S
    <3>1. ReadSoFar(Start, lines, 0)
      <4>1. \A key \in Key : Assigned(lines, 0, key) = {}
        BY DEF Assigned
      <4> QED  BY <4>1 DEF ReadSoFar, KeyRead, Start, Usual
    <3> QED  BY <1>1, <1>2, <3>1 DEF Reads
  <2>2. ASSUME NEW n \in 0 .. L - 1, n \in S PROVE n + 1 \in S
    <3>1. n + 1 \in 1 .. L /\ n \in 0 .. L /\ n + 1 \in 0 .. L /\ (n + 1) - 1 = n /\ n \in Nat
      BY <1>1
    <3>2. read[n] \in Outcome /\ read[n + 1] = ReadLine(read[n], lines[n + 1])
      BY <1>2, <3>1 DEF Reads
    <3>3. lines[n + 1] \in Line /\ ReadSoFar(read[n], lines, n)
      BY <1>1, <2>2, <3>1
    <3>4. ReadSoFar(read[n + 1], lines, n + 1)
      BY <3>1, <3>2, <3>3, LineAfterLine
    <3> QED  BY <3>1, <3>4
  <2>3. \A n \in 0 .. L : n \in S
    <3> HIDE DEF S
    <3> QED  BY <1>1, <2>1, <2>2, Upwards
  <2> QED  BY <2>3
<1>5. ReadSoFar(all, lines, L) /\ all \in Outcome
  <2>1. L \in 0 .. L
    BY <1>1
  <2> QED  BY <1>2, <1>4, <2>1 DEF Reads
<1> HIDE DEF all
<1>6. ASSUME NEW key \in Key, file.error # "missing"
      PROVE  Heard(all.values[key], Says(file, key), QuotesStay(file, key))
  <2>1. Assignments(file, key) = Assigned(lines, L, key)
    BY <1>1 DEF Assignments, Assigned, lines
  <2>2. KeyRead(all, lines, L, key)
    BY <1>5 DEF ReadSoFar
  <2>3. CASE Assigned(lines, L, key) = {}
    BY <2>1, <2>2, <2>3 DEF KeyRead, Says, QuotesStay, Heard
  <2>4. CASE Assigned(lines, L, key) # {}
    <3> DEFINE A == Assigned(lines, L, key)
    <3>1. PICK i \in A : (\A j \in A : j <= i) /\ all.values[key] = Unquote(lines[i])
      BY <2>2, <2>4 DEF KeyRead
    <3>2. A \subseteq Int
      BY DEF Assigned
    <3>3. (CHOOSE k \in A : \A j \in A : j <= k) = i
      <4>1. \A k \in A : (\A j \in A : j <= k) => k = i
        BY <3>1, <3>2
      <4> HIDE DEF A
      <4> QED  BY <3>1, <4>1
    <3>4. LastLine(file, key) = lines[i]
      BY <2>1, <3>3 DEF LastLine, lines
    <3>5. /\ Says(file, key) = lines[i].words
          /\ QuotesStay(file, key) <=> lines[i].quoted /\ lines[i].comment # "none"
      BY <2>1, <2>4, <3>4 DEF Says, QuotesStay
    <3>6. lines[i] \in Line /\ lines[i].is = "assignment"
      BY <1>1 DEF Assigned
    <3>7. Heard(Unquote(lines[i]), lines[i].words, lines[i].quoted /\ lines[i].comment # "none")
      BY <3>6, UnquoteHeard
    <3> QED  BY <3>1, <3>5, <3>7 DEF Heard
  <2> QED  BY <2>3, <2>4
<1>7. ASSUME NEW key \in Key, file.error = "missing"
      PROVE  Heard(ReadConfig(file).values[key], Says(file, key), QuotesStay(file, key))
  <2>1. file.lines = << >>
    BY <1>7 DEF AnyFile
  <2>2. Assignments(file, key) = {}
    BY <2>1 DEF Assignments
  <2>3. ReadConfig(file).values[key] = Clean(DEFAULTS[key])
    BY <1>3, <1>7 DEF Usual
  <2> QED  BY <2>2, <2>3 DEF Says, QuotesStay, Heard
<1>8. all = [values |-> all.values, problems |-> all.problems] /\ all.problems \in Seq(Problem)
  BY <1>5 DEF Outcome
<1>9. ReadConfig(file).values = all.values \/ file.error = "missing"
  BY <1>1, <1>3, <1>8
<1>10. ASSUME ReadConfig(file).problems = << >>
       PROVE  file.error = "none" /\ \A i \in DOMAIN lines : lines[i].is # "junk"
  <2>1. file.error # "missing"
    <3>1. << absent >> # << >>
      OBVIOUS
    <3> QED  BY <1>3, <1>10, <3>1
  <2>2. file.error # "unreadable"
    BY <1>3, <1>8, <1>10, Appended
  <2>3. all.problems = << >>
    BY <1>1, <1>3, <1>10, <2>1, <2>2
  <2> QED  BY <1>1, <1>5, <2>1, <2>2, <2>3 DEF ReadSoFar
<1> QED  BY <1>6, <1>7, <1>9, <1>10 DEF lines

(* A number from what was read is within its bounds, or NaN, and without a *)
(* problem it is the file's.                                               *)
LEMMA NumberIsHonest ==
    ASSUME NEW file, NEW key \in {"LOG_KEEP", "COOLDOWN_SECONDS"}, NEW raw,
           Heard(raw, Says(file, key), QuotesStay(file, key))
    PROVE  NumberHonest(file, key, NumberOf(key, raw))
<1> DEFINE cast == Number[key].cast
           least == Number[key].minimum
           most == Number[key].maximum
           got == NumberOf(key, raw)
           usual == cast[DEFAULTS[key]]
           taken == IsOneOf(raw, DOMAIN cast)
<1>1. \E n \in {20, 25}, m \in {500, 36000} :
          usual = Tenths(n) /\ least = Tenths(0) /\ most = Tenths(m)
  <2>1. CASE key = "LOG_KEEP"
    <3>1. cast = IntOf /\ least = Tenths(0) /\ most = Tenths(500)
      BY <2>1 DEF Number
    <3> HIDE DEF cast, least, most
    <3>2. usual = Tenths(20)
      BY <2>1, <3>1, TextAssumption
    <3>3. 20 \in {20, 25} /\ 500 \in {500, 36000}
      OBVIOUS
    <3> QED  BY <3>1, <3>2, <3>3
  <2>2. CASE key = "COOLDOWN_SECONDS"
    <3>1. cast = FloatOf /\ least = Tenths(0) /\ most = Tenths(36000)
      BY <2>2 DEF Number
    <3> HIDE DEF cast, least, most
    <3>2. usual = Tenths(25)
      BY <2>2, <3>1, TextAssumption
    <3>3. 25 \in {20, 25} /\ 36000 \in {500, 36000}
      OBVIOUS
    <3> QED  BY <3>1, <3>2, <3>3
  <2> QED  BY <2>1, <2>2
<1>2. got = IF ~taken THEN [value |-> usual, problem |-> TRUE]
            ELSE IF Below(cast[raw.words], least) THEN [value |-> least, problem |-> TRUE]
            ELSE IF Below(most, cast[raw.words]) THEN [value |-> most, problem |-> TRUE]
            ELSE [value |-> cast[raw.words], problem |-> FALSE]
  BY Zenon DEF NumberOf
<1>3. taken => ~QuotesStay(file, key) /\ raw.words = Says(file, key) /\ raw.words \in DOMAIN cast
  <2> HIDE DEF cast
  <2> QED  BY DEF IsOneOf, Heard, Clean
<1> HIDE DEF cast, least, most, usual, got, taken
<1>4. /\ ~Below(usual, least) /\ ~Below(most, usual)
      /\ ~Below(least, least) /\ ~Below(most, least)
      /\ ~Below(most, most)
  BY <1>1 DEF Below, Tenths
<1>5. ~Below(got.value, least) /\ ~Below(most, got.value)
  BY <1>2, <1>4
<1>6. got.problem \/ (Says(file, key) \in DOMAIN cast /\ got.value = cast[Says(file, key)])
  BY <1>2, <1>3
<1>7. QuotesStay(file, key) => got.problem
  BY <1>2, <1>3
<1> QED  BY <1>5, <1>6, <1>7 DEF NumberHonest, cast, least, most, got

(* A flag is the file's, or has a problem.                                 *)
LEMMA FlagIsHonest ==
    ASSUME NEW file, NEW key, NEW raw, Heard(raw, Says(file, key), QuotesStay(file, key))
    PROVE  FlagHonest(file, key, Flag(key, raw))
<1> DEFINE got == Flag(key, raw)
           yes == IsOneOf(raw, Yes)
           no == IsOneOf(raw, No)
<1>1. got = IF yes THEN [value |-> TRUE, problem |-> FALSE]
            ELSE IF no THEN [value |-> FALSE, problem |-> FALSE]
            ELSE [value |-> DEFAULTS[key] = << "1" >>, problem |-> TRUE]
  BY Zenon DEF Flag
<1>2. /\ yes => ~QuotesStay(file, key) /\ Says(file, key) \in Yes
      /\ no => ~QuotesStay(file, key) /\ raw.words = Says(file, key)
      /\ ~yes /\ no => Says(file, key) \notin Yes
  <2> HIDE DEF Yes, No
  <2> QED  BY DEF IsOneOf, Heard, Clean
<1> HIDE DEF got, yes, no
<1>3. CASE yes
  <2>1. got.value = TRUE /\ got.problem = FALSE
    BY <1>1, <1>3
  <2> QED  BY <1>2, <1>3, <2>1, Zenon DEF FlagHonest, got
<1>4. CASE ~yes /\ no
  <2>1. got.value = FALSE /\ got.problem = FALSE
    BY <1>1, <1>4
  <2> QED  BY <1>2, <1>4, <2>1, Zenon DEF FlagHonest, got
<1>5. CASE ~yes /\ ~no
  <2>1. got.problem = TRUE
    BY <1>1, <1>5
  <2> QED  BY <2>1, Zenon DEF FlagHonest, got
<1> QED  BY <1>3, <1>4, <1>5

(* Every word of the file is a button or unknown, and the buttons are its  *)
(* words or BTN_MODE with a problem, unless quotes stay.                   *)
LEMMA CodesAreHonest ==
    ASSUME NEW file, NEW raw,
           Heard(raw, Says(file, "BUTTON_CODES"), QuotesStay(file, "BUTTON_CODES"))
    PROVE  CodesHonest(file, ButtonCodes(raw))
<1> DEFINE said == Says(file, "BUTTON_CODES")
           stay == QuotesStay(file, "BUTTON_CODES")
           got == ButtonCodes(raw)
           codes == UNION {CodesOf(raw.words[i]) : i \in DOMAIN raw.words \ raw.spoilt}
           unknown == raw.spoilt \cup {i \in DOMAIN raw.words : CodesOf(raw.words[i]) = {}}
<1>1. /\ got.value = IF codes = {} THEN {KeyNames.BTN_MODE} ELSE codes
      /\ got.unknown = unknown /\ got.problem = (codes = {})
  BY DEF ButtonCodes
<1>2. Heard(raw, said, stay)
  OBVIOUS
<1> HIDE DEF got, codes, unknown, said, stay
<1>3. got.value # {}
  BY <1>1
<1>4. codes \subseteq got.value
  BY <1>1
<1>5. \A i \in DOMAIN said : i \in DOMAIN raw.words /\ raw.words[i] = said[i]
  BY <1>2 DEF Heard, Clean
<1>6. ASSUME NEW i \in DOMAIN said \ got.unknown
      PROVE  CodesOf(said[i]) # {} /\ CodesOf(said[i]) \subseteq got.value
  <2>1. i \in DOMAIN raw.words \ raw.spoilt /\ CodesOf(raw.words[i]) # {}
    BY <1>1, <1>5, <1>6 DEF unknown
  <2>2. CodesOf(raw.words[i]) \subseteq codes
    BY <2>1 DEF codes
  <2> QED  BY <1>4, <1>5, <2>1, <2>2
<1>7. stay => got.unknown # {}
  BY <1>1, <1>2 DEF Heard, unknown
<1>8. ASSUME ~stay, NEW code \in got.value
      PROVE  got.problem \/ \E i \in DOMAIN said : code \in CodesOf(said[i])
  <2>1. CASE codes = {}
    BY <1>1, <2>1
  <2>2. CASE codes # {}
    <3>1. code \in codes
      BY <1>1, <2>2
    <3>2. PICK i \in DOMAIN raw.words : code \in CodesOf(raw.words[i])
      BY <3>1 DEF codes
    <3>3. raw.words = said
      BY <1>2, <1>8 DEF Heard, Clean
    <3> QED  BY <3>2, <3>3
  <2> QED  BY <2>1, <2>2
<1> QED  BY <1>3, <1>6, <1>7, <1>8 DEF CodesHonest, got, said, stay

(* Nothing in the file makes the program run with something else unless it *)
(* says so.                                                                *)
LEMMA FileHonest ==
    ASSUME NEW file \in AnyFile
    PROVE  HonestConfig(file)
<1> DEFINE read == ReadConfig(file)
           got == Load(file)
           Raw1(key) == read.values[key]
<1>1. /\ \A key \in Key : Heard(Raw1(key), Says(file, key), QuotesStay(file, key))
      /\ read.problems = << >> =>
            file.error = "none" /\ \A i \in DOMAIN file.lines : file.lines[i].is # "junk"
  BY FileRead
<1>2. /\ got.log_keep = NumberOf("LOG_KEEP", Raw1("LOG_KEEP"))
      /\ got.cooldown = NumberOf("COOLDOWN_SECONDS", Raw1("COOLDOWN_SECONDS"))
      /\ got.wake_tv = Flag("WAKE_TV", Raw1("WAKE_TV"))
      /\ got.codes = ButtonCodes(Raw1("BUTTON_CODES"))
      /\ got.device = Raw1("CEC_DEVICE")
      /\ got.problems = read.problems
  BY DEF Load
<1> HIDE DEF got, read
<1>3. /\ NumberHonest(file, "LOG_KEEP", got.log_keep)
      /\ NumberHonest(file, "COOLDOWN_SECONDS", got.cooldown)
  <2>1. "LOG_KEEP" \in Key /\ "COOLDOWN_SECONDS" \in Key
    BY Zenon DEF Key
  <2> QED  BY <1>1, <1>2, <2>1, NumberIsHonest
<1>4. FlagHonest(file, "WAKE_TV", got.wake_tv)
  <2>1. "WAKE_TV" \in Key
    BY Zenon DEF Key
  <2> QED  BY <1>1, <1>2, <2>1, FlagIsHonest
<1>5. CodesHonest(file, got.codes)
  <2>1. "BUTTON_CODES" \in Key
    BY Zenon DEF Key
  <2> QED  BY <1>1, <1>2, <2>1, CodesAreHonest
<1>6. QuotesStay(file, "CEC_DEVICE") \/ got.device = Clean(Says(file, "CEC_DEVICE"))
  <2>1. "CEC_DEVICE" \in Key
    BY Zenon DEF Key
  <2> QED  BY <1>1, <1>2, <2>1 DEF Heard
<1> QED  BY <1>1, <1>2, <1>3, <1>4, <1>5, <1>6 DEF HonestConfig, got

-----------------------------------------------------------------------------
(* The program reads what was written, whichever of the inputs it is: each *)
(* theorem is of every input InputsAssumption allows.                      *)

(* HonestConfig: what runs is what the file says, or a problem or an       *)
(* unknown word is there to log; only a free text may hold stray quotes.   *)
THEOREM ConfigIsHonestAlways == Spec => []ConfigIsHonest
<1>1. Init => ConfigIsHonest
  BY InputsAssumption, FileHonest DEF Init, ConfigIsHonest
<1>2. ConfigIsHonest /\ [Next]_input => ConfigIsHonest'
  BY DEF Next, ConfigIsHonest
<1> QED  BY <1>1, <1>2, PTL DEF Spec

(* FramesAreOurs: extra frames are sent whole, in order, from us and with  *)
(* our physical address, or not at all.                                    *)
THEOREM ExtraFramesCorrect == Spec => []ExtraFramesAreOurs
<1>1. Init => ExtraFramesAreOurs
  <2> SUFFICES ASSUME NEW list \in FrameLists, input = << "frames", list >>
               PROVE  ExtraFramesAreOurs
    BY DEF Init, ExtraFramesAreOurs
  <2>1. list.entries \in Seq(AnyEntry) /\ list.initiator \in 0 .. 15
        /\ list.phys \in PhysicalAddress
    BY InputsAssumption DEF AnyFrameList
  <2> QED  BY <2>1, ListOurs DEF ExtraFramesAreOurs
<1>2. ExtraFramesAreOurs /\ [Next]_input => ExtraFramesAreOurs'
  BY DEF Next, ExtraFramesAreOurs
<1> QED  BY <1>1, <1>2, PTL DEF Spec

(* BitmapReadBack: whichever keys a device has, and however wide the words *)
(* are the kernel prints them in, the watcher sees those and no others.    *)
THEOREM ButtonsCorrect == Spec => []ButtonsReadBack
<1>1. Init => ButtonsReadBack
  <2> SUFFICES ASSUME NEW bits \in SUBSET (0 .. KeyMax), NEW width \in Widths,
                      input = << "bitmap", [bits |-> bits, width |-> width] >>
               PROVE  ButtonsReadBack
    BY DEF Init, ButtonsReadBack
  <2>1. BitmapReadBack(bits, width)
    BY InputsAssumption, BitmapRead
  <2> QED  BY <2>1 DEF ButtonsReadBack
<1>2. ButtonsReadBack /\ [Next]_input => ButtonsReadBack'
  BY DEF Next, ButtonsReadBack
<1> QED  BY <1>1, <1>2, PTL DEF Spec

(* AuxIsOurs: the DPCD registers the program writes are never those of     *)
(* another connector than the adapter's, on any machine where that has a   *)
(* name of its own.                                                        *)
THEOREM AuxCorrect == Spec => []AuxDeviceIsOurs
<1>1. Init => AuxDeviceIsOurs
  <2> SUFFICES ASSUME NEW m \in Machines, input = << "aux", m >>
               PROVE  AuxDeviceIsOurs
    BY DEF Init, AuxDeviceIsOurs
  <2>1. AuxIsOurs(m.machine, m.adapter)
    BY InputsAssumption, AuxFound
  <2> QED  BY <2>1 DEF AuxDeviceIsOurs
<1>2. AuxDeviceIsOurs /\ [Next]_input => AuxDeviceIsOurs'
  BY DEF Next, AuxDeviceIsOurs
<1> QED  BY <1>1, <1>2, PTL DEF Spec
=============================================================================
