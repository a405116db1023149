------------------------------ MODULE CrcProofs ------------------------------
(***************************************************************************)
(* Theorems about the CRC, of any width, for bytes of any number of bits   *)
(* and any polynomial.                                                     *)
(*                                                                         *)
(* A loop of the library is a recursive function, and what it computes is  *)
(* proved by induction over its rounds: of a set of rounds (Upto).  The    *)
(* lemmas on a loop say that it has a run (its values, round by round,     *)
(* registers all of them), and that two runs that begin and go on alike    *)
(* are the same (SameRun).                                                 *)
(***************************************************************************)
EXTENDS Crc, Integers, FiniteSetTheorems, NaturalsInduction, WellFoundedInduction, TLAPS

\* The generator as the division uses it, and the table that the programs make.
Generator == Reflect(Polynomial, CRCWidth)
TheTable == Table(CRC_32)

-----------------------------------------------------------------------------
(* Induction over rounds *)

\* A set of rounds up to n: the first, and each if the one before is in it.
Inductive(S, n) == 0 \in S /\ \A i \in 1..n : i - 1 \in S => i \in S

\* Two functions that begin alike, and go on alike for n rounds.
Alike(f, g, n) == f[0] = g[0] /\ \A i \in 1..n : f[i - 1] = g[i - 1] => f[i] = g[i]

\* The values of a loop of n rounds.
IsRun(f, n, base, step) == f[0] = base /\ \A i \in 1..n : f[i] = step[i][f[i - 1]]

\* What is true of 0, and of each number up to n if it is of the one before.
LEMMA Upto ==
    ASSUME NEW n \in Nat, NEW S, Inductive(S, n)
    PROVE  \A i \in 0..n : i \in S
<1> DEFINE T == { i \in 0..n : i \notin S }
           R == OpToRel(<, Nat)
<1>1. SUFFICES ASSUME T # {} PROVE FALSE
  OBVIOUS
<1>2. IsWellFoundedOn(R, Nat)
  BY NatLessThanWellFounded
<1>3. T \subseteq Nat
  OBVIOUS
<1> HIDE DEF R, T
<1>4. PICK t \in T : \A s \in T : <<s, t>> \notin R
  BY <1>1, <1>2, <1>3, WFMin
<1>5. \A s \in T : ~(s < t)
  BY <1>3, <1>4 DEF R, OpToRel
<1>6. t \in 0..n /\ t \notin S
  BY DEF T
<1>7. t - 1 \in 0..n /\ t \in 1..n
  BY <1>6 DEF Inductive
<1>8. t - 1 \notin T
  BY <1>5, <1>7
<1> QED
  BY <1>6, <1>7, <1>8 DEF T, Inductive

\* A loop of n rounds has a run.
LEMMA RunExists ==
    ASSUME NEW n \in Nat, NEW T, NEW base \in T, NEW step \in [1..n -> [T -> T]]
    PROVE  \E f \in [0..n -> T] : IsRun(f, n, base, step)
<1> DEFINE S == { k \in 0..n : \E f \in [0..k -> T] : IsRun(f, k, base, step) }
<1>1. 0 \in S
  <2> DEFINE f == [i \in 0..0 |-> base]
  <2>1. f \in [0..0 -> T] /\ IsRun(f, 0, base, step)
    BY DEF IsRun
  <2> HIDE DEF f
  <2>2. 0 \in 0..n
    OBVIOUS
  <2> QED
    BY <2>1, <2>2
<1>2. ASSUME NEW k \in 1..n, k - 1 \in S PROVE k \in S
  <2>1. PICK f \in [0..(k - 1) -> T] : IsRun(f, k - 1, base, step)
    BY <1>2
  <2> DEFINE g == [i \in 0..k |-> IF i = k THEN step[k][f[k - 1]] ELSE f[i]]
  <2>2. f[k - 1] \in T
    OBVIOUS
  <2>3. step[k][f[k - 1]] \in T
    BY <2>2
  <2>4. g \in [0..k -> T]
    BY <2>3
  <2>5. g[0] = base
    BY <2>1 DEF IsRun
  <2>6. ASSUME NEW i \in 1..k PROVE g[i] = step[i][g[i - 1]]
    <3>1. CASE i = k
      <4>1. g[i] = step[k][f[k - 1]] /\ g[i - 1] = f[k - 1]
        BY <3>1
      <4> HIDE DEF g
      <4> QED
        BY <3>1, <4>1
    <3>2. CASE i # k
      <4>1. i \in 1..(k - 1) /\ g[i] = f[i] /\ g[i - 1] = f[i - 1]
        BY <3>2
      <4> HIDE DEF g
      <4> QED
        BY <2>1, <4>1 DEF IsRun
    <3> QED
      BY <3>1, <3>2
  <2> HIDE DEF g
  <2>7. IsRun(g, k, base, step)
    BY <2>5, <2>6 DEF IsRun
  <2>8. k \in 0..n
    OBVIOUS
  <2> QED
    BY <2>4, <2>7, <2>8
<1> HIDE DEF S
<1>3. Inductive(S, n)
  BY <1>1, <1>2 DEF Inductive
<1>4. n \in S
  <2>1. \A i \in 0..n : i \in S
    BY <1>3, Upto
  <2> QED
    BY <2>1
<1> QED
  BY <1>4 DEF S

\* Two functions that begin and go on alike are the same.
LEMMA SameRun ==
    ASSUME NEW n \in Nat, NEW f, NEW g, Alike(f, g, n)
    PROVE  \A i \in 0..n : f[i] = g[i]
<1> DEFINE S == { i \in 0..n : f[i] = g[i] }
<1>1. 0 \in S
  BY DEF Alike
<1>2. ASSUME NEW i \in 1..n, i - 1 \in S PROVE i \in S
  BY <1>2 DEF Alike
<1> HIDE DEF S
<1>3. Inductive(S, n)
  BY <1>1, <1>2 DEF Inductive
<1>4. \A i \in 0..n : i \in S
  BY <1>3, Upto
<1> QED
  BY <1>4 DEF S

-----------------------------------------------------------------------------
(* Registers *)

\* Exclusive or, bit by bit.
LEMMA XorIs ==
    ASSUME NEW a, NEW b, NEW i
    PROVE  i \in Xor(a, b) <=> (i \in a /\ i \notin b) \/ (i \notin a /\ i \in b)
BY DEF Xor, SymDiff

\* The exclusive or of registers is a register.
LEMMA XorType ==
    ASSUME NEW S, NEW a \in SUBSET S, NEW b \in SUBSET S
    PROVE  Xor(a, b) \in SUBSET S
BY DEF Xor, SymDiff

\* Exclusive or is commutative, and each register its own inverse.
LEMMA XorLaws ==
    ASSUME NEW a, NEW b
    PROVE  /\ Xor(a, b) = Xor(b, a)
           /\ Xor(a, {}) = a /\ Xor({}, a) = a
           /\ Xor(a, a) = {}
           /\ Xor(Xor(a, b), b) = a
BY DEF Xor, SymDiff

\* Two registers differ in no bit if and only if they are the same.
LEMMA XorSame == \A a, b : Xor(a, b) = {} <=> a = b
BY DEF Xor, SymDiff

\* The four of two sums can be paired the other way.
LEMMA XorSwap ==
    ASSUME NEW a, NEW b, NEW c, NEW d
    PROVE  Xor(Xor(a, b), Xor(c, d)) = Xor(Xor(a, c), Xor(b, d))
BY DEF Xor, SymDiff

\* A shift, bit by bit.
LEMMA ShiftIs ==
    ASSUME NEW a \in CRCType, NEW n \in Nat, NEW i
    PROVE  i \in ShiftRight(a, n) <=> i \in Nat /\ i + n \in a
<1>1. a \subseteq Nat /\ \A j \in a : j \in Nat
  BY CrcConstants DEF CRCType, BIT_MASK
<1>2. ASSUME i \in ShiftRight(a, n) PROVE i \in Nat /\ i + n \in a
  <2>1. PICK j \in a : j >= n /\ i = j - n
    BY <1>2 DEF ShiftRight
  <2>2. i \in Nat /\ i + n = j
    BY <1>1, <2>1
  <2> QED
    BY <2>1, <2>2
<1>3. ASSUME i \in Nat, i + n \in a PROVE i \in ShiftRight(a, n)
  <2>1. i + n >= n /\ (i + n) - n = i
    BY <1>3
  <2> QED
    BY <1>3, <2>1 DEF ShiftRight
<1> QED
  BY <1>2, <1>3

\* A shift of a register is a register.
LEMMA ShiftType ==
    ASSUME NEW a \in CRCType, NEW n \in Nat PROVE ShiftRight(a, n) \in CRCType
<1>1. ASSUME NEW i \in ShiftRight(a, n) PROVE i \in BIT_MASK
  <2>1. i \in Nat /\ i + n \in 0..(CRCWidth - 1)
    BY ShiftIs DEF CRCType, BIT_MASK
  <2> QED
    BY <2>1, CrcConstants DEF BIT_MASK
<1> QED
  BY <1>1 DEF CRCType

\* The other end of a register, bit by bit; it is a register.
LEMMA ReflectIs ==
    ASSUME NEW a \in CRCType
    PROVE  /\ Reflect(a, CRCWidth) \in CRCType
           /\ \A i : i \in Reflect(a, CRCWidth) <=> i \in BIT_MASK /\ CRCWidth - 1 - i \in a
<1>1. a \subseteq 0..(CRCWidth - 1) /\ CRCWidth \in Nat
  BY CrcConstants DEF CRCType, BIT_MASK
<1>2. ASSUME NEW i \in Reflect(a, CRCWidth) PROVE i \in BIT_MASK /\ CRCWidth - 1 - i \in a
  <2>1. PICK j \in a : j < CRCWidth /\ i = CRCWidth - 1 - j
    BY <1>2 DEF Reflect
  <2>2. j \in 0..(CRCWidth - 1)
    BY <1>1
  <2>3. i \in 0..(CRCWidth - 1) /\ CRCWidth - 1 - i = j
    BY <1>1, <2>1, <2>2
  <2> QED
    BY <2>3 DEF BIT_MASK
<1>3. ASSUME NEW i \in BIT_MASK, CRCWidth - 1 - i \in a PROVE i \in Reflect(a, CRCWidth)
  <2>1. CRCWidth - 1 - i < CRCWidth /\ CRCWidth - 1 - (CRCWidth - 1 - i) = i
    BY <1>1 DEF BIT_MASK
  <2> QED
    BY <1>3, <2>1 DEF Reflect
<1> QED
  BY <1>2, <1>3 DEF CRCType

-----------------------------------------------------------------------------
(* The division, bit by bit *)

LEMMA GeneratorType == Generator \in CRCType
BY ReflectIs, CrcConstants DEF Generator, CRCType, BIT_MASK

\* A step of the division, bit by bit; its result is a register.
LEMMA NextBitIs ==
    ASSUME NEW r \in CRCType
    PROVE  /\ NextBit(r, Generator) \in CRCType
           /\ \A i \in BIT_MASK : i \in NextBit(r, Generator) <=>
                  \/ i + 1 \in r /\ ~(0 \in r /\ i \in Generator)
                  \/ i + 1 \notin r /\ 0 \in r /\ i \in Generator
<1>1. ShiftRight(r, 1) \in CRCType
  BY ShiftType
<1>2. NextBit(r, Generator) \in CRCType
  BY <1>1, GeneratorType, XorType DEF NextBit, CRCType
<1>3. ASSUME NEW i \in BIT_MASK PROVE i \in ShiftRight(r, 1) <=> i + 1 \in r
  <2>1. i \in Nat
    BY CrcConstants DEF BIT_MASK
  <2> QED
    BY <2>1, ShiftIs
<1> QED
  BY <1>2, <1>3, XorIs DEF NextBit

\* Registers are the same if their bits are.
LEMMA SameBits ==
    ASSUME NEW a \in CRCType, NEW b \in CRCType, \A i \in BIT_MASK : i \in a <=> i \in b
    PROVE  a = b
BY DEF CRCType

\* A step of the division is linear.
LEMMA NextBitLinear ==
    ASSUME NEW a \in CRCType, NEW b \in CRCType
    PROVE  /\ Xor(a, b) \in CRCType
           /\ NextBit(Xor(a, b), Generator)
                = Xor(NextBit(a, Generator), NextBit(b, Generator))
<1>1. Xor(a, b) \in CRCType
  BY XorType DEF CRCType
<1>2. Xor(NextBit(a, Generator), NextBit(b, Generator)) \in CRCType
  BY NextBitIs, XorType DEF CRCType
<1>3. NextBit(Xor(a, b), Generator) \in CRCType
  BY <1>1, NextBitIs
<1>4. ASSUME NEW i \in BIT_MASK
      PROVE  i \in NextBit(Xor(a, b), Generator)
                <=> i \in Xor(NextBit(a, Generator), NextBit(b, Generator))
  <2>1. i \in NextBit(Xor(a, b), Generator) <=>
            \/ i + 1 \in Xor(a, b) /\ ~(0 \in Xor(a, b) /\ i \in Generator)
            \/ i + 1 \notin Xor(a, b) /\ 0 \in Xor(a, b) /\ i \in Generator
    BY <1>1, NextBitIs
  <2>2. i \in NextBit(a, Generator) <=>
            \/ i + 1 \in a /\ ~(0 \in a /\ i \in Generator)
            \/ i + 1 \notin a /\ 0 \in a /\ i \in Generator
    BY NextBitIs
  <2>3. i \in NextBit(b, Generator) <=>
            \/ i + 1 \in b /\ ~(0 \in b /\ i \in Generator)
            \/ i + 1 \notin b /\ 0 \in b /\ i \in Generator
    BY NextBitIs
  <2>4. /\ i + 1 \in Xor(a, b) <=> (i + 1 \in a /\ i + 1 \notin b) \/ (i + 1 \notin a /\ i + 1 \in b)
        /\ 0 \in Xor(a, b) <=> (0 \in a /\ 0 \notin b) \/ (0 \notin a /\ 0 \in b)
    BY XorIs
  <2>5. i \in Xor(NextBit(a, Generator), NextBit(b, Generator)) <=>
            \/ i \in NextBit(a, Generator) /\ i \notin NextBit(b, Generator)
            \/ i \notin NextBit(a, Generator) /\ i \in NextBit(b, Generator)
    BY XorIs
  <2> QED
    BY <2>1, <2>2, <2>3, <2>4, <2>5
<1> QED
  BY <1>1, <1>2, <1>3, <1>4, SameBits

\* The bits of a byte have a run.
LEMMA NextBitsRun ==
    ASSUME NEW r \in CRCType
    PROVE  \E f \in [0..CHAR_BIT -> CRCType] :
               /\ f[0] = r
               /\ \A i \in 1..CHAR_BIT : f[i] = NextBit(f[i - 1], Generator)
               /\ NextBits(r, Generator) = f[CHAR_BIT]
<1> DEFINE Body(g) ==
               [i \in 0..CHAR_BIT |-> IF i = 0 THEN r ELSE NextBit(g[i - 1], Generator)]
           after == CHOOSE g : g = Body(g)
           step == [i \in 1..CHAR_BIT |-> [x \in CRCType |-> NextBit(x, Generator)]]
<1>1. NextBits(r, Generator) = after[CHAR_BIT]
  BY DEF NextBits
<1>2. CHAR_BIT \in Nat
  BY CrcConstants
<1>3. step \in [1..CHAR_BIT -> [CRCType -> CRCType]]
  BY NextBitIs
<1>4. \A x \in CRCType, i \in 1..CHAR_BIT : step[i][x] = NextBit(x, Generator)
  OBVIOUS
<1> HIDE DEF step, Body, after
<1>5. PICK f \in [0..CHAR_BIT -> CRCType] : IsRun(f, CHAR_BIT, r, step)
  BY <1>2, <1>3, RunExists
<1>6. ASSUME NEW i \in 1..CHAR_BIT PROVE f[i] = NextBit(f[i - 1], Generator)
  <2>1. i - 1 \in 0..CHAR_BIT
    BY <1>2
  <2> QED
    BY <1>4, <1>5, <2>1 DEF IsRun
<1>7. f = Body(f)
  BY <1>2, <1>5, <1>6 DEF Body, IsRun
<1>8. after = Body(after)
  BY <1>7 DEF after
<1>9. Alike(f, after, CHAR_BIT)
  <2>1. f[0] = after[0]
    BY <1>2, <1>5, <1>8 DEF Body, IsRun
  <2>2. ASSUME NEW i \in 1..CHAR_BIT, f[i - 1] = after[i - 1] PROVE f[i] = after[i]
    BY <1>2, <1>6, <1>8, <2>2 DEF Body
  <2> QED
    BY <2>1, <2>2 DEF Alike
<1>10. f[CHAR_BIT] = after[CHAR_BIT]
  <2>1. \A i \in 0..CHAR_BIT : f[i] = after[i]
    BY <1>2, <1>9, SameRun
  <2> QED
    BY <1>2, <2>1
<1> QED
  BY <1>1, <1>5, <1>6, <1>10 DEF IsRun

\* All bits of a byte give a register.
LEMMA NextBitsType ==
    ASSUME NEW r \in CRCType PROVE NextBits(r, Generator) \in CRCType
<1>1. PICK f \in [0..CHAR_BIT -> CRCType] : NextBits(r, Generator) = f[CHAR_BIT]
  BY NextBitsRun
<1> QED
  BY <1>1, CrcConstants

\* All bits of a byte together are linear too.
LEMMA NextBitsLinear ==
    ASSUME NEW a \in CRCType, NEW b \in CRCType
    PROVE  NextBits(Xor(a, b), Generator) = Xor(NextBits(a, Generator), NextBits(b, Generator))
<1>1. CHAR_BIT \in Nat /\ Xor(a, b) \in CRCType
  BY CrcConstants, NextBitLinear
<1>2. PICK f \in [0..CHAR_BIT -> CRCType] :
          /\ f[0] = a
          /\ \A i \in 1..CHAR_BIT : f[i] = NextBit(f[i - 1], Generator)
          /\ NextBits(a, Generator) = f[CHAR_BIT]
  BY NextBitsRun
<1>3. PICK g \in [0..CHAR_BIT -> CRCType] :
          /\ g[0] = b
          /\ \A i \in 1..CHAR_BIT : g[i] = NextBit(g[i - 1], Generator)
          /\ NextBits(b, Generator) = g[CHAR_BIT]
  BY NextBitsRun
<1>4. PICK h \in [0..CHAR_BIT -> CRCType] :
          /\ h[0] = Xor(a, b)
          /\ \A i \in 1..CHAR_BIT : h[i] = NextBit(h[i - 1], Generator)
          /\ NextBits(Xor(a, b), Generator) = h[CHAR_BIT]
  BY <1>1, NextBitsRun
<1> DEFINE sum == [i \in 0..CHAR_BIT |-> Xor(f[i], g[i])]
<1>5. \A i \in 0..CHAR_BIT : sum[i] = Xor(f[i], g[i])
  OBVIOUS
<1> HIDE DEF sum
<1>6. ASSUME NEW i \in 1..CHAR_BIT, h[i - 1] = sum[i - 1] PROVE h[i] = sum[i]
  <2>1. i \in 0..CHAR_BIT /\ i - 1 \in 0..CHAR_BIT
    BY <1>1
  <2>2. f[i - 1] \in CRCType /\ g[i - 1] \in CRCType
    BY <2>1
  <2>3. h[i - 1] = Xor(f[i - 1], g[i - 1])
    BY <1>5, <1>6, <2>1
  <2>4. h[i] = Xor(NextBit(f[i - 1], Generator), NextBit(g[i - 1], Generator))
    BY <1>4, <2>2, <2>3, NextBitLinear
  <2> QED
    BY <1>2, <1>3, <1>5, <2>1, <2>4
<1>7. Alike(h, sum, CHAR_BIT)
  BY <1>1, <1>2, <1>3, <1>4, <1>5, <1>6 DEF Alike
<1>8. h[CHAR_BIT] = sum[CHAR_BIT]
  <2>1. \A i \in 0..CHAR_BIT : h[i] = sum[i]
    BY <1>1, <1>7, SameRun
  <2> QED
    BY <1>1, <2>1
<1>9. sum[CHAR_BIT] = Xor(f[CHAR_BIT], g[CHAR_BIT])
  BY <1>1, <1>5
<1> QED
  BY <1>2, <1>3, <1>4, <1>8, <1>9

\* A remainder with no bit in the next byte is only shifted.
LEMMA NextBitsHigh ==
    ASSUME NEW r \in CRCType, r \cap 0..(CHAR_BIT - 1) = {}
    PROVE  NextBits(r, Generator) = ShiftRight(r, CHAR_BIT)
<1>1. CHAR_BIT \in Nat
  BY CrcConstants
<1>2. PICK f \in [0..CHAR_BIT -> CRCType] :
          /\ f[0] = r
          /\ \A i \in 1..CHAR_BIT : f[i] = NextBit(f[i - 1], Generator)
          /\ NextBits(r, Generator) = f[CHAR_BIT]
  BY NextBitsRun
<1> DEFINE shifted == [i \in 0..CHAR_BIT |-> ShiftRight(r, i)]
<1>3. \A i \in 0..CHAR_BIT : shifted[i] = ShiftRight(r, i)
  OBVIOUS
<1> HIDE DEF shifted
<1>4. f[0] = shifted[0]
  <2>1. ShiftRight(r, 0) = r
    <3>1. ShiftRight(r, 0) \in CRCType
      BY ShiftType
    <3>2. ASSUME NEW i \in BIT_MASK PROVE i \in ShiftRight(r, 0) <=> i \in r
      <4>1. i \in Nat /\ i + 0 = i
        BY CrcConstants DEF BIT_MASK
      <4> QED
        BY <4>1, ShiftIs
    <3> QED
      BY <3>1, <3>2, SameBits
  <2> QED
    BY <1>1, <1>2, <1>3, <2>1
<1>5. ASSUME NEW i \in 1..CHAR_BIT, f[i - 1] = shifted[i - 1] PROVE f[i] = shifted[i]
  <2>1. i \in 0..CHAR_BIT /\ i - 1 \in 0..CHAR_BIT /\ i - 1 \in Nat /\ i \in Nat
    BY <1>1
  <2>2. f[i - 1] = ShiftRight(r, i - 1)
    BY <1>3, <1>5, <2>1
  <2>3. 0 \notin f[i - 1]
    <3>1. i - 1 \in 0..(CHAR_BIT - 1) /\ 0 + (i - 1) = i - 1
      BY <1>1
    <3>2. i - 1 \notin r
      BY <3>1
    <3> QED
      BY <2>1, <2>2, <3>1, <3>2, ShiftIs
  <2>4. f[i] = ShiftRight(ShiftRight(r, i - 1), 1)
    BY <1>2, <2>2, <2>3 DEF NextBit
  <2>5. ShiftRight(ShiftRight(r, i - 1), 1) = ShiftRight(r, i)
    <3>1. ShiftRight(r, i - 1) \in CRCType /\ ShiftRight(r, i) \in CRCType
      BY <2>1, ShiftType
    <3>2. ShiftRight(ShiftRight(r, i - 1), 1) \in CRCType
      BY <3>1, ShiftType
    <3>3. ASSUME NEW j \in BIT_MASK
          PROVE  j \in ShiftRight(ShiftRight(r, i - 1), 1) <=> j \in ShiftRight(r, i)
      <4>1. j \in Nat /\ j + 1 \in Nat /\ j + 1 + (i - 1) = j + i
        BY <2>1, CrcConstants DEF BIT_MASK
      <4>2. j \in ShiftRight(ShiftRight(r, i - 1), 1) <=> j + 1 \in ShiftRight(r, i - 1)
        BY <3>1, <4>1, ShiftIs
      <4>3. j + 1 \in ShiftRight(r, i - 1) <=> j + i \in r
        BY <2>1, <4>1, ShiftIs
      <4>4. j \in ShiftRight(r, i) <=> j + i \in r
        BY <2>1, <4>1, ShiftIs
      <4> QED
        BY <4>2, <4>3, <4>4
    <3> QED
      BY <3>1, <3>2, <3>3, SameBits
  <2> QED
    BY <1>3, <2>1, <2>4, <2>5
<1>6. Alike(f, shifted, CHAR_BIT)
  BY <1>4, <1>5 DEF Alike
<1>7. f[CHAR_BIT] = shifted[CHAR_BIT]
  <2>1. \A i \in 0..CHAR_BIT : f[i] = shifted[i]
    BY <1>1, <1>6, SameRun
  <2> QED
    BY <1>1, <2>1
<1> QED
  BY <1>1, <1>2, <1>3, <1>7

\* If the generator has a constant term, no remainder but 0 gives the remainder 0.
LEMMA NextBitsInjective ==
    ASSUME 0 \in Polynomial, NEW r \in CRCType, NextBits(r, Generator) = {}
    PROVE  r = {}
<1>1. CHAR_BIT \in Nat /\ CRCWidth \in Nat \ {0}
  BY CrcConstants
<1>2. PICK f \in [0..CHAR_BIT -> CRCType] :
          /\ f[0] = r
          /\ \A i \in 1..CHAR_BIT : f[i] = NextBit(f[i - 1], Generator)
          /\ NextBits(r, Generator) = f[CHAR_BIT]
  BY NextBitsRun
<1>3. CRCWidth - 1 \in Generator /\ CRCWidth - 1 \in BIT_MASK
  <2>1. Polynomial \in CRCType /\ CRCWidth - 1 \in BIT_MASK /\ CRCWidth - 1 - (CRCWidth - 1) = 0
    BY <1>1, CrcConstants DEF CRCType, BIT_MASK
  <2> QED
    BY <2>1, ReflectIs DEF Generator
<1>4. ASSUME NEW a \in CRCType, NextBit(a, Generator) = {} PROVE a = {}
  <2>1. \A i \in BIT_MASK : ~( \/ i + 1 \in a /\ ~(0 \in a /\ i \in Generator)
                               \/ i + 1 \notin a /\ 0 \in a /\ i \in Generator )
    BY <1>4, NextBitIs
  <2>2. 0 \notin a
    <3>1. CRCWidth - 1 + 1 \notin a
      BY <1>1 DEF CRCType, BIT_MASK
    <3> QED
      BY <1>3, <2>1, <3>1
  <2>3. ASSUME NEW j \in a PROVE FALSE
    <3>1. j - 1 \in BIT_MASK /\ j - 1 + 1 = j
      BY <1>1, <2>2 DEF CRCType, BIT_MASK
    <3> QED
      BY <2>1, <2>2, <3>1
  <2> QED
    BY <2>3
<1> DEFINE S == { i \in 0..CHAR_BIT : f[CHAR_BIT - i] = {} }
<1>5. 0 \in S
  BY <1>1, <1>2
<1>6. ASSUME NEW i \in 1..CHAR_BIT, i - 1 \in S PROVE i \in S
  <2>1. CHAR_BIT - (i - 1) \in 1..CHAR_BIT /\ CHAR_BIT - (i - 1) - 1 = CHAR_BIT - i
        /\ CHAR_BIT - i \in 0..CHAR_BIT
    BY <1>1
  <2>2. f[CHAR_BIT - (i - 1)] = NextBit(f[CHAR_BIT - i], Generator)
    BY <1>2, <2>1
  <2>3. f[CHAR_BIT - i] \in CRCType
    BY <2>1
  <2> QED
    BY <1>4, <1>6, <2>2, <2>3
<1> HIDE DEF S
<1>7. Inductive(S, CHAR_BIT)
  BY <1>5, <1>6 DEF Inductive
<1>8. CHAR_BIT \in S
  <2>1. \A i \in 0..CHAR_BIT : i \in S
    BY <1>1, <1>7, Upto
  <2> QED
    BY <1>1, <2>1
<1>9. CHAR_BIT - CHAR_BIT = 0
  BY <1>1
<1> QED
  BY <1>2, <1>8, <1>9 DEF S

-----------------------------------------------------------------------------
(* The division, byte by byte *)

\* An entry of the table is the remainder of its byte.
LEMMA TableIs ==
    ASSUME NEW byte \in Char
    PROVE  /\ TheTable.parameters = CRC_32
           /\ byte \in CRCType
           /\ TheTable.table[byte] = NextBits(byte, Generator)
<1> DEFINE Body(g) == [i \in 0..Len(<<byte>>) |->
                           IF i = 0 THEN {} ELSE NextBits(Xor(g[i - 1], <<byte>>[i]), Generator)]
           after == CHOOSE g : g = Body(g)
           run == [i \in 0..1 |-> IF i = 0 THEN {} ELSE NextBits(byte, Generator)]
<1>1. byte \in CRCType
  BY CrcConstants DEF Char, CRCType, BIT_MASK
<1>2. Len(<<byte>>) = 1 /\ <<byte>>[1] = byte
  OBVIOUS
<1>3. Body(run) = run
  <2>1. DOMAIN Body(run) = 0..1 /\ DOMAIN run = 0..1
    BY <1>2
  <2>2. Body(run)[0] = run[0]
    BY <1>2
  <2>3. Body(run)[1] = run[1]
    <3>1. run[0] = {} /\ 1 - 1 = 0 /\ 1 # 0
      OBVIOUS
    <3>2. Body(run)[1] = NextBits(Xor(run[1 - 1], <<byte>>[1]), Generator)
      BY <1>2
    <3>3. run[1] = NextBits(byte, Generator)
      OBVIOUS
    <3> HIDE DEF Body, run
    <3>4. Body(run)[1] = NextBits(Xor({}, byte), Generator)
      BY <1>2, <3>1, <3>2
    <3> QED
      BY <3>3, <3>4, XorLaws
  <2>4. 0..1 = {0, 1}
    OBVIOUS
  <2>5. Body(run) = [i \in 0..1 |-> Body(run)[i]] /\ run = [i \in 0..1 |-> run[i]]
    BY <1>2
  <2> HIDE DEF Body, run
  <2> QED
    BY <2>1, <2>2, <2>3, <2>4, <2>5
<1> HIDE DEF Body, run
<1>4. after = Body(after)
  BY <1>3
<1> HIDE DEF after
<1>5. after[0] = {}
  BY <1>2, <1>4 DEF Body
<1>6. after[1] = NextBits(Xor(after[0], byte), Generator)
  <2>1. after[1] = NextBits(Xor(after[1 - 1], <<byte>>[1]), Generator)
    BY <1>2, <1>4 DEF Body
  <2>2. 1 - 1 = 0
    OBVIOUS
  <2> QED
    BY <1>2, <2>1, <2>2
<1>7. after[1] = NextBits(byte, Generator)
  BY <1>5, <1>6, XorLaws
<1>8. BitwiseRemainder(<<byte>>, CRC_32, {}) = after[Len(<<byte>>)]
  BY DEF BitwiseRemainder, Generator, CRC_32, after, Body
<1>9. TheTable.table[byte] = BitwiseRemainder(<<byte>>, CRC_32, {}) \cap BIT_MASK
  BY DEF TheTable, Table
<1>10. NextBits(byte, Generator) \subseteq BIT_MASK
  BY <1>1, NextBitsType DEF CRCType
<1>11. TheTable.parameters = CRC_32
  BY DEF TheTable, Table
<1> QED
  BY <1>1, <1>2, <1>7, <1>8, <1>9, <1>10, <1>11

\* A byte by the table is the same as its bits one by one.
LEMMA NextByteIs ==
    ASSUME NEW r \in CRCType, NEW byte \in Char
    PROVE  /\ Xor(r, byte) \in CRCType
           /\ NextByte(r, byte, TheTable) = NextBits(Xor(r, byte), Generator)
           /\ NextByte(r, byte, TheTable) \in CRCType
<1> DEFINE low == Xor(r, byte) \cap 0..(CHAR_BIT - 1)
           high == Xor(r, byte) \ low
<1>1. byte \in CRCType /\ Xor(r, byte) \in CRCType
  BY TableIs, NextBitLinear
<1>2. low \in Char /\ low \in CRCType /\ high \in CRCType /\ CHAR_BIT \in Nat
  BY <1>1, CrcConstants DEF Char, CRCType, BIT_MASK
<1>3. Xor(low, high) = Xor(r, byte) /\ high \cap 0..(CHAR_BIT - 1) = {}
  BY DEF Xor, SymDiff
<1>4. high \subseteq Xor(r, byte)
  OBVIOUS
<1>5. \A i \in r : i \notin 0..(CHAR_BIT - 1) => i \in high
  BY DEF Char, Xor, SymDiff
<1>6. \A i \in high : i \in r
  BY DEF Char, Xor, SymDiff
<1>7. NextByte(r, byte, TheTable) = Xor(ShiftRight(r, CHAR_BIT), TheTable.table[low])
  BY DEF NextByte
<1> HIDE DEF low, high
<1>8. ShiftRight(high, CHAR_BIT) = ShiftRight(r, CHAR_BIT)
  <2>1. ShiftRight(high, CHAR_BIT) \in CRCType /\ ShiftRight(r, CHAR_BIT) \in CRCType
    BY <1>2, ShiftType
  <2>2. ASSUME NEW i \in BIT_MASK
        PROVE  i \in ShiftRight(high, CHAR_BIT) <=> i \in ShiftRight(r, CHAR_BIT)
    <3>1. i \in Nat /\ i + CHAR_BIT \notin 0..(CHAR_BIT - 1)
      BY <1>2, CrcConstants DEF BIT_MASK
    <3>2. i + CHAR_BIT \in high <=> i + CHAR_BIT \in r
      BY <1>5, <1>6, <3>1
    <3> QED
      BY <1>2, <3>1, <3>2, ShiftIs
  <2> QED
    BY <2>1, <2>2, SameBits
<1>9. NextBits(Xor(r, byte), Generator)
          = Xor(NextBits(low, Generator), NextBits(high, Generator))
  BY <1>2, <1>3, NextBitsLinear
<1>10. NextBits(high, Generator) = ShiftRight(r, CHAR_BIT)
  BY <1>2, <1>3, <1>8, NextBitsHigh
<1>11. TheTable.table[low] = NextBits(low, Generator)
  BY <1>2, TableIs
<1>12. NextByte(r, byte, TheTable) = NextBits(Xor(r, byte), Generator)
  BY <1>7, <1>9, <1>10, <1>11, XorLaws
<1> QED
  BY <1>1, <1>12, NextBitsType

\* The remainder after each byte of the data.
Remainders(f, data, r) ==
    /\ f \in [0..Len(data) -> CRCType]
    /\ f[0] = r
    /\ \A i \in 1..Len(data) : f[i] = NextByte(f[i - 1], data[i], TheTable)
    /\ CalculateRemainder(data, TheTable, r) = f[Len(data)]

\* The bytes of the data have a run.
LEMMA RemainderRun ==
    ASSUME NEW data \in Seq(Char), NEW r \in CRCType
    PROVE  \E f : Remainders(f, data, r)
<1> DEFINE n == Len(data)
           Body(g) == [i \in 0..n |-> IF i = 0 THEN r ELSE NextByte(g[i - 1], data[i], TheTable)]
           after == CHOOSE g : g = Body(g)
           step == [i \in 1..n |-> [x \in CRCType |-> NextByte(x, data[i], TheTable)]]
<1>1. CalculateRemainder(data, TheTable, r) = after[n]
  BY DEF CalculateRemainder
<1>2. n \in Nat /\ \A i \in 1..n : data[i] \in Char
  OBVIOUS
<1>3. step \in [1..n -> [CRCType -> CRCType]]
  <2>1. \A i \in 1..n, x \in CRCType : NextByte(x, data[i], TheTable) \in CRCType
    BY <1>2, NextByteIs
  <2> QED
    BY <2>1
<1>4. \A x \in CRCType, i \in 1..n : step[i][x] = NextByte(x, data[i], TheTable)
  OBVIOUS
<1> HIDE DEF step, Body, after, n
<1>5. PICK f \in [0..n -> CRCType] : IsRun(f, n, r, step)
  BY <1>2, <1>3, RunExists
<1>6. ASSUME NEW i \in 1..n PROVE f[i] = NextByte(f[i - 1], data[i], TheTable)
  <2>1. i - 1 \in 0..n
    BY <1>2
  <2> QED
    BY <1>4, <1>5, <2>1 DEF IsRun
<1>7. f = Body(f)
  BY <1>2, <1>5, <1>6 DEF Body, IsRun
<1>8. after = Body(after)
  BY <1>7 DEF after
<1>9. Alike(f, after, n)
  <2>1. f[0] = after[0]
    BY <1>2, <1>5, <1>8 DEF Body, IsRun
  <2>2. ASSUME NEW i \in 1..n, f[i - 1] = after[i - 1] PROVE f[i] = after[i]
    BY <1>2, <1>6, <1>8, <2>2 DEF Body
  <2> QED
    BY <2>1, <2>2 DEF Alike
<1>10. f[n] = after[n]
  <2>1. \A i \in 0..n : f[i] = after[i]
    BY <1>2, <1>9, SameRun
  <2> QED
    BY <1>2, <2>1
<1> QED
  BY <1>1, <1>5, <1>6, <1>10 DEF IsRun, n, Remainders

\* The remainder after data is a register.
LEMMA RemainderType ==
    ASSUME NEW data \in Seq(Char), NEW r \in CRCType
    PROVE  CalculateRemainder(data, TheTable, r) \in CRCType
<1>1. PICK f : Remainders(f, data, r)
  BY RemainderRun
<1>2. Len(data) \in 0..Len(data)
  OBVIOUS
<1> QED
  BY <1>1, <1>2 DEF Remainders

\* The remainder after two pieces of data is that of the second, continued from
\* that of the first.
LEMMA RemainderContinues ==
    ASSUME NEW d \in Seq(Char), NEW e \in Seq(Char), NEW r \in CRCType
    PROVE  CalculateRemainder(d \o e, TheTable, r)
               = CalculateRemainder(e, TheTable, CalculateRemainder(d, TheTable, r))
<1>m. PICK m \in Nat : m = Len(d)
  OBVIOUS
<1>n. PICK n \in Nat : n = Len(e)
  OBVIOUS
<1>w. PICK w \in Seq(Char) : w = d \o e
  <2>1. d \o e \in Seq(Char)
    OBVIOUS
  <2> QED
    BY <2>1, Zenon
<1>0. /\ Len(w) = m + n
      /\ \A i \in 1..m : w[i] = d[i]
      /\ \A i \in 1..n : w[m + i] = e[i]
  BY <1>m, <1>n, <1>w
<1>1. m + n \in Nat
  OBVIOUS
<1>2. PICK f :
          /\ f \in [0..m -> CRCType]
          /\ f[0] = r
          /\ \A i \in 1..m : f[i] = NextByte(f[i - 1], d[i], TheTable)
          /\ CalculateRemainder(d, TheTable, r) = f[m]
  <2>1. \E k : Remainders(k, d, r)
    BY <1>m, RemainderRun
  <2> QED
    BY <1>m, <2>1 DEF Remainders
<1>3. f[m] \in CRCType
  BY <1>1, <1>2
<1>4. PICK g :
          /\ g \in [0..n -> CRCType]
          /\ g[0] = f[m]
          /\ \A i \in 1..n : g[i] = NextByte(g[i - 1], e[i], TheTable)
          /\ CalculateRemainder(e, TheTable, f[m]) = g[n]
  <2>1. \E k : Remainders(k, e, f[m])
    BY <1>3, <1>n, RemainderRun
  <2> QED
    BY <1>3, <1>n, <2>1 DEF Remainders
<1>5. PICK h :
          /\ h \in [0..(m + n) -> CRCType]
          /\ h[0] = r
          /\ \A i \in 1..(m + n) : h[i] = NextByte(h[i - 1], w[i], TheTable)
          /\ CalculateRemainder(w, TheTable, r) = h[m + n]
  <2>1. \E k : Remainders(k, w, r)
    BY RemainderRun
  <2> QED
    BY <1>0, <2>1 DEF Remainders
<1>6. h[m] = f[m]
  <2>1. ASSUME NEW i \in 1..m, h[i - 1] = f[i - 1] PROVE h[i] = f[i]
    <3>1. i \in 1..(m + n)
      OBVIOUS
    <3> QED
      BY <1>0, <1>2, <1>5, <2>1, <3>1
  <2>2. Alike(h, f, m)
    BY <1>2, <1>5, <2>1 DEF Alike
  <2>3. \A i \in 0..m : h[i] = f[i]
    BY <1>1, <2>2, SameRun
  <2> QED
    BY <1>1, <2>3
<1> DEFINE rest == [i \in 0..n |-> h[m + i]]
<1>7. \A i \in 0..n : rest[i] = h[m + i]
  OBVIOUS
<1> HIDE DEF rest
<1>8. rest[n] = g[n]
  <2>1. rest[0] = g[0]
    <3>1. 0 \in 0..n /\ m + 0 = m
      BY <1>1
    <3>2. rest[0] = h[m]
      BY <1>7, <3>1
    <3> QED
      BY <1>4, <1>6, <3>2
  <2>2. ASSUME NEW i \in 1..n, rest[i - 1] = g[i - 1] PROVE rest[i] = g[i]
    <3>1. /\ i \in 0..n /\ i - 1 \in 0..n
          /\ m + i \in 1..(m + n) /\ m + i - 1 = m + (i - 1)
      BY <1>1
    <3>2. h[m + i] = NextByte(h[m + i - 1], w[m + i], TheTable)
      BY <1>5, <3>1
    <3>3. h[m + i] = NextByte(h[m + (i - 1)], e[i], TheTable)
      BY <1>0, <3>1, <3>2
    <3> QED
      BY <1>4, <1>7, <2>2, <3>1, <3>3
  <2>3. Alike(rest, g, n)
    BY <2>1, <2>2 DEF Alike
  <2>4. \A i \in 0..n : rest[i] = g[i]
    BY <1>1, <2>3, SameRun
  <2> QED
    BY <1>1, <2>4
<1> QED
  BY <1>1, <1>2, <1>4, <1>5, <1>7, <1>8, <1>w

-----------------------------------------------------------------------------
(* The CRC *)

\* A CRC is the remainder with all its bits inverted, before and after.
LEMMA CalculateIs ==
    ASSUME NEW data \in Seq(Char), NEW crc \in CRCType
    PROVE  /\ Calculate(data, TheTable, crc) \in CRCType
           /\ Xor(crc, BIT_MASK) \in CRCType
           /\ Calculate(data, TheTable, crc)
                  = Xor(CalculateRemainder(data, TheTable, Xor(crc, BIT_MASK)), BIT_MASK)
<1>1. /\ TheTable.parameters = CRC_32
      /\ CRC_32.finalXOR = BIT_MASK /\ CRC_32.reflectInput = TRUE /\ CRC_32.reflectOutput = TRUE
  BY DEF TheTable, Table, CRC_32
<1>2. crc \cap BIT_MASK = crc /\ Xor(crc, BIT_MASK) \in CRCType
  <2>1. crc \in SUBSET BIT_MASK
    BY DEF CRCType
  <2>2. BIT_MASK \in SUBSET BIT_MASK
    OBVIOUS
  <2> QED
    BY <2>1, <2>2, XorType DEF CRCType
<1>3. UndoFinalize(crc, BIT_MASK, FALSE) = Xor(crc, BIT_MASK)
  BY <1>2 DEF UndoFinalize
<1> DEFINE r == CalculateRemainder(data, TheTable, Xor(crc, BIT_MASK))
<1>4. r \in CRCType
  BY <1>2, RemainderType
<1> HIDE DEF r
<1>5. Xor(r, BIT_MASK) \in SUBSET BIT_MASK
  BY <1>4, XorType DEF CRCType
<1>6. Finalize(r, BIT_MASK, FALSE) = Xor(r, BIT_MASK)
  BY <1>5 DEF Finalize
<1>7. Calculate(data, TheTable, crc) = Finalize(r, BIT_MASK, FALSE)
  BY <1>1, <1>3 DEF Calculate, r
<1> QED
  BY <1>2, <1>5, <1>6, <1>7 DEF r, CRCType

\* Continuing a CRC chunk by chunk gives that of all data at once.
THEOREM CrcContinues ==
    ASSUME NEW d \in Seq(Char), NEW e \in Seq(Char), NEW crc \in CRCType
    PROVE  Calculate(d \o e, TheTable, crc)
               = Calculate(e, TheTable, Calculate(d, TheTable, crc))
<1> DEFINE r == CalculateRemainder(d, TheTable, Xor(crc, BIT_MASK))
<1>1. Xor(crc, BIT_MASK) \in CRCType /\ d \o e \in Seq(Char)
  <2>1. Xor(crc, BIT_MASK) \in CRCType
    BY CalculateIs
  <2> QED
    BY <2>1
<1>2. /\ Calculate(d, TheTable, crc) \in CRCType
      /\ Calculate(d, TheTable, crc) = Xor(r, BIT_MASK)
  BY CalculateIs
<1> HIDE DEF r
<1>3. Xor(Calculate(d, TheTable, crc), BIT_MASK) = r
  BY <1>2, XorLaws
<1>4. Calculate(e, TheTable, Calculate(d, TheTable, crc))
          = Xor(CalculateRemainder(e, TheTable, r), BIT_MASK)
  BY <1>2, <1>3, CalculateIs
<1>5. CalculateRemainder(d \o e, TheTable, Xor(crc, BIT_MASK))
          = CalculateRemainder(e, TheTable, r)
  BY <1>1, RemainderContinues DEF r
<1>6. Calculate(d \o e, TheTable, crc)
          = Xor(CalculateRemainder(d \o e, TheTable, Xor(crc, BIT_MASK)), BIT_MASK)
  BY <1>1, CalculateIs
<1> QED
  BY <1>4, <1>5, <1>6

\* The checksum of no bytes is 0, which the functions start from.
LEMMA CrcOfNothing == Calculate(<< >>, TheTable, {}) = {}
<1>1. {} \in CRCType /\ << >> \in Seq(Char)
  BY DEF CRCType
<1>2. Xor({}, BIT_MASK) = BIT_MASK /\ Xor(BIT_MASK, BIT_MASK) = {} /\ BIT_MASK \in CRCType
  BY XorLaws DEF CRCType
<1>3. CalculateRemainder(<< >>, TheTable, BIT_MASK) = BIT_MASK
  <2>1. PICK f : Remainders(f, << >>, BIT_MASK)
    BY <1>1, <1>2, RemainderRun
  <2>2. Len(<< >>) = 0
    OBVIOUS
  <2> QED
    BY <2>1, <2>2 DEF Remainders
<1>4. Calculate(<< >>, TheTable, {})
          = Xor(CalculateRemainder(<< >>, TheTable, Xor({}, BIT_MASK)), BIT_MASK)
  BY <1>1, CalculateIs
<1> QED
  BY <1>2, <1>3, <1>4

-----------------------------------------------------------------------------
(* Which changes of the data a CRC shows *)

\* A step by a byte is linear in the remainder and the byte, and no step gives 0
\* but of a remainder that the byte cancels.
LEMMA NextByteLinear ==
    ASSUME NEW a \in CRCType, NEW b \in CRCType, NEW x \in Char, NEW y \in Char
    PROVE  /\ Xor(a, b) \in CRCType /\ Xor(x, y) \in Char
           /\ NextByte(Xor(a, b), Xor(x, y), TheTable)
                  = Xor(NextByte(a, x, TheTable), NextByte(b, y, TheTable))
           /\ NextByte({}, {}, TheTable) = {}
           /\ 0 \in Polynomial /\ NextByte(a, x, TheTable) = {} => a = x
<1>1. Xor(a, b) \in CRCType /\ Xor(x, y) \in Char
  BY XorType DEF CRCType, Char
<1>2. Xor(a, x) \in CRCType /\ Xor(b, y) \in CRCType
  BY NextByteIs
<1>3. Xor(Xor(a, b), Xor(x, y)) = Xor(Xor(a, x), Xor(b, y))
  BY XorSwap
<1>4. NextByte(Xor(a, b), Xor(x, y), TheTable)
          = Xor(NextByte(a, x, TheTable), NextByte(b, y, TheTable))
  <2>1. NextByte(Xor(a, b), Xor(x, y), TheTable)
            = NextBits(Xor(Xor(a, x), Xor(b, y)), Generator)
    BY <1>1, <1>3, NextByteIs
  <2> QED
    BY <1>2, <2>1, NextByteIs, NextBitsLinear
<1>5. NextByte({}, {}, TheTable) = {}
  <2>1. {} \in CRCType /\ {} \in Char /\ Xor({}, {}) = {} /\ {} \cap 0..(CHAR_BIT - 1) = {}
    BY XorLaws DEF CRCType, Char
  <2>2. NextBits({}, Generator) = ShiftRight({}, CHAR_BIT)
    BY <2>1, NextBitsHigh
  <2>3. ShiftRight({}, CHAR_BIT) = {}
    BY DEF ShiftRight
  <2>4. NextByte({}, {}, TheTable) = NextBits(Xor({}, {}), Generator)
    BY <2>1, NextByteIs
  <2> QED
    BY <2>1, <2>2, <2>3, <2>4
<1>6. ASSUME 0 \in Polynomial, NextByte(a, x, TheTable) = {} PROVE a = x
  <2>1. NextBits(Xor(a, x), Generator) = {}
    BY <1>6, NextByteIs
  <2>2. Xor(a, x) = {}
    BY <1>2, <1>6, <2>1, NextBitsInjective
  <2> QED
    BY <2>2, XorSame
<1> QED
  BY <1>1, <1>4, <1>5, <1>6

\* The bits in which data of one length differ.
Difference(d, e) == [i \in 1..Len(d) |-> Xor(d[i], e[i])]

LEMMA DifferenceIs ==
    ASSUME NEW d \in Seq(Char), NEW e \in Seq(Char), Len(d) = Len(e)
    PROVE  /\ Difference(d, e) \in Seq(Char) /\ Len(Difference(d, e)) = Len(d)
           /\ \A i \in 1..Len(d) : Difference(d, e)[i] = Xor(d[i], e[i])
<1>1. \A i \in 1..Len(d) : d[i] \in Char /\ e[i] \in Char
  OBVIOUS
<1>2. \A i \in 1..Len(d) : Xor(d[i], e[i]) \in Char
  BY <1>1, XorType DEF Char
<1>3. Difference(d, e) \in [1..Len(d) -> Char]
  BY <1>2 DEF Difference
<1>4. \A i \in 1..Len(d) : Difference(d, e)[i] = Xor(d[i], e[i])
  BY DEF Difference
<1> QED
  BY <1>3, <1>4

\* The remainder is linear in the data and in the remainder it begins with.
LEMMA RemainderLinear ==
    ASSUME NEW d \in Seq(Char), NEW e \in Seq(Char), Len(d) = Len(e),
           NEW a \in CRCType, NEW b \in CRCType
    PROVE  CalculateRemainder(Difference(d, e), TheTable, Xor(a, b))
               = Xor(CalculateRemainder(d, TheTable, a), CalculateRemainder(e, TheTable, b))
<1>w. PICK w \in Seq(Char) : /\ w = Difference(d, e)
                             /\ Len(w) = Len(d)
                             /\ \A i \in 1..Len(d) : w[i] = Xor(d[i], e[i])
  BY DifferenceIs
<1>n. PICK n \in Nat : n = Len(d) /\ n = Len(e) /\ n = Len(w)
  BY <1>w
<1>0. Xor(a, b) \in CRCType /\ \A i \in 1..n : d[i] \in Char /\ e[i] \in Char
  <2>1. Xor(a, b) \in CRCType
    BY NextBitLinear
  <2>2. (\A i \in 1..Len(d) : d[i] \in Char) /\ (\A i \in 1..Len(e) : e[i] \in Char)
    OBVIOUS
  <2>3. \A i \in 1..n : d[i] \in Char /\ e[i] \in Char
    BY <1>n, <2>2
  <2> QED
    BY <2>1, <2>3
<1>1. PICK f :
          /\ f \in [0..n -> CRCType]
          /\ f[0] = a
          /\ \A i \in 1..n : f[i] = NextByte(f[i - 1], d[i], TheTable)
          /\ CalculateRemainder(d, TheTable, a) = f[n]
  <2>1. \E k : Remainders(k, d, a)
    BY <1>n, RemainderRun
  <2> QED
    BY <1>n, <2>1 DEF Remainders
<1>2. PICK g :
          /\ g \in [0..n -> CRCType]
          /\ g[0] = b
          /\ \A i \in 1..n : g[i] = NextByte(g[i - 1], e[i], TheTable)
          /\ CalculateRemainder(e, TheTable, b) = g[n]
  <2>1. \E k : Remainders(k, e, b)
    BY <1>n, RemainderRun
  <2> QED
    BY <1>n, <2>1 DEF Remainders
<1>3. PICK h :
          /\ h \in [0..n -> CRCType]
          /\ h[0] = Xor(a, b)
          /\ \A i \in 1..n : h[i] = NextByte(h[i - 1], w[i], TheTable)
          /\ CalculateRemainder(w, TheTable, Xor(a, b)) = h[n]
  <2>1. \E k : Remainders(k, w, Xor(a, b))
    BY <1>0, <1>n, RemainderRun
  <2> QED
    BY <1>0, <1>n, <2>1 DEF Remainders
<1> DEFINE both == [i \in 0..n |-> Xor(f[i], g[i])]
<1>4. \A i \in 0..n : both[i] = Xor(f[i], g[i])
  OBVIOUS
<1> HIDE DEF both
<1>5. ASSUME NEW i \in 1..n, h[i - 1] = both[i - 1] PROVE h[i] = both[i]
  <2>1. i \in 0..n /\ i - 1 \in 0..n /\ f[i - 1] \in CRCType /\ g[i - 1] \in CRCType
    BY <1>1, <1>2
  <2>2. h[i] = NextByte(Xor(f[i - 1], g[i - 1]), Xor(d[i], e[i]), TheTable)
    BY <1>3, <1>4, <1>5, <1>n, <1>w, <2>1
  <2>3. h[i] = Xor(NextByte(f[i - 1], d[i], TheTable), NextByte(g[i - 1], e[i], TheTable))
    <3>1. PICK p \in CRCType, q \in CRCType : p = f[i - 1] /\ q = g[i - 1]
      BY <2>1
    <3>2. PICK x \in Char, y \in Char : x = d[i] /\ y = e[i]
      BY <1>0
    <3>3. NextByte(Xor(p, q), Xor(x, y), TheTable)
              = Xor(NextByte(p, x, TheTable), NextByte(q, y, TheTable))
      BY NextByteLinear
    <3> QED
      BY <2>2, <3>1, <3>2, <3>3
  <2> QED
    BY <1>1, <1>2, <1>4, <2>1, <2>3
<1>6. h[0] = both[0]
  BY <1>1, <1>2, <1>3, <1>4
<1>7. Alike(h, both, n)
  BY <1>5, <1>6 DEF Alike
<1>8. h[n] = both[n]
  <2>1. \A i \in 0..n : h[i] = both[i]
    BY <1>7, SameRun
  <2> QED
    BY <2>1
<1>9. both[n] = Xor(f[n], g[n])
  BY <1>4
<1> QED
  BY <1>1, <1>2, <1>3, <1>8, <1>9, <1>w

\* Data of zeros but for one byte, which may come a second time b bytes later, does
\* not have the remainder 0, unless b bytes of zeros make the byte itself again.
LEMMA ByteSeen ==
    ASSUME 0 \in Polynomial,
           NEW w \in Seq(Char), NEW i \in 1..Len(w), NEW b \in Nat \ {0},
           NEW c \in Char, c # {}, w[i] = c,
           \A j \in 1..Len(w) : w[j] = {} \/ (w[j] = c /\ j \in {i, i + b}),
           CalculateRemainder([k \in 1..b |-> {}], TheTable, c) # c
    PROVE  CalculateRemainder(w, TheTable, {}) # {}
<1>n. PICK n \in Nat : n = Len(w)
  OBVIOUS
<1>0. {} \in CRCType /\ {} \in Char /\ c \in CRCType /\ i \in 1..n
  BY <1>n, TableIs DEF CRCType, Char
<1>1. PICK f :
          /\ f \in [0..n -> CRCType]
          /\ f[0] = {}
          /\ \A j \in 1..n : f[j] = NextByte(f[j - 1], w[j], TheTable)
          /\ CalculateRemainder(w, TheTable, {}) = f[n]
  <2>1. \E k : Remainders(k, w, {})
    BY <1>0, RemainderRun
  <2> QED
    BY <1>n, <2>1 DEF Remainders
<1>2. PICK z :
          /\ z \in [0..b -> CRCType]
          /\ z[0] = c
          /\ \A j \in 1..b : z[j] = NextByte(z[j - 1], {}, TheTable)
          /\ z[b] # c
  <2>1. PICK zeros \in Seq(Char) : zeros = [k \in 1..b |-> {}]
    <3>1. [k \in 1..b |-> {}] \in Seq(Char)
      BY <1>0
    <3> QED
      BY <3>1, Zenon
  <2>2. Len(zeros) = b /\ \A j \in 1..b : zeros[j] = {}
    BY <2>1
  <2>3. \E k : Remainders(k, zeros, c)
    BY <1>0, RemainderRun
  <2>4. CalculateRemainder(zeros, TheTable, c) # c
    BY <2>1
  <2> QED
    BY <2>2, <2>3, <2>4 DEF Remainders
\* What the remainder is after j bytes: 0, then that of the byte alone, and never 0
\* again.
<1> DEFINE Fits(j) == /\ j < i => f[j] = {}
                      /\ j >= i /\ j < i + b => f[j] = z[j - i + 1]
                      /\ j >= i => f[j] # {}
           S == { j \in 0..n : Fits(j) }
<1>3. /\ \A r \in CRCType, x \in Char : NextByte(r, x, TheTable) = {} => r = x
      /\ NextByte({}, {}, TheTable) = {}
  BY <1>0, NextByteLinear
<1>4. ASSUME NEW j \in 1..n, Fits(j - 1) PROVE Fits(j)
  <2>1. /\ j - 1 \in 0..n /\ j \in 0..n /\ i \in Nat
        /\ f[j] = NextByte(f[j - 1], w[j], TheTable)
        /\ f[j - 1] \in CRCType /\ w[j] \in Char
    BY <1>1, <1>n, <1>0
  <2>2. w[j] = {} \/ (w[j] = c /\ j \in {i, i + b})
    BY <1>n
  <2>3. CASE j < i
    <3>1. f[j - 1] = {} /\ w[j] = {}
      BY <1>4, <2>1, <2>2, <2>3
    <3>2. f[j] = {}
      BY <1>3, <2>1, <3>1
    <3> QED
      BY <2>1, <2>3, <3>2
  <2>4. CASE j = i
    <3>1. f[j - 1] = {} /\ w[j] = c
      BY <1>4, <2>1, <2>4
    <3>2. f[j] = NextByte({}, c, TheTable)
      BY <2>1, <3>1
    <3>3. f[j] # {}
      BY <1>0, <1>3, <3>2
    <3>4. z[1] = NextByte(c, {}, TheTable)
      <4>1. 1 \in 1..b /\ 1 - 1 = 0
        OBVIOUS
      <4> QED
        BY <1>2, <4>1
    <3>5. NextByte({}, c, TheTable) = NextByte(c, {}, TheTable)
      <4>1. Xor({}, c) = Xor(c, {})
        BY XorLaws
      <4> QED
        BY <1>0, <4>1, NextByteIs
    <3>6. j - i + 1 = 1
      BY <2>1, <2>4
    <3> QED
      BY <2>1, <2>4, <3>2, <3>3, <3>4, <3>5, <3>6
  <2>5. CASE j > i /\ j < i + b
    <3>1. w[j] = {}
      BY <2>1, <2>2, <2>5
    <3>2. f[j - 1] # {} /\ f[j - 1] = z[j - 1 - i + 1]
      BY <1>4, <2>1, <2>5
    <3>3. j - 1 - i + 1 = j - i /\ j - i + 1 \in 1..b /\ j - i + 1 - 1 = j - i
      BY <2>1, <2>5
    <3>4. z[j - i + 1] = NextByte(z[j - i], {}, TheTable)
      BY <1>2, <3>3
    <3>5. f[j] = z[j - i + 1]
      BY <2>1, <3>1, <3>2, <3>3, <3>4
    <3>6. f[j] # {}
      BY <1>0, <1>3, <2>1, <3>1, <3>2
    <3> QED
      BY <2>1, <2>5, <3>5, <3>6
  <2>6. CASE j = i + b
    <3>1. f[j - 1] # {} /\ f[j - 1] = z[j - 1 - i + 1]
      BY <1>4, <2>1, <2>6
    <3>2. j - 1 - i + 1 = b
      BY <2>1, <2>6
    <3>3. f[j - 1] # w[j]
      BY <1>2, <2>2, <3>1, <3>2
    <3>4. f[j] # {}
      BY <1>3, <2>1, <3>3
    <3> QED
      BY <2>1, <2>6, <3>4
  <2>7. CASE j > i + b
    <3>1. w[j] = {} /\ f[j - 1] # {}
      BY <1>4, <2>1, <2>2, <2>7
    <3>2. f[j] # {}
      BY <1>3, <2>1, <3>1
    <3> QED
      BY <2>1, <2>7, <3>2
  <2> QED
    BY <2>1, <2>3, <2>4, <2>5, <2>6, <2>7
<1>5. Fits(0)
  BY <1>0, <1>1
<1> HIDE DEF Fits
<1>6. 0 \in S
  BY <1>5
<1>7. ASSUME NEW j \in 1..n, j - 1 \in S PROVE j \in S
  BY <1>4, <1>7
<1> HIDE DEF S
<1>8. Inductive(S, n)
  BY <1>6, <1>7 DEF Inductive
<1>9. n \in S
  <2>1. \A j \in 0..n : j \in S
    BY <1>8, Upto
  <2> QED
    BY <2>1
<1> QED
  BY <1>0, <1>1, <1>9 DEF S, Fits

\* Data of one length that differ in one byte have different CRCs, also when the
\* same byte comes again b bytes later and differs there too; unless b bytes of
\* zeros make of the difference the difference itself.
THEOREM CrcShowsByte ==
    ASSUME 0 \in Polynomial,
           NEW d \in Seq(Char), NEW e \in Seq(Char), Len(d) = Len(e),
           NEW crc \in CRCType, NEW i \in 1..Len(d), NEW b \in Nat \ {0}, d[i] # e[i],
           \A j \in 1..Len(d) :
               d[j] = e[j] \/ (Xor(d[j], e[j]) = Xor(d[i], e[i]) /\ j \in {i, i + b}),
           CalculateRemainder([k \in 1..b |-> {}], TheTable, Xor(d[i], e[i])) # Xor(d[i], e[i])
    PROVE  Calculate(d, TheTable, crc) # Calculate(e, TheTable, crc)
<1> DEFINE r == Xor(crc, BIT_MASK)
<1> HIDE DEF r
<1>1. \A j \in 1..Len(d) : d[j] \in Char /\ e[j] \in Char
  OBVIOUS
<1>2. \A j \in 1..Len(d) : Xor(d[j], e[j]) \in Char
  BY <1>1, XorType DEF Char
<1>3. PICK w \in Seq(Char) : w = Difference(d, e)
  BY DifferenceIs
<1>4. Len(w) = Len(d) /\ \A j \in 1..Len(d) : w[j] = Xor(d[j], e[j])
  BY <1>3, DifferenceIs
<1>5. PICK c \in Char : c = Xor(d[i], e[i])
  BY <1>2
<1>6. c # {}
  <2>1. Xor(d[i], e[i]) = {} <=> d[i] = e[i]
    BY XorSame
  <2> QED
    BY <1>5, <2>1
<1>7. ASSUME NEW j \in 1..Len(w) PROVE w[j] = {} \/ (w[j] = c /\ j \in {i, i + b})
  <2>1. CASE d[j] = e[j]
    <3>1. Xor(d[j], e[j]) = {}
      BY <2>1, XorSame
    <3> QED
      BY <1>4, <3>1
  <2>2. CASE Xor(d[j], e[j]) = Xor(d[i], e[i]) /\ j \in {i, i + b}
    BY <1>4, <1>5, <2>2
  <2> QED
    BY <1>4, <2>1, <2>2
<1>8. CalculateRemainder(w, TheTable, {}) # {}
  <2>1. w[i] = c /\ i \in 1..Len(w)
    BY <1>4, <1>5
  <2>2. CalculateRemainder([k \in 1..b |-> {}], TheTable, c) # c
    BY <1>5
  <2> QED
    BY <1>6, <1>7, <2>1, <2>2, ByteSeen
<1>9. r \in CRCType /\ Xor(r, r) = {}
  BY CalculateIs, XorLaws DEF r
<1>10. CalculateRemainder(w, TheTable, Xor(r, r))
           = Xor(CalculateRemainder(d, TheTable, r), CalculateRemainder(e, TheTable, r))
  <2>1. r \in CRCType
    BY <1>9
  <2>2. CalculateRemainder(Difference(d, e), TheTable, Xor(r, r))
           = Xor(CalculateRemainder(d, TheTable, r), CalculateRemainder(e, TheTable, r))
    BY ONLY <2>1, RemainderLinear, d \in Seq(Char), e \in Seq(Char), Len(d) = Len(e)
  <2> QED
    BY ONLY <1>3, <2>2
<1>11. CalculateRemainder(d, TheTable, r) # CalculateRemainder(e, TheTable, r)
  BY <1>8, <1>9, <1>10, XorSame
<1>12. /\ Calculate(d, TheTable, crc) = Xor(CalculateRemainder(d, TheTable, r), BIT_MASK)
       /\ Calculate(e, TheTable, crc) = Xor(CalculateRemainder(e, TheTable, r), BIT_MASK)
  BY CalculateIs DEF r
<1>13. \A x, y : Xor(x, BIT_MASK) = Xor(y, BIT_MASK) => x = y
  <2> SUFFICES ASSUME NEW x, NEW y, Xor(x, BIT_MASK) = Xor(y, BIT_MASK) PROVE x = y
    OBVIOUS
  <2>1. Xor(Xor(x, BIT_MASK), BIT_MASK) = x /\ Xor(Xor(y, BIT_MASK), BIT_MASK) = y
    BY XorLaws
  <2> QED
    BY <2>1
<1> QED
  BY <1>11, <1>12, <1>13

=============================================================================
