-------------------------- MODULE CrcReferenceProofs --------------------------
(***************************************************************************)
(* The table-driven CRC is the remainder of a division of polynomials.     *)
(*                                                                         *)
(* The residues of the powers of x add up to the remainder of a            *)
(* polynomial, and raising a polynomial by one multiplies its remainder by *)
(* x.  A byte of data raises the dividend of the data before it by         *)
(* CHAR_BIT, after adding the byte at the top, and that is what the loop   *)
(* over the table does to its register, seen from the other end.           *)
(***************************************************************************)
EXTENDS CrcProofs, SequenceTheorems

-----------------------------------------------------------------------------
(* Polynomials *)

\* A polynomial times x, term by term; its result is a register.
LEMMA TimesIs ==
    ASSUME NEW p \in CRCType
    PROVE  /\ Times(p) \in CRCType
           /\ \A j \in BIT_MASK : j \in Times(p) <=>
                  \/ j - 1 \in p /\ ~(CRCWidth - 1 \in p /\ j \in Polynomial)
                  \/ j - 1 \notin p /\ CRCWidth - 1 \in p /\ j \in Polynomial
<1> DEFINE up == { i + 1 : i \in p }
<1>1. p \subseteq 0..(CRCWidth - 1) /\ CRCWidth \in Nat \ {0} /\ Polynomial \subseteq BIT_MASK
  BY CrcConstants DEF CRCType, BIT_MASK
<1>2. ASSUME NEW j \in Int PROVE j \in up <=> j - 1 \in p
  <2>1. ASSUME j \in up PROVE j - 1 \in p
    <3>1. PICK i \in p : j = i + 1
      BY <2>1
    <3>2. i \in Int
      BY <1>1
    <3>3. j - 1 = i
      BY <3>1, <3>2
    <3> QED
      BY <3>1, <3>3
  <2>2. ASSUME j - 1 \in p PROVE j \in up
    <3>1. (j - 1) + 1 = j
      OBVIOUS
    <3>2. (j - 1) + 1 \in up
      BY <2>2
    <3> QED
      BY <3>1, <3>2
  <2> QED
    BY <2>1, <2>2
<1>3. CRCWidth \in up <=> CRCWidth - 1 \in p
  BY <1>1, <1>2
<1>4. ASSUME NEW j \in BIT_MASK PROVE j \in up <=> j - 1 \in p
  BY <1>1, <1>2 DEF BIT_MASK
<1>5. up \subseteq 1..CRCWidth
  BY <1>1
<1>6. up \ {CRCWidth} \subseteq BIT_MASK
  BY <1>1, <1>5 DEF BIT_MASK
<1>7. Times(p) = IF CRCWidth \in up THEN Xor(up \ {CRCWidth}, Polynomial) ELSE up
  BY DEF Times
<1> HIDE DEF up
<1>8. CASE CRCWidth \in up
  <2>1. Times(p) = Xor(up \ {CRCWidth}, Polynomial)
    BY <1>7, <1>8
  <2>2. Times(p) \in CRCType
    <3>1. up \ {CRCWidth} \in CRCType /\ Polynomial \in CRCType
      BY <1>1, <1>6 DEF CRCType
    <3> QED
      BY <2>1, <3>1, NextBitLinear
  <2>3. ASSUME NEW j \in BIT_MASK
        PROVE  j \in Times(p) <=> \/ j \in up /\ j \notin Polynomial
                                  \/ j \notin up /\ j \in Polynomial
    <3>1. j # CRCWidth
      BY <1>1 DEF BIT_MASK
    <3> QED
      BY <2>1, <3>1, XorIs
  <2> QED
    BY <1>3, <1>4, <1>8, <2>2, <2>3
<1>9. CASE CRCWidth \notin up
  <2>1. Times(p) = up /\ up \subseteq BIT_MASK
    BY <1>6, <1>7, <1>9
  <2> QED
    BY <1>3, <1>4, <1>9, <2>1 DEF CRCType
<1> QED
  BY <1>8, <1>9

\* Multiplying is linear.
LEMMA TimesLinear ==
    ASSUME NEW p \in CRCType, NEW q \in CRCType
    PROVE  Times(Xor(p, q)) = Xor(Times(p), Times(q))
<1>1. Xor(p, q) \in CRCType
  BY NextBitLinear
<1>2. Times(Xor(p, q)) \in CRCType /\ Xor(Times(p), Times(q)) \in CRCType
  <2>1. Times(p) \in CRCType /\ Times(q) \in CRCType /\ Times(Xor(p, q)) \in CRCType
    BY <1>1, TimesIs
  <2> QED
    BY <2>1, NextBitLinear
<1>3. ASSUME NEW j \in BIT_MASK
      PROVE  j \in Times(Xor(p, q)) <=> j \in Xor(Times(p), Times(q))
  <2>1. j \in Times(p) <=>
                  \/ j - 1 \in p /\ ~(CRCWidth - 1 \in p /\ j \in Polynomial)
                  \/ j - 1 \notin p /\ CRCWidth - 1 \in p /\ j \in Polynomial
    BY TimesIs
  <2>2. j \in Times(q) <=>
                  \/ j - 1 \in q /\ ~(CRCWidth - 1 \in q /\ j \in Polynomial)
                  \/ j - 1 \notin q /\ CRCWidth - 1 \in q /\ j \in Polynomial
    BY TimesIs
  <2>3. j \in Times(Xor(p, q)) <=>
                  \/ j - 1 \in Xor(p, q) /\ ~(CRCWidth - 1 \in Xor(p, q) /\ j \in Polynomial)
                  \/ j - 1 \notin Xor(p, q) /\ CRCWidth - 1 \in Xor(p, q) /\ j \in Polynomial
    BY <1>1, TimesIs
  <2>4. \A i : i \in Xor(p, q) <=> (i \in p /\ i \notin q) \/ (i \notin p /\ i \in q)
    BY XorIs
  <2>5. j \in Xor(Times(p), Times(q)) <=>
            (j \in Times(p) /\ j \notin Times(q)) \/ (j \notin Times(p) /\ j \in Times(q))
    BY XorIs
  <2> QED
    BY <2>1, <2>2, <2>3, <2>4, <2>5
<1> QED
  BY <1>2, <1>3, SameBits

\* Seen from the other end, a step of the division multiplies by x.
LEMMA TimesReflect ==
    ASSUME NEW r \in CRCType
    PROVE  Times(Reflect(r, CRCWidth)) = Reflect(NextBit(r, Generator), CRCWidth)
<1> DEFINE p == Reflect(r, CRCWidth)
           s == NextBit(r, Generator)
<1>1. CRCWidth \in Nat \ {0} /\ p \in CRCType /\ s \in CRCType
  BY CrcConstants, ReflectIs, NextBitIs
<1>2. Times(p) \in CRCType /\ Reflect(s, CRCWidth) \in CRCType
  BY <1>1, TimesIs, ReflectIs
<1>3. ASSUME NEW j \in BIT_MASK PROVE j \in Times(p) <=> j \in Reflect(s, CRCWidth)
  <2> DEFINE i == CRCWidth - 1 - j
  <2>1. /\ i \in BIT_MASK /\ i + 1 = CRCWidth - j /\ CRCWidth - 1 - i = j
        /\ CRCWidth - 1 - (CRCWidth - 1) = 0 /\ CRCWidth - 1 \in BIT_MASK
        /\ CRCWidth - 1 - (j - 1) = CRCWidth - j
    BY <1>1 DEF BIT_MASK
  <2>2. j - 1 \in p <=> i + 1 \in r
    <3>1. j - 1 \in p <=> j - 1 \in BIT_MASK /\ CRCWidth - j \in r
      BY <2>1, ReflectIs
    <3>2. CRCWidth - j \in r => j - 1 \in BIT_MASK
      BY <1>1 DEF BIT_MASK, CRCType
    <3> QED
      BY <2>1, <3>1, <3>2
  <2>3. CRCWidth - 1 \in p <=> 0 \in r
    BY <2>1, ReflectIs
  <2>4. i \in Generator <=> j \in Polynomial
    <3>1. Polynomial \in CRCType
      BY CrcConstants DEF CRCType, BIT_MASK
    <3> QED
      BY <2>1, <3>1, ReflectIs DEF Generator
  <2>5. j \in Reflect(s, CRCWidth) <=> i \in s
    BY <1>1, ReflectIs
  <2>6. i \in s <=> \/ i + 1 \in r /\ ~(0 \in r /\ i \in Generator)
                    \/ i + 1 \notin r /\ 0 \in r /\ i \in Generator
    BY <2>1, NextBitIs
  <2>7. j \in Times(p) <=>
                  \/ j - 1 \in p /\ ~(CRCWidth - 1 \in p /\ j \in Polynomial)
                  \/ j - 1 \notin p /\ CRCWidth - 1 \in p /\ j \in Polynomial
    BY <1>1, TimesIs
  <2> HIDE DEF i, p, s
  <2> QED
    BY <2>2, <2>3, <2>4, <2>5, <2>6, <2>7
<1> QED
  BY <1>2, <1>3, SameBits

\* Reflecting is linear, and reflecting twice gives the register back.
LEMMA ReflectLaws ==
    ASSUME NEW a \in CRCType, NEW b \in CRCType
    PROVE  /\ Reflect(Xor(a, b), CRCWidth) = Xor(Reflect(a, CRCWidth), Reflect(b, CRCWidth))
           /\ Reflect(Reflect(a, CRCWidth), CRCWidth) = a
           /\ Reflect(BIT_MASK, CRCWidth) = BIT_MASK
<1>1. Xor(a, b) \in CRCType /\ BIT_MASK \in CRCType /\ CRCWidth \in Nat
  BY NextBitLinear, CrcConstants DEF CRCType
<1>2. \A i \in BIT_MASK : CRCWidth - 1 - i \in BIT_MASK /\ CRCWidth - 1 - (CRCWidth - 1 - i) = i
  BY <1>1 DEF BIT_MASK
<1>3. Reflect(Xor(a, b), CRCWidth) = Xor(Reflect(a, CRCWidth), Reflect(b, CRCWidth))
  <2>1. /\ Reflect(Xor(a, b), CRCWidth) \in CRCType
        /\ Xor(Reflect(a, CRCWidth), Reflect(b, CRCWidth)) \in CRCType
    <3>1. Reflect(a, CRCWidth) \in CRCType /\ Reflect(b, CRCWidth) \in CRCType
      BY ReflectIs
    <3> QED
      BY <1>1, <3>1, ReflectIs, NextBitLinear
  <2>2. ASSUME NEW i \in BIT_MASK
        PROVE  i \in Reflect(Xor(a, b), CRCWidth)
                   <=> i \in Xor(Reflect(a, CRCWidth), Reflect(b, CRCWidth))
    <3>1. /\ i \in Reflect(a, CRCWidth) <=> CRCWidth - 1 - i \in a
          /\ i \in Reflect(b, CRCWidth) <=> CRCWidth - 1 - i \in b
          /\ i \in Reflect(Xor(a, b), CRCWidth) <=> CRCWidth - 1 - i \in Xor(a, b)
      BY <1>1, ReflectIs
    <3> QED
      BY <3>1, XorIs
  <2> QED
    BY <2>1, <2>2, SameBits
<1>4. Reflect(Reflect(a, CRCWidth), CRCWidth) = a
  <2>1. Reflect(a, CRCWidth) \in CRCType /\ Reflect(Reflect(a, CRCWidth), CRCWidth) \in CRCType
    <3>1. Reflect(a, CRCWidth) \in CRCType
      BY ReflectIs
    <3> QED
      BY <3>1, ReflectIs
  <2>2. ASSUME NEW i \in BIT_MASK
        PROVE  i \in Reflect(Reflect(a, CRCWidth), CRCWidth) <=> i \in a
    <3>1. i \in Reflect(Reflect(a, CRCWidth), CRCWidth)
              <=> CRCWidth - 1 - i \in Reflect(a, CRCWidth)
      BY <2>1, ReflectIs
    <3>2. CRCWidth - 1 - i \in Reflect(a, CRCWidth) <=> i \in a
      BY <1>2, ReflectIs
    <3> QED
      BY <3>1, <3>2
  <2> QED
    BY <2>1, <2>2, SameBits
<1>5. Reflect(BIT_MASK, CRCWidth) = BIT_MASK
  <2>1. Reflect(BIT_MASK, CRCWidth) \in CRCType
    BY <1>1, ReflectIs
  <2>2. \A i \in BIT_MASK : i \in Reflect(BIT_MASK, CRCWidth) <=> i \in BIT_MASK
    BY <1>1, <1>2, ReflectIs
  <2> QED
    BY <1>1, <2>1, <2>2, SameBits
<1> QED
  BY <1>3, <1>4, <1>5

-----------------------------------------------------------------------------
(* Residues *)

\* The first n residues of the powers of x.
IsResidues(R, n) ==
    /\ R[1] = {0}
    /\ \A i \in 1..n : R[i] \in CRCType
    /\ \A i \in 1..(n - 1) : R[i + 1] = Times(R[i])

\* The terms of p whose residue has the bit j.
Terms(p, j, R) == { i \in p : j \in R[i + 1] }

\* A polynomial times the power n of x.
Raised(p, n) == { i + n : i \in p }

\* The residues of the powers of x, by steps.
LEMMA ResiduesAre ==
    ASSUME NEW n \in Nat \ {0}
    PROVE  IsResidues(Residues(n), n)
<1> DEFINE Body(g) == [i \in 1..n |-> IF i = 1 THEN {0} ELSE Times(g[i - 1])]
           residue == CHOOSE g : g = Body(g)
           step == [i \in 1..(n - 1) |-> [x \in CRCType |-> Times(x)]]
<1>1. Residues(n) = SubSeq(residue, 1, n)
  BY DEF Residues
<1>2. {0} \in CRCType
  BY CrcConstants DEF CRCType, BIT_MASK
<1>3. step \in [1..(n - 1) -> [CRCType -> CRCType]]
  BY TimesIs
<1>4. \A x \in CRCType, i \in 1..(n - 1) : step[i][x] = Times(x)
  OBVIOUS
<1> HIDE DEF step, Body, residue
<1>5. PICK f \in [0..(n - 1) -> CRCType] : IsRun(f, n - 1, {0}, step)
  <2>1. n - 1 \in Nat
    OBVIOUS
  <2> QED
    BY <1>2, <1>3, <2>1, RunExists
<1>6. f[0] = {0}
  BY <1>5 DEF IsRun
<1>7. ASSUME NEW i \in 1..(n - 1) PROVE f[i] = Times(f[i - 1])
  <2>1. i - 1 \in 0..(n - 1)
    OBVIOUS
  <2>2. f[i - 1] \in CRCType
    BY <1>5, <2>1
  <2> QED
    BY <1>4, <1>5, <2>2 DEF IsRun
<1> DEFINE g == [i \in 1..n |-> f[i - 1]]
<1>8. g = Body(g)
  <2>1. ASSUME NEW i \in 1..n
        PROVE  g[i] = IF i = 1 THEN {0} ELSE Times(g[i - 1])
    <3>1. CASE i = 1
      BY <1>6, <3>1
    <3>2. CASE i # 1
      <4>1. i - 1 \in 1..(n - 1) /\ i - 1 \in 1..n
        BY <3>2
      <4>2. f[i - 1] = Times(f[(i - 1) - 1])
        BY <1>7, <4>1
      <4>3. g[i] = f[i - 1] /\ g[i - 1] = f[(i - 1) - 1]
        BY <4>1
      <4> HIDE DEF g
      <4> QED
        BY <3>2, <4>2, <4>3
    <3> QED
      BY <3>1, <3>2
  <2>2. g = [i \in 1..n |-> g[i]]
    OBVIOUS
  <2> HIDE DEF g
  <2> QED
    BY <2>1, <2>2 DEF Body
<1>9. residue = Body(residue)
  BY <1>8 DEF residue
<1>10. \A i \in 1..n : residue[i] = f[i - 1]
  <2> DEFINE h == [i \in 0..(n - 1) |-> residue[i + 1]]
  <2>1. h[0] = residue[1]
    BY DEF h
  <2>2. residue[1] = {0}
    BY <1>9 DEF Body
  <2>3. ASSUME NEW i \in 1..(n - 1), f[i - 1] = h[i - 1] PROVE f[i] = h[i]
    <3>1. i + 1 \in 1..n /\ i + 1 # 1 /\ (i + 1) - 1 = i /\ (i - 1) + 1 = i
      OBVIOUS
    <3>2. h[i] = residue[i + 1] /\ h[i - 1] = residue[i]
      BY <3>1
    <3>3. residue[i + 1] = Times(residue[i])
      BY <1>9, <3>1 DEF Body
    <3> HIDE DEF h
    <3> QED
      BY <1>7, <2>3, <3>2, <3>3
  <2> HIDE DEF h
  <2>4. Alike(f, h, n - 1)
    BY <1>6, <2>1, <2>2, <2>3 DEF Alike
  <2>5. \A i \in 0..(n - 1) : f[i] = h[i]
    <3>1. n - 1 \in Nat
      OBVIOUS
    <3> QED
      BY <2>4, <3>1, SameRun
  <2>6. ASSUME NEW i \in 1..n PROVE residue[i] = f[i - 1]
    <3>1. i - 1 \in 0..(n - 1) /\ (i - 1) + 1 = i
      OBVIOUS
    <3> QED
      BY <2>5, <3>1 DEF h
  <2> QED
    BY <2>6
<1>11. \A i \in 1..n : residue[i] \in CRCType
  <2>1. ASSUME NEW i \in 1..n PROVE residue[i] \in CRCType
    <3>1. i - 1 \in 0..(n - 1)
      OBVIOUS
    <3> QED
      BY <1>5, <1>10, <3>1
  <2> QED
    BY <2>1
<1>12. SubSeq(residue, 1, n) = residue
  <2>1. residue = [i \in 1..n |-> residue[i]]
    BY <1>9 DEF Body
  <2>2. residue \in [1..n -> CRCType]
    BY <1>11, <2>1
  <2>3. residue \in Seq(CRCType) /\ Len(residue) = n
    BY <2>2
  <2> QED
    BY <2>3
<1>13. ASSUME NEW i \in 1..(n - 1) PROVE residue[i + 1] = Times(residue[i])
  <2>1. i \in 1..n /\ i + 1 \in 1..n /\ (i + 1) - 1 = i
    OBVIOUS
  <2> QED
    BY <1>7, <1>10, <2>1
<1>14. residue[1] = {0}
  BY <1>6, <1>10
<1> QED
  BY <1>1, <1>11, <1>12, <1>13, <1>14 DEF IsResidues

-----------------------------------------------------------------------------
(* Remainders of polynomials *)

\* Sizes of finite sets: parities add up.
LEMMA OddXor ==
    ASSUME NEW a, NEW b, IsFiniteSet(a), IsFiniteSet(b)
    PROVE  Cardinality(Xor(a, b)) % 2 = 1
               <=> (Cardinality(a) % 2 = 1 <=> ~(Cardinality(b) % 2 = 1))
<1> DEFINE both == a \cap b
           all == a \cup b
<1>1. Xor(a, b) = all \ both /\ all \cap both = both
  BY DEF Xor, SymDiff
<1>2. /\ IsFiniteSet(all) /\ Cardinality(all) = Cardinality(a) + Cardinality(b) - Cardinality(both)
      /\ IsFiniteSet(both)
  BY FS_Union, FS_Intersection
<1>3. Cardinality(all \ both) = Cardinality(all) - Cardinality(all \cap both)
  BY <1>2, FS_Difference
<1>4. /\ Cardinality(a) \in Nat /\ Cardinality(b) \in Nat
      /\ Cardinality(both) \in Nat /\ Cardinality(all \ both) \in Nat
  <2>1. IsFiniteSet(all \ both)
    BY <1>2, FS_Difference
  <2> QED
    BY <1>2, <2>1, FS_CardinalityType
<1> HIDE DEF both, all
<1>5. Cardinality(Xor(a, b)) = Cardinality(a) + Cardinality(b) - 2 * Cardinality(both)
  <2>1. Cardinality(Xor(a, b)) = Cardinality(all) - Cardinality(both)
    <3>1. Cardinality(all \ both) = Cardinality(all) - Cardinality(both)
      BY <1>1, <1>3, Zenon
    <3> QED
      BY <1>1, <3>1, Zenon
  <2>2. \A x, y, z \in Nat : (x + y - z) - z = x + y - 2 * z
    OBVIOUS
  <2> QED
    BY <1>2, <1>4, <2>1, <2>2
<1>6. \A x, y, z \in Nat : x + y - 2 * z \in Nat
          => ((x + y - 2 * z) % 2 = 1 <=> (x % 2 = 1 <=> ~(y % 2 = 1)))
  OBVIOUS
<1> QED
  BY <1>1, <1>4, <1>5, <1>6

\* The remainder is a register: the bits that an odd number of terms have.
LEMMA ModuloIs ==
    ASSUME NEW p, NEW R
    PROVE  /\ Modulo(p, R) \in CRCType
           /\ \A j \in BIT_MASK : j \in Modulo(p, R) <=> Cardinality(Terms(p, j, R)) % 2 = 1
BY DEF Modulo, Terms, CRCType

\* The remainder of a sum.
LEMMA ModuloXor ==
    ASSUME NEW p, NEW q, NEW R, IsFiniteSet(p), IsFiniteSet(q)
    PROVE  Modulo(Xor(p, q), R) = Xor(Modulo(p, R), Modulo(q, R))
<1>1. Modulo(Xor(p, q), R) \in CRCType /\ Xor(Modulo(p, R), Modulo(q, R)) \in CRCType
  <2>1. Modulo(p, R) \in CRCType /\ Modulo(q, R) \in CRCType
    BY ModuloIs
  <2> QED
    BY <2>1, ModuloIs, NextBitLinear
<1>2. ASSUME NEW j \in BIT_MASK
      PROVE  j \in Modulo(Xor(p, q), R) <=> j \in Xor(Modulo(p, R), Modulo(q, R))
  <2>1. Terms(Xor(p, q), j, R) = Xor(Terms(p, j, R), Terms(q, j, R))
    <3>1. \A i : i \in Terms(Xor(p, q), j, R) <=> i \in Xor(p, q) /\ j \in R[i + 1]
      BY DEF Terms
    <3>2. \A i : /\ i \in Terms(p, j, R) <=> i \in p /\ j \in R[i + 1]
                 /\ i \in Terms(q, j, R) <=> i \in q /\ j \in R[i + 1]
      BY DEF Terms
    <3>3. \A i : i \in Xor(Terms(p, j, R), Terms(q, j, R)) <=>
                     \/ i \in Terms(p, j, R) /\ i \notin Terms(q, j, R)
                     \/ i \notin Terms(p, j, R) /\ i \in Terms(q, j, R)
      BY XorIs
    <3>4. \A i : i \in Xor(p, q) <=> (i \in p /\ i \notin q) \/ (i \notin p /\ i \in q)
      BY XorIs
    <3>5. \A i : i \in Terms(Xor(p, q), j, R) <=> i \in Xor(Terms(p, j, R), Terms(q, j, R))
      BY <3>1, <3>2, <3>3, <3>4, Zenon
    <3> QED
      BY <3>5, Zenon
  <2>2. IsFiniteSet(Terms(p, j, R)) /\ IsFiniteSet(Terms(q, j, R))
    <3>1. Terms(p, j, R) \subseteq p /\ Terms(q, j, R) \subseteq q
      BY DEF Terms
    <3> QED
      BY <3>1, FS_Subset
  <2>3. Cardinality(Xor(Terms(p, j, R), Terms(q, j, R))) % 2 = 1
            <=> (Cardinality(Terms(p, j, R)) % 2 = 1 <=> ~(Cardinality(Terms(q, j, R)) % 2 = 1))
    BY <2>2, OddXor
  <2>4. /\ j \in Modulo(p, R) <=> Cardinality(Terms(p, j, R)) % 2 = 1
        /\ j \in Modulo(q, R) <=> Cardinality(Terms(q, j, R)) % 2 = 1
        /\ j \in Modulo(Xor(p, q), R) <=> Cardinality(Terms(Xor(p, q), j, R)) % 2 = 1
    BY ModuloIs
  <2>5. j \in Xor(Modulo(p, R), Modulo(q, R)) <=>
            \/ j \in Modulo(p, R) /\ j \notin Modulo(q, R)
            \/ j \notin Modulo(p, R) /\ j \in Modulo(q, R)
    BY XorIs
  <2> QED
    BY <2>1, <2>3, <2>4, <2>5
<1> QED
  BY <1>1, <1>2, SameBits

\* The remainder of nothing, and of a power of x.
LEMMA ModuloOne ==
    ASSUME NEW R, NEW i, R[i + 1] \in CRCType
    PROVE  Modulo({i}, R) = R[i + 1] /\ Modulo({}, R) = {}
<1>1. Modulo({i}, R) = R[i + 1]
  <2>1. ASSUME NEW j \in BIT_MASK PROVE j \in Modulo({i}, R) <=> j \in R[i + 1]
    <3>1. CASE j \in R[i + 1]
      <4>1. Terms({i}, j, R) = {i}
        BY <3>1 DEF Terms
      <4>2. Cardinality(Terms({i}, j, R)) = 1
        BY <4>1, FS_Singleton
      <4> QED
        BY <3>1, <4>2, ModuloIs
    <3>2. CASE j \notin R[i + 1]
      <4>1. Terms({i}, j, R) = {}
        BY <3>2 DEF Terms
      <4>2. Cardinality(Terms({i}, j, R)) = 0
        BY <4>1, FS_EmptySet
      <4> QED
        BY <3>2, <4>2, ModuloIs
    <3> QED
      BY <3>1, <3>2
  <2>2. Modulo({i}, R) \in CRCType
    BY ModuloIs
  <2> QED
    BY <2>1, <2>2, SameBits
<1>2. Modulo({}, R) = {}
  <2>1. ASSUME NEW j \in BIT_MASK PROVE j \notin Modulo({}, R)
    <3>1. Terms({}, j, R) = {}
      BY DEF Terms
    <3>2. Cardinality(Terms({}, j, R)) = 0
      BY <3>1, FS_EmptySet
    <3> QED
      BY <3>2, ModuloIs
  <2>2. Modulo({}, R) \subseteq BIT_MASK
    BY ModuloIs DEF CRCType
  <2> QED
    BY <2>1, <2>2
<1> QED
  BY <1>1, <1>2

\* A power below the width is its own remainder.
LEMMA ResidueSmall ==
    ASSUME NEW n \in Nat, NEW R, IsResidues(R, n), CRCWidth <= n
    PROVE  \A i \in BIT_MASK : R[i + 1] = {i}
<1> DEFINE S == { i \in BIT_MASK : R[i + 1] = {i} }
<1>1. CRCWidth \in Nat \ {0}
  BY CrcConstants
<1>2. 0 \in S
  BY <1>1 DEF IsResidues, BIT_MASK
<1>3. ASSUME NEW i \in 1..(CRCWidth - 1), i - 1 \in S PROVE i \in S
  <2>1. R[i] = {i - 1} /\ (i - 1) + 1 = i
    BY <1>1, <1>3
  <2>2. i \in 1..(n - 1) /\ i \in BIT_MASK
    BY <1>1 DEF BIT_MASK
  <2>3. R[i + 1] = Times({i - 1})
    BY <2>1, <2>2 DEF IsResidues
  <2>4. { k + 1 : k \in {i - 1} } = {i}
    BY <2>1
  <2>5. CRCWidth \notin {i}
    BY <1>1
  <2>6. Times({i - 1}) = {i}
    BY <2>4, <2>5, Zenon DEF Times
  <2> QED
    BY <2>2, <2>3, <2>6
<1> HIDE DEF S
<1>4. Inductive(S, CRCWidth - 1)
  BY <1>2, <1>3 DEF Inductive
<1>5. \A i \in 0..(CRCWidth - 1) : i \in S
  <2>1. CRCWidth - 1 \in Nat
    BY <1>1
  <2> QED
    BY <1>4, <2>1, Upto
<1> QED
  BY <1>5 DEF S, BIT_MASK

\* A register is its own remainder.
LEMMA ModuloSmall ==
    ASSUME NEW n \in Nat, NEW R, IsResidues(R, n), CRCWidth <= n, NEW p \in CRCType
    PROVE  Modulo(p, R) = p
<1>1. ASSUME NEW j \in BIT_MASK PROVE j \in Modulo(p, R) <=> j \in p
  <2>1. \A i \in p : R[i + 1] = {i}
    BY ResidueSmall DEF CRCType
  <2>2. CASE j \in p
    <3>1. Terms(p, j, R) = {j}
      BY <2>1, <2>2 DEF Terms
    <3>2. Cardinality(Terms(p, j, R)) = 1
      BY <3>1, FS_Singleton
    <3> QED
      BY <2>2, <3>2, ModuloIs
  <2>3. CASE j \notin p
    <3>1. Terms(p, j, R) = {}
      BY <2>1, <2>3 DEF Terms
    <3>2. Cardinality(Terms(p, j, R)) = 0
      BY <3>1, FS_EmptySet
    <3> QED
      BY <2>3, <3>2, ModuloIs
  <2> QED
    BY <2>2, <2>3
<1>2. Modulo(p, R) \in CRCType
  BY ModuloIs
<1> QED
  BY <1>1, <1>2, SameBits

-----------------------------------------------------------------------------
(* Raising a polynomial *)

\* The terms of a raised polynomial.
LEMMA RaisedIs ==
    ASSUME NEW p \in SUBSET Nat, NEW n \in Nat
    PROVE  /\ Raised(p, n) \in SUBSET Nat
           /\ \A j \in Int : j \in Raised(p, n) <=> j - n \in p
<1>1. Raised(p, n) \in SUBSET Nat
  BY DEF Raised
<1>2. ASSUME NEW j \in Int PROVE j \in Raised(p, n) <=> j - n \in p
  <2>1. ASSUME j \in Raised(p, n) PROVE j - n \in p
    <3>1. PICK i \in p : j = i + n
      BY <2>1 DEF Raised
    <3>2. i \in Nat /\ j - n = i
      BY <3>1
    <3> QED
      BY <3>1, <3>2
  <2>2. ASSUME j - n \in p PROVE j \in Raised(p, n)
    <3>1. (j - n) + n = j
      OBVIOUS
    <3>2. (j - n) + n \in Raised(p, n)
      BY <2>2 DEF Raised
    <3> QED
      BY <3>1, <3>2
  <2> QED
    BY <2>1, <2>2
<1> QED
  BY <1>1, <1>2

\* Two sets of numbers with the same elements are the same.
LEMMA SameTerms ==
    ASSUME NEW p \in SUBSET Nat, NEW q \in SUBSET Nat, \A j \in Nat : j \in p <=> j \in q
    PROVE  p = q
OBVIOUS

\* Raising is linear.
LEMMA RaisedXor ==
    ASSUME NEW p \in SUBSET Nat, NEW q \in SUBSET Nat, NEW n \in Nat
    PROVE  Raised(Xor(p, q), n) = Xor(Raised(p, n), Raised(q, n))
<1>1. Xor(p, q) \in SUBSET Nat
  BY XorType
<1>2. Raised(p, n) \in SUBSET Nat /\ Raised(q, n) \in SUBSET Nat
  BY RaisedIs
<1>3. Raised(Xor(p, q), n) = Xor(Raised(p, n), Raised(q, n))
  <2>1. /\ Raised(Xor(p, q), n) \in SUBSET Nat
        /\ Xor(Raised(p, n), Raised(q, n)) \in SUBSET Nat
    <3>1. Raised(Xor(p, q), n) \in SUBSET Nat
      BY <1>1, RaisedIs
    <3>2. Xor(Raised(p, n), Raised(q, n)) \in SUBSET Nat
      BY <1>2 DEF Xor, SymDiff
    <3> QED
      BY <3>1, <3>2
  <2>2. ASSUME NEW j \in Nat
        PROVE  j \in Raised(Xor(p, q), n) <=> j \in Xor(Raised(p, n), Raised(q, n))
    <3>1. /\ j \in Raised(Xor(p, q), n) <=> j - n \in Xor(p, q)
          /\ j \in Raised(p, n) <=> j - n \in p
          /\ j \in Raised(q, n) <=> j - n \in q
      BY <1>1, RaisedIs
    <3> QED
      BY <3>1, XorIs
  <2> QED
    BY <2>1, <2>2, SameTerms
<1> QED
  BY <1>3

\* Raising twice adds up.
LEMMA RaisedLaws ==
    ASSUME NEW p \in SUBSET Nat, NEW n \in Nat
    PROVE  /\ \A m \in Nat : Raised(Raised(p, m), n) = Raised(p, m + n)
           /\ Raised(p, 0) = p
<1>1. ASSUME NEW m \in Nat PROVE Raised(Raised(p, m), n) = Raised(p, m + n)
  <2>1. Raised(p, m) \in SUBSET Nat
    BY RaisedIs
  <2>2. Raised(Raised(p, m), n) \in SUBSET Nat /\ Raised(p, m + n) \in SUBSET Nat
    <3>1. m + n \in Nat
      OBVIOUS
    <3> QED
      BY <2>1, <3>1, RaisedIs
  <2>3. ASSUME NEW j \in Nat PROVE j \in Raised(Raised(p, m), n) <=> j \in Raised(p, m + n)
    <3>1. j \in Raised(Raised(p, m), n) <=> j - n \in Raised(p, m)
      BY <2>1, RaisedIs
    <3>2. j - n \in Raised(p, m) <=> (j - n) - m \in p
      BY RaisedIs
    <3>3. j \in Raised(p, m + n) <=> j - (m + n) \in p
      <4>1. m + n \in Nat
        OBVIOUS
      <4> QED
        BY <4>1, RaisedIs
    <3>4. (j - n) - m = j - (m + n)
      OBVIOUS
    <3> QED
      BY <3>1, <3>2, <3>3, <3>4
  <2> QED
    BY <2>2, <2>3, SameTerms
<1>2. Raised(p, 0) = p
  <2>1. Raised(p, 0) \in SUBSET Nat
    BY RaisedIs
  <2>2. ASSUME NEW j \in Nat PROVE j \in Raised(p, 0) <=> j \in p
    <3>1. j \in Raised(p, 0) <=> j - 0 \in p
      BY RaisedIs
    <3>2. j - 0 = j
      OBVIOUS
    <3> QED
      BY <3>1, <3>2
  <2> QED
    BY <2>1, <2>2, SameTerms
<1> QED
  BY <1>1, <1>2

\* A polynomial raised by one has its remainder times x.
LEMMA ModuloShift ==
    ASSUME NEW n \in Nat \ {0}, NEW R, IsResidues(R, n)
    PROVE  \A p \in SUBSET (0..(n - 2)) : Modulo(Raised(p, 1), R) = Times(Modulo(p, R))
<1> DEFINE Shifts(k) == \A p \in SUBSET (0..(k - 1)) : Modulo(Raised(p, 1), R) = Times(Modulo(p, R))
           S == { k \in 0..(n - 1) : Shifts(k) }
<1>1. 0 \in S
  <2>1. ASSUME NEW p \in SUBSET (0..(0 - 1)) PROVE Modulo(Raised(p, 1), R) = Times(Modulo(p, R))
    <3>1. p = {} /\ Raised(p, 1) = {}
      BY DEF Raised
    <3>2. R[0 + 1] \in CRCType
      BY DEF IsResidues
    <3>3. Modulo({}, R) = {}
      BY <3>2, ModuloOne
    <3>4. Times({}) = {}
      BY DEF Times
    <3> QED
      BY <3>1, <3>3, <3>4, Zenon
  <2> QED
    BY <2>1
<1>2. ASSUME NEW k \in 1..(n - 1), k - 1 \in S PROVE k \in S
  <2>1. ASSUME NEW p \in SUBSET (0..(k - 1)) PROVE Modulo(Raised(p, 1), R) = Times(Modulo(p, R))
    <3> DEFINE top == k - 1
               rest == p \ {top}
    <3>1. top \in Nat /\ top + 1 = k /\ top \in 0..(n - 1) /\ k \in 0..(n - 1)
      OBVIOUS
    <3>2. rest \in SUBSET (0..(top - 1))
      OBVIOUS
    <3>3. Modulo(Raised(rest, 1), R) = Times(Modulo(rest, R))
      BY <1>2, <3>2
    <3>4. CASE top \notin p
      <4>1. rest = p
        BY <3>4
      <4> HIDE DEF rest
      <4> QED
        BY <3>3, <4>1
    <3>5. CASE top \in p
      <4>1. p = Xor(rest, {top})
        BY <3>5 DEF Xor, SymDiff
      <4>2. rest \in SUBSET Nat /\ {top} \in SUBSET Nat
        BY <3>1
      <4>3. /\ IsFiniteSet(rest) /\ IsFiniteSet({top})
            /\ IsFiniteSet(Raised(rest, 1)) /\ IsFiniteSet(Raised({top}, 1))
        <5>1. IsFiniteSet(0..n)
          BY FS_Interval
        <5>2. /\ rest \subseteq 0..n /\ {top} \subseteq 0..n
              /\ Raised(rest, 1) \subseteq 0..n /\ Raised({top}, 1) \subseteq 0..n
          BY <3>1, <3>2 DEF Raised
        <5> QED
          BY <5>1, <5>2, FS_Subset
      <4>4. Raised({top}, 1) = {k}
        BY <3>1 DEF Raised
      <4> HIDE DEF top, rest
      <4>5. Raised(p, 1) = Xor(Raised(rest, 1), {k})
        <5>1. Raised(Xor(rest, {top}), 1) = Xor(Raised(rest, 1), Raised({top}, 1))
          <6>1. \A a, b \in SUBSET Nat : \A m \in Nat :
                    Raised(Xor(a, b), m) = Xor(Raised(a, m), Raised(b, m))
            BY RaisedXor
          <6>2. PICK m \in Nat : m = 1
            OBVIOUS
          <6>3. Raised(Xor(rest, {top}), m) = Xor(Raised(rest, m), Raised({top}, m))
            BY <4>2, <6>1
          <6> QED
            BY <6>2, <6>3, Zenon
        <5> QED
          BY <4>1, <4>4, <5>1, Zenon
      <4>6. R[top + 1] \in CRCType /\ R[k + 1] \in CRCType /\ R[k + 1] = Times(R[top + 1])
        BY <3>1 DEF IsResidues
      <4>7. Modulo({k}, R) = Times(Modulo({top}, R))
        <5>1. Modulo({top}, R) = R[top + 1] /\ Modulo({k}, R) = R[k + 1]
          BY <4>6, ModuloOne
        <5> QED
          BY <4>6, <5>1
      <4>8. Modulo(Raised(p, 1), R) = Xor(Modulo(Raised(rest, 1), R), Modulo({k}, R))
        <5>1. IsFiniteSet({k})
          BY <4>3, <4>4
        <5>2. Modulo(Xor(Raised(rest, 1), {k}), R) = Xor(Modulo(Raised(rest, 1), R), Modulo({k}, R))
          BY <4>3, <5>1, ModuloXor
        <5> QED
          BY <4>5, <5>2
      <4>9. Modulo(p, R) = Xor(Modulo(rest, R), Modulo({top}, R))
        <5>1. Modulo(Xor(rest, {top}), R) = Xor(Modulo(rest, R), Modulo({top}, R))
          BY <4>3, ModuloXor
        <5> QED
          BY <4>1, <5>1
      <4>10. Times(Xor(Modulo(rest, R), Modulo({top}, R)))
                 = Xor(Times(Modulo(rest, R)), Times(Modulo({top}, R)))
        <5>1. Modulo(rest, R) \in CRCType /\ Modulo({top}, R) \in CRCType
          BY ModuloIs
        <5> QED
          BY <5>1, TimesLinear
      <4> QED
        BY <3>3, <4>7, <4>8, <4>9, <4>10
    <3> QED
      BY <3>4, <3>5
  <2>2. k \in 0..(n - 1)
    OBVIOUS
  <2> QED
    BY <2>1, <2>2
<1> HIDE DEF S, Shifts
<1>3. Inductive(S, n - 1)
  BY <1>1, <1>2 DEF Inductive
<1>4. n - 1 \in S
  <2>1. n - 1 \in Nat /\ n - 1 \in 0..(n - 1)
    OBVIOUS
  <2>2. \A k \in 0..(n - 1) : k \in S
    BY <1>3, <2>1, Upto
  <2> QED
    BY <2>1, <2>2
<1>5. Shifts(n - 1) /\ (n - 1) - 1 = n - 2
  BY <1>4 DEF S
<1> QED
  BY <1>5 DEF Shifts

-----------------------------------------------------------------------------
(* The dividend *)

\* The multiples below a number of groups of b leave room for one more group.
LEMMA Multiples ==
    ASSUME NEW k \in Nat, NEW n \in Nat, NEW b \in Nat \ {0}, k < n
    PROVE  k * b \in Nat /\ (k + 1) * b = k * b + b /\ k * b + b <= n * b
<1>1. PICK d \in Nat : n = k + 1 + d
  <2>1. n - (k + 1) \in Nat
    OBVIOUS
  <2> QED
    BY <2>1
<1>2. n * b = k * b + b + d * b
  BY <1>1
<1>3. d * b \in Nat /\ k * b \in Nat
  BY <1>1
<1> QED
  BY <1>2, <1>3

\* Quotient and remainder of k by b.
LEMMA QuotientOf ==
    ASSUME NEW k \in Nat, NEW b \in Nat \ {0}
    PROVE  k \div b \in Nat /\ k % b \in 0..(b - 1) /\ k = (k \div b) * b + (k % b)
<1>1. k \div b \in Nat /\ k % b \in 0..(b - 1) /\ k = b * (k \div b) + (k % b)
  OBVIOUS
<1>2. \A q \in Nat : b * q = q * b
  OBVIOUS
<1> QED
  BY <1>1, <1>2

\* They are the only ones.
LEMMA QuotientIs ==
    ASSUME NEW b \in Nat \ {0}, NEW q \in Nat, NEW r \in 0..(b - 1)
    PROVE  q * b + r \in Nat /\ (q * b + r) \div b = q /\ (q * b + r) % b = r
<1> DEFINE k == q * b + r
           q2 == k \div b
           r2 == k % b
<1>1. q * b \in Nat /\ k \in Nat
  OBVIOUS
<1>2. q2 \in Nat /\ r2 \in 0..(b - 1) /\ k = q2 * b + r2
  BY <1>1, QuotientOf
<1>3. k = q * b + r
  OBVIOUS
<1> HIDE DEF k, q2, r2
<1>4. q2 * b \in Nat
  BY <1>2
<1>5. CASE q < q2
  <2>1. q * b + b <= q2 * b
    BY <1>2, <1>5, Multiples
  <2> QED
    BY <1>1, <1>2, <1>3, <1>4, <2>1
<1>6. CASE q2 < q
  <2>1. q2 * b + b <= q * b
    BY <1>2, <1>6, Multiples
  <2> QED
    BY <1>1, <1>2, <1>3, <1>4, <2>1
<1>7. CASE q = q2
  <2>1. q * b = q2 * b
    BY <1>7
  <2>2. r = r2
    BY <1>1, <1>2, <1>3, <1>4, <2>1
  <2> QED
    BY <1>1, <1>7, <2>2 DEF k, q2, r2
<1> QED
  BY <1>2, <1>5, <1>6, <1>7

\* The sizes of data that has one more byte.
LEMMA LongerBy ==
    ASSUME NEW data \in Seq(Char), NEW byte \in Char
    PROVE  /\ CHAR_BIT \in Nat \ {0}
           /\ Append(data, byte) \in Seq(Char)
           /\ Len(data) \in Nat /\ Len(data) * CHAR_BIT \in Nat
           /\ Len(Append(data, byte)) = Len(data) + 1
           /\ Len(Append(data, byte)) * CHAR_BIT = Len(data) * CHAR_BIT + CHAR_BIT
           /\ Append(data, byte)[Len(data) + 1] = byte
           /\ \A i \in 1..Len(data) : Append(data, byte)[i] = data[i]
<1>1. CHAR_BIT \in Nat \ {0}
  BY CrcConstants
<1>2. /\ Append(data, byte) \in Seq(Char) /\ Len(data) \in Nat
      /\ Len(Append(data, byte)) = Len(data) + 1
      /\ Append(data, byte)[Len(data) + 1] = byte
      /\ \A i \in 1..Len(data) : Append(data, byte)[i] = data[i]
  OBVIOUS
<1>3. \A n \in Nat : n * CHAR_BIT \in Nat /\ (n + 1) * CHAR_BIT = n * CHAR_BIT + CHAR_BIT
  BY <1>1
<1> QED
  BY <1>1, <1>2, <1>3

\* The terms of a message.
LEMMA MessageIs ==
    ASSUME NEW data \in Seq(Char), NEW n, n = Len(data) * CHAR_BIT, NEW j
    PROVE  j \in Message(data) <=>
               j \in 0..(n - 1) /\ (n - 1 - j) % CHAR_BIT \in data[(n - 1 - j) \div CHAR_BIT + 1]
BY DEF Message

\* One more byte raises the message, and its bits are the lowest terms.
LEMMA MessageAppend ==
    ASSUME NEW data \in Seq(Char), NEW byte \in Char, NEW j \in Int
    PROVE  j \in Message(Append(data, byte)) <=>
               \/ CHAR_BIT - 1 - j \in byte
               \/ j - CHAR_BIT \in Message(data)
<1> DEFINE longer == Append(data, byte)
           n == Len(data) * CHAR_BIT
           m == n + CHAR_BIT
           k == m - 1 - j
<1>1. /\ CHAR_BIT \in Nat \ {0} /\ longer \in Seq(Char) /\ Len(data) \in Nat /\ n \in Nat
      /\ m = Len(longer) * CHAR_BIT
      /\ longer[Len(data) + 1] = byte /\ \A i \in 1..Len(data) : longer[i] = data[i]
  BY LongerBy
<1>2. byte \subseteq 0..(CHAR_BIT - 1)
  BY DEF Char
<1>3. j \in Message(longer) <=>
          j \in 0..(m - 1) /\ k % CHAR_BIT \in longer[k \div CHAR_BIT + 1]
  BY <1>1, MessageIs
<1>4. j - CHAR_BIT \in Message(data) <=>
          /\ j - CHAR_BIT \in 0..(n - 1)
          /\ (n - 1 - (j - CHAR_BIT)) % CHAR_BIT
                 \in data[(n - 1 - (j - CHAR_BIT)) \div CHAR_BIT + 1]
  BY MessageIs
<1>5. n - 1 - (j - CHAR_BIT) = k /\ k \in Int
  BY <1>1
<1>6. j - CHAR_BIT \in Message(data) <=>
          j - CHAR_BIT \in 0..(n - 1) /\ k % CHAR_BIT \in data[k \div CHAR_BIT + 1]
  BY <1>4, <1>5
<1>7. CASE j < 0
  BY <1>1, <1>2, <1>3, <1>6, <1>7
<1>8. CASE j \in 0..(CHAR_BIT - 1)
  <2> DEFINE r == CHAR_BIT - 1 - j
  <2>1. r \in 0..(CHAR_BIT - 1) /\ k = n + r /\ j \in 0..(m - 1) /\ j - CHAR_BIT \notin 0..(n - 1)
    BY <1>1, <1>8
  <2>2. k \div CHAR_BIT = Len(data) /\ k % CHAR_BIT = r
    <3> HIDE DEF r, k
    <3> QED
      BY <1>1, <2>1, QuotientIs
  <2>3. j \in Message(longer) <=> r \in byte
    <3> HIDE DEF r, k, m, n, longer
    <3> QED
      BY <1>1, <1>3, <2>1, <2>2
  <2> HIDE DEF k, m, n
  <2> QED
    BY <1>6, <2>1, <2>3
<1>9. CASE j >= CHAR_BIT
  <2>1. CHAR_BIT - 1 - j \notin byte
    BY <1>1, <1>2, <1>9
  <2>2. j \in 0..(m - 1) <=> j - CHAR_BIT \in 0..(n - 1)
    BY <1>1, <1>9
  <2>3. ASSUME j - CHAR_BIT \in 0..(n - 1)
        PROVE  longer[k \div CHAR_BIT + 1] = data[k \div CHAR_BIT + 1]
    <3>1. k \in 0..(n - 1)
      BY <1>1, <1>9, <2>3
    <3> DEFINE q == k \div CHAR_BIT
    <3>2. q \in Nat /\ k % CHAR_BIT \in 0..(CHAR_BIT - 1) /\ k = q * CHAR_BIT + (k % CHAR_BIT)
      <4> HIDE DEF k
      <4>1. k \in Nat
        BY <1>1, <3>1
      <4> QED
        BY <1>1, <4>1, QuotientOf
    <3>3. q < Len(data)
      <4> SUFFICES ASSUME ~(q < Len(data)) PROVE FALSE
        OBVIOUS
      <4> HIDE DEF q, k
      <4>1. q * CHAR_BIT >= n /\ q * CHAR_BIT \in Nat
        <5>1. q * CHAR_BIT \in Nat
          BY <1>1, <3>2
        <5>2. CASE q = Len(data)
          BY <1>1, <5>2
        <5>3. CASE Len(data) < q
          <6>1. Len(data) * CHAR_BIT + CHAR_BIT <= q * CHAR_BIT
            BY <1>1, <3>2, <5>3, Multiples
          <6> QED
            BY <1>1, <5>1, <6>1
        <5> QED
          BY <1>1, <3>2, <5>1, <5>2, <5>3
      <4> HIDE DEF n
      <4> QED
        BY <1>1, <3>1, <3>2, <4>1
    <3>4. q + 1 \in 1..Len(data)
      BY <1>1, <3>2, <3>3
    <3> HIDE DEF longer
    <3> QED
      BY <1>1, <3>4
  <2> HIDE DEF k, m, n
  <2> QED
    BY <1>3, <1>6, <2>1, <2>2, <2>3
<1> QED
  BY <1>1, <1>7, <1>8, <1>9

\* The dividend's two parts, and its size.
LEMMA DividendIs ==
    ASSUME NEW data \in Seq(Char), NEW n, n = Len(data) * CHAR_BIT
    PROVE  /\ n \in Nat
           /\ Dividend(data) \in SUBSET (0..(CRCWidth + n - 1))
           /\ \A j \in Int : j \in Dividend(data) <=>
                  (j - CRCWidth \in Message(data) <=> j - n \notin BIT_MASK)
<1>1. CHAR_BIT \in Nat \ {0} /\ CRCWidth \in Nat /\ Len(data) \in Nat
  BY CrcConstants
<1>2. n \in Nat
  BY <1>1
<1>3. Message(data) \in SUBSET (0..(n - 1)) /\ BIT_MASK = 0..(CRCWidth - 1)
  BY DEF Message, BIT_MASK
<1>4. Message(data) \in SUBSET Nat /\ BIT_MASK \in SUBSET Nat
  BY <1>3
<1>5. Dividend(data) = Xor(Raised(Message(data), CRCWidth), Raised(BIT_MASK, n))
  BY DEF Dividend, Raised
<1>6. ASSUME NEW j \in Int
      PROVE  j \in Dividend(data) <=> (j - CRCWidth \in Message(data) <=> j - n \notin BIT_MASK)
  <2>1. /\ j \in Raised(Message(data), CRCWidth) <=> j - CRCWidth \in Message(data)
        /\ j \in Raised(BIT_MASK, n) <=> j - n \in BIT_MASK
    BY <1>1, <1>2, <1>4, RaisedIs
  <2>2. j \in Xor(Raised(Message(data), CRCWidth), Raised(BIT_MASK, n)) <=>
            \/ j \in Raised(Message(data), CRCWidth) /\ j \notin Raised(BIT_MASK, n)
            \/ j \notin Raised(Message(data), CRCWidth) /\ j \in Raised(BIT_MASK, n)
    BY XorIs
  <2> QED
    BY <1>5, <2>1, <2>2, Zenon
<1>7. Dividend(data) \in SUBSET Nat
  <2>1. Raised(Message(data), CRCWidth) \in SUBSET Nat /\ Raised(BIT_MASK, n) \in SUBSET Nat
    BY <1>1, <1>2, <1>4, RaisedIs
  <2> QED
    BY <1>5, <2>1 DEF Xor, SymDiff
<1>8. ASSUME NEW j \in Dividend(data) PROVE j \in 0..(CRCWidth + n - 1)
  <2>1. j \in Nat
    BY <1>7
  <2>2. j - CRCWidth \in 0..(n - 1) \/ j - n \in 0..(CRCWidth - 1)
    BY <1>3, <1>6, <2>1
  <2> QED
    BY <1>1, <1>2, <2>1, <2>2
<1> QED
  BY <1>2, <1>6, <1>8

\* One more byte is added at the top, and the sum raised.
LEMMA DividendAppend ==
    ASSUME NEW data \in Seq(Char), NEW byte \in Char
    PROVE  Dividend(Append(data, byte))
               = Raised(Xor(Dividend(data), Reflect(byte, CRCWidth)), CHAR_BIT)
<1> DEFINE longer == Append(data, byte)
           n == Len(data) * CHAR_BIT
           top == Reflect(byte, CRCWidth)
           sum == Xor(Dividend(data), top)
<1>1. /\ CHAR_BIT \in Nat \ {0} /\ longer \in Seq(Char) /\ n \in Nat
      /\ Len(longer) * CHAR_BIT = n + CHAR_BIT
  BY LongerBy
<1>2. CRCWidth \in Nat /\ CHAR_BIT <= CRCWidth /\ BIT_MASK = 0..(CRCWidth - 1)
  BY CrcConstants DEF BIT_MASK
<1>3. byte \subseteq 0..(CHAR_BIT - 1) /\ byte \in CRCType
  BY TableIs DEF Char
<1>4. top \in CRCType /\ \A i : i \in top <=> i \in BIT_MASK /\ CRCWidth - 1 - i \in byte
  BY <1>3, ReflectIs
<1>5. /\ Dividend(data) \in SUBSET (0..(CRCWidth + n - 1))
      /\ \A j \in Int : j \in Dividend(data) <=>
             (j - CRCWidth \in Message(data) <=> j - n \notin BIT_MASK)
  BY DividendIs
<1>6. /\ Dividend(longer) \in SUBSET (0..(CRCWidth + (n + CHAR_BIT) - 1))
      /\ \A j \in Int : j \in Dividend(longer) <=>
             (j - CRCWidth \in Message(longer) <=> j - (n + CHAR_BIT) \notin BIT_MASK)
  <2> HIDE DEF longer
  <2> QED
    BY <1>1, DividendIs
<1>7. sum \in SUBSET Nat
  <2>1. Dividend(data) \in SUBSET Nat /\ top \in SUBSET Nat
    <3>1. \A u \in Int : SUBSET (0..u) \subseteq SUBSET Nat
      OBVIOUS
    <3>2. CRCWidth + n - 1 \in Int /\ CRCWidth - 1 \in Int
      BY <1>1, <1>2
    <3>3. top \in SUBSET (0..(CRCWidth - 1))
      BY <1>2, <1>4 DEF CRCType
    <3> HIDE DEF top
    <3> QED
      BY <1>5, <3>1, <3>2, <3>3
  <2> QED
    BY <2>1 DEF Xor, SymDiff
<1> HIDE DEF top
<1>8. Raised(sum, CHAR_BIT) \in SUBSET Nat /\ Dividend(longer) \in SUBSET Nat
  <2>1. Raised(sum, CHAR_BIT) \in SUBSET Nat
    BY <1>1, <1>7, RaisedIs
  <2>2. Dividend(longer) \in SUBSET Nat
    <3>1. \A u \in Int : SUBSET (0..u) \subseteq SUBSET Nat
      OBVIOUS
    <3>2. CRCWidth + (n + CHAR_BIT) - 1 \in Int
      BY <1>1, <1>2
    <3> HIDE DEF longer
    <3> QED
      BY <1>6, <3>1, <3>2
  <2> QED
    BY <2>1, <2>2
<1>9. ASSUME NEW j \in Nat PROVE j \in Dividend(longer) <=> j \in Raised(sum, CHAR_BIT)
  <2>1. j \in Raised(sum, CHAR_BIT) <=> j - CHAR_BIT \in sum
    BY <1>1, <1>7, RaisedIs
  <2>2. j - CHAR_BIT \in sum <=>
            \/ j - CHAR_BIT \in Dividend(data) /\ j - CHAR_BIT \notin top
            \/ j - CHAR_BIT \notin Dividend(data) /\ j - CHAR_BIT \in top
    BY XorIs
  <2>3. j - CHAR_BIT \in Dividend(data) <=>
            (j - CHAR_BIT - CRCWidth \in Message(data) <=> j - CHAR_BIT - n \notin BIT_MASK)
    <3>1. PICK i \in Int : i = j - CHAR_BIT
      BY <1>1
    <3>2. i \in Dividend(data) <=> (i - CRCWidth \in Message(data) <=> i - n \notin BIT_MASK)
      BY <1>5
    <3> QED
      BY <3>1, <3>2, Zenon
  <2>4. j \in Dividend(longer) <=>
            (j - CRCWidth \in Message(longer) <=> j - (n + CHAR_BIT) \notin BIT_MASK)
    BY <1>6
  <2>5. j - CRCWidth \in Message(longer) <=>
            \/ CHAR_BIT - 1 - (j - CRCWidth) \in byte
            \/ j - CRCWidth - CHAR_BIT \in Message(data)
    BY <1>2, MessageAppend
  <2>6. /\ j - CRCWidth - CHAR_BIT = j - CHAR_BIT - CRCWidth
        /\ j - (n + CHAR_BIT) = j - CHAR_BIT - n
        /\ CHAR_BIT - 1 - (j - CRCWidth) = CRCWidth - 1 - (j - CHAR_BIT)
    BY <1>1, <1>2
  <2>7. CRCWidth - 1 - (j - CHAR_BIT) \in byte => j - CHAR_BIT \in BIT_MASK
    BY <1>1, <1>2, <1>3
  <2>8. CRCWidth - 1 - (j - CHAR_BIT) \in byte => j - CHAR_BIT - CRCWidth \notin Message(data)
    <3>1. Message(data) \subseteq Nat
      BY <1>1 DEF Message
    <3> QED
      BY <1>1, <1>2, <1>3, <3>1
  <2>9. j - CHAR_BIT \in top <=> CRCWidth - 1 - (j - CHAR_BIT) \in byte
    BY <1>4, <2>7
  <2> HIDE DEF longer, sum, n
  <2> QED
    BY <2>1, <2>2, <2>3, <2>4, <2>5, <2>6, <2>8, <2>9
<1>10. Dividend(longer) = Raised(sum, CHAR_BIT)
  <2> HIDE DEF longer, sum
  <2> QED
    BY <1>8, <1>9, SameTerms
<1> QED
  BY <1>10 DEF top

-----------------------------------------------------------------------------
(* The CRC is the remainder *)

\* The rounds over the bits of a byte raise the polynomial by as many powers.
LEMMA BitsDivide ==
    ASSUME NEW n \in Nat \ {0}, NEW R, IsResidues(R, n),
           NEW k \in Nat, k + CHAR_BIT <= n, NEW q \in SUBSET (0..(k - 1)),
           NEW r \in CRCType, Modulo(q, R) = Reflect(r, CRCWidth)
    PROVE  Modulo(Raised(q, CHAR_BIT), R) = Reflect(NextBits(r, Generator), CRCWidth)
<1>1. PICK f \in [0..CHAR_BIT -> CRCType] :
          /\ f[0] = r
          /\ \A i \in 1..CHAR_BIT : f[i] = NextBit(f[i - 1], Generator)
          /\ NextBits(r, Generator) = f[CHAR_BIT]
  BY NextBitsRun
<1>2. CHAR_BIT \in Nat \ {0} /\ q \in SUBSET Nat
  BY CrcConstants
<1> DEFINE S == { i \in 0..CHAR_BIT : Modulo(Raised(q, i), R) = Reflect(f[i], CRCWidth) }
<1>3. 0 \in S
  <2>1. Raised(q, 0) = q
    BY <1>2, RaisedLaws
  <2> QED
    BY <1>1, <1>2, <2>1
<1>4. ASSUME NEW i \in 1..CHAR_BIT, i - 1 \in S PROVE i \in S
  <2>1. i - 1 \in Nat /\ (i - 1) + 1 = i /\ i - 1 \in 0..CHAR_BIT /\ i \in 0..CHAR_BIT
    BY <1>2
  <2>2. Modulo(Raised(q, i - 1), R) = Reflect(f[i - 1], CRCWidth)
    BY <1>4
  <2>3. PICK h \in Nat : h = i - 1
    BY <2>1
  <2>4. Raised(q, i) = Raised(Raised(q, h), 1)
    <3>1. \A a \in SUBSET Nat, c \in Nat, b \in Nat : Raised(Raised(a, b), c) = Raised(a, b + c)
      BY RaisedLaws
    <3>2. PICK c \in Nat : c = 1
      OBVIOUS
    <3>3. Raised(Raised(q, h), c) = Raised(q, h + c)
      BY <1>2, <3>1
    <3>4. h + c = i
      BY <2>1, <2>3, <3>2
    <3> QED
      BY <3>2, <3>3, <3>4
  <2>5. Raised(q, h) \in SUBSET (0..(n - 2))
    <3>1. ASSUME NEW j \in Raised(q, h) PROVE j \in 0..(n - 2)
      <4>1. PICK t \in q : j = t + h
        BY <3>1 DEF Raised
      <4>2. t \in 0..(k - 1)
        BY <4>1
      <4> QED
        BY <1>2, <2>3, <4>1, <4>2
    <3> QED
      BY <3>1
  <2>6. Modulo(Raised(Raised(q, h), 1), R) = Times(Modulo(Raised(q, h), R))
    BY <2>5, ModuloShift
  <2>7. PICK x \in CRCType : x = f[i - 1]
    BY <1>1, <2>1
  <2>8. Times(Reflect(x, CRCWidth)) = Reflect(NextBit(x, Generator), CRCWidth)
    BY TimesReflect
  <2>9. f[i] = NextBit(x, Generator)
    BY <1>1, <2>7
  <2>10. Modulo(Raised(q, i), R) = Reflect(f[i], CRCWidth)
    BY <2>2, <2>3, <2>4, <2>6, <2>7, <2>8, <2>9
  <2> QED
    BY <2>1, <2>10
<1> HIDE DEF S
<1>5. Inductive(S, CHAR_BIT)
  BY <1>3, <1>4 DEF Inductive
<1>6. CHAR_BIT \in S
  <2>1. \A i \in 0..CHAR_BIT : i \in S
    BY <1>2, <1>5, Upto
  <2> QED
    BY <1>2, <2>1
<1> QED
  BY <1>1, <1>6 DEF S

\* One more byte: the register and the remainder stay reflections of each other.
LEMMA ByteDivides ==
    ASSUME NEW n \in Nat \ {0}, NEW R, IsResidues(R, n),
           NEW data \in Seq(Char), NEW byte \in Char,
           CRCWidth + Len(data) * CHAR_BIT + CHAR_BIT <= n,
           NEW r \in CRCType, Modulo(Dividend(data), R) = Reflect(r, CRCWidth)
    PROVE  Modulo(Dividend(Append(data, byte)), R)
               = Reflect(NextByte(r, byte, TheTable), CRCWidth)
<1> DEFINE top == Reflect(byte, CRCWidth)
           q == Xor(Dividend(data), top)
           m == Len(data) * CHAR_BIT
           k == CRCWidth + m
<1>1. m \in Nat /\ Dividend(data) \in SUBSET (0..(k - 1))
  <2>1. PICK x : x = Len(data) * CHAR_BIT
    OBVIOUS
  <2>2. x \in Nat /\ Dividend(data) \in SUBSET (0..(CRCWidth + x - 1))
    BY <2>1, DividendIs
  <2>3. m = x /\ k - 1 = CRCWidth + x - 1
    BY <2>1, <2>2, CrcConstants
  <2> HIDE DEF m, k
  <2> QED
    BY <2>2, <2>3, Zenon
<1>2. CRCWidth \in Nat /\ CHAR_BIT \in Nat /\ BIT_MASK = 0..(CRCWidth - 1)
  BY CrcConstants DEF BIT_MASK
<1>3. byte \in CRCType /\ Xor(r, byte) \in CRCType
      /\ NextByte(r, byte, TheTable) = NextBits(Xor(r, byte), Generator)
  BY NextByteIs, TableIs
<1>4. top \in CRCType
  BY <1>3, ReflectIs
<1> HIDE DEF top
<1>5. k \in Nat /\ k + CHAR_BIT <= n /\ CRCWidth <= n
  BY <1>1, <1>2
<1>6. top \in SUBSET (0..(k - 1))
  BY <1>1, <1>2, <1>4 DEF CRCType
<1>7. q \in SUBSET (0..(k - 1))
  <2> HIDE DEF k
  <2> QED
    BY <1>1, <1>6 DEF Xor, SymDiff
<1>8. Modulo(q, R) = Xor(Modulo(Dividend(data), R), Modulo(top, R))
  <2>1. IsFiniteSet(0..(k - 1))
    BY <1>5, FS_Interval
  <2>2. IsFiniteSet(Dividend(data)) /\ IsFiniteSet(top)
    BY <1>1, <1>6, <2>1, FS_Subset
  <2> QED
    BY <2>2, ModuloXor
<1>9. Modulo(top, R) = top
  BY <1>4, <1>5, ModuloSmall
<1>10. Reflect(Xor(r, byte), CRCWidth) = Xor(Reflect(r, CRCWidth), top)
  BY <1>3, ReflectLaws DEF top
<1>11. Modulo(q, R) = Reflect(Xor(r, byte), CRCWidth)
  BY <1>8, <1>9, <1>10
<1> HIDE DEF q, k
<1>12. Modulo(Raised(q, CHAR_BIT), R) = Reflect(NextBits(Xor(r, byte), Generator), CRCWidth)
  BY <1>3, <1>5, <1>7, <1>11, BitsDivide
<1>13. Dividend(Append(data, byte)) = Raised(q, CHAR_BIT)
  BY DividendAppend DEF q, top
<1> QED
  BY <1>3, <1>12, <1>13

\* The CRC that the library computes by a table, starting from 0, is the remainder
\* of the data's polynomial by the generator.
THEOREM CrcIsReference ==
    ASSUME NEW n \in Nat, NEW data \in Seq(Char), CRCWidth + Len(data) * CHAR_BIT <= n
    PROVE  Calculate(data, TheTable, {}) = Reference(data, Residues(n))
<1> DEFINE R == Residues(n)
           part(k) == SubSeq(data, 1, k)
<1>1. /\ CRCWidth \in Nat \ {0} /\ CHAR_BIT \in Nat \ {0} /\ Len(data) \in Nat
      /\ {} \in CRCType /\ BIT_MASK \in CRCType
  BY CrcConstants DEF CRCType
<1>2. n \in Nat \ {0} /\ CRCWidth <= n
  <2>1. Len(data) * CHAR_BIT \in Nat
    BY <1>1
  <2> QED
    BY <1>1, <2>1
<1>3. IsResidues(R, n)
  BY <1>2, ResiduesAre
<1>4. PICK f : Remainders(f, data, BIT_MASK)
  BY <1>1, RemainderRun
<1> HIDE DEF R
<1> DEFINE S == { k \in 0..Len(data) :
                    Modulo(Dividend(part(k)), R) = Reflect(f[k], CRCWidth) }
<1>5. 0 \in S
  <2>1. part(0) = << >>
    OBVIOUS
  <2>2. ASSUME NEW none, none = << >> PROVE Dividend(none) = BIT_MASK
    <3>1. Len(none) * CHAR_BIT = 0 /\ Message(none) = {}
      BY <1>1, <2>2 DEF Message
    <3>2. Raised({}, CRCWidth) = {} /\ Raised(BIT_MASK, 0) = BIT_MASK
      BY <1>1 DEF BIT_MASK, Raised
    <3>3. Dividend(none)
              = Xor(Raised(Message(none), CRCWidth), Raised(BIT_MASK, Len(none) * CHAR_BIT))
      BY DEF Dividend, Raised
    <3>4. Dividend(none) = Xor({}, BIT_MASK)
      BY <3>1, <3>2, <3>3
    <3> QED
      BY <3>4, XorLaws
  <2>3. Modulo(BIT_MASK, R) = BIT_MASK
    BY <1>1, <1>2, <1>3, ModuloSmall
  <2>4. Reflect(BIT_MASK, CRCWidth) = BIT_MASK
    BY <1>1, ReflectLaws
  <2>5. f[0] = BIT_MASK
    BY <1>4 DEF Remainders
  <2>6. 0 \in 0..Len(data)
    BY <1>1
  <2> HIDE DEF part
  <2>7. Modulo(Dividend(part(0)), R) = Reflect(f[0], CRCWidth)
    BY <2>1, <2>2, <2>3, <2>4, <2>5
  <2> QED
    BY <2>6, <2>7
<1>6. ASSUME NEW k \in 1..Len(data), k - 1 \in S PROVE k \in S
  <2>1. PICK h \in Nat : h = k - 1
    BY <1>1
  <2>2. /\ h \in 0..Len(data) /\ h + 1 = k /\ k \in 0..Len(data)
        /\ part(h) \in Seq(Char) /\ Len(part(h)) = h
        /\ data[k] \in Char
    BY <1>1, <2>1
  <2>3. part(k) = Append(part(h), data[k])
    BY <1>1, <2>1, <2>2
  <2>4. Modulo(Dividend(part(h)), R) = Reflect(f[h], CRCWidth)
    BY <1>6, <2>1
  <2>5. f[h] \in CRCType /\ f[k] = NextByte(f[h], data[k], TheTable)
    BY <1>4, <2>1, <2>2 DEF Remainders
  <2>6. CRCWidth + Len(part(h)) * CHAR_BIT + CHAR_BIT <= n
    <3>1. h * CHAR_BIT \in Nat /\ h * CHAR_BIT + CHAR_BIT <= Len(data) * CHAR_BIT
      BY <1>1, <2>1, <2>2, Multiples
    <3>2. Len(data) * CHAR_BIT \in Nat
      BY <1>1
    <3> QED
      BY <1>1, <2>2, <3>1, <3>2
  <2> HIDE DEF part
  <2>7. PICK r \in CRCType : r = f[h]
    BY <2>5
  <2>8. Modulo(Dividend(Append(part(h), data[k])), R)
            = Reflect(NextByte(r, data[k], TheTable), CRCWidth)
    BY <1>2, <1>3, <2>2, <2>4, <2>6, <2>7, ByteDivides
  <2>9. Modulo(Dividend(part(k)), R) = Reflect(f[k], CRCWidth)
    BY <2>3, <2>5, <2>7, <2>8
  <2> QED
    BY <2>2, <2>9
<1> HIDE DEF S
<1>7. Inductive(S, Len(data))
  BY <1>5, <1>6 DEF Inductive
<1>8. Modulo(Dividend(data), R) = Reflect(f[Len(data)], CRCWidth)
  <2>1. \A k \in 0..Len(data) : k \in S
    BY <1>1, <1>7, Upto
  <2>2. Len(data) \in S
    BY <1>1, <2>1
  <2>3. part(Len(data)) = data
    OBVIOUS
  <2> QED
    BY <2>2, <2>3 DEF S
<1>9. f[Len(data)] \in CRCType /\ CalculateRemainder(data, TheTable, BIT_MASK) = f[Len(data)]
  BY <1>1, <1>4 DEF Remainders
<1>10. Reflect(Reflect(f[Len(data)], CRCWidth), CRCWidth) = f[Len(data)]
  BY <1>9, ReflectLaws
<1>11. Reference(data, R) = Xor(f[Len(data)], BIT_MASK)
  BY <1>8, <1>10 DEF Reference
<1>12. Calculate(data, TheTable, {}) = Xor(f[Len(data)], BIT_MASK)
  <2>1. Xor({}, BIT_MASK) = BIT_MASK
    BY XorLaws
  <2> QED
    BY <1>1, <1>9, <2>1, CalculateIs
<1> QED
  BY <1>11, <1>12 DEF R

-----------------------------------------------------------------------------
(* What a CRC does not see *)

\* Multiplying by x makes nothing of nothing else.
LEMMA TimesInjective ==
    ASSUME 0 \in Polynomial, NEW p \in CRCType, p # {}
    PROVE  Times(p) # {}
<1>1. CRCWidth \in Nat \ {0} /\ BIT_MASK = 0..(CRCWidth - 1) /\ p \subseteq BIT_MASK
  BY CrcConstants DEF BIT_MASK, CRCType
<1>2. CASE CRCWidth - 1 \in p
  <2>1. 0 \in BIT_MASK /\ 0 - 1 \notin p
    BY <1>1
  <2>2. 0 \in Times(p)
    BY <1>2, <2>1, TimesIs
  <2> QED
    BY <2>2
<1>3. CASE CRCWidth - 1 \notin p
  <2>1. PICK i \in p : TRUE
    OBVIOUS
  <2>2. i \in BIT_MASK /\ i # CRCWidth - 1
    BY <1>1, <1>3, <2>1
  <2>3. i + 1 \in BIT_MASK /\ (i + 1) - 1 \in p
    BY <1>1, <2>1, <2>2
  <2>4. i + 1 \in Times(p)
    BY <1>3, <2>3, TimesIs
  <2> QED
    BY <2>4
<1> QED
  BY <1>2, <1>3

\* A register raised by any power has a remainder, unless it is nothing.
LEMMA ModuloRaised ==
    ASSUME 0 \in Polynomial, NEW n \in Nat \ {0}, NEW R, IsResidues(R, n),
           NEW m \in Nat, m + CRCWidth <= n, NEW q \in CRCType, q # {}
    PROVE  Modulo(Raised(q, m), R) # {}
<1>1. CRCWidth \in Nat \ {0} /\ q \subseteq 0..(CRCWidth - 1) /\ q \in SUBSET Nat
  BY CrcConstants DEF CRCType, BIT_MASK
<1> DEFINE S == { i \in 0..m : Modulo(Raised(q, i), R) # {} }
<1>2. 0 \in S
  <2>1. Raised(q, 0) = q
    BY <1>1, RaisedLaws
  <2>2. Modulo(q, R) = q
    BY <1>1, ModuloSmall
  <2> QED
    BY <2>1, <2>2
<1>3. ASSUME NEW i \in 1..m, i - 1 \in S PROVE i \in S
  <2>1. PICK h \in Nat : h = i - 1 /\ h < m
    OBVIOUS
  <2>2. Modulo(Raised(q, h), R) # {} /\ Modulo(Raised(q, h), R) \in CRCType
    BY <1>3, <2>1, ModuloIs
  <2>3. Raised(q, h) \in SUBSET (0..(n - 2))
    <3>1. ASSUME NEW j \in Raised(q, h) PROVE j \in 0..(n - 2)
      <4>1. PICK t \in q : j = t + h
        BY <3>1 DEF Raised
      <4>2. t \in 0..(CRCWidth - 1)
        BY <1>1, <4>1
      <4> QED
        BY <1>1, <2>1, <4>1, <4>2
    <3> QED
      BY <3>1
  <2>4. Modulo(Raised(Raised(q, h), 1), R) = Times(Modulo(Raised(q, h), R))
    BY <2>3, ModuloShift
  <2>5. Raised(Raised(q, h), 1) = Raised(q, i)
    <3>1. \A a \in SUBSET Nat, c \in Nat, b \in Nat : Raised(Raised(a, b), c) = Raised(a, b + c)
      BY RaisedLaws
    <3>2. PICK c \in Nat : c = 1
      OBVIOUS
    <3>3. Raised(Raised(q, h), c) = Raised(q, h + c)
      BY <1>1, <3>1
    <3>4. h + c = i
      BY <2>1, <3>2
    <3> QED
      BY <3>2, <3>3, <3>4
  <2>6. Modulo(Raised(q, i), R) # {}
    BY <2>2, <2>4, <2>5, TimesInjective
  <2> QED
    BY <2>6
<1> HIDE DEF S
<1>4. Inductive(S, m)
  BY <1>2, <1>3 DEF Inductive
<1>5. m \in S
  <2>1. \A i \in 0..m : i \in S
    BY <1>4, Upto
  <2> QED
    BY <2>1
<1> QED
  BY <1>5 DEF S

\* Data of one length have the same CRC exactly if the generator divides the
\* difference of their polynomials.
THEOREM CrcCollides ==
    ASSUME NEW n \in Nat, NEW d \in Seq(Char), NEW e \in Seq(Char), Len(d) = Len(e),
           CRCWidth + Len(d) * CHAR_BIT <= n
    PROVE  Calculate(d, TheTable, {}) = Calculate(e, TheTable, {})
               <=> Modulo(Raised(Xor(Message(d), Message(e)), CRCWidth), Residues(n)) = {}
<1> DEFINE M(p) == Modulo(p, Residues(n))
           x == M(Dividend(d))
           y == M(Dividend(e))
<1>1. /\ Calculate(d, TheTable, {}) = Xor(Reflect(x, CRCWidth), BIT_MASK)
      /\ Calculate(e, TheTable, {}) = Xor(Reflect(y, CRCWidth), BIT_MASK)
  BY CrcIsReference DEF Reference
<1>2. x \in CRCType /\ y \in CRCType
  BY ModuloIs
<1>3. /\ CRCWidth \in Nat /\ Len(d) * CHAR_BIT \in Nat
      /\ Message(d) \in SUBSET Nat /\ Message(e) \in SUBSET Nat /\ BIT_MASK \in SUBSET Nat
  <2>1. CRCWidth \in Nat /\ Len(d) * CHAR_BIT \in Nat
    BY DividendIs, CrcConstants
  <2> QED
    BY <2>1 DEF Message, BIT_MASK
<1>4. Xor(Dividend(d), Dividend(e)) = Raised(Xor(Message(d), Message(e)), CRCWidth)
  <2> DEFINE a == Raised(Message(d), CRCWidth)
             b == Raised(Message(e), CRCWidth)
             c == Raised(BIT_MASK, Len(d) * CHAR_BIT)
  <2>1. Dividend(d) = Xor(a, c) /\ Dividend(e) = Xor(b, c)
    BY DEF Dividend, Raised
  <2>2. Raised(Xor(Message(d), Message(e)), CRCWidth) = Xor(a, b)
    BY <1>3, RaisedXor
  <2> HIDE DEF a, b, c
  <2>3. Xor(Xor(a, c), Xor(b, c)) = Xor(a, b)
    BY DEF Xor, SymDiff
  <2> QED
    BY <2>1, <2>2, <2>3
<1>5. IsFiniteSet(Dividend(d)) /\ IsFiniteSet(Dividend(e))
  <2>1. \A p \in Seq(Char) : IsFiniteSet(Dividend(p))
    <3> SUFFICES ASSUME NEW p \in Seq(Char) PROVE IsFiniteSet(Dividend(p))
      OBVIOUS
    <3>1. PICK m : m = Len(p) * CHAR_BIT
      OBVIOUS
    <3>2. m \in Nat /\ Dividend(p) \in SUBSET (0..(CRCWidth + m - 1))
      BY <3>1, DividendIs
    <3>3. IsFiniteSet(0..(CRCWidth + m - 1))
      BY <1>3, <3>2, FS_Interval
    <3> QED
      BY <3>2, <3>3, FS_Subset
  <2> QED
    BY <2>1
<1>6. M(Raised(Xor(Message(d), Message(e)), CRCWidth)) = Xor(x, y)
  BY <1>4, <1>5, ModuloXor
<1> HIDE DEF M, x, y
<1>7. x = y => Calculate(d, TheTable, {}) = Calculate(e, TheTable, {})
  BY <1>1
<1>8. Calculate(d, TheTable, {}) = Calculate(e, TheTable, {}) => x = y
  <2> SUFFICES ASSUME Calculate(d, TheTable, {}) = Calculate(e, TheTable, {}) PROVE x = y
    OBVIOUS
  <2>1. Xor(Reflect(x, CRCWidth), BIT_MASK) = Xor(Reflect(y, CRCWidth), BIT_MASK)
    BY <1>1
  <2>2. \A a, b : Xor(a, BIT_MASK) = Xor(b, BIT_MASK) => a = b
    <3> SUFFICES ASSUME NEW a, NEW b, Xor(a, BIT_MASK) = Xor(b, BIT_MASK) PROVE a = b
      OBVIOUS
    <3>1. Xor(Xor(a, BIT_MASK), BIT_MASK) = a /\ Xor(Xor(b, BIT_MASK), BIT_MASK) = b
      BY XorLaws
    <3> QED
      BY <3>1
  <2>3. Reflect(x, CRCWidth) = Reflect(y, CRCWidth)
    BY <2>1, <2>2
  <2>4. Reflect(Reflect(x, CRCWidth), CRCWidth) = x /\ Reflect(Reflect(y, CRCWidth), CRCWidth) = y
    BY <1>2, ReflectLaws
  <2> QED
    BY <2>3, <2>4
<1>9. Xor(x, y) = {} <=> x = y
  BY XorSame
<1> QED
  BY <1>6, <1>7, <1>8, <1>9 DEF M

\* A byte that differs shows in the message, at one of its bits.
LEMMA MessageDiffers ==
    ASSUME NEW d \in Seq(Char), NEW e \in Seq(Char), Len(d) = Len(e),
           NEW j \in 1..Len(d), d[j] # e[j]
    PROVE  Xor(Message(d), Message(e)) # {}
<1>1. CHAR_BIT \in Nat \ {0} /\ d[j] \subseteq 0..(CHAR_BIT - 1) /\ e[j] \subseteq 0..(CHAR_BIT - 1)
  BY CrcConstants DEF Char
<1>2. PICK r \in 0..(CHAR_BIT - 1) : ~(r \in d[j] <=> r \in e[j])
  BY <1>1
<1>3. PICK q \in Nat : q = j - 1 /\ q < Len(d) /\ q + 1 = j
  OBVIOUS
<1>4. PICK k \in Nat : k = q * CHAR_BIT + r /\ k \div CHAR_BIT = q /\ k % CHAR_BIT = r
  BY <1>1, <1>3, QuotientIs
<1>5. PICK n \in Nat : n = Len(d) * CHAR_BIT
  BY <1>1
<1>6. k < n
  <2>1. q * CHAR_BIT \in Nat /\ q * CHAR_BIT + CHAR_BIT <= Len(d) * CHAR_BIT
    BY <1>1, <1>3, Multiples
  <2> QED
    BY <1>1, <1>4, <1>5, <2>1
<1> DEFINE i == n - 1 - k
<1>7. i \in 0..(n - 1) /\ n - 1 - i = k
  BY <1>6
<1> HIDE DEF i
<1>8. i \in Message(d) <=> r \in d[j]
  <2>1. i \in Message(d) <=>
            i \in 0..(n - 1) /\ (n - 1 - i) % CHAR_BIT \in d[(n - 1 - i) \div CHAR_BIT + 1]
    BY <1>5, MessageIs
  <2> QED
    BY <1>3, <1>4, <1>7, <2>1
<1>9. i \in Message(e) <=> r \in e[j]
  <2>1. i \in Message(e) <=>
            i \in 0..(n - 1) /\ (n - 1 - i) % CHAR_BIT \in e[(n - 1 - i) \div CHAR_BIT + 1]
    BY <1>5, MessageIs
  <2> QED
    BY <1>3, <1>4, <1>7, <2>1
<1>10. i \in Xor(Message(d), Message(e))
  BY <1>2, <1>8, <1>9, XorIs
<1> QED
  BY <1>10

\* Where the bytes differ only between i and k, so do the messages.
LEMMA MessageWithin ==
    ASSUME NEW d \in Seq(Char), NEW e \in Seq(Char), Len(d) = Len(e),
           NEW i \in Nat, NEW k \in Nat, i + k <= Len(d),
           \A j \in 1..Len(d) : d[j] # e[j] => j \in (i + 1)..(i + k)
    PROVE  \A t \in Xor(Message(d), Message(e)) :
               /\ t \in Nat /\ (Len(d) - (i + k)) * CHAR_BIT <= t
               /\ t < (Len(d) - (i + k)) * CHAR_BIT + k * CHAR_BIT
<1> SUFFICES ASSUME NEW t \in Xor(Message(d), Message(e))
             PROVE  /\ t \in Nat /\ (Len(d) - (i + k)) * CHAR_BIT <= t
                    /\ t < (Len(d) - (i + k)) * CHAR_BIT + k * CHAR_BIT
  OBVIOUS
<1>1. CHAR_BIT \in Nat \ {0}
  BY CrcConstants
<1>2. PICK rest \in Nat : rest = Len(d) - (i + k) /\ Len(d) = rest + i + k
  <2>1. Len(d) - (i + k) \in Nat /\ Len(d) = (Len(d) - (i + k)) + i + k
    OBVIOUS
  <2> QED
    BY <2>1
<1>3. PICK a \in Nat, b \in Nat, c \in Nat :
          /\ a = rest * CHAR_BIT /\ b = i * CHAR_BIT /\ c = k * CHAR_BIT
          /\ Len(d) * CHAR_BIT = a + b + c
  <2>1. /\ rest * CHAR_BIT \in Nat /\ i * CHAR_BIT \in Nat /\ k * CHAR_BIT \in Nat
        /\ (rest + i + k) * CHAR_BIT = rest * CHAR_BIT + i * CHAR_BIT + k * CHAR_BIT
    BY <1>1
  <2> QED
    BY <1>2, <2>1
<1>4. PICK n \in Nat : n = Len(d) * CHAR_BIT /\ n = a + b + c
  BY <1>3
<1> DEFINE p == n - 1 - t
           j == p \div CHAR_BIT + 1
<1>5. /\ t \in Message(d) <=> t \in 0..(n - 1) /\ p % CHAR_BIT \in d[j]
      /\ t \in Message(e) <=> t \in 0..(n - 1) /\ p % CHAR_BIT \in e[j]
  BY <1>4, MessageIs
<1>6. ~(t \in Message(d) <=> t \in Message(e))
  BY XorIs
<1>7. t \in 0..(n - 1) /\ d[j] # e[j]
  <2> HIDE DEF p, j
  <2> QED
    BY <1>5, <1>6
<1>8. PICK q \in Nat : /\ q = p \div CHAR_BIT /\ j = q + 1
                       /\ q * CHAR_BIT <= p /\ p < q * CHAR_BIT + CHAR_BIT
  <2>1. p \in Nat
    BY <1>7
  <2>2. p \div CHAR_BIT \in Nat /\ p % CHAR_BIT \in 0..(CHAR_BIT - 1)
        /\ p = (p \div CHAR_BIT) * CHAR_BIT + (p % CHAR_BIT)
    BY <1>1, <2>1, QuotientOf
  <2>3. PICK q \in Nat : q = p \div CHAR_BIT
    BY <2>2
  <2>4. q * CHAR_BIT \in Nat
    BY <1>1
  <2> HIDE DEF p
  <2> QED
    BY <1>1, <2>1, <2>2, <2>3, <2>4 DEF j
<1>9. p \in 0..(n - 1) /\ t = n - 1 - p
  BY <1>7
<1> HIDE DEF p, j
<1>10. q < Len(d)
  <2> SUFFICES ASSUME ~(q < Len(d)) PROVE FALSE
    OBVIOUS
  <2>1. CASE q = Len(d)
    BY <1>4, <1>8, <1>9, <2>1
  <2>2. CASE Len(d) < q
    <3>1. Len(d) * CHAR_BIT + CHAR_BIT <= q * CHAR_BIT /\ q * CHAR_BIT \in Nat
      <4>1. q * CHAR_BIT \in Nat
        BY <1>1
      <4> QED
        BY <1>1, <2>2, <4>1, Multiples
    <3> QED
      BY <1>1, <1>4, <1>8, <1>9, <3>1
  <2> QED
    BY <2>1, <2>2
<1>11. q + 1 \in (i + 1)..(i + k)
  <2>1. q + 1 \in 1..Len(d)
    BY <1>10
  <2> QED
    BY <1>7, <1>8, <2>1
<1>12. q >= i /\ q < i + k
  BY <1>11
<1>13. b <= q * CHAR_BIT
  <2>1. CASE q = i
    BY <1>1, <1>3, <2>1
  <2>2. CASE i < q
    <3>1. i * CHAR_BIT + CHAR_BIT <= q * CHAR_BIT
      BY <1>1, <2>2, Multiples
    <3>2. q * CHAR_BIT \in Nat
      BY <1>1
    <3> QED
      BY <1>1, <1>3, <3>1, <3>2
  <2> QED
    BY <1>12, <2>1, <2>2
<1>14. q * CHAR_BIT + CHAR_BIT <= b + c
  <2>1. i + k \in Nat /\ (i + k) * CHAR_BIT = i * CHAR_BIT + k * CHAR_BIT
    BY <1>1
  <2>2. q * CHAR_BIT + CHAR_BIT <= (i + k) * CHAR_BIT
    BY <1>1, <1>12, <2>1, Multiples
  <2> QED
    BY <1>3, <2>1, <2>2
<1>15. b <= p /\ p < b + c
  <2>1. q * CHAR_BIT \in Nat
    BY <1>1
  <2> QED
    BY <1>1, <1>8, <1>9, <1>13, <1>14, <2>1
<1>16. a <= t /\ t < a + c
  BY <1>4, <1>9, <1>15
<1> QED
  BY <1>2, <1>3, <1>7, <1>16

\* A change of any of k consecutive bytes is seen, if they are no more bits than the
\* CRC has.
THEOREM CrcShowsBurst ==
    ASSUME 0 \in Polynomial,
           NEW d \in Seq(Char), NEW e \in Seq(Char), Len(d) = Len(e), d # e,
           NEW i \in Nat, NEW k \in Nat, i + k <= Len(d), k * CHAR_BIT <= CRCWidth,
           \A j \in 1..Len(d) : d[j] # e[j] => j \in (i + 1)..(i + k)
    PROVE  Calculate(d, TheTable, {}) # Calculate(e, TheTable, {})
<1>1. CRCWidth \in Nat \ {0} /\ CHAR_BIT \in Nat \ {0} /\ BIT_MASK = 0..(CRCWidth - 1)
  BY CrcConstants DEF BIT_MASK
<1>2. PICK low \in Nat : low = (Len(d) - (i + k)) * CHAR_BIT
  <2>1. PICK rest \in Nat : rest = Len(d) - (i + k)
    <3>1. Len(d) - (i + k) \in Nat
      OBVIOUS
    <3> QED
      BY <3>1
  <2>2. rest * CHAR_BIT \in Nat
    BY <1>1
  <2> QED
    BY <2>1, <2>2
<1>3. PICK burst \in Nat : burst = k * CHAR_BIT /\ burst <= CRCWidth
  BY <1>1
<1>4. PICK size \in Nat : size = Len(d) * CHAR_BIT
  BY <1>1
<1>5. PICK n \in Nat \ {0} : n = size + low + CRCWidth + CRCWidth
  BY <1>1
<1> DEFINE diff == Xor(Message(d), Message(e))
           q == { t - low : t \in diff }
<1>6. diff # {}
  <2>1. PICK j \in 1..Len(d) : d[j] # e[j]
    BY SeqEqual
  <2> QED
    BY <2>1, MessageDiffers
<1>7. \A t \in diff : t \in Nat /\ low <= t /\ t < low + burst
  <2>1. \A t \in diff : /\ t \in Nat /\ (Len(d) - (i + k)) * CHAR_BIT <= t
                        /\ t < (Len(d) - (i + k)) * CHAR_BIT + k * CHAR_BIT
    BY MessageWithin
  <2> HIDE DEF diff
  <2> QED
    BY <1>2, <1>3, <2>1
<1> HIDE DEF diff
<1>8. q # {} /\ q \in CRCType
  <2>1. q # {}
    BY <1>6
  <2>2. ASSUME NEW t \in diff PROVE t - low \in BIT_MASK
    BY <1>1, <1>3, <1>7
  <2> QED
    BY <2>1, <2>2 DEF CRCType
<1>9. diff = Raised(q, low)
  <2>1. \A t \in diff : (t - low) + low = t
    BY <1>7
  <2> QED
    BY <2>1 DEF Raised
<1>10. q \in SUBSET Nat
  BY <1>1, <1>8 DEF CRCType
<1> HIDE DEF q
<1>11. Raised(diff, CRCWidth) = Raised(q, low + CRCWidth)
  <2>1. \A a \in SUBSET Nat, c \in Nat, b \in Nat : Raised(Raised(a, b), c) = Raised(a, b + c)
    BY RaisedLaws
  <2> QED
    BY <1>1, <1>9, <1>10, <2>1
<1>12. Modulo(Raised(q, low + CRCWidth), Residues(n)) # {}
  <2>1. PICK m \in Nat : m = low + CRCWidth
    BY <1>1
  <2>2. m + CRCWidth <= n
    BY <1>1, <1>5, <2>1
  <2>3. IsResidues(Residues(n), n)
    BY ResiduesAre
  <2>4. Modulo(Raised(q, m), Residues(n)) # {}
    BY <1>8, <2>2, <2>3, ModuloRaised
  <2> QED
    BY <2>1, <2>4
<1>13. CRCWidth + Len(d) * CHAR_BIT <= n
  BY <1>1, <1>4, <1>5
<1>14. Calculate(d, TheTable, {}) = Calculate(e, TheTable, {})
           <=> Modulo(Raised(diff, CRCWidth), Residues(n)) = {}
  BY <1>13, CrcCollides DEF diff
<1> QED
  BY <1>11, <1>12, <1>14

=============================================================================
