--------------------------------- MODULE Crc ---------------------------------
(***************************************************************************)
(* The part of the CRC library that dfs_file_checksum uses: a reflected    *)
(* CRC with the parameters of CRC-32, by a lookup table, continued from    *)
(* chunk to chunk.  Width, CHAR_BIT and the polynomial are constants, so   *)
(* that the same definitions give CRC-32 and a small CRC to check.         *)
(*                                                                         *)
(* A register or a byte is the set of positions of its bits that are one:  *)
(* exclusive or is the symmetric difference.                               *)
(***************************************************************************)
EXTENDS Naturals, Sequences, FiniteSetsExt

CONSTANTS
    CRCWidth,       \* bits of the CRC, 32
    CHAR_BIT,       \* bits of a byte, 8
    Polynomial      \* the coefficients below x^CRCWidth of the generator

ASSUME CrcConstants ==
    /\ CRCWidth \in Nat /\ CHAR_BIT \in 1..CRCWidth
    /\ Polynomial \subseteq 0..(CRCWidth - 1)

\* static_cast<CRCType>(~0): every CRCType is CRCWidth bits wide here.
BIT_MASK == 0..(CRCWidth - 1)

CRCType == SUBSET BIT_MASK
Char == SUBSET (0..(CHAR_BIT - 1))

CRC_32 ==
    [polynomial |-> Polynomial, initialValue |-> BIT_MASK, finalXOR |-> BIT_MASK,
     reflectInput |-> TRUE, reflectOutput |-> TRUE]

Xor(a, b) == SymDiff(a, b)

ShiftRight(value, n) == { i - n : i \in { j \in value : j >= n } }

Reflect(value, numBits) == { numBits - 1 - i : i \in { j \in value : j < numBits } }

-----------------------------------------------------------------------------
(* Remainders *)

\* One bit of the division, with the reflected polynomial.
NextBit(remainder, polynomial) ==
    IF 0 \in remainder
    THEN Xor(ShiftRight(remainder, 1), polynomial)
    ELSE ShiftRight(remainder, 1)

\* All bits of a byte that was added to the remainder.
NextBits(remainder, polynomial) ==
    LET after[i \in 0..CHAR_BIT] ==
            IF i = 0 THEN remainder ELSE NextBit(after[i - 1], polynomial)
    IN  after[CHAR_BIT]

\* CalculateRemainder, bit by bit.
BitwiseRemainder(data, parameters, remainder) ==
    LET polynomial == Reflect(parameters.polynomial, CRCWidth)
        after[i \in 0..Len(data)] ==
            IF i = 0 THEN remainder ELSE NextBits(Xor(after[i - 1], data[i]), polynomial)
    IN  after[Len(data)]

\* Table(parameters): the remainder of every byte.
Table(parameters) ==
    [parameters |-> parameters,
     table |-> [byte \in Char |-> BitwiseRemainder(<<byte>>, parameters, {}) \cap BIT_MASK]]

\* One byte of the division, with the table.
NextByte(remainder, byte, lookupTable) ==
    Xor(ShiftRight(remainder, CHAR_BIT),
        lookupTable.table[Xor(remainder, byte) \cap 0..(CHAR_BIT - 1)])

\* CalculateRemainder with the table: a byte at a time.
CalculateRemainder(data, lookupTable, remainder) ==
    LET after[i \in 0..Len(data)] ==
            IF i = 0 THEN remainder ELSE NextByte(after[i - 1], data[i], lookupTable)
    IN  after[Len(data)]

-----------------------------------------------------------------------------
(* Calculate *)

Finalize(remainder, finalXOR, reflectOutput) ==
    Xor(IF reflectOutput THEN Reflect(remainder, CRCWidth) ELSE remainder, finalXOR)
        \cap BIT_MASK

UndoFinalize(crc, finalXOR, reflectOutput) ==
    LET remainder == Xor(crc \cap BIT_MASK, finalXOR)
    IN  IF reflectOutput THEN Reflect(remainder, CRCWidth) ELSE remainder

\* Continue a CRC with more data.  The input is reflected already by the order
\* of the division, so the output is reflected only if the parameters differ.
Calculate(data, lookupTable, crc) ==
    LET parameters == lookupTable.parameters
        reflect == parameters.reflectInput # parameters.reflectOutput
    IN  Finalize(
            CalculateRemainder(data, lookupTable,
                               UndoFinalize(crc, parameters.finalXOR, reflect)),
            parameters.finalXOR, reflect)

-----------------------------------------------------------------------------
(* What a CRC is, to compare with *)

\* A polynomial below x^CRCWidth times x, modulo the generator.
Times(p) ==
    LET up == { i + 1 : i \in p }
    IN  IF CRCWidth \in up THEN Xor(up \ {CRCWidth}, Polynomial) ELSE up

\* The powers 1, x, x^2, ... modulo the generator, a sequence of n of them.
Residues(n) ==
    LET residue[i \in 1..n] == IF i = 1 THEN {0} ELSE Times(residue[i - 1])
    IN  SubSeq(residue, 1, n)

\* The polynomial p modulo the generator: the sum of the residues of its terms.
Modulo(p, residues) ==
    { j \in BIT_MASK : Cardinality({ i \in p : j \in residues[i + 1] }) % 2 = 1 }

\* The bits of the data, low bits of each byte first, are the coefficients of a
\* polynomial, the highest first.
Message(data) ==
    LET n == Len(data) * CHAR_BIT
    IN  { i \in 0..(n - 1) : LET k == n - 1 - i
                             IN  k % CHAR_BIT \in data[k \div CHAR_BIT + 1] }

\* It is multiplied by x^CRCWidth and its first CRCWidth bits are inverted.
Dividend(data) ==
    Xor({ i + CRCWidth : i \in Message(data) }, { i + Len(data) * CHAR_BIT : i \in BIT_MASK })

\* The bits of the remainder are inverted too.
Reference(data, residues) ==
    Xor(Reflect(Modulo(Dividend(data), residues), CRCWidth), BIT_MASK)
=============================================================================
