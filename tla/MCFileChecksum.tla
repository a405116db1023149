-------------------------- MODULE MCFileChecksum --------------------------
(* Instances of FileChecksum for TLC. *)
EXTENDS FileChecksum, TLC

Symmetry == Permutations(Side)

\* CRC-32 itself, with the check value that CRC.h:1563 gives: the CRC of the nine
\* characters "123456789" is 0xCBF43926.
Crc32 == INSTANCE Crc WITH
    CRCWidth <- 32, CHAR_BIT <- 8,
    Polynomial <- {0, 1, 2, 4, 5, 7, 8, 10, 11, 12, 16, 22, 23, 26}

Bits(n) == { i \in 0..7 : (n \div 2^i) % 2 = 1 }
Digits == [i \in 1..9 |-> Bits(48 + i)]

ASSUME CheckValue ==
    Crc32!Calculate(Digits, Crc32!Table(Crc32!CRC_32), {}) =
        Bits(38) \cup { i + 8 : i \in Bits(57) } \cup { i + 16 : i \in Bits(244) }
                 \cup { i + 24 : i \in Bits(203) }
=============================================================================
