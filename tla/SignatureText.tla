--------------------------- MODULE SignatureText ---------------------------
(***************************************************************************)
(* The text of a signature in blockchain/crypto.go.  ECDSA is taken as     *)
(* ideal: a pair of numbers made for some data verifies for that data, and *)
(* no other pair does.  What Sign and Verify themselves do is to write the *)
(* two numbers down and to read them back.                                 *)
(***************************************************************************)
EXTENDS Naturals, Sequences

CONSTANTS
    Byte,  \* the values of a byte; two digits of the text each
    Width  \* bytes of a number below the order of the curve: 32 for P-256

ASSUME TextAssumption == 0 \in Byte /\ Width \in Nat \ {0}

\* The numbers r and s of a signature, all Width bytes of them, highest first.
Number == [1 .. Width -> Byte]

\* big.Int.Bytes: leading zero bytes are left out.
LeadingZeros(n) ==
    CHOOSE k \in 0 .. Width :
        /\ \A i \in 1 .. k : n[i] = 0
        /\ k < Width => n[k + 1] # 0
Bytes(n) == [i \in 1 .. Width - LeadingZeros(n) |-> n[LeadingZeros(n) + i]]

\* big.Int.SetBytes of as many bytes as a number may have.
SetBytes(text) == [i \in 1 .. Width |-> text[i]]

\* Sign: "%x%x".
Sign(pair) == Bytes(pair[1]) \o Bytes(pair[2])

\* Mutation: whatever comes before the last half is r.
ReadsBackLoosely(text, pair) ==
    LET from == IF Len(text) > Width THEN Len(text) - Width ELSE 0
    IN  [i \in 1 .. Width |-> IF from + i <= Len(text) THEN text[from + i] ELSE 0] = pair[2]

\* Verify: 128 digits, half of them r, half of them s.
ReadsBack(text, pair) ==
    /\ Len(text) = 2 * Width
    /\ SetBytes(SubSeq(text, 1, Width)) = pair[1]
    /\ SetBytes(SubSeq(text, Width + 1, 2 * Width)) = pair[2]

\* Both numbers fill their bytes: 255 numbers of 256 do.
FullWidth(pair) == pair[1][1] # 0 /\ pair[2][1] # 0
=============================================================================
