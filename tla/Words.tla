-------------------------------- MODULE Words --------------------------------
(***************************************************************************)
(* The words of the interpreter and what exec_stack_instruction makes of   *)
(* them, for words of WordBytes bytes of ByteBits bits (32 and 8 in the    *)
(* code).  Negative numbers are two's complement.  Div is the unsigned     *)
(* division, whose shifts for some powers of two are Shifts.               *)
(***************************************************************************)
EXTENDS Integers, Bitwise

CONSTANTS WordBytes, ByteBits, Shifts

WordBits == WordBytes * ByteBits
Modulus == 2^WordBits
ByteValues == 2^ByteBits
WordSet == 0..(Modulus - 1)

Bool(b) == IF b THEN 1 ELSE 0
Complement(a) == Modulus - 1 - a
Bit(a, n) == (a \div 2^n) % 2 = 1

-----------------------------------------------------------------------------
(* Sign and magnitude.                                                     *)

set_sign(a, sign) == IF sign THEN (Complement(a) + 1) % Modulus ELSE a
negative(a) == Bit(a, WordBits - 1)
magnitude(a) == set_sign(a, negative(a))       \* get_and_reset_sign

-----------------------------------------------------------------------------
(* The instructions.                                                       *)

Add(a, b) == (a + b) % Modulus
Mul(a, b) == (a * b) % Modulus
Sub(a, b) == (a - b) % Modulus

Div(a, b) ==
  IF b = 0 THEN 0
  ELSE IF \E n \in Shifts : b = 2^n THEN shiftR(a, CHOOSE n \in Shifts : b = 2^n)
  ELSE a \div b

Mod(a, b) == IF b = 0 THEN 0 ELSE a % b

\* Mutant of Sdiv: the sign of the dividend alone.
SdivSignOfFirst(a, b) ==
  IF magnitude(b) = 0 THEN 0
  ELSE set_sign(magnitude(a) \div magnitude(b), negative(a))

\* min is 2^255 - 1 in the code, and a magnitude is never !0.
Sdiv(a, b) ==
  LET min == 2^(WordBits - 1) - 1
  IN IF magnitude(b) = 0 THEN 0
     ELSE IF magnitude(a) = min /\ magnitude(b) = Complement(0) THEN min
     ELSE set_sign(magnitude(a) \div magnitude(b), negative(a) # negative(b))

Smod(a, b) == IF magnitude(b) = 0 THEN 0 ELSE set_sign(magnitude(a) % magnitude(b), negative(a))

Slt(a, b) ==
  LET x == magnitude(a)  y == magnitude(b)
  IN Bool(\/ x < y /\ ~(negative(a) \/ negative(b))
          \/ x > y /\ negative(a) /\ negative(b)
          \/ negative(a) /\ ~negative(b))

Sgt(a, b) ==
  LET x == magnitude(a)  y == magnitude(b)
  IN Bool(\/ x > y /\ ~(negative(a) \/ negative(b))
          \/ x < y /\ negative(a) /\ negative(b)
          \/ ~negative(a) /\ negative(b))

\* Byte n of a, from the most significant one.
Byte(n, a) ==
  IF n < WordBytes THEN shiftR(a, ByteBits * (WordBytes - 1 - n)) & (ByteValues - 1) ELSE 0

\* Past the last byte the number stays on the stack as it is.
Signextend(n, a) ==
  LET position == n * ByteBits + ByteBits - 1
      mask == 2^position - 1
  IN IF n >= WordBytes THEN a
     ELSE IF Bit(a, position) THEN a | Complement(mask) ELSE a & mask

-----------------------------------------------------------------------------
(* What they stand for.                                                    *)

\* The integer a word stands for, and the word of an integer.
Signed(a) == IF a >= Modulus \div 2 THEN a - Modulus ELSE a
Word(i) == i % Modulus
Abs(i) == IF i < 0 THEN -i ELSE i
Truncated(i, j) == IF (i < 0) = (j < 0) THEN Abs(i) \div Abs(j) ELSE -(Abs(i) \div Abs(j))

\* The signed instructions are those of the integers: the quotient goes towards 0,
\* the remainder is what it leaves, the least integer over -1 wraps round.
SignedAgree(a, b) ==
  /\ b # 0 => Sdiv(a, b) = Word(Truncated(Signed(a), Signed(b)))
  /\ b # 0 => Smod(a, b) = Word(Signed(a) - Signed(b) * Truncated(Signed(a), Signed(b)))
  /\ Slt(a, b) = Bool(Signed(a) < Signed(b))
  /\ Sgt(a, b) = Bool(Signed(a) > Signed(b))

\* The bytes of a word make it up; extending the sign from byte n keeps the signed
\* number that the last n + 1 bytes are.
BytesAgree(n, a) ==
  LET low == a % 2^(ByteBits * (n + 1))
      half == 2^(ByteBits * (n + 1) - 1)
  IN n < WordBytes =>
       /\ Byte(n, a) = (a \div ByteValues^(WordBytes - 1 - n)) % ByteValues
       /\ Signed(Signextend(n, a)) = IF low >= half THEN low - 2 * half ELSE low

\* A division by a power of two that is done by a shift is the same division.
DivisionAgrees(a, b) ==
  b # 0 => /\ Div(a, b) = a \div b
           /\ a = Add(Mul(Div(a, b), b), Mod(a, b))
           /\ Sub(a, Mod(a, b)) = Mul(Div(a, b), b)
=============================================================================
