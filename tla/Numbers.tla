------------------------------ MODULE Numbers ------------------------------
(***************************************************************************)
(* A constant expression: primary_expr() reads a literal, as a target       *)
(* address while it fits and then again as a thuge, and the operators of    *)
(* eval_expr_huge() are applied to it.                                      *)
(*                                                                         *)
(* A step reads a digit or applies an operator.  The text and the right     *)
(* operands are inputs.  Left out: the bitwise and logical operators, and   *)
(* floating point.                                                          *)
(***************************************************************************)
EXTENDS HugeInt

CONSTANTS
  Literals,       \* of the source, as [base, text], a text being its digits
  Operands        \* the numbers that may stand to the right of an operator

ASSUME NumbersAssumption ==
  /\ \A l \in Literals : l.base > 1 /\ l.text \in Seq(0..l.base - 1) /\ l.text # <<>>
  /\ Operands \subseteq thuge

(* A target address is half a word wide, on the 68000: 32 bits.             *)
TADDR == BASE
utaddr == 0..TADDR - 1

VARIABLES
  base, text,     \* the literal that is read
  s,              \* the next digit
  exp_type,       \* what it is read as, NUM or HUG
  val, huge,      \* its value so far, as either
  op,             \* the operator applied, "none" before
  lval, rval,     \* its operands
  result          \* a thuge, a comparison's -1, 0 or 1, or a BOOLEAN

readVars == <<base, text, s, exp_type, val, huge>>
vars == <<readVars, op, lval, rval, result>>

Init ==
  /\ \E l \in Literals : base = l.base /\ text = l.text
  /\ s = 1 /\ exp_type = "NUM"
  /\ val = 0 /\ huge = huge_zero
  /\ op = "none" /\ lval = huge_zero /\ rval = huge_zero
  /\ result = huge_zero

Reading == op = "none" /\ s <= Len(text)

-----------------------------------------------------------------------------
(* primary_expr().                                                          *)

(* Variant: overflow is found by the number getting smaller. *)
Overflow_MutSmaller(v) == (base * v + text[s]) % TADDR < v

(* An address overflows when the multiplication by the base loses bits: the *)
(* decimal digit is added after the test.                                   *)
Overflow(v) == ((base * v) % TADDR) \div base # v

TaddrDigit ==
  /\ Reading /\ exp_type = "NUM" /\ ~Overflow(val)
  /\ val' = (base * val + text[s]) % TADDR
  /\ s' = s + 1
  /\ UNCHANGED <<base, text, exp_type, huge, op, lval, rval, result>>

hugeval ==
  /\ Reading /\ exp_type = "NUM" /\ Overflow(val)
  /\ exp_type' = "HUG" /\ s' = 1
  /\ UNCHANGED <<base, text, val, huge, op, lval, rval, result>>

HugeDigit ==
  /\ Reading /\ exp_type = "HUG"
  /\ huge' = haddi(hmuli(huge, base), text[s])
  /\ s' = s + 1
  /\ UNCHANGED <<base, text, exp_type, val, op, lval, rval, result>>

(* An address is signed when it becomes an operand.                         *)
taddr(v) == IF v >= TADDR \div 2 THEN v - TADDR ELSE v
Literal == IF exp_type = "NUM" THEN huge_from_int(taddr(val)) ELSE huge

-----------------------------------------------------------------------------
(* eval_expr_huge() for one operator.                                       *)

Operand == IF op = "none" THEN Literal ELSE result

Evaluate(o, r, res) ==
  /\ s > Len(text) /\ op \in {"none", "NEG"}
  /\ op' = o /\ lval' = Operand /\ rval' = r /\ result' = res
  /\ UNCHANGED readVars

Unary ==
  /\ op = "none"
  /\ \/ Evaluate("NEG", huge_zero, hneg(Operand))
     \/ Evaluate("CPL", huge_zero, hcpl(Operand))

Sum(r) == \/ Evaluate("ADD", r, hadd(Operand, r))
          \/ Evaluate("SUB", r, hsub(Operand, r))

Product(r) == Evaluate("MUL", r, hmul(Operand, r))

Quotient(r) ==
  IF r = huge_zero
    THEN \E o \in {"DIV", "MOD"} : Evaluate(o, r, huge_zero)
    ELSE \/ Evaluate("DIV", r, hdiv(Operand, r))
         \/ Evaluate("MOD", r, hmod(Operand, r))

(* The low word of the right operand is the count. *)
Shift(r) == LET b == huge_to_int(r) IN
  /\ b \in 0..HUGEBITS - 1
  /\ \/ Evaluate("LSH", r, hshl(Operand, b))
     \/ Evaluate("RSH", r, hshra(Operand, b))
     \/ Evaluate("RSHU", r, hshr(Operand, b))

Comparison(r) == Evaluate("CMP", r, hcmp(Operand, r))

(* A backend asks whether the value fits into a field of SVal(r) bits.      *)
RangeCheck(r) ==
  /\ SVal(r) \in 1..HUGEBITS
  /\ Evaluate("RANGE", r, huge_chkrange(Operand, SVal(r)))

Binary(r) == Sum(r) \/ Product(r) \/ Quotient(r) \/ Shift(r) \/ Comparison(r)

Next ==
  \/ TaddrDigit \/ hugeval \/ HugeDigit \/ Unary
  \/ \E r \in Operands : Binary(r) \/ RangeCheck(r)

Spec == Init /\ [][Next]_vars

-----------------------------------------------------------------------------
(* Properties.                                                              *)

(* The integer that a text stands for.                                      *)
Value(b, t) == FoldLeft(LAMBDA v, d : b * v + d, 0, t)

Modulo == WORD * WORD
Stands(h, i) == UVal(h) = i % Modulo
PowersOfTwo == {2, 4, 8, 16}

ReadExactly ==
  s > Len(text) =>
    IF exp_type = "NUM" THEN val = Value(base, text)
                        ELSE Stands(huge, Value(base, text))

(* A binary, octal or hexadecimal literal is read exactly, whether it fits  *)
(* into an address, into a thuge only after the second reading, or into     *)
(* neither, where the upper digits are lost.                                *)
BinaryLiteralExact == base \in PowersOfTwo => ReadExactly

(* Negation, and addition and subtraction of a number that is not negative, *)
(* are exact modulo the width, for every left operand: the carry and the    *)
(* borrow between the words are seen.                                       *)
SumExact ==
  /\ op = "NEG" => Stands(result, -SVal(lval))
  /\ ~HUGESIGN(rval) =>
       /\ op = "ADD" => Stands(result, SVal(lval) + SVal(rval))
       /\ op = "SUB" => Stands(result, SVal(lval) - SVal(rval))

(* The quotient that rounds to zero.                                        *)
Absolute(i) == IF i < 0 THEN -i ELSE i
Truncated(a, b) ==
  LET q == Absolute(a) \div Absolute(b)
  IN IF (a < 0) # (b < 0) THEN -q ELSE q

(* Of numbers that are not negative: every digit of the quotient is what    *)
(* the first three digits of the rest, divided by the first two of the      *)
(* normalized divisor, say that it is, and not one less: for all but a few  *)
(* numbers.  The divisor has two digits or more.                            *)
EstimatesRight(a, b) ==
  LET n == CHOOSE i \in 1..4 : BASE ^ (i - 1) <= b /\ b < BASE ^ i
      norm == CHOOSE d \in {2 ^ i : i \in 0..HALF_BITS - 1} :
                BASE ^ n <= 2 * b * d /\ b * d < BASE ^ n
      Left(k) == (a * norm) % (b * norm * BASE ^ (k + 1))
      FirstTwo == (b * norm) \div BASE ^ (n - 2)
  IN \A k \in {i \in 0..4 - n : BASE ^ (i + n - 1) <= a} :
       LET estimate == (Left(k) \div BASE ^ (k + n - 2)) \div FirstTwo
           digit == Left(k) \div (b * norm * BASE ^ k)
       IN digit = IF estimate < BASE THEN estimate ELSE BASE - 1

(* divmod() computes in digits of half a word and guesses each one from the *)
(* first digits of its operands.  The quotient is the one that rounds to    *)
(* zero, for every sign of the operands, and the remainder of a division by *)
(* a positive number belongs to it, where the divisor has one or two        *)
(* digits or the estimates are right.  The quotient by a divisor of four    *)
(* digits is right even where the divisor had to be added back.             *)
DivisionExact ==
  rval # huge_zero =>
    LET a == SVal(lval)
        b == SVal(rval)
        right == Absolute(b) < WORD \/ EstimatesRight(Absolute(a), Absolute(b))
    IN /\ op = "DIV" /\ (right \/ Absolute(b) >= WORD * BASE) => Stands(result, Truncated(a, b))
       /\ op = "MOD" /\ b > 0 /\ right => Stands(result, a - b * Truncated(a, b))

(* A shift moves the bits over the boundary between the words, for every    *)
(* count that is not undefined; RSH keeps the sign, RSHU does not.          *)
ShiftExact == op \in {"LSH", "RSH", "RSHU"} =>
  LET pow == 2 ^ huge_to_int(rval)
  IN /\ op = "LSH" => UVal(result) = (UVal(lval) % (Modulo \div pow)) * pow
     /\ op = "RSH" => Stands(result, SVal(lval) \div pow)
     /\ op = "RSHU" => Stands(result, UVal(lval) \div pow)

(* A field of n bits takes the unsigned numbers of n bits and the negative  *)
(* ones of n + 1 bits, whichever of the two words its last bit is in.       *)
RangeExact ==
  op = "RANGE" => LET n == SVal(rval) IN
    (result <=> n = HUGEBITS \/ SVal(lval) \in -(2 ^ n)..2 ^ n - 1)


-----------------------------------------------------------------------------
(* What the documents say of these operations, and the code does not do:    *)
(* TLC refutes each of them, and no run has it.                             *)

(* A literal is read exactly whatever its base: "taddr overflow, read a     *)
(* thuge value instead" (expr.c:134).                                       *)
LiteralExact == ReadExactly

(* Numbers of the full width are added and subtracted (doc/vasm_main.texi:  *)
(* 255, 299), negative right operands included.                             *)
SignedSumExact ==
  /\ op = "ADD" => Stands(result, SVal(lval) + SVal(rval))
  /\ op = "SUB" => Stands(result, SVal(lval) - SVal(rval))

(* They are multiplied, where the product fits (doc/vasm_main.texi:255,     *)
(* 298); of numbers up to the square root of the largest one it does.       *)
ProductExact ==
  op = "MUL" /\ UVal(lval) < WORD /\ UVal(rval) < WORD =>
    Stands(result, UVal(lval) * UVal(rval))

(* And "modulo" is what is left of a division of positive numbers           *)
(* (doc/vasm_main.texi:255, 298).                                           *)
RemainderExact ==
  op = "MOD" /\ ~HUGESIGN(lval) /\ SVal(rval) > 0 =>
    UVal(result) = UVal(lval) % UVal(rval)

(* "check if huge-int can be represented by bits, signed or unsigned"       *)
(* (hugeint.c:125).                                                         *)
SignedOrUnsigned ==
  op = "RANGE" => LET n == SVal(rval) IN
    (result <=> n = HUGEBITS \/ SVal(lval) \in -(2 ^ (n - 1))..2 ^ n - 1)

=============================================================================
