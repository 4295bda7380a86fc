------------------------------ MODULE HugeInt ------------------------------
(***************************************************************************)
(* hugeint.c: integers of 128 bits, made of two words that are unsigned and *)
(* wrap, for constants and expressions that do not fit into an address.     *)
(* The width is a parameter: a word is two halves of HALF_BITS bits.        *)
(*                                                                         *)
(* The bitwise operators and the conversions to and from floating point and *)
(* memory are left out.  A shift by HUGEBITS or more, or by a negative      *)
(* number, is undefined in the code: it is for the caller to exclude.       *)
(***************************************************************************)
EXTENDS Integers, Sequences, SequencesExt

CONSTANT HALF_BITS      \* 32 in the code

ASSUME HugeIntAssumption == HALF_BITS \in Nat \ {0}

HUGEBITS == 4 * HALF_BITS
WORDBITS == HUGEBITS \div 2
BASE == 2 ^ HALF_BITS
WORD == BASE * BASE

HIHALF(x) == x \div BASE
LOHALF(x) == x % BASE
COMBINE(a, b) == a * BASE + b

Words == 0..WORD - 1
thuge == [hi : Words, lo : Words]

Huge(h, l) == [hi |-> h % WORD, lo |-> l % WORD]

(* What a thuge stands for, unsigned and signed.                            *)
UVal(a) == a.hi * WORD + a.lo
HUGESIGN(a) == a.hi >= WORD \div 2
SVal(a) == IF HUGESIGN(a) THEN UVal(a) - WORD * WORD ELSE UVal(a)

(* A word as a signed number.                                               *)
SWord(w) == IF w >= WORD \div 2 THEN w - WORD ELSE w

huge_zero == Huge(0, 0)
huge_from_int(i) == Huge(IF i < 0 THEN -1 ELSE 0, i)
huge_to_int(a) == SWord(a.lo)

hneg(a) == Huge(IF a.lo # 0 THEN -a.hi - 1 ELSE -a.hi, -a.lo)
hcpl(a) == Huge(WORD - 1 - a.hi, WORD - 1 - a.lo)

haddi(a, b) ==
  LET lo == (a.lo + b) % WORD
  IN IF b < 0 THEN Huge(IF lo > a.lo THEN a.hi - 1 ELSE a.hi, lo)
              ELSE Huge(IF lo < a.lo THEN a.hi + 1 ELSE a.hi, lo)

hadd(a, b) ==
  LET lo == (a.lo + b.lo) % WORD
      hi == a.hi + b.hi
  IN IF HUGESIGN(b) THEN Huge(IF lo > a.lo THEN hi - 1 ELSE hi, lo)
                    ELSE Huge(IF lo < a.lo THEN hi + 1 ELSE hi, lo)

hsub(a, b) ==
  LET lo == (a.lo - b.lo) % WORD
      hi == a.hi - b.hi
  IN IF HUGESIGN(b) THEN Huge(IF lo < a.lo THEN hi + 1 ELSE hi, lo)
                    ELSE Huge(IF lo > a.lo THEN hi - 1 ELSE hi, lo)

hcmp(a, b) ==
  LET c == hsub(a, b)
  IN IF c = huge_zero THEN 0 ELSE IF HUGESIGN(c) THEN -1 ELSE 1

(* The arithmetic shift: \div rounds down, as it does.                      *)
hshra(a, b) ==
  IF b >= WORDBITS
    THEN Huge(IF HUGESIGN(a) THEN -1 ELSE 0, SWord(a.hi) \div 2 ^ (b - WORDBITS))
    ELSE Huge(SWord(a.hi) \div 2 ^ b,
              ((a.hi * 2 ^ (WORDBITS - b)) % WORD) + a.lo \div 2 ^ b)

hshr(a, b) ==
  IF b >= WORDBITS
    THEN Huge(0, a.hi \div 2 ^ (b - WORDBITS))
    ELSE Huge(a.hi \div 2 ^ b,
              ((a.hi * 2 ^ (WORDBITS - b)) % WORD) + a.lo \div 2 ^ b)

hshl(a, b) ==
  IF b >= WORDBITS
    THEN Huge(a.lo * 2 ^ (b - WORDBITS), 0)
    ELSE Huge(a.lo \div 2 ^ (WORDBITS - b) + a.hi * 2 ^ b, a.lo * 2 ^ b)

(* The carry out of the low word is computed from the product of the high   *)
(* halves, tmp, as the code does.                                           *)
hmul(a, b) ==
  LET cross == HIHALF(a.lo) * LOHALF(b.lo)
      carry == (cross + LOHALF(a.lo) * HIHALF(b.lo)) % WORD
      tmp == HIHALF(a.lo) * HIHALF(b.lo)
  IN Huge(a.hi * b.lo + b.hi * a.lo
            + (IF carry < cross THEN BASE ELSE 0) + HIHALF(carry) + tmp
            + (IF (tmp + carry * BASE) % WORD < tmp THEN 1 ELSE 0),
          a.lo * b.lo)

hmuli(a, b) ==
  LET ub == b % WORD
      cross == HIHALF(a.lo) * LOHALF(ub)
      carry == (cross + LOHALF(a.lo) * HIHALF(ub)) % WORD
      tmp == HIHALF(a.lo) * HIHALF(ub)
  IN Huge(a.hi * ub + (IF carry < cross THEN BASE ELSE 0) + HIHALF(carry) + tmp
            + (IF (tmp + carry * BASE) % WORD < tmp THEN 1 ELSE 0),
          a.lo * ub)

(* What a value has left above the given number of bits.                    *)
HighBits(w, bits) == w \div 2 ^ bits

(* All the bits above are zero, or all of them are set.                     *)
huge_chkrange(h, bits) ==
  IF bits >= HUGEBITS THEN TRUE
  ELSE IF bits >= WORDBITS
    THEN HighBits(h.hi, bits - WORDBITS) \in {0, 2 ^ (HUGEBITS - bits) - 1}
    ELSE \/ h.hi = 0 /\ HighBits(h.lo, bits) = 0
         \/ h.hi = WORD - 1 /\ HighBits(h.lo, bits) = 2 ^ (WORDBITS - bits) - 1

-----------------------------------------------------------------------------
(* divmod(): long division with digits of HALF_BITS bits, the most          *)
(* significant first.                                                       *)

Digits(h) == <<HIHALF(h.hi), LOHALF(h.hi), HIHALF(h.lo), LOHALF(h.lo)>>
FromDigits(s) == Huge(COMBINE(s[1], s[2]), COMBINE(s[3], s[4]))

(* A number without its leading zero digits, padded in front to a length.   *)
SignificantDigits(h) ==
  LET s == Digits(h)
      first == CHOOSE i \in 1..4 : s[i] # 0 /\ \A j \in 1..i - 1 : s[j] = 0
  IN SubSeq(s, first, 4)
Padded(s, len) == [i \in 1..len - Len(s) |-> 0] \o s

(* By one digit: the remainder and the digits of the quotient so far.       *)
ShortDivision(a, t) ==
  FoldLeft(LAMBDA r, u :
             [q |-> Append(r.q, COMBINE(r.rest, u) \div t),
              rest |-> COMBINE(r.rest, u) % t],
           [q |-> <<>>, rest |-> 0], Digits(a))

(* The shift that sets the highest bit of the first digit of the divisor.   *)
Normalization(v1) ==
  CHOOSE d \in 0..HALF_BITS - 1 : BASE \div 2 <= v1 * 2 ^ d /\ v1 * 2 ^ d < BASE

shift_digits(p, sh) ==
  [i \in DOMAIN p |-> ((p[i] * 2 ^ sh) % BASE)
     + (IF i < Len(p) THEN p[i + 1] \div 2 ^ (HALF_BITS - sh) ELSE 0)]

(* The digit of the quotient as it is guessed from the first three digits   *)
(* u and the first two of the divisor.  v1 has its highest bit set, so that *)
(* the loop ends after two corrections at most.                             *)
TooBig(qhat, rhat, u, v) == (v[2] * qhat) % WORD > COMBINE(rhat, u[3])
Corrected(qhat, rhat, u, v) ==
  IF rhat + v[1] >= BASE \/ ~TooBig(qhat - 1, rhat + v[1], u, v)
    THEN qhat - 1 ELSE qhat - 2


Guess(u, v) ==
  LET qhat == COMBINE(u[1], u[2]) \div v[1]
      rhat == COMBINE(u[1], u[2]) % v[1]
  IN IF u[1] = v[1] THEN Corrected(BASE, u[2], u, v)
     ELSE IF TooBig(qhat, rhat, u, v) THEN Corrected(qhat, rhat, u, v)
     ELSE qhat

(* u - v * qhat with a borrow, from the last digit to the first; u has one  *)
(* digit more.                                                              *)
MultiplySubtract(u, v, qhat) ==
  LET n == Len(v)
      t[i \in 0..n] ==
        (u[i + 1] - (IF i = 0 THEN 0 ELSE v[i] * qhat)
           - (IF i = n THEN 0 ELSE (BASE - HIHALF(t[i + 1])) % BASE)) % WORD
  IN [borrow |-> HIHALF(t[0]) # 0, u |-> [i \in 1..n + 1 |-> LOHALF(t[i - 1])]]

(* u + v, when the guess was too big.  The sum of two digits is a digit: its *)
(* carry is lost before it is added to the wider t.                         *)
AddBack(u, v) ==
  LET n == Len(v)
      t[i \in 0..n] ==
        IF i = 0 THEN u[1] + HIHALF(t[1])
        ELSE ((u[i + 1] + v[i]) % BASE) + (IF i = n THEN 0 ELSE HIHALF(t[i + 1]))
  IN [i \in 1..n + 1 |-> LOHALF(t[i - 1])]

(* One digit of the quotient, for the n + 1 digits of u from position j.    *)
DivideStep(s, v, j) ==
  LET n == Len(v)
      window == SubSeq(s.u, j, j + n)
      qhat == Guess(window, v)
      sub == MultiplySubtract(window, v, qhat)
      left == IF sub.borrow THEN AddBack(sub.u, v) ELSE sub.u
  IN [q |-> Append(s.q, LOHALF(IF sub.borrow THEN qhat - 1 ELSE qhat)),
      u |-> SubSeq(s.u, 1, j - 1) \o left \o SubSeq(s.u, j + n + 1, Len(s.u))]

(* The digits that are left, behind those that the division has used up, are *)
(* shifted back.  Nothing is done where no shift was needed.                *)
ShiftedBack(u, used, d) ==
  IF d = 0 THEN u
  ELSE [i \in DOMAIN u |->
          IF i < used THEN u[i] ELSE IF i = used THEN 0
          ELSE u[i] \div 2 ^ d + LOHALF(u[i - 1] * 2 ^ (HALF_BITS - d))]

LongDivision(a, b) ==
  LET v0 == SignificantDigits(b)
      u0 == <<0>> \o SignificantDigits(a)
      d == Normalization(v0[1])
      v == shift_digits(v0, d)
      steps == [j \in 1..Len(u0) - Len(v) |-> j]
      s == FoldLeft(LAMBDA r, j : DivideStep(r, v, j),
                    [q |-> <<>>, u |-> shift_digits(u0, d)], steps)
      rest == Padded(ShiftedBack(s.u, Len(s.u) - Len(v), d), 5)
  IN [q |-> FromDigits(Padded(s.q, 4)), rest |-> FromDigits(Tail(rest))]

(* The quotient and the remainder of unsigned numbers, b not zero.          *)
divmod(a, b) ==
  IF UVal(a) < UVal(b) THEN [q |-> huge_zero, rest |-> a]
  ELSE IF Len(SignificantDigits(b)) = 1
    THEN LET s == ShortDivision(a, b.lo)
         IN [q |-> FromDigits(s.q), rest |-> Huge(0, s.rest)]
    ELSE LongDivision(a, b)

Abs(a) == IF HUGESIGN(a) THEN hneg(a) ELSE a
NegIf(neg, a) == IF neg THEN hneg(a) ELSE a

hdiv(a, b) == NegIf(HUGESIGN(a) # HUGESIGN(b), divmod(Abs(a), Abs(b)).q)
hmod(a, b) == NegIf(HUGESIGN(a) # HUGESIGN(b), divmod(Abs(a), Abs(b)).rest)

=============================================================================
