-------------------------------- MODULE M68k --------------------------------
(***************************************************************************)
(* What the instructions that the m68k optimiser takes in and gives out do  *)
(* to the processor, so far as its results are judged by it: registers,     *)
(* memory and condition codes.  This is the processor, not the assembler;   *)
(* only the operand with its addressing mode is a type of the source.       *)
(*                                                                         *)
(* A longword is the pair of its halves, since it exceeds TLC's integers.   *)
(***************************************************************************)
EXTENDS Integers, Sequences, Bitwise

CONSTANT MEM                       \* the bytes of memory, addresses wrap around
ASSUME MEMAssumption == MEM \in Nat \ {0}

Longword(n) == <<(n \div 65536) % 65536, n % 65536>>
Bytes(sz) == [b |-> 1, w |-> 2, l |-> 4][sz]

(* The part of x of a size, its sign, and its extension to a longword.      *)
Part(sz, x) == IF sz = "l" THEN x ELSE <<0, x[2] % 256^Bytes(sz)>>
Minus(sz, x) == IF sz = "l" THEN x[1] >= 32768 ELSE Part(sz, x)[2] >= 256^Bytes(sz) \div 2
Extend(sz, x) ==
  IF sz # "l" /\ Minus(sz, x) THEN <<65535, 65536 - 256^Bytes(sz) + Part(sz, x)[2]>> ELSE Part(sz, x)

Complement(x) == <<65535 - x[1], 65535 - x[2]>>
Add(x, y) == <<(x[1] + y[1] + (x[2] + y[2]) \div 65536) % 65536, (x[2] + y[2]) % 65536>>
Neg(x) == Add(Complement(x), <<0, 1>>)
ShiftLeft(x, k) == <<(x[1] * 2^k + (x[2] * 2^k) \div 65536) % 65536, (x[2] * 2^k) % 65536>>
Div(x, n) == <<x[1] \div n, ((x[1] % n) * 65536 + x[2]) \div n>>
Rem(x, n) == ((x[1] % n) * 65536 + x[2]) % n

(* Division towards zero, of a signed x by 1 or -1, or of an unsigned one.  *)
Quotient(x, n) == IF n < 0 THEN Neg(x) ELSE Div(x, n)

-----------------------------------------------------------------------------
(* Operands: mode and reg as in the source, regs a MOVEM list, ex the value *)
(* of the expression, val what was evaluated last (extval[0]).              *)

Operand(mode, reg, n) ==
  [mode |-> mode, reg |-> reg, idx |-> "", regs |-> {}, ex |-> n, val |-> n, abs |-> TRUE,
   keep |-> FALSE, noopt |-> FALSE]
NoOperand == Operand("none", "", 0)
Dn(r) == Operand("Dn", r, 0)
An(r) == Operand("An", r, 0)
Imm(n) == Operand("#", "", n)
RnList(rs) == [Operand("list", "", 0) EXCEPT !.regs = rs]

Ins(op, ext, src, dst) == [op |-> op, ext |-> ext, src |-> src, dst |-> dst]

DataRegs == {"d0", "d1"}
AddrRegs == {"a0", "a1", "a7"}
RegOrder == <<"d0", "d1", "a0", "a1", "a7">>      \* of a MOVEM list

-----------------------------------------------------------------------------
(* A processor: r its registers, m its memory, f its condition codes.       *)

(* An address register may stand for its longword's low half only, the      *)
(* memory is small.                                                         *)
Address(o, p) ==
  CASE o.mode \in {"abs.w", "abs.l"} -> o.val % MEM
    [] o.mode \in {"(d,An)", "(bd,An)"} -> Add(p.r[o.reg], Longword(o.val))[2] % MEM
    [] o.mode = "(d,An,Xn)" -> Add(Add(p.r[o.reg], p.r[o.idx]), Longword(o.val))[2] % MEM
    [] OTHER -> p.r[o.reg][2] % MEM

ByteAt(p, a) == p.m[a % MEM]
Fetch(p, a, sz) ==
  CASE sz = "b" -> <<0, ByteAt(p, a)>>
    [] sz = "w" -> <<0, 256 * ByteAt(p, a) + ByteAt(p, a + 1)>>
    [] sz = "l" -> <<256 * ByteAt(p, a) + ByteAt(p, a + 1), 256 * ByteAt(p, a + 2) + ByteAt(p, a + 3)>>
Store(p, a, sz, x) ==
  LET byte == [k \in 0..3 |-> (x[IF k < 2 THEN 2 ELSE 1] \div 256^(k % 2)) % 256]
  IN  [p EXCEPT !.m = [b \in DOMAIN @ |->
         IF (b - a) % MEM < Bytes(sz) THEN byte[Bytes(sz) - 1 - ((b - a) % MEM)] ELSE @[b]]]

Bump(p, r, n) == [p EXCEPT !.r[r] = Add(@, Longword(n))]
Before(p, o, sz) == IF o.mode = "-(An)" THEN Bump(p, o.reg, -Bytes(sz)) ELSE p
After(p, o, sz) == IF o.mode = "(An)+" THEN Bump(p, o.reg, Bytes(sz)) ELSE p

Get(p, o, sz) ==
  CASE o.mode = "#" -> Part(sz, Longword(o.val))
    [] o.mode \in {"Dn", "An"} -> Part(sz, p.r[o.reg])
    [] OTHER -> Fetch(p, Address(o, p), sz)

(* An address register is always written whole.                             *)
Put(p, o, sz, x) ==
  CASE o.mode = "An" -> [p EXCEPT !.r[o.reg] = Extend(sz, x)]
    [] o.mode = "Dn" -> [p EXCEPT !.r[o.reg] =
         IF sz = "l" THEN x ELSE <<@[1], @[2] - Part(sz, @)[2] + Part(sz, x)[2]>>]
    [] OTHER -> Store(p, Address(o, p), sz, x)

-----------------------------------------------------------------------------
(* Condition codes of a result of a size.                                   *)

Tested(p, sz, x) ==
  [p EXCEPT !.f.n = Minus(sz, x), !.f.z = Part(sz, x) = <<0, 0>>, !.f.v = FALSE, !.f.c = FALSE]

(* Of x = d + s and of x = d - s: carry and overflow by the signs.          *)
Summed(p, sz, s, d, x) ==
  LET S == Minus(sz, s)  D == Minus(sz, d)  X == Minus(sz, x)
      carry == (S /\ D) \/ (~X /\ (S \/ D))
  IN  [Tested(p, sz, x) EXCEPT !.f.v = (S = D) /\ X # S, !.f.c = carry, !.f.x = carry]
Compared(p, sz, s, d, x) ==
  LET S == Minus(sz, s)  D == Minus(sz, d)  X == Minus(sz, x)
  IN  [Tested(p, sz, x) EXCEPT !.f.v = S # D /\ X = S, !.f.c = (S /\ ~D) \/ (X /\ (~D \/ S))]
Subtracted(p, sz, s, d, x) ==
  LET q == Compared(p, sz, s, d, x) IN [q EXCEPT !.f.x = q.f.c]

Shifted(p, sz, d, k, arithmetic) ==
  LET out == Minus(sz, ShiftLeft(d, k - 1))
  IN  [Tested(p, sz, ShiftLeft(d, k)) EXCEPT !.f.c = out, !.f.x = out,
         !.f.v = arithmetic /\ \E j \in 1..k : Minus(sz, ShiftLeft(d, j)) # Minus(sz, d)]

-----------------------------------------------------------------------------
(* MOVEM: one effective address for all registers; words are extended.      *)

Listed(regs) == SelectSeq(RegOrder, LAMBDA r : r \in regs)

MoveFrom(p, o, sz, regs) ==
  LET a == Address(o, p)
      order == Listed(regs)
      at(r) == Bytes(sz) * ((CHOOSE k \in DOMAIN order : order[k] = r) - 1)
      q == [p EXCEPT !.r = [r \in DOMAIN @ |-> IF r \in regs THEN Extend(sz, Fetch(p, a + at(r), sz)) ELSE @[r]]]
  IN  IF o.mode = "(An)+" THEN [q EXCEPT !.r[o.reg] = Add(p.r[o.reg], Longword(Bytes(sz) * Len(order)))] ELSE q

MoveTo(p, o, sz, regs) ==
  LET order == Listed(regs)
      q == IF o.mode = "-(An)" THEN Bump(p, o.reg, -Bytes(sz) * Len(order)) ELSE p
      a == Address(o, q)
      stored[k \in 0..Len(order)] ==
        IF k = 0 THEN q ELSE Store(stored[k - 1], a + Bytes(sz) * (k - 1), sz, p.r[order[k]])
  IN  stored[Len(order)]

-----------------------------------------------------------------------------
(* The processor after one instruction.                                     *)
Execute(p, i) ==
  LET sz == i.ext
      from == Before(p, i.src, sz)
      s == Get(from, i.src, sz)
      to == Before(After(from, i.src, sz), i.dst, sz)
      d == Get(to, i.dst, sz)
      into(x) == After(Put(to, i.dst, sz, x), i.dst, sz)
      test(x) == Tested(into(x), sz, x)
      long(x) == Tested(Put(to, i.dst, "l", x), "l", x)
      address(x) == [to EXCEPT !.r[i.dst.reg] = x]
      by == i.src.val                       \* of an immediate operand
      count == IF i.src.mode = "none" THEN 1 ELSE by
      product(x) == Add(Longword(x[2] * by), <<(x[1] * by) % 65536, 0>>)
      whole == to.r[i.dst.reg]
      quotient == Quotient(whole, by)
  IN
  CASE i.op = "move" -> IF i.dst.mode = "An" THEN into(s) ELSE test(s)
    [] i.op = "movea" -> address(Extend(sz, s))
    [] i.op \in {"moveq", "mov3q"} -> IF i.dst.mode = "An" THEN into(s) ELSE test(s)
    [] i.op = "clr" -> test(<<0, 0>>)
    [] i.op = "st" -> into(<<0, 255>>)
    [] i.op = "pea" -> LET down == Bump(p, "a7", -4)
                       IN  Store(down, down.r["a7"][2], "l", Longword(i.dst.val))
    [] i.op = "lea" -> address(IF i.src.mode \in {"abs.w", "abs.l"} THEN Longword(by)
                               ELSE IF i.src.mode = "(An)" THEN p.r[i.src.reg]
                               ELSE Add(p.r[i.src.reg], Longword(by)))
    [] i.op \in {"add", "addi", "addq"} /\ i.dst.mode # "An" -> Summed(into(Add(d, s)), sz, s, d, Add(d, s))
    [] i.op \in {"sub", "subi", "subq"} /\ i.dst.mode # "An" -> Subtracted(into(Add(d, Neg(s))), sz, s, d, Add(d, Neg(s)))
    [] i.op \in {"adda", "addq"} -> address(Add(whole, Extend(sz, s)))
    [] i.op \in {"suba", "subq"} -> address(Add(whole, Neg(Extend(sz, s))))
    [] i.op = "cmpa" -> Compared(to, "l", Extend(sz, s), whole, Add(whole, Neg(Extend(sz, s))))
    [] i.op \in {"cmp", "cmpi"} -> Compared(After(to, i.dst, sz), sz, s, d, Add(d, Neg(s)))
    [] i.op = "tst" -> Tested(After(to, i.dst, sz), sz, d)
    [] i.op \in {"and", "andi"} -> test(<<d[1] & s[1], d[2] & s[2]>>)
    [] i.op \in {"or", "ori"} -> test(<<d[1] | s[1], d[2] | s[2]>>)
    [] i.op = "eori" -> test(<<d[1] ^^ s[1], d[2] ^^ s[2]>>)
    [] i.op = "not" -> test(Part(sz, Complement(d)))
    [] i.op = "neg" -> Subtracted(into(Neg(d)), sz, d, <<0, 0>>, Neg(d))
    [] i.op = "swap" -> long(<<whole[2], whole[1]>>)
    [] i.op = "ext" -> long(Extend("w", whole))
    [] i.op = "mvz" -> long(s)
    [] i.op = "mvs" -> long(Extend(sz, s))
    [] i.op \in {"asl", "lsl"} -> Shifted(into(ShiftLeft(d, count)), sz, d, count, i.op = "asl")
    [] i.op = "lsr" -> long(Div(whole, 2^count))
    [] i.op = "muls" -> long(product(IF sz = "w" THEN Extend("w", whole) ELSE whole))
    [] i.op = "mulu" -> long(product(Part(sz, whole)))
    [] i.op \in {"divs", "divu"} /\ sz = "l" -> long(quotient)
    [] i.op \in {"divs", "divu"} /\ sz = "w" ->
         IF quotient # IF i.op = "divs" THEN Extend("w", quotient) ELSE Part("w", quotient)
         THEN [to EXCEPT !.f.v = TRUE]      \* overflow: the operand is left alone
         ELSE Tested(Put(to, i.dst, "l", <<Rem(whole, IF by < 0 THEN -by ELSE by), quotient[2]>>), "w", quotient)
    [] i.op = "movem" -> IF i.dst.mode = "list" THEN MoveFrom(p, i.src, sz, i.dst.regs)
                         ELSE MoveTo(p, i.dst, sz, i.src.regs)

(* The processor after a list of instructions.                              *)
Run(p, is) ==
  LET after[k \in 0..Len(is)] == IF k = 0 THEN p ELSE Execute(after[k - 1], is[k])
  IN  after[Len(is)]

=============================================================================
