------------------------------ MODULE Optimize ------------------------------
(***************************************************************************)
(* optimize_instruction(): one instruction, with the options and the        *)
(* processor selected for it.  It is optimised twice, as vasm.c does it:    *)
(* by instruction_size() on a copy, to find its size, and by                *)
(* eval_instruction(), "final", to generate the code.                       *)
(*                                                                         *)
(* A pass evaluates the operands and goes through two stages: stage 1 for   *)
(* the multiplications, stage 2 for what they became and all else; the      *)
(* result is a list of instructions.  Left out: branches and jumps (see     *)
(* Atoms), floating point, small data, pc-relative and memory indirect      *)
(* operands, and who frees an expression.                                   *)
(***************************************************************************)
EXTENDS M68k, FiniteSets

CONSTANTS
  Code,           \* the instructions of the source
  OptionSets,     \* the options that may be on, as sets of names
  Cpus,           \* the processors
  Processors      \* the states of a processor that the code is judged by

VARIABLES
  prog,           \* the instruction in the source
  opts, cpu,      \* opt_..., cpu_type
  final,          \* FALSE in instruction_size(), TRUE in eval_instruction()
  stage,          \* 1, 2, 3, or 0 when the code is written
  list,           \* iplist
  at,             \* ip: which of the list stage 2 and what follows look at
  val,            \* its first operand's value
  sized           \* what instruction_size() returned

vars == <<prog, opts, cpu, final, stage, list, at, val, sized>>

m68010up == {"m68010", "m68020", "m68030", "m68040", "m68060"}
m68020up == m68010up \ {"m68010"}
mcf_bc == {"mcfb", "mcfc"}
mcf == {"mcfa"} \cup mcf_bc

On(o) == o \in opts
Size16(n) == n \in -32768..32767
Quick == {"moveq", "addq", "subq", "mov3q", "asl", "lsl", "lsr"}

(* The instructions the ColdFire has for longwords only.                    *)
ColdFireLong == {"add", "addi", "adda", "addq", "sub", "subi", "suba", "subq", "and", "andi",
                 "or", "ori", "eori", "neg", "not", "asl", "lsl", "lsr"}

(* The mnemonics table: what the processor has.                             *)
Available(i) ==
  /\ i.op \in {"mvz", "mvs", "mov3q"} => cpu \in mcf_bc
  /\ i.op = "tst" /\ i.dst.mode = "An" => cpu \in m68020up \cup mcf
  /\ i.op \in {"muls", "mulu", "divs", "divu"} /\ i.ext = "l" => cpu \in m68020up \cup mcf
  /\ cpu \in mcf =>
       /\ i.op \in ColdFireLong => i.ext = "l"
       /\ i.op \in {"addi", "subi", "andi", "ori", "eori", "neg", "not", "asl", "lsl", "lsr", "st"} => i.dst.mode = "Dn"
       /\ i.op \in {"cmp", "cmpi"} => i.dst.mode = "Dn"
       /\ i.op = "movem" => {i.src.mode, i.dst.mode} \subseteq {"(An)", "(d,An)", "list"}

oper_size(i, o) ==
  CASE o.mode \in {"(d,An)", "(d,An,Xn)", "abs.w"} -> 2
    [] o.mode = "abs.l" -> 4
    [] o.mode = "(bd,An)" -> 6
    [] o.mode = "#" /\ i.op \notin Quick -> IF i.ext = "l" THEN 4 ELSE 2
    [] OTHER -> 0

ip_size(i) ==
  (IF i.op = "movem" \/ (i.op \in {"muls", "mulu", "divs", "divu"} /\ i.ext = "l") THEN 4 ELSE 2)
    + oper_size(i, i.src) + oper_size(i, i.dst)

iplist_size(is) ==
  LET total[k \in 0..Len(is)] == IF k = 0 THEN 0 ELSE total[k - 1] + ip_size(is[k])
  IN  total[Len(is)]

-----------------------------------------------------------------------------
(* Operands.                                                                *)

(* The value is evaluated again from the expression, unless FL_DoNotEval.   *)
optimize_oper(o) ==
  LET e == IF o.keep THEN o ELSE [o EXCEPT !.val = o.ex]
  IN  CASE o.noopt -> e
        [] e.mode = "(d,An)" /\ On("disp") /\ e.abs /\ e.val = 0 -> [e EXCEPT !.mode = "(An)"]
        [] e.mode = "(d,An)" /\ e.abs /\ ~Size16(e.val) /\ cpu \in m68020up -> [e EXCEPT !.mode = "(bd,An)"]
        [] e.mode = "abs.w" /\ e.abs /\ ~Size16(e.val) -> [e EXCEPT !.mode = "abs.l"]
        [] e.mode = "abs.l" /\ e.abs /\ Size16(e.val) /\ On("abs") -> [e EXCEPT !.mode = "abs.w"]
        [] OTHER -> e

Evaluated(i) == [i EXCEPT !.src = optimize_oper(@), !.dst = optimize_oper(@)]

(* A new value for an operand: the final pass makes it an expression.       *)
WithValue(o, n) ==
  IF final THEN [o EXCEPT !.ex = n, !.val = n] ELSE [o EXCEPT !.keep = TRUE, !.val = n]

Single(op, ext, o) == Ins(op, ext, NoOperand, o)
Dual(op, ext, r) == Ins(op, ext, Dn(r), Dn(r))

-----------------------------------------------------------------------------
(* Stage 1: muls and mulu.                                                  *)

Powers == {2^k : k \in 1..8}
lsbit(n) == CHOOSE k \in 0..14 : n % 2^k = 0 /\ n % 2^(k + 1) # 0
msbit(n) == CHOOSE k \in 0..14 : 2^k <= n /\ n < 2^(k + 1)

Multiply(i) ==
  LET v == i.src.val   d == i.dst   w == i.ext = "w"   signed == i.op = "muls"
      shift(n) == Ins(IF signed THEN "asl" ELSE "lsl", "l", WithValue(i.src, lsbit(n)), d)
      extend == Single("ext", "l", d)
      negate == Single("neg", "l", d)
  IN
  CASE v = 0 -> <<[i EXCEPT !.op = "moveq", !.ext = "l"]>>
    [] v = 1 /\ w /\ signed -> <<extend>>
    [] v = 1 /\ w /\ ~signed /\ cpu \in mcf_bc -> <<[i EXCEPT !.op = "mvz", !.src = d]>>
    [] v = 1 /\ ~w -> <<Single("tst", "l", d)>>
    [] v = -1 /\ signed /\ w /\ On("speed") -> <<extend, negate>>
    [] v = -1 /\ signed /\ ~w -> <<negate>>
    [] v \in Powers /\ w /\ signed /\ On("speed") -> <<extend, shift(v)>>
    [] v \in Powers /\ w /\ ~signed /\ On("speed") /\ cpu \in mcf_bc -> <<Dual("mvz", "w", d.reg), shift(v)>>
    [] v \in Powers /\ ~w -> <<shift(v)>>
    [] -v \in Powers /\ signed /\ w /\ On("speed") -> <<extend, shift(-v), negate>>
    [] -v \in Powers /\ signed /\ ~w /\ On("speed") -> <<shift(-v), negate>>
    [] OTHER -> <<i>>


-----------------------------------------------------------------------------
(* Stage 2: what each instruction becomes.                                  *)

Fits(n, sz) == n \in CASE sz = "b" -> {255} [] sz = "w" -> {65535} [] sz = "l" -> {-1}
Clear == cpu \in m68010up \cup mcf \/ On("clr")

Becomes(i, op) == <<[i EXCEPT !.op = op]>>
OnDestination(i, op) == <<Single(op, i.ext, i.dst)>>

(* A MOVEQ of n, and the instruction that makes it the value wanted.        *)
MoveqThen(i, n, next) == <<Ins("moveq", "l", WithValue(i.src, n), i.dst), next>>
Int16_MutUnsigned(n) == n % 65536
Int16(n) == LET w == n % 65536 IN IF w >= 32768 THEN w - 65536 ELSE w

MoveImmediate(i) ==
  LET v == i.src.val
      toAn == i.op = "movea"
      long == i.src.abs /\ i.ext = "l"
      moveq == On("moveq") /\ long /\ i.dst.mode = "Dn"
      nmovq == On("nmovq") /\ long /\ i.dst.mode = "Dn" /\ cpu \notin {"m68040"} \cup mcf
      n == msbit(v) - 6
  IN
  CASE moveq /\ v \in -128..127 -> <<Ins("moveq", "l", i.src, i.dst)>>
    [] moveq /\ (cpu \notin {"m68040"} \cup mcf \/ On("size")) /\ v % 2 = 0 /\ v \in 128..254 \cup -256..-130 ->
         MoveqThen(i, v \div 2, Dual("add", IF cpu \in mcf THEN "l" ELSE "w", i.dst.reg))
    [] nmovq /\ v \in 128..255 -> MoveqThen(i, 255 - v, Single("not", "b", i.dst))
    [] moveq /\ cpu # "m68040" /\ \/ v % 65536 = 0 /\ v \in 65536..8323072
                                  \/ v % 65536 = 65535 /\ v \in -8323073..-65537 ->
         MoveqThen(i, v \div 65536, Single("swap", "w", i.dst))
    [] nmovq /\ v \in 65409..65535 \cup -65535..-65408 -> MoveqThen(i, -Int16(v), Single("neg", "w", i.dst))
    [] moveq /\ On("size") /\ cpu \notin mcf /\ v \in 1..32767 /\ msbit(v) - lsbit(v) < 7 ->
         MoveqThen(i, v \div 2^n, Ins("lsl", "w", WithValue([Imm(n) EXCEPT !.noopt = TRUE], n), i.dst))
    [] On("gen") /\ i.src.abs /\ v = 0 /\ ~toAn /\ Clear -> OnDestination(i, "clr")
    [] On("moveq") /\ long /\ v \in {-1} \cup 1..7 /\ cpu \in mcf_bc -> Becomes(i, "mov3q")
    [] On("st") /\ i.src.abs /\ i.ext = "b" /\ ~toAn /\ v % 256 = 255 ->
         IF cpu \notin mcf \/ i.dst.mode = "Dn" THEN OnDestination(i, "st") ELSE <<i>>
    [] On("pea") /\ i.dst.mode = "-(An)" /\ i.dst.reg = "a7" /\ i.ext = "l" ->
         IF i.src.abs /\ Size16(v) THEN <<Single("pea", "l", [i.src EXCEPT !.mode = "abs.w"])>>
         ELSE IF cpu \in {"m68000", "m68010", "m68020", "m68030"}
         THEN <<Single("pea", "l", [i.src EXCEPT !.mode = "abs.l"])>>
         ELSE <<i>>
    [] On("gen") /\ toAn /\ i.src.abs /\ v = 0 -> <<Ins("suba", "l", i.dst, i.dst)>>
    [] On("gen") /\ toAn /\ ~i.src.abs /\ i.ext = "l" -> <<Ins("lea", "l", [i.src EXCEPT !.mode = "abs.l"], i.dst)>>
    [] OTHER -> <<i>>

-----------------------------------------------------------------------------
(* MOVEM of no, one or two registers.                                       *)

AddrIndirect == {"(An)", "(An)+", "-(An)", "(d,An)", "(d,An,Xn)"}
aindir_in_list(o, modes, regs) == o.mode \in modes /\ o.reg \in regs

test_incr_ea(o, n) ==
  CASE o.mode = "(d,An)" -> Size16(o.val + n)
    [] o.mode = "(d,An,Xn)" -> o.val + n \in -128..127
    [] o.mode \in {"(An)", "(An)+", "-(An)", "abs.w", "abs.l"} -> TRUE
    [] OTHER -> FALSE

incr_ea_MutOptimised(o, n) ==
  IF o.mode = "(An)" THEN [o EXCEPT !.mode = "(d,An)", !.ex = IF final THEN n ELSE @]
  ELSE IF final /\ o.mode \in {"(d,An)", "(d,An,Xn)", "abs.w", "abs.l"} THEN [o EXCEPT !.ex = @ + n]
  ELSE o
incr_ea(o, n) ==
  IF final
  THEN CASE o.mode = "(An)" -> [o EXCEPT !.mode = "(d,An)", !.ex = n]
         [] o.mode \in {"(d,An)", "(d,An,Xn)", "abs.w", "abs.l"} -> [o EXCEPT !.ex = @ + n]
         [] OTHER -> o
  ELSE IF o.mode = "(An)" THEN [o EXCEPT !.mode = "(d,An)", !.noopt = TRUE] ELSE o

(* The flags stay as they are when only address registers are loaded.      *)
Wanted(load, regs) == On("movem") \/ (load /\ regs \subseteq AddrRegs)

(* Two moves are faster than a MOVEM.                                       *)
Worth(load, ea) ==
  \/ On("speed") /\ cpu = "m68040"
  \/ ea.mode \in {"(An)+", "-(An)"} /\ (load \/ cpu \in m68020up)

RegOperand(r) == IF r \in DataRegs THEN Dn(r) ELSE An(r)
MoveOf(i, load, r, ea) ==
  IF load THEN Ins("move", i.ext, ea, RegOperand(r)) ELSE Ins("move", i.ext, RegOperand(r), ea)

MoveRegisters(i) ==
  LET load == i.dst.mode = "list"
      regs == IF load THEN i.dst.regs ELSE i.src.regs
      ea == IF load THEN i.src ELSE i.dst
      order == Listed(regs)
      next == incr_ea(ea, Bytes(i.ext))
      first == IF ~load /\ ea.mode = "-(An)" THEN 2 ELSE 1
  IN
  CASE Len(order) = 0 -> <<>>
    [] Len(order) = 1 /\ Wanted(load, regs) /\ ~aindir_in_list(ea, {"(An)+", "-(An)"}, regs) ->
         <<MoveOf(i, load, order[1], ea)>>
    [] Len(order) = 2 /\ Wanted(load, regs) /\ Worth(load, ea) /\ ~aindir_in_list(ea, AddrIndirect, regs)
         /\ (cpu = "m68040" => test_incr_ea(ea, Bytes(i.ext))) ->
         <<MoveOf(i, load, order[first], ea), MoveOf(i, load, order[3 - first], next)>>
    [] OTHER -> <<i>>

-----------------------------------------------------------------------------
(* Arithmetic with an immediate.                                            *)

AndImmediate(i) ==
  LET v == i.src.val IN
  CASE cpu \in mcf_bc /\ i.dst.mode = "Dn" /\ i.ext = "l" /\ v \in {255, 65535} ->
         <<Dual("mvz", IF v = 255 THEN "b" ELSE "w", i.dst.reg)>>
    [] Fits(v, i.ext) -> OnDestination(i, "tst")
    [] v = 0 /\ Clear -> OnDestination(i, "clr")
    [] OTHER -> <<i>>

Inverts(i) ==
  CASE i.ext = "b" -> i.src.val % 256 = 255
    [] i.ext = "w" -> i.src.val % 65536 = 65535
    [] i.ext = "l" -> i.src.val = -1

(* ADD, SUB and their forms; for SUBA val is negated.                       *)
adds == {"add", "addi", "adda"}
AddImmediate(i) ==
  LET v == i.src.val
      n == IF i.op = "suba" THEN -v ELSE v
  IN
  CASE On("quick") /\ v \in 1..8 -> Becomes(i, IF i.op \in adds THEN "addq" ELSE "subq")
    [] i.op \notin {"adda", "suba"} -> <<i>>
    [] On("gen") /\ n = 0 -> <<>>
    [] On("lea") /\ Size16(n) ->
         <<Ins("lea", "l", [WithValue(i.src, n) EXCEPT !.mode = "(d,An)", !.reg = i.dst.reg], i.dst)>>
    [] OTHER -> <<i>>
AddLeaves(i) == IF i.op = "suba" /\ ~(On("quick") /\ i.src.val \in 1..8) THEN -i.src.val ELSE i.src.val

LoadAddress(i) ==
  LET v == i.src.val
      same == i.src.reg = i.dst.reg
      immediate == [i.src EXCEPT !.mode = "#", !.reg = ""]
  IN
  CASE i.src.mode = "(d,An)" /\ On("gen") /\ same /\ v = 0 -> <<>>
    [] i.src.mode = "(d,An)" /\ On("lquick") /\ same /\ v # 0 /\ v \in -8..8 ->
         IF v < 0 THEN <<Ins("subq", "l", IF final THEN [immediate EXCEPT !.ex = -v] ELSE immediate, i.dst)>>
         ELSE <<Ins("addq", "l", immediate, i.dst)>>
    [] i.src.mode = "(d,An)" /\ On("gen") /\ ~Size16(v) /\ cpu \notin m68020up ->
         LET add == Ins("adda", "l", [immediate EXCEPT !.noopt = TRUE], i.dst)
         IN  IF same THEN <<add>> ELSE <<Ins("movea", "l", An(i.src.reg), i.dst), add>>
    [] i.src.mode = "(An)" /\ On("gen") /\ same -> <<>>
    [] i.src.mode \in {"abs.w", "abs.l"} /\ On("gen") /\ i.src.abs /\ v = 0 ->
         <<Ins("suba", "l", i.dst, i.dst)>>
    [] OTHER -> <<i>>

CompareZero_MutAll(i) == IF i.op = "cmpa" THEN <<Single("tst", "l", i.dst)>> ELSE OnDestination(i, "tst")
CompareZero(i) ==
  IF i.op = "cmpa"
  THEN IF cpu \in m68020up \cup mcf THEN <<Single("tst", "l", i.dst)>> ELSE <<i>>
  ELSE OnDestination(i, "tst")

(* Without a count in the source the operand is the first one, not the      *)
(* second.                                                                  *)
ShiftLeftBy(i) ==
  LET counted == i.src.mode = "#"
      twice == Dual("add", i.ext, i.dst.reg)
  IN
  CASE ~counted -> <<Ins("add", i.ext, i.dst, NoOperand)>>
    [] counted /\ i.src.val = 1 -> <<twice>>
    [] counted /\ On("speed") /\ On("lsl") /\ i.src.val = 2 /\ i.ext \in {"b", "w"} -> <<twice, twice>>
    [] OTHER -> <<i>>

Divide(i) ==
  LET v == i.src.val
      log == WithValue(i.src, lsbit(v))
  IN
  CASE ~On("div") \/ v = 0 -> <<i>>
    [] i.ext = "w" /\ v = 1 /\ cpu \in mcf_bc -> <<Dual("mvz", "w", i.dst.reg)>>
    [] i.ext = "w" /\ v = -1 /\ On("speed") /\ i.op = "divs" /\ cpu \in mcf_bc ->
         <<Single("neg", "w", i.dst), Dual("mvz", "w", i.dst.reg)>>
    [] i.ext = "l" /\ v = 1 -> OnDestination(i, "tst")
    [] i.ext = "l" /\ v = -1 /\ i.op = "divs" -> OnDestination(i, "neg")
    [] i.ext = "l" /\ i.op = "divu" /\ v \in Powers -> <<Ins("lsr", "l", log, i.dst)>>
    [] OTHER -> <<i>>

Optimised(i) ==
  LET imm == i.src.mode = "#"  abs == imm /\ i.src.abs  v == i.src.val IN
  CASE i.op \in {"move", "movea"} /\ imm -> MoveImmediate(i)
    [] i.op \in {"mvs", "mvz"} /\ On("moveq") /\ abs /\ v \in (IF i.op = "mvs" THEN -128 ELSE 0)..127 ->
         <<Ins("moveq", "l", i.src, i.dst)>>
    [] i.op = "movem" /\ (On("gen") \/ On("movem")) -> MoveRegisters(i)
    [] i.op = "clr" /\ On("gen") /\ i.dst.mode = "Dn" /\ i.ext = "l" -> <<Ins("moveq", "l", Imm(0), i.dst)>>
    [] i.op \in {"and", "andi"} /\ On("gen") /\ abs -> AndImmediate(i)
    [] i.op \in {"or", "ori", "eori"} /\ On("gen") /\ abs /\ v = 0 -> OnDestination(i, "tst")
    [] i.op = "eori" /\ On("gen") /\ abs /\ v # 0 /\ Inverts(i) -> OnDestination(i, "not")
    [] i.op \in {"add", "addi", "adda", "sub", "subi", "suba"} /\ abs -> AddImmediate(i)
    [] i.op = "lea" -> LoadAddress(i)
    [] i.op \in {"cmp", "cmpi", "cmpa"} /\ On("gen") /\ abs /\ v = 0 -> CompareZero(i)
    [] i.op \in {"asl", "lsl"} /\ i.src.mode \in {"#", "none"} /\ On(IF i.op = "asl" THEN "gen" ELSE "lsl")
         /\ i.dst.mode = "Dn" /\ cpu \notin {"m68060"} \cup mcf ->
         ShiftLeftBy(i)
    [] i.op \in {"divs", "divu"} /\ abs -> Divide(i)
    [] OTHER -> <<i>>

-----------------------------------------------------------------------------
(* optimize_instruction(), for the size and then for the code.              *)

Init ==
  /\ prog \in Code /\ opts \in OptionSets /\ cpu \in Cpus
  /\ Available(prog)
  /\ final = FALSE /\ stage = 1
  /\ list = <<prog>> /\ at = 1 /\ val = 0
  /\ sized = 0

(* The operands are evaluated.  Stage 2 looks at the shift if there is one. *)
Stage1 ==
  LET i == Evaluated(prog)
      multiplied == i.op \in {"muls", "mulu"} /\ On("mul") /\ i.src.mode = "#" /\ i.src.abs
      is == IF multiplied THEN Multiply(i) ELSE <<i>>
  IN
  /\ stage = 1
  /\ list' = is
  /\ at' = IF Len(is) > 1 /\ is[2].op = "asl" THEN 2 ELSE 1
  /\ stage' = 2
  /\ UNCHANGED <<prog, opts, cpu, final, val, sized>>

Stage2 ==
  LET i == list[at] IN
  /\ stage = 2
  /\ list' = SubSeq(list, 1, at - 1) \o Optimised(i) \o SubSeq(list, at + 1, Len(list))
  /\ val' = IF i.op \in {"adda", "suba"} /\ i.src.mode = "#" /\ i.src.abs THEN AddLeaves(i) ELSE i.src.val
  /\ stage' = 3
  /\ UNCHANGED <<prog, opts, cpu, final, at, sized>>

(* A longword immediate for an address register may be a word one.          *)
ImmediateToAddress(i) ==
  IF /\ On("immaddr") /\ i.ext = "l" /\ i.src.mode = "#" /\ i.src.abs /\ i.dst.mode = "An"
     /\ Size16(val) /\ cpu \notin mcf /\ i.op \in {"movea", "adda", "suba", "cmpa"}
  THEN [i EXCEPT !.ext = "w"] ELSE i

Finished ==
  [k \in DOMAIN list |-> Evaluated(IF k = at THEN ImmediateToAddress(list[k]) ELSE list[k])]

Size ==
  /\ stage = 3 /\ ~final
  /\ sized' = iplist_size(Finished)
  /\ final' = TRUE /\ stage' = 1
  /\ list' = <<prog>> /\ at' = 1
  /\ UNCHANGED <<prog, opts, cpu, val>>

Eval ==
  /\ stage = 3 /\ final
  /\ list' = Finished
  /\ stage' = 0
  /\ UNCHANGED <<prog, opts, cpu, final, at, val, sized>>

Next == Stage1 \/ Stage2 \/ Size \/ Eval

Spec == Init /\ [][Next]_vars

-----------------------------------------------------------------------------
(* Properties.                                                              *)

Written == stage = 0

(* What the processor runs: a register that is missing is encoded as 0.     *)
Encoded ==
  [k \in DOMAIN list |-> IF list[k].op = "add" /\ list[k].dst = NoOperand
                         THEN [list[k] EXCEPT !.dst = Dn("d0")] ELSE list[k]]

(* Known deviations, each stated where the code has it.                     *)
OneOperandShift == prog.op \in {"asl", "lsl"} /\ prog.src.mode = "none"
SubtractLimit == prog.op = "suba" /\ prog.src.mode = "#" /\ prog.src.val = 32768
WordsUnextended ==
  prog.op = "movem" /\ prog.ext = "w" /\ prog.dst.regs \cap DataRegs # {} /\ On("movem")
IndexListed == prog.op = "movem" /\ prog.src.mode = "(d,An,Xn)" /\ prog.src.idx \in prog.dst.regs
QuotientTooLarge(p) == prog.op \in {"divs", "divu"} /\ prog.ext = "w" /\ Execute(p, prog).f.v
NegatesWord == prog.op = "divs" /\ prog.ext = "w" /\ prog.src.val = -1 /\ cpu \in mcf
AddsMoveq == Len(list) = 2 /\ list[1].op = "moveq" /\ list[2].op = "add"
SecondAddress == Len(list) = 2 /\ prog.op = "movem"
                 /\ {prog.src.mode, prog.dst.mode} \cap {"(d,An)", "(d,An,Xn)", "abs.w", "abs.l"} # {}

SameResultFor(p) ==
  LET was == Execute(p, prog)  is == Run(p, Encoded) IN is.r = was.r /\ is.m = was.m

(* Whatever the options and the processor, the code leaves the registers    *)
(* and the memory as the instruction in the source would have: for every    *)
(* immediate at the edge of a rule, for two moves in place of a MOVEM.      *)
SameResult ==
  Written /\ ~OneOperandShift /\ ~SubtractLimit /\ ~WordsUnextended /\ ~IndexListed =>
    \A p \in Processors : QuotientTooLarge(p) \/ SameResultFor(p)

(* The options of -opt-o+, "all safe optimizations", keep the condition     *)
(* codes too, but for carry and extend after MOVEQ and ADD.                 *)
SafeOpts == {"disp", "abs", "moveq", "quick", "bdisp", "lea", "lquick", "immaddr", "gen"}
FlagsKept ==
  Written /\ opts \subseteq SafeOpts /\ ~OneOperandShift =>
    \A p \in Processors :
      LET was == Execute(p, prog).f  is == Run(p, Encoded).f IN
      /\ was.n = is.n /\ was.z = is.z /\ was.v = is.v
      /\ AddsMoveq \/ (was.x = is.x /\ was.c = is.c)

(* The size found on the copy, by which all labels were placed, is the size *)
(* of the code; not so for two moves to a displaced or absolute address.    *)
SizedAsWritten == Written /\ ~SecondAddress => sized = iplist_size(list)

(* No optimisation makes the code longer unless -opt-speed allows it, or    *)
(* the instruction could not be encoded at all.                             *)
TooFar == prog.src.mode = "(d,An)" /\ ~Size16(prog.src.val) /\ cpu \notin m68020up
GrowsOnlyForSpeed ==
  Written /\ ~On("speed") /\ ~TooFar => iplist_size(list) <= ip_size(Evaluated(prog))

(* The code does what the instruction of the source does.                   *)
SameEffect == SameResult /\ FlagsKept

(* The code takes the room it was given.                                    *)
FitsItsPlace == SizedAsWritten /\ GrowsOnlyForSpeed

(* The processor selected has every instruction that is generated, except   *)
(* for the NEG.W of a ColdFire.                                             *)
CodeIsAvailable == Written /\ ~NegatesWord => \A k \in DOMAIN list : Available(list[k])

=============================================================================
