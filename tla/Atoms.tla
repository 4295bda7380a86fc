------------------------------- MODULE Atoms --------------------------------
(***************************************************************************)
(* The atoms a section is made of, and how the program counter moves over   *)
(* them: atom.c, balign() and pcalign() of supp.c, the RORG cases of        *)
(* vasm.c, and the branch optimiser of cpus/m68k/cpu.c.                     *)
(*                                                                         *)
(* A program counter is a taddr, a two's complement integer of 2 * Half     *)
(* values (Half is 2^31 in the m68k backend, small in a model).             *)
(***************************************************************************)
EXTENDS Integers, Sequences

CONSTANTS
  Labels,                 \* the labels of a program
  Half,                   \* half the number of addresses
  ShortReach,             \* bmax and -bmin: 0x80, or 0x100 as an option
  WordReach,              \* 0x8000
  LongBranches            \* does the cpu have 32-bit branches (68020+)?

ASSUME AtomsAssumption ==
  /\ Half \in Nat \ {0}
  /\ ShortReach \in Nat \ {0, 1} /\ WordReach \in Nat
  /\ ShortReach < WordReach
  /\ LongBranches \in BOOLEAN

Addr == -Half..Half - 1

(* Arithmetic of taddr and of utaddr. *)
Wrap(n) == ((n + Half) % (2 * Half)) - Half
Unsigned(n) == n % (2 * Half)

-----------------------------------------------------------------------------
(* The expressions of this model: a number n, a label, label1 - label2,     *)
(* n - (label1 - label2), and -(label = n), which is 1 or 0.                 *)
NumExpr == [op : {"NUM"}, val : Int]
SymExpr == [op : {"SYM"}, sym : Labels]
SubExpr == [op : {"SUB"}, left : Labels, right : Labels]
PadExpr == [op : {"PAD"}, val : Int, left : Labels, right : Labels]
EqExpr  == [op : {"EQ"}, val : Int, sym : Labels]
Expr == NumExpr \cup SymExpr \cup SubExpr \cup PadExpr \cup EqExpr

(* The atoms: other types have no size and do not move the pc.  maxalign    *)
(* is maxalignbytes of an sblock, 0 when there is no limit.                 *)
Align == Nat \ {0}
LabelAtom   == [type : {"LABEL"}, align : Align, label : Labels]
DataAtom    == [type : {"DATA"}, align : Align, size : Nat]
SpaceAtom   == [type : {"SPACE"}, align : Align, maxalign : Nat,
                size : Nat, exp : Expr]
BranchAtom  == [type : {"INSTRUCTION"}, align : Align,
                kind : {"bra", "bsr", "bcc"}, target : Labels]
RorgAtom    == [type : {"RORG"}, align : {1}, addr : Addr]
RorgendAtom == [type : {"RORGEND"}, align : {1}]
Atom == LabelAtom \cup DataAtom \cup SpaceAtom \cup BranchAtom
          \cup RorgAtom \cup RorgendAtom

-----------------------------------------------------------------------------
(* The remainder of C: it has the sign of the dividend. *)
CMod(n, d) == IF n >= 0 THEN n % d ELSE -((-n) % d)

balign(addr, a) == IF CMod(addr, a) # 0 THEN a - CMod(addr, a) ELSE 0

pcalign(a, pc) ==
  LET n == balign(pc, a.align) IN
  IF a.type = "SPACE" /\ a.maxalign # 0 /\ n > a.maxalign
    THEN pc
    ELSE Wrap(pc + n)

(* The cursor of a walk over a section: the pc and, in a relocated block    *)
(* (rorg = 1), the two addresses that lead back out of it.                  *)
Cursor == [pc : Addr, rorg : {0, 1}, rorg_pc : Addr, org_pc : Addr]

StartOf(org) == [pc |-> org, rorg |-> 0, rorg_pc |-> 0, org_pc |-> 0]

(* The cursor at which an atom is placed: aligned, then moved into or out   *)
(* of a relocated block.  (RORG never finds rorg = 1, error 43: start_rorg  *)
(* ends the block before.)                                                  *)
Enter(c, a) ==
  LET pc == pcalign(a, c.pc) IN
  CASE a.type = "RORG" ->
         [pc |-> a.addr, rorg |-> 1, rorg_pc |-> a.addr, org_pc |-> pc]
    [] a.type = "RORGEND" /\ c.rorg = 1 ->
         [pc |-> Wrap(c.org_pc + (pc - c.rorg_pc)), rorg |-> 0,
          rorg_pc |-> 0, org_pc |-> c.org_pc]
    [] OTHER -> [c EXCEPT !.pc = pc]

Advance(c, size) == [c EXCEPT !.pc = Wrap(@ + size)]

-----------------------------------------------------------------------------
(* Branches.  An instruction remembers the size it had last (last_size);    *)
(* a branch turned into a jump, where there is no 32-bit branch, keeps      *)
(* remembering the word branch it was (IFL_RETAINLASTSIZE).                 *)
InstSizes == IF LongBranches THEN {0, 2, 4, 6} ELSE {0, 2, 4, 6, 8}

last_size(size) == IF LongBranches \/ size <= 4 THEN size ELSE 4

bmin == -ShortReach
bmax == ShortReach

FitsShort(diff) == bmin <= diff /\ diff < bmax /\ diff # 0 /\ diff # -130
FitsWord(diff) == -WordReach <= diff /\ diff < WordReach

FarSize(kind) == IF LongBranches \/ kind # "bcc" THEN 6 ELSE 8

(* What the word branch may become: removing it or shortening it moves the  *)
(* destination of a forward branch two bytes closer.                        *)
WordBranchSize(kind, diff, warn) ==
  CASE diff = 2 -> IF kind # "bsr" /\ ~warn THEN 0 ELSE 4
    [] diff # 2 /\ bmin <= diff /\ diff <= bmax /\ diff # -130 /\ ~warn -> 2
    [] diff # 2 /\ ~(bmin <= diff /\ diff <= bmax /\ diff # -130 /\ ~warn) ->
         IF FitsWord(diff) THEN 4 ELSE FarSize(kind)

(* Variant: the warning does not keep a word branch from being shortened. *)
BranchSize_MutNoWarn(kind, last, diff, warn) ==
  CASE last = 0 -> IF diff # -2 THEN 2 ELSE 0
    [] last = 2 -> IF diff = 0 /\ kind # "bsr" /\ ~warn THEN 0
                   ELSE IF FitsShort(diff) THEN 2 ELSE 4
    [] last = 4 -> WordBranchSize(kind, diff, FALSE)
    [] last = 6 -> IF FitsWord(diff) THEN 4 ELSE 6

(* Variant: a short branch reaches one byte further forward. *)
BranchSize_MutReach(kind, last, diff, warn) ==
  CASE last = 0 -> IF diff # -2 THEN 2 ELSE 0
    [] last = 2 -> IF diff = 0 /\ kind # "bsr" /\ ~warn THEN 0
                   ELSE IF FitsShort(diff) \/ diff = bmax THEN 2 ELSE 4
    [] last = 4 -> WordBranchSize(kind, diff, warn)
    [] last = 6 -> IF FitsWord(diff) /\ ~warn THEN 4 ELSE 6

BranchSize(kind, last, diff, warn) ==
  CASE last = 0 -> IF diff # -2 THEN 2 ELSE 0
    [] last = 2 -> IF diff = 0 /\ kind # "bsr" /\ ~warn THEN 0
                   ELSE IF FitsShort(diff) THEN 2 ELSE 4
    [] last = 4 -> WordBranchSize(kind, diff, warn)
    [] last = 6 -> IF FitsWord(diff) /\ ~warn THEN 4 ELSE 6

(* Does a branch of this size reach its destination? *)
Reaches(size, diff) ==
  /\ size = 0 => diff = -2
  /\ size = 2 => FitsShort(diff)
  /\ size = 4 => FitsWord(diff)

=============================================================================
