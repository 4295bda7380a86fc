----------------------------- MODULE MCOptimize -----------------------------
(***************************************************************************)
(* Immediates at the edges of every rule, with all addressing modes a rule  *)
(* tells apart, some sets of options and five processors.                   *)
(***************************************************************************)
EXTENDS Optimize

At(mode, r, n) == Operand(mode, r, n)
Indexed(r, x, n) == [Operand("(d,An,Xn)", r, n) EXCEPT !.idx = x]
LabelAt(n) == [Imm(n) EXCEPT !.abs = FALSE]

Edges(sz) ==
  CASE sz = "b" -> {-1, 0, 1, 8, 9, 128, 255}
    [] sz = "w" -> {-32768, -1, 0, 1, 8, 9, 255, 32767, 32768, 65535}
    [] sz = "l" -> {-65536, -32769, -32768, -1, 0, 1, 8, 9, 255, 32767, 32768, 65535, 65536}
MoveEdges ==
  {-8388609, -8323073, -65537, -65536, -65535, -65408, -65407, -257, -256, -255, -130, -129, -128, -1,
   0, 1, 7, 8, 127, 128, 129, 254, 255, 256, 258, 32512, 32766, 32767, 32768, 65408, 65409, 65535, 65536, 65537,
   8323072, 8388608}
Factors == {-512, -256, -4, -2, -1, 0, 1, 2, 3, 4, 256, 512}
Places == {Dn("d0"), Dn("d1"), At("(An)+", "a0", 0), At("-(An)", "a7", 0), At("(d,An)", "a1", 2), At("abs.l", "", 6)}
Addresses == {At("(An)", "a0", 0), At("(An)+", "a0", 0), At("-(An)", "a0", 0), At("(d,An)", "a0", -4),
              At("(d,An)", "a0", 32765), Indexed("a0", "d1", 124), Indexed("a0", "d0", 4), At("abs.w", "", 4), At("abs.l", "", 32764)}
Lists == {{}, {"d1"}, {"a1"}, {"a0"}, {"d0", "d1"}, {"d1", "a1"}, {"a0", "a1"}, {"a1", "a7"}, {"d0", "d1", "a1"}}

MCCode ==
  {Ins("move", "l", Imm(n), d) : n \in MoveEdges, d \in {Dn("d1"), At("-(An)", "a7", 0)}}
  \cup UNION {{Ins(op, sz, Imm(n), d) : n \in Edges(sz), d \in Places, op \in {"move", "andi"}} : sz \in {"b", "w", "l"}}
  \cup UNION {{Ins(op, sz, Imm(n), d) : n \in Edges(sz), d \in {Dn("d1"), At("(An)+", "a0", 0)},
               op \in {"ori", "eori", "addi", "subi", "cmpi"}} : sz \in {"b", "w", "l"}}
  \cup UNION {{Ins(op, sz, Imm(n), An("a1")) : n \in Edges(sz), op \in {"movea", "adda", "suba", "cmpa"}} : sz \in {"w", "l"}}
  \cup {Ins(op, "l", LabelAt(12), An("a1")) : op \in {"movea", "adda"}}
  \cup {Ins("lea", "l", At("(d,An)", r, n), An("a1")) : r \in {"a0", "a1"}, n \in {-32769, -9, -8, -1, 0, 1, 8, 9, 32767, 32768}}
  \cup {Ins("lea", "l", At(m, "a1", 0), An("a1")) : m \in {"(An)", "abs.w", "abs.l"}}
  \cup {Single("clr", sz, d) : sz \in {"b", "w", "l"}, d \in Places}
  \cup {Ins(op, sz, Imm(n), Dn("d1")) : op \in {"mvs", "mvz"}, sz \in {"b", "w"}, n \in {0, 127, 128}}
  \cup {Ins(op, sz, Imm(n), Dn("d1")) : op \in {"asl", "lsl"}, sz \in {"b", "w", "l"}, n \in {1, 2, 3}}
  \cup {Single(op, "w", Dn(r)) : op \in {"asl", "lsl"}, r \in {"d0", "d1"}}
  \cup {Ins(op, sz, Imm(n), Dn("d1")) : op \in {"muls", "mulu"}, sz \in {"w", "l"}, n \in Factors}
  \cup {Ins("divs", sz, Imm(n), Dn("d1")) : sz \in {"w", "l"}, n \in {-1, 1}}
  \cup {Ins("divu", sz, Imm(n), Dn("d1")) : sz \in {"w", "l"}, n \in {1, 2, 256}}
  \cup {Ins("movem", sz, ea, RnList(l)) : sz \in {"w", "l"}, ea \in Addresses \ {At("-(An)", "a0", 0)}, l \in Lists}
  \cup {Ins("movem", sz, RnList(l), ea) : sz \in {"w", "l"}, ea \in Addresses \ {At("(An)+", "a0", 0)}, l \in Lists}

Safe == {"disp", "abs", "moveq", "quick", "bdisp", "lea", "lquick", "immaddr", "gen"}
MCOptionSets ==
  {Safe, {"gen", "immaddr"}, Safe \cup {"clr", "st", "pea", "lsl", "mul", "div", "movem"},
   Safe \cup {"speed", "lsl", "mul", "div", "movem"}, Safe \cup {"size", "nmovq"}, {"nmovq", "st", "lquick"}}

MCProcessors ==
  {[r |-> [d0 |-> x, d1 |-> y, a0 |-> <<0, 6>>, a1 |-> <<1, 65534>>, a7 |-> <<0, 12>>],
    m |-> [b \in 0..MEM - 1 |-> (b * 37 + 11) % 256],
    f |-> [x |-> on, n |-> on, z |-> on, v |-> on, c |-> on]] :
     x \in {<<0, 3>>}, y \in {<<0, 5>>, <<65535, 65408>>, <<32767, 65535>>, <<0, 49152>>}, on \in BOOLEAN}

=============================================================================
