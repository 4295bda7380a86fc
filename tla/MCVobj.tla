------------------------------- MODULE MCVobj -------------------------------
(* Two sections of up to three atoms and six symbols of every kind for TLC. *)
EXTENDS Vobj

Sym(n, ty) == [name |-> n, type |-> ty, flags |-> 0, abslabel |-> FALSE, internal |-> FALSE,
               sec |-> 0, pc |-> 0, base |-> 0, off |-> 0]
Label(n, s, pc) == [Sym(n, LABSYM) EXCEPT !.sec = s, !.pc = pc]
Exported(s) == [s EXCEPT !.flags = EXPORT]
Equ(n, b, off) == [Sym(n, EXPRESSION) EXCEPT !.base = b, !.off = off]

\* The first three are referred to: a label, a temporary label and an import.
Referred == <<Exported(Label("lab", 1, 4)), [Label("tmp", 2, 2) EXCEPT !.internal = TRUE],
              Exported(Sym("ext", IMPORT))>>
Others ==
  {<<>>, <<Exported(Equ("abs", 0, 127)), Equ("neg", 0, -256)>>, <<Equ("equ", 1, 130), Exported(Equ("near", 2, -1))>>,
   <<Equ("imp", 3, 6), Equ("big", 0, 32767), Equ("low", 0, -32768)>>,
   <<[Label("org", 1, 4096) EXCEPT !.abslabel = TRUE], Exported(Equ("from", 4, 128))>>}

Atom(ty, a, o, f, rs) == [type |-> ty, align |-> a, octets |-> o, fill |-> f, relocs |-> rs]
Rel(t, o, s, add) == [type |-> t, byteoffset |-> o, bitoffset |-> 0, size |-> 16, mask |-> -1,
                     addend |-> add, sym |-> s]
Low(t, o, s, add)  == [Rel(t, o, s, add) EXCEPT !.size = 8, !.mask = 255]
High(t, o, s, add) == [Rel(t, o, s, add) EXCEPT !.size = 8, !.bitoffset = 8, !.mask = -256]
Part(t, bit, size, s, add) == [Rel(t, 0, s, add) EXCEPT !.bitoffset = bit, !.size = size]

Data1 == {Atom("DATA", 2, <<9, 8, 0, 0>>, 0, <<>>), Atom("DATA", 1, <<1, 0, 0>>, 0, <<Rel(1, 1, 2, -2)>>),
          Atom("DATA", 2, <<0, 0, 0, 0>>, 0, <<Low(1, 0, 3, -200), High(1, 0, 3, -200), Rel(1 + REL_MOD_U, 2, 1, 4)>>)}
Data2 == {Atom("SPACE", 4, <<0, 0>>, 0, <<>>), Atom("SPACE", 1, <<7, 7>>, 7, <<>>), Atom("SPACE", 4, <<>>, 0, <<>>),
          Atom("SPACE", 4, <<>>, 5, <<>>), Atom("SPACE", 1, <<0, 0>>, 0, <<Rel(2 + REL_MOD_S, 0, 3, 200)>>),
          Atom("DATA", 2, <<0, 0>>, 0, <<Low(1, 0, 2, 2), Low(1, 1, 1, 0)>>),
          Atom("DATA", 2, <<0, 0>>, 0, <<Low(1, 0, 2, 2), High(1, 0, 1, 2)>>),
          Atom("DATA", 1, <<173, 90>>, 0, <<Part(1, 3, 11, 1, -5)>>),
          Atom("DATA", 1, <<1, 2, 3>>, 0, <<Part(1, 0, 8, 3, 300), Part(1, 8, 16, 3, 300)>>)}
Data3 == {Atom("SPACE", 2, <<0>>, 0, <<>>), Atom("DATA", 1, <<3>>, 0, <<>>)}

Section(n, at, al, pad, as) == [name |-> n, attr |-> at, align |-> al, pad |-> pad, atoms |-> as]
First  == {Section("code", <<"a", "c", "r", "x">>, 4, 78, <<x, y, z>>) : x \in Data1, y \in Data2, z \in Data3}
Second == {Section("data", <<"a", "d", "r", "w">>, 2, 0, <<x>>) : x \in Data1}
          \cup {Section("bss", <<"a", "u", "r", "w">>, 4, 0, <<Atom("SPACE", 4, <<0, 0, 0, 0>>, 0, <<>>)>>),
                Section("note", <<"r">>, 1, 0, <<Atom("SPACE", 1, <<0, 0, 0, 0>>, 0, <<>>)>>)}

MCPrograms == [secs : {<<a, b>> : a \in First, b \in Second}, syms : {Referred \o o : o \in Others}]
=============================================================================
