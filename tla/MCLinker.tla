------------------------------ MODULE MCLinker ------------------------------
(* Two object files and two members of an archive for TLC.                 *)
EXTENDS Linker

Def   == [type |-> "def", bind |-> "global", size |-> 1, align |-> 1, to |-> "x"]
None  == [Def EXCEPT !.type = "none"]
Weak  == [Def EXCEPT !.bind = "weak"]
Com(s) == [Def EXCEPT !.type = "common", !.size = s]
Abs(v) == [Def EXCEPT !.type = "abs", !.size = v]
Indir(n) == [Def EXCEPT !.type = "indir", !.to = n]

Ref(k, n) == [kind |-> k, name |-> n]
S(n) == Ref("strong", n)

MCNames == {"x", "f", "INIT_g", "CTORS"}
NoDefs == [n \in MCNames |-> None]

\* What the units define: x in every way, in any of them; f in the first member,
\* INIT_g in the second, and one of them a second time or under another name.
XDefs == [o1 : {None, Def, Weak, Com(1)}, o2 : {None, Def, Com(2)},
          m1 : {None, Def, Com(2), Abs(1)}, m2 : {None, Def, Abs(1)}]
FDefs == {<<[NoDefs EXCEPT !["f"] = Def], [NoDefs EXCEPT !["INIT_g"] = Def]>>,
          <<[NoDefs EXCEPT !["f"] = Def], [NoDefs EXCEPT !["INIT_g"] = Def, !["f"] = Def]>>,
          <<[NoDefs EXCEPT !["f"] = Indir("INIT_g")], [NoDefs EXCEPT !["INIT_g"] = Def]>>}

O1Refs == {<<S("f"), S("x"), S("INIT_g")>>, <<S("INIT_g"), S("f")>>, <<Ref("weak", "x"), S("f")>>}
O2Refs == {<<>>, <<S("x"), S("CTORS")>>, <<Ref("local", "x")>>}
M1Refs == {<<>>, <<S("INIT_g"), S("x")>>}
M2Refs == {<<>>, <<S("x")>>}

MCPrograms ==
  {[def   |-> [o1 |-> [NoDefs EXCEPT !["x"] = x.o1], o2 |-> [NoDefs EXCEPT !["x"] = x.o2],
               m1 |-> [f[1] EXCEPT !["x"] = x.m1], m2 |-> [f[2] EXCEPT !["x"] = x.m2]],
    xrefs |-> [o1 |-> r1, o2 |-> r2, m1 |-> s1, m2 |-> s2],
    undef |-> <<>>] :
     x \in XDefs, f \in FDefs, r1 \in O1Refs, r2 \in O2Refs, s1 \in M1Refs, s2 \in M2Refs}
  \cup
  {[def   |-> [o1 |-> [NoDefs EXCEPT !["x"] = x.o1], o2 |-> [NoDefs EXCEPT !["x"] = x.o2],
               m1 |-> [NoDefs EXCEPT !["x"] = x.m1], m2 |-> [NoDefs EXCEPT !["x"] = x.m2]],
    xrefs |-> [o1 |-> <<>>, o2 |-> <<>>, m1 |-> <<>>, m2 |-> <<>>],
    undef |-> <<S("x"), S("f")>>] : x \in XDefs}
  \cup     \* units that define the label of the list of constructors
  {[def   |-> [o1 |-> NoDefs, o2 |-> [NoDefs EXCEPT !["CTORS"] = d],
               m1 |-> [NoDefs EXCEPT !["CTORS"] = e], m2 |-> [NoDefs EXCEPT !["INIT_g"] = Def]],
    xrefs |-> [o1 |-> <<Ref("local", "CTORS"), S("CTORS"), S("INIT_g")>>, o2 |-> <<>>,
               m1 |-> <<>>, m2 |-> <<Ref(k, "CTORS")>>],
    undef |-> <<>>] : d \in {None, Def, Weak}, e \in {None, Def}, k \in {"weak", "local"}}

MCFiles == <<"o1", "m1", "m2", "o2">>
=============================================================================
