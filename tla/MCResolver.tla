----------------------------- MODULE MCResolver -----------------------------
(***************************************************************************)
(* Small programs for Resolver and Assemble.  Addresses and reaches are     *)
(* scaled down: a short branch reaches 4 bytes, a word branch 10.           *)
(***************************************************************************)
EXTENDS Assemble

LabelOf(l) == [type |-> "LABEL", align |-> 1, label |-> l]
Data(n) == [type |-> "DATA", align |-> 1, size |-> n]
AlignTo(n) == [type |-> "SPACE", align |-> n, maxalign |-> 0, size |-> 1,
               exp |-> [op |-> "NUM", val |-> 0]]
Space(e) == [type |-> "SPACE", align |-> 1, maxalign |-> 0, size |-> 1,
             exp |-> e]
Branch(k, l) == [type |-> "INSTRUCTION", align |-> 2, kind |-> k, target |-> l]
Rorg(a) == [type |-> "RORG", align |-> 1, addr |-> a]
Rorgend == [type |-> "RORGEND", align |-> 1]

Sec(o, abs, as) == [org |-> o, absolute |-> abs, atoms |-> as]

(* Each label once; x before y, the other half of the programs is the same. *)
OneLabelEach(p) ==
  \E i, j \in DOMAIN p :
    /\ i < j /\ p[i] = LabelOf("x") /\ p[j] = LabelOf("y")
    /\ \A k \in DOMAIN p \ {i, j} : p[k].type # "LABEL"

(* One section of six atoms, the other is empty: every arrangement of two labels, branches to   *)
(* them, data and alignments.                                               *)
BranchAtoms == {LabelOf(l) : l \in Labels} \cup {Branch("bcc", l) : l \in Labels}
                 \cup {Branch("bsr", "y"), Data(2), AlignTo(8)}
BranchPrograms ==
  {<<Sec(0, FALSE, p), Sec(20, FALSE, <<>>)>> :
     p \in {q \in [1..6 -> BranchAtoms] : OneLabelEach(q)}}

-----------------------------------------------------------------------------
(* Two sections: the atoms of one depend on label y of the other, in either *)
(* order and with relocatable and absolute sections.                        *)
Difference == [op |-> "SUB", left |-> "y", right |-> "x"]
Padding == [op |-> "PAD", val |-> 30, left |-> "y", right |-> "x"]
Value == [op |-> "SYM", sym |-> "y"]
Equal == [op |-> "EQ", sym |-> "y", val |-> 22]

UserAtoms == {Space(e) : e \in {Difference, Padding, Value, Equal}}
               \cup {Branch("bcc", "y")}
UserSections ==
  UNION {{<<LabelOf("x"), a, b>>, <<a, LabelOf("x"), b>>} :
           a \in UserAtoms, b \in {Branch("bcc", "x"), Space(Value)}}

BaseAtoms == {Branch("bra", "y"), Data(3), AlignTo(4)}
BaseSections ==
  UNION {{<<a, LabelOf("y"), b>>, <<a, b, LabelOf("y")>>,
          <<a, Rorg(22), b, LabelOf("y"), Rorgend>>} :
           a \in BaseAtoms, b \in BaseAtoms}

CrossPrograms ==
  UNION {{<<Sec(0, abs, u), Sec(20, abs2, b)>>, <<Sec(20, abs2, b), Sec(0, abs, u)>>} :
           u \in UserSections, b \in BaseSections,
           abs \in BOOLEAN, abs2 \in BOOLEAN}

(* Sections that end near the last address, a relocated block too.          *)
TopAtoms == {Data(1), Data(3), LabelOf("y"), Space([op |-> "NUM", val |-> 2])}
TopPrograms ==
  {<<Sec(-4, TRUE, <<a, b, c>>), Sec(20, FALSE, <<LabelOf("x")>>)>> :
     a \in {Data(1), Data(3)}, b \in TopAtoms, c \in {Data(1), Data(3)}}
BlockPrograms ==
  {<<Sec(o, FALSE, <<Data(2), Rorg(-4), a, b, Rorgend, Data(2)>>),
     Sec(20, FALSE, <<LabelOf("x")>>)>> :
     o \in {0, 3}, a \in {Data(1), Data(3)}, b \in TopAtoms \cup {AlignTo(4)}}

LayoutPrograms == BranchPrograms \cup CrossPrograms \cup TopPrograms \cup BlockPrograms

=============================================================================
