--------------------------- MODULE Layout_proofs ---------------------------
(***************************************************************************)
(* Proofs about Resolver, for every program, every number of sections and   *)
(* every choice of the limits: its types, and that a layout it finishes     *)
(* without an error is consistent over all sections.                        *)
(*                                                                          *)
(* The argument: a walk in which nothing changed has looked at every atom   *)
(* of its section with the final addresses and sizes (Walk), and has told   *)
(* every other section its sizes were computed from about it (Registered).  *)
(* So an absolute label that moves later can only disturb sections that are *)
(* in deps of the section that is being resolved, and these are put back    *)
(* on the list when it is left (Consistent).                                *)
(***************************************************************************)
EXTENDS Resolver, TLAPS

-----------------------------------------------------------------------------
(* Types of the operators. *)

LEMMA ModRange ==
  ASSUME NEW m \in Nat \ {0}, NEW n \in Int
  PROVE  n % m \in Nat /\ n % m <= m - 1
  OBVIOUS

LEMMA WrapType ==
  ASSUME NEW n \in Int
  PROVE  Wrap(n) \in Addr /\ Unsigned(n) \in Nat
<1>1. 2 * Half \in Nat \ {0} /\ Half \in Nat
  BY AtomsAssumption
<1>2. Unsigned(n) \in Nat
  BY <1>1, ModRange DEF Unsigned
<1> DEFINE r == (n + Half) % (2 * Half)
<1>3. r \in Nat /\ r <= 2 * Half - 1
  BY <1>1, ModRange
<1>4. Wrap(n) = r - Half
  BY DEF Wrap
<1> HIDE DEF r
<1>5. r - Half \in Addr
  BY <1>1, <1>3 DEF Addr
<1> QED
  BY <1>2, <1>4, <1>5

LEMMA AddrIsInt ==
  ASSUME NEW n \in Addr
  PROVE  n \in Int
  BY AtomsAssumption DEF Addr

LEMMA ZeroIsAddr == 0 \in Addr
  BY AtomsAssumption DEF Addr

(* The fields an atom of each type has. *)
LEMMA AtomFields ==
  ASSUME NEW a \in Atom
  PROVE  /\ a.align \in Align
         /\ a.type \in {"LABEL", "DATA", "SPACE", "INSTRUCTION", "RORG",
                        "RORGEND"}
         /\ a.type = "LABEL" => a.label \in Labels
         /\ a.type = "DATA" => a.size \in Nat
         /\ a.type = "SPACE" =>
              a.size \in Nat /\ a.maxalign \in Nat /\ a.exp \in Expr
         /\ a.type = "INSTRUCTION" =>
              a.kind \in {"bra", "bsr", "bcc"} /\ a.target \in Labels
         /\ a.type = "RORG" => a.addr \in Addr
<1>1. CASE a \in LabelAtom
  BY <1>1 DEF LabelAtom
<1>2. CASE a \in DataAtom
  BY <1>2 DEF DataAtom
<1>3. CASE a \in SpaceAtom
  BY <1>3 DEF SpaceAtom
<1>4. CASE a \in BranchAtom
  BY <1>4 DEF BranchAtom
<1>5. CASE a \in RorgAtom
  BY <1>5 DEF RorgAtom, Align
<1>6. CASE a \in RorgendAtom
  BY <1>6 DEF RorgendAtom, Align
<1> QED
  BY <1>1, <1>2, <1>3, <1>4, <1>5, <1>6 DEF Atom

LEMMA ExprFields ==
  ASSUME NEW e \in Expr
  PROVE  /\ e.op \in {"NUM", "SYM", "SUB", "PAD", "EQ"}
         /\ e.op \in {"NUM", "PAD", "EQ"} => e.val \in Int
         /\ e.op \in {"SYM", "EQ"} => e.sym \in Labels
         /\ e.op \in {"SUB", "PAD"} => e.left \in Labels /\ e.right \in Labels
  BY DEF Expr, NumExpr, SymExpr, SubExpr, PadExpr, EqExpr

LEMMA BalignType ==
  ASSUME NEW n \in Int, NEW d \in Align
  PROVE  balign(n, d) \in Int
<1>1. n % d \in Int /\ (-n) % d \in Int
  BY ModRange DEF Align
<1>2. CMod(n, d) \in Int
  BY <1>1 DEF CMod
<1> QED
  BY <1>2 DEF balign, Align

LEMMA PcalignType ==
  ASSUME NEW pc \in Addr, NEW a \in Atom
  PROVE  pcalign(a, pc) \in Addr
<1>1. balign(pc, a.align) \in Int
  BY AddrIsInt, AtomFields, BalignType
<1>2. Wrap(pc + balign(pc, a.align)) \in Addr
  BY <1>1, AddrIsInt, WrapType
<1> QED
  BY <1>2 DEF pcalign

LEMMA StartType ==
  ASSUME NEW org \in Addr
  PROVE  StartOf(org) \in Cursor
  BY ZeroIsAddr DEF StartOf, Cursor

LEMMA EnterType ==
  ASSUME NEW c \in Cursor, NEW a \in Atom
  PROVE  Enter(c, a) \in Cursor
<1> DEFINE pc == pcalign(a, c.pc)
<1>1. c.pc \in Addr /\ c.org_pc \in Addr /\ c.rorg_pc \in Addr
  BY DEF Cursor
<1>2. pc \in Addr
  BY <1>1, PcalignType
<1>3. Wrap(c.org_pc + (pc - c.rorg_pc)) \in Addr
  BY <1>1, <1>2, AddrIsInt, WrapType
<1> HIDE DEF pc
<1>4. CASE a.type = "RORG"
  <2>1. Enter(c, a) = [pc |-> a.addr, rorg |-> 1, rorg_pc |-> a.addr,
                       org_pc |-> pc]
    BY <1>4 DEF Enter, pc
  <2> QED
    BY <2>1, <1>2, <1>4, AtomFields DEF Cursor
<1>5. CASE a.type = "RORGEND" /\ c.rorg = 1
  <2>1. Enter(c, a) = [pc |-> Wrap(c.org_pc + (pc - c.rorg_pc)), rorg |-> 0,
                       rorg_pc |-> 0, org_pc |-> c.org_pc]
    BY <1>5 DEF Enter, pc
  <2> QED
    BY <2>1, <1>1, <1>3, ZeroIsAddr DEF Cursor
<1>6. CASE a.type # "RORG" /\ ~(a.type = "RORGEND" /\ c.rorg = 1)
  <2>1. Enter(c, a) = [c EXCEPT !.pc = pc]
    BY <1>6 DEF Enter, pc
  <2> QED
    BY <2>1, <1>2 DEF Cursor
<1> QED
  BY <1>4, <1>5, <1>6

LEMMA AdvanceType ==
  ASSUME NEW c \in Cursor, NEW size \in Int
  PROVE  Advance(c, size) \in Cursor
<1>1. c.pc \in Int
  BY AddrIsInt DEF Cursor
<1>2. Wrap(c.pc + size) \in Addr
  BY <1>1, WrapType
<1> QED
  BY <1>2 DEF Advance, Cursor

LEMMA BranchSizeType ==
  ASSUME NEW kind \in {"bra", "bsr", "bcc"}, NEW size \in InstSizes,
         NEW diff \in Int, NEW warn \in BOOLEAN
  PROVE  BranchSize(kind, last_size(size), diff, warn) \in InstSizes
  BY AtomsAssumption
  DEF InstSizes, last_size, BranchSize, WordBranchSize, FarSize

-----------------------------------------------------------------------------
(* Types of the state. *)

TypeInv ==
  /\ TypeOK
  /\ prog \in Programs
  /\ InProgress => sec \in Secs
  /\ \A s \in Secs : \A i \in AtomIds(s) :
       /\ Atoms(s)[i].type = "INSTRUCTION" => lastsize[s][i] \in InstSizes
       /\ Atoms(s)[i].type = "LABEL" => lastsize[s][i] = 0

LEMMA AtomsType ==
  ASSUME TypeOK, NEW s \in Secs, NEW i \in AtomIds(s)
  PROVE  Atoms(s)[i] \in Atom
<1>1. prog[s].atoms \in Seq(Atom)
  BY DEF TypeOK, SectionDesc
<1> QED
  BY <1>1 DEF Atoms, AtomIds, NumAtoms

LEMMA NumAtomsType ==
  ASSUME TypeOK, NEW s \in Secs
  PROVE  NumAtoms(s) \in Nat
<1>1. prog[s].atoms \in Seq(Atom)
  BY DEF TypeOK, SectionDesc
<1> QED
  BY <1>1 DEF Atoms, NumAtoms

LEMMA StartsType ==
  ASSUME TypeOK, NEW s \in Secs
  PROVE  Start(s) \in Cursor
<1>1. prog[s].org \in Addr
  BY DEF TypeOK, SectionDesc
<1> QED
  BY <1>1, StartType DEF Start

LEMMA DiffType ==
  ASSUME TypeOK, NEW l \in Labels, NEW r \in Labels, NEW s \in Secs,
         NEW pc \in Addr
  PROVE  DiffVal(l, r, s, pc) \in Int
<1>1. labelpc[l] \in Int /\ labelpc[r] \in Int /\ pc \in Int
  BY AddrIsInt DEF TypeOK
<1>2. SymOrg(l) \in Int
  <2>1. CASE symsec[l] = 0
    BY <2>1 DEF SymOrg, LOCREF
  <2>2. CASE symsec[l] # 0
    <3>1. symsec[l] \in Secs
      BY <2>2, ResolverAssumption DEF TypeOK, Secs
    <3>2. prog[symsec[l]] \in SectionDesc
      BY <3>1 DEF TypeOK
    <3>3. prog[symsec[l]].org \in Int
      BY <3>2, AddrIsInt DEF SectionDesc
    <3> QED
      BY <3>3, <2>2 DEF SymOrg, LOCREF
  <2> QED
    BY <2>1, <2>2
<1>3. Wrap(pc - labelpc[r] + labelpc[l] - SymOrg(l)) \in Int
  <2>1. pc - labelpc[r] + labelpc[l] - SymOrg(l) \in Int
    BY <1>1, <1>2
  <2> QED
    BY <2>1, WrapType, AddrIsInt
<1>4. Wrap(labelpc[l] - labelpc[r]) \in Int
  <2>1. labelpc[l] - labelpc[r] \in Int
    BY <1>1
  <2> QED
    BY <2>1, WrapType, AddrIsInt
<1> QED
  BY <1>3, <1>4 DEF DiffVal

LEMMA ValType ==
  ASSUME TypeOK, NEW e \in Expr, NEW s \in Secs, NEW pc \in Addr
  PROVE  Val(e, s, pc) \in Int
<1> USE ExprFields
<1>1. CASE e.op = "NUM"
  BY <1>1 DEF Val
<1>2. CASE e.op = "SYM"
  <2>1. labelpc[e.sym] \in Int
    BY <1>2, AddrIsInt DEF TypeOK
  <2> QED
    BY <1>2, <2>1 DEF Val
<1>3. CASE e.op = "SUB"
  BY <1>3, DiffType DEF Val
<1>4. CASE e.op = "PAD"
  <2>1. e.val - DiffVal(e.left, e.right, s, pc) \in Int
    BY <1>4, DiffType
  <2>2. Wrap(e.val - DiffVal(e.left, e.right, s, pc)) \in Int
    BY <2>1, WrapType, AddrIsInt
  <2> QED
    BY <1>4, <2>2 DEF Val
<1>5. CASE e.op = "EQ"
  BY <1>5 DEF Val
<1> QED
  BY <1>1, <1>2, <1>3, <1>4, <1>5

LEMMA SizeType ==
  ASSUME TypeOK, NEW a \in Atom, NEW s \in Secs, NEW pc \in Addr,
         NEW size \in Nat, NEW warn \in BOOLEAN,
         a.type = "INSTRUCTION" => size \in InstSizes
  PROVE  /\ atom_size(a, s, pc, size, warn) \in Nat
         /\ a.type = "INSTRUCTION" =>
              atom_size(a, s, pc, size, warn) \in InstSizes
         /\ a.type = "LABEL" => atom_size(a, s, pc, size, warn) = 0
<1> USE AtomFields
<1>1. CASE a.type \in {"LABEL", "RORG", "RORGEND"}
  BY <1>1 DEF atom_size
<1>2. CASE a.type = "DATA"
  BY <1>2 DEF atom_size
<1>3. CASE a.type = "SPACE"
  <2>1. Val(a.exp, s, pc) \in Int
    BY <1>3, ValType
  <2>2. Unsigned(Val(a.exp, s, pc)) \in Nat
    BY <2>1, WrapType
  <2>3. a.size \in Nat
    BY <1>3
  <2>4. a.size * Unsigned(Val(a.exp, s, pc)) \in Nat
    BY <2>2, <2>3
  <2> QED
    BY <1>3, <2>4 DEF atom_size, space_size
<1>4. CASE a.type = "INSTRUCTION"
  <2>1. labelpc[a.target] \in Int /\ pc \in Int
    BY <1>4, AddrIsInt DEF TypeOK
  <2>2. Distance(a, pc) \in Int
    <3>1. labelpc[a.target] - (pc + 2) \in Int
      BY <2>1
    <3> QED
      BY <3>1, WrapType, AddrIsInt DEF Distance
  <2>3. BranchSize(a.kind, last_size(size), Distance(a, pc), warn) \in InstSizes
    BY <1>4, <2>2, BranchSizeType
  <2>4. 4 \in InstSizes /\ InstSizes \subseteq Nat
    BY DEF InstSizes
  <2> QED
    BY <1>4, <2>3, <2>4 DEF atom_size, instruction_size
<1> QED
  BY <1>1, <1>2, <1>3, <1>4

LEMMA CurrentAtom ==
  ASSUME TypeInv, MoreAtoms
  PROVE  /\ sec \in Secs
         /\ idx \in AtomIds(sec)
         /\ ThisAtom \in Atom
         /\ Here \in Cursor
         /\ Here.pc \in Addr
         /\ lastsize[sec][idx] \in Nat
         /\ changes[sec][idx] \in Nat
<1>1. sec \in Secs
  BY ResolverAssumption DEF MoreAtoms, TypeInv, TypeOK, Secs
<1>2. NumAtoms(sec) \in Nat
  BY <1>1, NumAtomsType DEF TypeInv
<1>3. idx \in AtomIds(sec)
  BY <1>2 DEF MoreAtoms, TypeInv, TypeOK, AtomIds
<1>4. ThisAtom \in Atom
  BY <1>1, <1>3, AtomsType DEF ThisAtom, TypeInv
<1>5. Here \in Cursor
  BY <1>4, EnterType DEF Here, TypeInv, TypeOK
<1>6. Here.pc \in Addr
  BY <1>5 DEF Cursor
<1>7. lastsize[sec][idx] \in Nat /\ changes[sec][idx] \in Nat
  BY <1>1, <1>3 DEF TypeInv, TypeOK
<1> QED
  BY <1>1, <1>3, <1>4, <1>5, <1>6, <1>7

LEMMA NewSizeType ==
  ASSUME TypeInv, MoreAtoms
  PROVE  /\ NewSize \in Nat
         /\ ThisAtom.type = "INSTRUCTION" => NewSize \in InstSizes
         /\ ThisAtom.type = "LABEL" => NewSize = 0
<1>1. ThisAtom.type = "INSTRUCTION" => lastsize[sec][idx] \in InstSizes
  BY CurrentAtom DEF TypeInv, ThisAtom
<1>2. Warned(sec, idx) \in BOOLEAN
  BY DEF Warned
<1> HIDE DEF TypeInv
<1> QED
  BY <1>1, <1>2, CurrentAtom, SizeType DEF NewSize, TypeInv

(* The sizes after one of them was given a new value. *)
LEMMA SizesType ==
  ASSUME TypeInv, MoreAtoms, prog' = prog, NEW size \in Nat,
         ThisAtom.type = "INSTRUCTION" => size \in InstSizes,
         ThisAtom.type = "LABEL" => size = 0,
         lastsize' = [lastsize EXCEPT ![sec][idx] = size]
  PROVE  /\ DOMAIN lastsize' = Secs
         /\ \A s \in Secs : lastsize'[s] \in [AtomIds(s)' -> Nat]
         /\ \A s \in Secs : \A i \in AtomIds(s)' :
              /\ Atoms(s)'[i].type = "INSTRUCTION" =>
                   lastsize'[s][i] \in InstSizes
              /\ Atoms(s)'[i].type = "LABEL" => lastsize'[s][i] = 0
<1>1. sec \in Secs /\ idx \in AtomIds(sec)
  BY CurrentAtom
<1>2. \A s \in Secs : AtomIds(s)' = AtomIds(s) /\ Atoms(s)' = Atoms(s)
  BY DEF AtomIds, NumAtoms, Atoms
<1>3. DOMAIN lastsize' = Secs
  BY DEF TypeInv, TypeOK
<1>4. \A s \in Secs : lastsize'[s] \in [AtomIds(s) -> Nat]
  BY <1>1 DEF TypeInv, TypeOK
<1>5. ASSUME NEW s \in Secs, NEW i \in AtomIds(s)
      PROVE  /\ Atoms(s)[i].type = "INSTRUCTION" =>
                  lastsize'[s][i] \in InstSizes
             /\ Atoms(s)[i].type = "LABEL" => lastsize'[s][i] = 0
  <2>1. CASE s = sec /\ i = idx
    <3>1. lastsize'[s][i] = size
      BY <1>1, <2>1 DEF TypeInv, TypeOK
    <3> QED
      BY <2>1, <3>1 DEF ThisAtom
  <2>2. CASE ~(s = sec /\ i = idx)
    <3>1. lastsize'[s][i] = lastsize[s][i]
      BY <1>1, <2>2 DEF TypeInv, TypeOK
    <3> QED
      BY <1>5, <3>1 DEF TypeInv
  <2> QED
    BY <2>1, <2>2
<1> QED
  BY <1>2, <1>3, <1>4, <1>5

LEMMA VisitType ==
  ASSUME TypeInv, MoreAtoms, NEW size \in Nat, Visit(size)
  PROVE  /\ cur' \in Cursor
         /\ idx' \in Nat \ {0}
         /\ DOMAIN at' = Secs
         /\ \A s \in Secs : at'[s] \in [AtomIds(s) -> Cursor]
<1>1. cur' \in Cursor
  BY CurrentAtom, AdvanceType DEF Visit
<1>2. idx' \in Nat \ {0}
  BY DEF Visit, TypeInv, TypeOK
<1>3. DOMAIN at' = Secs
  BY DEF Visit, TypeInv, TypeOK
<1>4. \A s \in Secs : at'[s] \in [AtomIds(s) -> Cursor]
  BY CurrentAtom DEF Visit, TypeInv, TypeOK
<1> QED
  BY <1>1, <1>2, <1>3, <1>4

(* What TypeInv says of the tables over the atoms; the rest is scalars. *)
Tables ==
  /\ prog \in Programs /\ prog \in [Secs -> SectionDesc]
  /\ DOMAIN lastsize = Secs /\ DOMAIN changes = Secs /\ DOMAIN at = Secs
  /\ \A s \in Secs :
       /\ lastsize[s] \in [AtomIds(s) -> Nat]
       /\ changes[s] \in [AtomIds(s) -> Nat]
       /\ at[s] \in [AtomIds(s) -> Cursor]
  /\ \A s \in Secs : \A i \in AtomIds(s) :
       /\ Atoms(s)[i].type = "INSTRUCTION" => lastsize[s][i] \in InstSizes
       /\ Atoms(s)[i].type = "LABEL" => lastsize[s][i] = 0

Scalars ==
  /\ phase \in Phases
  /\ sec \in 0..NumSecs /\ idx \in Nat \ {0}
  /\ cur \in Cursor
  /\ symsec \in [Labels -> 0..NumSecs]
  /\ labelpc \in [Labels -> Addr]
  /\ pass \in Nat /\ fastphase \in Nat
  /\ done \in BOOLEAN /\ extrapass \in BOOLEAN
  /\ deps \in [Secs -> SUBSET Secs]
  /\ todo \subseteq Secs /\ finished \in BOOLEAN
  /\ errors \in BOOLEAN
  /\ InProgress => sec \in Secs

LEMMA TypeParts == TypeInv <=> Tables /\ Scalars
  BY DEF TypeInv, TypeOK, Tables, Scalars

LEMMA TypePartsNext == Tables' /\ Scalars' => TypeInv'
  BY DEF TypeInv, TypeOK, Tables, Scalars

LEMMA SameTables ==
  ASSUME Tables, UNCHANGED <<prog, lastsize, changes, at>>
  PROVE  Tables'
  BY DEF Tables, AtomIds, NumAtoms, Atoms

LEMMA NewTables ==
  ASSUME TypeInv, prog' = prog,
         DOMAIN lastsize' = Secs,
         \A s \in Secs : lastsize'[s] \in [AtomIds(s)' -> Nat],
         \A s \in Secs : \A i \in AtomIds(s)' :
              /\ Atoms(s)'[i].type = "INSTRUCTION" =>
                   lastsize'[s][i] \in InstSizes
              /\ Atoms(s)'[i].type = "LABEL" => lastsize'[s][i] = 0,
         DOMAIN changes' = Secs,
         \A s \in Secs : changes'[s] \in [AtomIds(s) -> Nat],
         DOMAIN at' = Secs,
         \A s \in Secs : at'[s] \in [AtomIds(s) -> Cursor]
  PROVE  Tables'
<1>1. \A s \in Secs : AtomIds(s)' = AtomIds(s)
  BY DEF AtomIds, NumAtoms, Atoms
<1>2. prog' \in Programs /\ prog' \in [Secs -> SectionDesc]
  BY DEF TypeInv, TypeOK
<1> QED
  BY <1>1, <1>2 DEF Tables

LEMMA InitType == Init => TypeInv
<1> SUFFICES ASSUME Init PROVE TypeInv
  OBVIOUS
<1>1. prog \in Programs /\ prog \in [Secs -> SectionDesc]
  BY ResolverAssumption DEF Init
<1>2. StartOf(0) \in Cursor
  BY ZeroIsAddr, StartType
<1>3. Scalars
  <2>1. 0 \in 0..NumSecs /\ 1 \in Nat \ {0} /\ 0 \in Nat
    BY ResolverAssumption
  <2>2. symsec \in [Labels -> 0..NumSecs] /\ labelpc \in [Labels -> Addr]
    BY <2>1, ZeroIsAddr DEF Init
  <2>3. deps \in [Secs -> SUBSET Secs] /\ todo \subseteq Secs
    BY DEF Init
  <2> QED
    BY <1>2, <2>1, <2>2, <2>3 DEF Init, Scalars, Phases, InProgress
<1>4. Tables
  BY <1>1, <1>2 DEF Init, Tables, InstSizes
<1> QED
  BY <1>3, <1>4, TypeParts

LEMMA ParseType ==
  ASSUME TypeInv, AddAtom \/ AddSection \/ StartResolve
  PROVE  TypeInv'
<1> USE DEF progVars, atomVars, passVars, outerVars
<1>1. CASE AddAtom
  <2>1. phase = "parse" /\ MoreAtoms
    BY <1>1 DEF AddAtom
  <2> DEFINE pc == pcalign(ThisAtom, cur.pc)
             size == parse_size(ThisAtom, sec, pc)
  <2>2. cur \in Cursor /\ cur.pc \in Addr
    BY DEF TypeInv, TypeOK, Cursor
  <2>3. pc \in Addr
    BY <2>1, <2>2, CurrentAtom, PcalignType
  <2>4. /\ size \in Nat
        /\ ThisAtom.type = "INSTRUCTION" => size \in InstSizes
        /\ ThisAtom.type = "LABEL" => size = 0
    <3>1. CASE ThisAtom.type = "INSTRUCTION"
      BY <3>1 DEF parse_size, InstSizes
    <3>2. CASE ThisAtom.type # "INSTRUCTION"
      <4>1. TypeOK /\ FALSE \in BOOLEAN /\ 0 \in Nat
        BY DEF TypeInv
      <4>2. /\ atom_size(ThisAtom, sec, pc, 0, FALSE) \in Nat
            /\ ThisAtom.type = "LABEL" =>
                 atom_size(ThisAtom, sec, pc, 0, FALSE) = 0
        BY <2>1, <2>3, <3>2, <4>1, CurrentAtom, SizeType
      <4> QED
        BY <3>2, <4>2 DEF parse_size
    <3> QED
      BY <3>1, <3>2
  <2>5. /\ IF ThisAtom.type = "LABEL"
             THEN /\ symsec' = [symsec EXCEPT ![ThisAtom.label] = sec]
                  /\ labelpc' = [labelpc EXCEPT ![ThisAtom.label] = cur.pc]
             ELSE UNCHANGED <<symsec, labelpc>>
        /\ lastsize' = [lastsize EXCEPT ![sec][idx] = size]
        /\ cur' = Advance([cur EXCEPT !.pc = pc], size)
        /\ idx' = idx + 1
        /\ UNCHANGED <<prog, phase, sec, changes, passVars, outerVars, errors, at>>
    BY <1>1 DEF AddAtom, ThisAtom
  <2>6. [cur EXCEPT !.pc = pc] \in Cursor
    BY <2>2, <2>3 DEF Cursor
  <2> HIDE DEF pc, size
  <2>7. cur' \in Cursor
    BY <2>4, <2>5, <2>6, AdvanceType
  <2>8. Scalars'
    <3>1. symsec' \in [Labels -> 0..NumSecs] /\ labelpc' \in [Labels -> Addr]
      <4>1. /\ symsec \in [Labels -> 0..NumSecs] /\ labelpc \in [Labels -> Addr]
            /\ sec \in 0..NumSecs /\ cur.pc \in Addr
        BY <2>2 DEF TypeInv, TypeOK
      <4>2. ThisAtom.type = "LABEL" => ThisAtom.label \in Labels
        BY <2>1, CurrentAtom, AtomFields
      <4> QED
        BY <2>5, <4>1, <4>2
    <3>2. idx' \in Nat \ {0}
      BY <2>5 DEF TypeInv, TypeOK
    <3> QED
      BY <2>1, <2>5, <2>7, <3>1, <3>2 DEF TypeInv, TypeOK, Scalars, InProgress
  <2>9. Tables'
    <3>1. prog' = prog /\ changes' = changes /\ at' = at
      BY <2>5
    <3>2. /\ DOMAIN changes' = Secs /\ DOMAIN at' = Secs
          /\ \A s \in Secs : changes'[s] \in [AtomIds(s) -> Nat]
          /\ \A s \in Secs : at'[s] \in [AtomIds(s) -> Cursor]
      BY <3>1 DEF TypeInv, TypeOK
    <3> QED
      BY <2>1, <2>4, <2>5, <3>1, <3>2, SizesType, NewTables
  <2> QED
    BY <2>8, <2>9, TypePartsNext
<1>2. CASE AddSection
  <2>1. Tables'
    BY <1>2, TypeParts, SameTables DEF AddSection
  <2>2. sec + 1 \in Secs
    BY <1>2, ResolverAssumption DEF AddSection, TypeInv, TypeOK, Secs
  <2>3. Start(sec + 1) \in Cursor
    BY <2>2, StartsType DEF TypeInv
  <2>4. Scalars'
    BY <1>2, <2>2, <2>3 DEF AddSection, TypeInv, TypeOK, Scalars, Secs, InProgress
  <2> QED
    BY <2>1, <2>4, TypePartsNext
<1>3. CASE StartResolve
  <2>1. Tables'
    BY <1>3, TypeParts, SameTables DEF StartResolve
  <2>2. Scalars'
    BY <1>3, ResolverAssumption
    DEF StartResolve, TypeInv, TypeOK, Scalars, Phases, InProgress
  <2> QED
    BY <2>1, <2>2, TypePartsNext
<1> QED
  BY <1>1, <1>2, <1>3

LEMMA OuterType ==
  ASSUME TypeInv, NextSection \/ EndOfList \/ BeginPass \/ EndPass
  PROVE  TypeInv'
<1> USE DEF progVars, atomVars, passVars, outerVars
<1>1. CASE NextSection
  <2>1. Tables'
    BY <1>1, TypeParts, SameTables DEF NextSection
  <2>2. sec' \in 0..NumSecs /\ sec' \in Secs
    <3>1. PICK s \in todo : sec' = s
      BY <1>1 DEF NextSection
    <3>2. s \in Secs
      BY DEF TypeInv, TypeOK
    <3>3. Secs \subseteq 0..NumSecs
      BY ResolverAssumption DEF Secs
    <3> QED
      BY <3>1, <3>2, <3>3
  <2>3. Scalars'
    BY <1>1, <2>2, ResolverAssumption
    DEF NextSection, TypeInv, TypeOK, Scalars, Phases, InProgress
  <2> QED
    BY <2>1, <2>3, TypePartsNext
<1>2. CASE EndOfList
  <2>1. Tables'
    BY <1>2, TypeParts, SameTables DEF EndOfList
  <2>2. /\ sec' \in 0..NumSecs /\ finished' \in BOOLEAN
        /\ phase' \in {"outer", "resolved"}
        /\ UNCHANGED <<progVars, idx, cur, atomVars, passVars, deps, todo,
                       errors, at>>
    <3>1. UNCHANGED <<progVars, idx, cur, atomVars, passVars, deps, todo,
                      errors, at>>
      BY <1>2 DEF EndOfList
    <3>2. CASE finished
      BY <1>2, <3>1, <3>2 DEF EndOfList, TypeInv, TypeOK
    <3>3. CASE ~finished
      <4>1. 0 \in 0..NumSecs
        BY ResolverAssumption
      <4> QED
        BY <1>2, <3>1, <3>3, <4>1 DEF EndOfList
    <3> QED
      BY <3>2, <3>3
  <2>3. Scalars'
    BY <2>2 DEF TypeInv, TypeOK, Scalars, Phases, InProgress
  <2> QED
    BY <2>1, <2>3, TypePartsNext
<1>3. CASE BeginPass
  <2>1. Tables'
    BY <1>3, TypeParts, SameTables DEF BeginPass
  <2>2. CASE pass + 1 >= MAXPASSES
    <3>1. Scalars'
      BY <1>3, <2>2 DEF BeginPass, TypeInv, TypeOK, Scalars, Phases, InProgress
    <3> QED
      BY <2>1, <3>1, TypePartsNext
  <2>3. CASE ~(pass + 1 >= MAXPASSES)
    <3>1. Start(sec) \in Cursor
      BY <1>3, StartsType DEF BeginPass, TypeInv, InProgress
    <3>2. Scalars'
      BY <1>3, <2>3, <3>1 DEF BeginPass, TypeInv, TypeOK, Scalars, Phases, InProgress
    <3> QED
      BY <2>1, <3>2, TypePartsNext
  <2> QED
    BY <2>2, <2>3
<1>4. CASE EndPass
  <2>1. Tables'
    BY <1>4, TypeParts, SameTables DEF EndPass
  <2>2. todo' \subseteq Secs
    <3>1. sec \in Secs /\ deps[sec] \subseteq Secs
      BY <1>4 DEF EndPass, TypeInv, TypeOK, InProgress
    <3> QED
      BY <1>4, <3>1 DEF EndPass, TypeInv, TypeOK
  <2>3. Scalars'
    BY <1>4, <2>2 DEF EndPass, TypeInv, TypeOK, Scalars, Phases, InProgress
  <2> QED
    BY <2>1, <2>3, TypePartsNext
<1> QED
  BY <1>1, <1>2, <1>3, <1>4

LEMMA VisitsType ==
  ASSUME TypeInv, VisitLabel \/ SkipInstruction \/ VisitAtom
  PROVE  TypeInv'
<1> USE DEF progVars, atomVars, passVars, outerVars
<1>1. MoreAtoms /\ phase = "pass"
  BY DEF VisitLabel, SkipInstruction, VisitAtom, Visit
<1>2. sec \in Secs /\ idx \in AtomIds(sec) /\ ThisAtom \in Atom
  BY <1>1, CurrentAtom
<1>3. CASE VisitLabel
  <2>1. Visit(0) /\ 0 \in Nat
    BY <1>3 DEF VisitLabel
  <2>2. Tables'
    <3>1. /\ prog' = prog /\ lastsize' = lastsize /\ changes' = changes
          /\ DOMAIN at' = Secs
          /\ \A s \in Secs : at'[s] \in [AtomIds(s) -> Cursor]
      BY <1>1, <1>3, <2>1, VisitType DEF VisitLabel, Visit
    <3> QED
      BY <3>1 DEF Tables, TypeInv, TypeOK, AtomIds, NumAtoms, Atoms
  <2>3. labelpc' \in [Labels -> Addr]
    BY <1>1, <1>2, <1>3, CurrentAtom, AtomFields DEF VisitLabel, TypeInv, TypeOK
  <2>4. cur' \in Cursor /\ idx' \in Nat \ {0}
    BY <1>1, <2>1, VisitType
  <2>5. Scalars'
    BY <1>3, <2>1, <2>3, <2>4
    DEF VisitLabel, Visit, TypeInv, TypeOK, Scalars, InProgress
  <2> QED
    BY <2>2, <2>5, TypePartsNext
<1>4. CASE SkipInstruction
  <2>1. Visit(lastsize[sec][idx]) /\ lastsize[sec][idx] \in Nat
    BY <1>1, <1>4, CurrentAtom DEF SkipInstruction
  <2>2. Tables'
    <3>1. /\ prog' = prog /\ lastsize' = lastsize /\ changes' = changes
          /\ DOMAIN at' = Secs
          /\ \A s \in Secs : at'[s] \in [AtomIds(s) -> Cursor]
      BY <1>1, <1>4, <2>1, VisitType DEF SkipInstruction, Visit
    <3> QED
      BY <3>1 DEF Tables, TypeInv, TypeOK, AtomIds, NumAtoms, Atoms
  <2>4. cur' \in Cursor /\ idx' \in Nat \ {0}
    BY <1>1, <2>1, VisitType
  <2>5. Scalars'
    BY <1>4, <2>1, <2>4
    DEF SkipInstruction, Visit, TypeInv, TypeOK, Scalars, InProgress
  <2> QED
    BY <2>2, <2>5, TypePartsNext
<1>5. CASE VisitAtom
  <2>1. Visit(NewSize) /\ NewSize \in Nat
    BY <1>1, <1>5, NewSizeType DEF VisitAtom
  <2>2. /\ prog' = prog
        /\ DOMAIN at' = Secs
        /\ \A s \in Secs : at'[s] \in [AtomIds(s) -> Cursor]
    BY <1>1, <2>1, VisitType DEF Visit
  <2>3. cur' \in Cursor /\ idx' \in Nat \ {0}
    BY <1>1, <2>1, VisitType
  <2>4. deps' \in [Secs -> SUBSET Secs]
    <3>1. \A t \in Secs : deps[t] \subseteq Secs
      BY DEF TypeInv, TypeOK
    <3> QED
      BY <1>2, <1>5, <3>1 DEF VisitAtom, add_dep
  <2>5. CASE NewSize # lastsize[sec][idx]
    <3>1. /\ done' = FALSE
          /\ lastsize' = [lastsize EXCEPT ![sec][idx] = NewSize]
          /\ changes' = [changes EXCEPT ![sec][idx] =
                           IF SafeMode THEN @ + 1 ELSE @]
          /\ extrapass' = (extrapass /\ (SafeMode
                                         \/ NewSize < lastsize[sec][idx]))
          /\ labelpc' = labelpc
      BY <1>5, <2>5 DEF VisitAtom
    <3>2. /\ DOMAIN changes' = Secs
          /\ \A s \in Secs : changes'[s] \in [AtomIds(s) -> Nat]
      BY <1>2, <3>1 DEF TypeInv, TypeOK
    <3>3. Tables'
      BY <1>1, <2>1, <2>2, <3>1, <3>2, NewSizeType, SizesType, NewTables
    <3>4. extrapass' \in BOOLEAN
      BY <3>1
    <3>5. Scalars'
      BY <2>1, <2>3, <2>4, <3>1, <3>4
      DEF Visit, TypeInv, TypeOK, Scalars, InProgress
    <3> QED
      BY <3>3, <3>5, TypePartsNext
  <2>6. CASE NewSize = lastsize[sec][idx]
    <3>1. UNCHANGED <<done, lastsize, changes, extrapass, labelpc>>
      BY <1>5, <2>6 DEF VisitAtom
    <3>2. Tables'
      BY <2>2, <3>1 DEF Tables, TypeInv, TypeOK, AtomIds, NumAtoms, Atoms
    <3>3. Scalars'
      BY <2>1, <2>3, <2>4, <3>1
      DEF Visit, TypeInv, TypeOK, Scalars, InProgress
    <3> QED
      BY <3>2, <3>3, TypePartsNext
  <2> QED
    BY <2>5, <2>6
<1> QED
  BY <1>3, <1>4, <1>5

LEMMA StepType == TypeInv /\ [Next]_vars => TypeInv'
<1> SUFFICES ASSUME TypeInv, [Next]_vars PROVE TypeInv'
  OBVIOUS
<1>1. CASE Next
  BY <1>1, ParseType, OuterType, VisitsType DEF Next
<1>2. CASE UNCHANGED vars
  <2>1. Tables'
    BY <1>2, TypeParts, SameTables DEF vars, progVars, atomVars
  <2>2. Scalars'
    BY <1>2, TypeParts
    DEF Scalars, vars, progVars, atomVars, passVars, outerVars, InProgress, Secs
  <2> QED
    BY <2>1, <2>2, TypePartsNext
<1> QED
  BY <1>1, <1>2

THEOREM TypeInvariant == Spec => []TypeInv
  BY InitType, StepType, PTL DEF Spec

(* Every variable of the resolver keeps its type, whatever the program: in  *)
(* particular the pc and the labels stay in the range of a taddr.           *)
THEOREM TypeCorrect == Spec => []TypeOK
<1>1. TypeInv => TypeOK
  BY DEF TypeInv
<1> QED
  BY <1>1, TypeInvariant, PTL

-----------------------------------------------------------------------------
-----------------------------------------------------------------------------
(* The invariant. *)

(* Every label that was parsed belongs to the section it stands in. *)
Parsed(s, i) == phase = "parse" => s < sec \/ (s = sec /\ i < idx)

LabelsPlaced ==
  \A s \in Secs : \A i \in AtomIds(s) :
    Atoms(s)[i].type = "LABEL" /\ Parsed(s, i) => symsec[Atoms(s)[i].label] = s

(* Where resolve() and resolve_section() are. *)
Control ==
  /\ InProgress => sec \in todo /\ ~finished
  /\ phase = "pass" => pass >= 1
  /\ phase = "outer" /\ finished => sec = 0
  /\ phase = "resolved" => todo = {}

(* The sections the size of an atom was computed from know of it. *)
Registered(s, i) ==
  \A t \in AtomSecs(Atoms(s)[i]) \ {s} : t \in Secs => s \in deps[t]

AllRegistered(s) == \A i \in AtomIds(s) : Registered(s, i)

(* Where the atoms before atom i lead to. *)
Reached(s, i) ==
  IF i = 1 THEN Start(s)
  ELSE Advance(Enter(at[s][i - 1], Atoms(s)[i - 1]), lastsize[s][i - 1])

(* The walk over the current section, up to its current atom. *)
Walk ==
  phase = "pass" =>
    /\ idx <= NumAtoms(sec) + 1
    /\ cur = Reached(sec, idx)
    /\ \A j \in AtomIds(sec) : j < idx => Chained(sec, j)
    /\ done => \A j \in AtomIds(sec) :
                 j < idx => AtomSettled(sec, j) /\ Registered(sec, j)

Stable(s) == Settled(s) \/ (SecChanged /\ s \in deps[sec])

Consistent ==
  phase \notin {"parse", "failed"} /\ ~errors =>
    \A s \in Secs \ todo : AllRegistered(s) /\ Stable(s)

LayoutInv == TypeInv /\ LabelsPlaced /\ Control /\ Walk /\ Consistent

-----------------------------------------------------------------------------
(* What the size of an atom depends on. *)

LEMMA SameSize ==
  ASSUME UNCHANGED <<prog, symsec, labelpc>>,
         NEW a, NEW s, NEW pc, NEW size, NEW warn
  PROVE  atom_size(a, s, pc, size, warn)' = atom_size(a, s, pc, size, warn)
  BY DEF atom_size, space_size, instruction_size, pcrelok, Distance, Val,
         DiffVal, DiffConst, SymConst, SymOrg, LOCREF

LEMMA SameConst ==
  ASSUME UNCHANGED <<prog, symsec>>, NEW e
  PROVE  Const(e)' <=> Const(e)
  BY DEF Const, DiffConst, SymConst, LOCREF

LEMMA SameSecs ==
  ASSUME UNCHANGED <<prog, symsec>>, NEW a
  PROVE  AtomSecs(a)' = AtomSecs(a)
  BY DEF AtomSecs, ExprSecs, DiffSecs, SymSecs, DiffConst, SymConst, LOCREF

(* The size of an atom of section t, where its value is constant, is not    *)
(* changed by a label of a section it is not registered with.               *)
LEMMA IndependentSize ==
  ASSUME TypeInv, NEW t \in Secs, NEW u \in Secs, t # u,
         NEW l \in Labels, symsec[l] = u, NEW v,
         UNCHANGED <<prog, symsec>>,
         labelpc' = [labelpc EXCEPT ![l] = v],
         NEW a \in Atom, a.type = "SPACE" => Const(a.exp),
         u \notin AtomSecs(a),
         NEW pc, NEW size, NEW warn
  PROVE  atom_size(a, t, pc, size, warn)' = atom_size(a, t, pc, size, warn)
<1>0. \A k \in Labels : k # l => labelpc'[k] = labelpc[k]
  BY DEF TypeInv, TypeOK
<1> USE AtomFields
<1>1. CASE a.type \in {"LABEL", "RORG", "RORGEND", "DATA"}
  BY <1>1 DEF atom_size
<1>2. CASE a.type = "SPACE"
  <2> DEFINE e == a.exp
  <2>1. e \in Expr /\ Const(e) /\ u \notin ExprSecs(e)
    BY <1>2 DEF AtomSecs
  <2>2. Val(e, t, pc)' = Val(e, t, pc)
    <3> HIDE DEF e
    <3> USE ExprFields, <2>1
    <3>1. CASE e.op = "NUM"
      BY <3>1 DEF Val
    <3>2. CASE e.op = "SYM" \/ e.op = "EQ"
      <4>1. e.sym \in Labels /\ e.sym # l
        BY <3>2 DEF Const, ExprSecs, SymSecs
      <4>2. labelpc'[e.sym] = labelpc[e.sym]
        BY <4>1, <1>0
      <4> QED
        BY <3>2, <4>2 DEF Val
    <3>3. CASE e.op = "SUB" \/ e.op = "PAD"
      <4>1. e.left \in Labels /\ e.right \in Labels /\ DiffConst(e.left, e.right)
        BY <3>3 DEF Const
      <4>2. e.left # l /\ e.right # l
        BY <3>3, <4>1 DEF ExprSecs, DiffSecs
      <4>3. labelpc'[e.left] = labelpc[e.left] /\ labelpc'[e.right] = labelpc[e.right]
        BY <4>1, <4>2, <1>0
      <4>4. DiffConst(e.left, e.right)'
        BY <4>1 DEF DiffConst, SymConst, LOCREF
      <4>5. DiffVal(e.left, e.right, t, pc)' = DiffVal(e.left, e.right, t, pc)
        BY <4>1, <4>3, <4>4 DEF DiffVal
      <4> QED
        BY <3>3, <4>5 DEF Val
    <3> QED
      BY <3>1, <3>2, <3>3
  <2> QED
    BY <1>2, <2>2 DEF atom_size, space_size
<1>3. CASE a.type = "INSTRUCTION"
  <2>1. pcrelok(a, t)' <=> pcrelok(a, t)
    BY DEF pcrelok, SymConst, LOCREF
  <2>2. CASE pcrelok(a, t)
    <3>1. a.target \in Labels /\ a.target # l
      BY <1>3, <2>2 DEF pcrelok, AtomSecs, SymSecs
    <3>2. labelpc'[a.target] = labelpc[a.target]
      BY <3>1, <1>0
    <3>3. Distance(a, pc)' = Distance(a, pc)
      BY <3>2 DEF Distance
    <3> QED
      BY <1>3, <2>1, <2>2, <3>3 DEF atom_size, instruction_size
  <2>3. CASE ~pcrelok(a, t)
    BY <1>3, <2>1, <2>3 DEF atom_size, instruction_size
  <2> QED
    BY <2>2, <2>3
<1> QED
  BY <1>1, <1>2, <1>3

-----------------------------------------------------------------------------
(* What it takes for an atom to be settled, of the atom itself. *)
LEMMA SettledAtom ==
  ASSUME NEW s, NEW i, NEW a, a = Atoms(s)[i]
  PROVE  AtomSettled(s, i) <=>
           /\ a.type = "LABEL" => labelpc[a.label] = Enter(at[s][i], a).pc
           /\ a.type # "LABEL" /\ ~(a.type = "SPACE" /\ ~Const(a.exp)) =>
                lastsize[s][i] = atom_size(a, s, Enter(at[s][i], a).pc,
                                   lastsize[s][i], changes[s][i] > MAXSIZECHANGES)
  BY DEF AtomSettled, Placed, Warned

LEMMA SettledAtomNext ==
  ASSUME NEW s, NEW i, NEW a, a = Atoms(s)'[i]
  PROVE  AtomSettled(s, i)' <=>
           /\ a.type = "LABEL" => labelpc'[a.label] = Enter(at'[s][i], a).pc
           /\ a.type # "LABEL" /\ ~(a.type = "SPACE" /\ ~Const(a.exp)') =>
                lastsize'[s][i] = atom_size(a, s, Enter(at[s][i], a).pc,
                                   lastsize[s][i], changes[s][i] > MAXSIZECHANGES)'
  BY DEF AtomSettled, Placed, Warned

(* An atom stays settled while neither it nor a label changes. *)
LEMMA SameSettled ==
  ASSUME NEW s \in Secs, NEW i, UNCHANGED <<prog, symsec, labelpc>>,
         lastsize'[s][i] = lastsize[s][i], changes'[s][i] = changes[s][i],
         at'[s][i] = at[s][i]
  PROVE  AtomSettled(s, i)' <=> AtomSettled(s, i)
  BY DEF AtomSettled, Placed, Warned, Atoms, Const, atom_size, space_size,
         instruction_size, pcrelok, Distance, Val, DiffVal, DiffConst,
         SymConst, SymOrg, LOCREF

LEMMA SameRegistered ==
  ASSUME NEW s, NEW i, UNCHANGED <<prog, symsec>>,
         \A t \in Secs : deps[t] \subseteq deps'[t], Registered(s, i)
  PROVE  Registered(s, i)'
  BY DEF Registered, Atoms, AtomSecs, ExprSecs, DiffSecs, SymSecs, DiffConst,
         SymConst, LOCREF

LEMMA SameChained ==
  ASSUME NEW s \in Secs, NEW i \in Nat \ {0}, prog' = prog,
         at'[s][i] = at[s][i],
         i > 1 => at'[s][i - 1] = at[s][i - 1]
                    /\ lastsize'[s][i - 1] = lastsize[s][i - 1]
  PROVE  Chained(s, i)' <=> Chained(s, i)
<1>1. CASE i = 1
  BY <1>1 DEF Chained, Start
<1>2. CASE i # 1
  BY <1>2 DEF Chained, Atoms
<1> QED
  BY <1>1, <1>2

(* A section is still settled when nothing of it changes and the only label *)
(* that moves is one of a section it is not registered with.                *)
LEMMA IndependentSettled ==
  ASSUME TypeInv, LabelsPlaced, phase # "parse",
         NEW t \in Secs, NEW u \in Secs, t # u,
         NEW l \in Labels, symsec[l] = u, NEW v,
         UNCHANGED <<prog, symsec>>,
         labelpc' = [labelpc EXCEPT ![l] = v],
         lastsize'[t] = lastsize[t], changes'[t] = changes[t], at'[t] = at[t],
         AllRegistered(t), t \notin deps[u], Settled(t)
  PROVE  Settled(t)'
<1>0. AtomIds(t)' = AtomIds(t) /\ Atoms(t)' = Atoms(t)
  BY DEF AtomIds, NumAtoms, Atoms
<1>1. SUFFICES ASSUME NEW i \in AtomIds(t)
               PROVE  Chained(t, i)' /\ AtomSettled(t, i)'
  BY <1>0 DEF Settled
<1>2. i \in Nat \ {0}
  BY NumAtomsType DEF AtomIds, TypeInv
<1>3. Chained(t, i) /\ AtomSettled(t, i) /\ Registered(t, i)
  BY DEF Settled, AllRegistered
<1>4. Chained(t, i)'
  BY <1>2, <1>3, SameChained
<1>5. PICK a \in Atom : a = Atoms(t)[i]
  BY AtomsType DEF TypeInv
<1>6. a = Atoms(t)'[i]
  BY <1>0, <1>5
<1> DEFINE pc == Enter(at[t][i], a).pc
           size == lastsize[t][i]
           warn == changes[t][i] > MAXSIZECHANGES
<1>7. /\ a.type = "LABEL" => labelpc[a.label] = pc
      /\ a.type # "LABEL" /\ ~(a.type = "SPACE" /\ ~Const(a.exp)) =>
           size = atom_size(a, t, pc, size, warn)
  BY <1>3, <1>5, SettledAtom
<1>8. at'[t][i] = at[t][i] /\ lastsize'[t][i] = size /\ changes'[t][i] = changes[t][i]
  OBVIOUS
<1>9. CASE a.type = "LABEL"
  <2>1. symsec[a.label] = t
    BY <1>5, <1>9 DEF LabelsPlaced, Parsed
  <2>2. a.label \in Labels /\ a.label # l
    BY <2>1, <1>9, AtomFields
  <2>3. labelpc'[a.label] = labelpc[a.label]
    BY <2>2 DEF TypeInv, TypeOK
  <2>4. labelpc'[a.label] = Enter(at'[t][i], a).pc
    BY <1>7, <1>8, <1>9, <2>3
  <2> QED
    BY <1>4, <1>6, <1>9, <2>4, SettledAtomNext
<1>10. CASE a.type = "SPACE" /\ ~Const(a.exp)
  <2>1. ~Const(a.exp)'
    BY <1>10, SameConst
  <2> QED
    BY <1>4, <1>6, <1>10, <2>1, SettledAtomNext
<1>11. CASE a.type # "LABEL" /\ ~(a.type = "SPACE" /\ ~Const(a.exp))
  <2>1. u \notin AtomSecs(a)
    BY <1>3, <1>5 DEF Registered
  <2>8. PICK p, n : p = pc /\ n = size
    OBVIOUS
  <2>9. PICK w \in BOOLEAN : w <=> warn
    OBVIOUS
  <2>2. p = pc /\ n = size /\ (w <=> warn)
    BY <2>8, <2>9
  <2>3. atom_size(a, t, p, n, w)' = atom_size(a, t, p, n, w)
    <3>1. a.type = "SPACE" => Const(a.exp)
      BY <1>11
    <3> HIDE DEF pc, size, warn
    <3>2. \A x, y, z : atom_size(a, t, x, y, z)' = atom_size(a, t, x, y, z)
      BY <2>1, <3>1, IndependentSize
    <3> QED
      BY <3>2
  <2>4. n = atom_size(a, t, p, n, w)
    BY <1>7, <1>11, <2>2
  <2>5. lastsize'[t][i] = n /\ Enter(at'[t][i], a).pc = p
          /\ ((changes'[t][i] > MAXSIZECHANGES) <=> w)
    BY <1>8, <2>2
  <2>6. atom_size(a, t, Enter(at[t][i], a).pc, lastsize[t][i],
                  changes[t][i] > MAXSIZECHANGES)' = atom_size(a, t, p, n, w)'
    BY <2>5
  <2>7. lastsize'[t][i] = atom_size(a, t, Enter(at[t][i], a).pc, lastsize[t][i],
                                    changes[t][i] > MAXSIZECHANGES)'
    BY <2>3, <2>4, <2>5, <2>6
  <2> HIDE DEF pc, size, warn
  <2> QED
    BY <1>4, <1>6, <1>11, <2>7, SettledAtomNext
<1> QED
  BY <1>4, <1>9, <1>10, <1>11

-----------------------------------------------------------------------------
(* The steps, part by part of the invariant. *)

Resolving == NextSection \/ EndOfList \/ BeginPass \/ EndPass
Visiting == VisitLabel \/ SkipInstruction \/ VisitAtom

LEMMA ResolvingFrame ==
  ASSUME Resolving \/ Visiting
  PROVE  phase # "parse" /\ phase' # "parse" /\ UNCHANGED <<prog, symsec>>
  BY DEF Resolving, Visiting, NextSection, EndOfList, BeginPass, EndPass,
         VisitLabel, SkipInstruction, VisitAtom, Visit, progVars, atomVars

LEMMA VisitFrame ==
  ASSUME TypeInv, Visiting
  PROVE  /\ phase = "pass" /\ phase' = "pass" /\ MoreAtoms
         /\ sec \in Secs /\ idx \in AtomIds(sec) /\ ThisAtom \in Atom
         /\ UNCHANGED <<prog, symsec, sec, pass, todo, finished, errors>>
         /\ idx' = idx + 1
         /\ at' = [at EXCEPT ![sec][idx] = cur]
<1>1. \E size : Visit(size)
  BY DEF Visiting, VisitLabel, SkipInstruction, VisitAtom
<1>2. MoreAtoms
  BY <1>1 DEF Visit
<1> QED
  BY <1>1, <1>2, CurrentAtom DEF Visit, progVars

LEMMA LabelsStep ==
  ASSUME TypeInv, LabelsPlaced, Next
  PROVE  LabelsPlaced'
<1> USE DEF progVars, atomVars
<1>1. CASE AddAtom
  <2>1. phase = "parse" /\ MoreAtoms /\ phase' = "parse" /\ prog' = prog
          /\ sec' = sec /\ idx' = idx + 1
    BY <1>1 DEF AddAtom
  <2>2. sec \in Secs /\ idx \in AtomIds(sec) /\ ThisAtom \in Atom
    BY <2>1, CurrentAtom
  <2>3. \A s : AtomIds(s)' = AtomIds(s) /\ Atoms(s)' = Atoms(s)
    BY <2>1 DEF AtomIds, NumAtoms, Atoms
  <2>4. SUFFICES ASSUME NEW s \in Secs, NEW i \in AtomIds(s),
                        Atoms(s)[i].type = "LABEL",
                        s < sec \/ (s = sec /\ i < idx + 1)
                 PROVE  symsec'[Atoms(s)[i].label] = s
    BY <2>1, <2>3 DEF LabelsPlaced, Parsed
  <2>5. i \in Nat /\ idx \in Nat
    BY <2>2, NumAtomsType DEF AtomIds, TypeInv, TypeOK
  <2>6. PICK a \in Atom : a = Atoms(s)[i] /\ a.label \in Labels
    BY <2>4, AtomsType, AtomFields DEF TypeInv
  <2>7. CASE s = sec /\ i = idx
    <3>1. symsec' = [symsec EXCEPT ![a.label] = sec]
      BY <1>1, <2>4, <2>6, <2>7 DEF AddAtom
    <3> QED
      BY <2>6, <2>7, <3>1 DEF TypeInv, TypeOK
  <2>8. CASE ~(s = sec /\ i = idx)
    <3>1. symsec[a.label] = s
      BY <2>1, <2>4, <2>5, <2>6, <2>8 DEF LabelsPlaced, Parsed
    <3>2. CASE ThisAtom.type # "LABEL"
      <4>1. symsec' = symsec
        BY <1>1, <3>2 DEF AddAtom, ThisAtom
      <4> QED
        BY <2>6, <3>1, <4>1
    <3>3. CASE ThisAtom.type = "LABEL"
      <4>1. symsec' = [symsec EXCEPT ![ThisAtom.label] = sec]
        BY <1>1, <3>3 DEF AddAtom, ThisAtom
      <4>2. ThisAtom.label # a.label
        <5>1. SUFFICES ASSUME ThisAtom.label = a.label PROVE FALSE
          OBVIOUS
        <5>2. Defines(prog, s, i, a.label) /\ Defines(prog, sec, idx, a.label)
          BY <2>4, <2>6, <3>3, <5>1 DEF Defines, Atoms, ThisAtom
        <5>3. i \in 1..Len(prog[s].atoms) /\ idx \in 1..Len(prog[sec].atoms)
          BY <2>2 DEF AtomIds, NumAtoms, Atoms
        <5>4. DefinedOnce(prog)
          BY ResolverAssumption DEF TypeInv
        <5> QED
          BY <2>2, <2>6, <2>8, <5>2, <5>3, <5>4 DEF DefinedOnce
      <4> QED
        BY <2>6, <3>1, <4>1, <4>2 DEF TypeInv, TypeOK
    <3> QED
      BY <3>2, <3>3
  <2> QED
    BY <2>7, <2>8
<1>2. CASE AddSection \/ StartResolve
  <2>1. phase = "parse" /\ ~MoreAtoms /\ UNCHANGED <<prog, symsec>>
    BY <1>2 DEF AddSection, StartResolve
  <2>2. \A s : AtomIds(s)' = AtomIds(s) /\ Atoms(s)' = Atoms(s)
    BY <2>1 DEF AtomIds, NumAtoms, Atoms
  <2>3. SUFFICES ASSUME NEW s \in Secs, NEW i \in AtomIds(s), Parsed(s, i)'
                 PROVE  Parsed(s, i)
    BY <2>1, <2>2 DEF LabelsPlaced
  <2>4. i \in Nat /\ idx \in Nat /\ sec \in Nat /\ s \in Nat /\ s >= 1
          /\ s <= NumSecs /\ i >= 1
    BY NumAtomsType, ResolverAssumption DEF AtomIds, TypeInv, TypeOK, Secs
  <2>5. i <= NumAtoms(s) /\ NumAtoms(s) \in Nat
    BY NumAtomsType DEF AtomIds, TypeInv
  <2>6. s <= sec
    <3>1. CASE AddSection
      BY <3>1, <2>1, <2>3, <2>4 DEF AddSection, Parsed
    <3>2. CASE StartResolve
      BY <3>2, <2>4 DEF StartResolve
    <3> QED
      BY <1>2, <3>1, <3>2
  <2>7. s = sec => i < idx
    BY <2>1, <2>4, <2>5 DEF MoreAtoms
  <2> QED
    BY <2>4, <2>6, <2>7 DEF Parsed
<1>3. CASE Resolving \/ Visiting
  <2>1. \A s : AtomIds(s)' = AtomIds(s) /\ Atoms(s)' = Atoms(s)
    BY <1>3, ResolvingFrame DEF AtomIds, NumAtoms, Atoms
  <2> QED
    BY <1>3, <2>1, ResolvingFrame DEF LabelsPlaced, Parsed
<1> QED
  BY <1>1, <1>2, <1>3 DEF Next, Resolving, Visiting

LEMMA ControlStep ==
  ASSUME TypeInv, Control, Next
  PROVE  Control'
<1> USE DEF Control, InProgress
<1>1. CASE AddAtom \/ AddSection \/ StartResolve
  BY <1>1 DEF AddAtom, AddSection, StartResolve
<1>2. CASE NextSection
  BY <1>2 DEF NextSection
<1>3. CASE EndOfList
  <2>1. CASE finished
    <3>1. sec = 0 /\ \A t \in todo : t <= sec
      BY <1>3, <2>1 DEF EndOfList
    <3>2. \A t \in todo : t >= 1
      BY DEF TypeInv, TypeOK, Secs
    <3>3. todo = {}
      <4>1. \A t \in todo : t \in Int
        BY DEF TypeInv, TypeOK, Secs
      <4> QED
        BY <3>1, <3>2, <4>1
    <3> QED
      BY <1>3, <2>1, <3>3 DEF EndOfList
  <2>2. CASE ~finished
    BY <1>3, <2>2 DEF EndOfList
  <2> QED
    BY <2>1, <2>2
<1>4. CASE BeginPass
  BY <1>4 DEF BeginPass, outerVars, TypeInv, TypeOK
<1>5. CASE EndPass
  BY <1>5 DEF EndPass
<1>6. CASE Visiting
  BY <1>6, VisitFrame
<1> QED
  BY <1>1, <1>2, <1>3, <1>4, <1>5, <1>6 DEF Next, Visiting

(* The atom that is visited joins the walk. *)
LEMMA VisitWalk ==
  ASSUME TypeInv, Walk, Visiting, NEW size,
         lastsize'[sec][idx] = size, cur' = Advance(Here, size),
         \A j \in AtomIds(sec) : j < idx => lastsize'[sec][j] = lastsize[sec][j]
  PROVE  /\ idx' <= NumAtoms(sec)' + 1
         /\ cur' = Reached(sec, idx)'
         /\ \A j \in AtomIds(sec)' : j < idx' => Chained(sec, j)'
<1>1. /\ phase = "pass" /\ MoreAtoms
      /\ sec \in Secs /\ idx \in AtomIds(sec)
      /\ UNCHANGED <<prog, sec>> /\ idx' = idx + 1
      /\ at' = [at EXCEPT ![sec][idx] = cur]
  BY VisitFrame
<1>2. /\ AtomIds(sec)' = AtomIds(sec) /\ NumAtoms(sec)' = NumAtoms(sec)
      /\ Atoms(sec)' = Atoms(sec)
  BY <1>1 DEF AtomIds, NumAtoms, Atoms
<1>3. NumAtoms(sec) \in Nat /\ idx \in Nat /\ idx >= 1
  BY <1>1, NumAtomsType DEF AtomIds, TypeInv
<1>4. idx' <= NumAtoms(sec)' + 1
  BY <1>1, <1>2, <1>3 DEF MoreAtoms
<1>5. /\ at'[sec][idx] = cur
      /\ \A j \in AtomIds(sec) : j # idx => at'[sec][j] = at[sec][j]
  BY <1>1 DEF TypeInv, TypeOK
<1>6. cur' = Reached(sec, idx)'
  <2>1. idx' - 1 = idx /\ idx' # 1
    BY <1>1, <1>3
  <2>2. Reached(sec, idx)' = Advance(Enter(at'[sec][idx], ThisAtom),
                                     lastsize'[sec][idx])
    BY <1>1, <1>2, <2>1 DEF Reached, ThisAtom
  <2> QED
    BY <1>5, <2>2 DEF Here
<1>7. ASSUME NEW j \in AtomIds(sec), j < idx + 1
      PROVE  Chained(sec, j)'
  <2>1. j \in Nat \ {0}
    BY NumAtomsType, <1>1 DEF AtomIds, TypeInv
  <2>2. CASE j < idx
    <3>1. Chained(sec, j)
      BY <1>1, <1>7, <2>2 DEF Walk
    <3>2. at'[sec][j] = at[sec][j]
      BY <1>5, <1>7, <2>1, <2>2
    <3>3. CASE j = 1
      BY <1>1, <3>1, <3>2, <3>3 DEF Chained, Start
    <3>4. CASE j # 1
      <4>1. j - 1 \in AtomIds(sec) /\ j - 1 < idx /\ j - 1 # idx
        BY <1>3, <2>1, <2>2, <3>4, <1>7 DEF AtomIds
      <4>2. /\ at'[sec][j - 1] = at[sec][j - 1]
            /\ lastsize'[sec][j - 1] = lastsize[sec][j - 1]
        BY <1>5, <4>1
      <4> QED
        BY <1>1, <1>2, <3>1, <3>2, <3>4, <4>2 DEF Chained
    <3> QED
      BY <3>3, <3>4
  <2>3. CASE j = idx
    <3>1. cur = Reached(sec, idx)
      BY <1>1 DEF Walk
    <3>2. CASE idx = 1
      BY <1>1, <1>5, <2>3, <3>1, <3>2 DEF Chained, Reached, Start
    <3>3. CASE idx # 1
      <4>1. idx - 1 \in AtomIds(sec) /\ idx - 1 < idx /\ idx - 1 # idx
        BY <1>1, <1>3, <3>3 DEF AtomIds
      <4>2. /\ at'[sec][idx - 1] = at[sec][idx - 1]
            /\ lastsize'[sec][idx - 1] = lastsize[sec][idx - 1]
        BY <1>5, <4>1
      <4> QED
        BY <1>1, <1>2, <1>5, <2>3, <3>1, <3>3, <4>2 DEF Chained, Reached
    <3> QED
      BY <3>2, <3>3
  <2> QED
    BY <1>3, <1>7, <2>1, <2>2, <2>3
<1> QED
  BY <1>1, <1>2, <1>4, <1>6, <1>7

(* What was visited before stays settled while no label moves. *)
LEMMA VisitSettled ==
  ASSUME TypeInv, Walk, done, Visiting, labelpc' = labelpc,
         lastsize' = lastsize, changes' = changes,
         \A t \in Secs : deps[t] \subseteq deps'[t],
         NEW k, k = idx, AtomSettled(sec, k)', Registered(sec, k)'
  PROVE  \A j \in AtomIds(sec) :
           j < idx + 1 => AtomSettled(sec, j)' /\ Registered(sec, j)'
<1>1. /\ phase = "pass" /\ UNCHANGED <<prog, symsec, sec>>
      /\ sec \in Secs /\ idx \in AtomIds(sec)
      /\ at' = [at EXCEPT ![sec][idx] = cur]
  BY VisitFrame
<1>2. TAKE j \in AtomIds(sec)
<1>3. HAVE j < idx + 1
<1>4. j \in Nat /\ idx \in Nat
  BY <1>1, NumAtomsType DEF AtomIds, TypeInv
<1>5. CASE j < idx
  <2>1. AtomSettled(sec, j) /\ Registered(sec, j)
    BY <1>1, <1>5 DEF Walk
  <2>2. at'[sec][j] = at[sec][j]
    BY <1>1, <1>4, <1>5 DEF TypeInv, TypeOK
  <2>3. PICK s \in Secs : s = sec
    BY <1>1
  <2>4. AtomSettled(s, j)' <=> AtomSettled(s, j)
    BY <1>1, <2>2, <2>3, SameSettled
  <2>5. Registered(s, j)'
    BY <1>1, <2>1, <2>3, SameRegistered
  <2> QED
    BY <1>1, <2>1, <2>3, <2>4, <2>5
<1>6. CASE j = idx
  BY <1>6
<1> QED
  BY <1>3, <1>4, <1>5, <1>6

LEMMA WalkStep ==
  ASSUME TypeInv, Control, Walk, Next
  PROVE  Walk'
<1>1. CASE AddAtom \/ AddSection \/ StartResolve \/ NextSection \/ EndOfList
            \/ EndPass
  BY <1>1 DEF AddAtom, AddSection, StartResolve, NextSection, EndOfList,
              EndPass, Walk
<1>2. CASE BeginPass
  <2>1. SUFFICES ASSUME phase' = "pass" PROVE Walk'
    BY DEF Walk
  <2>2. cur' = Start(sec) /\ idx' = 1 /\ UNCHANGED <<prog, sec>>
    BY <1>2, <2>1 DEF BeginPass, progVars
  <2>3. sec \in Secs
    BY <1>2 DEF BeginPass, TypeInv, InProgress
  <2>4. NumAtoms(sec)' \in Nat
    <3>1. NumAtoms(sec)' = NumAtoms(sec)
      BY <2>2 DEF NumAtoms, Atoms
    <3> QED
      BY <2>3, <3>1, NumAtomsType DEF TypeInv
  <2>5. cur' = Reached(sec, idx)'
    BY <2>2 DEF Reached, Start
  <2>6. \A j \in AtomIds(sec)' : ~(j < idx')
    BY <2>2, <2>4 DEF AtomIds
  <2>7. idx' <= NumAtoms(sec)' + 1
    BY <2>2, <2>4
  <2> QED
    BY <2>5, <2>6, <2>7 DEF Walk
<1>3. CASE Visiting
  <2>1. /\ phase = "pass" /\ MoreAtoms
        /\ sec \in Secs /\ idx \in AtomIds(sec) /\ ThisAtom \in Atom
        /\ UNCHANGED <<prog, symsec, sec>> /\ idx' = idx + 1
        /\ at' = [at EXCEPT ![sec][idx] = cur]
    BY <1>3, VisitFrame
  <2>2. AtomIds(sec)' = AtomIds(sec) /\ Atoms(sec)' = Atoms(sec)
    BY <2>1 DEF AtomIds, NumAtoms, Atoms
  <2>3. PICK k \in AtomIds(sec) : k = idx
    BY <2>1
  <2>4. PICK a \in Atom : a = ThisAtom /\ a = Atoms(sec)[k] /\ a = Atoms(sec)'[k]
    BY <2>1, <2>2, <2>3 DEF ThisAtom
  <2>5. at'[sec][k] = cur /\ Enter(at'[sec][k], a) = Here
    BY <2>1, <2>3, <2>4 DEF Here, TypeInv, TypeOK
  <2>6. SUFFICES /\ \E size : /\ lastsize'[sec][idx] = size
                               /\ cur' = Advance(Here, size)
                               /\ \A j \in AtomIds(sec) :
                                    j < idx => lastsize'[sec][j] = lastsize[sec][j]
                 /\ done' => /\ done /\ UNCHANGED <<labelpc, lastsize, changes>>
                             /\ \A t \in Secs : deps[t] \subseteq deps'[t]
                             /\ AtomSettled(sec, k)' /\ Registered(sec, k)'
    <3>1. /\ idx' <= NumAtoms(sec)' + 1
          /\ cur' = Reached(sec, idx)'
          /\ \A j \in AtomIds(sec)' : j < idx' => Chained(sec, j)'
      BY <1>3, <2>6, VisitWalk
    <3>2. done' => \A j \in AtomIds(sec)' :
                     j < idx' => AtomSettled(sec, j)' /\ Registered(sec, j)'
      <4>1. SUFFICES ASSUME done'
                     PROVE  \A j \in AtomIds(sec) :
                       j < idx + 1 => AtomSettled(sec, j)' /\ Registered(sec, j)'
        BY <2>1, <2>2
      <4>2. /\ done /\ labelpc' = labelpc /\ lastsize' = lastsize
            /\ changes' = changes
            /\ \A t \in Secs : deps[t] \subseteq deps'[t]
            /\ AtomSettled(sec, k)' /\ Registered(sec, k)'
        BY <2>6, <4>1
      <4> QED
        BY <1>3, <2>3, <4>2, VisitSettled
    <3> QED
      BY <3>1, <3>2 DEF Walk
  <2>7. CASE VisitLabel
    <3>1. /\ cur' = Advance(Here, 0) /\ a.type = "LABEL" /\ a.label \in Labels
          /\ labelpc' = [labelpc EXCEPT ![a.label] = Here.pc]
          /\ done' = (done /\ labelpc[a.label] = Here.pc)
          /\ UNCHANGED <<lastsize, changes, deps>>
      BY <2>4, <2>7, AtomFields DEF VisitLabel, Visit
    <3>2. lastsize[sec][idx] = 0
      BY <2>1, <2>4, <3>1 DEF TypeInv, ThisAtom
    <3>3. done' => done /\ labelpc' = labelpc /\ labelpc'[a.label] = Here.pc
      BY <3>1 DEF TypeInv, TypeOK
    <3>4. done' => AtomSettled(sec, k)'
      <4>1. SUFFICES ASSUME done' PROVE AtomSettled(sec, k)'
        OBVIOUS
      <4>2. PICK s : s = sec /\ s = sec'
        BY <2>1
      <4>3. a = Atoms(s)'[k] /\ Enter(at'[s][k], a) = Here
        BY <2>1, <2>2, <2>4, <2>5, <4>2 DEF Atoms
      <4>4. AtomSettled(s, k)'
        BY <3>1, <3>3, <4>1, <4>3, SettledAtomNext
      <4> QED
        BY <4>2, <4>4
    <3>5. Registered(sec, k)'
      <4>1. AtomSecs(a)' = {}
        BY <3>1 DEF AtomSecs
      <4> QED
        BY <2>1, <2>2, <2>4, <4>1 DEF Registered
    <3> QED
      BY <3>1, <3>2, <3>3, <3>4, <3>5
  <2>8. CASE SkipInstruction
    BY <2>8 DEF SkipInstruction, Visit, Skipped, atomVars
  <2>9. CASE VisitAtom
    <3>1. /\ cur' = Advance(Here, NewSize) /\ a.type # "LABEL" /\ labelpc' = labelpc
          /\ add_dep
      BY <2>4, <2>9 DEF VisitAtom, Visit
    <3>2. NewSize = atom_size(a, sec, Here.pc, lastsize[sec][k],
                              changes[sec][k] > MAXSIZECHANGES)
      BY <2>3, <2>4 DEF NewSize, Warned
    <3>3. CASE NewSize # lastsize[sec][idx]
      <4>1. /\ done' = FALSE
            /\ lastsize' = [lastsize EXCEPT ![sec][idx] = NewSize]
        BY <2>9, <3>3 DEF VisitAtom
      <4>2. /\ lastsize'[sec][idx] = NewSize
            /\ \A j \in AtomIds(sec) : j < idx => lastsize'[sec][j] = lastsize[sec][j]
        <5>1. \A j \in AtomIds(sec) : j < idx => j # idx
          BY <2>1, NumAtomsType DEF AtomIds, TypeInv
        <5> QED
          BY <2>1, <4>1, <5>1 DEF TypeInv, TypeOK
      <4> QED
        BY <3>1, <4>1, <4>2
    <3>4. CASE NewSize = lastsize[sec][idx]
      <4>1. UNCHANGED <<done, lastsize, changes>>
        BY <2>9, <3>4 DEF VisitAtom
      <4>2. \A t \in Secs : deps[t] \subseteq deps'[t]
        BY <3>1 DEF add_dep, TypeInv, TypeOK
      <4>3. AtomSettled(sec, k)'
        <5>1. PICK s : s = sec /\ s = sec'
          BY <2>1
        <5>2. a = Atoms(s)'[k] /\ Enter(at'[s][k], a) = Here
          BY <2>1, <2>2, <2>4, <2>5, <5>1 DEF Atoms
        <5>3. PICK p, n : p = Here.pc /\ n = lastsize[s][k]
          OBVIOUS
        <5>4. PICK w \in BOOLEAN : w <=> changes[s][k] > MAXSIZECHANGES
          OBVIOUS
        <5>5. n = atom_size(a, s, p, n, w)
          BY <2>3, <3>2, <3>4, <5>1, <5>3, <5>4
        <5>6. atom_size(a, s, p, n, w)' = atom_size(a, s, p, n, w)
          BY <2>1, <3>1, SameSize
        <5>7. /\ lastsize'[s][k] = n /\ Enter(at'[s][k], a).pc = p
              /\ ((changes'[s][k] > MAXSIZECHANGES) <=> w)
          BY <4>1, <5>2, <5>3, <5>4
        <5>8. atom_size(a, s, Enter(at[s][k], a).pc, lastsize[s][k],
                        changes[s][k] > MAXSIZECHANGES)'
                = atom_size(a, s, p, n, w)'
          BY <5>7
        <5>9. lastsize'[s][k] = atom_size(a, s, Enter(at[s][k], a).pc,
                          lastsize[s][k], changes[s][k] > MAXSIZECHANGES)'
          BY <5>5, <5>6, <5>7, <5>8
        <5>10. AtomSettled(s, k)'
          BY <3>1, <5>2, <5>9, SettledAtomNext
        <5> QED
          BY <5>1, <5>10
      <4>4. Registered(sec, k)'
        <5>1. AtomSecs(a)' = AtomSecs(a)
          BY <2>1, SameSecs
        <5>2. \A t \in Secs : t \in AtomSecs(a) \ {sec} => sec \in deps'[t]
          BY <2>4, <3>1 DEF add_dep
        <5> QED
          BY <2>1, <2>2, <2>4, <5>1, <5>2 DEF Registered
      <4> QED
        BY <3>1, <3>4, <4>1, <4>2, <4>3, <4>4
    <3> QED
      BY <3>3, <3>4
  <2> QED
    BY <1>3, <2>7, <2>8, <2>9 DEF Visiting
<1> QED
  BY <1>1, <1>2, <1>3 DEF Next, Visiting

LEMMA KeptSettled ==
  ASSUME TypeInv, NEW t \in Secs, UNCHANGED <<prog, symsec, labelpc>>,
         lastsize'[t] = lastsize[t], changes'[t] = changes[t], at'[t] = at[t],
         Settled(t)
  PROVE  Settled(t)'
<1>1. AtomIds(t)' = AtomIds(t)
  BY DEF AtomIds, NumAtoms, Atoms
<1>2. SUFFICES ASSUME NEW i \in AtomIds(t)
               PROVE  Chained(t, i)' /\ AtomSettled(t, i)'
  BY <1>1 DEF Settled
<1>3. i \in Nat \ {0}
  BY NumAtomsType DEF AtomIds, TypeInv
<1>4. Chained(t, i) /\ AtomSettled(t, i)
  BY DEF Settled
<1>5. Chained(t, i)'
  BY <1>3, <1>4, SameChained
<1>6. AtomSettled(t, i)'
  BY <1>4, SameSettled
<1> QED
  BY <1>5, <1>6

LEMMA KeptRegistered ==
  ASSUME NEW t, UNCHANGED <<prog, symsec>>,
         \A u \in Secs : deps[u] \subseteq deps'[u], AllRegistered(t)
  PROVE  AllRegistered(t)'
<1>1. AtomIds(t)' = AtomIds(t)
  BY DEF AtomIds, NumAtoms, Atoms
<1>2. SUFFICES ASSUME NEW i \in AtomIds(t) PROVE Registered(t, i)'
  BY <1>1 DEF AllRegistered
<1> QED
  BY SameRegistered DEF AllRegistered

(* While a section is walked the others stay consistent, or are going to be *)
(* put on the list.                                                         *)
LEMMA VisitConsistent ==
  ASSUME LayoutInv, Visiting, ~errors, NEW s \in Secs \ todo
  PROVE  AllRegistered(s)' /\ Stable(s)'
<1>1. /\ phase = "pass" /\ phase' = "pass" /\ MoreAtoms
      /\ sec \in Secs /\ idx \in AtomIds(sec) /\ ThisAtom \in Atom
      /\ UNCHANGED <<prog, symsec, sec, pass>>
      /\ at' = [at EXCEPT ![sec][idx] = cur]
  BY VisitFrame DEF LayoutInv
<1>2. AllRegistered(s) /\ Stable(s)
  BY <1>1 DEF LayoutInv, Consistent
<1>3. s # sec /\ pass >= 1 /\ pass \in Nat
  BY <1>1 DEF LayoutInv, Control, InProgress, TypeInv, TypeOK
<1>4. at'[s] = at[s]
  BY <1>1, <1>3 DEF LayoutInv, TypeInv, TypeOK
<1>5. /\ lastsize'[s] = lastsize[s] /\ changes'[s] = changes[s]
      /\ \A u \in Secs : deps[u] \subseteq deps'[u]
      /\ done' => done
  <2>1. CASE VisitLabel
    <3>1. done' = (done /\ labelpc[ThisAtom.label] = Here.pc)
      BY <2>1 DEF VisitLabel
    <3>2. UNCHANGED <<lastsize, changes, deps>>
      BY <2>1 DEF VisitLabel
    <3> QED
      BY <3>1, <3>2
  <2>3. CASE SkipInstruction
    BY <2>3 DEF SkipInstruction, atomVars
  <2>2. CASE VisitAtom
    <3>1. \A u \in Secs : deps[u] \subseteq deps'[u]
      BY <2>2 DEF VisitAtom, add_dep, LayoutInv, TypeInv, TypeOK
    <3>2. lastsize'[s] = lastsize[s] /\ changes'[s] = changes[s] /\ (done' => done)
      BY <2>2, <1>1, <1>3 DEF VisitAtom, LayoutInv, TypeInv, TypeOK
    <3> QED
      BY <3>1, <3>2
  <2> QED
    BY <2>1, <2>2, <2>3 DEF Visiting
<1>6. AllRegistered(s)'
  BY <1>1, <1>2, <1>5, KeptRegistered
<1>7. CASE SecChanged /\ s \in deps[sec]
  <2>1. SecChanged'
    BY <1>1, <1>3, <1>5, <1>7 DEF SecChanged, InProgress
  <2>2. s \in deps'[sec']
    BY <1>1, <1>5, <1>7
  <2> QED
    BY <1>6, <2>1, <2>2 DEF Stable
<1>8. CASE Settled(s) /\ labelpc' = labelpc
  <2>1. Settled(s)'
    BY <1>1, <1>4, <1>5, <1>8, KeptSettled DEF LayoutInv
  <2> QED
    BY <1>6, <2>1 DEF Stable
<1>9. CASE Settled(s) /\ labelpc' # labelpc
  <2>1. VisitLabel
    BY <1>9 DEF Visiting, SkipInstruction, VisitAtom, atomVars
  <2>2. PICK l, u, v : l = ThisAtom.label /\ u = sec /\ v = Here.pc
    OBVIOUS
  <2>3. /\ ThisAtom.type = "LABEL" /\ l \in Labels
        /\ labelpc' = [labelpc EXCEPT ![l] = v]
        /\ done' = (done /\ labelpc[l] = v)
        /\ deps' = deps
    BY <1>1, <2>1, <2>2, AtomFields DEF VisitLabel
  <2>4. labelpc[l] # v
    BY <1>9, <2>3 DEF LayoutInv, TypeInv, TypeOK
  <2>5. SecChanged'
    <3>1. ~done'
      BY <2>3, <2>4
    <3> QED
      BY <1>1, <1>3, <3>1 DEF SecChanged, InProgress
  <2>6. CASE s \in deps[u]
    BY <1>1, <1>6, <2>2, <2>3, <2>5, <2>6 DEF Stable
  <2>7. CASE s \notin deps[u]
    <3>1. symsec[l] = u
      BY <1>1, <2>2, <2>3 DEF LayoutInv, LabelsPlaced, Parsed, ThisAtom
    <3>2. TypeInv /\ LabelsPlaced /\ phase # "parse" /\ s # u /\ u \in Secs
      BY <1>1, <1>3, <2>2 DEF LayoutInv
    <3>3. Settled(s)'
      BY <1>1, <1>2, <1>4, <1>5, <1>9, <2>3, <2>7, <3>1, <3>2,
         IndependentSettled
    <3> QED
      BY <1>6, <3>3 DEF Stable
  <2> QED
    BY <2>6, <2>7
<1> QED
  BY <1>2, <1>7, <1>8, <1>9 DEF Stable

LEMMA ConsistentStep ==
  ASSUME LayoutInv, Next
  PROVE  Consistent'
<1> USE DEF progVars, atomVars, outerVars
<1>1. CASE AddAtom \/ AddSection \/ StartResolve
  BY <1>1 DEF AddAtom, AddSection, StartResolve, Consistent
<1>2. CASE NextSection \/ EndOfList \/ BeginPass
  <2>1. SUFFICES ASSUME phase' # "failed", ~errors', NEW s \in Secs \ todo'
                 PROVE  AllRegistered(s)' /\ Stable(s)'
    BY DEF Consistent
  <2>2. /\ phase \in {"outer", "begin"} /\ ~errors /\ todo' = todo
        /\ UNCHANGED <<prog, symsec, labelpc, lastsize, changes, at, deps>>
    BY <1>2, <2>1 DEF NextSection, EndOfList, BeginPass
  <2>3. AllRegistered(s) /\ Stable(s)
    BY <2>1, <2>2 DEF LayoutInv, Consistent
  <2>4. AllRegistered(s)'
    BY <2>2, <2>3, KeptRegistered
  <2>5. CASE Settled(s)
    BY <2>2, <2>4, <2>5, KeptSettled DEF Stable, LayoutInv
  <2>6. CASE SecChanged /\ s \in deps[sec]
    <3>0. phase = "begin"
      BY <2>2, <2>6 DEF SecChanged, InProgress
    <3>1. BeginPass
      BY <1>2, <3>0 DEF NextSection, EndOfList
    <3>2. pass \in Nat /\ pass >= 1
      BY <2>6 DEF SecChanged, LayoutInv, TypeInv, TypeOK
    <3>3. phase' = "pass" /\ pass' = pass + 1 /\ sec' = sec
      BY <2>1, <3>1 DEF BeginPass
    <3>4. pass' > 1
      BY <3>2, <3>3
    <3>5. SecChanged'
      BY <3>3, <3>4 DEF SecChanged, InProgress
    <3> QED
      BY <2>2, <2>4, <2>6, <3>3, <3>5 DEF Stable
  <2> QED
    BY <2>3, <2>5, <2>6 DEF Stable
<1>3. CASE EndPass
  <2>1. SUFFICES ASSUME ~errors', NEW s \in Secs \ todo'
                 PROVE  AllRegistered(s)' /\ Stable(s)'
    BY DEF Consistent
  <2>2. /\ phase = "pass" /\ ~MoreAtoms /\ ~errors
        /\ UNCHANGED <<prog, symsec, labelpc, lastsize, changes, at, deps,
                       sec, pass, done>>
    BY <1>3, <2>1 DEF EndPass
  <2>3. sec \in Secs /\ pass >= 1 /\ sec \in todo
    BY <2>2 DEF LayoutInv, TypeInv, Control, InProgress
  <2>4. SUFFICES /\ AllRegistered(s)
                 /\ Settled(s) \/ (SecChanged' /\ s \in deps[sec])
    <3>1. AllRegistered(s)'
      BY <2>2, <2>4, KeptRegistered
    <3>2. CASE Settled(s)
      BY <2>2, <3>1, <3>2, KeptSettled DEF Stable, LayoutInv
    <3>3. CASE SecChanged' /\ s \in deps[sec]
      BY <2>2, <3>1, <3>3 DEF Stable
    <3> QED
      BY <2>4, <3>2, <3>3
  <2>5. CASE done
    <3>1. /\ phase' = "outer"
          /\ todo' = (todo \ {sec}) \cup (IF pass > 1 THEN deps[sec] ELSE {})
      BY <1>3, <2>2, <2>5 DEF EndPass
    <3>2. CASE s = sec
      <4>1. idx \in Nat /\ NumAtoms(sec) \in Nat /\ idx > NumAtoms(sec)
        BY <2>2, <2>3, NumAtomsType
        DEF MoreAtoms, LayoutInv, TypeInv, TypeOK, Secs
      <4>2. \A j \in AtomIds(sec) : j < idx
        BY <4>1 DEF AtomIds
      <4>3. \A j \in AtomIds(sec) :
              Chained(sec, j) /\ AtomSettled(sec, j) /\ Registered(sec, j)
        BY <2>2, <2>5, <4>2 DEF LayoutInv, Walk
      <4> QED
        BY <3>2, <4>3 DEF Settled, AllRegistered
    <3>3. CASE s # sec
      <4>1. s \notin todo /\ (pass > 1 => s \notin deps[sec])
        BY <2>1, <3>1, <3>3
      <4>2. AllRegistered(s) /\ Stable(s)
        BY <2>1, <2>2, <4>1 DEF LayoutInv, Consistent
      <4>3. ~(SecChanged /\ s \in deps[sec])
        BY <2>5, <4>1 DEF SecChanged
      <4> QED
        BY <4>2, <4>3 DEF Stable
    <3> QED
      BY <3>2, <3>3
  <2>6. CASE ~done
    <3>1. phase' = "begin" /\ todo' = todo
      BY <1>3, <2>2, <2>6 DEF EndPass
    <3>2. AllRegistered(s) /\ Stable(s)
      BY <2>1, <2>2, <3>1 DEF LayoutInv, Consistent
    <3>3. SecChanged => SecChanged'
      BY <2>2, <3>1 DEF SecChanged, InProgress
    <3> QED
      BY <3>2, <3>3 DEF Stable
  <2> QED
    BY <2>5, <2>6
<1>4. CASE Visiting
  <2>1. errors' = errors /\ todo' = todo
    BY <1>4, VisitFrame DEF LayoutInv
  <2> QED
    BY <1>4, <2>1, VisitConsistent DEF Consistent
<1> QED
  BY <1>1, <1>2, <1>3, <1>4 DEF Next, Visiting

-----------------------------------------------------------------------------
LEMMA LayoutInit == Init => LayoutInv
<1> SUFFICES ASSUME Init PROVE LayoutInv
  OBVIOUS
<1>1. TypeInv
  BY InitType
<1>2. LabelsPlaced
  BY ResolverAssumption DEF Init, LabelsPlaced, Parsed, Secs
<1>3. Control /\ Walk /\ Consistent
  BY DEF Init, Control, Walk, Consistent, InProgress
<1> QED
  BY <1>1, <1>2, <1>3 DEF LayoutInv

LEMMA LayoutStep == LayoutInv /\ [Next]_vars => LayoutInv'
<1> SUFFICES ASSUME LayoutInv, [Next]_vars PROVE LayoutInv'
  OBVIOUS
<1>1. TypeInv'
  BY StepType DEF LayoutInv
<1>2. CASE Next
  BY <1>1, <1>2, LabelsStep, ControlStep, WalkStep, ConsistentStep
  DEF LayoutInv
<1>3. CASE UNCHANGED vars
  <2>1. UNCHANGED <<prog, symsec, phase, sec, idx, cur, labelpc, lastsize,
                    changes, pass, done, deps, todo, finished, errors, at>>
    BY <1>3 DEF vars, progVars, atomVars, passVars, outerVars
  <2>2. \A s : AtomIds(s)' = AtomIds(s) /\ Atoms(s)' = Atoms(s)
    BY <2>1 DEF AtomIds, NumAtoms, Atoms
  <2>3. LabelsPlaced'
    BY <2>1, <2>2 DEF LayoutInv, LabelsPlaced, Parsed
  <2>4. Control'
    BY <2>1 DEF LayoutInv, Control, InProgress
  <2>5. Consistent'
    <3>1. SUFFICES ASSUME phase \notin {"parse", "failed"}, ~errors,
                          NEW s \in Secs \ todo
                   PROVE  AllRegistered(s)' /\ Stable(s)'
      BY <2>1 DEF Consistent
    <3>2. AllRegistered(s) /\ Stable(s)
      BY <3>1 DEF LayoutInv, Consistent
    <3>3. AllRegistered(s)'
      BY <2>1, <3>2, KeptRegistered
    <3>4. CASE Settled(s)
      BY <2>1, <3>3, <3>4, KeptSettled DEF Stable, LayoutInv
    <3>5. CASE SecChanged /\ s \in deps[sec]
      BY <2>1, <3>3, <3>5 DEF Stable, SecChanged, InProgress
    <3> QED
      BY <3>2, <3>4, <3>5 DEF Stable
  <2>6. Walk'
    <3>1. SUFFICES ASSUME phase = "pass" PROVE Walk'
      BY <2>1 DEF Walk
    <3>2. PICK s \in Secs : s = sec /\ s = sec'
      BY <2>1, <3>1 DEF LayoutInv, TypeInv, InProgress
    <3>3. /\ idx <= NumAtoms(s) + 1 /\ cur = Reached(s, idx)
          /\ \A j \in AtomIds(s) : j < idx => Chained(s, j)
          /\ done => \A j \in AtomIds(s) :
                       j < idx => AtomSettled(s, j) /\ Registered(s, j)
      BY <3>1, <3>2 DEF LayoutInv, Walk
    <3>4. \A j \in AtomIds(s) : AtomSettled(s, j)' <=> AtomSettled(s, j)
      BY <2>1, SameSettled
    <3>5. \A j \in AtomIds(s) : Registered(s, j) => Registered(s, j)'
      BY <2>1, SameRegistered
    <3>6. \A j \in AtomIds(s) : Chained(s, j)' <=> Chained(s, j)
      BY <2>1, <2>2 DEF Chained, Start
    <3>7. Reached(s, idx)' = Reached(s, idx)
      BY <2>1, <2>2 DEF Reached, Start
    <3>8. NumAtoms(s)' = NumAtoms(s)
      BY <2>1 DEF NumAtoms, Atoms
    <3> QED
      BY <2>1, <2>2, <3>2, <3>3, <3>4, <3>5, <3>6, <3>7, <3>8 DEF Walk
  <2> QED
    BY <1>1, <2>3, <2>4, <2>5, <2>6 DEF LayoutInv
<1> QED
  BY <1>2, <1>3

THEOREM LayoutInvariant == Spec => []LayoutInv
  BY LayoutInit, LayoutStep, PTL DEF Spec

(* A section that is not consistent with the others is on the list, or will *)
(* be put on it when the section that is being resolved is left: resolve()  *)
(* never forgets one (todo and deps in vasm.c).                             *)
THEOREM StaleSectionsListed == Spec => []OnlyTodoIsStale
<1>1. LayoutInv => OnlyTodoIsStale
  BY DEF LayoutInv, Consistent, Stable, OnlyTodoIsStale
<1> QED
  BY <1>1, LayoutInvariant, PTL

(* When resolve() ends without an error, every label is where assemble()    *)
(* will find it and every atom has the size it was given room for, over all *)
(* sections.                                                                *)
THEOREM LayoutConsistent == Spec => []LayoutSettled
<1>1. LayoutInv => LayoutSettled
  <2> SUFFICES ASSUME LayoutInv, phase = "resolved", ~errors, NEW s \in Secs
               PROVE  Settled(s)
    BY DEF LayoutSettled
  <2>1. s \notin todo
    BY DEF LayoutInv, Control
  <2>2. Stable(s)
    BY <2>1 DEF LayoutInv, Consistent
  <2> QED
    BY <2>2 DEF Stable, SecChanged, InProgress
<1> QED
  BY <1>1, LayoutInvariant, PTL

(* A size that the optimiser gives again for the distance it looks at is    *)
(* one that reaches.                                                        *)
LEMMA FixedSizeReaches ==
  ASSUME NEW kind \in {"bra", "bsr", "bcc"}, NEW size \in InstSizes,
         NEW diff \in Int, NEW warn \in BOOLEAN,
         size = BranchSize(kind, last_size(size), diff, warn)
  PROVE  Reaches(size, diff)
<1>1. CASE size = 0
  BY <1>1 DEF last_size, BranchSize, Reaches
<1>2. CASE size = 2
  BY <1>2 DEF last_size, BranchSize, Reaches
<1>3. CASE size = 4
  <2>1. WordBranchSize(kind, diff, warn) = 4
    BY <1>3 DEF last_size, BranchSize
  <2>2. CASE diff = 2
    BY <1>3, <2>2, AtomsAssumption DEF Reaches, FitsWord
  <2>3. CASE diff # 2 /\ ~FitsWord(diff)
    <3> DEFINE near == bmin <= diff /\ diff <= bmax /\ diff # -130 /\ ~warn
    <3>1. CASE near
      BY <2>1, <2>3, <3>1 DEF WordBranchSize
    <3>2. CASE ~near
      <4>1. WordBranchSize(kind, diff, warn) = FarSize(kind)
        BY <2>3, <3>2 DEF WordBranchSize
      <4> QED
        BY <2>1, <4>1 DEF FarSize
    <3> QED
      BY <3>1, <3>2
  <2>4. CASE FitsWord(diff)
    BY <1>3, <2>4 DEF Reaches, FitsWord
  <2> QED
    BY <2>2, <2>3, <2>4
<1>4. CASE size \in {6, 8}
  BY <1>4 DEF Reaches
<1> QED
  BY <1>1, <1>2, <1>3, <1>4 DEF InstSizes

(* When resolve() ends without an error, no branch is too short for its     *)
(* destination, whatever was optimised in between (optimize_instruction).   *)
THEOREM BranchesInReach == Spec => []BranchesReach
<1>1. LayoutInv => BranchesReach
  <2> SUFFICES ASSUME LayoutInv, phase = "resolved", ~errors,
                      NEW s \in Secs, NEW i \in AtomIds(s),
                      Atoms(s)[i].type = "INSTRUCTION", pcrelok(Atoms(s)[i], s)
               PROVE  Reaches(lastsize[s][i],
                              Distance(Atoms(s)[i], Placed(s, i).pc))
    BY DEF BranchesReach
  <2>1. PICK a \in Atom : a = Atoms(s)[i]
    BY AtomsType DEF LayoutInv, TypeInv
  <2>2. AtomSettled(s, i)
    <3>1. s \notin todo
      BY DEF LayoutInv, Control
    <3>2. Stable(s)
      BY <3>1 DEF LayoutInv, Consistent
    <3> QED
      BY <3>2 DEF Stable, SecChanged, InProgress, Settled
  <2> DEFINE pc == Placed(s, i).pc
             size == lastsize[s][i]
             warn == changes[s][i] > MAXSIZECHANGES
  <2>3. size = atom_size(a, s, pc, size, warn)
    BY <2>1, <2>2, SettledAtom DEF Placed
  <2>4. size = BranchSize(a.kind, last_size(size), Distance(a, pc), warn)
    BY <2>1, <2>3 DEF atom_size, instruction_size
  <2>5. a.kind \in {"bra", "bsr", "bcc"} /\ a.target \in Labels
    BY <2>1, AtomFields
  <2>6. size \in InstSizes
    BY <2>1 DEF LayoutInv, TypeInv
  <2>7. Distance(a, pc) \in Int
    <3>1. at[s][i] \in Cursor
      BY DEF LayoutInv, TypeInv, TypeOK
    <3>2. Placed(s, i) \in Cursor
      BY <2>1, <3>1, EnterType DEF Placed
    <3>3. pc \in Int
      BY <3>2, AddrIsInt DEF Cursor
    <3>4. labelpc[a.target] \in Int
      BY <2>5, AddrIsInt DEF LayoutInv, TypeInv, TypeOK
    <3>5. labelpc[a.target] - (pc + 2) \in Int
      BY <3>3, <3>4
    <3> QED
      BY <3>5, WrapType, AddrIsInt DEF Distance
  <2>8. PICK w \in BOOLEAN : w <=> warn
    OBVIOUS
  <2> HIDE DEF pc, size, warn
  <2>9. size = BranchSize(a.kind, last_size(size), Distance(a, pc), w)
    BY <2>4, <2>8
  <2>10. Reaches(size, Distance(a, pc))
    BY <2>5, <2>6, <2>7, <2>9, FixedSizeReaches
  <2> QED
    BY <2>1, <2>10 DEF pc, size
<1> QED
  BY <1>1, LayoutInvariant, PTL

(* In safe mode an instruction changes its size only while everything       *)
(* before it in its section is laid out consistently: one instruction a     *)
(* pass (vasm.c:23).                                                        *)
THEOREM SafeModeHolds == Spec => SafeModeIsSafe
<1>1. LayoutInv /\ [Next]_vars => SafeStep
  <2> SUFFICES ASSUME LayoutInv, [Next]_vars, NEW s \in Secs,
                      NEW i \in AtomIds(s), Atoms(s)[i].type = "INSTRUCTION",
                      phase = "pass", SafeMode,
                      lastsize'[s][i] # lastsize[s][i]
               PROVE  /\ \A j \in 1..i - 1 : Chained(s, j) /\ AtomSettled(s, j)
                      /\ ~done'
    BY DEF SafeStep
  <2>1. VisitAtom
    BY DEF Next, AddAtom, AddSection, StartResolve, NextSection, EndOfList,
           BeginPass, EndPass, VisitLabel, SkipInstruction, vars, atomVars
  <2>2. /\ sec \in Secs /\ idx \in AtomIds(sec)
    BY <2>1, VisitFrame DEF LayoutInv, Visiting
  <2>3. NewSize # lastsize[sec][idx] /\ done' = FALSE
        /\ lastsize' = [lastsize EXCEPT ![sec][idx] = NewSize]
    BY <2>1 DEF VisitAtom
  <2>4. s = sec /\ i = idx
    BY <2>2, <2>3 DEF LayoutInv, TypeInv, TypeOK
  <2>5. done
    BY <2>1, <2>4 DEF VisitAtom, Skipped, ThisAtom
  <2>6. NumAtoms(sec) \in Nat /\ i \in Nat
    BY <2>2, <2>4, NumAtomsType DEF AtomIds, LayoutInv, TypeInv
  <2>7. \A j \in 1..i - 1 : j \in AtomIds(sec) /\ j < idx
    BY <2>2, <2>4, <2>6 DEF AtomIds
  <2>8. \A j \in 1..i - 1 : Chained(sec, j) /\ AtomSettled(sec, j)
    BY <2>5, <2>7 DEF LayoutInv, Walk
  <2> QED
    BY <2>3, <2>4, <2>8
<1> QED
  BY <1>1, LayoutInvariant, PTL DEF Spec, SafeModeIsSafe

=============================================================================
