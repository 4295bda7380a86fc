-------------------------- MODULE Assemble_proofs ---------------------------
(***************************************************************************)
(* Proofs about Assemble, for every program: the walk of assemble() finds   *)
(* what resolve() left, and what it leaves behind is written where the      *)
(* addresses say.                                                           *)
(*                                                                          *)
(* The argument: assemble() changes nothing that the layout depends on, so  *)
(* the invariant of Layout_proofs goes on holding (Frame), and at every     *)
(* atom the cursor is where the sizes before it lead to (Walked).  For the  *)
(* bytes, the two walks are compared atom by atom: outside of a relocated   *)
(* block they do the same (Fresh), inside of it the distance of assemble()  *)
(* to the start of the block is that of the output module (Written), since  *)
(* an alignment is already a space of the same size.                        *)
(***************************************************************************)
EXTENDS Assemble, Layout_proofs, WellFoundedInduction

-----------------------------------------------------------------------------
(* Arithmetic of a taddr. *)

LEMMA ModUnique ==
  ASSUME NEW m \in Nat \ {0}, NEW n \in Int, NEW k \in Int,
         NEW r \in 0..m - 1, n = k * m + r
  PROVE  n % m = r
  OBVIOUS

LEMMA ModSplit ==
  ASSUME NEW m \in Nat \ {0}, NEW n \in Int
  PROVE  \E k \in Int : n = k * m + (n % m)
<1>1. n = (n \div m) * m + (n % m)
  OBVIOUS
<1>2. n \div m \in Int
  OBVIOUS
<1> QED
  BY <1>1, <1>2

LEMMA WrapUnique ==
  ASSUME NEW n \in Int, NEW r \in Addr, NEW k \in Int,
         n = k * (2 * Half) + r
  PROVE  Wrap(n) = r
<1> DEFINE m == 2 * Half
<1>1. m \in Nat \ {0} /\ Half \in Nat
  BY AtomsAssumption
<1>2. r + Half \in 0..m - 1 /\ r \in Int
  BY AtomsAssumption DEF Addr
<1>3. n + Half = k * m + (r + Half) /\ n + Half \in Int
  BY <1>1, <1>2
<1> HIDE DEF m
<1>4. (n + Half) % m = r + Half
  BY <1>1, <1>2, <1>3, ModUnique
<1> QED
  BY <1>1, <1>2, <1>4 DEF Wrap, m

LEMMA WrapSplit ==
  ASSUME NEW n \in Int
  PROVE  \E k \in Int : n = k * (2 * Half) + Wrap(n)
<1> DEFINE m == 2 * Half
<1>1. m \in Nat \ {0} /\ Half \in Nat /\ n + Half \in Int
  BY AtomsAssumption
<1> HIDE DEF m
<1>2. PICK k \in Int : n + Half = k * m + ((n + Half) % m)
  BY <1>1, ModSplit
<1>3. (n + Half) % m \in Int
  BY <1>1, ModRange
<1>4. Wrap(n) = ((n + Half) % m) - Half
  BY DEF Wrap, m
<1>5. k * m \in Int
  BY <1>1
<1> DEFINE q == (n + Half) % m
           p == k * m
<1>6. n = p + Wrap(n)
  <2>1. n + Half = p + q /\ q \in Int /\ p \in Int /\ Wrap(n) = q - Half
    BY <1>2, <1>3, <1>4, <1>5
  <2> HIDE DEF p, q
  <2> QED
    BY <1>1, <2>1
<1> QED
  BY <1>6 DEF m, p

LEMMA WrapId ==
  ASSUME NEW r \in Addr
  PROVE  Wrap(r) = r
<1> DEFINE m == 2 * Half
           n == r + Half
<1>1. m \in Nat \ {0} /\ Half \in Nat /\ r \in Int
  BY AtomsAssumption DEF Addr
<1>2. n \in 0..m - 1
  BY AtomsAssumption DEF Addr
<1>3. n - Half = r
  BY <1>1
<1>4. Wrap(r) = (n % m) - Half
  BY DEF Wrap
<1> HIDE DEF m, n
<1>5. n \in Int /\ 0 \in Int /\ n = 0 * m + n
  BY <1>1, <1>2
<1>6. n % m = n
  BY <1>1, <1>2, <1>5, ModUnique
<1> QED
  BY <1>3, <1>4, <1>6

(* What differs by turns around the address space is the same address. *)
LEMMA WrapTurns ==
  ASSUME NEW a \in Int, NEW b \in Int, NEW k \in Int,
         a = k * (2 * Half) + b
  PROVE  Wrap(a) = Wrap(b)
<1> DEFINE m == 2 * Half
<1>1. m \in Int
  BY AtomsAssumption
<1>2. PICK j \in Int : b = j * (2 * Half) + Wrap(b)
  BY WrapSplit
<1>3. Wrap(b) \in Addr /\ Wrap(b) \in Int
  BY WrapType, AddrIsInt
<1> HIDE DEF m
<1>4. a = k * m + (j * m + Wrap(b))
  BY <1>2 DEF m
<1>5. k * m + (j * m + Wrap(b)) = (k + j) * m + Wrap(b)
  BY <1>1, <1>3
<1>6. a = (k + j) * (2 * Half) + Wrap(b)
  BY <1>4, <1>5 DEF m
<1> QED
  BY <1>3, <1>6, WrapUnique

LEMMA WrapPlus ==
  ASSUME NEW a \in Int, NEW b \in Int
  PROVE  /\ Wrap(Wrap(a) + b) = Wrap(a + b)
         /\ Wrap(b + Wrap(a)) = Wrap(b + a)
         /\ Wrap(Wrap(a) - b) = Wrap(a - b)
         /\ Wrap(b - Wrap(a)) = Wrap(b - a)
<1> DEFINE m == 2 * Half
<1>1. m \in Int
  BY AtomsAssumption
<1>2. PICK k \in Int : a = k * (2 * Half) + Wrap(a)
  BY WrapSplit
<1>3. Wrap(a) \in Int
  BY WrapType, AddrIsInt
<1> DEFINE w == Wrap(a)
<1>4. a = k * m + w /\ w \in Int
  BY <1>2, <1>3
<1> HIDE DEF m, w
<1>5. k * m \in Int /\ -k \in Int /\ (-k) * m = -(k * m)
  BY <1>1
<1>6. a + b = k * m + (w + b) /\ b + a = k * m + (b + w)
        /\ a - b = k * m + (w - b)
  BY <1>4, <1>5
<1>7. b - a = (-k) * m + (b - w)
  BY <1>4, <1>5
<1> QED
  BY <1>4, <1>5, <1>6, <1>7, WrapTurns DEF m, w

-----------------------------------------------------------------------------
(* Induction over the naturals, for sets. *)

LEMMA Below ==
  ASSUME NEW x \in Nat, NEW y \in Nat, y < x
  PROVE  <<y, x>> \in OpToRel(<, Nat)
<1> DEFINE pair == <<y, x>>
<1>1. pair \in Nat \X Nat /\ pair[1] < pair[2]
  OBVIOUS
<1> HIDE DEF pair
<1>2. pair \in {p \in Nat \X Nat : p[1] < p[2]}
  BY <1>1
<1>3. {p \in Nat \X Nat : p[1] < p[2]} = OpToRel(<, Nat)
  BY DEF OpToRel
<1> QED
  BY <1>2, <1>3 DEF pair

LEMMA SetInduction ==
  ASSUME NEW S, 0 \in S, \A n \in Nat : n \in S => n + 1 \in S
  PROVE  \A n \in Nat : n \in S
<1> DEFINE T == Nat \ S
           R == OpToRel(<, Nat)
<1>1. \A x \in Nat : \A y \in Nat : y < x => <<y, x>> \in R
  BY Below, Zenon
<1>2. SUFFICES ASSUME T # {} PROVE FALSE
  OBVIOUS
<1>3. PICK x \in T : \A y \in T : <<y, x>> \notin R
  <2>1. T \subseteq Nat /\ IsWellFoundedOn(R, Nat)
    BY NatLessThanWellFounded
  <2> HIDE DEF T, R
  <2> QED
    BY <1>2, <2>1, WFMin, Zenon
<1> HIDE DEF R
<1>4. x # 0 /\ x \in Nat
  OBVIOUS
<1>5. x - 1 \in Nat /\ x - 1 < x
  BY <1>4
<1>6. x - 1 \notin T
  BY <1>1, <1>3, <1>4, <1>5
<1> QED
  BY <1>4, <1>5, <1>6

-----------------------------------------------------------------------------
(* The walk of the output module. *)

(* One atom of it. *)
OutputNext(section, aligns, gaps, sizes, i, pc) ==
  Wrap(Aligned(section.atoms[i], aligns[i], Wrap(pc + gaps[i])) + sizes[i])

LEMMA OutputIs ==
  ASSUME NEW section \in SectionDesc, NEW aligns, NEW gaps, NEW sizes
  PROVE  LET pcs == OutputPcs(section, aligns, gaps, sizes) IN
         \A i \in 0..Len(section.atoms) :
           pcs[i] = IF i = 0 THEN section.org
                    ELSE OutputNext(section, aligns, gaps, sizes, i,
                                    pcs[i - 1])
<1> DEFINE next(i, pc) == OutputNext(section, aligns, gaps, sizes, i, pc)
           Is(f, n) ==
             f = [i \in 0..n |-> IF i = 0 THEN section.org
                                  ELSE next(i, f[i - 1])]
           S == {n \in Nat : \E f : Is(f, n)}
<1>1. 0 \in S
  <2> HIDE DEF next
  <2>1. Is([i \in 0..0 |-> section.org], 0)
    OBVIOUS
  <2> QED
    BY <2>1
<1>2. ASSUME NEW n \in Nat, n \in S PROVE n + 1 \in S
  <2> HIDE DEF next
  <2>1. PICK f : Is(f, n)
    BY <1>2
  <2> DEFINE g == [i \in 0..n + 1 |-> IF i = n + 1 THEN next(i, f[n])
                                      ELSE f[i]]
  <2>2. ASSUME NEW i \in 0..n + 1
        PROVE  g[i] = IF i = 0 THEN section.org ELSE next(i, g[i - 1])
    BY <2>1
  <2>3. g = [i \in 0..n + 1 |-> IF i = 0 THEN section.org
                                ELSE next(i, g[i - 1])]
    BY <2>2
  <2> HIDE DEF g
  <2>4. Is(g, n + 1)
    BY <2>3
  <2> QED
    BY <2>4
<1> HIDE DEF S
<1>3. \A n \in Nat : n \in S
  BY <1>1, <1>2, SetInduction
<1> DEFINE pcs == OutputPcs(section, aligns, gaps, sizes)
<1>4. Len(section.atoms) \in Nat
  BY DEF SectionDesc
<1>5. \E f : Is(f, Len(section.atoms))
  BY <1>3, <1>4 DEF S
<1>6. pcs = CHOOSE f : Is(f, Len(section.atoms))
  BY DEF OutputPcs, OutputNext
<1> HIDE DEF pcs
<1>7. Is(pcs, Len(section.atoms))
  <2> HIDE DEF Is
  <2> QED
    BY <1>5, <1>6
<1> HIDE DEF next
<1>8. \A i \in 0..Len(section.atoms) :
        pcs[i] = IF i = 0 THEN section.org ELSE next(i, pcs[i - 1])
  BY <1>7
<1> QED
  BY <1>8 DEF next, pcs

(* What comes later does not matter. *)
LEMMA OutputFrame ==
  ASSUME NEW section \in SectionDesc, NEW aligns, NEW gaps, NEW sizes,
         NEW aligns2, NEW gaps2, NEW n \in 0..Len(section.atoms),
         \A i \in 1..n : aligns2[i] = aligns[i] /\ gaps2[i] = gaps[i]
  PROVE  OutputPcs(section, aligns2, gaps2, sizes)[n]
           = OutputPcs(section, aligns, gaps, sizes)[n]
<1> DEFINE f == OutputPcs(section, aligns, gaps, sizes)
           g == OutputPcs(section, aligns2, gaps2, sizes)
           S == {m \in Nat : m <= n => g[m] = f[m]}
<1>1. Len(section.atoms) \in Nat
  BY DEF SectionDesc
<1>2. \A i \in 0..n :
        /\ f[i] = IF i = 0 THEN section.org
                  ELSE OutputNext(section, aligns, gaps, sizes, i, f[i - 1])
        /\ g[i] = IF i = 0 THEN section.org
                  ELSE OutputNext(section, aligns2, gaps2, sizes, i, g[i - 1])
  BY <1>1, OutputIs
<1> HIDE DEF f, g
<1>3. 0 \in S
  BY <1>2
<1>4. ASSUME NEW m \in Nat, m \in S PROVE m + 1 \in S
  <2>1. SUFFICES ASSUME m + 1 <= n PROVE g[m + 1] = f[m + 1]
    OBVIOUS
  <2>2. m + 1 \in 0..n /\ m + 1 \in 1..n /\ (m + 1) - 1 = m /\ m + 1 # 0
    BY <2>1
  <2>3. g[m] = f[m]
    BY <1>4, <2>1
  <2>4. aligns2[m + 1] = aligns[m + 1] /\ gaps2[m + 1] = gaps[m + 1]
    BY <2>2
  <2> QED
    BY <1>2, <2>2, <2>3, <2>4 DEF OutputNext
<1> HIDE DEF S
<1>5. \A m \in Nat : m \in S
  BY <1>3, <1>4, SetInduction
<1> QED
  BY <1>5 DEF S, f, g

-----------------------------------------------------------------------------
(* What assemble() leaves alone. *)

Assembling == BeginAssemble \/ NextAssemble \/ AssembleAtom

(* The types of what Assemble adds, and where the walk is. *)
WalkType ==
  /\ walk \in Walks
  /\ ovflw \in BOOLEAN /\ overflow \in BOOLEAN
  /\ DOMAIN align = Secs /\ DOMAIN gap = Secs
  /\ \A s \in Secs : /\ align[s] \in [AtomIds(s) -> Align]
                     /\ gap[s] \in [AtomIds(s) -> Int]
  /\ walk # "waiting" => phase = "resolved"
  /\ walk = "section" => sec \in Secs /\ idx <= NumAtoms(sec) + 1

LEMMA SameProgram ==
  ASSUME [ANext]_avars
  PROVE  /\ prog' = prog
         /\ \A s : Atoms(s)' = Atoms(s) /\ AtomIds(s)' = AtomIds(s)
                     /\ NumAtoms(s)' = NumAtoms(s) /\ Start(s)' = Start(s)
<1>1. CASE Resolve
  BY <1>1 DEF Resolve, Next, AddAtom, AddSection, StartResolve, NextSection,
     EndOfList, BeginPass, EndPass, VisitLabel, SkipInstruction, VisitAtom,
     Visit, progVars, Atoms, AtomIds, NumAtoms, Start
<1>2. CASE Assembling
  BY <1>2 DEF Assembling, BeginAssemble, NextAssemble, AssembleAtom,
     progVars, Atoms, AtomIds, NumAtoms, Start
<1>3. CASE UNCHANGED avars
  BY <1>3 DEF avars, vars, progVars, Atoms, AtomIds, NumAtoms, Start
<1> QED
  BY <1>1, <1>2, <1>3 DEF ANext, Assembling

(* While resolve() is not done, assemble() has not begun. *)
LEMMA ResolveWaits ==
  ASSUME LayoutInv, WalkType, Resolve
  PROVE  /\ walk = "waiting" /\ walk' = "waiting"
         /\ UNCHANGED walkVars /\ LayoutInv'
<1>1. phase # "resolved"
  BY DEF Resolve, Next, AddAtom, AddSection, StartResolve, NextSection,
     EndOfList, BeginPass, EndPass, VisitLabel, SkipInstruction, VisitAtom,
     Visit
<1> QED
  BY <1>1, LayoutStep DEF Resolve, walkVars, WalkType

LEMMA PadType ==
  ASSUME TypeInv, MoreAtoms
  PROVE  PadBytes \in Int
<1>1. cur.pc \in Addr
  BY DEF TypeInv, TypeOK, Cursor
<1>2. pcalign(ThisAtom, cur.pc) \in Int
  BY <1>1, CurrentAtom, PcalignType, AddrIsInt
<1>3. pcalign(ThisAtom, cur.pc) - cur.pc \in Int
  BY <1>1, <1>2, AddrIsInt
<1> QED
  BY <1>3, WrapType, AddrIsInt DEF PadBytes

LEMMA AssemblingFrame ==
  ASSUME LayoutInv, WalkType, Assembling
  PROVE  /\ phase = "resolved" /\ phase' = "resolved"
         /\ UNCHANGED <<prog, symsec, labelpc, lastsize, changes, pass, deps,
                        fastphase, done, extrapass, todo, finished, at>>
         /\ sec' \in 0..NumSecs /\ idx' \in Nat \ {0} /\ cur' \in Cursor
         /\ errors' \in BOOLEAN /\ (errors => errors')
<1> USE DEF progVars, atomVars, passVars, outerVars
<1>1. sec \in 0..NumSecs /\ idx \in Nat \ {0} /\ cur \in Cursor
        /\ errors \in BOOLEAN /\ TypeOK
  BY DEF LayoutInv, TypeInv, TypeOK
<1>2. \A s \in Secs : Start(s) \in Cursor
  BY <1>1, StartsType
<1>3. NumSecs \in Nat
  BY ResolverAssumption
<1>4. CASE BeginAssemble
  <2>1. NumSecs # 0 => 1 \in Secs
    BY <1>3 DEF Secs
  <2>2. \/ UNCHANGED <<sec, idx, cur>>
        \/ NumSecs # 0 /\ sec' = 1 /\ idx' = 1 /\ cur' = Start(1)
    BY <1>4 DEF BeginAssemble
  <2>3. sec' \in 0..NumSecs /\ idx' \in Nat \ {0} /\ cur' \in Cursor
    BY <1>1, <1>2, <1>3, <2>1, <2>2
  <2> QED
    BY <1>1, <1>4, <2>3 DEF BeginAssemble
<1>5. CASE NextAssemble
  <2>1. sec \in Secs /\ sec # NumSecs => sec + 1 \in Secs
    BY <1>3 DEF Secs
  <2>2. sec \in Secs /\ phase = "resolved"
    BY <1>5 DEF NextAssemble, WalkType
  <2>3. \/ UNCHANGED <<sec, idx, cur>>
        \/ sec # NumSecs /\ sec' = sec + 1 /\ idx' = 1
             /\ cur' = Start(sec + 1)
    BY <1>5 DEF NextAssemble
  <2>4. sec' \in 0..NumSecs /\ idx' \in Nat \ {0} /\ cur' \in Cursor
    BY <1>1, <1>2, <1>3, <2>1, <2>2, <2>3 DEF Secs
  <2> QED
    BY <1>1, <1>5, <2>2, <2>4 DEF NextAssemble
<1>6. CASE AssembleAtom
  <2>1. MoreAtoms /\ TypeInv
    BY <1>6 DEF AssembleAtom, LayoutInv
  <2>2. FinalSize \in Int
    BY <2>1, NewSizeType DEF FinalSize, NewSize
  <2>3. Here \in Cursor
    BY <2>1, CurrentAtom
  <2>4. cur' \in Cursor
    BY <1>6, <2>2, <2>3, AdvanceType DEF AssembleAtom
  <2>5. phase = "resolved"
    BY <1>6 DEF AssembleAtom, WalkType
  <2>6. errors' \in BOOLEAN /\ (errors => errors')
    BY <1>1, <1>6 DEF AssembleAtom
  <2> QED
    BY <1>1, <1>6, <2>4, <2>5, <2>6 DEF AssembleAtom
<1> QED
  BY <1>4, <1>5, <1>6 DEF Assembling

LEMMA LayoutKept ==
  ASSUME LayoutInv, phase = "resolved", phase' = "resolved",
         UNCHANGED <<prog, symsec, labelpc, lastsize, changes, pass, deps,
                     fastphase, done, extrapass, todo, finished, at>>,
         sec' \in 0..NumSecs, idx' \in Nat \ {0}, cur' \in Cursor,
         errors' \in BOOLEAN, errors => errors'
  PROVE  LayoutInv'
<1>1. TypeInv'
  <2>1. Tables /\ Scalars
    BY TypeParts DEF LayoutInv
  <2>2. Tables'
    BY <2>1, SameTables
  <2>3. Scalars'
    BY <2>1 DEF Scalars, InProgress
  <2> QED
    BY <2>2, <2>3, TypePartsNext
<1>2. \A s : AtomIds(s)' = AtomIds(s) /\ Atoms(s)' = Atoms(s)
  BY DEF AtomIds, NumAtoms, Atoms
<1>3. LabelsPlaced'
  BY <1>2 DEF LayoutInv, LabelsPlaced, Parsed
<1>4. Control' /\ Walk'
  BY DEF LayoutInv, Control, Walk, InProgress
<1>5. Consistent'
  <2>1. SUFFICES ASSUME ~errors', NEW s \in Secs \ todo
                 PROVE  AllRegistered(s)' /\ Stable(s)'
    BY DEF Consistent
  <2>2. AllRegistered(s) /\ Settled(s)
    BY <2>1 DEF LayoutInv, Consistent, Stable, SecChanged, InProgress
  <2> QED
    BY <2>2, KeptRegistered, KeptSettled DEF Stable, LayoutInv
<1> QED
  BY <1>1, <1>3, <1>4, <1>5 DEF LayoutInv

LEMMA WalkTypeStep ==
  ASSUME LayoutInv, WalkType, [ANext]_avars
  PROVE  WalkType'
<1>1. NumSecs \in Nat
  BY ResolverAssumption
<1>2. CASE Resolve
  BY <1>2, ResolveWaits, SameProgram DEF WalkType, walkVars
<1>3. CASE BeginAssemble
  <2>1. NumSecs # 0 => 1 \in Secs /\ NumAtoms(1) \in Nat
    BY <1>1, NumAtomsType DEF Secs, LayoutInv, TypeInv
  <2>2. phase' = "resolved" /\ UNCHANGED <<align, gap, overflow>>
          /\ ovflw' = FALSE
    BY <1>3 DEF BeginAssemble
  <2>3. \/ walk' = "done"
        \/ NumSecs # 0 /\ walk' = "section" /\ sec' = 1 /\ idx' = 1
    BY <1>3 DEF BeginAssemble
  <2>4. \/ sec' \in Secs /\ idx' <= NumAtoms(sec)' + 1
        \/ walk' = "done"
    BY <2>1, <2>3, SameProgram DEF NumAtoms, Atoms
  <2> QED
    BY <2>2, <2>3, <2>4, SameProgram DEF WalkType, Walks
<1>4. CASE NextAssemble
  <2>1. sec \in Secs /\ phase = "resolved"
    BY <1>4 DEF NextAssemble, WalkType
  <2>2. sec # NumSecs => sec + 1 \in Secs /\ NumAtoms(sec + 1) \in Nat
    BY <1>1, <2>1, NumAtomsType DEF Secs, LayoutInv, TypeInv
  <2>3. phase' = "resolved" /\ UNCHANGED <<align, gap, overflow>>
          /\ ovflw' = FALSE
    BY <1>4, <2>1 DEF NextAssemble
  <2>4. \/ walk' = "done"
        \/ sec # NumSecs /\ walk' = "section" /\ sec' = sec + 1 /\ idx' = 1
    BY <1>4 DEF NextAssemble
  <2>5. \/ sec' \in Secs /\ idx' <= NumAtoms(sec)' + 1
        \/ walk' = "done"
    BY <2>2, <2>4, SameProgram DEF NumAtoms, Atoms
  <2> QED
    BY <2>3, <2>4, <2>5, SameProgram DEF WalkType, Walks
<1>5. CASE AssembleAtom
  <2>1. MoreAtoms /\ TypeInv /\ phase = "resolved"
    BY <1>5 DEF AssembleAtom, LayoutInv, WalkType
  <2>2. sec \in Secs /\ idx \in AtomIds(sec) /\ PadBytes \in Int
    BY <2>1, CurrentAtom, PadType
  <2>3. NumAtoms(sec) \in Nat /\ idx \in Nat /\ idx <= NumAtoms(sec)
    BY <2>1, <2>2, NumAtomsType DEF AtomIds, TypeInv
  <2>4. \A s \in Secs : /\ align'[s] \in [AtomIds(s) -> Align]
                        /\ gap'[s] \in [AtomIds(s) -> Int]
    BY <1>5, <2>2 DEF AssembleAtom, alignment_to_space, WalkType, Align
  <2>5. DOMAIN align' = Secs /\ DOMAIN gap' = Secs
    BY <1>5 DEF AssembleAtom, alignment_to_space, WalkType
  <2>6. phase' = "resolved" /\ sec' = sec /\ idx' = idx + 1
    BY <1>5, <2>1 DEF AssembleAtom
  <2>7. walk' \in Walks
    BY <1>5 DEF AssembleAtom, WalkType, Walks
  <2>8. ovflw' \in BOOLEAN /\ overflow' \in BOOLEAN
    BY <1>5 DEF AssembleAtom, WalkType, Overflows
  <2> QED
    BY <2>2, <2>3, <2>4, <2>5, <2>6, <2>7, <2>8, SameProgram DEF WalkType
<1>6. CASE UNCHANGED avars
  <2>1. UNCHANGED <<walk, align, gap, ovflw, overflow, phase, sec, idx>>
    BY <1>6 DEF avars, vars, walkVars
  <2> QED
    BY <2>1, SameProgram DEF WalkType
<1> QED
  BY <1>2, <1>3, <1>4, <1>5, <1>6 DEF ANext

-----------------------------------------------------------------------------
(* The walk of assemble() finds what resolve() left. *)

Walked == Walking => cur = Reached(sec, idx)

AssembleInv == LayoutInv /\ WalkType /\ Walked

(* At an atom, when nothing has gone wrong. *)
LEMMA AtAtom ==
  ASSUME AssembleInv, Walking, MoreAtoms
  PROVE  /\ TypeInv /\ sec \in Secs /\ idx \in AtomIds(sec)
         /\ Chained(sec, idx) /\ AtomSettled(sec, idx)
         /\ at[sec][idx] = cur /\ Here = Placed(sec, idx)
<1>1. TypeInv /\ sec \in Secs /\ idx \in AtomIds(sec)
  BY CurrentAtom DEF AssembleInv, LayoutInv
<1>2. Settled(sec)
  <2>1. phase = "resolved" /\ ~errors /\ todo = {}
    BY DEF AssembleInv, WalkType, Walking, LayoutInv, Control
  <2> QED
    BY <1>1, <2>1
    DEF AssembleInv, LayoutInv, Consistent, Stable, SecChanged, InProgress
<1>3. Chained(sec, idx) /\ AtomSettled(sec, idx)
  BY <1>1, <1>2 DEF Settled
<1>4. at[sec][idx] = cur
  BY <1>3 DEF Chained, AssembleInv, Walked, Reached
<1> QED
  BY <1>1, <1>3, <1>4 DEF Here, Placed, ThisAtom

LEMMA FinalSizeIsLast ==
  ASSUME AssembleInv, Walking, MoreAtoms, ~NotConstant
  PROVE  FinalSize = lastsize[sec][idx]
<1>1. CASE ThisAtom.type = "LABEL"
  <2>1. lastsize[sec][idx] = 0
    BY <1>1, AtAtom DEF TypeInv, ThisAtom
  <2> QED
    BY <1>1, <2>1 DEF FinalSize, atom_size
<1>2. CASE ThisAtom.type # "LABEL"
  <2>1. ~(ThisAtom.type = "SPACE" /\ ~Const(ThisAtom.exp))
    BY DEF NotConstant
  <2> QED
    BY <1>2, <2>1, AtAtom DEF AtomSettled, FinalSize, ThisAtom
<1> QED
  BY <1>1, <1>2

LEMMA WalkedStep ==
  ASSUME AssembleInv, [ANext]_avars
  PROVE  Walked'
<1>1. LayoutInv /\ WalkType
  BY DEF AssembleInv
<1>2. CASE Resolve
  BY <1>1, <1>2, ResolveWaits DEF Walked, Walking
<1>3. CASE BeginAssemble \/ NextAssemble
  <2>1. \/ walk' # "section"
        \/ idx' = 1 /\ cur' = Start(sec')
    BY <1>3 DEF BeginAssemble, NextAssemble
  <2> QED
    BY <2>1, SameProgram DEF Walked, Walking, Reached
<1>4. CASE AssembleAtom
  <2>1. SUFFICES ASSUME Walking' PROVE cur' = Reached(sec, idx)'
    BY DEF Walked
  <2>2. Walking /\ MoreAtoms /\ ~NotConstant
    BY <1>4, <2>1 DEF AssembleAtom, Walking
  <2>3. cur' = Advance(Placed(sec, idx), lastsize[sec][idx])
    BY <1>4, <2>2, AtAtom, FinalSizeIsLast DEF AssembleAtom
  <2>4. sec' = sec /\ idx' = idx + 1 /\ UNCHANGED <<at, lastsize>>
    BY <1>4 DEF AssembleAtom, atomVars
  <2>5. idx \in Nat \ {0} /\ idx + 1 # 1 /\ (idx + 1) - 1 = idx
    BY <1>1 DEF LayoutInv, TypeInv, TypeOK
  <2>6. Reached(sec, idx)' = Advance(Placed(sec, idx), lastsize[sec][idx])
    BY <2>4, <2>5, SameProgram DEF Reached, Placed
  <2> QED
    BY <2>3, <2>6
<1>5. CASE UNCHANGED avars
  <2>1. UNCHANGED <<walk, errors, sec, idx, cur, at, lastsize>>
    BY <1>5 DEF avars, vars, walkVars, atomVars
  <2> QED
    BY <2>1, SameProgram DEF AssembleInv, Walked, Walking, Reached
<1> QED
  BY <1>2, <1>3, <1>4, <1>5 DEF ANext

LEMMA AssembleInit == AInit => AssembleInv
<1> SUFFICES ASSUME AInit PROVE AssembleInv
  OBVIOUS
<1>1. LayoutInv
  BY LayoutInit DEF AInit
<1>2. \A s \in Secs : \A i \in AtomIds(s) : Atoms(s)[i].align \in Align
  BY <1>1, AtomsType, AtomFields DEF LayoutInv, TypeInv
<1>3. WalkType
  <2>1. ASSUME NEW s \in Secs
        PROVE  align[s] \in [AtomIds(s) -> Align] /\ gap[s] \in [AtomIds(s) -> Int]
    <3>1. align[s] = [i \in AtomIds(s) |-> Atoms(s)[i].align]
            /\ gap[s] = [i \in AtomIds(s) |-> 0]
      BY DEF AInit
    <3> QED
      BY <1>2, <3>1
  <2>2. DOMAIN align = Secs /\ DOMAIN gap = Secs
    BY DEF AInit
  <2> QED
    BY <2>1, <2>2 DEF AInit, WalkType, Walks
<1>4. Walked
  BY DEF AInit, Walked, Walking
<1> QED
  BY <1>1, <1>3, <1>4 DEF AssembleInv

LEMMA AssembleStep == AssembleInv /\ [ANext]_avars => AssembleInv'
<1> SUFFICES ASSUME AssembleInv, [ANext]_avars PROVE AssembleInv'
  OBVIOUS
<1>1. LayoutInv /\ WalkType
  BY DEF AssembleInv
<1>2. LayoutInv'
  <2>1. CASE Resolve
    BY <1>1, <2>1, ResolveWaits
  <2>2. CASE Assembling
    BY <1>1, <2>2, AssemblingFrame, LayoutKept
  <2>3. CASE UNCHANGED avars
    BY <1>1, <2>3, LayoutStep DEF avars
  <2> QED
    BY <2>1, <2>2, <2>3 DEF ANext, Assembling
<1> QED
  BY <1>1, <1>2, WalkTypeStep, WalkedStep DEF AssembleInv

THEOREM AssembleInvariant == ASpec => []AssembleInv
  BY AssembleInit, AssembleStep, PTL DEF ASpec

(* assemble() comes to every atom where the last pass of resolve() came to  *)
(* it, with the size it was given room for, and finds every label at the    *)
(* address its symbol has.                                                  *)
THEOREM FinalWalkAgrees == ASpec => []AssembledAsResolved
<1>1. AssembleInv => AssembledAsResolved
  <2> SUFFICES ASSUME AssembleInv, Walking
               PROVE  /\ cur = IF idx = 1 THEN Start(sec)
                               ELSE Advance(Placed(sec, idx - 1),
                                            lastsize[sec][idx - 1])
                      /\ MoreAtoms /\ ThisAtom.type = "LABEL"
                           => Here.pc = labelpc[ThisAtom.label]
    BY DEF AssembledAsResolved
  <2>1. cur = IF idx = 1 THEN Start(sec)
              ELSE Advance(Placed(sec, idx - 1), lastsize[sec][idx - 1])
    BY DEF AssembleInv, Walked, Reached, Placed
  <2>2. MoreAtoms /\ ThisAtom.type = "LABEL"
          => Here.pc = labelpc[ThisAtom.label]
    BY AtAtom DEF AtomSettled, ThisAtom
  <2> QED
    BY <2>1, <2>2
<1> QED
  BY <1>1, AssembleInvariant, PTL

-----------------------------------------------------------------------------
(* What one atom does to the cursor and to the place in the object. *)

(* Nothing in the code limits the operand of an alignment directive, but an *)
(* alignment of half the address space or more cannot always be made.       *)
SmallAlignments ==
  \A p \in Programs : \A s \in Secs : \A i \in 1..Len(p[s].atoms) :
    2 * p[s].atoms[i].align <= Half

LEMMA BalignRange ==
  ASSUME NEW n \in Int, NEW d \in Align
  PROVE  balign(n, d) \in 0..2 * d - 1 /\ (d = 1 => balign(n, d) = 0)
<1>1. d \in Nat \ {0}
  BY DEF Align
<1>2. n % d \in 0..d - 1 /\ (-n) % d \in 0..d - 1
  BY <1>1, ModRange
<1>3. CMod(n, d) \in -(d - 1)..d - 1
  BY <1>1, <1>2 DEF CMod
<1> QED
  BY <1>1, <1>3 DEF balign

LEMMA NoAlignment ==
  ASSUME NEW a \in Atom, NEW pc \in Addr
  PROVE  /\ Aligned(a, 1, pc) = pc
         /\ Aligned(a, a.align, pc) = pcalign(a, pc)
         /\ a.align = 1 => pcalign(a, pc) = pc
<1>1. balign(pc, 1) = 0 /\ pc + 0 = pc /\ Wrap(pc) = pc
  BY AddrIsInt, BalignRange, WrapId DEF Align
<1>2. "align" \in DOMAIN a /\ a = [f \in DOMAIN a |-> a[f]]
  <2>1. CASE a \in LabelAtom
    BY <2>1 DEF LabelAtom
  <2>2. CASE a \in DataAtom
    BY <2>2 DEF DataAtom
  <2>3. CASE a \in SpaceAtom
    BY <2>3 DEF SpaceAtom
  <2>4. CASE a \in BranchAtom
    BY <2>4 DEF BranchAtom
  <2>5. CASE a \in RorgAtom
    BY <2>5 DEF RorgAtom
  <2>6. CASE a \in RorgendAtom
    BY <2>6 DEF RorgendAtom
  <2> QED
    BY <2>1, <2>2, <2>3, <2>4, <2>5, <2>6 DEF Atom
<1>3. [a EXCEPT !.align = a.align] = a
  BY <1>2
<1>4. [a EXCEPT !.align = 1].align = 1
  BY <1>2
<1>5. Aligned(a, 1, pc) = pc
  BY <1>1, <1>4 DEF Aligned, pcalign
<1>6. Aligned(a, a.align, pc) = pcalign(a, pc)
  BY <1>3 DEF Aligned
<1>7. a.align = 1 => pcalign(a, pc) = pc
  BY <1>1 DEF pcalign
<1> QED
  BY <1>5, <1>6, <1>7

LEMMA OutsideBlock ==
  ASSUME NEW c \in Cursor, NEW a \in Atom, NEW size \in Int, c.rorg = 0
  PROVE  ObjectPc(Advance(Enter(c, a), size)) = Wrap(pcalign(a, c.pc) + size)
<1> DEFINE P == pcalign(a, c.pc)
           next == Advance(Enter(c, a), size)
<1>1. P \in Int
  BY PcalignType, AddrIsInt DEF Cursor
<1> HIDE DEF P
<1>2. CASE a.type = "RORG"
  <2>1. a.addr \in Int
    BY <1>2, AtomFields, AddrIsInt
  <2>2. Enter(c, a) = [pc |-> a.addr, rorg |-> 1, rorg_pc |-> a.addr,
                       org_pc |-> P]
    BY <1>2 DEF Enter, P
  <2>3. next = [pc |-> Wrap(a.addr + size), rorg |-> 1, rorg_pc |-> a.addr,
                org_pc |-> P]
    BY <2>2 DEF Advance
  <2>4. ObjectPc(next) = Wrap(P + (Wrap(a.addr + size) - a.addr))
    BY <2>3 DEF ObjectPc
  <2>5. Wrap(a.addr + size) \in Int
    BY <2>1, WrapType, AddrIsInt
  <2>6. P + (Wrap(a.addr + size) - a.addr)
          = (P - a.addr) + Wrap(a.addr + size)
    BY <1>1, <2>1, <2>5
  <2>7. Wrap((P - a.addr) + Wrap(a.addr + size))
          = Wrap((P - a.addr) + (a.addr + size))
    BY <1>1, <2>1, WrapPlus
  <2>8. (P - a.addr) + (a.addr + size) = P + size
    BY <1>1, <2>1
  <2> QED
    BY <2>4, <2>6, <2>7, <2>8 DEF P
<1>3. CASE a.type # "RORG"
  <2>1. Enter(c, a) = [c EXCEPT !.pc = P]
    BY <1>3 DEF Enter, P
  <2>2. next.pc = Wrap(P + size) /\ next.rorg = 0
    BY <2>1 DEF Advance, Cursor
  <2> QED
    BY <2>2 DEF ObjectPc, P
<1> QED
  BY <1>2, <1>3

LEMMA InsideBlock ==
  ASSUME NEW c \in Cursor, NEW a \in Atom, NEW size \in Int, c.rorg = 1,
         a.type # "RORG", NEW n \in Int,
         n = IF pcalign(a, c.pc) # c.pc THEN Wrap(pcalign(a, c.pc) - c.pc)
             ELSE 0
  PROVE  ObjectPc(Advance(Enter(c, a), size))
           = Wrap(Wrap(ObjectPc(c) + n) + size)
<1> DEFINE P == pcalign(a, c.pc)
           next == Advance(Enter(c, a), size)
           o == c.org_pc - c.rorg_pc
<1>1. P \in Int /\ c.pc \in Int /\ c.org_pc \in Int /\ c.rorg_pc \in Int
        /\ c.pc \in Addr /\ P \in Addr
  BY PcalignType, AddrIsInt DEF Cursor
<1>2. o \in Int
  BY <1>1
<1>3. n = Wrap(P - c.pc)
  <2>1. CASE P = c.pc
    <3>1. P - c.pc = 0 /\ Wrap(0) = 0
      BY <1>1, <2>1, ZeroIsAddr, WrapId
    <3> QED
      BY <2>1, <3>1
  <2> QED
    BY <2>1
<1> HIDE DEF P
<1>4. ObjectPc(c) = Wrap(o + c.pc)
  <2>1. c.org_pc + (c.pc - c.rorg_pc) = o + c.pc
    BY <1>1
  <2> QED
    BY <2>1 DEF ObjectPc
<1>5. Wrap(ObjectPc(c) + n) = Wrap(o + P)
  <2> DEFINE q == o + c.pc
             d == P - c.pc
  <2> HIDE DEF o
  <2>3. q + d = o + P /\ q \in Int /\ d \in Int
    BY <1>1, <1>2
  <2> HIDE DEF q, d
  <2>1. Wrap(Wrap(q) + n) = Wrap(q + n)
    BY <2>3, WrapPlus
  <2>2. Wrap(q + Wrap(d)) = Wrap(q + d)
    BY <2>3, WrapPlus
  <2> QED
    BY <1>3, <1>4, <2>1, <2>2, <2>3 DEF q, d
<1>6. CASE a.type = "RORGEND"
  <2>1. Enter(c, a) = [pc |-> Wrap(c.org_pc + (P - c.rorg_pc)), rorg |-> 0,
                       rorg_pc |-> 0, org_pc |-> c.org_pc]
    BY <1>6 DEF Enter, P
  <2>2. c.org_pc + (P - c.rorg_pc) = o + P
    BY <1>1
  <2>3. next.pc = Wrap(Wrap(o + P) + size) /\ next.rorg = 0
    BY <2>1, <2>2 DEF Advance
  <2> QED
    BY <1>5, <2>3 DEF ObjectPc
<1>7. CASE a.type # "RORGEND"
  <2>1. Enter(c, a) = [c EXCEPT !.pc = P]
    BY <1>7 DEF Enter, P
  <2>2. /\ next.pc = Wrap(P + size) /\ next.rorg = 1
        /\ next.org_pc = c.org_pc /\ next.rorg_pc = c.rorg_pc
    BY <2>1 DEF Advance, Cursor
  <2>3. ObjectPc(next) = Wrap(c.org_pc + (Wrap(P + size) - c.rorg_pc))
    BY <2>2 DEF ObjectPc
  <2>4. Wrap(P + size) \in Int
    <3>1. P + size \in Int
      BY <1>1
    <3> QED
      BY <3>1, WrapType, AddrIsInt
  <2>5. c.org_pc + (Wrap(P + size) - c.rorg_pc) = o + Wrap(P + size)
    BY <1>1, <2>4
  <2> HIDE DEF o, next
  <2>8. (o + P) + size = o + (P + size) /\ P + size \in Int /\ o + P \in Int
    BY <1>1, <1>2
  <2>6. Wrap(o + Wrap(P + size)) = Wrap(o + (P + size))
    BY <1>2, <2>8, WrapPlus
  <2>7. Wrap(Wrap(o + P) + size) = Wrap((o + P) + size)
    BY <2>8, WrapPlus
  <2> QED
    BY <1>5, <2>3, <2>5, <2>6, <2>7, <2>8 DEF next
<1> QED
  BY <1>6, <1>7

LEMMA PadPositive ==
  ASSUME SmallAlignments, TypeInv, MoreAtoms, Moved
  PROVE  PadBytes > 0
<1> DEFINE a == ThisAtom
           n == balign(cur.pc, a.align)
<1>1. a \in Atom /\ cur.pc \in Addr /\ sec \in Secs /\ idx \in AtomIds(sec)
  BY CurrentAtom DEF TypeInv, TypeOK, Cursor
<1>2. cur.pc \in Int /\ a.align \in Align
  BY <1>1, AddrIsInt, AtomFields
<1>3. n \in 0..2 * a.align - 1
  BY <1>2, BalignRange
<1>4. 2 * a.align <= Half
  <2>1. prog \in Programs
    BY TypeParts DEF Tables
  <2> QED
    BY <1>1, <2>1
    DEF SmallAlignments, ThisAtom, Atoms, AtomIds, NumAtoms
<1>5. pcalign(a, cur.pc) = Wrap(cur.pc + n)
  BY DEF pcalign, Moved
<1> HIDE DEF n
<1>6. n \in Addr /\ n \in Int /\ Half \in Nat
  BY <1>2, <1>3, <1>4, AtomsAssumption DEF Addr, Align
<1>7. n # 0
  <2>1. SUFFICES ASSUME n = 0 PROVE FALSE
    OBVIOUS
  <2>2. cur.pc + n = cur.pc
    BY <1>2, <2>1
  <2> QED
    BY <1>1, <1>5, <2>2, WrapId DEF Moved
<1>8. PadBytes = Wrap(n)
  <2>1. cur.pc + n \in Int /\ (cur.pc + n) - cur.pc = n
    BY <1>2, <1>6
  <2>2. Wrap(Wrap(cur.pc + n) - cur.pc) = Wrap((cur.pc + n) - cur.pc)
    BY <1>2, <2>1, WrapPlus
  <2> QED
    BY <1>5, <2>1, <2>2 DEF PadBytes
<1>9. PadBytes = n
  BY <1>6, <1>8, WrapId
<1> QED
  BY <1>2, <1>3, <1>7, <1>9 DEF Align

-----------------------------------------------------------------------------
(* The bytes are written where the addresses say. *)

(* Atoms that the walk has not come to are as they were parsed. *)
Ahead(s, i) ==
  \/ walk = "waiting"
  \/ walk = "section" /\ (s > sec \/ (s = sec /\ i >= idx))

Fresh ==
  \A s \in Secs : \A i \in AtomIds(s) :
    Ahead(s, i) => align[s][i] = Atoms(s)[i].align /\ gap[s][i] = 0

(* A relocated block was entered, and not left. *)
InBlock ==
  walk = "section" /\ cur.rorg = 1 =>
    \E j \in 1..idx - 1 :
      /\ Atoms(sec)[j].type = "RORG"
      /\ \A k \in j..idx - 1 : Atoms(sec)[k].type # "RORGEND"

Written == Walking => OutputPc(sec, idx - 1) = ObjectPc(cur)

WrittenInv == AssembleInv /\ walk # "ierror" /\ Fresh /\ InBlock /\ Written

LEMMA NoNestedBlock ==
  ASSUME AssembleInv, InBlock, walk = "section", MoreAtoms, cur.rorg = 1
  PROVE  ThisAtom.type # "RORG" /\ idx # 1
<1>1. sec \in Secs /\ idx \in AtomIds(sec) /\ TypeInv
  BY CurrentAtom DEF AssembleInv, LayoutInv
<1>2. NumAtoms(sec) \in Nat
  BY <1>1, NumAtomsType DEF TypeInv
<1>3. idx \in 1..NumAtoms(sec)
  BY <1>1 DEF AtomIds
<1>4. PICK j \in 1..idx - 1 :
        /\ Atoms(sec)[j].type = "RORG"
        /\ \A k \in j..idx - 1 : Atoms(sec)[k].type # "RORGEND"
  BY DEF InBlock
<1>5. ASSUME ThisAtom.type = "RORG" PROVE FALSE
  <2>1. BlocksEnded(prog)
    BY <1>1, TypeParts, ResolverAssumption DEF Tables
  <2>2. j \in 1..Len(prog[sec].atoms) /\ idx \in 1..Len(prog[sec].atoms)
          /\ j < idx
    BY <1>2, <1>3 DEF NumAtoms, Atoms
  <2>3. PICK k \in j..idx : prog[sec].atoms[k].type = "RORGEND"
    BY <1>1, <1>4, <1>5, <2>1, <2>2 DEF BlocksEnded, ThisAtom, Atoms
  <2>4. k # idx
    BY <1>5, <2>3 DEF ThisAtom, Atoms
  <2>5. k \in j..idx - 1
    BY <1>2, <1>3, <2>3, <2>4
  <2> QED
    BY <1>4, <2>3, <2>5 DEF Atoms
<1> QED
  BY <1>3, <1>4, <1>5

LEMMA BlockStep ==
  ASSUME AssembleInv, InBlock, [ANext]_avars
  PROVE  InBlock'
<1>1. LayoutInv /\ WalkType
  BY DEF AssembleInv
<1>2. CASE Resolve
  BY <1>1, <1>2, ResolveWaits DEF InBlock
<1>3. CASE BeginAssemble \/ NextAssemble
  <2>1. walk' = "section" => cur' = Start(sec')
    BY <1>3 DEF BeginAssemble, NextAssemble
  <2> QED
    BY <2>1 DEF InBlock, Start, StartOf
<1>4. CASE AssembleAtom
  <2>1. walk = "section" /\ MoreAtoms
    BY <1>4 DEF AssembleAtom
  <2>2. /\ ThisAtom \in Atom /\ cur \in Cursor
        /\ idx \in Nat /\ sec \in Secs
    BY <1>1, <2>1, CurrentAtom DEF LayoutInv, TypeInv, TypeOK
  <2>3. cur'.rorg = Here.rorg /\ sec' = sec /\ idx' = idx + 1
    BY <1>4 DEF AssembleAtom, Advance
  <2>4. SUFFICES ASSUME cur'.rorg = 1
                 PROVE  \E j \in 1..idx :
                          /\ Atoms(sec)[j].type = "RORG"
                          /\ \A k \in j..idx : Atoms(sec)[k].type # "RORGEND"
    BY <2>2, <2>3, SameProgram DEF InBlock
  <2>5. CASE ThisAtom.type = "RORG"
    <3>1. idx \in 1..idx /\ \A k \in idx..idx : k = idx
      BY <1>1, <2>2 DEF LayoutInv, TypeInv, TypeOK
    <3> QED
      BY <2>5, <3>1 DEF ThisAtom
  <2>6. CASE ThisAtom.type # "RORG"
    <3>1. cur.rorg = 1 /\ ThisAtom.type # "RORGEND"
      BY <2>2, <2>3, <2>4, <2>6 DEF Here, Enter, Cursor
    <3>2. PICK j \in 1..idx - 1 :
            /\ Atoms(sec)[j].type = "RORG"
            /\ \A k \in j..idx - 1 : Atoms(sec)[k].type # "RORGEND"
      BY <2>1, <3>1 DEF InBlock
    <3>3. \A k \in j..idx : k \in j..idx - 1 \/ k = idx
      BY <2>2
    <3> QED
      BY <2>2, <3>1, <3>2, <3>3 DEF ThisAtom
  <2> QED
    BY <2>5, <2>6
<1>5. CASE UNCHANGED avars
  <2>1. UNCHANGED <<walk, sec, idx, cur>>
    BY <1>5 DEF avars, vars, walkVars
  <2> QED
    BY <2>1, SameProgram DEF InBlock
<1> QED
  BY <1>2, <1>3, <1>4, <1>5 DEF ANext

LEMMA FreshStep ==
  ASSUME AssembleInv, Fresh, [ANext]_avars
  PROVE  Fresh'
<1>1. LayoutInv /\ WalkType
  BY DEF AssembleInv
<1>2. SUFFICES ASSUME NEW s \in Secs, NEW i \in AtomIds(s), Ahead(s, i)'
               PROVE  /\ align'[s][i] = Atoms(s)[i].align
                      /\ gap'[s][i] = 0
  BY SameProgram DEF Fresh
<1>3. SUFFICES Ahead(s, i) /\ align'[s][i] = align[s][i]
                 /\ gap'[s][i] = gap[s][i]
  BY DEF Fresh
<1>4. i \in Nat /\ s \in Nat
  BY <1>1, NumAtomsType DEF AtomIds, Secs, LayoutInv, TypeInv
<1>5. CASE Resolve
  BY <1>1, <1>5, ResolveWaits DEF Ahead, walkVars
<1>6. CASE BeginAssemble
  BY <1>6 DEF BeginAssemble, Ahead
<1>7. CASE NextAssemble
  <2>1. sec \in Nat /\ walk = "section" /\ walk' # "waiting"
    BY <1>1, <1>7 DEF NextAssemble, WalkType, Secs
  <2>2. sec' = sec + 1 /\ UNCHANGED <<align, gap>>
    BY <1>2, <1>7, <2>1 DEF NextAssemble, Ahead
  <2> QED
    BY <1>2, <1>4, <2>1, <2>2 DEF Ahead
<1>8. CASE AssembleAtom
  <2>1. walk = "section" /\ sec \in Secs /\ idx \in AtomIds(sec)
    BY <1>1, <1>8, CurrentAtom DEF AssembleAtom, LayoutInv
  <2>2. sec \in Nat /\ idx \in Nat /\ sec' = sec /\ idx' = idx + 1
          /\ walk' # "waiting"
    BY <1>1, <1>8, <2>1
    DEF AssembleAtom, Secs, LayoutInv, TypeInv, TypeOK
  <2>3. s > sec \/ (s = sec /\ i >= idx + 1)
    BY <1>2, <2>2 DEF Ahead
  <2>4. s # sec \/ i # idx
    BY <1>4, <2>2, <2>3
  <2>5. align'[s][i] = align[s][i] /\ gap'[s][i] = gap[s][i]
    BY <1>1, <1>8, <2>1, <2>4 DEF AssembleAtom, alignment_to_space, WalkType
  <2> QED
    BY <1>4, <2>1, <2>2, <2>3, <2>5 DEF Ahead
<1>9. CASE UNCHANGED avars
  BY <1>2, <1>9 DEF avars, vars, walkVars, Ahead
<1> QED
  BY <1>5, <1>6, <1>7, <1>8, <1>9 DEF ANext

LEMMA WrittenStep ==
  ASSUME WrittenInv, [ANext]_avars
  PROVE  Written'
<1>1. AssembleInv /\ LayoutInv /\ WalkType /\ TypeInv
  BY DEF WrittenInv, AssembleInv, LayoutInv
<1>2. CASE Resolve
  BY <1>1, <1>2, ResolveWaits DEF Written, Walking
<1>3. CASE BeginAssemble \/ NextAssemble
  <2>1. SUFFICES ASSUME Walking' PROVE (OutputPc(sec, idx - 1) = ObjectPc(cur))'
    BY DEF Written
  <2>2. idx' = 1 /\ cur' = Start(sec')
    BY <1>3, <2>1 DEF BeginAssemble, NextAssemble, Walking
  <2>3. PICK s \in Secs : s = sec'
    BY <1>1, <2>1, WalkTypeStep DEF WalkType, Walking
  <2>4. prog'[s] \in SectionDesc /\ Len(prog'[s].atoms) \in Nat
    BY <1>1, SameProgram DEF TypeInv, TypeOK, SectionDesc
  <2>5. OutputPcs(prog'[s], align'[s], gap'[s], lastsize'[s])[0]
          = prog'[s].org
    BY <2>4, OutputIs
  <2>6. OutputPc(sec, idx - 1)' = prog'[s].org
    BY <2>2, <2>3, <2>5 DEF OutputPc
  <2>7. ObjectPc(cur)' = prog'[s].org
    BY <2>2, <2>3, SameProgram DEF ObjectPc, Start, StartOf
  <2> QED
    BY <2>6, <2>7
<1>4. CASE AssembleAtom
  <2>1. SUFFICES ASSUME Walking' PROVE (OutputPc(sec, idx - 1) = ObjectPc(cur))'
    BY DEF Written
  <2>2. Walking /\ MoreAtoms /\ ~NotConstant
    BY <1>4, <2>1 DEF AssembleAtom, Walking
  <2>3. /\ sec \in Secs /\ idx \in AtomIds(sec)
        /\ ThisAtom \in Atom /\ cur \in Cursor
    BY <1>1, <2>2, CurrentAtom DEF TypeInv, TypeOK
  <2>4. sec' = sec /\ idx' = idx + 1 /\ UNCHANGED <<prog, lastsize>>
    BY <1>4 DEF AssembleAtom, atomVars, progVars
  <2> DEFINE s == sec
             size == lastsize[sec][idx]
             here == OutputPcs(prog[s], align[s], gap[s], lastsize[s])[idx - 1]
             next == OutputPcs(prog[s], align'[s], gap'[s], lastsize[s])
  <2>5. /\ prog[s] \in SectionDesc /\ Len(prog[s].atoms) \in Nat
        /\ idx \in 1..Len(prog[s].atoms) /\ ThisAtom = prog[s].atoms[idx]
    BY <1>1, <2>3
    DEF TypeInv, TypeOK, SectionDesc, AtomIds, NumAtoms, Atoms, ThisAtom
  <2>6. here = ObjectPc(cur)
    BY <2>2 DEF WrittenInv, Written, OutputPc
  <2>7. here \in Addr
    <3>1. cur.pc \in Addr /\ cur.org_pc \in Int /\ cur.rorg_pc \in Int
            /\ cur.pc \in Int
      BY <2>3, AddrIsInt DEF Cursor
    <3>2. cur.org_pc + (cur.pc - cur.rorg_pc) \in Int
      BY <3>1
    <3> QED
      BY <2>6, <3>1, <3>2, WrapType DEF ObjectPc
  <2>8. next[idx - 1] = here
    <3>1. ASSUME NEW i \in 1..idx - 1
          PROVE  align'[s][i] = align[s][i] /\ gap'[s][i] = gap[s][i]
      <4>1. i \in AtomIds(sec) /\ i # idx
        BY <2>5 DEF AtomIds, NumAtoms, Atoms
      <4> QED
        BY <1>1, <1>4, <2>3, <4>1
        DEF AssembleAtom, alignment_to_space, WalkType
    <3>2. idx - 1 \in 0..Len(prog[s].atoms)
      BY <2>5
    <3>3. PICK section, a, g, z, a2, g2, n :
            /\ section = prog[s] /\ a = align[s] /\ g = gap[s]
            /\ z = lastsize[s] /\ a2 = align'[s] /\ g2 = gap'[s]
            /\ n = idx - 1
      OBVIOUS
    <3>4. section \in SectionDesc /\ n \in 0..Len(section.atoms)
            /\ \A i \in 1..n : a2[i] = a[i] /\ g2[i] = g[i]
      BY <2>5, <3>1, <3>2, <3>3
    <3>5. OutputPcs(section, a2, g2, z)[n] = OutputPcs(section, a, g, z)[n]
      BY <3>4, OutputFrame
    <3> QED
      BY <3>3, <3>5
  <2>9. next[idx] = OutputNext(prog[s], align'[s], gap'[s], lastsize[s], idx,
                               here)
    <3>1. idx \in 0..Len(prog[s].atoms) /\ idx # 0
      BY <2>5
    <3> QED
      BY <2>5, <2>8, <3>1, OutputIs
  <2>10. OutputPc(sec, idx - 1)' = next[idx]
    <3>1. idx' - 1 = idx
      BY <2>4, <2>5
    <3> QED
      BY <2>4, <3>1 DEF OutputPc
  <2> HIDE DEF here, next
  <2>11. size \in Nat
    BY <1>1, <2>2, CurrentAtom
  <2>12. cur' = Advance(Enter(cur, ThisAtom), size)
    BY <1>1, <1>4, <2>2, FinalSizeIsLast DEF AssembleAtom, Here
  <2>13. next[idx] = Wrap(Aligned(ThisAtom, align'[s][idx],
                                  Wrap(here + gap'[s][idx])) + size)
    BY <2>5, <2>9 DEF OutputNext
  <2>14. CASE cur.rorg = 0
    <3>1. Ahead(sec, idx)
      BY <1>1, <2>2, <2>5 DEF Ahead, Walking
    <3>2. gap'[s][idx] = 0 /\ align'[s][idx] = ThisAtom.align
      BY <1>4, <2>3, <2>14, <3>1
      DEF AssembleAtom, alignment_to_space, WrittenInv, Fresh, ThisAtom
    <3>3. here = cur.pc /\ cur.pc \in Addr
      BY <2>3, <2>6, <2>14 DEF ObjectPc, Cursor
    <3>4. Wrap(here + 0) = here
      BY <2>7, AddrIsInt, WrapId
    <3>5. next[idx] = Wrap(pcalign(ThisAtom, cur.pc) + size)
      BY <2>3, <2>13, <3>2, <3>3, <3>4, NoAlignment
    <3> QED
      BY <2>3, <2>10, <2>11, <2>12, <2>14, <3>5, OutsideBlock DEF ObjectPc
  <2>15. CASE cur.rorg = 1
    <3>1. ThisAtom.type # "RORG"
      BY <1>1, <2>2, <2>15, NoNestedBlock DEF WrittenInv, Walking
    <3> DEFINE n == gap'[s][idx]
    <3>2. n = (IF Moved THEN PadBytes ELSE 0) /\ align'[s][idx] = 1
      BY <1>1, <1>4, <2>3, <2>15
      DEF AssembleAtom, alignment_to_space, WalkType
    <3>3. n \in Int
      BY <1>1, <2>2, <3>2, PadType
    <3>4. Wrap(here + n) \in Addr
      <4>1. here + n \in Int
        BY <2>7, <3>3, AddrIsInt
      <4> QED
        BY <4>1, WrapType
    <3>5. next[idx] = Wrap(Wrap(here + n) + size)
      BY <2>3, <2>13, <3>2, <3>4, NoAlignment
    <3>6. n = IF pcalign(ThisAtom, cur.pc) # cur.pc
              THEN Wrap(pcalign(ThisAtom, cur.pc) - cur.pc) ELSE 0
      BY <3>2 DEF Moved, PadBytes
    <3> HIDE DEF n
    <3>7. ObjectPc(Advance(Enter(cur, ThisAtom), size))
            = Wrap(Wrap(ObjectPc(cur) + n) + size)
      BY <2>3, <2>11, <2>15, <3>1, <3>3, <3>6, InsideBlock
    <3> QED
      BY <2>6, <2>10, <2>12, <3>5, <3>7 DEF ObjectPc
  <2> QED
    BY <2>3, <2>14, <2>15 DEF Cursor
<1>5. CASE UNCHANGED avars
  <2>1. UNCHANGED <<walk, errors, sec, idx, cur, prog, align, gap, lastsize>>
    BY <1>5 DEF avars, vars, walkVars, atomVars, progVars
  <2> QED
    BY <2>1 DEF WrittenInv, Written, Walking, OutputPc, ObjectPc
<1> QED
  BY <1>2, <1>3, <1>4, <1>5 DEF ANext

LEMMA WrittenInit == AInit => WrittenInv
<1> SUFFICES ASSUME AInit PROVE WrittenInv
  OBVIOUS
<1>1. Fresh
  <2>1. ASSUME NEW s \in Secs, NEW i \in AtomIds(s)
        PROVE  align[s][i] = Atoms(s)[i].align /\ gap[s][i] = 0
    <3>1. align[s] = [j \in AtomIds(s) |-> Atoms(s)[j].align]
            /\ gap[s] = [j \in AtomIds(s) |-> 0]
      BY DEF AInit
    <3> QED
      BY <3>1
  <2> QED
    BY <2>1 DEF Fresh
<1>2. InBlock /\ Written /\ walk # "ierror"
  BY DEF AInit, InBlock, Written, Walking
<1> QED
  BY <1>1, <1>2, AssembleInit DEF WrittenInv

LEMMA WrittenInvStep ==
  ASSUME SmallAlignments, WrittenInv, [ANext]_avars
  PROVE  WrittenInv'
<1>1. AssembleInv /\ LayoutInv /\ WalkType /\ TypeInv /\ walk # "ierror"
  BY DEF WrittenInv, AssembleInv, LayoutInv
<1>2. walk' # "ierror"
  <2>1. CASE Resolve
    BY <1>1, <2>1, ResolveWaits
  <2>2. CASE BeginAssemble \/ NextAssemble
    BY <1>1, <2>2 DEF BeginAssemble, NextAssemble
  <2>3. CASE AssembleAtom
    <3>1. walk = "section" /\ MoreAtoms
      BY <2>3 DEF AssembleAtom
    <3>2. ~CannotInsert
      <4>1. SUFFICES ASSUME cur.rorg = 1, Moved PROVE idx # 1 /\ ~(PadBytes <= 0)
        BY DEF CannotInsert
      <4>2. idx # 1
        BY <1>1, <3>1, <4>1, NoNestedBlock DEF WrittenInv
      <4>3. PadBytes > 0 /\ PadBytes \in Int
        BY <1>1, <3>1, <4>1, PadPositive, PadType
      <4> QED
        BY <4>2, <4>3
    <3> QED
      BY <2>3, <3>1, <3>2 DEF AssembleAtom
  <2>4. CASE UNCHANGED avars
    BY <1>1, <2>4 DEF avars, walkVars
  <2> QED
    BY <2>1, <2>2, <2>3, <2>4 DEF ANext
<1> QED
  BY <1>2, AssembleStep, FreshStep, BlockStep, WrittenStep DEF WrittenInv

(* The bytes of every atom are written where the addresses that assemble()  *)
(* computed say they are, in and behind relocated blocks too, and their     *)
(* alignments can always be turned into space (alignment_to_space).         *)
THEOREM BytesWhereAddressed ==
  ASSUME SmallAlignments
  PROVE  ASpec => []WrittenAsAssembled
<1>1. WrittenInv => WrittenAsAssembled
  BY DEF WrittenInv, Written, WrittenAsAssembled
<1>2. WrittenInv /\ [ANext]_avars => WrittenInv'
  BY WrittenInvStep
<1> QED
  BY <1>1, <1>2, WrittenInit, PTL DEF ASpec

-----------------------------------------------------------------------------
(* Unsigned arithmetic of a taddr. *)

LEMMA UnsignedUnique ==
  ASSUME NEW n \in Int, NEW k \in Int, NEW r \in 0..2 * Half - 1,
         n = k * (2 * Half) + r
  PROVE  Unsigned(n) = r
<1> DEFINE m == 2 * Half
<1>1. m \in Nat \ {0}
  BY AtomsAssumption
<1>2. n = k * m + r /\ r \in 0..m - 1
  OBVIOUS
<1> HIDE DEF m
<1>3. n % m = r
  BY <1>1, <1>2, ModUnique
<1> QED
  BY <1>3 DEF Unsigned, m

LEMMA UnsignedSplit ==
  ASSUME NEW n \in Int
  PROVE  /\ Unsigned(n) \in 0..2 * Half - 1
         /\ \E k \in Int : n = k * (2 * Half) + Unsigned(n)
<1> DEFINE m == 2 * Half
<1>1. m \in Nat \ {0}
  BY AtomsAssumption
<1> HIDE DEF m
<1>2. n % m \in 0..m - 1
  BY <1>1, ModRange
<1>3. \E k \in Int : n = k * m + (n % m)
  BY <1>1, ModSplit
<1> QED
  BY <1>2, <1>3 DEF Unsigned, m

LEMMA UnsignedZero ==
  ASSUME NEW n \in Addr
  PROVE  Unsigned(n) = 0 <=> n = 0
<1>1. n \in Int /\ Half \in Nat \ {0}
  BY AddrIsInt, AtomsAssumption
<1>2. PICK k \in Int : n = k * (2 * Half) + Unsigned(n)
  BY <1>1, UnsignedSplit
<1>3. ASSUME Unsigned(n) = 0 PROVE n = 0
  <2>1. n = k * (2 * Half) /\ -Half <= n /\ n < Half
    BY <1>1, <1>2, <1>3 DEF Addr
  <2>2. k < 1 /\ k > -1
    BY <1>1, <2>1
  <2>3. k = 0
    BY <2>2
  <2> QED
    BY <1>1, <2>1, <2>3
<1>4. ASSUME n = 0 PROVE Unsigned(n) = 0
  <2>1. 0 \in 0..2 * Half - 1
    BY <1>1
  <2>2. PICK j \in Int : j = 0
    OBVIOUS
  <2>3. n = j * (2 * Half) + 0
    BY <1>1, <1>4, <2>2
  <2> QED
    BY <1>1, <2>1, <2>3, UnsignedUnique
<1> QED
  BY <1>3, <1>4

LEMMA UnsignedSum ==
  ASSUME NEW x \in Int, NEW size \in 0..2 * Half - 1
  PROVE  Unsigned(Wrap(x + size))
           = IF Unsigned(x) + size < 2 * Half THEN Unsigned(x) + size
             ELSE Unsigned(x) + size - 2 * Half
<1> DEFINE m == 2 * Half
           u == Unsigned(x)
           w == Wrap(x + size)
<1>1. m \in Nat \ {0} /\ x + size \in Int /\ size \in Int
  BY AtomsAssumption
<1>2. PICK k \in Int : x = k * m + u
  BY UnsignedSplit
<1>3. PICK j \in Int : x + size = j * m + w
  BY <1>1, WrapSplit
<1>4. u \in 0..m - 1 /\ w \in Int
  BY <1>1, UnsignedSplit, WrapType, AddrIsInt
<1> HIDE DEF u, w, m
<1>5. (k - j) * m = k * m - j * m /\ (k - j + 1) * m = k * m - j * m + m
        /\ k * m \in Int /\ j * m \in Int
  BY <1>1
<1>6. w = (k - j) * m + (u + size)
        /\ w = (k - j + 1) * m + (u + size - m)
  <2> DEFINE km == k * m
             jm == j * m
  <2>1. x = km + u /\ x + size = jm + w /\ km \in Int /\ jm \in Int
          /\ (k - j) * m = km - jm /\ (k - j + 1) * m = km - jm + m
    BY <1>2, <1>3, <1>5
  <2> HIDE DEF km, jm
  <2> QED
    BY <1>1, <1>4, <2>1
<1>7. CASE u + size < m
  <2>1. u + size \in 0..2 * Half - 1 /\ k - j \in Int
    BY <1>1, <1>4, <1>7 DEF m
  <2> QED
    BY <1>4, <1>6, <1>7, <2>1, UnsignedUnique DEF m, u, w
<1>8. CASE ~(u + size < m)
  <2>1. u + size - m \in 0..2 * Half - 1 /\ k - j + 1 \in Int
    BY <1>1, <1>4, <1>8 DEF m
  <2> QED
    BY <1>4, <1>6, <1>8, <2>1, UnsignedUnique DEF m, u, w
<1> QED
  BY <1>7, <1>8 DEF m, u, w

LEMMA UnsignedPred ==
  ASSUME NEW p \in Int, Unsigned(p) # 0
  PROVE  Unsigned(p - 1) = Unsigned(p) - 1
<1>1. PICK k \in Int : p = k * (2 * Half) + Unsigned(p)
  BY UnsignedSplit
<1>2. Unsigned(p) \in 0..2 * Half - 1 /\ Half \in Int
  BY UnsignedSplit, AtomsAssumption
<1>3. p - 1 \in Int /\ Unsigned(p) - 1 \in 0..2 * Half - 1
        /\ p - 1 = k * (2 * Half) + (Unsigned(p) - 1)
  BY <1>1, <1>2
<1> QED
  BY <1>3, UnsignedUnique

LEMMA UnsignedDiff ==
  ASSUME NEW a \in Int, NEW b \in Int, Unsigned(a) >= Unsigned(b)
  PROVE  Unsigned(a - b) = Unsigned(a) - Unsigned(b)
<1> DEFINE m == 2 * Half
           u == Unsigned(a)
           v == Unsigned(b)
<1>1. PICK k \in Int : a = k * m + u
  BY UnsignedSplit
<1>2. PICK j \in Int : b = j * m + v
  BY UnsignedSplit
<1>3. u \in 0..m - 1 /\ v \in 0..m - 1 /\ u >= v /\ m \in Int
  BY UnsignedSplit, AtomsAssumption
<1> HIDE DEF u, v, m
<1>4. (k - j) * m = k * m - j * m /\ k * m \in Int /\ j * m \in Int
  BY <1>3
<1>5. a - b = (k - j) * m + (u - v)
  <2> DEFINE km == k * m
             jm == j * m
  <2>1. a = km + u /\ b = jm + v /\ km \in Int /\ jm \in Int
          /\ (k - j) * m = km - jm
    BY <1>1, <1>2, <1>4
  <2> HIDE DEF km, jm
  <2> QED
    BY <1>3, <2>1
<1>6. u - v \in 0..2 * Half - 1 /\ k - j \in Int /\ a - b \in Int
  BY <1>3 DEF m
<1> QED
  BY <1>5, <1>6, UnsignedUnique DEF m, u, v

-----------------------------------------------------------------------------
(* The end of the address space. *)

(* In a section whose pc moves by sizes alone, the walk has not come around *)
(* the end of the address space, but it may have come to it.                *)
PlainWalk ==
  Walking /\ Plain(sec) =>
    /\ cur.rorg = 0
    /\ IF ovflw THEN cur.pc = 0
                ELSE Unsigned(cur.pc) >= Unsigned(prog[sec].org)
    /\ \A i \in 1..idx - 1 : ~TooFar(sec, i)

PlainInv == AssembleInv /\ PlainWalk

(* One atom: the pc goes on, comes to the end, or it is reported. *)
LEMMA PlainAtom ==
  ASSUME NEW pc \in Addr, NEW org \in Int, NEW size \in 0..2 * Half - 1,
         NEW next, next = Wrap(pc + size), ~Overflows(pc, next),
         IF ovflw THEN pc = 0 ELSE Unsigned(pc) >= Unsigned(org)
  PROVE  /\ size = 0 => next = pc
         /\ size # 0 =>
              /\ next # pc
              /\ ~ovflw
              /\ next # 0 => Unsigned(next) >= Unsigned(org)
              /\ Unsigned(org) + Unsigned(pc - org) + size <= 2 * Half
<1> DEFINE m == 2 * Half
           u == Unsigned(pc)
           v == Unsigned(org)
<1>1. /\ pc \in Int /\ u \in 0..m - 1 /\ v \in 0..m - 1
      /\ m \in Nat \ {0} /\ size \in 0..m - 1
  <2>1. pc \in Int
    BY AddrIsInt
  <2>2. u \in 0..m - 1 /\ v \in 0..m - 1
    BY <2>1, UnsignedSplit
  <2> QED
    BY <2>1, <2>2, AtomsAssumption
<1>2. Unsigned(next) = IF u + size < m THEN u + size ELSE u + size - m
  BY <1>1, UnsignedSum
<1>3. next \in Addr /\ next \in Int
  <2>1. pc + size \in Int
    BY <1>1
  <2> QED
    BY <2>1, WrapType, AddrIsInt
<1>4. CASE size = 0
  <2>1. pc + size = pc
    BY <1>1, <1>4
  <2> QED
    BY <1>4, <2>1, WrapId
<1>5. CASE size # 0
  <2>1. next # pc
    <3>1. Unsigned(next) # u
      <4> HIDE DEF u, v, m
      <4> QED
        BY <1>1, <1>2, <1>5
    <3> QED
      BY <3>1
  <2>2. ~ovflw /\ ~(Unsigned(next - 1) < u) /\ u >= v
    BY <2>1 DEF Overflows
  <2>5. Unsigned(pc - org) = u - v
    BY <1>1, <2>2, UnsignedDiff
  <2>3. CASE u + size < m
    <3>1. Unsigned(next) >= v /\ v + (u - v) + size <= m
      <4> HIDE DEF u, v, m
      <4> QED
        BY <1>1, <1>2, <2>2, <2>3
    <3> QED
      BY <1>5, <2>1, <2>2, <2>5, <3>1
  <2>4. CASE ~(u + size < m)
    <3>1. Unsigned(next) = u + size - m
      BY <1>2, <2>4
    <3>2. u + size = m
      <4>1. SUFFICES ASSUME u + size # m PROVE FALSE
        OBVIOUS
      <4>2. Unsigned(next) # 0
        BY <1>1, <2>4, <3>1, <4>1
      <4>3. Unsigned(next - 1) = Unsigned(next) - 1
        BY <1>3, <4>2, UnsignedPred
      <4> HIDE DEF u, v, m
      <4> QED
        BY <1>1, <2>2, <3>1, <4>3
    <3>3. next = 0
      <4>1. Unsigned(next) = 0
        BY <1>1, <3>1, <3>2
      <4> QED
        BY <1>3, <4>1, UnsignedZero
    <3>4. v + (u - v) + size <= m
      BY <1>1, <3>2
    <3> QED
      BY <1>5, <2>1, <2>2, <2>5, <3>3, <3>4
  <2> QED
    BY <2>3, <2>4
<1> QED
  BY <1>4, <1>5

LEMMA PlainStep ==
  ASSUME PlainInv, [ANext]_avars
  PROVE  PlainWalk'
<1>1. AssembleInv /\ LayoutInv /\ WalkType /\ TypeInv
  BY DEF PlainInv, AssembleInv, LayoutInv
<1>2. CASE Resolve
  BY <1>1, <1>2, ResolveWaits DEF PlainWalk, Walking
<1>3. CASE BeginAssemble \/ NextAssemble
  <2>1. SUFFICES ASSUME Walking'
                 PROVE  /\ cur'.rorg = 0 /\ ~ovflw' /\ idx' = 1
                        /\ Unsigned(cur.pc)' >= Unsigned(prog[sec].org)'
    <3>1. \A i \in 1..1 - 1 : FALSE
      OBVIOUS
    <3> QED
      BY <3>1 DEF PlainWalk
  <2>2. idx' = 1 /\ cur' = Start(sec') /\ ovflw' = FALSE
    BY <1>3, <2>1 DEF BeginAssemble, NextAssemble, Walking
  <2>3. PICK s \in Secs : s = sec'
    BY <1>1, <2>1, WalkTypeStep DEF WalkType, Walking
  <2>4. prog'[s].org \in Int
    BY <1>1, SameProgram, AddrIsInt DEF TypeInv, TypeOK, SectionDesc
  <2>5. cur'.pc = prog'[s].org /\ cur'.rorg = 0
    BY <2>2, <2>3, SameProgram DEF Start, StartOf
  <2>6. Unsigned(prog'[s].org) \in Int
    BY <2>4, WrapType
  <2> QED
    BY <2>2, <2>3, <2>5, <2>6
<1>4. CASE AssembleAtom
  <2>1. SUFFICES ASSUME Walking', Plain(sec)'
        PROVE  /\ cur'.rorg = 0
               /\ IF ovflw' THEN cur'.pc = 0
                  ELSE Unsigned(cur.pc)' >= Unsigned(prog[sec].org)'
               /\ \A i \in 1..idx' - 1 : ~TooFar(sec, i)'
    BY DEF PlainWalk
  <2>2. Walking /\ MoreAtoms /\ ~NotConstant
    BY <1>4, <2>1 DEF AssembleAtom, Walking
  <2>3. /\ sec \in Secs /\ idx \in AtomIds(sec) /\ idx \in Nat \ {0}
        /\ ThisAtom \in Atom /\ cur \in Cursor
    BY <1>1, <2>2, CurrentAtom DEF TypeInv, TypeOK
  <2>4. sec' = sec /\ idx' = idx + 1 /\ UNCHANGED <<prog, lastsize, at>>
    BY <1>4 DEF AssembleAtom, atomVars, progVars
  <2>5. Plain(sec)
    BY <2>1, <2>4 DEF Plain, AtomIds, NumAtoms, Atoms
  <2>6. /\ cur.rorg = 0
        /\ IF ovflw THEN cur.pc = 0
                    ELSE Unsigned(cur.pc) >= Unsigned(prog[sec].org)
        /\ \A i \in 1..idx - 1 : ~TooFar(sec, i)
    BY <2>2, <2>5 DEF PlainInv, PlainWalk
  <2> DEFINE size == lastsize[sec][idx]
             pc == cur.pc
             org == prog[sec].org
             next == Wrap(pc + size)
  <2>7. size \in 0..2 * Half - 1
    <3>1. size \in Nat /\ size < 2 * Half
      BY <1>1, <2>2, <2>3, <2>5, CurrentAtom DEF Plain
    <3> QED
      BY <3>1, AtomsAssumption
  <2>8. pc \in Addr /\ org \in Int
    BY <1>1, <2>3, AddrIsInt DEF Cursor, TypeInv, TypeOK, SectionDesc
  <2>9. Here.pc = pc /\ Here.rorg = 0
    <3>1. pcalign(ThisAtom, pc) = pc /\ ThisAtom.type # "RORG"
      BY <2>3, <2>5, <2>8, NoAlignment DEF Plain, ThisAtom
    <3>2. Here = [cur EXCEPT !.pc = pc]
      BY <2>6, <3>1 DEF Here, Enter
    <3> QED
      BY <2>3, <2>6, <3>2 DEF Cursor
  <2>10. Here \in Cursor /\ FinalSize = size
    BY <1>1, <2>2, CurrentAtom, FinalSizeIsLast
  <2>11. cur' = Advance(Here, size)
    BY <1>4, <2>10 DEF AssembleAtom
  <2>12. cur'.pc = next /\ cur'.rorg = 0
    BY <2>9, <2>10, <2>11 DEF Advance, Cursor
  <2>13. ~Overflows(pc, next) /\ (ovflw' <=> IF next = pc THEN ovflw ELSE next = 0)
    BY <1>1, <1>4, <2>1, <2>9, <2>11, <2>12, <2>10
    DEF AssembleAtom, Walking, WalkType
  <2>14. /\ size = 0 => next = pc
         /\ size # 0 =>
              /\ next # pc
              /\ ~ovflw
              /\ next # 0 => Unsigned(next) >= Unsigned(org)
              /\ Unsigned(org) + Unsigned(pc - org) + size <= 2 * Half
    <3>1. PICK n : n = next
      OBVIOUS
    <3> HIDE DEF size, pc, org
    <3> QED
      BY <2>6, <2>7, <2>8, <2>13, PlainAtom DEF pc, org
  <2>15. ~TooFar(sec, idx)
    <3>1. Placed(sec, idx).pc = pc
      BY <1>1, <2>2, <2>9, AtAtom
    <3>2. size > 0 => size # 0
      BY <2>7
    <3>3. size # 0 => ~(Unsigned(org) + Unsigned(pc - org) + size > 2 * Half)
      <4>1. Unsigned(org) \in Int
        BY <2>8, WrapType
      <4>2. Unsigned(pc - org) \in Int
        <5>1. pc - org \in Int
          BY <2>8, AddrIsInt
        <5> QED
          BY <5>1, WrapType
      <4> QED
        BY <2>7, <2>14, <4>1, <4>2, AtomsAssumption
    <3> QED
      BY <3>1, <3>2, <3>3 DEF TooFar, End
  <2>16. ASSUME NEW i \in 1..idx' - 1 PROVE ~TooFar(sec, i)'
    <3>1. i \in 1..idx - 1 \/ i = idx
      BY <2>3, <2>4
    <3>2. ~TooFar(sec, i)
      BY <2>6, <2>15, <3>1
    <3> QED
      BY <2>4, <3>2, SameProgram DEF TooFar, End, Placed
  <2>17. IF ovflw' THEN next = 0 ELSE Unsigned(next) >= Unsigned(org)
    BY <2>6, <2>13, <2>14
  <2> QED
    BY <2>4, <2>12, <2>16, <2>17
<1>5. CASE UNCHANGED avars
  <2>1. UNCHANGED <<walk, errors, sec, idx, cur, prog, lastsize, at, ovflw>>
    BY <1>5 DEF avars, vars, walkVars, atomVars, progVars
  <2>2. PlainWalk
    BY DEF PlainInv
  <2> QED
    BY <2>1, <2>2, SameProgram
    DEF PlainWalk, Walking, Plain, TooFar, End, Placed, AtomIds, NumAtoms,
        Atoms
<1> QED
  BY <1>2, <1>3, <1>4, <1>5 DEF ANext

(* In a section without alignments and relocated blocks nothing that was    *)
(* assembled without error 45 reaches beyond the address space (the test of *)
(* assemble() after every atom).                                            *)
THEOREM OverflowIsReported == ASpec => []OverflowReported
<1>1. AInit => PlainInv
  BY AssembleInit DEF AInit, PlainInv, PlainWalk, Walking
<1>2. PlainInv /\ [ANext]_avars => PlainInv'
  BY PlainStep, AssembleStep DEF PlainInv
<1>3. PlainInv => OverflowReported
  BY DEF PlainInv, PlainWalk, OverflowReported
<1> QED
  BY <1>1, <1>2, <1>3, PTL DEF ASpec

=============================================================================
