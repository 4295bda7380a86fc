------------------------------ MODULE Resolver ------------------------------
(***************************************************************************)
(* resolve() and resolve_section() of vasm.c: every section is walked again *)
(* and again until no label moves and no atom changes its size, and a       *)
(* section whose sizes depend on another one is walked again when that one  *)
(* changed.  The parser's first walk (internal_add_atom of atom.c) gives    *)
(* the labels and the sizes it starts from.                                 *)
(*                                                                         *)
(* A step is one atom, as far as the loop over a section's atoms goes.  The *)
(* program is chosen at the start; the history variable at remembers where  *)
(* the last walk was when it came to each atom.                             *)
(***************************************************************************)
EXTENDS Atoms

CONSTANTS
  NumSecs,         \* num_secs
  Programs,        \* the programs: one record per section
  MAXPASSES,       \* maxpasses, an option
  FASTOPTPHASE,
  MAXSIZECHANGES

Secs == 1..NumSecs

SectionDesc == [org : Addr, absolute : BOOLEAN, atoms : Seq(Atom)]

Defines(p, s, i, l) ==
  p[s].atoms[i].type = "LABEL" /\ p[s].atoms[i].label = l

(* A second definition of a label is refused by the parser (error 74). *)
DefinedOnce(p) ==
  \A l \in Labels : \A s, t \in Secs :
    \A i \in 1..Len(p[s].atoms), j \in 1..Len(p[t].atoms) :
      Defines(p, s, i, l) /\ Defines(p, t, j, l) => s = t /\ i = j

(* start_rorg ends the relocated block before. *)
BlocksEnded(p) ==
  \A s \in Secs : \A i, j \in 1..Len(p[s].atoms) :
    i < j /\ p[s].atoms[i].type = "RORG" /\ p[s].atoms[j].type = "RORG"
      => \E k \in i..j : p[s].atoms[k].type = "RORGEND"

ASSUME ResolverAssumption ==
  /\ NumSecs \in Nat
  /\ \A p \in Programs :
       p \in [Secs -> SectionDesc] /\ DefinedOnce(p) /\ BlocksEnded(p)
  /\ MAXPASSES \in Nat /\ FASTOPTPHASE \in Nat /\ MAXSIZECHANGES \in Nat

VARIABLES
  prog,            \* the program
  phase,           \* where resolve() is: see Phases
  sec, idx,        \* the current section, and its atom
  cur,             \* the cursor of the walk
  symsec, labelpc, \* sec and pc of a label's symbol, 0 while undefined
  lastsize,        \* lastsize of every atom
  changes,         \* changes of every atom
  pass, fastphase, done, extrapass,    \* locals of resolve_section
  deps,            \* per section: who must be walked again when it changes
  todo, finished,  \* locals of resolve
  errors,          \* is the number of errors not 0?
  at               \* history: the cursor before each atom, in the last walk

progVars == <<prog, symsec>>
passVars == <<pass, fastphase, done, extrapass>>
outerVars == <<deps, todo, finished>>
atomVars == <<labelpc, lastsize, changes>>
vars == <<progVars, phase, sec, idx, cur, atomVars, passVars, outerVars,
          errors, at>>

Phases == {"parse", "outer", "begin", "pass", "resolved", "failed"}

Atoms(s) == prog[s].atoms
NumAtoms(s) == Len(Atoms(s))
AtomIds(s) == 1..NumAtoms(s)
Start(s) == StartOf(prog[s].org)

TypeOK ==
  /\ prog \in [Secs -> SectionDesc]
  /\ phase \in Phases
  /\ sec \in 0..NumSecs /\ idx \in Nat \ {0}
  /\ cur \in Cursor
  /\ symsec \in [Labels -> 0..NumSecs]
  /\ labelpc \in [Labels -> Addr]
  /\ pass \in Nat /\ fastphase \in Nat
  /\ done \in BOOLEAN /\ extrapass \in BOOLEAN
  /\ deps \in [Secs -> SUBSET Secs]
  /\ todo \subseteq Secs /\ finished \in BOOLEAN
  /\ errors \in BOOLEAN
  /\ DOMAIN lastsize = Secs /\ DOMAIN changes = Secs /\ DOMAIN at = Secs
  /\ \A s \in Secs :
       /\ lastsize[s] \in [AtomIds(s) -> Nat]
       /\ changes[s] \in [AtomIds(s) -> Nat]
       /\ at[s] \in [AtomIds(s) -> Cursor]

-----------------------------------------------------------------------------
(* expr.c: labels and expressions.  A label is constant in a section with   *)
(* an absolute address (ABSLABEL).                                          *)
LOCREF(l) == symsec[l] # 0

SymConst(l) == LOCREF(l) /\ prog[symsec[l]].absolute

SymOrg(l) == IF LOCREF(l) THEN prog[symsec[l]].org ELSE 0

DiffConst(l, r) ==
  \/ SymConst(l) /\ SymConst(r)
  \/ LOCREF(l) /\ LOCREF(r) /\ symsec[l] = symsec[r]

(* The SUB case of eval_expr.  Over a label of the walked section and one   *)
(* of another section it is the addend of a pc-relative relocation.         *)
DiffVal(l, r, s, pc) ==
  IF ~DiffConst(l, r) /\ symsec[r] = s
    THEN Wrap(pc - labelpc[r] + labelpc[l] - SymOrg(l))
    ELSE Wrap(labelpc[l] - labelpc[r])

Val(e, s, pc) ==
  CASE e.op = "NUM" -> e.val
    [] e.op = "SYM" -> labelpc[e.sym]
    [] e.op = "SUB" -> DiffVal(e.left, e.right, s, pc)
    [] e.op = "PAD" -> Wrap(e.val - DiffVal(e.left, e.right, s, pc))
    [] e.op = "EQ"  -> IF labelpc[e.sym] = e.val THEN 1 ELSE 0

(* What eval_expr returns: is the value constant? *)
Const(e) ==
  CASE e.op = "NUM" -> TRUE
    [] e.op \in {"SYM", "EQ"} -> SymConst(e.sym)
    [] e.op \in {"SUB", "PAD"} -> DiffConst(e.left, e.right)

(* The sections add_dep is called with. *)
DiffSecs(l, r) ==
  {symsec[x] : x \in {y \in {l, r} : SymConst(y) \/ DiffConst(l, r)}}

SymSecs(l) == IF SymConst(l) THEN {symsec[l]} ELSE {}

ExprSecs(e) ==
  CASE e.op = "NUM" -> {}
    [] e.op \in {"SYM", "EQ"} -> SymSecs(e.sym)
    [] e.op \in {"SUB", "PAD"} -> DiffSecs(e.left, e.right)

-----------------------------------------------------------------------------
(* atom_size() of atom.c. *)

(* space_size: also a value that is not constant is used, the final pass    *)
(* reports it (error 30).                                                   *)
space_size(a, s, pc) == a.size * Unsigned(Val(a.exp, s, pc))

(* optimize_instruction: may the branch be taken for pc-relative? *)
pcrelok(a, s) ==
  IF prog[s].absolute THEN SymConst(a.target)
                      ELSE ~SymConst(a.target) /\ symsec[a.target] = s

Distance(a, pc) == Wrap(labelpc[a.target] - (pc + 2))

instruction_size(a, s, pc, size, warn) ==
  IF pcrelok(a, s)
    THEN BranchSize(a.kind, last_size(size), Distance(a, pc), warn)
    ELSE 4

atom_size(a, s, pc, size, warn) ==
  CASE a.type \in {"LABEL", "RORG", "RORGEND"} -> 0
    [] a.type = "DATA" -> a.size
    [] a.type = "SPACE" -> space_size(a, s, pc)
    [] a.type = "INSTRUCTION" -> instruction_size(a, s, pc, size, warn)

AtomSecs(a) ==
  CASE a.type = "SPACE" -> ExprSecs(a.exp)
    [] a.type = "INSTRUCTION" -> SymSecs(a.target)
    [] OTHER -> {}

-----------------------------------------------------------------------------
(* The parser appends the atoms. *)
Init ==
  /\ prog \in Programs
  /\ phase = "parse"
  /\ sec = 0 /\ idx = 1
  /\ cur = StartOf(0)
  /\ symsec = [l \in Labels |-> 0]
  /\ labelpc = [l \in Labels |-> 0]
  /\ lastsize = [s \in Secs |-> [i \in AtomIds(s) |-> 0]]
  /\ changes = [s \in Secs |-> [i \in AtomIds(s) |-> 0]]
  /\ pass = 0 /\ fastphase = 0 /\ done = FALSE /\ extrapass = FALSE
  /\ deps = [s \in Secs |-> {}]
  /\ todo = Secs /\ finished = TRUE
  /\ errors = FALSE
  /\ at = [s \in Secs |-> [i \in AtomIds(s) |-> StartOf(0)]]

MoreAtoms == sec > 0 /\ idx <= NumAtoms(sec)

(* The size of a new atom; a new branch is a word branch (last_size is -1). *)
parse_size(a, s, pc) ==
  IF a.type = "INSTRUCTION" THEN 4 ELSE atom_size(a, s, pc, 0, FALSE)

(* new_labsym and internal_add_atom. *)
AddAtom ==
  /\ phase = "parse" /\ MoreAtoms
  /\ LET a == Atoms(sec)[idx]
         pc == pcalign(a, cur.pc)
         size == parse_size(a, sec, pc)
     IN
     /\ IF a.type = "LABEL"
          THEN /\ symsec' = [symsec EXCEPT ![a.label] = sec]
               /\ labelpc' = [labelpc EXCEPT ![a.label] = cur.pc]
          ELSE UNCHANGED <<symsec, labelpc>>
     /\ lastsize' = [lastsize EXCEPT ![sec][idx] = size]
     /\ cur' = Advance([cur EXCEPT !.pc = pc], size)
  /\ idx' = idx + 1
  /\ UNCHANGED <<prog, phase, sec, changes, passVars, outerVars, errors, at>>

AddSection ==
  /\ phase = "parse" /\ ~MoreAtoms /\ sec < NumSecs
  /\ sec' = sec + 1
  /\ idx' = 1
  /\ cur' = Start(sec + 1)
  /\ UNCHANGED <<progVars, phase, atomVars, passVars, outerVars, errors, at>>

(* The source ends.  It may have had errors: sections are resolved then, if *)
(* a listing was asked for, but only one pass each.                         *)
StartResolve ==
  /\ phase = "parse" /\ ~MoreAtoms /\ sec = NumSecs
  /\ phase' = "outer"
  /\ sec' = 0
  /\ todo' = Secs /\ finished' = TRUE
  /\ errors' \in BOOLEAN
  /\ UNCHANGED <<progVars, idx, cur, atomVars, passVars, deps, at>>

-----------------------------------------------------------------------------
(* resolve(): the sections in todo, in their order; then once more, if any  *)
(* was walked.                                                              *)
NextSection ==
  /\ phase = "outer"
  /\ \E s \in todo :
       /\ s > sec /\ \A t \in todo : t > sec => s <= t
       /\ sec' = s
  /\ finished' = FALSE
  /\ phase' = "begin"
  /\ pass' = 0 /\ fastphase' = FASTOPTPHASE
  /\ UNCHANGED <<progVars, idx, cur, atomVars, done, extrapass, deps, todo,
                 errors, at>>

EndOfList ==
  /\ phase = "outer" /\ \A t \in todo : t <= sec
  /\ IF finished THEN phase' = "resolved" /\ UNCHANGED <<sec, finished>>
                 ELSE sec' = 0 /\ finished' = TRUE /\ UNCHANGED phase
  /\ UNCHANGED <<progVars, idx, cur, atomVars, passVars, deps, todo, errors,
                 at>>

-----------------------------------------------------------------------------
(* resolve_section() *)

(* Error 7 is fatal. *)
BeginPass ==
  /\ phase = "begin"
  /\ pass' = pass + 1
  /\ IF pass + 1 >= MAXPASSES
       THEN /\ phase' = "failed" /\ errors' = TRUE
            /\ UNCHANGED <<done, extrapass, cur, idx>>
       ELSE /\ phase' = "pass"
            /\ done' = TRUE
            /\ extrapass' = (pass + 1 <= fastphase)
            /\ cur' = Start(sec) /\ idx' = 1
            /\ UNCHANGED errors
  /\ UNCHANGED <<progVars, sec, atomVars, fastphase, outerVars, at>>

ThisAtom == Atoms(sec)[idx]
Here == Enter(cur, ThisAtom)
SafeMode == pass > fastphase

Visit(size) ==
  /\ phase = "pass" /\ MoreAtoms
  /\ cur' = Advance(Here, size)
  /\ idx' = idx + 1
  /\ at' = [at EXCEPT ![sec][idx] = cur]
  /\ UNCHANGED <<progVars, phase, sec, pass, fastphase, todo, finished, errors>>

(* A label is moved; it has no size. *)
VisitLabel ==
  /\ Visit(0)
  /\ ThisAtom.type = "LABEL"
  /\ labelpc' = [labelpc EXCEPT ![ThisAtom.label] = Here.pc]
  /\ done' = (done /\ labelpc[ThisAtom.label] = Here.pc)
  /\ UNCHANGED <<lastsize, changes, extrapass, deps>>

(* Variant: every pass looks at every instruction. *)
Skipped_MutNever == FALSE

(* In safe mode an instruction is not looked at once something changed. *)
Skipped == ThisAtom.type = "INSTRUCTION" /\ SafeMode /\ ~done

SkipInstruction ==
  /\ phase = "pass" /\ MoreAtoms
  /\ Skipped
  /\ Visit(lastsize[sec][idx])
  /\ UNCHANGED <<atomVars, done, extrapass, deps>>

Warned(s, i) == changes[s][i] > MAXSIZECHANGES

NewSize ==
  atom_size(ThisAtom, sec, Here.pc, lastsize[sec][idx], Warned(sec, idx))

(* Variant: the two sections are taken for each other. *)
add_dep_MutReversed ==
  deps' = [deps EXCEPT ![sec] = @ \cup (AtomSecs(ThisAtom) \ {sec})]

(* The section of this atom is walked again when one of these changes. *)
add_dep ==
  deps' = [t \in Secs |-> IF t \in AtomSecs(ThisAtom) \ {sec}
                            THEN deps[t] \cup {sec} ELSE deps[t]]

VisitAtom ==
  /\ phase = "pass" /\ MoreAtoms
  /\ ThisAtom.type # "LABEL" /\ ~Skipped
  /\ Visit(NewSize)
  /\ add_dep
  /\ IF NewSize # lastsize[sec][idx]
       THEN /\ done' = FALSE
            /\ lastsize' = [lastsize EXCEPT ![sec][idx] = NewSize]
            /\ changes' = [changes EXCEPT ![sec][idx] =
                             IF SafeMode THEN @ + 1 ELSE @]
            /\ extrapass' = (extrapass /\ (SafeMode
                                           \/ NewSize < lastsize[sec][idx]))
       ELSE UNCHANGED <<done, lastsize, changes, extrapass>>
  /\ UNCHANGED labelpc

(* Variant: a section is not taken off the list. *)
EndPass_MutKeepTodo ==
  /\ phase = "pass" /\ ~MoreAtoms
  /\ fastphase' = IF extrapass THEN fastphase + 1 ELSE fastphase
  /\ IF ~errors /\ ~done
       THEN phase' = "begin" /\ UNCHANGED todo
       ELSE /\ phase' = "outer"
            /\ todo' = todo \cup deps[sec]
  /\ UNCHANGED <<progVars, sec, idx, cur, atomVars, pass, done, extrapass,
                 deps, finished, errors, at>>

(* Variant: the other sections are told only of a second change. *)
EndPass_MutTwoPasses ==
  /\ phase = "pass" /\ ~MoreAtoms
  /\ fastphase' = IF extrapass THEN fastphase + 1 ELSE fastphase
  /\ IF ~errors /\ ~done
       THEN phase' = "begin" /\ UNCHANGED todo
       ELSE /\ phase' = "outer"
            /\ todo' = (todo \ {sec}) \cup (IF pass > 2 THEN deps[sec] ELSE {})
  /\ UNCHANGED <<progVars, sec, idx, cur, atomVars, pass, done, extrapass,
                 deps, finished, errors, at>>

(* The fast phase is extended when no atom grew; the section is left when   *)
(* nothing changed, or at an error.                                         *)
EndPass ==
  /\ phase = "pass" /\ ~MoreAtoms
  /\ fastphase' = IF extrapass THEN fastphase + 1 ELSE fastphase
  /\ IF ~errors /\ ~done
       THEN phase' = "begin" /\ UNCHANGED todo
       ELSE /\ phase' = "outer"
            /\ todo' = (todo \ {sec}) \cup (IF pass > 1 THEN deps[sec] ELSE {})
  /\ UNCHANGED <<progVars, sec, idx, cur, atomVars, pass, done, extrapass,
                 deps, finished, errors, at>>

Next ==
  \/ AddAtom \/ AddSection \/ StartResolve
  \/ NextSection \/ EndOfList
  \/ BeginPass \/ VisitLabel \/ SkipInstruction \/ VisitAtom \/ EndPass

(* The program is sequential: while it has a next step it takes it. *)
Spec == Init /\ [][Next]_vars /\ WF_vars(Next)

-----------------------------------------------------------------------------
(* Is the cursor before atom i where the atoms before it lead to? *)
Chained(s, i) ==
  at[s][i] = IF i = 1 THEN Start(s)
             ELSE Advance(Enter(at[s][i - 1], Atoms(s)[i - 1]),
                          lastsize[s][i - 1])

Placed(s, i) == Enter(at[s][i], Atoms(s)[i])

(* Would assemble() find the label where its symbol says, and an atom of    *)
(* the size it was given room for?  (A space whose size is not constant is  *)
(* refused in the final pass, error 30.)                                    *)
AtomSettled(s, i) ==
  LET a == Atoms(s)[i] IN
  CASE a.type = "LABEL" -> labelpc[a.label] = Placed(s, i).pc
    [] a.type = "SPACE" /\ ~Const(a.exp) -> TRUE
    [] OTHER -> lastsize[s][i] = atom_size(a, s, Placed(s, i).pc,
                                           lastsize[s][i], Warned(s, i))

Settled(s) == \A i \in AtomIds(s) : Chained(s, i) /\ AtomSettled(s, i)

InProgress == phase \in {"begin", "pass"}

(* Something changed since resolve_section() was called. *)
SecChanged == InProgress /\ (pass > 1 \/ (pass = 1 /\ ~done))

(* While sections are resolved one after the other, what is not consistent  *)
(* is on the list, or will be put on it when the current section is done.   *)
OnlyTodoIsStale ==
  phase \notin {"parse", "failed"} /\ ~errors =>
    \A s \in Secs \ todo : Settled(s) \/ (SecChanged /\ s \in deps[sec])

(* When resolve() comes to its end without an error, every section is laid  *)
(* out consistently with the final addresses of every other section.        *)
LayoutSettled ==
  phase = "resolved" /\ ~errors => \A s \in Secs : Settled(s)

(* Every branch then reaches its destination with the size it has: only    *)
(* the last pass may decide, whatever was removed, shortened or put back.   *)
BranchesReach ==
  phase = "resolved" /\ ~errors =>
    \A s \in Secs : \A i \in AtomIds(s) :
      LET a == Atoms(s)[i] IN
      a.type = "INSTRUCTION" /\ pcrelok(a, s) =>
        Reaches(lastsize[s][i], Distance(a, Placed(s, i).pc))

(* In safe mode an instruction is only given a new size while everything    *)
(* before it in the section is laid out consistently ("a single instruction *)
(* is changed in every pass", vasm.c:23).                                   *)
SafeStep ==
  \A s \in Secs : \A i \in AtomIds(s) :
    Atoms(s)[i].type = "INSTRUCTION" /\ phase = "pass" /\ SafeMode
      /\ lastsize'[s][i] # lastsize[s][i]
    => /\ \A j \in 1..i - 1 : Chained(s, j) /\ AtomSettled(s, j)
       /\ ~done'

SafeModeIsSafe == [][SafeStep]_vars

(* Branches and alignments alone settle down: the limit of passes, error 7, *)
(* is not met when no space depends on a label.                             *)
DependsOnLabels(a) == a.type = "SPACE" /\ a.exp.op # "NUM"
NoMaxPasses ==
  phase = "failed" =>
    \E s \in Secs : \E i \in AtomIds(s) : DependsOnLabels(Atoms(s)[i])

(* resolve() comes to its end, if only by way of the limit of passes:       *)
(* vasm.c:19, "It fails on reaching MAXPASSES".                             *)
Terminates == <>(phase \in {"resolved", "failed"})

=============================================================================
