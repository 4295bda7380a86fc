------------------------------ MODULE Assemble ------------------------------
(***************************************************************************)
(* assemble() of vasm.c: the walk over the resolved sections that turns     *)
(* every atom into the bytes it has in the object, and the walk of the      *)
(* binary output module over what it leaves behind.  Nothing is adjusted    *)
(* any more: what the walk finds has to be what resolve() found.            *)
(*                                                                         *)
(* A step is one atom.  Inside of a relocated block (RORG) the addresses    *)
(* are not those of the object, where alignments are made again when it is  *)
(* written: the walk turns them into space atoms and forgets them.          *)
(*                                                                         *)
(* Left out: the contents of the atoms, warnings about alignment and        *)
(* initialised data, debug information, and atoms without a size.           *)
(***************************************************************************)
EXTENDS Resolver

VARIABLES
  walk,           \* where assemble() is: see Walks
  align,          \* align of every atom, changed on the way
  gap,            \* size of the space atom inserted before every atom, or 0
  ovflw,          \* a local: the last atom ended with the address space
  overflow        \* was general_error(45), address space overflow, reported?

walkVars == <<walk, align, gap, ovflw, overflow>>
avars == <<vars, walkVars>>

(* An internal error ends the program. *)
Walks == {"waiting", "section", "done", "ierror"}

AInit ==
  /\ Init
  /\ walk = "waiting"
  /\ align = [s \in Secs |-> [i \in AtomIds(s) |-> Atoms(s)[i].align]]
  /\ gap = [s \in Secs |-> [i \in AtomIds(s) |-> 0]]
  /\ ovflw = FALSE /\ overflow = FALSE

Resolve == Next /\ UNCHANGED walkVars

(* With errors sections are assembled only when a listing was asked for,    *)
(* and then they were resolved for the same reason.                         *)
BeginAssemble ==
  /\ phase = "resolved" /\ walk = "waiting"
  /\ IF NumSecs = 0 THEN walk' = "done" /\ UNCHANGED <<sec, idx, cur>>
     ELSE /\ walk' = "section"
          /\ sec' = 1 /\ idx' = 1 /\ cur' = Start(1)
  /\ ovflw' = FALSE
  /\ UNCHANGED <<progVars, phase, atomVars, passVars, outerVars, errors, at,
                 align, gap, overflow>>

NextAssemble ==
  /\ walk = "section" /\ ~MoreAtoms
  /\ IF sec = NumSecs THEN walk' = "done" /\ UNCHANGED <<sec, idx, cur>>
     ELSE /\ sec' = sec + 1 /\ idx' = 1 /\ cur' = Start(sec + 1)
          /\ UNCHANGED walk
  /\ ovflw' = FALSE
  /\ UNCHANGED <<progVars, phase, atomVars, passVars, outerVars, errors, at,
                 align, gap, overflow>>

(* Variant: that a branch changed too often is forgotten. *)
FinalSize_MutNoWarn ==
  atom_size(ThisAtom, sec, Here.pc, lastsize[sec][idx], FALSE)

(* The bytes an atom has in the end.  A branch is evaluated again, on the   *)
(* size it had last; a space must be constant now (error 30).               *)
FinalSize ==
  atom_size(ThisAtom, sec, Here.pc, lastsize[sec][idx], Warned(sec, idx))
NotConstant == ThisAtom.type = "SPACE" /\ ~Const(ThisAtom.exp)

(* The alignment in front of an atom. *)
Moved == pcalign(ThisAtom, cur.pc) # cur.pc
PadBytes == Wrap(pcalign(ThisAtom, cur.pc) - cur.pc)

(* Variant: an alignment that does nothing here may do something in the     *)
(* object. *)
alignment_to_space_MutKeep ==
  IF cur.rorg = 1 /\ Moved
    THEN /\ gap' = [gap EXCEPT ![sec][idx] = PadBytes]
         /\ align' = [align EXCEPT ![sec][idx] = 1]
    ELSE UNCHANGED <<gap, align>>

alignment_to_space ==
  IF cur.rorg = 1
    THEN /\ gap' = [gap EXCEPT ![sec][idx] = IF Moved THEN PadBytes ELSE 0]
         /\ align' = [align EXCEPT ![sec][idx] = 1]
    ELSE UNCHANGED <<gap, align>>

(* The atom before is needed to insert one. *)
CannotInsert == cur.rorg = 1 /\ Moved /\ (idx = 1 \/ PadBytes <= 0)

(* Variant: an atom that starts behind the last address is not noticed. *)
Overflows_MutNext(oldpc, pc) ==
  pc # oldpc /\ Unsigned(pc - 1) < Unsigned(oldpc)

Overflows(oldpc, pc) ==
  pc # oldpc /\ (Unsigned(pc - 1) < Unsigned(oldpc) \/ ovflw)

AssembleAtom ==
  /\ walk = "section" /\ MoreAtoms
  /\ walk' = IF CannotInsert THEN "ierror" ELSE walk
  /\ alignment_to_space
  /\ LET next == Advance(Here, FinalSize)
     IN /\ cur' = next
        /\ overflow' = (overflow \/ Overflows(Here.pc, next.pc))
        /\ ovflw' = IF next.pc = Here.pc THEN ovflw ELSE next.pc = 0
        /\ errors' = (errors \/ NotConstant \/ overflow')
  /\ idx' = idx + 1
  /\ UNCHANGED <<progVars, phase, sec, atomVars, passVars, outerVars, at>>

ANext ==
  \/ Resolve \/ BeginAssemble \/ NextAssemble \/ AssembleAtom

ASpec == AInit /\ [][ANext]_avars /\ WF_avars(ANext)

-----------------------------------------------------------------------------
(* The walk of write_output(), output_bin.c, over the atoms of a section    *)
(* with these alignments, spaces and sizes: the place behind every atom.    *)
(* It knows nothing of relocated blocks.                                    *)
Aligned(a, n, pc) == pcalign([a EXCEPT !.align = n], pc)

OutputPcs(section, aligns, gaps, sizes) ==
  LET Place(i, pc) == Aligned(section.atoms[i], aligns[i], Wrap(pc + gaps[i]))
      pcs[i \in 0..Len(section.atoms)] ==
        IF i = 0 THEN section.org
        ELSE Wrap(Place(i, pcs[i - 1]) + sizes[i])
  IN pcs

OutputPc(s, n) == OutputPcs(prog[s], align[s], gap[s], lastsize[s])[n]

(* The place in the object that a cursor of assemble() stands for.          *)
ObjectPc(c) ==
  IF c.rorg = 1 THEN Wrap(c.org_pc + (c.pc - c.rorg_pc)) ELSE c.pc

Walking == walk = "section" /\ ~errors

(* The final walk comes to every atom where the last pass of resolve() came *)
(* to it, gives it the size it was given room for, and finds every label    *)
(* at the address the symbol has.                                           *)
AssembledAsResolved ==
  Walking =>
    /\ cur = IF idx = 1 THEN Start(sec)
             ELSE Advance(Placed(sec, idx - 1), lastsize[sec][idx - 1])
    /\ MoreAtoms /\ ThisAtom.type = "LABEL"
         => Here.pc = labelpc[ThisAtom.label]

(* The bytes of an atom are written where the addresses say they are,       *)
(* counted from the start of the section, also in and behind relocated      *)
(* blocks, whose alignments can all be turned into space.                   *)
WrittenAsAssembled ==
  /\ walk # "ierror"
  /\ Walking => OutputPc(sec, idx - 1) = ObjectPc(cur)

(* How far an atom reaches, counted without wrapping from the start of the  *)
(* section.                                                                 *)
End(s, i) ==
  Unsigned(prog[s].org) + Unsigned(Placed(s, i).pc - prog[s].org)
    + lastsize[s][i]
TooFar(s, i) == lastsize[s][i] > 0 /\ End(s, i) > 2 * Half

(* In a section whose pc moves by the sizes of atoms alone.  An atom as     *)
(* large as the address space does not move it: nothing is noticed then.    *)
Plain(s) ==
  \A i \in AtomIds(s) :
    /\ Atoms(s)[i].type # "RORG" /\ Atoms(s)[i].align = 1
    /\ lastsize[s][i] < 2 * Half

(* What was assembled without an error lies inside of the address space.    *)
OverflowReported ==
  Walking /\ Plain(sec) => \A i \in 1..idx - 1 : ~TooFar(sec, i)

=============================================================================
