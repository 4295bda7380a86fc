------------------------------ MODULE CondSpec ------------------------------
(***************************************************************************)
(* What conditional assembly promises the author of a source, without the   *)
(* assembler's level arrays and its count of ignored blocks: blocks nest as *)
(* they are written, a line is assembled exactly when the branch it is in   *)
(* is the selected one in every block around it, and a block selects at     *)
(* most one branch, the first whose condition holds.                        *)
(***************************************************************************)
EXTENDS Integers, Sequences

CONSTANTS Values

VARIABLES
  frames,     \* the open blocks, outermost first
  on,         \* is the next line assembled?
  failed      \* the source is in error: nothing is promised any more

specVars == <<frames, on, failed>>

(* A block waits for its branch, is in the selected one, or is past it. *)
BranchState == {"waiting", "selected", "done"}

Frame == [kind : {"if", "switch"},
          value : Values \cup {-1},   \* what a switch compares its cases with
          state : BranchState]

SpecTypeOK ==
  /\ frames \in Seq(Frame)
  /\ on \in BOOLEAN
  /\ failed \in BOOLEAN

AllLive(fs) == \A i \in DOMAIN fs : fs[i].state = "selected"

Top(fs) == fs[Len(fs)]

FirstState(fs, flag) ==
  IF ~AllLive(fs) THEN "done" ELSE IF flag THEN "selected" ELSE "waiting"

(* A block opened in a region that is not assembled never selects a branch. *)
Open(fs, kind, value, flag) ==
  Append(fs, [kind |-> kind, value |-> value, state |-> FirstState(fs, flag)])

NextState(state, flag) ==
  IF state # "waiting" THEN "done" ELSE IF flag THEN "selected" ELSE "waiting"

(* The next branch of the innermost block, with its condition. *)
Branch(fs, flag) == [fs EXCEPT ![Len(fs)].state = NextState(@, flag)]

(* A branch directive of the other kind of block: nothing more is selected. *)
Finish(fs) == [fs EXCEPT ![Len(fs)].state = "done"]

Close(fs) == SubSeq(fs, 1, Len(fs) - 1)

Elseif(fs, flag) == IF Top(fs).kind = "if" THEN Branch(fs, flag) ELSE Finish(fs)

Case(fs, vals) ==
  IF Top(fs).kind = "switch" THEN Branch(fs, Top(fs).value \in vals)
                             ELSE Finish(fs)

(* The stack after one directive; lines that leave the stack alone stutter. *)
FramesAfter(fs) ==
  UNION { {Open(fs, "if", -1, flag) : flag \in BOOLEAN},
          {Open(fs, "switch", val, FALSE) : val \in Values},
          IF fs = <<>> THEN {}
          ELSE {Branch(fs, TRUE), Close(fs)}
               \cup {Elseif(fs, flag) : flag \in BOOLEAN}
               \cup {Case(fs, vals) : vals \in SUBSET Values} }

SpecInit == frames = <<>> /\ on = TRUE /\ failed = FALSE

Line ==
  /\ ~failed
  /\ failed' = FALSE
  /\ frames' \in FramesAfter(frames)
  /\ on' <=> AllLive(frames')

(* An error was reported: no output will be written. *)
Fail == failed' = TRUE

SpecNext == Line \/ Fail

CondSpecification == SpecInit /\ [][SpecNext]_specVars

=============================================================================
