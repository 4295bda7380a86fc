------------------------------ MODULE CondHist ------------------------------
(***************************************************************************)
(* Cond together with a history variable, the stack of blocks as the source *)
(* writes them.  Every line moves the assembler's levels (Cond) and the     *)
(* stack (the operators of CondSpec) with the same operands, so that        *)
(* CondSpec, with "on" read off the assembler's levels, can be checked and  *)
(* proved to be implemented.                                                *)
(***************************************************************************)
EXTENDS Cond, Sequences

CONSTANT
  BranchInIgnored   \* may an ignored block have elseif or case directives?

ASSUME BranchInIgnoredAssumption == BranchInIgnored \in BOOLEAN

VARIABLE frames

histVars == <<vars, frames>>

Abstract == INSTANCE CondSpec WITH on <- cond_state, failed <- errors

HInit == Init /\ frames = <<>>

(* Directives after which the stack is as CondSpec says. *)
HIf(flag) == IfLine(flag) /\ frames' = Abstract!Open(frames, "if", -1, flag)

HSwitch(val) ==
  SwitchLine(val) /\ frames' = Abstract!Open(frames, "switch", val, FALSE)

HElse ==
  /\ ElseLine
  /\ frames' = IF frames = <<>> THEN frames ELSE Abstract!Branch(frames, TRUE)

HElseif(flag) ==
  /\ ElseifLine(flag)
  /\ ifnesting > 0 => BranchInIgnored
  /\ frames' = IF frames = <<>> THEN frames ELSE Abstract!Elseif(frames, flag)

HCase(vals) ==
  /\ CaseLine(vals)
  /\ ifnesting > 0 => BranchInIgnored
  /\ frames' = IF frames = <<>> THEN frames ELSE Abstract!Case(frames, vals)

HEndif ==
  /\ EndifLine
  /\ frames' = IF frames = <<>> THEN frames ELSE Abstract!Close(frames)

(* A line in error, or the end: the stack no longer matters. *)
HOther ==
  /\ BadIfLine \/ BadOpenLine \/ BadElseifLine \/ cond_check
  /\ UNCHANGED frames

HNext ==
  \/ \E flag \in BOOLEAN : HIf(flag) \/ HElseif(flag)
  \/ \E val \in Values : HSwitch(val)
  \/ \E vals \in SUBSET Values : HCase(vals)
  \/ HElse
  \/ HEndif
  \/ HOther

HSpec == HInit /\ [][HNext]_histVars

(* After an error the run is of no interest: the states are not explored.  *)
NoErrorYet == ~errors

-----------------------------------------------------------------------------
(* What an entry of cond[] says about its block. *)
StateOf(c) ==
  IF c = 1 THEN "selected" ELSE IF c = 0 THEN "waiting" ELSE "done"

(* How the assembler's levels stand for the stack: the first clev blocks    *)
(* are the levels, the others are the ignored ones, of which only the       *)
(* number is kept.                                                          *)
LevelsAreFrames ==
  \A l \in 1..clev :
    /\ frames[l].kind = condtype[l]
    /\ frames[l].value = condeval[l]
    /\ frames[l].state = StateOf(cond[l])

IgnoredAreDead ==
  \A l \in clev + 1..Len(frames) : frames[l].state = "done"

(* Until an error is reported the assembler's levels and its count of       *)
(* ignored blocks describe the blocks of the source, and a block is ignored *)
(* only where the block around it is being skipped.                         *)
Linked ==
  ~errors =>
    /\ Len(frames) = clev + ifnesting
    /\ LevelsAreFrames
    /\ IgnoredAreDead
    /\ ifnesting > 0 => ~cond_state

(* The assembler implements CondSpec: it assembles exactly the lines whose  *)
(* every enclosing branch is selected (parse() of syntax.c with cond.c).    *)
ImplementsCondSpec == Abstract!CondSpecification

=============================================================================
