----------------------------- MODULE SourceSpec -----------------------------
(***************************************************************************)
(* What the source stack promises a line of a macro or of a repeated block: *)
(* an activation of a macro shifts its own arguments and nobody else's, a   *)
(* repetition counts its own iterations, and a line sees the shift of the   *)
(* innermost macro around it and the iteration of the innermost source.     *)
(***************************************************************************)
EXTENDS Integers, Sequences, SequencesExt

CONSTANTS
  maxmacparams,   \* the arguments a macro can have
  MaxTimes        \* the largest number of iterations of a repetition

VARIABLES
  frames,         \* the sources being read, the main source first
  shiftn,         \* the number of arguments a line sees as shifted out
  reptn           \* the iteration a line sees, -1 outside of repetitions

vars == <<frames, shiftn, reptn>>

Loops == {"counted", "conditional"}

(* The innermost macro; the main source stands for lines outside of macros. *)
Owner(f) == Max({1} \cup {i \in DOMAIN f : f[i].kind = "macro"})

Visible(f) == shiftn' = f[Owner(f)].shift /\ reptn' = Last(f).iter

Init ==
  /\ frames = <<[kind |-> "text", shift |-> 0, iter |-> -1, times |-> 1]>>
  /\ shiftn = 0
  /\ reptn = -1

Become(f) == frames' = f /\ Visible(f)

(* A macro call, an include, or the start of a repetition. *)
Enter(kind, times) ==
  Become(Append(frames,
    [kind |-> kind, shift |-> 0, times |-> times,
     iter |-> IF kind \in Loops THEN 0 ELSE Last(frames).iter]))

Shift ==
  /\ frames[Owner(frames)].shift < maxmacparams
  /\ Become([frames EXCEPT ![Owner(frames)].shift = @ + 1])

NextIteration ==
  /\ Last(frames).kind \in Loops
  /\ Last(frames).iter + 1 < Last(frames).times
  /\ Become([frames EXCEPT ![Len(frames)].iter = @ + 1])

(* Only a repetition with a condition may end before its last iteration. *)
Leave ==
  /\ Len(frames) > 1
  /\ Last(frames).kind = "counted" => Last(frames).iter + 1 = Last(frames).times
  /\ Become(Front(frames))

Next ==
  \/ \E kind \in Loops, times \in 1..MaxTimes : Enter(kind, times)
  \/ Enter("text", 1)
  \/ Enter("macro", 1)
  \/ Shift
  \/ NextIteration
  \/ Leave

Spec == Init /\ [][Next]_vars

=============================================================================
