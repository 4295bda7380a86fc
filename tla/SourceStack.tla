---------------------------- MODULE SourceStack ----------------------------
(***************************************************************************)
(* The stack of sources the parser reads from: source.c and the macros and  *)
(* repetitions of parse.c, with the psi-x directives that work on them.     *)
(*                                                                         *)
(* A step is one source line that acts on the stack, or the end of a text.  *)
(* What a text says is not modelled: any line may come next, so every macro *)
(* and every block may do anything, and may do something else each time it  *)
(* is read, as conditional assembly allows.  Blocks are read whole; where   *)
(* they end is the subject of BlockScan.  The conditional directives are    *)
(* those of Cond, whose level a source remembers and mexit restores.        *)
(*                                                                         *)
(* The symbols NARG and CARG point to expressions, which the code modifies  *)
(* in place: expression 0 is the one NARG was created with, expression d a  *)
(* CARG made for a macro at depth d of the stack, 1 the first one.          *)
(***************************************************************************)
EXTENDS Integers, Sequences, SequencesExt, FiniteSets

CONSTANTS
  Macros,         \* the macros that are defined
  NoMacro,        \* the macro of a source that is not one
  maxmacrecurs,   \* vasm.c: recursions of a macro before the fatal error 56
  maxmacparams,   \* vasm.c: the arguments a macro can have
  maxloopiters,   \* parse.h: the iterations of a loop before error 92
  MaxRept,        \* bound of the model: the count of a rept, the values of an irp
  MaxDepth,       \* bound of the model: sources on the stack
  MAXCONDLEV, MaxIfNesting, Values   \* of Cond

ASSUME SourceStackAssumption ==
  /\ NoMacro \notin Macros
  /\ {maxmacrecurs, maxmacparams, maxloopiters, MaxRept, MaxDepth}
       \subseteq Nat \ {0}

VARIABLES
  src,            \* the sources, cur_src last
  recursions,     \* per macro: its activations
  heap,           \* the values of the expressions NARG and CARG point to
  NARG, CARG,     \* the expressions of the symbols
  REPTN,          \* the value of the symbol
  clev, cond, condeval, condtype, ifnesting, errors, halted   \* of Cond

Conditionals == INSTANCE Cond

srcVars == <<src, recursions, heap, NARG, CARG, REPTN>>
condVars == <<clev, cond, condeval, condtype, ifnesting>>
vars == <<srcVars, condVars, errors, halted>>

cur_src == Last(src)
None == -1
Kinds == {"text", "rept", "irp", "while", "until"}

new_source(reptn, level) ==
  [macro |-> NoMacro, kind |-> "text", repeat |-> 1, irpvals |-> 0,
   reptn |-> reptn, num_params |-> -1, cond_level |-> level,
   nargexp |-> None, cargexp |-> None, ended |-> FALSE]

Init ==
  /\ Conditionals!Init
  /\ src = <<new_source(-1, clev)>>
  /\ recursions = [m \in Macros |-> 0]
  /\ heap = [e \in 0..MaxDepth |-> 0]
  /\ NARG = 0
  /\ CARG = 1
  /\ REPTN = -1

-----------------------------------------------------------------------------
(* A line of the current source that is being assembled. *)
LiveLine == ~halted /\ ~cur_src.ended /\ Conditionals!cond_state

(* Directives of conditional assembly are looked at in every line. *)
CondLine ==
  /\ ~cur_src.ended
  /\ \/ \E flag \in BOOLEAN : Conditionals!IfLine(flag)
     \/ Conditionals!ElseLine
     \/ Conditionals!EndifLine
  /\ UNCHANGED srcVars

(* The expression my_exec_macro makes for the CARG of a macro. *)
number_expr == Len(src) + 1

(* Variant: the shift count is reset in place, as the count of NARG is set. *)
my_exec_macro_MutInPlace(params) ==
  /\ CARG' = CARG
  /\ heap' = [heap EXCEPT ![CARG] = 0, ![NARG] = params]
  /\ UNCHANGED NARG

(* CARG gets an expression of its own, the one of NARG is overwritten. *)
my_exec_macro(params) ==
  /\ CARG' = number_expr
  /\ heap' = [heap EXCEPT ![number_expr] = 0, ![NARG] = params]
  /\ UNCHANGED NARG

TooManyRecursions(m) == recursions[m] >= maxmacrecurs

(* A line that calls macro m; error 56 is fatal. *)
execute_macro(m, params) ==
  /\ LiveLine
  /\ IF TooManyRecursions(m)
       THEN /\ errors' = TRUE /\ halted' = TRUE
            /\ UNCHANGED <<srcVars, condVars>>
       ELSE /\ Len(src) < MaxDepth
            /\ recursions' = [recursions EXCEPT ![m] = @ + 1]
            /\ src' = Append(
                 [src EXCEPT ![Len(src)].cargexp = CARG,
                             ![Len(src)].nargexp = NARG],
                 [new_source(cur_src.reptn, clev) EXCEPT
                    !.macro = m, !.num_params = params])
            /\ my_exec_macro(params)
            /\ UNCHANGED <<REPTN, condVars, errors, halted>>

include_source ==
  /\ LiveLine /\ Len(src) < MaxDepth
  /\ src' = Append(src, new_source(cur_src.reptn, clev))
  /\ UNCHANGED <<recursions, heap, NARG, CARG, REPTN, condVars, errors, halted>>

(* The times a block is read; the condition of a loop may end it earlier. *)
Iterations(kind, cnt) ==
  IF kind \in {"while", "until"} THEN maxloopiters ELSE cnt

(* A block that was read to its end directive.  A rept with a count of 0    *)
(* and a while whose condition is false are not executed; an irp or irpc    *)
(* without values is, once.                                                 *)
start_repeat(kind, cnt) ==
  /\ LiveLine /\ Len(src) < MaxDepth
  /\ IF cnt = 0 /\ kind \in {"rept", "while"}
       THEN UNCHANGED <<src, REPTN>>
       ELSE LET times == IF kind = "irp" /\ cnt = 0 THEN 1
                                                    ELSE Iterations(kind, cnt)
            IN /\ src' = Append(src,
                    [new_source(0, clev) EXCEPT
                       !.kind = kind, !.repeat = times,
                       !.irpvals = IF kind = "irp" THEN times ELSE 0,
                       !.num_params = cur_src.num_params])
               /\ REPTN' = 0
  /\ UNCHANGED <<recursions, heap, NARG, CARG, condVars, errors, halted>>

(* Outside of macros shift is an error. *)
handle_shift ==
  /\ LiveLine
  /\ IF \E i \in 2..Len(src) : src[i].macro # NoMacro
       THEN /\ heap' = [heap EXCEPT ![CARG] =
                          IF @ < maxmacparams THEN @ + 1 ELSE @]
            /\ UNCHANGED errors
       ELSE errors' = TRUE /\ UNCHANGED heap
  /\ UNCHANGED <<src, recursions, NARG, CARG, REPTN,
                 condVars, halted>>

(* mexit: leave_macro and end_source. *)
leave_macro ==
  /\ LiveLine
  /\ IF cur_src.macro # NoMacro
       THEN /\ src' = [src EXCEPT ![Len(src)].ended = TRUE,
                                  ![Len(src)].repeat = 1]
            /\ clev' = cur_src.cond_level
            /\ UNCHANGED errors
       ELSE errors' = TRUE /\ UNCHANGED <<src, clev>>      \* error 36
  /\ UNCHANGED <<recursions, heap, NARG, CARG, REPTN,
                 cond, condeval, condtype, ifnesting, halted>>

-----------------------------------------------------------------------------
(* read_next_line() at the end of a text. *)

(* v is the value of the condition of a loop. *)
cond_eval(v) == CASE cur_src.kind = "while" -> v
                  [] cur_src.kind = "until" -> ~v
                  [] OTHER -> TRUE

(* The condition of a loop is evaluated before the count is looked at; one  *)
(* that does not evaluate is an error and ends the loop.                    *)
Conditional == cur_src.kind \in {"while", "until"}

(* Variant: the value of the last iteration is not dropped. *)
ReadAgain_MutKeepValue ==
  /\ src' = [src EXCEPT ![Len(src)].repeat = @ - 1,
                        ![Len(src)].reptn = @ + 1]
  /\ REPTN' = cur_src.reptn + 1
  /\ UNCHANGED <<recursions, heap, NARG, CARG, condVars, errors, halted>>

ReadAgain ==
  /\ src' = [src EXCEPT ![Len(src)].repeat = @ - 1,
                        ![Len(src)].reptn = @ + 1,
                        ![Len(src)].irpvals = IF @ > 0 THEN @ - 1 ELSE 0]
  /\ REPTN' = cur_src.reptn + 1
  /\ UNCHANGED <<recursions, heap, NARG, CARG, condVars, errors, halted>>

(* Variant: an activation ended by mexit is not counted out. *)
Released_MutEnded(m) ==
  IF m \in Macros /\ ~cur_src.ended
    THEN [recursions EXCEPT ![m] = @ - 1]
    ELSE recursions

(* The activations when the current source, one of macro m, is left. *)
Released(m) ==
  IF m \in Macros THEN [recursions EXCEPT ![m] = @ - 1] ELSE recursions

(* Back to the parent, or, without one, the end of the assembly. *)
ReturnToParent(bad) ==
  /\ errors' = (errors \/ bad \/ (Len(src) = 1 /\ clev > 0))
  /\ recursions' = Released(cur_src.macro)
  /\ IF Len(src) = 1
       THEN halted' = TRUE /\ UNCHANGED <<src, NARG, CARG, REPTN>>
       ELSE LET parent == src[Len(src) - 1]
            IN /\ src' = Front(src)
               /\ NARG' = IF parent.nargexp # None THEN parent.nargexp ELSE NARG
               /\ CARG' = IF parent.cargexp # None THEN parent.cargexp ELSE CARG
               /\ REPTN' = parent.reptn
               /\ UNCHANGED halted
  /\ UNCHANGED <<heap, condVars>>

(* The end of a text whose condition, if it has one, has the value v. *)
EndOfText(v) ==
  /\ ~halted
  /\ IF cur_src.repeat - 1 > 0 /\ cond_eval(v)
       THEN ReadAgain
       ELSE ReturnToParent(Conditional /\ cond_eval(v))    \* error 92

(* The end of a loop whose condition does not evaluate, error 47. *)
BadCondition ==
  /\ ~halted /\ Conditional
  /\ ReturnToParent(TRUE)

Next ==
  \/ CondLine
  \/ \E m \in Macros, params \in 0..maxmacparams : execute_macro(m, params)
  \/ include_source
  \/ \E kind \in Kinds \ {"text"}, cnt \in 0..MaxRept : start_repeat(kind, cnt)
  \/ handle_shift
  \/ leave_macro
  \/ \E v \in BOOLEAN : EndOfText(v)
  \/ BadCondition

Spec == Init /\ [][Next]_vars

-----------------------------------------------------------------------------
(* The count that guards a macro against endless recursion is the number of *)
(* its activations on the stack, however they end: at the end of the text   *)
(* or by mexit; and the guard never lets it exceed the limit.               *)
RecursionsCounted ==
  \A m \in Macros :
    /\ recursions[m] = Cardinality({i \in DOMAIN src : src[i].macro = m})
    /\ recursions[m] <= maxmacrecurs

(* An irp has a value for every iteration that is left: the one a line of   *)
(* its block is given as \<name> is the value of its own iteration.         *)
IrpValueLeft ==
  \A i \in DOMAIN src : src[i].kind = "irp" =>
    src[i].irpvals = src[i].repeat /\ src[i].repeat > 0

(* The sources are the frames of SourceSpec, the shift of a macro is the    *)
(* value of the expression made for it.                                     *)
frames == [i \in DOMAIN src |->
  [kind  |-> CASE src[i].macro # NoMacro -> "macro"
               [] src[i].kind \in {"while", "until"} -> "conditional"
               [] src[i].kind \in {"rept", "irp"} -> "counted"
               [] OTHER -> "text",
   shift |-> IF i = 1 \/ src[i].macro # NoMacro THEN heap[i] ELSE 0,
   iter  |-> src[i].reptn,
   times |-> IF src[i].kind = "text" THEN 1 ELSE src[i].repeat + src[i].reptn]]

Specified == INSTANCE SourceSpec WITH
  shiftn <- heap[CARG], reptn <- REPTN,
  MaxTimes <- IF MaxRept > maxloopiters THEN MaxRept ELSE maxloopiters

ImplementsSourceSpec == Specified!Spec

=============================================================================
