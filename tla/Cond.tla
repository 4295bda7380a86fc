-------------------------------- MODULE Cond --------------------------------
(***************************************************************************)
(* Conditional assembly: cond.c and the part of the psi-x parser's main     *)
(* loop (syntax/psi-x/syntax.c, parse()) that dispatches the directives     *)
(* if*, switch, case, else, elseif and endif/endc, once for a line that is  *)
(* being assembled and once for a line that is being skipped.               *)
(*                                                                         *)
(* A step is one source line.  Expressions are abstracted to their value:   *)
(* the flag of an if, the selector of a switch, the set of values of a      *)
(* case.  A line whose operand does not evaluate is a "bad" line: it counts *)
(* an error, after which the driver writes no output.                       *)
(***************************************************************************)
EXTENDS Integers

CONSTANTS
  MAXCONDLEV,     \* cond.h: the level at which nesting is a fatal error
  MaxIfNesting,   \* bound of the model: ignored blocks nested in each other
  Values          \* the values a switch selector or a case label can have

ASSUME CondAssumption ==
  /\ MAXCONDLEV \in Nat \ {0}
  /\ MaxIfNesting \in Nat
  /\ Values \subseteq Nat

VARIABLES
  clev,           \* conditional level, 0 outside every block
  cond,           \* per level: 1 assembling, 0 not yet selected, -1 done with
  condeval,       \* per level: the selector of a switch, -1 for an if
  condtype,       \* per level: "if" (0 in the code) or "switch" (1)
  ifnesting,      \* blocks opened inside a skipped region
  errors,         \* some error was counted
  halted          \* the source ended, or a fatal error left the program

levelVars == <<clev, cond, condeval, condtype>>
condVars == <<clev, cond, condeval, condtype, ifnesting>>
vars == <<clev, cond, condeval, condtype, ifnesting, errors, halted>>

Levels == 0..MAXCONDLEV
NoValue == -1

TypeOK ==
  /\ clev \in Levels
  /\ cond \in [Levels -> {-1, 0, 1}]
  /\ condeval \in [Levels -> Values \cup {NoValue}]
  /\ condtype \in [Levels -> {"if", "switch"}]
  /\ ifnesting \in Nat
  /\ errors \in BOOLEAN
  /\ halted \in BOOLEAN

cond_init ==
  /\ clev = 0
  /\ ifnesting = 0
  /\ cond = [l \in Levels |-> IF l = 0 THEN 1 ELSE 0]
  /\ condeval = [l \in Levels |-> NoValue]
  /\ condtype = [l \in Levels |-> "if"]

Init == cond_init /\ errors = FALSE /\ halted = FALSE

-----------------------------------------------------------------------------
(* cond.c *)

cond_state == cond[clev] > 0

cond_type == condtype[clev]

(* cond_match over the list of expressions eval_case walks through. *)
eval_case(vals) == condeval[clev] \in vals

Flag(b) == IF b THEN 1 ELSE 0

(* An error is counted and parsing goes on. *)
general_error == errors' = TRUE

(* The fatal error 65, "maximum if-nesting depth exceeded". *)
TooDeep == clev + 1 >= MAXCONDLEV

(* Opening a level: cond_if and cond_switch differ in what they store.      *)
OpenLevel(state, value, type) ==
  /\ clev' = clev + 1
  /\ IF TooDeep
       THEN halted' = TRUE /\ UNCHANGED <<cond, condeval, condtype>>
       ELSE /\ cond' = [cond EXCEPT ![clev + 1] = state]
            /\ condeval' = [condeval EXCEPT ![clev + 1] = value]
            /\ condtype' = [condtype EXCEPT ![clev + 1] = type]
            /\ UNCHANGED halted
  /\ UNCHANGED ifnesting

cond_if(flag) ==
  /\ OpenLevel(Flag(flag), NoValue, "if")
  /\ errors' = (errors \/ TooDeep)

cond_switch(val) ==
  /\ OpenLevel(0, val, "switch")
  /\ errors' = (errors \/ TooDeep)

cond_skipif ==
  /\ ifnesting < MaxIfNesting
  /\ ifnesting' = ifnesting + 1
  /\ UNCHANGED <<levelVars, errors, halted>>

(* Variant: the count of ignored blocks is not looked at. *)
cond_else_MutNoNesting ==
  /\ cond' = [cond EXCEPT ![clev] = IF @ = 0 THEN 1 ELSE -1]
  /\ UNCHANGED <<clev, condeval, condtype, ifnesting, errors, halted>>

cond_else ==
  /\ cond' = IF ifnesting = 0
               THEN [cond EXCEPT ![clev] = IF @ = 0 THEN 1 ELSE -1]
               ELSE cond
  /\ UNCHANGED <<clev, condeval, condtype, ifnesting, errors, halted>>

cond_skipelse ==
  /\ IF clev > 0
       THEN cond' = [cond EXCEPT ![clev] = -1] /\ UNCHANGED errors
       ELSE general_error /\ UNCHANGED cond          \* error 63
  /\ UNCHANGED <<clev, condeval, condtype, ifnesting, halted>>

cond_elseif(flag) ==
  /\ IF clev > 0
       THEN /\ cond' = [cond EXCEPT ![clev] =
                          IF @ = 0 THEN Flag(flag) ELSE -1]
            /\ UNCHANGED errors
       ELSE general_error /\ UNCHANGED cond          \* error 63
  /\ UNCHANGED <<clev, condeval, condtype, ifnesting, halted>>

(* Variant: the innermost level is closed before the ignored blocks are. *)
cond_endif_MutOrder ==
  /\ IF clev > 0
       THEN clev' = clev - 1 /\ UNCHANGED <<ifnesting, errors>>
       ELSE /\ UNCHANGED clev
            /\ IF ifnesting > 0
                 THEN ifnesting' = ifnesting - 1 /\ UNCHANGED errors
                 ELSE general_error /\ UNCHANGED ifnesting
  /\ UNCHANGED <<cond, condeval, condtype, halted>>

cond_endif ==
  /\ IF ifnesting > 0
       THEN ifnesting' = ifnesting - 1 /\ UNCHANGED <<clev, errors>>
       ELSE /\ UNCHANGED ifnesting
            /\ IF clev > 0
                 THEN clev' = clev - 1 /\ UNCHANGED errors
                 ELSE general_error /\ UNCHANGED clev   \* error 64
  /\ UNCHANGED <<cond, condeval, condtype, halted>>

-----------------------------------------------------------------------------
(* parse(): one action per kind of line. *)

(* if, ifeq, ifd, ifb ...: every directive whose name starts with "if". *)
IfLine(flag) ==
  /\ ~halted
  /\ IF cond_state THEN cond_if(flag) ELSE cond_skipif

(* Variant: a skipped switch opens a level of its own. *)
SwitchLine_MutAlwaysOpens(val) ==
  /\ ~halted
  /\ cond_switch(val)

SwitchLine(val) ==
  /\ ~halted
  /\ IF cond_state THEN cond_switch(val) ELSE cond_skipif

ElseLine ==
  /\ ~halted
  /\ IF cond_state THEN cond_skipelse ELSE cond_else

(* A skipped elseif is evaluated in an if block and ends a switch block. *)
ElseifLine(flag) ==
  /\ ~halted
  /\ IF ~cond_state /\ cond_type = "if" THEN cond_elseif(flag)
                                        ELSE cond_skipelse

(* A skipped case is evaluated in a switch block and ends an if block. *)
CaseLine(vals) ==
  /\ ~halted
  /\ IF ~cond_state /\ cond_type = "switch" THEN cond_elseif(eval_case(vals))
                                            ELSE cond_skipelse

EndifLine ==
  /\ ~halted
  /\ cond_endif

(* An if with an operand that does not evaluate is a false if (error 47);  *)
(* a switch, or an ifc/ifnc without its operands, opens no level at all.    *)
BadIfLine ==
  /\ ~halted /\ cond_state
  /\ OpenLevel(Flag(FALSE), NoValue, "if")
  /\ general_error

BadOpenLine ==
  /\ ~halted /\ cond_state
  /\ general_error
  /\ UNCHANGED <<condVars, halted>>

(* A skipped elseif or case whose operand does not evaluate. *)
BadElseifLine ==
  /\ ~halted /\ ~cond_state
  /\ general_error
  /\ cond' = [cond EXCEPT ![clev] = IF @ = 0 THEN 0 ELSE -1]
  /\ UNCHANGED <<clev, condeval, condtype, ifnesting, halted>>

(* The end of the source: cond_check reports a block left open (error 66). *)
cond_check ==
  /\ ~halted
  /\ halted' = TRUE
  /\ errors' = (errors \/ clev > 0)
  /\ UNCHANGED condVars

Next ==
  \/ \E flag \in BOOLEAN : IfLine(flag) \/ ElseifLine(flag)
  \/ \E val \in Values : SwitchLine(val)
  \/ \E vals \in SUBSET Values : CaseLine(vals)
  \/ ElseLine
  \/ EndifLine
  \/ BadIfLine
  \/ BadOpenLine
  \/ BadElseifLine
  \/ cond_check

Spec == Init /\ [][Next]_vars

-----------------------------------------------------------------------------
(* Every level below the current one is being assembled: popping a level    *)
(* (cond_endif) can only return to a block whose lines count.               *)
ParentsAssembled == \A l \in 0..clev - 1 : cond[l] = 1

(* What cond.c:115 says of a block opened in a skipped region: "the whole   *)
(* conditional block was ignored".  While such a block is open no line may  *)
(* change the state of the block around it.                                 *)
IgnoredBlockIsIgnored == [][ifnesting > 0 => UNCHANGED levelVars]_vars

=============================================================================
