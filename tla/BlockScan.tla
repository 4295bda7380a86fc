----------------------------- MODULE BlockScan -----------------------------
(***************************************************************************)
(* How the parser finds the end of a block that is read as a whole: the     *)
(* repetitions (rept, irp, irpc / endr, while / endw, do / until), macro    *)
(* definitions (macro / endm) and the deprecated comment / comend.          *)
(*                                                                         *)
(* A directive that opens a block calls new_repeat() or new_macro(), which  *)
(* leave a list of end directives behind; the next read_next_line() then    *)
(* reads lines until it met one, counting the blocks of its own kind that   *)
(* are opened in between.                                                   *)
(*                                                                         *)
(* A step is one source line or the end of a text.  What comes next is not  *)
(* fixed.  The variables blocks and nested, which the code does not have,    *)
(* are the blocks of the source as its author sees them and whether they    *)
(* nested so far.  Lines that conditional assembly skips, and the one-line  *)
(* macros of "macros", are left out.                                        *)
(***************************************************************************)
EXTENDS Integers, Sequences, FiniteSets, SequencesExt

CONSTANTS
  Untaken,        \* the kinds of blocks that may have a false condition
  MaxNest,        \* bound of the model: blocks open at a time
  MaxTexts        \* bound of the model: texts on the stack of sources

Loops == {"rept", "while", "do"}
Opaque == {"comment", "macro"}      \* blocks in which nothing is counted
Kinds == Loops \cup Opaque
None == "none"

ASSUME BlockScanAssumption ==
  /\ Untaken \subseteq {"rept", "while"}
  /\ MaxNest \in Nat \ {0} /\ MaxTexts \in Nat \ {0}

VARIABLES
  enddir_list,    \* the kind of block whose end is looked for
  reptdir_list,   \* the kind of block that is counted on the way
  rept_nest,      \* blocks of that kind that are open
  scanning,       \* read_next_line() is in its loop over the lines of a block
  texts,          \* the number of sources on the stack
  rept_text,      \* the text rept_start points into, 1 the main source
  blocks,         \* the blocks open in the source, the one looked for first
  nested,         \* texts closed their blocks, inner blocks first
  errors,         \* an error was reported
  halted          \* the program ended

scanVars == <<enddir_list, reptdir_list, rept_nest, scanning>>
vars == <<scanVars, texts, rept_text, blocks, nested, errors, halted>>

Init ==
  /\ enddir_list = None /\ reptdir_list = None
  /\ rept_nest = 1 /\ scanning = FALSE
  /\ texts = 1 /\ rept_text = 1
  /\ blocks = <<>> /\ nested = TRUE
  /\ errors = FALSE /\ halted = FALSE

-----------------------------------------------------------------------------
(* An ordinary line: no end directive is looked for. *)

(* Variant: a rept that is not taken forgets to count like a while. *)
Counted_MutRept(kind, taken, evaluates) ==
  IF kind \in Loops /\ evaluates /\ taken THEN kind ELSE None

(* The directives the handler gives new_repeat() to count: none for a       *)
(* comment, for a while that is not taken and when the operand of a rept or *)
(* while is bad.                                                            *)
Counted(kind, taken, evaluates) ==
  IF kind \in Loops /\ evaluates /\ (taken \/ kind = "rept") THEN kind ELSE None

(* new_repeat(), new_macro(): a block of the kind is opened. *)
OpenLine(kind, taken, evaluates) ==
  /\ ~halted /\ enddir_list = None
  /\ ~taken => kind \in Untaken
  /\ ~evaluates => kind \in {"rept", "while"}
  /\ enddir_list' = kind
  /\ reptdir_list' = Counted(kind, taken, evaluates)
  /\ rept_text' = texts
  /\ blocks' = <<kind>>
  /\ nested' = (nested /\ evaluates)
  /\ errors' = (errors \/ ~evaluates)
  /\ UNCHANGED <<rept_nest, scanning, texts, halted>>

(* An end directive on its own is an error. *)
StrayEndLine ==
  /\ ~halted /\ enddir_list = None
  /\ errors' = TRUE /\ nested' = FALSE
  /\ UNCHANGED <<scanVars, texts, rept_text, blocks, halted>>

(* A macro call, an include, or the block that was read is executed. *)
EnterText ==
  /\ ~halted /\ enddir_list = None /\ texts < MaxTexts
  /\ texts' = texts + 1
  /\ UNCHANGED <<scanVars, rept_text, blocks, nested, errors, halted>>

-----------------------------------------------------------------------------
(* A line of the block that is looked for. *)

(* The block that was read is linked to the macros, or repeated. *)
BlockEnds ==
  /\ enddir_list' = None
  /\ reptdir_list' = None
  /\ rept_nest' = 1
  /\ scanning' = FALSE

Scanned(nest) ==
  /\ rept_nest' = nest
  /\ scanning' = TRUE
  /\ UNCHANGED <<enddir_list, reptdir_list>>

InOpaque == blocks # <<>> /\ Last(blocks) \in Opaque

CountOpen(kind) ==
  IF kind = reptdir_list THEN Scanned(rept_nest + 1) ELSE Scanned(rept_nest)

CountEnd(kind) ==
  IF kind = enddir_list
    THEN IF kind = "macro" \/ rept_nest - 1 = 0 THEN BlockEnds
                                                ELSE Scanned(rept_nest - 1)
    ELSE Scanned(rept_nest)

(* In an opaque block the author's blocks do not count either.              *)
ScanOpenLine(kind) ==
  /\ ~halted /\ enddir_list # None /\ rept_nest < MaxNest
  /\ IF InOpaque THEN /\ nested' = (nested /\ Len(blocks) = 1)
                      /\ UNCHANGED blocks
                 ELSE /\ Len(blocks) < MaxNest
                      /\ nested' = (nested /\ kind # "macro")
                      /\ blocks' = Append(blocks, kind)
  /\ CountOpen(kind)
  /\ UNCHANGED <<texts, rept_text, errors, halted>>

(* An until without its condition is an error and ends the block as well.   *)
ScanEndLine(kind, evaluates) ==
  /\ ~halted /\ enddir_list # None
  /\ ~evaluates => kind = "do" /\ enddir_list = "do" /\ rept_nest = 1
  /\ nested' = (nested /\ blocks # <<>>
                  /\ (kind = Last(blocks) \/ (InOpaque /\ Len(blocks) = 1)))
  /\ blocks' = IF blocks # <<>> /\ kind = Last(blocks) THEN Front(blocks)
                                                      ELSE blocks
  /\ CountEnd(kind)
  /\ errors' = (errors \/ ~evaluates)
  /\ UNCHANGED <<texts, rept_text, halted>>

(* A last line too short to hold the end directive is read as an ordinary   *)
(* one; a do fits into it, and new_repeat() ends with an internal error.    *)
ShortLine ==
  /\ ~halted /\ enddir_list # None /\ ~scanning
  /\ errors' = TRUE /\ halted' = TRUE /\ nested' = FALSE
  /\ UNCHANGED <<scanVars, texts, rept_text, blocks>>

(* The end of a text.  It is a fatal error while a block is being read, but *)
(* not when the block was opened by the last line.                          *)
EndOfText ==
  /\ ~halted
  /\ nested' = (nested /\ blocks = <<>>)
  /\ IF scanning
       THEN errors' = TRUE /\ halted' = TRUE /\ UNCHANGED texts   \* 25, 32
       ELSE /\ UNCHANGED errors
            /\ IF texts = 1 THEN halted' = TRUE /\ UNCHANGED texts
                            ELSE texts' = texts - 1 /\ UNCHANGED halted
  /\ UNCHANGED <<scanVars, rept_text, blocks>>

Next ==
  \/ \E kind \in Kinds, taken, evaluates \in BOOLEAN :
       OpenLine(kind, taken, evaluates)
  \/ StrayEndLine
  \/ EnterText
  \/ \E kind \in Kinds : ScanOpenLine(kind)
  \/ \E kind \in Kinds, evaluates \in BOOLEAN : ScanEndLine(kind, evaluates)
  \/ ShortLine
  \/ EndOfText

Spec == Init /\ [][Next]_vars

-----------------------------------------------------------------------------
(* The scan ends at the end directive of the block it was started for, not  *)
(* at one of a block inside and not at a later one.                         *)
BlockEndsWithItsEnd == nested => (enddir_list = None <=> blocks = <<>>)

=============================================================================
