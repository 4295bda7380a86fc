------------------------- MODULE SourceStack_proofs -------------------------
(***************************************************************************)
(* Proofs about the stack of sources, for every set of macros, every limit  *)
(* on recursions, arguments and iterations, and every depth of the stack:   *)
(* the recursion counts are the activations on the stack, and an irp has a  *)
(* value for every iteration that is left; and the stack implements         *)
(* SourceSpec: although the expressions of NARG and CARG are shared and     *)
(* modified in place, and although the depth of the stack names them, a line*)
(* sees the shift of its own macro and its own iteration.                   *)
(***************************************************************************)
EXTENDS SourceStack, FiniteSetTheorems, SequenceTheorems, TLAPS

(* What a source on the stack can hold, as far as the proofs need it. *)
Source ==
  [macro : Macros \cup {NoMacro}, kind : Kinds, repeat : Int, irpvals : Int,
   reptn : Int, num_params : Int, cond_level : Int,
   nargexp : Int, cargexp : Int, ended : BOOLEAN]

(* mexit ends the repetitions of its source: that an irp keeps its values   *)
(* needs that a macro is never an irp.                                      *)
Fitting(s) ==
  /\ s.kind # "text" => s.macro = NoMacro
  /\ s.kind = "irp" => s.irpvals = s.repeat /\ s.repeat > 0

(* The main source is no macro: it is left uncounted at the end. *)
Stack(st) ==
  /\ st \in Seq(Source)
  /\ Len(st) > 0
  /\ st[1].macro = NoMacro
  /\ \A i \in 1..Len(st) : Fitting(st[i])

Activations(st, m) == {i \in 1..Len(st) : st[i].macro = m}

Counted(count, st) ==
  /\ count \in [Macros -> Int]
  /\ \A m \in Macros : count[m] = Cardinality(Activations(st, m))

(* The inductive invariant. *)
StackInv ==
  /\ Stack(src)
  /\ Counted(recursions, src)
  /\ \A m \in Macros : recursions[m] <= maxmacrecurs
  /\ clev \in Int /\ NARG \in Int /\ CARG \in Int

-----------------------------------------------------------------------------
(* Sequences of sources. *)

(* A source with the same macro takes the place of the last one.            *)
LEMMA ReplaceTop ==
  ASSUME NEW st, Stack(st), NEW s \in Source, Fitting(s),
         s.macro = st[Len(st)].macro
  PROVE  /\ Stack([st EXCEPT ![Len(st)] = s])
         /\ Len([st EXCEPT ![Len(st)] = s]) = Len(st)
         /\ \A m : Activations([st EXCEPT ![Len(st)] = s], m) = Activations(st, m)
<1> DEFINE n == Len(st)
           t == [st EXCEPT ![n] = s]
<1>1. st \in Seq(Source) /\ n \in Nat /\ n > 0
  BY DEF Stack
<1>2. t \in Seq(Source) /\ Len(t) = n
  BY <1>1
<1>3. \A i \in 1..n : t[i] = IF i = n THEN s ELSE st[i]
  BY <1>1
<1>4. \A i \in 1..n : t[i].macro = st[i].macro
  BY <1>3
<1>5. t[1].macro = NoMacro
  BY <1>1, <1>4 DEF Stack
<1>6. \A i \in 1..n : Fitting(t[i])
  BY <1>3 DEF Stack
<1>7. \A m : Activations(t, m) = Activations(st, m)
  BY <1>2, <1>4 DEF Activations
<1> QED
  BY <1>1, <1>2, <1>5, <1>6, <1>7 DEF Stack

LEMMA Push ==
  ASSUME NEW st, Stack(st), NEW s \in Source, Fitting(s)
  PROVE  /\ Stack(Append(st, s))
         /\ \A m : Activations(Append(st, s), m) =
              IF s.macro = m THEN Activations(st, m) \cup {Len(st) + 1}
                             ELSE Activations(st, m)
<1> DEFINE n == Len(st)
           t == Append(st, s)
<1>1. st \in Seq(Source) /\ n \in Nat /\ n > 0
  BY DEF Stack
<1>2. t \in Seq(Source) /\ Len(t) = n + 1
  BY <1>1
<1>3. \A i \in 1..(n + 1) : t[i] = IF i = n + 1 THEN s ELSE st[i]
  BY <1>1
<1>4. t[1].macro = NoMacro
  BY <1>1, <1>3 DEF Stack
<1>5. \A i \in 1..(n + 1) : Fitting(t[i])
  BY <1>1, <1>3 DEF Stack
<1>6. \A m : Activations(t, m) = IF s.macro = m
                                   THEN Activations(st, m) \cup {n + 1}
                                   ELSE Activations(st, m)
  BY <1>1, <1>2, <1>3 DEF Activations
<1> QED
  BY <1>1, <1>2, <1>4, <1>5, <1>6 DEF Stack

LEMMA Pop ==
  ASSUME NEW st, Stack(st), Len(st) > 1
  PROVE  /\ Stack(Front(st))
         /\ \A m : Activations(Front(st), m) = Activations(st, m) \ {Len(st)}
<1> DEFINE n == Len(st)
           t == Front(st)
<1>1. st \in Seq(Source) /\ n \in Nat /\ n > 1
  BY DEF Stack
<1>2. t = SubSeq(st, 1, n - 1)
  BY Zenon DEF Front
<1>3. t \in Seq(Source) /\ Len(t) = n - 1
  BY <1>1, <1>2
<1>4. \A i \in 1..(n - 1) : t[i] = st[i]
  BY <1>1, <1>2
<1>5. t[1].macro = NoMacro
  BY <1>1, <1>4 DEF Stack
<1>6. \A i \in 1..(n - 1) : Fitting(t[i])
  BY <1>1, <1>4 DEF Stack
<1>7. \A m : Activations(t, m) = Activations(st, m) \ {n}
  BY <1>1, <1>3, <1>4 DEF Activations
<1> QED
  BY <1>1, <1>3, <1>5, <1>6, <1>7 DEF Stack

LEMMA ActivationsFinite ==
  ASSUME NEW st, Stack(st), NEW m
  PROVE  /\ IsFiniteSet(Activations(st, m))
         /\ Cardinality(Activations(st, m)) \in Nat
         /\ Len(st) + 1 \notin Activations(st, m)
<1>1. Len(st) \in Nat
  BY DEF Stack
<1>2. IsFiniteSet(1..Len(st))
  BY <1>1, FS_Interval
<1>3. IsFiniteSet(Activations(st, m))
  BY <1>2, FS_Subset DEF Activations
<1> QED
  BY <1>1, <1>3, FS_CardinalityType DEF Activations

(* A source that is not a macro leaves the counts as they are; a macro is   *)
(* one more activation.                                                     *)
LEMMA PushCounts ==
  ASSUME NEW st, Stack(st), NEW count, Counted(count, st),
         NEW s \in Source, Fitting(s)
  PROVE  Counted(IF s.macro \in Macros
                   THEN [count EXCEPT ![s.macro] = @ + 1] ELSE count,
                 Append(st, s))
<1> DEFINE new == IF s.macro \in Macros
                    THEN [count EXCEPT ![s.macro] = @ + 1] ELSE count
<1>1. new \in [Macros -> Int]
  BY DEF Counted
<1>2. ASSUME NEW m \in Macros
      PROVE  new[m] = Cardinality(Activations(Append(st, s), m))
  <2>1. /\ IsFiniteSet(Activations(st, m))
        /\ Cardinality(Activations(st, m)) \in Nat
        /\ Len(st) + 1 \notin Activations(st, m)
    BY ActivationsFinite
  <2>2. count[m] = Cardinality(Activations(st, m))
    BY DEF Counted
  <2>3. CASE s.macro = m
    <3>1. Activations(Append(st, s), m) = Activations(st, m) \cup {Len(st) + 1}
      BY <2>3, Push
    <3>2. Cardinality(Activations(st, m) \cup {Len(st) + 1}) =
            Cardinality(Activations(st, m)) + 1
      BY <2>1, FS_AddElement
    <3>3. new[m] = count[m] + 1
      BY <2>3 DEF Counted
    <3> QED
      BY <2>2, <3>1, <3>2, <3>3
  <2>4. CASE s.macro # m
    <3>1. Activations(Append(st, s), m) = Activations(st, m)
      BY <2>4, Push
    <3> QED
      BY <2>2, <2>4, <3>1 DEF Counted
  <2> QED
    BY <2>3, <2>4
<1> QED
  BY <1>1, <1>2 DEF Counted

LEMMA PopCounts ==
  ASSUME NEW st, Stack(st), Len(st) > 1, NEW count, Counted(count, st),
         NEW top, top = st[Len(st)].macro
  PROVE  Counted(IF top \in Macros THEN [count EXCEPT ![top] = @ - 1] ELSE count,
                 Front(st))
<1> DEFINE new == IF top \in Macros THEN [count EXCEPT ![top] = @ - 1] ELSE count
<1>1. new \in [Macros -> Int]
  BY DEF Counted
<1>2. ASSUME NEW m \in Macros
      PROVE  new[m] = Cardinality(Activations(Front(st), m))
  <2>1. /\ IsFiniteSet(Activations(st, m))
        /\ Cardinality(Activations(st, m)) \in Nat
    BY ActivationsFinite
  <2>2. count[m] = Cardinality(Activations(st, m))
    BY DEF Counted
  <2>3. Activations(Front(st), m) = Activations(st, m) \ {Len(st)}
    BY Pop
  <2>4. Len(st) \in Activations(st, m) <=> top = m
    BY DEF Activations, Stack
  <2>5. Cardinality(Activations(st, m) \ {Len(st)}) =
          IF Len(st) \in Activations(st, m)
            THEN Cardinality(Activations(st, m)) - 1
            ELSE Cardinality(Activations(st, m))
    BY <2>1, FS_RemoveElement
  <2>6. new[m] = IF top = m THEN count[m] - 1 ELSE count[m]
    BY DEF Counted
  <2> QED
    BY <2>2, <2>3, <2>4, <2>5, <2>6
<1> QED
  BY <1>1, <1>2 DEF Counted

-----------------------------------------------------------------------------
(* The steps. *)

(* The current source, and the limits. *)
LEMMA Top ==
  ASSUME Stack(src)
  PROVE  /\ Len(src) \in Nat /\ Len(src) > 0
         /\ cur_src = src[Len(src)]
         /\ cur_src \in Source
         /\ Fitting(cur_src)
<1>1. src \in Seq(Source) /\ Len(src) \in Nat /\ Len(src) > 0
  BY DEF Stack
<1>2. cur_src = src[Len(src)]
  BY DEF cur_src, Last
<1> QED
  BY <1>1, <1>2 DEF Stack

LEMMA Limits ==
  /\ maxmacrecurs \in Nat /\ maxmacrecurs > 0
  /\ maxmacparams \in Nat
  /\ maxloopiters \in Nat /\ maxloopiters > 0
BY SourceStackAssumption

LEMMA NewSource ==
  ASSUME NEW reptn \in Int, NEW level \in Int
  PROVE  new_source(reptn, level) \in Source
BY DEF new_source, Source, Kinds, None

LEMMA InitStackInv == Init => StackInv
<1> SUFFICES ASSUME Init PROVE StackInv
  OBVIOUS
<1> DEFINE s == new_source(-1, clev)
<1>1. clev = 0 /\ NARG \in Int /\ CARG \in Int
  BY DEF Init, Conditionals!Init, Conditionals!cond_init
<1>2. s \in Source /\ s.macro = NoMacro /\ s.kind = "text"
  BY <1>1, NewSource DEF new_source
<1>3. src = <<s>> /\ src \in Seq(Source) /\ Len(src) = 1 /\ src[1] = s
  BY <1>2 DEF Init
<1>4. Stack(src)
  BY <1>2, <1>3 DEF Stack, Fitting
<1>5. \A m \in Macros : Activations(src, m) = {}
  BY <1>2, <1>3, SourceStackAssumption DEF Activations
<1>6. \A m \in Macros : Cardinality(Activations(src, m)) = 0
  BY <1>5, FS_EmptySet
<1>7. recursions \in [Macros -> Int] /\ \A m \in Macros : recursions[m] = 0
  BY DEF Init
<1> QED
  BY <1>1, <1>4, <1>6, <1>7, Limits DEF StackInv, Counted

(* A line of conditional assembly changes the level only. *)
LEMMA CondLineOK == StackInv /\ CondLine => StackInv'
<1> SUFFICES ASSUME StackInv, CondLine PROVE StackInv'
  OBVIOUS
<1>1. clev \in Int
  BY DEF StackInv
<1>2. clev' \in Int
  BY <1>1 DEF CondLine, Conditionals!IfLine, Conditionals!cond_if,
              Conditionals!OpenLevel, Conditionals!cond_skipif,
              Conditionals!levelVars, Conditionals!ElseLine,
              Conditionals!cond_else, Conditionals!cond_skipelse,
              Conditionals!EndifLine, Conditionals!cond_endif
<1>3. UNCHANGED <<src, recursions, NARG, CARG>>
  BY DEF CondLine, srcVars
<1> QED
  BY <1>2, <1>3 DEF StackInv

(* A macro is entered: its caller remembers the expressions of NARG and     *)
(* CARG, and its activation is counted.                                     *)
LEMMA ExecuteMacroOK ==
  ASSUME StackInv, NEW m \in Macros, NEW params \in 0..maxmacparams,
         execute_macro(m, params)
  PROVE  StackInv'
<1>1. CASE TooManyRecursions(m)
  BY <1>1 DEF StackInv, execute_macro, srcVars, condVars
<1>2. CASE ~TooManyRecursions(m)
  <2> DEFINE n == Len(src)
             caller == [cur_src EXCEPT !.cargexp = CARG, !.nargexp = NARG]
             called == [new_source(cur_src.reptn, clev) EXCEPT
                          !.macro = m, !.num_params = params]
             base == [src EXCEPT ![n] = caller]
  <2>1. /\ Stack(src) /\ src \in Seq(Source) /\ n \in Nat /\ n > 0
        /\ cur_src = src[n] /\ cur_src \in Source /\ Fitting(cur_src)
        /\ clev \in Int /\ NARG \in Int /\ CARG \in Int
    BY Top DEF StackInv, Stack
  <2>2. caller \in Source /\ caller.macro = cur_src.macro /\ Fitting(caller)
    BY <2>1 DEF Source, Fitting
  <2>3. called \in Source /\ called.macro = m /\ Fitting(called)
    <3>1. new_source(cur_src.reptn, clev) \in Source
      BY <2>1, NewSource DEF Source
    <3>2. params \in Int
      BY Limits
    <3> QED
      BY <3>1, <3>2 DEF Source, Fitting, new_source
  <2>4. src' = Append(base, called)
    BY <1>2, <2>1 DEF execute_macro
  <2>5. Stack(base) /\ \A k : Activations(base, k) = Activations(src, k)
    BY <2>1, <2>2, ReplaceTop
  <2>6. Counted(recursions, base)
    BY <2>5 DEF StackInv, Counted
  <2>7. recursions' = IF called.macro \in Macros
                        THEN [recursions EXCEPT ![called.macro] = @ + 1]
                        ELSE recursions
    BY <1>2, <2>3 DEF execute_macro
  <2>8. Counted(recursions', src')
    BY <2>3, <2>4, <2>5, <2>6, <2>7, PushCounts
  <2>9. Stack(src')
    BY <2>3, <2>4, <2>5, Push
  <2>10. \A k \in Macros : recursions'[k] <= maxmacrecurs
    <3>1. recursions \in [Macros -> Int]
      BY DEF StackInv, Counted
    <3>2. recursions[m] < maxmacrecurs
      BY <1>2, <3>1, Limits DEF TooManyRecursions
    <3> QED
      BY <2>3, <2>7, <3>1, <3>2, Limits DEF StackInv
  <2>11. clev' \in Int /\ NARG' \in Int /\ CARG' \in Int
    BY <1>2, <2>1 DEF execute_macro, my_exec_macro, number_expr, condVars
  <2> QED
    BY <2>8, <2>9, <2>10, <2>11 DEF StackInv
<1> QED
  BY <1>1, <1>2

(* A source that is no macro is put on the stack: an include or a block. *)
LEMMA PlainPushOK ==
  ASSUME StackInv, NEW s \in Source, Fitting(s), s.macro = NoMacro,
         src' = Append(src, s), UNCHANGED <<recursions, NARG, CARG, clev>>
  PROVE  StackInv'
<1>1. s.macro \notin Macros
  BY SourceStackAssumption
<1>2. Stack(src')
  BY Push DEF StackInv
<1>3. Counted(recursions, src')
  BY <1>1, PushCounts DEF StackInv
<1> QED
  BY <1>2, <1>3 DEF StackInv

LEMMA IncludeOK == StackInv /\ include_source => StackInv'
<1> SUFFICES ASSUME StackInv, include_source PROVE StackInv'
  OBVIOUS
<1> DEFINE s == new_source(cur_src.reptn, clev)
<1>1. cur_src.reptn \in Int /\ clev \in Int
  BY Top DEF StackInv, Source
<1>2. s \in Source /\ s.macro = NoMacro /\ Fitting(s)
  BY <1>1, NewSource DEF new_source, Fitting
<1>3. src' = Append(src, s) /\ UNCHANGED <<recursions, NARG, CARG, clev>>
  BY DEF include_source, condVars
<1> QED
  BY <1>2, <1>3, PlainPushOK

(* An irp starts with as many values as iterations, one at least. *)
LEMMA StartRepeatOK ==
  ASSUME StackInv, NEW kind \in Kinds \ {"text"}, NEW cnt \in 0..MaxRept,
         start_repeat(kind, cnt)
  PROVE  StackInv'
<1>0. UNCHANGED <<recursions, NARG, CARG, clev>>
  BY DEF start_repeat, condVars
<1>1. CASE cnt = 0 /\ kind \in {"rept", "while"}
  BY <1>0, <1>1 DEF start_repeat, StackInv
<1>2. CASE ~(cnt = 0 /\ kind \in {"rept", "while"})
  <2> DEFINE times == IF kind = "irp" /\ cnt = 0 THEN 1 ELSE Iterations(kind, cnt)
             vals == IF kind = "irp" THEN times ELSE 0
             params == cur_src.num_params
             s == [new_source(0, clev) EXCEPT
                     !.kind = kind, !.repeat = times, !.irpvals = vals,
                     !.num_params = params]
  <2>1. times \in Int /\ vals \in Int /\ (kind = "irp" => times > 0)
    BY Limits, SourceStackAssumption DEF Iterations
  <2>2. clev \in Int /\ params \in Int
    BY Top DEF StackInv, Source
  <2>3. new_source(0, clev) \in Source
    BY <2>2, NewSource
  <2>4. /\ s.kind = kind /\ s.repeat = times /\ s.irpvals = vals
        /\ s.macro = NoMacro
    BY DEF new_source
  <2> HIDE DEF times, vals, params
  <2>5. s \in Source
    BY <2>1, <2>2, <2>3 DEF Source
  <2>6. Fitting(s)
    BY <2>1, <2>4 DEF Fitting, vals
  <2>7. src' = Append(src, s)
    BY <1>2 DEF start_repeat, times, vals, params
  <2> QED
    BY <1>0, <2>4, <2>5, <2>6, <2>7, PlainPushOK
<1> QED
  BY <1>1, <1>2

LEMMA ShiftOK == StackInv /\ handle_shift => StackInv'
BY DEF StackInv, handle_shift, condVars

(* The current source is changed in place, its macro is not. *)
LEMMA ReplaceOK ==
  ASSUME StackInv, NEW s \in Source, Fitting(s), s.macro = cur_src.macro,
         src' = [src EXCEPT ![Len(src)] = s],
         UNCHANGED <<recursions, NARG, CARG>>, clev' \in Int
  PROVE  StackInv'
<1>1. s.macro = src[Len(src)].macro
  BY Top DEF StackInv
<1>2. Stack(src') /\ \A m : Activations(src', m) = Activations(src, m)
  BY <1>1, ReplaceTop DEF StackInv
<1>3. Counted(recursions, src')
  BY <1>2 DEF StackInv, Counted
<1> QED
  BY <1>2, <1>3 DEF StackInv

LEMMA Ended ==
  ASSUME NEW s \in Source, NEW b \in BOOLEAN, NEW n \in Int
  PROVE  /\ [s EXCEPT !.ended = b, !.repeat = n] \in Source
         /\ [s EXCEPT !.ended = b, !.repeat = n].macro = s.macro
         /\ [s EXCEPT !.ended = b, !.repeat = n].kind = s.kind
BY DEF Source

(* mexit: a macro is no irp, so its one iteration left needs no value. *)
LEMMA LeaveMacroOK == StackInv /\ leave_macro => StackInv'
<1> SUFFICES ASSUME StackInv, leave_macro PROVE StackInv'
  OBVIOUS
<1>0. UNCHANGED <<recursions, NARG, CARG>>
  BY DEF leave_macro
<1>1. CASE cur_src.macro = NoMacro
  BY <1>0, <1>1 DEF leave_macro, StackInv
<1>2. CASE cur_src.macro # NoMacro
  <2> DEFINE s == [cur_src EXCEPT !.ended = TRUE, !.repeat = 1]
  <2>1. /\ Len(src) \in Nat /\ Len(src) > 0 /\ src \in Seq(Source)
        /\ cur_src = src[Len(src)] /\ cur_src \in Source /\ Fitting(cur_src)
    BY Top DEF StackInv, Stack
  <2>2. s \in Source /\ s.macro = cur_src.macro /\ s.kind = cur_src.kind
    <3>1. 1 \in Int /\ TRUE \in BOOLEAN
      OBVIOUS
    <3> QED
      BY <2>1, <3>1, Ended, Zenon
  <2>3. s.kind = "text"
    BY <1>2, <2>1, <2>2 DEF Fitting
  <2>4. Fitting(s)
    BY <2>3 DEF Fitting
  <2>5. src' = [src EXCEPT ![Len(src)] = s]
    BY <1>2, <2>1 DEF leave_macro
  <2>6. clev' \in Int
    BY <1>2, <2>1 DEF leave_macro, Source
  <2> QED
    BY <1>0, <2>2, <2>4, <2>5, <2>6, ReplaceOK
<1> QED
  BY <1>1, <1>2

(* The next iteration: an irp drops the value of the one that ended. *)
LEMMA ReadAgainOK ==
  ASSUME StackInv, cur_src.repeat - 1 > 0, ReadAgain
  PROVE  StackInv'
<1> DEFINE vals == IF cur_src.irpvals > 0 THEN cur_src.irpvals - 1 ELSE 0
           left == cur_src.repeat - 1
           count == cur_src.reptn + 1
           s == [cur_src EXCEPT !.repeat = left, !.reptn = count,
                                !.irpvals = vals]
<1>1. /\ Len(src) \in Nat /\ Len(src) > 0 /\ src \in Seq(Source)
      /\ cur_src = src[Len(src)] /\ cur_src \in Source /\ Fitting(cur_src)
  BY Top DEF StackInv, Stack
<1>2. /\ cur_src.repeat \in Int /\ cur_src.reptn \in Int
      /\ cur_src.irpvals \in Int
  BY <1>1 DEF Source
<1>3. vals \in Int /\ left \in Int /\ count \in Int /\ left > 0
  BY <1>2
<1>4. cur_src.kind = "irp" => vals = left
  BY <1>1, <1>2 DEF Fitting
<1>5. src' = [src EXCEPT ![Len(src)] = s]
  BY <1>1 DEF ReadAgain
<1> HIDE DEF vals, left, count
<1>6. s \in Source /\ s.macro = cur_src.macro /\ s.kind = cur_src.kind
      /\ s.irpvals = vals /\ s.repeat = left
  BY <1>1, <1>3 DEF Source
<1>7. Fitting(s)
  BY <1>1, <1>3, <1>4, <1>6 DEF Fitting
<1>8. clev' \in Int /\ UNCHANGED <<recursions, NARG, CARG>>
  BY DEF ReadAgain, condVars, StackInv
<1> QED
  BY <1>5, <1>6, <1>7, <1>8, ReplaceOK

(* The end of a source: the activation that leaves the stack, if it is one, *)
(* is counted out.  The main source stays, and is none.                     *)
LEMMA ReturnOK ==
  ASSUME StackInv, NEW bad \in BOOLEAN, ReturnToParent(bad)
  PROVE  StackInv'
<1>1. /\ Stack(src) /\ Len(src) \in Nat /\ Len(src) > 0
      /\ src \in Seq(Source) /\ cur_src = src[Len(src)]
  BY Top DEF StackInv, Stack
<1>2. clev' \in Int
  BY DEF ReturnToParent, condVars, StackInv
<1>3. CASE Len(src) = 1
  <2>1. cur_src.macro \notin Macros
    BY <1>1, <1>3, SourceStackAssumption DEF Stack
  <2>2. UNCHANGED <<src, NARG, CARG, recursions>>
    BY <1>3, <2>1 DEF ReturnToParent, Released
  <2> QED
    BY <1>2, <2>2 DEF StackInv
<1>4. CASE Len(src) > 1
  <2> DEFINE parent == src[Len(src) - 1]
             top == cur_src.macro
  <2>1. src' = Front(src)
    BY <1>1, <1>4 DEF ReturnToParent
  <2>2. Stack(src')
    BY <1>1, <1>4, <2>1, Pop
  <2>3. recursions' = IF top \in Macros THEN [recursions EXCEPT ![top] = @ - 1]
                                        ELSE recursions
    BY DEF ReturnToParent, Released
  <2>4. Counted(recursions', src')
    BY <1>1, <1>4, <2>1, <2>3, PopCounts DEF StackInv
  <2>5. \A m \in Macros : recursions'[m] <= maxmacrecurs
    BY <2>3, Limits DEF StackInv, Counted
  <2>6. parent \in Source
    BY <1>1, <1>4
  <2>7. NARG' \in Int /\ CARG' \in Int
    BY <1>1, <1>4, <2>6 DEF ReturnToParent, StackInv, Source
  <2> QED
    BY <1>2, <2>2, <2>4, <2>5, <2>7 DEF StackInv
<1>5. Len(src) = 1 \/ Len(src) > 1
  <2>1. \A k \in Nat : k > 0 => k = 1 \/ k > 1
    OBVIOUS
  <2> QED
    BY <1>1, <2>1
<1> QED
  BY <1>3, <1>4, <1>5

LEMMA EndOfTextOK ==
  ASSUME StackInv, NEW v \in BOOLEAN, EndOfText(v)
  PROVE  StackInv'
<1>1. CASE cur_src.repeat - 1 > 0 /\ cond_eval(v)
  BY <1>1, ReadAgainOK DEF EndOfText
<1>2. CASE ~(cur_src.repeat - 1 > 0 /\ cond_eval(v))
  <2>1. (Conditional /\ cond_eval(v)) \in BOOLEAN
    OBVIOUS
  <2> QED
    BY <1>2, <2>1, ReturnOK DEF EndOfText
<1> QED
  BY <1>1, <1>2

LEMMA StepStackInv == StackInv /\ [Next]_vars => StackInv'
<1> SUFFICES ASSUME StackInv, [Next]_vars PROVE StackInv'
  OBVIOUS
<1>1. CASE CondLine
  BY <1>1, CondLineOK
<1>2. ASSUME NEW m \in Macros, NEW params \in 0..maxmacparams,
             execute_macro(m, params)
      PROVE  StackInv'
  BY <1>2, ExecuteMacroOK
<1>3. CASE include_source
  BY <1>3, IncludeOK
<1>4. ASSUME NEW kind \in Kinds \ {"text"}, NEW cnt \in 0..MaxRept,
             start_repeat(kind, cnt)
      PROVE  StackInv'
  BY <1>4, StartRepeatOK
<1>5. CASE handle_shift
  BY <1>5, ShiftOK
<1>6. CASE leave_macro
  BY <1>6, LeaveMacroOK
<1>7. ASSUME NEW v \in BOOLEAN, EndOfText(v)
      PROVE  StackInv'
  BY <1>7, EndOfTextOK
<1>8. CASE BadCondition
  <2>1. ReturnToParent(TRUE) /\ TRUE \in BOOLEAN
    BY <1>8 DEF BadCondition
  <2> QED
    BY <2>1, ReturnOK
<1>9. CASE UNCHANGED vars
  BY <1>9 DEF StackInv, vars, srcVars, condVars
<1> QED
  BY <1>1, <1>2, <1>3, <1>4, <1>5, <1>6, <1>7, <1>8, <1>9 DEF Next

(* StackInv holds in every reachable state of source.c's stack. *)
THEOREM StackInvariant == Spec => []StackInv
<1>1. Init => StackInv
  BY InitStackInv
<1>2. StackInv /\ [Next]_vars => StackInv'
  BY StepStackInv
<1> QED
  BY <1>1, <1>2, PTL DEF Spec

LEMMA StackInvCounts == StackInv => RecursionsCounted
<1> SUFFICES ASSUME StackInv PROVE RecursionsCounted
  OBVIOUS
<1>1. src \in Seq(Source) /\ DOMAIN src = 1..Len(src)
  BY DEF StackInv, Stack
<1>2. \A m \in Macros :
        Activations(src, m) = {i \in DOMAIN src : src[i].macro = m}
  BY <1>1 DEF Activations
<1> QED
  BY <1>2 DEF StackInv, Counted, RecursionsCounted

LEMMA StackInvIrp == StackInv => IrpValueLeft
<1> SUFFICES ASSUME StackInv PROVE IrpValueLeft
  OBVIOUS
<1>1. src \in Seq(Source) /\ DOMAIN src = 1..Len(src)
  BY DEF StackInv, Stack
<1> QED
  BY <1>1 DEF StackInv, Stack, Fitting, IrpValueLeft

(* However a macro ends, at the end of its text or by mexit, execute_macro  *)
(* and read_next_line keep its count at the activations on the stack, and   *)
(* maxmacrecurs bounds them: for every limit, and any number of macros.     *)
THEOREM RecursionsAlwaysCounted == Spec => []RecursionsCounted
<1>1. StackInv => RecursionsCounted
  BY StackInvCounts
<1> QED
  BY <1>1, StackInvariant, PTL

(* An irp never runs out of values before its last iteration ends, whatever *)
(* its block does to the stack: include, call macros or start other blocks. *)
THEOREM IrpAlwaysHasValue == Spec => []IrpValueLeft
<1>1. StackInv => IrpValueLeft
  BY StackInvIrp
<1> QED
  BY <1>1, StackInvariant, PTL

-----------------------------------------------------------------------------
Frame == [kind : {"macro", "conditional", "counted", "text"},
          shift : Int, iter : Int, times : Int]

-----------------------------------------------------------------------------
(* The innermost macro of SourceSpec. *)
LEMMA OwnerIs ==
  ASSUME NEW f \in Seq(Frame), NEW k \in 1..Len(f),
         k = 1 \/ f[k].kind = "macro",
         \A i \in (k + 1)..Len(f) : f[i].kind # "macro"
  PROVE  Specified!Owner(f) = k
<1> DEFINE I == {1} \cup {i \in DOMAIN f : f[i].kind = "macro"}
<1>1. DOMAIN f = 1..Len(f) /\ Len(f) \in Nat /\ k \in Int
  OBVIOUS
<1>2. k \in I /\ \A i \in I : i \in Int /\ k >= i
  BY <1>1
<1> HIDE DEF I
<1>3. \A x \in I : (\A y \in I : x >= y) => x = k
  BY <1>1, <1>2
<1>4. (CHOOSE x \in I : \A y \in I : x >= y) = k
  BY <1>2, <1>3
<1>5. Specified!Owner(f) = CHOOSE x \in I : \A y \in I : x >= y
  BY Zenon DEF Specified!Owner, Specified!Max, I
<1> QED
  BY <1>4, <1>5

-----------------------------------------------------------------------------
(* The frames of the sources.                                               *)
FrameOf(s, i, h) ==
  [kind  |-> CASE s.macro # NoMacro -> "macro"
               [] s.kind \in {"while", "until"} -> "conditional"
               [] s.kind \in {"rept", "irp"} -> "counted"
               [] OTHER -> "text",
   shift |-> IF i = 1 \/ s.macro # NoMacro THEN h ELSE 0,
   iter  |-> s.reptn,
   times |-> IF s.kind = "text" THEN 1 ELSE s.repeat + s.reptn]

FramesOf(st, hp) == [i \in 1..Len(st) |-> FrameOf(st[i], i, hp[i])]

(* The innermost macro of the first n sources, the main source when they    *)
(* have none.                                                               *)
IsOwner(st, k, n) ==
  /\ k \in 1..n
  /\ k = 1 \/ st[k].macro # NoMacro
  /\ \A i \in (k + 1)..n : st[i].macro = NoMacro

Heap == [0..MaxDepth -> Int]

LEMMA FrameKind ==
  ASSUME NEW s \in Source, Fitting(s), NEW i, NEW h
  PROVE  /\ FrameOf(s, i, h).kind = "macro" <=> s.macro # NoMacro
         /\ s.kind \in {"while", "until"} => FrameOf(s, i, h).kind = "conditional"
         /\ s.kind \in {"rept", "irp"} => FrameOf(s, i, h).kind = "counted"
         /\ s.macro = NoMacro /\ s.kind = "text" => FrameOf(s, i, h).kind = "text"
<1> DEFINE kind == CASE s.macro # NoMacro -> "macro"
                     [] s.kind \in {"while", "until"} -> "conditional"
                     [] s.kind \in {"rept", "irp"} -> "counted"
                     [] OTHER -> "text"
<1>1. FrameOf(s, i, h).kind = kind
  BY DEF FrameOf
<1>2. s.kind # "text" => s.macro = NoMacro
  BY DEF Fitting
<1>3. CASE s.macro # NoMacro
  <2>1. s.kind = "text"
    BY <1>2, <1>3
  <2> QED
    BY <1>1, <1>3, <2>1
<1>4. CASE s.macro = NoMacro /\ s.kind \in {"while", "until"}
  BY <1>1, <1>4
<1>5. CASE s.macro = NoMacro /\ s.kind \in {"rept", "irp"}
  BY <1>1, <1>5
<1>6. CASE s.macro = NoMacro /\ s.kind = "text"
  BY <1>1, <1>6
<1>7. s.kind \in Kinds
  BY DEF Source
<1> QED
  BY <1>2, <1>3, <1>4, <1>5, <1>6, <1>7 DEF Kinds

LEMMA FrameKindSame ==
  ASSUME NEW s, NEW i, NEW g, NEW h
  PROVE  FrameOf(s, i, g).kind = FrameOf(s, i, h).kind
<1> DEFINE kind == CASE s.macro # NoMacro -> "macro"
                     [] s.kind \in {"while", "until"} -> "conditional"
                     [] s.kind \in {"rept", "irp"} -> "counted"
                     [] OTHER -> "text"
<1>1. FrameOf(s, i, g).kind = kind /\ FrameOf(s, i, h).kind = kind
  BY DEF FrameOf
<1> HIDE DEF kind
<1> QED
  BY <1>1

LEMMA FrameFields ==
  ASSUME NEW s, NEW i, NEW h
  PROVE  /\ i = 1 \/ s.macro # NoMacro => FrameOf(s, i, h).shift = h
         /\ ~(i = 1 \/ s.macro # NoMacro) => FrameOf(s, i, h).shift = 0
         /\ FrameOf(s, i, h).iter = s.reptn
         /\ FrameOf(s, i, h).times =
              IF s.kind = "text" THEN 1 ELSE s.repeat + s.reptn
BY Zenon DEF FrameOf

LEMMA FrameType ==
  ASSUME NEW s \in Source, NEW i, NEW h \in Int
  PROVE  FrameOf(s, i, h) \in Frame
<1>1. s.reptn \in Int /\ s.repeat \in Int
  BY DEF Source
<1>2. FrameOf(s, i, h).kind \in {"macro", "conditional", "counted", "text"}
  BY DEF FrameOf
<1> QED
  BY <1>1, <1>2 DEF FrameOf, Frame

LEMMA FramesType ==
  ASSUME NEW st, Stack(st), Len(st) <= MaxDepth, NEW hp \in Heap
  PROVE  /\ FramesOf(st, hp) \in Seq(Frame)
         /\ Len(FramesOf(st, hp)) = Len(st)
         /\ \A i \in 1..Len(st) : FramesOf(st, hp)[i] = FrameOf(st[i], i, hp[i])
<1> DEFINE n == Len(st)
<1>1. st \in Seq(Source) /\ n \in Nat
  BY DEF Stack
<1>2. ASSUME NEW i \in 1..n
      PROVE  FrameOf(st[i], i, hp[i]) \in Frame
  <2>1. hp[i] \in Int
    BY <1>1, SourceStackAssumption DEF Heap
  <2>2. st[i] \in Source
    BY <1>1
  <2> QED
    BY <2>1, <2>2, FrameType
<1>3. FramesOf(st, hp) \in [1..n -> Frame]
  BY <1>2 DEF FramesOf
<1>4. FramesOf(st, hp) \in Seq(Frame)
  BY <1>1, <1>3
<1>5. Len(FramesOf(st, hp)) = n
  BY <1>1, <1>3, <1>4
<1> QED
  BY <1>4, <1>5 DEF FramesOf

LEMMA FramesOwner ==
  ASSUME NEW st, Stack(st), Len(st) <= MaxDepth, NEW hp \in Heap,
         NEW k, IsOwner(st, k, Len(st))
  PROVE  /\ Specified!Owner(FramesOf(st, hp)) = k
         /\ FramesOf(st, hp)[k].shift = hp[k]
         /\ Last(FramesOf(st, hp)).iter = st[Len(st)].reptn
<1> DEFINE f == FramesOf(st, hp)
           n == Len(st)
<1>1. /\ f \in Seq(Frame) /\ Len(f) = n
      /\ \A i \in 1..n : f[i] = FrameOf(st[i], i, hp[i])
  BY FramesType
<1>2. n \in Nat /\ n > 0 /\ k \in 1..n /\ st \in Seq(Source)
  BY DEF Stack, IsOwner
<1>3. \A i \in 1..n : st[i] \in Source
  BY <1>2
<1>4. \A i \in 1..n : f[i].kind = "macro" <=> st[i].macro # NoMacro
  BY <1>1, <1>3, FrameKind DEF Stack
<1> HIDE DEF f
<1>5. k = 1 \/ f[k].kind = "macro"
  BY <1>2, <1>4 DEF IsOwner
<1>6. \A i \in (k + 1)..n : f[i].kind # "macro"
  BY <1>2, <1>4 DEF IsOwner
<1>7. Specified!Owner(f) = k
  BY <1>1, <1>2, <1>5, <1>6, OwnerIs
<1>8. f[k].shift = hp[k]
  BY <1>1, <1>2, FrameFields DEF IsOwner
<1>9. Last(f) = f[n]
  BY <1>1 DEF Last
<1>10. Last(f).iter = st[n].reptn
  BY <1>1, <1>2, <1>9, FrameFields
<1> QED
  BY <1>7, <1>8, <1>10 DEF f

LEMMA FramesAppend ==
  ASSUME NEW st, Stack(st), Len(st) < MaxDepth, NEW s \in Source, Fitting(s),
         NEW hp \in Heap, NEW new \in Heap,
         \A i \in 1..Len(st) : new[i] = hp[i]
  PROVE  FramesOf(Append(st, s), new) =
           Append(FramesOf(st, hp), FrameOf(s, Len(st) + 1, new[Len(st) + 1]))
<1> DEFINE n == Len(st)
           t == Append(st, s)
           f == FramesOf(st, hp)
           top == FrameOf(s, n + 1, new[n + 1])
<1>1. n \in Nat /\ st \in Seq(Source) /\ MaxDepth \in Nat
  BY SourceStackAssumption DEF Stack
<1>2. Stack(t) /\ t \in Seq(Source) /\ Len(t) = n + 1
  BY <1>1, Push
<1>3. \A i \in 1..(n + 1) : t[i] = IF i = n + 1 THEN s ELSE st[i]
  BY <1>1
<1>4. /\ FramesOf(t, new) \in Seq(Frame) /\ Len(FramesOf(t, new)) = n + 1
      /\ \A i \in 1..(n + 1) : FramesOf(t, new)[i] = FrameOf(t[i], i, new[i])
  <2>1. Len(t) <= MaxDepth
    BY <1>1, <1>2
  <2> QED
    BY <1>2, <2>1, FramesType
<1>5. /\ f \in Seq(Frame) /\ Len(f) = n
      /\ \A i \in 1..n : f[i] = FrameOf(st[i], i, hp[i])
  BY <1>1, FramesType
<1>6. top \in Frame
  <2>1. new[n + 1] \in Int
    BY <1>1 DEF Heap
  <2> QED
    BY <2>1, FrameType
<1> HIDE DEF f, top, t
<1>7. /\ Append(f, top) \in Seq(Frame) /\ Len(Append(f, top)) = n + 1
      /\ \A i \in 1..(n + 1) : Append(f, top)[i] = IF i = n + 1 THEN top ELSE f[i]
  BY <1>1, <1>5, <1>6
<1>8. ASSUME NEW i \in 1..(n + 1)
      PROVE  FramesOf(t, new)[i] = Append(f, top)[i]
  <2>1. CASE i = n + 1
    BY <1>3, <1>4, <1>7, <2>1 DEF top
  <2>2. CASE i # n + 1
    <3>1. i \in 1..n
      BY <1>1, <2>2
    <3>2. FramesOf(t, new)[i] = FrameOf(st[i], i, hp[i])
      BY <1>3, <1>4, <2>2, <3>1
    <3>3. Append(f, top)[i] = FrameOf(st[i], i, hp[i])
      BY <1>5, <1>7, <2>2, <3>1
    <3> QED
      BY <3>2, <3>3
  <2> QED
    BY <2>1, <2>2
<1>9. FramesOf(t, new) = Append(f, top)
  BY <1>4, <1>7, <1>8, SeqEqual
<1> QED
  BY <1>9 DEF f, top, t

LEMMA FramesFront ==
  ASSUME NEW st, Stack(st), Len(st) <= MaxDepth, Len(st) > 1, NEW hp \in Heap
  PROVE  FramesOf(Front(st), hp) = Front(FramesOf(st, hp))
<1> DEFINE n == Len(st)
           t == Front(st)
           f == FramesOf(st, hp)
<1>1. n \in Nat /\ st \in Seq(Source) /\ MaxDepth \in Nat /\ n - 1 \in Nat
  BY SourceStackAssumption DEF Stack
<1>2. t = SubSeq(st, 1, n - 1) /\ Front(f) = SubSeq(f, 1, Len(f) - 1)
  BY Zenon DEF Front
<1>3. Len(t) = n - 1 /\ \A i \in 1..(n - 1) : t[i] = st[i]
  BY <1>1, <1>2
<1>4. Stack(t)
  BY Pop
<1>5. /\ FramesOf(t, hp) \in Seq(Frame) /\ Len(FramesOf(t, hp)) = n - 1
      /\ \A i \in 1..(n - 1) : FramesOf(t, hp)[i] = FrameOf(t[i], i, hp[i])
  BY <1>1, <1>3, <1>4, FramesType
<1>6. /\ f \in Seq(Frame) /\ Len(f) = n
      /\ \A i \in 1..n : f[i] = FrameOf(st[i], i, hp[i])
  BY FramesType
<1> HIDE DEF f, t
<1>7. /\ SubSeq(f, 1, n - 1) \in Seq(Frame) /\ Len(SubSeq(f, 1, n - 1)) = n - 1
      /\ \A i \in 1..(n - 1) : SubSeq(f, 1, n - 1)[i] = f[i]
  BY <1>1, <1>6
<1>8. \A i \in 1..(n - 1) : FramesOf(t, hp)[i] = SubSeq(f, 1, n - 1)[i]
  BY <1>1, <1>3, <1>5, <1>6, <1>7
<1>9. FramesOf(t, hp) = SubSeq(f, 1, n - 1)
  BY <1>5, <1>7, <1>8, SeqEqual
<1> QED
  BY <1>2, <1>6, <1>9 DEF f, t

(* frames of SourceStack, before and after a step. *)
LEMMA FramesAreFrames == StackInv => frames = FramesOf(src, heap)
<1> SUFFICES ASSUME StackInv PROVE frames = FramesOf(src, heap)
  OBVIOUS
<1>1. DOMAIN src = 1..Len(src)
  BY DEF StackInv, Stack
<1> QED
  BY <1>1, Zenon DEF frames, FramesOf, FrameOf

LEMMA FramesAreFramesNext == StackInv' => frames' = FramesOf(src', heap')
<1> SUFFICES ASSUME StackInv' PROVE frames' = FramesOf(src', heap')
  OBVIOUS
<1>1. DOMAIN src' = 1..Len(src')
  BY DEF StackInv, Stack
<1> QED
  BY <1>1, Zenon DEF frames, FramesOf, FrameOf

-----------------------------------------------------------------------------
(* The invariant of the refinement.                                         *)

(* A source that is no repetition is read once; NARG always has the         *)
(* expression it was created with.                                          *)
Running(s) ==
  /\ s.repeat > 0
  /\ s.kind = "text" => s.repeat = 1
  /\ s.nargexp \in {None, 0}

(* CARG points to the expression of the innermost macro, and what a source  *)
(* remembers is the expression of its own innermost macro: the caller of a  *)
(* macro remembers one, and an old one that is still there is right as well.*)
Expressions(st, carg) ==
  /\ IsOwner(st, carg, Len(st))
  /\ \A i \in 1..Len(st) : st[i].cargexp # None => IsOwner(st, st[i].cargexp, i)
  /\ \A i \in 2..Len(st) : st[i].macro # NoMacro => st[i - 1].cargexp # None

RefInv ==
  /\ StackInv
  /\ Len(src) <= MaxDepth
  /\ heap \in Heap
  /\ NARG = 0
  /\ Expressions(src, CARG)
  /\ \A i \in 1..Len(src) : Running(src[i])
  /\ REPTN = src[Len(src)].reptn

LEMMA OwnerLocal ==
  ASSUME NEW m \in Nat, NEW st, NEW t, NEW k, IsOwner(st, k, m),
         \A i \in 1..m : t[i].macro = st[i].macro
  PROVE  IsOwner(t, k, m)
BY DEF IsOwner

LEMMA ExpressionsReplace ==
  ASSUME NEW st, Stack(st), NEW k, Expressions(st, k), NEW s \in Source,
         s.macro = st[Len(st)].macro,
         s.cargexp = st[Len(st)].cargexp \/ s.cargexp = k
  PROVE  Expressions([st EXCEPT ![Len(st)] = s], k)
<1> DEFINE n == Len(st)
           t == [st EXCEPT ![n] = s]
<1>1. st \in Seq(Source) /\ n \in Nat /\ n > 0
  BY DEF Stack
<1>2. /\ Len(t) = n
      /\ \A i \in 1..n : t[i] = IF i = n THEN s ELSE st[i]
  BY <1>1
<1> HIDE DEF t
<1>3. \A i \in 1..n : t[i].macro = st[i].macro
  BY <1>2
<1>4. \A m \in 1..n : m \in Nat /\ \A i \in 1..m : t[i].macro = st[i].macro
  BY <1>1, <1>3
<1>5. IsOwner(t, k, n)
  BY <1>1, <1>3, OwnerLocal DEF Expressions
<1>6. ASSUME NEW i \in 1..n, t[i].cargexp # None
      PROVE  IsOwner(t, t[i].cargexp, i)
  <2>1. CASE i = n /\ s.cargexp = k
    BY <1>2, <1>5, <2>1
  <2>2. CASE i # n \/ s.cargexp = st[n].cargexp
    <3>1. t[i].cargexp = st[i].cargexp
      BY <1>2, <2>2
    <3>2. IsOwner(st, st[i].cargexp, i)
      BY <1>6, <3>1 DEF Expressions
    <3> QED
      BY <1>4, <3>1, <3>2, OwnerLocal
  <2> QED
    BY <2>1, <2>2
<1>7. \A i \in 2..n : i - 1 \in 1..n /\ i - 1 # n
  BY <1>1
<1>8. \A i \in 2..n : t[i].macro # NoMacro => t[i - 1].cargexp # None
  BY <1>1, <1>2, <1>3, <1>7 DEF Expressions
<1> QED
  BY <1>2, <1>5, <1>6, <1>8 DEF Expressions, t

(* A source is put on the stack: a macro with an expression of its own,     *)
(* whose caller remembers the one of before, or a source that is none.      *)
LEMMA ExpressionsPush ==
  ASSUME NEW st, Stack(st), NEW k, Expressions(st, k), NEW s \in Source,
         s.cargexp = None,
         s.macro # NoMacro => st[Len(st)].cargexp # None
  PROVE  Expressions(Append(st, s), IF s.macro # NoMacro THEN Len(st) + 1 ELSE k)
<1> DEFINE n == Len(st)
           t == Append(st, s)
           new == IF s.macro # NoMacro THEN n + 1 ELSE k
<1>1. st \in Seq(Source) /\ n \in Nat /\ n > 0
  BY DEF Stack
<1>2. /\ Len(t) = n + 1
      /\ \A i \in 1..(n + 1) : t[i] = IF i = n + 1 THEN s ELSE st[i]
  BY <1>1
<1> HIDE DEF t
<1>3. \A m \in 1..n : m \in Nat /\ \A i \in 1..m : t[i].macro = st[i].macro
  BY <1>1, <1>2
<1>4. IsOwner(t, new, n + 1)
  <2>1. CASE s.macro # NoMacro
    BY <1>1, <1>2, <2>1 DEF IsOwner
  <2>2. CASE s.macro = NoMacro
    <3>1. IsOwner(st, k, n)
      BY DEF Expressions
    <3> QED
      BY <1>1, <1>2, <2>2, <3>1 DEF IsOwner
  <2> QED
    BY <2>1, <2>2
<1>5. ASSUME NEW i \in 1..(n + 1), t[i].cargexp # None
      PROVE  IsOwner(t, t[i].cargexp, i)
  <2>1. i \in 1..n /\ t[i] = st[i]
    BY <1>1, <1>2, <1>5
  <2>2. IsOwner(st, st[i].cargexp, i)
    BY <1>5, <2>1 DEF Expressions
  <2> QED
    BY <1>3, <2>1, <2>2, OwnerLocal
<1>6. ASSUME NEW i \in 2..(n + 1), t[i].macro # NoMacro
      PROVE  t[i - 1].cargexp # None
  <2>1. i - 1 \in 1..n /\ t[i - 1] = st[i - 1]
    BY <1>1, <1>2
  <2>2. CASE i = n + 1
    <3>1. i - 1 = n
      BY <1>1, <2>2
    <3> QED
      BY <1>1, <1>2, <1>6, <2>1, <2>2, <3>1
  <2>3. CASE i # n + 1
    <3>1. i \in 2..n /\ t[i] = st[i]
      BY <1>1, <1>2, <2>3
    <3> QED
      BY <1>6, <2>1, <3>1 DEF Expressions
  <2> QED
    BY <2>2, <2>3
<1> QED
  BY <1>2, <1>4, <1>5, <1>6 DEF Expressions, t

(* Back to the parent, whose expression CARG gets when it remembers one.    *)
LEMMA ExpressionsPop ==
  ASSUME NEW st, Stack(st), Len(st) > 1, NEW k, Expressions(st, k)
  PROVE  Expressions(Front(st), IF st[Len(st) - 1].cargexp # None
                                  THEN st[Len(st) - 1].cargexp ELSE k)
<1> DEFINE n == Len(st)
           t == Front(st)
           saved == st[n - 1].cargexp
           new == IF saved # None THEN saved ELSE k
<1>1. st \in Seq(Source) /\ n \in Nat /\ n > 1 /\ n - 1 \in 1..n
  BY DEF Stack
<1>2. t = SubSeq(st, 1, n - 1)
  BY Zenon DEF Front
<1>3. Len(t) = n - 1 /\ \A i \in 1..(n - 1) : t[i] = st[i]
  BY <1>1, <1>2
<1> HIDE DEF t
<1>4. \A m \in 1..(n - 1) : m \in Nat /\ \A i \in 1..m : t[i].macro = st[i].macro
  BY <1>1, <1>3
<1>5. IsOwner(st, new, n - 1)
  <2>1. CASE saved # None
    BY <1>1, <2>1 DEF Expressions
  <2>2. CASE saved = None
    <3>1. st[n].macro = NoMacro
      BY <1>1, <2>2 DEF Expressions
    <3>2. IsOwner(st, k, n)
      BY DEF Expressions
    <3> QED
      BY <1>1, <2>2, <3>1, <3>2 DEF IsOwner
  <2> QED
    BY <2>1, <2>2
<1>6. n - 1 \in 1..(n - 1)
  BY <1>1
<1>7. IsOwner(t, new, n - 1)
  BY <1>4, <1>5, <1>6, OwnerLocal
<1>8. ASSUME NEW i \in 1..(n - 1), t[i].cargexp # None
      PROVE  IsOwner(t, t[i].cargexp, i)
  <2>1. i \in 1..n /\ t[i] = st[i]
    BY <1>1, <1>3
  <2>2. IsOwner(st, st[i].cargexp, i)
    BY <1>8, <2>1 DEF Expressions
  <2> QED
    BY <1>4, <2>1, <2>2, OwnerLocal
<1>9. ASSUME NEW i \in 2..(n - 1), t[i].macro # NoMacro
      PROVE  t[i - 1].cargexp # None
  <2>1. i \in 2..n /\ t[i] = st[i] /\ t[i - 1] = st[i - 1]
    BY <1>1, <1>3
  <2> QED
    BY <1>9, <2>1 DEF Expressions
<1> QED
  BY <1>3, <1>7, <1>8, <1>9 DEF Expressions, t

-----------------------------------------------------------------------------
(* The steps: each keeps the invariant and is a step of SourceSpec, or none. *)
Refines == RefInv' /\ [Specified!Next]_Specified!vars

(* What a line sees is what SourceSpec says it sees. *)
LEMMA Shown ==
  ASSUME RefInv'
  PROVE  Specified!Become(frames')
<1>1. /\ Stack(src') /\ Len(src') <= MaxDepth /\ heap' \in Heap
      /\ IsOwner(src', CARG', Len(src')) /\ REPTN' = src'[Len(src')].reptn
  BY DEF RefInv, StackInv, Expressions
<1>2. frames' = FramesOf(src', heap')
  BY FramesAreFramesNext DEF RefInv
<1>3. /\ Specified!Owner(FramesOf(src', heap')) = CARG'
      /\ FramesOf(src', heap')[CARG'].shift = heap'[CARG']
      /\ Last(FramesOf(src', heap')).iter = src'[Len(src')].reptn
  BY <1>1, FramesOwner
<1> QED
  BY <1>1, <1>2, <1>3 DEF Specified!Become, Specified!Visible, Specified!Last, Last

LEMMA StutterOK ==
  ASSUME RefInv, StackInv', UNCHANGED <<src, heap, NARG, CARG, REPTN>>
  PROVE  Refines
<1>1. RefInv'
  BY DEF RefInv
<1>2. frames' = frames
  BY FramesAreFrames, FramesAreFramesNext DEF RefInv
<1> QED
  BY <1>1, <1>2 DEF Refines, Specified!vars

LEMMA SourceFacts ==
  ASSUME RefInv
  PROVE  /\ Stack(src) /\ src \in Seq(Source)
         /\ Len(src) \in Nat /\ Len(src) > 0 /\ Len(src) <= MaxDepth
         /\ Len(src) \in 1..Len(src)
         /\ cur_src = src[Len(src)] /\ cur_src \in Source
         /\ Fitting(cur_src) /\ Running(cur_src)
         /\ frames = FramesOf(src, heap) /\ heap \in Heap
         /\ frames \in Seq(Frame) /\ Len(frames) = Len(src)
         /\ \A i \in 1..Len(src) : frames[i] = FrameOf(src[i], i, heap[i])
         /\ Last(frames) = FrameOf(cur_src, Len(src), heap[Len(src)])
<1>1. /\ Stack(src) /\ src \in Seq(Source) /\ Len(src) \in Nat /\ Len(src) > 0
      /\ cur_src = src[Len(src)] /\ cur_src \in Source /\ Fitting(cur_src)
  BY Top DEF RefInv, StackInv, Stack
<1>2. Len(src) \in 1..Len(src)
  BY <1>1
<1>3. Running(cur_src)
  BY <1>1, <1>2 DEF RefInv
<1>4. frames = FramesOf(src, heap) /\ heap \in Heap /\ Len(src) <= MaxDepth
  BY FramesAreFrames DEF RefInv
<1>5. /\ frames \in Seq(Frame) /\ Len(frames) = Len(src)
      /\ \A i \in 1..Len(src) : frames[i] = FrameOf(src[i], i, heap[i])
  BY <1>1, <1>4, FramesType
<1>6. Last(frames) = FrameOf(cur_src, Len(src), heap[Len(src)])
  BY <1>1, <1>2, <1>5, Zenon DEF Last
<1> QED
  BY <1>1, <1>2, <1>3, <1>4, <1>5, <1>6

(* An include or a block. *)
LEMMA PlainPushRef ==
  ASSUME RefInv, StackInv', Len(src) < MaxDepth,
         NEW s \in Source, Fitting(s), Running(s), s.macro = NoMacro,
         s.cargexp = None, src' = Append(src, s), REPTN' = s.reptn,
         UNCHANGED <<heap, NARG, CARG>>
  PROVE  /\ RefInv'
         /\ frames' = Append(frames, FrameOf(s, Len(src) + 1, heap[Len(src) + 1]))
<1> DEFINE n == Len(src)
<1>1. /\ Stack(src) /\ src \in Seq(Source) /\ n \in Nat /\ n > 0
      /\ frames = FramesOf(src, heap) /\ heap \in Heap
  BY SourceFacts
<1>2. /\ Len(src') = n + 1
      /\ \A i \in 1..(n + 1) : src'[i] = IF i = n + 1 THEN s ELSE src[i]
  BY <1>1
<1>3. n + 1 <= MaxDepth
  BY <1>1, SourceStackAssumption
<1>4. Expressions(src', CARG')
  BY <1>1, ExpressionsPush DEF RefInv
<1>5. \A i \in 1..(n + 1) : Running(src'[i])
  BY <1>1, <1>2 DEF RefInv
<1>6. src'[n + 1] = s
  BY <1>1, <1>2
<1>7. RefInv'
  BY <1>1, <1>2, <1>3, <1>4, <1>5, <1>6 DEF RefInv
<1>8. FramesOf(Append(src, s), heap) =
        Append(FramesOf(src, heap), FrameOf(s, n + 1, heap[n + 1]))
  BY <1>1, FramesAppend
<1>9. frames' = FramesOf(src', heap')
  BY FramesAreFramesNext
<1> QED
  BY <1>1, <1>7, <1>8, <1>9

LEMMA IncludeRef ==
  ASSUME RefInv, StackInv', include_source
  PROVE  Refines
<1> DEFINE s == new_source(cur_src.reptn, clev)
           n == Len(src)
           f == FrameOf(s, n + 1, heap[n + 1])
<1>1. /\ src' = Append(src, s) /\ n < MaxDepth
      /\ UNCHANGED <<heap, NARG, CARG, REPTN>>
  BY DEF include_source
<1>2. cur_src.reptn \in Int /\ clev \in Int
  BY SourceFacts DEF RefInv, StackInv, Source
<1>3. s \in Source
  BY <1>2, NewSource
<1>4. /\ s.macro = NoMacro /\ s.kind = "text" /\ s.repeat = 1
      /\ s.cargexp = None /\ s.nargexp = None /\ s.reptn = cur_src.reptn
  BY DEF new_source
<1> HIDE DEF s
<1>5. Fitting(s) /\ Running(s)
  BY <1>4 DEF Fitting, Running
<1>6. REPTN = cur_src.reptn
  BY SourceFacts DEF RefInv
<1>7. RefInv' /\ frames' = Append(frames, f)
  BY <1>1, <1>3, <1>4, <1>5, <1>6, PlainPushRef
<1>8. Last(frames).iter = cur_src.reptn
  BY SourceFacts, FrameFields
<1>9. f = [kind |-> "text", shift |-> 0, times |-> 1, iter |-> Last(frames).iter]
  <2>1. f.kind = "text"
    BY <1>3, <1>4, <1>5, FrameKind
  <2>2. n + 1 # 1
    BY SourceFacts
  <2>3. f.shift = 0 /\ f.iter = Last(frames).iter /\ f.times = 1
    BY <1>4, <1>8, <2>2, FrameFields
  <2> QED
    BY <2>1, <2>3, Zenon DEF FrameOf
<1>10. Specified!Enter("text", 1)
  <2>1. Specified!Become(frames') /\ "text" \notin Specified!Loops
    BY <1>7, Shown DEF Specified!Loops
  <2>2. Last(frames) = Specified!Last(frames)
    BY DEF Last, Specified!Last
  <2> QED
    BY <1>7, <1>9, <2>1, <2>2, Zenon DEF Specified!Enter
<1> QED
  BY <1>7, <1>10 DEF Refines, Specified!Next

(* A block is entered for its first iteration, when it is at all. *)
LEMMA StartRepeatRef ==
  ASSUME RefInv, StackInv', NEW kind \in Kinds \ {"text"}, NEW cnt \in 0..MaxRept,
         start_repeat(kind, cnt)
  PROVE  Refines
<1>0. Len(src) < MaxDepth /\ UNCHANGED <<heap, NARG, CARG>>
  BY DEF start_repeat
<1>1. CASE cnt = 0 /\ kind \in {"rept", "while"}
  BY <1>0, <1>1, StutterOK DEF start_repeat
<1>2. CASE ~(cnt = 0 /\ kind \in {"rept", "while"})
  <2> DEFINE n == Len(src)
             max == IF MaxRept > maxloopiters THEN MaxRept ELSE maxloopiters
             times == IF kind = "irp" /\ cnt = 0 THEN 1 ELSE Iterations(kind, cnt)
             vals == IF kind = "irp" THEN times ELSE 0
             params == cur_src.num_params
             s == [new_source(0, clev) EXCEPT
                     !.kind = kind, !.repeat = times, !.irpvals = vals,
                     !.num_params = params]
             f == FrameOf(s, n + 1, heap[n + 1])
             spec == IF kind \in {"while", "until"} THEN "conditional" ELSE "counted"
  <2>1. times \in 1..max /\ vals \in Int
    BY <1>2, Limits, SourceStackAssumption DEF Iterations, Kinds
  <2>2. clev \in Int /\ params \in Int
    BY SourceFacts DEF RefInv, StackInv, Source
  <2>3. new_source(0, clev) \in Source
    BY <2>2, NewSource
  <2>4. /\ s.kind = kind /\ s.repeat = times /\ s.irpvals = vals
        /\ s.macro = NoMacro /\ s.cargexp = None /\ s.nargexp = None /\ s.reptn = 0
    BY DEF new_source
  <2>5. src' = Append(src, s) /\ REPTN' = 0
    BY <1>2 DEF start_repeat
  <2>6. kind = "irp" => vals = times
    OBVIOUS
  <2>7. times \in Int /\ times > 0 /\ times = times + 0
    BY <2>1, Limits, SourceStackAssumption
  <2>8. s \in Source
    BY <2>1, <2>2, <2>3, <2>7 DEF Source
  <2> HIDE DEF times, vals, params, max, s
  <2>9. Fitting(s) /\ Running(s)
    BY <2>4, <2>6, <2>7 DEF Fitting, Running
  <2>10. RefInv' /\ frames' = Append(frames, f)
    BY <1>0, <2>4, <2>5, <2>8, <2>9, PlainPushRef
  <2>11. f = [kind |-> spec, shift |-> 0, times |-> times, iter |-> 0]
    <3>1. f.kind = spec
      BY <2>4, <2>8, <2>9, FrameKind DEF Kinds
    <3>2. n + 1 # 1
      BY SourceFacts
    <3>3. f.shift = 0 /\ f.iter = 0 /\ f.times = times + 0
      BY <2>4, <2>7, <3>2, FrameFields
    <3> QED
      BY <2>7, <3>1, <3>3, Zenon DEF FrameOf
  <2>12. Specified!Become(frames') /\ spec \in Specified!Loops
    BY <2>10, Shown DEF Specified!Loops
  <2>13. Specified!Enter(spec, times)
    BY <2>10, <2>11, <2>12, Zenon DEF Specified!Enter
  <2> QED
    BY <2>1, <2>10, <2>12, <2>13 DEF Refines, Specified!Next, max
<1> QED
  BY <1>1, <1>2

(* The current source is changed in place. *)
LEMMA ReplaceRef ==
  ASSUME RefInv, StackInv', NEW s \in Source, Fitting(s), Running(s),
         s.macro = cur_src.macro, s.cargexp = cur_src.cargexp,
         src' = [src EXCEPT ![Len(src)] = s], REPTN' = s.reptn,
         UNCHANGED <<heap, NARG, CARG>>
  PROVE  /\ RefInv'
         /\ frames' = [frames EXCEPT ![Len(src)] =
                         FrameOf(s, Len(src), heap[Len(src)])]
<1> DEFINE n == Len(src)
           top == FrameOf(s, n, heap[n])
<1>1. /\ Stack(src) /\ src \in Seq(Source) /\ n \in Nat /\ n > 0 /\ n <= MaxDepth
      /\ n \in 1..n /\ cur_src = src[n] /\ heap \in Heap
      /\ frames \in Seq(Frame) /\ Len(frames) = n
      /\ \A i \in 1..n : frames[i] = FrameOf(src[i], i, heap[i])
  BY SourceFacts
<1>2. Len(src') = n /\ \A i \in 1..n : src'[i] = IF i = n THEN s ELSE src[i]
  BY <1>1
<1>3. Expressions(src', CARG')
  BY <1>1, ExpressionsReplace DEF RefInv
<1>4. \A i \in 1..n : Running(src'[i])
  BY <1>2 DEF RefInv
<1>5. RefInv'
  BY <1>1, <1>2, <1>3, <1>4 DEF RefInv
<1>6. /\ frames' \in Seq(Frame) /\ Len(frames') = n
      /\ \A i \in 1..n : frames'[i] = FrameOf(src'[i], i, heap[i])
  <2>1. Stack(src') /\ frames' = FramesOf(src', heap)
    BY FramesAreFramesNext DEF StackInv
  <2>2. Len(src') <= MaxDepth
    BY <1>1, <1>2
  <2>3. /\ FramesOf(src', heap) \in Seq(Frame)
        /\ Len(FramesOf(src', heap)) = Len(src')
        /\ \A i \in 1..Len(src') :
             FramesOf(src', heap)[i] = FrameOf(src'[i], i, heap[i])
    BY <1>1, <2>1, <2>2, FramesType
  <2> QED
    BY <1>2, <2>1, <2>3
<1>7. top \in Frame
  <2>1. heap[n] \in Int
    BY <1>1, SourceStackAssumption DEF Heap
  <2> QED
    BY <2>1, FrameType
<1> HIDE DEF top
<1>8. /\ [frames EXCEPT ![n] = top] \in Seq(Frame)
      /\ Len([frames EXCEPT ![n] = top]) = n
      /\ \A i \in 1..n : [frames EXCEPT ![n] = top][i] = IF i = n THEN top ELSE frames[i]
  BY <1>1, <1>7
<1>9. \A i \in 1..n : frames'[i] = [frames EXCEPT ![n] = top][i]
  BY <1>1, <1>2, <1>6, <1>8 DEF top
<1>10. frames' = [frames EXCEPT ![n] = top]
  BY <1>6, <1>8, <1>9, SeqEqual
<1> QED
  BY <1>5, <1>10 DEF top

LEMMA EndedFields ==
  ASSUME NEW s \in Source
  PROVE  LET t == [s EXCEPT !.ended = TRUE, !.repeat = 1]
         IN  /\ t \in Source /\ t.macro = s.macro /\ t.kind = s.kind
             /\ t.cargexp = s.cargexp /\ t.nargexp = s.nargexp
             /\ t.reptn = s.reptn /\ t.repeat = 1
<1>1. 1 \in Int /\ TRUE \in BOOLEAN
  OBVIOUS
<1>2. [s EXCEPT !.ended = TRUE, !.repeat = 1] \in Source
  BY <1>1, Ended, Zenon
<1> QED
  BY <1>2 DEF Source

(* mexit only says that nothing more is read of the macro. *)
LEMMA LeaveMacroRef ==
  ASSUME RefInv, StackInv', leave_macro
  PROVE  Refines
<1>0. UNCHANGED <<heap, NARG, CARG, REPTN>>
  BY DEF leave_macro
<1>1. CASE cur_src.macro = NoMacro
  BY <1>0, <1>1, StutterOK DEF leave_macro
<1>2. CASE cur_src.macro # NoMacro
  <2> DEFINE n == Len(src)
             s == [cur_src EXCEPT !.ended = TRUE, !.repeat = 1]
  <2>1. /\ src \in Seq(Source) /\ n \in 1..n /\ cur_src = src[n]
        /\ cur_src \in Source /\ Fitting(cur_src) /\ Running(cur_src)
        /\ frames[n] = FrameOf(cur_src, n, heap[n])
        /\ frames \in Seq(Frame) /\ Len(frames) = n
    BY SourceFacts
  <2>2. /\ s \in Source /\ s.macro = cur_src.macro /\ s.kind = cur_src.kind
        /\ s.cargexp = cur_src.cargexp /\ s.nargexp = cur_src.nargexp
        /\ s.reptn = cur_src.reptn /\ s.repeat = 1
    BY <2>1, EndedFields
  <2>3. src' = [src EXCEPT ![n] = s]
    BY <1>2, <2>1 DEF leave_macro
  <2> HIDE DEF s
  <2>4. s.kind = "text"
    BY <1>2, <2>1, <2>2 DEF Fitting
  <2>5. Fitting(s) /\ Running(s)
    BY <2>1, <2>2, <2>4 DEF Fitting, Running
  <2>6. REPTN' = s.reptn
    BY <1>0, <2>1, <2>2 DEF RefInv
  <2>7. RefInv' /\ frames' = [frames EXCEPT ![n] = FrameOf(s, n, heap[n])]
    BY <1>0, <2>2, <2>3, <2>5, <2>6, ReplaceRef
  <2>8. FrameOf(s, n, heap[n]) = frames[n]
    BY <2>1, <2>2, <2>4 DEF FrameOf
  <2>9. frames' = frames
    BY <2>1, <2>7, <2>8
  <2> QED
    BY <1>0, <2>7, <2>9 DEF Refines, Specified!vars
<1> QED
  BY <1>1, <1>2

(* The next iteration of a repetition; other sources are not read again. *)
LEMMA ReadAgainRef ==
  ASSUME RefInv, StackInv', cur_src.repeat - 1 > 0, ReadAgain
  PROVE  Refines
<1> DEFINE n == Len(src)
           vals == IF cur_src.irpvals > 0 THEN cur_src.irpvals - 1 ELSE 0
           left == cur_src.repeat - 1
           count == cur_src.reptn + 1
           s == [cur_src EXCEPT !.repeat = left, !.reptn = count,
                                !.irpvals = vals]
           f == FrameOf(cur_src, n, heap[n])
           g == FrameOf(s, n, heap[n])
<1>1. /\ src \in Seq(Source) /\ n \in 1..n /\ cur_src = src[n]
      /\ cur_src \in Source /\ Fitting(cur_src) /\ Running(cur_src)
      /\ frames[n] = f /\ frames \in Seq(Frame) /\ Len(frames) = n
      /\ Last(frames) = f
  BY SourceFacts
<1>2. /\ cur_src.repeat \in Int /\ cur_src.reptn \in Int
      /\ cur_src.irpvals \in Int
  BY <1>1 DEF Source
<1>3. /\ vals \in Int /\ left \in Int /\ count \in Int /\ left > 0
      /\ left + count = cur_src.repeat + cur_src.reptn
      /\ count < cur_src.repeat + cur_src.reptn
  BY <1>2
<1>4. cur_src.kind = "irp" => vals = left
  BY <1>1, <1>2 DEF Fitting
<1>5. /\ src' = [src EXCEPT ![n] = s] /\ REPTN' = count
      /\ UNCHANGED <<heap, NARG, CARG>>
  BY <1>1 DEF ReadAgain
<1>6. cur_src.kind # "text"
  BY <1>1, <1>2, <1>3 DEF Running
<1>7. count = cur_src.reptn + 1
  OBVIOUS
<1> HIDE DEF vals, left, count
<1>8. /\ s \in Source /\ s.macro = cur_src.macro /\ s.kind = cur_src.kind
      /\ s.irpvals = vals /\ s.repeat = left /\ s.reptn = count
      /\ s.cargexp = cur_src.cargexp /\ s.nargexp = cur_src.nargexp
  BY <1>1, <1>3 DEF Source
<1> HIDE DEF s
<1>9. Fitting(s) /\ Running(s)
  BY <1>1, <1>3, <1>4, <1>6, <1>8 DEF Fitting, Running
<1>10. RefInv' /\ frames' = [frames EXCEPT ![n] = g]
  BY <1>5, <1>8, <1>9, ReplaceRef
<1>11. /\ f.iter = cur_src.reptn /\ f.times = cur_src.repeat + cur_src.reptn
       /\ g.iter = count /\ g.times = left + count /\ g.shift = f.shift
  BY <1>6, <1>8, FrameFields, Zenon DEF FrameOf
<1>12. f.kind \in Specified!Loops /\ g.kind = f.kind
  <2>1. cur_src.kind \in {"while", "until", "rept", "irp"}
    BY <1>1, <1>6 DEF Source, Kinds
  <2>2. /\ cur_src.kind \in {"while", "until"} => f.kind = "conditional" /\ g.kind = "conditional"
        /\ cur_src.kind \in {"rept", "irp"} => f.kind = "counted" /\ g.kind = "counted"
    BY <1>1, <1>8, <1>9, FrameKind
  <2> QED
    BY <2>1, <2>2 DEF Specified!Loops
<1>13. g = [f EXCEPT !.iter = f.iter + 1]
  <2>1. heap[n] \in Int
    BY <1>1, SourceFacts, SourceStackAssumption DEF Heap
  <2>2. f \in Frame /\ g \in Frame
    BY <1>1, <1>8, <2>1, FrameType
  <2> HIDE DEF f, g
  <2> QED
    BY <1>3, <1>7, <1>11, <1>12, <2>2 DEF Frame
<1> HIDE DEF f, g
<1>14. frames' = [frames EXCEPT ![Len(frames)].iter = @ + 1]
  BY <1>1, <1>10, <1>13
<1>15. f.iter + 1 < f.times
  BY <1>3, <1>7, <1>11
<1>16. Specified!Last(frames) = f
  BY <1>1 DEF Specified!Last, Last
<1>17. Specified!Become(frames')
  BY <1>10, Shown
<1>18. Specified!NextIteration
  BY <1>12, <1>14, <1>15, <1>16, <1>17 DEF Specified!NextIteration
<1> QED
  BY <1>10, <1>18 DEF Refines, Specified!Next

(* The end of a source: a counted repetition ends with its last iteration.  *)
LEMMA ReturnRef ==
  ASSUME RefInv, StackInv', NEW bad \in BOOLEAN, ReturnToParent(bad),
         cur_src.kind \in {"rept", "irp"} => ~(cur_src.repeat - 1 > 0)
  PROVE  Refines
<1> DEFINE n == Len(src)
           f == FrameOf(cur_src, n, heap[n])
<1>1. /\ Stack(src) /\ src \in Seq(Source) /\ n \in Nat /\ n > 0 /\ n <= MaxDepth
      /\ n \in 1..n /\ cur_src = src[n] /\ cur_src \in Source
      /\ Fitting(cur_src) /\ Running(cur_src) /\ heap \in Heap
      /\ frames = FramesOf(src, heap) /\ Len(frames) = n /\ Last(frames) = f
  BY SourceFacts
<1>2. n = 1 \/ n > 1
  <2>1. \A k \in Nat : k > 0 => k = 1 \/ k > 1
    OBVIOUS
  <2> QED
    BY <1>1, <2>1
<1>3. CASE n = 1
  BY <1>3, StutterOK DEF ReturnToParent
<1>4. CASE n > 1
  <2> DEFINE parent == src[n - 1]
  <2>1. /\ src' = Front(src) /\ heap' = heap /\ REPTN' = parent.reptn
        /\ NARG' = IF parent.nargexp # None THEN parent.nargexp ELSE NARG
        /\ CARG' = IF parent.cargexp # None THEN parent.cargexp ELSE CARG
    <3>1. \A k \in Nat : k > 1 => k # 1
      OBVIOUS
    <3>2. Len(src) # 1
      BY <1>1, <1>4, <3>1
    <3> QED
      BY <3>2, Zenon DEF ReturnToParent
  <2>2. Front(src) = SubSeq(src, 1, n - 1)
    BY Zenon DEF Front
  <2>3. /\ Len(src') = n - 1 /\ n - 1 \in 1..n /\ n - 1 \in 1..(n - 1)
        /\ \A i \in 1..(n - 1) : i \in 1..n /\ src'[i] = src[i]
    BY <1>1, <1>4, <2>1, <2>2
  <2>4. Running(parent)
    BY <2>3 DEF RefInv
  <2>5. NARG' = 0
    BY <2>1, <2>4 DEF RefInv, Running
  <2>6. Expressions(src', CARG')
    BY <1>1, <1>4, <2>1, ExpressionsPop DEF RefInv
  <2>7. \A i \in 1..(n - 1) : Running(src'[i])
    BY <2>3 DEF RefInv
  <2>8. Len(src') <= MaxDepth
    BY <1>1, <2>3, SourceStackAssumption
  <2>9. REPTN' = src'[Len(src')].reptn
    BY <2>1, <2>3
  <2>10. RefInv'
    BY <1>1, <2>1, <2>3, <2>5, <2>6, <2>7, <2>8, <2>9 DEF RefInv
  <2>11. frames' = Front(frames)
    <3>1. frames' = FramesOf(src', heap')
      BY FramesAreFramesNext
    <3> QED
      BY <1>1, <1>4, <2>1, <3>1, FramesFront
  <2>12. f.kind = "counted" => f.iter + 1 = f.times
    <3>1. SUFFICES ASSUME f.kind = "counted" PROVE f.iter + 1 = f.times
      OBVIOUS
    <3>2. cur_src.kind \in {"rept", "irp"}
      <4>1. cur_src.kind \in Kinds
        BY <1>1 DEF Source
      <4>2. /\ cur_src.macro # NoMacro => f.kind = "macro"
            /\ cur_src.kind \in {"while", "until"} => f.kind = "conditional"
            /\ cur_src.macro = NoMacro /\ cur_src.kind = "text" => f.kind = "text"
        BY <1>1, FrameKind
      <4> QED
        BY <3>1, <4>1, <4>2 DEF Kinds
    <3>3. cur_src.repeat = 1 /\ cur_src.reptn \in Int
      BY <1>1, <3>2 DEF Running, Source
    <3>4. f.iter = cur_src.reptn /\ f.times = cur_src.repeat + cur_src.reptn
      BY <3>2, FrameFields
    <3> QED
      BY <3>3, <3>4
  <2>13. Specified!Last(frames) = f /\ Specified!Front(frames) = Front(frames)
    BY <1>1 DEF Specified!Last, Last, Specified!Front, Front
  <2>14. Specified!Become(frames')
    BY <2>10, Shown
  <2>15. Specified!Leave
    BY <1>1, <1>4, <2>11, <2>12, <2>13, <2>14 DEF Specified!Leave
  <2> QED
    BY <2>10, <2>15 DEF Refines, Specified!Next
<1> QED
  BY <1>2, <1>3, <1>4

(* shift: the expression of CARG is the one of the innermost macro. *)
LEMMA ShiftRef ==
  ASSUME RefInv, StackInv', handle_shift
  PROVE  Refines
<1> DEFINE n == Len(src)
           k == CARG
           h == heap[k]
<1>1. /\ src \in Seq(Source) /\ Stack(src) /\ n \in Nat /\ n <= MaxDepth
      /\ heap \in Heap /\ frames = FramesOf(src, heap)
      /\ frames \in Seq(Frame) /\ Len(frames) = n
      /\ \A i \in 1..n : frames[i] = FrameOf(src[i], i, heap[i])
  BY SourceFacts
<1>2. IsOwner(src, k, n) /\ k \in 1..n /\ k \in 0..MaxDepth
  BY <1>1, SourceStackAssumption DEF RefInv, Expressions, IsOwner
<1>3. h \in Int
  BY <1>1, <1>2 DEF Heap
<1>4. UNCHANGED <<src, NARG, CARG, REPTN>>
  BY DEF handle_shift
<1>5. heap' = heap \/ (h < maxmacparams /\ heap' = [heap EXCEPT ![k] = h + 1])
  BY <1>1, <1>2 DEF handle_shift, Heap
<1>6. CASE heap' = heap
  BY <1>4, <1>6, StutterOK
<1>7. CASE h < maxmacparams /\ heap' = [heap EXCEPT ![k] = h + 1]
  <2>1. heap' \in Heap
    BY <1>1, <1>2, <1>3, <1>7 DEF Heap
  <2>2. RefInv'
    BY <1>4, <2>1 DEF RefInv
  <2>3. /\ frames' \in Seq(Frame) /\ Len(frames') = n
        /\ \A i \in 1..n : frames'[i] = FrameOf(src[i], i, heap'[i])
    <3>1. frames' = FramesOf(src, heap')
      BY <1>4, FramesAreFramesNext
    <3> QED
      BY <1>1, <2>1, <3>1, FramesType
  <2> DEFINE old == frames[k]
             new == [old EXCEPT !.shift = old.shift + 1]
  <2>4. old \in Frame /\ old.shift = h
    BY <1>1, <1>2, FrameFields DEF IsOwner
  <2>5. new \in Frame
    BY <1>3, <2>4 DEF Frame
  <2>6. frames'[k] = new
    <3>1. frames'[k] = FrameOf(src[k], k, h + 1) /\ old = FrameOf(src[k], k, h)
      BY <1>1, <1>2, <1>7, <2>3 DEF Heap
    <3>2. /\ FrameOf(src[k], k, h + 1).shift = h + 1
          /\ FrameOf(src[k], k, h + 1).kind = FrameOf(src[k], k, h).kind
          /\ FrameOf(src[k], k, h + 1).iter = FrameOf(src[k], k, h).iter
          /\ FrameOf(src[k], k, h + 1).times = FrameOf(src[k], k, h).times
      <4>1. FrameOf(src[k], k, h + 1).shift = h + 1
        BY <1>2, FrameFields DEF IsOwner
      <4>2. FrameOf(src[k], k, h + 1).kind = FrameOf(src[k], k, h).kind
        BY FrameKindSame
      <4> QED
        BY <4>1, <4>2, FrameFields
    <3>3. FrameOf(src[k], k, h + 1) \in Frame
      BY <1>2, <2>3, <3>1
    <3> HIDE DEF old, h, k
    <3> QED
      BY <2>4, <3>1, <3>2, <3>3 DEF Frame
  <2> HIDE DEF new
  <2>7. /\ [frames EXCEPT ![k] = new] \in Seq(Frame)
        /\ Len([frames EXCEPT ![k] = new]) = n
        /\ \A i \in 1..n : [frames EXCEPT ![k] = new][i] = IF i = k THEN new ELSE frames[i]
    BY <1>1, <1>2, <2>5
  <2>8. \A i \in 1..n : i # k => heap'[i] = heap[i]
    BY <1>1, <1>7, SourceStackAssumption DEF Heap
  <2>9. \A i \in 1..n : frames'[i] = [frames EXCEPT ![k] = new][i]
    BY <1>1, <2>3, <2>6, <2>7, <2>8
  <2>10. frames' = [frames EXCEPT ![k] = new]
    BY <2>3, <2>7, <2>9, SeqEqual
  <2>11. Specified!Owner(frames) = k
    BY <1>1, <1>2, FramesOwner
  <2>12. Specified!Become(frames')
    BY <2>2, Shown
  <2>13. Specified!Shift
    BY <1>7, <2>4, <2>10, <2>11, <2>12 DEF Specified!Shift, new
  <2> QED
    BY <2>2, <2>13 DEF Refines, Specified!Next
<1> QED
  BY <1>5, <1>6, <1>7

(* A macro is called: its shift is 0, and its expression is none that is in *)
(* use, nor the one of NARG, which gets the number of arguments.            *)
LEMMA ExecuteMacroRef ==
  ASSUME RefInv, StackInv', NEW m \in Macros, NEW params \in 0..maxmacparams,
         execute_macro(m, params)
  PROVE  Refines
<1>1. CASE TooManyRecursions(m)
  BY <1>1, StutterOK DEF execute_macro, srcVars
<1>2. CASE ~TooManyRecursions(m)
  <2> DEFINE n == Len(src)
             caller == [cur_src EXCEPT !.cargexp = CARG, !.nargexp = NARG]
             called == [new_source(cur_src.reptn, clev) EXCEPT
                          !.macro = m, !.num_params = params]
             base == [src EXCEPT ![n] = caller]
             top == FrameOf(called, n + 1, heap'[n + 1])
  <2>1. /\ Stack(src) /\ src \in Seq(Source) /\ n \in Nat /\ n > 0 /\ n \in 1..n
        /\ cur_src = src[n] /\ cur_src \in Source /\ Fitting(cur_src)
        /\ Running(cur_src) /\ heap \in Heap /\ MaxDepth \in Nat
        /\ frames = FramesOf(src, heap)
        /\ Last(frames) = FrameOf(cur_src, n, heap[n])
    BY SourceFacts, SourceStackAssumption
  <2>2. /\ CARG \in Int /\ CARG # None /\ NARG = 0 /\ clev \in Int
        /\ Expressions(src, CARG) /\ REPTN = cur_src.reptn
    BY <2>1 DEF RefInv, StackInv, Expressions, IsOwner, None
  <2>3. n < MaxDepth /\ UNCHANGED REPTN
    BY <1>2 DEF execute_macro
  <2>4. /\ CARG' = n + 1 /\ NARG' = NARG
        /\ heap' = [heap EXCEPT ![n + 1] = 0, ![0] = params]
    BY <1>2, <2>2 DEF execute_macro, my_exec_macro, number_expr
  <2>5. src' = Append(base, called)
    BY <1>2, <2>1 DEF execute_macro
  <2>6. params \in Int
    BY Limits
  <2>7. /\ heap' \in Heap /\ heap'[n + 1] = 0
        /\ \A i \in 1..n : heap'[i] = heap[i]
    BY <2>1, <2>3, <2>4, <2>6 DEF Heap
  <2>8. /\ caller \in Source /\ caller.macro = cur_src.macro
        /\ caller.kind = cur_src.kind /\ caller.repeat = cur_src.repeat
        /\ caller.reptn = cur_src.reptn /\ caller.irpvals = cur_src.irpvals
        /\ caller.cargexp = CARG /\ caller.nargexp = 0
    <3>1. cur_src \in Source /\ CARG \in Int /\ NARG \in Int
      BY <2>1, <2>2
    <3>2. caller \in Source
      BY <3>1 DEF Source
    <3>3. caller.macro = cur_src.macro /\ caller.kind = cur_src.kind
      BY <3>1 DEF Source
    <3>4. caller.repeat = cur_src.repeat /\ caller.reptn = cur_src.reptn
      BY <3>1 DEF Source
    <3>5. caller.irpvals = cur_src.irpvals
      BY <3>1 DEF Source
    <3>6. caller.cargexp = CARG
      BY <3>1 DEF Source
    <3>7. caller.nargexp = NARG
      BY <3>1 DEF Source
    <3> QED
      BY <2>2, <3>2, <3>3, <3>4, <3>5, <3>6, <3>7
  <2>9. /\ called \in Source /\ called.macro = m /\ called.kind = "text"
        /\ called.repeat = 1 /\ called.reptn = cur_src.reptn
        /\ called.cargexp = None /\ called.nargexp = None
    <3>1. /\ new_source(cur_src.reptn, clev) \in Source
      BY <2>1, <2>2, NewSource DEF Source
    <3> QED
      BY <2>6, <3>1 DEF Source, new_source
  <2>10. m # NoMacro
    BY SourceStackAssumption
  <2>11. /\ base \in Seq(Source) /\ Len(base) = n
         /\ \A i \in 1..n : base[i] = IF i = n THEN caller ELSE src[i]
    BY <2>1, <2>8
  <2> HIDE DEF caller, called, base
  <2>12. Fitting(caller) /\ Running(caller) /\ Fitting(called) /\ Running(called)
    BY <2>1, <2>8, <2>9 DEF Fitting, Running
  <2>13. Stack(base)
    BY <2>1, <2>8, <2>12, ReplaceTop DEF base
  <2>14. Expressions(base, CARG)
    BY <2>1, <2>2, <2>8, ExpressionsReplace DEF base
  <2>15. base[Len(base)].cargexp # None
    BY <2>1, <2>2, <2>8, <2>11
  <2>16. Expressions(src', CARG')
    <3>1. Expressions(Append(base, called),
                      IF called.macro # NoMacro THEN Len(base) + 1 ELSE CARG)
      BY <2>9, <2>13, <2>14, <2>15, ExpressionsPush
    <3> QED
      BY <2>4, <2>5, <2>9, <2>10, <2>11, <3>1
  <2>17. /\ Len(src') = n + 1
         /\ \A i \in 1..(n + 1) : src'[i] = IF i = n + 1 THEN called ELSE base[i]
    BY <2>1, <2>5, <2>9, <2>11
  <2>18. \A i \in 1..(n + 1) : Running(src'[i])
    BY <2>1, <2>11, <2>12, <2>17 DEF RefInv
  <2>19. Len(src') <= MaxDepth
    BY <2>1, <2>3, <2>17
  <2>20. REPTN' = src'[Len(src')].reptn
    BY <2>1, <2>2, <2>3, <2>9, <2>17
  <2>21. RefInv'
    BY <2>2, <2>4, <2>7, <2>16, <2>17, <2>18, <2>19, <2>20 DEF RefInv
  <2>22. FramesOf(base, heap) = FramesOf(src, heap)
    <3>1. Len(base) <= MaxDepth /\ n <= MaxDepth
      BY <2>1, <2>3, <2>11
    <3>2. /\ FramesOf(base, heap) \in Seq(Frame) /\ Len(FramesOf(base, heap)) = n
          /\ \A i \in 1..n : FramesOf(base, heap)[i] = FrameOf(base[i], i, heap[i])
      BY <2>1, <2>11, <2>13, <3>1, FramesType
    <3>3. /\ FramesOf(src, heap) \in Seq(Frame) /\ Len(FramesOf(src, heap)) = n
          /\ \A i \in 1..n : FramesOf(src, heap)[i] = FrameOf(src[i], i, heap[i])
      BY <2>1, <3>1, FramesType
    <3>4. FrameOf(caller, n, heap[n]) = FrameOf(cur_src, n, heap[n])
      BY <2>8 DEF FrameOf
    <3>5. \A i \in 1..n : FramesOf(base, heap)[i] = FramesOf(src, heap)[i]
      BY <2>1, <2>11, <3>2, <3>3, <3>4
    <3> QED
      BY <3>2, <3>3, <3>5, SeqEqual
  <2>23. frames' = Append(frames, top)
    <3>1. FramesOf(Append(base, called), heap') =
            Append(FramesOf(base, heap),
                   FrameOf(called, Len(base) + 1, heap'[Len(base) + 1]))
      BY <2>1, <2>3, <2>7, <2>9, <2>11, <2>12, <2>13, FramesAppend
    <3>2. frames' = FramesOf(src', heap')
      BY FramesAreFramesNext
    <3> QED
      BY <2>1, <2>5, <2>11, <2>22, <3>1, <3>2
  <2>24. top = [kind |-> "macro", shift |-> 0, times |-> 1, iter |-> Last(frames).iter]
    <3>1. top.kind = "macro"
      BY <2>9, <2>10, <2>12, FrameKind
    <3>2. top.shift = 0 /\ top.iter = cur_src.reptn /\ top.times = 1
      BY <2>7, <2>9, <2>10, FrameFields
    <3>3. Last(frames).iter = cur_src.reptn
      BY <2>1, FrameFields
    <3> QED
      BY <3>1, <3>2, <3>3, Zenon DEF FrameOf
  <2>25. Specified!Become(frames') /\ "macro" \notin Specified!Loops
    BY <2>21, Shown DEF Specified!Loops
  <2>26. Last(frames) = Specified!Last(frames)
    BY DEF Last, Specified!Last
  <2>27. Specified!Enter("macro", 1)
    BY <2>23, <2>24, <2>25, <2>26, Zenon DEF Specified!Enter
  <2> QED
    BY <2>21, <2>27 DEF Refines, Specified!Next
<1> QED
  BY <1>1, <1>2

LEMMA InitRef == Init => RefInv /\ Specified!Init
<1> SUFFICES ASSUME Init PROVE RefInv /\ Specified!Init
  OBVIOUS
<1> DEFINE s == new_source(-1, clev)
<1>1. StackInv /\ MaxDepth \in Nat /\ MaxDepth > 0
  BY InitStackInv, SourceStackAssumption
<1>2. /\ s.macro = NoMacro /\ s.kind = "text" /\ s.repeat = 1 /\ s.reptn = -1
      /\ s.cargexp = None /\ s.nargexp = None
  BY DEF new_source
<1>3. src = <<s>> /\ heap = [e \in 0..MaxDepth |-> 0] /\ NARG = 0 /\ CARG = 1 /\ REPTN = -1
  BY DEF Init
<1> HIDE DEF s
<1>4. s \in Source /\ Len(src) = 1 /\ src[1] = s
  <2>1. src \in Seq(Source)
    BY <1>1 DEF StackInv, Stack
  <2>2. Len(src) = 1 /\ src[1] = s
    BY <1>3
  <2> QED
    BY <2>1, <2>2
<1>5. heap \in Heap /\ heap[1] = 0
  BY <1>1, <1>3 DEF Heap
<1>6. Expressions(src, CARG)
  BY <1>2, <1>3, <1>4 DEF Expressions, IsOwner
<1>7. Running(s)
  BY <1>2 DEF Running
<1>8. RefInv
  BY <1>1, <1>2, <1>3, <1>4, <1>5, <1>6, <1>7 DEF RefInv
<1>9. Fitting(s)
  BY <1>2 DEF Fitting
<1>10. FrameOf(s, 1, 0) = [kind |-> "text", shift |-> 0, iter |-> -1, times |-> 1]
  <2> DEFINE f == FrameOf(s, 1, 0)
  <2>1. f.kind = "text"
    BY <1>2, <1>4, <1>9, FrameKind
  <2>2. f.shift = 0 /\ f.iter = -1 /\ f.times = 1
    BY <1>2, FrameFields
  <2> QED
    BY <2>1, <2>2, Zenon DEF FrameOf
<1>11. /\ frames \in Seq(Frame) /\ Len(frames) = 1
       /\ frames[1] = FrameOf(s, 1, 0)
  BY <1>4, <1>5, <1>8, SourceFacts
<1>12. frames = <<FrameOf(s, 1, 0)>>
  BY <1>11
<1>13. Specified!Init
  BY <1>3, <1>5, <1>10, <1>12 DEF Specified!Init
<1> QED
  BY <1>8, <1>13

LEMMA StepRef == RefInv /\ [Next]_vars => Refines
<1> SUFFICES ASSUME RefInv, [Next]_vars PROVE Refines
  OBVIOUS
<1>0. StackInv'
  BY StepStackInv DEF RefInv
<1>1. CASE CondLine
  BY <1>0, <1>1, StutterOK DEF CondLine, srcVars
<1>2. ASSUME NEW m \in Macros, NEW params \in 0..maxmacparams,
             execute_macro(m, params)
      PROVE  Refines
  BY <1>0, <1>2, ExecuteMacroRef
<1>3. CASE include_source
  BY <1>0, <1>3, IncludeRef
<1>4. ASSUME NEW kind \in Kinds \ {"text"}, NEW cnt \in 0..MaxRept,
             start_repeat(kind, cnt)
      PROVE  Refines
  BY <1>0, <1>4, StartRepeatRef
<1>5. CASE handle_shift
  BY <1>0, <1>5, ShiftRef
<1>6. CASE leave_macro
  BY <1>0, <1>6, LeaveMacroRef
<1>7. ASSUME NEW v \in BOOLEAN, EndOfText(v)
      PROVE  Refines
  <2>1. CASE cur_src.repeat - 1 > 0 /\ cond_eval(v)
    BY <1>0, <1>7, <2>1, ReadAgainRef DEF EndOfText
  <2>2. CASE ~(cur_src.repeat - 1 > 0 /\ cond_eval(v))
    <3>1. ReturnToParent(Conditional /\ cond_eval(v))
      BY <1>7, <2>2 DEF EndOfText
    <3>2. (Conditional /\ cond_eval(v)) \in BOOLEAN
      OBVIOUS
    <3>3. cur_src.kind \in {"rept", "irp"} => cond_eval(v)
      BY DEF cond_eval
    <3> QED
      BY <1>0, <2>2, <3>1, <3>2, <3>3, ReturnRef
  <2> QED
    BY <2>1, <2>2
<1>8. CASE BadCondition
  <2>1. ReturnToParent(TRUE) /\ TRUE \in BOOLEAN
    BY <1>8 DEF BadCondition
  <2>2. cur_src.kind \notin {"rept", "irp"}
    BY <1>8 DEF BadCondition, Conditional
  <2> QED
    BY <1>0, <2>1, <2>2, ReturnRef
<1>9. CASE UNCHANGED vars
  BY <1>0, <1>9, StutterOK DEF vars, srcVars
<1> QED
  BY <1>1, <1>2, <1>3, <1>4, <1>5, <1>6, <1>7, <1>8, <1>9 DEF Next

(* source.c and the macros and repetitions of parse.c implement SourceSpec: *)
(* however macros, includes, blocks, shift and mexit follow one another, a  *)
(* line sees the arguments its own macro shifted out and the iteration of   *)
(* its own repetition, and a counted repetition is read as often as it says.*)
THEOREM SourceRefinement == Spec => ImplementsSourceSpec
<1>1. Init => RefInv /\ Specified!Init
  BY InitRef
<1>2. RefInv /\ [Next]_vars => RefInv' /\ [Specified!Next]_Specified!vars
  BY StepRef DEF Refines
<1> QED
  BY <1>1, <1>2, PTL DEF Spec, ImplementsSourceSpec, Specified!Spec

=============================================================================
