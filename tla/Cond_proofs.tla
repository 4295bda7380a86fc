---------------------------- MODULE Cond_proofs ----------------------------
(***************************************************************************)
(* Proofs about the conditional levels of cond.c, for every nesting limit   *)
(* and every set of values: their types and that a level is only opened     *)
(* inside levels that are assembled; and, with the blocks of CondHist, that *)
(* they implement CondSpec for sources in which a block that is skipped as a*)
(* whole has no elseif or case directive of its own (with them they do not: *)
(* see the run cond_ignored).                                               *)
(***************************************************************************)
EXTENDS CondHist, SequenceTheorems, TLAPS

(* The types, and room for one more level until the fatal error 65: what    *)
(* makes TypeOK inductive.                                                  *)
TypeInv ==
  /\ TypeOK
  /\ ~halted => clev < MAXCONDLEV

(* Opening a level keeps the types, whatever it stores. *)
LEMMA OpenLevelType ==
  ASSUME TypeInv, ~halted,
         NEW state \in {-1, 0, 1}, NEW value \in Values \cup {NoValue},
         NEW type \in {"if", "switch"},
         OpenLevel(state, value, type), errors' \in BOOLEAN
  PROVE  TypeInv'
<1>1. clev \in Nat /\ clev + 1 \in Levels /\ clev' = clev + 1
  BY CondAssumption DEF TypeInv, TypeOK, OpenLevel, Levels
<1>2. CASE TooDeep
  BY <1>1, <1>2 DEF TypeInv, TypeOK, OpenLevel
<1>3. CASE ~TooDeep
  <2>1. clev' < MAXCONDLEV
    BY <1>1, <1>3, CondAssumption DEF TooDeep
  <2>2. cond' \in [Levels -> {-1, 0, 1}]
    BY <1>1, <1>3 DEF TypeInv, TypeOK, OpenLevel
  <2>3. condeval' \in [Levels -> Values \cup {NoValue}]
    BY <1>1, <1>3 DEF TypeInv, TypeOK, OpenLevel
  <2>4. condtype' \in [Levels -> {"if", "switch"}]
    BY <1>1, <1>3 DEF TypeInv, TypeOK, OpenLevel
  <2> QED
    BY <1>1, <1>3, <2>1, <2>2, <2>3, <2>4 DEF TypeInv, TypeOK, OpenLevel
<1> QED
  BY <1>2, <1>3

(* Level 0 is always assembled; with it ParentsAssembled is inductive. *)
LevelInv ==
  /\ TypeInv
  /\ cond[0] = 1
  /\ ParentsAssembled

LEMMA InitLevelInv == Init => LevelInv
<1> SUFFICES ASSUME Init PROVE LevelInv
  OBVIOUS
<1>1. clev = 0 /\ 0 \in Levels /\ 0 < MAXCONDLEV /\ MAXCONDLEV \in Nat
  BY CondAssumption DEF Init, cond_init, Levels
<1>2. cond \in [Levels -> {-1, 0, 1}] /\ cond[0] = 1
  BY <1>1 DEF Init, cond_init
<1>3. /\ condeval \in [Levels -> Values \cup {NoValue}]
      /\ condtype \in [Levels -> {"if", "switch"}]
  BY DEF Init, cond_init
<1>4. ifnesting \in Nat /\ errors \in BOOLEAN /\ halted \in BOOLEAN
  BY DEF Init, cond_init
<1>5. TypeInv
  BY <1>1, <1>2, <1>3, <1>4 DEF TypeInv, TypeOK, Levels
<1>6. ParentsAssembled
  BY <1>1 DEF ParentsAssembled
<1> QED
  BY <1>2, <1>5, <1>6 DEF LevelInv

(* A level is opened only in an assembled block, which becomes its parent. *)
LEMMA OpenLevelInv ==
  ASSUME LevelInv, ~halted, cond_state,
         NEW state \in {-1, 0, 1}, NEW value \in Values \cup {NoValue},
         NEW type \in {"if", "switch"},
         OpenLevel(state, value, type), errors' \in BOOLEAN
  PROVE  LevelInv'
<1>1. TypeInv'
  BY OpenLevelType DEF LevelInv
<1>2. /\ clev \in Nat /\ clev + 1 \in Levels /\ clev' = clev + 1
      /\ MAXCONDLEV \in Nat
  BY CondAssumption DEF LevelInv, TypeInv, TypeOK, OpenLevel, Levels
<1>3. cond[clev] = 1
  BY <1>2 DEF LevelInv, TypeInv, TypeOK, cond_state, Levels
<1>4. \A l \in 0..clev : cond'[l] = cond[l]
  <2>1. CASE TooDeep
    BY <2>1 DEF OpenLevel
  <2>2. CASE ~TooDeep
    <3>1. cond' = [cond EXCEPT ![clev + 1] = state]
      BY <2>2 DEF OpenLevel
    <3>2. \A l \in 0..clev : l \in Levels /\ l # clev + 1
      BY <1>2 DEF Levels
    <3> QED
      BY <3>1, <3>2 DEF LevelInv, TypeInv, TypeOK
  <2> QED
    BY <2>1, <2>2
<1>5. \A l \in 0..clev : cond[l] = 1
  BY <1>2, <1>3 DEF LevelInv, ParentsAssembled
<1> QED
  BY <1>1, <1>2, <1>4, <1>5 DEF LevelInv, ParentsAssembled

(* A directive of the innermost block changes that block's state only. *)
LEMMA SetLevelInv ==
  ASSUME LevelInv, ~halted, clev > 0, NEW state \in {-1, 0, 1},
         cond' = [cond EXCEPT ![clev] = state],
         UNCHANGED <<clev, condeval, condtype, ifnesting, halted>>,
         errors' \in BOOLEAN
  PROVE  LevelInv'
  BY DEF LevelInv, TypeInv, TypeOK, ParentsAssembled, Levels

LEMMA NextLevelInv == LevelInv /\ [Next]_vars => LevelInv'
<1> SUFFICES ASSUME LevelInv, [Next]_vars PROVE LevelInv'
  OBVIOUS
<1> USE DEF Flag
<1>t. /\ errors \in BOOLEAN /\ clev \in Levels /\ clev \in Nat
      /\ cond \in [Levels -> {-1, 0, 1}] /\ MAXCONDLEV \in Nat
  BY CondAssumption DEF LevelInv, TypeInv, TypeOK, Levels
<1>s. ~cond_state => clev > 0
  BY <1>t DEF LevelInv, cond_state
<1>1. ASSUME NEW flag \in BOOLEAN, IfLine(flag) PROVE LevelInv'
  <2>1. CASE cond_state
    BY <1>1, <1>t, <2>1, OpenLevelInv DEF IfLine, cond_if, TooDeep, NoValue
  <2>2. CASE ~cond_state
    BY <1>1, <2>2
    DEF IfLine, cond_skipif, levelVars, LevelInv, TypeInv, TypeOK,
        ParentsAssembled
  <2> QED
    BY <2>1, <2>2
<1>2. ASSUME NEW val \in Values, SwitchLine(val) PROVE LevelInv'
  <2>1. CASE cond_state
    BY <1>2, <1>t, <2>1, OpenLevelInv DEF SwitchLine, cond_switch, TooDeep
  <2>2. CASE ~cond_state
    BY <1>2, <2>2
    DEF SwitchLine, cond_skipif, levelVars, LevelInv, TypeInv, TypeOK,
        ParentsAssembled
  <2> QED
    BY <2>1, <2>2
<1>3. ASSUME ~halted, cond_skipelse PROVE LevelInv'
  <2>1. CASE clev > 0
    BY <1>3, <1>t, <2>1, SetLevelInv DEF cond_skipelse
  <2>2. CASE ~(clev > 0)
    BY <1>3, <2>2
    DEF cond_skipelse, general_error, LevelInv, TypeInv, TypeOK,
        ParentsAssembled
  <2> QED
    BY <2>1, <2>2
<1>4. ASSUME ~halted, NEW flag \in BOOLEAN, cond_elseif(flag) PROVE LevelInv'
  <2>1. CASE clev > 0
    BY <1>4, <1>t, <2>1, SetLevelInv DEF cond_elseif
  <2>2. CASE ~(clev > 0)
    BY <1>4, <2>2
    DEF cond_elseif, general_error, LevelInv, TypeInv, TypeOK,
        ParentsAssembled
  <2> QED
    BY <2>1, <2>2
<1>5. CASE ElseLine
  <2>1. CASE cond_state
    BY <1>3, <1>5, <2>1 DEF ElseLine
  <2>2. CASE ~cond_state /\ ifnesting = 0
    BY <1>5, <1>s, <1>t, <2>2, SetLevelInv DEF ElseLine, cond_else
  <2>3. CASE ~cond_state /\ ifnesting # 0
    BY <1>5, <2>3
    DEF ElseLine, cond_else, LevelInv, TypeInv, TypeOK, ParentsAssembled
  <2> QED
    BY <2>1, <2>2, <2>3
<1>6. ASSUME NEW flag \in BOOLEAN, ElseifLine(flag) PROVE LevelInv'
  <2>1. CASE ~cond_state /\ cond_type = "if"
    <3>1. ~halted /\ cond_elseif(flag)
      BY <1>6, <2>1 DEF ElseifLine
    <3> QED
      BY <1>4, <3>1
  <2>2. CASE ~(~cond_state /\ cond_type = "if")
    <3>1. ~halted /\ cond_skipelse
      BY <1>6, <2>2 DEF ElseifLine
    <3> QED
      BY <1>3, <3>1
  <2> QED
    BY <2>1, <2>2
<1>7. ASSUME NEW vals \in SUBSET Values, CaseLine(vals) PROVE LevelInv'
  <2>1. CASE ~cond_state /\ cond_type = "switch"
    <3>1. ~halted /\ cond_elseif(eval_case(vals)) /\ eval_case(vals) \in BOOLEAN
      BY <1>7, <2>1 DEF CaseLine, eval_case
    <3> QED
      BY <1>4, <3>1
  <2>2. CASE ~(~cond_state /\ cond_type = "switch")
    <3>1. ~halted /\ cond_skipelse
      BY <1>7, <2>2 DEF CaseLine
    <3> QED
      BY <1>3, <3>1
  <2> QED
    BY <2>1, <2>2
<1>8. CASE EndifLine
  <2>1. clev' \in 0..clev /\ clev' \in Levels /\ errors' \in BOOLEAN
    <3>1. clev' = clev \/ (clev > 0 /\ clev' = clev - 1)
      BY <1>8 DEF EndifLine, cond_endif
    <3>2. errors' \in BOOLEAN
      BY <1>8, <1>t DEF EndifLine, cond_endif, general_error
    <3> QED
      BY <1>t, <3>1, <3>2 DEF Levels
  <2>2. ifnesting' \in Nat
    BY <1>8 DEF EndifLine, cond_endif, LevelInv, TypeInv, TypeOK
  <2>3. UNCHANGED <<cond, condeval, condtype, halted>>
    BY <1>8 DEF EndifLine, cond_endif
  <2>4. TypeInv'
    BY <1>t, <2>1, <2>2, <2>3 DEF LevelInv, TypeInv, TypeOK, Levels
  <2> QED
    <3>1. ASSUME NEW k \in 0..clev PROVE \A l \in 0..k - 1 : l \in 0..clev - 1
      BY <1>t
    <3>2. ParentsAssembled /\ cond[0] = 1 /\ cond' = cond
      BY <2>3 DEF LevelInv
    <3>3. ParentsAssembled'
      BY <2>1, <3>1, <3>2 DEF ParentsAssembled
    <3> QED
      BY <2>4, <3>2, <3>3 DEF LevelInv
<1>9. CASE BadIfLine
  BY <1>9, OpenLevelInv DEF BadIfLine, general_error, NoValue
<1>10. CASE BadOpenLine
  BY <1>10
  DEF BadOpenLine, general_error, condVars, LevelInv, TypeInv, TypeOK,
      ParentsAssembled
<1>11. CASE BadElseifLine
  BY <1>11, <1>s, <1>t, SetLevelInv DEF BadElseifLine, general_error
<1>12. CASE cond_check
  BY <1>12, <1>t
  DEF cond_check, condVars, LevelInv, TypeInv, TypeOK, ParentsAssembled
<1>13. CASE UNCHANGED vars
  BY <1>13 DEF vars, LevelInv, TypeInv, TypeOK, ParentsAssembled
<1> QED
  BY <1>1, <1>2, <1>5, <1>6, <1>7, <1>8, <1>9, <1>10, <1>11, <1>12, <1>13
  DEF Next

THEOREM LevelsInvariant == Spec => []LevelInv
<1>1. Init => LevelInv
  BY InitLevelInv
<1>2. LevelInv /\ [Next]_vars => LevelInv'
  BY NextLevelInv
<1> QED
  BY <1>1, <1>2, PTL DEF Spec

(* The type invariant of the conditional levels: the arrays of cond.c are   *)
(* never indexed outside 0..MAXCONDLEV, whatever directives the source has. *)
THEOREM TypeCorrect == Spec => []TypeOK
<1>1. LevelInv => TypeOK
  BY DEF LevelInv, TypeInv
<1> QED
  BY <1>1, LevelsInvariant, PTL

(* Closing a block always returns to a block that is being assembled. *)
THEOREM ParentsAlwaysAssembled == Spec => []ParentsAssembled
<1>1. LevelInv => ParentsAssembled
  BY DEF LevelInv
<1> QED
  BY <1>1, LevelsInvariant, PTL

-----------------------------------------------------------------------------
(***************************************************************************)
(* The operators on the stack of blocks.                                    *)
(***************************************************************************)
LEMMA OpenFrames ==
  ASSUME NEW fs \in Seq(Abstract!Frame), NEW kind \in {"if", "switch"},
         NEW value \in Values \cup {-1}, NEW flag
  PROVE  LET gs == Abstract!Open(fs, kind, value, flag) IN
         /\ gs \in Seq(Abstract!Frame)
         /\ Len(gs) = Len(fs) + 1
         /\ \A i \in 1..Len(fs) : gs[i] = fs[i]
         /\ gs[Len(fs) + 1].kind = kind
         /\ gs[Len(fs) + 1].value = value
         /\ gs[Len(fs) + 1].state = Abstract!FirstState(fs, flag)
<1> DEFINE f == [kind |-> kind, value |-> value,
                 state |-> Abstract!FirstState(fs, flag)]
<1>1. Abstract!FirstState(fs, flag) \in Abstract!BranchState
  BY DEF Abstract!FirstState, Abstract!BranchState
<1>2. /\ f \in Abstract!Frame
      /\ f.kind = kind /\ f.value = value
      /\ f.state = Abstract!FirstState(fs, flag)
  BY <1>1 DEF Abstract!Frame
<1>3. Abstract!Open(fs, kind, value, flag) = Append(fs, f)
  BY DEF Abstract!Open
<1> HIDE DEF f
<1>4. /\ Append(fs, f) \in Seq(Abstract!Frame)
      /\ Len(Append(fs, f)) = Len(fs) + 1
      /\ \A i \in 1..Len(fs) : Append(fs, f)[i] = fs[i]
      /\ Append(fs, f)[Len(fs) + 1] = f
  BY <1>2
<1> QED
  BY <1>2, <1>3, <1>4

(* Any new state of the innermost block. *)
LEMMA TopFrames ==
  ASSUME NEW fs \in Seq(Abstract!Frame), fs # <<>>,
         NEW st \in Abstract!BranchState
  PROVE  LET gs == [fs EXCEPT ![Len(fs)].state = st] IN
         /\ gs \in Seq(Abstract!Frame)
         /\ Len(gs) = Len(fs)
         /\ \A i \in 1..Len(fs) : i # Len(fs) => gs[i] = fs[i]
         /\ gs[Len(fs)].kind = fs[Len(fs)].kind
         /\ gs[Len(fs)].value = fs[Len(fs)].value
         /\ gs[Len(fs)].state = st
<1> DEFINE n == Len(fs)
           f == [fs[n] EXCEPT !.state = st]
           gs == [fs EXCEPT ![n] = f]
<1>1. n \in Nat \ {0} /\ n \in 1..Len(fs) /\ fs[n] \in Abstract!Frame
  OBVIOUS
<1>2. /\ f \in Abstract!Frame
      /\ f.kind = fs[n].kind /\ f.value = fs[n].value /\ f.state = st
  BY <1>1 DEF Abstract!Frame
<1>3. [fs EXCEPT ![Len(fs)].state = st] = gs
  BY <1>1
<1> HIDE DEF f
<1>4. gs \in Seq(Abstract!Frame) /\ Len(gs) = n
  BY <1>1, <1>2
<1>5. gs[n] = f /\ \A i \in 1..Len(fs) : i # n => gs[i] = fs[i]
  BY <1>1
<1> QED
  BY <1>2, <1>3, <1>4, <1>5

LEMMA CloseFrames ==
  ASSUME NEW fs \in Seq(Abstract!Frame), fs # <<>>
  PROVE  /\ Abstract!Close(fs) \in Seq(Abstract!Frame)
         /\ Len(Abstract!Close(fs)) = Len(fs) - 1
         /\ \A i \in 1..Len(fs) - 1 : Abstract!Close(fs)[i] = fs[i]
<1>1. /\ Len(fs) \in Nat \ {0} /\ 1 \in Int /\ Len(fs) - 1 \in Int
      /\ \A i \in 1..Len(fs) - 1 : fs[i] \in Abstract!Frame
  OBVIOUS
<1> DEFINE n == Len(fs) - 1
           gs == SubSeq(fs, 1, n)
<1>2. /\ gs \in Seq(Abstract!Frame)
      /\ Len(gs) = IF 1 <= n THEN n - 1 + 1 ELSE 0
      /\ \A i \in 1..n - 1 + 1 : gs[i] = fs[1 + i - 1]
  BY <1>1, SubSeqProperties
<1>3. gs = Abstract!Close(fs)
  BY DEF Abstract!Close
<1>4. n \in Nat /\ n = Len(fs) - 1
  BY <1>1
<1> HIDE DEF gs, n
<1>5. Len(gs) = n
  BY <1>2, <1>4
<1>6. \A i \in 1..n : gs[i] = fs[i]
  BY <1>2, <1>4
<1> QED
  BY <1>2, <1>3, <1>4, <1>5, <1>6

(***************************************************************************)
(* The inductive invariant: the levels are well formed, the stack is one of *)
(* CondSpec's, and the two are linked until an error is reported.           *)
(***************************************************************************)
HistInv ==
  /\ LevelInv
  /\ ~errors => frames \in Seq(Abstract!Frame)
  /\ Linked

(* Linked with its error guard taken off. *)
Link ==
  /\ Len(frames) = clev + ifnesting
  /\ LevelsAreFrames
  /\ IgnoredAreDead
  /\ ifnesting > 0 => ~cond_state

(* What the states of the levels are, and where an ignored block can be. *)
LEMMA LevelFacts ==
  ASSUME HistInv, ~errors
  PROVE  /\ Link
         /\ clev \in Nat /\ ifnesting \in Nat /\ clev \in Levels
         /\ cond \in [Levels -> {-1, 0, 1}]
         /\ Len(frames) \in Nat
         /\ \A l \in 0..clev : l \in Levels /\ cond[l] \in {-1, 0, 1}
         /\ cond_state = (cond[clev] = 1)
         /\ cond_state => ifnesting = 0
         /\ ~cond_state => clev > 0
<1>1. /\ clev \in Nat /\ ifnesting \in Nat /\ clev \in Levels
      /\ cond \in [Levels -> {-1, 0, 1}] /\ MAXCONDLEV \in Nat
      /\ cond[0] = 1
  BY CondAssumption DEF HistInv, LevelInv, TypeInv, TypeOK, Levels
<1>2. \A l \in 0..clev : l \in Levels /\ cond[l] \in {-1, 0, 1}
  BY <1>1 DEF Levels
<1>3. cond_state = (cond[clev] = 1)
  BY <1>1, <1>2 DEF cond_state
<1>4. Link
  BY DEF HistInv, Linked, Link
<1>5. cond_state => ifnesting = 0
  <2>1. ifnesting = 0 \/ ifnesting > 0
    BY <1>1
  <2> QED
    BY <1>4, <2>1 DEF Link
<1>6. ~cond_state => clev > 0
  BY <1>1 DEF cond_state
<1>7. Len(frames) \in Nat
  BY DEF HistInv
<1> QED
  BY <1>1, <1>2, <1>3, <1>4, <1>5, <1>6, <1>7

(* A line is assembled exactly when every branch around it is selected. *)
LEMMA StateIsAllLive ==
  ASSUME HistInv, ~errors
  PROVE  cond_state <=> Abstract!AllLive(frames)
<1>1. DOMAIN frames = 1..Len(frames) /\ Len(frames) \in Nat
  BY DEF HistInv
<1>2. CASE cond_state
  <2>1. /\ Len(frames) = clev
        /\ \A l \in 1..clev : frames[l].state = StateOf(cond[l])
    BY <1>2, LevelFacts DEF Link, LevelsAreFrames
  <2>2. \A l \in 1..clev : cond[l] = 1
    <3>1. \A l \in 0..clev - 1 : cond[l] = 1
      BY DEF HistInv, LevelInv, ParentsAssembled
    <3> QED
      BY <1>2, <3>1, LevelFacts
  <2> QED
    BY <1>1, <1>2, <2>1, <2>2 DEF Abstract!AllLive, StateOf
<1>3. CASE ~cond_state
  <2>1. clev \in 1..Len(frames) /\ frames[clev].state = StateOf(cond[clev])
    BY <1>3, LevelFacts DEF Link, LevelsAreFrames
  <2>2. cond[clev] # 1
    BY <1>3, LevelFacts DEF cond_state
  <2>3. frames[clev].state # "selected"
    BY <2>1, <2>2 DEF StateOf
  <2>4. ~Abstract!AllLive(frames)
    BY <1>1, <2>1, <2>3 DEF Abstract!AllLive
  <2> QED
    BY <1>3, <2>4
<1> QED
  BY <1>2, <1>3

(***************************************************************************)
(* The link is kept by each way a line can change levels and stack.         *)
(***************************************************************************)
LinkInv == frames \in Seq(Abstract!Frame) /\ Linked

(* A new level on the assembler's side, a new block on the stack. *)
LEMMA OpenUpdate ==
  ASSUME HistInv, ~errors, cond_state, ~TooDeep,
         NEW kind \in {"if", "switch"}, NEW value \in Values \cup {-1},
         NEW flag \in BOOLEAN, NEW state, state = IF flag THEN 1 ELSE 0,
         OpenLevel(state, value, kind),
         frames' = Abstract!Open(frames, kind, value, flag)
  PROVE  LinkInv'
<1>1. /\ Link /\ clev \in Nat /\ ifnesting = 0
      /\ clev + 1 \in Levels /\ MAXCONDLEV \in Nat
      /\ Len(frames) = clev
  BY LevelFacts, CondAssumption DEF Link, TooDeep, Levels
<1>2. /\ clev' = clev + 1 /\ ifnesting' = 0
      /\ cond' = [cond EXCEPT ![clev + 1] = state]
      /\ condeval' = [condeval EXCEPT ![clev + 1] = value]
      /\ condtype' = [condtype EXCEPT ![clev + 1] = kind]
  BY <1>1 DEF OpenLevel
<1>3. /\ cond \in [Levels -> {-1, 0, 1}]
      /\ condeval \in [Levels -> Values \cup {NoValue}]
      /\ condtype \in [Levels -> {"if", "switch"}]
  BY DEF HistInv, LevelInv, TypeInv, TypeOK
<1>4. /\ frames' \in Seq(Abstract!Frame)
      /\ Len(frames') = clev + 1
      /\ \A i \in 1..clev : frames'[i] = frames[i]
      /\ frames'[clev + 1].kind = kind
      /\ frames'[clev + 1].value = value
      /\ frames'[clev + 1].state = Abstract!FirstState(frames, flag)
  <2>1. /\ frames' \in Seq(Abstract!Frame)
        /\ Len(frames') = Len(frames) + 1
        /\ \A i \in 1..Len(frames) : frames'[i] = frames[i]
        /\ frames'[Len(frames) + 1].kind = kind
        /\ frames'[Len(frames) + 1].value = value
        /\ frames'[Len(frames) + 1].state = Abstract!FirstState(frames, flag)
    BY OpenFrames, SMTT(30) DEF HistInv
  <2> QED
    BY <1>1, <2>1
<1>5. frames'[clev + 1].state = StateOf(state)
  <2>1. Abstract!AllLive(frames)
    BY StateIsAllLive
  <2> QED
    BY <1>4, <2>1 DEF StateOf, Abstract!FirstState
<1>6. \A l \in 1..clev : /\ cond'[l] = cond[l]
                         /\ condeval'[l] = condeval[l]
                         /\ condtype'[l] = condtype[l]
  <2>1. \A l \in 1..clev : l \in Levels /\ l # clev + 1
    BY <1>1 DEF Levels
  <2> QED
    BY <1>2, <1>3, <2>1
<1>7. /\ cond'[clev + 1] = state /\ condeval'[clev + 1] = value
      /\ condtype'[clev + 1] = kind
  BY <1>1, <1>2, <1>3
<1>8. \A l \in 1..clev + 1 : /\ frames'[l].kind = condtype'[l]
                             /\ frames'[l].value = condeval'[l]
                             /\ frames'[l].state = StateOf(cond'[l])
  <2>1. ASSUME NEW l \in 1..clev
        PROVE  /\ frames'[l].kind = condtype'[l]
               /\ frames'[l].value = condeval'[l]
               /\ frames'[l].state = StateOf(cond'[l])
    BY <1>1, <1>4, <1>6 DEF Link, LevelsAreFrames
  <2>2. \A l \in 1..clev + 1 : l \in 1..clev \/ l = clev + 1
    BY <1>1
  <2> QED
    BY <1>4, <1>5, <1>7, <2>1, <2>2
<1>9. LevelsAreFrames'
  <2>1. 1..clev' = 1..clev + 1
    BY <1>2
  <2> QED
    BY <1>8, <2>1 DEF LevelsAreFrames
<1>10. IgnoredAreDead'
  BY <1>1, <1>2, <1>4 DEF IgnoredAreDead
<1> QED
  BY <1>1, <1>2, <1>4, <1>9, <1>10 DEF LinkInv, Linked

(* One more ignored block. *)
LEMMA SkipUpdate ==
  ASSUME HistInv, ~errors, ~cond_state,
         NEW kind \in {"if", "switch"}, NEW value \in Values \cup {-1},
         NEW flag \in BOOLEAN,
         ifnesting' = ifnesting + 1, UNCHANGED levelVars,
         frames' = Abstract!Open(frames, kind, value, flag)
  PROVE  LinkInv'
<1>1. /\ Link /\ clev \in Nat /\ ifnesting \in Nat
      /\ Len(frames) \in Nat /\ Len(frames) = clev + ifnesting
  BY LevelFacts DEF Link
<1>2. UNCHANGED <<clev, cond, condeval, condtype>>
  BY DEF levelVars
<1>3. /\ frames' \in Seq(Abstract!Frame)
      /\ Len(frames') = Len(frames) + 1
      /\ \A i \in 1..Len(frames) : frames'[i] = frames[i]
      /\ frames'[Len(frames) + 1].state = Abstract!FirstState(frames, flag)
  BY OpenFrames DEF HistInv
<1>4. frames'[Len(frames) + 1].state = "done"
  <2>1. ~Abstract!AllLive(frames)
    BY StateIsAllLive
  <2> QED
    BY <1>3, <2>1 DEF Abstract!FirstState
<1>5. \A l \in 1..clev : l \in 1..Len(frames)
  BY <1>1
<1>6. LevelsAreFrames'
  BY <1>1, <1>2, <1>3, <1>5 DEF Link, LevelsAreFrames
<1>7. \A l \in clev + 1..Len(frames) + 1 :
        (l \in clev + 1..Len(frames) /\ l \in 1..Len(frames))
        \/ l = Len(frames) + 1
  BY <1>1
<1>8. IgnoredAreDead'
  BY <1>1, <1>2, <1>3, <1>4, <1>7 DEF Link, IgnoredAreDead
<1> QED
  BY <1>1, <1>2, <1>3, <1>6, <1>8 DEF LinkInv, Linked, cond_state

(* The innermost level and the innermost block get a new state. *)
LEMMA TopUpdate ==
  ASSUME HistInv, ~errors, ifnesting = 0, clev > 0,
         NEW state \in {-1, 0, 1},
         cond' = [cond EXCEPT ![clev] = state],
         UNCHANGED <<clev, condeval, condtype, ifnesting>>,
         frames' = [frames EXCEPT ![Len(frames)].state = StateOf(state)]
  PROVE  LinkInv'
<1>1. /\ Link /\ clev \in Nat /\ clev \in Levels
      /\ Len(frames) = clev /\ frames # <<>>
      /\ cond \in [Levels -> {-1, 0, 1}]
      /\ frames \in Seq(Abstract!Frame)
  BY LevelFacts DEF Link, HistInv
<1>2. /\ frames' \in Seq(Abstract!Frame)
      /\ Len(frames') = Len(frames)
      /\ \A i \in 1..Len(frames) : i # Len(frames) => frames'[i] = frames[i]
      /\ frames'[Len(frames)].kind = frames[Len(frames)].kind
      /\ frames'[Len(frames)].value = frames[Len(frames)].value
      /\ frames'[Len(frames)].state = StateOf(state)
  <2>1. StateOf(state) \in Abstract!BranchState
    BY DEF StateOf, Abstract!BranchState
  <2> QED
    BY <1>1, <2>1, TopFrames
<1>3. cond'[clev] = state /\ \A l \in 1..clev : l # clev => cond'[l] = cond[l]
  <2>1. \A l \in 1..clev : l \in Levels
    BY <1>1, LevelFacts
  <2> QED
    BY <1>1, <2>1
<1>4. ASSUME NEW l \in 1..clev
      PROVE  /\ frames'[l].kind = condtype[l]
             /\ frames'[l].value = condeval[l]
             /\ frames'[l].state = StateOf(cond'[l])
  <2>1. CASE l = clev
    BY <1>1, <1>2, <1>3, <2>1 DEF Link, LevelsAreFrames
  <2>2. CASE l # clev
    BY <1>1, <1>2, <1>3, <2>2 DEF Link, LevelsAreFrames
  <2> QED
    BY <2>1, <2>2
<1>5. LevelsAreFrames'
  BY <1>4 DEF LevelsAreFrames
<1>6. IgnoredAreDead'
  BY <1>1, <1>2 DEF IgnoredAreDead
<1> QED
  BY <1>1, <1>2, <1>5, <1>6 DEF LinkInv, Linked

(* A branch of an ignored block: it was done with and stays so. *)
LEMMA IgnoredUpdate ==
  ASSUME HistInv, ~errors, ifnesting > 0,
         UNCHANGED <<levelVars, ifnesting>>,
         frames' = [frames EXCEPT ![Len(frames)].state = "done"]
  PROVE  LinkInv'
<1>1. /\ Link /\ clev \in Nat /\ ifnesting \in Nat /\ Len(frames) \in Nat
      /\ Len(frames) = clev + ifnesting /\ frames # <<>>
      /\ frames \in Seq(Abstract!Frame) /\ ~cond_state
  BY LevelFacts DEF Link, HistInv
<1>2. /\ frames' \in Seq(Abstract!Frame)
      /\ Len(frames') = Len(frames)
      /\ \A i \in 1..Len(frames) : i # Len(frames) => frames'[i] = frames[i]
      /\ frames'[Len(frames)].state = "done"
  BY <1>1, TopFrames DEF Abstract!BranchState
<1>3. UNCHANGED <<clev, cond, condeval, condtype>>
  BY DEF levelVars
<1>4. \A l \in 1..clev : l \in 1..Len(frames) /\ l # Len(frames)
  BY <1>1
<1>5. LevelsAreFrames'
  BY <1>1, <1>2, <1>3, <1>4 DEF Link, LevelsAreFrames
<1>6. \A l \in clev + 1..Len(frames) : l \in 1..Len(frames)
  BY <1>1
<1>7. IgnoredAreDead'
  BY <1>1, <1>2, <1>3, <1>6 DEF Link, IgnoredAreDead
<1> QED
  BY <1>1, <1>2, <1>3, <1>5, <1>7 DEF LinkInv, Linked, cond_state

(* The end of a block: of an ignored one if there is any. *)
LEMMA CloseUpdate ==
  ASSUME HistInv, ~errors, cond_endif, ~errors',
         frames' = IF frames = <<>> THEN frames ELSE Abstract!Close(frames)
  PROVE  LinkInv'
<1>1. /\ Link /\ clev \in Nat /\ ifnesting \in Nat /\ Len(frames) \in Nat
      /\ Len(frames) = clev + ifnesting
      /\ frames \in Seq(Abstract!Frame)
  BY LevelFacts DEF Link, HistInv
<1>2. UNCHANGED <<cond, condeval, condtype>>
  BY DEF cond_endif
<1>3. \/ ifnesting > 0 /\ ifnesting' = ifnesting - 1 /\ clev' = clev
      \/ ifnesting = 0 /\ ifnesting' = 0 /\ clev > 0 /\ clev' = clev - 1
  BY <1>1 DEF cond_endif, general_error
<1>4. frames # <<>>
  BY <1>1, <1>3
<1>5. /\ frames' \in Seq(Abstract!Frame)
      /\ Len(frames') = Len(frames) - 1
      /\ \A i \in 1..Len(frames) - 1 : frames'[i] = frames[i]
  BY <1>1, <1>4, CloseFrames
<1>6. CASE ifnesting > 0
  <2>1. ifnesting' = ifnesting - 1 /\ clev' = clev
    BY <1>3, <1>6
  <2>2. \A l \in 1..clev : l \in 1..Len(frames) - 1
    BY <1>1, <1>6
  <2>3. LevelsAreFrames'
    BY <1>1, <1>2, <1>5, <2>1, <2>2 DEF Link, LevelsAreFrames
  <2>4. \A l \in clev + 1..Len(frames) - 1 :
          l \in clev + 1..Len(frames) /\ l \in 1..Len(frames) - 1
    BY <1>1
  <2>5. IgnoredAreDead'
    BY <1>1, <1>5, <2>1, <2>4 DEF Link, IgnoredAreDead
  <2>6. ~cond_state'
    BY <1>1, <1>2, <1>6, <2>1 DEF Link, cond_state
  <2> QED
    BY <1>1, <1>5, <2>1, <2>3, <2>5, <2>6 DEF LinkInv, Linked
<1>7. CASE ifnesting = 0
  <2>1. ifnesting' = 0 /\ clev > 0 /\ clev' = clev - 1
    BY <1>3, <1>7
  <2>2. \A l \in 1..clev - 1 : l \in 1..clev /\ l \in 1..Len(frames) - 1
    BY <1>1, <1>7
  <2>3. LevelsAreFrames'
    BY <1>1, <1>2, <1>5, <2>1, <2>2 DEF Link, LevelsAreFrames
  <2>4. IgnoredAreDead'
    BY <1>1, <1>5, <1>7, <2>1 DEF IgnoredAreDead
  <2> QED
    BY <1>1, <1>5, <1>7, <2>1, <2>3, <2>4 DEF LinkInv, Linked
<1> QED
  BY <1>1, <1>6, <1>7

(***************************************************************************)
(* One line of a source without errors: the stack moves as CondSpec says    *)
(* and stays linked to the levels.                                          *)
(***************************************************************************)
LineOK ==
  /\ LinkInv'
  /\ \/ frames' \in Abstract!FramesAfter(frames)
     \/ UNCHANGED <<cond_state, frames>>

LEMMA IfOK ==
  ASSUME HistInv, ~errors, ~errors', NEW flag \in BOOLEAN, HIf(flag)
  PROVE  LineOK
<1>1. frames' = Abstract!Open(frames, "if", -1, flag) /\ IfLine(flag)
  BY DEF HIf
<1>2. frames' \in Abstract!FramesAfter(frames)
  BY <1>1 DEF Abstract!FramesAfter
<1>3. CASE cond_state
  <2>1. OpenLevel(IF flag THEN 1 ELSE 0, -1, "if") /\ ~TooDeep
    BY <1>1, <1>3 DEF IfLine, cond_if, Flag, NoValue
  <2> QED
    BY <1>1, <1>2, <1>3, <2>1, OpenUpdate DEF LineOK
<1>4. CASE ~cond_state
  <2>1. ifnesting' = ifnesting + 1 /\ UNCHANGED levelVars
    BY <1>1, <1>4 DEF IfLine, cond_skipif
  <2> QED
    BY <1>1, <1>2, <1>4, <2>1, SkipUpdate DEF LineOK
<1> QED
  BY <1>3, <1>4

LEMMA SwitchOK ==
  ASSUME HistInv, ~errors, ~errors', NEW val \in Values, HSwitch(val)
  PROVE  LineOK
<1>1. frames' = Abstract!Open(frames, "switch", val, FALSE) /\ SwitchLine(val)
  BY DEF HSwitch
<1>2. frames' \in Abstract!FramesAfter(frames)
  BY <1>1 DEF Abstract!FramesAfter
<1>3. CASE cond_state
  <2>1. OpenLevel(0, val, "switch") /\ ~TooDeep
    BY <1>1, <1>3 DEF SwitchLine, cond_switch
  <2> QED
    BY <1>1, <1>2, <1>3, <2>1, OpenUpdate DEF LineOK
<1>4. CASE ~cond_state
  <2>1. ifnesting' = ifnesting + 1 /\ UNCHANGED levelVars
    BY <1>1, <1>4 DEF SwitchLine, cond_skipif
  <2> QED
    BY <1>1, <1>2, <1>4, <2>1, SkipUpdate DEF LineOK
<1> QED
  BY <1>3, <1>4

(* A branch directive met while assembling ends the innermost block's turn. *)
LEMMA AssembledBranch ==
  ASSUME HistInv, ~errors, ~errors', cond_state, cond_skipelse
  PROVE  /\ frames # <<>>
         /\ Abstract!Top(frames).state = "selected"
         /\ frames' = [frames EXCEPT ![Len(frames)].state = "done"] => LinkInv'
<1>1. /\ clev > 0 /\ cond' = [cond EXCEPT ![clev] = -1]
      /\ UNCHANGED <<clev, condeval, condtype, ifnesting>>
  BY DEF cond_skipelse, general_error
<1>2. /\ Link /\ ifnesting = 0 /\ clev \in Nat /\ Len(frames) = clev
      /\ frames # <<>> /\ cond[clev] = 1
  BY <1>1, LevelFacts DEF Link
<1>3. Abstract!Top(frames).state = "selected"
  BY <1>1, <1>2 DEF Abstract!Top, Link, LevelsAreFrames, StateOf
<1>4. ASSUME frames' = [frames EXCEPT ![Len(frames)].state = "done"]
      PROVE  LinkInv'
  <2>1. frames' = [frames EXCEPT ![Len(frames)].state = StateOf(-1)]
    BY <1>4 DEF StateOf
  <2> QED
    BY <1>1, <1>2, <2>1, TopUpdate
<1> QED
  BY <1>2, <1>3, <1>4

(* A branch directive met while skipping, outside every ignored block. *)
LEMMA SkippedBranch ==
  ASSUME HistInv, ~errors, ~cond_state, ifnesting = 0,
         UNCHANGED <<clev, condeval, condtype, ifnesting>>
  PROVE  /\ clev > 0 /\ frames # <<>>
         /\ Abstract!Top(frames).kind = condtype[clev]
         /\ Abstract!Top(frames).value = condeval[clev]
         /\ cond[clev] \in {-1, 0, 1}
         /\ Abstract!Top(frames).state = StateOf(cond[clev])
         /\ \A c \in {-1, 0, 1} :
              /\ cond' = [cond EXCEPT ![clev] = c]
              /\ frames' = [frames EXCEPT ![Len(frames)].state = StateOf(c)]
              => LinkInv'
<1>1. /\ Link /\ clev > 0 /\ clev \in Nat /\ Len(frames) = clev
      /\ frames # <<>> /\ cond[clev] \in {-1, 0, 1}
  BY LevelFacts DEF Link
<1>2. /\ Abstract!Top(frames).kind = condtype[clev]
      /\ Abstract!Top(frames).value = condeval[clev]
      /\ Abstract!Top(frames).state = StateOf(cond[clev])
  BY <1>1 DEF Abstract!Top, Link, LevelsAreFrames
<1>3. ASSUME NEW c \in {-1, 0, 1},
             cond' = [cond EXCEPT ![clev] = c],
             frames' = [frames EXCEPT ![Len(frames)].state = StateOf(c)]
      PROVE  LinkInv'
  BY <1>1, <1>3, TopUpdate
<1> QED
  BY <1>1, <1>2, <1>3

(* Branch and Finish as a plain update of the innermost block's state. *)
LEMMA BranchIsUpdate ==
  ASSUME NEW fs \in Seq(Abstract!Frame), fs # <<>>, NEW flag
  PROVE  Abstract!Branch(fs, flag) =
           [fs EXCEPT ![Len(fs)].state =
              Abstract!NextState(Abstract!Top(fs).state, flag)]
  BY DEF Abstract!Branch, Abstract!Top

LEMMA ElseOK ==
  ASSUME HistInv, ~errors, ~errors', HElse
  PROVE  LineOK
<1>1. /\ ElseLine /\ frames \in Seq(Abstract!Frame)
      /\ frames' = IF frames = <<>> THEN frames ELSE Abstract!Branch(frames, TRUE)
  BY DEF HElse, HistInv
<1>2. ASSUME frames # <<>>
      PROVE  /\ frames' \in Abstract!FramesAfter(frames)
             /\ frames' = [frames EXCEPT ![Len(frames)].state =
                             Abstract!NextState(Abstract!Top(frames).state, TRUE)]
  BY <1>1, <1>2, BranchIsUpdate DEF Abstract!FramesAfter
<1>3. CASE cond_state
  <2>1. frames # <<>> /\ Abstract!Top(frames).state = "selected"
    BY <1>1, <1>3, AssembledBranch DEF ElseLine
  <2>2. frames' = [frames EXCEPT ![Len(frames)].state = "done"]
    BY <1>2, <2>1 DEF Abstract!NextState
  <2> QED
    BY <1>1, <1>2, <1>3, <2>1, <2>2, AssembledBranch DEF ElseLine, LineOK
<1>4. CASE ~cond_state /\ ifnesting = 0
  <2>1. /\ cond' = [cond EXCEPT ![clev] = IF @ = 0 THEN 1 ELSE -1]
        /\ UNCHANGED <<clev, condeval, condtype, ifnesting>>
    BY <1>1, <1>4 DEF ElseLine, cond_else
  <2>2. /\ frames # <<>> /\ cond[clev] \in {-1, 0, 1}
        /\ Abstract!Top(frames).state = StateOf(cond[clev])
    BY <1>4, <2>1, SkippedBranch
  <2> DEFINE c == IF cond[clev] = 0 THEN 1 ELSE -1
  <2>3. c \in {-1, 0, 1} /\ cond' = [cond EXCEPT ![clev] = c]
    BY <2>1
  <2>4. Abstract!NextState(Abstract!Top(frames).state, TRUE) = StateOf(c)
    BY <2>2 DEF Abstract!NextState, StateOf
  <2>5. frames' = [frames EXCEPT ![Len(frames)].state = StateOf(c)]
    BY <1>2, <2>2, <2>4
  <2> HIDE DEF c
  <2> QED
    BY <1>2, <1>4, <2>1, <2>2, <2>3, <2>5, SkippedBranch DEF LineOK
<1>5. CASE ~cond_state /\ ifnesting # 0
  <2>1. UNCHANGED <<levelVars, ifnesting>> /\ ifnesting > 0
    BY <1>1, <1>5, LevelFacts DEF ElseLine, cond_else, levelVars
  <2>2. frames # <<>> /\ Abstract!Top(frames).state = "done"
    BY <1>1, <2>1, LevelFacts DEF Link, IgnoredAreDead, Abstract!Top
  <2>3. frames' = [frames EXCEPT ![Len(frames)].state = "done"]
    BY <1>2, <2>2 DEF Abstract!NextState
  <2> QED
    BY <1>2, <2>1, <2>2, <2>3, IgnoredUpdate DEF LineOK
<1> QED
  BY <1>3, <1>4, <1>5

LEMMA ElseifOK ==
  ASSUME BranchInIgnored = FALSE, HistInv, ~errors, ~errors',
         NEW flag \in BOOLEAN, HElseif(flag)
  PROVE  LineOK
<1>1. /\ ElseifLine(flag) /\ frames \in Seq(Abstract!Frame)
      /\ frames' = IF frames = <<>> THEN frames ELSE Abstract!Elseif(frames, flag)
      /\ ifnesting = 0
  BY LevelFacts DEF HElseif, HistInv
<1>2. frames # <<>> => frames' \in Abstract!FramesAfter(frames)
  BY <1>1 DEF Abstract!FramesAfter
<1>3. CASE cond_state
  <2>1. frames # <<>> /\ Abstract!Top(frames).state = "selected"
    BY <1>1, <1>3, AssembledBranch DEF ElseifLine
  <2>2. Abstract!Elseif(frames, flag) =
          [frames EXCEPT ![Len(frames)].state = "done"]
    <3>1. Abstract!Branch(frames, flag) =
            [frames EXCEPT ![Len(frames)].state = "done"]
      BY <1>1, <2>1, BranchIsUpdate DEF Abstract!NextState
    <3> QED
      BY <3>1 DEF Abstract!Elseif, Abstract!Finish
  <2> QED
    BY <1>1, <1>2, <1>3, <2>1, <2>2, AssembledBranch DEF ElseifLine, LineOK
<1>4. CASE ~cond_state
  <2>1. UNCHANGED <<clev, condeval, condtype, ifnesting>>
    BY <1>1, <1>4 DEF ElseifLine, cond_elseif, cond_skipelse
  <2>2. /\ frames # <<>> /\ cond[clev] \in {-1, 0, 1} /\ clev > 0
        /\ Abstract!Top(frames).state = StateOf(cond[clev])
        /\ Abstract!Top(frames).kind = condtype[clev]
    BY <1>1, <1>4, <2>1, SkippedBranch
  <2>3. CASE cond_type = "if"
    <3> DEFINE c == IF cond[clev] = 0 THEN Flag(flag) ELSE -1
    <3>1. c \in {-1, 0, 1} /\ cond' = [cond EXCEPT ![clev] = c]
      BY <1>1, <1>4, <2>2, <2>3 DEF ElseifLine, cond_elseif, Flag
    <3>2. Abstract!NextState(Abstract!Top(frames).state, flag) = StateOf(c)
      BY <1>4, <2>2 DEF Abstract!NextState, StateOf, Flag, cond_state
    <3>3. frames' = [frames EXCEPT ![Len(frames)].state = StateOf(c)]
      BY <1>1, <2>2, <2>3, <3>2, BranchIsUpdate DEF Abstract!Elseif, cond_type
    <3> HIDE DEF c
    <3> QED
      BY <1>1, <1>2, <1>4, <2>1, <2>2, <3>1, <3>3, SkippedBranch DEF LineOK
  <2>4. CASE cond_type # "if"
    <3>1. cond' = [cond EXCEPT ![clev] = -1]
      BY <1>1, <1>4, <2>2, <2>4 DEF ElseifLine, cond_skipelse
    <3>2. frames' = [frames EXCEPT ![Len(frames)].state = StateOf(-1)]
      BY <1>1, <2>2, <2>4
      DEF Abstract!Elseif, Abstract!Finish, cond_type, StateOf
    <3> QED
      BY <1>1, <1>2, <1>4, <2>1, <2>2, <3>1, <3>2, SkippedBranch DEF LineOK
  <2> QED
    BY <2>3, <2>4
<1> QED
  BY <1>3, <1>4

LEMMA CaseOK ==
  ASSUME BranchInIgnored = FALSE, HistInv, ~errors, ~errors',
         NEW vals \in SUBSET Values, HCase(vals)
  PROVE  LineOK
<1>1. /\ CaseLine(vals) /\ frames \in Seq(Abstract!Frame)
      /\ frames' = IF frames = <<>> THEN frames ELSE Abstract!Case(frames, vals)
      /\ ifnesting = 0
  BY LevelFacts DEF HCase, HistInv
<1>2. frames # <<>> => frames' \in Abstract!FramesAfter(frames)
  BY <1>1 DEF Abstract!FramesAfter
<1>3. CASE cond_state
  <2>1. frames # <<>> /\ Abstract!Top(frames).state = "selected"
    BY <1>1, <1>3, AssembledBranch DEF CaseLine
  <2>2. Abstract!Case(frames, vals) =
          [frames EXCEPT ![Len(frames)].state = "done"]
    <3> DEFINE hit == Abstract!Top(frames).value \in vals
    <3>1. Abstract!Branch(frames, hit) =
            [frames EXCEPT ![Len(frames)].state = "done"]
      BY <1>1, <2>1, BranchIsUpdate DEF Abstract!NextState
    <3> QED
      BY <3>1 DEF Abstract!Case, Abstract!Finish
  <2> QED
    BY <1>1, <1>2, <1>3, <2>1, <2>2, AssembledBranch DEF CaseLine, LineOK
<1>4. CASE ~cond_state
  <2>1. UNCHANGED <<clev, condeval, condtype, ifnesting>>
    BY <1>1, <1>4 DEF CaseLine, cond_elseif, cond_skipelse
  <2>2. /\ frames # <<>> /\ cond[clev] \in {-1, 0, 1} /\ clev > 0
        /\ Abstract!Top(frames).state = StateOf(cond[clev])
        /\ Abstract!Top(frames).kind = condtype[clev]
        /\ Abstract!Top(frames).value = condeval[clev]
    BY <1>1, <1>4, <2>1, SkippedBranch
  <2>3. CASE cond_type = "switch"
    <3> DEFINE hit == condeval[clev] \in vals
               c == IF cond[clev] = 0 THEN Flag(hit) ELSE -1
    <3>1. c \in {-1, 0, 1} /\ cond' = [cond EXCEPT ![clev] = c]
      BY <1>1, <1>4, <2>2, <2>3 DEF CaseLine, cond_elseif, eval_case, Flag
    <3>2. Abstract!NextState(Abstract!Top(frames).state, hit) = StateOf(c)
      BY <1>4, <2>2 DEF Abstract!NextState, StateOf, Flag, cond_state
    <3>3. frames' = [frames EXCEPT ![Len(frames)].state = StateOf(c)]
      <4>1. frames' = Abstract!Branch(frames, hit)
        BY <1>1, <2>2, <2>3 DEF Abstract!Case, cond_type
      <4> QED
        BY <1>1, <2>2, <3>2, <4>1, BranchIsUpdate
    <3> HIDE DEF c
    <3> QED
      BY <1>1, <1>2, <1>4, <2>1, <2>2, <3>1, <3>3, SkippedBranch DEF LineOK
  <2>4. CASE cond_type # "switch"
    <3>1. cond' = [cond EXCEPT ![clev] = -1]
      BY <1>1, <1>4, <2>2, <2>4 DEF CaseLine, cond_skipelse
    <3>2. frames' = [frames EXCEPT ![Len(frames)].state = StateOf(-1)]
      BY <1>1, <2>2, <2>4
      DEF Abstract!Case, Abstract!Finish, cond_type, StateOf
    <3> QED
      BY <1>1, <1>2, <1>4, <2>1, <2>2, <3>1, <3>2, SkippedBranch DEF LineOK
  <2> QED
    BY <2>3, <2>4
<1> QED
  BY <1>3, <1>4

LEMMA EndifOK ==
  ASSUME HistInv, ~errors, ~errors', HEndif
  PROVE  LineOK
<1>1. /\ cond_endif
      /\ frames' = IF frames = <<>> THEN frames ELSE Abstract!Close(frames)
  BY DEF HEndif, EndifLine
<1>2. LinkInv'
  BY <1>1, CloseUpdate
<1>3. frames # <<>>
  BY <1>1, LevelFacts DEF Link, cond_endif, general_error
<1> QED
  BY <1>1, <1>2, <1>3 DEF LineOK, Abstract!FramesAfter

LEMMA OtherOK ==
  ASSUME HistInv, ~errors, ~errors', HOther
  PROVE  LineOK
<1>1. cond_check /\ UNCHANGED <<condVars, frames>>
  BY DEF HOther, BadIfLine, BadOpenLine, BadElseifLine, general_error, cond_check
<1>2. UNCHANGED <<clev, cond, condeval, condtype, ifnesting, frames>>
  BY <1>1 DEF condVars
<1> QED
  BY <1>2
  DEF LineOK, LinkInv, HistInv, Linked, LevelsAreFrames, IgnoredAreDead,
      cond_state

(***************************************************************************)
(* The invariant and the refinement.                                        *)
(***************************************************************************)
LEMMA HInitInv == HInit => HistInv
<1> SUFFICES ASSUME HInit PROVE HistInv
  OBVIOUS
<1>1. LevelInv
  BY InitLevelInv DEF HInit
<1>2. frames = <<>> /\ clev = 0 /\ ifnesting = 0 /\ frames \in Seq(Abstract!Frame)
  BY DEF HInit, Init, cond_init
<1>3. Linked
  BY <1>2 DEF Linked, LevelsAreFrames, IgnoredAreDead
<1> QED
  BY <1>1, <1>2, <1>3 DEF HistInv

LEMMA HNextIsNext == HNext => Next
  BY DEF HNext, Next, HIf, HSwitch, HElse, HElseif, HCase, HEndif, HOther

(* Errors are counted, never taken back. *)
LEMMA ErrorsStay == errors /\ Next => errors'
<1> SUFFICES ASSUME errors, Next PROVE errors'
  OBVIOUS
<1> USE DEF cond_if, cond_switch, OpenLevel, cond_skipif, cond_else,
            cond_skipelse, cond_elseif, cond_endif, general_error
<1>1. ASSUME NEW flag \in BOOLEAN, IfLine(flag) \/ ElseifLine(flag) PROVE errors'
  BY <1>1 DEF IfLine, ElseifLine
<1>2. ASSUME NEW val \in Values, SwitchLine(val) PROVE errors'
  BY <1>2 DEF SwitchLine
<1>3. ASSUME NEW vals \in SUBSET Values, CaseLine(vals) PROVE errors'
  BY <1>3 DEF CaseLine
<1>4. CASE ElseLine \/ EndifLine
  BY <1>4 DEF ElseLine, EndifLine
<1>5. CASE BadIfLine \/ BadOpenLine \/ BadElseifLine \/ cond_check
  BY <1>5 DEF BadIfLine, BadOpenLine, BadElseifLine, cond_check
<1> QED
  BY <1>1, <1>2, <1>3, <1>4, <1>5 DEF Next

LEMMA HNextOK ==
  ASSUME BranchInIgnored = FALSE, HistInv, HNext, ~errors, ~errors'
  PROVE  LineOK
<1>1. ASSUME NEW flag \in BOOLEAN, HIf(flag) PROVE LineOK
  BY <1>1, IfOK
<1>2. ASSUME NEW flag \in BOOLEAN, HElseif(flag) PROVE LineOK
  BY <1>2, ElseifOK
<1>3. ASSUME NEW val \in Values, HSwitch(val) PROVE LineOK
  BY <1>3, SwitchOK
<1>4. ASSUME NEW vals \in SUBSET Values, HCase(vals) PROVE LineOK
  BY <1>4, CaseOK
<1> QED
  BY <1>1, <1>2, <1>3, <1>4, ElseOK, EndifOK, OtherOK DEF HNext

LEMMA HStepInv ==
  ASSUME BranchInIgnored = FALSE, HistInv, [HNext]_histVars
  PROVE  HistInv'
<1>1. LevelInv'
  BY NextLevelInv, HNextIsNext DEF HistInv, histVars
<1>2. CASE UNCHANGED histVars
  BY <1>1, <1>2
  DEF histVars, vars, HistInv, Linked, LevelsAreFrames, IgnoredAreDead,
      cond_state
<1>3. CASE HNext /\ errors'
  BY <1>1, <1>3 DEF HistInv, Linked
<1>4. CASE HNext /\ ~errors'
  <2>1. ~errors
    BY <1>4, ErrorsStay, HNextIsNext
  <2>2. LinkInv'
    BY <1>4, <2>1, HNextOK DEF LineOK
  <2> QED
    BY <1>1, <2>2 DEF HistInv, LinkInv
<1> QED
  BY <1>2, <1>3, <1>4

(* StateIsAllLive as a formula, so that it can be used after a step too. *)
LEMMA StateIsAllLiveAlways ==
  HistInv /\ ~errors => (cond_state <=> Abstract!AllLive(frames))
  BY StateIsAllLive

LEMMA HStepRefines ==
  ASSUME BranchInIgnored = FALSE, HistInv, HistInv', [HNext]_histVars,
         (HistInv /\ ~errors => (cond_state <=> Abstract!AllLive(frames)))'
  PROVE  [Abstract!SpecNext]_Abstract!specVars
<1>1. errors \in BOOLEAN /\ errors' \in BOOLEAN
  BY DEF HistInv, LevelInv, TypeInv, TypeOK
<1>2. CASE UNCHANGED histVars
  BY <1>2 DEF histVars, vars, Abstract!specVars, cond_state
<1>3. CASE HNext /\ errors'
  BY <1>1, <1>3 DEF Abstract!SpecNext, Abstract!Fail
<1>4. CASE HNext /\ ~errors'
  <2>1. ~errors
    BY <1>4, ErrorsStay, HNextIsNext
  <2>2. LineOK
    BY <1>4, <2>1, HNextOK
  <2>3. CASE frames' \in Abstract!FramesAfter(frames)
    <3>1. cond_state' <=> Abstract!AllLive(frames)'
      BY <1>4
    <3>2. Abstract!AllLive(frames)' <=> Abstract!AllLive(frames')
      BY DEF Abstract!AllLive
    <3>3. cond_state' <=> Abstract!AllLive(frames')
      BY <3>1, <3>2
    <3>4. errors = FALSE /\ errors' = FALSE
      BY <1>1, <1>4, <2>1
    <3> QED
      BY <2>3, <3>3, <3>4 DEF Abstract!SpecNext, Abstract!Line
  <2>4. CASE UNCHANGED <<cond_state, frames>>
    <3>1. errors' = errors
      BY <1>1, <1>4, <2>1
    <3> QED
      BY <2>4, <3>1 DEF Abstract!specVars
  <2> QED
    BY <2>2, <2>3, <2>4 DEF LineOK
<1> QED
  BY <1>2, <1>3, <1>4

(* Until an error is reported, levels and ignored blocks describe the       *)
(* blocks of the source (the history variable), for every nesting limit.    *)
THEOREM LinkedInvariant ==
  ASSUME BranchInIgnored = FALSE
  PROVE  HSpec => []Linked
<1>1. HInit => HistInv
  BY HInitInv
<1>2. HistInv /\ [HNext]_histVars => HistInv'
  BY HStepInv
<1>3. HistInv => Linked
  BY DEF HistInv
<1> QED
  BY <1>1, <1>2, <1>3, PTL DEF HSpec

(* cond.c implements CondSpec: in a source whose ignored blocks have no     *)
(* elseif and no case, a line is assembled exactly when the branch it is in *)
(* is selected in every block around it.                                    *)
THEOREM CondRefinement ==
  ASSUME BranchInIgnored = FALSE
  PROVE  HSpec => ImplementsCondSpec
<1>1. HInit => HistInv
  BY HInitInv
<1>2. HInit => Abstract!SpecInit
  <2> SUFFICES ASSUME HInit PROVE Abstract!SpecInit
    OBVIOUS
  <2>1. cond[0] = 1 /\ clev = 0 /\ errors = FALSE /\ frames = <<>>
    <3>1. LevelInv
      BY InitLevelInv DEF HInit
    <3> QED
      BY <3>1 DEF HInit, Init, cond_init, LevelInv
  <2>2. cond_state = TRUE
    BY <2>1 DEF cond_state
  <2> QED
    BY <2>1, <2>2 DEF Abstract!SpecInit
<1>3. HistInv /\ [HNext]_histVars => HistInv'
  BY HStepInv
<1>4. (HistInv /\ ~errors => (cond_state <=> Abstract!AllLive(frames)))'
  BY StateIsAllLiveAlways, PTL
<1>5. HistInv /\ HistInv' /\ [HNext]_histVars
        => [Abstract!SpecNext]_Abstract!specVars
  BY <1>4, HStepRefines
<1> QED
  BY <1>1, <1>2, <1>3, <1>5, PTL
  DEF HSpec, ImplementsCondSpec, Abstract!CondSpecification

=============================================================================
