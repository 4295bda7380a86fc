-------------------------- MODULE BlockScan_proofs --------------------------
(***************************************************************************)
(* A proof that the scan for the end of a block finds the right one, for    *)
(* every depth of nesting and any number of texts on the stack of sources.  *)
(***************************************************************************)
EXTENDS BlockScan, FiniteSetTheorems, SequenceTheorems, TLAPS

(* The blocks of a kind among those that are open. *)
Open(bs, kind) == {i \in 1..Len(bs) : bs[i] = kind}

(* The inductive invariant, while blocks nest: the scan looks for the end   *)
(* of the outermost block and its counter is the number of blocks of that   *)
(* kind that are open.  In a comment or a macro nothing is open.            *)
Looking ==
  /\ Len(blocks) > 0
  /\ blocks[1] = enddir_list
  /\ enddir_list \in Loops => reptdir_list = enddir_list
  /\ enddir_list \in Opaque => reptdir_list = None /\ Len(blocks) = 1
  /\ rept_nest = Cardinality(Open(blocks, enddir_list))

ScanInv ==
  nested =>
    /\ blocks \in Seq(Kinds)
    /\ IF enddir_list = None THEN blocks = <<>> /\ rept_nest = 1 ELSE Looking

-----------------------------------------------------------------------------
(* Nested blocks as a sequence. *)
LEMMA OpenFinite ==
  ASSUME NEW bs \in Seq(Kinds), NEW kind
  PROVE  /\ IsFiniteSet(Open(bs, kind))
         /\ Cardinality(Open(bs, kind)) \in Nat
         /\ Len(bs) + 1 \notin Open(bs, kind)
<1>1. IsFiniteSet(1..Len(bs))
  BY FS_Interval
<1>2. IsFiniteSet(Open(bs, kind))
  BY <1>1, FS_Subset DEF Open
<1> QED
  BY <1>2, FS_CardinalityType DEF Open

LEMMA NoBlock ==
  ASSUME NEW bs \in Seq(Kinds), Len(bs) = 0
  PROVE  bs = <<>>
OBVIOUS

LEMMA OneOpen ==
  ASSUME NEW kind \in Kinds
  PROVE  /\ <<kind>> \in Seq(Kinds) /\ Len(<<kind>>) = 1 /\ <<kind>>[1] = kind
         /\ Cardinality(Open(<<kind>>, kind)) = 1
<1>1. Open(<<kind>>, kind) = {1}
  BY DEF Open
<1>2. Cardinality({1}) = 1
  BY FS_Singleton
<1> QED
  BY <1>1, <1>2

LEMMA PushOpen ==
  ASSUME NEW bs \in Seq(Kinds), NEW kind \in Kinds, NEW looked
  PROVE  /\ Append(bs, kind) \in Seq(Kinds)
         /\ Len(Append(bs, kind)) = Len(bs) + 1
         /\ Len(bs) > 0 => Append(bs, kind)[1] = bs[1]
         /\ Cardinality(Open(Append(bs, kind), looked)) =
              IF kind = looked THEN Cardinality(Open(bs, looked)) + 1
                               ELSE Cardinality(Open(bs, looked))
<1> DEFINE n == Len(bs)
           t == Append(bs, kind)
<1>1. n \in Nat /\ t \in Seq(Kinds) /\ Len(t) = n + 1
  OBVIOUS
<1>2. \A i \in 1..(n + 1) : t[i] = IF i = n + 1 THEN kind ELSE bs[i]
  OBVIOUS
<1>3. Open(t, looked) = IF kind = looked THEN Open(bs, looked) \cup {n + 1}
                                         ELSE Open(bs, looked)
  BY <1>1, <1>2 DEF Open
<1>4. Cardinality(Open(bs, looked) \cup {n + 1}) = Cardinality(Open(bs, looked)) + 1
  BY OpenFinite, FS_AddElement
<1> QED
  BY <1>1, <1>2, <1>3, <1>4

LEMMA PopOpen ==
  ASSUME NEW bs \in Seq(Kinds), Len(bs) > 0, NEW looked
  PROVE  /\ Last(bs) = bs[Len(bs)]
         /\ Front(bs) \in Seq(Kinds)
         /\ Len(Front(bs)) = Len(bs) - 1
         /\ Len(bs) > 1 => Front(bs)[1] = bs[1]
         /\ Cardinality(Open(Front(bs), looked)) =
              IF Last(bs) = looked THEN Cardinality(Open(bs, looked)) - 1
                                   ELSE Cardinality(Open(bs, looked))
<1> DEFINE n == Len(bs)
           t == Front(bs)
<1>1. n \in Nat /\ n > 0
  OBVIOUS
<1>2. t = SubSeq(bs, 1, n - 1) /\ Last(bs) = bs[n]
  BY Zenon DEF Front, Last
<1>3. t \in Seq(Kinds) /\ Len(t) = n - 1
  <2>1. \A i \in 1..(n - 1) : bs[i] \in Kinds
    BY <1>1
  <2>2. 1 \in Int /\ n - 1 \in Int
    BY <1>1
  <2>3. /\ SubSeq(bs, 1, n - 1) \in Seq(Kinds)
        /\ Len(SubSeq(bs, 1, n - 1)) =
             IF 1 <= n - 1 THEN (n - 1) - 1 + 1 ELSE 0
    BY <2>1, <2>2, SubSeqProperties
  <2>4. \A k \in Nat : k > 0 => (IF 1 <= k - 1 THEN (k - 1) - 1 + 1 ELSE 0) = k - 1
    OBVIOUS
  <2>5. (IF 1 <= n - 1 THEN (n - 1) - 1 + 1 ELSE 0) = n - 1
    BY <1>1, <2>4
  <2> QED
    BY <1>2, <2>3, <2>5, Zenon
<1>4. \A i \in 1..(n - 1) : t[i] = bs[i]
  BY <1>1, <1>2
<1>5. Open(t, looked) = Open(bs, looked) \ {n}
  BY <1>1, <1>3, <1>4 DEF Open
<1>6. n \in Open(bs, looked) <=> Last(bs) = looked
  BY <1>1, <1>2 DEF Open
<1>7. Cardinality(Open(bs, looked) \ {n}) =
        IF n \in Open(bs, looked) THEN Cardinality(Open(bs, looked)) - 1
                                  ELSE Cardinality(Open(bs, looked))
  BY OpenFinite, FS_RemoveElement
<1>8. n > 1 => t[1] = bs[1]
  BY <1>1, <1>4
<1>9. Cardinality(Open(t, looked)) =
        IF Last(bs) = looked THEN Cardinality(Open(bs, looked)) - 1
                             ELSE Cardinality(Open(bs, looked))
  BY <1>5, <1>6, <1>7
<1> QED
  BY <1>2, <1>3, <1>8, <1>9

(* When one block of a kind is open, and it is the first one and the last   *)
(* one, then it is the only one.                                            *)
LEMMA OnlyOne ==
  ASSUME NEW bs \in Seq(Kinds), Len(bs) > 0
  PROVE  Last(bs) = bs[1] =>
           (Cardinality(Open(bs, bs[1])) - 1 = 0 <=> Len(bs) = 1)
<1> DEFINE n == Len(bs)
           S == Open(bs, bs[1])
<1>1. n \in Nat /\ n > 0 /\ Last(bs) = bs[n]
  BY PopOpen
<1>2. IsFiniteSet(S) /\ Cardinality(S) \in Nat
  BY OpenFinite
<1>3. ASSUME bs[n] = bs[1] PROVE Cardinality(S) = 1 <=> n = 1
  <2>1. 1 \in S /\ n \in S
    BY <1>1, <1>3 DEF Open
  <2>2. ASSUME Cardinality(S) = 1 PROVE n = 1
    <3>1. PICK x : S = {x}
      BY <1>2, <2>2, FS_Singleton
    <3> QED
      BY <2>1, <3>1
  <2>3. ASSUME n = 1 PROVE Cardinality(S) = 1
    <3>1. S = {1}
      BY <2>1, <2>3 DEF Open
    <3> QED
      BY <3>1, FS_Singleton
  <2> QED
    BY <2>2, <2>3
<1> QED
  BY <1>1, <1>2, <1>3

-----------------------------------------------------------------------------
(* The steps. *)
LEMMA KindsFacts ==
  /\ None \notin Kinds /\ Loops \subseteq Kinds /\ Opaque \subseteq Kinds
  /\ \A kind \in Kinds : kind \in Loops <=> kind \notin Opaque
  /\ "macro" \in Opaque /\ "rept" \in Loops /\ "do" \in Loops
BY DEF None, Kinds, Loops, Opaque

(* A block is opened where none is looked for: with a block that is taken,  *)
(* or is a rept, and an operand that evaluates its directive is counted.    *)
LEMMA OpenLineOK ==
  ASSUME Untaken \subseteq {"rept"}, ScanInv,
         NEW kind \in Kinds, NEW taken \in BOOLEAN, NEW evaluates \in BOOLEAN,
         OpenLine(kind, taken, evaluates)
  PROVE  ScanInv'
<1> SUFFICES ASSUME nested'
             PROVE  /\ blocks' \in Seq(Kinds)
                    /\ enddir_list' # None
                    /\ Looking'
  BY DEF ScanInv
<1>1. nested /\ evaluates /\ enddir_list = None /\ rept_nest = 1
  BY DEF OpenLine, ScanInv
<1>2. enddir_list' = kind /\ blocks' = <<kind>> /\ rept_nest' = 1
  BY <1>1 DEF OpenLine
<1>3. reptdir_list' = IF kind \in Loops THEN kind ELSE None
  BY <1>1 DEF OpenLine, Counted
<1>4. Len(blocks') = 1 /\ blocks'[1] = kind /\ blocks' \in Seq(Kinds)
  BY <1>2, OneOpen
<1>5. Cardinality(Open(blocks', enddir_list')) = 1
  BY <1>2, OneOpen
<1>6. enddir_list' # None
  BY <1>2, KindsFacts
<1>7. Looking'
  <2>1. enddir_list' \in Loops => reptdir_list' = enddir_list'
    BY <1>2, <1>3
  <2>2. enddir_list' \in Opaque => reptdir_list' = None /\ Len(blocks') = 1
    BY <1>2, <1>3, <1>4, KindsFacts
  <2>3. Len(blocks') > 0 /\ blocks'[1] = enddir_list'
    BY <1>2, <1>4
  <2> QED
    BY <1>2, <1>5, <2>1, <2>2, <2>3 DEF Looking
<1> QED
  BY <1>4, <1>6, <1>7

(* Another block is opened inside the one that is looked for. *)
LEMMA ScanOpenLineOK ==
  ASSUME ScanInv, NEW kind \in Kinds, ScanOpenLine(kind)
  PROVE  ScanInv'
<1> SUFFICES ASSUME nested'
             PROVE  /\ blocks' \in Seq(Kinds)
                    /\ enddir_list' # None
                    /\ Looking'
  BY DEF ScanInv
<1>0. enddir_list # None /\ enddir_list' = enddir_list
      /\ reptdir_list' = reptdir_list
  BY DEF ScanOpenLine, CountOpen, Scanned
<1>1. nested
  BY DEF ScanOpenLine
<1>2. blocks \in Seq(Kinds) /\ Looking
  BY <1>0, <1>1 DEF ScanInv
<1>3. Len(blocks) \in Nat /\ Len(blocks) > 0 /\ enddir_list = blocks[1]
      /\ blocks[1] \in Kinds /\ blocks # <<>> /\ Last(blocks) = blocks[Len(blocks)]
  BY <1>2, PopOpen DEF Looking
<1>4. CASE InOpaque
  <2>1. Len(blocks) = 1 /\ blocks' = blocks
    BY <1>4 DEF ScanOpenLine
  <2>2. enddir_list \in Opaque
    BY <1>3, <1>4, <2>1 DEF InOpaque
  <2>3. reptdir_list = None
    BY <1>2, <2>2 DEF Looking
  <2>4. rept_nest' = rept_nest
    BY <2>3, KindsFacts DEF ScanOpenLine, CountOpen, Scanned
  <2> QED
    BY <1>0, <1>2, <2>1, <2>4 DEF Looking
<1>5. CASE ~InOpaque
  <2>1. kind # "macro" /\ blocks' = Append(blocks, kind)
    BY <1>5 DEF ScanOpenLine
  <2>2. enddir_list \in Loops
    <3>1. enddir_list \notin Opaque
      <4> SUFFICES ASSUME enddir_list \in Opaque PROVE FALSE
        OBVIOUS
      <4>1. Len(blocks) = 1
        BY <1>2 DEF Looking
      <4> QED
        BY <1>3, <1>5, <4>1 DEF InOpaque
    <3> QED
      BY <1>3, <3>1, KindsFacts
  <2>3. reptdir_list = enddir_list
    BY <1>2, <2>2 DEF Looking
  <2>4. rept_nest' = IF kind = enddir_list THEN rept_nest + 1 ELSE rept_nest
    BY <2>3 DEF ScanOpenLine, CountOpen, Scanned
  <2>5. /\ blocks' \in Seq(Kinds) /\ Len(blocks') = Len(blocks) + 1
        /\ blocks'[1] = blocks[1]
        /\ Cardinality(Open(blocks', enddir_list)) =
             IF kind = enddir_list
               THEN Cardinality(Open(blocks, enddir_list)) + 1
               ELSE Cardinality(Open(blocks, enddir_list))
    BY <1>2, <1>3, <2>1, PushOpen
  <2>6. rept_nest' = Cardinality(Open(blocks', enddir_list'))
    BY <1>0, <1>2, <2>4, <2>5 DEF Looking
  <2>7. enddir_list' \in Loops => reptdir_list' = enddir_list'
    BY <1>0, <2>3
  <2>8. enddir_list' \notin Opaque
    BY <1>0, <1>3, <2>2, KindsFacts
  <2>9. Len(blocks') > 0 /\ blocks'[1] = enddir_list'
    BY <1>0, <1>3, <2>5
  <2> QED
    BY <1>0, <2>5, <2>6, <2>7, <2>8, <2>9 DEF Looking
<1> QED
  BY <1>4, <1>5

(* An end directive: the innermost block ends, and the scan with the last   *)
(* one that is open.                                                        *)
LEMMA ScanEndLineOK ==
  ASSUME ScanInv, NEW kind \in Kinds, NEW evaluates \in BOOLEAN,
         ScanEndLine(kind, evaluates)
  PROVE  ScanInv'
<1> SUFFICES ASSUME nested' PROVE ScanInv'
  BY DEF ScanInv
<1> DEFINE looked == enddir_list
           open == Cardinality(Open(blocks, looked))
<1>0. looked # None /\ nested
  BY DEF ScanEndLine
<1>1. blocks \in Seq(Kinds) /\ Looking
  BY <1>0 DEF ScanInv
<1>2. /\ Len(blocks) \in Nat /\ Len(blocks) > 0 /\ looked = blocks[1]
      /\ blocks[1] \in Kinds /\ blocks # <<>> /\ Last(blocks) = blocks[Len(blocks)]
  BY <1>1, PopOpen DEF Looking
<1>3. rept_nest = open /\ open \in Nat
  BY <1>1, OpenFinite DEF Looking
<1>4. CASE kind # Last(blocks)
  <2>1. Len(blocks) = 1 /\ blocks' = blocks
    BY <1>4 DEF ScanEndLine
  <2>2. kind # looked
    BY <1>2, <1>4, <2>1
  <2>3. UNCHANGED <<enddir_list, reptdir_list, rept_nest>>
    BY <2>2 DEF ScanEndLine, CountEnd, Scanned
  <2> QED
    BY <1>0, <1>1, <2>1, <2>3 DEF ScanInv, Looking
<1>5. CASE kind = Last(blocks)
  <2>1. blocks' = Front(blocks)
    BY <1>2, <1>5 DEF ScanEndLine
  <2>2. /\ blocks' \in Seq(Kinds) /\ Len(blocks') = Len(blocks) - 1
        /\ Len(blocks) > 1 => blocks'[1] = looked
        /\ Cardinality(Open(blocks', looked)) =
             IF kind = looked THEN open - 1 ELSE open
    BY <1>1, <1>2, <1>5, <2>1, PopOpen
  <2>3. looked \in Opaque => Len(blocks) = 1
    BY <1>1 DEF Looking
  <2>4. Len(blocks) = 1 => kind = looked
    BY <1>2, <1>5
  <2>5. kind = looked => (open - 1 = 0 <=> Len(blocks) = 1)
    BY <1>1, <1>2, <1>5, OnlyOne
  <2>6. CASE Len(blocks) = 1
    <3>1. BlockEnds
      BY <1>3, <2>4, <2>5, <2>6 DEF ScanEndLine, CountEnd
    <3>2. Len(blocks') = 0
      BY <2>2, <2>6
    <3>3. blocks' = <<>>
      BY <2>2, <3>2, NoBlock
    <3> QED
      BY <2>2, <3>1, <3>3 DEF BlockEnds, ScanInv
  <2>7. CASE Len(blocks) # 1
    <3>1. looked \notin Opaque
      BY <2>3, <2>7
    <3>2. /\ UNCHANGED <<enddir_list, reptdir_list>>
          /\ rept_nest' = IF kind = looked THEN rept_nest - 1 ELSE rept_nest
      BY <1>3, <2>5, <2>7, <3>1, KindsFacts
      DEF ScanEndLine, CountEnd, Scanned
    <3>3. \A k \in Nat : k > 0 /\ k # 1 => k > 1 /\ k - 1 > 0
      OBVIOUS
    <3>4. Len(blocks) > 1 /\ Len(blocks') > 0
      BY <1>2, <2>2, <2>7, <3>3
    <3>5. rept_nest' = Cardinality(Open(blocks', enddir_list'))
      BY <1>3, <2>2, <3>2
    <3>6. reptdir_list = looked
      BY <1>1, <1>2, <3>1, KindsFacts DEF Looking
    <3>7. Looking'
      BY <2>2, <3>1, <3>2, <3>4, <3>5, <3>6 DEF Looking
    <3> QED
      BY <1>0, <2>2, <3>2, <3>7 DEF ScanInv
  <2> QED
    BY <2>6, <2>7
<1> QED
  BY <1>4, <1>5

(* The lines and ends of texts that leave the scan as it is. *)
LEMMA OtherLinesOK ==
  ASSUME ScanInv, UNCHANGED <<enddir_list, reptdir_list, rept_nest, blocks>>,
         nested' => nested
  PROVE  ScanInv'
BY DEF ScanInv, Looking

LEMMA InitScanInv == Init => ScanInv
BY DEF Init, ScanInv

LEMMA StepScanInv ==
  ASSUME Untaken \subseteq {"rept"}
  PROVE  ScanInv /\ [Next]_vars => ScanInv'
<1> SUFFICES ASSUME ScanInv, [Next]_vars PROVE ScanInv'
  OBVIOUS
<1>1. ASSUME NEW kind \in Kinds, NEW taken \in BOOLEAN,
             NEW evaluates \in BOOLEAN, OpenLine(kind, taken, evaluates)
      PROVE  ScanInv'
  BY <1>1, OpenLineOK
<1>2. CASE StrayEndLine
  BY <1>2, OtherLinesOK DEF StrayEndLine, scanVars
<1>3. CASE EnterText
  BY <1>3, OtherLinesOK DEF EnterText, scanVars
<1>4. ASSUME NEW kind \in Kinds, ScanOpenLine(kind)
      PROVE  ScanInv'
  BY <1>4, ScanOpenLineOK
<1>5. ASSUME NEW kind \in Kinds, NEW evaluates \in BOOLEAN,
             ScanEndLine(kind, evaluates)
      PROVE  ScanInv'
  BY <1>5, ScanEndLineOK
<1>6. CASE ShortLine
  BY <1>6, OtherLinesOK DEF ShortLine, scanVars
<1>7. CASE EndOfText
  BY <1>7, OtherLinesOK DEF EndOfText, scanVars
<1>8. CASE UNCHANGED vars
  BY <1>8, OtherLinesOK DEF vars, scanVars
<1> QED
  BY <1>1, <1>2, <1>3, <1>4, <1>5, <1>6, <1>7, <1>8 DEF Next

LEMMA ScanInvEnds == ScanInv => BlockEndsWithItsEnd
BY DEF ScanInv, Looking, BlockEndsWithItsEnd

(* Whatever blocks nest in a block, and however deep, read_next_line() ends *)
(* it at its own end directive.  A while that is false from the start has   *)
(* to be left out: new_repeat() is told not to count for it.                *)
THEOREM ScanFindsTheEnd ==
  ASSUME Untaken \subseteq {"rept"}
  PROVE  Spec => []BlockEndsWithItsEnd
<1>1. Init => ScanInv
  BY InitScanInv
<1>2. ScanInv /\ [Next]_vars => ScanInv'
  BY StepScanInv
<1>3. ScanInv => BlockEndsWithItsEnd
  BY ScanInvEnds
<1> QED
  BY <1>1, <1>2, <1>3, PTL DEF Spec

=============================================================================
