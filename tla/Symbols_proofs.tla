--------------------------- MODULE Symbols_proofs ---------------------------
(***************************************************************************)
(* Proofs about Symbols, for every set of names and of lines and any number *)
(* of lines: a name has one definition (DefinedOnce), a module hides the     *)
(* local labels around it (LocalScope), each datum has the value that its    *)
(* expression means where it is written (UseMeansDefinition), and so has     *)
(* each symbol of the object file (SymbolsOfObject).                        *)
(*                                                                         *)
(* The last two rest on one invariant of the reading of the source: what is  *)
(* kept of an expression once simplify_expr() replaced the known numbers     *)
(* (Traced).  From it the evaluation of the symbols agrees with the meaning   *)
(* of the definitions, followed through as many others (ValuesAgree).        *)
(* fix_labels() keeps that while it turns the symbols into each other, as     *)
(* long as no value that it will report is met (Progress).                   *)
(***************************************************************************)
EXTENDS Symbols, SequenceTheorems, FiniteSetTheorems, NaturalsInduction, WellFoundedInduction, TLAPS

(* Sequences of anything.                                                  *)

IsSeq(s) == Len(s) \in Nat /\ s = [i \in 1 .. Len(s) |-> s[i]]

LEMMA IsSeqInSeq ==
  ASSUME NEW s, IsSeq(s)
  PROVE  s \in Seq({s[i] : i \in 1 .. Len(s)}) /\ DOMAIN s = 1 .. Len(s)
<1> DEFINE S == {s[i] : i \in 1 .. Len(s)}
<1>1. s \in [1 .. Len(s) -> S]
  BY DEF IsSeq
<1> QED  BY <1>1 DEF IsSeq, Seq

LEMMA SeqIsSeq ==
  ASSUME NEW S, NEW s \in Seq(S)
  PROVE  IsSeq(s)
BY DEF IsSeq

LEMMA AppendIsSeq ==
  ASSUME NEW s, IsSeq(s), NEW e
  PROVE  /\ IsSeq(Append(s, e)) /\ Len(Append(s, e)) = Len(s) + 1
         /\ DOMAIN s = 1 .. Len(s) /\ DOMAIN Append(s, e) = 1 .. Len(s) + 1
         /\ \A i \in 1 .. Len(s) : Append(s, e)[i] = s[i]
         /\ Append(s, e)[Len(s) + 1] = e
<1> DEFINE S == {s[i] : i \in 1 .. Len(s)}
           T == S \cup {e}
<1>1. s \in Seq(S) /\ DOMAIN s = 1 .. Len(s)
  BY IsSeqInSeq
<1>2. s \in [1 .. Len(s) -> T] /\ Len(s) \in Nat
  BY DEF IsSeq
<1>3. s \in Seq(T) /\ e \in T
  BY <1>2 DEF Seq
<1> HIDE DEF T
<1>4. /\ Append(s, e) \in Seq(T) /\ Len(Append(s, e)) = Len(s) + 1
      /\ \A i \in 1 .. Len(s) : Append(s, e)[i] = s[i]
      /\ Append(s, e)[Len(s) + 1] = e
  BY <1>3, AppendProperties
<1>5. IsSeq(Append(s, e))
  BY <1>4, SeqIsSeq
<1>6. DOMAIN Append(s, e) = 1 .. Len(s) + 1
  BY <1>4, <1>5, IsSeqInSeq
<1> QED  BY <1>1, <1>4, <1>5, <1>6

----------------------------------------------------------------------------
(* Tables of symbols.                                                      *)

SymRec(s) == s = [type |-> s.type, flags |-> s.flags, expr |-> s.expr, pc |-> s.pc, nr |-> s.nr]

IsTable(t) == t = [k \in DOMAIN t |-> t[k]] /\ \A k \in DOMAIN t : SymRec(t[k])

\* r is t with some more imports.
Extended(t, r) ==
  /\ IsTable(r) /\ DOMAIN t \subseteq DOMAIN r
  /\ \A k \in DOMAIN t : r[k] = t[k]
  /\ \A k \in DOMAIN r \ DOMAIN t : r[k].type = "import" /\ r[k].flags = {}

LEMMA NewImport ==
  ASSUME NEW t, IsTable(t), NEW k
  PROVE  Extended(t, new_import(t, k)) /\ k \in DOMAIN new_import(t, k)
<1>1. CASE k \in DOMAIN t
  BY <1>1 DEF new_import, Defined, Extended
<1>2. CASE k \notin DOMAIN t
  <2> DEFINE n == NewSymbol(t)
  <2>1. SymRec(n) /\ n.type = "import" /\ n.flags = {}
    BY DEF SymRec, NewSymbol
  <2> HIDE DEF n
  <2>2. new_import(t, k) = [x \in DOMAIN t \cup {k} |-> IF x = k THEN n ELSE t[x]]
    BY <1>2 DEF new_import, Defined, Enter, n
  <2> QED  BY <1>2, <2>1, <2>2 DEF Extended, IsTable
<1> QED  BY <1>1, <1>2

LEMMA ExtendedTwice ==
  ASSUME NEW t, NEW r, NEW q, Extended(t, r), Extended(r, q)
  PROVE  Extended(t, q)
BY DEF Extended

LEMMA MentionedExtends ==
  ASSUME NEW t, IsTable(t), NEW e
  PROVE  Extended(t, Mentioned(t, e))
<1> DEFINE first == IF e.plus = NoSym THEN t ELSE new_import(t, e.plus)
<1>1. Extended(t, first) /\ IsTable(first)
  BY NewImport DEF Extended
<1> HIDE DEF first
<1>2. Mentioned(t, e) = IF e.minus = NoSym THEN first ELSE new_import(first, e.minus)
  BY DEF Mentioned, first
<1> QED  BY <1>1, <1>2, NewImport, ExtendedTwice

LEMMA RecordFlags ==
  ASSUME NEW s, SymRec(s), NEW f
  PROVE  [s EXCEPT !.flags = f] = [type |-> s.type, flags |-> f, expr |-> s.expr, pc |-> s.pc, nr |-> s.nr]
<1> DEFINE r == [type |-> s.type, flags |-> s.flags, expr |-> s.expr, pc |-> s.pc, nr |-> s.nr]
<1>1. s = r
  BY DEF SymRec
<1>2. [r EXCEPT !.flags = f] = [type |-> s.type, flags |-> f, expr |-> s.expr, pc |-> s.pc, nr |-> s.nr]
  OBVIOUS
<1> HIDE DEF r
<1> QED  BY <1>1, <1>2

LEMMA RecordValue ==
  ASSUME NEW s, SymRec(s), NEW ty, NEW e
  PROVE  [[s EXCEPT !.type = ty] EXCEPT !.expr = e]
           = [type |-> ty, flags |-> s.flags, expr |-> e, pc |-> s.pc, nr |-> s.nr]
<1> DEFINE r == [type |-> s.type, flags |-> s.flags, expr |-> s.expr, pc |-> s.pc, nr |-> s.nr]
<1>1. s = r
  BY DEF SymRec
<1> DEFINE q == [type |-> ty, flags |-> s.flags, expr |-> s.expr, pc |-> s.pc, nr |-> s.nr]
<1>2. [r EXCEPT !.type = ty] = q
  OBVIOUS
<1>3. [q EXCEPT !.expr = e] = [type |-> ty, flags |-> s.flags, expr |-> e, pc |-> s.pc, nr |-> s.nr]
  OBVIOUS
<1> HIDE DEF r, q
<1> QED  BY <1>1, <1>2, <1>3

LEMMA AssignedTable ==
  ASSUME NEW t, IsTable(t), NEW k, NEW ty, NEW e
  PROVE  /\ IsTable(Assigned(t, k, ty, e)) /\ DOMAIN Assigned(t, k, ty, e) = DOMAIN t \cup {k}
         /\ \A x \in DOMAIN t \ {k} : Assigned(t, k, ty, e)[x] = t[x]
         /\ Assigned(t, k, ty, e)[k].type = ty
         /\ Assigned(t, k, ty, e)[k].flags = IF k \in DOMAIN t THEN t[k].flags ELSE {}
<1> DEFINE known == new_import(t, k)
<1>1. IsTable(known) /\ DOMAIN known = DOMAIN t \cup {k} /\ \A x \in DOMAIN t : known[x] = t[x]
  BY NewImport DEF Extended, new_import, Defined, Enter
<1>2. k \notin DOMAIN t => known[k].flags = {}
  BY NewImport DEF Extended
<1> HIDE DEF known
<1>3. Assigned(t, k, ty, e) = [known EXCEPT ![k].type = ty, ![k].expr = e]
  BY DEF Assigned, known
<1> DEFINE s == known[k]
           n == [type |-> ty, flags |-> s.flags, expr |-> e, pc |-> s.pc, nr |-> s.nr]
<1>4. [[s EXCEPT !.type = ty] EXCEPT !.expr = e] = n
  <2>1. SymRec(s)
    BY <1>1 DEF IsTable
  <2> HIDE DEF s
  <2> QED  BY <2>1, RecordValue
<1>5. Assigned(t, k, ty, e) = [x \in DOMAIN known |-> IF x = k THEN n ELSE known[x]]
  BY <1>1, <1>3, <1>4 DEF IsTable
<1>6. SymRec(n) /\ n.type = ty /\ n.flags = s.flags
  BY DEF SymRec
<1> DEFINE r == Assigned(t, k, ty, e)
<1> HIDE DEF n
<1>7. DOMAIN r = DOMAIN t \cup {k} /\ r[k] = n /\ \A x \in DOMAIN t \ {k} : r[x] = t[x]
  BY <1>1, <1>5
<1>8. r = [x \in DOMAIN r |-> r[x]]
  BY <1>5
<1>9. \A x \in DOMAIN r : SymRec(r[x])
  BY <1>1, <1>5, <1>6 DEF IsTable
<1>10. k \in DOMAIN t => s.flags = t[k].flags
  BY <1>1
<1> HIDE DEF r
<1> QED  BY <1>2, <1>6, <1>7, <1>8, <1>9, <1>10 DEF IsTable, r

LEMMA FlaggedTable ==
  ASSUME NEW t, IsTable(t), NEW k \in DOMAIN t, NEW f
  PROVE  /\ IsTable(Flagged(t, k, f)) /\ DOMAIN Flagged(t, k, f) = DOMAIN t
         /\ \A x \in DOMAIN t \ {k} : Flagged(t, k, f)[x] = t[x]
         /\ Flagged(t, k, f)[k].type = t[k].type
         /\ Flagged(t, k, f)[k].flags = t[k].flags \cup f
<1> DEFINE s == t[k]
           n == [type |-> s.type, flags |-> s.flags \cup f, expr |-> s.expr, pc |-> s.pc, nr |-> s.nr]
<1>1. [s EXCEPT !.flags = @ \cup f] = n
  BY RecordFlags DEF IsTable
<1>2. Flagged(t, k, f) = [x \in DOMAIN t |-> IF x = k THEN n ELSE t[x]]
  BY <1>1 DEF IsTable, Flagged
<1>3. SymRec(n) /\ n.type = s.type /\ n.flags = s.flags \cup f
  BY DEF SymRec
<1> DEFINE r == Flagged(t, k, f)
<1> HIDE DEF n
<1>4. DOMAIN r = DOMAIN t /\ r[k] = n /\ \A x \in DOMAIN t \ {k} : r[x] = t[x]
  BY <1>2
<1>5. r = [x \in DOMAIN r |-> r[x]]
  BY <1>2
<1>6. \A x \in DOMAIN r : SymRec(r[x])
  BY <1>2, <1>3 DEF IsTable
<1> HIDE DEF r
<1> QED  BY <1>3, <1>4, <1>5, <1>6 DEF IsTable, r

----------------------------------------------------------------------------
(* What a symbol is when nothing was reported.                             *)

\* A symbol is what the lines that defined it made of it.
Fits(s, how) ==
  \/ how = "label" /\ s.type = "label"
  \/ how = "set" /\ s.type = "expression" /\ "EQUATE" \notin s.flags
  \/ how = "equ" /\ s.type = "expression" /\ "EQUATE" \in s.flags
  \/ how = "equs" /\ s.type = "string"

Marked(s) ==
  /\ s.type = "import" => "EQUATE" \notin s.flags
  /\ s.type = "label" => "XREF" \notin s.flags

Fitting(t, ds) ==
  /\ \A i \in DOMAIN ds : ds[i].key \in DOMAIN t /\ Fits(t[ds[i].key], ds[i].how)
  /\ \A k \in DOMAIN t : Marked(t[k])

OneKind(ds) ==
  \A i, j \in DOMAIN ds :
    (i # j /\ ds[i].key = ds[j].key) => (ds[i].how = ds[j].how /\ ds[i].how \in {"set", "equs"})

NoXrefLabel(t, ds) ==
  \A k \in DOMAIN t : "XREF" \in t[k].flags => \A i \in DOMAIN ds : ds[i].key = k => ds[i].how # "label"

LEMMA FittingNoXref ==
  ASSUME NEW t, NEW ds, Fitting(t, ds)
  PROVE  NoXrefLabel(t, ds)
BY DEF Fitting, NoXrefLabel, Fits, Marked

LEMMA FittingExtended ==
  ASSUME NEW t, NEW r, NEW ds, Fitting(t, ds), Extended(t, r)
  PROVE  Fitting(r, ds)
<1>1. \A i \in DOMAIN ds : ds[i].key \in DOMAIN r /\ Fits(r[ds[i].key], ds[i].how)
  BY DEF Fitting, Extended
<1>2. ASSUME NEW k \in DOMAIN r
      PROVE  Marked(r[k])
  <2>1. CASE k \in DOMAIN t
    BY <2>1 DEF Fitting, Extended
  <2>2. CASE k \notin DOMAIN t
    BY <2>2 DEF Extended, Marked
  <2> QED  BY <2>1, <2>2
<1> QED  BY <1>1, <1>2 DEF Fitting

\* A line that defines k anew: the table t becomes r, the definitions ds get d.
LEMMA NewDefinition ==
  ASSUME NEW t, NEW r, NEW k, NEW ds, IsSeq(ds), NEW d, d.key = k,
         Fitting(t, ds), OneKind(ds),
         DOMAIN r = DOMAIN t \cup {k},
         \A x \in DOMAIN t \ {k} : r[x] = t[x],
         Fits(r[k], d.how), Marked(r[k]),
         \A i \in DOMAIN ds : ds[i].key = k => (ds[i].how = d.how /\ d.how \in {"set", "equs"})
  PROVE  Fitting(r, Append(ds, d)) /\ OneKind(Append(ds, d))
<1> DEFINE n  == Len(ds) + 1
           es == Append(ds, d)
<1>1. /\ DOMAIN ds = 1 .. Len(ds) /\ DOMAIN es = 1 .. n /\ Len(ds) \in Nat
      /\ \A i \in 1 .. Len(ds) : es[i] = ds[i]
      /\ es[n] = d
  BY AppendIsSeq DEF IsSeq
<1> HIDE DEF es
<1>2. \A i \in DOMAIN es : \/ i \in DOMAIN ds /\ es[i] = ds[i]
                           \/ i = n /\ es[i] = d /\ i \notin DOMAIN ds
  BY <1>1
<1> HIDE DEF n
<1>3. ASSUME NEW i \in DOMAIN es
      PROVE  es[i].key \in DOMAIN r /\ Fits(r[es[i].key], es[i].how)
  <2>1. CASE i \in DOMAIN ds /\ es[i] = ds[i]
    <3>1. CASE ds[i].key = k
      BY <2>1, <3>1
    <3>2. CASE ds[i].key # k
      BY <2>1, <3>2 DEF Fitting
    <3> QED  BY <3>1, <3>2
  <2>2. CASE i = n /\ es[i] = d
    BY <2>2
  <2> QED  BY <1>2, <2>1, <2>2
<1>4. \A x \in DOMAIN r : Marked(r[x])
  BY DEF Fitting
<1>5. ASSUME NEW i \in DOMAIN es, NEW j \in DOMAIN es, i # j, es[i].key = es[j].key
      PROVE  es[i].how = es[j].how /\ es[i].how \in {"set", "equs"}
  <2>1. CASE i \in DOMAIN ds /\ j \in DOMAIN ds
    BY <1>2, <1>5, <2>1 DEF OneKind
  <2>2. CASE i \notin DOMAIN ds \/ j \notin DOMAIN ds
    BY <1>2, <1>5, <2>2
  <2> QED  BY <2>1, <2>2
<1> QED  BY <1>3, <1>4, <1>5 DEF Fitting, OneKind, es

----------------------------------------------------------------------------
(* DefinedOnce.                                                            *)

Clean == errors = {} /\ warnings = {}

Shape == IsTable(table) /\ IsSeq(defs)

Parsing == (phase = "parse" /\ Clean) => Fitting(table, defs)

Once == Clean => OneKind(defs) /\ NoXrefLabel(table, defs)

IInv == Shape /\ Parsing /\ Once

LEMMA OnceIsDefinedOnce == Once => DefinedOnce
BY DEF Once, Clean, DefinedOnce, OneKind, NoXrefLabel, DefsOf

LEMMA InitIInv == Init => IInv
<1> SUFFICES ASSUME Init PROVE IInv
  OBVIOUS
<1>1. table = [k \in {} |-> NewSymbol(<<>>)] /\ defs = <<>>
  BY DEF Init
<1>2. IsTable(table) /\ DOMAIN table = {}
  BY <1>1 DEF IsTable
<1>3. IsSeq(defs) /\ DOMAIN defs = {}
  BY <1>1 DEF IsSeq
<1> QED  BY <1>2, <1>3 DEF IInv, Shape, Parsing, Once, Fitting, OneKind, NoXrefLabel

\* What a line that defines something has to show.
LEMMA DefiningLine ==
  ASSUME IInv, NEW known, Extended(table, known), NEW k, NEW r, NEW d, d.key = k,
         phase = "parse",
         IsTable(r), DOMAIN r = DOMAIN known \cup {k},
         \A x \in DOMAIN known \ {k} : r[x] = known[x],
         Clean' => (Clean /\ Fits(r[k], d.how) /\ Marked(r[k])),
         Clean' => \A i \in DOMAIN defs : defs[i].key = k => (defs[i].how = d.how /\ d.how \in {"set", "equs"}),
         table' = r, defs' = Append(defs, d)
  PROVE  IInv'
<1>1. Shape'
  BY AppendIsSeq DEF Shape, IInv
<1>2. ASSUME Clean'
      PROVE  Fitting(r, Append(defs, d)) /\ OneKind(Append(defs, d))
  <2>1. Fitting(table, defs) /\ OneKind(defs) /\ IsSeq(defs)
    BY <1>2 DEF IInv, Shape, Parsing, Once
  <2>2. Fitting(known, defs)
    BY <2>1, FittingExtended
  <2> QED  BY <1>2, <2>1, <2>2, NewDefinition
<1>3. Clean' => NoXrefLabel(r, Append(defs, d))
  BY <1>2, FittingNoXref
<1> QED  BY <1>1, <1>2, <1>3 DEF IInv, Parsing, Once

\* What a line that only mentions symbols has to show.
LEMMA MentioningLine ==
  ASSUME IInv, NEW known, Extended(table, known), phase = "parse",
         Clean' => Clean, table' = known, defs' = defs
  PROVE  IInv'
<1>1. Shape'
  BY DEF Shape, IInv, Extended
<1>2. Clean' => Fitting(known, defs) /\ OneKind(defs)
  BY FittingExtended DEF IInv, Parsing, Once
<1> QED  BY <1>1, <1>2, FittingNoXref DEF IInv, Parsing, Once

\* What a step has to show that leaves the definitions alone and the symbols
\* what they are.
LEMMA KeptSymbols ==
  ASSUME IInv, Clean' => Clean, phase' = "parse" => phase = "parse",
         table' = table, defs' = defs
  PROVE  IInv'
BY DEF IInv, Shape, Parsing, Once

LEMMA EquStep ==
  ASSUME IInv, NEW l \in menu, EquLine(l), l.flags \subseteq {"EXPORT", "XDEF"}
  PROVE  IInv'
<1> DEFINE k     == Key(l.name)
           e     == Keyed(l.expr)
           known == Mentioned(table, e)
           mid   == Assigned(known, k, "expression", Simplified(known, e))
           r     == Flagged(mid, k, {"EQUATE"} \cup l.flags)
           d     == [key |-> k, how |-> "equ", expr |-> e, line |-> line', pc |-> Pc]
<1>1. Extended(table, known) /\ IsTable(known)
  BY MentionedExtends DEF IInv, Shape, Extended
<1>2. /\ phase = "parse" /\ table' = r /\ defs' = Append(defs, d)
      /\ errors' = errors \cup check_symbol(known, k) \cup AbsErrors(known, k)
      /\ warnings' = warnings \cup AbsWarnings(known, k)
  BY DEF EquLine, Reading, Define
<1> HIDE DEF known
<1>3. /\ IsTable(mid) /\ DOMAIN mid = DOMAIN known \cup {k}
      /\ \A x \in DOMAIN known \ {k} : mid[x] = known[x]
      /\ mid[k].type = "expression"
      /\ mid[k].flags = IF k \in DOMAIN known THEN known[k].flags ELSE {}
  BY <1>1, AssignedTable
<1> HIDE DEF mid
<1>4. /\ IsTable(r) /\ DOMAIN r = DOMAIN known \cup {k}
      /\ \A x \in DOMAIN known \ {k} : r[x] = known[x]
      /\ r[k].type = "expression" /\ "EQUATE" \in r[k].flags
  BY <1>3, FlaggedTable
<1>5. d.key = k /\ d.how = "equ"
  OBVIOUS
<1> HIDE DEF r, d
<1>6. Clean' => Clean /\ (k \in DOMAIN known => known[k].type = "import")
  BY <1>2 DEF Clean, check_symbol, Defined
<1>7. Clean' => \A i \in DOMAIN defs : defs[i].key # k
  <2>1. Clean' => Fitting(known, defs)
    BY <1>1, <1>2, <1>6, FittingExtended DEF IInv, Parsing
  <2> QED  BY <1>6, <2>1 DEF Fitting, Fits
<1> HIDE DEF k
<1> QED  BY <1>1, <1>2, <1>4, <1>5, <1>6, <1>7, DefiningLine DEF Fits, Marked

LEMMA SetStep ==
  ASSUME IInv, NEW l \in menu, SetLine(l)
  PROVE  IInv'
<1> DEFINE k     == Key(l.name)
           e     == Keyed(l.expr)
           known == Mentioned(table, e)
           r     == Assigned(known, k, "expression", Simplified(known, e))
           d     == [key |-> k, how |-> "set", expr |-> e, line |-> line', pc |-> Pc]
<1>1. Extended(table, known) /\ IsTable(known)
  BY MentionedExtends DEF IInv, Shape, Extended
<1>2. /\ phase = "parse" /\ table' = r /\ defs' = Append(defs, d)
      /\ errors' = errors \cup AbsErrors(known, k)
      /\ warnings' = warnings \cup AbsWarnings(known, k)
  BY DEF SetLine, Reading, Define
<1> HIDE DEF known
<1>3. /\ IsTable(r) /\ DOMAIN r = DOMAIN known \cup {k}
      /\ \A x \in DOMAIN known \ {k} : r[x] = known[x]
      /\ r[k].type = "expression"
      /\ r[k].flags = IF k \in DOMAIN known THEN known[k].flags ELSE {}
  BY <1>1, AssignedTable
<1>4. d.key = k /\ d.how = "set"
  OBVIOUS
<1> HIDE DEF r, d
<1>5. Clean' => /\ Clean
                /\ k \in DOMAIN known =>
                     known[k].type \in {"import", "expression"} /\ "EQUATE" \notin known[k].flags
  BY <1>2 DEF Clean, AbsErrors, AbsWarnings, Defined
<1>6. Clean' => \A i \in DOMAIN defs : defs[i].key = k => defs[i].how = "set"
  <2>1. Clean' => Fitting(known, defs)
    BY <1>1, <1>2, <1>5, FittingExtended DEF IInv, Parsing
  <2> QED  BY <1>5, <2>1 DEF Fitting, Fits
<1> HIDE DEF k
<1> QED  BY <1>1, <1>2, <1>3, <1>4, <1>5, <1>6, DefiningLine DEF Fits, Marked

LEMMA EqusStep ==
  ASSUME IInv, NEW l \in menu, EqusLine(l)
  PROVE  IInv'
<1> DEFINE k == Key(l.name)
           r == Assigned(table, k, "string", l.expr)
           d == [key |-> k, how |-> "equs", expr |-> l.expr, line |-> line', pc |-> Pc]
<1>1. Extended(table, table) /\ IsTable(table)
  BY DEF IInv, Shape, Extended
<1>2. /\ phase = "parse" /\ table' = r /\ defs' = Append(defs, d) /\ warnings' = warnings
      /\ errors' = errors \cup AbsErrors(table, k)
                     \cup (IF Defined(table, k) /\ table[k].type # "string" THEN {89} ELSE {})
  BY DEF EqusLine, Reading, Define
<1>3. /\ IsTable(r) /\ DOMAIN r = DOMAIN table \cup {k}
      /\ \A x \in DOMAIN table \ {k} : r[x] = table[x]
      /\ r[k].type = "string"
      /\ r[k].flags = IF k \in DOMAIN table THEN table[k].flags ELSE {}
  BY <1>1, AssignedTable
<1>4. d.key = k /\ d.how = "equs"
  OBVIOUS
<1> HIDE DEF r, d
<1>5. Clean' => Clean /\ (k \in DOMAIN table => table[k].type = "string")
  BY <1>2 DEF Clean, Defined
<1>6. Clean' => \A i \in DOMAIN defs : defs[i].key = k => defs[i].how = "equs"
  BY <1>2, <1>5 DEF IInv, Parsing, Fitting, Fits
<1> HIDE DEF k
<1> QED  BY <1>1, <1>2, <1>3, <1>4, <1>5, <1>6, DefiningLine DEF Fits, Marked

LEMMA RecordPlace ==
  ASSUME NEW s, SymRec(s), NEW ty, NEW p
  PROVE  [[s EXCEPT !.type = ty] EXCEPT !.pc = p]
           = [type |-> ty, flags |-> s.flags, expr |-> s.expr, pc |-> p, nr |-> s.nr]
<1> DEFINE r == [type |-> s.type, flags |-> s.flags, expr |-> s.expr, pc |-> s.pc, nr |-> s.nr]
           q == [type |-> ty, flags |-> s.flags, expr |-> s.expr, pc |-> s.pc, nr |-> s.nr]
<1>1. s = r
  BY DEF SymRec
<1>2. [r EXCEPT !.type = ty] = q
  OBVIOUS
<1>3. [q EXCEPT !.pc = p] = [type |-> ty, flags |-> s.flags, expr |-> s.expr, pc |-> p, nr |-> s.nr]
  OBVIOUS
<1> HIDE DEF r, q
<1> QED  BY <1>1, <1>2, <1>3

LEMMA LabelStep ==
  ASSUME IInv, NEW l \in menu, LabelLine(l), l.flags \subseteq {"EXPORT", "XDEF"}
  PROVE  IInv'
<1> DEFINE k     == Key(l.name)
           known == new_import(table, k)
           abs   == IF absolute THEN {"ABSLABEL"} ELSE {}
           d     == [key |-> k, how |-> "label", expr |-> Number(0), line |-> line', pc |-> Pc]
<1>1. Extended(table, known) /\ IsTable(known) /\ k \in DOMAIN known
  BY NewImport DEF IInv, Shape, Extended
<1>2. /\ phase = "parse" /\ defs' = Append(defs, d) /\ warnings' = warnings
      /\ errors' = errors \cup LabelErrors(table, k)
  BY DEF LabelLine, Reading, Define
<1>3. d.key = k /\ d.how = "label"
  OBVIOUS
<1>4. CASE 74 \in LabelErrors(table, k)
  <2>1. table' = table
    BY <1>4 DEF LabelLine
  <2>2. ~Clean'
    BY <1>2, <1>4 DEF Clean
  <2> HIDE DEF d
  <2>3. Shape'
    BY <1>2, <2>1, AppendIsSeq DEF Shape, IInv
  <2> QED  BY <2>2, <2>3 DEF IInv, Parsing, Once
<1>5. CASE 74 \notin LabelErrors(table, k)
  <2>1. table' = [known EXCEPT ![k].type = "label", ![k].pc = Pc, ![k].flags = @ \cup abs \cup l.flags]
    BY <1>5 DEF LabelLine
  <2>2. abs \subseteq {"ABSLABEL"}
    OBVIOUS
  <2> HIDE DEF abs, known, d, k
  <2> DEFINE s == known[k]
             w == [[[s EXCEPT !.type = "label"] EXCEPT !.pc = Pc] EXCEPT !.flags = @ \cup abs \cup l.flags]
             n == [type |-> "label", flags |-> s.flags \cup abs \cup l.flags, expr |-> s.expr, pc |-> Pc,
                   nr |-> s.nr]
  <2>8. w = n
    <3>1. SymRec(s)
      BY <1>1 DEF IsTable
    <3> HIDE DEF s
    <3> DEFINE o == [type |-> "label", flags |-> s.flags, expr |-> s.expr, pc |-> Pc, nr |-> s.nr]
               v == [[s EXCEPT !.type = "label"] EXCEPT !.pc = Pc]
    <3>2. v = o
      BY <3>1, RecordPlace
    <3>3. [o EXCEPT !.flags = o.flags \cup abs \cup l.flags] = n
      OBVIOUS
    <3>4. [v EXCEPT !.flags = v.flags \cup abs \cup l.flags] = [o EXCEPT !.flags = o.flags \cup abs \cup l.flags]
      <4> HIDE DEF v, o
      <4> QED  BY <3>2
    <3> QED  BY <3>3, <3>4
  <2>9. table' = [known EXCEPT ![k] = w]
    BY <1>1, <2>1 DEF IsTable
  <2>10. SymRec(n) /\ n.type = "label" /\ n.flags = s.flags \cup abs \cup l.flags
    BY DEF SymRec
  <2> HIDE DEF w, n
  <2> PICK r : r = table'
    OBVIOUS
  <2>11. r = [x \in DOMAIN known |-> IF x = k THEN n ELSE known[x]]
    BY <2>8, <2>9 DEF IsTable
  <2>12. r = [x \in DOMAIN r |-> r[x]] /\ \A x \in DOMAIN r : SymRec(r[x])
    BY <1>1, <2>10, <2>11 DEF IsTable
  <2>3. /\ IsTable(r) /\ DOMAIN r = DOMAIN known
        /\ \A x \in DOMAIN known \ {k} : r[x] = known[x]
        /\ r[k].type = "label" /\ r[k].flags = known[k].flags \cup abs \cup l.flags
    BY <1>1, <2>10, <2>11, <2>12 DEF IsTable
  <2>4. /\ k \in DOMAIN table => table[k].type = "import"
        /\ Clean' => Clean /\ (k \in DOMAIN table => "XREF" \notin table[k].flags)
    BY <1>2, <1>5 DEF Clean, LabelErrors, Defined
  <2>5. Clean' => "XREF" \notin known[k].flags
    BY <1>1, <2>4 DEF Extended
  <2>6. Clean' => Fits(r[k], d.how) /\ Marked(r[k])
    BY <1>3, <2>2, <2>3, <2>5 DEF Fits, Marked
  <2>7. Clean' => \A i \in DOMAIN defs : defs[i].key # k
    BY <1>2, <2>4 DEF IInv, Parsing, Fitting, Fits
  <2> QED  BY <1>1, <1>2, <1>3, <2>3, <2>4, <2>6, <2>7, DefiningLine
<1> QED  BY <1>4, <1>5

LEMMA BindStep ==
  ASSUME IInv, NEW l \in menu, BindLine(l), l.flags \subseteq {"EXPORT", "XDEF", "XREF"}
  PROVE  IInv'
<1> DEFINE k     == Key(l.name)
           known == new_import(table, k)
           r     == Flagged(known, k, l.flags)
<1>1. Extended(table, known) /\ IsTable(known) /\ k \in DOMAIN known
  BY NewImport DEF IInv, Shape, Extended
<1>2. /\ phase = "parse" /\ table' = r /\ defs' = defs /\ warnings' = warnings
      /\ errors' = errors \cup (IF "XREF" \in l.flags /\ r[k].type # "import" THEN {85} ELSE {})
  BY DEF BindLine, Reading
<1> HIDE DEF known
<1>3. /\ IsTable(r) /\ DOMAIN r = DOMAIN known
      /\ \A x \in DOMAIN known \ {k} : r[x] = known[x]
      /\ r[k].type = known[k].type
      /\ r[k].flags = known[k].flags \cup l.flags
  BY <1>1, FlaggedTable
<1> HIDE DEF r
<1>4. Shape'
  BY <1>2, <1>3 DEF IInv, Shape
<1>5. ASSUME Clean'
      PROVE  Fitting(r, defs) /\ OneKind(defs)
  <2>1. Clean /\ ("XREF" \in l.flags => r[k].type = "import")
    BY <1>2, <1>5 DEF Clean
  <2>2. Fitting(known, defs) /\ OneKind(defs)
    BY <1>1, <1>2, <2>1, FittingExtended DEF IInv, Parsing, Once
  <2> HIDE DEF k
  <2>3. ASSUME NEW x \in DOMAIN r
        PROVE  Marked(r[x]) /\ \A how : Fits(known[x], how) => Fits(r[x], how)
    <3>1. CASE x = k
      BY <1>1, <1>3, <2>1, <2>2, <3>1 DEF Fitting, Marked, Fits
    <3>2. CASE x # k
      BY <1>3, <2>2, <3>2 DEF Fitting
    <3> QED  BY <3>1, <3>2
  <2> QED  BY <1>3, <2>2, <2>3 DEF Fitting
<1> QED  BY <1>2, <1>4, <1>5, FittingNoXref DEF IInv, Parsing, Once

LEMMA DataStep ==
  ASSUME IInv, NEW l \in menu, DataLine(l)
  PROVE  IInv'
<1> DEFINE known == Mentioned(table, Keyed(l.expr))
<1>1. Extended(table, known)
  BY MentionedExtends DEF IInv, Shape
<1>2. phase = "parse" /\ table' = known /\ defs' = defs /\ errors' = errors /\ warnings' = warnings
  BY DEF DataLine, Reading
<1>3. Clean' => Clean
  BY <1>2 DEF Clean
<1> HIDE DEF known
<1> QED  BY <1>1, <1>2, <1>3, MentioningLine

\* fix_labels() turns symbols into each other, but never touches their flags.
LEMMA FixedSymbol ==
  ASSUME NEW t, IsTable(t), NEW k \in DOMAIN t
  PROVE  SymRec(Fixed(t, k)) /\ Fixed(t, k).flags = t[k].flags
<1> DEFINE s == t[k]
           e == Number(s.pc)
           o == eval_expr(t, s.expr, FALSE, 0)
           b == t[o.base]
<1>1. SymRec(s)
  BY DEF IsTable
<1>2. [s EXCEPT !.type = "expression", !.expr = e]
        = [type |-> "expression", flags |-> s.flags, expr |-> e, pc |-> s.pc, nr |-> s.nr]
  <2> HIDE DEF s, e
  <2> QED  BY <1>1, RecordValue
<1>3. [s EXCEPT !.type = b.type, !.pc = o.v]
        = [type |-> b.type, flags |-> s.flags, expr |-> s.expr, pc |-> o.v, nr |-> s.nr]
  <2> HIDE DEF s, b, o
  <2> QED  BY <1>1, RecordPlace
<1>4. \/ Fixed(t, k) = [s EXCEPT !.type = "expression", !.expr = e]
      \/ Fixed(t, k) = [s EXCEPT !.type = b.type, !.pc = o.v]
      \/ Fixed(t, k) = s
  BY DEF Fixed
<1> HIDE DEF s, e, o, b
<1>5. \/ Fixed(t, k) = [type |-> "expression", flags |-> s.flags, expr |-> e, pc |-> s.pc, nr |-> s.nr]
      \/ Fixed(t, k) = [type |-> b.type, flags |-> s.flags, expr |-> s.expr, pc |-> o.v, nr |-> s.nr]
      \/ Fixed(t, k) = s
  BY <1>2, <1>3, <1>4
<1> QED  BY <1>1, <1>5 DEF SymRec, s

LEMMA FixStep ==
  ASSUME IInv, FixLabel
  PROVE  IInv'
<1> PICK k \in fixing :
      IF table[k].type = "expression" /\ eval_expr(table, table[k].expr, FALSE, 0).kind = "cycle"
      THEN phase' = "fatal" /\ UNCHANGED <<table, errors>>
      ELSE /\ table' = [table EXCEPT ![k] = Fixed(table, k)]
           /\ errors' = errors \cup FixErrors(table, k)
           /\ UNCHANGED phase
  BY DEF FixLabel
<1>1. phase = "fix" /\ phase' # "parse" /\ defs' = defs /\ warnings' = warnings /\ (Clean' => Clean)
  BY DEF FixLabel, Untouched, Clean
<1>2. table' = table \/ table' = [table EXCEPT ![k] = Fixed(table, k)]
  OBVIOUS
<1>3. IsTable(table)
  BY DEF IInv, Shape
<1>4. /\ IsTable(table') /\ DOMAIN table' = DOMAIN table
      /\ \A x \in DOMAIN table : table'[x].flags = table[x].flags
  <2>1. CASE table' = table \/ k \notin DOMAIN table
    BY <1>2, <1>3, <2>1 DEF IsTable
  <2>2. CASE table' = [table EXCEPT ![k] = Fixed(table, k)] /\ k \in DOMAIN table
    <3> PICK n : n = Fixed(table, k)
      OBVIOUS
    <3>1. SymRec(n) /\ n.flags = table[k].flags
      BY <1>3, <2>2, FixedSymbol
    <3> PICK r : r = table'
      OBVIOUS
    <3>2. r = [x \in DOMAIN table |-> IF x = k THEN n ELSE table[x]]
      BY <1>3, <2>2 DEF IsTable
    <3>3. r = [x \in DOMAIN r |-> r[x]] /\ \A x \in DOMAIN r : SymRec(r[x])
      BY <1>3, <3>1, <3>2 DEF IsTable
    <3>4. DOMAIN r = DOMAIN table /\ \A x \in DOMAIN table : r[x].flags = table[x].flags
      BY <3>1, <3>2
    <3> QED  BY <3>3, <3>4 DEF IsTable
  <2> QED  BY <1>2, <2>1, <2>2
<1>5. Shape'
  BY <1>1, <1>4 DEF IInv, Shape
<1>6. Once'
  BY <1>1, <1>4 DEF IInv, Once, NoXrefLabel
<1> QED  BY <1>1, <1>5, <1>6 DEF IInv, Parsing

LEMMA StepIInv == IInv /\ menu \in Menus /\ [Next]_vars => IInv'
<1> SUFFICES ASSUME IInv, menu \in Menus, [Next]_vars PROVE IInv'
  OBVIOUS
<1>1. ASSUME NEW l \in menu, EquLine(l) PROVE IInv'
  BY <1>1, EquStep, SymbolsAssumption DEF EquLine, Reading
<1>2. ASSUME NEW l \in menu, SetLine(l) PROVE IInv'
  BY <1>2, SetStep
<1>3. ASSUME NEW l \in menu, EqusLine(l) PROVE IInv'
  BY <1>3, EqusStep
<1>4. ASSUME NEW l \in menu, LabelLine(l) PROVE IInv'
  BY <1>4, LabelStep, SymbolsAssumption DEF LabelLine, Reading
<1>5. ASSUME NEW l \in menu, BindLine(l) PROVE IInv'
  BY <1>5, BindStep, SymbolsAssumption DEF BindLine, Reading
<1>6. ASSUME NEW l \in menu, DataLine(l) PROVE IInv'
  BY <1>6, DataStep
<1>7. ASSUME NEW l \in menu, ModuleLine(l) PROVE IInv'
  BY <1>7, KeptSymbols DEF ModuleLine, Reading, ScopeKept, Clean
<1>8. ASSUME NEW l \in menu, ModendLine(l) PROVE IInv'
  BY <1>8, KeptSymbols DEF ModendLine, Reading, ScopeKept, Clean
<1>9. CASE EndOfSource
  BY <1>9, KeptSymbols DEF EndOfSource, Untouched, Clean
<1>10. CASE Resolve
  BY <1>10, KeptSymbols DEF Resolve, Untouched, Clean
<1>11. CASE Assemble
  BY <1>11, KeptSymbols DEF Assemble, Untouched, Clean
<1>12. CASE UndefSyms
  BY <1>12, KeptSymbols DEF UndefSyms, Untouched, Clean
<1>13. CASE FixLabel
  BY <1>13, FixStep
<1>14. CASE EndOfFix
  BY <1>14, KeptSymbols DEF EndOfFix, Untouched, Clean
<1>15. CASE UNCHANGED vars
  BY <1>15, KeptSymbols DEF vars, Clean
<1> QED
  BY <1>1, <1>2, <1>3, <1>4, <1>5, <1>6, <1>7, <1>8, <1>9, <1>10, <1>11, <1>12, <1>13, <1>14, <1>15
  DEF Next, ReadLine

LEMMA MenuKept == menu \in Menus /\ [Next]_vars => (menu \in Menus)'
<1> SUFFICES ASSUME menu \in Menus, [Next]_vars PROVE menu' \in Menus
  OBVIOUS
<1>1. ASSUME NEW l \in menu,
             \/ EquLine(l) \/ SetLine(l) \/ EqusLine(l) \/ LabelLine(l) \/ BindLine(l)
             \/ DataLine(l) \/ ModuleLine(l) \/ ModendLine(l)
      PROVE  menu' = menu
  BY <1>1 DEF EquLine, SetLine, EqusLine, LabelLine, BindLine, DataLine, ModuleLine, ModendLine, Reading
<1>2. CASE EndOfSource \/ Resolve \/ Assemble \/ UndefSyms \/ FixLabel \/ EndOfFix
  BY <1>2 DEF EndOfSource, Resolve, Assemble, UndefSyms, FixLabel, EndOfFix, Untouched
<1>3. CASE UNCHANGED vars
  BY <1>3 DEF vars
<1> QED  BY <1>1, <1>2, <1>3 DEF Next, ReadLine

\* For every source: a name that is defined twice without a message was defined
\* with set each time, or with equs each time, and no label has a name declared
\* with xref (new_equate(), new_abs(), new_strsym(), new_labsym(), do_bind()).
THEOREM DefinedOnceHolds == Spec => []DefinedOnce
<1> DEFINE J == IInv /\ menu \in Menus
<1>1. Init => J
  BY InitIInv DEF Init
<1>2. J /\ [Next]_vars => J'
  BY StepIInv, MenuKept
<1>3. J => DefinedOnce
  BY OnceIsDefinedOnce DEF IInv
<1> QED  BY <1>1, <1>2, <1>3, PTL DEF Spec

----------------------------------------------------------------------------
(* LocalScope.                                                             *)

\* The scopes of the modules around a line, and the labels they hide.
Scopes ==
  /\ IsSeq(scopes) /\ IsSeq(inline_stack) /\ Len(scopes) = Len(inline_stack) + 1
  /\ inline_stack # <<>> => saved_last_global_label = scopes[1]

ScopeInv == Scopes /\ LocalScope

LEMMA EmptyIsLenZero ==
  ASSUME NEW s, IsSeq(s)
  PROVE  s = <<>> <=> Len(s) = 0
BY DEF IsSeq

LEMMA SubSeqIsSeq ==
  ASSUME NEW s, IsSeq(s), NEW n \in 0 .. Len(s)
  PROVE  /\ IsSeq(SubSeq(s, 1, n)) /\ Len(SubSeq(s, 1, n)) = n
         /\ \A i \in 1 .. n : SubSeq(s, 1, n)[i] = s[i]
<1> DEFINE S == {s[i] : i \in 1 .. Len(s)}
<1>1. s \in Seq(S) /\ Len(s) \in Nat /\ n \in Nat /\ n <= Len(s)
  BY IsSeqInSeq DEF IsSeq
<1> HIDE DEF S
<1>2. /\ SubSeq(s, 1, n) \in Seq(S) /\ Len(SubSeq(s, 1, n)) = n
      /\ \A i \in 1 .. n : SubSeq(s, 1, n)[i] = s[i]
  BY <1>1
<1> QED  BY <1>2, SeqIsSeq

LEMMA InitScopes == Init => ScopeInv
<1> SUFFICES ASSUME Init PROVE ScopeInv
  OBVIOUS
<1>1. /\ scopes = <<NoScope>> /\ inline_stack = <<>> /\ last_global_label = NoScope
  BY DEF Init
<1>2. IsSeq(scopes) /\ IsSeq(inline_stack) /\ Len(scopes) = 1 /\ Len(inline_stack) = 0 /\ scopes[1] = NoScope
  BY <1>1 DEF IsSeq
<1> QED  BY <1>1, <1>2 DEF ScopeInv, Scopes, LocalScope

LEMMA KeptScopes ==
  ASSUME ScopeInv, scopes' = scopes, inline_stack' = inline_stack,
         last_global_label' = last_global_label, saved_last_global_label' = saved_last_global_label
  PROVE  ScopeInv'
BY DEF ScopeInv, Scopes, LocalScope

LEMMA LabelScopes ==
  ASSUME ScopeInv, NEW l, LabelLine(l)
  PROVE  ScopeInv'
<1>1. CASE l.name \in Locals
  BY <1>1, KeptScopes DEF LabelLine
<1>2. CASE l.name \notin Locals
  <2> PICK n, s : n = Len(scopes) /\ s = LabelScope(l.name)
    OBVIOUS
  <2>1. /\ last_global_label' = s /\ scopes' = [scopes EXCEPT ![n] = s]
        /\ saved_last_global_label' = saved_last_global_label /\ inline_stack' = inline_stack
    BY <1>2 DEF LabelLine
  <2>2. /\ IsSeq(scopes) /\ n \in Nat \ {0} /\ Len(inline_stack) = n - 1 /\ Len(inline_stack) \in Nat
        /\ inline_stack # <<>> => n > 1
    BY EmptyIsLenZero DEF ScopeInv, Scopes, IsSeq
  <2> PICK r : r = scopes'
    OBVIOUS
  <2>3. r = [i \in 1 .. n |-> IF i = n THEN s ELSE scopes[i]]
    BY <2>1, <2>2 DEF IsSeq
  <2>4. Len(r) = n /\ IsSeq(r) /\ r[n] = s /\ (n > 1 => r[1] = scopes[1])
    BY <2>2, <2>3 DEF IsSeq
  <2>5. scopes' = r /\ Len(scopes') = n /\ scopes'[n] = s
    BY <2>4
  <2> QED  BY <2>1, <2>2, <2>4, <2>5 DEF ScopeInv, Scopes, LocalScope
<1> QED  BY <1>1, <1>2

LEMMA ModuleScopes ==
  ASSUME ScopeInv, NEW l, ModuleLine(l)
  PROVE  ScopeInv'
<1>1. CASE ~(Len(inline_stack) < INLSTACKSIZE)
  BY <1>1, KeptScopes DEF ModuleLine, ScopeKept
<1>2. CASE Len(inline_stack) < INLSTACKSIZE
  <2> PICK s : s = InlScope(next_id)
    OBVIOUS
  <2>1. /\ last_global_label' = s
        /\ saved_last_global_label' = IF inline_stack = <<>> THEN last_global_label ELSE saved_last_global_label
        /\ inline_stack' = Append(inline_stack, next_id)
        /\ scopes' = Append(scopes, s)
    BY <1>2 DEF ModuleLine
  <2>2. /\ IsSeq(scopes) /\ IsSeq(inline_stack) /\ Len(scopes) = Len(inline_stack) + 1
        /\ Len(inline_stack) \in Nat
        /\ inline_stack = <<>> => Len(scopes) = 1
    BY EmptyIsLenZero DEF ScopeInv, Scopes, IsSeq
  <2>3. saved_last_global_label' = scopes[1]
    BY <2>1, <2>2 DEF ScopeInv, Scopes, LocalScope
  <2>4. /\ IsSeq(Append(inline_stack, next_id)) /\ Len(Append(inline_stack, next_id)) = Len(inline_stack) + 1
    BY <2>2, AppendIsSeq
  <2>5. /\ IsSeq(Append(scopes, s)) /\ Len(Append(scopes, s)) = Len(scopes) + 1
        /\ Append(scopes, s)[1] = scopes[1] /\ Append(scopes, s)[Len(scopes) + 1] = s
    BY <2>2, AppendIsSeq
  <2>6. Scopes'
    BY <2>1, <2>2, <2>3, <2>4, <2>5 DEF Scopes
  <2>7. LocalScope'
    BY <2>1, <2>5 DEF LocalScope
  <2> QED  BY <2>6, <2>7 DEF ScopeInv
<1> QED  BY <1>1, <1>2

LEMMA ModendScopes ==
  ASSUME ScopeInv, NEW l, ModendLine(l)
  PROVE  ScopeInv'
<1> PICK n : n = Len(inline_stack)
  OBVIOUS
<1> PICK outer : outer = SubSeq(inline_stack, 1, n - 1)
  OBVIOUS
<1>1. CASE inline_stack = <<>>
  BY <1>1, KeptScopes DEF ModendLine, ScopeKept
<1>2. CASE inline_stack # <<>>
  <2>1. /\ inline_stack' = outer
        /\ IF outer = <<>>
           THEN last_global_label' = saved_last_global_label /\ saved_last_global_label' = NoScope
           ELSE last_global_label' = InlScope(outer[Len(outer)]) /\ UNCHANGED saved_last_global_label
        /\ scopes' = SubSeq(scopes, 1, Len(scopes) - 1)
    BY <1>2 DEF ModendLine
  <2>2. /\ IsSeq(scopes) /\ IsSeq(inline_stack) /\ Len(scopes) = n + 1 /\ n \in Nat \ {0}
        /\ saved_last_global_label = scopes[1]
    BY <1>2, EmptyIsLenZero DEF ScopeInv, Scopes, IsSeq
  <2>3. IsSeq(outer) /\ Len(outer) = n - 1
    BY <2>2, SubSeqIsSeq
  <2> PICK r : r = scopes'
    OBVIOUS
  <2>4. IsSeq(r) /\ Len(r) = n /\ r[1] = scopes[1]
    <3>1. r = SubSeq(scopes, 1, n) /\ n \in 0 .. Len(scopes) /\ 1 \in 1 .. n
      BY <2>1, <2>2
    <3> QED  BY <2>2, <3>1, SubSeqIsSeq
  <2>5. outer = <<>> <=> n = 1
    <3>1. outer = <<>> <=> Len(outer) = 0
      BY <2>3, EmptyIsLenZero
    <3> QED  BY <2>2, <2>3, <3>1
  <2>6. Scopes'
    BY <2>1, <2>2, <2>3, <2>4, <2>5 DEF Scopes
  <2>7. LocalScope'
    BY <2>1, <2>2, <2>4, <2>5 DEF LocalScope
  <2> QED  BY <2>6, <2>7 DEF ScopeInv
<1> QED  BY <1>1, <1>2

LEMMA StepScopes == ScopeInv /\ [Next]_vars => ScopeInv'
<1> SUFFICES ASSUME ScopeInv, [Next]_vars PROVE ScopeInv'
  OBVIOUS
<1>1. ASSUME NEW l \in menu, EquLine(l) \/ SetLine(l) \/ EqusLine(l) \/ BindLine(l) \/ DataLine(l)
      PROVE  ScopeInv'
  BY <1>1, KeptScopes DEF EquLine, SetLine, EqusLine, BindLine, DataLine, ScopeKept
<1>2. CASE EndOfSource \/ Resolve \/ Assemble \/ UndefSyms \/ FixLabel \/ EndOfFix
  BY <1>2, KeptScopes DEF EndOfSource, Resolve, Assemble, UndefSyms, FixLabel, EndOfFix, Untouched
<1>3. CASE UNCHANGED vars
  BY <1>3, KeptScopes DEF vars
<1> QED  BY <1>1, <1>2, <1>3, LabelScopes, ModuleScopes, ModendScopes DEF Next, ReadLine

\* For every source: a module hides the local labels around it, and behind the
\* last modend the scope is the one before the first module (handle_module(),
\* handle_endmodule(), new_labsym()).
THEOREM LocalScopeHolds == Spec => []LocalScope
<1>1. Init => ScopeInv
  BY InitScopes
<1>2. ScopeInv /\ [Next]_vars => ScopeInv'
  BY StepScopes
<1>3. ScopeInv => LocalScope
  BY DEF ScopeInv
<1> QED  BY <1>1, <1>2, <1>3, PTL DEF Spec
----------------------------------------------------------------------------
(* Induction over the naturals, for sets, and what follows from it.         *)

LEMMA Below ==
  ASSUME NEW x \in Nat, NEW y \in Nat, y < x
  PROVE  <<y, x>> \in OpToRel(<, Nat)
<1> DEFINE pair == <<y, x>>
<1>1. pair \in Nat \X Nat /\ pair[1] < pair[2]
  OBVIOUS
<1> HIDE DEF pair
<1>2. pair \in {p \in Nat \X Nat : p[1] < p[2]}
  BY <1>1
<1>3. {p \in Nat \X Nat : p[1] < p[2]} = OpToRel(<, Nat)
  BY DEF OpToRel
<1> QED  BY <1>2, <1>3 DEF pair

LEMMA SetInduction ==
  ASSUME NEW S, 0 \in S, \A n \in Nat : n \in S => n + 1 \in S
  PROVE  \A n \in Nat : n \in S
<1> DEFINE T == Nat \ S
           R == OpToRel(<, Nat)
<1>1. \A x \in Nat : \A y \in Nat : y < x => <<y, x>> \in R
  BY Below, Zenon
<1>2. SUFFICES ASSUME T # {} PROVE FALSE
  OBVIOUS
<1>3. PICK x \in T : \A y \in T : <<y, x>> \notin R
  <2>1. T \subseteq Nat /\ IsWellFoundedOn(R, Nat)
    BY NatLessThanWellFounded
  <2> HIDE DEF T, R
  <2> QED  BY <1>2, <2>1, WFMin, Zenon
<1> HIDE DEF R
<1>4. x # 0 /\ x \in Nat
  OBVIOUS
<1>5. x - 1 \in Nat /\ x - 1 < x
  BY <1>4
<1>6. x - 1 \notin T
  BY <1>1, <1>3, <1>4, <1>5
<1> QED  BY <1>4, <1>5, <1>6

\* What holds of a number when it holds of the smaller ones holds of all.
LEMMA StrongInduction ==
  ASSUME NEW S, \A n \in Nat : (\A m \in 0 .. n - 1 : m \in S) => n \in S
  PROVE  \A n \in Nat : n \in S
<1> DEFINE T == {n \in Nat : \A m \in 0 .. n - 1 : m \in S}
<1>1. 0 \in T
  OBVIOUS
<1>2. ASSUME NEW n \in Nat, n \in T PROVE n + 1 \in T
  <2>1. n \in S
    BY <1>2
  <2>2. \A m \in 0 .. (n + 1) - 1 : m = n \/ m \in 0 .. n - 1
    OBVIOUS
  <2> QED  BY <1>2, <2>1, <2>2
<1> HIDE DEF T
<1>3. \A n \in Nat : n \in T
  BY <1>1, <1>2, SetInduction
<1> QED  BY <1>3 DEF T

\* Latest() is the greatest of some places.
LEMMA LatestIs ==
  ASSUME NEW n \in Nat, NEW P \in SUBSET (1 .. n), P # {}
  PROVE  Latest(P) \in P /\ \A j \in P : j <= Latest(P)
<1> DEFINE U == {m \in Nat : \A Q \in SUBSET (1 .. m) : Q # {} => \E i \in Q : \A j \in Q : j <= i}
<1>1. 0 \in U
  <2>1. 1 .. 0 = {}
    OBVIOUS
  <2> QED  BY <2>1
<1>2. ASSUME NEW m \in Nat, m \in U PROVE m + 1 \in U
  <2>1. SUFFICES ASSUME NEW Q \in SUBSET (1 .. m + 1), Q # {}
                 PROVE  \E i \in Q : \A j \in Q : j <= i
    OBVIOUS
  <2>2. CASE m + 1 \in Q
    BY <2>2
  <2>3. CASE m + 1 \notin Q
    <3>1. Q \in SUBSET (1 .. m)
      BY <2>3
    <3> QED  BY <1>2, <2>1, <3>1
  <2> QED  BY <2>2, <2>3
<1> HIDE DEF U
<1>3. n \in U
  BY <1>1, <1>2, SetInduction
<1>4. \E i \in P : \A j \in P : j <= i
  BY <1>3 DEF U
<1> QED  BY <1>4 DEF Latest

\* It is any place that none is greater than.
LEMMA LatestOf ==
  ASSUME NEW n \in Nat, NEW P \in SUBSET (1 .. n), NEW i \in P, \A j \in P : j <= i
  PROVE  Latest(P) = i
<1> PICK x : x = Latest(P)
  OBVIOUS
<1>1. x \in P /\ i <= x
  BY LatestIs
<1>2. x <= i /\ i \in 1 .. n /\ x \in 1 .. n
  BY <1>1
<1>3. x = i
  BY <1>1, <1>2
<1> QED  BY <1>3

----------------------------------------------------------------------------
(* The recursive functions of the model have the values they are defined with. *)

\* f[d] is what the symbols are when they are evaluated through d others.
ValueChain(t, insec, pc, f) ==
  /\ \A k \in DOMAIN t : f[0][k] = InEval
  /\ \A d \in 1 .. Cardinality(DOMAIN t) : \A k \in DOMAIN t :
       f[d][k] = SymbolValue(t, f[d - 1], k, insec, pc)
  /\ SymbolValues(t, insec, pc) = f[Cardinality(DOMAIN t)]

LEMMA ValueChainExists ==
  ASSUME NEW t, Cardinality(DOMAIN t) \in Nat, NEW insec, NEW pc
  PROVE  \E f : ValueChain(t, insec, pc, f)
<1> DEFINE N == Cardinality(DOMAIN t)
           row(d, x) == [k \in DOMAIN t |-> IF d = 0 THEN InEval ELSE SymbolValue(t, x, k, insec, pc)]
           Is(f, n) == f = [d \in 0 .. n |-> row(d, f[d - 1])]
           S == {n \in Nat : \E f : Is(f, n)}
<1>1. SymbolValues(t, insec, pc) = (CHOOSE f : Is(f, N))[N]
  BY DEF SymbolValues
<1>2. \A x, y : row(0, x) = row(0, y)
  OBVIOUS
<1>3. \A x : \A k \in DOMAIN t : row(0, x)[k] = InEval
  OBVIOUS
<1>4. \A d \in 1 .. N : \A x : \A k \in DOMAIN t : row(d, x)[k] = SymbolValue(t, x, k, insec, pc)
  OBVIOUS
<1> HIDE DEF row, N
<1>5. 0 \in S
  <2> DEFINE f == [d \in 0 .. 0 |-> row(0, 0)]
  <2>1. Is(f, 0)
    BY <1>2
  <2> QED  BY <2>1
<1>6. ASSUME NEW n \in Nat, n \in S PROVE n + 1 \in S
  <2> PICK f : Is(f, n)
    BY <1>6
  <2> DEFINE h == [d \in 0 .. n + 1 |-> IF d = n + 1 THEN row(n + 1, f[n]) ELSE f[d]]
  <2>1. ASSUME NEW d \in 0 .. n + 1 PROVE h[d] = row(d, h[d - 1])
    <3>1. CASE d = 0
      <4>1. h[0] = f[0] /\ f[0] = row(0, f[0 - 1])
        OBVIOUS
      <4> HIDE DEF h
      <4> QED  BY <1>2, <3>1, <4>1
    <3>2. CASE d \in 1 .. n
      <4>1. h[d] = f[d] /\ h[d - 1] = f[d - 1] /\ f[d] = row(d, f[d - 1])
        BY <3>2
      <4> HIDE DEF h
      <4> QED  BY <4>1
    <3>3. CASE d = n + 1
      <4>1. h[n + 1] = row(n + 1, f[n]) /\ h[n] = f[n] /\ (n + 1) - 1 = n
        OBVIOUS
      <4> HIDE DEF h
      <4> QED  BY <3>3, <4>1
    <3> QED  BY <3>1, <3>2, <3>3
  <2>2. Is(h, n + 1)
    <3> DEFINE same == [d \in 0 .. n + 1 |-> h[d]]
               rows == [d \in 0 .. n + 1 |-> row(d, h[d - 1])]
    <3>1. h = same
      OBVIOUS
    <3> HIDE DEF h
    <3>2. same = rows
      BY <2>1, Zenon
    <3>3. Is(h, n + 1) <=> h = rows
      OBVIOUS
    <3> HIDE DEF same, rows, Is
    <3> QED  BY <3>1, <3>2, <3>3
  <2> HIDE DEF h, Is
  <2> QED  BY <2>2
<1> HIDE DEF S
<1>7. N \in S
  BY <1>5, <1>6, SetInduction DEF N
<1> DEFINE o == CHOOSE f : Is(f, N)
<1>8. Is(o, N)
  <2> HIDE DEF Is
  <2> QED  BY <1>7 DEF S
<1> HIDE DEF o
<1>9. \A d \in 0 .. N : o[d] = row(d, o[d - 1])
  BY <1>8
<1>10. N \in Nat
  BY DEF N
<1>11. \A k \in DOMAIN t : o[0][k] = InEval
  <2>1. o[0] = row(0, o[0 - 1])
    BY <1>9, <1>10
  <2> QED  BY <1>3, <2>1
<1>12. \A d \in 1 .. N : \A k \in DOMAIN t : o[d][k] = SymbolValue(t, o[d - 1], k, insec, pc)
  BY <1>4, <1>9, <1>10
<1>13. SymbolValues(t, insec, pc) = o[N]
  BY <1>1 DEF o
<1>14. ValueChain(t, insec, pc, o)
  BY <1>11, <1>12, <1>13 DEF ValueChain, N
<1> QED  BY <1>14

\* f[d] is what the definitions mean when they are read through d others.
MeaningChain(f) ==
  /\ \A i \in DOMAIN defs : f[0][i] = Any
  /\ \A d \in 1 .. Len(defs) : \A i \in DOMAIN defs : f[d][i] = DefMeans(i, f[d - 1])
  /\ Meanings = f[Len(defs)]

LEMMA MeaningChainExists ==
  ASSUME Len(defs) \in Nat
  PROVE  \E f : MeaningChain(f)
<1> DEFINE N == Len(defs)
           row(d, x) == [i \in DOMAIN defs |-> IF d = 0 THEN Any ELSE DefMeans(i, x)]
           Is(f, n) == f = [d \in 0 .. n |-> row(d, f[d - 1])]
           S == {n \in Nat : \E f : Is(f, n)}
<1>1. Meanings = (CHOOSE f : Is(f, N))[N]
  BY DEF Meanings
<1>2. \A x, y : row(0, x) = row(0, y)
  OBVIOUS
<1>3. \A x : \A i \in DOMAIN defs : row(0, x)[i] = Any
  OBVIOUS
<1>4. \A d \in 1 .. N : \A x : \A i \in DOMAIN defs : row(d, x)[i] = DefMeans(i, x)
  OBVIOUS
<1> HIDE DEF row, N
<1>5. 0 \in S
  <2> DEFINE f == [d \in 0 .. 0 |-> row(0, 0)]
  <2>1. Is(f, 0)
    BY <1>2
  <2> QED  BY <2>1
<1>6. ASSUME NEW n \in Nat, n \in S PROVE n + 1 \in S
  <2> PICK f : Is(f, n)
    BY <1>6
  <2> DEFINE h == [d \in 0 .. n + 1 |-> IF d = n + 1 THEN row(n + 1, f[n]) ELSE f[d]]
  <2>1. ASSUME NEW d \in 0 .. n + 1 PROVE h[d] = row(d, h[d - 1])
    <3>1. CASE d = 0
      <4>1. h[0] = f[0] /\ f[0] = row(0, f[0 - 1])
        OBVIOUS
      <4> HIDE DEF h
      <4> QED  BY <1>2, <3>1, <4>1
    <3>2. CASE d \in 1 .. n
      <4>1. h[d] = f[d] /\ h[d - 1] = f[d - 1] /\ f[d] = row(d, f[d - 1])
        BY <3>2
      <4> HIDE DEF h
      <4> QED  BY <4>1
    <3>3. CASE d = n + 1
      <4>1. h[n + 1] = row(n + 1, f[n]) /\ h[n] = f[n] /\ (n + 1) - 1 = n
        OBVIOUS
      <4> HIDE DEF h
      <4> QED  BY <3>3, <4>1
    <3> QED  BY <3>1, <3>2, <3>3
  <2>2. Is(h, n + 1)
    <3> DEFINE same == [d \in 0 .. n + 1 |-> h[d]]
               rows == [d \in 0 .. n + 1 |-> row(d, h[d - 1])]
    <3>1. h = same
      OBVIOUS
    <3> HIDE DEF h
    <3>2. same = rows
      BY <2>1, Zenon
    <3>3. Is(h, n + 1) <=> h = rows
      OBVIOUS
    <3> HIDE DEF same, rows, Is
    <3> QED  BY <3>1, <3>2, <3>3
  <2> HIDE DEF h, Is
  <2> QED  BY <2>2
<1> HIDE DEF S
<1>7. N \in S
  BY <1>5, <1>6, SetInduction DEF N
<1> DEFINE o == CHOOSE f : Is(f, N)
<1>8. Is(o, N)
  <2> HIDE DEF Is
  <2> QED  BY <1>7 DEF S
<1> HIDE DEF o
<1>9. \A d \in 0 .. N : o[d] = row(d, o[d - 1])
  BY <1>8
<1>10. N \in Nat
  BY DEF N
<1>11. \A i \in DOMAIN defs : o[0][i] = Any
  <2>1. o[0] = row(0, o[0 - 1])
    BY <1>9, <1>10
  <2> QED  BY <1>3, <2>1
<1>12. \A d \in 1 .. N : \A i \in DOMAIN defs : o[d][i] = DefMeans(i, o[d - 1])
  BY <1>4, <1>9, <1>10
<1>13. Meanings = o[N]
  BY <1>1 DEF o
<1>14. MeaningChain(o)
  BY <1>11, <1>12, <1>13 DEF MeaningChain, N
<1> QED  BY <1>14

\* Whether definition i is a number when it is read, by what f says of those before.
KnownBy(f, i) ==
  /\ defs[i].how # "label"
  /\ \A k \in {defs[i].expr.plus, defs[i].expr.minus} \ {NoSym} :
       LET before == {j \in DefsOf(k) : j < i} IN before # {} /\ f[Latest(before)]

LEMMA KnownByEarlier ==
  ASSUME Len(defs) \in Nat, DOMAIN defs = 1 .. Len(defs), NEW i \in DOMAIN defs,
         NEW f, NEW g, \A j \in 1 .. i - 1 : f[j] = g[j]
  PROVE  KnownBy(f, i) = KnownBy(g, i)
<1>1. ASSUME NEW k, {j \in DefsOf(k) : j < i} # {}
      PROVE  f[Latest({j \in DefsOf(k) : j < i})] = g[Latest({j \in DefsOf(k) : j < i})]
  <2> DEFINE P == {j \in DefsOf(k) : j < i}
  <2>1. P \in SUBSET (1 .. Len(defs)) /\ P # {} /\ P \subseteq 1 .. i - 1
    BY <1>1 DEF DefsOf
  <2> HIDE DEF P
  <2>2. Latest(P) \in 1 .. i - 1
    BY <2>1, LatestIs
  <2>3. f[Latest(P)] = g[Latest(P)]
    BY <2>2
  <2> QED  BY <2>3 DEF P
<1>2. KnownBy(f, i) <=> KnownBy(g, i)
  BY <1>1, Zenon DEF KnownBy
<1>3. KnownBy(f, i) \in BOOLEAN /\ KnownBy(g, i) \in BOOLEAN
  BY Zenon DEF KnownBy
<1> QED  BY <1>2, <1>3

LEMMA KnownIs ==
  ASSUME Len(defs) \in Nat, DOMAIN defs = 1 .. Len(defs)
  PROVE  \A i \in DOMAIN defs : Known[i] <=> KnownBy(Known, i)
<1> DEFINE N == Len(defs)
           Is(f, n) == f = [i \in 1 .. n |-> KnownBy(f, i)]
           S == {n \in Nat : n <= N => \E f : Is(f, n)}
<1>1. Known = CHOOSE f : Is(f, N)
  BY DEF Known, KnownBy
<1>2. 0 \in S
  <2> DEFINE f == [i \in 1 .. 0 |-> TRUE]
  <2>1. Is(f, 0)
    OBVIOUS
  <2> HIDE DEF f, Is
  <2> QED  BY <2>1
<1>3. ASSUME NEW n \in Nat, n \in S PROVE n + 1 \in S
  <2>1. SUFFICES ASSUME n + 1 <= N PROVE \E f : Is(f, n + 1)
    OBVIOUS
  <2> PICK f : Is(f, n)
    BY <1>3, <2>1
  <2> DEFINE h == [i \in 1 .. n + 1 |-> IF i = n + 1 THEN KnownBy(f, n + 1) ELSE f[i]]
  <2>2. \A j \in 1 .. n : h[j] = f[j] /\ f[j] = KnownBy(f, j)
    OBVIOUS
  <2>3. ASSUME NEW i \in 1 .. n + 1 PROVE h[i] = KnownBy(h, i)
    <3>1. i \in DOMAIN defs
      BY <2>1
    <3>2. \A j \in 1 .. i - 1 : f[j] = h[j]
      <4> HIDE DEF h
      <4> QED  BY <2>2
    <3>3. KnownBy(f, i) = KnownBy(h, i)
      <4> HIDE DEF h
      <4> QED  BY <3>1, <3>2, KnownByEarlier
    <3>4. h[i] = KnownBy(f, i)
      <4>1. CASE i = n + 1
        BY <4>1
      <4>2. CASE i \in 1 .. n
        <5> HIDE DEF h
        <5> QED  BY <2>2, <4>2
      <4> QED  BY <4>1, <4>2
    <3> HIDE DEF h
    <3> QED  BY <3>3, <3>4
  <2>4. Is(h, n + 1)
    <3> DEFINE same == [i \in 1 .. n + 1 |-> h[i]]
               rows == [i \in 1 .. n + 1 |-> KnownBy(h, i)]
    <3>1. h = same
      OBVIOUS
    <3> HIDE DEF h
    <3>2. same = rows
      BY <2>3, Zenon
    <3>3. Is(h, n + 1) <=> h = rows
      OBVIOUS
    <3> HIDE DEF same, rows, Is
    <3> QED  BY <3>1, <3>2, <3>3
  <2> HIDE DEF h, Is
  <2> QED  BY <2>4
<1> HIDE DEF S
<1>4. N \in S
  BY <1>2, <1>3, SetInduction
<1>5. Is(Known, N)
  <2> HIDE DEF Is
  <2> QED  BY <1>1, <1>4 DEF S
<1>6. \A i \in 1 .. N : Known[i] = KnownBy(Known, i)
  BY <1>5, Zenon
<1> QED  BY <1>6

----------------------------------------------------------------------------
(* What became of the expressions of a source: rd[i] is what was kept of the *)
(* expression of definition i, once the names of known numbers were replaced. *)

Of(ds, k) == {i \in DOMAIN ds : ds[i].key = k}

Earlier(ds, k, at) == {i \in Of(ds, k) : ds[i].line < at}

\* The value of definition i was a number when it was read.
Numeric(ds, rd, i) == ds[i].how # "label" /\ IsNumber(rd[i])

\* Where k was written at a line, x was kept, and v was added.
Put(ds, rd, k, x, v, at) ==
  LET i == Latest(Earlier(ds, k, at))
  IN  \/ k = NoSym /\ x = NoSym /\ v = 0
      \/ k # NoSym /\ x = NoSym /\ Earlier(ds, k, at) # {} /\ Numeric(ds, rd, i) /\ v = rd[i].add
      \/ k # NoSym /\ x = k /\ v = 0 /\ (Earlier(ds, k, at) # {} => ~Numeric(ds, rd, i))

Reads(ds, rd, e, s, at) ==
  /\ e.add \in Int
  /\ \E p, m \in Int : /\ Put(ds, rd, e.plus, s.plus, p, at)
                       /\ Put(ds, rd, e.minus, s.minus, m, at)
                       /\ s.add = e.add + p - m

InOrder(ds, n) ==
  /\ \A i \in DOMAIN ds : ds[i].line \in 1 .. n
  /\ \A i, j \in DOMAIN ds : i < j => ds[i].line < ds[j].line

ReadDefs(ds, rd, n) ==
  /\ IsSeq(ds) /\ IsSeq(rd) /\ Len(rd) = Len(ds) /\ n \in Nat /\ InOrder(ds, n)
  /\ \A i \in DOMAIN ds : IF ds[i].how = "label" THEN ds[i].pc \in Int
                          ELSE Reads(ds, rd, ds[i].expr, rd[i], ds[i].line)

LEMMA SeqDomain ==
  ASSUME NEW s, IsSeq(s)
  PROVE  Len(s) \in Nat /\ DOMAIN s = 1 .. Len(s)
BY IsSeqInSeq DEF IsSeq

LEMMA LatestEarlier ==
  ASSUME NEW ds, IsSeq(ds), NEW k, NEW at, Earlier(ds, k, at) # {}
  PROVE  /\ Latest(Earlier(ds, k, at)) \in Earlier(ds, k, at)
         /\ Latest(Earlier(ds, k, at)) \in Of(ds, k) /\ Latest(Earlier(ds, k, at)) \in DOMAIN ds
         /\ \A j \in Earlier(ds, k, at) : j <= Latest(Earlier(ds, k, at))
<1>1. Len(ds) \in Nat /\ DOMAIN ds = 1 .. Len(ds)
  BY SeqDomain
<1> PICK P : P = Earlier(ds, k, at)
  OBVIOUS
<1>2. P \in SUBSET (1 .. Len(ds)) /\ P # {} /\ P \subseteq Of(ds, k) /\ P \subseteq DOMAIN ds
  BY <1>1 DEF Earlier, Of
<1>3. Latest(P) \in P /\ \A j \in P : j <= Latest(P)
  BY <1>1, <1>2, LatestIs
<1> QED  BY <1>2, <1>3

LEMMA LatestOfKey ==
  ASSUME NEW ds, IsSeq(ds), NEW k, Of(ds, k) # {}
  PROVE  /\ Latest(Of(ds, k)) \in Of(ds, k) /\ Latest(Of(ds, k)) \in DOMAIN ds
         /\ \A j \in Of(ds, k) : j <= Latest(Of(ds, k))
<1>1. Len(ds) \in Nat /\ DOMAIN ds = 1 .. Len(ds)
  BY SeqDomain
<1> PICK P : P = Of(ds, k)
  OBVIOUS
<1>2. P \in SUBSET (1 .. Len(ds)) /\ P # {} /\ P \subseteq DOMAIN ds
  BY <1>1 DEF Of
<1>3. Latest(P) \in P /\ \A j \in P : j <= Latest(P)
  BY <1>1, <1>2, LatestIs
<1> QED  BY <1>2, <1>3

\* Known says of the definitions what was kept of their expressions.
LEMMA KnownNumeric ==
  ASSUME NEW rd, ReadDefs(defs, rd, line)
  PROVE  \A i \in DOMAIN defs : Known[i] <=> Numeric(defs, rd, i)
<1> DEFINE S == {i \in Nat : i \in DOMAIN defs => (Known[i] <=> Numeric(defs, rd, i))}
<1>1. Len(defs) \in Nat /\ DOMAIN defs = 1 .. Len(defs)
  BY SeqDomain DEF ReadDefs
<1>2. ASSUME NEW i \in Nat, \A m \in 0 .. i - 1 : m \in S
      PROVE  i \in S
  <2>1. SUFFICES ASSUME i \in DOMAIN defs PROVE Known[i] <=> Numeric(defs, rd, i)
    OBVIOUS
  <2>2. \A j \in DOMAIN defs : j < i => (Known[j] <=> Numeric(defs, rd, j))
    <3>1. \A j \in DOMAIN defs : j < i => j \in 0 .. i - 1
      BY <1>1, <2>1
    <3> QED  BY <1>2, <3>1
  <2> HIDE DEF S
  <2>3. Known[i] <=> KnownBy(Known, i)
    BY <1>1, <2>1, KnownIs
  <2>4. CASE defs[i].how = "label"
    BY <2>3, <2>4 DEF KnownBy, Numeric
  <2>5. CASE defs[i].how # "label"
    <3> PICK e : e = defs[i].expr
      OBVIOUS
    <3>1. PICK p, m : /\ Put(defs, rd, e.plus, rd[i].plus, p, defs[i].line)
                      /\ Put(defs, rd, e.minus, rd[i].minus, m, defs[i].line)
      BY <2>1, <2>5 DEF ReadDefs, Reads
    <3>2. ASSUME NEW k
          PROVE  {j \in DefsOf(k) : j < i} = Earlier(defs, k, defs[i].line)
      <4>1. \A j \in DOMAIN defs : j < i <=> defs[j].line < defs[i].line
        <5>1. ASSUME NEW j \in DOMAIN defs PROVE j < i <=> defs[j].line < defs[i].line
          <6>1. /\ j \in Nat /\ i \in Nat /\ defs[j].line \in Nat /\ defs[i].line \in Nat
            BY <1>1, <2>1 DEF ReadDefs, InOrder
          <6>2. /\ j < i => defs[j].line < defs[i].line
                /\ i < j => defs[i].line < defs[j].line
            BY <2>1 DEF ReadDefs, InOrder
          <6> QED  BY <6>1, <6>2
        <5> QED  BY <5>1
      <4> QED  BY <4>1 DEF DefsOf, Earlier, Of
    <3>3. ASSUME NEW k, NEW x, NEW v, Put(defs, rd, k, x, v, defs[i].line), k # NoSym
          PROVE  x = NoSym <=> LET before == {j \in DefsOf(k) : j < i}
                               IN  before # {} /\ Known[Latest(before)]
      <4> PICK P : P = Earlier(defs, k, defs[i].line)
        OBVIOUS
      <4>1. P = {j \in DefsOf(k) : j < i}
        BY <3>2
      <4>2. P # {} => Latest(P) \in P
        BY LatestEarlier DEF ReadDefs
      <4>3. P # {} => Latest(P) \in DOMAIN defs /\ Latest(P) < i
        BY <4>1, <4>2 DEF DefsOf
      <4>4. P # {} => (Known[Latest(P)] <=> Numeric(defs, rd, Latest(P)))
        BY <2>2, <4>3
      <4>5. x = NoSym <=> (P # {} /\ Numeric(defs, rd, Latest(P)))
        BY <3>3 DEF Put
      <4>6. x = NoSym <=> (P # {} /\ Known[Latest(P)])
        BY <4>4, <4>5
      <4> QED  BY <4>1, <4>6
    <3>4. e.plus = NoSym => rd[i].plus = NoSym
      BY <3>1 DEF Put
    <3>5. e.minus = NoSym => rd[i].minus = NoSym
      BY <3>1 DEF Put
    <3>6. KnownBy(Known, i) <=> rd[i].plus = NoSym /\ rd[i].minus = NoSym
      <4>1. KnownBy(Known, i) <=>
              \A k \in {e.plus, e.minus} \ {NoSym} :
                LET before == {j \in DefsOf(k) : j < i} IN before # {} /\ Known[Latest(before)]
        BY <2>5 DEF KnownBy
      <4>2. e.plus # NoSym => (rd[i].plus = NoSym <=>
              LET before == {j \in DefsOf(e.plus) : j < i} IN before # {} /\ Known[Latest(before)])
        BY <3>1, <3>3
      <4>3. e.minus # NoSym => (rd[i].minus = NoSym <=>
              LET before == {j \in DefsOf(e.minus) : j < i} IN before # {} /\ Known[Latest(before)])
        BY <3>1, <3>3
      <4> QED  BY <3>4, <3>5, <4>1, <4>2, <4>3, Zenon
    <3> QED  BY <2>3, <2>5, <3>6 DEF Numeric, IsNumber
  <2> QED  BY <2>4, <2>5
<1>3. \A i \in Nat : i \in S
  <2> HIDE DEF S
  <2> QED  BY <1>2, StrongInduction
<1> QED  BY <1>1, <1>3

----------------------------------------------------------------------------
(* Meanings.                                                               *)

LEMMA Places ==
  /\ \A v : NumberIs(v) # Any /\ NumberIs(v)[1] = "number" /\ NumberIs(v)[2] = v
  /\ \A v : <<"section", v>> # Any
  /\ \A v, b : <<"external", v, b>> # Any
BY DEF NumberIs, Any

LEMMA CombinedAny ==
  ASSUME NEW p, NEW m, NEW n, NEW x, p = Any \/ m = Any
  PROVE  Combined(p, m, n, x) = Any
BY DEF Combined

LEMMA CombinedNumbers ==
  ASSUME NEW p, NEW m, NEW n, NEW x
  PROVE  Combined(NumberIs(p), NumberIs(m), n, x) = NumberIs(p - m + n)
<1> DEFINE a == <<"number", p>>
           b == <<"number", m>>
<1>1. a[1] = "number" /\ b[1] = "number" /\ a # Any /\ b # Any /\ a[2] = p /\ b[2] = m
  BY DEF Any
<1>2. [a EXCEPT ![2] = p - m + n] = <<"number", p - m + n>>
  OBVIOUS
<1>3. NumberIs(p) = a /\ NumberIs(m) = b /\ NumberIs(p - m + n) = <<"number", p - m + n>>
  BY DEF NumberIs
<1> HIDE DEF a, b
<1>4. Combined(a, b, n, x) = [a EXCEPT ![2] = @ - b[2] + n]
  BY <1>1 DEF Combined
<1>5. [a EXCEPT ![2] = @ - b[2] + n] = [a EXCEPT ![2] = p - m + n]
  BY <1>1
<1> QED  BY <1>2, <1>3, <1>4, <1>5

LEMMA CombinedPlace ==
  ASSUME NEW p, NEW m, NEW n, NEW x
  PROVE  Combined(<<"section", p>>, NumberIs(m), n, x) = <<"section", p - m + n>>
<1> DEFINE a == <<"section", p>>
           b == <<"number", m>>
<1>1. a[1] = "section" /\ b[1] = "number" /\ a # Any /\ b # Any /\ a[2] = p /\ b[2] = m
  BY DEF Any
<1>2. [a EXCEPT ![2] = p - m + n] = <<"section", p - m + n>>
  OBVIOUS
<1>3. NumberIs(m) = b
  BY DEF NumberIs
<1> HIDE DEF a, b
<1>4. Combined(a, b, n, x) = [a EXCEPT ![2] = @ - b[2] + n]
  BY <1>1 DEF Combined
<1>5. [a EXCEPT ![2] = @ - b[2] + n] = [a EXCEPT ![2] = p - m + n]
  BY <1>1
<1> QED  BY <1>2, <1>3, <1>4, <1>5 DEF a

LEMMA CombinedExternal ==
  ASSUME NEW p, NEW k, NEW m, NEW n, NEW x, ~absolute \/ x = NoSym
  PROVE  Combined(<<"external", p, k>>, NumberIs(m), n, x) = <<"external", p - m + n, k>>
<1> DEFINE a == <<"external", p, k>>
           b == <<"number", m>>
<1>1. a[1] = "external" /\ b[1] = "number" /\ a # Any /\ b # Any /\ a[2] = p /\ b[2] = m
  BY DEF Any
<1>2. [a EXCEPT ![2] = p - m + n] = <<"external", p - m + n, k>>
  OBVIOUS
<1>3. NumberIs(m) = b
  BY DEF NumberIs
<1> HIDE DEF a, b
<1>4. Combined(a, b, n, x) = [a EXCEPT ![2] = @ - b[2] + n]
  BY <1>1 DEF Combined
<1>5. [a EXCEPT ![2] = @ - b[2] + n] = [a EXCEPT ![2] = p - m + n]
  BY <1>1
<1> QED  BY <1>2, <1>3, <1>4, <1>5 DEF a

LEMMA CombinedSections ==
  ASSUME NEW p, NEW m, NEW n, NEW x
  PROVE  Combined(<<"section", p>>, <<"section", m>>, n, x) = NumberIs(p - m + n)
BY DEF Combined, Any, NumberIs

\* Nothing else is claimed of a difference.
LEMMA CombinedRest ==
  ASSUME NEW p, NEW m, NEW n, m[1] # "number", ~(m[1] = "section" /\ p[1] = "section"), NEW x, x # NoSym
  PROVE  Combined(p, m, n, x) = Any
BY DEF Combined

LEMMA CombinedAbsolute ==
  ASSUME NEW p, NEW m, NEW n, absolute, p[1] = "external", NEW x, x # NoSym
  PROVE  Combined(p, m, n, x) = Any
BY DEF Combined

\* What the name k means at a line, as ExprMeans() has it.
TermMeans(k, at, mn) == IF k = NoSym THEN NumberIs(0) ELSE NameMeans(k, at, mn)

LEMMA ExprMeansIs ==
  ASSUME NEW e, NEW at, NEW mn
  PROVE  ExprMeans(e, at, mn)
           = Combined(TermMeans(e.plus, at, mn), TermMeans(e.minus, at, mn), e.add, e.minus)
BY DEF ExprMeans, TermMeans

\* A number that took the place of a name is what the name means.
LEMMA FoldedMeans ==
  ASSUME NEW rd, ReadDefs(defs, rd, line), NEW mn,
         \A i \in DOMAIN defs : Numeric(defs, rd, i) => mn[i] \in {Any, NumberIs(rd[i].add)},
         NEW k, NEW v, NEW at, Put(defs, rd, k, NoSym, v, at)
  PROVE  TermMeans(k, at, mn) \in {Any, NumberIs(v)}
<1>1. CASE k = NoSym
  BY <1>1 DEF Put, TermMeans
<1>2. CASE k # NoSym
  <2> PICK i : i = Latest(Earlier(defs, k, at))
    OBVIOUS
  <2>1. Earlier(defs, k, at) # {} /\ Numeric(defs, rd, i) /\ v = rd[i].add
    BY <1>2 DEF Put
  <2>2. i \in DOMAIN defs
    BY <2>1, LatestEarlier DEF ReadDefs
  <2>3. Before(k, at) = Earlier(defs, k, at)
    BY DEF Before, DefsOf, Earlier, Of
  <2>4. NameMeans(k, at, mn) = mn[i]
    <3>1. Before(k, at) # {} /\ DefsOf(k) # {}
      BY <2>1, <2>3 DEF Before
    <3> QED  BY <2>3, <3>1 DEF NameMeans
  <2> QED  BY <1>2, <2>1, <2>2, <2>4 DEF TermMeans
<1> QED  BY <1>1, <1>2

LEMMA NumericMeans ==
  ASSUME NEW rd, ReadDefs(defs, rd, line), NEW f, MeaningChain(f)
  PROVE  \A d \in 0 .. Len(defs) : \A i \in DOMAIN defs :
           Numeric(defs, rd, i) => f[d][i] \in {Any, NumberIs(rd[i].add)}
<1> DEFINE S == {d \in Nat : d <= Len(defs) => \A i \in DOMAIN defs :
                   Numeric(defs, rd, i) => f[d][i] \in {Any, NumberIs(rd[i].add)}}
<1>1. Len(defs) \in Nat /\ DOMAIN defs = 1 .. Len(defs)
  BY SeqDomain DEF ReadDefs
<1>2. 0 \in S
  BY DEF MeaningChain
<1>3. ASSUME NEW d \in Nat, d \in S PROVE d + 1 \in S
  <2>1. SUFFICES ASSUME d + 1 <= Len(defs), NEW i \in DOMAIN defs, Numeric(defs, rd, i)
                 PROVE  f[d + 1][i] \in {Any, NumberIs(rd[i].add)}
    OBVIOUS
  <2> PICK mn, e, s, at : mn = f[d] /\ e = defs[i].expr /\ s = rd[i] /\ at = defs[i].line
    OBVIOUS
  <2>2. \A j \in DOMAIN defs : Numeric(defs, rd, j) => mn[j] \in {Any, NumberIs(rd[j].add)}
    BY <1>1, <1>3, <2>1
  <2>3. f[d + 1][i] = DefMeans(i, mn)
    <3>1. d + 1 \in 1 .. Len(defs) /\ (d + 1) - 1 = d
      BY <1>1, <2>1
    <3> QED  BY <3>1 DEF MeaningChain
  <2> HIDE DEF S
  <2>4. defs[i].how # "label" /\ s.plus = NoSym /\ s.minus = NoSym
    BY <2>1 DEF Numeric, IsNumber
  <2>5. f[d + 1][i] = ExprMeans(e, at, mn)
    BY <2>3, <2>4 DEF DefMeans
  <2>6. PICK p, m \in Int : /\ Put(defs, rd, e.plus, NoSym, p, at) /\ Put(defs, rd, e.minus, NoSym, m, at)
                            /\ s.add = e.add + p - m /\ e.add \in Int
    BY <2>4 DEF ReadDefs, Reads
  <2>7. TermMeans(e.plus, at, mn) \in {Any, NumberIs(p)} /\ TermMeans(e.minus, at, mn) \in {Any, NumberIs(m)}
    BY <2>2, <2>6, FoldedMeans
  <2>8. p - m + e.add = s.add
    BY <2>6
  <2>9. ExprMeans(e, at, mn) \in {Any, NumberIs(p - m + e.add)}
    BY <2>7, ExprMeansIs, CombinedAny, CombinedNumbers
  <2> QED  BY <2>5, <2>8, <2>9
<1> HIDE DEF S
<1>4. \A d \in Nat : d \in S
  BY <1>2, <1>3, SetInduction
<1> QED  BY <1>1, <1>4 DEF S

----------------------------------------------------------------------------
(* Values and meanings.                                                    *)

\* A value that has a base is that of a label or of an import, and it is a number
\* when it is an address of an absolute section.
OkValue(t, r) ==
  r.kind # "cycle" =>
    /\ r.v \in Int /\ r.cnst \in BOOLEAN
    /\ r.kind = "ok" => /\ r.base \in DOMAIN t /\ t[r.base].type \in {"label", "import"}
                        /\ r.cnst <=> (absolute /\ t[r.base].type = "label")

\* The value r is the place m.  When symbols have become imports (fix_labels()),
\* what is external is another symbol plus another number.
Agrees(t, exact, r, m) ==
  \/ r.cnst /\ m = NumberIs(r.v)
  \/ ~r.cnst /\ r.kind = "ok" /\ IsLabel(t, r.base) /\ m = <<"section", r.v>>
  \/ /\ ~r.cnst /\ r.kind = "ok" /\ IsImport(t, r.base)
     /\ \E v, b : m = <<"external", v, b>> /\ (exact => v = r.v /\ b = r.base)

LEMMA AddedIs ==
  ASSUME NEW l, NEW n
  PROVE  /\ Added(l, n).cnst = l.cnst /\ Added(l, n).v = l.v + n /\ Added(l, n).base = l.base
         /\ Added(l, n).kind = IF n # 0 /\ l.kind = "pcrel" THEN "illegal" ELSE l.kind
BY DEF Added

LEMMA SubtractedIs ==
  ASSUME NEW t, NEW l, NEW r, NEW insec, NEW pc
  PROVE  LET s == Subtracted(t, l, r, insec, pc)
             difference == Difference(t, l, r, insec)
         IN  /\ s.cnst = ((l.cnst /\ r.cnst) \/ difference = "constant")
             /\ s.v = l.v - r.v + (IF difference = "pcrel" THEN pc ELSE 0)
             /\ s.kind = SubKind(t, l, r, insec) /\ s.base = l.base
BY DEF Subtracted

LEMMA OkAdded ==
  ASSUME NEW t, NEW l, OkValue(t, l), NEW n \in Int
  PROVE  OkValue(t, Added(l, n)) /\ (Added(l, n).kind = "cycle" <=> l.kind = "cycle")
<1> PICK a : a = Added(l, n)
  OBVIOUS
<1>1. /\ a.cnst = l.cnst /\ a.v = l.v + n /\ a.base = l.base
      /\ a.kind = IF n # 0 /\ l.kind = "pcrel" THEN "illegal" ELSE l.kind
  BY AddedIs
<1>2. (a.kind = "cycle" <=> l.kind = "cycle") /\ (a.kind = "ok" => l.kind = "ok")
  BY <1>1
<1>3. OkValue(t, a)
  BY <1>1, <1>2 DEF OkValue
<1> QED  BY <1>2, <1>3

LEMMA OkSubtracted ==
  ASSUME NEW t, NEW l, NEW r, OkValue(t, l), OkValue(t, r), l.kind # "cycle", r.kind # "cycle",
         NEW insec, NEW pc \in Int
  PROVE  OkValue(t, Subtracted(t, l, r, insec, pc)) /\ Subtracted(t, l, r, insec, pc).kind # "cycle"
<1> PICK s, difference : s = Subtracted(t, l, r, insec, pc) /\ difference = Difference(t, l, r, insec)
  OBVIOUS
<1>1. /\ s.cnst = ((l.cnst /\ r.cnst) \/ difference = "constant")
      /\ s.v = l.v - r.v + (IF difference = "pcrel" THEN pc ELSE 0)
      /\ s.kind = SubKind(t, l, r, insec) /\ s.base = l.base
  BY SubtractedIs
<1>2. l.v \in Int /\ r.v \in Int
  BY DEF OkValue
<1>3. s.v \in Int
  BY <1>1, <1>2
<1>4. s.cnst \in BOOLEAN
  BY <1>1
<1>5. s.kind \in {"ok", "pcrel", "illegal"} /\ (s.kind = "ok" => l.kind = "ok" /\ r.cnst)
  BY <1>1 DEF SubKind
<1>6. ASSUME s.kind = "ok"
      PROVE  /\ s.base \in DOMAIN t /\ t[s.base].type \in {"label", "import"}
             /\ s.cnst <=> (absolute /\ t[s.base].type = "label")
  <2>1. /\ l.base \in DOMAIN t /\ t[l.base].type \in {"label", "import"}
        /\ l.cnst <=> (absolute /\ t[l.base].type = "label")
        /\ l.kind = "ok" /\ r.cnst
    BY <1>5, <1>6 DEF OkValue
  <2>2. r.kind = "ok" => absolute
    BY <2>1 DEF OkValue
  <2>3. ~l.cnst => difference # "constant"
    BY <2>1, <2>2 DEF Difference, IsLabel
  <2> QED  BY <1>1, <2>1, <2>3
<1> QED  BY <1>3, <1>4, <1>5, <1>6 DEF OkValue

\* A number added to a value, when no more than a number is known of the rest.
LEMMA AgreesAdded ==
  ASSUME NEW t, NEW exact, NEW l, NEW p, Agrees(t, exact, l, p), l.v \in Int,
         NEW n \in Int, NEW m \in Int, NEW x, Combined(p, NumberIs(m), n, x) # Any
  PROVE  Agrees(t, exact, Added(l, n - m), Combined(p, NumberIs(m), n, x))
<1> PICK a : a = Added(l, n - m)
  OBVIOUS
<1>1. /\ a.cnst = l.cnst /\ a.v = l.v + (n - m) /\ a.base = l.base
      /\ a.kind = IF n - m # 0 /\ l.kind = "pcrel" THEN "illegal" ELSE l.kind
  BY AddedIs
<1>2. a.v = l.v - m + n
  BY <1>1
<1>3. CASE l.cnst /\ p = NumberIs(l.v)
  <2>1. Combined(NumberIs(l.v), NumberIs(m), n, x) = NumberIs(l.v - m + n)
    BY CombinedNumbers
  <2> QED  BY <1>1, <1>2, <1>3, <2>1 DEF Agrees
<1>4. CASE ~l.cnst /\ l.kind = "ok" /\ IsLabel(t, l.base) /\ p = <<"section", l.v>>
  <2>1. Combined(<<"section", l.v>>, NumberIs(m), n, x) = <<"section", l.v - m + n>>
    BY CombinedPlace
  <2> QED  BY <1>1, <1>2, <1>4, <2>1 DEF Agrees
<1>5. CASE /\ ~l.cnst /\ l.kind = "ok" /\ IsImport(t, l.base)
           /\ \E v, b : p = <<"external", v, b>> /\ (exact => v = l.v /\ b = l.base)
  <2> PICK v, b : p = <<"external", v, b>> /\ (exact => v = l.v /\ b = l.base)
    BY <1>5
  <2>1. ~absolute \/ x = NoSym
    <3>1. p[1] = "external"
      OBVIOUS
    <3> QED  BY <3>1 DEF Combined
  <2>2. Combined(p, NumberIs(m), n, x) = <<"external", v - m + n, b>>
    BY <2>1, CombinedExternal
  <2>3. exact => v - m + n = a.v /\ b = a.base
    BY <1>1, <1>2
  <2> QED  BY <1>1, <1>5, <2>2, <2>3 DEF Agrees
<1> QED  BY <1>3, <1>4, <1>5 DEF Agrees

\* The difference of two values.
LEMMA AgreesSubtracted ==
  ASSUME NEW t, NEW exact, NEW l, NEW r, NEW p, NEW m,
         OkValue(t, l), OkValue(t, r), l.kind # "cycle", r.kind # "cycle",
         Agrees(t, exact, l, p), Agrees(t, exact, r, m),
         NEW insec, NEW pc \in Int, NEW n \in Int, NEW x, x # NoSym, Combined(p, m, n, x) # Any
  PROVE  Agrees(t, exact, Added(Subtracted(t, l, r, insec, pc), n), Combined(p, m, n, x))
<1> PICK s, difference : s = Subtracted(t, l, r, insec, pc) /\ difference = Difference(t, l, r, insec)
  OBVIOUS
<1> PICK a : a = Added(s, n)
  OBVIOUS
<1>1. /\ s.cnst = ((l.cnst /\ r.cnst) \/ difference = "constant")
      /\ s.v = l.v - r.v + (IF difference = "pcrel" THEN pc ELSE 0)
      /\ s.kind = SubKind(t, l, r, insec) /\ s.base = l.base
  BY SubtractedIs
<1>2. /\ a.cnst = s.cnst /\ a.v = s.v + n /\ a.base = s.base
      /\ a.kind = IF n # 0 /\ s.kind = "pcrel" THEN "illegal" ELSE s.kind
  BY AddedIs
<1>3. l.v \in Int /\ r.v \in Int
  BY DEF OkValue
<1>4. difference # "pcrel" => a.v = l.v - r.v + n
  BY <1>1, <1>2, <1>3
<1>5. CASE r.cnst /\ m = NumberIs(r.v)
  <2>1. CASE l.cnst /\ p = NumberIs(l.v)
    <3>1. difference = "plain"
      BY <1>5, <2>1 DEF Difference
    <3>2. a.cnst /\ a.v = l.v - r.v + n
      BY <1>1, <1>2, <1>4, <1>5, <2>1, <3>1
    <3>3. Combined(NumberIs(l.v), NumberIs(r.v), n, x) = NumberIs(l.v - r.v + n)
      BY CombinedNumbers
    <3> QED  BY <1>5, <2>1, <3>2, <3>3 DEF Agrees
  <2>2. ASSUME ~l.cnst, l.kind = "ok", ~absolute
        PROVE  ~a.cnst /\ a.kind = "ok" /\ a.base = l.base /\ a.v = l.v - r.v + n
    <3>1. r.kind # "ok"
      BY <1>5, <2>2 DEF OkValue
    <3>2. difference = "plain"
      BY <3>1 DEF Difference
    <3>3. s.kind = "ok" /\ ~s.cnst
      BY <1>1, <1>5, <2>2, <3>2 DEF SubKind
    <3> QED  BY <1>1, <1>2, <1>4, <3>2, <3>3
  <2>3. CASE ~l.cnst /\ l.kind = "ok" /\ IsLabel(t, l.base) /\ p = <<"section", l.v>>
    <3>1. ~absolute
      BY <2>3 DEF OkValue, IsLabel
    <3>2. Combined(<<"section", l.v>>, NumberIs(r.v), n, x) = <<"section", l.v - r.v + n>>
      BY CombinedPlace
    <3> QED  BY <1>5, <2>2, <2>3, <3>1, <3>2 DEF Agrees
  <2>4. CASE /\ ~l.cnst /\ l.kind = "ok" /\ IsImport(t, l.base)
             /\ \E v, b : p = <<"external", v, b>> /\ (exact => v = l.v /\ b = l.base)
    <3> PICK v, b : p = <<"external", v, b>> /\ (exact => v = l.v /\ b = l.base)
      BY <2>4
    <3>1. ~absolute
      <4>1. p[1] = "external"
        OBVIOUS
      <4> QED  BY <4>1, CombinedAbsolute
    <3>2. Combined(<<"external", v, b>>, NumberIs(r.v), n, x) = <<"external", v - r.v + n, b>>
      BY <3>1, CombinedExternal
    <3>3. ~a.cnst /\ a.kind = "ok" /\ a.base = l.base /\ a.v = l.v - r.v + n
      BY <2>2, <2>4, <3>1
    <3>4. exact => v - r.v + n = a.v /\ b = a.base
      BY <3>3
    <3> QED  BY <1>5, <2>4, <3>2, <3>3, <3>4 DEF Agrees
  <2> QED  BY <2>1, <2>3, <2>4 DEF Agrees
<1>6. CASE ~r.cnst /\ r.kind = "ok" /\ IsLabel(t, r.base) /\ m = <<"section", r.v>>
  <2>1. m[1] = "section"
    BY <1>6
  <2>2. p[1] = "section"
    BY <2>1, CombinedRest
  <2>3. ~l.cnst /\ l.kind = "ok" /\ IsLabel(t, l.base) /\ p = <<"section", l.v>>
    <3>1. p # NumberIs(l.v)
      BY <2>2, Places
    <3>2. \A v, b : p # <<"external", v, b>>
      BY <2>2
    <3> QED  BY <3>1, <3>2 DEF Agrees
  <2>4. difference = "constant"
    BY <1>6, <2>3 DEF Difference
  <2>5. a.cnst /\ a.v = l.v - r.v + n
    BY <1>1, <1>2, <1>4, <2>4
  <2>6. Combined(<<"section", l.v>>, <<"section", r.v>>, n, x) = NumberIs(l.v - r.v + n)
    BY CombinedSections
  <2> QED  BY <1>6, <2>3, <2>5, <2>6 DEF Agrees
<1>7. CASE ~r.cnst /\ \E v, b : m = <<"external", v, b>>
  <2>1. m[1] = "external"
    BY <1>7
  <2> QED  BY <2>1, CombinedRest
<1> QED  BY <1>5, <1>6, <1>7 DEF Agrees

\* The names of an expression are symbols.
Closed(t, e) == {e.plus, e.minus} \ {NoSym} \subseteq DOMAIN t

Cyclic(sv, e) == \E k \in {e.plus, e.minus} \ {NoSym} : sv[k].kind = "cycle"

NoMoves == \A k \in DOMAIN table : ~Moves(k)

LEMMA EvalWithIs ==
  ASSUME NEW t, NEW sv, NEW e, NEW insec, NEW pc
  PROVE  LET l == Operand(sv, e.plus, e.add)
             n == IF e.plus = NoSym THEN 0 ELSE e.add
         IN  EvalWith(t, sv, e, insec, pc)
               = IF Cyclic(sv, e) THEN InEval
                 ELSE IF e.minus = NoSym THEN Added(l, n)
                 ELSE Added(Subtracted(t, l, sv[e.minus], insec, pc), n)
<1>1. "cycle" \in {Operand(sv, k, 0).kind : k \in {e.plus, e.minus}} <=> Cyclic(sv, e)
  <2>1. Operand(sv, NoSym, 0).kind = "illegal"
    BY DEF Operand
  <2>2. \A k : k # NoSym => Operand(sv, k, 0) = sv[k]
    BY DEF Operand
  <2> QED  BY <2>1, <2>2 DEF Cyclic
<1> QED  BY <1>1 DEF EvalWith

LEMMA EvalOk ==
  ASSUME NEW t, NEW sv, \A k \in DOMAIN t : OkValue(t, sv[k]),
         NEW e, e.add \in Int, Closed(t, e), NEW insec, NEW pc \in Int
  PROVE  OkValue(t, EvalWith(t, sv, e, insec, pc))
<1> PICK l, n : l = Operand(sv, e.plus, e.add) /\ n = IF e.plus = NoSym THEN 0 ELSE e.add
  OBVIOUS
<1> PICK r : r = EvalWith(t, sv, e, insec, pc)
  OBVIOUS
<1>1. r = IF Cyclic(sv, e) THEN InEval
          ELSE IF e.minus = NoSym THEN Added(l, n)
          ELSE Added(Subtracted(t, l, sv[e.minus], insec, pc), n)
  BY EvalWithIs
<1>2. OkValue(t, InEval)
  BY DEF OkValue, InEval
<1>3. OkValue(t, l) /\ n \in Int
  <2>1. CASE e.plus = NoSym
    BY <2>1 DEF Operand, OkValue
  <2>2. CASE e.plus # NoSym
    BY <2>2 DEF Operand, Closed
  <2> QED  BY <2>1, <2>2
<1>4. ~Cyclic(sv, e) => l.kind # "cycle"
  BY DEF Operand, Cyclic
<1>5. ASSUME ~Cyclic(sv, e), e.minus # NoSym
      PROVE  OkValue(t, Subtracted(t, l, sv[e.minus], insec, pc))
  <2>1. OkValue(t, sv[e.minus]) /\ sv[e.minus].kind # "cycle"
    BY <1>5 DEF Closed, Cyclic
  <2> QED  BY <1>3, <1>4, <1>5, <2>1, OkSubtracted
<1>6. CASE Cyclic(sv, e)
  BY <1>1, <1>2, <1>6
<1>7. CASE ~Cyclic(sv, e) /\ e.minus = NoSym
  BY <1>1, <1>3, <1>7, OkAdded
<1>8. CASE ~Cyclic(sv, e) /\ e.minus # NoSym
  BY <1>1, <1>3, <1>5, <1>8, OkAdded
<1> QED  BY <1>6, <1>7, <1>8

\* What a symbol means at the end of the source.
KeyMeans(k, mn) == IF DefsOf(k) = {} THEN <<"external", 0, k>> ELSE mn[Latest(DefsOf(k))]

\* A name that was kept means what it means at the end.
LEMMA KeptMeans ==
  ASSUME NEW rd, ReadDefs(defs, rd, line), NoMoves, NEW mn, NEW k \in DOMAIN table, NEW at,
         k # NoSym, Earlier(defs, k, at) # {} => ~Numeric(defs, rd, Latest(Earlier(defs, k, at))),
         TermMeans(k, at, mn) # Any
  PROVE  TermMeans(k, at, mn) = KeyMeans(k, mn)
<1>1. Before(k, at) = Earlier(defs, k, at) /\ DefsOf(k) = Of(defs, k)
  BY DEF Before, DefsOf, Earlier, Of
<1>2. TermMeans(k, at, mn) = NameMeans(k, at, mn)
  BY DEF TermMeans
<1>3. Before(k, at) # {} => DefsOf(k) # {}
  BY DEF Before
<1>4. CASE Before(k, at) # {}
  <2> PICK i, j : i = Latest(Before(k, at)) /\ j = Latest(DefsOf(k))
    OBVIOUS
  <2>1. i \in DefsOf(k) /\ i \in DOMAIN defs /\ ~Numeric(defs, rd, i)
    BY <1>1, <1>4, LatestEarlier DEF ReadDefs
  <2>2. j \in DefsOf(k) /\ j \in DOMAIN defs /\ i <= j
    BY <1>1, <1>3, <1>4, <2>1, LatestOfKey DEF ReadDefs
  <2>3. ~Known[i]
    BY <2>1, KnownNumeric
  <2>4. ~(i < j)
    BY <2>1, <2>2, <2>3 DEF NoMoves, Moves
  <2>5. i \in Nat /\ j \in Nat
    <3>1. DOMAIN defs = 1 .. Len(defs) /\ Len(defs) \in Nat
      BY SeqDomain DEF ReadDefs
    <3> QED  BY <2>1, <2>2, <3>1
  <2>6. i = j
    BY <2>2, <2>4, <2>5
  <2>7. NameMeans(k, at, mn) = mn[i]
    BY <1>3, <1>4 DEF NameMeans
  <2> QED  BY <1>2, <1>3, <1>4, <2>6, <2>7 DEF KeyMeans
<1>5. CASE Before(k, at) = {} /\ DefsOf(k) = {}
  <2>1. Cardinality(DefsOf(k)) = 0
    BY <1>5, FS_EmptySet
  <2>2. NameMeans(k, at, mn) = <<"external", 0, k>>
    BY <1>5, <2>1 DEF NameMeans
  <2> QED  BY <1>2, <1>5, <2>2 DEF KeyMeans
<1>6. CASE Before(k, at) = {} /\ DefsOf(k) # {}
  <2>1. Cardinality(DefsOf(k)) = 1
    BY <1>2, <1>6 DEF NameMeans
  <2>2. NameMeans(k, at, mn) = mn[Latest(DefsOf(k))]
    BY <1>6, <2>1 DEF NameMeans
  <2> QED  BY <1>2, <1>6, <2>2 DEF KeyMeans
<1> QED  BY <1>4, <1>5, <1>6

LEMMA AgreesPlace ==
  ASSUME NEW t, NEW exact, NEW r, NEW m, Agrees(t, exact, r, m)
  PROVE  m = NumberIs(r.v) \/ m[1] \in {"section", "external"}
<1>1. \A v, b : <<"external", v, b>>[1] = "external"
  OBVIOUS
<1>2. \A v : <<"section", v>>[1] = "section"
  OBVIOUS
<1> QED  BY <1>1, <1>2 DEF Agrees

\* A number before a difference may be added to its first term.
LEMMA CombinedFolded ==
  ASSUME NEW p \in Int, NEW n \in Int, NEW m, NEW x, x # NoSym,
         (m = NumberIs(m[2]) /\ m[2] \in Int) \/ m[1] \in {"section", "external"}
  PROVE  Combined(NumberIs(p), m, n, x) = Combined(NumberIs(p + n), m, 0, x)
<1> PICK v : v = m[2]
  OBVIOUS
<1>1. CASE m = NumberIs(v) /\ v \in Int
  <2>1. Combined(NumberIs(p), NumberIs(v), n, x) = NumberIs(p - v + n)
    BY CombinedNumbers
  <2>2. Combined(NumberIs(p + n), NumberIs(v), 0, x) = NumberIs((p + n) - v + 0)
    BY CombinedNumbers
  <2>3. p - v + n = (p + n) - v + 0
    BY <1>1
  <2> QED  BY <1>1, <2>1, <2>2, <2>3
<1>2. CASE m[1] \in {"section", "external"}
  <2>1. NumberIs(p)[1] = "number" /\ NumberIs(p + n)[1] = "number"
    BY Places
  <2>2. Combined(NumberIs(p), m, n, x) = Any
    BY <1>2, <2>1, CombinedRest
  <2>3. Combined(NumberIs(p + n), m, 0, x) = Any
    BY <1>2, <2>1, CombinedRest
  <2> QED  BY <2>2, <2>3
<1> QED  BY <1>1, <1>2

\* The symbols have the values their last definitions mean, as far as they are
\* evaluated and the meaning is one.
Agreeing(exact, sv, mn) ==
  \A k \in DOMAIN table :
    /\ OkValue(table, sv[k])
    /\ (sv[k].kind # "cycle" /\ KeyMeans(k, mn) # Any) => Agrees(table, exact, sv[k], KeyMeans(k, mn))

\* An expression, as it was kept, has the value it means where it was written.
LEMMA EvalAgrees ==
  ASSUME NEW rd, ReadDefs(defs, rd, line), NoMoves, NEW mn,
         \A i \in DOMAIN defs : Numeric(defs, rd, i) => mn[i] \in {Any, NumberIs(rd[i].add)},
         NEW exact, NEW sv, Agreeing(exact, sv, mn),
         NEW e, NEW s, NEW at, Reads(defs, rd, e, s, at), Closed(table, s), NEW insec, NEW pc \in Int,
         EvalWith(table, sv, s, insec, pc).kind # "cycle", ExprMeans(e, at, mn) # Any
  PROVE  Agrees(table, exact, EvalWith(table, sv, s, insec, pc), ExprMeans(e, at, mn))
<1> PICK P, M : P = TermMeans(e.plus, at, mn) /\ M = TermMeans(e.minus, at, mn)
  OBVIOUS
<1>1. ExprMeans(e, at, mn) = Combined(P, M, e.add, e.minus)
  BY ExprMeansIs
<1>2. P # Any /\ M # Any
  BY <1>1, CombinedAny
<1>3. PICK p, m \in Int : /\ Put(defs, rd, e.plus, s.plus, p, at) /\ Put(defs, rd, e.minus, s.minus, m, at)
                          /\ s.add = e.add + p - m /\ e.add \in Int
  BY DEF Reads
<1>4. ASSUME s.plus = NoSym PROVE P = NumberIs(p)
  <2>1. Put(defs, rd, e.plus, NoSym, p, at)
    BY <1>3, <1>4
  <2>2. TermMeans(e.plus, at, mn) \in {Any, NumberIs(p)}
    BY <2>1, FoldedMeans
  <2> QED  BY <1>2, <2>2
<1>5. ASSUME s.minus = NoSym PROVE M = NumberIs(m)
  <2>1. Put(defs, rd, e.minus, NoSym, m, at)
    BY <1>3, <1>5
  <2>2. TermMeans(e.minus, at, mn) \in {Any, NumberIs(m)}
    BY <2>1, FoldedMeans
  <2> QED  BY <1>2, <2>2
<1>6. ASSUME NEW k, NEW x, NEW v, Put(defs, rd, k, x, v, at), x # NoSym, x \in DOMAIN table,
             TermMeans(k, at, mn) # Any, sv[x].kind # "cycle"
      PROVE  /\ x = k /\ v = 0 /\ OkValue(table, sv[x])
             /\ Agrees(table, exact, sv[x], TermMeans(k, at, mn))
  <2>1. /\ x = k /\ v = 0 /\ k # NoSym
        /\ Earlier(defs, k, at) # {} => ~Numeric(defs, rd, Latest(Earlier(defs, k, at)))
    BY <1>6 DEF Put
  <2>2. TermMeans(k, at, mn) = KeyMeans(k, mn)
    BY <1>6, <2>1, KeptMeans
  <2> QED  BY <1>6, <2>1, <2>2 DEF Agreeing
<1> PICK l, n : l = Operand(sv, s.plus, s.add) /\ n = IF s.plus = NoSym THEN 0 ELSE s.add
  OBVIOUS
<1> PICK r : r = EvalWith(table, sv, s, insec, pc)
  OBVIOUS
<1>7. r = IF Cyclic(sv, s) THEN InEval
          ELSE IF s.minus = NoSym THEN Added(l, n)
          ELSE Added(Subtracted(table, l, sv[s.minus], insec, pc), n)
  BY EvalWithIs
<1>8. ~Cyclic(sv, s)
  BY <1>7 DEF InEval
<1>9. s.plus # NoSym => /\ s.plus = e.plus /\ p = 0 /\ l = sv[s.plus] /\ l.kind # "cycle"
                        /\ OkValue(table, l) /\ Agrees(table, exact, l, P)
  <2>1. SUFFICES ASSUME s.plus # NoSym
                 PROVE  /\ s.plus = e.plus /\ p = 0 /\ l = sv[s.plus] /\ l.kind # "cycle"
                        /\ OkValue(table, l) /\ Agrees(table, exact, l, P)
    OBVIOUS
  <2>2. s.plus \in DOMAIN table /\ sv[s.plus].kind # "cycle"
    BY <1>8, <2>1 DEF Closed, Cyclic
  <2>3. l = sv[s.plus]
    BY <2>1 DEF Operand
  <2> QED  BY <1>2, <1>3, <1>6, <2>1, <2>2, <2>3
<1>10. s.minus # NoSym => /\ s.minus = e.minus /\ m = 0 /\ sv[s.minus].kind # "cycle"
                          /\ OkValue(table, sv[s.minus]) /\ Agrees(table, exact, sv[s.minus], M)
  <2>1. s.minus # NoSym => s.minus \in DOMAIN table /\ sv[s.minus].kind # "cycle"
    BY <1>8 DEF Closed, Cyclic
  <2> QED  BY <1>2, <1>3, <1>6, <2>1
<1>11. s.plus = NoSym => /\ l.cnst /\ l.v = s.add /\ l.kind = "illegal" /\ n = 0 /\ OkValue(table, l)
  <2>1. s.add \in Int
    BY <1>3
  <2> QED  BY <2>1 DEF Operand, OkValue
<1>12. s.add \in Int
  BY <1>3
<1>13. CASE s.plus = NoSym /\ s.minus = NoSym
  <2>1. r = Added(l, 0)
    BY <1>7, <1>8, <1>11, <1>13
  <2>2. r.cnst /\ r.v = p - m + e.add
    BY <1>3, <1>11, <1>13, <2>1, AddedIs
  <2>3. Combined(NumberIs(p), NumberIs(m), e.add, e.minus) = NumberIs(p - m + e.add)
    BY CombinedNumbers
  <2>4. ExprMeans(e, at, mn) = NumberIs(r.v)
    BY <1>1, <1>4, <1>5, <1>13, <2>2, <2>3
  <2> QED  BY <2>2, <2>4 DEF Agrees
<1>14. CASE s.plus # NoSym /\ s.minus = NoSym
  <2>1. s.add = e.add - m /\ l.v \in Int
    BY <1>3, <1>9, <1>14 DEF OkValue
  <2>2. r = Added(l, e.add - m)
    BY <1>7, <1>8, <1>14, <2>1
  <2>3. Combined(P, NumberIs(m), e.add, e.minus) # Any /\ Agrees(table, exact, l, P)
    BY <1>1, <1>5, <1>9, <1>14
  <2>4. Agrees(table, exact, Added(l, e.add - m), Combined(P, NumberIs(m), e.add, e.minus))
    BY <1>3, <2>1, <2>3, AgreesAdded
  <2> QED  BY <1>1, <1>5, <1>14, <2>2, <2>4
<1>15. CASE s.plus = NoSym /\ s.minus # NoSym
  <2> PICK q : q = sv[s.minus]
    OBVIOUS
  <2>1. q.kind # "cycle" /\ OkValue(table, q) /\ Agrees(table, exact, q, M) /\ q.v \in Int
    BY <1>10, <1>15 DEF OkValue
  <2> PICK v : v = q.v
    OBVIOUS
  <2>2. v \in Int /\ (M = NumberIs(v) \/ M[1] \in {"section", "external"})
    BY <2>1, AgreesPlace
  <2>3. (M = NumberIs(M[2]) /\ M[2] \in Int) \/ M[1] \in {"section", "external"}
    BY <2>2, Places
  <2>4. s.add = p + e.add /\ e.minus # NoSym
    BY <1>3, <1>10, <1>15
  <2>5. Combined(NumberIs(p), M, e.add, e.minus) = Combined(NumberIs(p + e.add), M, 0, e.minus)
    <3>1. p \in Int /\ e.add \in Int
      BY <1>3
    <3> QED  BY <2>4, <2>3, <3>1, CombinedFolded
  <2>6. ExprMeans(e, at, mn) = Combined(NumberIs(s.add), M, 0, e.minus)
    BY <1>1, <1>4, <1>15, <2>4, <2>5
  <2>7. Agrees(table, exact, l, NumberIs(s.add)) /\ OkValue(table, l) /\ l.kind # "cycle"
    BY <1>11, <1>15 DEF Agrees
  <2>8. Agrees(table, exact, Added(Subtracted(table, l, q, insec, pc), 0), Combined(NumberIs(s.add), M, 0, e.minus))
    BY <2>1, <2>4, <2>6, <2>7, AgreesSubtracted
  <2>9. r = Added(Subtracted(table, l, q, insec, pc), 0)
    BY <1>7, <1>8, <1>11, <1>15
  <2> QED  BY <2>6, <2>8, <2>9
<1>16. CASE s.plus # NoSym /\ s.minus # NoSym
  <2> PICK q : q = sv[s.minus]
    OBVIOUS
  <2>1. q.kind # "cycle" /\ OkValue(table, q) /\ Agrees(table, exact, q, M)
    BY <1>10, <1>16
  <2>2. l.kind # "cycle" /\ OkValue(table, l) /\ Agrees(table, exact, l, P)
    BY <1>9, <1>16
  <2>3. s.add = e.add /\ e.minus # NoSym /\ n = e.add
    BY <1>3, <1>9, <1>10, <1>16
  <2>4. Agrees(table, exact, Added(Subtracted(table, l, q, insec, pc), e.add), Combined(P, M, e.add, e.minus))
    BY <1>1, <1>3, <2>1, <2>2, <2>3, AgreesSubtracted
  <2>5. r = Added(Subtracted(table, l, q, insec, pc), e.add)
    BY <1>7, <1>8, <1>16, <2>3
  <2> QED  BY <1>1, <2>4, <2>5
<1> QED  BY <1>13, <1>14, <1>15, <1>16

----------------------------------------------------------------------------
(* The table and the definitions.                                          *)

\* What a symbol means at the end is m, or nothing is known of it, however far
\* the definitions are followed.
MeansOnly(g, k, m) == \A d \in 0 .. Len(defs) : KeyMeans(k, g[d]) \in {Any, m}

\* The expression of a symbol is what was kept of its last definition, or its value.
HasValue(t, rd, g, k) ==
  LET i == Latest(DefsOf(k)) IN
  \/ /\ DefsOf(k) # {} /\ defs[i].how # "label"
     /\ Reads(defs, rd, defs[i].expr, t[k].expr, defs[i].line)
  \/ IsNumber(t[k].expr) /\ MeansOnly(g, k, NumberIs(t[k].expr.add))

\* A symbol is what its last definition made of it.
IsDefined(t, rd, g, exact, k) ==
  \/ /\ t[k].type = "import"
     /\ \A d \in 0 .. Len(defs) :
          \/ KeyMeans(k, g[d]) = Any
          \/ \E v, b : KeyMeans(k, g[d]) = <<"external", v, b>> /\ (exact => v = 0 /\ b = k)
  \/ /\ t[k].type = "label" /\ t[k].pc \in Int /\ (IsAbs(t, k) <=> absolute)
     /\ MeansOnly(g, k, <<IF absolute THEN "number" ELSE "section", t[k].pc>>)
  \/ /\ t[k].type \in {"expression", "string"}
     /\ Closed(t, t[k].expr) /\ t[k].expr.add \in Int
     /\ HasValue(t, rd, g, k)

LEMMA LabelAgrees ==
  ASSUME NEW exact, NEW r, NEW k, IsLabel(table, k), NEW v, NEW m,
         r = [cnst |-> IsAbs(table, k), v |-> v, kind |-> "ok", base |-> k],
         IsAbs(table, k) <=> absolute, m = <<IF absolute THEN "number" ELSE "section", v>>
  PROVE  Agrees(table, exact, r, m)
<1>1. /\ r.cnst <=> absolute
      /\ r.v = v /\ r.kind = "ok" /\ r.base = k
  OBVIOUS
<1>2. CASE absolute
  BY <1>1, <1>2 DEF Agrees, NumberIs
<1>3. CASE ~absolute
  BY <1>1, <1>3 DEF Agrees
<1> QED  BY <1>2, <1>3

\* One symbol, when the symbols in its expression agree.
LEMMA SymbolAgrees ==
  ASSUME NEW rd, ReadDefs(defs, rd, line), NoMoves, NEW g, MeaningChain(g), NEW exact,
         NEW sv, \A d \in 0 .. Len(defs) : Agreeing(exact, sv, g[d]),
         NEW insec, NEW pc \in Int, NEW k \in DOMAIN table, IsDefined(table, rd, g, exact, k),
         NEW d \in 0 .. Len(defs), NEW r, r = SymbolValue(table, sv, k, insec, pc)
  PROVE  /\ OkValue(table, r)
         /\ (r.kind # "cycle" /\ KeyMeans(k, g[d]) # Any) => Agrees(table, exact, r, KeyMeans(k, g[d]))
<1>1. Len(defs) \in Nat /\ DOMAIN defs = 1 .. Len(defs)
  BY SeqDomain DEF ReadDefs
<1>2. CASE table[k].type = "import"
  <2>1. r = [cnst |-> FALSE, v |-> 0, kind |-> "ok", base |-> k]
    BY <1>2 DEF SymbolValue
  <2>2. ~r.cnst /\ r.cnst \in BOOLEAN /\ r.v = 0 /\ r.kind = "ok" /\ r.base = k
    BY <2>1
  <2>3. OkValue(table, r)
    BY <1>2, <2>2 DEF OkValue
  <2>4. KeyMeans(k, g[d]) # Any =>
          \E v, b : KeyMeans(k, g[d]) = <<"external", v, b>> /\ (exact => v = 0 /\ b = k)
    BY <1>2 DEF IsDefined
  <2>5. KeyMeans(k, g[d]) # Any => Agrees(table, exact, r, KeyMeans(k, g[d]))
    BY <1>2, <2>2, <2>4 DEF Agrees, IsImport
  <2> QED  BY <2>3, <2>5
<1>3. CASE table[k].type = "label"
  <2>1. r = [cnst |-> IsAbs(table, k), v |-> table[k].pc, kind |-> "ok", base |-> k]
    BY <1>3 DEF SymbolValue
  <2>2. table[k].pc \in Int /\ (IsAbs(table, k) <=> absolute)
    BY <1>3 DEF IsDefined
  <2>3. IsAbs(table, k) \in BOOLEAN
    BY DEF IsAbs
  <2>4. OkValue(table, r)
    BY <1>3, <2>1, <2>2, <2>3 DEF OkValue
  <2>5. KeyMeans(k, g[d]) # Any => KeyMeans(k, g[d]) = <<IF absolute THEN "number" ELSE "section", table[k].pc>>
    BY <1>3 DEF IsDefined, MeansOnly
  <2>6. KeyMeans(k, g[d]) # Any => Agrees(table, exact, r, KeyMeans(k, g[d]))
    BY <1>3, <2>1, <2>2, <2>5, LabelAgrees DEF IsLabel
  <2> QED  BY <2>4, <2>6
<1>4. CASE table[k].type \in {"expression", "string"}
  <2> PICK s : s = table[k].expr
    OBVIOUS
  <2>1. r = EvalWith(table, sv, s, insec, pc)
    BY <1>4 DEF SymbolValue
  <2>2. Closed(table, s) /\ s.add \in Int
    BY <1>4 DEF IsDefined
  <2>3. 0 \in 0 .. Len(defs)
    BY <1>1
  <2>4. \A x \in DOMAIN table : OkValue(table, sv[x])
    BY <2>3 DEF Agreeing
  <2>5. OkValue(table, r)
    BY <2>1, <2>2, <2>4, EvalOk
  <2>6. SUFFICES ASSUME r.kind # "cycle", KeyMeans(k, g[d]) # Any
                 PROVE  Agrees(table, exact, r, KeyMeans(k, g[d]))
    BY <2>5
  <2>7. HasValue(table, rd, g, k)
    BY <1>4 DEF IsDefined
  <2>8. CASE IsNumber(s) /\ MeansOnly(g, k, NumberIs(s.add))
    <3>1. KeyMeans(k, g[d]) = NumberIs(s.add)
      BY <2>6, <2>8 DEF MeansOnly
    <3>2. s.plus = NoSym /\ s.minus = NoSym
      BY <2>8 DEF IsNumber
    <3>3. /\ ~Cyclic(sv, s)
          /\ Operand(sv, s.plus, s.add) = [cnst |-> TRUE, v |-> s.add, kind |-> "illegal", base |-> NoSym]
      BY <3>2 DEF Cyclic, Operand
    <3>4. r = Added([cnst |-> TRUE, v |-> s.add, kind |-> "illegal", base |-> NoSym], 0)
      BY <2>1, <3>2, <3>3, EvalWithIs
    <3>5. r.cnst /\ r.v = s.add
      BY <2>2, <3>4, AddedIs
    <3> QED  BY <3>1, <3>5 DEF Agrees
  <2>9. ASSUME NEW i, i = Latest(DefsOf(k)), DefsOf(k) # {}, defs[i].how # "label",
               Reads(defs, rd, defs[i].expr, s, defs[i].line)
        PROVE  Agrees(table, exact, r, KeyMeans(k, g[d]))
    <3>1. KeyMeans(k, g[d]) = g[d][i]
      BY <2>9 DEF KeyMeans
    <3>2. i \in DOMAIN defs
      <4>1. DefsOf(k) = Of(defs, k)
        BY DEF DefsOf, Of
      <4> QED  BY <2>9, <4>1, LatestOfKey DEF ReadDefs
    <3>3. d # 0
      BY <2>6, <3>1, <3>2 DEF MeaningChain
    <3>4. d \in 1 .. Len(defs) /\ d - 1 \in 0 .. Len(defs)
      BY <1>1, <3>3
    <3> PICK mn : mn = g[d - 1]
      OBVIOUS
    <3>5. KeyMeans(k, g[d]) = ExprMeans(defs[i].expr, defs[i].line, mn)
      BY <2>9, <3>1, <3>2, <3>4 DEF MeaningChain, DefMeans
    <3>6. Agreeing(exact, sv, mn)
      BY <3>4
    <3>7. \A j \in DOMAIN defs : Numeric(defs, rd, j) => mn[j] \in {Any, NumberIs(rd[j].add)}
      BY <3>4, NumericMeans
    <3>8. Agrees(table, exact, EvalWith(table, sv, s, insec, pc), ExprMeans(defs[i].expr, defs[i].line, mn))
      BY <2>1, <2>2, <2>6, <2>9, <3>5, <3>6, <3>7, EvalAgrees
    <3> QED  BY <2>1, <3>5, <3>8
  <2> QED  BY <2>7, <2>8, <2>9 DEF HasValue
<1> QED  BY <1>2, <1>3, <1>4 DEF IsDefined

LEMMA ValuesAgree ==
  ASSUME NEW rd, ReadDefs(defs, rd, line), NoMoves, NEW g, MeaningChain(g), NEW exact,
         \A k \in DOMAIN table : IsDefined(table, rd, g, exact, k), Cardinality(DOMAIN table) \in Nat,
         NEW insec, NEW pc \in Int
  PROVE  \A d \in 0 .. Len(defs) : Agreeing(exact, SymbolValues(table, insec, pc), g[d])
<1> PICK f : ValueChain(table, insec, pc, f)
  BY ValueChainExists
<1> PICK N : N = Cardinality(DOMAIN table)
  OBVIOUS
<1> DEFINE S == {c \in Nat : c <= N => \A d \in 0 .. Len(defs) : Agreeing(exact, f[c], g[d])}
<1>1. Len(defs) \in Nat
  BY SeqDomain DEF ReadDefs
<1>2. 0 \in S
  <2>1. \A k \in DOMAIN table : f[0][k] = InEval
    BY DEF ValueChain
  <2>2. InEval.kind = "cycle" /\ OkValue(table, InEval)
    BY DEF InEval, OkValue
  <2> QED  BY <2>1, <2>2 DEF Agreeing
<1>3. ASSUME NEW c \in Nat, c \in S PROVE c + 1 \in S
  <2>1. SUFFICES ASSUME c + 1 <= N, NEW d \in 0 .. Len(defs) PROVE Agreeing(exact, f[c + 1], g[d])
    OBVIOUS
  <2> PICK sv : sv = f[c]
    OBVIOUS
  <2>2. \A k \in DOMAIN table : f[c + 1][k] = SymbolValue(table, sv, k, insec, pc)
    <3>1. c + 1 \in 1 .. N /\ (c + 1) - 1 = c
      BY <2>1
    <3> QED  BY <3>1 DEF ValueChain
  <2>3. \A x \in 0 .. Len(defs) : Agreeing(exact, sv, g[x])
    BY <1>3, <2>1
  <2> HIDE DEF S
  <2>4. ASSUME NEW k \in DOMAIN table
        PROVE  /\ OkValue(table, f[c + 1][k])
               /\ (f[c + 1][k].kind # "cycle" /\ KeyMeans(k, g[d]) # Any)
                    => Agrees(table, exact, f[c + 1][k], KeyMeans(k, g[d]))
    <3> PICK r : r = f[c + 1][k]
      OBVIOUS
    <3>1. r = SymbolValue(table, sv, k, insec, pc) /\ IsDefined(table, rd, g, exact, k)
      BY <2>2
    <3>2. /\ OkValue(table, r)
          /\ (r.kind # "cycle" /\ KeyMeans(k, g[d]) # Any) => Agrees(table, exact, r, KeyMeans(k, g[d]))
      BY <2>3, <3>1, SymbolAgrees
    <3> QED  BY <3>2
  <2> QED  BY <2>4 DEF Agreeing
<1> HIDE DEF S
<1>4. N \in S
  BY <1>2, <1>3, SetInduction
<1>5. \A d \in 0 .. Len(defs) : Agreeing(exact, f[N], g[d])
  BY <1>1, <1>4 DEF S
<1> QED  BY <1>5 DEF ValueChain

\* What is kept of an expression has the value the expression means.
LEMMA ExprAgrees ==
  ASSUME NEW rd, ReadDefs(defs, rd, line), NoMoves, NEW g, MeaningChain(g), NEW exact,
         \A k \in DOMAIN table : IsDefined(table, rd, g, exact, k), Cardinality(DOMAIN table) \in Nat,
         NEW insec, NEW pc \in Int, NEW e, NEW s, NEW at,
         Reads(defs, rd, e, s, at), Closed(table, s),
         eval_expr(table, s, insec, pc).kind # "cycle", ExprMeans(e, at, Meanings) # Any
  PROVE  Agrees(table, exact, eval_expr(table, s, insec, pc), ExprMeans(e, at, Meanings))
<1> PICK sv, mn : sv = SymbolValues(table, insec, pc) /\ mn = Meanings
  OBVIOUS
<1>1. Len(defs) \in 0 .. Len(defs) /\ mn = g[Len(defs)]
  BY SeqDomain DEF ReadDefs, MeaningChain
<1>2. Agreeing(exact, sv, mn)
  BY <1>1, ValuesAgree
<1>3. \A i \in DOMAIN defs : Numeric(defs, rd, i) => mn[i] \in {Any, NumberIs(rd[i].add)}
  BY <1>1, NumericMeans
<1>4. eval_expr(table, s, insec, pc) = EvalWith(table, sv, s, insec, pc)
  BY DEF eval_expr
<1>5. Agrees(table, exact, EvalWith(table, sv, s, insec, pc), ExprMeans(e, at, mn))
  BY <1>2, <1>3, <1>4, EvalAgrees
<1> QED  BY <1>4, <1>5

LEMMA AgreesIsPlace ==
  ASSUME NEW t, NEW r, NEW m, Agrees(t, TRUE, r, m)
  PROVE  Place(t, r) = m
<1>1. CASE r.cnst /\ m = NumberIs(r.v)
  BY <1>1 DEF Place, NumberIs
<1>2. CASE ~r.cnst /\ r.kind = "ok" /\ IsLabel(t, r.base) /\ m = <<"section", r.v>>
  BY <1>2 DEF Place, IsLabel, IsImport
<1>3. CASE ~r.cnst /\ r.kind = "ok" /\ IsImport(t, r.base) /\ m = <<"external", r.v, r.base>>
  BY <1>3 DEF Place, IsLabel, IsImport
<1> QED  BY <1>1, <1>2, <1>3 DEF Agrees

----------------------------------------------------------------------------
(* What the lines of a source leave behind.                                *)

LEMMA AssignedExpr ==
  ASSUME NEW t, IsTable(t), NEW k, NEW ty, NEW e
  PROVE  Assigned(t, k, ty, e)[k].expr = e
<1> DEFINE known == new_import(t, k)
<1>1. IsTable(known) /\ k \in DOMAIN known
  BY NewImport DEF Extended
<1> HIDE DEF known
<1>2. Assigned(t, k, ty, e) = [known EXCEPT ![k].type = ty, ![k].expr = e]
  BY DEF Assigned, known
<1> DEFINE s == known[k]
           n == [type |-> ty, flags |-> s.flags, expr |-> e, pc |-> s.pc, nr |-> s.nr]
<1>3. [[s EXCEPT !.type = ty] EXCEPT !.expr = e] = n
  <2>1. SymRec(s)
    BY <1>1 DEF IsTable
  <2> HIDE DEF s
  <2> QED  BY <2>1, RecordValue
<1>4. Assigned(t, k, ty, e) = [x \in DOMAIN known |-> IF x = k THEN n ELSE known[x]]
  BY <1>1, <1>2, <1>3 DEF IsTable
<1>5. n.expr = e
  OBVIOUS
<1> HIDE DEF n
<1> QED  BY <1>1, <1>4, <1>5

LEMMA FlaggedValue ==
  ASSUME NEW t, IsTable(t), NEW k \in DOMAIN t, NEW f
  PROVE  Flagged(t, k, f)[k].expr = t[k].expr /\ Flagged(t, k, f)[k].pc = t[k].pc
<1> DEFINE s == t[k]
           n == [type |-> s.type, flags |-> s.flags \cup f, expr |-> s.expr, pc |-> s.pc, nr |-> s.nr]
<1>1. [s EXCEPT !.flags = @ \cup f] = n
  BY RecordFlags DEF IsTable
<1>2. Flagged(t, k, f) = [x \in DOMAIN t |-> IF x = k THEN n ELSE t[x]]
  BY <1>1 DEF IsTable, Flagged
<1>3. n.expr = s.expr /\ n.pc = s.pc
  OBVIOUS
<1> HIDE DEF n
<1> QED  BY <1>2, <1>3

\* A symbol is what the last line that defined it made of it.
SymbolTraced(t, ds, rd, k) ==
  LET i == Latest(Of(ds, k)) IN
  IF Of(ds, k) = {} THEN t[k].type = "import"
  ELSE IF ds[i].how = "label" THEN t[k].type = "label" /\ t[k].pc = ds[i].pc
  ELSE t[k].type \in {"expression", "string"} /\ t[k].expr = rd[i] /\ Closed(t, rd[i])

DatumTraced(t, ds, rd, a, n) ==
  a.line \in 1 .. n /\ a.pc \in Int /\ Closed(t, a.expr) /\ Reads(ds, rd, a.written, a.expr, a.line)

\* The table t and the atoms ats are what n lines without an error made of them.
Traced(t, ds, rd, ats, n) ==
  /\ ReadDefs(ds, rd, n) /\ IsSeq(ats)
  /\ \A i \in DOMAIN ds : ds[i].key \in DOMAIN t
  /\ \A k \in DOMAIN t : SymbolTraced(t, ds, rd, k)
  /\ \A i \in DOMAIN ats : ats[i].what = "data" => DatumTraced(t, ds, rd, ats[i], n)

LEMMA TracedExtended ==
  ASSUME NEW t, NEW r, Extended(t, r), NEW ds, NEW rd, NEW ats, NEW n, Traced(t, ds, rd, ats, n)
  PROVE  Traced(r, ds, rd, ats, n)
<1>1. \A e : Closed(t, e) => Closed(r, e)
  BY DEF Extended, Closed
<1>2. ASSUME NEW k \in DOMAIN r PROVE SymbolTraced(r, ds, rd, k)
  <2>1. CASE k \in DOMAIN t
    BY <1>1, <2>1 DEF Traced, SymbolTraced, Extended
  <2>2. CASE k \notin DOMAIN t
    <3>1. Of(ds, k) = {} /\ r[k].type = "import"
      BY <2>2 DEF Of, Traced, Extended
    <3> QED  BY <3>1 DEF SymbolTraced
  <2> QED  BY <2>1, <2>2
<1>3. \A a : DatumTraced(t, ds, rd, a, n) => DatumTraced(r, ds, rd, a, n)
  BY <1>1 DEF DatumTraced
<1>4. \A i \in DOMAIN ds : ds[i].key \in DOMAIN r
  BY DEF Traced, Extended
<1> QED  BY <1>2, <1>3, <1>4 DEF Traced

LEMMA TracedNext ==
  ASSUME NEW t, NEW ds, NEW rd, NEW ats, NEW n, Traced(t, ds, rd, ats, n)
  PROVE  Traced(t, ds, rd, ats, n + 1)
<1>1. n \in Nat /\ 1 .. n \subseteq 1 .. n + 1 /\ n + 1 \in Nat
  BY DEF Traced, ReadDefs
<1>2. ReadDefs(ds, rd, n + 1)
  BY <1>1 DEF Traced, ReadDefs, InOrder
<1>3. \A a : DatumTraced(t, ds, rd, a, n) => DatumTraced(t, ds, rd, a, n + 1)
  BY <1>1 DEF DatumTraced
<1> QED  BY <1>2, <1>3 DEF Traced

\* The flags of the symbols do not matter.
LEMMA TracedSame ==
  ASSUME NEW t, NEW r, NEW ds, NEW rd, NEW ats, NEW n, Traced(t, ds, rd, ats, n), DOMAIN r = DOMAIN t,
         \A k \in DOMAIN t : r[k].type = t[k].type /\ r[k].expr = t[k].expr /\ r[k].pc = t[k].pc
  PROVE  Traced(r, ds, rd, ats, n)
<1>1. \A e : Closed(t, e) => Closed(r, e)
  BY DEF Closed
<1>2. ASSUME NEW k \in DOMAIN r PROVE SymbolTraced(r, ds, rd, k)
  BY <1>1 DEF Traced, SymbolTraced
<1>3. \A a : DatumTraced(t, ds, rd, a, n) => DatumTraced(r, ds, rd, a, n)
  BY <1>1 DEF DatumTraced
<1> QED  BY <1>2, <1>3 DEF Traced

\* One more atom.
LEMMA TracedAtom ==
  ASSUME NEW t, NEW ds, NEW rd, NEW ats, NEW n, Traced(t, ds, rd, ats, n),
         NEW a, a.what = "data" => DatumTraced(t, ds, rd, a, n)
  PROVE  Traced(t, ds, rd, Append(ats, a), n)
<1> PICK bs : bs = Append(ats, a)
  OBVIOUS
<1>1. /\ IsSeq(bs) /\ DOMAIN ats = 1 .. Len(ats) /\ DOMAIN bs = 1 .. Len(ats) + 1 /\ Len(ats) \in Nat
      /\ \A i \in 1 .. Len(ats) : bs[i] = ats[i]
      /\ bs[Len(ats) + 1] = a
  BY AppendIsSeq DEF Traced, IsSeq
<1>2. ASSUME NEW i \in DOMAIN bs, bs[i].what = "data" PROVE DatumTraced(t, ds, rd, bs[i], n)
  <2>1. CASE i \in DOMAIN ats
    BY <1>1, <1>2, <2>1 DEF Traced
  <2>2. CASE i = Len(ats) + 1
    BY <1>1, <1>2, <2>2
  <2> QED  BY <1>1, <2>1, <2>2
<1>3. Traced(t, ds, rd, bs, n)
  BY <1>1, <1>2 DEF Traced
<1> QED  BY <1>3

\* What is read before a definition does not depend on it.
LEMMA ReadsBefore ==
  ASSUME NEW ds, NEW rd, NEW n, ReadDefs(ds, rd, n), NEW d, d.line = n + 1, NEW s,
         NEW e, NEW x, NEW at \in 1 .. n + 1, Reads(ds, rd, e, x, at)
  PROVE  Reads(Append(ds, d), Append(rd, s), e, x, at)
<1> PICK es, rs, N : es = Append(ds, d) /\ rs = Append(rd, s) /\ N = Len(ds)
  OBVIOUS
<1>1. /\ N \in Nat /\ DOMAIN ds = 1 .. N /\ DOMAIN es = 1 .. N + 1
      /\ \A i \in 1 .. N : es[i] = ds[i] /\ rs[i] = rd[i]
      /\ es[N + 1] = d
  BY AppendIsSeq DEF ReadDefs, IsSeq
<1>2. n \in Nat
  BY DEF ReadDefs
<1>3. ASSUME NEW k PROVE Earlier(es, k, at) = Earlier(ds, k, at)
  <2>1. N + 1 \notin Earlier(es, k, at)
    BY <1>1, <1>2 DEF Earlier
  <2>2. \A i : i \in Earlier(es, k, at) <=> i \in Earlier(ds, k, at)
    BY <1>1, <2>1 DEF Earlier, Of
  <2> QED  BY <2>2 DEF Earlier, Of
<1>4. ASSUME NEW k, NEW y, NEW v, Put(ds, rd, k, y, v, at) PROVE Put(es, rs, k, y, v, at)
  <2> PICK i : i = Latest(Earlier(ds, k, at))
    OBVIOUS
  <2>1. Earlier(ds, k, at) # {} => i \in 1 .. N
    BY <1>1, LatestEarlier DEF ReadDefs
  <2>2. Earlier(ds, k, at) # {} => es[i] = ds[i] /\ rs[i] = rd[i]
    BY <1>1, <2>1
  <2> QED  BY <1>3, <1>4, <2>2 DEF Put, Numeric
<1>5. Reads(es, rs, e, x, at)
  BY <1>4 DEF Reads
<1> QED  BY <1>5

\* One more definition, of k: the table t becomes r, and s is kept of its expression.
LEMMA TracedDefinition ==
  ASSUME NEW t, NEW ds, NEW rd, NEW ats, NEW n, Traced(t, ds, rd, ats, n),
         NEW k, NEW r, DOMAIN r = DOMAIN t \cup {k}, \A x \in DOMAIN t \ {k} : r[x] = t[x],
         NEW d, d.key = k, d.line = n + 1, NEW s,
         IF d.how = "label" THEN r[k].type = "label" /\ r[k].pc = d.pc /\ d.pc \in Int
         ELSE /\ r[k].type \in {"expression", "string"} /\ r[k].expr = s /\ Closed(r, s)
              /\ Reads(ds, rd, d.expr, s, n + 1)
  PROVE  Traced(r, Append(ds, d), Append(rd, s), ats, n + 1)
<1> PICK es, rs, N : es = Append(ds, d) /\ rs = Append(rd, s) /\ N = Len(ds)
  OBVIOUS
<1>1. ReadDefs(ds, rd, n) /\ n \in Nat
  BY DEF Traced, ReadDefs
<1>2. /\ N \in Nat /\ DOMAIN ds = 1 .. N /\ DOMAIN es = 1 .. N + 1
      /\ \A i \in 1 .. N : es[i] = ds[i] /\ rs[i] = rd[i]
      /\ es[N + 1] = d /\ rs[N + 1] = s
      /\ IsSeq(es) /\ IsSeq(rs) /\ Len(rs) = Len(es)
  BY <1>1, AppendIsSeq DEF ReadDefs, IsSeq
<1>3. \A e : Closed(t, e) => Closed(r, e)
  BY DEF Closed
<1>4. \A e, x : \A at \in 1 .. n + 1 : Reads(ds, rd, e, x, at) => Reads(es, rs, e, x, at)
  BY <1>1, ReadsBefore
<1>5. ReadDefs(es, rs, n + 1)
  <2>1. InOrder(es, n + 1)
    <3>1. \A i \in 1 .. N : es[i].line \in 1 .. n
      BY <1>1, <1>2 DEF ReadDefs, InOrder
    <3>2. es[N + 1].line = n + 1
      BY <1>2
    <3>3. \A i, j \in 1 .. N : i < j => es[i].line < es[j].line
      BY <1>1, <1>2 DEF ReadDefs, InOrder
    <3>4. \A i \in DOMAIN es : i \in 1 .. N \/ i = N + 1
      BY <1>2
    <3>5. \A i \in DOMAIN es : es[i].line \in 1 .. n + 1
      BY <1>1, <3>1, <3>2, <3>4
    <3>6. ASSUME NEW i \in DOMAIN es, NEW j \in DOMAIN es, i < j
          PROVE  es[i].line < es[j].line
      <4>1. i \in 1 .. N
        BY <1>2, <3>6
      <4>2. CASE j \in 1 .. N
        BY <3>3, <3>6, <4>1, <4>2
      <4>3. CASE j = N + 1
        BY <1>1, <3>1, <3>2, <4>1, <4>3
      <4> QED  BY <3>4, <4>2, <4>3
    <3> QED  BY <3>5, <3>6 DEF InOrder
  <2>2. ASSUME NEW i \in DOMAIN es
        PROVE  IF es[i].how = "label" THEN es[i].pc \in Int
               ELSE Reads(es, rs, es[i].expr, rs[i], es[i].line)
    <3>1. CASE i \in 1 .. N
      <4>1. IF ds[i].how = "label" THEN ds[i].pc \in Int
            ELSE Reads(ds, rd, ds[i].expr, rd[i], ds[i].line)
        BY <1>1, <1>2, <3>1 DEF ReadDefs
      <4>2. ds[i].line \in 1 .. n + 1
        BY <1>1, <1>2, <3>1 DEF ReadDefs, InOrder
      <4>3. es[i] = ds[i] /\ rs[i] = rd[i]
        BY <1>2, <3>1
      <4> QED  BY <1>4, <4>1, <4>2, <4>3
    <3>2. CASE i = N + 1
      <4>1. es[i] = d /\ rs[i] = s
        BY <1>2, <3>2
      <4>2. n + 1 \in 1 .. n + 1
        BY <1>1
      <4> QED  BY <1>4, <4>1, <4>2
    <3> QED  BY <1>2, <3>1, <3>2
  <2> QED  BY <1>1, <1>2, <2>1, <2>2 DEF ReadDefs
<1>6. ASSUME NEW x \in DOMAIN r PROVE SymbolTraced(r, es, rs, x)
  <2>1. CASE x = k
    <3>1. N + 1 \in Of(es, k) /\ Of(es, k) \in SUBSET (1 .. N + 1)
      BY <1>2 DEF Of
    <3>2. \A j \in Of(es, k) : j <= N + 1
      BY <1>2, <3>1
    <3>3. Latest(Of(es, k)) = N + 1
      <4>1. N + 1 \in Nat
        BY <1>2
      <4> QED  BY <3>1, <3>2, <4>1, LatestOf
    <3>4. Of(es, k) # {}
      BY <3>1
    <3> QED  BY <1>2, <2>1, <3>3, <3>4 DEF SymbolTraced
  <2>2. CASE x # k
    <3>1. x \in DOMAIN t /\ r[x] = t[x]
      BY <2>2
    <3>2. Of(es, x) = Of(ds, x)
      <4>1. \A i : i \in Of(es, x) <=> i \in Of(ds, x)
        BY <1>2, <2>2 DEF Of
      <4> QED  BY <4>1 DEF Of
    <3> PICK i : i = Latest(Of(ds, x))
      OBVIOUS
    <3>3. Of(ds, x) # {} => i \in 1 .. N
      BY <1>1, <1>2, LatestOfKey DEF ReadDefs
    <3>4. Of(ds, x) # {} => es[i] = ds[i] /\ rs[i] = rd[i]
      BY <1>2, <3>3
    <3>5. SymbolTraced(t, ds, rd, x)
      BY <3>1 DEF Traced
    <3> QED  BY <1>3, <3>1, <3>2, <3>4, <3>5 DEF SymbolTraced
  <2> QED  BY <2>1, <2>2
<1>7. ASSUME NEW a, DatumTraced(t, ds, rd, a, n) PROVE DatumTraced(r, es, rs, a, n + 1)
  <2>1. a.line \in 1 .. n + 1
    BY <1>1, <1>7 DEF DatumTraced
  <2> QED  BY <1>3, <1>4, <1>7, <2>1 DEF DatumTraced
<1>8. \A i \in DOMAIN es : es[i].key \in DOMAIN r
  <2>1. \A i \in 1 .. N : es[i].key \in DOMAIN t
    BY <1>2 DEF Traced
  <2> QED  BY <1>2, <2>1
<1>9. Traced(r, es, rs, ats, n + 1)
  BY <1>5, <1>6, <1>7, <1>8 DEF Traced
<1> QED  BY <1>9

\* An expression, as it is read behind the lines of a source.
LEMMA SimplifiedReads ==
  ASSUME NEW t, NEW ds, NEW rd, NEW ats, NEW n, Traced(t, ds, rd, ats, n),
         NEW e, e.add \in Int, e.plus \in DOMAIN t \cup {NoSym}, e.minus \in DOMAIN t \cup {NoSym}
  PROVE  Reads(ds, rd, e, Simplified(t, e), n + 1) /\ Closed(t, Simplified(t, e))
<1> DEFINE value(k) == IF Constant(t, k) THEN t[k].expr.add ELSE 0
           kept(k)  == IF Constant(t, k) THEN NoSym ELSE k
<1> PICK s : s = Simplified(t, e)
  OBVIOUS
<1>1. /\ s.plus = kept(e.plus) /\ s.minus = kept(e.minus)
      /\ s.add = e.add + value(e.plus) - value(e.minus)
  BY DEF Simplified
<1>2. ReadDefs(ds, rd, n) /\ n \in Nat /\ IsSeq(ds)
  BY DEF Traced, ReadDefs
<1>3. ASSUME NEW k \in DOMAIN t \cup {NoSym}
      PROVE  Put(ds, rd, k, kept(k), value(k), n + 1) /\ value(k) \in Int
  <2>1. CASE k = NoSym
    BY <2>1 DEF Constant, Put
  <2>2. CASE k # NoSym /\ k \in DOMAIN t
    <3>1. Earlier(ds, k, n + 1) = Of(ds, k)
      <4>1. \A i \in DOMAIN ds : ds[i].line < n + 1
        BY <1>2 DEF ReadDefs, InOrder
      <4> QED  BY <4>1 DEF Earlier, Of
    <3>2. SymbolTraced(t, ds, rd, k)
      BY <2>2 DEF Traced
    <3> PICK i : i = Latest(Of(ds, k))
      OBVIOUS
    <3>3. CASE Of(ds, k) = {}
      <4>1. ~Constant(t, k)
        BY <3>2, <3>3 DEF SymbolTraced, Constant
      <4> QED  BY <2>2, <3>1, <3>3, <4>1 DEF Put
    <3>4. CASE Of(ds, k) # {} /\ ds[i].how = "label"
      <4>1. ~Constant(t, k)
        BY <3>2, <3>4 DEF SymbolTraced, Constant
      <4> QED  BY <2>2, <3>1, <3>4, <4>1 DEF Put, Numeric
    <3>5. CASE Of(ds, k) # {} /\ ds[i].how # "label"
      <4>1. t[k].type \in {"expression", "string"} /\ t[k].expr = rd[i]
        BY <3>2, <3>5 DEF SymbolTraced
      <4>2. Constant(t, k) <=> Numeric(ds, rd, i)
        BY <2>2, <3>5, <4>1 DEF Constant, Numeric
      <4>3. rd[i].add \in Int
        <5>1. i \in DOMAIN ds
          BY <1>2, <3>5, LatestOfKey
        <5>2. Reads(ds, rd, ds[i].expr, rd[i], ds[i].line)
          BY <1>2, <3>5, <5>1 DEF ReadDefs
        <5> QED  BY <5>2 DEF Reads
      <4> QED  BY <2>2, <3>1, <3>5, <4>1, <4>2, <4>3 DEF Put
    <3> QED  BY <3>3, <3>4, <3>5
  <2> QED  BY <2>1, <2>2
<1>4. Reads(ds, rd, e, s, n + 1)
  <2> HIDE DEF value, kept
  <2>1. /\ Put(ds, rd, e.plus, s.plus, value(e.plus), n + 1) /\ value(e.plus) \in Int
        /\ Put(ds, rd, e.minus, s.minus, value(e.minus), n + 1) /\ value(e.minus) \in Int
    BY <1>1, <1>3
  <2> QED  BY <1>1, <2>1 DEF Reads
<1>5. Closed(t, s)
  BY <1>1 DEF Closed
<1> QED  BY <1>4, <1>5

LEMMA MentionedNames ==
  ASSUME NEW t, IsTable(t), NEW e
  PROVE  e.plus \in DOMAIN Mentioned(t, e) \cup {NoSym} /\ e.minus \in DOMAIN Mentioned(t, e) \cup {NoSym}
<1> DEFINE first == IF e.plus = NoSym THEN t ELSE new_import(t, e.plus)
<1>1. IsTable(first) /\ e.plus \in DOMAIN first \cup {NoSym}
  BY NewImport DEF Extended
<1> HIDE DEF first
<1>2. Mentioned(t, e) = IF e.minus = NoSym THEN first ELSE new_import(first, e.minus)
  BY DEF Mentioned, first
<1>3. CASE e.minus = NoSym
  BY <1>1, <1>2, <1>3
<1>4. CASE e.minus # NoSym
  <2>1. Extended(first, new_import(first, e.minus)) /\ e.minus \in DOMAIN new_import(first, e.minus)
    BY <1>1, NewImport
  <2> QED  BY <1>1, <1>2, <1>4, <2>1 DEF Extended
<1> QED  BY <1>3, <1>4

LEMMA PcIsNat ==
  ASSUME IsSeq(atoms)
  PROVE  Pc \in Nat
<1>1. DOMAIN atoms = 1 .. Len(atoms) /\ Len(atoms) \in Nat
  BY SeqDomain
<1>2. IsFiniteSet(DOMAIN atoms)
  BY <1>1, FS_Interval
<1>3. IsFiniteSet(Data)
  BY <1>2, FS_Subset DEF Data
<1> QED  BY <1>3, FS_CardinalityType DEF Pc

LEMMA KeyedSum ==
  ASSUME NEW e \in Sums
  PROVE  Keyed(e).add \in Int
BY DEF Keyed, Sums

\* r is the table t with another symbol k.
Assigning(t, k, ty, e, r) ==
  /\ IsTable(r) /\ DOMAIN r = DOMAIN t \cup {k} /\ \A x \in DOMAIN t \ {k} : r[x] = t[x]
  /\ r[k].type = ty /\ r[k].flags = (IF k \in DOMAIN t THEN t[k].flags ELSE {}) /\ r[k].expr = e

LEMMA AssignedSymbol ==
  ASSUME NEW t, IsTable(t), NEW k, NEW ty, NEW e
  PROVE  Assigning(t, k, ty, e, Assigned(t, k, ty, e))
<1>1. /\ IsTable(Assigned(t, k, ty, e)) /\ DOMAIN Assigned(t, k, ty, e) = DOMAIN t \cup {k}
      /\ \A x \in DOMAIN t \ {k} : Assigned(t, k, ty, e)[x] = t[x]
      /\ Assigned(t, k, ty, e)[k].type = ty
      /\ Assigned(t, k, ty, e)[k].flags = IF k \in DOMAIN t THEN t[k].flags ELSE {}
  BY AssignedTable
<1>2. Assigned(t, k, ty, e)[k].expr = e
  BY AssignedExpr
<1> QED  BY <1>1, <1>2 DEF Assigning

\* What an expression that is mentioned in a line becomes.
LEMMA MentionedReads ==
  ASSUME IsTable(table), NEW rd, Traced(table, defs, rd, atoms, line), NEW w \in Sums,
         NEW e, e = Keyed(w), NEW known, known = Mentioned(table, e)
  PROVE  /\ Extended(table, known) /\ IsTable(known) /\ Traced(known, defs, rd, atoms, line)
         /\ Reads(defs, rd, e, Simplified(known, e), line + 1) /\ Closed(known, Simplified(known, e))
<1>1. Extended(table, known) /\ IsTable(known)
  BY MentionedExtends DEF Extended
<1>2. Traced(known, defs, rd, atoms, line)
  BY <1>1, TracedExtended
<1>3. e.add \in Int /\ e.plus \in DOMAIN known \cup {NoSym} /\ e.minus \in DOMAIN known \cup {NoSym}
  BY KeyedSum, MentionedNames
<1> QED  BY <1>1, <1>2, <1>3, SimplifiedReads

LEMMA EquTraced ==
  ASSUME IsTable(table), NEW rd, Traced(table, defs, rd, atoms, line),
         NEW l \in menu, EquLine(l), l.expr \in Sums
  PROVE  \E rs : Traced(table', defs', rs, atoms', line')
<1> PICK k, e : k = Key(l.name) /\ e = Keyed(l.expr)
  OBVIOUS
<1> PICK known : known = Mentioned(table, e)
  OBVIOUS
<1> PICK s : s = Simplified(known, e)
  OBVIOUS
<1> PICK mid : mid = Assigned(known, k, "expression", s)
  OBVIOUS
<1> PICK r : r = Flagged(mid, k, {"EQUATE"} \cup l.flags)
  OBVIOUS
<1> DEFINE d == [key |-> k, how |-> "equ", expr |-> e, line |-> line', pc |-> Pc]
<1>1. table' = r /\ defs' = Append(defs, d) /\ atoms' = atoms /\ line' = line + 1
  BY DEF EquLine, Reading, Define
<1>2. d.key = k /\ d.how = "equ" /\ d.expr = e /\ d.line = line + 1
  BY <1>1
<1> HIDE DEF d
<1>3. /\ IsTable(known) /\ Traced(known, defs, rd, atoms, line)
      /\ Reads(defs, rd, e, s, line + 1) /\ Closed(known, s)
  BY MentionedReads
<1>4. Assigning(known, k, "expression", s, mid)
  BY <1>3, AssignedSymbol
<1>5. IsTable(mid) /\ k \in DOMAIN mid
  BY <1>4 DEF Assigning
<1>6. /\ DOMAIN r = DOMAIN known \cup {k} /\ \A x \in DOMAIN known \ {k} : r[x] = known[x]
      /\ r[k].type = "expression"
  BY <1>4, <1>5, FlaggedTable DEF Assigning
<1>7. r[k].expr = s
  BY <1>4, <1>5, FlaggedValue DEF Assigning
<1>8. Closed(r, s)
  BY <1>3, <1>6 DEF Closed
<1>9. Traced(r, Append(defs, d), Append(rd, s), atoms, line + 1)
  BY <1>2, <1>3, <1>6, <1>7, <1>8, TracedDefinition
<1> QED  BY <1>1, <1>9

LEMMA SetTraced ==
  ASSUME IsTable(table), NEW rd, Traced(table, defs, rd, atoms, line),
         NEW l \in menu, SetLine(l), l.expr \in Sums
  PROVE  \E rs : Traced(table', defs', rs, atoms', line')
<1> PICK k, e : k = Key(l.name) /\ e = Keyed(l.expr)
  OBVIOUS
<1> PICK known : known = Mentioned(table, e)
  OBVIOUS
<1> PICK s : s = Simplified(known, e)
  OBVIOUS
<1> PICK r : r = Assigned(known, k, "expression", s)
  OBVIOUS
<1> DEFINE d == [key |-> k, how |-> "set", expr |-> e, line |-> line', pc |-> Pc]
<1>1. table' = r /\ defs' = Append(defs, d) /\ atoms' = atoms /\ line' = line + 1
  BY DEF SetLine, Reading, Define
<1>2. d.key = k /\ d.how = "set" /\ d.expr = e /\ d.line = line + 1
  BY <1>1
<1> HIDE DEF d
<1>3. /\ IsTable(known) /\ Traced(known, defs, rd, atoms, line)
      /\ Reads(defs, rd, e, s, line + 1) /\ Closed(known, s)
  BY MentionedReads
<1>4. Assigning(known, k, "expression", s, r)
  BY <1>3, AssignedSymbol
<1>5. /\ DOMAIN r = DOMAIN known \cup {k} /\ \A x \in DOMAIN known \ {k} : r[x] = known[x]
      /\ r[k].type = "expression" /\ r[k].expr = s
  BY <1>4 DEF Assigning
<1>6. Closed(r, s)
  BY <1>3, <1>5 DEF Closed
<1>7. Traced(r, Append(defs, d), Append(rd, s), atoms, line + 1)
  BY <1>2, <1>3, <1>5, <1>6, TracedDefinition
<1> QED  BY <1>1, <1>7

LEMMA EqusTraced ==
  ASSUME IsTable(table), NEW rd, Traced(table, defs, rd, atoms, line),
         NEW l \in menu, EqusLine(l), l.expr \in [plus : {NoSym}, minus : {NoSym}, add : Nat]
  PROVE  \E rs : Traced(table', defs', rs, atoms', line')
<1> PICK k, e : k = Key(l.name) /\ e = l.expr
  OBVIOUS
<1> PICK r : r = Assigned(table, k, "string", e)
  OBVIOUS
<1> DEFINE d == [key |-> k, how |-> "equs", expr |-> e, line |-> line', pc |-> Pc]
<1>1. table' = r /\ defs' = Append(defs, d) /\ atoms' = atoms /\ line' = line + 1
  BY DEF EqusLine, Reading, Define
<1>2. d.key = k /\ d.how = "equs" /\ d.expr = e /\ d.line = line + 1
  BY <1>1
<1> HIDE DEF d
<1>3. Assigning(table, k, "string", e, r)
  BY AssignedSymbol
<1>4. /\ DOMAIN r = DOMAIN table \cup {k} /\ \A x \in DOMAIN table \ {k} : r[x] = table[x]
      /\ r[k].type = "string" /\ r[k].expr = e
  BY <1>3 DEF Assigning
<1>5. e.plus = NoSym /\ e.minus = NoSym /\ e.add \in Int
  OBVIOUS
<1>6. Closed(r, e)
  BY <1>5 DEF Closed
<1>7. Reads(defs, rd, e, e, line + 1)
  <2>1. Put(defs, rd, NoSym, NoSym, 0, line + 1)
    BY DEF Put
  <2>2. e.add = e.add + 0 - 0
    BY <1>5
  <2> QED  BY <1>5, <2>1, <2>2 DEF Reads
<1>8. Traced(r, Append(defs, d), Append(rd, e), atoms, line + 1)
  BY <1>2, <1>4, <1>6, <1>7, TracedDefinition
<1> QED  BY <1>1, <1>8

\* r is the table t with the label k.
Labelling(t, k, p, f, r) ==
  /\ IsTable(r) /\ DOMAIN r = DOMAIN t /\ \A x \in DOMAIN t \ {k} : r[x] = t[x]
  /\ r[k].type = "label" /\ r[k].pc = p /\ r[k].flags = t[k].flags \cup f

LEMMA LabelledSymbol ==
  ASSUME NEW t, IsTable(t), NEW k \in DOMAIN t, NEW p, NEW f, NEW g
  PROVE  Labelling(t, k, p, f \cup g, [t EXCEPT ![k].type = "label", ![k].pc = p, ![k].flags = @ \cup f \cup g])
<1> DEFINE s == t[k]
           w == [[[s EXCEPT !.type = "label"] EXCEPT !.pc = p] EXCEPT !.flags = @ \cup f \cup g]
           n == [type |-> "label", flags |-> s.flags \cup f \cup g, expr |-> s.expr, pc |-> p, nr |-> s.nr]
           q == [t EXCEPT ![k].type = "label", ![k].pc = p, ![k].flags = @ \cup f \cup g]
<1>1. w = n
  <2>1. SymRec(s)
    BY DEF IsTable
  <2> HIDE DEF s
  <2> DEFINE o == [type |-> "label", flags |-> s.flags, expr |-> s.expr, pc |-> p, nr |-> s.nr]
             v == [[s EXCEPT !.type = "label"] EXCEPT !.pc = p]
  <2>2. v = o
    BY <2>1, RecordPlace
  <2>3. [o EXCEPT !.flags = o.flags \cup f \cup g] = n
    OBVIOUS
  <2>4. [v EXCEPT !.flags = v.flags \cup f \cup g] = [o EXCEPT !.flags = o.flags \cup f \cup g]
    <3> HIDE DEF v, o
    <3> QED  BY <2>2
  <2> QED  BY <2>3, <2>4
<1>2. q = [t EXCEPT ![k] = w]
  BY DEF IsTable
<1>3. SymRec(n) /\ n.type = "label" /\ n.pc = p /\ n.flags = s.flags \cup (f \cup g)
  BY DEF SymRec
<1> HIDE DEF w, n
<1>4. q = [x \in DOMAIN t |-> IF x = k THEN n ELSE t[x]]
  BY <1>1, <1>2 DEF IsTable
<1> PICK r : r = q
  OBVIOUS
<1>5. r = [x \in DOMAIN r |-> r[x]] /\ \A x \in DOMAIN r : SymRec(r[x])
  BY <1>3, <1>4 DEF IsTable
<1>6. Labelling(t, k, p, f \cup g, r)
  <2> HIDE DEF q
  <2> QED  BY <1>3, <1>4, <1>5 DEF IsTable, Labelling
<1> HIDE DEF q
<1>7. Labelling(t, k, p, f \cup g, q)
  BY <1>6
<1> QED  BY <1>7 DEF q

LEMMA LabelTraced ==
  ASSUME IsTable(table), NEW rd, Traced(table, defs, rd, atoms, line),
         NEW l \in menu, LabelLine(l), errors' = {}
  PROVE  \E rs : Traced(table', defs', rs, atoms', line')
<1> PICK k, known : k = Key(l.name) /\ known = new_import(table, k)
  OBVIOUS
<1> PICK abs : abs = IF absolute THEN {"ABSLABEL"} ELSE {}
  OBVIOUS
<1> DEFINE d == [key |-> k, how |-> "label", expr |-> Number(0), line |-> line', pc |-> Pc]
           a == [what |-> "label", key |-> k, expr |-> Number(0), pc |-> Pc, line |-> line']
<1>1. defs' = Append(defs, d) /\ line' = line + 1
  BY DEF LabelLine, Reading, Define
<1>2. 74 \notin LabelErrors(table, k)
  BY DEF LabelLine
<1>3. PICK r : r = [known EXCEPT ![k].type = "label", ![k].pc = Pc, ![k].flags = @ \cup abs \cup l.flags]
  OBVIOUS
<1>4. table' = r /\ atoms' = Append(atoms, a)
  BY <1>2, <1>3 DEF LabelLine
<1>5. d.key = k /\ d.how = "label" /\ d.line = line + 1 /\ d.pc = Pc
  BY <1>1
<1>6. a.what # "data"
  OBVIOUS
<1> HIDE DEF d, a
<1>7. Extended(table, known) /\ IsTable(known) /\ k \in DOMAIN known
  BY NewImport DEF Extended
<1>8. Traced(known, defs, rd, atoms, line)
  BY <1>7, TracedExtended
<1>9. Labelling(known, k, Pc, abs \cup l.flags, r)
  BY <1>3, <1>7, LabelledSymbol
<1>10. DOMAIN r = DOMAIN known \cup {k} /\ \A x \in DOMAIN known \ {k} : r[x] = known[x]
  BY <1>7, <1>9 DEF Labelling
<1>11. r[k].type = "label" /\ r[k].pc = d.pc /\ d.pc \in Int
  <2>1. Pc \in Int
    BY PcIsNat DEF Traced
  <2> QED  BY <1>5, <1>9, <2>1 DEF Labelling
<1> PICK s : s = Number(0)
  OBVIOUS
<1>12. Traced(r, Append(defs, d), Append(rd, s), atoms, line + 1)
  BY <1>5, <1>8, <1>10, <1>11, TracedDefinition
<1>13. Traced(r, Append(defs, d), Append(rd, s), Append(atoms, a), line + 1)
  BY <1>6, <1>12, TracedAtom
<1> QED  BY <1>1, <1>4, <1>13

LEMMA BindTraced ==
  ASSUME IsTable(table), NEW rd, Traced(table, defs, rd, atoms, line), NEW l \in menu, BindLine(l)
  PROVE  \E rs : Traced(table', defs', rs, atoms', line')
<1> PICK k, known : k = Key(l.name) /\ known = new_import(table, k)
  OBVIOUS
<1> PICK r : r = Flagged(known, k, l.flags)
  OBVIOUS
<1>1. table' = r /\ defs' = defs /\ atoms' = atoms /\ line' = line + 1
  BY DEF BindLine, Reading
<1>2. Extended(table, known) /\ IsTable(known) /\ k \in DOMAIN known
  BY NewImport DEF Extended
<1>3. Traced(known, defs, rd, atoms, line)
  BY <1>2, TracedExtended
<1>4. DOMAIN r = DOMAIN known /\ (\A x \in DOMAIN known \ {k} : r[x] = known[x]) /\ r[k].type = known[k].type
  BY <1>2, FlaggedTable
<1>5. r[k].expr = known[k].expr /\ r[k].pc = known[k].pc
  BY <1>2, FlaggedValue
<1>6. Traced(r, defs, rd, atoms, line)
  BY <1>3, <1>4, <1>5, TracedSame
<1>7. Traced(r, defs, rd, atoms, line + 1)
  BY <1>6, TracedNext
<1> QED  BY <1>1, <1>7

LEMMA DataTraced ==
  ASSUME IsTable(table), NEW rd, Traced(table, defs, rd, atoms, line),
         NEW l \in menu, DataLine(l), l.expr \in Sums
  PROVE  \E rs : Traced(table', defs', rs, atoms', line')
<1> PICK e : e = Keyed(l.expr)
  OBVIOUS
<1> PICK known : known = Mentioned(table, e)
  OBVIOUS
<1> PICK s : s = Simplified(known, e)
  OBVIOUS
<1> DEFINE a == [what |-> "data", key |-> NoSym, expr |-> s, pc |-> Pc, line |-> line', written |-> e]
<1>1. table' = known /\ defs' = defs /\ atoms' = Append(atoms, a) /\ line' = line + 1
  BY DEF DataLine, Reading
<1>2. a.what = "data" /\ a.expr = s /\ a.pc = Pc /\ a.line = line + 1 /\ a.written = e
  BY <1>1
<1> HIDE DEF a
<1>3. /\ Traced(known, defs, rd, atoms, line)
      /\ Reads(defs, rd, e, s, line + 1) /\ Closed(known, s)
  BY MentionedReads
<1>4. DatumTraced(known, defs, rd, a, line + 1)
  <2>1. Pc \in Int
    BY PcIsNat DEF Traced
  <2>2. line + 1 \in 1 .. line + 1
    BY DEF Traced, ReadDefs
  <2> QED  BY <1>2, <1>3, <2>1, <2>2 DEF DatumTraced
<1>5. Traced(known, defs, rd, atoms, line + 1)
  BY <1>3, TracedNext
<1>6. Traced(known, defs, rd, Append(atoms, a), line + 1)
  BY <1>4, <1>5, TracedAtom
<1> QED  BY <1>1, <1>6

\* Until the object is made, the table and the atoms are what the lines made of them.
Read == \E rd : Traced(table, defs, rd, atoms, line)

ReadInv == (phase \in {"parse", "resolve", "assemble", "undef"} /\ errors = {}) => Read

LEMMA ReadLineKept ==
  ASSUME IInv, menu \in Menus, ReadInv, ReadLine
  PROVE  ReadInv'
<1>1. phase = "parse" /\ (errors' = {} => errors = {})
  BY DEF ReadLine, EquLine, SetLine, EqusLine, LabelLine, BindLine, DataLine, ModuleLine, ModendLine, Reading,
         ScopeKept
<1>2. SUFFICES ASSUME errors' = {} PROVE \E rs : Traced(table', defs', rs, atoms', line')
  BY DEF ReadInv, Read
<1> PICK rd : Traced(table, defs, rd, atoms, line)
  BY <1>1, <1>2 DEF ReadInv, Read
<1>3. IsTable(table)
  BY DEF IInv, Shape
<1> PICK l \in menu : \/ EquLine(l) \/ SetLine(l) \/ EqusLine(l) \/ LabelLine(l) \/ BindLine(l)
                      \/ DataLine(l) \/ ModuleLine(l) \/ ModendLine(l)
  BY DEF ReadLine
<1>4. CASE EquLine(l)
  <2>1. l.expr \in Sums
    BY <1>4, SymbolsAssumption DEF EquLine, Reading
  <2> QED  BY <1>3, <1>4, <2>1, EquTraced
<1>5. CASE SetLine(l)
  <2>1. l.expr \in Sums
    BY <1>5, SymbolsAssumption DEF SetLine, Reading
  <2> QED  BY <1>3, <1>5, <2>1, SetTraced
<1>6. CASE EqusLine(l)
  <2>1. l.expr \in [plus : {NoSym}, minus : {NoSym}, add : Nat]
    BY <1>6, SymbolsAssumption DEF EqusLine, Reading
  <2> QED  BY <1>3, <1>6, <2>1, EqusTraced
<1>7. CASE LabelLine(l)
  BY <1>2, <1>3, <1>7, LabelTraced
<1>8. CASE BindLine(l)
  BY <1>3, <1>8, BindTraced
<1>9. CASE DataLine(l)
  <2>1. l.expr \in Sums
    BY <1>9, SymbolsAssumption DEF DataLine, Reading
  <2> QED  BY <1>3, <1>9, <2>1, DataTraced
<1>10. CASE ModuleLine(l) \/ ModendLine(l)
  <2>1. table' = table /\ defs' = defs /\ atoms' = atoms /\ line' = line + 1
    BY <1>10 DEF ModuleLine, ModendLine, Reading
  <2>2. Traced(table, defs, rd, atoms, line + 1)
    BY TracedNext
  <2> QED  BY <2>1, <2>2
<1> QED  BY <1>4, <1>5, <1>6, <1>7, <1>8, <1>9, <1>10

LEMMA StepReadInv ==
  ASSUME IInv, menu \in Menus, ReadInv, [Next]_vars
  PROVE  ReadInv'
<1>1. CASE ReadLine
  BY <1>1, ReadLineKept
<1>2. ASSUME \/ phase' \notin {"parse", "resolve", "assemble", "undef"}
             \/ /\ phase \in {"parse", "resolve", "assemble", "undef"} /\ (errors' = {} => errors = {})
                /\ table' = table /\ defs' = defs /\ atoms' = atoms /\ line' = line
      PROVE  ReadInv'
  BY <1>2 DEF ReadInv, Read
<1>3. CASE EndOfSource
  BY <1>2, <1>3 DEF EndOfSource, Untouched
<1>4. CASE Resolve
  BY <1>2, <1>4 DEF Resolve, Untouched
<1>5. CASE Assemble
  BY <1>2, <1>5 DEF Assemble, Untouched
<1>6. CASE UndefSyms
  BY <1>2, <1>6 DEF UndefSyms
<1>7. CASE FixLabel
  <2>1. phase' \in {"fix", "fatal"}
    BY <1>7 DEF FixLabel
  <2> QED  BY <1>2, <2>1
<1>8. CASE EndOfFix
  BY <1>2, <1>8 DEF EndOfFix
<1>9. CASE UNCHANGED vars
  BY <1>9 DEF ReadInv, Read, vars
<1> QED  BY <1>1, <1>3, <1>4, <1>5, <1>6, <1>7, <1>8, <1>9 DEF Next

LEMMA InitReadInv == Init => ReadInv
<1> SUFFICES ASSUME Init PROVE Traced(table, defs, <<>>, atoms, line)
  BY DEF ReadInv, Read
<1>1. DOMAIN table = {} /\ defs = <<>> /\ atoms = <<>> /\ line = 0
  BY DEF Init
<1>2. ReadDefs(<<>>, <<>>, 0)
  BY DEF ReadDefs, IsSeq, InOrder
<1>3. IsSeq(<<>>)
  BY DEF IsSeq
<1> QED  BY <1>1, <1>2, <1>3 DEF Traced

----------------------------------------------------------------------------
(* What else is true of the symbols: they are finitely many, those with       *)
(* ABSLABEL are of an absolute section, as all labels of one are, and the      *)
(* value of a string is a number.                                           *)

Flags(t) ==
  /\ IsFiniteSet(DOMAIN t)
  /\ \A k \in DOMAIN t : /\ "ABSLABEL" \in t[k].flags => absolute
                         /\ (absolute /\ t[k].type = "label") => "ABSLABEL" \in t[k].flags
                         /\ t[k].type = "string" => IsNumber(t[k].expr)

LEMMA FlagsNewImport ==
  ASSUME NEW t, IsTable(t), Flags(t), NEW k
  PROVE  Flags(new_import(t, k))
<1> PICK r : r = new_import(t, k)
  OBVIOUS
<1>1. Extended(t, r) /\ DOMAIN r \subseteq DOMAIN t \cup {k}
  BY NewImport DEF new_import, Defined, Enter
<1>2. IsFiniteSet(DOMAIN t \cup {k})
  BY FS_AddElement DEF Flags
<1>3. IsFiniteSet(DOMAIN r)
  BY <1>1, <1>2, FS_Subset
<1>4. Flags(r)
  BY <1>1, <1>3 DEF Flags, Extended
<1> QED  BY <1>4

LEMMA FlagsMentioned ==
  ASSUME NEW t, IsTable(t), Flags(t), NEW e
  PROVE  Flags(Mentioned(t, e))
<1> DEFINE first == IF e.plus = NoSym THEN t ELSE new_import(t, e.plus)
<1>1. IsTable(first) /\ Flags(first)
  BY NewImport, FlagsNewImport DEF Extended
<1> HIDE DEF first
<1>2. Mentioned(t, e) = IF e.minus = NoSym THEN first ELSE new_import(first, e.minus)
  BY DEF Mentioned, first
<1> QED  BY <1>1, <1>2, FlagsNewImport

LEMMA FlagsAssigned ==
  ASSUME NEW t, Flags(t), NEW k, NEW ty, ty # "label", NEW e, ty = "string" => IsNumber(e),
         NEW r, Assigning(t, k, ty, e, r)
  PROVE  Flags(r)
<1>1. DOMAIN r = DOMAIN t \cup {k}
  BY DEF Assigning
<1>2. IsFiniteSet(DOMAIN r)
  BY <1>1, FS_AddElement DEF Flags
<1> QED  BY <1>2 DEF Flags, Assigning

LEMMA FlagsFlagged ==
  ASSUME NEW t, IsTable(t), Flags(t), NEW k \in DOMAIN t, NEW f, "ABSLABEL" \notin f
  PROVE  Flags(Flagged(t, k, f))
<1> PICK r : r = Flagged(t, k, f)
  OBVIOUS
<1>1. /\ DOMAIN r = DOMAIN t /\ \A x \in DOMAIN t \ {k} : r[x] = t[x]
      /\ r[k].type = t[k].type /\ r[k].flags = t[k].flags \cup f
  BY FlaggedTable
<1>2. r[k].expr = t[k].expr
  BY FlaggedValue
<1>3. Flags(r)
  BY <1>1, <1>2 DEF Flags
<1> QED  BY <1>3

LEMMA FlagsLabelled ==
  ASSUME NEW t, Flags(t), NEW k \in DOMAIN t, NEW p, NEW f, "ABSLABEL" \notin f, NEW r,
         Labelling(t, k, p, (IF absolute THEN {"ABSLABEL"} ELSE {}) \cup f, r)
  PROVE  Flags(r)
BY DEF Flags, Labelling

\* Until the object is made.
FlagsInv ==
  IsFiniteSet(DOMAIN table) /\ (phase \in {"parse", "resolve", "assemble", "undef"} => Flags(table))

LEMMA ReadLineFlags ==
  ASSUME IInv, menu \in Menus, FlagsInv, ReadLine
  PROVE  FlagsInv'
<1>1. phase = "parse" /\ absolute' = absolute
  BY DEF ReadLine, EquLine, SetLine, EqusLine, LabelLine, BindLine, DataLine, ModuleLine, ModendLine, Reading
<1>2. Flags(table) /\ IsTable(table)
  BY <1>1 DEF FlagsInv, IInv, Shape
<1>3. SUFFICES \E t : table' = t /\ Flags(t)
  <2> SUFFICES ASSUME NEW t, table' = t, Flags(t) PROVE FlagsInv'
    OBVIOUS
  <2> QED  BY <1>1 DEF FlagsInv, Flags
<1> PICK l \in menu : \/ EquLine(l) \/ SetLine(l) \/ EqusLine(l) \/ LabelLine(l) \/ BindLine(l)
                      \/ DataLine(l) \/ ModuleLine(l) \/ ModendLine(l)
  BY DEF ReadLine
<1> PICK k, known : k = Key(l.name) /\ known = Mentioned(table, Keyed(l.expr))
  OBVIOUS
<1>4. IsTable(known) /\ Flags(known)
  BY <1>2, MentionedExtends, FlagsMentioned DEF Extended
<1>5. CASE EquLine(l)
  <2> PICK s : s = Simplified(known, Keyed(l.expr))
    OBVIOUS
  <2> PICK mid : mid = Assigned(known, k, "expression", s)
    OBVIOUS
  <2>1. table' = Flagged(mid, k, {"EQUATE"} \cup l.flags)
    BY <1>5 DEF EquLine
  <2>2. Assigning(known, k, "expression", s, mid)
    BY <1>4, AssignedSymbol
  <2>3. Flags(mid)
    BY <1>4, <2>2, FlagsAssigned
  <2>4. IsTable(mid) /\ k \in DOMAIN mid
    BY <2>2 DEF Assigning
  <2>5. "ABSLABEL" \notin {"EQUATE"} \cup l.flags
    BY <1>5, SymbolsAssumption DEF EquLine, Reading
  <2> QED  BY <2>1, <2>3, <2>4, <2>5, FlagsFlagged
<1>6. CASE SetLine(l)
  <2> PICK s : s = Simplified(known, Keyed(l.expr))
    OBVIOUS
  <2>1. table' = Assigned(known, k, "expression", s)
    BY <1>6 DEF SetLine
  <2>2. Assigning(known, k, "expression", s, Assigned(known, k, "expression", s))
    BY <1>4, AssignedSymbol
  <2> QED  BY <1>4, <2>1, <2>2, FlagsAssigned
<1>7. CASE EqusLine(l)
  <2>1. table' = Assigned(table, k, "string", l.expr)
    BY <1>7 DEF EqusLine
  <2>2. Assigning(table, k, "string", l.expr, Assigned(table, k, "string", l.expr))
    BY <1>2, AssignedSymbol
  <2>3. IsNumber(l.expr)
    BY <1>7, SymbolsAssumption DEF EqusLine, Reading, IsNumber
  <2> QED  BY <1>2, <2>1, <2>2, <2>3, FlagsAssigned
<1>8. CASE LabelLine(l)
  <2>1. CASE 74 \in LabelErrors(table, k)
    BY <1>2, <1>8, <2>1 DEF LabelLine
  <2>2. CASE 74 \notin LabelErrors(table, k)
    <3> PICK t : t = new_import(table, k)
      OBVIOUS
    <3> PICK abs : abs = IF absolute THEN {"ABSLABEL"} ELSE {}
      OBVIOUS
    <3>1. IsTable(t) /\ k \in DOMAIN t /\ Flags(t)
      BY <1>2, NewImport, FlagsNewImport DEF Extended
    <3>2. PICK r : r = [t EXCEPT ![k].type = "label", ![k].pc = Pc, ![k].flags = @ \cup abs \cup l.flags]
      OBVIOUS
    <3>3. table' = r
      BY <1>8, <2>2, <3>2 DEF LabelLine
    <3>4. Labelling(t, k, Pc, abs \cup l.flags, r)
      BY <3>1, <3>2, LabelledSymbol
    <3>5. "ABSLABEL" \notin l.flags
      BY <1>8, SymbolsAssumption DEF LabelLine, Reading
    <3>6. Flags(r)
      BY <3>1, <3>4, <3>5, FlagsLabelled
    <3> QED  BY <3>3, <3>6
  <2> QED  BY <2>1, <2>2
<1>9. CASE BindLine(l)
  <2> PICK t : t = new_import(table, k)
    OBVIOUS
  <2>1. IsTable(t) /\ k \in DOMAIN t /\ Flags(t)
    BY <1>2, NewImport, FlagsNewImport DEF Extended
  <2>2. table' = Flagged(t, k, l.flags)
    BY <1>9 DEF BindLine
  <2>3. "ABSLABEL" \notin l.flags
    BY <1>9, SymbolsAssumption DEF BindLine, Reading
  <2> QED  BY <2>1, <2>2, <2>3, FlagsFlagged
<1>10. CASE DataLine(l)
  BY <1>4, <1>10 DEF DataLine
<1>11. CASE ModuleLine(l) \/ ModendLine(l)
  BY <1>2, <1>11 DEF ModuleLine, ModendLine
<1> QED  BY <1>5, <1>6, <1>7, <1>8, <1>9, <1>10, <1>11

\* The names of the symbols are the same from the end of the source on.
LEMMA FixedNames ==
  ASSUME FixLabel, IsTable(table)
  PROVE  /\ DOMAIN table' = DOMAIN table /\ defs' = defs /\ atoms' = atoms /\ absolute' = absolute
         /\ object' = object /\ phase' \in {"fix", "fatal"} /\ (errors' = {} => errors = {}) /\ line' = line
<1> PICK k \in fixing :
      IF table[k].type = "expression" /\ eval_expr(table, table[k].expr, FALSE, 0).kind = "cycle"
      THEN phase' = "fatal" /\ UNCHANGED <<table, errors>>
      ELSE /\ table' = [table EXCEPT ![k] = Fixed(table, k)]
           /\ errors' = errors \cup FixErrors(table, k)
           /\ UNCHANGED phase
  BY DEF FixLabel
<1>1. DOMAIN table' = DOMAIN table
  <2> PICK n : n = Fixed(table, k)
    OBVIOUS
  <2>1. table' = table \/ table' = [table EXCEPT ![k] = n]
    OBVIOUS
  <2> QED  BY <2>1 DEF IsTable
<1>2. phase' \in {"fix", "fatal"} /\ (errors' = {} => errors = {})
  BY DEF FixLabel
<1>3. defs' = defs /\ atoms' = atoms /\ absolute' = absolute /\ object' = object /\ line' = line
  BY DEF FixLabel, Untouched
<1> QED  BY <1>1, <1>2, <1>3

LEMMA StepFlags ==
  ASSUME IInv, menu \in Menus, FlagsInv, [Next]_vars
  PROVE  FlagsInv'
<1>1. CASE ReadLine
  BY <1>1, ReadLineFlags
<1>2. ASSUME DOMAIN table' = DOMAIN table, absolute' = absolute,
             \/ phase' \notin {"parse", "resolve", "assemble", "undef"}
             \/ phase \in {"parse", "resolve", "assemble", "undef"} /\ table' = table
      PROVE  FlagsInv'
  BY <1>2 DEF FlagsInv, Flags
<1>3. CASE EndOfSource \/ Resolve \/ Assemble \/ UndefSyms \/ EndOfFix \/ UNCHANGED vars
  <2>1. table' = table /\ absolute' = absolute
    BY <1>3 DEF EndOfSource, Resolve, Assemble, UndefSyms, EndOfFix, Untouched, vars
  <2>2. phase' \notin {"parse", "resolve", "assemble", "undef"} \/ phase \in {"parse", "resolve", "assemble", "undef"}
    BY <1>3 DEF EndOfSource, Resolve, Assemble, UndefSyms, EndOfFix, Untouched, vars
  <2> QED  BY <1>2, <2>1, <2>2
<1>4. CASE FixLabel
  <2>1. IsTable(table)
    BY DEF IInv, Shape
  <2>2. DOMAIN table' = DOMAIN table /\ absolute' = absolute /\ phase' \in {"fix", "fatal"}
    BY <1>4, <2>1, FixedNames
  <2> QED  BY <1>2, <2>2
<1> QED  BY <1>1, <1>3, <1>4 DEF Next

LEMMA InitFlags == Init => FlagsInv
<1> SUFFICES ASSUME Init PROVE FlagsInv
  OBVIOUS
<1>1. DOMAIN table = {}
  BY DEF Init
<1> QED  BY <1>1, FS_EmptySet DEF FlagsInv, Flags

----------------------------------------------------------------------------
(* UseMeansDefinition.                                                     *)

\* At the end of the source each symbol is what its last definition made of it.
LEMMA ReadIsDefined ==
  ASSUME NEW rd, Traced(table, defs, rd, atoms, line), Flags(table), NEW g, MeaningChain(g)
  PROVE  \A k \in DOMAIN table : IsDefined(table, rd, g, TRUE, k)
<1> TAKE k \in DOMAIN table
<1>1. DefsOf(k) = Of(defs, k) /\ SymbolTraced(table, defs, rd, k)
  BY DEF DefsOf, Of, Traced
<1>2. Len(defs) \in Nat /\ IsSeq(defs)
  BY SeqDomain DEF Traced, ReadDefs
<1> PICK i : i = Latest(DefsOf(k))
  OBVIOUS
<1>3. DefsOf(k) # {} => i \in DOMAIN defs
  BY <1>1, <1>2, LatestOfKey
<1>4. CASE DefsOf(k) = {}
  <2>1. table[k].type = "import"
    BY <1>1, <1>4 DEF SymbolTraced
  <2>2. \A d : KeyMeans(k, g[d]) = <<"external", 0, k>>
    BY <1>4 DEF KeyMeans
  <2> QED  BY <2>1, <2>2 DEF IsDefined
<1>5. CASE DefsOf(k) # {} /\ defs[i].how = "label"
  <2> PICK m : m = <<IF absolute THEN "number" ELSE "section", defs[i].pc>>
    OBVIOUS
  <2>1. table[k].type = "label" /\ table[k].pc = defs[i].pc
    BY <1>1, <1>5 DEF SymbolTraced
  <2>2. defs[i].pc \in Int
    BY <1>3, <1>5 DEF Traced, ReadDefs
  <2>3. IsAbs(table, k) <=> absolute
    BY <2>1 DEF IsAbs, Flags
  <2>4. ASSUME NEW d \in 0 .. Len(defs) PROVE KeyMeans(k, g[d]) \in {Any, m}
    <3>1. KeyMeans(k, g[d]) = g[d][i]
      BY <1>5 DEF KeyMeans
    <3>2. CASE d = 0
      BY <1>3, <1>5, <3>1, <3>2 DEF MeaningChain
    <3>3. CASE d \in 1 .. Len(defs)
      BY <1>3, <1>5, <3>1, <3>3 DEF MeaningChain, DefMeans
    <3> QED  BY <1>2, <3>2, <3>3
  <2> QED  BY <2>1, <2>2, <2>3, <2>4 DEF IsDefined, MeansOnly
<1>6. CASE DefsOf(k) # {} /\ defs[i].how # "label"
  <2>1. /\ table[k].type \in {"expression", "string"} /\ table[k].expr = rd[i]
        /\ Closed(table, table[k].expr)
    BY <1>1, <1>6 DEF SymbolTraced
  <2>2. Reads(defs, rd, defs[i].expr, rd[i], defs[i].line)
    BY <1>3, <1>6 DEF Traced, ReadDefs
  <2>3. rd[i].add \in Int
    BY <2>2 DEF Reads
  <2>4. HasValue(table, rd, g, k)
    BY <1>6, <2>1, <2>2 DEF HasValue
  <2> QED  BY <2>1, <2>3, <2>4 DEF IsDefined
<1> QED  BY <1>4, <1>5, <1>6

\* What the datum i means where it is written, and that the object has it.
DatumMeans(i) == ExprMeans(atoms[i].written, atoms[i].line, Meanings)

Meant == \A i \in Data : DatumMeans(i) # Any => object[i] = DatumMeans(i)

LEMMA DatumMeansKept ==
  ASSUME defs' = defs, absolute' = absolute, atoms' = atoms, NEW i
  PROVE  DatumMeans(i)' = DatumMeans(i)
<1>1. Meanings' = Meanings
  BY DEF Meanings, DefMeans, ExprMeans, NameMeans, Before, DefsOf, Latest, Any, Combined, NumberIs
<1>2. ASSUME NEW e, NEW at, NEW mn PROVE ExprMeans(e, at, mn)' = ExprMeans(e, at, mn)
  BY DEF ExprMeans, NameMeans, Before, DefsOf, Latest, Any, Combined, NumberIs
<1> PICK e, at, mn : e = atoms[i].written /\ at = atoms[i].line /\ mn = Meanings
  OBVIOUS
<1>3. DatumMeans(i) = ExprMeans(e, at, mn)
  BY DEF DatumMeans
<1>4. DatumMeans(i)' = ExprMeans(e, at, mn)'
  BY <1>1 DEF DatumMeans
<1> QED  BY <1>2, <1>3, <1>4

LEMMA NoMovesKept ==
  ASSUME defs' = defs, DOMAIN table' = DOMAIN table
  PROVE  NoMoves' => NoMoves
<1>1. Known' = Known
  BY DEF Known, DefsOf, Latest
<1>2. \A k : Moves(k)' <=> Moves(k)
  BY <1>1 DEF Moves, DefsOf
<1> QED  BY <1>2 DEF NoMoves

\* What became of the data, when nothing was reported.
MeantInv == (phase \in {"undef", "fix", "done"} /\ errors = {} /\ NoMoves) => Meant

LEMMA AssembleMeant ==
  ASSUME IInv, ReadInv, FlagsInv, Assemble
  PROVE  MeantInv'
<1> PICK values : values = [i \in Data |-> eval_expr(table, atoms[i].expr, TRUE, atoms[i].pc)]
  OBVIOUS
<1>1. /\ phase = "assemble" /\ object' = [i \in Data |-> Place(table, values[i])]
      /\ phase' = IF \E i \in Data : values[i].kind = "cycle" THEN "fatal" ELSE "undef"
      /\ errors' = {} => errors = {}
      /\ table' = table /\ defs' = defs /\ atoms' = atoms /\ absolute' = absolute
  BY DEF Assemble, Untouched
<1>2. SUFFICES ASSUME phase' = "undef", errors' = {}, NoMoves' PROVE Meant'
  BY <1>1 DEF MeantInv
<1>3. NoMoves
  BY <1>1, <1>2, NoMovesKept
<1> PICK rd : Traced(table, defs, rd, atoms, line)
  BY <1>1, <1>2 DEF ReadInv, Read
<1>4. Flags(table) /\ Cardinality(DOMAIN table) \in Nat
  BY <1>1, FS_CardinalityType DEF FlagsInv
<1>5. ReadDefs(defs, rd, line) /\ Len(defs) \in Nat
  BY SeqDomain DEF Traced, ReadDefs
<1> PICK g : MeaningChain(g)
  BY <1>5, MeaningChainExists
<1>6. \A k \in DOMAIN table : IsDefined(table, rd, g, TRUE, k)
  BY <1>4, ReadIsDefined
<1>7. Data' = Data
  BY <1>1 DEF Data
<1>8. ASSUME NEW i \in Data, DatumMeans(i) # Any PROVE object'[i] = DatumMeans(i)
  <2> PICK e, s, at, pc : e = atoms[i].written /\ s = atoms[i].expr /\ at = atoms[i].line /\ pc = atoms[i].pc
    OBVIOUS
  <2> PICK r : r = eval_expr(table, s, TRUE, pc)
    OBVIOUS
  <2>1. DatumTraced(table, defs, rd, atoms[i], line)
    BY DEF Traced, Data
  <2>2. pc \in Int /\ Closed(table, s) /\ Reads(defs, rd, e, s, at)
    BY <2>1 DEF DatumTraced
  <2>3. values[i] = r /\ object'[i] = Place(table, r)
    BY <1>1
  <2>4. r.kind # "cycle"
    BY <1>1, <1>2, <2>3
  <2>5. DatumMeans(i) = ExprMeans(e, at, Meanings)
    BY DEF DatumMeans
  <2>6. Agrees(table, TRUE, r, DatumMeans(i))
    BY <1>3, <1>4, <1>5, <1>6, <1>8, <2>2, <2>4, <2>5, ExprAgrees
  <2> QED  BY <2>3, <2>6, AgreesIsPlace
<1>9. \A i : DatumMeans(i)' = DatumMeans(i)
  BY <1>1, DatumMeansKept
<1>10. Any' = Any
  BY DEF Any
<1> QED  BY <1>7, <1>8, <1>9, <1>10 DEF Meant

LEMMA KeptMeant ==
  ASSUME MeantInv, phase' \in {"undef", "fix", "done"} => (phase \in {"undef", "fix", "done"} \/ errors' # {}),
         errors' = {} => errors = {}, DOMAIN table' = DOMAIN table, defs' = defs, atoms' = atoms,
         absolute' = absolute, object' = object
  PROVE  MeantInv'
<1>1. SUFFICES ASSUME phase \in {"undef", "fix", "done"}, errors = {}, NoMoves' PROVE Meant'
  BY DEF MeantInv
<1>2. Meant
  BY <1>1, NoMovesKept DEF MeantInv
<1>3. \A i : DatumMeans(i)' = DatumMeans(i)
  BY DatumMeansKept
<1>4. Data' = Data
  BY DEF Data
<1> QED  BY <1>2, <1>3, <1>4 DEF Meant, Any

LEMMA StepMeant ==
  ASSUME IInv, ReadInv, FlagsInv, MeantInv, [Next]_vars
  PROVE  MeantInv'
<1>1. CASE ReadLine
  <2>1. phase' = "parse"
    BY <1>1 DEF ReadLine, EquLine, SetLine, EqusLine, LabelLine, BindLine, DataLine, ModuleLine, ModendLine, Reading
  <2> QED  BY <2>1 DEF MeantInv
<1>2. CASE EndOfSource \/ Resolve \/ UndefSyms \/ EndOfFix \/ UNCHANGED vars
  <2>1. /\ table' = table /\ defs' = defs /\ atoms' = atoms /\ absolute' = absolute /\ object' = object
        /\ errors' = {} => errors = {}
    BY <1>2 DEF EndOfSource, Resolve, UndefSyms, EndOfFix, Untouched, vars
  <2>2. phase' \in {"undef", "fix", "done"} => (phase \in {"undef", "fix", "done"} \/ errors' # {})
    BY <1>2 DEF EndOfSource, Resolve, UndefSyms, EndOfFix, Untouched, vars
  <2> QED  BY <2>1, <2>2, KeptMeant
<1>3. CASE Assemble
  BY <1>3, AssembleMeant
<1>4. CASE FixLabel
  <2>1. IsTable(table) /\ phase = "fix"
    BY <1>4 DEF IInv, Shape, FixLabel
  <2>2. /\ DOMAIN table' = DOMAIN table /\ defs' = defs /\ atoms' = atoms /\ absolute' = absolute
        /\ object' = object /\ (errors' = {} => errors = {})
    BY <1>4, <2>1, FixedNames
  <2> QED  BY <2>1, <2>2, KeptMeant
<1> QED  BY <1>1, <1>2, <1>3, <1>4 DEF Next

MeansInv == IInv /\ menu \in Menus /\ ReadInv /\ FlagsInv /\ MeantInv

LEMMA InitMeansInv == Init => MeansInv
<1> SUFFICES ASSUME Init PROVE MeansInv
  OBVIOUS
<1>1. IInv /\ ReadInv /\ FlagsInv
  BY InitIInv, InitReadInv, InitFlags
<1>2. MeantInv /\ menu \in Menus
  BY DEF Init, MeantInv
<1> QED  BY <1>1, <1>2 DEF MeansInv

LEMMA StepMeansInv == MeansInv /\ [Next]_vars => MeansInv'
BY StepIInv, MenuKept, StepReadInv, StepFlags, StepMeant DEF MeansInv

\* For every source, with sections that have an address or not: in a program
\* without errors each datum has the value that its expression means at its line,
\* whatever is defined behind it and through any chain of equates (simplify_expr(),
\* eval_expr() and find_base() against the definitions in force); symbols that
\* get a new value before the old one is a number are left out.
THEOREM UseMeansDefinitionHolds == Spec => []UseMeansDefinition
<1>1. MeansInv => UseMeansDefinition
  BY DEF MeansInv, MeantInv, Meant, DatumMeans, NoMoves, UseMeansDefinition, Ended
<1> QED  BY <1>1, InitMeansInv, StepMeansInv, PTL DEF Spec

----------------------------------------------------------------------------
(* Evaluating through as many symbols as there are finds every value.        *)

\* The names in the expressions are symbols.
Wellformed(t) ==
  /\ IsFiniteSet(DOMAIN t)
  /\ \A k \in DOMAIN t : t[k].type \in {"label", "import"} \/ Closed(t, t[k].expr)

\* What is evaluated without its operands being met again only depends on them.
LEMMA EvalSame ==
  ASSUME NEW t, NEW e, NEW a, NEW b, NEW insec, NEW pc,
         \A k \in {e.plus, e.minus} \ {NoSym} : b[k] = a[k]
  PROVE  EvalWith(t, b, e, insec, pc) = EvalWith(t, a, e, insec, pc)
<1> PICK n : n = IF e.plus = NoSym THEN 0 ELSE e.add
  OBVIOUS
<1>1. Cyclic(b, e) <=> Cyclic(a, e)
  BY DEF Cyclic
<1>2. Operand(b, e.plus, e.add) = Operand(a, e.plus, e.add)
  BY DEF Operand
<1> PICK l : l = Operand(a, e.plus, e.add)
  OBVIOUS
<1>3. EvalWith(t, a, e, insec, pc)
        = IF Cyclic(a, e) THEN InEval
          ELSE IF e.minus = NoSym THEN Added(l, n)
          ELSE Added(Subtracted(t, l, a[e.minus], insec, pc), n)
  BY EvalWithIs
<1>4. EvalWith(t, b, e, insec, pc)
        = IF Cyclic(b, e) THEN InEval
          ELSE IF e.minus = NoSym THEN Added(l, n)
          ELSE Added(Subtracted(t, l, b[e.minus], insec, pc), n)
  BY <1>2, EvalWithIs
<1> QED  BY <1>1, <1>3, <1>4

LEMMA EvalCycle ==
  ASSUME NEW t, NEW e, NEW a, NEW insec, NEW pc
  PROVE  /\ EvalWith(t, a, e, insec, pc).kind = "cycle" <=> Cyclic(a, e)
         /\ Cyclic(a, e) => EvalWith(t, a, e, insec, pc) = InEval
<1> PICK l, n : l = Operand(a, e.plus, e.add) /\ n = IF e.plus = NoSym THEN 0 ELSE e.add
  OBVIOUS
<1> PICK r : r = EvalWith(t, a, e, insec, pc)
  OBVIOUS
<1>1. r = IF Cyclic(a, e) THEN InEval
          ELSE IF e.minus = NoSym THEN Added(l, n)
          ELSE Added(Subtracted(t, l, a[e.minus], insec, pc), n)
  BY EvalWithIs
<1>2. InEval.kind = "cycle"
  BY DEF InEval
<1>3. ~Cyclic(a, e) => l.kind # "cycle"
  BY DEF Operand, Cyclic
<1>4. Subtracted(t, l, a[e.minus], insec, pc).kind # "cycle"
  <2>1. SubKind(t, l, a[e.minus], insec) # "cycle"
    BY DEF SubKind
  <2> QED  BY <2>1, SubtractedIs
<1>5. \A x : x.kind # "cycle" => Added(x, n).kind # "cycle"
  BY AddedIs
<1> QED  BY <1>1, <1>2, <1>3, <1>4, <1>5

LEMMA ValueSame ==
  ASSUME NEW t, Wellformed(t), NEW a, NEW b, NEW insec, NEW pc, NEW k \in DOMAIN t,
         SymbolValue(t, a, k, insec, pc).kind # "cycle",
         \A x \in DOMAIN t : a[x].kind # "cycle" => b[x] = a[x]
  PROVE  SymbolValue(t, b, k, insec, pc) = SymbolValue(t, a, k, insec, pc)
<1>1. CASE t[k].type \in {"label", "import"}
  BY <1>1 DEF SymbolValue
<1>2. CASE t[k].type \notin {"label", "import"}
  <2> PICK e : e = t[k].expr
    OBVIOUS
  <2>1. Closed(t, e)
    BY <1>2 DEF Wellformed
  <2>2. \A sv : SymbolValue(t, sv, k, insec, pc) = EvalWith(t, sv, e, insec, pc)
    BY <1>2 DEF SymbolValue
  <2>3. ~Cyclic(a, e)
    BY <2>2, EvalCycle
  <2>4. \A x \in {e.plus, e.minus} \ {NoSym} : b[x] = a[x]
    BY <2>1, <2>3 DEF Closed, Cyclic
  <2> QED  BY <2>2, <2>4, EvalSame
<1> QED  BY <1>1, <1>2

\* What is found once stays.
LEMMA ValueStays ==
  ASSUME NEW t, Wellformed(t), NEW insec, NEW pc, NEW f, ValueChain(t, insec, pc, f),
         NEW N, N = Cardinality(DOMAIN t), N \in Nat
  PROVE  \A d \in 0 .. N : \A k \in DOMAIN t :
           f[d][k].kind # "cycle" => SymbolValue(t, f[d], k, insec, pc) = f[d][k]
<1> DEFINE S == {d \in Nat : d <= N => \A k \in DOMAIN t :
                   f[d][k].kind # "cycle" => SymbolValue(t, f[d], k, insec, pc) = f[d][k]}
<1>1. 0 \in S
  <2>1. \A k \in DOMAIN t : f[0][k].kind = "cycle"
    BY DEF ValueChain, InEval
  <2> QED  BY <2>1
<1>2. ASSUME NEW d \in Nat, d \in S PROVE d + 1 \in S
  <2>1. SUFFICES ASSUME d + 1 <= N, NEW k \in DOMAIN t, f[d + 1][k].kind # "cycle"
                 PROVE  SymbolValue(t, f[d + 1], k, insec, pc) = f[d + 1][k]
    OBVIOUS
  <2> PICK a, b : a = f[d] /\ b = f[d + 1]
    OBVIOUS
  <2>2. \A x \in DOMAIN t : b[x] = SymbolValue(t, a, x, insec, pc)
    <3>1. d + 1 \in 1 .. N /\ (d + 1) - 1 = d
      BY <2>1
    <3> QED  BY <3>1 DEF ValueChain
  <2>3. \A x \in DOMAIN t : a[x].kind # "cycle" => b[x] = a[x]
    BY <1>2, <2>1, <2>2
  <2> HIDE DEF S
  <2>4. SymbolValue(t, b, k, insec, pc) = SymbolValue(t, a, k, insec, pc)
    BY <2>1, <2>2, <2>3, ValueSame
  <2> QED  BY <2>2, <2>4
<1> HIDE DEF S
<1>3. \A d \in Nat : d \in S
  BY <1>1, <1>2, SetInduction
<1> QED  BY <1>3 DEF S

LEMMA ValueCycle ==
  ASSUME NEW t, NEW a, NEW insec, NEW pc, NEW k, SymbolValue(t, a, k, insec, pc).kind = "cycle"
  PROVE  SymbolValue(t, a, k, insec, pc) = InEval
<1>1. CASE t[k].type = "label"
  BY <1>1 DEF SymbolValue
<1>2. CASE t[k].type = "import"
  BY <1>2 DEF SymbolValue
<1>3. CASE t[k].type \notin {"label", "import"}
  <2>1. SymbolValue(t, a, k, insec, pc) = EvalWith(t, a, t[k].expr, insec, pc)
    BY <1>3 DEF SymbolValue
  <2> QED  BY <2>1, EvalCycle
<1> QED  BY <1>1, <1>2, <1>3

\* The values satisfy the equation they are computed from.
LEMMA ValuesSteady ==
  ASSUME NEW t, Wellformed(t), NEW insec, NEW pc, NEW f, ValueChain(t, insec, pc, f),
         NEW N, N = Cardinality(DOMAIN t)
  PROVE  \A k \in DOMAIN t : SymbolValue(t, f[N], k, insec, pc) = f[N][k]
<1>1. N \in Nat
  BY FS_CardinalityType DEF Wellformed
<1> DEFINE D(d) == {k \in DOMAIN t : f[d][k].kind # "cycle"}
           Steady(d) == \A k \in DOMAIN t : SymbolValue(t, f[d], k, insec, pc) = f[d][k]
           S == {d \in Nat : d <= N => Steady(d) \/ d <= Cardinality(D(d))}
<1>2. \A d : IsFiniteSet(D(d)) /\ Cardinality(D(d)) \in Nat /\ Cardinality(D(d)) <= N
  <2> TAKE d
  <2>1. D(d) \subseteq DOMAIN t
    OBVIOUS
  <2> HIDE DEF D
  <2> QED  BY <2>1, FS_Subset, FS_CardinalityType DEF Wellformed
<1>3. 0 \in S
  <2> HIDE DEF D, Steady
  <2> QED  BY <1>2
<1>4. ASSUME NEW d \in Nat, d \in S PROVE d + 1 \in S
  <2>1. SUFFICES ASSUME d + 1 <= N PROVE Steady(d + 1) \/ d + 1 <= Cardinality(D(d + 1))
    OBVIOUS
  <2> PICK a, b : a = f[d] /\ b = f[d + 1]
    OBVIOUS
  <2>2. \A x \in DOMAIN t : b[x] = SymbolValue(t, a, x, insec, pc)
    <3>1. d + 1 \in 1 .. N /\ (d + 1) - 1 = d
      BY <2>1
    <3> QED  BY <3>1 DEF ValueChain
  <2>3. \A x \in DOMAIN t : a[x].kind # "cycle" => b[x] = a[x]
    <3>1. d \in 0 .. N
      BY <1>1, <2>1
    <3> QED  BY <1>1, <2>2, <3>1, ValueStays
  <2>4. CASE \A x \in DOMAIN t : b[x] = a[x]
    <3>1. \A k \in DOMAIN t : SymbolValue(t, b, k, insec, pc) = SymbolValue(t, a, k, insec, pc)
      <4> TAKE k \in DOMAIN t
      <4>1. CASE t[k].type \in {"label", "import"}
        BY <4>1 DEF SymbolValue
      <4>2. CASE t[k].type \notin {"label", "import"}
        <5> PICK e : e = t[k].expr
          OBVIOUS
        <5>1. \A x \in {e.plus, e.minus} \ {NoSym} : b[x] = a[x]
          BY <2>4, <4>2 DEF Wellformed, Closed
        <5>2. \A sv : SymbolValue(t, sv, k, insec, pc) = EvalWith(t, sv, e, insec, pc)
          BY <4>2 DEF SymbolValue
        <5> QED  BY <5>1, <5>2, EvalSame
      <4> QED  BY <4>1, <4>2
    <3>2. Steady(d + 1)
      BY <2>2, <3>1
    <3> QED  BY <3>2
  <2>5. CASE ~\A x \in DOMAIN t : b[x] = a[x]
    <3>1. PICK x \in DOMAIN t : b[x] # a[x]
      BY <2>5
    <3>2. a[x].kind = "cycle"
      BY <2>3, <3>1
    <3>3. a[x] = InEval
      <4>1. CASE d = 0
        BY <4>1 DEF ValueChain
      <4>2. CASE d # 0
        <5>1. d \in 1 .. N
          BY <1>1, <2>1, <4>2
        <5>2. a[x] = SymbolValue(t, f[d - 1], x, insec, pc)
          BY <5>1 DEF ValueChain
        <5> QED  BY <3>2, <5>2, ValueCycle
      <4> QED  BY <4>1, <4>2
    <3>4. b[x].kind # "cycle"
      BY <2>2, <3>1, <3>3, ValueCycle
    <3>5. D(d) \cup {x} \subseteq D(d + 1) /\ x \notin D(d)
      BY <2>3, <3>2, <3>4
    <3>6. d <= Cardinality(D(d))
      <4>1. ~Steady(d)
        BY <2>2, <3>1
      <4>2. d <= N
        BY <1>1, <2>1
      <4> HIDE DEF D, Steady
      <4> QED  BY <1>4, <4>1, <4>2
    <3> HIDE DEF D, Steady
    <3>7. Cardinality(D(d) \cup {x}) = Cardinality(D(d)) + 1 /\ IsFiniteSet(D(d) \cup {x})
      BY <1>2, <3>5, FS_AddElement
    <3>8. Cardinality(D(d) \cup {x}) <= Cardinality(D(d + 1))
      BY <1>2, <3>5, FS_Subset
    <3> QED  BY <1>2, <3>6, <3>7, <3>8
  <2> QED  BY <2>4, <2>5
<1>5. N \in S
  <2> HIDE DEF S
  <2> QED  BY <1>1, <1>3, <1>4, SetInduction
<1>6. CASE Steady(N)
  BY <1>6
<1>7. CASE ~Steady(N)
  <2>1. D(N) \subseteq DOMAIN t /\ Cardinality(D(N)) = N
    <3> HIDE DEF D, Steady
    <3>1. N <= Cardinality(D(N))
      BY <1>1, <1>5, <1>7
    <3>2. Cardinality(D(N)) = N
      BY <1>1, <1>2, <3>1
    <3> QED  BY <3>2 DEF D
  <2>2. D(N) = DOMAIN t
    <3> HIDE DEF D, Steady
    <3> QED  BY <2>1, FS_Subset DEF Wellformed
  <2>3. \A k \in DOMAIN t : f[N][k].kind # "cycle"
    BY <2>2
  <2> HIDE DEF D, Steady, S
  <2>4. N \in 0 .. N
    BY <1>1
  <2> QED  BY <1>1, <2>3, <2>4, ValueStays
<1> QED  BY <1>6, <1>7

----------------------------------------------------------------------------
(* How fix_labels() changes the value of symbols.                           *)

\* The values fix_labels() finds.
Value(t) == SymbolValues(t, FALSE, 0)

ValueOf(t, a, k)   == SymbolValue(t, a, k, FALSE, 0)
EvalOf(t, a, e)    == EvalWith(t, a, e, FALSE, 0)
DifferenceOf(t, l, r) == Subtracted(t, l, r, FALSE, 0)

\* f[d] is what they are through d others, and they have their value in the end.
Evaluation(t, insec, pc, f) ==
  /\ \A k \in DOMAIN t : f[0][k] = InEval
  /\ \A d \in Nat : d + 1 <= Cardinality(DOMAIN t) =>
       \A k \in DOMAIN t : f[d + 1][k] = SymbolValue(t, f[d], k, insec, pc)
  /\ \A d \in 0 .. Cardinality(DOMAIN t) : \A k \in DOMAIN t :
       f[d][k].kind # "cycle" => SymbolValue(t, f[d], k, insec, pc) = f[d][k]
  /\ SymbolValues(t, insec, pc) = f[Cardinality(DOMAIN t)]
  /\ \A k \in DOMAIN t : SymbolValue(t, f[Cardinality(DOMAIN t)], k, insec, pc) = f[Cardinality(DOMAIN t)][k]

ChainOf(t, f) ==
  /\ \A k \in DOMAIN t : f[0][k] = InEval
  /\ \A d \in Nat : d + 1 <= Cardinality(DOMAIN t) => \A k \in DOMAIN t : f[d + 1][k] = ValueOf(t, f[d], k)
  /\ \A d \in 0 .. Cardinality(DOMAIN t) : \A k \in DOMAIN t : f[d][k].kind # "cycle" => ValueOf(t, f[d], k) = f[d][k]
  /\ Value(t) = f[Cardinality(DOMAIN t)]

LEMMA EvaluationExists ==
  ASSUME NEW t, Wellformed(t), NEW insec, NEW pc
  PROVE  \E f : Evaluation(t, insec, pc, f)
<1> PICK N : N = Cardinality(DOMAIN t)
  OBVIOUS
<1>1. N \in Nat
  BY FS_CardinalityType DEF Wellformed
<1> PICK f : ValueChain(t, insec, pc, f)
  BY <1>1, ValueChainExists
<1>2. \A k \in DOMAIN t : SymbolValue(t, f[N], k, insec, pc) = f[N][k]
  BY ValuesSteady
<1>3. \A d \in 0 .. N : \A k \in DOMAIN t :
        f[d][k].kind # "cycle" => SymbolValue(t, f[d], k, insec, pc) = f[d][k]
  BY <1>1, ValueStays
<1>4. \A d \in Nat : d + 1 <= N => \A k \in DOMAIN t : f[d + 1][k] = SymbolValue(t, f[d], k, insec, pc)
  <2> TAKE d \in Nat
  <2>1. d + 1 <= N => d + 1 \in 1 .. N /\ (d + 1) - 1 = d
    BY <1>1
  <2> QED  BY <2>1 DEF ValueChain
<1>5. (\A k \in DOMAIN t : f[0][k] = InEval) /\ SymbolValues(t, insec, pc) = f[N]
  BY DEF ValueChain
<1> QED  BY <1>2, <1>3, <1>4, <1>5 DEF Evaluation

LEMMA ValueFixed ==
  ASSUME NEW t, Wellformed(t)
  PROVE  /\ Cardinality(DOMAIN t) \in Nat
         /\ \E f : ChainOf(t, f)
         /\ \A k \in DOMAIN t : Value(t)[k] = ValueOf(t, Value(t), k)
<1>1. Cardinality(DOMAIN t) \in Nat
  BY FS_CardinalityType DEF Wellformed
<1>2. PICK f : Evaluation(t, FALSE, 0, f)
  BY EvaluationExists, Zenon
<1>3. ChainOf(t, f)
  BY <1>2 DEF Evaluation, ChainOf, ValueOf, Value
<1>4. Value(t) = f[Cardinality(DOMAIN t)]
  BY <1>3 DEF ChainOf
<1>5. \A k \in DOMAIN t : ValueOf(t, f[Cardinality(DOMAIN t)], k) = f[Cardinality(DOMAIN t)][k]
  BY <1>2 DEF Evaluation, ValueOf
<1> QED  BY <1>1, <1>3, <1>4, <1>5

Expression(t, k) == t[k].type \notin {"label", "import"}

\* Besides j, the symbols of u are those of t.
Like(t, u, j) ==
  /\ DOMAIN u = DOMAIN t
  /\ \A k \in DOMAIN t \ {j} : u[k] = t[k]

LEMMA LikeValue ==
  ASSUME NEW t, NEW u, NEW j, Like(t, u, j), NEW k \in DOMAIN t \ {j}, ~Expression(t, k), NEW a, NEW b
  PROVE  ValueOf(u, b, k) = ValueOf(t, a, k)
BY DEF Like, Expression, SymbolValue, IsAbs, ValueOf

LEMMA ExpressionValue ==
  ASSUME NEW t, NEW k, Expression(t, k), NEW a
  PROVE  ValueOf(t, a, k) = EvalOf(t, a, t[k].expr)
BY DEF Expression, SymbolValue, ValueOf, EvalOf

LEMMA EvalOfCycle ==
  ASSUME NEW t, NEW e, NEW a
  PROVE  EvalOf(t, a, e).kind = "cycle" <=> Cyclic(a, e)
<1>1. EvalWith(t, a, e, FALSE, 0).kind = "cycle" <=> Cyclic(a, e)
  BY EvalCycle, Zenon
<1> QED  BY <1>1 DEF EvalOf

LEMMA EvalOfIs ==
  ASSUME NEW t, NEW e, NEW a, ~Cyclic(a, e)
  PROVE  LET l == Operand(a, e.plus, e.add)
             n == IF e.plus = NoSym THEN 0 ELSE e.add
         IN  EvalOf(t, a, e) = IF e.minus = NoSym THEN Added(l, n)
                               ELSE Added(DifferenceOf(t, l, a[e.minus]), n)
BY EvalWithIs, Zenon DEF EvalOf, DifferenceOf

LEMMA DifferenceOfIs ==
  ASSUME NEW t, NEW l, NEW r
  PROVE  LET s == DifferenceOf(t, l, r)
         IN  /\ s.cnst = ((l.cnst /\ r.cnst) \/ Difference(t, l, r, FALSE) = "constant")
             /\ s.kind = SubKind(t, l, r, FALSE) /\ s.base = l.base
BY DEF DifferenceOf, Subtracted

LEMMA PlainValue ==
  ASSUME NEW t, NEW k, ~Expression(t, k), NEW a
  PROVE  ValueOf(t, a, k).kind = "ok" /\ ValueOf(t, a, k).base = k
BY DEF Expression, SymbolValue, ValueOf

\* A symbol is not met again while it is evaluated in u when it is not in t.
LEMMA NoNewCycle ==
  ASSUME NEW t, Wellformed(t), NEW u, Wellformed(u), NEW j, Like(t, u, j), j \in DOMAIN t => Value(u)[j].kind # "cycle"
  PROVE  \A k \in DOMAIN t : Value(t)[k].kind # "cycle" => Value(u)[k].kind # "cycle"
<1> PICK N, v : N = Cardinality(DOMAIN t) /\ v = Value(u)
  OBVIOUS
<1>1. N \in Nat
  BY ValueFixed
<1> PICK f : ChainOf(t, f)
  BY ValueFixed
<1>2. Value(t) = f[N]
  BY DEF ChainOf
<1>3. \A k \in DOMAIN t : v[k] = ValueOf(u, v, k)
  BY ValueFixed DEF Like
<1> DEFINE S == {d \in Nat : d <= N => \A k \in DOMAIN t : f[d][k].kind # "cycle" => v[k].kind # "cycle"}
<1>4. 0 \in S
  BY DEF ChainOf, InEval
<1>5. ASSUME NEW d \in Nat, d \in S PROVE d + 1 \in S
  <2>1. SUFFICES ASSUME d + 1 <= N, NEW k \in DOMAIN t, f[d + 1][k].kind # "cycle" PROVE v[k].kind # "cycle"
    OBVIOUS
  <2> PICK a : a = f[d]
    OBVIOUS
  <2>2. f[d + 1][k] = ValueOf(t, a, k)
    BY <2>1 DEF ChainOf
  <2>3. \A x \in DOMAIN t : a[x].kind # "cycle" => v[x].kind # "cycle"
    BY <1>1, <1>5, <2>1
  <2> HIDE DEF S
  <2>4. CASE k = j
    BY <2>4
  <2>5. CASE k # j /\ ~Expression(t, k)
    <3>1. v[k] = ValueOf(t, a, k)
      BY <1>3, <2>5, LikeValue
    <3> QED  BY <2>1, <2>2, <3>1
  <2>6. CASE k # j /\ Expression(t, k)
    <3> PICK e : e = t[k].expr
      OBVIOUS
    <3>1. Expression(u, k) /\ u[k].expr = e
      BY <2>6 DEF Expression, Like
    <3>2. ~Cyclic(a, e)
      <4>1. f[d + 1][k] = EvalOf(t, a, e)
        BY <2>2, <2>6, ExpressionValue
      <4> QED  BY <2>1, <4>1, EvalOfCycle
    <3>3. Closed(t, e)
      BY <2>6 DEF Wellformed, Expression
    <3>4. ~Cyclic(v, e)
      BY <2>3, <3>2, <3>3 DEF Cyclic, Closed
    <3>5. v[k] = EvalOf(u, v, e)
      BY <1>3, <3>1, ExpressionValue
    <3> QED  BY <3>4, <3>5, EvalOfCycle
  <2> QED  BY <2>4, <2>5, <2>6
<1> HIDE DEF S
<1>6. N \in S
  BY <1>1, <1>4, <1>5, SetInduction
<1> QED  BY <1>2, <1>6 DEF S

\* A value that is a number, or has a base.
Sane(r) == r.kind # "cycle" /\ (~r.cnst => r.kind = "ok")

\* s is what r becomes: as much of a number as r is, with a base of the same kind or
\* with none if it is one.
Becomes(t, u, r, s) ==
  /\ s.kind # "cycle" /\ s.cnst = r.cnst
  /\ s.kind = "ok" => r.kind = "ok" /\ s.base \in DOMAIN u /\ u[s.base].type = t[r.base].type
  /\ r.kind = "ok" /\ ~r.cnst => s.kind = "ok"

LEMMA BecomesAdded ==
  ASSUME NEW t, NEW u, NEW r, NEW s, Becomes(t, u, r, s), NEW n
  PROVE  Becomes(t, u, Added(r, n), Added(s, n))
<1> PICK a, b : a = Added(r, n) /\ b = Added(s, n)
  OBVIOUS
<1>1. /\ a.cnst = r.cnst /\ a.base = r.base /\ (a.kind = "ok" <=> r.kind = "ok")
      /\ b.cnst = s.cnst /\ b.base = s.base /\ (b.kind = "ok" <=> s.kind = "ok")
      /\ (b.kind = "cycle" <=> s.kind = "cycle")
  BY AddedIs
<1> QED  BY <1>1 DEF Becomes

LEMMA BecomesSubtracted ==
  ASSUME NEW t, NEW u, NEW l, NEW r, NEW x, NEW y, Becomes(t, u, l, x), Becomes(t, u, r, y),
         OkValue(t, l), OkValue(t, r), Sane(l), Sane(r),
         \A k \in DOMAIN t : IsAbs(t, k) => absolute, \A k \in DOMAIN u : IsAbs(u, k) => absolute
  PROVE  Becomes(t, u, DifferenceOf(t, l, r), DifferenceOf(u, x, y))
<1> PICK a, b, p, q : /\ a = DifferenceOf(t, l, r) /\ b = DifferenceOf(u, x, y)
                      /\ p = Difference(t, l, r, FALSE) /\ q = Difference(u, x, y, FALSE)
  OBVIOUS
<1>1. /\ a.cnst = ((l.cnst /\ r.cnst) \/ p = "constant") /\ a.base = l.base
      /\ b.cnst = ((x.cnst /\ y.cnst) \/ q = "constant") /\ b.base = x.base
      /\ a.kind = SubKind(t, l, r, FALSE) /\ b.kind = SubKind(u, x, y, FALSE)
  BY DEF DifferenceOf, Subtracted
<1>2. b.kind \in {"ok", "illegal"}
  BY <1>1 DEF SubKind
<1>3. b.kind = "ok" => a.kind = "ok" /\ b.base \in DOMAIN u /\ u[b.base].type = t[a.base].type
  BY <1>1 DEF SubKind, Becomes
<1>4. b.cnst = a.cnst
  <2>1. l.kind = "ok" => (l.cnst <=> (absolute /\ t[l.base].type = "label"))
    BY DEF OkValue, Sane
  <2>2. r.kind = "ok" => (r.cnst <=> (absolute /\ t[r.base].type = "label"))
    BY DEF OkValue, Sane
  <2>3. x.cnst = l.cnst /\ y.cnst = r.cnst
    BY DEF Becomes
  <2>4. x.kind = "ok" => l.kind = "ok" /\ u[x.base].type = t[l.base].type
    BY DEF Becomes
  <2>5. y.kind = "ok" => r.kind = "ok" /\ u[y.base].type = t[r.base].type
    BY DEF Becomes
  <2>6. CASE l.cnst /\ r.cnst
    BY <1>1, <2>3, <2>6
  <2>7. CASE ~r.cnst
    <3>1. r.kind = "ok" /\ y.kind = "ok" /\ u[y.base].type = t[r.base].type
      BY <2>5, <2>7 DEF Sane, Becomes
    <3>2. r.base \in DOMAIN t /\ y.base \in DOMAIN u
      BY <3>1 DEF OkValue, Sane, Becomes
    <3>3. t[r.base].type = "label" => ~absolute
      BY <2>2, <2>7, <3>1
    <3>4. t[r.base].type = "label" => ~IsAbs(t, r.base) /\ ~IsAbs(u, y.base)
      BY <3>2, <3>3
    <3>5. l.cnst => (t[r.base].type = "label" => l.kind # "ok" /\ x.kind # "ok")
      BY <2>1, <2>4, <3>3
    <3>6. ~l.cnst => l.kind = "ok" /\ x.kind = "ok" /\ u[x.base].type = t[l.base].type
      BY <2>4 DEF Sane, Becomes
    <3>7. p = "constant" <=> q = "constant"
      BY <2>3, <2>7, <3>1, <3>4, <3>5, <3>6 DEF Difference, IsLabel, IsImport
    <3> QED  BY <1>1, <2>3, <2>7, <3>7
  <2>8. CASE r.cnst /\ ~l.cnst
    <3>1. l.kind = "ok" /\ x.kind = "ok" /\ u[x.base].type = t[l.base].type
      BY <2>4, <2>8 DEF Sane, Becomes
    <3>2. p # "constant"
      BY <2>1, <2>2, <2>8, <3>1 DEF Difference, IsLabel, IsImport
    <3>3. q # "constant"
      BY <2>1, <2>2, <2>5, <2>8, <3>1 DEF Difference, IsLabel, IsImport
    <3> QED  BY <1>1, <2>3, <2>8, <3>2, <3>3
  <2> QED  BY <2>6, <2>7, <2>8
<1>5. (a.kind = "ok" /\ ~a.cnst) => b.kind = "ok"
  BY <1>1 DEF SubKind, Becomes
<1> QED  BY <1>2, <1>3, <1>4, <1>5 DEF Becomes

NamesIn(e) == {e.plus, e.minus} \ {NoSym}

LEMMA EvalBecomes ==
  ASSUME NEW t, NEW u, NEW e, e.add \in Int, NEW a, NEW b,
         \A k \in NamesIn(e) : OkValue(t, a[k]) /\ Sane(a[k]) /\ Becomes(t, u, a[k], b[k]),
         \A k \in DOMAIN t : IsAbs(t, k) => absolute, \A k \in DOMAIN u : IsAbs(u, k) => absolute
  PROVE  Becomes(t, u, EvalOf(t, a, e), EvalOf(u, b, e))
<1> PICK l, x, n : /\ l = Operand(a, e.plus, e.add) /\ x = Operand(b, e.plus, e.add)
                   /\ n = IF e.plus = NoSym THEN 0 ELSE e.add
  OBVIOUS
<1>1. ~Cyclic(a, e) /\ ~Cyclic(b, e)
  BY DEF Cyclic, NamesIn, Sane, Becomes
<1>2. EvalOf(t, a, e) = IF e.minus = NoSym THEN Added(l, n) ELSE Added(DifferenceOf(t, l, a[e.minus]), n)
  BY <1>1, EvalOfIs
<1>3. EvalOf(u, b, e) = IF e.minus = NoSym THEN Added(x, n) ELSE Added(DifferenceOf(u, x, b[e.minus]), n)
  BY <1>1, EvalOfIs
<1>4. OkValue(t, l) /\ Sane(l) /\ Becomes(t, u, l, x)
  <2>1. CASE e.plus = NoSym
    <3>1. l = [cnst |-> TRUE, v |-> e.add, kind |-> "illegal", base |-> NoSym] /\ x = l
      BY <2>1 DEF Operand
    <3> QED  BY <3>1 DEF OkValue, Sane, Becomes
  <2>2. CASE e.plus # NoSym
    BY <2>2 DEF Operand, NamesIn
  <2> QED  BY <2>1, <2>2
<1>5. CASE e.minus = NoSym
  BY <1>2, <1>3, <1>4, <1>5, BecomesAdded
<1>6. CASE e.minus # NoSym
  <2> PICK r, y : r = a[e.minus] /\ y = b[e.minus]
    OBVIOUS
  <2>1. OkValue(t, r) /\ Sane(r) /\ Becomes(t, u, r, y)
    BY <1>6 DEF NamesIn
  <2>2. Becomes(t, u, DifferenceOf(t, l, r), DifferenceOf(u, x, y))
    BY <1>4, <2>1, BecomesSubtracted
  <2> QED  BY <1>2, <1>3, <1>6, <2>2, BecomesAdded
<1> QED  BY <1>5, <1>6

\* What fix_labels() does to a symbol that it changes: an address of an absolute
\* section becomes a number, another expression becomes what its base is.
Changed(t, u, j) ==
  /\ j \in DOMAIN t /\ Like(t, u, j) /\ u[j].flags = t[j].flags
  /\ \/ /\ IsLabel(t, j) /\ IsAbs(t, j)
        /\ u[j].type = "expression" /\ u[j].expr = Number(t[j].pc)
     \/ /\ Expression(t, j) /\ ~Value(t)[j].cnst /\ Value(t)[j].kind = "ok"
        /\ u[j].type = t[Value(t)[j].base].type

Valued(t) ==
  /\ Wellformed(t)
  /\ \A k \in DOMAIN t : /\ OkValue(t, Value(t)[k])
                         /\ IsAbs(t, k) => absolute
                         /\ Expression(t, k) => t[k].expr.add \in Int

LEMMA ChangedValue ==
  ASSUME NEW t, Valued(t), NEW u, NEW j, Changed(t, u, j), NEW b
  PROVE  Becomes(t, u, Value(t)[j], ValueOf(u, b, j)) /\ (Expression(u, j) => NamesIn(u[j].expr) = {})
<1> PICK r, s : r = Value(t)[j] /\ s = ValueOf(u, b, j)
  OBVIOUS
<1>1. j \in DOMAIN t /\ j \in DOMAIN u
  BY DEF Changed, Like
<1>2. CASE IsLabel(t, j) /\ IsAbs(t, j) /\ u[j].type = "expression" /\ u[j].expr = Number(t[j].pc)
  <2>1. r.cnst = TRUE /\ r.kind = "ok"
    <3>1. r = ValueOf(t, Value(t), j)
      BY <1>1, ValueFixed DEF Valued
    <3>2. r = [cnst |-> IsAbs(t, j), v |-> t[j].pc, kind |-> "ok", base |-> j]
      BY <1>2, <3>1, Zenon DEF ValueOf, SymbolValue, IsLabel
    <3>3. IsAbs(t, j) = TRUE
      BY <1>2 DEF IsAbs
    <3> QED  BY <3>2, <3>3
  <2> PICK e : e = u[j].expr
    OBVIOUS
  <2>2. NamesIn(e) = {} /\ e.plus = NoSym /\ e.minus = NoSym
    BY <1>2 DEF Number, NamesIn
  <2>3. s = EvalOf(u, b, e)
    BY <1>2, ExpressionValue DEF Expression
  <2>4. s = Added(Operand(b, e.plus, e.add), 0)
    BY <2>2, <2>3, EvalOfIs DEF Cyclic
  <2>5. Operand(b, e.plus, e.add) = [cnst |-> TRUE, v |-> e.add, kind |-> "illegal", base |-> NoSym]
    BY <2>2 DEF Operand
  <2>6. s.cnst = TRUE /\ s.kind = "illegal"
    BY <2>4, <2>5, AddedIs
  <2> QED  BY <2>1, <2>2, <2>6 DEF Becomes
<1>3. CASE Expression(t, j) /\ ~r.cnst /\ r.kind = "ok" /\ u[j].type = t[r.base].type
  <2>1. OkValue(t, r) /\ (IsAbs(t, j) => absolute)
    BY <1>1 DEF Valued
  <2>2. t[r.base].type \in {"label", "import"} /\ (t[r.base].type = "label" => ~absolute) /\ r.cnst = FALSE
    BY <1>3, <2>1 DEF OkValue
  <2>3. ~Expression(u, j)
    BY <1>3, <2>2 DEF Expression
  <2>4. u[j].type = "label" => ~IsAbs(u, j)
    BY <1>3, <2>1, <2>2 DEF IsAbs, Changed
  <2>5. s.cnst = FALSE /\ s.kind = "ok" /\ s.base = j
    <3>1. CASE u[j].type = "label"
      <4>1. s = [cnst |-> IsAbs(u, j), v |-> u[j].pc, kind |-> "ok", base |-> j]
        BY <3>1 DEF ValueOf, SymbolValue
      <4>2. IsAbs(u, j) = FALSE
        BY <2>4, <3>1 DEF IsAbs
      <4> QED  BY <4>1, <4>2
    <3>2. CASE u[j].type = "import"
      BY <3>2 DEF ValueOf, SymbolValue
    <3> QED  BY <1>3, <2>2, <3>1, <3>2
  <2> QED  BY <1>1, <1>3, <2>2, <2>3, <2>5 DEF Becomes
<1> QED  BY <1>2, <1>3 DEF Changed

\* Symbols with sane values, whose expressions are made of such symbols.
SaneSet(t, C) ==
  /\ C \subseteq DOMAIN t
  /\ \A k \in C : Sane(Value(t)[k]) /\ (Expression(t, k) => NamesIn(t[k].expr) \subseteq C)

LEMMA ChangedAbs ==
  ASSUME NEW t, Valued(t), NEW u, NEW j, Changed(t, u, j)
  PROVE  \A k \in DOMAIN u : IsAbs(u, k) => absolute
BY DEF Changed, Like, Valued, IsAbs

LEMMA ValuesBecome ==
  ASSUME NEW t, Valued(t), NEW u, Wellformed(u), NEW j, Changed(t, u, j), NEW C, SaneSet(t, C)
  PROVE  \A k \in C : Becomes(t, u, Value(t)[k], Value(u)[k])
<1> PICK N, v : N = Cardinality(DOMAIN u) /\ v = Value(t)
  OBVIOUS
<1>1. N \in Nat /\ DOMAIN u = DOMAIN t /\ C \subseteq DOMAIN t /\ j \in DOMAIN t /\ Like(t, u, j) /\ Wellformed(t)
  BY ValueFixed DEF Changed, Like, SaneSet, Valued
<1> PICK f : ChainOf(u, f)
  BY ValueFixed
<1>2. Value(u) = f[N]
  BY DEF ChainOf
<1>3. \A k \in DOMAIN t : v[k] = ValueOf(t, v, k)
  BY <1>1, ValueFixed
<1> DEFINE S == {d \in Nat : d <= N => \A k \in C : f[d][k].kind # "cycle" => Becomes(t, u, v[k], f[d][k])}
<1>4. 0 \in S
  BY <1>1 DEF ChainOf, InEval
<1>5. ASSUME NEW d \in Nat, d \in S PROVE d + 1 \in S
  <2>1. SUFFICES ASSUME d + 1 <= N, NEW k \in C, f[d + 1][k].kind # "cycle"
                 PROVE  Becomes(t, u, v[k], f[d + 1][k])
    OBVIOUS
  <2> PICK b : b = f[d]
    OBVIOUS
  <2>2. f[d + 1][k] = ValueOf(u, b, k)
    BY <1>1, <2>1 DEF ChainOf
  <2>3. \A x \in C : b[x].kind # "cycle" => Becomes(t, u, v[x], b[x])
    BY <1>1, <1>5, <2>1
  <2> HIDE DEF S
  <2>4. CASE k = j
    BY <2>2, <2>4, ChangedValue
  <2>5. CASE k # j /\ ~Expression(t, k)
    <3>1. f[d + 1][k] = v[k] /\ k \in DOMAIN t \ {j}
      BY <1>1, <1>3, <2>2, <2>5, LikeValue
    <3>2. v[k].kind = "ok" /\ v[k].base = k
      BY <1>1, <1>3, <2>5, PlainValue
    <3>3. u[k] = t[k]
      BY <1>1, <3>1 DEF Like
    <3> QED  BY <1>1, <3>1, <3>2, <3>3 DEF Becomes
  <2>6. CASE k # j /\ Expression(t, k)
    <3> PICK e : e = t[k].expr
      OBVIOUS
    <3>1. Expression(u, k) /\ u[k].expr = e
      BY <1>1, <2>6 DEF Expression, Like
    <3>2. f[d + 1][k] = EvalOf(u, b, e)
      BY <2>2, <3>1, ExpressionValue
    <3>3. ~Cyclic(b, e)
      BY <2>1, <3>2, EvalOfCycle
    <3>4. v[k] = EvalOf(t, v, e)
      BY <1>1, <1>3, <2>6, ExpressionValue
    <3>5. NamesIn(e) \subseteq C /\ e.add \in Int
      BY <1>1, <2>6 DEF SaneSet, Valued
    <3>6. \A x \in NamesIn(e) : OkValue(t, v[x]) /\ Sane(v[x]) /\ Becomes(t, u, v[x], b[x])
      <4>1. \A x \in NamesIn(e) : b[x].kind # "cycle"
        BY <3>3 DEF Cyclic, NamesIn
      <4> QED  BY <1>1, <2>3, <3>5, <4>1 DEF SaneSet, Valued
    <3>7. \A x \in DOMAIN t : IsAbs(t, x) => absolute
      BY DEF Valued
    <3>8. \A x \in DOMAIN u : IsAbs(u, x) => absolute
      BY ChangedAbs
    <3> QED  BY <3>2, <3>4, <3>5, <3>6, <3>7, <3>8, EvalBecomes
  <2> QED  BY <2>4, <2>5, <2>6
<1> HIDE DEF S
<1>6. N \in S
  BY <1>1, <1>4, <1>5, SetInduction
<1>7. \A k \in C : Value(u)[k].kind # "cycle"
  <2>1. Value(u)[j].kind # "cycle"
    <3>1. Value(u)[j] = ValueOf(u, Value(u), j)
      BY <1>1, ValueFixed
    <3> QED  BY <3>1, ChangedValue DEF Becomes
  <2>2. \A k \in DOMAIN t : Value(t)[k].kind # "cycle" => Value(u)[k].kind # "cycle"
    BY <1>1, <2>1, NoNewCycle
  <2> QED  BY <1>1, <2>2 DEF SaneSet, Sane
<1> QED  BY <1>2, <1>6, <1>7 DEF S

LEMMA SaneSetKept ==
  ASSUME NEW t, Valued(t), NEW u, Wellformed(u), NEW j, Changed(t, u, j), NEW C, SaneSet(t, C)
  PROVE  SaneSet(u, C) /\ \A k \in C : Value(u)[k].cnst = Value(t)[k].cnst
<1>1. \A k \in C : Becomes(t, u, Value(t)[k], Value(u)[k])
  BY ValuesBecome
<1>2. C \subseteq DOMAIN u /\ C \subseteq DOMAIN t
  BY DEF SaneSet, Changed, Like
<1>3. ASSUME NEW k \in C PROVE Expression(u, k) => NamesIn(u[k].expr) \subseteq C
  <2>1. CASE k = j
    <3>1. Expression(u, j) => NamesIn(u[j].expr) = {}
      BY ChangedValue, Zenon
    <3> QED  BY <2>1, <3>1
  <2>2. CASE k # j
    <3>1. u[k] = t[k]
      BY <1>2, <2>2 DEF Changed, Like
    <3> QED  BY <3>1 DEF SaneSet, Expression
  <2> QED  BY <2>1, <2>2
<1>4. \A k \in C : Sane(Value(u)[k]) /\ Value(u)[k].cnst = Value(t)[k].cnst
  BY <1>1 DEF SaneSet, Sane, Becomes
<1> QED  BY <1>2, <1>3, <1>4 DEF SaneSet

\* The value of an expression that fix_labels() reports: an expression that is met
\* again, or one over sane symbols that is neither a number nor has a base.
BadOver(t, x, C) ==
  /\ Expression(t, x) /\ NamesIn(t[x].expr) \subseteq C /\ SaneSet(t, C)
  /\ ~Value(t)[x].cnst /\ Value(t)[x].kind \notin {"ok", "cycle"}

Bad(t, x) == Value(t)[x].kind = "cycle" \/ \E C : BadOver(t, x, C)

LEMMA BadKept ==
  ASSUME NEW t, Valued(t), NEW u, Wellformed(u), NEW j, Changed(t, u, j),
         NEW x \in DOMAIN t, x # j, Bad(t, x)
  PROVE  Bad(u, x)
<1>1. /\ DOMAIN u = DOMAIN t /\ j \in DOMAIN t /\ Like(t, u, j) /\ Like(u, t, j) /\ Wellformed(t)
      /\ u[x] = t[x]
  BY DEF Changed, Like, Valued
<1>2. CASE Value(t)[x].kind = "cycle"
  <2>1. Value(t)[j].kind # "cycle"
    <3>1. CASE IsLabel(t, j)
      BY <1>1, <3>1, ValueFixed, PlainValue DEF IsLabel, Expression
    <3>2. CASE Value(t)[j].kind = "ok"
      BY <3>2
    <3> QED  BY <3>1, <3>2 DEF Changed
  <2>2. \A k \in DOMAIN u : Value(u)[k].kind # "cycle" => Value(t)[k].kind # "cycle"
    BY <1>1, <2>1, NoNewCycle
  <2> QED  BY <1>1, <1>2, <2>2 DEF Bad
<1>3. ASSUME NEW C, BadOver(t, x, C) PROVE BadOver(u, x, C)
  <2> PICK e, v, w : e = t[x].expr /\ v = Value(t) /\ w = Value(u)
    OBVIOUS
  <2>1. Expression(t, x) /\ NamesIn(e) \subseteq C /\ SaneSet(t, C) /\ ~v[x].cnst /\ v[x].kind \notin {"ok", "cycle"}
    BY <1>3 DEF BadOver
  <2>2. Expression(u, x) /\ u[x].expr = e
    BY <1>1, <2>1 DEF Expression
  <2>3. SaneSet(u, C)
    BY <2>1, SaneSetKept
  <2>4. v[x] = EvalOf(t, v, e)
    BY <1>1, <2>1, ValueFixed, ExpressionValue
  <2>5. w[x] = EvalOf(u, w, e)
    BY <1>1, <2>2, ValueFixed, ExpressionValue
  <2>6. \A k \in C : Becomes(t, u, v[k], w[k])
    BY <2>1, ValuesBecome
  <2>7. \A k \in NamesIn(e) : OkValue(t, v[k]) /\ Sane(v[k]) /\ Becomes(t, u, v[k], w[k])
    BY <2>1, <2>6 DEF SaneSet, Valued
  <2>8. \A k \in DOMAIN u : IsAbs(u, k) => absolute
    BY ChangedAbs
  <2>9. e.add \in Int /\ \A k \in DOMAIN t : IsAbs(t, k) => absolute
    BY <2>1 DEF Valued
  <2>10. Becomes(t, u, v[x], w[x])
    BY <2>4, <2>5, <2>7, <2>8, <2>9, EvalBecomes
  <2>11. ~w[x].cnst /\ w[x].kind \notin {"ok", "cycle"}
    BY <2>1, <2>10 DEF Becomes
  <2> QED  BY <2>1, <2>2, <2>3, <2>11 DEF BadOver
<1> QED  BY <1>2, <1>3 DEF Bad

\* Where no value is sane, a first one is reported.
LEMMA BadOrSane ==
  ASSUME NEW t, Wellformed(t), \A x \in DOMAIN t : ~Bad(t, x)
  PROVE  SaneSet(t, DOMAIN t)
<1> PICK N, v : N = Cardinality(DOMAIN t) /\ v = Value(t)
  OBVIOUS
<1>1. N \in Nat /\ \A k \in DOMAIN t : v[k] = ValueOf(t, v, k)
  BY ValueFixed
<1> PICK f : ChainOf(t, f)
  BY ValueFixed
<1>2. v = f[N]
  BY DEF ChainOf
<1>3. \A d \in Nat : d <= N => \A k \in DOMAIN t : f[d][k].kind # "cycle" => v[k] = f[d][k]
  <2> DEFINE T == {c \in Nat : c <= N => \A k \in DOMAIN t : f[N - c][k].kind # "cycle" => v[k] = f[N - c][k]}
  <2>1. 0 \in T
    <3>1. N - 0 = N
      BY <1>1
    <3> QED  BY <1>2, <3>1
  <2>2. ASSUME NEW c \in Nat, c \in T PROVE c + 1 \in T
    <3>1. SUFFICES ASSUME c + 1 <= N, NEW k \in DOMAIN t, f[N - (c + 1)][k].kind # "cycle"
                   PROVE  v[k] = f[N - (c + 1)][k]
      OBVIOUS
    <3> PICK d : d = N - (c + 1)
      OBVIOUS
    <3>2. d \in Nat /\ d + 1 = N - c /\ d + 1 <= N /\ d \in 0 .. N
      BY <1>1, <3>1
    <3>3. f[d + 1][k] = ValueOf(t, f[d], k)
      BY <3>2 DEF ChainOf
    <3>4. ValueOf(t, f[d], k) = f[d][k]
      BY <3>1, <3>2 DEF ChainOf
    <3>5. c <= N
      BY <1>1, <3>1
    <3> QED  BY <2>2, <3>1, <3>2, <3>3, <3>4, <3>5
  <2> HIDE DEF T
  <2>3. \A c \in Nat : c \in T
    BY <2>1, <2>2, SetInduction
  <2> SUFFICES ASSUME NEW d \in Nat, d <= N, NEW k \in DOMAIN t, f[d][k].kind # "cycle" PROVE v[k] = f[d][k]
    OBVIOUS
  <2>4. N - d \in Nat /\ N - (N - d) = d /\ N - d <= N
    BY <1>1
  <2>5. N - d \in T
    BY <2>3, <2>4
  <2> QED  BY <2>4, <2>5 DEF T
<1> DEFINE S == {d \in Nat : d <= N => \A k \in DOMAIN t : f[d][k].kind # "cycle" => Sane(f[d][k])}
<1>4. 0 \in S
  BY DEF ChainOf, InEval
<1>5. ASSUME NEW d \in Nat, d \in S PROVE d + 1 \in S
  <2>1. SUFFICES ASSUME d + 1 <= N, NEW x \in DOMAIN t, f[d + 1][x].kind # "cycle" PROVE Sane(f[d + 1][x])
    OBVIOUS
  <2> PICK a, C : a = f[d] /\ C = {k \in DOMAIN t : a[k].kind # "cycle"}
    OBVIOUS
  <2>2. f[d + 1][x] = ValueOf(t, a, x)
    BY <1>1, <2>1 DEF ChainOf
  <2>3. \A k \in C : Sane(a[k]) /\ v[k] = a[k]
    BY <1>1, <1>3, <1>5, <2>1
  <2> HIDE DEF S
  <2>4. v[x] = f[d + 1][x]
    BY <1>3, <2>1
  <2>5. CASE ~Expression(t, x)
    BY <2>2, <2>5, PlainValue DEF Sane
  <2>6. CASE Expression(t, x)
    <3>1. ASSUME NEW k \in DOMAIN t, Expression(t, k), ValueOf(t, a, k).kind # "cycle"
          PROVE  NamesIn(t[k].expr) \subseteq C
      <4> PICK e : e = t[k].expr
        OBVIOUS
      <4>1. ~Cyclic(a, e)
        BY <3>1, ExpressionValue, EvalOfCycle
      <4>2. NamesIn(e) \subseteq DOMAIN t
        BY <3>1 DEF Wellformed, Closed, NamesIn, Expression
      <4> QED  BY <4>1, <4>2 DEF Cyclic, NamesIn
    <3>2. ASSUME NEW k \in C, Expression(t, k) PROVE NamesIn(t[k].expr) \subseteq C
      <4>1. d \in 0 .. N
        BY <1>1, <2>1
      <4>2. ValueOf(t, a, k) = a[k]
        BY <4>1 DEF ChainOf
      <4> QED  BY <3>1, <3>2, <4>2
    <3>3. SaneSet(t, C)
      <4>1. C \subseteq DOMAIN t
        OBVIOUS
      <4>2. \A k \in C : Sane(v[k])
        BY <2>3
      <4> QED  BY <3>2, <4>1, <4>2 DEF SaneSet
    <3>4. NamesIn(t[x].expr) \subseteq C
      BY <2>1, <2>2, <2>6, <3>1
    <3>5. ~BadOver(t, x, C)
      BY DEF Bad
    <3> QED  BY <2>1, <2>4, <2>6, <3>3, <3>4, <3>5 DEF BadOver, Sane
  <2> QED  BY <2>5, <2>6
<1> HIDE DEF S
<1>6. N \in S
  BY <1>1, <1>4, <1>5, SetInduction
<1>7. \A k \in DOMAIN t : v[k].kind # "cycle"
  BY DEF Bad
<1>8. \A k \in DOMAIN t : Sane(v[k])
  BY <1>1, <1>2, <1>6, <1>7 DEF S
<1>9. \A k \in DOMAIN t : Expression(t, k) => NamesIn(t[k].expr) \subseteq DOMAIN t
  BY DEF Wellformed, Closed, NamesIn, Expression
<1> QED  BY <1>8, <1>9 DEF SaneSet

----------------------------------------------------------------------------
(* What is true while fix_labels() visits the symbols.                      *)

Loose(t, rd, g, k) == IsDefined(t, rd, g, FALSE, k)

\* undef_syms() has seen the symbols without a definition.
Seen(t) ==
  \A k \in DOMAIN t : DefsOf(k) = {} => "XDEF" \notin t[k].flags /\ (auto_import \/ "EXPORT" \in t[k].flags)

\* What is left of a symbol that was visited.
Visited(t, k) ==
  /\ t[k].type = "label" => ~absolute
  /\ t[k].type = "expression" => Value(t)[k].cnst
  /\ t[k].type = "import" /\ "EXPORT" \in t[k].flags => DefsOf(k) = {}

Kinds(t) ==
  /\ IsFiniteSet(DOMAIN t)
  /\ \A k \in DOMAIN t : (IsAbs(t, k) => absolute) /\ (t[k].type = "string" => IsNumber(t[k].expr))

\* Either a symbol that is still to be visited will be reported, or all values
\* are sane and the symbols that were visited are what the object file needs.
Progress(t, rest) ==
  \/ \E x \in rest : Bad(t, x)
  \/ SaneSet(t, DOMAIN t) /\ \A k \in DOMAIN t \ rest : Visited(t, k)

FixState(t, rest) ==
  /\ \E rd, g : /\ ReadDefs(defs, rd, line) /\ MeaningChain(g)
                /\ \A k \in DOMAIN t : Loose(t, rd, g, k)
  /\ Kinds(t) /\ Seen(t) /\ rest \subseteq DOMAIN t
  /\ \A k \in rest : t[k].type = "import" => DefsOf(k) = {}
  /\ Progress(t, rest)

LEMMA LooseKinds ==
  ASSUME NEW t, NEW rd, NEW g, NEW k, Loose(t, rd, g, k)
  PROVE  /\ t[k].type \in {"import", "label", "expression", "string"}
         /\ t[k].type = "label" => (IsAbs(t, k) <=> absolute)
         /\ Expression(t, k) => Closed(t, t[k].expr) /\ t[k].expr.add \in Int
BY DEF Loose, IsDefined, Expression

LEMMA LooseAgrees ==
  ASSUME NEW rd, ReadDefs(defs, rd, line), NoMoves, NEW g, MeaningChain(g),
         \A k \in DOMAIN table : Loose(table, rd, g, k), Kinds(table)
  PROVE  Valued(table) /\ \A d \in 0 .. Len(defs) : Agreeing(FALSE, Value(table), g[d])
<1>1. Cardinality(DOMAIN table) \in Nat /\ Len(defs) \in Nat
  BY FS_CardinalityType, SeqDomain DEF Kinds, ReadDefs
<1> PICK exact : exact = FALSE
  OBVIOUS
<1>2. \A k \in DOMAIN table : IsDefined(table, rd, g, exact, k)
  BY DEF Loose
<1>3. \A insec : \A pc \in Int : \A d \in 0 .. Len(defs) : Agreeing(exact, SymbolValues(table, insec, pc), g[d])
  BY <1>1, <1>2, ValuesAgree
<1>4. 0 \in Int
  OBVIOUS
<1>5. \A d \in 0 .. Len(defs) : Agreeing(exact, Value(table), g[d])
  BY <1>3, <1>4, Zenon DEF Value
<1>6. \A k \in DOMAIN table : OkValue(table, Value(table)[k])
  <2>1. 0 \in 0 .. Len(defs)
    BY <1>1
  <2> QED  BY <1>5, <2>1 DEF Agreeing
<1>7. \A k \in DOMAIN table : Expression(table, k) => Closed(table, table[k].expr) /\ table[k].expr.add \in Int
  BY LooseKinds
<1>8. Wellformed(table)
  BY <1>7 DEF Wellformed, Kinds, Expression
<1> QED  BY <1>5, <1>6, <1>7, <1>8 DEF Valued, Kinds

\* Strings and labels are never reported.
LEMMA StringValue ==
  ASSUME NEW t, Wellformed(t), NEW k \in DOMAIN t, Expression(t, k), IsNumber(t[k].expr)
  PROVE  Value(t)[k].cnst /\ Value(t)[k].kind # "cycle" /\ Value(t)[k].v = t[k].expr.add + 0
<1> PICK e, v : e = t[k].expr /\ v = Value(t)
  OBVIOUS
<1>1. e.plus = NoSym /\ e.minus = NoSym /\ ~Cyclic(v, e)
  BY DEF IsNumber, Cyclic
<1>2. v[k] = EvalOf(t, v, e)
  BY ValueFixed, ExpressionValue
<1>3. v[k] = Added(Operand(v, e.plus, e.add), 0)
  BY <1>1, <1>2, EvalOfIs
<1>4. Operand(v, e.plus, e.add) = [cnst |-> TRUE, v |-> e.add, kind |-> "illegal", base |-> NoSym]
  BY <1>1 DEF Operand
<1> QED  BY <1>3, <1>4, AddedIs

LEMMA BadExpression ==
  ASSUME Valued(table), Kinds(table), NEW x \in DOMAIN table, Bad(table, x),
         table[x].type \in {"import", "label", "expression", "string"}
  PROVE  /\ table[x].type = "expression"
         /\ Value(table)[x].kind = "cycle" \/ (~Value(table)[x].cnst /\ Value(table)[x].kind # "ok")
<1> PICK t, r : t = table /\ r = Value(table)[x]
  OBVIOUS
<1>1. r.kind = "cycle" \/ (Expression(t, x) /\ ~r.cnst /\ r.kind # "ok")
  BY DEF Bad, BadOver
<1>2. Expression(t, x)
  <2>1. ~Expression(t, x) => r.kind = "ok"
    BY ValueFixed, PlainValue DEF Valued
  <2> QED  BY <1>1, <2>1
<1>3. t[x].type # "string"
  <2>1. t[x].type = "string" => r.cnst /\ r.kind # "cycle"
    BY <1>2, StringValue DEF Kinds, Valued
  <2> QED  BY <1>1, <2>1
<1> QED  BY <1>1, <1>2, <1>3 DEF Expression

\* A symbol that changed is still what its definition made of it.
LEMMA ChangedLoose ==
  ASSUME NEW rd, ReadDefs(defs, rd, line), NoMoves, NEW g, MeaningChain(g),
         \A k \in DOMAIN table : Loose(table, rd, g, k), Kinds(table),
         NEW u, NEW j, Changed(table, u, j), u[j].type # "expression" => u[j].pc = Value(table)[j].v
  PROVE  (\A k \in DOMAIN u : Loose(u, rd, g, k)) /\ Kinds(u)
<1> PICK t, r : t = table /\ r = Value(table)[j]
  OBVIOUS
<1>1. DOMAIN u = DOMAIN t /\ j \in DOMAIN t /\ u[j].flags = t[j].flags /\ \A k \in DOMAIN t \ {j} : u[k] = t[k]
  BY DEF Changed, Like
<1>2. Valued(t) /\ \A d \in 0 .. Len(defs) : Agreeing(FALSE, Value(t), g[d])
  BY LooseAgrees
<1>3. ASSUME NEW k \in DOMAIN t \ {j} PROVE Loose(u, rd, g, k)
  <2>1. Loose(t, rd, g, k) /\ u[k] = t[k]
    BY <1>1
  <2>2. IsAbs(u, k) <=> IsAbs(t, k)
    BY <2>1 DEF IsAbs
  <2>3. Closed(t, t[k].expr) => Closed(u, u[k].expr)
    BY <1>1, <2>1 DEF Closed
  <2>4. HasValue(t, rd, g, k) => HasValue(u, rd, g, k)
    BY <2>1 DEF HasValue
  <2> QED  BY <2>1, <2>2, <2>3, <2>4 DEF Loose, IsDefined
<1>4. CASE /\ IsLabel(t, j) /\ IsAbs(t, j)
           /\ u[j].type = "expression" /\ u[j].expr = Number(t[j].pc)
  <2> PICK e : e = u[j].expr
    OBVIOUS
  <2>1. e.plus = NoSym /\ e.minus = NoSym /\ e.add = t[j].pc
    BY <1>4 DEF Number
  <2>2. t[j].pc \in Int /\ absolute /\ MeansOnly(g, j, <<IF absolute THEN "number" ELSE "section", t[j].pc>>)
    <3>1. Loose(t, rd, g, j) /\ t[j].type = "label"
      BY <1>1, <1>4 DEF IsLabel
    <3> QED  BY <1>4, <3>1 DEF Loose, IsDefined
  <2>3. NumberIs(e.add) = <<IF absolute THEN "number" ELSE "section", t[j].pc>>
    BY <2>1, <2>2 DEF NumberIs
  <2>4. HasValue(u, rd, g, j)
    BY <2>1, <2>2, <2>3 DEF HasValue, IsNumber
  <2>5. Loose(u, rd, g, j)
    BY <1>4, <2>1, <2>2, <2>4 DEF Loose, IsDefined, Closed
  <2> QED  BY <1>1, <1>3, <1>4, <2>5 DEF Kinds, IsAbs
<1>5. CASE Expression(t, j) /\ ~r.cnst /\ r.kind = "ok" /\ u[j].type = t[r.base].type
  <2>1. OkValue(t, r)
    BY <1>1, <1>2 DEF Valued
  <2>2. /\ r.base \in DOMAIN t /\ t[r.base].type \in {"label", "import"} /\ r.v \in Int
        /\ t[r.base].type = "label" => ~absolute
    BY <1>5, <2>1 DEF OkValue
  <2>3. u[j].pc = r.v
    BY <1>5, <2>2
  <2>4. IsAbs(u, j) <=> IsAbs(t, j)
    BY <1>1 DEF IsAbs
  <2>5. IsAbs(t, j) => absolute
    BY <1>1 DEF Kinds
  <2>6. \A d \in 0 .. Len(defs) : KeyMeans(j, g[d]) # Any => Agrees(t, FALSE, r, KeyMeans(j, g[d]))
    BY <1>1, <1>2, <1>5 DEF Agreeing
  <2>7. CASE t[r.base].type = "label"
    <3>1. \A d \in 0 .. Len(defs) : KeyMeans(j, g[d]) \in {Any, <<"section", r.v>>}
      BY <1>5, <2>6, <2>7 DEF Agrees, IsLabel, IsImport
    <3>2. MeansOnly(g, j, <<IF absolute THEN "number" ELSE "section", u[j].pc>>)
      BY <2>2, <2>3, <2>7, <3>1 DEF MeansOnly
    <3>3. Loose(u, rd, g, j)
      BY <1>5, <2>2, <2>3, <2>4, <2>5, <2>7, <3>2 DEF Loose, IsDefined
    <3> QED  BY <1>1, <1>3, <1>5, <2>7, <3>3 DEF Kinds, IsAbs
  <2>8. CASE t[r.base].type = "import"
    <3>1. \A d \in 0 .. Len(defs) : KeyMeans(j, g[d]) = Any \/ \E v, b : KeyMeans(j, g[d]) = <<"external", v, b>>
      BY <1>5, <2>6, <2>8 DEF Agrees, IsLabel, IsImport
    <3>2. Loose(u, rd, g, j)
      BY <1>5, <2>8, <3>1 DEF Loose, IsDefined
    <3> QED  BY <1>1, <1>3, <1>5, <2>8, <3>2 DEF Kinds, IsAbs
  <2> QED  BY <2>2, <2>7, <2>8
<1> QED  BY <1>4, <1>5 DEF Changed

\* Behind undef_syms() nothing is visited yet.
LEMMA UndefFixState ==
  ASSUME NEW rd, Traced(table, defs, rd, atoms, line), Flags(table),
         \A k \in DOMAIN table : UndefError(table[k]) = {}
  PROVE  FixState(table, DOMAIN table)
<1> PICK t : t = table
  OBVIOUS
<1>1. ReadDefs(defs, rd, line) /\ Len(defs) \in Nat
  BY SeqDomain DEF Traced, ReadDefs
<1> PICK g : MeaningChain(g)
  BY <1>1, MeaningChainExists
<1>2. \A k \in DOMAIN t : Loose(t, rd, g, k)
  <2>1. \A k \in DOMAIN t : IsDefined(t, rd, g, TRUE, k)
    BY ReadIsDefined
  <2> QED  BY <2>1 DEF IsDefined, Loose
<1>3. Kinds(t)
  BY DEF Flags, Kinds, IsAbs
<1>4. \A k \in DOMAIN t : DefsOf(k) = {} <=> t[k].type = "import"
  <2>1. \A k \in DOMAIN t : SymbolTraced(t, defs, rd, k)
    BY DEF Traced
  <2>2. \A k : DefsOf(k) = Of(defs, k)
    BY DEF DefsOf, Of
  <2> QED  BY <2>1, <2>2 DEF SymbolTraced
<1>5. Seen(t)
  <2> SUFFICES ASSUME NEW k \in DOMAIN t, t[k].type = "import"
               PROVE  "XDEF" \notin t[k].flags /\ (auto_import \/ "EXPORT" \in t[k].flags)
    BY <1>4 DEF Seen
  <2>1. UndefError(t[k]) = {}
    OBVIOUS
  <2> QED  BY <2>1 DEF UndefError
<1>6. Wellformed(t)
  BY <1>2, <1>3, LooseKinds DEF Wellformed, Kinds, Expression
<1>7. Progress(t, DOMAIN t)
  BY <1>6, BadOrSane DEF Progress
<1> QED  BY <1>1, <1>2, <1>3, <1>4, <1>5, <1>7 DEF FixState

LEMMA FixedIs ==
  ASSUME NEW t, NEW k, SymRec(t[k]), NEW r, eval_expr(t, t[k].expr, FALSE, 0) = r
  PROVE  LET n == Fixed(t, k)
         IN  IF IsLabel(t, k) /\ IsAbs(t, k)
             THEN n.type = "expression" /\ n.expr = Number(t[k].pc) /\ n.flags = t[k].flags
             ELSE IF t[k].type = "expression" /\ ~r.cnst /\ r.kind = "ok"
             THEN n.type = t[r.base].type /\ n.pc = r.v /\ n.flags = t[k].flags
             ELSE n = t[k]
<1> PICK s, v, w, b : s = t[k] /\ v = Number(s.pc) /\ w = t[r.base].type /\ b = r.v
  OBVIOUS
<1>1. Fixed(t, k) = IF IsLabel(t, k) /\ IsAbs(t, k) THEN [s EXCEPT !.type = "expression", !.expr = v]
                    ELSE IF s.type = "expression" /\ ~r.cnst /\ r.kind = "ok" THEN [s EXCEPT !.type = w, !.pc = b]
                    ELSE s
  <2>1. Fixed(t, k) = LET q == eval_expr(t, s.expr, FALSE, 0)
                      IN  IF IsLabel(t, k) /\ IsAbs(t, k) THEN [s EXCEPT !.type = "expression", !.expr = v]
                          ELSE IF s.type = "expression" /\ ~q.cnst /\ q.kind = "ok"
                          THEN [s EXCEPT !.type = t[q.base].type, !.pc = q.v]
                          ELSE s
    BY Zenon DEF Fixed
  <2>2. eval_expr(t, s.expr, FALSE, 0) = r
    OBVIOUS
  <2> QED  BY <2>1, <2>2, Zenon
<1>2. /\ [s EXCEPT !.type = "expression", !.expr = v].type = "expression"
      /\ [s EXCEPT !.type = "expression", !.expr = v].expr = v
      /\ [s EXCEPT !.type = "expression", !.expr = v].flags = s.flags
  BY DEF SymRec
<1>3. /\ [s EXCEPT !.type = w, !.pc = b].type = w
      /\ [s EXCEPT !.type = w, !.pc = b].pc = b
      /\ [s EXCEPT !.type = w, !.pc = b].flags = s.flags
  BY DEF SymRec
<1>4. CASE IsLabel(t, k) /\ IsAbs(t, k)
  <2>1. Fixed(t, k) = [s EXCEPT !.type = "expression", !.expr = v]
    BY <1>1, <1>4, Zenon
  <2> QED  BY <1>2, <1>4, <2>1
<1>5. CASE ~(IsLabel(t, k) /\ IsAbs(t, k)) /\ s.type = "expression" /\ ~r.cnst /\ r.kind = "ok"
  <2>1. Fixed(t, k) = [s EXCEPT !.type = w, !.pc = b]
    BY <1>1, <1>5, Zenon
  <2> QED  BY <1>3, <1>5, <2>1
<1>6. CASE ~(IsLabel(t, k) /\ IsAbs(t, k)) /\ ~(s.type = "expression" /\ ~r.cnst /\ r.kind = "ok")
  <2>1. Fixed(t, k) = s
    BY <1>1, <1>6, Zenon
  <2> QED  BY <1>6, <2>1
<1> QED  BY <1>4, <1>5, <1>6

\* One symbol is visited, without an error.
LEMMA VisitFixState ==
  ASSUME NoMoves, FixState(table, fixing), NEW j \in fixing, IsTable(table), FixErrors(table, j) = {},
         ~(table[j].type = "expression" /\ eval_expr(table, table[j].expr, FALSE, 0).kind = "cycle"),
         NEW u, IsTable(u), DOMAIN u = DOMAIN table, u[j] = Fixed(table, j),
         \A k \in DOMAIN table \ {j} : u[k] = table[k]
  PROVE  FixState(u, fixing \ {j})
<1> PICK t, v, r : t = table /\ v = Value(table) /\ r = v[j]
  OBVIOUS
<1>1. /\ j \in DOMAIN t /\ Kinds(t) /\ Seen(t) /\ fixing \subseteq DOMAIN t
      /\ \A k \in fixing : t[k].type = "import" => DefsOf(k) = {}
      /\ Progress(t, fixing)
  BY DEF FixState
<1> PICK rd, g : /\ ReadDefs(defs, rd, line) /\ MeaningChain(g)
                 /\ \A k \in DOMAIN t : Loose(t, rd, g, k)
  BY DEF FixState
<1>2. Valued(t) /\ Wellformed(t)
  BY <1>1, LooseAgrees DEF Valued
<1>3. DOMAIN u = DOMAIN t /\ u[j] = Fixed(t, j) /\ \A k \in DOMAIN t \ {j} : u[k] = t[k]
  BY <1>1
<1>4. /\ SymRec(t[j]) /\ t[j].type \in {"import", "label", "expression", "string"}
      /\ (t[j].type = "label" => (IsAbs(t, j) <=> absolute))
  BY <1>1, LooseKinds DEF IsTable
<1>5. t[j].type = "expression" =>
        /\ r.kind # "cycle" /\ (~r.cnst => r.kind = "ok")
        /\ ~r.cnst => ~(IsImport(t, r.base) /\ "EXPORT" \in t[j].flags)
  <2> SUFFICES ASSUME t[j].type = "expression"
               PROVE  /\ r.kind # "cycle" /\ (~r.cnst => r.kind = "ok")
                      /\ ~r.cnst => ~(IsImport(t, r.base) /\ "EXPORT" \in t[j].flags)
    OBVIOUS
  <2>1. eval_expr(t, t[j].expr, FALSE, 0) = r
    <3>1. r = EvalOf(t, v, t[j].expr)
      BY <1>1, <1>2, ValueFixed, ExpressionValue DEF Expression
    <3> QED  BY <3>1 DEF eval_expr, EvalOf, Value
  <2>2. r.kind # "cycle"
    BY <2>1
  <2>3. FixErrors(t, j) = IF r.cnst THEN {} ELSE IF r.kind # "ok" THEN {53}
                          ELSE IF IsImport(t, r.base) /\ "EXPORT" \in t[j].flags THEN {81} ELSE {}
    BY <2>1 DEF FixErrors
  <2> QED  BY <2>2, <2>3
<1>6. \/ Changed(t, u, j) /\ (u[j].type # "expression" => u[j].pc = r.v)
      \/ u = t /\ (t[j].type = "expression" => r.cnst) /\ (t[j].type = "label" => ~absolute)
  <2>1. CASE IsLabel(t, j) /\ IsAbs(t, j)
    <3>1. Fixed(t, j).type = "expression" /\ Fixed(t, j).expr = Number(t[j].pc) /\ Fixed(t, j).flags = t[j].flags
      BY <1>4, <2>1, FixedIs
    <3>2. u[j].type = "expression" /\ u[j].expr = Number(t[j].pc) /\ u[j].flags = t[j].flags
      BY <1>3, <3>1
    <3> QED  BY <1>1, <1>3, <2>1, <3>2 DEF Changed, Like
  <2>2. CASE t[j].type = "expression" /\ ~r.cnst /\ r.kind = "ok"
    <3>1. Expression(t, j) /\ ~IsLabel(t, j)
      BY <2>2 DEF Expression, IsLabel
    <3>2. eval_expr(t, t[j].expr, FALSE, 0) = r
      <4>1. r = EvalOf(t, v, t[j].expr)
        BY <1>1, <1>2, <3>1, ValueFixed, ExpressionValue
      <4> QED  BY <4>1 DEF eval_expr, EvalOf, Value
    <3>3. Fixed(t, j).type = t[r.base].type /\ Fixed(t, j).pc = r.v /\ Fixed(t, j).flags = t[j].flags
      BY <1>4, <2>2, <3>1, <3>2, FixedIs
    <3>4. u[j].type = t[r.base].type /\ u[j].pc = r.v /\ u[j].flags = t[j].flags
      BY <1>3, <3>3
    <3> QED  BY <1>1, <1>3, <2>2, <3>1, <3>4 DEF Changed, Like
  <2>3. CASE ~(IsLabel(t, j) /\ IsAbs(t, j)) /\ ~(t[j].type = "expression" /\ ~r.cnst)
    <3>1. t[j].type = "expression" => eval_expr(t, t[j].expr, FALSE, 0) = r
      <4>1. t[j].type = "expression" => r = EvalOf(t, v, t[j].expr)
        BY <1>1, <1>2, ValueFixed, ExpressionValue DEF Expression
      <4> QED  BY <4>1 DEF eval_expr, EvalOf, Value
    <3>2. Fixed(t, j) = t[j]
      BY <2>3, <3>1 DEF Fixed
    <3>3. u = t
      <4>1. \A k \in DOMAIN t : u[k] = t[k]
        BY <1>3, <3>2
      <4>2. u = [k \in DOMAIN u |-> u[k]] /\ t = [k \in DOMAIN t |-> t[k]]
        BY DEF IsTable
      <4> QED  BY <1>3, <4>1, <4>2
    <3> QED  BY <1>4, <2>3, <3>3 DEF IsLabel
  <2> QED  BY <1>5, <2>1, <2>2, <2>3
<1>7. (\A k \in DOMAIN u : Loose(u, rd, g, k)) /\ Kinds(u)
  BY <1>1, <1>6, ChangedLoose
<1>8. \A k \in DOMAIN t : u[k].flags = t[k].flags
  BY <1>3, <1>6 DEF Changed
<1>9. Seen(u)
  BY <1>1, <1>3, <1>8 DEF Seen
<1>10. \A k \in fixing \ {j} : u[k].type = "import" => DefsOf(k) = {}
  BY <1>1, <1>3
<1>11. Wellformed(u)
  BY <1>7, LooseKinds DEF Wellformed, Kinds, Expression
<1>12. Progress(u, fixing \ {j})
  <2>1. ASSUME NEW x \in fixing, Bad(t, x) PROVE x # j /\ Bad(u, x)
    <3>1. x # j
      <4>1. /\ t[x].type = "expression"
            /\ v[x].kind = "cycle" \/ (~v[x].cnst /\ v[x].kind # "ok")
        BY <1>1, <1>2, <2>1, LooseKinds, BadExpression
      <4> QED  BY <1>5, <4>1
    <3> QED  BY <1>1, <1>2, <1>6, <1>11, <2>1, <3>1, BadKept
  <2>2. ASSUME SaneSet(t, DOMAIN t), \A k \in DOMAIN t \ fixing : Visited(t, k)
        PROVE  SaneSet(u, DOMAIN u) /\ \A k \in DOMAIN u \ (fixing \ {j}) : Visited(u, k)
    <3> PICK C : C = DOMAIN t
      OBVIOUS
    <3>1. SaneSet(u, C) /\ \A k \in C : Value(u)[k].cnst = v[k].cnst
      <4>1. CASE u = t
        BY <2>2, <4>1
      <4>2. CASE Changed(t, u, j)
        <5>1. SaneSet(u, C)
          BY <1>2, <1>11, <2>2, <4>2, SaneSetKept
        <5>2. \A k \in C : Value(u)[k].cnst = Value(t)[k].cnst
          BY <1>2, <1>11, <2>2, <4>2, SaneSetKept
        <5> QED  BY <5>1, <5>2
      <4> QED  BY <1>6, <4>1, <4>2
    <3>2. ASSUME NEW k \in DOMAIN t \ fixing, k # j PROVE Visited(u, k)
      <4>1. u[k] = t[k] /\ Visited(t, k)
        BY <1>3, <2>2, <3>2
      <4> QED  BY <3>1, <4>1 DEF Visited
    <3>3. Visited(u, j)
      <4>1. CASE u = t /\ (t[j].type = "expression" => r.cnst) /\ (t[j].type = "label" => ~absolute)
        BY <1>1, <4>1 DEF Visited
      <4>2. CASE IsLabel(t, j) /\ IsAbs(t, j) /\ u[j].type = "expression"
        <5>1. r.cnst
          <6>1. r = ValueOf(t, v, j)
            BY <1>1, <1>2, ValueFixed
          <6>2. r = [cnst |-> IsAbs(t, j), v |-> t[j].pc, kind |-> "ok", base |-> j]
            BY <4>2, <6>1, Zenon DEF ValueOf, SymbolValue, IsLabel
          <6> QED  BY <4>2, <6>2
        <5> QED  BY <1>1, <3>1, <4>2, <5>1 DEF Visited
      <4>3. CASE Expression(t, j) /\ ~r.cnst /\ r.kind = "ok" /\ u[j].type = t[r.base].type
        <5>1. OkValue(t, r)
          BY <1>1, <1>2 DEF Valued
        <5>2. t[r.base].type \in {"label", "import"} /\ (t[r.base].type = "label" => ~absolute)
          BY <4>3, <5>1 DEF OkValue
        <5>3. t[j].type = "expression"
          <6>1. t[j].type # "string"
            BY <1>1, <1>2, <4>3, StringValue DEF Kinds
          <6> QED  BY <1>4, <4>3, <6>1 DEF Expression
        <5>4. "EXPORT" \in t[j].flags => t[r.base].type # "import"
          BY <1>5, <4>3, <5>3 DEF IsImport
        <5> QED  BY <1>1, <1>8, <4>3, <5>2, <5>4 DEF Visited
      <4> QED  BY <1>6, <4>1, <4>2, <4>3 DEF Changed
    <3> QED  BY <1>3, <3>1, <3>2, <3>3
  <2> QED  BY <1>1, <2>1, <2>2 DEF Progress
<1> QED  BY <1>1, <1>3, <1>7, <1>9, <1>10, <1>12 DEF FixState

----------------------------------------------------------------------------
(* SymbolsOfObject.                                                        *)

FixInv ==
  /\ line \in Nat /\ line <= MaxLines
  /\ phase = "done" => fixing = {}
  /\ (phase \in {"fix", "done"} /\ errors = {} /\ NoMoves) => FixState(table, fixing)

\* What is said of the symbols only depends on the definitions.
LEMMA DefinitionsKept ==
  ASSUME defs' = defs, absolute' = absolute, line' = line, auto_import' = auto_import
  PROVE  /\ \A k : DefsOf(k)' = DefsOf(k)
         /\ \A g : MeaningChain(g)' <=> MeaningChain(g)
         /\ \A g, k : KeyMeans(k, g)' = KeyMeans(k, g)
         /\ \A rd : ReadDefs(defs, rd, line)' <=> ReadDefs(defs, rd, line)
<1>1. ASSUME NEW k PROVE DefsOf(k)' = DefsOf(k)
  BY DEF DefsOf
<1>2. Meanings' = Meanings
  BY DEF Meanings, DefMeans, ExprMeans, NameMeans, Before, DefsOf, Latest, Any, Combined, NumberIs
<1>3. ASSUME NEW i, NEW mn PROVE DefMeans(i, mn)' = DefMeans(i, mn)
  BY DEF DefMeans, ExprMeans, NameMeans, Before, DefsOf, Latest, Any, Combined, NumberIs
<1>4. ASSUME NEW g PROVE MeaningChain(g)' <=> MeaningChain(g)
  BY <1>2, <1>3 DEF MeaningChain, Any
<1>5. ASSUME NEW g, NEW k PROVE KeyMeans(k, g)' = KeyMeans(k, g)
  BY DEF KeyMeans, DefsOf, Latest
<1>6. ASSUME NEW rd PROVE ReadDefs(defs, rd, line)' <=> ReadDefs(defs, rd, line)
  OBVIOUS
<1> QED  BY <1>1, <1>4, <1>5, <1>6

LEMMA LooseKept ==
  ASSUME defs' = defs, absolute' = absolute, line' = line, auto_import' = auto_import,
         NEW rd, NEW g, NEW k
  PROVE  Loose(table, rd, g, k)' <=> Loose(table', rd, g, k)
<1>1. \A m : MeansOnly(g, k, m)' <=> MeansOnly(g, k, m)
  BY DefinitionsKept DEF MeansOnly, Any
<1>2. HasValue(table, rd, g, k)' <=> HasValue(table', rd, g, k)
  BY <1>1, DefinitionsKept DEF HasValue, Latest, NumberIs
<1> QED  BY <1>1, <1>2, DefinitionsKept DEF Loose, IsDefined, Any

LEMMA FixStateKept ==
  ASSUME defs' = defs, absolute' = absolute, line' = line, auto_import' = auto_import,
         FixState(table', fixing')
  PROVE  FixState(table, fixing)'
<1>1. \E rd, g : ReadDefs(defs, rd, line)' /\ MeaningChain(g)' /\ \A k \in DOMAIN table' : Loose(table, rd, g, k)'
  BY DefinitionsKept, LooseKept DEF FixState
<1>2. Kinds(table)' <=> Kinds(table')
  BY DEF Kinds, IsAbs, IsNumber
<1>3. Seen(table)' <=> Seen(table')
  BY DefinitionsKept DEF Seen
<1>4. \A k : Visited(table, k)' <=> Visited(table', k)
  BY DefinitionsKept DEF Visited
<1>5. Progress(table, fixing)' <=> Progress(table', fixing')
  BY <1>4 DEF Progress
<1> QED  BY <1>1, <1>2, <1>3, <1>5, DefinitionsKept DEF FixState

LEMMA StepFixInv ==
  ASSUME IInv, ReadInv, FlagsInv, FixInv, [Next]_vars, IInv'
  PROVE  FixInv'
<1>1. CASE ReadLine
  <2>1. phase' = "parse" /\ line < MaxLines /\ line' = line + 1
    BY <1>1 DEF ReadLine, EquLine, SetLine, EqusLine, LabelLine, BindLine, DataLine, ModuleLine, ModendLine, Reading
  <2> QED  BY <2>1, SymbolsAssumption DEF FixInv
<1>2. CASE EndOfSource \/ Resolve \/ Assemble
  <2>1. line' = line /\ phase' # "done" /\ (phase' = "fix" => errors' # {})
    BY <1>2 DEF EndOfSource, Resolve, Assemble, Untouched
  <2> QED  BY <2>1 DEF FixInv
<1>3. CASE UndefSyms
  <2>1. /\ phase = "undef" /\ phase' = "fix" /\ fixing' = DOMAIN table /\ table' = table
        /\ defs' = defs /\ absolute' = absolute /\ line' = line /\ auto_import' = auto_import
        /\ errors' = errors \cup (IF errors # {} THEN {} ELSE UNION {UndefError(table[k]) : k \in DOMAIN table})
    BY <1>3 DEF UndefSyms, Untouched
  <2>2. ASSUME errors' = {} PROVE FixState(table, fixing)'
    <3>1. errors = {} /\ \A k \in DOMAIN table : UndefError(table[k]) = {}
      BY <2>1, <2>2
    <3> PICK rd : Traced(table, defs, rd, atoms, line)
      BY <2>1, <3>1 DEF ReadInv, Read
    <3>2. Flags(table)
      BY <2>1 DEF FlagsInv
    <3>3. FixState(table, DOMAIN table)
      BY <3>1, <3>2, UndefFixState
    <3> QED  BY <2>1, <3>3, FixStateKept
  <2> QED  BY <2>1, <2>2 DEF FixInv
<1>4. CASE FixLabel
  <2>1. PICK j \in fixing :
          /\ IF table[j].type = "expression" /\ eval_expr(table, table[j].expr, FALSE, 0).kind = "cycle"
             THEN phase' = "fatal" /\ UNCHANGED <<table, errors>>
             ELSE /\ table' = [table EXCEPT ![j] = Fixed(table, j)]
                  /\ errors' = errors \cup FixErrors(table, j)
                  /\ UNCHANGED phase
          /\ fixing' = fixing \ {j}
    BY <1>4 DEF FixLabel
  <2>2. /\ phase = "fix" /\ defs' = defs /\ absolute' = absolute /\ line' = line /\ auto_import' = auto_import
        /\ phase' \in {"fix", "fatal"}
    BY <1>4, <2>1 DEF FixLabel, Untouched
  <2>3. IsTable(table) /\ IsTable(table')
    BY DEF IInv, Shape
  <2>4. ASSUME phase' = "fix", errors' = {}, NoMoves' PROVE FixState(table, fixing)'
    <3>1. /\ ~(table[j].type = "expression" /\ eval_expr(table, table[j].expr, FALSE, 0).kind = "cycle")
          /\ errors = {} /\ FixErrors(table, j) = {}
      BY <2>1, <2>4
    <3>2. DOMAIN table' = DOMAIN table
      BY <1>4, <2>3, FixedNames
    <3>3. NoMoves
      BY <2>2, <2>4, <3>2, NoMovesKept
    <3>4. FixState(table, fixing)
      BY <2>2, <3>1, <3>3 DEF FixInv
    <3>5. j \in DOMAIN table
      BY <3>4 DEF FixState
    <3>6. table'[j] = Fixed(table, j) /\ \A k \in DOMAIN table \ {j} : table'[k] = table[k]
      <4> PICK n : n = Fixed(table, j)
        OBVIOUS
      <4>1. table' = [table EXCEPT ![j] = n]
        BY <2>1, <3>1
      <4> QED  BY <2>3, <3>5, <4>1 DEF IsTable
    <3> PICK u : u = table'
      OBVIOUS
    <3>7. FixState(u, fixing \ {j})
      BY <2>3, <3>1, <3>2, <3>3, <3>4, <3>6, VisitFixState
    <3> QED  BY <2>1, <2>2, <3>7, FixStateKept
  <2> QED  BY <2>2, <2>4 DEF FixInv
<1>5. CASE EndOfFix \/ UNCHANGED vars
  <2>1. /\ table' = table /\ fixing' = fixing /\ errors' = errors
        /\ defs' = defs /\ absolute' = absolute /\ line' = line /\ auto_import' = auto_import
        /\ phase' = phase \/ (phase = "fix" /\ phase' = "done" /\ fixing = {})
    BY <1>5 DEF EndOfFix, Untouched, vars
  <2>2. NoMoves' => NoMoves
    BY <2>1, NoMovesKept
  <2>3. FixState(table, fixing) => FixState(table, fixing)'
    BY <2>1, FixStateKept
  <2> QED  BY <2>1, <2>2, <2>3 DEF FixInv
<1> QED  BY <1>1, <1>2, <1>3, <1>4, <1>5 DEF Next

LEMMA NameMeansAtEnd ==
  ASSUME NEW rd, ReadDefs(defs, rd, line), line \in Nat, line <= MaxLines, NEW k, NEW mn
  PROVE  NameMeans(k, MaxLines + 1, mn) = KeyMeans(k, mn)
<1>1. \A i \in DOMAIN defs : defs[i].line < MaxLines + 1
  <2>1. \A i \in DOMAIN defs : defs[i].line \in 1 .. line
    BY DEF ReadDefs, InOrder
  <2> QED  BY <2>1, SymbolsAssumption
<1>2. Before(k, MaxLines + 1) = DefsOf(k)
  BY <1>1 DEF Before, DefsOf
<1>3. CASE DefsOf(k) = {}
  <2>1. Cardinality(DefsOf(k)) = 0
    BY <1>3, FS_EmptySet
  <2> QED  BY <1>2, <1>3, <2>1 DEF NameMeans, KeyMeans
<1>4. CASE DefsOf(k) # {}
  BY <1>2, <1>4 DEF NameMeans, KeyMeans
<1> QED  BY <1>3, <1>4

\* The place of a symbol in the object file, as SymbolsOfObject has it.
ObjectValue(t, k) ==
  CASE t[k].type = "label"  -> <<"section", t[k].pc>>
    [] t[k].type = "import" -> <<"external">>
    [] OTHER -> Place(t, eval_expr(t, t[k].expr, FALSE, 0))

\* When all symbols were visited and none was reported, they are what they mean.
LEMMA SymbolOfObject ==
  ASSUME FixState(table, {}), NoMoves, line \in Nat, line <= MaxLines, NEW k \in DOMAIN table,
         NEW m, m = NameMeans(k, MaxLines + 1, Meanings), NEW value, value = ObjectValue(table, k)
  PROVE  /\ (m # Any /\ value[1] # "external") => value = m
         /\ (m # Any /\ value[1] = "external") => m[1] = "external"
         /\ (value[1] = "external" /\ "EXPORT" \in table[k].flags) => DefsOf(k) = {}
<1> PICK t, v : t = table /\ v = Value(table)
  OBVIOUS
<1> PICK rd, g : /\ ReadDefs(defs, rd, line) /\ MeaningChain(g)
                 /\ \A x \in DOMAIN t : Loose(t, rd, g, x)
  BY DEF FixState
<1>1. SaneSet(t, DOMAIN t) /\ Visited(t, k) /\ Kinds(t)
  BY DEF FixState, Progress
<1>2. Valued(t) /\ Wellformed(t) /\ \A d \in 0 .. Len(defs) : Agreeing(FALSE, v, g[d])
  BY <1>1, LooseAgrees DEF Valued
<1> PICK d, mn : d = Len(defs) /\ mn = g[Len(defs)]
  OBVIOUS
<1>3. d \in 0 .. Len(defs) /\ mn = Meanings
  BY SeqDomain DEF ReadDefs, MeaningChain
<1>4. m = KeyMeans(k, g[d])
  <2>1. m = KeyMeans(k, mn)
    BY <1>3, NameMeansAtEnd
  <2> QED  BY <2>1
<1>5. t[k].type \in {"import", "label", "expression", "string"}
  BY LooseKinds
<1>6. CASE t[k].type = "label"
  <2>1. value = <<"section", t[k].pc>> /\ ~absolute
    BY <1>1, <1>6 DEF ObjectValue, Visited
  <2>2. MeansOnly(g, k, <<IF absolute THEN "number" ELSE "section", t[k].pc>>)
    BY <1>6 DEF Loose, IsDefined
  <2>3. m \in {Any, <<"section", t[k].pc>>}
    BY <1>3, <1>4, <2>1, <2>2 DEF MeansOnly
  <2> QED  BY <2>1, <2>3
<1>7. CASE t[k].type = "import"
  <2>1. value = <<"external">>
    BY <1>7 DEF ObjectValue
  <2>2. m = Any \/ \E x, b : m = <<"external", x, b>>
    BY <1>3, <1>4, <1>7 DEF Loose, IsDefined
  <2>3. "EXPORT" \in t[k].flags => DefsOf(k) = {}
    BY <1>1, <1>7 DEF Visited
  <2> QED  BY <2>1, <2>2, <2>3
<1>8. CASE t[k].type \in {"expression", "string"}
  <2> PICK r : r = v[k]
    OBVIOUS
  <2>1. Expression(t, k) /\ t[k].type \notin {"label", "import"}
    BY <1>8 DEF Expression
  <2>2. r.cnst
    <3>1. CASE t[k].type = "expression"
      BY <1>1, <3>1 DEF Visited
    <3>2. CASE t[k].type = "string"
      BY <1>1, <1>2, <2>1, <3>2, StringValue DEF Kinds
    <3> QED  BY <1>8, <3>1, <3>2
  <2>3. r.kind # "cycle"
    BY <1>1 DEF SaneSet, Sane
  <2>4. eval_expr(t, t[k].expr, FALSE, 0) = r
    <3>1. r = EvalOf(t, v, t[k].expr)
      BY <1>2, <2>1, ValueFixed, ExpressionValue
    <3> QED  BY <3>1 DEF eval_expr, EvalOf, Value
  <2>5. value = Place(t, r)
    BY <2>1, <2>4 DEF ObjectValue
  <2>6. value = <<"number", r.v>>
    BY <2>2, <2>5 DEF Place
  <2>7. m # Any => m = NumberIs(r.v)
    <3>1. m # Any => Agrees(t, FALSE, r, m)
      BY <1>2, <1>3, <1>4, <2>3 DEF Agreeing
    <3> QED  BY <2>2, <3>1 DEF Agrees
  <2> QED  BY <2>6, <2>7 DEF NumberIs
<1> QED  BY <1>5, <1>6, <1>7, <1>8

LEMMA FixInvObject == FixInv => SymbolsOfObject
<1> SUFFICES ASSUME FixInv, Ended, NoMoves, NEW k \in DOMAIN table
             PROVE  LET means == NameMeans(k, MaxLines + 1, Meanings)
                        flags == table[k].flags
                        value == ObjectValue(table, k)
                    IN  /\ (means # Any /\ value[1] # "external") => value = means
                        /\ (means # Any /\ value[1] = "external") => means[1] = "external"
                        /\ (value[1] = "external" /\ "EXPORT" \in flags) => DefsOf(k) = {}
                        /\ "XDEF" \in flags => DefsOf(k) # {}
                        /\ (~auto_import /\ DefsOf(k) = {}) => "EXPORT" \in flags
  BY Zenon DEF SymbolsOfObject, NoMoves, ObjectValue
<1> PICK m, value : m = NameMeans(k, MaxLines + 1, Meanings) /\ value = ObjectValue(table, k)
  OBVIOUS
<1>1. fixing = {} /\ line \in Nat /\ line <= MaxLines /\ FixState(table, {})
  BY DEF FixInv, Ended
<1>2. /\ (m # Any /\ value[1] # "external") => value = m
      /\ (m # Any /\ value[1] = "external") => m[1] = "external"
      /\ (value[1] = "external" /\ "EXPORT" \in table[k].flags) => DefsOf(k) = {}
  BY <1>1, SymbolOfObject
<1>3. DefsOf(k) = {} => "XDEF" \notin table[k].flags /\ (auto_import \/ "EXPORT" \in table[k].flags)
  BY <1>1 DEF FixState, Seen
<1> QED  BY <1>2, <1>3

ObjectInv == IInv /\ menu \in Menus /\ ReadInv /\ FlagsInv /\ FixInv

LEMMA InitObjectInv == Init => ObjectInv
<1> SUFFICES ASSUME Init PROVE ObjectInv
  OBVIOUS
<1>1. IInv /\ ReadInv /\ FlagsInv
  BY InitIInv, InitReadInv, InitFlags
<1>2. FixInv /\ menu \in Menus
  BY SymbolsAssumption DEF Init, FixInv
<1> QED  BY <1>1, <1>2 DEF ObjectInv

LEMMA StepObjectInv == ObjectInv /\ [Next]_vars => ObjectInv'
BY StepIInv, MenuKept, StepReadInv, StepFlags, StepFixInv DEF ObjectInv

\* For every source: what fix_labels() leaves of the symbols of a program without
\* errors, in whatever order it turned them into each other, is what the object
\* file has to say of them.  What is defined has the value of its last definition;
\* what is exported is defined by this object; what must be defined is.
THEOREM SymbolsOfObjectHolds == Spec => []SymbolsOfObject
<1>1. ObjectInv => SymbolsOfObject
  BY FixInvObject DEF ObjectInv
<1> QED  BY <1>1, InitObjectInv, StepObjectInv, PTL DEF Spec
=============================================================================
