------------------------------ MODULE Symbols ------------------------------
(***************************************************************************)
(* The life of a symbol: mentioned, defined, redefined, imported, exported  *)
(* while the source is read; then the final walk over the data that uses     *)
(* it, undef_syms() and fix_labels() (symbol.c, expr.c, vasm.c, and the      *)
(* lines of PSI-X that define symbols).                                     *)
(*                                                                         *)
(* A line of the source is an element of `menu`, chosen anew for each line. *)
(* The source has one section.  A value is a sum: plus a symbol, minus a     *)
(* symbol, and a number.                                                    *)
(***************************************************************************)
EXTENDS Integers, Sequences, FiniteSets

CONSTANTS
  Names,       \* names of global symbols
  Locals,      \* names of local symbols
  Menus,       \* each a set of lines a source may have
  MaxLines,    \* bound: lines of a source
  INLSTACKSIZE \* nesting of modules

\* The key of a symbol in the hash table: <<name>> for a global one,
\* <<scope, name>> for a local one.
NoSym == <<"no", "symbol", "at all">>

\* The scope of local labels: last_global_label.
NoScope       == <<>>
LabelScope(n) == <<n>>
InlScope(id)  == <<"module", id>>

\* What a line writes for a value; the value of an equs is the length of its text.
Sums == [plus : Names \cup Locals \cup {NoSym}, minus : Names \cup Locals \cup {NoSym}, add : Int]

ASSUME SymbolsAssumption ==
  /\ Names \cap Locals = {}
  /\ MaxLines \in Nat /\ INLSTACKSIZE \in Nat \ {0}
  /\ \A m \in Menus : \A l \in m :
       /\ l.kind \in {"equ", "set", "data"} => l.expr \in Sums
       /\ l.kind = "equs" => l.expr \in [plus : {NoSym}, minus : {NoSym}, add : Nat]
       /\ l.kind \in {"equ", "label"} => l.flags \subseteq {"EXPORT", "XDEF"}
       /\ l.kind = "bind" => l.flags \subseteq {"EXPORT", "XDEF", "XREF"}

VARIABLES
  menu,              \* the lines this source is made of
  absolute,          \* the section has an address (ORG)
  auto_import,       \* undefined symbols are external ones
  phase,             \* "parse", "resolve", "assemble", "undef", "fix", "done", "fatal" or "ierror"
  line,              \* lines read so far
  table,             \* the symbols of symhash: a function on their keys
  last_global_label,
  saved_last_global_label,
  inline_stack, next_id,
  atoms,             \* labels and data of the section
  errors, warnings,  \* numbers of the messages given so far
  object,            \* what assemble() made of each data atom
  fixing,            \* the symbols fix_labels() has still to visit
  defs,              \* history: the lines that defined a symbol
  scopes             \* history: the scopes the modules around a line left and entered

vars == <<menu, absolute, auto_import, phase, line, table, last_global_label, saved_last_global_label,
          inline_stack, next_id, atoms, errors, warnings, object, fixing, defs, scopes>>

----------------------------------------------------------------------------
(* The symbol table.                                                       *)

Number(v) == [plus |-> NoSym, minus |-> NoSym, add |-> v]
IsNumber(e) == e.plus = NoSym /\ e.minus = NoSym

Defined(t, k) == k \in DOMAIN t
Enter(t, k, s) == [x \in DOMAIN t \cup {k} |-> IF x = k THEN s ELSE t[x]]

\* add_symbol(): the list of symbols is a stack, nr is the place in it.
NewSymbol(t) ==
  [type |-> "import", flags |-> {}, expr |-> Number(0), pc |-> 0, nr |-> Cardinality(DOMAIN t)]

new_import(t, k) == IF Defined(t, k) THEN t ELSE Enter(t, k, NewSymbol(t))

Key(i) == IF i \in Locals THEN <<last_global_label, i>> ELSE <<i>>
KeyOrNone(i) == IF i = NoSym THEN NoSym ELSE Key(i)

\* An expression with the keys of the names it is written with.
Keyed(e) == [plus |-> KeyOrNone(e.plus), minus |-> KeyOrNone(e.minus), add |-> e.add]

\* primary_expr(): a name that is not known yet becomes an import.
Mentioned(t, e) ==
  LET first == IF e.plus = NoSym THEN t ELSE new_import(t, e.plus)
  IN  IF e.minus = NoSym THEN first ELSE new_import(first, e.minus)

\* Mutant: a name is replaced by its value whenever it is an expression.
Constant_MutAnyExpression(t, k) == k # NoSym /\ t[k].type = "expression"

\* simplify_expr() replaces a symbol by its value when that is a number.
Constant(t, k) == k # NoSym /\ t[k].type \in {"expression", "string"} /\ IsNumber(t[k].expr)

Simplified(t, e) ==
  LET value(k) == IF Constant(t, k) THEN t[k].expr.add ELSE 0
      kept(k)  == IF Constant(t, k) THEN NoSym ELSE k
  IN  [plus |-> kept(e.plus), minus |-> kept(e.minus), add |-> e.add + value(e.plus) - value(e.minus)]

Flagged(t, k, f) == [t EXCEPT ![k].flags = @ \cup f]

\* An expression or a string takes the place of what the symbol was.
Assigned(t, k, type, e) ==
  LET known == new_import(t, k) IN [known EXCEPT ![k].type = type, ![k].expr = e]

\* The messages of new_abs(): 67 for an equate, 5 is a warning.
AbsErrors(t, k)   == IF Defined(t, k) /\ "EQUATE" \in t[k].flags THEN {67} ELSE {}
AbsWarnings(t, k) == IF Defined(t, k) /\ t[k].type \notin {"import", "expression"} THEN {5} ELSE {}

\* Mutant: only labels count as defined.
check_symbol_MutLabels(t, k) == IF Defined(t, k) /\ t[k].type = "label" THEN {67} ELSE {}

check_symbol(t, k) == IF Defined(t, k) /\ t[k].type # "import" THEN {67} ELSE {}

----------------------------------------------------------------------------
(* Evaluation of expressions: eval_expr() and find_base().                  *)
(* cnst, v: what eval_expr() returns; base and kind: what find_base() finds, *)
(* "cycle" when a symbol is met again while it is being evaluated.           *)

IsLabel(t, k)  == t[k].type = "label"
IsImport(t, k) == t[k].type = "import"
IsAbs(t, k)    == "ABSLABEL" \in t[k].flags

Operand(sv, k, n) ==
  IF k = NoSym THEN [cnst |-> TRUE, v |-> n, kind |-> "illegal", base |-> NoSym] ELSE sv[k]

\* The cases of eval_expr() for l - r.
Difference(t, l, r, insec) ==
  IF (l.cnst /\ r.cnst) \/ r.kind # "ok" \/ ~IsLabel(t, r.base) THEN "plain"
  ELSE IF l.kind # "ok" THEN (IF IsAbs(t, r.base) THEN "constant" ELSE "plain")
  ELSE IF IsLabel(t, l.base) THEN "constant"
  ELSE IF insec /\ IsImport(t, l.base) THEN "pcrel" ELSE "plain"

\* find_base() of l - r.
SubKind(t, l, r, insec) ==
  IF l.kind # "ok" THEN "illegal"
  ELSE IF r.cnst THEN "ok"
  ELSE IF r.kind = "ok" /\ IsLabel(t, r.base) /\ insec THEN "pcrel" ELSE "illegal"

\* l - r
Subtracted(t, l, r, insec, pc) ==
  LET difference == Difference(t, l, r, insec)
  IN  [cnst |-> (l.cnst /\ r.cnst) \/ difference = "constant",
       v    |-> l.v - r.v + (IF difference = "pcrel" THEN pc ELSE 0),
       kind |-> SubKind(t, l, r, insec),
       base |-> l.base]

\* l + n
Added(l, n) ==
  [cnst |-> l.cnst, v |-> l.v + n, kind |-> IF n # 0 /\ l.kind = "pcrel" THEN "illegal" ELSE l.kind,
   base |-> l.base]

InEval == [cnst |-> FALSE, v |-> 0, kind |-> "cycle", base |-> NoSym]

EvalWith(t, sv, e, insec, pc) ==
  LET l == Operand(sv, e.plus, e.add)
      n == IF e.plus = NoSym THEN 0 ELSE e.add
  IN  IF "cycle" \in {Operand(sv, k, 0).kind : k \in {e.plus, e.minus}} THEN InEval
      ELSE IF e.minus = NoSym THEN Added(l, n)
      ELSE Added(Subtracted(t, l, sv[e.minus], insec, pc), n)

\* A symbol, when the value of those in its expression is known.
SymbolValue(t, sv, k, insec, pc) ==
  CASE t[k].type = "label"  -> [cnst |-> IsAbs(t, k), v |-> t[k].pc, kind |-> "ok", base |-> k]
    [] t[k].type = "import" -> [cnst |-> FALSE, v |-> 0, kind |-> "ok", base |-> k]
    [] OTHER -> EvalWith(t, sv, t[k].expr, insec, pc)

\* The value of every symbol, evaluated through at most d others.
SymbolValues(t, insec, pc) ==
  LET values[d \in 0 .. Cardinality(DOMAIN t)] ==
        [k \in DOMAIN t |-> IF d = 0 THEN InEval ELSE SymbolValue(t, values[d - 1], k, insec, pc)]
  IN  values[Cardinality(DOMAIN t)]

eval_expr(t, e, insec, pc) == EvalWith(t, SymbolValues(t, insec, pc), e, insec, pc)

----------------------------------------------------------------------------
(* Reading the source.                                                     *)

Init ==
  /\ menu \in Menus
  /\ absolute \in BOOLEAN /\ auto_import \in BOOLEAN
  /\ phase = "parse" /\ line = 0
  /\ table = [k \in {} |-> NewSymbol(<<>>)]
  /\ last_global_label = NoScope /\ saved_last_global_label = NoScope
  /\ inline_stack = <<>> /\ next_id = 0
  /\ atoms = <<>> /\ object = <<>> /\ fixing = {}
  /\ errors = {} /\ warnings = {}
  /\ defs = <<>> /\ scopes = <<NoScope>>

\* The places of the data in the section.
Data == {i \in DOMAIN atoms : atoms[i].what = "data"}

\* The pc of the section: a datum is one unit long.
Pc == Cardinality(Data)

\* One line of the source, of the given kind.
Reading(kind, l) ==
  /\ phase = "parse" /\ line < MaxLines
  /\ l \in menu /\ l.kind = kind
  /\ line' = line + 1
  /\ UNCHANGED <<menu, absolute, auto_import, phase, object, fixing>>

ScopeKept == UNCHANGED <<last_global_label, saved_last_global_label, inline_stack, next_id, scopes>>

Define(k, how, e) == defs' = Append(defs, [key |-> k, how |-> how, expr |-> e, line |-> line', pc |-> Pc])

\* <symbol> equ <expression>: new_equate().  With a double colon it is exported.
EquLine(l) ==
  LET k     == Key(l.name)
      e     == Keyed(l.expr)
      known == Mentioned(table, e)
  IN  /\ Reading("equ", l)
      /\ table' = Flagged(Assigned(known, k, "expression", Simplified(known, e)), k, {"EQUATE"} \cup l.flags)
      /\ errors' = errors \cup check_symbol(known, k) \cup AbsErrors(known, k)
      /\ warnings' = warnings \cup AbsWarnings(known, k)
      /\ Define(k, "equ", e)
      /\ ScopeKept /\ UNCHANGED atoms

\* <symbol> set <expression>: new_abs().
SetLine(l) ==
  LET k     == Key(l.name)
      e     == Keyed(l.expr)
      known == Mentioned(table, e)
  IN  /\ Reading("set", l)
      /\ table' = Assigned(known, k, "expression", Simplified(known, e))
      /\ errors' = errors \cup AbsErrors(known, k)
      /\ warnings' = warnings \cup AbsWarnings(known, k)
      /\ Define(k, "set", e)
      /\ ScopeKept /\ UNCHANGED atoms

\* <symbol> equs "text": new_strsym(); the value is the length of the text.
EqusLine(l) ==
  LET k == Key(l.name)
  IN  /\ Reading("equs", l)
      /\ table' = Assigned(table, k, "string", l.expr)
      /\ errors' = errors \cup AbsErrors(table, k)
                     \cup (IF Defined(table, k) /\ table[k].type # "string" THEN {89} ELSE {})
      /\ Define(k, "equs", l.expr)
      /\ ScopeKept /\ UNCHANGED <<atoms, warnings>>

\* The messages of new_labsym() about the symbol that has the name already.
LabelErrors(t, k) ==
  CASE ~Defined(t, k) -> {}
    [] Defined(t, k) /\ t[k].type # "import" -> {74}
    [] OTHER -> IF "XREF" \in t[k].flags THEN {85} ELSE {}

\* A label.  A symbol that is defined already keeps what it is.
LabelLine(l) ==
  LET k     == Key(l.name)
      known == new_import(table, k)
      abs   == IF absolute THEN {"ABSLABEL"} ELSE {}
  IN  /\ Reading("label", l)
      /\ errors' = errors \cup LabelErrors(table, k)
      /\ IF 74 \in LabelErrors(table, k)
         THEN UNCHANGED <<table, atoms>>
         ELSE /\ table' = [known EXCEPT ![k].type = "label", ![k].pc = Pc, ![k].flags = @ \cup abs \cup l.flags]
              /\ atoms' = Append(atoms, [what |-> "label", key |-> k, expr |-> Number(0), pc |-> Pc, line |-> line'])
      /\ Define(k, "label", Number(0))
      /\ IF l.name \in Locals THEN UNCHANGED <<last_global_label, scopes>>
         ELSE /\ last_global_label' = LabelScope(l.name)
              /\ scopes' = [scopes EXCEPT ![Len(scopes)] = LabelScope(l.name)]
      /\ UNCHANGED <<saved_last_global_label, inline_stack, next_id, warnings>>

\* global, xdef and xref: do_bind().
BindLine(l) ==
  LET k == Key(l.name)
      bound == Flagged(new_import(table, k), k, l.flags)
  IN  /\ Reading("bind", l)
      /\ table' = bound
      /\ errors' = errors \cup (IF "XREF" \in l.flags /\ bound[k].type # "import" THEN {85} ELSE {})
      /\ ScopeKept /\ UNCHANGED <<atoms, warnings, defs>>

\* dc: a datum.
DataLine(l) ==
  LET e     == Keyed(l.expr)
      known == Mentioned(table, e)
  IN  /\ Reading("data", l)
      /\ table' = known
      /\ atoms' = Append(atoms, [what |-> "data", key |-> NoSym, expr |-> Simplified(known, e),
                                 pc |-> Pc, line |-> line', written |-> e])
      /\ ScopeKept /\ UNCHANGED <<errors, warnings, defs>>

\* Mutant: each module remembers the label before it.
ModuleLine_MutSavesAlways(l) ==
  /\ Reading("module", l)
  /\ IF Len(inline_stack) < INLSTACKSIZE
     THEN /\ last_global_label' = InlScope(next_id)
          /\ saved_last_global_label' = last_global_label
          /\ inline_stack' = Append(inline_stack, next_id)
          /\ next_id' = next_id + 1
          /\ scopes' = Append(scopes, InlScope(next_id))
          /\ UNCHANGED errors
     ELSE errors' = errors \cup {3014} /\ ScopeKept
  /\ UNCHANGED <<table, atoms, warnings, defs>>

\* module: handle_module().
ModuleLine(l) ==
  /\ Reading("module", l)
  /\ IF Len(inline_stack) < INLSTACKSIZE
     THEN /\ last_global_label' = InlScope(next_id)
          /\ saved_last_global_label' = IF inline_stack = <<>> THEN last_global_label ELSE saved_last_global_label
          /\ inline_stack' = Append(inline_stack, next_id)
          /\ next_id' = next_id + 1
          /\ scopes' = Append(scopes, InlScope(next_id))
          /\ UNCHANGED errors
     ELSE errors' = errors \cup {3014} /\ ScopeKept
  /\ UNCHANGED <<table, atoms, warnings, defs>>

\* modend: handle_endmodule().
ModendLine(l) ==
  LET outer == SubSeq(inline_stack, 1, Len(inline_stack) - 1)
  IN  /\ Reading("modend", l)
      /\ IF inline_stack = <<>>
         THEN errors' = errors \cup {3012} /\ ScopeKept
         ELSE /\ inline_stack' = outer
              /\ IF outer = <<>>
                 THEN last_global_label' = saved_last_global_label /\ saved_last_global_label' = NoScope
                 ELSE last_global_label' = InlScope(outer[Len(outer)]) /\ UNCHANGED saved_last_global_label
              /\ scopes' = SubSeq(scopes, 1, Len(scopes) - 1)
              /\ UNCHANGED <<errors, next_id>>
      /\ UNCHANGED <<table, atoms, warnings, defs>>

ReadLine ==
  \E l \in menu : \/ EquLine(l) \/ SetLine(l) \/ EqusLine(l) \/ LabelLine(l) \/ BindLine(l)
                  \/ DataLine(l) \/ ModuleLine(l) \/ ModendLine(l)

Untouched == UNCHANGED <<menu, absolute, auto_import, line, last_global_label, saved_last_global_label,
                         inline_stack, next_id, atoms, defs, scopes>>

\* The source ends; with an error there is nothing to assemble.
EndOfSource ==
  /\ phase = "parse"
  /\ IF errors = {} THEN phase' = "resolve" /\ UNCHANGED fixing
     ELSE phase' = "fix" /\ fixing' = DOMAIN table
  /\ Untouched /\ UNCHANGED <<table, errors, warnings, object>>

----------------------------------------------------------------------------
(* Behind the source.                                                      *)

\* resolve_section() meets a label that is no label any more.
Resolve ==
  /\ phase = "resolve"
  /\ phase' = IF \E i \in DOMAIN atoms : atoms[i].what = "label" /\ table[atoms[i].key].type # "label"
              THEN "ierror" ELSE "assemble"
  /\ Untouched /\ UNCHANGED <<table, errors, warnings, object, fixing>>

\* A place in the object: a number, an offset in the section, or in what
\* another object defines.
Place(t, r) ==
  CASE r.cnst -> <<"number", r.v>>
    [] ~r.cnst /\ r.kind = "ok" /\ IsLabel(t, r.base)  -> <<"section", r.v>>
    [] ~r.cnst /\ r.kind = "ok" /\ IsImport(t, r.base) -> <<"external", r.v, r.base>>
    [] ~r.cnst /\ r.kind = "pcrel" -> <<"pcrel", r.v, r.base>>
    [] OTHER -> <<"illegal">>

\* assemble() and eval_data(): the data in their order.
Assemble ==
  LET values == [i \in Data |-> eval_expr(table, atoms[i].expr, TRUE, atoms[i].pc)]
  IN  /\ phase = "assemble"
      /\ object' = [i \in Data |-> Place(table, values[i])]
      /\ phase' = IF \E i \in Data : values[i].kind = "cycle" THEN "fatal" ELSE "undef"
      /\ errors' = errors \cup (IF \E i \in Data : object'[i] = <<"illegal">> THEN {38} ELSE {})
      /\ Untouched /\ UNCHANGED <<table, warnings, fixing>>

\* Mutant: an exported symbol is not missed.
UndefError_MutExported(s) ==
  IF s.type # "import" THEN {}
  ELSE IF ~auto_import /\ "EXPORT" \notin s.flags THEN {22} ELSE {}

\* The message of undef_syms() about a symbol.
UndefError(s) ==
  IF s.type # "import" THEN {}
  ELSE IF ~auto_import /\ "EXPORT" \notin s.flags THEN {22}
  ELSE IF "XDEF" \in s.flags THEN {86} ELSE {}

\* undef_syms(), when there was no error.
UndefSyms ==
  /\ phase = "undef" /\ phase' = "fix"
  /\ errors' = errors \cup (IF errors # {} THEN {} ELSE UNION {UndefError(table[k]) : k \in DOMAIN table})
  /\ fixing' = DOMAIN table
  /\ Untouched /\ UNCHANGED <<table, warnings, object>>

\* fix_labels() for one symbol: what it becomes.
Fixed(t, k) ==
  LET r == eval_expr(t, t[k].expr, FALSE, 0)
  IN  IF IsLabel(t, k) /\ IsAbs(t, k) THEN [t[k] EXCEPT !.type = "expression", !.expr = Number(t[k].pc)]
      ELSE IF t[k].type = "expression" /\ ~r.cnst /\ r.kind = "ok"
      THEN [t[k] EXCEPT !.type = t[r.base].type, !.pc = r.v]
      ELSE t[k]

FixErrors(t, k) ==
  LET r == eval_expr(t, t[k].expr, FALSE, 0)
  IN  IF t[k].type # "expression" \/ r.cnst THEN {}
      ELSE IF r.kind # "ok" THEN {53}
      ELSE IF IsImport(t, r.base) /\ "EXPORT" \in t[k].flags THEN {81} ELSE {}

\* The next symbol of the list, the one that was entered last.
FixLabel ==
  /\ phase = "fix" /\ fixing # {}
  /\ \E k \in fixing :
       /\ \A other \in fixing : table[other].nr <= table[k].nr
       /\ IF table[k].type = "expression" /\ eval_expr(table, table[k].expr, FALSE, 0).kind = "cycle"
          THEN phase' = "fatal" /\ UNCHANGED <<table, errors>>
          ELSE /\ table' = [table EXCEPT ![k] = Fixed(table, k)]
               /\ errors' = errors \cup FixErrors(table, k)
               /\ UNCHANGED phase
       /\ fixing' = fixing \ {k}
  /\ Untouched /\ UNCHANGED <<warnings, object>>

EndOfFix ==
  /\ phase = "fix" /\ fixing = {} /\ phase' = "done"
  /\ Untouched /\ UNCHANGED <<table, errors, warnings, object, fixing>>

Next == ReadLine \/ EndOfSource \/ Resolve \/ Assemble \/ UndefSyms \/ FixLabel \/ EndOfFix

Spec == Init /\ [][Next]_vars

----------------------------------------------------------------------------
(* What the source means: the definition of a name that is in force at a     *)
(* line is the last one before it, or the only one of the source.            *)

DefsOf(k) == {i \in DOMAIN defs : defs[i].key = k}
Latest(S) == CHOOSE i \in S : \A j \in S : j <= i
Before(k, at) == {i \in DefsOf(k) : defs[i].line < at}

Any == <<"any">>
NumberIs(v) == <<"number", v>>

\* p - m + n, for places; less is the name that stands for m.  What is external
\* less an address of an absolute section gets the addend of a pc-relative
\* reference and an absolute relocation (eval_expr() and find_base() disagree),
\* so nothing is claimed of it.
Combined(p, m, n, less) ==
  IF Any \in {p, m} \/ (less # NoSym /\ absolute /\ p[1] = "external") THEN Any
  ELSE IF m[1] = "number" THEN [p EXCEPT ![2] = @ - m[2] + n]
  ELSE IF m[1] = "section" /\ p[1] = "section" THEN NumberIs(p[2] - m[2] + n)
  ELSE Any

\* The meaning of a name at a line, when that of the definitions is known.
NameMeans(k, at, meanings) ==
  CASE Before(k, at) # {} -> meanings[Latest(Before(k, at))]
    [] Before(k, at) = {} /\ Cardinality(DefsOf(k)) = 1 -> meanings[Latest(DefsOf(k))]
    [] DefsOf(k) = {} -> <<"external", 0, k>>
    [] OTHER -> Any

ExprMeans(e, at, meanings) ==
  LET means(k) == IF k = NoSym THEN NumberIs(0) ELSE NameMeans(k, at, meanings)
  IN  Combined(means(e.plus), means(e.minus), e.add, e.minus)

\* A definition, when the meaning of those of the names in it is known.
DefMeans(i, meanings) ==
  IF defs[i].how = "label" THEN <<IF absolute THEN "number" ELSE "section", defs[i].pc>>
  ELSE ExprMeans(defs[i].expr, defs[i].line, meanings)

Meanings ==
  LET means[d \in 0 .. Len(defs)] ==
        [i \in DOMAIN defs |-> IF d = 0 THEN Any ELSE DefMeans(i, means[d - 1])]
  IN  means[Len(defs)]

\* A definition whose value is a number as soon as it is read.
Known ==
  LET known[i \in DOMAIN defs] ==
        /\ defs[i].how # "label"
        /\ \A k \in {defs[i].expr.plus, defs[i].expr.minus} \ {NoSym} :
             LET before == {j \in DefsOf(k) : j < i} IN before # {} /\ known[Latest(before)]
  IN  known

\* A symbol gets a new value while its old one was not a number yet.
Moves(k) == \E i, j \in DefsOf(k) : i < j /\ ~Known[i]

Ended == phase = "done" /\ errors = {}

----------------------------------------------------------------------------
(* Properties.                                                             *)

\* Each datum of a program without errors has the value its expression has at
\* its line: whatever is defined, redefined, imported or turned into another kind
\* of symbol behind it, through any chain of equates, before or behind it.
\* Symbols that are redefined before their value is a number are left out.
UseMeansDefinition ==
  (Ended /\ \A k \in DOMAIN table : ~Moves(k)) =>
    \A i \in Data :
      LET means == ExprMeans(atoms[i].written, atoms[i].line, Meanings)
      IN  means # Any => object[i] = means

\* The manual (PSI-X Syntax Module.html) says of set: "If <symbol> is already
\* assigned, it will contain a new value from now on", so not before.
NewValueFromNowOn ==
  Ended =>
    \A i \in Data :
      LET means == ExprMeans(atoms[i].written, atoms[i].line, Meanings)
      IN  means # Any => object[i] = means

\* A name has one definition, unless all of them are set, or all are equs: each
\* other combination, in any order and with any imports or exports between
\* them, is reported.  So is the label of a name declared with xref.
DefinedOnce ==
  (errors = {} /\ warnings = {}) =>
    /\ \A i, j \in DOMAIN defs :
         (i # j /\ defs[i].key = defs[j].key) => (defs[i].how = defs[j].how /\ defs[i].how \in {"set", "equs"})
    /\ \A k \in DOMAIN table : "XREF" \in table[k].flags => \A i \in DefsOf(k) : defs[i].how # "label"

\* What the object file says of the symbols of a program without errors, in
\* whatever order fix_labels() turned them into each other: what is defined has
\* the value of its last definition; an exported one is defined by this object,
\* and one that must be defined is.
SymbolsOfObject ==
  (Ended /\ \A k \in DOMAIN table : ~Moves(k)) =>
    \A k \in DOMAIN table :
      LET means == NameMeans(k, MaxLines + 1, Meanings)
          flags == table[k].flags
          value == CASE table[k].type = "label"  -> <<"section", table[k].pc>>
                     [] table[k].type = "import" -> <<"external">>
                     [] OTHER -> Place(table, eval_expr(table, table[k].expr, FALSE, 0))
      IN  /\ (means # Any /\ value[1] # "external") => value = means
          /\ (means # Any /\ value[1] = "external") => means[1] = "external"
          /\ (value[1] = "external" /\ "EXPORT" \in flags) => DefsOf(k) = {}
          /\ "XDEF" \in flags => DefsOf(k) # {}
          /\ (~auto_import /\ DefsOf(k) = {}) => "EXPORT" \in flags

\* A module hides the local labels around it, and they are back behind its
\* modend.  Between the modules inside a module, the scope is that of the module,
\* even when it has global labels.
LocalScope ==
  \/ last_global_label = scopes[Len(scopes)]
  \/ inline_stack # <<>> /\ last_global_label = InlScope(inline_stack[Len(inline_stack)])
=============================================================================
