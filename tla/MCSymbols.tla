----------------------------- MODULE MCSymbols -----------------------------
EXTENDS Symbols

CONSTANTS a, b, c, lab

Sum(n, k)  == [plus |-> n, minus |-> NoSym, add |-> k]
Diff(n, m) == [plus |-> n, minus |-> m, add |-> 0]
Far(n, m, k) == [plus |-> n, minus |-> m, add |-> k]

Equ(n, e)   == [kind |-> "equ", name |-> n, expr |-> e, flags |-> {}]
EquX(n, e)  == [kind |-> "equ", name |-> n, expr |-> e, flags |-> {"EXPORT", "XDEF"}]
Set(n, e)   == [kind |-> "set", name |-> n, expr |-> e]
Equs(n, k)  == [kind |-> "equs", name |-> n, expr |-> Number(k)]
Label(n)    == [kind |-> "label", name |-> n, flags |-> {}]
LabelX(n)   == [kind |-> "label", name |-> n, flags |-> {"EXPORT", "XDEF"}]
Global(n)   == [kind |-> "bind", name |-> n, flags |-> {"EXPORT"}]
Xdef(n)     == [kind |-> "bind", name |-> n, flags |-> {"EXPORT", "XDEF"}]
Xref(n)     == [kind |-> "bind", name |-> n, flags |-> {"EXPORT", "XREF"}]
Dc(e)       == [kind |-> "data", expr |-> e]
Module      == [kind |-> "module"]
Modend      == [kind |-> "modend"]

MCMenus == {
  \* symbols that are redefined, over labels
  {Set(c, Number(1)), Set(c, Sum(c, 1)), Set(c, Diff(b, a)), Set(b, Sum(c, 0)),
   Label(a), Label(b), Dc(Sum(c, 0)), Dc(Diff(c, a))},
  \* chains of equates, before and behind their use
  {Equ(a, Sum(b, 1)), Equ(b, Sum(c, 1)), Set(c, Number(1)), Label(c), Equ(c, Diff(b, a)),
   Dc(Sum(a, 0)), Dc(Far(a, b, 2)), Global(a), Xdef(b)},
  \* kinds of symbols
  {Set(a, Number(1)), Equ(a, Number(2)), Equs(a, 3), Label(a), LabelX(a), Xref(a), Xdef(a),
   Dc(Sum(a, 0)), EquX(b, Sum(a, 0))},
  \* local labels and modules
  {Label(a), Label(b), Label(lab), Equ(lab, Number(1)), Dc(Sum(lab, 0)), Module, Modend}}
=============================================================================
