--------------------------- MODULE Linker_proofs ----------------------------
(***************************************************************************)
(* Proofs about Linker, for every program and any number of units: which    *)
(* freed symbols a reference may be bound to, that references to one name   *)
(* are bound to one definition, that undefined names and duplicate          *)
(* definitions are reported, and that the program is closed.                *)
(***************************************************************************)
EXTENDS Linker, FiniteSetTheorems, SequenceTheorems, WellFoundedInduction, TLAPS

Phases == {"load", "resolve", "pull", "done", "ierror"}
Visitors == Units \cup {UNDEFSYMBOLS, INITEXIT}

\* The symbols that may stand in a chain.
Proper == {s \in Units \X Names : Defines(UnitOf(s), NameOf(s))}
Defs == Proper \cup {Label}
LnkSyms == {LNK} \X Names

TypeInv ==
  /\ prog \in Programs /\ phase \in Phases
  /\ loaded \in 0 .. Len(Files) /\ unread \subseteq Names
  /\ link \in [Places -> Defs \cup {Nil}]
  /\ link[Nil] = Nil /\ \A p \in Places : link[p] # Nil => NameOf(link[p]) = NameOf(p)
  /\ objsyms \subseteq Defs /\ freed \subseteq Defs
  /\ selobjects \in Seq(Visitors) /\ linked \subseteq Visitors
  /\ lnksyms \subseteq LnkSyms \cup {Label}
  /\ obj \in Nat
  /\ indir \in Defs \cup {Nil}
  /\ bound \in [Visitors -> Seq(Defs \cup LnkSyms \cup {Nil})]
  /\ pripointers \subseteq CtorNames /\ xtors \in Seq(Reference) /\ xtorsDone \in BOOLEAN
  /\ walk \in [todo : SUBSET Names, at : Places]
  /\ errors \subseteq {19, 21} \X Names

\* The list of units is walked over while units are put into it.
Complete(u) == Len(bound[u]) = Len(xrefs(u))
Listed ==
  /\ Range(selobjects) = linked /\ IsInjective(selobjects)
  /\ phase = "load" => obj = 1 /\ \A u \in linked : bound[u] = <<>>
  /\ phase \in {"resolve", "pull"} => obj \in DOMAIN selobjects /\ Len(bound[Obj]) <= Len(xrefs(Obj))
  /\ phase = "done" => \A u \in linked : Complete(u)
  /\ \A i \in DOMAIN selobjects : /\ i < obj => Complete(selobjects[i])
                                  /\ i > obj => bound[selobjects[i]] = <<>>
  /\ \A u \in Visitors \ linked : bound[u] = <<>>
  /\ INITEXIT \notin linked => xtors = <<>>
  /\ INITEXIT \in linked => xtorsDone

\* The files are read one after the other.
Read == {Files[i] : i \in 1 .. loaded}
Loading ==
  /\ phase = "load" =>
       /\ linked = Objects \cap Read
       /\ unread # {} => loaded > 0 /\ \A n \in unread : Defines(Files[loaded], n)
       /\ lnksyms = {} /\ ~xtorsDone
       /\ \A s \in objsyms \cup freed : /\ UnitOf(s) \in Read
                                        /\ UnitOf(s) = Files[loaded] => NameOf(s) \notin unread
  /\ phase # "load" => loaded = Len(Files) /\ unread = {} /\ Objects \subseteq linked
  /\ \A u \in Read, n \in Names :
       Defines(u, n) => link[Bucket(n)] # Nil \/ (u = Files[loaded] /\ n \in unread)
  /\ phase # "load" => Label \in lnksyms \/ link[Bucket(CtorLabel)] # Nil

\* Members are linked for a reference, and what references are bound to is linked.
Pulls ==
  /\ \A u \in linked \cap Members : \E r \in Bound : UnitOf(BoundTo(r)) = u
  /\ \A r \in Bound : BoundTo(r) # Nil => UnitOf(BoundTo(r)) \in linked \cup {LNK, INITEXIT}
  /\ phase = "pull" => /\ bound[Obj] # <<>> /\ Pulled \in Members \cap linked
                       /\ \A n \in walk.todo : Defines(Pulled, n)
                       /\ walk.at # Nil => Defines(Pulled, NameOf(walk.at))

\* The chains end, where nothing but loading changes them: they hold what is in
\* the tables of the units, and a symbol that is not alone is global and, behind
\* another one, of a library.
Live(n) == {s \in objsyms : NameOf(s) = n}
Stable(n) == phase = "load" \/ ~Contested(n)
ChainOk(n) ==
  /\ \A p \in Live(n) \cup {Bucket(n)} : link[p] \in objsyms \cup {Nil}
  /\ \A p, q \in Live(n) \cup {Bucket(n)} : link[p] = link[q] /\ link[p] # Nil => p = q
  /\ \A s \in Live(n) : link[s] # Nil => /\ Sym(s).bind = "global" /\ Sym(link[s]).bind = "global"
                                         /\ UnitOf(link[s]) \in Members
Chains ==
  /\ \A n \in Names : Stable(n) => ChainOk(n)
  /\ objsyms \cap freed = {}
  /\ ~Contested(CtorLabel) => Label \notin freed
  /\ phase = "load" => \A s \in Syms \ (objsyms \cup freed) : link[s] = Nil
  /\ INITEXIT \notin linked => /\ Label \notin objsyms \cup freed /\ link[Label] = Nil /\ walk.at # Label
                               /\ \A p \in Places : link[p] # Label

\* What became of the references.
Defined(n) == n = CtorLabel \/ \E u \in Units : Defines(u, n)
Indirect(n) == \E u \in Units : Defines(u, n) /\ IsIndirect(<<u, n>>)
WeakRef(n) == \E r \in RefsTo(n) : XrefOf(r).kind = "weak"
LocalRef(n) == \E r \in RefsTo(n) : XrefOf(r).kind = "local"
Asked ==
  /\ \A r \in Bound : BoundTo(r) = Nil => <<21, XrefOf(r).name>> \in errors
  /\ \A r \in Bound : BoundTo(r) # Nil => Defined(XrefOf(r).name) \/ WeakRef(XrefOf(r).name)
  /\ \A n \in Names : <<LNK, n>> \in lnksyms => WeakRef(n)
  /\ \A n \in Names : <<21, n>> \in errors => ~Defined(n) \/ Indirect(n) \/ LocalRef(n)
  /\ indir # Nil => AtXref /\ IsIndirect(indir) /\ Indirect(Xref.name)

\* Two linked symbols of one name were compared, or the walk comes to them.
InChain(n) == {Chain(n)[k] : k \in 1 .. MaxChain} \ {Nil}
Ahead(t) == \E k, l \in 0 .. MaxChain : k < l /\ walk.at = Chain(NameOf(t))[k] /\ t = Chain(NameOf(t))[l]
Pending(s, t) == /\ phase = "pull" /\ UnitOf(s) = Pulled
                 /\ NameOf(s) \in walk.todo \/ Ahead(t)
Compared ==
  phase \notin {"load", "ierror"} =>
    \A n \in Names : ~Contested(n) =>
      \A s, t \in InChain(n) : (s # t /\ {UnitOf(s), UnitOf(t)} \subseteq linked) =>
        <<19, n>> \in errors \/ Pending(s, t) \/ Pending(t, s)

\* A reference is bound to a symbol of the chain.
Bindings ==
  \A r \in Bound : (BoundTo(r) \in Defs /\ ~Contested(NameOf(BoundTo(r))))
                     => BoundTo(r) = Label \/ BoundTo(r) \in InChain(NameOf(BoundTo(r)))

LinkerInv ==
  TypeInv /\ Listed /\ Loading /\ Pulls /\ Chains /\ Asked /\ Compared /\ Bindings

-----------------------------------------------------------------------------
(* Induction over the naturals, for sets, and what follows from it.          *)

LEMMA Below ==
  ASSUME NEW x \in Nat, NEW y \in Nat, y < x
  PROVE  <<y, x>> \in OpToRel(<, Nat)
<1> DEFINE pair == <<y, x>>
<1>1. pair \in Nat \X Nat /\ pair[1] < pair[2]
  OBVIOUS
<1> HIDE DEF pair
<1>2. pair \in {p \in Nat \X Nat : p[1] < p[2]}
  BY <1>1
<1>3. {p \in Nat \X Nat : p[1] < p[2]} = OpToRel(<, Nat)
  BY DEF OpToRel
<1> QED
  BY <1>2, <1>3 DEF pair

LEMMA SetInduction ==
  ASSUME NEW S, 0 \in S, \A n \in Nat : n \in S => n + 1 \in S
  PROVE  \A n \in Nat : n \in S
<1> DEFINE T == Nat \ S
           R == OpToRel(<, Nat)
<1>1. \A x \in Nat : \A y \in Nat : y < x => <<y, x>> \in R
  BY Below, Zenon
<1>2. SUFFICES ASSUME T # {} PROVE FALSE
  OBVIOUS
<1>3. PICK x \in T : \A y \in T : <<y, x>> \notin R
  <2>1. T \subseteq Nat /\ IsWellFoundedOn(R, Nat)
    BY NatLessThanWellFounded
  <2> HIDE DEF T, R
  <2> QED
    BY <1>2, <2>1, WFMin, Zenon
<1> HIDE DEF R
<1>4. x # 0 /\ x \in Nat
  OBVIOUS
<1>5. x - 1 \in Nat /\ x - 1 < x
  BY <1>4
<1>6. x - 1 \notin T
  BY <1>1, <1>3, <1>4, <1>5
<1> QED
  BY <1>4, <1>5, <1>6

(* A recursive function exists, and has the type of its values. *)
Follows(N, T, a, g, f) ==
  f \in [0..N -> T] /\ f[0] = a /\ \A k \in 1..N : f[k] = g[k][f[k - 1]]

LEMMA Recursion ==
  ASSUME NEW N \in Nat, NEW T, NEW a \in T, NEW g \in [1..N -> [T -> T]]
  PROVE  \E f : Follows(N, T, a, g, f)
<1> DEFINE Is(f, n) == /\ f \in [0..n -> T] /\ f[0] = a
                       /\ \A k \in 1..n : f[k] = g[k][f[k - 1]]
           S == {n \in Nat : n <= N => \E f : Is(f, n)}
<1>1. 0 \in S
  <2>1. Is([i \in 0..0 |-> a], 0)
    OBVIOUS
  <2> QED
    BY <2>1
<1>2. ASSUME NEW n \in Nat, n \in S PROVE n + 1 \in S
  <2>1. SUFFICES ASSUME n + 1 <= N PROVE \E f : Is(f, n + 1)
    OBVIOUS
  <2>2. PICK f : Is(f, n)
    BY <1>2, <2>1
  <2> DEFINE h == [i \in 0..n + 1 |-> IF i <= n THEN f[i] ELSE g[n + 1][f[n]]]
  <2>3. g[n + 1][f[n]] \in T
    BY <2>1, <2>2
  <2>4. h \in [0..n + 1 -> T] /\ h[0] = a
    BY <2>2, <2>3
  <2>5. ASSUME NEW k \in 1..n + 1 PROVE h[k] = g[k][h[k - 1]]
    <3>1. CASE k <= n
      <4>1. h[k] = f[k] /\ h[k - 1] = f[k - 1] /\ k \in 1..n
        BY <3>1
      <4> HIDE DEF h
      <4> QED
        BY <2>2, <4>1
    <3>2. CASE ~(k <= n)
      <4>1. k = n + 1 /\ k \in 0..n + 1 /\ k - 1 = n /\ n \in 0..n + 1
        BY <3>2
      <4>2. h[n + 1] = g[n + 1][f[n]] /\ h[n] = f[n]
        OBVIOUS
      <4> HIDE DEF h
      <4> QED
        BY <4>1, <4>2
    <3> QED
      BY <3>1, <3>2
  <2> HIDE DEF h
  <2> QED
    BY <2>4, <2>5
<1> HIDE DEF S
<1>3. N \in S
  BY <1>1, <1>2, SetInduction
<1>4. PICK f : Is(f, N)
  BY <1>3 DEF S
<1>5. Follows(N, T, a, g, f)
  BY <1>4 DEF Follows
<1> QED
  BY <1>5

(* It is the only one. *)
LEMMA SameFunction ==
  ASSUME NEW N \in Nat, NEW f, NEW o, o[0] = f[0],
         \A n \in 1..N : o[n - 1] = f[n - 1] => o[n] = f[n]
  PROVE  \A n \in 0..N : o[n] = f[n]
<1> DEFINE U == {n \in Nat : n <= N => o[n] = f[n]}
<1>1. 0 \in U
  OBVIOUS
<1>2. ASSUME NEW n \in Nat, n \in U PROVE n + 1 \in U
  <2>1. n + 1 <= N => n + 1 \in 1..N /\ (n + 1) - 1 = n /\ o[n] = f[n]
    BY <1>2
  <2> QED
    BY <2>1
<1> HIDE DEF U
<1>3. \A n \in Nat : n \in U
  BY <1>1, <1>2, SetInduction
<1> QED
  BY <1>3 DEF U

(* Going along a function. *)

LEMMA StepsAre ==
  ASSUME NEW N \in Nat, NEW S, NEW a \in S, NEW f, \A x \in S : f[x] \in S
  PROVE  /\ Steps(f, a, N)[0] = a
         /\ \A k \in 1..N : Steps(f, a, N)[k] = f[Steps(f, a, N)[k - 1]]
         /\ \A k \in 0..N : Steps(f, a, N)[k] \in S
<1> DEFINE g == [k \in 1..N |-> [x \in S |-> f[x]]]
           Is(h) == h = [k \in 0..N |-> IF k = 0 THEN a ELSE f[h[k - 1]]]
<1>1. Steps(f, a, N) = (CHOOSE h : Is(h))
  BY DEF Steps
<1>2. g \in [1..N -> [S -> S]]
  OBVIOUS
<1>3. \A k \in 1..N : \A x \in S : g[k][x] = f[x]
  OBVIOUS
<1> HIDE DEF g
<1>4. PICK h : Follows(N, S, a, g, h)
  BY <1>2, Recursion
<1>5. h \in [0..N -> S] /\ h[0] = a /\ \A k \in 1..N : h[k] = g[k][h[k - 1]]
  BY <1>4 DEF Follows
<1>6. \A k \in 1..N : k - 1 \in 0..N /\ k \in 0..N /\ k # 0
  OBVIOUS
<1>7. \A k \in 0..N : k = 0 \/ k \in 1..N
  OBVIOUS
<1>8. \A k \in 1..N : h[k] = f[h[k - 1]]
  BY <1>3, <1>5, <1>6
<1>9. h = [k \in 0..N |-> IF k = 0 THEN a ELSE f[h[k - 1]]]
  <2>1. h = [k \in 0..N |-> h[k]]
    BY <1>5
  <2>2. \A k \in 0..N : h[k] = IF k = 0 THEN a ELSE f[h[k - 1]]
    BY <1>5, <1>6, <1>7, <1>8
  <2> QED
    BY <2>1, <2>2, Zenon
<1> DEFINE o == CHOOSE i : Is(i)
<1>10. Is(o)
  BY <1>9
<1> HIDE DEF o
<1>11. o[0] = a /\ \A k \in 1..N : o[k] = f[o[k - 1]]
  <2>1. \A k \in 0..N : o[k] = IF k = 0 THEN a ELSE f[o[k - 1]]
    BY <1>10
  <2> HIDE DEF Is
  <2> QED
    BY <1>6, <2>1
<1>12. \A k \in 1..N : o[k - 1] = h[k - 1] => o[k] = h[k]
  BY <1>8, <1>11
<1>13. \A k \in 0..N : o[k] = h[k]
  <2>1. o[0] = h[0]
    BY <1>5, <1>11
  <2> QED
    BY <1>12, <2>1, SameFunction
<1>14. Steps(f, a, N) = o
  BY <1>1 DEF o
<1> QED
  BY <1>5, <1>11, <1>13, <1>14

\* Where two functions are equal, so are the ways along them.
LEMMA StepsSame ==
  ASSUME NEW N \in Nat, NEW S, NEW a \in S, NEW f, NEW g, \A x \in S : f[x] \in S /\ g[x] = f[x]
  PROVE  \A k \in 0..N : Steps(g, a, N)[k] = Steps(f, a, N)[k]
<1>1. /\ Steps(f, a, N)[0] = a
      /\ \A k \in 1..N : Steps(f, a, N)[k] = f[Steps(f, a, N)[k - 1]]
      /\ \A k \in 0..N : Steps(f, a, N)[k] \in S
  BY StepsAre
<1>2. \A x \in S : g[x] \in S
  OBVIOUS
<1>3. /\ Steps(g, a, N)[0] = a
      /\ \A k \in 1..N : Steps(g, a, N)[k] = g[Steps(g, a, N)[k - 1]]
  BY <1>2, StepsAre
<1>4. \A k \in 1..N : k - 1 \in 0..N
  OBVIOUS
<1> DEFINE o == Steps(g, a, N)
           h == Steps(f, a, N)
<1>5. o[0] = h[0] /\ \A k \in 1..N : o[k - 1] = h[k - 1] => o[k] = h[k]
  BY <1>1, <1>3, <1>4
<1> HIDE DEF o, h
<1>6. \A k \in 0..N : o[k] = h[k]
  BY <1>5, SameFunction
<1> QED
  BY <1>6 DEF o, h

-----------------------------------------------------------------------------
(* Places, symbols and chains. *)

LEMMA PlaceFacts ==
  /\ \A n \in Names : Bucket(n) \in Places /\ Bucket(n) \notin Syms /\ Bucket(n) # Nil /\ NameOf(Bucket(n)) = n
  /\ Nil \in Places /\ Nil \notin Syms
  /\ Syms \subseteq Places /\ Defs \subseteq Syms /\ LnkSyms \subseteq Syms
  /\ Label \in Defs /\ Label \notin Proper /\ UnitOf(Label) = INITEXIT /\ NameOf(Label) = CtorLabel
  /\ CtorLabel \in Names
<1>1. CtorLabel \in Names
  BY FilesAssumption
<1>2. Label \in Syms
  BY <1>1 DEF Label, Syms
<1>3. Proper \subseteq Syms /\ LnkSyms \subseteq Syms
  BY DEF Proper, LnkSyms, Syms
<1>4. INITEXIT \notin Units /\ LNK \notin Units /\ "nil" \notin Units /\ "symbols" \notin Units
  BY FilesAssumption
<1>5. Nil \notin Syms /\ Label \notin Proper
  BY <1>4 DEF Nil, Syms, Proper, Label, INITEXIT, LNK
<1>6. \A n \in Names : Bucket(n) \in Buckets /\ Bucket(n) \notin Syms /\ Bucket(n) # Nil /\ NameOf(Bucket(n)) = n
  BY <1>4 DEF Bucket, Buckets, Syms, Nil, NameOf, INITEXIT, LNK
<1>7. UnitOf(Label) = INITEXIT /\ NameOf(Label) = CtorLabel
  BY DEF Label, UnitOf, NameOf
<1> QED
  BY <1>1, <1>2, <1>3, <1>5, <1>6, <1>7 DEF Places, Defs

LEMMA SymFacts ==
  /\ \A s \in Defs : /\ NameOf(s) \in Names /\ UnitOf(s) \in Units \cup {INITEXIT} /\ s = <<UnitOf(s), NameOf(s)>>
                     /\ UnitOf(s) \in Units => s \in Proper /\ s # Label
                     /\ UnitOf(s) \notin Units => s = Label
  /\ \A u \in Units, n \in Names : /\ UnitOf(<<u, n>>) = u /\ NameOf(<<u, n>>) = n
                                   /\ <<u, n>> # Label /\ (<<u, n>> \in Defs <=> Defines(u, n))
  /\ \A s \in LnkSyms : UnitOf(s) = LNK /\ s \notin Defs /\ NameOf(s) \in Names
  /\ INITEXIT \notin Units /\ UNDEFSYMBOLS \notin Units /\ LNK \notin Units
  /\ INITEXIT # UNDEFSYMBOLS /\ INITEXIT # LNK /\ UNDEFSYMBOLS # LNK /\ UnitOf(Nil) \notin Units
<1>1. /\ INITEXIT \notin Units /\ UNDEFSYMBOLS \notin Units /\ LNK \notin Units /\ "nil" \notin Units
      /\ CtorLabel \in Names
  BY FilesAssumption
<1>2. INITEXIT # UNDEFSYMBOLS /\ INITEXIT # LNK /\ UNDEFSYMBOLS # LNK
  BY DEF INITEXIT, UNDEFSYMBOLS, LNK
<1>3. UnitOf(Nil) \notin Units
  BY <1>1 DEF UnitOf, Nil
<1> HIDE DEF INITEXIT, UNDEFSYMBOLS, LNK
<1>4. \A u \in Units, n \in Names : UnitOf(<<u, n>>) = u /\ NameOf(<<u, n>>) = n /\ <<u, n>> # Label
  BY <1>1 DEF UnitOf, NameOf, Label
<1>5. \A u \in Units, n \in Names : <<u, n>> \in Defs <=> Defines(u, n)
  BY <1>4 DEF Defs, Proper
<1>6. \A s \in LnkSyms : UnitOf(s) = LNK /\ s \notin Defs /\ NameOf(s) \in Names
  BY <1>1, <1>2 DEF LnkSyms, UnitOf, NameOf, Defs, Proper, Label
<1>7. \A s \in Proper : /\ NameOf(s) \in Names /\ UnitOf(s) \in Units /\ s = <<UnitOf(s), NameOf(s)>>
                        /\ s # Label
  BY <1>4 DEF Proper, UnitOf, NameOf
<1>8. UnitOf(Label) = INITEXIT /\ NameOf(Label) = CtorLabel /\ Label = <<INITEXIT, CtorLabel>>
  BY DEF UnitOf, NameOf, Label
<1>9. \A s \in Defs : /\ NameOf(s) \in Names /\ UnitOf(s) \in Units \cup {INITEXIT} /\ s = <<UnitOf(s), NameOf(s)>>
                      /\ UnitOf(s) \in Units => s \in Proper /\ s # Label
                      /\ UnitOf(s) \notin Units => s = Label
  BY <1>1, <1>7, <1>8 DEF Defs
<1> QED
  BY <1>1, <1>2, <1>3, <1>4, <1>5, <1>6, <1>9

LEMMA MaxChainIs == MaxChain \in Nat /\ MaxChain >= 2 /\ Cardinality(Units) \in Nat
<1>1. Cardinality(Units) \in Nat
  BY FilesAssumption, FS_CardinalityType
<1> QED
  BY <1>1 DEF MaxChain

\* What stands in the chain of a name.
OfName(n) == {s \in Defs : NameOf(s) = n}

LEMMA ChainIs ==
  ASSUME TypeInv, NEW n \in Names
  PROVE  /\ Chain(n)[0] = Bucket(n)
         /\ \A k \in 1..MaxChain : Chain(n)[k] = link[Chain(n)[k - 1]]
         /\ \A k \in 1..MaxChain : Chain(n)[k] \in OfName(n) \cup {Nil}
         /\ \A k \in 0..MaxChain : Chain(n)[k] \in Places
<1> DEFINE S == OfName(n) \cup {Nil, Bucket(n)}
<1>1. S \subseteq Places /\ Bucket(n) \in S
  BY PlaceFacts DEF OfName
<1>2. \A x \in S : link[x] \in OfName(n) \cup {Nil}
  <2>1. ASSUME NEW x \in S PROVE link[x] \in OfName(n) \cup {Nil}
    <3>1. x \in Places /\ (x = Nil \/ NameOf(x) = n)
      BY <1>1, <2>1, PlaceFacts DEF OfName
    <3>2. link[x] \in Defs \cup {Nil} /\ (link[x] # Nil => NameOf(link[x]) = NameOf(x)) /\ link[Nil] = Nil
      BY <3>1, <1>1, <2>1 DEF TypeInv
    <3> QED
      BY <3>1, <3>2 DEF OfName
  <2> QED
    BY <2>1
<1>3. MaxChain \in Nat /\ \A x \in S : link[x] \in S
  BY <1>2, MaxChainIs
<1> HIDE DEF S
<1>4. /\ Steps(link, Bucket(n), MaxChain)[0] = Bucket(n)
      /\ \A k \in 1..MaxChain : Steps(link, Bucket(n), MaxChain)[k] = link[Steps(link, Bucket(n), MaxChain)[k - 1]]
      /\ \A k \in 0..MaxChain : Steps(link, Bucket(n), MaxChain)[k] \in S
  BY <1>1, <1>3, StepsAre
<1>5. \A k \in 1..MaxChain : k - 1 \in 0..MaxChain
  BY MaxChainIs
<1>6. \A k \in 1..MaxChain : Chain(n)[k] \in OfName(n) \cup {Nil}
  BY <1>2, <1>4, <1>5 DEF Chain
<1> QED
  BY <1>1, <1>4, <1>6 DEF Chain

\* A chain is the same as long as the links of its name are.
LEMMA ChainSame ==
  ASSUME TypeInv, NEW n \in Names,
         \A p \in OfName(n) \cup {Nil, Bucket(n)} : link'[p] = link[p]
  PROVE  \A k \in 0..MaxChain : Chain(n)'[k] = Chain(n)[k]
<1> DEFINE S == OfName(n) \cup {Nil, Bucket(n)}
<1>1. Bucket(n) \in S /\ MaxChain \in Nat
  BY MaxChainIs
<1>2. ASSUME NEW x \in S PROVE link[x] \in S
  <2>1. x \in Places /\ (x = Nil \/ NameOf(x) = n)
    BY <1>2, PlaceFacts DEF OfName
  <2>2. link[x] \in Defs \cup {Nil} /\ (link[x] # Nil => NameOf(link[x]) = NameOf(x)) /\ link[Nil] = Nil
    BY <2>1 DEF TypeInv
  <2> QED
    BY <2>1, <2>2 DEF OfName
<1>3. \A x \in S : link'[x] = link[x]
  OBVIOUS
<1> DEFINE g == link'
<1> HIDE DEF S, g
<1>4. \A k \in 0..MaxChain : Steps(g, Bucket(n), MaxChain)[k] = Steps(link, Bucket(n), MaxChain)[k]
  <2>1. \A x \in S : link[x] \in S /\ g[x] = link[x]
    BY <1>2, <1>3 DEF g
  <2> QED
    BY <1>1, <2>1, StepsSame
<1>5. Chain(n)' = Steps(g, Bucket(n), MaxChain) /\ Chain(n) = Steps(link, Bucket(n), MaxChain)
  BY DEF Chain, g, Steps, MaxChain, Bucket
<1> QED
  BY <1>4, <1>5

\* Behind Nil there is only Nil.
LEMMA NilStays ==
  ASSUME TypeInv, NEW n \in Names
  PROVE  \A j, k \in 0..MaxChain : (j <= k /\ Chain(n)[j] = Nil) => Chain(n)[k] = Nil
<1> DEFINE c == Chain(n)
<1>1. c[0] = Bucket(n) /\ \A k \in 1..MaxChain : c[k] = link[c[k - 1]]
  BY ChainIs
<1>2. link[Nil] = Nil /\ MaxChain \in Nat
  BY MaxChainIs DEF TypeInv
<1> HIDE DEF c
<1>3. SUFFICES ASSUME NEW j \in 0..MaxChain, c[j] = Nil
               PROVE  \A k \in 0..MaxChain : j <= k => c[k] = Nil
  BY DEF c
<1> DEFINE U == {d \in Nat : j + d <= MaxChain => c[j + d] = Nil}
<1>4. 0 \in U
  BY <1>3
<1>5. ASSUME NEW d \in Nat, d \in U PROVE d + 1 \in U
  <2>1. SUFFICES ASSUME j + (d + 1) <= MaxChain PROVE c[j + (d + 1)] = Nil
    OBVIOUS
  <2>2. c[j + d] = Nil /\ j + (d + 1) \in 1..MaxChain /\ (j + (d + 1)) - 1 = j + d
    BY <1>2, <1>5, <2>1
  <2> QED
    BY <1>1, <1>2, <2>2
<1> HIDE DEF U
<1>6. \A d \in Nat : d \in U
  BY <1>4, <1>5, SetInduction
<1>7. ASSUME NEW k \in 0..MaxChain, j <= k PROVE c[k] = Nil
  <2>1. k - j \in Nat /\ j + (k - j) = k
    BY <1>2, <1>7
  <2>2. k - j \in U
    BY <1>6, <2>1
  <2> QED
    BY <1>2, <2>1, <2>2 DEF U
<1> QED
  BY <1>7

LEMMA ChainEnds ==
  ASSUME TypeInv, NEW n \in Names, ChainOk(n)
  PROVE  /\ \A k \in 1..MaxChain : Chain(n)[k] \in Live(n) \cup {Nil}
         /\ \A j, k \in 0..MaxChain : (j < k /\ Chain(n)[k] # Nil) => Chain(n)[j] # Chain(n)[k]
         /\ Chain(n)[MaxChain] = Nil
<1> DEFINE c == Chain(n)
<1>1. /\ c[0] = Bucket(n) /\ \A k \in 1..MaxChain : c[k] = link[c[k - 1]]
      /\ \A k \in 1..MaxChain : c[k] \in OfName(n) \cup {Nil}
      /\ \A k \in 0..MaxChain : c[k] \in Places
  BY ChainIs
<1>2. MaxChain \in Nat /\ MaxChain >= 2 /\ Cardinality(Units) \in Nat /\ link[Nil] = Nil
  BY MaxChainIs DEF TypeInv
<1>3. \A j, k \in 0..MaxChain : (j <= k /\ c[j] = Nil) => c[k] = Nil
  BY NilStays
<1> HIDE DEF c
<1> DEFINE W == {k \in Nat : k + 1 <= MaxChain => c[k + 1] \in Live(n) \cup {Nil}}
<1>4. 0 \in W
  <2>1. 1 \in 1..MaxChain /\ 1 - 1 = 0
    BY <1>2
  <2>2. c[1] = link[Bucket(n)] /\ c[1] \in OfName(n) \cup {Nil}
    BY <1>1, <2>1
  <2>3. c[1] \in objsyms \cup {Nil}
    BY <2>2 DEF ChainOk
  <2>4. c[1] \in Live(n) \cup {Nil}
    BY <2>2, <2>3 DEF Live, OfName
  <2> QED
    BY <2>4
<1>5. ASSUME NEW k \in Nat, k \in W PROVE k + 1 \in W
  <2>1. SUFFICES ASSUME (k + 1) + 1 <= MaxChain PROVE c[(k + 1) + 1] \in Live(n) \cup {Nil}
    OBVIOUS
  <2> DEFINE m == (k + 1) + 1
  <2>2. m \in 1..MaxChain /\ m - 1 = k + 1 /\ k + 1 <= MaxChain
    BY <1>2, <2>1
  <2> HIDE DEF m
  <2>3. c[m - 1] \in Live(n) \cup {Nil}
    BY <1>5, <2>2
  <2>4. c[m] = link[c[m - 1]] /\ c[m] \in OfName(n) \cup {Nil}
    BY <1>1, <2>2
  <2>5. c[m] \in objsyms \cup {Nil}
    BY <1>2, <2>3, <2>4 DEF ChainOk
  <2>6. c[m] \in Live(n) \cup {Nil}
    BY <2>4, <2>5 DEF Live, OfName
  <2> QED
    BY <2>6 DEF m
<1> HIDE DEF W
<1>6. \A k \in 1..MaxChain : c[k] \in Live(n) \cup {Nil}
  <2>1. \A k \in Nat : k \in W
    BY <1>4, <1>5, SetInduction
  <2>2. ASSUME NEW k \in 1..MaxChain PROVE c[k] \in Live(n) \cup {Nil}
    <3>1. k - 1 \in W /\ k - 1 \in Nat /\ (k - 1) + 1 = k
      BY <1>2, <2>1
    <3> QED
      BY <1>2, <3>1 DEF W
  <2> QED
    BY <2>2
<1> DEFINE V == {j \in Nat : \A k \in 0..MaxChain : (j < k /\ c[k] # Nil) => c[j] # c[k]}
<1>7. 0 \in V
  <2>1. ASSUME NEW k \in 0..MaxChain, 0 < k, c[k] # Nil PROVE c[0] # c[k]
    <3>1. k \in 1..MaxChain
      BY <1>2, <2>1
    <3>2. c[k] \in Syms
      BY <1>1, <2>1, <3>1, PlaceFacts DEF OfName
    <3> QED
      BY <1>1, <3>2, PlaceFacts
  <2> QED
    BY <2>1
<1>8. ASSUME NEW j \in Nat, j \in V PROVE j + 1 \in V
  <2>1. SUFFICES ASSUME NEW k \in 0..MaxChain, j + 1 < k, c[k] # Nil, c[j + 1] = c[k] PROVE FALSE
    OBVIOUS
  <2>2. /\ k \in 1..MaxChain /\ j + 1 \in 1..MaxChain /\ (j + 1) - 1 = j /\ j \in 0..MaxChain
        /\ k - 1 \in 0..MaxChain /\ j < k - 1 /\ k - 1 \in 1..MaxChain
    BY <1>2, <2>1
  <2>3. c[j + 1] = link[c[j]] /\ c[k] = link[c[k - 1]]
    BY <1>1, <2>2
  <2>4. c[k - 1] # Nil
    BY <1>3, <2>1, <2>2
  <2>5. c[j] # Nil
    BY <1>3, <2>2, <2>4
  <2>6. c[k - 1] \in Live(n) \cup {Bucket(n)} /\ c[j] \in Live(n) \cup {Bucket(n)}
    <3>1. c[k - 1] \in Live(n)
      BY <1>6, <2>2, <2>4
    <3>2. CASE j = 0
      BY <1>1, <3>1, <3>2
    <3>3. CASE j # 0
      <4>1. j \in 1..MaxChain
        BY <2>2, <3>3
      <4> QED
        BY <1>6, <2>5, <3>1, <4>1
    <3> QED
      BY <3>2, <3>3
  <2>7. c[j] = c[k - 1]
    BY <2>1, <2>3, <2>6 DEF ChainOk
  <2> QED
    BY <1>8, <2>2, <2>4, <2>7
<1> HIDE DEF V
<1>9. \A j, k \in 0..MaxChain : (j < k /\ c[k] # Nil) => c[j] # c[k]
  <2>1. \A j \in Nat : j \in V
    BY <1>7, <1>8, SetInduction
  <2> QED
    BY <1>2, <2>1 DEF V
<1>10. ASSUME c[MaxChain] # Nil PROVE FALSE
  <2> DEFINE T == Units \cup {INITEXIT}
             f == [k \in 1..MaxChain |-> UnitOf(c[k])]
  <2>1. IsFiniteSet(T) /\ Cardinality(T) = Cardinality(Units) + 1
    <3>1. IsFiniteSet(Units) /\ INITEXIT \notin Units
      BY FilesAssumption
    <3> QED
      BY <3>1, FS_AddElement
  <2>2. IsFiniteSet(1..MaxChain) /\ Cardinality(1..MaxChain) = MaxChain
    BY <1>2, FS_Interval
  <2>3. \A k \in 1..MaxChain : k \in 0..MaxChain /\ k <= MaxChain /\ MaxChain \in 0..MaxChain
    BY <1>2
  <2>4. \A k \in 1..MaxChain : c[k] # Nil
    BY <1>3, <1>10, <2>3
  <2>5. \A k \in 1..MaxChain : c[k] \in Defs /\ NameOf(c[k]) = n
    BY <1>1, <2>4 DEF OfName
  <2>6. f \in [1..MaxChain -> T]
    BY <2>5, SymFacts
  <2>7. Cardinality(T) < Cardinality(1..MaxChain)
    BY <1>2, <2>1, <2>2 DEF MaxChain
  <2> HIDE DEF T
  <2>8. PICK x, y \in 1..MaxChain : x # y /\ f[x] = f[y]
    <3> HIDE DEF f
    <3> QED
      BY <2>1, <2>2, <2>6, <2>7, FS_PigeonHole
  <2>9. UnitOf(c[x]) = UnitOf(c[y])
    BY <2>8
  <2>10. c[x] = c[y]
    BY <2>5, <2>9, SymFacts
  <2>11. x < y \/ y < x
    BY <1>2, <2>8
  <2> QED
    BY <1>9, <2>3, <2>4, <2>10, <2>11
<1> QED
  BY <1>6, <1>9, <1>10 DEF c

-----------------------------------------------------------------------------
(* The verdict on a symbol and what findsymbol() finds. *)

LEMMA LeastIs ==
  ASSUME NEW S \in SUBSET Nat, S # {}
  PROVE  \E k \in S : \A y \in S : k <= y
<1> DEFINE R == OpToRel(<, Nat)
<1>1. \A x \in Nat : \A y \in Nat : y < x => <<y, x>> \in R
  BY Below, Zenon
<1>2. PICK x \in S : \A y \in S : <<y, x>> \notin R
  <2>1. S \subseteq Nat /\ IsWellFoundedOn(R, Nat)
    BY NatLessThanWellFounded
  <2> HIDE DEF R
  <2> QED
    BY <2>1, WFMin, Zenon
<1> HIDE DEF R
<1>3. ASSUME NEW y \in S PROVE x <= y
  <2>1. x \in Nat /\ y \in Nat /\ ~(y < x)
    BY <1>1, <1>2
  <2> QED
    BY <2>1
<1> QED
  BY <1>3

LEMMA SymType ==
  ASSUME TypeInv, NEW s \in Defs
  PROVE  Sym(s) \in Symbol /\ Sym(s).type # "none" /\ Sym(s).bind \in {"global", "weak"} /\ Sym(s).to \in Names
<1>1. CASE s = Label
  <2>1. CtorLabel \in Names
    BY FilesAssumption
  <2> QED
    BY <1>1, <2>1 DEF Sym, Symbol
<1>2. CASE s # Label
  <2>1. s \in Proper
    BY <1>2 DEF Defs
  <2>2. UnitOf(s) \in Units /\ NameOf(s) \in Names /\ Defines(UnitOf(s), NameOf(s))
    BY <2>1, SymFacts DEF Proper, Defs
  <2>3. prog.def \in [Units -> [Names -> Symbol]]
    BY LinkerAssumption DEF TypeInv
  <2>4. Sym(s) = prog.def[UnitOf(s)][NameOf(s)]
    BY <1>2 DEF Sym
  <2>5. Sym(s) \in Symbol /\ Sym(s).type # "none"
    BY <2>2, <2>3, <2>4 DEF Defines
  <2> QED
    BY <2>5 DEF Symbol
<1> QED
  BY <1>1, <1>2

\* What addglobsym() decides when old stands in the way of new.
LEMMA MeetsIs ==
  ASSUME NEW new \in Symbol, NEW old \in Symbol, NEW lib \in BOOLEAN
  PROVE  /\ Meets(new, lib, old) \in {"ignore", "next", "error", "replace"}
         /\ Meets(new, lib, old) = "next" => lib /\ new.bind = "global" /\ old.bind = "global"
         /\ Meets(new, lib, old) = "replace" => new.bind = "global"
         /\ ~lib => Meets(new, lib, old) # "next"
<1>1. new.bind \in {"global", "weak"} /\ old.bind \in {"global", "weak"}
  BY DEF Symbol
<1> QED
  BY <1>1 DEF Meets

What(s, k) == IF Chain(NameOf(s))[k + 1] = Nil THEN "append"
              ELSE Meets(Sym(s), IsLib(UnitOf(s)), Sym(Chain(NameOf(s))[k + 1]))
SpokenAt(s, v, k) ==
  /\ k \in 0 .. MaxChain - 1 /\ v.at = Chain(NameOf(s))[k]
  /\ v.what = What(s, k) /\ v.what # "next"
  /\ \A j \in 0 .. k - 1 : What(s, j) = "next"

LEMMA VerdictIs ==
  ASSUME TypeInv, NEW s \in Defs, UnitOf(s) \notin Members \/ Chain(NameOf(s))[MaxChain] = Nil
  PROVE  \E k : SpokenAt(s, Verdict(s), k)
<1> DEFINE n == NameOf(s)
           P(k) == What(s, k) # "next" /\ \A j \in 0 .. k - 1 : What(s, j) = "next"
           first == CHOOSE k \in 0 .. MaxChain - 1 : P(k)
<1>1. Verdict(s) = [what |-> What(s, first), at |-> Chain(n)[first]]
  BY DEF Verdict, What
<1>2. MaxChain \in Nat /\ MaxChain >= 2 /\ n \in Names
  BY MaxChainIs, SymFacts
<1>3. \E k \in 0 .. MaxChain - 1 : What(s, k) # "next"
  <2>1. CASE UnitOf(s) \notin Members
    <3>1. 0 \in 0 .. MaxChain - 1 /\ 0 + 1 \in 1..MaxChain
      BY <1>2
    <3>2. Chain(n)[0 + 1] \in Defs \cup {Nil}
      BY <1>2, <3>1, ChainIs DEF OfName
    <3>3. What(s, 0) # "next"
      <4>1. CASE Chain(n)[0 + 1] = Nil
        BY <4>1 DEF What
      <4>2. CASE Chain(n)[0 + 1] # Nil
        <5>1. Sym(Chain(n)[0 + 1]) \in Symbol /\ Sym(s) \in Symbol
          BY <3>2, <4>2, SymType
        <5>2. IsLib(UnitOf(s)) \in BOOLEAN /\ ~IsLib(UnitOf(s))
          BY <2>1 DEF IsLib
        <5>3. Meets(Sym(s), IsLib(UnitOf(s)), Sym(Chain(n)[0 + 1])) # "next"
          BY <5>1, <5>2, MeetsIs
        <5> QED
          BY <4>2, <5>3 DEF What
      <4> QED
        BY <4>1, <4>2
    <3> QED
      BY <3>1, <3>3
  <2>2. CASE Chain(n)[MaxChain] = Nil
    <3>1. MaxChain - 1 \in 0 .. MaxChain - 1 /\ (MaxChain - 1) + 1 = MaxChain
      BY <1>2
    <3>2. What(s, MaxChain - 1) = "append"
      BY <2>2, <3>1 DEF What
    <3> QED
      BY <3>1, <3>2
  <2> QED
    BY <2>1, <2>2
<1> DEFINE S == {k \in 0 .. MaxChain - 1 : What(s, k) # "next"}
<1>4. PICK k \in S : \A y \in S : k <= y
  <2>1. S \in SUBSET Nat /\ S # {}
    BY <1>2, <1>3
  <2> HIDE DEF S
  <2> QED
    BY <2>1, LeastIs
<1>5. k \in 0 .. MaxChain - 1 /\ P(k)
  <2>1. \A j \in 0 .. k - 1 : j \in 0 .. MaxChain - 1 /\ ~(k <= j)
    BY <1>2
  <2> QED
    BY <1>4, <2>1
<1>6. first \in 0 .. MaxChain - 1 /\ P(first)
  <2> HIDE DEF P
  <2> QED
    BY <1>5
<1> HIDE DEF first
<1>7. Verdict(s).what = What(s, first) /\ Verdict(s).at = Chain(n)[first]
  BY <1>1
<1>8. SpokenAt(s, Verdict(s), first)
  BY <1>6, <1>7 DEF SpokenAt
<1> QED
  BY <1>8

\* The place is one of the chain, and nothing stands there or a symbol with which new does not agree.
LEMMA VerdictPlace ==
  ASSUME TypeInv, NEW s \in Defs, NEW v, NEW k, SpokenAt(s, v, k)
  PROVE  /\ v.at \in OfName(NameOf(s)) \cup {Bucket(NameOf(s))} /\ v.at # Nil
         /\ link[v.at] = Chain(NameOf(s))[k + 1] /\ k \in 0..MaxChain /\ k + 1 \in 1..MaxChain
         /\ v.what \in {"append", "ignore", "error", "replace"}
         /\ v.what = "append" => link[v.at] = Nil
         /\ v.what # "append" => /\ link[v.at] \in OfName(NameOf(s))
                                 /\ v.what = Meets(Sym(s), IsLib(UnitOf(s)), Sym(link[v.at]))
         /\ v.what = "replace" => Sym(s).bind = "global"
         /\ v.at # Bucket(NameOf(s)) => /\ UnitOf(s) \in Members
                                        /\ Sym(s).bind = "global" /\ Sym(v.at).bind = "global"
         /\ UnitOf(s) \notin Members => v.at = Bucket(NameOf(s))
<1> DEFINE n == NameOf(s)
           c == Chain(n)
<1>1. n \in Names /\ MaxChain \in Nat /\ MaxChain >= 2
  BY SymFacts, MaxChainIs
<1>2. /\ c[0] = Bucket(n) /\ \A i \in 1..MaxChain : c[i] = link[c[i - 1]]
      /\ \A i \in 1..MaxChain : c[i] \in OfName(n) \cup {Nil}
  BY <1>1, ChainIs
<1>3. k \in 0..MaxChain - 1 /\ v.at = c[k] /\ v.what = What(s, k) /\ v.what # "next" /\ \A j \in 0..k - 1 : What(s, j) = "next"
  BY DEF SpokenAt
<1> HIDE DEF c
<1>4. k + 1 \in 1..MaxChain /\ (k + 1) - 1 = k /\ k \in 0..MaxChain
  BY <1>1, <1>3
<1>5. c[k + 1] = link[v.at] /\ c[k + 1] \in OfName(n) \cup {Nil}
  BY <1>2, <1>3, <1>4
<1>6. Sym(s) \in Symbol /\ IsLib(UnitOf(s)) \in BOOLEAN /\ Nil \notin Defs
  BY SymType, PlaceFacts DEF IsLib
<1>7. \A t \in OfName(n) : t \in Defs /\ t # Nil /\ Sym(t) \in Symbol
  BY <1>6, SymType DEF OfName
<1>8. \A j \in 0..MaxChain - 1 :
         What(s, j) = IF c[j + 1] = Nil THEN "append" ELSE Meets(Sym(s), IsLib(UnitOf(s)), Sym(c[j + 1]))
  BY DEF What, c
<1>9. v.what = IF link[v.at] = Nil THEN "append" ELSE Meets(Sym(s), IsLib(UnitOf(s)), Sym(link[v.at]))
  BY <1>3, <1>5, <1>8
<1>10. link[v.at] # Nil => v.what \in {"ignore", "error", "replace"} /\ (v.what = "replace" => Sym(s).bind = "global")
  BY <1>3, <1>5, <1>6, <1>7, <1>9, MeetsIs
<1>11. ASSUME k # 0
       PROVE  c[k] \in OfName(n) /\ UnitOf(s) \in Members /\ Sym(s).bind = "global" /\ Sym(c[k]).bind = "global"
  <2>1. k - 1 \in 0..k - 1 /\ k - 1 \in 0..MaxChain - 1 /\ (k - 1) + 1 = k /\ k \in 1..MaxChain
    BY <1>1, <1>3, <1>11
  <2>2. What(s, k - 1) = "next" /\ What(s, k - 1) = IF c[k] = Nil THEN "append" ELSE Meets(Sym(s), IsLib(UnitOf(s)), Sym(c[k]))
    BY <1>3, <1>8, <2>1
  <2>3. c[k] # Nil /\ c[k] \in OfName(n)
    BY <1>2, <2>1, <2>2
  <2>4. Meets(Sym(s), IsLib(UnitOf(s)), Sym(c[k])) = "next"
    BY <2>2, <2>3
  <2> QED
    BY <1>6, <1>7, <2>3, <2>4, MeetsIs DEF IsLib
<1>12. Bucket(n) # Nil
  BY <1>1, PlaceFacts
<1>13. v.at \in OfName(n) \cup {Bucket(n)} /\ v.at # Nil
  BY <1>2, <1>3, <1>7, <1>11, <1>12
<1> QED
  BY <1>2, <1>3, <1>4, <1>5, <1>7, <1>9, <1>10, <1>11, <1>13 DEF c
-----------------------------------------------------------------------------
(* A symbol enters the chain of its name. *)

LEMMA SymSame ==
  ASSUME prog' = prog
  PROVE  /\ \A s : Sym(s)' = Sym(s) /\ IsIndirect(s)' = IsIndirect(s)
         /\ \A u, n : Defines(u, n)' = Defines(u, n)
         /\ Proper' = Proper /\ Defs' = Defs
         /\ \A n : /\ OfName(n)' = OfName(n) /\ ArchiveCommon(n)' = ArchiveCommon(n)
                   /\ Contested(n)' = Contested(n) /\ Defined(n)' = Defined(n)
<1>1. \A s : Sym(s)' = Sym(s)
  BY DEF Sym, Label, UnitOf, NameOf
<1>2. \A u, n : Defines(u, n)' = Defines(u, n)
  BY DEF Defines
<1>3. \A s : IsIndirect(s)' = IsIndirect(s)
  BY <1>1 DEF IsIndirect
<1>4. Proper' = Proper
  BY <1>2 DEF Proper, UnitOf, NameOf
<1>5. Defs' = Defs
  BY <1>4 DEF Defs, Label
<1>6. \A n : OfName(n)' = OfName(n)
  BY <1>5 DEF OfName, NameOf
<1>7. \A n : ArchiveCommon(n)' = ArchiveCommon(n)
  BY <1>1, <1>2 DEF ArchiveCommon
<1>8. \A n : Contested(n)' = Contested(n)
  BY <1>2, <1>7 DEF Contested
<1>9. \A n : Defined(n)' = Defined(n)
  BY <1>2 DEF Defined
<1> QED
  BY <1>1, <1>2, <1>3, <1>4, <1>5, <1>6, <1>7, <1>8, <1>9

LEMMA AddIs ==
  ASSUME TypeInv, NEW s \in Defs, NEW v, NEW k, SpokenAt(s, v, k)
  PROVE  /\ addglobsym(s, v) \in [Places -> Defs \cup {Nil}]
         /\ v.what \notin {"append", "replace"} => addglobsym(s, v) = link
         /\ v.what \in {"append", "replace"} =>
              /\ s # v.at => addglobsym(s, v)[v.at] = s
              /\ \A p \in Places \ {v.at, s} : addglobsym(s, v)[p] = link[p]
         /\ (v.what = "append" /\ s # v.at) => addglobsym(s, v)[s] = link[s]
         /\ (v.what = "append" /\ s = v.at) => addglobsym(s, v)[s] = s
         /\ v.what = "replace" => addglobsym(s, v)[s] = link[link[v.at]]
<1>1. v.at \in Places /\ s \in Places
  <2>1. v.at \in OfName(NameOf(s)) \cup {Bucket(NameOf(s))} /\ NameOf(s) \in Names
    BY VerdictPlace, SymFacts
  <2> QED
    BY <2>1, PlaceFacts DEF OfName
<1>2. link \in [Places -> Defs \cup {Nil}] /\ Nil \in Places /\ Defs \subseteq Places
  BY PlaceFacts DEF TypeInv
<1>3. link[link[v.at]] \in Defs \cup {Nil} /\ v.at \in Places
  BY <1>1, <1>2
<1>4. CASE v.what = "append"
  <2>1. addglobsym(s, v) = [link EXCEPT ![v.at] = s]
    BY <1>4 DEF addglobsym
  <2> QED
    BY <1>1, <1>2, <1>4, <2>1
<1>5. CASE v.what = "replace"
  <2>1. addglobsym(s, v) = [link EXCEPT ![v.at] = s, ![s] = link[link[v.at]]]
    BY <1>5 DEF addglobsym
  <2> QED
    BY <1>1, <1>2, <1>3, <1>5, <2>1
<1>6. CASE v.what \notin {"append", "replace"}
  <2>1. addglobsym(s, v) = link
    BY <1>6 DEF addglobsym
  <2> QED
    BY <1>2, <1>6, <2>1
<1> QED
  BY <1>4, <1>5, <1>6

\* The links keep their types and their names.
LEMMA AddType ==
  ASSUME TypeInv, NEW s \in Defs, NEW v, NEW k, SpokenAt(s, v, k)
  PROVE  /\ addglobsym(s, v)[Nil] = Nil
         /\ \A p \in Places : addglobsym(s, v)[p] # Nil => NameOf(addglobsym(s, v)[p]) = NameOf(p)
         /\ \A p \in Places : NameOf(p) # NameOf(s) => addglobsym(s, v)[p] = link[p]
         /\ Displaced(v) \subseteq OfName(NameOf(s))
         /\ addglobsym(s, v)[Bucket(NameOf(s))] = Nil => link[Bucket(NameOf(s))] = Nil
<1> DEFINE L == addglobsym(s, v)
           n == NameOf(s)
<1>1. /\ v.what \notin {"append", "replace"} => L = link
      /\ v.what \in {"append", "replace"} => /\ s # v.at => L[v.at] = s
                                             /\ \A p \in Places \ {v.at, s} : L[p] = link[p]
      /\ (v.what = "append" /\ s # v.at) => L[s] = link[s]
      /\ (v.what = "append" /\ s = v.at) => L[s] = s
      /\ v.what = "replace" => L[s] = link[link[v.at]]
  BY AddIs
<1>2. /\ v.at \in OfName(n) \cup {Bucket(n)} /\ v.at # Nil
      /\ v.what \in {"append", "ignore", "error", "replace"}
      /\ v.what = "replace" => link[v.at] \in OfName(n)
      /\ v.what = "append" => link[v.at] = Nil
  BY VerdictPlace
<1>3. /\ n \in Names /\ s # Nil /\ s \in Places /\ Nil \in Places /\ NameOf(Bucket(n)) = n /\ Bucket(n) # s /\ Bucket(n) \in Places
      /\ \A t \in Defs : t \in Places /\ t # Nil
  BY PlaceFacts, SymFacts
<1>4. link[Nil] = Nil /\ \A p \in Places : link[p] # Nil => NameOf(link[p]) = NameOf(p)
  BY DEF TypeInv
<1>5. NameOf(v.at) = n /\ (v.what = "replace" => link[v.at] \in Places /\ NameOf(link[v.at]) = n)
  BY <1>2, <1>3 DEF OfName
<1> HIDE DEF L, n
<1>6. L[Nil] = Nil
  BY <1>1, <1>2, <1>3, <1>4
<1>7. NameOf(s) = n
  BY DEF n
<1>8. ASSUME NEW p \in Places, L[p] # Nil PROVE NameOf(L[p]) = NameOf(p)
  <2>1. CASE p = s /\ v.what \in {"append", "replace"}
    BY <1>1, <1>4, <1>5, <1>7, <1>8, <2>1
  <2>2. CASE p = v.at /\ p # s /\ v.what \in {"append", "replace"}
    BY <1>1, <1>5, <1>7, <2>2
  <2>3. CASE p \notin {v.at, s} \/ v.what \notin {"append", "replace"}
    <3>1. L[p] = link[p]
      BY <1>1, <2>3
    <3> QED
      BY <1>4, <1>8, <3>1
  <2> QED
    BY <2>1, <2>2, <2>3
<1>9. ASSUME NEW p \in Places, NameOf(p) # NameOf(s) PROVE L[p] = link[p]
  <2>1. p # s /\ p # v.at
    BY <1>5, <1>7, <1>9
  <2> QED
    BY <1>1, <2>1
<1>10. Displaced(v) \subseteq OfName(NameOf(s))
  BY <1>2, <1>7 DEF Displaced
<1>11. L[Bucket(n)] = Nil => link[Bucket(n)] = Nil
  BY <1>1, <1>3
<1> QED
  BY <1>6, <1>8, <1>9, <1>10, <1>11 DEF L, n

\* A chain that is no other's is left alone.
LEMMA OtherOk ==
  ASSUME TypeInv, NEW m \in Names, ChainOk(m), prog' = prog, Live(m)' = Live(m),
         \A p \in OfName(m) \cup {Bucket(m)} : link'[p] = link[p]
  PROVE  ChainOk(m)'
<1> DEFINE D == Live(m) \cup {Bucket(m)}
<1>1. D \subseteq OfName(m) \cup {Bucket(m)} /\ D \subseteq Places /\ Nil \notin Live(m)
  BY PlaceFacts DEF OfName, Live, TypeInv
<1>2. \A p \in D : link'[p] = link[p]
  BY <1>1
<1>3. \A p \in D : NameOf(p) = m
  BY PlaceFacts DEF Live
<1>4. \A p \in D : link[p] \in Live(m) \cup {Nil}
  BY <1>1, <1>3 DEF ChainOk, TypeInv, Live
<1>5. D' = D /\ Live(m) \subseteq objsyms'
  BY DEF Live, Bucket
<1>6. \A p \in D : link'[p] \in objsyms' \cup {Nil}
  BY <1>2, <1>4, <1>5
<1>7. \A p, q \in D : link'[p] = link'[q] /\ link'[p] # Nil => p = q
  BY <1>2 DEF ChainOk
<1>8. \A s : Sym(s)' = Sym(s)
  BY SymSame
<1>9. \A s \in Live(m) : link'[s] # Nil => /\ Sym(s)'.bind = "global" /\ UnitOf(link'[s]) \in Members
                                           /\ Sym(link'[s]).bind = "global"
  BY <1>2, <1>8 DEF ChainOk
<1> DEFINE l == link'
<1>10. \A t : Sym(t)' = Sym(t)
  BY <1>8
<1>11. \A s \in Live(m) : link'[s] # Nil => (Sym(link[s])').bind = "global"
  <2>1. \A s \in Live(m) : link'[s] = link[s]
    BY <1>2
  <2> QED
    BY <1>9, <1>10, <2>1
<1>12. /\ \A p \in (Live(m) \cup {Bucket(m)})' : link'[p] \in objsyms' \cup {Nil}
       /\ \A p, q \in (Live(m) \cup {Bucket(m)})' : link'[p] = link'[q] /\ link'[p] # Nil => p = q
  BY <1>5, <1>6, <1>7
<1>13. \A s \in Live(m)' : link'[s] # Nil => /\ Sym(s)'.bind = "global" /\ Sym(link[s])'.bind = "global"
                                             /\ UnitOf(link'[s]) \in Members
  <2>1. ASSUME NEW s \in Live(m), link'[s] # Nil PROVE Sym(link[s])'.bind = "global"
    <3>1. Sym(link'[s]).bind = "global"
      BY <1>9, <2>1
    <3> QED
      BY <3>1, prog' = prog DEF Sym, Label, UnitOf, NameOf
  <2> QED
    BY <1>9, <2>1
<1> QED
  BY <1>12, <1>13 DEF ChainOk

\* addglobsym() stops at the head of the chain or at a symbol in it.
LEMMA PlaceLive ==
  ASSUME TypeInv, NEW s \in Defs, ChainOk(NameOf(s)), NEW v, NEW k, SpokenAt(s, v, k)
  PROVE  /\ v.at \in Live(NameOf(s)) \cup {Bucket(NameOf(s))}
         /\ v.what = "replace" => link[v.at] \in Live(NameOf(s)) /\ v.at # link[v.at]
<1> DEFINE n == NameOf(s)
<1>1. n \in Names
  BY SymFacts
<1>2. /\ link[v.at] = Chain(n)[k + 1] /\ k \in 0..MaxChain /\ k + 1 \in 1..MaxChain /\ v.at # Nil
      /\ v.what # "append" => link[v.at] \in OfName(n)
  BY VerdictPlace
<1>3. /\ \A i \in 1..MaxChain : Chain(n)[i] \in Live(n) \cup {Nil}
      /\ \A i, j \in 0..MaxChain : (i < j /\ Chain(n)[j] # Nil) => Chain(n)[i] # Chain(n)[j]
      /\ Chain(n)[0] = Bucket(n) /\ MaxChain \in Nat
  BY <1>1, ChainEnds, ChainIs, MaxChainIs
<1>4. v.at = Chain(n)[k]
  BY DEF SpokenAt
<1>5. v.at \in Live(n) \cup {Bucket(n)}
  <2>1. CASE k = 0
    BY <1>3, <1>4, <2>1
  <2>2. CASE k # 0
    <3>1. k \in 1..MaxChain
      BY <1>2, <1>3, <2>2
    <3> QED
      BY <1>2, <1>3, <1>4, <3>1
  <2> QED
    BY <2>1, <2>2
<1>6. ASSUME v.what = "replace" PROVE link[v.at] \in Live(n) /\ v.at # link[v.at]
  <2>1. link[v.at] \in OfName(n)
    BY <1>2, <1>6
  <2>2. link[v.at] # Nil
    BY <2>1, PlaceFacts DEF OfName
  <2>3. k < k + 1 /\ k + 1 \in 0..MaxChain
    BY <1>2, <1>3
  <2> QED
    BY <1>2, <1>3, <1>4, <2>2, <2>3
<1> QED
  BY <1>5, <1>6

\* Where the chain is empty, the symbol comes first.
LEMMA AddHead ==
  ASSUME TypeInv, NEW s \in Defs, link[Bucket(NameOf(s))] = Nil, NEW v, NEW k, SpokenAt(s, v, k)
  PROVE  v.what = "append" /\ v.at = Bucket(NameOf(s)) /\ addglobsym(s, v)[Bucket(NameOf(s))] = s
<1> DEFINE n == NameOf(s)
<1>1. n \in Names /\ MaxChain \in Nat /\ MaxChain >= 2
  BY SymFacts, MaxChainIs
<1>2. Chain(n)[0] = Bucket(n) /\ Chain(n)[1] = link[Chain(n)[1 - 1]]
  BY <1>1, ChainIs
<1>3. Chain(n)[1] = Nil
  BY <1>2
<1>4. What(s, 0) = "append"
  BY <1>3 DEF What
<1>5. k = 0
  <2>1. k \in 0 .. MaxChain - 1 /\ \A j \in 0 .. k - 1 : What(s, j) = "next"
    BY DEF SpokenAt
  <2>2. k # 0 => 0 \in 0 .. k - 1
    BY <1>1, <2>1
  <2> QED
    BY <1>4, <2>1, <2>2
<1>6. v.what = "append" /\ v.at = Bucket(n)
  BY <1>2, <1>4, <1>5 DEF SpokenAt
<1>7. s # Bucket(n)
  BY <1>1, PlaceFacts
<1>8. addglobsym(s, v)[v.at] = s
  BY <1>6, <1>7, AddIs
<1> QED
  BY <1>6, <1>8

\* ChainOk for any links and any symbols.
Good(l, O, n) ==
  LET D == {s \in O : NameOf(s) = n}
  IN  /\ \A p \in D \cup {Bucket(n)} : l[p] \in O \cup {Nil}
      /\ \A p, q \in D \cup {Bucket(n)} : l[p] = l[q] /\ l[p] # Nil => p = q
      /\ \A s \in D : l[s] # Nil => /\ Sym(s).bind = "global" /\ Sym(l[s]).bind = "global"
                                    /\ UnitOf(l[s]) \in Members

LEMMA ChainOkIs ==
  ASSUME prog' = prog, NEW n
  PROVE  /\ ChainOk(n) <=> Good(link, objsyms, n)
         /\ ChainOk(n)' <=> Good(link', objsyms', n)
<1>1. ChainOk(n) <=> Good(link, objsyms, n)
  BY DEF ChainOk, Good, Live
<1>2. ChainOk(n)' <=> Good(link', objsyms', n)
  BY prog' = prog DEF ChainOk, Good, Live, Sym, Label, NameOf, UnitOf, Bucket
<1> QED
  BY <1>1, <1>2

LEMMA EnterOk ==
  ASSUME TypeInv, NEW s \in Defs, ChainOk(NameOf(s)), s \notin objsyms, link[s] = Nil,
         NEW v, NEW k, SpokenAt(s, v, k), prog' = prog, link' = addglobsym(s, v),
         objsyms' = IF Entered(v) THEN (objsyms \ Displaced(v)) \cup {s} ELSE objsyms
  PROVE  ChainOk(NameOf(s))'
<1> DEFINE n == NameOf(s)
           at == v.at
           old == link[v.at]
           D == Live(n) \cup {Bucket(n)}
<1>1. /\ n \in Names /\ s # Nil /\ s # Bucket(n) /\ s \in Places /\ Bucket(n) # Nil /\ Nil \notin objsyms
      /\ s \notin Live(n) /\ Bucket(n) \notin objsyms
  BY PlaceFacts, SymFacts DEF TypeInv, Live
<1>2. /\ old = Chain(n)[k + 1] /\ k \in 0..MaxChain /\ k + 1 \in 1..MaxChain /\ at # Nil
      /\ v.what \in {"append", "ignore", "error", "replace"}
      /\ v.what = "append" => old = Nil
      /\ v.what # "append" => old \in OfName(n)
      /\ v.what = "replace" => Sym(s).bind = "global"
      /\ at # Bucket(n) => UnitOf(s) \in Members /\ Sym(s).bind = "global" /\ Sym(at).bind = "global"
  BY VerdictPlace
<1>3. at \in D /\ (v.what = "replace" => old \in Live(n) /\ at # old)
  BY PlaceLive
<1>4. D \subseteq Places /\ Nil \notin Live(n)
  BY <1>1, PlaceFacts DEF TypeInv, Live
<1>5. at \in D /\ D \subseteq Places
  BY <1>3, <1>4
<1>6. v.what = "replace" => old \in Live(n) /\ at # old /\ old # Nil
  BY <1>3, <1>4
<1>7. Good(link, objsyms, n)
  BY ChainOkIs
<1>8. /\ \A p \in D : link[p] \in objsyms \cup {Nil}
      /\ \A p, q \in D : link[p] = link[q] /\ link[p] # Nil => p = q
      /\ \A t \in Live(n) : link[t] # Nil => /\ Sym(t).bind = "global" /\ Sym(link[t]).bind = "global"
                                             /\ UnitOf(link[t]) \in Members
  BY DEF ChainOk
<1>9. /\ v.what \notin {"append", "replace"} => link' = link
      /\ v.what \in {"append", "replace"} => /\ s # at => link'[at] = s
                                             /\ \A p \in Places \ {at, s} : link'[p] = link[p]
      /\ (v.what = "append" /\ s # at) => link'[s] = link[s]
      /\ v.what = "replace" => link'[s] = link[old]
  BY AddIs
<1>10. s # at
  BY <1>1, <1>5
<1>11. SUFFICES Good(link', objsyms', n)
  BY ChainOkIs
<1>12. CASE v.what \in {"ignore", "error"}
  BY <1>7, <1>9, <1>12 DEF Entered
<1> DEFINE E == {t \in objsyms' : NameOf(t) = n}
<1>13. SUFFICES ASSUME v.what \in {"append", "replace"}
                PROVE  /\ \A p \in E \cup {Bucket(n)} : link'[p] \in objsyms' \cup {Nil}
                       /\ \A p, q \in E \cup {Bucket(n)} : link'[p] = link'[q] /\ link'[p] # Nil => p = q
                       /\ \A t \in E : link'[t] # Nil => /\ Sym(t).bind = "global" /\ Sym(link'[t]).bind = "global"
                                                         /\ UnitOf(link'[t]) \in Members
  <2>1. v.what \in {"append", "replace"} => Good(link', objsyms', n)
    BY <1>13 DEF Good
  <2> QED
    BY <1>2, <1>12, <2>1
<1>14. objsyms' = (objsyms \ Displaced(v)) \cup {s} /\ NameOf(s) = n
  BY <1>13 DEF Entered
<1>15. /\ s \in E /\ E \subseteq Live(n) \cup {s} /\ s \in objsyms'
       /\ v.what = "append" => E = Live(n) \cup {s} /\ objsyms \subseteq objsyms'
       /\ v.what = "replace" => E = (Live(n) \ {old}) \cup {s} /\ objsyms \ {old} \subseteq objsyms'
  <2>1. v.what = "append" => Displaced(v) = {}
    BY DEF Displaced
  <2>2. v.what = "replace" => Displaced(v) = {old}
    BY DEF Displaced
  <2> HIDE DEF n, old
  <2> QED
    BY <1>13, <1>14, <2>1, <2>2 DEF Live
<1>16. link'[at] = s /\ \A p \in D \ {at} : link'[p] = link[p]
  BY <1>1, <1>5, <1>9, <1>10, <1>13
<1>17. v.what = "append" => link'[s] = Nil
  BY <1>9, <1>10
<1>18. v.what = "replace" => /\ link'[s] = link[old] /\ link[old] \in (objsyms \ {old}) \cup {Nil}
                             /\ link[old] # Nil => /\ Sym(link[old]).bind = "global"
                                                   /\ UnitOf(link[old]) \in Members
                             /\ \A p \in D : p # at => link[p] # old
  <2>1. SUFFICES ASSUME v.what = "replace"
                 PROVE  /\ link[old] \in (objsyms \ {old}) \cup {Nil}
                        /\ link[old] # Nil => /\ Sym(link[old]).bind = "global"
                                              /\ UnitOf(link[old]) \in Members
                        /\ \A p \in D : p # at => link[p] # old
    BY <1>9
  <2>2. old \in D /\ old \in Live(n) /\ old # at /\ old # Nil
    BY <1>6, <2>1
  <2>3. \A p \in D : p # at => link[p] # old
    <3>1. ASSUME NEW p \in D, p # at, link[p] = old PROVE FALSE
      <4>1. link[at] = link[p] /\ link[p] # Nil
        BY <3>1, <2>2
      <4> QED
        BY <4>1, <3>1, <1>8, <1>5
    <3> QED
      BY <3>1
  <2>4. link[old] # old
    BY <2>2, <2>3
  <2> HIDE DEF old
  <2> QED
    BY <1>8, <2>2, <2>3, <2>4
<1> HIDE DEF E, D, n, at, old
<1>19. \A p \in E \cup {Bucket(n)} : p = s \/ (p \in D /\ (v.what = "replace" => p # old))
  BY <1>1, <1>15, <1>14, <1>6 DEF D, Live
<1>20. \A p \in D : link[p] # s
  BY <1>1, <1>8
<1>21. \A p \in E \cup {Bucket(n)} : link'[p] \in objsyms' \cup {Nil}
  <2>1. ASSUME NEW p \in E \cup {Bucket(n)} PROVE link'[p] \in objsyms' \cup {Nil}
    <3>1. CASE p = s
      BY <1>13, <1>15, <1>17, <1>18, <3>1
    <3>2. CASE p = at
      BY <1>15, <1>16, <3>2
    <3>3. CASE p # s /\ p # at
      <4>1. p \in D /\ link'[p] = link[p]
        BY <1>16, <1>19, <3>3
      <4>2. link[p] \in objsyms \cup {Nil} /\ (v.what = "replace" => link[p] # old)
        BY <1>8, <1>18, <3>3, <4>1
      <4> QED
        BY <1>13, <1>15, <4>1, <4>2
    <3> QED
      BY <3>1, <3>2, <3>3
  <2> QED
    BY <2>1
<1>22. ASSUME NEW p \in E \cup {Bucket(n)}, NEW q \in E \cup {Bucket(n)}, link'[p] = link'[q], link'[p] # Nil
       PROVE  p = q
  <2>1. CASE p = at \/ q = at
    <3>1. ASSUME NEW r \in E \cup {Bucket(n)}, r # at, link'[r] = s PROVE FALSE
      <4>1. CASE r = s
        BY <1>1, <1>13, <1>17, <1>18, <3>1, <4>1
      <4>2. CASE r # s
        BY <1>16, <1>19, <1>20, <3>1, <4>2
      <4> QED
        BY <4>1, <4>2
    <3> QED
      BY <1>16, <1>22, <2>1, <3>1
  <2>2. CASE p # at /\ q # at
    <3>1. ASSUME NEW r \in E \cup {Bucket(n)}, r # at, r # s, link'[r] = link'[s], link'[r] # Nil PROVE FALSE
      <4>1. r \in D /\ link'[r] = link[r] /\ (v.what = "replace" => r # old)
        BY <1>16, <1>19, <3>1
      <4>2. v.what = "replace" /\ link[r] = link[old] /\ old \in D
        BY <1>13, <1>17, <1>18, <1>6, <3>1, <4>1 DEF D
      <4> QED
        BY <1>8, <3>1, <4>1, <4>2
    <3>2. CASE p = s \/ q = s
      BY <1>22, <2>2, <3>1, <3>2
    <3>3. CASE p # s /\ q # s
      <4>1. p \in D /\ q \in D /\ link'[p] = link[p] /\ link'[q] = link[q]
        BY <1>16, <1>19, <2>2, <3>3
      <4> QED
        BY <1>8, <1>22, <4>1
    <3> QED
      BY <3>2, <3>3
  <2> QED
    BY <2>1, <2>2
<1>23. ASSUME NEW t \in E, link'[t] # Nil
       PROVE  /\ Sym(t).bind = "global" /\ Sym(link'[t]).bind = "global"
              /\ UnitOf(link'[t]) \in Members
  <2>1. CASE t = s
    BY <1>2, <1>13, <1>17, <1>18, <1>23, <2>1
  <2>2. CASE t = at
    <3>1. at # Bucket(n)
      BY <1>1, <1>15, <2>2, <1>23 DEF Live
    <3> QED
      BY <1>2, <1>16, <2>2, <3>1
  <2>3. CASE t # s /\ t # at
    <3>1. t \in Live(n) /\ link'[t] = link[t]
      BY <1>15, <1>16, <2>3 DEF D
    <3> QED
      BY <1>8, <1>23, <3>1
  <2> QED
    BY <2>1, <2>2, <2>3
<1> QED
  BY <1>21, <1>22, <1>23

-----------------------------------------------------------------------------
(* What findsymbol() finds, lists of units and the references visited so far. *)

LEMMA FindIs ==
  ASSUME TypeInv, NEW n \in Names, NEW u
  PROVE  /\ \E k \in 1..MaxChain : findsymbol(u, n) = Chain(n)[k]
         /\ findsymbol(u, n) \in OfName(n) \cup {Nil}
         /\ findsymbol(u, n) # Nil => findsymbol(u, n) \in InChain(n)
         /\ findsymbol(u, n) = Nil => link[Bucket(n)] = Nil
<1> DEFINE c == Chain(n)
           all == {k \in 1 .. MaxChain : c[k] # Nil}
           own == {k \in all : UnitOf(c[k]) = u}
           inUse == {k \in all : UnitOf(c[k]) \in linked}
           least(S) == CHOOSE k \in S : \A j \in S : k <= j
<1>1. MaxChain \in Nat /\ MaxChain >= 2
  BY MaxChainIs
<1>2. findsymbol(u, n) = CASE own # {}                  -> c[least(own)]
                           [] own = {} /\ inUse # {}    -> c[least(inUse)]
                           [] own = {} /\ inUse = {}    -> c[1]
  BY DEF findsymbol
<1>3. own \subseteq all /\ inUse \subseteq all /\ all \subseteq 1..MaxChain
  OBVIOUS
<1>4. ASSUME NEW S \in SUBSET all, S # {} PROVE least(S) \in all
  <2>1. S \in SUBSET Nat
    BY <1>1
  <2> HIDE DEF all
  <2>2. \E k \in S : \A j \in S : k <= j
    BY <1>4, <2>1, LeastIs
  <2> QED
    BY <2>2
<1> HIDE DEF own, inUse, least
<1>5. CASE own # {}
  <2>1. findsymbol(u, n) = c[least(own)]
    BY <1>2, <1>5
  <2>2. least(own) \in all
    BY <1>3, <1>4, <1>5
  <2> QED
    BY <2>1, <2>2, ChainIs DEF InChain
<1>6. CASE own = {} /\ inUse # {}
  <2>1. findsymbol(u, n) = c[least(inUse)]
    BY <1>2, <1>6
  <2>2. least(inUse) \in all
    BY <1>3, <1>4, <1>6
  <2> QED
    BY <2>1, <2>2, ChainIs DEF InChain
<1>7. CASE own = {} /\ inUse = {}
  <2>1. findsymbol(u, n) = c[1]
    BY <1>2, <1>7
  <2>2. 1 \in 1..MaxChain /\ 1 - 1 = 0
    BY <1>1
  <2>3. c[1] = link[Bucket(n)] /\ c[1] \in OfName(n) \cup {Nil}
    BY <2>2, ChainIs
  <2> QED
    BY <2>1, <2>2, <2>3 DEF InChain
<1> QED
  BY <1>5, <1>6, <1>7

LEMMA AppendIs ==
  ASSUME NEW S, NEW q \in Seq(S), NEW x \in S
  PROVE  /\ Append(q, x) \in Seq(S) /\ Len(Append(q, x)) = Len(q) + 1
         /\ DOMAIN Append(q, x) = 1 .. Len(q) + 1
         /\ \A i \in 1 .. Len(q) : Append(q, x)[i] = q[i]
         /\ Append(q, x)[Len(q) + 1] = x
         /\ Range(Append(q, x)) = Range(q) \cup {x}
         /\ (IsInjective(q) /\ x \notin Range(q)) => IsInjective(Append(q, x))
<1>1. /\ Append(q, x) \in Seq(S) /\ Len(Append(q, x)) = Len(q) + 1
      /\ DOMAIN Append(q, x) = 1 .. Len(q) + 1 /\ DOMAIN q = 1 .. Len(q) /\ Len(q) \in Nat
      /\ \A i \in 1 .. Len(q) : Append(q, x)[i] = q[i]
      /\ Append(q, x)[Len(q) + 1] = x
  OBVIOUS
<1> DEFINE a == Append(q, x)
<1> HIDE DEF a
<1>2. Range(a) = Range(q) \cup {x}
  <2>1. \A i \in DOMAIN a : a[i] \in Range(q) \cup {x}
    BY <1>1 DEF Range, a
  <2>2. \A i \in DOMAIN q : i \in DOMAIN a /\ a[i] = q[i]
    BY <1>1 DEF a
  <2>3. Len(q) + 1 \in DOMAIN a /\ a[Len(q) + 1] = x
    BY <1>1 DEF a
  <2> QED
    BY <2>1, <2>2, <2>3 DEF Range
<1>3. ASSUME IsInjective(q), x \notin Range(q) PROVE IsInjective(a)
  <2>1. \A i \in 1 .. Len(q) : a[i] = q[i] /\ q[i] # x
    BY <1>1, <1>3 DEF Range, a
  <2>2. a[Len(q) + 1] = x /\ DOMAIN a = 1 .. Len(q) + 1
    BY <1>1 DEF a
  <2>3. \A i, j \in 1 .. Len(q) : q[i] = q[j] => i = j
    BY <1>1, <1>3 DEF IsInjective
  <2>4. \A i \in DOMAIN a : i \in 1 .. Len(q) \/ i = Len(q) + 1
    BY <1>1, <2>2
  <2> QED
    BY <2>1, <2>2, <2>3, <2>4 DEF IsInjective
<1> QED
  BY <1>1, <1>2, <1>3 DEF a

LEMMA InsertIs ==
  ASSUME NEW S, NEW q \in Seq(S), NEW x \in S, NEW o \in 1 .. Len(q)
  PROVE  /\ InsertAt(q, o + 1, x) \in Seq(S) /\ Len(InsertAt(q, o + 1, x)) = Len(q) + 1
         /\ \A i \in 1 .. o : InsertAt(q, o + 1, x)[i] = q[i]
         /\ InsertAt(q, o + 1, x)[o + 1] = x
         /\ \A i \in o + 2 .. Len(q) + 1 : InsertAt(q, o + 1, x)[i] = q[i - 1]
<1> DEFINE h == SubSeq(q, 1, o)
           t == SubSeq(q, o + 1, Len(q))
           r == h \o <<x>> \o t
<1>1. Len(q) \in Nat /\ o \in Nat /\ o >= 1 /\ o <= Len(q)
  OBVIOUS
<1>2. InsertAt(q, o + 1, x) = r
  <2>1. (o + 1) - 1 = o
    BY <1>1
  <2> QED
    BY <2>1 DEF InsertAt
<1>3. h \in Seq(S) /\ Len(h) = o /\ \A i \in 1 .. o : h[i] = q[i]
  BY <1>1
<1>4. t \in Seq(S) /\ Len(t) = Len(q) - o /\ \A i \in 1 .. Len(q) - o : t[i] = q[o + i]
  BY <1>1
<1> DEFINE p == h \o <<x>>
<1> HIDE DEF h, t
<1>5. p \in Seq(S) /\ Len(p) = o + 1 /\ p[o + 1] = x /\ \A i \in 1 .. o : p[i] = q[i]
  <2>1. p \in Seq(S) /\ Len(p) = o + 1 /\ p[o + 1] = x
    BY <1>1, <1>3
  <2>2. \A i \in 1 .. o : p[i] = h[i]
    BY <1>1, <1>3
  <2> QED
    BY <1>3, <2>1, <2>2
<1>6. r = p \o t
  OBVIOUS
<1> HIDE DEF p, r
<1>7. r \in Seq(S) /\ Len(r) = Len(q) + 1
  <2>1. p \o t \in Seq(S) /\ Len(p \o t) = Len(p) + Len(t)
    <3>1. p \in Seq(S) /\ t \in Seq(S)
      BY <1>4, <1>5
    <3> QED
      BY <3>1
  <2> QED
    BY <1>1, <1>4, <1>5, <1>6, <2>1
<1>8. \A i \in 1 .. o + 1 : r[i] = p[i]
  <2>1. \A i \in 1 .. Len(p) : (p \o t)[i] = p[i]
    BY <1>4, <1>5
  <2> QED
    BY <1>5, <1>6, <2>1
<1>9. ASSUME NEW i \in o + 2 .. Len(q) + 1 PROVE r[i] = q[i - 1]
  <2>1. i - (o + 1) \in 1 .. Len(q) - o /\ o + (i - (o + 1)) = i - 1
    BY <1>1
  <2>2. r[i] = t[i - (o + 1)]
    BY <1>1, <1>4, <1>5, <1>6
  <2> QED
    BY <1>4, <2>1, <2>2
<1>10. \A i \in 1 .. o : i \in 1 .. o + 1 /\ r[i] = q[i]
  BY <1>1, <1>5, <1>8
<1>11. r[o + 1] = x
  BY <1>1, <1>5, <1>8
<1> QED
  BY <1>2, <1>7, <1>9, <1>10, <1>11

LEMMA InsertKeeps ==
  ASSUME NEW S, NEW q \in Seq(S), NEW x \in S, NEW o \in 1 .. Len(q), IsInjective(q), x \notin Range(q)
  PROVE  Range(InsertAt(q, o + 1, x)) = Range(q) \cup {x} /\ IsInjective(InsertAt(q, o + 1, x))
<1> DEFINE a == InsertAt(q, o + 1, x)
           N == Len(q)
<1>1. /\ a \in Seq(S) /\ Len(a) = N + 1
      /\ \A i \in 1 .. o : a[i] = q[i]
      /\ a[o + 1] = x
      /\ \A i \in o + 2 .. N + 1 : a[i] = q[i - 1]
  BY InsertIs
<1>2. N \in Nat /\ o \in Nat /\ o >= 1 /\ o <= N /\ DOMAIN q = 1 .. N
  OBVIOUS
<1> HIDE DEF a, N
<1>3. DOMAIN a = 1 .. N + 1
  BY <1>1
<1>4. \A i \in 1 .. N : q[i] # x
  BY <1>2 DEF Range
<1>5. \A i, j \in 1 .. N : q[i] = q[j] => i = j
  BY <1>2 DEF IsInjective
<1>6. \A i \in 1 .. N + 1 : i \in 1 .. o \/ i = o + 1 \/ (i \in o + 2 .. N + 1 /\ i - 1 \in 1 .. N /\ i - 1 > o)
  BY <1>2
<1>7. Range(a) \subseteq Range(q) \cup {x}
  <2>1. \A i \in 1 .. N + 1 : a[i] = x \/ \E j \in 1 .. N : a[i] = q[j]
    <3>1. \A i \in 1 .. o : i \in 1 .. N
      BY <1>2
    <3> QED
      BY <1>1, <1>6, <3>1
  <2> QED
    BY <1>2, <1>3, <2>1 DEF Range
<1>8. Range(q) \cup {x} \subseteq Range(a)
  <2>1. \A j \in 1 .. N : \E i \in 1 .. N + 1 : a[i] = q[j]
    <3>1. ASSUME NEW j \in 1 .. N PROVE \E i \in 1 .. N + 1 : a[i] = q[j]
      <4>1. CASE j <= o
        BY <1>1, <1>2, <4>1
      <4>2. CASE j > o
        <5>1. j + 1 \in o + 2 .. N + 1 /\ (j + 1) - 1 = j /\ j + 1 \in 1 .. N + 1
          BY <1>2, <4>2
        <5> QED
          BY <1>1, <5>1
      <4> QED
        BY <1>2, <4>1, <4>2
    <3> QED
      BY <3>1
  <2>2. o + 1 \in 1 .. N + 1
    BY <1>2
  <2>3. x \in Range(a)
    BY <1>1, <1>3, <2>2 DEF Range
  <2>4. Range(q) \subseteq Range(a)
    BY <1>2, <1>3, <2>1 DEF Range
  <2> QED
    BY <2>3, <2>4
<1>9. ASSUME NEW i \in 1 .. N + 1, NEW j \in 1 .. N + 1, a[i] = a[j], i < j PROVE FALSE
  <2>1. CASE i \in 1 .. o
    <3>1. i \in 1 .. N /\ a[i] = q[i] /\ q[i] # x
      BY <1>1, <1>2, <1>4, <2>1
    <3>2. CASE j \in 1 .. o
      <4>1. j \in 1 .. N /\ a[j] = q[j]
        BY <1>1, <1>2, <3>2
      <4>2. i \in Int /\ j \in Int
        BY <1>2
      <4>3. q[i] = q[j]
        BY <1>9, <3>1, <4>1
      <4>4. i # j
        BY <1>9, <4>2
      <4> QED
        BY <1>5, <3>1, <4>1, <4>3, <4>4
    <3>3. CASE j = o + 1
      BY <1>1, <1>9, <3>1, <3>3
    <3>4. CASE j \in o + 2 .. N + 1 /\ j - 1 \in 1 .. N
      <4>1. a[j] = q[j - 1] /\ i # j - 1
        BY <1>1, <1>2, <2>1, <3>4
      <4> QED
        BY <1>5, <1>9, <3>1, <3>4, <4>1
    <3> QED
      BY <1>6, <3>2, <3>3, <3>4
  <2>2. CASE i = o + 1
    BY <1>1, <1>2, <1>4, <1>6, <1>9, <2>2
  <2>3. CASE i \in o + 2 .. N + 1 /\ i - 1 \in 1 .. N
    <3>1. j \in o + 2 .. N + 1 /\ j - 1 \in 1 .. N /\ j - 1 # i - 1
      BY <1>2, <1>9, <2>3
    <3> QED
      BY <1>1, <1>5, <1>9, <2>3, <3>1
  <2> QED
    BY <1>6, <2>1, <2>2, <2>3
<1>10. IsInjective(a)
  <2>1. \A i, j \in 1 .. N + 1 : i < j \/ j < i \/ i = j
    BY <1>2
  <2> QED
    BY <1>3, <1>9, <2>1 DEF IsInjective
<1> QED
  BY <1>7, <1>8, <1>10 DEF a

LEMMA SetToSeqIs ==
  ASSUME NEW S, IsFiniteSet(S)
  PROVE  SetToSeq(S) \in Seq(S)
<1>1. PICK f \in Bijection(1..Cardinality(S), S) : TRUE
  BY FS_CountingElements, FS_NatBijection, FS_CardinalityType DEF ExistsBijection
<1>2. Cardinality(S) \in Nat
  BY FS_CardinalityType
<1>3. f \in [1..Cardinality(S) -> S] /\ IsInjective(f)
  BY <1>1 DEF Bijection, Injection, IsInjective
<1>4. SetToSeq(S) \in [1..Cardinality(S) -> S]
  <2> DEFINE Q(g) == IsInjective(g)
  <2>1. SetToSeq(S) = CHOOSE g \in [1..Cardinality(S) -> S] : Q(g)
    BY DEF SetToSeq
  <2>2. Q(f)
    BY <1>3
  <2> HIDE DEF Q
  <2> QED
    BY <1>3, <2>1, <2>2
<1> QED
  BY <1>2, <1>4

LEMMA XrefsType ==
  ASSUME TypeInv, NEW u \in Visitors
  PROVE  xrefs(u) \in Seq(Reference)
<1>1. /\ prog.xrefs \in [Units -> Seq(Reference)] /\ prog.undef \in Seq(Reference)
      /\ xtors \in Seq(Reference)
  BY LinkerAssumption DEF TypeInv
<1>2. /\ u # UNDEFSYMBOLS /\ u # INITEXIT => u \in Units
      /\ UNDEFSYMBOLS # INITEXIT
  BY SymFacts DEF Visitors
<1> QED
  BY <1>1, <1>2 DEF xrefs

\* The reference that is looked at.
LEMMA AtXrefIs ==
  ASSUME TypeInv, Listed, AtXref
  PROVE  /\ Obj \in linked /\ Obj \in Visitors /\ obj \in 1 .. Len(selobjects)
         /\ bound[Obj] \in Seq(Defs \cup LnkSyms \cup {Nil}) /\ xrefs(Obj) \in Seq(Reference)
         /\ Len(bound[Obj]) + 1 \in 1 .. Len(xrefs(Obj))
         /\ Xref \in Reference /\ Xref.name \in Names /\ Xref.kind \in {"strong", "weak", "local"}
<1>1. obj \in DOMAIN selobjects /\ selobjects \in Seq(Visitors) /\ Range(selobjects) = linked
  BY DEF Listed, AtXref, TypeInv
<1>2. Obj \in linked /\ Obj \in Visitors /\ obj \in 1 .. Len(selobjects)
  BY <1>1 DEF Obj, Range
<1>3. bound[Obj] \in Seq(Defs \cup LnkSyms \cup {Nil}) /\ xrefs(Obj) \in Seq(Reference)
  BY <1>2, XrefsType DEF TypeInv
<1>4. Len(bound[Obj]) + 1 \in 1 .. Len(xrefs(Obj))
  <2>1. Len(bound[Obj]) \in Nat /\ Len(xrefs(Obj)) \in Nat
    BY <1>3
  <2> QED
    BY <2>1 DEF AtXref
<1>5. Xref \in Reference
  BY <1>3, <1>4 DEF Xref
<1> QED
  BY <1>2, <1>3, <1>4, <1>5 DEF Reference

LEMMA BoundIs ==
  /\ \A u, i : <<u, i>> \in Bound <=> (u \in linked /\ i \in DOMAIN bound[u])
  /\ \A r \in Bound : /\ r = <<r[1], r[2]>> /\ r[1] \in linked /\ r[2] \in DOMAIN bound[r[1]]
<1>1. ASSUME NEW r \in Bound PROVE \E u \in linked : \E i \in DOMAIN bound[u] : r = <<u, i>>
  BY <1>1 DEF Bound
<1>2. \A u \in linked : \A i \in DOMAIN bound[u] : <<u, i>> \in Bound
  BY DEF Bound
<1>3. \A u, i : <<u, i>> \in Bound => (u \in linked /\ i \in DOMAIN bound[u])
  <2>1. ASSUME NEW u, NEW i, <<u, i>> \in Bound PROVE u \in linked /\ i \in DOMAIN bound[u]
    <3>1. PICK v \in linked : \E j \in DOMAIN bound[v] : <<u, i>> = <<v, j>>
      BY <1>1, <2>1
    <3> QED
      BY <3>1
  <2> QED
    BY <2>1
<1>4. \A r \in Bound : r = <<r[1], r[2]>> /\ r[1] \in linked /\ r[2] \in DOMAIN bound[r[1]]
  <2>1. ASSUME NEW r \in Bound PROVE r = <<r[1], r[2]>> /\ r[1] \in linked /\ r[2] \in DOMAIN bound[r[1]]
    <3>1. PICK u \in linked : \E i \in DOMAIN bound[u] : r = <<u, i>>
      BY <1>1, <2>1
    <3> QED
      BY <3>1
  <2> QED
    BY <2>1
<1> QED
  BY <1>2, <1>3, <1>4

\* What a reference is bound to is a symbol.
LEMMA BoundType ==
  ASSUME TypeInv, NEW r \in Bound
  PROVE  BoundTo(r) \in Defs \cup LnkSyms \cup {Nil}
<1>1. r[1] \in Visitors /\ r[2] \in DOMAIN bound[r[1]]
  BY BoundIs DEF TypeInv
<1>2. bound[r[1]] \in Seq(Defs \cup LnkSyms \cup {Nil})
  BY <1>1 DEF TypeInv
<1> QED
  BY <1>1, <1>2 DEF BoundTo

\* No reference is visited in the step.
LEMMA SameBound ==
  ASSUME TypeInv, prog' = prog, bound' = bound, linked \subseteq linked',
         \A u \in linked' \ linked : bound[u] = <<>>,
         xtors' = xtors \/ INITEXIT \notin linked
  PROVE  /\ Bound' = Bound
         /\ \A r \in Bound : BoundTo(r)' = BoundTo(r) /\ XrefOf(r)' = XrefOf(r)
         /\ \A n : RefsTo(n)' = RefsTo(n) /\ WeakRef(n)' = WeakRef(n) /\ LocalRef(n)' = LocalRef(n)
<1>1. Bound' = UNION {{<<u, i>> : i \in DOMAIN bound[u]} : u \in linked'}
  BY DEF Bound
<1>2. \A u \in linked' \ linked : {<<u, i>> : i \in DOMAIN bound[u]} = {}
  OBVIOUS
<1>3. Bound' = Bound
  BY <1>1, <1>2 DEF Bound
<1>4. \A u \in linked : xrefs(u)' = xrefs(u)
  BY DEF xrefs, UNDEFSYMBOLS
<1>5. \A r \in Bound : BoundTo(r)' = BoundTo(r) /\ XrefOf(r)' = XrefOf(r)
  <2>1. ASSUME NEW r \in Bound PROVE XrefOf(r)' = XrefOf(r)
    <3>1. r[1] \in linked
      BY BoundIs
    <3> QED
      BY <1>4, <3>1 DEF XrefOf
  <2> QED
    BY <2>1 DEF BoundTo
<1>6. \A n : RefsTo(n)' = RefsTo(n)
  BY <1>3, <1>5 DEF RefsTo
<1>7. \A n : RefsTo(n) \subseteq Bound
  BY DEF RefsTo
<1>8. \A n : WeakRef(n)' = WeakRef(n) /\ LocalRef(n)' = LocalRef(n)
  BY <1>5, <1>6, <1>7 DEF WeakRef, LocalRef
<1> QED
  BY <1>3, <1>5, <1>6, <1>8

\* One more reference is bound to s.
LEMMA NewBound ==
  ASSUME TypeInv, Listed, AtXref, NEW o, o = Obj, NEW i, i = Len(bound[o]) + 1, NEW x, x = Xref,
         NEW s \in Defs \cup LnkSyms \cup {Nil}, prog' = prog, xtors' = xtors,
         bound'[o] = Append(bound[o], s), \A u \in Visitors \ {o} : bound'[u] = bound[u],
         linked \subseteq linked', linked' \subseteq Visitors,
         \A u \in linked' \ linked : bound[u] = <<>>
  PROVE  /\ Bound' = Bound \cup {<<o, i>>}
         /\ \A r \in Bound : BoundTo(r)' = BoundTo(r) /\ XrefOf(r)' = XrefOf(r)
         /\ BoundTo(<<o, i>>)' = s /\ XrefOf(<<o, i>>)' = x
         /\ \A n : WeakRef(n) => WeakRef(n)'
         /\ \A n : LocalRef(n) => LocalRef(n)'
         /\ x.kind = "weak" => WeakRef(x.name)'
         /\ x.kind = "local" => LocalRef(x.name)'
<1>1. /\ o \in linked /\ o \in Visitors /\ bound[o] \in Seq(Defs \cup LnkSyms \cup {Nil})
      /\ bound \in [Visitors -> Seq(Defs \cup LnkSyms \cup {Nil})]
  BY AtXrefIs DEF TypeInv
<1>2. bound'[o] = Append(bound[o], s) /\ \A u \in Visitors \ {o} : bound'[u] = bound[u]
  OBVIOUS
<1>3. linked \subseteq Visitors
  BY DEF TypeInv
<1>4. /\ DOMAIN bound'[o] = 1 .. Len(bound[o]) + 1 /\ bound'[o][i] = s
      /\ DOMAIN bound[o] = 1 .. Len(bound[o]) /\ Len(bound[o]) \in Nat
      /\ \A j \in DOMAIN bound[o] : bound'[o][j] = bound[o][j]
  BY <1>1, <1>2
<1>5. DOMAIN bound'[o] = DOMAIN bound[o] \cup {i}
  BY <1>4
<1>6. Bound' = UNION {{<<u, j>> : j \in DOMAIN bound'[u]} : u \in linked'}
  BY DEF Bound
<1>7. \A u \in linked' \ linked : bound'[u] = bound[u] /\ DOMAIN bound'[u] = {}
  <2>1. \A u \in linked' \ linked : u # o
    BY <1>1
  <2>2. ASSUME NEW u \in linked' \ linked PROVE bound'[u] = bound[u] /\ DOMAIN bound'[u] = {}
    <3>1. bound'[u] = bound[u] /\ bound[u] = <<>>
      BY <2>1, <1>1
    <3> QED
      BY <3>1
  <2> QED
    BY <2>2
<1>8. \A u \in linked \ {o} : bound'[u] = bound[u]
  BY <1>2, <1>3
<1>9. Bound' = Bound \cup {<<o, i>>}
  <2>1. ASSUME NEW r \in Bound' PROVE r \in Bound \cup {<<o, i>>}
    <3>1. PICK u \in linked' : \E j \in DOMAIN bound'[u] : r = <<u, j>>
      BY <1>6, <2>1
    <3>2. PICK j \in DOMAIN bound'[u] : r = <<u, j>>
      BY <3>1
    <3>3. u \in linked
      BY <1>7, <3>2
    <3>4. j \in DOMAIN bound[u] \/ (u = o /\ j = i)
      BY <1>5, <1>8, <3>2, <3>3
    <3> QED
      BY <3>2, <3>3, <3>4, BoundIs
  <2>2. ASSUME NEW r \in Bound \cup {<<o, i>>} PROVE r \in Bound'
    <3>1. PICK u \in linked : \E j \in DOMAIN bound'[u] : r = <<u, j>>
      <4>1. CASE r \in Bound
        <5>1. r = <<r[1], r[2]>> /\ r[1] \in linked /\ r[2] \in DOMAIN bound[r[1]]
          BY <4>1, BoundIs
        <5>2. r[2] \in DOMAIN bound'[r[1]]
          BY <1>5, <1>8, <5>1
        <5> QED
          BY <5>1, <5>2
      <4>2. CASE r = <<o, i>>
        BY <1>1, <1>5, <4>2
      <4> QED
        BY <2>2, <4>1, <4>2
    <3> QED
      BY <1>6, <3>1
  <2> QED
    BY <2>1, <2>2
<1>10. \A u : xrefs(u)' = xrefs(u)
  BY DEF xrefs, UNDEFSYMBOLS
<1>11. \A r \in Bound : BoundTo(r)' = BoundTo(r) /\ XrefOf(r)' = XrefOf(r)
  <2>1. ASSUME NEW r \in Bound PROVE BoundTo(r)' = BoundTo(r)
    <3>1. r[1] \in linked /\ r[2] \in DOMAIN bound[r[1]]
      BY BoundIs
    <3> QED
      BY <1>4, <1>8, <3>1 DEF BoundTo
  <2> QED
    BY <1>10, <2>1 DEF XrefOf
<1>12. BoundTo(<<o, i>>)' = s /\ XrefOf(<<o, i>>)' = x
  <2>1. XrefOf(<<o, i>>)' = xrefs(o)[i]
    BY <1>10 DEF XrefOf
  <2> QED
    BY <1>4, <2>1 DEF BoundTo, Xref
<1>13. \A n : \A r \in RefsTo(n) : r \in RefsTo(n)' /\ XrefOf(r)' = XrefOf(r)
  BY <1>9, <1>11 DEF RefsTo
<1>14. <<o, i>> \in RefsTo(x.name)'
  BY <1>9, <1>12 DEF RefsTo
<1>15. \A n : WeakRef(n) => WeakRef(n)'
  BY <1>13 DEF WeakRef
<1>16. \A n : LocalRef(n) => LocalRef(n)'
  BY <1>13 DEF LocalRef
<1> QED
  BY <1>9, <1>11, <1>12, <1>14, <1>15, <1>16 DEF WeakRef, LocalRef

-----------------------------------------------------------------------------
(* What a step leaves alone. *)

LEMMA SameChains ==
  ASSUME UNCHANGED <<prog, link, objsyms>>
  PROVE  \A n : /\ Chain(n)' = Chain(n) /\ InChain(n)' = InChain(n) /\ Live(n)' = Live(n)
                /\ ChainOk(n)' <=> ChainOk(n)
<1>1. \A n : Chain(n)' = Chain(n)
  BY DEF Chain, Steps, MaxChain, Bucket
<1>2. \A n : InChain(n)' = InChain(n)
  BY <1>1 DEF InChain, MaxChain, Nil
<1>3. \A n : Live(n)' = Live(n)
  BY DEF Live, NameOf
<1>4. \A n : ChainOk(n)' <=> ChainOk(n)
  BY <1>3 DEF ChainOk, Sym, Label, NameOf, UnitOf, Bucket, Nil
<1> QED
  BY <1>1, <1>2, <1>3, <1>4

LEMMA SameListed ==
  ASSUME Listed, UNCHANGED <<prog, selobjects, linked, bound, xtors, xtorsDone, obj>>,
         phase' = phase \/ (phase = "pull" /\ phase' \in {"resolve", "ierror"})
  PROVE  Listed'
<1>1. \A u : xrefs(u)' = xrefs(u) /\ Complete(u)' = Complete(u)
  BY DEF Complete, xrefs, UNDEFSYMBOLS
<1>2. Obj' = Obj
  BY DEF Obj
<1>3. phase' \in {"resolve", "pull"} => phase \in {"resolve", "pull"}
  OBVIOUS
<1>4. phase' = "done" => phase = "done"
  OBVIOUS
<1>5. phase' = "load" => phase = "load"
  OBVIOUS
<1> QED
  BY <1>1, <1>2, <1>3, <1>4, <1>5 DEF Listed

LEMMA KeptLoading ==
  ASSUME Loading, phase # "load", phase' # "load", UNCHANGED <<prog, loaded, unread>>, linked \subseteq linked',
         \A n \in Names : link[Bucket(n)] # Nil => link'[Bucket(n)] # Nil,
         Label \in lnksyms => Label \in lnksyms' \/ link'[Bucket(CtorLabel)] # Nil
  PROVE  Loading'
<1>1. \A u, n : Defines(u, n)' = Defines(u, n)
  BY DEF Defines
<1>2. Read' = Read
  BY DEF Read
<1>3. CtorLabel \in Names
  BY FilesAssumption
<1> QED
  BY <1>1, <1>2, <1>3 DEF Loading, Bucket, Label

LEMMA SamePulls ==
  ASSUME Pulls, Bound' = Bound, \A r \in Bound : BoundTo(r)' = BoundTo(r), prog' = prog,
         linked' \cap Members = linked \cap Members, linked \subseteq linked',
         phase' = "pull" => /\ phase = "pull" /\ UNCHANGED <<bound, selobjects, obj>>
                            /\ walk'.todo \subseteq walk.todo
                            /\ walk'.at # Nil => Defines(Pulled, NameOf(walk'.at))
  PROVE  Pulls'
<1>1. \A u, n : Defines(u, n)' = Defines(u, n)
  BY DEF Defines
<1>2. ASSUME phase' = "pull"
      PROVE  /\ bound'[Obj'] # <<>> /\ Pulled' \in Members \cap linked'
             /\ \A n \in walk'.todo : Defines(Pulled', n)
             /\ walk'.at # Nil => Defines(Pulled', NameOf(walk'.at))
  <2>1. Obj' = Obj
    BY <1>2 DEF Obj
  <2>2. Pulled' = Pulled
    BY <1>2, <2>1 DEF Pulled, UnitOf
  <2> QED
    BY <1>2, <2>1, <2>2 DEF Pulls
<1>3. \A u \in linked' \cap Members : \E r \in Bound' : UnitOf(BoundTo(r)') = u
  BY DEF Pulls
<1>4. \A r \in Bound' : BoundTo(r)' # Nil => UnitOf(BoundTo(r)') \in linked' \cup {LNK, INITEXIT}
  BY DEF Pulls
<1> QED
  BY <1>2, <1>3, <1>4, prog' = prog DEF Pulls, Defines, UnitOf, NameOf, Nil, LNK, INITEXIT

LEMMA SameChainsKept ==
  ASSUME Chains, UNCHANGED <<prog, link, objsyms, freed>>, linked \subseteq linked',
         phase' # "load", INITEXIT \notin linked' => walk'.at # Label
  PROVE  Chains'
<1>1. \A n : ChainOk(n)' <=> ChainOk(n)
  BY SameChains
<1>2. \A n : Contested(n)' = Contested(n)
  BY SymSame
<1>3. \A n : Stable(n)' => Stable(n)
  BY <1>2 DEF Stable
<1>4. Contested(CtorLabel)' = Contested(CtorLabel)
  BY <1>2
<1>5. Label' = Label /\ INITEXIT' = INITEXIT /\ Nil' = Nil /\ Places' = Places
  BY DEF Label, INITEXIT, Nil, Places, Buckets, Syms
<1> QED
  BY <1>1, <1>3, <1>4, <1>5 DEF Chains

\* Only the reference that is looked at has an indirect symbol.
LEMMA NoIndirect ==
  ASSUME Asked, phase # "resolve" \/ ~AtXref
  PROVE  indir = Nil
<1> QED
  BY DEF Asked, AtXref

LEMMA SameAsked ==
  ASSUME Asked, Bound' = Bound, prog' = prog, indir' = Nil,
         \A r \in Bound : BoundTo(r)' = BoundTo(r) /\ XrefOf(r)' = XrefOf(r),
         \A n : WeakRef(n)' = WeakRef(n) /\ LocalRef(n)' = LocalRef(n),
         \A n : <<LNK, n>> \in lnksyms' => <<LNK, n>> \in lnksyms,
         \A n : <<21, n>> \in errors' <=> <<21, n>> \in errors
  PROVE  Asked'
<1>1. \A u, n : Defines(u, n)' = Defines(u, n)
  BY DEF Defines
<1>2. \A n : Defined(n)' = Defined(n)
  BY SymSame
<1>3. \A n : Indirect(n)' = Indirect(n)
  BY SymSame DEF Indirect
<1>4. \A r \in Bound' : BoundTo(r)' = Nil => <<21, XrefOf(r)'.name>> \in errors'
  BY DEF Asked
<1>5. \A r \in Bound' : BoundTo(r)' # Nil => Defined(XrefOf(r)'.name) \/ WeakRef(XrefOf(r)'.name)
  BY DEF Asked
<1>6. \A r \in Bound' : BoundTo(r)' # Nil => Defined(XrefOf(r).name)' \/ WeakRef(XrefOf(r).name)'
  <2>1. ASSUME NEW r \in Bound', NEW x, x = XrefOf(r)', BoundTo(r)' # Nil
        PROVE  Defined(x.name)' \/ WeakRef(x.name)'
    BY <1>2, <1>5, <2>1
  <2> QED
    BY <2>1
<1>7. \A n \in Names : <<LNK, n>> \in lnksyms' => WeakRef(n)'
  BY DEF Asked
<1>8. \A n \in Names : <<21, n>> \in errors' => ~Defined(n)' \/ Indirect(n)' \/ LocalRef(n)'
  BY <1>2, <1>3 DEF Asked
<1> QED
  BY <1>4, <1>6, <1>7, <1>8 DEF Asked, Nil, LNK

LEMMA SameBindings ==
  ASSUME Bindings, Bound' = Bound, UNCHANGED <<prog, link, objsyms>>,
         \A r \in Bound : BoundTo(r)' = BoundTo(r)
  PROVE  Bindings'
<1>1. \A n : InChain(n)' = InChain(n) /\ Contested(n)' = Contested(n)
  BY SameChains, SymSame
<1>2. Defs' = Defs
  BY SymSame
<1>3. ASSUME NEW r \in Bound, NEW s, s = BoundTo(r), s \in Defs, ~Contested(NameOf(s))'
      PROVE  s = Label \/ s \in InChain(NameOf(s))'
  BY <1>1, <1>3 DEF Bindings, NameOf
<1>4. ASSUME NEW r \in Bound', NEW s, s = BoundTo(r)', s \in Defs', ~Contested(NameOf(s))'
      PROVE  s = Label \/ s \in InChain(NameOf(s))'
  BY <1>2, <1>3, <1>4
<1> QED
  BY <1>4 DEF Bindings, NameOf, Label

\* Where a symbol that was ahead of the walk is still ahead, or was reported.
LEMMA KeptCompared ==
  ASSUME Compared, phase \notin {"load", "ierror"}, prog' = prog, linked' = linked, errors \subseteq errors',
         \A n \in Names : ~Contested(n) => InChain(n)' = InChain(n),
         \A n \in Names : ~Contested(n) => \A s, t \in InChain(n) :
            (s # t /\ {UnitOf(s), UnitOf(t)} \subseteq linked /\ Pending(s, t)) => Pending(s, t)' \/ <<19, n>> \in errors'
  PROVE  Compared'
<1>1. \A n : Contested(n)' = Contested(n)
  BY SymSame
<1>2. ASSUME NEW n \in Names, ~Contested(n), NEW s \in InChain(n), NEW t \in InChain(n),
             s # t, {UnitOf(s), UnitOf(t)} \subseteq linked
      PROVE  <<19, n>> \in errors' \/ Pending(s, t)' \/ Pending(t, s)'
  <2>1. <<19, n>> \in errors \/ Pending(s, t) \/ Pending(t, s)
    BY <1>2 DEF Compared
  <2> QED
    BY <1>2, <2>1
<1> QED
  BY <1>1, <1>2 DEF Compared, UnitOf

\* What stands in a chain.
LEMMA InChainIs ==
  ASSUME TypeInv, NEW n \in Names, NEW s \in InChain(n)
  PROVE  /\ s \in Defs /\ NameOf(s) = n /\ s # Nil
         /\ \E l \in 1..MaxChain : s = Chain(n)[l]
<1>1. s # Nil /\ \E l \in 1..MaxChain : s = Chain(n)[l]
  BY DEF InChain
<1> QED
  BY <1>1, ChainIs DEF OfName

\* Nothing is ahead of the end.
LEMMA NoneAhead ==
  ASSUME TypeInv, NEW n \in Names, NEW t \in InChain(n), walk.at = Nil
  PROVE  ~Ahead(t)
<1>1. NameOf(t) = n /\ t # Nil /\ MaxChain \in Nat
  BY InChainIs, MaxChainIs
<1>2. ASSUME NEW k \in 0..MaxChain, NEW l \in 0..MaxChain, k < l, Nil = Chain(n)[k], t = Chain(n)[l]
      PROVE  FALSE
  <2>1. k <= l
    BY <1>1, <1>2
  <2> QED
    BY <1>1, <1>2, <2>1, NilStays
<1> QED
  BY <1>1, <1>2 DEF Ahead

-----------------------------------------------------------------------------
(* Every action keeps the invariant. *)

LEMMA ResolvedIs ==
  ASSUME TypeInv, Asked, AtXref, Xref \in Reference
  PROVE  /\ Wanted \in Names
         /\ indir # Nil => Defined(Xref.name) /\ Indirect(Xref.name)
         /\ Answer \in OfName(Wanted) \cup {Nil}
         /\ Answer # Nil => Answer \in InChain(Wanted)
         /\ Answer = Nil => link[Bucket(Wanted)] = Nil
<1>1. indir # Nil => Indirect(Xref.name)
  BY DEF Asked
<1>2. \A n : Indirect(n) => Defined(n)
  BY DEF Indirect, Defined
<1>3. Wanted \in Names
  <2>1. CASE indir = Nil
    BY <2>1 DEF Wanted, Reference
  <2>2. CASE indir # Nil
    <3>1. indir \in Defs
      BY <2>2 DEF TypeInv
    <3> QED
      BY <2>2, <3>1, SymType DEF Wanted
  <2> QED
    BY <2>1, <2>2
<1>4. /\ Answer \in OfName(Wanted) \cup {Nil}
      /\ Answer # Nil => Answer \in InChain(Wanted)
      /\ Answer = Nil => link[Bucket(Wanted)] = Nil
  BY <1>3, FindIs DEF Answer
<1> QED
  BY <1>1, <1>2, <1>3, <1>4

LEMMA FollowIndirectKeeps ==
  ASSUME LinkerInv, FollowIndirect
  PROVE  LinkerInv'
<1> USE DEF LinkerInv
<1>1. /\ UNCHANGED <<prog, phase, loaded, unread, link, objsyms, freed, selobjects, linked, lnksyms,
                 obj, bound, pripointers, xtors, xtorsDone, walk, errors>>
      /\ indir' = Answer /\ AtXref /\ IsIndirect(Answer)
  BY DEF FollowIndirect, Answers
<1>2. Xref \in Reference
  BY <1>1, AtXrefIs
<1>3. /\ Wanted \in Names /\ (indir # Nil => Indirect(Xref.name)) /\ Answer \in OfName(Wanted) \cup {Nil}
  BY <1>1, <1>2, ResolvedIs
<1>4. Answer \in Defs /\ NameOf(Answer) = Wanted
  BY <1>1, <1>3 DEF IsIndirect, OfName
<1>5. TypeInv'
  <2>1. Defs' = Defs
    BY <1>1, SymSame
  <2> QED
    BY <1>1, <1>4, <2>1 DEF TypeInv, Label, Nil, LnkSyms, Phases, Visitors, Places, Buckets, Syms, NameOf
<1>6. phase = "resolve"
  BY <1>1 DEF AtXref
<1>7. Listed'
  BY <1>1, SameListed
<1>8. Loading'
  BY <1>1, <1>6, KeptLoading
<1>9. /\ Bound' = Bound
      /\ \A r \in Bound : BoundTo(r)' = BoundTo(r) /\ XrefOf(r)' = XrefOf(r)
      /\ \A n : WeakRef(n)' = WeakRef(n) /\ LocalRef(n)' = LocalRef(n)
  BY <1>1, SameBound
<1>10. Pulls'
  BY <1>1, <1>6, <1>9, SamePulls
<1>11. Chains'
  BY <1>1, <1>6, SameChainsKept DEF Chains
<1>12. Indirect(Xref.name)
  <2>1. CASE indir # Nil
    BY <1>3, <2>1
  <2>2. CASE indir = Nil
    <3>1. Answer # Label
      BY <1>1 DEF IsIndirect, Sym
    <3>2. Answer \in Proper
      BY <1>4, <3>1 DEF Defs
    <3>3. UnitOf(Answer) \in Units /\ Defines(UnitOf(Answer), NameOf(Answer)) /\ Answer = <<UnitOf(Answer), NameOf(Answer)>>
      BY <1>4, <3>2, SymFacts DEF Proper
    <3>4. NameOf(Answer) = Xref.name
      BY <1>4, <2>2 DEF Wanted
    <3> QED
      BY <1>1, <3>3, <3>4 DEF Indirect
  <2> QED
    BY <2>1, <2>2
<1>13. Asked'
  <2>1. Xref' = Xref /\ (AtXref' <=> AtXref)
    BY <1>1 DEF Xref, AtXref, Obj, xrefs, UNDEFSYMBOLS
  <2>2. \A n : Indirect(n)' = Indirect(n)
    BY <1>1, SymSame DEF Indirect
  <2>3. Indirect(Xref.name)'
    <3>1. ASSUME NEW x, x = Xref, x = Xref' PROVE Indirect(x.name)'
      BY <1>12, <2>2, <3>1
    <3> QED
      BY <2>1, <3>1
  <2>4. IsIndirect(Answer)
    BY <1>1
  <2>5. IsIndirect(indir)'
    BY <1>1, <2>4 DEF IsIndirect, Sym, Label, Nil, UnitOf, NameOf
  <2> DEFINE A == /\ \A r \in Bound : BoundTo(r) = Nil => <<21, XrefOf(r).name>> \in errors
                  /\ \A r \in Bound : BoundTo(r) # Nil => Defined(XrefOf(r).name) \/ WeakRef(XrefOf(r).name)
                  /\ \A n \in Names : <<LNK, n>> \in lnksyms => WeakRef(n)
                  /\ \A n \in Names : <<21, n>> \in errors => ~Defined(n) \/ Indirect(n) \/ LocalRef(n)
  <2>6. A
    BY DEF Asked
  <2>7. A'
    <3>1. \A n : Defined(n)' = Defined(n)
      BY <1>1, SymSame
    <3>2. \A r \in Bound' : BoundTo(r)' = BoundTo(r) /\ XrefOf(r)' = XrefOf(r)
      BY <1>9
    <3>3. ASSUME NEW r \in Bound', BoundTo(r)' # Nil PROVE Defined(XrefOf(r).name)' \/ WeakRef(XrefOf(r).name)'
      <4>1. ASSUME NEW x, x = XrefOf(r), x = XrefOf(r)' PROVE Defined(x.name)' \/ WeakRef(x.name)'
        BY <1>9, <2>6, <3>1, <3>2, <3>3, <4>1
      <4> QED
        BY <1>9, <3>2, <4>1
    <3>4. \A r \in Bound' : BoundTo(r)' = Nil => <<21, XrefOf(r)'.name>> \in errors'
      BY <1>1, <1>9, <2>6
    <3>5. \A n \in Names : <<LNK, n>> \in lnksyms' => WeakRef(n)'
      BY <1>1, <1>9, <2>6
    <3>6. \A n \in Names : <<21, n>> \in errors' => ~Defined(n)' \/ Indirect(n)' \/ LocalRef(n)'
      BY <1>1, <1>9, <2>2, <2>6, <3>1
    <3> QED
      BY <3>3, <3>4, <3>5, <3>6 DEF Nil, LNK
  <2> QED
    BY <1>1, <2>1, <2>3, <2>5, <2>7 DEF Asked
<1>14. Compared'
  <2>1. \A n : InChain(n)' = InChain(n) /\ Contested(n)' = Contested(n)
    BY <1>1, SameChains, SymSame
  <2>2. phase' = "resolve" /\ linked' = linked /\ errors' = errors
    BY <1>1, <1>6
  <2>3. \A n \in Names : ~Contested(n) => \A s, t \in InChain(n) :
           (s # t /\ {UnitOf(s), UnitOf(t)} \subseteq linked) => <<19, n>> \in errors
    BY <1>6 DEF Compared, Pending
  <2> QED
    BY <2>1, <2>2, <2>3 DEF Compared, UnitOf
<1>15. Bindings'
  BY <1>1, <1>9, SameBindings
<1> QED
  BY <1>5, <1>7, <1>8, <1>10, <1>11, <1>13, <1>14, <1>15

LEMMA PullSymbolKeeps ==
  ASSUME LinkerInv, PullSymbol
  PROVE  LinkerInv'
<1> USE DEF LinkerInv
<1>1. /\ UNCHANGED <<prog, phase, loaded, unread, link, objsyms, freed, selobjects, linked, lnksyms,
                 obj, indir, bound, pripointers, xtors, xtorsDone, errors>>
      /\ phase = "pull" /\ walk.at = Nil
  BY DEF PullSymbol
<1>2. PICK n \in walk.todo : walk' = [todo |-> walk.todo \ {n}, at |-> Bucket(n)]
  BY DEF PullSymbol
<1>3. /\ n \in Names /\ walk.todo \subseteq Names
      /\ walk'.todo = walk.todo \ {n} /\ walk'.at = Bucket(n)
      /\ Bucket(n) \in Places /\ Bucket(n) \notin Syms /\ NameOf(Bucket(n)) = n /\ Bucket(n) # Nil
  <2>1. walk.todo \subseteq Names
    BY DEF TypeInv
  <2> QED
    BY <1>2, <2>1, PlaceFacts
<1>4. TypeInv'
  <2>1. Defs' = Defs
    BY <1>1, SymSame
  <2>2. walk' \in [todo : SUBSET Names, at : Places]
    BY <1>2, <1>3
  <2> QED
    BY <1>1, <2>1, <2>2 DEF TypeInv, Label, Nil, LnkSyms, Phases, Visitors, Places, Buckets, Syms, NameOf
<1>5. Listed'
  BY <1>1, SameListed
<1>6. Loading'
  BY <1>1, KeptLoading
<1>7. /\ Bound' = Bound
      /\ \A r \in Bound : BoundTo(r)' = BoundTo(r) /\ XrefOf(r)' = XrefOf(r)
      /\ \A m : WeakRef(m)' = WeakRef(m) /\ LocalRef(m)' = LocalRef(m)
  BY <1>1, SameBound
<1>8. Pulls'
  <2>1. Defines(Pulled, NameOf(walk'.at))
    BY <1>1, <1>3 DEF Pulls
  <2> QED
    BY <1>1, <1>3, <1>7, <2>1, SamePulls
<1>9. Chains'
  BY <1>1, <1>3, SameChainsKept, PlaceFacts
<1>10. Asked'
  <2>1. indir = Nil
    BY <1>1, NoIndirect
  <2> QED
    BY <1>1, <1>7, <2>1, SameAsked
<1>11. Compared'
  <2>1. \A m : Chain(m)' = Chain(m) /\ InChain(m)' = InChain(m) /\ Contested(m)' = Contested(m)
    BY <1>1, SameChains, SymSame
  <2>2. Pulled' = Pulled
    BY <1>1 DEF Pulled, Obj, UnitOf
  <2>3. ASSUME NEW m \in Names, NEW s \in InChain(m), NEW t \in InChain(m), Pending(s, t)
        PROVE  Pending(s, t)'
    <3>1. UnitOf(s) = Pulled /\ (NameOf(s) \in walk.todo \/ Ahead(t))
      BY <2>3 DEF Pending
    <3>2. NameOf(s) = m /\ NameOf(t) = m /\ ~Ahead(t)
      BY <1>1, InChainIs, NoneAhead
    <3>3. PICK l \in 1..MaxChain : t = Chain(m)[l]
      BY InChainIs
    <3>4. CASE m # n
      BY <1>1, <1>3, <2>2, <3>1, <3>2, <3>4 DEF Pending, UnitOf, NameOf
    <3>5. CASE m = n
      <4>1. 0 \in 0..MaxChain /\ l \in 0..MaxChain /\ 0 < l
        BY MaxChainIs
      <4>2. Chain(m)[0] = Bucket(m)
        BY ChainIs
      <4>3. walk'.at = Chain(m)'[0] /\ t = Chain(m)'[l]
        BY <1>3, <2>1, <3>3, <3>5, <4>2
      <4>4. Ahead(t)'
        BY <3>2, <4>1, <4>3 DEF Ahead, NameOf, MaxChain
      <4> QED
        BY <1>1, <2>2, <3>1, <4>4 DEF Pending, UnitOf
    <3> QED
      BY <3>4, <3>5
  <2> QED
    BY <1>1, <2>1, <2>3, KeptCompared
<1>12. Bindings'
  BY <1>1, <1>7, SameBindings
<1> QED
  BY <1>4, <1>5, <1>6, <1>8, <1>9, <1>10, <1>11, <1>12

LEMMA PullDoneKeeps ==
  ASSUME LinkerInv, PullDone
  PROVE  LinkerInv'
<1> USE DEF LinkerInv
<1>1. /\ UNCHANGED <<prog, loaded, unread, link, objsyms, freed, selobjects, linked, lnksyms, obj,
                 indir, bound, pripointers, xtors, xtorsDone, walk, errors>>
      /\ phase = "pull" /\ phase' = "resolve" /\ walk.at = Nil /\ walk.todo = {}
  BY DEF PullDone
<1>2. TypeInv'
  <2>1. Defs' = Defs
    BY <1>1, SymSame
  <2>2. phase' \in Phases
    BY <1>1 DEF Phases
  <2> QED
    BY <1>1, <2>1, <2>2 DEF TypeInv, Label, Nil, LnkSyms, Phases, Visitors, Places, Buckets, Syms, NameOf
<1>3. Listed'
  BY <1>1, SameListed
<1>4. Loading'
  BY <1>1, KeptLoading
<1>5. /\ Bound' = Bound
      /\ \A r \in Bound : BoundTo(r)' = BoundTo(r) /\ XrefOf(r)' = XrefOf(r)
      /\ \A m : WeakRef(m)' = WeakRef(m) /\ LocalRef(m)' = LocalRef(m)
  BY <1>1, SameBound
<1>6. Pulls'
  BY <1>1, <1>5, SamePulls
<1>7. Chains'
  BY <1>1, SameChainsKept, PlaceFacts DEF Chains
<1>8. Asked'
  <2>1. indir = Nil
    BY <1>1, NoIndirect
  <2> QED
    BY <1>1, <1>5, <2>1, SameAsked
<1>9. Compared'
  <2>1. \A m : InChain(m)' = InChain(m)
    BY <1>1, SameChains
  <2>2. ASSUME NEW m \in Names, NEW s \in InChain(m), NEW t \in InChain(m) PROVE ~Pending(s, t)
    BY <1>1, NoneAhead DEF Pending
  <2> QED
    BY <1>1, <2>1, <2>2, KeptCompared
<1>10. Bindings'
  BY <1>1, <1>5, SameBindings
<1> QED
  BY <1>2, <1>3, <1>4, <1>6, <1>7, <1>8, <1>9, <1>10

\* One round of the walk over a chain.
LEMMA ClashIs ==
  ASSUME NEW s, NEW g
  PROVE  /\ Clash(s, g) \in {"none", "error", "replace", "ignore"}
         /\ (g # s /\ UnitOf(g) \in linked) => Clash(s, g) # "none"
         /\ Clash(s, g) \in {"replace", "ignore"} => g # s /\ EitherCommon(Sym(s), Sym(g))
BY DEF Clash

Relinked(l, s, g, at) == [l EXCEPT ![s] = l[g], ![at] = s]

LEMMA PullStepIs ==
  ASSUME TypeInv, Pulls, PullStep, NEW at, at = walk.at, NEW n, n = NameOf(at), NEW p, p = Pulled,
         NEW s, s = <<p, n>>, NEW g, g = link[at]
  PROVE  /\ UNCHANGED <<prog, loaded, unread, selobjects, linked, lnksyms, obj, indir, bound, pripointers,
                        xtors, xtorsDone>>
         /\ phase = "pull" /\ at # Nil /\ at \in Places /\ n \in Names /\ p \in Members /\ p \in linked /\ Defines(p, n)
         /\ s \in Proper /\ s \in Places /\ g \in OfName(n) \cup {Nil}
         /\ walk'.todo = walk.todo /\ walk'.at \in OfName(n) \cup {Nil}
         /\ walk' \in [todo : SUBSET Names, at : Places]
         /\ \/ /\ g = Nil /\ walk'.at = Nil /\ UNCHANGED <<phase, link, objsyms, freed, errors>>
            \/ /\ g # Nil /\ Clash(s, g) = "none" /\ walk'.at = g /\ UNCHANGED <<phase, link, objsyms, freed, errors>>
            \/ /\ g # Nil /\ Clash(s, g) = "error" /\ walk'.at = g /\ errors' = errors \cup {<<19, n>>}
               /\ UNCHANGED <<phase, link, objsyms, freed>>
            \/ /\ g # Nil /\ Clash(s, g) = "replace" /\ link' = Relinked(link, s, g, at) /\ walk'.at = s
               /\ objsyms' = objsyms \ {g} /\ freed' = freed \cup {g}
               /\ phase' \in {phase, "ierror"} /\ UNCHANGED errors
            \/ /\ g # Nil /\ Clash(s, g) = "ignore" /\ walk'.at = Nil /\ objsyms' = objsyms \ {s}
               /\ UNCHANGED <<phase, link, freed, errors>>
<1>1. /\ UNCHANGED <<prog, loaded, unread, selobjects, linked, lnksyms, obj, indir, bound, pripointers,
                        xtors, xtorsDone>>
      /\ phase = "pull" /\ at # Nil
  BY DEF PullStep
<1>2. /\ p \in Members /\ p \in linked /\ Defines(p, n)
  BY <1>1 DEF Pulls
<1>3. at \in Places /\ walk \in [todo : SUBSET Names, at : Places] /\ link \in [Places -> Defs \cup {Nil}]
  BY DEF TypeInv
<1>4. n \in Names
  BY <1>1, <1>3 DEF Places, Buckets, Syms, NameOf
<1>5. s \in Proper /\ s \in Places /\ NameOf(s) = n /\ s \in OfName(n)
  <2>1. p \in Units
    BY <1>2 DEF Units
  <2>2. UnitOf(s) = p /\ NameOf(s) = n
    BY DEF UnitOf, NameOf
  <2>3. s \in Proper
    BY <1>2, <1>4, <2>1, <2>2 DEF Proper
  <2> QED
    BY <2>2, <2>3, PlaceFacts DEF Defs, OfName
<1>6. g \in OfName(n) \cup {Nil}
  <2>1. link[at] \in Defs \cup {Nil} /\ (link[at] # Nil => NameOf(link[at]) = NameOf(at))
    BY <1>3 DEF TypeInv
  <2> QED
    BY <2>1 DEF OfName
<1>7. Relinked(link, s, g, at)[at] = s
  BY <1>3, <1>5 DEF Relinked
<1>8. \/ /\ g = Nil /\ walk' = [walk EXCEPT !.at = Nil] /\ UNCHANGED <<phase, link, objsyms, freed, errors>>
      \/ /\ g # Nil /\ Clash(s, g) = "none" /\ walk' = [walk EXCEPT !.at = g] /\ UNCHANGED <<phase, link, objsyms, freed, errors>>
      \/ /\ g # Nil /\ Clash(s, g) = "error" /\ walk' = [walk EXCEPT !.at = g] /\ errors' = errors \cup {<<19, n>>}
         /\ UNCHANGED <<phase, link, objsyms, freed>>
      \/ /\ g # Nil /\ Clash(s, g) = "replace" /\ link' = Relinked(link, s, g, at)
         /\ walk' = [walk EXCEPT !.at = Relinked(link, s, g, at)[at]]
         /\ objsyms' = objsyms \ {g} /\ freed' = freed \cup {g}
         /\ phase' \in {phase, "ierror"} /\ UNCHANGED errors
      \/ /\ g # Nil /\ Clash(s, g) = "ignore" /\ walk' = [walk EXCEPT !.at = Nil] /\ objsyms' = objsyms \ {s}
         /\ UNCHANGED <<phase, link, freed, errors>>
  <2>1. Clash(s, g) \in {"none", "error", "replace", "ignore"}
    BY ClashIs
  <2> HIDE DEF Clash
  <2> QED
    BY <2>1 DEF PullStep, Relinked
<1>9. \A x \in Places : /\ [walk EXCEPT !.at = x].at = x /\ [walk EXCEPT !.at = x].todo = walk.todo
                        /\ [walk EXCEPT !.at = x] \in [todo : SUBSET Names, at : Places]
  BY <1>3
<1>10. Nil \in Places /\ (g # Nil => g \in Places)
  BY <1>6, PlaceFacts DEF OfName
<1> HIDE DEF Relinked
<1> QED
  BY <1>1, <1>2, <1>3, <1>4, <1>5, <1>6, <1>7, <1>8, <1>9, <1>10

LEMMA PullStepKeeps ==
  ASSUME LinkerInv, PullStep
  PROVE  LinkerInv'
<1> USE DEF LinkerInv
<1> DEFINE at == walk.at
           n == NameOf(walk.at)
           p == Pulled
           s == <<Pulled, NameOf(walk.at)>>
           g == link[walk.at]
<1>1. /\ UNCHANGED <<prog, loaded, unread, selobjects, linked, lnksyms, obj, indir, bound, pripointers,
                     xtors, xtorsDone>>
      /\ phase = "pull" /\ at # Nil /\ at \in Places /\ n \in Names /\ p \in Members /\ p \in linked /\ Defines(p, n)
      /\ s \in Proper /\ s \in Places /\ g \in OfName(n) \cup {Nil}
      /\ walk'.todo = walk.todo /\ walk'.at \in OfName(n) \cup {Nil}
  BY PullStepIs
<1>2. \/ /\ g = Nil /\ walk'.at = Nil /\ UNCHANGED <<phase, link, objsyms, freed, errors>>
      \/ /\ g # Nil /\ Clash(s, g) = "none" /\ walk'.at = g /\ UNCHANGED <<phase, link, objsyms, freed, errors>>
      \/ /\ g # Nil /\ Clash(s, g) = "error" /\ walk'.at = g /\ errors' = errors \cup {<<19, n>>}
         /\ UNCHANGED <<phase, link, objsyms, freed>>
      \/ /\ g # Nil /\ Clash(s, g) = "replace" /\ link' = Relinked(link, s, g, at) /\ walk'.at = s
         /\ objsyms' = objsyms \ {g} /\ freed' = freed \cup {g}
         /\ phase' \in {phase, "ierror"} /\ UNCHANGED errors
      \/ /\ g # Nil /\ Clash(s, g) = "ignore" /\ walk'.at = Nil /\ objsyms' = objsyms \ {s}
         /\ UNCHANGED <<phase, link, freed, errors>>
  BY PullStepIs
<1>3. /\ s \in Defs /\ NameOf(s) = n /\ UnitOf(s) = p /\ s # Label /\ s # Nil /\ p \in Units
      /\ s \notin Buckets /\ (g # Nil => g \in Defs /\ NameOf(g) = n) /\ NameOf(at) = n
  <2>1. p \in Units
    BY <1>1 DEF Units
  <2>2. s \in Defs /\ s # Nil
    BY <1>1, PlaceFacts DEF Defs
  <2>3. Buckets \cap Syms = {}
    BY PlaceFacts DEF Buckets, Bucket
  <2>4. s \notin Buckets
    BY <2>2, <2>3, PlaceFacts
  <2>5. NameOf(s) = n /\ UnitOf(s) = p /\ s # Label
    BY <1>1, <2>1, SymFacts
  <2> QED
    BY <1>1, <2>1, <2>2, <2>4, <2>5 DEF OfName
\* What is done for a name that no archive contests.
<1>4. ~Contested(n) => Clash(s, g) \notin {"replace", "ignore"} \/ g = Nil
  <2>1. ASSUME Clash(s, g) \in {"replace", "ignore"}, g # Nil PROVE Contested(n)
    <3>1. g # s /\ EitherCommon(Sym(s), Sym(g))
      BY <2>1, ClashIs
    <3>2. CASE g = Label
      <4>1. n = CtorLabel
        BY <1>3, <3>2, PlaceFacts
      <4> QED
        BY <1>1, <1>3, <4>1 DEF Contested
    <3>3. CASE g # Label
      <4>1. UnitOf(g) \in Units /\ g = <<UnitOf(g), n>> /\ g \in Proper
        BY <1>3, <2>1, <3>3, SymFacts
      <4>2. UnitOf(g) # p /\ Defines(UnitOf(g), n)
        <5>1. g # <<p, n>>
          BY <3>1
        <5>2. Defines(UnitOf(g), NameOf(g)) /\ NameOf(g) = n
          BY <1>3, <2>1, <4>1 DEF Proper
        <5> HIDE DEF g, p, n, s
        <5> QED
          BY <4>1, <5>1, <5>2
      <4>3. EitherCommon(Sym(<<p, n>>), Sym(<<UnitOf(g), n>>))
        BY <3>1, <4>1
      <4>4. UnitOf(g) \in Units \ {p}
        BY <4>1, <4>2
      <4> HIDE DEF g, p, n
      <4>5. ArchiveCommon(n)
        BY <1>1, <4>2, <4>3, <4>4 DEF ArchiveCommon
      <4> QED
        BY <4>5 DEF Contested
    <3> QED
      BY <3>2, <3>3
  <2> QED
    BY <2>1
<1> HIDE DEF s, g, n, p, at
<1>5. phase' \in {"pull", "ierror"}
  BY <1>1, <1>2
<1>6. (link' = link /\ objsyms' \subseteq objsyms /\ freed' = freed) \/
      (link' = Relinked(link, s, g, at) /\ objsyms' = objsyms \ {g} /\ freed' = freed \cup {g} /\ g # Nil)
  BY <1>2
\* The links that are changed are of the name n.
<1>7. /\ link' \in [Places -> Defs \cup {Nil}]
      /\ \A q \in Places : NameOf(q) # n => link'[q] = link[q]
      /\ \A q \in Places : link'[q] # Nil => NameOf(link'[q]) = NameOf(q)
      /\ \A q \in Places : link'[q] = s \/ \E x \in Places : link'[q] = link[x]
      /\ link'[Nil] = Nil
      /\ \A b \in Buckets : link[b] # Nil => link'[b] # Nil
  <2>1. /\ link \in [Places -> Defs \cup {Nil}] /\ link[Nil] = Nil
        /\ \A q \in Places : link[q] # Nil => NameOf(link[q]) = NameOf(q)
    BY DEF TypeInv
  <2>2. CASE link' = link
    BY <2>1, <2>2
  <2>3. CASE link' = Relinked(link, s, g, at) /\ g # Nil
    <3>1. g \in Places /\ Nil \in Places /\ Buckets \subseteq Places
      BY <1>3, <2>3, PlaceFacts DEF Places
    <3>2. link[g] \in Defs \cup {Nil} /\ (link[g] # Nil => NameOf(link[g]) = n)
      BY <1>3, <2>1, <2>3, <3>1
    <3>3. link' \in [Places -> Defs \cup {Nil}] /\ link'[at] = s /\ (s # at => link'[s] = link[g])
          /\ \A q \in Places \ {s, at} : link'[q] = link[q]
      BY <1>1, <1>3, <2>1, <2>3, <3>2 DEF Relinked
    <3>4. \A q \in Places : q = at \/ (q = s /\ s # at) \/ q \in Places \ {s, at}
      OBVIOUS
    <3>5. \A q \in Places : NameOf(q) # n => link'[q] = link[q]
      BY <1>3, <3>3
    <3>6. \A q \in Places : link'[q] # Nil => NameOf(link'[q]) = NameOf(q)
      BY <1>3, <2>1, <3>2, <3>3, <3>4
    <3>7. \A q \in Places : link'[q] = s \/ \E x \in Places : link'[q] = link[x]
      BY <3>1, <3>3, <3>4
    <3>8. link'[Nil] = Nil
      BY <1>1, <1>3, <2>1, <3>1, <3>3
    <3>9. \A b \in Buckets : link[b] # Nil => link'[b] # Nil
      BY <1>3, <3>1, <3>3, <3>4
    <3> QED
      BY <3>3, <3>5, <3>6, <3>7, <3>8, <3>9
  <2> QED
    BY <1>6, <2>2, <2>3
<1>8. TypeInv'
  <2>1. Defs' = Defs
    BY <1>1, SymSame
  <2>2. objsyms' \subseteq Defs /\ freed' \subseteq Defs
    BY <1>3, <1>6 DEF TypeInv
  <2>3. errors' \subseteq {19, 21} \X Names
    BY <1>1, <1>2 DEF TypeInv
  <2>4. walk' \in [todo : SUBSET Names, at : Places]
    BY PullStepIs
  <2>5. phase' \in Phases
    BY <1>5 DEF Phases
  <2> QED
    BY <1>1, <1>7, <2>1, <2>2, <2>3, <2>4, <2>5
      DEF TypeInv, Label, Nil, LnkSyms, Visitors, Places, Buckets, Syms, NameOf
<1>9. Listed'
  BY <1>1, <1>5, SameListed
<1>10. Loading'
  <2>1. \A m \in Names : link[Bucket(m)] # Nil => link'[Bucket(m)] # Nil
    BY <1>7 DEF Bucket, Buckets
  <2> QED
    BY <1>1, <1>5, <2>1, KeptLoading
<1>11. /\ Bound' = Bound
       /\ \A r \in Bound : BoundTo(r)' = BoundTo(r) /\ XrefOf(r)' = XrefOf(r)
       /\ \A m : WeakRef(m)' = WeakRef(m) /\ LocalRef(m)' = LocalRef(m)
  BY <1>1, SameBound
<1>12. Pulls'
  <2>1. walk'.at # Nil => NameOf(walk'.at) = n
    BY <1>1 DEF OfName
  <2>2. Defines(Pulled, n)
    BY <1>1 DEF p
  <2> QED
    BY <1>1, <1>11, <2>1, <2>2, SamePulls
<1>13. Asked'
  <2>1. indir = Nil
    BY <1>1, NoIndirect
  <2>2. \A m : <<21, m>> \in errors' <=> <<21, m>> \in errors
    BY <1>2
  <2> QED
    BY <1>1, <1>11, <2>1, <2>2, SameAsked
\* The chain of an uncontested name.
<1>14. ASSUME NEW m \in Names, ~Contested(m)
       PROVE  /\ \A q \in OfName(m) \cup {Nil, Bucket(m)} : link'[q] = link[q]
              /\ Live(m)' = Live(m)
  <2>1. CASE m = n
    <3>1. link' = link /\ objsyms' = objsyms
      BY <1>2, <1>4, <1>14, <2>1
    <3> QED
      BY <3>1 DEF Live, NameOf
  <2>2. CASE m # n
    <3>1. \A q \in OfName(m) \cup {Bucket(m)} : q \in Places /\ NameOf(q) # n
      BY <1>14, <2>2, PlaceFacts DEF OfName
    <3>2. objsyms' \subseteq objsyms /\ \A x \in objsyms : NameOf(x) = m => x \in objsyms'
      BY <1>2, <1>3, <2>2
    <3>3. link[Nil] = Nil
      BY DEF TypeInv
    <3> QED
      BY <1>7, <3>1, <3>2, <3>3 DEF Live, NameOf
  <2> QED
    BY <2>1, <2>2
<1>15. ASSUME NEW m \in Names, ~Contested(m) PROVE InChain(m)' = InChain(m) /\ \A k \in 0..MaxChain : Chain(m)'[k] = Chain(m)[k]
  <2>1. \A k \in 0..MaxChain : Chain(m)'[k] = Chain(m)[k]
    BY <1>14, <1>15, ChainSame
  <2>2. \A k \in 1..MaxChain : k \in 0..MaxChain
    BY MaxChainIs
  <2>3. InChain(m)' = {Chain(m)'[k] : k \in 1..MaxChain} \ {Nil}
    BY DEF InChain, MaxChain, Nil
  <2> QED
    BY <2>1, <2>2, <2>3 DEF InChain
<1>16. Chains'
  <2>1. \A m : Contested(m)' = Contested(m)
    BY <1>1, SymSame
  <2>2. ASSUME NEW m \in Names, Stable(m)' PROVE ChainOk(m)'
    <3>1. ~Contested(m)
      BY <1>5, <2>1, <2>2 DEF Stable
    <3>2. ChainOk(m)
      BY <3>1 DEF Chains, Stable
    <3> QED
      BY <1>1, <1>14, <3>1, <3>2, OtherOk
  <2>3. objsyms' \cap freed' = {}
    BY <1>6 DEF Chains
  <2>4. ~Contested(CtorLabel) => Label \notin freed'
    <3>1. ASSUME ~Contested(CtorLabel), Label \in freed' PROVE FALSE
      <4>1. Label \notin freed
        BY <3>1 DEF Chains
      <4>2. g = Label /\ Clash(s, g) = "replace" /\ g # Nil
        BY <1>2, <3>1, <4>1
      <4>3. n = CtorLabel
        BY <1>3, <4>2, PlaceFacts
      <4> QED
        BY <1>4, <3>1, <4>2, <4>3
    <3> QED
      BY <3>1
  <2>5. ASSUME INITEXIT \notin linked
        PROVE  /\ Label \notin objsyms' \cup freed' /\ link'[Label] = Nil /\ walk'.at # Label
               /\ \A q \in Places : link'[q] # Label
    <3>1. /\ Label \notin objsyms \cup freed /\ link[Label] = Nil /\ at # Label
          /\ \A q \in Places : link[q] # Label
      BY <2>5 DEF Chains, at
    <3>2. g # Label
      BY <1>1, <3>1 DEF g, at
    <3>3. \A q \in Places : link'[q] # Label
      BY <1>3, <1>7, <3>1
    <3>4. Label \notin objsyms' \cup freed'
      BY <1>6, <3>1, <3>2
    <3>5. walk'.at # Label
      BY <1>2, <1>3, <3>2, PlaceFacts
    <3>6. link'[Label] = Nil
      <4>1. CASE link' = link
        BY <3>1, <4>1
      <4>2. CASE link' = Relinked(link, s, g, at)
        <5>1. Label \in Places /\ link \in [Places -> Defs \cup {Nil}]
          BY PlaceFacts DEF TypeInv
        <5> QED
          BY <1>3, <3>1, <4>2, <5>1 DEF Relinked
      <4> QED
        BY <1>6, <4>1, <4>2
    <3> QED
      BY <3>3, <3>4, <3>5, <3>6
  <2> QED
    BY <1>1, <1>5, <2>1, <2>2, <2>3, <2>4, <2>5 DEF Chains, Label, Nil, INITEXIT, Places, Buckets, Syms
<1>17. Compared'
  <2>1. \A m \in Names : ~Contested(m) => InChain(m)' = InChain(m)
    BY <1>15
  <2>2. errors \subseteq errors'
    BY <1>2
  <2>3. CASE phase' = "ierror"
    BY <2>3 DEF Compared
  <2>4. CASE phase' = "pull"
    <3>1. Pulled' = Pulled
      BY <1>1 DEF Pulled, Obj, UnitOf
    <3>2. ASSUME NEW m \in Names, ~Contested(m), NEW x \in InChain(m), NEW t \in InChain(m), x # t,
                 {UnitOf(x), UnitOf(t)} \subseteq linked, Pending(x, t)
          PROVE  Pending(x, t)' \/ <<19, m>> \in errors'
      <4>1. /\ UnitOf(x) = p /\ (NameOf(x) \in walk.todo \/ Ahead(t))
            /\ x \in Defs /\ NameOf(x) = m /\ NameOf(t) = m /\ t # Nil /\ MaxChain \in Nat
        BY <3>2, InChainIs, MaxChainIs DEF Pending, p
      <4>2. CASE NameOf(x) \in walk.todo
        BY <1>1, <2>4, <3>1, <4>1, <4>2 DEF Pending, UnitOf, NameOf, p
      <4>3. CASE Ahead(t)
        <5>1. PICK k \in 0..MaxChain, l \in 0..MaxChain : k < l /\ at = Chain(m)[k] /\ t = Chain(m)[l]
          BY <4>1, <4>3 DEF Ahead, at
        <5>2. /\ k + 1 \in 1..MaxChain /\ (k + 1) - 1 = k /\ k + 1 <= l /\ k + 1 \in 0..MaxChain
              /\ k = 0 \/ k \in 1..MaxChain
          BY <4>1, <5>1
        <5>3. m = n
          <6>1. NameOf(at) = m
            BY <1>1, <5>1, <5>2, ChainIs, PlaceFacts DEF OfName
          <6> QED
            BY <1>3, <6>1
        <5>4. g = Chain(m)[k + 1]
          BY <5>1, <5>2, ChainIs DEF g, at
        <5>5. g # Nil
          BY <4>1, <5>1, <5>2, <5>4, NilStays
        <5>6. x = s
          <6>1. x = <<p, n>>
            BY <1>3, <4>1, <5>3, SymFacts
          <6> QED
            BY <6>1 DEF s, p, n
        <5>7. CASE l = k + 1
          <6>1. t = g /\ g # s /\ UnitOf(g) \in linked
            BY <3>2, <5>1, <5>4, <5>6, <5>7
          <6>2. Clash(s, g) # "none"
            BY <6>1, ClashIs
          <6>3. errors' = errors \cup {<<19, n>>}
            BY <1>2, <1>4, <3>2, <5>3, <5>5, <6>2
          <6> QED
            BY <5>3, <6>3
        <5>8. CASE l # k + 1
          <6>1. k + 1 < l
            BY <4>1, <5>1, <5>2, <5>8
          <6>2. walk'.at = g
            BY <1>2, <1>4, <3>2, <5>3, <5>5
          <6>3. walk'.at = Chain(m)'[k + 1] /\ t = Chain(m)'[l]
            BY <1>15, <3>2, <5>1, <5>2, <5>4, <6>2
          <6>4. Ahead(t)'
            BY <4>1, <5>2, <6>1, <6>3 DEF Ahead, NameOf, MaxChain
          <6> QED
            BY <2>4, <3>1, <4>1, <6>4 DEF Pending, UnitOf, p
        <5> QED
          BY <5>7, <5>8
      <4> QED
        BY <4>1, <4>2, <4>3
    <3> QED
      BY <1>1, <2>1, <2>2, <3>2, KeptCompared
  <2> QED
    BY <1>5, <2>3, <2>4
<1>18. Bindings'
  <2>1. \A m : Contested(m)' = Contested(m)
    BY <1>1, SymSame
  <2>2. Defs' = Defs
    BY <1>1, SymSame
  <2>3. ASSUME NEW r \in Bound', NEW x, x = BoundTo(r)', x \in Defs', ~Contested(NameOf(x))'
        PROVE  x = Label \/ x \in InChain(NameOf(x))'
    <3>1. r \in Bound /\ x = BoundTo(r) /\ x \in Defs /\ ~Contested(NameOf(x)) /\ NameOf(x) \in Names
      BY <1>11, <2>1, <2>2, <2>3, SymFacts DEF NameOf
    <3>2. x = Label \/ x \in InChain(NameOf(x))
      BY <3>1 DEF Bindings
    <3>3. InChain(NameOf(x))' = InChain(NameOf(x))
      <4>1. ASSUME NEW m \in Names, m = NameOf(x) PROVE InChain(m)' = InChain(m)
        BY <1>15, <3>1, <4>1
      <4> QED
        BY <3>1, <4>1 DEF NameOf
    <3> QED
      BY <3>2, <3>3
  <2> QED
    BY <2>3 DEF Bindings, NameOf, Label
<1> QED
  BY <1>8, <1>9, <1>10, <1>12, <1>13, <1>16, <1>17, <1>18

\* A reference of Obj is bound; a member may come into the list behind Obj.
LEMMA BindListed ==
  ASSUME TypeInv, Listed, AtXref, NEW s, s \in Defs \cup LnkSyms \cup {Nil},
         UNCHANGED <<prog, xtors, xtorsDone, obj>>,
         bound' = [bound EXCEPT ![Obj] = Append(@, s)], phase' \in {"resolve", "pull"},
         \/ UNCHANGED <<selobjects, linked>>
         \/ \E u \in Units \ linked : selobjects' = InsertAt(selobjects, obj + 1, u) /\ linked' = linked \cup {u}
  PROVE  Listed' /\ Obj' = Obj /\ bound'[Obj] = Append(bound[Obj], s)
<1> DEFINE o == Obj
           N == Len(selobjects)
<1>1. /\ o \in linked /\ o \in Visitors /\ obj \in 1 .. N /\ DOMAIN selobjects = 1 .. N /\ N \in Nat
      /\ bound[o] \in Seq(Defs \cup LnkSyms \cup {Nil}) /\ xrefs(o) \in Seq(Reference)
      /\ Len(bound[o]) + 1 \in 1 .. Len(xrefs(o)) /\ selobjects \in Seq(Visitors)
      /\ bound \in [Visitors -> Seq(Defs \cup LnkSyms \cup {Nil})]
      /\ linked \subseteq Visitors
  BY AtXrefIs DEF TypeInv
<1>2. /\ Range(selobjects) = linked /\ IsInjective(selobjects)
      /\ \A i \in 1 .. N : /\ i < obj => Complete(selobjects[i])
                           /\ i > obj => bound[selobjects[i]] = <<>>
      /\ \A u \in Visitors \ linked : bound[u] = <<>>
      /\ INITEXIT \notin linked => xtors = <<>>
      /\ INITEXIT \in linked => xtorsDone
  BY <1>1 DEF Listed
<1>3. bound'[o] = Append(bound[o], s) /\ \A u \in Visitors \ {o} : bound'[u] = bound[u]
  BY <1>1
<1>4. \A u : xrefs(u)' = xrefs(u)
  BY DEF xrefs, UNDEFSYMBOLS
<1>5. \A u \in Visitors \ {o} : Complete(u) => Complete(u)'
  BY <1>3, <1>4 DEF Complete
<1>6. Len(bound'[o]) <= Len(xrefs(o))
  BY <1>1, <1>3
<1>7. \A i \in 1 .. N : selobjects[i] \in Visitors /\ (i # obj => selobjects[i] # o)
  <2>1. \A i \in 1 .. N : selobjects[i] \in Visitors
    BY <1>1
  <2>2. \A i, j \in 1 .. N : selobjects[i] = selobjects[j] => i = j
    BY <1>1, <1>2 DEF IsInjective
  <2>3. o = selobjects[obj]
    BY DEF Obj
  <2> QED
    BY <1>1, <2>1, <2>2, <2>3
<1> HIDE DEF N
<1>8. /\ Range(selobjects') = linked' /\ IsInjective(selobjects')
      /\ obj \in DOMAIN selobjects' /\ selobjects'[obj] = o
      /\ \A i \in DOMAIN selobjects' : i < obj => i \in 1 .. N /\ selobjects'[i] = selobjects[i]
      /\ \A i \in DOMAIN selobjects' :
           i > obj => selobjects'[i] \in Visitors \ linked \/ \E j \in 1 .. N : j > obj /\ selobjects'[i] = selobjects[j]
      /\ linked \subseteq linked' /\ (INITEXIT \in linked' => INITEXIT \in linked)
  <2>1. CASE UNCHANGED <<selobjects, linked>>
    BY <1>1, <1>2, <2>1 DEF Obj
  <2>2. CASE \E u \in Units \ linked : selobjects' = InsertAt(selobjects, obj + 1, u) /\ linked' = linked \cup {u}
    <3>1. PICK u \in Units \ linked : selobjects' = InsertAt(selobjects, obj + 1, u) /\ linked' = linked \cup {u}
      BY <2>2
    <3>2. u \in Visitors /\ u # INITEXIT /\ u \notin Range(selobjects) /\ u \in Visitors \ linked
      BY <1>2, <3>1, SymFacts DEF Visitors
    <3>3. /\ selobjects' \in Seq(Visitors) /\ Len(selobjects') = N + 1
          /\ \A i \in 1 .. obj : selobjects'[i] = selobjects[i]
          /\ selobjects'[obj + 1] = u
          /\ \A i \in obj + 2 .. N + 1 : selobjects'[i] = selobjects[i - 1]
      <4>1. obj \in 1 .. Len(selobjects) /\ selobjects \in Seq(Visitors) /\ u \in Visitors
        BY <1>1, <3>2 DEF N
      <4> HIDE DEF o, N
      <4> DEFINE q == InsertAt(selobjects, obj + 1, u)
      <4>2. /\ q \in Seq(Visitors) /\ Len(q) = Len(selobjects) + 1
            /\ \A i \in 1 .. obj : q[i] = selobjects[i]
            /\ q[obj + 1] = u
            /\ \A i \in obj + 2 .. Len(selobjects) + 1 : q[i] = selobjects[i - 1]
        BY <4>1, InsertIs
      <4>3. selobjects' = q
        BY <3>1
      <4> HIDE DEF q
      <4> QED
        BY <4>2, <4>3 DEF N
    <3>4. Range(selobjects') = linked' /\ IsInjective(selobjects')
      BY <1>1, <1>2, <3>1, <3>2, InsertKeeps DEF N
    <3>5. DOMAIN selobjects' = 1 .. N + 1
      BY <3>3
    <3>6. obj \in 1 .. obj /\ obj \in 1 .. N + 1 /\ selobjects'[obj] = o
      BY <1>1, <3>3 DEF Obj
    <3>7. ASSUME NEW i \in 1 .. N + 1, i < obj PROVE i \in 1 .. N /\ selobjects'[i] = selobjects[i]
      <4>1. i \in 1 .. obj /\ i \in 1 .. N
        BY <1>1, <3>7
      <4> QED
        BY <3>3, <4>1
    <3>8. ASSUME NEW i \in 1 .. N + 1, i > obj
          PROVE  selobjects'[i] \in Visitors \ linked \/ \E j \in 1 .. N : j > obj /\ selobjects'[i] = selobjects[j]
      <4>1. CASE i = obj + 1
        BY <3>2, <3>3, <4>1
      <4>2. CASE i # obj + 1
        <5>1. i \in obj + 2 .. N + 1 /\ i - 1 \in 1 .. N /\ i - 1 > obj
          BY <1>1, <3>8, <4>2
        <5> QED
          BY <3>3, <5>1
      <4> QED
        BY <4>1, <4>2
    <3> QED
      BY <3>1, <3>2, <3>4, <3>5, <3>6, <3>7, <3>8
  <2> QED
    BY <2>1, <2>2
<1>9. Obj' = o
  BY <1>8 DEF Obj
<1>10. ASSUME NEW i \in DOMAIN selobjects'
       PROVE  /\ i < obj => Complete(selobjects[i])'
              /\ i > obj => bound'[selobjects'[i]] = <<>>
  <2>1. ASSUME i < obj PROVE Complete(selobjects[i])'
    <3>1. i \in 1 .. N /\ selobjects'[i] = selobjects[i] /\ i # obj
      BY <1>1, <1>8, <1>10, <2>1
    <3>2. selobjects[i] \in Visitors \ {o} /\ Complete(selobjects[i])
      BY <1>2, <1>7, <2>1, <3>1
    <3>3. ASSUME NEW u, u = selobjects[i] PROVE Complete(u)'
      BY <1>5, <3>2, <3>3
    <3> QED
      BY <3>1, <3>3 DEF Complete
  <2>2. ASSUME i > obj PROVE bound'[selobjects'[i]] = <<>>
    <3>1. CASE selobjects'[i] \in Visitors \ linked
      BY <1>1, <1>2, <1>3, <3>1
    <3>2. CASE \E j \in 1 .. N : j > obj /\ selobjects'[i] = selobjects[j]
      <4>1. PICK j \in 1 .. N : j > obj /\ selobjects'[i] = selobjects[j]
        BY <3>2
      <4>2. selobjects[j] \in Visitors \ {o} /\ bound[selobjects[j]] = <<>>
        BY <1>1, <1>2, <1>7, <4>1
      <4> QED
        BY <1>3, <4>1, <4>2
    <3> QED
      BY <1>8, <1>10, <2>2, <3>1, <3>2
  <2> QED
    BY <2>1, <2>2
<1>11. \A u \in Visitors \ linked' : bound'[u] = <<>>
  <2>1. \A u \in Visitors \ linked' : u \in Visitors \ linked /\ u # o
    BY <1>1, <1>8
  <2> QED
    BY <1>2, <1>3, <2>1
<1>12. /\ INITEXIT \notin linked' => xtors' = <<>>
       /\ INITEXIT \in linked' => xtorsDone'
  BY <1>2, <1>8
<1>13. Len(bound'[Obj']) <= Len(xrefs(Obj)')
  BY <1>4, <1>6, <1>9
<1>14. Listed'
  BY <1>4, <1>8, <1>9, <1>10, <1>11, <1>12, <1>13 DEF Listed, Visitors, INITEXIT, UNDEFSYMBOLS
<1> QED
  BY <1>3, <1>9, <1>14

LEMMA KeptBindings ==
  ASSUME Bindings, NEW x, Bound' = Bound \cup {x}, UNCHANGED <<prog, link, objsyms>>,
         \A r \in Bound : BoundTo(r)' = BoundTo(r),
         NEW s, BoundTo(x)' = s, (s \in Defs /\ ~Contested(NameOf(s))) => s = Label \/ s \in InChain(NameOf(s))
  PROVE  Bindings'
<1>1. \A n : InChain(n)' = InChain(n) /\ Contested(n)' = Contested(n)
  BY SameChains, SymSame
<1>2. Defs' = Defs
  BY SymSame
<1>3. \A r \in Bound' : r \in Bound \/ r = x
  OBVIOUS
<1>4. ASSUME NEW r \in Bound', NEW t, t = BoundTo(r)', t \in Defs', ~Contested(NameOf(t))'
      PROVE  t = Label \/ t \in InChain(NameOf(t))'
  <2>1. CASE r \in Bound
    <3>1. t = BoundTo(r)
      BY <1>4, <2>1
    <3> QED
      BY <1>1, <1>2, <1>4, <2>1, <3>1 DEF Bindings, NameOf
  <2>2. CASE r = x
    <3>1. t = s
      BY <1>4, <2>2
    <3> QED
      BY <1>1, <1>2, <1>4, <3>1 DEF NameOf
  <2> QED
    BY <1>3, <2>1, <2>2
<1> QED
  BY <1>4 DEF Bindings, NameOf, Label

LEMMA KeptAsked ==
  ASSUME Asked, NEW x, Bound' = Bound \cup {x}, prog' = prog, indir' = Nil,
         \A r \in Bound : BoundTo(r)' = BoundTo(r) /\ XrefOf(r)' = XrefOf(r),
         \A n : WeakRef(n) => WeakRef(n)', \A n : LocalRef(n) => LocalRef(n)',
         NEW s, BoundTo(x)' = s, NEW q, XrefOf(x)' = q,
         s = Nil => <<21, q.name>> \in errors',
         s # Nil => Defined(q.name) \/ WeakRef(q.name)',
         \A n : <<LNK, n>> \in lnksyms' => <<LNK, n>> \in lnksyms \/ WeakRef(n)',
         errors \subseteq errors',
         \A n : <<21, n>> \in errors' => <<21, n>> \in errors \/ ~Defined(n) \/ Indirect(n) \/ LocalRef(n)'
  PROVE  Asked'
<1>1. \A n : Defined(n)' = Defined(n)
  BY SymSame
<1>2. \A n : Indirect(n)' = Indirect(n)
  BY SymSame DEF Indirect
<1>3. \A r \in Bound' : r \in Bound \/ r = x
  OBVIOUS
<1>4. ASSUME NEW r \in Bound', NEW y, y = XrefOf(r)'
      PROVE  /\ BoundTo(r)' = Nil => <<21, y.name>> \in errors'
             /\ BoundTo(r)' # Nil => Defined(y.name)' \/ WeakRef(y.name)'
  <2>1. CASE r \in Bound
    <3>1. y = XrefOf(r) /\ BoundTo(r)' = BoundTo(r)
      BY <1>4, <2>1
    <3>2. /\ BoundTo(r) = Nil => <<21, y.name>> \in errors
          /\ BoundTo(r) # Nil => Defined(y.name) \/ WeakRef(y.name)
      BY <2>1, <3>1 DEF Asked
    <3> QED
      BY <1>1, <3>1, <3>2
  <2>2. CASE r = x
    <3>1. y = q /\ BoundTo(r)' = s
      BY <1>4, <2>2
    <3> QED
      BY <1>1, <3>1
  <2> QED
    BY <1>3, <2>1, <2>2
<1>5. /\ \A r \in Bound' : BoundTo(r)' = Nil => <<21, XrefOf(r)'.name>> \in errors'
      /\ \A r \in Bound' : BoundTo(r)' # Nil => Defined(XrefOf(r).name)' \/ WeakRef(XrefOf(r).name)'
  <2>1. ASSUME NEW r \in Bound', BoundTo(r)' # Nil PROVE Defined(XrefOf(r).name)' \/ WeakRef(XrefOf(r).name)'
    <3>1. ASSUME NEW y, y = XrefOf(r)' PROVE Defined(y.name)' \/ WeakRef(y.name)'
      BY <1>4, <2>1, <3>1
    <3> QED
      BY <3>1
  <2> QED
    BY <1>4, <2>1
<1>6. \A n \in Names : <<LNK, n>> \in lnksyms' => WeakRef(n)'
  BY DEF Asked
<1>7. \A n \in Names : <<21, n>> \in errors' => ~Defined(n)' \/ Indirect(n)' \/ LocalRef(n)'
  BY <1>1, <1>2 DEF Asked
<1> QED
  BY <1>5, <1>6, <1>7 DEF Asked, Nil, LNK

\* What is loaded is found.
LEMMA DefinedIsFound ==
  ASSUME TypeInv, Loading, phase # "load", NEW n \in Names, Defined(n)
  PROVE  link[Bucket(n)] # Nil \/ (n = CtorLabel /\ Label \in lnksyms)
<1>1. CASE n = CtorLabel
  BY <1>1 DEF Loading
<1>2. CASE n # CtorLabel
  <2>1. PICK u \in Units : Defines(u, n)
    BY <1>2 DEF Defined
  <2>2. loaded = Len(Files) /\ unread = {}
    BY DEF Loading
  <2>3. u \in Read
    <3>1. Files \in Seq(Units) /\ Range(Files) = Units
      BY FilesAssumption
    <3> QED
      BY <2>2, <3>1 DEF Read, Range
  <2> QED
    BY <2>1, <2>2, <2>3 DEF Loading
<1> QED
  BY <1>1, <1>2

LEMMA FindLnkIs ==
  ASSUME TypeInv, NEW n \in Names
  PROVE  /\ findlnksymbol(n) \in LnkSyms \cup {Label, Nil}
         /\ findlnksymbol(n) # Nil => findlnksymbol(n) \in lnksyms /\ NameOf(findlnksymbol(n)) = n
         /\ (n = CtorLabel /\ Label \in lnksyms) => findlnksymbol(n) # Nil
<1>1. lnksyms \subseteq LnkSyms \cup {Label} /\ Nil \notin LnkSyms \cup {Label} /\ NameOf(Label) = CtorLabel
  BY PlaceFacts DEF TypeInv
<1>2. CASE \E s \in lnksyms : NameOf(s) = n
  <2>1. findlnksymbol(n) \in lnksyms /\ NameOf(findlnksymbol(n)) = n
    BY <1>2 DEF findlnksymbol
  <2> QED
    BY <1>1, <2>1
<1>3. CASE ~\E s \in lnksyms : NameOf(s) = n
  <2>1. findlnksymbol(n) = Nil
    BY <1>3 DEF findlnksymbol
  <2> QED
    BY <1>1, <1>3, <2>1
<1> QED
  BY <1>2, <1>3

LEMMA UndefinedXrefKeeps ==
  ASSUME LinkerInv, UndefinedXref
  PROVE  LinkerInv'
<1> USE DEF LinkerInv
<1>1. /\ UNCHANGED <<prog, phase, loaded, unread, link, objsyms, freed, selobjects, linked, obj,
                 pripointers, xtors, xtorsDone, walk>>
      /\ AtXref /\ phase = "resolve" /\ indir' = Nil /\ ~IsIndirect(Answer) /\ Resolved(Answer) = Nil
  BY DEF UndefinedXref, Missing, Answers, AtXref, Bind
<1>2. /\ Obj \in Visitors /\ Obj \in linked /\ Xref \in Reference /\ Xref.name \in Names
  BY <1>1, AtXrefIs
<1>3. PICK s \in LnkSyms \cup {Nil} :
        /\ bound' = [bound EXCEPT ![Obj] = Append(@, s)]
        /\ \/ /\ Xref.kind = "weak" /\ s = <<LNK, Xref.name>> /\ s # Nil
              /\ lnksyms' = lnksyms \cup {<<LNK, Xref.name>>} /\ UNCHANGED errors
           \/ /\ Xref.kind # "weak" /\ s = Nil
              /\ errors' = errors \cup {<<21, Xref.name>>} /\ UNCHANGED lnksyms
  <2>1. <<LNK, Xref.name>> \in LnkSyms /\ <<LNK, Xref.name>> # Nil
    BY <1>2 DEF LnkSyms, Nil, LNK
  <2> QED
    BY <2>1 DEF UndefinedXref, Bind
<1>4. s \in Defs \cup LnkSyms \cup {Nil} /\ s \notin Defs
  BY SymFacts, PlaceFacts
<1>5. SUFFICES ASSUME NEW o, o = Obj, NEW i, i = Len(bound[o]) + 1, NEW x, x = Xref
               PROVE  LinkerInv'
  OBVIOUS
<1>6. /\ Bound' = Bound \cup {<<o, i>>}
      /\ \A r \in Bound : BoundTo(r)' = BoundTo(r) /\ XrefOf(r)' = XrefOf(r)
      /\ BoundTo(<<o, i>>)' = s /\ XrefOf(<<o, i>>)' = x
      /\ \A n : WeakRef(n) => WeakRef(n)'
      /\ \A n : LocalRef(n) => LocalRef(n)'
      /\ x.kind = "weak" => WeakRef(x.name)'
      /\ x.kind = "local" => LocalRef(x.name)'
  <2>1. linked \subseteq linked' /\ linked' \subseteq Visitors /\ (\A u \in linked' \ linked : bound[u] = <<>>) /\ TypeInv /\ Listed
    BY <1>1 DEF TypeInv
  <2>2. prog' = prog /\ xtors' = xtors /\ AtXref
    BY <1>1
  <2>3. s \in Defs \cup LnkSyms \cup {Nil} /\ bound'[o] = Append(bound[o], s)
        /\ \A u \in Visitors \ {o} : bound'[u] = bound[u]
    <3>1. bound \in [Visitors -> Seq(Defs \cup LnkSyms \cup {Nil})]
      BY DEF TypeInv
    <3> QED
      BY <1>2, <1>3, <1>4, <1>5, <3>1
  <2> HIDE DEF LinkerInv
  <2> QED
    BY <1>5, <2>1, <2>2, <2>3, NewBound
<1>7. TypeInv'
  <2>1. Defs' = Defs
    BY <1>1, SymSame
  <2>2. bound' \in [Visitors -> Seq(Defs \cup LnkSyms \cup {Nil})]
    <3>1. /\ bound \in [Visitors -> Seq(Defs \cup LnkSyms \cup {Nil})]
          /\ Append(bound[Obj], s) \in Seq(Defs \cup LnkSyms \cup {Nil})
      BY <1>2, <1>4 DEF TypeInv
    <3> QED
      BY <1>2, <1>3, <3>1
  <2>3. lnksyms' \subseteq LnkSyms \cup {Label} /\ errors' \subseteq {19, 21} \X Names
    BY <1>2, <1>3 DEF TypeInv, LnkSyms
  <2>4. indir' \in Defs \cup {Nil}
    BY <1>1
  <2> QED
    BY <1>1, <2>1, <2>2, <2>3, <2>4 DEF TypeInv, Label, Nil, LnkSyms, Phases, Visitors, Places, Buckets, Syms, NameOf
<1>8. Listed'
  BY <1>1, <1>3, <1>4, BindListed
<1>9. Loading'
  BY <1>1, <1>3, KeptLoading
<1>10. Pulls'
  <2>1. \A u \in linked' \cap Members : \E r \in Bound' : UnitOf(BoundTo(r)') = u
    BY <1>1, <1>6 DEF Pulls
  <2>2. s # Nil => UnitOf(s) = LNK
    BY <1>3, SymFacts
  <2>3. \A r \in Bound' : BoundTo(r)' # Nil => UnitOf(BoundTo(r)') \in linked' \cup {LNK, INITEXIT}
    <3>1. \A r \in Bound' : r \in Bound \/ r = <<o, i>>
      BY <1>6
    <3> QED
      BY <1>1, <1>6, <2>2, <3>1 DEF Pulls
  <2> QED
    BY <1>1, <2>1, <2>3 DEF Pulls, UnitOf, Nil, LNK, INITEXIT
<1>11. Chains'
  BY <1>1, SameChainsKept DEF Chains
<1>12. Asked'
  <2>1. /\ Wanted \in Names
        /\ indir # Nil => Indirect(Xref.name)
        /\ Answer = Nil => link[Bucket(Wanted)] = Nil
    BY <1>1, <1>2, ResolvedIs
  <2>2. ASSUME Defined(x.name), ~Indirect(x.name), x.kind # "local" PROVE Resolved(Answer) # Nil
    <3>1. Wanted = x.name
      BY <1>5, <2>1, <2>2 DEF Wanted
    <3>2. link[Bucket(x.name)] # Nil \/ (x.name = CtorLabel /\ Label \in lnksyms)
      BY <1>1, <1>2, <1>5, <2>2, DefinedIsFound
    <3>3. CASE Answer # Nil
      BY <1>5, <2>2, <3>3 DEF Resolved
    <3>4. CASE Answer = Nil
      <4>1. x.name = CtorLabel /\ Label \in lnksyms
        BY <2>1, <3>1, <3>2, <3>4
      <4>2. findlnksymbol(x.name) # Nil
        BY <1>2, <1>5, <4>1, FindLnkIs
      <4> QED
        BY <1>5, <3>4, <4>2 DEF Resolved
    <3> QED
      BY <3>3, <3>4
  <2>3. \A n : <<21, n>> \in errors' => <<21, n>> \in errors \/ ~Defined(n) \/ Indirect(n) \/ LocalRef(n)'
    <3>1. \A n : <<21, n>> \in errors' => <<21, n>> \in errors \/ n = x.name
      BY <1>3, <1>5
    <3>2. ~Defined(x.name) \/ Indirect(x.name) \/ LocalRef(x.name)'
      BY <1>1, <1>6, <2>2
    <3>3. ASSUME NEW n, <<21, n>> \in errors', <<21, n>> \notin errors
          PROVE  ~Defined(n) \/ Indirect(n) \/ LocalRef(n)'
      <4>1. n = x.name
        BY <3>1, <3>3
      <4> QED
        BY <3>2, <4>1
    <3> QED
      BY <3>3
  <2>4. s = Nil => <<21, x.name>> \in errors'
    BY <1>3, <1>5
  <2>5. s # Nil => WeakRef(x.name)'
    BY <1>3, <1>5, <1>6
  <2>6. \A n : <<LNK, n>> \in lnksyms' => <<LNK, n>> \in lnksyms \/ WeakRef(n)'
    <3>1. ASSUME NEW n, <<LNK, n>> \in lnksyms', <<LNK, n>> \notin lnksyms PROVE WeakRef(n)'
      <4>1. n = x.name /\ x.kind = "weak"
        BY <1>3, <1>5, <3>1
      <4> QED
        BY <1>6, <4>1
    <3> QED
      BY <3>1
  <2>7. errors \subseteq errors'
    BY <1>3
  <2> QED
    BY <1>1, <1>6, <2>3, <2>4, <2>5, <2>6, <2>7, KeptAsked
<1>13. Compared'
  <2>1. \A n : InChain(n)' = InChain(n)
    BY <1>1, SameChains
  <2>2. \A x1, x2 : ~Pending(x1, x2)
    BY <1>1 DEF Pending
  <2>3. errors \subseteq errors'
    BY <1>3
  <2> QED
    BY <1>1, <2>1, <2>2, <2>3, KeptCompared
<1>14. Bindings'
  BY <1>1, <1>4, <1>6, KeptBindings
<1> QED
  BY <1>7, <1>8, <1>9, <1>10, <1>11, <1>12, <1>13, <1>14

\* Of two symbols in one chain both are global.
LEMMA GlobalInChain ==
  ASSUME TypeInv, NEW n \in Names, ChainOk(n), NEW s \in InChain(n), NEW t \in InChain(n), s # t
  PROVE  s \in objsyms /\ Sym(s).bind = "global"
<1> DEFINE c == Chain(n)
<1>1. PICK k \in 1..MaxChain : s = c[k]
  BY InChainIs
<1>2. PICK l \in 1..MaxChain : t = c[l]
  BY InChainIs
<1>3. s # Nil /\ t # Nil /\ MaxChain \in Nat
  BY InChainIs, MaxChainIs
<1>4. /\ \A j \in 1..MaxChain : c[j] \in Live(n) \cup {Nil}
      /\ \A j \in 1..MaxChain : c[j] = link[c[j - 1]]
  BY ChainEnds, ChainIs
<1>5. \A i, j \in 0..MaxChain : (i <= j /\ c[i] = Nil) => c[j] = Nil
  BY NilStays
<1> HIDE DEF c
<1>6. s \in Live(n) /\ s \in objsyms
  BY <1>1, <1>3, <1>4 DEF Live
<1>7. \A x \in Live(n) : link[x] # Nil => Sym(x).bind = "global" /\ Sym(link[x]).bind = "global"
  BY DEF ChainOk
<1>8. k # l
  BY <1>1, <1>2
<1>9. CASE k < l
  <2>1. k + 1 \in 1..MaxChain /\ (k + 1) - 1 = k /\ k + 1 <= l /\ k + 1 \in 0..MaxChain /\ l \in 0..MaxChain
    BY <1>3, <1>9
  <2>2. c[k + 1] # Nil
    BY <1>2, <1>3, <1>5, <2>1
  <2>3. link[s] # Nil
    BY <1>1, <1>4, <2>1, <2>2
  <2> QED
    BY <1>6, <1>7, <2>3
<1>10. CASE l < k
  <2>1. k - 1 \in 1..MaxChain /\ k - 1 \in 0..MaxChain /\ k - 1 <= k /\ k \in 0..MaxChain
    BY <1>3, <1>10
  <2>2. c[k - 1] # Nil
    BY <1>1, <1>3, <1>5, <2>1
  <2>3. c[k - 1] \in Live(n) /\ link[c[k - 1]] = s
    BY <1>1, <1>4, <2>1, <2>2
  <2> QED
    BY <1>3, <1>6, <1>7, <2>3
<1> QED
  BY <1>3, <1>8, <1>9, <1>10

LEMMA ResolveXrefKeeps ==
  ASSUME LinkerInv, ResolveXref
  PROVE  LinkerInv'
<1> USE DEF LinkerInv
<1>1. /\ UNCHANGED <<prog, loaded, unread, link, objsyms, freed, lnksyms, obj, xtors, xtorsDone, errors>>
      /\ AtXref /\ phase = "resolve" /\ indir' = Nil /\ ~IsIndirect(Answer) /\ Resolved(Answer) # Nil
  BY DEF ResolveXref, Answers, AtXref, Bind
<1>2. /\ Obj \in Visitors /\ Obj \in linked /\ Xref \in Reference /\ Xref.name \in Names
  BY <1>1, AtXrefIs
<1>3. SUFFICES ASSUME NEW o, o = Obj, NEW i, i = Len(bound[o]) + 1, NEW x, x = Xref, NEW s, s = Resolved(Answer),
                      NEW u, u = UnitOf(s)
               PROVE  LinkerInv'
  OBVIOUS
<1>4. /\ bound' = [bound EXCEPT ![Obj] = Append(@, s)]
      /\ \/ /\ IsLib(u) /\ u \notin linked
            /\ phase' = "pull" /\ linked' = linked \cup {u}
            /\ selobjects' = InsertAt(selobjects, obj + 1, u)
            /\ pripointers' = pripointers \cup Constructors(u)
            /\ walk' = [todo |-> {n \in Names : <<u, n>> \in objsyms /\ Sym(<<u, n>>).bind = "global"}, at |-> Nil]
         \/ /\ ~(IsLib(u) /\ u \notin linked)
            /\ UNCHANGED <<phase, linked, selobjects, pripointers, walk>>
  BY <1>3 DEF ResolveXref, Bind
\* The symbol the reference is bound to.
<1>5. /\ Wanted \in Names
      /\ indir # Nil => Defined(Xref.name)
      /\ Answer \in OfName(Wanted) \cup {Nil}
      /\ Answer # Nil => Answer \in InChain(Wanted)
  BY <1>1, <1>2, ResolvedIs
<1>6. /\ findlnksymbol(x.name) \in LnkSyms \cup {Label, Nil}
      /\ findlnksymbol(x.name) # Nil => findlnksymbol(x.name) \in lnksyms /\ NameOf(findlnksymbol(x.name)) = x.name
  BY <1>2, <1>3, FindLnkIs
<1>7. s # Nil /\ (s = Answer \/ s = findlnksymbol(x.name))
  BY <1>1, <1>3 DEF Resolved
<1>8. /\ s \in Defs \cup LnkSyms
      /\ \/ s \in OfName(Wanted) /\ s \in InChain(Wanted) /\ s \in Defs /\ NameOf(s) = Wanted
         \/ s \in lnksyms /\ NameOf(s) = x.name /\ s \in LnkSyms \cup {Label}
  BY <1>5, <1>6, <1>7, PlaceFacts DEF OfName
<1>9. /\ u \in Units \cup {INITEXIT, LNK}
      /\ u = INITEXIT => s = Label
      /\ u \in Units => s \in Proper
  BY <1>3, <1>8, SymFacts
<1>10. IsLib(u) => u \in Members /\ u \in Units
  BY DEF IsLib, Units
<1>11. linked \subseteq linked' /\ linked' \subseteq Visitors /\ phase' \in {"resolve", "pull"}
  BY <1>1, <1>4, <1>10 DEF TypeInv, Visitors
<1>12. /\ Bound' = Bound \cup {<<o, i>>}
       /\ \A r \in Bound : BoundTo(r)' = BoundTo(r) /\ XrefOf(r)' = XrefOf(r)
       /\ BoundTo(<<o, i>>)' = s /\ XrefOf(<<o, i>>)' = x
       /\ \A n : WeakRef(n) => WeakRef(n)'
       /\ \A n : LocalRef(n) => LocalRef(n)'
  <2>1. \A v \in linked' \ linked : bound[v] = <<>>
    BY <1>11 DEF Listed
  <2>2. prog' = prog /\ xtors' = xtors /\ AtXref
    BY <1>1
  <2>3. s \in Defs \cup LnkSyms \cup {Nil} /\ bound'[o] = Append(bound[o], s)
        /\ \A v \in Visitors \ {o} : bound'[v] = bound[v]
    <3>1. bound \in [Visitors -> Seq(Defs \cup LnkSyms \cup {Nil})]
      BY DEF TypeInv
    <3> QED
      BY <1>2, <1>3, <1>4, <1>8, <3>1
  <2>4. TypeInv /\ Listed
    OBVIOUS
  <2> HIDE DEF LinkerInv
  <2> QED
    BY <1>3, <1>11, <2>1, <2>2, <2>3, <2>4, NewBound
<1>13. Listed' /\ Obj' = Obj /\ bound'[Obj] = Append(bound[Obj], s)
  <2>1. \/ UNCHANGED <<selobjects, linked>>
        \/ \E v \in Units \ linked : selobjects' = InsertAt(selobjects, obj + 1, v) /\ linked' = linked \cup {v}
    BY <1>4, <1>10
  <2> QED
    BY <1>1, <1>4, <1>8, <1>11, <2>1, BindListed
<1>14. TypeInv'
  <2>1. Defs' = Defs
    BY <1>1, SymSame
  <2>2. bound' \in [Visitors -> Seq(Defs \cup LnkSyms \cup {Nil})]
    <3>1. /\ bound \in [Visitors -> Seq(Defs \cup LnkSyms \cup {Nil})]
          /\ Append(bound[Obj], s) \in Seq(Defs \cup LnkSyms \cup {Nil})
      BY <1>2, <1>8 DEF TypeInv
    <3> QED
      BY <1>2, <1>4, <3>1
  <2>3. selobjects' \in Seq(Visitors)
    <3>1. selobjects \in Seq(Visitors) /\ obj \in 1 .. Len(selobjects)
      BY <1>1, AtXrefIs DEF TypeInv
    <3>2. CASE UNCHANGED selobjects
      BY <3>1, <3>2
    <3>3. CASE selobjects' = InsertAt(selobjects, obj + 1, u) /\ IsLib(u)
      <4>1. u \in Visitors
        BY <1>10, <3>3 DEF Visitors
      <4> QED
        BY <3>1, <3>3, <4>1, InsertIs
    <3> QED
      BY <1>4, <3>2, <3>3
  <2>4. walk' \in [todo : SUBSET Names, at : Places]
    <3> DEFINE M == {n \in Names : <<u, n>> \in objsyms /\ Sym(<<u, n>>).bind = "global"}
    <3>1. M \in SUBSET Names /\ Nil \in Places
      BY PlaceFacts
    <3>2. walk' = [todo |-> M, at |-> Nil] \/ walk' = walk
      BY <1>4
    <3> HIDE DEF M
    <3> QED
      BY <3>1, <3>2 DEF TypeInv
  <2>5. pripointers' \subseteq CtorNames
    BY <1>4 DEF TypeInv, Constructors
  <2>6. indir' \in Defs \cup {Nil} /\ phase' \in Phases
    BY <1>1, <1>11 DEF Phases
  <2> QED
    BY <1>1, <1>11, <2>1, <2>2, <2>3, <2>4, <2>5, <2>6
      DEF TypeInv, Label, Nil, LnkSyms, Phases, Visitors, Places, Buckets, Syms, NameOf
<1>15. Loading'
  BY <1>1, <1>11, KeptLoading
<1>16. phase' = "pull" => /\ Pulled' = u /\ u \in Members /\ u \in linked'
                          /\ bound'[Obj'] # <<>>
                          /\ walk'.todo = {n \in Names : <<u, n>> \in objsyms /\ Sym(<<u, n>>).bind = "global"}
                          /\ walk'.at = Nil
  <2>1. SUFFICES ASSUME phase' = "pull"
                 PROVE  Pulled' = u /\ bound'[Obj'] # <<>> /\ u \in Members /\ u \in linked'
                        /\ walk'.todo = {n \in Names : <<u, n>> \in objsyms /\ Sym(<<u, n>>).bind = "global"}
                        /\ walk'.at = Nil
    OBVIOUS
  <2>2. bound[Obj] \in Seq(Defs \cup LnkSyms \cup {Nil})
    BY <1>2 DEF TypeInv
  <2>3. bound'[Obj'] = Append(bound[Obj], s)
    BY <1>13
  <2>4. bound'[Obj'] # <<>> /\ bound'[Obj'][Len(bound'[Obj'])] = s
    BY <1>8, <2>2, <2>3
  <2>5. Pulled' = u
    BY <1>3, <2>4 DEF Pulled, UnitOf
  <2> QED
    BY <1>1, <1>4, <1>10, <2>1, <2>4, <2>5
<1>17. Pulls'
  <2>1. \A r \in Bound' : r \in Bound \/ r = <<o, i>>
    BY <1>12
  <2>2. \A v \in linked' \cap Members : \E r \in Bound' : UnitOf(BoundTo(r)') = v
    <3>1. ASSUME NEW v \in linked' \cap Members PROVE \E r \in Bound' : UnitOf(BoundTo(r)') = v
      <4>1. CASE v \in linked
        BY <1>12, <3>1, <4>1 DEF Pulls
      <4>2. CASE v \notin linked
        <5>1. v = u
          BY <1>4, <3>1, <4>2
        <5>2. UnitOf(BoundTo(<<o, i>>)') = v
          BY <1>3, <1>12, <5>1
        <5> QED
          BY <1>12, <5>2
      <4> QED
        BY <4>1, <4>2
    <3> QED
      BY <3>1
  <2>3. u \in linked' \cup {LNK, INITEXIT}
    <3>1. CASE u \in Members
      BY <1>4, <3>1 DEF IsLib
    <3>2. CASE u \in Objects
      BY <1>1, <1>11, <3>2 DEF Loading
    <3> QED
      BY <1>9, <3>1, <3>2 DEF Units
  <2>4. \A r \in Bound' : BoundTo(r)' # Nil => UnitOf(BoundTo(r)') \in linked' \cup {LNK, INITEXIT}
    BY <1>3, <1>11, <1>12, <2>1, <2>3 DEF Pulls
  <2>5. ASSUME phase' = "pull", NEW n \in walk'.todo PROVE Defines(u, n)
    <3>1. <<u, n>> \in objsyms /\ n \in Names /\ u \in Units
      BY <1>16, <2>5 DEF Units
    <3>2. <<u, n>> \in Defs
      BY <3>1 DEF TypeInv
    <3> QED
      BY <3>1, <3>2, SymFacts
  <2> QED
    BY <1>1, <1>16, <2>2, <2>4, <2>5 DEF Pulls, Defines, UnitOf, NameOf, Nil, LNK, INITEXIT
<1>18. Chains'
  <2>1. INITEXIT \notin linked' => walk'.at # Label
    BY <1>4, <1>11, PlaceFacts DEF Chains
  <2> QED
    BY <1>1, <1>11, <2>1, SameChainsKept
<1>19. Asked'
  <2>1. Defined(x.name) \/ WeakRef(x.name)'
    <3>1. CASE indir # Nil
      BY <1>3, <1>5, <3>1
    <3>2. CASE indir = Nil /\ s \in OfName(Wanted)
      <4>1. NameOf(s) = x.name /\ s \in Defs
        BY <1>3, <3>2 DEF Wanted, OfName
      <4>2. CASE s = Label
        BY <4>1, <4>2, PlaceFacts DEF Defined
      <4>3. CASE s # Label
        BY <4>1, <4>3, SymFacts DEF Defined, Defs, Proper
      <4> QED
        BY <4>2, <4>3
    <3>3. CASE s \in lnksyms /\ NameOf(s) = x.name /\ s \in LnkSyms \cup {Label}
      <4>1. CASE s = Label
        BY <3>3, <4>1, PlaceFacts DEF Defined
      <4>2. CASE s \in LnkSyms
        <5>1. s = <<LNK, x.name>>
          BY <3>3, <4>2 DEF LnkSyms, NameOf
        <5>2. WeakRef(x.name)
          BY <1>2, <1>3, <3>3, <5>1 DEF Asked
        <5> QED
          BY <1>12, <5>2
      <4> QED
        BY <3>3, <4>1, <4>2
    <3> QED
      BY <1>8, <3>1, <3>2, <3>3
  <2>2. \A n : <<21, n>> \in errors' => <<21, n>> \in errors
    BY <1>1
  <2> QED
    BY <1>1, <1>7, <1>12, <2>1, <2>2, KeptAsked
<1>20. Bindings'
  <2>1. (s \in Defs /\ ~Contested(NameOf(s))) => s = Label \/ s \in InChain(NameOf(s))
    BY <1>8, SymFacts
  <2> QED
    BY <1>1, <1>12, <2>1, KeptBindings
<1>21. Compared'
  <2>1. \A n : InChain(n)' = InChain(n) /\ Contested(n)' = Contested(n)
    BY <1>1, SameChains, SymSame
  <2>2. ASSUME NEW n \in Names, ~Contested(n), NEW y \in InChain(n), NEW z \in InChain(n), y # z,
               UnitOf(y) \in linked', UnitOf(z) \in linked'
        PROVE  <<19, n>> \in errors \/ (phase' = "pull" /\ n \in walk'.todo /\ (UnitOf(y) = u \/ UnitOf(z) = u))
    <3>1. CASE UnitOf(y) \in linked /\ UnitOf(z) \in linked
      BY <1>1, <2>2, <3>1 DEF Compared, Pending
    <3>2. ASSUME NEW w \in InChain(n), NEW w2 \in InChain(n), w # w2, UnitOf(w) \notin linked, UnitOf(w) \in linked'
          PROVE  phase' = "pull" /\ n \in walk'.todo /\ UnitOf(w) = u
      <4>1. UnitOf(w) = u /\ phase' = "pull"
        BY <1>4, <3>2
      <4>2. ChainOk(n)
        BY <2>2 DEF Chains, Stable
      <4>3. w \in objsyms /\ Sym(w).bind = "global"
        BY <3>2, <4>2, GlobalInChain
      <4>4. w = <<u, n>>
        BY <3>2, <4>1, InChainIs, SymFacts
      <4> QED
        BY <1>16, <4>1, <4>3, <4>4
    <3> QED
      BY <2>2, <3>1, <3>2
  <2>3. \A n \in Names : \A y \in InChain(n) : NameOf(y) = n
    BY InChainIs
  <2>4. ASSUME NEW n \in Names, ~Contested(n), NEW y \in InChain(n), NEW z \in InChain(n), y # z,
               {UnitOf(y), UnitOf(z)} \subseteq linked'
        PROVE  <<19, n>> \in errors' \/ Pending(y, z)' \/ Pending(z, y)'
    BY <1>1, <1>16, <2>2, <2>3, <2>4 DEF Pending, UnitOf, NameOf
  <2> QED
    BY <2>1, <2>4 DEF Compared, UnitOf
<1> QED
  BY <1>13, <1>14, <1>15, <1>17, <1>18, <1>19, <1>20, <1>21

\* On to the next object, which may be the one that was just made.
LEMMA NextListed ==
  ASSUME TypeInv, Listed, phase = "resolve", ~AtXref, UNCHANGED <<prog, bound>>,
         Range(selobjects') = linked', IsInjective(selobjects'), selobjects' \in Seq(Visitors),
         linked \subseteq linked', linked' \subseteq Visitors,
         Len(selobjects) <= Len(selobjects'),
         \A i \in 1 .. Len(selobjects) : selobjects'[i] = selobjects[i],
         \A i \in Len(selobjects) + 1 .. Len(selobjects') : bound[selobjects'[i]] = <<>>,
         xtors' \in Seq(Reference), xtors' = xtors \/ INITEXIT \notin linked, INITEXIT \notin linked' => xtors' = xtors,
         INITEXIT \in linked' => xtorsDone',
         \/ obj < Len(selobjects') /\ obj' = obj + 1 /\ phase' = phase
         \/ ~(obj < Len(selobjects')) /\ phase' = "done" /\ obj' = obj
  PROVE  Listed'
<1> DEFINE N == Len(selobjects)
           M == Len(selobjects')
<1>1. /\ N \in Nat /\ M \in Nat /\ DOMAIN selobjects = 1 .. N /\ DOMAIN selobjects' = 1 .. M /\ N <= M
      /\ \A i \in 1 .. N : selobjects[i] \in Visitors
      /\ linked \subseteq Visitors
  BY DEF TypeInv
<1>2. /\ Range(selobjects) = linked /\ obj \in 1 .. N /\ Len(bound[Obj]) <= Len(xrefs(Obj))
      /\ \A i \in 1 .. N : /\ i < obj => Complete(selobjects[i])
                           /\ i > obj => bound[selobjects[i]] = <<>>
      /\ \A u \in Visitors \ linked : bound[u] = <<>>
      /\ INITEXIT \notin linked => xtors = <<>>
  BY <1>1 DEF Listed
<1>3. Complete(Obj)
  <2>1. Obj \in Visitors
    BY <1>1, <1>2 DEF Obj
  <2>2. bound[Obj] \in Seq(Defs \cup LnkSyms \cup {Nil}) /\ xrefs(Obj) \in Seq(Reference)
    BY <2>1, XrefsType DEF TypeInv
  <2>3. Len(bound[Obj]) \in Nat /\ Len(xrefs(Obj)) \in Nat
    BY <2>2
  <2>4. ~(Len(bound[Obj]) < Len(xrefs(Obj)))
    BY DEF AtXref
  <2>5. Len(bound[Obj]) = Len(xrefs(Obj))
    BY <1>2, <2>3, <2>4
  <2> QED
    BY <2>5 DEF Complete
<1>4. \A i \in 1 .. N : i <= obj => Complete(selobjects[i])
  <2>1. \A i \in 1 .. N : i <= obj => i < obj \/ i = obj
    BY <1>1, <1>2
  <2> QED
    BY <1>2, <1>3, <2>1 DEF Obj
<1>5. \A u \in linked : Complete(u) => Complete(u)'
  <2>1. \A u \in linked : xrefs(u)' = xrefs(u)
    BY DEF xrefs, UNDEFSYMBOLS
  <2> QED
    BY <2>1 DEF Complete
<1> HIDE DEF N, M
<1>6. \A i \in 1 .. M : i <= obj => i \in 1 .. N /\ Complete(selobjects[i])'
  <2>1. ASSUME NEW i \in 1 .. M, i <= obj PROVE i \in 1 .. N /\ Complete(selobjects[i])'
    <3>1. i \in 1 .. N
      BY <1>1, <1>2, <2>1
    <3>2. selobjects[i] \in linked /\ Complete(selobjects[i])
      BY <1>1, <1>2, <1>4, <2>1, <3>1 DEF Range
    <3>3. ASSUME NEW u, u = selobjects[i] PROVE Complete(u)'
      BY <1>5, <3>2, <3>3
    <3>4. selobjects'[i] = selobjects[i]
      BY <3>1 DEF N
    <3> QED
      BY <3>1, <3>3, <3>4 DEF Complete
  <2> QED
    BY <2>1
<1>7. \A i \in 1 .. M : i > obj => bound'[selobjects'[i]] = <<>>
  <2>1. ASSUME NEW i \in 1 .. M, i > obj PROVE bound'[selobjects'[i]] = <<>>
    <3>1. CASE i <= N
      <4>1. i \in 1 .. N
        BY <1>1, <3>1
      <4>2. selobjects'[i] = selobjects[i]
        BY <4>1 DEF N
      <4> QED
        BY <1>2, <2>1, <4>1, <4>2
    <3>2. CASE ~(i <= N)
      <4>1. i \in N + 1 .. M
        BY <1>1, <3>2
      <4> QED
        BY <4>1 DEF N, M
    <3> QED
      BY <3>1, <3>2
  <2> QED
    BY <2>1
<1>8. \A u \in Visitors \ linked' : bound'[u] = <<>>
  BY <1>2
<1>9. INITEXIT \notin linked' => xtors' = <<>>
  BY <1>2
<1>10. CASE obj < M /\ obj' = obj + 1 /\ phase' = phase
  <2>1. obj' \in 1 .. M /\ obj' > obj
    BY <1>1, <1>2, <1>10
  <2>2. bound'[Obj'] = <<>>
    BY <1>7, <2>1 DEF Obj
  <2>3. Obj' \in Visitors
    BY <1>1, <2>1 DEF Obj, M
  <2>4. Len(bound'[Obj']) <= Len(xrefs(Obj)')
    <3>1. /\ prog'.xrefs \in [Units -> Seq(Reference)] /\ prog'.undef \in Seq(Reference)
          /\ xtors' \in Seq(Reference)
      BY LinkerAssumption DEF TypeInv
    <3>2. Obj' # UNDEFSYMBOLS /\ Obj' # INITEXIT => Obj' \in Units
      BY <2>3 DEF Visitors
    <3>3. xrefs(Obj)' \in Seq(Reference)
      BY <3>1, <3>2, SymFacts DEF xrefs, UNDEFSYMBOLS, INITEXIT
    <3>4. Len(bound'[Obj']) = 0 /\ Len(xrefs(Obj)') \in Nat
      BY <2>2, <3>3
    <3> QED
      BY <3>4
  <2>5. ASSUME NEW i \in 1 .. M
        PROVE  /\ i < obj' => Complete(selobjects[i])'
               /\ i > obj' => bound'[selobjects'[i]] = <<>>
    BY <1>1, <1>2, <1>6, <1>7, <1>10, <2>5
  <2> QED
    BY <1>1, <1>8, <1>9, <1>10, <2>1, <2>4, <2>5 DEF Listed, M, Visitors, INITEXIT, UNDEFSYMBOLS
<1>11. CASE ~(obj < M) /\ phase' = "done" /\ obj' = obj
  <2>1. \A i \in 1 .. M : i <= obj
    BY <1>1, <1>2, <1>11
  <2>2. \A u \in linked' : \E i \in 1 .. M : u = selobjects'[i]
    BY <1>1 DEF Range
  <2>3. ASSUME NEW u \in linked' PROVE Complete(u)'
    <3>1. PICK i \in 1 .. M : u = selobjects'[i]
      BY <2>2, <2>3
    <3>2. Complete(selobjects[i])'
      BY <1>6, <2>1, <3>1
    <3> QED
      BY <3>1, <3>2 DEF Complete
  <2>4. ASSUME NEW i \in 1 .. M
        PROVE  /\ i < obj' => Complete(selobjects[i])'
               /\ i > obj' => bound'[selobjects'[i]] = <<>>
    BY <1>1, <1>2, <1>6, <1>7, <1>11, <2>4
  <2> QED
    BY <1>1, <1>8, <1>9, <1>11, <2>3, <2>4 DEF Listed, M, Visitors, INITEXIT, UNDEFSYMBOLS
<1> QED
  BY <1>10, <1>11 DEF M

LEMMA NextObjectIs ==
  ASSUME TypeInv, Listed, NextObject
  PROVE  /\ UNCHANGED <<prog, loaded, unread, indir, bound, pripointers, walk>>
         /\ phase = "resolve" /\ ~AtXref
         /\ \/ obj < Len(selobjects') /\ obj' = obj + 1 /\ phase' = phase
            \/ ~(obj < Len(selobjects')) /\ phase' = "done" /\ obj' = obj
         /\ \/ /\ UNCHANGED <<xtors, selobjects, linked, lnksyms, link, objsyms, freed, errors>>
               /\ xtorsDone' = TRUE \/ xtorsDone' = xtorsDone
            \/ \E v \in {Verdict(Label)} : \E k :
               /\ SpokenAt(Label, v, k) /\ INITEXIT \notin linked /\ xtorsDone' = TRUE
               /\ xtors' \in Seq(Reference) /\ selobjects' = Append(selobjects, INITEXIT)
               /\ linked' = linked \cup {INITEXIT} /\ lnksyms' = lnksyms \ {Label}
               /\ link' = addglobsym(Label, v)
               /\ objsyms' = (objsyms \ Displaced(v)) \cup {Label} /\ freed' = freed \cup Displaced(v)
               /\ errors' = errors \cup Redefined(Label, v)
<1>1. /\ UNCHANGED <<prog, loaded, unread, indir, bound, pripointers, walk>>
      /\ phase = "resolve" /\ ~AtXref
      /\ \/ obj < Len(selobjects') /\ obj' = obj + 1 /\ phase' = phase
         \/ ~(obj < Len(selobjects')) /\ phase' = "done" /\ obj' = obj
  BY DEF NextObject
<1>2. \/ UNCHANGED <<xtors, selobjects, linked, lnksyms, link, objsyms, freed, errors, xtorsDone>>
      \/ ~xtorsDone /\ make_constructors /\ xtorsDone' = TRUE
  BY DEF NextObject
<1>3. CASE UNCHANGED <<xtors, selobjects, linked, lnksyms, link, objsyms, freed, errors, xtorsDone>>
  BY <1>1, <1>3
<1>4. CASE ~xtorsDone /\ make_constructors /\ xtorsDone' = TRUE
  <2>1. CASE ~LabelReferenced
    BY <1>1, <1>4, <2>1 DEF make_constructors
  <2>2. CASE LabelReferenced
    <3> DEFINE R == {[name |-> n, kind |-> "strong"] : n \in pripointers}
               v == Verdict(Label)
    <3>1. /\ xtors' = SetToSeq(R) /\ selobjects' = Append(selobjects, INITEXIT)
          /\ linked' = linked \cup {INITEXIT} /\ lnksyms' = lnksyms \ {Label}
          /\ link' = addglobsym(Label, v)
          /\ objsyms' = (objsyms \ Displaced(v)) \cup {Label} /\ freed' = freed \cup Displaced(v)
          /\ errors' = errors \cup Redefined(Label, v)
      BY <1>4, <2>2 DEF make_constructors
    <3>2. R \subseteq Reference
      <4>1. pripointers \subseteq Names
        BY FilesAssumption DEF TypeInv
      <4> QED
        BY <4>1 DEF Reference
    <3>3. IsFiniteSet(R)
      <4>1. IsFiniteSet(pripointers)
        <5>1. pripointers \subseteq Names /\ IsFiniteSet(Names)
          BY FilesAssumption DEF TypeInv
        <5> QED
          BY <5>1, FS_Subset
      <4>2. DEFINE f == [n \in pripointers |-> [name |-> n, kind |-> "strong"]]
      <4>3. f \in Surjection(pripointers, R)
        BY DEF Surjection
      <4> HIDE DEF f, R
      <4> QED
        BY <4>1, <4>3, FS_Surjection
    <3>4. SetToSeq(R) \in Seq(Reference)
      <4>1. SetToSeq(R) \in Seq(R)
        BY <3>3, SetToSeqIs
      <4> HIDE DEF R
      <4> QED
        BY <3>2, <4>1
    <3>5. \E k : SpokenAt(Label, v, k)
      <4>1. Label \in Defs /\ UnitOf(Label) \notin Members
        BY PlaceFacts, SymFacts DEF Units
      <4> QED
        BY <4>1, VerdictIs
    <3>6. INITEXIT \notin linked
      BY <1>4 DEF Listed
    <3> HIDE DEF R, v
    <3>7. v \in {Verdict(Label)}
      BY DEF v
    <3> QED
      BY <1>1, <1>4, <3>1, <3>4, <3>5, <3>6, <3>7
  <2> QED
    BY <2>1, <2>2
<1> QED
  BY <1>2, <1>3, <1>4

\* On to the next object, when no object is made.
LEMMA NextKnownKeeps ==
  ASSUME LinkerInv, phase = "resolve", ~AtXref,
         UNCHANGED <<prog, loaded, unread, indir, bound, pripointers, walk>>,
         UNCHANGED <<xtors, selobjects, linked, lnksyms, link, objsyms, freed, errors>>,
         xtorsDone' = TRUE \/ xtorsDone' = xtorsDone,
         \/ obj < Len(selobjects') /\ obj' = obj + 1 /\ phase' = phase
         \/ ~(obj < Len(selobjects')) /\ phase' = "done" /\ obj' = obj
  PROVE  LinkerInv'
<1> USE DEF LinkerInv
<1>1. phase' \in {"resolve", "done"} /\ obj \in Nat /\ obj' \in Nat /\ indir = Nil
  BY NoIndirect DEF TypeInv
<1>2. /\ Bound' = Bound
      /\ \A r \in Bound : BoundTo(r)' = BoundTo(r) /\ XrefOf(r)' = XrefOf(r)
      /\ \A n : RefsTo(n)' = RefsTo(n) /\ WeakRef(n)' = WeakRef(n) /\ LocalRef(n)' = LocalRef(n)
  <2>1. TypeInv /\ linked \subseteq linked' /\ \A u \in linked' \ linked : bound[u] = <<>>
    OBVIOUS
  <2> HIDE DEF LinkerInv
  <2> QED
    BY <2>1, SameBound
<1>3. TypeInv'
  <2>1. Defs' = Defs
    BY SymSame
  <2>2. phase' \in Phases /\ xtorsDone' \in BOOLEAN
    BY <1>1 DEF Phases, TypeInv
  <2> QED
    BY <1>1, <2>1, <2>2 DEF TypeInv, Label, Nil, LnkSyms, Phases, Visitors, Places, Buckets, Syms, NameOf
<1>4. Listed'
  <2>1. /\ TypeInv /\ Listed /\ Range(selobjects') = linked' /\ IsInjective(selobjects')
        /\ selobjects' \in Seq(Visitors) /\ linked \subseteq linked' /\ linked' \subseteq Visitors
        /\ xtors' \in Seq(Reference) /\ (INITEXIT \in linked' => xtorsDone')
    BY DEF TypeInv, Listed
  <2>2. /\ Len(selobjects) \in Nat /\ Len(selobjects) <= Len(selobjects')
        /\ \A i \in 1 .. Len(selobjects) : selobjects'[i] = selobjects[i]
    BY DEF TypeInv
  <2>3. \A i \in Len(selobjects) + 1 .. Len(selobjects') : bound[selobjects'[i]] = <<>>
    BY <2>2
  <2> HIDE DEF LinkerInv
  <2> QED
    BY <2>1, <2>2, <2>3, NextListed
<1>5. Loading'
  BY <1>1, KeptLoading
<1>6. Pulls'
  BY <1>1, <1>2, SamePulls
<1>7. Chains'
  BY <1>1, SameChainsKept DEF Chains
<1>8. Asked'
  BY <1>1, <1>2, SameAsked
<1>9. Compared'
  <2>1. \A n : InChain(n)' = InChain(n)
    BY SameChains
  <2>2. \A x1, x2 : ~Pending(x1, x2)
    BY DEF Pending
  <2> QED
    BY <2>1, <2>2, KeptCompared
<1>10. Bindings'
  BY <1>2, SameBindings
<1> QED
  BY <1>3, <1>4, <1>5, <1>6, <1>7, <1>8, <1>9, <1>10

\* The linker's own label is the only symbol of its name.
LEMMA LabelAlone ==
  ASSUME TypeInv, ~Contested(CtorLabel)
  PROVE  OfName(CtorLabel) = {Label}
<1>1. \A u \in Units : ~Defines(u, CtorLabel)
  BY DEF Contested
<1>2. ASSUME NEW s \in OfName(CtorLabel) PROVE s = Label
  <2>1. s \in Defs /\ NameOf(s) = CtorLabel
    BY DEF OfName
  <2>2. UnitOf(s) \in Units => s = <<UnitOf(s), CtorLabel>> /\ s \in Defs
    BY <2>1, SymFacts
  <2>3. UnitOf(s) \notin Units
    BY <1>1, <2>2, SymFacts, PlaceFacts
  <2> QED
    BY <2>1, <2>3, SymFacts
<1> QED
  BY <1>2, PlaceFacts DEF OfName

\* The object with the list of constructors is made, and is the next one.
LEMMA ConstructorsMadeKeeps ==
  ASSUME LinkerInv, phase = "resolve", ~AtXref,
         UNCHANGED <<prog, loaded, unread, indir, bound, pripointers, walk>>,
         \/ obj < Len(selobjects') /\ obj' = obj + 1 /\ phase' = phase
         \/ ~(obj < Len(selobjects')) /\ phase' = "done" /\ obj' = obj,
         NEW v, NEW k, SpokenAt(Label, v, k), INITEXIT \notin linked, xtorsDone' = TRUE,
         xtors' \in Seq(Reference), selobjects' = Append(selobjects, INITEXIT),
         linked' = linked \cup {INITEXIT}, lnksyms' = lnksyms \ {Label},
         link' = addglobsym(Label, v),
         objsyms' = (objsyms \ Displaced(v)) \cup {Label}, freed' = freed \cup Displaced(v),
         errors' = errors \cup Redefined(Label, v)
  PROVE  LinkerInv'
<1> USE DEF LinkerInv
<1>1. phase' \in {"resolve", "done"} /\ obj \in Nat /\ obj' \in Nat /\ indir = Nil
  BY NoIndirect DEF TypeInv
<1>2. /\ INITEXIT \in Visitors /\ bound[INITEXIT] = <<>>
      /\ Label \in Defs /\ NameOf(Label) = CtorLabel /\ CtorLabel \in Names /\ UnitOf(Label) = INITEXIT
      /\ INITEXIT \notin Units /\ INITEXIT \notin Members
      /\ Bucket(CtorLabel) \in Places /\ Bucket(CtorLabel) # Label /\ Label \in Places /\ Label # Nil
  BY PlaceFacts, SymFacts DEF Listed, Visitors, Units
<1>3. /\ Label \notin objsyms \cup freed /\ link[Label] = Nil /\ \A p \in Places : link[p] # Label
      /\ \A n \in Names : ~Contested(n) => ChainOk(n)
      /\ objsyms \cap freed = {}
  BY DEF Chains, Stable
<1>4. /\ v.at = Bucket(CtorLabel)
      /\ v.what \in {"append", "ignore", "error", "replace"}
      /\ v.what = "replace" => link[v.at] \in OfName(CtorLabel)
  BY <1>2, VerdictPlace
<1>5. /\ link' \in [Places -> Defs \cup {Nil}] /\ link'[Nil] = Nil
      /\ \A p \in Places : link'[p] # Nil => NameOf(link'[p]) = NameOf(p)
      /\ \A p \in Places : NameOf(p) # CtorLabel => link'[p] = link[p]
      /\ Displaced(v) \subseteq OfName(CtorLabel)
      /\ link'[Bucket(CtorLabel)] = Nil => link[Bucket(CtorLabel)] = Nil
  BY <1>2, AddIs, AddType
<1>6. link[Bucket(CtorLabel)] = Nil =>
        /\ v.what = "append" /\ link'[Bucket(CtorLabel)] = Label /\ Displaced(v) = {} /\ Entered(v)
  BY <1>2, AddHead DEF Displaced, Entered
<1>7. Displaced(v) \subseteq Defs /\ Label \notin Displaced(v)
  <2>1. Displaced(v) \subseteq Defs
    BY <1>5 DEF OfName
  <2>2. v.what = "replace" => link[v.at] # Label
    BY <1>2, <1>3, <1>4
  <2> QED
    BY <2>1, <2>2 DEF Displaced
<1>8. Redefined(Label, v) \subseteq {19} \X Names
  BY <1>2 DEF Redefined
<1>9. /\ Bound' = Bound
      /\ \A r \in Bound : BoundTo(r)' = BoundTo(r) /\ XrefOf(r)' = XrefOf(r)
      /\ \A n : RefsTo(n)' = RefsTo(n) /\ WeakRef(n)' = WeakRef(n) /\ LocalRef(n)' = LocalRef(n)
  <2>1. TypeInv /\ linked \subseteq linked' /\ \A u \in linked' \ linked : bound[u] = <<>>
    BY <1>2
  <2> HIDE DEF LinkerInv
  <2> QED
    BY <2>1, SameBound
<1>10. TypeInv'
  <2>1. Defs' = Defs
    BY SymSame
  <2>2. phase' \in Phases /\ xtorsDone' \in BOOLEAN
    BY <1>1 DEF Phases
  <2>3. objsyms' \subseteq Defs /\ freed' \subseteq Defs
    BY <1>2, <1>7 DEF TypeInv
  <2>4. errors' \subseteq {19, 21} \X Names
    BY <1>8 DEF TypeInv
  <2>5. selobjects' \in Seq(Visitors) /\ linked' \subseteq Visitors
    BY <1>2 DEF TypeInv
  <2>6. lnksyms' \subseteq LnkSyms \cup {Label}
    BY DEF TypeInv
  <2> QED
    BY <1>1, <1>5, <2>1, <2>2, <2>3, <2>4, <2>5, <2>6
       DEF TypeInv, Label, Nil, LnkSyms, Phases, Visitors, Places, Buckets, Syms, NameOf
<1>11. Listed'
  <2>1. /\ selobjects \in Seq(Visitors) /\ Range(selobjects) = linked /\ IsInjective(selobjects)
        /\ linked \subseteq Visitors
    BY DEF TypeInv, Listed
  <2>2. /\ selobjects' \in Seq(Visitors) /\ Len(selobjects') = Len(selobjects) + 1
        /\ \A i \in 1 .. Len(selobjects) : selobjects'[i] = selobjects[i]
        /\ selobjects'[Len(selobjects) + 1] = INITEXIT
        /\ Range(selobjects') = linked' /\ IsInjective(selobjects')
    <3> HIDE DEF LinkerInv
    <3> QED
      BY <1>2, <2>1, AppendIs
  <2>3. /\ Len(selobjects) \in Nat /\ Len(selobjects) <= Len(selobjects')
    BY <2>1, <2>2
  <2>4. \A i \in Len(selobjects) + 1 .. Len(selobjects') : bound[selobjects'[i]] = <<>>
    <3>1. \A i \in Len(selobjects) + 1 .. Len(selobjects') : i = Len(selobjects) + 1
      BY <2>2, <2>3
    <3> QED
      BY <1>2, <2>2, <3>1
  <2>5. linked \subseteq linked' /\ linked' \subseteq Visitors /\ INITEXIT \in linked' /\ TypeInv /\ Listed
    BY <1>2, <2>1
  <2> HIDE DEF LinkerInv
  <2> QED
    BY <2>2, <2>3, <2>4, <2>5, NextListed
<1>12. Loading'
  <2>1. ASSUME NEW n \in Names, link[Bucket(n)] # Nil PROVE link'[Bucket(n)] # Nil
    <3>1. CASE n = CtorLabel
      BY <1>5, <2>1, <3>1
    <3>2. CASE n # CtorLabel
      BY <1>5, <2>1, <3>2, PlaceFacts
    <3> QED
      BY <3>1, <3>2
  <2>2. link'[Bucket(CtorLabel)] # Nil
    BY <1>2, <1>5, <1>6
  <2> QED
    BY <1>1, <2>1, <2>2, KeptLoading
<1>13. Pulls'
  <2>1. linked' \cap Members = linked \cap Members /\ linked \subseteq linked'
    BY <1>2
  <2> QED
    BY <1>1, <1>9, <2>1, SamePulls
<1>14. \A n \in Names : n # CtorLabel =>
          /\ Live(n)' = Live(n) /\ InChain(n)' = InChain(n)
          /\ ~Contested(n) => ChainOk(n)'
  <2>1. ASSUME NEW n \in Names, n # CtorLabel
        PROVE  /\ Live(n)' = Live(n) /\ InChain(n)' = InChain(n)
               /\ ~Contested(n) => ChainOk(n)'
    <3>1. \A p \in OfName(n) \cup {Nil, Bucket(n)} : link'[p] = link[p]
      <4>1. \A p \in OfName(n) \cup {Bucket(n)} : p \in Places /\ NameOf(p) = n
        BY <2>1, PlaceFacts DEF OfName
      <4>2. link'[Nil] = link[Nil]
        BY <1>5 DEF TypeInv
      <4> QED
        BY <1>5, <2>1, <4>1, <4>2
    <3>2. Live(n)' = Live(n)
      <4>1. \A s \in Displaced(v) \cup {Label} : NameOf(s) # n
        BY <1>2, <1>5, <2>1 DEF OfName
      <4> QED
        BY <4>1 DEF Live, NameOf
    <3>3. InChain(n)' = InChain(n)
      BY <2>1, <3>1, ChainSame, MaxChainIs DEF InChain, Nil, MaxChain
    <3>4. ~Contested(n) => ChainOk(n)'
      <4> HIDE DEF LinkerInv
      <4> QED
        BY <1>3, <2>1, <3>1, <3>2, OtherOk DEF LinkerInv
    <3> QED
      BY <3>2, <3>3, <3>4
  <2> QED
    BY <2>1
<1>15. ASSUME ~Contested(CtorLabel)
       PROVE  ChainOk(CtorLabel)' /\ InChain(CtorLabel)' \subseteq {Label}
  <2>1. OfName(CtorLabel) = {Label}
    BY <1>15, LabelAlone
  <2>2. link[Bucket(CtorLabel)] = Nil
    <3>1. /\ link[Bucket(CtorLabel)] \in Defs \cup {Nil}
          /\ link[Bucket(CtorLabel)] # Nil => NameOf(link[Bucket(CtorLabel)]) = CtorLabel
      BY <1>2, PlaceFacts DEF TypeInv
    <3> QED
      BY <1>2, <1>3, <2>1, <3>1 DEF OfName
  <2>3. /\ v.what = "append" /\ link'[Bucket(CtorLabel)] = Label /\ Displaced(v) = {} /\ Entered(v)
    BY <1>6, <2>2
  <2>4. link'[Label] = Nil
    <3>1. addglobsym(Label, v)[Label] = link[Label]
      BY <1>2, <1>4, <2>3, AddIs
    <3> QED
      BY <1>3, <3>1
  <2>5. ChainOk(CtorLabel)'
    <3>1. objsyms' = IF Entered(v) THEN (objsyms \ Displaced(v)) \cup {Label} ELSE objsyms
      BY <2>3
    <3>2. ChainOk(CtorLabel) /\ Label \notin objsyms /\ TypeInv
      BY <1>2, <1>3, <1>15
    <3> HIDE DEF LinkerInv
    <3> QED
      BY <1>2, <1>3, <3>1, <3>2, EnterOk
  <2>6. InChain(CtorLabel)' \subseteq {Label}
    <3> DEFINE S == {Bucket(CtorLabel), Label, Nil}
               f == link'
               c == Steps(f, Bucket(CtorLabel), MaxChain)
    <3>1. \A x \in S : f[x] \in {Label, Nil}
      BY <1>5, <2>3, <2>4
    <3>2. c = Chain(CtorLabel)'
      BY DEF Chain, Bucket, MaxChain, Steps
    <3>3. Bucket(CtorLabel) \in S /\ \A x \in S : f[x] \in S
      BY <3>1
    <3> HIDE DEF f, S
    <3>4. /\ \A j \in 1..MaxChain : c[j] = f[c[j - 1]]
          /\ \A j \in 0..MaxChain : c[j] \in S
      BY <3>3, MaxChainIs, StepsAre
    <3> HIDE DEF c
    <3>5. \A j \in 1..MaxChain : c[j] \in {Label, Nil}
      <4>1. \A j \in 1..MaxChain : j - 1 \in 0..MaxChain
        BY MaxChainIs
      <4> QED
        BY <3>1, <3>4, <4>1
    <3> QED
      BY <3>2, <3>5 DEF InChain, Nil, MaxChain
  <2> QED
    BY <2>5, <2>6
<1>16. \A n : Contested(n)' = Contested(n)
  BY SymSame
<1>17. Chains'
  <2>1. \A n \in Names : Stable(n)' => ChainOk(n)'
    <3>1. \A n \in Names : Stable(n)' => ~Contested(n)
      BY <1>1, <1>16 DEF Stable
    <3> QED
      BY <1>14, <1>15, <3>1
  <2>2. objsyms' \cap freed' = {}
    BY <1>3, <1>7
  <2>3. Label \notin freed'
    BY <1>3, <1>7
  <2> QED
    BY <1>1, <2>1, <2>2, <2>3 DEF Chains, Label, INITEXIT
<1>18. Asked'
  <2>1. \A n : <<LNK, n>> \in lnksyms' => <<LNK, n>> \in lnksyms
    OBVIOUS
  <2>2. \A n : <<21, n>> \in errors' <=> <<21, n>> \in errors
    BY <1>8
  <2> QED
    BY <1>1, <1>9, <2>1, <2>2, SameAsked
<1>19. Compared'
  <2>1. ASSUME NEW n \in Names, ~Contested(n), NEW s \in InChain(n)', NEW t \in InChain(n)',
               s # t, {UnitOf(s), UnitOf(t)} \subseteq linked'
        PROVE  <<19, n>> \in errors'
    <3>1. n # CtorLabel
      BY <1>15, <2>1
    <3>2. s \in InChain(n) /\ t \in InChain(n)
      BY <1>14, <2>1, <3>1
    <3>3. \A x \in InChain(n) : UnitOf(x) # INITEXIT
      <4>1. ASSUME NEW x \in InChain(n) PROVE UnitOf(x) # INITEXIT
        <5>1. x \in Defs /\ NameOf(x) = n
          BY <2>1, <4>1, InChainIs
        <5>2. x # Label
          BY <1>2, <3>1, <5>1
        <5> QED
          BY <1>2, <5>1, <5>2, SymFacts
      <4> QED
        BY <4>1
    <3>4. {UnitOf(s), UnitOf(t)} \subseteq linked
      BY <2>1, <3>2, <3>3
    <3>5. <<19, n>> \in errors \/ Pending(s, t) \/ Pending(t, s)
      BY <2>1, <3>2, <3>4 DEF Compared
    <3>6. ~Pending(s, t) /\ ~Pending(t, s)
      BY DEF Pending
    <3> QED
      BY <3>5, <3>6
  <2> QED
    BY <1>16, <2>1 DEF Compared, UnitOf
<1>20. Bindings'
  <2>1. ASSUME NEW r \in Bound, NEW s, s = BoundTo(r), s \in Defs, ~Contested(NameOf(s))
        PROVE  s = Label \/ s \in InChain(NameOf(s))'
    <3>1. s = Label \/ s \in InChain(NameOf(s))
      BY <2>1 DEF Bindings
    <3>2. NameOf(s) \in Names
      BY <2>1, SymFacts
    <3>3. CASE NameOf(s) = CtorLabel
      BY <2>1, <3>3, LabelAlone DEF OfName
    <3>4. CASE NameOf(s) # CtorLabel
      BY <1>14, <3>1, <3>2, <3>4
    <3> QED
      BY <3>3, <3>4
  <2>2. Defs' = Defs
    BY SymSame
  <2>3. ASSUME NEW r \in Bound', NEW s, s = BoundTo(r)', s \in Defs', ~Contested(NameOf(s))'
        PROVE  s = Label \/ s \in InChain(NameOf(s))'
    <3>1. r \in Bound /\ s = BoundTo(r) /\ s \in Defs
      BY <1>9, <2>2, <2>3
    <3>2. ~Contested(NameOf(s))
      BY <1>16, <2>3 DEF NameOf
    <3> QED
      BY <2>1, <3>1, <3>2
  <2> QED
    BY <2>3 DEF Bindings, Label, NameOf
<1> QED
  BY <1>10, <1>11, <1>12, <1>13, <1>17, <1>18, <1>19, <1>20

LEMMA NextObjectKeeps ==
  ASSUME LinkerInv, NextObject
  PROVE  LinkerInv'
<1>1. TypeInv /\ Listed
  BY DEF LinkerInv
<1>2. /\ UNCHANGED <<prog, loaded, unread, indir, bound, pripointers, walk>>
      /\ phase = "resolve" /\ ~AtXref
      /\ \/ obj < Len(selobjects') /\ obj' = obj + 1 /\ phase' = phase
         \/ ~(obj < Len(selobjects')) /\ phase' = "done" /\ obj' = obj
  BY <1>1, NextObjectIs
<1>3. CASE /\ UNCHANGED <<xtors, selobjects, linked, lnksyms, link, objsyms, freed, errors>>
           /\ xtorsDone' = TRUE \/ xtorsDone' = xtorsDone
  BY <1>2, <1>3, NextKnownKeeps
<1>4. CASE \E v \in {Verdict(Label)} : \E k :
               /\ SpokenAt(Label, v, k) /\ INITEXIT \notin linked /\ xtorsDone' = TRUE
               /\ xtors' \in Seq(Reference) /\ selobjects' = Append(selobjects, INITEXIT)
               /\ linked' = linked \cup {INITEXIT} /\ lnksyms' = lnksyms \ {Label}
               /\ link' = addglobsym(Label, v)
               /\ objsyms' = (objsyms \ Displaced(v)) \cup {Label} /\ freed' = freed \cup Displaced(v)
               /\ errors' = errors \cup Redefined(Label, v)
  <2>1. PICK v \in {Verdict(Label)} : \E k :
               /\ SpokenAt(Label, v, k) /\ INITEXIT \notin linked /\ xtorsDone' = TRUE
               /\ xtors' \in Seq(Reference) /\ selobjects' = Append(selobjects, INITEXIT)
               /\ linked' = linked \cup {INITEXIT} /\ lnksyms' = lnksyms \ {Label}
               /\ link' = addglobsym(Label, v)
               /\ objsyms' = (objsyms \ Displaced(v)) \cup {Label} /\ freed' = freed \cup Displaced(v)
               /\ errors' = errors \cup Redefined(Label, v)
    BY <1>4
  <2>2. PICK k : SpokenAt(Label, v, k)
    BY <2>1
  <2> QED
    BY <1>2, <2>1, <2>2, ConstructorsMadeKeeps
<1> QED
  BY <1>1, <1>3, <1>4, NextObjectIs

\* While the files are read no reference was visited, and only objects are linked.
LEMMA NothingBound ==
  ASSUME TypeInv, Listed, Loading, phase = "load"
  PROVE  /\ Bound = {} /\ obj = 1 /\ linked \subseteq Objects /\ linked = Objects \cap Read
         /\ INITEXIT \notin linked /\ UNDEFSYMBOLS \notin linked
         /\ \A u \in Visitors : bound[u] = <<>>
<1>1. \A u \in linked : bound[u] = <<>>
  BY DEF Listed
<1>2. obj = 1 /\ \A u \in Visitors \ linked : bound[u] = <<>>
  BY DEF Listed
<1>3. linked = Objects \cap Read
  BY DEF Loading
<1>4. Bound = {}
  BY <1>1 DEF Bound
<1> QED
  BY <1>1, <1>2, <1>3, <1>4, SymFacts DEF Units

\* The next unit is a new one.
LEMMA NextUnit ==
  ASSUME TypeInv, loaded < Len(Files)
  PROVE  /\ Files[loaded + 1] \in Units /\ Files[loaded + 1] \notin Read
         /\ {Files[i] : i \in 1 .. loaded + 1} = Read \cup {Files[loaded + 1]}
         /\ loaded + 1 \in 0 .. Len(Files) /\ loaded + 1 > 0
<1>1. /\ Files \in Seq(Units) /\ Len(Files) \in Nat /\ DOMAIN Files = 1 .. Len(Files)
      /\ \A i, j \in DOMAIN Files : Files[i] = Files[j] => i = j
  BY FilesAssumption DEF IsInjective
<1>2. loaded \in Nat /\ loaded + 1 \in 1 .. Len(Files)
  BY <1>1 DEF TypeInv
<1>3. \A i \in 1 .. loaded : i \in 1 .. Len(Files) /\ i # loaded + 1
  BY <1>1, <1>2
<1>4. Files[loaded + 1] \notin Read
  BY <1>1, <1>2, <1>3 DEF Read
<1>5. \A i : i \in 1 .. loaded + 1 <=> i \in 1 .. loaded \/ i = loaded + 1
  BY <1>2
<1>6. {Files[i] : i \in 1 .. loaded + 1} = Read \cup {Files[loaded + 1]}
  BY <1>5 DEF Read
<1> QED
  BY <1>1, <1>2, <1>4, <1>6

LEMMA LoadUnitKeeps ==
  ASSUME LinkerInv, LoadUnit
  PROVE  LinkerInv'
<1> USE DEF LinkerInv
<1>1. SUFFICES ASSUME NEW u, u = Files[loaded + 1] PROVE LinkerInv'
  OBVIOUS
<1>2. /\ UNCHANGED <<prog, phase, link, objsyms, freed, lnksyms, obj, indir, bound, pripointers,
                     xtors, xtorsDone, walk, errors>>
      /\ phase = "load" /\ unread = {} /\ loaded < Len(Files)
      /\ loaded' = loaded + 1 /\ unread' = {n \in Names : Defines(u, n)}
      /\ \/ IsLib(u) /\ selobjects' = selobjects /\ linked' = linked
         \/ ~IsLib(u) /\ selobjects' = Append(selobjects, u) /\ linked' = linked \cup {u}
  BY <1>1 DEF LoadUnit
<1>3. /\ u \in Units /\ u \notin Read /\ Read' = Read \cup {u} /\ loaded' \in 0 .. Len(Files) /\ loaded' > 0
  BY <1>1, <1>2, NextUnit DEF Read
<1>4. /\ Bound = {} /\ obj = 1 /\ linked = Objects \cap Read
      /\ \A w \in Visitors : bound[w] = <<>>
  BY <1>2, NothingBound
<1>5. u \in Visitors /\ u \notin linked
  BY <1>3, <1>4 DEF Visitors
<1>6. linked' = Objects \cap Read'
  <2>1. IsLib(u) => u \notin Objects
    BY FilesAssumption DEF IsLib
  <2>2. ~IsLib(u) => u \in Objects
    BY <1>3 DEF IsLib, Units
  <2> QED
    BY <1>2, <1>3, <1>4, <2>1, <2>2
<1>7. INITEXIT \notin linked' /\ linked \subseteq linked' /\ linked' \subseteq Visitors /\ linked' \cap Members = {}
  BY <1>2, <1>6, SymFacts, FilesAssumption DEF Units, Visitors
<1>8. /\ selobjects' \in Seq(Visitors) /\ Range(selobjects') = linked' /\ IsInjective(selobjects')
  <2>1. selobjects \in Seq(Visitors) /\ Range(selobjects) = linked /\ IsInjective(selobjects)
    BY DEF TypeInv, Listed
  <2>2. CASE selobjects' = selobjects /\ linked' = linked
    BY <2>1, <2>2
  <2>3. CASE selobjects' = Append(selobjects, u) /\ linked' = linked \cup {u}
    <3> HIDE DEF LinkerInv
    <3> QED
      BY <1>5, <2>1, <2>3, AppendIs
  <2> QED
    BY <1>2, <2>2, <2>3
<1>9. /\ Bound' = Bound
      /\ \A r \in Bound : BoundTo(r)' = BoundTo(r) /\ XrefOf(r)' = XrefOf(r)
      /\ \A n : RefsTo(n)' = RefsTo(n) /\ WeakRef(n)' = WeakRef(n) /\ LocalRef(n)' = LocalRef(n)
  <2>1. TypeInv /\ \A w \in linked' \ linked : bound[w] = <<>>
    BY <1>4, <1>7
  <2> HIDE DEF LinkerInv
  <2> QED
    BY <1>2, <1>7, <2>1, SameBound
<1>10. \A m : Contested(m)' = Contested(m) /\ (\A w : Defines(w, m)' = Defines(w, m))
  BY <1>2, SymSame
<1>11. TypeInv'
  <2>1. Defs' = Defs
    BY <1>2, SymSame
  <2>2. unread' \subseteq Names
    BY <1>2
  <2> QED
    BY <1>2, <1>3, <1>7, <1>8, <2>1, <2>2 DEF TypeInv, Label, Nil, LnkSyms, Phases, Visitors, Places, Buckets, Syms, NameOf
<1>12. Listed'
  <2>1. \A i \in DOMAIN selobjects' : /\ i \in Nat /\ i >= 1
                                      /\ bound'[selobjects'[i]] = <<>>
    <3>1. \A i \in DOMAIN selobjects' : i \in Nat /\ i >= 1 /\ selobjects'[i] \in Visitors
      BY <1>8
    <3> QED
      BY <1>2, <1>4, <3>1
  <2>2. \A i \in DOMAIN selobjects' : ~(i < obj')
    BY <1>2, <1>4, <2>1
  <2>3. \A w \in linked' : bound'[w] = <<>>
    BY <1>2, <1>4, <1>7
  <2>4. \A w \in Visitors \ linked' : bound'[w] = <<>>
    BY <1>2, <1>4
  <2>5. xtors' = <<>>
    BY <1>2, <1>4, NothingBound DEF Listed
  <2> QED
    BY <1>2, <1>4, <1>7, <1>8, <2>1, <2>2, <2>3, <2>4, <2>5 DEF Listed, Visitors, INITEXIT, UNDEFSYMBOLS
<1>13. Loading'
  <2>1. \A n \in unread' : Defines(Files[loaded], n)'
    <3>1. Files[loaded'] = u /\ prog' = prog
      BY <1>1, <1>2
    <3>2. \A n \in unread' : prog.def[u][n].type # "none"
      BY <1>2 DEF Defines
    <3> QED
      BY <3>1, <3>2 DEF Defines
  <2>2. \A s \in objsyms' \cup freed' : UnitOf(s) \in Read' /\ UnitOf(s) # Files[loaded']
    <3>1. \A s \in objsyms \cup freed : UnitOf(s) \in Read
      <4>1. Loading /\ phase = "load"
        BY <1>2
      <4> HIDE DEF LinkerInv
      <4> QED
        BY <4>1 DEF Loading
    <3> QED
      BY <1>1, <1>2, <1>3, <3>1
  <2>3. \A w \in Read', n \in Names :
          Defines(w, n)' => link'[Bucket(n)] # Nil \/ (w = Files[loaded'] /\ n \in unread')
    <3>1. \A w \in Read, n \in Names : Defines(w, n) => link[Bucket(n)] # Nil
      BY <1>2 DEF Loading
    <3>2. \A n \in Names : Defines(u, n) => n \in unread'
      BY <1>2
    <3> QED
      BY <1>1, <1>2, <1>3, <1>10, <3>1, <3>2
  <2>4. lnksyms' = {} /\ ~xtorsDone'
    BY <1>2 DEF Loading
  <2> QED
    BY <1>2, <1>3, <1>6, <2>1, <2>2, <2>3, <2>4 DEF Loading, Bucket, Nil, UnitOf, NameOf
<1>14. Pulls'
  BY <1>2, <1>4, <1>7, <1>9 DEF Pulls
<1>15. Chains'
  <2>1. \A n \in Names : ChainOk(n)'
    <3>1. \A n \in Names : ChainOk(n)
      BY <1>2 DEF Chains, Stable
    <3> QED
      BY <1>2, <3>1, SameChains
  <2>2. INITEXIT \notin linked
    BY <1>7
  <2> QED
    BY <1>2, <1>10, <2>1, <2>2 DEF Chains, Label, INITEXIT, Nil, Places, Buckets, Syms
<1>16. Asked'
  <2>1. indir = Nil
    BY <1>2, NoIndirect
  <2> QED
    BY <1>2, <1>9, <2>1, SameAsked
<1>17. Compared'
  BY <1>2 DEF Compared
<1>18. Bindings'
  BY <1>2, <1>9, SameBindings
<1> QED
  BY <1>11, <1>12, <1>13, <1>14, <1>15, <1>16, <1>17, <1>18

\* A symbol of the unit that is read comes into its chain.
LEMMA LoadSymbolIs ==
  ASSUME LinkerInv, LoadSymbol
  PROVE  \E n \in unread : \E s \in {<<Files[loaded], n>>} : \E v \in {Verdict(s)} : \E k :
           /\ n \in Names /\ s \in Proper /\ s \in Defs /\ s # Label /\ NameOf(s) = n /\ UnitOf(s) = Files[loaded]
           /\ SpokenAt(s, v, k) /\ s \notin objsyms \cup freed /\ link[s] = Nil
           /\ unread' = unread \ {n} /\ link' = addglobsym(s, v)
           /\ objsyms' = (IF Entered(v) THEN (objsyms \ Displaced(v)) \cup {s} ELSE objsyms)
           /\ freed' = freed \cup (IF Entered(v) THEN Displaced(v) ELSE {s})
           /\ errors' = errors \cup Redefined(s, v)
<1> USE DEF LinkerInv
<1>1. PICK n \in unread : \E s \in {<<Files[loaded], n>>} : \E v \in {Verdict(s)} :
           /\ unread' = unread \ {n} /\ link' = addglobsym(s, v)
           /\ objsyms' = (IF Entered(v) THEN (objsyms \ Displaced(v)) \cup {s} ELSE objsyms)
           /\ freed' = freed \cup (IF Entered(v) THEN Displaced(v) ELSE {s})
           /\ errors' = errors \cup Redefined(s, v)
  BY DEF LoadSymbol
<1>2. PICK s \in {<<Files[loaded], n>>} : \E v \in {Verdict(s)} :
           /\ unread' = unread \ {n} /\ link' = addglobsym(s, v)
           /\ objsyms' = (IF Entered(v) THEN (objsyms \ Displaced(v)) \cup {s} ELSE objsyms)
           /\ freed' = freed \cup (IF Entered(v) THEN Displaced(v) ELSE {s})
           /\ errors' = errors \cup Redefined(s, v)
  BY <1>1
<1>3. phase = "load" /\ n \in Names
  BY DEF LoadSymbol, TypeInv
<1>4. loaded > 0 /\ Defines(Files[loaded], n)
  BY <1>3 DEF Loading
<1>5. Files[loaded] \in Units
  <2>1. loaded \in 1 .. Len(Files) /\ Files \in Seq(Units)
    BY <1>4, FilesAssumption DEF TypeInv
  <2> QED
    BY <2>1
<1>6. /\ UnitOf(s) = Files[loaded] /\ NameOf(s) = n /\ s \in Proper /\ s \in Defs /\ s # Label
  BY <1>2, <1>3, <1>4, <1>5, SymFacts DEF Proper
<1>7. s \notin objsyms \cup freed
  BY <1>3, <1>6 DEF Loading
<1>8. link[s] = Nil
  BY <1>3, <1>6, <1>7, PlaceFacts DEF Chains
<1>9. ChainOk(n)
  BY <1>3 DEF Chains, Stable
<1>10. Chain(n)[MaxChain] = Nil
  BY <1>3, <1>9, ChainEnds
<1>11. PICK k : SpokenAt(s, Verdict(s), k)
  BY <1>6, <1>10, VerdictIs
<1>12. PICK v \in {Verdict(s)} :
           /\ unread' = unread \ {n} /\ link' = addglobsym(s, v)
           /\ objsyms' = (IF Entered(v) THEN (objsyms \ Displaced(v)) \cup {s} ELSE objsyms)
           /\ freed' = freed \cup (IF Entered(v) THEN Displaced(v) ELSE {s})
           /\ errors' = errors \cup Redefined(s, v)
  BY <1>2
<1>13. SpokenAt(s, v, k)
  BY <1>11, <1>12
<1> HIDE DEF LinkerInv
<1> QED
  BY <1>3, <1>6, <1>7, <1>8, <1>12, <1>13

LEMMA LoadSymbolKeeps ==
  ASSUME LinkerInv, LoadSymbol
  PROVE  LinkerInv'
<1> USE DEF LinkerInv
<1>1. /\ UNCHANGED <<prog, phase, loaded, selobjects, linked, lnksyms, obj, indir, bound, pripointers,
                     xtors, xtorsDone, walk>>
      /\ phase = "load"
  BY DEF LoadSymbol
<1>2. PICK n \in unread : \E s \in {<<Files[loaded], n>>} : \E v \in {Verdict(s)} : \E k :
           /\ n \in Names /\ s \in Proper /\ s \in Defs /\ s # Label /\ NameOf(s) = n /\ UnitOf(s) = Files[loaded]
           /\ SpokenAt(s, v, k) /\ s \notin objsyms \cup freed /\ link[s] = Nil
           /\ unread' = unread \ {n} /\ link' = addglobsym(s, v)
           /\ objsyms' = (IF Entered(v) THEN (objsyms \ Displaced(v)) \cup {s} ELSE objsyms)
           /\ freed' = freed \cup (IF Entered(v) THEN Displaced(v) ELSE {s})
           /\ errors' = errors \cup Redefined(s, v)
  BY LoadSymbolIs
<1>3. PICK s, v, k :
           /\ n \in Names /\ s \in Proper /\ s \in Defs /\ s # Label /\ NameOf(s) = n /\ UnitOf(s) = Files[loaded]
           /\ SpokenAt(s, v, k) /\ s \notin objsyms \cup freed /\ link[s] = Nil
           /\ unread' = unread \ {n} /\ link' = addglobsym(s, v)
           /\ objsyms' = (IF Entered(v) THEN (objsyms \ Displaced(v)) \cup {s} ELSE objsyms)
           /\ freed' = freed \cup (IF Entered(v) THEN Displaced(v) ELSE {s})
           /\ errors' = errors \cup Redefined(s, v)
  BY <1>2
<1>4. /\ s \in Places /\ s \in Syms /\ s # Nil /\ Bucket(n) \in Places /\ Bucket(n) \notin Syms
      /\ Bucket(n) # Nil /\ NameOf(Bucket(n)) = n
  BY <1>3, PlaceFacts
<1>5. \A m \in Names : ChainOk(m)
  BY <1>1 DEF Chains, Stable
<1>6. /\ v.at \in Live(n) \cup {Bucket(n)} /\ v.at \in Places /\ s # v.at
      /\ v.what = "replace" => link[v.at] \in Live(n)
      /\ v.what \in {"append", "ignore", "error", "replace"}
  <2>1. /\ v.at \in Live(n) \cup {Bucket(n)}
        /\ v.what = "replace" => link[v.at] \in Live(n)
    BY <1>3, <1>5, PlaceLive
  <2>2. v.what \in {"append", "ignore", "error", "replace"}
    BY <1>3, VerdictPlace
  <2>3. \A x \in Live(n) : x \in objsyms /\ x \in Places
    BY PlaceFacts DEF Live, TypeInv
  <2> QED
    BY <1>3, <1>4, <2>1, <2>2, <2>3
<1>7. /\ link' \in [Places -> Defs \cup {Nil}] /\ link'[Nil] = Nil
      /\ \A p \in Places : link'[p] # Nil => NameOf(link'[p]) = NameOf(p)
      /\ \A p \in Places : NameOf(p) # n => link'[p] = link[p]
      /\ link'[Bucket(n)] # Nil
  <2>1. /\ link' \in [Places -> Defs \cup {Nil}] /\ link'[Nil] = Nil
        /\ \A p \in Places : link'[p] # Nil => NameOf(link'[p]) = NameOf(p)
        /\ \A p \in Places : NameOf(p) # n => link'[p] = link[p]
        /\ link'[Bucket(n)] = Nil => link[Bucket(n)] = Nil
    BY <1>3, AddIs, AddType
  <2>2. link[Bucket(n)] = Nil => link'[Bucket(n)] = s
    BY <1>3, AddHead
  <2> QED
    BY <1>4, <2>1, <2>2
<1>8. /\ \A p \in Places \ {v.at, s} : link'[p] = link[p]
      /\ link'[v.at] \in {s, link[v.at]}
      /\ \E p \in Places : link'[s] = link[p]
  <2>1. /\ v.what \notin {"append", "replace"} => link' = link
        /\ v.what \in {"append", "replace"} =>
              /\ link'[v.at] = s
              /\ \A p \in Places \ {v.at, s} : link'[p] = link[p]
        /\ v.what = "append" => link'[s] = link[s]
        /\ v.what = "replace" => link'[s] = link[link[v.at]]
    BY <1>3, <1>6, AddIs
  <2>2. v.what = "replace" => link[v.at] \in Places
    BY <1>6, PlaceFacts DEF Live, TypeInv
  <2>3. CASE v.what = "replace"
    BY <2>1, <2>2, <2>3
  <2>4. CASE v.what = "append"
    BY <1>4, <2>1, <2>4
  <2>5. CASE v.what \notin {"append", "replace"}
    BY <1>4, <2>1, <2>5
  <2> QED
    BY <2>3, <2>4, <2>5
<1>9. Displaced(v) \subseteq Live(n) /\ Live(n) \subseteq objsyms /\ \A x \in Live(n) : NameOf(x) = n
  BY <1>6 DEF Displaced, Live
<1>10. /\ objsyms' \subseteq objsyms \cup {s} /\ freed' \subseteq freed \cup objsyms \cup {s}
       /\ objsyms \cup freed \cup {s} \subseteq objsyms' \cup freed'
       /\ objsyms' \cap freed' = {}
  <2>1. objsyms \cap freed = {}
    BY DEF Chains
  <2> QED
    BY <1>3, <1>9, <2>1
<1>11. Redefined(s, v) \subseteq {19} \X Names
  BY <1>3 DEF Redefined
<1>12. Bound = {} /\ linked = Objects \cap Read /\ INITEXIT \notin linked
  BY <1>1, NothingBound
<1>13. /\ Bound' = Bound
       /\ \A r \in Bound : BoundTo(r)' = BoundTo(r) /\ XrefOf(r)' = XrefOf(r)
       /\ \A m : RefsTo(m)' = RefsTo(m) /\ WeakRef(m)' = WeakRef(m) /\ LocalRef(m)' = LocalRef(m)
  <2>1. TypeInv /\ linked \subseteq linked' /\ \A w \in linked' \ linked : bound[w] = <<>>
    BY <1>1
  <2> HIDE DEF LinkerInv
  <2> QED
    BY <1>1, <2>1, SameBound
<1>14. \A m : Contested(m)' = Contested(m) /\ (\A w : Defines(w, m)' = Defines(w, m))
  BY <1>1, SymSame
<1>15. TypeInv'
  <2>1. Defs' = Defs
    BY <1>1, SymSame
  <2>2. objsyms' \subseteq Defs /\ freed' \subseteq Defs
    BY <1>3, <1>10 DEF TypeInv
  <2>3. errors' \subseteq {19, 21} \X Names /\ unread' \subseteq Names
    BY <1>3, <1>11 DEF TypeInv
  <2> QED
    BY <1>1, <1>7, <2>1, <2>2, <2>3 DEF TypeInv, Label, Nil, LnkSyms, Phases, Visitors, Places, Buckets, Syms, NameOf
<1>16. Listed'
  BY <1>1, SameListed
<1>17. Loading'
  <2>1. Read' = Read /\ Files[loaded] \in Read /\ loaded > 0 /\ \A m \in unread' : Defines(Files[loaded], m)
    <3>1. loaded > 0 /\ \A m \in unread : Defines(Files[loaded], m)
      BY <1>1, <1>2 DEF Loading
    <3>2. loaded \in 1 .. loaded
      BY <3>1 DEF TypeInv
    <3> QED
      BY <1>1, <1>3, <3>1, <3>2 DEF Read
  <2>2. \A x \in objsyms' \cup freed' : UnitOf(x) \in Read /\ (UnitOf(x) = Files[loaded] => NameOf(x) \notin unread')
    <3>1. \A x \in objsyms \cup freed : UnitOf(x) \in Read /\ (UnitOf(x) = Files[loaded] => NameOf(x) \notin unread)
      <4>1. Loading /\ phase = "load"
        BY <1>1
      <4> HIDE DEF LinkerInv
      <4> QED
        BY <4>1 DEF Loading
    <3>2. UnitOf(s) \in Read /\ NameOf(s) \notin unread'
      BY <1>3, <2>1
    <3>3. \A x \in objsyms' \cup freed' : x \in objsyms \cup freed \/ x = s
      BY <1>10
    <3>4. unread' \subseteq unread
      BY <1>3
    <3> QED
      BY <3>1, <3>2, <3>3, <3>4
  <2>3. ASSUME NEW w \in Read, NEW m \in Names, Defines(w, m)
        PROVE  link'[Bucket(m)] # Nil \/ (w = Files[loaded] /\ m \in unread')
    <3>1. link[Bucket(m)] # Nil \/ (w = Files[loaded] /\ m \in unread)
      BY <2>3 DEF Loading
    <3>2. CASE m = n
      BY <1>7, <3>2
    <3>3. CASE m # n
      <4>1. link'[Bucket(m)] = link[Bucket(m)]
        BY <1>7, <3>3, PlaceFacts
      <4> QED
        BY <1>3, <3>1, <3>3, <4>1
    <3> QED
      BY <3>2, <3>3
  <2>4. lnksyms' = {} /\ ~xtorsDone' /\ linked' = Objects \cap Read'
    BY <1>1, <2>1 DEF Loading
  <2>5. \A w, m : Defines(w, m)' = Defines(w, m)
    BY <1>14
  <2> QED
    BY <1>1, <2>1, <2>2, <2>3, <2>4, <2>5 DEF Loading, Bucket, Nil, UnitOf, NameOf
<1>18. Pulls'
  BY <1>1, <1>13, SamePulls
<1>19. ChainOk(n)'
  <2>1. ChainOk(n) /\ s \notin objsyms /\ TypeInv /\ n = NameOf(s)
    BY <1>3, <1>5
  <2>2. ChainOk(NameOf(s))'
    <3> HIDE DEF LinkerInv
    <3> QED
      BY <1>1, <1>3, <2>1, EnterOk
  <2>3. ASSUME NEW m, m = NameOf(s) PROVE ChainOk(m)'
    BY <2>2, <2>3 DEF NameOf, ChainOk, Live, Bucket
  <2> QED
    BY <2>1, <2>3
<1>20. ASSUME NEW m \in Names, m # n PROVE ChainOk(m)'
  <2>1. \A p \in OfName(m) \cup {Bucket(m)} : link'[p] = link[p]
    <3>1. \A p \in OfName(m) \cup {Bucket(m)} : p \in Places /\ NameOf(p) = m
      BY <1>20, PlaceFacts DEF OfName
    <3> QED
      BY <1>7, <1>20, <3>1
  <2>2. Live(m)' = Live(m)
    <3>1. \A x : NameOf(x) = m => (x \in objsyms' <=> x \in objsyms)
      <4>1. \A x : NameOf(x) = m => x # s /\ x \notin Displaced(v)
        BY <1>3, <1>9, <1>20
      <4> QED
        BY <1>3, <4>1
    <3> QED
      BY <3>1 DEF Live, NameOf
  <2>3. ChainOk(m) /\ TypeInv
    BY <1>5, <1>20
  <2> HIDE DEF LinkerInv
  <2> QED
    BY <1>1, <1>20, <2>1, <2>2, <2>3, OtherOk
<1>21. Chains'
  <2>1. Label \notin objsyms /\ Label \notin freed /\ link[Label] = Nil /\ walk.at # Label /\ \A p \in Places : link[p] # Label
    BY <1>12 DEF Chains
  <2>2. Label \notin objsyms' \cup freed'
    BY <1>3, <1>10, <2>1
  <2>3. ASSUME NEW x \in Syms \ (objsyms' \cup freed') PROVE link'[x] = Nil
    <3>1. x \notin objsyms /\ x \notin freed /\ x # s /\ x # v.at /\ x \in Places
      BY <1>4, <1>6, <1>9, <1>10, <2>3, PlaceFacts
    <3>2. link[x] = Nil
      BY <1>1, <2>3, <3>1 DEF Chains
    <3> QED
      BY <1>8, <3>1, <3>2
  <2>4. link'[Label] = Nil
    BY <2>2, <2>3, PlaceFacts
  <2>5. \A p \in Places : link'[p] # Label
    BY <1>3, <1>6, <1>8, <2>1
  <2>6. \A m \in Names : ChainOk(m)'
    BY <1>19, <1>20
  <2> QED
    BY <1>1, <1>10, <2>1, <2>2, <2>3, <2>4, <2>5, <2>6 DEF Chains, Label, INITEXIT, Nil, Places, Buckets, Syms
<1>22. Asked'
  <2>1. indir = Nil
    BY <1>1, NoIndirect
  <2>2. \A m : <<21, m>> \in errors' <=> <<21, m>> \in errors
    BY <1>3, <1>11
  <2> QED
    BY <1>1, <1>13, <2>1, <2>2, SameAsked
<1>23. Compared'
  BY <1>1 DEF Compared
<1>24. Bindings'
  BY <1>12, <1>13 DEF Bindings
<1> QED
  BY <1>15, <1>16, <1>17, <1>18, <1>21, <1>22, <1>23, <1>24

\* A symbol of an object is the first of its chain.
LEMMA ObjectFirst ==
  ASSUME TypeInv, NEW n \in Names, ChainOk(n), NEW s \in InChain(n), UnitOf(s) \notin Members
  PROVE  s = Chain(n)[1]
<1>1. MaxChain \in Nat /\ MaxChain >= 2
  BY MaxChainIs
<1>2. PICK l \in 1..MaxChain : s = Chain(n)[l]
  BY InChainIs
<1>3. s # Nil
  BY InChainIs
<1>4. SUFFICES ASSUME l # 1 PROVE FALSE
  BY <1>2
<1>5. /\ l - 1 \in 1..MaxChain /\ l - 1 \in 0..MaxChain /\ l \in 0..MaxChain /\ l - 1 <= l
  BY <1>1, <1>2, <1>4
<1>6. Chain(n)[l - 1] # Nil
  BY <1>2, <1>3, <1>5, NilStays
<1>7. Chain(n)[l - 1] \in Live(n)
  BY <1>5, <1>6, ChainEnds
<1>8. s = link[Chain(n)[l - 1]]
  BY <1>2, ChainIs
<1> QED
  BY <1>3, <1>7, <1>8 DEF ChainOk

LEMMA LoadDoneKeeps ==
  ASSUME LinkerInv, LoadDone
  PROVE  LinkerInv'
<1> USE DEF LinkerInv
<1>1. /\ UNCHANGED <<prog, loaded, unread, link, objsyms, freed, obj, indir, bound, xtors, xtorsDone, walk, errors>>
      /\ phase = "load" /\ loaded = Len(Files) /\ unread = {}
      /\ phase' \in {"resolve", "done", "ierror"} /\ (selobjects # <<>> <=> phase' = "resolve")
      /\ lnksyms' = lnksyms \cup {Label}
      /\ pripointers' = UNION {Constructors(u) : u \in linked}
      /\ \/ UNCHANGED <<selobjects, linked>>
         \/ /\ selobjects # <<>> /\ selobjects' = Append(selobjects, UNDEFSYMBOLS)
            /\ linked' = linked \cup {UNDEFSYMBOLS}
  BY DEF LoadDone
<1>2. /\ Bound = {} /\ obj = 1 /\ linked \subseteq Objects /\ linked = Objects \cap Read
      /\ INITEXIT \notin linked /\ UNDEFSYMBOLS \notin linked
      /\ \A u \in Visitors : bound[u] = <<>>
  BY <1>1, NothingBound
<1>3. /\ UNDEFSYMBOLS \in Visitors /\ UNDEFSYMBOLS \notin Members /\ UNDEFSYMBOLS # INITEXIT
      /\ Label \in Defs /\ \A n : Label # <<LNK, n>>
  BY SymFacts, PlaceFacts DEF Visitors, Units, Label, INITEXIT, LNK
<1>4. /\ linked \subseteq linked' /\ linked' \subseteq Visitors /\ linked' \subseteq linked \cup {UNDEFSYMBOLS}
      /\ linked' \cap Members = linked \cap Members /\ INITEXIT \notin linked'
  <2>1. linked' = linked \/ linked' = linked \cup {UNDEFSYMBOLS}
    BY <1>1
  <2>2. linked \subseteq Visitors
    BY DEF TypeInv
  <2> HIDE DEF LinkerInv
  <2> QED
    BY <1>2, <1>3, <2>1, <2>2
<1>5. /\ selobjects' \in Seq(Visitors) /\ Range(selobjects') = linked' /\ IsInjective(selobjects')
      /\ Len(selobjects') >= Len(selobjects)
  <2>1. /\ selobjects \in Seq(Visitors) /\ Range(selobjects) = linked /\ IsInjective(selobjects)
        /\ Len(selobjects) \in Nat
    BY DEF TypeInv, Listed
  <2>2. CASE UNCHANGED <<selobjects, linked>>
    BY <2>1, <2>2
  <2>3. CASE selobjects' = Append(selobjects, UNDEFSYMBOLS) /\ linked' = linked \cup {UNDEFSYMBOLS}
    <3>1. /\ selobjects' \in Seq(Visitors) /\ Range(selobjects') = linked' /\ IsInjective(selobjects')
          /\ Len(selobjects') = Len(selobjects) + 1
      <4> HIDE DEF LinkerInv
      <4> QED
        BY <1>2, <1>3, <2>1, <2>3, AppendIs
    <3> QED
      BY <2>1, <3>1
  <2> QED
    BY <1>1, <2>2, <2>3
<1>6. /\ Bound' = Bound
      /\ \A r \in Bound : BoundTo(r)' = BoundTo(r) /\ XrefOf(r)' = XrefOf(r)
      /\ \A n : RefsTo(n)' = RefsTo(n) /\ WeakRef(n)' = WeakRef(n) /\ LocalRef(n)' = LocalRef(n)
  <2>1. TypeInv /\ \A w \in linked' \ linked : bound[w] = <<>>
    BY <1>2, <1>4
  <2> HIDE DEF LinkerInv
  <2> QED
    BY <1>1, <1>4, <2>1, SameBound
<1>7. TypeInv'
  <2>1. Defs' = Defs
    BY <1>1, SymSame
  <2>2. phase' \in Phases
    BY <1>1 DEF Phases
  <2>3. lnksyms' \subseteq LnkSyms \cup {Label} /\ pripointers' \subseteq CtorNames
    BY <1>1 DEF TypeInv, Constructors
  <2> QED
    BY <1>1, <1>4, <1>5, <2>1, <2>2, <2>3 DEF TypeInv, Label, Nil, LnkSyms, Phases, Visitors, Places, Buckets, Syms, NameOf
<1>8. Listed'
  <2>1. \A i \in DOMAIN selobjects' : /\ i \in Nat /\ i >= 1
                                      /\ bound'[selobjects'[i]] = <<>>
    <3>1. \A i \in DOMAIN selobjects' : i \in Nat /\ i >= 1 /\ selobjects'[i] \in Visitors
      BY <1>5
    <3> QED
      BY <1>1, <1>2, <3>1
  <2>2. \A i \in DOMAIN selobjects' : ~(i < obj')
    BY <1>1, <1>2, <2>1
  <2>3. \A w \in Visitors : bound'[w] = <<>>
    BY <1>1, <1>2
  <2>4. xtors' = <<>>
    BY <1>1, <1>2 DEF Listed
  <2>5. ASSUME phase' = "resolve"
        PROVE  obj' \in DOMAIN selobjects' /\ Len(bound'[Obj']) <= Len(xrefs(Obj)')
    <3>1. selobjects # <<>> /\ selobjects \in Seq(Visitors)
      BY <1>1, <2>5 DEF TypeInv
    <3>2. Len(selobjects') >= 1 /\ Len(selobjects') \in Nat
      BY <1>5, <3>1
    <3>3. obj' = 1 /\ 1 \in DOMAIN selobjects'
      BY <1>1, <1>2, <1>5, <3>2
    <3>4. Obj' \in Visitors
      BY <1>5, <3>3 DEF Obj
    <3>5. \A u : xrefs(u)' = xrefs(u)
      BY <1>1 DEF xrefs, UNDEFSYMBOLS
    <3>6. ASSUME NEW o, o = Obj', o \in Visitors PROVE Len(bound'[o]) <= Len(xrefs(o)')
      <4>1. xrefs(o) \in Seq(Reference)
        BY <3>6, XrefsType
      <4>2. bound'[o] = <<>> /\ Len(xrefs(o)) \in Nat
        BY <2>3, <3>6, <4>1
      <4> QED
        BY <3>5, <4>2
    <3> QED
      BY <3>3, <3>4, <3>6 DEF xrefs, UNDEFSYMBOLS, INITEXIT
  <2>6. phase' = "done" => linked' = {}
    <3>1. phase' = "done" => selobjects' = <<>>
      BY <1>1
    <3> QED
      BY <1>5, <3>1 DEF Range
  <2> QED
    BY <1>1, <1>4, <1>5, <2>1, <2>2, <2>3, <2>4, <2>5, <2>6 DEF Listed, Visitors, INITEXIT, UNDEFSYMBOLS
<1>9. Objects \subseteq linked
  <2>1. Objects \subseteq Range(Files) /\ Files \in Seq(Units)
    BY FilesAssumption DEF Units
  <2>2. Range(Files) = Read
    BY <1>1, <2>1 DEF Range, Read
  <2> QED
    BY <1>2, <2>1, <2>2
<1>10. Loading'
  <2>1. \A u, n : Defines(u, n)' = Defines(u, n)
    BY <1>1, SymSame
  <2>2. Read' = Read
    BY <1>1 DEF Read
  <2>3. Objects \subseteq linked'
    BY <1>4, <1>9
  <2> QED
    BY <1>1, <2>1, <2>2, <2>3 DEF Loading, Bucket, Label, Nil
<1>11. Pulls'
  BY <1>1, <1>4, <1>6, SamePulls
<1>12. Chains'
  <2>1. INITEXIT \notin linked' => walk'.at # Label
    BY <1>1, <1>2 DEF Chains
  <2> QED
    BY <1>1, <1>4, <2>1, SameChainsKept
<1>13. Asked'
  <2>1. indir = Nil
    BY <1>1, NoIndirect
  <2>2. \A n : <<LNK, n>> \in lnksyms' => <<LNK, n>> \in lnksyms
    BY <1>1, <1>3
  <2> QED
    BY <1>1, <1>6, <2>1, <2>2, SameAsked
<1>14. Compared'
  <2>1. \A n : InChain(n)' = InChain(n) /\ Contested(n)' = Contested(n)
    BY <1>1, SameChains, SymSame
  <2>2. ASSUME NEW n \in Names, NEW s \in InChain(n), NEW t \in InChain(n),
               {UnitOf(s), UnitOf(t)} \subseteq linked'
        PROVE  s = t
    <3>1. ChainOk(n)
      BY <1>1 DEF Chains, Stable
    <3>2. ASSUME NEW x \in InChain(n), UnitOf(x) \in linked' PROVE x = Chain(n)[1]
      <4>1. UnitOf(x) \notin Members
        BY <1>2, <1>3, <1>4, <3>2, FilesAssumption
      <4> QED
        BY <3>1, <3>2, <4>1, ObjectFirst
    <3> QED
      BY <2>2, <3>2
  <2> QED
    BY <2>1, <2>2 DEF Compared, UnitOf
<1>15. Bindings'
  BY <1>1, <1>6, SameBindings
<1> QED
  BY <1>7, <1>8, <1>10, <1>11, <1>12, <1>13, <1>14, <1>15

LEMMA InitInv == Init => LinkerInv
<1> SUFFICES ASSUME Init PROVE LinkerInv
  OBVIOUS
<1>1. /\ prog \in Programs /\ phase = "load" /\ loaded = 0 /\ unread = {}
      /\ link = [p \in Places |-> Nil] /\ objsyms = {} /\ freed = {}
      /\ selobjects = <<>> /\ linked = {} /\ lnksyms = {} /\ pripointers = {} /\ xtors = <<>>
      /\ xtorsDone = FALSE /\ obj = 1 /\ indir = Nil
      /\ bound = [u \in Visitors |-> <<>>]
      /\ walk = [todo |-> {}, at |-> Nil] /\ errors = {}
  BY DEF Init, Visitors
<1>2. Len(Files) \in Nat /\ 0 \in 0 .. Len(Files) /\ Read = {}
  BY <1>1, FilesAssumption DEF Read
<1>3. /\ \A n \in Names : Bucket(n) \in Places
      /\ Nil \in Places /\ Syms \subseteq Places
      /\ Label \in Places /\ Label # Nil /\ CtorLabel \in Names
  BY PlaceFacts
<1>4. TypeInv
  <2>1. link \in [Places -> Defs \cup {Nil}] /\ bound \in [Visitors -> Seq(Defs \cup LnkSyms \cup {Nil})]
    BY <1>1
  <2>2. walk \in [todo : SUBSET Names, at : Places]
    BY <1>1, <1>3
  <2>3. link[Nil] = Nil /\ \A p \in Places : link[p] = Nil
    BY <1>1, <1>3
  <2>4. selobjects \in Seq(Visitors) /\ xtors \in Seq(Reference)
    BY <1>1
  <2>5. phase \in Phases /\ loaded \in 0 .. Len(Files)
    BY <1>1, <1>2 DEF Phases
  <2> QED
    BY <1>1, <2>1, <2>2, <2>3, <2>4, <2>5 DEF TypeInv
<1>5. Listed
  <2>1. IsInjective(selobjects) /\ Range(selobjects) = {} /\ DOMAIN selobjects = {}
    BY <1>1 DEF IsInjective, Range
  <2> QED
    BY <1>1, <2>1 DEF Listed
<1>6. Loading
  BY <1>1, <1>2 DEF Loading
<1>7. Bound = {}
  BY <1>1 DEF Bound
<1>8. Pulls
  BY <1>1, <1>7 DEF Pulls
<1>9. Chains
  <2>1. ASSUME NEW n \in Names PROVE ChainOk(n)
    <3>1. Live(n) = {} /\ link[Bucket(n)] = Nil
      BY <1>1, <1>3 DEF Live
    <3> QED
      BY <3>1 DEF ChainOk
  <2>2. walk.at = Nil /\ \A p \in Places : link[p] = Nil
    BY <1>1
  <2> QED
    BY <1>1, <1>3, <2>1, <2>2 DEF Chains
<1>10. Asked
  BY <1>1, <1>7 DEF Asked
<1>11. Compared
  BY <1>1 DEF Compared
<1>12. Bindings
  BY <1>7 DEF Bindings
<1> QED
  BY <1>4, <1>5, <1>6, <1>8, <1>9, <1>10, <1>11, <1>12 DEF LinkerInv

LEMMA StutterKeeps == LinkerInv /\ UNCHANGED vars => LinkerInv'
<1> SUFFICES ASSUME LinkerInv, UNCHANGED vars PROVE LinkerInv'
  OBVIOUS
<1> USE DEF LinkerInv
<1>1. UNCHANGED <<prog, phase, loaded, unread, link, objsyms, freed, selobjects, linked, lnksyms,
                  obj, indir, bound, pripointers, xtors, xtorsDone, walk, errors>>
  BY DEF vars
<1>2. Bound' = Bound /\ \A r \in Bound : BoundTo(r)' = BoundTo(r) /\ XrefOf(r)' = XrefOf(r)
  BY <1>1 DEF Bound, BoundTo, XrefOf, xrefs
<1>3. \A n : WeakRef(n)' = WeakRef(n) /\ LocalRef(n)' = LocalRef(n)
  BY <1>2 DEF WeakRef, LocalRef, RefsTo
<1>4. TypeInv'
  <2>1. Defs' = Defs
    BY <1>1, SymSame
  <2> QED
    BY <1>1, <2>1 DEF TypeInv, Label, Nil, LnkSyms, Phases, Visitors, Places, Buckets, Syms, NameOf
<1>5. Listed'
  BY <1>1, SameListed
<1>6. Loading'
  <2>1. /\ Read' = Read /\ \A u, n : Defines(u, n)' = Defines(u, n)
    BY <1>1, SymSame DEF Read
  <2> QED
    BY <1>1, <2>1 DEF Loading, Bucket, Label, Nil, UnitOf, NameOf
<1>7. Pulls'
  <2>1. Pulls
    OBVIOUS
  <2> HIDE DEF LinkerInv
  <2>2. phase' = "pull" => /\ phase = "pull" /\ UNCHANGED <<bound, selobjects, obj>>
                           /\ walk'.todo \subseteq walk.todo
                           /\ walk'.at # Nil => Defines(Pulled, NameOf(walk'.at))
    BY <1>1, <2>1 DEF Pulls
  <2>3. linked' \cap Members = linked \cap Members /\ linked \subseteq linked' /\ prog' = prog
    BY <1>1
  <2> QED
    BY <1>2, <2>1, <2>2, <2>3, SamePulls
<1>8. Chains'
  <2>1. /\ \A n : (ChainOk(n)' <=> ChainOk(n)) /\ Contested(n)' = Contested(n)
    BY <1>1, SameChains, SymSame
  <2>2. \A n : Stable(n)' => Stable(n)
    BY <1>1, <2>1 DEF Stable
  <2>3. Contested(CtorLabel)' = Contested(CtorLabel)
    BY <2>1
  <2>4. /\ Label' = Label /\ INITEXIT' = INITEXIT /\ Nil' = Nil /\ Places' = Places /\ Syms' = Syms
        /\ UNCHANGED <<link, objsyms, freed, linked, phase, walk>>
    BY <1>1 DEF Label, INITEXIT, Nil, Places, Buckets, Syms, Units, LNK
  <2>5. Chains
    OBVIOUS
  <2> HIDE DEF LinkerInv
  <2> QED
    BY <2>1, <2>2, <2>3, <2>4, <2>5 DEF Chains
<1>9. Asked'
  <2>1. /\ \A n : Defined(n)' = Defined(n)
        /\ \A s : IsIndirect(s)' = IsIndirect(s)
        /\ \A u, n : Defines(u, n)' = Defines(u, n)
    BY <1>1, SymSame
  <2>2. \A n : Indirect(n)' <=> Indirect(n)
    BY <2>1 DEF Indirect
  <2>3. Xref' = Xref /\ AtXref' = AtXref
    BY <1>1 DEF AtXref, Xref, xrefs, Obj
  <2>4. /\ \A r \in Bound' : BoundTo(r)' = Nil => <<21, XrefOf(r)'.name>> \in errors'
        /\ \A r \in Bound' : BoundTo(r)' # Nil => Defined(XrefOf(r).name)' \/ WeakRef(XrefOf(r).name)'
    BY <1>1, <1>2, <1>3, <2>1 DEF Asked
  <2>5. /\ \A n \in Names : <<LNK, n>> \in lnksyms' => WeakRef(n)'
        /\ \A n \in Names : <<21, n>> \in errors' => ~Defined(n)' \/ Indirect(n)' \/ LocalRef(n)'
    BY <1>1, <1>3, <2>1, <2>2 DEF Asked
  <2>6. indir' # Nil => AtXref' /\ IsIndirect(indir)' /\ Indirect(Xref.name)'
    <3>1. IsIndirect(indir)' <=> IsIndirect(indir)
      BY <1>1 DEF IsIndirect, Sym, Nil, Label, UnitOf, NameOf
    <3>2. Indirect(Xref.name)' <=> Indirect(Xref.name)
      <4>1. ASSUME NEW n, n = Xref.name PROVE Indirect(Xref.name)' <=> Indirect(Xref.name)
        <5>1. Xref'.name = n
          BY <2>3, <4>1
        <5> HIDE DEF LinkerInv
        <5> QED
          BY <2>1, <4>1, <5>1 DEF Indirect
      <4> QED
        BY <4>1
    <3> QED
      BY <1>1, <2>3, <3>1, <3>2 DEF Asked, Nil
  <2> HIDE DEF LinkerInv
  <2> QED
    BY <2>4, <2>5, <2>6 DEF Asked, Nil, LNK
<1>10. Compared'
  <2>1. \A n : InChain(n)' = InChain(n) /\ Contested(n)' = Contested(n)
    BY <1>1, SameChains, SymSame
  <2>2. \A s, t : Pending(s, t)' = Pending(s, t)
    <3>1. \A n : Chain(n)' = Chain(n)
      BY <1>1, SameChains
    <3> QED
      BY <1>1, <3>1 DEF Pending, Ahead, Pulled, Obj, UnitOf, NameOf, MaxChain
  <2> QED
    BY <1>1, <2>1, <2>2 DEF Compared, UnitOf
<1>11. Bindings'
  BY <1>1, <1>2, SameBindings
<1> QED
  BY <1>4, <1>5, <1>6, <1>7, <1>8, <1>9, <1>10, <1>11

LEMMA NextKeeps == LinkerInv /\ [Next]_vars => LinkerInv'
<1> SUFFICES ASSUME LinkerInv, [Next]_vars PROVE LinkerInv'
  OBVIOUS
<1>1. CASE LoadUnit \/ LoadSymbol \/ LoadDone
  BY <1>1, LoadUnitKeeps, LoadSymbolKeeps, LoadDoneKeeps
<1>2. CASE FollowIndirect \/ ResolveXref \/ UndefinedXref \/ NextObject
  BY <1>2, FollowIndirectKeeps, ResolveXrefKeeps, UndefinedXrefKeeps, NextObjectKeeps
<1>3. CASE PullSymbol \/ PullStep \/ PullDone
  BY <1>3, PullSymbolKeeps, PullStepKeeps, PullDoneKeeps
<1>4. CASE UNCHANGED vars
  BY <1>4, StutterKeeps
<1> QED
  BY <1>1, <1>2, <1>3, <1>4 DEF Next

\* The inductive invariant of reading and resolving: the chains of the names that no
\* archive contests end and hold what is in the tables of the units, references are bound
\* to symbols in them, and two linked symbols of a name were compared or are about to be.
THEOREM LinkerInvariant == Spec => []LinkerInv
<1>1. Init => LinkerInv
  BY InitInv
<1>2. LinkerInv /\ [Next]_vars => LinkerInv'
  BY NextKeeps
<1> QED
  BY <1>1, <1>2, PTL DEF Spec

\* Two references that lead to a name lead to the same definition of it, unless a
\* duplicate is reported: whichever unit findsymbol() prefers, the definitions of the
\* linked units were compared with one another.
THEOREM SingleDefinition == Spec => []OneDefinition
<1>1. LinkerInv => OneDefinition
  <2>1. SUFFICES ASSUME LinkerInv, phase = "done", NEW n \in Names, ~Contested(n), <<19, n>> \notin errors,
                        NEW r \in Bound, NEW q \in Bound, NEW s, s = BoundTo(r), NEW t, t = BoundTo(q),
                        {s, t} \subseteq Syms \ {<<LNK, n>>}, NameOf(s) = n, NameOf(t) = n
                 PROVE  s = t
    BY DEF OneDefinition
  <2>2. TypeInv /\ Bindings /\ Pulls /\ Compared
    BY <2>1 DEF LinkerInv
  <2>3. ASSUME NEW p \in Bound, NEW x, x = BoundTo(p), x \in Syms \ {<<LNK, n>>}, NameOf(x) = n
        PROVE  x \in Defs /\ (x = Label \/ x \in InChain(n)) /\ (x # Label => UnitOf(x) \in linked)
    <3>1. x \in Defs \cup LnkSyms \cup {Nil}
      BY <2>2, <2>3, BoundType
    <3>2. x # Nil
      BY <2>3, PlaceFacts
    <3>3. x \notin LnkSyms
      BY <2>3 DEF LnkSyms, NameOf
    <3>4. x \in Defs
      BY <3>1, <3>2, <3>3
    <3>5. x = Label \/ x \in InChain(n)
      BY <2>1, <2>2, <2>3, <3>4 DEF Bindings
    <3>6. UnitOf(x) \in linked \cup {LNK, INITEXIT}
      BY <2>2, <2>3, <3>2 DEF Pulls
    <3>7. x # Label => UnitOf(x) \in Units
      BY <3>4, SymFacts
    <3> QED
      BY <3>4, <3>5, <3>6, <3>7, SymFacts
  <2>4. CASE n = CtorLabel
    <3>1. OfName(n) = {Label}
      BY <2>1, <2>2, <2>4, LabelAlone
    <3>2. s \in OfName(n) /\ t \in OfName(n)
      BY <2>1, <2>3 DEF OfName
    <3> QED
      BY <3>1, <3>2
  <2>5. CASE n # CtorLabel
    <3>1. s # Label /\ t # Label
      BY <2>1, <2>5, PlaceFacts
    <3>2. s \in InChain(n) /\ t \in InChain(n) /\ {UnitOf(s), UnitOf(t)} \subseteq linked
      BY <2>1, <2>3, <3>1
    <3>3. s # t => <<19, n>> \in errors \/ Pending(s, t) \/ Pending(t, s)
      BY <2>1, <2>2, <3>2 DEF Compared
    <3> QED
      BY <2>1, <3>3 DEF Pending
  <2> QED
    BY <2>4, <2>5
<1> QED
  BY <1>1, LinkerInvariant, PTL

\* A name that no unit defines and that is referenced, but never weakly, is reported; and a
\* name is reported only when no unit defines it, it is indirect, or a local reference asks for it.
THEOREM UndefinedAreReported == Spec => []UndefinedReported
<1>1. LinkerInv => UndefinedReported
  <2>1. SUFFICES ASSUME LinkerInv, NEW n \in Names
                 PROVE  LET definers == {u \in Units : Defines(u, n)}
                            defined == n = CtorLabel \/ definers # {}
                            kinds == {XrefOf(r).kind : r \in RefsTo(n)}
                        IN  /\ ("strong" \in kinds /\ "weak" \notin kinds /\ ~defined) => <<21, n>> \in errors
                            /\ (<<21, n>> \in errors /\ "local" \notin kinds)
                                 => ~defined \/ \E u \in definers : IsIndirect(<<u, n>>)
    BY DEF UndefinedReported
  <2> DEFINE definers == {u \in Units : Defines(u, n)}
             defined == n = CtorLabel \/ definers # {}
             kinds == {XrefOf(r).kind : r \in RefsTo(n)}
  <2>2. Asked
    BY <2>1 DEF LinkerInv
  <2>3. (defined <=> Defined(n)) /\ (Indirect(n) <=> \E u \in definers : IsIndirect(<<u, n>>))
    BY DEF Defined, Indirect
  <2>4. ("weak" \in kinds <=> WeakRef(n)) /\ ("local" \in kinds <=> LocalRef(n))
    BY DEF WeakRef, LocalRef
  <2>5. ASSUME "strong" \in kinds, ~WeakRef(n), ~Defined(n) PROVE <<21, n>> \in errors
    <3>1. PICK r \in RefsTo(n) : XrefOf(r).kind = "strong"
      BY <2>5
    <3>2. r \in Bound /\ XrefOf(r).name = n
      BY DEF RefsTo
    <3>3. BoundTo(r) = Nil
      BY <2>2, <2>5, <3>2 DEF Asked
    <3> QED
      BY <2>2, <3>2, <3>3 DEF Asked
  <2>6. <<21, n>> \in errors => ~Defined(n) \/ Indirect(n) \/ LocalRef(n)
    BY <2>2 DEF Asked
  <2> HIDE DEF definers, defined, kinds
  <2>7. /\ ("strong" \in kinds /\ "weak" \notin kinds /\ ~defined) => <<21, n>> \in errors
        /\ (<<21, n>> \in errors /\ "local" \notin kinds) => ~defined \/ \E u \in definers : IsIndirect(<<u, n>>)
    BY <2>3, <2>4, <2>5, <2>6
  <2> QED
    BY <2>7 DEF definers, defined, kinds
<1> QED
  BY <1>1, LinkerInvariant, PTL

-----------------------------------------------------------------------------
(* The list of constructors.                                                 *)

\* The constructors of the linked units were noted when the units came in.  A symbol that is
\* entered stays in the chain of its name, so that a noted name leads to a linked unit.
Ctors ==
  /\ phase = "load" => pripointers = {}
  /\ phase # "load" => \A u \in linked \cap Units : Constructors(u) \subseteq pripointers
  /\ \A n \in CtorNames : ~Contested(n) => Live(n) \subseteq InChain(n)
  /\ \A n \in pripointers : ~Contested(n) => \E s \in Live(n) : UnitOf(s) \in linked

\* The list is made when nothing is left to visit; its references pull in nothing.
Plain(n) == ~Contested(n) /\ ~Indirect(n)
Made ==
  /\ (xtorsDone /\ phase \in {"resolve", "pull"}) => INITEXIT \in linked
  /\ (phase = "done" /\ INITEXIT \notin linked) => ~LabelReferenced
  /\ (INITEXIT \in linked /\ \A n \in pripointers : Plain(n)) =>
       /\ phase \in {"resolve", "done"}
       /\ phase = "resolve" => obj = Len(selobjects) /\ Obj = INITEXIT
       /\ {xtors[i].name : i \in DOMAIN xtors} = pripointers

LEMMA CtorsAre ==
  ASSUME prog' = prog
  PROVE  /\ \A n : (Plain(n)' <=> Plain(n)) /\ (Contested(n)' <=> Contested(n))
         /\ \A u : (\A n \in CtorNames : <<u, n>> \in objsyms' => <<u, n>> \in objsyms)
                     => Constructors(u)' \subseteq Constructors(u)
<1>1. /\ \A s : Sym(s)' = Sym(s) /\ IsIndirect(s)' = IsIndirect(s)
      /\ \A u, n : Defines(u, n)' = Defines(u, n)
      /\ \A n : Contested(n)' = Contested(n)
  BY SymSame
<1>2. \A n : Indirect(n)' <=> Indirect(n)
  BY <1>1 DEF Indirect
<1>3. \A n : Plain(n)' <=> Plain(n)
  BY <1>1, <1>2 DEF Plain
<1>4. ASSUME NEW u, \A n \in CtorNames : <<u, n>> \in objsyms' => <<u, n>> \in objsyms
      PROVE  Constructors(u)' \subseteq Constructors(u)
  BY <1>1, <1>4 DEF Constructors
<1> QED
  BY <1>1, <1>3, <1>4

LEMMA KeptCtors ==
  ASSUME Ctors, prog' = prog, phase # "load", phase' # "load", linked \subseteq linked',
         \A n \in CtorNames : ~Contested(n) => Live(n)' = Live(n) /\ InChain(n)' = InChain(n),
         pripointers \subseteq pripointers', pripointers' \subseteq CtorNames,
         \A u \in linked' \cap Units : Constructors(u)' \subseteq pripointers',
         \A n \in pripointers' \ pripointers : \E s \in Live(n) : UnitOf(s) \in linked'
  PROVE  Ctors'
<1>1. \A n : Contested(n)' <=> Contested(n)
  BY CtorsAre
<1>2. \A n \in CtorNames : ~Contested(n)' => Live(n)' \subseteq InChain(n)'
  BY <1>1 DEF Ctors
<1>3. ASSUME NEW n \in pripointers', ~Contested(n) PROVE \E s \in Live(n)' : UnitOf(s) \in linked'
  <2>1. Live(n)' = Live(n)
    BY <1>3
  <2>2. \E s \in Live(n) : UnitOf(s) \in linked'
    BY <1>3 DEF Ctors
  <2> QED
    BY <2>1, <2>2
<1> QED
  BY <1>1, <1>2, <1>3 DEF Ctors, UnitOf

\* Steps that change neither the chains nor the list of units.
LEMMA SameCtors ==
  ASSUME Ctors, Made, UNCHANGED <<prog, link, objsyms, linked, selobjects, obj, pripointers, xtors, xtorsDone>>,
         phase' = phase \/ (phase = "pull" /\ phase' \in {"resolve", "ierror"}),
         phase = "done" => bound' = bound
  PROVE  Ctors' /\ Made'
<1>1. /\ \A n : (Plain(n)' <=> Plain(n)) /\ (Contested(n)' <=> Contested(n))
      /\ \A u : Constructors(u)' \subseteq Constructors(u)
  BY CtorsAre
<1>2. \A n : InChain(n)' = InChain(n) /\ Live(n)' = Live(n)
  BY SameChains
<1>3. Ctors'
  BY <1>1, <1>2 DEF Ctors, UnitOf
<1>4. phase' = "done" => phase = "done" /\ (LabelReferenced' <=> LabelReferenced)
  BY DEF LabelReferenced, Label
<1>5. phase' \in {"resolve", "pull"} => phase \in {"resolve", "pull"}
  OBVIOUS
<1>6. phase \in {"resolve", "done"} => phase' = phase
  OBVIOUS
<1>7. Made'
  BY <1>1, <1>4, <1>5, <1>6 DEF Made, Obj, INITEXIT
<1> QED
  BY <1>3, <1>7

\* A step that touches the chain of another name only.
LEMMA OtherChain ==
  ASSUME TypeInv, NEW n \in Names, NEW m, m # n, link'[Nil] = Nil,
         \A p \in Places : NameOf(p) # m => link'[p] = link[p],
         \A s : NameOf(s) = n => (s \in objsyms' <=> s \in objsyms)
  PROVE  Live(n)' = Live(n) /\ InChain(n)' = InChain(n)
<1>1. Live(n)' = Live(n)
  BY DEF Live, NameOf
<1>2. \A p \in OfName(n) \cup {Nil, Bucket(n)} : link'[p] = link[p]
  <2>1. link[Nil] = Nil
    BY DEF TypeInv
  <2>2. \A p \in OfName(n) \cup {Bucket(n)} : p \in Places /\ NameOf(p) = n
    BY PlaceFacts DEF OfName
  <2> QED
    BY <2>1, <2>2
<1>3. \A k \in 0..MaxChain : Chain(n)'[k] = Chain(n)[k]
  BY <1>2, ChainSame
<1>4. \A k \in 1..MaxChain : k \in 0..MaxChain
  BY MaxChainIs
<1>5. MaxChain' = MaxChain /\ Nil' = Nil
  OBVIOUS
<1>6. InChain(n)' = {Chain(n)'[k] : k \in 1 .. MaxChain} \ {Nil}
  BY DEF InChain, MaxChain, Nil, Units
<1>7. {Chain(n)'[k] : k \in 1 .. MaxChain} = {Chain(n)[k] : k \in 1 .. MaxChain}
  BY <1>3, <1>4
<1> QED
  BY <1>1, <1>6, <1>7 DEF InChain

\* A symbol that is entered stands in the chain, behind the place where the verdict was
\* spoken; the others stay where they are, but for the one that makes room.
LEMMA EnterReach ==
  ASSUME TypeInv, NEW s \in Defs, ChainOk(NameOf(s)), Live(NameOf(s)) \subseteq InChain(NameOf(s)),
         s \notin objsyms, link[s] = Nil,
         NEW v, NEW k, SpokenAt(s, v, k), link' = addglobsym(s, v),
         objsyms' = IF Entered(v) THEN (objsyms \ Displaced(v)) \cup {s} ELSE objsyms
  PROVE  Live(NameOf(s))' \subseteq InChain(NameOf(s))'
<1> DEFINE n == NameOf(s)
           N == MaxChain
           c == Chain(n)
           d == Steps(link', Bucket(n), MaxChain)
           f == [j \in 0..N |-> IF j = k + 1 THEN s ELSE c[j]]
           D == OfName(n) \cup {Nil, Bucket(n)}
<1>1. /\ n \in Names /\ s # Nil /\ s # Bucket(n) /\ s \in Places /\ Bucket(n) # Nil /\ Bucket(n) \in Places
      /\ s \notin Live(n) /\ N \in Nat
  BY PlaceFacts, SymFacts, MaxChainIs DEF TypeInv, Live
<1>2. /\ v.at = c[k] /\ link[v.at] = c[k + 1] /\ k \in 0..N /\ k + 1 \in 1..N /\ v.at # Nil
      /\ v.what \in {"append", "ignore", "error", "replace"}
      /\ v.what = "append" => link[v.at] = Nil
      /\ v.at \in OfName(n) \cup {Bucket(n)}
  BY VerdictPlace DEF SpokenAt
<1>3. /\ v.at \in Live(n) \cup {Bucket(n)}
      /\ v.what = "replace" => link[v.at] \in Live(n) /\ v.at # link[v.at]
  BY PlaceLive
<1>4. s # v.at
  BY <1>1, <1>3
<1>5. /\ c[0] = Bucket(n)
      /\ \A j \in 1..N : c[j] = link[c[j - 1]]
      /\ \A j \in 0..N : c[j] \in Places
  BY <1>1, ChainIs
<1>6. /\ \A j \in 1..N : c[j] \in Live(n) \cup {Nil}
      /\ \A i, j \in 0..N : (i < j /\ c[j] # Nil) => c[i] # c[j]
      /\ c[N] = Nil
  BY <1>1, ChainEnds
<1>7. \A i, j \in 0..N : (i <= j /\ c[i] = Nil) => c[j] = Nil
  BY <1>1, NilStays
<1>8. CASE ~Entered(v)
  <2>1. link' = link /\ objsyms' = objsyms
    BY <1>2, <1>8, AddIs DEF Entered
  <2>2. Live(n)' = Live(n)
    BY <2>1 DEF Live, NameOf
  <2>3. InChain(n)' = InChain(n)
    BY <2>1 DEF InChain, Chain, MaxChain, Nil, Bucket, Units
  <2> QED
    BY <2>2, <2>3
<1>9. CASE Entered(v)
  <2>1. /\ v.what \in {"append", "replace"}
        /\ link'[v.at] = s /\ \A p \in Places \ {v.at, s} : link'[p] = link[p]
        /\ v.what = "append" => link'[s] = Nil
        /\ v.what = "replace" => link'[s] = link[link[v.at]]
    BY <1>4, <1>9, AddIs DEF Entered
  <2>2. link'[Nil] = Nil
    BY AddType
  <2>3. /\ d[0] = Bucket(n)
        /\ \A j \in 1..N : d[j] = link'[d[j - 1]]
    <3> DEFINE g == link'
    <3>1. \A p \in Places : g[p] \in Places
      <4>1. addglobsym(s, v) \in [Places -> Defs \cup {Nil}]
        BY AddIs
      <4> QED
        BY <4>1, PlaceFacts
    <3> HIDE DEF g
    <3>2. /\ Steps(g, Bucket(n), N)[0] = Bucket(n)
          /\ \A j \in 1..N : Steps(g, Bucket(n), N)[j] = g[Steps(g, Bucket(n), N)[j - 1]]
      BY <1>1, <3>1, StepsAre
    <3> QED
      BY <3>2 DEF g
  <2>4. f[0] = c[0] /\ f[k + 1] = s /\ \A j \in 0..N : j # k + 1 => f[j] = c[j]
    BY <1>1, <1>2
  <2> HIDE DEF d, f, c, n
  <2>5. ASSUME NEW j \in 1..N, d[j - 1] = f[j - 1] PROVE d[j] = f[j]
    <3>1. d[j] = link'[f[j - 1]] /\ j - 1 \in 0..N /\ j \in 0..N
      BY <1>1, <2>3, <2>5
    <3>2. CASE j - 1 = k
      <4>1. f[j - 1] = v.at /\ f[j] = s
        BY <1>2, <2>4, <3>1, <3>2
      <4> QED
        BY <2>1, <3>1, <4>1
    <3>3. CASE j - 1 = k + 1
      <4>1. f[j - 1] = s /\ f[j] = c[j] /\ c[j] = link[c[k + 1]] /\ j # k + 1
        BY <1>2, <1>5, <2>4, <3>1, <3>3
      <4>2. v.what = "append" => c[j] = Nil
        <5>1. v.what = "append" => c[k + 1] = Nil
          BY <1>2
        <5>2. k + 1 \in 0..N /\ k + 1 <= j
          BY <1>1, <1>2, <3>3
        <5> QED
          BY <1>7, <3>1, <5>1, <5>2
      <4> QED
        BY <1>2, <2>1, <3>1, <4>1, <4>2
    <3>4. CASE j - 1 # k /\ j - 1 # k + 1
      <4>1. f[j - 1] = c[j - 1] /\ f[j] = c[j] /\ c[j] = link[c[j - 1]]
        <5>1. j # k + 1
          BY <1>2, <3>4
        <5> QED
          BY <1>5, <2>4, <3>1, <3>4, <5>1
      <4>2. CASE c[j - 1] = Nil
        <5>1. c[j] = Nil
          BY <1>7, <3>1, <4>2
        <5> QED
          BY <2>2, <3>1, <4>1, <4>2, <5>1
      <4>3. CASE c[j - 1] # Nil
        <5>1. c[j - 1] # v.at
          <6>1. j - 1 < k \/ k < j - 1
            BY <1>2, <3>1, <3>4
          <6> QED
            BY <1>2, <1>6, <3>1, <4>3, <6>1
        <5>2. c[j - 1] # s
          <6>1. CASE j - 1 = 0
            BY <1>1, <1>5, <6>1
          <6>2. CASE j - 1 # 0
            <7>1. j - 1 \in 1..N
              BY <3>1, <6>2
            <7> QED
              BY <1>1, <1>6, <4>3, <7>1
          <6> QED
            BY <6>1, <6>2
        <5>3. c[j - 1] \in Places
          BY <1>5, <3>1
        <5> QED
          BY <2>1, <3>1, <4>1, <5>1, <5>2, <5>3
      <4> QED
        BY <4>2, <4>3
    <3> QED
      BY <3>2, <3>3, <3>4
  <2>6. \A j \in 0..N : d[j] = f[j]
    <3>1. d[0] = f[0]
      BY <1>5, <2>3, <2>4
    <3> HIDE DEF N
    <3> QED
      BY <1>1, <2>5, <3>1, SameFunction
  <2>7. InChain(n)' = {d[j] : j \in 1..N} \ {Nil}
    BY DEF InChain, Chain, d, n, NameOf, Bucket, MaxChain, Nil, Units
  <2>8. ASSUME NEW t \in Live(n)' PROVE t \in InChain(n)'
    <3>1. t = s \/ (t \in Live(n) /\ t \notin Displaced(v))
      BY <1>9 DEF Live, NameOf
    <3>2. CASE t = s
      <4>1. k + 1 \in 0..N /\ d[k + 1] = s
        BY <1>1, <1>2, <2>4, <2>6
      <4> QED
        BY <1>1, <1>2, <2>7, <3>2, <4>1
    <3>3. CASE t \in Live(n) /\ t \notin Displaced(v)
      <4>1. t \in InChain(n)
        BY <3>3 DEF n
      <4>2. PICK j \in 1..N : t = c[j] /\ t # Nil
        BY <4>1 DEF InChain, c
      <4>3. j # k + 1
        <5>1. v.what = "append" => c[k + 1] = Nil
          BY <1>2
        <5>2. v.what = "replace" => c[k + 1] \in Displaced(v)
          BY <1>2 DEF Displaced
        <5> QED
          BY <2>1, <3>3, <4>2, <5>1, <5>2
      <4>4. j \in 0..N /\ d[j] = c[j]
        BY <1>1, <2>4, <2>6, <4>3
      <4> QED
        BY <2>7, <4>2, <4>4
    <3> QED
      BY <3>1, <3>2, <3>3
  <2> QED
    BY <2>8 DEF n
<1> QED
  BY <1>8, <1>9

LEMMA LoadSymbolCtors ==
  ASSUME LinkerInv, Ctors, Made, LoadSymbol
  PROVE  Ctors' /\ Made'
<1> USE DEF LinkerInv
<1>1. PICK n \in unread : \E s \in {<<Files[loaded], n>>} : \E v \in {Verdict(s)} : \E k :
           /\ n \in Names /\ s \in Proper /\ s \in Defs /\ s # Label /\ NameOf(s) = n /\ UnitOf(s) = Files[loaded]
           /\ SpokenAt(s, v, k) /\ s \notin objsyms \cup freed /\ link[s] = Nil
           /\ unread' = unread \ {n} /\ link' = addglobsym(s, v)
           /\ objsyms' = (IF Entered(v) THEN (objsyms \ Displaced(v)) \cup {s} ELSE objsyms)
           /\ freed' = freed \cup (IF Entered(v) THEN Displaced(v) ELSE {s})
           /\ errors' = errors \cup Redefined(s, v)
  BY LoadSymbolIs
<1>2. PICK s : \E v : \E k :
           /\ n \in Names /\ s \in Defs /\ NameOf(s) = n
           /\ SpokenAt(s, v, k) /\ s \notin objsyms /\ link[s] = Nil /\ link' = addglobsym(s, v)
           /\ objsyms' = (IF Entered(v) THEN (objsyms \ Displaced(v)) \cup {s} ELSE objsyms)
  BY <1>1
<1>3. PICK v, k :
           /\ n \in Names /\ s \in Defs /\ NameOf(s) = n
           /\ SpokenAt(s, v, k) /\ s \notin objsyms /\ link[s] = Nil /\ link' = addglobsym(s, v)
           /\ objsyms' = (IF Entered(v) THEN (objsyms \ Displaced(v)) \cup {s} ELSE objsyms)
  BY <1>2
<1>4. /\ phase = "load" /\ phase' = "load" /\ UNCHANGED <<prog, linked, pripointers, xtors, xtorsDone>>
  BY DEF LoadSymbol
<1>5. INITEXIT \notin linked /\ pripointers = {}
  BY <1>4, NothingBound DEF Ctors
<1>6. \A m : Contested(m)' <=> Contested(m)
  BY <1>4, CtorsAre
<1>7. ASSUME NEW m \in CtorNames, ~Contested(m) PROVE Live(m)' \subseteq InChain(m)'
  <2>1. m \in Names /\ Live(m) \subseteq InChain(m) /\ ChainOk(m)
    BY <1>4, <1>7, FilesAssumption DEF Ctors, Chains, Stable
  <2>2. CASE m = n
    <3>1. /\ NameOf(s) = m /\ s \in Defs /\ ChainOk(NameOf(s)) /\ Live(NameOf(s)) \subseteq InChain(NameOf(s))
          /\ s \notin objsyms /\ link[s] = Nil /\ SpokenAt(s, v, k) /\ link' = addglobsym(s, v)
          /\ objsyms' = (IF Entered(v) THEN (objsyms \ Displaced(v)) \cup {s} ELSE objsyms)
      BY <1>3, <2>1, <2>2
    <3>2. Live(NameOf(s))' \subseteq InChain(NameOf(s))'
      <4>1. TypeInv
        OBVIOUS
      <4> HIDE DEF LinkerInv
      <4> QED
        BY <3>1, <4>1, EnterReach
    <3>3. Live(NameOf(s))' = Live(m)' /\ InChain(NameOf(s))' = InChain(m)'
      BY <3>1 DEF Live, InChain, Chain, NameOf
    <3> QED
      BY <3>2, <3>3
  <2>3. CASE m # n
    <3>1. /\ link'[Nil] = Nil /\ \A p \in Places : NameOf(p) # n => link'[p] = link[p]
          /\ Displaced(v) \subseteq OfName(n)
      BY <1>3, AddType
    <3>2. \A t : NameOf(t) = m => (t \in objsyms' <=> t \in objsyms)
      BY <1>3, <2>3, <3>1 DEF OfName
    <3>3. Live(m)' = Live(m) /\ InChain(m)' = InChain(m)
      BY <2>1, <2>3, <3>1, <3>2, OtherChain
    <3> QED
      BY <2>1, <3>3
  <2> QED
    BY <2>2, <2>3
<1>8. Ctors'
  BY <1>4, <1>5, <1>6, <1>7 DEF Ctors
<1>9. Made'
  BY <1>4, <1>5 DEF Made, INITEXIT
<1> QED
  BY <1>8, <1>9

LEMMA LoadUnitCtors ==
  ASSUME LinkerInv, Ctors, Made, LoadUnit
  PROVE  Ctors' /\ Made'
<1> USE DEF LinkerInv
<1>1. /\ phase = "load" /\ phase' = "load" /\ UNCHANGED <<prog, link, objsyms, pripointers, xtors, xtorsDone>>
  BY DEF LoadUnit
<1>2. INITEXIT \notin linked /\ pripointers = {}
  BY <1>1, NothingBound DEF Ctors
<1>3. INITEXIT \notin linked'
  <2>1. Files[loaded + 1] \in Units
    BY NextUnit DEF LoadUnit
  <2>2. linked' \subseteq linked \cup {Files[loaded + 1]}
    BY DEF LoadUnit
  <2> QED
    BY <1>2, <2>1, <2>2, SymFacts
<1>4. /\ \A n : InChain(n)' = InChain(n) /\ Live(n)' = Live(n)
      /\ \A n : Contested(n)' <=> Contested(n)
  BY <1>1, SameChains, CtorsAre
<1>5. Ctors'
  BY <1>1, <1>2, <1>4 DEF Ctors
<1>6. Made'
  BY <1>1, <1>3 DEF Made, INITEXIT
<1> QED
  BY <1>5, <1>6

LEMMA LoadDoneCtors ==
  ASSUME LinkerInv, Ctors, Made, LoadDone
  PROVE  Ctors' /\ Made'
<1> USE DEF LinkerInv
<1>1. /\ phase = "load" /\ phase' # "load" /\ UNCHANGED <<prog, link, objsyms, xtors, xtorsDone, bound>>
      /\ pripointers' = UNION {Constructors(u) : u \in linked}
      /\ linked' = linked \/ linked' = linked \cup {UNDEFSYMBOLS}
      /\ phase' = "done" => linked' = linked /\ selobjects = <<>>
  BY DEF LoadDone
<1>2. INITEXIT \notin linked /\ ~xtorsDone /\ linked \subseteq Units /\ Range(selobjects) = linked
  BY <1>1, NothingBound DEF Loading, Listed, Units
<1>3. INITEXIT \notin linked'
  BY <1>1, <1>2, SymFacts
<1>4. /\ \A n : InChain(n)' = InChain(n) /\ Live(n)' = Live(n)
      /\ \A n : Contested(n)' <=> Contested(n)
      /\ \A u : Constructors(u)' \subseteq Constructors(u)
  BY <1>1, SameChains, CtorsAre
<1>5. \A u \in linked' \cap Units : u \in linked
  BY <1>1, SymFacts
<1>6. \A u \in linked' \cap Units : Constructors(u)' \subseteq pripointers'
  BY <1>1, <1>4, <1>5
<1>7. ASSUME NEW n \in pripointers' PROVE \E s \in Live(n) : UnitOf(s) \in linked'
  <2>1. PICK u \in linked : n \in Constructors(u)
    BY <1>1, <1>7
  <2>2. <<u, n>> \in Live(n) /\ UnitOf(<<u, n>>) = u
    BY <2>1 DEF Constructors, Live, NameOf, UnitOf
  <2> QED
    BY <1>1, <2>1, <2>2
<1>8. \A n \in pripointers' : \E s \in Live(n)' : UnitOf(s) \in linked'
  BY <1>4, <1>7
<1>9. Ctors'
  BY <1>1, <1>4, <1>6, <1>8 DEF Ctors, UnitOf
<1>10. phase' = "done" => ~LabelReferenced'
  <2>1. phase' = "done" => linked' = {}
    <3>1. selobjects = <<>> => Range(selobjects) = {}
      BY DEF Range
    <3> QED
      BY <1>1, <1>2, <3>1
  <2> QED
    BY <2>1 DEF LabelReferenced
<1>11. Made'
  BY <1>1, <1>2, <1>3, <1>10 DEF Made, INITEXIT
<1> QED
  BY <1>9, <1>11

\* What findsymbol() returns when it finds something in the program.
LEMMA FindLinked ==
  ASSUME TypeInv, NEW n \in Names, NEW u, u \in linked, NEW s \in InChain(n), UnitOf(s) \in linked
  PROVE  findsymbol(u, n) # Nil /\ UnitOf(findsymbol(u, n)) \in linked
<1> DEFINE c == Chain(n)
           all == {k \in 1 .. MaxChain : c[k] # Nil}
           own == {k \in all : UnitOf(c[k]) = u}
           inUse == {k \in all : UnitOf(c[k]) \in linked}
           least(S) == CHOOSE k \in S : \A j \in S : k <= j
<1>1. MaxChain \in Nat
  BY MaxChainIs
<1>2. findsymbol(u, n) = CASE own # {}                  -> c[least(own)]
                           [] own = {} /\ inUse # {}    -> c[least(inUse)]
                           [] own = {} /\ inUse = {}    -> c[1]
  BY DEF findsymbol
<1>3. own \subseteq inUse /\ inUse \subseteq all /\ inUse # {}
  BY DEF InChain
<1>4. ASSUME NEW S \in SUBSET inUse, S # {} PROVE c[least(S)] # Nil /\ UnitOf(c[least(S)]) \in linked
  <2>1. S \in SUBSET Nat
    BY <1>1
  <2>2. least(S) \in S
    <3> HIDE DEF inUse
    <3>1. \E k \in S : \A j \in S : k <= j
      BY <1>4, <2>1, LeastIs
    <3> QED
      BY <3>1
  <2>3. least(S) \in inUse
    BY <2>2
  <2> HIDE DEF least, c
  <2> QED
    BY <2>3
<1> HIDE DEF own, inUse, least, c
<1>5. CASE own # {}
  BY <1>2, <1>3, <1>4, <1>5
<1>6. CASE own = {}
  BY <1>2, <1>3, <1>4, <1>6
<1> QED
  BY <1>5, <1>6

\* No reference of the list of constructors pulls in a member.
LEMMA ListPullsNothing ==
  ASSUME LinkerInv, Ctors, Made, ResolveXref, INITEXIT \in linked, \A n \in pripointers : Plain(n)
  PROVE  UNCHANGED <<phase, linked, selobjects, pripointers>>
<1> USE DEF LinkerInv
<1> DEFINE n == Xref.name
<1>1. AtXref /\ phase = "resolve" /\ Len(bound[Obj]) + 1 \in 1 .. Len(xrefs(Obj))
  BY AtXrefIs DEF ResolveXref, Answers, AtXref
<1>2. Obj = INITEXIT /\ {xtors[i].name : i \in DOMAIN xtors} = pripointers
  BY <1>1 DEF Made
<1>3. n \in pripointers
  <2>1. xrefs(Obj) = xtors
    BY <1>2, SymFacts DEF xrefs
  <2>2. xtors \in Seq(Reference)
    BY DEF TypeInv
  <2> QED
    BY <1>1, <1>2, <2>1, <2>2 DEF Xref
<1>4. n \in Names /\ n \in CtorNames /\ ~Contested(n) /\ ~Indirect(n)
  BY <1>3, FilesAssumption DEF TypeInv, Plain
<1>5. Wanted = n
  BY <1>1, <1>4 DEF Wanted, Asked
<1>6. PICK t \in InChain(n) : UnitOf(t) \in linked
  BY <1>3, <1>4 DEF Ctors
<1>7. Answer # Nil /\ UnitOf(Answer) \in linked
  <2>1. Answer = findsymbol(INITEXIT, n)
    BY <1>2, <1>5 DEF Answer
  <2>2. TypeInv /\ n \in Names /\ INITEXIT \in linked
    BY <1>4
  <2> HIDE DEF LinkerInv, n
  <2> QED
    BY <1>6, <2>1, <2>2, FindLinked
<1>8. Resolved(Answer) # Nil /\ (IsLib(UnitOf(Resolved(Answer))) => UnitOf(Resolved(Answer)) \in linked)
  <2>1. Resolved(Answer) # Nil
    BY DEF ResolveXref
  <2>2. CASE Resolved(Answer) = Answer
    BY <1>7, <2>2
  <2>3. CASE Resolved(Answer) = findlnksymbol(n)
    <3>1. Resolved(Answer) \in LnkSyms \cup {Label}
      BY <1>4, <2>1, <2>3, FindLnkIs
    <3>2. UnitOf(Resolved(Answer)) \notin Units
      BY <3>1, SymFacts, PlaceFacts
    <3> QED
      BY <2>1, <3>2 DEF IsLib, Units
  <2> QED
    BY <2>1, <2>2, <2>3 DEF Resolved
<1> HIDE DEF n
<1> QED
  BY <1>1, <1>8 DEF ResolveXref

LEMMA ResolveXrefCtors ==
  ASSUME LinkerInv, Ctors, Made, ResolveXref
  PROVE  Ctors' /\ Made'
<1> USE DEF LinkerInv
<1>1. /\ UNCHANGED <<prog, link, objsyms, obj, xtors, xtorsDone>> /\ phase = "resolve"
  BY DEF ResolveXref, Answers, AtXref
<1>2. \/ /\ phase' = "pull" /\ UNCHANGED <<obj, xtors, xtorsDone>>
         /\ \E u \in Members : linked' = linked \cup {u} /\ pripointers' = pripointers \cup Constructors(u)
      \/ UNCHANGED <<phase, linked, selobjects, pripointers>>
  BY DEF ResolveXref, IsLib
<1>3. CASE UNCHANGED <<phase, linked, selobjects, pripointers>>
  <2>1. Ctors /\ Made /\ phase # "done"
    BY <1>1
  <2> HIDE DEF LinkerInv
  <2> QED
    BY <1>1, <1>3, <2>1, SameCtors
<1>4. ASSUME phase' = "pull", NEW u \in Members, linked' = linked \cup {u},
             pripointers' = pripointers \cup Constructors(u)
      PROVE  Ctors' /\ Made'
  <2>1. INITEXIT \notin linked \/ ~\A n \in pripointers : Plain(n)
    BY <1>1, <1>4, ListPullsNothing
  <2>2. /\ \A n : InChain(n)' = InChain(n) /\ Live(n)' = Live(n)
        /\ \A n : (Plain(n)' <=> Plain(n)) /\ (Contested(n)' <=> Contested(n))
        /\ \A w : Constructors(w)' \subseteq Constructors(w)
    BY <1>1, SameChains, CtorsAre
  <2>3. Constructors(u) \subseteq CtorNames /\ u \in Units /\ u # INITEXIT
    BY SymFacts DEF Constructors, Units
  <2>4. \A n \in pripointers' \ pripointers : \E s \in Live(n) : UnitOf(s) \in linked'
    <3>1. ASSUME NEW n \in Constructors(u) PROVE <<u, n>> \in Live(n) /\ UnitOf(<<u, n>>) = u
      BY DEF Constructors, Live, UnitOf, NameOf
    <3> QED
      BY <1>4, <3>1
  <2>5. \A w \in linked' \cap Units : Constructors(w)' \subseteq pripointers'
    <3>1. \A w \in linked \cap Units : Constructors(w) \subseteq pripointers
      BY <1>1 DEF Ctors
    <3> QED
      BY <1>4, <2>2, <3>1
  <2>6. pripointers' \subseteq CtorNames
    BY <1>4, <2>3 DEF TypeInv
  <2>7. Ctors'
    <3>1. /\ phase # "load" /\ phase' # "load" /\ prog' = prog /\ linked \subseteq linked'
          /\ pripointers \subseteq pripointers' /\ Ctors
      BY <1>1, <1>4
    <3> HIDE DEF LinkerInv
    <3> QED
      BY <2>2, <2>4, <2>5, <2>6, <3>1, KeptCtors
  <2>8. Made'
    <3>1. INITEXIT \in linked' => INITEXIT \in linked
      BY <1>4, <2>3
    <3>2. (\A n \in pripointers' : Plain(n)') => \A n \in pripointers : Plain(n)
      BY <1>4, <2>2
    <3>3. xtorsDone' => INITEXIT \in linked'
      BY <1>1, <1>4 DEF Made
    <3> QED
      BY <1>4, <2>1, <3>1, <3>2, <3>3 DEF Made, INITEXIT
  <2> QED
    BY <2>7, <2>8
<1> QED
  BY <1>2, <1>3, <1>4

LEMMA PullStepCtors ==
  ASSUME LinkerInv, Ctors, Made, PullStep
  PROVE  Ctors' /\ Made'
<1> USE DEF LinkerInv
<1> DEFINE at == walk.at
           n == NameOf(walk.at)
           p == Pulled
           s == <<Pulled, NameOf(walk.at)>>
           g == link[walk.at]
<1>1. /\ UNCHANGED <<prog, selobjects, linked, obj, bound, pripointers, xtors, xtorsDone>>
      /\ phase = "pull" /\ at # Nil /\ at \in Places /\ n \in Names /\ p \in Members /\ p \in linked /\ Defines(p, n)
      /\ s \in Proper /\ s \in Places /\ g \in OfName(n) \cup {Nil}
  BY PullStepIs
<1>2. \/ UNCHANGED <<phase, link, objsyms>>
      \/ /\ g # Nil /\ Clash(s, g) = "replace" /\ link' = Relinked(link, s, g, at)
         /\ objsyms' = objsyms \ {g} /\ phase' \in {phase, "ierror"}
      \/ /\ g # Nil /\ Clash(s, g) = "ignore" /\ objsyms' = objsyms \ {s} /\ UNCHANGED <<phase, link>>
  BY PullStepIs
<1>3. /\ s \in Defs /\ NameOf(s) = n /\ UnitOf(s) = p /\ s # Nil /\ p \in Units
      /\ (g # Nil => g \in Defs /\ NameOf(g) = n)
  <2>1. p \in Units
    BY <1>1 DEF Units
  <2> QED
    BY <1>1, <2>1, PlaceFacts, SymFacts DEF Defs, OfName
<1>4. CASE UNCHANGED <<phase, link, objsyms>>
  <2>1. Ctors /\ Made
    OBVIOUS
  <2> HIDE DEF LinkerInv
  <2> QED
    BY <1>1, <1>4, <2>1, SameCtors
\* A definition made room: it was of a contested name.
<1>5. ASSUME g # Nil, Clash(s, g) \in {"replace", "ignore"},
             link' = Relinked(link, s, g, at) \/ link' = link, objsyms' \in {objsyms \ {g}, objsyms \ {s}},
             phase' \in {phase, "ierror"}
      PROVE  Ctors' /\ Made'
  <2>1. ASSUME n \in CtorNames PROVE Contested(n)
    <3>1. g # s /\ EitherCommon(Sym(s), Sym(g))
      BY <1>5, ClashIs
    <3>2. g # Label
      BY <1>3, <1>5, <2>1, PlaceFacts, FilesAssumption
    <3>3. UnitOf(g) \in Units /\ g = <<UnitOf(g), n>> /\ g \in Proper
      BY <1>3, <1>5, <3>2, SymFacts
    <3>4. Defines(UnitOf(g), n)
      BY <1>3, <1>5, <3>3 DEF Proper
    <3>5. UnitOf(g) # p
      <4>1. g # <<p, n>>
        BY <3>1
      <4> HIDE DEF g, p, n, s
      <4> QED
        BY <3>3, <4>1
    <3>6. EitherCommon(Sym(<<p, n>>), Sym(<<UnitOf(g), n>>))
      <4>1. s = <<p, n>> /\ g = <<UnitOf(g), n>>
        BY <3>3
      <4> HIDE DEF g, p, n, s
      <4> QED
        BY <3>1, <4>1
    <3> HIDE DEF g, p, n, s
    <3>7. ArchiveCommon(n)
      BY <1>1, <3>3, <3>4, <3>5, <3>6 DEF ArchiveCommon
    <3> QED
      BY <3>7 DEF Contested
  <2>2. ASSUME NEW m \in CtorNames, ~Contested(m) PROVE Live(m)' = Live(m) /\ InChain(m)' = InChain(m)
    <3>1. m # n /\ m \in Names
      BY <2>1, <2>2, FilesAssumption
    <3>2. \A q \in Places : NameOf(q) # n => link'[q] = link[q]
      <4>1. NameOf(at) = n /\ NameOf(s) = n
        BY <1>3
      <4>2. link \in [Places -> Defs \cup {Nil}]
        BY DEF TypeInv
      <4> HIDE DEF n, s, at, g
      <4> QED
        BY <1>5, <4>1, <4>2 DEF Relinked
    <3>3. link'[Nil] = Nil
      <4>1. at # Nil /\ s # Nil /\ link[Nil] = Nil /\ Nil \in Places /\ link \in [Places -> Defs \cup {Nil}]
        BY <1>1, <1>3, PlaceFacts DEF TypeInv
      <4> HIDE DEF n, s, at, g
      <4> QED
        BY <1>5, <4>1 DEF Relinked
    <3>4. \A t : NameOf(t) = m => (t \in objsyms' <=> t \in objsyms)
      <4>1. NameOf(g) = n /\ NameOf(s) = n
        BY <1>3, <1>5
      <4> HIDE DEF n, s, at, g
      <4> QED
        BY <1>5, <3>1, <4>1
    <3>5. TypeInv
      OBVIOUS
    <3> HIDE DEF LinkerInv, n
    <3> QED
      BY <3>1, <3>2, <3>3, <3>4, <3>5, OtherChain
  <2>3. /\ \A m : (Plain(m)' <=> Plain(m)) /\ (Contested(m)' <=> Contested(m))
        /\ \A u : Constructors(u)' \subseteq Constructors(u)
    <3>1. objsyms' \subseteq objsyms
      BY <1>5
    <3> QED
      BY <1>1, <3>1, CtorsAre
  <2>4. Ctors'
    <3>1. \A w \in linked' \cap Units : Constructors(w)' \subseteq pripointers'
      BY <1>1, <2>3 DEF Ctors
    <3>2. /\ phase # "load" /\ phase' # "load" /\ prog' = prog /\ linked \subseteq linked'
          /\ pripointers' = pripointers /\ pripointers \subseteq CtorNames /\ Ctors
      BY <1>1, <1>5 DEF TypeInv
    <3> HIDE DEF LinkerInv
    <3> QED
      BY <2>2, <3>1, <3>2, KeptCtors
  <2>5. Made'
    <3>1. INITEXIT \notin linked \/ ~\A m \in pripointers : Plain(m)
      BY <1>1 DEF Made
    <3>2. phase' \in {"pull", "ierror"}
      BY <1>1, <1>5
    <3> QED
      BY <1>1, <2>3, <3>1, <3>2 DEF Made, INITEXIT
  <2> QED
    BY <2>4, <2>5
<1> QED
  BY <1>2, <1>4, <1>5

LEMMA SetToSeqRange ==
  ASSUME NEW S, IsFiniteSet(S)
  PROVE  Range(SetToSeq(S)) = S
<1> DEFINE N == Cardinality(S)
<1>1. PICK f \in Bijection(1..N, S) : TRUE
  BY FS_CountingElements, FS_NatBijection, FS_CardinalityType DEF ExistsBijection
<1>2. N \in Nat /\ IsFiniteSet(1..N) /\ Cardinality(1..N) = N
  BY FS_CardinalityType, FS_Interval
<1>3. f \in [1..N -> S] /\ IsInjective(f)
  BY <1>1 DEF Bijection, Injection, IsInjective
<1>4. SetToSeq(S) \in [1..N -> S] /\ IsInjective(SetToSeq(S))
  <2> DEFINE Q(g) == IsInjective(g)
  <2>1. SetToSeq(S) = CHOOSE g \in [1..N -> S] : Q(g)
    BY DEF SetToSeq
  <2>2. Q(f)
    BY <1>3
  <2>3. SetToSeq(S) \in [1..N -> S] /\ Q(SetToSeq(S))
    <3> HIDE DEF Q, N
    <3> QED
      BY <1>3, <2>1, <2>2
  <2> QED
    BY <2>3
<1>5. SetToSeq(S) \in Injection(1..N, S)
  BY <1>4 DEF Injection, IsInjective
<1>6. SetToSeq(S) \in Surjection(1..N, S)
  BY <1>2, <1>5, FS_Injection
<1> QED
  BY <1>6 DEF Surjection, Range

\* What NextObject does to the list of constructors.
LEMMA NextObjectXtors ==
  ASSUME TypeInv, NextObject
  PROVE  \/ UNCHANGED <<xtors, selobjects, linked, link, objsyms, xtorsDone>> /\ (obj = Len(selobjects) => xtorsDone)
         \/ /\ ~LabelReferenced /\ obj = Len(selobjects)
            /\ UNCHANGED <<xtors, selobjects, linked, link, objsyms>>
         \/ /\ obj = Len(selobjects) /\ linked' = linked \cup {INITEXIT}
            /\ selobjects' = Append(selobjects, INITEXIT)
            /\ {xtors'[i].name : i \in DOMAIN xtors'} = pripointers
<1>1. CASE ~(obj = Len(selobjects) /\ ~xtorsDone)
  BY <1>1 DEF NextObject
<1>2. CASE obj = Len(selobjects) /\ ~xtorsDone /\ ~LabelReferenced
  BY <1>2 DEF NextObject, make_constructors
<1>3. CASE obj = Len(selobjects) /\ ~xtorsDone /\ LabelReferenced
  <2> DEFINE R == {[name |-> n, kind |-> "strong"] : n \in pripointers}
  <2>1. /\ xtors' = SetToSeq(R) /\ linked' = linked \cup {INITEXIT}
        /\ selobjects' = Append(selobjects, INITEXIT)
    BY <1>3 DEF NextObject, make_constructors
  <2>2. IsFiniteSet(R)
    <3>1. IsFiniteSet(pripointers)
      <4>1. pripointers \subseteq Names /\ IsFiniteSet(Names)
        BY FilesAssumption DEF TypeInv
      <4> QED
        BY <4>1, FS_Subset
    <3> DEFINE f == [n \in pripointers |-> [name |-> n, kind |-> "strong"]]
    <3>2. f \in Surjection(pripointers, R)
      BY DEF Surjection
    <3> HIDE DEF f, R
    <3> QED
      BY <3>1, <3>2, FS_Surjection
  <2>3. {xtors'[i] : i \in DOMAIN xtors'} = R
    <3> HIDE DEF R
    <3> QED
      BY <2>1, <2>2, SetToSeqRange DEF Range
  <2>4. {xtors'[i].name : i \in DOMAIN xtors'} = {r.name : r \in R}
    <3> HIDE DEF R
    <3> QED
      BY <2>3
  <2>5. {r.name : r \in R} = pripointers
    <3>1. \A r \in R : r.name \in pripointers
      OBVIOUS
    <3>2. \A n \in pripointers : \E r \in R : r.name = n
      <4>1. ASSUME NEW n \in pripointers PROVE \E r \in R : r.name = n
        <5>1. [name |-> n, kind |-> "strong"] \in R /\ [name |-> n, kind |-> "strong"].name = n
          OBVIOUS
        <5> HIDE DEF R
        <5> QED
          BY <5>1
      <4> QED
        BY <4>1
    <3> HIDE DEF R
    <3> QED
      BY <3>1, <3>2
  <2> QED
    BY <1>3, <2>1, <2>4, <2>5
<1> QED
  BY <1>1, <1>2, <1>3

LEMMA NextObjectCtors ==
  ASSUME LinkerInv, Ctors, Made, NextObject
  PROVE  Ctors' /\ Made'
<1> USE DEF LinkerInv
<1>1. /\ UNCHANGED <<prog, bound, pripointers>> /\ phase = "resolve" /\ ~AtXref
      /\ \/ obj < Len(selobjects') /\ obj' = obj + 1 /\ phase' = phase
         \/ ~(obj < Len(selobjects')) /\ phase' = "done" /\ obj' = obj
  BY NextObjectIs
<1>2. obj \in 1 .. Len(selobjects) /\ Len(selobjects) \in Nat /\ selobjects \in Seq(Visitors)
  BY <1>1 DEF Listed, TypeInv
<1>3. pripointers \subseteq CtorNames /\ CtorNames \subseteq Names /\ CtorLabel \notin CtorNames
  BY FilesAssumption DEF TypeInv
<1>4. \/ UNCHANGED <<link, objsyms>>
      \/ \E v, k : /\ SpokenAt(Label, v, k) /\ link' = addglobsym(Label, v)
                   /\ objsyms' = (objsyms \ Displaced(v)) \cup {Label}
  BY NextObjectIs
<1>5. linked \subseteq linked' /\ linked' \subseteq linked \cup {INITEXIT}
  BY NextObjectIs
<1>6. /\ \A m \in CtorNames : Live(m)' = Live(m) /\ InChain(m)' = InChain(m)
      /\ \A u \in Units : \A m \in CtorNames : <<u, m>> \in objsyms' => <<u, m>> \in objsyms
  <2>1. CASE UNCHANGED <<link, objsyms>>
    BY <1>1, <2>1, SameChains
  <2>2. ASSUME NEW v, NEW k, SpokenAt(Label, v, k), link' = addglobsym(Label, v),
               objsyms' = (objsyms \ Displaced(v)) \cup {Label}
        PROVE  /\ \A m \in CtorNames : Live(m)' = Live(m) /\ InChain(m)' = InChain(m)
               /\ \A u \in Units : \A m \in CtorNames : <<u, m>> \in objsyms' => <<u, m>> \in objsyms
    <3>1. Label \in Defs /\ NameOf(Label) = CtorLabel /\ CtorLabel \in Names
      BY PlaceFacts
    <3>2. /\ link'[Nil] = Nil /\ \A q \in Places : NameOf(q) # CtorLabel => link'[q] = link[q]
          /\ Displaced(v) \subseteq OfName(CtorLabel)
      BY <2>2, <3>1, AddType
    <3>3. ASSUME NEW m \in CtorNames PROVE Live(m)' = Live(m) /\ InChain(m)' = InChain(m)
      <4>1. m \in Names /\ CtorLabel # m
        BY <1>3
      <4>2. \A t : NameOf(t) = m => (t \in objsyms' <=> t \in objsyms)
        BY <2>2, <3>1, <3>2, <4>1 DEF OfName
      <4>3. TypeInv
        OBVIOUS
      <4> HIDE DEF LinkerInv
      <4> QED
        BY <3>2, <4>1, <4>2, <4>3, OtherChain
    <3>4. \A u \in Units : \A m : <<u, m>> # Label
      BY SymFacts DEF Label
    <3> QED
      BY <2>2, <3>3, <3>4
  <2> QED
    BY <1>4, <2>1, <2>2
<1>7. /\ \A m : (Plain(m)' <=> Plain(m))
      /\ \A u \in Units : Constructors(u)' \subseteq Constructors(u)
  BY <1>1, <1>6, CtorsAre
<1>8. Ctors'
  <2>1. \A w \in linked' \cap Units : Constructors(w)' \subseteq pripointers'
    <3>1. \A w \in linked' \cap Units : w \in linked
      BY <1>5, SymFacts
    <3> QED
      BY <1>1, <1>7, <3>1 DEF Ctors
  <2>2. /\ phase # "load" /\ phase' # "load" /\ prog' = prog /\ linked \subseteq linked' /\ Ctors
        /\ pripointers' = pripointers /\ pripointers \subseteq CtorNames
    BY <1>1, <1>3, <1>5
  <2> HIDE DEF LinkerInv
  <2> QED
    BY <1>6, <2>1, <2>2, KeptCtors
<1>9. Made'
  <2>1. CASE UNCHANGED <<xtors, selobjects, linked, link, objsyms, xtorsDone>> /\ (obj = Len(selobjects) => xtorsDone)
    <3>1. phase' = "done" => INITEXIT \in linked'
      <4>1. phase' = "done" => obj = Len(selobjects)
        BY <1>1, <1>2, <2>1
      <4> QED
        BY <1>1, <2>1, <4>1 DEF Made
    <3>2. ASSUME INITEXIT \in linked, \A m \in pripointers : Plain(m) PROVE phase' = "done" /\ obj' = obj
      <4>1. obj = Len(selobjects)
        BY <1>1, <3>2 DEF Made
      <4> QED
        BY <1>1, <1>2, <2>1, <4>1
    <3> QED
      BY <1>1, <1>7, <2>1, <3>1, <3>2 DEF Made, INITEXIT
  <2>2. CASE /\ ~LabelReferenced /\ obj = Len(selobjects)
             /\ UNCHANGED <<xtors, selobjects, linked, link, objsyms>>
    <3>1. phase' = "done" /\ obj' = obj
      BY <1>1, <1>2, <2>2
    <3>2. ~LabelReferenced'
      BY <1>1, <2>2 DEF LabelReferenced, Label
    <3> QED
      BY <1>1, <1>7, <2>2, <3>1, <3>2 DEF Made, INITEXIT
  <2>3. CASE /\ obj = Len(selobjects) /\ linked' = linked \cup {INITEXIT}
             /\ selobjects' = Append(selobjects, INITEXIT)
             /\ {xtors'[i].name : i \in DOMAIN xtors'} = pripointers
    <3>1. INITEXIT \in Visitors
      BY DEF Visitors
    <3>2. Len(selobjects') = Len(selobjects) + 1 /\ selobjects'[Len(selobjects) + 1] = INITEXIT
      BY <1>2, <2>3, <3>1, AppendIs
    <3>3. obj' = Len(selobjects') /\ phase' = "resolve"
      BY <1>1, <1>2, <2>3, <3>2
    <3>4. Obj' = INITEXIT
      BY <3>2, <3>3 DEF Obj
    <3> QED
      BY <1>1, <2>3, <3>3, <3>4 DEF Made, INITEXIT
  <2> QED
    BY <2>1, <2>2, <2>3, NextObjectXtors
<1> QED
  BY <1>8, <1>9

LEMMA NextCtors == LinkerInv /\ (Ctors /\ Made) /\ [Next]_vars => (Ctors /\ Made)'
<1> SUFFICES ASSUME LinkerInv, Ctors, Made, [Next]_vars PROVE Ctors' /\ Made'
  OBVIOUS
<1>1. CASE LoadUnit \/ LoadSymbol \/ LoadDone
  BY <1>1, LoadUnitCtors, LoadSymbolCtors, LoadDoneCtors
<1>2. CASE ResolveXref \/ NextObject \/ PullStep
  BY <1>2, ResolveXrefCtors, NextObjectCtors, PullStepCtors
<1>3. CASE FollowIndirect \/ UndefinedXref \/ PullSymbol \/ PullDone \/ UNCHANGED vars
  <2>1. UNCHANGED <<prog, link, objsyms, linked, selobjects, obj, pripointers, xtors, xtorsDone>>
    BY <1>3 DEF FollowIndirect, UndefinedXref, PullSymbol, PullDone, vars
  <2>2. phase' = phase \/ (phase = "pull" /\ phase' \in {"resolve", "ierror"})
    BY <1>3 DEF FollowIndirect, UndefinedXref, PullSymbol, PullDone, vars
  <2>3. phase = "done" => bound' = bound
    BY <1>3 DEF FollowIndirect, UndefinedXref, Missing, Answers, AtXref, PullSymbol, PullDone, vars
  <2> QED
    BY <2>1, <2>2, <2>3, SameCtors
<1> QED
  BY <1>1, <1>2, <1>3 DEF Next

\* Beyond LinkerInv: what is in the table of a unit is in the chains, and the list of
\* constructors, once made, names what was noted and is visited last.
THEOREM ConstructorInvariant == Spec => [](Ctors /\ Made)
<1>1. Init => Ctors /\ Made
  <2> SUFFICES ASSUME Init PROVE Ctors /\ Made
    OBVIOUS
  <2>1. /\ phase = "load" /\ pripointers = {} /\ linked = {} /\ objsyms = {} /\ xtorsDone = FALSE
    BY DEF Init
  <2>2. \A n : Live(n) = {}
    BY <2>1 DEF Live
  <2> QED
    BY <2>1, <2>2 DEF Ctors, Made
<1>2. LinkerInv /\ (Ctors /\ Made) /\ [Next]_vars => (Ctors /\ Made)'
  BY NextCtors
<1> QED
  BY <1>1, <1>2, LinkerInvariant, PTL DEF Spec

\* When resolving has ended, the list of units is the program without repetitions, every
\* unit in it was visited to its last reference, what references are bound to is in it, and
\* a member of an archive is in it only for a reference.  The list that
\* make_constructors() made has the constructors of all its units.
THEOREM ClosedProgram == Spec => []ProgramClosed
<1>1. LinkerInv /\ (Ctors /\ Made) => ProgramClosed
  <2>1. SUFFICES ASSUME LinkerInv, Ctors, Made, phase = "done"
                 PROVE  /\ Range(selobjects) = linked /\ IsInjective(selobjects)
                        /\ \A r \in Bound : BoundTo(r) \in objsyms => UnitOf(BoundTo(r)) \in linked
                        /\ \A u \in linked : Len(bound[u]) = Len(xrefs(u))
                        /\ \A u \in linked \cap Members : \E r \in Bound : UnitOf(BoundTo(r)) = u
                        /\ (/\ LabelReferenced
                            /\ \A n \in pripointers : ~Contested(n) /\ \A u \in Units : ~IsIndirect(<<u, n>>))
                             => \A u \in linked \cap Units : \A n \in Constructors(u) :
                                  \E i \in DOMAIN xtors : xtors[i].name = n
    BY DEF ProgramClosed
  <2>2. TypeInv /\ Listed /\ Pulls /\ Chains
    BY <2>1 DEF LinkerInv
  <2>3. ASSUME NEW r \in Bound, NEW s, s = BoundTo(r), s \in objsyms PROVE UnitOf(s) \in linked
    <3>1. s \in Defs /\ s # Nil
      BY <2>2, <2>3, PlaceFacts DEF TypeInv
    <3>2. UnitOf(s) \in linked \cup {LNK, INITEXIT}
      BY <2>2, <2>3, <3>1 DEF Pulls
    <3>3. INITEXIT \notin linked => s # Label
      BY <2>2, <2>3 DEF Chains
    <3> QED
      BY <3>1, <3>2, <3>3, SymFacts
  <2>4. \A u \in linked : Len(bound[u]) = Len(xrefs(u))
    BY <2>1, <2>2 DEF Listed, Complete
  <2>5. ASSUME LabelReferenced, \A n \in pripointers : ~Contested(n) /\ \A u \in Units : ~IsIndirect(<<u, n>>),
               NEW u \in linked \cap Units, NEW n \in Constructors(u)
        PROVE  \E i \in DOMAIN xtors : xtors[i].name = n
    <3>1. \A m \in pripointers : Plain(m)
      BY <2>5 DEF Plain, Indirect
    <3>2. INITEXIT \in linked
      BY <2>1, <2>5 DEF Made
    <3>3. {xtors[i].name : i \in DOMAIN xtors} = pripointers
      BY <2>1, <3>1, <3>2 DEF Made
    <3>4. n \in pripointers
      BY <2>1, <2>5 DEF Ctors
    <3> QED
      BY <3>3, <3>4
  <2> QED
    BY <2>2, <2>3, <2>4, <2>5 DEF Listed, Pulls
<1> QED
  BY <1>1, LinkerInvariant, ConstructorInvariant, PTL

-----------------------------------------------------------------------------
(* What the links lead to.  The chain of a contested name may be a circle, so  *)
(* this is the least set of places that is closed under the links.            *)

From(l, a) == {p \in Places : \A C \in SUBSET Places : (a \in C /\ \A q \in C : l[q] \in C) => p \in C}
Links(l) == l[Nil] = Nil /\ \A p \in Places : l[p] \in Places

LEMMA FromIs ==
  ASSUME NEW l, Links(l), NEW a \in Places
  PROVE  /\ a \in From(l, a) /\ From(l, a) \subseteq Places
         /\ \A q \in From(l, a) : l[q] \in From(l, a)
         /\ \A C \in SUBSET Places : (a \in C /\ \A q \in C : l[q] \in C) => From(l, a) \subseteq C
BY DEF From, Links

\* From a, it is a and what its link leads to.
LEMMA FromStep ==
  ASSUME NEW l, Links(l), NEW a \in Places
  PROVE  /\ From(l, a) = {a} \cup From(l, l[a])
         /\ From(l, l[a]) \subseteq From(l, a)
<1> DEFINE S == From(l, a)
           T == From(l, l[a])
<1>1. l[a] \in Places
  BY DEF Links
<1>2. /\ a \in S /\ S \subseteq Places /\ \A q \in S : l[q] \in S
      /\ \A C \in SUBSET Places : (a \in C /\ \A q \in C : l[q] \in C) => S \subseteq C
  BY FromIs
<1>3. /\ l[a] \in T /\ T \subseteq Places /\ \A q \in T : l[q] \in T
      /\ \A C \in SUBSET Places : (l[a] \in C /\ \A q \in C : l[q] \in C) => T \subseteq C
  BY <1>1, FromIs
<1> HIDE DEF S, T
<1>4. T \subseteq S
  BY <1>2, <1>3
<1>5. S \subseteq {a} \cup T
  BY <1>2, <1>3
<1> QED
  BY <1>2, <1>4, <1>5 DEF S, T

LEMMA FromIn ==
  ASSUME NEW l, Links(l), NEW a \in Places, NEW b \in From(l, a)
  PROVE  From(l, b) \subseteq From(l, a)
<1>1. b \in Places
  BY DEF From
<1> QED
  BY <1>1, FromIs

\* It is the same for links that are the same on it.
LEMMA FromSame ==
  ASSUME NEW l, Links(l), NEW m, Links(m), NEW a \in Places, \A p \in From(l, a) : m[p] = l[p]
  PROVE  From(m, a) = From(l, a)
<1> DEFINE S == From(l, a)
           T == From(m, a)
<1>1. /\ a \in S /\ S \subseteq Places /\ \A q \in S : l[q] \in S
      /\ \A C \in SUBSET Places : (a \in C /\ \A q \in C : l[q] \in C) => S \subseteq C
  BY FromIs
<1>2. /\ a \in T /\ T \subseteq Places /\ \A q \in T : m[q] \in T
      /\ \A C \in SUBSET Places : (a \in C /\ \A q \in C : m[q] \in C) => T \subseteq C
  BY FromIs
<1>3. \A p \in S : m[p] = l[p]
  OBVIOUS
<1> HIDE DEF S, T
<1>4. T \subseteq S
  <2>1. \A q \in S : m[q] \in S
    BY <1>1, <1>3
  <2> QED
    BY <1>1, <1>2, <2>1
<1>5. \A q \in T : l[q] \in T
  BY <1>2, <1>3, <1>4
<1>6. S \subseteq T
  BY <1>1, <1>2, <1>5
<1> QED
  BY <1>4, <1>6 DEF S, T

LEMMA FromNil ==
  ASSUME NEW l, Links(l)
  PROVE  From(l, Nil) = {Nil}
<1>1. Nil \in Places
  BY PlaceFacts
<1>2. {Nil} \in SUBSET Places /\ \A q \in {Nil} : l[q] \in {Nil}
  BY <1>1 DEF Links
<1>3. From(l, Nil) \subseteq {Nil} /\ Nil \in From(l, Nil)
  BY <1>1, <1>2, FromIs
<1> QED
  BY <1>3

\* A chain that comes back to a place has no end from there.
LEMMA FromCircle ==
  ASSUME NEW l, Links(l), NEW a \in Places, a # Nil, a \in From(l, l[a])
  PROVE  Nil \notin From(l, a)
<1> DEFINE C == {x \in From(l, a) : a \in From(l, x)}
<1>1. C \subseteq Places /\ a \in C
  BY FromIs
<1>2. ASSUME NEW x \in C PROVE l[x] \in C
  <2>1. x \in Places /\ l[x] \in From(l, a) /\ a \in From(l, x)
    BY FromIs
  <2>2. From(l, x) = {x} \cup From(l, l[x])
    BY <2>1, FromStep
  <2>3. a \in From(l, l[x])
    BY <2>1, <2>2
  <2> QED
    BY <2>1, <2>3
<1>3. From(l, a) \subseteq C
  <2> HIDE DEF C
  <2> QED
    BY <1>1, <1>2, FromIs
<1>4. Nil \notin C
  BY FromNil
<1> QED
  BY <1>3, <1>4

\* The places of a name lead to places of that name.
LEMMA FromName ==
  ASSUME TypeInv, NEW n \in Names, NEW a \in OfName(n) \cup {Nil, Bucket(n)}
  PROVE  /\ Links(link) /\ a \in Places
         /\ \A x \in From(link, a) : x = a \/ x \in OfName(n) \cup {Nil}
         /\ \A x \in From(link, a) : link[x] \in OfName(n) \cup {Nil}
<1> DEFINE S == OfName(n) \cup {Nil, Bucket(n)}
<1>1. Links(link)
  <2>1. Nil \in Places /\ Defs \subseteq Places
    BY PlaceFacts
  <2> QED
    BY <2>1 DEF TypeInv, Links
<1>2. S \subseteq Places
  BY PlaceFacts DEF OfName
<1>3. \A x \in S : link[x] \in OfName(n) \cup {Nil}
  <2>1. ASSUME NEW x \in S PROVE link[x] \in OfName(n) \cup {Nil}
    <3>1. x \in Places /\ (x = Nil \/ NameOf(x) = n)
      BY <1>2, PlaceFacts DEF OfName
    <3>2. link[x] \in Defs \cup {Nil} /\ (link[x] # Nil => NameOf(link[x]) = NameOf(x)) /\ link[Nil] = Nil
      BY <3>1 DEF TypeInv
    <3> QED
      BY <3>1, <3>2 DEF OfName
  <2> QED
    BY <2>1
<1>4. a \in Places
  BY <1>2
<1> DEFINE C == {a} \cup OfName(n) \cup {Nil}
<1>5. C \in SUBSET Places /\ a \in C /\ \A q \in C : link[q] \in C
  BY <1>2, <1>3
<1>6. From(link, a) \subseteq C
  <2> HIDE DEF C
  <2> QED
    BY <1>1, <1>4, <1>5, FromIs
<1> QED
  BY <1>1, <1>3, <1>4, <1>6

-----------------------------------------------------------------------------
(* The definitions of one name, contested or not.                           *)

\* pull_objunit() is at the chain of n, or will come to it.
Walking(n) == phase = "pull" /\ walk.at # Nil /\ NameOf(walk.at) = n
Coming(n) == phase = "pull" /\ (n \in walk.todo \/ Walking(n))
Comer(n) == <<Pulled, n>>

\* The symbols of linked units, but for the one that is just pulled in.
Settled(n, t) == t \in OfName(n) /\ UnitOf(t) \in linked /\ ~(Coming(n) /\ t = Comer(n))
Solid(t) == Sym(t).type # "common"
Reached(n) == From(link, Bucket(n))
Rest == From(link, link[walk.at])

\* A walk for a symbol that is not a common one does not end in a circle.
Stuck(n) == Walking(n) /\ Solid(Comer(n)) /\ Nil \notin From(link, walk.at)

\* A proper definition stays in the table of its unit.
Whole(u, n) == Sym(<<u, n>>).type \in {"def", "indir"} /\ Sym(<<u, n>>).bind = "global"
Firm(n) == \A u \in Units : Whole(u, n) => <<u, n>> \in objsyms

\* A symbol only gets out of the chain when a linked one gets into it.
InUse(n) == \E x \in Reached(n) : x \in OfName(n) /\ UnitOf(x) \in linked
Held(n) == \A m \in Live(n) : m \in Reached(n) \/ InUse(n)

\* A weak symbol is alone.
Alone(n) == \A x \in Live(n) : Sym(x).bind = "weak" => Live(n) = {x} /\ link[Bucket(n)] = x

\* A linked definition is in the chain, and then no other linked symbol that could make
\* room is.  The label of the linker is in front.
Rules(n, t) ==
  t \in Reached(n) /\ \A x \in Live(n) \cap Reached(n) : (Settled(n, x) /\ x # Label) => x = t
OneSolid(n) == \A t \in Live(n) : (Settled(n, t) /\ Solid(t) /\ t # Label) => Rules(n, t)
LabelFirst(n) ==
  (INITEXIT \in linked /\ n = CtorLabel) =>
    link[Bucket(n)] = Label /\ (Walking(n) => walk.at = Bucket(n))

\* The walk comes to every linked symbol of the chain.
Arrives(n) == Coming(n) => Comer(n) \in Live(n) /\ Sym(Comer(n)).bind = "global"
MeetsAll(n) ==
  /\ \A x \in Reached(n) : Settled(n, x) => x \in Rest
  /\ \A y \in Reached(n) \ {walk.at} : link[y] \in Rest => y \in Rest
Walked(n) ==
  Walking(n) =>
    /\ n \notin walk.todo /\ walk.at \in Reached(n)
    /\ Solid(Comer(n)) => MeetsAll(n)
    /\ ~Solid(Comer(n)) => \A t \in Live(n) : (Settled(n, t) /\ Solid(t) /\ t # Label) => t \in Rest

Orderly(n) ==
  Firm(n) /\ Held(n) /\ Alone(n) /\ OneSolid(n) /\ LabelFirst(n) /\ Arrives(n) /\ Walked(n)
Fine(n) == <<19, n>> \in errors \/ Stuck(n) \/ Orderly(n)
Standing == walk.at \in Defs \cup Buckets \cup {Nil}
Rivals == Standing /\ (phase \notin {"load", "ierror"} => \A n \in Names : Fine(n))

\* The links of other names are changed, or none.
LEMMA SameReached ==
  ASSUME TypeInv, TypeInv', prog' = prog, NEW n \in Names,
         \A p \in OfName(n) \cup {Nil, Bucket(n)} : link'[p] = link[p]
  PROVE  /\ Reached(n)' = Reached(n)
         /\ \A a \in OfName(n) \cup {Nil, Bucket(n)} : From(link', a) = From(link, a)
<1>1. ASSUME NEW a \in OfName(n) \cup {Nil, Bucket(n)} PROVE From(link', a) = From(link, a)
  <2>1. /\ Links(link) /\ a \in Places
        /\ \A x \in From(link, a) : x = a \/ x \in OfName(n) \cup {Nil}
    BY FromName
  <2>2. Links(link')
    <3>1. Nil \in Places /\ Defs \subseteq Places /\ Defs' = Defs
      BY PlaceFacts, SymSame
    <3> QED
      BY <3>1 DEF TypeInv, Links, Places, Buckets, Syms, Nil
  <2>3. \A p \in From(link, a) : link'[p] = link[p]
    BY <2>1
  <2> QED
    BY <2>1, <2>2, <2>3, FromSame
<1>2. Reached(n)' = From(link', Bucket(n))
  BY DEF Reached, From, Bucket
<1> QED
  BY <1>1, <1>2 DEF Reached

LEMMA SameSettled ==
  ASSUME prog' = prog, NEW n,
         \A t \in OfName(n) : UnitOf(t) \in linked' <=> UnitOf(t) \in linked,
         Coming(n)' <=> Coming(n), Coming(n) => Pulled' = Pulled
  PROVE  \A t : Settled(n, t)' <=> Settled(n, t)
<1>1. OfName(n)' = OfName(n)
  BY SymSame
<1>2. Coming(n) => Comer(n)' = Comer(n)
  BY DEF Comer
<1>3. ASSUME NEW t \in OfName(n) PROVE Settled(n, t)' <=> Settled(n, t)
  BY <1>1, <1>2, <1>3 DEF Settled, UnitOf
<1> QED
  BY <1>1, <1>3 DEF Settled

LEMMA WalkingIs ==
  ASSUME TypeInv, Standing, NEW n \in Names, Walking(n)
  PROVE  /\ Coming(n) /\ walk.at \in OfName(n) \cup {Bucket(n)} /\ walk.at # Nil
         /\ link[walk.at] \in OfName(n) \cup {Nil}
<1>1. walk.at # Nil /\ NameOf(walk.at) = n /\ Coming(n)
  BY DEF Walking, Coming
<1>2. walk.at \in Buckets => walk.at = Bucket(n)
  BY <1>1, PlaceFacts DEF Buckets, Bucket, NameOf
<1>3. walk.at \in OfName(n) \cup {Bucket(n)}
  BY <1>1, <1>2 DEF Standing, OfName
<1>4. walk.at \in From(link, walk.at)
  BY <1>3, FromName, FromIs
<1> QED
  BY <1>1, <1>3, <1>4, FromName

\* A step that leaves a name alone.
LEMMA SameRivals ==
  ASSUME TypeInv, TypeInv', Standing, prog' = prog, NEW n \in Names,
         \A p \in OfName(n) \cup {Nil, Bucket(n)} : link'[p] = link[p],
         Live(n)' = Live(n), errors \subseteq errors',
         \A t \in OfName(n) : UnitOf(t) \in linked' <=> UnitOf(t) \in linked,
         n = CtorLabel => (INITEXIT \in linked' <=> INITEXIT \in linked),
         Coming(n)' <=> Coming(n), Coming(n) => Pulled' = Pulled,
         Walking(n)' <=> Walking(n), Walking(n) => walk'.at = walk.at /\ walk'.todo \subseteq walk.todo,
         Fine(n)
  PROVE  Fine(n)'
<1>1. /\ Reached(n)' = Reached(n)
      /\ \A a \in OfName(n) \cup {Nil, Bucket(n)} : From(link', a) = From(link, a)
  BY SameReached
<1>2. \A t : Settled(n, t)' <=> Settled(n, t)
  BY SameSettled
<1>3. /\ \A t : Sym(t)' = Sym(t) /\ (Solid(t)' <=> Solid(t))
      /\ \A u : Whole(u, n)' <=> Whole(u, n)
      /\ OfName(n)' = OfName(n)
  BY SymSame DEF Solid, Whole
<1>4. Coming(n) => Comer(n)' = Comer(n)
  BY DEF Comer
<1>5. Bucket(n)' = Bucket(n)
  BY DEF Bucket
<1>6. Walking(n) => /\ Coming(n) /\ walk.at \in OfName(n) \cup {Bucket(n)} /\ walk'.at = walk.at
                    /\ link[walk.at] \in OfName(n) \cup {Nil} /\ link'[walk.at] = link[walk.at]
  BY WalkingIs
<1>7. Walking(n) => From(link, walk.at)' = From(link, walk.at) /\ Rest' = Rest
  <2>1. From(link, walk.at)' = From(link', walk'.at) /\ Rest' = From(link', link'[walk'.at])
    BY DEF Rest, From, Places, Buckets, Syms
  <2> QED
    BY <1>1, <1>6, <2>1 DEF Rest
<1>8. Nil' = Nil
  OBVIOUS
<1>9. Stuck(n) => Stuck(n)'
  BY <1>3, <1>4, <1>6, <1>7 DEF Stuck
<1>10. ASSUME Orderly(n) PROVE Orderly(n)'
  <2>1. Firm(n)'
    <3>1. \A u : <<u, n>> \in objsyms => <<u, n>> \in Live(n)
      BY DEF Live, NameOf
    <3>2. \A u : <<u, n>> \in Live(n) => <<u, n>> \in objsyms'
      BY DEF Live
    <3>3. Units' = Units
      BY DEF Units
    <3> QED
      BY <1>3, <1>10, <3>1, <3>2, <3>3 DEF Orderly, Firm
  <2>2. Held(n)'
    <3>1. InUse(n)' <=> InUse(n)
      BY <1>1, <1>3 DEF InUse, UnitOf
    <3> QED
      BY <1>1, <1>10, <3>1 DEF Orderly, Held
  <2>3. Alone(n)'
    BY <1>3, <1>5, <1>10 DEF Orderly, Alone
  <2>4. OneSolid(n)'
    <3>1. \A t : Rules(n, t) => Rules(n, t)'
      BY <1>1, <1>2 DEF Rules
    <3> QED
      BY <1>2, <1>3, <1>10, <3>1 DEF Orderly, OneSolid
  <2>5. LabelFirst(n)'
    BY <1>5, <1>6, <1>10 DEF Orderly, LabelFirst
  <2>6. Arrives(n)'
    BY <1>3, <1>4, <1>10 DEF Orderly, Arrives
  <2>7. Walked(n)'
    <3> SUFFICES ASSUME Walking(n)
                 PROVE  (/\ n \notin walk.todo /\ walk.at \in Reached(n)
                         /\ Solid(Comer(n)) => MeetsAll(n)
                         /\ ~Solid(Comer(n)) =>
                              \A t \in Live(n) : (Settled(n, t) /\ Solid(t) /\ t # Label) => t \in Rest)'
      BY DEF Walked
    <3>1. MeetsAll(n) => MeetsAll(n)'
      <4>1. \A y \in Reached(n) : link'[y] = link[y]
        BY <1>1, FromName DEF Reached
      <4> QED
        BY <1>1, <1>2, <1>6, <1>7, <4>1 DEF MeetsAll
    <3> QED
      BY <1>1, <1>2, <1>3, <1>4, <1>6, <1>7, <1>10, <3>1 DEF Orderly, Walked
  <2> QED
    BY <2>1, <2>2, <2>3, <2>4, <2>5, <2>6, <2>7 DEF Orderly
<1>11. <<19, n>> \in errors => <<19, n>> \in errors'
  OBVIOUS
<1> QED
  BY <1>9, <1>10, <1>11 DEF Fine

\* While the files are read, the chains are whole.
Kept(u, n) == Whole(u, n) => <<u, n>> \in objsyms \/ (u = Files[loaded] /\ n \in unread)
Filed(n) == Live(n) \subseteq InChain(n) /\ (<<19, n>> \in errors \/ \A u \in Read : Kept(u, n))
AllFiled == phase = "load" => \A n \in Names : Filed(n)

LEMMA InChainReached ==
  ASSUME TypeInv, NEW n \in Names
  PROVE  InChain(n) \subseteq Reached(n)
<1> DEFINE S == {k \in Nat : k <= MaxChain => Chain(n)[k] \in Reached(n)}
<1>1. Links(link) /\ Bucket(n) \in Places
  BY FromName
<1>2. Bucket(n) \in Reached(n) /\ \A p \in Reached(n) : link[p] \in Reached(n)
  BY <1>1, FromIs DEF Reached
<1>3. 0 \in S
  BY <1>2, ChainIs
<1>4. ASSUME NEW k \in Nat, k \in S PROVE k + 1 \in S
  <2>1. k + 1 <= MaxChain => Chain(n)[k + 1] = link[Chain(n)[k]]
    <3>1. k + 1 <= MaxChain => k + 1 \in 1 .. MaxChain /\ (k + 1) - 1 = k
      BY MaxChainIs
    <3> QED
      BY <3>1, ChainIs
  <2>2. k + 1 <= MaxChain => k <= MaxChain
    BY MaxChainIs
  <2> QED
    BY <1>2, <1>4, <2>1, <2>2
<1>5. \A k \in Nat : k \in S
  <2> HIDE DEF S
  <2> QED
    BY <1>3, <1>4, SetInduction
<1>6. \A k \in 1 .. MaxChain : k \in Nat /\ k <= MaxChain
  BY MaxChainIs
<1> QED
  BY <1>5, <1>6 DEF InChain

\* A proper definition is not dropped without an error.
LEMMA WholeStays ==
  ASSUME NEW new \in Symbol, NEW old \in Symbol, NEW lib \in BOOLEAN
  PROVE  /\ Meets(new, lib, old) = "ignore" => ~(new.type \in {"def", "indir"} /\ new.bind = "global")
         /\ Meets(new, lib, old) = "replace" => ~(old.type \in {"def", "indir"} /\ old.bind = "global")
BY DEF Meets, EitherCommon, SupersedesCommon, Symbol

LEMMA LoadSymbolFiled ==
  ASSUME LinkerInv, AllFiled, LoadSymbol
  PROVE  AllFiled'
<1> USE DEF LinkerInv
<1>1. PICK n \in unread : \E s \in {<<Files[loaded], n>>} : \E v \in {Verdict(s)} : \E k :
           /\ n \in Names /\ s \in Proper /\ s \in Defs /\ s # Label /\ NameOf(s) = n /\ UnitOf(s) = Files[loaded]
           /\ SpokenAt(s, v, k) /\ s \notin objsyms \cup freed /\ link[s] = Nil
           /\ unread' = unread \ {n} /\ link' = addglobsym(s, v)
           /\ objsyms' = (IF Entered(v) THEN (objsyms \ Displaced(v)) \cup {s} ELSE objsyms)
           /\ freed' = freed \cup (IF Entered(v) THEN Displaced(v) ELSE {s})
           /\ errors' = errors \cup Redefined(s, v)
  BY LoadSymbolIs
<1>2. PICK s : \E v : \E k :
           /\ s = <<Files[loaded], n>>
           /\ n \in Names /\ s \in Defs /\ NameOf(s) = n /\ UnitOf(s) = Files[loaded]
           /\ SpokenAt(s, v, k) /\ s \notin objsyms /\ link[s] = Nil /\ link' = addglobsym(s, v)
           /\ unread' = unread \ {n} /\ errors' = errors \cup Redefined(s, v)
           /\ objsyms' = (IF Entered(v) THEN (objsyms \ Displaced(v)) \cup {s} ELSE objsyms)
  BY <1>1
<1>3. PICK v, k :
           /\ s = <<Files[loaded], n>>
           /\ n \in Names /\ s \in Defs /\ NameOf(s) = n /\ UnitOf(s) = Files[loaded]
           /\ SpokenAt(s, v, k) /\ s \notin objsyms /\ link[s] = Nil /\ link' = addglobsym(s, v)
           /\ unread' = unread \ {n} /\ errors' = errors \cup Redefined(s, v)
           /\ objsyms' = (IF Entered(v) THEN (objsyms \ Displaced(v)) \cup {s} ELSE objsyms)
  BY <1>2
<1>4. /\ phase = "load" /\ phase' = "load" /\ UNCHANGED <<prog, loaded>>
  BY DEF LoadSymbol
<1>5. Read' = Read
  BY <1>4 DEF Read
<1>6. /\ v.what \in {"append", "ignore", "error", "replace"} /\ Displaced(v) \subseteq OfName(n)
      /\ link'[Nil] = Nil /\ \A p \in Places : NameOf(p) # n => link'[p] = link[p]
  BY <1>3, VerdictPlace, AddType
<1>7. ASSUME NEW m \in Names, m # n PROVE Filed(m)'
  <2>1. \A t : NameOf(t) = m => (t \in objsyms' <=> t \in objsyms)
    BY <1>3, <1>6, <1>7 DEF OfName
  <2>2. Live(m)' = Live(m) /\ InChain(m)' = InChain(m)
    BY <1>6, <1>7, <2>1, OtherChain
  <2>3. \A u : Kept(u, m) => Kept(u, m)'
    <3>1. \A u : NameOf(<<u, m>>) = m
      BY DEF NameOf
    <3>2. \A u : Whole(u, m)' <=> Whole(u, m)
      BY <1>4, SymSame DEF Whole
    <3> QED
      BY <1>3, <1>4, <1>7, <2>1, <3>1, <3>2 DEF Kept
  <2>4. Filed(m) /\ errors \subseteq errors'
    BY <1>3, <1>4 DEF AllFiled
  <2> QED
    BY <1>5, <2>2, <2>3, <2>4 DEF Filed
<1>8. Filed(n)'
  <2>1. Filed(n) /\ ChainOk(n)
    BY <1>3, <1>4 DEF AllFiled, Chains, Stable
  <2>2. Live(n)' \subseteq InChain(n)'
    <3>1. /\ NameOf(s) = n /\ s \in Defs /\ ChainOk(NameOf(s)) /\ Live(NameOf(s)) \subseteq InChain(NameOf(s))
          /\ s \notin objsyms /\ link[s] = Nil /\ SpokenAt(s, v, k) /\ link' = addglobsym(s, v)
          /\ objsyms' = (IF Entered(v) THEN (objsyms \ Displaced(v)) \cup {s} ELSE objsyms)
      BY <1>3, <2>1 DEF Filed
    <3>2. Live(NameOf(s))' \subseteq InChain(NameOf(s))'
      <4>1. TypeInv
        OBVIOUS
      <4> HIDE DEF LinkerInv
      <4> QED
        BY <3>1, <4>1, EnterReach
    <3>3. Live(NameOf(s))' = Live(n)' /\ InChain(NameOf(s))' = InChain(n)'
      BY <3>1 DEF Live, InChain, Chain, NameOf
    <3> QED
      BY <3>2, <3>3
  <2>3. CASE v.what = "error"
    <3>1. <<19, n>> \in errors'
      BY <1>3, <2>3 DEF Redefined
    <3> QED
      BY <2>2, <3>1 DEF Filed
  <2>4. CASE v.what # "error" /\ \A u \in Read : Kept(u, n)
    <3> SUFFICES ASSUME NEW u \in Read, Whole(u, n) PROVE <<u, n>> \in objsyms'
      <4>1. \A u \in Read : Whole(u, n)' <=> Whole(u, n)
        BY <1>4, SymSame DEF Whole
      <4> QED
        BY <1>5, <2>2, <4>1 DEF Filed, Kept
    <3>1. <<u, n>> \in objsyms \/ <<u, n>> = s
      BY <1>3, <2>4 DEF Kept
    <3>2. v.what # "append" => /\ Sym(s) \in Symbol /\ Sym(link[v.at]) \in Symbol
                               /\ v.what = Meets(Sym(s), IsLib(UnitOf(s)), Sym(link[v.at]))
      <4>1. v.what # "append" => /\ link[v.at] \in OfName(n)
                                 /\ v.what = Meets(Sym(s), IsLib(UnitOf(s)), Sym(link[v.at]))
        BY <1>3, VerdictPlace
      <4> QED
        BY <1>3, <4>1, SymType DEF OfName
    <3>3. IsLib(UnitOf(s)) \in BOOLEAN
      BY DEF IsLib
    <3>4. /\ v.what = "ignore" => <<u, n>> # s
          /\ v.what = "replace" => <<u, n>> # link[v.at]
      BY <3>2, <3>3, WholeStays DEF Whole
    <3>5. <<u, n>> \notin Displaced(v)
      BY <3>4 DEF Displaced
    <3> QED
      BY <1>3, <1>6, <2>4, <3>1, <3>4, <3>5 DEF Entered
  <2>5. CASE <<19, n>> \in errors
    BY <1>3, <2>2, <2>5 DEF Filed
  <2> QED
    BY <2>1, <2>3, <2>4, <2>5 DEF Filed
<1> QED
  BY <1>7, <1>8 DEF AllFiled

LEMMA WholeDefined ==
  ASSUME NEW u \in Units, NEW n, Whole(u, n)
  PROVE  Defines(u, n)
<1>1. <<u, n>> # Label
  BY SymFacts DEF Label
<1> QED
  BY <1>1 DEF Whole, Sym, Defines, UnitOf, NameOf

LEMMA LoadUnitFiled ==
  ASSUME LinkerInv, AllFiled, LoadUnit
  PROVE  AllFiled'
<1> USE DEF LinkerInv
<1>1. /\ phase = "load" /\ unread = {} /\ UNCHANGED <<prog, phase, link, objsyms, errors>>
      /\ loaded < Len(Files) /\ loaded' = loaded + 1 /\ unread' = {n \in Names : Defines(Files[loaded + 1], n)}
  BY DEF LoadUnit
<1>2. PICK w \in Units : w = Files[loaded'] /\ Read' = Read \cup {w} /\ unread' = {n \in Names : Defines(w, n)}
  BY <1>1, NextUnit DEF Read
<1>3. ASSUME NEW n \in Names PROVE Filed(n)'
  <2>1. Filed(n)
    BY <1>1 DEF AllFiled
  <2>2. Live(n)' = Live(n) /\ InChain(n)' = InChain(n)
    BY <1>1, SameChains
  <2>3. \A u : Whole(u, n)' <=> Whole(u, n)
    BY <1>1, SymSame DEF Whole
  <2>4. \A u \in Read : Kept(u, n) => Kept(u, n)'
    BY <1>1, <2>3 DEF Kept
  <2>5. Kept(w, n)'
    <3>1. Whole(w, n) => n \in unread'
      BY <1>2, WholeDefined
    <3> QED
      BY <1>2, <2>3, <3>1 DEF Kept
  <2> QED
    BY <1>1, <1>2, <2>1, <2>2, <2>4, <2>5 DEF Filed
<1> QED
  BY <1>3 DEF AllFiled

\* In a chain that is as it was read, a weak symbol is alone and the symbol of an object is the first.
LEMMA FiledChain ==
  ASSUME TypeInv, NEW n \in Names, ChainOk(n), Live(n) \subseteq InChain(n)
  PROVE  /\ Alone(n) /\ Held(n)
         /\ \A s \in Live(n) : UnitOf(s) \notin Members => s = Chain(n)[1] /\ s \in Reached(n)
<1>1. InChain(n) \subseteq Reached(n)
  BY InChainReached
<1>2. ASSUME NEW x \in Live(n), Sym(x).bind = "weak" PROVE Live(n) = {x} /\ link[Bucket(n)] = x
  <2>1. x # Nil /\ \E k \in 1 .. MaxChain : x = Chain(n)[k]
    BY InChainIs
  <2>2. PICK k \in 1 .. MaxChain : x = Chain(n)[k]
    BY <2>1
  <2>3. link[x] = Nil
    BY <1>2 DEF ChainOk
  <2>4. k = 1
    <3> SUFFICES ASSUME k # 1 PROVE FALSE
      OBVIOUS
    <3>1. k - 1 \in 1 .. MaxChain /\ k - 1 \in 0 .. MaxChain /\ k \in 0 .. MaxChain /\ k - 1 < k
      BY MaxChainIs
    <3>2. Chain(n)[k] = link[Chain(n)[k - 1]]
      BY ChainIs
    <3>3. Chain(n)[k - 1] \in Live(n) \cup {Nil}
      BY <3>1, ChainEnds
    <3>4. link[Nil] = Nil
      BY DEF TypeInv
    <3>5. Sym(x).bind = "global"
      BY <2>1, <2>2, <3>2, <3>3, <3>4 DEF ChainOk
    <3> QED
      BY <1>2, <3>5
  <2>5. link[Bucket(n)] = x
    <3>1. 1 \in 1 .. MaxChain /\ 1 - 1 = 0
      BY MaxChainIs
    <3> QED
      BY <2>2, <2>4, <3>1, ChainIs
  <2>6. ASSUME NEW y \in Live(n) PROVE y = x
    <3>1. y # Nil /\ \E l \in 1 .. MaxChain : y = Chain(n)[l]
      BY InChainIs
    <3>2. PICK l \in 1 .. MaxChain : y = Chain(n)[l]
      BY <3>1
    <3>3. CASE l = 1
      BY <2>2, <2>4, <3>2, <3>3
    <3>4. CASE l # 1
      <4>1. 2 \in 1 .. MaxChain /\ 2 - 1 = 1 /\ 2 \in 0 .. MaxChain /\ l \in 0 .. MaxChain /\ 2 <= l
        BY <3>4, MaxChainIs
      <4>2. Chain(n)[2] = Nil
        BY <2>2, <2>3, <2>4, <4>1, ChainIs
      <4> QED
        BY <3>1, <3>2, <4>1, <4>2, NilStays
    <3> QED
      BY <3>3, <3>4
  <2> QED
    BY <2>5, <2>6
<1>3. Alone(n)
  BY <1>2 DEF Alone
<1>4. Held(n)
  BY <1>1 DEF Held
<1>5. \A s \in Live(n) : UnitOf(s) \notin Members => s = Chain(n)[1] /\ s \in Reached(n)
  BY <1>1, ObjectFirst
<1> QED
  BY <1>3, <1>4, <1>5

LEMMA LoadDoneRivals ==
  ASSUME LinkerInv, LinkerInv', AllFiled, Rivals, LoadDone
  PROVE  Rivals'
<1> USE DEF LinkerInv
<1>1. /\ phase = "load" /\ loaded = Len(Files) /\ unread = {}
      /\ phase' \in {"resolve", "done", "ierror"} /\ UNCHANGED <<prog, link, objsyms, walk, errors>>
      /\ linked' = linked \/ linked' = linked \cup {UNDEFSYMBOLS}
  BY DEF LoadDone
<1>2. INITEXIT \notin linked /\ linked \subseteq Objects
  BY <1>1, NothingBound
<1>3. \A u \in Units : u \in Read
  <2>1. \A u \in Units : \E i \in DOMAIN Files : Files[i] = u
    BY FilesAssumption DEF Range
  <2>2. DOMAIN Files = 1 .. loaded
    BY <1>1, FilesAssumption
  <2> QED
    BY <2>1, <2>2 DEF Read
<1>4. Standing'
  <2>1. Defs' = Defs
    BY <1>1, SymSame
  <2> QED
    BY <1>1, <2>1 DEF Rivals, Standing, Buckets, Nil
<1>5. \A n : ~Coming(n)' /\ ~Walking(n)' /\ ~Stuck(n)'
  BY <1>1 DEF Coming, Walking, Stuck
<1>6. ASSUME NEW n \in Names, <<19, n>> \notin errors PROVE Orderly(n)'
  <2>1. Live(n) \subseteq InChain(n) /\ \A u \in Read : Kept(u, n)
    BY <1>1, <1>6 DEF AllFiled, Filed
  <2>2. ChainOk(n)
    BY <1>1 DEF Chains, Stable
  <2>3. /\ Alone(n) /\ Held(n)
        /\ \A s \in Live(n) : UnitOf(s) \notin Members => s = Chain(n)[1] /\ s \in Reached(n)
    BY <2>1, <2>2, FiledChain
  <2>4. /\ Reached(n)' = Reached(n) /\ Live(n)' = Live(n) /\ Bucket(n)' = Bucket(n)
        /\ OfName(n)' = OfName(n) /\ \A t : Sym(t)' = Sym(t)
    BY <1>1, SymSame DEF Reached, From, Bucket, Live, NameOf, Places, Buckets, Syms, Units, Nil
  <2>5. Firm(n)'
    <3>1. Units' = Units
      BY DEF Units
    <3>2. \A u : Whole(u, n)' <=> Whole(u, n)
      BY <2>4 DEF Whole
    <3> QED
      BY <1>1, <1>3, <2>1, <3>1, <3>2 DEF Firm, Kept
  <2>6. Alone(n)'
    BY <1>1, <2>3, <2>4 DEF Alone
  <2>7. Held(n)'
    BY <1>1, <2>3, <2>4 DEF Held, InUse, UnitOf
  <2>8. \A t : (t \in Live(n) /\ Settled(n, t)') => UnitOf(t) \notin Members
    <3>1. UNDEFSYMBOLS \notin Members /\ Objects \cap Members = {}
      BY SymFacts, FilesAssumption DEF Units
    <3> QED
      BY <1>1, <1>2, <3>1 DEF Settled, UnitOf
  <2>9. OneSolid(n)'
    BY <2>3, <2>4, <2>8 DEF OneSolid, Rules
  <2>10. LabelFirst(n)'
    <3>1. INITEXIT \notin linked'
      BY <1>1, <1>2, SymFacts
    <3> QED
      BY <3>1 DEF LabelFirst, INITEXIT
  <2>11. Arrives(n)' /\ Walked(n)'
    BY <1>5 DEF Arrives, Walked
  <2> QED
    BY <2>5, <2>6, <2>7, <2>9, <2>10, <2>11 DEF Orderly
<1>7. \A n \in Names : Fine(n)'
  BY <1>1, <1>6 DEF Fine
<1> QED
  BY <1>4, <1>7 DEF Rivals

\* Where no unit is pulled in, no walk is in a chain.
LEMMA NotComing ==
  ASSUME phase # "pull" \/ (walk.todo = {} /\ walk.at = Nil)
  PROVE  \A n : ~Coming(n) /\ ~Walking(n) /\ ~Stuck(n)
BY DEF Coming, Walking, Stuck

LEMMA SameAllRivals ==
  ASSUME TypeInv, TypeInv', Rivals, UNCHANGED <<prog, link, objsyms, linked, walk>>, errors \subseteq errors',
         phase \notin {"load", "ierror"},
         \A n \in Names : /\ Coming(n)' <=> Coming(n)
                          /\ Walking(n)' <=> Walking(n)
                          /\ Coming(n) => Pulled' = Pulled
  PROVE  Rivals'
<1>1. Standing'
  <2>1. Defs' = Defs
    BY SymSame
  <2> QED
    BY <2>1 DEF Rivals, Standing, Buckets, Nil
<1>2. ASSUME NEW n \in Names PROVE Fine(n)'
  <2>1. Live(n)' = Live(n)
    BY DEF Live, NameOf
  <2>2. Fine(n) /\ Standing
    BY DEF Rivals
  <2> QED
    BY <2>1, <2>2, SameRivals
<1> QED
  BY <1>1, <1>2 DEF Rivals

LEMMA FollowIndirectRivals ==
  ASSUME LinkerInv, LinkerInv', Rivals, FollowIndirect
  PROVE  Rivals'
<1>1. /\ UNCHANGED <<prog, phase, link, objsyms, linked, walk, errors>> /\ phase = "resolve"
  BY DEF FollowIndirect, Answers, AtXref
<1>2. \A n \in Names : ~Coming(n) /\ ~Walking(n) /\ ~Coming(n)' /\ ~Walking(n)'
  BY <1>1 DEF Coming, Walking
<1> QED
  BY <1>1, <1>2, SameAllRivals DEF LinkerInv

LEMMA UndefinedXrefRivals ==
  ASSUME LinkerInv, LinkerInv', Rivals, UndefinedXref
  PROVE  Rivals'
<1>1. /\ UNCHANGED <<prog, phase, link, objsyms, linked, walk>> /\ errors \subseteq errors' /\ phase = "resolve"
  BY DEF UndefinedXref, Missing, Answers, AtXref
<1>2. \A n \in Names : ~Coming(n) /\ ~Walking(n) /\ ~Coming(n)' /\ ~Walking(n)'
  BY <1>1 DEF Coming, Walking
<1> QED
  BY <1>1, <1>2, SameAllRivals DEF LinkerInv

LEMMA PullDoneRivals ==
  ASSUME LinkerInv, LinkerInv', Rivals, PullDone
  PROVE  Rivals'
<1>1. /\ UNCHANGED <<prog, link, objsyms, linked, walk, errors>> /\ phase = "pull" /\ phase' = "resolve"
      /\ walk.todo = {} /\ walk.at = Nil
  BY DEF PullDone
<1>2. \A n \in Names : ~Coming(n) /\ ~Walking(n) /\ ~Coming(n)' /\ ~Walking(n)'
  BY <1>1 DEF Coming, Walking
<1> QED
  BY <1>1, <1>2, SameAllRivals DEF LinkerInv

\* A unit is pulled in: of its symbols, the weak ones are not looked at.
LEMMA PulledRivals ==
  ASSUME TypeInv, TypeInv', Rivals, UNCHANGED <<prog, link, objsyms, errors>>, phase = "resolve", phase' = "pull",
         NEW u \in Members, linked' = linked \cup {u}, Pulled' = u,
         walk' = [todo |-> {n \in Names : <<u, n>> \in objsyms /\ Sym(<<u, n>>).bind = "global"}, at |-> Nil]
  PROVE  Rivals'
<1>1. Standing'
  BY DEF Standing, Nil
<1>2. /\ \A n : ~Coming(n) /\ ~Walking(n) /\ ~Stuck(n)
      /\ \A n : ~Walking(n)'
  BY NotComing DEF Walking
<1>3. ASSUME NEW n \in Names, Orderly(n) PROVE Orderly(n)'
  <2>1. /\ Reached(n)' = Reached(n) /\ Live(n)' = Live(n) /\ Bucket(n)' = Bucket(n)
        /\ OfName(n)' = OfName(n) /\ \A t : Sym(t)' = Sym(t)
    BY SymSame DEF Reached, From, Bucket, Live, NameOf, Places, Buckets, Syms, Units, Nil
  <2>2. Coming(n)' <=> <<u, n>> \in Live(n) /\ Sym(<<u, n>>).bind = "global"
    BY <1>2 DEF Coming, Live, NameOf
  <2>3. Comer(n)' = <<u, n>>
    BY DEF Comer
  <2>4. ASSUME NEW t \in Live(n), Settled(n, t)', Sym(t).bind # "weak" PROVE Settled(n, t)
    <3>1. t \in OfName(n) /\ UnitOf(t) \in linked \cup {u} /\ ~(Coming(n)' /\ t = <<u, n>>)
      BY <2>1, <2>3, <2>4 DEF Settled, UnitOf
    <3>2. Sym(t).bind = "global" /\ t = <<UnitOf(t), n>>
      BY <2>4, <3>1, SymType, SymFacts DEF OfName
    <3>3. UnitOf(t) # u
      BY <2>2, <2>4, <3>1, <3>2
    <3> QED
      BY <1>2, <3>1, <3>3 DEF Settled
  <2>5. Firm(n)'
    BY <1>3, <2>1 DEF Orderly, Firm, Whole, Units
  <2>6. Held(n)'
    BY <1>3, <2>1 DEF Orderly, Held, InUse, UnitOf
  <2>7. Alone(n)'
    BY <1>3, <2>1 DEF Orderly, Alone
  <2>8. OneSolid(n)'
    <3>1. ASSUME NEW t \in Live(n), Settled(n, t)', Solid(t), t # Label PROVE Rules(n, t)'
      <4>1. CASE Sym(t).bind = "weak"
        <5>1. Live(n) = {t} /\ link[Bucket(n)] = t
          BY <1>3, <4>1 DEF Orderly, Alone
        <5>2. t \in Reached(n)
          BY <5>1, FromName, FromIs DEF Reached
        <5> QED
          BY <2>1, <5>1, <5>2 DEF Rules
      <4>2. CASE Sym(t).bind # "weak"
        <5>1. Settled(n, t)
          BY <2>4, <3>1, <4>2
        <5>2. Rules(n, t)
          BY <1>3, <3>1, <5>1 DEF Orderly, OneSolid
        <5>3. ASSUME NEW x \in Live(n) \cap Reached(n), Settled(n, x)', x # Label PROVE x = t
          <6>1. Sym(x).bind = "weak" => Live(n) = {x}
            BY <1>3 DEF Orderly, Alone
          <6>2. Sym(x).bind # "weak" => Settled(n, x)
            BY <2>4, <5>3
          <6> QED
            BY <5>2, <5>3, <6>1, <6>2 DEF Rules
        <5> QED
          BY <2>1, <5>2, <5>3 DEF Rules
      <4> QED
        BY <4>1, <4>2
    <3> QED
      BY <2>1, <3>1 DEF OneSolid, Solid
  <2>9. LabelFirst(n)'
    <3>1. INITEXIT \in linked' => INITEXIT \in linked
      BY SymFacts DEF Units
    <3> QED
      BY <1>2, <1>3, <2>1, <3>1 DEF Orderly, LabelFirst, INITEXIT, Label
  <2>10. Arrives(n)' /\ Walked(n)'
    BY <1>2, <2>1, <2>2, <2>3 DEF Arrives, Walked
  <2> QED
    BY <2>5, <2>6, <2>7, <2>8, <2>9, <2>10 DEF Orderly
<1>4. \A n \in Names : Fine(n)'
  <2>1. \A n \in Names : <<19, n>> \in errors \/ Orderly(n)
    BY <1>2 DEF Rivals, Fine
  <2> QED
    BY <1>3, <2>1 DEF Fine
<1> QED
  BY <1>1, <1>4 DEF Rivals

LEMMA ResolveXrefRivals ==
  ASSUME LinkerInv, LinkerInv', Rivals, ResolveXref
  PROVE  Rivals'
<1> USE DEF LinkerInv
<1>1. /\ UNCHANGED <<prog, link, objsyms, obj, xtors, xtorsDone, errors>> /\ AtXref /\ phase = "resolve"
  BY DEF ResolveXref, Answers, AtXref
<1>2. PICK s, u :
        /\ s = Resolved(Answer) /\ bound' = [bound EXCEPT ![Obj] = Append(@, s)] /\ u = UnitOf(s)
        /\ \/ /\ IsLib(u) /\ u \notin linked /\ phase' = "pull" /\ linked' = linked \cup {u}
              /\ selobjects' = InsertAt(selobjects, obj + 1, u)
              /\ walk' = [todo |-> {n \in Names : <<u, n>> \in objsyms /\ Sym(<<u, n>>).bind = "global"}, at |-> Nil]
           \/ UNCHANGED <<phase, linked, selobjects, walk>>
  <2>1. SUFFICES ASSUME NEW s, s = Resolved(Answer), NEW u, u = UnitOf(s)
                 PROVE  /\ bound' = [bound EXCEPT ![Obj] = Append(@, s)]
                        /\ \/ /\ IsLib(u) /\ u \notin linked /\ phase' = "pull" /\ linked' = linked \cup {u}
                              /\ selobjects' = InsertAt(selobjects, obj + 1, u)
                              /\ walk' =
                                   [todo |-> {n \in Names : <<u, n>> \in objsyms /\ Sym(<<u, n>>).bind = "global"},
                                    at |-> Nil]
                           \/ UNCHANGED <<phase, linked, selobjects, walk>>
    OBVIOUS
  <2> QED
    BY <2>1 DEF ResolveXref, Bind
<1>3. CASE UNCHANGED <<phase, linked, walk>>
  <2>1. \A n \in Names : ~Coming(n) /\ ~Walking(n) /\ ~Coming(n)' /\ ~Walking(n)'
    BY <1>1, <1>3 DEF Coming, Walking
  <2> QED
    BY <1>1, <1>3, <2>1, SameAllRivals
<1>4. CASE ~UNCHANGED <<phase, linked, walk>>
  <2>1. /\ u = UnitOf(s) /\ u \in Members /\ u \notin linked /\ phase' = "pull" /\ linked' = linked \cup {u}
        /\ selobjects' = InsertAt(selobjects, obj + 1, u)
        /\ walk' = [todo |-> {n \in Names : <<u, n>> \in objsyms /\ Sym(<<u, n>>).bind = "global"}, at |-> Nil]
    BY <1>2, <1>4 DEF IsLib
  <2>2. obj \in 1 .. Len(selobjects) /\ Obj \in Visitors /\ bound[Obj] \in Seq(Defs \cup LnkSyms \cup {Nil})
    BY <1>1, AtXrefIs
  <2>3. s \in Defs \cup LnkSyms \cup {Nil}
    <3>1. Wanted \in Names /\ Answer \in OfName(Wanted) \cup {Nil} /\ Xref \in Reference /\ Xref.name \in Names
      BY <1>1, AtXrefIs, ResolvedIs
    <3>2. findlnksymbol(Xref.name) \in LnkSyms \cup {Label, Nil}
      BY <3>1, FindLnkIs
    <3> QED
      BY <1>2, <3>1, <3>2, PlaceFacts DEF Resolved, OfName
  <2>4. Obj' = Obj /\ bound'[Obj] = Append(bound[Obj], s)
    <3>1. \E v \in Units \ linked : selobjects' = InsertAt(selobjects, obj + 1, v) /\ linked' = linked \cup {v}
      BY <2>1 DEF Units
    <3> QED
      BY <1>1, <1>2, <2>1, <2>3, <3>1, BindListed
  <2>5. Pulled' = u
    <3>1. Append(bound[Obj], s)[Len(Append(bound[Obj], s))] = s
      BY <2>2, <2>3, AppendIs
    <3>2. Pulled' = UnitOf(bound'[Obj'][Len(bound'[Obj'])])
      BY DEF Pulled, UnitOf
    <3> QED
      BY <2>1, <2>4, <3>1, <3>2
  <2> QED
    BY <1>1, <2>1, <2>5, PulledRivals
<1> QED
  BY <1>3, <1>4

LEMMA LinksAfter ==
  ASSUME TypeInv', prog' = prog
  PROVE  Links(link') /\ \A n : Reached(n)' = From(link', Bucket(n))
<1>1. Nil \in Places /\ Defs \subseteq Places /\ Defs' = Defs
  BY PlaceFacts, SymSame
<1>2. Links(link')
  BY <1>1 DEF TypeInv, Links, Places, Buckets, Syms, Nil
<1>3. \A n : Reached(n)' = From(link', Bucket(n))
  BY DEF Reached, From, Bucket, Places, Buckets, Syms
<1> QED
  BY <1>2, <1>3

\* The walk of a name begins.
LEMMA PullSymbolRivals ==
  ASSUME LinkerInv, LinkerInv', Rivals, PullSymbol
  PROVE  Rivals'
<1> USE DEF LinkerInv
<1>1. PICK m \in walk.todo : /\ phase = "pull" /\ walk.at = Nil
                             /\ walk' = [todo |-> walk.todo \ {m}, at |-> Bucket(m)]
                             /\ UNCHANGED <<prog, phase, link, objsyms, linked, selobjects, obj, bound, errors>>
  BY DEF PullSymbol
<1>2. m \in Names /\ Bucket(m) # Nil /\ NameOf(Bucket(m)) = m /\ Bucket(m) \notin Syms
  BY PlaceFacts DEF TypeInv
<1>3. Pulled' = Pulled
  BY <1>1 DEF Pulled, Obj, UnitOf
<1>4. Standing'
  BY <1>1, <1>2 DEF Standing, Buckets, Bucket, Nil
<1>5. /\ \A n : ~Walking(n)
      /\ \A n : Walking(n)' <=> n = m
      /\ \A n : Coming(n)' <=> Coming(n)
  BY <1>1, <1>2 DEF Walking, Coming, Nil, NameOf
<1>6. ASSUME NEW n \in Names, n # m PROVE Fine(n)'
  <2>1. Live(n)' = Live(n)
    BY <1>1 DEF Live, NameOf
  <2>2. Fine(n) /\ Standing
    BY <1>1 DEF Rivals
  <2> QED
    BY <1>1, <1>3, <1>5, <1>6, <2>1, <2>2, SameRivals
<1>7. ASSUME Orderly(m) PROVE Orderly(m)'
  <2>1. /\ \A a \in OfName(m) \cup {Nil, Bucket(m)} : From(link', a) = From(link, a)
        /\ Reached(m)' = Reached(m) /\ Live(m)' = Live(m)
        /\ OfName(m)' = OfName(m) /\ \A t : Sym(t)' = Sym(t)
    BY <1>1, <1>2, SameReached, SymSame DEF Live, NameOf
  <2>2. \A t : Settled(m, t)' <=> Settled(m, t)
    BY <1>1, <1>3, <1>5, SameSettled
  <2>3. Coming(m) /\ Comer(m)' = Comer(m)
    BY <1>1, <1>3 DEF Coming, Comer
  <2>4. Rest' = From(link, link[Bucket(m)])
    <3>1. Rest' = From(link', link'[walk'.at])
      BY DEF Rest, From, Places, Buckets, Syms
    <3>2. link[Bucket(m)] \in OfName(m) \cup {Nil}
      BY <1>2, FromName, FromIs
    <3> QED
      BY <1>1, <2>1, <3>1, <3>2
  <2>5. Reached(m) = {Bucket(m)} \cup From(link, link[Bucket(m)]) /\ Bucket(m) \in Reached(m)
    BY <1>2, FromName, FromStep DEF Reached
  <2>6. Bucket(m) \notin OfName(m)
    BY <1>2, PlaceFacts DEF OfName
  <2>7. Firm(m)' /\ Held(m)' /\ Alone(m)'
    <3>1. Units' = Units /\ Bucket(m)' = Bucket(m)
      BY DEF Units, Bucket
    <3>2. \A u : Whole(u, m)' <=> Whole(u, m)
      BY <2>1 DEF Whole
    <3> QED
      BY <1>1, <1>7, <2>1, <3>1, <3>2 DEF Orderly, Firm, Held, Alone, InUse, UnitOf
  <2>8. OneSolid(m)'
    <3>1. \A t : Rules(m, t) => Rules(m, t)'
      BY <2>1, <2>2 DEF Rules
    <3> QED
      BY <1>7, <2>1, <2>2, <3>1 DEF Orderly, OneSolid, Solid
  <2>9. LabelFirst(m)'
    BY <1>1, <1>5, <1>7 DEF Orderly, LabelFirst, Bucket, Label
  <2>10. Arrives(m)'
    BY <1>7, <2>1, <2>3 DEF Orderly, Arrives
  <2>11. Walked(m)'
    <3>1. m \notin walk'.todo /\ walk'.at = Bucket(m)
      BY <1>1
    <3>2. MeetsAll(m)'
      <4>1. \A x \in Reached(m) : Settled(m, x) => x \in From(link, link[Bucket(m)])
        BY <2>5, <2>6 DEF Settled
      <4> QED
        BY <2>1, <2>2, <2>4, <2>5, <3>1, <4>1 DEF MeetsAll
    <3>3. \A t \in Live(m) : (Settled(m, t) /\ Solid(t) /\ t # Label) => t \in From(link, link[Bucket(m)])
      <4>1. \A t \in Live(m) : (Settled(m, t) /\ Solid(t) /\ t # Label) => t \in Reached(m) /\ t \in OfName(m)
        BY <1>7 DEF Orderly, OneSolid, Rules, Settled
      <4> QED
        BY <2>5, <2>6, <4>1
    <3> QED
      BY <2>1, <2>2, <2>3, <2>4, <2>5, <3>1, <3>2, <3>3 DEF Walked, Solid
  <2> QED
    BY <2>7, <2>8, <2>9, <2>10, <2>11 DEF Orderly
<1>8. Fine(m)'
  <2>1. ~Stuck(m) /\ Fine(m)
    BY <1>1, <1>2, <1>5 DEF Stuck, Rivals
  <2> QED
    BY <1>1, <1>7, <2>1 DEF Fine
<1> QED
  BY <1>4, <1>6, <1>8 DEF Rivals

\* The label of the linker comes to the front of its chain.
LEMMA LabelRivals ==
  ASSUME LinkerInv, LinkerInv', Rivals, phase = "resolve", phase' # "pull", UNCHANGED <<prog, walk>>,
         NEW v, NEW k, SpokenAt(Label, v, k), INITEXIT \notin linked, linked' = linked \cup {INITEXIT},
         link' = addglobsym(Label, v), objsyms' = (objsyms \ Displaced(v)) \cup {Label},
         errors' = errors \cup Redefined(Label, v)
  PROVE  Rivals'
<1> USE DEF LinkerInv
<1> DEFINE c == CtorLabel
           b == Bucket(c)
           g == link[b]
<1>1. /\ Label \in Defs /\ c \in Names /\ NameOf(Label) = c /\ UnitOf(Label) = INITEXIT /\ Label \in Places
      /\ INITEXIT \notin Members /\ b \in Places /\ b # Label /\ b # Nil /\ Label # Nil /\ Label \in OfName(c)
      /\ b \notin OfName(c)
  BY PlaceFacts, SymFacts DEF Units, OfName
<1>2. /\ v.at = b /\ v.what \in {"append", "ignore", "error", "replace"}
      /\ v.what = "append" => g = Nil
      /\ v.what # "append" => g \in OfName(c) /\ v.what = Meets(Sym(Label), IsLib(UnitOf(Label)), Sym(g))
      /\ Displaced(v) \subseteq OfName(c)
      /\ link'[Nil] = Nil /\ \A p \in Places : NameOf(p) # c => link'[p] = link[p]
  BY <1>1, VerdictPlace, AddType
<1>3. Label \notin objsyms /\ link[Label] = Nil /\ \A p \in Places : link[p] # Label
  BY DEF Chains
<1>4. /\ \A n : ~Coming(n) /\ ~Walking(n) /\ ~Stuck(n)
      /\ \A n : ~Coming(n)' /\ ~Walking(n)'
  BY NotComing DEF Coming, Walking
<1>5. Standing'
  <2>1. Defs' = Defs
    BY SymSame
  <2> QED
    BY <2>1 DEF Rivals, Standing, Buckets, Nil
<1>6. \A t \in Defs : t # Label => (UnitOf(t) \in linked' <=> UnitOf(t) \in linked)
  BY SymFacts
<1>7. Standing /\ \A n \in Names : Fine(n)
  BY DEF Rivals
<1>8. ASSUME NEW n \in Names, n # c PROVE Fine(n)'
  <2>1. \A p \in OfName(n) \cup {Nil, Bucket(n)} : link'[p] = link[p]
    <3>1. \A p \in OfName(n) \cup {Bucket(n)} : p \in Places /\ NameOf(p) = n
      BY PlaceFacts DEF OfName
    <3>2. link[Nil] = Nil
      BY DEF TypeInv
    <3> QED
      BY <1>2, <1>8, <3>1, <3>2
  <2>2. Live(n)' = Live(n)
    BY <1>1, <1>2, <1>8 DEF Live, OfName, NameOf
  <2>3. \A t \in OfName(n) : UnitOf(t) \in linked' <=> UnitOf(t) \in linked
    BY <1>1, <1>6, <1>8 DEF OfName
  <2> QED
    BY <1>4, <1>7, <1>8, <2>1, <2>2, <2>3, SameRivals
<1>9. ASSUME Orderly(c), v.what # "error" PROVE Orderly(c)'
  <2>1. Sym(Label) \in Symbol /\ IsLib(UnitOf(Label)) = FALSE /\ Sym(Label).type = "def" /\ Sym(Label).bind = "global"
    BY <1>1, SymType DEF Sym, IsLib
  <2>2. /\ v.what \in {"append", "replace"}
        /\ v.what = "replace" => ~(Sym(g).type \in {"def", "indir"} /\ Sym(g).bind = "global")
    <3>1. v.what # "append" => Sym(g) \in Symbol
      BY <1>2, SymType DEF OfName
    <3> QED
      BY <1>2, <1>9, <2>1, <3>1, WholeStays
  <2>3. /\ link'[b] = Label /\ \A p \in Places \ {b, Label} : link'[p] = link[p]
        /\ link'[Label] = link[g]
    <3>1. v.what = "append" => link[g] = Nil
      BY <1>2 DEF TypeInv
    <3> QED
      BY <1>1, <1>2, <1>3, <2>2, <3>1, AddIs
  <2>4. objsyms' = (objsyms \ {g}) \cup {Label}
    <3>1. v.what = "append" => Displaced(v) = {} /\ g \notin objsyms
      <4>1. Nil \notin objsyms
        BY PlaceFacts DEF TypeInv
      <4> QED
        BY <1>2, <4>1 DEF Displaced
    <3>2. v.what = "replace" => Displaced(v) = {g}
      BY <1>2 DEF Displaced
    <3> QED
      BY <2>2, <3>1, <3>2
  <2>5. /\ Links(link) /\ Links(link') /\ g \in OfName(c) \cup {Nil} /\ link[g] \in OfName(c) \cup {Nil}
        /\ g \in Places /\ link[g] \in Places /\ Reached(c)' = From(link', b)
    <3>1. /\ Links(link) /\ \A x \in From(link, b) : link[x] \in OfName(c) \cup {Nil}
      BY <1>1, FromName
    <3>2. b \in From(link, b) /\ g \in From(link, b)
      BY <1>1, <3>1, FromIs
    <3> QED
      BY <1>1, <3>1, <3>2, LinksAfter DEF Links
  <2>6. From(link', link[g]) = From(link, link[g])
    <3>1. ASSUME NEW p \in From(link, link[g]) PROVE p \in Places \ {b, Label}
      <4>1. p \in Places /\ p \in OfName(c) \cup {Nil}
        BY <1>1, <2>5, FromName, FromIs
      <4>2. Label \notin From(link, link[g])
        <5> DEFINE C == Places \ {Label}
        <5>1. C \in SUBSET Places /\ link[g] \in C /\ \A q \in C : link[q] \in C
          BY <1>3, <2>5 DEF Links
        <5> HIDE DEF C
        <5>2. From(link, link[g]) \subseteq C
          BY <2>5, <5>1, FromIs
        <5> QED
          BY <5>2 DEF C
      <4> QED
        BY <1>1, <3>1, <4>1, <4>2
    <3> HIDE DEF b, g
    <3> QED
      BY <2>3, <2>5, <3>1, FromSame
  <2>7. Reached(c)' = {b, Label} \cup From(link, link[g]) /\ Reached(c) = {b, g} \cup From(link, link[g])
    <3>1. From(link', b) = {b} \cup From(link', Label) /\ From(link', Label) = {Label} \cup From(link', link[g])
      BY <1>1, <2>3, <2>5, FromStep
    <3>2. From(link, b) = {b} \cup From(link, g) /\ From(link, g) = {g} \cup From(link, link[g])
      BY <1>1, <2>5, FromStep
    <3> QED
      BY <2>5, <2>6, <3>1, <3>2 DEF Reached
  <2>8. /\ Bucket(c)' = b /\ OfName(c)' = OfName(c) /\ \A t : Sym(t)' = Sym(t)
        /\ Live(c)' = (Live(c) \ {g}) \cup {Label}
    BY <1>1, <2>4, SymSame DEF Bucket, Live, NameOf
  <2>9. \A t : t # Label => (Settled(c, t)' <=> Settled(c, t))
    BY <1>4, <1>6, <2>8 DEF Settled, UnitOf, OfName
  <2> HIDE DEF b, g
  <2>10. Firm(c)'
    <3>1. Units' = Units
      BY DEF Units
    <3>2. \A u : Whole(u, c)' <=> Whole(u, c)
      BY <2>8 DEF Whole
    <3>3. ASSUME NEW u \in Units, Whole(u, c) PROVE <<u, c>> # g
      <4>1. <<u, c>> = g => v.what = "replace"
        <5>1. <<u, c>> # Nil
          BY SymFacts DEF Nil, UnitOf
        <5> QED
          BY <1>2, <2>2, <5>1 DEF b, g
      <4> QED
        BY <2>2, <3>3, <4>1 DEF Whole, b, g
    <3> QED
      BY <1>9, <2>4, <3>1, <3>2, <3>3 DEF Orderly, Firm
  <2>11. Held(c)'
    <3>1. Label \in Reached(c)' /\ Label \in OfName(c)' /\ UnitOf(Label) \in linked'
      BY <1>1, <2>7, <2>8
    <3>2. InUse(c)'
      BY <3>1 DEF InUse, UnitOf, Label
    <3> QED
      BY <3>2 DEF Held
  <2>12. Alone(c)'
    <3>1. \A x \in Live(c) \ {g} : Sym(x).bind # "weak"
      BY <1>9 DEF Orderly, Alone, b, g
    <3> QED
      BY <2>1, <2>8, <3>1 DEF Alone
  <2>13. OneSolid(c)'
    <3>1. ASSUME NEW t \in Live(c)', Settled(c, t)', Solid(t), t # Label PROVE Rules(c, t)'
      <4>1. t \in Live(c) /\ t # g /\ Settled(c, t)
        BY <2>8, <2>9, <3>1
      <4>2. Rules(c, t)
        BY <1>9, <3>1, <4>1 DEF Orderly, OneSolid
      <4>3. t # b
        BY <1>1, <4>1 DEF Settled
      <4>4. t \in Reached(c)'
        BY <2>7, <4>1, <4>2, <4>3 DEF Rules
      <4>5. \A x \in Live(c)' \cap Reached(c)' : (Settled(c, x)' /\ x # Label) => x = t
        BY <2>7, <2>8, <2>9, <4>2 DEF Rules
      <4> QED
        BY <4>4, <4>5 DEF Rules, Label
    <3> QED
      BY <2>8, <3>1 DEF OneSolid, Solid, Label
  <2>14. LabelFirst(c)' /\ Arrives(c)' /\ Walked(c)'
    BY <1>4, <2>3, <2>8 DEF LabelFirst, Arrives, Walked, Label
  <2> QED
    BY <2>10, <2>11, <2>12, <2>13, <2>14 DEF Orderly
<1>10. Fine(c)'
  <2>1. v.what = "error" => <<19, c>> \in errors'
    BY <1>1 DEF Redefined
  <2> QED
    BY <1>1, <1>4, <1>7, <1>9, <2>1 DEF Fine
<1> QED
  BY <1>5, <1>8, <1>10 DEF Rivals

LEMMA NextObjectRivals ==
  ASSUME LinkerInv, LinkerInv', Rivals, NextObject
  PROVE  Rivals'
<1> USE DEF LinkerInv
<1>1. /\ UNCHANGED <<prog, walk>> /\ phase = "resolve" /\ phase' \in {"resolve", "done"}
      /\ \/ UNCHANGED <<link, objsyms, linked, errors>>
         \/ \E v, k : /\ SpokenAt(Label, v, k) /\ INITEXIT \notin linked /\ linked' = linked \cup {INITEXIT}
                      /\ link' = addglobsym(Label, v) /\ objsyms' = (objsyms \ Displaced(v)) \cup {Label}
                      /\ errors' = errors \cup Redefined(Label, v)
  BY NextObjectIs
<1>2. CASE UNCHANGED <<link, objsyms, linked, errors>>
  <2>1. \A n \in Names : ~Coming(n) /\ ~Walking(n) /\ ~Coming(n)' /\ ~Walking(n)'
    BY <1>1 DEF Coming, Walking
  <2> QED
    BY <1>1, <1>2, <2>1, SameAllRivals
<1>3. CASE \E v, k : /\ SpokenAt(Label, v, k) /\ INITEXIT \notin linked /\ linked' = linked \cup {INITEXIT}
                     /\ link' = addglobsym(Label, v) /\ objsyms' = (objsyms \ Displaced(v)) \cup {Label}
                     /\ errors' = errors \cup Redefined(Label, v)
  BY <1>1, <1>3, LabelRivals
<1> QED
  BY <1>1, <1>2, <1>3

\* One round of pull_objunit() on the chain of n, for the symbol s it brings and the next symbol g.
Round(n, s, g) ==
  /\ Walking(n) /\ s = Comer(n) /\ s \in OfName(n) /\ UnitOf(s) \in linked /\ s # Label
  /\ g = link[walk.at] /\ g \in OfName(n) \cup {Nil}
  /\ UNCHANGED <<prog, linked>> /\ Pulled' = Pulled /\ walk'.todo = walk.todo

LEMMA RoundIs ==
  ASSUME TypeInv, TypeInv', Standing, NEW n \in Names, NEW s, NEW g, Round(n, s, g)
  PROVE  /\ Coming(n) /\ walk.at # Nil /\ walk.at \in Places /\ walk.at \in OfName(n) \cup {Bucket(n)}
         /\ Links(link) /\ Links(link') /\ Reached(n)' = From(link', Bucket(n))
         /\ s \in Places /\ s # Nil /\ s # Bucket(n) /\ g \in Places /\ Bucket(n) \in Places /\ Bucket(n) # Nil
         /\ From(link, walk.at) = {walk.at} \cup From(link, g) /\ Rest = From(link, g)
         /\ From(link, g) = {g} \cup From(link, link[g]) /\ link[g] \in OfName(n) \cup {Nil} /\ link[g] \in Places
         /\ OfName(n)' = OfName(n) /\ Bucket(n)' = Bucket(n) /\ \A t : Sym(t)' = Sym(t) /\ (Solid(t)' <=> Solid(t))
         /\ \A u : Whole(u, n)' <=> Whole(u, n)
         /\ ~Settled(n, s) /\ \A t \in OfName(n) : (UnitOf(t) \in linked /\ t # s) => Settled(n, t)
         /\ phase = "pull" /\ NameOf(walk.at) = n
<1>1. /\ Coming(n) /\ walk.at # Nil /\ walk.at \in OfName(n) \cup {Bucket(n)} /\ phase = "pull" /\ NameOf(walk.at) = n
  BY WalkingIs DEF Round, Walking
<1>2. OfName(n) \subseteq Places /\ OfName(n) \subseteq Syms
  BY PlaceFacts DEF OfName
<1>3. /\ Bucket(n) \in Places /\ Bucket(n) # Nil /\ Bucket(n) \notin Syms /\ Nil \in Places /\ Nil \notin Syms
  BY PlaceFacts
<1>4. /\ Links(link) /\ Links(link') /\ Reached(n)' = From(link', Bucket(n))
  BY FromName, LinksAfter DEF Round
<1>5. /\ s \in Places /\ s # Nil /\ s # Bucket(n) /\ g \in Places /\ walk.at \in Places
  BY <1>1, <1>2, <1>3 DEF Round
<1>6. link[g] \in OfName(n) \cup {Nil} /\ link[g] \in Places
  <2>1. g \in From(link, g)
    BY <1>4, <1>5, FromIs
  <2> QED
    BY <1>2, <1>3, <2>1, FromName DEF Round
<1>7. /\ From(link, walk.at) = {walk.at} \cup From(link, g) /\ Rest = From(link, g)
      /\ From(link, g) = {g} \cup From(link, link[g])
  BY <1>4, <1>5, FromStep DEF Round, Rest
<1>8. /\ OfName(n)' = OfName(n) /\ Bucket(n)' = Bucket(n) /\ \A t : Sym(t)' = Sym(t) /\ (Solid(t)' <=> Solid(t))
      /\ \A u : Whole(u, n)' <=> Whole(u, n)
  BY SymSame DEF Round, Bucket, Solid, Whole
<1>9. /\ ~Settled(n, s) /\ \A t \in OfName(n) : (UnitOf(t) \in linked /\ t # s) => Settled(n, t)
  BY <1>1 DEF Round, Settled
<1> QED
  BY <1>1, <1>3, <1>4, <1>5, <1>6, <1>7, <1>8, <1>9

\* Where the walk goes on in the chain it is of the same name; else it is over.
LEMMA RoundNext ==
  ASSUME TypeInv, TypeInv', Standing, NEW n \in Names, NEW s, NEW g, Round(n, s, g)
  PROVE  /\ (phase' = phase /\ walk'.at \in OfName(n)) =>
              Walking(n)' /\ Coming(n)' /\ Comer(n)' = s /\ \A t : Settled(n, t)' <=> Settled(n, t)
         /\ (walk'.at = Nil /\ n \notin walk.todo) =>
              /\ ~Walking(n)' /\ ~Coming(n)'
              /\ \A t : Settled(n, t)' <=> Settled(n, t) \/ t = s
<1>1. Coming(n) /\ phase = "pull" /\ OfName(n)' = OfName(n)
  BY RoundIs
<1>2. Comer(n)' = s
  BY DEF Comer, Round
<1>3. ASSUME phase' = phase, walk'.at \in OfName(n)
      PROVE  Walking(n)' /\ Coming(n)' /\ \A t : Settled(n, t)' <=> Settled(n, t)
  <2>1. walk'.at # Nil /\ NameOf(walk'.at) = n
    BY <1>3, PlaceFacts DEF OfName
  <2>2. Walking(n)' /\ Coming(n)'
    BY <1>1, <1>3, <2>1 DEF Walking, Coming, NameOf, Nil
  <2> QED
    BY <1>1, <2>2, SameSettled DEF Round
<1>4. ASSUME walk'.at = Nil, n \notin walk.todo
      PROVE  /\ ~Walking(n)' /\ ~Coming(n)'
             /\ \A t : Settled(n, t)' <=> Settled(n, t) \/ t = s
  <2>1. ~Walking(n)' /\ ~Coming(n)'
    BY <1>4 DEF Walking, Coming, Nil, Round
  <2>2. \A t : Settled(n, t)' <=> t \in OfName(n) /\ UnitOf(t) \in linked
    BY <1>1, <2>1 DEF Settled, Round, UnitOf
  <2> QED
    BY <1>1, <2>1, <2>2 DEF Settled, Round
<1> QED
  BY <1>2, <1>3, <1>4

LEMMA RelinkedIs ==
  ASSUME NEW l \in [Places -> Defs \cup {Nil}], NEW s \in Places, NEW g, NEW a \in Places
  PROVE  /\ Relinked(l, s, g, a)[a] = s
         /\ s # a => Relinked(l, s, g, a)[s] = l[g]
         /\ \A p \in Places \ {s, a} : Relinked(l, s, g, a)[p] = l[p]
BY DEF Relinked

\* The walk does not get out of a circle; it ends in an error.
LEMMA RoundStuck ==
  ASSUME TypeInv, TypeInv', Standing, NEW n \in Names, NEW s, NEW g, Round(n, s, g), Stuck(n), phase' = phase,
         \/ walk'.at = g /\ link' = link
         \/ walk'.at = s /\ link' = Relinked(link, s, g, walk.at)
  PROVE  g # Nil /\ Stuck(n)'
<1> DEFINE a == walk.at
<1>1. /\ a \in Places /\ Links(link) /\ Links(link') /\ s \in Places /\ g \in Places /\ s # Nil
      /\ From(link, a) = {a} \cup From(link, g) /\ From(link, g) = {g} \cup From(link, link[g])
      /\ \A t : Solid(t)' <=> Solid(t)
  BY RoundIs
<1>2. Solid(s) /\ Nil \notin From(link, a)
  BY DEF Stuck, Round
<1>3. g # Nil
  BY <1>1, <1>2
<1>4. Walking(n)' /\ Comer(n)' = s
  <2>1. walk'.at \in OfName(n)
    BY <1>3 DEF Round
  <2> QED
    BY <2>1, RoundNext
<1>5. Nil \notin From(link', walk'.at)
  <2>1. CASE walk'.at = g /\ link' = link
    BY <1>1, <1>2, <2>1
  <2>2. CASE walk'.at = s /\ link' = Relinked(link, s, g, walk.at)
    <3>1. link'[a] = s /\ (s # a => link'[s] = link[g]) /\ \A p \in Places \ {s, a} : link'[p] = link[p]
      <4>1. link \in [Places -> Defs \cup {Nil}]
        BY DEF TypeInv
      <4> HIDE DEF a
      <4>2. /\ Relinked(link, s, g, a)[a] = s
            /\ s # a => Relinked(link, s, g, a)[s] = link[g]
            /\ \A p \in Places \ {s, a} : Relinked(link, s, g, a)[p] = link[p]
        BY <1>1, <4>1, RelinkedIs
      <4> QED
        BY <2>2, <4>2 DEF a
    <3> DEFINE C == From(link, a) \cup {s}
    <3>2. \A q \in From(link, a) : link[q] \in From(link, a) /\ q \in Places
      BY <1>1, FromIs
    <3>3. link[g] \in From(link, a)
      BY <1>1, <3>2
    <3>4. C \in SUBSET Places /\ s \in C /\ \A q \in C : link'[q] \in C
      BY <1>1, <3>1, <3>2, <3>3
    <3>5. Nil \notin C
      BY <1>1, <1>2
    <3> HIDE DEF C
    <3>6. From(link', s) \subseteq C
      BY <1>1, <3>4, FromIs
    <3> QED
      BY <2>2, <3>5, <3>6
  <2> QED
    BY <2>1, <2>2
<1>6. From(link, walk.at)' = From(link', walk'.at)
  BY DEF From, Places, Buckets, Syms
<1> QED
  BY <1>1, <1>2, <1>3, <1>4, <1>5, <1>6 DEF Stuck, Nil

\* The walk is at the end of the chain.
LEMMA RoundEnd ==
  ASSUME TypeInv, TypeInv', Standing, NEW n \in Names, NEW s, NEW g, Round(n, s, g), Orderly(n),
         g = Nil, walk'.at = Nil, UNCHANGED <<link, objsyms>>
  PROVE  Orderly(n)'
<1>1. /\ Coming(n) /\ Rest = From(link, g) /\ Links(link)
      /\ OfName(n)' = OfName(n) /\ Bucket(n)' = Bucket(n) /\ \A t : Sym(t)' = Sym(t) /\ (Solid(t)' <=> Solid(t))
      /\ \A u : Whole(u, n)' <=> Whole(u, n)
      /\ ~Settled(n, s) /\ \A t \in OfName(n) : (UnitOf(t) \in linked /\ t # s) => Settled(n, t)
  BY RoundIs
<1>2. Rest = {Nil} /\ \A t \in OfName(n) : t \notin Rest
  <2>1. Rest = {Nil}
    BY <1>1, FromNil
  <2> QED
    BY <2>1, PlaceFacts DEF OfName
<1>3. /\ Walking(n) /\ s = Comer(n) /\ n \notin walk.todo
      /\ Solid(s) => MeetsAll(n)
      /\ ~Solid(s) => \A t \in Live(n) : (Settled(n, t) /\ Solid(t) /\ t # Label) => t \in Rest
      /\ s \in Live(n)
  BY <1>1 DEF Orderly, Walked, Arrives, Round
<1>4. /\ ~Walking(n)' /\ ~Coming(n)'
      /\ \A t : Settled(n, t)' <=> Settled(n, t) \/ t = s
  BY <1>3, RoundNext
<1>5. Reached(n)' = Reached(n) /\ Live(n)' = Live(n) /\ Units' = Units
  BY <1>1, LinksAfter DEF Reached, Live, NameOf, Round, Units
<1>6. Firm(n)' /\ Held(n)' /\ Alone(n)'
  BY <1>1, <1>5 DEF Orderly, Firm, Held, Alone, InUse, UnitOf, Round
<1>7. OneSolid(n)'
  <2>1. ASSUME NEW t \in Live(n), Settled(n, t)', Solid(t), t # Label PROVE Rules(n, t)'
    <3>1. \A x : Settled(n, x) => x \in OfName(n)
      BY DEF Settled
    <3>2. Solid(s)
      BY <1>2, <1>3, <1>4, <2>1, <3>1
    <3>3. \A x \in Reached(n) : ~Settled(n, x)
      BY <1>2, <1>3, <3>1, <3>2 DEF MeetsAll
    <3>4. t = s
      <4>1. Settled(n, t) => t \in Reached(n)
        BY <2>1 DEF Orderly, OneSolid, Rules
      <4> QED
        BY <1>4, <2>1, <3>3, <4>1
    <3>5. s \in Reached(n)
      <4>1. \A x \in Reached(n) : (x \in OfName(n) /\ UnitOf(x) \in linked) => x = s
        BY <1>1, <3>3
      <4> QED
        BY <1>3, <4>1 DEF Orderly, Held, InUse
    <3> QED
      BY <1>4, <1>5, <3>3, <3>4, <3>5 DEF Rules
  <2> QED
    BY <1>1, <1>5, <2>1 DEF OneSolid
<1>8. LabelFirst(n)'
  BY <1>1, <1>4 DEF Orderly, LabelFirst, Round
<1>9. Arrives(n)' /\ Walked(n)'
  BY <1>4 DEF Arrives, Walked
<1> QED
  BY <1>6, <1>7, <1>8, <1>9 DEF Orderly

\* The walk goes past a symbol that is not linked, or is its own.
LEMMA RoundPast ==
  ASSUME TypeInv, TypeInv', Standing, NEW n \in Names, NEW s, NEW g, Round(n, s, g), Orderly(n), ~Stuck(n)',
         g # Nil, g = s \/ UnitOf(g) \notin linked, walk'.at = g, UNCHANGED <<phase, link, objsyms>>
  PROVE  Orderly(n)'
<1>1. /\ Coming(n) /\ walk.at \in Places /\ Rest = From(link, g) /\ Links(link) /\ g \in Places
      /\ From(link, g) = {g} \cup From(link, link[g]) /\ link[g] \in Places /\ Bucket(n) \in Places
      /\ OfName(n)' = OfName(n) /\ Bucket(n)' = Bucket(n) /\ \A t : Sym(t)' = Sym(t) /\ (Solid(t)' <=> Solid(t))
      /\ \A u : Whole(u, n)' <=> Whole(u, n)
      /\ ~Settled(n, s)
  BY RoundIs
<1>2. /\ Walking(n) /\ s = Comer(n) /\ n \notin walk.todo /\ walk.at \in Reached(n)
      /\ Solid(s) => MeetsAll(n)
      /\ ~Solid(s) => \A t \in Live(n) : (Settled(n, t) /\ Solid(t) /\ t # Label) => t \in Rest
  BY DEF Orderly, Walked, Round
<1>3. Walking(n)' /\ Coming(n)' /\ Comer(n)' = s /\ \A t : Settled(n, t)' <=> Settled(n, t)
  BY RoundNext DEF Round
<1>4. ~Settled(n, g)
  BY <1>1 DEF Settled
<1>5. Reached(n)' = Reached(n) /\ Live(n)' = Live(n) /\ Units' = Units
  BY <1>1, LinksAfter DEF Reached, Live, NameOf, Round, Units
<1>6. Rest' = From(link, link[g]) /\ From(link, walk.at)' = From(link, g)
  BY DEF Rest, From, Places, Buckets, Syms
<1>7. Firm(n)' /\ Held(n)' /\ Alone(n)'
  BY <1>1, <1>5 DEF Orderly, Firm, Held, Alone, InUse, UnitOf, Round
<1>8. OneSolid(n)'
  <2>1. \A t : Rules(n, t) => Rules(n, t)'
    BY <1>3, <1>5 DEF Rules
  <2> QED
    BY <1>1, <1>3, <1>5, <2>1 DEF Orderly, OneSolid
<1>9. LabelFirst(n)'
  <2>1. ~(INITEXIT \in linked /\ n = CtorLabel)
    <3> SUFFICES ASSUME INITEXIT \in linked, n = CtorLabel PROVE FALSE
      OBVIOUS
    <3>1. g = Label
      BY <1>2 DEF Orderly, LabelFirst, Round
    <3> QED
      BY <3>1, PlaceFacts DEF Round
  <2> QED
    BY <2>1 DEF LabelFirst, Round, INITEXIT
<1>10. Arrives(n)'
  BY <1>1, <1>2, <1>3, <1>5 DEF Orderly, Arrives
<1>11. Walked(n)'
  <2>1. g \in Reached(n)
    BY <1>1, <1>2, FromIs DEF Reached, Round
  <2>2. ASSUME Solid(s) PROVE MeetsAll(n)'
    <3>1. g \notin From(link, link[g])
      <4>1. Nil \in From(link, g)
        BY <1>1, <1>3, <1>6, <2>2 DEF Stuck, Nil
      <4> QED
        BY <1>1, <4>1, FromCircle
    <3>2. \A x \in Reached(n) : Settled(n, x) => x \in From(link, link[g])
      BY <1>1, <1>2, <1>4, <2>2 DEF MeetsAll
    <3>3. \A y \in Reached(n) \ {g} : link[y] \in From(link, link[g]) => y \in From(link, link[g])
      BY <1>1, <1>2, <2>2, <3>1 DEF MeetsAll, Round
    <3> QED
      BY <1>3, <1>5, <1>6, <3>2, <3>3 DEF MeetsAll
  <2>3. ASSUME ~Solid(s), NEW t \in Live(n), Settled(n, t), Solid(t), t # Label PROVE t \in From(link, link[g])
    BY <1>1, <1>2, <1>4, <2>3
  <2> QED
    BY <1>1, <1>2, <1>3, <1>5, <1>6, <2>1, <2>2, <2>3 DEF Walked, Round
<1> QED
  BY <1>7, <1>8, <1>9, <1>10, <1>11 DEF Orderly

\* A linked common symbol makes room for the one of the unit.
LEMMA RoundReplace ==
  ASSUME TypeInv, TypeInv', Standing, NEW n \in Names, NEW s, NEW g, Round(n, s, g), Orderly(n), ~Stuck(n)',
         g # Nil, g # s, UnitOf(g) \in linked, g \in objsyms, g # Label, ~Solid(g),
         walk'.at = s, phase' = phase, link' = Relinked(link, s, g, walk.at), objsyms' = objsyms \ {g}
  PROVE  Orderly(n)'
<1> DEFINE a == walk.at
           b == Bucket(n)
           T == From(link, link[g])
<1>1. /\ Coming(n) /\ a \in Places /\ a # Nil /\ Rest = {g} \cup T /\ Links(link) /\ Links(link') /\ g \in Places
      /\ From(link, a) = {a} \cup Rest /\ link[g] \in Places /\ b \in Places /\ b # Nil
      /\ s \in Places /\ s # Nil /\ s # b /\ b \notin OfName(n)
      /\ OfName(n)' = OfName(n) /\ Bucket(n)' = b /\ \A t : Sym(t)' = Sym(t) /\ (Solid(t)' <=> Solid(t))
      /\ \A u : Whole(u, n)' <=> Whole(u, n)
      /\ ~Settled(n, s) /\ Reached(n)' = From(link', b)
  BY RoundIs, PlaceFacts DEF OfName
<1>2. /\ Walking(n) /\ s = Comer(n) /\ n \notin walk.todo /\ a \in Reached(n)
      /\ Solid(s) => MeetsAll(n)
      /\ s \in Live(n) /\ Sym(s).bind = "global"
      /\ g = link[a] /\ g \in OfName(n) /\ s \in OfName(n)
  BY <1>1 DEF Orderly, Walked, Arrives, Round
<1>3. Walking(n)' /\ Coming(n)' /\ Comer(n)' = s /\ \A t : Settled(n, t)' <=> Settled(n, t)
  BY RoundNext DEF Round
<1>4. link'[a] = s /\ (s # a => link'[s] = link[g]) /\ \A p \in Places \ {s, a} : link'[p] = link[p]
  <2>1. link \in [Places -> Defs \cup {Nil}]
    BY DEF TypeInv
  <2> HIDE DEF a
  <2>2. /\ Relinked(link, s, g, a)[a] = s
        /\ s # a => Relinked(link, s, g, a)[s] = link[g]
        /\ \A p \in Places \ {s, a} : Relinked(link, s, g, a)[p] = link[p]
    BY <1>1, <2>1, RelinkedIs
  <2> QED
    BY <2>2 DEF a
<1>5. Rest' = From(link', link'[s]) /\ From(link, walk.at)' = From(link', s)
  BY DEF Rest, From, Places, Buckets, Syms
<1>6. /\ Reached(n) \subseteq Places /\ b \in Reached(n) /\ \A q \in Reached(n) : link[q] \in Reached(n)
      /\ \A C \in SUBSET Places : (b \in C /\ \A q \in C : link[q] \in C) => Reached(n) \subseteq C
  BY <1>1, FromIs DEF Reached
<1>7. /\ Reached(n)' \subseteq Places /\ b \in Reached(n)' /\ \A q \in Reached(n)' : link'[q] \in Reached(n)'
      /\ \A C \in SUBSET Places : (b \in C /\ \A q \in C : link'[q] \in C) => Reached(n)' \subseteq C
  <2>1. /\ From(link', b) \subseteq Places /\ b \in From(link', b)
        /\ \A q \in From(link', b) : link'[q] \in From(link', b)
        /\ \A C \in SUBSET Places : (b \in C /\ \A q \in C : link'[q] \in C) => From(link', b) \subseteq C
    BY <1>1, FromIs
  <2> QED
    BY <1>1, <2>1
<1>8. g \in Live(n) /\ Settled(n, g) /\ g \in Reached(n) /\ Live(n)' = Live(n) \ {g} /\ Units' = Units
  <2>1. g \in Live(n)
    BY <1>2 DEF Live, OfName
  <2>2. Settled(n, g)
    BY <1>2 DEF Settled
  <2>3. Live(n)' = Live(n) \ {g}
    BY DEF Live, NameOf
  <2>4. Units' = Units
    BY DEF Units
  <2> QED
    BY <1>2, <1>6, <2>1, <2>2, <2>3, <2>4
<1> HIDE DEF a, b, T
\* The chain leads to s now.
<1>9. s \in Reached(n)'
  <2> SUFFICES ASSUME s \notin Reached(n)' PROVE FALSE
    OBVIOUS
  <2>1. a \notin Reached(n)'
    BY <1>4, <1>7
  <2>2. \A q \in Reached(n)' : link[q] \in Reached(n)'
    BY <1>4, <1>7, <2>1
  <2>3. Reached(n) \subseteq Reached(n)'
    BY <1>6, <1>7, <2>2
  <2> QED
    BY <1>2, <2>1, <2>3
\* No linked symbol but a common one is left.
<1>10. \A t \in Live(n) : ~(Settled(n, t) /\ Solid(t) /\ t # Label)
  BY <1>8 DEF Orderly, OneSolid, Rules
<1>11. Firm(n)'
  <2>1. \A u : Whole(u, n) => <<u, n>> # g
    BY DEF Whole, Solid
  <2> QED
    BY <1>1, <1>8, <2>1 DEF Orderly, Firm
<1>12. Held(n)'
  <2>1. InUse(n)'
    BY <1>1, <1>2, <1>9 DEF InUse, UnitOf, Round
  <2> QED
    BY <2>1 DEF Held
<1>13. Alone(n)'
  BY <1>1, <1>8 DEF Orderly, Alone
<1>14. OneSolid(n)'
  BY <1>1, <1>3, <1>8, <1>10 DEF OneSolid
<1>15. LabelFirst(n)'
  <2>1. ~(INITEXIT \in linked /\ n = CtorLabel)
    <3>1. (INITEXIT \in linked /\ n = CtorLabel) => g = Label
      BY <1>2 DEF Orderly, LabelFirst, a
    <3> QED
      BY <3>1
  <2> QED
    BY <2>1 DEF LabelFirst, Round, INITEXIT
<1>16. Arrives(n)'
  BY <1>1, <1>2, <1>3, <1>8 DEF Arrives
<1>17. ASSUME Solid(s) PROVE MeetsAll(n)'
  <2>1. Nil \in From(link', s)
    BY <1>1, <1>3, <1>5, <1>17 DEF Stuck, Nil
  <2>2. /\ Rest' \subseteq Places /\ link'[s] \in Rest' /\ \A q \in Rest' : link'[q] \in Rest'
        /\ link'[s] \in Places /\ From(link', s) = {s} \cup Rest'
    <3>1. link'[s] \in Places
      BY <1>1 DEF Links
    <3>2. From(link', s) = {s} \cup From(link', link'[s])
      BY <1>1, FromStep
    <3>3. /\ From(link', link'[s]) \subseteq Places /\ link'[s] \in From(link', link'[s])
          /\ \A q \in From(link', link'[s]) : link'[q] \in From(link', link'[s])
      BY <1>1, <3>1, FromIs
    <3> QED
      BY <1>5, <3>1, <3>2, <3>3
  <2>3. s \notin Rest'
    BY <1>1, <1>5, <2>1, FromCircle
  <2>4. s # a /\ a \notin Rest' /\ link'[s] = link[g]
    BY <1>4, <2>2, <2>3
  <2>5. T = Rest'
    <3>1. \A p \in From(link', link[g]) : link[p] = link'[p]
      BY <1>4, <1>5, <2>2, <2>3, <2>4
    <3>2. From(link, link[g]) = From(link', link[g])
      BY <1>1, <3>1, FromSame
    <3> QED
      BY <1>5, <2>4, <3>2 DEF T
  <2>6. \A q \in T : link[q] \in T
    BY <1>1, FromIs DEF T
  <2>7. g \notin T
    <3>1. Nil \in T
      BY <1>1, <2>1, <2>2, <2>5
    <3>2. T \subseteq From(link, g)
      BY <1>1, FromStep DEF T
    <3> QED
      BY <1>1, <3>1, <3>2, FromCircle DEF T
  <2>8. a # g /\ link[g] \in T
    BY <2>2, <2>4, <2>5, <2>6, <2>7, <1>2
  <2>9. \A y \in Reached(n) : y # a => link[y] # g
    <3>1. MeetsAll(n)
      BY <1>2, <1>17
    <3>2. \A y \in Reached(n) \ {a} : link[y] = g => y \in Rest
      BY <1>1, <3>1 DEF MeetsAll, a
    <3> QED
      BY <1>1, <2>6, <2>7, <2>8, <3>2
  <2>10. Reached(n)' \subseteq (Reached(n) \cup {s}) \ {g}
    <3> DEFINE C == (Reached(n) \cup {s}) \ {g}
    <3>1. C \in SUBSET Places /\ b \in C
      BY <1>1, <1>2, <1>6
    <3>2. ASSUME NEW q \in C PROVE link'[q] \in C
      <4>1. CASE q = a
        BY <1>4, <4>1
      <4>2. CASE q = s
        BY <1>6, <1>8, <2>4, <2>7, <2>8, <4>2
      <4>3. CASE q # a /\ q # s
        BY <1>4, <1>6, <2>9, <4>3
      <4> QED
        BY <4>1, <4>2, <4>3
    <3> HIDE DEF C
    <3>3. Reached(n)' \subseteq C
      BY <1>7, <3>1, <3>2
    <3> QED
      BY <3>3 DEF C
  <2>11. \A x \in Reached(n)' : Settled(n, x) => x \in T
    BY <1>1, <1>2, <1>17, <2>10 DEF MeetsAll
  <2>12. \A y \in Reached(n)' \ {s} : link'[y] \in T => y \in T
    <3>1. ASSUME NEW y \in Reached(n)' \ {s}, link'[y] \in T PROVE y \in T
      <4>1. y \in Reached(n) /\ y # g /\ y # s
        BY <2>10, <3>1
      <4>2. y # a
        BY <1>4, <2>3, <2>5, <3>1
      <4>3. link[y] \in Rest
        BY <1>1, <1>4, <1>6, <3>1, <4>1, <4>2
      <4>4. y \in Rest
        BY <1>2, <1>17, <4>1, <4>2, <4>3 DEF MeetsAll, a
      <4> QED
        BY <1>1, <4>1, <4>4
    <3> QED
      BY <3>1
  <2> QED
    BY <1>3, <2>5, <2>11, <2>12 DEF MeetsAll
<1>18. Walked(n)'
  BY <1>1, <1>2, <1>3, <1>8, <1>9, <1>10, <1>17 DEF Walked, Round
<1> QED
  BY <1>11, <1>12, <1>13, <1>14, <1>15, <1>16, <1>18 DEF Orderly

\* A common symbol of the unit gives way to a linked definition.
LEMMA RoundIgnore ==
  ASSUME TypeInv, TypeInv', Standing, NEW n \in Names, NEW s, NEW g, Round(n, s, g), Orderly(n),
         ~Solid(s), walk'.at = Nil, link' = link, objsyms' = objsyms \ {s}
  PROVE  Orderly(n)'
<1>1. /\ Coming(n)
      /\ OfName(n)' = OfName(n) /\ Bucket(n)' = Bucket(n) /\ \A t : Sym(t)' = Sym(t) /\ (Solid(t)' <=> Solid(t))
      /\ \A u : Whole(u, n)' <=> Whole(u, n)
  BY RoundIs
<1>2. n \notin walk.todo /\ s \in Live(n)
  BY <1>1 DEF Orderly, Walked, Arrives, Round
<1>3. /\ ~Walking(n)' /\ ~Coming(n)'
      /\ \A t : Settled(n, t)' <=> Settled(n, t) \/ t = s
  BY <1>2, RoundNext
<1>4. Reached(n)' = Reached(n) /\ Live(n)' = Live(n) \ {s} /\ Units' = Units
  BY <1>1, LinksAfter DEF Reached, Live, NameOf, Round, Units
<1>5. Firm(n)'
  <2>1. \A u : Whole(u, n) => <<u, n>> # s
    BY DEF Whole, Solid
  <2> QED
    BY <1>1, <1>4, <2>1 DEF Orderly, Firm
<1>6. Held(n)'
  <2>1. InUse(n) => InUse(n)'
    BY <1>1, <1>4 DEF InUse, UnitOf, Round
  <2> QED
    BY <1>4, <2>1 DEF Orderly, Held
<1>7. Alone(n)'
  BY <1>1, <1>2, <1>4 DEF Orderly, Alone
<1>8. OneSolid(n)'
  <2>1. ASSUME NEW t \in Live(n) \ {s}, Settled(n, t), Solid(t), t # Label PROVE Rules(n, t)'
    <3>1. Rules(n, t)
      BY <2>1 DEF Orderly, OneSolid
    <3> QED
      BY <1>3, <1>4, <3>1 DEF Rules
  <2> QED
    BY <1>1, <1>3, <1>4, <2>1 DEF OneSolid
<1>9. LabelFirst(n)'
  BY <1>1, <1>3 DEF Orderly, LabelFirst, Round
<1>10. Arrives(n)' /\ Walked(n)'
  BY <1>3 DEF Arrives, Walked
<1> QED
  BY <1>5, <1>6, <1>7, <1>8, <1>9, <1>10 DEF Orderly

\* What the verdict on two linked symbols says of them.
LEMMA ClashSays ==
  ASSUME TypeInv, NEW s \in Defs, NEW g \in Defs
  PROVE  /\ Clash(s, g) = "none" => g = s \/ UnitOf(g) \notin linked
         /\ Clash(s, g) \in {"replace", "ignore"} => g # s /\ UnitOf(g) \in linked
         /\ Clash(s, g) = "replace" => ~Solid(g)
         /\ Clash(s, g) = "ignore" => ~Solid(s)
BY DEF Clash, EitherCommon, SupersedesCommon, Solid

LEMMA LabelSolid == Solid(Label)
BY DEF Solid, Sym

LEMMA PullStepRivals ==
  ASSUME LinkerInv, LinkerInv', Rivals, PullStep
  PROVE  Rivals'
<1> USE DEF LinkerInv
<1>1. SUFFICES ASSUME NEW a, a = walk.at, NEW n, n = NameOf(a), NEW p, p = Pulled,
                      NEW s, s = <<p, n>>, NEW g, g = link[a]
               PROVE  Rivals'
  OBVIOUS
<1>2. /\ UNCHANGED <<prog, selobjects, linked, obj, bound>>
      /\ phase = "pull" /\ a # Nil /\ n \in Names /\ p \in Members /\ p \in linked /\ Defines(p, n)
      /\ s \in Proper /\ g \in OfName(n) \cup {Nil}
      /\ walk'.todo = walk.todo /\ walk'.at \in OfName(n) \cup {Nil}
  BY <1>1, PullStepIs
<1>3. \/ /\ g = Nil /\ walk'.at = Nil /\ UNCHANGED <<phase, link, objsyms, errors>>
      \/ /\ g # Nil /\ Clash(s, g) = "none" /\ walk'.at = g /\ UNCHANGED <<phase, link, objsyms, errors>>
      \/ /\ g # Nil /\ Clash(s, g) = "error" /\ walk'.at = g /\ errors' = errors \cup {<<19, n>>}
         /\ UNCHANGED <<phase, link, objsyms>>
      \/ /\ g # Nil /\ Clash(s, g) = "replace" /\ link' = Relinked(link, s, g, a) /\ walk'.at = s
         /\ objsyms' = objsyms \ {g} /\ phase' \in {phase, "ierror"} /\ UNCHANGED errors
      \/ /\ g # Nil /\ Clash(s, g) = "ignore" /\ walk'.at = Nil /\ objsyms' = objsyms \ {s}
         /\ UNCHANGED <<phase, link, errors>>
  BY <1>1, PullStepIs
<1>4. (g # Nil /\ Clash(s, g) = "replace" /\ phase' # "ierror") => g \in objsyms
  BY <1>1 DEF PullStep
<1>5. s \in Defs /\ s \in OfName(n) /\ NameOf(s) = n /\ UnitOf(s) = p /\ s # Label /\ s # Nil
  <2>1. p \in Units
    BY <1>2 DEF Units
  <2>2. s \in Defs /\ s # Nil
    BY <1>2, PlaceFacts DEF Defs
  <2>3. NameOf(s) = n /\ UnitOf(s) = p /\ s # Label
    BY <1>1, <1>2, <2>1, SymFacts
  <2> QED
    BY <2>2, <2>3 DEF OfName
<1>6. Pulled' = Pulled
  BY <1>2 DEF Pulled, Obj, UnitOf
<1>7. Standing /\ Standing'
  <2>1. Defs' = Defs
    BY <1>2, SymSame
  <2>2. Standing
    BY DEF Rivals
  <2> QED
    BY <1>2, <2>1, <2>2 DEF Standing, OfName, Nil
<1>8. Round(n, s, g)
  <2>1. Walking(n) /\ s = Comer(n)
    BY <1>1, <1>2 DEF Walking, Comer
  <2> QED
    BY <1>1, <1>2, <1>5, <1>6, <2>1 DEF Round
<1>9. /\ link' = link \/ link' = Relinked(link, s, g, a)
      /\ \A t : NameOf(t) # n => (t \in objsyms' <=> t \in objsyms)
      /\ errors \subseteq errors'
  <2>1. \A t : NameOf(t) # n => t # s /\ (g # Nil => t # g)
    BY <1>2, <1>5 DEF OfName
  <2> QED
    BY <1>3, <2>1
<1>10. ASSUME NEW m \in Names, m # n, phase' # "ierror" PROVE Fine(m)'
  <2>1. \A q \in OfName(m) \cup {Nil, Bucket(m)} : link'[q] = link[q]
    <3>1. \A q \in OfName(m) \cup {Bucket(m)} : q \in Places /\ NameOf(q) = m
      BY PlaceFacts DEF OfName
    <3>2. Nil \in Places /\ s \in Places /\ a \in Places /\ NameOf(a) = n
      BY <1>1, <1>5, PlaceFacts DEF TypeInv
    <3>3. \A q \in Places \ {s, a} : link'[q] = link[q]
      <4>1. link \in [Places -> Defs \cup {Nil}]
        BY DEF TypeInv
      <4>2. \A q \in Places \ {s, a} : Relinked(link, s, g, a)[q] = link[q]
        BY <3>2, <4>1, RelinkedIs
      <4> QED
        BY <1>9, <4>2
    <3> QED
      BY <1>2, <1>5, <1>10, <3>1, <3>2, <3>3
  <2>2. Live(m)' = Live(m)
    BY <1>9, <1>10 DEF Live, NameOf
  <2>3. ~Walking(m) /\ ~Walking(m)'
    <3>1. NameOf(a) = n /\ (walk'.at # Nil => NameOf(walk'.at) = n)
      BY <1>1, <1>2 DEF OfName
    <3> QED
      BY <1>1, <1>10, <3>1 DEF Walking, NameOf, Nil
  <2>4. Coming(m)' <=> Coming(m)
    BY <1>2, <1>3, <1>10, <2>3 DEF Coming
  <2>5. Fine(m) /\ Standing
    BY <1>2 DEF Rivals
  <2> QED
    BY <1>2, <1>6, <1>9, <2>1, <2>2, <2>3, <2>4, <2>5, SameRivals
<1>11. ASSUME phase' # "ierror" PROVE Fine(n)'
  <2>1. Fine(n)
    BY <1>2 DEF Rivals
  <2>2. CASE <<19, n>> \in errors
    BY <1>9, <2>2 DEF Fine
  <2>3. CASE g # Nil /\ Clash(s, g) = "error"
    BY <1>3, <2>3 DEF Fine
  <2>4. g # Nil => /\ g \in Defs
                   /\ Clash(s, g) = "none" => g = s \/ UnitOf(g) \notin linked
                   /\ Clash(s, g) \in {"replace", "ignore"} => g # s /\ UnitOf(g) \in linked
                   /\ Clash(s, g) = "replace" => ~Solid(g)
                   /\ Clash(s, g) = "ignore" => ~Solid(s)
    BY <1>2, <1>5, ClashSays DEF OfName
  <2>5. CASE Stuck(n) /\ ~(g # Nil /\ Clash(s, g) = "error")
    <3>1. Solid(s)
      BY <1>8, <2>5 DEF Stuck, Round
    <3>2. g # Nil
      <4>1. From(link, walk.at) = {walk.at} \cup From(link, g) /\ From(link, g) = {g} \cup From(link, link[g])
        BY <1>2, <1>7, <1>8, RoundIs
      <4> QED
        BY <2>5, <4>1 DEF Stuck
    <3>3. /\ phase' = phase
          /\ \/ walk'.at = g /\ link' = link
             \/ walk'.at = s /\ link' = Relinked(link, s, g, walk.at)
      BY <1>1, <1>2, <1>3, <1>11, <2>4, <2>5, <3>1, <3>2
    <3>4. Stuck(n)'
      BY <1>2, <1>7, <1>8, <2>5, <3>3, RoundStuck
    <3> QED
      BY <3>4 DEF Fine
  <2>6. CASE Orderly(n) /\ ~Stuck(n)' /\ ~(g # Nil /\ Clash(s, g) = "error")
    <3>1. CASE g = Nil
      <4>1. Orderly(n)'
        BY <1>2, <1>3, <1>7, <1>8, <2>6, <3>1, RoundEnd
      <4> QED
        BY <4>1 DEF Fine
    <3>2. CASE g # Nil /\ Clash(s, g) = "none"
      <4>1. walk'.at = g /\ UNCHANGED <<phase, link, objsyms>> /\ (g = s \/ UnitOf(g) \notin linked)
        BY <1>3, <2>4, <3>2
      <4>2. Orderly(n)'
        BY <1>2, <1>7, <1>8, <2>6, <3>2, <4>1, RoundPast
      <4> QED
        BY <4>2 DEF Fine
    <3>3. CASE g # Nil /\ Clash(s, g) = "replace"
      <4>1. /\ walk'.at = s /\ phase' = phase /\ link' = Relinked(link, s, g, walk.at) /\ objsyms' = objsyms \ {g}
            /\ g # s /\ UnitOf(g) \in linked /\ g \in objsyms /\ ~Solid(g)
        BY <1>1, <1>3, <1>4, <1>11, <2>4, <3>3
      <4>2. g # Label
        BY <4>1, LabelSolid
      <4>3. Orderly(n)'
        BY <1>2, <1>7, <1>8, <2>6, <3>3, <4>1, <4>2, RoundReplace
      <4> QED
        BY <4>3 DEF Fine
    <3>4. CASE g # Nil /\ Clash(s, g) = "ignore"
      <4>1. walk'.at = Nil /\ objsyms' = objsyms \ {s} /\ link' = link /\ ~Solid(s)
        BY <1>3, <2>4, <3>4
      <4>2. Orderly(n)'
        BY <1>2, <1>7, <1>8, <2>6, <4>1, RoundIgnore
      <4> QED
        BY <4>2 DEF Fine
    <3> QED
      BY <1>3, <2>6, <3>1, <3>2, <3>3, <3>4
  <2> QED
    BY <2>1, <2>2, <2>3, <2>5, <2>6 DEF Fine
<1> QED
  BY <1>7, <1>10, <1>11 DEF Rivals

RivalsInv == LinkerInv /\ AllFiled /\ Rivals

LEMMA InitRivals == Init => RivalsInv
<1> SUFFICES ASSUME Init PROVE RivalsInv
  OBVIOUS
<1>1. LinkerInv
  BY InitInv
<1>2. AllFiled
  <2>1. Read = {}
    BY DEF Init, Read
  <2>2. \A n : Live(n) = {}
    BY DEF Init, Live
  <2> QED
    BY <2>1, <2>2 DEF AllFiled, Filed
<1>3. Rivals
  BY DEF Init, Rivals, Standing
<1> QED
  BY <1>1, <1>2, <1>3 DEF RivalsInv

LEMMA StutterRivals == RivalsInv /\ UNCHANGED vars => RivalsInv'
<1> SUFFICES ASSUME RivalsInv, UNCHANGED vars PROVE RivalsInv'
  OBVIOUS
<1> USE DEF vars
<1>1. LinkerInv'
  BY StutterKeeps DEF RivalsInv
<1>2. AllFiled'
  <2>1. \A n : Live(n)' = Live(n) /\ InChain(n)' = InChain(n)
    BY SameChains
  <2>2. \A u, n : Kept(u, n)' <=> Kept(u, n)
    BY SymSame DEF Kept, Whole
  <2>3. Read' = Read
    BY DEF Read
  <2>4. \A n : Filed(n) => Filed(n)'
    BY <2>1, <2>2, <2>3 DEF Filed
  <2> QED
    BY <2>4 DEF AllFiled, RivalsInv
<1>3. Standing'
  <2>1. Defs' = Defs
    BY SymSame
  <2> QED
    BY <2>1 DEF RivalsInv, Rivals, Standing, Buckets, Nil
<1>4. ASSUME phase \in {"load", "ierror"} PROVE Rivals'
  BY <1>3, <1>4 DEF Rivals
<1>5. ASSUME phase \notin {"load", "ierror"} PROVE Rivals'
  <2>1. \A n \in Names : (Coming(n)' <=> Coming(n)) /\ (Walking(n)' <=> Walking(n))
    BY DEF Coming, Walking, NameOf, Nil
  <2>2. Pulled' = Pulled
    BY DEF Pulled, Obj, UnitOf
  <2> QED
    BY <1>1, <1>5, <2>1, <2>2, SameAllRivals DEF RivalsInv, LinkerInv
<1> QED
  BY <1>1, <1>2, <1>4, <1>5 DEF RivalsInv

LEMMA NextRivals == RivalsInv /\ [Next]_vars => RivalsInv'
<1> SUFFICES ASSUME RivalsInv, [Next]_vars PROVE RivalsInv'
  OBVIOUS
<1>1. LinkerInv /\ LinkerInv' /\ AllFiled /\ Rivals
  BY NextKeeps DEF RivalsInv
<1>2. ASSUME LoadUnit \/ LoadSymbol PROVE AllFiled' /\ Rivals'
  <2>1. AllFiled'
    BY <1>1, <1>2, LoadUnitFiled, LoadSymbolFiled
  <2>2. phase' = "load" /\ UNCHANGED <<prog, walk>>
    BY <1>2 DEF LoadUnit, LoadSymbol
  <2>3. Defs' = Defs
    BY <2>2, SymSame
  <2>4. Rivals'
    BY <1>1, <2>2, <2>3 DEF Rivals, Standing, Buckets, Nil
  <2> QED
    BY <2>1, <2>4
<1>3. ASSUME LoadDone PROVE phase' # "load" /\ Rivals'
  BY <1>1, <1>3, LoadDoneRivals DEF LoadDone
<1>4. ASSUME FollowIndirect PROVE phase' # "load" /\ Rivals'
  BY <1>1, <1>4, FollowIndirectRivals DEF FollowIndirect, Answers, AtXref
<1>5. ASSUME ResolveXref PROVE phase' # "load" /\ Rivals'
  BY <1>1, <1>5, ResolveXrefRivals DEF ResolveXref, Answers, AtXref
<1>6. ASSUME UndefinedXref PROVE phase' # "load" /\ Rivals'
  BY <1>1, <1>6, UndefinedXrefRivals DEF UndefinedXref, Missing, Answers, AtXref
<1>7. ASSUME NextObject PROVE phase' # "load" /\ Rivals'
  BY <1>1, <1>7, NextObjectRivals DEF NextObject
<1>8. ASSUME PullSymbol PROVE phase' # "load" /\ Rivals'
  BY <1>1, <1>8, PullSymbolRivals DEF PullSymbol
<1>9. ASSUME PullStep PROVE phase' # "load" /\ Rivals'
  <2>1. phase' # "load"
    <3>1. SUFFICES ASSUME NEW a, a = walk.at, NEW n, n = NameOf(a), NEW p, p = Pulled,
                          NEW s, s = <<p, n>>, NEW g, g = link[a]
                   PROVE  phase' # "load"
      OBVIOUS
    <3>2. phase = "pull" /\ phase' \in {phase, "ierror"}
      BY <1>1, <1>9, <3>1, PullStepIs DEF LinkerInv
    <3> QED
      BY <3>2
  <2> QED
    BY <1>1, <1>9, <2>1, PullStepRivals
<1>10. ASSUME PullDone PROVE phase' # "load" /\ Rivals'
  BY <1>1, <1>10, PullDoneRivals DEF PullDone
<1>11. phase' # "load" => AllFiled'
  BY DEF AllFiled
<1> QED
  BY <1>1, <1>2, <1>3, <1>4, <1>5, <1>6, <1>7, <1>8, <1>9, <1>10, <1>11, StutterRivals DEF Next, RivalsInv

\* Two linked units with a proper definition of a name are reported, whatever the
\* chain of the name went through: pull_objunit() takes symbols out of the chain while it
\* walks over it, and make_constructors() puts one in front.
THEOREM DuplicatesAreReported == Spec => []DuplicatesReported
<1>1. RivalsInv => DuplicatesReported
  <2> SUFFICES ASSUME RivalsInv, phase = "done", NEW n \in Names,
                      NEW u \in Units \cap linked, NEW w \in Units \cap linked, u # w, Whole(u, n), Whole(w, n)
               PROVE  <<19, n>> \in errors
    BY DEF DuplicatesReported, Whole
  <2>1. ~Coming(n) /\ ~Stuck(n)
    BY NotComing
  <2>2. Fine(n)
    BY DEF RivalsInv, Rivals
  <2> SUFFICES ASSUME Orderly(n) PROVE FALSE
    BY <2>1, <2>2 DEF Fine
  <2>3. \A v \in {u, w} : /\ <<v, n>> \in Live(n) /\ Settled(n, <<v, n>>) /\ Solid(<<v, n>>) /\ <<v, n>> # Label
    <3> SUFFICES ASSUME NEW v \in {u, w}
                 PROVE  <<v, n>> \in Live(n) /\ Settled(n, <<v, n>>) /\ Solid(<<v, n>>) /\ <<v, n>> # Label
      OBVIOUS
    <3>1. UnitOf(<<v, n>>) = v /\ NameOf(<<v, n>>) = n /\ <<v, n>> # Label
      BY SymFacts
    <3>2. <<v, n>> \in objsyms /\ <<v, n>> \in Defs
      BY DEF Orderly, Firm, RivalsInv, LinkerInv, TypeInv
    <3>3. Solid(<<v, n>>)
      BY DEF Whole, Solid
    <3> QED
      BY <2>1, <3>1, <3>2, <3>3 DEF Live, Settled, OfName
  <2>4. Rules(n, <<u, n>>) /\ Rules(n, <<w, n>>)
    BY <2>3 DEF Orderly, OneSolid
  <2>5. <<w, n>> = <<u, n>>
    BY <2>3, <2>4 DEF Rules
  <2> QED
    BY <2>5
<1> QED
  BY <1>1, InitRivals, NextRivals, PTL DEF Spec

-----------------------------------------------------------------------------
(* What references are bound to.                                            *)

\* Where a chain, the walk of pull_objunit() or a reference leads to once the files are read:
\* to the symbols that were not freed by then.  One of them that is freed later is excused.
Excused(s) == Outgrown(s) \/ GivesWayToLabel(s)
Arriving(G) == \A n \in Names : Coming(n) => Comer(n) \in G /\ Sym(Comer(n)).bind = "global"
Reaching(G) ==
  /\ Places \ freed \subseteq G /\ Label \in G
  /\ \A s \in G : s \in freed => Excused(s)
  /\ \A p \in G : p \in Places /\ link[p] \in G
  /\ walk.at \in G /\ Arriving(G)
  /\ \A r \in Bound : BoundTo(r) \in G
Reachings ==
  /\ phase = "load" => walk.at = Nil
  /\ phase # "load" => \E G : Reaching(G)

LEMMA ExcusedStays ==
  ASSUME prog' = prog, linked \subseteq linked', NEW s, Excused(s)
  PROVE  Excused(s)'
<1>1. \A t : Sym(t)' = Sym(t)
  BY SymSame
<1>2. CASE Outgrown(s)
  <2> DEFINE t(u) == <<u, NameOf(s)>>
             Rival(u) == Defines(u, NameOf(s)) /\ Sym(t(u)).bind = "global" /\ SupersedesCommon(Sym(t(u)), Sym(s))
  <2>1. PICK u \in (linked \cap Members) \ {UnitOf(s)} : Rival(u)
    BY <1>2 DEF Outgrown
  <2>2. u \in (linked' \cap Members) \ {UnitOf(s)} /\ Sym(s)'.type = "common"
    BY <1>1, <1>2 DEF Outgrown
  <2>3. Rival(u)'
    BY <1>1, <2>1 DEF Defines, SupersedesCommon, BiggerCommon, NameOf
  <2> QED
    BY <1>1, <2>2, <2>3 DEF Excused, Outgrown, UnitOf, NameOf
<1>3. CASE GivesWayToLabel(s)
  BY <1>1, <1>3 DEF Excused, GivesWayToLabel, NameOf, INITEXIT
<1> QED
  BY <1>2, <1>3 DEF Excused

\* What there is to show of a step.
LEMMA ReachingAfter ==
  ASSUME prog' = prog, linked \subseteq linked', freed \subseteq freed', NEW G, Reaching(G),
         \A s \in freed' \ freed : Excused(s)', \A p \in G : link'[p] \in G,
         walk'.at \in G, Arriving(G)', \A r \in Bound' : BoundTo(r)' \in G
  PROVE  Reaching(G)'
<1>1. Places' = Places /\ Label' = Label
  BY DEF Places, Buckets, Syms, Nil, Label, Units
<1>2. \A s \in G : s \in freed' => Excused(s)'
  BY ExcusedStays DEF Reaching
<1> QED
  BY <1>1, <1>2 DEF Reaching

\* findsymbol() and findlnksymbol() stay where the chains lead to.
LEMMA FindReaches ==
  ASSUME TypeInv, NEW G, Reaching(G), NEW n \in Names, NEW u
  PROVE  findsymbol(u, n) \in G /\ findlnksymbol(n) \in G
<1>1. PICK k \in 1..MaxChain : findsymbol(u, n) = Chain(n)[k]
  BY FindIs
<1>2. Bucket(n) \in G /\ Nil \in G /\ LnkSyms \cup {Label} \subseteq G
  <2>1. freed \subseteq Defs /\ Defs \subseteq Syms
    BY PlaceFacts DEF TypeInv
  <2>2. \A s \in LnkSyms : s \notin Defs
    BY SymFacts
  <2> QED
    BY <2>1, <2>2, PlaceFacts DEF Reaching
<1>3. Chain(n)[k] \in G
  <2> DEFINE S == {j \in Nat : j <= MaxChain => Chain(n)[j] \in G}
  <2>1. 0 \in S
    BY <1>2, ChainIs
  <2>2. ASSUME NEW j \in Nat, j \in S PROVE j + 1 \in S
    <3>1. ASSUME j + 1 <= MaxChain PROVE Chain(n)[j + 1] \in G
      <4>1. j + 1 \in 1..MaxChain /\ (j + 1) - 1 = j /\ j <= MaxChain
        BY <3>1, MaxChainIs
      <4>2. Chain(n)[j + 1] = link[Chain(n)[j]]
        BY <4>1, ChainIs
      <4>3. Chain(n)[j] \in G
        BY <2>2, <4>1
      <4> QED
        BY <4>2, <4>3 DEF Reaching
    <3> QED
      BY <3>1
  <2> HIDE DEF S
  <2>3. \A j \in Nat : j \in S
    BY <2>1, <2>2, SetInduction
  <2> QED
    BY <1>1, <2>3, MaxChainIs DEF S
<1>4. findlnksymbol(n) \in LnkSyms \cup {Label, Nil}
  BY FindLnkIs
<1> QED
  BY <1>1, <1>2, <1>3, <1>4

\* When the files are read, the chains and the tables hold no freed symbol, and neither is
\* the linker's own label freed, nor a symbol that nobody made yet.
LEMMA LoadDoneReaches ==
  ASSUME LinkerInv, Reachings, LoadDone
  PROVE  Reachings'
<1>1. /\ UNCHANGED <<prog, link, objsyms, freed, bound, walk, xtors>> /\ phase = "load"
      /\ phase' \in {"resolve", "done", "ierror"} /\ walk.at = Nil
      /\ linked \subseteq linked' /\ linked' \subseteq linked \cup {UNDEFSYMBOLS}
  BY DEF LoadDone, Reachings
<1>2. Bound = {} /\ INITEXIT \notin linked /\ UNDEFSYMBOLS \in Visitors /\ \A u \in Visitors : bound[u] = <<>>
  BY <1>1, NothingBound DEF LinkerInv, Visitors
<1>3. Bound' = {}
  <2>1. linked \subseteq Visitors
    BY DEF LinkerInv, TypeInv
  <2> QED
    BY <1>1, <1>2, <2>1 DEF Bound
<1> DEFINE G == Places \ freed
<1>4. Label \in G /\ Nil \in G /\ Places' = Places /\ Label' = Label
  BY <1>2, PlaceFacts, SymFacts DEF LinkerInv, TypeInv, Chains, Places, Buckets, Syms, Nil, Label, Units
<1>5. ASSUME NEW p \in G PROVE link[p] \in G
  <2>1. link[p] \in Defs \cup {Nil} /\ objsyms \cap freed = {} /\ Defs \subseteq Places
    BY <1>5, PlaceFacts DEF LinkerInv, TypeInv, Chains
  <2>2. CASE p \in Syms \ objsyms
    BY <1>1, <1>4, <1>5, <2>2 DEF LinkerInv, Chains
  <2>3. CASE p \in objsyms \/ p \in Buckets
    <3>1. PICK n \in Names : p \in Live(n) \cup {Bucket(n)}
      BY <2>3, SymFacts DEF Buckets, Bucket, Live, LinkerInv, TypeInv
    <3>2. link[p] \in objsyms \cup {Nil}
      BY <1>1, <3>1 DEF LinkerInv, Chains, Stable, ChainOk
    <3> QED
      BY <1>4, <2>1, <3>2
  <2>4. CASE p = Nil
    BY <1>4, <2>4 DEF LinkerInv, TypeInv
  <2> QED
    BY <1>5, <2>2, <2>3, <2>4 DEF Places
<1>6. Reaching(G)'
  <2>1. Arriving(G)'
    BY <1>1 DEF Arriving, Coming, Walking
  <2> QED
    BY <1>1, <1>3, <1>4, <1>5, <2>1 DEF Reaching
<1> QED
  BY <1>1, <1>6 DEF Reachings

\* One more reference is bound.
LEMMA BoundReaches ==
  ASSUME LinkerInv, AtXref, NEW G, Reaching(G), NEW s \in Defs \cup LnkSyms \cup {Nil}, s \in G,
         bound' = [bound EXCEPT ![Obj] = Append(@, s)], UNCHANGED <<prog, xtors, link, freed>>,
         linked \subseteq linked', linked' \subseteq Visitors, walk'.at \in G, Arriving(G)'
  PROVE  Reaching(G)'
<1>1. SUFFICES ASSUME NEW o, o = Obj, NEW i, i = Len(bound[o]) + 1, NEW x, x = Xref PROVE Reaching(G)'
  OBVIOUS
<1>2. TypeInv /\ Listed
  BY DEF LinkerInv
<1>3. o \in Visitors /\ bound \in [Visitors -> Seq(Defs \cup LnkSyms \cup {Nil})]
  BY <1>1, <1>2, AtXrefIs DEF TypeInv
<1>4. bound'[o] = Append(bound[o], s) /\ \A u \in Visitors \ {o} : bound'[u] = bound[u]
  BY <1>1, <1>3
<1>5. \A u \in linked' \ linked : bound[u] = <<>>
  BY <1>2 DEF Listed
<1>6. /\ Bound' = Bound \cup {<<o, i>>}
      /\ \A r \in Bound : BoundTo(r)' = BoundTo(r)
      /\ BoundTo(<<o, i>>)' = s
  BY <1>1, <1>2, <1>4, <1>5, NewBound
<1>7. \A r \in Bound' : BoundTo(r)' \in G
  BY <1>6 DEF Reaching
<1> QED
  BY <1>7, ReachingAfter DEF Reaching

LEMMA ResolveXrefReaches ==
  ASSUME LinkerInv, LinkerInv', NEW G, Reaching(G), ResolveXref
  PROVE  Reaching(G)'
<1>1. /\ UNCHANGED <<prog, link, freed, objsyms, obj, xtors, xtorsDone>> /\ AtXref /\ phase = "resolve"
      /\ TypeInv /\ Asked
  BY DEF ResolveXref, Answers, AtXref, LinkerInv
<1>2. SUFFICES ASSUME NEW s, s = Resolved(Answer), NEW u, u = UnitOf(s) PROVE Reaching(G)'
  OBVIOUS
<1>3. /\ bound' = [bound EXCEPT ![Obj] = Append(@, s)]
      /\ \/ /\ u \in Members \ linked /\ phase' = "pull" /\ linked' = linked \cup {u}
            /\ selobjects' = InsertAt(selobjects, obj + 1, u)
            /\ walk' = [todo |-> {n \in Names : <<u, n>> \in objsyms /\ Sym(<<u, n>>).bind = "global"}, at |-> Nil]
         \/ phase' = "resolve" /\ linked' = linked /\ walk' = walk
  BY <1>1, <1>2 DEF ResolveXref, Bind, IsLib
<1>4. s \in G /\ s \in Defs \cup LnkSyms \cup {Nil}
  <2>1. Wanted \in Names /\ Xref.name \in Names /\ Xref \in Reference /\ Answer \in OfName(Wanted) \cup {Nil}
    BY <1>1, AtXrefIs, ResolvedIs DEF LinkerInv
  <2>2. Answer \in G /\ findlnksymbol(Xref.name) \in G
    BY <1>1, <2>1, FindReaches DEF Answer
  <2>3. findlnksymbol(Xref.name) \in LnkSyms \cup {Label, Nil}
    BY <1>1, <2>1, FindLnkIs
  <2> QED
    BY <1>2, <2>1, <2>2, <2>3, PlaceFacts DEF Resolved, OfName
<1>5. linked \subseteq linked' /\ linked' \subseteq Visitors /\ Nil \in G
  <2>1. Nil \notin freed
    BY <1>1, PlaceFacts DEF TypeInv
  <2> QED
    BY <1>1, <1>3, <2>1, PlaceFacts DEF TypeInv, Visitors, Units, Reaching
<1>6. walk'.at \in G
  BY <1>3, <1>5 DEF Reaching
<1>7. Arriving(G)'
  <2>1. CASE phase' = "pull"
    <3>1. /\ u \in Members \ linked /\ linked' = linked \cup {u} /\ selobjects' = InsertAt(selobjects, obj + 1, u)
          /\ walk' = [todo |-> {n \in Names : <<u, n>> \in objsyms /\ Sym(<<u, n>>).bind = "global"}, at |-> Nil]
      BY <1>3, <2>1
    <3>2. Pulled' = u
      <4>1. bound[Obj] \in Seq(Defs \cup LnkSyms \cup {Nil})
        BY <1>1, AtXrefIs DEF LinkerInv
      <4>2. Obj' = Obj /\ bound'[Obj] = Append(bound[Obj], s)
        <5>1. \E v \in Units \ linked : selobjects' = InsertAt(selobjects, obj + 1, v) /\ linked' = linked \cup {v}
          BY <3>1 DEF Units
        <5>2. Listed
          BY DEF LinkerInv
        <5> QED
          BY <1>1, <1>3, <1>4, <2>1, <5>1, <5>2, BindListed
      <4>3. Append(bound[Obj], s)[Len(Append(bound[Obj], s))] = s
        BY <1>4, <4>1, AppendIs
      <4>4. Pulled' = UnitOf(bound'[Obj'][Len(bound'[Obj'])])
        BY DEF Pulled, UnitOf
      <4> QED
        BY <1>2, <4>2, <4>3, <4>4
    <3>3. \A n \in Names : Coming(n)' => <<u, n>> \in objsyms /\ Sym(<<u, n>>).bind = "global"
      BY <3>1 DEF Coming, Walking, Nil
    <3>4. objsyms \subseteq G
      BY <1>1, PlaceFacts DEF LinkerInv, TypeInv, Chains, Reaching
    <3>5. \A t : Sym(t)' = Sym(t)
      BY <1>1, SymSame
    <3> QED
      BY <3>2, <3>3, <3>4, <3>5 DEF Arriving, Comer
  <2>2. CASE phase' # "pull"
    BY <2>2 DEF Arriving, Coming, Walking
  <2> QED
    BY <2>1, <2>2
<1> QED
  BY <1>1, <1>3, <1>4, <1>5, <1>6, <1>7, BoundReaches

LEMMA UndefinedXrefReaches ==
  ASSUME LinkerInv, NEW G, Reaching(G), UndefinedXref
  PROVE  Reaching(G)'
<1>1. /\ UNCHANGED <<prog, phase, link, freed, linked, walk, xtors>> /\ AtXref /\ phase = "resolve"
      /\ \/ bound' = [bound EXCEPT ![Obj] = Append(@, <<LNK, Xref.name>>)]
         \/ bound' = [bound EXCEPT ![Obj] = Append(@, Nil)]
  BY DEF UndefinedXref, Missing, Answers, AtXref, Bind
<1>2. Xref.name \in Names /\ TypeInv
  BY <1>1, AtXrefIs DEF LinkerInv
<1>3. {Nil, <<LNK, Xref.name>>} \subseteq G /\ <<LNK, Xref.name>> \in LnkSyms
  <2>1. <<LNK, Xref.name>> \in LnkSyms
    BY <1>2 DEF LnkSyms
  <2>2. Nil \notin Defs /\ <<LNK, Xref.name>> \notin Defs
    BY <2>1, PlaceFacts, SymFacts
  <2> QED
    BY <1>2, <2>1, <2>2, PlaceFacts DEF TypeInv, Reaching
<1>4. walk'.at \in G /\ Arriving(G)' /\ linked' \subseteq Visitors /\ linked \subseteq linked'
  BY <1>1, <1>2 DEF Reaching, Arriving, Coming, Walking, TypeInv
<1> QED
  BY <1>1, <1>3, <1>4, BoundReaches

\* The walk of pull_objunit() frees a symbol only for one of the unit that it is walking for.
LEMMA PullStepReaches ==
  ASSUME LinkerInv, NEW G, Reaching(G), PullStep
  PROVE  Reaching(G)'
<1>1. TypeInv /\ Pulls /\ Listed
  BY DEF LinkerInv
<1>2. SUFFICES ASSUME NEW at, at = walk.at, NEW n, n = NameOf(at), NEW p, p = Pulled,
                      NEW s, s = <<p, n>>, NEW g, g = link[at]
               PROVE  Reaching(G)'
  OBVIOUS
<1>3. /\ UNCHANGED <<prog, selobjects, linked, obj, bound, xtors>>
      /\ phase = "pull" /\ at # Nil /\ at \in Places /\ n \in Names /\ p \in Members /\ p \in linked /\ Defines(p, n)
      /\ s \in Places /\ g \in OfName(n) \cup {Nil} /\ p \in Units
      /\ walk'.todo = walk.todo /\ walk'.at \in {g, s, Nil} /\ walk'.at \in OfName(n) \cup {Nil}
      /\ \/ UNCHANGED <<link, freed>>
         \/ /\ g # Nil /\ Clash(s, g) = "replace" /\ link' = Relinked(link, s, g, at)
            /\ freed' = freed \cup {g}
  BY <1>1, <1>2, PullStepIs DEF Units
<1>4. Coming(n) /\ s \in G /\ Sym(s).bind = "global" /\ g \in G /\ Nil \in G
  <2>1. Coming(n) /\ Comer(n) = s
    BY <1>2, <1>3 DEF Coming, Walking, Comer
  <2>2. Nil \notin freed
    BY <1>1, PlaceFacts DEF TypeInv
  <2> QED
    BY <1>2, <1>3, <2>1, <2>2, PlaceFacts DEF Arriving, Reaching
<1>5. \A q \in G : link'[q] \in G
  <2>1. CASE UNCHANGED link
    BY <2>1 DEF Reaching
  <2>2. CASE link' = Relinked(link, s, g, at)
    BY <1>1, <1>4, <2>2 DEF Relinked, Reaching, TypeInv
  <2> QED
    BY <1>3, <2>1, <2>2
<1>6. \A x \in freed' \ freed : Excused(x)'
  <2> SUFFICES ASSUME g # Nil, Clash(s, g) = "replace" PROVE Excused(g)'
    BY <1>3
  <2>1. /\ g # s /\ UnitOf(g) \in linked /\ EitherCommon(Sym(s), Sym(g)) /\ SupersedesCommon(Sym(s), Sym(g))
    BY DEF Clash
  <2>2. Sym(g).type = "common"
    BY <2>1 DEF EitherCommon, SupersedesCommon
  <2>3. NameOf(g) = n /\ UnitOf(g) # p /\ g = <<UnitOf(g), NameOf(g)>>
    BY <1>2, <1>3, <2>1, SymFacts DEF OfName
  <2>4. Outgrown(g)
    BY <1>2, <1>3, <1>4, <2>1, <2>2, <2>3 DEF Outgrown
  <2> QED
    BY <1>3, <2>4, ExcusedStays DEF Excused
<1>7. Arriving(G)'
  <2>1. Pulled' = Pulled
    BY <1>3 DEF Pulled, Obj, UnitOf
  <2>2. \A m \in Names : Coming(m)' => Coming(m)
    BY <1>2, <1>3 DEF Coming, Walking, OfName, Nil, NameOf
  <2>3. \A t : Sym(t)' = Sym(t)
    BY <1>3, SymSame
  <2> QED
    BY <2>1, <2>2, <2>3 DEF Arriving, Comer, Reaching
<1>8. \A r \in Bound' : BoundTo(r)' \in G
  BY <1>3 DEF Bound, BoundTo, Reaching
<1> QED
  BY <1>3, <1>4, <1>5, <1>6, <1>7, <1>8, ReachingAfter

\* vlink's own label takes the place of a unit's symbol.
LEMMA NextObjectReaches ==
  ASSUME LinkerInv, NEW G, Reaching(G), NextObject
  PROVE  Reaching(G)'
<1>1. TypeInv /\ Listed
  BY DEF LinkerInv
<1>2. /\ UNCHANGED <<prog, bound, walk>> /\ phase = "resolve" /\ phase' \in {"resolve", "done"}
      /\ \/ UNCHANGED <<xtors, linked, link, freed>>
         \/ \E v, k : /\ SpokenAt(Label, v, k) /\ INITEXIT \notin linked /\ linked' = linked \cup {INITEXIT}
                      /\ link' = addglobsym(Label, v) /\ freed' = freed \cup Displaced(v)
  BY <1>1, NextObjectIs
<1>3. linked \subseteq linked' /\ freed \subseteq freed' /\ (xtors' = xtors \/ INITEXIT \notin linked)
  BY <1>2
<1>4. Arriving(G)' /\ walk'.at \in G
  BY <1>2 DEF Arriving, Coming, Walking, Reaching
<1>5. \A r \in Bound' : BoundTo(r)' \in G
  <2>1. \A u \in linked' \ linked : bound[u] = <<>>
    <3>1. linked' \subseteq Visitors
      BY <1>1, <1>2 DEF TypeInv, Visitors
    <3> QED
      BY <1>1, <3>1 DEF Listed
  <2> QED
    BY <1>1, <1>2, <1>3, <2>1, SameBound DEF Reaching
<1>6. CASE UNCHANGED <<link, freed>>
  BY <1>2, <1>3, <1>4, <1>5, <1>6, ReachingAfter DEF Reaching
<1>7. CASE ~UNCHANGED <<link, freed>>
  <2>1. PICK v, k : /\ SpokenAt(Label, v, k) /\ linked' = linked \cup {INITEXIT}
                    /\ link' = addglobsym(Label, v) /\ freed' = freed \cup Displaced(v)
    BY <1>2, <1>7
  <2>2. Label \in Defs /\ NameOf(Label) = CtorLabel /\ UnitOf(Label) = INITEXIT /\ INITEXIT \notin Members
    BY PlaceFacts, SymFacts DEF Units
  <2>3. ASSUME NEW p \in G PROVE link'[p] \in G
    <3>1. p \in Places /\ link[p] \in G /\ link[link[p]] \in G /\ Label \in G
      BY DEF Reaching
    <3>2. CASE p \notin {v.at, Label} \/ v.what \notin {"append", "replace"}
      BY <1>1, <2>1, <2>2, <3>1, <3>2, AddIs
    <3>3. CASE p = v.at /\ p # Label /\ v.what \in {"append", "replace"}
      BY <1>1, <2>1, <2>2, <3>1, <3>3, AddIs
    <3>4. CASE p = Label /\ v.what = "append"
      BY <1>1, <2>1, <2>2, <3>1, <3>4, AddIs
    <3>5. CASE p = Label /\ v.what = "replace"
      <4>1. v.at = Bucket(CtorLabel) /\ Bucket(CtorLabel) \in G
        <5>1. v.at = Bucket(CtorLabel)
          BY <1>1, <2>1, <2>2, VerdictPlace
        <5>2. Bucket(CtorLabel) \notin freed
          BY <1>1, PlaceFacts DEF TypeInv
        <5> QED
          BY <5>1, <5>2, PlaceFacts DEF Reaching
      <4> QED
        BY <1>1, <2>1, <2>2, <3>5, <4>1, AddIs DEF Reaching
    <3> QED
      BY <3>2, <3>3, <3>4, <3>5
  <2>4. ASSUME NEW x \in freed' \ freed PROVE Excused(x)'
    <3>1. v.what = "replace" /\ x = link[v.at]
      BY <2>1, <2>4 DEF Displaced
    <3>2. x \in OfName(CtorLabel) /\ Meets(Sym(Label), FALSE, Sym(x)) = "replace"
      <4>1. IsLib(UnitOf(Label)) = FALSE
        BY <2>2 DEF IsLib
      <4> QED
        BY <1>1, <2>1, <2>2, <3>1, <4>1, VerdictPlace
    <3>3. /\ Sym(Label).type = "def" /\ Sym(Label).bind = "global" /\ Sym(x).bind \in {"global", "weak"}
      BY <1>1, <3>2, SymType DEF OfName, Sym
    <3>4. Sym(x).bind = "weak" \/ Sym(x).type = "common"
      BY <3>2, <3>3 DEF Meets, EitherCommon
    <3>5. Sym(x)' = Sym(x) /\ NameOf(x) = CtorLabel /\ INITEXIT \in linked'
      BY <1>2, <2>1, <3>2, SymSame DEF OfName
    <3> QED
      BY <3>4, <3>5 DEF Excused, GivesWayToLabel, NameOf, INITEXIT
  <2> QED
    BY <1>2, <1>3, <1>4, <1>5, <2>3, <2>4, ReachingAfter
<1> QED
  BY <1>6, <1>7

\* Steps that change neither the chains nor what references are bound to.
LEMMA OtherReaches ==
  ASSUME LinkerInv, NEW G, Reaching(G), FollowIndirect \/ PullSymbol \/ PullDone \/ UNCHANGED vars
  PROVE  Reaching(G)'
<1>1. UNCHANGED <<prog, link, freed, linked, bound, xtors, selobjects, obj>>
  BY DEF FollowIndirect, PullSymbol, PullDone, vars
<1>2. walk' = walk \/ \E n \in walk.todo : phase = "pull" /\ walk' = [todo |-> walk.todo \ {n}, at |-> Bucket(n)]
  BY DEF FollowIndirect, PullSymbol, PullDone, vars
<1>3. phase' = phase \/ phase' = "resolve"
  BY DEF FollowIndirect, PullSymbol, PullDone, vars
<1>4. walk'.at \in G
  <2>1. \A n \in walk.todo : n \in Names /\ Bucket(n) \in Places /\ Bucket(n) \notin freed
    BY PlaceFacts DEF LinkerInv, TypeInv
  <2> QED
    BY <1>2, <2>1 DEF Reaching
<1>5. Arriving(G)'
  <2>1. \A n \in Names : Coming(n)' => Coming(n)
    BY <1>2, <1>3, PlaceFacts DEF Coming, Walking, LinkerInv, TypeInv, NameOf, Nil
  <2>2. Pulled' = Pulled /\ \A t : Sym(t)' = Sym(t)
    BY <1>1, SymSame DEF Pulled, Obj, UnitOf
  <2> QED
    BY <2>1, <2>2 DEF Arriving, Comer, Reaching
<1>6. \A r \in Bound' : BoundTo(r)' \in G
  BY <1>1 DEF Bound, BoundTo, Reaching
<1> QED
  BY <1>1, <1>4, <1>5, <1>6, ReachingAfter DEF Reaching

LEMMA NextReaches == LinkerInv /\ Reachings /\ [Next]_vars => Reachings'
<1> SUFFICES ASSUME LinkerInv, Reachings, [Next]_vars PROVE Reachings'
  OBVIOUS
<1>1. LinkerInv'
  BY NextKeeps
<1>2. CASE LoadUnit \/ LoadSymbol
  BY <1>2 DEF LoadUnit, LoadSymbol, Reachings
<1>3. CASE LoadDone
  BY <1>3, LoadDoneReaches
<1>4. CASE FollowIndirect \/ ResolveXref \/ UndefinedXref \/ NextObject \/ PullSymbol \/ PullStep \/ PullDone
  <2>1. phase \in {"resolve", "pull"} /\ phase' \in {"resolve", "pull", "done", "ierror"}
    <3>1. CASE FollowIndirect \/ ResolveXref \/ UndefinedXref
      BY <3>1 DEF FollowIndirect, ResolveXref, UndefinedXref, Missing, Answers, AtXref
    <3>2. CASE NextObject \/ PullSymbol \/ PullDone
      BY <3>2 DEF NextObject, PullSymbol, PullDone
    <3>3. CASE PullStep
      <4>1. SUFFICES ASSUME NEW at, at = walk.at, NEW n, n = NameOf(at), NEW p, p = Pulled,
                            NEW s, s = <<p, n>>, NEW g, g = link[at]
                     PROVE  phase = "pull" /\ phase' \in {"pull", "ierror"}
        OBVIOUS
      <4> QED
        BY <3>3, <4>1, PullStepIs DEF LinkerInv
    <3> QED
      BY <1>4, <3>1, <3>2, <3>3
  <2>2. PICK G : Reaching(G)
    BY <2>1 DEF Reachings
  <2>3. Reaching(G)'
    BY <1>1, <1>4, <2>2, ResolveXrefReaches, UndefinedXrefReaches, PullStepReaches, NextObjectReaches, OtherReaches
  <2> QED
    BY <2>1, <2>3 DEF Reachings
<1>5. CASE UNCHANGED vars
  <2>1. phase' = phase /\ walk' = walk
    BY <1>5 DEF vars
  <2> QED
    BY <1>5, <2>1, OtherReaches DEF Reachings
<1> QED
  BY <1>2, <1>3, <1>4, <1>5 DEF Next

\* However often definitions replace one another (addglobsym(), pull_objunit(), make_constructors()),
\* contested names included: the freed symbol that a reference is bound to is a common one that a
\* member of the program outgrows, or one that made room for vlink's list of constructors.
THEOREM DanglingReferences == Spec => []OnlyOutgrownDangle
<1>1. Init => Reachings
  BY DEF Init, Reachings
<1>2. LinkerInv /\ Reachings => OnlyOutgrownDangle
  <2> SUFFICES ASSUME LinkerInv, Reachings, NEW r \in Bound, BoundTo(r) \in freed
               PROVE  Outgrown(BoundTo(r)) \/ GivesWayToLabel(BoundTo(r))
    BY DEF OnlyOutgrownDangle
  <2>1. phase # "load"
    BY NothingBound DEF LinkerInv
  <2>2. PICK G : Reaching(G)
    BY <2>1 DEF Reachings
  <2> QED
    BY <2>2 DEF Reaching, Excused
<1> QED
  BY <1>1, <1>2, NextReaches, LinkerInvariant, PTL DEF Spec
=============================================================================
