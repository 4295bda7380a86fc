------------------------------- MODULE Linker -------------------------------
(***************************************************************************)
(* vlink: reading the input files and resolving the references of the       *)
(* program (linker_load() and linker_resolve(), with the symbol tables of   *)
(* targets.c).                                                              *)
(*                                                                         *)
(* The global symbols of one name hang in one chain of gv->symbols; the     *)
(* chain is modelled with its links, because pull_objunit() replaces its    *)
(* nodes while it walks over them.  A place in a chain is the symbol whose  *)
(* glob_chain is meant, or the head of the bucket.                          *)
(***************************************************************************)
EXTENDS Naturals, FiniteSets, SequencesExt

CONSTANTS
  Objects,   \* units of object files (ID_OBJECT)
  Members,   \* units of library archives (ID_LIBARCH)
  Names,     \* names of global symbols
  CtorNames, \* those that collect_constructors() takes for constructors
  CtorLabel, \* ___CTOR_LIST__
  Files,     \* the units in the order they are read
  Programs   \* what the units define and refer to

Units == Objects \cup Members
UNDEFSYMBOLS == "UNDEFSYMBOLS"    \* the object made by add_undef_syms()
INITEXIT     == "INITEXIT"        \* the object made by make_constructors()
LNK          == "lnksyms"         \* symbols defined by the linker itself
Nil          == <<"nil", "nil">>

Buckets == {<<"symbols", n>> : n \in Names}
Syms  == (Units \cup {INITEXIT, LNK}) \X Names
UnitOf(s) == s[1]
NameOf(s) == s[2]
Bucket(n) == <<"symbols", n>>
Places == Buckets \cup Syms \cup {Nil}
Label == <<INITEXIT, CtorLabel>>   \* ctor_symbol

\* The value of an absolute symbol is its size here.
Symbol == [type : {"none", "def", "common", "abs", "indir"}, bind : {"global", "weak"},
           size : Nat, align : Nat, to : Names]
Reference == [kind : {"strong", "weak", "local"}, name : Names]

\* Every unit is read once.
ASSUME FilesAssumption ==
  /\ IsFiniteSet(Units) /\ IsFiniteSet(Names)
  /\ Objects \cap Members = {}
  /\ Units \cap {UNDEFSYMBOLS, INITEXIT, LNK, "nil", "symbols"} = {}
  /\ CtorNames \subseteq Names /\ CtorLabel \in Names \ CtorNames
  /\ Files \in Seq(Units) /\ IsInjective(Files) /\ Range(Files) = Units

ASSUME LinkerAssumption ==
  \A p \in Programs : /\ p.def \in [Units -> [Names -> Symbol]]
                      /\ p.xrefs \in [Units -> Seq(Reference)]
                      /\ p.undef \in Seq(Reference)

VARIABLES
  prog,        \* the input: prog.def[u][n], prog.xrefs[u], prog.undef
  phase,       \* "load", "resolve", "pull", "done" or "ierror"
  loaded,      \* number of units read or being read
  unread,      \* symbols of the unit that are still to be read
  link,        \* gv->symbols and the glob_chain of every symbol
  objsyms,     \* the symbols in the tables of the units
  freed,       \* symbols whose memory was freed
  selobjects,  \* gv->selobjects
  linked,      \* units with OUF_LINKED
  lnksyms,     \* gv->lnksyms
  obj,         \* place of the current object in selobjects
  indir,       \* the indirect symbol that findsymbol() follows
  bound,       \* xref->relocsect.symbol of the references visited so far
  pripointers, \* the constructors in gv->pripointers
  xtors,       \* the references of INITEXIT
  xtorsDone,   \* last_actions_done
  walk,        \* where pull_objunit() is
  errors       \* <<number, name>> of the errors reported

vars == <<prog, phase, loaded, unread, link, objsyms, freed, selobjects, linked, lnksyms,
          obj, indir, bound, pripointers, xtors, xtorsDone, walk, errors>>

----------------------------------------------------------------------------
(* Symbols.                                                                *)

Defines(u, n) == prog.def[u][n].type # "none"
Sym(s) == IF s = Label
          THEN [type |-> "def", bind |-> "global", size |-> 0, align |-> 1, to |-> CtorLabel]
          ELSE prog.def[UnitOf(s)][NameOf(s)]
IsLib(u) == u \in Members
Obj == selobjects[obj]

\* From a on, n steps of f: the values on the way.
Steps(f, a, n) == LET at[k \in 0 .. n] == IF k = 0 THEN a ELSE f[at[k - 1]] IN at

\* A chain of gv->symbols: the places by their number, the bucket first and Nil
\* behind the last symbol.  A chain that ends has one symbol of a unit at most.
MaxChain == Cardinality(Units) + 2
Chain(n) == Steps(link, Bucket(n), MaxChain)

\* One common symbol makes another one grow in size or in alignment.
BiggerCommon(s, t) ==
  \/ s.size > t.size  /\ s.align >= t.align
  \/ s.size >= t.size /\ s.align > t.align

\* A new definition takes the place of an old one, or gives way to it.
SupersedesCommon(s, t) == s.type # "common" \/ (t.type = "common" /\ BiggerCommon(s, t))
EitherCommon(s, t) == s.type = "common" \/ t.type = "common"

\* What addglobsym() does when it comes to a symbol of the same name.
Meets(new, lib, old) ==
  IF new.type = "abs" /\ old.type = "abs" /\ new.size = old.size THEN "ignore"
  ELSE CASE old.bind = "global" /\ new.bind = "weak"   -> "ignore"
         [] old.bind = "global" /\ new.bind = "global" /\ lib -> "next"
         [] old.bind = "global" /\ new.bind = "global" /\ ~lib ->
              IF EitherCommon(new, old) THEN IF SupersedesCommon(new, old) THEN "replace" ELSE "ignore"
              ELSE "error"
         [] old.bind = "weak" /\ new.bind = "weak"     -> "ignore"
         [] OTHER                                      -> "replace"

\* The walk of addglobsym(): the verdict on a symbol and the place in the chain
\* where it is spoken.
Verdict(s) ==
  LET chain == Chain(NameOf(s))
      what(k) == IF chain[k + 1] = Nil THEN "append"
                 ELSE Meets(Sym(s), IsLib(UnitOf(s)), Sym(chain[k + 1]))
      first == CHOOSE k \in 0 .. MaxChain - 1 : what(k) # "next" /\ \A j \in 0 .. k - 1 : what(j) = "next"
  IN  [what |-> what(first), at |-> chain[first]]

\* addglobsym() with the verdict v on s: the chains, the symbol that makes room,
\* and what is reported.
Entered(v) == v.what \in {"append", "replace"}
addglobsym(s, v) ==
  CASE v.what = "append"  -> [link EXCEPT ![v.at] = s]
    [] v.what = "replace" -> [link EXCEPT ![v.at] = s, ![s] = link[link[v.at]]]
    [] OTHER              -> link
Displaced(v) == IF v.what = "replace" THEN {link[v.at]} ELSE {}
Redefined(s, v) == IF v.what = "error" THEN {<<19, NameOf(s)>>} ELSE {}

\* findsymbol(): a definition of the referring unit is the best one, then the
\* first, unless only a later one is linked already.
findsymbol(u, n) ==
  LET chain == Chain(n)
      all   == {k \in 1 .. MaxChain : chain[k] # Nil}
      own   == {k \in all : UnitOf(chain[k]) = u}
      inUse == {k \in all : UnitOf(chain[k]) \in linked}
      first(S) == chain[CHOOSE k \in S : \A j \in S : k <= j]
  IN  CASE own # {}                  -> first(own)
        [] own = {} /\ inUse # {}    -> first(inUse)
        [] own = {} /\ inUse = {}    -> chain[1]
IsIndirect(s) == s # Nil /\ Sym(s).type = "indir"

\* It does not return from a chain that goes in a circle.
Returns(u, n) == \E p \in {Chain(n)[k] : k \in 1 .. MaxChain} : p = Nil \/ UnitOf(p) = u

findlnksymbol(n) ==
  IF \E s \in lnksyms : NameOf(s) = n THEN CHOOSE s \in lnksyms : NameOf(s) = n ELSE Nil

xrefs(u) == CASE u = UNDEFSYMBOLS -> prog.undef
              [] u = INITEXIT     -> xtors
              [] OTHER            -> prog.xrefs[u]

----------------------------------------------------------------------------
(* Loading.                                                                *)

Init ==
  /\ prog \in Programs
  /\ phase = "load" /\ loaded = 0 /\ unread = {}
  /\ link = [p \in Places |-> Nil]
  /\ objsyms = {} /\ freed = {}
  /\ selobjects = <<>> /\ linked = {}
  /\ lnksyms = {} /\ pripointers = {} /\ xtors = <<>> /\ xtorsDone = FALSE
  /\ obj = 1 /\ indir = Nil
  /\ bound = [u \in Units \cup {UNDEFSYMBOLS, INITEXIT} |-> <<>>]
  /\ walk = [todo |-> {}, at |-> Nil]
  /\ errors = {}

\* readconv() comes to a symbol of the unit it is reading: addsymbol().  A symbol
\* that is not entered is freed, and so is one that has to make room.
LoadSymbol ==
  /\ phase = "load"
  /\ \E n \in unread : \E s \in {<<Files[loaded], n>>} : \E v \in {Verdict(s)} :
       /\ unread' = unread \ {n}
       /\ link' = addglobsym(s, v)
       /\ objsyms' = IF Entered(v) THEN (objsyms \ Displaced(v)) \cup {s} ELSE objsyms
       /\ freed' = freed \cup (IF Entered(v) THEN Displaced(v) ELSE {s})
       /\ errors' = errors \cup Redefined(s, v)
  /\ UNCHANGED <<prog, phase, loaded, selobjects, linked, lnksyms, obj, indir, bound, pripointers,
                 xtors, xtorsDone, walk>>

\* The next unit; add_objunit() for it.
LoadUnit ==
  LET u == Files[loaded + 1]
  IN  /\ phase = "load" /\ unread = {} /\ loaded < Len(Files)
      /\ loaded' = loaded + 1
      /\ unread' = {n \in Names : Defines(u, n)}
      /\ selobjects' = IF IsLib(u) THEN selobjects ELSE Append(selobjects, u)
      /\ linked' = IF IsLib(u) THEN linked ELSE linked \cup {u}
      /\ UNCHANGED <<prog, phase, link, objsyms, freed, lnksyms, obj, indir, bound, pripointers,
                     xtors, xtorsDone, walk, errors>>

\* The constructors that new_priptr() notes for a unit, by the name of the function.
Constructors(u) == {n \in CtorNames : <<u, n>> \in objsyms /\ Sym(<<u, n>>).bind = "global"}

\* collect_constructors() and add_undef_syms(), for which there must be an object.
LoadDone ==
  /\ phase = "load" /\ loaded = Len(Files) /\ unread = {}
  /\ phase' = IF selobjects # <<>> THEN "resolve" ELSE IF prog.undef = <<>> THEN "done" ELSE "ierror"
  /\ lnksyms' = lnksyms \cup {Label}
  /\ pripointers' = UNION {Constructors(u) : u \in linked}
  /\ IF prog.undef = <<>> \/ selobjects = <<>> THEN UNCHANGED <<selobjects, linked>>
     ELSE /\ selobjects' = Append(selobjects, UNDEFSYMBOLS)
          /\ linked' = linked \cup {UNDEFSYMBOLS}
  /\ UNCHANGED <<prog, loaded, unread, link, objsyms, freed, obj, indir, bound, xtors, xtorsDone, walk, errors>>

----------------------------------------------------------------------------
(* Resolving the references of the units in selobjects, for an executable.  *)

Xref == xrefs(Obj)[Len(bound[Obj]) + 1]
AtXref == phase = "resolve" /\ Len(bound[Obj]) < Len(xrefs(Obj))

\* The name that is looked for, and the symbol that findsymbol() returns.
Wanted == IF indir = Nil THEN Xref.name ELSE Sym(indir).to
Answer == findsymbol(Obj, Wanted)
Answers == AtXref /\ Returns(Obj, Wanted)

\* The symbol stands for another name.
FollowIndirect ==
  /\ Answers
  /\ IsIndirect(Answer)
  /\ indir' = Answer
  /\ UNCHANGED <<prog, phase, loaded, unread, link, objsyms, freed, selobjects, linked, lnksyms,
                 obj, bound, pripointers, xtors, xtorsDone, walk, errors>>

\* The definition for a reference, Nil when there is none.
Resolved(s) == IF s # Nil /\ (Xref.kind = "local" => UnitOf(s) = Obj) THEN s ELSE findlnksymbol(Xref.name)

Bind(s) == bound' = [bound EXCEPT ![Obj] = Append(@, s)] /\ indir' = Nil

\* The reference is resolved; the unit that has the definition is pulled in.
ResolveXref ==
  /\ Answers
  /\ \E a \in {Answer} : ~IsIndirect(a) /\ \E s \in {Resolved(a)} : \E u \in {UnitOf(s)} :
      /\ s # Nil
      /\ Bind(s)
      /\ IF IsLib(u) /\ u \notin linked
         THEN /\ phase' = "pull"
              /\ linked' = linked \cup {u}
              /\ selobjects' = InsertAt(selobjects, obj + 1, u)
              /\ pripointers' = pripointers \cup Constructors(u)
              /\ walk' = [todo |-> {n \in Names : <<u, n>> \in objsyms /\ Sym(<<u, n>>).bind = "global"},
                          at |-> Nil]
         ELSE UNCHANGED <<phase, linked, selobjects, pripointers, walk>>
      /\ UNCHANGED <<prog, loaded, unread, link, objsyms, freed, lnksyms, obj, xtors, xtorsDone, errors>>

\* There is no definition for the reference.
Missing == Answers /\ \E a \in {Answer} : ~IsIndirect(a) /\ Resolved(a) = Nil

\* Mutant: every reference is treated like a weak one.
UndefinedXref_MutAll ==
  /\ Missing
  /\ lnksyms' = lnksyms \cup {<<LNK, Xref.name>>}
  /\ Bind(<<LNK, Xref.name>>)
  /\ UNCHANGED errors
  /\ UNCHANGED <<prog, phase, loaded, unread, link, objsyms, freed, selobjects, linked, obj,
                 pripointers, xtors, xtorsDone, walk>>

\* No definition: a weak reference becomes absolute 0, another one is an error.
UndefinedXref ==
  /\ Missing
  /\ IF Xref.kind = "weak"
     THEN /\ lnksyms' = lnksyms \cup {<<LNK, Xref.name>>}
          /\ Bind(<<LNK, Xref.name>>)
          /\ UNCHANGED errors
     ELSE /\ errors' = errors \cup {<<21, Xref.name>>}
          /\ Bind(Nil)
          /\ UNCHANGED lnksyms
  /\ UNCHANGED <<prog, phase, loaded, unread, link, objsyms, freed, selobjects, linked, obj,
                 pripointers, xtors, xtorsDone, walk>>

\* The unit being pulled in: pull_objunit() runs inside a reference of Obj.
Pulled == UnitOf(bound[Obj][Len(bound[Obj])])

\* The walk comes to the chain of the next symbol of the unit.
PullSymbol ==
  /\ phase = "pull" /\ walk.at = Nil
  /\ \E n \in walk.todo : walk' = [todo |-> walk.todo \ {n}, at |-> Bucket(n)]
  /\ UNCHANGED <<prog, phase, loaded, unread, link, objsyms, freed, selobjects, linked, lnksyms,
                 obj, indir, bound, pripointers, xtors, xtorsDone, errors>>

\* Mutant: definitions replace one another like common symbols.
Clash_MutReplace(s, g) ==
  CASE g = s \/ UnitOf(g) \notin linked -> "none"
    [] OTHER -> "replace"

\* Mutant: it is not looked for other definitions.
Clash_MutNone(s, g) == "none"

\* check_global_objsym() for the symbol s that the unit brings and a symbol g
\* of the same name: what is to be done about them.
Clash(s, g) ==
  IF g = s \/ UnitOf(g) \notin linked THEN "none"
  ELSE IF ~EitherCommon(Sym(s), Sym(g)) THEN "error"
  ELSE IF SupersedesCommon(Sym(s), Sym(g)) THEN "replace" ELSE "ignore"

\* Mutant: the walk does not go on after a duplicate definition.
PullStep_MutStay ==
  LET n == NameOf(walk.at)
      s == <<Pulled, n>>
      g == link[walk.at]
      clash == Clash(s, g)
      relinked == [link EXCEPT ![s] = link[g], ![walk.at] = s]
      next(at) == walk' = [walk EXCEPT !.at = at]
  IN  /\ phase = "pull" /\ walk.at # Nil
      /\ CASE g = Nil -> next(Nil) /\ UNCHANGED <<phase, link, objsyms, freed, errors>>
           [] g # Nil /\ clash = "none" -> next(g) /\ UNCHANGED <<phase, link, objsyms, freed, errors>>
           [] g # Nil /\ clash = "error" ->
                /\ errors' = errors \cup {<<19, n>>}
                /\ UNCHANGED <<phase, link, objsyms, freed, walk>>
           [] g # Nil /\ clash = "replace" ->
                /\ link' = relinked /\ next(relinked[walk.at])
                /\ objsyms' = objsyms \ {g} /\ freed' = freed \cup {g}
                /\ UNCHANGED <<phase, errors>>
           [] g # Nil /\ clash = "ignore" ->
                /\ next(Nil) /\ objsyms' = objsyms \ {s}
                /\ UNCHANGED <<phase, link, freed, errors>>
      /\ UNCHANGED <<prog, loaded, unread, selobjects, linked, lnksyms, obj, indir, bound, pripointers,
                     xtors, xtorsDone>>

\* One round of the loop over the chain of a name.
PullStep ==
  LET n == NameOf(walk.at)
      s == <<Pulled, n>>
      g == link[walk.at]
      clash == Clash(s, g)
      relinked == [link EXCEPT ![s] = link[g], ![walk.at] = s]
      next(at) == walk' = [walk EXCEPT !.at = at]
  IN  /\ phase = "pull" /\ walk.at # Nil
      /\ CASE g = Nil -> next(Nil) /\ UNCHANGED <<phase, link, objsyms, freed, errors>>
           [] g # Nil /\ clash = "none" -> next(g) /\ UNCHANGED <<phase, link, objsyms, freed, errors>>
           [] g # Nil /\ clash = "error" ->
                /\ next(g) /\ errors' = errors \cup {<<19, n>>}
                /\ UNCHANGED <<phase, link, objsyms, freed>>
           [] g # Nil /\ clash = "replace" ->
                /\ link' = relinked /\ next(relinked[walk.at])
                /\ objsyms' = objsyms \ {g} /\ freed' = freed \cup {g}
                /\ phase' = IF g \in objsyms THEN phase ELSE "ierror"
                /\ UNCHANGED errors
           [] g # Nil /\ clash = "ignore" ->
                /\ next(Nil) /\ objsyms' = objsyms \ {s}
                /\ UNCHANGED <<phase, link, freed, errors>>
      /\ UNCHANGED <<prog, loaded, unread, selobjects, linked, lnksyms, obj, indir, bound, pripointers,
                     xtors, xtorsDone>>

PullDone ==
  /\ phase = "pull" /\ walk.at = Nil /\ walk.todo = {}
  /\ phase' = "resolve"
  /\ UNCHANGED <<prog, loaded, unread, link, objsyms, freed, selobjects, linked, lnksyms, obj,
                 indir, bound, pripointers, xtors, xtorsDone, walk, errors>>

\* make_constructors(): the list of constructors, when its label is referenced.
LabelReferenced == \E u \in linked : \E i \in DOMAIN bound[u] : bound[u][i] = Label

make_constructors ==
  IF LabelReferenced
  THEN \E v \in {Verdict(Label)} :
         /\ xtors' = SetToSeq({[name |-> n, kind |-> "strong"] : n \in pripointers})
         /\ selobjects' = Append(selobjects, INITEXIT)
         /\ linked' = linked \cup {INITEXIT}
         /\ lnksyms' = lnksyms \ {Label}
         /\ link' = addglobsym(Label, v)
         /\ objsyms' = (objsyms \ Displaced(v)) \cup {Label}
         /\ freed' = freed \cup Displaced(v)
         /\ errors' = errors \cup Redefined(Label, v)
  ELSE UNCHANGED <<xtors, selobjects, linked, lnksyms, link, objsyms, freed, errors>>

\* Mutant: the object that is made for the constructors is not visited.
NextObject_MutOldEnd ==
  /\ phase = "resolve" /\ ~AtXref
  /\ IF obj = Len(selobjects) /\ ~xtorsDone
     THEN make_constructors /\ xtorsDone' = TRUE
     ELSE UNCHANGED <<xtors, selobjects, linked, lnksyms, link, objsyms, freed, errors, xtorsDone>>
  /\ IF obj < Len(selobjects)
     THEN obj' = obj + 1 /\ UNCHANGED phase
     ELSE phase' = "done" /\ UNCHANGED obj
  /\ UNCHANGED <<prog, loaded, unread, indir, bound, pripointers, walk>>

\* The references of the object are all visited; on to the next one.
NextObject ==
  /\ phase = "resolve" /\ ~AtXref
  /\ IF obj = Len(selobjects) /\ ~xtorsDone
     THEN make_constructors /\ xtorsDone' = TRUE
     ELSE UNCHANGED <<xtors, selobjects, linked, lnksyms, link, objsyms, freed, errors, xtorsDone>>
  /\ IF obj < Len(selobjects')
     THEN obj' = obj + 1 /\ UNCHANGED phase
     ELSE phase' = "done" /\ UNCHANGED obj
  /\ UNCHANGED <<prog, loaded, unread, indir, bound, pripointers, walk>>

Next == \/ LoadUnit \/ LoadSymbol \/ LoadDone
        \/ FollowIndirect \/ ResolveXref \/ UndefinedXref \/ NextObject
        \/ PullSymbol \/ PullStep \/ PullDone

Spec == Init /\ [][Next]_vars /\ WF_vars(Next)

----------------------------------------------------------------------------
(* Properties.                                                             *)

\* A name that a library archive and another unit define, one of them as a
\* common symbol; and the linker's own name, when a unit defines it.
ArchiveCommon(n) ==
  \E u \in Members : \E w \in Units \ {u} :
    /\ Defines(u, n) /\ Defines(w, n)
    /\ EitherCommon(Sym(<<u, n>>), Sym(<<w, n>>))
Contested(n) == ArchiveCommon(n) \/ (n = CtorLabel /\ \E u \in Units : Defines(u, n))

\* The references visited so far, with what they are bound to.
Bound == UNION {{<<u, i>> : i \in DOMAIN bound[u]} : u \in linked}
BoundTo(r) == bound[r[1]][r[2]]
XrefOf(r) == xrefs(r[1])[r[2]]
RefsTo(n) == {r \in Bound : XrefOf(r).name = n}

\* A common symbol that a member of the program outgrows.
Outgrown(s) ==
  LET rival(u) == Sym(<<u, NameOf(s)>>)
  IN  /\ Sym(s).type = "common"
      /\ \E u \in (linked \cap Members) \ {UnitOf(s)} :
           Defines(u, NameOf(s)) /\ rival(u).bind = "global" /\ SupersedesCommon(rival(u), Sym(s))

\* A symbol of a unit that has the name of the list of constructors, when vlink defines it.
GivesWayToLabel(s) ==
  NameOf(s) = CtorLabel /\ INITEXIT \in linked /\ (Sym(s).bind = "weak" \/ Sym(s).type = "common")

\* The definitions of a name replace one another while units are read, while they are
\* pulled in and when the list of constructors is made, and each time a symbol is
\* freed (remove_obj_symbol() in targets.c) that a reference may be bound to by then.
\* It is one for a common symbol that a member pulled in later outgrows, and
\* nothing takes the reference to the member's symbol: the code dangles there.  It
\* dangles nowhere else, but for the name of the list of constructors: a proper
\* definition, a common symbol that no member outgrows, and whatever made room when the
\* files were read, are never the freed symbol that a reference is bound to.
OnlyOutgrownDangle ==
  \A r \in Bound : BoundTo(r) \in freed => Outgrown(BoundTo(r)) \/ GivesWayToLabel(BoundTo(r))

\* A linked program has one definition of a name: all references that lead to a name,
\* in whatever order the units were pulled in, are bound to the same symbol,
\* unless a duplicate definition is reported.
OneDefinition ==
  phase = "done" =>
    \A n \in Names : (~Contested(n) /\ <<19, n>> \notin errors) =>
      \A r, q \in Bound :
        ({BoundTo(r), BoundTo(q)} \subseteq Syms \ {<<LNK, n>>} /\ NameOf(BoundTo(r)) = n /\ NameOf(BoundTo(q)) = n)
          => BoundTo(r) = BoundTo(q)

\* A name that nobody defines, and that is not referenced weakly, is reported
\* wherever it is referenced; and no other name is, but for one that only stands for
\* another.
UndefinedReported ==
  phase = "done" =>
    \A n \in Names :
      LET definers == {u \in Units : Defines(u, n)}
          defined == n = CtorLabel \/ definers # {}
          kinds == {XrefOf(r).kind : r \in RefsTo(n)}
      IN  /\ ("strong" \in kinds /\ "weak" \notin kinds /\ ~defined) => <<21, n>> \in errors
          /\ (<<21, n>> \in errors /\ "local" \notin kinds)
               => ~defined \/ \E u \in definers : IsIndirect(<<u, n>>)

\* Two linked units with a proper global definition of the same name are
\* reported, whichever of them was linked first (the check is made when a file
\* is read, and again when a member is pulled in).
DuplicatesReported ==
  phase = "done" =>
    \A n \in Names : \A u, w \in Units \cap linked :
      (/\ u # w
       /\ \A v \in {u, w} : Sym(<<v, n>>).type \in {"def", "indir"} /\ Sym(<<v, n>>).bind = "global")
      => <<19, n>> \in errors

\* Every unit of the program has been visited when resolving ends, although
\* units are put into the list while it is walked over; the list has none
\* twice.  A member is in the program because a reference is bound to one of its
\* symbols, and what a reference is bound to is in the program.  The list of constructors
\* has those of all units, of the member pulled in last, too, unless a constructor is
\* contested or stands for another name: its reference could pull in a member then.
ProgramClosed ==
  phase = "done" =>
    /\ Range(selobjects) = linked /\ IsInjective(selobjects)
    /\ \A r \in Bound : BoundTo(r) \in objsyms => UnitOf(BoundTo(r)) \in linked
    /\ \A u \in linked : Len(bound[u]) = Len(xrefs(u))
    /\ \A u \in linked \cap Members : \E r \in Bound : UnitOf(BoundTo(r)) = u
    /\ (LabelReferenced /\ \A n \in pripointers : ~Contested(n) /\ \A u \in Units : ~IsIndirect(<<u, n>>))
         => \A u \in linked \cap Units : \A n \in Constructors(u) : \E i \in DOMAIN xtors : xtors[i].name = n

\* Resolving comes to an end, where no archive brings a common symbol into conflict.
Resolves == (\A n \in Names : ~Contested(n)) => <>(phase = "done")
=============================================================================
