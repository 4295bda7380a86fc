-------------------------- MODULE LinkMerge_proofs ---------------------------
(***************************************************************************)
(* Proofs about LinkMerge, for every program, all options and any number of *)
(* sections: no section is lost or linked twice, what belongs together is   *)
(* in one output section, garbage collection is closed, and relocations     *)
(* number the output sections as they are written.                          *)
(***************************************************************************)
EXTENDS LinkMerge, FiniteSetTheorems, SequenceTheorems, WellFoundedInduction, TLAPS

Phases == {"relrefs", "sectrefs", "gcsects", "collect", "merge", "spin", "dependencies",
           "layout", "relocate", "ierror", "done"}
Early == {"relrefs", "sectrefs", "gcsects"}        \* before sections are taken away
Late  == {"layout", "relocate", "ierror", "done"}  \* the output sections are made
Numbered == {"relocate", "ierror", "done"}         \* and numbered as they are written

Place == [offset : Int, size : Nat, commons : Seq(Int)]
OutputSection ==
  [index : Int, name : STRING, type : SectionTypes, uninit : BOOLEAN, protection : Protection,
   small : BOOLEAN, once : BOOLEAN, align : Alignment, sections : Seq(Secs), base : Int, size : Nat,
   filesize : Int, linked : BOOLEAN]

TypeInv ==
  /\ prog \in Programs /\ phase \in Phases
  /\ small \subseteq Secs /\ referenced \subseteq Secs /\ selected \subseteq Secs
  /\ seclist \in Seq(Secs) /\ pos \in Nat \ {0} /\ create_allowed \in BOOLEAN
  /\ stype \in {0} \cup SectionTypes
  /\ lnksec \in Seq(OutputSection) /\ nsecs \in Nat /\ va \in Int
  /\ place \in [Secs -> Place]

----------------------------------------------------------------------------
(* Where the sections are.                                                 *)

\* The sections of a list of output sections; each is there once.
AllOf(L) == UNION {Range(L[i].sections) : i \in DOMAIN L}
OneEach(L) ==
  \A i, j \in DOMAIN L : \A k \in DOMAIN L[i].sections, m \in DOMAIN L[j].sections :
    L[i].sections[k] = L[j].sections[m] => i = j /\ k = m

\* No element is in a list twice.
Distinct(list) == \A k, m \in DOMAIN list : list[k] = list[m] => k = m

Linked == AllOf(lnksec)
Held == selected \cup Range(seclist) \cup Linked

\* A section is in one place.
OnePlace ==
  /\ OneEach(lnksec) /\ Distinct(seclist)
  /\ selected \cap Range(seclist) = {}
  /\ Linked \cap (selected \cup Range(seclist)) = {}

\* The sections that garbage collection leaves.
Keeps(s) == \/ opt.gc = "none" \/ opt.dest_object
            \/ opt.gc = "empty" /\ (s \in referenced \/ sec(s).size > 0)
            \/ opt.gc = "all" /\ s \in referenced

\* No section is lost: the lists hold those of the types that are still to come.
NoneLost ==
  /\ phase \in Early => selected = Secs /\ lnksec = <<>> /\ seclist = <<>> /\ stype = 0 /\ nsecs = 0
  /\ phase \notin Early => Held = {s \in Secs : Keeps(s)}
  /\ phase = "collect" => seclist = <<>> /\ (\A s \in selected : sec(s).type >= stype)
  /\ phase = "merge" => \A s \in selected : ~opt.keep_sect_order /\ sec(s).type > stype
  /\ phase \in {"dependencies"} \cup Late => selected = {} /\ seclist = <<>>

\* The numbers that tell output sections apart while they are merged.
Numbers ==
  phase \notin Numbered =>
    /\ \A i \in DOMAIN lnksec : lnksec[i].index \in 0 .. nsecs - 1
    /\ \A i, j \in DOMAIN lnksec : lnksec[i].index = lnksec[j].index => i = j

\* The output section has the attributes of its sections.
Suits(ls, s) == ~Empty(s) => (s \in small => ls.small) /\ ls.align >= sec(s).align
Attributes == \A i \in DOMAIN lnksec : \A s \in Range(lnksec[i].sections) : Suits(lnksec[i], s)

PartInv == TypeInv /\ OnePlace /\ NoneLost /\ Numbers /\ Attributes

\* What get_matching_lnksec() finds to belong together, is together.
Related(s, t) ==
  \/ opt.auto_merge /\ opt.target # "hunk" /\ (RelRefs(s, t) \/ RelRefs(t, s))
  \/ /\ ~opt.dest_object /\ ~opt.multibase /\ (opt.target = "hunk" => opt.small_data)
     /\ \A u \in {s, t} : /\ u \in small /\ sec(u).size > 0
                          /\ opt.target = "hunk" => sec(u).type # CODE /\ sec(u).name # "_NOMERGE"
Together ==
  phase \in Late => \A i, j \in DOMAIN lnksec : \A s \in Range(lnksec[i].sections), t \in Range(lnksec[j].sections) :
                       Related(s, t) => i = j

\* Base-relative references made their targets small.
SmallTargets == phase # "relrefs" => small = {r.to : r \in {q \in refs : q.kind = "sd"}}

\* With gc, what a kept section refers to is kept.
Closed ==
  phase \notin {"relrefs", "sectrefs"} =>
    /\ \A r \in refs : Keeps(r.from) => Keeps(r.to)
    /\ (opt.gc = "all" /\ ~opt.dest_object) =>
         \A s \in referenced : s = entry_section \/ s \in prog.prot
                               \/ \E r \in refs : r.to = s /\ r.from \in referenced

Renumbered ==
  phase \in Numbered =>
    \A i \in DOMAIN lnksec : lnksec[i].linked =>
       lnksec[i].index = Cardinality({j \in 1 .. i - 1 : lnksec[j].linked})

\* The references have their value.
Written ==
  phase = "done" =>
    value = [r \in refs |-> IF Placed(r.from) /\ Placed(r.to) /\ (r.sym # 0 => ~opt.dest_object)
                            THEN Relocated(r) ELSE Unresolved]

\* Contents before sections without, and no contents in an output section that
\* was made for sections without.
FullFirst(list) == \A k, m \in DOMAIN list : k < m /\ Bss(list[k]) => Bss(list[m])
Typed ==
  /\ phase \in {"collect", "merge"} => \A s \in Linked : sec(s).type <= stype
  /\ phase = "merge" => \A s \in Range(seclist) : sec(s).type = stype
  /\ \A i \in DOMAIN lnksec :
       FullFirst(lnksec[i].sections)
  /\ \A i \in DOMAIN lnksec :
       lnksec[i].uninit => stype = UDATA /\ \A s \in Range(lnksec[i].sections) : Bss(s)
  /\ phase \notin Numbered =>
       \A i, j \in DOMAIN lnksec :
         lnksec[i].uninit /\ lnksec[i].index < lnksec[j].index => lnksec[j].uninit
TypedInv == ~opt.keep_sect_order => Typed

\* The places in the output sections that are laid out.
Laid(i) == i \in DOMAIN lnksec /\ (phase \in Numbered \/ i < pos)
InPlace(p, s, base) ==
  /\ p.offset >= 0 /\ (base + p.offset) % sec(s).align = 0
  /\ p.size >= sec(s).size
  /\ p.commons # <<>> => DOMAIN p.commons = DOMAIN sec(s).commons
  /\ \A k \in DOMAIN p.commons :
       /\ p.commons[k] >= sec(s).size
       /\ p.commons[k] + sec(s).commons[k].size <= p.size
       /\ (base + p.offset + p.commons[k]) % sec(s).commons[k].align = 0
       /\ \A m \in DOMAIN p.commons :
            k < m => p.commons[k] + sec(s).commons[k].size <= p.commons[m]
Fits(ls, pl) ==
  /\ \A s \in Range(ls.sections) : InPlace(pl[s], s, ls.base) /\ pl[s].offset + pl[s].size <= ls.size
  /\ \A k, m \in DOMAIN ls.sections :
       k < m => pl[ls.sections[k]].offset + pl[ls.sections[k]].size <= pl[ls.sections[m]].offset
  /\ ~opt.keep_sect_order =>
       \A s \in Range(ls.sections) : ~Bss(s) => pl[s].offset + sec(s).init <= ls.filesize
LaidOut ==
  phase \in Late =>
    /\ \A i \in DOMAIN lnksec : Laid(i) => Fits(lnksec[i], place)
    /\ opt.baseincr =>
         \A i \in DOMAIN lnksec :
           Laid(i) => /\ lnksec[i].base + lnksec[i].size <= va
                      /\ \A j \in DOMAIN lnksec :
                           Laid(j) /\ i < j => lnksec[i].base + lnksec[i].size <= lnksec[j].base

-----------------------------------------------------------------------------
(* Induction over the naturals, for sets, and what follows from it.          *)

LEMMA Below ==
  ASSUME NEW x \in Nat, NEW y \in Nat, y < x
  PROVE  <<y, x>> \in OpToRel(<, Nat)
<1> DEFINE pair == <<y, x>>
<1>1. pair \in Nat \X Nat /\ pair[1] < pair[2]
  OBVIOUS
<1> HIDE DEF pair
<1>2. pair \in {p \in Nat \X Nat : p[1] < p[2]}
  BY <1>1
<1>3. {p \in Nat \X Nat : p[1] < p[2]} = OpToRel(<, Nat)
  BY DEF OpToRel
<1> QED
  BY <1>2, <1>3 DEF pair

LEMMA SetInduction ==
  ASSUME NEW S, 0 \in S, \A n \in Nat : n \in S => n + 1 \in S
  PROVE  \A n \in Nat : n \in S
<1> DEFINE T == Nat \ S
           R == OpToRel(<, Nat)
<1>1. \A x \in Nat : \A y \in Nat : y < x => <<y, x>> \in R
  BY Below, Zenon
<1>2. SUFFICES ASSUME T # {} PROVE FALSE
  OBVIOUS
<1>3. PICK x \in T : \A y \in T : <<y, x>> \notin R
  <2>1. T \subseteq Nat /\ IsWellFoundedOn(R, Nat)
    BY NatLessThanWellFounded
  <2> HIDE DEF T, R
  <2> QED
    BY <1>2, <2>1, WFMin, Zenon
<1> HIDE DEF R
<1>4. x # 0 /\ x \in Nat
  OBVIOUS
<1>5. x - 1 \in Nat /\ x - 1 < x
  BY <1>4
<1>6. x - 1 \notin T
  BY <1>1, <1>3, <1>4, <1>5
<1> QED
  BY <1>4, <1>5, <1>6

LEMMA MinIs ==
  ASSUME NEW S \in SUBSET Nat, S # {}
  PROVE  Min(S) \in S /\ \A y \in S : Min(S) <= y
<1> DEFINE R == OpToRel(<, Nat)
<1>1. \A x \in Nat : \A y \in Nat : y < x => <<y, x>> \in R
  BY Below, Zenon
<1>2. PICK x \in S : \A y \in S : <<y, x>> \notin R
  <2>1. S \subseteq Nat /\ IsWellFoundedOn(R, Nat)
    BY NatLessThanWellFounded
  <2> HIDE DEF R
  <2> QED
    BY <2>1, WFMin, Zenon
<1> HIDE DEF R
<1>3. ASSUME NEW y \in S PROVE x <= y
  <2>1. x \in Nat /\ y \in Nat /\ ~(y < x)
    BY <1>1, <1>2
  <2> QED
    BY <2>1
<1>4. \E z \in S : \A y \in S : z =< y
  BY <1>3
<1> QED
  BY <1>4 DEF Min

LEMMA MaxIs ==
  ASSUME NEW S \in SUBSET Nat, S # {}, NEW b \in Nat, \A x \in S : x <= b
  PROVE  Max(S) \in S /\ \A y \in S : Max(S) >= y
<1> DEFINE T == {n \in Nat : \A x \in S : x <= n}
<1>1. T \in SUBSET Nat /\ T # {}
  <2>1. b \in T
    OBVIOUS
  <2> QED
    BY <2>1
<1>2. Min(T) \in T /\ \A y \in T : Min(T) <= y
  BY <1>1, MinIs
<1> DEFINE m == Min(T)
<1>3. m \in Nat /\ (\A x \in S : x <= m) /\ (\A y \in T : m <= y)
  <2> HIDE DEF m
  <2>1. m \in T /\ \A y \in T : m <= y
    BY <1>2 DEF m
  <2> QED
    BY <2>1
<1>4. m \in S
  <2>1. SUFFICES ASSUME m \notin S PROVE FALSE
    OBVIOUS
  <2> HIDE DEF m
  <2>2. \A x \in S : x <= m - 1
    BY <1>3, <2>1
  <2>3. m - 1 \in Nat
    <3>1. PICK x \in S : x <= m - 1 /\ x \in Nat
      BY <2>2
    <3> QED
      BY <1>3, <3>1
  <2>4. m - 1 \in T
    BY <2>2, <2>3
  <2> QED
    BY <1>3, <2>4
<1> HIDE DEF m
<1>5. \E z \in S : \A y \in S : z >= y
  BY <1>3, <1>4
<1> QED
  BY <1>5 DEF Max

(* A recursive function exists, and has the type of its values. *)
Chain(N, T, a, g, f) ==
  f \in [0..N -> T] /\ f[0] = a /\ \A k \in 1..N : f[k] = g[k][f[k - 1]]

LEMMA Recursion ==
  ASSUME NEW N \in Nat, NEW T, NEW a \in T, NEW g \in [1..N -> [T -> T]]
  PROVE  \E f : Chain(N, T, a, g, f)
<1> DEFINE Is(f, n) == /\ f \in [0..n -> T] /\ f[0] = a
                       /\ \A k \in 1..n : f[k] = g[k][f[k - 1]]
           S == {n \in Nat : n <= N => \E f : Is(f, n)}
<1>1. 0 \in S
  <2>1. Is([i \in 0..0 |-> a], 0)
    OBVIOUS
  <2> QED
    BY <2>1
<1>2. ASSUME NEW n \in Nat, n \in S PROVE n + 1 \in S
  <2>1. SUFFICES ASSUME n + 1 <= N PROVE \E f : Is(f, n + 1)
    OBVIOUS
  <2>2. PICK f : Is(f, n)
    BY <1>2, <2>1
  <2> DEFINE h == [i \in 0..n + 1 |-> IF i <= n THEN f[i] ELSE g[n + 1][f[n]]]
  <2>3. g[n + 1][f[n]] \in T
    BY <2>1, <2>2
  <2>4. h \in [0..n + 1 -> T] /\ h[0] = a
    BY <2>2, <2>3
  <2>5. ASSUME NEW k \in 1..n + 1 PROVE h[k] = g[k][h[k - 1]]
    <3>1. CASE k <= n
      <4>1. h[k] = f[k] /\ h[k - 1] = f[k - 1] /\ k \in 1..n
        BY <3>1
      <4> HIDE DEF h
      <4> QED
        BY <2>2, <4>1
    <3>2. CASE ~(k <= n)
      <4>1. k = n + 1 /\ k \in 0..n + 1 /\ k - 1 = n /\ n \in 0..n + 1
        BY <3>2
      <4>2. h[n + 1] = g[n + 1][f[n]] /\ h[n] = f[n]
        OBVIOUS
      <4> HIDE DEF h
      <4> QED
        BY <4>1, <4>2
    <3> QED
      BY <3>1, <3>2
  <2> HIDE DEF h
  <2> QED
    BY <2>4, <2>5
<1> HIDE DEF S
<1>3. N \in S
  BY <1>1, <1>2, SetInduction
<1>4. PICK f : Is(f, N)
  BY <1>3 DEF S
<1>5. Chain(N, T, a, g, f)
  BY <1>4 DEF Chain
<1> QED
  BY <1>5

(* It is the only one. *)
LEMMA SameChain ==
  ASSUME NEW N \in Nat, NEW f, NEW o, o[0] = f[0],
         \A n \in 1..N : o[n - 1] = f[n - 1] => o[n] = f[n]
  PROVE  \A n \in 0..N : o[n] = f[n]
<1> DEFINE U == {n \in Nat : n <= N => o[n] = f[n]}
<1>1. 0 \in U
  OBVIOUS
<1>2. ASSUME NEW n \in Nat, n \in U PROVE n + 1 \in U
  <2>1. n + 1 <= N => n + 1 \in 1..N /\ (n + 1) - 1 = n /\ o[n] = f[n]
    BY <1>2
  <2> QED
    BY <2>1
<1> HIDE DEF U
<1>3. \A n \in Nat : n \in U
  BY <1>1, <1>2, SetInduction
<1> QED
  BY <1>3 DEF U

(* Lists. *)

\* How many elements before the i-th one are in S.
Before(list, S, i) == Cardinality({j \in 1..i - 1 : list[j] \in S})

LEMMA BeforeStep ==
  ASSUME NEW list, NEW S, NEW i \in Nat \ {0}
  PROVE  /\ Before(list, S, i) \in Nat
         /\ list[i] \in S => Before(list, S, i + 1) = Before(list, S, i) + 1
         /\ list[i] \notin S => Before(list, S, i + 1) = Before(list, S, i)
         /\ Before(list, S, 1) = 0
<1> DEFINE T == {j \in 1..i - 1 : list[j] \in S}
           U == {j \in 1..(i + 1) - 1 : list[j] \in S}
<1>1. IsFiniteSet(T) /\ i \notin T
  <2>1. IsFiniteSet(1..i - 1)
    BY FS_Interval
  <2>2. T \subseteq 1..i - 1 /\ i \notin T
    OBVIOUS
  <2> QED
    BY <2>1, <2>2, FS_Subset
<1>2. U = IF list[i] \in S THEN T \cup {i} ELSE T
  <2>1. ASSUME NEW j PROVE j \in 1..(i + 1) - 1 <=> j \in 1..i - 1 \/ j = i
    OBVIOUS
  <2> QED
    BY <2>1
<1>3. Cardinality(T) \in Nat
  BY <1>1, FS_CardinalityType
<1>4. Cardinality(T \cup {i}) = Cardinality(T) + 1
  BY <1>1, FS_AddElement
<1>5. {j \in 1..1 - 1 : list[j] \in S} = {}
  OBVIOUS
<1> QED
  BY <1>2, <1>3, <1>4, <1>5, FS_EmptySet DEF Before

OnlyNext(list, S, n, v) == IF list[n] \in S THEN Append(v, list[n]) ELSE v

OnlyChain(T, list, S, f) ==
  /\ f \in [0..Len(list) -> Seq(T)] /\ f[0] = <<>>
  /\ \A n \in 1..Len(list) : f[n] = OnlyNext(list, S, n, f[n - 1])
  /\ Only(list, S) = f[Len(list)]

LEMMA OnlyExists ==
  ASSUME NEW T, NEW list \in Seq(T), NEW S
  PROVE  \E f : OnlyChain(T, list, S, f)
<1> DEFINE N == Len(list)
           V == Seq(T)
           empty == <<>>
           next(n, v) == OnlyNext(list, S, n, v)
           Is(f) == f = [n \in 0..N |-> IF n = 0 THEN empty ELSE next(n, f[n - 1])]
           g == [n \in 1..N |-> [v \in V |-> next(n, v)]]
<1>1. N \in Nat /\ \A n \in 1..N : list[n] \in T
  OBVIOUS
<1>2. empty \in V
  OBVIOUS
<1>3. ASSUME NEW n \in 1..N, NEW v \in V PROVE next(n, v) \in V
  BY <1>1, AppendProperties DEF OnlyNext
<1>4. Only(list, S) = (CHOOSE f : Is(f))[N]
  BY DEF Only, OnlyNext
<1> HIDE DEF N, V, empty, next
<1>5. g \in [1..N -> [V -> V]] /\ \A n \in 1..N : \A v \in V : g[n][v] = next(n, v)
  BY <1>3
<1> HIDE DEF g
<1>6. PICK f \in [0..N -> V] : f[0] = empty /\ \A k \in 1..N : f[k] = g[k][f[k - 1]]
  <2>1. N \in Nat /\ empty \in V /\ g \in [1..N -> [V -> V]]
    BY <1>1, <1>2, <1>5
  <2>2. PICK f : Chain(N, V, empty, g, f)
    BY <2>1, Recursion
  <2> QED
    BY <2>2 DEF Chain
<1>7. \A n \in 0..N : n = 0 \/ n \in 1..N
  BY <1>1
<1>8. \A n \in 1..N : n - 1 \in 0..N /\ n \in 0..N /\ n # 0
  BY <1>1
<1>9. \A n \in 1..N : f[n] = next(n, f[n - 1])
  BY <1>5, <1>6, <1>8
<1>10. Is(f)
  <2>1. \A n \in 0..N : f[n] = IF n = 0 THEN empty ELSE next(n, f[n - 1])
    BY <1>6, <1>7, <1>9
  <2> QED
    BY <1>6, <2>1
<1> DEFINE o == CHOOSE f2 : Is(f2)
<1>11. Is(o)
  <2> HIDE DEF Is
  <2> QED
    BY <1>10
<1> HIDE DEF o
<1>12. \A n \in 0..N : o[n] = IF n = 0 THEN empty ELSE next(n, o[n - 1])
  BY <1>11
<1>13. o[0] = f[0] /\ \A n \in 1..N : o[n - 1] = f[n - 1] => o[n] = f[n]
  BY <1>1, <1>6, <1>8, <1>9, <1>12
<1>14. o[N] = f[N]
  <2>1. \A n \in 0..N : o[n] = f[n]
    BY <1>1, <1>13, SameChain
  <2> QED
    BY <1>1, <2>1
<1>15. OnlyChain(T, list, S, f)
  BY <1>4, <1>6, <1>9, <1>14 DEF N, V, empty, next, o, OnlyChain
<1> QED
  BY <1>15

(* The elements of the list in S, in their order: the k-th of them was at     *)
(* place h[k], and the element at place i has Before(list, S, i) before it.   *)
OnlyMap(list, S, q, h) ==
  /\ h \in [1..Len(q) -> 1..Len(list)]
  /\ \A k \in 1..Len(q) : q[k] = list[h[k]] /\ list[h[k]] \in S
  /\ \A k, m \in 1..Len(q) : k < m => h[k] < h[m]
  /\ \A i \in 1..Len(list) : list[i] \in S =>
       Before(list, S, i) + 1 \in 1..Len(q) /\ h[Before(list, S, i) + 1] = i

LEMMA OnlyIs ==
  ASSUME NEW T, NEW list \in Seq(T), NEW S
  PROVE  Only(list, S) \in Seq(T) /\ \E h : OnlyMap(list, S, Only(list, S), h)
<1> DEFINE N == Len(list)
           at(i) == Before(list, S, i)
<1>1. PICK f : OnlyChain(T, list, S, f)
  BY OnlyExists
<1>0. /\ f \in [0..N -> Seq(T)] /\ f[0] = <<>>
      /\ \A n \in 1..N : f[n] = OnlyNext(list, S, n, f[n - 1])
      /\ Only(list, S) = f[N]
  BY <1>1 DEF OnlyChain
<1>2. N \in Nat /\ \A n \in 1..N : list[n] \in T
  OBVIOUS
<1>3. ASSUME NEW i \in Nat \ {0}
      PROVE  /\ at(i) \in Nat
             /\ list[i] \in S => at(i + 1) = at(i) + 1
             /\ list[i] \notin S => at(i + 1) = at(i)
  BY BeforeStep
<1>4. at(1) = 0
  BY BeforeStep
<1> HIDE DEF N, at
<1> DEFINE Good(q, n, h) ==
             /\ h \in [1..Len(q) -> 1..n]
             /\ \A k \in 1..Len(q) : q[k] = list[h[k]] /\ list[h[k]] \in S
             /\ \A k, m \in 1..Len(q) : k < m => h[k] < h[m]
             /\ \A i \in 1..n : list[i] \in S => at(i) + 1 \in 1..Len(q) /\ h[at(i) + 1] = i
             /\ Len(q) = at(n + 1)
           U == {n \in Nat : n <= N => \E h : Good(f[n], n, h)}
<1>5. 0 \in U
  <2>1. Good(f[0], 0, [k \in 1..0 |-> 0])
    BY <1>0, <1>4
  <2> QED
    BY <2>1
<1>6. ASSUME NEW n \in Nat, n \in U PROVE n + 1 \in U
  <2>1. SUFFICES ASSUME n + 1 <= N PROVE \E h : Good(f[n + 1], n + 1, h)
    OBVIOUS
  <2>2. PICK h : Good(f[n], n, h)
    <3> HIDE DEF Good
    <3> QED
      BY <1>2, <1>6, <2>1
  <2>3. n + 1 \in 1..N /\ (n + 1) - 1 = n /\ n \in 0..N /\ n + 1 \in Nat \ {0}
    BY <1>2, <2>1
  <2>4. f[n] \in Seq(T) /\ Len(f[n]) \in Nat /\ list[n + 1] \in T
    BY <1>0, <1>2, <2>3
  <2>5. CASE list[n + 1] \in S
    <3> DEFINE L == Len(f[n])
               q == Append(f[n], list[n + 1])
               h2 == [k \in 1..L + 1 |-> IF k <= L THEN h[k] ELSE n + 1]
    <3>1. f[n + 1] = q
      BY <1>0, <2>3, <2>5 DEF OnlyNext
    <3>2. /\ Len(q) = L + 1 /\ q[L + 1] = list[n + 1]
          /\ \A k \in 1..L : q[k] = f[n][k]
      BY <2>4, AppendProperties
    <3>3. at((n + 1) + 1) = L + 1 /\ at(n + 1) = L
      BY <1>3, <2>2, <2>3, <2>4, <2>5
    <3>4. /\ h \in [1..L -> 1..n]
          /\ \A k \in 1..L : f[n][k] = list[h[k]] /\ list[h[k]] \in S
          /\ \A k, m \in 1..L : k < m => h[k] < h[m]
          /\ \A i \in 1..n : list[i] \in S => at(i) + 1 \in 1..L /\ h[at(i) + 1] = i
      BY <2>2
    <3>5. L \in Nat
      BY <2>4
    <3> HIDE DEF L, q
    <3>6. h2 \in [1..L + 1 -> 1..n + 1]
      BY <3>4, <3>5
    <3>7. \A k \in 1..L + 1 : k \in 1..L \/ k = L + 1
      BY <3>5
    <3>8. (\A k \in 1..L : h2[k] = h[k]) /\ h2[L + 1] = n + 1
      BY <3>5
    <3> HIDE DEF h2
    <3>9. \A k \in 1..L + 1 : q[k] = list[h2[k]] /\ list[h2[k]] \in S
      BY <2>5, <3>2, <3>4, <3>7, <3>8
    <3>10. ASSUME NEW k \in 1..L + 1, NEW m \in 1..L + 1, k < m PROVE h2[k] < h2[m]
      <4>1. k \in 1..L
        BY <3>5, <3>10
      <4>2. CASE m \in 1..L
        BY <3>4, <3>8, <3>10, <4>1, <4>2
      <4>3. CASE m = L + 1
        <5>1. h2[k] \in 1..n /\ h2[m] = n + 1
          BY <3>4, <3>8, <4>1, <4>3
        <5> QED
          BY <5>1
      <4> QED
        BY <3>7, <4>2, <4>3
    <3>11. ASSUME NEW i \in 1..n + 1, list[i] \in S
           PROVE  at(i) + 1 \in 1..L + 1 /\ h2[at(i) + 1] = i
      <4>1. CASE i \in 1..n
        <5>1. at(i) + 1 \in 1..L /\ h[at(i) + 1] = i
          BY <3>4, <3>11, <4>1
        <5> QED
          BY <3>5, <3>8, <5>1
      <4>2. CASE i = n + 1
        BY <3>3, <3>5, <3>8, <4>2
      <4> QED
        BY <4>1, <4>2
    <3>12. Good(q, n + 1, h2)
      BY <3>2, <3>3, <3>6, <3>9, <3>10, <3>11
    <3> QED
      BY <3>1, <3>12
  <2>6. CASE list[n + 1] \notin S
    <3>1. f[n + 1] = f[n]
      BY <1>0, <2>3, <2>6 DEF OnlyNext
    <3>2. at((n + 1) + 1) = at(n + 1)
      BY <1>3, <2>3, <2>6
    <3> DEFINE q == f[n]
    <3>3. /\ h \in [1..Len(q) -> 1..n]
          /\ \A k \in 1..Len(q) : q[k] = list[h[k]] /\ list[h[k]] \in S
          /\ \A k, m \in 1..Len(q) : k < m => h[k] < h[m]
          /\ \A i \in 1..n : list[i] \in S => at(i) + 1 \in 1..Len(q) /\ h[at(i) + 1] = i
          /\ Len(q) = at(n + 1)
      BY <2>2
    <3> HIDE DEF q
    <3>4. 1..n \subseteq 1..n + 1 /\ \A i \in 1..n + 1 : i \in 1..n \/ i = n + 1
      OBVIOUS
    <3>5. Good(q, n + 1, h)
      BY <2>6, <3>2, <3>3, <3>4
    <3> QED
      BY <3>1, <3>5 DEF q
  <2> QED
    BY <2>5, <2>6
<1> HIDE DEF U
<1>7. N \in U
  BY <1>2, <1>5, <1>6, SetInduction
<1>8. \E h : Good(f[N], N, h)
  <2> HIDE DEF Good
  <2> QED
    BY <1>2, <1>7 DEF U
<1>9. f[N] \in Seq(T)
  BY <1>0, <1>2
<1>10. PICK h : Good(f[N], N, h)
  <2> HIDE DEF Good
  <2> QED
    BY <1>8
<1> DEFINE q == f[N]
<1>11. /\ h \in [1..Len(q) -> 1..N]
       /\ \A k \in 1..Len(q) : q[k] = list[h[k]] /\ list[h[k]] \in S
       /\ \A k, m \in 1..Len(q) : k < m => h[k] < h[m]
       /\ \A i \in 1..N : list[i] \in S => at(i) + 1 \in 1..Len(q) /\ h[at(i) + 1] = i
  BY <1>10
<1>12. q = Only(list, S)
  BY <1>0
<1> HIDE DEF q, Good
<1>13. OnlyMap(list, S, q, h)
  BY <1>11 DEF N, at, OnlyMap
<1> QED
  BY <1>9, <1>12, <1>13 DEF q

\* Lists with no element in common.
Apart(a, b) == \A k \in DOMAIN a, m \in DOMAIN b : a[k] # b[m]

LEMMA OnlyParts ==
  ASSUME NEW T, NEW list \in Seq(T), NEW S
  PROVE  /\ Only(list, S) \in Seq(T)
         /\ Range(Only(list, S)) = Range(list) \cap S
         /\ Distinct(list) => Distinct(Only(list, S))
<1> DEFINE q == Only(list, S)
<1>1. q \in Seq(T)
  BY OnlyIs
<1>2. PICK h : OnlyMap(list, S, q, h)
  BY OnlyIs
<1> HIDE DEF q
<1>3. /\ h \in [1..Len(q) -> 1..Len(list)]
      /\ \A k \in 1..Len(q) : q[k] = list[h[k]] /\ list[h[k]] \in S
      /\ \A k, m \in 1..Len(q) : k < m => h[k] < h[m]
      /\ \A i \in 1..Len(list) : list[i] \in S => \E k \in 1..Len(q) : h[k] = i
  BY <1>2 DEF OnlyMap
<1>4. DOMAIN q = 1..Len(q) /\ DOMAIN list = 1..Len(list) /\ Len(q) \in Nat /\ Len(list) \in Nat
  BY <1>1
<1>5. \A x : x \in Range(q) => x \in Range(list) /\ x \in S
  BY <1>3, <1>4 DEF Range
<1>6. \A x : x \in Range(list) /\ x \in S => x \in Range(q)
  <2>1. SUFFICES ASSUME NEW i \in 1..Len(list), list[i] \in S PROVE list[i] \in Range(q)
    BY <1>4 DEF Range
  <2>2. PICK k \in 1..Len(q) : h[k] = i
    BY <1>3, <2>1
  <2>3. q[k] = list[i] /\ k \in DOMAIN q
    BY <1>3, <1>4, <2>2
  <2> QED
    BY <2>3 DEF Range
<1>7. ASSUME Distinct(list), NEW k \in 1..Len(q), NEW m \in 1..Len(q), q[k] = q[m]
      PROVE  k = m
  <2>1. h[k] \in 1..Len(list) /\ h[m] \in 1..Len(list) /\ list[h[k]] = list[h[m]]
    BY <1>3, <1>7
  <2>2. h[k] = h[m]
    BY <1>4, <1>7, <2>1 DEF Distinct
  <2>3. ~(k < m) /\ ~(m < k)
    BY <1>3, <2>1, <2>2
  <2> QED
    BY <1>4, <2>3
<1> QED
  BY <1>1, <1>4, <1>5, <1>6, <1>7 DEF q, Distinct

LEMMA ConcatParts ==
  ASSUME NEW T, NEW a \in Seq(T), NEW b \in Seq(T)
  PROVE  /\ a \o b \in Seq(T)
         /\ Range(a \o b) = Range(a) \cup Range(b)
         /\ Distinct(a) /\ Distinct(b) /\ Apart(a, b) => Distinct(a \o b)
         /\ DOMAIN (a \o b) = 1..Len(a) + Len(b)
         /\ \A k \in 1..Len(a) + Len(b) :
              (a \o b)[k] = IF k <= Len(a) THEN a[k] ELSE b[k - Len(a)]
<1>1. /\ a \o b \in Seq(T) /\ Len(a \o b) = Len(a) + Len(b)
      /\ \A k \in 1..Len(a) + Len(b) :
              (a \o b)[k] = IF k <= Len(a) THEN a[k] ELSE b[k - Len(a)]
  BY ConcatProperties
<1>2. Range(a \o b) = Range(a) \cup Range(b)
  BY RangeConcatenation
<1>3. DOMAIN (a \o b) = 1..Len(a) + Len(b) /\ Len(a) \in Nat /\ Len(b) \in Nat
      /\ DOMAIN a = 1..Len(a) /\ DOMAIN b = 1..Len(b)
  BY <1>1
<1> DEFINE c == a \o b
<1>4. ASSUME Distinct(a), Distinct(b), Apart(a, b),
             NEW k \in 1..Len(a) + Len(b), NEW m \in 1..Len(a) + Len(b), c[k] = c[m]
      PROVE  k = m
  <2>1. /\ k <= Len(a) => k \in DOMAIN a /\ c[k] = a[k]
        /\ m <= Len(a) => m \in DOMAIN a /\ c[m] = a[m]
    BY <1>1, <1>3
  <2>2. /\ ~(k <= Len(a)) => k - Len(a) \in DOMAIN b /\ c[k] = b[k - Len(a)]
        /\ ~(m <= Len(a)) => m - Len(a) \in DOMAIN b /\ c[m] = b[m - Len(a)]
    BY <1>1, <1>3
  <2>3. k \in Int /\ m \in Int
    BY <1>3
  <2> HIDE DEF c
  <2>4. ~(k <= Len(a)) /\ ~(m <= Len(a)) => k - Len(a) = m - Len(a)
    BY <1>4, <2>2 DEF Distinct
  <2>5. (k <= Len(a)) /\ (m <= Len(a)) => k = m
    BY <1>4, <2>1 DEF Distinct
  <2>6. (k <= Len(a)) <=> (m <= Len(a))
    BY <1>4, <2>1, <2>2 DEF Apart
  <2> QED
    BY <1>3, <2>3, <2>4, <2>5, <2>6
<1> QED
  BY <1>1, <1>2, <1>3, <1>4 DEF Distinct

LEMMA SubSeqParts ==
  ASSUME NEW T, NEW a \in Seq(T), NEW m \in 1..Len(a) + 1, NEW n \in m - 1..Len(a)
  PROVE  /\ SubSeq(a, m, n) \in Seq(T)
         /\ DOMAIN SubSeq(a, m, n) = 1..n - m + 1 /\ Len(SubSeq(a, m, n)) = n - m + 1
         /\ \A k \in 1..n - m + 1 : SubSeq(a, m, n)[k] = a[m + k - 1] /\ m + k - 1 \in m..n
         /\ Distinct(a) => Distinct(SubSeq(a, m, n))
<1>1. /\ SubSeq(a, m, n) \in Seq(T) /\ Len(SubSeq(a, m, n)) = n - m + 1
      /\ \A k \in 1..n - m + 1 : SubSeq(a, m, n)[k] = a[m + k - 1]
  BY SubSeqProperties
<1>2. Len(a) \in Nat /\ m \in Int /\ n \in Int /\ DOMAIN a = 1..Len(a)
  OBVIOUS
<1>3. DOMAIN SubSeq(a, m, n) = 1..n - m + 1
  BY <1>1
<1>4. \A k \in 1..n - m + 1 : m + k - 1 \in m..n /\ m + k - 1 \in DOMAIN a
  BY <1>2
<1>5. ASSUME Distinct(a), NEW k \in 1..n - m + 1, NEW l \in 1..n - m + 1,
             SubSeq(a, m, n)[k] = SubSeq(a, m, n)[l]
      PROVE  k = l
  <2>1. m + k - 1 = m + l - 1
    BY <1>1, <1>4, <1>5 DEF Distinct
  <2> QED
    BY <1>2, <2>1
<1> QED
  BY <1>1, <1>3, <1>4, <1>5 DEF Distinct

LEMMA RemoveAtParts ==
  ASSUME NEW T, NEW a \in Seq(T), NEW i \in 1..Len(a)
  PROVE  /\ RemoveAt(a, i) \in Seq(T)
         /\ DOMAIN RemoveAt(a, i) = 1..Len(a) - 1 /\ Len(RemoveAt(a, i)) = Len(a) - 1
         /\ \A k \in 1..Len(a) - 1 : RemoveAt(a, i)[k] = IF k < i THEN a[k] ELSE a[k + 1]
<1> DEFINE b == SubSeq(a, 1, i - 1)
           c == SubSeq(a, i + 1, Len(a))
<1>1. Len(a) \in Nat /\ i \in Nat /\ 1 <= i /\ i <= Len(a)
  OBVIOUS
<1>2. /\ b \in Seq(T) /\ Len(b) = (i - 1) - 1 + 1
      /\ \A k \in 1..(i - 1) - 1 + 1 : b[k] = a[1 + k - 1]
  <2>1. 1 \in 1..Len(a) + 1 /\ i - 1 \in 1 - 1..Len(a)
    BY <1>1
  <2> QED
    BY <2>1, SubSeqParts
<1>3. /\ c \in Seq(T) /\ Len(c) = Len(a) - (i + 1) + 1
      /\ \A k \in 1..Len(a) - (i + 1) + 1 : c[k] = a[i + 1 + k - 1]
  <2>1. i + 1 \in 1..Len(a) + 1 /\ Len(a) \in (i + 1) - 1..Len(a)
    BY <1>1
  <2> QED
    BY <2>1, SubSeqParts
<1>4. Len(b) = i - 1 /\ \A k \in 1..i - 1 : b[k] = a[k]
  BY <1>1, <1>2
<1>5. Len(c) = Len(a) - i /\ \A k \in 1..Len(a) - i : c[k] = a[i + k]
  BY <1>1, <1>3
<1> HIDE DEF b, c
<1>6. /\ b \o c \in Seq(T) /\ DOMAIN (b \o c) = 1..Len(b) + Len(c) /\ Len(b \o c) = Len(b) + Len(c)
      /\ \A k \in 1..Len(b) + Len(c) : (b \o c)[k] = IF k <= Len(b) THEN b[k] ELSE c[k - Len(b)]
  <2>1. b \in Seq(T) /\ c \in Seq(T)
    BY <1>2, <1>3
  <2>2. DOMAIN (b \o c) = 1..Len(b) + Len(c)
    BY <2>1, ConcatParts
  <2> QED
    BY <2>1, <2>2, ConcatProperties
<1>7. Len(b) + Len(c) = Len(a) - 1
  BY <1>1, <1>4, <1>5
<1> DEFINE r == b \o c
<1>8. \A k \in 1..Len(a) - 1 : r[k] = IF k <= i - 1 THEN b[k] ELSE c[k - (i - 1)]
  BY <1>4, <1>6, <1>7
<1> HIDE DEF r
<1>9. ASSUME NEW k \in 1..Len(a) - 1 PROVE r[k] = IF k < i THEN a[k] ELSE a[k + 1]
  <2>1. CASE k < i
    <3>1. k \in 1..i - 1 /\ k <= i - 1
      BY <1>1, <2>1
    <3> QED
      BY <1>4, <1>8, <2>1, <3>1
  <2>2. CASE ~(k < i)
    <3>1. k - (i - 1) \in 1..Len(a) - i /\ i + (k - (i - 1)) = k + 1 /\ ~(k <= i - 1)
      BY <1>1, <2>2
    <3>2. r[k] = c[k - (i - 1)]
      BY <1>8, <3>1
    <3>3. c[k - (i - 1)] = a[k + 1]
      BY <1>5, <3>1
    <3> QED
      BY <2>2, <3>2, <3>3
  <2> QED
    BY <2>1, <2>2
<1> QED
  BY <1>6, <1>7, <1>9 DEF RemoveAt, b, c, r

(* What find_first_bss_sec() and the loop behind it make of two lists. *)

LEMMA FullFirstConcat ==
  ASSUME NEW a \in Seq(Secs), NEW b \in Seq(Secs), FullFirst(a), FullFirst(b),
         (\A k \in DOMAIN a : ~Bss(a[k])) \/ (\A k \in DOMAIN b : Bss(b[k]))
  PROVE  FullFirst(a \o b)
<1> DEFINE c == a \o b
<1>1. /\ DOMAIN c = 1..Len(a) + Len(b)
      /\ \A k \in 1..Len(a) + Len(b) : c[k] = IF k <= Len(a) THEN a[k] ELSE b[k - Len(a)]
  BY ConcatParts
<1>2. Len(a) \in Nat /\ Len(b) \in Nat /\ DOMAIN a = 1..Len(a) /\ DOMAIN b = 1..Len(b)
  OBVIOUS
<1> HIDE DEF c
<1>3. ASSUME NEW k \in 1..Len(a) + Len(b), NEW m \in 1..Len(a) + Len(b), k < m, Bss(c[k])
      PROVE  Bss(c[m])
  <2>1. /\ k <= Len(a) => k \in DOMAIN a /\ c[k] = a[k]
        /\ m <= Len(a) => m \in DOMAIN a /\ c[m] = a[m]
    BY <1>1, <1>2
  <2>2. /\ ~(k <= Len(a)) => k - Len(a) \in DOMAIN b /\ c[k] = b[k - Len(a)]
        /\ ~(m <= Len(a)) => m - Len(a) \in DOMAIN b /\ c[m] = b[m - Len(a)]
    BY <1>1, <1>2
  <2>3. k \in Int /\ m \in Int /\ k - Len(a) < m - Len(a)
    BY <1>2, <1>3
  <2>4. CASE m <= Len(a)
    BY <1>2, <1>3, <2>1, <2>3, <2>4 DEF FullFirst
  <2>5. CASE ~(m <= Len(a)) /\ k <= Len(a)
    BY <1>3, <2>1, <2>2, <2>5
  <2>6. CASE ~(m <= Len(a)) /\ ~(k <= Len(a))
    BY <1>3, <2>2, <2>3, <2>6 DEF FullFirst
  <2> QED
    BY <2>4, <2>5, <2>6
<1> QED
  BY <1>1, <1>3 DEF FullFirst, c

LEMMA JoinedParts ==
  ASSUME NEW kept \in Seq(Secs), NEW moved \in Seq(Secs)
  PROVE  /\ Joined(kept, moved) \in Seq(Secs)
         /\ Range(Joined(kept, moved)) = Range(kept) \cup Range(moved)
         /\ Distinct(kept) /\ Distinct(moved) /\ Apart(kept, moved) => Distinct(Joined(kept, moved))
         /\ FullFirst(kept) /\ FullFirst(moved) => FullFirst(Joined(kept, moved))
<1> DEFINE bss   == {k \in DOMAIN kept : Bss(kept[k])}
           first == Min(bss)
           Fulls == {s \in Secs : ~Bss(s)}
           Emptys == {s \in Secs : Bss(s)}
           full  == Only(moved, Fulls)
           empty == Only(moved, Emptys)
           pre   == SubSeq(kept, 1, first - 1)
           post  == SubSeq(kept, first, Len(kept))
           J == Joined(kept, moved)
<1>1. J = IF bss = {} THEN kept \o moved ELSE (pre \o full) \o (post \o empty)
  BY DEF Joined
<1>2. DOMAIN kept = 1..Len(kept) /\ Len(kept) \in Nat /\ DOMAIN moved = 1..Len(moved)
  OBVIOUS
<1>3. \A k \in DOMAIN kept : kept[k] \in Range(kept) /\ kept[k] \in Secs
  BY <1>2 DEF Range
<1>4. Range(moved) \subseteq Secs /\ \A k \in DOMAIN moved : moved[k] \in Range(moved)
  BY <1>2 DEF Range
<1>5. CASE bss = {}
  <2>1. J = kept \o moved
    BY <1>1, <1>5
  <2>2. \A k \in DOMAIN kept : ~Bss(kept[k])
    BY <1>5
  <2> HIDE DEF J
  <2> QED
    BY <2>1, <2>2, ConcatParts, FullFirstConcat DEF J
<1>6. CASE bss # {}
  <2>1. first \in bss /\ \A k \in bss : first <= k
    <3>1. bss \in SUBSET Nat
      BY <1>2
    <3> HIDE DEF bss
    <3> QED
      BY <1>6, <3>1, MinIs
  <2>2. J = (pre \o full) \o (post \o empty)
    BY <1>1, <1>6
  <2>3. first \in 1..Len(kept) /\ first \in Nat
    BY <1>2, <2>1
  <2>4. \A k \in 1..first - 1 : k \in DOMAIN kept /\ ~Bss(kept[k])
    <3>1. \A k \in 1..first - 1 : k \in DOMAIN kept /\ k \notin bss
      <4> HIDE DEF first, bss
      <4> QED
        BY <1>2, <2>1, <2>3
    <3> QED
      BY <3>1
  <2>5. FullFirst(kept) => \A k \in first..Len(kept) : Bss(kept[k])
    <3>1. first \in DOMAIN kept /\ Bss(kept[first])
      BY <2>1
    <3> HIDE DEF first, bss
    <3> QED
      BY <1>2, <2>3, <3>1 DEF FullFirst
  <2>6. /\ pre \in Seq(Secs) /\ DOMAIN pre = 1..first - 1
        /\ \A k \in 1..first - 1 : pre[k] = kept[k]
        /\ Distinct(kept) => Distinct(pre)
    <3>1. 1 \in 1..Len(kept) + 1 /\ first - 1 \in 1 - 1..Len(kept)
      BY <1>2, <2>3
    <3> HIDE DEF first
    <3>2. /\ pre \in Seq(Secs)
          /\ DOMAIN pre = 1..(first - 1) - 1 + 1
          /\ \A k \in 1..(first - 1) - 1 + 1 : pre[k] = kept[1 + k - 1]
          /\ Distinct(kept) => Distinct(pre)
      BY <3>1, SubSeqParts
    <3>3. (first - 1) - 1 + 1 = first - 1 /\ \A k \in 1..first - 1 : 1 + k - 1 = k
      BY <2>3
    <3> QED
      BY <3>2, <3>3
  <2>7. /\ post \in Seq(Secs) /\ DOMAIN post = 1..Len(kept) - first + 1
        /\ \A k \in 1..Len(kept) - first + 1 : /\ post[k] = kept[first + k - 1]
                                               /\ first + k - 1 \in first..Len(kept)
        /\ Distinct(kept) => Distinct(post)
    <3>1. first \in 1..Len(kept) + 1 /\ Len(kept) \in first - 1..Len(kept)
      BY <1>2, <2>3
    <3> HIDE DEF first
    <3> QED
      BY <3>1, SubSeqParts
  <2>8. /\ full \in Seq(Secs) /\ Range(full) = Range(moved) \cap Fulls
        /\ Distinct(moved) => Distinct(full)
    <3> HIDE DEF Fulls
    <3> QED
      BY OnlyParts
  <2>9. /\ empty \in Seq(Secs) /\ Range(empty) = Range(moved) \cap Emptys
        /\ Distinct(moved) => Distinct(empty)
    <3> HIDE DEF Emptys
    <3> QED
      BY OnlyParts
  <2>10. \A k \in DOMAIN full : full[k] \in Range(moved) /\ ~Bss(full[k])
    <3>1. \A k \in DOMAIN full : full[k] \in Range(full)
      BY DEF Range
    <3> HIDE DEF full
    <3> QED
      BY <2>8, <3>1
  <2>11. \A k \in DOMAIN empty : empty[k] \in Range(moved) /\ Bss(empty[k])
    <3>1. \A k \in DOMAIN empty : empty[k] \in Range(empty)
      BY DEF Range
    <3> HIDE DEF empty
    <3> QED
      BY <2>9, <3>1
  <2>12. Range(full) \cup Range(empty) = Range(moved)
    BY <1>4, <2>8, <2>9
  <2>13. Range(pre) \cup Range(post) = Range(kept)
    <3> HIDE DEF pre, post, first
    <3>1. \A x \in Range(pre) : x \in Range(kept)
      BY <1>3, <2>4, <2>6 DEF Range
    <3>2. \A x \in Range(post) : x \in Range(kept)
      <4>1. SUFFICES ASSUME NEW k \in DOMAIN post PROVE post[k] \in Range(kept)
        BY DEF Range
      <4>2. post[k] = kept[first + k - 1] /\ first + k - 1 \in DOMAIN kept
        BY <1>2, <2>3, <2>7, SMTT(30)
      <4> QED
        BY <1>3, <4>2
    <3>3. \A x \in Range(kept) : x \in Range(pre) \cup Range(post)
      <4>1. SUFFICES ASSUME NEW k \in DOMAIN kept PROVE kept[k] \in Range(pre) \cup Range(post)
        BY DEF Range
      <4>2. CASE k < first
        <5>1. k \in DOMAIN pre /\ pre[k] = kept[k]
          BY <1>2, <2>3, <2>6, <4>2
        <5> QED
          BY <5>1 DEF Range
      <4>3. CASE ~(k < first)
        <5>1. k - first + 1 \in 1..Len(kept) - first + 1 /\ first + (k - first + 1) - 1 = k
          BY <1>2, <2>3, <4>3
        <5>2. k - first + 1 \in DOMAIN post /\ post[k - first + 1] = kept[k]
          BY <2>7, <5>1
        <5> QED
          BY <5>2 DEF Range
      <4> QED
        BY <4>2, <4>3
    <3> QED
      BY <3>1, <3>2, <3>3
  <2>14. \A k \in DOMAIN pre : pre[k] = kept[k] /\ k \in DOMAIN kept /\ ~Bss(pre[k])
    <3> HIDE DEF pre, first
    <3> QED
      BY <2>4, <2>6
  <2>15. \A k \in DOMAIN post : /\ post[k] = kept[first + k - 1]
                                /\ first + k - 1 \in DOMAIN kept /\ first + k - 1 \in first..Len(kept)
    <3> HIDE DEF post, first
    <3>1. SUFFICES ASSUME NEW k \in DOMAIN post
                   PROVE  /\ post[k] = kept[first + k - 1] /\ first + k - 1 \in DOMAIN kept
                          /\ first + k - 1 \in first..Len(kept)
      OBVIOUS
    <3>2. k \in 1..Len(kept) - first + 1
      BY <2>7
    <3>3. post[k] = kept[first + k - 1] /\ first + k - 1 \in first..Len(kept)
      BY <2>7, <3>2
    <3> QED
      BY <1>2, <2>3, <3>3
  <2> DEFINE A == pre \o full
             B == post \o empty
  <2>16. A \in Seq(Secs) /\ Range(A) = Range(pre) \cup Range(full)
         /\ (Distinct(pre) /\ Distinct(full) /\ Apart(pre, full) => Distinct(A))
    <3> HIDE DEF pre, full
    <3> QED
      BY <2>6, <2>8, ConcatParts
  <2>17. B \in Seq(Secs) /\ Range(B) = Range(post) \cup Range(empty)
         /\ (Distinct(post) /\ Distinct(empty) /\ Apart(post, empty) => Distinct(B))
    <3> HIDE DEF post, empty
    <3> QED
      BY <2>7, <2>9, ConcatParts
  <2>18. J \in Seq(Secs) /\ Range(J) = Range(A) \cup Range(B)
         /\ (Distinct(A) /\ Distinct(B) /\ Apart(A, B) => Distinct(J))
    <3>1. J = A \o B
      BY <2>2
    <3> HIDE DEF A, B, J
    <3>2. A \o B \in Seq(Secs) /\ Range(A \o B) = Range(A) \cup Range(B)
          /\ (Distinct(A) /\ Distinct(B) /\ Apart(A, B) => Distinct(A \o B))
      <4>1. A \in Seq(Secs) /\ B \in Seq(Secs)
        BY <2>16, <2>17
      <4> QED
        BY <4>1, ConcatParts
    <3> QED
      BY <3>1, <3>2
  <2>19. ASSUME Distinct(kept), Distinct(moved), Apart(kept, moved) PROVE Distinct(J)
    <3>1. \A k \in DOMAIN kept : kept[k] \notin Range(moved)
      BY <2>19 DEF Apart, Range
    <3> HIDE DEF pre, post, full, empty, A, B, J, first
    <3>2. Apart(pre, full) /\ Apart(post, empty)
      BY <2>10, <2>11, <2>14, <2>15, <3>1 DEF Apart
    <3>3. Distinct(A) /\ Distinct(B)
      BY <2>6, <2>7, <2>8, <2>9, <2>16, <2>17, <2>19, <3>2
    <3>4. \A x \in Range(pre), y \in Range(post) : x # y
      <4>1. SUFFICES ASSUME NEW k \in DOMAIN pre, NEW m \in DOMAIN post, pre[k] = post[m]
                     PROVE  FALSE
        BY DEF Range
      <4>2. k = first + m - 1
        BY <2>14, <2>15, <2>19, <4>1 DEF Distinct
      <4>3. k \in 1..first - 1 /\ first + m - 1 \in first..Len(kept)
        BY <2>6, <2>15
      <4> QED
        BY <2>3, <4>2, <4>3
    <3>5. \A x \in Range(full), y \in Range(empty) : x # y
      BY <2>8, <2>9
    <3>6. \A x \in Range(kept) : x \notin Range(moved)
      BY <3>1 DEF Range
    <3>7. \A x \in Range(A), y \in Range(B) : x # y
      BY <2>12, <2>13, <2>16, <2>17, <3>4, <3>5, <3>6
    <3>8. Apart(A, B)
      BY <3>7 DEF Apart, Range
    <3> QED
      BY <2>18, <3>3, <3>8
  <2>20. ASSUME FullFirst(kept), FullFirst(moved) PROVE FullFirst(J)
    <3> HIDE DEF pre, post, full, empty, first
    <3>1. /\ \A k \in DOMAIN post : Bss(post[k])
          /\ \A k \in DOMAIN full : ~Bss(full[k])
          /\ \A k \in DOMAIN pre : ~Bss(pre[k])
          /\ \A k \in DOMAIN empty : Bss(empty[k])
      BY <2>5, <2>10, <2>11, <2>14, <2>15, <2>20
    <3>2. FullFirst(pre) /\ FullFirst(full) /\ FullFirst(post) /\ FullFirst(empty)
      BY <3>1 DEF FullFirst
    <3>3. FullFirst(A) /\ FullFirst(B)
      BY <2>6, <2>7, <2>8, <2>9, <3>1, <3>2, FullFirstConcat
    <3>4. J = A \o B
      BY <2>2
    <3>5. \A k \in DOMAIN A : ~Bss(A[k])
      <4>1. \A x \in Range(A) : ~Bss(x)
        <5> HIDE DEF A
        <5> QED
          BY <2>16, <3>1 DEF Range
      <4> HIDE DEF A
      <4> QED
        BY <4>1 DEF Range
    <3> HIDE DEF A, B, J
    <3> QED
      BY <2>16, <2>17, <3>3, <3>4, <3>5, FullFirstConcat
  <2>21. Range(J) = Range(kept) \cup Range(moved)
    <3> HIDE DEF pre, post, full, empty, first, A, B, J
    <3> QED
      BY <2>12, <2>13, <2>16, <2>17, <2>18
  <2> QED
    BY <2>18, <2>19, <2>20, <2>21
<1> QED
  BY <1>5, <1>6

----------------------------------------------------------------------------
(* The programs that are linked. *)

LEMMA ProgramType ==
  ASSUME prog \in Programs
  PROVE  /\ Secs = 1..Len(prog.secs) /\ Len(prog.secs) \in Nat
         /\ \A s \in Secs : /\ sec(s) \in Section /\ sec(s).name \in STRING
                            /\ sec(s).type \in SectionTypes /\ sec(s).size \in Nat
                            /\ sec(s).align \in Alignment /\ sec(s).init \in Nat
                            /\ sec(s).init <= sec(s).size /\ sec(s).protection \in Protection
                            /\ sec(s).once \in BOOLEAN
                            /\ sec(s).named \in BOOLEAN /\ sec(s).commons \in Seq(Common)
         /\ opt \in Option
         /\ \A r \in refs : /\ r.from \in Secs /\ r.to \in Secs
                            /\ r.sym \in 0..Len(sec(r.to).commons) /\ r.kind \in {"abs", "pc", "sd"}
         /\ prog.prot \subseteq Secs
         /\ opt.gc = "all" => \E s \in Secs : sec(s).type = CODE
<1>1. /\ prog.secs \in Seq(Section) /\ prog.opt \in Option
      /\ prog.refs \subseteq {r \in [from : DOMAIN prog.secs, to : DOMAIN prog.secs, sym : Nat,
                                     kind : {"abs", "pc", "sd"}] : r.sym <= Len(prog.secs[r.to].commons)}
      /\ prog.prot \subseteq DOMAIN prog.secs
      /\ prog.opt.gc = "all" => \E s \in DOMAIN prog.secs : prog.secs[s].type = CODE
  BY LinkMergeAssumption
<1>2. Secs = 1..Len(prog.secs) /\ Len(prog.secs) \in Nat /\ \A s \in Secs : sec(s) \in Section
  BY <1>1 DEF Secs, sec
<1>3. ASSUME NEW s \in Secs
      PROVE  /\ sec(s).name \in STRING
             /\ sec(s).type \in SectionTypes /\ sec(s).size \in Nat
             /\ sec(s).align \in Alignment /\ sec(s).init \in Nat
             /\ sec(s).init <= sec(s).size /\ sec(s).protection \in Protection
             /\ sec(s).once \in BOOLEAN
             /\ sec(s).named \in BOOLEAN /\ sec(s).commons \in Seq(Common)
  <2>1. sec(s) \in [name : STRING, type : SectionTypes, size : Nat, align : Alignment, init : Nat,
                    protection : Protection, once : BOOLEAN, named : BOOLEAN, commons : Seq(Common)]
        /\ sec(s).init <= sec(s).size
    BY <1>2 DEF Section
  <2> QED
    BY <2>1
<1>4. ASSUME NEW r \in refs
      PROVE  /\ r.from \in Secs /\ r.to \in Secs
             /\ r.sym \in 0..Len(sec(r.to).commons) /\ r.kind \in {"abs", "pc", "sd"}
  <2>1. /\ r \in [from : DOMAIN prog.secs, to : DOMAIN prog.secs, sym : Nat, kind : {"abs", "pc", "sd"}]
        /\ r.sym <= Len(prog.secs[r.to].commons)
    BY <1>1 DEF refs
  <2>2. r.from \in Secs /\ r.to \in Secs /\ r.sym \in Nat /\ r.kind \in {"abs", "pc", "sd"}
    BY <2>1 DEF Secs
  <2>3. Len(sec(r.to).commons) \in Nat
    BY <1>3, <2>2
  <2> QED
    BY <2>1, <2>2, <2>3 DEF sec
<1> QED
  BY <1>1, <1>2, <1>3, <1>4 DEF Secs, sec, opt

LEMMA PadIs ==
  ASSUME NEW n \in Int, NEW a \in Alignment
  PROVE  Pad(n, a) \in Nat /\ (n + Pad(n, a)) % a = 0
<1> DEFINE r == (-n) % a
<1>1. a \in Nat \ {0} /\ -n \in Int
  BY DEF Alignment
<1>2. r \in Nat
  BY <1>1
<1>3. PICK k \in Int : -n = k * a + r
  <2>1. -n = ((-n) \div a) * a + r /\ (-n) \div a \in Int
    BY <1>1
  <2> QED
    BY <2>1
<1> HIDE DEF r
<1>4. n + r = (-k) * a + 0 /\ -k \in Int /\ n + r \in Int
  BY <1>1, <1>2, <1>3
<1>5. (n + r) % a = 0
  <2> DEFINE x == n + r
             j == -k
  <2>1. x = j * a + 0 /\ j \in Int /\ x \in Int
    BY <1>4
  <2> HIDE DEF x, j
  <2>2. x % a = 0
    BY <1>1, <2>1
  <2> QED
    BY <2>2 DEF x
<1> QED
  BY <1>2, <1>5 DEF Pad, r

----------------------------------------------------------------------------
(* Places. *)

Alloc == [bytes : Nat, offsets : Seq(Int)]
Empties == [bytes |-> 0, offsets |-> <<>>]
AllocNext(s, addr, secva, n, v) == NextCommon(v, sec(s).commons[n], addr, secva)
AllocChain(s, addr, secva, f) ==
  /\ f \in [0..Len(sec(s).commons) -> Alloc] /\ f[0] = Empties
  /\ \A n \in 1..Len(sec(s).commons) : f[n] = AllocNext(s, addr, secva, n, f[n - 1])
  /\ allocate_common(s, addr, secva) = f[Len(sec(s).commons)]

LEMMA AllocExists ==
  ASSUME prog \in Programs, NEW s \in Secs, NEW addr \in Int, NEW secva \in Int
  PROVE  \E f : AllocChain(s, addr, secva, f)
<1> DEFINE N == Len(sec(s).commons)
           empty == Empties
           next(n, v) == AllocNext(s, addr, secva, n, v)
           Is(f) == f = [n \in 0..N |-> IF n = 0 THEN empty ELSE next(n, f[n - 1])]
           g == [n \in 1..N |-> [v \in Alloc |-> next(n, v)]]
<1>1. N \in Nat /\ \A n \in 1..N : sec(s).commons[n] \in Common
  BY ProgramType
<1>2. empty \in Alloc
  BY EmptySeq DEF Alloc, Empties
<1>3. ASSUME NEW n \in 1..N, NEW v \in Alloc PROVE next(n, v) \in Alloc
  <2> DEFINE c == sec(s).commons[n]
  <2>1. c.size \in Nat /\ c.align \in Alignment /\ v.bytes \in Nat /\ v.offsets \in Seq(Int)
    BY <1>1 DEF Common, Alloc
  <2> HIDE DEF c
  <2>2. Pad(addr + v.bytes, c.align) \in Nat
    BY <2>1, PadIs
  <2>3. Append(v.offsets, addr + v.bytes + Pad(addr + v.bytes, c.align) - secva) \in Seq(Int)
    <3>1. addr + v.bytes + Pad(addr + v.bytes, c.align) - secva \in Int
      BY <2>1, <2>2
    <3> QED
      BY <2>1, <3>1, AppendProperties
  <2>4. v.bytes + Pad(addr + v.bytes, c.align) + c.size \in Nat
    BY <2>1, <2>2
  <2> QED
    BY <2>3, <2>4 DEF AllocNext, NextCommon, Alloc, c
<1>4. allocate_common(s, addr, secva) = (CHOOSE f : Is(f))[N]
  BY DEF allocate_common, AllocNext, Empties
<1> HIDE DEF N, empty, next
<1>5. g \in [1..N -> [Alloc -> Alloc]] /\ \A n \in 1..N : \A v \in Alloc : g[n][v] = next(n, v)
  BY <1>3
<1> HIDE DEF g
<1>6. PICK f \in [0..N -> Alloc] : f[0] = empty /\ \A k \in 1..N : f[k] = g[k][f[k - 1]]
  <2>1. N \in Nat /\ empty \in Alloc /\ g \in [1..N -> [Alloc -> Alloc]]
    BY <1>1, <1>2, <1>5
  <2>2. PICK f : Chain(N, Alloc, empty, g, f)
    BY <2>1, Recursion
  <2> QED
    BY <2>2 DEF Chain
<1>7. \A n \in 0..N : n = 0 \/ n \in 1..N
  BY <1>1
<1>8. \A n \in 1..N : n - 1 \in 0..N /\ n \in 0..N /\ n # 0
  BY <1>1
<1>9. \A n \in 1..N : f[n] = next(n, f[n - 1])
  BY <1>5, <1>6, <1>8
<1>10. Is(f)
  <2>1. \A n \in 0..N : f[n] = IF n = 0 THEN empty ELSE next(n, f[n - 1])
    BY <1>6, <1>7, <1>9
  <2> QED
    BY <1>6, <2>1
<1> DEFINE o == CHOOSE f2 : Is(f2)
<1>11. Is(o)
  <2> HIDE DEF Is
  <2> QED
    BY <1>10
<1> HIDE DEF o
<1>12. \A n \in 0..N : o[n] = IF n = 0 THEN empty ELSE next(n, o[n - 1])
  BY <1>11
<1>13. o[0] = f[0] /\ \A n \in 1..N : o[n - 1] = f[n - 1] => o[n] = f[n]
  BY <1>1, <1>6, <1>8, <1>9, <1>12
<1>14. o[N] = f[N]
  <2>1. \A n \in 0..N : o[n] = f[n]
    BY <1>1, <1>13, SameChain
  <2> QED
    BY <1>1, <2>1
<1>15. AllocChain(s, addr, secva, f)
  BY <1>4, <1>6, <1>9, <1>14 DEF N, empty, next, o, AllocChain
<1> QED
  BY <1>15

(* The first n common symbols lie one behind the other, aligned, in the bytes *)
(* that are taken from an address on.                                         *)
Allocated(coms, a, n, addr, secva) ==
  /\ Len(a.offsets) = n
  /\ \A k \in 1..n :
       /\ a.offsets[k] >= addr - secva
       /\ a.offsets[k] + coms[k].size <= addr - secva + a.bytes
       /\ (secva + a.offsets[k]) % coms[k].align = 0
       /\ \A m \in 1..n : k < m => a.offsets[k] + coms[k].size <= a.offsets[m]

LEMMA CommonsAllocated ==
  ASSUME prog \in Programs, NEW s \in Secs, NEW addr \in Int, NEW secva \in Int
  PROVE  /\ allocate_common(s, addr, secva) \in Alloc
         /\ Allocated(sec(s).commons, allocate_common(s, addr, secva), Len(sec(s).commons), addr, secva)
<1> DEFINE coms == sec(s).commons
           N == Len(coms)
<1>1. PICK f : AllocChain(s, addr, secva, f)
  BY AllocExists
<1>2. /\ f \in [0..N -> Alloc] /\ f[0] = Empties
      /\ \A n \in 1..N : f[n] = NextCommon(f[n - 1], coms[n], addr, secva)
      /\ allocate_common(s, addr, secva) = f[N]
  BY <1>1 DEF AllocChain, AllocNext
<1>3. N \in Nat /\ \A n \in 1..N : coms[n] \in Common
  BY ProgramType
<1> HIDE DEF N, coms
<1> DEFINE U == {n \in Nat : n <= N => Allocated(coms, f[n], n, addr, secva)}
<1>4. 0 \in U
  BY <1>2 DEF Allocated, Empties
<1>5. ASSUME NEW n \in Nat, n \in U PROVE n + 1 \in U
  <2>1. SUFFICES ASSUME n + 1 <= N PROVE Allocated(coms, f[n + 1], n + 1, addr, secva)
    OBVIOUS
  <2>2. n + 1 \in 1..N /\ (n + 1) - 1 = n /\ n \in 0..N /\ n + 1 \in 0..N
    BY <1>3, <2>1
  <2> DEFINE a == f[n]
             b == f[n + 1]
             c == coms[n + 1]
             pad == Pad(addr + a.bytes, c.align)
             new == addr + a.bytes + pad - secva
  <2>3. Allocated(coms, a, n, addr, secva)
    BY <1>3, <1>5, <2>1
  <2>4. b = NextCommon(a, c, addr, secva)
    BY <1>2, <2>2
  <2>5. a \in Alloc /\ c \in Common /\ a.bytes \in Nat /\ a.offsets \in Seq(Int)
        /\ c.size \in Nat /\ c.align \in Alignment
    BY <1>2, <1>3, <2>2 DEF Alloc, Common
  <2> HIDE DEF a, b, c
  <2>6. pad \in Nat /\ (addr + a.bytes + pad) % c.align = 0
    BY <2>5, PadIs
  <2>7. b.bytes = a.bytes + pad + c.size /\ b.offsets = Append(a.offsets, new)
    BY <2>4 DEF NextCommon
  <2> HIDE DEF pad
  <2>8. new \in Int /\ secva + new = addr + a.bytes + pad
    BY <2>5, <2>6
  <2>9. Len(a.offsets) = n
    BY <2>3 DEF Allocated
  <2>10. /\ Len(b.offsets) = n + 1 /\ b.offsets[n + 1] = new
         /\ \A k \in 1..n : b.offsets[k] = a.offsets[k] /\ a.offsets[k] \in Int
    BY <2>5, <2>7, <2>8, <2>9, AppendProperties, ElementOfSeq
  <2>11. new >= addr - secva /\ new + c.size = addr - secva + b.bytes
    BY <2>5, <2>6, <2>7
  <2>12. (secva + new) % c.align = 0
    BY <2>6, <2>8
  <2>13. a.bytes <= b.bytes /\ b.bytes \in Nat
    BY <2>5, <2>6, <2>7
  <2>14. new >= addr - secva + a.bytes
    BY <2>5, <2>6
  <2> HIDE DEF new
  <2>15. \A k \in 1..n + 1 : k \in 1..n \/ k = n + 1
    OBVIOUS
  <2>16. ASSUME NEW k \in 1..n
         PROVE  /\ coms[k].size \in Nat
                /\ b.offsets[k] >= addr - secva
                /\ b.offsets[k] + coms[k].size <= addr - secva + a.bytes
                /\ (secva + b.offsets[k]) % coms[k].align = 0
                /\ \A m \in 1..n : k < m => b.offsets[k] + coms[k].size <= b.offsets[m]
    <3>1. k \in 1..N
      BY <1>3, <2>1
    <3>2. coms[k].size \in Nat
      BY <1>3, <3>1 DEF Common
    <3> QED
      BY <2>3, <2>10, <3>2 DEF Allocated
  <2>17. ASSUME NEW k \in 1..n + 1
         PROVE  /\ b.offsets[k] >= addr - secva
                /\ b.offsets[k] + coms[k].size <= addr - secva + b.bytes
                /\ (secva + b.offsets[k]) % coms[k].align = 0
                /\ \A m \in 1..n + 1 : k < m => b.offsets[k] + coms[k].size <= b.offsets[m]
    <3>1. CASE k = n + 1
      <4>1. ~\E m \in 1..n + 1 : k < m
        BY <3>1
      <4>2. b.offsets[k] = new /\ coms[k] = c
        BY <2>10, <3>1 DEF c
      <4>3. new >= addr - secva /\ new + c.size <= addr - secva + b.bytes
        BY <2>5, <2>8, <2>11, <2>13
      <4>4. (secva + b.offsets[k]) % coms[k].align = 0
        BY <2>12, <4>2
      <4> QED
        BY <4>1, <4>2, <4>3, <4>4
    <3>2. CASE k \in 1..n
      <4>1. /\ coms[k].size \in Nat /\ b.offsets[k] \in Int
            /\ b.offsets[k] >= addr - secva
            /\ b.offsets[k] + coms[k].size <= addr - secva + a.bytes
            /\ (secva + b.offsets[k]) % coms[k].align = 0
            /\ \A m \in 1..n : k < m => b.offsets[k] + coms[k].size <= b.offsets[m]
        BY <2>10, <2>16, <3>2
      <4>2. b.offsets[k] + coms[k].size <= addr - secva + b.bytes
        BY <2>5, <2>13, <4>1, SMTT(30)
      <4>3. b.offsets[k] + coms[k].size <= b.offsets[n + 1]
        <5>1. b.offsets[n + 1] = new /\ new \in Int /\ a.bytes \in Nat /\ new >= addr - secva + a.bytes
          BY <2>5, <2>8, <2>10, <2>14
        <5>2. coms[k].size \in Nat /\ b.offsets[k] \in Int
              /\ b.offsets[k] + coms[k].size <= addr - secva + a.bytes
          BY <4>1
        <5> QED
          BY <5>1, <5>2
      <4> QED
        BY <2>15, <4>1, <4>2, <4>3
    <3> QED
      BY <2>15, <3>1, <3>2
  <2>18. Allocated(coms, b, n + 1, addr, secva)
    BY <2>10, <2>17 DEF Allocated
  <2> QED
    BY <2>18 DEF b
<1> HIDE DEF U
<1>6. \A n \in Nat : n \in U
  BY <1>4, <1>5, SetInduction
<1>7. Allocated(coms, f[N], N, addr, secva)
  BY <1>3, <1>6 DEF U
<1>8. f[N] \in Alloc
  BY <1>2, <1>3
<1> QED
  BY <1>2, <1>7, <1>8 DEF N, coms

Placement == [size : Nat, filesize : Nat, place : [Secs -> Place]]

LEMMA PlaceOne ==
  ASSUME prog \in Programs, va \in Int, NEW p \in Placement, NEW s \in Secs
  PROVE  LET q == PlaceSection(p, s) IN
         /\ q \in Placement /\ InPlace(q.place[s], s, va)
         /\ q.place[s].offset >= p.size
         /\ q.place[s].offset + q.place[s].size = q.size
         /\ \A t \in Secs : t # s => q.place[t] = p.place[t]
         /\ opt.dest_object /\ ~Bss(s) /\ p.filesize = p.size => q.filesize = q.size
         /\ q.filesize >= p.filesize /\ q.size >= p.size
<1> DEFINE pad == Pad(va + p.size, sec(s).align)
           offset == p.size + pad
           end == offset + sec(s).size
           given == IsCommon(s) /\ ~opt.dest_object
           alloc == allocate_common(s, va + end, va + offset)
           com == IF given THEN alloc ELSE [bytes |-> 0, offsets |-> <<>>]
           q == PlaceSection(p, s)
           new == [offset |-> offset, size |-> sec(s).size + com.bytes, commons |-> com.offsets]
<1>1. /\ sec(s).align \in Alignment /\ sec(s).size \in Nat /\ sec(s).commons \in Seq(Common)
      /\ p.size \in Nat /\ p.filesize \in Nat /\ p.place \in [Secs -> Place]
  BY ProgramType DEF Placement
<1>2. q = [size |-> end + com.bytes,
           filesize |-> IF Bss(s) THEN p.filesize ELSE p.filesize + sec(s).size + pad,
           place |-> [p.place EXCEPT ![s] = new]]
  BY DEF PlaceSection
<1>3. pad \in Nat /\ (va + p.size + pad) % sec(s).align = 0
  BY <1>1, PadIs
<1> HIDE DEF pad
<1>4. offset \in Nat /\ end \in Nat /\ end - offset = sec(s).size /\ va + offset \in Int /\ va + end \in Int
      /\ (va + end) - (va + offset) = sec(s).size
  <2>1. pad \in Nat /\ p.size \in Nat /\ sec(s).size \in Nat /\ va \in Int
    BY <1>1, <1>3
  <2>2. offset \in Nat /\ end \in Nat
    BY <2>1
  <2>3. end = offset + sec(s).size
    OBVIOUS
  <2> HIDE DEF offset, end
  <2> QED
    BY <2>1, <2>2, <2>3
<1>5. (va + offset) % sec(s).align = 0
  <2>1. va + offset = va + p.size + pad
    BY <1>1, <1>3
  <2> QED
    BY <1>3, <2>1
<1>6. offset >= p.size
  BY <1>1, <1>3
<1>7. end = offset + sec(s).size
  OBVIOUS
<1>8. ~Bss(s) /\ p.filesize = p.size => p.filesize + sec(s).size + pad = end
  BY <1>1, <1>3
<1>9. p.filesize + sec(s).size + pad >= p.filesize /\ p.filesize + sec(s).size + pad \in Nat
  BY <1>1, <1>3
<1> HIDE DEF offset, end
<1>10. /\ com \in Alloc
       /\ com.offsets # <<>> => Len(com.offsets) = Len(sec(s).commons)
       /\ \A k \in DOMAIN com.offsets :
            /\ k \in DOMAIN sec(s).commons
            /\ com.offsets[k] >= sec(s).size
            /\ com.offsets[k] + sec(s).commons[k].size <= sec(s).size + com.bytes
            /\ ((va + offset) + com.offsets[k]) % sec(s).commons[k].align = 0
            /\ \A m \in DOMAIN com.offsets :
                 k < m => com.offsets[k] + sec(s).commons[k].size <= com.offsets[m]
       /\ opt.dest_object => com.bytes = 0
  <2>1. CASE given
    <3>1. /\ alloc \in Alloc
          /\ Allocated(sec(s).commons, alloc, Len(sec(s).commons), va + end, va + offset)
      BY <1>4, CommonsAllocated
    <3>2. com = alloc /\ ~opt.dest_object
      BY <2>1
    <3> HIDE DEF alloc, com
    <3>3. DOMAIN alloc.offsets = 1..Len(sec(s).commons) /\ Len(alloc.offsets) = Len(sec(s).commons)
          /\ DOMAIN sec(s).commons = 1..Len(sec(s).commons)
      BY <1>1, <3>1 DEF Alloc, Allocated
    <3>4. ASSUME NEW k \in 1..Len(sec(s).commons)
          PROVE  /\ alloc.offsets[k] >= sec(s).size
                 /\ alloc.offsets[k] + sec(s).commons[k].size <= sec(s).size + alloc.bytes
                 /\ ((va + offset) + alloc.offsets[k]) % sec(s).commons[k].align = 0
                 /\ \A m \in 1..Len(sec(s).commons) :
                      k < m => alloc.offsets[k] + sec(s).commons[k].size <= alloc.offsets[m]
      <4> DEFINE gap == (va + end) - (va + offset)
      <4>1. /\ alloc.offsets[k] >= gap
            /\ alloc.offsets[k] + sec(s).commons[k].size <= gap + alloc.bytes
            /\ ((va + offset) + alloc.offsets[k]) % sec(s).commons[k].align = 0
            /\ \A m \in 1..Len(sec(s).commons) :
                      k < m => alloc.offsets[k] + sec(s).commons[k].size <= alloc.offsets[m]
        BY <3>1 DEF Allocated
      <4>2. gap = sec(s).size
        BY <1>4
      <4> HIDE DEF gap
      <4> QED
        BY <4>1, <4>2
    <3> QED
      BY <3>1, <3>2, <3>3, <3>4
  <2>2. CASE ~given
    <3>1. com = [bytes |-> 0, offsets |-> <<>>]
      BY <2>2
    <3> DEFINE empty == <<>>
    <3>4. com = [bytes |-> 0, offsets |-> empty] /\ empty \in Seq(Int)
      BY <3>1
    <3> HIDE DEF com, empty
    <3>2. com \in Alloc /\ com.offsets = <<>> /\ com.bytes = 0
      <4>1. com \in Alloc /\ com.offsets = empty /\ com.bytes = 0
        BY <3>4 DEF Alloc
      <4> QED
        BY <4>1 DEF empty
    <3>3. DOMAIN com.offsets = {}
      BY <3>2
    <3> QED
      BY <3>2, <3>3
  <2> QED
    BY <2>1, <2>2
<1>11. com.bytes \in Nat /\ com.offsets \in Seq(Int)
  BY <1>10 DEF Alloc
<1> HIDE DEF com, given
<1>12. new \in Place
  BY <1>1, <1>4, <1>11 DEF Place
<1>13. q.place = [p.place EXCEPT ![s] = new] /\ q.size = end + com.bytes
       /\ q.filesize = IF Bss(s) THEN p.filesize ELSE p.filesize + sec(s).size + pad
  BY <1>2
<1>14. q \in Placement
  <2>1. [p.place EXCEPT ![s] = new] \in [Secs -> Place]
    BY <1>1, <1>12
  <2>2. end + com.bytes \in Nat
    BY <1>4, <1>11
  <2> HIDE DEF new
  <2> QED
    BY <1>1, <1>2, <1>9, <2>1, <2>2 DEF Placement
<1>15. q.place[s] = new /\ \A t \in Secs : t # s => q.place[t] = p.place[t]
  BY <1>1, <1>13
<1>16. InPlace(new, s, va)
  <2>1. new.offset = offset /\ new.size = sec(s).size + com.bytes /\ new.commons = com.offsets
    OBVIOUS
  <2> HIDE DEF new
  <2>2. DOMAIN com.offsets = 1..Len(com.offsets) /\ DOMAIN sec(s).commons = 1..Len(sec(s).commons)
    BY <1>1, <1>11
  <2>3. new.size >= sec(s).size /\ new.offset >= 0
    BY <1>1, <1>4, <1>11, <2>1
  <2>4. new.commons # <<>> => DOMAIN new.commons = DOMAIN sec(s).commons
    BY <1>10, <2>1, <2>2
  <2>5. (va + new.offset) % sec(s).align = 0
    BY <1>5, <2>1
  <2>6. \A k \in DOMAIN new.commons :
          /\ new.commons[k] >= sec(s).size
          /\ new.commons[k] + sec(s).commons[k].size <= new.size
          /\ (va + new.offset + new.commons[k]) % sec(s).commons[k].align = 0
          /\ \A m \in DOMAIN new.commons :
               k < m => new.commons[k] + sec(s).commons[k].size <= new.commons[m]
    BY <1>10, <2>1, Zenon
  <2> QED
    BY <2>3, <2>4, <2>5, <2>6 DEF InPlace
<1>17. new.offset + new.size = q.size
  BY <1>1, <1>4, <1>7, <1>11, <1>13, SMTT(30)
<1>18. q.size >= p.size /\ q.filesize >= p.filesize
  <2> HIDE DEF q
  <2>1. q.size >= p.size
    <3>1. /\ p.size \in Nat /\ offset \in Nat /\ sec(s).size \in Nat /\ com.bytes \in Nat
          /\ offset >= p.size /\ q.size = (offset + sec(s).size) + com.bytes
      BY <1>1, <1>4, <1>6, <1>7, <1>11, <1>13
    <3> QED
      BY <3>1
  <2>2. q.filesize >= p.filesize
    <3> DEFINE sum == p.filesize + sec(s).size + pad
    <3>1. sum >= p.filesize /\ p.filesize \in Nat /\ (q.filesize = p.filesize \/ q.filesize = sum)
      BY <1>1, <1>9, <1>13
    <3> HIDE DEF sum
    <3> QED
      BY <3>1
  <2> QED
    BY <2>1, <2>2
<1>19. opt.dest_object /\ ~Bss(s) /\ p.filesize = p.size => q.filesize = q.size
  BY <1>4, <1>8, <1>10, <1>11, <1>13
<1>20. new.offset >= p.size
  BY <1>6
<1> HIDE DEF new, q
<1> QED
  BY <1>14, <1>15, <1>16, <1>17, <1>18, <1>19, <1>20 DEF q

PlaceNext(list, n, v) == PlaceSection(v, list[n])
Unplaced == [size |-> 0, filesize |-> 0, place |-> place]
PlaceChain(ls, f) ==
  /\ f \in [0..Len(ls.sections) -> Placement] /\ f[0] = Unplaced
  /\ \A n \in 1..Len(ls.sections) : f[n] = PlaceNext(ls.sections, n, f[n - 1])
  /\ PlaceSections(ls) = f[Len(ls.sections)]

LEMMA PlaceExists ==
  ASSUME prog \in Programs, va \in Int, place \in [Secs -> Place],
         NEW ls, ls.sections \in Seq(Secs)
  PROVE  \E f : PlaceChain(ls, f)
<1> DEFINE list == ls.sections
           N == Len(list)
           empty == Unplaced
           next(n, v) == PlaceNext(list, n, v)
           Is(f) == f = [n \in 0..N |-> IF n = 0 THEN empty ELSE next(n, f[n - 1])]
           g == [n \in 1..N |-> [v \in Placement |-> next(n, v)]]
<1>1. N \in Nat /\ \A n \in 1..N : list[n] \in Secs
  OBVIOUS
<1>2. empty \in Placement
  BY DEF Placement, Unplaced
<1>3. ASSUME NEW n \in 1..N, NEW v \in Placement PROVE next(n, v) \in Placement
  <2>1. list[n] \in Secs
    BY <1>1
  <2> QED
    BY <2>1, PlaceOne DEF PlaceNext
<1>4. PlaceSections(ls) = (CHOOSE f : Is(f))[N]
  BY DEF PlaceSections, PlaceNext, Unplaced
<1> HIDE DEF N, empty, next
<1>5. g \in [1..N -> [Placement -> Placement]] /\ \A n \in 1..N : \A v \in Placement : g[n][v] = next(n, v)
  BY <1>3
<1> HIDE DEF g
<1>6. PICK f \in [0..N -> Placement] : f[0] = empty /\ \A k \in 1..N : f[k] = g[k][f[k - 1]]
  <2>1. N \in Nat /\ empty \in Placement /\ g \in [1..N -> [Placement -> Placement]]
    BY <1>1, <1>2, <1>5
  <2>2. PICK f : Chain(N, Placement, empty, g, f)
    BY <2>1, Recursion
  <2> QED
    BY <2>2 DEF Chain
<1>7. \A n \in 0..N : n = 0 \/ n \in 1..N
  BY <1>1
<1>8. \A n \in 1..N : n - 1 \in 0..N /\ n \in 0..N /\ n # 0
  BY <1>1
<1>9. \A n \in 1..N : f[n] = next(n, f[n - 1])
  BY <1>5, <1>6, <1>8
<1>10. Is(f)
  <2>1. \A n \in 0..N : f[n] = IF n = 0 THEN empty ELSE next(n, f[n - 1])
    BY <1>6, <1>7, <1>9
  <2> QED
    BY <1>6, <2>1
<1> DEFINE o == CHOOSE f2 : Is(f2)
<1>11. Is(o)
  <2> HIDE DEF Is
  <2> QED
    BY <1>10
<1> HIDE DEF o
<1>12. \A n \in 0..N : o[n] = IF n = 0 THEN empty ELSE next(n, o[n - 1])
  BY <1>11
<1>13. o[0] = f[0] /\ \A n \in 1..N : o[n - 1] = f[n - 1] => o[n] = f[n]
  BY <1>1, <1>6, <1>8, <1>9, <1>12
<1>14. o[N] = f[N]
  <2>1. \A n \in 0..N : o[n] = f[n]
    BY <1>1, <1>13, SameChain
  <2> QED
    BY <1>1, <2>1
<1>15. PlaceChain(ls, f)
  BY <1>4, <1>6, <1>9, <1>14 DEF N, empty, next, o, PlaceChain
<1> QED
  BY <1>15

\* The first n sections of a list are placed one behind the other.
PlacedInOrder(list, p, n) ==
  /\ \A k \in 1..n : /\ InPlace(p.place[list[k]], list[k], va)
                     /\ p.place[list[k]].offset + p.place[list[k]].size <= p.size
                     /\ \A m \in 1..n : k < m =>
                          p.place[list[k]].offset + p.place[list[k]].size <= p.place[list[m]].offset
  /\ \A t \in Secs : (\A k \in 1..n : list[k] # t) => p.place[t] = place[t]
  /\ opt.dest_object /\ FullFirst(list) =>
       /\ (\A k \in 1..n : ~Bss(list[k])) => p.filesize = p.size
       /\ \A k \in 1..n : ~Bss(list[k]) =>
            p.place[list[k]].offset + p.place[list[k]].size <= p.filesize

LEMMA SectionsPlaced ==
  ASSUME prog \in Programs, va \in Int, place \in [Secs -> Place],
         NEW ls, ls.sections \in Seq(Secs)
  PROVE  /\ PlaceSections(ls) \in Placement
         /\ Distinct(ls.sections) => PlacedInOrder(ls.sections, PlaceSections(ls), Len(ls.sections))
<1> DEFINE list == ls.sections
           N == Len(list)
<1>1. PICK f : PlaceChain(ls, f)
  BY PlaceExists
<1>2. /\ f \in [0..N -> Placement] /\ f[0] = Unplaced
      /\ \A n \in 1..N : f[n] = PlaceSection(f[n - 1], list[n])
      /\ PlaceSections(ls) = f[N]
  BY <1>1 DEF PlaceChain, PlaceNext
<1>3. N \in Nat /\ DOMAIN list = 1..N /\ \A n \in 1..N : list[n] \in Secs
  OBVIOUS
<1>4. f[N] \in Placement
  BY <1>2, <1>3
<1> SUFFICES ASSUME Distinct(list) PROVE PlacedInOrder(list, f[N], N)
  BY <1>2, <1>4
<1> HIDE DEF N
<1> DEFINE U == {n \in Nat : n <= N => PlacedInOrder(list, f[n], n)}
<1>5. 0 \in U
  BY <1>2 DEF PlacedInOrder, Unplaced
<1>6. ASSUME NEW n \in Nat, n \in U PROVE n + 1 \in U
  <2>1. SUFFICES ASSUME n + 1 <= N PROVE PlacedInOrder(list, f[n + 1], n + 1)
    OBVIOUS
  <2>2. n + 1 \in 1..N /\ (n + 1) - 1 = n /\ n \in 0..N /\ n <= N
    BY <1>3, <2>1
  <2> DEFINE p == f[n]
             q == f[n + 1]
             s == list[n + 1]
             E(pl, t) == pl[t].offset + pl[t].size
  <2>3. PlacedInOrder(list, p, n)
    BY <1>6, <2>2
  <2>4. p \in Placement /\ s \in Secs /\ q = PlaceSection(p, s)
    BY <1>2, <1>3, <2>2
  <2> HIDE DEF p, q
  <2>5. /\ q \in Placement /\ InPlace(q.place[s], s, va)
        /\ q.place[s].offset >= p.size
        /\ q.place[s].offset + q.place[s].size = q.size
        /\ \A t \in Secs : t # s => q.place[t] = p.place[t]
        /\ opt.dest_object /\ ~Bss(s) /\ p.filesize = p.size => q.filesize = q.size
        /\ q.filesize >= p.filesize /\ q.size >= p.size
    BY <2>4, PlaceOne
  <2>6. \A k \in 1..n : /\ list[k] \in Secs /\ list[k] # s /\ q.place[list[k]] = p.place[list[k]]
                        /\ k \in 1..N /\ k < n + 1
    <3>1. SUFFICES ASSUME NEW k \in 1..n
                   PROVE  /\ list[k] \in Secs /\ list[k] # s /\ q.place[list[k]] = p.place[list[k]]
                          /\ k \in 1..N /\ k < n + 1
      OBVIOUS
    <3>2. k \in 1..N /\ k < n + 1 /\ k # n + 1
      BY <1>3, <2>2
    <3>3. list[k] # s /\ list[k] \in Secs
      BY <1>3, <2>2, <3>2 DEF Distinct
    <3> QED
      BY <2>5, <3>2, <3>3
  <2>7. \A t \in Secs : q.place[t].offset \in Int /\ q.place[t].size \in Nat
    BY <2>5 DEF Placement, Place
  <2>8. p.size \in Nat /\ q.size \in Nat /\ p.filesize \in Nat /\ q.filesize \in Nat
    BY <2>4, <2>5 DEF Placement
  <2>9. \A k \in 1..n + 1 : k \in 1..n \/ k = n + 1
    OBVIOUS
  <2> DEFINE off(k) == q.place[list[k]].offset
             end(k) == q.place[list[k]].offset + q.place[list[k]].size
  <2>10. \A k \in 1..n + 1 : off(k) \in Int /\ end(k) \in Int
    <3>1. \A k \in 1..n + 1 : list[k] \in Secs
      BY <2>4, <2>6, <2>9
    <3> QED
      BY <2>7, <3>1
  <2>11. \A k \in 1..n : /\ InPlace(q.place[list[k]], list[k], va) /\ end(k) <= p.size
                         /\ \A m \in 1..n : k < m => end(k) <= off(m)
    BY <2>3, <2>6 DEF PlacedInOrder
  <2>12. InPlace(q.place[list[n + 1]], list[n + 1], va) /\ off(n + 1) >= p.size /\ end(n + 1) = q.size
    BY <2>5
  <2>13. n + 1 \in 1..n + 1
    OBVIOUS
  <2>14. q.size >= p.size /\ q.filesize >= p.filesize
    BY <2>5
  <2>15. opt.dest_object /\ FullFirst(list) =>
           /\ (\A k \in 1..n : ~Bss(list[k])) => p.filesize = p.size
           /\ \A k \in 1..n : ~Bss(list[k]) => end(k) <= p.filesize
    BY <2>3, <2>6 DEF PlacedInOrder
  <2>16. opt.dest_object /\ ~Bss(list[n + 1]) /\ p.filesize = p.size => q.filesize = q.size
    BY <2>5
  <2>17. \A t \in Secs : (\A k \in 1..n + 1 : list[k] # t) => q.place[t] = place[t]
    <3>1. SUFFICES ASSUME NEW t \in Secs, \A k \in 1..n + 1 : list[k] # t PROVE q.place[t] = place[t]
      OBVIOUS
    <3>2. t # s /\ \A k \in 1..n : list[k] # t
      BY <2>13, <3>1
    <3> QED
      BY <2>3, <2>5, <3>2 DEF PlacedInOrder
  <2> HIDE DEF off, end, s
  <2>18. ASSUME NEW k \in 1..n + 1
         PROVE  /\ InPlace(q.place[list[k]], list[k], va) /\ end(k) <= q.size
                /\ \A m \in 1..n + 1 : k < m => end(k) <= off(m)
    <3>1. CASE k = n + 1
      <4>1. ~\E m \in 1..n + 1 : k < m
        BY <3>1
      <4>2. end(k) <= q.size
        BY <2>8, <2>12, <3>1
      <4> QED
        BY <2>12, <3>1, <4>1, <4>2
    <3>2. CASE k \in 1..n
      <4>1. end(k) <= p.size /\ end(k) \in Int
        BY <2>10, <2>11, <3>2
      <4>2. end(k) <= q.size
        BY <2>8, <2>14, <4>1
      <4>3. end(k) <= off(n + 1)
        BY <2>8, <2>10, <2>12, <2>13, <4>1
      <4> QED
        BY <2>9, <2>11, <3>2, <4>2, <4>3
    <3> QED
      BY <2>9, <3>1, <3>2
  <2>19. ASSUME opt.dest_object, FullFirst(list)
         PROVE  /\ (\A k \in 1..n + 1 : ~Bss(list[k])) => q.filesize = q.size
                /\ \A k \in 1..n + 1 : ~Bss(list[k]) => end(k) <= q.filesize
    <3>1. (\A k \in 1..n + 1 : ~Bss(list[k])) => q.filesize = q.size
      <4>1. (\A k \in 1..n + 1 : ~Bss(list[k])) => ~Bss(list[n + 1]) /\ \A k \in 1..n : ~Bss(list[k])
        BY <2>13
      <4> QED
        BY <2>15, <2>16, <2>19, <4>1
    <3>2. ASSUME NEW k \in 1..n, ~Bss(list[k]) PROVE end(k) <= q.filesize
      <4>1. end(k) <= p.filesize /\ end(k) \in Int
        BY <2>10, <2>15, <2>19, <3>2
      <4> QED
        BY <2>8, <2>14, <4>1
    <3>3. ASSUME ~Bss(list[n + 1]) PROVE end(n + 1) <= q.filesize
      <4>1. \A k \in 1..n : ~Bss(list[k])
        BY <1>3, <2>2, <2>6, <2>19, <3>3 DEF FullFirst
      <4>2. q.filesize = q.size
        BY <2>15, <2>16, <2>19, <3>3, <4>1
      <4> QED
        BY <2>8, <2>12, <4>2
    <3> QED
      BY <2>9, <3>1, <3>2, <3>3
  <2>20. PlacedInOrder(list, q, n + 1)
    BY <2>17, <2>18, <2>19 DEF PlacedInOrder, off, end
  <2> QED
    BY <2>20 DEF q
<1> HIDE DEF U
<1>7. \A n \in Nat : n \in U
  BY <1>5, <1>6, SetInduction
<1> QED
  BY <1>3, <1>7 DEF U

----------------------------------------------------------------------------
(* What can be reached from a set of sections.                             *)

ReachNext(v) == v \cup {r.to : r \in {q \in refs : q.from \in v}}
ReachChain(from, f) ==
  /\ f \in [0..Cardinality(Secs) -> SUBSET Secs] /\ f[0] = from
  /\ \A n \in 1..Cardinality(Secs) : f[n] = ReachNext(f[n - 1])
  /\ RefSections(from) = f[Cardinality(Secs)]

LEMMA SecsFinite ==
  ASSUME prog \in Programs
  PROVE  IsFiniteSet(Secs) /\ Cardinality(Secs) \in Nat
<1>1. Secs = 1..Len(prog.secs) /\ Len(prog.secs) \in Nat
  BY ProgramType
<1>2. IsFiniteSet(Secs)
  BY <1>1, FS_Interval
<1> QED
  BY <1>2, FS_CardinalityType

LEMMA ReachExists ==
  ASSUME prog \in Programs, NEW from \in SUBSET Secs
  PROVE  \E f : ReachChain(from, f)
<1> DEFINE N == Cardinality(Secs)
           T == SUBSET Secs
           next(n, v) == ReachNext(v)
           Is(f) == f = [n \in 0..N |-> IF n = 0 THEN from ELSE next(n, f[n - 1])]
           g == [n \in 1..N |-> [v \in T |-> next(n, v)]]
<1>1. N \in Nat
  BY SecsFinite
<1>2. from \in T
  OBVIOUS
<1>3. ASSUME NEW n \in 1..N, NEW v \in T PROVE next(n, v) \in T
  BY ProgramType DEF ReachNext
<1>4. RefSections(from) = (CHOOSE f : Is(f))[N]
  BY DEF RefSections, ReachNext
<1> HIDE DEF N, next, T
<1>5. g \in [1..N -> [T -> T]] /\ \A n \in 1..N : \A v \in T : g[n][v] = next(n, v)
  BY <1>3
<1> HIDE DEF g
<1>6. PICK f \in [0..N -> T] : f[0] = from /\ \A k \in 1..N : f[k] = g[k][f[k - 1]]
  <2>1. N \in Nat /\ from \in T /\ g \in [1..N -> [T -> T]]
    BY <1>1, <1>2, <1>5
  <2>2. PICK f : Chain(N, T, from, g, f)
    BY <2>1, Recursion
  <2> QED
    BY <2>2 DEF Chain
<1>7. \A n \in 0..N : n = 0 \/ n \in 1..N
  BY <1>1
<1>8. \A n \in 1..N : n - 1 \in 0..N /\ n \in 0..N /\ n # 0
  BY <1>1
<1>9. \A n \in 1..N : f[n] = next(n, f[n - 1])
  BY <1>5, <1>6, <1>8
<1>10. Is(f)
  <2>1. \A n \in 0..N : f[n] = IF n = 0 THEN from ELSE next(n, f[n - 1])
    BY <1>6, <1>7, <1>9
  <2> QED
    BY <1>6, <2>1
<1> DEFINE o == CHOOSE f2 : Is(f2)
<1>11. Is(o)
  <2> HIDE DEF Is
  <2> QED
    BY <1>10
<1> HIDE DEF o
<1>12. \A n \in 0..N : o[n] = IF n = 0 THEN from ELSE next(n, o[n - 1])
  BY <1>11
<1>13. o[0] = f[0] /\ \A n \in 1..N : o[n - 1] = f[n - 1] => o[n] = f[n]
  BY <1>1, <1>6, <1>8, <1>9, <1>12
<1>14. o[N] = f[N]
  <2>1. \A n \in 0..N : o[n] = f[n]
    BY <1>1, <1>13, SameChain
  <2> QED
    BY <1>1, <2>1
<1>15. ReachChain(from, f)
  BY <1>4, <1>6, <1>9, <1>14 DEF N, T, next, o, ReachChain
<1> QED
  BY <1>15

(* After as many rounds as there are sections nothing is added any more: each *)
(* round before adds one at least.                                            *)
LEMMA Reachable ==
  ASSUME prog \in Programs, NEW from \in SUBSET Secs
  PROVE  /\ from \subseteq RefSections(from) /\ RefSections(from) \subseteq Secs
         /\ \A r \in refs : r.from \in RefSections(from) => r.to \in RefSections(from)
         /\ \A s \in RefSections(from) :
              s \in from \/ \E r \in refs : r.to = s /\ r.from \in RefSections(from)
<1> DEFINE N == Cardinality(Secs)
           Stable(v) == \A r \in refs : r.from \in v => r.to \in v
           Reason(v) == \A s \in v : s \in from \/ \E r \in refs : r.to = s /\ r.from \in v
<1>1. PICK f : ReachChain(from, f)
  BY ReachExists
<1>2. /\ f \in [0..N -> SUBSET Secs] /\ f[0] = from
      /\ \A n \in 1..N : f[n] = ReachNext(f[n - 1])
      /\ RefSections(from) = f[N]
  BY <1>1 DEF ReachChain
<1>3. N \in Nat /\ IsFiniteSet(Secs)
  BY SecsFinite
<1>4. \A v \in SUBSET Secs : IsFiniteSet(v) /\ Cardinality(v) \in Nat /\ Cardinality(v) <= N
                             /\ (Cardinality(v) = N => v = Secs)
  <2>1. SUFFICES ASSUME NEW v \in SUBSET Secs
                 PROVE  IsFiniteSet(v) /\ Cardinality(v) \in Nat /\ Cardinality(v) <= N
                             /\ (Cardinality(v) = N => v = Secs)
    OBVIOUS
  <2>2. IsFiniteSet(v) /\ Cardinality(v) <= N /\ (Cardinality(v) = N => v = Secs)
    BY <1>3, FS_Subset
  <2> QED
    BY <2>2, FS_CardinalityType
<1>5. ASSUME NEW v PROVE v \subseteq ReachNext(v) /\ (Stable(v) => ReachNext(v) = v)
  BY DEF ReachNext
<1>6. ASSUME NEW v \in SUBSET Secs, ReachNext(v) \in SUBSET Secs, ~Stable(v)
      PROVE  Cardinality(ReachNext(v)) >= Cardinality(v) + 1
  <2>1. PICK x : x \in ReachNext(v) /\ x \notin v
    BY <1>6 DEF ReachNext
  <2>2. Cardinality(v \cup {x}) = Cardinality(v) + 1
    BY <1>4, <2>1, FS_AddElement
  <2>3. v \cup {x} \subseteq ReachNext(v)
    BY <1>5, <2>1
  <2>4. Cardinality(v \cup {x}) <= Cardinality(ReachNext(v))
    BY <1>4, <1>6, <2>3, FS_Subset
  <2> QED
    BY <2>2, <2>4
<1> HIDE DEF N, Stable
<1> DEFINE U == {n \in Nat : n <= N => /\ f[n] \in SUBSET Secs /\ from \subseteq f[n] /\ Reason(f[n])
                                       /\ Stable(f[n]) \/ Cardinality(f[n]) >= n}
<1>7. 0 \in U
  <2>1. f[0] = from /\ Cardinality(from) \in Nat
    BY <1>2, <1>4
  <2> QED
    BY <2>1
<1>8. ASSUME NEW n \in Nat, n \in U PROVE n + 1 \in U
  <2> DEFINE v == f[n]
             w == f[n + 1]
  <2>1. SUFFICES ASSUME n + 1 <= N
                 PROVE  /\ w \in SUBSET Secs /\ from \subseteq w /\ Reason(w)
                        /\ Stable(w) \/ Cardinality(w) >= n + 1
    OBVIOUS
  <2>2. n + 1 \in 1..N /\ (n + 1) - 1 = n /\ n + 1 \in 0..N /\ n <= N
    BY <1>3, <2>1
  <2>3. w = ReachNext(v) /\ w \in SUBSET Secs
    BY <1>2, <2>2
  <2>4. /\ v \in SUBSET Secs /\ from \subseteq v /\ Reason(v)
        /\ Stable(v) \/ Cardinality(v) >= n
    BY <1>8, <2>2
  <2> HIDE DEF v, w
  <2>5. v \subseteq w
    BY <1>5, <2>3
  <2>6. Reason(w)
    BY <2>3, <2>4, <2>5 DEF ReachNext
  <2>7. CASE Stable(v)
    BY <1>5, <2>3, <2>4, <2>6, <2>7
  <2>8. CASE ~Stable(v)
    <3>1. Cardinality(w) >= Cardinality(v) + 1 /\ Cardinality(v) \in Nat /\ Cardinality(w) \in Nat
      BY <1>4, <1>6, <2>3, <2>4, <2>8
    <3>2. Cardinality(w) >= n + 1
      BY <2>4, <2>8, <3>1
    <3> QED
      BY <2>3, <2>4, <2>5, <2>6, <3>2
  <2> QED
    BY <2>7, <2>8
<1> HIDE DEF U, Reason
<1>9. \A n \in Nat : n \in U
  BY <1>7, <1>8, SetInduction
<1>10. /\ f[N] \in SUBSET Secs /\ from \subseteq f[N] /\ Reason(f[N])
       /\ Stable(f[N]) \/ Cardinality(f[N]) >= N
  BY <1>3, <1>9 DEF U
<1>11. Stable(f[N])
  <2>1. SUFFICES ASSUME Cardinality(f[N]) >= N PROVE Stable(f[N])
    BY <1>10
  <2>2. Cardinality(f[N]) = N
    BY <1>3, <1>4, <1>10, <2>1
  <2>3. f[N] = Secs
    BY <1>4, <1>10, <2>2
  <2> QED
    BY <2>3, ProgramType DEF Stable
<1> QED
  BY <1>2, <1>10, <1>11 DEF Stable, Reason

----------------------------------------------------------------------------
(* What merging does to an output section. *)

LEMMA AlignBound ==
  ASSUME prog \in Programs
  PROVE  \E b \in Nat : \A s \in Secs : sec(s).align <= b
<1> DEFINE N == Len(prog.secs)
           U == {n \in Nat : n <= N => \E b \in Nat : \A s \in 1..n : sec(s).align <= b}
<1>1. Secs = 1..N /\ N \in Nat /\ \A s \in 1..N : sec(s).align \in Nat
  BY ProgramType DEF Alignment
<1>2. 0 \in U
  <2>1. \A s \in 1..0 : sec(s).align <= 0
    OBVIOUS
  <2> QED
    BY <2>1
<1>3. ASSUME NEW n \in Nat, n \in U PROVE n + 1 \in U
  <2>1. SUFFICES ASSUME n + 1 <= N PROVE \E b \in Nat : \A s \in 1..n + 1 : sec(s).align <= b
    <3> HIDE DEF N
    <3> QED
      OBVIOUS
  <2>2. PICK b \in Nat : \A s \in 1..n : sec(s).align <= b
    <3> HIDE DEF N
    <3>1. n <= N
      BY <1>1, <2>1
    <3> QED
      BY <1>3, <3>1
  <2>3. \A s \in 1..n + 1 : s \in 1..n \/ s = n + 1
    OBVIOUS
  <2>4. sec(n + 1).align \in Nat
    BY <1>1, <2>1
  <2> DEFINE a(s) == sec(s).align
             c == b + a(n + 1)
  <2>5. c \in Nat /\ \A s \in 1..n : a(s) \in Nat /\ a(s) <= b
    BY <1>1, <2>1, <2>2, <2>4
  <2>6. a(n + 1) <= c /\ \A s \in 1..n : a(s) <= c
    BY <2>4, <2>5
  <2>7. \A s \in 1..n + 1 : a(s) <= c
    <3> HIDE DEF a, c
    <3> QED
      BY <2>3, <2>6
  <2> HIDE DEF c
  <2> QED
    BY <2>5, <2>7
<1> HIDE DEF U
<1>4. N \in U
  BY <1>1, <1>2, <1>3, SetInduction
<1> HIDE DEF N
<1>5. \E b \in Nat : \A s \in 1..N : sec(s).align <= b
  BY <1>1, <1>4 DEF U
<1> QED
  BY <1>1, <1>5

\* What stays as it was.
SameSection(a, b) ==
  /\ a.index = b.index /\ a.name = b.name /\ a.uninit = b.uninit /\ a.sections = b.sections
  /\ a.base = b.base /\ a.size = b.size /\ a.filesize = b.filesize /\ a.linked = b.linked

LEMMA MergedAttrs ==
  ASSUME prog \in Programs, NEW ls \in OutputSection, NEW S \in SUBSET Secs
  PROVE  LET m == merge_sec_attrs(ls, S) IN
         /\ m \in OutputSection /\ SameSection(m, ls)
         /\ ls.small => m.small
         /\ m.align >= ls.align
         /\ \A s \in S : (s \in small => m.small) /\ m.align >= sec(s).align
<1> DEFINE m == merge_sec_attrs(ls, S)
           A == {ls.align} \cup {sec(s).align : s \in S}
           type == IF ls.type = UDATA /\ \E s \in S : sec(s).type = DATA THEN DATA ELSE ls.type
           sm == ls.small \/ \E s \in S : s \in small
           on == ls.once \/ \E s \in S : sec(s).once
           al == Max(A)
           pr == ls.protection \cup UNION {sec(s).protection : s \in S}
<1>1. m = [ls EXCEPT !.type = type, !.small = sm, !.once = on, !.align = al, !.protection = pr]
  BY DEF merge_sec_attrs
<1>2. /\ ls.index \in Int /\ ls.name \in STRING /\ ls.type \in SectionTypes /\ ls.uninit \in BOOLEAN
      /\ ls.small \in BOOLEAN /\ ls.once \in BOOLEAN /\ ls.align \in Alignment
      /\ ls.sections \in Seq(Secs) /\ ls.base \in Int /\ ls.size \in Nat
      /\ ls.filesize \in Int /\ ls.linked \in BOOLEAN /\ ls.protection \in Protection
  BY DEF OutputSection
<1>3. \A s \in S : sec(s).align \in Alignment /\ sec(s).protection \in Protection
  BY ProgramType
<1>4. A \subseteq Alignment /\ A \subseteq Nat /\ A # {}
  BY <1>2, <1>3 DEF Alignment
<1>5. al \in A /\ \A a \in A : al >= a
  <2>1. PICK b \in Nat : \A s \in Secs : sec(s).align <= b
    BY AlignBound
  <2> DEFINE c == b + ls.align
  <2>2. c \in Nat /\ ls.align \in Nat
    BY <1>2 DEF Alignment
  <2>3. \A s \in S : sec(s).align <= b /\ sec(s).align \in Nat
    BY <1>3, <2>1 DEF Alignment
  <2>4. \A a \in A : a <= c
    BY <2>2, <2>3
  <2> HIDE DEF A, c
  <2> QED
    BY <1>4, <2>2, <2>4, MaxIs
<1>6. \A s \in S : al >= sec(s).align
  <2>1. \A s \in S : sec(s).align \in A
    OBVIOUS
  <2> HIDE DEF A, al
  <2> QED
    BY <1>5, <2>1
<1>7. al >= ls.align /\ al \in Alignment
  <2>1. ls.align \in A
    OBVIOUS
  <2> HIDE DEF A, al
  <2> QED
    BY <1>4, <1>5, <2>1
<1>8. type \in SectionTypes /\ sm \in BOOLEAN /\ on \in BOOLEAN /\ pr \in Protection
  <2>1. pr \in Protection
    BY <1>2, <1>3 DEF Protection
  <2> QED
    BY <1>2, <2>1 DEF SectionTypes
<1>9. (ls.small => sm) /\ \A s \in S : s \in small => sm
  OBVIOUS
<1> HIDE DEF A, type, sm, on, al, pr
<1>10. m \in OutputSection
  BY <1>1, <1>2, <1>7, <1>8 DEF OutputSection
<1>11. ls.small => m.small
  BY <1>1, <1>2, <1>9 DEF OutputSection
<1>12. SameSection(m, ls)
  BY <1>1 DEF OutputSection, SameSection
<1>13. m.align = al /\ (sm => m.small)
  BY <1>1, <1>8 DEF OutputSection
<1> HIDE DEF m
<1>14. m.align >= ls.align /\ \A s \in S : (s \in small => m.small) /\ m.align >= sec(s).align
  BY <1>6, <1>7, <1>9, <1>13
<1> QED
  BY <1>10, <1>11, <1>12, <1>14 DEF m

LEMMA CreatedSection ==
  ASSUME prog \in Programs, nsecs \in Nat, NEW s \in Secs
  PROVE  LET c == create_lnksect(s) IN
         /\ c \in OutputSection /\ c.index = nsecs /\ c.sections = <<>> /\ c.uninit = Bss(s)
         /\ (s \in small => c.small) /\ c.align = sec(s).align
<1>1. /\ sec(s).name \in STRING /\ sec(s).type \in SectionTypes /\ sec(s).once \in BOOLEAN
      /\ sec(s).align \in Alignment /\ sec(s).protection \in Protection
  BY ProgramType
<1> DEFINE sm == s \in small
           bss == Bss(s)
           none == <<>>
           yes == TRUE
           c == create_lnksect(s)
<1>2. bss \in BOOLEAN /\ sm \in BOOLEAN /\ none \in Seq(Secs) /\ nsecs \in Int /\ yes \in BOOLEAN
  BY DEF Bss
<1>3. c = [index |-> nsecs, name |-> sec(s).name, type |-> sec(s).type, uninit |-> bss,
           protection |-> sec(s).protection, small |-> sm, once |-> sec(s).once,
           align |-> sec(s).align, sections |-> none, base |-> 0, size |-> 0, filesize |-> 0, linked |-> yes]
  BY DEF create_lnksect
<1>4. s \in small => sm
  OBVIOUS
<1> HIDE DEF sm, bss, none, yes, c
<1>5. c \in OutputSection
  BY <1>1, <1>2, <1>3 DEF OutputSection
<1>6. /\ c.index = nsecs /\ c.sections = none /\ c.uninit = bss
      /\ c.small = sm /\ c.align = sec(s).align
  BY <1>3
<1> QED
  BY <1>4, <1>5, <1>6 DEF c, none, bss

LEMMA Matching ==
  ASSUME NEW s, NEW my, lnksec \in Seq(OutputSection)
  PROVE  LET i == get_matching_lnksec(s, my) IN
         \/ i = 0 /\ \A j \in DOMAIN lnksec : Match(lnksec[j], s, my) = "no"
         \/ i \in DOMAIN lnksec /\ Match(lnksec[i], s, my) # "no"
<1> DEFINE hits == {i \in DOMAIN lnksec : Match(lnksec[i], s, my) # "no"}
<1>1. hits \subseteq DOMAIN lnksec /\ DOMAIN lnksec \subseteq Nat
  OBVIOUS
<1>2. hits # {} => Min(hits) \in hits
  <2> HIDE DEF hits
  <2> QED
    BY <1>1, MinIs
<1>3. hits = {} => \A j \in DOMAIN lnksec : Match(lnksec[j], s, my) = "no"
  OBVIOUS
<1>4. get_matching_lnksec(s, my) = IF hits = {} THEN 0 ELSE Min(hits)
  BY DEF get_matching_lnksec
<1>5. \A i \in hits : i \in DOMAIN lnksec /\ Match(lnksec[i], s, my) # "no"
  OBVIOUS
<1> HIDE DEF hits
<1> QED
  BY <1>2, <1>3, <1>4, <1>5

LEMMA MatchIs ==
  ASSUME NEW ls, NEW s, NEW my
  PROVE  /\ Match(ls, s, my) \in {"no", "spin", "merge", "join"}
         /\ Match(ls, s, my) = "join" => Empty(s) /\ my = -1
         /\ ls.index = my => Match(ls, s, my) = "no"
<1> DEFINE tl == IF opt.dest_object THEN 0 ELSE targetlink(ls, s)
           two == ls.once /\ sec(s).once
           must == tl > 0
           may == tl = 0 /\ (\/ ~opt.dest_object /\ MergeForExecutable(ls, s)
                             \/ MergeByOption(ls, s)
                             \/ my = -1 /\ MergeByName(ls, s))
           join == tl = 0 /\ my = -1 /\ Empty(s)
           rest == IF must THEN "merge" ELSE IF may THEN "merge" ELSE IF join THEN "join" ELSE "no"
<1>1. rest \in {"no", "merge", "join"} /\ (rest = "join" => Empty(s) /\ my = -1)
  <2>1. join => Empty(s) /\ my = -1
    OBVIOUS
  <2> HIDE DEF must, may, join
  <2>2. CASE must
    BY <2>2
  <2>3. CASE ~must /\ may
    BY <2>3
  <2>4. CASE ~must /\ ~may /\ join
    BY <2>1, <2>4
  <2>5. CASE ~must /\ ~may /\ ~join
    BY <2>5
  <2> QED
    BY <2>2, <2>3, <2>4, <2>5
<1>2. Match(ls, s, my) = CASE ls.index = my -> "no"
                           [] ls.index # my /\ two -> "spin"
                           [] ls.index # my /\ ~two -> rest
  BY DEF Match
<1> HIDE DEF rest, tl, two
<1>3. CASE ls.index = my
  BY <1>2, <1>3
<1>4. CASE ls.index # my /\ two
  BY <1>2, <1>4
<1>5. CASE ls.index # my /\ ~two
  BY <1>1, <1>2, <1>5
<1> QED
  BY <1>3, <1>4, <1>5

----------------------------------------------------------------------------
(* Sections that move from one list to another. *)

LEMMA RemovedOne ==
  ASSUME NEW T, NEW a \in Seq(T), NEW i \in 1..Len(a)
  PROVE  /\ Range(a) = Range(RemoveAt(a, i)) \cup {a[i]}
         /\ Distinct(a) => Distinct(RemoveAt(a, i)) /\ a[i] \notin Range(RemoveAt(a, i))
<1> DEFINE b == RemoveAt(a, i)
<1>1. /\ DOMAIN b = 1..Len(a) - 1
      /\ \A k \in 1..Len(a) - 1 : b[k] = IF k < i THEN a[k] ELSE a[k + 1]
  BY RemoveAtParts
<1>2. DOMAIN a = 1..Len(a) /\ Len(a) \in Nat /\ i \in Nat
  OBVIOUS
<1> HIDE DEF b
<1>3. \A x : x \in Range(a) => x \in Range(b) \/ x = a[i]
  <2>1. SUFFICES ASSUME NEW k \in 1..Len(a), k # i PROVE a[k] \in Range(b)
    BY <1>2 DEF Range
  <2>2. CASE k < i
    <3>1. k \in 1..Len(a) - 1 /\ b[k] = a[k]
      BY <1>1, <1>2, <2>2
    <3> QED
      BY <1>1, <3>1 DEF Range
  <2>3. CASE ~(k < i)
    <3>1. k - 1 \in 1..Len(a) - 1 /\ ~(k - 1 < i) /\ (k - 1) + 1 = k
      BY <1>2, <2>1, <2>3
    <3>2. b[k - 1] = a[k]
      BY <1>1, <3>1
    <3> QED
      BY <1>1, <3>1, <3>2 DEF Range
  <2> QED
    BY <2>2, <2>3
<1> DEFINE at(k) == IF k < i THEN k ELSE k + 1
<1>4. \A k \in 1..Len(a) - 1 : b[k] = a[at(k)] /\ at(k) \in 1..Len(a) /\ at(k) # i
  BY <1>1, <1>2
<1>5. \A k, m \in 1..Len(a) - 1 : at(k) = at(m) => k = m
  BY <1>2
<1>6. i \in DOMAIN a /\ a[i] \in Range(a)
  BY <1>2 DEF Range
<1> HIDE DEF at
<1>7. \A x : x \in Range(b) => x \in Range(a)
  BY <1>1, <1>2, <1>4 DEF Range
<1>8. ASSUME Distinct(a) PROVE Distinct(b) /\ a[i] \notin Range(b)
  <2>1. \A k \in 1..Len(a) - 1 : b[k] # a[i]
    BY <1>2, <1>4, <1>6, <1>8 DEF Distinct
  <2>2. a[i] \notin Range(b)
    BY <1>1, <2>1 DEF Range
  <2>3. \A k, m \in 1..Len(a) - 1 : b[k] = b[m] => at(k) = at(m)
    BY <1>2, <1>4, <1>8 DEF Distinct
  <2> QED
    BY <1>1, <1>5, <2>2, <2>3 DEF Distinct
<1>9. Range(a) = Range(b) \cup {a[i]}
  BY <1>3, <1>6, <1>7
<1> QED
  BY <1>8, <1>9 DEF b

LEMMA AppendParts ==
  ASSUME NEW T, NEW a \in Seq(T), NEW x \in T
  PROVE  /\ Append(a, x) \in Seq(T) /\ Range(Append(a, x)) = Range(a) \cup {x}
         /\ DOMAIN Append(a, x) = 1..Len(a) + 1
         /\ \A k \in 1..Len(a) + 1 : Append(a, x)[k] = IF k <= Len(a) THEN a[k] ELSE x
<1>1. /\ Append(a, x) \in Seq(T) /\ DOMAIN Append(a, x) = 1..Len(a) + 1
      /\ \A k \in 1..Len(a) + 1 : Append(a, x)[k] = IF k <= Len(a) THEN a[k] ELSE x
  BY AppendProperties
<1> DEFINE b == Append(a, x)
<1>2. Len(a) \in Nat /\ DOMAIN a = 1..Len(a)
  OBVIOUS
<1> HIDE DEF b
<1>3. /\ DOMAIN b = 1..Len(a) + 1
      /\ \A k \in 1..Len(a) + 1 : b[k] = IF k <= Len(a) THEN a[k] ELSE x
  BY <1>1 DEF b
<1>4. \A k \in 1..Len(a) : k \in 1..Len(a) + 1 /\ b[k] = a[k]
  BY <1>2, <1>3
<1>5. Len(a) + 1 \in 1..Len(a) + 1 /\ b[Len(a) + 1] = x
  BY <1>2, <1>3
<1>6. \A k \in 1..Len(a) + 1 : k \in 1..Len(a) \/ k = Len(a) + 1
  BY <1>2
<1>7. Range(b) = Range(a) \cup {x}
  BY <1>2, <1>3, <1>4, <1>5, <1>6 DEF Range
<1> QED
  BY <1>1, <1>7 DEF b

LEMMA AllOfIs ==
  ASSUME NEW L
  PROVE  \A s : s \in AllOf(L) <=> \E i \in DOMAIN L : \E k \in DOMAIN L[i].sections : L[i].sections[k] = s
  BY DEF AllOf, Range

LEMMA SectionsOf ==
  ASSUME NEW L \in Seq(OutputSection), NEW i \in DOMAIN L
  PROVE  /\ L[i] \in OutputSection /\ L[i].sections \in Seq(Secs)
         /\ DOMAIN L[i].sections = 1..Len(L[i].sections) /\ Len(L[i].sections) \in Nat
         /\ Range(L[i].sections) \subseteq AllOf(L) /\ Range(L[i].sections) \subseteq Secs
<1>1. L[i] \in OutputSection
  OBVIOUS
<1>2. L[i].sections \in Seq(Secs)
  BY <1>1 DEF OutputSection
<1>3. DOMAIN L[i].sections = 1..Len(L[i].sections) /\ Len(L[i].sections) \in Nat
  BY <1>2
<1>4. Range(L[i].sections) \subseteq AllOf(L)
  BY DEF AllOf
<1>5. Range(L[i].sections) \subseteq Secs
  BY <1>2, <1>3 DEF Range
<1> QED
  BY <1>1, <1>2, <1>3, <1>4, <1>5

(* A section is added to an output section. *)
Behind(L, M, i, s) ==
  /\ M \in Seq(OutputSection) /\ DOMAIN M = DOMAIN L
  /\ M[i].sections = Append(L[i].sections, s)
  /\ \A j \in DOMAIN L : j # i => M[j] = L[j]

LEMMA Extended ==
  ASSUME NEW L \in Seq(OutputSection), NEW i \in DOMAIN L, NEW s \in Secs,
         NEW M, Behind(L, M, i, s), OneEach(L), s \notin AllOf(L)
  PROVE  OneEach(M) /\ AllOf(M) = AllOf(L) \cup {s}
<1> DEFINE m == M[i]
<1>1. /\ M \in Seq(OutputSection) /\ DOMAIN M = DOMAIN L /\ M[i] = m
      /\ \A j \in DOMAIN L : j # i => M[j] = L[j]
      /\ m.sections = Append(L[i].sections, s)
  BY DEF Behind
<1> HIDE DEF m
<1>2. L[i].sections \in Seq(Secs)
  BY SectionsOf
<1>3. /\ DOMAIN m.sections = 1..Len(L[i].sections) + 1
      /\ \A k \in 1..Len(L[i].sections) + 1 :
           m.sections[k] = IF k <= Len(L[i].sections) THEN L[i].sections[k] ELSE s
      /\ Range(m.sections) = Range(L[i].sections) \cup {s}
  BY <1>1, <1>2, AppendParts
<1>4. DOMAIN L[i].sections = 1..Len(L[i].sections) /\ Len(L[i].sections) \in Nat
  BY <1>2
<1>5. \A k \in DOMAIN m.sections : /\ k \in DOMAIN L[i].sections => m.sections[k] = L[i].sections[k]
                                   /\ k \notin DOMAIN L[i].sections => m.sections[k] = s /\ k = Len(L[i].sections) + 1
  BY <1>3, <1>4
<1>6. \A j \in DOMAIN L : Range(M[j].sections) = IF j = i THEN Range(L[i].sections) \cup {s} ELSE Range(L[j].sections)
  BY <1>1, <1>3
<1>7. AllOf(M) = AllOf(L) \cup {s}
  BY <1>1, <1>6 DEF AllOf
<1>8. \A j \in DOMAIN L : \A k \in DOMAIN L[j].sections : L[j].sections[k] # s
  BY AllOfIs
<1>9. ASSUME NEW a \in DOMAIN L, NEW b \in DOMAIN L, NEW k \in DOMAIN M[a].sections,
             NEW l \in DOMAIN M[b].sections, M[a].sections[k] = M[b].sections[l]
      PROVE  a = b /\ k = l
  <2> DEFINE x == m.sections
             y == L[i].sections
  <2>0. /\ \A n \in DOMAIN x : (n \in DOMAIN y /\ x[n] = y[n]) \/ (n = Len(y) + 1 /\ x[n] = s)
        /\ \A n \in DOMAIN y : y[n] # s
    BY <1>5, <1>8
  <2>1. CASE a # i /\ b # i
    BY <1>1, <1>9, <2>1 DEF OneEach
  <2>2. CASE a = i /\ b # i
    <3>1. M[a].sections = x /\ M[b] = L[b] /\ \A n \in DOMAIN L[b].sections : L[b].sections[n] # s
      BY <1>1, <1>8, <2>2
    <3>2. k \in DOMAIN y /\ x[k] = y[k]
      BY <1>9, <2>0, <3>1
    <3> QED
      BY <1>9, <2>2, <3>1, <3>2 DEF OneEach
  <2>3. CASE a # i /\ b = i
    <3>1. M[b].sections = x /\ M[a] = L[a] /\ \A n \in DOMAIN L[a].sections : L[a].sections[n] # s
      BY <1>1, <1>8, <2>3
    <3>2. l \in DOMAIN y /\ x[l] = y[l]
      BY <1>9, <2>0, <3>1
    <3> QED
      BY <1>9, <2>3, <3>1, <3>2 DEF OneEach
  <2>4. CASE a = i /\ b = i
    <3>1. M[a].sections = x /\ M[b].sections = x
      BY <1>1, <2>4
    <3>2. \A n, o \in DOMAIN y : y[n] = y[o] => n = o
      BY DEF OneEach
    <3> HIDE DEF x, y
    <3> QED
      BY <1>9, <2>0, <2>4, <3>1, <3>2
  <2> QED
    BY <2>1, <2>2, <2>3, <2>4
<1>10. OneEach(M)
  BY <1>1, <1>9 DEF OneEach
<1> QED
  BY <1>1, <1>7, <1>10

(* An output section is made for it. *)
LEMMA Added ==
  ASSUME NEW L \in Seq(OutputSection), NEW m \in OutputSection, NEW s \in Secs,
         m.sections = <<s>>, OneEach(L), s \notin AllOf(L)
  PROVE  LET M == Append(L, m) IN
         M \in Seq(OutputSection) /\ OneEach(M) /\ AllOf(M) = AllOf(L) \cup {s}
<1> DEFINE M == Append(L, m)
<1>1. M \in Seq(OutputSection) /\ DOMAIN M = 1..Len(L) + 1
  BY AppendParts
<1>2. DOMAIN L = 1..Len(L) /\ Len(L) \in Nat
  OBVIOUS
<1>3. \A j \in 1..Len(L) : j \in DOMAIN M /\ M[j] = L[j]
  BY AppendParts, <1>1, <1>2
<1>4. Len(L) + 1 \in DOMAIN M /\ M[Len(L) + 1] = m
  BY AppendParts, <1>1, <1>2
<1> DEFINE n == Len(L) + 1
<1>5. DOMAIN m.sections = {1} /\ Range(m.sections) = {s} /\ \A k \in DOMAIN m.sections : k = 1 /\ m.sections[k] = s
  <2> DEFINE q == <<s>>
  <2>1. DOMAIN q = 1..1 /\ q[1] = s
    OBVIOUS
  <2>2. 1..1 = {1}
    OBVIOUS
  <2> HIDE DEF q
  <2> QED
    BY <2>1, <2>2 DEF q, Range
<1>6. \A j \in DOMAIN M : j \in DOMAIN L \/ j = n
  BY <1>1, <1>2
<1>7. n \notin DOMAIN L
  BY <1>2
<1> HIDE DEF M, n
<1>8. AllOf(M) = AllOf(L) \cup {s}
  <2>1. \A j \in DOMAIN M : Range(M[j].sections) = IF j = n THEN {s} ELSE Range(L[j].sections)
    BY <1>2, <1>3, <1>4, <1>5, <1>6, <1>7 DEF n
  <2>2. n \in DOMAIN M /\ DOMAIN L \subseteq DOMAIN M
    BY <1>2, <1>3, <1>4 DEF n
  <2> QED
    BY <1>6, <1>7, <2>1, <2>2 DEF AllOf
<1>9. \A j \in DOMAIN L : \A k \in DOMAIN L[j].sections : L[j].sections[k] # s
  BY AllOfIs
<1>10. ASSUME NEW a \in DOMAIN M, NEW b \in DOMAIN M, NEW k \in DOMAIN M[a].sections,
             NEW l \in DOMAIN M[b].sections, M[a].sections[k] = M[b].sections[l]
      PROVE  a = b /\ k = l
  <2>0. M[n] = m /\ \A j \in DOMAIN L : M[j] = L[j]
    BY <1>2, <1>3, <1>4 DEF n
  <2>1. CASE a # n /\ b # n
    BY <1>6, <1>10, <2>0, <2>1 DEF OneEach
  <2>2. CASE a = n /\ b # n
    BY <1>5, <1>6, <1>9, <1>10, <2>0, <2>2
  <2>3. CASE a # n /\ b = n
    BY <1>5, <1>6, <1>9, <1>10, <2>0, <2>3
  <2>4. CASE a = n /\ b = n
    BY <1>5, <1>10, <2>0, <2>4
  <2> QED
    BY <2>1, <2>2, <2>3, <2>4
<1>11. OneEach(M)
  BY <1>10 DEF OneEach
<1> QED
  BY <1>1, <1>8, <1>11 DEF M

(* Two output sections become one. *)
Skip(n, a) == IF a < n THEN a ELSE a + 1

LEMMA SkipIs ==
  ASSUME NEW len \in Nat, NEW n \in 1..len
  PROVE  /\ \A a \in 1..len - 1 : Skip(n, a) \in 1..len /\ Skip(n, a) # n
         /\ \A a, b \in 1..len - 1 : Skip(n, a) = Skip(n, b) => a = b
         /\ \A b \in 1..len : b # n => \E a \in 1..len - 1 : Skip(n, a) = b
<1>1. \A a \in 1..len - 1 : Skip(n, a) \in 1..len /\ Skip(n, a) # n
  BY DEF Skip
<1>2. \A a, b \in 1..len - 1 : Skip(n, a) = Skip(n, b) => a = b
  BY DEF Skip
<1>3. ASSUME NEW b \in 1..len, b # n PROVE \E a \in 1..len - 1 : Skip(n, a) = b
  <2>1. CASE b < n
    <3>1. b \in 1..len - 1 /\ Skip(n, b) = b
      BY <2>1 DEF Skip
    <3> QED
      BY <3>1
  <2>2. CASE ~(b < n)
    <3>1. b - 1 \in 1..len - 1 /\ Skip(n, b - 1) = b
      BY <1>3, <2>2 DEF Skip
    <3> QED
      BY <3>1
  <2> QED
    BY <2>1, <2>2
<1> QED
  BY <1>1, <1>2, <1>3

JoinedInto(L, M, old, new, m) ==
  /\ M \in Seq(OutputSection) /\ DOMAIN M = 1..Len(L) - 1
  /\ \A a \in DOMAIN M : /\ Skip(new, a) \in DOMAIN L /\ Skip(new, a) # new
                         /\ M[a] = IF Skip(new, a) = old THEN m ELSE L[Skip(new, a)]
  /\ \A a, b \in DOMAIN M : Skip(new, a) = Skip(new, b) => a = b
  /\ \A b \in DOMAIN L : b # new => \E a \in DOMAIN M : Skip(new, a) = b

LEMMA JoinedShape ==
  ASSUME NEW L \in Seq(OutputSection), NEW old \in DOMAIN L, NEW new \in DOMAIN L, NEW m \in OutputSection
  PROVE  JoinedInto(L, RemoveAt([L EXCEPT ![old] = m], new), old, new, m)
<1> DEFINE E == [L EXCEPT ![old] = m]
           M == RemoveAt(E, new)
<1>1. /\ E \in Seq(OutputSection) /\ Len(E) = Len(L) /\ DOMAIN E = DOMAIN L
      /\ \A a \in DOMAIN L : E[a] = IF a = old THEN m ELSE L[a]
  OBVIOUS
<1>2. DOMAIN L = 1..Len(L) /\ Len(L) \in Nat /\ new \in 1..Len(L)
  OBVIOUS
<1> HIDE DEF E
<1>3. /\ M \in Seq(OutputSection) /\ DOMAIN M = 1..Len(L) - 1
      /\ \A k \in 1..Len(L) - 1 : M[k] = IF k < new THEN E[k] ELSE E[k + 1]
  BY <1>1, <1>2, RemoveAtParts
<1> HIDE DEF M
<1>4. /\ \A a \in 1..Len(L) - 1 : Skip(new, a) \in 1..Len(L) /\ Skip(new, a) # new
      /\ \A a, b \in 1..Len(L) - 1 : Skip(new, a) = Skip(new, b) => a = b
      /\ \A b \in 1..Len(L) : b # new => \E a \in 1..Len(L) - 1 : Skip(new, a) = b
  BY <1>2, SkipIs
<1>5. \A a \in 1..Len(L) - 1 : M[a] = E[Skip(new, a)]
  BY <1>3 DEF Skip
<1>6. \A a \in 1..Len(L) - 1 : M[a] = IF Skip(new, a) = old THEN m ELSE L[Skip(new, a)]
  BY <1>1, <1>2, <1>4, <1>5
<1> QED
  BY <1>2, <1>3, <1>4, <1>6 DEF JoinedInto, E, M

LEMMA JoinedTwo ==
  ASSUME NEW L \in Seq(OutputSection), NEW old \in DOMAIN L, NEW new \in DOMAIN L, old # new,
         NEW m \in OutputSection, m.sections = Joined(L[old].sections, L[new].sections),
         NEW M, JoinedInto(L, M, old, new, m), OneEach(L)
  PROVE  OneEach(M) /\ AllOf(M) = AllOf(L)
<1> DEFINE x == L[old].sections
           y == L[new].sections
           z == m.sections
<1>1. x \in Seq(Secs) /\ y \in Seq(Secs)
  BY SectionsOf
<1>2. Distinct(x) /\ Distinct(y) /\ Apart(x, y)
  BY DEF OneEach, Distinct, Apart
<1>3. Range(z) = Range(x) \cup Range(y) /\ Distinct(z)
  <2>1. /\ Range(Joined(x, y)) = Range(x) \cup Range(y)
        /\ Distinct(x) /\ Distinct(y) /\ Apart(x, y) => Distinct(Joined(x, y))
    <3> HIDE DEF x, y
    <3> QED
      BY <1>1, JoinedParts
  <2> QED
    BY <1>2, <2>1
<1>4. /\ \A a \in DOMAIN M : Skip(new, a) \in DOMAIN L /\ Skip(new, a) # new
                             /\ M[a] = IF Skip(new, a) = old THEN m ELSE L[Skip(new, a)]
      /\ \A a, b \in DOMAIN M : Skip(new, a) = Skip(new, b) => a = b
      /\ \A b \in DOMAIN L : b # new => \E a \in DOMAIN M : Skip(new, a) = b
  BY DEF JoinedInto
<1>5. \A s : s \in AllOf(M) => s \in AllOf(L)
  <2>1. SUFFICES ASSUME NEW a \in DOMAIN M, NEW s \in Range(M[a].sections) PROVE s \in AllOf(L)
    BY DEF AllOf
  <2>2. CASE Skip(new, a) = old
    <3>1. s \in Range(x) \/ s \in Range(y)
      BY <1>3, <1>4, <2>2
    <3> QED
      BY <3>1 DEF AllOf
  <2>3. CASE Skip(new, a) # old
    BY <1>4, <2>3 DEF AllOf
  <2> QED
    BY <2>2, <2>3
<1>6. \A s : s \in AllOf(L) => s \in AllOf(M)
  <2>1. SUFFICES ASSUME NEW b \in DOMAIN L, NEW s \in Range(L[b].sections) PROVE s \in AllOf(M)
    BY DEF AllOf
  <2>2. PICK c \in DOMAIN M : Skip(new, c) = old
    BY <1>4
  <2>3. CASE b = old \/ b = new
    <3>1. s \in Range(z) /\ M[c].sections = z
      BY <1>3, <1>4, <2>2, <2>3
    <3> QED
      BY <3>1 DEF AllOf
  <2>4. CASE b # old /\ b # new
    <3>1. PICK a \in DOMAIN M : Skip(new, a) = b
      BY <1>4, <2>4
    <3>2. M[a] = L[b]
      BY <1>4, <2>4, <3>1
    <3> QED
      BY <3>1, <3>2 DEF AllOf
  <2> QED
    BY <2>3, <2>4
<1>7. \A i, j \in DOMAIN L : i # j => Range(L[i].sections) \cap Range(L[j].sections) = {}
  BY DEF OneEach, Range
<1>8. ASSUME NEW a \in DOMAIN M, NEW b \in DOMAIN M, NEW k \in DOMAIN M[a].sections,
             NEW l \in DOMAIN M[b].sections, M[a].sections[k] = M[b].sections[l]
      PROVE  a = b /\ k = l
  <2> DEFINE s == M[a].sections[k]
             i == Skip(new, a)
             j == Skip(new, b)
             From(n) == IF n = old THEN Range(x) \cup Range(y) ELSE Range(L[n].sections)
  <2>1. s \in Range(M[a].sections) /\ s \in Range(M[b].sections)
    BY <1>8 DEF Range
  <2>2. Range(M[a].sections) = From(i) /\ Range(M[b].sections) = From(j)
    BY <1>3, <1>4
  <2>3. i \in DOMAIN L /\ j \in DOMAIN L /\ i # new /\ j # new
    BY <1>4
  <2>4. i # j => From(i) \cap From(j) = {}
    BY <1>7, <2>3
  <2>5. i = j
    <3> HIDE DEF From, i, j, s
    <3> QED
      BY <2>1, <2>2, <2>4
  <2>6. a = b
    BY <1>4, <2>5
  <2>7. CASE i = old
    <3>1. M[a].sections = z
      BY <1>4, <2>7
    <3> QED
      BY <1>3, <1>8, <2>6, <3>1 DEF Distinct
  <2>8. CASE i # old
    <3>1. M[a] = L[i]
      BY <1>4, <2>8
    <3> QED
      BY <1>8, <2>3, <2>6, <3>1 DEF OneEach
  <2> QED
    BY <2>6, <2>7, <2>8
<1> QED
  BY <1>5, <1>6, <1>8 DEF OneEach

LEMMA DependencyIs ==
  ASSUME lnksec \in Seq(OutputSection), Dependencies # {}
  PROVE  \E i \in DOMAIN lnksec : \E k \in DOMAIN lnksec[i].sections :
           /\ Dependency = <<i, k>>
           /\ get_matching_lnksec(lnksec[i].sections[k], lnksec[i].index) # 0
<1> DEFINE At(i, k) == /\ i \in DOMAIN lnksec /\ k \in DOMAIN lnksec[i].sections
                       /\ get_matching_lnksec(lnksec[i].sections[k], lnksec[i].index) # 0
           I == {i \in DOMAIN lnksec : \E k \in DOMAIN lnksec[i].sections : At(i, k)}
           i0 == Min(I)
           K == {k \in DOMAIN lnksec[i0].sections : At(i0, k)}
           k0 == Min(K)
<1>1. \A d : d \in Dependencies <=> \E i \in DOMAIN lnksec : \E k \in DOMAIN lnksec[i].sections :
                                      d = <<i, k>> /\ At(i, k)
  <2>1. ASSUME NEW d \in Dependencies
        PROVE  \E i \in DOMAIN lnksec : \E k \in DOMAIN lnksec[i].sections : d = <<i, k>> /\ At(i, k)
    <3>1. /\ d \in UNION {{<<i, k>> : k \in DOMAIN lnksec[i].sections} : i \in DOMAIN lnksec}
          /\ get_matching_lnksec(lnksec[d[1]].sections[d[2]], lnksec[d[1]].index) # 0
      BY DEF Dependencies
    <3>2. PICK i \in DOMAIN lnksec : d \in {<<i, k>> : k \in DOMAIN lnksec[i].sections}
      BY <3>1
    <3>3. PICK k \in DOMAIN lnksec[i].sections : d = <<i, k>>
      BY <3>2
    <3>4. d[1] = i /\ d[2] = k
      BY <3>3
    <3>5. At(i, k)
      BY <3>1, <3>4
    <3> QED
      BY <3>3, <3>5
  <2>2. ASSUME NEW i \in DOMAIN lnksec, NEW k \in DOMAIN lnksec[i].sections, At(i, k)
        PROVE  <<i, k>> \in Dependencies
    <3> DEFINE d == <<i, k>>
    <3>1. d[1] = i /\ d[2] = k
      OBVIOUS
    <3>2. d \in UNION {{<<a, b>> : b \in DOMAIN lnksec[a].sections} : a \in DOMAIN lnksec}
      OBVIOUS
    <3> HIDE DEF d
    <3>3. d \in Dependencies
      BY <2>2, <3>1, <3>2 DEF Dependencies
    <3> QED
      BY <3>3 DEF d
  <2> QED
    BY <2>1, <2>2
<1>2. DOMAIN lnksec \subseteq Nat /\ \A i \in DOMAIN lnksec : DOMAIN lnksec[i].sections \subseteq Nat
  <2>1. \A i \in DOMAIN lnksec : DOMAIN lnksec[i].sections = 1..Len(lnksec[i].sections)
                                 /\ Len(lnksec[i].sections) \in Nat
    BY SectionsOf
  <2> QED
    BY <2>1
<1>3. I \subseteq Nat /\ I # {}
  <2>1. PICK d : d \in Dependencies
    OBVIOUS
  <2>2. PICK i \in DOMAIN lnksec : \E k \in DOMAIN lnksec[i].sections : At(i, k)
    BY <1>1, <2>1
  <2>3. i \in I
    BY <2>2
  <2> QED
    BY <1>2, <2>3
<1>4. i0 \in I /\ \A i \in I : i0 <= i
  <2> HIDE DEF I
  <2> QED
    BY <1>3, MinIs
<1>5. i0 \in DOMAIN lnksec /\ i0 \in Nat /\ \A i \in DOMAIN lnksec : \A k \in DOMAIN lnksec[i].sections :
         At(i, k) => i0 <= i
  BY <1>2, <1>4
<1>6. K \subseteq Nat /\ K # {}
  <2>1. \E k \in DOMAIN lnksec[i0].sections : At(i0, k)
    BY <1>4
  <2> HIDE DEF I, i0
  <2> QED
    BY <1>2, <1>5, <2>1
<1>7. k0 \in K /\ \A k \in K : k0 <= k
  <2> HIDE DEF K
  <2> QED
    BY <1>6, MinIs
<1> HIDE DEF I, i0
<1>8. k0 \in DOMAIN lnksec[i0].sections /\ k0 \in Nat /\ At(i0, k0)
      /\ \A k \in DOMAIN lnksec[i0].sections : At(i0, k) => k0 <= k
  BY <1>6, <1>7
<1> HIDE DEF K, k0
<1> DEFINE First(d) == d \in Dependencies /\ \A e \in Dependencies : d[1] < e[1] \/ (d[1] = e[1] /\ d[2] <= e[2])
           d0 == <<i0, k0>>
<1>9. First(d0)
  <2>1. d0[1] = i0 /\ d0[2] = k0
    OBVIOUS
  <2>2. d0 \in Dependencies
    BY <1>1, <1>5, <1>8
  <2>3. ASSUME NEW e \in Dependencies PROVE i0 < e[1] \/ (i0 = e[1] /\ k0 <= e[2])
    <3>1. PICK i \in DOMAIN lnksec : \E k \in DOMAIN lnksec[i].sections : e = <<i, k>> /\ At(i, k)
      BY <1>1
    <3>2. PICK k \in DOMAIN lnksec[i].sections : e = <<i, k>> /\ At(i, k)
      BY <3>1
    <3>3. e[1] = i /\ e[2] = k /\ i \in Nat /\ i0 \in Nat
      BY <1>2, <1>5, <3>2
    <3>4. i0 <= i
      BY <1>5, <3>2
    <3>5. i = i0 => k0 <= k
      BY <1>8, <3>2
    <3> QED
      BY <3>3, <3>4, <3>5
  <2> HIDE DEF d0
  <2> QED
    BY <2>1, <2>2, <2>3
<1>10. Dependency = CHOOSE d : First(d)
  BY DEF Dependency
<1>11. First(Dependency)
  <2> HIDE DEF First, d0
  <2> QED
    BY <1>9, <1>10
<1>12. Dependency \in Dependencies
  BY <1>11
<1> QED
  BY <1>1, <1>12

----------------------------------------------------------------------------
(* Where the sections are: the invariant.                                  *)

LEMMA SameProgram ==
  ASSUME UNCHANGED prog
  PROVE  /\ Secs' = Secs /\ OutputSection' = OutputSection /\ opt' = opt /\ refs' = refs
         /\ \A s : /\ sec(s)' = sec(s) /\ (Bss(s)' <=> Bss(s)) /\ (Empty(s)' <=> Empty(s))
                   /\ (IsCommon(s)' <=> IsCommon(s))
         /\ \A s, t : RelRefs(s, t)' <=> RelRefs(s, t)
BY DEF Secs, OutputSection, opt, refs, sec, Bss, Empty, IsCommon, RelRefs

LEMMA InitPart ==
  ASSUME Init
  PROVE  PartInv
<1>1. Secs = 1..Len(prog.secs) /\ \A s \in Secs : sec(s).size \in Nat
  BY ProgramType DEF Init
<1>2. opt \in Option
  BY ProgramType DEF Init
<1>3. TypeInv
  <2>1. va \in Int
    BY <1>2 DEF Init, Option, opt
  <2>2. place \in [Secs -> Place]
    <3>1. place = [s \in Secs |-> [offset |-> 0, size |-> sec(s).size, commons |-> <<>>]]
      BY DEF Init, Secs, sec
    <3> DEFINE none == <<>>
    <3>2. none \in Seq(Int)
      OBVIOUS
    <3>3. place = [s \in Secs |-> [offset |-> 0, size |-> sec(s).size, commons |-> none]]
      BY <3>1
    <3> HIDE DEF none
    <3> QED
      BY <1>1, <3>2, <3>3 DEF Place
  <2>3. lnksec \in Seq(OutputSection) /\ seclist \in Seq(Secs)
    BY DEF Init
  <2>4. /\ prog \in Programs /\ phase \in Phases /\ small \subseteq Secs /\ referenced \subseteq Secs
        /\ selected \subseteq Secs /\ pos \in Nat \ {0} /\ create_allowed \in BOOLEAN
        /\ stype \in {0} \cup SectionTypes /\ nsecs \in Nat
    BY DEF Init, Secs, Phases
  <2> QED
    BY <2>1, <2>2, <2>3, <2>4 DEF TypeInv
<1>4. lnksec = <<>> /\ seclist = <<>> /\ phase = "relrefs" /\ selected = Secs /\ stype = 0 /\ nsecs = 0
  BY DEF Init, Secs
<1>5. DOMAIN lnksec = {} /\ DOMAIN seclist = {}
  BY <1>4
<1>6. Linked = {} /\ Range(seclist) = {}
  BY <1>5 DEF Linked, AllOf, Range
<1>7. OnePlace
  BY <1>5, <1>6 DEF OnePlace, OneEach, Distinct
<1>8. NoneLost
  BY <1>4 DEF NoneLost, Early, Late
<1>9. Numbers /\ Attributes
  BY <1>5 DEF Numbers, Attributes
<1> QED
  BY <1>3, <1>7, <1>8, <1>9 DEF PartInv

(* Nothing moves. *)
SameLists(L, M) ==
  /\ DOMAIN M = DOMAIN L
  /\ \A i \in DOMAIN L : M[i].sections = L[i].sections /\ M[i].small = L[i].small /\ M[i].align = L[i].align

LEMMA StayPart ==
  ASSUME PartInv, UNCHANGED <<prog, selected, seclist, nsecs, stype>> \/ phase' \in Numbered,
         UNCHANGED <<prog, selected, seclist, stype>>, TypeInv', SameLists(lnksec, lnksec'),
         phase' \notin Numbered => \A i \in DOMAIN lnksec : lnksec'[i].index = lnksec[i].index,
         UNCHANGED <<small, referenced>> \/ lnksec = <<>>,
         phase' \in Early \/ (phase' \notin Early /\ (phase \notin Early /\ UNCHANGED referenced)),
         phase' \in Early => phase \in Early,
         phase' # "collect",
         phase' = "merge" => phase = "merge",
         phase' \in {"dependencies"} \cup Late => phase \in {"dependencies"} \cup Late,
         phase \in Numbered => phase' \in Numbered
  PROVE  PartInv'
<1>1. /\ Secs' = Secs /\ opt' = opt /\ refs' = refs
      /\ \A s : sec(s)' = sec(s) /\ (Empty(s)' <=> Empty(s))
  BY SameProgram
<1>2. /\ DOMAIN lnksec' = DOMAIN lnksec
      /\ \A i \in DOMAIN lnksec : /\ lnksec'[i].sections = lnksec[i].sections
                                 /\ lnksec'[i].small = lnksec[i].small /\ lnksec'[i].align = lnksec[i].align
  BY DEF SameLists
<1>3. OneEach(lnksec)' /\ Linked' = Linked
  <2>1. OneEach(lnksec)
    BY DEF PartInv, OnePlace
  <2> QED
    BY <1>2, <2>1 DEF Linked, AllOf, OneEach
<1>4. OnePlace'
  BY <1>3 DEF PartInv, OnePlace, Distinct
<1>5. Held' = Held
  BY <1>3 DEF Held
<1>6. UNCHANGED referenced => \A s \in Secs : Keeps(s)' <=> Keeps(s)
  BY <1>1 DEF Keeps
<1>7. NoneLost'
  <2>1. phase' \in Early => selected' = Secs' /\ lnksec' = <<>> /\ seclist' = <<>> /\ stype' = 0 /\ nsecs' = 0
    <3>1. SUFFICES ASSUME phase' \in Early
                   PROVE  selected' = Secs' /\ lnksec' = <<>> /\ seclist' = <<>> /\ stype' = 0 /\ nsecs' = 0
      OBVIOUS
    <3>2. selected = Secs /\ lnksec = <<>> /\ seclist = <<>> /\ stype = 0 /\ nsecs = 0
      BY <3>1 DEF PartInv, NoneLost
    <3>3. DOMAIN lnksec' = {} /\ lnksec' \in Seq(OutputSection')
      BY <1>2, <3>2 DEF TypeInv
    <3>4. lnksec' = <<>>
      BY <3>3
    <3>5. phase' \notin Numbered
      BY <3>1 DEF Early, Numbered
    <3> QED
      BY <1>1, <3>2, <3>4, <3>5
  <2>2. phase' \notin Early => Held' = {s \in Secs' : Keeps(s)'}
    BY <1>1, <1>5, <1>6 DEF PartInv, NoneLost
  <2>3. phase' = "merge" => \A s \in selected' : ~opt'.keep_sect_order /\ sec(s)'.type > stype'
    BY <1>1 DEF PartInv, NoneLost
  <2>4. phase' \in {"dependencies"} \cup Late => selected' = {} /\ seclist' = <<>>
    BY DEF PartInv, NoneLost
  <2> QED
    BY <2>1, <2>2, <2>3, <2>4 DEF NoneLost
<1>8. Numbers'
  BY <1>2 DEF PartInv, Numbers
<1>9. Attributes'
  <2>1. lnksec = <<>> => DOMAIN lnksec = {}
    OBVIOUS
  <2>2. lnksec # <<>> => UNCHANGED small
    OBVIOUS
  <2> QED
    BY <1>1, <1>2, <2>1, <2>2 DEF PartInv, Attributes, Suits
<1> QED
  BY <1>4, <1>7, <1>8, <1>9 DEF PartInv

LEMMA RelrefsPart ==
  ASSUME PartInv, Relrefs
  PROVE  PartInv'
<1>1. Secs' = Secs /\ OutputSection' = OutputSection /\ UNCHANGED prog
  BY SameProgram DEF Relrefs
<1>2. \A r \in refs : r.to \in Secs
  BY ProgramType DEF PartInv, TypeInv
<1>3. small' \subseteq Secs /\ phase' = "sectrefs" /\ phase = "relrefs"
  BY <1>2 DEF Relrefs
<1>4. TypeInv'
  BY <1>1, <1>3 DEF PartInv, TypeInv, Phases, Relrefs
<1>5. lnksec = <<>>
  BY <1>3 DEF PartInv, NoneLost, Early
<1> QED
  BY <1>3, <1>4, <1>5, StayPart DEF Relrefs, Early, Late, Numbered, SameLists

(* The sections that are referenced. *)
LEMMA ReferencedSecs ==
  ASSUME TypeInv, linker_sectrefs
  PROVE  referenced' \subseteq Secs
<1>1. /\ \A r \in refs : r.to \in Secs
      /\ prog.prot \subseteq Secs /\ opt \in Option
      /\ opt.gc = "all" => \E s \in Secs : sec(s).type = CODE
  BY ProgramType DEF TypeInv
<1>2. opt.gc \in {"none", "empty", "all"} /\ opt.dest_object \in BOOLEAN
  BY <1>1 DEF Option
<1>3. CASE opt.gc = "none" \/ opt.dest_object
  BY <1>3 DEF linker_sectrefs
<1>4. CASE opt.gc = "empty" /\ ~opt.dest_object
  <2>1. referenced' = {r.to : r \in refs} \cup RefSections(prog.prot)
    BY <1>4 DEF linker_sectrefs
  <2>2. RefSections(prog.prot) \subseteq Secs
    BY <1>1, Reachable DEF TypeInv
  <2> QED
    BY <1>1, <2>1, <2>2
<1>5. CASE opt.gc = "all" /\ ~opt.dest_object
  <2>1. referenced' = RefSections({entry_section} \cup prog.prot)
    BY <1>5 DEF linker_sectrefs
  <2>2. entry_section \in Secs
    <3> DEFINE C == {s \in Secs : sec(s).type = CODE}
    <3>1. C \subseteq Nat /\ C # {}
      BY <1>1, <1>5, ProgramType DEF TypeInv
    <3>2. Min(C) \in C
      <4> HIDE DEF C
      <4> QED
        BY <3>1, MinIs
    <3> QED
      BY <3>2 DEF entry_section
  <2>3. {entry_section} \cup prog.prot \in SUBSET Secs
    BY <1>1, <2>2
  <2> QED
    BY <2>1, <2>3, Reachable DEF TypeInv
<1> QED
  BY <1>2, <1>3, <1>4, <1>5

LEMMA SectrefsPart ==
  ASSUME PartInv, linker_sectrefs
  PROVE  PartInv'
<1>1. Secs' = Secs /\ OutputSection' = OutputSection /\ UNCHANGED prog
  BY SameProgram DEF linker_sectrefs
<1>2. /\ phase' = "gcsects" /\ phase = "sectrefs"
      /\ UNCHANGED <<prog, small, selected, seclist, pos, create_allowed, stype, lnksec, nsecs, va, place>>
  BY DEF linker_sectrefs
<1>3. referenced' \subseteq Secs
  BY ReferencedSecs DEF PartInv
<1>4. TypeInv'
  BY <1>1, <1>2, <1>3 DEF PartInv, TypeInv, Phases
<1>5. lnksec = <<>>
  BY <1>2 DEF PartInv, NoneLost, Early
<1> QED
  BY <1>2, <1>4, <1>5, StayPart DEF Early, Late, Numbered, SameLists

LEMMA GcsectsPart ==
  ASSUME PartInv, linker_gcsects
  PROVE  PartInv'
<1>1. /\ Secs' = Secs /\ OutputSection' = OutputSection /\ opt' = opt
      /\ \A s : sec(s)' = sec(s)
  BY SameProgram DEF linker_gcsects
<1>2. /\ phase' = "collect" /\ phase = "gcsects"
      /\ UNCHANGED <<prog, small, referenced, seclist, pos, create_allowed, stype, lnksec, nsecs, va, place>>
  BY DEF linker_gcsects
<1>3. lnksec = <<>> /\ selected = Secs /\ seclist = <<>> /\ stype = 0
  BY <1>2 DEF PartInv, NoneLost, Early
<1>4. /\ opt.gc \in {"none", "empty", "all"} /\ opt.dest_object \in BOOLEAN
      /\ \A s \in Secs : sec(s).type \in {1, 2, 3}
  BY ProgramType DEF Option, PartInv, TypeInv, SectionTypes, CODE, DATA, UDATA
<1>5. selected' = {s \in Secs : Keeps(s)}
  <2>1. CASE opt.gc = "none" \/ opt.dest_object
    BY <1>3, <2>1 DEF linker_gcsects, Keeps
  <2>2. CASE opt.gc = "empty" /\ ~opt.dest_object
    BY <1>3, <2>2 DEF linker_gcsects, Keeps
  <2>3. CASE opt.gc = "all" /\ ~opt.dest_object
    BY <1>3, <2>3 DEF linker_gcsects, Keeps
  <2> QED
    BY <1>4, <2>1, <2>2, <2>3
<1>6. TypeInv'
  BY <1>1, <1>2, <1>5 DEF PartInv, TypeInv, Phases
<1>7. DOMAIN lnksec' = {} /\ DOMAIN seclist' = {} /\ Linked' = {} /\ Range(seclist)' = {}
  BY <1>2, <1>3 DEF Linked, AllOf, Range
<1>8. OnePlace'
  BY <1>7 DEF OnePlace, OneEach, Distinct
<1>9. NoneLost'
  <2>1. Held' = {s \in Secs' : Keeps(s)'}
    BY <1>1, <1>2, <1>5, <1>7 DEF Held, Keeps
  <2>2. \A s \in selected' : sec(s)'.type >= stype'
    BY <1>1, <1>2, <1>3, <1>4, <1>5
  <2> QED
    BY <1>2, <1>3, <2>1, <2>2 DEF NoneLost, Early, Late
<1>10. Numbers' /\ Attributes'
  BY <1>7 DEF Numbers, Attributes
<1> QED
  BY <1>6, <1>8, <1>9, <1>10 DEF PartInv

LEMMA CollectPart ==
  ASSUME PartInv, Collect
  PROVE  PartInv'
<1>1. /\ Secs' = Secs /\ OutputSection' = OutputSection /\ opt' = opt
      /\ \A s : sec(s)' = sec(s) /\ (Empty(s)' <=> Empty(s))
  BY SameProgram DEF Collect
<1>2. /\ phase' = "merge" /\ phase = "collect"
      /\ UNCHANGED <<prog, small, referenced, stype, lnksec, nsecs, va, place>>
      /\ pos' = 1 /\ create_allowed' = TRUE
  BY DEF Collect
<1> DEFINE now == IF opt.keep_sect_order THEN selected ELSE {s \in selected : sec(s).type = stype}
           all == [i \in Secs |-> i]
<1>3. seclist' = Only(all, now) /\ selected' = selected \ now
  BY DEF Collect
<1>4. now \subseteq selected /\ selected \subseteq Secs
  BY DEF PartInv, TypeInv
<1>5. all \in Seq(Secs) /\ Range(all) = Secs /\ Distinct(all)
  <2>1. Secs = 1..Len(prog.secs) /\ Len(prog.secs) \in Nat
    BY ProgramType DEF PartInv, TypeInv
  <2> DEFINE N == Len(prog.secs)
  <2>2. all = [i \in 1..N |-> i] /\ N \in Nat
    BY <2>1
  <2>3. \A i \in 1..N : i \in Secs
    BY <2>1
  <2> HIDE DEF N, all
  <2>4. all \in Seq(Secs)
    BY <2>2, <2>3
  <2>5. DOMAIN all = Secs /\ \A i \in Secs : all[i] = i
    BY DEF all
  <2> QED
    BY <2>4, <2>5 DEF Range, Distinct
<1>6. seclist' \in Seq(Secs) /\ Range(seclist') = now /\ Distinct(seclist')
  <2> HIDE DEF all, now
  <2>1. /\ Only(all, now) \in Seq(Secs) /\ Range(Only(all, now)) = Range(all) \cap now
        /\ Distinct(all) => Distinct(Only(all, now))
    BY <1>5, OnlyParts
  <2> QED
    BY <1>3, <1>4, <1>5, <2>1
<1>7. seclist = <<>> /\ Range(seclist) = {} /\ \A s \in selected : sec(s).type >= stype
  <2>1. seclist = <<>> /\ \A s \in selected : sec(s).type >= stype
    BY <1>2 DEF PartInv, NoneLost
  <2>2. DOMAIN seclist = {}
    BY <2>1
  <2> QED
    BY <2>1, <2>2 DEF Range
<1>8. TypeInv'
  BY <1>1, <1>2, <1>3, <1>6 DEF PartInv, TypeInv, Phases
<1>9. OneEach(lnksec)' /\ Linked' = Linked /\ Linked \cap selected = {}
  BY <1>2 DEF PartInv, OnePlace, OneEach, Linked, AllOf
<1>10. Range(seclist)' = now /\ Distinct(seclist)'
  BY <1>6 DEF Range, Distinct
<1>11. \A s \in Secs : Keeps(s)' <=> Keeps(s)
  BY <1>1, <1>2 DEF Keeps
<1>12. phase \notin Early /\ phase' \notin Early
  BY <1>2 DEF Early
<1>13. Held = {s \in Secs : Keeps(s)}
  BY <1>12 DEF PartInv, NoneLost
<1>14. \A s \in selected : sec(s).type \in Int /\ stype \in Int
  <2>1. prog \in Programs /\ selected \subseteq Secs /\ stype \in {0} \cup SectionTypes
    BY DEF PartInv, TypeInv
  <2>2. \A s \in Secs : sec(s).type \in SectionTypes
    BY <2>1, ProgramType
  <2> QED
    BY <2>1, <2>2 DEF SectionTypes, CODE, DATA, UDATA
<1>15. \A s \in selected' : ~opt.keep_sect_order /\ sec(s).type > stype
  BY <1>3, <1>7, <1>14
<1> HIDE DEF now
<1>16. OnePlace'
  BY <1>3, <1>4, <1>9, <1>10 DEF OnePlace
<1>17. Held' = Held
  BY <1>3, <1>4, <1>7, <1>9, <1>10 DEF Held
<1>18. NoneLost'
  BY <1>1, <1>2, <1>11, <1>12, <1>13, <1>15, <1>17 DEF NoneLost, Late
<1>19. Numbers'
  BY <1>2 DEF PartInv, Numbers, Numbered
<1>20. Attributes'
  BY <1>1, <1>2 DEF PartInv, Attributes, Suits
<1> QED
  BY <1>8, <1>16, <1>18, <1>19, <1>20 DEF PartInv

LEMMA MergeRoundPart ==
  ASSUME PartInv, MergeRound
  PROVE  PartInv'
<1>1. /\ Secs' = Secs /\ OutputSection' = OutputSection /\ opt' = opt
      /\ \A s : sec(s)' = sec(s) /\ (Empty(s)' <=> Empty(s))
  BY SameProgram DEF MergeRound
<1>2. /\ phase = "merge"
      /\ UNCHANGED <<prog, small, referenced, selected, seclist, lnksec, nsecs, va, place>>
  BY DEF MergeRound
<1>3. \/ seclist # <<>> /\ pos' = 1 /\ create_allowed' = TRUE /\ UNCHANGED <<phase, stype>>
      \/ /\ seclist = <<>> /\ (opt.keep_sect_order \/ stype = UDATA)
         /\ UNCHANGED <<pos, create_allowed, stype>> /\ phase' = "dependencies"
      \/ /\ seclist = <<>> /\ ~opt.keep_sect_order /\ stype # UDATA
         /\ UNCHANGED <<pos, create_allowed>> /\ phase' = "collect" /\ stype' = stype + 1
  BY DEF MergeRound
<1>4. stype \in {0, 1, 2, 3} /\ \A s \in selected : sec(s).type \in {1, 2, 3}
  BY ProgramType DEF PartInv, TypeInv, SectionTypes, CODE, DATA, UDATA
<1>5. \A s \in selected : ~opt.keep_sect_order /\ sec(s).type > stype
  BY <1>2 DEF PartInv, NoneLost
<1>6. TypeInv'
  <2>1. /\ pos' \in Nat \ {0} /\ create_allowed' \in BOOLEAN /\ phase' \in Phases
        /\ stype' \in {0} \cup SectionTypes
    <3>1. pos \in Nat \ {0} /\ create_allowed \in BOOLEAN
      BY DEF PartInv, TypeInv
    <3>2. pos' \in Nat \ {0}
      BY <1>3, <3>1
    <3>5. create_allowed' = TRUE \/ create_allowed' = create_allowed
      BY <1>3
    <3>6. create_allowed' \in BOOLEAN
      BY <3>1, <3>5, Zenon
    <3>3. phase' \in Phases
      BY <1>2, <1>3 DEF Phases
    <3>4. stype' \in {0, 1, 2, 3}
      BY <1>3, <1>4 DEF UDATA
    <3> QED
      BY <3>2, <3>3, <3>4, <3>6 DEF SectionTypes, CODE, DATA, UDATA
  <2> QED
    BY <1>1, <1>2, <2>1 DEF PartInv, TypeInv
<1>7. OnePlace' /\ Held' = Held
  BY <1>2 DEF PartInv, OnePlace, OneEach, Distinct, Linked, AllOf, Held
<1>8. Numbers'
  BY <1>2 DEF PartInv, Numbers, Numbered
<1>9. Attributes'
  BY <1>1, <1>2 DEF PartInv, Attributes, Suits
<1>10. phase' \in {"merge", "dependencies", "collect"}
  BY <1>2, <1>3
<1>11. NoneLost'
  <2>1. Held = {s \in Secs : Keeps(s)}
    BY <1>2 DEF PartInv, NoneLost, Early
  <2>2. \A s \in Secs : Keeps(s)' <=> Keeps(s)
    BY <1>1, <1>2 DEF Keeps
  <2>3. phase' \notin Early /\ Held' = {s \in Secs' : Keeps(s)'}
    BY <1>1, <1>7, <1>10, <2>1, <2>2 DEF Early
  <2>4. phase' = "collect" => seclist' = <<>> /\ \A s \in selected' : sec(s)'.type >= stype'
    BY <1>1, <1>2, <1>3, <1>4, <1>5
  <2>5. phase' = "merge" => \A s \in selected' : ~opt'.keep_sect_order /\ sec(s)'.type > stype'
    BY <1>1, <1>2, <1>3, <1>5
  <2>6. phase' = "dependencies" => selected' = {} /\ seclist' = <<>>
    <3>1. SUFFICES ASSUME phase' = "dependencies" PROVE selected' = {} /\ seclist' = <<>>
      OBVIOUS
    <3>2. seclist = <<>> /\ (opt.keep_sect_order \/ stype = 3)
      BY <1>2, <1>3, <3>1 DEF UDATA
    <3>3. \A s \in selected : FALSE
      BY <1>4, <1>5, <3>2
    <3> QED
      BY <1>2, <3>2, <3>3
  <2> QED
    BY <1>10, <2>3, <2>4, <2>5, <2>6 DEF NoneLost, Late
<1> QED
  BY <1>6, <1>7, <1>8, <1>9, <1>11 DEF PartInv

(* What one round of merge_seclist() does. *)

\* The output section m is ls with section s behind its sections.
WithSection(m, ls, s) ==
  /\ m \in OutputSection /\ m.sections = Append(ls.sections, s)
  /\ m.index = ls.index /\ m.uninit = ls.uninit
  /\ ls.small => m.small
  /\ m.align >= ls.align /\ Suits(m, s)

MergedInto(s, i, m) ==
  /\ i \in DOMAIN lnksec /\ Match(lnksec[i], s, -1) # "no" /\ WithSection(m, lnksec[i], s)
  /\ lnksec' = [lnksec EXCEPT ![i] = m] /\ seclist' = RemoveAt(seclist, pos)
  /\ UNCHANGED <<phase, pos, nsecs, create_allowed>>
MadeNew(s, m) ==
  /\ \A j \in DOMAIN lnksec : Match(lnksec[j], s, -1) = "no"
  /\ m \in OutputSection /\ m.sections = <<s>> /\ m.index = nsecs /\ m.uninit = Bss(s) /\ Suits(m, s)
  /\ lnksec' = Append(lnksec, m) /\ seclist' = RemoveAt(seclist, pos) /\ nsecs' = nsecs + 1
  /\ create_allowed' = FALSE
  /\ UNCHANGED <<phase, pos>>
LeftAlone ==
  /\ UNCHANGED <<lnksec, seclist, nsecs, create_allowed>>
  /\ \/ phase' = "spin" /\ UNCHANGED pos
     \/ UNCHANGED phase /\ pos' = pos + 1

LEMMA Attached ==
  ASSUME prog \in Programs, NEW ls \in OutputSection, NEW s \in Secs
  PROVE  LET m == [ls EXCEPT !.sections = Append(@, s)] IN
         /\ m \in OutputSection /\ m.sections = Append(ls.sections, s)
         /\ m.index = ls.index /\ m.uninit = ls.uninit /\ m.small = ls.small /\ m.align = ls.align
<1>1. ls.sections \in Seq(Secs)
  BY DEF OutputSection
<1> DEFINE q == Append(ls.sections, s)
<1>2. q \in Seq(Secs)
  BY <1>1
<1> HIDE DEF q
<1> DEFINE m == [ls EXCEPT !.sections = q]
<1>3. m \in OutputSection
  BY <1>2 DEF OutputSection
<1>4. m.sections = q /\ m.index = ls.index /\ m.uninit = ls.uninit /\ m.small = ls.small /\ m.align = ls.align
  BY DEF OutputSection
<1> QED
  BY <1>3, <1>4 DEF q

LEMMA MergeSectionIs ==
  ASSUME TypeInv, MergeSection
  PROVE  /\ phase = "merge" /\ pos \in 1..Len(seclist)
         /\ UNCHANGED <<prog, small, referenced, selected, stype, va, place>>
         /\ \/ LeftAlone
            \/ \E i, m : MergedInto(seclist[pos], i, m)
            \/ \E m : MadeNew(seclist[pos], m)
<1> DEFINE s == seclist[pos]
           i == get_matching_lnksec(s, -1)
           mt == Match(lnksec[i], s, -1)
           merged == IF mt = "join" THEN lnksec[i] ELSE merge_sec_attrs(lnksec[i], {s})
           attach(ls) == [ls EXCEPT !.sections = Append(@, s)]
<1>1. /\ phase = "merge" /\ pos \in 1..Len(seclist) /\ s \in Secs
      /\ UNCHANGED <<prog, small, referenced, selected, stype, va, place>>
  BY DEF MergeSection, TypeInv
<1>2. \/ /\ i # 0 /\ mt \in {"merge", "join"}
         /\ lnksec' = [lnksec EXCEPT ![i] = attach(merged)]
         /\ seclist' = RemoveAt(seclist, pos)
         /\ UNCHANGED <<phase, pos, nsecs, create_allowed>>
      \/ /\ i # 0 /\ mt = "spin" /\ phase' = "spin"
         /\ UNCHANGED <<lnksec, seclist, pos, nsecs, create_allowed>>
      \/ /\ i = 0 /\ create_allowed
         /\ lnksec' = Append(lnksec, attach(create_lnksect(s)))
         /\ seclist' = RemoveAt(seclist, pos)
         /\ nsecs' = nsecs + 1 /\ create_allowed' = FALSE
         /\ UNCHANGED <<phase, pos>>
      \/ /\ i = 0 /\ ~create_allowed /\ pos' = pos + 1
         /\ UNCHANGED <<phase, lnksec, seclist, nsecs, create_allowed>>
  <2>1. \/ i = 0 \/ (i \in DOMAIN lnksec /\ mt # "no")
    BY Matching DEF TypeInv
  <2>2. mt \in {"no", "spin", "merge", "join"}
    BY MatchIs
  <2>3. ~(0 \in DOMAIN lnksec)
    BY DEF TypeInv
  <2>4. CASE i # 0 /\ mt \in {"merge", "join"}
    BY <2>4 DEF MergeSection
  <2>5. CASE i # 0 /\ mt = "spin"
    BY <2>5 DEF MergeSection
  <2>6. CASE i = 0 /\ create_allowed
    BY <2>6 DEF MergeSection
  <2>7. CASE i = 0 /\ ~create_allowed
    BY <2>7 DEF MergeSection
  <2> HIDE DEF i, mt, s
  <2> QED
    BY <2>1, <2>2, <2>3, <2>4, <2>5, <2>6, <2>7
<1>3. \/ i = 0 /\ \A j \in DOMAIN lnksec : Match(lnksec[j], s, -1) = "no"
      \/ i \in DOMAIN lnksec /\ mt # "no"
  BY Matching DEF TypeInv
<1>4. i # 0 => i \in DOMAIN lnksec /\ mt # "no" /\ lnksec[i] \in OutputSection
  <2> HIDE DEF i
  <2> QED
    BY <1>3 DEF TypeInv
<1>5. mt = "join" => Empty(s)
  BY MatchIs
<1>6. i = 0 => \A j \in DOMAIN lnksec : Match(lnksec[j], s, -1) = "no"
  <2>1. ~(0 \in DOMAIN lnksec)
    BY DEF TypeInv
  <2> HIDE DEF i
  <2> QED
    BY <1>3, <2>1
<1>7. ASSUME i # 0 PROVE WithSection(attach(merged), lnksec[i], s)
  <2> DEFINE ls == lnksec[i]
  <2>1. ls \in OutputSection
    BY <1>4, <1>7
  <2>2. LET m == merge_sec_attrs(ls, {s}) IN
         /\ m \in OutputSection /\ SameSection(m, ls) /\ (ls.small => m.small) /\ m.align >= ls.align
         /\ \A t \in {s} : (t \in small => m.small) /\ m.align >= sec(t).align
    <3> HIDE DEF ls, s, i
    <3> QED
      BY <1>1, <2>1, MergedAttrs DEF TypeInv
  <2>3. /\ merged \in OutputSection /\ merged.index = ls.index /\ merged.uninit = ls.uninit
        /\ merged.sections = ls.sections /\ (ls.small => merged.small) /\ merged.align >= ls.align
        /\ Suits(merged, s)
    <3>1. CASE mt = "join"
      <4>1. merged = ls /\ ls.align \in Int
        BY <2>1, <3>1 DEF OutputSection, Alignment
      <4> HIDE DEF merged, ls, s, i, mt
      <4> QED
        BY <1>5, <2>1, <3>1, <4>1 DEF Suits
    <3>2. CASE mt # "join"
      <4>1. merged = merge_sec_attrs(ls, {s})
        BY <3>2
      <4> HIDE DEF merged, ls, s, i, mt
      <4> QED
        BY <2>2, <4>1 DEF Suits, SameSection
    <3> QED
      BY <3>1, <3>2
  <2> HIDE DEF merged
  <2> DEFINE m == attach(merged)
  <2>4. /\ m \in OutputSection /\ m.sections = Append(merged.sections, s)
        /\ m.index = merged.index /\ m.uninit = merged.uninit /\ m.small = merged.small /\ m.align = merged.align
    <3> HIDE DEF s
    <3> QED
      BY <1>1, <2>3, Attached DEF TypeInv
  <2> HIDE DEF m, s, ls
  <2>5. WithSection(m, ls, s)
    BY <2>3, <2>4 DEF WithSection, Suits
  <2> QED
    BY <2>5 DEF m, s, ls
<1>8. LET m == attach(create_lnksect(s)) IN
      m \in OutputSection /\ m.sections = <<s>> /\ m.index = nsecs /\ m.uninit = Bss(s) /\ Suits(m, s)
  <2> DEFINE c == create_lnksect(s)
  <2> HIDE DEF s
  <2>1. /\ c \in OutputSection /\ c.index = nsecs /\ c.sections = <<>> /\ c.uninit = Bss(s)
        /\ (s \in small => c.small) /\ c.align = sec(s).align
    BY <1>1, CreatedSection DEF TypeInv
  <2> HIDE DEF c
  <2> DEFINE m == attach(c)
  <2>2. /\ m \in OutputSection /\ m.sections = Append(c.sections, s)
        /\ m.index = c.index /\ m.uninit = c.uninit /\ m.small = c.small /\ m.align = c.align
    BY <1>1, <2>1, Attached DEF TypeInv
  <2> HIDE DEF m
  <2>3. m.sections = <<s>>
    BY <2>1, <2>2
  <2>4. sec(s).align \in Int
    BY <1>1, ProgramType DEF TypeInv, Alignment
  <2>5. m \in OutputSection /\ m.sections = <<s>> /\ m.index = nsecs /\ m.uninit = Bss(s) /\ Suits(m, s)
    BY <2>1, <2>2, <2>3, <2>4 DEF Suits
  <2> QED
    BY <2>5 DEF m, c
<1> HIDE DEF merged, i, mt
<1>9. CASE i # 0 /\ mt \in {"merge", "join"} /\ lnksec' = [lnksec EXCEPT ![i] = attach(merged)]
           /\ seclist' = RemoveAt(seclist, pos) /\ UNCHANGED <<phase, pos, nsecs, create_allowed>>
  <2>1. MergedInto(s, i, attach(merged))
    BY <1>4, <1>7, <1>9 DEF MergedInto, mt
  <2> HIDE DEF attach
  <2> QED
    BY <1>1, <2>1
<1>10. CASE /\ i = 0 /\ create_allowed
            /\ lnksec' = Append(lnksec, attach(create_lnksect(s)))
            /\ seclist' = RemoveAt(seclist, pos)
            /\ nsecs' = nsecs + 1 /\ create_allowed' = FALSE
            /\ UNCHANGED <<phase, pos>>
  <2>1. MadeNew(s, attach(create_lnksect(s)))
    BY <1>6, <1>8, <1>10 DEF MadeNew
  <2> HIDE DEF attach
  <2> QED
    BY <1>1, <2>1
<1>11. CASE LeftAlone
  BY <1>1, <1>11
<1> HIDE DEF attach
<1> QED
  BY <1>2, <1>9, <1>10, <1>11 DEF LeftAlone

LEMMA MergeSectionPart ==
  ASSUME PartInv, MergeSection
  PROVE  PartInv'
<1> DEFINE s == seclist[pos]
<1>1. /\ phase = "merge" /\ pos \in 1..Len(seclist)
      /\ UNCHANGED <<prog, small, referenced, selected, stype, va, place>>
      /\ \/ LeftAlone
         \/ \E i, m : MergedInto(s, i, m)
         \/ \E m : MadeNew(s, m)
  BY MergeSectionIs DEF PartInv
<1>2. /\ Secs' = Secs /\ OutputSection' = OutputSection /\ opt' = opt
      /\ \A t : sec(t)' = sec(t) /\ (Empty(t)' <=> Empty(t))
  BY <1>1, SameProgram
<1>3. /\ seclist \in Seq(Secs) /\ lnksec \in Seq(OutputSection) /\ s \in Secs /\ nsecs \in Nat
      /\ s \in Range(seclist)
  BY <1>1 DEF PartInv, TypeInv, Range
<1>4. Held = {t \in Secs : Keeps(t)} /\ \A t \in Secs : Keeps(t)' <=> Keeps(t)
  BY <1>1, <1>2 DEF PartInv, NoneLost, Early, Keeps
<1>5. /\ \A t \in selected : ~opt.keep_sect_order /\ sec(t).type > stype
      /\ s \notin AllOf(lnksec) /\ OneEach(lnksec)
      /\ \A i \in DOMAIN lnksec : lnksec[i].index \in 0 .. nsecs - 1
      /\ \A i, j \in DOMAIN lnksec : lnksec[i].index = lnksec[j].index => i = j
      /\ \A i \in DOMAIN lnksec : \A t \in Range(lnksec[i].sections) : Suits(lnksec[i], t)
  BY <1>1, <1>3 DEF PartInv, NoneLost, OnePlace, Linked, Numbers, Numbered, Attributes
<1>6. CASE LeftAlone
  <2>1. pos' \in Nat \ {0} /\ phase' \in {"merge", "spin"}
    BY <1>1, <1>6 DEF LeftAlone
  <2>2. TypeInv'
    BY <1>1, <1>2, <1>6, <2>1 DEF PartInv, TypeInv, Phases, LeftAlone
  <2>3. UNCHANGED <<prog, selected, seclist, lnksec, nsecs, stype, small, referenced>>
    BY <1>1, <1>6 DEF LeftAlone
  <2> QED
    BY <1>1, <2>1, <2>2, <2>3, StayPart DEF Early, Late, Numbered, SameLists
<1> DEFINE list == RemoveAt(seclist, pos)
<1>7. /\ list \in Seq(Secs) /\ Range(seclist) = Range(list) \cup {s}
      /\ Distinct(list) /\ s \notin Range(list)
  <2>1. list \in Seq(Secs)
    BY <1>1, <1>3, RemoveAtParts
  <2>2. /\ Range(seclist) = Range(list) \cup {seclist[pos]}
        /\ Distinct(seclist) => Distinct(list) /\ seclist[pos] \notin Range(list)
    BY <1>1, <1>3, RemovedOne
  <2> HIDE DEF list
  <2> QED
    BY <2>1, <2>2 DEF PartInv, OnePlace
<1> HIDE DEF list, s
<1>8. ASSUME lnksec' \in Seq(OutputSection), OneEach(lnksec'), AllOf(lnksec') = AllOf(lnksec) \cup {s},
             seclist' = list, phase' = "merge", pos' = pos, nsecs' \in Nat, create_allowed' \in BOOLEAN
      PROVE  TypeInv' /\ OnePlace' /\ NoneLost'
  <2>1. TypeInv'
    BY <1>1, <1>2, <1>7, <1>8 DEF PartInv, TypeInv
  <2>2. Linked' = Linked \cup {s}
    BY <1>8 DEF Linked, AllOf
  <2>3. selected \cap Range(seclist) = {} /\ Linked \cap (selected \cup Range(seclist)) = {}
    BY DEF PartInv, OnePlace
  <2>4. OneEach(lnksec)' /\ Distinct(seclist)' /\ Range(seclist)' = Range(list)
    BY <1>7, <1>8 DEF OneEach, Distinct, Range
  <2>5. OnePlace'
    BY <1>1, <1>7, <2>2, <2>3, <2>4 DEF OnePlace
  <2>6. Held' = Held
    BY <1>1, <1>7, <2>2, <2>4 DEF Held
  <2>7. NoneLost'
    BY <1>1, <1>2, <1>4, <1>5, <1>8, <2>6 DEF NoneLost, Early, Late
  <2> QED
    BY <2>1, <2>5, <2>7
<1>9. CASE \E i, m : MergedInto(s, i, m)
  <2>1. PICK i, m : MergedInto(s, i, m)
    BY <1>9
  <2>2. /\ i \in DOMAIN lnksec /\ WithSection(m, lnksec[i], s) /\ lnksec' = [lnksec EXCEPT ![i] = m]
        /\ seclist' = list /\ UNCHANGED <<phase, pos, nsecs, create_allowed>>
    BY <2>1 DEF MergedInto, list
  <2>3. m \in OutputSection /\ m.sections = Append(lnksec[i].sections, s) /\ m.index = lnksec[i].index
    BY <2>2 DEF WithSection
  <2>4. lnksec' \in Seq(OutputSection) /\ OneEach(lnksec') /\ AllOf(lnksec') = AllOf(lnksec) \cup {s}
    <3> DEFINE M == lnksec'
    <3>1. M \in Seq(OutputSection) /\ i \in DOMAIN lnksec
      BY <1>3, <2>2, <2>3
    <3>2. Behind(lnksec, M, i, s)
      BY <1>3, <2>2, <2>3, <3>1 DEF Behind
    <3> HIDE DEF M
    <3>3. OneEach(M) /\ AllOf(M) = AllOf(lnksec) \cup {s}
      BY <1>3, <1>5, <3>1, <3>2, Extended
    <3> QED
      BY <3>1, <3>3 DEF M
  <2>5. TypeInv' /\ OnePlace' /\ NoneLost'
    BY <1>1, <1>3, <1>8, <2>2, <2>4 DEF PartInv, TypeInv
  <2>6. /\ DOMAIN lnksec' = DOMAIN lnksec
        /\ \A j \in DOMAIN lnksec : lnksec'[j] = IF j = i THEN m ELSE lnksec[j]
    BY <1>3, <2>2
  <2>7. Numbers'
    BY <1>5, <2>2, <2>3, <2>6 DEF Numbers
  <2>8. ASSUME NEW j \in DOMAIN lnksec, NEW t \in Range(lnksec'[j].sections) PROVE Suits(lnksec'[j], t)
    <3>1. CASE j # i
      BY <1>5, <2>6, <3>1
    <3>2. CASE j = i
      <4>1. Range(m.sections) = Range(lnksec[i].sections) \cup {s} /\ lnksec'[j] = m
        BY <1>3, <2>2, <2>3, <2>6, <3>2, AppendParts, SectionsOf
      <4>2. CASE t = s
        BY <2>2, <4>1, <4>2 DEF WithSection
      <4>3. CASE t # s
        <5>1. t \in Secs /\ t \in Range(lnksec[i].sections)
          BY <1>3, <2>2, <4>1, <4>3, SectionsOf
        <5>2. Suits(lnksec[i], t)
          BY <1>5, <2>2, <5>1
        <5>3. sec(t).align \in Int /\ lnksec[i].align \in Int /\ m.align \in Int
          <6>1. lnksec[i].align \in Alignment /\ m.align \in Alignment
            <7>1. lnksec[i] \in OutputSection
              BY <1>3, <2>2, SectionsOf
            <7> QED
              BY <2>3, <7>1 DEF OutputSection
          <6>2. sec(t).align \in Alignment
            BY <5>1, ProgramType DEF PartInv, TypeInv
          <6> QED
            BY <6>1, <6>2 DEF Alignment
        <5> QED
          BY <2>2, <4>1, <5>2, <5>3 DEF Suits, WithSection
      <4> QED
        BY <4>2, <4>3
    <3> QED
      BY <3>1, <3>2
  <2>9. Attributes'
    BY <1>1, <1>2, <2>6, <2>8 DEF Attributes, Suits
  <2> QED
    BY <2>5, <2>7, <2>9 DEF PartInv
<1>10. CASE \E m : MadeNew(s, m)
  <2>1. PICK m : MadeNew(s, m)
    BY <1>10
  <2>2. /\ m \in OutputSection /\ m.sections = <<s>> /\ m.index = nsecs /\ Suits(m, s)
        /\ lnksec' = Append(lnksec, m) /\ seclist' = list /\ nsecs' = nsecs + 1
        /\ create_allowed' = FALSE /\ UNCHANGED <<phase, pos>>
    BY <2>1 DEF MadeNew, list
  <2>3. lnksec' \in Seq(OutputSection) /\ OneEach(lnksec') /\ AllOf(lnksec') = AllOf(lnksec) \cup {s}
    BY <1>3, <1>5, <2>2, Added
  <2>4. TypeInv' /\ OnePlace' /\ NoneLost'
    <3>1. nsecs' \in Nat
      BY <1>3, <2>2
    <3>2. create_allowed' \in BOOLEAN
      BY <2>2, Zenon
    <3> QED
      BY <1>1, <1>8, <2>2, <2>3, <3>1, <3>2
  <2>5. /\ DOMAIN lnksec' = 1..Len(lnksec) + 1 /\ DOMAIN lnksec = 1..Len(lnksec) /\ Len(lnksec) \in Nat
        /\ \A j \in 1..Len(lnksec) + 1 : lnksec'[j] = IF j <= Len(lnksec) THEN lnksec[j] ELSE m
    BY <1>3, <2>2, AppendParts
  <2>6. \A j \in DOMAIN lnksec' : \/ j \in DOMAIN lnksec /\ lnksec'[j] = lnksec[j]
                                  \/ j = Len(lnksec) + 1 /\ lnksec'[j] = m
    BY <2>5
  <2>7. Numbers'
    <3>1. \A j \in DOMAIN lnksec' : lnksec'[j].index \in 0 .. nsecs' - 1
      BY <1>3, <1>5, <2>2, <2>6
    <3>2. ASSUME NEW j \in DOMAIN lnksec', NEW l \in DOMAIN lnksec', lnksec'[j].index = lnksec'[l].index
          PROVE  j = l
      BY <1>3, <1>5, <2>2, <2>6, <3>2
    <3> QED
      BY <3>1, <3>2 DEF Numbers
  <2>8. Range(m.sections) = {s}
    <3> DEFINE q == <<s>>
    <3>1. DOMAIN q = 1..1 /\ q[1] = s
      OBVIOUS
    <3>2. 1..1 = {1}
      OBVIOUS
    <3> HIDE DEF q
    <3>3. Range(q) = {s}
      BY <3>1, <3>2 DEF Range
    <3> QED
      BY <2>2, <3>3 DEF q
  <2>9. \A j \in DOMAIN lnksec' : \A t \in Range(lnksec'[j].sections) : Suits(lnksec'[j], t)
    BY <1>5, <2>2, <2>6, <2>8
  <2>10. Attributes'
    BY <1>1, <1>2, <2>9 DEF Attributes, Suits
  <2> QED
    BY <2>4, <2>7, <2>10 DEF PartInv
<1> QED
  BY <1>1, <1>6, <1>9, <1>10

(* What one round of the search for dependencies does. *)

\* The output section m has the sections of a and, behind them, those of b.
BothSections(m, a, b) ==
  /\ m \in OutputSection /\ m.sections = Joined(a.sections, b.sections)
  /\ m.index = a.index /\ m.uninit = a.uninit
  /\ a.small => m.small
  /\ m.align >= a.align
  /\ \A t \in Range(b.sections) : (t \in small => m.small) /\ m.align >= sec(t).align

JoinedLinked(old, new, m) ==
  /\ old \in DOMAIN lnksec /\ new \in DOMAIN lnksec /\ lnksec[old].index < lnksec[new].index
  /\ BothSections(m, lnksec[old], lnksec[new])
  /\ JoinedInto(lnksec, lnksec', old, new, m)
  /\ UNCHANGED phase

LEMMA BothSectionsIs ==
  ASSUME prog \in Programs, NEW a \in OutputSection, NEW b \in OutputSection
  PROVE  BothSections([merge_sec_attrs(a, Range(b.sections)) EXCEPT !.sections = Joined(@, b.sections)], a, b)
<1> DEFINE S == Range(b.sections)
           c == merge_sec_attrs(a, S)
           q == Joined(a.sections, b.sections)
           m == [c EXCEPT !.sections = q]
<1>1. a.sections \in Seq(Secs) /\ b.sections \in Seq(Secs)
  BY DEF OutputSection
<1>2. S \subseteq Secs
  BY <1>1 DEF Range
<1> HIDE DEF S
<1>3. /\ c \in OutputSection /\ SameSection(c, a) /\ (a.small => c.small) /\ c.align >= a.align
      /\ \A s \in S : (s \in small => c.small) /\ c.align >= sec(s).align
  BY <1>2, MergedAttrs
<1> HIDE DEF c
<1>4. q \in Seq(Secs)
  BY <1>1, JoinedParts
<1> HIDE DEF q
<1>5. /\ m \in OutputSection /\ m.sections = q /\ m.index = c.index /\ m.uninit = c.uninit
      /\ m.small = c.small /\ m.align = c.align
  BY <1>3, <1>4 DEF OutputSection
<1>6. c.sections = a.sections
  BY <1>3 DEF SameSection
<1>7. m = [c EXCEPT !.sections = Joined(@, b.sections)]
  BY <1>6 DEF q
<1> HIDE DEF m
<1>8. BothSections(m, a, b)
  BY <1>3, <1>5, <1>6 DEF BothSections, q, S, SameSection
<1> QED
  BY <1>7, <1>8 DEF c, S

LEMMA ResolveIs ==
  ASSUME TypeInv, Numbers, ResolveDependencies
  PROVE  /\ phase = "dependencies"
         /\ UNCHANGED <<prog, small, referenced, selected, seclist, create_allowed, stype, nsecs, va, place>>
         /\ \/ Dependencies = {} /\ phase' = "layout" /\ pos' = 1 /\ UNCHANGED lnksec
            \/ phase' = "spin" /\ UNCHANGED <<lnksec, pos>>
            \/ UNCHANGED pos /\ \E old, new, m : JoinedLinked(old, new, m)
<1>1. /\ phase = "dependencies"
      /\ UNCHANGED <<prog, small, referenced, selected, seclist, create_allowed, stype, nsecs, va, place>>
  BY DEF ResolveDependencies
<1>2. CASE Dependencies = {}
  BY <1>1, <1>2 DEF ResolveDependencies
<1>3. CASE Dependencies # {}
  <2>1. PICK i \in DOMAIN lnksec : \E k \in DOMAIN lnksec[i].sections :
               /\ Dependency = <<i, k>>
               /\ get_matching_lnksec(lnksec[i].sections[k], lnksec[i].index) # 0
    BY <1>3, DependencyIs DEF TypeInv
  <2>2. PICK k \in DOMAIN lnksec[i].sections :
               /\ Dependency = <<i, k>>
               /\ get_matching_lnksec(lnksec[i].sections[k], lnksec[i].index) # 0
    BY <2>1
  <2> DEFINE s == lnksec[i].sections[k]
             my == lnksec[i].index
             j == get_matching_lnksec(s, my)
  <2>3. j \in DOMAIN lnksec /\ Match(lnksec[j], s, my) # "no"
    <3> HIDE DEF s, my
    <3> QED
      BY <2>2, Matching DEF TypeInv, s, my
  <2>4. j # i
    <3>1. lnksec[j].index = my => Match(lnksec[j], s, my) = "no"
      BY MatchIs
    <3> HIDE DEF j
    <3> QED
      BY <2>3, <3>1
  <2>5. \/ phase' = "spin" /\ UNCHANGED <<lnksec, pos>>
        \/ lnksec' = MergeLinked(i, j) /\ UNCHANGED <<phase, pos>>
    <3>1. Dependency[1] = i /\ Dependency[2] = k
      BY <2>2
    <3>2. CASE Match(lnksec[j], s, my) = "spin"
      BY <1>3, <3>1, <3>2 DEF ResolveDependencies
    <3>3. CASE Match(lnksec[j], s, my) # "spin"
      BY <1>3, <3>1, <3>3 DEF ResolveDependencies
    <3> QED
      BY <3>2, <3>3
  <2> HIDE DEF j, my, s
  <2> DEFINE old == IF lnksec[i].index < lnksec[j].index THEN i ELSE j
             new == IF old = i THEN j ELSE i
             m == [merge_sec_attrs(lnksec[old], Range(lnksec[new].sections)) EXCEPT
                     !.sections = Joined(@, lnksec[new].sections)]
  <2>6. MergeLinked(i, j) = RemoveAt([lnksec EXCEPT ![old] = m], new)
    BY DEF MergeLinked
  <2>7. old \in DOMAIN lnksec /\ new \in DOMAIN lnksec /\ lnksec[old].index < lnksec[new].index
    <3>1. lnksec[i].index # lnksec[j].index /\ lnksec[i].index \in Int /\ lnksec[j].index \in Int
      <4>1. lnksec[i].index \in 0 .. nsecs - 1 /\ lnksec[j].index \in 0 .. nsecs - 1
            /\ (lnksec[i].index = lnksec[j].index => i = j)
        BY <1>1, <2>3 DEF Numbers, Numbered
      <4> QED
        BY <2>4, <4>1
    <3>2. CASE lnksec[i].index < lnksec[j].index
      BY <2>3, <3>2
    <3>3. CASE ~(lnksec[i].index < lnksec[j].index)
      <4>1. old = j /\ new = i /\ lnksec[j].index < lnksec[i].index
        BY <2>4, <3>1, <3>3
      <4> QED
        BY <2>3, <4>1
    <3> QED
      BY <3>2, <3>3
  <2> HIDE DEF old, new
  <2>8. lnksec[old] \in OutputSection /\ lnksec[new] \in OutputSection
    BY <2>7 DEF TypeInv
  <2>9. BothSections(m, lnksec[old], lnksec[new])
    BY <2>8, BothSectionsIs DEF TypeInv
  <2> HIDE DEF m
  <2>10. m \in OutputSection
    BY <2>9 DEF BothSections
  <2>11. JoinedInto(lnksec, RemoveAt([lnksec EXCEPT ![old] = m], new), old, new, m)
    BY <2>7, <2>10, JoinedShape DEF TypeInv
  <2>12. lnksec' = MergeLinked(i, j) /\ UNCHANGED <<phase, pos>> => UNCHANGED pos /\ JoinedLinked(old, new, m)
    BY <2>6, <2>7, <2>9, <2>11 DEF JoinedLinked
  <2> QED
    BY <1>1, <2>5, <2>12
<1> QED
  BY <1>2, <1>3

LEMMA ResolvePart ==
  ASSUME PartInv, ResolveDependencies
  PROVE  PartInv'
<1>1. /\ phase = "dependencies"
      /\ UNCHANGED <<prog, small, referenced, selected, seclist, create_allowed, stype, nsecs, va, place>>
      /\ \/ Dependencies = {} /\ phase' = "layout" /\ pos' = 1 /\ UNCHANGED lnksec
         \/ phase' = "spin" /\ UNCHANGED <<lnksec, pos>>
         \/ UNCHANGED pos /\ \E old, new, m : JoinedLinked(old, new, m)
  BY ResolveIs DEF PartInv
<1>2. /\ Secs' = Secs /\ OutputSection' = OutputSection /\ opt' = opt
      /\ \A t : sec(t)' = sec(t) /\ (Empty(t)' <=> Empty(t))
  BY <1>1, SameProgram
<1>3. CASE UNCHANGED lnksec /\ phase' \in {"layout", "spin"} /\ pos' \in {1, pos}
  <2>1. TypeInv'
    BY <1>1, <1>2, <1>3 DEF PartInv, TypeInv, Phases
  <2> QED
    BY <1>1, <1>3, <2>1, StayPart DEF Early, Late, Numbered, SameLists
<1>4. CASE UNCHANGED pos /\ \E old, new, m : JoinedLinked(old, new, m)
  <2>1. PICK old, new, m : JoinedLinked(old, new, m)
    BY <1>4
  <2> DEFINE M == lnksec'
  <2>2. /\ old \in DOMAIN lnksec /\ new \in DOMAIN lnksec /\ lnksec[old].index < lnksec[new].index
        /\ BothSections(m, lnksec[old], lnksec[new])
        /\ JoinedInto(lnksec, M, old, new, m)
        /\ UNCHANGED phase
    BY <2>1 DEF JoinedLinked
  <2>3. lnksec \in Seq(OutputSection) /\ OneEach(lnksec)
    BY DEF PartInv, TypeInv, OnePlace
  <2>4. old # new
    <3>1. lnksec[old].index \in 0 .. nsecs - 1
      BY <1>1, <2>2 DEF PartInv, Numbers, Numbered
    <3> QED
      BY <2>2, <3>1
  <2>5. m \in OutputSection /\ m.sections = Joined(lnksec[old].sections, lnksec[new].sections)
        /\ m.index = lnksec[old].index
    BY <2>2 DEF BothSections
  <2> HIDE DEF M
  <2>6. OneEach(M) /\ AllOf(M) = AllOf(lnksec)
    BY <2>2, <2>3, <2>4, <2>5, JoinedTwo
  <2>7. /\ M \in Seq(OutputSection)
        /\ \A a \in DOMAIN M : /\ Skip(new, a) \in DOMAIN lnksec
                               /\ M[a] = IF Skip(new, a) = old THEN m ELSE lnksec[Skip(new, a)]
        /\ \A a, b \in DOMAIN M : Skip(new, a) = Skip(new, b) => a = b
    BY <2>2 DEF JoinedInto
  <2>8. TypeInv'
    BY <1>1, <1>2, <1>4, <2>2, <2>7 DEF PartInv, TypeInv, M
  <2>9. OneEach(lnksec)' /\ Linked' = Linked
    BY <2>6 DEF OneEach, Linked, AllOf, M
  <2>10. OnePlace' /\ Held' = Held
    BY <1>1, <2>9 DEF PartInv, OnePlace, Distinct, Held, Range
  <2>11. \A t \in Secs : Keeps(t)' <=> Keeps(t)
    BY <1>1, <1>2 DEF Keeps
  <2>12. NoneLost'
    BY <1>1, <1>2, <2>2, <2>10, <2>11 DEF PartInv, NoneLost, Early, Late
  <2>13. \A a \in DOMAIN M : M[a].index = lnksec[Skip(new, a)].index
    BY <2>5, <2>7
  <2>14. Numbers'
    <3>1. /\ \A i \in DOMAIN lnksec : lnksec[i].index \in 0 .. nsecs - 1
          /\ \A i, j \in DOMAIN lnksec : lnksec[i].index = lnksec[j].index => i = j
      BY <1>1 DEF PartInv, Numbers, Numbered
    <3>2. \A a \in DOMAIN M : M[a].index \in 0 .. nsecs - 1
      BY <2>7, <2>13, <3>1
    <3>3. ASSUME NEW a \in DOMAIN M, NEW b \in DOMAIN M, M[a].index = M[b].index PROVE a = b
      <4>1. Skip(new, a) = Skip(new, b)
        BY <2>7, <2>13, <3>1, <3>3
      <4> QED
        BY <2>7, <4>1
    <3> QED
      BY <1>1, <3>2, <3>3 DEF Numbers, M
  <2>15. ASSUME NEW a \in DOMAIN M, NEW t \in Range(M[a].sections) PROVE Suits(M[a], t)
    <3>1. CASE Skip(new, a) # old
      BY <2>7, <3>1 DEF PartInv, Attributes
    <3>2. CASE Skip(new, a) = old
      <4>1. M[a] = m
        BY <2>7, <3>2
      <4>2. /\ lnksec[old].sections \in Seq(Secs) /\ lnksec[new].sections \in Seq(Secs)
            /\ lnksec[old] \in OutputSection
            /\ Range(lnksec[old].sections) \subseteq Secs /\ Range(lnksec[new].sections) \subseteq Secs
        BY <2>2, <2>3, SectionsOf
      <4>3. t \in Range(lnksec[old].sections) \/ t \in Range(lnksec[new].sections)
        BY <2>5, <4>1, <4>2, JoinedParts
      <4>4. CASE t \in Range(lnksec[new].sections)
        BY <2>2, <4>1, <4>4 DEF BothSections, Suits
      <4>5. CASE t \in Range(lnksec[old].sections)
        <5>1. Suits(lnksec[old], t)
          BY <2>2, <4>5 DEF PartInv, Attributes
        <5>2. lnksec[old].align \in Alignment /\ m.align \in Alignment
          BY <2>5, <4>2 DEF OutputSection
        <5>3. sec(t).align \in Alignment
          BY <4>2, <4>5, ProgramType DEF PartInv, TypeInv
        <5>4. /\ lnksec[old].small => m.small
              /\ m.align >= lnksec[old].align
          BY <2>2 DEF BothSections
        <5> QED
          BY <4>1, <5>1, <5>2, <5>3, <5>4 DEF Suits, Alignment
      <4> QED
        BY <4>3, <4>4, <4>5
    <3> QED
      BY <3>1, <3>2
  <2>16. Attributes'
    BY <1>1, <1>2, <2>15 DEF Attributes, Suits, M
  <2> QED
    BY <2>8, <2>10, <2>12, <2>14, <2>16 DEF PartInv
<1> QED
  BY <1>1, <1>3, <1>4

(* The output section of a step of Layout. *)
LaidSection(m, ls, p) ==
  /\ m \in OutputSection /\ m.sections = ls.sections /\ m.index = ls.index /\ m.uninit = ls.uninit
  /\ m.small = ls.small /\ m.align = ls.align
  /\ m.base = va /\ m.size = p.size /\ m.filesize = Trimmed(ls, p)

LEMMA FullIs ==
  ASSUME NEW ls, ls.sections \in Seq(Secs), Full(ls) # <<>>
  PROVE  /\ Full(ls) \in Seq(Secs) /\ Last(Full(ls)) \in Range(ls.sections)
         /\ Last(Full(ls)) \in Secs /\ ~Bss(Last(Full(ls)))
         /\ Last(Full(ls)) = Full(ls)[Len(Full(ls))] /\ Len(Full(ls)) \in Nat \ {0}
<1> DEFINE q == Full(ls)
           Fulls == {s \in Secs : ~Bss(s)}
<1>1. q \in Seq(Secs) /\ Range(q) = Range(ls.sections) \cap Fulls
  <2>1. q = Only(ls.sections, Fulls)
    BY DEF Full
  <2> HIDE DEF q, Fulls
  <2> QED
    BY <2>1, OnlyParts
<1>2. q # <<>>
  OBVIOUS
<1> HIDE DEF q
<1>3. Len(q) \in Nat \ {0} /\ Len(q) \in DOMAIN q
  BY <1>1, <1>2
<1>4. Last(q) = q[Len(q)] /\ q[Len(q)] \in Range(q)
  BY <1>3 DEF Last, Range
<1> QED
  BY <1>1, <1>3, <1>4 DEF q

LEMMA LayoutIs ==
  ASSUME TypeInv, Layout
  PROVE  LET p == PlaceSections(lnksec[pos]) IN
         /\ phase = "layout" /\ pos \in DOMAIN lnksec /\ pos' = pos + 1
         /\ UNCHANGED <<prog, phase, small, referenced, selected, seclist, create_allowed, stype, nsecs>>
         /\ p \in Placement /\ place' = p.place
         /\ va' = (IF opt.baseincr THEN va + p.size ELSE va) /\ va' \in Int
         /\ DOMAIN lnksec' = DOMAIN lnksec /\ LaidSection(lnksec'[pos], lnksec[pos], p)
         /\ \A i \in DOMAIN lnksec : i # pos => lnksec'[i] = lnksec[i]
         /\ lnksec' \in Seq(OutputSection)
<1> DEFINE ls == lnksec[pos]
           p == PlaceSections(ls)
           tr == Trimmed(ls, p)
<1>1. /\ phase = "layout" /\ pos \in DOMAIN lnksec /\ pos' = pos + 1
      /\ UNCHANGED <<prog, phase, small, referenced, selected, seclist, create_allowed, stype, nsecs>>
      /\ place' = p.place /\ va' = (IF opt.baseincr THEN va + p.size ELSE va)
      /\ lnksec' = [lnksec EXCEPT ![pos].base = va, ![pos].size = p.size, ![pos].filesize = tr]
  BY DEF Layout, TypeInv
<1>2. ls \in OutputSection /\ ls.sections \in Seq(Secs) /\ va \in Int /\ lnksec \in Seq(OutputSection)
      /\ prog \in Programs /\ place \in [Secs -> Place]
  BY <1>1, SectionsOf DEF TypeInv
<1> HIDE DEF ls
<1>3. p \in Placement
  BY <1>2, SectionsPlaced
<1> HIDE DEF p
<1>4. p.size \in Nat /\ p.filesize \in Nat /\ p.place \in [Secs -> Place]
  BY <1>3 DEF Placement
<1>5. tr \in Int
  <2>1. CASE opt.dest_object \/ Full(ls) = <<>>
    BY <1>4, <2>1 DEF Trimmed
  <2>2. CASE ~(opt.dest_object \/ Full(ls) = <<>>)
    <3> DEFINE l == Last(Full(ls))
    <3>1. l \in Secs
      BY <1>2, <2>2, FullIs
    <3>2. tr = p.place[l].offset + sec(l).init
      BY <2>2 DEF Trimmed
    <3> HIDE DEF l, tr
    <3>3. p.place[l].offset \in Int
      BY <1>4, <3>1 DEF Place
    <3>4. sec(l).init \in Nat
      BY <1>2, <3>1, ProgramType
    <3> QED
      BY <3>2, <3>3, <3>4
  <2> QED
    BY <2>1, <2>2
<1> HIDE DEF tr
<1> DEFINE m == [ls EXCEPT !.base = va, !.size = p.size, !.filesize = tr]
<1>6. /\ m \in OutputSection /\ m.sections = ls.sections /\ m.index = ls.index /\ m.uninit = ls.uninit
      /\ m.small = ls.small /\ m.align = ls.align
      /\ m.base = va /\ m.size = p.size /\ m.filesize = tr
  BY <1>2, <1>4, <1>5 DEF OutputSection
<1>7. lnksec' = [lnksec EXCEPT ![pos] = m]
  BY <1>1, <1>2 DEF ls
<1> HIDE DEF m
<1>8. /\ lnksec' \in Seq(OutputSection) /\ DOMAIN lnksec' = DOMAIN lnksec /\ lnksec'[pos] = m
      /\ \A i \in DOMAIN lnksec : i # pos => lnksec'[i] = lnksec[i]
  <2>1. pos \in 1..Len(lnksec)
    BY <1>1, <1>2
  <2>2. [lnksec EXCEPT ![pos] = m] \in Seq(OutputSection)
    <3>1. m \in OutputSection
      BY <1>6
    <3> QED
      BY <1>2, <2>1, <3>1
  <2> QED
    BY <1>1, <1>7, <2>2
<1>9. va' \in Int
  BY <1>1, <1>2, <1>4
<1>10. LaidSection(m, ls, p)
  BY <1>6 DEF LaidSection, tr
<1> QED
  BY <1>1, <1>3, <1>8, <1>9, <1>10 DEF p, ls

LEMMA LayoutPart ==
  ASSUME PartInv, Layout
  PROVE  PartInv'
<1> DEFINE p == PlaceSections(lnksec[pos])
<1>1. /\ phase = "layout" /\ pos \in DOMAIN lnksec /\ pos' = pos + 1
      /\ UNCHANGED <<prog, phase, small, referenced, selected, seclist, create_allowed, stype, nsecs>>
      /\ p \in Placement /\ place' = p.place
      /\ va' \in Int
      /\ DOMAIN lnksec' = DOMAIN lnksec /\ LaidSection(lnksec'[pos], lnksec[pos], p)
      /\ \A i \in DOMAIN lnksec : i # pos => lnksec'[i] = lnksec[i]
      /\ lnksec' \in Seq(OutputSection)
  BY LayoutIs DEF PartInv
<1> HIDE DEF p
<1>2. Secs' = Secs /\ OutputSection' = OutputSection
  BY <1>1, SameProgram
<1>3. pos' \in Nat \ {0} /\ place' \in [Secs -> Place]
  BY <1>1 DEF Placement, PartInv, TypeInv
<1>4. TypeInv'
  BY <1>1, <1>2, <1>3 DEF PartInv, TypeInv
<1>5. SameLists(lnksec, lnksec') /\ \A i \in DOMAIN lnksec : lnksec'[i].index = lnksec[i].index
  BY <1>1 DEF SameLists, LaidSection
<1> QED
  BY <1>1, <1>4, <1>5, StayPart DEF Early, Late, Numbered

(* An output section when the ones that are not needed are gone. *)
Renumber(m, ls, i) ==
  /\ m \in OutputSection /\ m.sections = ls.sections /\ m.uninit = ls.uninit
  /\ m.small = ls.small /\ m.align = ls.align
  /\ m.base = ls.base /\ m.size = ls.size /\ m.filesize = ls.filesize
  /\ m.linked = Needed(ls)
  /\ Needed(ls) => m.index = Cardinality({j \in 1 .. i - 1 : Needed(lnksec[j])})

LEMMA DelunusedIs ==
  ASSUME TypeInv, linker_delunused
  PROVE  /\ phase = "layout" /\ phase' \in {"relocate", "ierror"} /\ pos > Len(lnksec)
         /\ UNCHANGED <<prog, small, referenced, selected, seclist, pos, create_allowed, stype, va, place>>
         /\ nsecs' \in Nat /\ lnksec' \in Seq(OutputSection) /\ DOMAIN lnksec' = DOMAIN lnksec
         /\ \A i \in DOMAIN lnksec : Renumber(lnksec'[i], lnksec[i], i)
<1> DEFINE number(i) == Cardinality({j \in 1 .. i - 1 : Needed(lnksec[j])})
           m(i) == [lnksec[i] EXCEPT !.linked = Needed(lnksec[i]),
                                     !.index  = IF Needed(lnksec[i]) THEN number(i) ELSE @]
<1>1. /\ phase = "layout" /\ phase' \in {"relocate", "ierror"} /\ pos > Len(lnksec)
      /\ UNCHANGED <<prog, small, referenced, selected, seclist, pos, create_allowed, stype, va, place>>
      /\ lnksec' = [i \in DOMAIN lnksec |-> m(i)]
      /\ nsecs' = Cardinality({i \in DOMAIN lnksec : Needed(lnksec[i])})
  BY DEF linker_delunused
<1>2. lnksec \in Seq(OutputSection) /\ DOMAIN lnksec = 1..Len(lnksec) /\ Len(lnksec) \in Nat
  BY DEF TypeInv
<1>3. nsecs' \in Nat
  <2>1. IsFiniteSet(DOMAIN lnksec)
    BY <1>2, FS_Interval
  <2> QED
    BY <1>1, <2>1, FS_Subset, FS_CardinalityType
<1>4. ASSUME NEW i \in DOMAIN lnksec PROVE Renumber(m(i), lnksec[i], i)
  <2> DEFINE ls == lnksec[i]
             need == Needed(ls)
             index == IF need THEN number(i) ELSE ls.index
  <2>1. number(i) \in Nat
    <3>1. IsFiniteSet(1 .. i - 1)
      BY <1>2, FS_Interval
    <3> QED
      BY <3>1, FS_Subset, FS_CardinalityType
  <2>2. ls \in OutputSection
    BY <1>2
  <2>3. need \in BOOLEAN
    BY DEF Needed
  <2>4. m(i) = [ls EXCEPT !.linked = need, !.index = index]
    OBVIOUS
  <2> HIDE DEF number, need, ls
  <2>5. index \in Int /\ (need => index = number(i))
    BY <2>1, <2>2 DEF OutputSection
  <2> HIDE DEF index, m
  <2>6. m(i) \in OutputSection
    BY <2>2, <2>3, <2>4, <2>5 DEF OutputSection
  <2>7. /\ m(i).sections = ls.sections /\ m(i).uninit = ls.uninit
        /\ m(i).small = ls.small /\ m(i).align = ls.align
        /\ m(i).base = ls.base /\ m(i).size = ls.size /\ m(i).filesize = ls.filesize
        /\ m(i).linked = need /\ m(i).index = index
    BY <2>2, <2>4 DEF OutputSection
  <2> QED
    BY <2>5, <2>6, <2>7 DEF Renumber, number, need, ls
<1> HIDE DEF m
<1>5. DOMAIN lnksec' = DOMAIN lnksec /\ \A i \in DOMAIN lnksec : lnksec'[i] = m(i)
  BY <1>1
<1>6. \A i \in DOMAIN lnksec : Renumber(lnksec'[i], lnksec[i], i)
  BY <1>4, <1>5
<1>7. \A i \in DOMAIN lnksec : m(i) \in OutputSection
  BY <1>4 DEF Renumber
<1>8. lnksec' \in Seq(OutputSection)
  BY <1>1, <1>2, <1>7
<1> QED
  BY <1>1, <1>3, <1>5, <1>6, <1>8

LEMMA DelunusedPart ==
  ASSUME PartInv, linker_delunused
  PROVE  PartInv'
<1>1. /\ phase = "layout" /\ phase' \in {"relocate", "ierror"}
      /\ UNCHANGED <<prog, small, referenced, selected, seclist, pos, create_allowed, stype, va, place>>
      /\ nsecs' \in Nat /\ lnksec' \in Seq(OutputSection) /\ DOMAIN lnksec' = DOMAIN lnksec
      /\ \A i \in DOMAIN lnksec : Renumber(lnksec'[i], lnksec[i], i)
  BY DelunusedIs DEF PartInv
<1>2. Secs' = Secs /\ OutputSection' = OutputSection
  BY <1>1, SameProgram
<1>3. TypeInv'
  BY <1>1, <1>2 DEF PartInv, TypeInv, Phases
<1>4. SameLists(lnksec, lnksec')
  BY <1>1 DEF SameLists, Renumber
<1> QED
  BY <1>1, <1>3, <1>4, StayPart DEF Early, Late, Numbered

LEMMA RelocatePart ==
  ASSUME PartInv, Relocate
  PROVE  PartInv'
<1>1. /\ phase = "relocate" /\ phase' = "done"
      /\ UNCHANGED <<prog, small, referenced, selected, seclist, pos, create_allowed, stype, lnksec,
                     nsecs, va, place>>
  BY DEF Relocate
<1>2. Secs' = Secs /\ OutputSection' = OutputSection
  BY <1>1, SameProgram
<1>3. TypeInv'
  BY <1>1, <1>2 DEF PartInv, TypeInv, Phases
<1>4. SameLists(lnksec, lnksec')
  BY <1>1 DEF SameLists
<1> QED
  BY <1>1, <1>3, <1>4, StayPart DEF Early, Late, Numbered

LEMMA SamePart ==
  ASSUME PartInv, UNCHANGED vars
  PROVE  PartInv'
<1>1. UNCHANGED <<prog, phase, small, referenced, selected, seclist, pos, create_allowed, stype, lnksec,
                  nsecs, va, place>>
  BY DEF vars
<1>2. /\ Secs' = Secs /\ OutputSection' = OutputSection /\ opt' = opt
      /\ \A s : sec(s)' = sec(s) /\ (Empty(s)' <=> Empty(s))
  BY <1>1, SameProgram
<1>3. TypeInv'
  BY <1>1, <1>2 DEF PartInv, TypeInv
<1>4. OnePlace' /\ Held' = Held
  BY <1>1 DEF PartInv, OnePlace, OneEach, Distinct, Linked, AllOf, Held
<1>5. \A t \in Secs : Keeps(t)' <=> Keeps(t)
  BY <1>1, <1>2 DEF Keeps
<1>6. NoneLost'
  BY <1>1, <1>2, <1>4, <1>5 DEF PartInv, NoneLost
<1>7. Numbers' /\ Attributes'
  BY <1>1, <1>2 DEF PartInv, Numbers, Attributes, Suits
<1> QED
  BY <1>3, <1>4, <1>6, <1>7 DEF PartInv

LEMMA PartStep ==
  ASSUME PartInv, [Next]_vars
  PROVE  PartInv'
BY RelrefsPart, SectrefsPart, GcsectsPart, CollectPart, MergeSectionPart, MergeRoundPart, ResolvePart,
   LayoutPart, DelunusedPart, RelocatePart, SamePart DEF Next, Merge

----------------------------------------------------------------------------
(* What follows from the place of the sections. *)

LEMMA LnkSecOfIs ==
  ASSUME PartInv
  PROVE  /\ \A i \in DOMAIN lnksec : \A s \in Range(lnksec[i].sections) : LnkSecOf(s) = i
         /\ \A s : Placed(s) <=> s \in Linked
         /\ \A s : Placed(s) => /\ LnkSecOf(s) \in DOMAIN lnksec /\ s \in Secs
                                /\ s \in Range(lnksec[LnkSecOf(s)].sections)
<1>1. ~(0 \in DOMAIN lnksec) /\ \A i \in DOMAIN lnksec : Range(lnksec[i].sections) \subseteq Secs
  <2>1. lnksec \in Seq(OutputSection)
    BY DEF PartInv, TypeInv
  <2> QED
    BY <2>1, SectionsOf
<1>2. ASSUME NEW i \in DOMAIN lnksec, NEW s \in Range(lnksec[i].sections) PROVE LnkSecOf(s) = i
  <2>1. \A j \in DOMAIN lnksec : In(s, j) => j = i
    BY DEF In, PartInv, OnePlace, OneEach, Range
  <2>2. In(s, i)
    BY DEF In
  <2> QED
    BY <2>1, <2>2 DEF LnkSecOf
<1>3. \A s : s \in Linked <=> \E i \in DOMAIN lnksec : s \in Range(lnksec[i].sections)
  BY DEF Linked, AllOf
<1>4. \A s : s \notin Linked => LnkSecOf(s) = 0
  BY <1>3 DEF LnkSecOf, In
<1>5. \A s : s \in Linked => /\ LnkSecOf(s) \in DOMAIN lnksec /\ s \in Secs
                             /\ s \in Range(lnksec[LnkSecOf(s)].sections)
  BY <1>1, <1>2, <1>3
<1> QED
  BY <1>1, <1>2, <1>4, <1>5 DEF Placed

LEMMA PartitionHolds ==
  ASSUME PartInv
  PROVE  Partition
<1>1. OneEach(lnksec)
  BY DEF PartInv, OnePlace
<1>2. ASSUME phase \in {"dependencies", "layout", "relocate", "done"}, NEW s \in Secs,
             opt.gc = "none" \/ opt.dest_object \/ s \in referenced
      PROVE  LnkSecOf(s) # 0
  <2>1. phase \notin Early /\ phase \in {"dependencies"} \cup Late
    BY <1>2 DEF Early, Late
  <2>2. opt.gc \in {"none", "empty", "all"}
    BY ProgramType DEF PartInv, TypeInv, Option
  <2>3. Keeps(s)
    BY <1>2, <2>2 DEF Keeps
  <2>4. s \in Held /\ selected = {} /\ seclist = <<>>
    BY <2>1, <2>3 DEF PartInv, NoneLost
  <2>5. s \in Linked
    BY <2>4 DEF Held, Range
  <2> QED
    BY <2>5, LnkSecOfIs DEF Placed
<1> QED
  BY <1>1, <1>2 DEF Partition, OneEach

(* Garbage collection. *)

LEMMA InitClosed ==
  ASSUME Init
  PROVE  Closed /\ SmallTargets
BY DEF Init, Closed, SmallTargets

LEMMA SectrefsClosed ==
  ASSUME PartInv, linker_sectrefs
  PROVE  Closed'
<1>1. opt' = opt /\ refs' = refs /\ Secs' = Secs /\ prog' = prog /\ \A s : sec(s)' = sec(s)
  BY SameProgram DEF linker_sectrefs
<1>2. /\ \A r \in refs : r.from \in Secs /\ r.to \in Secs
      /\ prog.prot \in SUBSET Secs /\ opt \in Option
      /\ opt.gc = "all" => \E s \in Secs : sec(s).type = CODE
  BY ProgramType DEF PartInv, TypeInv
<1>3. opt.gc \in {"none", "empty", "all"} /\ opt.dest_object \in BOOLEAN
  BY <1>2 DEF Option
<1>4. entry_section' = entry_section
  BY <1>1 DEF entry_section
<1> DEFINE Kept(s) == \/ opt.gc = "none" \/ opt.dest_object
                      \/ opt.gc = "empty" /\ (s \in referenced' \/ sec(s).size > 0)
                      \/ opt.gc = "all" /\ s \in referenced'
<1>5. \A s : Keeps(s)' <=> Kept(s)
  BY <1>1 DEF Keeps
<1>6. CASE opt.gc = "none" \/ opt.dest_object
  BY <1>1, <1>5, <1>6 DEF Closed
<1>7. CASE opt.gc = "empty" /\ ~opt.dest_object
  <2>1. referenced' = {r.to : r \in refs} \cup RefSections(prog.prot)
    BY <1>7 DEF linker_sectrefs
  <2>2. \A r \in refs : Kept(r.to)
    BY <1>7, <2>1
  <2> QED
    BY <1>1, <1>5, <1>7, <2>2 DEF Closed
<1>8. CASE opt.gc = "all" /\ ~opt.dest_object
  <2> DEFINE from == {entry_section} \cup prog.prot
  <2>1. referenced' = RefSections(from)
    BY <1>8 DEF linker_sectrefs
  <2>2. entry_section \in Secs
    <3> DEFINE C == {s \in Secs : sec(s).type = CODE}
    <3>1. C \subseteq Nat /\ C # {}
      BY <1>2, <1>8, ProgramType DEF PartInv, TypeInv
    <3>2. Min(C) \in C
      <4> HIDE DEF C
      <4> QED
        BY <3>1, MinIs
    <3> QED
      BY <3>2 DEF entry_section
  <2>3. from \in SUBSET Secs /\ \A s \in from : s = entry_section \/ s \in prog.prot
    BY <1>2, <2>2
  <2> HIDE DEF from
  <2>4. /\ \A r \in refs : r.from \in RefSections(from) => r.to \in RefSections(from)
        /\ \A s \in RefSections(from) :
              s \in from \/ \E r \in refs : r.to = s /\ r.from \in RefSections(from)
    BY <2>3, Reachable DEF PartInv, TypeInv
  <2>5. /\ \A r \in refs : r.from \in referenced' => r.to \in referenced'
        /\ \A s \in referenced' : s = entry_section \/ s \in prog.prot
                                 \/ \E r \in refs : r.to = s /\ r.from \in referenced'
    BY <2>1, <2>3, <2>4
  <2>6. \A s : Kept(s) <=> s \in referenced'
    BY <1>8
  <2> HIDE DEF Kept
  <2> QED
    BY <1>1, <1>4, <1>5, <2>5, <2>6 DEF Closed
<1> QED
  BY <1>3, <1>6, <1>7, <1>8

LEMMA ClosedStep ==
  ASSUME PartInv, Closed, SmallTargets, [Next]_vars
  PROVE  Closed' /\ SmallTargets'
<1>1. CASE Relrefs
  <2>1. opt' = opt /\ refs' = refs
    BY <1>1, SameProgram DEF Relrefs
  <2> QED
    BY <1>1, <2>1 DEF Relrefs, Closed, SmallTargets
<1>2. CASE linker_sectrefs
  <2>1. refs' = refs
    BY <1>2, SameProgram DEF linker_sectrefs
  <2> QED
    BY <1>2, <2>1, SectrefsClosed DEF linker_sectrefs, SmallTargets
<1>3. CASE /\ UNCHANGED <<prog, small, referenced>>
           /\ phase \notin {"relrefs", "sectrefs"} \/ UNCHANGED phase
  <2>1. /\ opt' = opt /\ refs' = refs /\ Secs' = Secs /\ prog' = prog /\ \A s : sec(s)' = sec(s)
    BY <1>3, SameProgram
  <2>2. entry_section' = entry_section /\ \A s : Keeps(s)' <=> Keeps(s)
    BY <1>3, <2>1 DEF entry_section, Keeps
  <2> QED
    BY <1>3, <2>1, <2>2 DEF Closed, SmallTargets
<1> QED
  BY <1>1, <1>2, <1>3 DEF Next, Merge, linker_gcsects, Collect, MergeSection, MergeRound, ResolveDependencies,
       Layout, linker_delunused, Relocate, vars

LEMMA GcClosedHolds ==
  ASSUME PartInv, Closed
  PROVE  GcClosed
<1>1. SUFFICES ASSUME phase \in {"collect", "done"}
      PROVE  /\ \A r \in refs : r.from \notin Removed => r.to \notin Removed
             /\ (opt.gc = "all" /\ ~opt.dest_object) =>
                  \A s \in Secs \ Removed : s = entry_section \/ s \in prog.prot
                                            \/ \E r \in refs : r.to = s /\ r.from \notin Removed
  BY DEF GcClosed
<1>2. Held = {s \in Secs : Keeps(s)}
  BY <1>1 DEF PartInv, NoneLost, Early
<1>3. UNION {Range(ls.sections) : ls \in Range(lnksec)} = Linked
  BY DEF Linked, AllOf, Range
<1>4. \A s \in Secs : s \notin Removed <=> Keeps(s)
  BY <1>2, <1>3 DEF Removed, Held
<1>5. \A r \in refs : r.from \in Secs /\ r.to \in Secs
  BY ProgramType DEF PartInv, TypeInv
<1>6. /\ \A r \in refs : Keeps(r.from) => Keeps(r.to)
      /\ (opt.gc = "all" /\ ~opt.dest_object) =>
           \A s \in referenced : s = entry_section \/ s \in prog.prot
                                 \/ \E r \in refs : r.to = s /\ r.from \in referenced
  BY <1>1 DEF Closed
<1>7. ASSUME opt.gc = "all", ~opt.dest_object, NEW s \in Secs \ Removed
      PROVE  s = entry_section \/ s \in prog.prot \/ \E r \in refs : r.to = s /\ r.from \notin Removed
  <2>1. \A t \in Secs : t \in referenced <=> t \notin Removed
    BY <1>4, <1>7 DEF Keeps
  <2> QED
    BY <1>5, <1>6, <1>7, <2>1
<1> QED
  BY <1>4, <1>5, <1>6, <1>7

(* What belongs together. *)

LEMMA RelatedMatch ==
  ASSUME PartInv, NEW i \in DOMAIN lnksec, NEW s \in Secs, NEW t \in Range(lnksec[i].sections),
         NEW my, my # -1, my # lnksec[i].index, Related(s, t)
  PROVE  Match(lnksec[i], s, my) # "no"
<1> DEFINE ls == lnksec[i]
           tl == IF opt.dest_object THEN 0 ELSE targetlink(ls, s)
           two == ls.once /\ sec(s).once
           may == tl = 0 /\ (\/ ~opt.dest_object /\ MergeForExecutable(ls, s)
                             \/ MergeByOption(ls, s)
                             \/ my = -1 /\ MergeByName(ls, s))
           join == tl = 0 /\ my = -1 /\ Empty(s)
           rest == IF tl > 0 THEN "merge" ELSE IF may THEN "merge" ELSE IF join THEN "join" ELSE "no"
<1>1. ls \in OutputSection /\ t \in Secs /\ Suits(ls, t)
  <2>1. lnksec \in Seq(OutputSection)
    BY DEF PartInv, TypeInv
  <2> QED
    BY <2>1, SectionsOf DEF PartInv, Attributes
<1>2. opt.target \in {"elf", "aout", "hunk"} /\ sec(s).type \in SectionTypes /\ sec(t).type \in SectionTypes
      /\ sec(s).size \in Nat /\ sec(t).size \in Nat
  BY <1>1, ProgramType DEF PartInv, TypeInv, Option
<1>3. ASSUME opt.auto_merge, opt.target # "hunk", RelRefs(s, t) \/ RelRefs(t, s)
      PROVE  tl > 0 \/ may
  <2>1. tl \in {0, 1}
    <3>1. opt.target = "elf" => targetlink(ls, s) = 0
      BY DEF targetlink
    <3>2. opt.target = "aout" => targetlink(ls, s) \in {0, 1}
      BY DEF targetlink
    <3> HIDE DEF ls
    <3> QED
      BY <1>2, <1>3, <3>1, <3>2
  <2>2. \E k \in DOMAIN ls.sections : ls.sections[k] = t
    BY DEF Range
  <2>3. MergeByOption(ls, s)
    BY <1>3, <2>2 DEF MergeByOption, checkrelrefs
  <2> HIDE DEF tl
  <2> QED
    BY <2>1, <2>3
<1>4. ASSUME ~opt.dest_object, ~opt.multibase, opt.target = "hunk" => opt.small_data,
             \A u \in {s, t} : /\ u \in small /\ sec(u).size > 0
                               /\ opt.target = "hunk" => sec(u).type # CODE /\ sec(u).name # "_NOMERGE"
      PROVE  tl > 0 \/ may
  <2>1. tl \in {0, 1}
    <3>1. tl = targetlink(ls, s)
      BY <1>4
    <3>2. opt.target = "elf" => targetlink(ls, s) = 0
      BY DEF targetlink
    <3>3. opt.target = "aout" => targetlink(ls, s) \in {0, 1}
      BY DEF targetlink
    <3>4. opt.target = "hunk" => targetlink(ls, s) \in {0, 1}
      <4>1. SUFFICES ASSUME opt.target = "hunk" PROVE targetlink(ls, s) \in {0, 1}
        OBVIOUS
      <4>2. sec(s).type \in {DATA, UDATA} /\ opt.small_data /\ sec(s).name # "_NOMERGE"
        BY <1>2, <1>4, <4>1 DEF SectionTypes
      <4> QED
        BY <4>1, <4>2 DEF targetlink
    <3> HIDE DEF tl, ls
    <3> QED
      BY <1>2, <3>1, <3>2, <3>3, <3>4
  <2>2. ls.small /\ s \in small
    <3>1. t \in small /\ sec(t).size > 0 /\ s \in small
      BY <1>4
    <3>2. ~Empty(t)
      <4> DEFINE n == sec(t).size
      <4>1. n \in Nat /\ n > 0
        BY <1>2, <3>1
      <4> HIDE DEF n
      <4>2. n # 0
        BY <4>1
      <4> QED
        BY <4>2 DEF Empty, n
    <3> QED
      BY <1>1, <3>1, <3>2 DEF Suits
  <2>3. MergeForExecutable(ls, s)
    BY <1>4, <2>2 DEF MergeForExecutable
  <2> HIDE DEF tl
  <2> QED
    BY <1>4, <2>1, <2>3
<1>5. tl > 0 \/ may
  BY <1>3, <1>4 DEF Related
<1>6. Match(ls, s, my) = CASE ls.index = my -> "no"
                           [] ls.index # my /\ two -> "spin"
                           [] ls.index # my /\ ~two -> rest
  BY DEF Match
<1>7. rest = "merge"
  <2> HIDE DEF tl, may, join
  <2> QED
    BY <1>5
<1> HIDE DEF rest, tl, may, join
<1>8. ls.index # my
  OBVIOUS
<1> HIDE DEF two, ls
<1>9. CASE two
  BY <1>6, <1>8, <1>9 DEF ls
<1>10. CASE ~two
  BY <1>6, <1>7, <1>8, <1>10 DEF ls
<1> QED
  BY <1>9, <1>10

(* With no dependency left, what is related is together. *)
LEMMA ResolveTogether ==
  ASSUME PartInv, ResolveDependencies, Together
  PROVE  Together'
<1>1. /\ phase = "dependencies" /\ UNCHANGED <<prog, small>>
      /\ \/ Dependencies = {} /\ phase' = "layout" /\ UNCHANGED lnksec
         \/ phase' = "spin"
         \/ UNCHANGED phase
  BY ResolveIs DEF PartInv, JoinedLinked
<1>2. CASE phase' # "layout"
  BY <1>1, <1>2 DEF Together, Late
<1>3. CASE phase' = "layout"
  <2>1. Dependencies = {} /\ UNCHANGED <<lnksec, prog, small>>
    BY <1>1, <1>3
  <2>2. opt' = opt /\ \A s, t : RelRefs(s, t)' <=> RelRefs(s, t)
    BY <2>1, SameProgram
  <2>3. \A s : sec(s)' = sec(s)
    BY <2>1, SameProgram
  <2>4. ASSUME NEW i \in DOMAIN lnksec, NEW j \in DOMAIN lnksec,
               NEW s \in Range(lnksec[i].sections), NEW t \in Range(lnksec[j].sections),
               Related(s, t), i # j
        PROVE  FALSE
    <3> DEFINE my == lnksec[i].index
    <3>1. PICK k \in DOMAIN lnksec[i].sections : s = lnksec[i].sections[k]
      BY DEF Range
    <3>2. s \in Secs
      BY SectionsOf DEF PartInv, TypeInv
    <3>3. my \in 0 .. nsecs - 1 /\ my # lnksec[j].index
      BY <1>1, <2>4 DEF PartInv, Numbers, Numbered
    <3>4. my # -1
      BY <3>3
    <3>5. get_matching_lnksec(s, my) = 0
      <4> DEFINE d == <<i, k>>
      <4>1. d \in UNION {{<<a, b>> : b \in DOMAIN lnksec[a].sections} : a \in DOMAIN lnksec}
        OBVIOUS
      <4>2. d[1] = i /\ d[2] = k
        OBVIOUS
      <4> HIDE DEF d
      <4> QED
        BY <2>1, <3>1, <4>1, <4>2 DEF Dependencies
    <3>6. ~(0 \in DOMAIN lnksec)
      BY DEF PartInv, TypeInv
    <3> HIDE DEF my
    <3>7. Match(lnksec[j], s, my) = "no"
      BY <3>5, <3>6, Matching DEF PartInv, TypeInv
    <3> QED
      BY <2>4, <3>2, <3>3, <3>4, <3>7, RelatedMatch
  <2>5. \A i, j \in DOMAIN lnksec : \A s \in Range(lnksec[i].sections), t \in Range(lnksec[j].sections) :
             Related(s, t) => i = j
    BY <2>4
  <2>6. \A s, t : Related(s, t)' <=> Related(s, t)
    BY <2>1, <2>2, <2>3 DEF Related
  <2> QED
    BY <2>1, <2>5, <2>6 DEF Together
<1> QED
  BY <1>2, <1>3

LEMMA TogetherStep ==
  ASSUME PartInv, Together, [Next]_vars
  PROVE  Together'
<1>1. CASE ResolveDependencies
  BY <1>1, ResolveTogether
<1>2. CASE phase' \notin Late
  BY <1>2 DEF Together
<1>3. ASSUME phase \in Late, UNCHANGED <<prog, small>>, DOMAIN lnksec' = DOMAIN lnksec,
             \A i \in DOMAIN lnksec : lnksec'[i].sections = lnksec[i].sections
      PROVE  Together'
  <2>1. opt' = opt /\ \A s, t : RelRefs(s, t)' <=> RelRefs(s, t)
    BY <1>3, SameProgram
  <2>2. \A s : sec(s)' = sec(s)
    BY <1>3, SameProgram
  <2>3. \A s, t : Related(s, t)' <=> Related(s, t)
    BY <1>3, <2>1, <2>2 DEF Related
  <2> QED
    BY <1>3, <2>3 DEF Together
<1>4. CASE Layout
  <2>1. /\ phase = "layout" /\ UNCHANGED <<prog, small>> /\ pos \in DOMAIN lnksec
        /\ DOMAIN lnksec' = DOMAIN lnksec
        /\ LaidSection(lnksec'[pos], lnksec[pos], PlaceSections(lnksec[pos]))
        /\ \A i \in DOMAIN lnksec : i # pos => lnksec'[i] = lnksec[i]
    BY <1>4, LayoutIs DEF PartInv
  <2> QED
    BY <1>3, <2>1 DEF LaidSection, Late
<1>5. CASE linker_delunused
  <2>1. /\ phase = "layout" /\ UNCHANGED <<prog, small>>
        /\ DOMAIN lnksec' = DOMAIN lnksec /\ \A i \in DOMAIN lnksec : Renumber(lnksec'[i], lnksec[i], i)
    BY <1>5, DelunusedIs DEF PartInv
  <2> QED
    BY <1>3, <2>1 DEF Renumber, Late
<1>6. CASE Relocate
  BY <1>3, <1>6 DEF Relocate, Late
<1>7. CASE UNCHANGED vars
  BY <1>2, <1>3, <1>7 DEF vars
<1>8. CASE Relrefs \/ linker_sectrefs \/ linker_gcsects \/ Collect \/ MergeSection \/ MergeRound
  <2>1. MergeSection => phase' \in {"merge", "spin"}
    BY MergeSectionIs DEF PartInv, LeftAlone, MergedInto, MadeNew
  <2> QED
    BY <1>2, <1>8, <2>1 DEF Relrefs, linker_sectrefs, linker_gcsects, Collect, MergeRound, Late
<1> QED
  BY <1>1, <1>4, <1>5, <1>6, <1>7, <1>8 DEF Next, Merge

LEMMA NumberedStep ==
  ASSUME PartInv, Renumbered, Written, [Next]_vars
  PROVE  Renumbered' /\ Written'
<1>1. CASE linker_delunused
  <2>1. /\ phase' \in {"relocate", "ierror"} /\ DOMAIN lnksec' = DOMAIN lnksec
        /\ DOMAIN lnksec = 1..Len(lnksec) /\ Len(lnksec) \in Nat
        /\ \A i \in DOMAIN lnksec : Renumber(lnksec'[i], lnksec[i], i)
    BY <1>1, DelunusedIs DEF PartInv, TypeInv
  <2>2. \A i \in DOMAIN lnksec : /\ lnksec'[i].linked = Needed(lnksec[i])
                                 /\ Needed(lnksec[i]) =>
                                      lnksec'[i].index = Cardinality({j \in 1 .. i - 1 : Needed(lnksec[j])})
    BY <2>1 DEF Renumber
  <2>3. ASSUME NEW i \in DOMAIN lnksec
        PROVE  {j \in 1 .. i - 1 : Needed(lnksec[j])} = {j \in 1 .. i - 1 : lnksec'[j].linked}
    <3>1. \A j \in 1 .. i - 1 : j \in DOMAIN lnksec
      BY <2>1
    <3> QED
      BY <2>2, <3>1
  <2>4. Renumbered'
    BY <2>1, <2>2, <2>3 DEF Renumbered
  <2> QED
    BY <2>1, <2>4 DEF Written
<1>2. CASE Relocate
  <2>1. /\ UNCHANGED <<prog, lnksec, place>> /\ phase = "relocate" /\ phase' = "done"
        /\ value' = [r \in refs |-> IF Placed(r.from) /\ Placed(r.to) /\ (r.sym # 0 => ~opt.dest_object)
                                    THEN Relocated(r) ELSE Unresolved]
    BY <1>2 DEF Relocate
  <2>2. opt' = opt /\ refs' = refs
    BY <2>1, SameProgram
  <2>3. \A s : LnkSecOf(s)' = LnkSecOf(s)
    BY <2>1 DEF LnkSecOf, In
  <2>4. \A s : (Placed(s)' <=> Placed(s)) /\ SecVa(s)' = SecVa(s)
    BY <2>1, <2>3 DEF Placed, SecVa
  <2>5. \A r : Relocated(r)' = Relocated(r)
    BY <2>1, <2>2, <2>3, <2>4 DEF Relocated, SymbolValue
  <2>6. Written'
    BY <2>1, <2>2, <2>4, <2>5 DEF Written
  <2>7. Renumbered'
    BY <2>1 DEF Renumbered, Numbered
  <2> QED
    BY <2>6, <2>7
<1>3. CASE UNCHANGED vars
  <2>1. UNCHANGED <<prog, lnksec, place, phase, value>>
    BY <1>3 DEF vars
  <2>2. opt' = opt /\ refs' = refs
    BY <2>1, SameProgram
  <2>3. \A s : LnkSecOf(s)' = LnkSecOf(s)
    BY <2>1 DEF LnkSecOf, In
  <2>4. \A s : (Placed(s)' <=> Placed(s)) /\ SecVa(s)' = SecVa(s)
    BY <2>1, <2>3 DEF Placed, SecVa
  <2>5. \A r : Relocated(r)' = Relocated(r)
    BY <2>1, <2>2, <2>3, <2>4 DEF Relocated, SymbolValue
  <2>6. Written'
    BY <2>1, <2>2, <2>4, <2>5 DEF Written
  <2>7. Renumbered'
    BY <2>1 DEF Renumbered
  <2> QED
    BY <2>6, <2>7
<1>4. CASE phase' \notin Numbered
  BY <1>4 DEF Renumbered, Written, Numbered
<1>5. CASE Merge \/ Layout
  <2>1. MergeSection => phase' \in {"merge", "spin"}
    BY MergeSectionIs DEF PartInv, LeftAlone, MergedInto, MadeNew
  <2>2. ResolveDependencies => phase' \in {"layout", "spin", "dependencies"}
    BY ResolveIs DEF PartInv, JoinedLinked
  <2>3. phase' \notin Numbered
    BY <1>5, <2>1, <2>2 DEF Merge, Relrefs, linker_sectrefs, linker_gcsects, Collect, MergeRound, Layout, Numbered
  <2> QED
    BY <1>4, <2>3
<1> QED
  BY <1>1, <1>2, <1>3, <1>5 DEF Next

LEMMA KeptPlaced ==
  ASSUME PartInv, Closed, phase = "done", NEW r \in refs, Placed(r.from)
  PROVE  Placed(r.to)
<1>1. Held = {s \in Secs : Keeps(s)} /\ Held = Linked
  <2>1. Held = {s \in Secs : Keeps(s)} /\ selected = {} /\ seclist = <<>>
    BY DEF PartInv, NoneLost, Early, Late
  <2> QED
    BY <2>1 DEF Held, Range
<1>2. r.from \in Linked
  BY LnkSecOfIs
<1>3. Keeps(r.from) => Keeps(r.to)
  BY DEF Closed
<1>4. r.to \in Secs
  BY ProgramType DEF PartInv, TypeInv
<1>5. r.to \in Linked
  BY <1>1, <1>2, <1>3, <1>4
<1> QED
  BY <1>5, LnkSecOfIs

LEMMA ValueIs ==
  ASSUME Written, phase = "done", NEW r \in refs
  PROVE  value[r] = IF Placed(r.from) /\ Placed(r.to) /\ (r.sym # 0 => ~opt.dest_object)
                    THEN Relocated(r) ELSE Unresolved
BY DEF Written

LEMMA InOneSectionHolds ==
  ASSUME PartInv, Closed, SmallTargets, Together, Written
  PROVE  InOneSection
<1>1. \A i, j \in DOMAIN lnksec : \A s \in Range(lnksec[i].sections), t \in Range(lnksec[j].sections) :
        phase = "done" /\ Related(s, t) => i = j
  BY DEF Together, Late
<1>2. \A s, t : phase = "done" /\ Placed(s) /\ Placed(t) /\ Related(s, t) => LnkSecOf(s) = LnkSecOf(t)
  BY <1>1, LnkSecOfIs
<1>3. PcInOneSection
  <2>1. SUFFICES ASSUME phase = "done", opt.auto_merge, opt.target # "hunk",
                        NEW r \in refs, r.kind = "pc", Placed(r.from), r.sym # 0 => ~opt.dest_object
                 PROVE  value[r].against = -1
    BY DEF PcInOneSection
  <2>2. Placed(r.to)
    BY <2>1, KeptPlaced
  <2>3. value[r] = Relocated(r)
    BY <2>1, <2>2, ValueIs
  <2>4. LnkSecOf(r.from) = LnkSecOf(r.to)
    <3>1. r.from # r.to => RelRefs(r.from, r.to)
      BY <2>1 DEF RelRefs
    <3>2. r.from # r.to => Related(r.from, r.to)
      BY <2>1, <3>1 DEF Related
    <3> QED
      BY <1>2, <2>1, <2>2, <3>2
  <2>5. Relocated(r).against = -1
    BY <2>1, <2>4 DEF Relocated
  <2> QED
    BY <2>3, <2>5
<1>4. SmallDataInOne
  <2>1. SUFFICES ASSUME phase = "done", ~opt.dest_object, ~opt.multibase,
                        opt.target = "hunk" => opt.small_data,
                        NEW r \in refs, NEW q \in refs, r.kind = "sd", q.kind = "sd",
                        Placed(r.to), Placed(q.to),
                        \A x \in {r, q} : /\ sec(x.to).size > 0 /\ sec(x.to).type # CODE
                                          /\ opt.target = "hunk" => sec(x.to).name # "_NOMERGE"
                 PROVE  LnkSecOf(r.to) = LnkSecOf(q.to)
    BY DEF SmallDataInOne
  <2>2. r.to \in small /\ q.to \in small
    BY <2>1 DEF SmallTargets
  <2>3. \A u \in {r.to, q.to} : /\ u \in small /\ sec(u).size > 0
                                /\ opt.target = "hunk" => sec(u).type # CODE /\ sec(u).name # "_NOMERGE"
    BY <2>1, <2>2
  <2>4. Related(r.to, q.to)
    BY <2>1, <2>3 DEF Related
  <2> QED
    BY <1>2, <2>1, <2>4
<1> QED
  BY <1>3, <1>4 DEF InOneSection

LEMMA RelocsHold ==
  ASSUME PartInv, Renumbered, Written
  PROVE  RelocsNameTheirSection
<1> SUFFICES ASSUME phase = "done", NEW r \in refs, value[r].against >= 0, lnksec[LnkSecOf(r.to)].linked
             PROVE  AgainstTarget(r)
  BY DEF RelocsNameTheirSection
<1> DEFINE i == LnkSecOf(r.to)
           S == {ls \in Range(lnksec) : ls.linked}
           n == Before(lnksec, S, i)
<1>1. Placed(r.to) /\ value[r] = Relocated(r)
  BY ValueIs DEF Unresolved
<1>2. value[r].against = lnksec[i].index
  <2> DEFINE ls == lnksec[LnkSecOf(r.from)]
  <2>1. \/ Relocated(r).against = -1
        \/ Relocated(r).against = lnksec[i].index
    BY DEF Relocated
  <2> QED
    BY <1>1, <2>1
<1>3. i \in DOMAIN lnksec /\ r.to \in Range(lnksec[i].sections)
  BY <1>1, LnkSecOfIs
<1>4. lnksec \in Seq(OutputSection) /\ DOMAIN lnksec = 1..Len(lnksec)
  BY DEF PartInv, TypeInv
<1>5. \A j \in DOMAIN lnksec : lnksec[j] \in S <=> lnksec[j].linked
  BY DEF Range
<1>6. lnksec[i].index = n
  <2>1. lnksec[i].index = Cardinality({j \in 1 .. i - 1 : lnksec[j].linked})
    BY <1>3 DEF Renumbered, Numbered
  <2>2. \A j \in 1 .. i - 1 : j \in DOMAIN lnksec
    BY <1>3, <1>4
  <2>3. {j \in 1 .. i - 1 : lnksec[j].linked} = {j \in 1 .. i - 1 : lnksec[j] \in S}
    BY <1>5, <2>2
  <2> HIDE DEF S
  <2> QED
    BY <2>1, <2>3 DEF Before
<1>7. Output = Only(lnksec, S)
  BY DEF Output
<1>8. lnksec[i] \in S
  BY <1>3, <1>5
<1> HIDE DEF S, i
<1>9. Only(lnksec, S) \in Seq(OutputSection) /\ \E h : OnlyMap(lnksec, S, Only(lnksec, S), h)
  BY <1>4, OnlyIs
<1>10. PICK h : OnlyMap(lnksec, S, Only(lnksec, S), h)
  BY <1>9
<1>11. n + 1 \in 1..Len(Output) /\ h[n + 1] = i /\ Output[n + 1] = lnksec[h[n + 1]]
  BY <1>3, <1>4, <1>7, <1>8, <1>10 DEF OnlyMap
<1>12. DOMAIN Output = 1..Len(Output)
  BY <1>7, <1>9
<1> HIDE DEF n
<1> QED
  BY <1>2, <1>3, <1>6, <1>11, <1>12 DEF AgainstTarget

(* Contents before sections without. *)

LEMMA TypedStay ==
  ASSUME PartInv, TypedInv, UNCHANGED <<prog, seclist, stype>>, SameLists(lnksec, lnksec'),
         \A i \in DOMAIN lnksec : lnksec'[i].uninit = lnksec[i].uninit,
         phase' \in Numbered \/ \A i \in DOMAIN lnksec : lnksec'[i].index = lnksec[i].index,
         phase' \in {"collect", "merge"} => phase \in {"collect", "merge"} \/ lnksec = <<>>,
         phase' = "merge" => phase = "merge",
         phase \in Numbered => phase' \in Numbered
  PROVE  TypedInv'
<1>1. opt' = opt /\ \A s : sec(s)' = sec(s) /\ (Bss(s)' <=> Bss(s))
  BY SameProgram
<1>2. SUFFICES ASSUME ~opt.keep_sect_order PROVE Typed'
  BY <1>1 DEF TypedInv
<1>3. Typed
  BY <1>2 DEF TypedInv
<1>4. DOMAIN lnksec' = DOMAIN lnksec /\ \A i \in DOMAIN lnksec : lnksec'[i].sections = lnksec[i].sections
  BY DEF SameLists
<1>5. Linked' = Linked
  BY <1>4 DEF Linked, AllOf
<1>6. lnksec = <<>> => Linked = {}
  BY DEF Linked, AllOf
<1>7. phase' \in {"collect", "merge"} => \A s \in Linked' : sec(s)'.type <= stype'
  BY <1>1, <1>3, <1>5, <1>6 DEF Typed
<1>8. phase' = "merge" => \A s \in Range(seclist)' : sec(s)'.type = stype'
  <2>1. Range(seclist)' = Range(seclist)
    BY DEF Range
  <2> QED
    BY <1>1, <1>3, <2>1 DEF Typed
<1>9. ASSUME NEW i \in DOMAIN lnksec
      PROVE  /\ FullFirst(lnksec[i].sections)'
             /\ lnksec'[i].uninit => stype' = UDATA /\ \A s \in Range(lnksec'[i].sections) : Bss(s)'
  <2>1. FullFirst(lnksec[i].sections)
    BY <1>3 DEF Typed
  <2>2. lnksec[i].uninit => stype = UDATA /\ \A s \in Range(lnksec[i].sections) : Bss(s)
    BY <1>3 DEF Typed
  <2>3. FullFirst(lnksec[i].sections)'
    BY <1>1, <1>4, <2>1 DEF FullFirst
  <2> QED
    BY <1>1, <1>4, <2>2, <2>3
<1>10. phase' \notin Numbered =>
         \A i, j \in DOMAIN lnksec' :
           lnksec'[i].uninit /\ lnksec'[i].index < lnksec'[j].index => lnksec'[j].uninit
  BY <1>3, <1>4 DEF Typed
<1> QED
  BY <1>4, <1>7, <1>8, <1>9, <1>10 DEF Typed

LEMMA TypedCollect ==
  ASSUME PartInv, PartInv', TypedInv, Collect
  PROVE  TypedInv'
<1>1. opt' = opt /\ \A s : sec(s)' = sec(s) /\ (Bss(s)' <=> Bss(s))
  BY SameProgram DEF Collect
<1>2. SUFFICES ASSUME ~opt.keep_sect_order PROVE Typed'
  BY <1>1 DEF TypedInv
<1>3. Typed /\ phase = "collect" /\ phase' = "merge" /\ UNCHANGED <<prog, lnksec, stype>>
  BY <1>2 DEF TypedInv, Collect
<1> DEFINE all == [i \in Secs |-> i]
           now == {s \in selected : sec(s).type = stype}
<1>4. seclist' = Only(all, now)
  BY <1>2 DEF Collect
<1>5. Range(seclist') \subseteq now
  <2>1. all \in Seq(Secs)
    <3>1. Secs = 1..Len(prog.secs) /\ Len(prog.secs) \in Nat
      BY ProgramType DEF PartInv, TypeInv
    <3> DEFINE N == Len(prog.secs)
    <3>2. all = [i \in 1..N |-> i] /\ N \in Nat
      BY <3>1
    <3>3. \A i \in 1..N : i \in Secs
      BY <3>1
    <3> HIDE DEF N, all
    <3> QED
      BY <3>2, <3>3
  <2> HIDE DEF all, now
  <2>2. Range(Only(all, now)) = Range(all) \cap now
    BY <2>1, OnlyParts
  <2> QED
    BY <1>4, <2>2
<1>6. \A s \in Range(seclist)' : sec(s)'.type = stype'
  BY <1>1, <1>3, <1>5 DEF Range
<1>7. Linked' = Linked
  BY <1>3 DEF Linked, AllOf
<1>8. /\ \A s \in Linked : sec(s).type <= stype
      /\ \A i \in DOMAIN lnksec :
           FullFirst(lnksec[i].sections)
      /\ \A i \in DOMAIN lnksec :
           lnksec[i].uninit => stype = UDATA /\ \A s \in Range(lnksec[i].sections) : Bss(s)
      /\ \A i, j \in DOMAIN lnksec :
           lnksec[i].uninit /\ lnksec[i].index < lnksec[j].index => lnksec[j].uninit
  BY <1>3 DEF Typed, Numbered
<1>9. \A i \in DOMAIN lnksec : FullFirst(lnksec[i].sections)'
  BY <1>1, <1>3, <1>8 DEF FullFirst
<1> QED
  BY <1>1, <1>3, <1>6, <1>7, <1>8, <1>9 DEF Typed

LEMMA TypedRound ==
  ASSUME PartInv, TypedInv, MergeRound
  PROVE  TypedInv'
<1>1. opt' = opt /\ \A s : sec(s)' = sec(s) /\ (Bss(s)' <=> Bss(s))
  BY SameProgram DEF MergeRound
<1>2. SUFFICES ASSUME ~opt.keep_sect_order PROVE Typed'
  BY <1>1 DEF TypedInv
<1>3. Typed /\ phase = "merge" /\ UNCHANGED <<prog, seclist, lnksec>>
      /\ \/ UNCHANGED <<phase, stype>>
         \/ phase' = "dependencies" /\ UNCHANGED stype
         \/ phase' = "collect" /\ stype' = stype + 1 /\ stype # UDATA
  BY <1>2 DEF TypedInv, MergeRound
<1>4. stype \in {0, 1, 2, 3} /\ \A s \in Linked : sec(s).type \in {1, 2, 3}
  <2>1. \A i \in DOMAIN lnksec : Range(lnksec[i].sections) \subseteq Secs
    BY SectionsOf DEF PartInv, TypeInv
  <2>2. Linked \subseteq Secs
    BY <2>1 DEF Linked, AllOf
  <2> QED
    BY <2>2, ProgramType DEF PartInv, TypeInv, SectionTypes, CODE, DATA, UDATA
<1>5. Linked' = Linked /\ Range(seclist)' = Range(seclist)
  BY <1>3 DEF Linked, AllOf, Range
<1>6. /\ \A s \in Linked : sec(s).type <= stype
      /\ \A s \in Range(seclist) : sec(s).type = stype
      /\ \A i \in DOMAIN lnksec :
           FullFirst(lnksec[i].sections)
      /\ \A i \in DOMAIN lnksec :
           lnksec[i].uninit => stype = UDATA /\ \A s \in Range(lnksec[i].sections) : Bss(s)
      /\ \A i, j \in DOMAIN lnksec :
           lnksec[i].uninit /\ lnksec[i].index < lnksec[j].index => lnksec[j].uninit
  BY <1>3 DEF Typed, Numbered
<1>7. \A i \in DOMAIN lnksec : FullFirst(lnksec[i].sections)'
  BY <1>1, <1>3, <1>6 DEF FullFirst
<1>8. \A s \in Linked : sec(s).type <= stype'
  BY <1>3, <1>4, <1>6
<1>9. phase' = "merge" => \A s \in Range(seclist) : sec(s).type = stype'
  BY <1>3, <1>6
<1>10. \A i \in DOMAIN lnksec : lnksec[i].uninit => stype' = UDATA
  BY <1>3, <1>6
<1> QED
  BY <1>1, <1>3, <1>5, <1>6, <1>7, <1>8, <1>9, <1>10 DEF Typed

LEMMA TypedMerge ==
  ASSUME PartInv, TypedInv, MergeSection
  PROVE  TypedInv'
<1> DEFINE s == seclist[pos]
<1>1. /\ phase = "merge" /\ pos \in 1..Len(seclist)
      /\ UNCHANGED <<prog, small, referenced, selected, stype, va, place>>
      /\ \/ LeftAlone
         \/ \E i, m : MergedInto(s, i, m)
         \/ \E m : MadeNew(s, m)
  BY MergeSectionIs DEF PartInv
<1>2. opt' = opt /\ \A t : sec(t)' = sec(t) /\ (Bss(t)' <=> Bss(t))
  BY <1>1, SameProgram
<1>3. /\ seclist \in Seq(Secs) /\ lnksec \in Seq(OutputSection) /\ s \in Secs /\ nsecs \in Nat
      /\ s \in Range(seclist) /\ DOMAIN lnksec = 1..Len(lnksec) /\ Len(lnksec) \in Nat
  BY <1>1 DEF PartInv, TypeInv, Range
<1>4. CASE LeftAlone
  BY <1>1, <1>4, TypedStay DEF LeftAlone, Numbered, SameLists
<1> SUFFICES ASSUME ~opt.keep_sect_order, ~LeftAlone PROVE Typed'
  BY <1>2, <1>4 DEF TypedInv
<1>5. /\ \A t \in Linked : sec(t).type <= stype
      /\ \A t \in Range(seclist) : sec(t).type = stype
      /\ \A i \in DOMAIN lnksec : FullFirst(lnksec[i].sections)
      /\ \A i \in DOMAIN lnksec :
           lnksec[i].uninit => stype = UDATA /\ \A t \in Range(lnksec[i].sections) : Bss(t)
      /\ \A i, j \in DOMAIN lnksec :
           lnksec[i].uninit /\ lnksec[i].index < lnksec[j].index => lnksec[j].uninit
  BY <1>1 DEF TypedInv, Typed, Numbered
<1>6. /\ \A i \in DOMAIN lnksec : lnksec[i].index \in 0 .. nsecs - 1
      /\ \A i \in DOMAIN lnksec : lnksec[i].sections \in Seq(Secs) /\ Range(lnksec[i].sections) \subseteq Linked
  BY <1>1, <1>3, SectionsOf DEF PartInv, Numbers, Numbered, Linked
<1>7. \A t \in Secs : sec(t).type \in {1, 2, 3} /\ (Bss(t) <=> sec(t).type = 3)
  BY ProgramType DEF PartInv, TypeInv, SectionTypes, CODE, DATA, UDATA, Bss
<1>8. sec(s).type = stype /\ (Bss(s) <=> stype = UDATA)
  BY <1>3, <1>5, <1>7 DEF UDATA
<1> DEFINE list == RemoveAt(seclist, pos)
<1>9. Range(list) \subseteq Range(seclist)
  <2>1. Range(seclist) = Range(list) \cup {seclist[pos]}
    BY <1>1, <1>3, RemovedOne
  <2> HIDE DEF list
  <2> QED
    BY <2>1
<1> HIDE DEF list, s
<1> DEFINE M == lnksec'
<1>10. SUFFICES ASSUME seclist' = list, UNCHANGED phase
                PROVE  /\ \A i \in DOMAIN M : \A t \in Range(M[i].sections) : sec(t).type <= stype
                       /\ \A i \in DOMAIN M : FullFirst(M[i].sections)
                       /\ \A i \in DOMAIN M :
                            M[i].uninit => stype = UDATA /\ \A t \in Range(M[i].sections) : Bss(t)
                       /\ \A i, j \in DOMAIN M :
                            M[i].uninit /\ M[i].index < M[j].index => M[j].uninit
  <2>1. seclist' = list /\ UNCHANGED phase
    BY <1>1 DEF MergedInto, MadeNew, list, s
  <2>2. /\ \A i \in DOMAIN M : \A t \in Range(M[i].sections) : sec(t).type <= stype
        /\ \A i \in DOMAIN M : FullFirst(M[i].sections)
        /\ \A i \in DOMAIN M :
             M[i].uninit => stype = UDATA /\ \A t \in Range(M[i].sections) : Bss(t)
        /\ \A i, j \in DOMAIN M :
             M[i].uninit /\ M[i].index < M[j].index => M[j].uninit
    BY <1>10, <2>1
  <2>3. \A t \in Linked' : sec(t)'.type <= stype'
    BY <1>1, <1>2, <2>2 DEF Linked, AllOf, Range
  <2>4. \A t \in Range(seclist)' : sec(t)'.type = stype'
    <3>1. Range(seclist)' = Range(list)
      BY <2>1 DEF Range
    <3> QED
      BY <1>1, <1>2, <1>5, <1>9, <3>1
  <2>5. \A q : FullFirst(q)' <=> FullFirst(q)
    BY <1>2 DEF FullFirst
  <2> QED
    BY <1>1, <1>2, <2>1, <2>2, <2>3, <2>4, <2>5 DEF Typed, Range
<1>11. CASE \E i, m : MergedInto(s, i, m)
  <2>1. PICK i, m : MergedInto(s, i, m)
    BY <1>11
  <2>2. /\ i \in DOMAIN lnksec /\ WithSection(m, lnksec[i], s) /\ M = [lnksec EXCEPT ![i] = m]
    BY <2>1 DEF MergedInto
  <2> DEFINE l == lnksec[i].sections
  <2>3. m.sections = Append(l, s) /\ m.index = lnksec[i].index /\ m.uninit = lnksec[i].uninit
    BY <2>2 DEF WithSection
  <2>4. /\ DOMAIN M = DOMAIN lnksec
        /\ \A j \in DOMAIN lnksec : M[j] = IF j = i THEN m ELSE lnksec[j]
    BY <1>3, <2>2
  <2> HIDE DEF M
  <2>5. /\ Range(m.sections) = Range(l) \cup {s} /\ DOMAIN m.sections = 1..Len(l) + 1
        /\ \A k \in 1..Len(l) + 1 : m.sections[k] = IF k <= Len(l) THEN l[k] ELSE s
        /\ l \in Seq(Secs) /\ Len(l) \in Nat /\ DOMAIN l = 1..Len(l) /\ Range(l) \subseteq Linked
    BY <1>3, <1>6, <2>2, <2>3, AppendParts
  <2>6. FullFirst(l)
    BY <1>5, <2>2
  <2> HIDE DEF l
  <2>7. stype \in Int
    BY DEF PartInv, TypeInv, SectionTypes, CODE, DATA, UDATA
  <2>8. \A t \in Range(m.sections) : sec(t).type <= stype
    BY <1>5, <1>8, <2>5, <2>7
  <2>9. FullFirst(m.sections)
    <3>1. SUFFICES ASSUME NEW a \in 1..Len(l) + 1, NEW b \in 1..Len(l) + 1, a < b, Bss(m.sections[a])
                   PROVE  Bss(m.sections[b])
      BY <2>5 DEF FullFirst
    <3>2. a \in 1..Len(l) /\ m.sections[a] = l[a] /\ l[a] \in Range(l) /\ l[a] \in Secs
      BY <2>5, <3>1 DEF Range
    <3>3. CASE b <= Len(l)
      BY <2>5, <2>6, <3>1, <3>2, <3>3 DEF FullFirst
    <3>4. CASE ~(b <= Len(l))
      <4>1. sec(l[a]).type <= stype /\ sec(l[a]).type = 3
        BY <1>5, <1>7, <2>5, <3>1, <3>2
      <4>2. stype = 3
        BY <2>7, <4>1 DEF PartInv, TypeInv, SectionTypes, CODE, DATA, UDATA
      <4> QED
        BY <1>8, <2>5, <3>1, <3>4, <4>2 DEF UDATA
    <3> QED
      BY <3>3, <3>4
  <2>10. m.uninit => stype = UDATA /\ \A t \in Range(m.sections) : Bss(t)
    BY <1>5, <1>8, <2>2, <2>3, <2>5 DEF l
  <2>11. \A j \in DOMAIN lnksec : M[j].uninit = lnksec[j].uninit /\ M[j].index = lnksec[j].index
    BY <2>3, <2>4
  <2>12. \A j \in DOMAIN lnksec : \A t \in Range(lnksec[j].sections) : sec(t).type <= stype
    BY <1>5, <1>6
  <2> QED
    BY <1>5, <2>4, <2>8, <2>9, <2>10, <2>11, <2>12
<1>12. CASE \E m : MadeNew(s, m)
  <2>1. PICK m : MadeNew(s, m)
    BY <1>12
  <2>2. /\ m \in OutputSection /\ m.sections = <<s>> /\ m.index = nsecs /\ m.uninit = Bss(s)
        /\ M = Append(lnksec, m)
    BY <2>1 DEF MadeNew
  <2>3. /\ DOMAIN M = 1..Len(lnksec) + 1
        /\ \A j \in 1..Len(lnksec) + 1 : M[j] = IF j <= Len(lnksec) THEN lnksec[j] ELSE m
    BY <1>3, <2>2, AppendParts
  <2>4. \A j \in DOMAIN M : (j \in DOMAIN lnksec /\ M[j] = lnksec[j]) \/ M[j] = m
    BY <1>3, <2>3
  <2> HIDE DEF M
  <2>5. DOMAIN m.sections = {1} /\ m.sections[1] = s
    <3> DEFINE q == <<s>>
    <3>1. DOMAIN q = 1..1 /\ q[1] = s
      OBVIOUS
    <3>2. 1..1 = {1}
      OBVIOUS
    <3> HIDE DEF q
    <3>3. DOMAIN q = {1} /\ q[1] = s
      BY <3>1, <3>2
    <3> QED
      BY <2>2, <3>3 DEF q
  <2>6. Range(m.sections) = {s} /\ FullFirst(m.sections)
    BY <2>5 DEF Range, FullFirst
  <2>7. m.uninit <=> stype = UDATA
    BY <1>8, <2>2
  <2>8. \A t \in Range(m.sections) : sec(t).type <= stype
    <3>1. stype \in Int
      BY DEF PartInv, TypeInv, SectionTypes, CODE, DATA, UDATA
    <3> QED
      BY <1>8, <2>6, <3>1
  <2>9. \A j \in DOMAIN lnksec : \A t \in Range(lnksec[j].sections) : sec(t).type <= stype
    BY <1>5, <1>6
  <2>10. m.uninit => stype = UDATA /\ \A t \in Range(m.sections) : Bss(t)
    BY <1>8, <2>6, <2>7
  <2>11. ASSUME NEW i \in DOMAIN M, NEW j \in DOMAIN M, M[i].uninit, M[i].index < M[j].index
         PROVE  M[j].uninit
    <3>1. CASE M[j] = m
      <4>1. stype = UDATA
        BY <1>5, <2>4, <2>7, <2>11
      <4> QED
        BY <2>7, <3>1, <4>1
    <3>2. CASE j \in DOMAIN lnksec /\ M[j] = lnksec[j]
      <4>1. M[i] # m
        BY <1>3, <1>6, <2>2, <2>11, <3>2
      <4> QED
        BY <1>5, <2>4, <2>11, <3>2, <4>1
    <3> QED
      BY <2>4, <3>1, <3>2
  <2> QED
    BY <1>5, <2>4, <2>6, <2>8, <2>9, <2>10, <2>11
<1> QED
  BY <1>1, <1>11, <1>12

LEMMA TypedResolve ==
  ASSUME PartInv, TypedInv, ResolveDependencies
  PROVE  TypedInv'
<1>1. /\ phase = "dependencies"
      /\ UNCHANGED <<prog, small, referenced, selected, seclist, create_allowed, stype, nsecs, va, place>>
      /\ \/ Dependencies = {} /\ phase' = "layout" /\ pos' = 1 /\ UNCHANGED lnksec
         \/ phase' = "spin" /\ UNCHANGED <<lnksec, pos>>
         \/ UNCHANGED pos /\ \E old, new, m : JoinedLinked(old, new, m)
  BY ResolveIs DEF PartInv
<1>2. opt' = opt /\ \A t : sec(t)' = sec(t) /\ (Bss(t)' <=> Bss(t))
  BY <1>1, SameProgram
<1>3. CASE UNCHANGED lnksec /\ phase' \in {"layout", "spin"}
  BY <1>1, <1>3, TypedStay DEF Numbered, SameLists
<1>4. CASE \E old, new, m : JoinedLinked(old, new, m)
  <2>1. PICK old, new, m : JoinedLinked(old, new, m)
    BY <1>4
  <2>2. SUFFICES ASSUME ~opt.keep_sect_order PROVE Typed'
    BY <1>2 DEF TypedInv
  <2>3. /\ \A i \in DOMAIN lnksec : FullFirst(lnksec[i].sections)
        /\ \A i \in DOMAIN lnksec :
             lnksec[i].uninit => stype = UDATA /\ \A t \in Range(lnksec[i].sections) : Bss(t)
        /\ \A i, j \in DOMAIN lnksec :
             lnksec[i].uninit /\ lnksec[i].index < lnksec[j].index => lnksec[j].uninit
    BY <1>1, <2>2 DEF TypedInv, Typed, Numbered
  <2> DEFINE M == lnksec'
  <2>4. /\ old \in DOMAIN lnksec /\ new \in DOMAIN lnksec /\ lnksec[old].index < lnksec[new].index
        /\ m.sections = Joined(lnksec[old].sections, lnksec[new].sections)
        /\ m.index = lnksec[old].index /\ m.uninit = lnksec[old].uninit
        /\ JoinedInto(lnksec, M, old, new, m) /\ phase' = "dependencies"
    BY <1>1, <2>1 DEF JoinedLinked, BothSections
  <2>5. \A a \in DOMAIN M : /\ Skip(new, a) \in DOMAIN lnksec /\ Skip(new, a) # new
                            /\ M[a] = IF Skip(new, a) = old THEN m ELSE lnksec[Skip(new, a)]
    BY <2>4 DEF JoinedInto
  <2> HIDE DEF M
  <2>6. /\ Range(m.sections) = Range(lnksec[old].sections) \cup Range(lnksec[new].sections)
        /\ FullFirst(m.sections)
    <3>1. lnksec[old].sections \in Seq(Secs) /\ lnksec[new].sections \in Seq(Secs)
      BY <2>4, SectionsOf DEF PartInv, TypeInv
    <3>2. FullFirst(lnksec[old].sections) /\ FullFirst(lnksec[new].sections)
      BY <2>3, <2>4
    <3> QED
      BY <2>4, <3>1, <3>2, JoinedParts
  <2>7. m.uninit => stype = UDATA /\ \A t \in Range(m.sections) : Bss(t)
    BY <2>3, <2>4, <2>6
  <2>8. \A i \in DOMAIN M : FullFirst(M[i].sections)
    BY <2>3, <2>5, <2>6
  <2>9. \A i \in DOMAIN M : M[i].uninit => stype = UDATA /\ \A t \in Range(M[i].sections) : Bss(t)
    BY <2>3, <2>5, <2>7
  <2>10. \A i \in DOMAIN M : M[i].uninit = lnksec[Skip(new, i)].uninit /\ M[i].index = lnksec[Skip(new, i)].index
    BY <2>4, <2>5
  <2>11. \A i, j \in DOMAIN M : M[i].uninit /\ M[i].index < M[j].index => M[j].uninit
    BY <2>3, <2>5, <2>10
  <2>12. \A q : FullFirst(q)' <=> FullFirst(q)
    BY <1>2 DEF FullFirst
  <2> QED
    BY <1>1, <1>2, <2>4, <2>8, <2>9, <2>11, <2>12 DEF Typed, Range, M
<1> QED
  BY <1>1, <1>3, <1>4

LEMMA TypedStep ==
  ASSUME PartInv, PartInv', TypedInv, [Next]_vars
  PROVE  TypedInv'
<1>1. lnksec' = lnksec => SameLists(lnksec, lnksec') /\ \A i \in DOMAIN lnksec : lnksec'[i].uninit = lnksec[i].uninit
  BY DEF SameLists
<1>2. CASE Relrefs \/ linker_sectrefs \/ UNCHANGED vars \/ Relocate
  BY <1>1, <1>2, TypedStay DEF Relrefs, linker_sectrefs, Relocate, vars, Numbered
<1>3. CASE linker_gcsects
  <2>1. lnksec = <<>>
    BY <1>3 DEF linker_gcsects, PartInv, NoneLost, Early
  <2> QED
    BY <1>1, <1>3, <2>1, TypedStay DEF linker_gcsects, Numbered
<1>4. CASE Layout
  <2>1. /\ UNCHANGED <<prog, seclist, stype, phase>> /\ SameLists(lnksec, lnksec')
        /\ \A i \in DOMAIN lnksec : /\ lnksec'[i].uninit = lnksec[i].uninit
                                    /\ lnksec'[i].index = lnksec[i].index
    <3> DEFINE p == PlaceSections(lnksec[pos])
    <3>1. /\ UNCHANGED <<prog, phase, small, referenced, selected, seclist, create_allowed, stype, nsecs>>
          /\ DOMAIN lnksec' = DOMAIN lnksec /\ LaidSection(lnksec'[pos], lnksec[pos], p)
          /\ \A i \in DOMAIN lnksec : i # pos => lnksec'[i] = lnksec[i]
      BY <1>4, LayoutIs DEF PartInv
    <3> HIDE DEF p
    <3> QED
      BY <3>1 DEF LaidSection, SameLists
  <2> QED
    BY <2>1, TypedStay
<1>5. CASE linker_delunused
  <2>1. /\ phase' \in {"relocate", "ierror"} /\ UNCHANGED <<prog, seclist, stype>> /\ SameLists(lnksec, lnksec')
        /\ \A i \in DOMAIN lnksec : lnksec'[i].uninit = lnksec[i].uninit
    BY <1>5, DelunusedIs DEF PartInv, Renumber, SameLists
  <2> QED
    BY <2>1, TypedStay DEF Numbered
<1> QED
  BY <1>2, <1>3, <1>4, <1>5, TypedCollect, TypedMerge, TypedRound, TypedResolve DEF Next, Merge

(* The places in an output section that is laid out. *)

LEMMA LastFull ==
  ASSUME NEW ls, ls.sections \in Seq(Secs), NEW k \in DOMAIN ls.sections, ~Bss(ls.sections[k])
  PROVE  /\ Full(ls) # <<>>
         /\ \E m \in DOMAIN ls.sections : Last(Full(ls)) = ls.sections[m] /\ k <= m
<1> DEFINE list == ls.sections
           Fulls == {s \in Secs : ~Bss(s)}
           q == Full(ls)
<1>1. list \in Seq(Secs) /\ DOMAIN list = 1..Len(list) /\ Len(list) \in Nat /\ k \in 1..Len(list)
      /\ list[k] \in Fulls
  OBVIOUS
<1>2. q = Only(list, Fulls)
  BY DEF Full
<1> HIDE DEF list, Fulls, q
<1>3. q \in Seq(Secs) /\ \E h : OnlyMap(list, Fulls, q, h)
  BY <1>1, <1>2, OnlyIs
<1>4. PICK h : OnlyMap(list, Fulls, q, h)
  BY <1>3
<1> DEFINE n == Before(list, Fulls, k) + 1
           l == Len(q)
<1>5. n \in 1..l /\ h[n] = k
  BY <1>1, <1>4 DEF OnlyMap
<1> HIDE DEF n
<1>6. l \in Nat /\ l \in 1..l /\ q # <<>>
  BY <1>3, <1>5
<1> HIDE DEF l
<1>7. /\ h \in [1..l -> 1..Len(list)] /\ q[l] = list[h[l]]
      /\ n < l => h[n] < h[l]
  BY <1>4, <1>5, <1>6 DEF OnlyMap, l
<1>8. h[l] \in 1..Len(list) /\ k <= h[l]
  BY <1>1, <1>5, <1>6, <1>7
<1>9. Last(q) = q[l]
  BY DEF Last, l
<1> QED
  BY <1>1, <1>6, <1>7, <1>8, <1>9 DEF q, list

LEMMA LaidFits ==
  ASSUME PartInv, TypedInv, Layout
  PROVE  /\ Fits(lnksec'[pos], place')
         /\ \A t \in Secs : t \notin Range(lnksec[pos].sections) => place'[t] = place[t]
<1> DEFINE ls == lnksec[pos]
           m == lnksec'[pos]
           p == PlaceSections(ls)
           list == ls.sections
           N == Len(list)
<1>1. /\ pos \in DOMAIN lnksec /\ p \in Placement /\ place' = p.place /\ LaidSection(m, ls, p)
  BY LayoutIs DEF PartInv
<1>2. /\ prog \in Programs /\ va \in Int /\ place \in [Secs -> Place] /\ lnksec \in Seq(OutputSection)
  BY DEF PartInv, TypeInv
<1>3. list \in Seq(Secs) /\ DOMAIN list = 1..N /\ N \in Nat
  BY <1>1, <1>2, SectionsOf
<1>4. Distinct(list)
  BY <1>1 DEF PartInv, OnePlace, OneEach, Distinct
<1>5. PlacedInOrder(list, p, N)
  BY <1>2, <1>3, <1>4, SectionsPlaced
<1>6. ~opt.keep_sect_order => FullFirst(list)
  BY <1>1 DEF TypedInv, Typed
<1>7. m.sections = list /\ m.base = va /\ m.size = p.size /\ m.filesize = Trimmed(ls, p)
  BY <1>1 DEF LaidSection
<1> HIDE DEF m, p
<1> DEFINE pl == p.place
<1>8. /\ \A k \in 1..N : /\ InPlace(pl[list[k]], list[k], va)
                         /\ pl[list[k]].offset + pl[list[k]].size <= p.size
                         /\ \A n \in 1..N : k < n => pl[list[k]].offset + pl[list[k]].size <= pl[list[n]].offset
      /\ \A t \in Secs : (\A k \in 1..N : list[k] # t) => pl[t] = place[t]
      /\ opt.dest_object /\ FullFirst(list) =>
           \A k \in 1..N : ~Bss(list[k]) => pl[list[k]].offset + pl[list[k]].size <= p.filesize
  BY <1>5 DEF PlacedInOrder
<1>9. pl \in [Secs -> Place] /\ p.filesize \in Int
  BY <1>1 DEF Placement
<1> HIDE DEF pl
<1>10. ASSUME NEW k \in 1..N, ~Bss(list[k]), FullFirst(list)
       PROVE  pl[list[k]].offset + sec(list[k]).init <= Trimmed(ls, p)
  <2> DEFINE s == list[k]
             size == sec(s).size
             init == sec(s).init
             o == pl[s].offset
             z == pl[s].size
  <2>1. s \in Secs
    BY <1>3
  <2>2. init \in Nat /\ size \in Nat /\ init <= size
    BY <1>2, <2>1, ProgramType
  <2>3. o \in Int /\ z \in Nat
    BY <1>9, <2>1 DEF Place
  <2>4. z >= size
    BY <1>8 DEF InPlace
  <2>5. CASE opt.dest_object
    <3>1. o + z <= p.filesize
      BY <1>8, <1>10, <2>5
    <3>2. Trimmed(ls, p) = p.filesize
      BY <2>5 DEF Trimmed
    <3> HIDE DEF s, size, init, o, z
    <3>3. o + init <= p.filesize
      BY <1>9, <2>2, <2>3, <2>4, <3>1
    <3> QED
      BY <3>2, <3>3 DEF s, init, o
  <2>6. CASE ~opt.dest_object
    <3>1. Full(ls) # <<>> /\ \E n \in DOMAIN list : Last(Full(ls)) = list[n] /\ k <= n
      BY <1>3, <1>10, LastFull
    <3>2. PICK n \in 1..N : Last(Full(ls)) = list[n] /\ k <= n
      BY <1>3, <3>1
    <3> DEFINE l == list[n]
               li == sec(l).init
               lo == pl[l].offset
    <3>3. l \in Secs
      BY <1>3
    <3>4. li \in Nat
      BY <1>2, <3>3, ProgramType
    <3>5. lo \in Int
      BY <1>9, <3>3 DEF Place
    <3>6. Trimmed(ls, p) = lo + li
      BY <2>6, <3>1, <3>2 DEF Trimmed, pl
    <3>7. k < n => o + z <= lo
      BY <1>8
    <3>8. k = n => o = lo /\ init = li
      OBVIOUS
    <3>9. k < n \/ k = n
      BY <3>2
    <3> HIDE DEF s, size, init, o, z, l, li, lo
    <3>10. o + init <= lo + li
      BY <2>2, <2>3, <2>4, <3>4, <3>5, <3>7, <3>8, <3>9
    <3> QED
      BY <3>6, <3>10 DEF s, init, o
  <2> QED
    BY <2>5, <2>6
<1>11. \A s \in Range(list) : \E k \in 1..N : list[k] = s
  BY <1>3 DEF Range
<1> HIDE DEF list, N
<1>12. Fits(m, pl)
  <2>1. \A s \in Range(list) : InPlace(pl[s], s, va) /\ pl[s].offset + pl[s].size <= p.size
    BY <1>8, <1>11
  <2>2. ~opt.keep_sect_order => \A s \in Range(list) : ~Bss(s) => pl[s].offset + sec(s).init <= Trimmed(ls, p)
    BY <1>6, <1>10, <1>11
  <2>3. \A k, n \in DOMAIN list : k < n => pl[list[k]].offset + pl[list[k]].size <= pl[list[n]].offset
    BY <1>3, <1>8
  <2> QED
    BY <1>7, <2>1, <2>2, <2>3 DEF Fits
<1>13. \A t \in Secs : t \notin Range(list) => pl[t] = place[t]
  BY <1>3, <1>8 DEF Range
<1> QED
  BY <1>1, <1>12, <1>13 DEF m, pl, p, list

LEMMA FitsStay ==
  ASSUME NEW ls, NEW m, NEW pl, NEW pl2, Fits(ls, pl),
         m.sections = ls.sections, m.base = ls.base, m.size = ls.size, m.filesize = ls.filesize,
         \A s \in Range(ls.sections) : pl2[s] = pl[s]
  PROVE  Fits(m, pl2)
<1>1. \A k \in DOMAIN ls.sections : ls.sections[k] \in Range(ls.sections)
  BY DEF Range
<1> QED
  BY <1>1 DEF Fits

LEMMA FitsSame ==
  ASSUME UNCHANGED prog
  PROVE  \A ls, pl : Fits(ls, pl)' <=> Fits(ls, pl)
<1>1. opt' = opt /\ \A s : sec(s)' = sec(s) /\ (Bss(s)' <=> Bss(s))
  BY SameProgram
<1>2. \A p, s, base : InPlace(p, s, base)' <=> InPlace(p, s, base)
  BY <1>1 DEF InPlace
<1> QED
  BY <1>1, <1>2 DEF Fits

LEMMA LaidOutLayout ==
  ASSUME PartInv, TypedInv, LaidOut, Layout
  PROVE  LaidOut'
<1> DEFINE p == PlaceSections(lnksec[pos])
           M == lnksec'
           end(ls) == ls.base + ls.size
<1>1. /\ phase = "layout" /\ pos \in DOMAIN lnksec /\ pos' = pos + 1
      /\ UNCHANGED <<prog, phase>>
      /\ p \in Placement /\ va' = (IF opt.baseincr THEN va + p.size ELSE va)
      /\ DOMAIN M = DOMAIN lnksec /\ LaidSection(M[pos], lnksec[pos], p)
      /\ \A i \in DOMAIN lnksec : i # pos => M[i] = lnksec[i]
      /\ lnksec' \in Seq(OutputSection)
  BY LayoutIs DEF PartInv
<1>2. M[pos].base = va /\ M[pos].size = p.size /\ p.size \in Nat
  BY <1>1 DEF LaidSection, Placement
<1>3. va \in Int /\ pos \in Nat /\ DOMAIN lnksec \subseteq Nat /\ lnksec \in Seq(OutputSection)
  BY DEF PartInv, TypeInv
<1>4. /\ Fits(M[pos], place')
      /\ \A t \in Secs : t \notin Range(lnksec[pos].sections) => place'[t] = place[t]
  BY LaidFits
<1>5. opt' = opt /\ \A ls, pl : Fits(ls, pl)' <=> Fits(ls, pl)
  BY <1>1, SameProgram, FitsSame
<1> HIDE DEF p, M
<1>6. /\ \A i \in DOMAIN lnksec : i < pos => Fits(lnksec[i], place)
      /\ opt.baseincr =>
           \A i \in DOMAIN lnksec :
             i < pos => /\ end(lnksec[i]) <= va
                        /\ \A j \in DOMAIN lnksec : j < pos /\ i < j => end(lnksec[i]) <= lnksec[j].base
  BY <1>1 DEF LaidOut, Late, Laid, Numbered
<1>7. \A i \in DOMAIN lnksec : Laid(i)' <=> i < pos \/ i = pos
  BY <1>1, <1>3 DEF Laid, Numbered, M
<1>8. ASSUME NEW i \in DOMAIN lnksec, i < pos PROVE Fits(M[i], place')
  <2>1. M[i] = lnksec[i] /\ Fits(lnksec[i], place)
    BY <1>1, <1>3, <1>6, <1>8
  <2>2. \A s \in Range(lnksec[i].sections) : s \in Secs /\ s \notin Range(lnksec[pos].sections)
    <3>1. \A s \in Range(lnksec[i].sections) : s \in Secs
      BY <1>3, SectionsOf
    <3>2. i # pos
      BY <1>3, <1>8
    <3>3. \A s \in Range(lnksec[i].sections) : s \notin Range(lnksec[pos].sections)
      BY <1>1, <3>2 DEF PartInv, OnePlace, OneEach, Range
    <3> QED
      BY <3>1, <3>3
  <2>3. \A s \in Range(lnksec[i].sections) : place'[s] = place[s]
    BY <1>4, <2>2
  <2> QED
    BY <2>1, <2>3, FitsStay
<1>9. \A i \in DOMAIN lnksec : Laid(i)' => Fits(M[i], place')
  BY <1>4, <1>7, <1>8
<1> HIDE DEF end
<1>10. ASSUME opt.baseincr, NEW i \in DOMAIN lnksec, i < pos \/ i = pos
       PROVE  /\ end(M[i]) <= va'
              /\ \A j \in DOMAIN lnksec : (j < pos \/ j = pos) /\ i < j => end(M[i]) <= M[j].base
  <2>1. va' = va + p.size
    BY <1>1, <1>10
  <2>2. i < pos => M[i] = lnksec[i] /\ end(M[i]) <= va
    BY <1>1, <1>3, <1>6, <1>10
  <2>3. end(M[pos]) = va + p.size
    BY <1>2 DEF end
  <2>4. end(M[i]) \in Int
    <3>1. M \in Seq(OutputSection) /\ i \in DOMAIN M
      BY <1>1, SameProgram DEF M
    <3>2. M[i].base \in Int /\ M[i].size \in Nat
      <4>1. M[i] \in OutputSection
        BY <3>1, SectionsOf
      <4> QED
        BY <4>1 DEF OutputSection
    <3> QED
      BY <3>2 DEF end
  <2>5. end(M[i]) <= va'
    BY <1>2, <1>3, <1>10, <2>1, <2>2, <2>3, <2>4
  <2>6. ASSUME NEW j \in DOMAIN lnksec, j < pos \/ j = pos, i < j PROVE end(M[i]) <= M[j].base
    <3>1. i < pos
      BY <1>3, <2>6
    <3>2. CASE j = pos
      BY <1>2, <2>2, <3>1, <3>2
    <3>3. CASE j < pos
      BY <1>1, <1>3, <1>6, <1>10, <2>2, <2>6, <3>1, <3>3
    <3> QED
      BY <2>6, <3>2, <3>3
  <2> QED
    BY <2>5, <2>6
<1> QED
  BY <1>1, <1>5, <1>7, <1>9, <1>10 DEF LaidOut, Late, Laid, end, M

LEMMA LaidOutStay ==
  ASSUME PartInv, LaidOut, UNCHANGED <<prog, va, place>>, phase \in Late, phase' \in Late,
         DOMAIN lnksec' = DOMAIN lnksec,
         \A i \in DOMAIN lnksec : /\ lnksec'[i].sections = lnksec[i].sections
                                  /\ lnksec'[i].base = lnksec[i].base
                                  /\ lnksec'[i].size = lnksec[i].size
                                  /\ lnksec'[i].filesize = lnksec[i].filesize,
         \A i \in DOMAIN lnksec : Laid(i)' => Laid(i)
  PROVE  LaidOut'
<1> DEFINE M == lnksec'
<1>1. opt' = opt /\ \A ls, pl : Fits(ls, pl)' <=> Fits(ls, pl)
  BY SameProgram, FitsSame
<1>2. \A i \in DOMAIN lnksec : Laid(i)' => Fits(M[i], place)
  BY FitsStay DEF LaidOut
<1>3. opt.baseincr =>
        \A i \in DOMAIN lnksec :
          Laid(i) => /\ lnksec[i].base + lnksec[i].size <= va
                     /\ \A j \in DOMAIN lnksec :
                          Laid(j) /\ i < j => lnksec[i].base + lnksec[i].size <= lnksec[j].base
  BY DEF LaidOut
<1> QED
  BY <1>1, <1>2, <1>3 DEF LaidOut

LEMMA LaidOutStep ==
  ASSUME PartInv, TypedInv, LaidOut, [Next]_vars
  PROVE  LaidOut'
<1>1. lnksec \in Seq(OutputSection) /\ DOMAIN lnksec = 1..Len(lnksec) /\ Len(lnksec) \in Nat /\ pos \in Nat
  BY DEF PartInv, TypeInv
<1>2. CASE ResolveDependencies
  <2>1. SUFFICES ASSUME phase' \in Late PROVE LaidOut'
    BY DEF LaidOut
  <2>2. phase' = "layout" /\ pos' = 1 /\ UNCHANGED lnksec
    BY <1>2, <2>1, ResolveIs DEF PartInv, Late, JoinedLinked
  <2>3. \A i \in DOMAIN lnksec' : ~Laid(i)'
    BY <1>1, <2>2 DEF Laid, Numbered
  <2> QED
    BY <2>3 DEF LaidOut
<1>3. CASE linker_delunused
  <2>1. /\ phase = "layout" /\ phase' \in {"relocate", "ierror"} /\ pos > Len(lnksec)
        /\ UNCHANGED <<prog, va, place>> /\ DOMAIN lnksec' = DOMAIN lnksec
        /\ \A i \in DOMAIN lnksec : Renumber(lnksec'[i], lnksec[i], i)
    BY <1>3, DelunusedIs DEF PartInv
  <2>2. \A i \in DOMAIN lnksec : Laid(i)
    BY <1>1, <2>1 DEF Laid
  <2> QED
    BY <2>1, <2>2, LaidOutStay DEF Late, Renumber
<1>4. CASE Relocate
  BY <1>4, LaidOutStay DEF Relocate, Late, Laid, Numbered
<1>5. CASE UNCHANGED vars
  BY <1>5, LaidOutStay DEF vars, LaidOut, Laid
<1>6. CASE Relrefs \/ linker_sectrefs \/ linker_gcsects \/ Collect \/ MergeSection \/ MergeRound
  <2>1. phase' \notin Late
    BY <1>6, MergeSectionIs DEF Relrefs, linker_sectrefs, linker_gcsects, Collect, MergeRound, Late,
       PartInv, LeftAlone, MergedInto, MadeNew
  <2> QED
    BY <2>1 DEF LaidOut
<1> QED
  BY <1>2, <1>3, <1>4, <1>5, <1>6, LaidOutLayout DEF Next, Merge

(* Nothing overlaps. *)

LEMMA Separate ==
  ASSUME NEW x \in Int, NEW m \in Int, NEW y \in Int, NEW n \in Int, x + m <= y
  PROVE  Bytes(x, m) \cap Bytes(y, n) = {}
BY DEF Bytes

\* The k-th common symbol of a section, or with k = 0 the section.
From(s, k) == SecVa(s) + (IF k = 0 THEN 0 ELSE place[s].commons[k])
SizeOf(s, k) == IF k = 0 THEN sec(s).size ELSE sec(s).commons[k].size

\* The place of a section, and what is in it.
LEMMA Inside ==
  ASSUME PartInv, LaidOut, phase = "done", NEW s, Placed(s)
  PROVE  LET i == LnkSecOf(s) IN
         /\ s \in Secs /\ i \in DOMAIN lnksec /\ s \in Range(lnksec[i].sections)
         /\ lnksec[i].base \in Int /\ lnksec[i].size \in Nat
         /\ Fits(lnksec[i], place) /\ InPlace(place[s], s, lnksec[i].base)
         /\ place[s].offset \in Nat /\ place[s].size \in Nat /\ place[s].commons \in Seq(Int)
         /\ place[s].offset + place[s].size <= lnksec[i].size
         /\ \A k \in DOMAIN place[s].commons :
              k \in DOMAIN sec(s).commons /\ sec(s).commons[k].size \in Nat /\ place[s].commons[k] \in Int
<1> DEFINE i == LnkSecOf(s)
<1>1. s \in Secs /\ i \in DOMAIN lnksec /\ s \in Range(lnksec[i].sections)
  BY LnkSecOfIs
<1> HIDE DEF i
<1>2. lnksec[i].base \in Int /\ lnksec[i].size \in Nat
  <2>1. lnksec[i] \in OutputSection
    BY <1>1, SectionsOf DEF PartInv, TypeInv
  <2> QED
    BY <2>1 DEF OutputSection
<1>3. Fits(lnksec[i], place)
  BY <1>1 DEF LaidOut, Late, Laid, Numbered
<1>4. InPlace(place[s], s, lnksec[i].base) /\ place[s].offset + place[s].size <= lnksec[i].size
  BY <1>1, <1>3 DEF Fits
<1>5. place[s].offset \in Nat /\ place[s].size \in Nat /\ place[s].commons \in Seq(Int)
  <2>1. place[s] \in Place
    BY <1>1 DEF PartInv, TypeInv
  <2>2. place[s].offset >= 0
    BY <1>4 DEF InPlace
  <2> QED
    BY <2>1, <2>2 DEF Place
<1>6. ASSUME NEW k \in DOMAIN place[s].commons
      PROVE  k \in DOMAIN sec(s).commons /\ sec(s).commons[k].size \in Nat /\ place[s].commons[k] \in Int
  <2>1. place[s].commons # <<>>
    BY <1>5, <1>6
  <2>2. DOMAIN place[s].commons = DOMAIN sec(s).commons
    BY <1>4, <2>1 DEF InPlace
  <2>3. sec(s).commons \in Seq(Common)
    BY <1>1, ProgramType DEF PartInv, TypeInv
  <2>4. sec(s).commons[k] \in Common
    BY <1>6, <2>2, <2>3
  <2> QED
    BY <1>5, <1>6, <2>2, <2>4 DEF Common
<1> QED
  BY <1>1, <1>2, <1>3, <1>4, <1>5, <1>6 DEF i

LEMMA BytesInside ==
  ASSUME PartInv, LaidOut, phase = "done", NEW s, Placed(s), NEW k \in {0} \cup DOMAIN place[s].commons
  PROVE  /\ From(s, k) \in Int /\ SizeOf(s, k) \in Nat
         /\ SecVa(s) \in Int /\ SecVa(s) <= From(s, k)
         /\ From(s, k) + SizeOf(s, k) <= SecVa(s) + place[s].size
         /\ \A m \in DOMAIN place[s].commons : k < m => From(s, k) + SizeOf(s, k) <= From(s, m)
<1> DEFINE i == LnkSecOf(s)
           base == lnksec[i].base
           o == place[s].offset
           c == place[s].commons
           z == place[s].size
           size == sec(s).size
           n(m) == sec(s).commons[m].size
<1>1. /\ s \in Secs /\ base \in Int /\ o \in Nat /\ z \in Nat /\ InPlace(place[s], s, base)
      /\ c \in Seq(Int) /\ \A m \in DOMAIN c : n(m) \in Nat /\ c[m] \in Int
  BY Inside
<1>2. size \in Nat
  BY <1>1, ProgramType DEF PartInv, TypeInv
<1>3. /\ z >= size
      /\ \A m \in DOMAIN c : c[m] >= size /\ c[m] + n(m) <= z
      /\ \A m, l \in DOMAIN c : m < l => c[m] + n(m) <= c[l]
  BY <1>1 DEF InPlace
<1>4. SecVa(s) = base + o
  BY DEF SecVa
<1>5. \A m \in DOMAIN c : m \in Nat /\ m # 0
  BY <1>1
<1>6. \A m \in DOMAIN c : From(s, m) = (base + o) + c[m] /\ SizeOf(s, m) = n(m)
  BY <1>4, <1>5 DEF From, SizeOf
<1>7. From(s, 0) = (base + o) + 0 /\ SizeOf(s, 0) = size
  BY <1>4 DEF From, SizeOf
<1> HIDE DEF i, base, o, c, z, size, n
<1>8. CASE k = 0
  BY <1>1, <1>2, <1>3, <1>4, <1>6, <1>7, <1>8 DEF c, z
<1>9. CASE k \in DOMAIN c
  <2>1. From(s, k) = (base + o) + c[k] /\ SizeOf(s, k) = n(k) /\ n(k) \in Nat /\ c[k] \in Int
    BY <1>1, <1>6, <1>9
  <2>2. c[k] >= size /\ c[k] + n(k) <= z
    BY <1>3, <1>9
  <2>3. \A m \in DOMAIN c : k < m => From(s, k) + SizeOf(s, k) <= From(s, m)
    <3>1. SUFFICES ASSUME NEW m \in DOMAIN c, k < m PROVE From(s, k) + SizeOf(s, k) <= From(s, m)
      OBVIOUS
    <3>2. c[m] \in Int /\ From(s, m) = (base + o) + c[m] /\ c[k] + n(k) <= c[m]
      BY <1>1, <1>3, <1>6, <1>9, <3>1
    <3> QED
      BY <1>1, <2>1, <3>2
  <2>4. From(s, k) \in Int /\ SizeOf(s, k) \in Nat /\ SecVa(s) \in Int /\ SecVa(s) <= From(s, k)
        /\ From(s, k) + SizeOf(s, k) <= SecVa(s) + z
    BY <1>1, <1>2, <1>4, <2>1, <2>2
  <2> QED
    BY <2>3, <2>4 DEF c, z
<1> QED
  BY <1>8, <1>9 DEF c

\* Two sections, where their addresses can be compared.
LEMMA SectionsApart ==
  ASSUME PartInv, LaidOut, phase = "done", NEW s, NEW t, Placed(s), Placed(t), s # t,
         opt.baseincr \/ LnkSecOf(s) = LnkSecOf(t)
  PROVE  \/ SecVa(s) + place[s].size <= SecVa(t)
         \/ SecVa(t) + place[t].size <= SecVa(s)
<1> DEFINE i == LnkSecOf(s)
           j == LnkSecOf(t)
           bi == lnksec[i].base
           bj == lnksec[j].base
           os == place[s].offset
           ot == place[t].offset
           zs == place[s].size
           zt == place[t].size
<1>1. /\ i \in DOMAIN lnksec /\ s \in Range(lnksec[i].sections) /\ bi \in Int /\ lnksec[i].size \in Nat
      /\ Fits(lnksec[i], place) /\ os \in Nat /\ zs \in Nat /\ os + zs <= lnksec[i].size
  BY Inside
<1>2. /\ j \in DOMAIN lnksec /\ t \in Range(lnksec[j].sections) /\ bj \in Int /\ lnksec[j].size \in Nat
      /\ ot \in Nat /\ zt \in Nat /\ ot + zt <= lnksec[j].size
  BY Inside
<1>3. SecVa(s) = bi + os /\ SecVa(t) = bj + ot
  BY DEF SecVa
<1>4. CASE i = j
  <2>1. PICK k \in DOMAIN lnksec[i].sections : lnksec[i].sections[k] = s
    BY <1>1 DEF Range
  <2>2. PICK m \in DOMAIN lnksec[i].sections : lnksec[i].sections[m] = t
    BY <1>2, <1>4 DEF Range
  <2>3. k \in Nat /\ m \in Nat /\ k # m
    <3>1. DOMAIN lnksec[i].sections \subseteq Nat
      BY <1>1, SectionsOf DEF PartInv, TypeInv
    <3> QED
      BY <2>1, <2>2, <3>1
  <2>4. /\ k < m => os + zs <= ot
        /\ m < k => ot + zt <= os
    BY <1>1, <2>1, <2>2 DEF Fits
  <2>5. bi = bj
    BY <1>4
  <2> HIDE DEF i, j, bi, bj, os, ot, zs, zt
  <2> QED
    BY <1>1, <1>2, <1>3, <2>3, <2>4, <2>5 DEF zs, zt
<1>5. CASE i # j
  <2>1. /\ i < j => bi + lnksec[i].size <= bj
        /\ j < i => bj + lnksec[j].size <= bi
    BY <1>1, <1>2, <1>5 DEF LaidOut, Late, Laid, Numbered
  <2>2. i < j \/ j < i
    <3>1. DOMAIN lnksec \subseteq Nat
      BY DEF PartInv, TypeInv
    <3> QED
      BY <1>1, <1>2, <1>5, <3>1
  <2> HIDE DEF i, j, bi, bj, os, ot, zs, zt
  <2> QED
    BY <1>1, <1>2, <1>3, <2>1, <2>2 DEF zs, zt
<1> QED
  BY <1>4, <1>5

LEMMA NoOverlapHolds ==
  ASSUME PartInv, LaidOut, phase = "done"
  PROVE  NoOverlap
<1>1. SUFFICES ASSUME NEW s \in {u \in Secs : Placed(u)}, NEW t \in {u \in Secs : Placed(u)},
                      NEW b \in AllBytes(s), NEW c \in AllBytes(t),
                      <<s, b[1]>> # <<t, c[1]>>, opt.baseincr \/ LnkSecOf(s) = LnkSecOf(t)
               PROVE  b[2] \cap c[2] = {}
  BY DEF NoOverlap
<1>2. ASSUME NEW u, Placed(u), NEW d \in AllBytes(u)
      PROVE  \E k \in {0} \cup DOMAIN place[u].commons : d[1] = k /\ d[2] = Bytes(From(u, k), SizeOf(u, k))
  <2>1. CASE d = <<0, SecBytes(u)>>
    <3>1. SecVa(u) \in Int
      BY <1>2, BytesInside
    <3>2. From(u, 0) = SecVa(u) /\ SizeOf(u, 0) = sec(u).size
      BY <3>1 DEF From, SizeOf
    <3> QED
      BY <2>1, <3>2 DEF SecBytes
  <2>2. ASSUME NEW k \in DOMAIN place[u].commons, d = <<k, CommonBytes(u, k)>>
        PROVE  \E l \in {0} \cup DOMAIN place[u].commons : d[1] = l /\ d[2] = Bytes(From(u, l), SizeOf(u, l))
    <3>1. place[u].commons \in Seq(Int)
      BY <1>1, <1>2, Inside
    <3>2. k # 0
      BY <2>2, <3>1
    <3>3. From(u, k) = SecVa(u) + place[u].commons[k] /\ SizeOf(u, k) = sec(u).commons[k].size
      BY <3>2 DEF From, SizeOf
    <3> QED
      BY <2>2, <3>3 DEF CommonBytes
  <2> QED
    BY <1>2, <2>1, <2>2 DEF AllBytes
<1>3. PICK k \in {0} \cup DOMAIN place[s].commons : b[1] = k /\ b[2] = Bytes(From(s, k), SizeOf(s, k))
  BY <1>1, <1>2
<1>4. PICK m \in {0} \cup DOMAIN place[t].commons : c[1] = m /\ c[2] = Bytes(From(t, m), SizeOf(t, m))
  BY <1>1, <1>2
<1> DEFINE x == From(s, k)
           y == From(t, m)
           xn == SizeOf(s, k)
           yn == SizeOf(t, m)
           vs == SecVa(s)
           vt == SecVa(t)
           zs == place[s].size
           zt == place[t].size
<1>5. /\ x \in Int /\ xn \in Nat /\ vs \in Int /\ vs <= x /\ x + xn <= vs + zs
      /\ \A l \in DOMAIN place[s].commons : k < l => x + xn <= From(s, l)
  BY <1>1, BytesInside
<1>6. /\ y \in Int /\ yn \in Nat /\ vt \in Int /\ vt <= y /\ y + yn <= vt + zt
      /\ \A l \in DOMAIN place[t].commons : m < l => y + yn <= From(t, l)
  BY <1>1, BytesInside
<1>7. zs \in Nat /\ zt \in Nat
  BY <1>1, Inside
<1>8. x + xn <= y \/ y + yn <= x
  <2>1. CASE s # t
    <3>1. vs + zs <= vt \/ vt + zt <= vs
      BY <1>1, <2>1, SectionsApart
    <3> HIDE DEF x, y, xn, yn, vs, vt, zs, zt
    <3> QED
      BY <1>5, <1>6, <1>7, <3>1
  <2>2. CASE s = t
    <3>1. k # m
      BY <1>1, <1>3, <1>4, <2>2
    <3>2. DOMAIN place[s].commons \subseteq Nat \ {0}
      <4>1. place[s].commons \in Seq(Int)
        BY <1>1, Inside
      <4> QED
        BY <4>1
    <3>3. k \in Nat /\ m \in Nat /\ (k < m => m \in DOMAIN place[s].commons) /\ (m < k => k \in DOMAIN place[s].commons)
      BY <2>2, <3>2
    <3>4. k < m \/ m < k
      BY <3>1, <3>3
    <3> QED
      BY <1>5, <1>6, <2>2, <3>3, <3>4
  <2> QED
    BY <2>1, <2>2
<1> HIDE DEF x, y, xn, yn
<1>9. Bytes(x, xn) \cap Bytes(y, yn) = {}
  <2>1. x + xn <= y => Bytes(x, xn) \cap Bytes(y, yn) = {}
    BY <1>5, <1>6, Separate
  <2>2. y + yn <= x => Bytes(y, yn) \cap Bytes(x, xn) = {}
    BY <1>5, <1>6, Separate
  <2> QED
    BY <1>8, <2>1, <2>2
<1> QED
  BY <1>3, <1>4, <1>9 DEF x, y, xn, yn

LEMMA AlignedHolds ==
  ASSUME PartInv, LaidOut, phase = "done"
  PROVE  Aligned
<1>1. SUFFICES ASSUME NEW s \in Secs, Placed(s)
               PROVE  LET ls == lnksec[LnkSecOf(s)]
                      IN  /\ SecVa(s) % sec(s).align = 0
                          /\ sec(s).name # "" \/ sec(s).size > 0 => ls.align >= sec(s).align
                          /\ place[s].offset + place[s].size <= ls.size
                          /\ \A k \in DOMAIN place[s].commons :
                               (SecVa(s) + place[s].commons[k]) % sec(s).commons[k].align = 0
  BY DEF Aligned
<1> DEFINE ls == lnksec[LnkSecOf(s)]
<1>2. /\ LnkSecOf(s) \in DOMAIN lnksec /\ s \in Range(ls.sections)
      /\ InPlace(place[s], s, ls.base) /\ place[s].offset + place[s].size <= ls.size
  BY <1>1, Inside
<1>3. /\ SecVa(s) % sec(s).align = 0
      /\ \A k \in DOMAIN place[s].commons :
           (SecVa(s) + place[s].commons[k]) % sec(s).commons[k].align = 0
  BY <1>2 DEF InPlace, SecVa
<1>4. Suits(ls, s)
  BY <1>2 DEF PartInv, Attributes
<1>5. sec(s).name # "" \/ sec(s).size > 0 => ls.align >= sec(s).align
  <2>1. sec(s).name # "" \/ sec(s).size > 0 => ~Empty(s)
    <3> DEFINE size == sec(s).size
    <3>1. size \in Nat
      BY <1>1, ProgramType DEF PartInv, TypeInv
    <3>2. size > 0 => size # 0
      BY <3>1
    <3> QED
      BY <3>2 DEF Empty
  <2> QED
    BY <1>4, <2>1 DEF Suits
<1> QED
  BY <1>2, <1>3, <1>5

LEMMA WrittenHolds ==
  ASSUME PartInv, TypedInv, LaidOut
  PROVE  InitialisedWritten
<1>1. SUFFICES ASSUME phase = "done", NEW s \in Secs, Placed(s), ~Bss(s), sec(s).init > 0, ~opt.keep_sect_order
               PROVE  /\ ~lnksec[LnkSecOf(s)].uninit
                      /\ place[s].offset + sec(s).init <= lnksec[LnkSecOf(s)].filesize
  BY DEF InitialisedWritten
<1> DEFINE i == LnkSecOf(s)
<1>2. i \in DOMAIN lnksec /\ s \in Range(lnksec[i].sections) /\ Fits(lnksec[i], place)
  BY <1>1, Inside
<1> HIDE DEF i
<1>3. ~lnksec[i].uninit
  BY <1>1, <1>2 DEF TypedInv, Typed
<1>4. place[s].offset + sec(s).init <= lnksec[i].filesize
  BY <1>1, <1>2 DEF Fits
<1> QED
  BY <1>3, <1>4 DEF i

----------------------------------------------------------------------------
(* The theorems. *)

\* All that the steps of the linker preserve.
LinkInv ==
  /\ PartInv /\ Closed /\ SmallTargets /\ Together
  /\ Renumbered /\ Written /\ TypedInv /\ LaidOut

\* The invariant of the linker: where the sections are, what is kept, what is
\* together, the numbers, types and places of the output sections.
THEOREM LinkInvariant == Spec => []LinkInv
<1>1. ASSUME Init PROVE LinkInv
  <2>1. phase = "relrefs" /\ lnksec = <<>>
    BY <1>1 DEF Init
  <2>2. TypedInv
    BY <2>1 DEF TypedInv, Typed
  <2>3. Together /\ Renumbered /\ Written /\ LaidOut
    BY <2>1 DEF Together, Renumbered, Written, LaidOut, Late, Numbered
  <2> QED
    BY <1>1, <2>2, <2>3, InitPart, InitClosed DEF LinkInv
<1>2. ASSUME LinkInv, [Next]_vars PROVE LinkInv'
  <2>1. PartInv'
    BY <1>2, PartStep DEF LinkInv
  <2>2. Closed' /\ SmallTargets'
    BY <1>2, ClosedStep DEF LinkInv
  <2>3. Together'
    BY <1>2, TogetherStep DEF LinkInv
  <2>4. Renumbered' /\ Written'
    BY <1>2, NumberedStep DEF LinkInv
  <2>5. TypedInv'
    BY <1>2, <2>1, TypedStep DEF LinkInv
  <2>6. LaidOut'
    BY <1>2, LaidOutStep DEF LinkInv
  <2> QED
    BY <2>1, <2>2, <2>3, <2>4, <2>5, <2>6 DEF LinkInv
<1> QED
  BY <1>1, <1>2, PTL DEF Spec

\* Every section that garbage collection leaves has one place in the output,
\* aligned as it asks for, and nothing overlaps it: merge_seclist(), the search
\* for dependencies and the layout lose no section and link none twice.
THEOREM SectionsArranged == Spec => []Arranged
<1>1. LinkInv => Arranged
  BY PartitionHolds, NoOverlapHolds, AlignedHolds DEF LinkInv, Arranged
<1> QED
  BY <1>1, LinkInvariant, PTL

\* What is initialised goes to the file, when the sections are merged type by
\* type: trim_sections() cuts nothing that is needed.
THEOREM ContentsWritten == Spec => []InitialisedWritten
<1>1. LinkInv => InitialisedWritten
  BY WrittenHolds DEF LinkInv
<1> QED
  BY <1>1, LinkInvariant, PTL

\* What a section of the output refers to is in the output, and with gc of all
\* sections nothing else is.
THEOREM CollectionClosed == Spec => []GcClosed
<1>1. LinkInv => GcClosed
  BY GcClosedHolds DEF LinkInv
<1> QED
  BY <1>1, LinkInvariant, PTL

\* Sections with PC-relative references to one another, and the small data, are
\* in one output section when the options say so.
THEOREM TogetherInOneSection == Spec => []InOneSection
<1>1. LinkInv => InOneSection
  BY InOneSectionHolds DEF LinkInv
<1> QED
  BY <1>1, LinkInvariant, PTL

\* The relocations of the output count the output sections as they are written,
\* without those that linker_delunused() takes away.
THEOREM RelocationsNamed == Spec => []RelocsNameTheirSection
<1>1. LinkInv => RelocsNameTheirSection
  BY RelocsHold DEF LinkInv
<1> QED
  BY <1>1, LinkInvariant, PTL

=============================================================================
