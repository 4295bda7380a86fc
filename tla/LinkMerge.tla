------------------------------ MODULE LinkMerge -----------------------------
(***************************************************************************)
(* vlink: from the sections of the selected units to the output sections,   *)
(* without a linker script (linker_relrefs(), linker_sectrefs(),            *)
(* linker_gcsects(), linker_merge(), linker_copy() and linker_relocate() of *)
(* linker.c).                                                               *)
(*                                                                         *)
(* A section has a number, its place in gv->selobjects.  Contents are       *)
(* abstracted to their length: init bytes up to the last one that is not    *)
(* zero or is relocated, size bytes in all.  Sections have no memory         *)
(* attributes and no flags of the target's own.                             *)
(***************************************************************************)
EXTENDS Integers, FiniteSets, SequencesExt

CONSTANTS
  Programs   \* the sections, references and options: see sec(s), refs and opt

CODE  == 1     \* ST_CODE, ST_DATA, ST_UDATA
DATA  == 2
UDATA == 3
SectionTypes == {CODE, DATA, UDATA}
COMMON == "COMMON"    \* gv->common_sec_name

\* Alignments are in bytes, the powers of two that the code counts in bits.
Alignment == Nat \ {0}
Common  == [size : Nat, align : Alignment]
Protection == SUBSET {"read", "write", "exec", "share"}    \* SP_READ and so on
Section == {s \in [name : STRING, type : SectionTypes, size : Nat, align : Alignment, init : Nat,
                   protection : Protection, once : BOOLEAN, named : BOOLEAN,
                   commons : Seq(Common)] : s.init <= s.size}
Option  == [target : {"elf", "aout", "hunk"}, gc : {"none", "empty", "all"}, start : Int,
            small_code : BOOLEAN, small_data : BOOLEAN, multibase : BOOLEAN, merge_all : BOOLEAN,
            merge_same_type : BOOLEAN, merge_same_attr : BOOLEAN, auto_merge : BOOLEAN,
            dest_object : BOOLEAN, keep_sect_order : BOOLEAN, baseincr : BOOLEAN]

\* The entry of a program must be in a section with code (error 132), when it
\* has no symbol that names it.  No base-relative reference is made to a common
\* symbol: linker_relrefs() would move the symbol to a section .scommon.
ASSUME LinkMergeAssumption ==
  \A p \in Programs :
    /\ p.secs \in Seq(Section) /\ p.opt \in Option
    /\ p.refs \subseteq {r \in [from : DOMAIN p.secs, to : DOMAIN p.secs, sym : Nat,
                               kind : {"abs", "pc", "sd"}] :
                     r.sym <= Len(p.secs[r.to].commons) /\ (r.kind = "sd" => r.sym = 0)}
    /\ p.prot \subseteq DOMAIN p.secs
    /\ p.opt.gc = "all" => \E s \in DOMAIN p.secs : p.secs[s].type = CODE

VARIABLES
  prog,      \* the input
  phase,     \* the function that runs
  small,     \* sections with SF_SMALLDATA
  referenced,\* sections with SF_REFERENCED
  selected,  \* sections still in the lists of their object units
  seclist,   \* the list that merge_seclist() works on
  pos,       \* its place in the list
  create_allowed,
  stype,     \* the section type being merged
  lnksec,    \* gv->lnksec, the output sections
  nsecs,     \* gv->nsecs
  va,        \* the address of the next output section
  place,     \* offset and size of the sections, and of their commons
  value      \* of the references in the output: an offset in an output section

vars == <<prog, phase, small, referenced, selected, seclist, pos, create_allowed, stype,
          lnksec, nsecs, va, place, value>>

sec(s) == prog.secs[s]
Secs == DOMAIN prog.secs
refs == prog.refs           \* [from, to, sym, kind]: sym 0 is the start of the
opt  == prog.opt            \* section, sym i its i-th common symbol

Unresolved == [against |-> -2, addend |-> 0]   \* a reference left in the output

Bss(s) == sec(s).type = UDATA           \* has SF_UNINITIALIZED
IsCommon(s) == sec(s).name = COMMON     \* is_common_sec()

\* align() and comalign(): the bytes up to the next multiple of a.
Pad(addr, a) == (-addr) % a

\* The elements of a list that are in a set, in their order.
Only(list, S) ==
  LET only[n \in 0 .. Len(list)] ==
        IF n = 0 THEN <<>>
        ELSE IF list[n] \in S THEN Append(only[n - 1], list[n]) ELSE only[n - 1]
  IN  only[Len(list)]

----------------------------------------------------------------------------
(* Output sections.                                                        *)

create_lnksect(s) ==
  [index |-> nsecs, name |-> sec(s).name, type |-> sec(s).type, uninit |-> Bss(s),
   protection |-> sec(s).protection, small |-> s \in small, once |-> sec(s).once,
   align |-> sec(s).align,
   sections |-> <<>>, base |-> 0, size |-> 0, filesize |-> 0, linked |-> TRUE]

\* One after the other for all sections of a set: the order makes no difference.
merge_sec_attrs(ls, S) ==
  [ls EXCEPT !.type  = IF @ = UDATA /\ \E s \in S : sec(s).type = DATA THEN DATA ELSE @,
             !.small = @ \/ \E s \in S : s \in small,
             !.once  = @ \/ \E s \in S : sec(s).once,
             !.align = Max({@} \cup {sec(s).align : s \in S}),
             !.protection = @ \cup UNION {sec(s).protection : s \in S}]

\* What the target says of merging a section: 1 it must, -1 it must not.
targetlink(ls, s) ==
  CASE opt.target = "aout" -> IF ls.type = sec(s).type THEN 1 ELSE 0
    [] opt.target = "hunk" ->
         LET smallOption == (opt.small_code /\ sec(s).type = CODE)
                            \/ (opt.small_data /\ sec(s).type \in {DATA, UDATA})
         IN  IF ~smallOption /\ ls.name = "" /\ sec(s).name = "" THEN -1
             ELSE IF sec(s).name = "_NOMERGE" THEN -1
             ELSE IF ls.name = "__MERGED" /\ sec(s).name = "__MERGED" THEN 1 ELSE 0
    [] OTHER -> 0

\* PC-relative references between two sections; addrelref() for a section.
RelRefs(s, t) == \E r \in refs : r.kind = "pc" /\ r.from = s /\ r.to = t /\ s # t
checkrelrefs(ls, s) ==
  \E i \in DOMAIN ls.sections : RelRefs(ls.sections[i], s) \/ RelRefs(s, ls.sections[i])

\* The reasons for which get_matching_lnksec() merges a section with ls.
MergeForExecutable(ls, s) ==
  \/ opt.small_code /\ ls.type = CODE /\ sec(s).type = CODE
  \/ opt.small_data /\ ls.type \in {DATA, UDATA} /\ sec(s).type \in {DATA, UDATA}
  \/ ~opt.multibase /\ ls.small /\ s \in small
sec_same_attr(ls, s) == ls.protection = sec(s).protection /\ (ls.small <=> s \in small)
MergeByOption(ls, s) ==
  \/ opt.merge_all
  \/ opt.merge_same_type /\ ls.type = sec(s).type
  \/ opt.merge_same_attr /\ sec_same_attr(ls, s)
  \/ opt.auto_merge /\ checkrelrefs(ls, s)
MergeByName(ls, s) ==
  \/ ls.type = sec(s).type /\ (sec(s).name = "" \/ sec(s).name = ls.name)
  \/ ~opt.dest_object /\ IsCommon(s) /\ ls.type = UDATA /\ ls.uninit
Empty(s) == sec(s).name = "" /\ sec(s).size = 0    \* joins any output section

\* One round of the loop of get_matching_lnksec(): does ls match?  The round
\* of two link-once sections never ends, as it does not go on to the next.
Match(ls, s, myls) ==
  LET tl == IF opt.dest_object THEN 0 ELSE targetlink(ls, s)
  IN  CASE ls.index = myls -> "no"
        [] ls.index # myls /\ ls.once /\ sec(s).once -> "spin"
        [] ls.index # myls /\ ~(ls.once /\ sec(s).once) ->
             IF tl > 0 THEN "merge"
             ELSE IF tl = 0 /\ (\/ ~opt.dest_object /\ MergeForExecutable(ls, s)
                                \/ MergeByOption(ls, s)
                                \/ myls = -1 /\ MergeByName(ls, s))
             THEN "merge"
             ELSE IF tl = 0 /\ myls = -1 /\ Empty(s) THEN "join" ELSE "no"

\* The place of the first output section that matches, 0 when none does.
get_matching_lnksec(s, myls) ==
  LET hits == {i \in DOMAIN lnksec : Match(lnksec[i], s, myls) # "no"}
  IN  IF hits = {} THEN 0 ELSE Min(hits)

----------------------------------------------------------------------------
(* References and garbage collection.                                      *)

Init ==
  /\ prog \in Programs
  /\ phase = "relrefs"
  /\ small = {} /\ referenced = {} /\ selected = DOMAIN prog.secs
  /\ seclist = <<>> /\ pos = 1 /\ create_allowed = TRUE /\ stype = 0
  /\ lnksec = <<>> /\ nsecs = 0 /\ va = prog.opt.start
  /\ place = [s \in DOMAIN prog.secs |-> [offset |-> 0, size |-> prog.secs[s].size, commons |-> <<>>]]
  /\ value = [r \in prog.refs |-> Unresolved]

\* Base-relative references make their targets small data.
Relrefs ==
  /\ phase = "relrefs" /\ phase' = "sectrefs"
  /\ small' = {r.to : r \in {q \in refs : q.kind = "sd"}}
  /\ UNCHANGED <<prog, referenced, selected, seclist, pos, create_allowed, stype, lnksec,
                 nsecs, va, place, value>>

\* Mutant: what the referenced sections refer to is not looked at.
RefSections_MutOneLevel(from) == from \cup {r.to : r \in {q \in refs : q.from \in from}}

\* ref_section(): everything that can be reached from the sections.
RefSections(from) ==
  LET reach[n \in 0 .. Cardinality(Secs)] ==
        IF n = 0 THEN from
        ELSE reach[n - 1] \cup {r.to : r \in {q \in refs : q.from \in reach[n - 1]}}
  IN  reach[Cardinality(Secs)]

\* entry_section(), when the program has no symbol _start.
entry_section == Min({s \in Secs : sec(s).type = CODE})

linker_sectrefs ==
  /\ phase = "sectrefs" /\ phase' = "gcsects"
  /\ referenced' =
       CASE opt.gc = "none" \/ opt.dest_object -> {}
         [] opt.gc = "empty" /\ ~opt.dest_object -> {r.to : r \in refs} \cup RefSections(prog.prot)
         [] opt.gc = "all" /\ ~opt.dest_object -> RefSections({entry_section} \cup prog.prot)
  /\ UNCHANGED <<prog, small, selected, seclist, pos, create_allowed, stype, lnksec, nsecs,
                 va, place, value>>

linker_gcsects ==
  /\ phase = "gcsects" /\ phase' = "collect"
  /\ selected' =
       CASE opt.gc = "none" \/ opt.dest_object -> selected
         [] opt.gc = "empty" /\ ~opt.dest_object -> {s \in selected : s \in referenced \/ sec(s).size > 0}
         [] opt.gc = "all" /\ ~opt.dest_object -> selected \cap referenced
  /\ UNCHANGED <<prog, small, referenced, seclist, pos, create_allowed, stype, lnksec, nsecs,
                 va, place, value>>

----------------------------------------------------------------------------
(* linker_merge().                                                         *)

\* The sections of the next type, or all of them, in the order of the units.
Collect ==
  /\ phase = "collect"
  /\ \E now \in {IF opt.keep_sect_order THEN selected ELSE {s \in selected : sec(s).type = stype}} :
         /\ seclist' = Only([i \in Secs |-> i], now)
         /\ selected' = selected \ now
  /\ pos' = 1 /\ create_allowed' = TRUE
  /\ phase' = "merge"
  /\ UNCHANGED <<prog, small, referenced, stype, lnksec, nsecs, va, place, value>>

\* One round of the inner loop of merge_seclist().
MergeSection ==
  /\ phase = "merge" /\ pos <= Len(seclist)
  /\ \E s \in {seclist[pos]} : \E i \in {get_matching_lnksec(s, -1)} :
       LET attach(ls) == [ls EXCEPT !.sections = Append(@, s)]
       IN  CASE i # 0 /\ Match(lnksec[i], s, -1) \in {"merge", "join"} ->
                /\ lnksec' = [lnksec EXCEPT ![i] = attach(IF Match(@, s, -1) = "join" THEN @
                                                          ELSE merge_sec_attrs(@, {s}))]
                /\ seclist' = RemoveAt(seclist, pos)
                /\ UNCHANGED <<phase, pos, nsecs, create_allowed>>
           [] i # 0 /\ Match(lnksec[i], s, -1) = "spin" ->
                /\ phase' = "spin"
                /\ UNCHANGED <<lnksec, seclist, pos, nsecs, create_allowed>>
           [] i = 0 /\ create_allowed ->
                /\ lnksec' = Append(lnksec, attach(create_lnksect(s)))
                /\ seclist' = RemoveAt(seclist, pos)
                /\ nsecs' = nsecs + 1 /\ create_allowed' = FALSE
                /\ UNCHANGED <<phase, pos>>
           [] i = 0 /\ ~create_allowed ->
                /\ pos' = pos + 1
                /\ UNCHANGED <<phase, lnksec, seclist, nsecs, create_allowed>>
  /\ UNCHANGED <<prog, small, referenced, selected, stype, va, place, value>>

\* Mutant: no output section is created after the first round.
MergeRound_MutCreateOnce ==
  /\ phase = "merge" /\ pos > Len(seclist)
  /\ IF seclist # <<>>
     THEN pos' = 1 /\ UNCHANGED <<create_allowed, phase, stype>>
     ELSE /\ UNCHANGED <<pos, create_allowed>>
          /\ IF opt.keep_sect_order \/ stype = UDATA
             THEN phase' = "dependencies" /\ UNCHANGED stype
             ELSE phase' = "collect" /\ stype' = stype + 1
  /\ UNCHANGED <<prog, small, referenced, selected, seclist, lnksec, nsecs, va, place, value>>

\* The end of the list: another round, or the next type of sections.
MergeRound ==
  /\ phase = "merge" /\ pos > Len(seclist)
  /\ IF seclist # <<>>
     THEN pos' = 1 /\ create_allowed' = TRUE /\ UNCHANGED <<phase, stype>>
     ELSE /\ UNCHANGED <<pos, create_allowed>>
          /\ IF opt.keep_sect_order \/ stype = UDATA
             THEN phase' = "dependencies" /\ UNCHANGED stype
             ELSE phase' = "collect" /\ stype' = stype + 1
  /\ UNCHANGED <<prog, small, referenced, selected, seclist, lnksec, nsecs, va, place, value>>

\* Phase 2: the places <<i, k>> of the sections that fit into another output
\* section than theirs.
Dependencies ==
  {d \in UNION {{<<i, k>> : k \in DOMAIN lnksec[i].sections} : i \in DOMAIN lnksec} :
     get_matching_lnksec(lnksec[d[1]].sections[d[2]], lnksec[d[1]].index) # 0}

\* The sections of the newer output section go behind those of the older one;
\* when this has sections without contents, the others go before its first.
Joined(kept, moved) ==
  LET bss   == {k \in DOMAIN kept : Bss(kept[k])}
      first == Min(bss)
      full  == Only(moved, {s \in Secs : ~Bss(s)})
      empty == Only(moved, {s \in Secs : Bss(s)})
  IN  IF bss = {} THEN kept \o moved
      ELSE (SubSeq(kept, 1, first - 1) \o full) \o (SubSeq(kept, first, Len(kept)) \o empty)

MergeLinked(i, j) ==
  LET old == IF lnksec[i].index < lnksec[j].index THEN i ELSE j
      new == IF old = i THEN j ELSE i
      moved == lnksec[new].sections
      merged == [merge_sec_attrs(lnksec[old], Range(moved)) EXCEPT !.sections = Joined(@, moved)]
  IN  RemoveAt([lnksec EXCEPT ![old] = merged], new)

\* The first of them.
Dependency == CHOOSE d \in Dependencies :
                \A e \in Dependencies : d[1] < e[1] \/ (d[1] = e[1] /\ d[2] <= e[2])

\* Mutant: the output sections are not looked at again after they are made.
ResolveDependencies_MutNone ==
  /\ phase = "dependencies" /\ phase' = "layout" /\ pos' = 1
  /\ UNCHANGED <<prog, small, referenced, selected, seclist, create_allowed, stype, lnksec, nsecs,
                 va, place, value>>

ResolveDependencies ==
  /\ phase = "dependencies"
  /\ IF Dependencies = {}
     THEN phase' = "layout" /\ pos' = 1 /\ UNCHANGED lnksec
     ELSE \E d \in {Dependency} : \E s \in {lnksec[d[1]].sections[d[2]]} :
          \E j \in {get_matching_lnksec(s, lnksec[d[1]].index)} :
            /\ IF Match(lnksec[j], s, lnksec[d[1]].index) = "spin"
               THEN phase' = "spin" /\ UNCHANGED lnksec
               ELSE (\E merged \in {MergeLinked(d[1], j)} : lnksec' = merged) /\ UNCHANGED phase
            /\ UNCHANGED pos
  /\ UNCHANGED <<prog, small, referenced, selected, seclist, create_allowed, stype, nsecs, va,
                 place, value>>

\* Mutant: every symbol starts at the end of the section.
allocate_common_MutSameStart(s, addr, secva) ==
  LET coms == sec(s).commons
      alloc[n \in 0 .. Len(coms)] ==
        IF n = 0 THEN [bytes |-> 0, offsets |-> <<>>]
        ELSE [bytes |-> alloc[n - 1].bytes + Pad(addr + alloc[n - 1].bytes, coms[n].align) + coms[n].size,
              offsets |-> Append(alloc[n - 1].offsets, addr + Pad(addr, coms[n].align) - secva)]
  IN  alloc[Len(coms)]

\* The next common symbol, when addr is the first free address behind those of
\* a section at secva.
NextCommon(alloc, c, addr, secva) ==
  LET free == addr + alloc.bytes
      pad  == Pad(free, c.align)
  IN  [bytes |-> alloc.bytes + pad + c.size, offsets |-> Append(alloc.offsets, free + pad - secva)]

\* allocate_common(): the commons of section s from an address on, as offsets
\* in the section, and the bytes they take.
allocate_common(s, addr, secva) ==
  LET coms == sec(s).commons
      alloc[n \in 0 .. Len(coms)] ==
        IF n = 0 THEN [bytes |-> 0, offsets |-> <<>>] ELSE NextCommon(alloc[n - 1], coms[n], addr, secva)
  IN  alloc[Len(coms)]

\* The place of section s behind those that are placed in the output section.
PlaceSection(placed, s) ==
  LET pad    == Pad(va + placed.size, sec(s).align)
      offset == placed.size + pad
      end    == offset + sec(s).size
      com    == IF IsCommon(s) /\ ~opt.dest_object
                THEN allocate_common(s, va + end, va + offset)
                ELSE [bytes |-> 0, offsets |-> <<>>]
  IN  [size |-> end + com.bytes,
       filesize |-> IF Bss(s) THEN placed.filesize ELSE placed.filesize + sec(s).size + pad,
       place |-> [placed.place EXCEPT ![s] = [offset |-> offset, size |-> sec(s).size + com.bytes,
                                              commons |-> com.offsets]]]

\* Phase 3: the places of the sections of one output section.
PlaceSections(ls) ==
  LET placed[n \in 0 .. Len(ls.sections)] ==
        IF n = 0 THEN [size |-> 0, filesize |-> 0, place |-> place]
        ELSE PlaceSection(placed[n - 1], ls.sections[n])
  IN  placed[Len(ls.sections)]

\* The sections of an output section with contents.
Full(ls) == Only(ls.sections, {s \in Secs : ~Bss(s)})

\* Mutant: the place of the last section is forgotten.
Trimmed_MutNoOffset(ls, placed) ==
  IF opt.dest_object \/ Full(ls) = <<>> THEN placed.filesize ELSE sec(Last(Full(ls))).init

\* trim_sections(): zeros at the end of the last section with contents are not
\* written to an executable.
Trimmed(ls, placed) ==
  IF opt.dest_object \/ Full(ls) = <<>> THEN placed.filesize
  ELSE placed.place[Last(Full(ls))].offset + sec(Last(Full(ls))).init

Layout ==
  /\ phase = "layout" /\ pos <= Len(lnksec)
  /\ \E p \in {PlaceSections(lnksec[pos])} :
         /\ lnksec' = [lnksec EXCEPT ![pos].base = va, ![pos].size = p.size,
                                     ![pos].filesize = Trimmed(lnksec[pos], p)]
         /\ place' = p.place
         /\ va' = IF opt.baseincr THEN va + p.size ELSE va
  /\ pos' = pos + 1
  /\ UNCHANGED <<prog, phase, small, referenced, selected, seclist, create_allowed, stype, nsecs, value>>

----------------------------------------------------------------------------
(* linker_copy(), linker_delunused() and linker_relocate().                *)

\* An output section stays when it has contents or linker_copy() found symbols
\* of it.  Its relocations are still with the input sections.
Needed(ls) == ls.size > 0 \/ \E k \in DOMAIN ls.sections : sec(ls.sections[k]).named

\* The common symbols of a section that is removed should go to the first one
\* that stays: an internal error ends the program when there is none before it,
\* though a section that is removed has no symbols.
NoOtherSection == \E i \in DOMAIN lnksec :
                    /\ lnksec[i].name = COMMON
                    /\ \A j \in 1 .. i : ~Needed(lnksec[j])

\* Mutant: the output sections that stay keep their numbers.
linker_delunused_MutNoReindex ==
  /\ phase = "layout" /\ pos > Len(lnksec)
  /\ phase' = IF NoOtherSection THEN "ierror" ELSE "relocate"
  /\ lnksec' = [i \in DOMAIN lnksec |-> [lnksec[i] EXCEPT !.linked = Needed(lnksec[i])]]
  /\ nsecs' = Cardinality({i \in DOMAIN lnksec : Needed(lnksec[i])})
  /\ UNCHANGED <<prog, small, referenced, selected, seclist, pos, create_allowed, stype, va, place, value>>

\* The others leave gv->lnksec, still known to their input sections, and the
\* rest is numbered again.
linker_delunused ==
  /\ phase = "layout" /\ pos > Len(lnksec)
  /\ phase' = IF NoOtherSection THEN "ierror" ELSE "relocate"
  /\ lnksec' = [i \in DOMAIN lnksec |->
       [lnksec[i] EXCEPT !.linked = Needed(lnksec[i]),
                         !.index  = IF Needed(lnksec[i])
                                    THEN Cardinality({j \in 1 .. i - 1 : Needed(lnksec[j])}) ELSE @]]
  /\ nsecs' = Cardinality({i \in DOMAIN lnksec : Needed(lnksec[i])})
  /\ UNCHANGED <<prog, small, referenced, selected, seclist, pos, create_allowed, stype, va, place, value>>

In(s, i) == s \in Range(lnksec[i].sections)
LnkSecOf(s) == IF \E i \in DOMAIN lnksec : In(s, i) THEN CHOOSE i \in DOMAIN lnksec : In(s, i) ELSE 0
Placed(s) == LnkSecOf(s) # 0
SecVa(s) == lnksec[LnkSecOf(s)].base + place[s].offset

\* The value of the symbol that a reference is made to, once linker_copy() has
\* added the address of its section.
SymbolValue(r) == SecVa(r.to) + (IF r.sym = 0 THEN 0 ELSE place[r.to].commons[r.sym])

\* A reference in the output: the value written, or the addend of a relocation
\* which is left to the target format, with the output section it is against.
Relocated(r) ==
  LET ls == lnksec[LnkSecOf(r.from)]
      refls == lnksec[LnkSecOf(r.to)]
      offset == place[r.from].offset
      keep == [against |-> refls.index, addend |-> SymbolValue(r) - refls.base]
  IN  CASE r.kind = "pc" /\ refls.index = ls.index ->
             [against |-> -1, addend |-> SymbolValue(r) - (ls.base + offset)]
        [] r.kind = "sd" /\ ~opt.dest_object ->
             [against |-> -1, addend |-> SymbolValue(r)]    \* less _SDA_BASE_
        [] OTHER -> keep

Relocate ==
  /\ phase = "relocate"
  /\ phase' = "done"
  /\ \E written \in {[r \in refs |->
                 IF Placed(r.from) /\ Placed(r.to) /\ (r.sym # 0 => ~opt.dest_object)
                 THEN Relocated(r) ELSE Unresolved]} : value' = written
  /\ UNCHANGED <<prog, small, referenced, selected, seclist, pos, create_allowed, stype, lnksec,
                 nsecs, va, place>>

\* Everything before the addresses are known.
Merge == \/ Relrefs \/ linker_sectrefs \/ linker_gcsects
         \/ Collect \/ MergeSection \/ MergeRound \/ ResolveDependencies
Next == Merge \/ Layout \/ linker_delunused \/ Relocate

Spec == Init /\ [][Next]_vars /\ WF_vars(Merge)

----------------------------------------------------------------------------
(* Properties.                                                             *)

\* What garbage collection took away.
Removed == Secs \ (selected \cup Range(seclist) \cup UNION {Range(ls.sections) : ls \in Range(lnksec)})

\* No section is lost or linked twice while the lists are taken apart and the
\* output sections are merged with one another.
Partition ==
  /\ \A i, j \in DOMAIN lnksec : \A k \in DOMAIN lnksec[i].sections, m \in DOMAIN lnksec[j].sections :
       lnksec[i].sections[k] = lnksec[j].sections[m] => i = j /\ k = m
  /\ phase \in {"dependencies", "layout", "relocate", "done"} =>
       \A s \in Secs : opt.gc = "none" \/ opt.dest_object \/ s \in referenced => LnkSecOf(s) # 0

\* The addresses that a section takes, and a common symbol of it.
Bytes(from, size) == from .. from + size - 1
SecBytes(s) == Bytes(SecVa(s), sec(s).size)
CommonBytes(s, k) == Bytes(SecVa(s) + place[s].commons[k], sec(s).commons[k].size)
AllBytes(s) == {<<0, SecBytes(s)>>} \cup {<<k, CommonBytes(s, k)>> : k \in DOMAIN place[s].commons}

\* What is placed in one output section does not overlap, the common symbols
\* allocated behind their section included; nothing overlaps where the
\* addresses of the output sections follow one another.
NoOverlap ==
  \A s, t \in {u \in Secs : Placed(u)} : \A b \in AllBytes(s), c \in AllBytes(t) :
    (/\ <<s, b[1]>> # <<t, c[1]>>
     /\ opt.baseincr \/ LnkSecOf(s) = LnkSecOf(t))
    => b[2] \cap c[2] = {}

\* Sections and common symbols are aligned as they ask for, and inside their
\* output section, which is aligned as its sections need it when it is loaded
\* elsewhere.
Aligned ==
  \A s \in Secs : Placed(s) =>
    LET ls == lnksec[LnkSecOf(s)]
    IN  /\ SecVa(s) % sec(s).align = 0
        /\ sec(s).name # "" \/ sec(s).size > 0 => ls.align >= sec(s).align
        /\ place[s].offset + place[s].size <= ls.size
        /\ \A k \in DOMAIN place[s].commons :
             (SecVa(s) + place[s].commons[k]) % sec(s).commons[k].align = 0

\* Every section has one place in the output, as Partition, NoOverlap and Aligned
\* say.
Arranged == Partition /\ (phase = "done" => NoOverlap /\ Aligned)

\* The contents of a section are written: they lie in the part of the output
\* section that goes to the file, and the output section has contents.  With
\* keep_sect_order a section without contents may come first.
InitialisedWritten ==
  phase = "done" =>
    \A s \in Secs : (Placed(s) /\ ~Bss(s) /\ sec(s).init > 0 /\ ~opt.keep_sect_order) =>
      LET ls == lnksec[LnkSecOf(s)]
      IN  ~ls.uninit /\ place[s].offset + sec(s).init <= ls.filesize

\* Whatever a section of the output refers to is in the output, after garbage
\* collection; and with -gc-all nothing else is.
GcClosed ==
  phase \in {"collect", "done"} =>
    /\ \A r \in refs : r.from \notin Removed => r.to \notin Removed
    /\ (opt.gc = "all" /\ ~opt.dest_object) =>
         \A s \in Secs \ Removed : s = entry_section \/ s \in prog.prot
                                   \/ \E r \in refs : r.to = s /\ r.from \notin Removed

\* With auto_merge the sections of a PC-relative reference end up in the same
\* output section: the loader need not resolve it.  Common symbols are left to
\* the next link when the output is an object.
PcInOneSection ==
  (phase = "done" /\ opt.auto_merge /\ opt.target # "hunk") =>
    \A r \in refs : (r.kind = "pc" /\ Placed(r.from) /\ (r.sym # 0 => ~opt.dest_object))
                      => value[r].against = -1

\* Base-relative references are resolved against one output section: the small
\* data sections that have contents are not scattered.  The hunk format never
\* merges sections without a name, unless told so; a base-relative reference to
\* code is reported (error 121), and a section named _NOMERGE is left alone.
\* With multibase they are not merged for that.
SmallDataInOne ==
  (phase = "done" /\ ~opt.dest_object /\ ~opt.multibase /\ (opt.target = "hunk" => opt.small_data)) =>
    \A r, q \in refs :
      (/\ r.kind = "sd" /\ q.kind = "sd" /\ Placed(r.to) /\ Placed(q.to)
       /\ \A x \in {r, q} : /\ sec(x.to).size > 0 /\ sec(x.to).type # CODE
                            /\ opt.target = "hunk" => sec(x.to).name # "_NOMERGE")
      => LnkSecOf(r.to) = LnkSecOf(q.to)

\* What the code expects to find in one output section is.
InOneSection == PcInOneSection /\ SmallDataInOne

\* The sections that are written, in their order; a relocation that is left to
\* the target format gives the place of its target's in them.
Output == Only(lnksec, {ls \in Range(lnksec) : ls.linked})
AgainstTarget(r) == /\ value[r].against + 1 \in DOMAIN Output
                    /\ r.to \in Range(Output[value[r].against + 1].sections)

\* The relocations of the output number the output sections as they are written,
\* when the section they are against is one of those.
RelocsNameTheirSection ==
  phase = "done" =>
    \A r \in refs : (value[r].against >= 0 /\ lnksec[LnkSecOf(r.to)].linked) => AgainstTarget(r)

\* "No other section before COMMON section?" (linker.c:2149): linker_delunused() takes it
\* for impossible that none stays before one for common symbols that is removed.  It is
\* possible: TLC refutes this, and no run has it.
SectionBeforeCommon == phase # "ierror"

\* Merging ends: the rounds over the list, which create at most one output
\* section each, and the search for output sections that fit together, which
\* starts again after every merge; but for link-once sections.
Merges == (\A s \in Secs : ~sec(s).once) => <>(phase = "layout")
=============================================================================
