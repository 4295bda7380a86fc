-------------------------------- MODULE Vobj --------------------------------
(***************************************************************************)
(* An object file on its way: from the assembled sections and symbols       *)
(* (fix_labels() of vasm.c) through vasm's writer (output_vobj.c), vlink's  *)
(* reader, vlink's own writer for -r and the reader again (t_vobj.c).       *)
(*                                                                         *)
(* The file is a sequence of tokens, a byte or a zero-terminated string;    *)
(* its identification and cpu name are left out.  A target byte is a byte,  *)
(* and the highest one of a field comes first, as on the 68000.             *)
(***************************************************************************)
EXTENDS Integers, FiniteSets, FiniteSetsExt, SequencesExt

CONSTANTS
  Programs,  \* what was assembled: sections and symbols
  Versions,  \* subset of {0, 1}: 1 with the option -vobj2
  W,         \* sizeof(taddr) of vasm, and bytespertaddr
  L          \* sizeof(taddr) of vlink

LABSYM     == 1     \* symbol types
IMPORT     == 2
EXPRESSION == 3
STRSYM     == 4
EXPORT       == 8   \* symbol flags
TYPE_SECTION == 3
REL_MOD_S == 32     \* modifiers of a relocation type
REL_MOD_U == 64

VARIABLES
  prog,     \* the input
  version,  \* of the format
  stage,    \* the function that runs
  syms,     \* vasm's symbols, as fix_labels() leaves them
  file,     \* what has been written
  k,        \* the symbol or section that is written or read next
  p,        \* the reader's place in the file
  nsecs, nsyms, vsyms,  \* what the reader knows of the object
  obj,      \* the object unit it makes
  pass      \* 1 reads vasm's file, 2 vlink's

vars == <<prog, version, stage, syms, file, k, p, nsecs, nsyms, vsyms, obj, pass>>

Secs == prog.secs

----------------------------------------------------------------------------
(* Numbers and strings.                                                    *)

Byte(v, i) == (v \div 256 ^ (i - 1)) % 256    \* the i-th from below
Little(b) == FoldRight(LAMBDA x, acc : x + 256 * acc, b, 0)
Big(b) == FoldLeft(LAMBDA acc, x : 256 * acc + x, 0, b)
sign_extend(v, n) == IF (v \div 2 ^ (n - 1)) % 2 = 1 THEN (v % 2 ^ n) - 2 ^ n ELSE v

\* A number of so many bytes.  The second version leaves out the zeros or ones
\* on top.
write_number(v, size) ==
  LET LastNot(b) == Max({1} \cup {i \in 1 .. size : Byte(v, i) # b})
      s == IF version = 0 THEN size ELSE LastNot(0)
      u == IF version = 0 THEN size ELSE LastNot(255)
      Bytes(n) == [i \in 1 .. n |-> Byte(v, i)]
  IN  CASE v \in 0 .. 127 -> <<v>>
        [] v \notin 0 .. 127 /\ u < s  -> <<192 + u>> \o Bytes(u)
        [] v \notin 0 .. 127 /\ u >= s -> <<128 + s>> \o Bytes(s)

Raw(bytes) == [i \in DOMAIN bytes |-> <<"byte", bytes[i]>>]
Numbers(vs, size) == FoldLeft(LAMBDA out, v : out \o Raw(write_number(v, size)), <<>>, vs)
String(s) == <<<<"string", s>>>>

\* What the bytes behind the length mean; signed numbers have the width of an
\* address.
read_number(bytes, ones, signed) ==
  IF ones THEN Little(bytes) - 256 ^ Len(bytes)
  ELSE IF signed THEN sign_extend(Little(bytes), 8 * W) ELSE Little(bytes)

IsByte(i) == i \in DOMAIN file /\ file[i][1] = "byte"

\* Reads a list of fields from place i on: "string", "unsigned" or "signed".
\* It is lost when it meets a string for a number, or the end of the file.
Field(acc, kind) ==
  LET n == file[acc.p][2]
      len == IF n <= 127 THEN 0 ELSE IF n >= 192 THEN n - 192 ELSE n - 128
      bytes == [i \in 1 .. len |-> file[acc.p + i][2]]
      lost == [acc EXCEPT !.ok = FALSE]
  IN  IF ~acc.ok \/ acc.p > Len(file) THEN lost
      ELSE IF kind = "string"
      THEN IF IsByte(acc.p) THEN lost ELSE [acc EXCEPT !.v = Append(@, n), !.p = @ + 1]
      ELSE IF \E i \in acc.p .. acc.p + (IF IsByte(acc.p) THEN len ELSE 0) : ~IsByte(i) THEN lost
      ELSE [acc EXCEPT !.v = Append(@, IF n <= 127 THEN n ELSE read_number(bytes, n >= 192, kind = "signed")),
                       !.p = @ + 1 + len]
Read(i, kinds) == FoldLeft(Field, [v |-> <<>>, p |-> i, ok |-> TRUE], kinds)

----------------------------------------------------------------------------
(* vasm: fix_labels() and write_output().                                  *)

\* Mutant: equates of a label keep the address of the label.
Fixed_MutNoOffset(s) ==
  LET base == prog.syms[s.base]
  IN  CASE s.type = LABSYM /\ s.abslabel -> [s EXCEPT !.type = EXPRESSION, !.sec = 0, !.off = s.pc]
        [] s.type = EXPRESSION /\ s.base # 0 /\ ~base.abslabel ->
             [s EXCEPT !.type = base.type, !.sec = base.sec, !.pc = base.pc]
        [] OTHER -> s

\* Labels of an absolute section become numbers, and equates of a label become
\* labels.
Fixed(s) ==
  LET base == prog.syms[s.base]
  IN  CASE s.type = LABSYM /\ s.abslabel -> [s EXCEPT !.type = EXPRESSION, !.sec = 0, !.off = s.pc]
        [] s.type = EXPRESSION /\ s.base # 0 /\ ~base.abslabel ->
             [s EXCEPT !.type = base.type, !.sec = base.sec, !.pc = base.pc + s.off]
        [] OTHER -> s

fix_labels ==
  /\ stage = "fix" /\ stage' = "header"
  /\ syms' = [i \in DOMAIN prog.syms |-> Fixed(prog.syms[i])]
  /\ UNCHANGED <<prog, version, file, k, p, nsecs, nsyms, vsyms, obj, pass>>

\* Temporary and internal symbols are not written.  The sections come first,
\* each with a symbol of its own.
sym_valid(s) == ~s.internal
Valid == {i \in DOMAIN syms : sym_valid(syms[i])}
SymIdx(i) == Len(Secs) + Cardinality({j \in Valid : j <= i})

\* Mutant: a temporary label is not replaced by its section.
get_nreloc_sym_idx_MutNext(i) == SymIdx(i)

get_nreloc_sym_idx(i) == IF i \in Valid THEN SymIdx(i) ELSE syms[i].sec

get_sym_value(s) ==
  CASE s.type = LABSYM -> s.pc
    [] s.type \in {EXPRESSION, STRSYM} -> s.off + (IF s.base = 0 THEN 0 ELSE prog.syms[s.base].pc)
    [] OTHER -> 0

\* Sections and symbols share the loop of the source; a string symbol is
\* written as a label.
SymbolFields(s) ==
  <<IF s.type = STRSYM THEN LABSYM ELSE s.type, s.flags, s.sec, get_sym_value(s), 0>>
WriteHeader ==
  /\ stage = "header" /\ stage' = "symbols" /\ k' = 1
  /\ file' = FoldLeftDomain(LAMBDA out, i : out \o String(Secs[i].name)
                                                \o Numbers(<<LABSYM, TYPE_SECTION, i, 0, 0>>, W),
                            Numbers(<<Len(Secs), Len(Secs) + Cardinality(Valid)>>, W), Secs)
  /\ UNCHANGED <<prog, version, syms, p, nsecs, nsyms, vsyms, obj, pass>>

WriteSymbol ==
  /\ stage = "symbols"
  /\ IF k > Len(syms) THEN stage' = "sections" /\ k' = 1 /\ UNCHANGED file
     ELSE /\ file' = IF k \in Valid THEN file \o String(syms[k].name) \o Numbers(SymbolFields(syms[k]), W)
                     ELSE file
          /\ k' = k + 1 /\ UNCHANGED stage
  /\ UNCHANGED <<prog, version, syms, p, nsecs, nsyms, vsyms, obj, pass>>

\* An atom: where it starts, and the bytes before and in it.  A space atom
\* without elements only aligns.
pcalign(a, pc) == pc + ((-pc) % a.align)
Padding(s, a, pc) ==
  [i \in 1 .. pcalign(a, pc) - pc |-> IF a.type = "SPACE" /\ a.octets = <<>> THEN a.fill ELSE s.pad]
atom_size(a) == Len(a.octets)

get_section_sizes(s) ==
  FoldLeft(LAMBDA acc, a :
             LET end == pcalign(a, acc.size) + atom_size(a)
                 nrelocs == Len(a.relocs)
             IN  [size |-> end, nrelocs |-> acc.nrelocs + nrelocs,
                  data |-> IF a.type = "DATA" \/ (a.type = "SPACE" /\ (nrelocs > 0 \/ a.fill # 0))
                           THEN end ELSE acc.data],
           [size |-> 0, nrelocs |-> 0, data |-> 0], s.atoms)

\* The atoms up to the last data.
write_data(s, data) ==
  FoldLeft(LAMBDA acc, a :
             IF acc.pc >= data THEN acc
             ELSE [pc |-> pcalign(a, acc.pc) + atom_size(a),
                   out |-> acc.out \o Padding(s, a, acc.pc) \o a.octets],
           [pc |-> 0, out |-> <<>>], s.atoms).out

write_rlist(a, pc) ==
  FoldLeft(LAMBDA out, r : out \o Numbers(<<r.type, pc + r.byteoffset, r.bitoffset, r.size, r.mask,
                                            r.addend, get_nreloc_sym_idx(r.sym)>>, W),
           <<>>, a.relocs)
write_relocs(s) ==
  FoldLeft(LAMBDA acc, a : LET pc == pcalign(a, acc.pc)
                           IN  [pc |-> pc + atom_size(a), out |-> acc.out \o write_rlist(a, pc)],
           [pc |-> 0, out |-> <<>>], s.atoms).out

WriteSection ==
  /\ stage = "sections"
  /\ IF k > Len(Secs) THEN stage' = "read" /\ UNCHANGED <<file, k>>
     ELSE /\ \E s \in {Secs[k]} : \E n \in {get_section_sizes(s)} :
               file' = file \o String(s.name) \o String(s.attr)
                            \o Numbers(<<0, s.align, n.size, n.nrelocs, n.data>>, W)
                            \o Raw(write_data(s, n.data)) \o write_relocs(s)
          /\ k' = k + 1 /\ UNCHANGED stage
  /\ UNCHANGED <<prog, version, syms, p, nsecs, nsyms, vsyms, obj, pass>>

----------------------------------------------------------------------------
(* vlink: vobj_read().                                                     *)

CODE  == 1     \* ST_CODE, ST_DATA, ST_UDATA
DATA  == 2
UDATA == 3

ReadHeader ==
  /\ stage = "read"
  /\ \E r \in {Read(1, <<"unsigned", "unsigned">>)} :
        IF r.ok THEN nsecs' = r.v[1] /\ nsyms' = r.v[2] /\ p' = r.p /\ stage' = "read symbols"
                ELSE stage' = "lost" /\ UNCHANGED <<nsecs, nsyms, p>>
  /\ k' = 1 /\ vsyms' = <<>> /\ obj' = [secs |-> <<>>, syms |-> <<>>]
  /\ UNCHANGED <<prog, version, syms, file, pass>>

ReadSymbol ==
  /\ stage = "read symbols"
  /\ IF k > nsyms THEN stage' = "read sections" /\ k' = 1 /\ UNCHANGED <<p, vsyms>>
     ELSE \E r \in {Read(p, <<"string", "unsigned", "unsigned", "unsigned", "signed", "unsigned">>)} :
        /\ IF r.ok
           THEN /\ vsyms' = Append(vsyms, [name |-> r.v[1], type |-> r.v[2], flags |-> r.v[3],
                                           sec |-> r.v[4], val |-> r.v[5]])
                /\ p' = r.p /\ UNCHANGED stage
           ELSE stage' = "lost" /\ UNCHANGED <<p, vsyms>>
        /\ k' = k + 1
  /\ UNCHANGED <<prog, version, syms, file, nsecs, nsyms, obj, pass>>

\* The letters of an attribute are taken one after the other.
Attribute(s, c) ==
  CASE c = "w" -> [s EXCEPT !.write = TRUE]
    [] c = "x" -> [s EXCEPT !.type = CODE, !.exec = TRUE]
    [] c = "c" -> [s EXCEPT !.type = CODE, !.exec = TRUE]
    [] c = "d" -> [s EXCEPT !.type = DATA]
    [] c = "u" -> [s EXCEPT !.type = UDATA, !.uninit = TRUE]
    [] c = "a" -> [s EXCEPT !.alloc = TRUE]
    [] OTHER -> s
Attributes(attr) ==
  FoldLeft(Attribute, [type |-> DATA, write |-> FALSE, exec |-> FALSE, uninit |-> FALSE, alloc |-> FALSE], attr)

lshiftcnt(x) == IF x = 0 THEN 0 ELSE Max({i \in 0 .. 8 * L : x % 2 ^ i = 0})

\* A field of n bits that begins at a bit of the contents, and its bytes.
FieldBytes(at, n) == at \div 8 + 1 .. (at + n - 1) \div 8 + 1
Behind(at, n) == (-(at + n)) % 8
Window(data, at, n) == Big(SubSeq(data, Min(FieldBytes(at, n)), Max(FieldBytes(at, n))))

readreloc(data, at, n) == (Window(data, at, n) \div 2 ^ Behind(at, n)) % 2 ^ n

writereloc(data, at, n, d) ==
  LET new == Window(data, at, n) + ((d % 2 ^ n) - readreloc(data, at, n)) * 2 ^ Behind(at, n)
  IN  [i \in DOMAIN data |-> IF i \in FieldBytes(at, n) THEN Byte(new, Max(FieldBytes(at, n)) - i + 1)
                             ELSE data[i]]

\* A modifier of the type says how the value is checked.
STD_REL_TYPE(type) == type % REL_MOD_S
IsSigned(type) == (type \div REL_MOD_S) % 2 = 1
IsUnsigned(type) == ~IsSigned(type) /\ (type \div REL_MOD_U) % 2 = 1
Representable(type, n) ==
  (IF IsUnsigned(type) THEN 0 ELSE -(2 ^ (n - 1))) .. (IF IsSigned(type) THEN 2 ^ (n - 1) ELSE 2 ^ n) - 1

\* The part of a value that a field takes.  The bits of a mask are in a row.
Normalized(v, mask) ==
  LET high == v \div 2 ^ lshiftcnt(mask)
  IN  IF mask < 0 THEN high ELSE high % (mask \div 2 ^ lshiftcnt(mask) + 1)

\* The value for a field of a relocation, and whether it fits.
InsertValue(r, f, v) ==
  LET x == Normalized(v, f.mask)
  IN  IF f.mask < 0 THEN IF ~IsUnsigned(r.type) /\ f.bsiz < 8 * W THEN sign_extend(x, 8 * W) ELSE x
      ELSE IF IsSigned(r.type) THEN sign_extend(x, f.bsiz) ELSE x
checkrange(r, f, v) == f.mask < 0 => InsertValue(r, f, v) \in Representable(r.type, f.bsiz)

AddTo(data, r, f, v) ==
  LET at == 8 * r.offs + f.bpos
      old == readreloc(data, at, f.bsiz)
  IN  writereloc(data, at, f.bsiz,
                 (IF IsUnsigned(r.type) THEN old ELSE sign_extend(old, f.bsiz)) + InsertValue(r, f, v))

\* Mutant: the fields are not reset, so that the value is added once more.
writesection_MutNoReset(data, r, v) ==
  FoldLeft(LAMBDA d, f : AddTo(d, r, f, v), data, r.insert)

\* Writes a value to the fields of a relocation, up to the first one that it
\* does not fit into; that and those behind it are left at zero.
writesection(data, r, v) ==
  LET Reset(d, f) == writereloc(d, 8 * r.offs + f.bpos, f.bsiz, 0)
      Misfits == {i \in DOMAIN r.insert : ~checkrange(r, r.insert[i], v)}
      written == SubSeq(r.insert, 1, Min(Misfits \cup {Len(r.insert) + 1}) - 1)
  IN  IF STD_REL_TYPE(r.type) = 0 THEN data
      ELSE FoldLeft(LAMBDA d, f : AddTo(d, r, f, v), FoldLeft(Reset, data, r.insert), written)

Target(v) == IF v.type = LABSYM THEN <<"section", v.sec>> ELSE <<"symbol", v.name>>

\* The next field of the last relocation: the same symbol at the same address.
SameReloc(last, sym, offs) == last.sym = sym /\ last.offs = offs

\* One entry of the relocations of a section.  The section shows the addend,
\* for other formats; one without contents has no room for it.
RelocKinds == <<"unsigned", "unsigned", "unsigned", "unsigned", "signed", "signed", "unsigned">>
ReadReloc(acc, n) ==
  LET r == Read(acc.p, RelocKinds)
      sym == r.v[7]
      field == [bpos |-> r.v[3], bsiz |-> r.v[4], mask |-> r.v[5]]
      new == [offs |-> r.v[2], type |-> r.v[1], addend |-> r.v[6], target |-> Target(vsyms[sym]),
              insert |-> <<field>>]
      relocs == IF SameReloc(acc.last, sym, r.v[2])
                THEN [acc.relocs EXCEPT ![Len(acc.relocs)].insert = Append(@, field)]
                ELSE Append(acc.relocs, new)
  IN  IF acc.end # "" THEN acc
      ELSE IF ~r.ok THEN [acc EXCEPT !.end = "lost"]
      ELSE IF sym \notin 1 .. nsyms THEN [acc EXCEPT !.end = "error"]
      ELSE IF vsyms[sym].type \notin {LABSYM, IMPORT} THEN [acc EXCEPT !.end = "error"]
      ELSE [acc EXCEPT !.p = r.p, !.relocs = relocs, !.last = [sym |-> sym, offs |-> r.v[2]],
                       !.data = IF acc.uninit THEN @ ELSE writesection(@, Last(relocs), r.v[6]),
                       !.end = IF acc.uninit /\ STD_REL_TYPE(Last(relocs).type) # 0 THEN "crash" ELSE @]

\* read_section().
ReadSection ==
  /\ stage = "read sections"
  /\ IF k > nsecs THEN stage' = "add symbols" /\ UNCHANGED <<k, p, obj>>
     ELSE \E h \in {Read(p, <<"string", "string", "unsigned", "unsigned", "unsigned", "unsigned", "unsigned">>)} :
          IF ~h.ok \/ h.p + h.v[7] - 1 > Len(file) THEN stage' = "lost" /\ UNCHANGED <<k, p, obj>>
          ELSE \E attr \in {Attributes(h.v[2])} :
               \E data \in {IF attr.type = UDATA THEN <<>>
                            ELSE [i \in 1 .. h.v[5] |-> IF i <= h.v[7] THEN file[h.p + i - 1][2] ELSE 0]} :
               \E rel \in {FoldLeft(ReadReloc, [p |-> h.p + h.v[7], relocs |-> <<>>, data |-> data, end |-> "",
                                                uninit |-> attr.type = UDATA,
                                                last |-> [sym |-> 0, offs |-> -1]],
                                    [n \in 1 .. h.v[6] |-> n])} :
                 /\ obj' = [obj EXCEPT !.secs = Append(@,
                      [name |-> h.v[1], attr |-> attr, align |-> lshiftcnt(h.v[4]), size |-> h.v[5],
                       data |-> rel.data, relocs |-> rel.relocs])]
                 /\ p' = rel.p /\ k' = k + 1
                 /\ stage' = IF rel.end # "" THEN rel.end ELSE stage
  /\ UNCHANGED <<prog, version, syms, file, nsecs, nsyms, vsyms, pass>>

\* The symbols of the sections and the undefined ones are not added.
ObjSymbols ==
  LET added == SelectSeq(vsyms, LAMBDA v : v.flags % 8 # TYPE_SECTION /\ v.type # IMPORT)
  IN  [i \in DOMAIN added |->
         [name |-> added[i].name, val |-> added[i].val, global |-> (added[i].flags \div EXPORT) % 2 = 1,
          sec |-> IF added[i].type = EXPRESSION THEN 0 ELSE added[i].sec]]

AddSymbols ==
  /\ stage = "add symbols"
  /\ stage' = IF \E v \in Range(vsyms) : \/ v.type \notin {LABSYM, IMPORT, EXPRESSION}
                                         \/ v.type = LABSYM /\ v.sec \notin 1 .. nsecs
              THEN "error" ELSE IF pass = 1 THEN "rewrite" ELSE "done"
  /\ obj' = [obj EXCEPT !.syms = ObjSymbols]
  /\ UNCHANGED <<prog, version, syms, file, k, p, nsecs, nsyms, vsyms, pass>>

----------------------------------------------------------------------------
(* vlink -r: vobj_writeobject().  The sections of one object stay as they   *)
(* are, in their order and from address 0.                                  *)

\* vobj_initwrite(): the symbols of a section, the absolute ones with the first,
\* and behind them the names that it is the first to refer to.
OutSymbols ==
  LET Of(i) == SelectSeq(obj.syms, LAMBDA s : s.sec = i \/ (i = 1 /\ s.sec = 0))
      Import(n) == [name |-> n, type |-> IMPORT, flags |-> EXPORT, sec |-> 0, val |-> 0]
      Xref(out, r) == IF r.target[1] = "section" \/ \E s \in Range(out) : s.name = r.target[2]
                      THEN out ELSE Append(out, Import(r.target[2]))
      Written(s) == [name |-> s.name, type |-> IF s.sec = 0 THEN EXPRESSION ELSE LABSYM,
                     flags |-> IF s.global THEN EXPORT ELSE 0, sec |-> s.sec, val |-> s.val]
      Section(out, i) == FoldLeft(Xref, out \o [j \in DOMAIN Of(i) |-> Written(Of(i)[j])], obj.secs[i].relocs)
  IN  FoldLeft(Section, <<>>, [i \in DOMAIN obj.secs |-> i])

SymbolIndex(target) ==
  IF target[1] = "section" THEN target[2]
  ELSE Len(obj.secs) + CHOOSE i \in DOMAIN OutSymbols : OutSymbols[i].name = target[2]

vobj_symbols ==
  /\ stage = "rewrite" /\ stage' = "rewrite sections" /\ k' = 1
  /\ \E out \in {OutSymbols} :
       file' = Numbers(<<Len(obj.secs), Len(obj.secs) + Len(out)>>, L)
               \o FoldLeftDomain(LAMBDA acc, i : acc \o String(obj.secs[i].name)
                                                    \o Numbers(<<LABSYM, TYPE_SECTION, i, 0, 0>>, L), <<>>, obj.secs)
               \o FoldLeft(LAMBDA acc, s : acc \o String(s.name)
                                               \o Numbers(<<s.type, s.flags, s.sec, s.val, 0>>, L), <<>>, out)
  /\ UNCHANGED <<prog, version, syms, p, nsecs, nsyms, vsyms, obj, pass>>

vobj_attr(a) ==
  (IF a.alloc THEN <<"a">> ELSE <<>>)
  \o (IF a.uninit \/ a.type = UDATA THEN <<"u">> ELSE IF a.type = DATA THEN <<"d">> ELSE <<"c">>)
  \o <<"r">> \o (IF a.write THEN <<"w">> ELSE <<>>) \o (IF a.exec THEN <<"x">> ELSE <<>>)

\* Every field of a relocation is an entry of its own.
write_reloc(r) ==
  FoldLeft(LAMBDA out, f : out \o Numbers(<<r.type, r.offs, f.bpos, f.bsiz, f.mask, r.addend,
                                            SymbolIndex(r.target)>>, L), <<>>, r.insert)

vobj_section ==
  /\ stage = "rewrite sections"
  /\ IF k > Len(obj.secs) THEN stage' = "read" /\ pass' = 2 /\ UNCHANGED <<file, k>>
     ELSE /\ \E s \in {obj.secs[k]} :
             \E rels \in {SelectSeq(s.relocs, LAMBDA r : r.target[1] = "section")
                          \o SelectSeq(s.relocs, LAMBDA r : r.target[1] = "symbol")} :
               file' = file \o String(s.name) \o String(vobj_attr(s.attr))
                 \o Numbers(<<IF s.attr.alloc THEN 0 ELSE 4, 2 ^ s.align, s.size,
                              FoldLeft(LAMBDA n, r : n + Len(r.insert), 0, rels), Len(s.data)>>, L)
                 \o Raw(s.data) \o FoldLeft(LAMBDA out, r : out \o write_reloc(r), <<>>, rels)
          /\ k' = k + 1 /\ UNCHANGED <<stage, pass>>
  /\ UNCHANGED <<prog, version, syms, p, nsecs, nsyms, vsyms, obj>>

----------------------------------------------------------------------------

Init ==
  /\ prog \in Programs /\ version \in Versions
  /\ stage = "fix" /\ syms = <<>> /\ file = <<>> /\ k = 1
  /\ p = 1 /\ nsecs = 0 /\ nsyms = 0 /\ vsyms = <<>> /\ obj = [secs |-> <<>>, syms |-> <<>>] /\ pass = 1

Next == \/ fix_labels \/ WriteHeader \/ WriteSymbol \/ WriteSection
        \/ ReadHeader \/ ReadSymbol \/ ReadSection \/ AddSymbols
        \/ vobj_symbols \/ vobj_section

Spec == Init /\ [][Next]_vars

----------------------------------------------------------------------------
(* Properties.  What the program says is taken from its atoms and symbols   *)
(* before the conversion, what the object says from the reader's result.    *)

Ended == stage \in {"rewrite", "done"}     \* an object has been read

InStep ==
  /\ stage \notin {"lost", "error"}
  /\ Ended => p = Len(file) + 1

\* The address of an atom, as the assembler laid it out.
Start(s, n) == pcalign(s.atoms[n], FoldLeft(LAMBDA pc, a : pcalign(a, pc) + atom_size(a), 0,
                                            SubSeq(s.atoms, 1, n - 1)))
Size(s) == FoldLeft(LAMBDA pc, a : pcalign(a, pc) + atom_size(a), 0, s.atoms)

\* The bits of the contents, the highest one of a byte first; the place of a
\* field in an atom.
Bit(bytes, i) == (bytes[i \div 8 + 1] \div 2 ^ (7 - (i % 8))) % 2
FieldStart(r) == 8 * r.byteoffset + r.bitoffset
FieldBits(r) == FieldStart(r) .. FieldStart(r) + r.size - 1

Holds(r) == r.mask < 0 => Normalized(r.addend, r.mask) \in Representable(r.type, r.size)

\* What a field shows: its part of the addend when that fits, and that of every
\* field at the same place does.  A field that is too small is zero.
Shown(a, r, bytes, at) ==
  LET Value(v) == \A j \in 1 .. r.size :
                    Bit(bytes, at + FieldStart(r) + r.size - j) = (v \div 2 ^ (j - 1)) % 2
  IN  /\ (\A x \in Range(a.relocs) : x.byteoffset = r.byteoffset => Holds(x)) =>
            Value(Normalized(r.addend, r.mask))
      /\ ~Holds(r) => Value(0)

\* The reader meets a number where it expects one and a string where it expects
\* one, with every index in its range, and it ends where the file ends.
\* Sections keep their order, name, size and alignment.  Every bit of an atom
\* that no relocation is about has its address and value, though zeros at the
\* end are not stored and there is padding between the atoms; a field of a
\* relocation shows the addend after both readings, which is written to it each
\* time.  A section without contents is that in the linker, too.
SameContents ==
  /\ InStep
  /\ Ended =>
      /\ Len(obj.secs) = Len(Secs)
      /\ \A i \in DOMAIN Secs : LET s == Secs[i] o == obj.secs[i] IN
           /\ o.name = s.name /\ o.size = Size(s) /\ 2 ^ o.align = s.align
           /\ o.attr = Attributes(s.attr)
           /\ o.attr.type # UDATA =>
                \A n \in DOMAIN s.atoms : LET a == s.atoms[n] IN
                  /\ \A b \in 0 .. 8 * Len(a.octets) - 1 :
                       \/ \E r \in Range(a.relocs) : b \in FieldBits(r)
                       \/ Bit(o.data, 8 * Start(s, n) + b) = Bit(a.octets, b)
                  /\ \A r \in Range(a.relocs) : Shown(a, r, o.data, 8 * Start(s, n))

\* The symbols of the object are those of the program: labels and what is equal
\* to one keep section and offset, the others their value.  Temporary symbols
\* and the imported ones are left out.
Meaning(s) ==
  LET base == IF s.base = 0 THEN [pc |-> 0, sec |-> 0, abslabel |-> TRUE] ELSE prog.syms[s.base]
  IN  [name |-> s.name, global |-> s.flags = EXPORT,
       sec |-> CASE s.type = LABSYM /\ ~s.abslabel -> s.sec
                 [] s.type = EXPRESSION /\ ~base.abslabel -> base.sec
                 [] OTHER -> 0,
       val |-> IF s.type = LABSYM THEN s.pc ELSE base.pc + s.off]
Defined(s) == /\ ~s.internal /\ s.type # IMPORT
              /\ ~(s.type = EXPRESSION /\ s.base # 0 /\ prog.syms[s.base].type = IMPORT)
SameSymbols ==
  Ended => Range(obj.syms) = {Meaning(s) : s \in {x \in Range(prog.syms) : Defined(x)}}

\* The relocations of the object are those of the program, field by field: a
\* label is replaced by its section, as its offset is in the addend already,
\* and an imported symbol keeps its name.
AsmRelocs(i) ==
  UNION {{[offs |-> Start(Secs[i], n) + r.byteoffset, type |-> r.type, bpos |-> r.bitoffset, bsiz |-> r.size,
           mask |-> r.mask, addend |-> r.addend,
           target |-> IF prog.syms[r.sym].type = IMPORT THEN <<"symbol", prog.syms[r.sym].name>>
                      ELSE <<"section", prog.syms[r.sym].sec>>] :
            r \in Range(Secs[i].atoms[n].relocs)} : n \in DOMAIN Secs[i].atoms}
ObjRelocs(i) ==
  UNION {{[offs |-> r.offs, type |-> r.type, bpos |-> f.bpos, bsiz |-> f.bsiz, mask |-> f.mask,
           addend |-> r.addend, target |-> r.target] : f \in Range(r.insert)} : r \in Range(obj.secs[i].relocs)}
SameRelocs == Ended => \A i \in DOMAIN Secs : ObjRelocs(i) = AsmRelocs(i)
=============================================================================
