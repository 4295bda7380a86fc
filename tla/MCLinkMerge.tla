----------------------------- MODULE MCLinkMerge -----------------------------
(* Three sections of any kind for TLC, linked with each of the options.    *)
EXTENDS LinkMerge

Sec(n, ty, sz, al, in) ==
  [name |-> n, type |-> ty, size |-> sz, align |-> al, init |-> in, once |-> FALSE, named |-> sz # 0,
   protection |-> CASE ty = CODE -> {"read", "exec"} [] n = "end" -> {"read"} [] OTHER -> {"read", "write"},
   commons |-> <<>>]
Kinds ==
  {Sec("", CODE, 3, 1, 3), Sec("text", CODE, 2, 2, 2), Sec("", CODE, 0, 4, 0),
   Sec("data", DATA, 3, 2, 1), Sec("", DATA, 2, 4, 2), Sec("end", DATA, 0, 2, 0),
   Sec("bss", UDATA, 3, 2, 0), Sec("", UDATA, 0, 4, 0),
   [Sec(COMMON, UDATA, 0, 1, 0) EXCEPT !.named = TRUE,
                                       !.commons = <<[size |-> 3, align |-> 1], [size |-> 2, align |-> 4]>>]}
Once(k) == [k EXCEPT !.once = TRUE]
Data == Sec("data", DATA, 3, 2, 1)

Sections == [1 .. 3 -> Kinds]

Default == [target |-> "elf", small_code |-> FALSE, small_data |-> FALSE, multibase |-> FALSE,
            merge_all |-> FALSE, merge_same_type |-> FALSE, merge_same_attr |-> FALSE,
            auto_merge |-> FALSE, dest_object |-> FALSE, keep_sect_order |-> FALSE,
            baseincr |-> FALSE, gc |-> "none", start |-> 1]
Options ==
  {[Default EXCEPT !.target = "aout", !.baseincr = TRUE],
   [Default EXCEPT !.target = "hunk", !.start = 0], [Default EXCEPT !.target = "hunk", !.small_data = TRUE],
   [Default EXCEPT !.small_code = TRUE, !.baseincr = TRUE], [Default EXCEPT !.merge_all = TRUE],
   [Default EXCEPT !.auto_merge = TRUE], [Default EXCEPT !.auto_merge = TRUE, !.gc = "all"],
   [Default EXCEPT !.dest_object = TRUE, !.merge_all = TRUE],
   [Default EXCEPT !.keep_sect_order = TRUE, !.auto_merge = TRUE],
   [Default EXCEPT !.merge_same_type = TRUE, !.multibase = TRUE],
   [Default EXCEPT !.merge_same_attr = TRUE, !.auto_merge = TRUE],
   [Default EXCEPT !.gc = "empty"]}

\* A section for common symbols that have been defined elsewhere.
Defined == Sec(COMMON, UDATA, 0, 1, 0)

Ref(a, b, k) == [from |-> a, to |-> b, sym |-> 0, kind |-> k]
References(secs) ==
  {{}, {Ref(1, 3, "pc")}, {Ref(1, 3, "pc"), Ref(2, 3, "pc")},
   {Ref(1, 2, "abs"), Ref(2, 3, "abs")},
   {Ref(1, 2, "sd"), Ref(1, 3, "sd")}}
  \cup IF secs[2].name = COMMON THEN {{[from |-> 1, to |-> 2, sym |-> 2, kind |-> "pc"]}} ELSE {}

MCPrograms ==
  {p \in UNION {[secs : {s}, refs : References(s), prot : {{}}, opt : Options] : s \in Sections} :
     /\ p.opt.gc = "all" => p.secs[1].type = CODE
     /\ \A r \in p.refs : p.secs[r.from].size > 0}
  \cup [secs : {<<Sec("", CODE, 2, 2, 2), Data, Sec("", CODE, 0, 4, 0)>>},
         refs : {{}, {Ref(2, 3, "abs")}}, prot : {{2}}, opt : {o \in Options : o.gc # "none"}]
  \cup [secs : {<<Sec("end", DATA, 0, 1, 0), Defined, Sec("text", CODE, 2, 2, 2)>>},
         refs : {{}}, prot : {{}}, opt : {o \in Options : o.gc # "all"}]
  \cup [secs : {<<Once(Data), Once(Data)>>}, refs : {{}}, prot : {{}}, opt : Options \ {o \in Options : o.gc = "all"}]
=============================================================================
