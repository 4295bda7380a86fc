----------------------------- MODULE MCNumbers -----------------------------
(***************************************************************************)
(* Numbers with words of 10 bits and addresses of 5: literals of every base *)
(* around the limits of an address, a word and a thuge, and operands with   *)
(* digits around the limits of a digit.                                     *)
(***************************************************************************)
EXTENDS Numbers

Texts(b, digits, lengths) == {[base |-> b, text |-> t] : t \in UNION {[1..n -> digits] : n \in lengths}}

(* Texts that begin with the highest digit and end with zeros.              *)
Steps(b, n, m) == [base |-> b, text |-> [i \in 1..n + m |-> IF i <= n THEN b - 1 ELSE 0]]

MCLiterals ==
  {Steps(2, n, m) : n \in {1, 5, 9, 11}, m \in {0, 1, 5, 6, 11}}
    \cup {Steps(8, n, m) : n \in 1..4, m \in {0, 3}}
    \cup Texts(16, {0, 8, 15}, {2, 5}) \cup Texts(10, {1, 3, 9}, 1..2)

(* The small numbers are counts of shifts and widths of fields, too.        *)
MCOperands ==
  {huge_from_int(i) : i \in -2..HUGEBITS}
    \cup {FromDigits(p) : p \in [1..4 -> {0, 1, 31}] \cup [1..4 -> {0, 16}]}

=============================================================================
