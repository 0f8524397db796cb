----------------------------- MODULE ParamTables -----------------------------
(***************************************************************************)
(* The language the providers' parameter tables are written in.            *)
(*                                                                         *)
(* A table is a sequence of rows, one for each ParameterConfig, in the     *)
(* order transformUsingProviderConfig takes them.  Numbers are counted in  *)
(* hundredths; Far is further than any a table names, and stands for the   *)
(* one bound that is beyond TLC (4294967295).                              *)
(*                                                                         *)
(* Source: providers/types.ts, and the helpers of open-ai-base/index.ts.   *)
(***************************************************************************)
EXTENDS Integers, Sequences

Far == 100000000
Unset == 2 * Far

(* of, to   the parameter the row is for, and the field it sets            *)
(* default  sent for 'lightport-default', and, of a must row, for a        *)
(*          parameter nobody said                                          *)
(* lo, hi   min and max                                                    *)
(* reads    what the row's transform makes its value from; {} is none      *)
(* truthy   those of them it takes a zero of for unsaid                    *)
(* over     <<p, q>> where p is taken and q left out if both are said      *)
None == [is |-> "none", n |-> 0]
Plain(p) ==
  [of |-> p, to |-> p, default |-> None, must |-> FALSE, lo |-> -Far, hi |-> Far,
   reads |-> {}, truthy |-> {}, over |-> {}]

Word(p) == [Plain(p) EXCEPT !.default = [is |-> "word", n |-> 0]]
Number(p, default, lo, hi) ==
  [Plain(p) EXCEPT !.default = IF default = Unset THEN None
                               ELSE [is |-> "number", n |-> default],
                   !.lo = lo, !.hi = hi]
Makes(reads, p) == [Plain(p) EXCEPT !.reads = reads]
Made(p) == Makes({p}, p)
MakesTruthy(reads, p) == [Makes(reads, p) EXCEPT !.truthy = reads]

(* A row that makes a word of its own where there is nothing to make one   *)
(* from.                                                                   *)
MustMake(reads, p) ==
  [Makes(reads, p) EXCEPT !.default = [is |-> "word", n |-> 0], !.must = TRUE]

To(field, row) == [row EXCEPT !.to = field]
Must(row) == [row EXCEPT !.must = TRUE]

Same(names) == [i \in DOMAIN names |-> Plain(names[i])]

(* Rows that all make the same field, each from all of the parameters.     *)
Together(field, names, Make(_)) ==
  [i \in DOMAIN names |-> To(field, Make(names[i]))]

Params(config) == {config[i].of : i \in DOMAIN config}
Fields(config) == {config[i].to : i \in DOMAIN config}
RowsOf(p, config) == SelectSeq(config, LAMBDA r : r.of = p)
Exclude(names, config) == SelectSeq(config, LAMBDA r : r.of \notin names)

(* { ...base, ...extra }: a key the two share keeps its place and changes  *)
(* its config; the others of extra come last.                                *)
Spread(base, extra) ==
  LET replaced(i) == base[i].of \in Params(extra)
      first(i) == \A j \in 1 .. i - 1 : base[j].of # base[i].of
      spread[i \in 0 .. Len(base)] ==
        IF i = 0 THEN <<>>
        ELSE spread[i - 1] \o
             (IF ~replaced(i) THEN <<base[i]>>
              ELSE IF first(i) THEN RowsOf(base[i].of, extra) ELSE <<>>)
  IN  spread[Len(base)] \o Exclude(Params(base), extra)
=============================================================================
