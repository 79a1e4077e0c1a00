------------------------------- MODULE MCSearch -------------------------------
(* Three rows, two drivers or fewer, and three parents.                    *)
EXTENDS Search

D(digits) == Id("D", digits)

DriversFile(ids) ==
  [i \in DOMAIN ids |-> [id |-> ids[i], name |-> <<"Ann", "Bob">>[i]]]

ParentsFile ==
  [i \in 1..3 |-> [id |-> Id("L", <<i - 1>>), state |-> <<"TX", "CA", "TX">>[i]]]

RowsFile(ids, drivers, parents) ==
  [i \in 1..3 |->
    [id |-> Id("T", ids[i]), driver |-> drivers[i], parent |-> ParentsFile[parents[i]].id,
     day |-> <<2, 1, 2>>[i], state |-> <<"CA", "TX", "TX">>[i], line |-> i]]

ImageOf(ids, rowIds, refs, parents) ==
  [drivers |-> DriversFile(ids), parents |-> ParentsFile,
   rows |-> RowsFile(rowIds, refs, parents)]

Image(ids, rowIds, refs) == ImageOf(ids, rowIds, refs, <<1, 2, 3>>)

(* The last one is the greatest INTEGER here. *)
Plainly == <<<<1, 0>>, <<0, 1>>, <<1, 1>>>>

LegalImages ==
  {Image(<<D(<<0, 1>>), D(<<1, 0>>)>>, Plainly, refs) :
     refs \in [1..3 -> {D(<<0, 1>>), D(<<1, 0>>), Blank}]}

(* Lengths that differ, prefixes that differ, digits or letters missing,   *)
(* keys or parents missing, a number too large, a parent of two rows.      *)
OddImages ==
  {Image(ids, Plainly, <<Blank, D(<<1>>), D(<<0, 1>>)>>) :
     ids \in {<<D(<<1>>)>>, <<D(<<1>>), D(<<0, 1>>)>>, <<D(<<1>>), Id("E", <<1>>)>>,
              <<Id("", <<1>>)>>, <<D(<<>>)>>, <<Blank>>, <<D(<<0>>)>>}}
  \cup
  {Image(<<D(<<1>>)>>, rowIds, <<D(<<1>>), Blank, ref>>) :
     rowIds \in {Plainly, <<<<1>>, <<0, 1>>, <<1, 1>>>>, <<<<1, 0>>, <<0, 1>>, <<1, 2>>>>},
     ref \in {D(<<1>>), D(<<>>), Id("", <<1>>)}}
  \cup
  {ImageOf(<<D(<<1>>)>>, Plainly, <<D(<<1>>), Blank, D(<<1>>)>>, <<1, 2, 1>>)}

SomeImages == LegalImages \cup OddImages

NoFilter ==
  [listed |-> FALSE, drivers |-> {}, from |-> None, to |-> None, state |-> ""]

SomeFilters ==
  {NoFilter}
  \cup {[NoFilter EXCEPT !.listed = TRUE, !.drivers = ds] : ds \in {{}, {1}, {1, 10}}}
  \cup {[NoFilter EXCEPT !.from = 2], [NoFilter EXCEPT !.to = 1],
        [NoFilter EXCEPT !.state = "TX"]}
=============================================================================
