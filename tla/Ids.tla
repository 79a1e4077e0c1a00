---------------------------------- MODULE Ids ----------------------------------
(***************************************************************************)
(* The identifiers of the CSV files and the integers that seed_csv.py      *)
(* makes of them.  An identifier is a prefix of letters and a sequence of  *)
(* digits, like DRV00017; which letters the prefix has matters only for    *)
(* telling two of them apart.                                              *)
(***************************************************************************)
EXTENDS Integers, SequencesExt

Id(prefix, digits) == [prefix |-> prefix, digits |-> digits]
Blank == Id("", <<>>)
Identifiers == [prefix : STRING, digits : Seq(0..9)]

None == -1            \* NULL, or a value that a client leaves out

(* Leading zeros or digits alone are no exception for int(); what the      *)
(* pattern demands is a letter before and a digit at the end.              *)
WellFormed(value) == value.prefix # "" /\ value.digits # <<>>

DropsZeros(digits) ==          \* mutant: zeros are dropped wherever they are
  FoldLeft(LAMBDA n, d : IF d = 0 THEN n ELSE 10 * n + d, 0, digits)

Number(digits) == FoldLeft(LAMBDA n, d : 10 * n + d, 0, digits)

Raises(value) == value # Blank /\ ~WellFormed(value)

ToIntOrNone(value) == IF value = Blank THEN None ELSE Number(value.digits)

(* A row with its identifier columns converted. *)
TransformRow(row, idCols) ==
  [c \in DOMAIN row |-> IF c \in idCols THEN ToIntOrNone(row[c]) ELSE row[c]]
=============================================================================
