------------------------------ MODULE MCStats -------------------------------
(* Two workers, three processes, two kinds of responses. *)
EXTENDS Stats, TLC

StatsSymmetry == Permutations(Workers) \cup Permutations(Pids) \cup Permutations(Keys)
=============================================================================
