------------------------------ MODULE MCStress ------------------------------
(* The login, then two searches in turn, then two at once.                 *)
EXTENDS Stress

SmallPlan == <<Login>> \o Loops(<<1>>, 2) \o Loops(<<2>>, 1)
=============================================================================
