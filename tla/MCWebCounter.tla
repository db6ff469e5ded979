---------------------------- MODULE MCWebCounter ----------------------------
(* One item, two of which are shown in stock.                              *)
EXTENDS WebCounter, TLC

TwoEach == [i \in Items |-> 2]
\* The methods differ in name only.
Symmetric == Permutations(Methods)
=============================================================================
