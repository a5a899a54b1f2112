---------------------------- MODULE MCLastPosts ----------------------------
(* LastPosts for TLC.  Ids, pseudos and payloads may be permuted. *)
EXTENDS LastPosts, TLC

Symmetry == Permutations(Ids) \cup Permutations(Pseudos) \cup Permutations(Payloads)
=============================================================================
