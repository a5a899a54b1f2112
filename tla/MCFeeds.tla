------------------------------ MODULE MCFeeds ------------------------------
(* Feeds for TLC.  The module only compares payloads, so they are numbers  *)
(* that clients send in order: any other run is one of these with its      *)
(* payloads renamed.  Unlike a symmetry set this is sound for liveness.    *)
EXTENDS Feeds

InTurn == \A d, e \in Payloads : d < e /\ author[e] # None => author[d] # None
=============================================================================
