----------------------------- MODULE MCExchange -----------------------------
(* Exchange for TLC: pseudos are 97 and 98, texts 120 66 and 121 66, which *)
(* read as a header are those of a post.  13 may be the number of a new    *)
(* feed, 269 is a length whose low byte is 13, and the header of user 104  *)
(* starts with 13.                                                         *)
EXTENDS Exchange

Rq(type, feed, count, len) ==
  [type |-> type, feed |-> feed, count |-> count, len |-> len,
   data |-> Text(len, <<120, 66>>)]

SignUp == [type |-> REGISTRATION, pseudo |-> 97]
CONSTANTS c1, c2
MCInputs == c1 :> {SignUp, Rq(NEWPOST, 2, 0, 269)}
            @@ c2 :> {SignUp, Rq(LASTPOSTS, 0, 0, 0), Rq(SUBSCRIBE, 1, 0, 0), Rq(DOWNLOAD, 1, 6228, 1)}
MCLongInputs == c1 :> {Rq(NEWPOST, 1, 0, n) : n \in {12, 13, 269}}
MCEarlier == <<[id |-> 3, pseudo |-> 98]>>
MCPost == [feed |-> 1, creator |-> 97, pseudo |-> 97, len |-> 2,
           data |-> <<121, 66>>]
=============================================================================
