------------------------------- MODULE Board -------------------------------
(***************************************************************************)
(* What the megaphone server promises its clients, without threads, locks, *)
(* directories or numbers of limited width: a message board.  Registered   *)
(* members open feeds and add posts to them; a feed is born with the first *)
(* post of the member who opens it, a post carries the pseudo of a member, *)
(* and nothing posted is ever changed or removed.  When the board is no    *)
(* longer exact, feeds may be empty and posts be signed by anybody and in  *)
(* any feed, but what is on the board stays as it is and where it is.      *)
(* Feeds.tla is shown to implement this module.                            *)
(***************************************************************************)
EXTENDS Naturals, Sequences

CONSTANTS Pseudos,      \* the pseudos members register with
          Payloads      \* what a post may hold

VARIABLES members,      \* the pseudos registered so far
          board,        \* the feeds, in the order they were opened
          exact         \* the board is kept exactly

boardVars == <<members, board, exact>>

Post == [pseudo : Pseudos, data : Payloads]
Feed == [creator : Pseudos, posts : Seq(Post)]

BoardTypeOK ==
  /\ members \in SUBSET Pseudos
  /\ board \in Seq(Feed)
  /\ exact \in BOOLEAN

BoardInit ==
  /\ members = {}
  /\ board = <<>>

Join(p) ==
  /\ members' = members \cup {p}
  /\ UNCHANGED board

(* The creator's post opens the feed: nobody sees the feed without it. *)
OpenFeed(p, d) ==
  /\ p \in members
  /\ board' = Append(board, [creator |-> p,
                             posts   |-> <<[pseudo |-> p, data |-> d]>>])
  /\ UNCHANGED members

AddPost(p, d, f) ==
  /\ f \in 1..Len(board)
  /\ board' = [board EXCEPT ![f].posts = Append(@, [pseudo |-> p, data |-> d])]
  /\ UNCHANGED members

OpenEmpty(p) ==
  /\ board' = Append(board, [creator |-> p, posts |-> <<>>])
  /\ members \subseteq members'

Kept ==
  \/ \E p \in Pseudos : Join(p)
  \/ \E p \in Pseudos, d \in Payloads : OpenFeed(p, d)
  \/ \E p \in members, d \in Payloads, f \in 1..Len(board) : AddPost(p, d, f)

OnlyGrows ==
  \/ UNCHANGED board /\ members \subseteq members'
  \/ \E p \in Pseudos : OpenEmpty(p)
  \/ \E p \in Pseudos, d \in Payloads, f \in 1..Len(board) : AddPost(p, d, f)

(* Once it is not exact, a board does not become so again. *)
BoardNext ==
  \/ exact' /\ exact /\ Kept
  \/ ~ exact' /\ OnlyGrows

BoardSpec == BoardInit /\ [][BoardNext]_boardVars
=============================================================================
