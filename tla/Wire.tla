-------------------------------- MODULE Wire --------------------------------
(***************************************************************************)
(* Requests and answers as bytes, and how a byte stream is cut into them.  *)
(*                                                                         *)
(* A message is the bytes of its fields in network order followed by CR    *)
(* LF.  The fields are not escaped: any byte of a number may be 13, which  *)
(* is CR.  A pseudo and an address are one byte each, and a text two,      *)
(* whatever length it has.                                                 *)
(***************************************************************************)
EXTENDS Integers, FiniteSetsExt, SequencesExt

Byte == 0..255
Uint16 == 0..65535

CR == 13
LF == 10
CRLF == <<CR, LF>>

REGISTRATION == 1
NEWPOST == 2
LASTPOSTS == 3
SUBSCRIBE == 4
UPLOAD == 5
DOWNLOAD == 6
Types == REGISTRATION..DOWNLOAD

ERR_NOID == 25
ERR_FEEDNB == 26
ERR_NOFILE == 27
ERR_FEEDMAX == 30
ERR_IDMAX == 31
Errors == ERR_NOID..ERR_IDMAX

-----------------------------------------------------------------------------
(* Fields: htons and appendbuf, extractbuf and ntohs.  What lies beyond    *)
(* the bytes received is the zeroed rest of the buffer.                    *)

Word(n) == <<n \div 256, n % 256>>

ByteAt(b, i) == IF i \in DOMAIN b THEN b[i] ELSE 0
WordAt(b, i) == 256 * ByteAt(b, i) + ByteAt(b, i + 1)

(* The type is in the 5 low bits of a header, the user in the others. *)
Header(type, id) == type + 32 * id
TypeIn(header) == header % 32                   \* get_rq_type
IdIn(header) == header \div 32                  \* get_id

-----------------------------------------------------------------------------
(* Requests *)

Registration(pseudo) == [type |-> REGISTRATION, id |-> 0, pseudo |-> pseudo]

Text(len, d) == IF len = 0 THEN <<>> ELSE d
TextAt(b, i, len) == Text(len, <<ByteAt(b, i), ByteAt(b, i + 1)>>)

(* hton_clientrqrg, hton_clientrqcl *)
RequestBytes(r) ==
  Word(Header(r.type, r.id)) \o
  IF r.type = REGISTRATION THEN <<r.pseudo>>
  ELSE Word(r.feed) \o Word(r.count) \o <<r.len>> \o Text(r.len, r.data)

(* ntoh_clientrqrg, ntoh_clientrqcl *)
RequestIn(b) ==
  LET header == WordAt(b, 1) IN
  IF TypeIn(header) = REGISTRATION
  THEN [type |-> REGISTRATION, id |-> IdIn(header), pseudo |-> ByteAt(b, 3)]
  ELSE [type |-> TypeIn(header), id |-> IdIn(header),
        feed |-> WordAt(b, 3), count |-> WordAt(b, 5), len |-> ByteAt(b, 7),
        data |-> TextAt(b, 8, ByteAt(b, 7))]

-----------------------------------------------------------------------------
(* Answers: a head, and for LASTPOSTS the posts it counts. *)

(* hton_serverrqcl, hton_serverrqsb *)
HeadBytes(h) ==
  Word(Header(h.type, h.id)) \o Word(h.feed) \o Word(h.count) \o
  IF h.type = SUBSCRIBE THEN <<h.addr>> ELSE <<>>

(* ntoh_serverrqcl, ntoh_serverrqsb *)
HeadIn(b) ==
  LET type == TypeIn(WordAt(b, 1)) IN
  [type |-> type, id |-> IdIn(WordAt(b, 1)),
   feed |-> WordAt(b, 3), count |-> WordAt(b, 5),
   addr |-> IF type = SUBSCRIBE THEN ByteAt(b, 7) ELSE 0]

(* hton_serverrqlp, ntoh_serverrqlp *)
PostBytes(p) ==
  Word(p.feed) \o <<p.creator, p.pseudo, p.len>> \o Text(p.len, p.data)
PostIn(b) ==
  [feed |-> WordAt(b, 1), creator |-> ByteAt(b, 3), pseudo |-> ByteAt(b, 4),
   len |-> ByteAt(b, 5), data |-> TextAt(b, 6, ByteAt(b, 5))]

Frames(a) == <<HeadBytes(a.head)>>
             \o [i \in DOMAIN a.posts |-> PostBytes(a.posts[i])]

-----------------------------------------------------------------------------
(* Cutting: recv_request *)

HasCR(b) == CR \in Range(b)
FirstCR(b) == Min({i \in DOMAIN b : b[i] = CR})

(* The byte after CR is compared even when it has not come yet. *)
EndsInCRLF(b) == ByteAt(b, FirstCR(b) + 1) = LF

(* Where the next request starts. *)
NextStart(b) == FirstCR(b) + IF EndsInCRLF(b) THEN 2 ELSE 1

(* What the caller keeps for the next request. *)
Rest(b) == SubSeq(b, NextStart(b), Len(b))

(* What it reads of this one: the bytes before CR, and of those after it   *)
(* the last, for memset starts one byte early.                             *)
Cut(b) == [i \in DOMAIN b |->
             IF i \in (NextStart(b) - 1)..(Len(b) - 1) THEN 0 ELSE b[i]]
=============================================================================
